--------------------------- MODULE InflateProofs ---------------------------
(***************************************************************************)
(* Proofs about Inflate for every input, capacity, chunk width and length  *)
(* limit.  The inductive invariant follows a copy through its loop: the    *)
(* bytes copied so far repeat those dist before them, although a wide copy *)
(* writes past the end of the reference and reads bytes it wrote itself.   *)
(***************************************************************************)
EXTENDS Inflate, TLAPS

min(a, b) == IF a < b THEN a ELSE b
Copying == pc \in {"wide", "bytes"}

BufferInv == \A k \in 0 .. dst_pos - 1 : dst[k] \in Byte
CopyInv == Copying =>
  /\ dist \in 1 .. dst_pos /\ len \in MIN_LEN .. MAX_LEN
  /\ i < len /\ dst_pos + len <= dst_cap
  /\ \A k \in dst_pos .. dst_pos + i - 1 : dst[k] = dst[k - dist] /\ dst[k] \in Byte
WideInv == pc = "wide" =>
  /\ len <= dist
  /\ dst_pos + round_up(len, WIDE) <= dst_cap
  /\ \E c \in Nat : i = WIDE * c
StatusInv == (status = "none") = (pc # "done")

IInv == TypeOK /\ BufferInv /\ CopyInv /\ WideInv /\ StatusInv /\ WithinInput

-----------------------------------------------------------------------------
USE InflateAssumption

LEMMA RoundUp ==
  ASSUME NEW x \in Nat, NEW m \in Nat \ {0}
  PROVE  /\ round_up(x, m) \in Nat /\ x <= round_up(x, m)
         /\ \E q \in Nat : round_up(x, m) = m * q
<1> DEFINE y == x + m - 1
           q == y \div m
<1>1. y \in Nat /\ q \in Nat /\ y = m * q + (y % m) /\ y % m \in 0 .. m - 1
  OBVIOUS
<1>2. round_up(x, m) = m * q
  BY <1>1 DEF round_up
<1>3. m * q \in Nat /\ m * q >= y - (m - 1)
  BY <1>1
<1>4. QED
  BY <1>1, <1>2, <1>3

(* The chunk that starts before the end of the data ends within the room   *)
(* that was rounded up for it.                                             *)
LEMMA ChunkFits ==
  ASSUME NEW x \in Nat, NEW m \in Nat \ {0}, NEW c \in Nat, m * c < x
  PROVE  m * c + m <= round_up(x, m)
<1>0. x <= round_up(x, m) /\ \E q \in Nat : round_up(x, m) = m * q
  BY RoundUp, Zenon
<1>1. PICK q \in Nat : round_up(x, m) = m * q
  BY <1>0, Zenon
<1>2. m * c < m * q
  <2>1. m * c \in Nat /\ m * q \in Nat /\ x <= m * q
    BY <1>0, <1>1
  <2>2. QED
    BY <2>1
<1>3. c < q
  <2>1. SUFFICES ASSUME c >= q PROVE m * c >= m * q
    BY <1>1, <1>2
  <2>2. c = q + (c - q) /\ c - q \in Nat
    BY <1>1, <2>1
  <2>3. m * c = m * q + m * (c - q) /\ m * (c - q) >= 0
    BY <1>1, <2>2
  <2>4. QED
    BY <1>1, <2>3
<1>4. q = c + 1 + (q - c - 1) /\ q - c - 1 \in Nat
  BY <1>1, <1>3
<1>5. m * q = m * c + m + m * (q - c - 1) /\ m * (q - c - 1) >= 0
  BY <1>1, <1>4
<1>6. QED
  BY <1>1, <1>5

(* Without a copy under way the invariant is about the buffer alone.       *)
LEMMA InitIInv == Init => IInv
<1> SUFFICES ASSUME Init PROVE IInv
  OBVIOUS
<1>1. bfinal \in BOOLEAN
  BY Zenon DEF Init
<1>2. TypeOK
  BY <1>1 DEF Init, TypeOK
<1>3. BufferInv /\ CopyInv /\ WideInv /\ StatusInv /\ WithinInput
  BY DEF Init, BufferInv, CopyInv, WideInv, StatusInv, WithinInput, Copying, bitpos_end
<1>4. QED
  BY <1>2, <1>3 DEF IInv

(* One round of a copy: what was output stays, and the bytes copied so far *)
(* repeat those dist before them.                                          *)
LEMMA WideRound ==
  ASSUME IInv, CopyWide
  PROVE  /\ \A k \in 0 .. dst_pos + i - 1 : dst'[k] = dst[k]
         /\ \A k \in dst_pos .. dst_pos + min(i', len) - 1 :
              dst'[k] = dst'[k - dist] /\ dst'[k] \in Byte
<1> USE DEF IInv
<1>1. /\ pc = "wide"
      /\ dst' = [k \in DOMAIN dst |->
                   IF k - (dst_pos + i) \in 0 .. WIDE - 1 THEN dst[k - dist] ELSE dst[k]]
      /\ i' = i + WIDE
      /\ UNCHANGED <<src_len, bitpos, dst_cap, bfinal, dist, len, returned>>
  BY DEF CopyWide
<1>2. /\ dist \in 1 .. dst_pos /\ len \in MIN_LEN .. MAX_LEN /\ i < len /\ i \in Nat
      /\ dst_pos + len <= dst_cap /\ len <= dist /\ dst_pos \in Nat /\ dst_cap \in Nat
      /\ DOMAIN dst = 0 .. dst_cap - 1
  BY <1>1 DEF CopyInv, WideInv, Copying, TypeOK
<1>3. \A k \in 0 .. dst_pos + i - 1 : dst'[k] = dst[k]
  BY <1>1, <1>2
<1>4. \A k \in dst_pos .. dst_pos + min(i', len) - 1 :
        dst'[k] = dst'[k - dist] /\ dst'[k] \in Byte
  <2>1. SUFFICES ASSUME NEW k \in dst_pos .. dst_pos + min(i', len) - 1
                 PROVE  dst'[k] = dst'[k - dist] /\ dst'[k] \in Byte
    OBVIOUS
  <2>2. k - dist \in 0 .. dst_pos - 1 /\ k \in 0 .. dst_cap - 1
    BY <1>1, <1>2, <2>1 DEF min
  <2>3. dst'[k - dist] = dst[k - dist] /\ dst[k - dist] \in Byte
    BY <1>2, <1>3, <2>2 DEF BufferInv
  <2>4. CASE k < dst_pos + i
    BY <1>1, <1>2, <1>3, <2>1, <2>2, <2>3, <2>4 DEF CopyInv, Copying
  <2>5. CASE k >= dst_pos + i
    BY <1>1, <1>2, <2>1, <2>2, <2>3, <2>5 DEF min
  <2>6. QED
    BY <1>2, <2>1, <2>4, <2>5
<1>5. QED
  BY <1>3, <1>4

LEMMA ByteRound ==
  ASSUME IInv, CopyByte
  PROVE  /\ \A k \in 0 .. dst_pos + i - 1 : dst'[k] = dst[k]
         /\ dst[dst_pos + i - dist] \in Byte
         /\ \A k \in dst_pos .. dst_pos + i : dst'[k] = dst'[k - dist] /\ dst'[k] \in Byte
<1> USE DEF IInv
<1>1. /\ pc = "bytes"
      /\ dst' = [dst EXCEPT ![dst_pos + i] = dst[dst_pos + i - dist]]
      /\ i' = i + 1
      /\ UNCHANGED <<src_len, bitpos, dst_cap, bfinal, dist, len, returned>>
  BY DEF CopyByte
<1>2. /\ dist \in 1 .. dst_pos /\ len \in MIN_LEN .. MAX_LEN /\ i < len /\ i \in Nat
      /\ dst_pos + len <= dst_cap /\ dst_pos \in Nat /\ dst_cap \in Nat
      /\ DOMAIN dst = 0 .. dst_cap - 1
  BY <1>1 DEF CopyInv, Copying, TypeOK
<1>3. /\ \A k \in 0 .. dst_pos + i - 1 : dst'[k] = dst[k]
      /\ dst'[dst_pos + i] = dst[dst_pos + i - dist]
  <2>1. dst_pos + i \in DOMAIN dst /\ \A k \in 0 .. dst_pos + i - 1 : k \in DOMAIN dst /\ k # dst_pos + i
    BY <1>2
  <2>2. QED
    BY <1>1, <1>2, <2>1 DEF TypeOK
<1>4. dst[dst_pos + i - dist] \in Byte
  <2> DEFINE from == dst_pos + i - dist
  <2>1. from \in 0 .. dst_pos + i - 1
    BY <1>2
  <2>2. CASE from < dst_pos
    <3>1. from \in 0 .. dst_pos - 1
      BY <1>2, <2>1, <2>2
    <3>2. QED
      BY <3>1 DEF BufferInv
  <2>3. CASE from >= dst_pos
    <3>1. from \in dst_pos .. dst_pos + i - 1
      BY <1>2, <2>1, <2>3
    <3>2. QED
      BY <1>1, <3>1 DEF CopyInv, Copying
  <2>4. QED
    BY <1>2, <2>1, <2>2, <2>3
<1>5. \A k \in dst_pos .. dst_pos + i : dst'[k] = dst'[k - dist] /\ dst'[k] \in Byte
  <2>1. SUFFICES ASSUME NEW k \in dst_pos .. dst_pos + i
                 PROVE  dst'[k] = dst'[k - dist] /\ dst'[k] \in Byte
    OBVIOUS
  <2>2. k - dist \in 0 .. dst_pos + i - 1
    BY <1>2, <2>1
  <2>3. CASE k < dst_pos + i
    <3>1. k \in dst_pos .. dst_pos + i - 1 /\ k \in 0 .. dst_pos + i - 1
      BY <1>2, <2>1, <2>3
    <3>2. dst[k] = dst[k - dist] /\ dst[k] \in Byte
      BY <1>1, <3>1 DEF CopyInv, Copying
    <3>3. QED
      BY <1>3, <2>2, <3>1, <3>2
  <2>4. CASE k = dst_pos + i
    <3>1. dst'[k] = dst[k - dist] /\ dst[k - dist] \in Byte
      BY <1>2, <1>3, <1>4, <2>4
    <3>2. QED
      BY <1>3, <2>2, <3>1
  <2>5. QED
    BY <1>2, <2>1, <2>3, <2>4
<1>6. QED
  BY <1>3, <1>4, <1>5

LEMMA NextIInv == IInv /\ [Next]_vars => IInv'
<1> SUFFICES ASSUME IInv, [Next]_vars PROVE IInv'
  OBVIOUS
<1> USE DEF IInv
<1>1. CASE BlockHeader
  <2>1. bfinal' \in BOOLEAN
    BY <1>1, Zenon DEF BlockHeader
  <2>2. TypeOK'
    BY <1>1, <2>1 DEF BlockHeader, istream_advance, TypeOK, buffer, copy, returned
  <2>3. BufferInv' /\ CopyInv' /\ WideInv' /\ StatusInv' /\ WithinInput'
    BY <1>1 DEF BlockHeader, istream_advance, BufferInv, CopyInv, WideInv, StatusInv, WithinInput,
                Copying, bitpos_end, buffer, returned, TypeOK
  <2>4. QED
    BY <2>2, <2>3
<1>2. CASE DynamicCodes
  <2>1. PICK n \in HeaderBits : istream_advance(n)
    BY <1>2 DEF DynamicCodes
  <2>2. TypeOK'
    BY <1>2, <2>1 DEF DynamicCodes, istream_advance, TypeOK, buffer, copy, returned
  <2>3. BufferInv' /\ CopyInv' /\ WideInv' /\ StatusInv' /\ WithinInput'
    BY <1>2, <2>1 DEF DynamicCodes, istream_advance, BufferInv, CopyInv, WideInv, StatusInv,
                      WithinInput, Copying, bitpos_end, buffer, returned, TypeOK
  <2>4. QED
    BY <2>2, <2>3
<1>3. CASE Truncated \/ Invalid
  <2>1. /\ pc' = "done" /\ status' = "ERR" /\ UNCHANGED <<src_used, dst_used>>
        /\ UNCHANGED <<src_len, bitpos, dst_cap, buffer, bfinal, copy, symbol>>
    BY <1>3 DEF Truncated, Invalid, Stop
  <2>2. TypeOK'
    BY <2>1 DEF TypeOK, buffer, copy
  <2>3. BufferInv' /\ CopyInv' /\ WideInv' /\ StatusInv' /\ WithinInput'
    BY <2>1 DEF BufferInv, CopyInv, WideInv, StatusInv, WithinInput, Copying, bitpos_end, buffer
  <2>4. QED
    BY <2>2, <2>3
<1>4. CASE EndOfBlock
  <2>1. PICK n \in SymBits : istream_advance(n)
    BY <1>4 DEF EndOfBlock
  <2>2. TypeOK'
    BY <1>4, <2>1 DEF EndOfBlock, istream_advance, TypeOK, buffer, copy, returned
  <2>3. BufferInv' /\ CopyInv' /\ WideInv' /\ StatusInv' /\ WithinInput'
    BY <1>4, <2>1 DEF EndOfBlock, istream_advance, BufferInv, CopyInv, WideInv, StatusInv,
                      WithinInput, Copying, bitpos_end, buffer, returned, TypeOK
  <2>4. QED
    BY <2>2, <2>3
<1>5. CASE Literal
  <2>1. PICK n \in SymBits : istream_advance(n)
    BY <1>5 DEF Literal
  <2>2. PICK b \in Byte : IF ~Fits(1)
                         THEN Stop("FULL") /\ UNCHANGED buffer
                         ELSE /\ dst' = [dst EXCEPT ![dst_pos] = b]
                              /\ dst_pos' = dst_pos + 1
                              /\ UNCHANGED <<pc, returned>>
    BY <1>5 DEF Literal
  <2>3. pc = "symbols" /\ UNCHANGED <<src_len, dst_cap, bfinal, copy>>
    BY <1>5 DEF Literal
  <2>4. TypeOK'
    BY <2>1, <2>2, <2>3
    DEF istream_advance, Fits, Room, Stop, TypeOK, buffer, copy, returned
  <2>5. BufferInv'
    BY <2>2, <2>3 DEF BufferInv, Stop, TypeOK, buffer, Fits, Room
  <2>6. CopyInv' /\ WideInv' /\ StatusInv' /\ WithinInput'
    BY <2>1, <2>2, <2>3 DEF istream_advance, Stop, CopyInv, WideInv, StatusInv, WithinInput,
                            Copying, bitpos_end, returned, TypeOK
  <2>7. QED
    BY <2>4, <2>5, <2>6
<1>6. CASE BackRef
  <2>1. PICK n \in RefBits : istream_advance(n)
    BY <1>6 DEF BackRef
  <2>2. PICK d \in 1 .. MAX_DISTANCE, l \in MIN_LEN .. MAX_LEN :
          IF d > dst_pos
          THEN Stop("ERR") /\ symbol' = Buffer!Ref(d, l) /\ UNCHANGED copy
          ELSE IF ~Fits(l)
          THEN Stop("FULL") /\ symbol' = Buffer!Ref(d, l) /\ UNCHANGED copy
          ELSE /\ dist' = d /\ len' = l /\ i' = 0
               /\ pc' = IF WideFits(l) /\ ~Overlaps(d, l) THEN "wide" ELSE "bytes"
               /\ UNCHANGED <<symbol, returned>>
    BY <1>6 DEF BackRef
  <2>3. pc = "symbols" /\ UNCHANGED <<src_len, dst_cap, buffer, bfinal>>
    BY <1>6 DEF BackRef
  <2>4. TypeOK'
    BY <2>1, <2>2, <2>3
    DEF istream_advance, Stop, TypeOK, buffer, copy, returned
  <2>5. BufferInv' /\ StatusInv' /\ WithinInput'
    BY <2>1, <2>2, <2>3 DEF istream_advance, Stop, BufferInv, StatusInv, WithinInput,
                            bitpos_end, buffer, returned, TypeOK
  <2>6. CopyInv'
    BY <2>2, <2>3 DEF CopyInv, Copying, Stop, Fits, Room, buffer, TypeOK
  <2>7. WideInv'
    <3>1. 0 \in Nat /\ WIDE * 0 = 0
      OBVIOUS
    <3>2. l \in Nat
      OBVIOUS
    <3>3. round_up(l, WIDE) \in Nat
      BY <3>2, RoundUp
    <3>4. QED
      BY <2>2, <2>3, <3>1, <3>3 DEF WideInv, Stop, WideFits, Overlaps, Room, buffer, TypeOK
  <2>8. QED
    BY <2>4, <2>5, <2>6, <2>7
<1>7. CASE CopyWide
  <2>1. /\ pc = "wide"
        /\ dst' = [k \in DOMAIN dst |->
                     IF k - (dst_pos + i) \in 0 .. WIDE - 1 THEN dst[k - dist] ELSE dst[k]]
        /\ i' = i + WIDE
        /\ UNCHANGED <<src_len, bitpos, dst_cap, bfinal, dist, len, returned>>
    BY <1>7 DEF CopyWide
  <2>2. /\ dist \in 1 .. dst_pos /\ len \in MIN_LEN .. MAX_LEN /\ i < len /\ i \in Nat
        /\ dst_pos + len <= dst_cap /\ len <= dist /\ dst_pos \in Nat /\ dst_cap \in Nat
        /\ DOMAIN dst = 0 .. dst_cap - 1
    BY <2>1 DEF CopyInv, WideInv, Copying, TypeOK
  <2>3. \A k \in 0 .. dst_pos + i - 1 : dst'[k] = dst[k]
    BY <1>7, WideRound
  <2>4. \A k \in dst_pos .. dst_pos + min(i', len) - 1 :
          dst'[k] = dst'[k - dist] /\ dst'[k] \in Byte
    BY <1>7, WideRound
  <2>5. TypeOK'
    <3>1. dst' \in [0 .. dst_cap - 1 -> Byte \cup {UNINIT}]
      <4>1. ASSUME NEW k \in 0 .. dst_cap - 1, k - (dst_pos + i) \in 0 .. WIDE - 1
            PROVE  dst[k - dist] \in Byte \cup {UNINIT}
        BY <2>2, <4>1 DEF TypeOK
      <4>2. QED
        BY <2>1, <2>2, <4>1 DEF TypeOK
    <3>2. CopyEnds
      BY <1>7 DEF CopyWide
    <3>3. dst_pos' \in 0 .. dst_cap /\ pc' \in {"wide", "symbols"}
      <4>1. dst_pos \in 0 .. dst_cap /\ dst_pos + len \in 0 .. dst_cap
        BY <2>2
      <4>2. QED
        BY <2>1, <3>2, <4>1 DEF CopyEnds
    <3>4. i' \in Nat /\ UNCHANGED <<src_len, bitpos, dst_cap, bfinal, dist, len, returned>>
      BY <2>1, <2>2
    <3>5. QED
      BY <3>1, <3>3, <3>4 DEF TypeOK, returned
  <2>6. CASE i' < len
    <3>1. UNCHANGED <<dst_pos, pc>>
      BY <1>7, <2>6 DEF CopyWide, CopyEnds
    <3>2. BufferInv' /\ StatusInv' /\ WithinInput'
      BY <2>1, <2>2, <2>3, <3>1 DEF BufferInv, StatusInv, WithinInput, bitpos_end, returned
    <3>3. CopyInv'
      BY <2>1, <2>2, <2>4, <2>6, <3>1 DEF CopyInv, Copying, min
    <3>4. WideInv'
      <4>1. PICK c \in Nat : i = WIDE * c
        BY <2>1 DEF WideInv
      <4>2. c + 1 \in Nat /\ i' = WIDE * (c + 1)
        BY <2>1, <4>1
      <4>3. QED
        BY <2>1, <3>1, <4>2 DEF WideInv
    <3>5. QED
      BY <2>5, <3>2, <3>3, <3>4
  <2>7. CASE ~(i' < len)
    <3>1. dst_pos' = dst_pos + len /\ pc' = "symbols"
      BY <1>7, <2>7 DEF CopyWide, CopyEnds
    <3>2. BufferInv'
      <4>1. SUFFICES ASSUME NEW k \in 0 .. dst_pos + len - 1 PROVE dst'[k] \in Byte
        BY <2>2, <3>1 DEF BufferInv
      <4>2. CASE k < dst_pos
        BY <2>2, <2>3, <4>1, <4>2 DEF BufferInv
      <4>3. CASE k >= dst_pos
        <5>1. k \in dst_pos .. dst_pos + min(i', len) - 1
          BY <2>1, <2>2, <2>7, <4>1, <4>3 DEF min
        <5>2. QED
          BY <2>4, <5>1
      <4>4. QED
        BY <2>2, <4>1, <4>2, <4>3
    <3>3. CopyInv' /\ WideInv' /\ StatusInv' /\ WithinInput'
      BY <2>1, <2>2, <3>1 DEF CopyInv, WideInv, StatusInv, WithinInput, Copying, bitpos_end, returned
    <3>4. QED
      BY <2>5, <3>2, <3>3
  <2>8. QED
    BY <2>6, <2>7
<1>8. CASE CopyByte
  <2>1. /\ pc = "bytes"
        /\ dst' = [dst EXCEPT ![dst_pos + i] = dst[dst_pos + i - dist]]
        /\ i' = i + 1
        /\ UNCHANGED <<src_len, bitpos, dst_cap, bfinal, dist, len, returned>>
    BY <1>8 DEF CopyByte
  <2>2. /\ dist \in 1 .. dst_pos /\ len \in MIN_LEN .. MAX_LEN /\ i < len /\ i \in Nat
        /\ dst_pos + len <= dst_cap /\ dst_pos \in Nat /\ dst_cap \in Nat
        /\ DOMAIN dst = 0 .. dst_cap - 1
    BY <2>1 DEF CopyInv, Copying, TypeOK
  <2>3. \A k \in 0 .. dst_pos + i - 1 : dst'[k] = dst[k]
    BY <1>8, ByteRound
  <2>4. dst[dst_pos + i - dist] \in Byte
    BY <1>8, ByteRound
  <2>5. \A k \in dst_pos .. dst_pos + i : dst'[k] = dst'[k - dist] /\ dst'[k] \in Byte
    BY <1>8, ByteRound
  <2>6. TypeOK'
    <3>1. dst' \in [0 .. dst_cap - 1 -> Byte \cup {UNINIT}]
      BY <2>1, <2>2, <2>4 DEF TypeOK
    <3>2. dst_pos' \in 0 .. dst_cap /\ pc' \in {"bytes", "symbols"}
      <4>1. \/ dst_pos' = dst_pos /\ pc' = pc
            \/ dst_pos' = dst_pos + len /\ pc' = "symbols"
        BY <1>8 DEF CopyByte, CopyEnds
      <4>2. dst_pos + len \in 0 .. dst_cap /\ dst_pos \in 0 .. dst_cap
        BY <2>2, InflateAssumption
      <4>3. QED
        BY <2>1, <4>1, <4>2
    <3>3. QED
      BY <2>1, <3>1, <3>2 DEF TypeOK, returned
  <2>7. CASE i' < len
    <3>1. UNCHANGED <<dst_pos, pc>>
      BY <1>8, <2>7 DEF CopyByte, CopyEnds
    <3>2. BufferInv'
      BY <2>2, <2>3, <3>1 DEF BufferInv
    <3>3. WideInv' /\ StatusInv' /\ WithinInput'
      BY <2>1, <3>1 DEF WideInv, StatusInv, WithinInput, bitpos_end, returned
    <3>4. CopyInv'
      BY <2>1, <2>2, <2>5, <2>7, <3>1 DEF CopyInv, Copying
    <3>5. QED
      BY <2>6, <3>2, <3>3, <3>4
  <2>8. CASE ~(i' < len)
    <3>1. dst_pos' = dst_pos + len /\ pc' = "symbols" /\ len = i + 1
      <4>1. dst_pos' = dst_pos + len /\ pc' = "symbols"
        BY <1>8, <2>8 DEF CopyByte, CopyEnds
      <4>2. len = i + 1
        <5>1. i' = i + 1
          BY <2>1
        <5>2. i \in Nat /\ len \in Int /\ i < len
          BY <2>2
        <5>3. QED
          BY <2>8, <5>1, <5>2
      <4>3. QED
        BY <4>1, <4>2
    <3>2. BufferInv'
      <4>1. SUFFICES ASSUME NEW k \in 0 .. dst_pos + len - 1 PROVE dst'[k] \in Byte
        BY <2>2, <3>1 DEF BufferInv
      <4>2. CASE k < dst_pos
        <5>1. k \in 0 .. dst_pos - 1 /\ k \in 0 .. dst_pos + i - 1
          BY <2>2, <4>1, <4>2
        <5>2. QED
          BY <2>3, <5>1 DEF BufferInv
      <4>3. CASE k >= dst_pos
        BY <2>2, <2>5, <3>1, <4>1, <4>3
      <4>4. QED
        BY <2>2, <4>1, <4>2, <4>3
    <3>3. CopyInv' /\ WideInv' /\ StatusInv' /\ WithinInput'
      BY <2>1, <2>2, <3>1 DEF CopyInv, WideInv, StatusInv, WithinInput, Copying, bitpos_end, returned
    <3>4. QED
      BY <2>6, <3>2, <3>3
  <2>9. QED
    BY <2>7, <2>8
<1>9. CASE StoredBlock
  <2>1. PICK n \in 0 .. MaxStored :
          /\ round_up(bitpos, 8) + 32 + 8 * n <= bitpos_end
          /\ bitpos' = round_up(bitpos, 8) + 32 + 8 * n
          /\ IF ~Fits(n)
             THEN Stop("FULL") /\ UNCHANGED buffer
             ELSE /\ \E data \in [0 .. n - 1 -> Byte] :
                       dst' = [k \in DOMAIN dst |->
                                 IF k - dst_pos \in 0 .. n - 1 THEN data[k - dst_pos] ELSE dst[k]]
                  /\ dst_pos' = dst_pos + n
                  /\ pc' = "while"
                  /\ UNCHANGED returned
    BY <1>9 DEF StoredBlock
  <2>2. pc = "stored" /\ UNCHANGED <<src_len, dst_cap, bfinal, copy>>
    BY <1>9 DEF StoredBlock
  <2>3. bitpos' \in Nat /\ bitpos' <= bitpos_end'
    <3>1. round_up(bitpos, 8) \in Nat
      BY RoundUp DEF TypeOK
    <3>2. QED
      BY <2>1, <2>2, <3>1 DEF bitpos_end
  <2>4. /\ dst' \in [0 .. dst_cap - 1 -> Byte \cup {UNINIT}]
        /\ BufferInv' /\ dst_pos' \in 0 .. dst_cap
    <3>1. CASE Fits(n)
      <4>1. PICK data \in [0 .. n - 1 -> Byte] :
              dst' = [k \in DOMAIN dst |->
                        IF k - dst_pos \in 0 .. n - 1 THEN data[k - dst_pos] ELSE dst[k]]
        BY <2>1, <3>1
      <4>2. dst' \in [0 .. dst_cap - 1 -> Byte \cup {UNINIT}]
        BY <4>1 DEF TypeOK
      <4>3. dst_pos' = dst_pos + n /\ dst_pos' \in 0 .. dst_cap
        BY <2>1, <3>1 DEF Fits, Room, TypeOK
      <4>4. \A k \in 0 .. dst_pos + n - 1 : dst'[k] \in Byte
        BY <4>1, <4>3 DEF TypeOK, BufferInv
      <4>5. QED
        BY <4>2, <4>3, <4>4 DEF BufferInv, TypeOK
    <3>2. CASE ~Fits(n)
      BY <2>1, <3>2 DEF BufferInv, buffer, TypeOK
    <3>3. QED
      BY <3>1, <3>2
  <2>5. TypeOK'
    BY <2>1, <2>2, <2>3, <2>4 DEF TypeOK, Stop, copy, returned
  <2>6. CopyInv' /\ WideInv' /\ StatusInv' /\ WithinInput'
    BY <2>1, <2>2, <2>3 DEF CopyInv, WideInv, StatusInv, WithinInput, Copying, Stop, returned
  <2>7. QED
    BY <2>4, <2>5, <2>6
<1>10. CASE NextBlock
  <2>1. TypeOK'
    BY <1>10 DEF NextBlock, TypeOK, buffer, copy, returned
  <2>2. BufferInv' /\ CopyInv' /\ WideInv' /\ StatusInv' /\ WithinInput'
    BY <1>10 DEF NextBlock, BufferInv, CopyInv, WideInv, StatusInv, WithinInput, Copying,
                 bitpos_end, buffer, returned
  <2>3. QED
    BY <2>1, <2>2
<1>11. CASE Return
  <2>1. bitpos' \in Nat /\ bitpos' <= bitpos_end /\ src_used' \in Nat /\ src_used' <= src_len
    BY <1>11 DEF Return, round_up, WithinInput, bitpos_end, TypeOK
  <2>2. TypeOK'
    BY <1>11, <2>1 DEF Return, TypeOK, buffer, copy
  <2>3. BufferInv' /\ CopyInv' /\ WideInv' /\ StatusInv' /\ WithinInput'
    BY <1>11, <2>1 DEF Return, BufferInv, CopyInv, WideInv, StatusInv, WithinInput, Copying,
                       bitpos_end, buffer, TypeOK
  <2>4. QED
    BY <2>2, <2>3
<1>12. CASE UNCHANGED vars
  <2>1. TypeOK'
    BY <1>12 DEF vars, TypeOK, buffer, copy, returned
  <2>2. BufferInv' /\ CopyInv' /\ WideInv' /\ StatusInv' /\ WithinInput'
    BY <1>12 DEF vars, BufferInv, CopyInv, WideInv, StatusInv, WithinInput, Copying,
                 bitpos_end, buffer, copy, returned
  <2>3. QED
    BY <2>1, <2>2
<1>13. QED
  BY <1>1, <1>2, <1>3, <1>4, <1>5, <1>6, <1>7, <1>8, <1>9, <1>10, <1>11, <1>12 DEF Next

LEMMA Invariance == Spec => []IInv
BY InitIInv, NextIInv, PTL DEF Spec

-----------------------------------------------------------------------------
(* The variables keep their types; dst_pos never passes dst_cap (the       *)
(* assert of deflate.c:396).                                               *)
THEOREM TypeCorrect == Spec => []TypeOK
<1>1. IInv => TypeOK
  BY DEF IInv
<1>2. QED
  BY <1>1, Invariance, PTL

(* Garbage a wide copy leaves behind, and bytes nobody wrote, never become *)
(* output, for every chunk width.                                          *)
THEOREM DecodedOutput == Spec => []OutputIsDecoded
<1>1. IInv => OutputIsDecoded
  BY DEF IInv, BufferInv, OutputIsDecoded
<1>2. QED
  BY <1>1, Invariance, PTL

(* Rounding a length up to whole chunks is room enough for the wide copy.  *)
THEOREM WideCopySafe == Spec => []ChunksInBuffer
<1>1. IInv => ChunksInBuffer
  <2>1. SUFFICES ASSUME IInv, pc = "wide" PROVE dst_pos + i + WIDE <= dst_cap /\ dist <= dst_pos + i
    BY DEF ChunksInBuffer
  <2>2. PICK c \in Nat : i = WIDE * c
    BY <2>1 DEF IInv, WideInv
  <2>3. /\ len \in Nat /\ i \in Nat /\ i < len /\ dist \in 1 .. dst_pos
        /\ dst_pos \in Nat /\ dst_cap \in Nat /\ dst_pos + round_up(len, WIDE) <= dst_cap
    BY <2>1 DEF IInv, CopyInv, WideInv, Copying, TypeOK
  <2>4. round_up(len, WIDE) \in Nat /\ i + WIDE <= round_up(len, WIDE)
    BY <2>2, <2>3, RoundUp, ChunkFits
  <2>5. QED
    BY <2>3, <2>4
<1>2. QED
  BY <1>1, Invariance, PTL

(* No bit past the end of the input is accepted, and the amounts reported  *)
(* on success are within the buffers.                                      *)
THEOREM InputBounds == Spec => []WithinInput
<1>1. IInv => WithinInput
  BY DEF IInv
<1>2. QED
  BY <1>1, Invariance, PTL

-----------------------------------------------------------------------------
(* The abstract output is a sequence of dst_pos bytes.                     *)
LEMMA OutputSeq ==
  ASSUME dst_pos \in Nat, BufferInv
  PROVE  /\ Output \in Seq(Byte) /\ Len(Output) = dst_pos
         /\ \A k \in 1 .. dst_pos : Output[k] = dst[k - 1]
<1>1. \A k \in 1 .. dst_pos : dst[k - 1] \in Byte
  BY DEF BufferInv
<1>2. QED
  BY <1>1 DEF Output

(* Bytes below dst_pos that stay make the output grow.                     *)
LEMMA OutputGrows ==
  ASSUME IInv, IInv', NEW n \in Nat, dst_pos' = dst_pos + n, UNCHANGED <<dst_cap, status>>,
         \A k \in 0 .. dst_pos - 1 : dst'[k] = dst[k], Buffer!Size = n
  PROVE  Buffer!Grow
<1>1. /\ dst_pos \in Nat /\ dst_pos' \in Nat /\ dst_pos' <= dst_cap /\ dst_cap \in Nat
      /\ BufferInv /\ BufferInv'
  BY DEF IInv, TypeOK
<1>2. /\ Len(Output) = dst_pos /\ \A k \in 1 .. dst_pos : Output[k] = dst[k - 1]
  BY <1>1, OutputSeq
<1>3. /\ Output' \in Seq(Byte) /\ Len(Output') = dst_pos'
      /\ \A k \in 1 .. dst_pos' : Output'[k] = dst'[k - 1]
  <2>1. \A k \in 1 .. dst_pos' : dst'[k - 1] \in Byte
    BY <1>1 DEF BufferInv
  <2>2. QED
    BY <1>1, <2>1 DEF Output
<1>4. \A k \in 1 .. Len(Output) : Output'[k] = Output[k]
  BY <1>1, <1>2, <1>3
<1>5. QED
  BY <1>1, <1>2, <1>3, <1>4 DEF Buffer!Grow

LEMMA StepRefines == IInv /\ IInv' /\ [Next]_vars => [Buffer!Next]_(Buffer!vars)
<1> SUFFICES ASSUME IInv, IInv', [Next]_vars PROVE [Buffer!Next]_(Buffer!vars)
  OBVIOUS
<1>0. /\ dst_pos \in Nat /\ dst_cap \in Nat /\ dst_pos <= dst_cap
      /\ Len(Output) = dst_pos
      /\ \A k \in 1 .. dst_pos : Output[k] = dst[k - 1]
  BY OutputSeq DEF IInv, TypeOK
<1>1. CASE Literal
  <2>1. PICK b \in Byte : /\ symbol' = Buffer!Lit(b)
                         /\ IF ~Fits(1)
                            THEN Stop("FULL") /\ UNCHANGED buffer
                            ELSE /\ dst' = [dst EXCEPT ![dst_pos] = b]
                                 /\ dst_pos' = dst_pos + 1
                                 /\ UNCHANGED <<pc, returned>>
    BY <1>1 DEF Literal
  <2>2. Buffer!NextLit /\ Buffer!Size = 1 /\ symbol'.byte = b
    BY <2>1 DEF Buffer!NextLit, Buffer!Lit, Buffer!Size
  <2>3. status = "none" /\ UNCHANGED dst_cap
    BY <1>1 DEF Literal, IInv, StatusInv
  <2>4. CASE Fits(1)
    <3>1. dst' = [dst EXCEPT ![dst_pos] = b] /\ dst_pos' = dst_pos + 1 /\ UNCHANGED status
      BY <2>1, <2>4 DEF returned
    <3>2. dst_pos \in DOMAIN dst /\ DOMAIN dst = 0 .. dst_cap - 1
      BY <1>0, <2>4 DEF Fits, Room, IInv, TypeOK
    <3>3. dst'[dst_pos] = b /\ \A k \in 0 .. dst_pos - 1 : dst'[k] = dst[k]
      BY <1>0, <3>1, <3>2
    <3>4. Buffer!Grow
      BY <2>2, <2>3, <3>1, <3>3, OutputGrows
    <3>5. Output'[Len(Output) + 1] = symbol'.byte
      BY <1>0, <2>2, <3>1, <3>3 DEF Output
    <3>6. QED
      BY <2>2, <2>3, <3>4, <3>5 DEF Buffer!Next, Buffer!Output
  <2>5. CASE ~Fits(1)
    <3>1. status' = "FULL" /\ UNCHANGED <<Output, dst_cap>>
      BY <2>1, <2>3, <2>5 DEF Stop, buffer, Output
    <3>2. Len(Output) + 1 > dst_cap
      BY <1>0, <2>5 DEF Fits, Room
    <3>3. QED
      BY <2>2, <2>3, <3>1, <3>2 DEF Buffer!Next, Buffer!Full
  <2>6. QED
    BY <2>4, <2>5
<1>2. CASE BackRef
  <2>1. PICK d \in 1 .. MAX_DISTANCE, l \in MIN_LEN .. MAX_LEN :
          IF d > dst_pos
          THEN Stop("ERR") /\ symbol' = Buffer!Ref(d, l) /\ UNCHANGED copy
          ELSE IF ~Fits(l)
          THEN Stop("FULL") /\ symbol' = Buffer!Ref(d, l) /\ UNCHANGED copy
          ELSE /\ dist' = d /\ len' = l /\ i' = 0
               /\ pc' = IF WideFits(l) /\ ~Overlaps(d, l) THEN "wide" ELSE "bytes"
               /\ UNCHANGED <<symbol, returned>>
    BY <1>2 DEF BackRef
  <2>2. status = "none" /\ UNCHANGED <<Output, dst_cap>>
    BY <1>2 DEF BackRef, IInv, StatusInv, buffer, Output
  <2>3. CASE d > dst_pos
    <3>1. status' = "ERR" /\ symbol' = Buffer!Ref(d, l)
      BY <2>1, <2>3 DEF Stop
    <3>2. symbol'.sym = "ref" /\ symbol'.dist > Len(Output)
      BY <1>0, <2>3, <3>1 DEF Buffer!Ref
    <3>3. QED
      BY <2>2, <3>1, <3>2 DEF Buffer!Next, Buffer!TooFar
  <2>4. CASE ~(d > dst_pos) /\ ~Fits(l)
    <3>1. status' = "FULL" /\ symbol' = Buffer!Ref(d, l)
      BY <2>1, <2>4 DEF Stop
    <3>2. d \in 1 .. Len(Output)
      BY <1>0, <2>4
    <3>3. Buffer!NextRef /\ Buffer!Size = l
      BY <3>1, <3>2 DEF Buffer!NextRef, Buffer!Ref, Buffer!Size
    <3>4. Len(Output) + l > dst_cap
      BY <1>0, <2>4 DEF Fits, Room
    <3>5. QED
      BY <2>2, <3>1, <3>3, <3>4 DEF Buffer!Next, Buffer!Full
  <2>5. CASE ~(d > dst_pos) /\ Fits(l)
    BY <2>1, <2>2, <2>5 DEF Buffer!vars, returned
  <2>6. QED
    BY <2>3, <2>4, <2>5
<1>3. CASE CopyWide \/ CopyByte
  <2>1. /\ Copying /\ CopyEnds /\ status = "none"
        /\ UNCHANGED <<dst_cap, dist, len, status>>
        /\ dist \in 1 .. dst_pos /\ len \in MIN_LEN .. MAX_LEN /\ i < len /\ i \in Nat
        /\ i' \in Nat /\ dst_pos + len <= dst_cap
    BY <1>3 DEF CopyWide, CopyByte, Copying, returned, IInv, CopyInv, StatusInv, TypeOK
  <2>2. \A k \in 0 .. dst_pos - 1 : dst'[k] = dst[k]
    <3>1. \A k \in 0 .. dst_pos - 1 : k \in 0 .. dst_pos + i - 1
      BY <1>0, <2>1
    <3>2. QED
      BY <1>3, <3>1, WideRound, ByteRound
  <2>3. CASE i' < len
    <3>1. UNCHANGED <<dst_pos, symbol>>
      BY <2>1, <2>3 DEF CopyEnds
    <3>2. UNCHANGED Output
      BY <1>0, <2>2, <3>1 DEF Output
    <3>3. QED
      BY <2>1, <3>1, <3>2 DEF Buffer!vars
  <2>4. CASE ~(i' < len)
    <3>1. dst_pos' = dst_pos + len /\ symbol' = Buffer!Ref(dist, len)
      BY <2>1, <2>4 DEF CopyEnds
    <3>2. dist \in 1 .. Len(Output)
      BY <1>0, <2>1
    <3>3. Buffer!NextRef /\ Buffer!Size = len /\ symbol'.dist = dist
      BY <2>1, <3>1, <3>2 DEF Buffer!NextRef, Buffer!Ref, Buffer!Size
    <3>4. Buffer!Grow
      BY <2>1, <2>2, <3>1, <3>3, OutputGrows
    <3>5. \A k \in dst_pos .. dst_pos + len - 1 : dst'[k] = dst'[k - dist]
      <4>1. CASE CopyWide
        <5>1. min(i', len) = len
          BY <2>1, <2>4 DEF min
        <5>2. QED
          BY <4>1, <5>1, WideRound
      <4>2. CASE CopyByte
        <5>1. len = i + 1
          BY <2>1, <2>4, <4>2 DEF CopyByte
        <5>2. dst_pos + len - 1 = dst_pos + i
          BY <1>0, <2>1, <5>1
        <5>3. QED
          BY <4>2, <5>2, ByteRound
      <4>3. QED
        BY <1>3, <4>1, <4>2
    <3>6. \A k \in Len(Output) + 1 .. Len(Output') : Output'[k] = Output'[k - dist]
      BY <1>0, <2>1, <3>1, <3>5 DEF Output
    <3>7. QED
      BY <2>1, <3>3, <3>4, <3>6 DEF Buffer!Next, Buffer!Output
  <2>5. QED
    BY <2>3, <2>4
<1>4. CASE StoredBlock
  <2>1. PICK n \in 0 .. MaxStored :
          /\ symbol' = Buffer!Stored(n)
          /\ IF ~Fits(n)
             THEN Stop("FULL") /\ UNCHANGED buffer
             ELSE /\ \E data \in [0 .. n - 1 -> Byte] :
                       dst' = [k \in DOMAIN dst |->
                                 IF k - dst_pos \in 0 .. n - 1 THEN data[k - dst_pos] ELSE dst[k]]
                  /\ dst_pos' = dst_pos + n
                  /\ pc' = "while"
                  /\ UNCHANGED returned
    BY <1>4 DEF StoredBlock
  <2>2. Buffer!NextStored /\ Buffer!Size = n
    BY <2>1 DEF Buffer!NextStored, Buffer!Stored, Buffer!Size
  <2>3. status = "none" /\ UNCHANGED dst_cap
    BY <1>4 DEF StoredBlock, IInv, StatusInv
  <2>4. CASE Fits(n)
    <3>1. dst_pos' = dst_pos + n /\ UNCHANGED status
      BY <2>1, <2>4 DEF returned
    <3>2. \A k \in 0 .. dst_pos - 1 : dst'[k] = dst[k]
      <4>1. PICK data \in [0 .. n - 1 -> Byte] :
              dst' = [k \in DOMAIN dst |->
                        IF k - dst_pos \in 0 .. n - 1 THEN data[k - dst_pos] ELSE dst[k]]
        BY <2>1, <2>4
      <4>2. DOMAIN dst = 0 .. dst_cap - 1
        BY DEF IInv, TypeOK
      <4>3. QED
        BY <1>0, <4>1, <4>2
    <3>3. Buffer!Grow
      BY <2>2, <2>3, <3>1, <3>2, OutputGrows
    <3>4. QED
      BY <2>2, <2>3, <3>3 DEF Buffer!Next, Buffer!Output
  <2>5. CASE ~Fits(n)
    <3>1. status' = "FULL" /\ UNCHANGED <<Output, dst_cap>>
      BY <2>1, <2>3, <2>5 DEF Stop, buffer, Output
    <3>2. Len(Output) + n > dst_cap
      BY <1>0, <2>5 DEF Fits, Room
    <3>3. QED
      BY <2>2, <2>3, <3>1, <3>2 DEF Buffer!Next, Buffer!Full
  <2>6. QED
    BY <2>4, <2>5
<1>5. CASE Truncated \/ Invalid \/ Return
  <2>1. status = "none" /\ status' \in {"OK", "ERR"} /\ UNCHANGED <<buffer, dst_cap, symbol>>
    BY <1>5 DEF Truncated, Invalid, Return, Stop, IInv, StatusInv
  <2>2. QED
    BY <2>1 DEF buffer, Output, Buffer!Next, Buffer!EndOfInput
<1>6. CASE BlockHeader \/ DynamicCodes \/ EndOfBlock \/ NextBlock \/ UNCHANGED vars
  <2>1. UNCHANGED <<buffer, dst_cap, symbol, returned>>
    BY <1>6 DEF BlockHeader, DynamicCodes, EndOfBlock, NextBlock, vars
  <2>2. QED
    BY <2>1 DEF buffer, returned, Output, Buffer!vars
<1>7. QED
  BY <1>1, <1>2, <1>3, <1>4, <1>5, <1>6 DEF Next

(* Every way of copying a reference makes the repetition it stands for,    *)
(* and FULL is returned only for a symbol that does not fit.               *)
THEOREM Refinement == Spec => OutputsSymbols
<1>1. Init => Buffer!Init
  BY DEF Init, Buffer!Init, Output
<1>2. QED
  BY <1>1, StepRefines, Invariance, PTL DEF Spec, OutputsSymbols, Buffer!Spec
=============================================================================
