------------------------------ MODULE ZipProofs ------------------------------
(***************************************************************************)
(* Proofs about zip_write, zip_read and zip_member, for any names,         *)
(* contents, comments and sizes of headers.                                *)
(***************************************************************************)
EXTENDS Zip, Sums

-----------------------------------------------------------------------------
(* Memory.  These cells are at offset x of mem.                            *)
Holds(mem, x, cells) ==
  x + Len(cells) <= Len(mem) /\ \A y \in 1 .. Len(cells) : mem[x + y] = cells[y]

LEMMA PutLen ==
  ASSUME NEW S, NEW mem \in Seq(S), NEW x, NEW cells
  PROVE  /\ Len(Put(mem, x, cells)) = Len(mem)
         /\ DOMAIN Put(mem, x, cells) = 1 .. Len(mem)
         /\ \E T : Put(mem, x, cells) \in Seq(T)
<1> DEFINE m == Put(mem, x, cells)
           T == {m[y] : y \in 1 .. Len(mem)}
<1>1. DOMAIN m = 1 .. Len(mem) /\ m = [y \in 1 .. Len(mem) |-> m[y]]
  BY DEF Put
<1> HIDE DEF m
<1>2. m \in [1 .. Len(mem) -> T]  BY <1>1
<1> HIDE DEF T
<1>3. m \in Seq(T) /\ Len(m) = Len(mem)  BY <1>1, <1>2
<1>4. QED  BY <1>1, <1>3 DEF m

LEMMA PutHolds ==
  ASSUME NEW S, NEW mem \in Seq(S), NEW T, NEW cells \in Seq(T), NEW x \in Nat,
         x + Len(cells) <= Len(mem)
  PROVE  Holds(Put(mem, x, cells), x, cells)
<1>1. ASSUME NEW y \in 1 .. Len(cells)  PROVE Put(mem, x, cells)[x + y] = cells[y]
  <2>1. x + y \in 1 .. Len(mem) /\ x + y \in x + 1 .. x + Len(cells) /\ (x + y) - x = y
    OBVIOUS
  <2>2. QED  BY <2>1 DEF Put
<1>2. QED  BY <1>1, PutLen DEF Holds

LEMMA PutKeeps ==
  ASSUME NEW S, NEW mem \in Seq(S), NEW T, NEW cells \in Seq(T), NEW x \in Nat,
         NEW U, NEW old \in Seq(U), NEW z \in Nat, Holds(mem, z, old),
         z + Len(old) <= x \/ x + Len(cells) <= z
  PROVE  Holds(Put(mem, x, cells), z, old)
<1>1. ASSUME NEW y \in 1 .. Len(old)  PROVE Put(mem, x, cells)[z + y] = old[y]
  <2>1. z + y \in 1 .. Len(mem) /\ z + y \notin x + 1 .. x + Len(cells)
    BY DEF Holds
  <2>2. mem[z + y] = old[y]  BY DEF Holds
  <2>3. QED  BY <2>1, <2>2 DEF Put
<1>2. Len(Put(mem, x, cells)) = Len(mem)  BY PutLen
<1>3. QED  BY <1>1, <1>2 DEF Holds

(* What is in memory is in the file that is made of its first n cells.     *)
LEMMA FileHolds ==
  ASSUME NEW S, NEW mem \in Seq(S), NEW n \in 0 .. Len(mem), NEW T, NEW cells \in Seq(T),
         NEW x \in Nat, Holds(mem, x, cells), x + Len(cells) <= n
  PROVE  Holds(SubSeq(mem, 1, n), x, cells) /\ Len(SubSeq(mem, 1, n)) = n
<1>1. Len(SubSeq(mem, 1, n)) = n /\ \A y \in 1 .. n : SubSeq(mem, 1, n)[y] = mem[y]
  OBVIOUS
<1> DEFINE f == SubSeq(mem, 1, n)
<1> HIDE DEF f
<1>2. Len(f) = n /\ \A y \in 1 .. n : f[y] = mem[y]  BY <1>1 DEF f
<1>3. ASSUME NEW y \in 1 .. Len(cells)  PROVE f[x + y] = cells[y]
  <2>1. x + y \in 1 .. n  OBVIOUS
  <2>2. QED  BY <2>1, <1>2 DEF Holds
<1>4. QED  BY <1>2, <1>3 DEF Holds, f

LEMMA HoldsSubSeq ==
  ASSUME NEW S, NEW mem \in Seq(S), NEW T, NEW cells \in Seq(T), NEW x \in Nat,
         Holds(mem, x, cells)
  PROVE  SubSeq(mem, x + 1, x + Len(cells)) = cells
<1> DEFINE n == Len(cells)
           f == SubSeq(mem, x + 1, x + n)
<1>1. n \in Nat /\ x + n <= Len(mem)  BY DEF Holds
<1>2. Len(f) = n /\ \A y \in 1 .. n : f[y] = mem[x + y]
  <2>1. x + n - (x + 1) + 1 = n  BY <1>1
  <2>2. f \in Seq(S) /\ Len(f) = n
    BY <1>1, <2>1
  <2>3. ASSUME NEW y \in 1 .. n  PROVE f[y] = mem[x + y]
    <3>1. (x + 1) + y - 1 = x + y  BY <1>1
    <3>2. QED  BY <1>1, <2>1, <3>1
  <2>4. QED  BY <2>2, <2>3
<1>3. f \in Seq(S)  BY <1>1
<1> HIDE DEF f
<1>4. \A y \in 1 .. n : f[y] = cells[y]  BY <1>2 DEF Holds
<1>5. f = cells  BY <1>2, <1>3, <1>4
<1>6. QED  BY <1>5 DEF f

(* Two parts, one after the other.                                         *)
LEMMA HoldsBoth ==
  ASSUME NEW mem, NEW S, NEW a \in Seq(S), NEW T, NEW b \in Seq(T), NEW x \in Nat,
         Len(mem) \in Nat
  PROVE  /\ Len(a \o b) = Len(a) + Len(b) /\ a \o b \in Seq(S \cup T)
         /\ Holds(mem, x, a \o b) <=> Holds(mem, x, a) /\ Holds(mem, x + Len(a), b)
<1>1. /\ a \in Seq(S \cup T) /\ b \in Seq(S \cup T)
      /\ Len(a) \in Nat /\ Len(b) \in Nat  OBVIOUS
<1>2. a \o b \in Seq(S \cup T) /\ Len(a \o b) = Len(a) + Len(b)  BY <1>1
<1>3. /\ \A y \in 1 .. Len(a) : (a \o b)[y] = a[y]
      /\ \A y \in 1 .. Len(b) : (a \o b)[Len(a) + y] = b[y]
  <2>1. ASSUME NEW y \in 1 .. Len(a)  PROVE (a \o b)[y] = a[y]  OBVIOUS
  <2>2. ASSUME NEW y \in 1 .. Len(b)  PROVE (a \o b)[Len(a) + y] = b[y]
    <3>1. Len(a) + y > Len(a) /\ (Len(a) + y) - Len(a) = y  BY <1>1
    <3>2. QED  BY <1>1, <3>1
  <2>3. QED  BY <2>1, <2>2
<1> DEFINE ab == a \o b
<1> HIDE DEF ab
<1>4. Len(ab) = Len(a) + Len(b) /\ (\A y \in 1 .. Len(a) : ab[y] = a[y])
      /\ \A y \in 1 .. Len(b) : ab[Len(a) + y] = b[y]
  BY <1>2, <1>3 DEF ab
<1>5. ASSUME Holds(mem, x, ab)  PROVE Holds(mem, x, a) /\ Holds(mem, x + Len(a), b)
  <2>1. x + Len(a) + Len(b) <= Len(mem)  BY <1>1, <1>4, <1>5 DEF Holds
  <2>2. ASSUME NEW y \in 1 .. Len(a)  PROVE mem[x + y] = a[y]
    <3>1. y \in 1 .. Len(ab)  BY <1>1, <1>4
    <3>2. QED  BY <3>1, <1>4, <1>5 DEF Holds
  <2>3. ASSUME NEW y \in 1 .. Len(b)  PROVE mem[(x + Len(a)) + y] = b[y]
    <3>1. Len(a) + y \in 1 .. Len(ab) /\ (x + Len(a)) + y = x + (Len(a) + y)  BY <1>1, <1>4
    <3>2. QED  BY <3>1, <1>4, <1>5 DEF Holds
  <2>4. QED  BY <1>1, <2>1, <2>2, <2>3 DEF Holds
<1>6. ASSUME Holds(mem, x, a), Holds(mem, x + Len(a), b)  PROVE Holds(mem, x, ab)
  <2>1. x + Len(ab) <= Len(mem)  BY <1>1, <1>4, <1>6 DEF Holds
  <2>2. ASSUME NEW y \in 1 .. Len(ab)  PROVE mem[x + y] = ab[y]
    <3>1. CASE y <= Len(a)  BY <3>1, <1>1, <1>4, <1>6 DEF Holds
    <3>2. CASE y > Len(a)
      <4> DEFINE z == y - Len(a)
      <4>1. z \in 1 .. Len(b) /\ y = Len(a) + z /\ (x + Len(a)) + z = x + y
        BY <3>2, <1>1, <1>4
      <4>2. QED  BY <4>1, <1>4, <1>6 DEF Holds
    <3>3. QED  BY <3>1, <3>2, <1>1, <1>4
  <2>3. QED  BY <2>1, <2>2 DEF Holds
<1>7. QED  BY <1>2, <1>5, <1>6 DEF ab

-----------------------------------------------------------------------------
(* Headers in memory.                                                      *)
LEMMA HeaderCells ==
  ASSUME NEW kind, NEW base \in Nat \ {0}, NEW fields
  PROVE  /\ \E S : Header(kind, base, fields) \in Seq(S)
         /\ Len(Header(kind, base, fields)) = base
         /\ Header(kind, base, fields)[1] = <<kind, fields>>
         /\ \A y \in 2 .. base : Header(kind, base, fields)[y] = FIELD
<1> DEFINE S == {<<kind, fields>>, FIELD}
<1>1. Header(kind, base, fields) \in [1 .. base -> S]  BY DEF Header
<1>2. Header(kind, base, fields) \in Seq(S) /\ Len(Header(kind, base, fields)) = base
  BY <1>1
<1>3. Header(kind, base, fields) = [y \in 1 .. base |-> IF y = 1 THEN <<kind, fields>> ELSE FIELD]
  BY DEF Header
<1>4. 1 \in 1 .. base /\ \A y \in 2 .. base : y \in 1 .. base /\ y # 1  OBVIOUS
<1>5. QED  BY <1>2, <1>3, <1>4

LEMMA HeaderHeld ==
  ASSUME NEW mem, Len(mem) \in Nat, NEW x \in Nat, NEW kind, NEW base \in Nat \ {0}, NEW fields,
         Holds(mem, x, Header(kind, base, fields))
  PROVE  HeaderAt(mem, kind, base, x) = fields
<1> DEFINE h == Header(kind, base, fields)
<1>1. Len(h) = base /\ h[1] = <<kind, fields>> /\ \A y \in 2 .. base : h[y] = FIELD
  BY HeaderCells
<1> HIDE DEF h
<1>2. x + base <= Len(mem) /\ \A y \in 1 .. base : mem[x + y] = h[y]
  BY <1>1 DEF Holds, h
<1>3. 1 \in 1 .. base /\ \A y \in 2 .. base : y \in 1 .. base  OBVIOUS
<1>4. mem[x + 1] = <<kind, fields>> /\ \A y \in 2 .. base : mem[x + y] = FIELD
  BY <1>1, <1>2, <1>3, Zenon
<1>5. mem[x + 1][1] = kind /\ mem[x + 1][2] = fields  BY <1>4
<1>6. x + base <= Len(mem)  BY <1>2
<1>7. QED  BY <1>4, <1>5, <1>6, Zenon DEF HeaderAt

LEMMA EndCells ==
  ASSUME NEW fields, NEW n
  PROVE  /\ \E S : EndRecord(fields, n) \in Seq(S)
         /\ Len(EndRecord(fields, n)) = EOCDR_BASE_SZ
         /\ EndRecord(fields, n)[1] = <<"EOCDR", fields>>
         /\ \A y \in 2 .. EOCDR_BASE_SZ : EndRecord(fields, n)[y][1] # "EOCDR"
         /\ EndRecord(fields, n)[EOCDR_BASE_SZ] = <<"byte", n>>
<1> DEFINE S == {<<"EOCDR", fields>>, FIELD, Byte(n)}
           e == EndRecord(fields, n)
<1>1. EOCDR_BASE_SZ \in Nat /\ EOCDR_BASE_SZ >= 2  BY FormatAssumption DEF FormatAssumption
<1>2. e = [x \in 1 .. EOCDR_BASE_SZ |-> IF x = EOCDR_BASE_SZ THEN Byte(n)
                                        ELSE IF x = 1 THEN <<"EOCDR", fields>> ELSE FIELD]
  BY <1>1 DEF EndRecord, Header
<1>3. e \in [1 .. EOCDR_BASE_SZ -> S]  BY <1>2
<1>4. e \in Seq(S) /\ Len(e) = EOCDR_BASE_SZ  BY <1>1, <1>3
<1>5. e[1] = <<"EOCDR", fields>> /\ e[EOCDR_BASE_SZ] = <<"byte", n>>
  BY <1>1, <1>2 DEF Byte
<1>6. ASSUME NEW y \in 2 .. EOCDR_BASE_SZ  PROVE e[y][1] # "EOCDR"
  <2>1. e[y] = Byte(n) \/ e[y] = FIELD  BY <1>1, <1>2
  <2>2. Byte(n)[1] = "byte" /\ FIELD[1] = "field"  BY DEF Byte, FIELD
  <2>3. QED  BY <2>1, <2>2
<1> HIDE DEF e
<1>7. QED  BY <1>4, <1>5, <1>6 DEF e

LEMMA EndHeld ==
  ASSUME NEW mem, Len(mem) \in Nat, NEW x \in Nat, NEW fields, NEW n,
         Holds(mem, x, EndRecord(fields, n))
  PROVE  EndRecordAt(mem, x) = [fields |-> fields, comment_len |-> n]
<1> DEFINE e == EndRecord(fields, n)
<1>1. /\ Len(e) = EOCDR_BASE_SZ /\ e[1] = <<"EOCDR", fields>> /\ e[EOCDR_BASE_SZ] = <<"byte", n>>
  BY EndCells
<1> HIDE DEF e
<1>2. EOCDR_BASE_SZ \in Nat /\ EOCDR_BASE_SZ >= 2  BY FormatAssumption DEF FormatAssumption
<1>3. x + EOCDR_BASE_SZ <= Len(mem) /\ \A y \in 1 .. EOCDR_BASE_SZ : mem[x + y] = e[y]
  BY <1>1 DEF Holds, e
<1>4. mem[x + 1] = <<"EOCDR", fields>> /\ mem[x + EOCDR_BASE_SZ] = <<"byte", n>>
  BY <1>1, <1>2, <1>3
<1>5. QED  BY <1>3, <1>4 DEF EndRecordAt

-----------------------------------------------------------------------------
(* The room for the local parts of the first n members, and for their part *)
(* of the directory.                                                       *)
LocalRoom == [x \in 1 .. num_memb |-> LFH_BASE_SZ + Len(names[x]) + Len(data[x])]
CentralRoom == [x \in 1 .. num_memb |-> CFH_BASE_SZ + Len(names[x])]
LocalsEnd(n) == SumFunctionOnSet(LocalRoom, 1 .. n)
CentralSize(n) == SumFunctionOnSet(CentralRoom, 1 .. n)

ArgsInv ==
  /\ names \in Seq(Names) /\ data \in Seq(Contents) /\ mtimes \in Seq(Times)
  /\ Len(data) = num_memb /\ Len(mtimes) = num_memb
  /\ comment \in Comments /\ zip_max_size # 0

LEMMA Args ==
  ASSUME ArgsInv
  PROVE  /\ num_memb \in Nat
         /\ \A x \in 1 .. num_memb :
              /\ names[x] \in Names /\ names[x] \in Seq(Range(names[x])) /\ Len(names[x]) \in Nat
              /\ data[x] \in Contents /\ data[x] \in Seq(Range(data[x])) /\ Len(data[x]) \in Nat
              /\ mtimes[x] \in LocalTime
         /\ comment \in Seq(Range(comment)) /\ Len(comment) \in Nat
<1>1. \A s \in Names \cup Contents \cup Comments : s \in Seq(Range(s)) /\ Len(s) \in Nat
  <2>1. ASSUME NEW s \in Names \cup Contents \cup Comments
        PROVE  s \in Seq(Range(s)) /\ Len(s) \in Nat
    <3>1. s \in Seq(Range(s))  BY WriteAssumption DEF WriteAssumption
    <3>2. ASSUME NEW R, s \in Seq(R)  PROVE Len(s) \in Nat  BY <3>2
    <3>3. QED  BY <3>1, <3>2
  <2>2. QED  BY <2>1
<1>2. num_memb \in Nat  BY DEF ArgsInv, num_memb
<1>3. ASSUME NEW x \in 1 .. num_memb
      PROVE  names[x] \in Names /\ data[x] \in Contents /\ mtimes[x] \in LocalTime
  <2>1. names[x] \in Names  BY DEF ArgsInv, num_memb
  <2>2. data[x] \in Contents  BY DEF ArgsInv
  <2>3. mtimes[x] \in Times  BY DEF ArgsInv
  <2>4. QED  BY <2>1, <2>2, <2>3, WriteAssumption DEF WriteAssumption
<1>4. comment \in Comments  BY DEF ArgsInv
<1>5. QED  BY <1>1, <1>2, <1>3, <1>4

LEMMA Sizes ==
  /\ LFH_BASE_SZ \in Nat \ {0} /\ CFH_BASE_SZ \in Nat \ {0}
  /\ EOCDR_BASE_SZ \in Nat /\ EOCDR_BASE_SZ >= 2
  /\ UINT16_MAX \in Nat /\ UINT32_MAX \in Nat
BY FormatAssumption DEF FormatAssumption

LEMMA Rooms ==
  ASSUME ArgsInv, NEW n \in 0 .. num_memb
  PROVE  /\ LocalsEnd(n) \in Nat /\ CentralSize(n) \in Nat
         /\ n = 0 => LocalsEnd(n) = 0 /\ CentralSize(n) = 0
         /\ n # 0 => /\ LocalsEnd(n) = LocalsEnd(n - 1) + LFH_BASE_SZ + Len(names[n]) + Len(data[n])
                     /\ CentralSize(n) = CentralSize(n - 1) + CFH_BASE_SZ + Len(names[n])
<1>1. num_memb \in Nat  BY Args
<1>2. \A x \in 1 .. num_memb : LocalRoom[x] \in Nat /\ CentralRoom[x] \in Nat
  <2>1. ASSUME NEW x \in 1 .. num_memb  PROVE LocalRoom[x] \in Nat /\ CentralRoom[x] \in Nat
    <3>1. PICK a \in Nat, b \in Nat : a = Len(names[x]) /\ b = Len(data[x])  BY Args
    <3>2. LocalRoom[x] = LFH_BASE_SZ + a + b /\ CentralRoom[x] = CFH_BASE_SZ + a
      BY <3>1 DEF LocalRoom, CentralRoom
    <3>3. QED  BY <3>2, Sizes
  <2>2. QED  BY <2>1
<1>3. /\ LocalsEnd(n) \in Nat /\ (n = 0 => LocalsEnd(n) = 0)
      /\ n # 0 => LocalsEnd(n) = LocalsEnd(n - 1) + LocalRoom[n]
  BY <1>1, <1>2, SumUpto DEF LocalsEnd
<1>4. /\ CentralSize(n) \in Nat /\ (n = 0 => CentralSize(n) = 0)
      /\ n # 0 => CentralSize(n) = CentralSize(n - 1) + CentralRoom[n]
  BY <1>1, <1>2, SumUpto DEF CentralSize
<1>5. ASSUME n # 0
      PROVE  /\ LocalsEnd(n) = LocalsEnd(n - 1) + LFH_BASE_SZ + Len(names[n]) + Len(data[n])
             /\ CentralSize(n) = CentralSize(n - 1) + CFH_BASE_SZ + Len(names[n])
  <2>1. n \in 1 .. num_memb  BY <1>1, <1>5
  <2>2. LocalRoom[n] = LFH_BASE_SZ + Len(names[n]) + Len(data[n])
        /\ CentralRoom[n] = CFH_BASE_SZ + Len(names[n])
    BY <2>1 DEF LocalRoom, CentralRoom
  <2>3. Len(names[n]) \in Nat /\ Len(data[n]) \in Nat  BY <2>1, Args
  <2>4. LocalsEnd(n - 1) \in Nat /\ CentralSize(n - 1) \in Nat
    <3> DEFINE q == n - 1
    <3>1. q \in 0 .. num_memb  BY <2>1, <1>1
    <3> HIDE DEF q
    <3>2. LocalsEnd(q) \in Nat  BY <3>1, <1>1, <1>2, SumUpto DEF LocalsEnd
    <3>3. CentralSize(q) \in Nat  BY <3>1, <1>1, <1>2, SumUpto DEF CentralSize
    <3>4. QED  BY <3>2, <3>3 DEF q
  <2>5. /\ LocalsEnd(n) = LocalsEnd(n - 1) + (LFH_BASE_SZ + Len(names[n]) + Len(data[n]))
        /\ CentralSize(n) = CentralSize(n - 1) + (CFH_BASE_SZ + Len(names[n]))
    BY <2>2, <1>3, <1>4, <1>5, Zenon
  <2>6. PICK a \in Nat, b \in Nat, u \in Nat, v \in Nat :
          a = Len(names[n]) /\ b = Len(data[n]) /\ u = LocalsEnd(n - 1) /\ v = CentralSize(n - 1)
    BY <2>3, <2>4
  <2>7. LFH_BASE_SZ \in Nat /\ CFH_BASE_SZ \in Nat  BY Sizes
  <2>8. LocalsEnd(n) = u + LFH_BASE_SZ + a + b /\ CentralSize(n) = v + CFH_BASE_SZ + a
    <3>1. LocalsEnd(n) = u + (LFH_BASE_SZ + a + b) /\ CentralSize(n) = v + (CFH_BASE_SZ + a)
      BY <2>5, <2>6
    <3>2. QED  BY <3>1, <2>7
  <2>9. QED  BY <2>6, <2>8
<1>6. QED  BY <1>3, <1>4, <1>5

(* The rooms grow.                                                         *)
LEMMA RoomsGrow ==
  ASSUME ArgsInv, NEW n \in 0 .. num_memb, NEW m \in 0 .. n
  PROVE  /\ LocalsEnd(m) <= LocalsEnd(n) /\ CentralSize(m) <= CentralSize(n)
         /\ m < n => CentralSize(m) < CentralSize(n)
<1> DEFINE Ok(q) == /\ LocalsEnd(m) <= LocalsEnd(q) /\ CentralSize(m) <= CentralSize(q)
                    /\ m < q => CentralSize(m) < CentralSize(q)
           Bad == {q \in m .. n : ~ Ok(q)}
<1>0. num_memb \in Nat  BY Args
<1>1. ASSUME Bad # {}  PROVE FALSE
  <2>1. PICK q \in Bad : \A x \in Bad : q <= x
    <3>1. Bad \subseteq Nat  BY <1>0
    <3> HIDE DEF Bad
    <3>2. QED  BY <1>1, <3>1, LeastNumber
  <2>2. q \in 0 .. num_memb /\ m \in 0 .. num_memb  BY <1>0
  <2>3. LocalsEnd(m) \in Nat /\ CentralSize(m) \in Nat  BY <2>2, Rooms
  <2>4. q # m  BY <2>1, <2>3
  <2>5. q - 1 \in m .. n /\ q - 1 \notin Bad /\ q \in 1 .. num_memb
    BY <1>0, <2>1, <2>4
  <2>6. Ok(q - 1)  BY <2>5
  <2>7. /\ LocalsEnd(q) = LocalsEnd(q - 1) + LFH_BASE_SZ + Len(names[q]) + Len(data[q])
        /\ CentralSize(q) = CentralSize(q - 1) + CFH_BASE_SZ + Len(names[q])
    BY <2>2, <2>5, Rooms
  <2>8. Len(names[q]) \in Nat /\ Len(data[q]) \in Nat  BY <2>5, Args
  <2>9. LocalsEnd(q - 1) \in Nat /\ CentralSize(q - 1) \in Nat
    <3>1. q - 1 \in 0 .. num_memb  BY <2>5, <1>0
    <3>2. QED  BY <3>1, Rooms
  <2>10. LocalsEnd(m) <= LocalsEnd(q - 1) /\ CentralSize(m) <= CentralSize(q - 1)  BY <2>6
  <2>11. LocalsEnd(m) <= LocalsEnd(q) /\ CentralSize(m) < CentralSize(q)
    <3>1. PICK a \in Nat, b \in Nat, u \in Nat, v \in Nat :
            a = Len(names[q]) /\ b = Len(data[q]) /\ u = LocalsEnd(q - 1) /\ v = CentralSize(q - 1)
      BY <2>8, <2>9
    <3>2. LocalsEnd(q) = u + LFH_BASE_SZ + a + b /\ CentralSize(q) = v + CFH_BASE_SZ + a
      BY <2>7, <3>1
    <3>3. LocalsEnd(m) <= u /\ CentralSize(m) <= v  BY <2>10, <3>1
    <3>4. QED  BY <2>3, <3>2, <3>3, Sizes
  <2>12. q \in 0 .. num_memb /\ CentralSize(q) \in Nat /\ LocalsEnd(q) \in Nat
    BY <2>2, Rooms
  <2>13. CentralSize(m) <= CentralSize(q)  BY <2>3, <2>11, <2>12
  <2>14. Ok(q)  BY <2>11, <2>13
  <2>15. QED  BY <2>1, <2>14
<1>2. n \in m .. n  BY <1>0
<1>3. Ok(n)  BY <1>1, <1>2
<1>4. QED  BY <1>3

(* The two make up what zip_max_size adds up.                              *)
LEMMA MaxSize ==
  ASSUME ArgsInv
  PROVE  /\ zip_max_size = EOCDR_BASE_SZ + Len(comment) + LocalsEnd(num_memb) + CentralSize(num_memb)
         /\ Len(comment) <= UINT16_MAX
<1> DEFINE room == [x \in 1 .. num_memb |-> CFH_BASE_SZ + LFH_BASE_SZ
                                             + 2 * Len(names[x]) + Len(data[x])]
           All(n) == SumFunctionOnSet(room, 1 .. n)
           Bad == {n \in 0 .. num_memb : All(n) # LocalsEnd(n) + CentralSize(n)}
<1>1. num_memb \in Nat  BY Args
<1>2. \A x \in 1 .. num_memb : room[x] \in Nat
  <2>1. ASSUME NEW x \in 1 .. num_memb  PROVE room[x] \in Nat
    <3>1. PICK a \in Nat, b \in Nat : a = Len(names[x]) /\ b = Len(data[x])  BY Args
    <3>2. room[x] = CFH_BASE_SZ + LFH_BASE_SZ + 2 * a + b  BY <3>1
    <3>3. \A y, z \in Nat : y + z + 2 * a + b \in Nat  OBVIOUS
    <3> HIDE DEF room
    <3>4. QED  BY <3>2, <3>3, Sizes
  <2>2. QED  BY <2>1
<1>3. ASSUME NEW n \in 0 .. num_memb
      PROVE  All(n) \in Nat /\ (n = 0 => All(n) = 0) /\ (n # 0 => All(n) = All(n - 1) + room[n])
  <2> HIDE DEF room
  <2>1. QED  BY <1>1, <1>2, SumUpto
<1> HIDE DEF All
<1>4. ASSUME Bad # {}  PROVE FALSE
  <2>1. PICK n \in Bad : \A x \in Bad : n <= x
    <3>1. Bad \subseteq Nat  BY <1>1
    <3> HIDE DEF Bad
    <3>2. QED  BY <1>4, <3>1, LeastNumber
  <2>2. n \in 0 .. num_memb /\ n # 0
    <3>1. n \in 0 .. num_memb  BY <2>1
    <3>2. n = 0 => LocalsEnd(n) = 0 /\ CentralSize(n) = 0  BY <3>1, Rooms
    <3>3. n = 0 => All(n) = 0  BY <3>1, <1>3
    <3>4. QED  BY <2>1, <3>1, <3>2, <3>3
  <2> DEFINE q == n - 1
  <2>3. q \in 0 .. num_memb /\ q \notin Bad /\ n \in 1 .. num_memb  BY <1>1, <2>1, <2>2
  <2>4. All(q) = LocalsEnd(q) + CentralSize(q)  BY <2>3
  <2>5. LocalsEnd(q) \in Nat /\ CentralSize(q) \in Nat  BY <2>3, Rooms
  <2>6. /\ LocalsEnd(n) = LocalsEnd(q) + LFH_BASE_SZ + Len(names[n]) + Len(data[n])
        /\ CentralSize(n) = CentralSize(q) + CFH_BASE_SZ + Len(names[n])
    BY <2>2, Rooms
  <2>7. All(n) = All(q) + room[n]  BY <2>2, <1>3
  <2>8. room[n] = CFH_BASE_SZ + LFH_BASE_SZ + 2 * Len(names[n]) + Len(data[n])
    BY <2>3
  <2>9. Len(names[n]) \in Nat /\ Len(data[n]) \in Nat  BY <2>3, Args
  <2>10. All(n) # LocalsEnd(n) + CentralSize(n)  BY <2>1
  <2> HIDE DEF q, room
  <2>11. PICK a \in Nat, b \in Nat, u \in Nat, v \in Nat :
           a = Len(names[n]) /\ b = Len(data[n]) /\ u = LocalsEnd(q) /\ v = CentralSize(q)
    BY <2>5, <2>9
  <2>12. /\ All(n) = (u + v) + (CFH_BASE_SZ + LFH_BASE_SZ + 2 * a + b)
         /\ LocalsEnd(n) = u + LFH_BASE_SZ + a + b /\ CentralSize(n) = v + CFH_BASE_SZ + a
    BY <2>4, <2>6, <2>7, <2>8, <2>11
  <2>13. \A x, y \in Nat : (u + v) + (x + y + 2 * a + b) = (u + y + a + b) + (v + x + a)
    OBVIOUS
  <2>14. CFH_BASE_SZ \in Nat /\ LFH_BASE_SZ \in Nat  BY Sizes
  <2>15. QED  BY <2>10, <2>12, <2>13, <2>14
<1>5. num_memb \in 0 .. num_memb  BY <1>1
<1>6. All(num_memb) = LocalsEnd(num_memb) + CentralSize(num_memb)
  BY <1>4, <1>5
<1>7. SumFunction(room) = All(num_memb)
  <2>1. DOMAIN room = 1 .. num_memb  OBVIOUS
  <2> HIDE DEF room
  <2>2. QED  BY <2>1 DEF SumFunction, All
<1>8. ~ (Len(comment) > UINT16_MAX)
      /\ zip_max_size = EOCDR_BASE_SZ + Len(comment) + SumFunction(room)
  <2>1. zip_max_size # 0  BY DEF ArgsInv
  <2>2. QED  BY <2>1 DEF zip_max_size
<1>9. LocalsEnd(num_memb) \in Nat /\ CentralSize(num_memb) \in Nat  BY <1>5, Rooms
<1>10. Len(comment) \in Nat  BY Args
<1> HIDE DEF room
<1>11. QED  BY <1>6, <1>7, <1>8, <1>9, <1>10, Sizes

-----------------------------------------------------------------------------
(* The DOS format keeps every field of a time up to 2107, the second to    *)
(* its last bit.                                                           *)
LEMMA TimeFields ==
  ASSUME NEW t \in LocalTime
  PROVE  /\ t.tm_sec \in 0 .. 59 /\ t.tm_min \in 0 .. 59 /\ t.tm_hour \in 0 .. 23
         /\ t.tm_mday \in 1 .. 31 /\ t.tm_mon \in 0 .. 11 /\ t.tm_year \in Nat /\ t.tm_year >= 80
BY DEF LocalTime

LEMMA TimeExceptSecond ==
  ASSUME NEW t \in LocalTime, NEW s
  PROVE  [t EXCEPT !.tm_sec = s] =
           [tm_sec |-> s, tm_min |-> t.tm_min, tm_hour |-> t.tm_hour,
            tm_mday |-> t.tm_mday, tm_mon |-> t.tm_mon, tm_year |-> t.tm_year]
BY DEF LocalTime

LEMMA PackType ==
  ASSUME NEW a \in Nat, NEW b \in Nat, NEW c \in Nat, NEW n \in Nat
  PROVE  Pack(a, b, c, n) \in Uint16
<1>1. PICK x \in Nat : x = a + 32 * (b + n * c)
  <2>1. PICK y \in Nat : y = n * c  OBVIOUS
  <2>2. a + 32 * (b + y) \in Nat  OBVIOUS
  <2>3. QED  BY <2>1, <2>2
<1>2. uint16(x) \in Nat /\ uint16(x) < 65536  BY DEF uint16
<1>3. uint16(x) \in Uint16  BY <1>2 DEF Uint16
<1>4. QED  BY <1>1, <1>3 DEF Pack

(* The fields side by side, and each of them again.                        *)
LEMMA PackedTime ==
  ASSUME NEW a \in Nat, a <= 31, NEW b \in Nat, b <= 63, NEW c \in Nat, c <= 31
  PROVE  Low(Pack(a, b, c, 64)) = a /\ Middle(Pack(a, b, c, 64), 64) = b /\ High(Pack(a, b, c, 64), 64) = c
<1>1. PICK y \in Nat : y = b + 64 * c  OBVIOUS
<1>2. PICK x \in Nat : x = a + 32 * y  OBVIOUS
<1>3. x <= 65535  BY <1>1, <1>2
<1>4. uint16(x) = x  BY <1>3 DEF uint16
<1>5. Pack(a, b, c, 64) = x  BY <1>1, <1>2, <1>4 DEF Pack
<1>6. x % 32 = a /\ x \div 32 = y  BY <1>2
<1>7. y % 64 = b /\ y \div 64 = c  BY <1>1
<1>8. QED  BY <1>5, <1>6, <1>7 DEF Low, Middle, High

LEMMA PackedDate ==
  ASSUME NEW a \in Nat, a <= 31, NEW b \in Nat, b <= 15, NEW c \in Nat, c <= 127
  PROVE  Low(Pack(a, b, c, 16)) = a /\ Middle(Pack(a, b, c, 16), 16) = b /\ High(Pack(a, b, c, 16), 16) = c
<1>1. PICK y \in Nat : y = b + 16 * c  OBVIOUS
<1>2. PICK x \in Nat : x = a + 32 * y  OBVIOUS
<1>3. x <= 65535  BY <1>1, <1>2
<1>4. uint16(x) = x  BY <1>3 DEF uint16
<1>5. Pack(a, b, c, 16) = x  BY <1>1, <1>2, <1>4 DEF Pack
<1>6. x % 32 = a /\ x \div 32 = y  BY <1>2
<1>7. y % 16 = b /\ y \div 16 = c  BY <1>1
<1>8. QED  BY <1>5, <1>6, <1>7 DEF Low, Middle, High

LEMMA HalfSecond ==
  ASSUME NEW s \in 0 .. 59
  PROVE  s \div 2 \in Nat /\ s \div 2 <= 31 /\ 2 * (s \div 2) = s - (s % 2)
OBVIOUS

LEMMA DosTimeOf ==
  ASSUME NEW t \in LocalTime  PROVE ctime2dos(t) \in DosTime
<1>1. /\ t.tm_sec \div 2 \in Nat /\ t.tm_min \in Nat /\ t.tm_hour \in Nat
      /\ t.tm_mday \in Nat /\ t.tm_mon + 1 \in Nat /\ t.tm_year - 80 \in Nat
  BY TimeFields, HalfSecond
<1>2. /\ Pack(t.tm_sec \div 2, t.tm_min, t.tm_hour, 64) \in Uint16
      /\ Pack(t.tm_mday, t.tm_mon + 1, t.tm_year - 80, 16) \in Uint16
  BY <1>1, PackType
<1>3. QED  BY <1>2 DEF ctime2dos, DosTime

LEMMA TimeReadBack ==
  ASSUME NEW t \in LocalTime, t.tm_year <= 207
  PROVE  dos2ctime(ctime2dos(t)) = [t EXCEPT !.tm_sec = @ - (@ % 2)]
<1>1. /\ t.tm_sec \div 2 \in Nat /\ t.tm_sec \div 2 <= 31
      /\ 2 * (t.tm_sec \div 2) = t.tm_sec - (t.tm_sec % 2)
  BY TimeFields, HalfSecond
<1>2. /\ t.tm_min \in Nat /\ t.tm_min <= 63 /\ t.tm_hour \in Nat /\ t.tm_hour <= 31
      /\ t.tm_mday \in Nat /\ t.tm_mday <= 31 /\ t.tm_mon + 1 \in Nat /\ t.tm_mon + 1 <= 15
      /\ t.tm_year - 80 \in Nat /\ t.tm_year - 80 <= 127
  BY TimeFields
<1>3. (t.tm_mon + 1) - 1 = t.tm_mon /\ (t.tm_year - 80) + 80 = t.tm_year  BY TimeFields
<1> DEFINE time == Pack(t.tm_sec \div 2, t.tm_min, t.tm_hour, 64)
           date == Pack(t.tm_mday, t.tm_mon + 1, t.tm_year - 80, 16)
<1>4. Low(time) = t.tm_sec \div 2 /\ Middle(time, 64) = t.tm_min /\ High(time, 64) = t.tm_hour
  BY <1>1, <1>2, PackedTime
<1>5. Low(date) = t.tm_mday /\ Middle(date, 16) = t.tm_mon + 1 /\ High(date, 16) = t.tm_year - 80
  BY <1>2, PackedDate
<1>6. ctime2dos(t) = [time |-> time, date |-> date]  BY DEF ctime2dos
<1> HIDE DEF time, date
<1>7. ctime2dos(t).time = time /\ ctime2dos(t).date = date  BY <1>6
<1>8. dos2ctime(ctime2dos(t)) =
        [tm_sec |-> t.tm_sec - (t.tm_sec % 2), tm_min |-> t.tm_min, tm_hour |-> t.tm_hour,
         tm_mday |-> t.tm_mday, tm_mon |-> t.tm_mon, tm_year |-> t.tm_year]
  BY <1>1, <1>3, <1>4, <1>5, <1>7 DEF dos2ctime
<1>9. [t EXCEPT !.tm_sec = @ - (@ % 2)] =
        [tm_sec |-> t.tm_sec - (t.tm_sec % 2), tm_min |-> t.tm_min, tm_hour |-> t.tm_hour,
         tm_mday |-> t.tm_mday, tm_mon |-> t.tm_mon, tm_year |-> t.tm_year]
  BY TimeExceptSecond
<1>10. QED  BY <1>8, <1>9

-----------------------------------------------------------------------------
(* What zip_write leaves in memory.  The local header l of a member.       *)
Described(l, name, content, time) ==
  /\ l \in LocalFields
  /\ l.name_len = Len(name) /\ l.extra_len = 0 /\ l.encrypted = FALSE
  /\ l.mod = ctime2dos(time) /\ l.crc32 = content
  /\ l.uncomp_size = Len(content) /\ l.comp_size <= Len(content)
  /\ l.method = "STORED" => l.comp_size = l.uncomp_size
Body(l, content) == IF l.method = "STORED" THEN content ELSE Deflated(content, l.comp_size)

LocalAt(mem, from, to, l, name, content, time) ==
  /\ Described(l, name, content, time)
  /\ from \in Nat /\ to = from + LFH_BASE_SZ + Len(name) + l.comp_size
  /\ Holds(mem, from, LocalHeader(l) \o name)
  /\ Holds(mem, from + LFH_BASE_SZ + Len(name), Body(l, content))

(* The first n members, one after the other from the beginning on.         *)
Locals(mem, at, lh, ns, ds, ts, n) ==
  /\ at \in [1 .. n + 1 -> Nat] /\ at[1] = 0 /\ \A x \in 1 .. n + 1 : at[x] <= at[n + 1]
  /\ \A x \in 1 .. n : LocalAt(mem, at[x], at[x + 1], lh[x], ns[x], ds[x], ts[x])

LocalsTo(mem, ns, ds, ts, n, end) ==
  \E at, lh : Locals(mem, at, lh, ns, ds, ts, n) /\ at[n + 1] = end

CentralOf(l, from) ==
  [method |-> l.method, encrypted |-> l.encrypted, mod |-> l.mod, crc32 |-> l.crc32,
   comp_size |-> l.comp_size, uncomp_size |-> l.uncomp_size, name_len |-> l.name_len,
   extra_len |-> 0, comment_len |-> 0, disk_nbr_start |-> 0, nul_in_name |-> FALSE,
   lfh_offset |-> from]
EndOf(n, size, from) ==
  [disk_nbr |-> 0, cd_start_disk |-> 0, disk_cd_entries |-> n, cd_entries |-> n,
   cd_size |-> size, cd_offset |-> from]

LEMMA Parts ==
  ASSUME NEW R, NEW name \in Seq(R), NEW Q, NEW content \in Seq(Q), NEW time,
         NEW l, Described(l, name, content, time)
  PROVE  /\ \E T : LocalHeader(l) \in Seq(T) /\ LocalHeader(l) \o name \in Seq(T \cup R)
         /\ Len(LocalHeader(l)) = LFH_BASE_SZ
         /\ Len(LocalHeader(l) \o name) = LFH_BASE_SZ + Len(name)
         /\ \E T : Body(l, content) \in Seq(T)
         /\ Len(Body(l, content)) = l.comp_size
         /\ l.comp_size \in Nat /\ Len(name) \in Nat /\ Len(content) \in Nat
<1>1. PICK T : LocalHeader(l) \in Seq(T)  BY HeaderCells, Sizes DEF LocalHeader
<1>2. Len(LocalHeader(l)) = LFH_BASE_SZ  BY HeaderCells, Sizes DEF LocalHeader
<1>3. LocalHeader(l) \in Seq(T \cup R) /\ name \in Seq(T \cup R)  BY <1>1
<1>4. LocalHeader(l) \o name \in Seq(T \cup R)
      /\ Len(LocalHeader(l) \o name) = LFH_BASE_SZ + Len(name)
  BY <1>2, <1>3
<1>5. /\ l.comp_size \in Nat /\ l.method \in {"STORED", "DEFLATED"} /\ l.uncomp_size = Len(content)
      /\ l.method = "STORED" => l.comp_size = Len(content)
  BY DEF Described, LocalFields
<1>6. (\E U : Deflated(content, l.comp_size) \in Seq(U))
      /\ Len(Deflated(content, l.comp_size)) = l.comp_size
  <2> DEFINE n == l.comp_size
             f == Deflated(content, n)
             U == {<<"deflated", <<content, x>>>> : x \in 1 .. n}
  <2>1. n \in Nat  BY <1>5
  <2> HIDE DEF n
  <2>2. f \in [1 .. n -> U]  BY DEF Deflated
  <2> HIDE DEF f, U
  <2>3. f \in Seq(U) /\ Len(f) = n  BY <2>1, <2>2
  <2>4. QED  BY <2>3 DEF f, n
<1>7. (\E U : Body(l, content) \in Seq(U)) /\ Len(Body(l, content)) = l.comp_size
  <2>1. CASE l.method = "STORED"  BY <2>1, <1>5 DEF Body
  <2>2. CASE l.method # "STORED"  BY <2>2, <1>6 DEF Body
  <2>3. QED  BY <2>1, <2>2
<1>8. \E U : LocalHeader(l) \in Seq(U) /\ LocalHeader(l) \o name \in Seq(U \cup R)
  BY <1>1, <1>4
<1>9. Len(name) \in Nat /\ Len(content) \in Nat  OBVIOUS
<1>10. QED  BY <1>2, <1>4, <1>5, <1>7, <1>8, <1>9

(* What is written behind a member leaves it as it is.                     *)
LEMMA LocalKept ==
  ASSUME NEW S, NEW mem \in Seq(S), NEW U, NEW cells \in Seq(U), NEW off \in Nat,
         NEW from, NEW to, NEW l, NEW R, NEW name \in Seq(R), NEW Q, NEW content \in Seq(Q), NEW time,
         LocalAt(mem, from, to, l, name, content, time), to <= off
  PROVE  LocalAt(Put(mem, off, cells), from, to, l, name, content, time)
<1> DEFINE head == LocalHeader(l) \o name
           body == Body(l, content)
<1>1. Described(l, name, content, time)  BY DEF LocalAt
<1>2. PICK T : head \in Seq(T)  BY <1>1, Parts
<1>3. PICK V : body \in Seq(V)  BY <1>1, Parts
<1>4. /\ Len(head) = LFH_BASE_SZ + Len(name) /\ Len(body) = l.comp_size
      /\ l.comp_size \in Nat /\ Len(name) \in Nat
  BY <1>1, Parts
<1>5. /\ from \in Nat /\ to = from + LFH_BASE_SZ + Len(name) + l.comp_size
      /\ Holds(mem, from, head) /\ Holds(mem, from + LFH_BASE_SZ + Len(name), body)
  BY DEF LocalAt
<1> HIDE DEF head, body
<1>6. from + Len(head) <= off  BY <1>4, <1>5, Sizes
<1>7. Holds(Put(mem, off, cells), from, head)  BY <1>2, <1>5, <1>6, PutKeeps
<1>8. PICK z \in Nat : z = from + LFH_BASE_SZ + Len(name)  BY <1>4, <1>5, Sizes
<1>9. z + Len(body) <= off  BY <1>4, <1>5, <1>8
<1>10. Holds(Put(mem, off, cells), z, body)  BY <1>3, <1>5, <1>8, <1>9, PutKeeps
<1>11. QED  BY <1>1, <1>5, <1>7, <1>8, <1>10 DEF LocalAt, head, body

LEMMA LocalsKept ==
  ASSUME ArgsInv, NEW S, NEW mem \in Seq(S), NEW U, NEW cells \in Seq(U), NEW off \in Nat,
         NEW at, NEW lh, NEW n \in 0 .. num_memb, Locals(mem, at, lh, names, data, mtimes, n),
         at[n + 1] <= off
  PROVE  Locals(Put(mem, off, cells), at, lh, names, data, mtimes, n)
<1>1. ASSUME NEW x \in 1 .. n
      PROVE  LocalAt(Put(mem, off, cells), at[x], at[x + 1], lh[x], names[x], data[x], mtimes[x])
  <2>1. x \in 1 .. num_memb /\ x + 1 \in 1 .. n + 1 /\ n + 1 \in 1 .. n + 1  BY Args
  <2>2. LocalAt(mem, at[x], at[x + 1], lh[x], names[x], data[x], mtimes[x])  BY DEF Locals
  <2>3. at[x + 1] <= at[n + 1] /\ at[x + 1] \in Nat /\ at[n + 1] \in Nat  BY <2>1 DEF Locals
  <2>4. at[x + 1] <= off  BY <2>3
  <2>5. names[x] \in Seq(Range(names[x])) /\ data[x] \in Seq(Range(data[x]))  BY <2>1, Args
  <2>6. QED  BY <2>2, <2>4, <2>5, LocalKept
<1>2. QED  BY <1>1 DEF Locals

(* The three writes of write_lfh and hwdeflate or memcpy.                  *)
LocalPut(mem, x, l, name, content) ==
  LET d == x + LFH_BASE_SZ + Len(name)
  IN Put(Put(Put(mem, d, Deflated(content, Len(content))), d, Body(l, content)),
         x, LocalHeader(l) \o name)

LEMMA DeflatedSeq ==
  ASSUME NEW content, NEW n \in Nat
  PROVE  (\E U : Deflated(content, n) \in Seq(U)) /\ Len(Deflated(content, n)) = n
<1> DEFINE f == Deflated(content, n)
           U == {<<"deflated", <<content, x>>>> : x \in 1 .. n}
<1>1. f \in [1 .. n -> U]  BY DEF Deflated
<1> HIDE DEF f, U
<1>2. f \in Seq(U) /\ Len(f) = n  BY <1>1
<1>3. QED  BY <1>2 DEF f

LEMMA LocalWritten ==
  ASSUME ArgsInv, NEW S, NEW mem \in Seq(S), NEW n \in 1 .. num_memb,
         NEW at, NEW lh, Locals(mem, at, lh, names, data, mtimes, n - 1),
         NEW l, Described(l, names[n], data[n], mtimes[n]),
         at[n] + LFH_BASE_SZ + Len(names[n]) + Len(data[n]) <= Len(mem)
  PROVE  /\ \E T : LocalPut(mem, at[n], l, names[n], data[n]) \in Seq(T)
         /\ Len(LocalPut(mem, at[n], l, names[n], data[n])) = Len(mem)
         /\ LocalsTo(LocalPut(mem, at[n], l, names[n], data[n]), names, data, mtimes, n,
                     at[n] + LFH_BASE_SZ + Len(names[n]) + l.comp_size)
<1> DEFINE x == at[n]
           name == names[n]
           content == data[n]
           d == x + LFH_BASE_SZ + Len(name)
           end == d + l.comp_size
           head == LocalHeader(l) \o name
           body == Body(l, content)
           junk == Deflated(content, Len(content))
           m1 == Put(mem, d, junk)
           m2 == Put(m1, d, body)
           m3 == Put(m2, x, head)
<1>1. num_memb \in Nat /\ n - 1 \in 0 .. num_memb /\ (n - 1) + 1 = n  BY Args
<1>2. x \in Nat  BY <1>1 DEF Locals
<1>3. /\ name \in Seq(Range(name)) /\ content \in Seq(Range(content))
      /\ Len(name) \in Nat /\ Len(content) \in Nat
  BY Args
<1>4. d \in Nat /\ x <= d /\ d + Len(content) <= Len(mem)
  BY <1>2, <1>3, Sizes
<1>5. (\E U : junk \in Seq(U)) /\ Len(junk) = Len(content)  BY <1>3, DeflatedSeq
<1>6. /\ \E T : head \in Seq(T)
      /\ Len(head) = LFH_BASE_SZ + Len(name)
      /\ \E T : body \in Seq(T)
      /\ Len(body) = l.comp_size /\ l.comp_size \in Nat /\ l.comp_size <= Len(content)
  <2>1. l.comp_size <= Len(content)  BY DEF Described
  <2>2. Described(l, name, content, mtimes[n])  OBVIOUS
  <2> HIDE DEF name, content
  <2>3. PICK R, Q : name \in Seq(R) /\ content \in Seq(Q)  BY <1>3
  <2>4. \E T : head \in Seq(T)
    <3>1. PICK T : LocalHeader(l) \o name \in Seq(T \cup R)  BY <2>2, <2>3, Parts
    <3>2. QED  BY <3>1
  <2>5. \E T : body \in Seq(T)  BY <2>2, <2>3, Parts
  <2>6. Len(head) = LFH_BASE_SZ + Len(name) /\ Len(body) = l.comp_size /\ l.comp_size \in Nat
    BY <2>2, <2>3, Parts
  <2>7. QED  BY <2>1, <2>4, <2>5, <2>6
<1>7. m3 = LocalPut(mem, at[n], l, names[n], data[n])  BY DEF LocalPut
<1>8. Described(l, name, content, mtimes[n])  OBVIOUS
<1>9. Locals(mem, at, lh, names, data, mtimes, n - 1) /\ at[(n - 1) + 1] = x  BY <1>1
<1> HIDE DEF head, body, junk, m1, m2, m3, d, name, content, x
<1>10. PICK T1 : m1 \in Seq(T1)  BY <1>5, PutLen DEF m1
<1>11. PICK T2 : m2 \in Seq(T2)  BY <1>6, <1>10, PutLen DEF m2
<1>12. PICK T3 : m3 \in Seq(T3)  BY <1>6, <1>11, PutLen DEF m3
<1>13. Len(m1) = Len(mem) /\ Len(m2) = Len(mem) /\ Len(m3) = Len(mem)
  <2>1. Len(m1) = Len(mem)  BY PutLen DEF m1
  <2>2. Len(m2) = Len(m1)  BY <1>10, PutLen DEF m2
  <2>3. Len(m3) = Len(m2)  BY <1>11, PutLen DEF m3
  <2>4. QED  BY <2>1, <2>2, <2>3
<1>14. Locals(m3, at, lh, names, data, mtimes, n - 1)
  <2> DEFINE q == n - 1
  <2>1. q \in 0 .. num_memb /\ Locals(mem, at, lh, names, data, mtimes, q) /\ at[q + 1] = x
    BY <1>1, <1>9
  <2> HIDE DEF q
  <2>2. Locals(m1, at, lh, names, data, mtimes, q)
    BY <1>4, <1>5, <2>1, LocalsKept DEF m1
  <2>3. Locals(m2, at, lh, names, data, mtimes, q)
    BY <1>4, <1>6, <1>10, <2>1, <2>2, LocalsKept DEF m2
  <2>4. at[q + 1] <= x  BY <1>2, <2>1
  <2>5. Locals(m3, at, lh, names, data, mtimes, q)
    BY <1>2, <1>6, <1>11, <2>1, <2>3, <2>4, LocalsKept DEF m3
  <2>6. QED  BY <2>5 DEF q
<1>15. Holds(m3, d, body)
  <2>1. d + Len(body) <= Len(m1)  BY <1>4, <1>6, <1>13, <1>3
  <2>2. Holds(m2, d, body)  BY <1>4, <1>6, <1>10, <2>1, PutHolds DEF m2
  <2>3. x + Len(head) <= d  BY <1>2, <1>3, <1>6, Sizes DEF d
  <2>4. QED  BY <1>2, <1>4, <1>6, <1>11, <2>2, <2>3, PutKeeps DEF m3
<1>16. Holds(m3, x, head)
  <2>1. x + Len(head) <= Len(m2)  BY <1>2, <1>3, <1>4, <1>6, <1>13, Sizes DEF d
  <2>2. QED  BY <1>2, <1>6, <1>11, <2>1, PutHolds DEF m3
<1>17. LocalAt(m3, x, end, l, name, content, mtimes[n])
  BY <1>2, <1>8, <1>15, <1>16 DEF LocalAt, head, body, d
<1>18. end \in Nat /\ x <= end  BY <1>2, <1>4, <1>6
<1> HIDE DEF end
<1> DEFINE at2 == [y \in 1 .. n + 1 |-> IF y = n + 1 THEN end ELSE at[y]]
           lh2 == [y \in 1 .. n |-> IF y = n THEN l ELSE lh[y]]
<1>19. /\ at \in [1 .. n -> Nat] /\ at[1] = 0 /\ \A y \in 1 .. n : at[y] <= x
       /\ \A y \in 1 .. n - 1 : LocalAt(m3, at[y], at[y + 1], lh[y], names[y], data[y], mtimes[y])
  BY <1>1, <1>9, <1>14 DEF Locals
<1>20. /\ at2 \in [1 .. n + 1 -> Nat] /\ at2[1] = 0 /\ at2[n + 1] = end
       /\ \A y \in 1 .. n : at2[y] = at[y]
  BY <1>1, <1>18, <1>19
<1>21. \A y \in 1 .. n + 1 : at2[y] <= at2[n + 1]
  <2>1. ASSUME NEW y \in 1 .. n + 1  PROVE at2[y] <= end
    <3>1. CASE y = n + 1  BY <3>1, <1>18, <1>20
    <3>2. CASE y \in 1 .. n
      <4>1. at2[y] = at[y] /\ at[y] <= x /\ at[y] \in Nat  BY <3>2, <1>19, <1>20
      <4>2. QED  BY <4>1, <1>2, <1>18
    <3>3. QED  BY <3>1, <3>2, <1>1
  <2>2. QED  BY <2>1, <1>20
<1>22. ASSUME NEW y \in 1 .. n
       PROVE  LocalAt(m3, at2[y], at2[y + 1], lh2[y], names[y], data[y], mtimes[y])
  <2>1. CASE y = n
    <3>1. at2[y] = x /\ at2[y + 1] = end /\ lh2[y] = l  BY <2>1, <1>20 DEF x
    <3>2. names[y] = name /\ data[y] = content  BY <2>1 DEF name, content
    <3>3. QED  BY <2>1, <3>1, <3>2, <1>17
  <2>2. CASE y \in 1 .. n - 1
    <3>1. y \in 1 .. n /\ y + 1 \in 1 .. n /\ y # n  BY <2>2, <1>1
    <3>2. at2[y] = at[y] /\ at2[y + 1] = at[y + 1] /\ lh2[y] = lh[y]  BY <3>1, <1>20
    <3>3. QED  BY <2>2, <3>2, <1>19
  <2>3. QED  BY <2>1, <2>2, <1>1
<1> HIDE DEF at2, lh2
<1>23. Locals(m3, at2, lh2, names, data, mtimes, n)  BY <1>20, <1>21, <1>22 DEF Locals
<1>24. QED
  <2>1. at2[n + 1] = at[n] + LFH_BASE_SZ + Len(names[n]) + l.comp_size
    BY <1>20 DEF end, d, x, name
  <2>2. LocalsTo(m3, names, data, mtimes, n, at[n] + LFH_BASE_SZ + Len(names[n]) + l.comp_size)
    BY <2>1, <1>23 DEF LocalsTo
  <2>3. QED  BY <2>2, <1>7, <1>12, <1>13

-----------------------------------------------------------------------------
(* The entry of a member in the directory, and the first n of them.        *)
EntryOf(l, from, name) == CentralHeader(CentralOf(l, from)) \o name
Entries(mem, at, lh, ns, room, from, n) ==
  \A x \in 1 .. n : Holds(mem, from + SumFunctionOnSet(room, 1 .. x - 1), EntryOf(lh[x], at[x], ns[x]))

(* All m members, up to end, and the first n entries; next is the offset   *)
(* of the next local header to be read.                                    *)
DirectoryTo(mem, ns, ds, ts, m, end, room, n, next) ==
  \E at, lh :
    /\ Locals(mem, at, lh, ns, ds, ts, m) /\ at[m + 1] = end /\ at[n + 1] = next
    /\ Entries(mem, at, lh, ns, room, end, n)

LocalInv ==
  /\ i \in 1 .. num_memb + 1 /\ high <= LocalsEnd(i - 1)
  /\ LocalsTo(dst, names, data, mtimes, i - 1, p)

Directory(n) ==
  DirectoryTo(dst, names, data, mtimes, num_memb, cd_offset, CentralRoom, n, lfh_offset)

CentralInv ==
  /\ i \in 1 .. num_memb + 1 /\ cd_offset \in 0 .. LocalsEnd(num_memb)
  /\ p = cd_offset + CentralSize(i - 1) /\ high <= LocalsEnd(num_memb) + CentralSize(i - 1)
  /\ Directory(i - 1)

EndOffset == cd_offset + CentralSize(num_memb)
WrittenInv ==
  /\ cd_offset \in 0 .. LocalsEnd(num_memb) /\ high <= zip_max_size
  /\ p = EndOffset + EOCDR_BASE_SZ + Len(comment)
  /\ Directory(num_memb)
  /\ Holds(dst, EndOffset,
           EndRecord(EndOf(num_memb, CentralSize(num_memb), cd_offset), Len(comment)) \o comment)

MemoryInv ==
  /\ ArgsInv
  /\ \E S : dst \in Seq(S)
  /\ Len(dst) = zip_max_size
  /\ p \in Nat /\ high \in Nat /\ p <= high

WriteInv ==
  /\ created \in BOOLEAN
  /\ created =>
       /\ MemoryInv
       /\ w \in {"local", "central", "written", "saved"}
       /\ w = "local" => LocalInv
       /\ w = "central" => CentralInv
       /\ w \in {"written", "saved"} => WrittenInv
  /\ ~ created => w = "none" /\ names = <<>> /\ comment = <<>> /\ p = 0 /\ high = 0

LEMMA SameArgs ==
  ASSUME UNCHANGED args
  PROVE  /\ ArgsInv => ArgsInv'
         /\ num_memb' = num_memb /\ LocalRoom' = LocalRoom /\ CentralRoom' = CentralRoom
         /\ zip_max_size' = zip_max_size
         /\ names' = names /\ data' = data /\ mtimes' = mtimes /\ comment' = comment
<1>1. names' = names /\ data' = data /\ mtimes' = mtimes /\ comment' = comment  BY DEF args
<1>2. num_memb' = num_memb  BY <1>1 DEF num_memb
<1>3. LocalRoom' = LocalRoom /\ CentralRoom' = CentralRoom
  BY <1>1, <1>2 DEF LocalRoom, CentralRoom
<1>4. zip_max_size' = zip_max_size  BY <1>1, <1>2 DEF zip_max_size
<1>5. ArgsInv => ArgsInv'  BY <1>1, <1>2, <1>4 DEF ArgsInv
<1>6. QED  BY <1>1, <1>2, <1>3, <1>4, <1>5

LEMMA MaxOfTwo ==
  ASSUME NEW a \in Nat, NEW b \in Nat
  PROVE  /\ Max({a, b}) \in Nat /\ a <= Max({a, b}) /\ b <= Max({a, b})
         /\ Max({a, b}) = a \/ Max({a, b}) = b
<1>1. \E x \in {a, b} : \A y \in {a, b} : x >= y
  <2>1. CASE a >= b  BY <2>1
  <2>2. CASE b >= a  BY <2>2
  <2>3. QED  BY <2>1, <2>2
<1>2. Max({a, b}) \in {a, b} /\ \A y \in {a, b} : Max({a, b}) >= y
  BY <1>1 DEF Max
<1>3. QED  BY <1>2

LEMMA EntryCells ==
  ASSUME NEW R, NEW name \in Seq(R), NEW l, NEW from
  PROVE  /\ \E T : EntryOf(l, from, name) \in Seq(T)
         /\ Len(EntryOf(l, from, name)) = CFH_BASE_SZ + Len(name)
<1>1. PICK T : CentralHeader(CentralOf(l, from)) \in Seq(T)
  BY HeaderCells, Sizes DEF CentralHeader
<1>2. Len(CentralHeader(CentralOf(l, from))) = CFH_BASE_SZ
  BY HeaderCells, Sizes DEF CentralHeader
<1> DEFINE h == CentralHeader(CentralOf(l, from))
<1> HIDE DEF h
<1>3. h \in Seq(T \cup R) /\ name \in Seq(T \cup R) /\ Len(h) = CFH_BASE_SZ
  BY <1>1, <1>2 DEF h
<1>4. h \o name \in Seq(T \cup R) /\ Len(h \o name) = CFH_BASE_SZ + Len(name)
  BY <1>3
<1>5. QED  BY <1>4 DEF EntryOf, h

-----------------------------------------------------------------------------
LEMMA WriteLocalStep ==
  ASSUME WriteInv, created, created' = created, WriteLocal
  PROVE  WriteInv'
<1>1. w = "local" /\ i <= num_memb /\ MemoryInv /\ LocalInv
  BY DEF WriteInv, WriteLocal
<1>2. ArgsInv /\ num_memb \in Nat /\ i \in 1 .. num_memb
  BY <1>1, Args DEF MemoryInv, LocalInv
<1> DEFINE size == Len(data[i])
           data_dst == p + LFH_BASE_SZ + Len(names[i])
           lfhOf(ok, n) == [method |-> IF Accepted(ok, n, size) THEN "DEFLATED" ELSE "STORED",
                         encrypted |-> FALSE, mod |-> ctime2dos(mtimes[i]), crc32 |-> data[i],
                         comp_size |-> Len(IF Accepted(ok, n, size) THEN Deflated(data[i], n) ELSE data[i]),
                         uncomp_size |-> size,
                         name_len |-> Len(names[i]), extra_len |-> 0]
<1>3. PICK ok \in BOOLEAN, n \in 1 .. size \cup {0} :
        /\ dst' = Put(Put(Put(dst, data_dst, Deflated(data[i], size)), data_dst,
                          IF Accepted(ok, n, size) THEN Deflated(data[i], n) ELSE data[i]),
                      p, LocalHeader(lfhOf(ok, n)) \o names[i])
        /\ p' = p + LfhSize(lfhOf(ok, n)) + lfhOf(ok, n).comp_size
        /\ high' = Max({high, data_dst + size})
  BY <1>1 DEF WriteLocal
<1>4. i' = i + 1 /\ UNCHANGED args /\ w' = "local"
  BY <1>1 DEF WriteLocal
<1> DEFINE lfh == lfhOf(ok, n)
<1>5. /\ names[i] \in Seq(Range(names[i])) /\ Len(names[i]) \in Nat
      /\ data[i] \in Contents /\ data[i] \in Seq(Range(data[i])) /\ size \in Nat
      /\ mtimes[i] \in LocalTime
  BY <1>2, Args
<1>6. Len(IF Accepted(ok, n, size) THEN Deflated(data[i], n) ELSE data[i]) =
        IF Accepted(ok, n, size) THEN n ELSE size
  BY <1>5, DeflatedSeq
<1>7. /\ lfh = [method |-> IF Accepted(ok, n, size) THEN "DEFLATED" ELSE "STORED",
                encrypted |-> FALSE, mod |-> ctime2dos(mtimes[i]), crc32 |-> data[i],
                comp_size |-> IF Accepted(ok, n, size) THEN n ELSE size, uncomp_size |-> size,
                name_len |-> Len(names[i]), extra_len |-> 0]
  BY <1>6
<1>8. n \in Nat /\ (Accepted(ok, n, size) => n <= size)  BY <1>5 DEF Accepted
<1>9. ctime2dos(mtimes[i]) \in DosTime  BY <1>5, DosTimeOf
<1>10. dst' = Put(Put(Put(dst, data_dst, Deflated(data[i], size)), data_dst,
                      IF Accepted(ok, n, size) THEN Deflated(data[i], n) ELSE data[i]),
                  p, LocalHeader(lfh) \o names[i])
       /\ p' = p + LfhSize(lfh) + lfh.comp_size
  BY <1>3
<1> HIDE DEF lfh
<1>11. Described(lfh, names[i], data[i], mtimes[i])
  <2>1. lfh \in LocalFields  BY <1>5, <1>7, <1>8, <1>9 DEF LocalFields
  <2>2. QED  BY <1>5, <1>7, <1>8, <2>1 DEF Described
<1>12. Body(lfh, data[i]) = IF Accepted(ok, n, size) THEN Deflated(data[i], n) ELSE data[i]
  BY <1>7 DEF Body
<1>13. dst' = LocalPut(dst, p, lfh, names[i], data[i])
  BY <1>10, <1>12 DEF LocalPut
<1>14. PICK S : dst \in Seq(S)  BY <1>1 DEF MemoryInv
<1>15. PICK at, lh : Locals(dst, at, lh, names, data, mtimes, i - 1) /\ at[i] = p
  <2>1. LocalsTo(dst, names, data, mtimes, i - 1, p)  BY <1>1 DEF LocalInv
  <2>2. (i - 1) + 1 = i  BY <1>2
  <2>3. QED  BY <2>1, <2>2 DEF LocalsTo
<1>16. /\ lfh.comp_size \in Nat /\ lfh.comp_size <= size
       /\ p' = p + LFH_BASE_SZ + Len(names[i]) + lfh.comp_size
  <2>1. lfh.comp_size \in Nat /\ lfh.comp_size <= size /\ lfh.name_len = Len(names[i]) /\ lfh.extra_len = 0
    BY <1>11 DEF Described, LocalFields
  <2>2. PICK a \in Nat, b \in Nat, c \in Nat : a = p /\ b = Len(names[i]) /\ c = lfh.comp_size
    BY <1>1, <1>5, <2>1 DEF MemoryInv
  <2>3. p' = a + (LFH_BASE_SZ + b + 0) + c  BY <1>10, <2>1, <2>2 DEF LfhSize
  <2>4. p' = a + LFH_BASE_SZ + b + c  BY <2>3, Sizes
  <2>5. QED  BY <2>1, <2>2, <2>4
<1>17. /\ LocalsEnd(i - 1) \in Nat /\ LocalsEnd(i) \in Nat
       /\ LocalsEnd(i) = LocalsEnd(i - 1) + LFH_BASE_SZ + Len(names[i]) + size
       /\ LocalsEnd(i) <= zip_max_size
  <2>1. i - 1 \in 0 .. num_memb /\ i \in 0 .. num_memb /\ num_memb \in 0 .. num_memb /\ i # 0
    BY <1>2
  <2>2. LocalsEnd(i - 1) \in Nat  BY <1>2, <2>1, Rooms
  <2>3. LocalsEnd(i) \in Nat /\ LocalsEnd(i) = LocalsEnd(i - 1) + LFH_BASE_SZ + Len(names[i]) + size
    BY <1>2, <2>1, Rooms
  <2>4. LocalsEnd(num_memb) \in Nat /\ CentralSize(num_memb) \in Nat  BY <1>2, <2>1, Rooms
  <2>5. LocalsEnd(i) <= LocalsEnd(num_memb)  BY <1>2, <2>1, RoomsGrow
  <2>6. zip_max_size = EOCDR_BASE_SZ + Len(comment) + LocalsEnd(num_memb) + CentralSize(num_memb)
        /\ Len(comment) \in Nat
    BY <1>2, MaxSize, Args
  <2>7. QED  BY <2>2, <2>3, <2>4, <2>5, <2>6, Sizes
<1>18. data_dst \in Nat /\ data_dst + size \in Nat /\ data_dst + size <= LocalsEnd(i)
  <2>1. PICK a \in Nat, b \in Nat, c \in Nat, d \in Nat :
          a = p /\ b = Len(names[i]) /\ c = size /\ d = LocalsEnd(i - 1)
    BY <1>1, <1>5, <1>17 DEF MemoryInv
  <2>2. a <= d
    <3>1. p \in Nat /\ high \in Nat /\ p <= high /\ high <= LocalsEnd(i - 1)
      BY <1>1 DEF MemoryInv, LocalInv
    <3>2. QED  BY <2>1, <3>1, <1>17
  <2>3. LocalsEnd(i) = d + LFH_BASE_SZ + b + c /\ data_dst = a + LFH_BASE_SZ + b  BY <1>17, <2>1
  <2> HIDE DEF data_dst, size
  <2>4. data_dst + size = a + LFH_BASE_SZ + b + c  BY <2>1, <2>3
  <2>5. data_dst \in Nat /\ data_dst + size \in Nat  BY <2>3, <2>4, Sizes
  <2>6. a + LFH_BASE_SZ + b + c <= d + LFH_BASE_SZ + b + c  BY <2>2, Sizes
  <2>7. QED  BY <2>3, <2>4, <2>5, <2>6
<1>19. p + LFH_BASE_SZ + Len(names[i]) + Len(data[i]) <= Len(dst)
  <2>1. data_dst + size <= zip_max_size
    <3>1. zip_max_size \in Nat
      <4>1. num_memb \in 0 .. num_memb  BY <1>2
      <4>2. PICK a \in Nat, b \in Nat, c \in Nat :
              a = LocalsEnd(num_memb) /\ b = CentralSize(num_memb) /\ c = Len(comment)
        BY <1>2, <4>1, Rooms, Args
      <4>3. zip_max_size = EOCDR_BASE_SZ + c + a + b  BY <1>2, <4>2, MaxSize
      <4>4. QED  BY <4>3, Sizes
    <3>2. PICK a \in Nat, b \in Nat, c \in Nat :
            a = data_dst + size /\ b = LocalsEnd(i) /\ c = zip_max_size
      BY <1>17, <1>18, <3>1
    <3>3. a <= b /\ b <= c  BY <1>17, <1>18, <3>2
    <3>4. QED  BY <3>2, <3>3
  <2>2. QED  BY <1>1, <2>1 DEF MemoryInv
<1> HIDE DEF data_dst, size
<1>20. /\ \E T : dst' \in Seq(T)
       /\ Len(dst') = Len(dst)
       /\ LocalsTo(dst', names, data, mtimes, i, p + LFH_BASE_SZ + Len(names[i]) + lfh.comp_size)
  <2>1. Len(LocalPut(dst, at[i], lfh, names[i], data[i])) = Len(dst)
    BY <1>2, <1>11, <1>14, <1>15, <1>19, LocalWritten
  <2>2. \E T : LocalPut(dst, at[i], lfh, names[i], data[i]) \in Seq(T)
    BY <1>2, <1>11, <1>14, <1>15, <1>19, LocalWritten
  <2>3. LocalsTo(LocalPut(dst, at[i], lfh, names[i], data[i]), names, data, mtimes, i,
                 at[i] + LFH_BASE_SZ + Len(names[i]) + lfh.comp_size)
    BY <1>2, <1>11, <1>14, <1>15, <1>19, LocalWritten
  <2>4. QED  BY <1>13, <1>15, <2>1, <2>2, <2>3
<1>21. /\ high' \in Nat /\ p' \in Nat /\ p' <= high' /\ high' <= LocalsEnd(i)
  <2>1. high \in Nat /\ high <= LocalsEnd(i)
    <3>1. high \in Nat /\ high <= LocalsEnd(i - 1)  BY <1>1 DEF MemoryInv, LocalInv
    <3>2. QED  BY <3>1, <1>5, <1>17, Sizes DEF size
  <2>2. high' = Max({high, data_dst + size})  BY <1>3
  <2>3. high' \in Nat /\ high' <= LocalsEnd(i) /\ data_dst + size <= high'
    BY <1>18, <2>1, <2>2, MaxOfTwo
  <2>4. p' \in Nat /\ p' <= data_dst + size
    <3>1. PICK a \in Nat, b \in Nat, c \in Nat, d \in Nat :
            a = p /\ b = Len(names[i]) /\ c = lfh.comp_size /\ d = size
      BY <1>1, <1>5, <1>16 DEF MemoryInv, size
    <3>2. p' = a + LFH_BASE_SZ + b + c /\ c <= d /\ data_dst + size = a + LFH_BASE_SZ + b + d
      BY <1>16, <3>1 DEF data_dst
    <3>3. QED  BY <3>2, Sizes
  <2>5. QED  BY <1>18, <2>3, <2>4
<1>22. /\ ArgsInv' /\ num_memb' = num_memb /\ LocalRoom' = LocalRoom /\ zip_max_size' = zip_max_size
       /\ names' = names /\ data' = data /\ mtimes' = mtimes
  BY <1>2, <1>4, SameArgs
<1>23. MemoryInv'  BY <1>1, <1>20, <1>21, <1>22 DEF MemoryInv
<1>24. (i + 1) - 1 = i /\ i + 1 \in 1 .. num_memb + 1  BY <1>2
<1>25. LocalInv'
  <2>1. high' <= SumFunctionOnSet(LocalRoom, 1 .. i)  BY <1>21 DEF LocalsEnd
  <2>2. LocalsTo(dst', names, data, mtimes, i, p')
    BY <1>16, <1>20
  <2>3. i' \in 1 .. num_memb' + 1 /\ i' - 1 = i  BY <1>4, <1>22, <1>24
  <2>4. high' <= SumFunctionOnSet(LocalRoom', 1 .. i' - 1)  BY <2>1, <2>3, <1>22
  <2>5. LocalsTo(dst', names', data', mtimes', i' - 1, p')
    BY <2>2, <2>3, <1>22
  <2>6. QED  BY <2>3, <2>4, <2>5 DEF LocalInv, LocalsEnd
<1>26. QED  BY <1>4, <1>23, <1>25 DEF WriteInv

LEMMA LocalEndsStep ==
  ASSUME WriteInv, created, created' = created, LocalEnds
  PROVE  WriteInv'
<1>1. w = "local" /\ i > num_memb /\ MemoryInv /\ LocalInv
  BY DEF WriteInv, LocalEnds
<1>2. ArgsInv /\ num_memb \in Nat /\ i = num_memb + 1 /\ i - 1 = num_memb
  BY <1>1, Args DEF MemoryInv, LocalInv
<1>3. /\ cd_offset' = p /\ lfh_offset' = 0 /\ i' = 1 /\ w' = "central"
      /\ UNCHANGED <<args, dst, p, high>>
  BY DEF LocalEnds
<1>4. /\ ArgsInv' /\ num_memb' = num_memb /\ LocalRoom' = LocalRoom /\ zip_max_size' = zip_max_size
      /\ CentralRoom' = CentralRoom /\ names' = names /\ data' = data /\ mtimes' = mtimes
  BY <1>2, <1>3, SameArgs
<1>5. MemoryInv'  BY <1>1, <1>3, <1>4 DEF MemoryInv
<1>6. /\ p \in Nat /\ high \in Nat /\ p <= high /\ high <= LocalsEnd(num_memb)
      /\ LocalsTo(dst, names, data, mtimes, num_memb, p)
  BY <1>1, <1>2 DEF MemoryInv, LocalInv
<1>7. PICK at, lh : Locals(dst, at, lh, names, data, mtimes, num_memb) /\ at[num_memb + 1] = p
  BY <1>6 DEF LocalsTo
<1>8. at[1] = 0  BY <1>7 DEF Locals
<1>9. Entries(dst, at, lh, names, CentralRoom, p, 0)  BY DEF Entries
<1>10. DirectoryTo(dst, names, data, mtimes, num_memb, p, CentralRoom, 0, 0)
  <2>1. at[0 + 1] = 0  BY <1>8
  <2>2. QED  BY <1>7, <1>9, <2>1 DEF DirectoryTo
<1>11. Directory(i - 1)'
  <2>1. i' - 1 = 0  BY <1>3
  <2>2. QED  BY <1>3, <1>4, <1>10, <2>1 DEF Directory
<1>12. CentralInv'
  <2>1. num_memb \in 0 .. num_memb /\ 0 \in 0 .. num_memb  BY <1>2
  <2>2. CentralSize(0) = 0 /\ LocalsEnd(num_memb) \in Nat  BY <1>2, <2>1, Rooms
  <2>3. /\ SumFunctionOnSet(CentralRoom', 1 .. i' - 1) = 0
        /\ SumFunctionOnSet(LocalRoom', 1 .. num_memb') = LocalsEnd(num_memb)
    <3>1. i' - 1 = 0  BY <1>3
    <3>2. QED  BY <1>4, <2>2, <3>1 DEF CentralSize, LocalsEnd
  <2>4. p <= LocalsEnd(num_memb) /\ high <= LocalsEnd(num_memb) + 0
    BY <1>6, <2>2
  <2>5. i' \in 1 .. num_memb' + 1  BY <1>2, <1>3, <1>4
  <2>6. p' = cd_offset' + 0  BY <1>3, <1>6
  <2>7. QED  BY <1>3, <1>6, <1>11, <2>2, <2>3, <2>4, <2>5, <2>6 DEF CentralInv, CentralSize, LocalsEnd
<1>13. QED  BY <1>3, <1>5, <1>12 DEF WriteInv

-----------------------------------------------------------------------------
(* The header of a member is read back, and its name.                      *)
LEMMA ReadsBack ==
  ASSUME NEW S, NEW mem \in Seq(S), NEW from, NEW to, NEW l, NEW R, NEW name \in Seq(R),
         NEW Q, NEW content \in Seq(Q), NEW time, LocalAt(mem, from, to, l, name, content, time)
  PROVE  /\ HeaderAt(mem, "LFH", LFH_BASE_SZ, from) = l
         /\ Holds(mem, from + LFH_BASE_SZ, name)
         /\ SubSeq(mem, from + LFH_BASE_SZ + 1, from + LFH_BASE_SZ + Len(name)) = name
<1> DEFINE h == LocalHeader(l)
<1>1. /\ Described(l, name, content, time) /\ from \in Nat /\ Holds(mem, from, h \o name)
      /\ Len(mem) \in Nat
  BY DEF LocalAt
<1>2. PICK T : h \in Seq(T)  BY <1>1, Parts
<1>3. Len(h) = LFH_BASE_SZ  BY <1>1, Parts
<1> HIDE DEF h
<1>4. Holds(mem, from, h) /\ Holds(mem, from + Len(h), name)
  BY <1>1, <1>2, HoldsBoth
<1>5. HeaderAt(mem, "LFH", LFH_BASE_SZ, from) = l
  BY <1>1, <1>4, HeaderHeld, Sizes DEF h, LocalHeader
<1>6. from + LFH_BASE_SZ \in Nat  BY <1>1, Sizes
<1>7. Holds(mem, from + LFH_BASE_SZ, name)  BY <1>3, <1>4
<1> DEFINE x == from + LFH_BASE_SZ
<1> HIDE DEF x
<1>8. SubSeq(mem, x + 1, x + Len(name)) = name  BY <1>6, <1>7, HoldsSubSeq DEF x
<1>9. QED  BY <1>5, <1>7, <1>8 DEF x

LEMMA DirectoryKept ==
  ASSUME ArgsInv, NEW S, NEW mem \in Seq(S), NEW U, NEW cells \in Seq(U), NEW off \in Nat,
         NEW end \in Nat, NEW n \in 0 .. num_memb, NEW at, NEW lh,
         Locals(mem, at, lh, names, data, mtimes, num_memb), at[num_memb + 1] = end,
         Entries(mem, at, lh, names, CentralRoom, end, n), end + CentralSize(n) <= off
  PROVE  /\ Locals(Put(mem, off, cells), at, lh, names, data, mtimes, num_memb)
         /\ Entries(Put(mem, off, cells), at, lh, names, CentralRoom, end, n)
<1>1. num_memb \in Nat /\ num_memb \in 0 .. num_memb  BY Args
<1>2. CentralSize(n) \in Nat  BY Rooms
<1>3. Locals(Put(mem, off, cells), at, lh, names, data, mtimes, num_memb)
  <2>1. at[num_memb + 1] <= off  BY <1>2
  <2>2. QED  BY <1>1, <2>1, LocalsKept
<1>4. ASSUME NEW x \in 1 .. n
      PROVE  Holds(Put(mem, off, cells), end + SumFunctionOnSet(CentralRoom, 1 .. x - 1),
                   EntryOf(lh[x], at[x], names[x]))
  <2> DEFINE e == EntryOf(lh[x], at[x], names[x])
             z == end + CentralSize(x - 1)
  <2>1. x \in 1 .. num_memb /\ x - 1 \in 0 .. num_memb /\ x \in 0 .. n  BY <1>1
  <2>2. names[x] \in Seq(Range(names[x])) /\ Len(names[x]) \in Nat  BY <2>1, Args
  <2>3. Len(e) = CFH_BASE_SZ + Len(names[x])  BY <2>2, EntryCells
  <2>4. PICK T : e \in Seq(T)  BY <2>2, EntryCells
  <2>5. CentralSize(x - 1) \in Nat  BY <2>1, Rooms
  <2>6. CentralSize(x) = CentralSize(x - 1) + CFH_BASE_SZ + Len(names[x])
    <3>1. x \in 0 .. num_memb /\ x # 0  BY <2>1
    <3>2. QED  BY <3>1, Rooms
  <2>7. CentralSize(x) <= CentralSize(n)  BY <2>1, RoomsGrow
  <2>8. z \in Nat /\ z + Len(e) <= off
    <3>1. PICK a \in Nat, b \in Nat, c \in Nat :
            a = CentralSize(x - 1) /\ b = Len(names[x]) /\ c = CentralSize(n)
      BY <1>2, <2>2, <2>5
    <3>2. a + CFH_BASE_SZ + b <= c /\ Len(e) = CFH_BASE_SZ + b /\ end + c <= off /\ z = end + a
      BY <2>3, <2>6, <2>7, <3>1
    <3> HIDE DEF e, z
    <3>3. QED  BY <3>2, Sizes
  <2>9. Holds(mem, z, e)  BY DEF Entries, CentralSize
  <2> HIDE DEF e, z
  <2>10. Holds(Put(mem, off, cells), z, e)  BY <2>4, <2>8, <2>9, PutKeeps
  <2>11. QED  BY <2>10 DEF e, z, CentralSize
<1>5. QED  BY <1>3, <1>4 DEF Entries

(* What WriteCentral reads and writes for member n.                        *)
LEMMA EntryWritten ==
  ASSUME ArgsInv, NEW S, NEW mem \in Seq(S), NEW n \in 1 .. num_memb, NEW end \in Nat, NEW next,
         DirectoryTo(mem, names, data, mtimes, num_memb, end, CentralRoom, n - 1, next),
         end + CentralSize(n) <= Len(mem)
  PROVE  \E l \in LocalFields :
           /\ HeaderAt(mem, "LFH", LFH_BASE_SZ, next) = l
           /\ next \in Nat /\ l.name_len = Len(names[n])
           /\ SubSeq(mem, next + LFH_BASE_SZ + 1, next + LFH_BASE_SZ + l.name_len) = names[n]
           /\ DirectoryTo(Put(mem, end + CentralSize(n - 1), EntryOf(l, next, names[n])),
                          names, data, mtimes, num_memb, end, CentralRoom, n,
                          next + LFH_BASE_SZ + l.name_len + l.comp_size)
<1> DEFINE off == end + CentralSize(n - 1)
<1>1. num_memb \in Nat /\ n - 1 \in 0 .. num_memb /\ (n - 1) + 1 = n /\ n \in 0 .. num_memb /\ n # 0
  BY Args
<1>2. PICK at, lh : /\ Locals(mem, at, lh, names, data, mtimes, num_memb)
                    /\ at[num_memb + 1] = end /\ at[n] = next
                    /\ Entries(mem, at, lh, names, CentralRoom, end, n - 1)
  BY <1>1 DEF DirectoryTo
<1> DEFINE l == lh[n]
           cells == EntryOf(l, next, names[n])
<1>3. LocalAt(mem, next, at[n + 1], l, names[n], data[n], mtimes[n])  BY <1>2 DEF Locals
<1>4. /\ names[n] \in Seq(Range(names[n])) /\ Len(names[n]) \in Nat
      /\ data[n] \in Seq(Range(data[n]))
  BY Args
<1>5. /\ HeaderAt(mem, "LFH", LFH_BASE_SZ, next) = l
      /\ SubSeq(mem, next + LFH_BASE_SZ + 1, next + LFH_BASE_SZ + Len(names[n])) = names[n]
  BY <1>3, <1>4, ReadsBack
<1>6. /\ l \in LocalFields /\ l.name_len = Len(names[n]) /\ next \in Nat
      /\ at[n + 1] = next + LFH_BASE_SZ + Len(names[n]) + l.comp_size
  BY <1>3 DEF LocalAt, Described
<1>7. CentralSize(n - 1) \in Nat
      /\ CentralSize(n) = CentralSize(n - 1) + CFH_BASE_SZ + Len(names[n])
  BY <1>1, Rooms
<1>8. (\E T : cells \in Seq(T)) /\ Len(cells) = CFH_BASE_SZ + Len(names[n])
  BY <1>4, EntryCells
<1>9. off \in Nat /\ off + Len(cells) <= Len(mem)
  <2>1. PICK a \in Nat, b \in Nat : a = CentralSize(n - 1) /\ b = Len(names[n])
    BY <1>4, <1>7
  <2>2. Len(cells) = CFH_BASE_SZ + b /\ off = end + a /\ end + (a + CFH_BASE_SZ + b) <= Len(mem)
    BY <1>7, <1>8, <2>1
  <2>3. Len(mem) \in Nat  OBVIOUS
  <2> HIDE DEF cells, off
  <2>4. QED  BY <2>2, <2>3, Sizes
<1> HIDE DEF cells, off
<1>10. PICK T : cells \in Seq(T)  BY <1>8
<1>11. /\ Locals(Put(mem, off, cells), at, lh, names, data, mtimes, num_memb)
       /\ Entries(Put(mem, off, cells), at, lh, names, CentralRoom, end, n - 1)
  <2> DEFINE q == n - 1
  <2>1. q \in 0 .. num_memb /\ Entries(mem, at, lh, names, CentralRoom, end, q)
    BY <1>1, <1>2
  <2>2. end + CentralSize(q) <= off  BY <1>7 DEF off
  <2> HIDE DEF q
  <2>3. /\ Locals(Put(mem, off, cells), at, lh, names, data, mtimes, num_memb)
        /\ Entries(Put(mem, off, cells), at, lh, names, CentralRoom, end, q)
    BY <1>2, <1>9, <1>10, <2>1, <2>2, DirectoryKept
  <2>4. QED  BY <2>3 DEF q
<1>12. Holds(Put(mem, off, cells), off, cells)  BY <1>9, <1>10, PutHolds
<1>13. Entries(Put(mem, off, cells), at, lh, names, CentralRoom, end, n)
  <2>1. ASSUME NEW x \in 1 .. n
        PROVE  Holds(Put(mem, off, cells), end + SumFunctionOnSet(CentralRoom, 1 .. x - 1),
                     EntryOf(lh[x], at[x], names[x]))
    <3>1. CASE x = n
      BY <3>1, <1>2, <1>12 DEF off, cells, CentralSize
    <3>2. CASE x \in 1 .. n - 1  BY <3>2, <1>11 DEF Entries
    <3>3. QED  BY <3>1, <3>2, <1>1
  <2>2. QED  BY <2>1 DEF Entries
<1>14. DirectoryTo(Put(mem, off, cells), names, data, mtimes, num_memb, end, CentralRoom, n,
                   next + LFH_BASE_SZ + l.name_len + l.comp_size)
  <2>1. at[n + 1] = next + LFH_BASE_SZ + l.name_len + l.comp_size  BY <1>6
  <2>2. QED  BY <1>2, <1>11, <1>13, <2>1 DEF DirectoryTo
<1>15. QED  BY <1>5, <1>6, <1>14 DEF off, cells

(* The buffer is large enough for the whole directory.                     *)
LEMMA MaxSizeNat ==
  ASSUME ArgsInv
  PROVE  zip_max_size \in Nat /\ LocalsEnd(num_memb) <= zip_max_size
<1>1. num_memb \in 0 .. num_memb /\ Len(comment) \in Nat  BY Args
<1>2. PICK a \in Nat, b \in Nat, c \in Nat :
        a = Len(comment) /\ b = LocalsEnd(num_memb) /\ c = CentralSize(num_memb)
  BY <1>1, Rooms
<1>3. zip_max_size = EOCDR_BASE_SZ + a + b + c  BY <1>2, MaxSize
<1>4. QED  BY <1>2, <1>3, Sizes

LEMMA RoomForAll ==
  ASSUME MemoryInv
  PROVE  /\ num_memb \in Nat /\ Len(comment) \in Nat
         /\ LocalsEnd(num_memb) \in Nat /\ CentralSize(num_memb) \in Nat
         /\ Len(dst) = EOCDR_BASE_SZ + Len(comment) + LocalsEnd(num_memb) + CentralSize(num_memb)
         /\ zip_max_size \in Nat /\ Len(dst) = zip_max_size
<1>1. ArgsInv /\ Len(dst) = zip_max_size  BY DEF MemoryInv
<1>2. num_memb \in Nat /\ num_memb \in 0 .. num_memb /\ Len(comment) \in Nat  BY <1>1, Args
<1>3. LocalsEnd(num_memb) \in Nat /\ CentralSize(num_memb) \in Nat  BY <1>1, <1>2, Rooms
<1>4. zip_max_size = EOCDR_BASE_SZ + Len(comment) + LocalsEnd(num_memb) + CentralSize(num_memb)
  BY <1>1, MaxSize
<1>5. zip_max_size \in Nat  BY <1>1, MaxSizeNat
<1>6. QED  BY <1>1, <1>2, <1>3, <1>4, <1>5

LEMMA WriteCentralStep ==
  ASSUME WriteInv, created, created' = created, WriteCentral
  PROVE  WriteInv'
<1>1. w = "central" /\ i <= num_memb /\ MemoryInv /\ CentralInv
  BY DEF WriteInv, WriteCentral
<1>2. ArgsInv /\ num_memb \in Nat /\ i \in 1 .. num_memb
  BY <1>1, Args DEF MemoryInv, CentralInv
<1>3. PICK S : dst \in Seq(S)  BY <1>1 DEF MemoryInv
<1>4. PICK a \in Nat, b \in Nat, c \in Nat, d \in Nat :
        /\ a = CentralSize(i - 1) /\ b = Len(names[i])
        /\ c = LocalsEnd(num_memb) /\ d = CentralSize(num_memb)
  <2>1. i - 1 \in 0 .. num_memb  BY <1>2
  <2>2. CentralSize(i - 1) \in Nat  BY <1>2, <2>1, Rooms
  <2>3. QED  BY <1>1, <1>2, <2>2, Args, RoomForAll
<1>5. CentralSize(i) = a + CFH_BASE_SZ + b /\ CentralSize(i) \in Nat /\ CentralSize(i) <= d
  <2>1. i \in 0 .. num_memb /\ i # 0 /\ num_memb \in 0 .. num_memb  BY <1>2
  <2>2. CentralSize(i) = CentralSize(i - 1) + CFH_BASE_SZ + Len(names[i]) /\ CentralSize(i) \in Nat
    BY <1>2, <2>1, Rooms
  <2>3. CentralSize(i) <= CentralSize(num_memb)  BY <1>2, <2>1, RoomsGrow
  <2>4. QED  BY <1>4, <2>2, <2>3
<1>6. /\ p = cd_offset + a /\ cd_offset \in Nat /\ cd_offset <= c /\ high \in Nat /\ high <= c + a
      /\ DirectoryTo(dst, names, data, mtimes, num_memb, cd_offset, CentralRoom, i - 1, lfh_offset)
  BY <1>1, <1>4 DEF CentralInv, MemoryInv, Directory
<1>7. cd_offset + CentralSize(i) <= Len(dst)
  <2>1. PICK e \in Nat, f \in Nat : e = Len(comment) /\ f = CentralSize(i)  BY <1>1, <1>5, RoomForAll
  <2>2. Len(dst) = EOCDR_BASE_SZ + e + c + d  BY <1>1, <1>4, <2>1, RoomForAll
  <2>3. f <= d  BY <1>5, <2>1
  <2>4. QED  BY <1>6, <2>1, <2>2, <2>3, Sizes
<1>8. PICK l \in LocalFields :
        /\ HeaderAt(dst, "LFH", LFH_BASE_SZ, lfh_offset) = l
        /\ lfh_offset \in Nat /\ l.name_len = b
        /\ SubSeq(dst, lfh_offset + LFH_BASE_SZ + 1, lfh_offset + LFH_BASE_SZ + l.name_len) = names[i]
        /\ DirectoryTo(Put(dst, p, EntryOf(l, lfh_offset, names[i])),
                       names, data, mtimes, num_memb, cd_offset, CentralRoom, i,
                       lfh_offset + LFH_BASE_SZ + l.name_len + l.comp_size)
  BY <1>2, <1>3, <1>4, <1>6, <1>7, EntryWritten
<1>9. l # NONE  BY WriteAssumption DEF WriteAssumption
<1>10. /\ dst' = Put(dst, p, EntryOf(l, lfh_offset, names[i]))
       /\ p' = p + CfhSize(CentralOf(l, lfh_offset))
       /\ high' = Max({high, p'})
       /\ lfh_offset' = lfh_offset + LFH_BASE_SZ + l.name_len + l.comp_size /\ i' = i + 1
       /\ w' = w
  <2> DEFINE name == SubSeq(dst, lfh_offset + LFH_BASE_SZ + 1, lfh_offset + LFH_BASE_SZ + l.name_len)
  <2>1. /\ dst' = Put(dst, p, CentralHeader(CentralOf(l, lfh_offset)) \o name)
        /\ p' = p + CfhSize(CentralOf(l, lfh_offset))
        /\ high' = Max({high, p'}) /\ lfh_offset' = NextLfh(l) /\ i' = i + 1 /\ w' = w
    BY <1>8, <1>9 DEF WriteCentral, CentralOf
  <2>2. name = names[i]  BY <1>8
  <2> HIDE DEF name
  <2>3. QED  BY <2>1, <2>2 DEF EntryOf, NextLfh
<1>11. UNCHANGED <<args, cd_offset>>  BY DEF WriteCentral
<1>12. p' = cd_offset + CentralSize(i) /\ p' \in Nat
  <2>1. CfhSize(CentralOf(l, lfh_offset)) = CFH_BASE_SZ + b + 0 + 0  BY <1>8 DEF CfhSize, CentralOf
  <2>2. QED  BY <1>5, <1>6, <1>10, <2>1, Sizes
<1>13. high' \in Nat /\ p' <= high' /\ high' <= c + CentralSize(i)
  <2>1. PICK f \in Nat : f = CentralSize(i)  BY <1>5
  <2>2. high <= c + f  BY <1>5, <1>6, <2>1, Sizes
  <2>3. p' <= c + f  BY <1>6, <1>12, <2>1
  <2>4. high' \in Nat /\ p' <= high' /\ (high' = high \/ high' = p')
    BY <1>6, <1>10, <1>12, MaxOfTwo
  <2>5. QED  BY <2>1, <2>2, <2>3, <2>4
<1>14. (\E T : dst' \in Seq(T)) /\ Len(dst') = Len(dst)
  BY <1>3, <1>10, PutLen
<1>15. /\ ArgsInv' /\ num_memb' = num_memb /\ LocalRoom' = LocalRoom /\ zip_max_size' = zip_max_size
       /\ CentralRoom' = CentralRoom /\ names' = names /\ data' = data /\ mtimes' = mtimes
  BY <1>2, <1>11, SameArgs
<1>16. MemoryInv'  BY <1>1, <1>12, <1>13, <1>14, <1>15 DEF MemoryInv
<1>17. i' - 1 = i /\ i' \in 1 .. num_memb' + 1  BY <1>2, <1>10, <1>15
<1>18. Directory(i - 1)'  BY <1>8, <1>10, <1>11, <1>15, <1>17 DEF Directory
<1>19. CentralInv'
  <2>1. /\ SumFunctionOnSet(CentralRoom', 1 .. i' - 1) = CentralSize(i)
        /\ SumFunctionOnSet(LocalRoom', 1 .. num_memb') = c
    BY <1>4, <1>15, <1>17 DEF CentralSize, LocalsEnd
  <2>2. cd_offset' \in 0 .. c /\ p' = cd_offset' + CentralSize(i)  BY <1>4, <1>6, <1>11, <1>12
  <2>3. QED  BY <1>13, <1>17, <1>18, <2>1, <2>2 DEF CentralInv, CentralSize, LocalsEnd
<1>20. QED  BY <1>1, <1>10, <1>16, <1>19 DEF WriteInv

(* The end record and the comment.                                         *)
LEMMA EndParts ==
  ASSUME ArgsInv, NEW fields
  PROVE  /\ \E T : EndRecord(fields, Len(comment)) \o comment \in Seq(T)
         /\ Len(EndRecord(fields, Len(comment)) \o comment) = EOCDR_BASE_SZ + Len(comment)
         /\ Len(comment) \in Nat
<1> DEFINE e == EndRecord(fields, Len(comment))
<1>1. PICK T : e \in Seq(T)  BY EndCells
<1>2. Len(e) = EOCDR_BASE_SZ  BY EndCells
<1> HIDE DEF e
<1>3. PICK R : comment \in Seq(R)  BY Args
<1>4. e \in Seq(T \cup R) /\ comment \in Seq(T \cup R)  BY <1>1, <1>3
<1>5. e \o comment \in Seq(T \cup R) /\ Len(e \o comment) = EOCDR_BASE_SZ + Len(comment)
  BY <1>2, <1>4
<1>6. QED  BY <1>5, Args DEF e

LEMMA WriteEndStep ==
  ASSUME WriteInv, created, created' = created, WriteEnd
  PROVE  WriteInv'
<1>1. w = "central" /\ i > num_memb /\ MemoryInv /\ CentralInv
  BY DEF WriteInv, WriteEnd
<1>2. ArgsInv /\ num_memb \in Nat /\ i - 1 = num_memb /\ num_memb \in 0 .. num_memb
  <2>1. ArgsInv  BY <1>1 DEF MemoryInv
  <2>2. num_memb \in Nat  BY <2>1, Args
  <2>3. i \in 1 .. num_memb + 1  BY <1>1 DEF CentralInv
  <2>4. QED  BY <1>1, <2>1, <2>2, <2>3
<1>3. PICK S : dst \in Seq(S)  BY <1>1 DEF MemoryInv
<1>4. PICK c \in Nat, d \in Nat, e \in Nat :
        c = LocalsEnd(num_memb) /\ d = CentralSize(num_memb) /\ e = Len(comment)
  BY <1>1, RoomForAll
<1>5. /\ p = cd_offset + d /\ cd_offset \in Nat /\ cd_offset <= c /\ high \in Nat /\ high <= c + d
      /\ DirectoryTo(dst, names, data, mtimes, num_memb, cd_offset, CentralRoom, num_memb, lfh_offset)
  BY <1>1, <1>2, <1>4 DEF CentralInv, MemoryInv, Directory
<1> DEFINE cells == EndRecord(EndOf(num_memb, d, cd_offset), e) \o comment
<1>6. /\ dst' = Put(dst, p, cells)
      /\ p' = p + EOCDR_BASE_SZ + e /\ high' = Max({high, p'}) /\ w' = "written"
      /\ UNCHANGED <<args, i, lfh_offset, cd_offset>>
  <2>1. p - cd_offset = d  BY <1>5
  <2>2. QED  BY <1>4, <2>1 DEF WriteEnd, EndOf
<1>7. (\E T : cells \in Seq(T)) /\ Len(cells) = EOCDR_BASE_SZ + e
  BY <1>2, <1>4, EndParts
<1> HIDE DEF cells
<1>8. Len(dst) = EOCDR_BASE_SZ + e + c + d /\ Len(dst) = zip_max_size
  BY <1>1, <1>4, RoomForAll
<1>9. p \in Nat /\ p + Len(cells) <= Len(dst)  BY <1>5, <1>7, <1>8, Sizes
<1>10. PICK T : cells \in Seq(T)  BY <1>7
<1>11. Holds(dst', p, cells)  BY <1>3, <1>6, <1>9, <1>10, PutHolds
<1>12. DirectoryTo(dst', names, data, mtimes, num_memb, cd_offset, CentralRoom, num_memb, lfh_offset)
  <2>1. PICK at, lh : /\ Locals(dst, at, lh, names, data, mtimes, num_memb)
                      /\ at[num_memb + 1] = cd_offset /\ at[num_memb + 1] = lfh_offset
                      /\ Entries(dst, at, lh, names, CentralRoom, cd_offset, num_memb)
    BY <1>5 DEF DirectoryTo
  <2>2. cd_offset + CentralSize(num_memb) <= p  BY <1>4, <1>5
  <2>3. /\ Locals(dst', at, lh, names, data, mtimes, num_memb)
        /\ Entries(dst', at, lh, names, CentralRoom, cd_offset, num_memb)
    BY <1>2, <1>3, <1>5, <1>6, <1>9, <1>10, <2>1, <2>2, DirectoryKept
  <2>4. QED  BY <2>1, <2>3 DEF DirectoryTo
<1>13. /\ ArgsInv' /\ num_memb' = num_memb /\ LocalRoom' = LocalRoom /\ zip_max_size' = zip_max_size
       /\ CentralRoom' = CentralRoom /\ names' = names /\ data' = data /\ mtimes' = mtimes
       /\ comment' = comment
  BY <1>2, <1>6, SameArgs
<1>14. /\ p' \in Nat /\ high' \in Nat /\ p' <= high' /\ high' <= zip_max_size
       /\ p' = cd_offset + d + EOCDR_BASE_SZ + e
  <2>1. p' \in Nat /\ p' <= EOCDR_BASE_SZ + e + c + d /\ p' = cd_offset + d + EOCDR_BASE_SZ + e
    BY <1>5, <1>6, Sizes
  <2>2. high <= EOCDR_BASE_SZ + e + c + d  BY <1>5, Sizes
  <2>3. high' \in Nat /\ p' <= high' /\ (high' = high \/ high' = p')
    BY <1>5, <1>6, <2>1, MaxOfTwo
  <2>4. QED  BY <1>8, <2>1, <2>2, <2>3
<1>15. (\E U : dst' \in Seq(U)) /\ Len(dst') = Len(dst)  BY <1>3, <1>6, PutLen
<1>16. MemoryInv'  BY <1>1, <1>13, <1>14, <1>15 DEF MemoryInv
<1>17. /\ SumFunctionOnSet(CentralRoom', 1 .. num_memb') = d
       /\ SumFunctionOnSet(LocalRoom', 1 .. num_memb') = c /\ cd_offset' = cd_offset
  BY <1>4, <1>6, <1>13 DEF CentralSize, LocalsEnd
<1>18. Directory(num_memb)'  BY <1>6, <1>12, <1>13 DEF Directory
<1>19. EndOffset' = p
  BY <1>5, <1>17 DEF EndOffset, CentralSize
<1>20. WrittenInv'
  <2>1. Holds(dst', EndOffset',
              EndRecord(EndOf(num_memb', SumFunctionOnSet(CentralRoom', 1 .. num_memb'), cd_offset'),
                        Len(comment')) \o comment')
    BY <1>4, <1>11, <1>13, <1>17, <1>19 DEF cells
  <2>2. p' = EndOffset' + EOCDR_BASE_SZ + Len(comment')
    BY <1>4, <1>6, <1>13, <1>19
  <2>3. cd_offset' \in 0 .. c  BY <1>5, <1>17
  <2>4. high' <= zip_max_size'  BY <1>13, <1>14
  <2>5. QED  BY <1>17, <1>18, <2>1, <2>2, <2>3, <2>4 DEF WrittenInv, CentralSize, LocalsEnd
<1>21. QED  BY <1>6, <1>16, <1>20 DEF WriteInv

-----------------------------------------------------------------------------
LEMMA InitWrite == Init => WriteInv
<1>1. ASSUME created = FALSE, w = "none", names = <<>>, comment = <<>>, p = 0, high = 0
      PROVE  WriteInv
  BY <1>1 DEF WriteInv
<1>2. ASSUME created = TRUE, WriteInit  PROVE WriteInv
  <2>1. PICK m \in 0 .. MaxMembers :
          names \in [1 .. m -> Names] /\ data \in [1 .. m -> Contents] /\ mtimes \in [1 .. m -> Times]
    BY <1>2 DEF WriteInit
  <2>2. m \in Nat  BY <2>1, WriteAssumption DEF WriteAssumption
  <2>3. /\ names \in Seq(Names) /\ data \in Seq(Contents) /\ mtimes \in Seq(Times)
        /\ num_memb = m /\ Len(data) = m /\ Len(mtimes) = m
    BY <2>1, <2>2 DEF num_memb
  <2>4. ArgsInv  BY <1>2, <2>3 DEF ArgsInv, WriteInit
  <2>5. /\ dst = [x \in 1 .. zip_max_size |-> UNINIT]
        /\ w = "local" /\ p = 0 /\ i = 1 /\ high = 0
    BY <1>2 DEF WriteInit
  <2>6. dst \in Seq({UNINIT}) /\ Len(dst) = zip_max_size
    <3> DEFINE n == zip_max_size
    <3>1. n \in Nat /\ dst = [x \in 1 .. n |-> UNINIT]  BY <2>4, <2>5, MaxSizeNat
    <3> HIDE DEF n
    <3>2. dst \in Seq({UNINIT}) /\ Len(dst) = n  BY <3>1
    <3>3. QED  BY <3>2 DEF n
  <2>7. MemoryInv
    <3>1. \E S : dst \in Seq(S)  BY <2>6
    <3>2. p \in Nat /\ high \in Nat /\ p <= high  BY <2>5
    <3>3. QED  BY <2>4, <2>6, <3>1, <3>2, Zenon DEF MemoryInv
  <2>8. LocalsTo(dst, names, data, mtimes, 0, 0)
    <3>1. PICK at : at = [x \in 1 .. 1 |-> 0]  OBVIOUS
    <3>2. Locals(dst, at, <<>>, names, data, mtimes, 0)
      <4>1. at \in [1 .. 0 + 1 -> Nat] /\ at[1] = 0 /\ \A x \in 1 .. 0 + 1 : at[x] <= at[0 + 1]
        BY <3>1
      <4>2. QED  BY <4>1 DEF Locals
    <3>3. at[0 + 1] = 0  BY <3>1
    <3>4. QED  BY <3>2, <3>3 DEF LocalsTo
  <2>9. LocalInv
    <3>1. LocalsEnd(0) = 0
      <4>1. 0 \in 0 .. num_memb  BY <2>2, <2>3
      <4>2. QED  BY <2>4, <4>1, Rooms
    <3>2. i - 1 = 0 /\ i \in 1 .. num_memb + 1  BY <2>2, <2>3, <2>5
    <3>3. QED  BY <2>5, <2>8, <3>1, <3>2 DEF LocalInv
  <2>10. QED  BY <1>2, <2>5, <2>7, <2>9 DEF WriteInv
<1>3. QED  BY <1>1, <1>2 DEF Init

(* What is written does not change any more.                               *)
LEMMA SameMemory ==
  ASSUME WriteInv, UNCHANGED <<args, dst, p, i, lfh_offset, cd_offset, high, created>>,
         w' = w \/ (w = "written" /\ w' = "saved")
  PROVE  WriteInv'
<1>1. /\ ArgsInv => ArgsInv'
      /\ num_memb' = num_memb /\ LocalRoom' = LocalRoom /\ CentralRoom' = CentralRoom
      /\ zip_max_size' = zip_max_size
      /\ names' = names /\ data' = data /\ mtimes' = mtimes /\ comment' = comment
  BY SameArgs
<1>2. /\ dst' = dst /\ p' = p /\ i' = i /\ lfh_offset' = lfh_offset /\ cd_offset' = cd_offset
      /\ high' = high /\ created' = created
  OBVIOUS
<1>3. MemoryInv => MemoryInv'  BY <1>1, <1>2 DEF MemoryInv
<1>4. LocalInv => LocalInv'  BY <1>1, <1>2 DEF LocalInv, LocalsEnd
<1>5. CentralInv => CentralInv'  BY <1>1, <1>2 DEF CentralInv, LocalsEnd, CentralSize, Directory
<1>6. WrittenInv => WrittenInv'
  BY <1>1, <1>2 DEF WrittenInv, LocalsEnd, CentralSize, Directory, EndOffset
<1>7. QED  BY <1>1, <1>2, <1>3, <1>4, <1>5, <1>6 DEF WriteInv

LEMMA NextWrite == WriteInv /\ [Next]_vars => WriteInv'
<1> SUFFICES ASSUME WriteInv, [Next]_vars  PROVE WriteInv'
  OBVIOUS
<1>1. CASE Write
  <2>1. w \in {"local", "central"} /\ created' = created
    BY <1>1 DEF Write, WriteNext, WriteLocal, LocalEnds, WriteCentral, WriteEnd
  <2>2. created  BY <2>1 DEF WriteInv
  <2>3. QED
    BY <1>1, <2>1, <2>2, WriteLocalStep, LocalEndsStep, WriteCentralStep, WriteEndStep
    DEF Write, WriteNext
<1>2. CASE SaveAndLoad  BY <1>2, SameMemory DEF SaveAndLoad
<1>3. CASE Read  BY <1>3, SameMemory DEF Read, writeVars, args
<1>4. CASE UNCHANGED vars  BY <1>4, SameMemory DEF vars, writeVars, args
<1>5. QED  BY <1>1, <1>2, <1>3, <1>4 DEF Next

LEMMA WriteInvFits == WriteInv => FitsMaxSize
<1> SUFFICES ASSUME WriteInv  PROVE FitsMaxSize
  OBVIOUS
<1>1. CASE ~ created
  <2>1. names = <<>> /\ comment = <<>> /\ p = 0 /\ high = 0  BY <1>1 DEF WriteInv
  <2>2. zip_max_size >= 0
    <3> DEFINE room == [x \in 1 .. num_memb |-> CFH_BASE_SZ + LFH_BASE_SZ
                                             + 2 * Len(names[x]) + Len(data[x])]
    <3>1. num_memb = 0 /\ Len(comment) = 0  BY <2>1 DEF num_memb
    <3>2. DOMAIN room = {}  BY <3>1
    <3>3. SumFunction(room) = 0
      <4> HIDE DEF room
      <4>1. QED  BY <3>2, SumEmpty DEF SumFunction
    <3>4. zip_max_size = 0 \/ zip_max_size = EOCDR_BASE_SZ + Len(comment) + SumFunction(room)
      BY DEF zip_max_size
    <3> HIDE DEF room
    <3>5. QED  BY <3>1, <3>3, <3>4, Sizes
  <2>3. QED  BY <2>1, <2>2 DEF FitsMaxSize
<1>2. CASE created
  <2>1. MemoryInv /\ p <= high /\ high \in Nat  BY <1>2 DEF WriteInv, MemoryInv
  <2>2. PICK a \in Nat, b \in Nat, c \in Nat :
          a = Len(comment) /\ b = LocalsEnd(num_memb) /\ c = CentralSize(num_memb)
    BY <2>1, RoomForAll
  <2>3. ArgsInv /\ num_memb \in Nat /\ num_memb \in 0 .. num_memb
    BY <2>1, RoomForAll DEF MemoryInv
  <2>4. zip_max_size = EOCDR_BASE_SZ + a + b + c  BY <2>2, <2>3, MaxSize
  <2>5. CASE w = "local"
    <3>1. i - 1 \in 0 .. num_memb /\ high <= LocalsEnd(i - 1)
      BY <1>2, <2>3, <2>5 DEF WriteInv, LocalInv
    <3>2. LocalsEnd(i - 1) \in Nat /\ LocalsEnd(i - 1) <= LocalsEnd(num_memb)
      BY <2>3, <3>1, Rooms, RoomsGrow
    <3>3. high <= b  BY <2>1, <2>2, <3>1, <3>2
    <3>4. QED  BY <2>1, <2>4, <3>3, Sizes DEF FitsMaxSize
  <2>6. CASE w = "central"
    <3>1. i - 1 \in 0 .. num_memb /\ high <= LocalsEnd(num_memb) + CentralSize(i - 1)
      BY <1>2, <2>3, <2>6 DEF WriteInv, CentralInv
    <3>2. CentralSize(i - 1) \in Nat /\ CentralSize(i - 1) <= CentralSize(num_memb)
      BY <2>3, <3>1, Rooms, RoomsGrow
    <3>3. high <= b + c  BY <2>1, <2>2, <3>1, <3>2
    <3>4. QED  BY <2>1, <2>4, <3>3, Sizes DEF FitsMaxSize
  <2>7. CASE w \in {"written", "saved"}
    BY <1>2, <2>1, <2>7 DEF WriteInv, WrittenInv, FitsMaxSize
  <2>8. QED  BY <1>2, <2>5, <2>6, <2>7 DEF WriteInv
<1>3. QED  BY <1>1, <1>2 DEF WriteInv

(* Neither zip_write nor hwdeflate ever writes past what zip_max_size told *)
(* the caller to allocate (zip.h:54, zip.c:460), for any names, contents   *)
(* and comment.                                                            *)
THEOREM FitsTheBuffer == Spec => []FitsMaxSize
<1>1. Init => WriteInv  BY InitWrite
<1>2. WriteInv /\ [Next]_vars => WriteInv'  BY NextWrite
<1>3. WriteInv => FitsMaxSize  BY WriteInvFits
<1>4. QED  BY <1>1, <1>2, <1>3, PTL DEF Spec

-----------------------------------------------------------------------------
(* The file that is made of the buffer, and what reading it finds.         *)
File == SubSeq(dst, 1, p)

LEMMA FileLen ==
  ASSUME MemoryInv, WrittenInv
  PROVE  /\ p \in 0 .. Len(dst) /\ Len(File) = p /\ \E S : File \in Seq(S)
         /\ num_memb \in Nat /\ Len(comment) \in Nat /\ cd_offset \in Nat
         /\ EndOffset \in Nat /\ p = EndOffset + EOCDR_BASE_SZ + Len(comment)
         /\ cd_offset <= EndOffset /\ EndOffset <= p
<1>1. PICK S : dst \in Seq(S)  BY DEF MemoryInv
<1>2. p \in Nat /\ p <= Len(dst)
  <2>1. p \in Nat /\ high \in Nat /\ p <= high /\ high <= zip_max_size /\ Len(dst) = zip_max_size
    BY DEF MemoryInv, WrittenInv
  <2>2. zip_max_size \in Nat  BY RoomForAll
  <2>3. QED  BY <2>1, <2>2
<1>3. File \in Seq(S) /\ Len(File) = p  BY <1>1, <1>2 DEF File
<1>4. PICK c \in Nat, d \in Nat, e \in Nat :
        c = LocalsEnd(num_memb) /\ d = CentralSize(num_memb) /\ e = Len(comment)
  BY RoomForAll
<1>5. cd_offset \in Nat  BY <1>4 DEF WrittenInv
<1>6. EndOffset = cd_offset + d  BY <1>4 DEF EndOffset
<1>7. p = EndOffset + EOCDR_BASE_SZ + e  BY <1>4 DEF WrittenInv
<1>8. num_memb \in Nat  BY RoomForAll
<1>9. EndOffset \in Nat /\ cd_offset <= EndOffset  BY <1>4, <1>5, <1>6
<1>10. EndOffset <= p  BY <1>4, <1>7, <1>9, Sizes
<1>11. QED  BY <1>2, <1>3, <1>4, <1>5, <1>7, <1>8, <1>9, <1>10

Ending == EndOf(num_memb, CentralSize(num_memb), cd_offset)

LEMMA EndIsRead ==
  ASSUME MemoryInv, WrittenInv
  PROVE  /\ EndRecordAt(File, EndOffset) = [fields |-> Ending, comment_len |-> Len(comment)]
         /\ Holds(File, EndOffset, EndRecord(Ending, Len(comment)))
         /\ Holds(File, EndOffset + EOCDR_BASE_SZ, comment)
         /\ Ending \in EndFields
<1> DEFINE e == EndRecord(Ending, Len(comment))
<1>1. PICK S : dst \in Seq(S)  BY DEF MemoryInv
<1>2. /\ p \in 0 .. Len(dst) /\ Len(File) = p /\ EndOffset \in Nat /\ Len(comment) \in Nat
      /\ p = EndOffset + EOCDR_BASE_SZ + Len(comment)
  BY FileLen
<1>3. ArgsInv  BY DEF MemoryInv
<1>4. (\E T : e \o comment \in Seq(T)) /\ Len(e \o comment) = EOCDR_BASE_SZ + Len(comment)
  BY <1>3, EndParts
<1>5. Holds(dst, EndOffset, e \o comment)  BY DEF WrittenInv, Ending
<1>6. (\E T : e \in Seq(T)) /\ Len(e) = EOCDR_BASE_SZ  BY EndCells
<1> HIDE DEF e
<1>7. PICK U : e \in Seq(U)  BY <1>6
<1>8. PICK R : comment \in Seq(R)  BY <1>3, Args
<1>9. EndOffset + Len(e \o comment) <= p  BY <1>2, <1>4, Sizes
<1>10. Holds(File, EndOffset, e \o comment)
  <2> DEFINE cells == e \o comment
  <2>1. PICK T : cells \in Seq(T)  BY <1>4
  <2>2. Holds(dst, EndOffset, cells) /\ EndOffset + Len(cells) <= p  BY <1>5, <1>9
  <2> HIDE DEF cells
  <2>3. Holds(SubSeq(dst, 1, p), EndOffset, cells)  BY <1>1, <1>2, <2>1, <2>2, FileHolds
  <2>4. QED  BY <2>3 DEF cells, File
<1>11. Holds(File, EndOffset, e) /\ Holds(File, EndOffset + Len(e), comment)
  <2>1. Len(File) \in Nat  BY <1>1, <1>2
  <2>2. QED  BY <1>2, <1>7, <1>8, <1>10, <2>1, HoldsBoth
<1>12. EndRecordAt(File, EndOffset) = [fields |-> Ending, comment_len |-> Len(comment)]
  BY <1>2, <1>11, EndHeld DEF e
<1>13. Ending \in EndFields
  <2>1. num_memb \in Nat /\ CentralSize(num_memb) \in Nat /\ cd_offset \in Nat
    BY RoomForAll, FileLen
  <2>2. QED  BY <2>1 DEF Ending, EndOf, EndFields
<1>14. QED  BY <1>6, <1>11, <1>12, <1>13 DEF e

(* Nothing behind the end record is taken for one.                         *)
LEMMA NoOtherEnd ==
  ASSUME MemoryInv, WrittenInv, ~ Lookalike(comment), NEW d \in 1 .. Len(comment),
         EndRecordAt(File, EndOffset + d) # NONE
  PROVE  EndRecordAt(File, EndOffset + d).comment_len # Len(comment) - d
<1> DEFINE h == EndRecordAt(File, EndOffset + d)
           e == EndRecord(Ending, Len(comment))
<1> SUFFICES ASSUME h.comment_len = Len(comment) - d  PROVE FALSE
  OBVIOUS
<1>1. /\ Len(File) = p /\ EndOffset \in Nat /\ Len(comment) \in Nat
      /\ p = EndOffset + EOCDR_BASE_SZ + Len(comment)
  BY FileLen
<1>2. \A y \in 1 .. EOCDR_BASE_SZ : File[EndOffset + y] = e[y]
  BY EndIsRead, EndCells DEF Holds
<1>3. \A y \in 2 .. EOCDR_BASE_SZ : e[y][1] # "EOCDR"  BY EndCells
<1> HIDE DEF e
<1>4. \A y \in 1 .. Len(comment) : File[(EndOffset + EOCDR_BASE_SZ) + y] = comment[y]
  BY EndIsRead DEF Holds
<1>5. /\ File[EndOffset + d + 1][1] = "EOCDR"
      /\ File[EndOffset + d + EOCDR_BASE_SZ][1] = "byte"
      /\ h = [fields |-> File[EndOffset + d + 1][2],
              comment_len |-> File[EndOffset + d + EOCDR_BASE_SZ][2]]
  BY DEF EndRecordAt
<1>6. CASE d < EOCDR_BASE_SZ
  <2>1. d + 1 \in 2 .. EOCDR_BASE_SZ /\ d + 1 \in 1 .. EOCDR_BASE_SZ
        /\ EndOffset + (d + 1) = EndOffset + d + 1
    BY <1>1, <1>6, Sizes
  <2>2. QED  BY <2>1, <1>2, <1>3, <1>5
<1>7. CASE d >= EOCDR_BASE_SZ
  <2> DEFINE y == d - EOCDR_BASE_SZ
  <2>1. /\ y \in Nat /\ y + 1 \in 1 .. Len(comment) /\ y + EOCDR_BASE_SZ \in 1 .. Len(comment)
        /\ (EndOffset + EOCDR_BASE_SZ) + (y + 1) = EndOffset + d + 1
        /\ (EndOffset + EOCDR_BASE_SZ) + (y + EOCDR_BASE_SZ) = EndOffset + d + EOCDR_BASE_SZ
        /\ (y + 1) - 1 = y /\ Len(comment) - y - EOCDR_BASE_SZ = Len(comment) - d
        /\ y + EOCDR_BASE_SZ <= Len(comment)
    BY <1>1, <1>7, Sizes
  <2> HIDE DEF y
  <2>2. comment[y + 1] = File[EndOffset + d + 1]
        /\ comment[y + EOCDR_BASE_SZ] = File[EndOffset + d + EOCDR_BASE_SZ]
    <3>1. comment[y + 1] = File[(EndOffset + EOCDR_BASE_SZ) + (y + 1)]
          /\ comment[y + EOCDR_BASE_SZ] = File[(EndOffset + EOCDR_BASE_SZ) + (y + EOCDR_BASE_SZ)]
      BY <1>4, <2>1
    <3>2. QED  BY <2>1, <3>1
  <2>3. EndRecordAt(comment, y) = h
    BY <1>5, <2>1, <2>2 DEF EndRecordAt
  <2>4. LET g == EndRecordAt(comment, (y + 1) - 1)
        IN g # NONE /\ g.comment_len = Len(comment) - ((y + 1) - 1) - EOCDR_BASE_SZ
    BY <2>1, <2>3
  <2> HIDE DEF h
  <2>5. Lookalike(comment)  BY <2>1, <2>4 DEF Lookalike
  <2>6. QED  BY <2>5
<1>8. QED  BY <1>1, <1>6, <1>7, Sizes

-----------------------------------------------------------------------------
(* What reading finds of member x.                                         *)
EntryOffset(x) == cd_offset + CentralSize(x - 1)
Found(x, l, from) ==
  /\ Described(l, names[x], data[x], mtimes[x])
  /\ from \in Nat /\ from + LFH_BASE_SZ + Len(names[x]) + l.comp_size <= cd_offset
  /\ HeaderAt(File, "CFH", CFH_BASE_SZ, EntryOffset(x)) = CentralOf(l, from)
  /\ HeaderAt(File, "LFH", LFH_BASE_SZ, from) = l
  /\ CellsAt(EntryOffset(x) + CFH_BASE_SZ, Len(names[x])) = names[x]
  /\ CellsAt(from + LFH_BASE_SZ + Len(names[x]), l.comp_size) = Body(l, data[x])

LEMMA EntryPlace ==
  ASSUME MemoryInv, WrittenInv, NEW x \in 1 .. num_memb
  PROVE  /\ EntryOffset(x) \in Nat
         /\ cd_offset + CentralSize(x) = EntryOffset(x) + CFH_BASE_SZ + Len(names[x])
         /\ cd_offset + CentralSize(x) \in Nat
         /\ cd_offset + CentralSize(x) <= EndOffset
         /\ Len(names[x]) \in Nat
<1>1. ArgsInv /\ num_memb \in Nat /\ cd_offset \in Nat  BY FileLen DEF MemoryInv
<1>2. x - 1 \in 0 .. num_memb /\ x \in 0 .. num_memb /\ num_memb \in 0 .. num_memb /\ x # 0
  BY <1>1
<1>3. PICK a \in Nat, b \in Nat, c \in Nat, d \in Nat :
        /\ a = CentralSize(x - 1) /\ b = Len(names[x]) /\ c = CentralSize(x)
        /\ d = CentralSize(num_memb)
  BY <1>1, <1>2, Rooms, Args
<1>4. c = a + CFH_BASE_SZ + b  BY <1>1, <1>2, <1>3, Rooms
<1>5. c <= d
  <2>1. CentralSize(x) <= CentralSize(num_memb)  BY <1>1, <1>2, RoomsGrow
  <2>2. QED  BY <1>3, <2>1
<1>6. EntryOffset(x) = cd_offset + a /\ EndOffset = cd_offset + d /\ cd_offset + CentralSize(x) = cd_offset + c
  BY <1>3 DEF EntryOffset, EndOffset
<1>7. EntryOffset(x) \in Nat /\ cd_offset + CentralSize(x) \in Nat  BY <1>1, <1>3, <1>6
<1>8. cd_offset + c = (cd_offset + a) + CFH_BASE_SZ + b
  <2>1. \A t, u \in Nat : t + (a + u + b) = (t + a) + u + b  OBVIOUS
  <2>2. CFH_BASE_SZ \in Nat  BY Sizes
  <2>3. QED  BY <1>1, <1>4, <2>1, <2>2
<1>9. cd_offset + c <= cd_offset + d  BY <1>1, <1>3, <1>5
<1>10. QED  BY <1>3, <1>6, <1>7, <1>8, <1>9

LEMMA MemberFound ==
  ASSUME MemoryInv, WrittenInv, NEW x \in 1 .. num_memb
  PROVE  \E l, from : Found(x, l, from)
<1>1. PICK S : dst \in Seq(S)  BY DEF MemoryInv
<1>2. ArgsInv /\ num_memb \in Nat /\ cd_offset \in Nat /\ p \in 0 .. Len(dst)
      /\ cd_offset <= EndOffset /\ EndOffset <= p /\ EndOffset \in Nat
  BY FileLen DEF MemoryInv
<1>3. PICK at, lh : /\ Locals(dst, at, lh, names, data, mtimes, num_memb)
                    /\ at[num_memb + 1] = cd_offset
                    /\ Entries(dst, at, lh, names, CentralRoom, cd_offset, num_memb)
  BY DEF WrittenInv, Directory, DirectoryTo
<1> DEFINE l == lh[x]
           from == at[x]
           name == names[x]
           content == data[x]
           entry == EntryOf(l, from, name)
           e == EntryOffset(x)
<1>4. LocalAt(dst, from, at[x + 1], l, name, content, mtimes[x])  BY <1>3 DEF Locals
<1>5. at[x + 1] <= cd_offset
  <2>1. x + 1 \in 1 .. num_memb + 1  BY <1>2
  <2>2. QED  BY <1>3, <2>1 DEF Locals
<1>6. /\ name \in Seq(Range(name)) /\ Len(name) \in Nat /\ content \in Seq(Range(content))
  BY <1>2, Args
<1>7. Holds(dst, e, entry)
  BY <1>3 DEF Entries, EntryOffset, CentralSize
<1>8. e \in Nat /\ e + CFH_BASE_SZ + Len(name) <= EndOffset
  <2>1. cd_offset + CentralSize(x) = EntryOffset(x) + CFH_BASE_SZ + Len(names[x])
        /\ cd_offset + CentralSize(x) <= EndOffset /\ EntryOffset(x) \in Nat
    BY EntryPlace
  <2>2. QED  BY <2>1
<1>9. /\ Described(l, name, content, mtimes[x]) /\ from \in Nat
      /\ at[x + 1] = from + LFH_BASE_SZ + Len(name) + l.comp_size
      /\ Holds(dst, from, LocalHeader(l) \o name)
      /\ Holds(dst, from + LFH_BASE_SZ + Len(name), Body(l, content))
  BY <1>4 DEF LocalAt
<1> HIDE DEF l, from, name, content, entry, e
<1>10. PICK R, Q : name \in Seq(R) /\ content \in Seq(Q)  BY <1>6
<1>11. PICK T : entry \in Seq(T)  BY <1>10, EntryCells DEF entry
<1>12. Len(entry) = CFH_BASE_SZ + Len(name)  BY <1>10, EntryCells DEF entry
<1>13. Holds(File, e, entry)
  <2>1. e + Len(entry) <= p  BY <1>2, <1>6, <1>8, <1>12, Sizes
  <2>2. QED  BY <1>1, <1>2, <1>7, <1>8, <1>11, <2>1, FileHolds DEF File
<1> DEFINE h == CentralHeader(CentralOf(l, from))
<1>14. (\E U : h \in Seq(U)) /\ Len(h) = CFH_BASE_SZ
  BY HeaderCells, Sizes DEF CentralHeader
<1>15. entry = h \o name  BY DEF entry, EntryOf
<1>16. Len(File) \in Nat /\ Len(dst) \in Nat  BY <1>1, <1>2, FileLen
<1> HIDE DEF h
<1>17. PICK U : h \in Seq(U)  BY <1>14
<1>18. Holds(File, e, h)  BY <1>8, <1>10, <1>13, <1>15, <1>16, <1>17, HoldsBoth
<1>19. Holds(dst, e + CFH_BASE_SZ, name)
  BY <1>7, <1>8, <1>10, <1>14, <1>15, <1>16, <1>17, HoldsBoth
<1>20. HeaderAt(File, "CFH", CFH_BASE_SZ, e) = CentralOf(l, from)
  BY <1>8, <1>16, <1>18, HeaderHeld, Sizes DEF h, CentralHeader
<1>21. CellsAt(e + CFH_BASE_SZ, Len(name)) = name
  <2> DEFINE z == e + CFH_BASE_SZ
  <2>1. z \in Nat /\ Holds(dst, z, name)  BY <1>8, <1>19, Sizes
  <2> HIDE DEF z
  <2>2. SubSeq(dst, z + 1, z + Len(name)) = name  BY <1>1, <1>10, <2>1, HoldsSubSeq
  <2>3. QED  BY <2>2 DEF CellsAt, z
<1>22. HeaderAt(File, "LFH", LFH_BASE_SZ, from) = l
  <2> DEFINE g == LocalHeader(l)
             both == g \o name
  <2>1. Len(g) = LFH_BASE_SZ  BY <1>9, <1>10, Parts
  <2>2. PICK V : g \in Seq(V)  BY <1>9, <1>10, Parts
  <2>3. Len(both) = LFH_BASE_SZ + Len(name)  BY <1>9, <1>10, Parts
  <2>4. \E W : both \in Seq(W)
    <3>1. PICK W : LocalHeader(l) \o name \in Seq(W \cup R)  BY <1>9, <1>10, Parts
    <3>2. QED  BY <3>1
  <2>5. l.comp_size \in Nat  BY <1>9, <1>10, Parts
  <2>6. from + Len(both) <= p
    <3>1. PICK a \in Nat, b \in Nat : a = Len(name) /\ b = l.comp_size  BY <1>6, <2>5
    <3>2. from + LFH_BASE_SZ + a + b <= cd_offset  BY <1>5, <1>9, <3>1
    <3>3. Len(both) = LFH_BASE_SZ + a  BY <2>3, <3>1
    <3> HIDE DEF both
    <3>4. QED  BY <1>2, <1>9, <3>2, <3>3, Sizes
  <2>7. Holds(dst, from, both)  BY <1>9
  <2> HIDE DEF both
  <2>8. Holds(File, from, both)  BY <1>1, <1>2, <1>9, <2>4, <2>6, <2>7, FileHolds DEF File
  <2> HIDE DEF g
  <2>9. Holds(File, from, g)  BY <1>9, <1>10, <1>16, <2>2, <2>8, HoldsBoth DEF both
  <2>10. QED  BY <1>9, <1>16, <2>9, HeaderHeld, Sizes DEF g, LocalHeader
<1>23. CellsAt(from + LFH_BASE_SZ + Len(name), l.comp_size) = Body(l, content)
  <2> DEFINE z == from + LFH_BASE_SZ + Len(name)
             body == Body(l, content)
  <2>1. z \in Nat /\ Holds(dst, z, body)  BY <1>6, <1>9, Sizes
  <2>2. Len(body) = l.comp_size  BY <1>9, <1>10, Parts
  <2>3. PICK V : body \in Seq(V)  BY <1>9, <1>10, Parts
  <2> HIDE DEF z, body
  <2>4. SubSeq(dst, z + 1, z + Len(body)) = body  BY <1>1, <2>1, <2>3, HoldsSubSeq
  <2>5. QED  BY <2>2, <2>4 DEF CellsAt, z, body
<1>24. from + LFH_BASE_SZ + Len(name) + l.comp_size <= cd_offset  BY <1>5, <1>9
<1>25. Found(x, l, from)
  BY <1>9, <1>20, <1>21, <1>22, <1>23, <1>24 DEF Found, e, name, content
<1>26. QED  BY <1>25

-----------------------------------------------------------------------------
(* Reading what was written.                                               *)
FileSeen ==
  /\ src_len = p
  /\ eocdrs = [x \in 0 .. p |-> {EndRecordAt(File, x)}]
  /\ cfhs = [x \in 0 .. p |-> {HeaderAt(File, "CFH", CFH_BASE_SZ, x)}]
  /\ lfhs = [x \in 0 .. p |-> {HeaderAt(File, "LFH", LFH_BASE_SZ, x)}]

(* What is found there is found again.                                     *)
LEMMA SeesOne ==
  ASSUME src_len \in Nat, NEW at, NEW view, view = [x \in 0 .. src_len |-> {at[x]}], NEW x \in 0 .. src_len
  PROVE  Seen(view, x) = {at[x]} /\ Remember(view, x, at[x]) = view
BY DEF Seen, Remember, Offsets

(* c and l are the headers of member x; both walks over the directory read *)
(* them, and the second makes the member of them.                          *)
Reads(x, c, l) ==
  /\ Seen(cfhs, EntryOffset(x)) = {c} /\ Remember(cfhs, EntryOffset(x), c) = cfhs
  /\ read_cfh(c, EntryOffset(x)) /\ Supported(c)
  /\ EntryOffset(x) + CfhSize(c) = cd_offset + CentralSize(x)
  /\ Seen(lfhs, c.lfh_offset) = {l} /\ Remember(lfhs, c.lfh_offset, l) = lfhs
  /\ read_lfh(l, c.lfh_offset)
  /\ ~ (c.comp_size > src_len - comp_data(c, l))
  /\ it = EntryOffset(x) => IsMember(Member(c, l), x)

LEMMA EntryReads ==
  ASSUME MemoryInv, WrittenInv, FileSeen, NEW x \in 1 .. num_memb
  PROVE  \E c, l : Reads(x, c, l)
<1>1. PICK l, from : Found(x, l, from)  BY MemberFound
<1> DEFINE c == CentralOf(l, from)
           e == EntryOffset(x)
           n == Len(names[x])
<1>2. /\ Described(l, names[x], data[x], mtimes[x])
      /\ from \in Nat /\ from + LFH_BASE_SZ + n + l.comp_size <= cd_offset
      /\ HeaderAt(File, "CFH", CFH_BASE_SZ, e) = c
      /\ HeaderAt(File, "LFH", LFH_BASE_SZ, from) = l
      /\ CellsAt(e + CFH_BASE_SZ, n) = names[x]
      /\ CellsAt(from + LFH_BASE_SZ + n, l.comp_size) = Body(l, data[x])
  BY <1>1 DEF Found
<1>3. /\ l \in LocalFields /\ l.name_len = n /\ l.extra_len = 0 /\ l.encrypted = FALSE
      /\ l.mod = ctime2dos(mtimes[x]) /\ l.crc32 = data[x] /\ l.uncomp_size = Len(data[x])
      /\ l.method = "STORED" => l.comp_size = l.uncomp_size
  BY <1>2 DEF Described
<1>4. /\ l.comp_size \in Nat /\ l.uncomp_size \in Nat /\ l.method \in {"STORED", "DEFLATED"}
      /\ l.mod \in DosTime /\ l.crc32 \in Contents /\ n \in Nat
  BY <1>3 DEF LocalFields
<1>5. /\ c.method = l.method /\ c.encrypted = FALSE /\ c.mod = l.mod /\ c.crc32 = l.crc32
      /\ c.comp_size = l.comp_size /\ c.uncomp_size = l.uncomp_size /\ c.name_len = n
      /\ c.extra_len = 0 /\ c.comment_len = 0 /\ c.disk_nbr_start = 0 /\ c.nul_in_name = FALSE
      /\ c.lfh_offset = from
  BY <1>3 DEF CentralOf
<1>6. c \in CentralFields  BY <1>2, <1>3, <1>4 DEF CentralOf, CentralFields
<1>7. l # NONE /\ c # NONE  BY <1>3, <1>6, WriteAssumption DEF WriteAssumption
<1> HIDE DEF c, e, n
<1>8. /\ e \in Nat /\ cd_offset + CentralSize(x) = e + CFH_BASE_SZ + n
      /\ cd_offset + CentralSize(x) <= EndOffset
  BY EntryPlace DEF e, n
<1>9. /\ p \in Nat /\ EndOffset \in Nat /\ cd_offset \in Nat
      /\ cd_offset <= EndOffset /\ EndOffset <= p /\ src_len = p
  BY FileLen DEF FileSeen
<1>10. e + CFH_BASE_SZ + n <= p  BY <1>4, <1>8, <1>9, Sizes
<1>11. from + LFH_BASE_SZ + n + l.comp_size <= p  BY <1>2, <1>4, <1>9, Sizes
<1>12. e \in 0 .. src_len /\ from \in 0 .. src_len
  BY <1>2, <1>4, <1>8, <1>9, <1>10, <1>11, Sizes
<1>13. Seen(cfhs, e) = {c} /\ Remember(cfhs, e, c) = cfhs
  <2>1. PICK at : at = [y \in 0 .. p |-> HeaderAt(File, "CFH", CFH_BASE_SZ, y)]  OBVIOUS
  <2>2. cfhs = [y \in 0 .. src_len |-> {at[y]}] /\ at[e] = c
    BY <1>2, <1>9, <1>12, <2>1 DEF FileSeen
  <2>3. src_len \in Nat /\ e \in 0 .. src_len  BY <1>9, <1>12
  <2>4. QED  BY <2>2, <2>3, SeesOne
<1>14. Seen(lfhs, from) = {l} /\ Remember(lfhs, from, l) = lfhs
  <2>1. PICK at : at = [y \in 0 .. p |-> HeaderAt(File, "LFH", LFH_BASE_SZ, y)]  OBVIOUS
  <2>2. lfhs = [y \in 0 .. src_len |-> {at[y]}] /\ at[from] = l
    BY <1>2, <1>9, <1>12, <2>1 DEF FileSeen
  <2>3. src_len \in Nat /\ from \in 0 .. src_len  BY <1>9, <1>12
  <2>4. QED  BY <2>2, <2>3, SeesOne
<1>15. read_cfh(c, e)
  <2>1. \A a, b, m, t \in Nat :
          a + b + m <= t => a <= t /\ t - a >= b /\ t - a - b >= m + 0 + 0
    OBVIOUS
  <2>2. /\ src_len \in Nat /\ e + CFH_BASE_SZ + n <= src_len
        /\ c.name_len = n /\ c.extra_len = 0 /\ c.comment_len = 0
    BY <1>5, <1>9, <1>10
  <2>3. e <= src_len /\ src_len - e >= CFH_BASE_SZ
        /\ src_len - e - CFH_BASE_SZ >= n + 0 + 0
    BY <1>4, <1>8, <2>1, <2>2, Sizes
  <2>4. QED  BY <1>7, <2>2, <2>3 DEF read_cfh
<1>16. read_lfh(l, from)
  <2>1. \A a, b, m, z, t \in Nat :
          a + b + m + z <= t => a <= t /\ t - a >= b /\ t - a - b >= m + 0
    OBVIOUS
  <2>2. /\ src_len \in Nat /\ from + LFH_BASE_SZ + n + l.comp_size <= src_len
        /\ l.name_len = n /\ l.extra_len = 0
    BY <1>3, <1>9, <1>11
  <2>3. from <= src_len /\ src_len - from >= LFH_BASE_SZ
        /\ src_len - from - LFH_BASE_SZ >= n + 0
    BY <1>2, <1>4, <2>1, <2>2, Sizes
  <2>4. QED  BY <1>7, <2>2, <2>3 DEF read_lfh
<1>17. comp_data(c, l) = from + LFH_BASE_SZ + n
  BY <1>2, <1>3, <1>4, <1>5, Sizes DEF comp_data, LfhSize
<1>18. ~ (c.comp_size > src_len - comp_data(c, l))
  BY <1>2, <1>4, <1>5, <1>9, <1>11, <1>17, Sizes
<1>19. e + CfhSize(c) = cd_offset + CentralSize(x)
  BY <1>4, <1>5, <1>8, Sizes DEF CfhSize
<1>20. Supported(c)  BY <1>3, <1>4, <1>5 DEF Supported
<1>21. ASSUME it = e  PROVE IsMember(Member(c, l), x)
  <2> DEFINE m == Member(c, l)
  <2>1. /\ m.name_at = e + CFH_BASE_SZ /\ m.name_len = n /\ m.data_at = from + LFH_BASE_SZ + n
        /\ m.comp_size = l.comp_size /\ m.uncomp_size = l.uncomp_size /\ m.method = l.method
        /\ m.mod = l.mod /\ m.crc32 = l.crc32
    BY <1>5, <1>17, <1>21 DEF Member
  <2> HIDE DEF m
  <2>2. ASSUME mtimes[x].tm_year <= 207
        PROVE  dos2ctime(m.mod) = [mtimes[x] EXCEPT !.tm_sec = @ - (@ % 2)]
    <3>1. mtimes[x] \in LocalTime  BY Args DEF MemoryInv
    <3>2. m.mod = ctime2dos(mtimes[x])  BY <1>3, <2>1
    <3>3. QED  BY <2>2, <3>1, <3>2, TimeReadBack
  <2>3. CellsAt(m.data_at, m.comp_size) =
          IF m.method = "STORED" THEN data[x] ELSE Deflated(data[x], m.comp_size)
    BY <1>2, <2>1 DEF Body
  <2>4. CellsAt(m.name_at, m.name_len) = names[x]  BY <1>2, <2>1
  <2>5. QED  BY <1>3, <2>1, <2>2, <2>3, <2>4 DEF IsMember, m
<1>22. Reads(x, c, l)
  BY <1>5, <1>13, <1>14, <1>15, <1>16, <1>18, <1>19, <1>20, <1>21 DEF Reads, e
<1>23. QED  BY <1>22

-----------------------------------------------------------------------------
(* Reading is on its way through the members that were written.            *)
Opened == comment_len = Len(comment) /\ eocdr = Ending
SavedInv ==
  /\ FileSeen
  /\ r \in {"find", "found", "check", "iterate", "iterated"}
  /\ r = "find" => comment_len \in 0 .. Len(comment)
  /\ r # "find" => Opened
  /\ r \in {"find", "found", "check"} => members = <<>>
  /\ r = "check" =>
       k \in 0 .. num_memb /\ offset = cd_offset + CentralSize(k) /\ members_begin = cd_offset
  /\ r \in {"iterate", "iterated"} =>
       /\ \E S : members \in Seq(S)
       /\ Len(members) \in 0 .. num_memb
       /\ members_end = cd_offset + CentralSize(num_memb)
       /\ it = cd_offset + CentralSize(Len(members))
       /\ \A x \in 1 .. Len(members) : IsMember(members[x], x)
  /\ r = "iterated" => Len(members) = num_memb

RoundTripInv ==
  created =>
    /\ w # "saved" => r = "find" /\ comment_len = 0 /\ members = <<>>
    /\ w = "saved" /\ ~ Lookalike(comment) => SavedInv

LEMMA SameFile ==
  ASSUME UNCHANGED writeVars
  PROVE  /\ w' = w /\ comment' = comment /\ cd_offset' = cd_offset /\ num_memb' = num_memb
         /\ p' = p /\ File' = File /\ Ending' = Ending /\ CentralRoom' = CentralRoom
         /\ UNCHANGED archive => (FileSeen' <=> FileSeen)
         /\ \A m, x : IsMember(m, x)' <=> IsMember(m, x)
<1>1. /\ UNCHANGED args /\ dst' = dst /\ w' = w /\ p' = p /\ cd_offset' = cd_offset
  BY DEF writeVars
<1>2. /\ num_memb' = num_memb /\ CentralRoom' = CentralRoom
      /\ names' = names /\ data' = data /\ mtimes' = mtimes /\ comment' = comment
  BY <1>1, SameArgs
<1>3. File' = File  BY <1>1 DEF File
<1>4. Ending' = Ending  BY <1>1, <1>2 DEF Ending, CentralSize
<1>5. UNCHANGED archive => (FileSeen' <=> FileSeen)  BY <1>1, <1>3 DEF FileSeen, archive
<1>6. ASSUME NEW m, NEW x  PROVE IsMember(m, x)' <=> IsMember(m, x)
  BY <1>1, <1>2 DEF IsMember, CellsAt
<1>7. QED  BY <1>1, <1>2, <1>3, <1>4, <1>5, <1>6

LEMMA FindSaved ==
  ASSUME MemoryInv, WrittenInv, ~ Lookalike(comment), SavedInv, UNCHANGED writeVars, FindEocdr
  PROVE  SavedInv'
<1>1. r = "find" /\ FileSeen /\ comment_len \in 0 .. Len(comment) /\ members = <<>>
  BY DEF FindEocdr, SavedInv
<1>2. /\ Len(comment) \in Nat /\ EndOffset \in Nat /\ src_len = p /\ p \in Nat
      /\ p = EndOffset + EOCDR_BASE_SZ + Len(comment)
  BY <1>1, FileLen DEF FileSeen
<1>3. Len(comment) <= UINT16_MAX  BY MaxSize DEF MemoryInv
<1> DEFINE d == Len(comment) - comment_len
           h == EndRecordAt(File, EndOffset + d)
<1>4. /\ d \in Nat /\ d <= Len(comment) /\ comment_len = Len(comment) - d
      /\ src_len - EOCDR_BASE_SZ - comment_len = EndOffset + d
      /\ EndOffset + d \in 0 .. src_len /\ comment_len \in Nat
      /\ ~ (comment_len > UINT16_MAX \/ src_len < EOCDR_BASE_SZ + comment_len)
  BY <1>1, <1>2, <1>3, Sizes
<1>5. Seen(eocdrs, EndOffset + d) = {h} /\ Remember(eocdrs, EndOffset + d, h) = eocdrs
  <2> DEFINE z == EndOffset + d
  <2>1. z \in 0 .. src_len /\ src_len \in Nat /\ src_len = p  BY <1>2, <1>4
  <2> HIDE DEF z
  <2>2. PICK at : at = [y \in 0 .. p |-> EndRecordAt(File, y)]  OBVIOUS
  <2>3. eocdrs = [y \in 0 .. src_len |-> {at[y]}] /\ at[z] = EndRecordAt(File, z)
    BY <1>1, <2>1, <2>2 DEF FileSeen
  <2>4. Seen(eocdrs, z) = {at[z]} /\ Remember(eocdrs, z, at[z]) = eocdrs
    BY <2>1, <2>3, SeesOne
  <2>5. QED  BY <2>3, <2>4 DEF z
<1> HIDE DEF d
<1>6. /\ eocdrs' = eocdrs
      /\ IF Matches(h) THEN eocdr' = h.fields /\ r' = "found" /\ UNCHANGED comment_len
                       ELSE comment_len' = comment_len + 1 /\ UNCHANGED <<r, eocdr>>
      /\ UNCHANGED <<src_len, cfhs, lfhs, k, offset, zip, it, members>>
  BY <1>4, <1>5 DEF FindEocdr
<1>7. FileSeen' /\ comment' = comment /\ members' = <<>> /\ Ending' = Ending
  BY <1>1, <1>6, SameFile DEF archive
<1>8. CASE d = 0
  <2>1. EndOffset + d = EndOffset /\ comment_len = Len(comment)  BY <1>2, <1>4, <1>8
  <2>2. h = [fields |-> Ending, comment_len |-> Len(comment)] /\ Ending \in EndFields
    BY <2>1, EndIsRead
  <2>3. h \in [fields : EndFields, comment_len : Nat]  BY <1>2, <2>2
  <2> HIDE DEF h
  <2>4. Matches(h)  BY <2>1, <2>2, <2>3, WriteAssumption DEF WriteAssumption, Matches
  <2>5. r' = "found" /\ eocdr' = Ending /\ comment_len' = Len(comment)
    BY <1>6, <2>1, <2>2, <2>4
  <2>6. QED  BY <1>7, <2>5 DEF SavedInv, Opened
<1>9. CASE d # 0
  <2>1. d \in 1 .. Len(comment)  BY <1>2, <1>4, <1>9
  <2>2. h # NONE => h.comment_len # comment_len  BY <1>4, <2>1, NoOtherEnd
  <2> HIDE DEF h
  <2>3. ~ Matches(h)  BY <2>2 DEF Matches
  <2>4. comment_len' = comment_len + 1 /\ r' = "find"  BY <1>1, <1>6, <2>3
  <2>5. comment_len' \in 0 .. Len(comment)  BY <1>2, <1>4, <2>1, <2>4
  <2>6. QED  BY <1>7, <2>4, <2>5 DEF SavedInv
<1>10. QED  BY <1>8, <1>9

LEMMA CheckEocdrSaved ==
  ASSUME MemoryInv, WrittenInv, SavedInv, UNCHANGED writeVars, CheckEocdr
  PROVE  SavedInv'
<1>1. r = "found" /\ FileSeen /\ Opened /\ members = <<>>
  BY DEF CheckEocdr, SavedInv
<1>2. /\ eocdr.disk_nbr = 0 /\ eocdr.cd_start_disk = 0
      /\ eocdr.disk_cd_entries = eocdr.cd_entries /\ eocdr.cd_offset = cd_offset
  BY <1>1 DEF Opened, Ending, EndOf
<1>3. ~ MultiVolume  BY <1>2 DEF MultiVolume
<1>4. /\ offset' = cd_offset /\ members_begin' = cd_offset /\ k' = 0 /\ r' = "check"
      /\ UNCHANGED <<archive, comment_len, eocdr, members_end, it, members>>
  BY <1>2, <1>3 DEF CheckEocdr
<1>5. /\ FileSeen' /\ comment' = comment /\ cd_offset' = cd_offset /\ num_memb' = num_memb
      /\ Ending' = Ending /\ CentralRoom' = CentralRoom
  BY <1>1, <1>4, SameFile
<1>6. num_memb \in Nat /\ 0 \in 0 .. num_memb /\ cd_offset \in Nat  BY FileLen
<1>7. CentralSize(0) = 0  BY <1>6, Rooms DEF MemoryInv
<1>8. offset' = cd_offset' + CentralSize(k)'
  <2>1. CentralSize(k)' = CentralSize(0)  BY <1>4, <1>5 DEF CentralSize
  <2>2. QED  BY <1>4, <1>5, <1>6, <1>7, <2>1
<1>9. Opened'  BY <1>1, <1>4, <1>5 DEF Opened
<1>10. k' \in 0 .. num_memb' /\ members_begin' = cd_offset' /\ members' = <<>>
  BY <1>1, <1>4, <1>5, <1>6
<1>11. QED  BY <1>4, <1>5, <1>8, <1>9, <1>10 DEF SavedInv

LEMMA CheckMemberSaved ==
  ASSUME MemoryInv, WrittenInv, SavedInv, UNCHANGED writeVars, CheckMember
  PROVE  SavedInv'
<1>1. /\ r = "check" /\ FileSeen /\ Opened /\ members = <<>> /\ k \in 0 .. num_memb
      /\ offset = cd_offset + CentralSize(k) /\ members_begin = cd_offset /\ k < eocdr.cd_entries
  BY DEF CheckMember, SavedInv
<1>2. k < num_memb /\ num_memb \in Nat  BY <1>1, FileLen DEF Opened, Ending, EndOf
<1>3. k + 1 \in 1 .. num_memb /\ (k + 1) - 1 = k  BY <1>1, <1>2
<1>4. offset = EntryOffset(k + 1)  BY <1>1, <1>3 DEF EntryOffset
<1>5. PICK c, l : Reads(k + 1, c, l)  BY <1>1, <1>3, EntryReads
<1>6. /\ Seen(cfhs, offset) = {c} /\ Remember(cfhs, offset, c) = cfhs
      /\ read_cfh(c, offset) /\ Supported(c)
      /\ offset + CfhSize(c) = cd_offset + CentralSize(k + 1)
      /\ Seen(lfhs, c.lfh_offset) = {l} /\ Remember(lfhs, c.lfh_offset, l) = lfhs
      /\ read_lfh(l, c.lfh_offset) /\ ~ (c.comp_size > src_len - comp_data(c, l))
  BY <1>4, <1>5 DEF Reads
<1>7. /\ UNCHANGED <<src_len, eocdrs, cfhs, lfhs>>
      /\ offset' = NextEntry(c) /\ k' = k + 1
      /\ UNCHANGED <<r, comment_len, eocdr, zip, it, members>>
  BY <1>6, Zenon DEF CheckMember
<1>8. /\ FileSeen' /\ comment' = comment /\ cd_offset' = cd_offset /\ num_memb' = num_memb
      /\ Ending' = Ending /\ CentralRoom' = CentralRoom
  BY <1>1, <1>7, SameFile DEF archive
<1>9. offset' = cd_offset' + CentralSize(k)'
  <2>1. CentralSize(k)' = CentralSize(k + 1)  BY <1>7, <1>8 DEF CentralSize
  <2>2. offset' = offset + CfhSize(c)  BY <1>7 DEF NextEntry
  <2>3. QED  BY <1>6, <1>8, <2>1, <2>2
<1>10. Opened'  BY <1>1, <1>7, <1>8 DEF Opened
<1>11. k' \in 0 .. num_memb'  BY <1>2, <1>3, <1>7, <1>8
<1>12. members_begin' = cd_offset' /\ members' = <<>> /\ r' = "check"
  BY <1>1, <1>7, <1>8 DEF zip
<1>13. QED  BY <1>8, <1>9, <1>10, <1>11, <1>12 DEF SavedInv

LEMMA CheckEndsSaved ==
  ASSUME MemoryInv, WrittenInv, SavedInv, UNCHANGED writeVars, CheckEnds
  PROVE  SavedInv'
<1>1. /\ r = "check" /\ FileSeen /\ Opened /\ members = <<>> /\ k = num_memb
      /\ offset = cd_offset + CentralSize(k) /\ members_begin = cd_offset
  BY DEF CheckEnds, SavedInv, Opened, Ending, EndOf
<1>2. /\ members_end' = offset /\ it' = members_begin /\ r' = "iterate"
      /\ UNCHANGED <<archive, comment_len, eocdr, k, offset, members_begin, members>>
  BY DEF CheckEnds
<1>3. /\ FileSeen' /\ comment' = comment /\ cd_offset' = cd_offset /\ num_memb' = num_memb
      /\ Ending' = Ending /\ CentralRoom' = CentralRoom
  BY <1>1, <1>2, SameFile
<1>4. num_memb \in Nat /\ 0 \in 0 .. num_memb /\ cd_offset \in Nat  BY FileLen
<1>5. CentralSize(0) = 0  BY <1>4, Rooms DEF MemoryInv
<1>6. members' = <<>> /\ Len(members') = 0 /\ members' \in Seq({})  BY <1>1, <1>2
<1>7. members_end' = cd_offset' + CentralSize(num_memb)'
  <2>1. CentralSize(num_memb)' = CentralSize(num_memb)  BY <1>3 DEF CentralSize
  <2>2. QED  BY <1>1, <1>2, <1>3, <2>1
<1>8. it' = cd_offset' + CentralSize(Len(members))'
  <2>1. CentralSize(Len(members))' = CentralSize(0)  BY <1>3, <1>6 DEF CentralSize
  <2>2. QED  BY <1>1, <1>2, <1>3, <1>4, <1>5, <2>1
<1>9. Opened'  BY <1>1, <1>2, <1>3 DEF Opened
<1>10. \A x \in 1 .. Len(members') : IsMember(members[x], x)'  BY <1>6
<1>11. (\E S : members' \in Seq(S)) /\ Len(members') \in 0 .. num_memb'  BY <1>3, <1>4, <1>6
<1>12. QED  BY <1>2, <1>3, <1>7, <1>8, <1>9, <1>10, <1>11 DEF SavedInv

LEMMA AppendAny ==
  ASSUME NEW S, NEW s \in Seq(S), NEW e
  PROVE  /\ Append(s, e) \in Seq(S \cup {e}) /\ Len(Append(s, e)) = Len(s) + 1
         /\ Len(s) \in Nat
         /\ \A x \in 1 .. Len(s) : Append(s, e)[x] = s[x]
         /\ Append(s, e)[Len(s) + 1] = e
OBVIOUS

LEMMA NextMemberSaved ==
  ASSUME MemoryInv, WrittenInv, SavedInv, UNCHANGED writeVars, NextMember
  PROVE  SavedInv'
<1> DEFINE n == Len(members)
<1>1. /\ r = "iterate" /\ FileSeen /\ Opened /\ n \in 0 .. num_memb
      /\ members_end = cd_offset + CentralSize(num_memb)
      /\ it = cd_offset + CentralSize(n) /\ it # members_end
      /\ \A x \in 1 .. n : IsMember(members[x], x)
  BY DEF NextMember, SavedInv
<1>2. PICK S : members \in Seq(S)  BY <1>1 DEF SavedInv
<1>3. n # num_memb /\ num_memb \in Nat  BY <1>1, FileLen
<1> HIDE DEF n
<1>4. n + 1 \in 1 .. num_memb /\ (n + 1) - 1 = n  BY <1>1, <1>3
<1>5. it = EntryOffset(n + 1)  BY <1>1, <1>4 DEF EntryOffset
<1>6. PICK c, l : Reads(n + 1, c, l)  BY <1>1, <1>4, EntryReads
<1>7. /\ Seen(cfhs, it) = {c} /\ Remember(cfhs, it, c) = cfhs /\ read_cfh(c, it)
      /\ it + CfhSize(c) = cd_offset + CentralSize(n + 1)
      /\ Seen(lfhs, c.lfh_offset) = {l} /\ Remember(lfhs, c.lfh_offset, l) = lfhs
      /\ read_lfh(l, c.lfh_offset) /\ IsMember(Member(c, l), n + 1)
  BY <1>5, <1>6 DEF Reads
<1>8. /\ UNCHANGED <<src_len, eocdrs, cfhs, lfhs, comment_len, eocdr, k, offset, zip, r>>
      /\ members' = Append(members, Member(c, l)) /\ it' = it + CfhSize(c)
  BY <1>7, Zenon DEF NextMember
<1>9. /\ FileSeen' /\ comment' = comment /\ cd_offset' = cd_offset /\ num_memb' = num_memb
      /\ Ending' = Ending /\ CentralRoom' = CentralRoom
      /\ \A m, x : IsMember(m, x)' <=> IsMember(m, x)
  BY <1>1, <1>8, SameFile DEF archive
<1>10. /\ members' \in Seq(S \cup {Member(c, l)}) /\ Len(members') = n + 1
       /\ \A x \in 1 .. n : members'[x] = members[x]
       /\ members'[n + 1] = Member(c, l)
  BY <1>2, <1>8, AppendAny DEF n
<1>11. Opened' /\ r' = "iterate"  BY <1>1, <1>8, <1>9 DEF Opened
<1>12. members_end' = cd_offset' + CentralSize(num_memb)'
  <2>1. CentralSize(num_memb)' = CentralSize(num_memb)  BY <1>9 DEF CentralSize
  <2>2. QED  BY <1>1, <1>8, <1>9, <2>1 DEF zip
<1>13. it' = cd_offset' + CentralSize(Len(members))'
  <2>1. CentralSize(Len(members))' = CentralSize(n + 1)  BY <1>9, <1>10 DEF CentralSize
  <2>2. QED  BY <1>7, <1>8, <1>9, <2>1
<1>14. ASSUME NEW x \in 1 .. n + 1  PROVE IsMember(members[x], x)'
  <2> DEFINE m == members'[x]
  <2>1. IsMember(m, x)
    <3>1. CASE x = n + 1  BY <3>1, <1>7, <1>10
    <3>2. CASE x \in 1 .. n  BY <3>2, <1>1, <1>10
    <3>3. QED  BY <3>1, <3>2, <1>1, <1>3
  <2>2. PICK q : q = m  OBVIOUS
  <2>3. IsMember(q, x)'  BY <1>9, <2>1, <2>2
  <2>4. QED  BY <2>2, <2>3
<1>15. Len(members') \in 0 .. num_memb' /\ \E T : members' \in Seq(T)
  BY <1>3, <1>4, <1>9, <1>10
<1>16. \A x \in 1 .. Len(members') : IsMember(members[x], x)'  BY <1>10, <1>14
<1>17. QED  BY <1>9, <1>11, <1>12, <1>13, <1>15, <1>16 DEF SavedInv

LEMMA LastMemberSaved ==
  ASSUME MemoryInv, WrittenInv, SavedInv, UNCHANGED writeVars, LastMember
  PROVE  SavedInv'
<1> DEFINE n == Len(members)
<1>1. /\ r = "iterate" /\ FileSeen /\ Opened /\ n \in 0 .. num_memb
      /\ members_end = cd_offset + CentralSize(num_memb)
      /\ it = cd_offset + CentralSize(n) /\ it = members_end
      /\ \A x \in 1 .. n : IsMember(members[x], x)
  BY DEF LastMember, SavedInv
<1>2. PICK S : members \in Seq(S)  BY <1>1 DEF SavedInv
<1>3. n = num_memb
  <2>1. num_memb \in Nat /\ cd_offset \in Nat /\ num_memb \in 0 .. num_memb  BY FileLen
  <2>2. PICK a \in Nat, b \in Nat : a = CentralSize(n) /\ b = CentralSize(num_memb)
    BY <1>1, <2>1, Rooms DEF MemoryInv
  <2>3. a = b  BY <1>1, <2>1, <2>2
  <2>4. n < num_memb => a < b  BY <1>1, <2>1, <2>2, RoomsGrow DEF MemoryInv
  <2> HIDE DEF n
  <2>5. QED  BY <1>1, <2>1, <2>2, <2>3, <2>4
<1>4. /\ r' = "iterated"
      /\ UNCHANGED <<archive, comment_len, eocdr, k, offset, zip, it, members>>
  BY DEF LastMember
<1>5. /\ FileSeen' /\ comment' = comment /\ cd_offset' = cd_offset /\ num_memb' = num_memb
      /\ Ending' = Ending /\ CentralRoom' = CentralRoom
      /\ \A m, x : IsMember(m, x)' <=> IsMember(m, x)
  BY <1>1, <1>4, SameFile
<1>6. Opened' /\ members' = members  BY <1>1, <1>4, <1>5 DEF Opened
<1>7. members_end' = cd_offset' + CentralSize(num_memb)'
  <2>1. CentralSize(num_memb)' = CentralSize(num_memb)  BY <1>5 DEF CentralSize
  <2>2. QED  BY <1>1, <1>4, <1>5, <2>1 DEF zip
<1>8. it' = cd_offset' + CentralSize(Len(members))'
  <2>1. CentralSize(Len(members))' = CentralSize(n)  BY <1>5, <1>6 DEF CentralSize
  <2>2. QED  BY <1>1, <1>4, <1>5, <2>1
<1>9. ASSUME NEW x \in 1 .. Len(members')  PROVE IsMember(members[x], x)'
  <2>1. PICK q : q = members[x]  OBVIOUS
  <2>2. IsMember(q, x)  BY <1>1, <1>6, <2>1
  <2>3. IsMember(q, x)'  BY <1>5, <2>2
  <2>4. QED  BY <1>6, <2>1, <2>3
<1>10. Len(members') = num_memb' /\ Len(members') \in 0 .. num_memb' /\ \E T : members' \in Seq(T)
  BY <1>1, <1>2, <1>3, <1>5, <1>6
<1>11. QED  BY <1>4, <1>5, <1>6, <1>7, <1>8, <1>9, <1>10 DEF SavedInv

LEMMA LoadSaved ==
  ASSUME WrittenInv, MemoryInv, r = "find", comment_len = 0, members = <<>>, SaveAndLoad
  PROVE  SavedInv'
<1>1. /\ r' = "find" /\ comment_len' = 0 /\ members' = <<>>
      /\ dst' = dst /\ p' = p /\ UNCHANGED args /\ src_len' = p
      /\ eocdrs' = [x \in 0 .. p |-> {EndRecordAt(File, x)}]
      /\ cfhs' = [x \in 0 .. p |-> {HeaderAt(File, "CFH", CFH_BASE_SZ, x)}]
      /\ lfhs' = [x \in 0 .. p |-> {HeaderAt(File, "LFH", LFH_BASE_SZ, x)}]
  BY DEF SaveAndLoad, File
<1>2. File' = File /\ comment' = comment  BY <1>1 DEF File, args
<1>3. FileSeen'  BY <1>1, <1>2 DEF FileSeen
<1>4. 0 \in 0 .. Len(comment)  BY FileLen
<1>5. QED  BY <1>1, <1>2, <1>3, <1>4 DEF SavedInv

LEMMA InitRoundTrip == Init => RoundTripInv
BY DEF Init, WriteInit, ReadInit, RoundTripInv

LEMMA NextRoundTrip ==
  ASSUME WriteInv, RoundTripInv, [Next]_vars
  PROVE  RoundTripInv'
<1> SUFFICES ASSUME created'  PROVE RoundTripInv'
  BY DEF RoundTripInv
<1>1. created' = created
  BY DEF Next, vars, Write, SaveAndLoad, Read
<1>2. created /\ MemoryInv /\ w \in {"local", "central", "written", "saved"}
      /\ (w \in {"written", "saved"} => WrittenInv)
  BY <1>1 DEF WriteInv
<1>3. /\ w # "saved" => r = "find" /\ comment_len = 0 /\ members = <<>>
      /\ w = "saved" /\ ~ Lookalike(comment) => SavedInv
  BY <1>2 DEF RoundTripInv
<1>4. CASE Write
  <2>1. w \in {"local", "central"} /\ UNCHANGED readVars
    BY <1>4 DEF Write, WriteNext, WriteLocal, LocalEnds, WriteCentral, WriteEnd
  <2>2. w' # "saved"
    BY <1>4, <2>1 DEF Write, WriteNext, WriteLocal, LocalEnds, WriteCentral, WriteEnd
  <2>3. QED  BY <1>3, <2>1, <2>2 DEF RoundTripInv, readVars
<1>5. CASE SaveAndLoad
  <2>1. w = "written" /\ w' = "saved"  BY <1>5 DEF SaveAndLoad
  <2>2. SavedInv'  BY <1>2, <1>3, <1>5, <2>1, LoadSaved
  <2>3. QED  BY <2>1, <2>2 DEF RoundTripInv
<1>6. CASE Read
  <2>1. w = "saved" /\ ReadNext /\ UNCHANGED writeVars  BY <1>2, <1>6 DEF Read
  <2>2. w' = "saved" /\ comment' = comment  BY <2>1, SameFile
  <2>3. ASSUME ~ Lookalike(comment)  PROVE SavedInv'
    <3>1. SavedInv /\ WrittenInv  BY <1>2, <1>3, <2>1, <2>3
    <3>2. QED
      BY <1>2, <2>1, <2>3, <3>1, FindSaved, CheckEocdrSaved, CheckMemberSaved, CheckEndsSaved,
         NextMemberSaved, LastMemberSaved DEF ReadNext
  <2>4. QED  BY <2>2, <2>3 DEF RoundTripInv, Lookalike
<1>7. CASE UNCHANGED vars
  <2>1. UNCHANGED writeVars /\ UNCHANGED <<archive, r, comment_len, eocdr, k, offset, zip, it, members>>
    BY <1>7 DEF vars, readVars
  <2>2. /\ w' = w /\ comment' = comment /\ cd_offset' = cd_offset /\ num_memb' = num_memb
        /\ Ending' = Ending /\ CentralRoom' = CentralRoom /\ (FileSeen' <=> FileSeen)
        /\ \A m, x : IsMember(m, x)' <=> IsMember(m, x)
    BY <2>1, SameFile
  <2>3. ASSUME SavedInv  PROVE SavedInv'
    <3>1. Opened' <=> Opened  BY <2>1, <2>2 DEF Opened
    <3>2. members' = members /\ k' = k /\ r' = r /\ comment_len' = comment_len /\ it' = it
          /\ offset' = offset /\ members_begin' = members_begin /\ members_end' = members_end
      BY <2>1 DEF zip
    <3>3. /\ CentralSize(k)' = CentralSize(k) /\ CentralSize(num_memb)' = CentralSize(num_memb)
          /\ CentralSize(Len(members))' = CentralSize(Len(members))
      BY <2>2, <3>2 DEF CentralSize
    <3>4. ASSUME NEW x, IsMember(members[x], x)  PROVE IsMember(members[x], x)'
      <4>1. PICK q : q = members[x]  OBVIOUS
      <4>2. IsMember(q, x)'  BY <2>2, <3>4, <4>1
      <4>3. QED  BY <3>2, <4>1, <4>2
    <3>5. QED  BY <2>2, <2>3, <3>1, <3>2, <3>3, <3>4 DEF SavedInv
  <2>4. QED  BY <1>3, <2>1, <2>2, <2>3 DEF RoundTripInv, Lookalike
<1>8. QED  BY <1>4, <1>5, <1>6, <1>7 DEF Next

(* Reading what zip_write wrote gives back every member with its name, its *)
(* data and its time, in order, for any names, contents and comment that   *)
(* does not end like an end record (zip.c:355, zip.c:401 and zip.c:461).   *)
THEOREM ReadsWhatWasWritten == Spec => []RoundTrip
<1>1. Init => WriteInv /\ RoundTripInv  BY InitWrite, InitRoundTrip
<1>2. WriteInv /\ RoundTripInv /\ [Next]_vars => (WriteInv /\ RoundTripInv)'
  BY NextWrite, NextRoundTrip
<1>3. WriteInv /\ RoundTripInv => RoundTrip
  <2> SUFFICES ASSUME WriteInv, RoundTripInv, created  PROVE RoundTrip
    BY DEF RoundTrip
  <2>1. w # "assert"  BY DEF WriteInv
  <2>2. ASSUME w = "saved", ~ Lookalike(comment)
        PROVE  /\ r # "false" /\ (r # "find" => comment_len = Len(comment))
               /\ r = "iterated" =>
                    Len(members) = num_memb /\ \A x \in 1 .. num_memb : IsMember(members[x], x)
    BY <2>2 DEF RoundTripInv, SavedInv, Opened
  <2>3. QED  BY <2>1, <2>2 DEF RoundTrip
<1>4. QED  BY <1>1, <1>2, <1>3, PTL DEF Spec

-----------------------------------------------------------------------------
(* An archive from elsewhere, of any length with any headers anywhere.     *)
(* What zip_read accepts zip_member can read.  The invariant is the path   *)
(* of the first walk over the directory: the second one cannot leave it,   *)
(* because reading a header again gives the same header, and cannot        *)
(* overrun it, because the offsets on it increase.                         *)
(* zip_read and the loop over the members, on an archive that may be known *)
(* in advance, in part or not at all.                                      *)
ArchiveInit ==
  /\ src_len \in Nat
  /\ eocdrs \in [Offsets -> SUBSET (AnyEocdr \cup {NONE})]
  /\ cfhs \in [Offsets -> SUBSET (AnyCfh \cup {NONE})]
  /\ lfhs \in [Offsets -> SUBSET (AnyLfh \cup {NONE})]
  /\ ReadInit
ReadSpec == ArchiveInit /\ [][ReadNext]_readVars

ArchiveInv ==
  /\ src_len \in Nat
  /\ eocdrs \in [Offsets -> SUBSET (AnyEocdr \cup {NONE})]
  /\ cfhs \in [Offsets -> SUBSET (AnyCfh \cup {NONE})]
  /\ lfhs \in [Offsets -> SUBSET (AnyLfh \cup {NONE})]

Walking == r \in {"check", "iterate", "iterated"}
EocdrInv == r \in {"found", "check", "iterate", "iterated"} =>
  eocdr.cd_entries \in Nat /\ eocdr.cd_offset \in Nat

(* The headers of the entry at offset x have been read and passed; y is    *)
(* where the next one begins.                                              *)
Passed(x, c, l) ==
  /\ read_cfh(c, x) /\ Supported(c) /\ read_lfh(l, c.lfh_offset)
  /\ ~(c.comp_size > src_len - comp_data(c, l))
Checked(cs, ls, x, y) ==
  \E c \in AnyCfh \ {NONE}, l \in AnyLfh \ {NONE} :
    /\ x \in Offsets /\ cs[x] = {c} /\ c.lfh_offset \in Offsets /\ ls[c.lfh_offset] = {l}
    /\ Passed(x, c, l) /\ y = x + CfhSize(c)

IsPath(at, cs, ls, from, n, to) ==
  /\ at \in [0 .. n -> Nat] /\ at[0] = from /\ at[n] = to
  /\ \A j \in 0 .. n - 1 :
       Checked(cs, ls, at[j], at[j + 1]) /\ at[j] < to

PathInv == Walking =>
  /\ k \in Nat /\ offset \in Nat
  /\ \E at : /\ IsPath(at, cfhs, lfhs, members_begin, k, offset)
             /\ r # "check" => /\ k = eocdr.cd_entries /\ members_end = offset
                               /\ Len(members) \in 0 .. k /\ it = at[Len(members)]

MembersInv ==
  /\ \E S : members \in Seq(S)
  /\ r \in {"find", "found", "check"} => members = <<>>
  /\ \A x \in 1 .. Len(members) :
       /\ members[x].name_at + members[x].name_len <= src_len
       /\ members[x].comment_at + members[x].comment_len <= src_len
       /\ members[x].data_at + members[x].comp_size <= src_len
       /\ members[x].method = "STORED" => members[x].comp_size = members[x].uncomp_size

IInv ==
  /\ ArchiveInv /\ EocdrInv /\ PathInv /\ MembersInv
  /\ r \in {"find", "found", "check", "iterate", "iterated", "false"}
  /\ r = "iterated" => Len(members) = eocdr.cd_entries

-----------------------------------------------------------------------------
USE FormatAssumption, ReadAssumption

(* A view of the headers in which all that is known of another one is kept.*)
Keeps(v, v2) == \A y \in Offsets : \A h : v[y] = {h} => v2[y] = {h}

(* Looking at a place changes nothing that has been seen before.           *)
LEMMA SeenOnce ==
  ASSUME NEW S, NEW view \in [Offsets -> SUBSET (S \cup {NONE})], NEW x \in Nat, NEW h \in Seen(view, x)
  PROVE  /\ h \in S \cup {NONE}
         /\ Remember(view, x, h) \in [Offsets -> SUBSET (S \cup {NONE})]
         /\ Keeps(view, Remember(view, x, h))
         /\ x \in Offsets => Remember(view, x, h)[x] = {h} /\ h \in view[x]
         /\ x \notin Offsets => h = NONE
<1>1. h \in S \cup {NONE}  BY DEF Seen
<1>2. Remember(view, x, h) \in [Offsets -> SUBSET (S \cup {NONE})]  BY <1>1 DEF Remember
<1>3. Keeps(view, Remember(view, x, h))  BY DEF Keeps, Remember, Seen
<1>4. x \in Offsets => Remember(view, x, h)[x] = {h} /\ h \in view[x]
  BY DEF Remember, Seen
<1>5. x \notin Offsets => h = NONE  BY DEF Seen
<1>6. QED  BY <1>1, <1>2, <1>3, <1>4, <1>5

LEMMA SeenCfh ==
  ASSUME ArchiveInv, NEW x \in Nat, NEW c \in Seen(cfhs, x)
  PROVE  /\ c \in AnyCfh \cup {NONE}
         /\ Remember(cfhs, x, c) \in [Offsets -> SUBSET (AnyCfh \cup {NONE})]
         /\ Keeps(cfhs, Remember(cfhs, x, c))
         /\ x \in Offsets => Remember(cfhs, x, c)[x] = {c} /\ c \in cfhs[x]
         /\ x \notin Offsets => c = NONE
<1>1. cfhs \in [Offsets -> SUBSET (AnyCfh \cup {NONE})]  BY DEF ArchiveInv
<1>2. QED  BY <1>1, SeenOnce

LEMMA SeenLfh ==
  ASSUME ArchiveInv, NEW x \in Nat, NEW l \in Seen(lfhs, x)
  PROVE  /\ l \in AnyLfh \cup {NONE}
         /\ Remember(lfhs, x, l) \in [Offsets -> SUBSET (AnyLfh \cup {NONE})]
         /\ Keeps(lfhs, Remember(lfhs, x, l))
         /\ x \in Offsets => Remember(lfhs, x, l)[x] = {l} /\ l \in lfhs[x]
         /\ x \notin Offsets => l = NONE
<1>1. lfhs \in [Offsets -> SUBSET (AnyLfh \cup {NONE})]  BY DEF ArchiveInv
<1>2. QED  BY <1>1, SeenOnce

(* Entries that passed keep having passed.                                 *)
LEMMA StaysPath ==
  ASSUME NEW cs, NEW ls, NEW cs2, NEW ls2, NEW at, NEW from, NEW n \in Nat, NEW to,
         IsPath(at, cs, ls, from, n, to),
         Keeps(cs, cs2), Keeps(ls, ls2)
  PROVE  IsPath(at, cs2, ls2, from, n, to)
<1>1. ASSUME NEW j \in 0 .. n - 1
      PROVE  Checked(cs2, ls2, at[j], at[j + 1]) /\ at[j] < to
  <2>1. Checked(cs, ls, at[j], at[j + 1]) /\ at[j] < to
    BY DEF IsPath
  <2>2. Checked(cs2, ls2, at[j], at[j + 1])
    BY <2>1 DEF Checked, Keeps
  <2>3. QED
    BY <2>1, <2>2
<1>2. QED
  BY <1>1 DEF IsPath

(* The archive does not change: a path over it is one after the step.      *)
LEMMA PathAfter ==
  ASSUME NEW at, src_len' = src_len,
         IsPath(at, cfhs', lfhs', members_begin', k', offset'),
         k' \in Nat, offset' \in Nat,
         r' # "check" => /\ k' = eocdr'.cd_entries /\ members_end' = offset'
                         /\ Len(members') \in 0 .. k' /\ it' = at[Len(members')]
  PROVE  PathInv'
<1>1. IsPath(at, cfhs, lfhs, members_begin, k, offset)'
  BY DEF IsPath, Checked, Passed, Offsets, read_cfh, read_lfh
<1>2. QED
  BY <1>1 DEF PathInv

LEMMA CfhSizeNat ==
  ASSUME NEW c \in AnyCfh \ {NONE}
  PROVE  CfhSize(c) \in Nat /\ CfhSize(c) > 0 /\ c.lfh_offset \in Nat /\ c.comp_size \in Nat
         /\ c.name_len \in Nat
<1>1. c.name_len \in Nat /\ c.extra_len \in Nat /\ c.comment_len \in Nat
      /\ c.comp_size \in Nat /\ c.lfh_offset \in Nat
  BY DEF ReadAssumption
<1>2. CFH_BASE_SZ \in Nat \ {0}
  BY DEF FormatAssumption
<1>3. QED
  BY <1>1, <1>2 DEF CfhSize

-----------------------------------------------------------------------------
LEMMA InitIInv == ArchiveInit => IInv
<1> SUFFICES ASSUME ArchiveInit PROVE IInv
  OBVIOUS
<1>1. members = <<>> /\ r = "find"
  BY DEF ArchiveInit, ReadInit
<1>2. \E S : members \in Seq(S)
  <2>1. members \in Seq({})
    BY <1>1
  <2>2. QED
    BY <2>1
<1>3. MembersInv
  BY <1>1, <1>2 DEF MembersInv
<1>4. ArchiveInv
  BY DEF ArchiveInit, ArchiveInv
<1>5. QED
  BY <1>1, <1>3, <1>4 DEF IInv, EocdrInv, PathInv, Walking

LEMMA FindStep ==
  ASSUME IInv, FindEocdr
  PROVE  IInv'
<1>1. r = "find" /\ members = <<>> /\ ArchiveInv /\ MembersInv
  BY DEF FindEocdr, IInv, MembersInv
<1>2. UNCHANGED <<src_len, cfhs, lfhs, k, offset, zip, it, members>>
  BY DEF FindEocdr, Refuse, archive
<1>3. CASE comment_len > UINT16_MAX \/ src_len < EOCDR_BASE_SZ + comment_len
  <2>1. r' = "false" /\ UNCHANGED eocdrs
    BY <1>3 DEF FindEocdr, Refuse, archive
  <2>2. QED
    BY <1>1, <1>2, <2>1 DEF IInv, ArchiveInv, EocdrInv, PathInv, Walking, MembersInv, Offsets
<1>4. CASE ~(comment_len > UINT16_MAX \/ src_len < EOCDR_BASE_SZ + comment_len)
  <2> DEFINE x == src_len - EOCDR_BASE_SZ - comment_len
  <2>1. PICK h \in Seen(eocdrs, x) :
          /\ eocdrs' = Remember(eocdrs, x, h)
          /\ IF Matches(h) THEN eocdr' = h.fields /\ r' = "found"
                           ELSE r' = "find"
    BY <1>4, <1>1 DEF FindEocdr
  <2>2. h \in AnyEocdr \cup {NONE} /\ eocdrs' \in [Offsets -> SUBSET (AnyEocdr \cup {NONE})]
    BY <1>1, <2>1 DEF Seen, Remember, ArchiveInv
  <2>3. Offsets' = Offsets
    BY <1>2 DEF Offsets
  <2>4. ArchiveInv'
    BY <1>1, <1>2, <2>2, <2>3 DEF ArchiveInv
  <2>5. MembersInv' /\ PathInv'
    BY <1>1, <1>2, <2>1 DEF MembersInv, PathInv, Walking
  <2>6. EocdrInv'
    BY <2>1, <2>2 DEF EocdrInv, Matches
  <2>7. QED
    BY <2>1, <2>4, <2>5, <2>6 DEF IInv
<1>5. QED
  BY <1>3, <1>4

LEMMA CheckEocdrStep ==
  ASSUME IInv, CheckEocdr
  PROVE  IInv'
<1>1. r = "found" /\ members = <<>> /\ ArchiveInv /\ MembersInv /\ EocdrInv
  BY DEF CheckEocdr, IInv, MembersInv
<1>2. UNCHANGED <<archive, eocdr, members>>
  BY DEF CheckEocdr, Refuse
<1>3. ArchiveInv' /\ src_len' = src_len
  BY <1>1, <1>2 DEF ArchiveInv, archive, Offsets
<1>4. CASE r' = "false"
  BY <1>1, <1>2, <1>3, <1>4 DEF IInv, EocdrInv, PathInv, Walking, MembersInv
<1>5. CASE r' # "false"
  <2>1. r' = "check" /\ offset' = eocdr.cd_offset /\ members_begin' = offset' /\ k' = 0
    BY <1>5 DEF CheckEocdr, Refuse
  <2>2. offset' \in Nat /\ EocdrInv'
    BY <1>1, <1>2, <2>1 DEF EocdrInv
  <2>3. PICK at : at = [j \in 0 .. 0 |-> offset']
    OBVIOUS
  <2>4. IsPath(at, cfhs', lfhs', members_begin', k', offset')
    BY <2>1, <2>2, <2>3 DEF IsPath
  <2>6. PathInv'
    BY <1>3, <2>1, <2>2, <2>4, PathAfter
  <2>5. MembersInv'
    BY <1>1, <1>2, <1>3, <2>1 DEF MembersInv
  <2>7. QED
    BY <1>3, <2>1, <2>2, <2>5, <2>6 DEF IInv
<1>6. QED
  BY <1>4, <1>5

LEMMA CheckMemberStep ==
  ASSUME IInv, CheckMember
  PROVE  IInv'
<1>1. /\ r = "check" /\ members = <<>> /\ ArchiveInv /\ MembersInv /\ EocdrInv
      /\ k \in Nat /\ offset \in Nat /\ k < eocdr.cd_entries
  BY DEF CheckMember, IInv, MembersInv, PathInv, Walking
<1>2. PICK c \in Seen(cfhs, offset) :
        /\ cfhs' = Remember(cfhs, offset, c)
        /\ IF ~read_cfh(c, offset) \/ ~Supported(c) THEN Refuse /\ UNCHANGED lfhs
           ELSE \E l \in Seen(lfhs, c.lfh_offset) :
                  /\ lfhs' = Remember(lfhs, c.lfh_offset, l)
                  /\ IF ~read_lfh(l, c.lfh_offset) \/ c.comp_size > src_len - comp_data(c, l)
                     THEN Refuse
                     ELSE /\ offset' = NextEntry(c) /\ k' = k + 1
                          /\ UNCHANGED <<r, comment_len, eocdr, zip, it, members>>
  BY DEF CheckMember
<1>3. UNCHANGED <<src_len, eocdrs, eocdr, members>>
  BY <1>2 DEF CheckMember, Refuse
<1>4. Offsets' = Offsets /\ src_len' = src_len
  BY <1>3 DEF Offsets
<1>5. /\ cfhs' \in [Offsets -> SUBSET (AnyCfh \cup {NONE})] /\ c \in AnyCfh \cup {NONE}
      /\ Keeps(cfhs, cfhs')
      /\ offset \in Offsets => cfhs'[offset] = {c}
      /\ offset \notin Offsets => c = NONE
  BY <1>1, <1>2, SeenCfh
<1>6. CASE ~read_cfh(c, offset) \/ ~Supported(c)
  <2>1. r' = "false" /\ UNCHANGED lfhs
    BY <1>2, <1>6 DEF Refuse
  <2>2. QED
    BY <1>1, <1>3, <1>4, <1>5, <2>1 DEF IInv, ArchiveInv, EocdrInv, PathInv, Walking, MembersInv
<1>7. CASE read_cfh(c, offset) /\ Supported(c)
  <2>1. c \in AnyCfh \ {NONE} /\ offset \in Offsets /\ cfhs'[offset] = {c}
    BY <1>5, <1>7 DEF read_cfh
  <2>2. CfhSize(c) \in Nat /\ CfhSize(c) > 0 /\ c.lfh_offset \in Nat
    BY <2>1, CfhSizeNat
  <2>3. PICK l \in Seen(lfhs, c.lfh_offset) :
          /\ lfhs' = Remember(lfhs, c.lfh_offset, l)
          /\ IF ~read_lfh(l, c.lfh_offset) \/ c.comp_size > src_len - comp_data(c, l)
             THEN Refuse
             ELSE /\ offset' = NextEntry(c) /\ k' = k + 1
                  /\ UNCHANGED <<r, comment_len, eocdr, zip, it, members>>
    BY <1>2, <1>7
  <2>4. /\ lfhs' \in [Offsets -> SUBSET (AnyLfh \cup {NONE})] /\ l \in AnyLfh \cup {NONE}
        /\ Keeps(lfhs, lfhs')
        /\ c.lfh_offset \in Offsets => lfhs'[c.lfh_offset] = {l}
        /\ c.lfh_offset \notin Offsets => l = NONE
    BY <1>1, <2>2, <2>3, SeenLfh
  <2>5. ArchiveInv'
    BY <1>1, <1>3, <1>4, <1>5, <2>4 DEF ArchiveInv
  <2>6. CASE ~read_lfh(l, c.lfh_offset) \/ c.comp_size > src_len - comp_data(c, l)
    <3>1. r' = "false"
      BY <2>3, <2>6 DEF Refuse
    <3>2. QED
      BY <1>1, <1>3, <2>5, <3>1 DEF IInv, EocdrInv, PathInv, Walking, MembersInv
  <2>7. CASE read_lfh(l, c.lfh_offset) /\ ~(c.comp_size > src_len - comp_data(c, l))
    <3>1. /\ offset' = offset + CfhSize(c) /\ k' = k + 1 /\ r' = "check"
          /\ members_begin' = members_begin
      BY <1>1, <2>3, <2>7 DEF NextEntry, zip
    <3>2. l \in AnyLfh \ {NONE} /\ c.lfh_offset \in Offsets /\ lfhs'[c.lfh_offset] = {l}
      BY <2>4, <2>7 DEF read_lfh
    <3>3. Checked(cfhs', lfhs', offset, offset')
      BY <1>7, <2>1, <2>7, <3>1, <3>2 DEF Checked, Passed
    <3>4. PICK at : IsPath(at, cfhs, lfhs, members_begin, k, offset)
      BY <1>1 DEF IInv, PathInv, Walking
    <3>5. IsPath(at, cfhs', lfhs', members_begin, k, offset)
      BY <1>1, <1>5, <2>4, <3>4, StaysPath
    <3>6. PICK at2 : at2 = [j \in 0 .. k + 1 |-> IF j = k + 1 THEN offset' ELSE at[j]]
      OBVIOUS
    <3>7. offset' \in Nat /\ offset' > offset
      BY <1>1, <2>2, <3>1
    <3>8. /\ at \in [0 .. k -> Nat] /\ at[0] = members_begin /\ at[k] = offset
          /\ \A j \in 0 .. k - 1 : Checked(cfhs', lfhs', at[j], at[j + 1]) /\ at[j] < offset
      BY <3>5 DEF IsPath
    <3>9. /\ at2 \in [0 .. k + 1 -> Nat] /\ at2[0] = members_begin /\ at2[k + 1] = offset'
          /\ \A j \in 0 .. k : at2[j] = at[j]
      BY <1>1, <3>6, <3>7, <3>8
    <3>10. ASSUME NEW j \in 0 .. k
          PROVE  Checked(cfhs', lfhs', at2[j], at2[j + 1]) /\ at2[j] < offset'
      <4>1. CASE j = k
        <5>1. at2[j] = offset /\ at2[j + 1] = offset'
          BY <4>1, <1>1, <3>8, <3>9
        <5>2. QED
          BY <5>1, <2>1, <3>1, <3>3, <3>7
      <4>2. CASE j \in 0 .. k - 1
        <5>1. at2[j] = at[j] /\ at2[j + 1] = at[j + 1] /\ at[j] \in Nat
          BY <4>2, <1>1, <3>8, <3>9
        <5>2. Checked(cfhs', lfhs', at[j], at[j + 1]) /\ at[j] < offset
          BY <4>2, <3>8
        <5>3. at[j] < offset'
          BY <5>1, <5>2, <3>7, <1>1
        <5>4. QED
          BY <5>1, <5>2, <5>3, Zenon
      <4>3. QED
        BY <4>1, <4>2, <1>1
    <3>11. IsPath(at2, cfhs', lfhs', members_begin', k', offset')
      <4>1. (k + 1) - 1 = k
        BY <1>1
      <4>2. QED
        BY <3>1, <3>9, <3>10, <4>1 DEF IsPath
    <3>12. PathInv'
      BY <1>1, <1>4, <3>1, <3>7, <3>11, PathAfter
    <3>13. EocdrInv' /\ MembersInv'
      BY <1>1, <1>3, <3>1 DEF EocdrInv, MembersInv
    <3>14. QED
      BY <2>5, <3>1, <3>12, <3>13 DEF IInv
  <2>8. QED
    BY <2>6, <2>7
<1>8. QED
  BY <1>6, <1>7

LEMMA CheckEndsStep ==
  ASSUME IInv, CheckEnds
  PROVE  IInv'
<1>1. /\ r = "check" /\ members = <<>> /\ ArchiveInv /\ MembersInv /\ EocdrInv
      /\ k \in Nat /\ offset \in Nat /\ k = eocdr.cd_entries
  BY DEF CheckEnds, IInv, MembersInv, PathInv, Walking
<1>2. /\ UNCHANGED <<src_len, eocdrs, cfhs, lfhs, eocdr, k, offset, members_begin, members>>
      /\ members_end' = offset /\ it' = members_begin /\ r' = "iterate"
  BY DEF CheckEnds, archive
<1>3. PICK at : IsPath(at, cfhs, lfhs, members_begin, k, offset)
  BY <1>1 DEF IInv, PathInv, Walking
<1>4. at[0] = members_begin
  BY <1>3 DEF IsPath
<1>5. IsPath(at, cfhs', lfhs', members_begin', k', offset')
  BY <1>2, <1>3
<1>6. Len(members') = 0 /\ 0 \in 0 .. k
  BY <1>1, <1>2
<1>7. PathInv'
  BY <1>1, <1>2, <1>4, <1>5, <1>6, PathAfter
<1>8. ArchiveInv' /\ EocdrInv' /\ MembersInv'
  BY <1>1, <1>2 DEF ArchiveInv, EocdrInv, MembersInv, Offsets
<1>9. QED
  BY <1>2, <1>7, <1>8 DEF IInv

(* A member whose entry was checked lies inside the archive.               *)
LEMMA MemberInside ==
  ASSUME src_len \in Nat, it \in Nat, NEW c \in AnyCfh \ {NONE}, NEW l \in AnyLfh \ {NONE},
         read_cfh(c, it), Supported(c), ~(c.comp_size > src_len - comp_data(c, l))
  PROVE  /\ Member(c, l).name_at + Member(c, l).name_len <= src_len
         /\ Member(c, l).comment_at + Member(c, l).comment_len <= src_len
         /\ Member(c, l).data_at + Member(c, l).comp_size <= src_len
         /\ Member(c, l).method = "STORED" => Member(c, l).comp_size = Member(c, l).uncomp_size
<1>1. /\ c.name_len \in Nat /\ c.extra_len \in Nat /\ c.comment_len \in Nat
      /\ c.comp_size \in Nat /\ c.lfh_offset \in Nat
      /\ l.name_len \in Nat /\ l.extra_len \in Nat
  BY DEF ReadAssumption
<1>2. CFH_BASE_SZ \in Nat /\ LFH_BASE_SZ \in Nat
  BY DEF FormatAssumption
<1>3. /\ it + CFH_BASE_SZ + c.name_len <= src_len
      /\ it + CFH_BASE_SZ + c.name_len + c.extra_len + c.comment_len <= src_len
  BY <1>1, <1>2 DEF read_cfh
<1>4. comp_data(c, l) \in Nat
  BY <1>1, <1>2 DEF comp_data, LfhSize
<1>5. comp_data(c, l) + c.comp_size <= src_len
  BY <1>1, <1>4
<1>6. QED
  BY <1>3, <1>5 DEF Member, Supported

LEMMA NextMemberStep ==
  ASSUME IInv, NextMember
  PROVE  IInv'
<1>1. /\ r = "iterate" /\ ArchiveInv /\ MembersInv /\ EocdrInv
      /\ k \in Nat /\ offset \in Nat /\ it # members_end
  BY DEF NextMember, IInv, PathInv, Walking
<1>2. PICK at : /\ IsPath(at, cfhs, lfhs, members_begin, k, offset)
                /\ k = eocdr.cd_entries /\ members_end = offset
                /\ Len(members) \in 0 .. k /\ it = at[Len(members)]
  BY <1>1 DEF IInv, PathInv, Walking
<1> DEFINE n == Len(members)
<1>3. n \in 0 .. k - 1
  BY <1>1, <1>2 DEF IsPath
<1>4. Checked(cfhs, lfhs, it, at[n + 1])
  BY <1>2, <1>3 DEF IsPath
<1>5. PICK c0 \in AnyCfh \ {NONE}, l0 \in AnyLfh \ {NONE} :
        /\ it \in Offsets /\ cfhs[it] = {c0} /\ c0.lfh_offset \in Offsets
        /\ lfhs[c0.lfh_offset] = {l0}
        /\ read_cfh(c0, it) /\ Supported(c0) /\ read_lfh(l0, c0.lfh_offset)
        /\ ~(c0.comp_size > src_len - comp_data(c0, l0)) /\ at[n + 1] = it + CfhSize(c0)
  BY <1>4 DEF Checked, Passed
<1>18. it \in Nat /\ c0.lfh_offset \in Nat
  BY <1>1, <1>5 DEF Offsets, ArchiveInv
<1>6. PICK c \in Seen(cfhs, it) :
        /\ cfhs' = Remember(cfhs, it, c)
        /\ IF ~read_cfh(c, it) THEN r' = "assert" /\ UNCHANGED <<lfhs, it, members>>
           ELSE \E l \in Seen(lfhs, c.lfh_offset) :
                  /\ lfhs' = Remember(lfhs, c.lfh_offset, l)
                  /\ IF ~read_lfh(l, c.lfh_offset) THEN r' = "assert" /\ UNCHANGED <<it, members>>
                     ELSE /\ members' = Append(members, Member(c, l))
                          /\ it' = it + CfhSize(c)
                          /\ UNCHANGED r
  BY DEF NextMember
<1>7. /\ cfhs' \in [Offsets -> SUBSET (AnyCfh \cup {NONE})]
      /\ Keeps(cfhs, cfhs') /\ c = c0
  <2>1. c \in Seen(cfhs, it) /\ cfhs' = Remember(cfhs, it, c)  BY <1>6
  <2>2. c \in cfhs[it]  BY <1>1, <1>5, <1>18, <2>1, SeenCfh
  <2>3. c = c0  BY <1>5, <2>2
  <2>4. QED  BY <1>1, <1>18, <2>1, <2>3, SeenCfh
<1>8. PICK l \in Seen(lfhs, c.lfh_offset) :
        /\ lfhs' = Remember(lfhs, c.lfh_offset, l)
        /\ IF ~read_lfh(l, c.lfh_offset) THEN r' = "assert" /\ UNCHANGED <<it, members>>
           ELSE /\ members' = Append(members, Member(c, l))
                /\ it' = it + CfhSize(c)
                /\ UNCHANGED r
  BY <1>5, <1>6, <1>7
<1>9. /\ lfhs' \in [Offsets -> SUBSET (AnyLfh \cup {NONE})]
      /\ Keeps(lfhs, lfhs') /\ l = l0
  <2>1. l \in Seen(lfhs, c0.lfh_offset) /\ lfhs' = Remember(lfhs, c0.lfh_offset, l)
    BY <1>7, <1>8
  <2>2. l \in lfhs[c0.lfh_offset]  BY <1>1, <1>5, <1>18, <2>1, SeenLfh
  <2>3. l = l0  BY <1>5, <2>2
  <2>4. QED  BY <1>1, <1>18, <2>1, <2>3, SeenLfh
<1>10. /\ members' = Append(members, Member(c, l)) /\ it' = it + CfhSize(c) /\ r' = "iterate"
  BY <1>1, <1>5, <1>7, <1>8, <1>9
<1>11. UNCHANGED <<src_len, eocdrs, eocdr, k, offset, members_begin, members_end>>
  BY DEF NextMember, zip
<1>12. ArchiveInv' /\ EocdrInv'
  BY <1>1, <1>7, <1>9, <1>10, <1>11 DEF ArchiveInv, EocdrInv, Offsets
<1>13. PICK S : members \in Seq(S)
  BY <1>1 DEF MembersInv
<1>14. /\ members' \in Seq(S \cup {Member(c, l)}) /\ Len(members') = n + 1
       /\ \A x \in 1 .. n : members'[x] = members[x]
       /\ members'[n + 1] = Member(c, l)
  BY <1>10, <1>13, AppendAny
<1>15. PathInv'
  <2>1. IsPath(at, cfhs', lfhs', members_begin, k, offset)
    BY <1>1, <1>2, <1>7, <1>9, StaysPath
  <2>2. IsPath(at, cfhs', lfhs', members_begin', k', offset')
    BY <2>1, <1>11
  <2>3. n + 1 \in 0 .. k /\ it' = at[n + 1]
    BY <1>1, <1>3, <1>5, <1>7, <1>10
  <2>4. QED
    BY <2>2, <2>3, <1>1, <1>2, <1>11, <1>14, PathAfter
<1>16. MembersInv'
  <2>1. /\ Member(c, l).name_at + Member(c, l).name_len <= src_len
        /\ Member(c, l).comment_at + Member(c, l).comment_len <= src_len
        /\ Member(c, l).data_at + Member(c, l).comp_size <= src_len
        /\ Member(c, l).method = "STORED" => Member(c, l).comp_size = Member(c, l).uncomp_size
    BY <1>1, <1>5, <1>7, <1>9, <1>18, MemberInside DEF ArchiveInv
  <2>2. ASSUME NEW x \in 1 .. n + 1
        PROVE  /\ members'[x].name_at + members'[x].name_len <= src_len
               /\ members'[x].comment_at + members'[x].comment_len <= src_len
               /\ members'[x].data_at + members'[x].comp_size <= src_len
               /\ members'[x].method = "STORED" => members'[x].comp_size = members'[x].uncomp_size
    <3>1. CASE x = n + 1
      BY <3>1, <2>1, <1>14
    <3>2. CASE x \in 1 .. n
      BY <3>2, <1>1, <1>14 DEF MembersInv
    <3>3. QED
      BY <3>1, <3>2, <1>3
  <2>3. \E T : members' \in Seq(T)
    BY <1>14
  <2>4. QED
    BY <2>2, <2>3, <1>10, <1>11, <1>14 DEF MembersInv
<1>17. QED
  BY <1>10, <1>12, <1>15, <1>16 DEF IInv

LEMMA LastMemberStep ==
  ASSUME IInv, LastMember
  PROVE  IInv'
<1>1. /\ r = "iterate" /\ ArchiveInv /\ MembersInv /\ EocdrInv
      /\ k \in Nat /\ offset \in Nat /\ it = members_end
  BY DEF LastMember, IInv, PathInv, Walking
<1>2. PICK at : /\ IsPath(at, cfhs, lfhs, members_begin, k, offset)
                /\ k = eocdr.cd_entries /\ members_end = offset
                /\ Len(members) \in 0 .. k /\ it = at[Len(members)]
  BY <1>1 DEF IInv, PathInv, Walking
<1>3. Len(members) = k
  <2>1. \A j \in 0 .. k - 1 : at[j] < offset
    BY <1>2 DEF IsPath
  <2>2. at[Len(members)] = offset
    BY <1>1, <1>2
  <2>3. QED
    BY <1>1, <1>2, <2>1, <2>2
<1>4. /\ UNCHANGED <<src_len, eocdrs, cfhs, lfhs, eocdr, k, offset,
                     members_begin, members_end, it, members>>
      /\ r' = "iterated"
  BY DEF LastMember, archive, zip
<1>5. IsPath(at, cfhs', lfhs', members_begin', k', offset')
  BY <1>2, <1>4
<1>6. PathInv'
  BY <1>1, <1>2, <1>4, <1>5, PathAfter
<1>7. ArchiveInv' /\ EocdrInv' /\ MembersInv'
  BY <1>1, <1>4 DEF ArchiveInv, EocdrInv, MembersInv, Offsets
<1>8. QED
  BY <1>2, <1>3, <1>4, <1>6, <1>7 DEF IInv

LEMMA UnchangedIInv == IInv /\ UNCHANGED readVars => IInv'
<1> SUFFICES ASSUME IInv, UNCHANGED readVars PROVE IInv'
  OBVIOUS
<1>1. UNCHANGED <<src_len, eocdrs, cfhs, lfhs, r, eocdr, k, offset, members_begin,
                  members_end, it, members>>
  BY DEF readVars, archive, zip
<1>2. CASE ~Walking
  BY <1>1, <1>2 DEF IInv, ArchiveInv, EocdrInv, PathInv, Walking, MembersInv, Offsets
<1>3. CASE Walking
  <2>1. PICK at : /\ IsPath(at, cfhs, lfhs, members_begin, k, offset)
                  /\ r # "check" => /\ k = eocdr.cd_entries /\ members_end = offset
                                    /\ Len(members) \in 0 .. k /\ it = at[Len(members)]
    BY <1>3 DEF IInv, PathInv
  <2>2. k \in Nat /\ offset \in Nat
    BY <1>3 DEF IInv, PathInv
  <2>3. IsPath(at, cfhs', lfhs', members_begin', k', offset')
    BY <2>1, <1>1
  <2>4. PathInv'
    BY <2>1, <2>2, <2>3, <1>1, PathAfter
  <2>5. QED
    BY <1>1, <2>4 DEF IInv, ArchiveInv, EocdrInv, MembersInv, Offsets
<1>4. QED
  BY <1>2, <1>3

LEMMA ReadNextIInv == IInv /\ [ReadNext]_readVars => IInv'
BY FindStep, CheckEocdrStep, CheckMemberStep, CheckEndsStep, NextMemberStep, LastMemberStep,
   UnchangedIInv DEF ReadNext

(* The offsets on the path increase: the iterator stays short of its end.  *)
LEMMA IInvReadable == IInv => MembersReadable
<1> SUFFICES ASSUME IInv PROVE MembersReadable
  OBVIOUS
<1>1. ASSUME r = "iterate" PROVE it <= members_end
  <2>1. PICK at : /\ IsPath(at, cfhs, lfhs, members_begin, k, offset)
                  /\ members_end = offset
                  /\ Len(members) \in 0 .. k /\ it = at[Len(members)]
    BY <1>1 DEF IInv, PathInv, Walking
  <2>2. k \in Nat /\ offset \in Nat
    BY <1>1 DEF IInv, PathInv, Walking
  <2>3. /\ \A j \in 0 .. k : at[j] \in Nat
        /\ \A j \in 0 .. k - 1 : at[j] < offset
        /\ at[k] = offset
    BY <2>1, <2>2 DEF IsPath
  <2>4. QED
    BY <2>1, <2>2, <2>3
<1>2. QED
  BY <1>1 DEF IInv, MembersInv, MembersReadable

(* Whatever the archive holds, what zip_read accepts zip_member reads      *)
(* without failing an assert, and the names, comments and data lie inside  *)
(* it (zip.c:355 and zip.c:401).                                           *)
THEOREM ReadsWhatItChecked == ReadSpec => []MembersReadable
<1>1. ArchiveInit => IInv
  BY InitIInv
<1>2. IInv /\ [ReadNext]_readVars => IInv'
  BY ReadNextIInv
<1>3. IInv => MembersReadable
  BY IInvReadable
<1>4. QED
  BY <1>1, <1>2, <1>3, PTL DEF ReadSpec
=============================================================================
