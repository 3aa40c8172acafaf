----------------------------- MODULE ZipFormat -----------------------------
(***************************************************************************)
(* The layout of a ZIP archive as zip.c reads and writes it.  A cell of    *)
(* memory stands for a byte or for the bytes of some fields: a header is   *)
(* its base size in cells, with the signature and the fields in the first. *)
(* Cells are pairs of a kind and a value.                                  *)
(***************************************************************************)
EXTENDS Integers, Sequences, SequencesExt, FiniteSetsExt

CONSTANTS
  LFH_BASE_SZ, CFH_BASE_SZ, EOCDR_BASE_SZ,   \* 30, 46, 22
  UINT16_MAX, UINT32_MAX,
  NONE                                       \* no header of that kind

ASSUME FormatAssumption ==
  /\ LFH_BASE_SZ \in Nat \ {0} /\ CFH_BASE_SZ \in Nat \ {0} /\ EOCDR_BASE_SZ \in Nat \ {0, 1}
  /\ UINT16_MAX \in Nat /\ UINT32_MAX \in Nat

Byte(v) == <<"byte", v>>
FIELD == <<"field", 0>>
UNINIT == <<"uninit", 0>>
Header(kind, base, fields) == [x \in 1 .. base |-> IF x = 1 THEN <<kind, fields>> ELSE FIELD]

LocalHeader(lfh) == Header("LFH", LFH_BASE_SZ, lfh)
CentralHeader(cfh) == Header("CFH", CFH_BASE_SZ, cfh)
(* The comment's length is the last field of the record.                   *)
EndRecord(fields, comment_len) ==
  [Header("EOCDR", EOCDR_BASE_SZ, fields) EXCEPT ![EOCDR_BASE_SZ] = Byte(comment_len)]

(* The header of a kind that the cells of mem at offset hold.              *)
HeaderAt(mem, kind, base, offset) ==
  IF /\ offset + base <= Len(mem) /\ mem[offset + 1][1] = kind
     /\ \A x \in 2 .. base : mem[offset + x] = FIELD
  THEN mem[offset + 1][2] ELSE NONE

EndRecordAt(mem, offset) ==
  IF /\ offset + EOCDR_BASE_SZ <= Len(mem) /\ mem[offset + 1][1] = "EOCDR"
     /\ mem[offset + EOCDR_BASE_SZ][1] = "byte"
  THEN [fields |-> mem[offset + 1][2], comment_len |-> mem[offset + EOCDR_BASE_SZ][2]]
  ELSE NONE

LfhSize(lfh) == LFH_BASE_SZ + lfh.name_len + lfh.extra_len
CfhSize(cfh) == CFH_BASE_SZ + cfh.name_len + cfh.extra_len + cfh.comment_len
=============================================================================
