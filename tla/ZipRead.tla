------------------------------ MODULE ZipRead ------------------------------
(***************************************************************************)
(* zip_read, and the loop over zip_member that its users run (zip.c).      *)
(* The bytes of an archive are known by what reading a header at an offset *)
(* gives.  In an archive from elsewhere that is any header, until it is    *)
(* read: reading it again gives the same.                                  *)
(***************************************************************************)
EXTENDS ZipFormat

CONSTANTS
  AnyEocdr, AnyCfh, AnyLfh    \* headers archives from elsewhere may have

ASSUME ReadAssumption ==
  /\ \A h \in AnyEocdr \ {NONE} : h.fields.cd_entries \in Nat /\ h.fields.cd_offset \in Nat
  /\ \A c \in AnyCfh \ {NONE} :
       /\ c.name_len \in Nat /\ c.extra_len \in Nat /\ c.comment_len \in Nat
       /\ c.comp_size \in Nat /\ c.lfh_offset \in Nat
  /\ \A l \in AnyLfh \ {NONE} : l.name_len \in Nat /\ l.extra_len \in Nat

VARIABLES
  src_len,
  eocdrs, cfhs, lfhs,         \* the headers there may be at each offset
  r,                          \* the place in zip_read, or in the loop over the members
  comment_len, eocdr,         \* find_eocdr
  k, offset,                  \* the loop over the directory
  members_begin, members_end, \* zip_t
  it, members                 \* the iterator, and what zip_member has returned

archive == <<src_len, eocdrs, cfhs, lfhs>>
zip == <<members_begin, members_end>>
readVars == <<archive, r, comment_len, eocdr, k, offset, zip, it, members>>

Offsets == 0 .. src_len
Everywhere(v) == [x \in Offsets |-> v]
Seen(view, x) == IF x \in Offsets THEN view[x] ELSE {NONE}
Remember(view, x, h) == [y \in Offsets |-> IF y = x THEN {h} ELSE view[y]]

ReadInit ==
  /\ r = "find" /\ comment_len = 0 /\ eocdr = NONE
  /\ k = 0 /\ offset = 0 /\ members_begin = 0 /\ members_end = 0 /\ it = 0 /\ members = <<>>

-----------------------------------------------------------------------------
Refuse == r' = "false" /\ UNCHANGED <<comment_len, eocdr, k, offset, zip, it, members>>

(* find_eocdr: the record whose comment ends with the archive, searched    *)
(* for from the end.                                                       *)
Matches(h) == h # NONE /\ h.comment_len = comment_len

FindEocdr ==
  /\ r = "find"
  /\ IF comment_len > UINT16_MAX \/ src_len < EOCDR_BASE_SZ + comment_len
     THEN Refuse /\ UNCHANGED archive
     ELSE LET x == src_len - EOCDR_BASE_SZ - comment_len
          IN \E h \in Seen(eocdrs, x) :
               /\ eocdrs' = Remember(eocdrs, x, h)
               /\ IF Matches(h)
                  THEN eocdr' = h.fields /\ r' = "found" /\ UNCHANGED comment_len
                  ELSE comment_len' = comment_len + 1 /\ UNCHANGED <<r, eocdr>>
               /\ UNCHANGED <<src_len, cfhs, lfhs, k, offset, zip, it, members>>

MultiVolume ==
  \/ eocdr.disk_nbr # 0 \/ eocdr.cd_start_disk # 0
  \/ eocdr.disk_cd_entries # eocdr.cd_entries

CheckEocdr ==
  /\ r = "found"
  /\ IF MultiVolume THEN Refuse
     ELSE /\ offset' = eocdr.cd_offset /\ members_begin' = eocdr.cd_offset /\ k' = 0
          /\ r' = "check"
          /\ UNCHANGED <<comment_len, eocdr, members_end, it, members>>
  /\ UNCHANGED archive

-----------------------------------------------------------------------------
read_cfh(c, x) ==
  /\ x <= src_len /\ src_len - x >= CFH_BASE_SZ /\ c # NONE
  /\ src_len - x - CFH_BASE_SZ >= c.name_len + c.extra_len + c.comment_len

read_lfh(l, x) ==
  /\ x <= src_len /\ src_len - x >= LFH_BASE_SZ /\ l # NONE
  /\ src_len - x - LFH_BASE_SZ >= l.name_len + l.extra_len

Supported(c) ==
  /\ ~c.encrypted
  /\ c.method \in {"STORED", "DEFLATED"}
  /\ c.method = "STORED" => c.uncomp_size = c.comp_size
  /\ c.disk_nbr_start = 0
  /\ ~c.nul_in_name

comp_data(c, l) == c.lfh_offset + LfhSize(l)

NextEntry_NoComment(c) == offset + CFH_BASE_SZ + c.name_len + c.extra_len  \* mutant: the comment is not stepped over
NextEntry(c) == offset + CfhSize(c)

(* A turn of zip_read's loop.                                              *)
CheckMember ==
  /\ r = "check" /\ k < eocdr.cd_entries
  /\ \E c \in Seen(cfhs, offset) :
       /\ cfhs' = Remember(cfhs, offset, c)
       /\ IF ~read_cfh(c, offset) \/ ~Supported(c) THEN Refuse /\ UNCHANGED lfhs
          ELSE \E l \in Seen(lfhs, c.lfh_offset) :
                 /\ lfhs' = Remember(lfhs, c.lfh_offset, l)
                 /\ IF ~read_lfh(l, c.lfh_offset) \/ c.comp_size > src_len - comp_data(c, l)
                    THEN Refuse
                    ELSE /\ offset' = NextEntry(c) /\ k' = k + 1
                         /\ UNCHANGED <<r, comment_len, eocdr, zip, it, members>>
  /\ UNCHANGED <<src_len, eocdrs>>

CheckEnds ==
  /\ r = "check" /\ k = eocdr.cd_entries
  /\ members_end' = offset /\ it' = members_begin /\ r' = "iterate"
  /\ UNCHANGED <<archive, comment_len, eocdr, k, offset, members_begin, members>>

(* zip_member, called for each member in turn.  Its asserts are not there  *)
(* in a release build: the headers had better be.                          *)
Member(c, l) ==
  [name_at |-> it + CFH_BASE_SZ, name_len |-> c.name_len,
   data_at |-> comp_data(c, l), comp_size |-> c.comp_size, uncomp_size |-> c.uncomp_size,
   method |-> c.method, mod |-> c.mod, crc32 |-> c.crc32,
   comment_at |-> it + CFH_BASE_SZ + c.name_len + c.extra_len, comment_len |-> c.comment_len]

NextMember ==
  /\ r = "iterate" /\ it # members_end
  /\ \E c \in Seen(cfhs, it) :
       /\ cfhs' = Remember(cfhs, it, c)
       /\ IF ~read_cfh(c, it) THEN r' = "assert" /\ UNCHANGED <<lfhs, it, members>>
          ELSE \E l \in Seen(lfhs, c.lfh_offset) :
                 /\ lfhs' = Remember(lfhs, c.lfh_offset, l)
                 /\ IF ~read_lfh(l, c.lfh_offset) THEN r' = "assert" /\ UNCHANGED <<it, members>>
                    ELSE /\ members' = Append(members, Member(c, l))
                         /\ it' = it + CfhSize(c)
                         /\ UNCHANGED r
  /\ UNCHANGED <<src_len, eocdrs, comment_len, eocdr, k, offset, zip>>

LastMember ==
  /\ r = "iterate" /\ it = members_end
  /\ r' = "iterated"
  /\ UNCHANGED <<archive, comment_len, eocdr, k, offset, zip, it, members>>

ReadNext ==
  FindEocdr \/ CheckEocdr \/ CheckMember \/ CheckEnds \/ NextMember \/ LastMember

-----------------------------------------------------------------------------
(* What zip_read has accepted zip_member can read: the second walk over    *)
(* the directory meets the headers the first one checked, as many of them, *)
(* and stops where it stopped; each member's name, comment and data lie    *)
(* inside the archive (the asserts of zip.c:409, 412, 415 and 432, and of  *)
(* zip_fuzzer.c:67-69).                                                    *)
MembersReadable ==
  /\ r # "assert"
  /\ r = "iterate" => it <= members_end
  /\ \A x \in 1 .. Len(members) :
       /\ members[x].name_at + members[x].name_len <= src_len
       /\ members[x].comment_at + members[x].comment_len <= src_len
       /\ members[x].data_at + members[x].comp_size <= src_len
       /\ members[x].method = "STORED" => members[x].comp_size = members[x].uncomp_size
  /\ r = "iterated" => Len(members) = eocdr.cd_entries
=============================================================================
