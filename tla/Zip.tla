-------------------------------- MODULE Zip --------------------------------
(***************************************************************************)
(* An archive is written by zip_write and read back, or comes from         *)
(* elsewhere and is read.                                                  *)
(***************************************************************************)
EXTENDS ZipWrite, ZipRead

CONSTANT SrcLens   \* the lengths of archives from elsewhere

VARIABLE created     \* the archive is one that zip_write wrote

vars == <<writeVars, readVars, created>>

Init ==
  \/ /\ created = TRUE /\ WriteInit
     /\ src_len = 0 /\ eocdrs = Everywhere({NONE}) /\ cfhs = eocdrs /\ lfhs = eocdrs
     /\ ReadInit
  \/ /\ created = FALSE
     /\ names = <<>> /\ data = <<>> /\ mtimes = <<>> /\ comment = <<>>
     /\ dst = <<>> /\ w = "none" /\ p = 0 /\ i = 0 /\ lfh_offset = 0 /\ cd_offset = 0 /\ high = 0
     /\ src_len \in SrcLens
     /\ eocdrs = Everywhere(AnyEocdr) /\ cfhs = Everywhere(AnyCfh) /\ lfhs = Everywhere(AnyLfh)
     /\ ReadInit

(* hwzip writes the p bytes to a file, and reads them from it later.       *)
SaveAndLoad ==
  /\ w = "written"
  /\ w' = "saved"
  /\ src_len' = p
  /\ LET src == SubSeq(dst, 1, p)
     IN /\ eocdrs' = [x \in 0 .. p |-> {EndRecordAt(src, x)}]
        /\ cfhs' = [x \in 0 .. p |-> {HeaderAt(src, "CFH", CFH_BASE_SZ, x)}]
        /\ lfhs' = [x \in 0 .. p |-> {HeaderAt(src, "LFH", LFH_BASE_SZ, x)}]
  /\ UNCHANGED <<args, dst, p, i, lfh_offset, cd_offset, high, created>>
  /\ UNCHANGED <<r, comment_len, eocdr, k, offset, zip, it, members>>

Write == WriteNext /\ UNCHANGED <<readVars, created>>
Read == w \in {"saved", "none"} /\ ReadNext /\ UNCHANGED <<writeVars, created>>

Next == Write \/ SaveAndLoad \/ Read
Spec == Init /\ [][Next]_vars

-----------------------------------------------------------------------------
(* A comment that holds what looks like an end record for the rest of it.  *)
Lookalike(c) ==
  \E x \in 1 .. Len(c) : LET h == EndRecordAt(c, x - 1)
                         IN h # NONE /\ h.comment_len = Len(c) - (x - 1) - EOCDR_BASE_SZ

CellsAt(x, count) == SubSeq(dst, x + 1, x + count)
IsMember(m, x) ==
  /\ CellsAt(m.name_at, m.name_len) = names[x]
  /\ m.uncomp_size = Len(data[x]) /\ m.crc32 = data[x]
  /\ CellsAt(m.data_at, m.comp_size) =
       IF m.method = "STORED" THEN data[x] ELSE Deflated(data[x], m.comp_size)
  /\ mtimes[x].tm_year <= 207 =>
       dos2ctime(m.mod) = [mtimes[x] EXCEPT !.tm_sec = @ - (@ % 2)]

(* Reading an archive that zip_write wrote gives its members back, in      *)
(* order, with their data and, up to the year 2107, their time to an even  *)
(* second, even when a stored file or the comment holds headers of its     *)
(* own; unless the comment ends like an end record, which find_eocdr then  *)
(* takes for the archive's.                                                *)
RoundTrip ==
  created =>
    /\ w # "assert"
    /\ w = "saved" /\ ~Lookalike(comment) =>
         /\ r # "false"
         /\ r # "find" => comment_len = Len(comment)
         /\ r = "iterated" =>
              Len(members) = num_memb /\ \A x \in 1 .. num_memb : IsMember(members[x], x)
=============================================================================
