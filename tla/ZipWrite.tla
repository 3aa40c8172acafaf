------------------------------ MODULE ZipWrite ------------------------------
(***************************************************************************)
(* zip_write (zip.c): local headers and data, then a central directory     *)
(* made by reading the local headers back, then the end record, all in a   *)
(* buffer of zip_max_size cells.                                           *)
(***************************************************************************)
EXTENDS ZipFormat

CONSTANTS
  Names,      \* file names: sequences of cells
  Contents,   \* file contents
  Comments,   \* comments; <<>> for none
  Times,      \* modification times, as local times
  MaxMembers  \* bound on the number of files

(* A struct tm: the fields localtime gives and mktime takes.  Years count  *)
(* from 1900; to shift a negative number, as a time before 1980 makes      *)
(* ctime2dos do, is undefined.                                             *)
LocalTime ==
  [tm_sec : 0 .. 59, tm_min : 0 .. 59, tm_hour : 0 .. 23,
   tm_mday : 1 .. 31, tm_mon : 0 .. 11, tm_year : {y \in Nat : y >= 80}]
Uint16 == {x \in Nat : x < 65536}
DosTime == [time : Uint16, date : Uint16]

(* The fields of the headers that are written.                             *)
LocalFields ==
  [method : {"STORED", "DEFLATED"}, encrypted : BOOLEAN, mod : DosTime, crc32 : Contents,
   comp_size : Nat, uncomp_size : Nat, name_len : Nat, extra_len : Nat]
CentralFields ==
  [method : {"STORED", "DEFLATED"}, encrypted : BOOLEAN, mod : DosTime, crc32 : Contents,
   comp_size : Nat, uncomp_size : Nat, name_len : Nat, extra_len : Nat, comment_len : Nat,
   disk_nbr_start : Nat, nul_in_name : BOOLEAN, lfh_offset : Nat]
EndFields ==
  [disk_nbr : Nat, cd_start_disk : Nat, disk_cd_entries : Nat, cd_entries : Nat,
   cd_size : Nat, cd_offset : Nat]

ASSUME WriteAssumption ==
  /\ \A s \in Names \cup Contents \cup Comments : s \in Seq(Range(s))
  /\ Times \subseteq LocalTime /\ MaxMembers \in Nat
  /\ NONE \notin LocalFields \cup CentralFields \cup [fields : EndFields, comment_len : Nat]

VARIABLES
  names, data, mtimes, comment,   \* the arguments
  dst, w,                         \* the buffer; the place in the function
  p, i, lfh_offset, cd_offset,
  high                            \* the end of the part of dst that has been written

args == <<names, data, mtimes, comment>>
writeVars == <<args, dst, w, p, i, lfh_offset, cd_offset, high>>

num_memb == Len(names)

zip_max_size_OneName ==   \* mutant: the name is counted once
  IF Len(comment) > UINT16_MAX \/ \E x \in 1 .. num_memb : Len(names[x]) > UINT16_MAX THEN 0
  ELSE LET total == EOCDR_BASE_SZ + Len(comment)
             + SumFunction([x \in 1 .. num_memb |-> CFH_BASE_SZ + LFH_BASE_SZ
                            + Len(names[x]) + Len(data[x])])
       IN IF total > UINT32_MAX THEN 0 ELSE total
zip_max_size ==
  IF Len(comment) > UINT16_MAX \/ \E x \in 1 .. num_memb : Len(names[x]) > UINT16_MAX THEN 0
  ELSE LET total == EOCDR_BASE_SZ + Len(comment)
             + SumFunction([x \in 1 .. num_memb |-> CFH_BASE_SZ + LFH_BASE_SZ
                            + 2 * Len(names[x]) + Len(data[x])])
       IN IF total > UINT32_MAX THEN 0 ELSE total

WriteInit ==
  /\ \E m \in 0 .. MaxMembers :
       /\ names \in [1 .. m -> Names] /\ data \in [1 .. m -> Contents]
       /\ mtimes \in [1 .. m -> Times]
  /\ comment \in Comments
  /\ zip_max_size # 0      \* hwzip.c:250 gives up otherwise
  /\ dst = [x \in 1 .. zip_max_size |-> UNINIT]
  /\ w = "local" /\ p = 0 /\ i = 1 /\ lfh_offset = 0 /\ cd_offset = 0 /\ high = 0

-----------------------------------------------------------------------------
(* dst after cells are written at offset; what falls outside is lost.      *)
Put(mem, offset, cells) ==
  [x \in DOMAIN mem |-> IF x \in offset + 1 .. offset + Len(cells) THEN cells[x - offset] ELSE mem[x]]

(* What hwdeflate leaves: comp_sz cells of its output.  When it fails, or  *)
(* saves nothing, all its room may be filled, and memcpy overwrites it.    *)
Deflated(content, comp_sz) == [x \in 1 .. comp_sz |-> <<"deflated", <<content, x>>>>]
Accepted(ok, comp_sz, size) == ok /\ comp_sz < size

(* Three fields side by side in 16 bits: five bits, then n values, then    *)
(* the rest.  That mktime undoes localtime is taken for granted            *)
(* (not so in the hour that a change of the clocks repeats).               *)
uint16(x) == x % 65536
Pack(a, b, c, n) == uint16(a + 32 * (b + n * c))
Low(x) == x % 32
Middle(x, n) == (x \div 32) % n
High(x, n) == (x \div 32) \div n
ctime2dos(t) ==
  [time |-> Pack(t.tm_sec \div 2, t.tm_min, t.tm_hour, 64),
   date |-> Pack(t.tm_mday, t.tm_mon + 1, t.tm_year - 80, 16)]
dos2ctime(d) ==
  [tm_sec |-> 2 * Low(d.time), tm_min |-> Middle(d.time, 64), tm_hour |-> High(d.time, 64),
   tm_mday |-> Low(d.date), tm_mon |-> Middle(d.date, 16) - 1, tm_year |-> High(d.date, 16) + 80]

WriteLocal ==
  /\ w = "local" /\ i <= num_memb
  /\ LET size == Len(data[i])
         data_dst == p + LFH_BASE_SZ + Len(names[i])
     IN \E ok \in BOOLEAN : \E comp_sz \in 1 .. size \cup {0} :
          /\ ok => comp_sz >= 1 \* no block is shorter than its three header bits
          /\ ~ok => comp_sz = 0
          /\ LET deflated == Accepted(ok, comp_sz, size)
                 body == IF deflated THEN Deflated(data[i], comp_sz) ELSE data[i]
                 lfh == [method |-> IF deflated THEN "DEFLATED" ELSE "STORED",
                         encrypted |-> FALSE, mod |-> ctime2dos(mtimes[i]), crc32 |-> data[i],
                         comp_size |-> Len(body), uncomp_size |-> size,
                         name_len |-> Len(names[i]), extra_len |-> 0]
             IN /\ dst' = Put(Put(Put(dst, data_dst, Deflated(data[i], size)), data_dst, body),
                              p, LocalHeader(lfh) \o names[i])
                /\ p' = p + LfhSize(lfh) + lfh.comp_size
                /\ high' = Max({high, data_dst + size})
  /\ i' = i + 1
  /\ UNCHANGED <<args, w, lfh_offset, cd_offset>>

LocalEnds ==
  /\ w = "local" /\ i > num_memb
  /\ cd_offset' = p /\ lfh_offset' = 0 /\ i' = 1 /\ w' = "central"
  /\ UNCHANGED <<args, dst, p, high>>

(* The header is read from dst without a limit; NDEBUG builds do not look  *)
(* at the result, so that it has to be a header.                           *)
NextLfh_NoName(lfh) == lfh_offset + LFH_BASE_SZ + lfh.comp_size   \* mutant: the name is not stepped over
NextLfh(lfh) == lfh_offset + LFH_BASE_SZ + lfh.name_len + lfh.comp_size

WriteCentral ==
  /\ w = "central" /\ i <= num_memb
  /\ LET lfh == HeaderAt(dst, "LFH", LFH_BASE_SZ, lfh_offset)
     IN IF lfh = NONE THEN w' = "assert" /\ UNCHANGED <<dst, p, i, lfh_offset, high>>
        ELSE LET name == SubSeq(dst, lfh_offset + LFH_BASE_SZ + 1,
                                     lfh_offset + LFH_BASE_SZ + lfh.name_len)
                 cfh == [method |-> lfh.method, encrypted |-> lfh.encrypted, mod |-> lfh.mod,
                         crc32 |-> lfh.crc32, comp_size |-> lfh.comp_size,
                         uncomp_size |-> lfh.uncomp_size, name_len |-> lfh.name_len,
                         extra_len |-> 0, comment_len |-> 0, disk_nbr_start |-> 0,
                         nul_in_name |-> FALSE,   \* names are C strings
                         lfh_offset |-> lfh_offset]
             IN /\ dst' = Put(dst, p, CentralHeader(cfh) \o name)
                /\ p' = p + CfhSize(cfh)
                /\ high' = Max({high, p'})
                /\ lfh_offset' = NextLfh(lfh) /\ i' = i + 1
                /\ UNCHANGED w
  /\ UNCHANGED <<args, cd_offset>>

WriteEnd ==
  /\ w = "central" /\ i > num_memb
  /\ LET fields == [disk_nbr |-> 0, cd_start_disk |-> 0, disk_cd_entries |-> num_memb,
                    cd_entries |-> num_memb, cd_size |-> p - cd_offset, cd_offset |-> cd_offset]
     IN dst' = Put(dst, p, EndRecord(fields, Len(comment)) \o comment)
  /\ p' = p + EOCDR_BASE_SZ + Len(comment)
  /\ high' = Max({high, p'})
  /\ w' = "written"
  /\ UNCHANGED <<args, i, lfh_offset, cd_offset>>

WriteNext == WriteLocal \/ LocalEnds \/ WriteCentral \/ WriteEnd

-----------------------------------------------------------------------------
(* Nothing is ever written past the size the caller was told to allocate,  *)
(* however the members are stored ("guaranteed", zip.h:54): not even the   *)
(* output of hwdeflate that is thrown away.                                *)
FitsMaxSize == p <= high /\ high <= zip_max_size
=============================================================================
