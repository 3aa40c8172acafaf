------------------------------- MODULE MCZip -------------------------------
(* A small instance of Zip for TLC.                                        *)
EXTENDS Zip

Text(vs) == [x \in DOMAIN vs |-> Byte(vs[x])]
Eocdr(disk, entries, cd) ==
  [disk_nbr |-> disk, cd_start_disk |-> 0, disk_cd_entries |-> entries, cd_entries |-> entries,
   cd_size |-> 0, cd_offset |-> cd]
Cfh(method, comp, uncomp, name, extra, com, lfh) ==
  [method |-> method, encrypted |-> FALSE, mod |-> [time |-> 0, date |-> 33], crc32 |-> <<>>, comp_size |-> comp,
   uncomp_size |-> uncomp, name_len |-> name, extra_len |-> extra, comment_len |-> com,
   disk_nbr_start |-> 0, lfh_offset |-> lfh, nul_in_name |-> FALSE]
Lfh(name, extra) == [name_len |-> name, extra_len |-> extra]

MCNames == {Text(<<1>>), Text(<<2, 1>>)}
(* Nothing, something that cannot shrink, something that can, and a file   *)
(* that is an archive: its end record reaches to the end of some archives. *)
MCContents == {<<>>, Text(<<3>>), Text(<<4, 4, 4>>), EndRecord(Eocdr(0, 0, 0), 6)}
(* The last two hold an end record, as text can: no field is zero.         *)
MCComments ==
  {<<>>, Text(<<5>>), EndRecord(Eocdr(1, 1, 1), 2) \o Text(<<5>>),
   EndRecord(Eocdr(1, 1, 1), 1) \o Text(<<5>>)}
(* The last second the DOS format has a year for, and a time beyond it.    *)
MCTimes ==
  {[tm_sec |-> 59, tm_min |-> 59, tm_hour |-> 23, tm_mday |-> 31, tm_mon |-> 11, tm_year |-> 207],
   [tm_sec |-> 7, tm_min |-> 30, tm_hour |-> 4, tm_mday |-> 29, tm_mon |-> 1, tm_year |-> 208]}

(* In archives from elsewhere: what zip_read refuses, a directory that     *)
(* starts at 0, at 1 or behind the end, and members whose entries and      *)
(* headers overlap each other, or reach the end of the archive, or pass it. *)
MCAnyEocdr ==
  {NONE, [fields |-> Eocdr(1, 1, 0), comment_len |-> 0]}
  \cup {[fields |-> Eocdr(0, entries, cd), comment_len |-> 1] : entries \in 0 .. 2, cd \in {0, 1, 9}}
MCStored == Cfh("STORED", 1, 1, 0, 0, 0, 0)
MCAnyCfh ==
  {NONE, Cfh("STORED", 1, 2, 0, 0, 0, 0), Cfh("IMPLODED", 1, 1, 0, 0, 0, 0),
   [MCStored EXCEPT !.encrypted = TRUE], [MCStored EXCEPT !.disk_nbr_start = 1],
   [MCStored EXCEPT !.nul_in_name = TRUE]}
  \cup {Cfh("STORED", size, size, 0, 0, com, 1) : size \in 0 .. 2, com \in 0 .. 1}
  \cup {Cfh("DEFLATED", 1, 4, name, extra, 1, lfh) : name, extra \in 0 .. 1, lfh \in {2, 9}}
MCAnyLfh == {NONE, Lfh(0, 0), Lfh(1, 0), Lfh(1, 2)}
MCSrcLens == {1, 6, 8}
=============================================================================
