------------------------------- MODULE Hwzip -------------------------------
(***************************************************************************)
(* The program (hwzip.c): list, extract and create over a small file       *)
(* system.  Any call of the operating system may fail, and ends the        *)
(* program.  An archive is the sequence of its members: that zip_read      *)
(* gives back what zip_write wrote is module Zip's subject.                *)
(*                                                                         *)
(* A file is a pair of a kind and a value.                                 *)
(***************************************************************************)
EXTENDS Integers, Sequences, SequencesExt, FiniteSetsExt

CONSTANTS
  Plain, InDir,     \* file names without and with a slash
  Data,             \* contents that are no archive
  Size,             \* the size of each of them
  Foreign,          \* archives made by other programs: sequences of members
  MaxFiles,         \* bound on the files named on a command line
  MaxCommands,      \* bound on the number of commands
  UINT32_MAX,
  UINT16            \* 2 to the width of the number of files (65536)

Names == Plain \cup InDir
MISSING == <<"missing", 0>>
PARTIAL == <<"partial", 0>>      \* opened for writing, and not all of it written
DataFile(c) == <<"data", c>>
ZipFile(members) == <<"zip", members>>
NoFile == <<"none", 0>>

ASSUME HwzipAssumption ==
  /\ Plain \cap InDir = {} /\ Size \in [Data -> Nat]
  /\ MaxFiles \in Nat /\ MaxCommands \in Nat /\ UINT32_MAX \in Nat /\ UINT16 \in Nat \ {0}

(* What can be wrong with a member: inflation fails, or the checksum is     *)
(* another.  The content of a member may be an archive.                     *)
Damage == {"none", "deflate", "crc"}
MembersOf(files) == Seq([name : Names, is_dir : BOOLEAN, damage : Damage, body : files])
ASSUME ForeignAssumption ==
  \A a \in Foreign : a \in MembersOf({DataFile(c) : c \in Data})

VARIABLES
  fs,                    \* the files
  commands,              \* how many commands have been started
  cmd, zipname, args,    \* the command line
  before,                \* the files when it was started
  pc, n, i,              \* the place in the program; the number of files; the file or member
  file_data, archive,    \* what has been read of the inputs; the members
  out_name, out          \* write_file's arguments

line == <<commands, cmd, zipname, args, before>>
vars == <<fs, line, pc, n, i, file_data, archive, out_name, out>>

Init ==
  /\ fs \in [Names -> {MISSING} \cup {DataFile(c) : c \in Data} \cup {ZipFile(a) : a \in Foreign}]
  /\ zipname = (CHOOSE z \in Names : TRUE)
  /\ commands = 0 /\ cmd = "none" /\ args = <<>> /\ before = fs
  /\ pc = "exit0" /\ n = 0 /\ i = 0 /\ file_data = <<>> /\ archive = <<>>
  /\ out_name = zipname /\ out = NoFile

Exited == pc \in {"exit0", "exit1"}
Exit1 == pc' = "exit1" /\ UNCHANGED <<n, i, file_data, archive, out_name, out>>

-----------------------------------------------------------------------------
(* main.  The number of files is cut to 16 bits.                           *)
Start(c, z, files) ==
  /\ Exited /\ commands < MaxCommands
  /\ commands' = commands + 1
  /\ cmd' = c /\ zipname' = z /\ args' = files /\ before' = fs
  /\ n' = Len(files) % UINT16 /\ i' = 1 /\ file_data' = <<>> /\ archive' = <<>>
  /\ out_name' = z /\ out' = NoFile
  /\ pc' = (IF c = "create" THEN "inputs" ELSE "load")
  /\ UNCHANGED fs

Command ==
  \/ \E z \in Names : \E files \in SeqOf(Names, MaxFiles) : Start("create", z, files)
  \/ \E c \in {"extract", "list"} : \E z \in Names : Start(c, z, <<>>)

(* Any call of the operating system may fail: fopen, fread, fclose of a    *)
(* file that is read, malloc.                                              *)
SystemError ==
  /\ pc \in {"inputs", "load", "pack"}
  /\ Exit1 /\ UNCHANGED <<fs, line>>

SizeOf(f) == IF f[1] = "data" THEN Size[f[2]] ELSE 1

Unreadable_Unchecked(f) == SizeOf(f) >= UINT32_MAX   \* mutant: fopen's result is not checked
Unreadable(f) == f = MISSING \/ SizeOf(f) >= UINT32_MAX

(* create_zip: the inputs are read one after the other,                    *)
ReadInput ==
  /\ pc = "inputs" /\ i <= n
  /\ LET f == fs[args[i]]
     IN IF Unreadable(f) THEN Exit1
        ELSE file_data' = Append(file_data, f) /\ i' = i + 1
             /\ UNCHANGED <<pc, n, archive, out_name, out>>
  /\ UNCHANGED <<fs, line>>

InputsRead ==
  /\ pc = "inputs" /\ i > n
  /\ pc' = "pack"
  /\ UNCHANGED <<fs, line, n, i, file_data, archive, out_name, out>>

(* packed in memory, if they fit a ZIP file,                               *)
TooLarge == MapThenSumSet(LAMBDA x : SizeOf(file_data[x]), 1 .. n) > UINT32_MAX
Pack ==
  /\ pc = "pack"
  /\ IF TooLarge THEN Exit1
     ELSE /\ archive' = [x \in 1 .. n |-> [name |-> args[x], is_dir |-> FALSE,
                                           damage |-> "none", body |-> file_data[x]]]
          /\ out_name' = zipname /\ out' = ZipFile(archive')
          /\ pc' = "open"
          /\ UNCHANGED <<n, i, file_data>>
  /\ UNCHANGED <<fs, line>>

(* and written.  write_file: fopen empties the file, or fails;             *)
OpenOutput ==
  /\ pc = "open"
  /\ \/ /\ fs' = [fs EXCEPT ![out_name] = PARTIAL] /\ pc' = "write"
        /\ UNCHANGED <<n, i, file_data, archive, out_name, out>>
     \/ Exit1 /\ UNCHANGED fs
  /\ UNCHANGED line

(* fwrite or fclose may fail with some or all of it written.               *)
NextTurn == IF cmd = "create" THEN "exit0" ELSE "member"
WriteOutput ==
  /\ pc = "write"
  /\ \/ /\ fs' = [fs EXCEPT ![out_name] = out]
        /\ pc' = NextTurn /\ i' = i + 1
        /\ UNCHANGED <<n, file_data, archive, out_name, out>>
     \/ Exit1 /\ fs' \in {fs, [fs EXCEPT ![out_name] = out]}
  /\ UNCHANGED line

-----------------------------------------------------------------------------
(* extract_zip and list_zip: the whole archive is in memory before the     *)
(* first member is written.                                                *)
LoadArchive ==
  /\ pc = "load"
  /\ IF fs[zipname][1] # "zip" THEN Exit1   \* fopen or zip_read fails
     ELSE archive' = fs[zipname][2] /\ pc' = "member"
          /\ UNCHANGED <<n, i, file_data, out_name, out>>
  /\ UNCHANGED <<fs, line>>

Skipped(m) == m.is_dir \/ m.name \in InDir
(* inflate_member fails, or the checksum is another.                       *)
Damaged_NoCrc(m) == m.damage = "deflate"   \* mutant: the checksum is not compared
Damaged(m) == m.damage \in {"deflate", "crc"}

ExtractMember ==
  /\ pc = "member" /\ i <= Len(archive) /\ cmd = "extract"
  /\ LET m == archive[i]
     IN IF Skipped(m) THEN i' = i + 1 /\ UNCHANGED <<pc, n, file_data, archive, out_name, out>>
        ELSE IF Damaged(m) THEN Exit1
        ELSE /\ out_name' = m.name /\ out' = m.body /\ pc' = "open"
             /\ UNCHANGED <<n, i, file_data, archive>>
  /\ UNCHANGED <<fs, line>>

ListMember ==
  /\ pc = "member" /\ i <= Len(archive) /\ cmd = "list"
  /\ i' = i + 1
  /\ UNCHANGED <<fs, line, pc, n, file_data, archive, out_name, out>>

MembersEnd ==
  /\ pc = "member" /\ i > Len(archive)
  /\ pc' = "exit0"
  /\ UNCHANGED <<fs, line, n, i, file_data, archive, out_name, out>>

Next ==
  \/ Command \/ SystemError \/ ReadInput \/ InputsRead \/ Pack \/ OpenOutput \/ WriteOutput
  \/ LoadArchive \/ ExtractMember \/ ListMember \/ MembersEnd

Spec == Init /\ [][Next]_vars

-----------------------------------------------------------------------------
(* The file f after the first k members have been extracted in order.      *)
Extracted(k, f) ==
  LET from == {x \in 1 .. k : archive[x].name = f /\ ~Skipped(archive[x])}
  IN IF from = {} THEN before[f] ELSE archive[Max(from)].body

(* At any point of an extraction, and after it has failed, the files are   *)
(* those of the members before the current one, each whole and verified,   *)
(* a later member over an earlier one of the same name, and the current    *)
(* one's may be partial; the archive's own file counts as another.  The    *)
(* program reports success only when every member was good.                *)
ExtractsInOrder ==
  cmd = "extract" /\ archive # <<>> =>
    /\ \A f \in Names :
         \/ fs[f] = Extracted(i - 1, f)
         \/ /\ i <= Len(archive) /\ f = archive[i].name /\ ~Skipped(archive[i])
            /\ \/ fs[f] = PARTIAL /\ pc \in {"write", "exit1"}
               \/ fs[f] = Extracted(i, f) /\ pc = "exit1"
    /\ \A x \in 1 .. i - 1 : Skipped(archive[x]) \/ archive[x].damage = "none"
    /\ pc = "exit0" => i > Len(archive)

(* The archive's file keeps what it held until every input has been read   *)
(* and packed, also when it is one of the inputs; no other file changes.   *)
(* Success means that the first n files named are in it as they were.      *)
CreatesFromInputs ==
  cmd = "create" =>
    /\ \A f \in Names \ {zipname} : fs[f] = before[f]
    /\ fs[zipname] # before[zipname] => \A x \in 1 .. n : before[args[x]] # MISSING
    /\ pc \in {"inputs", "pack", "open"} => fs = before
    /\ pc = "exit0" =>
         fs[zipname] = ZipFile([x \in 1 .. n |-> [name |-> args[x], is_dir |-> FALSE,
                                                  damage |-> "none", body |-> before[args[x]]]])
=============================================================================
