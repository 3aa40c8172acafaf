----------------------------- MODULE Converter -----------------------------
(***************************************************************************)
(* convert.py: an archive is unpacked into the current directory by one    *)
(* tool, the directory f with the archive's name is packed by another, and *)
(* f is removed.  The tools are not part of the repository: each may be    *)
(* missing, do its work, or fail after a part of it, and run() looks at    *)
(* none of their exit statuses.  A tool that meets a file it has to create *)
(* asks the user whether to replace it.                                    *)
(*                                                                         *)
(* Files are names below f.  Members that lie outside of f, which is all   *)
(* of them when the archive is in another directory, are in no set here:   *)
(* nothing is done with them after they are unpacked.                      *)
(***************************************************************************)
EXTENDS Naturals

CONSTANT Files

VARIABLES
  mode, installed,   \* "27z" or "2zip"; the tools there are
  stage,
  members,           \* the files below f in the source archive
  f_kind,            \* what f names: nothing, a file or a directory
  content,           \* the files in it: none, the user's own, or the archive's
  target,            \* the files in the archive that is made, which may exist already
  initially, held,   \* content before the run, and after unpacking
  packing            \* how the second tool ended

disk == <<f_kind, content, target>>
constant == <<mode, installed, members, initially>>
converterVars == <<constant, stage, disk, held, packing>>

Absent == [e \in Files |-> "none"]

ConverterInit ==
  /\ mode = "" /\ installed \in SUBSET {"unzip", "7za", "zip"}
  /\ stage = "mode" /\ members \in SUBSET Files
  /\ f_kind \in {"absent", "file", "dir"}
  /\ content \in [Files -> {"none", "own"}]
  /\ f_kind # "dir" => content = Absent
  /\ target \in [Files -> {"none", "earlier"}]
  /\ initially = content /\ held = content /\ packing = "not run"

(* The questions: a mode that is neither of the two, and a path that is no *)
(* file, end the program.                                                  *)
EnterMode ==
  /\ stage = "mode"
  /\ \/ mode' \in {"27z", "2zip"} /\ stage' = "path"
     \/ stage' = "exit1" /\ UNCHANGED mode
  /\ UNCHANGED <<installed, members, initially, disk, held, packing>>

EnterPath ==
  /\ stage = "path" /\ stage' \in {"unpack", "exit1"}
  /\ UNCHANGED <<constant, disk, held, packing>>

(* subprocess.run raises when there is no such tool.                       *)
Tool == IF stage = "unpack" THEN IF mode = "27z" THEN "unzip" ELSE "7za"
                           ELSE IF mode = "27z" THEN "7za" ELSE "zip"
ToolMissing ==
  /\ stage \in {"unpack", "pack"} /\ Tool \notin installed
  /\ stage' = "exit1" /\ UNCHANGED <<constant, disk, held, packing>>

AfterUnpack_Remove == "remove"   \* mutant: f is removed before it is packed
AfterUnpack == "pack"

(* Any of the members may come out, all of them when the tool succeeds     *)
(* unless the user keeps a file of their own.  None can where f is a file. *)
Unpack ==
  /\ stage = "unpack" /\ Tool \in installed
  /\ IF f_kind = "file" THEN UNCHANGED <<f_kind, content>>
     ELSE \E some \in SUBSET members :
            /\ content' = [e \in Files |-> IF e \in some THEN "archived" ELSE content[e]]
            /\ f_kind' \in {f_kind} \cup (IF members = {} THEN {} ELSE {"dir"})
            /\ some # {} => f_kind' = "dir"
  /\ held' = content' /\ stage' = AfterUnpack
  /\ UNCHANGED <<constant, target, packing>>

(* The tools add to an archive that is there.  One that fails may have     *)
(* added some of the files; where there is nothing to add, both fail.      *)
Added(some) == [e \in Files |-> IF e \in some /\ content[e] # "none" THEN content[e] ELSE target[e]]
Repack ==
  /\ stage = "pack" /\ Tool \in installed
  /\ \/ f_kind # "absent" /\ target' = Added(Files) /\ packing' = "succeeded"
     \/ (\E some \in SUBSET Files : target' = Added(some)) /\ packing' = "failed"
  /\ stage' = "remove"
  /\ UNCHANGED <<constant, f_kind, content, held>>

(* shutil.rmtree raises when f is no directory, or at the first entry it   *)
(* cannot remove.                                                          *)
RemoveDirectory ==
  /\ stage = "remove"
  /\ \/ f_kind = "dir" /\ f_kind' = "absent" /\ content' = Absent /\ stage' = "exit0"
     \/ /\ stage' = "exit1" /\ UNCHANGED f_kind
        /\ IF f_kind # "dir" THEN UNCHANGED content
           ELSE \E some \in SUBSET Files :
                  content' = [e \in Files |-> IF e \in some THEN "none" ELSE content[e]]
  /\ UNCHANGED <<constant, target, held, packing>>

ConverterNext == EnterMode \/ EnterPath \/ ToolMissing \/ Unpack \/ Repack \/ RemoveDirectory

ConverterSpec == ConverterInit /\ [][ConverterNext]_converterVars

-----------------------------------------------------------------------------
(* A file is gone from f only after the second tool was run on it, and     *)
(* unless that tool failed it is then in the new archive with the content  *)
(* it had in f; a program that reports success leaves no f behind.         *)
NothingLostIfPacked ==
  /\ \A e \in Files :
       held[e] # "none" /\ content[e] = "none" =>
         /\ packing # "not run"
         /\ packing = "succeeded" => target[e] = held[e]
  /\ stage = "exit0" => f_kind = "absent"

(* convert.py calls what it removes the "temp directory": the user's own   *)
(* files, which were there before the run, would stay.                     *)
RemovesTempOnly == \A e \in Files : initially[e] = "own" => content[e] # "none"
=============================================================================
