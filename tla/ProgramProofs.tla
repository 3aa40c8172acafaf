--------------------------- MODULE ProgramProofs ---------------------------
(***************************************************************************)
(* What the program leaves in the files, for any names, contents and       *)
(* archives and any number of commands, wherever it fails; and what the    *)
(* converter leaves.                                                       *)
(***************************************************************************)
EXTENDS Hwzip, Converter, TLAPS

(* The archive that create makes, of the inputs as they were.              *)
NewArchive ==
  ZipFile([x \in 1 .. n |-> [name |-> args[x], is_dir |-> FALSE,
                             damage |-> "none", body |-> before[args[x]]]])
InputsThere == \A x \in 1 .. n : before[args[x]] # MISSING
OthersUntouched == \A f \in Names \ {zipname} : fs[f] = before[f]

FilesInv == fs = [f \in Names |-> fs[f]] /\ n \in Nat

CreateInv == cmd = "create" =>
  /\ zipname \in Names
  /\ pc \in {"inputs", "pack", "open", "write", "exit0", "exit1"}
  /\ pc = "inputs" =>
       /\ fs = before /\ i \in 1 .. n + 1
       /\ \E S : file_data \in Seq(S)
       /\ Len(file_data) = i - 1
       /\ \A x \in 1 .. i - 1 : file_data[x] = before[args[x]] /\ before[args[x]] # MISSING
  /\ pc = "pack" =>
       /\ fs = before
       /\ \A x \in 1 .. n : file_data[x] = before[args[x]] /\ before[args[x]] # MISSING
  /\ pc \in {"open", "write"} => out_name = zipname /\ out = NewArchive /\ InputsThere
  /\ pc = "open" => fs = before
  /\ pc \in {"write", "exit0", "exit1"} =>
       /\ OthersUntouched
       /\ fs[zipname] = before[zipname] \/ InputsThere
  /\ pc = "exit0" => fs[zipname] = NewArchive

CInv == FilesInv /\ CreateInv

-----------------------------------------------------------------------------
USE HwzipAssumption

LEMMA AppendAny ==
  ASSUME NEW S, NEW s \in Seq(S), NEW e
  PROVE  /\ Append(s, e) \in Seq(S \cup {e}) /\ Len(Append(s, e)) = Len(s) + 1
         /\ Len(s) \in Nat
         /\ \A x \in 1 .. Len(s) : Append(s, e)[x] = s[x]
         /\ Append(s, e)[Len(s) + 1] = e
OBVIOUS

LEMMA LenOfArgs == \A files \in SeqOf(Names, MaxFiles) : Len(files) \in Nat
<1>1. ASSUME NEW m \in 0 .. MaxFiles, NEW files \in [1 .. m -> Names]
      PROVE  Len(files) \in Nat
  OBVIOUS
<1>2. QED
  BY <1>1 DEF SeqOf

LEMMA InitCInv == Init => CInv
BY DEF Init, CInv, FilesInv, CreateInv

LEMMA StartCInv ==
  ASSUME CInv, Command
  PROVE  CInv'
<1>1. PICK c \in {"create", "extract", "list"}, z \in Names, files \in SeqOf(Names, MaxFiles) \cup {<<>>} :
        Start(c, z, files)
  BY DEF Command
<1>2. /\ cmd' = c /\ zipname' = z /\ args' = files /\ before' = fs /\ fs' = fs
      /\ n' = Len(files) % UINT16 /\ i' = 1 /\ file_data' = <<>>
      /\ c = "create" => pc' = "inputs"
  BY <1>1 DEF Start
<1>3. n' \in Nat
  BY <1>2, LenOfArgs
<1>4. file_data' \in Seq({}) /\ Len(file_data') = 0 /\ i' \in 1 .. n' + 1
  BY <1>2, <1>3
<1>5. FilesInv'
  BY <1>2, <1>3 DEF CInv, FilesInv
<1>6. CreateInv'
  BY <1>2, <1>4 DEF CreateInv
<1>7. QED
  BY <1>5, <1>6 DEF CInv

(* Not starting a command: the command line and the number of files stay.  *)
LEMMA NextCInv == CInv /\ [Next]_vars => CInv'
<1> SUFFICES ASSUME CInv, [Next]_vars PROVE CInv'
  OBVIOUS
<1> USE DEF CInv, FilesInv
<1>1. CASE Command
  BY <1>1, StartCInv
<1>2. CASE SystemError
  BY <1>2 DEF SystemError, Exit1, line, CreateInv, OthersUntouched
<1>3. CASE ReadInput
  <2>1. pc = "inputs" /\ i <= n /\ UNCHANGED <<fs, line>>
    BY <1>3 DEF ReadInput
  <2>2. CASE Exit1
    BY <2>1, <2>2 DEF Exit1, line, CreateInv, OthersUntouched
  <2>3. CASE ~Unreadable(fs[args[i]])
    <3>1. /\ file_data' = Append(file_data, fs[args[i]]) /\ i' = i + 1
          /\ UNCHANGED <<pc, n>> /\ fs[args[i]] # MISSING
      BY <1>3, <2>3 DEF ReadInput, Unreadable
    <3>2. CASE cmd = "create"
      <4>1. PICK S : file_data \in Seq(S)
        BY <2>1, <3>2 DEF CreateInv
      <4>2. /\ fs = before /\ i \in 1 .. n /\ n \in Nat /\ Len(file_data) = i - 1 /\ zipname \in Names
            /\ \A x \in 1 .. i - 1 : file_data[x] = before[args[x]] /\ before[args[x]] # MISSING
        BY <2>1, <3>2 DEF CreateInv
      <4>3. /\ file_data' \in Seq(S \cup {fs[args[i]]}) /\ Len(file_data') = i
            /\ \A x \in 1 .. i - 1 : file_data'[x] = file_data[x]
            /\ file_data'[i] = fs[args[i]]
        BY <3>1, <4>1, <4>2, AppendAny
      <4>4. \A x \in 1 .. i : file_data'[x] = before[args[x]] /\ before[args[x]] # MISSING
        BY <3>1, <4>2, <4>3
      <4>5. i' - 1 = i /\ i' \in 1 .. n' + 1
        BY <3>1, <4>2
      <4>6. CreateInv'
        BY <2>1, <3>1, <3>2, <4>2, <4>3, <4>4, <4>5 DEF CreateInv, line
      <4>7. QED
        BY <2>1, <3>1, <4>6
    <3>3. CASE cmd # "create"
      BY <2>1, <3>1, <3>3 DEF CreateInv, line
    <3>4. QED
      BY <3>2, <3>3
  <2>4. QED
    BY <1>3, <2>2, <2>3 DEF ReadInput
<1>4. CASE InputsRead
  BY <1>4 DEF InputsRead, line, CreateInv
<1>5. CASE Pack
  <2>1. pc = "pack" /\ UNCHANGED <<fs, line>>
    BY <1>5 DEF Pack
  <2>2. CASE Exit1
    BY <2>1, <2>2 DEF Exit1, line, CreateInv, OthersUntouched
  <2>3. CASE ~TooLarge
    <3>1. /\ archive' = [x \in 1 .. n |-> [name |-> args[x], is_dir |-> FALSE,
                                           damage |-> "none", body |-> file_data[x]]]
          /\ out_name' = zipname /\ out' = ZipFile(archive') /\ pc' = "open" /\ n' = n
      BY <1>5, <2>3 DEF Pack
    <3>2. CASE cmd = "create"
      <4>1. /\ fs = before /\ zipname \in Names
            /\ \A x \in 1 .. n : file_data[x] = before[args[x]] /\ before[args[x]] # MISSING
        BY <2>1, <3>2 DEF CreateInv
      <4>2. out' = NewArchive
        BY <3>1, <4>1 DEF NewArchive
      <4>3. QED
        BY <2>1, <3>1, <4>1, <4>2 DEF CreateInv, NewArchive, InputsThere, line
    <3>3. CASE cmd # "create"
      BY <2>1, <3>1, <3>3 DEF CreateInv, line
    <3>4. QED
      BY <3>2, <3>3
  <2>4. QED
    BY <1>5, <2>2, <2>3 DEF Pack
<1>6. CASE OpenOutput
  BY <1>6 DEF OpenOutput, Exit1, line, CreateInv, NewArchive, InputsThere, OthersUntouched
<1>7. CASE WriteOutput
  BY <1>7 DEF WriteOutput, NextTurn, Exit1, line, CreateInv, NewArchive, InputsThere, OthersUntouched
<1>8. CASE LoadArchive
  BY <1>8 DEF LoadArchive, Exit1, line, CreateInv
<1>9. CASE ExtractMember \/ ListMember \/ MembersEnd
  BY <1>9 DEF ExtractMember, ListMember, MembersEnd, Exit1, line, CreateInv
<1>10. CASE UNCHANGED vars
  BY <1>10 DEF vars, line, CreateInv, NewArchive, InputsThere, OthersUntouched
<1>11. QED
  BY <1>1, <1>2, <1>3, <1>4, <1>5, <1>6, <1>7, <1>8, <1>9, <1>10 DEF Next

(* Creating an archive changes no file but that one, and that one only     *)
(* when every input was there; success means that it holds the inputs as   *)
(* they were when the program started (hwzip.c:218-279).                   *)
THEOREM CreatesOnlyTheArchive == Spec => []CreatesFromInputs
<1>1. CInv => CreatesFromInputs
  BY DEF CInv, CreateInv, CreatesFromInputs, NewArchive, InputsThere, OthersUntouched
<1>2. QED
  BY <1>1, InitCInv, NextCInv, PTL DEF Spec

-----------------------------------------------------------------------------
(* Files and archives keep their form, however they are nested: every file *)
(* is in a set W whose archives have members with files of W.              *)
Closed(W) == PARTIAL \in W /\ \A f \in W : f[1] = "zip" => f[2] \in MembersOf(W)
FormedIn(W) ==
  /\ Closed(W)
  /\ fs \in [Names -> W] /\ archive \in MembersOf(W)
  /\ args \in Seq(Names) /\ n \in 0 .. Len(args)
  /\ i \in Nat
  /\ file_data \in Seq(W)
  /\ pc = "inputs" => i \in 1 .. n + 1 /\ Len(file_data) = i - 1
  /\ pc = "pack" => Len(file_data) = n /\ i >= 1
  /\ pc = "member" => i >= 1
  /\ pc = "load" => i = 1 /\ zipname \in Names
  /\ pc \in {"open", "write"} => out \in W /\ i >= 1
FormInv == \E W : FormedIn(W)

LEMMA SeqGrows == ASSUME NEW A, NEW B, A \subseteq B, NEW s \in Seq(A) PROVE s \in Seq(B)
OBVIOUS

LEMMA MembersGrow == ASSUME NEW A, NEW B, A \subseteq B PROVE MembersOf(A) \subseteq MembersOf(B)
<1>1. [name : Names, is_dir : BOOLEAN, damage : Damage, body : A]
        \subseteq [name : Names, is_dir : BOOLEAN, damage : Damage, body : B]
  OBVIOUS
<1>2. QED
  BY <1>1, SeqGrows DEF MembersOf

LEMMA MemberForm ==
  ASSUME NEW W, NEW s \in MembersOf(W)
  PROVE  /\ Len(s) \in Nat
         /\ \A x \in 1 .. Len(s) : s[x].name \in Names /\ s[x].damage \in Damage /\ s[x].body \in W
<1>1. ASSUME NEW R, s \in Seq(R), NEW x \in 1 .. Len(s)
      PROVE  s[x] \in R
  BY <1>1
<1>2. Len(s) \in Nat
  BY DEF MembersOf
<1>3. \A x \in 1 .. Len(s) : s[x] \in [name : Names, is_dir : BOOLEAN, damage : Damage, body : W]
  BY <1>1 DEF MembersOf
<1>4. QED
  BY <1>2, <1>3

LEMMA InitFormInv == Init => FormInv
<1> SUFFICES ASSUME Init PROVE FormInv
  OBVIOUS
<1> DEFINE D == {DataFile(c) : c \in Data}
           W == {MISSING, PARTIAL} \cup D \cup {ZipFile(a) : a \in Foreign}
<1>1. ASSUME NEW f \in W, f[1] = "zip"
      PROVE  f[2] \in MembersOf(W)
  <2>1. f \notin {MISSING, PARTIAL} \cup D
    BY <1>1 DEF MISSING, PARTIAL, DataFile
  <2>2. PICK a \in Foreign : f = ZipFile(a)
    BY <2>1
  <2>3. f[2] \in MembersOf(D)
    BY <2>2, ForeignAssumption DEF ZipFile
  <2>4. QED
    BY <2>3, MembersGrow
<1>2. Closed(W)
  BY <1>1 DEF Closed
<1>3. fs \in [Names -> W] /\ args = <<>> /\ file_data = <<>> /\ archive = <<>> /\ n = 0 /\ i = 0
      /\ pc = "exit0"
  BY DEF Init
<1>4. archive \in MembersOf(W) /\ args \in Seq(Names) /\ Len(args) = 0 /\ file_data \in Seq(W)
  BY <1>3 DEF MembersOf
<1> HIDE DEF W
<1>5. FormedIn(W)
  BY <1>2, <1>3, <1>4 DEF FormedIn
<1>6. QED
  BY <1>5 DEF FormInv

LEMMA StartFormInv ==
  ASSUME FormInv, Command
  PROVE  FormInv'
<1>1. PICK W : FormedIn(W)
  BY DEF FormInv
<1>2. PICK c \in {"create", "extract", "list"}, z \in Names, files \in SeqOf(Names, MaxFiles) \cup {<<>>} :
        Start(c, z, files)
  BY DEF Command
<1>3. /\ zipname' = z /\ args' = files /\ fs' = fs
      /\ n' = Len(files) % UINT16 /\ i' = 1 /\ file_data' = <<>> /\ archive' = <<>>
      /\ pc' \in {"inputs", "load"}
  BY <1>2 DEF Start
<1>4. files \in Seq(Names)
  <2>1. ASSUME NEW m \in 0 .. MaxFiles, NEW s \in [1 .. m -> Names]
        PROVE  s \in Seq(Names)
    OBVIOUS
  <2>2. CASE files = <<>>
    BY <2>2
  <2>3. CASE files \in SeqOf(Names, MaxFiles)
    <3>1. PICK m \in 0 .. MaxFiles : files \in [1 .. m -> Names]
      BY <2>3 DEF SeqOf
    <3>2. QED
      BY <2>1, <3>1
  <2>4. QED
    BY <2>2, <2>3
<1>5. n' \in 0 .. Len(files)
  BY <1>3, <1>4
<1>6. archive' \in MembersOf(W) /\ file_data' \in Seq(W) /\ Len(file_data') = 0
  BY <1>3 DEF MembersOf
<1>7. FormedIn(W)'
  BY <1>1, <1>3, <1>4, <1>5, <1>6 DEF FormedIn, Closed
<1>8. QED
  BY <1>7 DEF FormInv

LEMMA PackFormInv ==
  ASSUME FormInv, Pack
  PROVE  FormInv'
<1>1. PICK W : FormedIn(W)
  BY DEF FormInv
<1>2. pc = "pack" /\ UNCHANGED <<fs, args>>
  BY DEF Pack, line
<1>3. CASE Exit1
  <2>1. FormedIn(W)'
    BY <1>1, <1>2, <1>3 DEF FormedIn, Closed, Exit1
  <2>2. QED
    BY <2>1 DEF FormInv
<1>4. CASE ~TooLarge
  <2>1. /\ archive' = [x \in 1 .. n |-> [name |-> args[x], is_dir |-> FALSE,
                                         damage |-> "none", body |-> file_data[x]]]
        /\ out' = ZipFile(archive') /\ pc' = "open" /\ UNCHANGED <<n, i, file_data>>
    BY <1>4 DEF Pack
  <2>2. PICK V : V = W \cup {ZipFile(archive')}
    OBVIOUS
  <2>3. archive' \in MembersOf(W)
    <3>1. n \in Nat /\ args \in Seq(Names) /\ n <= Len(args) /\ file_data \in Seq(W) /\ Len(file_data) = n
      BY <1>1, <1>2 DEF FormedIn
    <3>2. archive' \in [1 .. n -> [name : Names, is_dir : BOOLEAN, damage : Damage, body : W]]
      BY <2>1, <3>1 DEF Damage
    <3>3. ASSUME NEW R, NEW a \in [1 .. n -> R], n \in Nat
          PROVE  a \in Seq(R)
      BY <3>3
    <3>4. QED
      BY <3>1, <3>2, <3>3 DEF MembersOf
  <2>4. Closed(V)
    <3>1. MembersOf(W) \subseteq MembersOf(V)
      BY <2>2, MembersGrow
    <3>2. ZipFile(archive')[2] = archive'
      BY DEF ZipFile
    <3>3. QED
      BY <1>1, <2>2, <2>3, <3>1, <3>2 DEF FormedIn, Closed
  <2>5. file_data' \in Seq(V) /\ archive' \in MembersOf(V) /\ fs' \in [Names -> V] /\ out' \in V
    <3>1. W \subseteq V /\ out' \in V
      BY <2>1, <2>2
    <3>2. file_data' \in Seq(W) /\ fs' \in [Names -> W]
      BY <1>1, <1>2, <2>1 DEF FormedIn
    <3>3. file_data' \in Seq(V)
      BY <3>1, <3>2, SeqGrows
    <3>4. QED
      BY <3>1, <3>2, <3>3, <2>3, MembersGrow
  <2>6. i >= 1 /\ i \in Nat
    BY <1>1, <1>2 DEF FormedIn
  <2>7. FormedIn(V)'
    BY <1>1, <1>2, <2>1, <2>4, <2>5, <2>6 DEF FormedIn, Closed
  <2>8. QED
    BY <2>7 DEF FormInv
<1>5. QED
  BY <1>3, <1>4 DEF Pack

LEMMA NextFormInv == FormInv /\ [Next]_vars => FormInv'
<1> SUFFICES ASSUME FormInv, [Next]_vars PROVE FormInv'
  OBVIOUS
<1>1. CASE Command
  BY <1>1, StartFormInv
<1>2. CASE Pack
  BY <1>2, PackFormInv
<1>3. PICK W : FormedIn(W)
  BY DEF FormInv
<1> SUFFICES ASSUME ~Command, ~Pack PROVE FormedIn(W)'
  BY <1>1, <1>2 DEF FormInv
<1> USE <1>3 DEF FormedIn, Closed
<1>4. CASE SystemError
  BY <1>4 DEF SystemError, Exit1, line
<1>5. CASE ReadInput
  <2>1. pc = "inputs" /\ i <= n /\ UNCHANGED <<fs, args, n, archive, out>>
    BY <1>5 DEF ReadInput, line, Exit1
  <2>2. CASE Exit1
    BY <2>1, <2>2 DEF Exit1
  <2>3. CASE ~Unreadable(fs[args[i]])
    <3>1. file_data' = Append(file_data, fs[args[i]]) /\ i' = i + 1 /\ pc' = pc
      BY <1>5, <2>3 DEF ReadInput
    <3>2. fs[args[i]] \in W
      BY <2>1
    <3>3. file_data' \in Seq(W) /\ Len(file_data') = i
      BY <2>1, <3>1, <3>2
    <3>4. QED
      BY <2>1, <3>1, <3>3
  <2>4. QED
    BY <1>5, <2>2, <2>3 DEF ReadInput
<1>6. CASE InputsRead
  BY <1>6 DEF InputsRead, line
<1>7. CASE OpenOutput
  BY <1>7 DEF OpenOutput, Exit1, line
<1>8. CASE WriteOutput
  BY <1>8 DEF WriteOutput, NextTurn, Exit1, line
<1>9. CASE LoadArchive
  BY <1>9 DEF LoadArchive, Exit1, line
<1>10. CASE ExtractMember
  <2>1. pc = "member" /\ i \in 1 .. Len(archive) /\ UNCHANGED <<fs, args, n, file_data, archive>>
    BY <1>10 DEF ExtractMember, line, Exit1, MembersOf
  <2>2. archive[i].body \in W
    BY <2>1, MemberForm
  <2>3. QED
    BY <1>10, <2>1, <2>2 DEF ExtractMember, Exit1
<1>11. CASE ListMember \/ MembersEnd
  BY <1>11 DEF ListMember, MembersEnd, line
<1>12. CASE UNCHANGED vars
  BY <1>12 DEF vars, line
<1>13. QED
  BY <1>4, <1>5, <1>6, <1>7, <1>8, <1>9, <1>10, <1>11, <1>12 DEF Next

-----------------------------------------------------------------------------
(* The files after each number of members, as one value of the state.      *)
Stages == [k \in Nat |-> [f \in Names |-> Extracted(k, f)]]

Current ==
  /\ i <= Len(archive) /\ out_name = archive[i].name /\ out = archive[i].body
  /\ ~Skipped(archive[i]) /\ archive[i].damage = "none"

ExtractInv == cmd = "extract" =>
  /\ pc \in {"load", "member", "open", "write", "exit0", "exit1"}
  /\ i \in 1 .. Len(archive) + 1
  /\ pc = "load" => archive = <<>>
  /\ \A x \in 1 .. i - 1 : Skipped(archive[x]) \/ archive[x].damage = "none"
  /\ pc \in {"load", "member", "open", "exit0"} => \A f \in Names : fs[f] = Stages[i - 1][f]
  /\ pc \in {"open", "write"} => Current
  /\ pc = "write" => /\ fs[out_name] = PARTIAL
                     /\ \A f \in Names \ {out_name} : fs[f] = Stages[i - 1][f]
  /\ pc = "exit0" => i > Len(archive)
  /\ pc = "exit1" => \A f \in Names :
       \/ fs[f] = Stages[i - 1][f]
       \/ /\ i <= Len(archive) /\ f = archive[i].name /\ ~Skipped(archive[i])
          /\ fs[f] = PARTIAL \/ fs[f] = Stages[i][f]

LEMMA MaxIsLast ==
  ASSUME NEW k \in Nat, NEW S \in SUBSET (1 .. k)
  PROVE  Max(S \cup {k + 1}) = k + 1
<1> DEFINE T == S \cup {k + 1}
<1>1. \A y \in T : y \in Int /\ k + 1 >= y
  OBVIOUS
<1>2. \A x \in T : (\A y \in T : x >= y) => x = k + 1
  BY <1>1
<1>3. k + 1 \in T
  OBVIOUS
<1> HIDE DEF T
<1>4. Max(T) = k + 1
  BY <1>1, <1>2, <1>3 DEF Max
<1>5. QED
  BY <1>4 DEF T

LEMMA StageZero == \A f \in Names : Stages[0][f] = before[f]
BY DEF Stages, Extracted

(* One more member: its content under its name, if it is extracted.        *)
LEMMA StageNext ==
  ASSUME NEW k \in Nat, NEW f \in Names
  PROVE  Stages[k + 1][f] =
           IF archive[k + 1].name = f /\ ~Skipped(archive[k + 1]) THEN archive[k + 1].body
           ELSE Stages[k][f]
<1> DEFINE Good(x) == archive[x].name = f /\ ~Skipped(archive[x])
           From(m) == {x \in 1 .. m : Good(x)}
<1>1. \A m \in Nat : Stages[m][f] = IF From(m) = {} THEN before[f] ELSE archive[Max(From(m))].body
  BY DEF Stages, Extracted
<1>2. From(k + 1) = IF Good(k + 1) THEN From(k) \cup {k + 1} ELSE From(k)
  <2> HIDE DEF Good
  <2>1. QED
    OBVIOUS
<1>3. CASE Good(k + 1)
  <2>1. From(k) \in SUBSET (1 .. k)
    OBVIOUS
  <2>2. Max(From(k + 1)) = k + 1 /\ From(k + 1) # {}
    BY <1>2, <1>3, <2>1, MaxIsLast
  <2> HIDE DEF From
  <2>3. QED
    BY <1>1, <1>3, <2>2
<1>4. CASE ~Good(k + 1)
  <2>1. From(k + 1) = From(k)
    BY <1>2, <1>4
  <2> HIDE DEF From
  <2>2. QED
    BY <1>1, <1>4, <2>1
<1>5. QED
  BY <1>3, <1>4

LEMMA StagesStay == UNCHANGED <<archive, before>> => Stages' = Stages
BY DEF Stages, Extracted

LEMMA InitExtractInv == Init => ExtractInv
BY DEF Init, ExtractInv

LEMMA StartExtractInv ==
  ASSUME Command
  PROVE  ExtractInv'
<1>1. PICK c \in {"create", "extract", "list"}, z \in Names, files \in SeqOf(Names, MaxFiles) \cup {<<>>} :
        Start(c, z, files)
  BY DEF Command
<1>2. /\ before' = fs /\ fs' = fs /\ i' = 1 /\ archive' = <<>> /\ cmd' = c
      /\ c = "extract" => pc' = "load"
  BY <1>1 DEF Start
<1>3. \A f \in Names : Stages'[i' - 1][f] = fs'[f]
  <2>1. \A f \in Names : Stages'[0][f] = before'[f]
    BY DEF Stages, Extracted
  <2>2. QED
    BY <1>2, <2>1
<1>4. QED
  BY <1>2, <1>3 DEF ExtractInv

(* What the form of the files says of a step of an extraction.             *)
Shape ==
  /\ fs = [f \in Names |-> fs[f]]
  /\ Len(archive) \in Nat
  /\ \A x \in 1 .. Len(archive) : archive[x].name \in Names /\ archive[x].damage \in Damage

LEMMA FormShape == FormInv => Shape
BY MemberForm DEF FormInv, FormedIn, Shape

LEMMA NextExtractInv == FormInv /\ ExtractInv /\ [Next]_vars => ExtractInv'
<1> SUFFICES ASSUME FormInv, ExtractInv, [Next]_vars, ~Command PROVE ExtractInv'
  BY StartExtractInv
<1>1. CASE cmd # "extract"
  <2>1. cmd' = cmd
    BY DEF Next, SystemError, ReadInput, InputsRead, Pack, OpenOutput, WriteOutput, LoadArchive,
           ExtractMember, ListMember, MembersEnd, Exit1, line, vars
  <2>2. QED
    BY <1>1, <2>1 DEF ExtractInv
<1> SUFFICES ASSUME cmd = "extract" PROVE ExtractInv'
  BY <1>1
<1>2. Shape
  BY FormShape
<1>3. i \in 1 .. Len(archive) + 1 /\ Len(archive) \in Nat
  BY <1>2 DEF ExtractInv, Shape
<1>4. UNCHANGED <<archive, before>> => Stages' = Stages
  BY StagesStay
<1>5. CASE SystemError
  BY <1>4, <1>5 DEF SystemError, Exit1, line, ExtractInv
<1>6. CASE OpenOutput
  <2>1. pc = "open" /\ UNCHANGED <<line, i, archive, out_name, out>> /\ Current
        /\ \A f \in Names : fs[f] = Stages[i - 1][f]
    BY <1>6 DEF OpenOutput, Exit1, ExtractInv
  <2>2. out_name \in Names
    BY <1>2, <1>3, <2>1 DEF Current, Shape
  <2>3. Stages' = Stages
    BY <1>4, <2>1 DEF line
  <2>4. CASE Exit1 /\ UNCHANGED fs
    BY <2>1, <2>3, <2>4 DEF Exit1, line, ExtractInv
  <2>5. CASE fs' = [fs EXCEPT ![out_name] = PARTIAL] /\ pc' = "write"
    <3>1. fs'[out_name] = PARTIAL /\ \A f \in Names \ {out_name} : fs'[f] = fs[f]
      BY <1>2, <2>2, <2>5 DEF Shape
    <3>2. QED
      BY <2>1, <2>3, <2>5, <3>1 DEF line, ExtractInv, Current
  <2>6. QED
    BY <1>6, <2>4, <2>5 DEF OpenOutput
<1>7. CASE WriteOutput
  <2>1. /\ pc = "write" /\ UNCHANGED <<line, archive, out_name, out>> /\ Current
        /\ fs[out_name] = PARTIAL /\ \A f \in Names \ {out_name} : fs[f] = Stages[i - 1][f]
    BY <1>7 DEF WriteOutput, Exit1, ExtractInv
  <2>2. out_name \in Names
    BY <1>2, <1>3, <2>1 DEF Current, Shape
  <2>3. Stages' = Stages
    BY <1>4, <2>1 DEF line
  <2>4. \A f \in Names : Stages[i][f] = IF out_name = f THEN out ELSE Stages[i - 1][f]
    <3>1. i - 1 \in Nat /\ (i - 1) + 1 = i
      BY <1>3
    <3>2. ASSUME NEW f \in Names
          PROVE  Stages[i][f] = IF archive[i].name = f /\ ~Skipped(archive[i]) THEN archive[i].body
                                ELSE Stages[i - 1][f]
      BY <3>1, StageNext
    <3>3. QED
      BY <2>1, <3>2 DEF Current
  <2>5. CASE fs' = [fs EXCEPT ![out_name] = out] /\ pc' = NextTurn /\ i' = i + 1
    <3>1. \A f \in Names : fs'[f] = Stages[i][f]
      BY <1>2, <2>1, <2>2, <2>4, <2>5 DEF Shape
    <3>2. i' \in 1 .. Len(archive) + 1 /\ i' - 1 = i /\ pc' = "member"
      BY <1>3, <2>1, <2>5 DEF Current, NextTurn
    <3>3. \A x \in 1 .. i : Skipped(archive[x]) \/ archive[x].damage = "none"
      BY <1>3, <2>1 DEF ExtractInv, Current
    <3>4. QED
      BY <2>1, <2>3, <3>1, <3>2, <3>3 DEF line, ExtractInv
  <2>6. CASE Exit1 /\ fs' \in {fs, [fs EXCEPT ![out_name] = out]}
    <3>1. \A f \in Names : \/ fs'[f] = Stages[i - 1][f]
                           \/ f = out_name /\ (fs'[f] = PARTIAL \/ fs'[f] = Stages[i][f])
      BY <1>2, <2>1, <2>2, <2>4, <2>6 DEF Shape
    <3>2. QED
      BY <2>1, <2>3, <2>6, <3>1 DEF Exit1, line, ExtractInv, Current
  <2>7. QED
    BY <1>7, <2>5, <2>6 DEF WriteOutput
<1>8. CASE LoadArchive
  <2>1. pc = "load" /\ UNCHANGED <<fs, line, i>> /\ archive = <<>> /\ i = 1
        /\ \A f \in Names : fs[f] = Stages[i - 1][f]
    BY <1>3, <1>8 DEF LoadArchive, Exit1, ExtractInv
  <2>2. CASE Exit1
    BY <1>4, <2>1, <2>2 DEF Exit1, line, ExtractInv
  <2>3. CASE archive' = fs[zipname][2] /\ pc' = "member"
    <3>1. \A f \in Names : Stages'[0][f] = before'[f]
      BY DEF Stages, Extracted
    <3>2. \A f \in Names : fs'[f] = Stages'[i' - 1][f]
      BY <2>1, <3>1, StageZero DEF line
    <3>3. Len(archive') \in Nat
      <4>1. FormInv'
        BY NextFormInv
      <4>2. Shape'
        BY <4>1, FormShape, PTL
      <4>3. QED
        BY <4>2 DEF Shape
    <3>4. QED
      BY <2>1, <2>3, <3>2, <3>3 DEF line, ExtractInv
  <2>4. QED
    BY <1>8, <2>2, <2>3 DEF LoadArchive
<1>9. CASE ExtractMember
  <2>1. /\ pc = "member" /\ i \in 1 .. Len(archive) /\ UNCHANGED <<fs, line, archive>>
        /\ \A f \in Names : fs[f] = Stages[i - 1][f]
        /\ \A x \in 1 .. i - 1 : Skipped(archive[x]) \/ archive[x].damage = "none"
    BY <1>3, <1>9 DEF ExtractMember, Exit1, ExtractInv
  <2>2. Stages' = Stages
    BY <1>4, <2>1 DEF line
  <2>3. CASE Skipped(archive[i]) /\ i' = i + 1 /\ pc' = pc
    <3>1. i - 1 \in Nat /\ (i - 1) + 1 = i
      BY <1>3
    <3>2. \A f \in Names : Stages[i][f] = Stages[i - 1][f]
      BY <2>3, <3>1, StageNext
    <3>3. i' - 1 = i /\ i' \in 1 .. Len(archive) + 1
      BY <2>1, <2>3
    <3>4. \A x \in 1 .. i : Skipped(archive[x]) \/ archive[x].damage = "none"
      BY <2>1, <2>3
    <3>5. QED
      BY <2>1, <2>2, <2>3, <3>2, <3>3, <3>4 DEF line, ExtractInv
  <2>4. CASE Exit1
    BY <1>3, <2>1, <2>2, <2>4 DEF Exit1, line, ExtractInv
  <2>5. CASE /\ ~Skipped(archive[i]) /\ ~Damaged(archive[i]) /\ i' = i
             /\ out_name' = archive[i].name /\ out' = archive[i].body /\ pc' = "open"
    <3>1. archive[i].damage = "none"
      BY <1>2, <2>1, <2>5 DEF Shape, Damage, Damaged
    <3>2. Current'
      BY <2>1, <2>5, <3>1 DEF Current
    <3>3. QED
      BY <1>3, <2>1, <2>2, <2>5, <3>2 DEF line, ExtractInv
  <2>6. QED
    BY <1>9, <2>3, <2>4, <2>5 DEF ExtractMember
<1>10. CASE MembersEnd
  BY <1>3, <1>4, <1>10 DEF MembersEnd, line, ExtractInv
<1>11. CASE ReadInput \/ InputsRead \/ Pack \/ ListMember
  BY <1>11 DEF ReadInput, InputsRead, Pack, ListMember, ExtractInv
<1>12. CASE UNCHANGED vars
  BY <1>4, <1>12 DEF vars, line, ExtractInv, Current
<1>13. QED
  BY <1>5, <1>6, <1>7, <1>8, <1>9, <1>10, <1>11, <1>12 DEF Next

(* Wherever an extraction stands or stopped, the files are those of the    *)
(* members before the current one, whole and verified, and only the        *)
(* current one's may be partial; success means that every member was good  *)
(* (hwzip.c:142-216).                                                      *)
THEOREM ExtractionIsOrdered == Spec => []ExtractsInOrder
<1>1. FormInv /\ ExtractInv => ExtractsInOrder
  <2> SUFFICES ASSUME FormInv, ExtractInv, cmd = "extract", archive # <<>> PROVE ExtractsInOrder
    BY DEF ExtractsInOrder
  <2>1. i \in 1 .. Len(archive) + 1 /\ Len(archive) \in Nat /\ pc # "load"
    BY FormShape DEF ExtractInv, Shape
  <2>2. \A f \in Names : Stages[i - 1][f] = Extracted(i - 1, f) /\ Stages[i][f] = Extracted(i, f)
    BY <2>1 DEF Stages
  <2>3. ASSUME NEW f \in Names
        PROVE  \/ fs[f] = Extracted(i - 1, f)
               \/ /\ i <= Len(archive) /\ f = archive[i].name /\ ~Skipped(archive[i])
                  /\ \/ fs[f] = PARTIAL /\ pc \in {"write", "exit1"}
                     \/ fs[f] = Extracted(i, f) /\ pc = "exit1"
    <3>1. Stages[i - 1][f] = Extracted(i - 1, f) /\ Stages[i][f] = Extracted(i, f)
      BY <2>2
    <3>2. QED
      BY <2>1, <3>1 DEF ExtractInv, Current
  <2>4. QED
    BY <2>1, <2>3 DEF ExtractsInOrder, ExtractInv
<1>2. Init => FormInv /\ ExtractInv
  BY InitFormInv, InitExtractInv
<1>3. (FormInv /\ ExtractInv) /\ [Next]_vars => (FormInv /\ ExtractInv)'
  BY NextFormInv, NextExtractInv
<1>4. QED
  BY <1>1, <1>2, <1>3, PTL DEF Spec

-----------------------------------------------------------------------------
(* The converter.  It loses nothing that the packing tool has taken, for   *)
(* any set of files: until f is removed it is as unpacking left it.        *)
ConvertInv ==
  /\ stage \in {"mode", "path", "unpack", "pack", "remove", "exit0", "exit1"}
  /\ stage \in {"mode", "path", "unpack", "pack", "remove"} => held = content
  /\ stage = "remove" =>
       /\ packing \in {"succeeded", "failed"}
       /\ packing = "succeeded" => \A e \in Files : content[e] # "none" => target[e] = content[e]
  /\ NothingLostIfPacked

LEMMA ConvertInit == ConverterInit => ConvertInv
BY DEF ConverterInit, ConvertInv, NothingLostIfPacked

LEMMA ConvertNext == ConvertInv /\ [ConverterNext]_converterVars => ConvertInv'
<1> SUFFICES ASSUME ConvertInv, [ConverterNext]_converterVars PROVE ConvertInv'
  OBVIOUS
<1>1. CASE EnterMode
  BY <1>1 DEF EnterMode, disk, ConvertInv, NothingLostIfPacked
<1>2. CASE EnterPath
  BY <1>2 DEF EnterPath, disk, ConvertInv, NothingLostIfPacked
<1>3. CASE ToolMissing
  BY <1>3 DEF ToolMissing, disk, ConvertInv, NothingLostIfPacked
<1>4. CASE Unpack
  BY <1>4 DEF Unpack, AfterUnpack, ConvertInv, NothingLostIfPacked
<1>5. CASE Repack
  <2>1. stage = "pack" /\ held = content /\ stage' = "remove" /\ UNCHANGED <<f_kind, content, held>>
    BY <1>5 DEF Repack, ConvertInv
  <2>2. packing' \in {"succeeded", "failed"}
    BY <1>5 DEF Repack
  <2>3. ASSUME packing' = "succeeded", NEW e \in Files, content[e] # "none"
        PROVE  target'[e] = content[e]
    BY <1>5, <2>3 DEF Repack, Added
  <2>4. QED
    BY <2>1, <2>2, <2>3 DEF ConvertInv, NothingLostIfPacked
<1>6. CASE RemoveDirectory
  <2>1. /\ held = content /\ packing \in {"succeeded", "failed"}
        /\ packing = "succeeded" => \A e \in Files : content[e] # "none" => target[e] = content[e]
        /\ UNCHANGED <<target, held, packing>>
    BY <1>6 DEF RemoveDirectory, ConvertInv
  <2>2. stage' \in {"exit0", "exit1"} /\ (stage' = "exit0" => f_kind' = "absent")
    BY <1>6 DEF RemoveDirectory
  <2>3. QED
    BY <2>1, <2>2 DEF ConvertInv, NothingLostIfPacked
<1>7. CASE UNCHANGED converterVars
  BY <1>7 DEF converterVars, disk, constant, ConvertInv, NothingLostIfPacked
<1>8. QED
  BY <1>1, <1>2, <1>3, <1>4, <1>5, <1>6, <1>7 DEF ConverterNext

(* A file that is gone from the directory was given to the packing tool,   *)
(* and unless that failed the new archive has it (convert.py:24-31).       *)
THEOREM LosesNothing == ConverterSpec => []NothingLostIfPacked
<1>1. ConverterInit => ConvertInv
  BY ConvertInit
<1>2. ConvertInv /\ [ConverterNext]_converterVars => ConvertInv'
  BY ConvertNext
<1>3. ConvertInv => NothingLostIfPacked
  BY DEF ConvertInv
<1>4. QED
  BY <1>1, <1>2, <1>3, PTL DEF ConverterSpec
=============================================================================
