--------------------------- MODULE MigrateProofs ---------------------------
(***************************************************************************)
(* Theorems about Migrate for every set of operations that may fail.       *)
(*                                                                         *)
(* The argument: nobody writes while the migration works, because the run  *)
(* that used the distro was stopped and a new one waits for the end; so a  *)
(* copy that was made is still the latest when the old one is removed, and *)
(* before that the directory of the client is complete.                    *)
(***************************************************************************)
EXTENDS Migrate, TLAPS

\* The places of the migration after each file is copied, after the move, and
\* after the first removal.
Removed == {"removeJson", "removeSource", "done"}
Moved == {"removeData"} \cup Removed
JsonCopied == {"move", "shutdown", "moveAgain"} \cup Moved
SourceCopied == {"json"} \cup JsonCopied
DataCopied == {"source"} \cup SourceCopied
Quiet == {"data"} \cup DataCopied

\* A run that uses the distro keeps it registered and running.
UsingRuns == using => running /\ distro # "none" /\ ~exiting

\* The migration works on the old directory, with the distro out of use.
WorkIsQuiet == /\ pc # "idle" => current = "old"
               /\ pc \in Quiet => ~using
               /\ pc \in Moved => distro = "new"

\* Up to the first removal the client's directory is complete, and what has been
\* copied is the latest.
NothingLost ==
  /\ pc \notin Removed => \A f \in File : files[current][f] = "latest"
  /\ pc \in DataCopied => files["new"]["data"] = "latest"
  /\ pc \in SourceCopied => files["new"]["source"] = "latest"
  /\ pc \in JsonCopied => files["new"]["json"] = "latest"

MigrateInv == TypeOK /\ UsingRuns /\ WorkIsQuiet /\ (cut \/ NothingLost)

Content == {"none", "partial", "fresh", "stale", "latest"}
FilesTyped == files \in [Dir -> [File -> Content]]

\* A step that writes one file leaves the others.
LEMMA PutOne ==
  ASSUME FilesTyped, NEW d \in Dir, NEW f \in File, NEW c \in Content, Put(d, f, c)
  PROVE  /\ FilesTyped' /\ files'[d][f] = c
         /\ \A e \in Dir, g \in File : e # d \/ g # f => files'[e][g] = files[e][g]
BY DEF FilesTyped, Put

\* The start has everything in the old directory.
LEMMA MigrateStart == Init => MigrateInv
<1> SUFFICES ASSUME Init PROVE MigrateInv
  OBVIOUS
<1>1. /\ files = [d \in Dir |-> [f \in File |-> IF d = "old" THEN "latest" ELSE "none"]]
      /\ pc = "idle" /\ distro = "old" /\ current = "old"
      /\ ~running /\ ~using /\ ~exiting /\ ~cut
  BY DEF Init
<1>2. /\ files \in [Dir -> [File -> {"none", "partial", "fresh", "stale", "latest"}]]
      /\ \A f \in File : files["old"][f] = "latest"
  BY <1>1 DEF Dir
<1>3. TypeOK
  BY <1>1, <1>2 DEF Init, TypeOK, Dir
<1> QED
  BY <1>1, <1>2, <1>3 DEF MigrateInv, UsingRuns, WorkIsQuiet, NothingLost, Quiet,
     DataCopied, SourceCopied, JsonCopied, Moved, Removed

Places == {"idle", "sync", "terminate", "data", "source", "json", "move", "shutdown",
           "moveAgain", "removeData", "removeJson", "removeSource", "done", "failed"}

\* A copy that succeeds adds one more of the latest files, and one that fails ends
\* the migration before it has removed anything.
LEMMA CopyKeeps ==
  ASSUME MigrateInv,
         NEW f \in File, NEW to,
         <<f, to>> \in {<<"data", "source">>, <<"source", "json">>, <<"json", "move">>},
         CopyFile(f, to)
  PROVE  MigrateInv'
<1>1. FilesTyped /\ "old" \in Dir /\ "new" \in Dir
  BY DEF MigrateInv, TypeOK, FilesTyped, Content, Dir
<1>2. /\ UNCHANGED <<distro, running, using, exiting, current, cut>>
      /\ pc = f /\ current = "old" /\ ~using
  BY DEF CopyFile, Goto, MigrateInv, WorkIsQuiet, Quiet, DataCopied, SourceCopied, File
<1>3. \/ pc' = to /\ Put("new", f, files["old"][f])
      \/ pc' = "failed" /\ \E c \in {"none", "partial", files["new"][f]} : Put("new", f, c)
      \/ pc' = "failed" /\ UNCHANGED files
  BY DEF CopyFile, Goto
<1>4. files["old"][f] \in Content /\ files["new"][f] \in Content
  BY <1>1 DEF FilesTyped
<1>5. ASSUME NEW c \in Content, Put("new", f, c)
      PROVE  /\ FilesTyped' /\ files'["new"][f] = c
             /\ \A g \in File : files'["old"][g] = files["old"][g]
             /\ \A g \in File \ {f} : files'["new"][g] = files["new"][g]
  BY <1>1, <1>5, PutOne
<1>6. /\ FilesTyped' /\ \A g \in File : files'["old"][g] = files["old"][g]
      /\ \A g \in File \ {f} : files'["new"][g] = files["new"][g]
      /\ pc' # "failed" => files'["new"][f] = files["old"][f]
  <2>1. CASE pc' = to /\ Put("new", f, files["old"][f])
    BY <1>4, <1>5, <2>1
  <2>2. CASE pc' = "failed" /\ \E c \in {"none", "partial", files["new"][f]} : Put("new", f, c)
    <3>1. PICK c \in Content : Put("new", f, c)
      BY <1>4, <2>2 DEF Content
    <3> QED
      BY <1>5, <2>2, <3>1
  <2>3. CASE pc' = "failed" /\ UNCHANGED files
    BY <1>1, <2>3 DEF FilesTyped
  <2> QED
    BY <1>3, <2>1, <2>2, <2>3
<1>7. pc' \in {to, "failed"}
  BY <1>3
<1>8. TypeOK' /\ UsingRuns' /\ WorkIsQuiet'
  <2>1. pc' \in Places /\ pc' \notin Moved
    BY <1>7 DEF Places, Moved, Removed
  <2> QED
    BY <1>2, <1>6, <2>1 DEF MigrateInv, TypeOK, UsingRuns, WorkIsQuiet, FilesTyped, Content, Places
<1>9. ASSUME ~cut PROVE NothingLost'
  <2>1. /\ \A g \in File : files["old"][g] = "latest"
        /\ pc \in DataCopied => files["new"]["data"] = "latest"
        /\ pc \in SourceCopied => files["new"]["source"] = "latest"
    BY <1>2, <1>9 DEF MigrateInv, NothingLost, Removed, File
  <2>2. CASE pc' = "failed"
    BY <1>2, <1>6, <2>1, <2>2 DEF NothingLost, Removed, DataCopied, SourceCopied, JsonCopied, Moved
  <2>3. CASE f = "data" /\ pc' = "source"
    BY <1>2, <1>6, <2>1, <2>3
       DEF NothingLost, Removed, DataCopied, SourceCopied, JsonCopied, Moved, File
  <2>4. CASE f = "source" /\ pc' = "json"
    BY <1>2, <1>6, <2>1, <2>4
       DEF NothingLost, Removed, DataCopied, SourceCopied, JsonCopied, Moved, File
  <2>5. CASE f = "json" /\ pc' = "move"
    BY <1>2, <1>6, <2>1, <2>5
       DEF NothingLost, Removed, DataCopied, SourceCopied, JsonCopied, Moved, File
  <2> QED
    BY <1>7, <2>2, <2>3, <2>4, <2>5
<1> QED
  BY <1>2, <1>8, <1>9 DEF MigrateInv

\* A removal touches the old directory, when the new one has everything.
LEMMA RemovalKeeps ==
  ASSUME MigrateInv,
         NEW f \in File, NEW from, NEW to,
         <<f, from, to>> \in {<<"data", "removeData", "removeJson">>,
                              <<"json", "removeJson", "removeSource">>,
                              <<"source", "removeSource", "done">>},
         RemoveOld(f, from, to)
  PROVE  MigrateInv'
<1>1. FilesTyped /\ "old" \in Dir /\ "new" \in Dir
  BY DEF MigrateInv, TypeOK, FilesTyped, Content, Dir
<1>2. /\ UNCHANGED <<distro, running, using, exiting, current, cut>>
      /\ pc = from /\ pc' = to /\ (Put("old", f, "none") \/ UNCHANGED files)
  BY DEF RemoveOld, Goto
<1>3. FilesTyped' /\ \A g \in File : files'["new"][g] = files["new"][g]
  <2>1. CASE Put("old", f, "none")
    <3>1. "none" \in Content
      BY DEF Content
    <3> QED
      BY <1>1, <2>1, <3>1, PutOne DEF Dir
  <2>2. CASE UNCHANGED files
    BY <1>1, <2>2 DEF FilesTyped
  <2> QED
    BY <1>2, <2>1, <2>2
<1>4. pc \in Moved /\ pc' \in Removed
  BY <1>2 DEF Moved, Removed
<1>5. Moved \subseteq JsonCopied /\ Removed \subseteq Moved /\ JsonCopied \subseteq SourceCopied
      /\ SourceCopied \subseteq DataCopied /\ DataCopied \subseteq Quiet
  BY DEF Quiet, DataCopied, SourceCopied, JsonCopied, Moved
<1>6. pc' \in Places /\ pc # "idle"
  BY <1>2 DEF Places
<1>7. TypeOK' /\ UsingRuns' /\ WorkIsQuiet'
  BY <1>2, <1>3, <1>4, <1>5, <1>6 DEF MigrateInv, TypeOK, UsingRuns, WorkIsQuiet, FilesTyped, Content, Places
<1>8. ASSUME ~cut PROVE NothingLost'
  BY <1>3, <1>4, <1>5, <1>8 DEF MigrateInv, NothingLost, File
<1> QED
  BY <1>2, <1>7, <1>8 DEF MigrateInv

\* The other steps of the migration leave the files alone.
LEMMA MoveKeeps ==
  ASSUME MigrateInv,
         \/ Begin \/ SafeSyncDisk \/ Terminate \/ ShutdownForMove
         \/ MoveDistro("move", "shutdown") \/ MoveDistro("moveAgain", "failed")
  PROVE  MigrateInv'
<1> USE DEF Quiet, DataCopied, SourceCopied, JsonCopied, Moved, Removed
<1>1. CASE Begin
  BY <1>1 DEF Begin, MigrateInv, TypeOK, UsingRuns, WorkIsQuiet, NothingLost
<1>2. CASE SafeSyncDisk
  BY <1>2 DEF SafeSyncDisk, Goto, MigrateInv, TypeOK, UsingRuns, WorkIsQuiet, NothingLost
<1>3. CASE Terminate
  <2>1. CASE Goto("terminate", "data") /\ StopDistro
    <3>1. TypeOK' /\ UsingRuns' /\ WorkIsQuiet'
      BY <2>1 DEF StopDistro, Goto, MigrateInv, TypeOK, UsingRuns, WorkIsQuiet
    <3> QED
      BY <2>1, <3>1 DEF StopDistro, Goto, MigrateInv, NothingLost
  <2>2. CASE Goto("terminate", "failed") /\ Same
    BY <2>2 DEF Same, Goto, MigrateInv, TypeOK, UsingRuns, WorkIsQuiet, NothingLost
  <2> QED
    BY <1>3, <2>1, <2>2 DEF Terminate
<1>4. CASE ShutdownForMove
  <2>1. CASE Goto("shutdown", "moveAgain") /\ StopDistro
    <3>1. TypeOK' /\ UsingRuns' /\ WorkIsQuiet'
      BY <2>1 DEF StopDistro, Goto, MigrateInv, TypeOK, UsingRuns, WorkIsQuiet
    <3> QED
      BY <2>1, <3>1 DEF StopDistro, Goto, MigrateInv, NothingLost
  <2>2. CASE Goto("shutdown", "failed") /\ Same
    BY <2>2 DEF Same, Goto, MigrateInv, TypeOK, UsingRuns, WorkIsQuiet, NothingLost
  <2> QED
    BY <1>4, <2>1, <2>2 DEF ShutdownForMove
<1>5. ASSUME NEW from, NEW refused, MoveDistro(from, refused),
             <<from, refused>> \in {<<"move", "shutdown">>, <<"moveAgain", "failed">>}
      PROVE  MigrateInv'
  BY <1>5 DEF MoveDistro, Same, Goto, Dir, MigrateInv, TypeOK, UsingRuns, WorkIsQuiet, NothingLost
<1> QED
  BY <1>1, <1>2, <1>3, <1>4, <1>5

\* The success makes the new directory, which is complete, the client's.
LEMMA SuccessKeeps == ASSUME MigrateInv, Succeed PROVE MigrateInv'
<1> USE DEF Quiet, DataCopied, SourceCopied, JsonCopied, Moved, Removed
<1>1. /\ pc = "done" /\ pc' = "idle" /\ current' = "new"
      /\ UNCHANGED <<files, distro, running, using, exiting, cut>>
  BY DEF Succeed, Goto
<1>2. TypeOK' /\ UsingRuns' /\ WorkIsQuiet'
  BY <1>1 DEF MigrateInv, TypeOK, UsingRuns, WorkIsQuiet, Dir
<1>3. ASSUME ~cut PROVE NothingLost'
  BY <1>1, <1>3 DEF MigrateInv, NothingLost, File
<1> QED
  BY <1>1, <1>2, <1>3 DEF MigrateInv

\* A death loses the copy it interrupts, or is one that "cut" records.
LEMMA DeathKeeps == ASSUME MigrateInv, Die PROVE MigrateInv'
<1>1. FilesTyped /\ "new" \in Dir
  BY DEF MigrateInv, TypeOK, FilesTyped, Content, Dir
<1>2. /\ pc' = "idle" /\ UNCHANGED <<distro, running, using, exiting, current>>
      /\ pc # "idle" /\ (cut' <=> cut \/ pc \in Removed)
      /\ UNCHANGED files \/ (pc \in File /\ Put("new", pc, "partial"))
  BY DEF Die, Removed
<1>3. FilesTyped' /\ \A g \in File : files'["old"][g] = files["old"][g]
  <2>1. CASE pc \in File /\ Put("new", pc, "partial")
    <3>1. "partial" \in Content
      BY DEF Content
    <3> QED
      BY <1>1, <2>1, <3>1, PutOne DEF Dir
  <2>2. CASE UNCHANGED files
    BY <1>1, <2>2 DEF FilesTyped
  <2> QED
    BY <1>2, <2>1, <2>2
<1>4. cut' \in BOOLEAN
  BY DEF Die, MigrateInv, TypeOK
<1>5. current = "old"
  BY <1>2 DEF MigrateInv, WorkIsQuiet
<1>6. TypeOK' /\ UsingRuns' /\ WorkIsQuiet'
  BY <1>2, <1>3, <1>4 DEF MigrateInv, TypeOK, UsingRuns, WorkIsQuiet, FilesTyped, Content,
     Quiet, DataCopied, SourceCopied, JsonCopied, Moved, Removed
<1>7. ASSUME ~cut' PROVE NothingLost'
  BY <1>2, <1>3, <1>5, <1>7 DEF MigrateInv, NothingLost,
     DataCopied, SourceCopied, JsonCopied, Moved, Removed
<1> QED
  BY <1>6, <1>7 DEF MigrateInv

\* A run keeps what is complete, and the user writes only where the client is.
LEMMA ClientKeeps == ASSUME MigrateInv, Run \/ UserWrites PROVE MigrateInv'
<1> USE DEF Quiet, DataCopied, SourceCopied, JsonCopied, Moved, Removed
<1>1. FilesTyped /\ current \in Dir
  BY DEF MigrateInv, TypeOK, FilesTyped, Content
<1>2. CASE Run
  <2>1. FilesTyped'
    BY <1>1, <1>2 DEF Run, AfterUpdate, FilesTyped, Content, Dir, File
  <2>2. TypeOK' /\ UsingRuns' /\ WorkIsQuiet'
    BY <1>1, <1>2, <2>1 DEF Run, MigrateInv, TypeOK, UsingRuns, WorkIsQuiet, FilesTyped, Content, Dir
  <2>3. ASSUME ~cut PROVE NothingLost'
    <3>1. \A f \in File : files[current][f] = "latest"
      BY <1>2, <2>3 DEF Run, MigrateInv, NothingLost
    <3>2. Keeps("data") /\ files[current]["source"] # "none"
      BY <3>1 DEF Keeps, File
    <3>3. \A f \in File : files'[current][f] = "latest"
      BY <1>1, <1>2, <3>1, <3>2 DEF Run, AfterUpdate, FilesTyped, File
    <3> QED
      BY <1>2, <3>3 DEF Run, NothingLost
  <2> QED
    BY <1>2, <2>2, <2>3 DEF Run, MigrateInv
<1>3. CASE UserWrites
  <2>1. /\ FilesTyped' /\ files'[current]["data"] = "latest"
        /\ \A f \in File \ {"data"} : files'[current][f] = files[current][f]
    BY <1>1, <1>3 DEF UserWrites, FilesTyped, Content, Dir, File
  <2>2. /\ UNCHANGED <<pc, distro, running, using, exiting, current, cut>>
        /\ pc \notin Quiet
    BY <1>3 DEF UserWrites, MigrateInv, WorkIsQuiet
  <2>3. TypeOK' /\ UsingRuns' /\ WorkIsQuiet'
    BY <2>1, <2>2 DEF MigrateInv, TypeOK, UsingRuns, WorkIsQuiet, FilesTyped, Content
  <2>4. ASSUME ~cut PROVE NothingLost'
    BY <2>1, <2>2, <2>4 DEF MigrateInv, NothingLost
  <2> QED
    BY <2>2, <2>3, <2>4 DEF MigrateInv
<1> QED
  BY <1>2, <1>3

\* Every step keeps the invariant.
LEMMA MigrateStep == MigrateInv /\ [Next]_vars => MigrateInv'
<1> SUFFICES ASSUME MigrateInv, [Next]_vars PROVE MigrateInv'
  OBVIOUS
<1>1. CASE Begin
  BY <1>1, MoveKeeps
<1>2. CASE Start
  <2>1. CASE CopyFile("data", "source") \/ CopyFile("source", "json") \/ CopyFile("json", "move")
    BY <2>1, CopyKeeps DEF File
  <2>2. CASE \/ RemoveOld("data", "removeData", "removeJson")
             \/ RemoveOld("json", "removeJson", "removeSource")
             \/ RemoveOld("source", "removeSource", "done")
    BY <2>2, RemovalKeeps DEF File
  <2> QED
    BY <1>2, <2>1, <2>2, MoveKeeps, SuccessKeeps DEF Start
<1>3. CASE Die
  BY <1>3, DeathKeeps
<1>4. CASE Run \/ UserWrites
  BY <1>4, ClientKeeps
<1>5. CASE StopRun \/ Boot \/ ExitEnds \/ Unregister
  <2>1. UNCHANGED <<pc, files, current, cut>> /\ (using' => using)
    BY <1>5 DEF StopRun, Boot, ExitEnds, Unregister
  <2>2. TypeOK'
    BY <1>5, <2>1 DEF StopRun, Boot, ExitEnds, Unregister, Stopped, MigrateInv, TypeOK
  <2>3. UsingRuns' /\ WorkIsQuiet'
    BY <1>5, <2>1 DEF StopRun, Boot, ExitEnds, Unregister, MigrateInv, UsingRuns, WorkIsQuiet,
       Quiet, DataCopied, SourceCopied, JsonCopied, Moved, Removed
  <2> QED
    BY <2>1, <2>2, <2>3 DEF MigrateInv, NothingLost
<1>6. CASE UNCHANGED vars
  BY <1>6 DEF vars, MigrateInv, TypeOK, UsingRuns, WorkIsQuiet, NothingLost
<1> QED
  BY <1>1, <1>2, <1>3, <1>4, <1>5, <1>6 DEF Next

\* The variables keep their types, whichever operations may fail (Start).
THEOREM MigrateTypes == Spec => []TypeOK
<1>1. MigrateInv => TypeOK
  BY DEF MigrateInv
<1> QED
  BY <1>1, MigrateStart, MigrateStep, PTL DEF Spec

\* What the user wrote last is whole in one of the directories, whichever
\* operations fail and wherever a migration dies, except where "cut" says (Start).
THEOREM DataAlwaysSurvives == Spec => []DataSurvives
<1>1. MigrateInv => DataSurvives
  <2> SUFFICES ASSUME MigrateInv, ~cut PROVE \E d \in Dir : files[d]["data"] = "latest"
    BY DEF DataSurvives
  <2>1. CASE pc \in Removed
    BY <2>1 DEF MigrateInv, NothingLost, Dir, DataCopied, SourceCopied, JsonCopied, Moved
  <2>2. CASE pc \notin Removed
    BY <2>2 DEF MigrateInv, TypeOK, NothingLost, File
  <2> QED
    BY <2>1, <2>2
<1> QED
  BY <1>1, MigrateStart, MigrateStep, PTL DEF Spec

\* A migration that reports success has moved the distro and the latest of every
\* file (Start).
THEOREM SuccessIsComplete == Spec => []MovedIsComplete
<1>1. MigrateInv => MovedIsComplete
  BY DEF MigrateInv, WorkIsQuiet, NothingLost, MovedIsComplete, File,
         DataCopied, SourceCopied, JsonCopied, Moved, Removed
<1> QED
  BY <1>1, MigrateStart, MigrateStep, PTL DEF Spec

\* A migration that reports an error leaves the old directory complete (Start).
THEOREM ErrorKeepsOldAlways == Spec => []ErrorKeepsOld
<1>1. MigrateInv => ErrorKeepsOld
  BY DEF MigrateInv, WorkIsQuiet, NothingLost, ErrorKeepsOld, Removed
<1> QED
  BY <1>1, MigrateStart, MigrateStep, PTL DEF Spec
=============================================================================
