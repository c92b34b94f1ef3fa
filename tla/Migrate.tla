------------------------------ MODULE Migrate ------------------------------
(***************************************************************************)
(* "ovm migrate": an installation moves from one directory to another.     *)
(* The distro is stopped, data.vhdx, sourcecode.vhdx and versions.json are *)
(* copied, the distro is moved, and the old files are removed.  Every step *)
(* may fail and the process may die anywhere; the client goes on with the  *)
(* old directory until a migration reports success, and may migrate again. *)
(*                                                                         *)
(*   pkg/cli/migrate.go Start, pkg/wsl/distro.go, pkg/winapi/sys/file.go;  *)
(*   the "ovm run" between migrations is what module Update decides.       *)
(***************************************************************************)
EXTENDS Naturals

CONSTANT Failures \* the external operations that may fail

Failure == {"check", "terminate", "shutdown", "unmount", "copy", "move", "remove"}

ASSUME FailuresAssumption == Failures \subseteq Failure

Dir == {"old", "new"}
File == {"data", "source", "json"}

VARIABLES
  pc,      \* where Start is; "idle": no migration, "failed", "done": what it reported
  files,   \* "none", "partial", "fresh" (a new empty disk), "stale", or "latest": what
           \* the user has written and every run has saved
  distro,  \* the directory the registered distro lies in, or "none"
  running, \* the distro runs
  using,   \* an "ovm run" of the client uses the distro and its data disk
  exiting, \* the exit function of such a run, whose distro was stopped, may boot it again
  current, \* the directory the client uses
  cut      \* history: a process died after it had removed the old data

vars == <<pc, files, distro, running, using, exiting, current, cut>>

Init == /\ pc = "idle" /\ files = [d \in Dir |-> [f \in File |-> IF d = "old" THEN "latest" ELSE "none"]]
        /\ distro = "old" /\ running = FALSE /\ using = FALSE /\ exiting = FALSE
        /\ current = "old" /\ cut = FALSE

-----------------------------------------------------------------------------
(* The migration *)

Goto(from, to) == pc = from /\ pc' = to

Begin == /\ pc \in {"idle", "failed"} /\ current = "old" /\ pc' = "sync"
         /\ UNCHANGED <<files, distro, running, using, exiting, current, cut>>

\* mutant of SafeSyncDisk: a distro that was synced is taken for one that is stopped
SafeSyncDiskOnly ==
  /\ Goto("sync", "data")
  /\ UNCHANGED <<files, distro, running, using, exiting, current, cut>>

\* only a distro that exists and runs, or one it could not find out about, is terminated
SafeSyncDisk ==
  /\ \/ (distro = "none" \/ ~running) /\ Goto("sync", "data")
     \/ (running \/ "check" \in Failures) /\ Goto("sync", "terminate")
  /\ UNCHANGED <<files, distro, running, using, exiting, current, cut>>

\* the run that used the distro ends and calls its exit function
StopDistro == /\ running' = FALSE /\ using' = FALSE /\ exiting' = (exiting \/ using)
              /\ UNCHANGED <<files, distro, current, cut>>

\* the distro stays as it is
Same == UNCHANGED <<files, distro, running, using, exiting, current, cut>>

\* Terminate, or else Shutdown
Terminate ==
  \/ Goto("terminate", "data") /\ StopDistro
  \/ "terminate" \in Failures /\ "shutdown" \in Failures /\ Goto("terminate", "failed") /\ Same

Put(d, f, content) == files' = [files EXCEPT ![d][f] = content]

\* mutant of CopyFile: an error is only logged
CopyFileAnyway(f, to) ==
  /\ Goto(f, to)
  /\ \/ Put("new", f, files["old"][f])
     \/ "copy" \in Failures /\ Put("new", f, "partial")
  /\ UNCHANGED <<distro, running, using, exiting, current, cut>>

\* UmountVHDX of the old disk (not of versions.json) and sys.CopyFile
CopyFile(f, to) ==
  /\ \/ Goto(f, to) /\ files["old"][f] # "none" /\ Put("new", f, files["old"][f])
     \/ Goto(f, "failed") /\ "copy" \in Failures /\ \E c \in {"none", "partial", files["new"][f]} : Put("new", f, c)
     \/ /\ Goto(f, "failed")
        /\ files["old"][f] = "none" \/ (f # "json" /\ "unmount" \in Failures)
        /\ UNCHANGED files
  /\ UNCHANGED <<distro, running, using, exiting, current, cut>>

\* a distro that runs or whose disk is in use is refused (ErrSharingViolation); one
\* that is not registered, or lies there already, cannot be moved
MoveDistro(from, refused) ==
  \/ /\ Goto(from, "removeData") /\ ~running /\ distro # "none"
     /\ distro' = "new"
     /\ UNCHANGED <<files, running, using, exiting, current, cut>>
  \/ (running \/ "move" \in Failures) /\ Goto(from, refused) /\ Same
  \/ (distro \in {"none", "new"} \/ "move" \in Failures) /\ Goto(from, "failed") /\ Same

ShutdownForMove ==
  \/ Goto("shutdown", "moveAgain") /\ StopDistro
  \/ "shutdown" \in Failures /\ Goto("shutdown", "failed") /\ Same

\* os.RemoveAll, whose error is only logged
RemoveOld(f, from, to) ==
  /\ Goto(from, to)
  /\ Put("old", f, "none") \/ ("remove" \in Failures /\ UNCHANGED files)
  /\ UNCHANGED <<distro, running, using, exiting, current, cut>>

\* the client hears of the success
Succeed == /\ Goto("done", "idle") /\ current' = "new"
           /\ UNCHANGED <<files, distro, running, using, exiting, cut>>

\* mutant of Start: the old data goes before the distro, whose move may fail
StartRemovesFirst ==
  \/ SafeSyncDisk \/ Terminate
  \/ CopyFile("data", "source") \/ CopyFile("source", "json") \/ CopyFile("json", "early")
  \/ RemoveOld("data", "early", "move")
  \/ MoveDistro("move", "shutdown") \/ ShutdownForMove \/ MoveDistro("moveAgain", "failed")
  \/ RemoveOld("data", "removeData", "removeJson")
  \/ RemoveOld("json", "removeJson", "removeSource")
  \/ RemoveOld("source", "removeSource", "done")
  \/ Succeed

Start ==
  \/ SafeSyncDisk \/ Terminate
  \/ CopyFile("data", "source") \/ CopyFile("source", "json") \/ CopyFile("json", "move")
  \/ MoveDistro("move", "shutdown") \/ ShutdownForMove \/ MoveDistro("moveAgain", "failed")
  \/ RemoveOld("data", "removeData", "removeJson")
  \/ RemoveOld("json", "removeJson", "removeSource")
  \/ RemoveOld("source", "removeSource", "done")
  \/ Succeed

\* the process dies between two steps, or inside a copy
Die == /\ pc \notin {"idle", "failed"} /\ pc' = "idle"
       /\ \/ UNCHANGED files
          \/ pc \in File /\ Put("new", pc, "partial")
       /\ cut' = (cut \/ pc \in {"removeJson", "removeSource", "done"})
       /\ UNCHANGED <<distro, running, using, exiting, current>>

-----------------------------------------------------------------------------
(* The client's runs, in its current directory *)

\* CheckAndReplace replaces what versions.json does not vouch for or what is missing
Keeps(f) == files[current]["json"] \notin {"none", "partial"} /\ files[current][f] # "none"
AfterUpdate ==
  [files EXCEPT ![current]["data"] = IF Keeps("data") THEN @ ELSE "fresh",
                ![current]["json"] = "latest",
                ![current]["source"] = IF @ = "none" THEN "latest" ELSE @]

\* a run gets the distro going, imported anew where it is not in current
Run == /\ pc \in {"idle", "failed"} /\ ~using /\ ~exiting /\ pc' = "idle"
       /\ files' = AfterUpdate /\ distro' = current
       /\ running' = TRUE /\ using' = TRUE
       /\ UNCHANGED <<exiting, current, cut>>

\* what the user had in the other directory is no longer the latest
UserWrites ==
  /\ using
  /\ files' = [d \in Dir |-> [files[d] EXCEPT !["data"] =
                 IF d = current THEN "latest" ELSE IF @ = "latest" THEN "stale" ELSE @]]
  /\ UNCHANGED <<pc, distro, running, using, exiting, current, cut>>

\* a stop that fails leaves the distro running
Stopped == {FALSE} \cup (IF "terminate" \in Failures THEN {running} ELSE {})

StopRun == /\ using /\ running' \in Stopped /\ using' = FALSE
           /\ UNCHANGED <<pc, files, distro, exiting, current, cut>>

\* the exit function of a run boots the distro again, and terminates it
Boot == /\ exiting /\ distro # "none" /\ ~running /\ running' = TRUE
        /\ UNCHANGED <<pc, files, distro, using, exiting, current, cut>>
ExitEnds == /\ exiting /\ exiting' = FALSE /\ running' \in Stopped
            /\ UNCHANGED <<pc, files, distro, using, current, cut>>

\* the user unregisters the distro while nothing uses it
Unregister == /\ pc \in {"idle", "failed"} /\ ~using /\ distro' = "none" /\ running' = FALSE
              /\ UNCHANGED <<pc, files, using, exiting, current, cut>>

Next == \/ Begin \/ Start \/ Die
        \/ Run \/ UserWrites \/ StopRun \/ Boot \/ ExitEnds \/ Unregister

Spec == Init /\ [][Next]_vars

-----------------------------------------------------------------------------
TypeOK ==
  /\ pc \in {"idle", "sync", "terminate", "data", "source", "json", "move", "shutdown",
             "moveAgain", "removeData", "removeJson", "removeSource", "done", "failed"}
  /\ files \in [Dir -> [File -> {"none", "partial", "fresh", "stale", "latest"}]]
  /\ distro \in Dir \cup {"none"} /\ current \in Dir
  /\ running \in BOOLEAN /\ using \in BOOLEAN /\ exiting \in BOOLEAN /\ cut \in BOOLEAN

\* What the user wrote last is whole in one of the directories, through any
\* sequence of failed and killed migrations, runs and retries, unless a process
\* died after it had removed the old data and before it reported success: then
\* a run in the old directory makes a new disk, and the next migration copies it
\* over the data.
DataSurvives == ~cut => \E d \in Dir : files[d]["data"] = "latest"

\* A migration that reports success has moved everything: the next run in the new
\* directory has nothing to update, and so replaces nothing of the user's.
MovedIsComplete ==
  pc = "done" /\ ~cut => distro = "new" /\ \A f \in File : files["new"][f] = "latest"

\* A migration that reports an error has left the old directory as good as it was:
\* the client can go on there.
ErrorKeepsOld == pc = "failed" /\ ~cut => \A f \in File : files["old"][f] = "latest"
=============================================================================
