----------------------------- MODULE WSLUpdate -----------------------------
(***************************************************************************)
(* POST /update-wsl: each request is a goroutine that asks which installer *)
(* is the latest, downloads it (Download), creates a log for msiexec       *)
(* (LogRotate) and waits for msiexec.  Only a finished installation takes  *)
(* the permission away, so two requests can work on the same files.  The   *)
(* process may die at any step; the files stay.                            *)
(*                                                                         *)
(*   pkg/ipc/restful/init.go updateWSL, pkg/wsl/install.go Update.         *)
(***************************************************************************)
EXTENDS Naturals

CONSTANTS Handlers,    \* goroutines that serve a request
          Chunks,      \* bound: the pieces in which a body is copied
          LogCount,    \* logCount: logs kept
          MaxRequests  \* bound: requests

ASSUME ChunksAssumption == Chunks \in Nat \ {0}
ASSUME LogCountAssumption == LogCount \in Nat \ {0, 1}
ASSUME MaxRequestsAssumption == MaxRequests \in Nat

VARIABLES
  output, tmp, place, pos, body, \* Download
  logs, next, stage, slot,       \* LogRotate
  at,         \* handlers: the step of the request they are in
  allowed,    \* opt.CanUpdateWSL
  told,       \* handlers: the event they sent last
  installing, \* handlers: what the file held when msiexec was started on it
  requests,   \* requests so far
  excused,    \* history: the server sent something else, or one of several
              \* downloads at a time broke off
  crowded     \* history: a rotation in progress has met another one

D == INSTANCE Download WITH Clients <- Handlers
L == INSTANCE LogRotate WITH Creators <- Handlers

downloadVars == <<output, tmp, place, pos, body>>
rotateVars == <<logs, next, stage, slot>>
handlerVars == <<at, allowed, told, installing, requests>>
vars == <<downloadVars, rotateVars, handlerVars, excused, crowded>>

Init == /\ D!Init /\ L!Init
        /\ at = [h \in Handlers |-> "idle"] /\ told = [h \in Handlers |-> "none"]
        /\ allowed = TRUE /\ requests = 0
        /\ installing = [h \in Handlers |-> D!Absent]
        /\ excused = FALSE /\ crowded = FALSE

Goto(h, from, to) == at[h] = from /\ at' = [at EXCEPT ![h] = to]
Tell(h, event) == told' = [told EXCEPT ![h] = event]
Fail(h, from) == Goto(h, from, "idle") /\ Tell(h, "UpdateWSLFailed")

\* without the permission the request is refused
Post(h) ==
  /\ requests < MaxRequests /\ requests' = requests + 1
  /\ IF allowed THEN Goto(h, "idle", "latest") /\ Tell(h, "UpdatingWSL")
                ELSE at[h] = "idle" /\ UNCHANGED <<at, told>>
  /\ UNCHANGED <<downloadVars, rotateVars, allowed, installing, excused, crowded>>

\* latest.json and the cache directory
Latest(h) ==
  /\ \/ Goto(h, "latest", "download") /\ D!Begin(h) /\ UNCHANGED told
     \/ Fail(h, "latest") /\ UNCHANGED downloadVars
  /\ UNCHANGED <<rotateVars, allowed, installing, requests, excused, crowded>>

DownloadStep(h) ==
  /\ at[h] = "download" /\ D!Step(h)
  /\ excused' = \/ excused
                \/ body'[h] = "other"
                \/ /\ D!Writing(h) /\ place'[h] = "failed"
                   /\ \E other \in Handlers \ {h} : D!Writing(other) \/ place[other] = "rename"
  /\ UNCHANGED <<rotateVars, handlerVars, crowded>>

Rotating(h) == stage[h] \in {"look", "rename", "open"}
\* forgotten when no rotation is left in progress
NoteCrowd == LET active == {h \in Handlers : Rotating(h)'} IN
               crowded' = (active # {} /\ (crowded \/ \E g, h \in active : g # h))

Downloaded(h) ==
  /\ \/ D!Taken(h, "ok") /\ Goto(h, "download", "log") /\ L!Begin(h) /\ UNCHANGED told
     \/ D!Taken(h, "failed") /\ Fail(h, "download") /\ UNCHANGED rotateVars
  /\ NoteCrowd
  /\ UNCHANGED <<allowed, installing, requests, excused>>

LogStep(h) ==
  /\ at[h] = "log" /\ L!Step(h) /\ NoteCrowd
  /\ UNCHANGED <<downloadVars, handlerVars, excused>>

\* without a log the request fails and no event tells it
Logged(h) ==
  /\ \/ /\ L!Taken(h, "ok") /\ Goto(h, "log", "install")
        /\ installing' = [installing EXCEPT ![h] = output]
     \/ L!Taken(h, "failed") /\ Goto(h, "log", "idle") /\ UNCHANGED installing
  /\ UNCHANGED <<downloadVars, allowed, told, requests, excused, crowded>>

\* RunAsAdminWait returns
InstallEnds(h) ==
  /\ \/ Goto(h, "install", "idle") /\ allowed' = FALSE /\ Tell(h, "UpdateWSLSuccess")
     \/ Fail(h, "install") /\ UNCHANGED allowed
  /\ installing' = [installing EXCEPT ![h] = D!Absent]
  /\ UNCHANGED <<downloadVars, rotateVars, requests, excused, crowded>>

\* the process dies and a later one allows an update again
Die ==
  /\ at' = [h \in Handlers |-> "idle"] /\ told' = [h \in Handlers |-> "none"]
  /\ allowed' = TRUE /\ installing' = [h \in Handlers |-> D!Absent] /\ crowded' = FALSE
  /\ D!Reset /\ L!Reset
  /\ UNCHANGED <<requests, excused>>

Next == \/ Die
        \/ \E h \in Handlers : \/ Post(h) \/ Latest(h) \/ DownloadStep(h) \/ Downloaded(h)
                               \/ LogStep(h) \/ Logged(h) \/ InstallEnds(h)

Spec == Init /\ [][Next]_vars

TypeOK ==
  /\ D!TypeOK /\ L!TypeOK
  /\ at \in [Handlers -> {"idle", "latest", "download", "log", "install"}]
  /\ told \in [Handlers -> {"none", "UpdatingWSL", "UpdateWSLFailed", "UpdateWSLSuccess"}]
  /\ installing \in [Handlers -> D!Content \cup {D!Absent}]
  /\ {allowed, excused, crowded} \subseteq BOOLEAN /\ requests \in 0..MaxRequests

\* msiexec is started on the installer that was asked for, whatever an earlier
\* process or another request left in the two files, although a finished download
\* is not checked (download.go:112): unless the server sends another version, or
\* one of several downloads at a time breaks off.
InstalledIsWanted ==
  \A h \in Handlers : at[h] = "install" => D!Wanted(installing[h]) \/ excused

\* The lower the number in its name, the newer a log of msiexec is, however many
\* requests rotate the logs together and wherever they fail or die (createLog).
NewestFirst == L!NewestFirst

\* A log is lost only when it is the oldest of logCount, a rotation that failed or
\* died before included, unless two requests rotate at the same time (createLog).
LostIsOldest ==
  [][crowded \/ \A i \in L!Slot \ {LogCount} :
       logs[i] = 0 \/ \E j \in L!Slot : logs'[j] = logs[i]]_vars
=============================================================================
