----------------------------- MODULE LogRotate -----------------------------
(***************************************************************************)
(* Context.createLog: before a log name.log is created, name.log becomes   *)
(* name.2.log, name.2.log becomes name.3.log and so on, the highest one    *)
(* first.  Goroutines and processes that create a log of the same name     *)
(* rotate the same files; looking at a file, renaming it and opening the   *)
(* new one are steps of their own.  The last two may fail; an os.Stat that *)
(* fails on a file that exists is left out.                                *)
(*                                                                         *)
(*   pkg/logger/logger.go createLog, NewOnlyCreate.                        *)
(***************************************************************************)
EXTENDS Naturals

CONSTANTS Creators, \* goroutines that create a log
          LogCount  \* logCount: files kept

VARIABLES
  logs,  \* the logs by the number in their file's name, 0: no such file; the
         \* logs themselves are numbered by age
  next,  \* the number of the next log
  stage, \* creators: where they are in createLog; "ok", "failed": what it returned
  slot   \* creators: the loop's i

vars == <<logs, next, stage, slot>>

Slot == 1..LogCount

Init == /\ \E n \in {0, LogCount} :
             logs = [i \in Slot |-> IF i <= n THEN n + 1 - i ELSE 0] /\ next = n + 1
        /\ stage = [c \in Creators |-> "idle"] /\ slot = [c \in Creators |-> 1]

Goto(c, from, to) == stage[c] = from /\ stage' = [stage EXCEPT ![c] = to]

\* mutant of Begin: the loop leaves out the last file but one
BeginLow(c) == /\ Goto(c, "idle", "look")
               /\ slot' = [slot EXCEPT ![c] = LogCount - 2]
               /\ UNCHANGED <<logs, next>>

Begin(c) == /\ Goto(c, "idle", "look")
            /\ slot' = [slot EXCEPT ![c] = LogCount - 1]
            /\ UNCHANGED <<logs, next>>

\* mutant of Advance: the loop goes on to 0
AdvanceFar(c, from) ==
  IF slot[c] > 0 THEN Goto(c, from, "look") /\ slot' = [slot EXCEPT ![c] = @ - 1]
                 ELSE Goto(c, from, "open") /\ UNCHANGED slot

\* the end of the loop's body
Advance(c, from) ==
  IF slot[c] > 1 THEN Goto(c, from, "look") /\ slot' = [slot EXCEPT ![c] = @ - 1]
                 ELSE Goto(c, from, "open") /\ UNCHANGED slot

Look(c) ==
  /\ IF logs[slot[c]] # 0 THEN Goto(c, "look", "rename") /\ UNCHANGED slot
                          ELSE Advance(c, "look")
  /\ UNCHANGED <<logs, next>>

\* mutant of Rename: two files change places
RenameSwaps(c) ==
  /\ stage[c] = "rename" /\ logs[slot[c]] # 0
  /\ logs' = [logs EXCEPT ![slot[c] + 1] = logs[slot[c]], ![slot[c]] = logs[slot[c] + 1]]
  /\ Advance(c, "rename")
  /\ UNCHANGED next

\* os.Rename replaces the file that has the new name
Rename(c) ==
  \/ /\ stage[c] = "rename" /\ logs[slot[c]] # 0
     /\ logs' = [logs EXCEPT ![slot[c] + 1] = logs[slot[c]], ![slot[c]] = 0]
     /\ Advance(c, "rename")
     /\ UNCHANGED next
  \/ Goto(c, "rename", "failed") /\ UNCHANGED <<logs, next, slot>>

\* O_CREATE and O_TRUNC: a log that is there again is overwritten
Open(c) ==
  \/ /\ Goto(c, "open", "ok")
     /\ logs' = [logs EXCEPT ![1] = next] /\ next' = next + 1
     /\ UNCHANGED slot
  \/ Goto(c, "open", "failed") /\ UNCHANGED <<logs, next, slot>>

Step(c) == Look(c) \/ Rename(c) \/ Open(c)

\* the caller goes on
Taken(c, result) == Goto(c, result, "idle") /\ UNCHANGED <<logs, next, slot>>

\* the process dies
Reset == stage' = [c \in Creators |-> "idle"] /\ UNCHANGED <<logs, next, slot>>

Stages == {"idle", "look", "rename", "open", "ok", "failed"}

TypeOK == /\ logs \in [Slot -> Nat] /\ next \in Nat
          /\ stage \in [Creators -> Stages] /\ slot \in [Creators -> 1..LogCount - 1]

\* The lower the number in its name, the newer a log is, however many rotations
\* interleave, fail or break off (createLog, logger.go:108-133).
NewestFirst == \A i, j \in Slot : i < j /\ logs[i] # 0 /\ logs[j] # 0 => logs[i] > logs[j]
=============================================================================
