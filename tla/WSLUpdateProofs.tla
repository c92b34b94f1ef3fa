-------------------------- MODULE WSLUpdateProofs --------------------------
(***************************************************************************)
(* Theorems about WSLUpdate for every set of handlers and every logCount.  *)
(*                                                                         *)
(* The argument for the logs: only Rename and Open change them.  Rename    *)
(* moves a log one number up into a place where nothing newer than it can  *)
(* be, since the place is next to its own; Open puts in the first place a  *)
(* log newer than all others.  Neither needs the rotations to be apart.    *)
(***************************************************************************)
EXTENDS WSLUpdate, TLAPS

\* The logs have types of their own, whatever the other variables are.
LogTypes ==
  /\ logs \in [L!Slot -> Nat] /\ next \in Nat
  /\ slot \in [Handlers -> 1..LogCount - 1]

\* The next log is newer than those that are kept.
NextIsNewest == \A i \in L!Slot : logs[i] < next

LogInv == LogTypes /\ NextIsNewest /\ NewestFirst

\* At the start the logs are numbered by their age.
LEMMA LogStart == Init => LogInv
<1> SUFFICES ASSUME Init PROVE LogInv
  OBVIOUS
<1>1. PICK n \in {0, LogCount} :
        logs = [i \in L!Slot |-> IF i <= n THEN n + 1 - i ELSE 0] /\ next = n + 1
  BY DEF Init, L!Init
<1>2. LogCount \in Nat /\ LogCount >= 2 /\ n \in Nat
  BY LogCountAssumption
<1>3. logs \in [L!Slot -> Nat]
  BY <1>1, <1>2 DEF L!Slot
<1>4. slot \in [Handlers -> 1..LogCount - 1]
  BY <1>2 DEF Init, L!Init
<1> QED
  BY <1>1, <1>2, <1>3, <1>4 DEF LogInv, LogTypes, NextIsNewest, NewestFirst, L!NewestFirst, L!Slot

\* The end of the loop's body keeps the loop's variable in the loop.
LEMMA AdvanceTypes ==
  ASSUME LogTypes, NEW h \in Handlers, NEW from, L!Advance(h, from)
  PROVE  slot' \in [Handlers -> 1..LogCount - 1]
<1>1. CASE slot[h] > 1
  <2>1. slot' = [slot EXCEPT ![h] = slot[h] - 1]
    BY <1>1 DEF L!Advance
  <2>2. slot[h] - 1 \in 1..LogCount - 1
    BY <1>1, LogCountAssumption DEF LogTypes
  <2> QED
    BY <2>1, <2>2 DEF LogTypes
<1>2. CASE ~(slot[h] > 1)
  BY <1>2 DEF L!Advance, LogTypes
<1> QED
  BY <1>1, <1>2

\* A log moves one number up; what was there is lost.
LEMMA RenameKeeps == ASSUME LogInv, NEW h \in Handlers, L!Rename(h) PROVE LogInv'
<1>0. LogCount \in Nat /\ LogCount >= 2
  BY LogCountAssumption
<1>1. CASE UNCHANGED <<logs, next, slot>>
  BY <1>1 DEF LogInv, LogTypes, NextIsNewest, NewestFirst, L!NewestFirst
<1>2. CASE /\ stage[h] = "rename" /\ logs[slot[h]] # 0
           /\ logs' = [logs EXCEPT ![slot[h] + 1] = logs[slot[h]], ![slot[h]] = 0]
           /\ L!Advance(h, "rename")
           /\ UNCHANGED next
  <2> DEFINE s == slot[h]
  <2>1. s \in L!Slot /\ s + 1 \in L!Slot /\ s \in Nat /\ s # s + 1
    BY <1>0 DEF LogInv, LogTypes, L!Slot
  <2>2. logs \in [L!Slot -> Nat] /\ next \in Nat
    BY DEF LogInv, LogTypes
  <2>3. /\ logs' \in [L!Slot -> Nat]
        /\ logs'[s] = 0 /\ logs'[s + 1] = logs[s]
        /\ \A i \in L!Slot \ {s, s + 1} : logs'[i] = logs[i]
    BY <1>2, <2>1, <2>2
  <2>4. slot' \in [Handlers -> 1..LogCount - 1]
    BY <1>2, AdvanceTypes DEF LogInv
  <2>5. LogTypes'
    BY <1>2, <2>2, <2>3, <2>4 DEF LogTypes, L!Slot
  <2> HIDE DEF s
  <2>6. NextIsNewest'
    <3>1. logs[s] < next /\ 0 <= logs[s]
      BY <2>1, <2>2 DEF LogInv, NextIsNewest
    <3>2. \A i \in L!Slot : logs[i] < next
      BY DEF LogInv, NextIsNewest
    <3> SUFFICES ASSUME NEW i \in L!Slot PROVE logs'[i] < next
      BY <1>2 DEF NextIsNewest, L!Slot
    <3> QED
      BY <2>1, <2>2, <2>3, <3>1, <3>2
  <2>7. NewestFirst'
    <3> SUFFICES ASSUME NEW i \in L!Slot, NEW j \in L!Slot, i < j, logs'[i] # 0, logs'[j] # 0
                 PROVE  logs'[i] > logs'[j]
      BY DEF NewestFirst, L!NewestFirst, L!Slot
    <3>1. i \in Nat /\ j \in Nat /\ i # s /\ j # s
      BY <2>3 DEF L!Slot
    <3>2. \A a, b \in L!Slot : a < b /\ logs[a] # 0 /\ logs[b] # 0 => logs[a] > logs[b]
      BY DEF LogInv, NewestFirst, L!NewestFirst
    <3>3. CASE i = s + 1
      BY <1>2, <2>1, <2>3, <3>1, <3>2, <3>3 DEF s
    <3>4. CASE j = s + 1
      BY <1>2, <2>1, <2>3, <3>1, <3>2, <3>4 DEF s
    <3>5. CASE i # s + 1 /\ j # s + 1
      BY <2>3, <3>1, <3>2, <3>5
    <3> QED
      BY <3>3, <3>4, <3>5
  <2> QED
    BY <2>5, <2>6, <2>7 DEF LogInv
<1> QED
  BY <1>1, <1>2 DEF L!Rename

\* The new log comes first.
LEMMA OpenKeeps == ASSUME LogInv, NEW h \in Handlers, L!Open(h) PROVE LogInv'
<1>0. LogCount \in Nat /\ LogCount >= 2 /\ 1 \in L!Slot
  BY LogCountAssumption DEF L!Slot
<1>1. CASE UNCHANGED <<logs, next, slot>>
  BY <1>1 DEF LogInv, LogTypes, NextIsNewest, NewestFirst, L!NewestFirst
<1>2. CASE logs' = [logs EXCEPT ![1] = next] /\ next' = next + 1 /\ UNCHANGED slot
  BY <1>0, <1>2 DEF LogInv, LogTypes, NextIsNewest, NewestFirst, L!NewestFirst, L!Slot
<1> QED
  BY <1>1, <1>2 DEF L!Open

\* Every step keeps the invariant.
LEMMA LogStepKeeps == LogInv /\ [Next]_vars => LogInv'
<1> SUFFICES ASSUME LogInv, [Next]_vars PROVE LogInv'
  OBVIOUS
<1>0. ASSUME UNCHANGED <<logs, next>>, slot' \in [Handlers -> 1..LogCount - 1] PROVE LogInv'
  BY <1>0 DEF LogInv, LogTypes, NextIsNewest, NewestFirst, L!NewestFirst
<1>1. ASSUME UNCHANGED <<logs, next, slot>> PROVE LogInv'
  BY <1>0, <1>1 DEF LogInv, LogTypes
<1>2. CASE Die
  BY <1>1, <1>2 DEF Die, L!Reset
<1>3. ASSUME NEW h \in Handlers, Post(h) \/ Latest(h) \/ DownloadStep(h) \/ InstallEnds(h)
      PROVE  LogInv'
  BY <1>1, <1>3 DEF Post, Latest, DownloadStep, InstallEnds, rotateVars
<1>4. ASSUME NEW h \in Handlers, Downloaded(h) PROVE LogInv'
  <2>1. CASE L!Begin(h)
    <3>1. LogCount - 1 \in 1..LogCount - 1
      BY LogCountAssumption
    <3> QED
      BY <1>0, <2>1, <3>1 DEF L!Begin, LogInv, LogTypes
  <2>2. CASE UNCHANGED rotateVars
    BY <1>1, <2>2 DEF rotateVars
  <2> QED
    BY <1>4, <2>1, <2>2 DEF Downloaded
<1>5. ASSUME NEW h \in Handlers, LogStep(h) PROVE LogInv'
  <2>1. CASE L!Look(h)
    <3>1. slot' \in [Handlers -> 1..LogCount - 1]
      BY <2>1, AdvanceTypes DEF L!Look, LogInv, LogTypes
    <3> QED
      BY <1>0, <2>1, <3>1 DEF L!Look
  <2>2. CASE L!Rename(h)
    BY <2>2, RenameKeeps
  <2>3. CASE L!Open(h)
    BY <2>3, OpenKeeps
  <2> QED
    BY <1>5, <2>1, <2>2, <2>3 DEF LogStep, L!Step
<1>6. ASSUME NEW h \in Handlers, Logged(h) PROVE LogInv'
  BY <1>1, <1>6 DEF Logged, L!Taken
<1>7. CASE UNCHANGED vars
  BY <1>1, <1>7 DEF vars, rotateVars
<1> QED
  BY <1>2, <1>3, <1>4, <1>5, <1>6, <1>7 DEF Next

\* The logs of msiexec are ordered by age, for any number of requests that rotate
\* them together, fail or die, and any number of logs kept (createLog).
THEOREM LogsStayOrdered == Spec => []NewestFirst
<1>1. LogInv => NewestFirst
  BY DEF LogInv
<1> QED
  BY <1>1, LogStart, LogStepKeeps, PTL DEF Spec

-----------------------------------------------------------------------------
\* Who copies has the file: nobody renames it meanwhile.
WriterHasFile == \A h \in Handlers : D!Writing(h) => tmp \in D!Content

\* The types of a handler's place and of what it knows, and of the two files.
LEMMA DownloadTypes ==
  ASSUME D!TypeOK, WriterHasFile, NEW h \in Handlers, D!Step(h)
  PROVE  D!TypeOK'
<1> DEFINE File == D!Content \cup {D!Absent}
<1>0. Chunks \in Nat /\ Chunks >= 1
  BY ChunksAssumption
<1>1. D!Filled("hole") \in File
  BY DEF D!Filled, D!Content
<1>2. /\ output \in File /\ tmp \in File /\ place \in [Handlers -> D!Places]
      /\ pos \in [Handlers -> 1..Chunks + 1] /\ body \in [Handlers -> {"wanted", "other"}]
  BY DEF D!TypeOK
<1>3. SUFFICES /\ output' \in File /\ tmp' \in File /\ place' \in [Handlers -> D!Places]
               /\ pos' \in [Handlers -> 1..Chunks + 1] /\ body' \in [Handlers -> {"wanted", "other"}]
  BY DEF D!TypeOK, D!Content, D!Absent, D!Places
<1>4. place' \in [Handlers -> D!Places]
  BY <1>2 DEF D!Step, D!CheckOutput, D!CheckTmp, D!Create, D!Request, D!CopyPiece, D!CopyEnds,
              D!Rename, D!Goto, D!Places
<1>5. pos' \in [Handlers -> 1..Chunks + 1] /\ body' \in [Handlers -> {"wanted", "other"}]
  BY <1>0, <1>2 DEF D!Step, D!CheckOutput, D!CheckTmp, D!Create, D!Request, D!CopyPiece,
                    D!CopyEnds, D!Rename
<1>6. output' \in File /\ tmp' \in File
  <2>1. CASE D!CopyPiece(h)
    <3>1. tmp \in D!Content
      BY <2>1 DEF WriterHasFile, D!Writing, D!CopyPiece
    <3>2. tmp' \in D!Content
      BY <1>2, <2>1, <3>1 DEF D!CopyPiece, D!Content
    <3> QED
      BY <1>2, <2>1, <3>2 DEF D!CopyPiece
  <2> HIDE DEF File
  <2>2. CASE ~D!CopyPiece(h)
    <3>1. D!Absent \in File
      BY DEF File
    <3> QED
      BY <1>1, <1>2, <2>2, <3>1 DEF D!Step, D!CheckOutput, D!CheckTmp, D!Create, D!Request, D!CopyEnds,
                                    D!Rename
  <2> QED
    BY <2>1, <2>2
<1> QED
  BY <1>4, <1>5, <1>6

\* A step of one download keeps the file of those who copy.
LEMMA WriterKeepsFile ==
  ASSUME D!TypeOK, WriterHasFile, NEW h \in Handlers, D!Step(h)
  PROVE  WriterHasFile'
<1>1. SUFFICES ASSUME NEW g \in Handlers, D!Writing(g)' PROVE tmp' \in D!Content
  BY DEF WriterHasFile, D!Content
<1>2. D!Filled("hole") \in D!Content
  BY DEF D!Filled, D!Content
<1>3. place \in [Handlers -> D!Places]
  BY DEF D!TypeOK
<1>4. CASE D!Create(h)
  <2>1. CASE tmp' = D!Filled("hole")
    BY <1>2, <2>1
  <2>2. CASE UNCHANGED tmp
    BY <1>1, <1>2, <1>3, <1>4, <2>2 DEF D!Create, D!Goto, D!Writing, WriterHasFile
  <2> QED
    BY <1>4, <2>1, <2>2 DEF D!Create
<1>5. CASE D!CopyPiece(h)
  <2>1. tmp \in D!Content
    BY <1>5 DEF D!CopyPiece, D!Writing, WriterHasFile
  <2>2. body[h] \in {"hole", "wanted", "other"} /\ tmp' = [tmp EXCEPT ![pos[h]] = body[h]]
    BY <1>5 DEF D!CopyPiece, D!TypeOK
  <2> QED
    BY <2>1, <2>2 DEF D!Content
<1>6. CASE D!Rename(h)
  BY <1>1, <1>3, <1>6 DEF D!Rename, D!Goto, D!Writing, WriterHasFile
<1>7. CASE D!CheckOutput(h) \/ D!CheckTmp(h) \/ D!Request(h) \/ D!CopyEnds(h)
  <2>1. UNCHANGED tmp /\ D!Writing(g)
    BY <1>1, <1>3, <1>7 DEF D!CheckOutput, D!CheckTmp, D!Request, D!CopyEnds, D!Goto, D!Writing
  <2> QED
    BY <2>1 DEF WriterHasFile
<1> QED
  BY <1>4, <1>5, <1>6, <1>7 DEF D!Step

\* Types and WriterHasFile together with the invariant of the logs are inductive.
TypeInv == TypeOK /\ WriterHasFile /\ LogInv

\* The start of the types.
LEMMA TypeStart == Init => TypeInv
<1> SUFFICES ASSUME Init PROVE TypeInv
  OBVIOUS
<1>1. LogInv
  BY LogStart
<1>2. /\ output \in D!Content \cup {D!Absent} /\ tmp \in D!Content \cup {D!Absent}
      /\ place = [c \in Handlers |-> "idle"]
  BY DEF Init, D!Init, D!Filled, D!Content
<1>3. D!TypeOK
  <2>1. 1 \in 1..Chunks + 1
    BY ChunksAssumption
  <2> QED
    BY <1>2, <2>1 DEF Init, D!Init, D!TypeOK, D!Places
<1>4. L!TypeOK
  BY <1>1 DEF Init, L!Init, L!TypeOK, L!Stages, LogInv, LogTypes
<1>5. TypeOK
  <2>1. requests \in 0..MaxRequests
    BY MaxRequestsAssumption DEF Init
  <2>2. allowed \in BOOLEAN /\ excused \in BOOLEAN /\ crowded \in BOOLEAN
    BY DEF Init
  <2>3. installing \in [Handlers -> D!Content \cup {D!Absent}]
    BY DEF Init
  <2>4. /\ at \in [Handlers -> {"idle", "latest", "download", "log", "install"}]
        /\ told \in [Handlers -> {"none", "UpdatingWSL", "UpdateWSLFailed", "UpdateWSLSuccess"}]
    BY DEF Init
  <2> QED
    BY <1>3, <1>4, <2>1, <2>2, <2>3, <2>4 DEF TypeOK
<1>6. WriterHasFile
  BY <1>2 DEF WriterHasFile, D!Writing
<1> QED
  BY <1>1, <1>5, <1>6 DEF TypeInv

\* Every step keeps the types.
LEMMA TypeStep == TypeInv /\ [Next]_vars => TypeInv'
<1> SUFFICES ASSUME TypeInv, [Next]_vars PROVE TypeInv'
  OBVIOUS
<1>0. LogInv' /\ TypeOK /\ WriterHasFile /\ D!TypeOK /\ L!TypeOK
  BY LogStepKeeps DEF TypeInv, TypeOK
<1>a. D!Absent \in D!Content \cup {D!Absent} /\ (D!Content \cup {D!Absent})' = D!Content \cup {D!Absent}
  BY DEF D!Content, D!Absent
\* the two files and their goroutines
<1>1. D!TypeOK' /\ WriterHasFile'
  <2>1. ASSUME UNCHANGED <<output, tmp, pos, body>>,
               \/ UNCHANGED place
               \/ place' = [c \in Handlers |-> "idle"]
               \/ \E c \in Handlers, to \in {"idle", "output"} : place' = [place EXCEPT ![c] = to]
        PROVE  D!TypeOK' /\ WriterHasFile'
    <3>1. place' \in [Handlers -> D!Places] /\ \A g \in Handlers : D!Writing(g)' => D!Writing(g)
      BY <1>0, <2>1 DEF D!TypeOK, D!Places, D!Writing
    <3> QED
      BY <1>0, <1>a, <2>1, <3>1 DEF D!TypeOK, WriterHasFile, D!Content, D!Absent, D!Places
  <2>2. CASE Die
    BY <2>1, <2>2 DEF Die, D!Reset
  <2>3. ASSUME NEW h \in Handlers, Post(h) \/ LogStep(h) \/ Logged(h) \/ InstallEnds(h)
        PROVE  D!TypeOK' /\ WriterHasFile'
    BY <2>1, <2>3 DEF Post, LogStep, Logged, InstallEnds, downloadVars
  <2>4. ASSUME NEW h \in Handlers, Latest(h) PROVE D!TypeOK' /\ WriterHasFile'
    BY <2>1, <2>4 DEF Latest, D!Begin, D!Goto, downloadVars
  <2>5. ASSUME NEW h \in Handlers, Downloaded(h) PROVE D!TypeOK' /\ WriterHasFile'
    BY <2>1, <2>5 DEF Downloaded, D!Taken, D!Goto
  <2>6. ASSUME NEW h \in Handlers, DownloadStep(h) PROVE D!TypeOK' /\ WriterHasFile'
    BY <1>0, <2>6, DownloadTypes, WriterKeepsFile DEF DownloadStep
  <2>7. CASE UNCHANGED vars
    BY <2>1, <2>7 DEF vars, downloadVars
  <2> QED
    BY <2>2, <2>3, <2>4, <2>5, <2>6, <2>7 DEF Next
\* the logs
<1>2. L!TypeOK'
  <2>1. stage' \in [Handlers -> L!Stages]
    BY <1>0 DEF Next, Die, Post, Latest, DownloadStep, Downloaded, LogStep, Logged, InstallEnds, vars,
                rotateVars, L!TypeOK, L!Stages, L!Begin, L!Step, L!Look, L!Rename, L!Open, L!Advance,
                L!Goto, L!Taken, L!Reset
  <2> QED
    BY <1>0, <2>1 DEF L!TypeOK, L!Stages, LogInv, LogTypes
\* the handlers
<1>3. /\ at' \in [Handlers -> {"idle", "latest", "download", "log", "install"}]
      /\ told' \in [Handlers -> {"none", "UpdatingWSL", "UpdateWSLFailed", "UpdateWSLSuccess"}]
      /\ {allowed, excused, crowded}' \subseteq BOOLEAN /\ requests' \in 0..MaxRequests
  <2> DEFINE Places == {"idle", "latest", "download", "log", "install"}
             Events == {"none", "UpdatingWSL", "UpdateWSLFailed", "UpdateWSLSuccess"}
  <2>0. at \in [Handlers -> Places] /\ told \in [Handlers -> Events] /\ requests \in 0..MaxRequests
    BY <1>0 DEF TypeOK
  <2>a. at' \in [Handlers -> Places]
    BY <2>0 DEF Next, Die, Post, Latest, DownloadStep, Downloaded, LogStep, Logged, InstallEnds,
                vars, handlerVars, Goto, Fail
  <2>1. told' \in [Handlers -> Events]
    BY <2>0 DEF Next, Die, Post, Latest, DownloadStep, Downloaded, LogStep, Logged, InstallEnds,
                vars, handlerVars, Tell, Fail
  <2>2. allowed' \in BOOLEAN /\ excused' \in BOOLEAN /\ crowded' \in BOOLEAN
    BY <1>0 DEF TypeOK, Next, Die, Post, Latest, DownloadStep, Downloaded, LogStep, Logged, InstallEnds,
                vars, handlerVars, NoteCrowd
  <2>3. requests' \in 0..MaxRequests
    <3>1. UNCHANGED requests \/ (requests < MaxRequests /\ requests' = requests + 1)
      BY DEF Next, Die, Post, Latest, DownloadStep, Downloaded, LogStep, Logged, InstallEnds,
             vars, handlerVars
    <3> QED
      BY <2>0, <3>1, MaxRequestsAssumption
  <2> QED
    BY <2>a, <2>1, <2>2, <2>3
<1>4. installing' \in [Handlers -> D!Content \cup {D!Absent}]
  <2> DEFINE File == D!Content \cup {D!Absent}
  <2>1. output \in File /\ D!Absent \in File /\ installing \in [Handlers -> File]
    BY <1>0 DEF TypeOK, D!TypeOK
  <2> HIDE DEF File
  <2>2. installing' \in [Handlers -> File]
    BY <2>1 DEF Next, Die, Post, Latest, DownloadStep, Downloaded, LogStep, Logged, InstallEnds,
                vars, handlerVars
  <2> QED
    BY <2>2 DEF File
<1>5. TypeOK'
  BY <1>1, <1>2, <1>3, <1>4, <1>a DEF TypeOK
<1> QED
  BY <1>0, <1>1, <1>5 DEF TypeInv

\* The type invariant of WSLUpdate, for any handlers, pieces and logs.
THEOREM UpdateTypesCorrect == Spec => []TypeOK
<1>1. TypeInv => TypeOK
  BY DEF TypeInv
<1> QED
  BY <1>1, TypeStart, TypeStep, PTL DEF Spec

-----------------------------------------------------------------------------
(* The argument for the installer: unless excused, every piece that is     *)
(* copied is wanted, and of the goroutines that may still rename the file  *)
(* one has written all of it so far: the one that truncated it last.  It   *)
(* cannot break off unnoticed, and nobody renames before it has finished.  *)

\* who may still rename the file
Busy(h) == D!Writing(h) \/ place[h] = "rename"

\* h has written the file up to its offset
Covers(h) ==
  /\ D!Writing(h)
  /\ place[h] = "copy" => \A i \in 1..Chunks : i < pos[h] => tmp[i] = "wanted"

TmpIsCovered ==
  (\E h \in Handlers : Busy(h)) /\ tmp # D!Absent
    => D!Wanted(tmp) \/ \E h \in Handlers : Covers(h)

OutputIsWanted == \A h \in Handlers : place[h] = "ok" \/ at[h] = "log" => D!Wanted(output)

InstallInv ==
  excused \/ /\ \A h \in Handlers : body[h] = "wanted"
             /\ TmpIsCovered /\ OutputIsWanted /\ InstalledIsWanted

\* A file is wanted when all its pieces are.
LEMMA WantedPieces ==
  ASSUME NEW f \in D!Content, \A i \in 1..Chunks : f[i] = "wanted"
  PROVE  D!Wanted(f)
BY DEF D!Wanted, D!Filled, D!Content

\* A step of one download keeps the file covered.
LEMMA CoverStep ==
  ASSUME TypeInv, InstallInv, ~excused', NEW h \in Handlers, DownloadStep(h)
  PROVE  TmpIsCovered'
<1>0. /\ D!TypeOK /\ WriterHasFile /\ TmpIsCovered /\ ~excused
      /\ \A g \in Handlers : body[g] = "wanted"
      /\ place \in [Handlers -> D!Places] /\ pos \in [Handlers -> 1..Chunks + 1]
  BY DEF TypeInv, TypeOK, InstallInv, DownloadStep, D!TypeOK
<1>1. Chunks \in Nat /\ Chunks >= 1
  BY ChunksAssumption
<1>2. D!Writing(h) /\ place'[h] = "failed" => \A g \in Handlers \ {h} : ~Busy(g)
  BY <1>0 DEF DownloadStep, Busy
<1>3. SUFFICES ASSUME NEW b \in Handlers, Busy(b)', tmp' # D!Absent
               PROVE  D!Wanted(tmp') \/ \E g \in Handlers : Covers(g)'
  BY DEF TmpIsCovered, D!Wanted, D!Filled, D!Absent
\* nothing of the files changes, and h was busy if it is
<1>4. ASSUME UNCHANGED <<tmp, pos>>, D!Writing(h)' = D!Writing(h),
             \A g \in Handlers \ {h} : place'[g] = place[g],
             place'[h] = "copy" => place[h] = "copy",
             Busy(h)' => Busy(h)
      PROVE  D!Wanted(tmp') \/ \E g \in Handlers : Covers(g)'
  <2>1. Busy(b)
    BY <1>3, <1>4 DEF Busy, D!Writing
  <2>2. ASSUME NEW g \in Handlers, Covers(g) PROVE Covers(g)'
    BY <1>4, <2>2 DEF Covers, D!Writing
  <2> QED
    BY <1>0, <1>3, <1>4, <2>1, <2>2 DEF TmpIsCovered
\* h breaks off: nobody else is busy
<1>5. ASSUME D!Writing(h), place' = [place EXCEPT ![h] = "failed"]
      PROVE  FALSE
  BY <1>0, <1>2, <1>3, <1>5 DEF Busy, D!Writing
<1>6. CASE D!CheckOutput(h)
  BY <1>0, <1>4, <1>6 DEF D!CheckOutput, D!Goto, D!Writing, Busy
<1>7. CASE D!CheckTmp(h)
  <2>1. CASE D!Wanted(tmp)
    BY <1>7, <2>1 DEF D!CheckTmp
  <2>2. CASE ~D!Wanted(tmp)
    BY <1>0, <1>4, <1>7, <2>2 DEF D!CheckTmp, D!Goto, D!Writing, Busy
  <2> QED
    BY <2>1, <2>2
<1>8. CASE D!Create(h)
  <2>1. CASE D!Goto(h, "create", "request")
    <3>1. Covers(h)'
      BY <1>0, <2>1 DEF D!Goto, Covers, D!Writing
    <3> QED
      BY <3>1
  <2>2. CASE D!Goto(h, "create", "failed") /\ UNCHANGED <<output, tmp, pos, body>>
    BY <1>0, <1>4, <2>2 DEF D!Goto, D!Writing, Busy
  <2> QED
    BY <1>8, <2>1, <2>2 DEF D!Create
<1>9. CASE D!Request(h)
  <2>1. CASE D!Goto(h, "request", "copy") /\ pos' = [pos EXCEPT ![h] = 1] /\ UNCHANGED tmp
    <3>1. Busy(h)
      BY <2>1 DEF D!Goto, Busy, D!Writing
    <3>2. Covers(h)'
      BY <1>0, <1>1, <2>1 DEF D!Goto, Covers, D!Writing
    <3> QED
      BY <3>2
  <2>2. CASE D!Goto(h, "request", "failed")
    BY <1>5, <2>2 DEF D!Goto, D!Writing
  <2> QED
    BY <1>9, <2>1, <2>2 DEF D!Request
<1>10. CASE D!CopyPiece(h)
  <2>1. /\ place[h] = "copy" /\ UNCHANGED place /\ pos[h] \in 1..Chunks
        /\ tmp' = [tmp EXCEPT ![pos[h]] = "wanted"] /\ pos' = [pos EXCEPT ![h] = pos[h] + 1]
    <3>1. /\ place[h] = "copy" /\ UNCHANGED place /\ pos[h] <= Chunks
          /\ tmp' = [tmp EXCEPT ![pos[h]] = body[h]] /\ pos' = [pos EXCEPT ![h] = pos[h] + 1]
      BY <1>10 DEF D!CopyPiece
    <3>2. body[h] = "wanted" /\ pos[h] \in 1..Chunks + 1
      BY <1>0
    <3>3. pos[h] \in 1..Chunks
      BY <1>1, <3>1, <3>2
    <3> QED
      BY <3>1, <3>2, <3>3
  <2>2. tmp \in D!Content /\ tmp # D!Absent
    <3>1. tmp \in D!Content
      BY <1>0, <2>1 DEF WriterHasFile, D!Writing
    <3>2. tmp # D!Absent
      <4>1. 1 \in DOMAIN tmp
        BY <1>1, <3>1 DEF D!Content
      <4>2. 1 \notin DOMAIN D!Absent
        BY DEF D!Absent
      <4> QED
        BY <4>1, <4>2
    <3> QED
      BY <3>1, <3>2
  <2>3. /\ tmp' \in D!Content
        /\ \A i \in 1..Chunks : tmp[i] = "wanted" => tmp'[i] = "wanted"
        /\ tmp'[pos[h]] = "wanted"
    BY <2>1, <2>2 DEF D!Content
  <2>4. CASE D!Wanted(tmp)
    <3>1. \A i \in 1..Chunks : tmp[i] = "wanted"
      BY <2>4 DEF D!Wanted, D!Filled
    <3> QED
      BY <2>3, <3>1, WantedPieces
  <2>5. ASSUME NEW g \in Handlers, Covers(g) PROVE Covers(g)'
    <3>1. CASE g = h
      BY <1>0, <1>1, <2>1, <2>3, <2>5, <3>1 DEF Covers, D!Writing
    <3>2. CASE g # h
      BY <1>0, <2>1, <2>3, <2>5, <3>2 DEF Covers, D!Writing
    <3> QED
      BY <3>1, <3>2
  <2>6. Busy(h)
    BY <2>1 DEF Busy, D!Writing
  <2> QED
    BY <1>0, <2>2, <2>4, <2>5, <2>6 DEF TmpIsCovered
<1>11. CASE D!CopyEnds(h)
  <2>1. CASE pos[h] > Chunks
    <3>1. place[h] = "copy" /\ place' = [place EXCEPT ![h] = "rename"] /\ UNCHANGED <<tmp, pos>>
      BY <1>11, <2>1 DEF D!CopyEnds, D!Goto
    <3>2. tmp \in D!Content /\ Busy(h)
      BY <1>0, <3>1 DEF WriterHasFile, D!Writing, Busy
    <3>3. D!Wanted(tmp) \/ \E g \in Handlers : Covers(g)
      BY <1>0, <1>3, <3>1, <3>2 DEF TmpIsCovered
    <3>4. CASE Covers(h)
      <4>1. \A i \in 1..Chunks : tmp[i] = "wanted"
        BY <1>0, <1>1, <2>1, <3>1, <3>4 DEF Covers
      <4> QED
        BY <3>1, <3>2, <4>1, WantedPieces
    <3>5. ASSUME NEW g \in Handlers \ {h}, Covers(g) PROVE Covers(g)'
      BY <1>0, <3>1, <3>5 DEF Covers, D!Writing
    <3> QED
      BY <3>1, <3>3, <3>4, <3>5
  <2>2. CASE ~(pos[h] > Chunks)
    BY <1>5, <1>11, <2>2 DEF D!CopyEnds, D!Goto, D!Writing
  <2> QED
    BY <2>1, <2>2
<1>12. CASE D!Rename(h)
  <2>1. CASE tmp' = D!Absent
    BY <1>3, <2>1
  <2>2. CASE D!Goto(h, "rename", "failed") /\ UNCHANGED <<output, tmp, pos, body>>
    BY <1>0, <1>4, <2>2 DEF D!Goto, D!Writing, Busy
  <2> QED
    BY <1>12, <2>1, <2>2 DEF D!Rename
<1> QED
  BY <1>6, <1>7, <1>8, <1>9, <1>10, <1>11, <1>12 DEF DownloadStep, D!Step

\* What is renamed is wanted.
LEMMA OutputStep ==
  ASSUME TypeInv, InstallInv, ~excused', NEW h \in Handlers, DownloadStep(h)
  PROVE  OutputIsWanted'
<1>0. /\ TmpIsCovered /\ OutputIsWanted /\ ~excused /\ place \in [Handlers -> D!Places] /\ UNCHANGED at
  BY DEF TypeInv, TypeOK, D!TypeOK, InstallInv, DownloadStep, handlerVars
<1>1. SUFFICES ASSUME NEW g \in Handlers, place'[g] = "ok" \/ at'[g] = "log"
               PROVE  D!Wanted(output')
  BY DEF OutputIsWanted, D!Wanted, D!Filled
<1>2. CASE UNCHANGED output /\ (place'[g] = "ok" => place[g] = "ok")
  BY <1>0, <1>1, <1>2 DEF OutputIsWanted
<1>3. CASE D!Rename(h)
  <2>1. CASE /\ D!Goto(h, "rename", "ok") /\ output' = tmp /\ tmp # D!Absent
             /\ \A other \in Handlers : ~D!Writing(other)
    <3>1. Busy(h) /\ \A other \in Handlers : ~Covers(other)
      BY <2>1 DEF Busy, Covers, D!Goto
    <3> QED
      BY <1>0, <2>1, <3>1 DEF TmpIsCovered
  <2>2. CASE D!Goto(h, "rename", "failed") /\ UNCHANGED output
    BY <1>0, <1>2, <2>2 DEF D!Goto
  <2> QED
    BY <1>3, <2>1, <2>2 DEF D!Rename
<1>4. CASE D!CheckOutput(h)
  <2>1. CASE D!Wanted(output)
    BY <1>4, <2>1 DEF D!CheckOutput
  <2>2. CASE ~D!Wanted(output)
    BY <1>0, <1>2, <1>4, <2>2 DEF D!CheckOutput, D!Goto
  <2> QED
    BY <2>1, <2>2
<1>5. CASE D!CheckTmp(h) \/ D!Create(h) \/ D!Request(h) \/ D!CopyPiece(h) \/ D!CopyEnds(h)
  BY <1>0, <1>2, <1>5 DEF D!CheckTmp, D!Create, D!Request, D!CopyPiece, D!CopyEnds, D!Goto
<1> QED
  BY <1>3, <1>4, <1>5 DEF DownloadStep, D!Step

\* The start has nobody busy.
LEMMA InstallStart == Init => InstallInv
BY DEF Init, D!Init, InstallInv, TmpIsCovered, OutputIsWanted, InstalledIsWanted, Busy, D!Writing

\* Every step keeps the invariant.
LEMMA InstallStep == TypeInv /\ InstallInv /\ [Next]_vars => InstallInv'
<1> SUFFICES ASSUME TypeInv, InstallInv, [Next]_vars, ~excused' PROVE InstallInv'
  BY DEF InstallInv
<1>0. ~excused
  BY DEF Next, Die, Post, Latest, DownloadStep, Downloaded, LogStep, Logged, InstallEnds, vars
<1>1. /\ \A h \in Handlers : body[h] = "wanted"
      /\ TmpIsCovered /\ OutputIsWanted /\ InstalledIsWanted
      /\ place \in [Handlers -> D!Places] /\ body \in [Handlers -> {"wanted", "other"}]
      /\ at \in [Handlers -> {"idle", "latest", "download", "log", "install"}]
      /\ installing \in [Handlers -> D!Content \cup {D!Absent}]
  BY <1>0 DEF InstallInv, TypeInv, TypeOK, D!TypeOK
\* a step that leaves the files alone and makes nobody busy
<1>2. ASSUME UNCHANGED <<output, tmp, pos, body>>,
             \A h \in Handlers : Busy(h)' => Busy(h),
             \A h \in Handlers : Busy(h) => place'[h] = place[h],
             \A h \in Handlers : place'[h] = "ok" \/ at'[h] = "log" => place[h] = "ok" \/ at[h] = "log",
             \A h \in Handlers : at'[h] = "install" =>
               \/ at[h] = "install" /\ installing'[h] = installing[h]
               \/ at[h] = "log" /\ installing'[h] = output
      PROVE  InstallInv'
  <2>1. \A h \in Handlers : Covers(h) => Covers(h)'
    BY <1>2 DEF Covers, Busy, D!Writing
  <2>2. TmpIsCovered'
    BY <1>1, <1>2, <2>1 DEF TmpIsCovered, D!Wanted, D!Filled, D!Absent
  <2>3. OutputIsWanted'
    BY <1>1, <1>2 DEF OutputIsWanted, D!Wanted, D!Filled
  <2>4. InstalledIsWanted'
    <3> SUFFICES ASSUME NEW h \in Handlers, at'[h] = "install" PROVE D!Wanted(installing'[h])
      BY DEF InstalledIsWanted, D!Wanted, D!Filled
    <3> QED
      BY <1>0, <1>1, <1>2 DEF InstalledIsWanted, OutputIsWanted
  <2> QED
    BY <1>1, <1>2, <2>2, <2>3, <2>4 DEF InstallInv
<1>3. CASE Die
  <2>1. UNCHANGED <<output, tmp, pos, body>>
    BY <1>3 DEF Die, D!Reset
  <2>2. \A h \in Handlers : place'[h] = "idle" /\ at'[h] = "idle"
    BY <1>3 DEF Die, D!Reset
  <2>3. ~(\E h \in Handlers : Busy(h)')
    BY <2>2 DEF Busy, D!Writing
  <2>4. TmpIsCovered'
    BY <2>3 DEF TmpIsCovered
  <2>5. OutputIsWanted' /\ InstalledIsWanted'
    BY <2>2 DEF OutputIsWanted, InstalledIsWanted
  <2> QED
    BY <1>1, <2>1, <2>4, <2>5 DEF InstallInv
<1>4. ASSUME NEW h \in Handlers, Post(h) \/ LogStep(h) PROVE InstallInv'
  <2>1. UNCHANGED downloadVars /\ UNCHANGED installing
    BY <1>4 DEF Post, LogStep, handlerVars
  <2>2. \A g \in Handlers : at'[g] \in {"log", "install"} => at'[g] = at[g]
    BY <1>1, <1>4 DEF Post, LogStep, handlerVars, Goto
  <2> QED
    BY <1>2, <2>1, <2>2 DEF downloadVars, Busy, D!Writing
<1>5. ASSUME NEW h \in Handlers, Latest(h) PROVE InstallInv'
  <2>1. UNCHANGED <<output, tmp, pos, body, installing>>
    BY <1>5 DEF Latest, D!Begin, downloadVars
  <2>2. \/ UNCHANGED place
        \/ place[h] = "idle" /\ place' = [place EXCEPT ![h] = "output"]
    BY <1>5 DEF Latest, D!Begin, D!Goto, downloadVars
  <2>3. \A g \in Handlers : at'[g] \in {"log", "install"} => at'[g] = at[g]
    BY <1>1, <1>5 DEF Latest, Goto, Fail
  <2> QED
    BY <1>1, <1>2, <2>1, <2>2, <2>3 DEF Busy, D!Writing
<1>6. ASSUME NEW h \in Handlers, Downloaded(h) PROVE InstallInv'
  <2>1. UNCHANGED <<output, tmp, pos, body, installing>>
    BY <1>6 DEF Downloaded, D!Taken
  <2>2. \/ place[h] = "ok" /\ place' = [place EXCEPT ![h] = "idle"] /\ at' = [at EXCEPT ![h] = "log"]
        \/ place[h] = "failed" /\ place' = [place EXCEPT ![h] = "idle"] /\ at' = [at EXCEPT ![h] = "idle"]
    BY <1>6 DEF Downloaded, D!Taken, D!Goto, Goto, Fail
  <2> QED
    BY <1>1, <1>2, <2>1, <2>2 DEF Busy, D!Writing
<1>7. ASSUME NEW h \in Handlers, DownloadStep(h) PROVE InstallInv'
  <2>1. TmpIsCovered' /\ OutputIsWanted'
    BY <1>7, CoverStep, OutputStep
  <2>2. \A g \in Handlers : body'[g] = "wanted"
    BY <1>0, <1>1, <1>7 DEF DownloadStep, D!Step, D!CheckOutput, D!CheckTmp, D!Create, D!Request,
                            D!CopyPiece, D!CopyEnds, D!Rename
  <2>3. InstalledIsWanted'
    BY <1>0, <1>1, <1>7 DEF DownloadStep, handlerVars, InstalledIsWanted, D!Wanted, D!Filled
  <2> QED
    BY <2>1, <2>2, <2>3 DEF InstallInv
<1>8. ASSUME NEW h \in Handlers, Logged(h) PROVE InstallInv'
  <2>1. UNCHANGED downloadVars
    BY <1>8 DEF Logged
  <2>2. \/ /\ at[h] = "log" /\ at' = [at EXCEPT ![h] = "install"]
           /\ installing' = [installing EXCEPT ![h] = output]
        \/ at[h] = "log" /\ at' = [at EXCEPT ![h] = "idle"] /\ UNCHANGED installing
    BY <1>8 DEF Logged, Goto
  <2> QED
    BY <1>1, <1>2, <2>1, <2>2 DEF downloadVars, Busy, D!Writing
<1>9. ASSUME NEW h \in Handlers, InstallEnds(h) PROVE InstallInv'
  <2>1. UNCHANGED downloadVars /\ at' = [at EXCEPT ![h] = "idle"]
        /\ installing' = [installing EXCEPT ![h] = D!Absent]
    BY <1>9 DEF InstallEnds, Goto, Fail
  <2> QED
    BY <1>1, <1>2, <2>1 DEF downloadVars, Busy, D!Writing
<1>10. CASE UNCHANGED vars
  BY <1>2, <1>10 DEF vars, downloadVars, handlerVars, Busy, D!Writing
<1> QED
  BY <1>3, <1>4, <1>5, <1>6, <1>7, <1>8, <1>9, <1>10 DEF Next

\* msiexec is started on the installer asked for, for any number of requests that
\* download it together, fail or die, and any number of pieces (Download, Update).
THEOREM InstalledIsAlwaysWanted == Spec => []InstalledIsWanted
<1>1. InstallInv => InstalledIsWanted
  BY DEF InstallInv, InstalledIsWanted
<1> QED
  BY <1>1, TypeStart, TypeStep, InstallStart, InstallStep, PTL DEF Spec

-----------------------------------------------------------------------------
(* The argument for what a rotation loses: while only one is in progress,  *)
(* the place above the one it looks at is free, for it starts at the last  *)
(* but one and has just emptied each place it leaves.                      *)

\* the place into which the next rename or the new log goes is free, or the last one
RoomAbove(h) ==
  /\ stage[h] \in {"look", "rename"} => slot[h] = LogCount - 1 \/ logs[slot[h] + 1] = 0
  /\ stage[h] = "open" => logs[1] = 0

Alone == \A g, h \in Handlers : Rotating(g) /\ Rotating(h) => g = h

RoomInv == crowded \/ (Alone /\ \A h \in Handlers : RoomAbove(h))

\* A step of the rotation that is alone leaves room for its next step.
LEMMA RoomStep ==
  ASSUME TypeInv, NEW h \in Handlers, RoomAbove(h), L!Step(h)
  PROVE  RoomAbove(h)'
<1>0. /\ stage \in [Handlers -> L!Stages] /\ slot \in [Handlers -> 1..LogCount - 1]
      /\ logs \in [L!Slot -> Nat]
  BY DEF TypeInv, LogInv, LogTypes, TypeOK, L!TypeOK
<1>1. /\ LogCount \in Nat /\ LogCount >= 2 /\ slot[h] \in L!Slot /\ slot[h] + 1 \in L!Slot
      /\ slot[h] \in Nat /\ slot[h] >= 1 /\ 1 \in L!Slot
  BY <1>0, LogCountAssumption DEF L!Slot
\* the place that the loop leaves is empty
<1>2. ASSUME NEW from, L!Advance(h, from), logs'[slot[h]] = 0 PROVE RoomAbove(h)'
  <2>1. CASE slot[h] > 1
    <3>1. stage'[h] = "look" /\ slot'[h] = slot[h] - 1
      BY <1>0, <1>2, <2>1 DEF L!Advance, L!Goto
    <3>2. slot'[h] + 1 = slot[h]
      BY <1>1, <3>1
    <3> QED
      BY <1>2, <3>1, <3>2 DEF RoomAbove
  <2>2. CASE ~(slot[h] > 1)
    <3>1. stage'[h] = "open" /\ slot[h] = 1
      BY <1>0, <1>1, <1>2, <2>2 DEF L!Advance, L!Goto
    <3> QED
      BY <1>2, <3>1 DEF RoomAbove
  <2> QED
    BY <2>1, <2>2
<1>3. CASE L!Look(h)
  <2>1. CASE logs[slot[h]] # 0
    BY <1>0, <1>3, <2>1 DEF L!Look, L!Goto, RoomAbove
  <2>2. CASE logs[slot[h]] = 0
    BY <1>2, <1>3, <2>2 DEF L!Look
  <2> QED
    BY <2>1, <2>2
<1>4. ASSUME stage'[h] \in {"ok", "failed"} PROVE RoomAbove(h)'
  BY <1>4 DEF RoomAbove
<1>5. CASE L!Rename(h)
  <2>1. CASE /\ logs' = [logs EXCEPT ![slot[h] + 1] = logs[slot[h]], ![slot[h]] = 0]
             /\ L!Advance(h, "rename")
    <3>1. logs'[slot[h]] = 0
      BY <1>0, <1>1, <2>1
    <3> QED
      BY <1>2, <2>1, <3>1
  <2>2. CASE L!Goto(h, "rename", "failed")
    BY <1>0, <1>4, <2>2 DEF L!Goto
  <2> QED
    BY <1>5, <2>1, <2>2 DEF L!Rename
<1>6. CASE L!Open(h)
  BY <1>0, <1>4, <1>6 DEF L!Open, L!Goto
<1> QED
  BY <1>3, <1>5, <1>6 DEF L!Step

\* The start has no rotation.
LEMMA RoomStart == Init => RoomInv
BY DEF Init, L!Init, RoomInv, Alone, Rotating, RoomAbove

\* Every step keeps the room.
LEMMA RoomKeeps == TypeInv /\ RoomInv /\ [Next]_vars => RoomInv'
<1> SUFFICES ASSUME TypeInv, RoomInv, [Next]_vars, ~crowded' PROVE RoomInv'
  BY DEF RoomInv
<1>0. stage \in [Handlers -> L!Stages] /\ slot \in [Handlers -> 1..LogCount - 1]
  BY DEF TypeInv, LogInv, LogTypes, TypeOK, L!TypeOK
<1>1. ASSUME \A h \in Handlers : ~Rotating(h)' PROVE RoomInv'
  BY <1>1 DEF RoomInv, Alone, Rotating, RoomAbove
\* after a step that watches for others, one handler rotates at most
<1>2. ASSUME NoteCrowd, NEW h \in Handlers,
             \A g \in Handlers \ {h} : stage'[g] = stage[g] /\ slot'[g] = slot[g],
             ~crowded => RoomAbove(h)',
             ~Rotating(h) \/ ~Rotating(h)' => UNCHANGED logs
      PROVE  RoomInv'
  <2> DEFINE active == {g \in Handlers : Rotating(g)'}
  <2>1. CASE active = {}
    BY <1>1, <2>1
  <2>2. CASE active # {}
    <3>1. ~crowded /\ \A f, g \in active : f = g
      BY <1>2, <2>2 DEF NoteCrowd
    <3>2. Alone'
      BY <3>1 DEF Alone
    <3>3. Alone /\ \A g \in Handlers : RoomAbove(g)
      BY <3>1 DEF RoomInv
    <3>4. ASSUME NEW g \in Handlers PROVE RoomAbove(g)'
      <4>1. CASE g = h
        BY <1>2, <3>1, <4>1
      <4>2. CASE g # h /\ ~Rotating(g)'
        BY <4>2 DEF Rotating, RoomAbove
      <4>3. CASE g # h /\ Rotating(g)'
        <5>1. ~Rotating(h)' /\ UNCHANGED logs
          BY <1>2, <3>1, <4>3
        <5> QED
          BY <1>2, <3>3, <4>3, <5>1 DEF RoomAbove
      <4> QED
        BY <4>1, <4>2, <4>3
    <3> QED
      BY <3>2, <3>4 DEF RoomInv
  <2> QED
    BY <2>1, <2>2
\* a step that leaves the logs alone and starts no rotation
<1>3. ASSUME UNCHANGED <<logs, slot, crowded>>,
             \A h \in Handlers : Rotating(h)' => stage'[h] = stage[h]
      PROVE  RoomInv'
  <2>1. Alone /\ \A h \in Handlers : RoomAbove(h)
    BY <1>3 DEF RoomInv
  <2>2. Alone'
    BY <1>3, <2>1 DEF Alone, Rotating
  <2>3. \A h \in Handlers : RoomAbove(h)'
    BY <1>3, <2>1 DEF RoomAbove, Rotating
  <2> QED
    BY <2>2, <2>3 DEF RoomInv
<1>4. CASE Die
  BY <1>1, <1>4 DEF Die, L!Reset, Rotating
<1>5. ASSUME NEW h \in Handlers, Post(h) \/ Latest(h) \/ DownloadStep(h) \/ InstallEnds(h)
      PROVE  RoomInv'
  BY <1>3, <1>5 DEF Post, Latest, DownloadStep, InstallEnds, rotateVars
<1>6. ASSUME NEW h \in Handlers, Downloaded(h) PROVE RoomInv'
  <2>1. CASE L!Begin(h)
    <3>1. /\ stage' = [stage EXCEPT ![h] = "look"] /\ slot' = [slot EXCEPT ![h] = LogCount - 1]
          /\ UNCHANGED logs
      BY <2>1 DEF L!Begin, L!Goto
    <3>2. RoomAbove(h)'
      BY <1>0, <3>1 DEF RoomAbove
    <3> QED
      BY <1>2, <1>6, <3>1, <3>2 DEF Downloaded
  <2>2. CASE UNCHANGED rotateVars
    <3>1. ~crowded => RoomAbove(h)'
      BY <2>2 DEF RoomInv, RoomAbove, rotateVars
    <3> QED
      BY <1>2, <1>6, <2>2, <3>1 DEF Downloaded, rotateVars
  <2> QED
    BY <1>6, <2>1, <2>2 DEF Downloaded
<1>7. ASSUME NEW h \in Handlers, LogStep(h) PROVE RoomInv'
  <2>1. /\ L!Step(h) /\ NoteCrowd
        /\ \A g \in Handlers \ {h} : stage'[g] = stage[g] /\ slot'[g] = slot[g]
    BY <1>0, <1>7 DEF LogStep, L!Step, L!Look, L!Rename, L!Open, L!Advance, L!Goto
  <2>2. Rotating(h)
    BY <1>7 DEF LogStep, L!Step, L!Look, L!Rename, L!Open, L!Advance, L!Goto, Rotating
  <2>3. ~crowded => RoomAbove(h)'
    BY <2>1, RoomStep DEF RoomInv
  <2>4. CASE UNCHANGED logs
    BY <1>2, <2>1, <2>3, <2>4
  <2>5. CASE Rotating(h)'
    BY <1>2, <2>1, <2>2, <2>3, <2>5
  <2>6. CASE ~Rotating(h)' /\ logs' # logs
    \* the rotation has ended with its new log, and it was the only one
    <3>1. ASSUME NEW g \in Handlers, Rotating(g)' PROVE FALSE
      <4>1. g # h
        BY <2>6, <3>1
      <4>2. Rotating(g)
        BY <2>1, <3>1, <4>1 DEF Rotating
      <4>3. ~crowded
        BY <2>1, <3>1 DEF NoteCrowd
      <4> QED
        BY <2>2, <4>1, <4>2, <4>3 DEF RoomInv, Alone
    <3> QED
      BY <1>1, <3>1
  <2> QED
    BY <2>4, <2>5, <2>6
<1>8. ASSUME NEW h \in Handlers, Logged(h) PROVE RoomInv'
  BY <1>0, <1>3, <1>8 DEF Logged, L!Taken, L!Goto, Rotating
<1>9. CASE UNCHANGED vars
  BY <1>3, <1>9 DEF vars, rotateVars
<1> QED
  BY <1>4, <1>5, <1>6, <1>7, <1>8, <1>9 DEF Next

\* A step that does not meet another rotation loses the last log only.
OnlyOldestLost ==
  \A i \in L!Slot \ {LogCount} : logs[i] = 0 \/ \E j \in L!Slot : logs'[j] = logs[i]

\* A rename with room above it loses the last log only.
LEMMA RenameLoses ==
  ASSUME TypeInv, NEW h \in Handlers, RoomAbove(h), L!Rename(h) PROVE OnlyOldestLost
<1>0. logs \in [L!Slot -> Nat] /\ slot \in [Handlers -> 1..LogCount - 1]
  BY DEF TypeInv, LogInv, LogTypes, TypeOK, L!TypeOK
<1>1. CASE UNCHANGED logs
  BY <1>1 DEF OnlyOldestLost
<1>2. CASE /\ stage[h] = "rename"
           /\ logs' = [logs EXCEPT ![slot[h] + 1] = logs[slot[h]], ![slot[h]] = 0]
  <2> DEFINE s == slot[h]
  <2>1. s \in L!Slot /\ s + 1 \in L!Slot /\ s # s + 1
    BY <1>0, LogCountAssumption DEF L!Slot
  <2>2. s + 1 = LogCount \/ logs[s + 1] = 0
    BY <1>0, <1>2, LogCountAssumption DEF RoomAbove
  <2>3. logs'[s + 1] = logs[s] /\ \A i \in L!Slot \ {s, s + 1} : logs'[i] = logs[i]
    BY <1>0, <1>2, <2>1
  <2> HIDE DEF s
  <2> QED
    BY <2>1, <2>2, <2>3 DEF OnlyOldestLost
<1> QED
  BY <1>1, <1>2 DEF L!Rename

\* A log is lost only when it is the oldest of logCount, while no two requests
\* rotate at the same time, for any number of requests and any logCount of two
\* or more, and wherever a rotation failed or broke off before (createLog).
THEOREM RotationLosesOldest == Spec => LostIsOldest
<1>1. ASSUME TypeInv, RoomInv, [Next]_vars, ~crowded PROVE OnlyOldestLost
  <2>1. CASE UNCHANGED logs
    BY <2>1 DEF OnlyOldestLost
  <2>2. ASSUME NEW h \in Handlers, LogStep(h) PROVE OnlyOldestLost
    <3>1. RoomAbove(h) /\ L!Step(h)
      BY <1>1, <2>2 DEF RoomInv, LogStep
    <3>2. CASE L!Look(h)
      BY <2>1, <3>2 DEF L!Look
    <3>3. CASE L!Rename(h)
      BY <1>1, <3>1, <3>3, RenameLoses
    <3>4. CASE L!Open(h)
      <4>1. logs \in [L!Slot -> Nat]
        BY <1>1 DEF TypeInv, LogInv, LogTypes
      <4>2. CASE stage[h] = "open" /\ logs' = [logs EXCEPT ![1] = next]
        <5>1. logs[1] = 0
          BY <3>1, <4>2 DEF RoomAbove
        <5> QED
          BY <4>1, <4>2, <5>1 DEF OnlyOldestLost
      <4> QED
        BY <2>1, <3>4, <4>2 DEF L!Open, L!Goto
    <3> QED
      BY <3>1, <3>2, <3>3, <3>4 DEF L!Step
  <2>3. CASE Die
    BY <2>1, <2>3 DEF Die, L!Reset
  <2>4. ASSUME NEW h \in Handlers,
               \/ Post(h) \/ Latest(h) \/ DownloadStep(h) \/ Downloaded(h)
               \/ Logged(h) \/ InstallEnds(h)
        PROVE  OnlyOldestLost
    BY <2>1, <2>4 DEF Post, Latest, DownloadStep, Downloaded, Logged, InstallEnds,
                      rotateVars, L!Begin, L!Taken
  <2>5. CASE UNCHANGED vars
    BY <2>1, <2>5 DEF vars, rotateVars
  <2> QED
    BY <1>1, <2>2, <2>3, <2>4, <2>5 DEF Next
<1>2. TypeInv /\ RoomInv /\ [Next]_vars => [crowded \/ OnlyOldestLost]_vars
  BY <1>1
<1>3. Init => RoomInv
  BY RoomStart
<1>4. Spec => [][crowded \/ OnlyOldestLost]_vars
  BY <1>2, <1>3, RoomKeeps, TypeStart, TypeStep, PTL DEF Spec
<1> QED
  BY <1>4 DEF LostIsOldest, OnlyOldestLost
=============================================================================
