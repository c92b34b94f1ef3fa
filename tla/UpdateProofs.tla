---------------------------- MODULE UpdateProofs ----------------------------
(***************************************************************************)
(* ReadyIsWanted and KeepUserData for every set of versions.               *)
(*                                                                         *)
(* The argument: todo is exactly what versions.json lacks (TodoIsRight),   *)
(* the parts in it that the run has passed are new and whole (DoneIsWhole),*)
(* and while clients only upgrade, versions.json naming the wanted version *)
(* of a part means that no unfinished run has touched the part since       *)
(* (JsonIsTrue).  For the user's data, versions.json names the version     *)
(* they were written under unless a save was interrupted (JsonKnowsData).  *)
(***************************************************************************)
EXTENDS Update, TLAPS

Busy == pc \in {"stopData", "removeData", "createData", "unregister", "import", "save"}
Good == ~downgraded /\ ~unread /\ ~lost

\* versions.json never runs ahead of the versions asked for
JsonBehind == ~downgraded => \A p \in Part : json[p] <= wanted[p]

\* versions.json is readable as a whole or not at all; a process has been asked for versions
JsonWhole == /\ json["data"] = 0 <=> json["rootfs"] = 0
             /\ pc # "idle" => \A p \in Part : wanted[p] # 0
             /\ torn => json = NoJson

JsonIsTrue ==
  Good => \A p \in Part : json[p] = wanted[p] /\ json[p] # 0
                            => installed[p] = wanted[p] /\ whole[p]

TodoIsRight ==
  /\ Busy => \A p \in Part \ todo : json[p] = wanted[p] /\ installed[p] # 0
  /\ Busy /\ Good => \A p \in todo : json[p] # wanted[p]
  /\ pc \in {"stopData", "removeData", "createData"} => "data" \in todo
  /\ pc \in {"unregister", "import"} => "rootfs" \in todo

DoneIsWhole ==
  /\ pc = "createData" => written = 0
  /\ pc \in {"unregister", "import", "save"} /\ "data" \in todo
       => installed["data"] = wanted["data"] /\ whole["data"] /\ written = 0
  /\ pc = "save" /\ "rootfs" \in todo
       => installed["rootfs"] = wanted["rootfs"] /\ whole["rootfs"]

ReadyIsSaved == pc = "ready" => json = wanted /\ installed["data"] # 0

JsonKnowsData ==
  /\ written # 0 => installed["data"] # 0
  /\ written # 0 /\ ~torn => json["data"] = written
  /\ Busy /\ "data" \in todo /\ written # 0 => json["data"] # wanted["data"] \/ torn \/ unread

UpdateInv == /\ TypeOK /\ JsonBehind /\ JsonWhole /\ JsonIsTrue /\ TodoIsRight
             /\ DoneIsWhole /\ ReadyIsSaved /\ JsonKnowsData

-----------------------------------------------------------------------------
\* Nothing is installed and nothing is saved at first.
LEMMA UpdateStart == Init => UpdateInv
<1> SUFFICES ASSUME Init PROVE UpdateInv
  OBVIOUS
<1>1. TypeOK
  BY VersionsAssumption DEF Init, TypeOK, Part, NoJson
<1>2. JsonBehind /\ JsonWhole /\ JsonIsTrue
  BY DEF Init, JsonBehind, JsonWhole, JsonIsTrue, Good, Part, NoJson
<1>3. TodoIsRight /\ DoneIsWhole /\ ReadyIsSaved /\ JsonKnowsData
  BY DEF Init, TodoIsRight, DoneIsWhole, ReadyIsSaved, JsonKnowsData, Busy, Good, Part, NoJson
<1> QED
  BY <1>1, <1>2, <1>3 DEF UpdateInv

\* Versions are ordered as numbers.
LEMMA VersionsAreNumbers ==
  ASSUME NEW f \in [Part -> Versions \cup {0}], NEW p \in Part
  PROVE  f[p] \in Nat
<1>1. f[p] \in Versions \cup {0}
  OBVIOUS
<1>2. \A v \in Versions : v \in Nat
  BY VersionsAssumption
<1> QED
  BY <1>1, <1>2

\* Every step keeps the invariant.
LEMMA UpdateStep == UpdateInv /\ [Next]_vars => UpdateInv'
<1> SUFFICES ASSUME UpdateInv, [Next]_vars PROVE UpdateInv'
  OBVIOUS
<1> USE VersionsAssumption DEF UpdateInv, TypeOK, Part, NoJson, disk, history
<1>1. ASSUME NEW w \in Wanted, Begin(w) PROVE UpdateInv'
  <2>1. TypeOK'
    BY <1>1 DEF Begin, Wanted
  <2>2. JsonBehind'
    <3> SUFFICES ASSUME ~downgraded', NEW p \in Part PROVE json'[p] <= wanted'[p]
      BY DEF JsonBehind
    <3>1. ~downgraded /\ wanted' = w /\ ~(w[p] < wanted[p])
      BY <1>1 DEF Begin
    <3>2. w[p] \in Nat /\ wanted[p] \in Nat /\ json[p] \in Nat
      BY VersionsAreNumbers, w \in [Part -> Versions \cup {0}] DEF Wanted
    <3>3. json[p] <= wanted[p]
      BY <3>1 DEF JsonBehind
    <3> QED
      BY <3>1, <3>2, <3>3, <1>1 DEF Begin
  <2>3. JsonWhole'
    BY <1>1 DEF Begin, Wanted, JsonWhole
  <2>4. JsonIsTrue'
    <3> SUFFICES ASSUME Good', NEW p \in Part, json'[p] = wanted'[p], json'[p] # 0
                 PROVE installed'[p] = wanted'[p] /\ whole'[p]
      BY DEF JsonIsTrue
    <3>1. Good /\ json[p] = w[p] /\ json[p] # 0 /\ ~(w[p] < wanted[p])
      BY <1>1 DEF Begin, Good
    <3>2. json[p] <= wanted[p]
      BY <3>1 DEF JsonBehind, Good
    <3>3. w[p] \in Nat /\ wanted[p] \in Nat
      BY VersionsAreNumbers, w \in [Part -> Versions \cup {0}] DEF Wanted
    <3>4. json[p] = wanted[p]
      BY <3>1, <3>2, <3>3
    <3> QED
      BY <3>1, <3>4, <1>1 DEF Begin, JsonIsTrue
  <2>5. TodoIsRight'
    BY <1>1 DEF Begin, TodoIsRight, Busy
  <2>6. DoneIsWhole'
    BY <1>1 DEF Begin, DoneIsWhole
  <2>7. ReadyIsSaved'
    BY <1>1 DEF Begin, ReadyIsSaved
  <2>8. JsonKnowsData'
    BY <1>1 DEF Begin, JsonKnowsData, Busy
  <2> QED
    BY <2>1, <2>2, <2>3, <2>4, <2>5, <2>6, <2>7, <2>8
<1>2. ASSUME needUpdate PROVE UpdateInv'
  <2>1. TypeOK'
    BY <1>2 DEF needUpdate, Needed, AfterCheck
  <2>2. JsonBehind'
    BY <1>2 DEF needUpdate, JsonBehind
  <2>3. JsonWhole'
    BY <1>2 DEF needUpdate, JsonWhole
  <2>4. JsonIsTrue'
    BY <1>2 DEF needUpdate, JsonIsTrue, Good
  <2>5. TodoIsRight'
    <3>1. ASSUME NEW p \in Part \ todo' PROVE json[p] = wanted[p] /\ installed[p] # 0
      BY <1>2, <3>1 DEF needUpdate, Needed
    <3>2. ASSUME Good', NEW p \in todo' PROVE json[p] # wanted[p]
      BY <1>2, <3>2 DEF needUpdate, Needed, Good, JsonIsTrue, JsonWhole
    <3>3. UNCHANGED <<json, wanted, installed>>
      BY <1>2 DEF needUpdate
    <3>4. /\ pc' \in {"stopData", "removeData", "createData"} => "data" \in todo'
          /\ pc' \in {"unregister", "import"} => "rootfs" \in todo'
      <4>1. todo' \subseteq Part /\ pc' = AfterCheck(todo')
        BY <1>2 DEF needUpdate, Needed
      <4>2. "data" \in todo' => pc' \in {"ready", "stopData"}
        BY <4>1 DEF AfterCheck
      <4>3. "data" \notin todo' => todo' = {} \/ "rootfs" \in todo'
        BY <4>1
      <4>4. pc' \in {"ready", "stopData", "unregister"} /\ (todo' = {} => pc' = "ready")
        BY <4>1 DEF AfterCheck
      <4>5. pc' = "stopData" => "data" \in todo'
        BY <4>1 DEF AfterCheck
      <4> QED
        BY <4>2, <4>3, <4>4, <4>5
    <3> QED
      BY <3>1, <3>2, <3>3, <3>4 DEF TodoIsRight, Busy
  <2>6. DoneIsWhole'
    BY <1>2 DEF needUpdate, AfterCheck, DoneIsWhole
  <2>7. ReadyIsSaved'
    BY <1>2 DEF needUpdate, Needed, AfterCheck, ReadyIsSaved
  <2>8. JsonKnowsData'
    BY <1>2 DEF needUpdate, Needed, JsonKnowsData
  <2> QED
    BY <2>1, <2>2, <2>3, <2>4, <2>5, <2>6, <2>7, <2>8
<1>3. ASSUME StopData PROVE UpdateInv'
  <2>1. TypeOK'
    BY <1>3 DEF StopData
  <2>2. JsonBehind'
    BY <1>3 DEF StopData, JsonBehind
  <2>3. JsonWhole'
    BY <1>3 DEF StopData, JsonWhole
  <2>4. JsonIsTrue'
    BY <1>3 DEF StopData, JsonIsTrue, Good
  <2>5. TodoIsRight'
    BY <1>3 DEF StopData, TodoIsRight, Busy, Good
  <2>6. DoneIsWhole'
    BY <1>3 DEF StopData, DoneIsWhole
  <2>7. ReadyIsSaved'
    BY <1>3 DEF StopData, ReadyIsSaved
  <2>8. JsonKnowsData'
    BY <1>3 DEF StopData, JsonKnowsData, Busy
  <2> QED
    BY <2>1, <2>2, <2>3, <2>4, <2>5, <2>6, <2>7, <2>8
<1>4. ASSUME RemoveData PROVE UpdateInv'
  <2>1. TypeOK'
    BY <1>4 DEF RemoveData
  <2>2. JsonBehind'
    BY <1>4 DEF RemoveData, JsonBehind
  <2>3. JsonWhole'
    BY <1>4 DEF RemoveData, JsonWhole
  <2>4. JsonIsTrue'
    BY <1>4 DEF RemoveData, JsonIsTrue, Good, TodoIsRight, Busy
  <2>5. TodoIsRight'
    BY <1>4 DEF RemoveData, TodoIsRight, Busy, Good
  <2>6. DoneIsWhole'
    BY <1>4 DEF RemoveData, DoneIsWhole
  <2>7. ReadyIsSaved'
    BY <1>4 DEF RemoveData, ReadyIsSaved
  <2>8. JsonKnowsData'
    BY <1>4 DEF RemoveData, JsonKnowsData
  <2> QED
    BY <2>1, <2>2, <2>3, <2>4, <2>5, <2>6, <2>7, <2>8
<1>5. ASSUME CreateData PROVE UpdateInv'
  <2>1. TypeOK'
    BY <1>5 DEF CreateData, MakeData, AfterData
  <2>2. JsonBehind'
    BY <1>5 DEF CreateData, MakeData, JsonBehind
  <2>3. JsonWhole'
    BY <1>5 DEF CreateData, MakeData, JsonWhole
  <2>4. JsonIsTrue'
    BY <1>5 DEF CreateData, MakeData, JsonIsTrue, Good
  <2>5. TodoIsRight'
    BY <1>5 DEF CreateData, MakeData, AfterData, TodoIsRight, Busy, Good
  <2>6. DoneIsWhole'
    BY <1>5 DEF CreateData, MakeData, AfterData, DoneIsWhole
  <2>7. ReadyIsSaved'
    BY <1>5 DEF CreateData, AfterData, ReadyIsSaved
  <2>8. JsonKnowsData'
    BY <1>5 DEF CreateData, MakeData, JsonKnowsData, DoneIsWhole
  <2> QED
    BY <2>1, <2>2, <2>3, <2>4, <2>5, <2>6, <2>7, <2>8
<1>6. ASSUME CreateBreaks PROVE UpdateInv'
  <2>1. TypeOK'
    BY <1>6 DEF CreateBreaks, MakeData
  <2>2. JsonBehind'
    BY <1>6 DEF CreateBreaks, MakeData, JsonBehind
  <2>3. JsonWhole'
    BY <1>6 DEF CreateBreaks, MakeData, JsonWhole
  <2>4. JsonIsTrue'
    BY <1>6 DEF CreateBreaks, MakeData, JsonIsTrue, Good, TodoIsRight, Busy
  <2>5. TodoIsRight'
    BY <1>6 DEF CreateBreaks, TodoIsRight, Busy
  <2>6. DoneIsWhole'
    BY <1>6 DEF CreateBreaks, DoneIsWhole
  <2>7. ReadyIsSaved'
    BY <1>6 DEF CreateBreaks, ReadyIsSaved
  <2>8. JsonKnowsData'
    BY <1>6 DEF CreateBreaks, MakeData, JsonKnowsData, DoneIsWhole
  <2> QED
    BY <2>1, <2>2, <2>3, <2>4, <2>5, <2>6, <2>7, <2>8
<1>7. ASSUME Unregister PROVE UpdateInv'
  <2>1. TypeOK'
    BY <1>7 DEF Unregister
  <2>2. JsonBehind'
    BY <1>7 DEF Unregister, JsonBehind
  <2>3. JsonWhole'
    BY <1>7 DEF Unregister, JsonWhole
  <2>4. JsonIsTrue'
    BY <1>7 DEF Unregister, JsonIsTrue, Good, TodoIsRight, Busy
  <2>5. TodoIsRight'
    BY <1>7 DEF Unregister, TodoIsRight, Busy, Good
  <2>6. DoneIsWhole'
    BY <1>7 DEF Unregister, DoneIsWhole
  <2>7. ReadyIsSaved'
    BY <1>7 DEF Unregister, ReadyIsSaved
  <2>8. JsonKnowsData'
    BY <1>7 DEF Unregister, JsonKnowsData, Busy
  <2> QED
    BY <2>1, <2>2, <2>3, <2>4, <2>5, <2>6, <2>7, <2>8
<1>8. ASSUME ImportDistro PROVE UpdateInv'
  <2>1. TypeOK'
    BY <1>8 DEF ImportDistro, MakeRootfs
  <2>2. JsonBehind'
    BY <1>8 DEF ImportDistro, MakeRootfs, JsonBehind
  <2>3. JsonWhole'
    BY <1>8 DEF ImportDistro, MakeRootfs, JsonWhole
  <2>4. JsonIsTrue'
    BY <1>8 DEF ImportDistro, MakeRootfs, JsonIsTrue, Good
  <2>5. TodoIsRight'
    BY <1>8 DEF ImportDistro, MakeRootfs, TodoIsRight, Busy, Good
  <2>6. DoneIsWhole'
    BY <1>8 DEF ImportDistro, MakeRootfs, DoneIsWhole
  <2>7. ReadyIsSaved'
    BY <1>8 DEF ImportDistro, ReadyIsSaved
  <2>8. JsonKnowsData'
    BY <1>8 DEF ImportDistro, MakeRootfs, JsonKnowsData, Busy
  <2> QED
    BY <2>1, <2>2, <2>3, <2>4, <2>5, <2>6, <2>7, <2>8
<1>9. ASSUME ImportBreaks PROVE UpdateInv'
  <2>1. TypeOK'
    BY <1>9 DEF ImportBreaks, MakeRootfs
  <2>2. JsonBehind'
    BY <1>9 DEF ImportBreaks, MakeRootfs, JsonBehind
  <2>3. JsonWhole'
    BY <1>9 DEF ImportBreaks, MakeRootfs, JsonWhole
  <2>4. JsonIsTrue'
    BY <1>9 DEF ImportBreaks, MakeRootfs, JsonIsTrue, Good, TodoIsRight, Busy
  <2>5. TodoIsRight'
    BY <1>9 DEF ImportBreaks, TodoIsRight, Busy
  <2>6. DoneIsWhole'
    BY <1>9 DEF ImportBreaks, DoneIsWhole
  <2>7. ReadyIsSaved'
    BY <1>9 DEF ImportBreaks, ReadyIsSaved
  <2>8. JsonKnowsData'
    BY <1>9 DEF ImportBreaks, MakeRootfs, JsonKnowsData, Busy
  <2> QED
    BY <2>1, <2>2, <2>3, <2>4, <2>5, <2>6, <2>7, <2>8
<1>10. ASSUME save PROVE UpdateInv'
  <2>1. TypeOK'
    BY <1>10 DEF save
  <2>2. JsonBehind'
    <3>1. json' = wanted /\ wanted' = wanted
      BY <1>10 DEF save
    <3>2. \A p \in Part : wanted[p] \in Nat
      BY VersionsAreNumbers
    <3> QED
      BY <3>1, <3>2 DEF JsonBehind
  <2>3. JsonWhole'
    BY <1>10 DEF save, JsonWhole
  <2>4. JsonIsTrue'
    BY <1>10 DEF save, JsonIsTrue, Good, DoneIsWhole, TodoIsRight, Busy
  <2>5. TodoIsRight'
    BY <1>10 DEF save, TodoIsRight, Busy
  <2>6. DoneIsWhole'
    BY <1>10 DEF save, DoneIsWhole
  <2>7. ReadyIsSaved'
    BY <1>10 DEF save, ReadyIsSaved, TodoIsRight, DoneIsWhole, JsonWhole, Busy
  <2>8. JsonKnowsData'
    BY <1>10 DEF save, JsonKnowsData, JsonWhole, TodoIsRight, DoneIsWhole, Busy
  <2> QED
    BY <2>1, <2>2, <2>3, <2>4, <2>5, <2>6, <2>7, <2>8
<1>11. ASSUME SaveBreaks PROVE UpdateInv'
  <2>1. TypeOK'
    BY <1>11 DEF SaveBreaks
  <2>2. JsonBehind'
    <3>1. json' = NoJson /\ wanted' = wanted
      BY <1>11 DEF SaveBreaks
    <3>2. \A p \in Part : wanted[p] \in Nat
      BY VersionsAreNumbers
    <3> QED
      BY <3>1, <3>2 DEF JsonBehind
  <2>3. JsonWhole'
    BY <1>11 DEF SaveBreaks, JsonWhole
  <2>4. JsonIsTrue'
    BY <1>11 DEF SaveBreaks, JsonIsTrue
  <2>5. TodoIsRight'
    BY <1>11 DEF SaveBreaks, TodoIsRight, Busy
  <2>6. DoneIsWhole'
    BY <1>11 DEF SaveBreaks, DoneIsWhole
  <2>7. ReadyIsSaved'
    BY <1>11 DEF SaveBreaks, ReadyIsSaved
  <2>8. JsonKnowsData'
    BY <1>11 DEF SaveBreaks, JsonKnowsData
  <2> QED
    BY <2>1, <2>2, <2>3, <2>4, <2>5, <2>6, <2>7, <2>8
<1>12. ASSUME Stop PROVE UpdateInv'
  <2>1. TypeOK'
    BY <1>12 DEF Stop
  <2>2. JsonBehind'
    BY <1>12 DEF Stop, JsonBehind
  <2>3. JsonWhole'
    BY <1>12 DEF Stop, JsonWhole
  <2>4. JsonIsTrue'
    BY <1>12 DEF Stop, JsonIsTrue, Good
  <2>5. TodoIsRight'
    BY <1>12 DEF Stop, TodoIsRight, Busy
  <2>6. DoneIsWhole'
    BY <1>12 DEF Stop, DoneIsWhole
  <2>7. ReadyIsSaved'
    BY <1>12 DEF Stop, ReadyIsSaved
  <2>8. JsonKnowsData'
    BY <1>12 DEF Stop, JsonKnowsData, Busy
  <2> QED
    BY <2>1, <2>2, <2>3, <2>4, <2>5, <2>6, <2>7, <2>8
<1>13. ASSUME UserWrites PROVE UpdateInv'
  <2>1. TypeOK'
    BY <1>13 DEF UserWrites
  <2>2. JsonBehind'
    BY <1>13 DEF UserWrites, JsonBehind
  <2>3. JsonWhole'
    BY <1>13 DEF UserWrites, JsonWhole
  <2>4. JsonIsTrue'
    BY <1>13 DEF UserWrites, JsonIsTrue, Good
  <2>5. TodoIsRight'
    BY <1>13 DEF UserWrites, TodoIsRight, Busy
  <2>6. DoneIsWhole'
    BY <1>13 DEF UserWrites, DoneIsWhole
  <2>7. ReadyIsSaved'
    BY <1>13 DEF UserWrites, ReadyIsSaved
  <2>8. JsonKnowsData'
    BY <1>13 DEF UserWrites, JsonKnowsData, Busy, ReadyIsSaved
  <2> QED
    BY <2>1, <2>2, <2>3, <2>4, <2>5, <2>6, <2>7, <2>8
<1>14. ASSUME NEW p \in Part, Lose(p) PROVE UpdateInv'
  <2>1. TypeOK'
    BY <1>14 DEF Lose
  <2>2. JsonBehind'
    BY <1>14 DEF Lose, JsonBehind
  <2>3. JsonWhole'
    BY <1>14 DEF Lose, JsonWhole
  <2>4. JsonIsTrue'
    BY <1>14 DEF Lose, JsonIsTrue, Good
  <2>5. TodoIsRight'
    BY <1>14 DEF Lose, TodoIsRight, Busy
  <2>6. DoneIsWhole'
    BY <1>14 DEF Lose, DoneIsWhole
  <2>7. ReadyIsSaved'
    BY <1>14 DEF Lose, ReadyIsSaved
  <2>8. JsonKnowsData'
    BY <1>14 DEF Lose, JsonKnowsData, Busy
  <2> QED
    BY <2>1, <2>2, <2>3, <2>4, <2>5, <2>6, <2>7, <2>8
<1>15. CASE UNCHANGED vars
  BY <1>15 DEF vars, JsonBehind, JsonWhole, JsonIsTrue, TodoIsRight, DoneIsWhole, ReadyIsSaved,
     JsonKnowsData, Busy, Good
<1> QED
  BY <1>1, <1>2, <1>3, <1>4, <1>5, <1>6, <1>7, <1>8, <1>9, <1>10, <1>11, <1>12, <1>13, <1>14, <1>15 DEF Next, Run

-----------------------------------------------------------------------------
\* UpdateInv holds throughout every behaviour of the updates.
THEOREM UpdateInvariant == Spec => []UpdateInv
  BY UpdateStart, UpdateStep, PTL DEF Spec

\* The variables of the update keep their types.
THEOREM UpdateTypes == Spec => []TypeOK
<1>1. UpdateInv => TypeOK
  BY DEF UpdateInv
<1> QED
  BY <1>1, UpdateInvariant, PTL

\* A run that reaches the launch has complete files of the versions it was asked
\* for, for every set of versions.
THEOREM ReadyIsWantedAlways == Spec => []ReadyIsWanted
<1>1. UpdateInv => ReadyIsWanted
  <2> SUFFICES ASSUME UpdateInv, pc = "ready", Good PROVE installed = wanted /\ \A p \in Part : whole[p]
    BY DEF ReadyIsWanted, Good
  <2>1. \A p \in Part : json[p] = wanted[p] /\ json[p] # 0
    BY DEF UpdateInv, ReadyIsSaved, JsonWhole, TypeOK, Part
  <2>2. \A p \in Part : installed[p] = wanted[p] /\ whole[p]
    BY <2>1 DEF UpdateInv, JsonIsTrue
  <2> QED
    BY <2>2 DEF UpdateInv, TypeOK
<1> QED
  BY <1>1, UpdateInvariant, PTL

\* No run removes the user's data while versions.json names their version and the
\* run wants the same one, for every set of versions.
THEOREM UserDataKept == Spec => KeepUserData
<1> DEFINE Keeps == pc # "idle" /\ written # 0 /\ written' = 0
                      => wanted["data"] # written \/ torn \/ unread
<1>1. UpdateInv /\ [Next]_vars => [Keeps]_vars
  <2> SUFFICES ASSUME UpdateInv, Next, pc # "idle", written # 0, written' = 0
              PROVE wanted["data"] # written \/ torn \/ unread
    OBVIOUS
  <2>1. CASE RemoveData
    BY <2>1 DEF RemoveData, UpdateInv, TodoIsRight, JsonKnowsData, Busy
  <2>2. CASE Run /\ ~RemoveData
    BY <2>2 DEF Run, needUpdate, StopData, CreateData, CreateBreaks, MakeData, Unregister,
       ImportDistro, ImportBreaks, MakeRootfs, save, SaveBreaks, Stop, disk, history
  <2>3. CASE UserWrites
    BY <2>3, VersionsAssumption DEF UserWrites, UpdateInv, JsonWhole, TypeOK, Part
  <2>4. ASSUME NEW w \in Wanted, Begin(w) PROVE FALSE
    BY <2>4 DEF Begin
  <2>5. ASSUME NEW p \in Part, Lose(p) PROVE FALSE
    BY <2>5 DEF Lose
  <2> QED
    BY <2>1, <2>2, <2>3, <2>4, <2>5 DEF Next
<1> QED
  BY <1>1, UpdateInvariant, PTL DEF Spec, KeepUserData
=============================================================================
