------------------------------- MODULE Update -------------------------------
(***************************************************************************)
(* pkg/update: before each "ovm run" the two parts of an installation, the *)
(* root file system (ext4.vhdx, imported into a WSL distro) and the data   *)
(* disk (data.vhdx, with the user's data), are replaced when versions.json *)
(* does not name the wanted version or the file is missing; versions.json  *)
(* is written last.  Every step may fail, and the process may die between  *)
(* and inside steps; the next run starts from what is on the disk.         *)
(*                                                                         *)
(* Progress events are not terminal: they only enter the queue of Event,   *)
(* and are left out here.                                                  *)
(***************************************************************************)
EXTENDS Naturals

CONSTANT Versions \* the version strings clients ask for, in release order

ASSUME VersionsAssumption == Versions \subseteq Nat \ {0}

Part == {"rootfs", "data"}
Wanted == [Part -> Versions]

\* a versions.json that is absent, unreadable or torn: os.WriteFile truncates
\* before it writes, and no proper prefix of a JSON object is one
NoJson == [p \in Part |-> 0]

VARIABLES
  pc,         \* where the process is; "idle": no process, "ready": the update is over
  wanted,     \* the versions this run (when idle: the last one) was asked for
  json,       \* versions.json
  installed,  \* the version each file was made from, 0: no file
  whole,      \* the file is complete
  registered, \* the distro is registered with WSL
  todo,       \* the result of needUpdate
  written,    \* the data version under which the user's data were written, 0: none
  unread,     \* history: an existing versions.json could not be read, and no update of
              \* both parts has finished since
  torn,       \* history: the last save did not finish
  lost,       \* history: a file was removed by somebody else
  downgraded  \* history: a version lower than one asked for before was asked for

history == <<unread, torn, lost, downgraded>>
disk == <<installed, whole, registered, written>>
vars == <<pc, wanted, json, disk, todo, history>>

TypeOK ==
  /\ pc \in {"idle", "check", "stopData", "removeData", "createData", "unregister", "import",
             "save", "ready"}
  /\ wanted \in [Part -> Versions \cup {0}] /\ json \in [Part -> Versions \cup {0}]
  /\ installed \in [Part -> Versions \cup {0}] /\ whole \in [Part -> BOOLEAN]
  /\ registered \in BOOLEAN /\ todo \in SUBSET Part /\ written \in Versions \cup {0}
  /\ unread \in BOOLEAN /\ torn \in BOOLEAN /\ lost \in BOOLEAN /\ downgraded \in BOOLEAN

Init == /\ pc = "idle" /\ wanted = [p \in Part |-> 0] /\ json = NoJson
        /\ installed = [p \in Part |-> 0] /\ whole = [p \in Part |-> FALSE]
        /\ registered = FALSE /\ todo = {} /\ written = 0
        /\ unread = FALSE /\ torn = FALSE /\ lost = FALSE /\ downgraded = FALSE

-----------------------------------------------------------------------------
\* a run starts, with the versions of its command line
Begin(w) ==
  /\ pc = "idle"
  /\ pc' = "check" /\ wanted' = w
  /\ downgraded' = (downgraded \/ \E p \in Part : w[p] < wanted[p])
  /\ UNCHANGED <<json, disk, todo, unread, torn, lost>>

\* mutant of Needed: one part that differs replaces both
NeededAll(v) == IF v = wanted /\ \A p \in Part : installed[p] # 0 THEN {} ELSE Part

\* mutant of Needed: a part that no longer exists is still looked for
NeededMore(v) == {p \in Part : v[p] # wanted[p] \/ installed[p] = 0} \cup {"code"}

\* needUpdate of a versions.json that says v
Needed(v) == {p \in Part : v[p] # wanted[p] \/ installed[p] = 0}

\* CheckAndReplace replaces the data disk first
AfterCheck(parts) == IF parts = {} THEN "ready"
                     ELSE IF "data" \in parts THEN "stopData" ELSE "unregister"
\* mutant of AfterData: the root file system is forgotten
AfterDataSaves == "save"
AfterData == IF "rootfs" \in todo THEN "unregister" ELSE "save"

\* a versions.json that cannot be read means that everything is replaced
needUpdate ==
  /\ pc = "check"
  /\ \E readable \in BOOLEAN :
       /\ unread' = (unread \/ (~readable /\ json # NoJson))
       /\ todo' = IF readable /\ json # NoJson THEN Needed(json) ELSE Part
  /\ pc' = AfterCheck(todo')
  /\ UNCHANGED <<wanted, json, disk, torn, lost, downgraded>>

\* SafeSyncDisk, Terminate and UmountVHDX
StopData == /\ pc = "stopData" /\ pc' = "removeData"
            /\ UNCHANGED <<wanted, json, disk, todo, history>>

RemoveData == /\ pc = "removeData" /\ pc' = "createData"
              /\ installed' = [installed EXCEPT !["data"] = 0] /\ written' = 0
              /\ UNCHANGED <<wanted, json, whole, registered, todo, history>>

\* vhdx.Create; when it fails or the process dies in it, a partial file may stay
MakeData(complete) ==
  /\ pc = "createData"
  /\ installed' = [installed EXCEPT !["data"] = wanted["data"]]
  /\ whole' = [whole EXCEPT !["data"] = complete]
  /\ UNCHANGED <<wanted, json, registered, todo, written, history>>
CreateData == MakeData(TRUE) /\ pc' = AfterData
CreateBreaks == MakeData(FALSE) /\ pc' = "idle"

\* SafeSyncDisk, and Unregister of an existing distro, which deletes its disk
Unregister ==
  /\ pc = "unregister" /\ pc' = "import"
  /\ installed' = [installed EXCEPT !["rootfs"] = IF registered THEN 0 ELSE @]
  /\ registered' = FALSE
  /\ UNCHANGED <<wanted, json, whole, todo, written, history>>

MakeRootfs(complete) ==
  /\ pc = "import"
  /\ installed' = [installed EXCEPT !["rootfs"] = wanted["rootfs"]]
  /\ whole' = [whole EXCEPT !["rootfs"] = complete]
  /\ registered' \in IF complete THEN {TRUE} ELSE BOOLEAN
  /\ UNCHANGED <<wanted, json, todo, written, history>>
ImportDistro == MakeRootfs(TRUE) /\ pc' = "save"
ImportBreaks == MakeRootfs(FALSE) /\ pc' = "idle"

save == /\ pc = "save" /\ pc' = "ready"
        /\ json' = wanted /\ torn' = FALSE /\ unread' = (unread /\ todo # Part)
        /\ UNCHANGED <<wanted, disk, todo, lost, downgraded>>

\* os.WriteFile fails, or the process dies in it, after the truncation
SaveBreaks == /\ pc = "save" /\ pc' = "idle"
              /\ json' = NoJson /\ torn' = TRUE
              /\ UNCHANGED <<wanted, disk, todo, unread, lost, downgraded>>

\* a step fails without an effect, or the process exits or dies between steps
Stop == /\ pc # "idle" /\ pc' = "idle"
        /\ UNCHANGED <<wanted, json, disk, todo, history>>

-----------------------------------------------------------------------------
\* the launched distro writes to the data disk
UserWrites == /\ pc = "ready" /\ written' = wanted["data"]
              /\ UNCHANGED <<pc, wanted, json, installed, whole, registered, todo, history>>

\* the user unregisters the distro, or removes data.vhdx
Lose(p) ==
  /\ pc = "idle" /\ installed[p] # 0
  /\ installed' = [installed EXCEPT ![p] = 0] /\ lost' = TRUE
  /\ registered' = (registered /\ p # "rootfs")
  /\ written' = IF p = "data" THEN 0 ELSE written
  /\ UNCHANGED <<pc, wanted, json, whole, todo, unread, torn, downgraded>>

Run == \/ needUpdate \/ StopData \/ RemoveData \/ CreateData \/ CreateBreaks
       \/ Unregister \/ ImportDistro \/ ImportBreaks \/ save \/ SaveBreaks
       \/ Stop

Next == \/ Run \/ UserWrites
        \/ \E w \in Wanted : Begin(w)
        \/ \E p \in Part : Lose(p)

Spec == Init /\ [][Next]_vars

-----------------------------------------------------------------------------
\* A run that goes on to launch the distro has complete files of exactly the
\* versions it was asked for, after any sequence of failed and interrupted
\* updates, as long as clients only upgrade, versions.json can be read when it
\* exists and nobody else removes files.  (Otherwise needUpdate may trust a
\* versions.json that is older than the files an unfinished run has left.)
ReadyIsWanted ==
  pc = "ready" /\ ~downgraded /\ ~unread /\ ~lost => installed = wanted /\ \A p \in Part : whole[p]

\* A run removes the user's data only when it wants another data version than
\* the one they were written under, or when versions.json says nothing, because
\* a save was interrupted or the file could not be read.
KeepUserData ==
  [][pc # "idle" /\ written # 0 /\ written' = 0
       => wanted["data"] # written \/ torn \/ unread]_vars
=============================================================================
