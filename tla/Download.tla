------------------------------ MODULE Download ------------------------------
(***************************************************************************)
(* request.Download: the file is downloaded into output.tmp, which is then *)
(* renamed to output.  What output and output.tmp hold is trusted only if  *)
(* their hash agrees, but a finished download is not checked.  Goroutines  *)
(* share the two files; Windows lets them write one file together but not  *)
(* rename a file that another one has open.                                *)
(*                                                                         *)
(*   pkg/util/request/download.go Download, pkg/util/hash.go.              *)
(***************************************************************************)
EXTENDS Naturals

CONSTANTS Clients, \* goroutines that download
          Chunks   \* bound: the pieces in which a body is copied

VARIABLES
  output, tmp, \* the files: what each piece of them holds
  place,       \* goroutines: where they are in Download; "ok", "failed": what it returned
  pos,         \* goroutines: the piece io.Copy writes next
  body         \* goroutines: what the server sends them

vars == <<output, tmp, place, pos, body>>

Absent == <<>>
Content == [1..Chunks -> {"hole", "wanted", "other"}]
Filled(piece) == [i \in 1..Chunks |-> piece]

\* the hash agrees with the one asked for
Wanted(file) == file = Filled("wanted")

Init == /\ output \in {Absent, Filled("wanted"), Filled("other")}
        /\ tmp \in {Absent} \cup {[i \in 1..Chunks |-> IF i <= n THEN "wanted" ELSE "hole"] :
                                    n \in 0..Chunks}
        /\ place = [c \in Clients |-> "idle"]
        /\ pos = [c \in Clients |-> 1] /\ body = [c \in Clients |-> "wanted"]

Goto(c, from, to) == place[c] = from /\ place' = [place EXCEPT ![c] = to]

Begin(c) == Goto(c, "idle", "output") /\ UNCHANGED <<output, tmp, pos, body>>

CheckOutput(c) ==
  /\ Goto(c, "output", IF Wanted(output) THEN "ok" ELSE "tmp")
  /\ UNCHANGED <<output, tmp, pos, body>>

CheckTmp(c) ==
  /\ Goto(c, "tmp", IF Wanted(tmp) THEN "rename" ELSE "create")
  /\ UNCHANGED <<output, tmp, pos, body>>

\* os.Create truncates what another goroutine may be writing
Create(c) ==
  \/ /\ Goto(c, "create", "request")
     /\ tmp' = Filled("hole")
     /\ UNCHANGED <<output, pos, body>>
  \/ Goto(c, "create", "failed") /\ UNCHANGED <<output, tmp, pos, body>>

\* HEAD and GET; the server may have another version by now
Request(c) ==
  \/ /\ Goto(c, "request", "copy")
     /\ pos' = [pos EXCEPT ![c] = 1]
     /\ \E piece \in {"wanted", "other"} : body' = [body EXCEPT ![c] = piece]
     /\ UNCHANGED <<output, tmp>>
  \/ Goto(c, "request", "failed") /\ UNCHANGED <<output, tmp, pos, body>>

\* each goroutine has an offset of its own
CopyPiece(c) ==
  /\ place[c] = "copy" /\ pos[c] <= Chunks
  /\ tmp' = [tmp EXCEPT ![pos[c]] = body[c]]
  /\ pos' = [pos EXCEPT ![c] = @ + 1]
  /\ UNCHANGED <<output, place, body>>

\* mutant of CopyEnds: a connection that breaks is taken for the end of the body
CopyEndsEarly(c) ==
  /\ Goto(c, "copy", "rename")
  /\ UNCHANGED <<output, tmp, pos, body>>

CopyEnds(c) ==
  /\ Goto(c, "copy", IF pos[c] > Chunks THEN "rename" ELSE "failed")
  /\ UNCHANGED <<output, tmp, pos, body>>

\* the goroutines that have output.tmp open for a longer time
Writing(c) == place[c] \in {"request", "copy"}

Rename(c) ==
  \/ /\ Goto(c, "rename", "ok")
     /\ tmp # Absent /\ \A other \in Clients : ~Writing(other)
     /\ output' = tmp /\ tmp' = Absent
     /\ UNCHANGED <<pos, body>>
  \/ Goto(c, "rename", "failed") /\ UNCHANGED <<output, tmp, pos, body>>

Step(c) == \/ CheckOutput(c) \/ CheckTmp(c) \/ Create(c) \/ Request(c)
           \/ CopyPiece(c) \/ CopyEnds(c) \/ Rename(c)

\* the caller goes on
Taken(c, result) == Goto(c, result, "idle") /\ UNCHANGED <<output, tmp, pos, body>>

\* the process dies
Reset == place' = [c \in Clients |-> "idle"] /\ UNCHANGED <<output, tmp, pos, body>>

Places == {"idle", "output", "tmp", "create", "request", "copy", "rename", "ok", "failed"}

TypeOK ==
  /\ {output, tmp} \subseteq Content \cup {Absent}
  /\ place \in [Clients -> Places]
  /\ pos \in [Clients -> 1..Chunks + 1] /\ body \in [Clients -> {"wanted", "other"}]
=============================================================================
