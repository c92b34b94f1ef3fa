----------------------------- MODULE WslConfig -----------------------------
(***************************************************************************)
(* .wslconfig: what init finds in it (ExistIncompatible) and what the      *)
(* automatic fix does to it.  A fix comments out two keys, one after the   *)
(* other; for each it reads the whole file, truncates it and writes it     *)
(* back.  The handlers of "auto" requests may do so at the same time,      *)
(* every operation may fail and the process may die.                       *)
(*                                                                         *)
(* A file is a sequence of lines, each with its line break; a write breaks *)
(* off between two lines.                                                  *)
(*                                                                         *)
(*   pkg/wsl/config.go; pkg/ipc/restful/init.go fixWSLConfig ("auto").     *)
(***************************************************************************)
EXTENDS Naturals, Sequences, FiniteSets

CONSTANTS Handlers, \* request goroutines
          Files,    \* the files that a user may have
          MaxFixes  \* bound: fixes begun in a behaviour

Key == {"kernel", "localhostforwarding", "memory"}
FixKeys == {"kernel", "localhostforwarding"}

\* What the code tells apart in a line, without case and surrounding blanks.  "odd"
\* is leading space that strings.TrimSpace takes off and the regular expression does
\* not match (a form feed, U+00A0, ...).
Section == [type : {"section"}, name : {"[wsl2]", "[other]"}]
Setting == [type : {"setting"}, key : Key, value : {"", "false", "x"},
            odd : BOOLEAN, comment : BOOLEAN]
Line == Section \cup Setting

\* Of two texts made from one file, the longer has at most one mark of two bytes more
\* for each setting of the two keys; a line that sets one of them has more than six.
FewSettings(f) ==
  Cardinality({i \in DOMAIN f : f[i].type = "setting" /\ f[i].key \in FixKeys}) <= 3

ASSUME FilesAssumption == Files \subseteq Seq(Line) /\ \A f \in Files : FewSettings(f)
ASSUME MaxFixesAssumption == MaxFixes \in Nat

-----------------------------------------------------------------------------
(* Config.GetValue and ExistIncompatible *)

\* the last section line above line i has that name
InSection(f, i, name) ==
  \E j \in 1..i : /\ f[j] = [type |-> "section", name |-> name]
                  /\ \A k \in j+1..i : f[k].type # "section"

Sets(line, key) == line.type = "setting" /\ line.key = key /\ ~line.comment

\* the lines that give the key a value
Found(f, name, key) ==
  {i \in DOMAIN f : Sets(f[i], key) /\ f[i].value # "" /\ InSection(f, i, name)}

\* the first of them counts
GetValue(f, name, key) ==
  {f[i].value : i \in {j \in Found(f, name, key) : \A k \in Found(f, name, key) : j <= k}}

ExistIncompatible(f) ==
  {key \in Key : \/ key = "kernel" /\ GetValue(f, "[wsl2]", key) # {}
                 \/ key = "localhostforwarding" /\ GetValue(f, "[wsl2]", key) = {"false"}}

-----------------------------------------------------------------------------
(* Config.commentKey *)

\* the regular expression knows no sections; "# " is put before each match
Matches(line, key) == Sets(line, key) /\ ~line.odd

\* mutant of CommentLine: the mark is put before the value
CommentValue(line, key) == IF Matches(line, key) THEN [line EXCEPT !.value = "# x"] ELSE line

CommentLine(line, key) == IF Matches(line, key) THEN [line EXCEPT !.comment = TRUE] ELSE line

\* mutant of Commented: only the first match is replaced
CommentedOnce(f, key) ==
  [i \in DOMAIN f |-> IF \E j \in 1..i-1 : Matches(f[j], key) THEN f[i] ELSE CommentLine(f[i], key)]

\* mutant of Commented: the first line is lost
CommentedRest(f, key) == [i \in 1..Len(f)-1 |-> CommentLine(f[i+1], key)]

Commented(f, key) == [i \in DOMAIN f |-> CommentLine(f[i], key)]

\* a line that has lost the "# " before it
Unmarked(line) == IF line.type = "setting" THEN [line EXCEPT !.comment = FALSE] ELSE line

-----------------------------------------------------------------------------
(* os.WriteFile: a write at offset 0 over what the file has since it was truncated *)

\* What stays of old behind n lines that are written over it.  They may be longer than
\* the n lines that were there, by the mark of the line behind them or by more of it.
\* If they are shorter, the end of line n stays: as it sets nothing it is left out.
Behind(old, n) ==
  LET tail == SubSeq(old, n + 1, Len(old))
  IN  IF n = 0 \/ tail = <<>> THEN {tail}
      ELSE {tail, Tail(tail), <<Unmarked(Head(tail))>> \o Tail(tail)}

\* The files that a write of the first n lines of new may leave.
Overwritten(new, n, old) == {SubSeq(new, 1, n) \o tail : tail \in Behind(old, n)}

VARIABLES
  file,    \* .wslconfig; a missing file has no lines
  at,      \* handlers: place
  text,    \* handlers: what they will write
  fixes,   \* fixes begun
  orig,    \* history: the user's file
  fixed,   \* history: a fix has succeeded, and none that overlapped it failed
  overlap, \* history: the fixes under way have overlapped with others
  spoilt,  \* history: and one of them has failed
  overlapped, \* history: fixes have ever overlapped
  broken      \* history: a write has broken off

vars == <<file, at, text, fixes, orig, fixed, overlap, spoilt, overlapped, broken>>

Init == /\ orig \in Files /\ file = orig
        /\ at = [h \in Handlers |-> "idle"] /\ text = [h \in Handlers |-> <<>>]
        /\ fixes = 0 /\ fixed = FALSE /\ overlap = FALSE
        /\ spoilt = FALSE /\ overlapped = FALSE /\ broken = FALSE

Quiet == \A h \in Handlers : at[h] = "idle"

Goto(h, from, to) == at[h] = from /\ at' = [at EXCEPT ![h] = to]

Begin(h) ==
  /\ Goto(h, "idle", "readKernel") /\ fixes < MaxFixes /\ fixes' = fixes + 1
  /\ overlap' = ~Quiet /\ spoilt' = (spoilt /\ ~Quiet)
  /\ overlapped' = (overlapped \/ ~Quiet)
  /\ UNCHANGED <<file, text, orig, fixed, broken>>

\* an error of Fix
Fails(h) ==
  /\ at' = [at EXCEPT ![h] = "idle"]
  /\ fixed' = (fixed /\ ~overlap) /\ spoilt' = (spoilt \/ overlap)
  /\ UNCHANGED <<text, fixes, orig, overlap, overlapped>>

ReadFile(h, from, key, to) ==
  /\ \/ Goto(h, from, to) /\ text' = [text EXCEPT ![h] = Commented(file, key)]
        /\ UNCHANGED <<fixes, orig, fixed, overlap, spoilt, overlapped>>
     \/ at[h] = from /\ Fails(h)
  /\ UNCHANGED <<file, broken>>

\* os.WriteFile truncates the file and writes at offset 0
Truncate(h, from, to) ==
  \/ /\ Goto(h, from, to) /\ file' = <<>>
     /\ UNCHANGED <<text, fixes, orig, fixed, overlap, spoilt, overlapped, broken>>
  \/ at[h] = from /\ Fails(h) /\ UNCHANGED <<file, broken>>

\* a text read while the file was truncated is empty and changes nothing
Write(h, from, to) ==
  \/ /\ Goto(h, from, to) /\ file' \in Overwritten(text[h], Len(text[h]), file)
     /\ text' = [text EXCEPT ![h] = <<>>]
     /\ fixed' = (fixed \/ (to = "idle" /\ ~spoilt))
     /\ UNCHANGED <<fixes, orig, overlap, spoilt, overlapped, broken>>
  \/ /\ at[h] = from /\ Fails(h) /\ broken' = TRUE
     /\ \E n \in 0..Len(text[h]) : file' \in Overwritten(text[h], n, file)

\* mutant of Fix: the second key is commented out in the text read for the first
FixReadsOnce(h) ==
  \/ ReadFile(h, "readKernel", "kernel", "openKernel")
  \/ Truncate(h, "openKernel", "writeKernel") \/ Write(h, "writeKernel", "idle")

Fix(h) ==
  \/ ReadFile(h, "readKernel", "kernel", "openKernel")
  \/ Truncate(h, "openKernel", "writeKernel") \/ Write(h, "writeKernel", "readForwarding")
  \/ ReadFile(h, "readForwarding", "localhostforwarding", "openForwarding")
  \/ Truncate(h, "openForwarding", "writeForwarding") \/ Write(h, "writeForwarding", "idle")

Die == /\ ~Quiet /\ at' = [h \in Handlers |-> "idle"]
       /\ fixed' = (fixed /\ ~overlap)
       /\ broken' = (broken \/ \E h \in Handlers : at[h] \in {"writeKernel", "writeForwarding"})
       /\ UNCHANGED <<file, text, fixes, orig, overlap, spoilt, overlapped>>

Next == \/ \E h \in Handlers : Begin(h) \/ Fix(h)
        \/ Die

Spec == Init /\ [][Next]_vars
-----------------------------------------------------------------------------
TypeOK ==
  /\ {file, orig} \subseteq Seq(Line) /\ text \in [Handlers -> Seq(Line)]
  /\ at \in [Handlers -> {"idle", "readKernel", "openKernel", "writeKernel", "readForwarding",
                          "openForwarding", "writeForwarding"}]
  /\ fixes \in 0..MaxFixes
  /\ {fixed, overlap, spoilt, overlapped, broken} \subseteq BOOLEAN

\* no setting hides from the regular expression behind odd space
NoOdd(f) == \A i \in DOMAIN f : f[i].type = "setting" => ~f[i].odd

\* Once a fix has succeeded init finds nothing incompatible any more, whatever fixes
\* ran at the same time and however earlier ones broke off (commentKey against
\* GetValue); only a fix that overlapped it and failed may have put an old text back.
FixedIsCompatible == Quiet /\ fixed /\ NoOdd(orig) => ExistIncompatible(file) = {}

\* Fixes that do not overlap lose nothing: all the user's lines stay, in order, and
\* only the two keys are commented out, even if a fix ends half way.
KeepsLines ==
  Quiet /\ ~overlapped /\ ~broken =>
    /\ DOMAIN file = DOMAIN orig
    /\ \A i \in DOMAIN file :
         file[i] \in {orig[i], CommentLine(orig[i], "kernel"),
                     CommentLine(orig[i], "localhostforwarding")}

\* No fix, whole, half, broken off or overlapping others, makes the file incompatible in
\* a way in which it was not: the first value of a key counts, and commenting it out
\* must not bring a later one to light.  A write that breaks off in another one's text
\* can.
NeverWorse == NoOdd(orig) /\ ~(overlapped /\ broken) =>
  ExistIncompatible(file) \subseteq ExistIncompatible(orig)
=============================================================================
