-------------------------- MODULE WslConfigProofs --------------------------
(***************************************************************************)
(* Theorems about WslConfig for every set of handlers and every file.      *)
(*                                                                         *)
(* The argument: commenting out a key changes no other line, so what       *)
(* commentKey does to a file is known line by line.  As long as no write   *)
(* breaks off into another handler's text, all texts have as many lines as *)
(* the file that they are written over, unless one of the two is empty: a  *)
(* write leaves one text or the other, whole.  With no more than one       *)
(* handler at work the file is empty whenever it is written.               *)
(***************************************************************************)
EXTENDS WslConfig, SequenceTheorems, FiniteSetTheorems, TLAPS

Reading == {"readKernel", "readForwarding"}
Opening == {"openKernel", "openForwarding"}
Writing == {"writeKernel", "writeForwarding"}
Carrying == Opening \cup Writing
Forwarding == {"readForwarding", "openForwarding", "writeForwarding"}

\* Handlers whose text may still be written.
Carries(h) == at[h] \in Carrying

\* overlap and overlapped tell whether more than one handler is at work.
OneAtWork == \A g, h \in Handlers : at[g] # "idle" /\ at[h] # "idle" => g = h
Alone == (~overlap => OneAtWork) /\ (~overlapped => OneAtWork /\ ~overlap)

\* A handler that works alone writes into the file that it has truncated.
WritesAtStart == ~overlap => \A h \in Handlers : at[h] \in Writing => file = <<>>

\* A failure among fixes that overlap undoes an earlier success.
SpoiltNotFixed == spoilt => ~fixed

\* The user's lines with none but the two keys commented out.
Kept(f) ==
  /\ DOMAIN f = DOMAIN orig
  /\ \A i \in DOMAIN f : f[i] \in {orig[i], CommentLine(orig[i], "kernel"),
                                   CommentLine(orig[i], "localhostforwarding")}
LinesKept ==
  ~overlapped /\ ~broken =>
    /\ \A h \in Handlers : Carries(h) => Kept(text[h])
    /\ Kept(file) \/ \E h \in Handlers : at[h] \in Writing

\* Unless one is empty the file and the texts are equally long: a text that was read
\* while the file was truncated is empty, the others have all its lines.  Only a write
\* that broke off in another one's text ends this.
SameLength ==
  ~spoilt \/ ~(overlapped /\ broken) =>
    \A h \in Handlers : Carries(h) /\ text[h] # <<>> =>
      /\ file # <<>> => Len(file) = Len(text[h])
      /\ \A g \in Handlers : Carries(g) /\ text[g] # <<>> => Len(text[g]) = Len(text[h])

\* A prefix of the user's lines with all matches of some of the two keys commented out.
Com(line, C) == IF \E key \in C : Matches(line, key) THEN [line EXCEPT !.comment = TRUE] ELSE line
DerivedFrom(f, users) ==
  \E n \in 0..Len(users), C \in SUBSET FixKeys :
    Len(f) = n /\ \A i \in 1..n : f[i] = Com(users[i], C)
Derived(f) == DerivedFrom(f, orig)
AllDerived ==
  ~(overlapped /\ broken) =>
    Derived(file) /\ \A h \in Handlers : Carries(h) => Derived(text[h])

\* No line is left that the regular expression for the key matches.
Clean(f, key) == \A i \in DOMAIN f : ~Matches(f[i], key)

OddNowhere == NoOdd(orig) => NoOdd(file) /\ \A h \in Handlers : NoOdd(text[h])

\* Unless one of them has failed, what overlapping fixes write has no "kernel" left, and
\* the file neither once one has truncated it.
KernelClean ==
  ~spoilt =>
    /\ \A h \in Handlers : Carries(h) => Clean(text[h], "kernel")
    /\ fixed \/ (\E h \in Handlers : at[h] \in {"writeKernel"} \cup Forwarding) =>
         Clean(file, "kernel")

\* A handler about to write its second text has "localhostforwarding" out of it.
LastClean ==
  \A h \in Handlers :
    at[h] \in {"openForwarding", "writeForwarding"} => Clean(text[h], "localhostforwarding")

\* After a fix that has succeeded a fix that works alone starts from a clean file.
AfterClean ==
  fixed /\ (Quiet \/ ~overlap) =>
    /\ Clean(file, "localhostforwarding")
    /\ \A h \in Handlers : Carries(h) => Clean(text[h], "localhostforwarding")

\* Who brings the key back, with a text read for "kernel", takes it out again.
Repairs == \E h \in Handlers : at[h] \in {"readForwarding", "openForwarding"}
RepairUnderWay ==
  ~spoilt /\ (fixed \/ \E h \in Handlers : at[h] = "writeForwarding") =>
    Clean(file, "localhostforwarding") \/ Repairs

-----------------------------------------------------------------------------
(* Lines and files *)

\* A setting that matches differs from its commented form in nothing else.
LEMMA CommentedLine ==
  ASSUME NEW line \in Line, NEW key, Matches(line, key)
  PROVE  LET c == [line EXCEPT !.comment = TRUE] IN
         /\ c \in Line /\ c.type = line.type /\ line.type = "setting"
         /\ c.key = line.key /\ line.key = key /\ c.value = line.value /\ c.odd = line.odd
         /\ c.comment
         /\ \A k : ~Sets(c, k) /\ ~Matches(c, k)
<1> DEFINE c == [line EXCEPT !.comment = TRUE]
<1>1. line.type = "setting" /\ line.key = key
  BY DEF Matches, Sets
<1>2. line \in Setting
  BY <1>1 DEF Line, Section
<1>3. c \in Setting
  BY <1>2 DEF Setting
<1>4. c \in Line
  BY <1>3 DEF Line
<1>5. /\ c.type = line.type /\ c.key = line.key /\ c.value = line.value /\ c.odd = line.odd
      /\ c.comment
  BY <1>2 DEF Setting
<1> QED
  BY <1>1, <1>4, <1>5 DEF Sets, Matches

\* commentKey leaves every line as it is or comments out a setting of the key.
LEMMA CommentLineFacts ==
  ASSUME NEW line \in Line, NEW key
  PROVE  /\ CommentLine(line, key) \in Line
         /\ CommentLine(line, key).type = line.type
         /\ ~Matches(CommentLine(line, key), key)
         /\ \A k : Matches(CommentLine(line, key), k) => Matches(line, k)
         /\ line.type = "setting" => CommentLine(line, key).odd = line.odd
<1>1. CASE Matches(line, key)
  BY <1>1, CommentedLine DEF CommentLine
<1>2. CASE ~Matches(line, key)
  BY <1>2 DEF CommentLine
<1> QED
  BY <1>1, <1>2

\* commentKey works line by line.
LEMMA CommentedFacts ==
  ASSUME NEW f \in Seq(Line), NEW key
  PROVE  /\ Commented(f, key) \in Seq(Line)
         /\ Len(Commented(f, key)) = Len(f) /\ DOMAIN Commented(f, key) = DOMAIN f
         /\ \A i \in DOMAIN f : f[i] \in Line /\ Commented(f, key)[i] = CommentLine(f[i], key)
<1> DEFINE c == Commented(f, key)
<1>1. Len(f) \in Nat /\ DOMAIN f = 1..Len(f) /\ \A i \in 1..Len(f) : f[i] \in Line
  BY LenProperties, ElementOfSeq
<1>2. \A i \in 1..Len(f) : CommentLine(f[i], key) \in Line
  BY <1>1, CommentLineFacts
<1>3. c \in [1..Len(f) -> Line]
  BY <1>1, <1>2 DEF Commented
<1>4. c \in Seq(Line)
  BY <1>1, <1>3, SeqDef
<1>5. Len(c) = Len(f)
  <2>1. DOMAIN c = 1..Len(f) /\ DOMAIN c = 1..Len(c) /\ Len(c) \in Nat
    BY <1>3, <1>4, LenProperties
  <2> QED
    BY <1>1, <2>1
<1> QED
  BY <1>1, <1>3, <1>4, <1>5 DEF Commented

\* A line that loses its mark stays a line.
LEMMA UnmarkedFacts ==
  ASSUME NEW line \in Line
  PROVE  /\ Unmarked(line) \in Line /\ Unmarked(line).type = line.type
         /\ line.type = "setting" => Unmarked(line).odd = line.odd
<1>1. CASE line.type = "setting"
  <2>1. line \in Setting
    BY <1>1 DEF Line, Section
  <2>2. /\ [line EXCEPT !.comment = FALSE] \in Setting
        /\ [line EXCEPT !.comment = FALSE].type = line.type
        /\ [line EXCEPT !.comment = FALSE].odd = line.odd
    BY <2>1 DEF Setting
  <2> QED
    BY <1>1, <2>2 DEF Unmarked, Line
<1>2. CASE line.type # "setting"
  BY <1>2 DEF Unmarked
<1> QED
  BY <1>1, <1>2

\* Every line of one file is a line of another, but may have lost its mark.
From(f, old) ==
  \A i \in DOMAIN f : \E j \in DOMAIN old : f[i] = old[j] \/ f[i] = Unmarked(old[j])

\* The end of a file, behind its first n lines.
LEMMA EndFacts ==
  ASSUME NEW old \in Seq(Line), NEW n \in Nat
  PROVE  LET tail == SubSeq(old, n + 1, Len(old)) IN
         /\ tail \in Seq(Line) /\ From(tail, old)
         /\ n = 0 => tail = old
         /\ Len(old) <= n => tail = <<>>
<1> DEFINE tail == SubSeq(old, n + 1, Len(old))
<1>1. Len(old) \in Nat /\ DOMAIN old = 1..Len(old) /\ \A i \in 1..Len(old) : old[i] \in Line
  BY LenProperties, ElementOfSeq
<1>2. \A i \in n + 1..Len(old) : old[i] \in Line
  BY <1>1
<1>3. /\ tail \in Seq(Line)
      /\ Len(tail) = IF n + 1 <= Len(old) THEN Len(old) - (n + 1) + 1 ELSE 0
      /\ \A i \in 1..Len(old) - (n + 1) + 1 : tail[i] = old[n + 1 + i - 1]
  BY <1>1, <1>2, SubSeqProperties
<1>4. DOMAIN tail = 1..Len(tail)
  BY <1>3, LenProperties
<1> HIDE DEF tail
<1>5. \A i \in 1..Len(tail) : n + i \in 1..Len(old) /\ tail[i] = old[n + i]
  <2>1. \A l, m \in Nat : \A i \in 1..(IF m + 1 <= l THEN l - (m + 1) + 1 ELSE 0) :
          m + i \in 1..l /\ i \in 1..l - (m + 1) + 1 /\ m + 1 + i - 1 = m + i
    OBVIOUS
  <2> DEFINE l == Len(old)
  <2>2. l \in Nat
    BY <1>1
  <2> SUFFICES ASSUME NEW i \in 1..Len(tail) PROVE n + i \in 1..l /\ tail[i] = old[n + i]
    OBVIOUS
  <2>3. /\ i \in 1..(IF n + 1 <= l THEN l - (n + 1) + 1 ELSE 0)
        /\ i \in 1..l - (n + 1) + 1 => tail[i] = old[n + 1 + i - 1]
    BY <1>3
  <2> HIDE DEF l
  <2> QED
    BY <2>1, <2>2, <2>3
<1>6. From(tail, old)
  BY <1>1, <1>4, <1>5 DEF From
<1>7. ASSUME n = 0 PROVE tail = old
  <2>1. Len(tail) = Len(old) /\ \A i \in 1..Len(tail) : tail[i] = old[i]
    BY <1>1, <1>3, <1>5, <1>7
  <2> QED
    BY <1>3, <2>1, SeqEqual
<1>8. ASSUME Len(old) <= n PROVE tail = <<>>
  <2>1. \A l, m \in Nat : l <= m => ~(m + 1 <= l)
    OBVIOUS
  <2>2. ~(n + 1 <= Len(old))
    BY <1>1, <1>8, <2>1
  <2>3. Len(tail) = 0
    BY <1>3, <2>2
  <2> QED
    BY <1>3, <2>3, EmptySeq
<1> QED
  BY <1>3, <1>6, <1>7, <1>8 DEF tail

\* What stays behind a write are lines that were there, but the first of them may have
\* lost its mark.
LEMMA BehindFacts ==
  ASSUME NEW old \in Seq(Line), NEW n \in Nat, NEW b \in Behind(old, n)
  PROVE  /\ b \in Seq(Line) /\ From(b, old)
         /\ n = 0 => b = old
         /\ Len(old) <= n => b = <<>>
<1> DEFINE tail == SubSeq(old, n + 1, Len(old))
<1>1. /\ tail \in Seq(Line) /\ From(tail, old)
      /\ n = 0 => tail = old
      /\ Len(old) <= n => tail = <<>>
  BY EndFacts
<1>2. \/ b = tail
      \/ n # 0 /\ tail # <<>> /\ b = Tail(tail)
      \/ n # 0 /\ tail # <<>> /\ b = <<Unmarked(Head(tail))>> \o Tail(tail)
  BY DEF Behind
<1> HIDE DEF tail
<1>3. CASE b = tail
  BY <1>1, <1>3
<1>4. CASE n # 0 /\ tail # <<>> /\ b # tail
  <2>1. /\ Head(tail) \in Line /\ Tail(tail) \in Seq(Line) /\ Len(Tail(tail)) = Len(tail) - 1
        /\ \A i \in 1..Len(Tail(tail)) : Tail(tail)[i] = tail[i + 1]
        /\ Len(tail) \in Nat \ {0} /\ DOMAIN tail = 1..Len(tail)
        /\ DOMAIN Tail(tail) = 1..Len(Tail(tail))
    BY <1>1, <1>4, HeadTailProperties, EmptySeq, LenProperties
  <2>2. From(Tail(tail), old)
    <3>1. \A i \in 1..Len(Tail(tail)) : i + 1 \in 1..Len(tail)
      BY <2>1
    <3> QED
      BY <1>1, <2>1, <3>1 DEF From
  <2>3. CASE b = Tail(tail)
    BY <1>1, <1>4, <2>1, <2>2, <2>3
  <2>4. CASE b = <<Unmarked(Head(tail))>> \o Tail(tail)
    <3> DEFINE u == <<Unmarked(Head(tail))>>
               t == Tail(tail)
    <3>1. u \in Seq(Line) /\ Len(u) = 1 /\ u[1] = Unmarked(tail[1])
      BY <2>1, UnmarkedFacts
    <3>2. t \in Seq(Line) /\ From(t, old) /\ Len(t) \in Nat /\ DOMAIN t = 1..Len(t)
      BY <2>1, <2>2
    <3> HIDE DEF u, t
    <3>3. /\ u \o t \in Seq(Line) /\ Len(u \o t) = 1 + Len(t)
          /\ \A i \in 1..1 + Len(t) : (u \o t)[i] = IF i <= 1 THEN u[i] ELSE t[i - 1]
      <4>1. /\ u \o t \in Seq(Line) /\ Len(u \o t) = Len(u) + Len(t)
            /\ \A i \in 1..Len(u) + Len(t) : (u \o t)[i] = IF i <= Len(u) THEN u[i] ELSE t[i - Len(u)]
        BY <3>1, <3>2, ConcatProperties
      <4> QED
        BY <3>1, <4>1
    <3>4. DOMAIN (u \o t) = 1..1 + Len(t)
      BY <3>3, LenProperties
    <3>5. \E j \in DOMAIN old : u[1] = old[j] \/ u[1] = Unmarked(old[j])
      <4>1. PICK j \in DOMAIN old : tail[1] = old[j] \/ tail[1] = Unmarked(old[j])
        BY <1>1, <2>1 DEF From
      <4>2. old[j] \in Line
        BY LenProperties, ElementOfSeq
      <4>3. Unmarked(Unmarked(old[j])) = Unmarked(old[j])
        BY <4>2 DEF Unmarked, Line, Setting, Section
      <4> QED
        BY <3>1, <4>1, <4>3
    <3>6. ASSUME NEW i \in 1..1 + Len(t)
          PROVE  \E j \in DOMAIN old : (u \o t)[i] = old[j] \/ (u \o t)[i] = Unmarked(old[j])
      <4>1. i = 1 \/ (i > 1 /\ i - 1 \in 1..Len(t))
        BY <3>2
      <4>2. CASE i = 1
        BY <3>3, <3>5, <4>2
      <4>3. CASE i > 1 /\ i - 1 \in 1..Len(t)
        <5>1. (u \o t)[i] = t[i - 1]
          BY <3>3, <4>3
        <5> QED
          BY <3>2, <4>3, <5>1 DEF From
      <4> QED
        BY <4>1, <4>2, <4>3
    <3>7. From(u \o t, old)
      BY <3>4, <3>6 DEF From
    <3> QED
      BY <1>1, <1>4, <2>4, <3>3, <3>7 DEF u, t
  <2> QED
    BY <1>2, <1>4, <2>3, <2>4
<1> QED
  BY <1>2, <1>3, <1>4

\* The beginning of a text.
LEMMA BeginningFacts ==
  ASSUME NEW new \in Seq(Line), NEW n \in 0..Len(new)
  PROVE  LET a == SubSeq(new, 1, n) IN
         /\ a \in Seq(Line) /\ Len(a) = n /\ \A i \in 1..n : i \in DOMAIN new /\ a[i] = new[i]
<1> DEFINE a == SubSeq(new, 1, n)
<1>1. /\ n \in Nat /\ n <= Len(new) /\ Len(new) \in Nat /\ DOMAIN new = 1..Len(new)
      /\ \A i \in 1..Len(new) : new[i] \in Line
  BY LenProperties, ElementOfSeq
<1>2. \A i \in 1..n : new[i] \in Line
  BY <1>1
<1>3. /\ a \in Seq(Line) /\ Len(a) = IF 1 <= n THEN n - 1 + 1 ELSE 0
      /\ \A i \in 1..n - 1 + 1 : a[i] = new[1 + i - 1]
  BY <1>1, <1>2, SubSeqProperties
<1> HIDE DEF a
<1>4. Len(a) = n /\ \A i \in 1..n : i \in 1..Len(new) /\ a[i] = new[i]
  BY <1>1, <1>3
<1> QED
  BY <1>1, <1>3, <1>4 DEF a

\* A write leaves the beginning of its text and lines that were there, and of two texts
\* of one length the new one.
LEMMA OverwrittenFacts ==
  ASSUME NEW new \in Seq(Line), NEW old \in Seq(Line), NEW n \in 0..Len(new),
         NEW f \in Overwritten(new, n, old)
  PROVE  /\ f \in Seq(Line)
         /\ \A i \in DOMAIN f : \/ \E j \in DOMAIN new : f[i] = new[j]
                                \/ \E j \in DOMAIN old : f[i] = old[j] \/ f[i] = Unmarked(old[j])
         /\ n = 0 => f = old
         /\ n = Len(new) /\ Len(old) <= n => f = new
<1> DEFINE a == SubSeq(new, 1, n)
<1>1. PICK b \in Behind(old, n) : f = a \o b
  BY DEF Overwritten
<1>2. n \in Nat /\ Len(new) \in Nat /\ Len(old) \in Nat /\ (old = <<>> => Len(old) = 0)
  BY LenProperties, EmptySeq
<1>3. /\ b \in Seq(Line) /\ From(b, old)
      /\ n = 0 => b = old
      /\ Len(old) <= n => b = <<>>
  BY <1>2, BehindFacts
<1>4. /\ a \in Seq(Line) /\ Len(a) = n /\ \A i \in 1..n : i \in DOMAIN new /\ a[i] = new[i]
  BY BeginningFacts
<1> HIDE DEF a
<1>5. /\ f \in Seq(Line) /\ Len(f) = n + Len(b) /\ Len(b) \in Nat
      /\ \A i \in 1..n + Len(b) : f[i] = IF i <= n THEN a[i] ELSE b[i - n]
      /\ DOMAIN f = 1..n + Len(b) /\ DOMAIN b = 1..Len(b)
  <2> DEFINE ab == a \o b
  <2>3. /\ ab \in Seq(Line) /\ Len(ab) = Len(a) + Len(b)
        /\ \A i \in 1..Len(a) + Len(b) : ab[i] = IF i <= Len(a) THEN a[i] ELSE b[i - Len(a)]
    BY <1>3, <1>4, ConcatProperties
  <2>4. f = ab
    BY <1>1
  <2> HIDE DEF ab
  <2>1. /\ f \in Seq(Line) /\ Len(f) = Len(a) + Len(b)
        /\ \A i \in 1..Len(a) + Len(b) : f[i] = IF i <= Len(a) THEN a[i] ELSE b[i - Len(a)]
    BY <2>3, <2>4
  <2>2. Len(b) \in Nat /\ DOMAIN f = 1..Len(f) /\ DOMAIN b = 1..Len(b)
    BY <1>3, <2>1, LenProperties
  <2> QED
    BY <1>4, <2>1, <2>2
<1>6. ASSUME NEW i \in 1..n + Len(b)
      PROVE  \/ \E j \in DOMAIN new : f[i] = new[j]
             \/ \E j \in DOMAIN old : f[i] = old[j] \/ f[i] = Unmarked(old[j])
  <2>1. CASE i <= n
    <3>1. i \in 1..n /\ f[i] = a[i]
      BY <1>2, <1>5, <2>1
    <3> QED
      BY <1>4, <3>1
  <2>2. CASE i > n
    <3>1. i - n \in 1..Len(b) /\ f[i] = b[i - n]
      BY <1>2, <1>5, <2>2
    <3> QED
      BY <1>3, <1>5, <3>1 DEF From
  <2> QED
    BY <1>2, <1>5, <2>1, <2>2
<1>7. n = 0 => f = old
  BY <1>1, <1>3, <1>4, EmptySeq, ConcatEmptySeq
<1>8. ASSUME Len(old) <= n PROVE f = a
  BY <1>1, <1>3, <1>4, <1>8, ConcatEmptySeq
<1>9. n = Len(new) => a = new
  BY <1>4, SeqEqual
<1> QED
  BY <1>5, <1>6, <1>7, <1>8, <1>9

\* Into an empty file just the beginning of the text is written.
LEMMA IntoEmptyFacts ==
  ASSUME NEW new \in Seq(Line), NEW n \in 0..Len(new), NEW f \in Overwritten(new, n, <<>>)
  PROVE  Len(f) = n /\ \A i \in 1..n : i \in DOMAIN new /\ f[i] = new[i]
<1> DEFINE a == SubSeq(new, 1, n)
<1>1. PICK b \in Behind(<<>>, n) : f = a \o b
  BY DEF Overwritten
<1>2. n \in Nat /\ <<>> \in Seq(Line) /\ Len(<<>>) <= n
  BY LenProperties, EmptySeq
<1>3. b = <<>>
  BY <1>2, BehindFacts
<1>4. a \in Seq(Line) /\ Len(a) = n /\ \A i \in 1..n : i \in DOMAIN new /\ a[i] = new[i]
  BY BeginningFacts
<1> HIDE DEF a
<1>5. f = a
  BY <1>1, <1>3, <1>4, ConcatEmptySeq
<1> QED
  BY <1>4, <1>5

-----------------------------------------------------------------------------
(* What a step of a fix does, sorted by whether it reads, truncates, writes, *)
(* breaks off in a write or fails elsewhere                                  *)

Gives(h, f) == text' = [text EXCEPT ![h] = f]

Reads(h) ==
  /\ \/ Goto(h, "readKernel", "openKernel") /\ Gives(h, Commented(file, "kernel"))
     \/ Goto(h, "readForwarding", "openForwarding")
        /\ Gives(h, Commented(file, "localhostforwarding"))
  /\ UNCHANGED <<file, fixes, orig, fixed, overlap, spoilt, overlapped, broken>>

Truncates(h) ==
  /\ \/ Goto(h, "openKernel", "writeKernel")
     \/ Goto(h, "openForwarding", "writeForwarding")
  /\ file' = <<>>
  /\ UNCHANGED <<text, fixes, orig, fixed, overlap, spoilt, overlapped, broken>>

Writes(h) ==
  /\ \/ Goto(h, "writeKernel", "readForwarding") /\ fixed' = fixed
     \/ Goto(h, "writeForwarding", "idle") /\ fixed' = (fixed \/ ~spoilt)
  /\ file' \in Overwritten(text[h], Len(text[h]), file) /\ Gives(h, <<>>)
  /\ UNCHANGED <<fixes, orig, overlap, spoilt, overlapped, broken>>

Breaks(h) ==
  /\ at[h] \in Writing /\ Fails(h) /\ broken' = TRUE
  /\ \E n \in 0..Len(text[h]) : file' \in Overwritten(text[h], n, file)

Abandons(h) ==
  at[h] \in Reading \cup Opening /\ Fails(h) /\ UNCHANGED <<file, broken>>

FixPart(h) == Reads(h) \/ Truncates(h) \/ Writes(h) \/ Breaks(h) \/ Abandons(h)

TextTypes ==
  /\ {file, orig} \subseteq Seq(Line) /\ text \in [Handlers -> Seq(Line)]
  /\ at \in [Handlers -> {"idle"} \cup Reading \cup Carrying]
  /\ {fixed, spoilt, overlap} \subseteq BOOLEAN

OtherTypes == fixes \in 0..MaxFixes /\ {overlapped, broken} \subseteq BOOLEAN

\* Every step of Fix is one of these.
LEMMA FixIsParts ==
  ASSUME {fixed, spoilt} \subseteq BOOLEAN, NEW h \in Handlers, Fix(h) PROVE FixPart(h)
<1> USE DEF FixPart
<1>1. CASE ReadFile(h, "readKernel", "kernel", "openKernel")
  BY <1>1 DEF ReadFile, Reads, Gives, Abandons, Reading
<1>2. CASE ReadFile(h, "readForwarding", "localhostforwarding", "openForwarding")
  BY <1>2 DEF ReadFile, Reads, Gives, Abandons, Reading
<1>3. CASE \/ Truncate(h, "openKernel", "writeKernel")
           \/ Truncate(h, "openForwarding", "writeForwarding")
  BY <1>3 DEF Truncate, Truncates, Abandons, Opening
<1>4. CASE Write(h, "writeKernel", "readForwarding")
  BY <1>4 DEF Write, Writes, Gives, Breaks, Writing
<1>5. CASE Write(h, "writeForwarding", "idle")
  BY <1>5 DEF Write, Writes, Gives, Breaks, Writing
<1> QED
  BY <1>1, <1>2, <1>3, <1>4, <1>5 DEF Fix

\* Files and texts stay files: what the proofs below need of the types.
LEMMA TextStart == Init => TextTypes
BY FilesAssumption, EmptySeq DEF Init, TextTypes

\* Every step keeps them.
LEMMA TextStep == TextTypes /\ [Next]_vars => TextTypes'
<1> SUFFICES ASSUME TextTypes, [Next]_vars PROVE TextTypes'
  OBVIOUS
<1> USE DEF TextTypes
<1>1. CASE UNCHANGED vars
  BY <1>1 DEF vars
<1>2. CASE Die
  BY <1>2 DEF Die
<1>3. ASSUME NEW h \in Handlers, Begin(h) PROVE TextTypes'
  BY <1>3 DEF Begin, Goto, Reading
<1>4. ASSUME NEW h \in Handlers, Reads(h) PROVE TextTypes'
  <2>1. Commented(file, "kernel") \in Seq(Line)
    BY CommentedFacts
  <2>2. Commented(file, "localhostforwarding") \in Seq(Line)
    BY CommentedFacts
  <2> QED
    BY <1>4, <2>1, <2>2 DEF Reads, Goto, Gives, Carrying, Opening
<1>5. ASSUME NEW h \in Handlers, Truncates(h) PROVE TextTypes'
  BY <1>5, EmptySeq DEF Truncates, Goto, Carrying, Writing
<1>6. ASSUME NEW h \in Handlers, Writes(h) PROVE TextTypes'
  <2>1. Len(text[h]) \in 0..Len(text[h])
    BY LenProperties
  <2>2. file' \in Seq(Line)
    BY <1>6, <2>1, OverwrittenFacts DEF Writes
  <2> QED
    BY <1>6, <2>2, EmptySeq DEF Writes, Goto, Gives, Reading
<1>7. ASSUME NEW h \in Handlers, Breaks(h) PROVE TextTypes'
  <2>1. PICK n \in 0..Len(text[h]) : file' \in Overwritten(text[h], n, file)
    BY <1>7 DEF Breaks
  <2>2. file' \in Seq(Line)
    BY <2>1, OverwrittenFacts
  <2> QED
    BY <1>7, <2>2 DEF Breaks, Fails
<1>8. ASSUME NEW h \in Handlers, Abandons(h) PROVE TextTypes'
  BY <1>8 DEF Abandons, Fails
<1> QED
  BY <1>1, <1>2, <1>3, <1>4, <1>5, <1>6, <1>7, <1>8, FixIsParts DEF Next, FixPart

\* All variables have their types: the file and the texts are files.
THEOREM ConfigTypes == Spec => []TypeOK
<1>1. Init => OtherTypes
  <2> SUFFICES ASSUME Init PROVE OtherTypes
    OBVIOUS
  <2>1. fixes = 0 /\ overlapped = FALSE /\ broken = FALSE
    BY DEF Init
  <2>2. 0 \in 0..MaxFixes
    BY MaxFixesAssumption
  <2> QED
    BY <2>1, <2>2 DEF OtherTypes
<1>2. TextTypes /\ OtherTypes /\ [Next]_vars => OtherTypes'
  <2> SUFFICES ASSUME TextTypes, OtherTypes, [Next]_vars PROVE OtherTypes'
    OBVIOUS
  <2> USE DEF OtherTypes
  <2>1. CASE UNCHANGED vars
    BY <2>1 DEF vars
  <2>2. CASE Die
    BY <2>2 DEF Die
  <2>3. ASSUME NEW h \in Handlers, Begin(h) PROVE OtherTypes'
    BY <2>3, MaxFixesAssumption DEF Begin
  <2>4. ASSUME NEW h \in Handlers, FixPart(h) PROVE OtherTypes'
    BY <2>4 DEF FixPart, Reads, Truncates, Writes, Breaks, Abandons, Fails
  <2>5. {fixed, spoilt} \subseteq BOOLEAN
    BY DEF TextTypes
  <2> QED
    BY <2>1, <2>2, <2>3, <2>4, <2>5, FixIsParts DEF Next
<1>3. TextTypes /\ OtherTypes => TypeOK
  BY DEF TypeOK, TextTypes, OtherTypes, Reading, Carrying, Opening, Writing
<1> QED
  BY <1>1, <1>2, <1>3, TextStart, TextStep, PTL DEF Spec

-----------------------------------------------------------------------------
(* Fixes that do not overlap *)

\* A part of a fix is a step of a handler at work, and of no other.
LEMMA PartMoves ==
  ASSUME TextTypes, NEW h \in Handlers, FixPart(h)
  PROVE  /\ at[h] # "idle" /\ at' \in [Handlers -> {"idle"} \cup Reading \cup Carrying]
         /\ \A g \in Handlers \ {h} : at'[g] = at[g] /\ text'[g] = text[g]
         /\ UNCHANGED <<orig, overlap, overlapped>> /\ (spoilt => spoilt')
<1> USE DEF TextTypes, Reading, Carrying, Opening, Writing
<1>1. CASE Reads(h)
  BY <1>1 DEF Reads, Goto, Gives
<1>2. CASE Truncates(h)
  BY <1>2 DEF Truncates, Goto
<1>3. CASE Writes(h)
  BY <1>3 DEF Writes, Goto, Gives
<1>4. CASE Breaks(h) \/ Abandons(h)
  BY <1>4 DEF Breaks, Abandons, Fails
<1> QED
  BY <1>1, <1>2, <1>3, <1>4 DEF FixPart

\* A step is a begin, a part of a fix, the death of the process or nothing.
LEMMA StepKinds ==
  ASSUME TextTypes, [Next]_vars
  PROVE  \/ UNCHANGED vars
         \/ Die
         \/ \E h \in Handlers : Begin(h)
         \/ \E h \in Handlers : FixPart(h)
BY FixIsParts DEF TextTypes, Next

\* The user's file is history.
LEMMA OrigStays == ASSUME TextTypes, [Next]_vars PROVE orig' = orig
<1>1. CASE UNCHANGED vars \/ Die \/ \E h \in Handlers : Begin(h)
  BY <1>1 DEF vars, Die, Begin
<1> QED
  BY <1>1, StepKinds, PartMoves

Solo == Alone /\ WritesAtStart /\ SpoiltNotFixed

\* At the start nobody is at work.
LEMMA SoloStart == Init => Solo
BY DEF Init, Solo, Alone, OneAtWork, WritesAtStart, SpoiltNotFixed, Writing

\* What a write leaves: the text in an empty file and in one of its length, and the file
\* as it was if the text is empty.
LEMMA WritesLeave ==
  ASSUME TextTypes, NEW h \in Handlers, Writes(h)
  PROVE  /\ text[h] = <<>> => file' = file
         /\ file = <<>> \/ Len(file) = Len(text[h]) => file' = text[h]
<1>1. /\ text[h] \in Seq(Line) /\ file \in Seq(Line)
      /\ file' \in Overwritten(text[h], Len(text[h]), file)
  BY DEF TextTypes, Writes
<1>2. /\ Len(text[h]) \in Nat /\ Len(text[h]) \in 0..Len(text[h]) /\ Len(file) \in Nat
      /\ Len(<<>>) = 0
  BY <1>1, LenProperties, EmptySeq
<1>3. Len(text[h]) = 0 => file' = file
  BY <1>1, <1>2, OverwrittenFacts
<1>4. Len(file) <= Len(text[h]) => file' = text[h]
  BY <1>1, <1>2, OverwrittenFacts
<1> QED
  BY <1>2, <1>3, <1>4

\* What a write that breaks off leaves in an empty file: the beginning of its text.
LEMMA BreaksLeave ==
  ASSUME TextTypes, NEW h \in Handlers, Breaks(h), file = <<>>
  PROVE  \E n \in 0..Len(text[h]) :
           Len(file') = n /\ \A i \in 1..n : i \in DOMAIN text[h] /\ file'[i] = text[h][i]
<1>1. text[h] \in Seq(Line) /\ file \in Seq(Line)
  BY DEF TextTypes
<1>2. PICK n \in 0..Len(text[h]) : file' \in Overwritten(text[h], n, file)
  BY DEF Breaks
<1> QED
  BY <1>1, <1>2, IntoEmptyFacts

\* overlap and overlapped go on telling the truth.
LEMMA AloneStep == TextTypes /\ Alone /\ [Next]_vars => Alone'
<1> SUFFICES ASSUME TextTypes, Alone, [Next]_vars PROVE Alone'
  OBVIOUS
<1>1. CASE UNCHANGED vars
  BY <1>1 DEF vars, Alone, OneAtWork
<1>2. CASE Die
  BY <1>2 DEF Die, Alone, OneAtWork
<1>3. ASSUME NEW h \in Handlers, Begin(h) PROVE Alone'
  <2>1. /\ \A g \in Handlers \ {h} : at'[g] = at[g]
        /\ overlap' = ~Quiet /\ overlapped' = (overlapped \/ ~Quiet)
    BY <1>3 DEF Begin, Goto, TextTypes
  <2>2. Quiet => OneAtWork'
    BY <2>1 DEF Quiet, OneAtWork
  <2> QED
    BY <2>1, <2>2 DEF Alone
<1>4. ASSUME NEW h \in Handlers, FixPart(h) PROVE Alone'
  BY <1>4, PartMoves DEF Alone, OneAtWork
<1> QED
  BY <1>1, <1>2, <1>3, <1>4, StepKinds

\* The file is empty whenever a handler that works alone writes it.
LEMMA AtStartStep == TextTypes /\ Alone /\ WritesAtStart /\ [Next]_vars => WritesAtStart'
<1> SUFFICES ASSUME TextTypes, Alone, WritesAtStart, [Next]_vars PROVE WritesAtStart'
  OBVIOUS
<1> USE DEF WritesAtStart
<1>1. CASE UNCHANGED vars
  BY <1>1 DEF vars
<1>2. CASE Die
  BY <1>2 DEF Die, Writing
<1>3. ASSUME NEW h \in Handlers, Begin(h) PROVE WritesAtStart'
  <2>1. overlap' = ~Quiet /\ at'[h] = "readKernel" /\ \A g \in Handlers \ {h} : at'[g] = at[g]
    BY <1>3 DEF Begin, Goto, TextTypes
  <2> QED
    BY <2>1 DEF Quiet, Writing
<1>4. ASSUME NEW h \in Handlers, FixPart(h) PROVE WritesAtStart'
  <2> SUFFICES ASSUME ~overlap', NEW g \in Handlers, at'[g] \in Writing PROVE file' = <<>>
    OBVIOUS
  <2>1. g = h
    BY <1>4, PartMoves DEF Alone, OneAtWork, Writing
  <2>2. CASE Truncates(h)
    BY <2>2 DEF Truncates
  <2>3. CASE Reads(h) \/ Writes(h)
    BY <2>1, <2>3 DEF Reads, Writes, Goto, TextTypes, Writing
  <2>4. CASE Breaks(h) \/ Abandons(h)
    BY <2>1, <2>4 DEF Breaks, Abandons, Fails, TextTypes, Writing
  <2> QED
    BY <1>4, <2>2, <2>3, <2>4 DEF FixPart
<1> QED
  BY <1>1, <1>2, <1>3, <1>4, StepKinds

\* A failure among fixes that overlap goes on undoing successes.
LEMMA SpoiltStep == TextTypes /\ SpoiltNotFixed /\ [Next]_vars => SpoiltNotFixed'
<1> SUFFICES ASSUME TextTypes, SpoiltNotFixed, [Next]_vars PROVE SpoiltNotFixed'
  OBVIOUS
<1> USE DEF SpoiltNotFixed, TextTypes
<1>1. CASE UNCHANGED vars \/ Die \/ \E h \in Handlers : Begin(h)
  BY <1>1 DEF vars, Die, Begin
<1>2. ASSUME NEW h \in Handlers, FixPart(h) PROVE SpoiltNotFixed'
  BY <1>2 DEF FixPart, Reads, Truncates, Writes, Breaks, Abandons, Fails
<1> QED
  BY <1>1, <1>2, StepKinds

\* The three go on together.
LEMMA SoloStep == TextTypes /\ Solo /\ [Next]_vars => Solo'
BY AloneStep, AtStartStep, SpoiltStep DEF Solo

\* Commenting out another key keeps the user's lines.
LEMMA CommentedIsKept ==
  ASSUME orig \in Seq(Line), NEW f \in Seq(Line), Kept(f), NEW key \in FixKeys
  PROVE  Kept(Commented(f, key))
<1> SUFFICES ASSUME NEW i \in DOMAIN f
             PROVE  Commented(f, key)[i] \in {orig[i], CommentLine(orig[i], "kernel"),
                                              CommentLine(orig[i], "localhostforwarding")}
  BY CommentedFacts DEF Kept
<1>1. f[i] \in Line /\ orig[i] \in Line
  BY LenProperties, ElementOfSeq DEF Kept
<1>2. Commented(f, key)[i] = CommentLine(f[i], key)
  BY CommentedFacts
<1>3. f[i] \in {orig[i], CommentLine(orig[i], "kernel"),
                CommentLine(orig[i], "localhostforwarding")}
  BY DEF Kept
<1>4. CASE f[i] = orig[i]
  BY <1>2, <1>4 DEF FixKeys
<1>5. ASSUME NEW k \in FixKeys, f[i] = CommentLine(orig[i], k)
      PROVE  CommentLine(f[i], key) \in {orig[i], CommentLine(orig[i], k), CommentLine(orig[i], key)}
  <2>1. CASE Matches(orig[i], k)
    <3>1. ~Matches(f[i], key)
      BY <1>1, <1>5, <2>1, CommentedLine DEF CommentLine
    <3> QED
      BY <1>5, <3>1 DEF CommentLine
  <2>2. CASE ~Matches(orig[i], k)
    BY <1>5, <2>2 DEF CommentLine
  <2> QED
    BY <2>1, <2>2
<1> QED
  BY <1>2, <1>3, <1>4, <1>5 DEF FixKeys

\* At the start the file is the user's.
LEMMA KeptStart == Init => LinesKept
BY DEF Init, LinesKept, Kept, Carries, Carrying, Opening, Writing

\* Fixes that have not overlapped keep the lines: in the file, or in the text of the
\* one that is about to write them back.
LEMMA KeptStep == TextTypes /\ Solo /\ LinesKept /\ [Next]_vars => LinesKept'
<1> SUFFICES ASSUME TextTypes, Solo, LinesKept, [Next]_vars, ~overlapped', ~broken'
             PROVE  /\ \A g \in Handlers : Carries(g)' => Kept(text[g])'
                    /\ Kept(file)' \/ \E g \in Handlers : at'[g] \in Writing
  BY DEF LinesKept
<1>1. orig' = orig
  BY OrigStays
<1> DEFINE Goal == /\ \A g \in Handlers : Carries(g)' => Kept(text[g])'
                   /\ Kept(file)' \/ \E g \in Handlers : at'[g] \in Writing
<1>2. CASE UNCHANGED vars
  BY <1>2 DEF vars, LinesKept, Kept, Carries
<1>3. CASE Die
  BY <1>1, <1>3 DEF Die, LinesKept, Kept, Carries, Carrying, Opening, Writing
<1>4. ASSUME NEW h \in Handlers, Begin(h) PROVE Goal
  <2>1. /\ ~overlapped /\ ~broken /\ UNCHANGED <<file, text>> /\ at[h] = "idle"
        /\ at'[h] = "readKernel" /\ \A g \in Handlers \ {h} : at'[g] = at[g]
    BY <1>4 DEF Begin, Goto, TextTypes
  <2>2. \A g \in Handlers : Carries(g)' => Carries(g)
    BY <2>1 DEF Carries, Carrying, Opening, Writing
  <2>3. \A g \in Handlers : at[g] \in Writing => at'[g] \in Writing
    BY <2>1 DEF Writing
  <2> QED
    BY <1>1, <2>1, <2>2, <2>3 DEF LinesKept, Kept
<1>5. ASSUME NEW h \in Handlers, FixPart(h) PROVE Goal
  <2>1. ~overlapped /\ at[h] # "idle" /\ \A g \in Handlers \ {h} : at[g] = "idle" /\ at'[g] = "idle"
    BY <1>5, PartMoves DEF Solo, Alone, OneAtWork
  <2>2. \A g \in Handlers \ {h} : ~Carries(g)' /\ at[g] \notin Writing
    BY <2>1 DEF Carries, Carrying, Opening, Writing
  <2>3. CASE Reads(h)
    <3>1. ~broken /\ file' = file /\ at[h] \notin Writing
      BY <2>3 DEF Reads, Goto, Writing
    <3>2. Kept(file)
      BY <2>1, <2>2, <3>1 DEF LinesKept
    <3>3. PICK key \in FixKeys : text'[h] = Commented(file, key)
      BY <2>3 DEF Reads, Gives, TextTypes, FixKeys
    <3>4. Kept(text'[h])
      BY <3>2, <3>3, CommentedIsKept DEF TextTypes
    <3> QED
      BY <1>1, <2>2, <3>1, <3>2, <3>4 DEF Kept
  <2>4. CASE Truncates(h)
    <3>1. ~broken /\ text' = text /\ at'[h] \in Writing /\ Carries(h)
      BY <2>4 DEF Truncates, Goto, TextTypes, Carries, Carrying, Opening, Writing
    <3> QED
      BY <1>1, <2>1, <2>2, <3>1 DEF LinesKept, Kept
  <2>5. CASE Writes(h)
    <3>1. ~broken /\ at[h] \in Writing /\ Carries(h) /\ ~Carries(h)'
      BY <2>5 DEF Writes, Goto, TextTypes, Carries, Carrying, Opening, Writing
    <3>2. file = <<>>
      BY <2>1, <3>1 DEF Solo, Alone, WritesAtStart
    <3>3. file' = text[h] /\ Kept(text[h])
      BY <2>1, <2>5, <3>1, <3>2, WritesLeave DEF LinesKept
    <3> QED
      BY <1>1, <2>2, <3>1, <3>3 DEF Kept
  <2>6. CASE Breaks(h)
    BY <2>6 DEF Breaks
  <2>7. CASE Abandons(h)
    <3>1. ~broken /\ file' = file /\ at[h] \notin Writing /\ ~Carries(h)'
      BY <2>7 DEF Abandons, Fails, TextTypes, Reading, Opening, Writing, Carries, Carrying
    <3>2. Kept(file)
      BY <2>1, <2>2, <3>1 DEF LinesKept
    <3> QED
      BY <1>1, <2>2, <3>1, <3>2 DEF Kept
  <2> QED
    BY <1>5, <2>3, <2>4, <2>5, <2>6, <2>7 DEF FixPart
<1> QED
  BY <1>2, <1>3, <1>4, <1>5, StepKinds

\* Fixes that do not overlap lose nothing, however they end, unless a write breaks off.
THEOREM LinesAlwaysKept == Spec => []KeepsLines
<1>1. LinesKept => KeepsLines
  BY DEF LinesKept, KeepsLines, Quiet, Kept, Writing
<1> QED
  BY <1>1, TextStart, TextStep, SoloStart, SoloStep, KeptStart, KeptStep, PTL DEF Spec

-----------------------------------------------------------------------------
(* Fixes that may overlap: what becomes of the user's first settings *)

\* At the start no text is written.
LEMMA LengthStart == Init => SameLength
BY DEF Init, SameLength, Carries, Carrying, Opening, Writing

\* File and texts stay equally long: a text that is read has the length of the file, and
\* a write leaves the file or its text.
LEMMA LengthStep == TextTypes /\ Alone /\ SameLength /\ [Next]_vars => SameLength'
<1> SUFFICES ASSUME TextTypes, Alone, SameLength, [Next]_vars PROVE SameLength'
  OBVIOUS
<1> DEFINE sure == ~spoilt \/ ~(overlapped /\ broken)
           full(h) == Carries(h) /\ text[h] # <<>>
           len(h) == Len(text[h])
<1>1. sure => \A h \in Handlers : full(h) =>
        /\ file # <<>> => Len(file) = len(h)
        /\ \A g \in Handlers : full(g) => len(g) = len(h)
  BY DEF SameLength
<1>2. ASSUME sure' => \A h \in Handlers : full(h)' =>
               /\ file' # <<>> => Len(file') = len(h)'
               /\ \A g \in Handlers : full(g)' => len(g)' = len(h)'
      PROVE  SameLength'
  BY <1>2 DEF SameLength
<1>3. CASE UNCHANGED vars
  BY <1>1, <1>2, <1>3 DEF vars, Carries
<1>4. CASE Die
  <2>1. \A g \in Handlers : ~full(g)'
    BY <1>4 DEF Die, Carries, Carrying, Opening, Writing
  <2> QED
    BY <1>2, <2>1
<1>5. ASSUME NEW h \in Handlers, Begin(h) PROVE SameLength'
  <2>1. /\ UNCHANGED <<file, text, broken>> /\ at'[h] = "readKernel"
        /\ \A g \in Handlers \ {h} : at'[g] = at[g]
        /\ spoilt' = (spoilt /\ ~Quiet) /\ overlapped' = (overlapped \/ ~Quiet)
    BY <1>5 DEF Begin, Goto, TextTypes
  <2>2. \A g \in Handlers : full(g)' => full(g)
    BY <2>1 DEF Carries, Carrying, Opening, Writing
  <2>3. CASE Quiet
    <3>1. \A g \in Handlers : ~full(g)'
      BY <2>2, <2>3 DEF Quiet, Carries, Carrying, Opening, Writing
    <3> QED
      BY <1>2, <3>1
  <2>4. CASE ~Quiet
    <3>1. sure' => sure
      BY <2>1, <2>4
    <3>2. \A g \in Handlers : len(g)' = len(g)
      BY <2>1
    <3> QED
      BY <1>1, <1>2, <2>1, <2>2, <3>1, <3>2
  <2> QED
    BY <2>3, <2>4
<1>6. ASSUME NEW h \in Handlers, FixPart(h) PROVE SameLength'
  <2>1. /\ \A g \in Handlers \ {h} : text'[g] = text[g] /\ at'[g] = at[g]
        /\ overlapped' = overlapped /\ overlap' = overlap /\ (spoilt => spoilt')
    BY <1>6, PartMoves
  <2>2. \A g \in Handlers \ {h} : (full(g)' => full(g)) /\ len(g)' = len(g)
    BY <2>1 DEF Carries
  <2>3. ASSUME broken' = broken, sure',
               full(h)' => /\ file' # <<>> => Len(file') = len(h)'
                           /\ \A g \in Handlers \ {h} : full(g) => len(g) = len(h)',
               \A g \in Handlers \ {h} : full(g) /\ file' # <<>> => Len(file') = len(g)
        PROVE  SameLength'
    <3>1. sure
      BY <2>1, <2>3
    <3> QED
      BY <1>1, <1>2, <2>2, <2>3, <3>1
  <2>4. CASE ~sure'
    BY <1>2, <2>4
  <2>5. ASSUME sure', broken' = broken PROVE sure
    BY <2>1, <2>5
  <2>6. CASE Reads(h) /\ sure'
    <3>1. file' = file /\ broken' = broken
      BY <2>6 DEF Reads
    <3>2. PICK key \in FixKeys : text'[h] = Commented(file, key)
      BY <2>6 DEF Reads, Gives, TextTypes, FixKeys
    <3>3. file \in Seq(Line) /\ text'[h] \in Seq(Line) /\ Len(text'[h]) = Len(file)
      BY <3>2, CommentedFacts DEF TextTypes
    <3>4. text'[h] # <<>> => file # <<>>
      BY <3>3, EmptySeq
    <3> QED
      BY <1>1, <2>3, <2>5, <2>6, <3>1, <3>3, <3>4
  <2>7. CASE Truncates(h) /\ sure'
    <3>1. file' = <<>> /\ broken' = broken /\ text' = text /\ Carries(h)
      BY <2>7 DEF Truncates, Goto, Carries, Carrying, Opening
    <3> QED
      BY <1>1, <2>3, <2>5, <2>7, <3>1
  <2>8. CASE Writes(h) /\ sure'
    <3>1. broken' = broken /\ Carries(h) /\ ~Carries(h)'
      BY <2>8 DEF Writes, Goto, TextTypes, Carries, Carrying, Opening, Writing
    <3>2. file # <<>> /\ text[h] # <<>> => Len(file) = len(h)
      BY <1>1, <2>5, <2>8, <3>1
    <3>3. CASE text[h] = <<>>
      <4>1. file' = file
        BY <2>8, <3>3, WritesLeave
      <4> QED
        BY <1>1, <2>3, <2>5, <2>8, <3>1, <4>1
    <3>4. CASE text[h] # <<>>
      <4>1. file' = text[h]
        BY <2>8, <3>2, <3>4, WritesLeave
      <4>2. Len(file') = len(h)
        BY <4>1
      <4> QED
        BY <1>1, <2>3, <2>5, <2>8, <3>1, <3>4, <4>2
    <3> QED
      BY <3>3, <3>4
  <2>9. CASE Breaks(h) /\ sure'
    <3>1. broken' /\ spoilt' = (spoilt \/ overlap) /\ at'[h] = "idle" /\ at[h] # "idle"
      BY <2>9 DEF Breaks, Fails, TextTypes, Writing
    <3>2. ~overlap
      BY <2>1, <2>9, <3>1 DEF Alone
    <3>3. \A g \in Handlers : at'[g] = "idle"
      BY <2>1, <3>1, <3>2 DEF Alone, OneAtWork
    <3>4. \A g \in Handlers : ~full(g)'
      BY <3>3 DEF Carries, Carrying, Opening, Writing
    <3> QED
      BY <1>2, <3>4
  <2>10. CASE Abandons(h) /\ sure'
    <3>1. UNCHANGED <<file, broken>> /\ at'[h] = "idle"
      BY <2>10 DEF Abandons, Fails, TextTypes
    <3>2. ~Carries(h)'
      BY <3>1 DEF Carries, Carrying, Opening, Writing
    <3> QED
      BY <1>1, <2>3, <2>5, <2>10, <3>1, <3>2
  <2> QED
    BY <1>6, <2>4, <2>6, <2>7, <2>8, <2>9, <2>10 DEF FixPart
<1> QED
  BY <1>3, <1>4, <1>5, <1>6, StepKinds

\* Of a text and a file that are equally long, or of which one is empty, a write leaves
\* one of the two.
LEMMA WritesOneOfTwo ==
  ASSUME TextTypes, SameLength, ~spoilt \/ ~(overlapped /\ broken), NEW h \in Handlers, Writes(h)
  PROVE  /\ file' = text[h] \/ (text[h] = <<>> /\ file' = file)
<1>1. Carries(h)
  BY DEF Writes, Goto, Carries, Carrying, Writing
<1>2. text[h] = <<>> \/ file = <<>> \/ Len(file) = Len(text[h])
  BY <1>1 DEF SameLength
<1> QED
  BY <1>2, WritesLeave

\* Commenting out some of the two keys in one line.
LEMMA ComFacts ==
  ASSUME NEW line \in Line, NEW C \in SUBSET FixKeys
  PROVE  /\ Com(line, C) \in Line /\ Com(line, C).type = line.type
         /\ \A key : CommentLine(Com(line, C), key) = Com(line, C \cup {key})
         /\ \A k : Sets(Com(line, C), k) => Com(line, C) = line
         /\ \A k : Matches(line, k) /\ k \in C => ~Sets(Com(line, C), k)
         /\ \A k : Sets(line, k) /\ k \notin C => Com(line, C) = line
         /\ line.type = "section" => Com(line, C) = line
<1>1. CASE \E key \in C : Matches(line, key)
  <2>1. Com(line, C) = [line EXCEPT !.comment = TRUE]
    BY <1>1 DEF Com
  <2>2. PICK key \in C : Matches(line, key)
    BY <1>1
  <2>3. /\ Com(line, C) \in Line /\ Com(line, C).type = line.type /\ line.type = "setting"
        /\ line.key = key
        /\ \A k : ~Sets(Com(line, C), k) /\ ~Matches(Com(line, C), k)
    BY <2>1, <2>2, CommentedLine
  <2>4. ASSUME NEW k PROVE CommentLine(Com(line, C), k) = Com(line, C \cup {k})
    BY <2>1, <2>2, <2>3 DEF CommentLine, Com
  <2>5. \A k : Sets(line, k) => k \in C
    BY <2>2, <2>3 DEF Sets
  <2> QED
    BY <2>3, <2>4, <2>5
<1>2. CASE ~\E key \in C : Matches(line, key)
  <2>1. Com(line, C) = line
    BY <1>2 DEF Com
  <2>2. ASSUME NEW k PROVE CommentLine(Com(line, C), k) = Com(line, C \cup {k})
    BY <1>2, <2>1 DEF CommentLine, Com
  <2> QED
    BY <1>2, <2>1, <2>2
<1> QED
  BY <1>1, <1>2

\* An emptied file is derived from the user's file.
LEMMA EmptyIsDerived == ASSUME orig \in Seq(Line) PROVE Derived(<<>>)
<1>1. 0 \in 0..Len(orig) /\ {} \in SUBSET FixKeys /\ Len(<<>>) = 0
  BY LenProperties, EmptySeq
<1>2. \A i \in 1..0 : FALSE
  OBVIOUS
<1> QED
  BY <1>1, <1>2 DEF Derived, DerivedFrom

\* Commenting out another key in a derived file gives a derived file.
LEMMA CommentedIsDerived ==
  ASSUME orig \in Seq(Line), NEW f \in Seq(Line), Derived(f), NEW key \in FixKeys
  PROVE  Derived(Commented(f, key))
<1> DEFINE c == Commented(f, key)
<1>1. PICK n \in 0..Len(orig), C \in SUBSET FixKeys :
        Len(f) = n /\ \A i \in 1..n : f[i] = Com(orig[i], C)
  BY DEF Derived, DerivedFrom
<1>2. /\ Len(c) = Len(f) /\ Len(f) \in Nat /\ Len(orig) \in Nat
      /\ \A i \in 1..Len(f) : c[i] = CommentLine(f[i], key)
      /\ \A i \in 1..Len(orig) : orig[i] \in Line
  BY CommentedFacts, LenProperties, ElementOfSeq
<1>3. \A i \in 1..n : c[i] = Com(orig[i], C \cup {key})
  BY <1>1, <1>2, ComFacts
<1>4. C \cup {key} \in SUBSET FixKeys /\ Len(c) = n
  BY <1>1, <1>2
<1> QED
  BY <1>1, <1>3, <1>4 DEF Derived, DerivedFrom

\* So does a prefix of one.
LEMMA PrefixIsDerived ==
  ASSUME orig \in Seq(Line), NEW new \in Seq(Line), Derived(new), NEW m \in 0..Len(new),
         NEW f, Len(f) = m, \A i \in 1..m : f[i] = new[i]
  PROVE  Derived(f)
<1>1. PICK n \in 0..Len(orig), C \in SUBSET FixKeys :
        Len(new) = n /\ \A i \in 1..n : new[i] = Com(orig[i], C)
  BY DEF Derived, DerivedFrom
<1>2. m \in 0..Len(orig) /\ \A i \in 1..m : i \in 1..n
  BY <1>1, LenProperties
<1>3. \A i \in 1..m : f[i] = Com(orig[i], C)
  BY <1>1, <1>2
<1> QED
  BY <1>2, <1>3 DEF Derived, DerivedFrom

\* At the start the file is the user's.
LEMMA DerivedStart == Init => AllDerived
<1> SUFFICES ASSUME Init PROVE Derived(orig)
  BY DEF Init, AllDerived, Carries, Carrying, Opening, Writing
<1>1. orig \in Seq(Line)
  BY FilesAssumption DEF Init
<1>2. Len(orig) \in Nat /\ Len(orig) \in 0..Len(orig) /\ {} \in SUBSET FixKeys
  BY <1>1, LenProperties
<1>3. \A i \in 1..Len(orig) : orig[i] = Com(orig[i], {})
  BY DEF Com
<1>4. DerivedFrom(orig, orig)
  <2> USE DEF DerivedFrom
  <2> WITNESS Len(orig) \in 0..Len(orig), {} \in SUBSET FixKeys
  <2> QED
    BY <1>2, <1>3
<1> QED
  BY <1>4 DEF Derived

\* File and texts stay derived, until a write breaks off in another one's text.
LEMMA DerivedStep == TextTypes /\ Solo /\ SameLength /\ AllDerived /\ [Next]_vars => AllDerived'
<1> SUFFICES ASSUME TextTypes, Solo, SameLength, AllDerived, [Next]_vars, ~(overlapped' /\ broken')
             PROVE  Derived(file)' /\ \A g \in Handlers : Carries(g)' => Derived(text[g])'
  BY DEF AllDerived
<1>1. orig' = orig /\ orig \in Seq(Line) /\ file \in Seq(Line)
  BY OrigStays DEF TextTypes
<1> DEFINE Goal == Derived(file)' /\ \A g \in Handlers : Carries(g)' => Derived(text[g])'
<1>2. ASSUME UNCHANGED <<file, text>>, ~(overlapped /\ broken),
             \A g \in Handlers : Carries(g)' => Carries(g)
      PROVE  Goal
  BY <1>1, <1>2 DEF AllDerived, Derived
<1>3. CASE UNCHANGED vars
  BY <1>2, <1>3 DEF vars, Carries
<1>4. CASE Die
  BY <1>2, <1>4 DEF Die, Carries, Carrying, Opening, Writing
<1>5. ASSUME NEW h \in Handlers, Begin(h) PROVE Goal
  BY <1>2, <1>5 DEF Begin, Goto, TextTypes, Carries, Carrying, Opening, Writing
<1>6. ASSUME NEW h \in Handlers, FixPart(h) PROVE Goal
  <2>1. \A g \in Handlers \ {h} : text'[g] = text[g] /\ (Carries(g)' <=> Carries(g))
    BY <1>6, PartMoves DEF Carries
  <2>2. overlapped' = overlapped
    BY <1>6, PartMoves
  <2>3. ASSUME ~(overlapped /\ broken) PROVE \A g \in Handlers \ {h} : Carries(g)' => Derived(text[g])'
    BY <1>1, <2>1, <2>3 DEF AllDerived, Derived
  <2>4. CASE Reads(h)
    <3>1. /\ ~(overlapped /\ broken) /\ file' = file
      BY <2>4 DEF Reads
    <3>2. PICK key \in FixKeys : text'[h] = Commented(file, key)
      BY <2>4 DEF Reads, Gives, TextTypes, FixKeys
    <3>3. Derived(file) /\ Derived(text'[h])
      BY <1>1, <3>1, <3>2, CommentedIsDerived DEF AllDerived
    <3> QED
      BY <1>1, <2>3, <3>1, <3>3 DEF Derived
  <2>5. CASE Truncates(h)
    <3>1. ~(overlapped /\ broken) /\ file' = <<>> /\ text' = text /\ Carries(h)
      BY <2>5 DEF Truncates, Goto, Carries, Carrying, Opening
    <3> QED
      BY <1>1, <2>3, <3>1, EmptyIsDerived DEF AllDerived, Derived
  <2>6. CASE Writes(h)
    <3>1. /\ ~(overlapped /\ broken) /\ Carries(h) /\ ~Carries(h)'
      BY <2>6 DEF Writes, Goto, TextTypes, Carries, Carrying, Opening, Writing
    <3>2. Derived(file) /\ Derived(text[h])
      BY <3>1 DEF AllDerived
    <3>3. Derived(file')
      BY <2>6, <3>1, <3>2, WritesOneOfTwo
    <3> QED
      BY <1>1, <2>3, <3>1, <3>3 DEF Derived
  <2>7. CASE Breaks(h)
    <3>1. at[h] \in Writing /\ broken' /\ at'[h] = "idle"
      BY <2>7 DEF Breaks, Fails, TextTypes
    <3>2. ~overlapped /\ file = <<>>
      BY <2>2, <3>1 DEF Solo, Alone, WritesAtStart
    <3>3. Derived(text[h]) /\ text[h] \in Seq(Line)
      BY <3>1, <3>2 DEF AllDerived, TextTypes, Carries, Carrying
    <3>4. PICK n \in 0..Len(text[h]) :
            Len(file') = n /\ \A i \in 1..n : file'[i] = text[h][i]
      BY <2>7, <3>2, BreaksLeave
    <3>5. Derived(file')
      BY <1>1, <3>3, <3>4, PrefixIsDerived
    <3>6. ~Carries(h)'
      BY <3>1 DEF Carries, Carrying, Opening, Writing
    <3> QED
      BY <1>1, <2>3, <3>2, <3>5, <3>6 DEF Derived
  <2>8. CASE Abandons(h)
    <3>1. UNCHANGED <<file, text, broken>> /\ at'[h] = "idle"
      BY <2>8 DEF Abandons, Fails, TextTypes
    <3>2. ~Carries(h)'
      BY <3>1 DEF Carries, Carrying, Opening, Writing
    <3> QED
      BY <1>2, <2>1, <2>2, <3>1, <3>2
  <2> QED
    BY <1>6, <2>4, <2>5, <2>6, <2>7, <2>8 DEF FixPart
<1> QED
  BY <1>3, <1>4, <1>5, <1>6, StepKinds

First(f, name, key, i) == i \in Found(f, name, key) /\ \A k \in Found(f, name, key) : i <= k

\* GetValue is the value of the first line found, if there is one.
LEMMA FirstCounts ==
  ASSUME NEW f \in Seq(Line), NEW name, NEW key
  PROVE  /\ \A i : First(f, name, key, i) => GetValue(f, name, key) = {f[i].value}
         /\ GetValue(f, name, key) # {} => \E i : First(f, name, key, i)
<1>1. Found(f, name, key) \subseteq Nat
  <2>1. DOMAIN f = 1..Len(f) /\ Len(f) \in Nat
    BY LenProperties
  <2>2. Found(f, name, key) \subseteq DOMAIN f
    BY DEF Found
  <2> QED
    BY <2>1, <2>2
<1> DEFINE firsts == {j \in Found(f, name, key) : \A k \in Found(f, name, key) : j <= k}
<1>2. GetValue(f, name, key) = {f[i].value : i \in firsts}
  BY DEF GetValue
<1>3. ASSUME NEW i, First(f, name, key, i) PROVE firsts = {i}
  <2>1. i \in firsts
    BY <1>3 DEF First
  <2>2. \A j \in firsts : j <= i /\ i <= j /\ i \in Nat /\ j \in Nat
    BY <1>1, <1>3 DEF First
  <2>3. \A j \in firsts : j = i
    BY <2>2
  <2> QED
    BY <2>1, <2>3
<1>4. ASSUME NEW i, First(f, name, key, i) PROVE GetValue(f, name, key) = {f[i].value}
  <2> HIDE DEF firsts
  <2> QED
    BY <1>2, <1>3, <1>4
<1>5. GetValue(f, name, key) # {} => \E i : First(f, name, key, i)
  BY <1>2 DEF First
<1> QED
  BY <1>4, <1>5

\* Sections are where they were.
LEMMA SectionsStay ==
  ASSUME orig \in Seq(Line), NEW f, NEW n \in 0..Len(orig), NEW C \in SUBSET FixKeys,
         \A i \in 1..n : f[i] = Com(orig[i], C),
         NEW i \in 1..n, NEW name
  PROVE  InSection(f, i, name) <=> InSection(orig, i, name)
<1>1. n \in Nat /\ \A j \in 1..i : j \in 1..n /\ orig[j] \in Line
  BY LenProperties, ElementOfSeq
<1>2. \A j \in 1..i : f[j] = Com(orig[j], C) /\ f[j].type = orig[j].type
  BY <1>1, ComFacts
<1> DEFINE s == [type |-> "section", name |-> name]
<1>3. s.type = "section"
  OBVIOUS
<1>4. \A j \in 1..i : f[j] = s <=> orig[j] = s
  <2> SUFFICES ASSUME NEW j \in 1..i PROVE f[j] = s <=> orig[j] = s
    OBVIOUS
  <2>1. orig[j].type = "section" => f[j] = orig[j]
    BY <1>1, <1>2, ComFacts
  <2> HIDE DEF s
  <2> QED
    BY <1>2, <1>3, <2>1
<1>5. \A j \in 1..i : \A k \in j+1..i : k \in 1..i
  OBVIOUS
<1> QED
  BY <1>2, <1>4, <1>5 DEF InSection

\* The first setting of a key in a derived file is the user's first one.
LEMMA FirstStays ==
  ASSUME orig \in Seq(Line), NoOdd(orig), NEW f \in Seq(Line), Derived(f),
         NEW name, NEW key \in FixKeys, NEW i, First(f, name, key, i)
  PROVE  First(orig, name, key, i) /\ f[i] = orig[i]
<1>1. PICK n \in 0..Len(orig), C \in SUBSET FixKeys :
        Len(f) = n /\ \A j \in 1..n : f[j] = Com(orig[j], C)
  BY DEF Derived, DerivedFrom
<1>2. /\ Len(f) \in Nat /\ DOMAIN f = 1..Len(f)
      /\ Len(orig) \in Nat /\ DOMAIN orig = 1..Len(orig)
      /\ \A j \in 1..Len(orig) : orig[j] \in Line
      /\ n \in Nat /\ n <= Len(orig)
  BY LenProperties, ElementOfSeq
<1>3. i \in 1..Len(f) /\ Sets(f[i], key) /\ f[i].value # "" /\ InSection(f, i, name)
  BY <1>2 DEF First, Found
<1>4. i \in 1..n
  BY <1>1, <1>3
<1>5. \A j \in 1..n : j \in Nat /\ j \in 1..Len(orig) /\ j \in 1..Len(f)
  BY <1>1, <1>2
<1>6. f[i] = orig[i]
  <2>1. f[i] = Com(orig[i], C) /\ orig[i] \in Line
    BY <1>1, <1>2, <1>4
  <2>2. Sets(Com(orig[i], C), key)
    BY <1>3, <2>1
  <2> QED
    BY <2>1, <2>2, ComFacts
<1>7. key \notin C
  <2>1. orig[i].type = "setting" /\ i \in DOMAIN orig /\ orig[i] \in Line
    <3>1. i \in 1..Len(orig)
      BY <1>4, <1>5
    <3> QED
      BY <1>2, <1>3, <1>6, <3>1 DEF Sets
  <2>2. ~orig[i].odd
    BY <2>1 DEF NoOdd
  <2>3. Matches(orig[i], key)
    BY <1>3, <1>6, <2>2 DEF Matches
  <2>4. f[i] = Com(orig[i], C)
    BY <1>1, <1>4
  <2>5. key \in C => ~Sets(Com(orig[i], C), key)
    BY <2>1, <2>3, ComFacts
  <2> QED
    BY <1>3, <2>4, <2>5
<1>8. \A k \in 1..n : InSection(f, k, name) <=> InSection(orig, k, name)
  BY <1>1, SectionsStay
<1>9. i \in Found(orig, name, key)
  <2>1. i \in DOMAIN orig
    BY <1>2, <1>4, <1>5
  <2> QED
    BY <1>3, <1>4, <1>6, <1>8, <2>1 DEF Found
<1>10. ASSUME NEW k \in Found(orig, name, key), ~(i <= k) PROVE FALSE
  <2>1. k \in 1..Len(orig) /\ Sets(orig[k], key) /\ orig[k].value # "" /\ InSection(orig, k, name)
    BY <1>2, <1>10 DEF Found
  <2>2. k \in 1..n
    <3>1. \A j \in 1..n : \A m \in 1..Len(orig) : ~(j <= m) => m \in 1..n
      BY <1>2
    <3> QED
      BY <1>4, <1>10, <2>1, <3>1
  <2>3. f[k] = Com(orig[k], C) /\ orig[k] \in Line
    BY <1>1, <1>2, <2>1, <2>2
  <2>4. f[k] = orig[k]
    BY <1>7, <2>1, <2>3, ComFacts
  <2>5. k \in DOMAIN f
    BY <1>1, <1>2, <2>2
  <2>6. k \in Found(f, name, key)
    BY <1>8, <2>1, <2>2, <2>4, <2>5 DEF Found
  <2> QED
    BY <1>10, <2>6 DEF First
<1> QED
  BY <1>6, <1>9, <1>10 DEF First

\* What the length of the texts needs of the rest.
LEMMA SoloIsAlone == Solo => Alone
BY DEF Solo

\* No fix makes a file incompatible in a way in which it was not.
THEOREM FileNeverWorse == Spec => []NeverWorse
<1>1. TextTypes /\ AllDerived => NeverWorse
  <2> SUFFICES ASSUME TextTypes, AllDerived, NoOdd(orig), ~(overlapped /\ broken),
                      NEW key \in ExistIncompatible(file)
               PROVE  key \in ExistIncompatible(orig)
    BY DEF NeverWorse
  <2>1. key \in FixKeys /\ GetValue(file, "[wsl2]", key) # {}
    BY DEF ExistIncompatible, FixKeys
  <2>2. file \in Seq(Line) /\ orig \in Seq(Line) /\ Derived(file)
    BY DEF TextTypes, AllDerived
  <2>3. PICK i : First(file, "[wsl2]", key, i)
    BY <2>1, <2>2, FirstCounts
  <2>4. First(orig, "[wsl2]", key, i) /\ file[i] = orig[i]
    BY <2>1, <2>2, <2>3, FirstStays
  <2>5. GetValue(orig, "[wsl2]", key) = {orig[i].value}
    BY <2>2, <2>4, FirstCounts
  <2>6. GetValue(file, "[wsl2]", key) = {file[i].value}
    BY <2>2, <2>3, FirstCounts
  <2> QED
    BY <2>4, <2>5, <2>6 DEF ExistIncompatible
<1> QED
  BY <1>1, TextStart, TextStep, SoloStart, SoloStep, LengthStart, LengthStep,
     DerivedStart, DerivedStep, SoloIsAlone, PTL DEF Spec

-----------------------------------------------------------------------------
(* What a fix that has succeeded leaves behind *)

\* Commenting out a key leaves no match of it and makes none of another key.
LEMMA CommentedIsClean ==
  ASSUME NEW f \in Seq(Line), NEW key
  PROVE  /\ Clean(Commented(f, key), key)
         /\ \A k : Clean(f, k) => Clean(Commented(f, key), k)
         /\ NoOdd(f) => NoOdd(Commented(f, key))
<1>1. /\ DOMAIN Commented(f, key) = DOMAIN f
      /\ \A i \in DOMAIN f : f[i] \in Line /\ Commented(f, key)[i] = CommentLine(f[i], key)
  BY CommentedFacts
<1>2. \A i \in DOMAIN f :
        /\ CommentLine(f[i], key).type = f[i].type
        /\ ~Matches(CommentLine(f[i], key), key)
        /\ \A k : Matches(CommentLine(f[i], key), k) => Matches(f[i], k)
        /\ f[i].type = "setting" => CommentLine(f[i], key).odd = f[i].odd
  BY <1>1, CommentLineFacts
<1> QED
  BY <1>1, <1>2 DEF Clean, NoOdd

\* The beginning of a clean text is clean.
LEMMA BeginningIsClean ==
  ASSUME NEW f \in Seq(Line), NEW new, NEW n \in Nat,
         Len(f) = n /\ \A i \in 1..n : i \in DOMAIN new /\ f[i] = new[i]
  PROVE  \A k : Clean(new, k) => Clean(f, k)
<1>1. DOMAIN f = 1..n
  BY LenProperties
<1> QED
  BY <1>1 DEF Clean

\* What a write leaves hides no setting that was not hidden.
LEMMA OverwrittenHasNoOdd ==
  ASSUME NEW new \in Seq(Line), NEW old \in Seq(Line), NEW n \in 0..Len(new),
         NEW f \in Overwritten(new, n, old), NoOdd(new), NoOdd(old)
  PROVE  NoOdd(f)
<1> SUFFICES ASSUME NEW i \in DOMAIN f, f[i].type = "setting" PROVE ~f[i].odd
  BY DEF NoOdd
<1>1. \/ \E j \in DOMAIN new : f[i] = new[j]
      \/ \E j \in DOMAIN old : f[i] = old[j] \/ f[i] = Unmarked(old[j])
  BY OverwrittenFacts
<1>2. ASSUME NEW j \in DOMAIN new, f[i] = new[j] PROVE ~f[i].odd
  BY <1>2 DEF NoOdd
<1>3. ASSUME NEW j \in DOMAIN old, f[i] = old[j] PROVE ~f[i].odd
  BY <1>3 DEF NoOdd
<1>4. ASSUME NEW j \in DOMAIN old, f[i] = Unmarked(old[j]) PROVE ~f[i].odd
  <2>1. old[j] \in Line
    BY LenProperties, ElementOfSeq
  <2>2. old[j].type = "setting" /\ f[i].odd = old[j].odd
    BY <1>4, <2>1, UnmarkedFacts
  <2> QED
    BY <2>2 DEF NoOdd
<1> QED
  BY <1>1, <1>2, <1>3, <1>4

\* In an empty file nothing is left.
LEMMA EmptyIsClean == (\A k : Clean(<<>>, k)) /\ NoOdd(<<>>)
BY DEF Clean, NoOdd

FixInv == OddNowhere /\ KernelClean /\ LastClean /\ AfterClean /\ RepairUnderWay

\* At the start no fix has been at work.
LEMMA FixStart == Init => FixInv
<1> SUFFICES ASSUME Init PROVE FixInv
  OBVIOUS
<1>1. /\ file = orig /\ fixed = FALSE
      /\ \A h \in Handlers : at[h] = "idle" /\ text[h] = <<>>
  BY DEF Init
<1> QED
  BY <1>1, EmptyIsClean DEF FixInv, OddNowhere, KernelClean, LastClean, AfterClean,
     RepairUnderWay, Carries, Carrying, Opening, Writing, Forwarding

\* No setting comes to be hidden from the regular expression.
LEMMA OddStep == TextTypes /\ OddNowhere /\ [Next]_vars => OddNowhere'
<1> SUFFICES ASSUME TextTypes, OddNowhere, [Next]_vars, NoOdd(orig)
             PROVE  NoOdd(file') /\ \A g \in Handlers : NoOdd(text'[g])
  BY OrigStays DEF OddNowhere
<1> DEFINE Goal == NoOdd(file') /\ \A g \in Handlers : NoOdd(text'[g])
<1>1. NoOdd(file) /\ (\A g \in Handlers : NoOdd(text[g])) /\ file \in Seq(Line)
  BY DEF OddNowhere, TextTypes
<1>2. CASE UNCHANGED <<file, text>>
  BY <1>1, <1>2
<1>3. ASSUME NEW h \in Handlers, FixPart(h) PROVE Goal
  <2>1. /\ text[h] \in Seq(Line)
        /\ \A g \in Handlers \ {h} : text'[g] = text[g]
    BY <1>3, PartMoves DEF TextTypes
  <2>2. CASE Reads(h)
    <3>1. PICK key \in FixKeys : text'[h] = Commented(file, key)
      BY <2>2 DEF Reads, Gives, TextTypes, FixKeys
    <3>2. NoOdd(text'[h]) /\ file' = file
      BY <1>1, <2>2, <3>1, CommentedIsClean DEF Reads
    <3> QED
      BY <1>1, <2>1, <3>2
  <2>3. CASE Truncates(h)
    BY <1>1, <2>3, EmptyIsClean DEF Truncates
  <2>4. CASE Writes(h)
    <3>1. /\ file' \in Overwritten(text[h], Len(text[h]), file) /\ text'[h] = <<>>
          /\ Len(text[h]) \in 0..Len(text[h])
      BY <2>1, <2>4, LenProperties DEF Writes, Gives, TextTypes
    <3>2. NoOdd(file')
      BY <1>1, <2>1, <3>1, OverwrittenHasNoOdd
    <3> QED
      BY <1>1, <2>1, <3>1, <3>2, EmptyIsClean
  <2>5. CASE Breaks(h)
    <3>1. PICK n \in 0..Len(text[h]) : file' \in Overwritten(text[h], n, file)
      BY <2>5 DEF Breaks
    <3>2. NoOdd(file') /\ text' = text
      BY <1>1, <2>1, <2>5, <3>1, OverwrittenHasNoOdd DEF Breaks, Fails
    <3> QED
      BY <1>1, <3>2
  <2>6. CASE Abandons(h)
    BY <1>1, <2>6 DEF Abandons, Fails
  <2> QED
    BY <1>3, <2>2, <2>3, <2>4, <2>5, <2>6 DEF FixPart
<1>4. CASE UNCHANGED vars \/ Die \/ \E h \in Handlers : Begin(h)
  BY <1>2, <1>4 DEF vars, Die, Begin
<1> QED
  BY <1>3, <1>4, StepKinds

\* What a lone fix leaves that breaks off is as clean as its text.
LEMMA LoneBreakIsClean ==
  ASSUME TextTypes, Solo, ~overlap, NEW h \in Handlers, Breaks(h), NEW key, Clean(text[h], key)
  PROVE  Clean(file', key)
<1>1. file = <<>> /\ text[h] \in Seq(Line)
  BY DEF Breaks, Solo, WritesAtStart, TextTypes
<1>2. PICK n \in 0..Len(text[h]) :
        Len(file') = n /\ \A i \in 1..n : i \in DOMAIN text[h] /\ file'[i] = text[h][i]
  BY <1>1, BreaksLeave
<1>3. file' \in Seq(Line)
  <2>1. PICK m \in 0..Len(text[h]) : file' \in Overwritten(text[h], m, file)
    BY DEF Breaks
  <2> QED
    BY <1>1, <2>1, OverwrittenFacts DEF TextTypes
<1>4. n \in Nat
  BY <1>1, LenProperties
<1> QED
  BY <1>2, <1>3, <1>4, BeginningIsClean

\* Unless a fix fails beside others, none brings the key "kernel" back.
LEMMA KernelStep == TextTypes /\ Solo /\ SameLength /\ KernelClean /\ [Next]_vars => KernelClean'
<1> DEFINE past(h) == at[h] \in {"writeKernel"} \cup Forwarding
           done == fixed \/ \E h \in Handlers : past(h)
<1> SUFFICES ASSUME TextTypes, Solo, SameLength, KernelClean, [Next]_vars, ~spoilt'
             PROVE  /\ \A g \in Handlers : Carries(g)' => Clean(text'[g], "kernel")
                    /\ done' => Clean(file', "kernel")
  BY DEF KernelClean
<1> DEFINE Goal == /\ \A g \in Handlers : Carries(g)' => Clean(text'[g], "kernel")
                   /\ done' => Clean(file', "kernel")
<1>1. ASSUME ~spoilt
      PROVE  /\ \A g \in Handlers : Carries(g) => Clean(text[g], "kernel")
             /\ done => Clean(file, "kernel")
  BY <1>1 DEF KernelClean
<1>2. ASSUME ~spoilt, UNCHANGED <<file, text>>, fixed' => fixed,
             \A g \in Handlers : (Carries(g)' => Carries(g)) /\ (past(g)' => past(g))
      PROVE  Goal
  BY <1>1, <1>2
<1>3. CASE UNCHANGED vars
  BY <1>2, <1>3 DEF vars, Carries
<1>4. CASE Die
  BY <1>2, <1>4 DEF Die, Carries, Carrying, Opening, Writing, Forwarding
<1>5. ASSUME NEW h \in Handlers, Begin(h) PROVE Goal
  <2>1. /\ UNCHANGED <<file, text, fixed>> /\ spoilt' = (spoilt /\ ~Quiet)
        /\ at'[h] = "readKernel" /\ \A g \in Handlers \ {h} : at'[g] = at[g]
    BY <1>5 DEF Begin, Goto, TextTypes
  <2>2. \A g \in Handlers : (Carries(g)' => Carries(g)) /\ (past(g)' => past(g))
    BY <2>1 DEF Carries, Carrying, Opening, Writing, Forwarding
  <2>3. CASE ~spoilt
    BY <1>2, <2>1, <2>2, <2>3
  <2>4. CASE spoilt
    <3>1. Quiet /\ ~fixed'
      BY <2>1, <2>4 DEF Solo, SpoiltNotFixed
    <3>2. \A g \in Handlers : ~Carries(g)' /\ ~past(g)'
      BY <2>1, <3>1 DEF Quiet, Carries, Carrying, Opening, Writing, Forwarding
    <3> QED
      BY <3>1, <3>2
  <2> QED
    BY <2>3, <2>4
<1>6. ASSUME NEW h \in Handlers, FixPart(h) PROVE Goal
  <2>1. /\ text[h] \in Seq(Line) /\ file \in Seq(Line) /\ ~spoilt
        /\ \A g \in Handlers \ {h} : text'[g] = text[g] /\ at'[g] = at[g]
    BY <1>6, PartMoves DEF TextTypes
  <2>2. \A g \in Handlers \ {h} : Carries(g)' => Clean(text'[g], "kernel")
    BY <1>1, <2>1 DEF Carries
  <2>3. ASSUME file' = file, fixed' => fixed, past(h)' => past(h),
               Carries(h)' => Clean(text'[h], "kernel")
        PROVE  Goal
    <3>1. done' => done
      BY <2>1, <2>3
    <3> QED
      BY <1>1, <2>1, <2>2, <2>3, <3>1
  <2>4. CASE Reads(h)
    <3>1. CASE at[h] = "readKernel"
      <4>1. text'[h] = Commented(file, "kernel") /\ at'[h] = "openKernel"
        BY <2>4, <3>1 DEF Reads, Goto, Gives, TextTypes
      <4>2. Clean(text'[h], "kernel")
        BY <2>1, <4>1, CommentedIsClean
      <4>3. file' = file /\ fixed' = fixed /\ ~past(h)'
        BY <2>4, <4>1 DEF Reads, Forwarding
      <4> QED
        BY <2>3, <4>2, <4>3
    <3>2. CASE at[h] = "readForwarding"
      <4>1. text'[h] = Commented(file, "localhostforwarding") /\ past(h)
        BY <2>4, <3>2 DEF Reads, Goto, Gives, TextTypes, Forwarding
      <4>2. Clean(text'[h], "kernel")
        BY <1>1, <2>1, <4>1, CommentedIsClean
      <4>3. file' = file /\ fixed' = fixed
        BY <2>4 DEF Reads
      <4> QED
        BY <2>3, <4>1, <4>2, <4>3
    <3> QED
      BY <2>4, <3>1, <3>2 DEF Reads, Goto
  <2>5. CASE Truncates(h)
    <3>1. file' = <<>> /\ text' = text /\ Carries(h)
      BY <2>5 DEF Truncates, Goto, Carries, Carrying, Opening
    <3> QED
      BY <1>1, <2>1, <2>2, <3>1, EmptyIsClean
  <2>6. CASE Writes(h)
    <3>1. text'[h] = <<>> /\ Carries(h) /\ past(h)
      BY <2>6 DEF Writes, Goto, Gives, TextTypes, Carries, Carrying, Writing, Forwarding
    <3>2. Clean(text[h], "kernel") /\ Clean(file, "kernel")
      BY <1>1, <2>1, <3>1
    <3>3. Clean(file', "kernel")
      BY <2>1, <2>6, <3>2, WritesOneOfTwo
    <3> QED
      BY <2>2, <3>1, <3>3, EmptyIsClean
  <2>7. CASE Breaks(h)
    <3>1. at'[h] = "idle" /\ Carries(h) /\ ~overlap
      BY <2>7 DEF Breaks, Fails, TextTypes, Carries, Carrying
    <3>2. Clean(file', "kernel")
      BY <1>1, <2>1, <2>7, <3>1, LoneBreakIsClean
    <3>3. ~Carries(h)'
      BY <3>1 DEF Carries, Carrying, Opening, Writing
    <3> QED
      BY <2>2, <3>2, <3>3
  <2>8. CASE Abandons(h)
    <3>1. file' = file /\ (fixed' => fixed) /\ at'[h] = "idle"
      BY <2>8 DEF Abandons, Fails, TextTypes
    <3>2. ~Carries(h)' /\ ~past(h)'
      BY <3>1 DEF Carries, Carrying, Opening, Writing, Forwarding
    <3> QED
      BY <2>3, <3>1, <3>2
  <2> QED
    BY <1>6, <2>4, <2>5, <2>6, <2>7, <2>8 DEF FixPart
<1> QED
  BY <1>3, <1>4, <1>5, <1>6, StepKinds

\* The second text of a fix is made without "localhostforwarding".
LEMMA LastStep == TextTypes /\ LastClean /\ [Next]_vars => LastClean'
<1> SUFFICES ASSUME TextTypes, LastClean, [Next]_vars PROVE LastClean'
  OBVIOUS
<1> USE DEF LastClean
<1>1. CASE UNCHANGED vars
  BY <1>1 DEF vars
<1>2. CASE Die
  BY <1>2 DEF Die
<1>3. ASSUME NEW h \in Handlers, Begin(h) PROVE LastClean'
  BY <1>3 DEF Begin, Goto, TextTypes
<1>4. ASSUME NEW h \in Handlers, FixPart(h) PROVE LastClean'
  <2>1. file \in Seq(Line) /\ \A g \in Handlers \ {h} : text'[g] = text[g] /\ at'[g] = at[g]
    BY <1>4, PartMoves DEF TextTypes
  <2>2. CASE Reads(h)
    <3>1. \/ at'[h] = "openKernel"
          \/ text'[h] = Commented(file, "localhostforwarding")
      BY <2>2 DEF Reads, Goto, Gives, TextTypes
    <3> QED
      BY <2>1, <3>1, CommentedIsClean
  <2>3. CASE Truncates(h)
    <3>1. text' = text /\ (at'[h] = "writeKernel" \/ at[h] = "openForwarding")
      BY <2>3 DEF Truncates, Goto, TextTypes
    <3> QED
      BY <2>1, <3>1
  <2>4. CASE Writes(h) \/ Breaks(h) \/ Abandons(h)
    <3>1. at'[h] \in {"readForwarding", "idle"}
      BY <2>4 DEF Writes, Breaks, Abandons, Fails, Goto, TextTypes
    <3> QED
      BY <2>1, <3>1
  <2> QED
    BY <1>4, <2>2, <2>3, <2>4 DEF FixPart
<1> QED
  BY <1>1, <1>2, <1>3, <1>4, StepKinds

\* The last of the fixes that a success belongs to leaves no "localhostforwarding".
LEMMA AfterStep ==
  TextTypes /\ Solo /\ SameLength /\ LastClean /\ AfterClean /\ RepairUnderWay /\ [Next]_vars
    => AfterClean'
<1> DEFINE key == "localhostforwarding"
           over == fixed /\ (Quiet \/ ~overlap)
           clean == Clean(file, key) /\ \A g \in Handlers : Carries(g) => Clean(text[g], key)
<1> SUFFICES ASSUME TextTypes, Solo, SameLength, LastClean, AfterClean, RepairUnderWay, [Next]_vars,
                    over'
             PROVE  clean'
  BY DEF AfterClean
<1>1. over => clean
  BY DEF AfterClean
<1>2. CASE UNCHANGED vars
  <2>1. over /\ (clean' <=> clean)
    BY <1>2 DEF vars, Quiet, Carries
  <2> QED
    BY <1>1, <2>1
<1>3. CASE Die
  <2>1. /\ \A g \in Handlers : ~Carries(g)'
        /\ fixed /\ ~overlap
        /\ file' = file
    BY <1>3 DEF Die, Carries, Carrying, Opening, Writing
  <2> QED
    BY <1>1, <2>1
<1>4. ASSUME NEW h \in Handlers, Begin(h) PROVE clean'
  <2>1. /\ UNCHANGED <<file, text, fixed>> /\ overlap' = ~Quiet /\ at'[h] = "readKernel"
        /\ \A g \in Handlers \ {h} : at'[g] = at[g]
    BY <1>4 DEF Begin, Goto, TextTypes
  <2>2. over
    BY <2>1 DEF Quiet
  <2>3. \A g \in Handlers : Carries(g)' => Carries(g)
    BY <2>1 DEF Carries, Carrying, Opening, Writing
  <2> QED
    BY <1>1, <2>1, <2>2, <2>3
<1>5. ASSUME NEW h \in Handlers, FixPart(h) PROVE clean'
  <2>1. /\ text[h] \in Seq(Line) /\ file \in Seq(Line) /\ overlap' = overlap /\ (spoilt => spoilt')
        /\ \A g \in Handlers \ {h} : text'[g] = text[g] /\ at'[g] = at[g]
    BY <1>5, PartMoves DEF TextTypes
  <2>2. over => \A g \in Handlers \ {h} : Carries(g)' => Clean(text'[g], key)
    BY <1>1, <2>1 DEF Carries
  <2>3. ASSUME over, Clean(file', key), Carries(h)' => Clean(text'[h], key) PROVE clean'
    BY <2>2, <2>3
  <2>4. CASE Reads(h)
    <3>1. file' = file /\ fixed' = fixed /\ at'[h] # "idle"
      BY <2>4 DEF Reads, Goto, TextTypes
    <3>2. over
      BY <2>1, <3>1 DEF Quiet
    <3>3. PICK k \in FixKeys : text'[h] = Commented(file, k)
      BY <2>4 DEF Reads, Gives, TextTypes, FixKeys
    <3>4. Clean(text'[h], key)
      BY <1>1, <2>1, <3>2, <3>3, CommentedIsClean
    <3> QED
      BY <1>1, <2>3, <3>1, <3>2, <3>4
  <2>5. CASE Truncates(h)
    <3>1. file' = <<>> /\ text' = text /\ fixed' = fixed /\ Carries(h) /\ at'[h] # "idle"
      BY <2>5 DEF Truncates, Goto, TextTypes, Carries, Carrying, Opening
    <3>2. over
      BY <2>1, <3>1 DEF Quiet
    <3> QED
      BY <1>1, <2>3, <3>1, <3>2, EmptyIsClean
  <2>6. CASE Writes(h)
    <3>1. Carries(h) /\ ~Carries(h)' /\ at[h] \in Writing
      BY <2>6 DEF Writes, Goto, Gives, TextTypes, Carries, Carrying, Opening, Writing
    <3>2. ~overlap => file' = text[h]
      BY <2>6, <3>1, WritesLeave DEF Solo, WritesAtStart
    <3>3. CASE at[h] = "writeKernel"
      <4>1. fixed' = fixed /\ at'[h] # "idle"
        BY <2>6, <3>3 DEF Writes, Goto, TextTypes
      <4>2. over /\ ~overlap
        BY <2>1, <4>1 DEF Quiet
      <4> QED
        BY <1>1, <2>3, <3>1, <3>2, <4>2
    <3>4. CASE at[h] = "writeForwarding"
      <4>1. Clean(text[h], key)
        BY <3>4 DEF LastClean
      <4>2. \A g \in Handlers \ {h} : at'[g] = "idle"
        BY <2>1, <3>4 DEF Quiet, Solo, Alone, OneAtWork
      <4>3. \A g \in Handlers \ {h} : ~Carries(g)'
        BY <4>2 DEF Carries, Carrying, Opening, Writing
      <4>4. Clean(file', key)
        <5>1. CASE ~overlap
          BY <3>2, <4>1, <5>1
        <5>2. ~spoilt
          BY <2>6, <3>4 DEF Writes, Goto, Solo, SpoiltNotFixed
        <5>3. ~Repairs
          BY <2>1, <3>4, <4>2 DEF Repairs
        <5>4. Clean(file, key)
          BY <3>4, <5>2, <5>3 DEF RepairUnderWay
        <5> QED
          BY <2>6, <4>1, <5>2, <5>4, WritesOneOfTwo
      <4> QED
        BY <3>1, <4>3, <4>4
    <3> QED
      BY <3>1, <3>3, <3>4 DEF Writing
  <2>7. CASE Breaks(h) \/ Abandons(h)
    <3>1. at'[h] = "idle" /\ fixed /\ ~overlap
      BY <2>7 DEF Breaks, Abandons, Fails, TextTypes
    <3>2. ~Carries(h)'
      BY <3>1 DEF Carries, Carrying, Opening, Writing
    <3>3. CASE Abandons(h)
      BY <1>1, <2>3, <3>1, <3>2, <3>3 DEF Abandons
    <3>4. CASE Breaks(h)
      <4>1. Clean(text[h], key)
        BY <1>1, <3>1, <3>4 DEF Breaks, Carries, Carrying
      <4>2. Clean(file', key)
        BY <3>1, <3>4, <4>1, LoneBreakIsClean
      <4> QED
        BY <2>3, <3>1, <3>2, <4>2
    <3> QED
      BY <2>7, <3>3, <3>4
  <2> QED
    BY <1>5, <2>4, <2>5, <2>6, <2>7 DEF FixPart
<1> QED
  BY <1>2, <1>3, <1>4, <1>5, StepKinds

\* Unless a fix fails beside others, whoever writes "localhostforwarding" back goes on to
\* comment it out again.
LEMMA RepairStep ==
  TextTypes /\ Solo /\ SameLength /\ LastClean /\ AfterClean' /\ RepairUnderWay /\ [Next]_vars
    => RepairUnderWay'
<1> DEFINE key == "localhostforwarding"
           who == fixed \/ \E g \in Handlers : at[g] = "writeForwarding"
<1> SUFFICES ASSUME TextTypes, Solo, SameLength, LastClean, AfterClean', RepairUnderWay, [Next]_vars,
                    ~spoilt', who'
             PROVE  Clean(file', key) \/ Repairs'
  BY DEF RepairUnderWay
<1>1. ~spoilt /\ who => Clean(file, key) \/ Repairs
  BY DEF RepairUnderWay
<1>2. fixed' /\ (Quiet' \/ ~overlap') => Clean(file', key)
  BY DEF AfterClean
<1>3. CASE UNCHANGED vars
  BY <1>1, <1>3 DEF vars, Repairs
<1>4. CASE Die
  <2>1. \A g \in Handlers : at'[g] = "idle"
    BY <1>4 DEF Die
  <2> QED
    BY <1>2, <2>1 DEF Quiet
<1>5. ASSUME NEW h \in Handlers, Begin(h) PROVE Clean(file', key) \/ Repairs'
  <2>1. /\ UNCHANGED <<file, fixed>> /\ spoilt' = (spoilt /\ ~Quiet) /\ overlap' = ~Quiet
        /\ at[h] = "idle" /\ at'[h] = "readKernel" /\ \A g \in Handlers \ {h} : at'[g] = at[g]
    BY <1>5 DEF Begin, Goto, TextTypes
  <2>2. CASE Quiet
    <3>1. \A g \in Handlers : at'[g] # "writeForwarding"
      BY <2>1, <2>2 DEF Quiet
    <3> QED
      BY <1>2, <2>1, <2>2, <3>1
  <2>3. CASE ~Quiet
    <3>1. ~spoilt /\ who
      BY <2>1, <2>3
    <3> QED
      BY <1>1, <2>1, <3>1 DEF Repairs
  <2> QED
    BY <2>2, <2>3
<1>6. ASSUME NEW h \in Handlers, FixPart(h) PROVE Clean(file', key) \/ Repairs'
  <2>1. /\ overlap' = overlap /\ ~spoilt /\ at[h] # "idle"
        /\ \A g \in Handlers \ {h} : at'[g] = at[g]
    BY <1>6, PartMoves
  <2>2. CASE Reads(h)
    <3>1. /\ file' = file /\ fixed' = fixed /\ at'[h] # "writeForwarding"
          /\ (at[h] = "readKernel" \/ at'[h] = "openForwarding")
      BY <2>2 DEF Reads, Goto, TextTypes
    <3>2. who
      BY <2>1, <3>1
    <3> QED
      BY <1>1, <2>1, <3>1, <3>2 DEF Repairs
  <2>3. CASE Truncates(h)
    BY <2>3, EmptyIsClean DEF Truncates
  <2>4. CASE Writes(h)
    <3>1. CASE at[h] = "writeKernel"
      <4>1. at'[h] = "readForwarding"
        BY <2>4, <3>1 DEF Writes, Goto, TextTypes
      <4> QED
        BY <4>1 DEF Repairs
    <3>2. CASE at[h] = "writeForwarding"
      <4>1. Clean(text[h], key) /\ (Clean(file, key) \/ Repairs)
        BY <1>1, <2>1, <3>2 DEF LastClean
      <4>2. Repairs => Repairs'
        BY <2>1, <3>2 DEF Repairs
      <4>3. file' = text[h] \/ file' = file
        BY <2>1, <2>4, WritesOneOfTwo
      <4> QED
        BY <4>1, <4>2, <4>3
    <3> QED
      BY <2>4, <3>1, <3>2 DEF Writes, Goto
  <2>5. CASE Breaks(h) \/ Abandons(h)
    <3>1. at'[h] = "idle" /\ ~overlap
      BY <2>5 DEF Breaks, Abandons, Fails, TextTypes
    <3>2. \A g \in Handlers : at'[g] = "idle"
      BY <2>1, <3>1 DEF Solo, Alone, OneAtWork
    <3> QED
      BY <1>2, <3>2 DEF Quiet
  <2> QED
    BY <1>6, <2>2, <2>3, <2>4, <2>5 DEF FixPart
<1> QED
  BY <1>3, <1>4, <1>5, <1>6, StepKinds

\* Whatever fixes run at the same time and however earlier ones broke off, init finds
\* nothing incompatible once a fix has succeeded.
THEOREM FixedStaysCompatible == Spec => []FixedIsCompatible
<1>1. TextTypes /\ Solo /\ FixInv => FixedIsCompatible
  <2> SUFFICES ASSUME TextTypes, Solo, FixInv, Quiet, fixed, NoOdd(orig)
               PROVE  ExistIncompatible(file) = {}
    BY DEF FixedIsCompatible
  <2>1. NoOdd(file) /\ Clean(file, "kernel") /\ Clean(file, "localhostforwarding")
    BY DEF FixInv, OddNowhere, KernelClean, AfterClean, Solo, SpoiltNotFixed
  <2>2. ASSUME NEW key \in FixKeys PROVE Found(file, "[wsl2]", key) = {}
    <3> SUFFICES ASSUME NEW i \in DOMAIN file, Sets(file[i], key) PROVE FALSE
      BY DEF Found
    <3>1. ~Matches(file[i], key)
      BY <2>1 DEF Clean, FixKeys
    <3>2. ~file[i].odd
      BY <2>1 DEF NoOdd, Sets
    <3> QED
      BY <3>1, <3>2 DEF Matches
  <2>3. \A key \in FixKeys : GetValue(file, "[wsl2]", key) = {}
    BY <2>2 DEF GetValue
  <2> QED
    BY <2>3 DEF ExistIncompatible, FixKeys
<1>2. TextTypes /\ Solo /\ SameLength /\ FixInv /\ [Next]_vars => FixInv'
  BY OddStep, KernelStep, LastStep, AfterStep, RepairStep DEF FixInv
<1> QED
  BY <1>1, <1>2, TextStart, TextStep, SoloStart, SoloStep, SoloIsAlone,
     LengthStart, LengthStep, FixStart, PTL DEF Spec
=============================================================================
