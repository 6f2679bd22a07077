-------------------------- MODULE DataCacheProofs ---------------------------
(***************************************************************************)
(* Proofs about DataCache, for any set of records, faults and stops: which *)
(* records the sending thread may lose, and which it may send twice.       *)
(***************************************************************************)
EXTENDS DataCache, TLAPS

Line  == Item \cup {Torn}
Lines == IF file = NoFile THEN <<>> ELSE file

\* The executions of a record that have happened or are under way.
Sum(r) == stored[r] + late[r]

\* A record has two lines.
Twice(s, r) == \E i, j \in DOMAIN s : i # j /\ s[i] = r /\ s[j] = r

\* The record of the request or of the append.
InHand(r) == pc \in {"request", "append"} /\ cur = r

\* Where the thread is inside DataCache.send, and where it is not.  The lock
\* never sends a record to tempCache.
Flow == /\ pc = "lines" => resending
        /\ pc \in {"idle", "send"} => ~resending
        /\ tempCache = <<>>
        /\ resending => lockDepth > 0

\* Only records that were handed over are in hand, in the file, in the pass or
\* at the backend.
Origin == \A r \in Record \ out :
            r \notin Range(Lines) /\ r \notin Range(todo) /\ ~InHand(r) /\ Sum(r) = 0

\* A pass over the file has dealt with the records of the file, or will.
PassCovers ==
  resending => \A r \in Record : r \in Range(Lines) =>
    r \in Range(todo) \/ InHand(r) \/ r \in returned \/ Sum(r) > 0 \/ r \in excused

\* What is to be sent, or will be, has not been executed.
Fresh(r) ==
  /\ InHand(r) \/ r \in Range(todo) => Sum(r) = 0 \/ r \in blurred
  /\ r \in Range(Lines) => Sum(r) = 0 \/ r \in blurred \/ (resending /\ r \in done)

\* It is to be sent once: it is in one place, and there once.
Once(r) ==
  /\ InHand(r) /\ pc = "request" /\ r \in Range(todo) => r \in blurred
  /\ InHand(r) /\ ~resending => r \notin Range(Lines)
  /\ Twice(todo, r) => r \in blurred
  /\ Twice(Lines, r) => r \in blurred \/ (resending /\ r \in returned)

Kept   == NoOtherLoss /\ PassCovers
Single == TwiceOnlyIfBlurred /\ \A r \in Record : Fresh(r) /\ Once(r)

IInv == TypeOK /\ Flow /\ Origin /\ Kept /\ Single

-----------------------------------------------------------------------------
\* The lines the loop of send has yet to see after the next one.
LEMMA TailLines ==
  ASSUME NEW s \in Seq(Line), s # <<>>
  PROVE  /\ Tail(s) \in Seq(Line) /\ Head(s) \in Line
         /\ Range(s) = {Head(s)} \cup Range(Tail(s))
         /\ \A r : Twice(Tail(s), r) => Twice(s, r)
         /\ Head(s) \in Range(Tail(s)) => Twice(s, Head(s))
<1>1. /\ Len(s) \in Nat \ {0} /\ DOMAIN s = 1 .. Len(s) /\ Head(s) = s[1]
      /\ Tail(s) \in Seq(Line) /\ DOMAIN Tail(s) = 1 .. Len(s) - 1
      /\ \A i \in 1 .. Len(s) - 1 : Tail(s)[i] = s[i + 1]
      /\ \A i \in 1 .. Len(s) : s[i] \in Line
  <2>1. Len(s) \in Nat \ {0} /\ DOMAIN s = 1 .. Len(s) /\ Head(s) = s[1]
    OBVIOUS
  <2>2. Tail(s) \in Seq(Line) /\ Len(Tail(s)) = Len(s) - 1
    OBVIOUS
  <2>3. \A i \in 1 .. Len(s) - 1 : Tail(s)[i] = s[i + 1]
    OBVIOUS
  <2>4. \A i \in 1 .. Len(s) : s[i] \in Line
    OBVIOUS
  <2>5. DOMAIN Tail(s) = 1 .. Len(Tail(s))
    BY <2>2
  <2> QED BY <2>1, <2>2, <2>3, <2>4, <2>5
<1>2. Range(s) = {Head(s)} \cup Range(Tail(s))
  <2>1. ASSUME NEW i \in 1 .. Len(s), i # 1 PROVE i - 1 \in 1 .. Len(s) - 1 /\ s[i] = Tail(s)[i - 1]
    BY <1>1, <2>1
  <2>2. ASSUME NEW i \in 1 .. Len(s) - 1 PROVE i + 1 \in 1 .. Len(s) /\ Tail(s)[i] = s[i + 1]
    BY <1>1
  <2>3. ASSUME NEW r \in Range(s) PROVE r = Head(s) \/ r \in Range(Tail(s))
    <3>1. PICK i \in 1 .. Len(s) : s[i] = r
      BY <1>1 DEF Range
    <3> QED BY <1>1, <2>1, <3>1 DEF Range
  <2>4. Head(s) \in Range(s)
    BY <1>1 DEF Range
  <2>5. ASSUME NEW r \in Range(Tail(s)) PROVE r \in Range(s)
    <3>1. PICK i \in 1 .. Len(s) - 1 : Tail(s)[i] = r
      BY <1>1 DEF Range
    <3> QED BY <1>1, <2>2, <3>1 DEF Range
  <2> QED BY <2>3, <2>4, <2>5
<1>3. ASSUME NEW r, Twice(Tail(s), r) PROVE Twice(s, r)
  <2>1. PICK i, j \in 1 .. Len(s) - 1 : i # j /\ Tail(s)[i] = r /\ Tail(s)[j] = r
    BY <1>1, <1>3 DEF Twice
  <2>2. i + 1 \in 1 .. Len(s) /\ j + 1 \in 1 .. Len(s) /\ i + 1 # j + 1
        /\ s[i + 1] = r /\ s[j + 1] = r
    BY <1>1, <2>1
  <2> QED BY <1>1, <2>2 DEF Twice
<1>4. ASSUME Head(s) \in Range(Tail(s)) PROVE Twice(s, Head(s))
  <2>1. PICK i \in 1 .. Len(s) - 1 : Tail(s)[i] = Head(s)
    BY <1>1, <1>4 DEF Range
  <2>2. i + 1 \in 1 .. Len(s) /\ 1 \in 1 .. Len(s) /\ i + 1 # 1
        /\ s[i + 1] = Head(s) /\ s[1] = Head(s)
    BY <1>1, <2>1
  <2> QED BY <1>1, <2>2 DEF Twice
<1> QED BY <1>1, <1>2, <1>3, <1>4

\* A line that is written at the end of others.
LEMMA OneLineMore ==
  ASSUME NEW s \in Seq(Line), NEW c \in Line
  PROVE  /\ s \o <<c>> \in Seq(Line)
         /\ Range(s \o <<c>>) = Range(s) \cup {c}
         /\ \A r : Twice(s \o <<c>>, r) => Twice(s, r) \/ (r = c /\ c \in Range(s))
<1> DEFINE t == s \o <<c>>
<1>1. /\ Len(s) \in Nat /\ DOMAIN s = 1 .. Len(s) /\ t \in Seq(Line)
      /\ DOMAIN t = 1 .. Len(s) + 1 /\ t[Len(s) + 1] = c
      /\ \A i \in 1 .. Len(s) : t[i] = s[i]
  OBVIOUS
<1> HIDE DEF t
<1>2. \A i \in 1 .. Len(s) + 1 : i \in 1 .. Len(s) \/ i = Len(s) + 1
  BY <1>1
<1>3. 1 .. Len(s) \subseteq 1 .. Len(s) + 1 /\ Len(s) + 1 \in 1 .. Len(s) + 1
  BY <1>1
<1>4. Range(t) = Range(s) \cup {c}
  BY <1>1, <1>2, <1>3 DEF Range
<1>5. ASSUME NEW r, Twice(t, r) PROVE Twice(s, r) \/ (r = c /\ c \in Range(s))
  <2>1. PICK i, j \in 1 .. Len(s) + 1 : i # j /\ t[i] = r /\ t[j] = r
    BY <1>1, <1>5 DEF Twice
  <2> QED BY <1>1, <1>2, <2>1 DEF Twice, Range
<1> QED BY <1>1, <1>4, <1>5 DEF t

\* The file after a line was appended to it: a torn last line swallows it.
LEMMA FileAppended ==
  ASSUME NEW c \in Line, file = NoFile \/ file \in Seq(Line), file' = Appended(file, <<c>>)
  PROVE  /\ file' \in Seq(Line) /\ Lines \in Seq(Line) /\ Lines' = file'
         /\ IF Glued(file) THEN Lines' = Lines ELSE Lines' = Lines \o <<c>>
<1>1. Lines \in Seq(Line)
  BY DEF Lines
<1>2. Tail(<<c>>) = <<>> /\ <<>> \o <<c>> = <<c>>
  OBVIOUS
<1>3. CASE Glued(file)
  <2>1. file \in Seq(Line) /\ file # NoFile /\ file' = file \o <<>>
    BY <1>2, <1>3 DEF Glued, Appended
  <2>2. file' = file
    BY <2>1
  <2> QED BY <1>1, <1>3, <2>1, <2>2 DEF Lines
<1>4. CASE ~Glued(file)
  <2>1. file' = Lines \o <<c>>
    BY <1>2, <1>4 DEF Glued, Appended, Lines
  <2>2. file' \in Seq(Line)
    BY <1>1, <2>1, OneLineMore
  <2>3. file' # NoFile
    BY <2>2, DataCacheAssumption DEF Line, Item
  <2> QED BY <1>1, <1>4, <2>1, <2>2, <2>3 DEF Lines
<1> QED BY <1>3, <1>4

\* What the callbacks and the backend make of an exchange.
LEMMA Exchanged ==
  ASSUME NEW x \in Exchanges, NEW e \in Execution(x)
  PROVE  /\ e \in {"stored", "late", "not"}
         /\ Replies(x) /\ Failed(Reply(x)) => outputResponce(Reply(x)) = "append"
                                             /\ sendResponce(Reply(x)) = "append"
         /\ ~Failed(Reply(x)) => outputResponce(Reply(x)) = "send"
                               /\ sendResponce(Reply(x)) = "lines"
         /\ Replies(x) \in BOOLEAN /\ Failed(Reply(x)) \in BOOLEAN /\ Throws(x) \in BOOLEAN
BY DataCacheAssumption
   DEF Exchange, Execution, Replies, Reply, Failed, outputResponce, sendResponce, Throws

\* One more execution, or none.
LEMMA Counted ==
  ASSUME NEW count \in [Record -> Nat], NEW r \in Item
  PROVE  /\ OneMore(count, r) \in [Record -> Nat]
         /\ \A q \in Record : OneMore(count, r)[q] = IF q = r THEN count[q] + 1 ELSE count[q]
<1>1. CASE r = Beat
  BY <1>1, DataCacheAssumption DEF OneMore
<1>2. CASE r # Beat
  BY <1>2 DEF OneMore, Item
<1> QED BY <1>1, <1>2

-----------------------------------------------------------------------------
LEMMA InitIInv == Init => IInv
<1> SUFFICES ASSUME Init PROVE IInv
  OBVIOUS
<1>1. /\ file = NoFile /\ Lines = <<>> /\ todo = <<>> /\ pc = "idle" /\ ~resending
      /\ Range(Lines) = {} /\ Range(todo) = {}
  BY DEF Init, Lines, Range
<1>2. TypeOK
  <2>1. /\ <<>> \in Seq(Item) /\ <<>> \in Seq(Item \cup {Torn}) /\ Beat \in Item
        /\ 0 \in 0 .. MaxDepth /\ 0 \in 0 .. MaxFaults /\ 0 \in 0 .. MaxCrashes
    BY DataCacheAssumption DEF Item
  <2>2. stored \in [Record -> Nat] /\ late \in [Record -> Nat]
    BY DEF Init
  <2>3. resending \in BOOLEAN /\ dying \in BOOLEAN
    BY DEF Init
  <2> QED BY <2>1, <2>2, <2>3 DEF Init, TypeOK
<1>3. Flow /\ Origin
  BY <1>1 DEF Init, Flow, Origin, InHand, Sum
<1>4. Kept
  BY <1>1 DEF Init, Kept, NoOtherLoss, PassCovers
<1>5. Single
  BY <1>1 DEF Init, Single, Fresh, Once, InHand, Twice, TwiceOnlyIfBlurred
<1> QED BY <1>2, <1>3, <1>4, <1>5 DEF IInv

\* The types and the places of the thread, through every step.
LEMMA TypeStep == TypeOK /\ Flow /\ [Next]_vars => TypeOK' /\ Flow'
<1> SUFFICES ASSUME TypeOK, Flow, [Next]_vars PROVE TypeOK' /\ Flow'
  OBVIOUS
<1> USE DataCacheAssumption DEF TypeOK, Flow, lock, backend, budget, pass, history, thread
<1>1. ASSUME NEW r \in Item, Output(r) PROVE TypeOK' /\ Flow'
  BY <1>1 DEF Output, Item
<1>2. ASSUME NEW x \in Exchanges, NEW e \in Execution(x), Answer(x, e) PROVE TypeOK' /\ Flow'
  <2>1. stored' \in [Record -> Nat] /\ late' \in [Record -> Nat]
    BY <1>2, Counted DEF Answer
  <2>2. faults' \in 0 .. MaxFaults
    BY <1>2 DEF Answer
  <2>3. done' \subseteq Item /\ blurred' \subseteq Item /\ excused' \subseteq Item
    BY <1>2 DEF Answer
  <2>4. dying' \in BOOLEAN
    BY <1>2, Exchanged DEF Answer
  <2>5. pc' \in {"append", "send", "lines", "idle"} /\ (pc' = "lines" => resending)
        /\ (pc' \in {"idle", "send"} => ~resending)
    BY <1>2, Exchanged DEF Answer
  <2> QED BY <1>2, <2>1, <2>2, <2>3, <2>4, <2>5 DEF Answer
<1>3. ASSUME NEW r \in Record, LateExecution(r) PROVE TypeOK' /\ Flow'
  BY <1>3 DEF LateExecution
<1>4. CASE DoAppend
  <2>1. <<cur>> \o <<>> = <<cur>>
    BY DEF TypeOK
  <2>2. file' = Appended(file, <<cur>>) /\ tempCache' = <<>>
    BY <1>4, <2>1 DEF DoAppend, CanAcquire
  <2>3. file' \in Seq(Line)
    BY <2>2, FileAppended DEF Line
  <2>4. blurred' \subseteq Item /\ excused' \subseteq Item /\ returned' \subseteq Item
    BY <1>4 DEF DoAppend, CanAcquire
  <2> QED BY <1>4, <2>2, <2>3, <2>4 DEF DoAppend, Line
<1>5. CASE SendNoFile
  BY <1>5 DEF SendNoFile, Deeper
<1>6. CASE SendOpen
  BY <1>6 DEF SendOpen, Deeper
<1>7. CASE Resend
  <2>1. Tail(todo) \in Seq(Line) /\ Head(todo) \in Line
    BY <1>7, TailLines DEF Resend, Line
  <2> QED BY <1>7, <2>1 DEF Resend, Line
<1>8. CASE SkipTorn
  <2>1. Tail(todo) \in Seq(Line)
    BY <1>8, TailLines DEF SkipTorn, Line
  <2> QED BY <1>8, <2>1 DEF SkipTorn, Line, CutShort
<1>9. CASE SendEmpty
  <2>1. file' = <<>> /\ <<>> \in Seq(Line)
    BY <1>9 DEF SendEmpty, Emptied
  <2>2. lockDepth' \in 0 .. MaxDepth
    BY <1>9 DEF SendEmpty, Shallower
  <2>3. excused' \subseteq Item /\ done' = {} /\ returned' = {} /\ resending' = FALSE /\ pc' = "idle"
    BY <1>9 DEF SendEmpty
  <2> QED BY <1>9, <2>1, <2>2, <2>3 DEF SendEmpty, Line
<1>10. CASE Restart
  <2>1. file' = NoFile \/ file' \in Seq(Line)
    BY <1>10, FileAppended DEF Restart, Line
  <2>2. stored' \in [Record -> Nat] /\ late' = late
    BY <1>10, Counted DEF Restart
  <2>3. blurred' \subseteq Item /\ excused' \subseteq Item
    BY <1>10 DEF Restart, CutShort
  <2>4. crashes' \in 0 .. MaxCrashes /\ cur' \in Item /\ resending' = FALSE /\ dying' = FALSE
    BY <1>10 DEF Restart, Item
  <2>5. tempCache' = <<>> /\ todo' = <<>> /\ <<>> \in Seq(Item) /\ <<>> \in Seq(Line)
    BY <1>10 DEF Restart
  <2>6. pc' = "idle" /\ lockDepth' = 0 /\ done' = {} /\ returned' = {} /\ faults' = faults /\ out' = out
    BY <1>10 DEF Restart
  <2>7. lockDepth' \in 0 .. MaxDepth
    BY <2>6
  <2>8. resending' \in BOOLEAN /\ dying' \in BOOLEAN
    BY <2>4
  <2>9. TypeOK'
    BY <2>1, <2>2, <2>3, <2>4, <2>5, <2>6, <2>7, <2>8 DEF Line
  <2>10. Flow'
    BY <2>4, <2>5, <2>6
  <2> QED BY <2>9, <2>10
<1>11. CASE UNCHANGED vars
  BY <1>11 DEF vars
<1> QED BY <1>1, <1>2, <1>3, <1>4, <1>5, <1>6, <1>7, <1>8, <1>9, <1>10, <1>11 DEF Next

-----------------------------------------------------------------------------
\* The records of the file, and the executions, as the steps below use them.
LEMMA Places ==
  ASSUME TypeOK
  PROVE  /\ Lines \in Seq(Line) /\ Range(<<>>) = {}
         /\ \A r \in Record : r # Torn /\ r # Beat /\ (r \in Cached <=> r \in Range(Lines))
         /\ \A r \in Record : Sum(r) \in Nat
<1>1. Lines \in Seq(Line)
  BY DEF TypeOK, Lines, Line
<1>2. Range(<<>>) = {}
  BY DEF Range
<1>3. \A r \in Record : r # Torn /\ r # Beat
  BY DataCacheAssumption
<1>4. \A r \in Record : r \in Cached <=> r \in Range(Lines)
  BY <1>2, <1>3 DEF Cached, Lines
<1>5. \A r \in Record : Sum(r) \in Nat
  BY DEF TypeOK, Sum
<1> QED BY <1>1, <1>2, <1>3, <1>4, <1>5

\* What the end of an exchange does: a record kept goes to append, one that is
\* not kept has been executed or is given up.
LEMMA AnswerEffect ==
  ASSUME TypeOK, NEW x \in Exchanges, NEW e \in Execution(x), Answer(x, e)
  PROVE  /\ pc = "request" /\ UNCHANGED <<file, cur, resending, todo, returned, out>>
         /\ \A r \in Record : Sum(r)' = IF e # "not" /\ r = cur THEN Sum(r) + 1 ELSE Sum(r)
         /\ done' = IF resending /\ e # "not" THEN done \cup {cur} ELSE done
         /\ \/ /\ pc' = "append" /\ excused' = excused
               /\ blurred' = IF e # "not" THEN blurred \cup {cur} ELSE blurred
            \/ /\ pc' \in {"idle", "send", "lines"} /\ blurred' = blurred
               /\ excused' = IF e = "not" THEN excused \cup {cur} ELSE excused
<1>1. e \in {"stored", "late", "not"}
  BY Exchanged
<1>2. pc = "request" /\ UNCHANGED <<file, cur, resending, todo, returned, out>>
  BY DEF Answer, lock
<1>3. ASSUME NEW r \in Record
      PROVE  Sum(r)' = IF e # "not" /\ r = cur THEN Sum(r) + 1 ELSE Sum(r)
  <2>1. stored'[r] = IF e = "stored" /\ r = cur THEN stored[r] + 1 ELSE stored[r]
    BY Counted DEF Answer, TypeOK
  <2>2. late'[r] = IF e = "late" /\ r = cur THEN late[r] + 1 ELSE late[r]
    BY Counted DEF Answer, TypeOK
  <2>3. stored[r] \in Nat /\ late[r] \in Nat
    BY DEF TypeOK
  <2> QED BY <1>1, <2>1, <2>2, <2>3 DEF Sum
<1>4. done' = IF resending /\ e # "not" THEN done \cup {cur} ELSE done
  BY DEF Answer
<1>5. \/ /\ pc' = "append" /\ excused' = excused
         /\ blurred' = IF e # "not" THEN blurred \cup {cur} ELSE blurred
      \/ /\ pc' \in {"idle", "send", "lines"} /\ blurred' = blurred
         /\ excused' = IF e = "not" THEN excused \cup {cur} ELSE excused
  <2>1. CASE Replies(x) /\ Failed(Reply(x))
    BY <2>1, Exchanged DEF Answer
  <2>2. CASE ~(Replies(x) /\ Failed(Reply(x)))
    BY <2>2, Exchanged DEF Answer
  <2> QED BY <2>1, <2>2
<1> QED BY <1>2, <1>3, <1>4, <1>5

\* What append does: the record is in the file, unless the line before it was
\* torn.
LEMMA AppendEffect ==
  ASSUME TypeOK, Flow, DoAppend
  PROVE  /\ pc = "append" /\ pc' \in {"dead", "lines", "idle"}
         /\ UNCHANGED <<cur, resending, todo, done, out, stored, late>>
         /\ \/ Lines' = Lines /\ excused' = excused \cup {cur}
            \/ Lines' = Lines \o <<cur>> /\ excused' = excused
         /\ returned' = IF resending THEN returned \cup {cur} ELSE returned
         /\ blurred \subseteq blurred'
<1>1. <<cur>> \o <<>> = <<cur>> /\ cur \in Line
  BY DEF TypeOK, Line
<1>2. file' = Appended(file, <<cur>>)
  BY <1>1 DEF DoAppend, CanAcquire, Flow
<1>3. IF Glued(file) THEN Lines' = Lines ELSE Lines' = Lines \o <<cur>>
  BY <1>1, <1>2, FileAppended DEF TypeOK, Line
<1>4. excused' = IF Glued(file) THEN excused \cup {cur} ELSE excused
  BY DEF DoAppend, CanAcquire
<1> QED BY <1>3, <1>4 DEF DoAppend, backend, budget

\* What a stop does: the record in hand is given up, and those of the pass are
\* in the file as before.
LEMMA RestartEffect ==
  ASSUME TypeOK, Restart
  PROVE  /\ todo' = <<>> /\ pc' = "idle" /\ resending' = FALSE /\ out' = out
         /\ \A r \in Record : /\ r \in Range(Lines)' <=> r \in Range(Lines)
                              /\ Twice(Lines, r)' => Twice(Lines, r)
                              /\ Sum(r)' = Sum(r) \/ (InHand(r) /\ Sum(r)' = Sum(r) + 1 /\ r \in blurred')
                              /\ InHand(r) => r \in excused'
         /\ blurred \cup done \cup returned \subseteq blurred' /\ excused \subseteq excused'
<1>1. todo' = <<>> /\ pc' = "idle" /\ resending' = FALSE /\ out' = out
  BY DEF Restart
<1>2. blurred \cup done \cup returned \subseteq blurred' /\ excused \subseteq excused'
  BY DEF Restart, CutShort
<1>3. \A r \in Record : InHand(r) => r \in excused'
  BY DEF Restart, InHand
<1>4. ASSUME NEW r \in Record
      PROVE  (r \in Range(Lines)' <=> r \in Range(Lines)) /\ (Twice(Lines, r)' => Twice(Lines, r))
  <2>1. CASE file' = file
    BY <2>1 DEF Lines, Range, Twice
  <2>2. CASE file' = Appended(file, <<Torn>>)
    <3>1. Torn \in Line /\ Lines \in Seq(Line) /\ (Lines' = Lines \/ Lines' = Lines \o <<Torn>>)
      BY <2>2, FileAppended DEF TypeOK, Line
    <3>2. r # Torn
      BY Places
    <3>3. CASE Lines' = Lines
      BY <3>3 DEF Range, Twice
    <3>4. CASE Lines' = Lines \o <<Torn>>
      <4>1. Range(Lines)' = Range(Lines \o <<Torn>>) /\ (Twice(Lines, r)' <=> Twice(Lines \o <<Torn>>, r))
        BY <3>4 DEF Range, Twice
      <4> QED BY <3>1, <3>2, <4>1, OneLineMore
    <3> QED BY <3>1, <3>3, <3>4
  <2> QED BY <2>1, <2>2 DEF Restart
<1>5. ASSUME NEW r \in Record
      PROVE  Sum(r)' = Sum(r) \/ (InHand(r) /\ Sum(r)' = Sum(r) + 1 /\ r \in blurred')
  <2>1. late' = late /\ late[r] \in Nat /\ stored[r] \in Nat
    BY DEF Restart, TypeOK
  <2>2. CASE stored' = stored
    BY <2>1, <2>2 DEF Sum
  <2>3. CASE pc = "request" /\ stored' = OneMore(stored, cur) /\ cur \in blurred'
    BY <2>1, <2>3, Counted DEF Sum, TypeOK, InHand
  <2> QED BY <2>2, <2>3 DEF Restart
<1> QED BY <1>1, <1>2, <1>3, <1>4, <1>5

-----------------------------------------------------------------------------
\* A step that leaves the file and the counts alone leaves these too.
LEMMA SameFile ==
  /\ file' = file => Lines' = Lines /\ Range(Lines)' = Range(Lines)
                     /\ \A r : Twice(Lines, r)' <=> Twice(Lines, r)
  /\ stored' = stored /\ late' = late => \A r : Sum(r)' = Sum(r)
  /\ todo' = todo => Range(todo)' = Range(todo) /\ \A r : Twice(todo, r)' <=> Twice(todo, r)
  /\ pc' = pc /\ cur' = cur => \A r : InHand(r)' <=> InHand(r)
BY DEF Lines, Range, Twice, Sum, InHand

\* The backend executes late what it was counted for.
LEMMA LateEffect ==
  ASSUME TypeOK, NEW r \in Record, LateExecution(r)
  PROVE  /\ \A q \in Record : Sum(q)' = Sum(q)
         /\ UNCHANGED <<file, pc, cur, resending, todo, done, returned, out, blurred, excused>>
<1>1. ASSUME NEW q \in Record PROVE Sum(q)' = Sum(q)
  <2>1. stored[q] \in Nat /\ late[q] \in Nat
    BY DEF TypeOK
  <2>2. CASE q = r
    BY <2>1, <2>2 DEF LateExecution, Sum, TypeOK
  <2>3. CASE q # r
    BY <2>1, <2>3 DEF LateExecution, Sum, TypeOK
  <2> QED BY <2>2, <2>3
<1> QED BY <1>1 DEF LateExecution, thread, pass, history

\* The next line of the pass.
LEMMA NextLine ==
  ASSUME TypeOK, todo # <<>>, todo' = Tail(todo)
  PROVE  /\ Range(todo) = {Head(todo)} \cup Range(todo)'
         /\ \A r : Twice(todo, r)' => Twice(todo, r)
         /\ Head(todo) \in Range(todo)' => Twice(todo, Head(todo))
<1>1. todo \in Seq(Line)
  BY DEF TypeOK, Line
<1>2. Range(todo)' = Range(Tail(todo)) /\ \A r : Twice(todo, r)' <=> Twice(Tail(todo), r)
  BY DEF Range, Twice
<1> QED BY <1>1, <1>2, TailLines

\* Nothing that was not handed over is anywhere, through every step.
LEMMA OriginStep == TypeOK /\ Flow /\ Origin /\ [Next]_vars => Origin'
<1> SUFFICES ASSUME TypeOK, Flow, Origin, [Next]_vars, NEW r \in Record, r \notin out'
             PROVE  (r \notin Range(Lines) /\ r \notin Range(todo) /\ ~InHand(r) /\ Sum(r) = 0)'
  BY DEF Origin
<1> USE Places, SameFile DEF Origin, InHand, lock, backend, budget, pass, history, thread
<1>1. ASSUME NEW q \in Item, Output(q)
      PROVE  (r \notin Range(Lines) /\ r \notin Range(todo) /\ ~InHand(r) /\ Sum(r) = 0)'
  BY <1>1 DEF Output
<1>2. ASSUME NEW x \in Exchanges, NEW e \in Execution(x), Answer(x, e)
      PROVE  (r \notin Range(Lines) /\ r \notin Range(todo) /\ ~InHand(r) /\ Sum(r) = 0)'
  BY <1>2, AnswerEffect
<1>3. ASSUME NEW q \in Record, LateExecution(q)
      PROVE  (r \notin Range(Lines) /\ r \notin Range(todo) /\ ~InHand(r) /\ Sum(r) = 0)'
  BY <1>3, LateEffect
<1>4. CASE DoAppend
  <2>1. r # cur /\ cur \in Line
    BY <1>4, AppendEffect DEF TypeOK, Line
  <2>2. Range(Lines)' = Range(Lines) \/ Range(Lines)' = Range(Lines) \cup {cur}
    BY <1>4, <2>1, AppendEffect, OneLineMore, SMTT(40) DEF Range
  <2> QED BY <1>4, <2>1, <2>2, AppendEffect
<1>5. CASE SendNoFile
  BY <1>5 DEF SendNoFile
<1>6. CASE SendOpen
  <2>1. Range(todo)' = Range(Lines)
    BY <1>6 DEF SendOpen, Lines, Range
  <2> QED BY <1>6, <2>1 DEF SendOpen
<1>7. CASE Resend
  BY <1>7, NextLine DEF Resend
<1>8. CASE SkipTorn
  BY <1>8, NextLine DEF SkipTorn
<1>9. CASE SendEmpty
  <2>1. Range(Lines)' = {}
    BY <1>9 DEF SendEmpty, Emptied, Lines, Range
  <2> QED BY <1>9, <2>1 DEF SendEmpty
<1>10. CASE Restart
  <2>1. Range(todo)' = {}
    BY <1>10, RestartEffect DEF Range
  <2>2. out' = out /\ pc' = "idle" /\ ~InHand(r)
    BY <1>10, RestartEffect
  <2>3. r \notin Range(Lines)' /\ Sum(r)' = Sum(r)
    BY <1>10, <2>2, RestartEffect
  <2> QED BY <2>1, <2>2, <2>3
<1>11. CASE UNCHANGED vars
  BY <1>11 DEF vars
<1> QED BY <1>1, <1>2, <1>3, <1>4, <1>5, <1>6, <1>7, <1>8, <1>9, <1>10, <1>11 DEF Next

\* A record stays accounted for, and a pass deals with what the file holds.
LEMMA KeptStep == TypeOK /\ Flow /\ Kept /\ [Next]_vars => Kept'
<1> SUFFICES ASSUME TypeOK, Flow, Kept, [Next]_vars, TypeOK' PROVE Kept'
  BY TypeStep
<1> DEFINE Sure(r)   == InHand(r) \/ r \in Range(Lines) \/ Sum(r) > 0 \/ r \in excused
           Passed(r) == r \in Range(todo) \/ InHand(r) \/ r \in returned \/ Sum(r) > 0 \/ r \in excused
<1>a. /\ \A r \in Record : r \in out => Sure(r)
      /\ resending => \A r \in Record : r \in Range(Lines) => Passed(r)
  BY Places DEF Kept, NoOtherLoss, PassCovers, Accounted, InHand, Sum
<1> SUFFICES ASSUME NEW r \in Record
             PROVE  /\ r \in out' => Sure(r)'
                    /\ resending' /\ r \in Range(Lines)' => Passed(r)'
  <2>1. out' \subseteq Record
    BY DEF TypeOK
  <2>2. \A q \in Record : q \in Cached' <=> q \in Range(Lines)'
    BY DataCacheAssumption DEF Cached, Lines, Range
  <2> QED BY <2>1, <2>2 DEF Kept, NoOtherLoss, PassCovers, Accounted, InHand, Sum
<1>b. (r \in out => Sure(r)) /\ (resending /\ r \in Range(Lines) => Passed(r))
  BY <1>a
<1> USE Places, SameFile DEF InHand, lock, backend, budget, pass, history, thread
<1>1. ASSUME NEW q \in Item, Output(q)
      PROVE  (r \in out' => Sure(r)') /\ (resending' /\ r \in Range(Lines)' => Passed(r)')
  BY <1>1, <1>b DEF Output, Flow
<1>2. ASSUME NEW x \in Exchanges, NEW e \in Execution(x), Answer(x, e)
      PROVE  (r \in out' => Sure(r)') /\ (resending' /\ r \in Range(Lines)' => Passed(r)')
  BY <1>2, <1>b, AnswerEffect
<1>3. ASSUME NEW q \in Record, LateExecution(q)
      PROVE  (r \in out' => Sure(r)') /\ (resending' /\ r \in Range(Lines)' => Passed(r)')
  BY <1>3, <1>b, LateEffect
<1>4. CASE DoAppend
  <2>1. cur \in Line
    BY DEF TypeOK, Line
  <2>2. Range(Lines)' = Range(Lines) \/ Range(Lines)' = Range(Lines) \cup {cur}
    <3>1. Lines' = Lines \/ Lines' = Lines \o <<cur>>
      BY <1>4, AppendEffect
    <3>2. Range(Lines)' = Range(Lines) \/ Range(Lines)' = Range(Lines \o <<cur>>)
      BY <3>1 DEF Range
    <3>3. Range(Lines \o <<cur>>) = Range(Lines) \cup {cur}
      BY <2>1, OneLineMore
    <3> QED BY <3>1, <3>2, <3>3
  <2>3. r = cur => r \in Range(Lines)' \/ r \in excused'
    <3>1. CASE Lines' = Lines \o <<cur>>
      <4>1. Range(Lines)' = Range(Lines \o <<cur>>)
        BY <3>1 DEF Range
      <4> QED BY <2>1, <4>1, OneLineMore
    <3>2. CASE excused' = excused \cup {cur}
      BY <3>2
    <3> QED BY <1>4, <3>1, <3>2, AppendEffect
  <2> QED BY <1>4, <1>b, <2>3, <2>1, <2>2, AppendEffect
<1>5. CASE SendNoFile
  BY <1>5, <1>b DEF SendNoFile, Flow
<1>6. CASE SendOpen
  <2>1. Range(todo)' = Range(Lines)
    BY <1>6 DEF SendOpen, Lines, Range
  <2> QED BY <1>6, <1>b, <2>1 DEF SendOpen
<1>7. CASE Resend
  BY <1>7, <1>b, NextLine DEF Resend
<1>8. CASE SkipTorn
  BY <1>8, <1>b, NextLine DEF SkipTorn
<1>9. CASE SendEmpty
  <2>1. Range(todo) = {}
    BY <1>9 DEF SendEmpty
  <2> QED BY <1>9, <1>b, <2>1 DEF SendEmpty, Flow
<1>10. CASE Restart
  <2>1. r \in Range(Lines)' <=> r \in Range(Lines)
    BY <1>10, RestartEffect
  <2>2. Sum(r)' = Sum(r) \/ Sum(r)' = Sum(r) + 1
    BY <1>10, RestartEffect
  <2>3. (InHand(r) \/ r \in excused => r \in excused') /\ resending' = FALSE /\ out' = out
    BY <1>10, RestartEffect
  <2> QED BY <1>b, <2>1, <2>2, <2>3
<1>11. CASE UNCHANGED vars
  BY <1>11, <1>b DEF vars
<1> QED BY <1>1, <1>2, <1>3, <1>4, <1>5, <1>6, <1>7, <1>8, <1>9, <1>10, <1>11 DEF Next

\* A record is executed once, and is not to be sent again, unless blurred.
LEMMA SingleStep == TypeOK /\ Flow /\ Origin /\ Single /\ [Next]_vars => Single'
<1> SUFFICES ASSUME TypeOK, Flow, Origin, Single, [Next]_vars, NEW r \in Record
             PROVE  (Sum(r)' > 1 => r \in blurred') /\ Fresh(r)' /\ Once(r)'
  BY DEF Single, TwiceOnlyIfBlurred, Sum
<1> DEFINE Good == (Sum(r) > 1 => r \in blurred) /\ Fresh(r) /\ Once(r)
<1>a. Good
  BY DEF Single, TwiceOnlyIfBlurred, Sum
<1>b. Sum(r) \in Nat /\ r # Torn /\ r # Beat
  BY Places
<1>c. cur \in Line /\ Lines \in Seq(Line)
  BY Places DEF TypeOK, Line
<1> USE SameFile DEF Fresh, Once, InHand, lock, backend, budget, pass, history, thread
<1>1. ASSUME NEW q \in Item, Output(q) PROVE Good'
  BY <1>1, <1>a, <1>b DEF Output, Origin
<1>2. ASSUME NEW x \in Exchanges, NEW e \in Execution(x), Answer(x, e) PROVE Good'
  BY <1>2, <1>a, <1>b, AnswerEffect
<1>3. ASSUME NEW q \in Record, LateExecution(q) PROVE Good'
  BY <1>3, <1>a, <1>b, LateEffect
<1>4. CASE DoAppend
  <2>1. \/ Range(Lines)' = Range(Lines) /\ (Twice(Lines, r)' => Twice(Lines, r))
        \/ /\ Range(Lines)' = Range(Lines) \cup {cur}
           /\ Twice(Lines, r)' => Twice(Lines, r) \/ (r = cur /\ cur \in Range(Lines))
    <3>1. CASE Lines' = Lines
      BY <3>1 DEF Range, Twice
    <3>2. CASE Lines' = Lines \o <<cur>>
      <4>1. /\ Range(Lines)' = Range(Lines \o <<cur>>)
            /\ Twice(Lines, r)' <=> Twice(Lines \o <<cur>>, r)
        BY <3>2 DEF Range, Twice
      <4> QED BY <1>c, <4>1, OneLineMore
    <3> QED BY <1>4, <3>1, <3>2, AppendEffect
  <2> QED BY <1>4, <1>a, <1>b, <2>1, AppendEffect
<1>5. CASE SendNoFile
  BY <1>5, <1>a, <1>b DEF SendNoFile
<1>6. CASE SendOpen
  <2>1. Range(todo)' = Range(Lines) /\ (Twice(todo, r)' => Twice(Lines, r))
    BY <1>6 DEF SendOpen, Lines, Range, Twice
  <2> QED BY <1>6, <1>a, <1>b, <2>1 DEF SendOpen, Flow
<1>7. CASE Resend
  BY <1>7, <1>a, <1>b, NextLine DEF Resend, Flow
<1>8. CASE SkipTorn
  BY <1>8, <1>a, <1>b, NextLine DEF SkipTorn
<1>9. CASE SendEmpty
  <2>1. Range(Lines)' = {} /\ ~Twice(Lines, r)'
    BY <1>9 DEF SendEmpty, Emptied, Lines, Range, Twice
  <2> QED BY <1>9, <1>a, <1>b, <2>1 DEF SendEmpty
<1>10. CASE Restart
  <2>1. Range(todo)' = {} /\ ~Twice(todo, r)'
    BY <1>10, RestartEffect DEF Range, Twice
  <2> QED BY <1>10, <1>a, <1>b, <2>1, RestartEffect
<1>11. CASE UNCHANGED vars
  BY <1>11, <1>a, <1>b DEF vars
<1> QED BY <1>1, <1>2, <1>3, <1>4, <1>5, <1>6, <1>7, <1>8, <1>9, <1>10, <1>11 DEF Next

-----------------------------------------------------------------------------
\* The strengthened invariant holds from the first step on.
LEMMA Invariance == Spec => []IInv
<1>1. IInv /\ [Next]_vars => IInv'
  BY TypeStep, OriginStep, KeptStep, SingleStep DEF IInv
<1> QED BY InitIInv, <1>1, PTL DEF Spec

\* The file, the thread and the counts of the sending half keep their types.
THEOREM TypeCorrect == Spec => []TypeOK
<1>1. IInv => TypeOK
  BY DEF IInv
<1> QED BY Invariance, <1>1, PTL

\* A record handed over is lost only in the ways the model names: the daemon
\* takes an exchange for a success that was none, stops with the record in
\* hand, empties out.txt after putting it back there, or writes it to a torn line.
THEOREM LostOnlyAsNamed == Spec => []NoOtherLoss
<1>1. IInv => NoOtherLoss
  BY DEF IInv, Kept
<1> QED BY Invariance, <1>1, PTL

\* A record is executed twice only if its execution was reported as a failure
\* or a pass over out.txt was cut short: a pass that ends leaves nothing in
\* out.txt that has arrived.
THEOREM TwiceOnlyAsNamed == Spec => []TwiceOnlyIfBlurred
<1>1. IInv => TwiceOnlyIfBlurred
  BY DEF IInv, Single
<1> QED BY Invariance, <1>1, PTL
=============================================================================
