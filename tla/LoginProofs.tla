---------------------------- MODULE LoginProofs -----------------------------
(***************************************************************************)
(* Proofs about Login, for any requests, checks, rejections and failures.  *)
(***************************************************************************)
EXTENDS Login, TLAPS

Distinct(s) == \A i, j \in DOMAIN s : s[i] = s[j] => i = j

\* The properties of a page p: a function is in one place, ...
Placed(p) ==
  /\ Distinct(p.onLogin)
  /\ p.flight \cap Range(p.onLogin) = {}
  /\ p.done \cap (p.flight \cup Range(p.onLogin)) = {}

\* ... somebody will call what waits, c checks being under way, ...
Attended(p, c) == p.onLogin # <<>> => p.visible \/ c > 0 \/ p.flight \cap Ids # {}

\* ... and nothing that ends in setCurrent's loop is left of a session that was
\* given up.
Settled(p, c) == ~p.stored => c = 0 /\ (p.flight \cup Range(p.onLogin)) \cap Ids = {}

Sound == /\ Placed(page)
         /\ errors = 0 => Attended(page, checks)
         /\ ~crossed => Settled(page, checks) /\ ~page.hung

IInv == TypeOK /\ Sound

-----------------------------------------------------------------------------
\* A function that is pushed in front of those that wait.
LEMMA Pushed ==
  ASSUME NEW s \in Seq(Objects), NEW o \in Objects
  PROVE  /\ <<o>> \o s \in Seq(Objects) /\ <<o>> \o s # <<>>
         /\ Range(<<o>> \o s) = {o} \cup Range(s)
         /\ o \notin Range(s) /\ Distinct(s) => Distinct(<<o>> \o s)
<1> DEFINE t == <<o>> \o s
<1>1. /\ t \in Seq(Objects) /\ t # <<>> /\ Len(s) \in Nat
      /\ DOMAIN s = 1 .. Len(s) /\ DOMAIN t = 1 .. Len(s) + 1 /\ t[1] = o
      /\ \A i \in 2 .. Len(s) + 1 : t[i] = s[i - 1]
  OBVIOUS
<1> HIDE DEF t
<1>2. \A i \in DOMAIN t : i = 1 \/ (i - 1 \in DOMAIN s /\ t[i] = s[i - 1])
  BY <1>1
<1>3. \A i \in DOMAIN s : i + 1 \in DOMAIN t /\ t[i + 1] = s[i]
  BY <1>1
<1>4. Range(t) = {o} \cup Range(s)
  <2>1. ASSUME NEW x \in Range(t) PROVE x = o \/ x \in Range(s)
    BY <1>1, <1>2 DEF Range
  <2>2. o \in Range(t)
    BY <1>1 DEF Range
  <2>3. ASSUME NEW x \in Range(s) PROVE x \in Range(t)
    BY <1>3 DEF Range
  <2> QED BY <2>1, <2>2, <2>3
<1>5. ASSUME o \notin Range(s), Distinct(s) PROVE Distinct(t)
  <2> SUFFICES ASSUME NEW i \in DOMAIN t, NEW j \in DOMAIN t, t[i] = t[j] PROVE i = j
    BY DEF Distinct
  <2>1. \A m \in DOMAIN s : s[m] # o
    BY <1>5 DEF Range
  <2>2. i \in Int /\ j \in Int
    BY <1>1
  <2> QED BY <1>1, <1>2, <1>5, <2>1, <2>2 DEF Distinct
<1> QED BY <1>1, <1>4, <1>5 DEF t

\* What send, or whenLoggedIn, makes of a page.
LEMMA Sent ==
  ASSUME NEW p \in Page, NEW o \in Objects
  PROVE  /\ send(p, o) \in Page
         /\ send(p, o).stored = p.stored /\ send(p, o).hung = p.hung
         /\ p.hasCred =>
              /\ send(p, o).onLogin = p.onLogin /\ send(p, o).visible = p.visible
              /\ o \in When => send(p, o).done = p.done \cup {o} /\ send(p, o).flight = p.flight
              /\ o \notin When => send(p, o).flight = p.flight \cup {o} /\ send(p, o).done = p.done
              /\ Starts(p) = 0
         /\ ~p.hasCred =>
              /\ send(p, o).onLogin = <<o>> \o p.onLogin
              /\ send(p, o).flight = p.flight /\ send(p, o).done = p.done
              /\ send(p, o).visible \/ Starts(p) = 1
              /\ Starts(p) = 0 \/ (Starts(p) = 1 /\ p.stored)
<1>1. CASE p.hasCred
  BY <1>1 DEF send, Page, Starts
<1>2. CASE ~p.hasCred
  <2>1. <<o>> \o p.onLogin \in Seq(Objects)
    BY Pushed DEF Page
  <2> DEFINE l == <<o>> \o p.onLogin
  <2> HIDE DEF l
  <2>2. send(p, o) = IF p.visible THEN [p EXCEPT !.onLogin = l]
                     ELSE IF p.stored THEN [[p EXCEPT !.onLogin = l] EXCEPT !.hasCred = TRUE]
                     ELSE [[p EXCEPT !.onLogin = l] EXCEPT !.visible = TRUE]
    BY <1>2 DEF send, needLogin, l
  <2>3. CASE p.visible
    BY <1>2, <2>1, <2>2, <2>3 DEF Page, Starts, l
  <2>4. CASE ~p.visible /\ p.stored
    BY <1>2, <2>1, <2>2, <2>4 DEF Page, Starts, l
  <2>5. CASE ~p.visible /\ ~p.stored
    BY <1>2, <2>1, <2>2, <2>5 DEF Page, Starts, l
  <2> QED BY <2>3, <2>4, <2>5
<1> QED BY <1>1, <1>2

\* It goes to one place; it is attended there; and a checkCreds, or a
\* getCurrentIds, starts only with a stored session.
LEMMA SentSound ==
  ASSUME NEW p \in Page, NEW o \in Objects, o \notin Used(p), Placed(p), NEW c \in Nat
  PROVE  /\ Placed(send(p, o))
         /\ (p.hasCred => Attended(p, c) \/ o \in Ids) => Attended(send(p, o), c + Starts(p))
         /\ Settled(p, c) /\ (o \in Ids => p.stored) => Settled(send(p, o), c + Starts(p))
<1> DEFINE q == send(p, o)
<1>1. /\ q.stored = p.stored
      /\ p.hasCred =>
           /\ q.onLogin = p.onLogin /\ q.visible = p.visible /\ Starts(p) = 0
           /\ o \in When => q.done = p.done \cup {o} /\ q.flight = p.flight
           /\ o \notin When => q.flight = p.flight \cup {o} /\ q.done = p.done
      /\ ~p.hasCred =>
           /\ q.onLogin = <<o>> \o p.onLogin /\ q.flight = p.flight /\ q.done = p.done
           /\ q.visible \/ Starts(p) = 1
           /\ Starts(p) = 0 \/ (Starts(p) = 1 /\ p.stored)
  BY Sent
<1>2. p.onLogin \in Seq(Objects) /\ p.hasCred \in BOOLEAN
  BY DEF Page
<1>3. o \notin p.flight /\ o \notin p.done /\ o \notin Range(p.onLogin)
  BY DEF Used
<1> HIDE DEF q
<1>4. Placed(q)
  <2>1. CASE p.hasCred
    BY <1>1, <1>3, <2>1 DEF Placed
  <2>2. CASE ~p.hasCred
    <3>1. Range(q.onLogin) = {o} \cup Range(p.onLogin)
      BY <1>1, <1>2, <2>2, Pushed
    <3>2. Distinct(q.onLogin)
      BY <1>1, <1>2, <1>3, <2>2, Pushed DEF Placed
    <3> QED BY <1>1, <1>3, <2>2, <3>1, <3>2 DEF Placed
  <2> QED BY <2>1, <2>2
<1>5. ASSUME p.hasCred => Attended(p, c) \/ o \in Ids PROVE Attended(q, c + Starts(p))
  <2>1. CASE p.hasCred
    BY <1>1, <1>5, <2>1, LoginAssumption DEF Attended
  <2>2. CASE ~p.hasCred
    BY <1>1, <2>2 DEF Attended
  <2> QED BY <2>1, <2>2
<1>6. ASSUME Settled(p, c), o \in Ids => p.stored PROVE Settled(q, c + Starts(p))
  <2>1. CASE p.hasCred
    BY <1>1, <1>6, <2>1, LoginAssumption DEF Settled
  <2>2. CASE ~p.hasCred
    <3>1. Range(q.onLogin) = {o} \cup Range(p.onLogin)
      BY <1>1, <1>2, <2>2, Pushed
    <3> QED BY <1>1, <1>6, <2>2, <3>1 DEF Settled
  <2> QED BY <2>1, <2>2
<1> QED BY <1>4, <1>5, <1>6 DEF q

\* What setCurrent's loop makes of a page.  With a stored session it never
\* hangs, and nothing is left waiting.
LEMMA DrainedSound ==
  ASSUME NEW p \in Page, Placed(p), NEW c \in Nat
  PROVE  /\ Drained(p) \in Page /\ Placed(Drained(p))
         /\ Attended(Drained(p), c + DrainStarts(p))
         /\ Settled(p, c) => Settled(Drained(p), c + DrainStarts(p))
         /\ p.stored => Drained(p).hung = p.hung
         /\ DrainStarts(p) \in 0 .. 1
<1>1. /\ p.hasCred \in BOOLEAN /\ p.stored \in BOOLEAN /\ p.visible \in BOOLEAN /\ p.hung \in BOOLEAN
      /\ p.onLogin \in Seq(Objects) /\ p.flight \subseteq Objects \ When /\ p.done \subseteq App \cup When
  BY DEF Page
<1>2. Range(p.onLogin) \subseteq Objects
  BY <1>1 DEF Range
<1>3. /\ CallEach(p) \in Page /\ CallEach(p).onLogin = <<>>
      /\ CallEach(p).flight = p.flight \cup (Range(p.onLogin) \ When)
      /\ CallEach(p).done = p.done \cup (Range(p.onLogin) \cap When)
      /\ CallEach(p).stored = p.stored /\ CallEach(p).hung = p.hung
  <2> DEFINE F == p.flight \cup (Range(p.onLogin) \ When)
             D == p.done \cup (Range(p.onLogin) \cap When)
  <2>1. F \in SUBSET (Objects \ When) /\ D \in SUBSET (App \cup When) /\ <<>> \in Seq(Objects)
    BY <1>1, <1>2
  <2>2. CallEach(p) = [p EXCEPT !.visible = FALSE, !.onLogin = <<>>, !.flight = F, !.done = D]
    BY DEF CallEach, Page
  <2> HIDE DEF F, D
  <2>3. CallEach(p) \in Page
    BY <2>1, <2>2 DEF Page
  <2> QED BY <2>2, <2>3 DEF Page, F, D
<1>4. Range(<<>>) = {} /\ DOMAIN <<>> = {}
  BY DEF Range
<1>5. CASE p.onLogin = <<>> \/ p.hasCred \/ p.stored
  <2>1. /\ Drained(p) \in Page /\ Drained(p).onLogin = <<>>
        /\ Drained(p).flight = p.flight \cup (Range(p.onLogin) \ When)
        /\ Drained(p).done = p.done \cup (Range(p.onLogin) \cap When)
        /\ Drained(p).stored = p.stored /\ Drained(p).hung = p.hung
    <3>1. CASE p.onLogin = <<>> \/ p.hasCred
      BY <1>3, <3>1 DEF Drained
    <3>2. CASE ~(p.onLogin = <<>> \/ p.hasCred)
      <4>1. Drained(p) = [CallEach(p) EXCEPT !.hasCred = TRUE]
        BY <1>5, <3>2 DEF Drained
      <4> QED BY <1>3, <4>1 DEF Page
    <3> QED BY <3>1, <3>2
  <2>2. Placed(Drained(p))
    BY <1>1, <1>4, <2>1, LoginAssumption DEF Placed, Distinct
  <2>3. DrainStarts(p) = 0 \/ (DrainStarts(p) = 1 /\ p.stored)
    BY DEF DrainStarts
  <2> QED BY <1>1, <1>4, <2>1, <2>2, <2>3 DEF Attended, Settled
<1>6. CASE ~(p.onLogin = <<>> \/ p.hasCred \/ p.stored)
  <2>1. Drained(p) = [p EXCEPT !.visible = TRUE, !.hung = TRUE] /\ DrainStarts(p) = 0
    BY <1>6 DEF Drained, DrainStarts
  <2>2. /\ Drained(p) \in Page /\ Drained(p).visible /\ Drained(p).onLogin = p.onLogin
        /\ Drained(p).flight = p.flight /\ Drained(p).done = p.done /\ Drained(p).stored = p.stored
    BY <2>1 DEF Page
  <2>3. Placed(Drained(p))
    BY <2>2 DEF Placed
  <2>4. Attended(Drained(p), c + DrainStarts(p))
    BY <2>2 DEF Attended
  <2>5. Settled(p, c) => Settled(Drained(p), c + DrainStarts(p))
    BY <2>1, <2>2 DEF Settled
  <2>6. ~p.stored
    BY <1>6
  <2>7. DrainStarts(p) \in 0 .. 1
    BY <2>1
  <2> QED BY <2>2, <2>3, <2>4, <2>5, <2>6, <2>7
<1> QED BY <1>5, <1>6

\* The page when the answer to o has come: o is nowhere.
LEMMA OverSound ==
  ASSUME page \in Page, Placed(page), NEW o \in page.flight
  PROVE  /\ Over(o) \in Page /\ Placed(Over(o)) /\ o \in Objects \ When /\ o \notin Used(Over(o))
         /\ Over(o).flight = page.flight \ {o} /\ Over(o).onLogin = page.onLogin
         /\ Over(o).done = page.done /\ Over(o).stored = page.stored /\ Over(o).hung = page.hung
         /\ Over(o).visible = page.visible /\ Over(o).hasCred = page.hasCred
<1>1. page.flight \ {o} \in SUBSET (Objects \ When) /\ o \in Objects \ When
  BY DEF Page
<1>2. /\ Over(o) \in Page
      /\ Over(o).flight = page.flight \ {o} /\ Over(o).onLogin = page.onLogin
      /\ Over(o).done = page.done /\ Over(o).stored = page.stored /\ Over(o).hung = page.hung
      /\ Over(o).visible = page.visible /\ Over(o).hasCred = page.hasCred
  BY <1>1 DEF Over, Page
<1>3. Placed(Over(o)) /\ o \notin Used(Over(o))
  BY <1>2 DEF Placed, Used
<1> QED BY <1>1, <1>2, <1>3

\* An object that is not in use.
LEMMA FreshLeft ==
  ASSUME NEW S, Left(S) # {} PROVE Fresh(S) \in S /\ Fresh(S) \notin Used(page)
BY DEF Left, Fresh

\* Two pages that differ in the box, the credential or the session only.
LEMMA SameParts ==
  ASSUME NEW p \in Page, NEW q \in Page,
         p.onLogin = q.onLogin, p.flight = q.flight, p.done = q.done
  PROVE  (Placed(p) <=> Placed(q)) /\ Used(p) = Used(q)
BY DEF Placed, Used

-----------------------------------------------------------------------------
\* main's page is sound.
LEMMA InitIInv == Init => IInv
<1> SUFFICES ASSUME Init PROVE IInv
  OBVIOUS
<1>1. PICK s \in BOOLEAN :
        LET p == [hasCred |-> FALSE, stored |-> s, visible |-> FALSE, onLogin |-> <<>>,
                  flight |-> {}, done |-> {}, hung |-> FALSE]
        IN page = send(p, CHOOSE w \in When : TRUE) /\ checks = Starts(p)
  BY DEF Init
<1> DEFINE p == [hasCred |-> FALSE, stored |-> s, visible |-> FALSE, onLogin |-> <<>>,
                 flight |-> {}, done |-> {}, hung |-> FALSE]
           w == CHOOSE w \in When : TRUE
<1>2. w \in When /\ w \in Objects /\ w \notin Ids
  BY LoginAssumption DEF Objects
<1>3. /\ p \in Page /\ p.onLogin = <<>> /\ p.flight = {} /\ p.done = {}
      /\ p.hasCred = FALSE /\ p.hung = FALSE
  BY DEF Page
<1>4. page = send(p, w) /\ checks = Starts(p)
  BY <1>1
<1> HIDE DEF p, w
<1>5. Range(<<>>) = {}
  BY DEF Range
<1>6. w \notin Used(p) /\ Placed(p) /\ Settled(p, 0)
  BY <1>3, <1>5 DEF Used, Placed, Distinct, Settled
<1>7. /\ Placed(page) /\ Attended(page, 0 + checks) /\ Settled(page, 0 + checks)
  BY <1>2, <1>3, <1>4, <1>6, SentSound
<1>8. page \in Page /\ page.hung = FALSE /\ (checks = 0 \/ checks = 1)
  BY <1>2, <1>3, <1>4, Sent
<1>9. TypeOK
  <2>1. crossed \in BOOLEAN
    BY DEF Init
  <2> QED BY <1>8, <2>1, LoginAssumption DEF Init, TypeOK
<1>10. Sound
  BY <1>7, <1>8 DEF Sound
<1> QED BY <1>9, <1>10 DEF IInv

\* A function is sent or waits: the steps that end in send.
LEMMA SendStep ==
  ASSUME IInv, NEW p \in Page, NEW o \in Objects, NEW n \in {-1, 0}, checks + n \in Nat,
         page' = send(p, o), checks' = checks + n + Starts(p), checks' <= MaxChecks, logins' \in 0 .. MaxChecks,
         rejects' \in 0 .. MaxRejects, errors' = errors, crossed' \in BOOLEAN, crossed => crossed',
         ~page.hung, o \notin Used(p), Placed(p), p.hung = page.hung,
         errors = 0 /\ p.hasCred => Attended(p, checks + n) \/ o \in Ids,
         ~crossed' => Settled(p, checks + n) /\ (o \in Ids => p.stored)
  PROVE  IInv'
<1> DEFINE c == checks + n
<1>1. checks \in 0 .. MaxChecks /\ MaxChecks \in Nat /\ errors \in 0 .. MaxErrors
  BY LoginAssumption DEF IInv, TypeOK
<1>2. page' = send(p, o) /\ checks' = c + Starts(p) /\ checks' <= MaxChecks
  OBVIOUS
<1>3. send(p, o) \in Page /\ send(p, o).hung = p.hung /\ (Starts(p) = 0 \/ Starts(p) = 1)
  BY Sent DEF Starts
<1>4. checks' \in 0 .. MaxChecks
  BY <1>1, <1>2, <1>3
<1>5. Placed(page')
  BY <1>2, SentSound
<1>6. errors' = 0 => Attended(page', checks')
  BY <1>2, <1>4, SentSound
<1>7. ~crossed' => Settled(page', checks') /\ ~page'.hung
  BY <1>2, <1>3, <1>4, SentSound
<1>8. TypeOK'
  BY <1>1, <1>2, <1>3, <1>4 DEF TypeOK
<1>9. Sound'
  BY <1>5, <1>6, <1>7 DEF Sound, Placed, Attended, Settled, Distinct, Range
<1> QED BY <1>8, <1>9 DEF IInv

\* The steps that change the page without send.
LEMMA PlainStep ==
  ASSUME IInv, page' \in Page, checks' \in 0 .. MaxChecks, logins' \in 0 .. MaxChecks,
         rejects' \in 0 .. MaxRejects, errors' \in 0 .. MaxErrors, crossed' \in BOOLEAN,
         Placed(page'), errors' = 0 => Attended(page', checks'),
         ~crossed' => Settled(page', checks') /\ ~page'.hung
  PROVE  IInv'
<1>1. TypeOK'
  BY DEF TypeOK
<1>2. Sound'
  BY DEF Sound, Placed, Attended, Settled, Distinct, Range
<1> QED BY <1>1, <1>2 DEF IInv

\* The types and the soundness of the page before a step.
LEMMA Facts ==
  ASSUME IInv
  PROVE  /\ page \in Page /\ Placed(page) /\ checks \in 0 .. MaxChecks /\ logins \in 0 .. MaxChecks
         /\ rejects \in 0 .. MaxRejects /\ errors \in 0 .. MaxErrors /\ crossed \in BOOLEAN
         /\ MaxChecks \in Nat /\ MaxRejects \in Nat /\ MaxErrors \in Nat
         /\ errors = 0 => Attended(page, checks)
         /\ ~crossed => Settled(page, checks)
         /\ ~crossed => ~page.hung
BY LoginAssumption DEF IInv, TypeOK, Sound

\* The user and the page: a request, a logout, a login.
LEMMA UserStep == IInv /\ (Request \/ logout \/ login) => IInv'
<1> SUFFICES ASSUME IInv, Request \/ logout \/ login PROVE IInv'
  OBVIOUS
<1> USE Facts
<1>1. CASE Request
  <2>1. Fresh(App) \in Objects /\ Fresh(App) \notin Used(page) /\ Fresh(App) \notin Ids
    BY <1>1, FreshLeft, LoginAssumption DEF Request, Objects
  <2>2. /\ page' = send(page, Fresh(App)) /\ checks' = checks + Starts(page) /\ checks' <= MaxChecks
        /\ UNCHANGED <<logins, rejects, errors, crossed>> /\ ~page.hung
    BY <1>1 DEF Request, Become
  <2>3. checks' = checks + 0 + Starts(page) /\ checks + 0 = checks
    BY <2>2 DEF Starts
  <2> QED BY <2>1, <2>2, <2>3, SendStep
<1>2. CASE logout
  <2> DEFINE p == [page EXCEPT !.stored = FALSE, !.hasCred = FALSE]
             o == Fresh(When)
  <2>1. o \in Objects /\ o \notin Used(page) /\ o \notin Ids
    BY <1>2, FreshLeft, LoginAssumption DEF logout, Objects
  <2>2. /\ page' = send(p, o) /\ checks' = checks + Starts(p) /\ checks' <= MaxChecks
        /\ UNCHANGED <<logins, rejects, errors>> /\ ~page.hung
    BY <1>2 DEF logout, Become
  <2>3. /\ p \in Page /\ p.onLogin = page.onLogin /\ p.flight = page.flight /\ p.done = page.done
        /\ p.hung = page.hung /\ p.stored = FALSE /\ p.hasCred = FALSE
    BY DEF Page
  <2>4. checks' = checks + 0 + Starts(p) /\ checks + 0 = checks
    BY <2>2, <2>3 DEF Starts
  <2> HIDE DEF p, o
  <2>5. Placed(p) /\ o \notin Used(p)
    BY <2>1, <2>3, SameParts
  <2>6. /\ crossed' \in BOOLEAN /\ (crossed => crossed')
        /\ ~crossed' => ~(checks > 0) /\ (page.flight \cup Range(page.onLogin)) \cap Ids = {}
    BY <1>2 DEF logout, GivesUp
  <2>7. ~crossed' => Settled(p, checks)
    BY <2>3, <2>6 DEF Settled
  <2> QED BY <2>1, <2>2, <2>3, <2>4, <2>5, <2>6, <2>7, SendStep
<1>3. CASE login
  <2>1. /\ page' = [page EXCEPT !.hasCred = TRUE] /\ logins' = logins + 1 /\ logins < MaxChecks
        /\ UNCHANGED <<checks, rejects, errors, crossed>> /\ ~page.hung
    BY <1>3 DEF login
  <2>2. /\ page' \in Page /\ page'.onLogin = page.onLogin /\ page'.flight = page.flight
        /\ page'.done = page.done /\ page'.hung = page.hung /\ page'.stored = page.stored
        /\ page'.visible = page.visible
    BY <2>1 DEF Page
  <2>3. Placed(page') /\ (Attended(page, checks) => Attended(page', checks'))
        /\ (Settled(page, checks) => Settled(page', checks'))
    BY <2>1, <2>2 DEF Placed, Attended, Settled
  <2>4. logins' \in 0 .. MaxChecks
    BY <2>1
  <2> QED BY <2>1, <2>2, <2>3, <2>4, PlainStep
<1> QED BY <1>1, <1>2, <1>3

\* The answers to the exchanges of the page.
LEMMA AnswerStep == ASSUME NEW o \in Objects PROVE IInv /\ Answers(o) => IInv'
<1> SUFFICES ASSUME IInv, Answers(o) PROVE IInv'
  OBVIOUS
<1> USE Facts
<1>1. o \in page.flight /\ ~page.hung
  BY DEF Answers, Answered, SessionMade, SessionFailed, IdsCame, Rejected
<1>2. /\ Over(o) \in Page /\ Placed(Over(o)) /\ o \in Objects \ When /\ o \notin Used(Over(o))
      /\ Over(o).flight = page.flight \ {o} /\ Over(o).onLogin = page.onLogin
      /\ Over(o).done = page.done /\ Over(o).stored = page.stored /\ Over(o).hung = page.hung
      /\ Over(o).visible = page.visible /\ Over(o).hasCred = page.hasCred
  BY <1>1, OverSound
<1>3. Settled(page, checks) => Settled(Over(o), checks)
  BY <1>2 DEF Settled
<1>4. o \notin Ids => (Attended(page, checks) => Attended(Over(o), checks))
  BY <1>2 DEF Attended
<1>5. CASE Answered(o)
  <2>1. /\ o \in App /\ page' = [Over(o) EXCEPT !.done = Over(o).done \cup {o}]
        /\ UNCHANGED <<checks, logins, rejects, errors, crossed>>
    BY <1>2, <1>5 DEF Answered, Page
  <2>2. /\ page' \in Page /\ page'.onLogin = Over(o).onLogin /\ page'.flight = Over(o).flight
        /\ page'.done = Over(o).done \cup {o} /\ page'.hung = Over(o).hung
        /\ page'.stored = Over(o).stored /\ page'.visible = Over(o).visible
    <3>1. Over(o).done \cup {o} \in SUBSET (App \cup When)
      BY <1>2, <2>1 DEF Page
    <3> QED BY <1>2, <2>1, <3>1 DEF Page
  <2>3. Placed(page')
    BY <1>2, <2>2 DEF Placed, Used
  <2>4. o \notin Ids
    BY <2>1, LoginAssumption
  <2>5. /\ Attended(Over(o), checks) => Attended(page', checks')
        /\ Settled(Over(o), checks) => Settled(page', checks')
    BY <2>1, <2>2 DEF Attended, Settled
  <2> QED BY <1>1, <1>2, <1>3, <1>4, <2>1, <2>2, <2>3, <2>4, <2>5, PlainStep
<1>6. CASE SessionMade(o)
  <2> DEFINE p == [Over(o) EXCEPT !.hasCred = TRUE, !.stored = TRUE]
             i == Fresh(Ids)
  <2>1. /\ page' = send(p, i) /\ checks' = checks + (0 + Starts(p)) /\ checks' <= MaxChecks
        /\ UNCHANGED <<logins, rejects, errors, crossed>> /\ Left(Ids) # {}
    BY <1>6 DEF SessionMade, setCurrent, Become
  <2>2. /\ p \in Page /\ p.onLogin = Over(o).onLogin /\ p.flight = Over(o).flight
        /\ p.done = Over(o).done /\ p.hung = Over(o).hung /\ p.stored = TRUE /\ p.hasCred = TRUE
    BY <1>2 DEF Page
  <2>3. checks' = checks + 0 + Starts(p) /\ checks + 0 = checks
    BY <2>1 DEF Starts
  <2>4. i \in Objects /\ i \in Ids /\ i \notin Used(page)
    BY <2>1, FreshLeft DEF Objects
  <2> HIDE DEF p, i
  <2>5. Placed(p) /\ i \notin Used(p)
    BY <1>2, <2>2, <2>4 DEF Placed, Used
  <2>6. Settled(p, checks + 0)
    BY <2>2 DEF Settled
  <2> QED BY <1>1, <1>2, <2>1, <2>2, <2>3, <2>4, <2>5, <2>6, SendStep
<1>7. CASE SessionFailed(o)
  <2>1. /\ page' = Over(o) /\ errors' = errors + 1 /\ errors < MaxErrors
        /\ UNCHANGED <<checks, logins, rejects, crossed>>
    BY <1>7 DEF SessionFailed
  <2>2. errors' \in 0 .. MaxErrors /\ errors' # 0
    BY <2>1
  <2> QED BY <1>1, <1>2, <1>3, <2>1, <2>2, PlainStep
<1>8. CASE IdsCame(o)
  <2>1. /\ o \in Ids /\ page' = Drained(Over(o)) /\ checks' = checks + DrainStarts(page)
        /\ checks' <= MaxChecks /\ UNCHANGED <<logins, rejects, errors, crossed>>
    BY <1>8 DEF IdsCame, Become
  <2>2. DrainStarts(page) = DrainStarts(Over(o))
    BY <1>2 DEF DrainStarts
  <2>3. /\ Drained(Over(o)) \in Page /\ Placed(Drained(Over(o)))
        /\ Attended(Drained(Over(o)), checks + DrainStarts(Over(o)))
        /\ Settled(Over(o), checks) => Settled(Drained(Over(o)), checks + DrainStarts(Over(o)))
        /\ Over(o).stored => Drained(Over(o)).hung = Over(o).hung
        /\ DrainStarts(Over(o)) \in 0 .. 1
    BY <1>2, DrainedSound
  <2>4. checks' \in 0 .. MaxChecks
    BY <2>1, <2>2, <2>3
  <2>5. ~crossed => page.stored
    BY <1>1, <2>1 DEF Settled
  <2>6. ~crossed' => ~page'.hung
    BY <1>1, <1>2, <2>1, <2>3, <2>5
  <2> QED BY <1>3, <2>1, <2>2, <2>3, <2>4, <2>6, PlainStep
<1>9. CASE Rejected(o)
  <2> DEFINE p == [Over(o) EXCEPT !.hasCred = FALSE]
  <2>1. /\ page' = send(p, o) /\ checks' = checks + Starts(p) /\ checks' <= MaxChecks
        /\ rejects' = rejects + 1 /\ rejects < MaxRejects /\ UNCHANGED <<logins, errors, crossed>>
    BY <1>9 DEF Rejected, Become
  <2>2. /\ p \in Page /\ p.onLogin = Over(o).onLogin /\ p.flight = Over(o).flight
        /\ p.done = Over(o).done /\ p.hung = Over(o).hung /\ p.stored = Over(o).stored
        /\ p.hasCred = FALSE
    BY <1>2 DEF Page
  <2>3. checks' = checks + 0 + Starts(p) /\ checks + 0 = checks /\ rejects' \in 0 .. MaxRejects
    BY <2>1 DEF Starts
  <2> HIDE DEF p
  <2>4. Placed(p) /\ o \notin Used(p)
    BY <1>2, <2>2, SameParts
  <2>5. ~crossed => Settled(p, checks) /\ (o \in Ids => p.stored)
    BY <1>1, <1>2, <1>3, <2>2 DEF Settled
  <2> QED BY <1>1, <1>2, <2>1, <2>2, <2>3, <2>4, <2>5, SendStep
<1> QED BY <1>5, <1>6, <1>7, <1>8, <1>9 DEF Answers

\* The answers to the checks of the stored session.
LEMMA CheckStep == IInv /\ Checked => IInv'
<1> SUFFICES ASSUME IInv, Checked PROVE IInv'
  OBVIOUS
<1> USE Facts
<1>1. checks > 0 /\ checks - 1 \in Nat /\ checks - 1 \in 0 .. MaxChecks /\ ~page.hung
  BY DEF Checked, CheckValid, CheckInvalid, CheckFailed
<1>2. ~crossed => page.stored
  BY <1>1 DEF Settled
<1>3. CASE CheckValid
  <2> DEFINE i == Fresh(Ids)
  <2>1. /\ page' = send(page, i) /\ checks' = checks + (-1 + Starts(page)) /\ checks' <= MaxChecks
        /\ UNCHANGED <<logins, rejects, errors, crossed>> /\ Left(Ids) # {}
    BY <1>3 DEF CheckValid, setCurrent, Become
  <2>2. checks' = checks + -1 + Starts(page) /\ checks + -1 \in Nat
    BY <1>1, <2>1 DEF Starts
  <2>3. i \in Objects /\ i \in Ids /\ i \notin Used(page)
    BY <2>1, FreshLeft DEF Objects
  <2> HIDE DEF i
  <2>4. ~crossed' => Settled(page, checks + -1) /\ page.stored
    BY <1>2, <2>1 DEF Settled
  <2> QED BY <1>1, <2>1, <2>2, <2>3, <2>4, SendStep
<1>4. CASE CheckInvalid
  <2>1. /\ page' = [page EXCEPT !.stored = FALSE, !.visible = TRUE] /\ checks' = checks + -1
        /\ rejects' = rejects + 1 /\ rejects < MaxRejects /\ UNCHANGED <<logins, errors>>
    BY <1>4 DEF CheckInvalid, Become
  <2>2. /\ page' \in Page /\ page'.onLogin = page.onLogin /\ page'.flight = page.flight
        /\ page'.done = page.done /\ page'.hung = page.hung /\ page'.stored = FALSE
        /\ page'.visible = TRUE
    BY <2>1 DEF Page
  <2>3. /\ crossed' \in BOOLEAN /\ (crossed => crossed')
        /\ ~crossed' => ~(checks - 1 > 0) /\ (page.flight \cup Range(page.onLogin)) \cap Ids = {}
    BY <1>4 DEF CheckInvalid, GivesUp
  <2>4. checks' \in 0 .. MaxChecks /\ rejects' \in 0 .. MaxRejects /\ (~crossed' => checks' = 0)
    BY <1>1, <2>1, <2>3
  <2>5. Placed(page') /\ Attended(page', checks') /\ (~crossed' => Settled(page', checks'))
    BY <2>2, <2>3, <2>4 DEF Placed, Attended, Settled
  <2> QED BY <1>1, <2>1, <2>2, <2>3, <2>4, <2>5, PlainStep
<1>5. CASE CheckFailed
  <2>1. /\ checks' = checks - 1 /\ errors' = errors + 1 /\ errors < MaxErrors
        /\ UNCHANGED <<page, logins, rejects, crossed>>
    BY <1>5 DEF CheckFailed
  <2>2. errors' \in 0 .. MaxErrors /\ errors' # 0
    BY <2>1
  <2>3. ~crossed' => Settled(page', checks')
    BY <1>2, <2>1 DEF Settled
  <2> QED BY <1>1, <2>1, <2>2, <2>3, PlainStep
<1> QED BY <1>3, <1>4, <1>5 DEF Checked

\* The answers to the checks of a password.
LEMMA LoginStep == IInv /\ LoginDone => IInv'
<1> SUFFICES ASSUME IInv, LoginDone PROVE IInv'
  OBVIOUS
<1> USE Facts
<1>1. logins > 0 /\ logins - 1 \in 0 .. MaxChecks /\ ~page.hung /\ logins' = logins - 1
  BY DEF LoginDone, LoginValid, LoginInvalid, LoginFailed
<1>2. CASE LoginValid
  <2> DEFINE p == [page EXCEPT !.hasCred = TRUE]
             i == Fresh(Inits)
  <2>1. /\ page' = send(p, i) /\ UNCHANGED <<checks, rejects, errors, crossed>> /\ Left(Inits) # {}
    BY <1>2 DEF LoginValid
  <2>2. /\ p \in Page /\ p.onLogin = page.onLogin /\ p.flight = page.flight /\ p.done = page.done
        /\ p.hung = page.hung /\ p.stored = page.stored /\ p.visible = page.visible
        /\ p.hasCred = TRUE
    BY DEF Page
  <2>3. i \in Objects /\ i \notin Ids /\ i \notin Used(page)
    BY <2>1, FreshLeft, LoginAssumption DEF Objects
  <2>4. checks' = checks + 0 + Starts(p) /\ checks + 0 = checks /\ checks' <= MaxChecks
    BY <2>1, <2>2 DEF Starts
  <2> HIDE DEF p, i
  <2>5. Placed(p) /\ i \notin Used(p)
    BY <2>2, <2>3, SameParts
  <2>6. (Attended(page, checks) => Attended(p, checks)) /\ (Settled(page, checks) => Settled(p, checks))
    BY <2>2 DEF Attended, Settled
  <2> QED BY <1>1, <2>1, <2>2, <2>3, <2>4, <2>5, <2>6, SendStep
<1>3. CASE LoginInvalid
  <2>1. /\ page' = [page EXCEPT !.stored = FALSE] /\ rejects' = rejects + 1 /\ rejects < MaxRejects
        /\ UNCHANGED <<checks, errors>>
    BY <1>3 DEF LoginInvalid
  <2>2. /\ page' \in Page /\ page'.onLogin = page.onLogin /\ page'.flight = page.flight
        /\ page'.done = page.done /\ page'.hung = page.hung /\ page'.stored = FALSE
        /\ page'.visible = page.visible
    BY <2>1 DEF Page
  <2>3. /\ crossed' \in BOOLEAN /\ (crossed => crossed')
        /\ ~crossed' => ~(checks > 0) /\ (page.flight \cup Range(page.onLogin)) \cap Ids = {}
    BY <1>3 DEF LoginInvalid, GivesUp
  <2>4. rejects' \in 0 .. MaxRejects /\ (~crossed' => checks' = 0)
    BY <2>1, <2>3
  <2>5. Placed(page') /\ (Attended(page, checks) => Attended(page', checks'))
        /\ (~crossed' => Settled(page', checks'))
    BY <2>1, <2>2, <2>3, <2>4 DEF Placed, Attended, Settled
  <2> QED BY <1>1, <2>1, <2>2, <2>3, <2>4, <2>5, PlainStep
<1>4. CASE LoginFailed
  <2>1. errors' = errors + 1 /\ errors < MaxErrors /\ UNCHANGED <<page, checks, rejects, crossed>>
    BY <1>4 DEF LoginFailed
  <2>2. errors' \in 0 .. MaxErrors /\ errors' # 0
    BY <2>1
  <2> QED BY <1>1, <2>1, <2>2, PlainStep
<1> QED BY <1>2, <1>3, <1>4 DEF LoginDone

-----------------------------------------------------------------------------
\* The strengthened invariant holds from the first step on.
LEMMA Invariance == Spec => []IInv
<1>1. IInv /\ [Next]_vars => IInv'
  <2> SUFFICES ASSUME IInv, [Next]_vars PROVE IInv'
    OBVIOUS
  <2>1. CASE UNCHANGED vars
    BY <2>1 DEF vars, IInv, TypeOK, Sound, Placed, Attended, Settled, Distinct, Range
  <2> QED BY <2>1, UserStep, AnswerStep, CheckStep, LoginStep DEF Next
<1> QED BY InitIInv, <1>1, PTL DEF Spec

\* The page, the counts of checks and the flags keep their types.
THEOREM TypeCorrect == Spec => []TypeOK
<1>1. IInv => TypeOK
  BY DEF IInv
<1> QED BY Invariance, <1>1, PTL

\* A function given to send or whenLoggedIn waits, is under way or is done, one
\* of these at a time, whatever answers and clicks come in between.
THEOREM InOnePlace == Spec => []OnePlace
<1>1. IInv => OnePlace
  BY DEF IInv, Sound, Placed, Distinct, OnePlace
<1> QED BY Invariance, <1>1, PTL

\* While functions wait for a login there is a box, a check or a getCurrentIds
\* that will call them, until an exchange fails.
THEOREM SomebodyWillDrain == Spec => []SomebodyDrains
<1>1. IInv => SomebodyDrains
  BY DEF IInv, Sound, Attended, SomebodyDrains
<1> QED BY Invariance, <1>1, PTL

\* setCurrent's loop hangs the page only after the session was given up while
\* a check of it or a getCurrentIds was under way.
THEOREM HangsOnlyIfCrossed == Spec => []HangsOnlyCrossed
<1>1. IInv => HangsOnlyCrossed
  BY DEF IInv, Sound, HangsOnlyCrossed
<1> QED BY Invariance, <1>1, PTL
=============================================================================
