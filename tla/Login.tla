------------------------------- MODULE Login --------------------------------
(***************************************************************************)
(* Requests of the web page and the login they wait for: send, responce,   *)
(* checkCreds and whenLoggedIn of client/BackendRequest.hx in a browser,   *)
(* and master/frontend/LoginBox.hx.  The page has one thread; what can     *)
(* interleave are the answers of the exchanges it has started and the      *)
(* clicks of its user.  Which credentials are right is up to the backend,  *)
(* where another client may replace a session at any time, so an answer    *)
(* may reject them whenever it comes.                                      *)
(***************************************************************************)
EXTENDS Integers, Sequences, Functions

CONSTANTS App,         \* requests of the page
          When,        \* what main and logout give to whenLoggedIn
          Inits, Ids,  \* the initSession and getCurrentIds requests
          MaxChecks,   \* bound on the checkCreds under way for needLogin, for login
          MaxRejects,  \* bound on the answers that reject the credentials
          MaxErrors    \* bound on the exchanges that fail

Objects == App \cup When \cup Inits \cup Ids

ASSUME LoginAssumption ==
  /\ MaxChecks \in Nat \ {0} /\ MaxRejects \in Nat /\ MaxErrors \in Nat
  /\ When # {} /\ When \cap (App \cup Inits \cup Ids) = {}
  /\ App \cap Inits = {} /\ App \cap Ids = {} /\ Inits \cap Ids = {}

VARIABLES page,     \* the state of the script, see Page
          checks,   \* checkCreds of needLogin that are under way
          logins,   \* checkCreds of login that are under way
          rejects, errors,
          crossed   \* the session was given up during a check or getCurrentIds (history)

vars == <<page, checks, logins, rejects, errors, crossed>>

\* hasCred, whether LocalStorage has a session, whether the box is visible,
\* onLogin, the exchanges under way, what is done for good, and whether the
\* thread is caught in a loop.
Page == [hasCred : BOOLEAN, stored : BOOLEAN, visible : BOOLEAN, onLogin : Seq(Objects),
         flight : SUBSET (Objects \ When), done : SUBSET (App \cup When), hung : BOOLEAN]

Used(p) == p.flight \cup p.done \cup Range(p.onLogin)

(***************************************************************************)
(* What the functions do to the page; starts counts the checkCreds begun.  *)
(***************************************************************************)
\* The function waits without anything that would call it.
NeedLoginOnlyQueues(p, o) == [p EXCEPT !.onLogin = <<o>> \o @]

\* needLogin pushes the function and, unless the box is open, tries the stored
\* session, which counts as a credential from then on, or opens the box.
needLogin(p, o) ==
  LET q == [p EXCEPT !.onLogin = <<o>> \o @]
  IN IF p.visible THEN q
     ELSE IF p.stored THEN [q EXCEPT !.hasCred = TRUE]
     ELSE [q EXCEPT !.visible = TRUE]

\* Whether needLogin starts a checkCreds.
Starts(p) == IF ~p.hasCred /\ ~p.visible /\ p.stored THEN 1 ELSE 0

\* send, and whenLoggedIn, whose function is called at once.
send(p, o) ==
  IF ~p.hasCred THEN needLogin(p, o)
  ELSE IF o \in When THEN [p EXCEPT !.done = @ \cup {o}]
  ELSE [p EXCEPT !.flight = @ \cup {o}]

\* The functions are called and stay in the list.
CallEachKept(p) ==
  [p EXCEPT !.visible = FALSE,
            !.flight = @ \cup (Range(p.onLogin) \ When),
            !.done = @ \cup (Range(p.onLogin) \cap When)]

\* The box is closed and the functions are called once each.
CallEach(p) ==
  [p EXCEPT !.visible = FALSE, !.onLogin = <<>>,
            !.flight = @ \cup (Range(p.onLogin) \ When),
            !.done = @ \cup (Range(p.onLogin) \cap When)]

\* setCurrent's last part: the box is closed and the functions are called
\* until none is left.  Without a credential the first one comes back through
\* needLogin; without a stored session either it does so for ever.
Drained(p) ==
  IF p.onLogin = <<>> \/ p.hasCred THEN CallEach(p)
  ELSE IF p.stored THEN [CallEach(p) EXCEPT !.hasCred = TRUE]
  ELSE [p EXCEPT !.visible = TRUE, !.hung = TRUE]

\* Whether needLogin starts a checkCreds meanwhile.
DrainStarts(p) == IF p.onLogin # <<>> /\ ~p.hasCred /\ p.stored THEN 1 ELSE 0

-----------------------------------------------------------------------------
\* Main.main waits for a login; a session may be stored from an earlier visit.
Init ==
  /\ \E s \in BOOLEAN :
       LET p == [hasCred |-> FALSE, stored |-> s, visible |-> FALSE, onLogin |-> <<>>,
                 flight |-> {}, done |-> {}, hung |-> FALSE]
       IN page = send(p, CHOOSE w \in When : TRUE) /\ checks = Starts(p)
  /\ logins = 0 /\ rejects = 0 /\ errors = 0 /\ crossed = FALSE

\* The page p takes the place of the present one after n checkCreds were begun.
Become(p, n) == page' = p /\ checks' = checks + n /\ checks' <= MaxChecks

\* An object of S that is not in use; which one does not matter.
Left(S)  == S \ Used(page)
Fresh(S) == CHOOSE o \in Left(S) : TRUE

\* The page, or its user behind the box, makes a request.
Request ==
  /\ ~page.hung /\ Left(App) # {}
  /\ Become(send(page, Fresh(App)), Starts(page))
  /\ UNCHANGED <<logins, rejects, errors, crossed>>

\* setCurrent sends a getCurrentIds.
setCurrent(p, n) == Left(Ids) # {} /\ Become(send(p, Fresh(Ids)), n + Starts(p))

\* The answer to o has come.
Over(o) == [page EXCEPT !.flight = @ \ {o}]

\* A request of the page is answered; an error is an answer too, and a request
\* the user has no right to is dropped without a word.
Answered(o) ==
  /\ ~page.hung /\ o \in page.flight \cap App
  /\ page' = [Over(o) EXCEPT !.done = @ \cup {o}]
  /\ UNCHANGED <<checks, logins, rejects, errors, crossed>>

\* The new session is used but not stored.
SessionMadeUnsaved(o) ==
  /\ ~page.hung /\ o \in page.flight \cap Inits
  /\ setCurrent([Over(o) EXCEPT !.hasCred = TRUE], 0)
  /\ UNCHANGED <<logins, rejects, errors, crossed>>

\* LoginBox.responce takes up the new session.
SessionMade(o) ==
  /\ ~page.hung /\ o \in page.flight \cap Inits
  /\ setCurrent([Over(o) EXCEPT !.hasCred = TRUE, !.stored = TRUE], 0)
  /\ UNCHANGED <<logins, rejects, errors, crossed>>

SessionFailed(o) ==
  /\ ~page.hung /\ o \in page.flight \cap Inits /\ errors < MaxErrors
  /\ page' = Over(o) /\ errors' = errors + 1
  /\ UNCHANGED <<checks, logins, rejects, crossed>>

\* getCurrentIds answered, or failed, which its callback does not look at.
IdsCame(o) ==
  /\ ~page.hung /\ o \in page.flight \cap Ids
  /\ Become(Drained(Over(o)), DrainStarts(page))
  /\ UNCHANGED <<logins, rejects, errors, crossed>>

\* responce: the credentials are rejected and send is called again.
Rejected(o) ==
  /\ ~page.hung /\ o \in page.flight /\ rejects < MaxRejects
  /\ rejects' = rejects + 1
  /\ LET p == [Over(o) EXCEPT !.hasCred = FALSE] IN Become(send(p, o), Starts(p))
  /\ UNCHANGED <<logins, errors, crossed>>

\* The session is given up; n other checks of it are under way.
GivesUp(n) ==
  crossed' = (crossed \/ n > 0 \/ (page.flight \cup Range(page.onLogin)) \cap Ids # {})

\* The stored session has been checked.
CheckValid ==
  /\ ~page.hung /\ checks > 0
  /\ setCurrent(page, -1)
  /\ UNCHANGED <<logins, rejects, errors, crossed>>

CheckInvalid ==
  /\ ~page.hung /\ checks > 0 /\ rejects < MaxRejects
  /\ Become([page EXCEPT !.stored = FALSE, !.visible = TRUE], -1)
  /\ rejects' = rejects + 1 /\ GivesUp(checks - 1)
  /\ UNCHANGED <<logins, errors>>

\* A checkCreds that fails, or ends in another error, is only traced.
CheckFailed ==
  /\ ~page.hung /\ checks > 0 /\ errors < MaxErrors
  /\ checks' = checks - 1 /\ errors' = errors + 1
  /\ UNCHANGED <<page, logins, rejects, crossed>>

\* The user has filled in the box.
login ==
  /\ ~page.hung /\ page.visible /\ logins < MaxChecks
  /\ page' = [page EXCEPT !.hasCred = TRUE]
  /\ logins' = logins + 1
  /\ UNCHANGED <<checks, rejects, errors, crossed>>

\* The password is right and no session is asked for.
LoginValidUnused ==
  /\ ~page.hung /\ logins > 0
  /\ page' = [page EXCEPT !.hasCred = TRUE]
  /\ logins' = logins - 1
  /\ UNCHANGED <<checks, rejects, errors, crossed>>

\* The password is right; initSession is sent with it.
LoginValid ==
  /\ ~page.hung /\ logins > 0 /\ Left(Inits) # {}
  /\ page' = send([page EXCEPT !.hasCred = TRUE], Fresh(Inits))
  /\ logins' = logins - 1
  /\ UNCHANGED <<checks, rejects, errors, crossed>>

LoginInvalid ==
  /\ ~page.hung /\ logins > 0 /\ rejects < MaxRejects
  /\ page' = [page EXCEPT !.stored = FALSE]
  /\ logins' = logins - 1 /\ rejects' = rejects + 1 /\ GivesUp(checks)
  /\ UNCHANGED <<checks, errors>>

LoginFailed ==
  /\ ~page.hung /\ logins > 0 /\ errors < MaxErrors
  /\ logins' = logins - 1 /\ errors' = errors + 1
  /\ UNCHANGED <<page, checks, rejects, crossed>>

\* The button is behind the box while that is open.
logout ==
  /\ ~page.hung /\ ~page.visible /\ Left(When) # {}
  /\ LET p == [page EXCEPT !.stored = FALSE, !.hasCred = FALSE]
     IN Become(send(p, Fresh(When)), Starts(p))
  /\ GivesUp(checks)
  /\ UNCHANGED <<logins, rejects, errors>>

Answers(o) == Answered(o) \/ SessionMade(o) \/ SessionFailed(o) \/ IdsCame(o) \/ Rejected(o)
Checked    == CheckValid \/ CheckInvalid \/ CheckFailed
LoginDone  == LoginValid \/ LoginInvalid \/ LoginFailed

Next == \/ Request \/ logout \/ login
        \/ \E o \in Objects : Answers(o)
        \/ Checked \/ LoginDone

Spec == Init /\ [][Next]_vars

\* Exchanges end, and a user who is asked to log in does.
FairSpec == Spec /\ (\A o \in Objects : WF_vars(Answers(o)))
                 /\ WF_vars(Checked) /\ WF_vars(LoginDone) /\ WF_vars(login)
-----------------------------------------------------------------------------
TypeOK ==
  /\ page \in Page
  /\ checks \in 0 .. MaxChecks /\ logins \in 0 .. MaxChecks
  /\ rejects \in 0 .. MaxRejects /\ errors \in 0 .. MaxErrors /\ crossed \in BOOLEAN

\* What waits for a login is waited for by someone: the box is open, or the
\* stored session is being checked, or getCurrentIds is on its way; unless an
\* exchange has failed, after which a checkCreds never calls back.
SomebodyDrains ==
  page.onLogin # <<>> /\ errors = 0 =>
    page.visible \/ checks > 0 \/ page.flight \cap Ids # {}

\* A function is in one place at a time: it does not wait twice, wait while it
\* is under way, or come back when it is done.
OnePlace ==
  /\ \A i, j \in DOMAIN page.onLogin : page.onLogin[i] = page.onLogin[j] => i = j
  /\ page.flight \cap Range(page.onLogin) = {}
  /\ page.done \cap (page.flight \cup Range(page.onLogin)) = {}

\* The loop at the end of setCurrent hangs the page only if the session was
\* given up, by a logout or a check that failed, while another check of it or
\* a getCurrentIds was under way: a session that the backend replaces, however
\* often, never does.
HangsOnlyCrossed == page.hung => crossed

\* A request that waits for a login is sent in the end, if no exchange fails
\* and the page does not hang.
QueueServed ==
  \A o \in App : (o \in Range(page.onLogin)) ~>
                   (o \notin Range(page.onLogin) \/ page.hung \/ errors > 0)
=============================================================================
