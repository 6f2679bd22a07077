------------------------------ MODULE Accounts ------------------------------
(***************************************************************************)
(* The accounts of the backend: Controller.login, checkCredentials and can *)
(* of StoredUser, and the requests of the switchboard in Main.main that    *)
(* read or change users and sessions.  Every request is a PHP process of   *)
(* its own; its statements on the tables user and priveledge interleave    *)
(* with those of the others, as nothing here runs in a transaction.        *)
(*                                                                         *)
(* A credential is a text encrypted with the password or the session id:   *)
(* it is modelled by that key, and decrypting with another key fails.  A   *)
(* session id is random and modelled by the request that made it.          *)
(***************************************************************************)
EXTENDS Integers, Sequences, FiniteSetsExt

CONSTANTS Request,    \* the requests, each served once
          Name, Password,
          Ip,         \* where requests come from
          Old,        \* the users the database may have at first, in order of id
          Rights,     \* the table priveledge, which no request changes
          NoUser, NoSession,
          Unasked,    \* a setting that changeSetting is not asked to change
          MaxUsers,   \* bound on the users ever added
          MaxTime,    \* bound on the clock
          Hour,       \* an hour, in units of the 60*60 milliseconds of NewTimeout
          ColumnMax   \* the largest value of the INT column sessionTimeout

Id     == 1 .. MaxUsers
AnyTarget    == 0                                     \* the target "*"
Key    == Password \cup Request
Right  == [user : Id, name : {"changesetting", "adduser", "removeuser"},
           target : Id \cup {AnyTarget}]
User   == [name : Name, password : Password, sessionId : Request \cup {NoSession},
           sessionIp : Ip \cup {NoSession}, sessionTimeout : Int]

\* Date.now().getTime(), in milliseconds since 1970, is far beyond the column.
Time(t) == ColumnMax + 1 + t

NewUser(name, password) ==
  [name |-> name, password |-> password, sessionId |-> NoSession,
   sessionIp |-> NoSession, sessionTimeout |-> 0]

\* A user the database has at first, with the address of the last session, which
\* nobody uses any more.
OldUser == [name : Name, password : Password, sessionIp : Ip \cup {NoSession}]
Kept(o) ==
  [name |-> o.name, password |-> o.password, sessionId |-> NoSession, sessionIp |-> o.sessionIp,
   sessionTimeout |-> IF o.sessionIp = NoSession THEN 0 ELSE ColumnMax]

ASSUME AccountsAssumption ==
  /\ MaxUsers \in Nat /\ MaxTime \in Nat /\ ColumnMax \in Nat
  /\ Old \subseteq OldUser \X OldUser
  /\ Rights \subseteq Right
  /\ NoSession \notin Request \cup Ip /\ Password \cap Request = {}
  /\ Unasked \notin Name \cup Password /\ NoUser \notin User
  /\ MaxUsers >= 2 /\ Hour \in Nat

VARIABLES users,     \* the table user: [Id -> User \cup {NoUser}]
          added,     \* the last id given out
          now,
          req,       \* of each request: its next step and what it has read
          sessions,  \* per user, the session ids handed to its clients in order
          crossed,   \* the sessions kept with another client's address (history)
          used       \* when each session was started or last used (history)

vars == <<users, added, now, req, sessions, crossed, used>>

(***************************************************************************)
(* The tables, through php.db.Manager.                                     *)
(***************************************************************************)
Present == {u \in Id : users[u] # NoUser}

\* manager.byName: the first row with that name.
ByName(name) == LET S == {u \in Present : users[u].name = name}
                IN IF S = {} THEN 0 ELSE Min(S)

\* Every field of the object is written back.
StoredWhole(u, old, new) == IF users[u] = NoUser THEN users
                            ELSE [users EXCEPT ![u] = new]

\* Object.update writes the fields that differ from what was read, into the
\* row if it is still there.
Stored(u, old, new) ==
  LET put(k) == IF new[k] = old[k] THEN users[u][k] ELSE new[k]
  IN IF users[u] = NoUser THEN users
     ELSE [users EXCEPT ![u] =
             [name |-> put("name"), password |-> put("password"), sessionId |-> put("sessionId"),
              sessionIp |-> put("sessionIp"), sessionTimeout |-> put("sessionTimeout")]]

\* can() leaves the user out of its query.
CanAnyone(u, name, target) ==
  \E r \in Rights : r.name = name /\ r.target \in {target, AnyTarget}

\* can(): a row for the target or for all targets.
Can(u, name, target) ==
  \E r \in Rights : r.user = u /\ r.name = name /\ r.target \in {target, AnyTarget}

(***************************************************************************)
(* Logging in.                                                             *)
(***************************************************************************)
\* sessionTimeout > Date.now().getTime()
TimedOut(u) == u.sessionTimeout > Time(now)

\* 60*60 milliseconds from now, cut off at what the column can hold.
NewTimeout == Min({Time(now) + 1, ColumnMax})

\* checkCredentials, with the row that was read.
Checked(u, key, ip) ==
  IF key \in Password THEN u.password = key
  ELSE u.sessionIp = ip /\ ~TimedOut(u) /\ u.sessionId = key

Idle == [pc |-> "idle", me |-> 0, read |-> NoUser, key |-> NoSession, ip |-> NoSession,
         target |-> 0, other |-> NoUser, name |-> Unasked, password |-> Unasked]

\* An installation in use: requests come to the switchboard once there is a
\* user, which DbUpdater is about.
Init ==
  /\ \E o \in Old : users = [u \in Id |-> IF u \in {1, 2} THEN Kept(o[u]) ELSE NoUser]
  /\ added = 2 /\ now = 0
  /\ req = [r \in Request |-> Idle]
  /\ sessions = [u \in Id |-> <<>>] /\ crossed = {} /\ used = [r \in Request |-> 0]

\* The process ends, and with it what it had read; its address is kept to tell
\* where its session is from.
End(r, pc) == req' = [req EXCEPT ![r] = [Idle EXCEPT !.pc = pc, !.ip = req[r].ip]]

\* login reads the user and checks; nothing else of the request is looked at
\* if that fails.  A session that passes is prolonged.
Login(r, name, key, ip) ==
  LET u == ByName(name) IN
  /\ req[r].pc = "idle"
  /\ req' = [req EXCEPT ![r] =
       [Idle EXCEPT !.key = key, !.ip = ip, !.name = name, !.me = u,
                    !.read = IF u = 0 THEN NoUser ELSE users[u],
                    !.pc = IF u = 0 \/ ~Checked(users[u], key, ip) THEN "unauthorised"
                           ELSE IF key \in Password THEN "switch" ELSE "prolong"]]
  /\ UNCHANGED <<users, added, now, sessions, crossed, used>>

Prolong(r) ==
  /\ req[r].pc = "prolong"
  /\ LET new == [req[r].read EXCEPT !.sessionTimeout = NewTimeout]
     IN /\ users' = Stored(req[r].me, req[r].read, new)
        /\ req' = [req EXCEPT ![r].pc = "switch", ![r].read = new]
  /\ used' = [used EXCEPT ![req[r].key] = now]
  /\ UNCHANGED <<added, now, sessions, crossed>>

(***************************************************************************)
(* The switchboard.                                                        *)
(***************************************************************************)
\* checkCreds, getCurrentIds and the other requests that change nothing here.
Answer(r) ==
  /\ req[r].pc = "switch" /\ End(r, "done")
  /\ UNCHANGED <<users, added, now, sessions, crossed, used>>

\* The session of r would be written without the address: it is the one that
\* login read, but another session has been started since.
Crosses(r) ==
  /\ req[r].read.sessionIp = req[r].ip
  /\ users[req[r].me] # NoUser /\ users[req[r].me].sessionId # req[r].read.sessionId

\* The address of the session is not set.
initSessionNoIp(r) ==
  /\ req[r].pc = "switch"
  /\ users' = Stored(req[r].me, req[r].read,
                     [req[r].read EXCEPT !.sessionId = r, !.sessionTimeout = NewTimeout])
  /\ sessions' = [sessions EXCEPT ![req[r].me] = Append(@, r)]
  /\ crossed' = IF Crosses(r) THEN crossed \cup {r} ELSE crossed
  /\ used' = [used EXCEPT ![r] = now]
  /\ End(r, "done")
  /\ UNCHANGED <<added, now>>

initSession(r) ==
  /\ req[r].pc = "switch"
  /\ users' = Stored(req[r].me, req[r].read,
                     [req[r].read EXCEPT !.sessionIp = req[r].ip, !.sessionId = r,
                                         !.sessionTimeout = NewTimeout])
  /\ sessions' = [sessions EXCEPT ![req[r].me] = Append(@, r)]
  /\ crossed' = IF Crosses(r) THEN crossed \cup {r} ELSE crossed
  /\ used' = [used EXCEPT ![r] = now]
  /\ End(r, "done")
  /\ UNCHANGED <<added, now>>

\* The check that comes first in changeSetting, addUser and removeUser, with
\* the parameters of the request; the last two ask for the right to all users.
Check(r, pc, right, scope, target, name, password) ==
  /\ req[r].pc = "switch"
  /\ IF Can(req[r].me, right, scope)
     THEN req' = [req EXCEPT ![r].target = target, ![r].name = name,
                             ![r].password = password, ![r].pc = pc]
     ELSE End(r, "refused")
  /\ UNCHANGED <<users, added, now, sessions, crossed, used>>

\* manager.get, which gives the object already read when it is the user itself.
Get(r, pc, next) ==
  LET t == req[r].target
      it == IF t = req[r].me THEN req[r].read ELSE users[t]
  IN /\ req[r].pc = pc
     /\ IF it = NoUser THEN End(r, "failed")
        ELSE req' = [req EXCEPT ![r].other = it, ![r].pc = next]
     /\ UNCHANGED <<users, added, now, sessions, crossed, used>>

\* The case for the password is missing.
AskedNameOnly(r, user) ==
  [user EXCEPT !.name = IF req[r].name = Unasked THEN @ ELSE req[r].name]

\* The object with the settings of the request.
Asked(r, user) ==
  [user EXCEPT !.name     = IF req[r].name = Unasked THEN @ ELSE req[r].name,
               !.password = IF req[r].password = Unasked THEN @ ELSE req[r].password]

changeSetting(r) ==
  /\ req[r].pc = "change"
  /\ users' = Stored(req[r].target, req[r].other, Asked(r, req[r].other))
  /\ End(r, "done")
  /\ UNCHANGED <<added, now, sessions, crossed, used>>

\* The name is not looked up first.
addUser(r) ==
  /\ req[r].pc = "add" /\ added < MaxUsers
  /\ added' = added + 1
  /\ users' = [users EXCEPT ![added + 1] = NewUser(req[r].name, req[r].password)]
  /\ End(r, "done")
  /\ UNCHANGED <<now, sessions, crossed, used>>

\* The rights of the user stay in their table.
removeUser(r) ==
  /\ req[r].pc = "remove"
  /\ users' = [users EXCEPT ![req[r].target] = NoUser]
  /\ End(r, "done")
  /\ UNCHANGED <<added, now, sessions, crossed, used>>

Clock == /\ now < MaxTime /\ now' = now + 1
         /\ UNCHANGED <<users, added, req, sessions, crossed, used>>

Serve(r) ==
  \/ \E name \in Name, key \in Password \cup {q \in Request : req[q].pc = "done"}, ip \in Ip :
       Login(r, name, key, ip)
  \/ Prolong(r) \/ Answer(r) \/ initSession(r)
  \/ \E t \in 1 .. added, name \in Name \cup {Unasked}, password \in Password \cup {Unasked} :
       Check(r, "getChange", "changesetting", t, t, name, password)
  \/ \E name \in Name, password \in Password :
       Check(r, "add", "adduser", AnyTarget, AnyTarget, name, password)
  \/ \E t \in 1 .. added : Check(r, "getRemove", "removeuser", AnyTarget, t, Unasked, Unasked)
  \/ Get(r, "getChange", "change") \/ Get(r, "getRemove", "remove")
  \/ changeSetting(r) \/ addUser(r) \/ removeUser(r)

Next == Clock \/ \E r \in Request : Serve(r)

Spec == Init /\ [][Next]_vars
-----------------------------------------------------------------------------
Steps == {"idle", "unauthorised", "prolong", "switch", "refused", "getChange", "change",
          "add", "getRemove", "remove", "failed", "done"}
Process ==
  [pc : Steps, me : Id \cup {0}, read : User \cup {NoUser}, key : Key \cup {NoSession},
   ip : Ip \cup {NoSession}, target : Id \cup {0}, other : User \cup {NoUser},
   name : Name \cup {Unasked}, password : Password \cup {Unasked}]

TypeOK ==
  /\ users \in [Id -> User \cup {NoUser}] /\ added \in 0 .. MaxUsers
  /\ now \in 0 .. MaxTime /\ sessions \in [Id -> Seq(Request)] /\ crossed \subseteq Request
  /\ req \in [Request -> Process] /\ used \in [Request -> 0 .. MaxTime]
  /\ \A u \in Present : u <= added /\ users[u].sessionTimeout <= ColumnMax

\* r takes its last step.
Acts(r, pc) == req[r].pc = pc /\ req'[r].pc = "done"

\* A field of a user changes only by a request that asks for it, although
\* logins and initSession write back objects read earlier: a password, name
\* or session set by one request is never undone by another that was under
\* way, and a user who was removed does not come back.
OnlyAsked ==
  [][\A u \in 1 .. added :
       /\ users[u] = NoUser => users'[u] = NoUser
       /\ u \in Present /\ users'[u] # NoUser =>
            /\ users'[u].name # users[u].name =>
                 \E r \in Request : /\ Acts(r, "change") /\ req[r].target = u
                                    /\ users'[u].name = req[r].name
            /\ users'[u].password # users[u].password =>
                 \E r \in Request : /\ Acts(r, "change") /\ req[r].target = u
                                    /\ users'[u].password = req[r].password
            /\ users'[u].sessionId # users[u].sessionId =>
                 \E r \in Request : /\ Acts(r, "switch") /\ req[r].me = u
                                    /\ users'[u].sessionId = r]_vars

\* A password that changeSetting has acknowledged is in force, unless the user
\* has been removed, or the password asked for is the one the request had read
\* and another request has changed it since: then nothing is written.
AskedIsDone ==
  [][\A r \in Request :
       Acts(r, "change") /\ req[r].password # Unasked =>
         LET u == req[r].target IN
         \/ users'[u] = NoUser
         \/ users'[u].password = req[r].password
         \/ req[r].other.password = req[r].password /\ users[u].password # req[r].password]_vars

\* Within the hour after it was started or last used, the session a client was
\* given last works from its address for as long as no other client of that user
\* starts one: login turns it away only if the user was removed or is no longer
\* the first one found under the name, or if it crossed the start of another
\* session and was kept with that one's address.
KeptSession ==
  [][\A r \in Request, u \in Id :
       /\ req[r].pc = "idle" /\ req'[r].pc = "unauthorised"
       /\ sessions[u] # <<>> /\ req'[r].key = sessions[u][Len(sessions[u])]
       /\ req'[r].ip = req[req'[r].key].ip /\ now < used[req'[r].key] + Hour
       => ByName(req'[r].name) # u \/ req'[r].key \in crossed]_vars

\* "Session times out in one hour" (StoredUser.hx:98, Controller.hx:394): no
\* session is accepted more than an hour after it was started or last used.
TimesOut ==
  [][\A r \in Request :
       req[r].pc = "idle" /\ req'[r].pc = "prolong" => now <= used[req'[r].key] + Hour]_vars

\* Users are only changed for someone who has the right to, for this user or
\* for all, and only added and removed for someone who has it for all.
ActsByRight ==
  [][\A r \in Request :
       LET has(name, targets) == \E t \in targets :
             [user |-> req[r].me, name |-> name, target |-> t] \in Rights
       IN /\ Acts(r, "change") => has("changesetting", {req[r].target, AnyTarget})
          /\ Acts(r, "add") => has("adduser", {AnyTarget})
          /\ Acts(r, "remove") => has("removeuser", {AnyTarget})]_vars
=============================================================================
