--------------------------- MODULE AccountsProofs ---------------------------
(***************************************************************************)
(* Proofs about Accounts, for any number of requests, users and rights.    *)
(***************************************************************************)
EXTENDS Accounts, WellFoundedInduction, TLAPS

\* The id is that of a session some request has made, or of none.
Made(id) == id = NoSession \/ (id \in Request /\ req[id].pc = "done")

\* A request x that has logged in has read a user; as long as nobody has started
\* a session since, the address of the session it has read is the present one.
Logged(x) ==
  x.pc \in {"prolong", "switch"} =>
    /\ x.me \in 1 .. added /\ x.read \in User /\ Made(x.read.sessionId)
    /\ users[x.me] # NoUser /\ users[x.me].sessionId = x.read.sessionId =>
         users[x.me].sessionIp = x.read.sessionIp

\* What a request x is about to do it may do, and to a user that was added.
Entitled(x) ==
  /\ x.pc \in {"getChange", "change"} =>
       Can(x.me, "changesetting", x.target) /\ x.target \in 1 .. added
  /\ x.pc = "change" => x.other \in User
  /\ x.pc = "add" => Can(x.me, "adduser", AnyTarget) /\ x.name \in Name /\ x.password \in Password
  /\ x.pc \in {"getRemove", "remove"} =>
       Can(x.me, "removeuser", AnyTarget) /\ x.target \in 1 .. added

\* The sessions in the table have been made, ...
RowsMade == \A u \in Present : Made(users[u].sessionId)

\* ... and the one last handed out is there, with its client's address.
LastOf(u) == sessions[u][Len(sessions[u])]
LastStored ==
  \A u \in Id : sessions[u] # <<>> =>
    /\ u <= added /\ LastOf(u) \in Request /\ req[LastOf(u)].pc = "done"
    /\ users[u] # NoUser /\ LastOf(u) \notin crossed =>
         users[u].sessionId = LastOf(u) /\ users[u].sessionIp = req[LastOf(u)].ip

IInv == /\ TypeOK /\ RowsMade /\ LastStored
        /\ \A r \in Request : Logged(req[r]) /\ Entitled(req[r])

-----------------------------------------------------------------------------
LEMMA MinIn ==
  ASSUME NEW S, S \subseteq Nat, S # {}
  PROVE  Min(S) \in S /\ \A y \in S : Min(S) <= y
<1> DEFINE R == OpToRel(<, Nat)
<1>1. IsWellFoundedOn(R, Nat)
  BY NatLessThanWellFounded
<1>2. \A p, q \in Nat : q < p => <<q, p>> \in R
  BY DEF OpToRel
<1> HIDE DEF R
<1>3. PICK x \in S : \A y \in S : ~(<<y, x>> \in R)
  BY <1>1, WFMin
<1>4. ASSUME NEW y \in S PROVE x <= y
  <2>1. x \in Nat /\ y \in Nat
    OBVIOUS
  <2>2. ~(y < x)
    BY <1>2, <1>3, <2>1, Zenon
  <2> QED BY <2>1, <2>2
<1> QED BY <1>4 DEF Min

LEMMA ByNamePresent ==
  ASSUME NEW name, ByName(name) # 0, MaxUsers \in Nat
  PROVE  ByName(name) \in Present
<1> DEFINE S == {u \in Present : users[u].name = name}
<1>1. S \subseteq Nat /\ S \subseteq Present
  BY DEF Present, Id
<1>2. S # {} /\ ByName(name) = Min(S)
  BY DEF ByName
<1> HIDE DEF S
<1> QED BY <1>1, <1>2, MinIn

LEMMA TimeoutFits ==
  ASSUME now \in Nat, ColumnMax \in Nat
  PROVE  NewTimeout \in Int /\ NewTimeout <= ColumnMax
<1>1. {Time(now) + 1, ColumnMax} \subseteq Nat
  BY DEF Time
<1>2. NewTimeout \in Nat /\ NewTimeout <= ColumnMax
  BY <1>1, MinIn DEF NewTimeout
<1> QED BY <1>2

\* What Object.update does to the table.
LEMMA StoredEffect ==
  ASSUME NEW u \in Id, NEW old \in User, NEW new \in User,
         users \in [Id -> User \cup {NoUser}], NoUser \notin User
  PROVE  /\ Stored(u, old, new) \in [Id -> User \cup {NoUser}]
         /\ \A w \in Id : w # u => Stored(u, old, new)[w] = users[w]
         /\ users[u] = NoUser => Stored(u, old, new)[u] = NoUser
         /\ users[u] # NoUser =>
              LET t == Stored(u, old, new)[u] IN
              /\ t \in User
              /\ t.name = IF new.name = old.name THEN users[u].name ELSE new.name
              /\ t.password = IF new.password = old.password THEN users[u].password
                              ELSE new.password
              /\ t.sessionId = IF new.sessionId = old.sessionId THEN users[u].sessionId
                               ELSE new.sessionId
              /\ t.sessionIp = IF new.sessionIp = old.sessionIp THEN users[u].sessionIp
                               ELSE new.sessionIp
              /\ t.sessionTimeout = IF new.sessionTimeout = old.sessionTimeout
                                    THEN users[u].sessionTimeout ELSE new.sessionTimeout
<1>1. CASE users[u] = NoUser
  BY <1>1 DEF Stored
<1>2. CASE users[u] # NoUser
  <2> DEFINE put(k) == IF new[k] = old[k] THEN users[u][k] ELSE new[k]
             t == [name |-> put("name"), password |-> put("password"),
                   sessionId |-> put("sessionId"), sessionIp |-> put("sessionIp"),
                   sessionTimeout |-> put("sessionTimeout")]
  <2>1. users[u] \in User
    BY <1>2
  <2>2. t \in User
    BY <2>1 DEF User
  <2>3. Stored(u, old, new) = [users EXCEPT ![u] = t]
    BY <1>2 DEF Stored
  <2>4. /\ t.name = put("name") /\ t.password = put("password")
        /\ t.sessionId = put("sessionId") /\ t.sessionIp = put("sessionIp")
        /\ t.sessionTimeout = put("sessionTimeout")
    OBVIOUS
  <2> HIDE DEF t
  <2>5. Stored(u, old, new)[u] = t
    BY <2>3
  <2> QED BY <1>2, <2>2, <2>3, <2>4, <2>5
<1> QED BY <1>1, <1>2

-----------------------------------------------------------------------------
\* The step of r changes no other request, and r has not ended before.
Alone(r) == /\ req[r].pc # "done" /\ added' >= added
            /\ \A q \in Request : q # r => req'[q] = req[q]

\* No row that was there gets another session, and no new row has one.
SessionsKept ==
  /\ \A u \in Id : users'[u] # NoUser /\ u <= added =>
       /\ users[u] # NoUser
       /\ users'[u].sessionId = users[u].sessionId /\ users'[u].sessionIp = users[u].sessionIp
  /\ \A u \in Id : users'[u] # NoUser /\ ~(u <= added) => users'[u].sessionId = NoSession
  /\ sessions' = sessions /\ crossed' = crossed

LEMMA MadeStays ==
  ASSUME NEW r \in Request, Alone(r), NEW id, Made(id)
  PROVE  Made(id)'
BY DEF Alone, Made

\* Nothing but the step of r itself matters if no session is started.
LEMMA KeepStep ==
  ASSUME IInv, NEW r \in Request, Alone(r), SessionsKept, TypeOK',
         Logged(req[r])', Entitled(req[r])'
  PROVE  IInv'
<1>1. added \in Nat /\ added' \in Nat /\ added <= added' /\ Id \subseteq Nat
  BY AccountsAssumption DEF IInv, TypeOK, Alone, Id
<1>2. RowsMade'
  <2> SUFFICES ASSUME NEW u \in Id, users'[u] # NoUser PROVE Made(users[u].sessionId)'
    BY DEF RowsMade, Present
  <2>1. CASE u <= added
    <3>1. users[u] # NoUser /\ users'[u].sessionId = users[u].sessionId
      BY <2>1 DEF SessionsKept
    <3>2. Made(users[u].sessionId)
      BY <3>1 DEF IInv, RowsMade, Present
    <3> QED BY <3>1, <3>2, MadeStays DEF Made
  <2>2. CASE ~(u <= added)
    BY <2>2 DEF SessionsKept, Made
  <2> QED BY <2>1, <2>2
<1>3. LastStored'
  <2> SUFFICES ASSUME NEW u \in Id, sessions'[u] # <<>>
               PROVE  /\ u <= added' /\ LastOf(u)' \in Request /\ req'[LastOf(u)'].pc = "done"
                      /\ users'[u] # NoUser /\ LastOf(u)' \notin crossed' =>
                           /\ users'[u].sessionId = LastOf(u)'
                           /\ users'[u].sessionIp = req'[LastOf(u)'].ip
    BY DEF LastStored
  <2>1. sessions[u] # <<>> /\ LastOf(u)' = LastOf(u) /\ crossed' = crossed
    BY DEF SessionsKept, LastOf
  <2>2. /\ u <= added /\ LastOf(u) \in Request /\ req[LastOf(u)].pc = "done"
        /\ users[u] # NoUser /\ LastOf(u) \notin crossed =>
             users[u].sessionId = LastOf(u) /\ users[u].sessionIp = req[LastOf(u)].ip
    BY <2>1 DEF IInv, LastStored
  <2>3. req'[LastOf(u)] = req[LastOf(u)]
    BY <2>2 DEF Alone
  <2>4. u <= added'
    BY <1>1, <2>2
  <2> QED BY <2>1, <2>2, <2>3, <2>4 DEF SessionsKept
<1>4. ASSUME NEW q \in Request, q # r PROVE Logged(req[q])' /\ Entitled(req[q])'
  <2>1. req'[q] = req[q] /\ Logged(req[q]) /\ Entitled(req[q]) /\ req[q] \in Process
    BY <1>4 DEF Alone, IInv, TypeOK
  <2>2. Entitled(req[q])'
    BY <1>1, <2>1 DEF Entitled, Can
  <2>3. Logged(req[q])'
    <3> SUFFICES ASSUME req[q].pc \in {"prolong", "switch"}
                 PROVE  /\ req[q].me \in 1 .. added' /\ req[q].read \in User
                        /\ Made(req[q].read.sessionId)'
                        /\ users'[req[q].me] # NoUser
                             /\ users'[req[q].me].sessionId = req[q].read.sessionId =>
                             users'[req[q].me].sessionIp = req[q].read.sessionIp
      BY <2>1 DEF Logged, Made
    <3>1. /\ req[q].me \in 1 .. added /\ req[q].read \in User /\ Made(req[q].read.sessionId)
          /\ users[req[q].me] # NoUser /\ users[req[q].me].sessionId = req[q].read.sessionId =>
               users[req[q].me].sessionIp = req[q].read.sessionIp
      BY <2>1 DEF Logged
    <3>2. Made(req[q].read.sessionId)'
      BY <2>1, <3>1 DEF Alone, Made
    <3>3. req[q].me \in Id /\ req[q].me <= added /\ req[q].me \in 1 .. added'
      BY <1>1, <3>1, AccountsAssumption DEF Id, IInv, TypeOK
    <3> QED BY <3>1, <3>2, <3>3 DEF SessionsKept
  <2> QED BY <2>2, <2>3
<1> QED BY <1>2, <1>3, <1>4 DEF IInv

-----------------------------------------------------------------------------
\* A request that only reads: what is left to show is its own next record.
LEMMA ReadStep ==
  ASSUME IInv, NEW r \in Request, NEW x \in Process,
         req' = [req EXCEPT ![r] = x], req[r].pc # "done",
         UNCHANGED <<users, added, now, sessions, crossed, used>>,
         Logged(x), Entitled(x)
  PROVE  IInv'
<1>1. req \in [Request -> Process] /\ req'[r] = x
  BY DEF IInv, TypeOK
<1>2. Alone(r)
  BY <1>1, AccountsAssumption DEF Alone, IInv, TypeOK
<1>3. SessionsKept
  BY AccountsAssumption DEF SessionsKept, IInv, TypeOK, Present
<1>4. TypeOK'
  BY <1>1 DEF IInv, TypeOK, Present
<1>5. Entitled(req[r])'
  BY <1>1 DEF Entitled, Can
<1>6. Logged(req[r])'
  <2>1. Made(x.read.sessionId) => Made(x.read.sessionId)'
    BY <1>1, <1>2 DEF Made, Alone
  <2> QED BY <1>1, <2>1 DEF Logged, Made, Alone
<1> QED BY <1>2, <1>3, <1>4, <1>5, <1>6, KeepStep

LEMMA IdleType == Idle \in Process
BY AccountsAssumption DEF Idle, Process, Key, Steps

LEMMA EndType ==
  ASSUME TypeOK, NEW r \in Request,
         NEW pc \in {"refused", "failed", "done"}
  PROVE  LET x == [Idle EXCEPT !.pc = pc, !.ip = req[r].ip]
         IN x \in Process /\ x.pc = pc /\ x.ip = req[r].ip /\ Logged(x) /\ Entitled(x)
<1> DEFINE x == [Idle EXCEPT !.pc = pc, !.ip = req[r].ip]
<1>1. req[r].ip \in Ip \cup {NoSession}
  BY DEF TypeOK, Process
<1>2. x \in Process /\ x.pc = pc /\ x.ip = req[r].ip
  BY <1>1, IdleType DEF Process, Idle, Steps
<1> HIDE DEF x
<1>3. Logged(x) /\ Entitled(x)
  BY <1>2 DEF Logged, Entitled
<1> QED BY <1>2, <1>3 DEF x

\* Records of requests with some fields replaced.
LEMMA LoginFields ==
  ASSUME NEW x \in Process, NEW pc \in Steps, NEW me \in Id \cup {0},
         NEW read \in User \cup {NoUser}, NEW key \in Key \cup {NoSession},
         NEW ip \in Ip \cup {NoSession}, NEW name \in Name \cup {Unasked}
  PROVE  [x EXCEPT !.key = key, !.ip = ip, !.name = name, !.me = me, !.read = read,
                   !.pc = pc] \in Process
BY ZenonT(60) DEF Process

LEMMA CheckFields ==
  ASSUME NEW x \in Process, NEW pc \in Steps, NEW target \in Id \cup {0},
         NEW name \in Name \cup {Unasked}, NEW password \in Password \cup {Unasked}
  PROVE  [x EXCEPT !.target = target, !.name = name, !.password = password,
                   !.pc = pc] \in Process
BY ZenonT(60) DEF Process

LEMMA GetFields ==
  ASSUME NEW x \in Process, NEW pc \in Steps, NEW it \in User \cup {NoUser}
  PROVE  /\ [x EXCEPT !.other = it, !.pc = pc] \in Process
         /\ [x EXCEPT !.pc = pc, !.read = it] \in Process
BY ZenonT(60) DEF Process

LEMMA LoginStep ==
  ASSUME IInv, NEW r \in Request, NEW name \in Name, NEW key \in Password \cup Request,
         NEW ip \in Ip, Login(r, name, key, ip)
  PROVE  IInv'
<1> DEFINE u == ByName(name)
           x == [Idle EXCEPT !.key = key, !.ip = ip, !.name = name, !.me = u,
                    !.read = IF u = 0 THEN NoUser ELSE users[u],
                    !.pc = IF u = 0 \/ ~Checked(users[u], key, ip) THEN "unauthorised"
                           ELSE IF key \in Password THEN "switch" ELSE "prolong"]
<1>1. /\ u # 0 => u \in Present
  BY AccountsAssumption, ByNamePresent
<1>2. u # 0 => u \in Id /\ u \in 1 .. added /\ users[u] \in User /\ Made(users[u].sessionId)
  BY <1>1, AccountsAssumption DEF Present, IInv, TypeOK, Id, RowsMade
<1>3. /\ req' = [req EXCEPT ![r] = x] /\ req[r].pc # "done"
      /\ UNCHANGED <<users, added, now, sessions, crossed, used>>
  BY DEF Login
<1> HIDE DEF u
<1>4. /\ x \in Process /\ x.pc \in {"unauthorised", "switch", "prolong"} /\ x.me = u
      /\ x.pc # "unauthorised" => u # 0 /\ x.read = users[u]
  <2>1. /\ x.pc \in {"unauthorised", "switch", "prolong"} /\ x.me = u
        /\ x.read = IF u = 0 THEN NoUser ELSE users[u]
        /\ u = 0 => x.pc = "unauthorised"
    BY DEF Idle
  <2>2. x \in Process
    <3> DEFINE rd == IF u = 0 THEN NoUser ELSE users[u]
               pc == IF u = 0 \/ ~Checked(users[u], key, ip) THEN "unauthorised"
                     ELSE IF key \in Password THEN "switch" ELSE "prolong"
    <3>1. rd \in User \cup {NoUser} /\ pc \in Steps /\ u \in Id \cup {0}
      BY <1>2 DEF Steps
    <3> HIDE DEF rd, pc
    <3>2. [Idle EXCEPT !.key = key, !.ip = ip, !.name = name, !.me = u, !.read = rd,
                       !.pc = pc] \in Process
      BY <3>1, IdleType, LoginFields DEF Key
    <3> QED BY <3>2 DEF rd, pc
  <2> QED BY <2>1, <2>2
<1> HIDE DEF x
<1>5. Logged(x) /\ Entitled(x)
  BY <1>2, <1>4 DEF Logged, Entitled
<1> QED BY <1>3, <1>4, <1>5, ReadStep

LEMMA AnswerStep ==
  ASSUME IInv, NEW r \in Request, Answer(r)
  PROVE  IInv'
BY EndType, ReadStep DEF Answer, End, IInv

LEMMA CheckStep ==
  ASSUME IInv, NEW r \in Request,
         NEW pc, NEW right, NEW scope, NEW target \in Id \cup {0},
         NEW name \in Name \cup {Unasked}, NEW password \in Password \cup {Unasked},
         Check(r, pc, right, scope, target, name, password),
         \/ /\ pc = "getChange" /\ right = "changesetting" /\ scope = target
            /\ target \in 1 .. added
         \/ /\ pc = "add" /\ right = "adduser" /\ scope = AnyTarget
            /\ name \in Name /\ password \in Password
         \/ /\ pc = "getRemove" /\ right = "removeuser" /\ scope = AnyTarget
            /\ target \in 1 .. added
  PROVE  IInv'
<1>1. CASE ~Can(req[r].me, right, scope)
  BY <1>1, EndType, ReadStep DEF Check, End, IInv
<1>2. CASE Can(req[r].me, right, scope)
  <2> DEFINE x == [req[r] EXCEPT !.target = target, !.name = name, !.password = password,
                                 !.pc = pc]
  <2>1. req' = [req EXCEPT ![r] = x] /\ req[r].pc # "done"
    BY <1>2 DEF Check
  <2>2. req[r] \in Process
    BY DEF IInv, TypeOK
  <2>3. /\ x.pc = pc /\ x.me = req[r].me /\ x.target = target
        /\ x.name = name /\ x.password = password
    BY <2>2 DEF Process
  <2>5. x \in Process
    BY <2>2, CheckFields DEF Steps
  <2> HIDE DEF x
  <2>4. Logged(x) /\ Entitled(x)
    BY <1>2, <2>3 DEF Logged, Entitled
  <2> QED BY <2>1, <2>4, <2>5, ReadStep DEF Check
<1> QED BY <1>1, <1>2

LEMMA GetStep ==
  ASSUME IInv, NEW r \in Request, NEW pc, NEW next, Get(r, pc, next),
         \/ pc = "getChange" /\ next = "change"
         \/ pc = "getRemove" /\ next = "remove"
  PROVE  IInv'
<1> DEFINE it == IF req[r].target = req[r].me THEN req[r].read ELSE users[req[r].target]
           x == [req[r] EXCEPT !.other = it, !.pc = next]
<1>1. req[r] \in Process /\ Entitled(req[r]) /\ req[r].pc = pc
  BY DEF IInv, TypeOK, Get
<1>2. req[r].target \in Id
  BY <1>1, AccountsAssumption DEF Entitled, Id, IInv, TypeOK
<1>3. it \in User \cup {NoUser}
  BY <1>1, <1>2 DEF Process, IInv, TypeOK
<1>4. CASE it = NoUser
  <2>1. End(r, "failed") /\ UNCHANGED <<users, added, now, sessions, crossed, used>>
    BY <1>4 DEF Get
  <2> QED BY <1>1, <2>1, EndType, ReadStep DEF End, IInv
<1>5. CASE it # NoUser
  <2>1. req' = [req EXCEPT ![r] = x] /\ UNCHANGED <<users, added, now, sessions, crossed, used>>
    BY <1>5 DEF Get
  <2> HIDE DEF it
  <2>2. /\ x.pc = next /\ x.me = req[r].me /\ x.target = req[r].target
        /\ x.other = it
    BY <1>1, <1>3 DEF Process
  <2>4. x \in Process
    BY <1>1, <1>3, GetFields DEF Steps
  <2> HIDE DEF x
  <2>3. Logged(x) /\ Entitled(x)
    BY <1>1, <1>3, <1>5, <2>2 DEF Logged, Entitled
  <2> QED BY <1>1, <2>1, <2>3, <2>4, ReadStep
<1> QED BY <1>4, <1>5

-----------------------------------------------------------------------------
\* The requests that write.
LEMMA EndAlone ==
  ASSUME IInv, NEW r \in Request, req[r].pc # "done", End(r, "done"), added' \in Nat,
         added <= added'
  PROVE  /\ Alone(r) /\ req' \in [Request -> Process] /\ req'[r].pc = "done"
         /\ req'[r].ip = req[r].ip
         /\ Logged(req[r])' /\ Entitled(req[r])'
<1> DEFINE x == [Idle EXCEPT !.pc = "done", !.ip = req[r].ip]
<1>1. x \in Process /\ x.pc = "done" /\ x.ip = req[r].ip
  BY EndType DEF IInv
<1>2. req' = [req EXCEPT ![r] = x]
  BY DEF End
<1> HIDE DEF x
<1>3. req'[r] = x /\ req' \in [Request -> Process] /\ \A q \in Request : q # r => req'[q] = req[q]
  BY <1>1, <1>2 DEF IInv, TypeOK
<1>4. added \in Nat /\ added' >= added
  BY AccountsAssumption DEF IInv, TypeOK
<1>5. Logged(req[r])' /\ Entitled(req[r])'
  BY <1>1, <1>3 DEF Logged, Entitled
<1> QED BY <1>1, <1>3, <1>4, <1>5 DEF Alone

\* A login with a session: only the time out is written.
LEMMA ProlongStep ==
  ASSUME IInv, NEW r \in Request, Prolong(r)
  PROVE  IInv'
<1> DEFINE new == [req[r].read EXCEPT !.sessionTimeout = NewTimeout]
           u == req[r].me
<1>1. req[r] \in Process /\ req[r].pc = "prolong" /\ Logged(req[r])
  BY DEF IInv, TypeOK, Prolong
<1>2. u \in 1 .. added /\ u \in Id /\ req[r].read \in User
  BY <1>1, AccountsAssumption DEF Logged, Id, IInv, TypeOK
<1>3. NewTimeout \in Int /\ NewTimeout <= ColumnMax
  BY TimeoutFits, AccountsAssumption DEF IInv, TypeOK
<1>4. /\ new \in User /\ new.name = req[r].read.name /\ new.password = req[r].read.password
      /\ new.sessionId = req[r].read.sessionId /\ new.sessionIp = req[r].read.sessionIp
      /\ new.sessionTimeout = NewTimeout
  BY <1>2, <1>3 DEF User
<1>5. /\ users' = Stored(u, req[r].read, new) /\ UNCHANGED <<added, now, sessions, crossed>>
      /\ req' = [req EXCEPT ![r] = [req[r] EXCEPT !.pc = "switch", !.read = new]]
  BY <1>1 DEF Prolong, IInv, TypeOK, Process
<1> HIDE DEF new
<1> DEFINE x == [req[r] EXCEPT !.pc = "switch", !.read = new]
<1>6. x \in Process
  BY <1>1, <1>4, GetFields DEF Steps
<1>7. x.pc = "switch" /\ x.me = u /\ x.read = new
  BY <1>1 DEF Process
<1> HIDE DEF x
<1>8. req'[r] = x /\ req' \in [Request -> Process] /\ \A q \in Request : q # r => req'[q] = req[q]
  BY <1>5, <1>6 DEF x, IInv, TypeOK
<1>9. Alone(r)
  BY <1>1, <1>5, <1>8, AccountsAssumption DEF Alone, IInv, TypeOK
<1>10. /\ users' \in [Id -> User \cup {NoUser}]
       /\ \A w \in Id : w # u => users'[w] = users[w]
       /\ users[u] = NoUser => users'[u] = NoUser
       /\ users[u] # NoUser =>
            /\ users'[u].sessionId = users[u].sessionId
            /\ users'[u].sessionIp = users[u].sessionIp
            /\ users'[u].sessionTimeout \in {users[u].sessionTimeout, NewTimeout}
  <2>1. users \in [Id -> User \cup {NoUser}] /\ NoUser \notin User
    BY AccountsAssumption DEF IInv, TypeOK
  <2> QED BY <1>2, <1>4, <1>5, <2>1, StoredEffect
<1> HIDE DEF u
<1>11. SessionsKept
  BY <1>2, <1>5, <1>10 DEF SessionsKept, IInv, TypeOK, Present
<1>12. TypeOK'
  <2>1. \A w \in Present' : w <= added' /\ users'[w].sessionTimeout <= ColumnMax
    BY <1>2, <1>3, <1>5, <1>10 DEF IInv, TypeOK, Present
  <2>2. used' \in [Request -> 0 .. MaxTime]
    BY DEF Prolong, IInv, TypeOK
  <2> QED BY <1>5, <1>8, <1>10, <2>1, <2>2 DEF IInv, TypeOK
<1>13. Logged(req[r])'
  <2>1. Made(req[r].read.sessionId)
    BY <1>1 DEF Logged
  <2>2. Made(req[r].read.sessionId)'
    BY <1>4, <1>7, <1>8, <1>9, <2>1 DEF Made, Alone
  <2>3. users[u] # NoUser /\ users[u].sessionId = new.sessionId => users[u].sessionIp = new.sessionIp
    BY <1>1, <1>4 DEF Logged, u
  <2>4. u \in 1 .. added'
    BY <1>2, <1>5
  <2>5. req'[r].me = u /\ req'[r].read = new
    BY <1>7, <1>8
  <2> QED BY <1>2, <1>4, <1>10, <2>2, <2>3, <2>4, <2>5 DEF Logged
<1>14. Entitled(req[r])'
  BY <1>7, <1>8 DEF Entitled
<1> QED BY <1>9, <1>11, <1>12, <1>13, <1>14, KeepStep

\* What changeSetting writes is the name and the password.
LEMMA AskedEffect ==
  ASSUME IInv, NEW r \in Request, req[r].pc = "change"
  PROVE  LET old == req[r].other
             new == Asked(r, old)
         IN /\ req[r].target \in 1 .. added /\ req[r].target \in Id
            /\ old \in User /\ new \in User
            /\ new.name = IF req[r].name = Unasked THEN old.name ELSE req[r].name
            /\ new.password = IF req[r].password = Unasked THEN old.password ELSE req[r].password
            /\ new.sessionId = old.sessionId /\ new.sessionIp = old.sessionIp
            /\ new.sessionTimeout = old.sessionTimeout
<1>1. req[r] \in Process /\ Entitled(req[r])
  BY DEF IInv, TypeOK
<1>2. req[r].target \in 1 .. added /\ req[r].target \in Id /\ req[r].other \in User
  BY <1>1, AccountsAssumption DEF Entitled, Id, IInv, TypeOK
<1>3. /\ req[r].name \in Name \cup {Unasked} /\ req[r].password \in Password \cup {Unasked}
  BY <1>1 DEF Process
<1> QED BY <1>2, <1>3 DEF Asked, User

LEMMA ChangeStep ==
  ASSUME IInv, NEW r \in Request, changeSetting(r)
  PROVE  IInv'
<1> DEFINE u == req[r].target
           old == req[r].other
           new == Asked(r, old)
<1>1. /\ req[r].pc = "change" /\ End(r, "done") /\ UNCHANGED <<added, now, sessions, crossed, used>>
      /\ users' = Stored(u, old, new)
  BY DEF changeSetting
<1>2. /\ u \in Id /\ old \in User /\ new \in User
      /\ new.sessionId = old.sessionId /\ new.sessionIp = old.sessionIp
      /\ new.sessionTimeout = old.sessionTimeout
  BY <1>1, AskedEffect
<1> HIDE DEF new, old, u
<1>3. /\ users' \in [Id -> User \cup {NoUser}]
      /\ \A w \in Id : w # u => users'[w] = users[w]
      /\ users[u] = NoUser => users'[u] = NoUser
      /\ users[u] # NoUser =>
           /\ users'[u].sessionId = users[u].sessionId
           /\ users'[u].sessionIp = users[u].sessionIp
           /\ users'[u].sessionTimeout = users[u].sessionTimeout
  BY <1>1, <1>2, StoredEffect, AccountsAssumption DEF IInv, TypeOK
<1>4. /\ Alone(r) /\ req' \in [Request -> Process] /\ Logged(req[r])' /\ Entitled(req[r])'
  BY <1>1, EndAlone, AccountsAssumption DEF IInv, TypeOK
<1>5. SessionsKept
  BY <1>1, <1>2, <1>3 DEF SessionsKept, IInv, TypeOK, Present
<1>6. TypeOK'
  <2>1. \A w \in Present' : w <= added' /\ users'[w].sessionTimeout <= ColumnMax
    BY <1>1, <1>2, <1>3 DEF IInv, TypeOK, Present
  <2> QED BY <1>1, <1>3, <1>4, <2>1 DEF IInv, TypeOK
<1> QED BY <1>4, <1>5, <1>6, KeepStep

LEMMA AddStep ==
  ASSUME IInv, NEW r \in Request, addUser(r)
  PROVE  IInv'
<1> DEFINE new == NewUser(req[r].name, req[r].password)
<1>1. /\ req[r].pc = "add" /\ added' = added + 1 /\ End(r, "done")
      /\ added \in Nat /\ added < MaxUsers /\ added + 1 \in Id
      /\ UNCHANGED <<now, sessions, crossed, used>>
  BY AccountsAssumption DEF addUser, IInv, TypeOK, Id
<1>2. req[r].name \in Name /\ req[r].password \in Password
  BY <1>1 DEF IInv, Entitled
<1>3. new \in User /\ new.sessionId = NoSession /\ new.sessionTimeout = 0
  BY <1>2 DEF NewUser, User
<1>4. users' = [users EXCEPT ![added + 1] = new]
  BY DEF addUser
<1> HIDE DEF new
<1>5. /\ users' \in [Id -> User \cup {NoUser}] /\ users'[added + 1] = new
      /\ \A w \in Id : w # added + 1 => users'[w] = users[w]
  BY <1>1, <1>3, <1>4 DEF IInv, TypeOK
<1>6. /\ Alone(r) /\ req' \in [Request -> Process] /\ Logged(req[r])' /\ Entitled(req[r])'
  BY <1>1, EndAlone
<1>7. Id \subseteq Nat /\ \A w \in Id : users[w] # NoUser => w <= added
  BY AccountsAssumption DEF Id, IInv, TypeOK, Present
<1>8. SessionsKept
  <2>1. \A w \in Id : w <= added => w # added + 1
    BY <1>1, <1>7
  <2> QED BY <1>1, <1>3, <1>5, <1>7, <2>1 DEF SessionsKept
<1>9. TypeOK'
  <2>1. ASSUME NEW w \in Id, users'[w] # NoUser
        PROVE  w <= added' /\ users'[w].sessionTimeout <= ColumnMax
    <3>1. CASE w = added + 1
      BY <1>1, <1>3, <1>5, <3>1, AccountsAssumption
    <3>2. CASE w # added + 1
      BY <1>1, <1>5, <1>7, <2>1, <3>2 DEF IInv, TypeOK, Present
    <3> QED BY <3>1, <3>2
  <2>2. added' \in 0 .. MaxUsers
    BY <1>1, AccountsAssumption
  <2> QED BY <1>1, <1>5, <1>6, <2>1, <2>2 DEF IInv, TypeOK, Present
<1> QED BY <1>6, <1>8, <1>9, KeepStep

LEMMA RemoveStep ==
  ASSUME IInv, NEW r \in Request, removeUser(r)
  PROVE  IInv'
<1>1. /\ req[r].pc = "remove" /\ End(r, "done") /\ UNCHANGED <<added, now, sessions, crossed, used>>
      /\ users' = [users EXCEPT ![req[r].target] = NoUser]
  BY DEF removeUser
<1>2. /\ users' \in [Id -> User \cup {NoUser}]
      /\ \A w \in Id : users'[w] # NoUser => users'[w] = users[w] /\ users[w] # NoUser
  BY <1>1 DEF IInv, TypeOK
<1>3. /\ Alone(r) /\ req' \in [Request -> Process] /\ Logged(req[r])' /\ Entitled(req[r])'
  BY <1>1, EndAlone, AccountsAssumption DEF IInv, TypeOK
<1>4. SessionsKept
  BY <1>1, <1>2 DEF SessionsKept, IInv, TypeOK, Present
<1>5. TypeOK'
  <2>1. \A w \in Present' : w <= added' /\ users'[w].sessionTimeout <= ColumnMax
    BY <1>1, <1>2 DEF IInv, TypeOK, Present
  <2> QED BY <1>1, <1>2, <1>3, <2>1 DEF IInv, TypeOK
<1> QED BY <1>3, <1>4, <1>5, KeepStep

\* A new session: its id is new to the table and to every request that has read
\* the user, so it is written; the address is written or is there already.
LEMMA InitSessionStep ==
  ASSUME IInv, NEW r \in Request, initSession(r)
  PROVE  IInv'
<1> DEFINE u == req[r].me
           old == req[r].read
           new == [old EXCEPT !.sessionIp = req[r].ip, !.sessionId = r,
                              !.sessionTimeout = NewTimeout]
<1>1. /\ req[r].pc = "switch" /\ End(r, "done") /\ UNCHANGED <<added, now>>
      /\ users' = Stored(u, old, new)
      /\ sessions' = [sessions EXCEPT ![u] = Append(@, r)]
      /\ crossed' = IF Crosses(r) THEN crossed \cup {r} ELSE crossed
  BY DEF initSession
<1>2. req[r] \in Process /\ Logged(req[r])
  BY DEF IInv, TypeOK
<1>3. u \in 1 .. added /\ u \in Id /\ old \in User /\ Made(old.sessionId)
  BY <1>1, <1>2, AccountsAssumption DEF Logged, Id, IInv, TypeOK
<1>4. NewTimeout \in Int /\ NewTimeout <= ColumnMax
  BY TimeoutFits, AccountsAssumption DEF IInv, TypeOK
<1>5. req[r].ip \in Ip \cup {NoSession}
  BY <1>2 DEF Process
<1>6. /\ new \in User /\ new.sessionId = r /\ new.sessionIp = req[r].ip
      /\ new.sessionTimeout = NewTimeout
  BY <1>3, <1>4, <1>5 DEF User
<1>7. r # NoSession /\ \A id : Made(id) => id # r
  BY <1>1, AccountsAssumption DEF Made
<1>8. users[u] # NoUser /\ users[u].sessionId = old.sessionId => users[u].sessionIp = old.sessionIp
  BY <1>1, <1>2 DEF Logged
<1>9. Crosses(r) <=> /\ old.sessionIp = req[r].ip
                     /\ users[u] # NoUser /\ users[u].sessionId # old.sessionId
  BY DEF Crosses
<1> HIDE DEF new, old, u
<1>10. /\ users' \in [Id -> User \cup {NoUser}]
       /\ \A w \in Id : w # u => users'[w] = users[w]
       /\ users[u] = NoUser => users'[u] = NoUser
       /\ users[u] # NoUser =>
            /\ users'[u].sessionId = r
            /\ ~Crosses(r) => users'[u].sessionIp = req[r].ip
            /\ users'[u].sessionTimeout \in {users[u].sessionTimeout, NewTimeout}
  BY <1>1, <1>3, <1>6, <1>7, <1>8, <1>9, StoredEffect, AccountsAssumption DEF IInv, TypeOK
<1>11. /\ Alone(r) /\ req' \in [Request -> Process] /\ Logged(req[r])' /\ Entitled(req[r])'
       /\ req'[r].pc = "done" /\ req'[r].ip = req[r].ip
  BY <1>1, EndAlone, AccountsAssumption DEF IInv, TypeOK
<1>12. /\ sessions' \in [Id -> Seq(Request)] /\ sessions'[u] # <<>>
       /\ sessions'[u][Len(sessions'[u])] = r
       /\ \A w \in Id : w # u => sessions'[w] = sessions[w]
  <2>1. sessions[u] \in Seq(Request) /\ sessions'[u] = Append(sessions[u], r)
    BY <1>1, <1>3 DEF IInv, TypeOK
  <2> QED BY <1>1, <1>3, <2>1 DEF IInv, TypeOK
<1>13. TypeOK'
  <2>1. \A w \in Present' : w <= added' /\ users'[w].sessionTimeout <= ColumnMax
    BY <1>1, <1>3, <1>4, <1>10 DEF IInv, TypeOK, Present
  <2>2. used' = [used EXCEPT ![r] = now]
    BY DEF initSession
  <2>3. used' \in [Request -> 0 .. MaxTime]
    BY <2>2 DEF IInv, TypeOK
  <2> QED BY <1>1, <1>10, <1>11, <1>12, <2>1, <2>3 DEF IInv, TypeOK
<1>14. RowsMade'
  <2> SUFFICES ASSUME NEW w \in Id, users'[w] # NoUser PROVE Made(users[w].sessionId)'
    BY DEF RowsMade, Present
  <2>1. CASE w = u
    BY <1>10, <1>11, <2>1 DEF Made
  <2>2. CASE w # u
    <3>1. users'[w] = users[w] /\ Made(users[w].sessionId)
      BY <1>10, <2>2 DEF IInv, RowsMade, Present
    <3> QED BY <1>11, <3>1 DEF Made, Alone
  <2> QED BY <2>1, <2>2
<1>15. LastStored'
  <2> SUFFICES ASSUME NEW w \in Id, sessions'[w] # <<>>,
                      NEW last, last = sessions'[w][Len(sessions'[w])]
               PROVE  /\ w <= added' /\ last \in Request /\ req'[last].pc = "done"
                      /\ users'[w] # NoUser /\ last \notin crossed' =>
                           users'[w].sessionId = last /\ users'[w].sessionIp = req'[last].ip
    BY DEF LastStored, LastOf
  <2>1. CASE w = u
    <3>1. last = r /\ w <= added'
      BY <1>1, <1>3, <1>12, <2>1
    <3> QED BY <1>1, <1>10, <1>11, <2>1, <3>1
  <2>2. CASE w # u
    <3>1. sessions[w] # <<>> /\ last = LastOf(w)
      BY <1>12, <2>2 DEF LastOf
    <3>2. /\ w <= added /\ last \in Request /\ req[last].pc = "done"
          /\ users[w] # NoUser /\ last \notin crossed =>
               users[w].sessionId = last /\ users[w].sessionIp = req[last].ip
      BY <3>1 DEF IInv, LastStored
    <3>3. req'[last] = req[last] /\ (last \notin crossed' => last \notin crossed)
      BY <1>1, <1>11, <3>2 DEF Alone
    <3> QED BY <1>1, <1>10, <2>2, <3>2, <3>3
  <2> QED BY <2>1, <2>2
<1>16. ASSUME NEW q \in Request, q # r PROVE Logged(req[q])' /\ Entitled(req[q])'
  <2>1. req'[q] = req[q] /\ Logged(req[q]) /\ Entitled(req[q])
    BY <1>11, <1>16 DEF Alone, IInv
  <2>2. Entitled(req[q])'
    BY <1>1, <2>1 DEF Entitled, Can
  <2>3. Logged(req[q])'
    <3>1. CASE req[q].pc \notin {"prolong", "switch"}
      BY <2>1, <3>1 DEF Logged
    <3>2. CASE req[q].pc \in {"prolong", "switch"}
      <4>1. /\ req[q].me \in 1 .. added /\ req[q].me \in Id
            /\ req[q].read \in User /\ Made(req[q].read.sessionId)
            /\ users[req[q].me] # NoUser /\ users[req[q].me].sessionId = req[q].read.sessionId =>
                 users[req[q].me].sessionIp = req[q].read.sessionIp
        BY <2>1, <3>2, AccountsAssumption DEF Logged, Id, IInv, TypeOK
      <4>2. Made(req[q].read.sessionId)'
        BY <1>11, <2>1, <4>1 DEF Alone, Made
      <4>3. req[q].read.sessionId # r
        BY <1>7, <4>1
      <4> QED BY <1>1, <1>10, <2>1, <4>1, <4>2, <4>3 DEF Logged
    <3> QED BY <3>1, <3>2
  <2> QED BY <2>2, <2>3
<1> QED BY <1>11, <1>13, <1>14, <1>15, <1>16 DEF IInv

LEMMA ClockStep == IInv /\ Clock => IInv'
<1> SUFFICES ASSUME IInv, Clock PROVE IInv'
  OBVIOUS
<1>1. UNCHANGED <<users, added, req, sessions, crossed, used>> /\ now' \in 0 .. MaxTime
  BY AccountsAssumption DEF Clock, IInv, TypeOK
<1> QED BY <1>1 DEF IInv, TypeOK, RowsMade, LastStored, LastOf, Logged, Entitled, Made, Present, Can

LEMMA InitIInv == Init => IInv
<1> SUFFICES ASSUME Init PROVE IInv
  OBVIOUS
<1>1. PICK o \in Old : users = [u \in Id |-> IF u \in {1, 2} THEN Kept(o[u]) ELSE NoUser]
  BY DEF Init
<1>2. o[1] \in OldUser /\ o[2] \in OldUser
  BY <1>1, AccountsAssumption
<1>3. ASSUME NEW p \in OldUser
      PROVE  /\ Kept(p) \in User /\ Kept(p).sessionId = NoSession
             /\ Kept(p).sessionTimeout <= ColumnMax
  <2>1. p.name \in Name /\ p.password \in Password /\ p.sessionIp \in Ip \cup {NoSession}
    BY DEF OldUser
  <2> QED BY <2>1, AccountsAssumption DEF User, Kept
<1>4. /\ users \in [Id -> User \cup {NoUser}]
      /\ \A u \in Id : users[u] # NoUser =>
           u <= 2 /\ users[u].sessionId = NoSession /\ users[u].sessionTimeout <= ColumnMax
  BY <1>1, <1>2, <1>3
<1>5. TypeOK
  BY <1>4, IdleType, AccountsAssumption DEF Init, TypeOK, Present
<1>6. RowsMade /\ LastStored
  BY <1>4 DEF Init, RowsMade, LastStored, Made, Present
<1>7. \A r \in Request : Logged(req[r]) /\ Entitled(req[r])
  BY DEF Init, Idle, Logged, Entitled
<1> QED BY <1>5, <1>6, <1>7 DEF IInv

-----------------------------------------------------------------------------
\* The strengthened invariant holds from the first step on.
LEMMA ServeStep ==
  ASSUME IInv, NEW r \in Request, Serve(r)
  PROVE  IInv'
<1>1. 1 .. added \subseteq Id
  BY AccountsAssumption DEF Id, IInv, TypeOK
<1>2. CASE \E name \in Name, key \in Password \cup {q \in Request : req[q].pc = "done"}, ip \in Ip :
             Login(r, name, key, ip)
  BY <1>2, LoginStep
<1>3. CASE Prolong(r) \/ Answer(r) \/ initSession(r) \/ changeSetting(r) \/ addUser(r) \/ removeUser(r)
  BY <1>3, ProlongStep, AnswerStep, InitSessionStep, ChangeStep, AddStep, RemoveStep
<1>4. CASE \E t \in 1 .. added, name \in Name \cup {Unasked}, password \in Password \cup {Unasked} :
             Check(r, "getChange", "changesetting", t, t, name, password)
  BY <1>1, <1>4, CheckStep
<1>5. CASE \E name \in Name, password \in Password :
             Check(r, "add", "adduser", AnyTarget, AnyTarget, name, password)
  BY <1>5, CheckStep DEF AnyTarget
<1>6. CASE \E t \in 1 .. added : Check(r, "getRemove", "removeuser", AnyTarget, t, Unasked, Unasked)
  BY <1>1, <1>6, CheckStep
<1>7. CASE Get(r, "getChange", "change") \/ Get(r, "getRemove", "remove")
  BY <1>7, GetStep
<1> QED BY <1>2, <1>3, <1>4, <1>5, <1>6, <1>7 DEF Serve

LEMMA Invariance == Spec => []IInv
<1>1. IInv /\ [Next]_vars => IInv'
  <2> SUFFICES ASSUME IInv, [Next]_vars PROVE IInv'
    OBVIOUS
  <2>1. CASE UNCHANGED vars
    BY <2>1 DEF vars, IInv, TypeOK, RowsMade, LastStored, LastOf, Logged, Entitled, Made, Present, Can
  <2> QED BY <2>1, ServeStep, ClockStep DEF Next
<1> QED BY InitIInv, <1>1, PTL DEF Spec

\* The tables and the requests keep their types, and no session's time out is
\* beyond what its column can hold.
THEOREM TypeCorrect == Spec => []TypeOK
<1>1. IInv => TypeOK
  BY DEF IInv
<1> QED BY Invariance, <1>1, PTL

\* Whatever the requests under way, a user is only changed, added or removed for
\* someone with the right to it.
THEOREM OnlyByRight == Spec => ActsByRight
<1>1. ASSUME NEW u, NEW name, NEW t, Can(u, name, t)
      PROVE  \/ [user |-> u, name |-> name, target |-> t] \in Rights
             \/ [user |-> u, name |-> name, target |-> AnyTarget] \in Rights
  <2>1. PICK g \in Rights : g.user = u /\ g.name = name /\ g.target \in {t, AnyTarget}
    BY <1>1 DEF Can
  <2>2. g = [user |-> u, name |-> name, target |-> g.target]
    BY <2>1, AccountsAssumption DEF Right
  <2> QED BY <2>1, <2>2
<1>2. IInv /\ [Next]_vars => [\A r \in Request :
        LET has(name, targets) == \E t \in targets :
              [user |-> req[r].me, name |-> name, target |-> t] \in Rights
        IN /\ Acts(r, "change") => has("changesetting", {req[r].target, AnyTarget})
           /\ Acts(r, "add") => has("adduser", {AnyTarget})
           /\ Acts(r, "remove") => has("removeuser", {AnyTarget})]_vars
  <2> SUFFICES ASSUME IInv, NEW r \in Request
               PROVE  /\ Acts(r, "change") =>
                           \E t \in {req[r].target, AnyTarget} :
                             [user |-> req[r].me, name |-> "changesetting", target |-> t] \in Rights
                      /\ Acts(r, "add") =>
                           \E t \in {AnyTarget} :
                             [user |-> req[r].me, name |-> "adduser", target |-> t] \in Rights
                      /\ Acts(r, "remove") =>
                           \E t \in {AnyTarget} :
                             [user |-> req[r].me, name |-> "removeuser", target |-> t] \in Rights
    OBVIOUS
  <2>1. Entitled(req[r])
    BY DEF IInv
  <2>2. ASSUME Acts(r, "change")
        PROVE  \E t \in {req[r].target, AnyTarget} :
                 [user |-> req[r].me, name |-> "changesetting", target |-> t] \in Rights
    <3>1. Can(req[r].me, "changesetting", req[r].target)
      BY <2>1, <2>2 DEF Acts, Entitled
    <3> QED BY <1>1, <3>1
  <2>3. ASSUME Acts(r, "add")
        PROVE  \E t \in {AnyTarget} :
                 [user |-> req[r].me, name |-> "adduser", target |-> t] \in Rights
    <3>1. Can(req[r].me, "adduser", AnyTarget)
      BY <2>1, <2>3 DEF Acts, Entitled
    <3> QED BY <1>1, <3>1
  <2>4. ASSUME Acts(r, "remove")
        PROVE  \E t \in {AnyTarget} :
                 [user |-> req[r].me, name |-> "removeuser", target |-> t] \in Rights
    <3>1. Can(req[r].me, "removeuser", AnyTarget)
      BY <2>1, <2>4 DEF Acts, Entitled
    <3> QED BY <1>1, <3>1
  <2> QED BY <2>2, <2>3, <2>4
<1> QED BY Invariance, <1>2, PTL DEF Spec, ActsByRight

\* The row w has become t: a field keeps its value, or the object new was stored
\* in this row u, had another value than when it was read as old, and is kept.
Written(w, t, u, old, new) ==
  /\ users[w] = NoUser => t = NoUser
  /\ users[w] # NoUser =>
       /\ t.name = users[w].name \/ (w = u /\ new.name # old.name /\ t.name = new.name)
       /\ \/ t.password = users[w].password
          \/ w = u /\ new.password # old.password /\ t.password = new.password
       /\ \/ t.sessionId = users[w].sessionId
          \/ w = u /\ new.sessionId # old.sessionId /\ t.sessionId = new.sessionId

LEMMA StoredField ==
  ASSUME NEW u \in Id, NEW old \in User, NEW new \in User, NEW w \in Id,
         users \in [Id -> User \cup {NoUser}], NoUser \notin User
  PROVE  Written(w, Stored(u, old, new)[w], u, old, new)
<1>1. CASE w = u
  BY <1>1, StoredEffect DEF Written
<1>2. CASE w # u
  <2>1. Stored(u, old, new)[w] = users[w]
    BY <1>2, StoredEffect
  <2> QED BY <2>1 DEF Written
<1> QED BY <1>1, <1>2

\* A step that is none of the requests' writes leaves the users alone.
LEMMA WritesUsers ==
  ASSUME [Next]_vars, users' # users
  PROVE  \E r \in Request :
           Prolong(r) \/ initSession(r) \/ changeSetting(r) \/ addUser(r) \/ removeUser(r)
<1>1. PICK r \in Request : Serve(r)
  BY DEF Next, vars, Clock
<1>2. ~Answer(r) /\ \A name, key, ip : ~Login(r, name, key, ip)
  BY DEF Answer, Login
<1>3. \A pc, right, scope, target, name, password :
        ~Check(r, pc, right, scope, target, name, password)
  BY DEF Check
<1>4. \A pc, next : ~Get(r, pc, next)
  BY DEF Get
<1> QED BY <1>1, <1>2, <1>3, <1>4 DEF Serve

\* What one request writes is never undone by another that read the user before,
\* and a user who was removed does not come back.
THEOREM NothingUndone == Spec => OnlyAsked
<1> DEFINE Only(u) ==
      /\ users[u] = NoUser => users'[u] = NoUser
      /\ u \in Present /\ users'[u] # NoUser =>
           /\ users'[u].name # users[u].name =>
                \E r \in Request : /\ Acts(r, "change") /\ req[r].target = u
                                   /\ users'[u].name = req[r].name
           /\ users'[u].password # users[u].password =>
                \E r \in Request : /\ Acts(r, "change") /\ req[r].target = u
                                   /\ users'[u].password = req[r].password
           /\ users'[u].sessionId # users[u].sessionId =>
                \E r \in Request : /\ Acts(r, "switch") /\ req[r].me = u
                                   /\ users'[u].sessionId = r
<1>1. IInv /\ [Next]_vars => [\A u \in 1 .. added : Only(u)]_vars
  <2> SUFFICES ASSUME IInv, [Next]_vars, NEW u \in 1 .. added PROVE Only(u)
    OBVIOUS
  <2>1. CASE users' = users
    BY <2>1
  <2>2. CASE users' # users
    <3>1. PICK r \in Request :
            Prolong(r) \/ initSession(r) \/ changeSetting(r) \/ addUser(r) \/ removeUser(r)
      BY <2>2, WritesUsers
    <3>2. /\ u \in Id /\ users \in [Id -> User \cup {NoUser}] /\ NoUser \notin User
          /\ req[r] \in Process /\ Logged(req[r]) /\ added \in Nat
      BY AccountsAssumption DEF Id, IInv, TypeOK
    <3>3. ASSUME req[r].pc \in {"prolong", "switch"}
          PROVE  req[r].me \in Id /\ req[r].read \in User
      BY <3>2, <3>3, AccountsAssumption DEF Logged, Id, IInv, TypeOK
    <3>4. NewTimeout \in Int
      BY TimeoutFits, AccountsAssumption DEF IInv, TypeOK
    <3>5. ASSUME End(r, "done") PROVE req'[r].pc = "done"
      BY <3>5 DEF End, IInv, TypeOK, Idle
    <3>6. CASE Prolong(r)
      <4> DEFINE old == req[r].read
                 new == [old EXCEPT !.sessionTimeout = NewTimeout]
      <4>1. /\ req[r].me \in Id /\ old \in User /\ users' = Stored(req[r].me, old, new)
        BY <3>3, <3>6 DEF Prolong
      <4>2. /\ new \in User /\ new.name = old.name /\ new.password = old.password
            /\ new.sessionId = old.sessionId
        BY <3>4, <4>1 DEF User
      <4> HIDE DEF new, old
      <4>3. Written(u, users'[u], req[r].me, old, new)
        BY <3>2, <4>1, <4>2, StoredField
      <4>4. /\ users[u] = NoUser => users'[u] = NoUser
            /\ users[u] # NoUser => /\ users'[u].name = users[u].name
                                    /\ users'[u].password = users[u].password
                                    /\ users'[u].sessionId = users[u].sessionId
        BY <4>2, <4>3 DEF Written
      <4> QED BY <4>4 DEF Present
    <3>7. CASE initSession(r)
      <4> DEFINE old == req[r].read
                 new == [old EXCEPT !.sessionIp = req[r].ip, !.sessionId = r,
                                    !.sessionTimeout = NewTimeout]
      <4>1. /\ req[r].me \in Id /\ old \in User /\ users' = Stored(req[r].me, old, new)
            /\ Acts(r, "switch") /\ req[r].ip \in Ip \cup {NoSession}
        BY <3>2, <3>3, <3>5, <3>7 DEF initSession, Acts, Process
      <4>2. /\ new \in User /\ new.name = old.name /\ new.password = old.password
            /\ new.sessionId = r
        BY <3>4, <4>1 DEF User
      <4> HIDE DEF new, old
      <4>3. Written(u, users'[u], req[r].me, old, new)
        BY <3>2, <4>1, <4>2, StoredField
      <4>4. /\ users[u] = NoUser => users'[u] = NoUser
            /\ users[u] # NoUser =>
                 /\ users'[u].name = users[u].name
                 /\ users'[u].password = users[u].password
                 /\ \/ users'[u].sessionId = users[u].sessionId
                    \/ u = req[r].me /\ users'[u].sessionId = r
        BY <4>2, <4>3 DEF Written
      <4> QED BY <4>1, <4>4 DEF Present
    <3>8. CASE changeSetting(r)
      <4> DEFINE old == req[r].other
                 new == Asked(r, old)
      <4>1. /\ users' = Stored(req[r].target, old, new) /\ Acts(r, "change")
        BY <3>5, <3>8 DEF changeSetting, Acts
      <4>2. /\ req[r].target \in Id /\ old \in User /\ new \in User
            /\ new.name = IF req[r].name = Unasked THEN old.name ELSE req[r].name
            /\ new.password = IF req[r].password = Unasked THEN old.password ELSE req[r].password
            /\ new.sessionId = old.sessionId
        BY <4>1, AskedEffect DEF Acts
      <4> HIDE DEF new, old
      <4>3. Written(u, users'[u], req[r].target, old, new)
        BY <3>2, <4>1, <4>2, StoredField
      <4>4. /\ users[u] = NoUser => users'[u] = NoUser
            /\ users[u] # NoUser =>
                 /\ \/ users'[u].name = users[u].name
                    \/ u = req[r].target /\ users'[u].name = req[r].name
                 /\ \/ users'[u].password = users[u].password
                    \/ u = req[r].target /\ users'[u].password = req[r].password
                 /\ users'[u].sessionId = users[u].sessionId
        BY <4>2, <4>3 DEF Written
      <4> QED BY <4>1, <4>4 DEF Present
    <3>9. CASE addUser(r) \/ removeUser(r)
      <4>1. users'[u] \in {users[u], NoUser}
        BY <3>2, <3>9 DEF addUser, removeUser
      <4> QED BY <4>1 DEF Present
    <3> QED BY <3>1, <3>6, <3>7, <3>8, <3>9
  <2> QED BY <2>1, <2>2
<1> QED BY Invariance, <1>1, PTL DEF Spec, OnlyAsked

\* A password whose change was acknowledged is in force, with the exceptions the
\* property names.
THEOREM AcknowledgedIsDone == Spec => AskedIsDone
<1> DEFINE Done(r) ==
      Acts(r, "change") /\ req[r].password # Unasked =>
        LET u == req[r].target IN
        \/ users'[u] = NoUser
        \/ users'[u].password = req[r].password
        \/ req[r].other.password = req[r].password /\ users[u].password # req[r].password
<1>1. IInv /\ [Next]_vars => [\A r \in Request : Done(r)]_vars
  <2> SUFFICES ASSUME IInv, [Next]_vars, NEW r \in Request,
                      Acts(r, "change"), req[r].password # Unasked
               PROVE  LET u == req[r].target IN
                      \/ users'[u] = NoUser
                      \/ users'[u].password = req[r].password
                      \/ /\ req[r].other.password = req[r].password
                         /\ users[u].password # req[r].password
    OBVIOUS
  <2> DEFINE old == req[r].other
             new == Asked(r, old)
  <2>1. changeSetting(r)
    <3>1. req'[r] # req[r]
      BY DEF Acts
    <3>2. PICK q \in Request : Serve(q)
      BY <3>1 DEF Next, vars, Clock
    <3>3. q = r
      BY <3>1, <3>2 DEF Serve, Login, Prolong, Answer, initSession, Check, Get, changeSetting,
                        addUser, removeUser, End, IInv, TypeOK
    <3> QED BY <3>2, <3>3
            DEF Acts, Serve, Login, Prolong, Answer, initSession, Check, Get, addUser, removeUser
  <2>2. users' = Stored(req[r].target, old, new)
    BY <2>1 DEF changeSetting
  <2>3. /\ req[r].target \in Id /\ old \in User /\ new \in User
        /\ new.password = req[r].password
    BY AskedEffect DEF Acts
  <2>4. users \in [Id -> User \cup {NoUser}] /\ NoUser \notin User
    BY AccountsAssumption DEF IInv, TypeOK
  <2>5. \/ users'[req[r].target] = NoUser
        \/ users'[req[r].target].password =
             IF new.password = old.password THEN users[req[r].target].password ELSE new.password
    <3> HIDE DEF new, old
    <3> QED BY <2>2, <2>3, <2>4, StoredEffect
  <2> QED BY <2>3, <2>5
<1> QED BY Invariance, <1>1, PTL DEF Spec, AskedIsDone

\* The session a user was given last is not turned away within the hour, with the
\* exceptions the property names: the time out that is stored, cut off at what
\* its column can hold, never exceeds the time it is compared with.
THEOREM SessionsLastTheHour == Spec => KeptSession
<1> DEFINE Held(r, u) ==
      /\ req[r].pc = "idle" /\ req'[r].pc = "unauthorised"
      /\ sessions[u] # <<>> /\ req'[r].key = sessions[u][Len(sessions[u])]
      /\ req'[r].ip = req[req'[r].key].ip /\ now < used[req'[r].key] + Hour
      => ByName(req'[r].name) # u \/ req'[r].key \in crossed
<1>1. IInv /\ [Next]_vars => [\A r \in Request, u \in Id : Held(r, u)]_vars
  <2> SUFFICES ASSUME IInv, [Next]_vars, NEW r \in Request, NEW u \in Id,
                      req[r].pc = "idle", req'[r].pc = "unauthorised", sessions[u] # <<>>,
                      req'[r].key = LastOf(u), req'[r].ip = req[LastOf(u)].ip,
                      ByName(req'[r].name) = u, LastOf(u) \notin crossed
               PROVE  FALSE
    BY DEF LastOf
  <2>1. PICK name \in Name, key \in Password \cup Request, ip \in Ip : Login(r, name, key, ip)
    <3>1. req'[r] # req[r]
      OBVIOUS
    <3>2. PICK q \in Request : Serve(q)
      BY <3>1 DEF Next, vars, Clock
    <3>3. q = r
      BY <3>1, <3>2 DEF Serve, Login, Prolong, Answer, initSession, Check, Get, changeSetting,
                        addUser, removeUser, End, IInv, TypeOK
    <3> QED BY <3>2, <3>3
            DEF Serve, Prolong, Answer, initSession, Check, Get, changeSetting, addUser, removeUser
  <2> DEFINE x == [Idle EXCEPT !.key = key, !.ip = ip, !.name = name, !.me = ByName(name),
                     !.read = IF ByName(name) = 0 THEN NoUser ELSE users[ByName(name)],
                     !.pc = IF ByName(name) = 0 \/ ~Checked(users[ByName(name)], key, ip)
                            THEN "unauthorised"
                            ELSE IF key \in Password THEN "switch" ELSE "prolong"]
  <2>2. req'[r] = x
    BY <2>1 DEF Login, IInv, TypeOK
  <2>3. /\ x.key = key /\ x.ip = ip /\ x.name = name
        /\ x.pc = "unauthorised" => ByName(name) = 0 \/ ~Checked(users[ByName(name)], key, ip)
    BY DEF Idle
  <2> HIDE DEF x
  <2>4. key = LastOf(u) /\ ip = req[LastOf(u)].ip /\ ByName(name) = u
    BY <2>2, <2>3
  <2>5. u # 0 /\ u \in Present
    BY <2>4, ByNamePresent, AccountsAssumption DEF Id
  <2>6. ~Checked(users[u], key, ip)
    BY <2>2, <2>3, <2>4, <2>5
  <2>7. /\ LastOf(u) \in Request /\ users[u].sessionId = LastOf(u)
        /\ users[u].sessionIp = req[LastOf(u)].ip
    BY <2>5 DEF IInv, LastStored, Present
  <2>8. ~TimedOut(users[u])
    <3>1. users[u] \in User /\ users[u].sessionTimeout <= ColumnMax /\ now \in Nat
      BY <2>5, AccountsAssumption DEF IInv, TypeOK, Present
    <3>2. users[u].sessionTimeout \in Int
      BY <3>1 DEF User
    <3> QED BY <3>1, <3>2, AccountsAssumption DEF TimedOut, Time
  <2> QED BY <2>4, <2>6, <2>7, <2>8, AccountsAssumption DEF Checked
<1> QED BY Invariance, <1>1, PTL DEF Spec, KeptSession
=============================================================================
