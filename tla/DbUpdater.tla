----------------------------- MODULE DbUpdater ------------------------------
(***************************************************************************)
(* What every request to the backend does before it is served (Main.main   *)
(* and DbUpdater.updateDb): it creates the version row, brings the         *)
(* database from the version it finds to the one it needs by running the   *)
(* update files one after the other, and adds a default user if there is   *)
(* none.  Requests run concurrently and may be cut off anywhere.           *)
(*                                                                         *)
(* The transaction that updateWithin starts is ended by the first          *)
(* statement of each file, because MySQL commits before and after a CREATE *)
(* or an ALTER: every statement commits by itself.                         *)
(***************************************************************************)
EXTENDS Integers, Sequences

CONSTANTS Request,   \* the requests, each served once
          OldUser,   \* a user of an installation that is already in use
          Start,     \* versions the database may be at first, 0 being empty
          MaxCuts    \* bound on the requests that are cut off

dbVersionReq == 5

ASSUME DbUpdaterAssumption ==
  /\ OldUser \notin Request
  /\ Start \subseteq 0 .. dbVersionReq
  /\ MaxCuts \in Nat

VARIABLES versions,     \* the rows of table version, by id
          objects,      \* the tables and columns there are
          connections,  \* how many default connections were inserted
          users, rights,  \* the users there are, and what they may do
          pc, dbVersion,  \* of each request: its next step, the version read,
          step,           \* the statement of the update file it is at
          cuts

database == <<versions, objects, connections, users, rights>>
vars     == <<database, pc, dbVersion, step, cuts>>

(***************************************************************************)
(* The update files.                                                       *)
(***************************************************************************)
Create(t)     == [does |-> "create",  makes |-> {t}, on |-> {},  to |-> 0]
Add(t, c)     == [does |-> "add",     makes |-> {c}, on |-> {t}, to |-> 0]
Change(t, c)  == [does |-> "change",  makes |-> {c}, on |-> {t}, to |-> 0]
Insert(t)     == [does |-> "insert",  makes |-> {},  on |-> {t}, to |-> 0]
SetVersion(k) == [does |-> "version", makes |-> {},  on |-> {},  to |-> k]

Update0 == <<Create("connection"), Insert("connection"), Create("user"),
             Create("datarecord"), Create("priveledge"), SetVersion(1)>>

\* The version is raised before the change is made.
Update1VersionFirst == <<SetVersion(2), Add("user", "session")>>

Update1 == <<Add("user", "session"), SetVersion(2)>>
Update2 == <<Add("priveledge", "target"), SetVersion(3)>>
Update3 == <<Change("user", "doubleQuota"), SetVersion(4)>>
Update4 == <<Add("connection", "monthStartTime"), SetVersion(5)>>

\* The file for a version; the one for dbVersionReq is never opened.
Update == [k \in 0 .. dbVersionReq - 1 |->
             CASE k = 0 -> Update0 [] k = 1 -> Update1 [] k = 2 -> Update2
               [] k = 3 -> Update3 [] k = 4 -> Update4]

\* The objects an update file makes, and those of all files below a version.
MadeBy(k)   == UNION {Update[k][i].makes : i \in DOMAIN Update[k]}
Schema(k)   == UNION {MadeBy(j) : j \in 0 .. k - 1}
Object      == Schema(dbVersionReq)

\* CREATE TABLE IF NOT EXISTS.
SucceedsAlways(s) == s.on \subseteq objects

\* MySQL refuses to create a table or to add a column that is there already;
\* to change a column into what it is already is fine.
Succeeds(s) == /\ s.on \subseteq objects
               /\ s.does \in {"create", "add"} => s.makes \cap objects = {}

\* Each row is raised by one instead.
RaisedByOne(k) == [i \in DOMAIN versions |-> versions[i] + 1]

\* UPDATE version SET version = k has no WHERE: it changes every row.
AllSetTo(k) == [i \in DOMAIN versions |-> k]

-----------------------------------------------------------------------------
Init ==
  \E k \in Start :
    /\ versions = (IF k = 0 THEN <<>> ELSE <<k>>)
    /\ objects = Schema(k)
    /\ connections = (IF k = 0 THEN 0 ELSE 1)
    /\ users = (IF k = 0 THEN {} ELSE {OldUser})
    /\ rights = users \X {"getdata", "putdata"}
    /\ pc = [q \in Request |-> "count"]
    /\ dbVersion = [q \in Request |-> 0] /\ step = [q \in Request |-> 1]
    /\ cuts = 0

Goto(q, l) == pc' = [pc EXCEPT ![q] = l]

\* main makes sure there is a table version and counts its rows.
CountVersions(q) ==
  /\ pc[q] = "count"
  /\ Goto(q, IF versions = <<>> THEN "insert" ELSE "read")
  /\ UNCHANGED <<database, dbVersion, step, cuts>>

\* Another request may have inserted one meanwhile.
InsertVersion(q) ==
  /\ pc[q] = "insert"
  /\ versions' = Append(versions, 0)
  /\ Goto(q, "read")
  /\ UNCHANGED <<objects, connections, users, rights, dbVersion, step, cuts>>

\* The loop ends one version too early.
UpToDateEarly(k) == k >= dbVersionReq - 1

\* The condition on which updateDb leaves its loop.
UpToDate(k) == k = dbVersionReq

\* updateDb with the version it has read: done, a file to run, or no file.
LoopWith(q, k) ==
  /\ dbVersion' = [dbVersion EXCEPT ![q] = k]
  /\ step' = [step EXCEPT ![q] = 1]
  /\ Goto(q, IF UpToDate(k) THEN "users"
             ELSE IF k \in DOMAIN Update THEN "run" ELSE "failed")

\* updateDb counts the rows again, and reads the version of the first one.
ReadVersion(q) ==
  /\ pc[q] = "read"
  /\ IF versions = <<>>
     THEN Goto(q, "failed") /\ UNCHANGED <<dbVersion, step>>
     ELSE LoopWith(q, Head(versions))
  /\ UNCHANGED <<database, cuts>>

\* updateWithin runs one statement.  An error is logged, and the rest of the
\* file is not run.
Execute(q) ==
  LET s == Update[dbVersion[q]][step[q]]
      last == step[q] = Len(Update[dbVersion[q]])
  IN
  /\ pc[q] = "run"
  /\ IF Succeeds(s)
     THEN /\ objects' = objects \cup s.makes
          /\ connections' = IF s.does = "insert" THEN connections + 1 ELSE connections
          /\ versions' = IF s.does = "version" THEN AllSetTo(s.to) ELSE versions
          /\ step' = IF last THEN step ELSE [step EXCEPT ![q] = @ + 1]
          /\ Goto(q, IF last THEN "verify" ELSE "run")
     ELSE /\ Goto(q, "reread")
          /\ UNCHANGED <<objects, connections, versions, step>>
  /\ UNCHANGED <<users, rights, dbVersion, cuts>>

\* The version is compared with the one the update started from.
VerifiedAgainstOld(q) == Head(versions) = dbVersion[q]

Verified(q) == Head(versions) = dbVersion[q] + 1

\* At the end of the file the version must be the one it leads to.
Verify(q) ==
  /\ pc[q] = "verify"
  /\ Goto(q, IF Verified(q) THEN "reread" ELSE "failed")
  /\ UNCHANGED <<database, dbVersion, step, cuts>>

\* A version that has not changed is tried again.
StuckNever(q) == FALSE

\* updateDb gives up on a version that the file has not changed.
Stuck(q) == Head(versions) = dbVersion[q]

Reread(q) ==
  /\ pc[q] = "reread"
  /\ IF Stuck(q)
     THEN Goto(q, "failed") /\ UNCHANGED <<dbVersion, step>>
     ELSE LoopWith(q, Head(versions))
  /\ UNCHANGED <<database, cuts>>

\* Back in main: is there a user?
CountUsers(q) ==
  /\ pc[q] = "users"
  /\ Goto(q, IF users = {} THEN "addUser" ELSE "served")
  /\ UNCHANGED <<database, dbVersion, step, cuts>>

InsertUser(q) ==
  /\ pc[q] = "addUser"
  /\ users' = users \cup {q}
  /\ Goto(q, "getdata")
  /\ UNCHANGED <<versions, objects, connections, rights, dbVersion, step, cuts>>

\* The request goes on after the first privilege.
AllowFirstOnly(q) ==
  /\ pc[q] \in {"getdata", "putdata"}
  /\ rights' = rights \cup {<<q, pc[q]>>}
  /\ Goto(q, "served")
  /\ UNCHANGED <<versions, objects, connections, users, dbVersion, step, cuts>>

\* defaultUser.allow, first getdata and then putdata.
Allow(q) ==
  /\ pc[q] \in {"getdata", "putdata"}
  /\ rights' = rights \cup {<<q, pc[q]>>}
  /\ Goto(q, IF pc[q] = "getdata" THEN "putdata" ELSE "served")
  /\ UNCHANGED <<versions, objects, connections, users, dbVersion, step, cuts>>

Ended == {"served", "failed", "cut"}

\* The request is cut off: a limit on its time, a lost database connection.
Cut(q) ==
  /\ pc[q] \notin Ended /\ cuts < MaxCuts
  /\ cuts' = cuts + 1
  /\ Goto(q, "cut")
  /\ UNCHANGED <<database, dbVersion, step>>

Steps(q) == \/ CountVersions(q) \/ InsertVersion(q) \/ ReadVersion(q)
            \/ Execute(q) \/ Verify(q) \/ Reread(q)
            \/ CountUsers(q) \/ InsertUser(q) \/ Allow(q)

Next == \E q \in Request : Steps(q) \/ Cut(q)

\* The web server and the database let every request go on.
Fairness == \A q \in Request : WF_vars(Steps(q))

Spec == Init /\ [][Next]_vars
FairSpec == Spec /\ Fairness
-----------------------------------------------------------------------------
TypeOK ==
  /\ versions \in Seq(0 .. dbVersionReq)
  /\ objects \subseteq Object /\ connections \in Nat
  /\ users \subseteq Request \cup {OldUser}
  /\ rights \subseteq (Request \cup {OldUser}) \X {"getdata", "putdata"}
  /\ pc \in [Request -> {"count", "insert", "read", "run", "verify", "reread",
                         "users", "addUser", "getdata", "putdata"} \cup Ended]
  /\ dbVersion \in [Request -> 0 .. dbVersionReq]
  /\ step \in [Request -> Nat \ {0}]
  /\ cuts \in 0 .. MaxCuts

\* The database never claims a version whose update files have not all been
\* run to their end, although several requests run them at the same time, any
\* of them may be cut off, and a second row of version may be inserted late.
VersionHonest == \A i \in DOMAIN versions : Schema(versions[i]) \subseteq objects

\* The request is past updateDb.
Upgraded(q) == pc[q] \in {"users", "addUser", "getdata", "putdata", "served"}

\* A request that gets past updateDb finds every table and column it needs,
\* for as long as it runs.
UpgradedIsComplete == \A q \in Request : Upgraded(q) => objects = Object

\* At most one default connection is inserted, the one getConnection finds by
\* its id: only the request that created the table goes on to insert it.
OneConnection == connections <= 1

\* A request fails only if another one has been at work: alone on a database of
\* any version, updateDb and main succeed.
FailsOnlyDisturbed ==
  \A q \in Request : pc[q] = "failed" => \E p \in Request \ {q} : pc[p] # "count"

\* The loop of updateDb ends for every request, however the others change the
\* version under it.
EveryRequestEnds == \A q \in Request : <>(pc[q] \in Ended)

\* A request is served only when there is a user; and although several requests
\* may each insert one, every user may get and put data, except while the
\* request that inserted it is allowing it that, or was cut off there.
DefaultUserReady ==
  /\ (\E q \in Request : pc[q] = "served") => users # {}
  /\ \A u \in users :
       \/ {u} \X {"getdata", "putdata"} \subseteq rights
       \/ u \in Request /\ pc[u] \in {"getdata", "putdata", "cut"}

\* Requests that run update files at the same time set the version back in one
\* way only, from 5 to 4: by the one file that can be run twice, because its
\* change succeeds on a column changed already.  Every other file stops the
\* second request before it sets the version.
SetBackOnlyByChange ==
  [][versions # <<>> /\ Head(versions') < Head(versions) =>
       Head(versions) = 5 /\ Head(versions') = 4]_vars
=============================================================================
