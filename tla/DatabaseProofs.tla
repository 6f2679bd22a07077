--------------------------- MODULE DatabaseProofs ---------------------------
(***************************************************************************)
(* Proofs about the backend's database: about DbUpdater, for any number of *)
(* requests and of cuts; about Archive, for any requests, users, amounts,  *)
(* lengths of windows and sizes of blocks; and about Totals, for any users,*)
(* records, quotas and trust levels.                                       *)
(***************************************************************************)
EXTENDS DbUpdater, Archive, Totals, FiniteSetTheorems, WellFoundedInduction, TLAPS

\* A request that has got to updateDb has seen a row of version.
SawVersion ==
  \A q \in Request : pc[q] \in {"read", "run", "verify", "reread"} => versions # <<>>

\* What is behind a request that is running an update file: the files below
\* it, and its own statements up to the one it is at.
Behind ==
  \A q \in Request : pc[q] = "run" =>
    /\ dbVersion[q] \in 0 .. 4 /\ step[q] \in 1 .. Len(Update[dbVersion[q]])
    /\ Schema(dbVersion[q]) \subseteq objects
    /\ \A j \in 1 .. step[q] - 1 : Update[dbVersion[q]][j].makes \subseteq objects

\* The request is about to insert the default connection.
Inserting(q) == pc[q] = "run" /\ dbVersion[q] = 0 /\ step[q] = 2

\* At most one request ever is: the one that created the table.
OneInserter ==
  /\ "connection" \notin objects =>
       connections = 0 /\ \A q \in Request : ~Inserting(q)
  /\ \A p, q \in Request : Inserting(p) /\ Inserting(q) => p = q
  /\ \A q \in Request : Inserting(q) => connections = 0

IInv == /\ TypeOK /\ SawVersion /\ VersionHonest /\ Behind
        /\ UpgradedIsComplete /\ OneInserter /\ OneConnection

-----------------------------------------------------------------------------
\* The update file of each version.
LEMMA FilesByVersion ==
  /\ Update[0] = Update0 /\ Update[1] = Update1 /\ Update[2] = Update2
  /\ Update[3] = Update3 /\ Update[4] = Update4
<1> DEFINE U(j) == CASE j = 0 -> Update0 [] j = 1 -> Update1 [] j = 2 -> Update2
                     [] j = 3 -> Update3 [] j = 4 -> Update4
<1>1. \A j \in 0 .. 4 : Update[j] = U(j)
  BY DEF Update, dbVersionReq
<1> QED BY <1>1

\* Every file has statements, numbered from 1.
LEMMA FileLengths ==
  ASSUME NEW k \in 0 .. 4
  PROVE  Len(Update[k]) \in Nat \ {0} /\ DOMAIN Update[k] = 1 .. Len(Update[k])
<1>1. CASE k = 0
  BY <1>1, FilesByVersion DEF Update0
<1>2. CASE k = 1
  BY <1>2, FilesByVersion DEF Update1
<1>3. CASE k = 2
  BY <1>3, FilesByVersion DEF Update2
<1>4. CASE k = 3
  BY <1>4, FilesByVersion DEF Update3
<1>5. CASE k = 4
  BY <1>5, FilesByVersion DEF Update4
<1> QED BY <1>1, <1>2, <1>3, <1>4, <1>5

\* What the update files have in common: the version is raised last, and by
\* one; only the first file makes the table of connections, with its first
\* statement, and inserts into it, with its second.
LEMMA UpdateFiles ==
  ASSUME NEW k \in 0 .. 4, NEW i \in 1 .. Len(Update[k])
  PROVE  /\ Update[k][i].does = "version" => i = Len(Update[k]) /\ Update[k][i].to = k + 1
         /\ Update[k][i].does = "insert" <=> k = 0 /\ i = 2
         /\ "connection" \in Update[k][i].makes <=> k = 0 /\ i = 1
         /\ k = 0 /\ i = 1 => Update[k][i].does = "create"
<1>1. CASE k = 0
  BY <1>1, FilesByVersion DEF Update0, Create, Insert, SetVersion
<1>2. CASE k = 1
  BY <1>2, FilesByVersion DEF Update1, Add, SetVersion
<1>3. CASE k = 2
  BY <1>3, FilesByVersion DEF Update2, Add, SetVersion
<1>4. CASE k = 3
  BY <1>4, FilesByVersion DEF Update3, Change, SetVersion
<1>5. CASE k = 4
  BY <1>5, FilesByVersion DEF Update4, Add, SetVersion
<1> QED BY <1>1, <1>2, <1>3, <1>4, <1>5

\* What a version stands for, file by file.
LEMMA Schemas ==
  /\ Schema(0) = {} /\ Schema(5) = Object
  /\ \A k \in 0 .. 4 : Schema(k + 1) = Schema(k) \cup MadeBy(k)
  /\ \A k \in 0 .. 5 : Schema(k) \subseteq Object
  /\ \A k \in 1 .. 5 : "connection" \in Schema(k)
<1>1. Schema(0) = {} /\ Schema(5) = Object
  BY DEF Schema, Object, dbVersionReq
<1>2. ASSUME NEW k \in 0 .. 4 PROVE Schema(k + 1) = Schema(k) \cup MadeBy(k)
  BY DEF Schema
<1>3. ASSUME NEW k \in 0 .. 5 PROVE Schema(k) \subseteq Object
  BY DEF Schema, Object, dbVersionReq
<1>4. "connection" \in MadeBy(0)
  <2>1. Update[0][1].makes = {"connection"} /\ 1 \in DOMAIN Update[0]
    BY FilesByVersion, FileLengths DEF Update0, Create
  <2> QED BY <2>1 DEF MadeBy
<1>5. ASSUME NEW k \in 1 .. 5 PROVE "connection" \in Schema(k)
  BY <1>4 DEF Schema
<1> QED BY <1>1, <1>2, <1>3, <1>5

\* The invariant holds of a database of any version before the first request.
LEMMA InitIInv == Init => IInv
<1> SUFFICES ASSUME Init PROVE IInv
  OBVIOUS
<1>1. PICK k \in Start :
        /\ versions = (IF k = 0 THEN <<>> ELSE <<k>>)
        /\ objects = Schema(k)
        /\ connections = (IF k = 0 THEN 0 ELSE 1)
        /\ users = (IF k = 0 THEN {} ELSE {OldUser})
        /\ rights = users \X {"getdata", "putdata"}
        /\ pc = [q \in Request |-> "count"]
        /\ dbVersion = [q \in Request |-> 0] /\ step = [q \in Request |-> 1]
        /\ cuts = 0
  BY DEF Init
<1>2. k \in 0 .. 5
  BY <1>1, DbUpdaterAssumption DEF dbVersionReq
<1>3. TypeOK
  <2>1. versions \in Seq(0 .. dbVersionReq)
    <3>1. CASE k = 0
      BY <1>1, <3>1
    <3>2. CASE k # 0
      BY <1>1, <1>2, <3>2 DEF dbVersionReq
    <3> QED BY <3>1, <3>2
  <2>2. objects \subseteq Object
    BY <1>1, <1>2, Schemas
  <2> QED BY <1>1, <1>2, <2>1, <2>2, DbUpdaterAssumption DEF TypeOK, dbVersionReq, Ended
<1>4. VersionHonest
  BY <1>1, <1>2 DEF VersionHonest
<1>5. SawVersion /\ Behind /\ UpgradedIsComplete
  BY <1>1 DEF SawVersion, Behind, UpgradedIsComplete, Upgraded
<1>6. OneInserter /\ OneConnection
  BY <1>1, <1>2, Schemas DEF OneInserter, Inserting, OneConnection
<1> QED BY <1>3, <1>4, <1>5, <1>6 DEF IInv

-----------------------------------------------------------------------------
\* What stays true of a step that leaves the database alone and moves one
\* request to a step outside the update files.
LEMMA QuietStep ==
  ASSUME IInv, NEW q \in Request, NEW l,
         UNCHANGED <<versions, objects, connections>>,
         pc' = [pc EXCEPT ![q] = l], l # "run",
         UNCHANGED <<dbVersion, step>>,
         l \in {"read", "verify", "reread"} => versions # <<>>,
         l \in {"users", "addUser", "getdata", "putdata", "served"} => objects = Object
  PROVE  (SawVersion /\ VersionHonest /\ Behind /\ UpgradedIsComplete
            /\ OneInserter /\ OneConnection)'
<1> USE DEF IInv, TypeOK
<1>1. SawVersion'
  BY DEF SawVersion
<1>2. VersionHonest' /\ OneConnection'
  BY DEF VersionHonest, OneConnection
<1>3. Behind'
  BY DEF Behind
<1>4. UpgradedIsComplete'
  BY DEF UpgradedIsComplete, Upgraded
<1>5. OneInserter'
  BY DEF OneInserter, Inserting
<1> QED BY <1>1, <1>2, <1>3, <1>4, <1>5

\* What the first row of version tells updateDb.
LEMMA FirstVersion ==
  ASSUME IInv, versions # <<>>
  PROVE  /\ Head(versions) \in 0 .. 5 /\ Schema(Head(versions)) \subseteq objects
         /\ Head(versions) = 5 => objects = Object
<1>1. 1 \in DOMAIN versions /\ Head(versions) = versions[1] /\ Head(versions) \in 0 .. 5
  BY DEF IInv, TypeOK, dbVersionReq
<1>2. Schema(Head(versions)) \subseteq objects
  BY <1>1 DEF IInv, VersionHonest
<1>3. objects \subseteq Object
  BY DEF IInv, TypeOK
<1> QED BY <1>1, <1>2, <1>3, Schemas

\* updateDb goes round its loop, or leaves it.
LEMMA LoopStep ==
  ASSUME IInv, NEW q \in Request, versions # <<>>, pc[q] # "count",
         LoopWith(q, Head(versions)), UNCHANGED <<database, cuts>>
  PROVE  IInv'
<1> DEFINE k == Head(versions)
<1>1. k \in 0 .. 5 /\ Schema(k) \subseteq objects /\ (k = 5 => objects = Object)
  BY FirstVersion
<1> HIDE DEF k
<1>2. /\ dbVersion' = [dbVersion EXCEPT ![q] = k] /\ step' = [step EXCEPT ![q] = 1]
      /\ pc' = [pc EXCEPT ![q] = IF k = 5 THEN "users" ELSE "run"]
  <2>1. DOMAIN Update = 0 .. 4
    BY DEF Update, dbVersionReq
  <2>2. /\ dbVersion' = [dbVersion EXCEPT ![q] = k] /\ step' = [step EXCEPT ![q] = 1]
        /\ pc' = [pc EXCEPT ![q] = IF k = 5 THEN "users"
                                    ELSE IF k \in DOMAIN Update THEN "run" ELSE "failed"]
    BY DEF LoopWith, Goto, UpToDate, dbVersionReq, k
  <2>3. k = 5 \/ k \in DOMAIN Update
    BY <1>1, <2>1
  <2> QED BY <2>2, <2>3
<1>3. TypeOK'
  BY <1>1, <1>2 DEF IInv, TypeOK, database, dbVersionReq
<1>4. SawVersion' /\ VersionHonest' /\ OneConnection'
  BY <1>2 DEF IInv, SawVersion, VersionHonest, OneConnection, database
<1>5. Behind'
  <2> SUFFICES ASSUME NEW p \in Request, pc'[p] = "run"
               PROVE /\ dbVersion'[p] \in 0 .. 4
                     /\ step'[p] \in 1 .. Len(Update[dbVersion'[p]])
                     /\ Schema(dbVersion'[p]) \subseteq objects
                     /\ \A j \in 1 .. step'[p] - 1 :
                          Update[dbVersion'[p]][j].makes \subseteq objects
    BY DEF Behind, database, Update
  <2>1. CASE p = q
    BY <1>1, <1>2, <2>1, FileLengths, SMTT(30) DEF IInv, TypeOK
  <2>2. CASE p # q
    BY <1>2, <2>2 DEF IInv, TypeOK, Behind
  <2> QED BY <2>1, <2>2
<1>6. UpgradedIsComplete'
  BY <1>1, <1>2 DEF IInv, TypeOK, UpgradedIsComplete, Upgraded, database
<1>7. OneInserter'
  <2>1. \A p \in Request : Inserting(p)' => Inserting(p)
    BY <1>2 DEF IInv, TypeOK, Inserting
  <2> QED BY <2>1 DEF IInv, OneInserter, database
<1> QED BY <1>3, <1>4, <1>5, <1>6, <1>7 DEF IInv

\* updateWithin runs a statement.
LEMMA ExecuteStep ==
  ASSUME IInv, NEW q \in Request, Execute(q)
  PROVE  IInv'
<1> DEFINE k == dbVersion[q]
           i == step[q]
           s == Update[k][i]
           n == Len(Update[k])
<1>1. /\ pc[q] = "run" /\ k \in 0 .. 4 /\ i \in 1 .. n /\ n \in Nat \ {0}
      /\ DOMAIN Update[k] = 1 .. n
      /\ Schema(k) \subseteq objects
      /\ \A j \in 1 .. i - 1 : Update[k][j].makes \subseteq objects
      /\ versions # <<>>
  BY FileLengths DEF Execute, IInv, Behind, SawVersion
<1>2. /\ s.does = "version" => i = n /\ s.to = k + 1
      /\ s.does = "insert" <=> k = 0 /\ i = 2
      /\ "connection" \in s.makes <=> k = 0 /\ i = 1
      /\ k = 0 /\ i = 1 => s.does = "create"
  BY <1>1, UpdateFiles
<1>3. s.makes \subseteq MadeBy(k) /\ MadeBy(k) \subseteq Object
  BY <1>1, Schemas DEF MadeBy
<1>4. UNCHANGED <<users, rights, dbVersion, cuts>>
  BY DEF Execute
<1>5. CASE Succeeds(s)
  <2>1. /\ objects' = objects \cup s.makes
        /\ connections' = IF s.does = "insert" THEN connections + 1 ELSE connections
        /\ versions' = IF s.does = "version" THEN AllSetTo(s.to) ELSE versions
        /\ step' = IF i = n THEN step ELSE [step EXCEPT ![q] = @ + 1]
        /\ pc' = [pc EXCEPT ![q] = IF i = n THEN "verify" ELSE "run"]
    BY <1>5 DEF Execute, Goto
  <2>2. s.does = "create" => s.makes \cap objects = {}
    BY <1>5 DEF Succeeds
  <2> HIDE DEF k, i, s, n
  <2>2a. k = dbVersion[q] /\ i = step[q] /\ n = Len(Update[k]) /\ s = Update[k][i]
    BY DEF k, i, s, n
  <2>3. /\ versions' \in Seq(0 .. 5) /\ versions' # <<>>
        /\ DOMAIN versions' = DOMAIN versions
    <3>1. versions \in Seq(0 .. 5)
      BY DEF IInv, TypeOK, dbVersionReq
    <3>2. CASE s.does = "version"
      <4>1. k + 1 \in 0 .. 5
        BY <1>1
      <4>2. versions' = [j \in DOMAIN versions |-> k + 1]
        BY <1>2, <2>1, <3>2 DEF AllSetTo
      <4> QED BY <1>1, <3>1, <4>1, <4>2
    <3>3. CASE s.does # "version"
      BY <1>1, <2>1, <3>1, <3>3
    <3> QED BY <3>2, <3>3
  <2>4. TypeOK'
    <3>1. objects' \subseteq Object /\ connections' \in Nat
      BY <1>3, <2>1 DEF IInv, TypeOK
    <3> QED BY <1>1, <1>4, <2>1, <2>3, <3>1 DEF IInv, TypeOK, dbVersionReq
  <2>5. SawVersion' /\ UpgradedIsComplete'
    BY <1>1, <2>1, <2>3, <2>4 DEF IInv, TypeOK, SawVersion, UpgradedIsComplete, Upgraded
  <2>6. VersionHonest'
    <3>1. CASE s.does = "version"
      <4>1. MadeBy(k) \subseteq objects'
        <5>1. \A j \in 1 .. n : Update[k][j].makes \subseteq objects'
          BY <1>1, <1>2, <2>1, <2>2a, <3>1, SMTT(40)
        <5> QED BY <1>1, <5>1 DEF MadeBy
      <4>2. Schema(k + 1) \subseteq objects'
        BY <1>1, <2>1, <4>1, Schemas
      <4>3. \A j \in DOMAIN versions' : versions'[j] = k + 1
        BY <1>2, <2>1, <3>1 DEF AllSetTo
      <4> QED BY <4>2, <4>3 DEF VersionHonest, Schema, MadeBy, Update
    <3>2. CASE s.does # "version"
      BY <2>1, <3>2 DEF IInv, VersionHonest
    <3> QED BY <3>1, <3>2
  <2>7. Behind'
    <3> SUFFICES ASSUME NEW p \in Request, pc'[p] = "run"
                 PROVE /\ dbVersion[p] \in 0 .. 4
                       /\ step'[p] \in 1 .. Len(Update[dbVersion[p]])
                       /\ Schema(dbVersion[p]) \subseteq objects'
                       /\ \A j \in 1 .. step'[p] - 1 :
                            Update[dbVersion[p]][j].makes \subseteq objects'
      BY <1>4 DEF Behind
    <3>1. CASE p = q
      <4>1. i # n /\ step'[q] = i + 1
        BY <2>1, <2>2a, <3>1 DEF IInv, TypeOK
      <4>2. \A j \in 1 .. i : Update[k][j].makes \subseteq objects'
        BY <1>1, <2>1, <2>2a
      <4>3. step'[q] \in 1 .. n /\ 1 .. step'[q] - 1 = 1 .. i
        BY <1>1, <4>1
      <4>4. Schema(k) \subseteq objects'
        BY <1>1, <2>1
      <4> QED BY <1>1, <2>2a, <3>1, <4>2, <4>3, <4>4
    <3>2. CASE p # q
      BY <2>1, <3>2 DEF IInv, TypeOK, Behind
    <3> QED BY <3>1, <3>2
  <2>8. OneInserter' /\ OneConnection'
    <3>1. \A p \in Request \ {q} : Inserting(p)' <=> Inserting(p)
      BY <1>4, <2>1 DEF IInv, TypeOK, Inserting
    <3>2. Inserting(q) <=> k = 0 /\ i = 2
      BY <1>1, <2>2a DEF Inserting
    <3>3. Inserting(q)' => k = 0 /\ i = 1
      BY <1>1, <1>4, <2>1, <2>2a DEF IInv, TypeOK, Inserting
    <3>4. CASE k = 0 /\ i = 1
      <4>1. "connection" \notin objects /\ connections' = connections
        BY <1>2, <2>1, <2>2, <3>4
      <4> QED BY <1>2, <2>1, <3>1, <3>4, <4>1 DEF IInv, OneInserter, OneConnection
    <3>5. CASE k = 0 /\ i = 2
      <4>1. connections = 0 /\ connections' = 1 /\ "connection" \in objects
        BY <1>2, <2>1, <3>2, <3>5 DEF IInv, OneInserter
      <4>2. \A p \in Request : ~Inserting(p)'
        BY <3>1, <3>2, <3>3, <3>5 DEF IInv, OneInserter
      <4> QED BY <2>1, <4>1, <4>2 DEF OneInserter, OneConnection
    <3>6. CASE ~(k = 0 /\ i \in {1, 2})
      BY <1>2, <2>1, <3>1, <3>3, <3>6 DEF IInv, OneInserter, OneConnection
    <3> QED BY <3>4, <3>5, <3>6
  <2> QED BY <2>4, <2>5, <2>6, <2>7, <2>8 DEF IInv
<1>6. CASE ~Succeeds(s)
  <2>1. /\ pc' = [pc EXCEPT ![q] = "reread"]
        /\ UNCHANGED <<objects, connections, versions, step>>
    BY <1>6 DEF Execute, Goto
  <2>2. TypeOK'
    BY <1>4, <2>1 DEF IInv, TypeOK
  <2> QED BY <1>1, <1>4, <2>1, <2>2, QuietStep DEF IInv
<1> QED BY <1>5, <1>6

\* Every step of every request keeps the invariant.
LEMMA NextIInv == IInv /\ [Next]_vars => IInv'
<1> SUFFICES ASSUME IInv, [Next]_vars PROVE IInv'
  OBVIOUS
<1>1. CASE UNCHANGED vars
  BY <1>1 DEF IInv, TypeOK, SawVersion, VersionHonest, Behind, UpgradedIsComplete,
              Upgraded, OneInserter, Inserting, OneConnection, vars, database
<1>2. ASSUME NEW q \in Request, Steps(q) \/ Cut(q) PROVE IInv'
  <2>1. CASE CountVersions(q)
    <3>1. TypeOK'
      BY <2>1 DEF CountVersions, Goto, IInv, TypeOK, database
    <3> QED BY <2>1, <3>1, QuietStep DEF CountVersions, Goto, IInv, database
  <2>2. CASE InsertVersion(q)
    <3>1. /\ versions' = Append(versions, 0) /\ pc' = [pc EXCEPT ![q] = "read"]
          /\ UNCHANGED <<objects, connections, users, rights, dbVersion, step, cuts>>
      BY <2>2 DEF InsertVersion, Goto
    <3>2. versions \in Seq(0 .. 5)
      BY DEF IInv, TypeOK, dbVersionReq
    <3>3. versions' \in Seq(0 .. 5) /\ versions' # <<>>
      BY <3>1, <3>2
    <3>4. TypeOK'
      BY <3>1, <3>3 DEF IInv, TypeOK, dbVersionReq
    <3>5. VersionHonest'
      <4>1. \A j \in DOMAIN versions' :
              versions'[j] = 0 \/ (j \in DOMAIN versions /\ versions'[j] = versions[j])
        BY <3>1, <3>2
      <4> QED BY <3>1, <4>1, Schemas DEF IInv, VersionHonest
    <3>6. SawVersion' /\ Behind' /\ UpgradedIsComplete'
      BY <3>1, <3>3 DEF IInv, TypeOK, SawVersion, Behind, UpgradedIsComplete, Upgraded
    <3>7. OneInserter' /\ OneConnection'
      BY <3>1 DEF IInv, TypeOK, OneInserter, Inserting, OneConnection
    <3> QED BY <3>4, <3>5, <3>6, <3>7 DEF IInv
  <2>3. CASE ReadVersion(q)
    <3>1. pc[q] = "read" /\ versions # <<>>
      BY <2>3 DEF ReadVersion, IInv, SawVersion
    <3> QED BY <2>3, <3>1, LoopStep DEF ReadVersion
  <2>4. CASE Execute(q)
    BY <2>4, ExecuteStep
  <2>5. CASE Verify(q)
    <3>1. pc[q] = "verify" /\ versions # <<>>
      BY <2>5 DEF Verify, IInv, SawVersion
    <3>2. TypeOK'
      BY <2>5 DEF Verify, Goto, IInv, TypeOK, Ended, database
    <3> QED BY <2>5, <3>1, <3>2, QuietStep DEF Verify, Goto, IInv, database
  <2>6. CASE Reread(q)
    <3>1. pc[q] = "reread" /\ versions # <<>>
      BY <2>6 DEF Reread, IInv, SawVersion
    <3>2. CASE Stuck(q)
      <4>1. TypeOK'
        BY <2>6, <3>2 DEF Reread, Goto, IInv, TypeOK, Ended, database
      <4> QED BY <2>6, <3>2, <4>1, QuietStep DEF Reread, Goto, IInv, database
    <3>3. CASE ~Stuck(q)
      BY <2>6, <3>1, <3>3, LoopStep DEF Reread
    <3> QED BY <3>2, <3>3
  <2>7. CASE CountUsers(q)
    <3>1. objects = Object
      BY <2>7 DEF CountUsers, IInv, UpgradedIsComplete, Upgraded
    <3>2. TypeOK'
      BY <2>7 DEF CountUsers, Goto, IInv, TypeOK, Ended, database
    <3> QED BY <2>7, <3>1, <3>2, QuietStep DEF CountUsers, Goto, IInv, database
  <2>8. CASE InsertUser(q)
    <3>1. objects = Object
      BY <2>8 DEF InsertUser, IInv, UpgradedIsComplete, Upgraded
    <3>2. TypeOK'
      BY <2>8 DEF InsertUser, Goto, IInv, TypeOK
    <3> QED BY <2>8, <3>1, <3>2, QuietStep DEF InsertUser, Goto, IInv
  <2>9. CASE Allow(q)
    <3>1. objects = Object
      BY <2>9 DEF Allow, IInv, UpgradedIsComplete, Upgraded
    <3>2. TypeOK'
      BY <2>9 DEF Allow, Goto, IInv, TypeOK, Ended
    <3> QED BY <2>9, <3>1, <3>2, QuietStep DEF Allow, Goto, IInv
  <2>10. CASE Cut(q)
    <3>1. TypeOK'
      BY <2>10, DbUpdaterAssumption DEF Cut, Goto, IInv, TypeOK, Ended, database
    <3> QED BY <2>10, <3>1, QuietStep DEF Cut, Goto, IInv, database
  <2> QED BY <1>2, <2>1, <2>2, <2>3, <2>4, <2>5, <2>6, <2>7, <2>8, <2>9, <2>10 DEF Steps
<1> QED BY <1>1, <1>2 DEF Next

\* The invariant holds throughout.
LEMMA Invariance == Spec => []IInv
BY InitIInv, NextIInv, PTL DEF Spec

-----------------------------------------------------------------------------
\* The rows, tables, users and requests are what they should be, for any
\* number of requests at once.
THEOREM DbTypeCorrect == Spec => []TypeOK
<1>1. IInv => TypeOK
  BY DEF IInv
<1> QED BY <1>1, Invariance, PTL

\* The version row never claims an update file that has not been run to its
\* end by updateWithin, whatever the requests that run it at the same time and
\* wherever they are cut off.
THEOREM VersionIsHonest == Spec => []VersionHonest
<1>1. IInv => VersionHonest
  BY DEF IInv
<1> QED BY <1>1, Invariance, PTL

\* Whoever gets past updateDb finds the whole schema, and keeps it.
THEOREM UpgradedFindsSchema == Spec => []UpgradedIsComplete
<1>1. IInv => UpgradedIsComplete
  BY DEF IInv
<1> QED BY <1>1, Invariance, PTL

\* The first update file inserts its default connection at most once.
THEOREM ConnectionInsertedOnce == Spec => []OneConnection
<1>1. IInv => OneConnection
  BY DEF IInv
<1> QED BY <1>1, Invariance, PTL

-----------------------------------------------------------------------------
\* A request that is adding a user has inserted it, and allows it the two
\* privileges in order.
Adding ==
  /\ \A q \in Request : pc[q] \in {"getdata", "putdata"} => q \in users
  /\ \A q \in Request : pc[q] = "putdata" => <<q, "getdata">> \in rights

LEMMA UserInit == Init => Adding /\ DefaultUserReady
BY DEF Init, Adding, DefaultUserReady

\* The steps before the users are looked at leave users and rights alone.
LEMMA UpdateQuiet ==
  ASSUME IInv, NEW q \in Request,
         \/ CountVersions(q) \/ InsertVersion(q) \/ ReadVersion(q)
         \/ Execute(q) \/ Verify(q) \/ Reread(q)
  PROVE  /\ UNCHANGED <<users, rights>>
         /\ \A p \in Request \ {q} : pc'[p] = pc[p]
         /\ pc[q] \in {"count", "insert", "read", "run", "verify", "reread"}
         /\ pc'[q] \in {"insert", "read", "run", "verify", "reread", "users", "failed"}
<1> USE DEF IInv, TypeOK, Goto, database
<1>1. CASE CountVersions(q) \/ InsertVersion(q)
  BY <1>1 DEF CountVersions, InsertVersion
<1>2. CASE ReadVersion(q)
  BY <1>2 DEF ReadVersion, LoopWith
<1>3. CASE Execute(q)
  BY <1>3 DEF Execute
<1>4. CASE Verify(q)
  BY <1>4 DEF Verify
<1>5. CASE Reread(q)
  BY <1>5 DEF Reread, LoopWith
<1> QED BY <1>1, <1>2, <1>3, <1>4, <1>5

\* Every request that adds a user goes on until it may get and put data.
LEMMA UserStep == IInv /\ Adding /\ DefaultUserReady /\ [Next]_vars => Adding' /\ DefaultUserReady'
<1> SUFFICES ASSUME IInv, Adding, DefaultUserReady, [Next]_vars PROVE Adding' /\ DefaultUserReady'
  OBVIOUS
<1> USE DEF Adding, DefaultUserReady, database
<1>1. DOMAIN pc = Request /\ pc = [q \in Request |-> pc[q]]
  BY DEF IInv, TypeOK
<1>2. CASE UNCHANGED vars
  BY <1>2 DEF vars
<1>3. ASSUME NEW q \in Request, Steps(q) \/ Cut(q) PROVE Adding' /\ DefaultUserReady'
  <2>1. CASE \/ CountVersions(q) \/ InsertVersion(q) \/ ReadVersion(q)
             \/ Execute(q) \/ Verify(q) \/ Reread(q)
    BY <2>1, UpdateQuiet
  <2>2. CASE CountUsers(q)
    BY <1>1, <2>2 DEF CountUsers, Goto
  <2>3. CASE InsertUser(q)
    BY <1>1, <2>3 DEF InsertUser, Goto
  <2>4. CASE Allow(q)
    BY <1>1, <2>4 DEF Allow, Goto
  <2>5. CASE Cut(q)
    BY <1>1, <2>5 DEF Cut, Goto, Ended
  <2> QED BY <1>3, <2>1, <2>2, <2>3, <2>4, <2>5 DEF Steps
<1> QED BY <1>2, <1>3 DEF Next

\* A request is served only when there is a user, and every user may get and
\* put data but for the ones being added: whoever counts no users adds its own.
THEOREM DefaultUserIsReady == Spec => []DefaultUserReady
<1>1. Spec => [](Adding /\ DefaultUserReady)
  BY UserInit, UserStep, Invariance, PTL DEF Spec
<1> QED BY <1>1, PTL

-----------------------------------------------------------------------------
\* The files whose first statement succeeds once, and the requests past it.
Exclusive == {0, 1, 2, 4}
Past(q, k) == pc[q] = "run" /\ dbVersion[q] = k /\ step[q] > 1

\* While one is past it, nobody is ahead of it, and nobody else is with it.
NobodyAhead ==
  \A q \in Request : \A k \in Exclusive : Past(q, k) =>
    /\ \A i \in DOMAIN versions : versions[i] <= k
    /\ \A p \in Request : pc[p] = "run" => dbVersion[p] <= k
    /\ \A p \in Request : Past(p, k) => p = q

\* The first statement of such a file makes something.
LEMMA FirstStatement ==
  ASSUME NEW k \in Exclusive
  PROVE  /\ k \in 0 .. 4 /\ Len(Update[k]) > 1
         /\ Update[k][1].does \in {"create", "add"} /\ Update[k][1].makes # {}
<1>1. CASE k = 0
  BY <1>1, FilesByVersion DEF Update0, Create
<1>2. CASE k = 1
  BY <1>2, FilesByVersion DEF Update1, Add
<1>3. CASE k = 2
  BY <1>3, FilesByVersion DEF Update2, Add
<1>4. CASE k = 4
  BY <1>4, FilesByVersion DEF Update4, Add
<1> QED BY <1>1, <1>2, <1>3, <1>4 DEF Exclusive

\* Whoever succeeds with it has nobody ahead: a version ahead, and a file
\* ahead, stand for what it makes.
LEMMA FirstSucceeds ==
  ASSUME IInv, NEW k \in Exclusive, Succeeds(Update[k][1])
  PROVE  /\ \A i \in DOMAIN versions : versions[i] <= k
         /\ \A p \in Request : pc[p] = "run" => dbVersion[p] <= k
         /\ \A p \in Request : ~Past(p, k)
<1>1. PICK x \in Update[k][1].makes : x \notin objects
  BY FirstStatement DEF Succeeds
<1>2. \A j \in 0 .. 5 : j > k => x \in Schema(j)
  <2>1. 1 \in DOMAIN Update[k]
    BY FirstStatement, FileLengths
  <2>2. x \in MadeBy(k)
    BY <1>1, <2>1 DEF MadeBy
  <2>3. ASSUME NEW j \in 0 .. 5, j > k PROVE k \in 0 .. j - 1
    BY <2>3, FirstStatement
  <2> QED BY <2>2, <2>3 DEF Schema
<1>3. ASSUME NEW i \in DOMAIN versions PROVE versions[i] <= k
  <2>1. versions[i] \in 0 .. 5 /\ Schema(versions[i]) \subseteq objects
    BY DEF IInv, TypeOK, VersionHonest, dbVersionReq
  <2> QED BY <1>1, <1>2, <2>1, FirstStatement
<1>4. ASSUME NEW p \in Request, pc[p] = "run" PROVE dbVersion[p] <= k
  <2>1. dbVersion[p] \in 0 .. 4 /\ Schema(dbVersion[p]) \subseteq objects
    BY <1>4 DEF IInv, Behind
  <2> QED BY <1>1, <1>2, <2>1, FirstStatement
<1>5. ASSUME NEW p \in Request, Past(p, k) PROVE FALSE
  <2>1. /\ step[p] \in Nat /\ step[p] > 1
        /\ \A j \in 1 .. step[p] - 1 : Update[k][j].makes \subseteq objects
    BY <1>5 DEF IInv, TypeOK, Behind, Past
  <2>2. 1 \in 1 .. step[p] - 1
    BY <2>1
  <2> QED BY <1>1, <2>1, <2>2
<1> QED BY <1>3, <1>4, <1>5

\* What a statement does to the versions and to the request that runs it.
LEMMA ExecuteEffect ==
  ASSUME IInv, NEW q \in Request, Execute(q)
  PROVE  /\ pc[q] = "run" /\ dbVersion[q] \in 0 .. 4 /\ UNCHANGED dbVersion
         /\ step[q] \in 1 .. Len(Update[dbVersion[q]]) /\ Len(Update[dbVersion[q]]) \in Nat
         /\ \A p \in Request \ {q} : pc'[p] = pc[p] /\ step'[p] = step[p]
         /\ pc'[q] = "run" => /\ Succeeds(Update[dbVersion[q]][step[q]])
                              /\ step'[q] = step[q] + 1 /\ step[q] < Len(Update[dbVersion[q]])
         /\ \/ versions' = versions
            \/ versions' = AllSetTo(dbVersion[q] + 1) /\ step[q] = Len(Update[dbVersion[q]])
               /\ pc'[q] = "verify"
<1> DEFINE k == dbVersion[q]
           i == step[q]
           s == Update[k][i]
           n == Len(Update[k])
<1>1. pc[q] = "run" /\ k \in 0 .. 4 /\ i \in 1 .. n /\ n \in Nat \ {0}
  BY FileLengths DEF Execute, IInv, Behind
<1>2. s.does = "version" => i = n /\ s.to = k + 1
  BY <1>1, UpdateFiles
<1>3. CASE Succeeds(s)
  <2>1. /\ versions' = IF s.does = "version" THEN AllSetTo(s.to) ELSE versions
        /\ step' = IF i = n THEN step ELSE [step EXCEPT ![q] = @ + 1]
        /\ pc' = [pc EXCEPT ![q] = IF i = n THEN "verify" ELSE "run"]
        /\ UNCHANGED dbVersion
    BY <1>3 DEF Execute, Goto
  <2> HIDE DEF s, n
  <2> QED BY <1>1, <1>2, <1>3, <2>1 DEF IInv, TypeOK, s, n
<1>4. CASE ~Succeeds(s)
  <2>1. pc' = [pc EXCEPT ![q] = "reread"] /\ UNCHANGED <<versions, step, dbVersion>>
    BY <1>4 DEF Execute, Goto
  <2> QED BY <1>1, <2>1 DEF IInv, TypeOK
<1> QED BY <1>3, <1>4

\* The other steps start a file from its first statement, with a version that
\* is in the first row, and add no version but 0.
LEMMA OtherEffect ==
  ASSUME IInv, NEW q \in Request, Steps(q) \/ Cut(q), ~Execute(q)
  PROVE  /\ \A p \in Request \ {q} : pc'[p] = pc[p] /\ step'[p] = step[p] /\ dbVersion'[p] = dbVersion[p]
         /\ pc'[q] = "run" => step'[q] = 1 /\ versions # <<>> /\ dbVersion'[q] = Head(versions)
         /\ \/ versions' = versions
            \/ versions' = Append(versions, 0)
<1> USE DEF IInv, TypeOK, Goto, database
<1>1. CASE ReadVersion(q) \/ Reread(q)
  <2>1. pc[q] \in {"read", "reread"} /\ versions # <<>> /\ versions' = versions
    BY <1>1 DEF ReadVersion, Reread, SawVersion
  <2>2. CASE LoopWith(q, Head(versions))
    BY <2>1, <2>2 DEF LoopWith
  <2>3. CASE pc' = [pc EXCEPT ![q] = "failed"] /\ UNCHANGED <<dbVersion, step>>
    BY <2>1, <2>3
  <2> QED BY <1>1, <2>2, <2>3 DEF ReadVersion, Reread
<1>2. CASE CountVersions(q)
  BY <1>2 DEF CountVersions
<1>3. CASE InsertVersion(q)
  BY <1>3 DEF InsertVersion
<1>4. CASE Verify(q)
  BY <1>4 DEF Verify
<1>5. CASE CountUsers(q) \/ InsertUser(q) \/ Allow(q)
  BY <1>5 DEF CountUsers, InsertUser, Allow
<1>6. CASE Cut(q)
  BY <1>6 DEF Cut
<1> QED BY <1>1, <1>2, <1>3, <1>4, <1>5, <1>6 DEF Steps

\* Nobody gets ahead of a request that is past the first statement of a file.
LEMMA AheadStep == IInv /\ NobodyAhead /\ [Next]_vars => NobodyAhead'
<1> SUFFICES ASSUME IInv, NobodyAhead, [Next]_vars PROVE NobodyAhead'
  OBVIOUS
<1> USE DEF Exclusive
<1>1. CASE UNCHANGED vars
  BY <1>1 DEF vars, database, NobodyAhead, Past
<1>2. ASSUME NEW q \in Request, Execute(q) PROVE NobodyAhead'
  <2> SUFFICES ASSUME NEW r \in Request, NEW k \in Exclusive, Past(r, k)'
               PROVE  /\ \A i \in DOMAIN versions' : versions'[i] <= k
                      /\ \A p \in Request : pc'[p] = "run" => dbVersion'[p] <= k
                      /\ \A p \in Request : Past(p, k)' => p = r
    BY DEF NobodyAhead
  <2>1. \A p \in Request : pc'[p] = "run" => pc[p] = "run" /\ dbVersion'[p] = dbVersion[p]
    BY <1>2, ExecuteEffect
  <2>2. \A p \in Request : Past(p, k)' => Past(p, k) \/ (p = q /\ k = dbVersion[q] /\ step[q] = 1)
    BY <1>2, ExecuteEffect DEF Past
  <2>3. CASE r = q /\ step[q] = 1
    <3>1. Succeeds(Update[k][1]) /\ versions' = versions
      BY <1>2, <2>3, ExecuteEffect DEF Past
    <3> QED BY <2>1, <2>2, <2>3, <3>1, FirstSucceeds
  <2>4. CASE Past(r, k)
    <3>1. ~(k = dbVersion[q] /\ step[q] = 1 /\ pc'[q] = "run")
      BY <1>2, <2>4, ExecuteEffect, FirstSucceeds DEF Past
    <3>2. \A p \in Request : Past(p, k)' => Past(p, k)
      BY <2>2, <3>1 DEF Past
    <3>3. dbVersion[q] <= k /\ (dbVersion[q] = k /\ step[q] > 1 => q = r)
      BY <1>2, <2>4, ExecuteEffect DEF NobodyAhead, Past
    <3>4. CASE versions' = versions
      BY <2>1, <2>4, <3>2, <3>4 DEF NobodyAhead
    <3>5. CASE versions' # versions
      <4>1. versions' = AllSetTo(dbVersion[q] + 1) /\ step[q] = Len(Update[dbVersion[q]]) /\ pc'[q] = "verify"
        BY <1>2, <3>5, ExecuteEffect
      <4>2. dbVersion[q] # k
        BY <1>2, <3>3, <4>1, ExecuteEffect, FirstStatement DEF Past
      <4>3. dbVersion[q] + 1 <= k
        BY <1>2, <3>3, <4>2, ExecuteEffect
      <4>4. \A i \in DOMAIN versions' : versions'[i] <= k
        BY <4>1, <4>3 DEF AllSetTo
      <4> QED BY <2>1, <2>4, <3>2, <4>4 DEF NobodyAhead
    <3> QED BY <3>4, <3>5
  <2> QED BY <2>2, <2>3, <2>4
<1>3. ASSUME NEW q \in Request, Steps(q) \/ Cut(q), ~Execute(q) PROVE NobodyAhead'
  <2> SUFFICES ASSUME NEW r \in Request, NEW k \in Exclusive, Past(r, k)'
               PROVE  /\ \A i \in DOMAIN versions' : versions'[i] <= k
                      /\ \A p \in Request : pc'[p] = "run" => dbVersion'[p] <= k
                      /\ \A p \in Request : Past(p, k)' => p = r
    BY DEF NobodyAhead
  <2>1. \A p \in Request : Past(p, k)' => Past(p, k)
    BY <1>3, OtherEffect DEF Past
  <2>2. \A i \in DOMAIN versions : versions[i] <= k
    BY <2>1 DEF NobodyAhead
  <2>3. versions \in Seq(0 .. 5)
    BY DEF IInv, TypeOK, dbVersionReq
  <2>4. versions # <<>> => Head(versions) <= k
    BY <2>2, <2>3
  <2>5. \A i \in DOMAIN versions' : versions'[i] <= k
    <3>1. CASE versions' = versions
      BY <2>2, <3>1
    <3>2. CASE versions' = Append(versions, 0)
      BY <2>2, <2>3, <3>2
    <3> QED BY <1>3, <3>1, <3>2, OtherEffect
  <2>6. \A p \in Request : pc'[p] = "run" => dbVersion'[p] <= k
    BY <1>3, <2>1, <2>4, OtherEffect DEF NobodyAhead
  <2> QED BY <2>1, <2>5, <2>6 DEF NobodyAhead
<1> QED BY <1>1, <1>2, <1>3 DEF Next, Steps

\* The version is set back from 5 to 4 only, by a file that can be run twice.
THEOREM SetBackOnlyByTheChange == Spec => SetBackOnlyByChange
<1> DEFINE A == versions # <<>> /\ Head(versions') < Head(versions) =>
                  Head(versions) = 5 /\ Head(versions') = 4
<1>1. Init => NobodyAhead
  BY DEF Init, NobodyAhead, Past
<1>2. IInv /\ NobodyAhead /\ [Next]_vars => [A]_vars
  <2> SUFFICES ASSUME IInv, NobodyAhead, [Next]_vars,
                      versions # <<>>, Head(versions') < Head(versions)
               PROVE  Head(versions) = 5 /\ Head(versions') = 4
    OBVIOUS
  <2>1. versions \in Seq(0 .. 5) /\ Head(versions) = versions[1] /\ 1 \in DOMAIN versions
        /\ Head(versions) \in 0 .. 5
    BY DEF IInv, TypeOK, dbVersionReq
  <2>2. versions' # versions
    BY <2>1
  <2>3. PICK q \in Request : Execute(q)
    <3>1. PICK q \in Request : Steps(q) \/ Cut(q)
      BY <2>2 DEF Next, vars, database
    <3>2. CASE ~Execute(q)
      <4>1. versions' = Append(versions, 0)
        BY <2>2, <3>1, <3>2, OtherEffect
      <4>2. Head(versions') = Head(versions)
        BY <2>1, <4>1
      <4> QED BY <2>1, <4>2
    <3> QED BY <3>1, <3>2
  <2> DEFINE k == dbVersion[q]
  <2>4. /\ versions' = AllSetTo(k + 1) /\ step[q] = Len(Update[k]) /\ k \in 0 .. 4
        /\ pc[q] = "run"
    BY <2>2, <2>3, ExecuteEffect
  <2>5. Head(versions') = k + 1
    <3>1. versions' = [i \in 1 .. Len(versions) |-> k + 1] /\ Len(versions) \in Nat \ {0}
      BY <2>1, <2>4 DEF AllSetTo
    <3>2. versions' \in Seq(0 .. 5) /\ 1 \in 1 .. Len(versions) /\ versions' # <<>>
      BY <2>4, <3>1
    <3> QED BY <3>1, <3>2
  <2>6. k \notin Exclusive
    <3>1. k \in Exclusive => Past(q, k)
      BY <2>4, FirstStatement DEF Past
    <3>2. k \in Exclusive => Head(versions) <= k
      BY <2>1, <3>1 DEF NobodyAhead
    <3> QED BY <2>1, <2>4, <2>5, <3>2
  <2> QED BY <2>1, <2>4, <2>5, <2>6 DEF Exclusive
<1>3. Spec => [][A]_vars
  BY <1>1, <1>2, AheadStep, Invariance, PTL DEF Spec
<1> QED BY <1>3 DEF SetBackOnlyByChange

-----------------------------------------------------------------------------
\* No other request has started.
Solo(q) == \A p \in Request \ {q} : pc[p] = "count"

\* The version of the first row; no row stands for an empty database.
HeadVersion == IF versions = <<>> THEN 0 ELSE Head(versions)

\* What there is before a statement that nobody else has run.
Before(k, i) == Schema(k) \cup UNION {Update[k][j].makes : j \in 1 .. i - 1}

\* A request alone finds what it has made itself, and no more.
Undisturbed(q) ==
  /\ pc[q] \in {"count", "insert", "read"} => objects = Schema(HeadVersion)
  /\ pc[q] = "insert" => versions = <<>>
  /\ pc[q] = "run" => HeadVersion = dbVersion[q] /\ objects = Before(dbVersion[q], step[q])
  /\ pc[q] \in {"verify", "reread"} => HeadVersion = dbVersion[q] + 1 /\ objects = Schema(HeadVersion)
  /\ pc[q] # "failed"

Alone == \A q \in Request : Solo(q) => Undisturbed(q)

\* The schemas of the versions, spelled out.
LEMMA SchemaSets ==
  /\ Schema(1) = {"connection", "user", "datarecord", "priveledge"}
  /\ Schema(2) = Schema(1) \cup {"session"} /\ Schema(3) = Schema(2) \cup {"target"}
  /\ Schema(4) = Schema(3) \cup {"doubleQuota"}
<1>1. MadeBy(0) = {"connection", "user", "datarecord", "priveledge"}
  <2>1. /\ Update[0][1].makes = {"connection"} /\ Update[0][2].makes = {}
        /\ Update[0][3].makes = {"user"} /\ Update[0][4].makes = {"datarecord"}
        /\ Update[0][5].makes = {"priveledge"} /\ Update[0][6].makes = {}
    BY FilesByVersion DEF Update0, Create, Insert, SetVersion
  <2>2. DOMAIN Update[0] = 1 .. 6
    BY FilesByVersion DEF Update0
  <2>3. 1 .. 6 = {1, 2, 3, 4, 5, 6}
    OBVIOUS
  <2> QED BY <2>1, <2>2, <2>3 DEF MadeBy
<1>2. ASSUME NEW k \in 1 .. 3, NEW x,
             Update[k][1].makes = {x}, Update[k][2].makes = {}, DOMAIN Update[k] = 1 .. 2
      PROVE  MadeBy(k) = {x}
  <2>1. 1 .. 2 = {1, 2}
    OBVIOUS
  <2> QED BY <1>2, <2>1 DEF MadeBy
<1>3. MadeBy(1) = {"session"}
  <2>1. Update[1][1].makes = {"session"} /\ Update[1][2].makes = {} /\ DOMAIN Update[1] = 1 .. 2
    BY FilesByVersion DEF Update1, Add, SetVersion
  <2> QED BY <1>2, <2>1
<1>4. MadeBy(2) = {"target"}
  <2>1. Update[2][1].makes = {"target"} /\ Update[2][2].makes = {} /\ DOMAIN Update[2] = 1 .. 2
    BY FilesByVersion DEF Update2, Add, SetVersion
  <2> QED BY <1>2, <2>1
<1>5. MadeBy(3) = {"doubleQuota"}
  <2>1. Update[3][1].makes = {"doubleQuota"} /\ Update[3][2].makes = {} /\ DOMAIN Update[3] = 1 .. 2
    BY FilesByVersion DEF Update3, Change, SetVersion
  <2> QED BY <1>2, <2>1
<1>6. /\ Schema(1) = Schema(0) \cup MadeBy(0) /\ Schema(2) = Schema(1) \cup MadeBy(1)
      /\ Schema(3) = Schema(2) \cup MadeBy(2) /\ Schema(4) = Schema(3) \cup MadeBy(3)
  BY Schemas
<1> QED BY <1>1, <1>3, <1>4, <1>5, <1>6, Schemas

\* A statement more, and the end of the file.
LEMMA BeforeSteps ==
  ASSUME NEW k \in 0 .. 4, NEW i \in 1 .. Len(Update[k])
  PROVE  /\ Before(k, 1) = Schema(k)
         /\ Before(k, i + 1) = Before(k, i) \cup Update[k][i].makes
         /\ i = Len(Update[k]) => Before(k, i + 1) = Schema(k + 1)
<1>1. Len(Update[k]) \in Nat \ {0} /\ DOMAIN Update[k] = 1 .. Len(Update[k])
  BY FileLengths
<1>2. Before(k, 1) = Schema(k)
  BY DEF Before
<1>3. Before(k, i + 1) = Before(k, i) \cup Update[k][i].makes
  <2>1. (i + 1) - 1 = i /\ \A j : j \in 1 .. i <=> j \in 1 .. i - 1 \/ j = i
    BY <1>1
  <2> QED BY <2>1 DEF Before
<1>4. i = Len(Update[k]) => Before(k, i + 1) = Schema(k + 1)
  <2>1. i = Len(Update[k]) => 1 .. (i + 1) - 1 = DOMAIN Update[k]
    BY <1>1
  <2>2. Schema(k + 1) = Schema(k) \cup MadeBy(k)
    BY Schemas
  <2> QED BY <2>1, <2>2 DEF Before, MadeBy
<1> QED BY <1>2, <1>3, <1>4

\* Every statement of every file succeeds on what was there before it.
LEMMA StatementFits ==
  ASSUME NEW k \in 0 .. 4, NEW i \in 1 .. Len(Update[k])
  PROVE  /\ Update[k][i].on \subseteq Before(k, i)
         /\ Update[k][i].does \in {"create", "add"} => Update[k][i].makes \cap Before(k, i) = {}
<1>1. ASSUME k \in 1 .. 4 PROVE Len(Update[k]) = 2
  <2>1. Len(Update[1]) = 2 /\ Len(Update[2]) = 2
    BY FilesByVersion DEF Update1, Update2
  <2>2. Len(Update[3]) = 2 /\ Len(Update[4]) = 2
    BY FilesByVersion DEF Update3, Update4
  <2> QED BY <1>1, <2>1, <2>2
<1>2. Before(k, 1) = Schema(k)
  BY BeforeSteps
<1>3. CASE k = 0
  <2>1. Schema(0) = {}
    BY Schemas
  <2>2. Len(Update[0]) = 6
    BY FilesByVersion DEF Update0
  <2>3. Before(0, 1) = {}
    BY <1>2, <1>3, <2>1
  <2>4. Before(0, 2) = {"connection"}
    <3>1. Before(0, 1 + 1) = Before(0, 1) \cup Update[0][1].makes
      BY <2>2, BeforeSteps
    <3> QED BY <2>3, <3>1, FilesByVersion DEF Update0, Create
  <2>5. Before(0, 3) = {"connection"}
    <3>1. Before(0, 2 + 1) = Before(0, 2) \cup Update[0][2].makes
      BY <2>2, BeforeSteps
    <3> QED BY <2>4, <3>1, FilesByVersion DEF Update0, Insert
  <2>6. Before(0, 4) = {"connection", "user"}
    <3>1. Before(0, 3 + 1) = Before(0, 3) \cup Update[0][3].makes
      BY <2>2, BeforeSteps
    <3> QED BY <2>5, <3>1, FilesByVersion DEF Update0, Create
  <2>7. Before(0, 5) = {"connection", "user", "datarecord"}
    <3>1. Before(0, 4 + 1) = Before(0, 4) \cup Update[0][4].makes
      BY <2>2, BeforeSteps
    <3> QED BY <2>6, <3>1, FilesByVersion DEF Update0, Create
  <2>8. i \in {1, 2, 3, 4, 5, 6}
    BY <1>3, <2>2
  <2>9. CASE i = 1
    BY <1>3, <2>3, <2>9, FilesByVersion DEF Update0, Create
  <2>10. CASE i = 2
    BY <1>3, <2>4, <2>10, FilesByVersion DEF Update0, Insert
  <2>11. CASE i = 3
    BY <1>3, <2>5, <2>11, FilesByVersion DEF Update0, Create
  <2>12. CASE i = 4
    BY <1>3, <2>6, <2>12, FilesByVersion DEF Update0, Create
  <2>13. CASE i = 5
    BY <1>3, <2>7, <2>13, FilesByVersion DEF Update0, Create
  <2>14. CASE i = 6
    BY <1>3, <2>14, FilesByVersion DEF Update0, SetVersion
  <2> QED BY <2>8, <2>9, <2>10, <2>11, <2>12, <2>13, <2>14
<1>4. CASE k \in 1 .. 4 /\ i = 2
  <2>1. k \in {1, 2, 3, 4}
    BY <1>4
  <2>2. Update[k][2].on = {} /\ Update[k][2].does = "version"
    <3>1. Update[1][2].on = {} /\ Update[1][2].does = "version"
      BY FilesByVersion DEF Update1, SetVersion
    <3>2. Update[2][2].on = {} /\ Update[2][2].does = "version"
      BY FilesByVersion DEF Update2, SetVersion
    <3>3. Update[3][2].on = {} /\ Update[3][2].does = "version"
      BY FilesByVersion DEF Update3, SetVersion
    <3>4. Update[4][2].on = {} /\ Update[4][2].does = "version"
      BY FilesByVersion DEF Update4, SetVersion
    <3> QED BY <2>1, <3>1, <3>2, <3>3, <3>4
  <2> QED BY <1>4, <2>2
<1>5. CASE k = 1 /\ i = 1
  BY <1>2, <1>5, FilesByVersion, SchemaSets DEF Update1, Add
<1>6. CASE k = 2 /\ i = 1
  BY <1>2, <1>6, FilesByVersion, SchemaSets DEF Update2, Add
<1>7. CASE k = 3 /\ i = 1
  BY <1>2, <1>7, FilesByVersion, SchemaSets DEF Update3, Change
<1>8. CASE k = 4 /\ i = 1
  BY <1>2, <1>8, FilesByVersion, SchemaSets DEF Update4, Add
<1> QED BY <1>1, <1>3, <1>4, <1>5, <1>6, <1>7, <1>8

\* The last statement of a file sets the version, and no other does.
LEMMA LastStatement ==
  ASSUME NEW k \in 0 .. 4, NEW i \in 1 .. Len(Update[k])
  PROVE  Update[k][i].does = "version" <=> i = Len(Update[k])
<1>1. CASE k = 0
  BY <1>1, FilesByVersion DEF Update0, Create, Insert, SetVersion
<1>2. CASE k = 1
  BY <1>2, FilesByVersion DEF Update1, Add, SetVersion
<1>3. CASE k = 2
  BY <1>3, FilesByVersion DEF Update2, Add, SetVersion
<1>4. CASE k = 3
  BY <1>4, FilesByVersion DEF Update3, Change, SetVersion
<1>5. CASE k = 4
  BY <1>5, FilesByVersion DEF Update4, Add, SetVersion
<1> QED BY <1>1, <1>2, <1>3, <1>4, <1>5

\* A request that others have left alone finds what it expects in the
\* database, at its every step.
LEMMA AloneStep == IInv /\ Alone /\ [Next]_vars => Alone'
<1> SUFFICES ASSUME IInv, Alone, [Next]_vars PROVE Alone'
  OBVIOUS
<1>1. CASE UNCHANGED vars
  BY <1>1 DEF vars, database, Alone, Solo, Undisturbed, HeadVersion
<1>2. ASSUME NEW q \in Request, Steps(q) \/ Cut(q) PROVE Alone'
  <2>1. /\ pc'[q] # "count" /\ \A p \in Request \ {q} : pc'[p] = pc[p]
    <3>1. CASE Execute(q)
      BY <3>1 DEF Execute, IInv, TypeOK, Goto
    <3>2. CASE ReadVersion(q) \/ Reread(q)
      BY <3>2 DEF ReadVersion, Reread, LoopWith, IInv, TypeOK, Goto
    <3>3. CASE CountVersions(q) \/ InsertVersion(q) \/ Verify(q)
      BY <3>3 DEF CountVersions, InsertVersion, Verify, IInv, TypeOK, Goto
    <3>4. CASE CountUsers(q) \/ InsertUser(q) \/ Allow(q) \/ Cut(q)
      BY <3>4 DEF CountUsers, InsertUser, Allow, Cut, IInv, TypeOK, Goto
    <3> QED BY <1>2, <3>1, <3>2, <3>3, <3>4 DEF Steps
  <2> SUFFICES ASSUME Solo(q) PROVE Undisturbed(q)'
    BY <2>1 DEF Alone, Solo
  <2>2. Undisturbed(q)
    BY DEF Alone
  <2>3. versions \in Seq(0 .. 5) /\ DOMAIN pc = Request /\ pc = [p \in Request |-> pc[p]]
        /\ DOMAIN dbVersion = Request /\ DOMAIN step = Request
    BY DEF IInv, TypeOK, dbVersionReq
  <2>4. HeadVersion \in 0 .. 5
    BY <2>3 DEF HeadVersion
  <2>5. ASSUME pc[q] \in {"read", "reread"}, LoopWith(q, Head(versions)), UNCHANGED database,
               objects = Schema(HeadVersion)
        PROVE  Undisturbed(q)'
    <3>1. versions # <<>> /\ HeadVersion = Head(versions)
      BY <2>5 DEF IInv, SawVersion, HeadVersion
    <3>2. /\ pc'[q] = IF HeadVersion = 5 THEN "users" ELSE IF HeadVersion \in 0 .. 4 THEN "run" ELSE "failed"
          /\ dbVersion'[q] = HeadVersion /\ step'[q] = 1
      BY <2>3, <2>5, <3>1 DEF LoopWith, Goto, UpToDate, Update, dbVersionReq
    <3>3. HeadVersion' = HeadVersion /\ objects' = objects
      BY <2>5 DEF HeadVersion, database
    <3>4. pc'[q] = "run" => objects' = Before(dbVersion'[q], step'[q])
      BY <2>4, <2>5, <3>2, <3>3, Schemas DEF Before
    <3> QED BY <2>4, <3>2, <3>3, <3>4 DEF Undisturbed
  <2>6. CASE CountVersions(q)
    BY <2>2, <2>3, <2>6 DEF CountVersions, Goto, Undisturbed, HeadVersion, database
  <2>7. CASE InsertVersion(q)
    <3>1. versions' = <<0>> /\ pc'[q] = "read" /\ objects' = objects
      BY <2>2, <2>3, <2>7 DEF InsertVersion, Goto, Undisturbed
    <3>2. HeadVersion = 0 /\ HeadVersion' = 0
      BY <2>2, <2>7, <3>1 DEF InsertVersion, Undisturbed, HeadVersion
    <3> QED BY <2>2, <2>7, <3>1, <3>2 DEF Undisturbed, InsertVersion
  <2>8. CASE ReadVersion(q)
    <3>1. versions # <<>> /\ pc[q] = "read"
      BY <2>8 DEF IInv, SawVersion, ReadVersion
    <3> QED BY <2>2, <2>5, <2>8, <3>1 DEF ReadVersion, Undisturbed
  <2>9. CASE Execute(q)
    <3> DEFINE k == dbVersion[q]
               i == step[q]
               s == Update[k][i]
               n == Len(Update[k])
    <3>1. /\ pc[q] = "run" /\ k \in 0 .. 4 /\ i \in 1 .. n /\ n \in Nat \ {0}
          /\ HeadVersion = k /\ objects = Before(k, i) /\ versions # <<>>
      BY <2>2, <2>9, FileLengths DEF Execute, IInv, Behind, SawVersion, Undisturbed
    <3>2. Succeeds(s)
      BY <3>1, StatementFits DEF Succeeds
    <3>3. /\ objects' = objects \cup s.makes
          /\ versions' = IF s.does = "version" THEN AllSetTo(s.to) ELSE versions
          /\ step' = IF i = n THEN step ELSE [step EXCEPT ![q] = @ + 1]
          /\ pc' = [pc EXCEPT ![q] = IF i = n THEN "verify" ELSE "run"]
          /\ UNCHANGED dbVersion
      BY <2>9, <3>2 DEF Execute, Goto
    <3>4. s.does = "version" <=> i = n
      BY <3>1, LastStatement
    <3>5. s.does = "version" => s.to = k + 1
      BY <3>1, UpdateFiles
    <3>6. objects' = Before(k, i + 1) /\ (i = n => objects' = Schema(k + 1))
      BY <3>1, <3>3, BeforeSteps
    <3>7. CASE i = n
      <4>1. versions' = [j \in 1 .. Len(versions) |-> k + 1] /\ Len(versions) \in Nat \ {0}
        BY <2>3, <3>1, <3>3, <3>4, <3>5, <3>7 DEF AllSetTo
      <4>2. versions' \in Seq(0 .. 5) /\ versions' # <<>> /\ Head(versions') = k + 1
        BY <3>1, <4>1
      <4>3. HeadVersion' = k + 1 /\ pc'[q] = "verify" /\ dbVersion'[q] = k
        BY <2>3, <3>3, <3>7, <4>2 DEF HeadVersion
      <4> QED BY <3>6, <3>7, <4>3 DEF Undisturbed
    <3>8. CASE i # n
      <4>1. HeadVersion' = k /\ pc'[q] = "run" /\ dbVersion'[q] = k /\ step'[q] = i + 1
        BY <2>3, <3>1, <3>3, <3>4, <3>8 DEF HeadVersion
      <4> QED BY <3>6, <4>1 DEF Undisturbed
    <3> QED BY <3>7, <3>8
  <2>10. CASE Verify(q)
    <3>1. versions # <<>> /\ Head(versions) = dbVersion[q] + 1
      BY <2>2, <2>10 DEF IInv, SawVersion, Verify, Undisturbed, HeadVersion
    <3>2. pc'[q] = "reread" /\ UNCHANGED <<versions, objects, dbVersion>>
      BY <2>3, <2>10, <3>1 DEF Verify, Verified, Goto, database
    <3> QED BY <2>2, <2>10, <3>2 DEF Verify, Undisturbed, HeadVersion
  <2>11. CASE Reread(q)
    <3>1. versions # <<>> /\ Head(versions) = dbVersion[q] + 1 /\ dbVersion[q] \in 0 .. 5
      BY <2>2, <2>11 DEF IInv, TypeOK, dbVersionReq, SawVersion, Reread, Undisturbed, HeadVersion
    <3>2. ~Stuck(q)
      BY <3>1 DEF Stuck
    <3> QED BY <2>2, <2>5, <2>11, <3>2 DEF Reread, Undisturbed
  <2>12. CASE CountUsers(q) \/ InsertUser(q) \/ Allow(q) \/ Cut(q)
    <3>1. pc'[q] \in {"served", "addUser", "getdata", "putdata", "cut"}
      BY <2>3, <2>12 DEF CountUsers, InsertUser, Allow, Cut, Goto
    <3> QED BY <3>1 DEF Undisturbed
  <2> QED BY <1>2, <2>6, <2>7, <2>8, <2>9, <2>10, <2>11, <2>12 DEF Steps
<1> QED BY <1>1, <1>2 DEF Next

\* updateDb and main fail only when another request has been at work: alone,
\* every update file succeeds from every version, to its end.
THEOREM FailsOnlyIfDisturbed == Spec => []FailsOnlyDisturbed
<1>1. Init => Alone
  <2> SUFFICES ASSUME Init PROVE Alone
    OBVIOUS
  <2>1. PICK k \in Start : /\ versions = (IF k = 0 THEN <<>> ELSE <<k>>) /\ objects = Schema(k)
                           /\ pc = [q \in Request |-> "count"]
    BY DEF Init
  <2>2. HeadVersion = k
    BY <2>1 DEF HeadVersion
  <2> QED BY <2>1, <2>2 DEF Alone, Undisturbed
<1>2. Alone => FailsOnlyDisturbed
  BY DEF Alone, Solo, Undisturbed, FailsOnlyDisturbed
<1> QED BY <1>1, <1>2, AloneStep, Invariance, PTL DEF Spec

-----------------------------------------------------------------------------
\* The length of a block of a level.
Size(level) == IF level = 1 THEN Size1 ELSE Size2

\* A row that has been archived is the block of its level that it starts.
Aligned(r) == /\ r.archived \in 0 .. 2 /\ r.start \in Nat
              /\ r.archived > 0 => /\ r.start % Size(r.archived) = 0
                                   /\ r.end = r.start + Size(r.archived)

\* OneRowPerBlock of a table t.
Single(t) ==
  \A r1, r2 \in {r \in BagToSet(t) : r.archived > 0} :
    /\ t[r1] = 1
    /\ r1 # r2 => \/ r1.userId # r2.userId \/ r1.archived # r2.archived
                  \/ r1.start # r2.start

Thinned(t) == IsABag(t) /\ (\A r \in BagToSet(t) : Aligned(r)) /\ Single(t)

ArchiveInv == now \in Nat /\ asOf \in [PutRequest -> Nat] /\ Thinned(rows)

-----------------------------------------------------------------------------
\* Whatever is added up in a block, it is where it belongs.
LEMMA BlockFields ==
  ASSUME NEW samples, NEW u, NEW b, NEW size, NEW level
  PROVE  LET r == Clamped(Block(samples, u, b, size, level))
         IN r.userId = u /\ r.start = b /\ r.end = b + size /\ r.archived = level
BY DEF Clamped, Block

\* The rows N are blocks that start by the horizon, no two of them of one user
\* and start.
Inserted(N, horizon, size, level) ==
  /\ \A r \in N : /\ r.start \in Nat /\ r.start <= horizon /\ r.start % size = 0
                  /\ r.end = r.start + size /\ r.archived = level
  /\ \A r, s \in N : r.userId = s.userId /\ r.start = s.start => r = s

\* The rows a level inserts are.
LEMMA NewRows ==
  ASSUME NEW samples, NEW horizon \in Int, NEW size \in Nat \ {0}, NEW level,
         NEW new, new \subseteq Refactor(samples, horizon + size, size, level)
  PROVE  Inserted({Clamped(x) : x \in new}, horizon, size, level)
<1> DEFINE B(u, b) == Clamped(Block(samples, u, b, size, level))
<1>1. \A r \in {Clamped(x) : x \in new} :
        \E u \in User, b \in {c \in 0 .. horizon + size - size : c % size = 0} : r = B(u, b)
  BY DEF Refactor
<1>2. \A u, b : /\ B(u, b).userId = u /\ B(u, b).start = b /\ B(u, b).end = b + size
                /\ B(u, b).archived = level
  BY BlockFields
<1> HIDE DEF B
<1>3. \A b \in {c \in 0 .. horizon + size - size : c % size = 0} :
        b \in Nat /\ b <= horizon /\ b % size = 0
  OBVIOUS
<1>4. \A r \in {Clamped(x) : x \in new} : \E u \in User, b \in Nat :
        r = B(u, b) /\ b <= horizon /\ b % size = 0
  BY <1>1, <1>3
<1>5. \A r \in {Clamped(x) : x \in new} : r = B(r.userId, r.start)
  BY <1>2, <1>4
<1> QED BY <1>2, <1>4, <1>5 DEF Inserted

\* One level keeps what it does not replace, and what it inserts is apart from
\* that: the rows it keeps are of a higher level or start after its horizon.
LEMMA LevelThins ==
  ASSUME NEW t, Thinned(t), NEW horizon \in Int, NEW level \in 1 .. 2
  PROVE  Thinned(Archived(t, horizon, Size(level), level))
<1> DEFINE old  == {r \in BagToSet(t) : Due(r, horizon, level)}
           sam  == [r \in old |-> t[r]]
           new  == {r \in Refactor(sam, horizon + Size(level), Size(level), level) : r.down # 0}
           N    == {Clamped(r) : r \in new}
           K    == DOMAIN t \ old
           T    == Archived(t, horizon, Size(level), level)
<1>1. T = [r \in K |-> t[r]] (+) SetToBag(N)
  BY DEF Archived, BagToSet, SetToBag, (+)
<1>2. Size(level) \in Nat \ {0}
  BY ArchiveAssumption DEF Size
<1>3. new \subseteq Refactor(sam, horizon + Size(level), Size(level), level)
  OBVIOUS
<1>4. Inserted(N, horizon, Size(level), level)
  <2> HIDE DEF sam, new
  <2> QED BY <1>2, <1>3, NewRows
<1>5. \A r \in K : r \in DOMAIN t /\ Aligned(r) /\ ~(r.start <= horizon /\ r.archived <= level)
  BY DEF Thinned, BagToSet, Due
<1> HIDE DEF old, sam, new, N, K, T
<1>6. \A r \in K, s \in N : r # s /\ (r.archived # s.archived \/ r.start # s.start)
  BY <1>4, <1>5 DEF Aligned, Inserted
<1>7. DOMAIN T = K \cup N /\ \A r \in DOMAIN T : T[r] = IF r \in K THEN t[r] ELSE 1
  <2>1. \A r \in K : t[r] \in Nat
    BY <1>5 DEF Thinned, IsABag, BagToSet
  <2> QED BY <1>1, <1>6, <2>1 DEF SetToBag, (+)
<1>8. IsABag(T)
  <2>1. \A r \in K : t[r] \in Nat /\ t[r] > 0
    BY <1>5 DEF Thinned, IsABag, BagToSet
  <2>2. T = [r \in DOMAIN T |-> T[r]]
    BY <1>1 DEF (+)
  <2> QED BY <1>7, <2>1, <2>2 DEF IsABag
<1>9. \A r \in DOMAIN T : Aligned(r)
  BY <1>4, <1>5, <1>7 DEF Aligned, Inserted
<1>10. Single(T)
  <2> SUFFICES ASSUME NEW r \in DOMAIN T, NEW s \in DOMAIN T, r.archived > 0, s.archived > 0
               PROVE  /\ T[r] = 1
                      /\ r # s => r.userId # s.userId \/ r.archived # s.archived \/ r.start # s.start
    BY DEF Single, BagToSet
  <2>1. \A x, y \in K : x.archived > 0 /\ y.archived > 0 =>
          /\ t[x] = 1
          /\ x # y => x.userId # y.userId \/ x.archived # y.archived \/ x.start # y.start
    BY <1>5 DEF Thinned, Single, BagToSet
  <2> QED BY <1>4, <1>6, <1>7, <2>1 DEF Inserted
<1> QED BY <1>8, <1>9, <1>10 DEF Thinned, BagToSet, T

\* A record that arrives is in no block yet.
LEMMA PutThins ==
  ASSUME NEW t, Thinned(t), NEW r, r.archived = 0, r.start \in Nat
  PROVE  Thinned(t (+) SetToBag({r}))
<1> DEFINE T == t (+) SetToBag({r})
<1>1. /\ DOMAIN T = DOMAIN t \cup {r} /\ T = [x \in DOMAIN T |-> T[x]]
      /\ \A x \in DOMAIN t : t[x] \in Nat /\ t[x] > 0
      /\ \A x \in DOMAIN T \ {r} : T[x] = t[x]
      /\ T[r] = IF r \in DOMAIN t THEN t[r] + 1 ELSE 1
  BY DEF SetToBag, Thinned, IsABag, (+)
<1> HIDE DEF T
<1>2. IsABag(T)
  <2>1. \A x \in DOMAIN T : T[x] \in Nat /\ T[x] > 0
    BY <1>1
  <2> QED BY <1>1, <2>1 DEF IsABag
<1>3. \A x \in DOMAIN T : Aligned(x)
  BY <1>1 DEF Thinned, Aligned, BagToSet
<1>4. Single(T)
  BY <1>1 DEF Thinned, Single, BagToSet
<1> QED BY <1>2, <1>3, <1>4 DEF Thinned, BagToSet, T

\* However requests interleave, the table stays thinned.
LEMMA ArchiveInvariance == ArchiveSpec => []ArchiveInv
<1>1. ArchiveInit => ArchiveInv
  BY DEF ArchiveInit, ArchiveInv, Thinned, Single, EmptyBag, SetToBag, IsABag, BagToSet
<1>2. ArchiveInv /\ [ArchiveNext]_(archiveVars) => ArchiveInv'
  <2> SUFFICES ASSUME ArchiveInv, [ArchiveNext]_(archiveVars) PROVE ArchiveInv'
    OBVIOUS
  <2>1. ASSUME NEW q \in PutRequest, NEW u \in User, NEW n \in Amount, NEW s \in 0 .. MaxTime,
               NEW l \in Length, PutData(q, u, s, s + l, n)
        PROVE  ArchiveInv'
    <3> DEFINE r == Clamped([userId |-> u, start |-> s, end |-> s + l, archived |-> 0, down |-> n])
    <3>1. r.archived = 0 /\ r.start = s
      BY DEF Clamped
    <3>2. s \in Nat
      BY ArchiveAssumption
    <3>3. rows' = rows (+) SetToBag({r}) /\ now' = now /\ asOf' = asOf
      BY <2>1 DEF PutData, SetToBag, (+)
    <3> HIDE DEF r
    <3>4. Thinned(rows (+) SetToBag({r}))
      BY <3>1, <3>2, PutThins DEF ArchiveInv
    <3> QED BY <3>3, <3>4 DEF ArchiveInv
  <2>2. ASSUME NEW q \in PutRequest, ReadClock(q)
        PROVE  ArchiveInv'
    BY <2>2 DEF ReadClock, ArchiveInv
  <2>3. ASSUME NEW q \in PutRequest, ArchiveLevel1(q)
        PROVE  ArchiveInv'
    <3>1. asOf[q] - Lag1 \in Int /\ Size(1) = Size1
      BY ArchiveAssumption DEF ArchiveInv, Size
    <3> QED BY <2>3, <3>1, LevelThins DEF ArchiveLevel1, ArchiveInv
  <2>4. ASSUME NEW q \in PutRequest, ArchiveLevel2(q)
        PROVE  ArchiveInv'
    <3>1. asOf[q] - Lag2 \in Int /\ Size(2) = Size2
      BY ArchiveAssumption DEF ArchiveInv, Size
    <3> QED BY <2>4, <3>1, LevelThins DEF ArchiveLevel2, ArchiveInv
  <2>5. ASSUME NEW q \in PutRequest, Abort(q)
        PROVE  ArchiveInv'
    BY <2>5 DEF Abort, ArchiveInv
  <2>6. CASE Clock
    BY <2>6 DEF Clock, ArchiveInv
  <2>7. CASE UNCHANGED archiveVars
    BY <2>7 DEF archiveVars, ArchiveInv
  <2> QED BY <2>1, <2>2, <2>3, <2>4, <2>5, <2>6, <2>7 DEF ArchiveNext
<1> QED BY <1>1, <1>2, PTL DEF ArchiveSpec

\* However requests interleave, and with whatever stale time they work, a user
\* never has two rows of the same level for the same block.
THEOREM BlocksHaveOneRow == ArchiveSpec => []OneRowPerBlock
<1>1. ArchiveInv => OneRowPerBlock
  BY DEF ArchiveInv, Thinned, Single, OneRowPerBlock, BagToSet
<1> QED BY ArchiveInvariance, <1>1, PTL

\* Multiples of a size are at least that far apart.
LEMMA MultiplesApart ==
  ASSUME NEW a \in Nat, NEW b \in Nat, NEW size \in Nat \ {0},
         a % size = 0, b % size = 0, a < b
  PROVE  a + size <= b
<1>1. PICK k \in Int : a = size * k
  BY SMT
<1>2. PICK l \in Int : b = size * l
  BY SMT
<1>3. l >= k + 1
  BY <1>1, <1>2
<1>4. size * l >= size * (k + 1)
  BY <1>3
<1> QED BY <1>1, <1>2, <1>4

\* No second of a user is in two archived rows of one level.
RowsApart ==
  \A r, s \in BagToSet(rows) :
    r.archived > 0 /\ r.archived = s.archived /\ r.userId = s.userId /\ r # s =>
      r.end <= s.start \/ s.end <= r.start

\* The archived rows of a user and level never overlap.
THEOREM BlocksApart == ArchiveSpec => []RowsApart
<1>1. ArchiveInv => RowsApart
  <2> SUFFICES ASSUME ArchiveInv, NEW r \in BagToSet(rows), NEW s \in BagToSet(rows),
                      r.archived > 0, r.archived = s.archived, r.userId = s.userId, r # s
               PROVE  r.end <= s.start \/ s.end <= r.start
    BY DEF RowsApart
  <2>1. r.start # s.start
    BY DEF ArchiveInv, Thinned, Single
  <2> DEFINE z == Size(r.archived)
  <2>2. z \in Nat \ {0}
    BY ArchiveAssumption DEF Size
  <2>3. /\ r.start \in Nat /\ r.start % z = 0 /\ r.end = r.start + z
        /\ s.start \in Nat /\ s.start % z = 0 /\ s.end = s.start + z
    BY DEF ArchiveInv, Thinned, Aligned
  <2> HIDE DEF z
  <2>4. CASE r.start < s.start
    BY <2>2, <2>3, <2>4, MultiplesApart
  <2>5. CASE s.start < r.start
    BY <2>2, <2>3, <2>5, MultiplesApart
  <2> QED BY <2>1, <2>3, <2>4, <2>5
<1> QED BY ArchiveInvariance, <1>1, PTL

(***************************************************************************)
(* Totals: first what a sum is.                                            *)
(***************************************************************************)
\* Induction, with a set for the predicate.
LEMMA AllNat ==
  ASSUME NEW S, 0 \in S, \A n \in Nat : n \in S => n + 1 \in S
  PROVE  \A n \in Nat : n \in S
<1> DEFINE R == OpToRel(<, Nat)
           U == {n \in Nat : n \notin S}
<1> SUFFICES ASSUME U # {} PROVE FALSE
  OBVIOUS
<1>1. IsWellFoundedOn(R, Nat)
  BY NatLessThanWellFounded
<1>2. \A p, q \in Nat : q < p => <<q, p>> \in R
  BY DEF OpToRel
<1>3. U \subseteq Nat
  OBVIOUS
<1> HIDE DEF R, U
<1>4. PICK x \in U : \A y \in U : ~(<<y, x>> \in R)
  BY <1>1, <1>3, WFMin
<1>5. x \in Nat /\ x \notin S /\ x # 0
  BY <1>4 DEF U
<1>6. x - 1 \in Nat /\ x - 1 < x /\ (x - 1) + 1 = x
  BY <1>5
<1>7. x - 1 \notin U
  BY <1>2, <1>4, <1>5, <1>6
<1>8. x - 1 \in S
  BY <1>6, <1>7 DEF U
<1> QED BY <1>5, <1>6, <1>8

\* The counts w[1] .. w[n] can be added up.
Summable(w, n) == \A k \in 1 .. n : w[k] \in Nat

\* g holds the sums of the first counts.
Partial(g, w, n) == g \in [0 .. n -> Nat] /\ g[0] = 0 /\ \A k \in 1 .. n : g[k] = g[k - 1] + w[k]

LEMMA PartialExists ==
  ASSUME NEW w, NEW n \in Nat, Summable(w, n)
  PROVE  \E g : Partial(g, w, n)
<1> DEFINE S == {m \in Nat : m <= n => \E g : Partial(g, w, m)}
<1>1. 0 \in S
  <2>1. Partial([k \in 0 .. 0 |-> 0], w, 0)
    BY DEF Partial
  <2> QED BY <2>1
<1>2. ASSUME NEW m \in Nat, m \in S PROVE m + 1 \in S
  <2> SUFFICES ASSUME m + 1 <= n PROVE \E g : Partial(g, w, m + 1)
    OBVIOUS
  <2>1. PICK g : Partial(g, w, m)
    BY <1>2
  <2> DEFINE h == [k \in 0 .. m + 1 |-> IF k = m + 1 THEN g[m] + w[m + 1] ELSE g[k]]
  <2>2. w[m + 1] \in Nat /\ g[m] \in Nat
    BY <2>1 DEF Partial, Summable
  <2>3. h \in [0 .. m + 1 -> Nat] /\ h[0] = 0
    <3>1. ASSUME NEW k \in 0 .. m + 1 PROVE h[k] \in Nat
      <4>1. k = m + 1 \/ k \in 0 .. m
        OBVIOUS
      <4> QED BY <2>1, <2>2, <4>1 DEF Partial
    <3> QED BY <2>1, <3>1 DEF Partial
  <2>4. ASSUME NEW k \in 1 .. m + 1 PROVE h[k] = h[k - 1] + w[k]
    <3>1. CASE k = m + 1
      BY <3>1
    <3>2. CASE k # m + 1
      <4>1. k \in 1 .. m /\ k \in 0 .. m + 1 /\ k - 1 \in 0 .. m + 1 /\ k - 1 # m + 1
        BY <3>2
      <4>2. h[k] = g[k] /\ h[k - 1] = g[k - 1]
        BY <3>2, <4>1
      <4> QED BY <2>1, <4>1, <4>2 DEF Partial
    <3> QED BY <3>1, <3>2
  <2>5. Partial(h, w, m + 1)
    BY <2>3, <2>4 DEF Partial
  <2> QED BY <2>5
<1> HIDE DEF S
<1>3. n \in S
  BY <1>1, <1>2, AllNat
<1> QED BY <1>3 DEF S

LEMMA PartialAgree ==
  ASSUME NEW w, NEW m \in Nat, NEW n \in Nat, NEW g, NEW h, Partial(g, w, m), Partial(h, w, n), m <= n
  PROVE  g[m] = h[m]
<1> DEFINE S == {k \in Nat : k <= m => g[k] = h[k]}
<1>1. 0 \in S
  BY DEF Partial
<1>2. ASSUME NEW k \in Nat, k \in S PROVE k + 1 \in S
  <2> SUFFICES ASSUME k + 1 <= m PROVE g[k + 1] = h[k + 1]
    OBVIOUS
  <2>1. k + 1 \in 1 .. m /\ k + 1 \in 1 .. n /\ (k + 1) - 1 = k /\ g[k] = h[k]
    BY <1>2
  <2> QED BY <2>1 DEF Partial
<1> HIDE DEF S
<1>3. m \in S
  BY <1>1, <1>2, AllNat
<1> QED BY <1>3 DEF S

LEMMA SumIsPartial ==
  ASSUME NEW w, NEW n \in Nat, Summable(w, n)
  PROVE  \E g : Partial(g, w, n) /\ Sum(w, n) = g[n]
<1> DEFINE Eq(s) == s = [k \in 0 .. n |-> IF k = 0 THEN 0 ELSE s[k - 1] + w[k]]
           s0 == CHOOSE s : Eq(s)
<1>1. PICK g : Partial(g, w, n)
  BY PartialExists
<1>2. Eq(g)
  BY <1>1 DEF Partial
<1>3. Eq(s0) /\ Sum(w, n) = s0[n]
  BY <1>2, Zenon DEF Sum
<1> HIDE DEF s0
<1> DEFINE S == {k \in Nat : k <= n => s0[k] = g[k]}
<1>4. 0 \in S
  BY <1>1, <1>3 DEF Partial
<1>5. ASSUME NEW k \in Nat, k \in S PROVE k + 1 \in S
  <2> SUFFICES ASSUME k + 1 <= n PROVE s0[k + 1] = g[k + 1]
    OBVIOUS
  <2>1. k + 1 \in 0 .. n /\ k + 1 \in 1 .. n /\ k + 1 # 0 /\ (k + 1) - 1 = k /\ s0[k] = g[k]
    BY <1>5
  <2>2. s0[k + 1] = s0[(k + 1) - 1] + w[k + 1]
    BY <1>3, <2>1
  <2> QED BY <1>1, <2>1, <2>2 DEF Partial
<1> HIDE DEF S
<1>6. n \in S
  BY <1>4, <1>5, AllNat
<1> QED BY <1>1, <1>3, <1>6 DEF S

\* What the sum of n counts is.
LEMMA SumStep ==
  ASSUME NEW w, NEW n \in Nat, Summable(w, n)
  PROVE  /\ Sum(w, n) \in Nat /\ Sum(w, 0) = 0
         /\ \A m \in 0 .. n - 1 : /\ Sum(w, m) \in Nat
                                  /\ Sum(w, m + 1) = Sum(w, m) + w[m + 1]
<1>1. ASSUME NEW m \in 0 .. n PROVE Summable(w, m)
  BY DEF Summable
<1>2. PICK h : Partial(h, w, n) /\ Sum(w, n) = h[n]
  BY SumIsPartial
<1>3. ASSUME NEW m \in 0 .. n PROVE Sum(w, m) = h[m]
  <2>1. PICK g : Partial(g, w, m) /\ Sum(w, m) = g[m]
    BY <1>1, SumIsPartial
  <2> QED BY <1>2, <2>1, PartialAgree
<1>4. Sum(w, n) \in Nat /\ Sum(w, 0) = 0
  BY <1>2, <1>3 DEF Partial
<1>5. ASSUME NEW m \in 0 .. n - 1
      PROVE  Sum(w, m) \in Nat /\ Sum(w, m + 1) = Sum(w, m) + w[m + 1]
  <2>1. m \in 0 .. n /\ m + 1 \in 0 .. n /\ m + 1 \in 1 .. n /\ (m + 1) - 1 = m
    OBVIOUS
  <2>2. Sum(w, m) = h[m] /\ Sum(w, m + 1) = h[m + 1]
    BY <1>3, <2>1
  <2> QED BY <1>2, <2>1, <2>2 DEF Partial
<1> QED BY <1>4, <1>5

\* Multiples of counts that are close one by one have sums that are close.
Close(x, y, c) == x - y <= c /\ y - x <= c

LEMMA SumClose ==
  ASSUME NEW n \in Nat, NEW v, NEW w, Summable(v, n), Summable(w, n),
         NEW a \in Nat, NEW b \in Nat, NEW c \in Nat,
         \A k \in 1 .. n : Close(a * v[k], b * w[k], c)
  PROVE  Close(a * Sum(v, n), b * Sum(w, n), c * n)
<1> DEFINE S == {m \in Nat : m <= n => Close(a * Sum(v, m), b * Sum(w, m), c * m)}
<1>1. 0 \in S
  BY SumStep DEF Close
<1>2. ASSUME NEW m \in Nat, m \in S PROVE m + 1 \in S
  <2> SUFFICES ASSUME m + 1 <= n
               PROVE  Close(a * Sum(v, m + 1), b * Sum(w, m + 1), c * (m + 1))
    OBVIOUS
  <2> DEFINE x == Sum(v, m)
             y == Sum(w, m)
             p == v[m + 1]
             q == w[m + 1]
  <2>1. m \in 0 .. n - 1 /\ m + 1 \in 1 .. n
    OBVIOUS
  <2>2. x \in Nat /\ Sum(v, m + 1) = x + p
    BY <2>1, SumStep
  <2>3. y \in Nat /\ Sum(w, m + 1) = y + q
    BY <2>1, SumStep
  <2>4. p \in Nat /\ q \in Nat
    BY <2>1 DEF Summable
  <2>5. Close(a * x, b * y, c * m) /\ Close(a * p, b * q, c)
    BY <1>2, <2>1
  <2> HIDE DEF x, y, p, q
  <2>6. /\ a * (x + p) = a * x + a * p /\ b * (y + q) = b * y + b * q /\ c * (m + 1) = c * m + c
        /\ a * x \in Int /\ a * p \in Int /\ b * y \in Int /\ b * q \in Int /\ c * m \in Int
    BY <2>2, <2>3, <2>4
  <2>7. Close(a * (x + p), b * (y + q), c * (m + 1))
    BY <2>5, <2>6 DEF Close
  <2> QED BY <2>2, <2>3, <2>7
<1> HIDE DEF S
<1>3. n \in S
  BY <1>1, <1>2, AllNat
<1> QED BY <1>3 DEF S

LEMMA SumSame ==
  ASSUME NEW n \in Nat, NEW v, NEW w, Summable(v, n), \A k \in 1 .. n : w[k] = v[k]
  PROVE  Sum(w, n) = Sum(v, n)
<1>1. Summable(w, n)
  BY DEF Summable
<1>2. \A k \in 1 .. n : Close(1 * v[k], 1 * w[k], 0)
  BY DEF Close, Summable
<1>3. Close(1 * Sum(v, n), 1 * Sum(w, n), 0 * n)
  BY <1>1, <1>2, SumClose
<1>4. Sum(v, n) \in Nat
  BY SumStep
<1>5. Sum(w, n) \in Nat
  BY <1>1, SumStep
<1> QED BY <1>3, <1>4, <1>5 DEF Close

LEMMA SumAtLeast ==
  ASSUME NEW n \in Nat, NEW w, Summable(w, n), NEW k \in 1 .. n
  PROVE  w[k] <= Sum(w, n)
<1> DEFINE S == {m \in Nat : m <= n /\ k <= m => w[k] <= Sum(w, m)}
<1>1. 0 \in S
  OBVIOUS
<1>2. ASSUME NEW m \in Nat, m \in S PROVE m + 1 \in S
  <2> SUFFICES ASSUME m + 1 <= n, k <= m + 1 PROVE w[k] <= Sum(w, m + 1)
    OBVIOUS
  <2>1. m \in 0 .. n - 1 /\ m + 1 \in 1 .. n
    OBVIOUS
  <2>2. Sum(w, m) \in Nat /\ Sum(w, m + 1) = Sum(w, m) + w[m + 1]
    BY <2>1, SumStep
  <2>3. w[m + 1] \in Nat /\ w[k] \in Nat
    BY <2>1 DEF Summable
  <2>4. k = m + 1 \/ k <= m
    OBVIOUS
  <2> QED BY <1>2, <2>1, <2>2, <2>3, <2>4
<1> HIDE DEF S
<1>3. n \in S
  BY <1>1, <1>2, AllNat
<1> QED BY <1>3 DEF S

LEMMA SumZero ==
  ASSUME NEW n \in Nat, NEW w, \A k \in 1 .. n : w[k] = 0
  PROVE  Sum(w, n) = 0
<1>1. Summable(w, n)
  BY DEF Summable
<1>2. \A k \in 1 .. n : Close(1 * w[k], 0 * w[k], 0)
  BY DEF Close
<1>3. Close(1 * Sum(w, n), 0 * Sum(w, n), 0 * n)
  BY <1>1, <1>2, SumClose
<1>4. Sum(w, n) \in Nat
  BY <1>1, SumStep
<1> QED BY <1>3, <1>4 DEF Close

\* The sum of what comes after the first m counts.
LEMMA SumAfter ==
  ASSUME NEW m \in Nat, NEW n \in Nat, NEW w, Summable(w, m + n), NEW v, \A k \in 1 .. n : v[k] = w[m + k]
  PROVE  Summable(v, n) /\ Sum(w, m + n) = Sum(w, m) + Sum(v, n)
<1>1. Summable(v, n)
  <2> SUFFICES ASSUME NEW k \in 1 .. n PROVE v[k] \in Nat
    BY DEF Summable
  <2>1. m + k \in 1 .. m + n
    OBVIOUS
  <2> QED BY <2>1 DEF Summable
<1>2. Summable(w, m)
  BY DEF Summable
<1>3. Sum(w, m) \in Nat
  BY <1>2, SumStep
<1> DEFINE S == {l \in Nat : l <= n => Sum(w, m + l) = Sum(w, m) + Sum(v, l)}
<1>4. 0 \in S
  <2>1. Sum(v, 0) = 0 /\ m + 0 = m
    BY <1>1, SumStep
  <2> QED BY <1>3, <2>1
<1>5. ASSUME NEW l \in Nat, l \in S PROVE l + 1 \in S
  <2> SUFFICES ASSUME l + 1 <= n PROVE Sum(w, m + (l + 1)) = Sum(w, m) + Sum(v, l + 1)
    OBVIOUS
  <2>1. /\ l \in 0 .. n - 1 /\ m + l \in 0 .. (m + n) - 1 /\ m + (l + 1) = (m + l) + 1
        /\ l + 1 \in 1 .. n /\ (m + l) + 1 \in 1 .. m + n /\ m + n \in Nat
    OBVIOUS
  <2>2. Sum(v, l) \in Nat /\ Sum(v, l + 1) = Sum(v, l) + v[l + 1]
    BY <1>1, <2>1, SumStep
  <2>3. Sum(w, (m + l) + 1) = Sum(w, m + l) + w[(m + l) + 1]
    BY <2>1, SumStep
  <2>4. v[l + 1] = w[(m + l) + 1] /\ v[l + 1] \in Nat
    BY <1>1, <2>1 DEF Summable
  <2>5. Sum(w, m + l) = Sum(w, m) + Sum(v, l)
    BY <1>5, <2>1
  <2> QED BY <1>3, <2>1, <2>2, <2>3, <2>4, <2>5
<1> HIDE DEF S
<1>6. n \in S
  BY <1>4, <1>5, AllNat
<1> QED BY <1>1, <1>6 DEF S

\* v holds the sums of the first r blocks of m counts of w.
BlockSums(v, w, m, r) ==
  \A i \in 1 .. r : \E u : /\ v[i] = Sum(u, m)
                           /\ \A j \in 1 .. m : u[j] = w[(i - 1) * m + j]

\* The sum of r blocks of m counts is the sum of their sums.
LEMMA SumBlocks ==
  ASSUME NEW m \in Nat, NEW r \in Nat, NEW w, Summable(w, r * m), NEW v, BlockSums(v, w, m, r)
  PROVE  Summable(v, r) /\ Sum(w, r * m) = Sum(v, r)
<1>1. ASSUME NEW i \in 1 .. r
      PROVE  v[i] \in Nat /\ Sum(w, (i - 1) * m + m) = Sum(w, (i - 1) * m) + v[i]
  <2>1. PICK u : v[i] = Sum(u, m) /\ \A j \in 1 .. m : u[j] = w[(i - 1) * m + j]
    BY <1>1 DEF BlockSums
  <2>2. (i - 1) * m \in Nat /\ (i - 1) * m + m <= r * m
    <3>1. i - 1 \in Nat /\ r - i \in Nat
      OBVIOUS
    <3>2. (r - i) * m \in Nat /\ (i - 1) * m \in Nat
      BY <3>1
    <3>3. r * m = ((i - 1) * m + m) + (r - i) * m
      OBVIOUS
    <3> QED BY <3>2, <3>3
  <2> DEFINE b == (i - 1) * m
  <2> HIDE DEF b
  <2>3. Summable(w, b + m) /\ b \in Nat
    <3>1. b \in Nat /\ b + m <= r * m /\ r * m \in Nat
      BY <2>2 DEF b
    <3> QED BY <3>1 DEF Summable
  <2>4. \A j \in 1 .. m : u[j] = w[b + j]
    BY <2>1 DEF b
  <2>5. Summable(u, m) /\ Sum(w, b + m) = Sum(w, b) + Sum(u, m)
    BY <2>3, <2>4, SumAfter
  <2>6. Sum(u, m) \in Nat
    BY <2>5, SumStep
  <2> QED BY <2>1, <2>5, <2>6 DEF b
<1>2. Summable(v, r)
  BY <1>1 DEF Summable
<1> DEFINE S == {i \in Nat : i <= r => Sum(w, i * m) = Sum(v, i)}
<1>3. 0 \in S
  <2>1. 0 * m = 0 /\ r * m \in Nat
    OBVIOUS
  <2>2. Sum(w, 0) = 0
    BY <2>1, SumStep
  <2>3. Sum(v, 0) = 0
    BY <1>2, SumStep
  <2> QED BY <2>1, <2>2, <2>3
<1>4. ASSUME NEW i \in Nat, i \in S PROVE i + 1 \in S
  <2> SUFFICES ASSUME i + 1 <= r PROVE Sum(w, (i + 1) * m) = Sum(v, i + 1)
    OBVIOUS
  <2>1. i + 1 \in 1 .. r /\ (i + 1) - 1 = i /\ (i + 1) * m = i * m + m /\ i \in 0 .. r - 1
    OBVIOUS
  <2>2. Sum(w, i * m + m) = Sum(w, i * m) + v[i + 1]
    BY <1>1, <2>1
  <2>3. Sum(v, i + 1) = Sum(v, i) + v[i + 1]
    BY <1>2, <2>1, SumStep
  <2>4. Sum(w, i * m) = Sum(v, i)
    BY <1>4, <2>1
  <2> QED BY <2>1, <2>2, <2>3, <2>4
<1> HIDE DEF S
<1>5. r \in S
  BY <1>3, <1>4, AllNat
<1> QED BY <1>2, <1>5 DEF S

\* Math.round is off by at most a half.
LEMMA RoundClose ==
  ASSUME NEW a \in Nat, NEW b \in Nat \ {0}
  PROVE  Round(a, b) \in Nat /\ Close((2 * b) * Round(a, b), 2 * a, b)
<1> DEFINE c == 2 * b
           q == (2 * a + b) \div c
<1>1. c \in Nat \ {0} /\ 2 * a + b \in Nat
  OBVIOUS
<1> HIDE DEF c
<1>2. q \in Nat /\ c * q <= 2 * a + b /\ 2 * a + b < c * q + c
  BY <1>1
<1>3. Round(a, b) = q
  BY DEF Round, c
<1> HIDE DEF q
<1>4. c * q \in Int /\ c = 2 * b
  BY <1>1, <1>2 DEF c
<1>5. Close(c * q, 2 * a, b)
  BY <1>2, <1>4 DEF Close
<1> QED BY <1>2, <1>3, <1>4, <1>5

LEMMA RoundNone ==
  ASSUME NEW b \in Nat \ {0}
  PROVE  Round(0, b) = 0
<1>1. 2 * 0 + b = b /\ b \in 0 .. 2 * b - 1
  OBVIOUS
<1>2. b \div (2 * b) = 0
  BY <1>1
<1> QED BY <1>1, <1>2 DEF Round

LEMMA Cancel ==
  ASSUME NEW t \in Nat \ {0}, NEW x \in Int, NEW y \in Int, t * x <= t * y
  PROVE  x <= y
<1> SUFFICES ASSUME x > y PROVE FALSE
  OBVIOUS
<1>1. PICK z \in Nat \ {0} : x = y + z
  <2>1. x - y \in Nat \ {0} /\ x = y + (x - y)
    OBVIOUS
  <2> QED BY <2>1
<1>2. t * x = t * y + t * z /\ t * z > 0 /\ t * y \in Int /\ t * z \in Int
  BY <1>1
<1> QED BY <1>2

\* Shares of d by weights w that are rounded one by one add up to d but for half
\* of one for each of them.
LEMMA Divided ==
  ASSUME NEW m \in Nat, NEW d \in Nat, NEW w, Summable(w, m), Sum(w, m) > 0, NEW v,
         \A j \in 1 .. m : v[j] = Round(d * w[j], Sum(w, m))
  PROVE  Summable(v, m) /\ Close(2 * Sum(v, m), 2 * d, m)
<1> DEFINE t == Sum(w, m)
           a == 2 * t
           b == 2 * d
           x == Sum(v, m)
<1>1. t \in Nat \ {0}
  BY SumStep
<1>2. ASSUME NEW j \in 1 .. m PROVE v[j] \in Nat /\ Close(a * v[j], b * w[j], t)
  <2> HIDE DEF t
  <2>1. w[j] \in Nat /\ d * w[j] \in Nat
    BY DEF Summable
  <2>2. 2 * (d * w[j]) = b * w[j]
    BY <2>1
  <2> QED BY <1>1, <2>1, <2>2, RoundClose DEF t
<1>3. Summable(v, m) /\ x \in Nat
  BY <1>2, SumStep DEF Summable
<1>4. a \in Nat /\ b \in Nat
  BY <1>1
<1> HIDE DEF a, b
<1>5. Close(a * x, b * t, t * m)
  BY <1>1, <1>2, <1>3, <1>4, SumClose
<1> HIDE DEF t, x
<1>6. Close(2 * x, 2 * d, m)
  <2>1. a * x = t * (2 * x) /\ b * t = t * (2 * d)
    BY <1>1, <1>3 DEF a, b
  <2>2. t * (2 * x) - t * (2 * d) = t * (2 * x - 2 * d) /\ t * (2 * d) - t * (2 * x) = t * (2 * d - 2 * x)
    BY <1>1, <1>3
  <2>3. t * (2 * x - 2 * d) <= t * m /\ t * (2 * d - 2 * x) <= t * m
    BY <1>5, <2>1, <2>2 DEF Close
  <2> QED BY <1>1, <1>3, <2>3, Cancel DEF Close
<1> QED BY <1>3, <1>6 DEF x

\* Equal shares.
LEMMA DividedEqually ==
  ASSUME NEW m \in Nat \ {0}, NEW d \in Nat, NEW v, \A j \in 1 .. m : v[j] = Round(d, m)
  PROVE  Summable(v, m) /\ Close(2 * Sum(v, m), 2 * d, m)
<1> DEFINE w == [j \in 1 .. m |-> 1]
<1>1. Summable(w, m) /\ \A k \in 1 .. m : w[k] = 1
  BY DEF Summable
<1> HIDE DEF w
<1> DEFINE S == {k \in Nat : k <= m => Sum(w, k) = k}
<1>2. 0 \in S
  BY <1>1, SumStep
<1>3. ASSUME NEW k \in Nat, k \in S PROVE k + 1 \in S
  <2> SUFFICES ASSUME k + 1 <= m PROVE Sum(w, k + 1) = k + 1
    OBVIOUS
  <2>1. k \in 0 .. m - 1 /\ k + 1 \in 1 .. m
    OBVIOUS
  <2>2. Sum(w, k + 1) = Sum(w, k) + w[k + 1]
    BY <1>1, <2>1, SumStep
  <2> QED BY <1>1, <1>3, <2>1, <2>2
<1> HIDE DEF S
<1>4. m \in S
  BY <1>2, <1>3, AllNat
<1>5. Sum(w, m) = m /\ m > 0
  BY <1>4 DEF S
<1>6. \A j \in 1 .. m : v[j] = Round(d * w[j], Sum(w, m))
  BY <1>1, <1>5
<1> QED BY <1>1, <1>5, <1>6, Divided

\* The members of a set of indices, counted by adding.
LEMMA Counting ==
  ASSUME NEW n \in Nat, NEW I \in SUBSET (1 .. n), NEW w,
         \A k \in 1 .. n : w[k] = IF k \in I THEN 1 ELSE 0
  PROVE  Summable(w, n) /\ Sum(w, n) = Cardinality(I)
<1>1. Summable(w, n)
  BY DEF Summable
<1> DEFINE S == {k \in Nat : k <= n => /\ IsFiniteSet(I \cap (1 .. k))
                                       /\ Sum(w, k) = Cardinality(I \cap (1 .. k))}
<1>2. 0 \in S
  <2>1. I \cap (1 .. 0) = {}
    OBVIOUS
  <2>2. Sum(w, 0) = 0
    BY <1>1, SumStep
  <2> QED BY <2>1, <2>2, FS_EmptySet
<1>3. ASSUME NEW k \in Nat, k \in S PROVE k + 1 \in S
  <2> SUFFICES ASSUME k + 1 <= n
               PROVE  /\ IsFiniteSet(I \cap (1 .. k + 1))
                      /\ Sum(w, k + 1) = Cardinality(I \cap (1 .. k + 1))
    OBVIOUS
  <2> DEFINE J == I \cap (1 .. k)
  <2>1. k \in 0 .. n - 1 /\ k + 1 \in 1 .. n
    OBVIOUS
  <2>2. Sum(w, k) \in Nat /\ Sum(w, k + 1) = Sum(w, k) + w[k + 1]
    BY <1>1, <2>1, SumStep
  <2>3. IsFiniteSet(J) /\ Sum(w, k) = Cardinality(J)
    BY <1>3, <2>1
  <2>4. CASE k + 1 \in I
    <3>1. I \cap (1 .. k + 1) = J \cup {k + 1} /\ k + 1 \notin J
      BY <2>4
    <3>2. w[k + 1] = 1
      BY <2>1, <2>4
    <3>3. IsFiniteSet(J \cup {k + 1}) /\ Cardinality(J \cup {k + 1}) = Cardinality(J) + 1
      <4> HIDE DEF J
      <4> QED BY <2>3, <3>1, FS_AddElement
    <3> QED BY <2>2, <2>3, <3>1, <3>2, <3>3
  <2>5. CASE k + 1 \notin I
    <3>1. I \cap (1 .. k + 1) = J
      BY <2>5
    <3>2. w[k + 1] = 0
      BY <2>1, <2>5
    <3> QED BY <2>2, <2>3, <3>1, <3>2
  <2> QED BY <2>4, <2>5
<1> HIDE DEF S
<1>4. n \in S
  BY <1>2, <1>3, AllNat
<1>5. I \cap (1 .. n) = I
  OBVIOUS
<1> QED BY <1>1, <1>4, <1>5 DEF S

(***************************************************************************)
(* DataRecord.total.                                                       *)
(***************************************************************************)
LEMMA RowTypes ==
  ASSUME TotalsTypeOK, NEW k \in 1 .. Len(records)
  PROVE  LET r == records[k]
         IN /\ r \in UsageRow /\ r.start \in Nat /\ r.end \in Nat
            /\ r.down \in Nat /\ r.up \in Nat /\ r.un \in Nat /\ r.trust \in Trust
            /\ \A c \in Counts : r[c] \in Nat
<1>1. records[k] \in UsageRow
  BY DEF TotalsTypeOK
<1>2. MaxEnd \in Nat
  BY TotalsAssumption
<1> QED BY <1>1, <1>2 DEF UsageRow, Counts

\* What one of the samples adds to the count c of a period, whatever its trust.
Adds(samples, c, s, e, k) ==
  IF k \in samples /\ Counted(records[k], s, e) THEN PartIn(records[k], c, s, e) ELSE 0

LEMMA AddsType ==
  ASSUME TotalsTypeOK, NEW samples, NEW c \in Counts, NEW s \in Nat, NEW e \in Nat,
         NEW k \in 1 .. Len(records)
  PROVE  Adds(samples, c, s, e, k) \in Nat
<1> DEFINE r == records[k]
<1>1. r.start \in Nat /\ r.end \in Nat /\ r[c] \in Nat
  BY RowTypes
<1> HIDE DEF r
<1>2. SUFFICES ASSUME Counted(r, s, e) PROVE PartIn(r, c, s, e) \in Nat
  BY DEF Adds, r
<1>3. ~Within(r, s, e) => r.end - r.start \in Nat \ {0}
  BY <1>1, <1>2 DEF Within, Counted, EndsIn, StartsIn
<1>4. CASE Within(r, s, e)
  BY <1>1, <1>4 DEF PartIn
<1>5. CASE ~Within(r, s, e) /\ EndsIn(r, s, e)
  <2>1. r[c] * (r.end - s) \in Nat
    BY <1>1, <1>5 DEF EndsIn
  <2> QED BY <1>3, <1>5, <2>1, RoundClose DEF PartIn
<1>6. CASE ~Within(r, s, e) /\ ~EndsIn(r, s, e)
  <2>1. r[c] * (e - r.start) \in Nat
    BY <1>1, <1>2, <1>6 DEF Counted, StartsIn
  <2> QED BY <1>3, <1>6, <2>1, RoundClose DEF PartIn
<1> QED BY <1>4, <1>5, <1>6

LEMMA TotalType ==
  ASSUME TotalsTypeOK, NEW samples \in SUBSET (1 .. Len(records)), NEW c \in Counts,
         NEW s \in Nat, NEW e \in Nat
  PROVE  total(samples, s, e)[c] \in Nat
<1> DEFINE in     == {k \in samples : Counted(records[k], s, e)}
           lowest == Min({records[k].trust : k \in in})
           w      == [k \in 1 .. Len(records) |->
                        IF k \in in /\ records[k].trust = lowest THEN PartIn(records[k], c, s, e) ELSE 0]
<1>1. Summable(w, Len(records)) /\ Len(records) \in Nat
  <2>1. ASSUME NEW k \in 1 .. Len(records) PROVE w[k] \in Nat
    <3>1. Adds(samples, c, s, e, k) \in Nat
      BY AddsType
    <3> QED BY <3>1 DEF Adds
  <2>2. Len(records) \in Nat
    BY DEF TotalsTypeOK
  <2> QED BY <2>1, <2>2 DEF Summable
<1>2. Sum(w, Len(records)) \in Nat
  <2> HIDE DEF w
  <2> QED BY <1>1, SumStep
<1>3. CASE in = {}
  BY <1>3 DEF total, None
<1>4. CASE in # {}
  BY <1>2, <1>4 DEF total
<1> QED BY <1>3, <1>4

\* v is what the rows add, row by row; the samples have one level of trust.
AddsOf(v, samples, c, s, e) == \A k \in 1 .. Len(records) : v[k] = Adds(samples, c, s, e, k)
OneTrust(samples)           == \A j, k \in samples : records[j].trust = records[k].trust

\* With one level of trust the total is the sum of what the samples add.
LEMMA TotalIsSum ==
  ASSUME TotalsTypeOK, NEW samples \in SUBSET (1 .. Len(records)), NEW c \in Counts,
         NEW s \in Nat, NEW e \in Nat, NEW v,
         OneTrust(samples), AddsOf(v, samples, c, s, e)
  PROVE  Summable(v, Len(records)) /\ total(samples, s, e)[c] = Sum(v, Len(records))
<1> DEFINE in     == {k \in samples : Counted(records[k], s, e)}
           lowest == Min({records[k].trust : k \in in})
           w      == [k \in 1 .. Len(records) |->
                        IF k \in in /\ records[k].trust = lowest THEN PartIn(records[k], c, s, e) ELSE 0]
<1>1. Summable(v, Len(records)) /\ Len(records) \in Nat
  <2>1. \A k \in 1 .. Len(records) : v[k] \in Nat
    BY AddsType DEF AddsOf
  <2> QED BY <2>1 DEF Summable, TotalsTypeOK
<1>2. CASE in = {}
  <2>1. \A k \in 1 .. Len(records) : v[k] = 0
    BY <1>2 DEF Adds, AddsOf
  <2>2. Sum(v, Len(records)) = 0
    BY <1>1, <2>1, SumZero
  <2> QED BY <1>1, <1>2, <2>2 DEF total, None
<1>3. CASE in # {}
  <2>1. PICK t \in in : TRUE
    BY <1>3
  <2>2. {records[k].trust : k \in in} = {records[t].trust}
    BY <2>1 DEF OneTrust
  <2>3. records[t].trust \in Nat
    <3>1. t \in 1 .. Len(records) /\ Trust \subseteq Nat
      BY <2>1, TotalsAssumption
    <3> QED BY <3>1, RowTypes
  <2>4. lowest = records[t].trust
    <3>1. \A x \in Nat : Min({x}) = x
      BY DEF Min
    <3> QED BY <2>2, <2>3, <3>1
  <2>5. \A k \in 1 .. Len(records) : w[k] = v[k]
    <3> HIDE DEF lowest
    <3> QED BY <2>1, <2>4 DEF Adds, AddsOf, OneTrust
  <2>6. total(samples, s, e)[c] = Sum(w, Len(records))
    BY <1>3 DEF total
  <2>7. Sum(w, Len(records)) = Sum(v, Len(records))
    <3> HIDE DEF w
    <3> QED BY <1>1, <2>5, SumSame
  <2> QED BY <1>1, <2>6, <2>7
<1> QED BY <1>2, <1>3

\* Two parts of a count, rounded each, are the count but for one.
LEMMA TwoParts ==
  ASSUME NEW d \in Nat, NEW p \in Nat, NEW q \in Nat, p + q > 0
  PROVE  Close(Round(d * p, p + q) + Round(d * q, p + q), d, 1)
<1> DEFINE l == p + q
           x == Round(d * p, l)
           y == Round(d * q, l)
<1>1. l \in Nat \ {0} /\ d * p \in Nat /\ d * q \in Nat /\ d * p + d * q = l * d
  OBVIOUS
<1> HIDE DEF l
<1>2. /\ x \in Nat /\ Close((2 * l) * x, 2 * (d * p), l)
      /\ y \in Nat /\ Close((2 * l) * y, 2 * (d * q), l)
  BY <1>1, RoundClose
<1> HIDE DEF x, y
<1>3. (2 * l) * x = 2 * (l * x) /\ (2 * l) * y = 2 * (l * y)
      /\ l * x \in Int /\ l * y \in Int /\ l * d \in Int
  BY <1>1, <1>2
<1>4. (l * x + l * y) - l * d <= l /\ l * d - (l * x + l * y) <= l
  BY <1>1, <1>2, <1>3 DEF Close
<1>5. l * ((x + y) - d) <= l * 1 /\ l * (d - (x + y)) <= l * 1
  <2>1. /\ l * ((x + y) - d) = (l * x + l * y) - l * d
        /\ l * (d - (x + y)) = l * d - (l * x + l * y)
    BY <1>1, <1>2
  <2> QED BY <1>1, <1>4, <2>1
<1>6. (x + y) - d <= 1 /\ d - (x + y) <= 1
  BY <1>1, <1>2, <1>5, Cancel
<1> QED BY <1>6 DEF Close, l, x, y

\* A part that holds another is not less but for one, and not more than all
\* but for one.
LEMMA PartOfPart ==
  ASSUME NEW d \in Nat, NEW p \in Nat, NEW q \in Nat, NEW l \in Nat \ {0}, p <= q, q <= l
  PROVE  /\ Round(d * p, l) \in Nat /\ Round(d * q, l) \in Nat
         /\ Round(d * p, l) <= Round(d * q, l) + 1
         /\ Round(d * q, l) <= d + 1
<1> DEFINE x == Round(d * p, l)
           y == Round(d * q, l)
<1>1. /\ d * p \in Nat /\ d * q \in Nat /\ d * l \in Nat
      /\ d * p <= d * q /\ d * q <= d * l
  <2>1. \A m, n \in Nat : m <= n => d * m <= d * n
    OBVIOUS
  <2> QED BY <2>1
<1>2. /\ x \in Nat /\ Close((2 * l) * x, 2 * (d * p), l)
      /\ y \in Nat /\ Close((2 * l) * y, 2 * (d * q), l)
  BY <1>1, RoundClose
<1> HIDE DEF x, y
<1>3. /\ (2 * l) * x = 2 * (l * x) /\ (2 * l) * y = 2 * (l * y)
      /\ l * x \in Int /\ l * y \in Int /\ l * d \in Int /\ l * d = d * l
  BY <1>2
<1>4. l * x <= l * y + l /\ l * y <= l * d + l
  BY <1>1, <1>2, <1>3 DEF Close
<1>5. l * x <= l * (y + 1) /\ l * y <= l * (d + 1)
  <2>1. l * (y + 1) = l * y + l /\ l * (d + 1) = l * d + l
    BY <1>2
  <2> QED BY <1>4, <2>1
<1>6. x <= y + 1 /\ y <= d + 1
  BY <1>2, <1>5, Cancel
<1> QED BY <1>2, <1>6 DEF x, y

\* x and y together are z, but for i, for t more and for p less.
Splits(x, y, z, i, t, p) == (x + y) - z <= i + t /\ z - (x + y) <= i + p

\* The downloads of a sample if it is one of a set.
DownIf(k, K) == IF k \in K THEN records[k].down ELSE 0

\* What a row adds to two periods next to each other is what it adds to both,
\* or it is counted twice, or left out of one of them.
LEMMA RowSplit ==
  ASSUME TotalsTypeOK, NEW u, NEW s \in Nat, NEW m \in Nat, NEW e \in Nat, s < m, m < e,
         NEW k \in 1 .. Len(records)
  PROVE  Splits(Adds(Own(u), "down", s, m, k), Adds(Own(u), "down", m, e, k),
                Adds(Own(u), "down", s, e, k), IF k \in Own(u) THEN 1 ELSE 0,
                DownIf(k, Twice(u, m)), DownIf(k, Passed(u, s, m, e)))
<1> DEFINE r == records[k]
           a == r.start
           b == r.end
           d == r.down
           x == Adds(Own(u), "down", s, m, k)
           y == Adds(Own(u), "down", m, e, k)
           z == Adds(Own(u), "down", s, e, k)
           t == DownIf(k, Twice(u, m))
           g == DownIf(k, Passed(u, s, m, e))
<1>1. a \in Nat /\ b \in Nat /\ d \in Nat /\ r["down"] = d
  BY RowTypes
<1>2. x \in Nat /\ y \in Nat /\ z \in Nat
  BY AddsType DEF Counts
<1>3. CASE k \notin Own(u)
  BY <1>3 DEF Adds, Splits, DownIf, Twice, Passed
<1>4. CASE k \in Own(u)
  <2>1. t = (IF b <= m /\ m <= a THEN d ELSE 0)
        /\ g = (IF (a < s /\ b > m) \/ (a < m /\ b > e) THEN d ELSE 0)
    BY <1>4 DEF DownIf, Twice, Passed, Covers
  <2>2. ASSUME NEW p \in Nat, NEW q \in Nat, p < q
        PROVE  /\ a >= p /\ b <= q => Adds(Own(u), "down", p, q, k) = d
               /\ a < p /\ b > p /\ b <= q => Adds(Own(u), "down", p, q, k) = Round(d * (b - p), b - a)
               /\ a >= p /\ a < q /\ b > q => Adds(Own(u), "down", p, q, k) = Round(d * (q - a), b - a)
               /\ a < p /\ (b <= p \/ b > q) => Adds(Own(u), "down", p, q, k) = 0
               /\ a >= q /\ b > q => Adds(Own(u), "down", p, q, k) = 0
    BY <1>1, <1>4, <2>2 DEF Adds, PartIn, Counted, Within, EndsIn, StartsIn
  <2>3. t \in Nat /\ g \in Nat
    BY <1>1, <2>1
  <2>4. SUFFICES Splits(x, y, z, 1, t, g)
    BY <1>4
  <2> HIDE DEF t, g
  <2>5. CASE b <= m /\ m <= a
    <3>1. x = d /\ y = d /\ z = d /\ t = d
      BY <1>1, <2>1, <2>2, <2>5
    <3> QED BY <1>1, <2>3, <3>1 DEF Splits
  <2>6. CASE b <= a /\ a < m
    <3>1. y = 0
      BY <1>1, <2>2, <2>6
    <3>2. CASE s <= a
      <4>1. x = d /\ z = d
        BY <1>1, <2>2, <2>6, <3>2
      <4> QED BY <1>1, <2>3, <3>1, <4>1 DEF Splits
    <3>3. CASE a < s
      <4>1. x = 0 /\ z = 0
        BY <1>1, <2>2, <2>6, <3>3
      <4> QED BY <2>3, <3>1, <4>1 DEF Splits
    <3> QED BY <1>1, <3>2, <3>3
  <2>7. CASE b <= a /\ b > m
    <3>1. x = 0 /\ y = z
      BY <1>1, <2>2, <2>7
    <3> QED BY <1>2, <2>3, <3>1 DEF Splits
  <2>8. CASE a < b /\ a < s /\ b > m
    <3>1. x = 0 /\ g = d
      BY <1>1, <2>1, <2>2, <2>8
    <3>2. CASE b > e
      <4>1. y = 0 /\ z = 0
        BY <1>1, <2>2, <2>8, <3>2
      <4> QED BY <2>3, <3>1, <4>1 DEF Splits
    <3>3. CASE b <= e
      <4>1. y = Round(d * (b - m), b - a) /\ z = Round(d * (b - s), b - a)
        BY <1>1, <2>2, <2>8, <3>3
      <4>2. b - m \in Nat /\ b - s \in Nat /\ b - a \in Nat \ {0} /\ b - m <= b - s /\ b - s <= b - a
        BY <1>1, <2>8, SMTT(30)
      <4>3. /\ Round(d * (b - m), b - a) <= Round(d * (b - s), b - a) + 1
            /\ Round(d * (b - s), b - a) <= d + 1
        <5> HIDE DEF a, b, d
        <5> QED BY <1>1, <4>2, PartOfPart
      <4>4. y <= z + 1 /\ z <= d + 1
        BY <4>1, <4>3
      <4> QED BY <1>1, <1>2, <2>3, <3>1, <4>4, SMTT(30) DEF Splits
    <3> QED BY <1>1, <3>2, <3>3
  <2>9. CASE a < b /\ s <= a /\ a < m /\ b > e
    <3>1. y = 0 /\ g = d
      BY <1>1, <2>1, <2>2, <2>9
    <3>2. x = Round(d * (m - a), b - a) /\ z = Round(d * (e - a), b - a)
      BY <1>1, <2>2, <2>9
    <3>3. m - a \in Nat /\ e - a \in Nat /\ b - a \in Nat \ {0} /\ m - a <= e - a /\ e - a <= b - a
      BY <1>1, <2>9
    <3>4. /\ Round(d * (m - a), b - a) <= Round(d * (e - a), b - a) + 1
          /\ Round(d * (e - a), b - a) <= d + 1
      <4> HIDE DEF a, b, d
      <4> QED BY <1>1, <3>3, PartOfPart
    <3>5. x <= z + 1 /\ z <= d + 1
      BY <3>2, <3>4
    <3> QED BY <1>1, <1>2, <2>3, <3>1, <3>5 DEF Splits
  <2>10. CASE a < b /\ (b <= s \/ a >= e)
    <3>1. x = 0 /\ y = 0 /\ z = 0
      BY <1>1, <2>2, <2>10
    <3> QED BY <2>3, <3>1 DEF Splits
  <2>11. CASE a < b /\ b > s /\ b <= m
    <3>1. y = 0
      BY <1>1, <2>2, <2>11, SMTT(30)
    <3>2. x = z
      BY <1>1, <2>2, <2>11
    <3> QED BY <1>2, <2>3, <3>1, <3>2 DEF Splits
  <2>12. CASE a < b /\ a >= m /\ a < e
    <3>1. x = 0
      BY <1>1, <2>2, <2>12
    <3>2. y = z
      BY <1>1, <2>2, <2>12
    <3> QED BY <1>2, <2>3, <3>1, <3>2 DEF Splits
  <2>13. CASE s <= a /\ a < m /\ m < b /\ b <= e
    <3>1. x = Round(d * (m - a), b - a) /\ y = Round(d * (b - m), b - a) /\ z = d
      BY <1>1, <2>2, <2>13
    <3>2. m - a \in Nat /\ b - m \in Nat /\ (m - a) + (b - m) = b - a /\ b - a > 0
      BY <1>1, <2>13, SMTT(30)
    <3>3. Close(Round(d * (m - a), b - a) + Round(d * (b - m), b - a), d, 1)
      BY <1>1, <3>2, TwoParts
    <3> QED BY <1>1, <1>2, <2>3, <3>1, <3>3, SMTT(30) DEF Splits, Close
  <2> QED BY <1>1, <2>5, <2>6, <2>7, <2>8, <2>9, <2>10, <2>11, <2>12, <2>13
<1> QED BY <1>3, <1>4

LEMMA SumTwo ==
  ASSUME NEW n \in Nat, NEW x, NEW y, NEW z, NEW i,
         Summable(x, n), Summable(y, n), Summable(z, n), Summable(i, n),
         \A k \in 1 .. n : Close(x[k] + y[k], z[k], i[k])
  PROVE  Close(Sum(x, n) + Sum(y, n), Sum(z, n), Sum(i, n))
<1> DEFINE S == {m \in Nat : m <= n =>
                   Close(Sum(x, m) + Sum(y, m), Sum(z, m), Sum(i, m))}
<1>1. 0 \in S
  BY SumStep DEF Close
<1>2. ASSUME NEW m \in Nat, m \in S PROVE m + 1 \in S
  <2> SUFFICES ASSUME m + 1 <= n
               PROVE  Close(Sum(x, m + 1) + Sum(y, m + 1), Sum(z, m + 1), Sum(i, m + 1))
    OBVIOUS
  <2>1. m \in 0 .. n - 1 /\ m + 1 \in 1 .. n
    OBVIOUS
  <2>2. Sum(x, m) \in Nat /\ Sum(x, m + 1) = Sum(x, m) + x[m + 1]
    BY <2>1, SumStep
  <2>3. Sum(y, m) \in Nat /\ Sum(y, m + 1) = Sum(y, m) + y[m + 1]
    BY <2>1, SumStep
  <2>4. Sum(z, m) \in Nat /\ Sum(z, m + 1) = Sum(z, m) + z[m + 1]
    BY <2>1, SumStep
  <2>5. Sum(i, m) \in Nat /\ Sum(i, m + 1) = Sum(i, m) + i[m + 1]
    BY <2>1, SumStep
  <2>6. x[m + 1] \in Nat /\ y[m + 1] \in Nat /\ z[m + 1] \in Nat /\ i[m + 1] \in Nat
    BY <2>1 DEF Summable
  <2>7. /\ Close(Sum(x, m) + Sum(y, m), Sum(z, m), Sum(i, m))
        /\ Close(x[m + 1] + y[m + 1], z[m + 1], i[m + 1])
    BY <1>2, <2>1
  <2> QED BY <2>2, <2>3, <2>4, <2>5, <2>6, <2>7 DEF Close
<1> HIDE DEF S
<1>3. n \in S
  BY <1>1, <1>2, AllNat
<1> QED BY <1>3 DEF S

LEMMA SumSplits ==
  ASSUME NEW n \in Nat, NEW x, NEW y, NEW z, NEW i, NEW t, NEW p,
         Summable(x, n), Summable(y, n), Summable(z, n), Summable(i, n), Summable(t, n), Summable(p, n),
         \A k \in 1 .. n : Splits(x[k], y[k], z[k], i[k], t[k], p[k])
  PROVE  Splits(Sum(x, n), Sum(y, n), Sum(z, n), Sum(i, n), Sum(t, n), Sum(p, n))
<1> DEFINE S == {m \in Nat : m <= n =>
                   Splits(Sum(x, m), Sum(y, m), Sum(z, m), Sum(i, m), Sum(t, m), Sum(p, m))}
<1>1. 0 \in S
  <2>1. Sum(x, 0) = 0 /\ Sum(y, 0) = 0 /\ Sum(z, 0) = 0
    BY SumStep
  <2>2. Sum(i, 0) = 0 /\ Sum(t, 0) = 0 /\ Sum(p, 0) = 0
    BY SumStep
  <2> QED BY <2>1, <2>2 DEF Splits
<1>2. ASSUME NEW m \in Nat, m \in S PROVE m + 1 \in S
  <2> SUFFICES ASSUME m + 1 <= n
               PROVE  Splits(Sum(x, m + 1), Sum(y, m + 1), Sum(z, m + 1), Sum(i, m + 1),
                             Sum(t, m + 1), Sum(p, m + 1))
    OBVIOUS
  <2>1. m \in 0 .. n - 1 /\ m + 1 \in 1 .. n
    OBVIOUS
  <2>2. Sum(x, m) \in Nat /\ Sum(x, m + 1) = Sum(x, m) + x[m + 1]
    BY <2>1, SumStep
  <2>3. Sum(y, m) \in Nat /\ Sum(y, m + 1) = Sum(y, m) + y[m + 1]
    BY <2>1, SumStep
  <2>4. Sum(z, m) \in Nat /\ Sum(z, m + 1) = Sum(z, m) + z[m + 1]
    BY <2>1, SumStep
  <2>5. Sum(i, m) \in Nat /\ Sum(i, m + 1) = Sum(i, m) + i[m + 1]
    BY <2>1, SumStep
  <2>6. Sum(t, m) \in Nat /\ Sum(t, m + 1) = Sum(t, m) + t[m + 1]
    BY <2>1, SumStep
  <2>7. Sum(p, m) \in Nat /\ Sum(p, m + 1) = Sum(p, m) + p[m + 1]
    BY <2>1, SumStep
  <2>8. /\ x[m + 1] \in Nat /\ y[m + 1] \in Nat /\ z[m + 1] \in Nat
        /\ i[m + 1] \in Nat /\ t[m + 1] \in Nat /\ p[m + 1] \in Nat
    BY <2>1 DEF Summable
  <2>9. /\ Splits(Sum(x, m), Sum(y, m), Sum(z, m), Sum(i, m), Sum(t, m), Sum(p, m))
        /\ Splits(x[m + 1], y[m + 1], z[m + 1], i[m + 1], t[m + 1], p[m + 1])
    BY <1>2, <2>1
  <2> QED BY <2>2, <2>3, <2>4, <2>5, <2>6, <2>7, <2>8, <2>9 DEF Splits
<1> HIDE DEF S
<1>3. n \in S
  BY <1>1, <1>2, AllNat
<1> QED BY <1>3 DEF S

\* The downloads of some samples are a sum.
LEMMA DownOfIs ==
  ASSUME TotalsTypeOK, NEW K, NEW w, w = [k \in 1 .. Len(records) |-> DownIf(k, K)]
  PROVE  Summable(w, Len(records)) /\ DownOf(K) = Sum(w, Len(records))
<1>1. \A k \in 1 .. Len(records) : records[k].down \in Nat
  BY RowTypes
<1>2. Summable(w, Len(records))
  BY <1>1 DEF Summable, DownIf
<1>3. w = [k \in 1 .. Len(records) |-> IF k \in K THEN records[k].down ELSE 0]
  BY DEF DownIf
<1> QED BY <1>2, <1>3 DEF DownOf

LEMMA TotalsDivideTime == ASSUME TotalsTypeOK PROVE TotalsSplit
<1> SUFFICES ASSUME NEW u \in Users, NEW s \in 0 .. MaxEnd, NEW m \in 0 .. MaxEnd, NEW e \in 0 .. MaxEnd,
                    s < m, m < e,
                    \A j, k \in Own(u) : records[j].trust = records[k].trust
             PROVE  /\ total(Own(u), s, m).down \in Nat /\ total(Own(u), m, e).down \in Nat
                    /\ total(Own(u), s, e).down \in Nat /\ Cardinality(Own(u)) \in Nat
                    /\ DownOf(Twice(u, m)) \in Nat /\ DownOf(Passed(u, s, m, e)) \in Nat
                    /\ Splits(total(Own(u), s, m).down, total(Own(u), m, e).down,
                              total(Own(u), s, e).down, Cardinality(Own(u)),
                              DownOf(Twice(u, m)), DownOf(Passed(u, s, m, e)))
  BY DEF Splits, TotalsSplit
<1> DEFINE n == Len(records)
           x == [k \in 1 .. n |-> Adds(Own(u), "down", s, m, k)]
           y == [k \in 1 .. n |-> Adds(Own(u), "down", m, e, k)]
           z == [k \in 1 .. n |-> Adds(Own(u), "down", s, e, k)]
           i == [k \in 1 .. n |-> IF k \in Own(u) THEN 1 ELSE 0]
           t == [k \in 1 .. n |-> DownIf(k, Twice(u, m))]
           p == [k \in 1 .. n |-> DownIf(k, Passed(u, s, m, e))]
<1>1. n \in Nat /\ s \in Nat /\ m \in Nat /\ e \in Nat
      /\ "down" \in Counts /\ Own(u) \in SUBSET (1 .. n)
  BY TotalsAssumption DEF TotalsTypeOK, Counts, Own
<1>2. OneTrust(Own(u))
  BY DEF OneTrust
<1>3. \A k \in 1 .. n : Splits(x[k], y[k], z[k], i[k], t[k], p[k])
  BY <1>1, RowSplit
<1>4. Summable(x, n) /\ total(Own(u), s, m).down = Sum(x, n)
  <2>1. AddsOf(x, Own(u), "down", s, m)
    BY DEF AddsOf
  <2> HIDE DEF x
  <2> QED BY <1>1, <1>2, <2>1, TotalIsSum
<1>5. Summable(y, n) /\ total(Own(u), m, e).down = Sum(y, n)
  <2>1. AddsOf(y, Own(u), "down", m, e)
    BY DEF AddsOf
  <2> HIDE DEF y
  <2> QED BY <1>1, <1>2, <2>1, TotalIsSum
<1>6. Summable(z, n) /\ total(Own(u), s, e).down = Sum(z, n)
  <2>1. AddsOf(z, Own(u), "down", s, e)
    BY DEF AddsOf
  <2> HIDE DEF z
  <2> QED BY <1>1, <1>2, <2>1, TotalIsSum
<1>7. Summable(i, n) /\ Sum(i, n) = Cardinality(Own(u))
  <2>1. \A k \in 1 .. n : i[k] = IF k \in Own(u) THEN 1 ELSE 0
    OBVIOUS
  <2> HIDE DEF i
  <2> QED BY <1>1, <2>1, Counting
<1>8. Summable(t, n) /\ DownOf(Twice(u, m)) = Sum(t, n)
  BY DownOfIs
<1>9. Summable(p, n) /\ DownOf(Passed(u, s, m, e)) = Sum(p, n)
  BY DownOfIs
<1> HIDE DEF x, y, z, i, t, p, n
<1>10. Splits(Sum(x, n), Sum(y, n), Sum(z, n), Sum(i, n), Sum(t, n), Sum(p, n))
  BY <1>1, <1>3, <1>4, <1>5, <1>6, <1>7, <1>8, <1>9, SumSplits
<1>11. Sum(x, n) \in Nat /\ Sum(y, n) \in Nat /\ Sum(z, n) \in Nat
  BY <1>1, <1>4, <1>5, <1>6, SumStep
<1>12. Sum(i, n) \in Nat /\ Sum(t, n) \in Nat /\ Sum(p, n) \in Nat
  BY <1>1, <1>7, <1>8, <1>9, SumStep
<1> QED BY <1>4, <1>5, <1>6, <1>7, <1>8, <1>9, <1>10, <1>11, <1>12

-----------------------------------------------------------------------------
\* Controller.putData: v are shares of a count d by quotas q or by use t, as h says.
SharesBy(v, m, d, q, t, h) ==
  \A j \in 1 .. m : v[j] = IF Sum(q, m) = 0 THEN Round(d, m)
                           ELSE IF h = 0 THEN Round(d * q[j], Sum(q, m))
                           ELSE IF t[j] > 0 THEN Round(d * t[j], Sum(t, m)) ELSE 0

LEMMA SharesOf ==
  ASSUME NEW m \in Nat \ {0}, NEW d \in Nat, NEW q, NEW t, NEW h \in Nat, Summable(q, m), Summable(t, m),
         NEW v, SharesBy(v, m, d, q, t, h)
  PROVE  /\ Summable(v, m)
         /\ IF Sum(q, m) > 0 /\ h > 0 /\ Sum(t, m) = 0 THEN Sum(v, m) = 0
            ELSE Close(2 * Sum(v, m), 2 * d, m)
<1>0. Sum(q, m) \in Nat /\ Sum(t, m) \in Nat
  <2>1. Sum(q, m) \in Nat
    BY SumStep
  <2>2. Sum(t, m) \in Nat
    BY SumStep
  <2> QED BY <2>1, <2>2
<1>1. CASE Sum(q, m) = 0
  <2>1. \A j \in 1 .. m : v[j] = Round(d, m)
    BY <1>1 DEF SharesBy
  <2> QED BY <1>1, <2>1, DividedEqually
<1>2. CASE Sum(q, m) > 0 /\ h = 0
  <2>1. \A j \in 1 .. m : v[j] = Round(d * q[j], Sum(q, m))
    BY <1>2 DEF SharesBy
  <2> QED BY <1>2, <2>1, Divided
<1>3. CASE Sum(q, m) > 0 /\ h > 0 /\ Sum(t, m) > 0
  <2>1. ASSUME NEW j \in 1 .. m PROVE v[j] = Round(d * t[j], Sum(t, m))
    <3>1. t[j] \in Nat
      BY DEF Summable
    <3>2. CASE t[j] > 0
      BY <1>3, <3>2 DEF SharesBy
    <3>3. CASE t[j] = 0
      <4>1. v[j] = 0 /\ d * t[j] = 0
        BY <1>3, <3>3 DEF SharesBy
      <4>2. Round(0, Sum(t, m)) = 0
        BY <1>0, <1>3, RoundNone
      <4> QED BY <4>1, <4>2
    <3> QED BY <3>1, <3>2, <3>3
  <2> QED BY <1>3, <2>1, Divided
<1>4. CASE Sum(q, m) > 0 /\ h > 0 /\ Sum(t, m) = 0
  <2>1. ASSUME NEW j \in 1 .. m PROVE v[j] = 0
    <3>1. t[j] \in Nat /\ t[j] <= Sum(t, m)
      BY SumAtLeast DEF Summable
    <3> QED BY <1>4, <3>1 DEF SharesBy
  <2>2. Sum(v, m) = 0
    BY <2>1, SumZero
  <2>3. Summable(v, m)
    BY <2>1 DEF Summable
  <2> QED BY <1>4, <2>2, <2>3
<1> QED BY <1>0, <1>1, <1>2, <1>3, <1>4

Record == [start : 0 .. MaxEnd, end : 0 .. MaxEnd, down : Nat, up : Nat, un : Nat]

\* What a record of which nothing is stored is lost of.
LostOf(data, d, us, c) == IF c = "up" /\ Unused(data, d, us) THEN d.up ELSE 0

\* t is what the users have used in the record's time, q their quotas.
UseOf(t, us, data, d, c) == \A j \in 1 .. Len(us) : t[j] = uTotals(data, d, us[j])[c]
QuotaOf(q, us, c)  == \A j \in 1 .. Len(us) : q[j] = quota[us[j]][c]

LEMMA GrandType ==
  ASSUME TotalsTypeOK, NEW us \in Lists, NEW data, NEW d \in Record, NEW c \in Counts,
         NEW t, UseOf(t, us, data, d, c)
  PROVE  Summable(t, Len(us)) /\ grandTotal(data, d, us, c) = Sum(t, Len(us))
         /\ grandTotal(data, d, us, c) \in Nat
<1> DEFINE w == [j \in 1 .. Len(us) |-> uTotals(data, d, us[j])[c]]
<1>1. Len(us) \in Nat /\ d.start \in Nat /\ d.end \in Nat
  BY TotalsAssumption DEF Record
<1>2. ASSUME NEW j \in 1 .. Len(us) PROVE uTotals(data, d, us[j])[c] \in Nat
  <2> DEFINE samples == getData(us[j], first(data), last(data))
  <2>1. samples \in SUBSET (1 .. Len(records))
    BY DEF getData, Own
  <2>2. uTotals(data, d, us[j]) = total(samples, d.start, d.end)
    BY DEF uTotals
  <2> HIDE DEF samples
  <2> QED BY <1>1, <2>1, <2>2, TotalType
<1>3. Summable(t, Len(us)) /\ \A j \in 1 .. Len(us) : w[j] = t[j]
  BY <1>2 DEF Summable, UseOf
<1>4. grandTotal(data, d, us, c) = Sum(w, Len(us))
  BY DEF grandTotal
<1> HIDE DEF w
<1>5. Sum(w, Len(us)) = Sum(t, Len(us)) /\ Sum(t, Len(us)) \in Nat
  <2>1. Sum(w, Len(us)) = Sum(t, Len(us))
    BY <1>1, <1>3, SumSame
  <2>2. Sum(t, Len(us)) \in Nat
    BY <1>1, <1>3, SumStep
  <2> QED BY <2>1, <2>2
<1> QED BY <1>3, <1>4, <1>5

LEMMA LimitType ==
  ASSUME TotalsTypeOK, NEW us \in Lists, NEW c \in {"down", "up"},
         NEW q, QuotaOf(q, us, c)
  PROVE  Summable(q, Len(us)) /\ limitTotal(us, c) = Sum(q, Len(us))
<1> DEFINE w == [j \in 1 .. Len(us) |-> quota[us[j]][c]]
<1>1. Len(us) \in Nat /\ us \in Seq(Users) /\ Quotas \subseteq Nat
  BY TotalsAssumption
<1>2. ASSUME NEW j \in 1 .. Len(us) PROVE quota[us[j]][c] \in Nat
  <2>1. quota[us[j]] \in [down : Quotas, up : Quotas]
    BY <1>1 DEF TotalsTypeOK
  <2> QED BY <1>1, <2>1
<1>3. Summable(q, Len(us)) /\ \A j \in 1 .. Len(us) : w[j] = q[j]
  BY <1>2 DEF Summable, QuotaOf
<1>4. limitTotal(us, c) = Sum(w, Len(us))
  BY DEF limitTotal
<1> HIDE DEF w
<1>5. Sum(w, Len(us)) = Sum(q, Len(us))
  BY <1>1, <1>3, SumSame
<1> QED BY <1>3, <1>4, <1>5

\* v are the shares of the users in the record d.
SharesFrom(v, us, data, d, trust, c) ==
  \A j \in 1 .. Len(us) : v[j] = SharedRow(data, d, us, us[j], trust)[c]

\* The shares of one record add up to it, but for the uploads nobody gets.
LEMMA RecordShares ==
  ASSUME TotalsTypeOK, NEW us \in Lists, NEW data, NEW d \in Record, NEW trust, NEW c \in Counts,
         NEW v, SharesFrom(v, us, data, d, trust, c)
  PROVE  Summable(v, Len(us)) /\ Close(2 * (Sum(v, Len(us)) + LostOf(data, d, us, c)), 2 * d[c], Len(us))
<1> USE DEF SharesFrom
<1> DEFINE m  == Len(us)
           q(x) == [j \in 1 .. m |-> quota[us[j]][x]]
           t(x) == [j \in 1 .. m |-> uTotals(data, d, us[j])[x]]
<1>1. m \in Nat \ {0} /\ us \in Seq(Users)
  BY TotalsAssumption
<1>2. ASSUME NEW x \in Counts
      PROVE  /\ Summable(t(x), m) /\ grandTotal(data, d, us, x) = Sum(t(x), m)
             /\ grandTotal(data, d, us, x) \in Nat
             /\ \A j \in 1 .. m : t(x)[j] = uTotals(data, d, us[j])[x]
  <2>1. UseOf(t(x), us, data, d, x)
    BY DEF UseOf
  <2> HIDE DEF t
  <2>2. Summable(t(x), Len(us)) /\ grandTotal(data, d, us, x) = Sum(t(x), Len(us))
        /\ grandTotal(data, d, us, x) \in Nat
    BY <2>1, GrandType
  <2> QED BY <2>1, <2>2 DEF UseOf
<1>3. ASSUME NEW x \in {"down", "up"}
      PROVE  /\ Summable(q(x), m) /\ limitTotal(us, x) = Sum(q(x), m)
             /\ limitTotal(us, x) \in Nat
             /\ \A j \in 1 .. m : q(x)[j] = quota[us[j]][x]
  <2>1. QuotaOf(q(x), us, x)
    BY DEF QuotaOf
  <2> HIDE DEF q
  <2>2. Summable(q(x), m) /\ limitTotal(us, x) = Sum(q(x), m)
    BY <2>1, LimitType
  <2>3. Sum(q(x), m) \in Nat
    BY <1>1, <2>2, SumStep
  <2> QED BY <2>1, <2>2, <2>3 DEF QuotaOf
<1> HIDE DEF q, t
<1>4. "down" \in Counts /\ "up" \in Counts /\ "un" \in Counts /\ "down" \in {"down", "up"}
      /\ "up" \in {"down", "up"}
  BY DEF Counts
<1> DEFINE h == grandTotal(data, d, us, "down")
<1>5. h \in Nat /\ d.down \in Nat /\ d.up \in Nat /\ d.un \in Nat
  BY <1>2, <1>4 DEF Record
<1>6. CASE c = "down"
  <2> DEFINE Q == q("down")
             T == t("down")
             n == d.down
  <2>1. SharesBy(v, m, n, Q, T, h)
    <3>1. ASSUME NEW j \in 1 .. m PROVE v[j] = DownShare(data, d, us, us[j])
      BY <1>6 DEF SharedRow
    <3> QED BY <1>2, <1>3, <1>4, <3>1 DEF DownShare, SharesBy
  <2>2. h = Sum(T, m) /\ LostOf(data, d, us, c) = 0
    BY <1>2, <1>4, <1>6 DEF LostOf
  <2>3. Summable(Q, m) /\ Summable(T, m)
    BY <1>2, <1>3, <1>4
  <2>6. n \in Nat /\ d[c] = n
    BY <1>5, <1>6
  <2> HIDE DEF h, m, Q, T, n
  <2>4. Summable(v, m) /\ Close(2 * Sum(v, m), 2 * n, m)
    BY <1>1, <1>5, <2>6, <2>1, <2>2, <2>3, SharesOf
  <2>5. Sum(v, m) \in Nat
    BY <1>1, <2>4, SumStep
  <2> QED BY <1>6, <2>6, <2>2, <2>4, <2>5 DEF m
<1>7. CASE c = "up"
  <2> DEFINE Q == q("up")
             T == t("up")
             n == d.up
  <2>1. SharesBy(v, m, n, Q, T, h)
    <3>1. ASSUME NEW j \in 1 .. m PROVE v[j] = UpShare(data, d, us, us[j])
      BY <1>7 DEF SharedRow
    <3> QED BY <1>2, <1>3, <1>4, <3>1 DEF UpShare, SharesBy
  <2>2. /\ Unused(data, d, us) <=> Sum(Q, m) > 0 /\ h > 0 /\ Sum(T, m) = 0
        /\ LostOf(data, d, us, c) = IF Unused(data, d, us) THEN n ELSE 0
    BY <1>2, <1>3, <1>4, <1>7 DEF Unused, LostOf
  <2>3. Summable(Q, m) /\ Summable(T, m)
    BY <1>2, <1>3, <1>4
  <2>6. n \in Nat /\ d[c] = n
    BY <1>5, <1>7
  <2> HIDE DEF h, m, Q, T, n
  <2>4. Summable(v, m) /\ IF Unused(data, d, us) THEN Sum(v, m) = 0
                          ELSE Close(2 * Sum(v, m), 2 * n, m)
    BY <1>1, <1>5, <2>6, <2>1, <2>2, <2>3, SharesOf
  <2>5. Sum(v, m) \in Nat
    BY <1>1, <2>4, SumStep
  <2> QED BY <1>1, <1>5, <1>7, <2>6, <2>2, <2>4, <2>5 DEF m, Close
<1>8. CASE c = "un"
  <2> DEFINE T == t("un")
             n == d.un
  <2>1. ASSUME NEW j \in 1 .. m
        PROVE  v[j] = IF Sum(T, m) = 0 THEN Round(n, m)
                      ELSE Round(n * T[j], Sum(T, m))
    <3>1. v[j] = UnShare(data, d, us, us[j])
      BY <1>8 DEF SharedRow
    <3> QED BY <1>2, <1>4, <3>1 DEF UnShare
  <2>2. Summable(T, m) /\ Sum(T, m) \in Nat /\ LostOf(data, d, us, c) = 0
    BY <1>2, <1>4, <1>8 DEF LostOf
  <2>6. n \in Nat /\ d[c] = n
    BY <1>5, <1>8
  <2> HIDE DEF m, T, n
  <2>3. Summable(v, m) /\ Close(2 * Sum(v, m), 2 * n, m)
    <3>1. CASE Sum(T, m) = 0
      BY <1>1, <2>6, <2>1, <3>1, DividedEqually
    <3>2. CASE Sum(T, m) # 0
      <4>1. \A j \in 1 .. m : v[j] = Round(n * T[j], Sum(T, m))
        BY <2>1, <3>2
      <4>2. Sum(T, m) > 0
        BY <2>2, <3>2
      <4> QED BY <1>1, <2>6, <2>2, <4>1, <4>2, Divided
    <3> QED BY <3>1, <3>2
  <2>4. Sum(v, m) \in Nat
    BY <1>1, <2>3, SumStep
  <2> QED BY <1>8, <2>6, <2>2, <2>3, <2>4 DEF m
<1> QED BY <1>6, <1>7, <1>8 DEF Counts

-----------------------------------------------------------------------------
\* The place of a row among the rows of its record.
LEMMA PlaceOf ==
  ASSUME NEW m \in Nat \ {0}, NEW r \in Nat, NEW k \in 1 .. r * m
  PROVE  ((k - 1) \div m) + 1 \in 1 .. r /\ ((k - 1) % m) + 1 \in 1 .. m
<1> DEFINE q == (k - 1) \div m
<1>1. r * m \in Nat /\ k - 1 \in Nat /\ k - 1 < r * m
  OBVIOUS
<1>2. q \in Nat /\ m * q <= k - 1 /\ (k - 1) % m \in 0 .. m - 1
  BY <1>1
<1> HIDE DEF q
<1>3. q < r
  <2> SUFFICES ASSUME r <= q PROVE FALSE
    BY <1>2
  <2>1. m * r <= m * q
    BY <1>2
  <2>2. m * r = r * m
    OBVIOUS
  <2>3. m * q \in Int /\ m * r \in Int
    BY <1>2
  <2> QED BY <1>1, <1>2, <2>1, <2>2, <2>3
<1>4. q + 1 \in 1 .. r
  BY <1>2, <1>3
<1> QED BY <1>2, <1>4 DEF q

\* The row of the j-th user for the i-th record.
LEMMA PlaceIs ==
  ASSUME NEW m \in Nat \ {0}, NEW r \in Nat, NEW i \in 1 .. r, NEW j \in 1 .. m
  PROVE  /\ (i - 1) * m + j \in 1 .. r * m
         /\ (((i - 1) * m + j - 1) \div m) + 1 = i /\ (((i - 1) * m + j - 1) % m) + 1 = j
<1> DEFINE a == (i - 1) * m + j - 1
           q == a \div m
           p == i - 1
<1>1. p \in Nat /\ i = p + 1 /\ p < r
  OBVIOUS
<1>2. p * m \in Nat /\ a = p * m + (j - 1) /\ a \in Nat /\ m * p = p * m
  BY <1>1
<1> HIDE DEF a, p
<1>3. q \in Nat /\ m * q <= a /\ a < m * q + m /\ a % m = a - m * q
  BY <1>2
<1> HIDE DEF q
<1>4. q = p
  <2>1. CASE q > p
    <3>1. m * (p + 1) <= m * q
      BY <1>1, <1>3, <2>1
    <3>2. m * (p + 1) = p * m + m /\ m * q \in Int
      BY <1>1, <1>3
    <3> QED BY <1>2, <1>3, <3>1, <3>2
  <2>2. CASE q < p
    <3>1. m * (q + 1) <= m * p
      BY <1>1, <1>3, <2>2
    <3>2. m * (q + 1) = m * q + m /\ m * q \in Int
      BY <1>1, <1>3
    <3> QED BY <1>2, <1>3, <3>1, <3>2
  <2> QED BY <1>1, <1>3, <2>1, <2>2
<1>5. a % m = j - 1
  BY <1>2, <1>3, <1>4
<1>6. p * m + j \in 1 .. r * m
  <2>1. m * (p + 1) <= m * r
    BY <1>1
  <2>2. m * (p + 1) = p * m + m /\ m * r = r * m /\ r * m \in Int
    BY <1>1
  <2> QED BY <1>2, <2>1, <2>2
<1>7. (q + 1 = i) /\ (a % m) + 1 = j
  BY <1>1, <1>4, <1>5
<1> QED BY <1>6, <1>7 DEF a, q, p

LEMMA RecordTypes ==
  ASSUME TotalsTypeOK, NEW data \in Data, NEW i \in 1 .. Len(data)
  PROVE  data[i] \in Record /\ \A c \in Counts : data[i][c] \in Nat
<1>1. data \in Seq(Record)
  BY TotalsAssumption DEF Record
<1>2. data[i] \in Record
  BY <1>1
<1> QED BY <1>2 DEF Record, Counts

LEMMA ShareType ==
  ASSUME TotalsTypeOK, NEW us \in Lists, NEW data, NEW d \in Record, NEW trust, NEW c \in Counts,
         NEW j \in 1 .. Len(us)
  PROVE  SharedRow(data, d, us, us[j], trust)[c] \in Nat
<1> DEFINE v == [i \in 1 .. Len(us) |-> SharedRow(data, d, us, us[i], trust)[c]]
<1>1. \A i \in 1 .. Len(us) : v[i] = SharedRow(data, d, us, us[i], trust)[c]
  OBVIOUS
<1> HIDE DEF v
<1>2. SharesFrom(v, us, data, d, trust, c)
  BY <1>1 DEF SharesFrom
<1>3. Summable(v, Len(us))
  BY <1>2, RecordShares
<1> QED BY <1>1, <1>3 DEF Summable

\* What is lost of all records.
LostAll(us, data, c) == IF c = "up" THEN Lost(us, data) ELSE 0

LEMMA LostIsSum ==
  ASSUME TotalsTypeOK, NEW us \in Lists, NEW data \in Data, NEW c \in Counts,
         NEW l, \A i \in 1 .. Len(data) : l[i] = LostOf(data, data[i], us, c)
  PROVE  Summable(l, Len(data)) /\ Sum(l, Len(data)) = LostAll(us, data, c)
         /\ LostAll(us, data, c) \in Nat
<1>1. Len(data) \in Nat
  BY TotalsAssumption
<1>2. Summable(l, Len(data))
  <2>1. ASSUME NEW i \in 1 .. Len(data) PROVE l[i] \in Nat
    <3>1. data[i].up \in Nat
      BY RecordTypes DEF Record
    <3> QED BY <3>1 DEF LostOf
  <2> QED BY <2>1 DEF Summable
<1>3. CASE c = "up"
  <2> DEFINE w == [k \in 1 .. Len(data) |-> IF Unused(data, data[k], us) THEN data[k].up ELSE 0]
  <2>1. \A i \in 1 .. Len(data) : w[i] = l[i]
    BY <1>3 DEF LostOf
  <2>2. LostAll(us, data, c) = Sum(w, Len(data))
    BY <1>3 DEF LostAll, Lost
  <2> HIDE DEF w
  <2>3. Sum(w, Len(data)) = Sum(l, Len(data))
    BY <1>1, <1>2, <2>1, SumSame
  <2>4. Sum(l, Len(data)) \in Nat
    BY <1>1, <1>2, SumStep
  <2> QED BY <1>2, <2>2, <2>3, <2>4
<1>4. CASE c # "up"
  <2>1. \A i \in 1 .. Len(data) : l[i] = 0
    BY <1>4 DEF LostOf
  <2>2. Sum(l, Len(data)) = 0
    BY <1>1, <2>1, SumZero
  <2> QED BY <1>2, <1>4, <2>2 DEF LostAll
<1> QED BY <1>3, <1>4

LEMMA AmountIsSum ==
  ASSUME NEW s, Len(s) \in Nat, NEW c, NEW a, \A i \in 1 .. Len(s) : a[i] = s[i][c] /\ s[i][c] \in Nat
  PROVE  Summable(a, Len(s)) /\ AmountOf(s, c) = Sum(a, Len(s)) /\ AmountOf(s, c) \in Nat
<1> DEFINE w == [k \in 1 .. Len(s) |-> s[k][c]]
<1>1. Summable(a, Len(s)) /\ \A i \in 1 .. Len(s) : w[i] = a[i]
  BY DEF Summable
<1>2. AmountOf(s, c) = Sum(w, Len(s))
  BY DEF AmountOf
<1> HIDE DEF w
<1>3. Sum(w, Len(s)) = Sum(a, Len(s))
  BY <1>1, SumSame
<1>4. Sum(a, Len(s)) \in Nat
  BY <1>1, SumStep
<1> QED BY <1>1, <1>2, <1>3, <1>4

\* All the shares of a request add up to what it brought, but for what is lost.
LEMMA RequestShares ==
  ASSUME TotalsTypeOK, NEW us \in Lists, NEW data \in Data, NEW trust, NEW c \in Counts, NEW w,
         \A k \in 1 .. Len(data) * Len(us) :
           w[k] = SharedRow(data, RecordAt(us, data, k), us, UserAt(us, k), trust)[c]
  PROVE  /\ Summable(w, Len(data) * Len(us))
         /\ AmountOf(data, c) \in Nat /\ LostAll(us, data, c) \in Nat
         /\ Close(2 * (Sum(w, Len(data) * Len(us)) + LostAll(us, data, c)),
                  2 * AmountOf(data, c), Len(data) * Len(us))
<1> DEFINE m == Len(us)
           r == Len(data)
           u(i) == [j \in 1 .. m |-> w[(i - 1) * m + j]]
           v == [i \in 1 .. r |-> Sum(u(i), m)]
           l == [i \in 1 .. r |-> LostOf(data, data[i], us, c)]
           a == [i \in 1 .. r |-> data[i][c]]
           s == [i \in 1 .. r |-> v[i] + l[i]]
           z == [i \in 1 .. r |-> 0]
<1>1. m \in Nat \ {0} /\ r \in Nat
  BY TotalsAssumption
<1>2. Summable(w, r * m)
  <2>1. ASSUME NEW k \in 1 .. r * m PROVE w[k] \in Nat
    <3> DEFINE i == ((k - 1) \div m) + 1
               j == ((k - 1) % m) + 1
    <3>1. i \in 1 .. r /\ j \in 1 .. m
      <4> HIDE DEF m, r
      <4> QED BY <1>1, PlaceOf
    <3>2. w[k] = SharedRow(data, data[i], us, us[j], trust)[c]
      BY DEF RecordAt, UserAt
    <3> HIDE DEF i, j
    <3>3. data[i] \in Record
      BY <3>1, RecordTypes
    <3> QED BY <3>1, <3>2, <3>3, ShareType
  <2> QED BY <2>1 DEF Summable
<1>3. ASSUME NEW i \in 1 .. r
      PROVE  /\ Summable(u(i), m) /\ v[i] = Sum(u(i), m)
             /\ \A j \in 1 .. m : u(i)[j] = w[(i - 1) * m + j]
             /\ Close(2 * (v[i] + l[i]), 2 * data[i][c], m)
  <2>1. ASSUME NEW j \in 1 .. m PROVE u(i)[j] = SharedRow(data, data[i], us, us[j], trust)[c]
    <3> DEFINE k == (i - 1) * m + j
    <3>1. k \in 1 .. r * m /\ ((k - 1) \div m) + 1 = i /\ ((k - 1) % m) + 1 = j
      <4> HIDE DEF m, r
      <4> QED BY <1>1, PlaceIs
    <3>2. u(i)[j] = w[k]
      OBVIOUS
    <3> HIDE DEF k, u
    <3>3. w[k] = SharedRow(data, RecordAt(us, data, k), us, UserAt(us, k), trust)[c]
      BY <3>1
    <3>4. RecordAt(us, data, k) = data[i] /\ UserAt(us, k) = us[j]
      BY <3>1 DEF RecordAt, UserAt
    <3> QED BY <3>2, <3>3, <3>4
  <2>2. \A j \in 1 .. m : u(i)[j] = w[(i - 1) * m + j]
    OBVIOUS
  <2>3. v[i] = Sum(u(i), m) /\ l[i] = LostOf(data, data[i], us, c)
    OBVIOUS
  <2>4. data[i] \in Record
    BY RecordTypes
  <2> HIDE DEF u, v, l
  <2>5. Summable(u(i), m) /\ Close(2 * (Sum(u(i), m) + LostOf(data, data[i], us, c)), 2 * data[i][c], m)
    <3>1. SharesFrom(u(i), us, data, data[i], trust, c)
      BY <2>1 DEF SharesFrom
    <3> QED BY <2>4, <3>1, RecordShares
  <2> QED BY <2>2, <2>3, <2>5
<1>4. /\ \A i \in 1 .. r : l[i] = LostOf(data, data[i], us, c)
      /\ \A i \in 1 .. r : a[i] = data[i][c]
      /\ \A i \in 1 .. r : s[i] = v[i] + l[i]
      /\ \A i \in 1 .. r : z[i] = 0
  OBVIOUS
<1> HIDE DEF u, v, l, a, s, z
<1>5. Summable(v, r) /\ Sum(w, r * m) = Sum(v, r)
  <2>1. BlockSums(v, w, m, r)
    BY <1>3 DEF BlockSums
  <2> HIDE DEF m, r
  <2> QED BY <1>1, <1>2, <2>1, SumBlocks
<1>6. Summable(l, r) /\ Sum(l, r) = LostAll(us, data, c) /\ LostAll(us, data, c) \in Nat
  BY <1>4, LostIsSum
<1>7. Summable(a, r) /\ AmountOf(data, c) = Sum(a, r) /\ AmountOf(data, c) \in Nat
  <2>1. \A i \in 1 .. Len(data) : a[i] = data[i][c] /\ data[i][c] \in Nat
    BY <1>4, RecordTypes
  <2> QED BY <1>1, <2>1, AmountIsSum
<1> HIDE DEF m, r
<1>8. Summable(s, r) /\ Sum(s, r) = Sum(v, r) + Sum(l, r)
  <2>1. Summable(s, r)
    BY <1>4, <1>5, <1>6 DEF Summable
  <2>2. Summable(z, r)
    BY <1>4 DEF Summable
  <2>3. \A k \in 1 .. r : Close(v[k] + l[k], s[k], z[k])
    BY <1>4, <1>5, <1>6 DEF Summable, Close
  <2>4. Close(Sum(v, r) + Sum(l, r), Sum(s, r), Sum(z, r))
    BY <1>1, <1>5, <1>6, <2>1, <2>2, <2>3, SumTwo
  <2>5. Sum(z, r) = 0
    BY <1>1, <1>4, SumZero
  <2>6. Sum(s, r) \in Nat
    BY <1>1, <2>1, SumStep
  <2>7. Sum(v, r) \in Nat
    BY <1>1, <1>5, SumStep
  <2>8. Sum(l, r) \in Nat
    BY <1>6
  <2> QED BY <2>1, <2>4, <2>5, <2>6, <2>7, <2>8 DEF Close
<1>9. Close(2 * Sum(s, r), 2 * Sum(a, r), m * r)
  <2>1. \A i \in 1 .. r : Close(2 * s[i], 2 * a[i], m)
    BY <1>3, <1>4
  <2> QED BY <1>1, <1>7, <1>8, <2>1, SumClose
<1>10. m * r = r * m
  BY <1>1
<1>11. Close(2 * (Sum(w, r * m) + LostAll(us, data, c)), 2 * AmountOf(data, c), r * m)
  BY <1>5, <1>6, <1>7, <1>8, <1>9, <1>10
<1> QED BY <1>2, <1>6, <1>7, <1>11 DEF m, r

-----------------------------------------------------------------------------
\* The rows a request inserts are some of all its rows.
LEMMA MinIn ==
  ASSUME NEW S, S \subseteq Nat, S # {}
  PROVE  Min(S) \in S
<1> DEFINE R == OpToRel(<, Nat)
<1>1. IsWellFoundedOn(R, Nat)
  BY NatLessThanWellFounded
<1>2. \A p, q \in Nat : q < p => <<q, p>> \in R
  BY DEF OpToRel
<1> HIDE DEF R
<1>3. PICK x \in S : \A y \in S : ~(<<y, x>> \in R)
  BY <1>1, WFMin
<1>4. ASSUME NEW y \in S PROVE x <= y
  <2>1. x \in Nat /\ y \in Nat /\ ~(<<y, x>> \in R)
    BY <1>3
  <2>2. ~(y < x)
    BY <1>2, <2>1
  <2> QED BY <2>1, <2>2
<1> QED BY <1>4 DEF Min

LEMMA MadeType ==
  ASSUME TotalsTypeOK, NEW us \in Lists, NEW data \in Data
  PROVE  Made(us, data) \in 0 .. Len(data) * Len(us)
<1> DEFINE n == Len(data) * Len(us)
           throws == {k \in 1 .. n : ZeroQuota(data, RecordAt(us, data, k), us, UserAt(us, k))}
           S == {n} \cup {k - 1 : k \in throws}
<1>1. n \in Nat
  <2>1. Len(us) \in Nat /\ Len(data) \in Nat
    BY TotalsAssumption
  <2> QED BY <2>1
<1>2. Made(us, data) = Min(S)
  BY DEF Made
<1> HIDE DEF n
<1>3. S \subseteq 0 .. n /\ S # {}
  BY <1>1
<1> HIDE DEF S
<1>4. Min(S) \in S
  <2>1. S \subseteq Nat
    BY <1>1, <1>3
  <2> QED BY <1>3, <2>1, MinIn
<1> QED BY <1>2, <1>3, <1>4 DEF n

LEMMA RowCount ==
  ASSUME NEW s \in Seq(UsageRow), NEW i \in 1 .. Len(s), NEW c \in Counts
  PROVE  s[i][c] \in Nat
<1>1. s[i] \in UsageRow
  OBVIOUS
<1> QED BY <1>1 DEF UsageRow, Counts

\* What rows add to what is stored.
LEMMA AmountGrows ==
  ASSUME NEW s \in Seq(UsageRow), NEW t \in Seq(UsageRow), NEW c \in Counts,
         NEW w, \A i \in 1 .. Len(t) : w[i] = t[i][c]
  PROVE  AmountOf(s \o t, c) = AmountOf(s, c) + Sum(w, Len(t))
<1> DEFINE st == s \o t
           a == [i \in 1 .. Len(st) |-> st[i][c]]
           m == Len(s)
           n == Len(t)
<1>1. /\ m \in Nat /\ n \in Nat /\ Len(st) = m + n /\ st \in Seq(UsageRow)
      /\ \A i \in 1 .. m : st[i] = s[i]
      /\ \A i \in 1 .. n : st[m + i] = t[i]
  OBVIOUS
<1>2. \A i \in 1 .. Len(st) : a[i] = st[i][c]
  OBVIOUS
<1> HIDE DEF st, a
<1>3. \A i \in 1 .. Len(st) : a[i] = st[i][c] /\ st[i][c] \in Nat
  BY <1>1, <1>2, RowCount
<1>4. Summable(a, m + n) /\ AmountOf(st, c) = Sum(a, m + n)
  <2>1. Len(st) \in Nat
    BY <1>1
  <2>2. Summable(a, Len(st)) /\ AmountOf(st, c) = Sum(a, Len(st))
    BY <1>3, <2>1, AmountIsSum
  <2> QED BY <1>1, <2>2
<1>5. Sum(a, m + n) = Sum(a, m) + Sum(w, n)
  <2>1. \A k \in 1 .. n : w[k] = a[m + k]
    <3>1. ASSUME NEW k \in 1 .. n PROVE w[k] = a[m + k]
      <4>1. m + k \in 1 .. Len(st)
        BY <1>1
      <4> QED BY <1>1, <1>2, <4>1
    <3> QED BY <3>1
  <2> HIDE DEF m, n
  <2> QED BY <1>1, <1>4, <2>1, SumAfter
<1>6. AmountOf(s, c) = Sum(a, m)
  <2>1. \A i \in 1 .. m : a[i] = s[i][c] /\ s[i][c] \in Nat
    <3>1. ASSUME NEW i \in 1 .. m PROVE a[i] = s[i][c]
      <4>1. i \in 1 .. Len(st)
        BY <1>1
      <4> QED BY <1>1, <1>2, <4>1
    <3> QED BY <3>1, RowCount
  <2> QED BY <1>1, <2>1, AmountIsSum
<1> QED BY <1>4, <1>5, <1>6 DEF st

LEMMA RowIsRow ==
  ASSUME TotalsTypeOK, NEW data \in Data, NEW i \in 1 .. Len(data), NEW u \in Users, NEW trust \in Trust,
         NEW x \in Nat, NEW y \in Nat, NEW z \in Nat
  PROVE  [user |-> u, start |-> data[i].start, end |-> data[i].end, trust |-> trust,
          down |-> x, up |-> y, un |-> z] \in UsageRow
<1>1. data[i] \in Record /\ MaxEnd \in Nat
  BY RecordTypes, TotalsAssumption
<1>2. data[i].start \in 0 .. MaxEnd /\ data[i].end \in 0 .. MaxEnd
  BY <1>1 DEF Record
<1> QED BY <1>2 DEF UsageRow

LEMMA WholeRows ==
  ASSUME TotalsTypeOK, NEW data \in Data, NEW u \in Users, NEW trust \in Trust,
         NEW new, new = [k \in 1 .. Len(data) |-> WholeRow(data[k], u, trust)]
  PROVE  /\ new \in Seq(UsageRow)
         /\ \A c \in Counts : /\ AmountOf(records \o new, c) = AmountOf(records, c) + AmountOf(data, c)
                              /\ AmountOf(data, c) \in Nat
<1>1. Len(data) \in Nat
  BY TotalsAssumption
<1>2. ASSUME NEW k \in 1 .. Len(data)
      PROVE  /\ WholeRow(data[k], u, trust) \in UsageRow
             /\ \A c \in Counts : WholeRow(data[k], u, trust)[c] = data[k][c] /\ data[k][c] \in Nat
  <2>1. data[k] \in Record /\ \A c \in Counts : data[k][c] \in Nat
    BY RecordTypes
  <2>2. WholeRow(data[k], u, trust) \in UsageRow
    BY <2>1, RowIsRow DEF WholeRow, Record
  <2>3. \A c \in Counts : WholeRow(data[k], u, trust)[c] = data[k][c]
    BY DEF WholeRow, Counts
  <2> QED BY <2>1, <2>2, <2>3
<1>3. new \in Seq(UsageRow) /\ Len(new) = Len(data)
      /\ \A k \in 1 .. Len(data) : new[k] = WholeRow(data[k], u, trust)
  BY <1>1, <1>2
<1>4. ASSUME NEW c \in Counts
      PROVE  /\ AmountOf(records \o new, c) = AmountOf(records, c) + AmountOf(data, c)
             /\ AmountOf(data, c) \in Nat
  <2> DEFINE w == [i \in 1 .. Len(data) |-> data[i][c]]
  <2>1. \A i \in 1 .. Len(data) : w[i] = data[i][c] /\ data[i][c] \in Nat /\ w[i] = new[i][c]
    BY <1>2, <1>3
  <2> HIDE DEF w
  <2>2. AmountOf(data, c) = Sum(w, Len(data)) /\ AmountOf(data, c) \in Nat
    BY <1>1, <2>1, AmountIsSum
  <2>3. records \in Seq(UsageRow)
    BY DEF TotalsTypeOK
  <2>4. \A i \in 1 .. Len(new) : w[i] = new[i][c]
    BY <1>3, <2>1
  <2>5. AmountOf(records \o new, c) = AmountOf(records, c) + Sum(w, Len(new))
    BY <1>3, <2>3, <2>4, AmountGrows, ZenonT(60)
  <2> QED BY <1>3, <2>2, <2>5
<1> QED BY <1>2, <1>3, <1>4

LEMMA SharedRows ==
  ASSUME TotalsTypeOK, NEW us \in Lists, NEW data \in Data, NEW trust \in Trust,
         NEW n \in 0 .. Len(data) * Len(us),
         NEW new, new = [k \in 1 .. n |->
                           SharedRow(data, RecordAt(us, data, k), us, UserAt(us, k), trust)]
  PROVE  /\ new \in Seq(UsageRow)
         /\ \A c \in Counts :
              /\ AmountOf(data, c) \in Nat /\ LostAll(us, data, c) \in Nat
              /\ n = Len(data) * Len(us) =>
                   \E x \in Nat : /\ AmountOf(records \o new, c) = AmountOf(records, c) + x
                                  /\ Close(2 * (x + LostAll(us, data, c)), 2 * AmountOf(data, c),
                                           Len(data) * Len(us))
<1> DEFINE row(k) == SharedRow(data, RecordAt(us, data, k), us, UserAt(us, k), trust)
           m == Len(us)
           r == Len(data)
<1>1. m \in Nat \ {0} /\ r \in Nat /\ us \in Seq(Users) /\ r * m \in Nat
  <2>1. m \in Nat \ {0} /\ r \in Nat /\ us \in Seq(Users)
    BY TotalsAssumption
  <2> QED BY <2>1
<1>2. ASSUME NEW k \in 1 .. r * m PROVE row(k) \in UsageRow
  <2> DEFINE i == ((k - 1) \div m) + 1
             j == ((k - 1) % m) + 1
  <2>1. i \in 1 .. r /\ j \in 1 .. m
    <3> HIDE DEF m, r
    <3> QED BY <1>1, PlaceOf
  <2>2. row(k) = SharedRow(data, data[i], us, us[j], trust)
    BY DEF RecordAt, UserAt
  <2> HIDE DEF i, j, row
  <2>3. data[i] \in Record /\ us[j] \in Users
    BY <1>1, <2>1, RecordTypes
  <2> DEFINE s == SharedRow(data, data[i], us, us[j], trust)
  <2>4. \A c \in Counts : s[c] \in Nat
    BY <2>1, <2>3, ShareType
  <2>5. s.down \in Nat /\ s.up \in Nat /\ s.un \in Nat
    <3> HIDE DEF s
    <3> QED BY <2>4 DEF Counts
  <2>6. s = [user |-> us[j], start |-> data[i].start, end |-> data[i].end, trust |-> trust,
             down |-> s.down, up |-> s.up, un |-> s.un]
    BY DEF SharedRow
  <2> HIDE DEF s
  <2>7. s \in UsageRow
    BY <2>1, <2>3, <2>5, <2>6, RowIsRow
  <2> QED BY <2>2, <2>7 DEF s
<1>3. \A k \in 1 .. n : k \in 1 .. r * m
  BY <1>1
<1>4. new \in Seq(UsageRow) /\ Len(new) = n /\ \A k \in 1 .. n : new[k] = row(k)
  <2> HIDE DEF m, r
  <2>1. n \in Nat
    BY <1>1 DEF m, r
  <2>2. new = [k \in 1 .. n |-> row(k)]
    OBVIOUS
  <2> HIDE DEF row
  <2> QED BY <1>2, <1>3, <2>1, <2>2
<1>5. ASSUME NEW c \in Counts
      PROVE  /\ AmountOf(data, c) \in Nat /\ LostAll(us, data, c) \in Nat
             /\ n = r * m =>
                  \E x \in Nat : /\ AmountOf(records \o new, c) = AmountOf(records, c) + x
                                 /\ Close(2 * (x + LostAll(us, data, c)), 2 * AmountOf(data, c), r * m)
  <2> DEFINE w == [k \in 1 .. r * m |-> row(k)[c]]
  <2>1. \A k \in 1 .. Len(data) * Len(us) :
          w[k] = SharedRow(data, RecordAt(us, data, k), us, UserAt(us, k), trust)[c]
    OBVIOUS
  <2>2. \A k \in 1 .. r * m : w[k] = row(k)[c]
    OBVIOUS
  <2> HIDE DEF w
  <2>3. /\ Summable(w, r * m)
        /\ AmountOf(data, c) \in Nat /\ LostAll(us, data, c) \in Nat
        /\ Close(2 * (Sum(w, r * m) + LostAll(us, data, c)), 2 * AmountOf(data, c), r * m)
    BY <2>1, RequestShares
  <2>4. Sum(w, r * m) \in Nat
    BY <1>1, <2>3, SumStep
  <2>5. ASSUME n = r * m
        PROVE  AmountOf(records \o new, c) = AmountOf(records, c) + Sum(w, r * m)
    <3> HIDE DEF row, m, r
    <3>1. records \in Seq(UsageRow)
      BY DEF TotalsTypeOK
    <3>2. \A i \in 1 .. Len(new) : w[i] = new[i][c]
      BY <1>4, <2>2, <2>5
    <3>3. AmountOf(records \o new, c) = AmountOf(records, c) + Sum(w, Len(new))
      BY <1>4, <3>1, <3>2, AmountGrows
    <3> QED BY <1>4, <2>5, <3>3
  <2> HIDE DEF row, m, r
  <2> QED BY <2>3, <2>4, <2>5
<1> QED BY <1>4, <1>5

-----------------------------------------------------------------------------
TotalsInv == TotalsTypeOK /\ SharesAddUp

LEMMA StoredType ==
  ASSUME TotalsTypeOK, NEW c \in Counts
  PROVE  AmountOf(records, c) \in Nat
<1> DEFINE w == [i \in 1 .. Len(records) |-> records[i][c]]
<1>1. Len(records) \in Nat /\ \A i \in 1 .. Len(records) : w[i] = records[i][c] /\ records[i][c] \in Nat
  BY RowCount DEF TotalsTypeOK
<1> HIDE DEF w
<1> QED BY <1>1, AmountIsSum

LEMMA AddedRows ==
  ASSUME TotalsTypeOK, NEW new \in Seq(UsageRow)
  PROVE  records \o new \in Seq(UsageRow)
<1>1. records \in Seq(UsageRow)
  BY DEF TotalsTypeOK
<1> QED BY <1>1

LEMMA TotalsStart ==
  ASSUME TotalsInit PROVE TotalsInv
<1>1. TotalsTypeOK
  <2>1. None \in [Counts -> Nat] /\ <<>> \in Seq(UsageRow) /\ Len(<<>>) = 0
    BY DEF None
  <2>2. records \in Seq(UsageRow)
    BY <2>1 DEF TotalsInit
  <2>3. /\ quota \in [Users -> [down : Quotas, up : Quotas]] /\ requests = 0
        /\ arrived \in [Counts -> Nat] /\ slack = 0 /\ upLost = 0
    BY <2>1 DEF TotalsInit
  <2>4. cutOff \in BOOLEAN
    BY DEF TotalsInit
  <2>5. requests \in 0 .. MaxRequests /\ slack \in Nat /\ upLost \in Nat
    BY <2>3, TotalsAssumption
  <2> QED BY <2>2, <2>3, <2>4, <2>5 DEF TotalsTypeOK
<1>2. ASSUME NEW c \in Counts PROVE AmountOf(records, c) = 0 /\ arrived[c] = 0
  <2> DEFINE w == [k \in 1 .. 0 |-> records[k][c]]
  <2>1. AmountOf(records, c) = Sum(w, 0)
    <3>1. Len(records) = 0
      BY DEF TotalsInit
    <3> QED BY <3>1 DEF AmountOf
  <2> HIDE DEF w
  <2>2. \A k \in 1 .. 0 : w[k] = 0
    OBVIOUS
  <2>3. Sum(w, 0) = 0
    BY <2>2, SumZero
  <2>4. arrived[c] = 0
    BY DEF TotalsInit, None
  <2> QED BY <2>1, <2>3, <2>4
<1>3. "down" \in Counts /\ "up" \in Counts /\ "un" \in Counts
  BY DEF Counts
<1>4. slack = 0 /\ upLost = 0
  BY DEF TotalsInit
<1>5. Near("down", 0) /\ Near("un", 0) /\ Near("up", upLost)
  BY <1>2, <1>3, <1>4 DEF Near
<1> QED BY <1>1, <1>5 DEF TotalsInv, SharesAddUp

\* What a put adds of a count c, x of z bytes with y lost and r of rounding.
Brings(c, x, y, z, r) ==
  /\ AmountOf(records', c) = AmountOf(records, c) + x
  /\ arrived'[c] = arrived[c] + z /\ slack' = slack + r
  /\ Close(2 * (x + y), 2 * z, r)

LEMMA NearAfter ==
  ASSUME TotalsTypeOK, NEW c \in Counts, NEW l \in Nat, Near(c, l),
         NEW x \in Nat, NEW y \in Nat, NEW z \in Nat, NEW r \in Nat, Brings(c, x, y, z, r), NEW n, n = l + y
  PROVE  LET d == AmountOf(records', c) + n - arrived'[c] IN 2 * d <= slack' /\ -2 * d <= slack'
<1> DEFINE a == AmountOf(records, c)
           g == arrived[c]
<1>1. a \in Nat /\ g \in Nat /\ slack \in Nat
  BY StoredType DEF TotalsTypeOK
<1>2. 2 * (a + l - g) <= slack /\ -2 * (a + l - g) <= slack
  BY DEF Near
<1>3. /\ AmountOf(records', c) = a + x /\ arrived'[c] = g + z /\ slack' = slack + r
      /\ Close(2 * (x + y), 2 * z, r)
  BY DEF Brings
<1> HIDE DEF a, g
<1> QED BY <1>1, <1>2, <1>3 DEF Close

\* putData for one user.
LEMMA OneKeeps ==
  ASSUME TotalsTypeOK, SharesAddUp, NEW us \in Lists, NEW data \in Data, NEW trust \in Trust,
         putOne(us[1], data, trust), quota' = quota, requests' \in 0 .. MaxRequests
  PROVE  TotalsInv'
<1> DEFINE new == [k \in 1 .. Len(data) |-> WholeRow(data[k], us[1], trust)]
<1>1. us[1] \in Users
  BY TotalsAssumption
<1>2. records' = records \o new
  BY DEF putOne
<1> HIDE DEF new
<1>3. /\ new \in Seq(UsageRow)
      /\ \A c \in Counts : /\ AmountOf(records \o new, c) = AmountOf(records, c) + AmountOf(data, c)
                           /\ AmountOf(data, c) \in Nat
  BY <1>1, WholeRows DEF new
<1>4. records' \in Seq(UsageRow)
  BY <1>2, <1>3, AddedRows
<1>5. /\ arrived \in [Counts -> Nat] /\ arrived' = [c \in Counts |-> arrived[c] + AmountOf(data, c)]
      /\ slack \in Nat /\ upLost \in Nat /\ slack' = slack /\ upLost' = upLost
  BY DEF putOne, TotalsTypeOK
<1>6. arrived' \in [Counts -> Nat]
  BY <1>3, <1>5
<1>7. cutOff' = cutOff /\ cutOff \in BOOLEAN
  BY DEF putOne, TotalsTypeOK
<1>8. quota' \in [Users -> [down : Quotas, up : Quotas]]
  BY DEF TotalsTypeOK
<1>9. TotalsTypeOK'
  BY <1>4, <1>5, <1>6, <1>7, <1>8 DEF TotalsTypeOK, UsageRow, Counts
<1>10. ASSUME NEW c \in Counts, NEW l \in Nat, Near(c, l)
       PROVE  LET d == AmountOf(records', c) + l - arrived'[c] IN 2 * d <= slack' /\ -2 * d <= slack'
  <2> DEFINE z == AmountOf(data, c)
  <2>1. z \in Nat /\ AmountOf(records', c) = AmountOf(records, c) + z /\ arrived'[c] = arrived[c] + z
    BY <1>2, <1>3, <1>5
  <2> HIDE DEF z
  <2>2. Brings(c, z, 0, z, 0) /\ l = l + 0
    BY <1>5, <2>1 DEF Brings, Close
  <2> QED BY <1>10, <2>1, <2>2, NearAfter
<1>11. "down" \in Counts /\ "up" \in Counts /\ "un" \in Counts
  BY DEF Counts
<1>12. CASE cutOff
  BY <1>7, <1>9, <1>12 DEF TotalsInv, SharesAddUp
<1>13. CASE ~cutOff
  <2>1. Near("down", 0) /\ Near("un", 0) /\ Near("up", upLost)
    BY <1>13 DEF SharesAddUp
  <2>2. Near("down", 0)'
    BY <1>10, <1>11, <2>1 DEF Near
  <2>3. Near("un", 0)'
    BY <1>10, <1>11, <2>1 DEF Near
  <2>4. Near("up", upLost)'
    BY <1>5, <1>10, <1>11, <2>1 DEF Near
  <2> QED BY <1>9, <2>2, <2>3, <2>4 DEF TotalsInv, SharesAddUp
<1> QED BY <1>12, <1>13

\* putData for several.
LEMMA SeveralKeep ==
  ASSUME TotalsTypeOK, SharesAddUp, NEW us \in Lists, NEW data \in Data, NEW trust \in Trust,
         putSeveral(us, data, trust), quota' = quota, requests' \in 0 .. MaxRequests
  PROVE  TotalsInv'
<1> DEFINE n == Made(us, data)
           r == Len(data) * Len(us)
           new == [k \in 1 .. n |->
                     SharedRow(data, RecordAt(us, data, k), us, UserAt(us, k), trust)]
<1>1. n \in 0 .. r
  BY MadeType
<1>2. /\ records' = records \o new
      /\ arrived' = [c \in Counts |-> arrived[c] + AmountOf(data, c)]
      /\ slack' = slack + r /\ upLost' = upLost + Lost(us, data)
  BY DEF putSeveral
<1>3. cutOff' = (cutOff \/ n < r)
  BY DEF putSeveral
<1> HIDE DEF n
<1>4. new = [k \in 1 .. n |->
                SharedRow(data, RecordAt(us, data, k), us, UserAt(us, k), trust)]
  OBVIOUS
<1> HIDE DEF new
<1>5. /\ new \in Seq(UsageRow)
      /\ \A c \in Counts :
           /\ AmountOf(data, c) \in Nat /\ LostAll(us, data, c) \in Nat
           /\ n = r =>
                \E x \in Nat : /\ AmountOf(records \o new, c) = AmountOf(records, c) + x
                               /\ Close(2 * (x + LostAll(us, data, c)), 2 * AmountOf(data, c), r)
  BY <1>1, <1>4, SharedRows, SMTT(60)
<1>6. r \in Nat
  <2>1. Len(us) \in Nat /\ Len(data) \in Nat
    BY TotalsAssumption
  <2> QED BY <2>1
<1> HIDE DEF r
<1>7. records' \in Seq(UsageRow)
  BY <1>2, <1>5, AddedRows
<1>8. arrived \in [Counts -> Nat] /\ slack \in Nat /\ upLost \in Nat
  BY DEF TotalsTypeOK
<1>9. "down" \in Counts /\ "up" \in Counts /\ "un" \in Counts
  BY DEF Counts
<1>10. LostAll(us, data, "down") = 0 /\ LostAll(us, data, "un") = 0
      /\ LostAll(us, data, "up") = Lost(us, data) /\ Lost(us, data) \in Nat
  BY <1>5, <1>9 DEF LostAll
<1>11. arrived' \in [Counts -> Nat] /\ slack' \in Nat /\ upLost' \in Nat
  BY <1>2, <1>5, <1>6, <1>8, <1>10
<1>12. cutOff' \in BOOLEAN
  BY <1>3
<1>13. quota' \in [Users -> [down : Quotas, up : Quotas]]
  BY DEF TotalsTypeOK
<1>14. TotalsTypeOK'
  BY <1>7, <1>11, <1>12, <1>13 DEF TotalsTypeOK, UsageRow, Counts
<1>15. CASE cutOff \/ n < r
  BY <1>3, <1>14, <1>15 DEF TotalsInv, SharesAddUp
<1>16. CASE ~cutOff /\ ~(n < r)
  <2>1. n = r
    BY <1>1, <1>6, <1>16 DEF r
  <2>2. ASSUME NEW c \in Counts, NEW l \in Nat, Near(c, l)
        PROVE  LET d == AmountOf(records', c) + (l + LostAll(us, data, c)) - arrived'[c]
               IN 2 * d <= slack' /\ -2 * d <= slack'
    <3> DEFINE z == AmountOf(data, c)
               y == LostAll(us, data, c)
    <3>1. z \in Nat /\ y \in Nat /\ arrived'[c] = arrived[c] + z
      BY <1>2, <1>5
    <3>2. PICK x \in Nat : AmountOf(records', c) = AmountOf(records, c) + x
                          /\ Close(2 * (x + y), 2 * z, r)
      BY <1>2, <1>5, <2>1
    <3> HIDE DEF y, z
    <3>3. Brings(c, x, y, z, r)
      BY <1>2, <3>1, <3>2 DEF Brings
    <3>4. LET d == AmountOf(records', c) + (l + y) - arrived'[c] IN 2 * d <= slack' /\ -2 * d <= slack'
      BY <1>6, <2>2, <3>1, <3>3, NearAfter
    <3> QED BY <3>4 DEF y
  <2>3. Near("down", 0) /\ Near("un", 0) /\ Near("up", upLost)
    BY <1>16 DEF SharesAddUp
  <2>4. Near("down", 0)'
    <3>1. 0 + LostAll(us, data, "down") = 0
      BY <1>10
    <3> QED BY <1>9, <2>2, <2>3, <3>1 DEF Near
  <2>5. Near("un", 0)'
    <3>1. 0 + LostAll(us, data, "un") = 0
      BY <1>10
    <3> QED BY <1>9, <2>2, <2>3, <3>1 DEF Near
  <2>6. Near("up", upLost)'
    <3>1. upLost + LostAll(us, data, "up") = upLost'
      BY <1>2, <1>10
    <3> QED BY <1>8, <1>9, <2>2, <2>3, <3>1 DEF Near
  <2> QED BY <1>14, <2>4, <2>5, <2>6 DEF TotalsInv, SharesAddUp
<1> QED BY <1>15, <1>16

LEMMA TotalsStep ==
  ASSUME TotalsInv, [TotalsNext]_(totalsVars) PROVE TotalsInv'
<1>1. TotalsTypeOK /\ SharesAddUp
  BY DEF TotalsInv
<1>2. CASE TotalsNext
  <2>1. PICK us \in Lists, data \in Data, trust \in Trust : putData(us, data, trust)
    BY <1>2 DEF TotalsNext
  <2>2. quota' = quota /\ requests' \in 0 .. MaxRequests
    <3>1. /\ requests < MaxRequests /\ requests' = requests + 1 /\ quota' = quota
          /\ requests \in 0 .. MaxRequests /\ MaxRequests \in Nat
      BY <1>1, <2>1, TotalsAssumption DEF putData, TotalsTypeOK
    <3> QED BY <3>1
  <2>3. putOne(us[1], data, trust) \/ putSeveral(us, data, trust)
    BY <2>1 DEF putData
  <2>4. CASE putOne(us[1], data, trust)
    BY <1>1, <2>2, <2>4, OneKeeps
  <2>5. CASE putSeveral(us, data, trust)
    BY <1>1, <2>2, <2>5, SeveralKeep
  <2> QED BY <2>3, <2>4, <2>5
<1>3. CASE UNCHANGED totalsVars
  <2>1. /\ quota' = quota /\ records' = records /\ requests' = requests /\ arrived' = arrived
        /\ slack' = slack /\ upLost' = upLost /\ cutOff' = cutOff
    BY <1>3 DEF totalsVars
  <2>2. TotalsTypeOK'
    BY <2>1 DEF TotalsInv, TotalsTypeOK, UsageRow, Counts
  <2>3. SharesAddUp'
    BY <2>1 DEF TotalsInv, SharesAddUp, Near
  <2> QED BY <2>2, <2>3 DEF TotalsInv
<1> QED BY <1>2, <1>3

\* For any users, lists of users, records, quotas and trust levels, of
\* Controller.putData and DataRecord.total: the stored shares are counts,
\* although what they are divided by is computed from earlier shares; a window
\* may be of any length, none and a negative one included.
THEOREM TotalsTypes == TotalsSpec => []TotalsTypeOK
<1>1. TotalsInit => TotalsInv
  BY TotalsStart
<1>2. TotalsInv /\ [TotalsNext]_(totalsVars) => TotalsInv'
  BY TotalsStep
<1>3. TotalsInv => TotalsTypeOK
  BY DEF TotalsInv
<1> QED BY <1>1, <1>2, <1>3, PTL DEF TotalsSpec

\* However often data is put for however many users, by quotas or by the shares
\* they had before, what is stored of the downloads and the unmetered bytes
\* differs from what arrived by at most half a byte for every share, unless a
\* request was cut off by a division by zero; of the uploads as much, but for
\* the records putData drops because it asks for downloads.
THEOREM SharesAreWhole == TotalsSpec => []SharesAddUp
<1>1. TotalsInit => TotalsInv
  BY TotalsStart
<1>2. TotalsInv /\ [TotalsNext]_(totalsVars) => TotalsInv'
  BY TotalsStep
<1>3. TotalsInv => SharesAddUp
  BY DEF TotalsInv
<1> QED BY <1>1, <1>2, <1>3, PTL DEF TotalsSpec

\* DataRecord.total of two periods next to each other is that of both, whatever
\* rows of one trust level are stored: more by at most a byte for each row of the
\* user and the rows without length, or inverted, that have the moment between
\* the periods in them; less by at most a byte for each row and the rows that
\* reach over both ends of one of the periods.
THEOREM PeriodsAddUp == TotalsSpec => []TotalsSplit
<1>1. TotalsTypeOK => TotalsSplit
  BY TotalsDivideTime
<1> QED BY <1>1, TotalsTypes, PTL

(***************************************************************************)
(* Archive again, for what the levels keep: first sums over finite sets.   *)
(***************************************************************************)
\* Induction over the subsets of a finite set, with a set for the predicate.
LEMMA AllSubsets ==
  ASSUME NEW S, IsFiniteSet(S), NEW P, {} \in P,
         \A T \in SUBSET S, x \in S : T \in P /\ x \notin T => T \cup {x} \in P
  PROVE  \A T \in SUBSET S : T \in P
<1> DEFINE N == {n \in Nat : \A T \in SUBSET S : Cardinality(T) = n => T \in P}
<1>1. ASSUME NEW T \in SUBSET S PROVE IsFiniteSet(T) /\ Cardinality(T) \in Nat
  BY FS_Subset, FS_CardinalityType
<1>2. 0 \in N
  <2> SUFFICES ASSUME NEW T \in SUBSET S, Cardinality(T) = 0 PROVE T \in P
    OBVIOUS
  <2>1. T = {}
    BY <1>1, FS_EmptySet
  <2> QED BY <2>1
<1>3. ASSUME NEW n \in Nat, n \in N PROVE n + 1 \in N
  <2> SUFFICES ASSUME NEW T \in SUBSET S, Cardinality(T) = n + 1 PROVE T \in P
    OBVIOUS
  <2>1. PICK x \in T : TRUE
    <3>1. Cardinality({}) = 0 /\ n + 1 # 0
      BY FS_EmptySet
    <3>2. T # {}
      BY <3>1
    <3> QED BY <3>2
  <2>2. Cardinality(T \ {x}) = n
    <3>1. Cardinality(T \ {x}) = Cardinality(T) - 1
      BY <1>1, <2>1, FS_RemoveElement
    <3> QED BY <3>1
  <2>3. T \ {x} \in P
    BY <1>3, <2>2
  <2>4. T = (T \ {x}) \cup {x} /\ x \notin T \ {x} /\ x \in S /\ T \ {x} \in SUBSET S
    BY <2>1
  <2> QED BY <2>3, <2>4
<1> HIDE DEF N
<1>4. \A n \in Nat : n \in N
  BY <1>2, <1>3, AllNat
<1> QED BY <1>1, <1>4 DEF N

\* The counts w[x] of the elements of S can be added up, and f holds the sums of all
\* subsets.
Countable(w, S) == IsFiniteSet(S) /\ \A x \in S : w[x] \in Nat
Sums(f, w, S) ==
  /\ f \in [SUBSET S -> Nat] /\ f[{}] = 0
  /\ \A T \in SUBSET S : \A x \in T : f[T] = w[x] + f[T \ {x}]

\* f adds up the subsets of at most n elements, an element that is chosen at a time.
FoldsUpTo(f, w, S, n) ==
  /\ f \in [SUBSET S -> Nat]
  /\ \A T \in SUBSET S : Cardinality(T) <= n =>
       f[T] = IF T = {} THEN 0 ELSE w[CHOOSE x \in T : TRUE] + f[T \ {CHOOSE x \in T : TRUE}]

\* Without the chosen element a set is smaller by one.
LEMMA ChosenOut ==
  ASSUME NEW w, NEW S, Countable(w, S), NEW T \in SUBSET S
  PROVE  LET c == CHOOSE x \in T : TRUE
         IN /\ IsFiniteSet(T) /\ Cardinality(T) \in Nat /\ (Cardinality(T) = 0 <=> T = {})
            /\ T # {} => /\ c \in T /\ T \ {c} \in SUBSET S /\ w[c] \in Nat
                         /\ Cardinality(T \ {c}) = Cardinality(T) - 1
<1> DEFINE c == CHOOSE x \in T : TRUE
<1>1. IsFiniteSet(T)
  BY FS_Subset DEF Countable
<1>2. Cardinality(T) \in Nat
  BY <1>1, FS_CardinalityType
<1>3. Cardinality(T) = 0 <=> T = {}
  BY <1>1, FS_EmptySet
<1>4. T # {} => c \in T
  OBVIOUS
<1> HIDE DEF c
<1>5. T # {} => Cardinality(T \ {c}) = Cardinality(T) - 1
  BY <1>1, <1>4, FS_RemoveElement
<1>6. /\ IsFiniteSet(T) /\ Cardinality(T) \in Nat /\ (Cardinality(T) = 0 <=> T = {})
      /\ T # {} => /\ c \in T /\ T \ {c} \in SUBSET S /\ w[c] \in Nat
                   /\ Cardinality(T \ {c}) = Cardinality(T) - 1
  BY <1>1, <1>2, <1>3, <1>4, <1>5 DEF Countable
<1> QED BY <1>6 DEF c

\* There is such a function for every n.
LEMMA FoldExists ==
  ASSUME NEW w, NEW S, Countable(w, S), NEW n \in Nat
  PROVE  \E f : FoldsUpTo(f, w, S, n)
<1> DEFINE N == {m \in Nat : \E f : FoldsUpTo(f, w, S, m)}
<1> DEFINE c(T) == CHOOSE x \in T : TRUE
<1>1. ASSUME NEW T \in SUBSET S
      PROVE  /\ IsFiniteSet(T) /\ Cardinality(T) \in Nat /\ (Cardinality(T) = 0 <=> T = {})
             /\ T # {} => /\ c(T) \in T /\ T \ {c(T)} \in SUBSET S /\ w[c(T)] \in Nat
                          /\ Cardinality(T \ {c(T)}) = Cardinality(T) - 1
  BY ChosenOut
<1>2. 0 \in N
  <2>1. FoldsUpTo([T \in SUBSET S |-> 0], w, S, 0)
    <3> SUFFICES ASSUME NEW T \in SUBSET S, Cardinality(T) <= 0 PROVE T = {}
      BY DEF FoldsUpTo
    <3>1. Cardinality(T) \in Nat /\ (Cardinality(T) = 0 <=> T = {})
      BY <1>1
    <3> QED BY <3>1
  <2> QED BY <2>1
<1>3. ASSUME NEW m \in Nat, m \in N PROVE m + 1 \in N
  <2>1. PICK f : FoldsUpTo(f, w, S, m)
    BY <1>3
  <2> DEFINE g == [T \in SUBSET S |-> IF T = {} THEN 0 ELSE IF Cardinality(T) <= m THEN f[T]
                                      ELSE w[c(T)] + f[T \ {c(T)}]]
  <2>2. ASSUME NEW T \in SUBSET S PROVE g[T] \in Nat
    <3> HIDE DEF c
    <3> QED BY <1>1, <2>1 DEF FoldsUpTo
  <2>3. ASSUME NEW T \in SUBSET S, Cardinality(T) <= m + 1
        PROVE  g[T] = IF T = {} THEN 0 ELSE w[c(T)] + g[T \ {c(T)}]
    <3> SUFFICES ASSUME T # {} PROVE g[T] = w[c(T)] + g[T \ {c(T)}]
      OBVIOUS
    <3> DEFINE R == T \ {c(T)}
    <3>1. R \in SUBSET S /\ Cardinality(R) <= m
      BY <1>1, <2>3
    <3>2. g[R] = f[R]
      <4>1. f[{}] = 0
        BY <1>1, <2>1, FS_EmptySet DEF FoldsUpTo
      <4> HIDE DEF R
      <4> QED BY <3>1, <4>1
    <3>3. CASE Cardinality(T) <= m
      <4>1. f[T] = w[c(T)] + f[R]
        BY <2>1, <3>3 DEF FoldsUpTo
      <4> HIDE DEF R, c
      <4>2. g[T] = f[T]
        BY <3>3
      <4> HIDE DEF g
      <4> QED BY <3>2, <4>1, <4>2 DEF R
    <3>4. CASE ~(Cardinality(T) <= m)
      <4> HIDE DEF c
      <4>1. g[T] = w[c(T)] + f[R]
        BY <3>4
      <4> HIDE DEF g
      <4> QED BY <3>2, <4>1 DEF R
    <3> QED BY <3>3, <3>4
  <2>4. g \in [SUBSET S -> Nat]
    <3> HIDE DEF c
    <3> QED BY <2>2
  <2>5. FoldsUpTo(g, w, S, m + 1)
    <3> HIDE DEF g
    <3> QED BY <2>3, <2>4 DEF FoldsUpTo
  <2> QED BY <2>5
<1> HIDE DEF N
<1>4. n \in N
  BY <1>2, <1>3, AllNat
<1> QED BY <1>4 DEF N

\* It does not matter which element is taken out first.
LEMMA AnyOrder ==
  ASSUME NEW w, NEW S, Countable(w, S), NEW f, FoldsUpTo(f, w, S, Cardinality(S))
  PROVE  Sums(f, w, S)
<1> DEFINE c(T) == CHOOSE x \in T : TRUE
           N == {n \in Nat : \A T \in SUBSET S :
                               Cardinality(T) = n => \A x \in T : f[T] = w[x] + f[T \ {x}]}
<1>1. ASSUME NEW T \in SUBSET S
      PROVE  /\ Cardinality(T) \in Nat /\ (Cardinality(T) = 0 <=> T = {}) /\ f[T] \in Nat
             /\ Cardinality(T) <= Cardinality(S)
             /\ \A x \in T : /\ Cardinality(T \ {x}) = Cardinality(T) - 1 /\ w[x] \in Nat
                             /\ T \ {x} \in SUBSET S
  <2>1. IsFiniteSet(T) /\ Cardinality(T) <= Cardinality(S)
    BY FS_Subset DEF Countable
  <2>2. Cardinality(T) \in Nat
    BY <2>1, FS_CardinalityType
  <2>3. Cardinality(T) = 0 <=> T = {}
    BY <2>1, FS_EmptySet
  <2>4. \A x \in T : Cardinality(T \ {x}) = Cardinality(T) - 1
    BY <2>1, FS_RemoveElement
  <2> QED BY <2>1, <2>2, <2>3, <2>4 DEF Countable, FoldsUpTo
<1>2. ASSUME NEW T \in SUBSET S, T # {} PROVE c(T) \in T /\ f[T] = w[c(T)] + f[T \ {c(T)}]
  BY <1>1, <1>2 DEF FoldsUpTo
<1>3. f[{}] = 0
  BY <1>1 DEF FoldsUpTo
<1> HIDE DEF c
<1>4. 0 \in N
  BY <1>1
<1>5. ASSUME NEW n \in Nat, n \in N PROVE n + 1 \in N
  <2> SUFFICES ASSUME NEW T \in SUBSET S, Cardinality(T) = n + 1, NEW x \in T
               PROVE  f[T] = w[x] + f[T \ {x}]
    OBVIOUS
  <2> DEFINE y == c(T)
             X == T \ {x}
             Y == T \ {y}
             Z == T \ {x, y}
  <2>1. y \in T /\ f[T] = w[y] + f[Y]
    BY <1>2
  <2>2. CASE y = x
    BY <2>1, <2>2
  <2>3. CASE y # x
    <3>1. x \in Y /\ y \in X /\ Y \ {x} = Z /\ X \ {y} = Z /\ X \in SUBSET S /\ Y \in SUBSET S
      BY <2>1, <2>3
    <3>2. Cardinality(X) = n /\ Cardinality(Y) = n
      <4>1. Cardinality(X) = Cardinality(T) - 1 /\ Cardinality(Y) = Cardinality(T) - 1
        BY <1>1, <2>1
      <4> HIDE DEF X, Y
      <4> QED BY <4>1
    <3> HIDE DEF X, Y, Z
    <3>3. f[X] = w[y] + f[Z] /\ f[Y] = w[x] + f[Z]
      BY <1>5, <3>1, <3>2
    <3>4. w[x] \in Nat /\ w[y] \in Nat /\ f[Z] \in Nat
      <4>1. Z \in SUBSET S
        BY DEF Z
      <4> QED BY <1>1, <2>1, <4>1
    <3> QED BY <2>1, <3>3, <3>4 DEF X
  <2> QED BY <2>2, <2>3
<1> HIDE DEF N
<1>6. \A n \in Nat : n \in N
  BY <1>4, <1>5, AllNat
<1>7. ASSUME NEW T \in SUBSET S, NEW x \in T PROVE f[T] = w[x] + f[T \ {x}]
  BY <1>1, <1>6 DEF N
<1> QED BY <1>3, <1>7 DEF Sums, FoldsUpTo

\* The library's sum is the value of such a function.
LEMMA SumIsFold ==
  ASSUME NEW w, NEW S, Countable(w, S)
  PROVE  \E f : Sums(f, w, S) /\ SumFunctionOnSet(w, S) = f[S]
<1> DEFINE c(T) == CHOOSE x \in T : TRUE
           Eq(f) == f = [T \in SUBSET S |-> IF T = {} THEN 0 ELSE w[c(T)] + f[T \ {c(T)}]]
           f0 == CHOOSE f : Eq(f)
<1>1. Cardinality(S) \in Nat /\ \A T \in SUBSET S : Cardinality(T) <= Cardinality(S)
  BY FS_CardinalityType, FS_Subset DEF Countable
<1>2. PICK f : FoldsUpTo(f, w, S, Cardinality(S))
  BY <1>1, FoldExists
<1>3. Eq(f)
  BY <1>1, <1>2 DEF FoldsUpTo
<1>4. Eq(f0) /\ SumFunctionOnSet(w, S) = f0[S]
  <2>1. SumFunctionOnSet(w, S) = f0[S]
    BY Zenon DEF SumFunctionOnSet, FoldFunctionOnSet, MapThenFoldSet
  <2>2. \E g : Eq(g)
    BY <1>3
  <2> HIDE DEF Eq
  <2>3. Eq(f0)
    BY <2>2
  <2> QED BY <2>1, <2>3
<1> HIDE DEF f0
<1>5. ASSUME NEW T \in SUBSET S
      PROVE  f0[T] = IF T = {} THEN 0 ELSE w[c(T)] + f0[T \ {c(T)}]
  BY <1>4
<1>6. ASSUME NEW T \in SUBSET S
      PROVE  /\ Cardinality(T) \in Nat /\ (Cardinality(T) = 0 <=> T = {})
             /\ T # {} => /\ T \ {c(T)} \in SUBSET S /\ w[c(T)] \in Nat
                          /\ Cardinality(T \ {c(T)}) = Cardinality(T) - 1
  BY ChosenOut
<1> HIDE DEF c, Eq
<1> DEFINE N == {n \in Nat : \A T \in SUBSET S : Cardinality(T) = n => f0[T] \in Nat}
<1>7. 0 \in N
  BY <1>5, <1>6
<1>8. ASSUME NEW n \in Nat, n \in N PROVE n + 1 \in N
  <2> SUFFICES ASSUME NEW T \in SUBSET S, Cardinality(T) = n + 1 PROVE f0[T] \in Nat
    OBVIOUS
  <2> DEFINE R == T \ {c(T)}
  <2>1. T # {} /\ R \in SUBSET S /\ w[c(T)] \in Nat /\ Cardinality(R) = n
    BY <1>6
  <2>2. f0[T] = w[c(T)] + f0[R]
    BY <1>5, <2>1
  <2> HIDE DEF R
  <2>3. f0[R] \in Nat
    BY <1>8, <2>1
  <2> QED BY <2>1, <2>2, <2>3
<1> HIDE DEF N
<1>9. \A n \in Nat : n \in N
  BY <1>7, <1>8, AllNat
<1>10. ASSUME NEW T \in SUBSET S PROVE f0[T] \in Nat
  BY <1>6, <1>9 DEF N
<1>11. f0 \in [SUBSET S -> Nat]
  <2>1. f0 = [T \in SUBSET S |-> f0[T]]
    BY <1>4 DEF Eq
  <2> QED BY <1>10, <2>1
<1>12. FoldsUpTo(f0, w, S, Cardinality(S))
  BY <1>5, <1>11 DEF FoldsUpTo, c
<1> QED BY <1>4, <1>12, AnyOrder

\* Two functions that add up agree wherever the counts do.
LEMMA SumsAgree ==
  ASSUME NEW w, NEW v, NEW S, NEW R, NEW f, NEW g, IsFiniteSet(S), Sums(f, w, S), Sums(g, v, R),
         NEW T \in SUBSET S, T \in SUBSET R, \A x \in T : v[x] = w[x]
  PROVE  g[T] = f[T]
<1> DEFINE P == {X \in SUBSET T : g[X] = f[X]}
<1>1. IsFiniteSet(T)
  BY FS_Subset
<1>2. {} \in P
  BY DEF Sums
<1>3. ASSUME NEW X \in SUBSET T, NEW x \in T, X \in P, x \notin X PROVE X \cup {x} \in P
  <2> DEFINE Y == X \cup {x}
  <2>1. Y \in SUBSET S /\ Y \in SUBSET R /\ x \in Y /\ Y \ {x} = X /\ Y \in SUBSET T
    BY <1>3
  <2> HIDE DEF Y
  <2>2. f[Y] = w[x] + f[X] /\ g[Y] = v[x] + g[X]
    BY <2>1 DEF Sums
  <2> QED BY <1>3, <2>1, <2>2 DEF Y
<1> HIDE DEF P
<1>4. \A X \in SUBSET T, x \in T : X \in P /\ x \notin X => X \cup {x} \in P
  BY <1>3
<1>5. \A X \in SUBSET T : X \in P
  BY <1>1, <1>2, <1>4, AllSubsets
<1> QED BY <1>5 DEF P

\* What the sum over a set is: that of a smaller one and one count more.
LEMMA SetSum ==
  ASSUME NEW w, NEW S, Countable(w, S)
  PROVE  /\ SumFunctionOnSet(w, {}) = 0
         /\ \A T \in SUBSET S : SumFunctionOnSet(w, T) \in Nat
         /\ \A T \in SUBSET S, x \in S : x \notin T =>
              SumFunctionOnSet(w, T \cup {x}) = w[x] + SumFunctionOnSet(w, T)
<1>1. PICK f : Sums(f, w, S)
  BY SumIsFold
<1>2. ASSUME NEW T \in SUBSET S PROVE SumFunctionOnSet(w, T) = f[T]
  <2>1. Countable(w, T)
    BY FS_Subset DEF Countable
  <2>2. PICK g : Sums(g, w, T) /\ SumFunctionOnSet(w, T) = g[T]
    BY <2>1, SumIsFold
  <2>3. g[T] = f[T]
    BY <1>1, <2>2, SumsAgree DEF Countable
  <2> QED BY <2>2, <2>3
<1>3. ASSUME NEW T \in SUBSET S, NEW x \in S, x \notin T
      PROVE  f[T \cup {x}] = w[x] + f[T]
  <2> DEFINE Y == T \cup {x}
  <2>1. Y \in SUBSET S /\ x \in Y /\ Y \ {x} = T
    BY <1>3
  <2> HIDE DEF Y
  <2>2. f[Y] = w[x] + f[T]
    BY <1>1, <2>1 DEF Sums
  <2> QED BY <2>2 DEF Y
<1>4. {} \in SUBSET S /\ f[{}] = 0 /\ \A T \in SUBSET S : f[T] \in Nat
  BY <1>1 DEF Sums
<1>5. SumFunctionOnSet(w, {}) = 0
  BY <1>2, <1>4
<1>6. ASSUME NEW T \in SUBSET S PROVE SumFunctionOnSet(w, T) \in Nat
  BY <1>2, <1>4
<1>7. ASSUME NEW T \in SUBSET S, NEW x \in S, x \notin T
      PROVE  SumFunctionOnSet(w, T \cup {x}) = w[x] + SumFunctionOnSet(w, T)
  <2>1. T \cup {x} \in SUBSET S
    OBVIOUS
  <2>2. SumFunctionOnSet(w, T \cup {x}) = f[T \cup {x}]
    BY <1>2, <2>1
  <2> QED BY <1>2, <1>3, <1>7, <2>2
<1> QED BY <1>5, <1>6, <1>7

\* Sums of counts that are the same, or other counts' sum, one by one; of counts
\* that are smaller; and of multiples.
LEMMA SetSumPlus ==
  ASSUME NEW S, NEW u, NEW v, NEW w, Countable(v, S), Countable(w, S), \A x \in S : u[x] = v[x] + w[x]
  PROVE  Countable(u, S) /\ SumFunctionOnSet(u, S) = SumFunctionOnSet(v, S) + SumFunctionOnSet(w, S)
<1> DEFINE P == {T \in SUBSET S :
                   SumFunctionOnSet(u, T) = SumFunctionOnSet(v, T) + SumFunctionOnSet(w, T)}
<1>1. Countable(u, S)
  BY DEF Countable
<1>2. {} \in P
  <2>1. SumFunctionOnSet(u, {}) = 0
    BY <1>1, SetSum
  <2>2. SumFunctionOnSet(v, {}) = 0
    BY SetSum
  <2>3. SumFunctionOnSet(w, {}) = 0
    BY SetSum
  <2> QED BY <2>1, <2>2, <2>3
<1>3. ASSUME NEW T \in SUBSET S, NEW x \in S, T \in P, x \notin T PROVE T \cup {x} \in P
  <2>1. SumFunctionOnSet(u, T \cup {x}) = u[x] + SumFunctionOnSet(u, T)
    BY <1>1, <1>3, SetSum
  <2>2. SumFunctionOnSet(v, T \cup {x}) = v[x] + SumFunctionOnSet(v, T) /\ SumFunctionOnSet(v, T) \in Nat
    BY <1>3, SetSum
  <2>3. SumFunctionOnSet(w, T \cup {x}) = w[x] + SumFunctionOnSet(w, T) /\ SumFunctionOnSet(w, T) \in Nat
    BY <1>3, SetSum
  <2>4. u[x] = v[x] + w[x] /\ v[x] \in Nat /\ w[x] \in Nat
    BY DEF Countable
  <2> QED BY <1>3, <2>1, <2>2, <2>3, <2>4
<1> HIDE DEF P
<1>4. S \in P
  BY <1>2, <1>3, AllSubsets DEF Countable
<1> QED BY <1>1, <1>4 DEF P

LEMMA SetSumAtMost ==
  ASSUME NEW S, NEW v, NEW w, Countable(v, S), Countable(w, S), \A x \in S : v[x] <= w[x]
  PROVE  SumFunctionOnSet(v, S) <= SumFunctionOnSet(w, S)
<1> DEFINE d == [x \in S |-> w[x] - v[x]]
<1>1. \A x \in S : d[x] \in Nat /\ w[x] = v[x] + d[x]
  BY DEF Countable
<1> HIDE DEF d
<1>2. Countable(d, S)
  BY <1>1 DEF Countable
<1>3. SumFunctionOnSet(w, S) = SumFunctionOnSet(v, S) + SumFunctionOnSet(d, S)
  BY <1>1, <1>2, SetSumPlus
<1>4. SumFunctionOnSet(d, S) \in Nat
  BY <1>2, SetSum
<1>5. SumFunctionOnSet(v, S) \in Nat
  BY SetSum
<1> QED BY <1>3, <1>4, <1>5

LEMMA SetSumSame ==
  ASSUME NEW S, NEW v, NEW w, Countable(v, S), \A x \in S : w[x] = v[x]
  PROVE  SumFunctionOnSet(w, S) = SumFunctionOnSet(v, S)
<1>1. Countable(w, S)
  BY DEF Countable
<1>2. /\ \A x \in S : v[x] <= w[x]
      /\ \A x \in S : w[x] <= v[x]
  BY DEF Countable
<1>3. SumFunctionOnSet(v, S) <= SumFunctionOnSet(w, S)
  BY <1>1, <1>2, SetSumAtMost
<1>4. SumFunctionOnSet(w, S) <= SumFunctionOnSet(v, S)
  BY <1>1, <1>2, SetSumAtMost
<1>5. SumFunctionOnSet(v, S) \in Nat
  BY SetSum
<1>6. SumFunctionOnSet(w, S) \in Nat
  BY <1>1, SetSum
<1> QED BY <1>3, <1>4, <1>5, <1>6

LEMMA SetSumTimes ==
  ASSUME NEW S, NEW v, NEW w, NEW k \in Nat, Countable(v, S), \A x \in S : w[x] = k * v[x]
  PROVE  SumFunctionOnSet(w, S) = k * SumFunctionOnSet(v, S)
<1> DEFINE P == {T \in SUBSET S : SumFunctionOnSet(w, T) = k * SumFunctionOnSet(v, T)}
<1>1. Countable(w, S)
  BY DEF Countable
<1>2. {} \in P
  <2>1. SumFunctionOnSet(w, {}) = 0
    BY <1>1, SetSum
  <2>2. SumFunctionOnSet(v, {}) = 0
    BY SetSum
  <2> QED BY <2>1, <2>2
<1>3. ASSUME NEW T \in SUBSET S, NEW x \in S, T \in P, x \notin T PROVE T \cup {x} \in P
  <2>1. SumFunctionOnSet(w, T \cup {x}) = w[x] + SumFunctionOnSet(w, T)
    BY <1>1, <1>3, SetSum
  <2>2. SumFunctionOnSet(v, T \cup {x}) = v[x] + SumFunctionOnSet(v, T) /\ SumFunctionOnSet(v, T) \in Nat
    BY <1>3, SetSum
  <2>3. w[x] = k * v[x] /\ v[x] \in Nat
    BY DEF Countable
  <2>4. SumFunctionOnSet(w, T) = k * SumFunctionOnSet(v, T)
    BY <1>3
  <2> DEFINE p == v[x]
             q == SumFunctionOnSet(v, T)
  <2>5. k * (p + q) = k * p + k * q
    <3> HIDE DEF p, q
    <3>1. p \in Nat /\ q \in Nat
      BY <2>2, <2>3 DEF p, q
    <3> QED BY <3>1
  <2> QED BY <2>1, <2>2, <2>3, <2>4, <2>5
<1> HIDE DEF P
<1>4. S \in P
  BY <1>2, <1>3, AllSubsets DEF Countable
<1> QED BY <1>4 DEF P

\* The sum over two sets that are apart, and over a set outside of which there
\* is nothing.
LEMMA SetSumUnion ==
  ASSUME NEW S, NEW R, NEW w, Countable(w, S), Countable(w, R), S \cap R = {}
  PROVE  /\ Countable(w, S \cup R)
         /\ SumFunctionOnSet(w, S \cup R) = SumFunctionOnSet(w, S) + SumFunctionOnSet(w, R)
<1> DEFINE P == {T \in SUBSET R :
                   SumFunctionOnSet(w, S \cup T) = SumFunctionOnSet(w, S) + SumFunctionOnSet(w, T)}
<1>1. Countable(w, S \cup R)
  BY FS_Union DEF Countable
<1>2. {} \in P
  <2>1. SumFunctionOnSet(w, {}) = 0 /\ SumFunctionOnSet(w, S) \in Nat /\ S \cup {} = S
    BY SetSum
  <2> QED BY <2>1
<1>3. ASSUME NEW T \in SUBSET R, NEW x \in R, T \in P, x \notin T PROVE T \cup {x} \in P
  <2> DEFINE Q == S \cup T
  <2>1. Q \in SUBSET (S \cup R) /\ x \in S \cup R /\ x \notin Q /\ S \cup (T \cup {x}) = Q \cup {x}
    BY <1>3
  <2> HIDE DEF Q
  <2>2. SumFunctionOnSet(w, Q \cup {x}) = w[x] + SumFunctionOnSet(w, Q)
    BY <1>1, <2>1, SetSum
  <2>3. SumFunctionOnSet(w, T \cup {x}) = w[x] + SumFunctionOnSet(w, T) /\ SumFunctionOnSet(w, T) \in Nat
    BY <1>3, SetSum
  <2>4. SumFunctionOnSet(w, S) \in Nat
    BY SetSum
  <2>5. w[x] \in Nat
    BY DEF Countable
  <2>6. SumFunctionOnSet(w, Q) = SumFunctionOnSet(w, S) + SumFunctionOnSet(w, T)
    BY <1>3 DEF Q
  <2> QED BY <2>1, <2>2, <2>3, <2>4, <2>5, <2>6
<1> HIDE DEF P
<1>4. R \in P
  BY <1>2, <1>3, AllSubsets DEF Countable
<1> QED BY <1>1, <1>4 DEF P

LEMMA SetSumWithin ==
  ASSUME NEW S, NEW T \in SUBSET S, NEW w, Countable(w, S)
  PROVE  /\ Countable(w, T) /\ SumFunctionOnSet(w, T) <= SumFunctionOnSet(w, S)
         /\ (\A x \in S \ T : w[x] = 0) => SumFunctionOnSet(w, S) = SumFunctionOnSet(w, T)
<1>1. Countable(w, T) /\ Countable(w, S \ T)
  BY FS_Subset DEF Countable
<1>2. SumFunctionOnSet(w, T \cup (S \ T)) = SumFunctionOnSet(w, T) + SumFunctionOnSet(w, S \ T)
  BY <1>1, SetSumUnion
<1>3. T \cup (S \ T) = S
  OBVIOUS
<1>4. SumFunctionOnSet(w, S \ T) \in Nat
  BY <1>1, SetSum
<1>5. SumFunctionOnSet(w, T) \in Nat
  BY <1>1, SetSum
<1>6. ASSUME \A x \in S \ T : w[x] = 0 PROVE SumFunctionOnSet(w, S \ T) = 0
  <2>1. \A x \in S \ T : w[x] = 0 * w[x]
    BY <1>1, <1>6 DEF Countable
  <2>2. SumFunctionOnSet(w, S \ T) = 0 * SumFunctionOnSet(w, S \ T)
    BY <1>1, <2>1, SetSumTimes
  <2> QED BY <1>4, <2>2
<1>7. SumFunctionOnSet(w, S) = SumFunctionOnSet(w, T) + SumFunctionOnSet(w, S \ T)
  BY <1>2, <1>3
<1>8. SumFunctionOnSet(w, T) <= SumFunctionOnSet(w, S)
  BY <1>4, <1>5, <1>7
<1>9. ASSUME \A x \in S \ T : w[x] = 0 PROVE SumFunctionOnSet(w, S) = SumFunctionOnSet(w, T)
  BY <1>5, <1>6, <1>7, <1>9
<1> QED BY <1>1, <1>8, <1>9

\* A table m of counts, d is its columns, has one sum: of its rows, which are r,
\* and of its columns, which are c.
Ledger(S, R, m, d, r, c) ==
  /\ \A x \in S, y \in R : m[x][y] \in Nat /\ d[y][x] = m[x][y]
  /\ \A x \in S : r[x] = SumFunctionOnSet(m[x], R)
  /\ \A y \in R : c[y] = SumFunctionOnSet(d[y], S)

LEMMA SetSumTwice ==
  ASSUME NEW S, NEW R, IsFiniteSet(S), IsFiniteSet(R), NEW m, NEW d, NEW r, NEW c,
         Ledger(S, R, m, d, r, c)
  PROVE  Countable(r, S) /\ Countable(c, R) /\ SumFunctionOnSet(r, S) = SumFunctionOnSet(c, R)
<1> DEFINE col(y) == d[y]
           part(T) == [y \in R |-> SumFunctionOnSet(col(y), T)]
           P == {T \in SUBSET S : SumFunctionOnSet(r, T) = SumFunctionOnSet(part(T), R)}
<1>1. ASSUME NEW x \in S PROVE Countable(m[x], R)
  BY DEF Countable, Ledger
<1>2. ASSUME NEW y \in R PROVE Countable(col(y), S) /\ \A x \in S : col(y)[x] = m[x][y]
  BY DEF Countable, Ledger
<1>3. Countable(r, S)
  <2>1. ASSUME NEW x \in S PROVE r[x] \in Nat
    <3>1. SumFunctionOnSet(m[x], R) \in Nat
      BY <1>1, SetSum
    <3> QED BY <3>1 DEF Ledger
  <2> QED BY <2>1 DEF Countable
<1>4. (\A y \in R : c[y] = SumFunctionOnSet(col(y), S)) /\ \A x \in S : r[x] = SumFunctionOnSet(m[x], R)
  BY DEF Ledger
<1> HIDE DEF col
<1>5. ASSUME NEW T \in SUBSET S PROVE Countable(part(T), R)
  <2>1. ASSUME NEW y \in R PROVE part(T)[y] \in Nat
    <3>1. SumFunctionOnSet(col(y), T) \in Nat
      BY <1>2, SetSum
    <3> QED BY <3>1
  <2> QED BY <2>1 DEF Countable
<1>6. {} \in P
  <2>1. SumFunctionOnSet(r, {}) = 0
    BY <1>3, SetSum
  <2>2. \A y \in R : part({})[y] = 0 * part({})[y]
    <3>1. ASSUME NEW y \in R PROVE SumFunctionOnSet(col(y), {}) = 0
      BY <1>2, SetSum
    <3> QED BY <3>1
  <2>3. Countable(part({}), R)
    BY <1>5
  <2> HIDE DEF part
  <2>4. SumFunctionOnSet(part({}), R) = 0 * SumFunctionOnSet(part({}), R)
    BY <2>2, <2>3, SetSumTimes
  <2>5. SumFunctionOnSet(part({}), R) \in Nat
    BY <2>3, SetSum
  <2> QED BY <2>1, <2>4, <2>5
<1>7. ASSUME NEW T \in SUBSET S, NEW x \in S, T \in P, x \notin T PROVE T \cup {x} \in P
  <2> DEFINE X == T \cup {x}
  <2>1. X \in SUBSET S
    OBVIOUS
  <2>2. SumFunctionOnSet(r, X) = SumFunctionOnSet(m[x], R) + SumFunctionOnSet(r, T)
    <3>1. SumFunctionOnSet(r, X) = r[x] + SumFunctionOnSet(r, T)
      BY <1>3, <1>7, SetSum
    <3> QED BY <1>4, <3>1
  <2>3. ASSUME NEW y \in R PROVE part(X)[y] = m[x][y] + part(T)[y]
    <3>1. SumFunctionOnSet(col(y), X) = col(y)[x] + SumFunctionOnSet(col(y), T)
      BY <1>2, <1>7, SetSum
    <3>2. part(X)[y] = SumFunctionOnSet(col(y), X) /\ part(T)[y] = SumFunctionOnSet(col(y), T)
      OBVIOUS
    <3> HIDE DEF part, X
    <3> QED BY <1>2, <3>1, <3>2
  <2>4. Countable(part(T), R) /\ Countable(m[x], R)
    BY <1>1, <1>5
  <2> HIDE DEF part, X
  <2>5. SumFunctionOnSet(part(X), R) = SumFunctionOnSet(m[x], R) + SumFunctionOnSet(part(T), R)
    BY <2>3, <2>4, SetSumPlus
  <2>6. SumFunctionOnSet(r, T) = SumFunctionOnSet(part(T), R)
    BY <1>7
  <2> QED BY <2>1, <2>2, <2>5, <2>6 DEF X
<1>8. \A T \in SUBSET S, x \in S : T \in P /\ x \notin T => T \cup {x} \in P
  BY <1>7
<1>9. SumFunctionOnSet(r, S) = SumFunctionOnSet(part(S), R)
  <2> HIDE DEF P
  <2>1. \A T \in SUBSET S : T \in P
    BY <1>6, <1>8, AllSubsets
  <2> QED BY <2>1 DEF P
<1>10. Countable(part(S), R) /\ \A y \in R : c[y] = part(S)[y]
  BY <1>4, <1>5
<1> HIDE DEF part, P
<1>11. SumFunctionOnSet(c, R) = SumFunctionOnSet(part(S), R)
  BY <1>10, SetSumSame
<1>12. Countable(c, R)
  BY <1>10 DEF Countable
<1> QED BY <1>3, <1>9, <1>11, <1>12

\* The sum over the images of the elements of S, which are all different.
LEMMA SetSumImage ==
  ASSUME NEW S, NEW f, NEW v, NEW w, Countable(v, S),
         \A x \in S : v[x] = w[f[x]], \A x, y \in S : f[x] = f[y] => x = y
  PROVE  LET I == {f[x] : x \in S}
         IN Countable(w, I) /\ SumFunctionOnSet(w, I) = SumFunctionOnSet(v, S)
<1> DEFINE I(T) == {f[x] : x \in T}
           P == {T \in SUBSET S : SumFunctionOnSet(w, I(T)) = SumFunctionOnSet(v, T)}
<1>1. Countable(w, I(S))
  <2> DEFINE g == [x \in S |-> f[x]]
  <2>1. g \in Surjection(S, I(S))
    BY DEF Surjection
  <2>2. IsFiniteSet(I(S))
    <3> HIDE DEF g, I
    <3> QED BY <2>1, FS_Surjection DEF Countable
  <2> QED BY <2>2 DEF Countable
<1>2. {} \in P
  <2>1. I({}) = {}
    OBVIOUS
  <2>2. SumFunctionOnSet(w, {}) = 0
    <3> HIDE DEF I
    <3> QED BY <1>1, SetSum
  <2>3. SumFunctionOnSet(v, {}) = 0
    BY SetSum
  <2> QED BY <2>1, <2>2, <2>3
<1>3. ASSUME NEW T \in SUBSET S, NEW x \in S, T \in P, x \notin T PROVE T \cup {x} \in P
  <2>1. I(T \cup {x}) = I(T) \cup {f[x]} /\ f[x] \notin I(T) /\ I(T) \in SUBSET I(S) /\ f[x] \in I(S)
    BY <1>3
  <2>2. SumFunctionOnSet(w, I(T)) = SumFunctionOnSet(v, T)
    BY <1>3
  <2> HIDE DEF I
  <2>3. SumFunctionOnSet(w, I(T) \cup {f[x]}) = w[f[x]] + SumFunctionOnSet(w, I(T))
    BY <1>1, <2>1, SetSum
  <2>4. SumFunctionOnSet(v, T \cup {x}) = v[x] + SumFunctionOnSet(v, T)
    BY <1>3, SetSum
  <2>5. SumFunctionOnSet(w, I(T \cup {x})) = SumFunctionOnSet(v, T \cup {x})
    BY <2>1, <2>2, <2>3, <2>4
  <2> QED BY <2>5
<1>4. \A T \in SUBSET S, x \in S : T \in P /\ x \notin T => T \cup {x} \in P
  BY <1>3
<1>5. SumFunctionOnSet(w, I(S)) = SumFunctionOnSet(v, S)
  <2> HIDE DEF P
  <2>1. \A T \in SUBSET S : T \in P
    BY <1>2, <1>4, AllSubsets DEF Countable
  <2> QED BY <2>1 DEF P
<1> QED BY <1>1, <1>5

(***************************************************************************)
(* What refactor makes of one sample.                                      *)
(***************************************************************************)
\* DataList.refactor: where blocks begin.
LEMMA FloorIs ==
  ASSUME NEW t \in Int, NEW size \in Nat \ {0}
  PROVE  /\ Floor(t, size) \in Int /\ Floor(t, size) <= t /\ t < Floor(t, size) + size
         /\ Floor(t, size) % size = 0 /\ (t >= 0 => Floor(t, size) \in Nat)
<1> DEFINE q == t \div size
<1>1. q \in Int /\ q * size <= t /\ t < q * size + size
  BY SMT
<1>2. (t >= 0 => q \in Nat)
  BY SMT
<1> HIDE DEF q
<1>3. (q * size) % size = 0 /\ q * size \in Int
  BY <1>1, SMT
<1>4. q \in Nat => q * size \in Nat
  BY SMT
<1> QED BY <1>1, <1>2, <1>3, <1>4 DEF Floor, q

\* The multiples of a size from one of them on.
LEMMA NextMultiple ==
  ASSUME NEW a \in Nat, NEW size \in Nat \ {0}, a % size = 0
  PROVE  /\ (a + size) % size = 0
         /\ \A j \in Nat : (a + j * size) % size = 0 /\ a + j * size \in Nat
         /\ \A b \in Nat : b % size = 0 /\ a <= b => \E j \in Nat : b = a + j * size
<1>1. PICK k \in Nat : a = k * size
  BY SMT
<1>2. (a + size) % size = 0
  BY <1>1, SMT
<1>3. ASSUME NEW j \in Nat PROVE (a + j * size) % size = 0 /\ a + j * size \in Nat
  <2>1. a + j * size = (k + j) * size /\ k + j \in Nat
    BY <1>1
  <2>2. ((k + j) * size) % size = 0 /\ (k + j) * size \in Nat
    <3> DEFINE i == k + j
    <3>1. i \in Nat
      OBVIOUS
    <3> HIDE DEF i
    <3>2. (i * size) % size = 0 /\ i * size \in Nat
      BY <3>1, SMT
    <3> QED BY <3>2 DEF i
  <2> QED BY <2>1, <2>2
<1>4. ASSUME NEW b \in Nat, b % size = 0, a <= b PROVE \E j \in Nat : b = a + j * size
  <2>1. PICK l \in Nat : b = l * size
    BY <1>4, SMT
  <2>2. size * k <= size * l
    BY <1>1, <1>4, <2>1
  <2>3. k <= l
    BY <2>2, Cancel
  <2>4. l - k \in Nat /\ b = a + (l - k) * size
    BY <1>1, <2>1, <2>3
  <2> QED BY <2>4
<1> QED BY <1>2, <1>3, <1>4

\* A row as far as refactor looks at it.
Sample(r) == r.start \in Nat /\ r.end \in Nat /\ r.down \in Nat

\* The blocks of a sample.
LEMMA FirstLast ==
  ASSUME NEW r, Sample(r), NEW size \in Nat \ {0}
  PROVE  /\ First(r, size) \in Nat /\ First(r, size) % size = 0
         /\ First(r, size) <= r.start /\ r.start < First(r, size) + size
         /\ Stop(r) \in Nat
         /\ Last(r, size) \in Int /\ Last(r, size) % size = 0
         /\ Last(r, size) <= Stop(r) - 1
         /\ IsFiniteSet(Spread(r, size)) /\ Spread(r, size) \subseteq Nat
         /\ Last(r, size) < First(r, size) => Spread(r, size) = {}
<1>1. r.start \in Int /\ Stop(r) \in Nat /\ Stop(r) - 1 \in Int
  BY DEF Sample, Stop
<1>2. /\ First(r, size) \in Nat /\ First(r, size) % size = 0
      /\ First(r, size) <= r.start /\ r.start < First(r, size) + size
  <2>1. r.start >= 0 /\ r.start \in Int
    BY DEF Sample
  <2> QED BY <2>1, FloorIs DEF First
<1>3. /\ Last(r, size) \in Int /\ Last(r, size) % size = 0 /\ Last(r, size) <= Stop(r) - 1
  BY <1>1, FloorIs DEF Last
<1>4. IsFiniteSet(First(r, size) .. Last(r, size))
  BY <1>2, <1>3, FS_Interval
<1>5. Spread(r, size) \in SUBSET (First(r, size) .. Last(r, size))
  BY DEF Spread
<1>6. IsFiniteSet(Spread(r, size))
  BY <1>4, <1>5, FS_Subset
<1>7. Spread(r, size) \subseteq Nat
  BY <1>2, <1>3, <1>5
<1>8. Last(r, size) < First(r, size) => Spread(r, size) = {}
  BY <1>2, <1>3, <1>5
<1> QED BY <1>1, <1>2, <1>3, <1>6, <1>7, <1>8

\* The parts of all blocks but the last are together no more than the sample.
LEMMA PartsFit ==
  ASSUME NEW r, Sample(r), NEW size \in Nat \ {0}, First(r, size) <= Last(r, size)
  PROVE  LET p == [c \in Spread(r, size) \ {Last(r, size)} |-> Part(r, c, size)]
         IN Countable(p, DOMAIN p) /\ SumFunctionOnSet(p, DOMAIN p) \in 0 .. r.down
<1> DEFINE F == First(r, size)
           E == Last(r, size)
           d == r.down
           l == Stop(r) - r.start
           O == Spread(r, size) \ {E}
           p == [c \in O |-> Part(r, c, size)]
           S(h) == {b \in F .. h - 1 : b % size = 0}
           at(j) == F + j * size
<1>1. /\ F \in Nat /\ F % size = 0 /\ F <= r.start /\ r.start < F + size /\ E \in Nat
      /\ E % size = 0 /\ E <= Stop(r) - 1 /\ IsFiniteSet(Spread(r, size)) /\ d \in Nat
      /\ Stop(r) \in Nat /\ r.start \in Nat /\ Spread(r, size) \subseteq Nat
  BY FirstLast DEF Sample
<1>2. O = {b \in F .. E - 1 : b % size = 0}
  BY <1>1 DEF Spread
<1>3. PICK k \in Nat : E = F + k * size
  BY <1>1, NextMultiple
<1> HIDE DEF F, E, d, l
<1>4. O = S(at(k)) /\ E = at(k)
  BY <1>2, <1>3
<1>5. ASSUME NEW j \in Nat
      PROVE  /\ at(j) \in Nat /\ at(j) % size = 0 /\ F <= at(j) /\ at(j + 1) = at(j) + size
             /\ at(0) = F /\ (j > 0 => at(j) # F) /\ (j < k => at(j + 1) <= E)
  <2>1. at(j) \in Nat /\ at(j) % size = 0
    <3>1. F \in Nat /\ F % size = 0
      BY <1>1
    <3>2. \A i \in Nat : (F + i * size) % size = 0 /\ F + i * size \in Nat
      BY <3>1, NextMultiple
    <3> QED BY <3>2
  <2>2. j * size \in Nat /\ (j + 1) * size = j * size + size /\ 0 * size = 0
    OBVIOUS
  <2>3. j > 0 => j * size > 0
    BY SMT
  <2>4. j < k => (j + 1) * size <= k * size
    <3> SUFFICES ASSUME j < k PROVE (j + 1) * size <= k * size
      OBVIOUS
    <3>1. k - (j + 1) \in Nat /\ k * size = (j + 1) * size + (k - (j + 1)) * size
      OBVIOUS
    <3>2. (k - (j + 1)) * size \in Nat
      BY <3>1
    <3>3. (j + 1) * size \in Nat
      OBVIOUS
    <3> QED BY <3>1, <3>2, <3>3
  <2>5. k * size \in Nat
    OBVIOUS
  <2>6. at(j + 1) = at(j) + size /\ at(0) = F /\ F <= at(j) /\ (j > 0 => at(j) # F)
    BY <1>1, <2>2, <2>3
  <2>7. j < k => at(j + 1) <= E
    BY <1>1, <1>3, <2>2, <2>4, <2>5
  <2> QED BY <2>1, <2>6, <2>7
<1> HIDE DEF at
<1>6. S(F) = {}
  BY <1>1
<1>7. CASE k = 0
  <2>1. O = {}
    BY <1>4, <1>5, <1>6, <1>7
  <2>2. DOMAIN p = {} /\ Countable(p, {})
    BY <2>1, FS_EmptySet DEF Countable
  <2> HIDE DEF p, O
  <2>3. SumFunctionOnSet(p, {}) = 0
    BY <2>2, SetSum
  <2>4. Countable(p, DOMAIN p) /\ SumFunctionOnSet(p, DOMAIN p) \in 0 .. d
    BY <1>1, <2>2, <2>3
  <2> QED BY <2>4 DEF p, O, d, E
<1>8. CASE k # 0
  <2>1. l \in Nat \ {0} /\ E - r.start \in Int /\ E - r.start <= l
    <3>1. at(0) = F /\ at(0 + 1) = at(0) + size /\ at(0 + 1) <= E
      BY <1>5, <1>8
    <3> QED BY <1>1, <3>1 DEF l
  <2> DEFINE len(c) == IF c = F THEN F + size - r.start ELSE size
  <2>2. ASSUME NEW c \in O PROVE p[c] \in Nat /\ l * p[c] <= d * len(c) /\ len(c) \in Nat
    <3> DEFINE a == d * len(c)
    <3>1. len(c) \in Nat
      BY <1>1
    <3>2. a \in Nat
      <4> HIDE DEF len
      <4> QED BY <1>1, <3>1
    <3>3. p[c] = a \div l
      BY DEF Part, d, l, F
    <3> HIDE DEF a, p
    <3>4. a \div l \in Nat /\ l * (a \div l) <= a
      BY <2>1, <3>2, SMT
    <3> QED BY <3>1, <3>3, <3>4 DEF a
  <2>3. Countable(p, O) /\ DOMAIN p = O
    BY <1>1, <2>2, FS_Subset DEF Countable
  <2> HIDE DEF p, len
  <2> DEFINE s(j) == SumFunctionOnSet(p, S(at(j)))
             N == {j \in Nat : j + 1 <= k => l * s(j + 1) <= d * (at(j + 1) - r.start)}
  <2>4. ASSUME NEW j \in Nat, j < k
        PROVE  /\ S(at(j + 1)) = S(at(j)) \cup {at(j)} /\ at(j) \notin S(at(j))
               /\ S(at(j)) \in SUBSET O /\ at(j) \in O
    <3> DEFINE g == at(j)
    <3>1. g \in Nat /\ g % size = 0 /\ F <= g /\ at(j + 1) = g + size /\ g + size <= E
      BY <1>5, <2>4
    <3> HIDE DEF g
    <3>3. \A b \in F .. g + size - 1 : b % size = 0 => b \in F .. g - 1 \/ b = g
      <4> SUFFICES ASSUME NEW b \in F .. g + size - 1, b % size = 0, ~(b \in F .. g - 1), b # g PROVE FALSE
        OBVIOUS
      <4>1. b \in Nat /\ g < b
        BY <1>1, <3>1
      <4>2. g + size <= b
        BY <3>1, <4>1, MultiplesApart
      <4> QED BY <1>1, <3>1, <4>2
    <3>5. S(g + size) = S(g) \cup {g}
      BY <1>1, <3>1, <3>3
    <3>6. g \notin S(g) /\ S(g) \in SUBSET O /\ g \in O
      BY <1>1, <1>2, <3>1
    <3> QED BY <3>1, <3>5, <3>6 DEF g
  <2> HIDE DEF S, O
  <2>5. ASSUME NEW j \in Nat, j < k
        PROVE  /\ s(j + 1) = p[at(j)] + s(j) /\ s(j) \in Nat /\ p[at(j)] \in Nat
               /\ l * p[at(j)] <= d * len(at(j))
    <3>1. p[at(j)] \in Nat /\ l * p[at(j)] <= d * len(at(j))
      BY <2>2, <2>4, <2>5
    <3>2. SumFunctionOnSet(p, S(at(j)) \cup {at(j)}) = p[at(j)] + s(j) /\ s(j) \in Nat
      BY <2>3, <2>4, <2>5, SetSum
    <3> QED BY <2>4, <2>5, <3>1, <3>2
  <2>6. 0 \in N
    <3>1. at(0) = F /\ at(0 + 1) = F + size /\ len(F) = at(0 + 1) - r.start
      <4>1. at(0) = F /\ at(0 + 1) = at(0) + size
        BY <1>5
      <4>2. len(F) = F + size - r.start
        BY DEF len
      <4>3. at(0 + 1) = F + size
        BY <4>1
      <4>4. len(F) = at(0 + 1) - r.start
        BY <1>1, <4>2, <4>3
      <4> QED BY <4>1, <4>3, <4>4
    <3>2. s(0) = 0
      <4>1. SumFunctionOnSet(p, {}) = 0
        BY <2>3, SetSum
      <4> QED BY <1>6, <3>1, <4>1
    <3> HIDE DEF s
    <3>3. s(0 + 1) = p[at(0)] + s(0) /\ p[at(0)] \in Nat /\ l * p[at(0)] <= d * len(at(0))
      BY <1>8, <2>5
    <3>4. s(0 + 1) = p[F] /\ l * p[F] <= d * (at(0 + 1) - r.start)
      BY <3>1, <3>2, <3>3
    <3> QED BY <3>4
  <2> HIDE DEF s
  <2>7. ASSUME NEW j \in Nat, j \in N PROVE j + 1 \in N
    <3> DEFINE i == j + 1
    <3> SUFFICES ASSUME i + 1 <= k PROVE l * s(i + 1) <= d * (at(i + 1) - r.start)
      OBVIOUS
    <3>1. i \in Nat /\ i < k /\ i > 0 /\ i <= k
      OBVIOUS
    <3>2. l * s(i) <= d * (at(i) - r.start)
      BY <2>7, <3>1
    <3> HIDE DEF i
    <3> DEFINE g == at(i)
               q == p[g]
               t == s(i)
    <3>3. g \in Nat /\ g # F /\ at(i + 1) = g + size
      BY <1>5, <3>1
    <3>4. s(i + 1) = q + t /\ t \in Nat /\ q \in Nat /\ l * q <= d * len(g)
      BY <2>5, <3>1
    <3>5. len(g) = size
      BY <3>3 DEF len
    <3>6. l * t <= d * (g - r.start) /\ l * q <= d * size
      BY <3>2, <3>4, <3>5
    <3> HIDE DEF g, q, t
    <3>7. l * (q + t) <= d * ((g + size) - r.start)
      <4>1. d * ((g + size) - r.start) = d * (g - r.start) + d * size
        BY <1>1, <3>3
      <4>2. l * (q + t) = l * q + l * t
        BY <2>1, <3>4
      <4>3. l * q \in Int /\ l * t \in Int /\ d * (g - r.start) \in Int /\ d * size \in Int
        BY <1>1, <2>1, <3>3, <3>4
      <4> QED BY <3>6, <4>1, <4>2, <4>3
    <3> QED BY <3>3, <3>4, <3>7
  <2>8. l * s(k) <= d * (E - r.start)
    <3> HIDE DEF N
    <3>1. \A j \in Nat : j \in N
      BY <2>6, <2>7, AllNat
    <3>2. k - 1 \in Nat /\ (k - 1) + 1 = k
      BY <1>8
    <3>3. k - 1 \in N
      BY <3>1, <3>2
    <3>4. (k - 1) + 1 <= k => l * s((k - 1) + 1) <= d * (at((k - 1) + 1) - r.start)
      BY <3>3 DEF N
    <3> QED BY <1>4, <3>2, <3>4
  <2>9. s(k) \in Nat /\ s(k) = SumFunctionOnSet(p, O)
    BY <1>4, <2>3, SetSum DEF s
  <2>10. s(k) <= d
    <3> DEFINE t == s(k)
               e == E - r.start
    <3>0. t \in Nat /\ e \in Int /\ e <= l /\ l * t <= d * e
      BY <2>1, <2>8, <2>9
    <3> HIDE DEF t, e
    <3>1. d * e <= d * l
      BY <1>1, <2>1, <3>0
    <3>2. l * t <= l * d
      <4>1. l * t \in Int /\ d * l = l * d /\ d * l \in Int /\ d * e \in Int
        BY <1>1, <2>1, <3>0
      <4> QED BY <3>0, <3>1, <4>1
    <3>3. t <= d
      BY <1>1, <2>1, <3>0, <3>2, Cancel
    <3> QED BY <3>3 DEF t
  <2>11. Countable(p, DOMAIN p) /\ SumFunctionOnSet(p, DOMAIN p) \in 0 .. d
    BY <1>1, <2>3, <2>9, <2>10
  <2> QED BY <2>11 DEF p, O, d, E
<1> QED BY <1>7, <1>8

\* The shares of a sample are counts, and together they are the sample, unless it
\* ends a block before it starts.
LEMMA SharesFit ==
  ASSUME NEW r, Sample(r), NEW size \in Nat \ {0}, NEW w, \A b \in Spread(r, size) : w[b] = Share(r, b, size)
  PROVE  /\ Countable(w, Spread(r, size))
         /\ First(r, size) <= Last(r, size) => SumFunctionOnSet(w, Spread(r, size)) = r.down
<1>1. CASE Last(r, size) < First(r, size)
  <2>1. Spread(r, size) = {}
    BY <1>1, FirstLast
  <2> QED BY <1>1, <2>1, FirstLast, FS_EmptySet DEF Countable
<1>2. CASE First(r, size) <= Last(r, size)
  <2> DEFINE O == Spread(r, size) \ {Last(r, size)}
             e == Last(r, size)
             p == [c \in O |-> Part(r, c, size)]
             s == SumFunctionOnSet(p, O)
  <2>1. Countable(p, DOMAIN p) /\ SumFunctionOnSet(p, DOMAIN p) \in 0 .. r.down
    BY <1>2, PartsFit
  <2>2. DOMAIN p = O
    OBVIOUS
  <2>3. Share(r, e, size) = r.down - s
    BY <2>2 DEF Share, SumFunction
  <2>4. \A c \in O : w[c] = p[c]
    BY DEF Share
  <2>5. e \in Spread(r, size) /\ Spread(r, size) = O \cup {e} /\ e \notin O
    <3>1. e \in First(r, size) .. e /\ e % size = 0
      <4>1. First(r, size) \in Nat /\ e \in Int /\ e % size = 0
        BY FirstLast
      <4> QED BY <1>2, <4>1
    <3>2. e \in Spread(r, size)
      BY <3>1 DEF Spread
    <3> QED BY <3>2
  <2>6. r.down \in Nat /\ IsFiniteSet(Spread(r, size))
    BY FirstLast DEF Sample
  <2> HIDE DEF O, e, p
  <2>7. s \in Nat /\ s <= r.down /\ Countable(p, O)
    BY <2>1, <2>2, <2>6
  <2>8. w[e] = r.down - s /\ w[e] \in Nat
    BY <2>3, <2>5, <2>6, <2>7
  <2>9. Countable(w, Spread(r, size))
    BY <2>4, <2>5, <2>6, <2>7, <2>8 DEF Countable
  <2>10. SumFunctionOnSet(w, O) = s
    BY <2>4, <2>7, SetSumSame
  <2>11. SumFunctionOnSet(w, O \cup {e}) = w[e] + SumFunctionOnSet(w, O)
    BY <2>5, <2>9, SetSum
  <2> QED BY <2>5, <2>6, <2>7, <2>8, <2>9, <2>10, <2>11
<1> QED BY <1>1, <1>2, FirstLast

(***************************************************************************)
(* What a user has in a table.                                             *)
(***************************************************************************)
\* The rows of a user in a table: finitely many, each a sample and there a number of times.
Mine(t, u) == {r \in DOMAIN t : r.userId = u}

Kept(t, u) == /\ IsFiniteSet(Mine(t, u))
              /\ \A r \in Mine(t, u) : Sample(r) /\ t[r] \in Nat

\* The bytes of the rows R of a table.
Bytes(t, R) == SumFunctionOnSet([r \in R |-> t[r] * r.down], R)

\* They can be added up.
LEMMA BytesType ==
  ASSUME NEW t, NEW u, Kept(t, u), NEW R \in SUBSET Mine(t, u)
  PROVE  Countable([r \in R |-> t[r] * r.down], R) /\ Bytes(t, R) \in Nat
<1> DEFINE w == [r \in R |-> t[r] * r.down]
<1>1. IsFiniteSet(R)
  BY FS_Subset DEF Kept
<1>2. ASSUME NEW r \in R PROVE w[r] \in Nat
  <2>1. t[r] \in Nat /\ r.down \in Nat
    BY DEF Kept, Sample
  <2> QED BY <2>1
<1>3. Countable(w, R)
  BY <1>1, <1>2 DEF Countable
<1> HIDE DEF w
<1>4. SumFunctionOnSet(w, R) \in Nat
  BY <1>3, SetSum
<1> QED BY <1>3, <1>4 DEF w, Bytes

\* Total, of a user's rows.
LEMMA TotalIsBytes ==
  ASSUME NEW t, NEW u PROVE Total(t, u) = Bytes(t, Mine(t, u))
BY DEF Total, Bytes, Mine, SumFunction, BagToSet

\* Of two tables put together a user has what he has in both.
LEMMA TotalAdds ==
  ASSUME NEW t, NEW n, NEW u, Kept(t, u), Kept(n, u)
  PROVE  Kept(t (+) n, u) /\ Total(t (+) n, u) = Total(t, u) + Total(n, u)
<1> DEFINE T == t (+) n
           A == Mine(t, u)
           B == Mine(n, u)
           C == A \cup B
           a == [r \in C |-> IF r \in A THEN t[r] * r.down ELSE 0]
           b == [r \in C |-> IF r \in B THEN n[r] * r.down ELSE 0]
           c == [r \in C |-> T[r] * r.down]
<1>1. /\ DOMAIN T = DOMAIN t \cup DOMAIN n
      /\ \A r \in DOMAIN T :
           T[r] = (IF r \in DOMAIN t THEN t[r] ELSE 0) + (IF r \in DOMAIN n THEN n[r] ELSE 0)
  BY DEF (+)
<1>2. /\ IsFiniteSet(C) /\ Mine(T, u) = C
      /\ \A r \in C : T[r] = (IF r \in A THEN t[r] ELSE 0) + (IF r \in B THEN n[r] ELSE 0)
  <2>1. IsFiniteSet(C)
    BY FS_Union DEF Kept
  <2> HIDE DEF T
  <2> QED BY <1>1, <2>1 DEF Mine
<1> HIDE DEF T
<1>3. ASSUME NEW r \in C
      PROVE  /\ Sample(r) /\ T[r] \in Nat
             /\ a[r] \in Nat /\ b[r] \in Nat /\ c[r] = a[r] + b[r]
  <2> DEFINE x == IF r \in A THEN t[r] ELSE 0
             y == IF r \in B THEN n[r] ELSE 0
  <2>1. x \in Nat /\ y \in Nat /\ Sample(r) /\ r.down \in Nat /\ T[r] = x + y
    BY <1>2 DEF Kept, Sample
  <2>2. a[r] = x * r.down /\ b[r] = y * r.down /\ c[r] = (x + y) * r.down
    BY <2>1
  <2> HIDE DEF x, y, a, b, c
  <2> QED BY <2>1, <2>2
<1>4. Kept(T, u)
  BY <1>2, <1>3 DEF Kept
<1>5. Countable(a, C) /\ Countable(b, C) /\ \A r \in C : c[r] = a[r] + b[r]
  BY <1>2, <1>3 DEF Countable
<1>6. SumFunctionOnSet(c, C) = SumFunctionOnSet(a, C) + SumFunctionOnSet(b, C)
  <2> HIDE DEF a, b, c, C
  <2> QED BY <1>5, SetSumPlus
<1>7. SumFunctionOnSet(a, C) = Total(t, u)
  <2> DEFINE v == [r \in A |-> t[r] * r.down]
  <2>1. A \in SUBSET C /\ (\A r \in C \ A : a[r] = 0) /\ \A r \in A : a[r] = v[r]
    OBVIOUS
  <2>2. Countable(v, A) /\ Total(t, u) = SumFunctionOnSet(v, A)
    BY BytesType, TotalIsBytes DEF Bytes
  <2> HIDE DEF v, a, A, C
  <2>3. SumFunctionOnSet(a, C) = SumFunctionOnSet(a, A)
    BY <1>5, <2>1, SetSumWithin
  <2>4. SumFunctionOnSet(a, A) = SumFunctionOnSet(v, A)
    BY <2>1, <2>2, SetSumSame
  <2> QED BY <2>2, <2>3, <2>4
<1>8. SumFunctionOnSet(b, C) = Total(n, u)
  <2> DEFINE v == [r \in B |-> n[r] * r.down]
  <2>1. B \in SUBSET C /\ (\A r \in C \ B : b[r] = 0) /\ \A r \in B : b[r] = v[r]
    OBVIOUS
  <2>2. Countable(v, B) /\ Total(n, u) = SumFunctionOnSet(v, B)
    BY BytesType, TotalIsBytes DEF Bytes
  <2> HIDE DEF v, b, B, C
  <2>3. SumFunctionOnSet(b, C) = SumFunctionOnSet(b, B)
    BY <1>5, <2>1, SetSumWithin
  <2>4. SumFunctionOnSet(b, B) = SumFunctionOnSet(v, B)
    BY <2>1, <2>2, SetSumSame
  <2> QED BY <2>2, <2>3, <2>4
<1>9. Total(T, u) = SumFunctionOnSet(c, C)
  BY <1>2, TotalIsBytes DEF Bytes
<1> QED BY <1>4, <1>6, <1>7, <1>8, <1>9 DEF T

\* The rows of a user are the ones of two parts.
LEMMA BytesSplit ==
  ASSUME NEW t, NEW u, Kept(t, u), NEW R \in SUBSET Mine(t, u), NEW P \in SUBSET R
  PROVE  /\ Bytes(t, R) = Bytes(t, P) + Bytes(t, R \ P)
         /\ Bytes(t, P) <= Bytes(t, R)
<1> DEFINE w(Q) == [r \in Q |-> t[r] * r.down]
           O == R \ P
<1>1. Countable(w(R), R) /\ Bytes(t, R) \in Nat
  BY BytesType
<1>2. Countable(w(P), P) /\ Bytes(t, P) \in Nat
  BY BytesType
<1>3. Countable(w(O), O) /\ Bytes(t, O) \in Nat
  BY BytesType
<1>4. (\A r \in P : w(R)[r] = w(P)[r]) /\ \A r \in O : w(R)[r] = w(O)[r]
  OBVIOUS
<1>5. Bytes(t, R) = SumFunctionOnSet(w(R), R) /\ Bytes(t, P) = SumFunctionOnSet(w(P), P)
      /\ Bytes(t, O) = SumFunctionOnSet(w(O), O)
  BY DEF Bytes
<1>6. P \cap O = {} /\ P \cup O = R
  OBVIOUS
<1> HIDE DEF w, O
<1>7. Countable(w(R), P) /\ Countable(w(R), O)
  BY <1>1, <1>6, SetSumWithin
<1>8. SumFunctionOnSet(w(R), P) = SumFunctionOnSet(w(P), P)
  BY <1>2, <1>4, SetSumSame
<1>9. SumFunctionOnSet(w(R), O) = SumFunctionOnSet(w(O), O)
  BY <1>3, <1>4, SetSumSame
<1>10. SumFunctionOnSet(w(R), P \cup O) = SumFunctionOnSet(w(R), P) + SumFunctionOnSet(w(R), O)
  BY <1>6, <1>7, SetSumUnion
<1>11. Bytes(t, R) = Bytes(t, P) + Bytes(t, O)
  BY <1>5, <1>6, <1>8, <1>9, <1>10
<1>12. Bytes(t, P) <= Bytes(t, R)
  BY <1>2, <1>3, <1>11
<1> QED BY <1>11, <1>12 DEF O

(***************************************************************************)
(* What one level loses.                                                   *)
(***************************************************************************)
\* A row of a level is in one block of that level, and of a higher one.
LEMMA InOneBlock ==
  ASSUME NEW r, Aligned(r), NEW level \in 1 .. 2, r.archived \in 1 .. level
  PROVE  Last(r, Size(level)) = First(r, Size(level))
<1> DEFINE z == Size(level)
           y == Size(r.archived)
           F == First(r, z)
           G == Last(r, z)
<1>1. y \in Nat \ {0} /\ z \in Nat \ {0} /\ z % y = 0
  <2>1. Size1 \in Nat \ {0} /\ Size2 \in Nat \ {0} /\ Size2 % Size1 = 0 /\ Size1 % Size1 = 0 /\ Size2 % Size2 = 0
    BY ArchiveAssumption
  <2> QED BY <2>1 DEF Size
<1>2. r.start \in Nat /\ r.start % y = 0 /\ r.end = r.start + y /\ r.archived > 0
  BY DEF Aligned
<1> HIDE DEF y, z
<1>3. Stop(r) = r.start + y
  BY <1>1, <1>2 DEF Stop
<1>4. F \in Nat /\ F <= r.start /\ r.start < F + z /\ F % z = 0
  <2>1. r.start \in Int /\ r.start >= 0
    BY <1>2
  <2> QED BY <1>1, <2>1, FloorIs DEF First
<1>5. G \in Nat /\ G <= r.start + y - 1 /\ r.start + y - 1 < G + z /\ G % z = 0
  <2>1. Stop(r) - 1 = r.start + y - 1 /\ r.start + y - 1 \in Int /\ r.start + y - 1 >= 0
    BY <1>1, <1>2, <1>3
  <2> QED BY <1>1, <2>1, FloorIs DEF Last
<1> HIDE DEF F, G
<1>6. (F + z) % y = 0
  <2>1. PICK k \in Nat : F = k * z
    BY <1>1, <1>4, SMT
  <2>2. PICK j \in Nat : z = j * y
    BY <1>1, SMT
  <2>3. F + z = (k * j + j) * y
    BY <1>1, <2>1, <2>2, SMT
  <2> DEFINE i == k * j + j
  <2>4. i \in Nat
    OBVIOUS
  <2> HIDE DEF i
  <2>5. (i * y) % y = 0
    BY <1>1, <2>4, SMT
  <2> QED BY <2>3, <2>5 DEF i
<1>7. r.start + y <= F + z
  BY <1>1, <1>2, <1>4, <1>6, MultiplesApart
<1>8. ~(G < F)
  <2> SUFFICES ASSUME G < F PROVE FALSE
    OBVIOUS
  <2>1. G + z <= F
    BY <1>1, <1>4, <1>5, MultiplesApart
  <2> QED BY <1>1, <1>2, <1>4, <1>5, <2>1
<1>9. ~(F < G)
  <2> SUFFICES ASSUME F < G PROVE FALSE
    OBVIOUS
  <2>1. F + z <= G
    BY <1>1, <1>4, <1>5, MultiplesApart
  <2> QED BY <1>1, <1>2, <1>4, <1>5, <1>7, <2>1
<1>10. F = G
  BY <1>4, <1>5, <1>8, <1>9
<1> QED BY <1>10 DEF F, G, z

\* The blocks of a level that start by its horizon.
Blocks(horizon, size) == {b \in 0 .. horizon : b % size = 0}

\* k rows like r give these blocks no more than they have, and all of it unless
\* they are at the edge.
LEMMA RowBytes ==
  ASSUME NEW r, Sample(r), NEW size \in Nat \ {0}, NEW horizon \in Int, NEW k \in Nat, NEW v,
         \A b \in Blocks(horizon, size) : v[b] = IF b \in Spread(r, size) THEN k * Share(r, b, size) ELSE 0
  PROVE  LET s == SumFunctionOnSet(v, Blocks(horizon, size))
         IN /\ Countable(v, Blocks(horizon, size)) /\ s <= k * r.down
            /\ First(r, size) <= Last(r, size) /\ Last(r, size) <= horizon => s = k * r.down
<1> DEFINE B == Blocks(horizon, size)
           Q == Spread(r, size)
           P == B \cap Q
           w == [b \in Q |-> Share(r, b, size)]
           F == First(r, size)
           L == Last(r, size)
           d == r.down
           s == SumFunctionOnSet(v, B)
           p == SumFunctionOnSet(w, P)
<1>1. Countable(w, Q) /\ (F <= L => SumFunctionOnSet(w, Q) = d)
  <2>1. \A b \in Q : w[b] = Share(r, b, size)
    OBVIOUS
  <2> HIDE DEF w
  <2> QED BY <2>1, SharesFit
<1>2. /\ F \in Nat /\ L \in Int /\ (L < F => Q = {}) /\ d \in Nat
      /\ IsFiniteSet(B) /\ P \in SUBSET B /\ P \in SUBSET Q
  <2>1. F \in Nat /\ L \in Int /\ (L < F => Q = {}) /\ d \in Nat
    BY FirstLast DEF Sample
  <2>2. IsFiniteSet(0 .. horizon) /\ B \in SUBSET (0 .. horizon)
    BY FS_Interval DEF Blocks
  <2> QED BY <2>1, <2>2, FS_Subset
<1>3. F <= L /\ L <= horizon => P = Q
  <2> SUFFICES ASSUME F <= L, L <= horizon PROVE \A b \in Q : b \in B
    OBVIOUS
  <2>1. \A b \in Q : b \in F .. L /\ b % size = 0
    BY DEF Spread
  <2>2. \A b \in F .. L : b \in 0 .. horizon
    BY <1>2
  <2> QED BY <2>1, <2>2 DEF Blocks
<1>4. (\A b \in P : v[b] = k * w[b]) /\ \A b \in B \ P : v[b] = 0
  OBVIOUS
<1>5. Countable(w, P) /\ p <= SumFunctionOnSet(w, Q) /\ p \in Nat
  <2> HIDE DEF w, P, Q
  <2>1. Countable(w, P) /\ p <= SumFunctionOnSet(w, Q)
    BY <1>1, <1>2, SetSumWithin
  <2>2. p \in Nat
    BY <2>1, SetSum
  <2> QED BY <2>1, <2>2
<1>6. Countable(v, B)
  <2>1. \A b \in P : k * w[b] \in Nat
    BY <1>5 DEF Countable
  <2> HIDE DEF w, P, B
  <2> QED BY <1>2, <1>4, <2>1 DEF Countable
<1>7. s = k * p
  <2> HIDE DEF w, P, B
  <2>1. s = SumFunctionOnSet(v, P)
    BY <1>2, <1>4, <1>6, SetSumWithin
  <2>2. SumFunctionOnSet(v, P) = k * p
    BY <1>4, <1>5, SetSumTimes
  <2> QED BY <2>1, <2>2
<1>8. p <= d
  <2>1. CASE F <= L
    BY <1>1, <1>5, <2>1
  <2>2. CASE L < F
    <3>1. P = {}
      BY <1>2, <2>2
    <3> HIDE DEF w, P, Q
    <3>2. SumFunctionOnSet(w, {}) = 0
      BY <1>1, SetSum
    <3> QED BY <1>2, <3>1, <3>2
  <2> QED BY <1>2, <2>1, <2>2
<1>9. F <= L /\ L <= horizon => p = d
  BY <1>1, <1>3
<1>10. s <= k * d /\ (F <= L /\ L <= horizon => s = k * d)
  <2> HIDE DEF s, p, d, F, L
  <2>1. k * p <= k * d
    BY <1>2, <1>5, <1>8, SMT
  <2> QED BY <1>7, <1>9, <2>1
<1> HIDE DEF s, d, F, L
<1> QED BY <1>6, <1>10 DEF s, B, d, F, L

\* The rows of a user that a level replaces, and those of them at its edge.
Replaced(t, u, horizon, level) == {r \in Mine(t, u) : Due(r, horizon, level)}
Edge(t, u, horizon, level) ==
  {r \in Replaced(t, u, horizon, level) :
     horizon < Last(r, Size(level)) \/ Last(r, Size(level)) < First(r, Size(level))}

\* The samples a level reads.
Read(t, horizon, level) == [r \in {x \in BagToSet(t) : Due(x, horizon, level)} |-> t[r]]

\* The blocks of a user hold no more than the rows they replace, and what those at
\* the edge do not have they hold.
LEMMA BlockBytes ==
  ASSUME NEW t, NEW u, Kept(t, u), NEW horizon \in Int, NEW level \in 1 .. 2, NEW c,
         \A b \in Blocks(horizon, Size(level)) :
           c[b] = Block(Read(t, horizon, level), u, b, Size(level), level).down
  PROVE  LET B == Blocks(horizon, Size(level))
             R == Replaced(t, u, horizon, level)
         IN /\ Countable(c, B)
            /\ SumFunctionOnSet(c, B) <= Bytes(t, R)
            /\ Bytes(t, R) <= SumFunctionOnSet(c, B) + Bytes(t, Edge(t, u, horizon, level))
<1> DEFINE z == Size(level)
           B == Blocks(horizon, z)
           R == Replaced(t, u, horizon, level)
           E == Edge(t, u, horizon, level)
           m == [r \in R |-> [b \in B |-> IF b \in Spread(r, z) THEN t[r] * Share(r, b, z) ELSE 0]]
           d == [b \in B |-> [r \in R |-> m[r][b]]]
           in == [r \in R |-> SumFunctionOnSet(m[r], B)]
           w == [r \in R |-> t[r] * r.down]
<1>1. z \in Nat \ {0}
  BY ArchiveAssumption DEF Size
<1>2. R \in SUBSET Mine(t, u) /\ E \in SUBSET R /\ IsFiniteSet(R) /\ \A r \in R : Sample(r) /\ t[r] \in Nat
  <2>1. R \in SUBSET Mine(t, u) /\ E \in SUBSET R
    BY DEF Replaced, Edge
  <2> HIDE DEF R
  <2> QED BY <2>1, FS_Subset DEF Kept
<1>3. IsFiniteSet(B)
  <2>1. IsFiniteSet(0 .. horizon) /\ B \in SUBSET (0 .. horizon)
    BY FS_Interval DEF Blocks
  <2> QED BY <2>1, FS_Subset
<1>4. ASSUME NEW r \in R
      PROVE  /\ Countable(m[r], B) /\ in[r] \in Nat /\ in[r] <= w[r] /\ (r \notin E => in[r] = w[r])
             /\ w[r] \in Nat
  <2> DEFINE v == m[r]
  <2>1. \A b \in B : v[b] = IF b \in Spread(r, z) THEN t[r] * Share(r, b, z) ELSE 0
    OBVIOUS
  <2>2. in[r] = SumFunctionOnSet(v, B) /\ w[r] = t[r] * r.down
    OBVIOUS
  <2>3. /\ First(r, z) \in Nat /\ Last(r, z) \in Int /\ r.down \in Nat
        /\ r \notin E => First(r, z) <= Last(r, z) /\ Last(r, z) <= horizon
    BY <1>1, <1>2, FirstLast DEF Edge, Sample
  <2> HIDE DEF v, B, z, E, R, in, w
  <2>4. /\ Countable(v, B) /\ SumFunctionOnSet(v, B) <= t[r] * r.down
        /\ First(r, z) <= Last(r, z) /\ Last(r, z) <= horizon => SumFunctionOnSet(v, B) = t[r] * r.down
    BY <1>1, <1>2, <2>1, RowBytes DEF B
  <2>5. SumFunctionOnSet(v, B) \in Nat /\ t[r] * r.down \in Nat
    BY <1>2, <2>3, <2>4, SetSum
  <2> QED BY <2>2, <2>3, <2>4, <2>5 DEF v
<1>5. \A b \in B : c[b] = SumFunctionOnSet(d[b], R)
  <2> SUFFICES ASSUME NEW b \in B PROVE c[b] = SumFunctionOnSet([r \in R |-> m[r][b]], R)
    OBVIOUS
  <2> DEFINE col == [r \in R |-> m[r][b]]
             sam == Read(t, horizon, level)
             H == {r \in BagToSet(sam) : r.userId = u /\ b \in Spread(r, z)}
             h == [r \in H |-> sam[r] * Share(r, b, z)]
  <2>1. c[b] = SumFunctionOnSet(h, H)
    BY DEF Block, SumFunction
  <2>2. H \in SUBSET R /\ (\A r \in R \ H : col[r] = 0) /\ \A r \in H : h[r] = col[r]
    BY DEF Read, Replaced, Mine, BagToSet
  <2>3. Countable(col, R)
    <3>1. \A r \in R : m[r][b] \in Nat
      <4> HIDE DEF m
      <4> QED BY <1>4 DEF Countable
    <3> HIDE DEF m
    <3> QED BY <1>2, <3>1 DEF Countable
  <2> HIDE DEF col, H, h, R
  <2>4. SumFunctionOnSet(col, R) = SumFunctionOnSet(col, H) /\ Countable(col, H)
    BY <2>2, <2>3, SetSumWithin
  <2>5. SumFunctionOnSet(h, H) = SumFunctionOnSet(col, H)
    BY <2>2, <2>4, SetSumSame
  <2>6. c[b] = SumFunctionOnSet(col, R)
    BY <2>1, <2>4, <2>5
  <2> QED BY <2>6 DEF col
<1>6. \A r \in R, b \in B : m[r][b] \in Nat
  <2> HIDE DEF m
  <2> QED BY <1>4 DEF Countable
<1>7. /\ \A r \in R : in[r] = SumFunctionOnSet(m[r], B)
      /\ \A r \in R, b \in B : d[b][r] = m[r][b]
  OBVIOUS
<1> HIDE DEF m, d, in, R, B
<1>a. Ledger(R, B, m, d, in, c)
  BY <1>5, <1>6, <1>7 DEF Ledger
<1>8. Countable(in, R) /\ Countable(c, B) /\ SumFunctionOnSet(in, R) = SumFunctionOnSet(c, B)
  <2>1. IsFiniteSet(R)
    BY <1>2
  <2> QED BY <1>3, <1>a, <2>1, SetSumTwice
<1>9. Countable(w, R) /\ Bytes(t, R) = SumFunctionOnSet(w, R)
  BY <1>2, BytesType DEF Bytes
<1>10. SumFunctionOnSet(in, R) <= SumFunctionOnSet(w, R)
  <2> HIDE DEF w
  <2> QED BY <1>4, <1>8, <1>9, SetSumAtMost
<1>11. Bytes(t, R) <= SumFunctionOnSet(c, B) + Bytes(t, E)
  <2> DEFINE O == R \ E
             o == [r \in O |-> t[r] * r.down]
  <2>1. Bytes(t, R) = Bytes(t, E) + Bytes(t, O)
    BY <1>2, BytesSplit
  <2>2. Countable(o, O) /\ Bytes(t, O) = SumFunctionOnSet(o, O) /\ Bytes(t, O) \in Nat
    BY <1>2, BytesType DEF Bytes
  <2>3. \A r \in O : in[r] = o[r]
    BY <1>4
  <2>4. O \in SUBSET R
    OBVIOUS
  <2> HIDE DEF O, o
  <2>5. SumFunctionOnSet(in, O) = SumFunctionOnSet(o, O)
    BY <2>2, <2>3, SetSumSame
  <2>6. SumFunctionOnSet(in, O) <= SumFunctionOnSet(in, R)
    BY <1>8, <2>4, SetSumWithin
  <2>7. SumFunctionOnSet(in, R) \in Nat /\ Bytes(t, E) \in Nat
    BY <1>2, <1>8, SetSum, BytesType
  <2> QED BY <1>8, <2>1, <2>2, <2>5, <2>6, <2>7
<1> QED BY <1>8, <1>9, <1>10, <1>11 DEF R, B

\* What a user has in the rows that a level inserts: for each block its bytes, as
\* far as they fit.
LEMMA InsertedBytes ==
  ASSUME NEW u \in User, NEW horizon \in Int, NEW size \in Nat \ {0}, NEW samples, NEW level, NEW c,
         \A b \in Blocks(horizon, size) : c[b] = Block(samples, u, b, size, level).down,
         Countable(c, Blocks(horizon, size)), NEW N,
         N = {Clamped(r) : r \in {x \in Refactor(samples, horizon + size, size, level) : x.down # 0}}
  PROVE  /\ Kept(SetToBag(N), u)
         /\ Total(SetToBag(N), u) <= SumFunctionOnSet(c, Blocks(horizon, size))
         /\ \/ \E r \in N : r.userId = u /\ r.down = MaxInt
            \/ Total(SetToBag(N), u) = SumFunctionOnSet(c, Blocks(horizon, size))
<1> DEFINE B == Blocks(horizon, size)
           Z == {b \in B : c[b] # 0}
           k(b) == Block(samples, u, b, size, level)
           f == [b \in Z |-> Clamped(k(b))]
           v == [b \in B |-> IF c[b] > MaxInt THEN MaxInt ELSE c[b]]
           I == {f[b] : b \in Z}
           M == Mine(SetToBag(N), u)
           w == [r \in M |-> SetToBag(N)[r] * r.down]
<1>1. MaxInt \in Nat /\ \A b \in B : c[b] \in Nat
  BY ArchiveAssumption DEF Countable
<1>2. \A b : /\ Clamped(k(b)).userId = u /\ Clamped(k(b)).start = b
             /\ Clamped(k(b)).end = b + size /\ Clamped(k(b)).archived = level
  BY BlockFields
<1>3. \A b \in B : Clamped(k(b)).down = v[b]
  <2>1. \A b : k(b) = [userId |-> u, start |-> b, end |-> b + size, archived |-> level, down |-> k(b).down]
    BY DEF Block
  <2>2. \A b : Clamped(k(b)).down = IF k(b).down > MaxInt THEN MaxInt ELSE k(b).down
    <3> SUFFICES ASSUME NEW b PROVE Clamped(k(b)).down = IF k(b).down > MaxInt THEN MaxInt ELSE k(b).down
      OBVIOUS
    <3> DEFINE d == k(b).down
    <3>1. k(b) = [userId |-> u, start |-> b, end |-> b + size, archived |-> level, down |-> d]
      BY <2>1
    <3> HIDE DEF d, k
    <3>2. Clamped(k(b)).down = IF d > MaxInt THEN MaxInt ELSE d
      BY <3>1 DEF Clamped
    <3> QED BY <3>2 DEF d
  <2> QED BY <2>2
<1>4. M = I
  <2>1. DOMAIN SetToBag(N) = N
    BY DEF SetToBag
  <2>2. 0 .. (horizon + size) - size = 0 .. horizon
    BY SMT
  <2>3. {x \in 0 .. (horizon + size) - size : x % size = 0} = B
    BY <2>2 DEF Blocks
  <2>4. \A r \in N : \E y \in User, b \in B :
          r = Clamped(Block(samples, y, b, size, level)) /\ Block(samples, y, b, size, level).down # 0
    BY <2>3 DEF Refactor
  <2>5. \A b \in B : k(b).down # 0 => Clamped(k(b)) \in N
    BY <2>3 DEF Refactor
  <2>6. \A y, b : Clamped(Block(samples, y, b, size, level)).userId = y
    BY BlockFields
  <2>7. \A r \in M : r \in I
    <3> SUFFICES ASSUME NEW r \in M PROVE r \in I
      OBVIOUS
    <3>1. r \in N /\ r.userId = u
      BY <2>1 DEF Mine
    <3>2. PICK y \in User, b \in B :
            /\ r = Clamped(Block(samples, y, b, size, level))
            /\ Block(samples, y, b, size, level).down # 0
      BY <2>4, <3>1
    <3>3. y = u
      BY <2>6, <3>1, <3>2
    <3>4. b \in Z /\ r = f[b]
      BY <3>2, <3>3
    <3> QED BY <3>4
  <2>8. \A r \in I : r \in M
    <3> SUFFICES ASSUME NEW b \in Z PROVE f[b] \in M
      OBVIOUS
    <3>1. f[b] = Clamped(k(b)) /\ b \in B /\ k(b).down # 0
      OBVIOUS
    <3> HIDE DEF f, k
    <3>2. f[b] \in N /\ f[b].userId = u
      BY <1>2, <2>5, <3>1
    <3> QED BY <2>1, <3>2 DEF Mine
  <2> QED BY <2>7, <2>8
<1>5. /\ \A b \in Z : v[b] = w[f[b]]
      /\ \A b, a \in Z : f[b] = f[a] => b = a
  <2>1. \A b \in Z : f[b] \in M /\ f[b] = Clamped(k(b))
    BY <1>4
  <2>2. \A r \in M : SetToBag(N)[r] = 1
    BY DEF Mine, SetToBag
  <2>3. \A r \in M : w[r] = 1 * r.down
    BY <2>2
  <2>4. \A b \in Z : v[b] \in Nat
    BY <1>1
  <2>5. \A b \in Z : f[b].down = v[b] /\ f[b].start = b
    BY <1>2, <1>3, <2>1
  <2> HIDE DEF f, v, w, M, Z
  <2>6. \A b \in Z : v[b] = w[f[b]]
    BY <2>1, <2>3, <2>4, <2>5
  <2>7. \A b, a \in Z : f[b] = f[a] => b = a
    BY <2>5
  <2> QED BY <2>6, <2>7
<1>6. Countable(v, B) /\ (\A b \in B : v[b] <= c[b]) /\ \A b \in B \ Z : v[b] = 0
  BY <1>1 DEF Countable
<1>7. Z \in SUBSET B
  OBVIOUS
<1>8. \A b \in Z : Sample(f[b])
  <2>1. \A b \in Z : /\ f[b] = Clamped(k(b)) /\ b \in Nat /\ b + size \in Nat /\ v[b] \in Nat
    BY <1>1 DEF Blocks
  <2> HIDE DEF f, k, v
  <2> QED BY <1>2, <1>3, <2>1 DEF Sample
<1>9. \A r \in M : SetToBag(N)[r] \in Nat
  BY DEF Mine, SetToBag
<1>10. \A b \in B : c[b] > MaxInt => \E r \in N : r.userId = u /\ r.down = MaxInt
  <2> SUFFICES ASSUME NEW b \in B, c[b] > MaxInt PROVE \E r \in N : r.userId = u /\ r.down = MaxInt
    OBVIOUS
  <2>1. b \in Z /\ v[b] = MaxInt
    BY <1>1
  <2>2. f[b] \in M /\ f[b] = Clamped(k(b))
    BY <1>4, <2>1
  <2>3. f[b] \in N /\ f[b].userId = u
    BY <2>2 DEF Mine, SetToBag
  <2>4. f[b].down = MaxInt
    BY <1>3, <2>1, <2>2
  <2> QED BY <2>3, <2>4
<1>11. \A b \in B : ~(c[b] > MaxInt) => v[b] = c[b]
  OBVIOUS
<1>12. Total(SetToBag(N), u) = SumFunctionOnSet(w, M)
  BY TotalIsBytes DEF Bytes
<1> HIDE DEF B, Z, f, v, w, M
<1>13. Countable(v, Z) /\ SumFunctionOnSet(v, B) = SumFunctionOnSet(v, Z)
  BY <1>6, <1>7, SetSumWithin
<1>14. Countable(w, I) /\ SumFunctionOnSet(w, I) = SumFunctionOnSet(v, Z)
  BY <1>5, <1>13, SetSumImage
<1>15. Total(SetToBag(N), u) = SumFunctionOnSet(v, B)
  BY <1>4, <1>12, <1>13, <1>14
<1>16. Kept(SetToBag(N), u)
  BY <1>4, <1>8, <1>9, <1>14 DEF Kept, Countable, M
<1>17. SumFunctionOnSet(v, B) <= SumFunctionOnSet(c, B)
  BY <1>6, SetSumAtMost DEF B
<1>18. ASSUME \A b \in B : ~(c[b] > MaxInt) PROVE SumFunctionOnSet(v, B) = SumFunctionOnSet(c, B)
  <2>1. \A b \in B : v[b] = c[b]
    BY <1>11, <1>18
  <2>2. Countable(c, B)
    BY DEF B
  <2> QED BY <2>1, <2>2, SetSumSame
<1> QED BY <1>10, <1>15, <1>16, <1>17, <1>18 DEF B

\* What a step that makes the table T of t, with n bytes that arrived for u, may
\* lose: nothing but bytes of the rows E, or what a row that is full has no room for.
Loses(t, T, u, n, E) ==
  LET lost == Total(t, u) + n - Total(T, u)
  IN /\ Kept(T, u) /\ lost >= 0
     /\ (\E r \in DOMAIN T : r.userId = u /\ r.down = MaxInt) \/ lost <= Bytes(t, E)

\* A level loses bytes of the rows at its edge only.
LEMMA LevelLoses ==
  ASSUME NEW t, Thinned(t), NEW u \in User, Kept(t, u), NEW horizon \in Int, NEW level \in 1 .. 2
  PROVE  Loses(t, Archived(t, horizon, Size(level), level), u, 0, Edge(t, u, horizon, level))
<1> DEFINE z   == Size(level)
           B   == Blocks(horizon, z)
           R   == Replaced(t, u, horizon, level)
           E   == Edge(t, u, horizon, level)
           sam == Read(t, horizon, level)
           c   == [b \in B |-> Block(sam, u, b, z, level).down]
           N   == {Clamped(r) : r \in {x \in Refactor(sam, horizon + z, z, level) : x.down # 0}}
           O   == {x \in BagToSet(t) : Due(x, horizon, level)}
           K   == [r \in BagToSet(t) \ O |-> t[r]]
           T   == Archived(t, horizon, z, level)
           M   == Mine(t, u)
           s   == SumFunctionOnSet(c, B)
<1>1. z \in Nat \ {0}
  BY ArchiveAssumption DEF Size
<1>2. T = K (+) SetToBag(N)
  BY DEF Archived, Read, SetToBag, (+)
<1>3. \A b \in B : c[b] = Block(sam, u, b, z, level).down
  OBVIOUS
<1>4. Mine(K, u) = M \ R /\ R \in SUBSET M /\ M \ R \in SUBSET M /\ E \in SUBSET M
  BY DEF Mine, BagToSet, Replaced, Edge
<1>5. \A r \in M \ R : K[r] = t[r]
  BY DEF Mine, BagToSet, Replaced
<1> HIDE DEF c, z, sam, T, M
<1>6. /\ Countable(c, B) /\ s <= Bytes(t, R) /\ Bytes(t, R) <= s + Bytes(t, E)
  BY <1>3, BlockBytes DEF z, sam
<1>7. /\ Kept(SetToBag(N), u) /\ Total(SetToBag(N), u) <= s
      /\ (\E r \in N : r.userId = u /\ r.down = MaxInt) \/ Total(SetToBag(N), u) = s
  BY <1>1, <1>3, <1>6, InsertedBytes
<1>8. s \in Nat /\ Bytes(t, R) \in Nat /\ Bytes(t, M \ R) \in Nat /\ Bytes(t, E) \in Nat
  <2>1. s \in Nat
    BY <1>6, SetSum
  <2> QED BY <1>4, <2>1, BytesType DEF M
<1>9. Total(t, u) = Bytes(t, R) + Bytes(t, M \ R)
  BY <1>4, BytesSplit, TotalIsBytes DEF M
<1>10. Kept(K, u) /\ Total(K, u) = Bytes(t, M \ R)
  <2>1. Kept(K, u)
    <3>1. IsFiniteSet(M \ R)
      BY <1>4, FS_Subset DEF Kept, M
    <3> HIDE DEF K, R
    <3> QED BY <1>4, <1>5, <3>1 DEF Kept, M
  <2>2. Total(K, u) = Bytes(K, M \ R)
    BY <1>4, TotalIsBytes
  <2>3. [r \in M \ R |-> K[r] * r.down] = [r \in M \ R |-> t[r] * r.down]
    <3> HIDE DEF K, R
    <3> QED BY <1>5
  <2> HIDE DEF K, R
  <2>4. Bytes(K, M \ R) = Bytes(t, M \ R)
    BY <2>3 DEF Bytes
  <2> QED BY <2>1, <2>2, <2>4
<1>11. DOMAIN T = DOMAIN K \cup N
  BY <1>2 DEF SetToBag, (+)
<1> HIDE DEF K, N, R, E, B
<1>12. Kept(T, u) /\ Total(T, u) = Total(K, u) + Total(SetToBag(N), u)
  BY <1>2, <1>7, <1>10, TotalAdds
<1>13. Total(SetToBag(N), u) \in Nat
  BY <1>7, BytesType, TotalIsBytes
<1>14. /\ Total(t, u) + 0 - Total(T, u) >= 0
       /\ Total(SetToBag(N), u) = s => Total(t, u) + 0 - Total(T, u) <= Bytes(t, E)
  <2> DEFINE a == Bytes(t, R)
             o == Bytes(t, M \ R)
             e == Bytes(t, E)
             n == Total(SetToBag(N), u)
  <2>1. /\ a \in Nat /\ o \in Nat /\ e \in Nat /\ n \in Nat /\ s \in Nat
        /\ s <= a /\ a <= s + e /\ n <= s /\ Total(t, u) = a + o /\ Total(T, u) = o + n
    BY <1>6, <1>7, <1>8, <1>9, <1>10, <1>12, <1>13
  <2> HIDE DEF a, o, e, n, s
  <2>2. Total(t, u) + 0 - Total(T, u) = a - n
    BY <2>1
  <2>3. a - n >= 0 /\ (n = s => a - n <= e)
    BY <2>1
  <2> QED BY <2>2, <2>3 DEF e, n
<1>15. Loses(t, T, u, 0, E)
  BY <1>7, <1>11, <1>12, <1>14 DEF Loses
<1> QED BY <1>15 DEF T, E, z

\* A record that arrives is lost only as far as it does not fit.
LEMMA PutLoses ==
  ASSUME NEW t, NEW u, Kept(t, u), NEW r, Sample(r), NEW n \in Nat,
         r.userId = u => /\ r.down = IF n > MaxInt THEN MaxInt ELSE n
  PROVE  Loses(t, t (+) SetToBag({r}), u, IF r.userId = u THEN n ELSE 0, {})
<1> DEFINE N == SetToBag({r})
           T == t (+) N
           k == IF r.userId = u THEN n ELSE 0
           j == IF r.userId = u THEN r.down ELSE 0
           w == [x \in Mine(N, u) |-> N[x] * x.down]
<1>1. N = [x \in {r} |-> 1] /\ MaxInt \in Nat /\ r.down \in Nat
  BY ArchiveAssumption DEF SetToBag, Sample
<1>2. Mine(N, u) = IF r.userId = u THEN {r} ELSE {}
  BY <1>1 DEF Mine
<1>3. Kept(N, u)
  <2>1. IsFiniteSet(Mine(N, u))
    BY <1>2, FS_EmptySet, FS_Singleton
  <2>2. \A x \in Mine(N, u) : Sample(x) /\ N[x] \in Nat
    BY <1>1, <1>2
  <2> HIDE DEF N
  <2> QED BY <2>1, <2>2 DEF Kept
<1>4. Total(N, u) = j
  <2>1. Total(N, u) = SumFunctionOnSet(w, Mine(N, u)) /\ Countable(w, Mine(N, u))
    BY <1>3, TotalIsBytes, BytesType DEF Bytes
  <2>2. CASE r.userId = u
    <3>1. Mine(N, u) = {r} /\ w[r] = r.down
      <4>1. Mine(N, u) = {r} /\ N[r] = 1
        BY <1>1, <1>2, <2>2
      <4> HIDE DEF N
      <4>2. w[r] = N[r] * r.down
        BY <4>1
      <4> QED BY <1>1, <4>1, <4>2
    <3> HIDE DEF w, N
    <3>2. /\ SumFunctionOnSet(w, {}) = 0 /\ r \notin {} /\ {} \cup {r} = {r} /\ {} \in SUBSET {r}
          /\ SumFunctionOnSet(w, {} \cup {r}) = w[r] + SumFunctionOnSet(w, {})
      BY <2>1, <3>1, SetSum
    <3> QED BY <1>1, <2>1, <2>2, <3>1, <3>2
  <2>3. CASE r.userId # u
    <3>1. Mine(N, u) = {}
      BY <1>2, <2>3
    <3> HIDE DEF w, N
    <3>2. SumFunctionOnSet(w, {}) = 0
      BY <2>1, <3>1, SetSum
    <3> QED BY <2>1, <2>3, <3>1, <3>2
  <2> QED BY <2>2, <2>3
<1>5. DOMAIN T = DOMAIN t \cup {r}
  BY <1>1 DEF (+)
<1> HIDE DEF N, T
<1>6. Kept(T, u) /\ Total(T, u) = Total(t, u) + j
  BY <1>3, <1>4, TotalAdds DEF T
<1>7. Total(t, u) \in Nat /\ Bytes(t, {}) = 0
  <2>1. Total(t, u) \in Nat
    BY BytesType, TotalIsBytes
  <2>2. Countable([x \in {} |-> t[x] * x.down], {})
    BY BytesType
  <2>3. Bytes(t, {}) = 0
    BY <2>2, SetSum DEF Bytes
  <2> QED BY <2>1, <2>3
<1>8. /\ Total(t, u) + k - Total(T, u) >= 0
      /\ (r.userId = u /\ r.down = MaxInt) \/ Total(t, u) + k - Total(T, u) <= 0
  <2> DEFINE a == Total(t, u)
  <2>1. a \in Nat /\ Total(T, u) = a + j
    BY <1>6, <1>7
  <2>2. k \in Nat /\ j \in Nat /\ j <= k /\ ((r.userId = u /\ r.down = MaxInt) \/ k = j)
    BY <1>1
  <2> HIDE DEF a, k, j
  <2>3. a + k - Total(T, u) = k - j
    BY <2>1, <2>2
  <2> QED BY <2>2, <2>3 DEF a
<1>9. Loses(t, T, u, k, {})
  BY <1>5, <1>6, <1>7, <1>8 DEF Loses
<1> QED BY <1>9 DEF T, N

\* The rows of every user can be added up.
Accounted == ArchiveInv /\ given \in [User -> Nat] /\ \A u \in User : Kept(rows, u)

\* What a step may lose of a user's bytes.
LossStep(u) == Loses(rows, rows', u, given'[u] - given[u], AtEdge(u))

\* Losing less is losing no more.
LEMMA LosesLess ==
  ASSUME NEW t, NEW T, NEW u, NEW n, NEW E, NEW D \in SUBSET Mine(t, u), Kept(t, u), E \subseteq D,
         n \in Int, Loses(t, T, u, n, E)
  PROVE  Loses(t, T, u, n, D)
<1>1. E \in SUBSET D /\ E \in SUBSET Mine(t, u)
  OBVIOUS
<1>2. Bytes(t, E) <= Bytes(t, D)
  BY <1>1, BytesSplit
<1>3. Bytes(t, E) \in Nat /\ Bytes(t, D) \in Nat
  BY <1>1, BytesType
<1>4. Total(t, u) \in Nat /\ Total(T, u) \in Nat
  BY BytesType, TotalIsBytes DEF Loses
<1> QED BY <1>2, <1>3, <1>4 DEF Loses

\* A row at the edge has not been archived before: archived rows are in one block.
LEMMA EdgeRows ==
  ASSUME Accounted, NEW u \in User, NEW q \in PutRequest, NEW level \in 1 .. 2, NEW horizon \in Int,
         \/ archivePc[q] = "level1" /\ level = 1 /\ horizon = asOf[q] - Lag1
         \/ archivePc[q] = "level2" /\ level = 2 /\ horizon = asOf[q] - Lag2
  PROVE  Edge(rows, u, horizon, level) \subseteq AtEdge(u)
<1> SUFFICES ASSUME NEW r \in Edge(rows, u, horizon, level) PROVE r \in AtEdge(u)
  OBVIOUS
<1>1. /\ r \in DOMAIN rows /\ r.userId = u /\ r.start <= horizon /\ r.archived <= level
      /\ horizon < Last(r, Size(level)) \/ Last(r, Size(level)) < First(r, Size(level))
  BY DEF Edge, Replaced, Mine, Due
<1>2. Aligned(r) /\ Sample(r) /\ Size(level) \in Nat \ {0}
  BY <1>1, ArchiveAssumption DEF Accounted, ArchiveInv, Thinned, BagToSet, Kept, Mine, Size
<1>3. r.archived = 0
  <2> SUFFICES ASSUME r.archived # 0 PROVE FALSE
    OBVIOUS
  <2>1. r.archived \in 1 .. level
    BY <1>1, <1>2 DEF Aligned
  <2>2. Last(r, Size(level)) = First(r, Size(level))
    BY <1>2, <2>1, InOneBlock
  <2>3. First(r, Size(level)) \in Nat /\ First(r, Size(level)) <= r.start /\ r.start \in Nat
    BY <1>2, FirstLast DEF Sample
  <2> QED BY <1>1, <2>2, <2>3
<1>4. Size(1) = Size1 /\ Size(2) = Size2
  BY DEF Size
<1> QED BY <1>1, <1>3, <1>4 DEF AtEdge, BagToSet

\* Every step: no bytes are made, and only those of AtEdge are lost.
LEMMA StepLoses ==
  ASSUME Accounted, [ArchiveNext]_archiveVars, NEW u \in User
  PROVE  LossStep(u) /\ given'[u] \in Nat
<1>1. /\ Kept(rows, u) /\ Thinned(rows) /\ given \in [User -> Nat] /\ given[u] \in Nat /\ now \in Nat
      /\ AtEdge(u) \in SUBSET Mine(rows, u)
  BY DEF Accounted, ArchiveInv, AtEdge, Mine, BagToSet
<1>2. ASSUME NEW q \in PutRequest, NEW v \in User, NEW n \in Amount, NEW s \in 0 .. MaxTime,
             NEW l \in Length, PutData(q, v, s, s + l, n)
      PROVE  LossStep(u) /\ given'[u] \in Nat
  <2> DEFINE x == [userId |-> v, start |-> s, end |-> s + l, archived |-> 0, down |-> n]
             r == Clamped(x)
             k == IF r.userId = u THEN n ELSE 0
  <2>1. n \in Nat /\ MaxInt \in Nat /\ s \in Nat /\ s + l \in Nat
    <3>1. l \in Int /\ s \in Int /\ 0 <= s + l
      BY <1>1, <1>2, ArchiveAssumption DEF PutData
    <3> QED BY <1>1, <3>1, ArchiveAssumption
  <2>2. /\ r.userId = v /\ r.start = s /\ r.end = s + l /\ r.down = IF n > MaxInt THEN MaxInt ELSE n
    BY DEF Clamped
  <2>3. rows' = rows (+) SetToBag({r}) /\ given' = [given EXCEPT ![v] = @ + n]
    BY <1>2 DEF PutData, SetToBag, (+)
  <2> HIDE DEF x, r
  <2>4. Sample(r)
    BY <2>1, <2>2 DEF Sample
  <2>5. Loses(rows, rows (+) SetToBag({r}), u, k, {})
    BY <1>1, <2>1, <2>2, <2>4, PutLoses
  <2>6. given'[u] - given[u] = k /\ k \in Nat /\ given'[u] \in Nat
    BY <1>1, <2>1, <2>2, <2>3
  <2> HIDE DEF k
  <2>7. Loses(rows, rows', u, k, AtEdge(u))
    BY <1>1, <2>3, <2>5, <2>6, LosesLess
  <2> QED BY <2>6, <2>7 DEF LossStep
<1>3. ASSUME NEW level \in 1 .. 2, NEW q \in PutRequest, NEW horizon \in Int,
             \/ archivePc[q] = "level1" /\ level = 1 /\ horizon = asOf[q] - Lag1
             \/ archivePc[q] = "level2" /\ level = 2 /\ horizon = asOf[q] - Lag2,
             rows' = Archived(rows, horizon, Size(level), level), given' = given
      PROVE  LossStep(u) /\ given'[u] \in Nat
  <2>1. Loses(rows, rows', u, 0, Edge(rows, u, horizon, level))
    BY <1>1, <1>3, LevelLoses
  <2>2. Edge(rows, u, horizon, level) \subseteq AtEdge(u)
    BY <1>3, EdgeRows
  <2>3. Loses(rows, rows', u, 0, AtEdge(u))
    BY <1>1, <2>1, <2>2, LosesLess
  <2>4. given'[u] - given[u] = 0 /\ given'[u] \in Nat
    BY <1>1, <1>3
  <2> QED BY <2>3, <2>4 DEF LossStep
<1>4. ASSUME rows' = rows, given' = given PROVE LossStep(u) /\ given'[u] \in Nat
  <2>1. given'[u] - given[u] = 0 /\ given'[u] \in Nat
    BY <1>1, <1>4
  <2>2. Total(rows, u) \in Nat /\ Bytes(rows, AtEdge(u)) \in Nat
    BY <1>1, BytesType, TotalIsBytes
  <2>3. Total(rows, u) + 0 - Total(rows, u) = 0
    BY <2>2
  <2>4. Loses(rows, rows, u, 0, AtEdge(u))
    BY <1>1, <2>2, <2>3 DEF Loses
  <2> QED BY <1>4, <2>1, <2>4 DEF LossStep
<1>5. ASSUME NEW q \in PutRequest, ArchiveLevel1(q) PROVE LossStep(u) /\ given'[u] \in Nat
  <2>1. asOf[q] - Lag1 \in Int /\ Size(1) = Size1
    BY ArchiveAssumption DEF Accounted, ArchiveInv, Size
  <2> QED BY <1>3, <1>5, <2>1 DEF ArchiveLevel1
<1>6. ASSUME NEW q \in PutRequest, ArchiveLevel2(q) PROVE LossStep(u) /\ given'[u] \in Nat
  <2>1. asOf[q] - Lag2 \in Int /\ Size(2) = Size2
    BY ArchiveAssumption DEF Accounted, ArchiveInv, Size
  <2> QED BY <1>3, <1>6, <2>1 DEF ArchiveLevel2
<1>7. ASSUME NEW q \in PutRequest, ReadClock(q) \/ Abort(q) PROVE LossStep(u) /\ given'[u] \in Nat
  BY <1>4, <1>7 DEF ReadClock, Abort
<1>8. CASE Clock
  BY <1>4, <1>8 DEF Clock
<1>9. CASE UNCHANGED archiveVars
  BY <1>4, <1>9 DEF archiveVars
<1> QED BY <1>2, <1>5, <1>6, <1>7, <1>8, <1>9 DEF ArchiveNext

\* The rows of every user can be added up at any time.
LEMMA AccountedInvariance == ArchiveSpec => []Accounted
<1>1. ArchiveInit /\ ArchiveInv => Accounted
  <2> SUFFICES ASSUME ArchiveInit, ArchiveInv PROVE Accounted
    OBVIOUS
  <2>1. \A u \in User : Mine(rows, u) = {}
    BY DEF ArchiveInit, Mine, EmptyBag, SetToBag
  <2>2. \A u \in User : Kept(rows, u)
    BY <2>1, FS_EmptySet DEF Kept
  <2> QED BY <2>2 DEF ArchiveInit, Accounted
<1>2. Accounted /\ ArchiveInv' /\ [ArchiveNext]_archiveVars => Accounted'
  <2> SUFFICES ASSUME Accounted, ArchiveInv', [ArchiveNext]_archiveVars PROVE Accounted'
    OBVIOUS
  <2>1. \A u \in User : Kept(rows', u) /\ given'[u] \in Nat
    BY StepLoses DEF LossStep, Loses
  <2>2. given' = [u \in User |-> given'[u]]
    BY DEF Accounted, ArchiveNext, archiveVars, PutData, ReadClock, ArchiveLevel1, ArchiveLevel2,
           Abort, Clock
  <2>3. given' \in [User -> Nat]
    BY <2>1, <2>2
  <2> QED BY <2>1, <2>3 DEF Accounted
<1> QED BY <1>1, <1>2, ArchiveInvariance, PTL DEF ArchiveSpec

\* For any requests, users, amounts, lengths of windows, sizes and lags: no step of
\* putData or refactorArchive makes bytes of a user, and what a level loses are
\* bytes of the rows not archived before that straddle its horizon or end a block
\* before they start, unless a row of the user is full.
THEOREM OnlyEdgesAreLost == ArchiveSpec => OnlyEdgesLose
<1> DEFINE lost(u) == Total(rows, u) + given'[u] - given[u] - Total(rows', u)
           full(u) == \E r \in BagToSet(rows') : r.userId = u /\ r.down = MaxInt
           A == \A u \in User :
                  /\ lost(u) >= 0
                  /\ full(u) \/ lost(u) <= SumFunction([r \in AtEdge(u) |-> rows[r] * r.down])
<1>1. Accounted /\ [ArchiveNext]_archiveVars => A
  <2> SUFFICES ASSUME Accounted, [ArchiveNext]_archiveVars, NEW u \in User
               PROVE  /\ lost(u) >= 0
                      /\ full(u) \/ lost(u) <= SumFunction([r \in AtEdge(u) |-> rows[r] * r.down])
    OBVIOUS
  <2>1. LossStep(u) /\ given'[u] \in Nat /\ given[u] \in Nat /\ Kept(rows, u) /\ Kept(rows', u)
    BY StepLoses DEF Accounted, LossStep, Loses
  <2>2. Total(rows, u) \in Nat /\ Total(rows', u) \in Nat
    BY <2>1, BytesType, TotalIsBytes
  <2>3. lost(u) = Total(rows, u) + (given'[u] - given[u]) - Total(rows', u)
    BY <2>1, <2>2
  <2>4. SumFunction([r \in AtEdge(u) |-> rows[r] * r.down]) = Bytes(rows, AtEdge(u))
    BY DEF SumFunction, Bytes
  <2> HIDE DEF lost
  <2> QED BY <2>1, <2>3, <2>4 DEF LossStep, Loses, BagToSet
<1>2. ArchiveSpec => [][A]_archiveVars
  <2> HIDE DEF A
  <2> QED BY <1>1, AccountedInvariance, PTL DEF ArchiveSpec
<1> QED BY <1>2 DEF OnlyEdgesLose

\* A row that is clamped is a row.
LEMMA ClampedRow ==
  ASSUME NEW u \in User, NEW b \in Nat, NEW e \in Nat, NEW level \in 0 .. 2, NEW n \in Nat, NEW r,
         r = [userId |-> u, start |-> b, end |-> e, archived |-> level, down |-> n]
  PROVE  Clamped(r) \in Row
<1> DEFINE d == IF n > MaxInt THEN MaxInt ELSE n
<1>1. d \in 0 .. MaxInt
  BY ArchiveAssumption
<1>2. Clamped(r) = [userId |-> u, start |-> b, end |-> e, archived |-> level, down |-> d]
  BY DEF Clamped
<1> HIDE DEF d
<1> QED BY <1>1, <1>2 DEF Row

\* A level inserts rows of the types of the table's columns.
LEMMA LevelRows ==
  ASSUME NEW t, BagToSet(t) \subseteq Row, \A u \in User : Kept(t, u),
         NEW horizon \in Int, NEW level \in 1 .. 2
  PROVE  BagToSet(Archived(t, horizon, Size(level), level)) \subseteq Row
<1> DEFINE z   == Size(level)
           B   == Blocks(horizon, z)
           sam == Read(t, horizon, level)
           N   == {Clamped(r) : r \in {x \in Refactor(sam, horizon + z, z, level) : x.down # 0}}
           O   == {x \in BagToSet(t) : Due(x, horizon, level)}
           T   == Archived(t, horizon, z, level)
<1>1. z \in Nat \ {0}
  BY ArchiveAssumption DEF Size
<1>2. DOMAIN T \subseteq DOMAIN t \cup N
  BY DEF Archived, Read, SetToBag, BagToSet, (+)
<1>3. 0 .. (horizon + z) - z = 0 .. horizon
  BY <1>1, SMT
<1>4. {x \in 0 .. (horizon + z) - z : x % z = 0} = B
  BY <1>3 DEF Blocks
<1>5. \A r \in N : \E u \in User, b \in B : r = Clamped(Block(sam, u, b, z, level))
  BY <1>4 DEF Refactor
<1>6. ASSUME NEW u \in User, NEW b \in B PROVE Clamped(Block(sam, u, b, z, level)) \in Row
  <2> DEFINE c == [x \in B |-> Block(sam, u, x, z, level).down]
             n == Block(sam, u, b, z, level).down
  <2>1. \A x \in B : c[x] = Block(sam, u, x, z, level).down
    OBVIOUS
  <2>2. c[b] = n /\ Block(sam, u, b, z, level) =
          [userId |-> u, start |-> b, end |-> b + z, archived |-> level, down |-> n]
    BY DEF Block
  <2>3. b \in Nat /\ b + z \in Nat /\ level \in 0 .. 2
    BY <1>1 DEF Blocks
  <2> HIDE DEF c, n
  <2>4. Countable(c, B)
    BY <2>1, BlockBytes
  <2>5. n \in Nat
    BY <2>2, <2>4 DEF Countable
  <2> HIDE DEF z, sam, B
  <2> QED BY <2>2, <2>3, <2>5, ClampedRow
<1> HIDE DEF N, T, B, sam, z
<1>7. N \subseteq Row
  BY <1>5, <1>6
<1>8. DOMAIN T \subseteq Row
  BY <1>2, <1>7 DEF BagToSet
<1> QED BY <1>8 DEF BagToSet, T, z

\* Of Controller.putData and refactorArchive, for any requests, users, amounts,
\* lengths of windows, sizes and lags: the table is a bag of rows that fit its
\* columns, blocks of any users and levels included, and what arrived of a user
\* is a count.
THEOREM ArchiveTypes == ArchiveSpec => []ArchiveTypeOK
<1>1. ArchiveInit => ArchiveTypeOK
  <2> SUFFICES ASSUME ArchiveInit PROVE ArchiveTypeOK
    OBVIOUS
  <2>1. 0 \in 0 .. MaxTime /\ 0 \in 0 .. MaxPuts
    BY ArchiveAssumption
  <2>2. IsABag(rows) /\ BagToSet(rows) \subseteq Row
    BY DEF ArchiveInit, EmptyBag, SetToBag, IsABag, BagToSet
  <2> QED BY <2>1, <2>2 DEF ArchiveInit, ArchiveTypeOK
<1>2. Accounted /\ Accounted' /\ ArchiveTypeOK /\ [ArchiveNext]_archiveVars => ArchiveTypeOK'
  <2> SUFFICES ASSUME Accounted, Accounted', ArchiveTypeOK, [ArchiveNext]_archiveVars
               PROVE  ArchiveTypeOK'
    OBVIOUS
  <2>1. IsABag(rows') /\ given' \in [User -> Nat]
    BY DEF Accounted, ArchiveInv, Thinned
  <2>2. /\ \A u \in User : Kept(rows, u)
        /\ asOf \in [PutRequest -> Nat] /\ BagToSet(rows) \subseteq Row
        /\ MaxTime \in Nat /\ MaxPuts \in Nat /\ Size(1) = Size1 /\ Size(2) = Size2
    BY ArchiveAssumption DEF Accounted, ArchiveInv, ArchiveTypeOK, Size
  <2>3. ASSUME NEW q \in PutRequest, NEW u \in User, NEW n \in Amount, NEW s \in 0 .. MaxTime,
               NEW l \in Length, PutData(q, u, s, s + l, n)
        PROVE  ArchiveTypeOK'
    <3> DEFINE x == [userId |-> u, start |-> s, end |-> s + l, archived |-> 0, down |-> n]
               r == Clamped(x)
    <3>1. n \in Nat /\ s \in Nat /\ s + l \in Nat /\ now \in Nat
      <4>1. l \in Int /\ s \in Int /\ 0 <= s + l /\ now \in Nat
        BY <2>3, ArchiveAssumption DEF PutData, ArchiveTypeOK
      <4> QED BY <4>1, ArchiveAssumption
    <3>2. r \in Row
      BY <3>1, ClampedRow
    <3>3. rows' = rows (+) SetToBag({r})
      BY <2>3 DEF PutData, SetToBag, (+)
    <3> HIDE DEF x, r
    <3>4. BagToSet(rows') \subseteq Row
      BY <2>2, <3>2, <3>3 DEF BagToSet, SetToBag, (+)
    <3>5. puts' \in 0 .. MaxPuts
      BY <2>2, <2>3 DEF PutData, ArchiveTypeOK
    <3> QED BY <2>1, <2>3, <3>4, <3>5 DEF PutData, ArchiveTypeOK
  <2>4. ASSUME NEW q \in PutRequest, ReadClock(q) PROVE ArchiveTypeOK'
    BY <2>1, <2>4 DEF ReadClock, ArchiveTypeOK
  <2>5. ASSUME NEW q \in PutRequest, ArchiveLevel1(q) PROVE ArchiveTypeOK'
    <3>1. asOf[q] - Lag1 \in Int
      BY <2>2, ArchiveAssumption
    <3>2. BagToSet(rows') \subseteq Row
      BY <2>2, <2>5, <3>1, LevelRows DEF ArchiveLevel1
    <3> QED BY <2>1, <2>5, <3>2 DEF ArchiveLevel1, ArchiveTypeOK
  <2>6. ASSUME NEW q \in PutRequest, ArchiveLevel2(q) PROVE ArchiveTypeOK'
    <3>1. asOf[q] - Lag2 \in Int
      BY <2>2, ArchiveAssumption
    <3>2. BagToSet(rows') \subseteq Row
      BY <2>2, <2>6, <3>1, LevelRows DEF ArchiveLevel2
    <3> QED BY <2>1, <2>6, <3>2 DEF ArchiveLevel2, ArchiveTypeOK
  <2>7. ASSUME NEW q \in PutRequest, Abort(q) PROVE ArchiveTypeOK'
    BY <2>1, <2>7 DEF Abort, ArchiveTypeOK
  <2>8. CASE Clock
    <3>1. now' \in 0 .. MaxTime
      BY <2>2, <2>8 DEF Clock, ArchiveTypeOK
    <3> QED BY <2>1, <2>8, <3>1 DEF Clock, ArchiveTypeOK
  <2>9. CASE UNCHANGED archiveVars
    BY <2>1, <2>9 DEF archiveVars, ArchiveTypeOK
  <2> QED BY <2>3, <2>4, <2>5, <2>6, <2>7, <2>8, <2>9 DEF ArchiveNext
<1> QED BY <1>1, <1>2, AccountedInvariance, PTL DEF ArchiveSpec
=============================================================================
