----------------------------- MODULE DataCache ------------------------------
(***************************************************************************)
(* The sending half of the daemon: the output thread hands each record to  *)
(* BackendRequest.putData (Daemon.hx), and the callback either keeps it in *)
(* the file out.txt or, after a success, resends what that file holds      *)
(* (DataCache.hx).  Requests block, so everything happens on the output    *)
(* thread, callbacks included; the process may be stopped at any point,    *)
(* which keeps only the file.                                              *)
(***************************************************************************)
EXTENDS BackendRequest, Integers, Sequences, Functions

CONSTANTS Record,      \* the records followed through the system
          Beat,        \* any record of a later tick
          NoFile,      \* out.txt does not exist
          Torn,        \* a line of out.txt that was not written completely
          Exchanges,   \* the ways an exchange may end in a run
          MaxFaults,   \* bound on exchanges that are not "ok"
          MaxCrashes,  \* bound on stops of the process
          MaxDepth     \* lock depths from here on are not told apart

ASSUME DataCacheAssumption ==
  /\ Beat \notin Record
  /\ {NoFile, Torn} \cap (Record \cup {Beat}) = {}
  /\ NoFile # Torn /\ NoFile \notin Seq(Record \cup {Beat, Torn})
  /\ "ok" \in Exchanges /\ Exchanges \subseteq Exchange
  /\ MaxFaults \in Nat /\ MaxCrashes \in Nat /\ MaxDepth \in Nat \ {0, 1, 2}

Item == Record \cup {Beat}

VARIABLES file,       \* the lines of out.txt
          tempCache, lockDepth,
          pc,         \* where the output thread is
          cur,        \* the record of the request or of the append
          resending,  \* inside DataCache.send
          dying,      \* an exception is on its way out of send
          todo,       \* the lines the loop of DataCache.send has yet to see
          stored, late,       \* executions at the backend, per record
          faults, crashes,    \* how many so far
          \* history
          out,        \* records handed over
          done,       \* executed in this pass over the file
          returned,   \* put back into the file in this pass
          blurred,    \* may be sent again after an execution
          excused     \* given up in one of the ways NoOtherLoss names

thread  == <<pc, cur, resending, dying, todo>>
lock    == <<tempCache, lockDepth>>
backend == <<stored, late>>
budget  == <<faults, crashes>>
pass    == <<done, returned>>
history == <<out, blurred, excused>>
vars    == <<file, lock, thread, backend, budget, pass, history>>

(***************************************************************************)
(* The mutex.  A cpp.vm.Mutex may be acquired again by the thread that     *)
(* holds it; only the output thread uses this one.                         *)
(***************************************************************************)
\* A mutex that is not reentrant.
FreeOnly(depth) == depth = 0

CanAcquire(depth) == TRUE

Deeper(depth)    == IF depth = MaxDepth THEN MaxDepth ELSE depth + 1
Shallower(depth) == IF depth = MaxDepth THEN MaxDepth ELSE depth - 1

(***************************************************************************)
(* The file.                                                               *)
(***************************************************************************)
Cached == IF file = NoFile THEN {} ELSE Range(file) \ {Torn}

\* The file is opened for writing instead of for appending.
Overwritten(f, lines) == lines

\* Lines are appended; the first one continues a torn last line and is
\* unreadable with it.
Appended(f, lines) ==
  IF f = NoFile THEN lines
  ELSE IF f # <<>> /\ f[Len(f)] = Torn THEN f \o Tail(lines)
  ELSE f \o lines

\* Whether that happens to the line written next.
Glued(f) == f # NoFile /\ f # <<>> /\ f[Len(f)] = Torn

\* The records that a pass ended by an exception or a stop leaves in the file
\* after their execution, or in two lines.
CutShort == done \cup returned

\* One more execution of r; later ticks are not counted.
OneMore(count, r) == IF r = Beat THEN count ELSE [count EXCEPT ![r] = @ + 1]

-----------------------------------------------------------------------------
\* DataCache.setFile has been called before the thread is created.
Init ==
  /\ file = NoFile /\ tempCache = <<>> /\ lockDepth = 0
  /\ pc = "idle" /\ cur = Beat /\ resending = FALSE /\ dying = FALSE /\ todo = <<>>
  /\ stored = [r \in Record |-> 0] /\ late = [r \in Record |-> 0]
  /\ faults = 0 /\ crashes = 0
  /\ out = {} /\ done = {} /\ returned = {}
  /\ blurred = {} /\ excused = {}

\* output: a record is complete, putData sends it.
Output(r) ==
  /\ pc = "idle" /\ r \notin out
  /\ pc' = "request" /\ cur' = r
  /\ out' = (out \cup {r}) \ {Beat}
  /\ UNCHANGED <<file, lock, resending, dying, todo, backend, budget, pass,
                 blurred, excused>>

\* Where the callbacks of putData send the thread: to append or, after a
\* success of a new record, to DataCache.send; to append or back to the loop.
outputResponce(items) == IF Failed(items) THEN "append" ELSE "send"
sendResponce(items)   == IF Failed(items) THEN "append" ELSE "lines"

\* The blocking exchange ends as x, the backend having done e, and putData has
\* called its callback, if the exchange calls it at all.
Answer(x, e) ==
  LET kept == Replies(x) /\ Failed(Reply(x))
  IN
  /\ pc = "request"
  /\ x # "ok" => faults < MaxFaults
  /\ faults' = IF x = "ok" THEN faults ELSE faults + 1
  /\ stored' = IF e = "stored" THEN OneMore(stored, cur) ELSE stored
  /\ late' = IF e = "late" THEN OneMore(late, cur) ELSE late
  /\ pc' = IF resending
           THEN IF Replies(x) THEN sendResponce(Reply(x)) ELSE "lines"
           ELSE IF Replies(x) THEN outputResponce(Reply(x)) ELSE "idle"
  /\ dying' = Throws(x)
  /\ done' = IF resending /\ e # "not" THEN done \cup {cur} ELSE done
  /\ blurred' = IF kept /\ e # "not" THEN blurred \cup {cur} ELSE blurred
  /\ excused' = IF ~kept /\ e = "not" THEN excused \cup {cur} ELSE excused
  /\ UNCHANGED <<file, lock, cur, resending, todo, crashes, returned, out>>

\* The backend executes a request the daemon has given up on.
LateExecution(r) ==
  /\ late[r] > 0
  /\ late' = [late EXCEPT ![r] = @ - 1]
  /\ stored' = [stored EXCEPT ![r] = @ + 1]
  /\ UNCHANGED <<file, lock, thread, budget, pass, history>>

\* DataCache.append, and where its caller goes on: the exception of a request
\* without credentials ends the thread, leaving send where it was.
DoAppend ==
  /\ pc = "append"
  /\ IF CanAcquire(lockDepth)
     THEN /\ file' = Appended(file, <<cur>> \o tempCache)
          /\ tempCache' = <<>>
          /\ excused' = IF Glued(file) THEN excused \cup {cur} ELSE excused
     ELSE /\ tempCache' = Append(tempCache, cur)
          /\ UNCHANGED <<file, excused>>
  /\ pc' = IF dying THEN "dead" ELSE IF resending THEN "lines" ELSE "idle"
  /\ returned' = IF resending THEN returned \cup {cur} ELSE returned
  /\ blurred' = IF dying THEN blurred \cup done \cup returned' ELSE blurred
  /\ UNCHANGED <<lockDepth, cur, resending, dying, todo, backend, budget,
                 done, out>>

\* DataCache.send returns early, with the lock, when there is no file.
SendNoFile ==
  /\ pc = "send" /\ CanAcquire(lockDepth) /\ file = NoFile
  /\ lockDepth' = Deeper(lockDepth)
  /\ pc' = "idle"
  /\ UNCHANGED <<file, tempCache, cur, resending, dying, todo, backend, budget,
                 pass, history>>

\* It reads the whole file ...
SendOpen ==
  /\ pc = "send" /\ CanAcquire(lockDepth) /\ file # NoFile
  /\ lockDepth' = Deeper(lockDepth)
  /\ todo' = file /\ resending' = TRUE
  /\ done' = {} /\ returned' = {}
  /\ pc' = "lines"
  /\ UNCHANGED <<file, tempCache, cur, dying, backend, budget, history>>

\* ... sends each record again ...
Resend ==
  /\ pc = "lines" /\ todo # <<>> /\ Head(todo) # Torn
  /\ todo' = Tail(todo) /\ cur' = Head(todo)
  /\ pc' = "request"
  /\ UNCHANGED <<file, lock, resending, dying, backend, budget, pass, history>>

\* ... skips a line that cannot be read, reporting it to the backend, where
\* bad credentials end the thread as they do for data ...
SkipTorn ==
  /\ pc = "lines" /\ todo # <<>> /\ Head(todo) = Torn
  /\ todo' = Tail(todo)
  /\ \/ UNCHANGED <<pc, faults, blurred>>
     \/ /\ "badCred" \in Exchanges /\ faults < MaxFaults
        /\ faults' = faults + 1
        /\ pc' = "dead" /\ blurred' = blurred \cup CutShort
  /\ UNCHANGED <<file, lock, cur, resending, dying, backend, crashes, pass, out,
                 excused>>

\* The file is left as it was.
KeepFile(f) == f

\* The file after the pass.
Emptied(f) == <<>>

\* ... and empties the file, with whatever append has added to it meanwhile.
SendEmpty ==
  /\ pc = "lines" /\ todo = <<>>
  /\ file' = Emptied(file)
  /\ lockDepth' = Shallower(lockDepth)
  /\ resending' = FALSE /\ pc' = "idle"
  /\ excused' = excused \cup returned
  /\ done' = {} /\ returned' = {}
  /\ UNCHANGED <<tempCache, cur, dying, todo, backend, budget, out, blurred>>

\* The process is stopped (by the updater, a shutdown or a failure) and
\* started again.  A record in a request may have reached the backend, and one
\* being appended may be written in part.
Restart ==
  /\ crashes < MaxCrashes
  /\ crashes' = crashes + 1
  /\ \/ UNCHANGED <<file, stored>> /\ blurred' = blurred \cup CutShort
     \/ /\ pc = "request"
        /\ stored' = OneMore(stored, cur)
        /\ blurred' = blurred \cup CutShort \cup {cur}
        /\ UNCHANGED file
     \/ /\ pc = "append"
        /\ file' = Appended(file, <<Torn>>)
        /\ blurred' = blurred \cup CutShort
        /\ UNCHANGED stored
  /\ excused' = IF pc \in {"request", "append"} THEN excused \cup {cur} ELSE excused
  /\ tempCache' = <<>> /\ lockDepth' = 0
  /\ pc' = "idle" /\ cur' = Beat /\ resending' = FALSE /\ dying' = FALSE /\ todo' = <<>>
  /\ done' = {} /\ returned' = {}
  /\ UNCHANGED <<late, faults, out>>

-----------------------------------------------------------------------------
Next == \/ \E r \in Item : Output(r)
        \/ \E x \in Exchanges : \E e \in Execution(x) : Answer(x, e)
        \/ \E r \in Record : LateExecution(r)
        \/ DoAppend
        \/ SendNoFile \/ SendOpen \/ Resend \/ SkipTorn \/ SendEmpty
        \/ Restart

\* A tick comes every 30 seconds, an exchange ends by its time out, and the
\* thread goes on after it.
Fairness == /\ WF_vars(Output(Beat))
            /\ WF_vars(\E x \in Exchanges : \E e \in Execution(x) : Answer(x, e))
            /\ WF_vars(DoAppend) /\ WF_vars(SendNoFile) /\ WF_vars(SendOpen)
            /\ WF_vars(Resend) /\ WF_vars(SkipTorn) /\ WF_vars(SendEmpty)

Spec == Init /\ [][Next]_vars
FairSpec == Spec /\ Fairness
-----------------------------------------------------------------------------
TypeOK ==
  /\ file = NoFile \/ file \in Seq(Item \cup {Torn})
  /\ tempCache \in Seq(Item) /\ lockDepth \in 0 .. MaxDepth
  /\ pc \in {"idle", "request", "append", "send", "lines", "dead"}
  /\ cur \in Item /\ resending \in BOOLEAN /\ dying \in BOOLEAN
  /\ todo \in Seq(Item \cup {Torn})
  /\ stored \in [Record -> Nat] /\ late \in [Record -> Nat]
  /\ faults \in 0 .. MaxFaults /\ crashes \in 0 .. MaxCrashes
  /\ out \subseteq Record /\ done \subseteq Item
  /\ returned \subseteq Item /\ blurred \subseteq Item /\ excused \subseteq Item

\* The record is where it can still reach the backend, or has reached it.
Accounted(r) ==
  \/ pc \in {"request", "append"} /\ cur = r
  \/ r \in Cached
  \/ stored[r] + late[r] > 0

\* A record handed over is on its way, in out.txt or at the backend, unless it
\* met one of these: an exchange taken for a success that was none, a stop of
\* the process while it was in hand, a failure while it was being resent, or a
\* torn line to be appended to.
NoOtherLoss == \A r \in out : Accounted(r) \/ r \in excused

\* The backend executes a record twice only if an execution was reported to
\* the daemon as a failure, or if a pass over the file was cut short by an
\* exception or a stop: a pass that ends never sends again what has arrived.
TwiceOnlyIfBlurred == \A r \in Record : stored[r] + late[r] > 1 => r \in blurred

\* With finitely many failures nothing is left waiting in the end, neither in
\* the file nor in tempCache, unless the thread has died: the lock that send
\* keeps when there is no file stands in nobody's way.
CacheDrains == <>[]((Cached = {} /\ tempCache = <<>>) \/ pc = "dead")

\* README.txt: the daemon "records the traffic and reports back to
\* DiNeMeterMaster": a record handed over is never lost.
NoRecordLost == \A r \in out : Accounted(r)
=============================================================================
