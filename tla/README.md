# A TLA+ model of DiNeMeter

DiNeMeter meters the internet traffic of a household. A daemon on each computer
counts the bytes of every packet and reports them to a backend written in PHP,
which stores them per user and thins them out as they age; a frontend in the
browser shows them. This directory holds TLA+ modules that model those parts,
the TLC configurations that check them, and proofs that TLAPS checks.

    tlc -config MCMeter.cfg MCMeter      # one of the runs of PROJECT.json
    tlapm MeterProofs.tla                # one of the eight modules with proofs

All source paths below are relative to `src/src/dinemeter/` of the repository.

## 1. Inventory

| component | state | operations | how it interacts |
|---|---|---|---|
| packet capture, `daemon/pcap/pcapInterface.cpp` | handles of the devices, the callback, subnet and mask | `listDevices`, `run`, `got_packet` | calls `Daemon.handler` with bytes down, bytes up and the remote address |
| metering, `daemon/Daemon.hx` | `vals` (bytes per host), `totals`, `end`, two mutexes, two message queues | `handler`, `realtime`, `output`, `realtimeTiming`, `outputTiming` | four threads and the capture loop share `vals`, `totals` and `unmetered`; `output` hands records to `BackendRequest.putData` |
| unmetered filter, `daemon/Daemon.hx`, `daemon/Filter.hx` | a tree of nodes | `readIpList`, `match` | read once by `main`, after the threads have been started; used by `realtime` |
| sending, `daemon/DataCache.hx`, `daemon/Daemon.hx` | `out.txt`, `tempCache`, a mutex | `outputResponce`, `append`, `send`, `sendResponce` | called back by `BackendRequest`; `out.txt` survives the process |
| requests, `client/BackendRequest.hx` | credentials, queue of waiting calls | `putData`, `send`, `responce`, `error`, ... | blocking in the daemon, asynchronous in the browser |
| daemon updater, `daemon/DaemonUpdate.hx`, `daemon/Daemon.hx` | `daemon-config.txt`, the installed files | `update`, `checkUpdate`, `updateSetupFrom`, `setupFrom` | stops and restarts the daemon at any moment; both write the config |
| switchboard, `master/backend/Main.hx` | none | `main` | every request: upgrade the database, log in, run one action |
| database upgrade, `master/backend/DbUpdater.hx`, `bin/updates/db/` | table `version`, the schema | `updateDb`, `updateWithin` | run by every request, concurrently |
| archive, `master/backend/StoredConnection.hx`, `DataRecordManager.hx`, `DataList.hx` | table `datarecord` | `Controller.putData`, `refactorArchive`, `DataList.refactor` | each `putdata` request archives what has become old |
| login, sessions, users, privileges, `master/backend/{StoredUser,UserManager,PriveledgeManager,Controller}.hx` | tables `user`, `priveledge` | `login`, `initSession`, `addUser`, `removeUser`, `changeSetting`, ... | check, then act, without a transaction |
| usage totals, `DataRecord.hx`, `DataMath.hx`, `TimeUtils.hx` | none | `total`, month boundaries | read side of the archive |
| frontend, `master/frontend/` | session in local storage, selected user, drawings | `LoginBox`, `Controller`, `UserSettings_Privs`, ... | asynchronous replies |

What is hard here: four threads that pass byte counts on to each other under two
locks, with a filter that is loaded after they start; a retry cache in a file,
worked on inside callbacks, whose owner may be stopped between any two steps;
requests that are executed although the client has given up on them; a backend
in which every request is a process of its own and MySQL the only thing they
share, with statements that commit by themselves; splitting integer byte counts
over blocks of time, and over users, without losing any; a page whose requests
wait for a login that other answers may undo, and whose form is filled by answers
that come late; two programs that write one config file and stop each other.

What makes each part correct:

* metering: every byte of every packet ends in exactly one record, in the right
  column, in the right window, and eventually;
* sending: a record handed over is on its way, cached or stored, and stored once;
* filter: an address matches if and only if it is in a listed range;
* database upgrade: the version never claims more than the schema has, and a
  request that gets through finds the schema it needs;
* archive: thinning out keeps every user's bytes, and one row per block;
* sessions and privileges: only what has been granted, for as long as granted;
* capture: exactly the usable devices are polled, and every frame is told to the
  handler under the right host and direction;
* totals: shares add up to what arrived, adjoining periods to the whole;
* frontend: a reply is applied to what it was asked for, and a request that waits
  for a login is sent once, and in the end;
* updater: the config survives, its version is what is installed, and the last
  release is installed.

`PROJECT.json` lists the hazards, each at its line, with the properties that
cover it or the reason why none does.

## 2. Modules

| module | models | checked by | proofs |
|---|---|---|---|
| `Metering` | what the metering threads promise, without threads | `meter_promise` (as `Implements`) | `MeterProofs` |
| `Meter` | capture loop, `realtime`, `output`, timers, locks | `meter`, `meter_promise` | `MeterProofs` |
| `Filter` | `readIpList` and `match` | `packets` | `PacketProofs` |
| `BackendRequest` | what a native request makes of an HTTP exchange | through `DataCache` | |
| `DataCache` | output thread from `putData` on, `out.txt`, stops of the process | `cache`, `cache_wipe` | `DataCacheProofs` |
| `DbUpdater` | `Main.main` up to the switchboard, `updateDb`, update files, the default user | `db_upgrade` | `DatabaseProofs` |
| `Archive` | `putData` for one user, `refactorArchive`, `refactor` | `records` | `DatabaseProofs` |
| `Binary` | the powers of two that `Filter` and `Capture` count addresses with | | |
| `Capture` | `listDevices`, `run`, `got_packet`, the loop of `Daemon.main` around them | `packets` | `PacketProofs` |
| `Accounts` | login, sessions, users, privileges: the switchboard behind `DbUpdater` | `accounts`, `accounts_timeout` | `AccountsProofs` |
| `Totals` | `putData` for several users, `DataRecord.total` | `records` | `DatabaseProofs` |
| `Login` | `BackendRequest` in the browser, `LoginBox` | `login` | `LoginProofs` |
| `UserPanel` | `UserSettings_Privs` and the backend handlers that answer it | `panel` | `UserPanelProofs` |
| `Updater` | update thread of the daemon, `DaemonUpdate`, `daemon-config.txt` | `updater` | `UpdaterProofs` |
| `MC...` | the constants that need definitions, and symmetries; `MCPackets` is for `Filter` and `Capture`, `MCRecords` for `Archive` and `Totals` | | |

`DataCache` extends `BackendRequest`; `Meter` instantiates `Metering`. The other
modules meet at interfaces: `Capture` makes the calls of `handler` with which
`Meter` begins; `OutputPut` of `Meter` hands over a record where `Output` of
`DataCache` receives one; a record `DataCache` counts as executed is one
`PutData` of `Archive` (or `putData` of `Totals`); a request of `Accounts` or
`Archive` is one that `DbUpdater` has let through; `Restart` of `DataCache` is
what `End`, `Run` and `Reboot` of `Updater` do to the daemon; `Rejected` of
`Login` is `unauthorised` of `Accounts`.

### Meter and Metering

A byte count is the set of packets whose bytes it sums. That abstracts from the
amounts and makes both a lost and a twice counted byte visible. `vals` maps a
host to its two counts; `v`, `totals` and a record have the four columns `down`,
`up`, `uDown`, `uUp`.

| in the code | in `Meter` |
|---|---|
| `handler` | `HandlerAcquire` (lock, read the old count), `HandlerRelease` (store, unlock) |
| `realtime`, one round | `RealtimeSwap` (read tick, swap `vals` under its lock), `RealtimeSum`, `RealtimeAcquire`, `RealtimeRelease` |
| `output`, one round | `OutputTake` (read tick, take totals and close window under the lock), `OutputPut` (`putData` returns) or `OutputThrows` (it throws, and the thread is over) |
| `realtimeTiming`, `outputTiming` | `RealtimeTiming`, `OutputTiming` |
| `main` after the threads are created | `ReadIpList`; only then `handler` can be called |

A critical section whose reads and writes another thread could see apart if the
lock failed is two actions (acquire and read; write and release), so that the
mutant without locks really loses updates. A critical section that only swaps a
reference is one. The refinement maps `waiting` to the packets seen and not yet
in a record handed over, `reported` to `made`, and `edge` to the start of the
record in hand or, if there is none, to `end`.

Time passes in moments, and `Date.now()` reads the constant `clock` at the
present one. The wall clock may be set back, so `clock` may be any function: a
window may end before it starts, and `Metering` promises only that each window
starts where the one before it ended. The history variables `at`, `closed` and
`spans` keep the moments themselves, so that `NeverFromFuture` can say what holds
of the moments in any case, and what holds of the stamps as long as the clock was
not set back in between (`Steady`).

Credentials that are rejected make `putData` throw (`client/BackendRequest.hx:323`),
and the handlers around the loop of `output` end the thread. `Reported` therefore
has the exception of a thread that is over; `CountedOnce` holds after that too,
with the packets left in the totals.

### Filter

One action per branch of `readIpList` (first line, later line; the branch on the
first differing octet is `Shared`), building nodes on a heap. `match` is a step
machine with its cursor per level: one node is looked at in one step, so that what
holds in the middle of a search can be stated. The reference is membership in a
block of addresses with a common prefix (`In`), which shares nothing with the
tree.

### BackendRequest and DataCache

`BackendRequest` sorts the ways an exchange can end by what the code does with
them, and says for each whether the callback runs, with what, and whether an
exception follows. `DataCache` follows some records and lets every other tick be
`Beat`. Its actions are the steps of the output thread between two points at
which the process may be stopped. `Restart` is a stop anywhere: memory is lost, a
request under way may have been executed, a line being appended may be torn.
`LateExecution` is the backend executing a request that has timed out. The
mutex is reentrant, as `cpp.vm.Mutex` is; a mutant of `CacheDrains` shows that the
code depends on it. `blurred` and `excused` are history variables that name the
reasons for which a record may be stored twice or lost.

### DbUpdater

Every request is a process with a program counter; every SQL statement is one
step. The update files are sequences of statements, and a statement fails when
MySQL would refuse it. The transaction `updateWithin` opens is ended by the
first `CREATE` or `ALTER` of each file, so that each statement commits by itself
and nothing is rolled back. The table `version` is a sequence of rows because
two first requests may both insert one; reads return the row with the lowest id.

### Archive

`refactor` is not transcribed loop by loop but stated in closed form: `Share` is
what one sample puts into one block, `Block` adds the shares up, `Refactor` is the
blocks it returns. Rows form a bag, since two equal rows may exist. Each level of
`refactorArchive` is one step: it is a transaction whose `SELECT ... FOR UPDATE`
locks what it replaces. Requests interleave between the levels and work with the
clock they read before (`asOf`). The shares are rounded down exactly, as the
code's floating point does for counts in its range. `putData` does not look at the
window of a record: it may lie ahead of the server's clock, and it may run
backwards, as when the clock of the daemon's machine was set back within it; one
of no length is made a second long; a byte count that exceeds the INT column is
cut off there.

### Capture

The variables of `run` are those of the code (`i` and `j` are `runI` and `runJ`,
`n` is `devices`, the callback `f` is `handler`), and one turn of each loop is one
action. Addresses are sets of bits, so that `^` and `&` are set operations, and
`RightCall` compares them with the subnet as a range of numbers, for the masks of
leading bits that subnets have (another mask is no range, and for it the property
says nothing). Undefined behaviour is a choice: closing or printing through the
uninitialised `handle` does nothing or ends the process; a call through the freed
root reaches the handler, nothing, or ends the process; without a handle `res` is
uninitialised, and the loop ends or spins.

### Accounts

A request is a process of several steps: it reads a user (`Login`), writes the
prolonged session (`Prolong`), checks a privilege (`Check`), reads the user it is
about (`Get`), and writes. Between any two of them other requests run. `Stored`
is `php.db.Object.update`: it writes the fields that differ from what was read,
which is why stale objects do no harm (`OnlyAsked`) and why a value that equals
the stale one is not written (`AskedIsDone`). A credential is the key it was
encrypted with. The session's time out is in milliseconds and its column an INT,
so that the column always holds its largest value and the comparison in
`checkCredentials` never finds a session timed out. `used` (history) is when a
session was started or last used, and `Hour` the hour that the code's comments
give it. `KeptSession` states that a session works within its hour; `TimesOut`
that it does not work after it, which is violated.

`crossed` (history) holds the sessions that were handed out by a login which had
read its user before another session was started. `initSession` then leaves out
of its update the address it believes to be there already, and the row has the
new session with the other client's address, so that the session just handed
out is refused. This was found by the proof of `KeptSession`, which fails
there; a user whose last session came from the client's own address, which is
what `Old` starts with, lets it happen among three requests.

### Totals

One action per `putdata` request, since what is used of the other rows is read
once at its beginning and a row that another request adds meanwhile counts for
later ones only. `Lists` are the lists of users a request may name, a name twice
included; the rows of a request are numbered record by record and user by user
(`RecordAt`, `UserAt`), so that a request that a division by zero cuts off is one
with fewer rows (`Made`). What a user has used is computed from the rows that
`getData` reads, those that touch the time from the first start to the last end of
the records. A window may have no length or run backwards: `putData` checks
neither, and the daemon sends such records when its clock was set back. The shares
are exact rationals rounded as `Math.round` does. History variables count the
shares that were rounded, so that the sums can be compared within half a byte for
each, and the bytes of uploads lost in the one case `SharesAddUp` names.

### Login

The page has one thread, so a function of the script is one action up to the
point where it waits for an answer. `Page` is the state of the script; `send`,
`needLogin` and `Drained` are functions on it, composed as the code calls them.
Answers to `checkCreds` are counted, the other exchanges are objects, which move
between `flight`, `onLogin` and `done`. Whether credentials are accepted is left
open: another client may replace the session at any time.

### UserPanel

`calls` are the exchanges under way; `Serve` carries one out at the backend and
`cb1` to `cb6` take its answer, both in any order. The backend is its users and
the effect of each handler on them. A quota has a number and a unit, because the
form shows both and the column keeps only the number. `owner` (whose quota the
field holds) is a history variable.

### Updater

The script `daemon.meta` stands for its lines that matter, in their order: the
version of the updater, `schtasks /END`, the files, `schtasks /RUN`, the version.
Every exchange and every half of a write of the config is a step, since the
updater kills the daemon wherever it is. Files are written as a whole; the
release they come from is the one the server has at that moment. A download that
fails is only traced; a file that cannot be written ends the updater
(`InstallThrows`), which then has ended the daemon and does not start it again,
or the update thread of the daemon (`fetchSetupThrows`). `halted` (history) says
that this has happened and that nothing has started the daemon since.

The command that starts the updater is marked "Not Working" (`Daemon.hx:416`),
and nobody looks at what it returns. In the model it starts the updater or
starts nothing, at each check anew; `dud` (history) says that it started nothing
at the last one.

## 3. Runs

| run | bounds | shows |
|---|---|---|
| `meter` | 3 packets, 2 hosts, 1 queued tick, 2 moments | `CountedOnce`, `RightColumn` |
| `meter_promise` | 2 packets, 2 hosts, 1 queued tick, 3 moments, the clock set back | `NeverFromFuture`; refinement: `Implements`; liveness: `Reported` |
| `packets`, `Filter` | 2-bit octets, 3 lines out of 20, 20 addresses | `NarrowMatched`, `OnlyListed`; `Onward` of each step |
| `packets`, `Capture` | 3 devices, 2-bit addresses, every mask of leading bits, turns of 2 frames | `HandlesExact`; `RightCall` of each step; liveness: `EveryDeviceServed` |
| `cache` | 2 records, 4 faults, 2 stops | `NoOtherLoss`, `TwiceOnlyIfBlurred`; liveness: `CacheDrains` |
| `updater` | 2 updaters, 3 releases, 1 fault or reboot | `NoVersionTooHigh`, `DownOnlyTorn`; `AgainOnlyStale` of each step; liveness: `InstalledIfStarted` |
| `db_upgrade` | 3 requests, 1 cut, every starting version | `VersionHonest`, `UpgradedIsComplete`, `OneConnection`, `FailsOnlyDisturbed`, `DefaultUserReady`; `SetBackOnlyByChange` of each step; liveness: `EveryRequestEnds` |
| `accounts` | 3 requests, 3 users, 2 names, passwords and addresses | `OnlyAsked`, `AskedIsDone`, `KeptSession`, `ActsByRight` of each step |
| `accounts_timeout` | 2 requests | violated: `TimesOut` |
| `records`, `Archive` | 2 requests, 3 records, 5 clock values | `OneRowPerBlock`; `OnlyEdgesLose` of each step |
| `records`, `Totals` | 2 users, 2 requests of 1 or 2 records, 2 trust levels | `SharesAddUp`, `TotalsSplit` |
| `login` | 2 requests, 2 logins, 2 rejections, 1 failed exchange | `OnePlace`, `SomebodyDrains`, `HangsOnlyCrossed`; liveness: `QueueServed` |
| `panel` | 2 users, 5 exchanges, 2 changes typed | `ForeignOnlyMeanwhile`, `ShowsStored` |

`db_upgrade` also checks its type invariant. In the other modules `TypeOK` is
proved instead; no run is spent on it.

`packets` and `records` check two components each. In every behaviour of such a
run one of the two moves and the other rests in its initial state: they share no
variable, so nothing is lost by not interleaving them, and each is explored with
the bounds it would have alone.

Two runs are expected to end in a violation, each of something that the
repository says of itself (see the findings in `PROJECT.json`):

* `cache_wipe`: records that fail again while the cache is resent are appended to
  `out.txt` and wiped with it, which contradicts `README.txt:15` of the repository;
* `accounts_timeout`: a session is accepted long after the hour in which it "times
  out" (`StoredUser.hx:98`, `Controller.hx:394`).

The passing runs state what remains true in spite of what the code does wrong,
and name each exception:

* `NoOtherLoss` and `TwiceOnlyIfBlurred` give the complete list of the ways in
  which a record is lost or doubled on the way. Among them: an answer with an
  error that is not about authorisation, and an exchange that ends early, are
  taken for a success (`BackendRequest.hx:284`, `:294`); `CacheDrains` has the
  one that ends the thread for good, credentials rejected once (`:323`).
* `OnlyEdgesLose` bounds the loss of every archiving step by the bytes of the
  records that reach over the horizon and a block boundary, or run backwards
  over one, unless a block is full.
* `SetBackOnlyByChange` says that the version goes back only from 5 to 4; when it
  does, the file for 4 fails on the column it adds for every later request.
* `DefaultUserReady` leaves one window: a request cut off between inserting the
  default user and allowing it anything.
* `NeverFromFuture` has the exception of a clock set back for the stamps, none for
  the moments. `Reported` has that of an output thread that has ended.
* `InstalledIfStarted` depends on a command that the code's own comment calls "Not
  Working". While the command starts nothing, the last release is not installed,
  and the daemon logs "Update done" (`Daemon.hx:417`) at every check all the same.
* `KeptSession` has the exception of a session that crossed another login
  (`Controller.hx:391`). `SharesAddUp` loses the uploads of users who had only
  downloads before, and says nothing once a request has ended at a user without
  a quota. `TotalsSplit` counts twice a record without length, or inverted, at the
  moment between the periods, and leaves out one that reaches over both ends of
  a period.
* `HangsOnlyCrossed` names when the loop in `setCurrent` never ends;
  `SomebodyDrains` holds until an exchange fails.
* `ForeignOnlyMeanwhile` leaves the time between a selection and its answer, and
  every time after an answer that failed, in which a save gives the previous
  user's quota to the selected one.
* `NoVersionTooHigh` has the exception of a failed download, which nobody looks
  at; `DownOnlyTorn` those of a write of the config that is cut off and of a file
  that the updater could not write.

### Why the bounds are enough

* `Meter`: two packets share one counter, so that an update can be lost, and a
  third is of an unmetered host. A tick may be queued while a thread is in the
  middle of a round, so that it can run two rounds in a row while the other is
  in the middle of one. `meter_promise` has one packet of each host and three
  moments: the clock advances to the second and is set back to before the first
  at the third, so that windows of positive, of no and of negative length occur,
  and packets whose stamp is later than the end of their record. All that these
  runs check but the liveness is also proved, without bounds.
* `DataCache`: two records are needed for one to be in the file while the other
  is in a request; four faults allow a failure, a failure of the resend, an
  exception and one more. Lock depths are not told apart from `MaxDepth` on: an
  acquisition of a held lock does not depend on the depth.
* `Filter`: three lines suffice to leave a prefix and come back to it, at each
  level. Octets of two bits leave ranges of one, two and four addresses within
  an octet, and ranges that exceed it or overflow the integer.
* `DbUpdater`: three requests give one that finishes, one that is stale and one
  that comes later. The update files are the real ones.
* `Archive`: the constants keep the proportions that matter: the blocks of level
  1 divide those of level 2 (2 and 4 for 20 and 120 minutes) and the lag of level 1
  is shorter than its block (1 for 15 minutes). A record may be as long as a level
  2 block (4), as after a machine has slept, have length 0 or -1, and start at any
  time, later than the server's clock included. Amount 5 is not divisible by 2 or
  4, so that rounding shows, and three of them exceed the INT column (12). The
  clock goes far enough for level 2 to merge two blocks of level 1, also with
  records of level 0. The lag of level 2 is shorter than its block (2 for two
  days), unlike the code's: a longer one needs a longer clock, and
  `OnlyEdgesAreLost` is proved for any.
* `Capture`: three devices put a failure before, between and after two that
  open. Addresses of two bits have subnets of one, two and four addresses; the
  frames lie within, across and outside them.
* `Accounts`: three requests give a session, its user and one that changes that
  user meanwhile. The session a user had before the first request has an address,
  which makes up for the request that would have started it. The clock and the
  column have the smallest values that keep their order; in `accounts_timeout` the
  hour (2) is shorter than the run (3).
* `Totals`: windows that contain, overlap and adjoin each other, one of no length
  and one inverted; a second request is divided by the shares of the first;
  quotas are there for both, one or none.
* `Login`: two requests can wait in one queue; two logouts, sessions and
  getCurrentIds let one of each cross another. An exchange that has ended frees
  its object, so that the run is not limited to two of them altogether.
* `UserPanel`: two users to select between; five exchanges are a list, a
  selection, a save and its two follow-ups, or two selections that cross.
* `Updater`: two updaters may overlap, which needs a daemon that starts one while
  another runs; three releases let one appear in the middle of an update and one
  after it. One fault or reboot at a time is followed through all that comes
  after it; the safety properties are proved for any number.

### Fairness

`Meter`: weak fairness of every step of the threads and of the timers, which are
loops around a sleep. Only `OutputTake` has strong fairness: `realtime` takes the
lock of the totals again and again, and `output` gets it because the operating
system's mutex does not starve a waiter for ever. `putData` ends, by returning or
by throwing (`OutputPut \/ OutputThrows`); nothing is assumed of which, of packets
or of the clock. `DataCache`: a tick every 30 seconds (`Output(Beat)`), requests
that end (the socket has a time out of 10 seconds), and a thread that goes on; the
number of faults is finite, so that exchanges succeed in the end. No restart is
assumed: `badCred` may end the thread for good, after which nothing drains, and
`CacheDrains` says so. `DbUpdater`: every request goes on until it ends.
`Capture`: the thread in the polling loop is scheduled; nothing is assumed of the
network or of a key being pressed. `Login`: exchanges end, and a user who sees the
box logs in; the number of rejections and of errors is finite. `Updater`: weak
fairness of the daemon's timer and of each program that has been started. Reading
the config while it is whole has strong fairness: it is empty for a moment every
half minute, and an updater that meets that moment each time it is started is
excluded. Nothing is assumed of releases, of failures or of the command that
starts the updater: `InstalledIfStarted` has the condition that not every check
from some time on finds a newer version and starts nothing.

Deadlock checking is off where the bounded system may stop: all records handed
over and the thread dead, all requests served, the clock at its bound, the file
read, the process ended. `meter` and `meter_promise` check it.

## 4. Proofs

### MeterProofs

For any packets, hosts, filter, queue bound, time bound and readings of the clock:

| theorem | states |
|---|---|
| `TypeCorrect` | `Spec => []TypeOK` |
| `BytesCountedOnce` | `Spec => []CountedOnce` |
| `ColumnsRight` | `Spec => []RightColumn` |
| `WindowsClosed` | `Spec => []NeverFromFuture` |
| `MeterImplementsMetering` | `Spec => Implements` |

The inductive invariant is `IInv` of `Meter`. `CountedOnce` alone is not
inductive: `HandlerRelease` stores the count it read earlier, which loses bytes
unless that is still the count (`Locked`: a holder's copy is current);
`RealtimeSwap` overwrites the table in hand, which loses bytes unless there is
none (`InHand`). `RightColumn` needs that counts upstream are sorted by host and
direction and that nothing is counted before the filter is read (`Sorted`).
`NeverFromFuture` needs the order of the moments and that `end` is what the clock
read when the last window was closed (`Timely`), and that the packets of a record
taken were captured by then (`Spanned`); the windows of the refinement need the
same of the record in hand. Nothing in it says that the clock grows. The seven
places in which a byte can be are the function `Content`. All steps of `realtime`
and `output` move the whole content of one place into the next, and one lemma,
`PassOn`, shows that such a step keeps the places disjoint and their union the
same. For the refinement, `OutputPut` and `OutputThrows` are a `Report`,
`HandlerAcquire` a `Capture`, and every other step a stutter.

### DatabaseProofs

Three components share this module, which extends them all. That is why `Archive`
and `Totals` (and `Capture`, beside `Filter`) have names of their own for their
specification and what it is made of: `ArchiveSpec`, `TotalsInit`, `captureVars`.

`DbUpdater`: for any number of requests and of cuts, and the real update files:

| theorem | states |
|---|---|
| `DbTypeCorrect` | `Spec => []TypeOK` |
| `VersionIsHonest` | `Spec => []VersionHonest` |
| `UpgradedFindsSchema` | `Spec => []UpgradedIsComplete` |
| `ConnectionInsertedOnce` | `Spec => []OneConnection` |
| `DefaultUserIsReady` | `Spec => []DefaultUserReady` |
| `SetBackOnlyByTheChange` | `Spec => SetBackOnlyByChange` |
| `FailsOnlyIfDisturbed` | `Spec => []FailsOnlyDisturbed` |

The strengthening says what lies behind a request in the middle of a file
(`Behind`: all earlier files, and its own statements so far), that a request in
`updateDb` has seen a row (`SawVersion`), and that the right to insert the
connection is passed on only by creating its table (`OneInserter`). Behind it are
facts about the files (`UpdateFiles`: the version is raised last and by one).
Nothing in it says that the version grows, and it does not: honesty survives
being set back. That it is set back only from 5 to 4 needs to know which files
exclude each other: all but the one from 3 to 4 begin with a statement that succeeds
once, so that nobody is ahead of a request past it (`NobodyAhead`). A request
that is alone finds exactly the schema of the version it reads (`Undisturbed`).

`Archive`: for any requests, users, amounts, lengths of windows and sizes and
lags of the two levels that `ArchiveAssumption` allows:

| theorem | states |
|---|---|
| `BlocksHaveOneRow` | `ArchiveSpec => []OneRowPerBlock` |
| `BlocksApart` | archived rows of one level and user do not overlap |
| `OnlyEdgesAreLost` | `ArchiveSpec => OnlyEdgesLose` |
| `ArchiveTypes` | `ArchiveSpec => []ArchiveTypeOK` |

`OneRowPerBlock` is not inductive: a level replaces what starts by its horizon and
makes the blocks up to there, and it has to be known that no row it leaves alone
is one of them. `ArchiveInv` adds the types and that each archived row is exactly
one block of its level (`Thinned`: aligned, of its size, once in the bag), so that
a row left alone starts after the horizon and every new one at or before it,
whatever time the request works with.

`OnlyEdgesLose` is an action property about sums over finite sets. `SumIsFold` and
`SetSum` show that the library's sum does not depend on the order in which it takes
elements; from that come sums of sums, of parts and of images (`SetSumPlus`,
`SetSumUnion`, `SetSumImage`, ...) and the exchange of two sums (`SetSumTwice`).
`PartsFit` is the arithmetic of `refactor`: the parts of all blocks but the last,
each rounded down, are together no more than the sample, so that what is left for
the last is a count, and the shares are together the sample (`SharesFit`).
`BlockBytes` exchanges the sum over the rows that a level replaces and the sum over
the blocks they are spread over; `InsertedBytes` says what of a block fits its row;
`LevelLoses` and `PutLoses` are the two kinds of steps that change the table. That
a level loses nothing of rows archived before is where `Thinned` is needed again:
such a row lies in one block of every higher level (`InOneBlock`, because `Size1`
divides `Size2`), and that block starts by the horizon (`EdgeRows`). The invariant
adds only that the rows of a user are finitely many and have counts (`Accounted`).

`Totals`: for any users, lists of them, records with windows of any length (none
and negative ones included), quotas and trust levels:

| theorem | states |
|---|---|
| `TotalsTypes` | `TotalsSpec => []TotalsTypeOK` |
| `SharesAreWhole` | `TotalsSpec => []SharesAddUp` |
| `PeriodsAddUp` | `TotalsSpec => []TotalsSplit` |

The invariant is `TotalsTypeOK` and `SharesAddUp` together: shares are computed from
the rows, and that they are counts again is part of what has to be shown. The
argument is about sums. A sum is a recursive function; `PartialExists`,
`PartialAgree` and `SumStep` show that it is what it says. Induction is over a
set of numbers (`AllNat`, from the library's `WFMin`), since theorems with an
operator parameter cannot be used. From that come the lemmas on sums that are
close (`SumClose`, `SumTwo`), in blocks (`SumBlocks`) and one after another
(`SumAfter`). `RoundClose` bounds one rounding by a half; `Divided` adds the
bounds up over the users of a record, for any weights whose sum is not zero, and
`SharesOf` and `RecordShares` take it through the branches of `putData`;
`RequestShares` adds up the records, with the place of a row in its request
(`PlaceIs`, `PlaceOf`). `SeveralKeep` is the step. The one branch in which a
record does not add up is the one the property names (`Unused`). `TotalsSplit`
follows from the types alone (`TotalsDivideTime`): `RowSplit` is the argument for
one row, by the ways it can lie to the two periods, and the rows that are counted
twice or passed over are summed up beside it.

### DataCacheProofs

For any records, any exchanges, any number of faults and stops:

| theorem | states |
|---|---|
| `TypeCorrect` | `Spec => []TypeOK` |
| `LostOnlyAsNamed` | `Spec => []NoOtherLoss` |
| `TwiceOnlyAsNamed` | `Spec => []TwiceOnlyIfBlurred` |

`NoOtherLoss` breaks at the step that wipes the file unless every record in it
has been dealt with by the pass that ends there (`PassCovers`); that the pass is
over when the file is wiped is `Flow`, which also shows that the lock never
diverts a record into `tempCache`. `TwiceOnlyIfBlurred` needs that what is still
to be sent has not been executed (`Fresh`) and is in one place there, once
(`Once`), and for a record just handed over that it is nowhere yet (`Origin`).

### UpdaterProofs

For any number of updaters, releases and faults:

| theorem | states |
|---|---|
| `TypeCorrect` | `Spec => []TypeOK` |
| `VersionsInstalled` | `Spec => []NoVersionTooHigh` |
| `DownOnlyAfterTornWrite` | `Spec => []DownOnlyTorn` |
| `NoUpdateAgain` | `Spec => AgainOnlyStale` |

The config is written from memory, so the invariant follows what the daemon and
each updater have in memory (`MemoryInstalled`, `KnowsNew`, `KnowsInstalled`),
that the file is empty only in the middle of a write (`BrokenMidWrite`), and
that a config which is behind is about to be replaced (`BehindOnlyMeanwhile`).
`DownOnlyTorn` has `halted` for the updater that could not write a file; since
`Run` and `Reboot` reset it, it excuses no later stop.

### LoginProofs

For any requests, any number of checks, rejections and failures:

| theorem | states |
|---|---|
| `TypeCorrect` | `Spec => []TypeOK` |
| `InOnePlace` | `Spec => []OnePlace` |
| `SomebodyWillDrain` | `Spec => []SomebodyDrains` |
| `HangsOnlyIfCrossed` | `Spec => []HangsOnlyCrossed` |

`Placed`, `Attended` and `Settled` are predicates on a page and the number of
checks, so that each function of the script (`send`, `needLogin`, `Drained`) has
lemmas about the page it returns, which the steps put together as the code does.
`Settled` is what the last theorem needs: once a session is given up, nothing is
under way that would end in the loop of `setCurrent`.

### PacketProofs

`Filter`: for octets of any width and lists of any length:

| theorem | states |
|---|---|
| `FilterTypes` | `Spec => []TypeOK` |
| `MatchesAreListed` | `Spec => []OnlyListed` |
| `ListedHostsMatch` | `Spec => []NarrowMatched` |
| `WalkEnds` | `Spec => Onward` |

The inductive invariant `IInv` is about the tree (`Tree`: the nodes of each line
hold its octets, children and sisters are linked in the order in which they were
made, and none is skipped) and about a search in it: the cursor is on the path of
some line (`Visit`), and at some level it is at or before the node of every line
of at most one octet that has the address (`Search`), so that a search that has
ended without success (`Ended`) has missed none. That a search never turns back
(`Onward`) is why it ends; it follows from the order of the nodes.

`Capture`: for any number of devices, addresses of any width, any subnets and
frames:

| theorem | states |
|---|---|
| `CaptureTypes` | the indices of `run` stay within its arrays, `count` is not 0 in the loop |
| `SlotsAreUsable` | `CaptureSpec => []HandlesExact` |
| `EachDeviceOnce` | no device is polled through two slots |
| `CallsAreRight` | `CaptureSpec => RightCall` |

A slot is filled only if `errbuf` is empty, and nobody empties it: `ErrorKept`
says that it tells whether a device so far has failed. `CallsAreRight` compares
masked bits with ranges of numbers: `LowSplit` divides a number into its leading
and its low bits, and `MaskIsBlock` concludes that two addresses agree under a
mask of leading bits exactly if they are in the same range. Both are by induction
over the bits, as for the sums.

### AccountsProofs

For any number of requests, users, names, passwords, addresses and rights:

| theorem | states |
|---|---|
| `TypeCorrect` | `Spec => []TypeOK` |
| `OnlyByRight` | `Spec => ActsByRight` |
| `NothingUndone` | `Spec => OnlyAsked` |
| `AcknowledgedIsDone` | `Spec => AskedIsDone` |
| `SessionsLastTheHour` | `Spec => KeptSession` |

All four properties are about steps. The invariant says what a request in the
middle of its steps has established (`Logged`, `Entitled`), that the ids of
sessions in the table were made by requests that have ended (`RowsMade`), so
that a new one is new, and that the last session of a user is in its row with
its client's address unless it crossed another (`LastStored`).

### UserPanelProofs

For any users, names, quotas and any number of exchanges:

| theorem | states |
|---|---|
| `TypeCorrect` | types, and that each call has the ids and data its handlers expect |
| `ForeignOnlyUntilRead` | `Spec => []ForeignOnlyMeanwhile` |
| `EndsUpAsStored` | `Spec => []ShowsStored` |

The first two hold in any order of answers and with failures (`Basic`).
`ShowsStored` is about the moment when nothing is under way; the invariant
`Fresh` says what makes it come true while something is. The calls are answered
from the front (`Fifo`); behind every removal that is still to be carried out the
list is asked for again (`Relisted`) and, if its user has been selected again,
the quota (`Reread`); and the list and the quota are right, or a call is under
way from which on every answer will be (`ListFresh`, `QuotaFresh`), where an
`add` or a `change` stands for the calls its callback will begin. The lemmas
`Push...`, `Pop...` and `ServeFresh` follow these through the three things that
happen to the queue.

### Assumptions

The named assumptions on constants: one per module (`MeterAssumption`,
`FilterAssumption`, `DataCacheAssumption`, `DbUpdaterAssumption`,
`ArchiveAssumption`, `CaptureAssumption`, `AccountsAssumption`,
`TotalsAssumption`, `LoginAssumption`, `PanelAssumption`, `UpdaterAssumption`).
TLC evaluates each. They say that bounds are numbers and that a value which
stands for nothing (`NoFile`, `None`, `NoUser`, `NoSession`, `Broken`) is none of
those it is told apart from; `LoginAssumption` also that the kinds of exchanges
are disjoint, and `AccountsAssumption` that the session keys a request makes are
nobody's password. Beyond them, the models take for granted that mutexes exclude
and (in the native build) are reentrant, that a DDL statement is atomic, that
InnoDB's row locks serialize the archive transactions, that MySQL is not in
strict mode, that decrypting with a wrong key does not give a valid text, and
that PHP's runtime turns a division by zero into an exception.

### Only model-checked

Liveness (`Reported`, `CacheDrains`, `EveryRequestEnds`, `EveryDeviceServed`,
`QueueServed`, `InstalledIfStarted`) is outside what the proof system handles here.
Every invariant and every other action property of the runs is stated by a theorem.

## 5. Not modelled

* Drawing, layout and navigation in the browser, logging, error texts: no
  protocol state. The one log call that can end a thread is in `SkipTorn`.
* `crypto/Tea.hx`: bit arithmetic on strings, better served by tests.
* `realtime.txt`: written for the watcher, read by nothing here.
* The WinPcap library: its headers under `daemon/pcap/Include` are third-party
  declarations with no behaviour of their own. They are most of the C in the
  repository; what the code calls of them appears in `Capture` as the results of
  the calls. The program itself is written in Haxe, but for
  `pcapInterface.cpp`.
* `makeDaemonSetup`, `reportError`, the pages for old clients and the tests in
  the backend: file copies, mails, output. `changeData`, `grantPrivledge`,
  `revokePrivledge` and connections other than the first are not implemented in
  this commit.
* The first installation by `DaemonUpdate`, which asks for a password.
* The width of the byte counters in the daemon (they wrap after 2 GiB between two
  records) and the second refactoring of one list when graphs are drawn.

## 6. Plan

1. Shorter proofs where one lemma serves two components (sequences that grow at
   one end and shrink at the other, in `LoginProofs` and `UserPanelProofs`).
2. A composition of `Meter`, `DataCache` and restarts, with the end-to-end
   property that a packet reported is stored or excused.
