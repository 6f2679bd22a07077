--------------------------- MODULE UpdaterProofs ----------------------------
(***************************************************************************)
(* Proofs about Updater, for any number of updaters, releases and faults.  *)
(***************************************************************************)
EXTENDS Updater, TLAPS

\* The daemon has read the config and was not ended since.
Running == daemon.pc \in {"idle", "fetch", "save", "truncated", "check", "ended"}

\* The steps after the files were installed.
Past == {"run", "save", "truncated"}

\* No version is ahead of the server: neither the files nor what an updater
\* has read in the script.
Published == exe <= release /\ \A p \in Procs : proc[p].new <= release

\* What the daemon and the updaters have in memory, and will write, is
\* installed, unless a download failed.
MemoryInstalled ==
  ~missed =>
    /\ daemon.mem.version <= exe
    /\ \A p \in Procs : /\ proc[p].pc \in {"end", "install"} => proc[p].cur <= exe
                        /\ proc[p].pc \in Past => proc[p].new <= exe

\* The config is without contents only while it is being written, unless a
\* writer was stopped.
BrokenMidWrite == config = Broken => torn \/ MidWrite

\* A daemon that runs beside an updater that is not done knows its version.
KnowsNew ==
  ~stale => \A p \in Procs : Running /\ proc[p].pc \in Ends => proc[p].new <= daemon.mem.version

\* A daemon that runs knows the version that is installed.
KnowsInstalled == ~stale /\ crashes = 0 /\ Running => exe <= daemon.mem.version

\* A config behind the installed version is about to be replaced.
BehindOnlyMeanwhile ==
  ~stale /\ crashes = 0 /\ config # Broken /\ config.version < exe =>
    \E p \in Procs : proc[p].pc \in Past /\ exe <= proc[p].new

\* The three parts: about versions, about writes, about updates done again.
Versioned == Published /\ NoVersionTooHigh /\ MemoryInstalled
Written   == BrokenMidWrite /\ DownOnlyTorn
Known     == KnowsNew /\ KnowsInstalled /\ BehindOnlyMeanwhile

IInv == TypeOK /\ Versioned /\ Written /\ Known

-----------------------------------------------------------------------------
\* Before the first step everything is at the version of the server.
LEMMA InitIInv == Init => IInv
<1> SUFFICES ASSUME Init PROVE IInv
  OBVIOUS
<1>1. config \in Config /\ config # Broken
  BY UpdaterAssumption DEF Init, Config, Versions
<1>2. TypeOK
  <2>1. daemon.pc = "idle" /\ daemon.mem \in Config /\ daemon = [pc |-> daemon.pc, mem |-> daemon.mem]
    BY <1>1 DEF Init
  <2>2. \A p \in Procs : proc[p] = Off
    BY DEF Init
  <2>3. proc \in [Procs -> ProcState]
    BY UpdaterAssumption DEF Init, ProcState, Off, Versions
  <2>4. {release, exe, updExe} \subseteq Versions
    BY UpdaterAssumption DEF Init, Versions
  <2>5. {missed, torn, stale, halted, dud} \subseteq BOOLEAN
    BY DEF Init
  <2> QED BY <1>1, <2>1, <2>3, <2>4, <2>5, UpdaterAssumption DEF Init, TypeOK
<1>3. Published /\ NoVersionTooHigh /\ MemoryInstalled
  BY DEF Init, Published, NoVersionTooHigh, MemoryInstalled, Off, Past
<1>4. BrokenMidWrite /\ DownOnlyTorn
  BY <1>1 DEF Init, BrokenMidWrite, DownOnlyTorn
<1>5. KnowsNew /\ KnowsInstalled /\ BehindOnlyMeanwhile
  BY DEF Init, KnowsNew, KnowsInstalled, BehindOnlyMeanwhile, Off, Ends
<1> QED BY <1>2, <1>3, <1>4, <1>5 DEF IInv, Versioned, Written, Known

\* A config that can be read is no broken one.
LEMMA ConfigWhole == ASSUME NEW c \in Config PROVE c # Broken /\ c.version \in Versions
BY UpdaterAssumption DEF Config, Versions

\* An updater that has been started, and one that has read the script.
LEMMA ProcStates ==
  /\ Off \in ProcState
  /\ \A v \in Versions : [Off EXCEPT !.pc = "start", !.own = v] \in ProcState
  /\ \A q \in ProcState, v, w \in Versions :
       [q EXCEPT !.pc = "end", !.cur = v, !.new = w] \in ProcState
<1> DEFINE L == {"off", "start", "script", "end"} \cup Ends
<1>1. Off \in ProcState
  BY UpdaterAssumption DEF Off, ProcState, Versions
<1>2. "start" \in L /\ "end" \in L
  OBVIOUS
<1> HIDE DEF L
<1>3. ASSUME NEW v \in Versions PROVE [Off EXCEPT !.pc = "start", !.own = v] \in ProcState
  BY <1>1, <1>2 DEF ProcState, L
<1>4. ASSUME NEW q \in ProcState, NEW v \in Versions, NEW w \in Versions
      PROVE  [q EXCEPT !.pc = "end", !.cur = v, !.new = w] \in ProcState
  BY <1>2 DEF ProcState, L
<1> QED BY <1>1, <1>3, <1>4

\* What a daemon's step leaves of the types.
LEMMA DaemonType == TypeOK /\ DaemonStep => TypeOK'
<1> SUFFICES ASSUME TypeOK, DaemonStep PROVE TypeOK'
  OBVIOUS
<1> USE UpdaterAssumption DEF TypeOK, Versions, Config, history
<1>1. CASE Boot
  BY <1>1 DEF Boot
<1>2. CASE updateSetup
  <2>1. daemon'.pc \in {"fetch", "save"} /\ daemon'.mem = [daemon.mem EXCEPT !.upd = release]
        /\ daemon' = [pc |-> daemon'.pc, mem |-> daemon'.mem]
    BY <1>2 DEF updateSetup
  <2>2. daemon'.mem \in Config
    BY <2>1
  <2> QED BY <1>2, <2>1, <2>2 DEF updateSetup
<1>3. CASE updateSetupFails
  BY <1>3 DEF updateSetupFails, Unreachable
<1>4. CASE Truncate
  BY <1>4 DEF Truncate
<1>5. CASE Write
  BY <1>5 DEF Write
<1>6. CASE checkUpdate
  <2>1. Free # {} => (CHOOSE p \in Free : TRUE) \in Procs
    BY DEF Free
  <2>2. proc' \in [Procs -> ProcState]
    <3>1. [Off EXCEPT !.pc = "start", !.own = updExe] \in ProcState
      BY ProcStates
    <3> QED BY <1>6, <2>1, <3>1 DEF checkUpdate
  <2> QED BY <1>6, <2>2 DEF checkUpdate
<1>7. CASE checkUpdateFails
  BY <1>7 DEF checkUpdateFails, Unreachable
<1>8. CASE fetchSetup
  <2>1. updExe' \in Versions /\ fails' \in 0 .. MaxFaults
    BY <1>8 DEF fetchSetup, Download
  <2>2. missed' \in BOOLEAN
    BY <1>8 DEF fetchSetup, Download
  <2> QED BY <1>8, <2>1, <2>2 DEF fetchSetup
<1>9. CASE fetchSetupThrows
  BY <1>9 DEF fetchSetupThrows
<1> QED BY <1>1, <1>2, <1>3, <1>4, <1>5, <1>6, <1>7, <1>8, <1>9 DEF DaemonStep

\* What an updater's step leaves of the types.
LEMMA UpdateType == ASSUME NEW p \in Procs PROVE TypeOK /\ Update(p) => TypeOK'
<1> SUFFICES ASSUME TypeOK, Update(p) PROVE TypeOK'
  OBVIOUS
<1> USE UpdaterAssumption DEF TypeOK, ProcState, Versions, Config, history, Goto, Ends, Off
<1>1. CASE Start(p)
  BY <1>1 DEF Start
<1>2. CASE Script(p)
  <2> DEFINE read == IF config = Broken THEN NoConfig ELSE config
  <2>1. read.version \in Versions
    BY DEF NoConfig
  <2>2. proc' \in [Procs -> ProcState]
    <3>1. [proc[p] EXCEPT !.pc = "end", !.cur = read.version, !.new = release] \in ProcState
      BY <2>1, ProcStates, ZenonT(60)
    <3>2. Off \in ProcState
      BY ProcStates
    <3> QED BY <1>2, <3>1, <3>2 DEF Script
  <2>3. updExe' \in Versions /\ fails' \in 0 .. MaxFaults
    BY <1>2 DEF Script, Download
  <2>4. missed' \in BOOLEAN
    BY <1>2 DEF Script, Download
  <2> QED BY <1>2, <2>2, <2>3, <2>4 DEF Script
<1>3. CASE ScriptFails(p)
  BY <1>3 DEF ScriptFails
<1>4. CASE End(p)
  BY <1>4 DEF End
<1>5. CASE Install(p)
  <2>1. exe' \in Versions /\ fails' \in 0 .. MaxFaults
    BY <1>5 DEF Install, Download
  <2>2. missed' \in BOOLEAN
    BY <1>5 DEF Install, Download
  <2>3. stale' \in BOOLEAN
    BY <1>5 DEF Install
  <2>4. proc' = [proc EXCEPT ![p].pc = "run"]
    BY <1>5 DEF Install
  <2> QED BY <1>5, <2>1, <2>2, <2>3, <2>4 DEF Install
<1>6. CASE Run(p)
  <2>1. daemon' \in [pc : {"off", "boot", "idle", "fetch", "save", "truncated", "check", "ended"},
                     mem : Config]
    BY <1>6 DEF Run
  <2>2. proc' \in [Procs -> ProcState]
    BY <1>6 DEF Run
  <2> QED BY <1>6, <2>1, <2>2 DEF Run
<1>7. CASE Save(p)
  BY <1>7 DEF Save
<1>8. CASE Saved(p)
  BY <1>8 DEF Saved
<1>9. CASE InstallThrows(p)
  BY <1>9 DEF InstallThrows
<1> QED BY <1>1, <1>2, <1>3, <1>4, <1>5, <1>6, <1>7, <1>8, <1>9 DEF Update

LEMMA TypeStep == TypeOK /\ [Next]_vars => TypeOK'
<1> SUFFICES ASSUME TypeOK, [Next]_vars PROVE TypeOK'
  OBVIOUS
<1>1. CASE Publish
  BY <1>1, UpdaterAssumption DEF Publish, TypeOK, Versions, history
<1>2. CASE Reboot
  <2>1. torn' \in BOOLEAN /\ halted' \in BOOLEAN
    BY <1>2 DEF Reboot
  <2>2. /\ proc' = [p \in Procs |-> Off] /\ daemon' = [daemon EXCEPT !.pc = "boot"]
        /\ fails + crashes < MaxFaults /\ crashes' = crashes + 1
        /\ UNCHANGED <<release, config, exe, updExe, fails, missed, stale, dud>>
    BY <1>2 DEF Reboot
  <2>3. proc' \in [Procs -> ProcState]
    BY <2>2, ProcStates
  <2>4. crashes' \in 0 .. MaxFaults
    BY <2>2, UpdaterAssumption DEF TypeOK
  <2> QED BY <2>1, <2>2, <2>3, <2>4 DEF TypeOK
<1>3. CASE UNCHANGED vars
  BY <1>3 DEF vars, TypeOK
<1> QED BY <1>1, <1>2, <1>3, DaemonType, UpdateType DEF Next

-----------------------------------------------------------------------------
\* The types in the form the steps below need: versions are numbers, and the
\* updaters are records.
LEMMA Numbers ==
  ASSUME TypeOK
  PROVE  /\ release \in Nat /\ exe \in Nat /\ updExe \in Nat /\ crashes \in Nat /\ fails \in Nat
         /\ config # Broken => config \in Config /\ config.version \in Nat
         /\ daemon.mem.version \in Nat /\ daemon.mem \in Config
         /\ proc \in [Procs -> ProcState]
         /\ \A p \in Procs : proc[p].new \in Nat /\ proc[p].cur \in Nat
BY UpdaterAssumption DEF TypeOK, ProcState, Versions, Config

\* The versions in files and in memory, through a step of the daemon ...
LEMMA DaemonVersions == TypeOK /\ Versioned /\ DaemonStep => Versioned'
<1> SUFFICES ASSUME TypeOK, Versioned, DaemonStep PROVE Versioned'
  OBVIOUS
<1> USE Numbers DEF Versioned, Published, NoVersionTooHigh, MemoryInstalled, Past, history
<1>1. CASE Boot
  BY <1>1 DEF Boot, TypeOK
<1>2. CASE updateSetup
  <2>1. daemon'.mem.version = daemon.mem.version
    BY <1>2 DEF updateSetup, TypeOK, Config
  <2>2. UNCHANGED <<release, config, exe, proc, missed>>
    BY <1>2 DEF updateSetup, history
  <2> QED BY <2>1, <2>2
<1>3. CASE updateSetupFails
  BY <1>3 DEF updateSetupFails, Unreachable, TypeOK
<1>4. CASE Truncate
  BY <1>4 DEF Truncate, TypeOK
<1>5. CASE Write
  BY <1>5 DEF Write, TypeOK
<1>6. CASE checkUpdate
  <2>1. \A p \in Procs : proc'[p] = proc[p] \/ (proc'[p].pc = "start" /\ proc'[p].new = 0)
    BY <1>6 DEF checkUpdate, Off
  <2>2. daemon'.mem = daemon.mem /\ UNCHANGED <<release, config, exe, missed>>
    BY <1>6 DEF checkUpdate, TypeOK
  <2> QED BY <2>1, <2>2
<1>7. CASE checkUpdateFails
  BY <1>7 DEF checkUpdateFails, Unreachable, TypeOK
<1>8. CASE fetchSetup
  <2>1. daemon'.mem.version = daemon.mem.version
    BY <1>8 DEF fetchSetup, TypeOK
  <2>2. (~missed' => ~missed) /\ UNCHANGED <<release, config, exe, proc>>
    BY <1>8 DEF fetchSetup, Download
  <2> QED BY <2>1, <2>2
<1>9. CASE fetchSetupThrows
  BY <1>9 DEF fetchSetupThrows, TypeOK
<1> QED BY <1>1, <1>2, <1>3, <1>4, <1>5, <1>6, <1>7, <1>8, <1>9 DEF DaemonStep

\* ... and of an updater.
LEMMA UpdateVersions ==
  ASSUME NEW p \in Procs PROVE TypeOK /\ Versioned /\ Update(p) => Versioned'
<1> SUFFICES ASSUME TypeOK, Versioned, Update(p) PROVE Versioned'
  OBVIOUS
<1> USE Numbers DEF Versioned, Published, NoVersionTooHigh, MemoryInstalled, Past, history, Goto, Off
<1>1. CASE Start(p)
  <2>1. proc' = [proc EXCEPT ![p] = Off] \/ proc' = [proc EXCEPT ![p].pc = "script"]
    BY <1>1 DEF Start
  <2>2. UNCHANGED <<release, config, exe, daemon, missed>>
    BY <1>1 DEF Start
  <2>3. \A q \in Procs : \/ proc'[q] = proc[q]
                         \/ proc'[q].pc = "off" /\ proc'[q].new = 0
                         \/ proc'[q].pc = "script" /\ proc'[q].new = proc[q].new
    BY <2>1 DEF ProcState
  <2> QED BY <2>2, <2>3
<1>2. CASE Script(p)
  BY <1>2 DEF Script, Download, NoConfig
<1>3. CASE ScriptFails(p)
  BY <1>3 DEF ScriptFails
<1>4. CASE End(p)
  BY <1>4 DEF End, TypeOK
<1>5. CASE Install(p)
  BY <1>5 DEF Install, Download
<1>6. CASE Run(p)
  BY <1>6 DEF Run, TypeOK
<1>7. CASE Save(p)
  BY <1>7 DEF Save
<1>8. CASE Saved(p)
  BY <1>8 DEF Saved
<1>9. CASE InstallThrows(p)
  BY <1>9 DEF InstallThrows
<1> QED BY <1>1, <1>2, <1>3, <1>4, <1>5, <1>6, <1>7, <1>8, <1>9 DEF Update

LEMMA VersionsStep == TypeOK /\ Versioned /\ [Next]_vars => Versioned'
<1> SUFFICES ASSUME TypeOK, Versioned, [Next]_vars PROVE Versioned'
  OBVIOUS
<1> USE Numbers DEF Versioned, Published, NoVersionTooHigh, MemoryInstalled, Past
<1>1. CASE Publish
  BY <1>1 DEF Publish, history
<1>2. CASE Reboot
  BY <1>2 DEF Reboot, Off, TypeOK
<1>3. CASE UNCHANGED vars
  BY <1>3 DEF vars
<1> QED BY <1>1, <1>2, <1>3, DaemonVersions, UpdateVersions DEF Next

-----------------------------------------------------------------------------
\* The config and the daemon, through a step of the daemon ...
LEMMA DaemonWrites == TypeOK /\ Written /\ DaemonStep => Written'
<1> SUFFICES ASSUME TypeOK, Written, DaemonStep PROVE Written'
  OBVIOUS
<1> USE DEF Written, BrokenMidWrite, DownOnlyTorn, MidWrite, TypeOK, history
<1>1. CASE Boot
  <2>1. torn => torn'
    BY <1>1 DEF Boot
  <2>2. config = Broken => torn'
    BY <1>1 DEF Boot
  <2> QED BY <1>1, <2>1, <2>2 DEF Boot
<1>2. CASE updateSetup
  BY <1>2 DEF updateSetup
<1>3. CASE updateSetupFails
  BY <1>3 DEF updateSetupFails, Unreachable
<1>4. CASE Truncate
  BY <1>4 DEF Truncate
<1>5. CASE Write
  BY <1>5, ConfigWhole, Numbers DEF Write
<1>6. CASE checkUpdate
  <2>1. \A p \in Procs : proc'[p] = proc[p] \/ proc[p].pc = "off"
    BY <1>6 DEF checkUpdate, Free
  <2>2. daemon.pc = "check" /\ daemon'.pc = "idle" /\ UNCHANGED <<config, torn>>
    BY <1>6 DEF checkUpdate
  <2> QED BY <2>1, <2>2
<1>7. CASE checkUpdateFails
  BY <1>7 DEF checkUpdateFails, Unreachable
<1>8. CASE fetchSetup
  BY <1>8 DEF fetchSetup
<1>9. CASE fetchSetupThrows
  BY <1>9 DEF fetchSetupThrows
<1> QED BY <1>1, <1>2, <1>3, <1>4, <1>5, <1>6, <1>7, <1>8, <1>9 DEF DaemonStep

\* ... and of an updater.
LEMMA UpdateWrites ==
  ASSUME NEW p \in Procs PROVE TypeOK /\ Written /\ Update(p) => Written'
<1> SUFFICES ASSUME TypeOK, Written, Update(p) PROVE Written'
  OBVIOUS
<1> USE Numbers DEF Written, BrokenMidWrite, DownOnlyTorn, MidWrite, history, Goto
<1>1. CASE Start(p)
  <2>1. \A q \in Procs : proc'[q] = proc[q] \/ (q = p /\ proc[q].pc = "start")
    BY <1>1 DEF Start
  <2> QED BY <1>1, <2>1 DEF Start
<1>2. CASE Script(p)
  <2>1. \A q \in Procs : proc'[q] = proc[q] \/ (q = p /\ proc[q].pc = "script")
    BY <1>2 DEF Script
  <2> QED BY <1>2, <2>1 DEF Script
<1>3. CASE ScriptFails(p)
  BY <1>3 DEF ScriptFails
<1>4. CASE End(p)
  BY <1>4 DEF End, TypeOK, ProcState
<1>5. CASE Install(p)
  BY <1>5 DEF Install, ProcState
<1>6. CASE Run(p)
  BY <1>6 DEF Run, TypeOK, ProcState
<1>7. CASE Save(p)
  BY <1>7 DEF Save, ProcState
<1>8. CASE Saved(p)
  <2>1. config' # Broken
    BY <1>8, ConfigWhole DEF Saved, Config, ProcState
  <2> QED BY <1>8, <2>1 DEF Saved
<1>9. CASE InstallThrows(p)
  BY <1>9 DEF InstallThrows
<1> QED BY <1>1, <1>2, <1>3, <1>4, <1>5, <1>6, <1>7, <1>8, <1>9 DEF Update

LEMMA WritesStep == TypeOK /\ Written /\ [Next]_vars => Written'
<1> SUFFICES ASSUME TypeOK, Written, [Next]_vars PROVE Written'
  OBVIOUS
<1> USE DEF Written, BrokenMidWrite, DownOnlyTorn, MidWrite
<1>1. CASE Publish
  BY <1>1 DEF Publish, history
<1>2. CASE Reboot
  BY <1>2 DEF Reboot, TypeOK
<1>3. CASE UNCHANGED vars
  BY <1>3 DEF vars
<1> QED BY <1>1, <1>2, <1>3, DaemonWrites, UpdateWrites DEF Next

-----------------------------------------------------------------------------
\* What the daemon knows, through a step of its own: the config it starts with
\* has the version of every updater that is under way, and so what is installed.
LEMMA DaemonKnown == TypeOK /\ Known /\ DaemonStep => Known'
<1> SUFFICES ASSUME TypeOK, Known, DaemonStep PROVE Known'
  OBVIOUS
<1> USE Numbers DEF Known, KnowsNew, KnowsInstalled, BehindOnlyMeanwhile, Running, history
<1>1. CASE Boot
  <2>1. UNCHANGED <<config, exe, proc, crashes>> /\ (~stale' => ~stale)
    BY <1>1 DEF Boot
  <2>2. CASE config = Broken
    BY <1>1, <2>1, <2>2 DEF Boot, TypeOK
  <2>3. CASE config # Broken
    <3>1. daemon'.mem = config
      BY <1>1, <2>3 DEF Boot
    <3>2. ~stale' => \A p \in Procs : proc[p].pc \in Ends => proc[p].new <= config.version
      <4>1. ~stale' => ~\E p \in Procs : /\ proc[p].pc \in Ends
                                         /\ config # Broken /\ config.version < proc[p].new
        BY <1>1, Zenon DEF Boot
      <4> QED BY <2>3, <4>1
    <3>3. ~stale' /\ crashes = 0 => exe <= config.version
      BY <2>1, <2>3, <3>2 DEF Past, Ends
    <3> QED BY <2>1, <3>1, <3>2, <3>3
  <2> QED BY <2>2, <2>3
<1>2. CASE updateSetup
  <2>1. daemon'.mem.version = daemon.mem.version /\ Running
    BY <1>2 DEF updateSetup, TypeOK, Config
  <2>2. UNCHANGED <<config, exe, proc, crashes, stale>>
    BY <1>2 DEF updateSetup
  <2> QED BY <2>1, <2>2
<1>3. CASE updateSetupFails
  BY <1>3 DEF updateSetupFails, Unreachable, TypeOK
<1>4. CASE Truncate
  BY <1>4 DEF Truncate, TypeOK
<1>5. CASE Write
  BY <1>5 DEF Write, TypeOK
<1>6. CASE checkUpdate
  <2>1. \A p \in Procs : proc'[p] = proc[p] \/ (proc[p].pc = "off" /\ proc'[p].pc = "start")
    BY <1>6 DEF checkUpdate, Off, Free
  <2>2. daemon'.mem = daemon.mem /\ Running /\ UNCHANGED <<config, exe, crashes, stale>>
    BY <1>6 DEF checkUpdate, TypeOK
  <2> QED BY <2>1, <2>2 DEF Ends, Past
<1>7. CASE checkUpdateFails
  BY <1>7 DEF checkUpdateFails, Unreachable, TypeOK
<1>8. CASE fetchSetup
  <2>1. daemon'.mem.version = daemon.mem.version /\ Running
    BY <1>8 DEF fetchSetup, TypeOK
  <2>2. UNCHANGED <<config, exe, proc, crashes, stale>>
    BY <1>8 DEF fetchSetup
  <2> QED BY <2>1, <2>2
<1>9. CASE fetchSetupThrows
  BY <1>9 DEF fetchSetupThrows, TypeOK
<1> QED BY <1>1, <1>2, <1>3, <1>4, <1>5, <1>6, <1>7, <1>8, <1>9 DEF DaemonStep

\* ... and of an updater: it ends the daemon before it installs, installs the
\* version it has read unless there is a newer one, and writes it down.
LEMMA UpdateKnown == ASSUME NEW p \in Procs PROVE TypeOK /\ Known /\ Update(p) => Known'
<1> SUFFICES ASSUME TypeOK, Known, Update(p) PROVE Known'
  OBVIOUS
<1> USE Numbers DEF Known, KnowsNew, KnowsInstalled, BehindOnlyMeanwhile, Running, history, Goto
<1>1. CASE Start(p) \/ Script(p) \/ ScriptFails(p)
  <2>1. UNCHANGED <<config, exe, daemon, crashes, stale>>
    BY <1>1 DEF Start, Script, ScriptFails
  <2>2. proc[p].pc \in {"start", "script"} /\ proc'[p].pc \in {"off", "script", "end"}
    <3>1. CASE Start(p)
      BY <3>1 DEF Start, Off, ProcState
    <3>2. CASE Script(p)
      BY <3>2 DEF Script, Off, ProcState
    <3>3. CASE ScriptFails(p)
      BY <3>3 DEF ScriptFails, Off
    <3> QED BY <1>1, <3>1, <3>2, <3>3
  <2>3. \A q \in Procs \ {p} : proc'[q] = proc[q]
    BY <1>1 DEF Start, Script, ScriptFails
  <2> QED BY <2>1, <2>2, <2>3 DEF Ends, Past
<1>2. CASE End(p)
  BY <1>2 DEF End, TypeOK, ProcState, Past
<1>3. CASE Install(p)
  <2>1. /\ proc[p].pc = "install" /\ proc'[p].pc = "run" /\ proc'[p].new = proc[p].new
        /\ \A q \in Procs \ {p} : proc'[q] = proc[q]
    BY <1>3 DEF Install, ProcState
  <2>2. UNCHANGED <<config, daemon, crashes>> /\ (~stale' => ~stale /\ release <= proc[p].new)
    <3>1. ~stale' => ~stale /\ ~(release > proc[p].new)
      BY <1>3, Zenon DEF Install
    <3> QED BY <1>3, <3>1 DEF Install
  <2>3. exe' = exe \/ exe' = release
    BY <1>3 DEF Install, Download
  <2>4. KnowsNew'
    BY <2>1, <2>2 DEF Ends
  <2>5. KnowsInstalled'
    BY <2>1, <2>2, <2>3 DEF Ends
  <2>6. BehindOnlyMeanwhile'
    BY <2>1, <2>2, <2>3 DEF Past
  <2> QED BY <2>4, <2>5, <2>6
<1>4. CASE Run(p)
  BY <1>4 DEF Run, TypeOK, ProcState, Ends, Past
<1>5. CASE Save(p)
  BY <1>5 DEF Save, ProcState, Ends
<1>6. CASE Saved(p)
  <2>1. proc'[p].pc = "off" /\ \A q \in Procs \ {p} : proc'[q] = proc[q]
    BY <1>6 DEF Saved, Off
  <2>2. UNCHANGED <<exe, daemon, crashes>> /\ (~stale' => ~stale /\ exe <= config'.version)
    <3>1. ~stale' => ~stale /\ ~(proc[p].new < exe)
      BY <1>6, Zenon DEF Saved
    <3> QED BY <1>6, <3>1 DEF Saved
  <2>3. config'.version \in Nat
    BY <1>6 DEF Saved
  <2> QED BY <2>1, <2>2, <2>3 DEF Ends
<1>7. CASE InstallThrows(p)
  <2>1. UNCHANGED <<config, exe, daemon, crashes, stale>> /\ proc[p].pc = "install"
    BY <1>7 DEF InstallThrows
  <2>2. proc'[p].pc = "off" /\ \A q \in Procs \ {p} : proc'[q] = proc[q]
    BY <1>7 DEF InstallThrows, Off
  <2> QED BY <2>1, <2>2 DEF Ends, Past
<1> QED BY <1>1, <1>2, <1>3, <1>4, <1>5, <1>6, <1>7 DEF Update

LEMMA KnownStep == TypeOK /\ Known /\ [Next]_vars => Known'
<1> SUFFICES ASSUME TypeOK, Known, [Next]_vars PROVE Known'
  OBVIOUS
<1> USE Numbers DEF Known, KnowsNew, KnowsInstalled, BehindOnlyMeanwhile, Running
<1>1. CASE Publish
  BY <1>1 DEF Publish, history
<1>2. CASE Reboot
  BY <1>2 DEF Reboot, TypeOK
<1>3. CASE UNCHANGED vars
  BY <1>3 DEF vars
<1> QED BY <1>1, <1>2, <1>3, DaemonKnown, UpdateKnown DEF Next

-----------------------------------------------------------------------------
\* The strengthened invariant holds from the first step on.
LEMMA Invariance == Spec => []IInv
<1>1. IInv /\ [Next]_vars => IInv'
  BY TypeStep, VersionsStep, WritesStep, KnownStep DEF IInv
<1> QED BY InitIInv, <1>1, PTL DEF Spec

\* The versions, the records and the flags of the updater keep their types.
THEOREM TypeCorrect == Spec => []TypeOK
<1>1. IInv => TypeOK
  BY DEF IInv
<1> QED BY Invariance, <1>1, PTL

\* The config never names a version that is not installed, wherever the
\* machine stops, unless a download failed: the updater writes its config last.
THEOREM VersionsInstalled == Spec => []NoVersionTooHigh
<1>1. IInv => NoVersionTooHigh
  BY DEF IInv, Versioned
<1> QED BY Invariance, <1>1, PTL

\* The daemon stays down only after it met a config in the middle of a write, or
\* a writer was stopped there, or the updater that ended it could not write a file
\* and ended too: otherwise an updater is about to start it.
THEOREM DownOnlyAfterTornWrite == Spec => []DownOnlyTorn
<1>1. IInv => DownOnlyTorn
  BY DEF IInv, Written
<1> QED BY Invariance, <1>1, PTL

\* checkUpdate starts no updater for a version that is installed, unless a
\* version fell behind the files or the machine stopped.
THEOREM NoUpdateAgain == Spec => AgainOnlyStale
<1> DEFINE A == (\E p \in Procs : proc[p].pc = "off" /\ proc'[p].pc = "start") /\ exe = release
                 => stale \/ crashes > 0
<1>1. IInv /\ [Next]_vars => [A]_vars
  <2> SUFFICES ASSUME IInv, [Next]_vars,
                      NEW p \in Procs, proc[p].pc = "off", proc'[p].pc = "start", exe = release
               PROVE  stale \/ crashes > 0
    OBVIOUS
  <2> USE Numbers DEF IInv
  <2>1. CASE checkUpdate
    BY <2>1 DEF checkUpdate, Newer, Known, KnowsInstalled, Running
  <2>2. CASE DaemonStep /\ ~checkUpdate
    BY <2>2 DEF DaemonStep, Boot, updateSetup, updateSetupFails, fetchSetup,
                fetchSetupThrows, Truncate, Write,
                checkUpdateFails, Unreachable
  <2>3. ASSUME NEW q \in Procs, Update(q) PROVE FALSE
    <3>1. proc[q].pc # "off" /\ \A r \in Procs \ {q} : proc'[r] = proc[r]
      BY <2>3 DEF Update, Start, Script, ScriptFails, End, Install, InstallThrows, Run, Save,
                    Saved, Goto
    <3> QED BY <3>1
  <2>4. CASE Publish \/ Reboot \/ UNCHANGED vars
    BY <2>4 DEF Publish, Reboot, vars, Off
  <2> QED BY <2>1, <2>2, <2>3, <2>4 DEF Next
<1>2. Spec => [][A]_vars
  BY Invariance, <1>1, PTL DEF Spec
<1> QED BY <1>2 DEF AgainOnlyStale
=============================================================================
