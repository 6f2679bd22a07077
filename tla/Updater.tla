------------------------------ MODULE Updater -------------------------------
(***************************************************************************)
(* How the daemon is kept up to date: the update thread of Daemon.hx, the  *)
(* separate program DaemonUpdate.hx that it starts, and the file           *)
(* daemon-config.txt that both write as a whole.  The script daemon.meta   *)
(* of the server is modelled by the lines that matter: the version of the  *)
(* updater, the end of the daemon, the files to install, the start of the  *)
(* daemon, the new version.  A release of the server has all its files in  *)
(* one version.  The scheduler that ends and starts the daemon, and the    *)
(* server, are not part of the repository.                                 *)
(***************************************************************************)
EXTENDS Integers, FiniteSets

CONSTANTS Procs,        \* updater processes that may run at a time
          Broken,       \* a daemon-config.txt that has been truncated
          MaxRelease,   \* bound on the releases of the server
          MaxFaults     \* bound on the exchanges that fail and the reboots

ASSUME UpdaterAssumption ==
  /\ IsFiniteSet(Procs) /\ MaxFaults \in Nat
  /\ MaxRelease \in Nat \ {0} /\ Broken \notin [version : Nat, upd : Nat]

VARIABLES release,   \* the version on the server
          config,    \* daemon-config.txt: version and upd-version
          exe,       \* the version of Daemon.exe and its libraries
          updExe,    \* the version of DaemonUpdate.exe
          daemon,    \* the daemon: its step and its daemonConf
          proc,      \* the updaters: step, its own version, what it has read
          fails, crashes,
          missed,    \* a download has failed (history)
          torn,      \* a writer was killed, or a daemon started, in the middle of a
                     \* write (history)
          stale,     \* a version fell behind the files, see Boot, Install, Saved (history)
          halted,    \* an updater ended on a file it could not write, and nothing has
                     \* started the daemon since (history)
          dud        \* the last check started no updater for a newer version (history)

vars == <<release, config, exe, updExe, daemon, proc, fails, crashes, missed, torn, stale,
          halted, dud>>

Versions == 0 .. MaxRelease
Config   == [version : Versions, upd : Versions]
NoConfig == [version |-> 0, upd |-> 0]

\* The steps of an updater between the end of the daemon and its own.
Ends == {"install", "run", "save", "truncated"}

Off == [pc |-> "off", own |-> 0, cur |-> 0, new |-> 0]

\* The processes that have truncated the config and not yet written it.
MidWrite == daemon.pc = "truncated" \/ \E p \in Procs : proc[p].pc = "truncated"

\* Initially everything is at the version of the server.
Init ==
  /\ release = 1 /\ config = [version |-> 1, upd |-> 1] /\ exe = 1 /\ updExe = 1
  /\ daemon = [pc |-> "idle", mem |-> config]
  /\ proc = [p \in Procs |-> Off]
  /\ fails = 0 /\ crashes = 0
  /\ missed = FALSE /\ torn = FALSE /\ stale = FALSE /\ halted = FALSE /\ dud = FALSE

history == <<missed, torn, stale, halted, dud>>

(***************************************************************************)
(* The daemon                                                              *)
(***************************************************************************)
\* main reads the config, while the updater may be about to replace the
\* version in it, and ends if there is no user in it.
Boot ==
  /\ daemon.pc = "boot"
  /\ daemon' = IF config = Broken THEN [daemon EXCEPT !.pc = "off"]
                                  ELSE [pc |-> "idle", mem |-> config]
  /\ torn' = (torn \/ (config = Broken /\ MidWrite))
  /\ stale' = (stale \/ \E p \in Procs : /\ proc[p].pc \in Ends
                                         /\ config # Broken /\ config.version < proc[p].new)
  /\ UNCHANGED <<release, config, exe, updExe, proc, fails, crashes, missed, halted, dud>>

\* A step fails: the server is not found, or the thread ends on an exception (an
\* exchange cut off, a file that cannot be written).
Unreachable(pc) ==
  /\ fails + crashes < MaxFaults /\ fails' = fails + 1
  /\ daemon' \in {[daemon EXCEPT !.pc = pc], [daemon EXCEPT !.pc = "ended"]}
  /\ UNCHANGED <<release, config, exe, updExe, proc, crashes, history>>

\* A download that fails is only traced.
Download(file) ==
  \/ file' = release /\ UNCHANGED <<fails, missed>>
  \/ /\ fails + crashes < MaxFaults /\ fails' = fails + 1
     /\ missed' = TRUE /\ UNCHANGED file

\* The new version of the updater is not put down.
updateSetupUnrecorded ==
  /\ daemon.pc = "idle"
  /\ daemon' = [daemon EXCEPT !.pc = IF release > daemon.mem.upd THEN "fetch" ELSE "save"]
  /\ UNCHANGED <<release, config, exe, updExe, proc, fails, crashes, history>>

\* updateSetupFrom fetches the script.  The version of the updater it returns is
\* put down here: nothing reads it before the config is written.
updateSetup ==
  /\ daemon.pc = "idle"
  /\ daemon' = [daemon EXCEPT !.pc = IF release > daemon.mem.upd THEN "fetch" ELSE "save",
                              !.mem.upd = release]
  /\ UNCHANGED <<release, config, exe, updExe, proc, fails, crashes, history>>

updateSetupFails == daemon.pc = "idle" /\ Unreachable("save")

\* It fetches the updater, as the server has it by now.
fetchSetup ==
  /\ daemon.pc = "fetch" /\ Download(updExe)
  /\ daemon' = [daemon EXCEPT !.pc = "save"]
  /\ UNCHANGED <<release, config, exe, proc, crashes, torn, stale, halted, dud>>

\* The updater's file cannot be written, for instance while it runs.
fetchSetupThrows ==
  /\ daemon.pc = "fetch" /\ fails + crashes < MaxFaults /\ fails' = fails + 1
  /\ daemon' = [daemon EXCEPT !.pc = "ended"]
  /\ UNCHANGED <<release, config, exe, updExe, proc, crashes, history>>

\* daemonConf.writeFile empties the file and fills it.
Truncate ==
  /\ daemon.pc = "save"
  /\ config' = Broken /\ daemon' = [daemon EXCEPT !.pc = "truncated"]
  /\ UNCHANGED <<release, exe, updExe, proc, fails, crashes, history>>

Write ==
  /\ daemon.pc = "truncated"
  /\ config' = daemon.mem /\ daemon' = [daemon EXCEPT !.pc = "check"]
  /\ UNCHANGED <<release, exe, updExe, proc, fails, crashes, history>>

\* The updater is started whether there is a new version or not.
NewerOrNot(v) == TRUE

\* checkUpdate compares the versions of the server and of the config.
Newer(v) == release > v

Free == {p \in Procs : proc[p].pc = "off"}

\* A new version starts the updater as it is on the disk; or the command, whose
\* result nobody looks at, starts nothing.
checkUpdate ==
  /\ daemon.pc = "check"
  /\ \/ /\ Newer(daemon.mem.version) /\ Free # {} /\ dud' = FALSE
        /\ proc' = [proc EXCEPT ![CHOOSE p \in Free : TRUE] =
                                  [Off EXCEPT !.pc = "start", !.own = updExe]]
     \/ Newer(daemon.mem.version) /\ dud' = TRUE /\ UNCHANGED proc
     \/ ~Newer(daemon.mem.version) /\ dud' = FALSE /\ UNCHANGED proc
  /\ daemon' = [daemon EXCEPT !.pc = "idle"]
  /\ UNCHANGED <<release, config, exe, updExe, fails, crashes, missed, torn, stale, halted>>

checkUpdateFails == daemon.pc = "check" /\ Unreachable("idle")

(***************************************************************************)
(* DaemonUpdate                                                            *)
(***************************************************************************)
Goto(p, pc) == proc' = [proc EXCEPT ![p].pc = pc]

\* main reads the config and ends if there is no user in it.
Start(p) ==
  /\ proc[p].pc = "start"
  /\ IF config = Broken THEN proc' = [proc EXCEPT ![p] = Off] ELSE Goto(p, "script")
  /\ UNCHANGED <<release, config, exe, updExe, daemon, fails, crashes, history>>

\* It reads the config again and fetches the script.  Without a version it
\* installs the updater; with an updater that is older than the script's it ends.
Script(p) ==
  LET read == IF config = Broken THEN NoConfig ELSE config
  IN /\ proc[p].pc = "script"
     /\ \/ read.version = 0 /\ Download(updExe)
        \/ read.version # 0 /\ UNCHANGED <<updExe, fails, missed>>
     /\ proc' = [proc EXCEPT ![p] =
                   IF release > read.upd THEN Off
                   ELSE [@ EXCEPT !.pc = "end", !.cur = read.version, !.new = release]]
     /\ UNCHANGED <<release, config, exe, daemon, crashes, torn, stale, halted, dud>>

\* Any exception up to here ends the updater.
ScriptFails(p) ==
  /\ proc[p].pc = "script" /\ fails + crashes < MaxFaults /\ fails' = fails + 1
  /\ proc' = [proc EXCEPT ![p] = Off]
  /\ UNCHANGED <<release, config, exe, updExe, daemon, crashes, history>>

\* The task is ended, wherever its threads are.
End(p) ==
  /\ proc[p].pc = "end" /\ Goto(p, "install")
  /\ daemon' = [daemon EXCEPT !.pc = "off"]
  /\ torn' = (torn \/ daemon.pc = "truncated")
  /\ UNCHANGED <<release, config, exe, updExe, fails, crashes, missed, stale, halted, dud>>

\* The files that are newer than the version in the config are installed, as
\* the server has them by now.
Install(p) ==
  /\ proc[p].pc = "install" /\ Goto(p, "run")
  /\ \/ proc[p].new > proc[p].cur /\ Download(exe)
     \/ proc[p].new <= proc[p].cur /\ UNCHANGED <<exe, fails, missed>>
  /\ stale' = (stale \/ release > proc[p].new)
  /\ UNCHANGED <<release, config, updExe, daemon, crashes, torn, halted, dud>>

\* A file cannot be written: the updater ends before it starts the daemon again.
InstallThrows(p) ==
  /\ proc[p].pc = "install" /\ proc[p].new > proc[p].cur
  /\ fails + crashes < MaxFaults /\ fails' = fails + 1
  /\ proc' = [proc EXCEPT ![p] = Off] /\ halted' = TRUE
  /\ UNCHANGED <<release, config, exe, updExe, daemon, crashes, missed, torn, stale, dud>>

\* The task is not started again.
RunNothing(p) ==
  /\ proc[p].pc = "run" /\ Goto(p, "save")
  /\ UNCHANGED <<release, config, exe, updExe, daemon, fails, crashes, history>>

\* The task is started unless it runs.
Run(p) ==
  /\ proc[p].pc = "run" /\ Goto(p, "save")
  /\ daemon' = IF daemon.pc = "off" THEN [daemon EXCEPT !.pc = "boot"] ELSE daemon
  /\ halted' = FALSE
  /\ UNCHANGED <<release, config, exe, updExe, fails, crashes, missed, torn, stale, dud>>

\* main ends by writing the config.
Save(p) ==
  /\ proc[p].pc = "save" /\ Goto(p, "truncated") /\ config' = Broken
  /\ UNCHANGED <<release, exe, updExe, daemon, fails, crashes, history>>

\* The version is taken from the server once more.
SavedLatest(p) ==
  /\ proc[p].pc = "truncated"
  /\ config' = [version |-> release, upd |-> proc[p].own]
  /\ proc' = [proc EXCEPT ![p] = Off]
  /\ stale' = (stale \/ proc[p].new < exe)
  /\ UNCHANGED <<release, exe, updExe, daemon, fails, crashes, missed, torn, halted, dud>>

\* The version is that of the script; a slower updater may have an older one.
Saved(p) ==
  /\ proc[p].pc = "truncated"
  /\ config' = [version |-> proc[p].new, upd |-> proc[p].own]
  /\ proc' = [proc EXCEPT ![p] = Off]
  /\ stale' = (stale \/ proc[p].new < exe)
  /\ UNCHANGED <<release, exe, updExe, daemon, fails, crashes, missed, torn, halted, dud>>

(***************************************************************************)
(* The server and the machine                                              *)
(***************************************************************************)
Publish ==
  /\ release < MaxRelease /\ release' = release + 1
  /\ UNCHANGED <<config, exe, updExe, daemon, proc, fails, crashes, history>>

\* Everything stops and the daemon is started with the machine.
Reboot ==
  /\ fails + crashes < MaxFaults /\ crashes' = crashes + 1
  /\ daemon' = [daemon EXCEPT !.pc = "boot"]
  /\ proc' = [p \in Procs |-> Off]
  /\ torn' = (torn \/ MidWrite) /\ halted' = FALSE
  /\ UNCHANGED <<release, config, exe, updExe, fails, missed, stale, dud>>

DaemonStep == \/ Boot \/ updateSetup \/ updateSetupFails \/ fetchSetup \/ fetchSetupThrows
              \/ Truncate \/ Write \/ checkUpdate \/ checkUpdateFails
Update(p)  == \/ Start(p) \/ Script(p) \/ ScriptFails(p) \/ End(p) \/ Install(p)
              \/ InstallThrows(p) \/ Run(p) \/ Save(p) \/ Saved(p)

Next == DaemonStep \/ (\E p \in Procs : Update(p)) \/ Publish \/ Reboot

Spec == Init /\ [][Next]_vars

\* The timer of the update thread goes on, and a program that was started runs.
\* Updaters do not meet the daemon's write, a moment in half a minute, for ever.
FairSpec ==
  /\ Spec /\ WF_vars(DaemonStep)
  /\ \A p \in Procs : /\ WF_vars(Update(p))
                       /\ SF_vars(config # Broken /\ Start(p))
                       /\ SF_vars(config # Broken /\ Script(p))
-----------------------------------------------------------------------------
ProcState == [pc : {"off", "start", "script", "end"} \cup Ends,
              own : Versions, cur : Versions, new : Versions]

TypeOK ==
  /\ {release, exe, updExe} \subseteq Versions
  /\ config \in Config \cup {Broken}
  /\ daemon \in [pc : {"off", "boot", "idle", "fetch", "save", "truncated", "check", "ended"},
                 mem : Config]
  /\ proc \in [Procs -> ProcState]
  /\ fails \in 0 .. MaxFaults /\ crashes \in 0 .. MaxFaults
  /\ missed \in BOOLEAN /\ torn \in BOOLEAN /\ stale \in BOOLEAN
  /\ halted \in BOOLEAN /\ dud \in BOOLEAN

\* The config never names a version that is not installed, whenever the
\* machine stops, unless a download failed: nobody looks at that.
NoVersionTooHigh == config # Broken /\ ~missed => config.version <= exe

\* The daemon stays down only if it was started while there was no config: it
\* or another writer was stopped in the middle of a write, or another updater
\* is writing; or the updater that ended it could not write a file and ended too.
DownOnlyTorn ==
  daemon.pc = "off" => torn \/ halted \/ \E p \in Procs : proc[p].pc \in {"install", "run"}

\* An updater is started for a version that is installed already only after a
\* daemon had read the config before the updater that started it wrote the new
\* version there, which the daemon then writes back; or after the server had a
\* new release between the script and the files of an update, or an older
\* updater was the last to write, or the machine stopped.
AgainOnlyStale ==
  [][(\E p \in Procs : proc[p].pc = "off" /\ proc'[p].pc = "start") /\ exe = release
       => stale \/ crashes > 0]_vars

\* A release that is the last is there in the end, unless a download of it
\* failed, or the daemon is down or its update thread has ended.
Current == exe = release \/ missed \/ daemon.pc \in {"off", "ended"}

\* It is, provided that the command that starts the updater (Daemon.hx:416,
\* "Not Working") does not start nothing at every check from some time on.
InstalledIfStarted == []<>~dud => <>[]Current
=============================================================================
