------------------------------ MODULE Session ------------------------------
(***************************************************************************)
(* A session of redan on disk and in the process table: the launcher       *)
(* (exec_detached), the daemon it spawns (run_daemon, which is exec::run in *)
(* a process of its own), the VM child that Vm::boot forks, and the        *)
(* commands a user runs beside them: stop, remove one, remove all exited.  *)
(*                                                                         *)
(* They share only files and pids.  Every file operation and every signal  *)
(* is a step, and any process may die between two of its steps.            *)
(* fs::write truncates and then writes: a file is torn in between, and the *)
(* write goes nowhere if the file has been removed meanwhile.              *)
(***************************************************************************)
EXTENDS Naturals

CONSTANTS Sid   \* session ids; new_id gives each launch a fresh one

VARIABLES
  dir,       \* the session directory exists
  config,    \* daemon_config.json, with the secret specs, is on disk
  meta,      \* meta.json
  launcher,  \* step of exec_detached
  daemon,    \* step of run_daemon and exec::run
  outcome,   \* the status exec::run is about to save
  vm,        \* the VM child
  term,      \* SIGTERM is pending for the daemon
  reused,    \* the daemon is dead and another process has its pid
  stop,      \* step of stop_session
  snap       \* what the bulk removal has listed and not yet looked at

diskVars == <<dir, config, meta>>
procVars == <<launcher, daemon, outcome, vm, term, reused>>
cmdVars  == <<stop, snap>>
vars == <<diskVars, procVars, cmdVars>>

NoMeta == [status |-> "none", pid |-> "none"]
Torn   == [status |-> "torn", pid |-> "none"]
Statuses == {"running", "finished", "failed"}   \* SessionStatus
Whole(m) == m.status \in Statuses

LauncherLive == {"start", "made", "configured", "spawned", "saving"}
DaemonLive ==
  {"start", "opened", "unlinked", "foreground", "fgSaving", "setup", "run", "ended", "finishing", "leaving"}
DaemonGone == {"exited", "failClosed", "noMeta", "killed"}

\* is_alive: /proc/<pid> exists, whoever has the pid now.
PidAlive(s, pid) == CASE pid = "daemon"   -> daemon[s] \in DaemonLive \/ reused[s]
                      [] pid = "launcher" -> launcher[s] \in LauncherLive
                      [] OTHER            -> FALSE

----------------------------------------------------------------------------
(* SessionMeta::save: create_dir_all and fs::write *)

SaveOpen(s) == /\ dir' = [dir EXCEPT ![s] = TRUE]
               /\ meta' = [meta EXCEPT ![s] = Torn]
               /\ UNCHANGED config

SaveWrite(s, m) == /\ meta' = [meta EXCEPT ![s] = IF @ = Torn THEN m ELSE @]
                   /\ UNCHANGED <<dir, config>>

RemoveDirAll(s) == /\ dir' = [dir EXCEPT ![s] = FALSE]
                   /\ config' = [config EXCEPT ![s] = FALSE]
                   /\ meta' = [meta EXCEPT ![s] = NoMeta]

----------------------------------------------------------------------------
(* The death of a process *)

\* The kernel kills a VM child that has armed PR_SET_PDEATHSIG.
OrphanedVm(s) == IF vm[s] \in {"armed", "up"} THEN "dead" ELSE vm[s]

DaemonDies(s, how) == /\ daemon' = [daemon EXCEPT ![s] = how]
                      /\ vm' = [vm EXCEPT ![s] = OrphanedVm(s)]
                      /\ term' = [term EXCEPT ![s] = FALSE]

LauncherKilled(s) ==
  /\ launcher[s] \in LauncherLive \ {"start"}
  /\ launcher' = [launcher EXCEPT ![s] = "killed"]
  /\ UNCHANGED <<diskVars, daemon, outcome, vm, term, reused, cmdVars>>

\* A crash, or a SIGKILL from anywhere.
DaemonKilled(s) ==
  /\ daemon[s] \in DaemonLive
  /\ DaemonDies(s, "killed")
  /\ UNCHANGED <<diskVars, launcher, outcome, reused, cmdVars>>

\* SIGTERM has its default action.
DaemonTerminated(s) == term[s] /\ DaemonKilled(s)

PidReused(s) ==
  /\ daemon[s] \in DaemonGone
  /\ ~reused[s]
  /\ reused' = [reused EXCEPT ![s] = TRUE]
  /\ UNCHANGED <<diskVars, launcher, daemon, outcome, vm, term, cmdVars>>

----------------------------------------------------------------------------
(* exec_detached *)

MakeDir(s) ==
  /\ launcher[s] = "start" /\ daemon[s] = "none"
  /\ launcher' = [launcher EXCEPT ![s] = "made"]
  /\ dir' = [dir EXCEPT ![s] = TRUE]
  /\ UNCHANGED <<config, meta, daemon, outcome, vm, term, reused, cmdVars>>

\* create_new and write. A write that fails half way exits without a cleanup.
WriteConfig(s) ==
  /\ launcher[s] = "made"
  /\ \/ /\ dir[s]
        /\ config' = [config EXCEPT ![s] = TRUE]
        /\ \E step \in {"configured", "failed"} : launcher' = [launcher EXCEPT ![s] = step]
     \/ /\ launcher' = [launcher EXCEPT ![s] = "failed"]
        /\ UNCHANGED config
  /\ UNCHANGED <<dir, meta, daemon, outcome, vm, term, reused, cmdVars>>

Spawn(s) ==
  /\ launcher[s] = "configured"
  /\ dir[s]
  /\ launcher' = [launcher EXCEPT ![s] = "spawned"]
  /\ daemon' = [daemon EXCEPT ![s] = "start"]
  /\ UNCHANGED <<diskVars, outcome, vm, term, reused, cmdVars>>

\* cleanup_and_exit: no executable, no log file, no process.
SpawnFails(s) ==
  /\ launcher[s] = "configured"
  /\ launcher' = [launcher EXCEPT ![s] = "failed"]
  /\ RemoveDirAll(s)
  /\ UNCHANGED <<daemon, outcome, vm, term, reused, cmdVars>>

LauncherOpen(s) ==
  /\ launcher[s] = "spawned"
  /\ SaveOpen(s)
  /\ launcher' = [launcher EXCEPT ![s] = "saving"]
  /\ UNCHANGED <<daemon, outcome, vm, term, reused, cmdVars>>

\* Mutant: the pid that SessionMeta::new put there is kept.
LauncherWrite_OwnPid(s) ==
  /\ launcher[s] = "saving"
  /\ SaveWrite(s, [status |-> "running", pid |-> "launcher"])
  /\ launcher' = [launcher EXCEPT ![s] = "done"]
  /\ UNCHANGED <<daemon, outcome, vm, term, reused, cmdVars>>

LauncherWrite(s) ==
  /\ launcher[s] = "saving"
  /\ SaveWrite(s, [status |-> "running", pid |-> "daemon"])
  /\ launcher' = [launcher EXCEPT ![s] = "done"]
  /\ UNCHANGED <<daemon, outcome, vm, term, reused, cmdVars>>

\* Only a warning: the launcher ends as usual.
LauncherSaveFails(s) ==
  /\ launcher[s] \in {"spawned", "saving"}
  /\ launcher' = [launcher EXCEPT ![s] = "warned"]
  /\ UNCHANGED <<diskVars, daemon, outcome, vm, term, reused, cmdVars>>

Launcher(s) ==
  \/ WriteConfig(s) \/ Spawn(s) \/ SpawnFails(s)
  \/ LauncherOpen(s) \/ LauncherWrite(s) \/ LauncherSaveFails(s)

----------------------------------------------------------------------------
(* run_daemon *)

OpenConfig(s) ==
  /\ daemon[s] = "start"
  /\ daemon' = [daemon EXCEPT ![s] = IF config[s] THEN "opened" ELSE "exited"]
  /\ UNCHANGED <<diskVars, launcher, outcome, vm, term, reused, cmdVars>>

\* Mutant: the file is left for somebody else to remove.
UnlinkConfig_Not(s) ==
  /\ daemon[s] = "opened"
  /\ daemon' = [daemon EXCEPT ![s] = "unlinked"]
  /\ UNCHANGED <<diskVars, launcher, outcome, vm, term, reused, cmdVars>>

\* Before the secrets are read from the open file.
UnlinkConfig(s) ==
  /\ daemon[s] = "opened"
  /\ config' = [config EXCEPT ![s] = FALSE]
  /\ daemon' = [daemon EXCEPT ![s] = "unlinked"]
  /\ UNCHANGED <<dir, meta, launcher, outcome, vm, term, reused, cmdVars>>

UnlinkFails(s) ==
  /\ daemon[s] = "opened" /\ config[s]
  /\ daemon' = [daemon EXCEPT ![s] = "failClosed"]
  /\ UNCHANGED <<diskVars, launcher, outcome, vm, term, reused, cmdVars>>

----------------------------------------------------------------------------
(* exec::run *)

\* Mutant: missing metadata is no reason to stop.
ReadMeta_Default(s) ==
  /\ daemon[s] = "unlinked"
  /\ daemon' = [daemon EXCEPT ![s] = "setup"]
  /\ UNCHANGED <<diskVars, launcher, outcome, vm, term, reused, cmdVars>>

\* A daemon reloads the metadata its launcher saves, and exits without it.
ReadMeta(s) ==
  /\ daemon[s] = "unlinked"
  /\ daemon' = [daemon EXCEPT ![s] = IF Whole(meta[s]) THEN "setup" ELSE "noMeta"]
  /\ UNCHANGED <<diskVars, launcher, outcome, vm, term, reused, cmdVars>>

\* In the foreground the process writes its metadata itself; a failure is a
\* warning.
ForegroundOpen(s) ==
  /\ daemon[s] = "foreground"
  /\ SaveOpen(s)
  /\ daemon' = [daemon EXCEPT ![s] = "fgSaving"]
  /\ UNCHANGED <<launcher, outcome, vm, term, reused, cmdVars>>

ForegroundWrite(s) ==
  /\ daemon[s] = "fgSaving"
  /\ SaveWrite(s, [status |-> "running", pid |-> "daemon"])
  /\ daemon' = [daemon EXCEPT ![s] = "setup"]
  /\ UNCHANGED <<launcher, outcome, vm, term, reused, cmdVars>>

ForegroundSaveFails(s) ==
  /\ daemon[s] \in {"foreground", "fgSaving"}
  /\ daemon' = [daemon EXCEPT ![s] = "setup"]
  /\ UNCHANGED <<diskVars, launcher, outcome, vm, term, reused, cmdVars>>

\* Vm::boot forks and returns.
Boot(s) ==
  /\ daemon[s] = "setup"
  /\ daemon' = [daemon EXCEPT ![s] = "run"]
  /\ vm' = [vm EXCEPT ![s] = "forked"]
  /\ UNCHANGED <<diskVars, launcher, outcome, term, reused, cmdVars>>

\* exit(1): a daemon config that does not parse, a bad secret, mount, forward or user, the CA,
\* the VM, the browser.
\* The metadata is not touched.
RunFails(s) ==
  /\ daemon[s] \in {"unlinked", "setup", "run"}
  /\ DaemonDies(s, "exited")
  /\ UNCHANGED <<diskVars, launcher, outcome, reused, cmdVars>>

\* Mutant: a VM child that still runs is not killed.
Shutdown_NoKill(s) ==
  /\ daemon' = [daemon EXCEPT ![s] = "ended"]
  /\ \E code \in {"finished", "failed"} : outcome' = [outcome EXCEPT ![s] = code]
  /\ UNCHANGED <<diskVars, launcher, vm, term, reused, cmdVars>>

\* Vm::shutdown after proxy::run has returned: reap the child, or kill it first.
\* A child that is about to exit may do so before the SIGKILL, with any code.
Shutdown(s) ==
  /\ daemon' = [daemon EXCEPT ![s] = "ended"]
  /\ \E code \in {"finished", "failed"} : outcome' = [outcome EXCEPT ![s] = code]
  /\ vm' = [vm EXCEPT ![s] = "dead"]
  /\ UNCHANGED <<diskVars, launcher, term, reused, cmdVars>>

GuestGone(s) == daemon[s] = "run" /\ vm[s] = "dead" /\ Shutdown(s)
Timeout(s)   == daemon[s] = "run" /\ vm[s] # "dead" /\ Shutdown(s)

FinishOpen(s) ==
  /\ daemon[s] = "ended"
  /\ SaveOpen(s)
  /\ daemon' = [daemon EXCEPT ![s] = "finishing"]
  /\ UNCHANGED <<launcher, outcome, vm, term, reused, cmdVars>>

FinishWrite(s) ==
  /\ daemon[s] = "finishing"
  /\ SaveWrite(s, [status |-> outcome[s], pid |-> "daemon"])
  /\ daemon' = [daemon EXCEPT ![s] = "leaving"]
  /\ UNCHANGED <<launcher, outcome, vm, term, reused, cmdVars>>

\* `let _ = self.save()`
FinishFails(s) ==
  /\ daemon[s] \in {"ended", "finishing"}
  /\ daemon' = [daemon EXCEPT ![s] = "leaving"]
  /\ UNCHANGED <<diskVars, launcher, outcome, vm, term, reused, cmdVars>>

Exit(s) ==
  /\ daemon[s] = "leaving"
  /\ DaemonDies(s, "exited")
  /\ UNCHANGED <<diskVars, launcher, outcome, reused, cmdVars>>

Daemon(s) ==
  \/ OpenConfig(s) \/ UnlinkConfig(s) \/ UnlinkFails(s) \/ ReadMeta(s)
  \/ ForegroundOpen(s) \/ ForegroundWrite(s) \/ ForegroundSaveFails(s)
  \/ Boot(s) \/ GuestGone(s) \/ FinishOpen(s) \/ FinishWrite(s) \/ FinishFails(s)
  \/ Exit(s)

----------------------------------------------------------------------------
(* The VM child between fork and krun_start_enter *)

VmArm(s) ==
  /\ vm[s] = "forked"
  /\ \E step \in {"armed", "dead"} : vm' = [vm EXCEPT ![s] = step]
  /\ UNCHANGED <<diskVars, launcher, daemon, outcome, term, reused, cmdVars>>

\* Mutant: the parent is taken to be there still.
VmCheckParent_Not(s) ==
  /\ vm[s] = "armed"
  /\ vm' = [vm EXCEPT ![s] = "up"]
  /\ UNCHANGED <<diskVars, launcher, daemon, outcome, term, reused, cmdVars>>

\* getppid, after prctl: the parent may have died before the signal was armed.
VmCheckParent(s) ==
  /\ vm[s] = "armed"
  /\ vm' = [vm EXCEPT ![s] = IF daemon[s] \in DaemonLive THEN "up" ELSE "dead"]
  /\ UNCHANGED <<diskVars, launcher, daemon, outcome, term, reused, cmdVars>>

VmExits(s) ==
  /\ vm[s] = "up"
  /\ vm' = [vm EXCEPT ![s] = "dead"]
  /\ UNCHANGED <<diskVars, launcher, daemon, outcome, term, reused, cmdVars>>

----------------------------------------------------------------------------
(* stop_session *)

FindToStop(s) ==
  /\ stop[s] \in {"idle", "error"}
  /\ Whole(meta[s]) /\ PidAlive(s, meta[s].pid)
  /\ stop' = [stop EXCEPT ![s] = "found"]
  /\ UNCHANGED <<diskVars, procVars, snap>>

\* A pid that is gone by now, or another user's, ends the command with an error.
SendTerm(s) ==
  /\ stop[s] = "found"
  /\ term' = [term EXCEPT ![s] = daemon[s] \in DaemonLive]
  /\ \/ PidAlive(s, "daemon") /\ stop' = [stop EXCEPT ![s] = "waiting"]
     \/ daemon[s] \notin DaemonLive /\ stop' = [stop EXCEPT ![s] = "error"]
  /\ UNCHANGED <<diskVars, launcher, daemon, outcome, vm, reused, snap>>

SeesExit(s) ==
  /\ stop[s] = "waiting"
  /\ ~PidAlive(s, "daemon")
  /\ stop' = [stop EXCEPT ![s] = "stopped"]
  /\ UNCHANGED <<diskVars, procVars, snap>>

\* Mutant: after thirty polls the session is taken for stopped.
SendKill_Not(s) ==
  /\ stop[s] = "waiting"
  /\ stop' = [stop EXCEPT ![s] = "stopped"]
  /\ UNCHANGED <<diskVars, procVars, snap>>

\* Thirty polls have seen the pid alive.
SendKill(s) ==
  /\ stop[s] = "waiting"
  /\ stop' = [stop EXCEPT ![s] = "stopped"]
  /\ IF daemon[s] \in DaemonLive THEN DaemonDies(s, "killed") ELSE UNCHANGED <<daemon, vm, term>>
  /\ UNCHANGED <<diskVars, launcher, outcome, reused, snap>>

----------------------------------------------------------------------------
(* sessions remove *)

\* By id, whether or not the session runs.
RemoveOne(s) ==
  /\ dir[s]
  /\ RemoveDirAll(s)
  /\ UNCHANGED <<procVars, cmdVars>>

\* Without an id: list_sessions reads every meta.json that parses, and each is
\* judged later by the status read and the pid's state at that moment.
List ==
  /\ \A s \in Sid : snap[s] = NoMeta
  /\ \E s \in Sid : Whole(meta[s])
  /\ snap' = [s \in Sid |-> IF Whole(meta[s]) THEN meta[s] ELSE NoMeta]
  /\ UNCHANGED <<diskVars, procVars, stop>>

IsDead(s) == snap[s].status \in {"finished", "failed"} \/ ~PidAlive(s, snap[s].pid)

RemoveDead(s) ==
  /\ snap[s] # NoMeta
  /\ snap' = [snap EXCEPT ![s] = NoMeta]
  /\ IF IsDead(s) THEN RemoveDirAll(s) ELSE UNCHANGED diskVars
  /\ UNCHANGED <<procVars, stop>>

----------------------------------------------------------------------------
Foreground(s) ==
  /\ launcher[s] = "start" /\ daemon[s] = "none"
  /\ launcher' = [launcher EXCEPT ![s] = "none"]
  /\ daemon' = [daemon EXCEPT ![s] = "foreground"]
  /\ UNCHANGED <<diskVars, outcome, vm, term, reused, cmdVars>>

Init ==
  /\ dir = [s \in Sid |-> FALSE]
  /\ config = [s \in Sid |-> FALSE]
  /\ meta = [s \in Sid |-> NoMeta]
  /\ launcher = [s \in Sid |-> "start"]
  /\ daemon = [s \in Sid |-> "none"]
  /\ outcome = [s \in Sid |-> "running"]
  /\ vm = [s \in Sid |-> "none"]
  /\ term = [s \in Sid |-> FALSE]
  /\ reused = [s \in Sid |-> FALSE]
  /\ stop = [s \in Sid |-> "idle"]
  /\ snap = [s \in Sid |-> NoMeta]

Step(s) ==
  \/ MakeDir(s) \/ Foreground(s)
  \/ Launcher(s) \/ Daemon(s) \/ RunFails(s) \/ Timeout(s)
  \/ VmArm(s) \/ VmCheckParent(s) \/ VmExits(s)
  \/ LauncherKilled(s) \/ DaemonKilled(s) \/ DaemonTerminated(s) \/ PidReused(s)
  \/ FindToStop(s) \/ SendTerm(s) \/ SeesExit(s) \/ SendKill(s)
  \/ RemoveOne(s) \/ RemoveDead(s)

Next == List \/ \E s \in Sid : Step(s)

Spec == Init /\ [][Next]_vars

\* A process that can step does, and a signal arrives. When a guest ends, when a
\* proxy times out and what a user types is not assumed.
Fairness ==
  \A s \in Sid :
    /\ WF_vars(Launcher(s)) /\ WF_vars(Daemon(s))
    /\ WF_vars(VmArm(s) \/ VmCheckParent(s))
    /\ WF_vars(DaemonTerminated(s))

FairSpec == Spec /\ Fairness

----------------------------------------------------------------------------
(* Properties *)

SessionTypeOK ==
  /\ dir \in [Sid -> BOOLEAN] /\ config \in [Sid -> BOOLEAN]
  /\ meta \in [Sid -> [status : Statuses, pid : {"daemon"}] \cup {NoMeta, Torn}]
  /\ launcher \in [Sid -> LauncherLive \cup {"none", "done", "warned", "failed", "killed"}]
  /\ daemon \in [Sid -> DaemonLive \cup DaemonGone \cup {"none"}]
  /\ outcome \in [Sid -> Statuses]
  /\ vm \in [Sid -> {"none", "forked", "armed", "up", "dead"}]
  /\ term \in [Sid -> BOOLEAN] /\ reused \in [Sid -> BOOLEAN]
  /\ stop \in [Sid -> {"idle", "found", "waiting", "stopped", "error"}]
  /\ snap \in [Sid -> [status : Statuses, pid : {"daemon"}] \cup {NoMeta}]
  /\ \A s \in Sid : config[s] \/ meta[s] # NoMeta => dir[s]

\* A status of finished or failed on disk means the VM is no more: exec::run
\* saves it after Vm::shutdown has reaped the child, whoever stops or kills it.
FinalMeansGone ==
  \A s \in Sid : meta[s].status \in {"finished", "failed"} => vm[s] = "dead"

\* "session stopped" or "killed" is only said of a session whose daemon is dead,
\* also when the pid has gone to another process in the meantime.
StopStops == \A s \in Sid : stop[s] = "stopped" => daemon[s] \notin DaemonLive

\* A final status is never overwritten, only removed: the launcher's save and the
\* daemon's are kept apart by the daemon's reading the first before it goes on.
StatusFinal ==
  [][ \A s \in Sid : meta[s].status \in {"finished", "failed"}
                       => meta'[s] \in {meta[s], NoMeta} ]_vars

\* "Remove all exited sessions" takes no directory from a daemon that still has
\* work to do in it, although it judges by what it read before.
SweepSparesLive ==
  [][ \A s \in Sid : snap[s] # NoMeta /\ snap'[s] = NoMeta /\ dir[s] /\ ~dir'[s]
                       => daemon[s] \notin DaemonLive \ {"leaving"} ]_vars

\* "Die with the parent so VMs are never orphaned": whenever a daemon ends, by
\* itself or by a signal, and at whatever step of the child's start, the VM ends
\* (vm.rs:118-133; the comment at cmd/exec.rs:325 has it orphaned instead).
VmNotOrphaned ==
  \A s \in Sid : daemon[s] \in DaemonGone ~> vm[s] \in {"none", "dead"}

\* The secret specs leave the disk soon after the launch, unless the launcher
\* does not come to spawn the daemon, or the daemon is killed before its unlink
\* or cannot unlink (and then goes no further with them).
SecretsOffDisk ==
  \A s \in Sid : config[s] ~> \/ ~config[s]
                              \/ launcher[s] \in {"failed", "killed"}
                              \/ daemon[s] \in {"killed", "failClosed"}

----------------------------------------------------------------------------
(* What the comments say *)

\* "reload existing metadata (written by exec_detached)" (exec::run): a daemon
\* does not give up on metadata its launcher has yet to write.
MetadataExists ==
  \A s \in Sid : daemon[s] = "noMeta" => launcher[s] \notin {"spawned", "saving"}
=============================================================================
