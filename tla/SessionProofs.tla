--------------------------- MODULE SessionProofs ---------------------------
(***************************************************************************)
(* The safety properties of Session, for any set of sessions.              *)
(*                                                                         *)
(* Why they hold is a matter of who may write meta.json when.  Begun says  *)
(* that nothing but a launcher acts before the daemon exists, LauncherFirst *)
(* that the launcher's save ends before the daemon gets past its read of   *)
(* the file, and FinalIsLast that a final status is the daemon's last word. *)
(***************************************************************************)
EXTENDS Session, TLAPS

Final == {"finished", "failed"}
Done == DaemonGone \cup {"leaving"}

\* No metadata, listing or stop comes before the daemon.
Begun ==
  \A s \in Sid :
    /\ launcher[s] \in {"start", "made", "configured"} => daemon[s] = "none"
    /\ launcher[s] \in {"spawned", "saving"} => daemon[s] # "none"
    /\ meta[s] # NoMeta => daemon[s] # "none"
    /\ stop[s] # "idle" => daemon[s] # "none"

\* While the launcher has its save before it, the daemon cannot have read it.
LauncherFirst ==
  \A s \in Sid :
    launcher[s] \in {"spawned", "saving"} =>
      /\ daemon[s] \in {"start", "opened", "unlinked"} \cup DaemonGone
      /\ meta[s] \in {NoMeta, Torn}

\* After a final status, on disk or in a listing, the daemon only exits.
FinalIsLast ==
  \A s \in Sid :
    /\ meta[s].status \in Final => daemon[s] \in Done
    /\ snap[s].status \in Final => daemon[s] \in Done

\* The VM is reaped before the status is saved.
ReapedFirst ==
  \A s \in Sid : daemon[s] \in {"ended", "finishing", "leaving"} => vm[s] = "dead"

SessionInv ==
  /\ SessionTypeOK
  /\ Begun
  /\ LauncherFirst
  /\ FinalIsLast
  /\ ReapedFirst
  /\ FinalMeansGone
  /\ StopStops

\* Every step keeps the types, and a file only where there is a directory.
LEMMA TypeStep ==
  ASSUME SessionInv, [Next]_vars
  PROVE  SessionTypeOK'
<1> USE DEF SessionInv, SessionTypeOK, Final, Torn, NoMeta, Statuses, LauncherLive, DaemonLive,
          DaemonGone, vars, diskVars, procVars, cmdVars
<1>1. CASE UNCHANGED vars
  BY <1>1 DEF vars, diskVars, procVars, cmdVars
<1>2. CASE List
  BY <1>2 DEF List, Whole, procVars, diskVars
<1>3. ASSUME NEW s \in Sid, Step(s)
      PROVE  SessionTypeOK'
  <2>1. CASE MakeDir(s)
    BY <1>3, <2>1 DEF MakeDir
  <2>2. CASE Foreground(s)
    BY <1>3, <2>2 DEF Foreground
  <2>3. CASE WriteConfig(s)
    <3>1. CASE dir[s] /\ config' = [config EXCEPT ![s] = TRUE]
      <4>1. \E step \in {"configured", "failed"} : launcher' = [launcher EXCEPT ![s] = step]
        BY <1>3, <2>3, <3>1 DEF WriteConfig
      <4>2. config' \in [Sid -> BOOLEAN]
        BY <1>3, <3>1
      <4>3. \A t \in Sid : config'[t] => t = s \/ config[t]
        BY <1>3, <3>1
      <4>4. UNCHANGED <<dir, meta, daemon, outcome, vm, term, reused, cmdVars>>
        BY <2>3 DEF WriteConfig
      <4> QED
        BY <1>3, <3>1, <4>1, <4>2, <4>3, <4>4
    <3>2. CASE launcher' = [launcher EXCEPT ![s] = "failed"] /\ UNCHANGED config
      BY <1>3, <2>3, <3>2 DEF WriteConfig
    <3> QED
      BY <2>3, <3>1, <3>2 DEF WriteConfig
  <2>4. CASE Spawn(s)
    BY <1>3, <2>4 DEF Spawn
  <2>5. CASE SpawnFails(s)
    BY <1>3, <2>5 DEF SpawnFails, RemoveDirAll
  <2>6. CASE LauncherOpen(s)
    BY <1>3, <2>6 DEF LauncherOpen, SaveOpen
  <2>7. CASE LauncherWrite(s)
    BY <1>3, <2>7 DEF LauncherWrite, SaveWrite
  <2>8. CASE LauncherSaveFails(s)
    BY <1>3, <2>8 DEF LauncherSaveFails
  <2>9. CASE OpenConfig(s)
    BY <1>3, <2>9 DEF OpenConfig
  <2>10. CASE UnlinkConfig(s)
    BY <1>3, <2>10 DEF UnlinkConfig
  <2>11. CASE UnlinkFails(s)
    BY <1>3, <2>11 DEF UnlinkFails
  <2>12. CASE ReadMeta(s)
    BY <1>3, <2>12 DEF ReadMeta, Whole
  <2>13. CASE ForegroundOpen(s)
    BY <1>3, <2>13 DEF ForegroundOpen, SaveOpen
  <2>14. CASE ForegroundWrite(s)
    BY <1>3, <2>14 DEF ForegroundWrite, SaveWrite
  <2>15. CASE ForegroundSaveFails(s)
    BY <1>3, <2>15 DEF ForegroundSaveFails
  <2>16. CASE Boot(s)
    BY <1>3, <2>16 DEF Boot
  <2>17. CASE GuestGone(s)
    BY <1>3, <2>17 DEF GuestGone, Shutdown
  <2>18. CASE FinishOpen(s)
    BY <1>3, <2>18 DEF FinishOpen, SaveOpen
  <2>19. CASE FinishWrite(s)
    BY <1>3, <2>19 DEF FinishWrite, SaveWrite
  <2>20. CASE FinishFails(s)
    BY <1>3, <2>20 DEF FinishFails
  <2>21. CASE Exit(s)
    BY <1>3, <2>21 DEF Exit, DaemonDies, OrphanedVm
  <2>22. CASE RunFails(s)
    BY <1>3, <2>22 DEF RunFails, DaemonDies, OrphanedVm
  <2>23. CASE Timeout(s)
    BY <1>3, <2>23 DEF Timeout, Shutdown
  <2>24. CASE VmArm(s)
    BY <1>3, <2>24 DEF VmArm
  <2>25. CASE VmCheckParent(s)
    BY <1>3, <2>25 DEF VmCheckParent
  <2>26. CASE VmExits(s)
    BY <1>3, <2>26 DEF VmExits
  <2>27. CASE LauncherKilled(s)
    BY <1>3, <2>27 DEF LauncherKilled
  <2>28. CASE DaemonKilled(s)
    BY <1>3, <2>28 DEF DaemonKilled, DaemonDies, OrphanedVm
  <2>29. CASE DaemonTerminated(s)
    BY <1>3, <2>29 DEF DaemonTerminated, DaemonKilled, DaemonDies, OrphanedVm
  <2>30. CASE PidReused(s)
    BY <1>3, <2>30 DEF PidReused
  <2>31. CASE FindToStop(s)
    BY <1>3, <2>31 DEF FindToStop, Whole, PidAlive
  <2>32. CASE SendTerm(s)
    <3>1. term' \in [Sid -> BOOLEAN]
      <4> DEFINE b == daemon[s] \in DaemonLive
      <4>1. b \in BOOLEAN
        OBVIOUS
      <4>2. term' = [term EXCEPT ![s] = b]
        BY <2>32 DEF SendTerm
      <4> HIDE DEF b
      <4> QED
        BY <4>1, <4>2
    <3>2. stop' = [stop EXCEPT ![s] = "waiting"] \/ stop' = [stop EXCEPT ![s] = "error"]
      BY <2>32 DEF SendTerm
    <3>3. UNCHANGED <<diskVars, launcher, daemon, outcome, vm, reused, snap>>
      BY <2>32 DEF SendTerm
    <3> QED
      BY <1>3, <3>1, <3>2, <3>3
  <2>33. CASE SeesExit(s)
    BY <1>3, <2>33 DEF SeesExit, PidAlive
  <2>34. CASE SendKill(s)
    BY <1>3, <2>34 DEF SendKill, DaemonDies, OrphanedVm
  <2>35. CASE RemoveOne(s)
    BY <1>3, <2>35 DEF RemoveOne, RemoveDirAll
  <2>36. CASE RemoveDead(s)
    <3>1. CASE IsDead(s)
      <4>1. RemoveDirAll(s) /\ snap' = [snap EXCEPT ![s] = NoMeta]
            /\ UNCHANGED <<procVars, stop>>
        BY <2>36, <3>1 DEF RemoveDead
      <4>2. snap' \in [Sid -> [status : Statuses, pid : {"daemon"}] \cup {NoMeta}]
        BY <1>3, <4>1
      <4> QED
        BY <1>3, <4>1, <4>2 DEF RemoveDirAll
    <3>2. CASE ~IsDead(s)
      BY <1>3, <2>36, <3>2 DEF RemoveDead
    <3> QED
      BY <3>1, <3>2
  <2>37. QED
    BY <1>3, <2>1, <2>2, <2>3, <2>4, <2>5, <2>6, <2>7, <2>8, <2>9, <2>10, <2>11, <2>12, <2>13,
       <2>14, <2>15, <2>16, <2>17, <2>18, <2>19, <2>20, <2>21, <2>22, <2>23, <2>24, <2>25, <2>26,
       <2>27, <2>28, <2>29, <2>30, <2>31, <2>32, <2>33, <2>34, <2>35, <2>36
    DEF Step, Launcher, Daemon
<1>4. QED
  BY <1>1, <1>2, <1>3 DEF Next, Step

\* Every step keeps the order in which the launcher and the daemon write.
LEMMA OrderStep ==
  ASSUME SessionInv, [Next]_vars
  PROVE  (Begun /\ LauncherFirst /\ FinalIsLast /\ ReapedFirst /\ FinalMeansGone /\ StopStops)'
<1> USE DEF SessionInv, SessionTypeOK, Begun, LauncherFirst, FinalIsLast, ReapedFirst,
          FinalMeansGone, StopStops, Final, Done, Torn, NoMeta, Statuses, LauncherLive,
          DaemonLive, DaemonGone, vars, diskVars, procVars, cmdVars
<1>1. CASE UNCHANGED vars
  BY <1>1 DEF vars, diskVars, procVars, cmdVars
<1>2. CASE List
  BY <1>2 DEF List, Whole, procVars, diskVars
<1>3. ASSUME NEW s \in Sid, Step(s)
      PROVE  (Begun /\ LauncherFirst /\ FinalIsLast /\ ReapedFirst /\ FinalMeansGone /\ StopStops)'
  <2>1. CASE MakeDir(s)
    BY <1>3, <2>1 DEF MakeDir
  <2>2. CASE Foreground(s)
    BY <1>3, <2>2 DEF Foreground
  <2>3. CASE WriteConfig(s)
    BY <1>3, <2>3 DEF WriteConfig
  <2>4. CASE Spawn(s)
    BY <1>3, <2>4 DEF Spawn
  <2>5. CASE SpawnFails(s)
    BY <1>3, <2>5 DEF SpawnFails, RemoveDirAll
  <2>6. CASE LauncherOpen(s)
    BY <1>3, <2>6 DEF LauncherOpen, SaveOpen
  <2>7. CASE LauncherWrite(s)
    BY <1>3, <2>7 DEF LauncherWrite, SaveWrite
  <2>8. CASE LauncherSaveFails(s)
    BY <1>3, <2>8 DEF LauncherSaveFails
  <2>9. CASE OpenConfig(s)
    BY <1>3, <2>9 DEF OpenConfig
  <2>10. CASE UnlinkConfig(s)
    BY <1>3, <2>10 DEF UnlinkConfig
  <2>11. CASE UnlinkFails(s)
    BY <1>3, <2>11 DEF UnlinkFails
  <2>12. CASE ReadMeta(s)
    BY <1>3, <2>12 DEF ReadMeta, Whole
  <2>13. CASE ForegroundOpen(s)
    BY <1>3, <2>13 DEF ForegroundOpen, SaveOpen
  <2>14. CASE ForegroundWrite(s)
    BY <1>3, <2>14 DEF ForegroundWrite, SaveWrite
  <2>15. CASE ForegroundSaveFails(s)
    BY <1>3, <2>15 DEF ForegroundSaveFails
  <2>16. CASE Boot(s)
    BY <1>3, <2>16 DEF Boot
  <2>17. CASE GuestGone(s)
    BY <1>3, <2>17 DEF GuestGone, Shutdown
  <2>18. CASE FinishOpen(s)
    BY <1>3, <2>18 DEF FinishOpen, SaveOpen
  <2>19. CASE FinishWrite(s)
    BY <1>3, <2>19 DEF FinishWrite, SaveWrite
  <2>20. CASE FinishFails(s)
    BY <1>3, <2>20 DEF FinishFails
  <2>21. CASE Exit(s)
    BY <1>3, <2>21 DEF Exit, DaemonDies, OrphanedVm
  <2>22. CASE RunFails(s)
    BY <1>3, <2>22 DEF RunFails, DaemonDies, OrphanedVm
  <2>23. CASE Timeout(s)
    BY <1>3, <2>23 DEF Timeout, Shutdown
  <2>24. CASE VmArm(s)
    BY <1>3, <2>24 DEF VmArm
  <2>25. CASE VmCheckParent(s)
    BY <1>3, <2>25 DEF VmCheckParent
  <2>26. CASE VmExits(s)
    BY <1>3, <2>26 DEF VmExits
  <2>27. CASE LauncherKilled(s)
    BY <1>3, <2>27 DEF LauncherKilled
  <2>28. CASE DaemonKilled(s)
    BY <1>3, <2>28 DEF DaemonKilled, DaemonDies, OrphanedVm
  <2>29. CASE DaemonTerminated(s)
    BY <1>3, <2>29 DEF DaemonTerminated, DaemonKilled, DaemonDies, OrphanedVm
  <2>30. CASE PidReused(s)
    BY <1>3, <2>30 DEF PidReused
  <2>31. CASE FindToStop(s)
    BY <1>3, <2>31 DEF FindToStop, Whole, PidAlive
  <2>32. CASE SendTerm(s)
    BY <1>3, <2>32 DEF SendTerm, PidAlive
  <2>33. CASE SeesExit(s)
    BY <1>3, <2>33 DEF SeesExit, PidAlive
  <2>34. CASE SendKill(s)
    BY <1>3, <2>34 DEF SendKill, DaemonDies, OrphanedVm
  <2>35. CASE RemoveOne(s)
    BY <1>3, <2>35 DEF RemoveOne, RemoveDirAll
  <2>36. CASE RemoveDead(s)
    BY <1>3, <2>36 DEF RemoveDead, RemoveDirAll, IsDead
  <2>37. QED
    BY <1>3, <2>1, <2>2, <2>3, <2>4, <2>5, <2>6, <2>7, <2>8, <2>9, <2>10, <2>11, <2>12, <2>13,
       <2>14, <2>15, <2>16, <2>17, <2>18, <2>19, <2>20, <2>21, <2>22, <2>23, <2>24, <2>25, <2>26,
       <2>27, <2>28, <2>29, <2>30, <2>31, <2>32, <2>33, <2>34, <2>35, <2>36
    DEF Step, Launcher, Daemon
<1>4. QED
  BY <1>1, <1>2, <1>3 DEF Next, Step

\* SaveWrite only fills a file that a SaveOpen of its own has emptied, so a final
\* status could only go with an open; and no open comes after it.
LEMMA StatusStep ==
  ASSUME SessionInv, [Next]_vars,
         NEW t \in Sid, meta[t].status \in Final
  PROVE  meta'[t] \in {meta[t], NoMeta}
<1>1. /\ daemon[t] \in Done /\ launcher[t] \notin {"spawned", "saving"}
      /\ meta[t] # Torn
  BY DEF SessionInv, FinalIsLast, LauncherFirst, Final, Torn, NoMeta
<1>2. meta \in [Sid -> [status : Statuses, pid : {"daemon"}] \cup {NoMeta, Torn}]
  BY DEF SessionInv, SessionTypeOK
<1>3. CASE UNCHANGED meta
  BY <1>3
<1>4. ASSUME NEW s \in Sid, SaveOpen(s), s # t
      PROVE  meta'[t] = meta[t]
  BY <1>2, <1>4 DEF SaveOpen
<1>5. ASSUME NEW s \in Sid, NEW m, SaveWrite(s, m)
      PROVE  meta'[t] = meta[t]
  BY <1>1, <1>2, <1>5 DEF SaveWrite
<1>6. ASSUME NEW s \in Sid, RemoveDirAll(s)
      PROVE  meta'[t] \in {meta[t], NoMeta}
  BY <1>2, <1>6 DEF RemoveDirAll
<1>7. ASSUME NEW s \in Sid, LauncherOpen(s) \/ ForegroundOpen(s) \/ FinishOpen(s)
      PROVE  SaveOpen(s) /\ s # t
  BY <1>1, <1>7 DEF LauncherOpen, ForegroundOpen, FinishOpen, Done, DaemonGone
<1>8. ASSUME NEW s \in Sid, Step(s)
      PROVE  \/ UNCHANGED meta
             \/ LauncherOpen(s) \/ ForegroundOpen(s) \/ FinishOpen(s)
             \/ \E m : SaveWrite(s, m)
             \/ RemoveDirAll(s)
  <2>1. CASE Launcher(s)
    BY <2>1 DEF Launcher, WriteConfig, Spawn, SpawnFails, LauncherWrite,
                LauncherSaveFails, diskVars
  <2>2. CASE Daemon(s)
    BY <2>2 DEF Daemon, OpenConfig, UnlinkConfig, UnlinkFails, ReadMeta, ForegroundWrite,
                ForegroundSaveFails, Boot, GuestGone, Shutdown, FinishWrite, FinishFails,
                Exit, diskVars
  <2>3. CASE RemoveOne(s) \/ RemoveDead(s)
    BY <2>3 DEF RemoveOne, RemoveDead, diskVars
  <2> QED
    BY <1>8, <2>1, <2>2, <2>3 DEF Step, MakeDir, Foreground, RunFails, Timeout, Shutdown,
       VmArm, VmCheckParent, VmExits, LauncherKilled, DaemonKilled, DaemonTerminated,
       PidReused, FindToStop, SendTerm, SeesExit, SendKill, diskVars
<1>9. CASE List \/ UNCHANGED vars
  BY <1>3, <1>9 DEF List, vars, diskVars
<1> QED
  BY <1>3, <1>4, <1>5, <1>6, <1>7, <1>8, <1>9 DEF Next

\* What the bulk removal judges dead is dead: a final status was the daemon's last
\* word, and a pid that is gone was the daemon's.
LEMMA SweepStep ==
  ASSUME SessionInv, [Next]_vars,
         NEW t \in Sid, snap[t] # NoMeta, snap'[t] = NoMeta, dir[t], ~dir'[t]
  PROVE  daemon[t] \notin DaemonLive \ {"leaving"}
<1>1. snap \in [Sid -> [status : Statuses, pid : {"daemon"}] \cup {NoMeta}]
  BY DEF SessionInv, SessionTypeOK
<1>2. CASE RemoveDead(t)
  <2>1. IsDead(t)
    BY <1>2 DEF RemoveDead, diskVars
  <2>2. CASE snap[t].status \in {"finished", "failed"}
    BY <2>2 DEF SessionInv, FinalIsLast, Final, Done, DaemonGone, DaemonLive
  <2>3. CASE ~PidAlive(t, snap[t].pid)
    BY <1>1, <2>3 DEF PidAlive
  <2> QED
    BY <2>1, <2>2, <2>3 DEF IsDead
<1>3. ASSUME NEW s \in Sid, RemoveDead(s), s # t
      PROVE  FALSE
  BY <1>1, <1>3 DEF RemoveDead
<1>4. ASSUME NEW s \in Sid, Step(s), ~RemoveDead(s)
      PROVE  UNCHANGED snap
  <2>1. CASE Launcher(s)
    BY <2>1 DEF Launcher, WriteConfig, Spawn, SpawnFails, LauncherOpen, LauncherWrite,
                LauncherSaveFails, cmdVars
  <2>2. CASE Daemon(s)
    BY <2>2 DEF Daemon, OpenConfig, UnlinkConfig, UnlinkFails, ReadMeta, ForegroundOpen,
                ForegroundWrite, ForegroundSaveFails, Boot, GuestGone, Shutdown, FinishOpen,
                FinishWrite, FinishFails, Exit, cmdVars
  <2> QED
    BY <1>4, <2>1, <2>2 DEF Step, MakeDir, Foreground, RunFails, Timeout, Shutdown, VmArm,
       VmCheckParent, VmExits, LauncherKilled, DaemonKilled, DaemonTerminated, PidReused,
       FindToStop, SendTerm, SeesExit, SendKill, RemoveOne, cmdVars
<1>5. CASE List \/ UNCHANGED vars
  BY <1>5 DEF List, vars, cmdVars
<1> QED
  BY <1>2, <1>3, <1>4, <1>5 DEF Next

----------------------------------------------------------------------------
(* Theorems *)

\* The invariant over the launcher, the daemon, the disk and the commands holds in
\* every state, whichever process is killed at whichever step.
THEOREM SessionInvariant == Spec => []SessionInv
<1>1. Init => SessionInv
  BY DEF Init, SessionInv, SessionTypeOK, Begun, LauncherFirst, FinalIsLast, ReapedFirst,
         FinalMeansGone, StopStops, Final, Done, NoMeta, Torn, Statuses, LauncherLive,
         DaemonLive, DaemonGone
<1>2. SessionInv /\ [Next]_vars => SessionInv'
  BY TypeStep, OrderStep DEF SessionInv
<1> QED
  BY <1>1, <1>2, PTL DEF Spec

\* Types; and config and metadata are only where their directory is.
THEOREM TypeCorrect == Spec => []SessionTypeOK
  BY SessionInvariant, PTL DEF SessionInv

\* A final status on disk means that the VM has been reaped.
THEOREM FinalStatusTrue == Spec => []FinalMeansGone
  BY SessionInvariant, PTL DEF SessionInv

\* stop_session reports an end only of a daemon that has ended.
THEOREM StoppedIsStopped == Spec => []StopStops
  BY SessionInvariant, PTL DEF SessionInv

\* No save overwrites a final status: neither the launcher's, which the daemon has
\* waited out by reading it, nor a second one of the daemon.
THEOREM FinalStatusKept == Spec => StatusFinal
<1>1. SessionInv /\ [Next]_vars
        => [ \A s \in Sid : meta[s].status \in {"finished", "failed"}
                             => meta'[s] \in {meta[s], NoMeta} ]_vars
  BY StatusStep DEF Final
<1> QED
  BY <1>1, SessionInvariant, PTL DEF Spec, StatusFinal

\* The bulk removal takes no directory from a daemon that has work left.
THEOREM LiveSessionsSpared == Spec => SweepSparesLive
<1>1. SessionInv /\ [Next]_vars
        => [ \A s \in Sid : snap[s] # NoMeta /\ snap'[s] = NoMeta /\ dir[s] /\ ~dir'[s]
                             => daemon[s] \notin DaemonLive \ {"leaving"} ]_vars
  BY SweepStep
<1> QED
  BY <1>1, SessionInvariant, PTL DEF Spec, SweepSparesLive
=============================================================================
