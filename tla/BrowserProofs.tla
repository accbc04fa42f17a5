--------------------------- MODULE BrowserProofs ---------------------------
(***************************************************************************)
(* What BrowserProxy promises, for any number of connections and workers.  *)
(*                                                                         *)
(* The clean-up is right because each step of the launch and of the drop   *)
(* is reached only behind the one that undid what is named there: the      *)
(* leader is reaped before the loop is joined, the loop is joined before   *)
(* the directory is removed, and nothing but a helper makes it anew after  *)
(* that (CourseInv).  The workers are bounded because the count is one for *)
(* each of them and one for each thread that could not be had (CountInv).  *)
(***************************************************************************)
EXTENDS BrowserProxy, FiniteSetTheorems, TLAPS

Undone == {"cleanup", "stderr", "joinFailed", "removeFailed", "failed"}
Places == {"launch", "bind", "spawn", "poll", "up", "wait", "join", "remove", "ended", "exited"}
          \cup Undone

\* What stands at each place of the main thread's course.
CourseInv ==
  /\ redan \in Places
  /\ redan \in {"launch", "bind", "spawn"} => leader = "none"
  /\ redan \in Undone => leader \in {"none", "gone"}
  /\ redan \in {"join", "remove", "ended"} => leader = "gone"
  /\ redan \in {"launch", "bind"} => loop = "none"
  /\ redan \in {"remove", "removeFailed", "ended"} => loop = "ended"
  /\ redan = "failed" => loop \in {"none", "ended"}
  /\ leader = "none" => helper = "none"
  /\ redan \in {"failed", "ended"} /\ profile => loop = "none" \/ unremoved \/ rewritten

----------------------------------------------------------------------------
(* The clean-up *)

LEMMA InitCourse == Init => CourseInv
BY DEF Init, CourseInv, Places, Undone

LEMMA MainCourse == CourseInv /\ (Main \/ Drop \/ ExitEarly) => CourseInv'
<1> SUFFICES ASSUME CourseInv, Main \/ Drop \/ ExitEarly PROVE CourseInv'
  OBVIOUS
<1> USE DEF CourseInv, Places, Undone, files, chromeVars, proxyVars, connVars
<1>1. CASE MakeProfile
  BY <1>1 DEF MakeProfile
<1>2. CASE StartProxy
  BY <1>2 DEF StartProxy
<1>3. CASE SpawnChrome
  BY <1>3 DEF SpawnChrome
<1>4. CASE PollCdp
  BY <1>4 DEF PollCdp
<1>5. CASE ReadStderr
  BY <1>5 DEF ReadStderr
<1>6. CASE Cleanup
  BY <1>6 DEF Cleanup
<1>7. CASE ChromeEnded
  BY <1>7 DEF ChromeEnded
<1>8. CASE Deadline
  BY <1>8 DEF Deadline
<1>9. CASE Join
  BY <1>9 DEF Join
<1>10. CASE RemoveProfile
  BY <1>10 DEF RemoveProfile
<1>11. CASE Drop
  BY <1>11 DEF Drop
<1>12. CASE ExitEarly
  BY <1>12 DEF ExitEarly
<1> QED
  BY <1>1, <1>2, <1>3, <1>4, <1>5, <1>6, <1>7, <1>8, <1>9, <1>10, <1>11, <1>12 DEF Main

\* Chrome does not start anew, and what writes to the profile late is a helper.
LEMMA ExternalCourse == CourseInv /\ External => CourseInv'
<1> SUFFICES ASSUME CourseInv, External PROVE CourseInv'
  OBVIOUS
<1> USE DEF CourseInv, Places, Undone, files, chromeVars, proxyVars, connVars
<1>1. CASE HelperStarts
  BY <1>1 DEF HelperStarts
<1>2. CASE LeaderEnds
  BY <1>2 DEF LeaderEnds
<1>3. CASE HelperEnds
  BY <1>3 DEF HelperEnds
<1>4. CASE WriteProfile
  BY <1>4 DEF WriteProfile
<1>5. ASSUME NEW c \in Conn, Opens(c) \/ Closes(c) \/ ServerCloses(c) \/ DownBreaks(c)
      PROVE  CourseInv'
  BY <1>5 DEF Opens, Closes, ServerCloses, DownBreaks
<1>6. CASE GoesSilent
  BY <1>6 DEF GoesSilent
<1>7. CASE PollCdp
  BY <1>7 DEF PollCdp
<1> QED
  BY <1>1, <1>2, <1>3, <1>4, <1>5, <1>6, <1>7 DEF External

\* The loop goes on or ends, and does not begin.
LEMMA ProxyCourse == CourseInv /\ (Loop \/ \E c \in Conn : Work(c)) => CourseInv'
<1> SUFFICES ASSUME CourseInv, Loop \/ \E c \in Conn : Work(c) PROVE CourseInv'
  OBVIOUS
<1> USE DEF CourseInv, Places, Undone, files, chromeVars, proxyVars, connVars
<1>1. CASE LoopTop
  BY <1>1 DEF LoopTop
<1>2. CASE AcceptNothing
  BY <1>2 DEF AcceptNothing
<1>3. ASSUME NEW c \in Conn, Accept(c) PROVE CourseInv'
  BY <1>3 DEF Accept
<1>4. ASSUME NEW c \in Conn, Work(c) PROVE CourseInv'
  BY <1>4 DEF Work, Serve, UpEnds, DownEnds, WorkerEnds
<1> QED
  BY <1>1, <1>2, <1>3, <1>4 DEF Loop

LEMMA NextCourse == CourseInv /\ [Next]_vars => CourseInv'
<1>1. ASSUME CourseInv, UNCHANGED vars PROVE CourseInv'
  BY <1>1 DEF CourseInv, Places, Undone, vars, files, chromeVars, proxyVars, connVars
<1> QED
  BY <1>1, MainCourse, ExternalCourse, ProxyCourse DEF Next

\* A launch that failed and a browser that was dropped leave neither a running
\* leader nor a proxy thread, nor a profile but those of the named exceptions: no
\* proxy yet, a failed removal, a helper that made it anew (browser.rs:87-122,
\* 174-201, 293-297).
THEOREM CleanUp == Spec => []BrowserLeavesNothing
<1>1. CourseInv => BrowserLeavesNothing
  BY DEF CourseInv, BrowserLeavesNothing, Undone
<1> QED
  BY <1>1, InitCourse, NextCourse, PTL DEF Spec

----------------------------------------------------------------------------
(* The workers *)

\* The connections that have a worker.
Busy == {c \in Conn : worker[c] \in {"head", "relay", "ending"}}

CountInv ==
  /\ active \in Nat /\ leaked \in Nat /\ active <= MaxWorkers
  /\ worker \in [Conn -> {"unused", "queued", "refused", "head", "relay", "ending", "done"}]
  /\ active = Cardinality(Busy) + leaked

LEMMA InitCount == Init => CountInv
<1> SUFFICES ASSUME Init PROVE CountInv
  OBVIOUS
<1>1. Busy = {}
  BY DEF Init, Busy
<1> QED
  BY <1>1, FS_EmptySet, BrowserAssumption DEF Init, CountInv

\* One more connection with a worker, or one less.
LEMMA BusyChanges ==
  ASSUME CountInv, NEW c \in Conn,
         NEW w \in {"queued", "refused", "head", "relay", "ending", "done"},
         worker' = [worker EXCEPT ![c] = w]
  PROVE  /\ c \notin Busy /\ w \in {"head", "relay", "ending"}
              => Cardinality(Busy') = Cardinality(Busy) + 1
         /\ c \in Busy /\ w \notin {"head", "relay", "ending"}
              => Cardinality(Busy') = Cardinality(Busy) - 1
         /\ (c \in Busy <=> w \in {"head", "relay", "ending"})
              => Cardinality(Busy') = Cardinality(Busy)
         /\ Cardinality(Busy) \in Nat
<1>1. IsFiniteSet(Busy)
  BY FS_Subset, BrowserAssumption DEF Busy
<1>2. \A d \in Conn : worker'[d] = IF d = c THEN w ELSE worker[d]
  BY DEF CountInv
<1>3. c \notin Busy /\ w \in {"head", "relay", "ending"} => Busy' = Busy \cup {c}
  BY <1>2 DEF Busy
<1>4. c \in Busy /\ w \notin {"head", "relay", "ending"} => Busy' = Busy \ {c}
  BY <1>2 DEF Busy
<1>5. (c \in Busy <=> w \in {"head", "relay", "ending"}) => Busy' = Busy
  BY <1>2 DEF Busy
<1> QED
  BY <1>1, <1>3, <1>4, <1>5, FS_AddElement, FS_RemoveElement, FS_CardinalityType

LEMMA NextCount == CountInv /\ [Next]_vars => CountInv'
<1> SUFFICES ASSUME CountInv, [Next]_vars PROVE CountInv'
  OBVIOUS
<1> USE BrowserAssumption DEF chromeVars, proxyVars, connVars
<1>1. ASSUME UNCHANGED <<worker, active, leaked>> PROVE CountInv'
  BY <1>1 DEF CountInv, Busy
<1>2. CASE Main
  BY <1>1, <1>2 DEF Main, MakeProfile, StartProxy, SpawnChrome, PollCdp, ReadStderr, Cleanup,
                    ChromeEnded, Deadline, Join, RemoveProfile
<1>3. CASE Drop \/ ExitEarly
  BY <1>1, <1>3 DEF Drop, ExitEarly
<1>4. CASE LoopTop \/ AcceptNothing
  BY <1>1, <1>4 DEF LoopTop, AcceptNothing
<1>5. ASSUME NEW c \in Conn, Accept(c) PROVE CountInv'
  <2>1. c \notin Busy /\ c \in Conn
    BY <1>5 DEF Accept, Busy
  <2>2. CASE active >= MaxWorkers
    BY <1>5, <2>1, <2>2, BusyChanges DEF Accept, CountInv
  <2>3. CASE ~(active >= MaxWorkers)
    BY <1>5, <2>1, <2>3, BusyChanges DEF Accept, CountInv
  <2> QED
    BY <2>2, <2>3
<1>6. ASSUME NEW c \in Conn, Serve(c) PROVE CountInv'
  <2>1. c \in Busy
    BY <1>6 DEF Serve, Busy
  <2> QED
    BY <1>6, <2>1, BusyChanges DEF Serve, CountInv
<1>7. ASSUME NEW c \in Conn, UpEnds(c) \/ DownEnds(c) PROVE CountInv'
  BY <1>1, <1>7 DEF UpEnds, DownEnds
<1>8. ASSUME NEW c \in Conn, WorkerEnds(c) PROVE CountInv'
  <2>1. c \in Busy
    BY <1>8 DEF WorkerEnds, Busy
  <2>2. Cardinality(Busy') = Cardinality(Busy) - 1 /\ Cardinality(Busy) \in Nat
    <3>1. worker' = [worker EXCEPT ![c] = "done"]
      BY <1>8 DEF WorkerEnds
    <3> QED
      BY <2>1, <3>1, BusyChanges
  <2>3. Cardinality(Busy') \in Nat
    BY FS_CardinalityType, FS_Subset, Busy' \subseteq Conn DEF Busy
  <2> QED
    BY <1>8, <2>2, <2>3 DEF WorkerEnds, CountInv
<1>9. CASE External
  <2>1. ASSUME NEW c \in Conn, Opens(c) PROVE CountInv'
    <3>1. c \notin Busy
      BY <2>1 DEF Opens, Busy
    <3>2. Cardinality(Busy') = Cardinality(Busy)
      <4>1. worker' = [worker EXCEPT ![c] = "queued"]
        BY <2>1 DEF Opens
      <4> QED
        BY <3>1, <4>1, BusyChanges
    <3> QED
      BY <2>1, <3>2 DEF Opens, CountInv
  <2> QED
    BY <1>1, <1>9, <2>1 DEF External, GoesSilent, PollCdp, HelperStarts, LeaderEnds, HelperEnds,
                            WriteProfile, Closes, ServerCloses, DownBreaks
<1>10. CASE UNCHANGED vars
  BY <1>1, <1>10 DEF vars
<1> QED
  BY <1>2, <1>3, <1>4, <1>5, <1>6, <1>7, <1>8, <1>9, <1>10 DEF Next, Loop, Work

\* The proxy never runs more workers at once than MAX_PROXY_WORKERS: those that
\* run and those that could not be spawned make up the count, which is never
\* above it.  So every failed spawn takes a place away for good
\* (browser.rs:331-344).
THEOREM WorkersBounded == Spec => [](Cardinality(Busy) + leaked <= MaxWorkers)
<1>1. CountInv => Cardinality(Busy) + leaked <= MaxWorkers
  BY DEF CountInv
<1> QED
  BY <1>1, InitCount, NextCount, PTL DEF Spec
=============================================================================
