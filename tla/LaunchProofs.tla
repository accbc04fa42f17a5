---------------------------- MODULE LaunchProofs ----------------------------
(***************************************************************************)
(* What Launch promises of the trust in a project's file and of what a     *)
(* guest finds in its root file system, for any number of launches, any    *)
(* machines and any command lines.                                         *)
(*                                                                         *)
(* A launch goes on past load_config only with a file that reaches nothing *)
(* or that is trusted, and trust is never taken back (TrustAt).  The       *)
(* certificate and the policy are those of the launch that wrote last, and *)
(* every launch that had written before on that root is marked overrun     *)
(* (GuestAt).                                                              *)
(* A session agrees with its layers from the step that merges them on      *)
(* (MergeAt): of the overlay and of the merge it is shown first what they  *)
(* keep of each layer, and of the specs that what is written is what is    *)
(* parsed, where the text of an entry reads back.                          *)
(***************************************************************************)
EXTENDS Launch, SequenceTheorems, WellFoundedInduction, TLAPS

Acting    == Running \cup {"target", "build", "merge", "stage", "mode"}
Rooted    == Running \cup {"stage", "mode"}
HasCa     == Running \ {"session", "ca"}
HasPolicy == HasCa \ {"specs", "policy"}

TrustAt(p) ==
  proc[p].pc \in Acting /\ proc[p].file = machine.project /\ machine.project # NoKeys
    /\ ~trusted /\ ~proc[p].agreed => ~Reaches(machine.project)

GuestAt(p) ==
  /\ proc[p].vm = "on" => proc[p].pc \in {"forwards", "browser", "proxy", "shutdown"}
  /\ proc[p].pc \in HasCa /\ ~proc[p].overrun => disk[proc[p].root].ca = p
  /\ proc[p].pc \in HasPolicy /\ ~proc[p].overrun /\ ~proc[p].unwritten
       => disk[proc[p].root].policy = proc[p].allowed

\* The shape of a launch, as far as its steps rely on it.
ShapeAt(p) ==
  /\ DOMAIN proc[p] = DOMAIN Idle
  /\ proc[p].pc \in Rooted => proc[p].root \in Roots

LaunchInv ==
  /\ DOMAIN proc = Proc /\ DOMAIN disk = Roots /\ images \subseteq AgentImages
  /\ \A r \in Roots : DOMAIN disk[r] = {"ca", "policy", "staged"}
  /\ \A p \in Proc : ShapeAt(p) /\ TrustAt(p) /\ GuestAt(p)

----------------------------------------------------------------------------
(* What a step does to the launches *)

LEMMA GotoDoes ==
  ASSUME LaunchInv, NEW p \in Proc, NEW at
  PROVE  /\ DOMAIN Goto(p, at) = Proc
         /\ DOMAIN Goto(p, at)[p] = DOMAIN Idle
         /\ Goto(p, at)[p].pc = at
         /\ \A f \in DOMAIN Idle \ {"pc"} : Goto(p, at)[p][f] = proc[p][f]
         /\ \A q \in Proc \ {p} : Goto(p, at)[q] = proc[q]
BY DEF LaunchInv, ShapeAt, Goto, Idle

\* What p does outside of the root file systems concerns p alone.
LEMMA QuietStep ==
  ASSUME LaunchInv, NEW p \in Proc,
         UNCHANGED <<machine, disk>>, trusted => trusted', images' \subseteq AgentImages,
         DOMAIN proc' = Proc, \A q \in Proc \ {p} : proc'[q] = proc[q],
         ShapeAt(p)', TrustAt(p)', GuestAt(p)'
  PROVE  LaunchInv'
<1>1. ASSUME NEW q \in Proc, q # p PROVE ShapeAt(q)' /\ TrustAt(q)' /\ GuestAt(q)'
  <2>1. proc'[q] = proc[q] /\ ShapeAt(q) /\ TrustAt(q) /\ GuestAt(q)
    BY <1>1 DEF LaunchInv
  <2>2. ShapeAt(q)'
    BY <2>1 DEF ShapeAt
  <2>3. TrustAt(q)'
    BY <2>1 DEF TrustAt
  <2>4. GuestAt(q)'
    BY <2>1 DEF GuestAt
  <2> QED
    BY <2>2, <2>3, <2>4
<1> QED
  BY <1>1 DEF LaunchInv

\* A launch that fails has no guest, and acts no more.
LEMMA ExitStep ==
  ASSUME LaunchInv, NEW p \in Proc, Exit(p),
         UNCHANGED <<machine, disk>>, trusted => trusted', images' \subseteq AgentImages
  PROVE  LaunchInv'
<1>1. /\ DOMAIN proc' = Proc /\ DOMAIN proc'[p] = DOMAIN Idle
      /\ proc'[p].pc = "failed" /\ proc'[p].vm # "on"
      /\ \A q \in Proc \ {p} : proc'[q] = proc[q]
  BY DEF Exit, LaunchInv, ShapeAt, Idle
<1>2. ShapeAt(p)' /\ TrustAt(p)' /\ GuestAt(p)'
  BY <1>1 DEF ShapeAt, TrustAt, GuestAt, Acting, Rooted, HasCa, HasPolicy, Running
<1> QED
  BY <1>1, <1>2, QuietStep

\* A launch that goes on has the root file system, the file, the consent to it,
\* the certificate and the policy it had.
LEMMA OnwardStep ==
  ASSUME LaunchInv, NEW p \in Proc,
         UNCHANGED <<machine, disk>>, trusted => trusted', images' \subseteq AgentImages,
         DOMAIN proc' = Proc, DOMAIN proc'[p] = DOMAIN Idle,
         \A q \in Proc \ {p} : proc'[q] = proc[q],
         \A f \in {"root", "file", "agreed", "overrun", "unwritten"} : proc'[p][f] = proc[p][f],
         proc[p].pc \in Acting \/ trusted',
         \A at \in {Rooted, HasCa, HasPolicy} : proc'[p].pc \in at => proc[p].pc \in at,
         proc'[p].pc \in HasPolicy => proc'[p].allowed = proc[p].allowed,
         proc'[p].vm = "on" => proc'[p].pc \in {"forwards", "browser", "proxy", "shutdown"}
  PROVE  LaunchInv'
<1>1. ShapeAt(p) /\ TrustAt(p) /\ GuestAt(p)
  BY DEF LaunchInv
<1>2. /\ proc'[p].root = proc[p].root /\ proc'[p].file = proc[p].file
      /\ proc'[p].overrun = proc[p].overrun /\ proc'[p].agreed = proc[p].agreed
      /\ proc'[p].unwritten = proc[p].unwritten
  OBVIOUS
<1>3. /\ proc'[p].pc \in Rooted => proc[p].pc \in Rooted
      /\ proc'[p].pc \in HasCa => proc[p].pc \in HasCa
      /\ proc'[p].pc \in HasPolicy => proc[p].pc \in HasPolicy
  OBVIOUS
<1>4. ShapeAt(p)'
  BY <1>1, <1>2, <1>3 DEF ShapeAt
<1>5. TrustAt(p)'
  BY <1>1, <1>2 DEF TrustAt
<1>6. GuestAt(p)'
  BY <1>1, <1>2, <1>3 DEF GuestAt
<1> QED
  BY <1>4, <1>5, <1>6, QuietStep

----------------------------------------------------------------------------
(* The steps *)

LEMMA InitLaunch == Init => LaunchInv
<1> SUFFICES ASSUME Init PROVE LaunchInv
  OBVIOUS
<1>1. ASSUME NEW p \in Proc PROVE ShapeAt(p) /\ TrustAt(p) /\ GuestAt(p)
  <2>1. proc[p].pc = "idle" /\ proc[p].vm = "none" /\ DOMAIN proc[p] = DOMAIN Idle
    BY DEF Init, Idle
  <2> QED
    BY <2>1 DEF ShapeAt, TrustAt, GuestAt, Acting, Rooted, HasCa, HasPolicy, Running
<1> QED
  BY <1>1 DEF Init, LaunchInv

\* Start and load_config: what is loaded is harmless or trusted, or is asked for.
LEMMA LoadSteps ==
  ASSUME LaunchInv, NEW p \in Proc, Start(p) \/ Load(p) \/ Confirm(p)
  PROVE  LaunchInv'
<1> USE DEF Acting, Rooted, HasCa, HasPolicy, Running
<1>1. CASE Start(p)
  <2>1. /\ DOMAIN proc' = Proc /\ DOMAIN proc'[p] = DOMAIN Idle
        /\ proc'[p].pc = "load" /\ proc'[p].vm = proc[p].vm
        /\ \A q \in Proc \ {p} : proc'[q] = proc[q]
        /\ UNCHANGED <<machine, disk, trusted, images>> /\ images \subseteq AgentImages
    BY <1>1 DEF Start, LaunchInv, ShapeAt, Idle
  <2>2. proc[p].vm # "on"
    BY <1>1 DEF Start, LaunchInv, GuestAt
  <2>3. ShapeAt(p)' /\ TrustAt(p)' /\ GuestAt(p)'
    BY <2>1, <2>2 DEF ShapeAt, TrustAt, GuestAt
  <2> QED
    BY <2>1, <2>3, QuietStep
<1>2. CASE Load(p)
  <2> DEFINE to == Decide(machine.project # NoKeys /\ Reaches(machine.project), trusted, machine.tty)
  <2>1. CASE to = "skip"
    BY <1>2, <2>1, ExitStep DEF Load, LaunchInv
  <2>2. CASE to # "skip"
    <3>1. proc' = [Goto(p, to) EXCEPT ![p].file = File]
      BY <1>2, <2>2 DEF Load
    <3> HIDE DEF to
    <3>2. /\ DOMAIN proc' = Proc /\ DOMAIN proc'[p] = DOMAIN Idle
          /\ proc'[p].pc = to /\ proc'[p].file = File /\ proc'[p].vm = proc[p].vm
          /\ \A q \in Proc \ {p} : proc'[q] = proc[q]
      BY <3>1, GotoDoes DEF Idle
    <3>3. proc[p].vm # "on"
      BY <1>2 DEF Load, LaunchInv, GuestAt
    <3>4. to \in {"target", "prompt"}
      BY <2>2 DEF to, Decide
    <3>5. to = "target" => machine.project = NoKeys \/ ~Reaches(machine.project) \/ trusted
      BY DEF to, Decide
    <3>6. ShapeAt(p)' /\ TrustAt(p)' /\ GuestAt(p)'
      BY <1>2, <3>2, <3>3, <3>4, <3>5 DEF Load, ShapeAt, TrustAt, GuestAt
    <3> QED
      BY <1>2, <3>2, <3>6, QuietStep DEF Load, LaunchInv
  <2> QED
    BY <2>1, <2>2
<1>3. CASE Confirm(p)
  <2>1. CASE Exit(p) /\ UNCHANGED trusted
    BY <1>3, <2>1, ExitStep DEF Confirm, LaunchInv
  <2>2. CASE trusted' \in {trusted, TRUE} /\ proc' = [Goto(p, "target") EXCEPT ![p].agreed = TRUE]
    <3>1. /\ DOMAIN proc' = Proc /\ DOMAIN proc'[p] = DOMAIN Idle
          /\ proc'[p].pc = "target" /\ proc'[p].vm = proc[p].vm /\ proc'[p].agreed
          /\ \A q \in Proc \ {p} : proc'[q] = proc[q]
      BY <2>2, GotoDoes DEF Idle
    <3>2. proc[p].vm # "on"
      BY <1>3 DEF Confirm, LaunchInv, GuestAt
    <3>3. ShapeAt(p)' /\ TrustAt(p)' /\ GuestAt(p)'
      BY <2>2, <3>1, <3>2 DEF ShapeAt, TrustAt, GuestAt
    <3>4. trusted => trusted'
      BY <2>2, Zenon
    <3> QED
      BY <1>3, <3>1, <3>3, <3>4, QuietStep DEF Confirm, LaunchInv
  <2> QED
    BY <1>3, <2>1, <2>2 DEF Confirm
<1> QED
  BY <1>1, <1>2, <1>3

\* The command itself: a root file system is one that exists.
LEMMA CommandSteps ==
  ASSUME LaunchInv, NEW p \in Proc, Target(p) \/ BuildImage(p) \/ MergeLayers(p) \/ Detach(p)
  PROVE  LaunchInv'
<1> USE DEF Acting, Rooted, HasCa, HasPolicy, Running
<1>0. images \subseteq AgentImages /\ ShapeAt(p) /\ GuestAt(p)
  BY DEF LaunchInv
<1>1. CASE Target(p)
  <2>1. CASE Exit(p)
    BY <1>0, <1>1, <2>1, ExitStep DEF Target
  <2>2. CASE ~Exit(p)
    <3>1. /\ DOMAIN proc' = Proc /\ DOMAIN proc'[p] = DOMAIN Idle
          /\ proc'[p].pc \in {"merge", "build"} /\ proc'[p].vm = proc[p].vm
          /\ proc'[p].root = proc[p].root /\ proc'[p].file = proc[p].file
          /\ proc'[p].overrun = proc[p].overrun /\ proc'[p].agreed = proc[p].agreed
          /\ proc'[p].unwritten = proc[p].unwritten
          /\ \A q \in Proc \ {p} : proc'[q] = proc[q]
      <4>1. CASE Bare(p)
        <5>1. proc' = [Goto(p, "merge") EXCEPT
                 ![p].cfg = IF proc[p].file = NoKeys THEN Default ELSE proc[p].file]
          BY <1>1, <4>1 DEF Target
        <5> QED
          BY <5>1, GotoDoes DEF Idle
      <4>2. CASE ~Bare(p)
        <5>1. PICK a \in Wanted(p) :
                proc' = [Goto(p, IF Def(a).image \in images THEN "merge" ELSE "build") EXCEPT
                      ![p].agent = a, ![p].stage = Profile(a, machine).stage,
                      ![p].cfg = IF proc[p].file = NoKeys THEN Profile(a, machine).config
                                 ELSE Overlay(Profile(a, machine).config, proc[p].file)]
          BY <1>1, <2>2, <4>2 DEF Target
        <5> DEFINE at == IF Def(a).image \in images THEN "merge" ELSE "build"
        <5>2. at \in {"merge", "build"}
          OBVIOUS
        <5> HIDE DEF at
        <5>3. \E agent, stage, cfg : proc' = [Goto(p, at) EXCEPT
                      ![p].agent = agent, ![p].stage = stage, ![p].cfg = cfg]
          BY <5>1 DEF at
        <5> QED
          BY <5>2, <5>3, GotoDoes DEF Idle
      <4> QED
        BY <4>1, <4>2
    <3>2. proc[p].pc = "target" /\ UNCHANGED <<machine, trusted, images, disk>>
      BY <1>1 DEF Target
    <3> QED
      BY <1>0, <3>1, <3>2, OnwardStep DEF GuestAt
  <2> QED
    BY <2>1, <2>2
<1>2. CASE BuildImage(p)
  <2>1. CASE Exit(p) /\ UNCHANGED images
    BY <1>0, <1>2, <2>1, ExitStep DEF BuildImage
  <2>2. CASE ~(Exit(p) /\ UNCHANGED images)
    <3>1. proc' = Goto(p, "merge") /\ images' = images \cup {Def(proc[p].agent).image}
      BY <1>2, <2>2 DEF BuildImage
    <3>2. images' \subseteq AgentImages
      BY <1>0, <3>1 DEF AgentImages, Agents, Def
    <3>3. proc[p].pc = "build" /\ UNCHANGED <<machine, trusted, disk>>
      BY <1>2 DEF BuildImage
    <3> QED
      BY <1>0, <3>1, <3>2, <3>3, GotoDoes, OnwardStep DEF GuestAt, Idle
  <2> QED
    BY <2>1, <2>2
<1>3. CASE MergeLayers(p)
  <2>1. CASE Exit(p)
    BY <1>0, <1>3, <2>1, ExitStep DEF MergeLayers
  <2>2. CASE ~Exit(p)
    <3>1. PICK exec : /\ Root(exec) \in (IF exec.scalar["image"] # Unset THEN images ELSE OwnRoots)
                      /\ proc' = [Goto(p, "stage") EXCEPT ![p].exec = exec, ![p].root = Root(exec)]
      BY <1>3, <2>2 DEF MergeLayers
    <3>2. /\ DOMAIN proc' = Proc /\ DOMAIN proc'[p] = DOMAIN Idle
          /\ proc'[p].pc = "stage" /\ proc'[p].vm = proc[p].vm
          /\ proc'[p].root = Root(exec) /\ proc'[p].file = proc[p].file
          /\ proc'[p].agreed = proc[p].agreed
          /\ \A q \in Proc \ {p} : proc'[q] = proc[q]
      BY <3>1, GotoDoes DEF Idle
    <3>3. proc[p].pc = "merge" /\ UNCHANGED <<machine, trusted, images, disk>>
      BY <1>3 DEF MergeLayers
    <3>4. ShapeAt(p)' /\ GuestAt(p)'
      BY <1>0, <3>1, <3>2, <3>3 DEF ShapeAt, GuestAt, Roots
    <3>5. TrustAt(p)'
      BY <3>2, <3>3 DEF LaunchInv, TrustAt
    <3> QED
      BY <1>0, <3>2, <3>3, <3>4, <3>5, QuietStep
  <2> QED
    BY <2>1, <2>2
<1>4. CASE Detach(p)
  <2>1. \E exec : proc' = [Goto(p, "session") EXCEPT ![p].exec = exec]
    BY <1>4, GotoDoes DEF Detach, Idle
  <2>2. proc[p].pc = "mode" /\ UNCHANGED <<machine, trusted, images, disk>>
    BY <1>4 DEF Detach
  <2> QED
    BY <1>0, <2>1, <2>2, GotoDoes, OnwardStep DEF GuestAt, Idle
<1> QED
  BY <1>1, <1>2, <1>3, <1>4

\* The session, but for what it writes to its root file system.
LEMMA SessionSteps ==
  ASSUME LaunchInv, NEW p \in Proc,
         \/ StartSession(p) \/ ParseSpecs(p) \/ Boot(p) \/ GuestExits(p) \/ ParseForwards(p)
         \/ LaunchBrowser(p) \/ ProxyEnds(p) \/ Shutdown(p) \/ Finish(p)
  PROVE  LaunchInv'
<1> USE DEF Acting, Rooted, HasCa, HasPolicy, Running
<1>0. images \subseteq AgentImages /\ ShapeAt(p) /\ GuestAt(p)
  BY DEF LaunchInv
<1>1. CASE StartSession(p)
  <2>1. proc' = [Goto(p, "ca") EXCEPT ![p].status = "running"]
    BY <1>1 DEF StartSession
  <2> QED
    BY <1>0, <1>1, <2>1, GotoDoes, OnwardStep DEF StartSession, GuestAt, Idle
<1>2. CASE ParseSpecs(p)
  <2>1. CASE Exit(p)
    BY <1>0, <1>2, <2>1, ExitStep DEF ParseSpecs
  <2>2. CASE ~Exit(p)
    <3>1. \E allowed : proc' = [Goto(p, "policy") EXCEPT ![p].allowed = allowed]
      BY <1>2, <2>2 DEF ParseSpecs
    <3>2. proc[p].pc = "specs" /\ UNCHANGED <<machine, trusted, images, disk>>
      BY <1>2 DEF ParseSpecs
    <3> QED
      BY <1>0, <3>1, <3>2, GotoDoes, OnwardStep DEF GuestAt, Idle
  <2> QED
    BY <2>1, <2>2
<1>3. CASE Boot(p)
  <2>1. CASE Exit(p)
    BY <1>0, <1>3, <2>1, ExitStep DEF Boot
  <2>2. CASE proc' = [Goto(p, "forwards") EXCEPT ![p].vm = "on"]
    BY <1>0, <1>3, <2>2, GotoDoes, OnwardStep DEF Boot, GuestAt, Idle
  <2> QED
    BY <1>3, <2>1, <2>2 DEF Boot
<1>4. CASE GuestExits(p)
  <2>1. /\ DOMAIN proc' = Proc /\ DOMAIN proc'[p] = DOMAIN Idle
        /\ proc'[p].vm = "gone" /\ proc'[p].pc = proc[p].pc
        /\ \A f \in {"root", "file", "agreed", "overrun", "unwritten", "allowed"} :
             proc'[p][f] = proc[p][f]
        /\ \A q \in Proc \ {p} : proc'[q] = proc[q]
    BY <1>4 DEF GuestExits, LaunchInv, ShapeAt, Idle
  <2>2. proc[p].vm = "on" /\ UNCHANGED <<machine, trusted, images, disk>>
    BY <1>4 DEF GuestExits
  <2> QED
    BY <1>0, <2>1, <2>2, OnwardStep DEF GuestAt
<1>5. CASE ParseForwards(p)
  <2>1. CASE Exit(p)
    BY <1>0, <1>5, <2>1, ExitStep DEF ParseForwards
  <2>2. CASE ~Exit(p)
    <3>1. \E at \in {"browser", "proxy"} : proc' = Goto(p, at)
      BY <1>5, <2>2 DEF ParseForwards
    <3>2. proc[p].pc = "forwards" /\ UNCHANGED <<machine, trusted, images, disk>>
      BY <1>5 DEF ParseForwards
    <3> QED
      BY <1>0, <3>1, <3>2, GotoDoes, OnwardStep DEF GuestAt, Idle
  <2> QED
    BY <2>1, <2>2
<1>6. CASE LaunchBrowser(p)
  <2>1. CASE Exit(p)
    BY <1>0, <1>6, <2>1, ExitStep DEF LaunchBrowser
  <2>2. CASE ~Exit(p)
    <3>1. \E fs : proc' = [Goto(p, "proxy") EXCEPT ![p].exec.forward = fs]
      BY <1>6, <2>2 DEF LaunchBrowser
    <3>2. proc[p].pc = "browser" /\ UNCHANGED <<machine, trusted, images, disk>>
      BY <1>6 DEF LaunchBrowser
    <3> QED
      BY <1>0, <3>1, <3>2, GotoDoes, OnwardStep DEF GuestAt, Idle
  <2> QED
    BY <2>1, <2>2
<1>7. CASE ProxyEnds(p)
  BY <1>0, <1>7, GotoDoes, OnwardStep DEF ProxyEnds, GuestAt, Idle
<1>8. CASE Shutdown(p)
  <2>1. \E vm : vm # "on" /\ proc' = [Goto(p, "finish") EXCEPT ![p].vm = vm]
    BY <1>8, GotoDoes DEF Shutdown, Idle
  <2>2. proc[p].pc = "shutdown" /\ UNCHANGED <<machine, trusted, images, disk>>
    BY <1>8 DEF Shutdown
  <2> QED
    BY <1>0, <2>1, <2>2, GotoDoes, OnwardStep DEF GuestAt, Idle
<1>9. CASE Finish(p)
  <2>1. proc' = [Goto(p, "done") EXCEPT ![p].status = "final"]
    BY <1>9 DEF Finish
  <2>2. proc[p].pc = "finish" /\ UNCHANGED <<machine, trusted, images, disk>>
    BY <1>9 DEF Finish
  <2> QED
    BY <1>0, <2>1, <2>2, GotoDoes, OnwardStep DEF GuestAt, Idle
<1> QED
  BY <1>1, <1>2, <1>3, <1>4, <1>5, <1>6, <1>7, <1>8, <1>9

\* Credentials are staged beside the certificate and the policy.
LEMMA StageStep ==
  ASSUME LaunchInv, NEW p \in Proc, Stage(p)
  PROVE  LaunchInv'
<1> USE DEF Acting, Rooted, HasCa, HasPolicy, Running
<1>0. images \subseteq AgentImages /\ ShapeAt(p) /\ GuestAt(p)
  BY DEF LaunchInv
<1>1. PICK done \in SUBSET proc[p].stage :
        /\ disk' = [disk EXCEPT ![proc[p].root].staged = @ \cup done]
        /\ proc' = Goto(p, "mode") \/ Exit(p)
  BY DEF Stage
<1>2. proc[p].pc = "stage" /\ UNCHANGED <<machine, trusted, images>>
  BY DEF Stage
<1>3. /\ DOMAIN disk' = Roots
      /\ \A r \in Roots : /\ DOMAIN disk'[r] = {"ca", "policy", "staged"}
                          /\ disk'[r].ca = disk[r].ca /\ disk'[r].policy = disk[r].policy
  BY <1>1 DEF LaunchInv
<1>4. /\ DOMAIN proc' = Proc /\ DOMAIN proc'[p] = DOMAIN Idle /\ proc'[p].pc \in {"mode", "failed"}
      /\ \A f \in DOMAIN Idle \ {"pc", "vm"} : proc'[p][f] = proc[p][f]
      /\ proc'[p].vm # "on"
      /\ \A q \in Proc \ {p} : proc'[q] = proc[q]
  <2>1. proc[p].vm # "on"
    BY <1>0, <1>2 DEF GuestAt
  <2>2. CASE proc' = Goto(p, "mode")
    BY <2>1, <2>2, GotoDoes DEF Idle
  <2>3. CASE Exit(p)
    BY <1>0, <2>3 DEF Exit, LaunchInv, ShapeAt, Idle
  <2> QED
    BY <1>1, <2>2, <2>3
<1>5. ASSUME NEW q \in Proc PROVE ShapeAt(q)' /\ TrustAt(q)' /\ GuestAt(q)'
  <2>1. ShapeAt(q) /\ TrustAt(q) /\ GuestAt(q)
    BY DEF LaunchInv
  <2>2. CASE q = p
    BY <1>2, <1>4, <2>1, <2>2 DEF ShapeAt, TrustAt, GuestAt, Idle
  <2>3. CASE q # p
    <3>1. proc'[q] = proc[q]
      BY <1>4, <2>3
    <3>2. proc[q].pc \in Rooted => disk'[proc[q].root].ca = disk[proc[q].root].ca
                            /\ disk'[proc[q].root].policy = disk[proc[q].root].policy
      BY <1>3, <2>1 DEF ShapeAt
    <3> QED
      BY <1>2, <2>1, <3>1, <3>2 DEF ShapeAt, TrustAt, GuestAt
  <2> QED
    BY <2>2, <2>3
<1> QED
  BY <1>0, <1>2, <1>3, <1>4, <1>5 DEF LaunchInv

\* What p writes to its root, and whom it marks.
LEMMA OverrunDoes ==
  ASSUME LaunchInv, NEW p \in Proc, NEW from, NEW to
  PROVE  /\ DOMAIN Overrun(p, from, to) = Proc
         /\ \A q \in Proc : DOMAIN Overrun(p, from, to)[q] = DOMAIN Idle
         /\ Overrun(p, from, to)[p].pc = to
         /\ \A f \in DOMAIN Idle \ {"pc"} : Overrun(p, from, to)[p][f] = proc[p][f]
         /\ \A q \in Proc \ {p} :
              /\ \A f \in DOMAIN Idle \ {"overrun"} : Overrun(p, from, to)[q][f] = proc[q][f]
              /\ proc[q].root = proc[p].root /\ proc[q].pc \in Running \ from
                   => Overrun(p, from, to)[q].overrun
              /\ ~Overrun(p, from, to)[q].overrun => ~proc[q].overrun
<1>1. \A q \in Proc : DOMAIN proc[q] = DOMAIN Idle
  BY DEF LaunchInv, ShapeAt
<1>2. \A q \in Proc : Overrun(p, from, to)[q] =
        IF q # p /\ proc[q].root = proc[p].root /\ proc[q].pc \in Running \ from
        THEN [proc[q] EXCEPT !.overrun = TRUE] ELSE Goto(p, to)[q]
  BY DEF Overrun
<1>3. DOMAIN Overrun(p, from, to) = Proc
  BY DEF Overrun
<1> QED
  BY <1>1, <1>2, <1>3, GotoDoes DEF Idle

\* A certificate replaces that of every launch on the same root, all marked.
LEMMA InstallCaStep ==
  ASSUME LaunchInv, NEW p \in Proc, InstallCa(p)
  PROVE  LaunchInv'
<1> USE DEF Acting, Rooted, HasCa, HasPolicy, Running
<1>0. images \subseteq AgentImages /\ ShapeAt(p) /\ GuestAt(p)
  BY DEF LaunchInv
<1>1. CASE Exit(p) /\ UNCHANGED disk
  BY <1>0, <1>1, ExitStep DEF InstallCa
<1>2. CASE ~(Exit(p) /\ UNCHANGED disk)
  <2> DEFINE from == {"session", "ca"}
  <2>1. PICK left, to : /\ disk' = [disk EXCEPT ![proc[p].root].ca = left]
                        /\ proc' = Overrun(p, from, to)
                        /\ to = "failed" \/ (to = "specs" /\ left = p)
    BY <1>2 DEF InstallCa
  <2>0. proc[p].pc = "ca" /\ UNCHANGED <<machine, trusted, images>>
    BY <1>2 DEF InstallCa
  <2>2. /\ DOMAIN disk' = Roots
        /\ \A r \in Roots : /\ DOMAIN disk'[r] = {"ca", "policy", "staged"}
                            /\ disk'[r].ca = IF r = proc[p].root THEN left ELSE disk[r].ca
                            /\ disk'[r].policy = disk[r].policy
    BY <2>1 DEF LaunchInv
  <2>3. ASSUME NEW q \in Proc PROVE ShapeAt(q)' /\ TrustAt(q)' /\ GuestAt(q)'
    <3>1. ShapeAt(q) /\ TrustAt(q) /\ GuestAt(q)
      BY DEF LaunchInv
    <3>2. CASE q = p
      <4>1. /\ DOMAIN proc'[p] = DOMAIN Idle /\ proc'[p].pc = to
            /\ \A f \in DOMAIN Idle \ {"pc"} : proc'[p][f] = proc[p][f]
        BY <2>1, OverrunDoes
      <4>2. proc[p].root \in Roots
        BY <1>0, <2>0 DEF ShapeAt
      <4> QED
        BY <2>0, <2>1, <2>2, <3>1, <3>2, <4>1, <4>2 DEF ShapeAt, TrustAt, GuestAt, Idle
    <3>3. CASE q # p
      <4>1. /\ DOMAIN proc'[q] = DOMAIN Idle
            /\ \A f \in DOMAIN Idle \ {"overrun"} : proc'[q][f] = proc[q][f]
            /\ proc[q].root = proc[p].root /\ proc[q].pc \in HasCa => proc'[q].overrun
            /\ ~proc'[q].overrun => ~proc[q].overrun
        BY <2>1, <3>3, OverrunDoes
      <4>2. /\ proc'[q].pc = proc[q].pc /\ proc'[q].root = proc[q].root
            /\ proc'[q].file = proc[q].file /\ proc'[q].vm = proc[q].vm
            /\ proc'[q].allowed = proc[q].allowed /\ proc'[q].agreed = proc[q].agreed
            /\ proc'[q].unwritten = proc[q].unwritten
        BY <4>1 DEF Idle
      <4>3. ShapeAt(q)'
        BY <3>1, <4>1, <4>2 DEF ShapeAt
      <4>4. TrustAt(q)'
        BY <2>0, <3>1, <4>2 DEF TrustAt
      <4>5. GuestAt(q)'
        BY <2>2, <3>1, <4>1, <4>2 DEF GuestAt, ShapeAt
      <4> QED
        BY <4>3, <4>4, <4>5
    <3> QED
      BY <3>2, <3>3
  <2> QED
    BY <1>0, <2>0, <2>1, <2>2, <2>3, OverrunDoes DEF LaunchInv
<1> QED
  BY <1>1, <1>2

\* And so does a policy, for those that had written theirs.
LEMMA WritePolicyStep ==
  ASSUME LaunchInv, NEW p \in Proc, WritePolicy(p)
  PROVE  LaunchInv'
<1> USE DEF Acting, Rooted, HasCa, HasPolicy, Running
<1>0. images \subseteq AgentImages /\ ShapeAt(p) /\ GuestAt(p)
  BY DEF LaunchInv
<1> DEFINE from == {"session", "ca", "specs", "policy"}
<1>1. proc[p].pc = "policy" /\ UNCHANGED <<machine, trusted, images>>
  BY DEF WritePolicy
<1>2. \/ /\ UNCHANGED disk /\ proc' = [Goto(p, "boot") EXCEPT ![p].unwritten = TRUE]
      \/ \E policy : /\ disk' = [disk EXCEPT ![proc[p].root].policy = policy]
                     /\ \/ policy = proc[p].allowed /\ proc' = Overrun(p, from, "boot")
                        \/ proc' = [Overrun(p, from, "boot") EXCEPT ![p].unwritten = TRUE]
  BY DEF WritePolicy
<1>3. CASE UNCHANGED disk /\ proc' = [Goto(p, "boot") EXCEPT ![p].unwritten = TRUE]
  <2>1. /\ DOMAIN proc' = Proc /\ DOMAIN proc'[p] = DOMAIN Idle
        /\ proc'[p].pc = "boot" /\ proc'[p].unwritten
        /\ \A f \in DOMAIN Idle \ {"pc", "unwritten"} : proc'[p][f] = proc[p][f]
        /\ \A q \in Proc \ {p} : proc'[q] = proc[q]
    BY <1>3, GotoDoes DEF Idle
  <2>2. ShapeAt(p) /\ TrustAt(p) /\ GuestAt(p)
    BY DEF LaunchInv
  <2>3. ShapeAt(p)' /\ TrustAt(p)' /\ GuestAt(p)'
    BY <1>1, <1>3, <2>1, <2>2 DEF ShapeAt, TrustAt, GuestAt, Idle
  <2> QED
    BY <1>0, <1>1, <1>3, <2>1, <2>3, QuietStep
<1>4. ASSUME NEW policy, disk' = [disk EXCEPT ![proc[p].root].policy = policy],
             \/ policy = proc[p].allowed /\ proc' = Overrun(p, from, "boot")
             \/ proc' = [Overrun(p, from, "boot") EXCEPT ![p].unwritten = TRUE]
      PROVE  LaunchInv'
  <2>1. /\ DOMAIN disk' = Roots
        /\ \A r \in Roots : /\ DOMAIN disk'[r] = {"ca", "policy", "staged"}
                            /\ disk'[r].ca = disk[r].ca
                            /\ disk'[r].policy = IF r = proc[p].root THEN policy
                                                 ELSE disk[r].policy
    BY <1>4 DEF LaunchInv
  <2>2. /\ DOMAIN proc' = Proc /\ DOMAIN proc'[p] = DOMAIN Idle /\ proc'[p].pc = "boot"
        /\ \A f \in DOMAIN Idle \ {"pc", "unwritten"} : proc'[p][f] = proc[p][f]
        /\ proc'[p].unwritten \/ policy = proc[p].allowed
        /\ \A q \in Proc \ {p} : proc'[q] = Overrun(p, from, "boot")[q]
    <3>1. CASE policy = proc[p].allowed /\ proc' = Overrun(p, from, "boot")
      BY <3>1, OverrunDoes
    <3>2. CASE proc' = [Overrun(p, from, "boot") EXCEPT ![p].unwritten = TRUE]
      BY <3>2, OverrunDoes DEF Idle
    <3> QED
      BY <1>4, <3>1, <3>2
  <2>3. ASSUME NEW q \in Proc PROVE ShapeAt(q)' /\ TrustAt(q)' /\ GuestAt(q)'
    <3>1. ShapeAt(q) /\ TrustAt(q) /\ GuestAt(q)
      BY DEF LaunchInv
    <3>2. CASE q = p
      <4>1. proc[p].root \in Roots
        BY <1>0, <1>1 DEF ShapeAt
      <4> QED
        BY <1>1, <2>1, <2>2, <3>1, <3>2, <4>1 DEF ShapeAt, TrustAt, GuestAt, Idle
    <3>3. CASE q # p
      <4>1. /\ DOMAIN proc'[q] = DOMAIN Idle
            /\ \A f \in DOMAIN Idle \ {"overrun"} : proc'[q][f] = proc[q][f]
            /\ proc[q].root = proc[p].root /\ proc[q].pc \in HasPolicy => proc'[q].overrun
            /\ ~proc'[q].overrun => ~proc[q].overrun
        BY <2>2, <3>3, OverrunDoes
      <4>2. /\ proc'[q].pc = proc[q].pc /\ proc'[q].root = proc[q].root
            /\ proc'[q].file = proc[q].file /\ proc'[q].vm = proc[q].vm
            /\ proc'[q].allowed = proc[q].allowed /\ proc'[q].agreed = proc[q].agreed
            /\ proc'[q].unwritten = proc[q].unwritten
        BY <4>1 DEF Idle
      <4>3. ShapeAt(q)'
        BY <3>1, <4>1, <4>2 DEF ShapeAt
      <4>4. TrustAt(q)'
        BY <1>1, <3>1, <4>2 DEF TrustAt
      <4>5. GuestAt(q)'
        BY <2>1, <3>1, <4>1, <4>2 DEF GuestAt, ShapeAt
      <4> QED
        BY <4>3, <4>4, <4>5
    <3> QED
      BY <3>2, <3>3
  <2> QED
    BY <1>0, <1>1, <2>1, <2>2, <2>3 DEF LaunchInv
<1> QED
  BY <1>2, <1>3, <1>4

LEMMA NextLaunch == LaunchInv /\ [Next]_vars => LaunchInv'
<1>1. ASSUME LaunchInv, UNCHANGED vars PROVE LaunchInv'
  BY <1>1 DEF LaunchInv, ShapeAt, TrustAt, GuestAt, vars
<1> QED
  BY <1>1, LoadSteps, CommandSteps, SessionSteps, StageStep, InstallCaStep, WritePolicyStep DEF Next

LEMMA LaunchInvariant == Spec => []LaunchInv
BY InitLaunch, NextLaunch, PTL DEF Spec

----------------------------------------------------------------------------
\* A guest's root file system holds the certificate and the policy of its own
\* session, unless another launch on the same root has passed it since; the
\* policy also unless it could not be written, of which the launch takes no
\* notice (vm.rs:406-449, cmd/exec.rs:104-109, 268-269, 650-656).
THEOREM OwnCertificateAndPolicy == Spec => []GuestSeesItsOwn
<1>1. LaunchInv => GuestSeesItsOwn
  BY DEF LaunchInv, GuestAt, GuestSeesItsOwn, HasCa, HasPolicy, Running
<1> QED
  BY <1>1, LaunchInvariant, PTL

(***************************************************************************)
(* Texts that are written and read again                                   *)
(***************************************************************************)

\* Where a token stands first, and last, in a text.
LEMMA FirstIs ==
  ASSUME NEW S, NEW t \in Seq(S), NEW c, NEW n \in 1 .. Len(t), t[n] = c,
         \A i \in 1 .. n - 1 : t[i] # c
  PROVE  FirstAt(t, c) = n
<1> DEFINE I == {i \in 1 .. Len(t) : t[i] = c}
<1>1. FirstAt(t, c) = IF I # {} THEN Min(I) ELSE 0
  BY DEF FirstAt, SelectInSeq
<1>2. n \in I /\ I \subseteq Int /\ \A i \in I : n <= i
  <2>1. Len(t) \in Nat
    BY LenProperties
  <2> QED
    BY <2>1
<1> HIDE DEF I
<1>3. Min(I) = n
  <2>1. Min(I) \in I /\ \A i \in I : Min(I) <= i
    BY <1>2 DEF Min
  <2>2. n \in Int /\ Min(I) \in Int /\ n <= Min(I) /\ Min(I) <= n
    BY <1>2, <2>1
  <2> QED
    BY <2>2
<1> QED
  BY <1>1, <1>2, <1>3

LEMMA FirstIsNone ==
  ASSUME NEW t, NEW c, \A i \in 1 .. Len(t) : t[i] # c
  PROVE  FirstAt(t, c) = 0
<1> DEFINE I == {i \in 1 .. Len(t) : t[i] = c}
<1>1. FirstAt(t, c) = IF I # {} THEN Min(I) ELSE 0
  BY DEF FirstAt, SelectInSeq
<1> QED
  BY <1>1

LEMMA LastIs ==
  ASSUME NEW S, NEW t \in Seq(S), NEW c, NEW n \in 1 .. Len(t), t[n] = c,
         \A i \in n + 1 .. Len(t) : t[i] # c
  PROVE  LastAt(t, c) = n
<1> DEFINE I == {i \in 1 .. Len(t) : t[i] = c}
<1>1. LastAt(t, c) = IF I # {} THEN Max(I) ELSE 0
  BY DEF LastAt, SelectLastInSeq
<1>2. n \in I /\ I \subseteq Int /\ \A i \in I : i <= n
  <2>1. Len(t) \in Nat
    BY LenProperties
  <2> QED
    BY <2>1
<1> HIDE DEF I
<1>3. Max(I) = n
  <2>1. Max(I) \in I /\ \A i \in I : Max(I) >= i
    BY <1>2 DEF Max
  <2>2. n \in Int /\ Max(I) \in Int /\ n >= Max(I) /\ Max(I) >= n
    BY <1>2, <2>1
  <2> QED
    BY <2>2
<1> QED
  BY <1>1, <1>2, <1>3

\* A piece of a text is known by its tokens.
LEMMA PieceIs ==
  ASSUME NEW S, NEW t \in Seq(S), NEW u \in Seq(S), NEW n \in Nat, n + Len(u) <= Len(t),
         \A i \in 1 .. Len(u) : t[n + i] = u[i]
  PROVE  SubSeq(t, n + 1, n + Len(u)) = u
<1> DEFINE p == SubSeq(t, n + 1, n + Len(u))
<1>1. Len(t) \in Nat /\ Len(u) \in Nat
  BY LenProperties
<1>2. p \in Seq(S) /\ Len(p) = Len(u) /\ \A i \in 1 .. Len(u) : p[i] = t[n + i]
  <2>1. \A i \in n + 1 .. n + Len(u) : t[i] \in S
    BY <1>1, ElementOfSeq
  <2>2. /\ p \in Seq(S)
        /\ Len(p) = IF n + 1 <= n + Len(u) THEN n + Len(u) - (n + 1) + 1 ELSE 0
        /\ \A i \in 1 .. n + Len(u) - (n + 1) + 1 : p[i] = t[n + 1 + i - 1]
    BY <1>1, <2>1, SubSeqProperties
  <2> HIDE DEF p
  <2>3. PICK k \in Nat : k = Len(u)
    BY <1>1
  <2>4. /\ n + k - (n + 1) + 1 = k /\ (IF n + 1 <= n + k THEN n + k - (n + 1) + 1 ELSE 0) = k
        /\ \A i \in 1 .. k : n + 1 + i - 1 = n + i
    OBVIOUS
  <2>5. Len(p) = k /\ \A i \in 1 .. k : p[i] = t[n + i]
    BY <2>2, <2>3, <2>4
  <2> QED
    BY <2>2, <2>3, <2>5
<1> HIDE DEF p
<1>3. p = u
  BY <1>1, <1>2, SeqEqual
<1> QED
  BY <1>3 DEF p

\* What stands where in a text of two pieces with a separator between them.
LEMMA Joined ==
  ASSUME NEW S, NEW u \in Seq(S), NEW v \in Seq(S), NEW c \in S
  PROVE  LET t == u \o <<c>> \o v
         IN  /\ t \in Seq(S) /\ Len(t) = Len(u) + 1 + Len(v)
             /\ Len(u) \in Nat /\ Len(v) \in Nat
             /\ \A i \in 1 .. Len(u) : t[i] = u[i]
             /\ t[Len(u) + 1] = c
             /\ \A i \in 1 .. Len(v) : t[Len(u) + 1 + i] = v[i]
             /\ SubSeq(t, 1, Len(u)) = u
             /\ SubSeq(t, Len(u) + 2, Len(t)) = v
<1> DEFINE w == u \o <<c>>
           t == w \o v
<1>1. <<c>> \in Seq(S) /\ Len(<<c>>) = 1 /\ <<c>>[1] = c /\ Len(u) \in Nat /\ Len(v) \in Nat
  BY LenProperties
<1>2. /\ w \in Seq(S) /\ Len(w) = Len(u) + 1
      /\ \A i \in 1 .. Len(u) + 1 : w[i] = IF i <= Len(u) THEN u[i] ELSE <<c>>[i - Len(u)]
  BY <1>1, ConcatProperties
<1>3. /\ t \in Seq(S) /\ Len(t) = Len(w) + Len(v)
      /\ \A i \in 1 .. Len(w) + Len(v) : t[i] = IF i <= Len(w) THEN w[i] ELSE v[i - Len(w)]
  <2> HIDE DEF w
  <2> QED
    BY <1>2, ConcatProperties
<1> HIDE DEF t, w
<1>4. /\ Len(t) = Len(u) + 1 + Len(v)
      /\ \A i \in 1 .. Len(u) : t[i] = u[i]
      /\ t[Len(u) + 1] = c
      /\ \A i \in 1 .. Len(v) : t[Len(u) + 1 + i] = v[i]
  <2>1. PICK a \in Nat, b \in Nat : a = Len(u) /\ b = Len(v)
    BY <1>1
  <2>2. /\ Len(w) = a + 1 /\ Len(t) = a + 1 + b /\ w[a + 1] = c
        /\ \A i \in 1 .. a : w[i] = u[i]
    BY <1>1, <1>2, <1>3, <2>1
  <2>3. \A i \in 1 .. a + 1 + b : t[i] = IF i <= a + 1 THEN w[i] ELSE v[i - (a + 1)]
    BY <1>3, <2>1, <2>2
  <2>4. \A i \in 1 .. a + 1 : t[i] = w[i]
    BY <2>3
  <2>5. \A i \in 1 .. b : t[a + 1 + i] = v[i]
    <3> SUFFICES ASSUME NEW i \in 1 .. b PROVE t[a + 1 + i] = v[i]
      OBVIOUS
    <3>1. a + 1 + i \in 1 .. a + 1 + b /\ ~(a + 1 + i <= a + 1) /\ a + 1 + i - (a + 1) = i
      OBVIOUS
    <3> QED
      BY <2>3, <3>1
  <2> QED
    BY <2>1, <2>2, <2>4, <2>5
<1>5. SubSeq(t, 0 + 1, 0 + Len(u)) = u
  <2>1. 0 \in Nat /\ 0 + Len(u) <= Len(t) /\ \A i \in 1 .. Len(u) : t[0 + i] = u[i]
    BY <1>1, <1>4
  <2> QED
    BY <1>3, <2>1, PieceIs
<1>6. SubSeq(t, Len(u) + 1 + 1, Len(u) + 1 + Len(v)) = v
  <2>1. Len(u) + 1 \in Nat /\ Len(u) + 1 + Len(v) <= Len(t)
    BY <1>1, <1>4
  <2> QED
    BY <1>3, <1>4, <2>1, PieceIs
<1>7. 0 + 1 = 1 /\ 0 + Len(u) = Len(u) /\ Len(u) + 1 + 1 = Len(u) + 2
  BY <1>1
<1> QED
  BY <1>1, <1>3, <1>4, <1>5, <1>6, <1>7 DEF t, w

\* A text joined at a token that the one side is free of comes apart there.
LEMMA SecretComesBack ==
  ASSUME NEW S, NEW name \in Seq(S), NEW value \in Seq(S), NEW hosts \in Seq(S),
         "=" \notin ToSet(name), Colon \notin ToSet(hosts)
  PROVE  ParseSecret(SecretSpec(name, [value |-> value, hosts |-> hosts]))
           = [name |-> name, value |-> value, hosts |-> hosts]
<1> DEFINE R == S \cup {"=", Colon}
           left == name \o <<"=">> \o value
           text == left \o <<Colon>> \o hosts
<1>1. name \in Seq(R) /\ value \in Seq(R) /\ hosts \in Seq(R) /\ "=" \in R /\ Colon \in R
  OBVIOUS
<1> HIDE DEF R
<1>2. /\ left \in Seq(R) /\ Len(left) = Len(name) + 1 + Len(value)
      /\ Len(name) \in Nat /\ Len(value) \in Nat
      /\ \A i \in 1 .. Len(name) : left[i] = name[i]
      /\ left[Len(name) + 1] = "="
      /\ SubSeq(left, 1, Len(name)) = name
      /\ SubSeq(left, Len(name) + 2, Len(left)) = value
  BY <1>1, Joined
<1> HIDE DEF left
<1>3. /\ text \in Seq(R) /\ Len(text) = Len(left) + 1 + Len(hosts)
      /\ Len(left) \in Nat /\ Len(hosts) \in Nat
      /\ text[Len(left) + 1] = Colon
      /\ \A i \in 1 .. Len(hosts) : text[Len(left) + 1 + i] = hosts[i]
      /\ SubSeq(text, 1, Len(left)) = left
      /\ SubSeq(text, Len(left) + 2, Len(text)) = hosts
  <2>1. left \in Seq(R) /\ hosts \in Seq(R) /\ Colon \in R
    BY <1>1, <1>2
  <2> QED
    BY ONLY <2>1, Joined DEF text
<1> HIDE DEF text
<1>4. LastAt(text, Colon) = Len(left) + 1
  <2>1. \A i \in Len(left) + 1 + 1 .. Len(text) : text[i] # Colon
    <3> SUFFICES ASSUME NEW i \in Len(left) + 1 + 1 .. Len(text) PROVE text[i] # Colon
      OBVIOUS
    <3>1. PICK j \in 1 .. Len(hosts) : i = Len(left) + 1 + j
      <4>1. i - (Len(left) + 1) \in 1 .. Len(hosts) /\ i = Len(left) + 1 + (i - (Len(left) + 1))
        BY <1>3
      <4> QED
        BY <4>1
    <3>2. j \in DOMAIN hosts
      BY <1>1, LenProperties
    <3> QED
      BY <1>3, <3>1, <3>2 DEF ToSet
  <2>2. Len(left) + 1 \in 1 .. Len(text)
    BY <1>3
  <2> QED
    BY <1>3, <2>1, <2>2, LastIs
<1>5. FirstAt(left, "=") = Len(name) + 1
  <2>1. \A i \in 1 .. Len(name) + 1 - 1 : left[i] # "="
    <3>1. DOMAIN name = 1 .. Len(name)
      BY <1>1, LenProperties
    <3> QED
      BY <1>2, <3>1 DEF ToSet
  <2>2. PICK n \in 1 .. Len(left) : n = Len(name) + 1
    BY <1>2
  <2>3. left \in Seq(R) /\ left[n] = "=" /\ \A i \in 1 .. n - 1 : left[i] # "="
    BY <1>2, <2>1, <2>2
  <2>4. FirstAt(left, "=") = n
    BY ONLY <2>3, FirstIs
  <2> QED
    BY <2>2, <2>4
<1>6. /\ Len(left) + 1 - 1 = Len(left) /\ Len(left) + 1 + 1 = Len(left) + 2
      /\ Len(name) + 1 - 1 = Len(name) /\ Len(name) + 1 + 1 = Len(name) + 2
  BY <1>2, <1>3
<1>7. SecretSpec(name, [value |-> value, hosts |-> hosts]) = text
  BY DEF SecretSpec, text, left
<1>8. ParseSecret(text) = [name |-> name, value |-> value, hosts |-> hosts]
  <2>1. /\ SubSeq(text, 1, LastAt(text, Colon) - 1) = left
        /\ SubSeq(text, LastAt(text, Colon) + 1, Len(text)) = hosts
    BY <1>3, <1>4, <1>6
  <2>2. /\ SubSeq(left, 1, FirstAt(left, "=") - 1) = name
        /\ SubSeq(left, FirstAt(left, "=") + 1, Len(left)) = value
    BY <1>2, <1>5, <1>6
  <2> QED
    BY <2>1, <2>2, Zenon DEF ParseSecret
<1> QED
  BY <1>7, <1>8

\* ":ro" comes off the text it was put behind.
EndsInRo(t) == Len(t) > 1 /\ t[Len(t) - 1] = Colon /\ t[Len(t)] = "ro"

LEMMA RoComesOff ==
  ASSUME NEW S, NEW base \in Seq(S), NEW ro \in BOOLEAN, ~EndsInRo(base)
  PROVE  LET t == base \o (IF ro THEN <<Colon, "ro">> ELSE <<>>)
         IN  EndsInRo(t) = ro /\ (IF ro THEN SubSeq(t, 1, Len(t) - 2) ELSE t) = base
<1> DEFINE R == S \cup {Colon, "ro"}
           tail == <<Colon, "ro">>
           t == base \o tail
<1>1. base \in Seq(R) /\ tail \in Seq(R) /\ Len(tail) = 2 /\ tail[1] = Colon /\ tail[2] = "ro"
  OBVIOUS
<1>2. base \o <<>> = base
  BY ConcatEmptySeq
<1>3. CASE ~ro
  <2>1. base \o (IF ro THEN tail ELSE <<>>) = base
    BY <1>2, <1>3
  <2>2. EndsInRo(base) = ro
    BY <1>3 DEF EndsInRo
  <2> QED
    BY <1>3, <2>1, <2>2, Zenon
<1>4. CASE ro
  <2> HIDE DEF R, tail
  <2>1. PICK n \in Nat : n = Len(base)
    BY <1>1, LenProperties
  <2>2. /\ t \in Seq(R) /\ Len(t) = n + 2
        /\ \A i \in 1 .. n + 2 : t[i] = IF i <= n THEN base[i] ELSE tail[i - n]
    <3>1. /\ t \in Seq(R) /\ Len(t) = Len(base) + Len(tail)
          /\ \A i \in 1 .. Len(base) + Len(tail) :
               t[i] = IF i <= Len(base) THEN base[i] ELSE tail[i - Len(base)]
      BY ONLY <1>1, ConcatProperties
    <3> HIDE DEF t
    <3> QED
      BY <1>1, <2>1, <3>1
  <2> HIDE DEF t
  <2>3. t[n + 1] = tail[1] /\ t[n + 2] = tail[2] /\ \A i \in 1 .. n : t[0 + i] = base[i]
    BY <2>2
  <2>4. EndsInRo(t)
    BY <1>1, <2>2, <2>3 DEF EndsInRo
  <2>5. SubSeq(t, 0 + 1, 0 + Len(base)) = base
    <3>1. 0 \in Nat /\ 0 + Len(base) <= Len(t) /\ \A i \in 1 .. Len(base) : t[0 + i] = base[i]
      BY <2>1, <2>2, <2>3
    <3> QED
      BY <1>1, <2>2, <3>1, PieceIs
  <2>6. 0 + 1 = 1 /\ 0 + Len(base) = Len(t) - 2
    BY <2>1, <2>2
  <2>7. SubSeq(t, 1, Len(t) - 2) = base
    BY <2>5, <2>6
  <2> QED
    BY <1>4, <2>4, <2>7 DEF t, tail
<1> QED
  BY <1>3, <1>4

\* And so does a mount's target, behind a source without a colon.
LEMMA MountComesBack ==
  ASSUME NEW S, NEW source \in Seq(S), NEW target \in Seq(S), NEW ro \in BOOLEAN,
         Colon \notin ToSet(source), Colon \notin ToSet(target), target # <<"ro">>
  PROVE  ParseMount(MountSpec([source |-> source, target |-> target, ro |-> ro]))
           = [source |-> source, target |-> IF target = <<>> THEN Workspace ELSE target, ro |-> ro]
<1> DEFINE R == S \cup {Colon, "ro"}
           base == source \o (IF target = <<>> THEN <<>> ELSE <<Colon>> \o target)
           text == base \o (IF ro THEN <<Colon, "ro">> ELSE <<>>)
           read == [source |-> source, target |-> IF target = <<>> THEN Workspace ELSE target, ro |-> ro]
<1>1. source \in Seq(R) /\ target \in Seq(R) /\ Colon \in R
  OBVIOUS
<1> HIDE DEF R
<1>2. /\ \A i \in 1 .. Len(source) : source[i] # Colon
      /\ \A i \in 1 .. Len(target) : target[i] # Colon
  <2>1. DOMAIN source = 1 .. Len(source) /\ DOMAIN target = 1 .. Len(target)
    BY <1>1, LenProperties
  <2> QED
    BY <2>1 DEF ToSet
<1>3. PICK a \in Nat, b \in Nat : a = Len(source) /\ b = Len(target)
  BY <1>1, LenProperties
<1>4. /\ base \in Seq(R) /\ ~EndsInRo(base)
      /\ IF target = <<>> THEN base = source /\ FirstAt(base, Colon) = 0
         ELSE /\ FirstAt(base, Colon) = a + 1 /\ Len(base) # a + 1
              /\ SubSeq(base, 1, a) = source /\ SubSeq(base, a + 2, Len(base)) = target
  <2>1. CASE target = <<>>
    <3>1. base = source
      BY <1>1, <2>1, ConcatEmptySeq
    <3> HIDE DEF base
    <3>2. FirstAt(base, Colon) = 0
      BY <1>2, <3>1, FirstIsNone
    <3>3. ~EndsInRo(base)
      BY <1>2, <1>3, <3>1 DEF EndsInRo
    <3> QED
      BY <1>1, <2>1, <3>1, <3>2, <3>3
  <2>2. CASE target # <<>>
    <3>1. base = source \o <<Colon>> \o target
      <4>1. <<Colon>> \in Seq(R)
        BY <1>1
      <4>2. source \o <<Colon>> \o target = source \o (<<Colon>> \o target)
        BY <1>1, <4>1, ConcatAssociative
      <4> QED
        BY <2>2, <4>2
    <3>2. /\ base \in Seq(R) /\ Len(base) = Len(source) + 1 + Len(target)
          /\ \A i \in 1 .. Len(source) : base[i] = source[i]
          /\ base[Len(source) + 1] = Colon
          /\ \A i \in 1 .. Len(target) : base[Len(source) + 1 + i] = target[i]
          /\ SubSeq(base, 1, Len(source)) = source
          /\ SubSeq(base, Len(source) + 2, Len(base)) = target
      <4> HIDE DEF base
      <4> QED
        BY ONLY <1>1, <3>1, Joined
    <3> HIDE DEF base
    <3>3. b # 0
      BY <1>1, <1>3, <2>2, EmptySeq
    <3>4. FirstAt(base, Colon) = a + 1
      <4>1. a + 1 \in 1 .. Len(base) /\ base[a + 1] = Colon
        BY <1>3, <3>2
      <4>2. \A i \in 1 .. a + 1 - 1 : base[i] # Colon
        BY <1>2, <1>3, <3>2
      <4>3. PICK n \in 1 .. Len(base) : n = a + 1
        BY <4>1
      <4>4. base \in Seq(R) /\ base[n] = Colon /\ \A i \in 1 .. n - 1 : base[i] # Colon
        BY <3>2, <4>1, <4>2, <4>3
      <4>5. FirstAt(base, Colon) = n
        BY ONLY <4>4, FirstIs
      <4> QED
        BY <4>3, <4>5
    <3>5. ~EndsInRo(base)
      <4> SUFFICES ASSUME EndsInRo(base) PROVE FALSE
        OBVIOUS
      <4>1. Len(base) = a + 1 + b /\ base[a + 1 + b - 1] = Colon /\ base[a + 1 + b] = "ro"
        BY <1>3, <3>2 DEF EndsInRo
      <4>2. CASE b = 1
        <5>1. target[1] = "ro" /\ Len(target) = 1
          BY <1>3, <3>2, <4>1, <4>2
        <5>2. target = <<"ro">>
          <6>1. <<"ro">> \in Seq(R) /\ Len(<<"ro">>) = 1 /\ <<"ro">>[1] = "ro"
            BY DEF R
          <6> QED
            BY <1>1, <5>1, <6>1, SeqEqual
        <5> QED
          BY <5>2
      <4>3. CASE b # 1
        <5>1. b - 1 \in 1 .. b /\ a + 1 + b - 1 = a + 1 + (b - 1)
          BY <3>3, <4>3
        <5>2. target[b - 1] = Colon
          BY <1>3, <3>2, <4>1, <5>1
        <5> QED
          BY <1>2, <1>3, <5>1, <5>2
      <4> QED
        BY <4>2, <4>3
    <3>6. Len(base) # a + 1
      BY <1>3, <3>2, <3>3
    <3> QED
      BY <1>3, <2>2, <3>2, <3>4, <3>5, <3>6
  <2> QED
    BY <2>1, <2>2
<1> HIDE DEF base
<1>5. EndsInRo(text) = ro /\ (IF ro THEN SubSeq(text, 1, Len(text) - 2) ELSE text) = base
  BY <1>4, RoComesOff
<1> HIDE DEF text
<1>6. ParseMount(text) =
        IF FirstAt(base, Colon) \in {0, Len(base)}
        THEN [source |-> base, target |-> Workspace, ro |-> ro]
        ELSE [source |-> SubSeq(base, 1, FirstAt(base, Colon) - 1),
              target |-> SubSeq(base, FirstAt(base, Colon) + 1, Len(base)), ro |-> ro]
  BY <1>5, Zenon DEF ParseMount, EndsInRo
<1>7. ParseMount(text) = read
  <2>1. CASE target = <<>>
    BY <1>4, <1>6, <2>1
  <2>2. CASE target # <<>>
    <3>1. a + 1 - 1 = a /\ a + 1 + 1 = a + 2 /\ a + 1 # 0
      BY <1>3
    <3>2. FirstAt(base, Colon) \notin {0, Len(base)}
      BY <1>4, <2>2, <3>1
    <3>3. /\ SubSeq(base, 1, FirstAt(base, Colon) - 1) = source
          /\ SubSeq(base, FirstAt(base, Colon) + 1, Len(base)) = target
      BY <1>4, <2>2, <3>1
    <3> QED
      BY <1>6, <2>2, <3>2, <3>3, Zenon
  <2> QED
    BY <2>1, <2>2
<1>8. MountSpec([source |-> source, target |-> target, ro |-> ro]) = text
  BY DEF MountSpec, text, base
<1> QED
  BY <1>7, <1>8

(***************************************************************************)
(* The layers                                                              *)
(***************************************************************************)

LEMMA Least ==
  ASSUME NEW S \in SUBSET Nat, S # {}
  PROVE  \E n \in S : \A m \in S : n <= m
<1> DEFINE R == {ss \in Nat \X Nat : ss[1] < ss[2]}
<1>1. IsWellFoundedOn(R, Nat)
  BY NatLessThanWellFounded DEF OpToRel
<1>2. PICK n \in S : \A m \in S : <<m, n>> \notin R
  BY <1>1, WFMin, Zenon
<1>3. \A m \in S : ~(m < n)
  BY <1>2
<1> QED
  BY <1>3

\* The walk of Extend over the first m of the forwards.
Joins(g, fs, more, m) == g = [n \in 0 .. m |-> IF n = 0 THEN fs ELSE Behind(g[n - 1], more[n])]

LEMMA JoinsValues ==
  ASSUME NEW g, NEW fs, NEW more, NEW m \in Nat, Joins(g, fs, more, m)
  PROVE  g[0] = fs /\ \A i \in 1 .. m : g[i] = Behind(g[i - 1], more[i])
<1> DEFINE e == [n \in 0 .. m |-> IF n = 0 THEN fs ELSE Behind(g[n - 1], more[n])]
<1>1. g = e
  BY DEF Joins
<1>2. e[0] = fs /\ \A i \in 1 .. m : e[i] = Behind(g[i - 1], more[i])
  OBVIOUS
<1> HIDE DEF e
<1> QED
  BY <1>1, <1>2

LEMMA JoinsExists ==
  ASSUME NEW fs, NEW more, NEW m \in Nat
  PROVE  \E g : Joins(g, fs, more, m)
<1> DEFINE Bad == {n \in Nat : ~\E g : Joins(g, fs, more, n)}
<1>1. SUFFICES ASSUME Bad # {} PROVE FALSE
  OBVIOUS
<1>2. PICK n \in Bad : \A i \in Bad : n <= i
  BY <1>1, Least
<1>3. CASE n = 0
  <2> DEFINE g == [i \in 0 .. 0 |-> fs]
  <2>1. g = [i \in 0 .. 0 |-> IF i = 0 THEN fs ELSE Behind(g[i - 1], more[i])]
    OBVIOUS
  <2>2. Joins(g, fs, more, 0)
    BY <2>1 DEF Joins
  <2> QED
    BY <1>3, <2>2
<1>4. CASE n # 0
  <2>1. n \in Nat /\ n - 1 \in Nat /\ n - 1 \notin Bad
    BY <1>2, <1>4
  <2>2. PICK g : Joins(g, fs, more, n - 1)
    BY <2>1
  <2>3. g[0] = fs /\ \A i \in 1 .. n - 1 : g[i] = Behind(g[i - 1], more[i])
    BY <2>1, <2>2, JoinsValues
  <2> DEFINE v == Behind(g[n - 1], more[n])
             h == [i \in 0 .. n |-> IF i = n THEN v ELSE g[i]]
             e == [i \in 0 .. n |-> IF i = 0 THEN fs ELSE Behind(h[i - 1], more[i])]
  <2>4. h[n] = v /\ \A i \in 0 .. n - 1 : h[i] = g[i]
    <3> HIDE DEF v
    <3> QED
      BY <1>4, <2>1
  <2>5. e[0] = fs /\ \A i \in 1 .. n : e[i] = Behind(h[i - 1], more[i])
    BY <2>1
  <2>6. h = [i \in 0 .. n |-> h[i]] /\ e = [i \in 0 .. n |-> e[i]]
    OBVIOUS
  <2> HIDE DEF h, e
  <2>7. \A i \in 0 .. n : h[i] = e[i]
    <3> SUFFICES ASSUME NEW i \in 0 .. n PROVE h[i] = e[i]
      OBVIOUS
    <3>1. i = 0 \/ i = n \/ i \in 1 .. n - 1
      BY <2>1
    <3>2. 0 \in 0 .. n - 1 /\ n - 1 \in 0 .. n - 1 /\ n \in 1 .. n
      BY <1>4, <2>1
    <3>3. i \in 1 .. n - 1 => i - 1 \in 0 .. n - 1 /\ i \in 1 .. n /\ i \in 0 .. n - 1
      BY <2>1
    <3> QED
      BY <2>3, <2>4, <2>5, <3>1, <3>2, <3>3
  <2>8. h = e
    BY <2>6, <2>7
  <2>9. Joins(h, fs, more, n)
    BY <2>8 DEF Joins, e
  <2> QED
    BY <2>9
<1> QED
  BY <1>3, <1>4

\* Nothing is lost, neither of the one nor of the other, and nothing added.
LEMMA ExtendKeeps ==
  ASSUME NEW fs \in Seq(Ports), NEW more \in Seq(Ports)
  PROVE  /\ Extend(fs, more) \in Seq(Ports)
         /\ ToSet(Extend(fs, more)) = ToSet(fs) \cup ToSet(more)
<1> DEFINE m == Len(more)
<1>1. m \in Nat /\ DOMAIN more = 1 .. m
  BY LenProperties
<1>2. PICK g : Joins(g, fs, more, m) /\ Extend(fs, more) = g[m]
  <2> DEFINE Walk == CHOOSE g : g = [n \in 0 .. Len(more) |->
                                      IF n = 0 THEN fs ELSE Behind(g[n - 1], more[n])]
  <2>1. Extend(fs, more) = Walk[Len(more)]
    BY DEF Extend
  <2>2. \E g : Joins(g, fs, more, m)
    BY <1>1, JoinsExists
  <2>3. Joins(Walk, fs, more, m)
    BY <2>2 DEF Joins
  <2> QED
    BY <2>1, <2>3
<1> DEFINE Good(i) == /\ g[i] \in Seq(Ports) /\ ToSet(fs) \subseteq ToSet(g[i])
                      /\ ToSet(g[i]) \subseteq ToSet(fs) \cup ToSet(more)
                      /\ \A j \in 1 .. i : more[j] \in ToSet(g[i])
           Bad == {i \in Nat : i <= m /\ ~Good(i)}
<1>3. g[0] = fs /\ \A i \in 1 .. m : g[i] = Behind(g[i - 1], more[i])
  <2> HIDE DEF m
  <2> QED
    BY <1>1, <1>2, JoinsValues
<1>4. \A i \in 1 .. m : g[i] = IF more[i] \in ToSet(g[i - 1]) THEN g[i - 1] ELSE Append(g[i - 1], more[i])
  BY <1>3 DEF Behind
<1>5. ASSUME Bad # {} PROVE FALSE
  <2>1. Bad \in SUBSET Nat
    OBVIOUS
  <2>2. PICK i \in Bad : \A j \in Bad : i <= j
    <3> HIDE DEF Bad
    <3> QED
      BY <1>5, <2>1, Least
  <2>3. i \in Nat /\ i <= m /\ ~Good(i)
    OBVIOUS
  <2>4. i # 0
    BY <1>3, <2>3
  <2>5. i - 1 \in Nat /\ i - 1 <= m /\ i \in 1 .. m /\ i - 1 \notin Bad
    BY <1>1, <2>2, <2>3, <2>4
  <2>6. Good(i - 1)
    BY <2>5
  <2>7. more[i] \in Ports
    BY <2>5, ElementOfSeq
  <2>8. \A j \in 1 .. i : j = i \/ j \in 1 .. i - 1
    BY <2>3
  <2>9. CASE more[i] \in ToSet(g[i - 1])
    BY <1>4, <2>3, <2>5, <2>6, <2>8, <2>9
  <2>10. CASE more[i] \notin ToSet(g[i - 1])
    <3>1. g[i] = Append(g[i - 1], more[i])
      BY <1>4, <2>5, <2>10
    <3>2. /\ g[i] \in Seq(Ports) /\ Len(g[i]) = Len(g[i - 1]) + 1 /\ g[i][Len(g[i - 1]) + 1] = more[i]
          /\ \A j \in 1 .. Len(g[i - 1]) : g[i][j] = g[i - 1][j]
          /\ Len(g[i - 1]) \in Nat
      <4>1. g[i - 1] \in Seq(Ports) /\ more[i] \in Ports
        BY <2>6, <2>7
      <4> QED
        BY ONLY <3>1, <4>1, AppendProperties, LenProperties
    <3>3. ToSet(g[i - 1]) \subseteq ToSet(g[i])
      <4>1. /\ DOMAIN g[i - 1] = 1 .. Len(g[i - 1]) /\ DOMAIN g[i] = 1 .. Len(g[i])
        BY <2>6, <3>2, LenProperties
      <4> QED
        BY <3>2, <4>1 DEF ToSet
    <3>4. more[i] \in ToSet(g[i])
      <4>1. Len(g[i - 1]) + 1 \in DOMAIN g[i]
        BY <3>2
      <4> QED
        BY <3>2, <4>1 DEF ToSet
    <3>5. ToSet(g[i]) \subseteq ToSet(g[i - 1]) \cup ToSet(more)
      <4>1. /\ DOMAIN g[i - 1] = 1 .. Len(g[i - 1]) /\ DOMAIN g[i] = 1 .. Len(g[i - 1]) + 1
        BY <2>6, <3>2, LenProperties
      <4>2. more[i] \in ToSet(more)
        BY <1>1, <2>5 DEF ToSet
      <4>3. \A j \in DOMAIN g[i] : j \in DOMAIN g[i - 1] \/ j = Len(g[i - 1]) + 1
        BY <3>2, <4>1
      <4> QED
        BY <3>2, <4>1, <4>2, <4>3 DEF ToSet
    <3> QED
      BY <2>3, <2>6, <2>8, <3>2, <3>3, <3>4, <3>5
  <2> QED
    BY <2>9, <2>10
<1>6. Good(m)
  BY <1>1, <1>5
<1>7. ToSet(more) \subseteq ToSet(g[m])
  BY <1>1, <1>6 DEF ToSet
<1> QED
  BY <1>2, <1>6, <1>7

\* The strongest layer is the first that says anything.
LEMMA StrongestIs ==
  ASSUME NEW f, NEW layers, NEW n \in Nat, DOMAIN layers = 1 .. n
  PROVE  /\ \A i \in 1 .. n : layers[i].scalar[f] # Unset
                /\ (\A j \in 1 .. n : j < i => layers[j].scalar[f] = Unset)
              => Strongest(f, layers) = layers[i].scalar[f]
         /\ (\A i \in 1 .. n : layers[i].scalar[f] = Unset) => Strongest(f, layers) = Unset
<1> DEFINE set == {i \in DOMAIN layers : layers[i].scalar[f] # Unset}
           first == CHOOSE i \in set : \A j \in set : i <= j
<1>1. Strongest(f, layers) = IF set = {} THEN Unset ELSE layers[first].scalar[f]
  BY DEF Strongest
<1>2. (\A i \in 1 .. n : layers[i].scalar[f] = Unset) => set = {}
  OBVIOUS
<1>3. ASSUME NEW i \in 1 .. n, layers[i].scalar[f] # Unset,
             \A j \in 1 .. n : j < i => layers[j].scalar[f] = Unset
      PROVE  Strongest(f, layers) = layers[i].scalar[f]
  <2>1. i \in set /\ set \subseteq 1 .. n
    BY <1>3
  <2>2. \A j \in set : i <= j
    BY <1>3
  <2> HIDE DEF set
  <2>3. first \in set /\ \A j \in set : first <= j
    BY <2>1, <2>2
  <2>4. first = i
    <3> HIDE DEF first
    <3> QED
      BY <2>1, <2>2, <2>3
  <2> QED
    BY <1>1, <2>1, <2>4
<1> QED
  BY <1>1, <1>2, <1>3

LEMMA ConcatKeeps ==
  ASSUME NEW fs \in Seq(Ports), NEW more \in Seq(Ports)
  PROVE  /\ fs \o more \in Seq(Ports)
         /\ ToSet(fs \o more) = ToSet(fs) \cup ToSet(more)
<1> DEFINE all == fs \o more
<1>1. /\ all \in Seq(Ports) /\ Len(all) = Len(fs) + Len(more) /\ Len(fs) \in Nat /\ Len(more) \in Nat
      /\ \A i \in 1 .. Len(fs) : all[i] = fs[i]
      /\ \A i \in 1 .. Len(more) : all[Len(fs) + i] = more[i]
      /\ DOMAIN fs = 1 .. Len(fs) /\ DOMAIN more = 1 .. Len(more) /\ DOMAIN all = 1 .. Len(all)
  BY ConcatProperties, LenProperties
<1> HIDE DEF all
<1>2. ToSet(fs) \subseteq ToSet(all)
  <2>1. \A i \in DOMAIN fs : i \in DOMAIN all /\ all[i] = fs[i]
    BY <1>1
  <2> QED
    BY <2>1 DEF ToSet
<1>3. ToSet(more) \subseteq ToSet(all)
  <2>1. \A i \in DOMAIN more : Len(fs) + i \in DOMAIN all /\ all[Len(fs) + i] = more[i]
    BY <1>1
  <2> QED
    BY <2>1 DEF ToSet
<1>4. ToSet(all) \subseteq ToSet(fs) \cup ToSet(more)
  <2>1. \A i \in DOMAIN all : \/ i \in DOMAIN fs
                              \/ i - Len(fs) \in DOMAIN more /\ i = Len(fs) + (i - Len(fs))
    BY <1>1
  <2>2. \A i \in DOMAIN all : all[i] \in ToSet(fs) \cup ToSet(more)
    <3> SUFFICES ASSUME NEW i \in DOMAIN all PROVE all[i] \in ToSet(fs) \cup ToSet(more)
      OBVIOUS
    <3>1. CASE i \in DOMAIN fs
      BY <1>1, <3>1 DEF ToSet
    <3>2. CASE i \notin DOMAIN fs
      <4>1. PICK k \in DOMAIN more : i = Len(fs) + k
        BY <2>1, <3>2
      <4> QED
        BY <1>1, <4>1 DEF ToSet
    <3> QED
      BY <3>1, <3>2
  <2> QED
    BY <2>2 DEF ToSet
<1> QED
  BY <1>1, <1>2, <1>3, <1>4 DEF all

----------------------------------------------------------------------------
(* What is kept of each layer *)

\* The layers under the command line, the config a launch makes of them, the
\* session it makes of that, and the layers as SessionIsTheMerge has them.
Said(file) == IF file = NoKeys THEN Default ELSE file
AgentAt(agent, m) == IF agent = Unset THEN Default ELSE Profile(agent, m).config
CfgOf(agent, file, m) ==
  IF agent = Unset THEN (IF file = NoKeys THEN Default ELSE file)
  ELSE IF file = NoKeys THEN Profile(agent, m).config ELSE Overlay(Profile(agent, m).config, file)
ExecOf(cli, agent, file, m) ==
  LET cfg    == CfgOf(agent, file, m)
      layers == Merge(cli, cfg, m.claude)
  IN  [layers EXCEPT !.scalar["command"] = Command(cli, cfg, layers)]
BelowOf(agent, file, m) == <<Said(file), AgentAt(agent, m)>>
LayersOf(cli, agent, file, m) == <<cli, Said(file), AgentAt(agent, m)>>

\* The specs of a config are those of its entries.
Formatted(entries) == {SecretSpec(e[1], e[2]) : e \in {x \in entries : x[2].hosts # <<>>}}
Mounted(entries) == {MountSpec(m) : m \in {e[2] : e \in entries}}

LEMMA SpecsAreOfEntries ==
  ASSUME NEW cfg
  PROVE  /\ SecretSpecs(cfg) = Formatted(Entries(cfg.secrets, NoKeys))
         /\ MountSpecs(cfg) = Mounted(Entries(cfg.mount, NoKeys))
<1>1. ASSUME NEW map PROVE Entries(map, NoKeys) = {<<k, map[k]>> : k \in DOMAIN map}
  <2>1. DOMAIN NoKeys = {}
    BY DEF NoKeys
  <2> QED
    BY <2>1 DEF Entries
<1>2. Entries(cfg.secrets, NoKeys) = {<<k, cfg.secrets[k]>> : k \in DOMAIN cfg.secrets}
  BY <1>1
<1>3. Entries(cfg.mount, NoKeys) = {<<k, cfg.mount[k]>> : k \in DOMAIN cfg.mount}
  BY <1>1
<1>4. SecretSpecs(cfg) = Formatted(Entries(cfg.secrets, NoKeys))
  <2> DEFINE listed == {x \in Entries(cfg.secrets, NoKeys) : x[2].hosts # <<>>}
  <2>1. \A n \in {m \in DOMAIN cfg.secrets : cfg.secrets[m].hosts # <<>>} :
          <<n, cfg.secrets[n]>> \in listed
    BY <1>2
  <2>2. \A e \in listed : /\ e = <<e[1], cfg.secrets[e[1]]>>
                          /\ e[1] \in {m \in DOMAIN cfg.secrets : cfg.secrets[m].hosts # <<>>}
    BY <1>2
  <2>3. Formatted(Entries(cfg.secrets, NoKeys)) = {SecretSpec(e[1], e[2]) : e \in listed}
    BY DEF Formatted
  <2> HIDE DEF listed
  <2>4. SecretSpecs(cfg) \subseteq {SecretSpec(e[1], e[2]) : e \in listed}
    <3> SUFFICES ASSUME NEW n \in {m \in DOMAIN cfg.secrets : cfg.secrets[m].hosts # <<>>}
                 PROVE  SecretSpec(n, cfg.secrets[n]) \in {SecretSpec(e[1], e[2]) : e \in listed}
      BY DEF SecretSpecs
    <3> DEFINE e == <<n, cfg.secrets[n]>>
    <3>1. e \in listed /\ e[1] = n /\ e[2] = cfg.secrets[n]
      BY <2>1
    <3> HIDE DEF e
    <3> QED
      BY <3>1
  <2>5. {SecretSpec(e[1], e[2]) : e \in listed} \subseteq SecretSpecs(cfg)
    <3> SUFFICES ASSUME NEW e \in listed PROVE SecretSpec(e[1], e[2]) \in SecretSpecs(cfg)
      OBVIOUS
    <3>1. e[2] = cfg.secrets[e[1]]
      BY <2>2
    <3> QED
      BY <2>2, <3>1 DEF SecretSpecs
  <2> QED
    BY <2>3, <2>4, <2>5
<1>5. MountSpecs(cfg) = Mounted(Entries(cfg.mount, NoKeys))
  <2>1. {e[2] : e \in Entries(cfg.mount, NoKeys)} = {cfg.mount[k] : k \in DOMAIN cfg.mount}
    <3>1. \A e \in Entries(cfg.mount, NoKeys) : e[1] \in DOMAIN cfg.mount /\ e[2] = cfg.mount[e[1]]
      BY <1>3
    <3>2. \A k \in DOMAIN cfg.mount : \E e \in Entries(cfg.mount, NoKeys) : e[2] = cfg.mount[k]
      <4> SUFFICES ASSUME NEW k \in DOMAIN cfg.mount
                   PROVE  \E e \in Entries(cfg.mount, NoKeys) : e[2] = cfg.mount[k]
        OBVIOUS
      <4>1. <<k, cfg.mount[k]>> \in Entries(cfg.mount, NoKeys)
        BY <1>3
      <4>2. <<k, cfg.mount[k]>>[2] = cfg.mount[k]
        OBVIOUS
      <4> QED
        BY <4>1, <4>2, Zenon
    <3> QED
      BY <3>1, <3>2
  <2>2. Mounted(Entries(cfg.mount, NoKeys))
          = {MountSpec(m) : m \in {cfg.mount[k] : k \in DOMAIN cfg.mount}}
    BY <2>1 DEF Mounted
  <2> QED
    BY <2>2 DEF MountSpecs
<1> QED
  BY <1>4, <1>5

\* Of two maps the entries are those of both, the top's before the base's.
LEMMA OverKeeps ==
  ASSUME NEW top, NEW base
  PROVE  /\ Entries(Over(top, base), NoKeys) = Entries(top, base)
         /\ Entries(NoKeys, base) = Entries(base, NoKeys)
<1>1. DOMAIN NoKeys = {}
  BY DEF NoKeys
<1>2. /\ DOMAIN Over(top, base) = DOMAIN top \cup DOMAIN base
      /\ \A k \in DOMAIN top : Over(top, base)[k] = top[k]
      /\ \A k \in DOMAIN base \ DOMAIN top : Over(top, base)[k] = base[k]
  BY DEF Over
<1>3. Entries(Over(top, base), NoKeys) = {<<k, Over(top, base)[k]>> : k \in DOMAIN Over(top, base)}
  BY <1>1 DEF Entries
<1>4. Entries(Over(top, base), NoKeys) = Entries(top, base)
  BY <1>2, <1>3 DEF Entries
<1>5. Entries(NoKeys, base) = Entries(base, NoKeys)
  BY <1>1 DEF Entries
<1> QED
  BY <1>4, <1>5

\* What the config says, as far as the rest relies on it.
CfgRight(cfg, F, A) ==
  /\ cfg.forward \in Seq(Ports) /\ ToSet(cfg.forward) = ToSet(F.forward) \cup ToSet(A.forward)
  /\ \A f \in Scalars : cfg.scalar[f] = IF F.scalar[f] # Unset THEN F.scalar[f] ELSE A.scalar[f]
  /\ cfg.allow = F.allow \cup A.allow
  /\ Entries(cfg.secrets, NoKeys) = Entries(F.secrets, A.secrets)
  /\ Entries(cfg.mount, NoKeys) = Entries(F.mount, A.mount)
  /\ Entries(cfg.env, NoKeys) = Entries(F.env, A.env)

LEMMA CfgDoes ==
  ASSUME NEW agent, NEW file, NEW m, file = NoKeys \/ IsLayer(file)
  PROVE  CfgRight(CfgOf(agent, file, m), Said(file), AgentAt(agent, m))
<1> DEFINE cfg == CfgOf(agent, file, m)
           d == Profile(agent, m).config
           F == Said(file)
           A == AgentAt(agent, m)
<1>1. d.forward = <<>> /\ <<>> \in Seq(Ports) /\ ToSet(<<>>) = {}
  BY DEF Profile, ToSet
<1>2. /\ \A f \in Scalars : Default.scalar[f] = Unset
      /\ Default.allow = {} /\ Default.forward = <<>>
      /\ Default.secrets = NoKeys /\ Default.mount = NoKeys /\ Default.env = NoKeys
  BY DEF Default, NoScalars
<1>3. \A map : Entries(NoKeys, map) = Entries(map, NoKeys)
  BY OverKeeps
<1>4. CASE agent = Unset /\ file = NoKeys
  <2>1. cfg = Default /\ F = Default /\ A = Default
    BY <1>4 DEF CfgOf, Said, AgentAt
  <2> HIDE DEF cfg, F, A
  <2> QED
    BY <1>1, <1>2, <2>1 DEF CfgRight, cfg, F, A
<1>5. CASE agent = Unset /\ file # NoKeys
  <2>1. cfg = file /\ F = file /\ A = Default /\ file.forward \in Seq(Ports)
    BY <1>5 DEF CfgOf, Said, AgentAt, IsLayer
  <2> HIDE DEF cfg, F, A
  <2> QED
    BY <1>1, <1>2, <2>1 DEF CfgRight, cfg, F, A
<1>6. CASE agent # Unset /\ file = NoKeys
  <2>1. cfg = d /\ F = Default /\ A = d
    BY <1>6 DEF CfgOf, Said, AgentAt
  <2> HIDE DEF cfg, F, A, d
  <2> QED
    BY <1>1, <1>2, <1>3, <2>1 DEF CfgRight, cfg, F, A
<1>7. CASE agent # Unset /\ file # NoKeys
  <2>1. cfg = Overlay(d, file) /\ F = file /\ A = d /\ file.forward \in Seq(Ports)
    BY <1>7 DEF CfgOf, Said, AgentAt, IsLayer
  <2> HIDE DEF d, cfg, F, A
  <2>2. /\ cfg.scalar = [f \in Scalars |-> IF file.scalar[f] # Unset THEN file.scalar[f] ELSE d.scalar[f]]
        /\ cfg.allow = d.allow \cup file.allow /\ cfg.forward = Extend(d.forward, file.forward)
        /\ cfg.secrets = Over(file.secrets, d.secrets)
        /\ cfg.mount = Over(file.mount, d.mount)
        /\ cfg.env = Over(file.env, d.env)
    BY <2>1 DEF Overlay
  <2>3. cfg.forward \in Seq(Ports) /\ ToSet(cfg.forward) = ToSet(d.forward) \cup ToSet(file.forward)
    <3>1. d.forward \in Seq(Ports) /\ file.forward \in Seq(Ports)
      BY <1>1, <2>1 DEF d
    <3> QED
      BY <2>2, <3>1, ExtendKeeps
  <2>4. /\ Entries(cfg.secrets, NoKeys) = Entries(file.secrets, d.secrets)
        /\ Entries(cfg.mount, NoKeys) = Entries(file.mount, d.mount)
        /\ Entries(cfg.env, NoKeys) = Entries(file.env, d.env)
    BY <2>2, OverKeeps
  <2> QED
    BY <2>1, <2>2, <2>3, <2>4 DEF CfgRight, cfg, F, A
<1> QED
  BY <1>4, <1>5, <1>6, <1>7

\* What a launch makes of its layers is what they say.
Agrees(e, cli, agent, file, m) ==
  LET F  == Said(file)
      A  == AgentAt(agent, m)
      ls == LayersOf(cli, agent, file, m)
      ports == UNION {ToSet(ls[i].forward) : i \in DOMAIN ls}
  IN  /\ \A f \in {"image", "rootfs", "timeout", "auditLog"} : e.scalar[f] = Strongest(f, ls)
      /\ e.scalar["command"] = IF cli.extra = Unset THEN Strongest("command", ls)
                               ELSE <<Strongest("command", BelowOf(agent, file, m)), cli.extra>>
      /\ e.forward \in Seq(Ports)
      /\ ports \subseteq ToSet(e.forward)
      /\ ToSet(e.forward) \subseteq ports \cup {[guest |-> Cdp, host |-> Cdp]}
      /\ e.secrets = cli.secrets \cup Formatted(Entries(F.secrets, A.secrets))
      /\ e.mounts = cli.mounts \cup Mounted(Entries(F.mount, A.mount))
      /\ Entries(e.env, NoKeys) = Entries(F.env, A.env)
      /\ e.allow = m.claude \cup UNION {ls[i].allow : i \in DOMAIN ls}

\* A terminal is asked for by the command line or by the strongest other.
Terminal(cli, agent, file, m) ==
  "yes" \in {cli.scalar["interactive"], Strongest("interactive", BelowOf(agent, file, m))}

LEMMA MergeDoes ==
  ASSUME NEW cli \in CommandLines, NEW agent, NEW file, NEW m, file = NoKeys \/ IsLayer(file)
  PROVE  /\ Agrees(ExecOf(cli, agent, file, m), cli, agent, file, m)
         /\ ExecOf(cli, agent, file, m).scalar["interactive"] = "yes"
              <=> Terminal(cli, agent, file, m)
<1> DEFINE cfg == CfgOf(agent, file, m)
           F == Said(file)
           A == AgentAt(agent, m)
           ls == LayersOf(cli, agent, file, m)
           below == BelowOf(agent, file, m)
           e == ExecOf(cli, agent, file, m)
           merged == Merge(cli, cfg, m.claude)
<1>1. CfgRight(cfg, F, A)
  BY CfgDoes
<1>2. /\ DOMAIN ls = 1 .. 3 /\ ls[1] = cli /\ ls[2] = F /\ ls[3] = A
      /\ DOMAIN below = 1 .. 2 /\ below[1] = F /\ below[2] = A
  BY DEF LayersOf, BelowOf
<1>3. cli.forward \in Seq(Ports)
  BY LaunchAssumption DEF IsLayer
<1>4. e = [merged EXCEPT !.scalar["command"] = Command(cli, cfg, merged)]
  BY DEF ExecOf
<1> HIDE DEF cfg, F, A, ls, below, e
<1>5. /\ DOMAIN merged = {"scalar", "allow", "forward", "secrets", "mounts", "env"}
      /\ DOMAIN merged.scalar = Scalars
      /\ \A f \in Scalars \ {"interactive"} :
           merged.scalar[f] = IF cli.scalar[f] # Unset THEN cli.scalar[f] ELSE cfg.scalar[f]
      /\ merged.scalar["interactive"]
           = IF "yes" \in {cli.scalar["interactive"], cfg.scalar["interactive"]} THEN "yes" ELSE "no"
      /\ merged.allow = cli.allow \cup cfg.allow \cup m.claude
      /\ merged.forward = cli.forward \o cfg.forward
      /\ merged.secrets = cli.secrets \cup SecretSpecs(cfg)
      /\ merged.mounts = cli.mounts \cup MountSpecs(cfg)
      /\ merged.env = cfg.env
  BY DEF Merge, Scalars
<1> HIDE DEF merged
<1>6. /\ \A f \in Scalars \ {"command"} : e.scalar[f] = merged.scalar[f]
      /\ e.scalar["command"] = Command(cli, cfg, merged)
      /\ e.allow = merged.allow /\ e.forward = merged.forward /\ e.secrets = merged.secrets
      /\ e.mounts = merged.mounts /\ e.env = merged.env
  BY <1>4, <1>5 DEF Scalars
<1>7. ASSUME NEW f \in Scalars
      PROVE  /\ Strongest(f, ls) = IF cli.scalar[f] # Unset THEN cli.scalar[f] ELSE cfg.scalar[f]
             /\ Strongest(f, below) = cfg.scalar[f]
  <2>1. cfg.scalar[f] = IF F.scalar[f] # Unset THEN F.scalar[f] ELSE A.scalar[f]
    BY <1>1 DEF CfgRight
  <2>2. /\ \A i \in 1 .. 3 : ls[i].scalar[f] # Unset
                /\ (\A j \in 1 .. 3 : j < i => ls[j].scalar[f] = Unset)
              => Strongest(f, ls) = ls[i].scalar[f]
        /\ (\A i \in 1 .. 3 : ls[i].scalar[f] = Unset) => Strongest(f, ls) = Unset
    <3>1. 3 \in Nat /\ DOMAIN ls = 1 .. 3
      BY <1>2
    <3> QED
      BY ONLY <3>1, StrongestIs
  <2>3. /\ \A i \in 1 .. 2 : below[i].scalar[f] # Unset
                /\ (\A j \in 1 .. 2 : j < i => below[j].scalar[f] = Unset)
              => Strongest(f, below) = below[i].scalar[f]
        /\ (\A i \in 1 .. 2 : below[i].scalar[f] = Unset) => Strongest(f, below) = Unset
    <3>1. 2 \in Nat /\ DOMAIN below = 1 .. 2
      BY <1>2
    <3> QED
      BY ONLY <3>1, StrongestIs
  <2>4. \A i \in 1 .. 3 : i = 1 \/ i = 2 \/ i = 3
    OBVIOUS
  <2>5. CASE cli.scalar[f] # Unset
    BY <1>2, <2>1, <2>2, <2>3, <2>4, <2>5
  <2>6. CASE cli.scalar[f] = Unset /\ F.scalar[f] # Unset
    BY <1>2, <2>1, <2>2, <2>3, <2>4, <2>6
  <2>7. CASE cli.scalar[f] = Unset /\ F.scalar[f] = Unset /\ A.scalar[f] # Unset
    BY <1>2, <2>1, <2>2, <2>3, <2>4, <2>7
  <2>8. CASE cli.scalar[f] = Unset /\ F.scalar[f] = Unset /\ A.scalar[f] = Unset
    BY <1>2, <2>1, <2>2, <2>3, <2>4, <2>8
  <2> QED
    BY <2>5, <2>6, <2>7, <2>8
<1>8. \A f \in {"image", "rootfs", "timeout", "auditLog"} : e.scalar[f] = Strongest(f, ls)
  BY <1>5, <1>6, <1>7 DEF Scalars
<1>9. e.scalar["command"] = IF cli.extra = Unset THEN Strongest("command", ls)
                            ELSE <<Strongest("command", below), cli.extra>>
  BY <1>5, <1>6, <1>7 DEF Scalars, Command
<1>10. e.scalar["interactive"] = "yes" <=> Terminal(cli, agent, file, m)
  <2>1. Strongest("interactive", below) = cfg.scalar["interactive"]
    BY <1>7 DEF Scalars
  <2>2. e.scalar["interactive"]
          = IF "yes" \in {cli.scalar["interactive"], cfg.scalar["interactive"]} THEN "yes" ELSE "no"
    BY <1>5, <1>6 DEF Scalars
  <2> QED
    BY <2>1, <2>2 DEF Terminal, below
<1>11. /\ e.forward \in Seq(Ports)
       /\ ToSet(e.forward) = UNION {ToSet(ls[i].forward) : i \in DOMAIN ls}
  <2>1. /\ cfg.forward \in Seq(Ports)
        /\ ToSet(cfg.forward) = ToSet(F.forward) \cup ToSet(A.forward)
    BY <1>1 DEF CfgRight
  <2>2. e.forward \in Seq(Ports) /\ ToSet(e.forward) = ToSet(cli.forward) \cup ToSet(cfg.forward)
    BY <1>3, <1>5, <1>6, <2>1, ConcatKeeps
  <2>3. UNION {ToSet(ls[i].forward) : i \in DOMAIN ls}
          = ToSet(cli.forward) \cup ToSet(F.forward) \cup ToSet(A.forward)
    BY <1>2
  <2> QED
    BY <2>1, <2>2, <2>3
<1>12. e.allow = m.claude \cup UNION {ls[i].allow : i \in DOMAIN ls}
  <2>1. UNION {ls[i].allow : i \in DOMAIN ls} = cli.allow \cup F.allow \cup A.allow
    BY <1>2
  <2> QED
    BY <1>1, <1>5, <1>6, <2>1 DEF CfgRight
<1>13. /\ e.secrets = cli.secrets \cup Formatted(Entries(F.secrets, A.secrets))
       /\ e.mounts = cli.mounts \cup Mounted(Entries(F.mount, A.mount))
       /\ Entries(e.env, NoKeys) = Entries(F.env, A.env)
  BY <1>1, <1>5, <1>6, SpecsAreOfEntries DEF CfgRight
<1>14. Agrees(e, cli, agent, file, m)
  BY <1>8, <1>9, <1>11, <1>12, <1>13 DEF Agrees, F, A, ls, below
<1> QED
  BY <1>10, <1>14 DEF e

----------------------------------------------------------------------------
(* What the entries of the layers are when they have been written and read *)

LEMMA SecretsReadBack ==
  ASSUME NEW agent, NEW file, NEW m, file = NoKeys \/ IsFile(file),
         NEW e \in Entries(Said(file).secrets, AgentAt(agent, m).secrets), ReadsBack(e[1], e[2])
  PROVE  ParseSecret(SecretSpec(e[1], e[2])) = [name |-> e[1], value |-> e[2].value, hosts |-> e[2].hosts]
<1> DEFINE F == Said(file)
           A == AgentAt(agent, m)
<1>1. PICK S : /\ e[1] \in Seq(S) /\ e[2] = [value |-> e[2].value, hosts |-> e[2].hosts]
               /\ e[2].value \in Seq(S) /\ e[2].hosts \in Seq(S)
  <2>1. DOMAIN NoKeys = {}
    BY DEF NoKeys
  <2>2. CASE e[1] \in DOMAIN F.secrets /\ e[2] = F.secrets[e[1]]
    <3>1. F = file /\ IsFile(file)
      BY <2>1, <2>2 DEF Said, Default
    <3>2. e[1] \in Text /\ e[2] \in [value : Text, hosts : Text]
      BY <2>2, <3>1 DEF IsFile
    <3> QED
      BY <3>2 DEF Text
  <2>3. CASE e[1] \in DOMAIN A.secrets /\ e[2] = A.secrets[e[1]]
    <3>1. PICK v, h : A.secrets \in {NoKeys, [x \in {<<v>>} |-> [value |-> Env \o x, hosts |-> <<h>>]]}
      BY <2>1, <2>3 DEF AgentAt, Default, Profile
    <3>2. A.secrets = [x \in {<<v>>} |-> [value |-> Env \o x, hosts |-> <<h>>]]
      <4>1. A.secrets # NoKeys
        BY <2>1, <2>3
      <4> QED
        BY <3>1, <4>1
    <3>3. e[1] = <<v>> /\ e[2] = [value |-> Env \o <<v>>, hosts |-> <<h>>]
      BY <2>3, <3>2
    <3> DEFINE S == {"env", ":", "//", v, h}
    <3>4. Env \in Seq(S) /\ <<v>> \in Seq(S) /\ <<h>> \in Seq(S)
      BY DEF Env
    <3>5. Env \o <<v>> \in Seq(S)
      BY <3>4, ConcatProperties
    <3> QED
      BY <3>3, <3>4, <3>5
  <2>4. \/ e[1] \in DOMAIN F.secrets /\ e[2] = F.secrets[e[1]]
        \/ e[1] \in DOMAIN A.secrets /\ e[2] = A.secrets[e[1]]
    BY DEF Entries
  <2> QED
    BY <2>2, <2>3, <2>4
<1>2. "=" \notin ToSet(e[1]) /\ Colon \notin ToSet(e[2].hosts)
  BY DEF ReadsBack
<1>3. PICK name \in Seq(S), value \in Seq(S), hosts \in Seq(S) :
        e[1] = name /\ e[2] = [value |-> value, hosts |-> hosts]
        /\ value = e[2].value /\ hosts = e[2].hosts
  BY <1>1
<1>4. "=" \notin ToSet(name) /\ Colon \notin ToSet(hosts)
  BY <1>2, <1>3
<1>5. ParseSecret(SecretSpec(name, [value |-> value, hosts |-> hosts]))
        = [name |-> name, value |-> value, hosts |-> hosts]
  BY ONLY <1>4, SecretComesBack
<1> QED
  BY <1>3, <1>5, Zenon

LEMMA MountsReadBack ==
  ASSUME NEW agent, NEW file, NEW m, file = NoKeys \/ IsFile(file),
         NEW e \in Entries(Said(file).mount, AgentAt(agent, m).mount), MountReadsBack(e[2])
  PROVE  ParseMount(MountSpec(e[2])) = [e[2] EXCEPT !.target = IF @ = <<>> THEN Workspace ELSE @]
<1> DEFINE F == Said(file)
           A == AgentAt(agent, m)
<1>1. PICK S : e[2] \in [source : Seq(S), target : Seq(S), ro : BOOLEAN]
  <2>1. DOMAIN NoKeys = {}
    BY DEF NoKeys
  <2>2. CASE e[1] \in DOMAIN F.mount /\ e[2] = F.mount[e[1]]
    <3>1. F = file /\ IsFile(file)
      BY <2>1, <2>2 DEF Said, Default
    <3> QED
      BY <2>2, <3>1 DEF IsFile, Text
  <2>3. CASE e[1] \in DOMAIN A.mount /\ e[2] = A.mount[e[1]]
    <3>1. A.mount \in {NoKeys, [x \in {"workspace"} |-> [source |-> CwdSource, target |-> Workspace, ro |-> FALSE]]}
      BY DEF AgentAt, Default, Profile
    <3>2. A.mount = [x \in {"workspace"} |-> [source |-> CwdSource, target |-> Workspace, ro |-> FALSE]]
      BY <2>1, <2>3, <3>1
    <3>3. e[2] = [source |-> CwdSource, target |-> Workspace, ro |-> FALSE]
      BY <2>3, <3>2
    <3>4. CwdSource \in Seq({".", "/workspace"}) /\ Workspace \in Seq({".", "/workspace"})
      BY DEF CwdSource, Workspace
    <3> QED
      BY <3>3, <3>4
  <2>4. \/ e[1] \in DOMAIN F.mount /\ e[2] = F.mount[e[1]]
        \/ e[1] \in DOMAIN A.mount /\ e[2] = A.mount[e[1]]
    BY DEF Entries
  <2> QED
    BY <2>2, <2>3, <2>4
<1>2. PICK source \in Seq(S), target \in Seq(S), ro \in BOOLEAN :
        e[2] = [source |-> source, target |-> target, ro |-> ro]
  BY <1>1
<1>3. Colon \notin ToSet(source) /\ Colon \notin ToSet(target) /\ target # <<"ro">>
  BY <1>2 DEF MountReadsBack
<1>4. ParseMount(MountSpec([source |-> source, target |-> target, ro |-> ro]))
        = [source |-> source, target |-> IF target = <<>> THEN Workspace ELSE target, ro |-> ro]
  BY ONLY <1>3, MountComesBack
<1>5. [e[2] EXCEPT !.target = IF @ = <<>> THEN Workspace ELSE @]
        = [source |-> source, target |-> IF target = <<>> THEN Workspace ELSE target, ro |-> ro]
  BY <1>2
<1> QED
  BY <1>2, <1>4, <1>5, Zenon

----------------------------------------------------------------------------
(* From the layers to the session *)

Undecided == {"idle", "load", "prompt", "target"}
Chosen    == {"build", "merge"}
Fore      == {"stage", "mode"}
Allowing  == HasCa \ {"specs"}

MergeAt(p) ==
  /\ proc[p].pc # "idle" => proc[p].cli \in CommandLines
  /\ proc[p].file = NoKeys \/ IsFile(proc[p].file)
  /\ proc[p].pc \in Undecided => proc[p].agent = Unset
  /\ proc[p].pc \in Chosen => proc[p].cfg = CfgOf(proc[p].agent, proc[p].file, machine)
  /\ proc[p].pc \in Rooted =>
       /\ DOMAIN proc[p].exec = {"scalar", "allow", "forward", "secrets", "mounts", "env"}
       /\ DOMAIN proc[p].exec.scalar = Scalars
       /\ Agrees(proc[p].exec, proc[p].cli, proc[p].agent, proc[p].file, machine)
       /\ proc[p].root = Root(proc[p].exec)
       /\ proc[p].exec.scalar["interactive"] = "yes" <=>
            /\ proc[p].pc \in Fore \/ ~proc[p].cli.detach
            /\ Terminal(proc[p].cli, proc[p].agent, proc[p].file, machine)
  /\ proc[p].pc \in Allowing =>
       proc[p].allowed = AllowedHosts(proc[p].exec.allow, proc[p].exec.secrets)

MergeInv == machine \in Machines /\ \A p \in Proc : MergeAt(p)

\* What a launch has decided concerns it alone.
Decided == {"pc", "cli", "file", "agent", "cfg", "exec", "root", "allowed"}

LEMMA MergeQuiet ==
  ASSUME MergeInv, NEW p \in Proc, UNCHANGED machine,
         \A q \in Proc \ {p} : \A f \in Decided : proc'[q][f] = proc[q][f], MergeAt(p)'
  PROVE  MergeInv'
<1>1. ASSUME NEW q \in Proc, q # p PROVE MergeAt(q)'
  <2>1. /\ proc'[q].pc = proc[q].pc /\ proc'[q].cli = proc[q].cli /\ proc'[q].file = proc[q].file
        /\ proc'[q].agent = proc[q].agent /\ proc'[q].cfg = proc[q].cfg
        /\ proc'[q].exec = proc[q].exec /\ proc'[q].root = proc[q].root
        /\ proc'[q].allowed = proc[q].allowed
    BY <1>1 DEF Decided
  <2>2. MergeAt(q)
    BY DEF MergeInv
  <2> QED
    BY <2>1, <2>2 DEF MergeAt
<1> QED
  BY <1>1 DEF MergeInv

\* A launch that goes on, or fails, with all it has decided.
LEMMA MergeOnward ==
  ASSUME MergeInv, NEW p \in Proc, UNCHANGED machine,
         \A q \in Proc \ {p} : \A f \in Decided : proc'[q][f] = proc[q][f],
         \A f \in Decided \ {"pc"} : proc'[p][f] = proc[p][f],
         proc[p].pc # "idle", proc'[p].pc # "idle",
         \A at \in {Undecided, Chosen, Rooted, Allowing} : proc'[p].pc \in at => proc[p].pc \in at,
         proc'[p].pc \in Rooted => (proc'[p].pc \in Fore <=> proc[p].pc \in Fore)
  PROVE  MergeInv'
<1>1. /\ proc'[p].cli = proc[p].cli /\ proc'[p].file = proc[p].file
      /\ proc'[p].agent = proc[p].agent /\ proc'[p].cfg = proc[p].cfg
      /\ proc'[p].exec = proc[p].exec /\ proc'[p].root = proc[p].root
      /\ proc'[p].allowed = proc[p].allowed
  BY DEF Decided
<1>2. /\ proc'[p].pc \in Undecided => proc[p].pc \in Undecided
      /\ proc'[p].pc \in Chosen => proc[p].pc \in Chosen
      /\ proc'[p].pc \in Rooted => proc[p].pc \in Rooted
      /\ proc'[p].pc \in Allowing => proc[p].pc \in Allowing
  OBVIOUS
<1>3. MergeAt(p)
  BY DEF MergeInv
<1>4. MergeAt(p)'
  BY <1>1, <1>2, <1>3 DEF MergeAt
<1> QED
  BY <1>4, MergeQuiet

LEMMA MergeExit ==
  ASSUME LaunchInv, MergeInv, NEW p \in Proc, Exit(p), proc[p].pc # "idle", UNCHANGED machine
  PROVE  MergeInv'
<1>1. /\ proc'[p].pc = "failed" /\ \A f \in Decided \ {"pc"} : proc'[p][f] = proc[p][f]
      /\ \A q \in Proc \ {p} : proc'[q] = proc[q]
  BY DEF Exit, LaunchInv, ShapeAt, Idle, Decided
<1>2. \A at \in {Undecided, Chosen, Rooted, Allowing} : proc'[p].pc \notin at
  BY <1>1 DEF Undecided, Chosen, Fore, Allowing, Rooted, HasCa, Running
<1> QED
  BY <1>1, <1>2, MergeOnward

LEMMA InitMerge == Init => MergeInv
<1> SUFFICES ASSUME Init PROVE MergeInv
  OBVIOUS
<1>1. ASSUME NEW p \in Proc PROVE MergeAt(p)
  <2>1. proc[p].pc = "idle" /\ proc[p].file = NoKeys /\ proc[p].agent = Unset
    BY DEF Init, Idle
  <2> QED
    BY <2>1 DEF MergeAt, Undecided, Chosen, Fore, Allowing, Rooted, HasCa, Running
<1> QED
  BY <1>1 DEF Init, MergeInv

\* A command line is typed and a file is read before an agent is looked for.
LEMMA MergeLoadSteps ==
  ASSUME LaunchInv, MergeInv, NEW p \in Proc, Start(p) \/ Load(p) \/ Confirm(p)
  PROVE  MergeInv'
<1> USE DEF Undecided, Chosen, Fore, Allowing, Rooted, HasCa, Running
<1>0. MergeAt(p)
  BY DEF MergeInv
<1>1. CASE Start(p)
  <2>1. PICK cli \in CommandLines : proc' = [proc EXCEPT ![p].pc = "load", ![p].cli = cli]
    BY <1>1 DEF Start
  <2>2. proc[p].pc = "idle" /\ UNCHANGED machine
    BY <1>1 DEF Start
  <2>3. /\ proc'[p].pc = "load" /\ proc'[p].cli = cli
        /\ proc'[p].file = proc[p].file /\ proc'[p].agent = proc[p].agent
        /\ \A q \in Proc \ {p} : proc'[q] = proc[q]
    BY <2>1 DEF LaunchInv, ShapeAt, Idle
  <2>4. MergeAt(p)'
    BY <1>0, <2>2, <2>3 DEF MergeAt
  <2> QED
    BY <2>2, <2>3, <2>4, MergeQuiet
<1>2. CASE Load(p)
  <2> DEFINE to == Decide(machine.project # NoKeys /\ Reaches(machine.project), trusted, machine.tty)
  <2>1. proc[p].pc = "load" /\ UNCHANGED machine
    BY <1>2 DEF Load
  <2>2. CASE to = "skip"
    BY <1>2, <2>1, <2>2, MergeExit DEF Load
  <2>3. CASE to # "skip"
    <3>1. proc' = [Goto(p, to) EXCEPT ![p].file = File] /\ to \in {"target", "prompt"}
      BY <1>2, <2>3 DEF Load, Decide
    <3> HIDE DEF to
    <3>2. /\ proc'[p].pc = to /\ proc'[p].file = File
          /\ proc'[p].cli = proc[p].cli /\ proc'[p].agent = proc[p].agent
          /\ \A q \in Proc \ {p} : proc'[q] = proc[q]
      BY <3>1, GotoDoes DEF Idle
    <3>3. File = NoKeys \/ IsFile(File)
      BY LaunchAssumption DEF File, MergeInv
    <3>4. MergeAt(p)'
      BY <1>0, <2>1, <3>1, <3>2, <3>3 DEF MergeAt
    <3> QED
      BY <2>1, <3>2, <3>4, MergeQuiet
  <2> QED
    BY <2>2, <2>3
<1>3. CASE Confirm(p)
  <2>1. proc[p].pc = "prompt" /\ UNCHANGED machine
    BY <1>3 DEF Confirm
  <2>2. CASE Exit(p)
    BY <2>1, <2>2, MergeExit
  <2>3. CASE proc' = [Goto(p, "target") EXCEPT ![p].agreed = TRUE]
    <3>1. /\ proc'[p].pc = "target" /\ \A f \in Decided \ {"pc"} : proc'[p][f] = proc[p][f]
          /\ \A q \in Proc \ {p} : proc'[q] = proc[q]
      BY <2>3, GotoDoes DEF Decided, Idle
    <3> QED
      BY <2>1, <3>1, MergeOnward
  <2> QED
    BY <1>3, <2>2, <2>3 DEF Confirm
<1> QED
  BY <1>1, <1>2, <1>3

\* The agent, the config of both, and the session of all three.
LEMMA MergeCommandSteps ==
  ASSUME LaunchInv, MergeInv, NEW p \in Proc,
         Target(p) \/ BuildImage(p) \/ MergeLayers(p) \/ Detach(p)
  PROVE  MergeInv'
<1> USE DEF Undecided, Chosen, Fore, Allowing, Rooted, HasCa, Running
<1>0. MergeAt(p)
  BY DEF MergeInv
<1>1. CASE Target(p)
  <2>1. proc[p].pc = "target" /\ proc[p].agent = Unset /\ UNCHANGED machine
    BY <1>0, <1>1 DEF Target, MergeAt
  <2>2. CASE Exit(p)
    BY <2>1, <2>2, MergeExit
  <2>3. CASE ~Exit(p) /\ Bare(p)
    <3>1. proc' = [Goto(p, "merge") EXCEPT
             ![p].cfg = IF proc[p].file = NoKeys THEN Default ELSE proc[p].file]
      BY <1>1, <2>3 DEF Target
    <3>2. proc' = [Goto(p, "merge") EXCEPT ![p].cfg = CfgOf(Unset, proc[p].file, machine)]
      BY <3>1 DEF CfgOf
    <3>3. /\ proc'[p].pc = "merge" /\ proc'[p].cfg = CfgOf(Unset, proc[p].file, machine)
          /\ proc'[p].cli = proc[p].cli /\ proc'[p].file = proc[p].file
          /\ proc'[p].agent = proc[p].agent
          /\ \A q \in Proc \ {p} : proc'[q] = proc[q]
      BY <3>2, GotoDoes DEF Idle
    <3>4. MergeAt(p)'
      BY <1>0, <2>1, <3>3 DEF MergeAt
    <3> QED
      BY <2>1, <3>3, <3>4, MergeQuiet
  <2>4. CASE ~Exit(p) /\ ~Bare(p)
    <3>1. PICK a \in Wanted(p) :
            proc' = [Goto(p, IF Def(a).image \in images THEN "merge" ELSE "build") EXCEPT
                  ![p].agent = a, ![p].stage = Profile(a, machine).stage,
                  ![p].cfg = IF proc[p].file = NoKeys THEN Profile(a, machine).config
                             ELSE Overlay(Profile(a, machine).config, proc[p].file)]
      BY <1>1, <2>4 DEF Target
    <3>2. a # Unset
      <4>1. a \in ToSet(Agents) \/ a \in Detected(machine)
        BY DEF Wanted
      <4> QED
        BY <4>1 DEF Unset, Agents, Detected, ToSet
    <3> DEFINE at == IF Def(a).image \in images THEN "merge" ELSE "build"
               d == Profile(a, machine)
               cfg == CfgOf(a, proc[p].file, machine)
    <3>3. at \in {"merge", "build"}
      OBVIOUS
    <3>4. proc' = [Goto(p, at) EXCEPT ![p].agent = a, ![p].stage = d.stage, ![p].cfg = cfg]
      BY <3>1, <3>2 DEF CfgOf
    <3> HIDE DEF at, d, cfg
    <3>5. /\ proc'[p].pc = at /\ proc'[p].cfg = cfg /\ proc'[p].agent = a
          /\ proc'[p].cli = proc[p].cli /\ proc'[p].file = proc[p].file
          /\ \A q \in Proc \ {p} : proc'[q] = proc[q]
      BY <3>4, GotoDoes DEF Idle
    <3>6. proc'[p].cfg = CfgOf(proc'[p].agent, proc'[p].file, machine')
      BY <2>1, <3>5 DEF cfg
    <3>7. MergeAt(p)'
      BY <1>0, <2>1, <3>3, <3>5, <3>6 DEF MergeAt
    <3> QED
      BY <2>1, <3>5, <3>7, MergeQuiet
  <2> QED
    BY <2>2, <2>3, <2>4
<1>2. CASE BuildImage(p)
  <2>1. proc[p].pc = "build" /\ UNCHANGED machine
    BY <1>2 DEF BuildImage
  <2>2. CASE Exit(p)
    BY <2>1, <2>2, MergeExit
  <2>3. CASE ~Exit(p)
    <3>1. proc' = Goto(p, "merge")
      BY <1>2, <2>3 DEF BuildImage
    <3>2. /\ proc'[p].pc = "merge" /\ \A f \in Decided \ {"pc"} : proc'[p][f] = proc[p][f]
          /\ \A q \in Proc \ {p} : proc'[q] = proc[q]
      BY <3>1, GotoDoes DEF Decided, Idle
    <3> QED
      BY <2>1, <3>2, MergeOnward
  <2> QED
    BY <2>2, <2>3
<1>3. CASE MergeLayers(p)
  <2>1. proc[p].pc = "merge" /\ UNCHANGED machine
    BY <1>3 DEF MergeLayers
  <2>2. CASE Exit(p)
    BY <2>1, <2>2, MergeExit
  <2>3. CASE ~Exit(p)
    <3> DEFINE cli == proc[p].cli
               cfg == proc[p].cfg
               layers == Merge(cli, cfg, machine.claude)
               exec == [layers EXCEPT !.scalar["command"] = Command(cli, cfg, layers)]
    <3>1. proc' = [Goto(p, "stage") EXCEPT ![p].exec = exec, ![p].root = Root(exec)]
      BY <1>3, <2>3 DEF MergeLayers
    <3>2. exec = ExecOf(cli, proc[p].agent, proc[p].file, machine)
      BY <1>0, <2>1 DEF MergeAt, ExecOf
    <3>3. /\ DOMAIN exec = {"scalar", "allow", "forward", "secrets", "mounts", "env"}
          /\ DOMAIN exec.scalar = Scalars
      BY DEF Merge
    <3>4. /\ Agrees(exec, cli, proc[p].agent, proc[p].file, machine)
          /\ exec.scalar["interactive"] = "yes"
               <=> Terminal(cli, proc[p].agent, proc[p].file, machine)
      <4>1. cli \in CommandLines /\ (proc[p].file = NoKeys \/ IsLayer(proc[p].file))
        BY <1>0, <2>1 DEF MergeAt, IsFile
      <4> HIDE DEF exec, cli
      <4> QED
        BY <3>2, <4>1, MergeDoes
    <3> HIDE DEF exec
    <3>5. /\ proc'[p].pc = "stage" /\ proc'[p].exec = exec /\ proc'[p].root = Root(exec)
          /\ proc'[p].cli = proc[p].cli /\ proc'[p].file = proc[p].file
          /\ proc'[p].agent = proc[p].agent
          /\ \A q \in Proc \ {p} : proc'[q] = proc[q]
      BY <3>1, GotoDoes DEF Idle
    <3>6. MergeAt(p)'
      BY <1>0, <2>1, <3>3, <3>4, <3>5 DEF MergeAt
    <3> QED
      BY <2>1, <3>5, <3>6, MergeQuiet
  <2> QED
    BY <2>2, <2>3
<1>4. CASE Detach(p)
  <2>1. proc[p].pc = "mode" /\ UNCHANGED machine
    BY <1>4 DEF Detach
  <2> DEFINE old == proc[p].exec
             exec == IF proc[p].cli.detach THEN DaemonConfig(old) ELSE old
  <2>2. proc' = [Goto(p, "session") EXCEPT ![p].exec = exec]
    <3>1. Goto(p, "session")[p].exec = old
      BY GotoDoes DEF Idle
    <3> QED
      BY <1>4, <3>1, GotoDoes DEF Detach, Idle
  <2>3. /\ DOMAIN old = {"scalar", "allow", "forward", "secrets", "mounts", "env"}
        /\ DOMAIN old.scalar = Scalars
        /\ Agrees(old, proc[p].cli, proc[p].agent, proc[p].file, machine)
        /\ proc[p].root = Root(old)
        /\ old.scalar["interactive"] = "yes"
             <=> Terminal(proc[p].cli, proc[p].agent, proc[p].file, machine)
    BY <1>0, <2>1 DEF MergeAt
  <2>4. /\ DOMAIN exec = DOMAIN old /\ DOMAIN exec.scalar = Scalars
        /\ exec.allow = old.allow /\ exec.forward = old.forward
        /\ exec.secrets = old.secrets /\ exec.mounts = old.mounts /\ exec.env = old.env
        /\ \A f \in Scalars \ {"interactive"} : exec.scalar[f] = old.scalar[f]
        /\ exec.scalar["interactive"]
             = IF proc[p].cli.detach THEN "no" ELSE old.scalar["interactive"]
    BY <2>3 DEF DaemonConfig, Scalars
  <2> HIDE DEF exec, old
  <2>5. Agrees(exec, proc[p].cli, proc[p].agent, proc[p].file, machine) /\ proc[p].root = Root(exec)
    BY <2>3, <2>4 DEF Agrees, Root, Scalars
  <2>6. /\ proc'[p].pc = "session" /\ proc'[p].exec = exec /\ proc'[p].root = proc[p].root
        /\ proc'[p].cli = proc[p].cli /\ proc'[p].file = proc[p].file
        /\ proc'[p].agent = proc[p].agent
        /\ \A q \in Proc \ {p} : proc'[q] = proc[q]
    BY <2>2, GotoDoes DEF Idle
  <2>7. MergeAt(p)'
    BY <1>0, <2>1, <2>3, <2>4, <2>5, <2>6 DEF MergeAt
  <2> QED
    BY <2>1, <2>6, <2>7, MergeQuiet
<1> QED
  BY <1>1, <1>2, <1>3, <1>4

\* The rest of the session: the list is made of it, and a browser's forward is
\* put behind the others.
LEMMA MergeSessionSteps ==
  ASSUME LaunchInv, MergeInv, NEW p \in Proc, ParseSpecs(p) \/ LaunchBrowser(p)
  PROVE  MergeInv'
<1> USE DEF Undecided, Chosen, Fore, Allowing, Rooted, HasCa, Running
<1>0. MergeAt(p)
  BY DEF MergeInv
<1>1. CASE ParseSpecs(p)
  <2>1. proc[p].pc = "specs" /\ UNCHANGED machine
    BY <1>1 DEF ParseSpecs
  <2>2. CASE Exit(p)
    BY <2>1, <2>2, MergeExit
  <2>3. CASE ~Exit(p)
    <3> DEFINE allowed == AllowedHosts(proc[p].exec.allow, proc[p].exec.secrets)
    <3>1. proc' = [Goto(p, "policy") EXCEPT ![p].allowed = allowed]
      BY <1>1, <2>3 DEF ParseSpecs
    <3>2. /\ proc'[p].pc = "policy" /\ proc'[p].allowed = allowed
          /\ proc'[p].exec = proc[p].exec /\ proc'[p].root = proc[p].root
          /\ proc'[p].cli = proc[p].cli /\ proc'[p].file = proc[p].file
          /\ proc'[p].agent = proc[p].agent
          /\ \A q \in Proc \ {p} : proc'[q] = proc[q]
      <4> HIDE DEF allowed
      <4> QED
        BY <3>1, GotoDoes DEF Idle
    <3>3. MergeAt(p)'
      BY <1>0, <2>1, <3>2 DEF MergeAt
    <3> QED
      BY <2>1, <3>2, <3>3, MergeQuiet
  <2> QED
    BY <2>2, <2>3
<1>2. CASE LaunchBrowser(p)
  <2>1. proc[p].pc = "browser" /\ UNCHANGED machine
    BY <1>2 DEF LaunchBrowser
  <2>2. CASE Exit(p)
    BY <2>1, <2>2, MergeExit
  <2>3. CASE ~Exit(p)
    <3> DEFINE old == proc[p].exec
               cdp == [guest |-> Cdp, host |-> Cdp]
    <3>1. PICK fs : /\ fs \in {old.forward, Append(old.forward, cdp)}
                    /\ proc' = [Goto(p, "proxy") EXCEPT ![p].exec.forward = fs]
      BY <1>2, <2>3 DEF LaunchBrowser
    <3> DEFINE exec == [old EXCEPT !.forward = fs]
    <3>2. /\ DOMAIN old = {"scalar", "allow", "forward", "secrets", "mounts", "env"}
          /\ DOMAIN old.scalar = Scalars
          /\ Agrees(old, proc[p].cli, proc[p].agent, proc[p].file, machine)
          /\ proc[p].root = Root(old) /\ old.forward \in Seq(Ports)
      BY <1>0, <2>1 DEF MergeAt, Agrees
    <3>3. /\ fs \in Seq(Ports) /\ ToSet(old.forward) \subseteq ToSet(fs)
          /\ ToSet(fs) \subseteq ToSet(old.forward) \cup {cdp}
      <4>1. cdp \in Ports
        BY LaunchAssumption DEF Ports
      <4>2. old.forward \o <<cdp>> = Append(old.forward, cdp)
        <5> HIDE DEF cdp, old
        <5> QED
          BY <3>2, <4>1, AppendIsConcat
      <4>3. <<cdp>> \in Seq(Ports) /\ ToSet(<<cdp>>) = {cdp}
        <5> HIDE DEF cdp
        <5> QED
          BY <4>1 DEF ToSet
      <4> HIDE DEF cdp, old
      <4>4. /\ Append(old.forward, cdp) \in Seq(Ports)
            /\ ToSet(Append(old.forward, cdp)) = ToSet(old.forward) \cup {cdp}
        BY <3>2, <4>2, <4>3, ConcatKeeps
      <4> QED
        BY <3>1, <3>2, <4>4
    <3>4. /\ DOMAIN exec = DOMAIN old /\ exec.scalar = old.scalar /\ exec.forward = fs
          /\ exec.allow = old.allow /\ exec.secrets = old.secrets /\ exec.mounts = old.mounts
          /\ exec.env = old.env
      BY <3>2
    <3>5. proc'[p].exec = exec
      <4>1. Goto(p, "proxy")[p].exec = old
        BY GotoDoes DEF Idle
      <4> QED
        BY <3>1, <4>1, GotoDoes DEF Idle
    <3>6. /\ proc'[p].pc = "proxy" /\ proc'[p].root = proc[p].root
          /\ proc'[p].cli = proc[p].cli /\ proc'[p].file = proc[p].file
          /\ proc'[p].agent = proc[p].agent /\ proc'[p].allowed = proc[p].allowed
          /\ \A q \in Proc \ {p} : proc'[q] = proc[q]
      BY <3>1, GotoDoes DEF Idle
    <3> HIDE DEF exec
    <3>7. Agrees(exec, proc[p].cli, proc[p].agent, proc[p].file, machine) /\ proc[p].root = Root(exec)
      <4> HIDE DEF old
      <4> QED
        BY <3>2, <3>3, <3>4 DEF Agrees, Root, cdp
    <3>8. MergeAt(p)'
      BY <1>0, <2>1, <3>2, <3>4, <3>5, <3>6, <3>7 DEF MergeAt
    <3> QED
      BY <2>1, <3>6, <3>8, MergeQuiet
  <2> QED
    BY <2>2, <2>3
<1> QED
  BY <1>1, <1>2

\* What decides nothing any more.
LEMMA MergeOtherSteps ==
  ASSUME LaunchInv, MergeInv, NEW p \in Proc,
         \/ Stage(p) \/ StartSession(p) \/ InstallCa(p) \/ WritePolicy(p) \/ Boot(p) \/ GuestExits(p)
         \/ ParseForwards(p) \/ ProxyEnds(p) \/ Shutdown(p) \/ Finish(p)
  PROVE  MergeInv'
<1>1. UNCHANGED machine
  BY DEF Stage, StartSession, InstallCa, WritePolicy, Boot, GuestExits, ParseForwards, ProxyEnds,
         Shutdown, Finish
<1>2. proc[p].pc # "idle"
  <2>1. CASE GuestExits(p)
    BY <2>1 DEF GuestExits, LaunchInv, GuestAt
  <2> QED
    BY <2>1 DEF Stage, StartSession, InstallCa, WritePolicy, Boot, ParseForwards, ProxyEnds, Shutdown,
                Finish
<1>3. CASE Exit(p)
  BY <1>1, <1>2, <1>3, MergeExit
<1>4. CASE ~Exit(p)
  <2> DEFINE Policed == Overrun(p, {"session", "ca", "specs", "policy"}, "boot")
  <2>1. \/ proc[p].pc = "stage" /\ proc' = Goto(p, "mode")
        \/ proc[p].pc = "session" /\ proc' = [Goto(p, "ca") EXCEPT ![p].status = "running"]
        \/ proc[p].pc = "ca" /\ \E to \in {"specs", "failed"} :
             proc' = Overrun(p, {"session", "ca"}, to)
        \/ proc[p].pc = "policy" /\ proc' \in {Policed, [Policed EXCEPT ![p].unwritten = TRUE],
                                               [Goto(p, "boot") EXCEPT ![p].unwritten = TRUE]}
        \/ proc[p].pc = "boot" /\ proc' = [Goto(p, "forwards") EXCEPT ![p].vm = "on"]
        \/ proc' = [proc EXCEPT ![p].vm = "gone"]
        \/ proc[p].pc = "forwards" /\ \E at \in {"browser", "proxy"} : proc' = Goto(p, at)
        \/ proc[p].pc = "proxy" /\ proc' = Goto(p, "shutdown")
        \/ proc[p].pc = "shutdown" /\ \E vm : proc' = [Goto(p, "finish") EXCEPT ![p].vm = vm]
        \/ proc[p].pc = "finish" /\ proc' = [Goto(p, "done") EXCEPT ![p].status = "final"]
    BY <1>4 DEF Stage, StartSession, InstallCa, WritePolicy, Boot, GuestExits, ParseForwards,
                ProxyEnds, Shutdown, Finish
  <2>2. /\ \A q \in Proc \ {p} : \A f \in Decided : proc'[q][f] = proc[q][f]
        /\ \A f \in Decided \ {"pc"} : proc'[p][f] = proc[p][f]
        /\ \/ proc'[p].pc = proc[p].pc
           \/ <<proc[p].pc, proc'[p].pc>> \in
                {<<"stage", "mode">>, <<"session", "ca">>, <<"ca", "specs">>, <<"ca", "failed">>,
                 <<"policy", "boot">>, <<"boot", "forwards">>, <<"forwards", "browser">>, <<"forwards", "proxy">>,
                 <<"proxy", "shutdown">>, <<"shutdown", "finish">>, <<"finish", "done">>}
    <3>1. DOMAIN proc = Proc /\ \A q \in Proc : DOMAIN proc[q] = DOMAIN Idle
      BY DEF LaunchInv, ShapeAt
    <3>2. ASSUME NEW from, NEW to,
                 \/ proc' = Overrun(p, from, to)
                 \/ proc' = [Overrun(p, from, to) EXCEPT ![p].unwritten = TRUE]
          PROVE  /\ proc'[p].pc = to /\ \A f \in Decided \ {"pc"} : proc'[p][f] = proc[p][f]
                 /\ \A q \in Proc \ {p} : \A f \in Decided : proc'[q][f] = proc[q][f]
      BY <3>2, OverrunDoes DEF Decided, Idle
    <3>3. CASE proc[p].pc = "ca" /\ \E to \in {"specs", "failed"} :
                 proc' = Overrun(p, {"session", "ca"}, to)
      <4>1. PICK to \in {"specs", "failed"} : proc' = Overrun(p, {"session", "ca"}, to)
        BY <3>3
      <4>2. /\ proc'[p].pc = to /\ \A f \in Decided \ {"pc"} : proc'[p][f] = proc[p][f]
            /\ \A q \in Proc \ {p} : \A f \in Decided : proc'[q][f] = proc[q][f]
        BY <3>2, <4>1
      <4> QED
        BY <3>3, <4>2
    <3>4. CASE proc[p].pc = "policy" /\ proc' \in {Policed, [Policed EXCEPT ![p].unwritten = TRUE]}
      <4>1. /\ proc'[p].pc = "boot" /\ \A f \in Decided \ {"pc"} : proc'[p][f] = proc[p][f]
            /\ \A q \in Proc \ {p} : \A f \in Decided : proc'[q][f] = proc[q][f]
        BY <3>2, <3>4
      <4> QED
        BY <3>4, <4>1
    <3>5. CASE proc[p].pc = "policy" /\ proc' = [Goto(p, "boot") EXCEPT ![p].unwritten = TRUE]
      BY <3>5, GotoDoes DEF Decided, Idle
    <3>6. CASE proc[p].pc \notin {"ca", "policy"} \/ proc' = [proc EXCEPT ![p].vm = "gone"]
      BY <2>1, <3>1, <3>6, GotoDoes DEF Decided, Idle
    <3> QED
      BY <2>1, <3>3, <3>4, <3>5, <3>6
  <2>3. \A at \in {Undecided, Chosen, Rooted, Allowing} : proc'[p].pc \in at => proc[p].pc \in at
    BY <2>2 DEF Undecided, Chosen, Fore, Allowing, Rooted, HasCa, Running
  <2>4. proc'[p].pc # "idle" /\ (proc'[p].pc \in Rooted => (proc'[p].pc \in Fore <=> proc[p].pc \in Fore))
    BY <1>2, <2>2 DEF Rooted, Fore, Running
  <2> QED
    BY <1>1, <1>2, <2>2, <2>3, <2>4, MergeOnward
<1> QED
  BY <1>3, <1>4

LEMMA NextMerge ==
  ASSUME LaunchInv, MergeInv, [Next]_vars
  PROVE  MergeInv'
<1>1. CASE Next
  <2>1. PICK p \in Proc :
          \/ Start(p) \/ Load(p) \/ Confirm(p) \/ Target(p) \/ BuildImage(p) \/ MergeLayers(p)
          \/ Stage(p) \/ Detach(p) \/ StartSession(p) \/ InstallCa(p) \/ ParseSpecs(p)
          \/ WritePolicy(p) \/ Boot(p) \/ GuestExits(p) \/ ParseForwards(p) \/ LaunchBrowser(p)
          \/ ProxyEnds(p) \/ Shutdown(p) \/ Finish(p)
    BY <1>1 DEF Next
  <2> QED
    BY <2>1, MergeLoadSteps, MergeCommandSteps, MergeSessionSteps, MergeOtherSteps
<1>2. CASE UNCHANGED vars
  BY <1>2 DEF vars, MergeInv, MergeAt
<1> QED
  BY <1>1, <1>2

LEMMA MergeInvariant == Spec => [](LaunchInv /\ MergeInv)
<1>1. Init => LaunchInv /\ MergeInv
  BY InitLaunch, InitMerge
<1>2. LaunchInv /\ MergeInv /\ [Next]_vars => (LaunchInv /\ MergeInv)'
  BY NextLaunch, NextMerge
<1> QED
  BY <1>1, <1>2, PTL DEF Spec

\* A session is what its layers say, whichever way it came: command line over
\* file over agent for image, root file system, command, timeout, audit log and
\* terminal; the entries of secrets, mounts and environment, by their keys, with
\* what is parsed of a spec the entry it was written from, if its text reads
\* back; the forwards and hosts of all layers and no others, and those of the
\* secrets where there is a list (main.rs:735-771, 963-1058, config.rs:78-140,
\* cmd/exec.rs:111-215).
THEOREM SessionsAreMerged == Spec => []SessionIsTheMerge
<1>1. ASSUME MergeInv, NEW p \in Proc, proc[p].pc \in {"boot", "forwards", "browser", "proxy"}
      PROVE
    LET exec    == proc[p].exec
        cli     == proc[p].cli
        below   == <<FileOf(p), AgentOf(p)>>
        layers  == <<cli, FileOf(p), AgentOf(p)>>
        secrets == {e \in Entries(FileOf(p).secrets, AgentOf(p).secrets) : e[2].hosts # <<>>}
        mounts  == {e[2] : e \in Entries(FileOf(p).mount, AgentOf(p).mount)}
        hosts   == machine.claude \cup UNION {layers[i].allow : i \in DOMAIN layers}
        ports   == UNION {ToSet(layers[i].forward) : i \in DOMAIN layers}
        image   == Strongest("image", layers)
    IN  /\ \A f \in {"image", "timeout", "auditLog"} : exec.scalar[f] = Strongest(f, layers)
        /\ exec.scalar["command"] = IF cli.extra = Unset THEN Strongest("command", layers)
                                    ELSE <<Strongest("command", below), cli.extra>>
        /\ exec.scalar["interactive"] = "yes" <=>
             ~cli.detach /\ "yes" \in {cli.scalar["interactive"], Strongest("interactive", below)}
        /\ proc[p].root = IF image # Unset THEN image ELSE Strongest("rootfs", layers)
        /\ Entries(exec.env, NoKeys) = Entries(FileOf(p).env, AgentOf(p).env)
        /\ ports \subseteq ToSet(exec.forward)
        /\ ToSet(exec.forward) \subseteq ports \cup {[guest |-> Cdp, host |-> Cdp]}
        /\ exec.secrets = cli.secrets \cup {SecretSpec(e[1], e[2]) : e \in secrets}
        /\ exec.mounts = cli.mounts \cup {MountSpec(m) : m \in mounts}
        /\ \A e \in secrets : ReadsBack(e[1], e[2]) => ParseSecret(SecretSpec(e[1], e[2]))
             = [name |-> e[1], value |-> e[2].value, hosts |-> e[2].hosts]
        /\ \A m \in mounts : MountReadsBack(m) => ParseMount(MountSpec(m))
             = [m EXCEPT !.target = IF @ = <<>> THEN Workspace ELSE @]
        /\ proc[p].allowed = IF Star \in hosts THEN NoList
                             ELSE Listed(hosts \cup SecretHosts(exec.secrets))
  <2> DEFINE exec    == proc[p].exec
             cli     == proc[p].cli
             agent   == proc[p].agent
             file    == proc[p].file
             F       == FileOf(p)
             A       == AgentOf(p)
             below   == <<F, A>>
             layers  == <<cli, F, A>>
             secrets == {e \in Entries(F.secrets, A.secrets) : e[2].hosts # <<>>}
             mounts  == {e[2] : e \in Entries(F.mount, A.mount)}
             hosts   == machine.claude \cup UNION {layers[i].allow : i \in DOMAIN layers}
             ports   == UNION {ToSet(layers[i].forward) : i \in DOMAIN layers}
             image   == Strongest("image", layers)
  <2>1. /\ F = Said(file) /\ A = AgentAt(agent, machine)
        /\ below = BelowOf(agent, file, machine) /\ layers = LayersOf(cli, agent, file, machine)
    BY DEF FileOf, AgentOf, Said, AgentAt, BelowOf, LayersOf
  <2>2. /\ file = NoKeys \/ IsFile(file)
        /\ Agrees(exec, cli, agent, file, machine) /\ proc[p].root = Root(exec)
        /\ exec.scalar["interactive"] = "yes" <=> ~cli.detach /\ Terminal(cli, agent, file, machine)
        /\ proc[p].allowed = AllowedHosts(exec.allow, exec.secrets)
    BY <1>1 DEF MergeInv, MergeAt, Rooted, Fore, Allowing, HasCa, Running
  <2>3. /\ {SecretSpec(e[1], e[2]) : e \in secrets} = Formatted(Entries(F.secrets, A.secrets))
        /\ {MountSpec(m) : m \in mounts} = Mounted(Entries(F.mount, A.mount))
    BY DEF Formatted, Mounted
  <2> HIDE DEF exec, cli, agent, file, F, A, below, layers
  <2>4. /\ \A f \in {"image", "rootfs", "timeout", "auditLog"} : exec.scalar[f] = Strongest(f, layers)
        /\ exec.scalar["command"] = IF cli.extra = Unset THEN Strongest("command", layers)
                                    ELSE <<Strongest("command", below), cli.extra>>
        /\ ports \subseteq ToSet(exec.forward)
        /\ ToSet(exec.forward) \subseteq ports \cup {[guest |-> Cdp, host |-> Cdp]}
        /\ exec.secrets = cli.secrets \cup Formatted(Entries(F.secrets, A.secrets))
        /\ exec.mounts = cli.mounts \cup Mounted(Entries(F.mount, A.mount))
        /\ Entries(exec.env, NoKeys) = Entries(F.env, A.env)
        /\ exec.allow = hosts
    BY <2>1, <2>2 DEF Agrees
  <2>5. proc[p].root = IF image # Unset THEN image ELSE Strongest("rootfs", layers)
    BY <2>2, <2>4 DEF Root
  <2>6. exec.scalar["interactive"] = "yes" <=>
          ~cli.detach /\ "yes" \in {cli.scalar["interactive"], Strongest("interactive", below)}
    BY <2>1, <2>2 DEF Terminal
  <2>7. \A e \in secrets : ReadsBack(e[1], e[2]) => ParseSecret(SecretSpec(e[1], e[2]))
          = [name |-> e[1], value |-> e[2].value, hosts |-> e[2].hosts]
    <3> SUFFICES ASSUME NEW e \in secrets, ReadsBack(e[1], e[2])
                 PROVE  ParseSecret(SecretSpec(e[1], e[2]))
                          = [name |-> e[1], value |-> e[2].value, hosts |-> e[2].hosts]
      OBVIOUS
    <3>1. e \in Entries(Said(file).secrets, AgentAt(agent, machine).secrets)
      BY <2>1
    <3>2. (file = NoKeys \/ IsFile(file)) /\ ReadsBack(e[1], e[2])
      BY <2>2
    <3> QED
      BY ONLY <3>1, <3>2, SecretsReadBack
  <2>8. \A m \in mounts : MountReadsBack(m) => ParseMount(MountSpec(m))
          = [m EXCEPT !.target = IF @ = <<>> THEN Workspace ELSE @]
    <3> SUFFICES ASSUME NEW e \in Entries(F.mount, A.mount), MountReadsBack(e[2])
                 PROVE  ParseMount(MountSpec(e[2]))
                          = [e[2] EXCEPT !.target = IF @ = <<>> THEN Workspace ELSE @]
      OBVIOUS
    <3>1. e \in Entries(Said(file).mount, AgentAt(agent, machine).mount)
      BY <2>1
    <3>2. (file = NoKeys \/ IsFile(file)) /\ MountReadsBack(e[2])
      BY <2>2
    <3> QED
      BY ONLY <3>1, <3>2, MountsReadBack
  <2>9. proc[p].allowed = IF Star \in hosts THEN NoList
                          ELSE Listed(hosts \cup SecretHosts(exec.secrets))
    BY <2>2, <2>4 DEF AllowedHosts
  <2> HIDE DEF secrets, mounts, hosts, ports, image
  <2>10. /\ \A f \in {"image", "timeout", "auditLog"} : exec.scalar[f] = Strongest(f, layers)
         /\ exec.secrets = cli.secrets \cup {SecretSpec(e[1], e[2]) : e \in secrets}
         /\ exec.mounts = cli.mounts \cup {MountSpec(m) : m \in mounts}
    BY <2>3, <2>4
  <2> QED
    BY <2>4, <2>5, <2>6, <2>7, <2>8, <2>9, <2>10, Zenon
       DEF exec, cli, F, A, below, layers, secrets, mounts, hosts, ports, image
<1>2. MergeInv => SessionIsTheMerge
  BY <1>1, Zenon DEF SessionIsTheMerge
<1> QED
  BY <1>2, MergeInvariant, PTL

\* What a project's file takes from the host comes to nothing without trust: of
\* a file that nobody has recorded or agreed to, no root file system, audit log,
\* forward, secret of the host's or mount from outside is in effect in the
\* session, after the merge and after the specs were written and parsed again
\* (trust.rs:57-121, main.rs:945-949, config.rs:78-103, cmd/exec.rs:465-563).
THEOREM NoUntrustedReach == Spec => []HostReachTrusted
<1>1. ASSUME LaunchInv, MergeInv, NEW p \in Proc, proc[p].pc \in Running \cup {"stage", "mode"},
             proc[p].file = machine.project, machine.project # NoKeys, ~trusted, ~proc[p].agreed
      PROVE
    LET exec  == proc[p].exec
        cli   == proc[p].cli
        file  == machine.project
        blind == {SecretSpec(n, file.secrets[n]) :
                    n \in {m \in DOMAIN file.secrets : ~ReadsBack(m, file.secrets[m])}}
        gone  == {MountSpec(file.mount[k]) :
                    k \in {j \in DOMAIN file.mount : ~MountReadsBack(file.mount[j])}}
    IN  /\ \A f \in {"rootfs", "auditLog"} : exec.scalar[f] = cli.scalar[f]
        /\ ToSet(exec.forward) \subseteq ToSet(cli.forward) \cup {[guest |-> Cdp, host |-> Cdp]}
        /\ \A s \in exec.secrets : FromHost(ParseSecret(s).value) =>
             s \in cli.secrets \cup SecretSpecs(AgentOf(p)) \cup blind
        /\ \A m \in exec.mounts : ParseMount(m).source \in OutOfTree =>
             m \in cli.mounts \cup gone
  <2> DEFINE exec   == proc[p].exec
             cli    == proc[p].cli
             agent  == proc[p].agent
             file   == machine.project
             A      == AgentAt(agent, machine)
             layers == LayersOf(cli, agent, file, machine)
             blind  == {SecretSpec(n, file.secrets[n]) :
                          n \in {m \in DOMAIN file.secrets : ~ReadsBack(m, file.secrets[m])}}
             gone   == {MountSpec(file.mount[k]) :
                          k \in {j \in DOMAIN file.mount : ~MountReadsBack(file.mount[j])}}
  <2>1. ~Reaches(file)
    BY <1>1 DEF LaunchInv, TrustAt, Acting
  <2>2. /\ \A f \in {"rootfs", "auditLog"} : file.scalar[f] = Unset
        /\ file.forward = <<>>
        /\ \A n \in DOMAIN file.secrets : ~FromHost(file.secrets[n].value)
        /\ \A k \in DOMAIN file.mount : file.mount[k].source \in InTree
    BY <2>1 DEF Reaches
  <2>3. /\ IsFile(file) /\ Said(file) = file
        /\ Agrees(exec, cli, agent, file, machine)
    BY <1>1 DEF MergeInv, MergeAt, Rooted, Said
  <2>4. /\ \A f \in {"rootfs", "auditLog"} : A.scalar[f] = Unset
        /\ A.forward = <<>> /\ ToSet(<<>>) = {}
        /\ A.mount \in {NoKeys, [x \in {"workspace"} |->
                                   [source |-> CwdSource, target |-> Workspace, ro |-> FALSE]]}
    <3>1. A = Default \/ A = Profile(agent, machine).config
      BY DEF AgentAt
    <3>2. ASSUME NEW slug, NEW f \in {"rootfs", "auditLog"}
          PROVE  Profile(slug, machine).config.scalar[f] = Unset
      BY <3>2 DEF Profile, NoScalars, Scalars
    <3>3. \A f \in {"rootfs", "auditLog"} : Default.scalar[f] = Unset
      BY DEF Default, NoScalars, Scalars
    <3>4. /\ Profile(agent, machine).config.forward = <<>> /\ Default.forward = <<>>
          /\ Default.mount = NoKeys
          /\ Profile(agent, machine).config.mount
               = [x \in {"workspace"} |->
                    [source |-> CwdSource, target |-> Workspace, ro |-> FALSE]]
      BY DEF Profile, Default
    <3>5. ToSet(<<>>) = {}
      BY DEF ToSet
    <3> HIDE DEF A
    <3> QED
      BY <3>1, <3>2, <3>3, <3>4, <3>5
  <2>5. /\ DOMAIN layers = 1 .. 3 /\ layers[1] = cli /\ layers[2] = file /\ layers[3] = A
        /\ AgentOf(p) = A
    BY <2>3 DEF LayersOf, AgentOf, AgentAt
  <2> HIDE DEF exec, cli, agent, file, A, layers
  <2>6. /\ \A f \in {"rootfs", "auditLog"} : exec.scalar[f] = Strongest(f, layers)
        /\ ToSet(exec.forward) \subseteq (UNION {ToSet(layers[i].forward) : i \in DOMAIN layers})
                                         \cup {[guest |-> Cdp, host |-> Cdp]}
        /\ exec.secrets = cli.secrets \cup Formatted(Entries(file.secrets, A.secrets))
        /\ exec.mounts = cli.mounts \cup Mounted(Entries(file.mount, A.mount))
    <3>1. A = AgentAt(agent, machine) /\ layers = LayersOf(cli, agent, file, machine)
      BY DEF A, layers
    <3>2. Agrees(exec, cli, agent, file, machine)
      BY <2>3
    <3>3. /\ \A f \in {"image", "rootfs", "timeout", "auditLog"} : exec.scalar[f] = Strongest(f, layers)
          /\ ToSet(exec.forward) \subseteq (UNION {ToSet(layers[i].forward) : i \in DOMAIN layers})
                                           \cup {[guest |-> Cdp, host |-> Cdp]}
          /\ exec.secrets = cli.secrets \cup Formatted(Entries(Said(file).secrets, A.secrets))
          /\ exec.mounts = cli.mounts \cup Mounted(Entries(Said(file).mount, A.mount))
      BY <3>1, <3>2 DEF Agrees
    <3> QED
      BY <2>3, <3>3, Zenon
  <2>7. ASSUME NEW f \in {"rootfs", "auditLog"} PROVE exec.scalar[f] = cli.scalar[f]
    <3>1. /\ \A i \in 1 .. 3 : layers[i].scalar[f] # Unset
                 /\ (\A j \in 1 .. 3 : j < i => layers[j].scalar[f] = Unset)
               => Strongest(f, layers) = layers[i].scalar[f]
          /\ (\A i \in 1 .. 3 : layers[i].scalar[f] = Unset) => Strongest(f, layers) = Unset
      <4>1. 3 \in Nat /\ DOMAIN layers = 1 .. 3
        BY <2>5
      <4> QED
        BY ONLY <4>1, StrongestIs
    <3>2. \A i \in 1 .. 3 : i = 1 \/ i = 2 \/ i = 3
      OBVIOUS
    <3>3. file.scalar[f] = Unset /\ A.scalar[f] = Unset /\ exec.scalar[f] = Strongest(f, layers)
      BY <2>2, <2>4, <2>6
    <3> QED
      BY <2>5, <3>1, <3>2, <3>3
  <2>8. ToSet(exec.forward) \subseteq ToSet(cli.forward) \cup {[guest |-> Cdp, host |-> Cdp]}
    <3>1. UNION {ToSet(layers[i].forward) : i \in DOMAIN layers}
            = ToSet(cli.forward) \cup ToSet(file.forward) \cup ToSet(A.forward)
      BY <2>5
    <3>2. ToSet(file.forward) = {} /\ ToSet(A.forward) = {}
      BY <2>2, <2>4, Zenon
    <3>3. UNION {ToSet(layers[i].forward) : i \in DOMAIN layers} = ToSet(cli.forward)
      BY <3>1, <3>2
    <3> QED
      BY <2>6, <3>3, Zenon
  <2>9. ASSUME NEW s \in exec.secrets, FromHost(ParseSecret(s).value)
        PROVE  s \in cli.secrets \cup SecretSpecs(A) \cup blind
    <3>1. CASE s \in cli.secrets
      BY <3>1
    <3>2. CASE s \notin cli.secrets
      <4>1. PICK e \in Entries(file.secrets, A.secrets) :
              e[2].hosts # <<>> /\ s = SecretSpec(e[1], e[2])
        BY <2>6, <3>2 DEF Formatted
      <4>2. CASE e[1] \in DOMAIN file.secrets /\ e[2] = file.secrets[e[1]]
        <5>1. CASE ReadsBack(e[1], e[2])
          <6>1. e \in Entries(Said(file).secrets, AgentAt(agent, machine).secrets)
            BY <2>3, <4>1 DEF A
          <6>2. (file = NoKeys \/ IsFile(file)) /\ ReadsBack(e[1], e[2])
            BY <2>3, <5>1
          <6>3. ParseSecret(SecretSpec(e[1], e[2]))
                  = [name |-> e[1], value |-> e[2].value, hosts |-> e[2].hosts]
            BY ONLY <6>1, <6>2, SecretsReadBack
          <6>4. ParseSecret(s).value = file.secrets[e[1]].value
            BY <4>1, <4>2, <6>3
          <6> QED
            BY <2>2, <2>9, <4>2, <6>4
        <5>2. CASE ~ReadsBack(e[1], e[2])
          <6>1. s \in blind
            BY <4>1, <4>2, <5>2
          <6> QED
            BY <6>1
        <5> QED
          BY <5>1, <5>2
      <4>3. CASE e[1] \in DOMAIN A.secrets /\ e[2] = A.secrets[e[1]]
        <5>1. s \in SecretSpecs(A)
          BY <4>1, <4>3 DEF SecretSpecs
        <5> QED
          BY <5>1
      <4>4. \/ e[1] \in DOMAIN file.secrets /\ e[2] = file.secrets[e[1]]
            \/ e[1] \in DOMAIN A.secrets /\ e[2] = A.secrets[e[1]]
        BY <4>1 DEF Entries
      <4> QED
        BY <4>2, <4>3, <4>4
    <3> QED
      BY <3>1, <3>2
  <2>10. ASSUME NEW m \in exec.mounts, ParseMount(m).source \in OutOfTree
         PROVE  m \in cli.mounts \cup gone
    <3>1. CASE m \in cli.mounts
      BY <3>1
    <3>2. CASE m \notin cli.mounts
      <4>1. PICK e \in Entries(file.mount, A.mount) : m = MountSpec(e[2])
        BY <2>6, <3>2 DEF Mounted
      <4>2. MountReadsBack(e[2]) => ParseMount(m).source = e[2].source
        <5> SUFFICES ASSUME MountReadsBack(e[2]) PROVE ParseMount(m).source = e[2].source
          OBVIOUS
        <5>1. e \in Entries(Said(file).mount, AgentAt(agent, machine).mount)
          BY <2>3, <4>1 DEF A
        <5>2. (file = NoKeys \/ IsFile(file)) /\ MountReadsBack(e[2])
          BY <2>3
        <5>3. ParseMount(MountSpec(e[2])) = [e[2] EXCEPT !.target = IF @ = <<>> THEN Workspace ELSE @]
          BY ONLY <5>1, <5>2, MountsReadBack
        <5>4. [e[2] EXCEPT !.target = IF @ = <<>> THEN Workspace ELSE @].source = e[2].source
          OBVIOUS
        <5> QED
          BY <4>1, <5>3, <5>4
      <4>3. CASE e[1] \in DOMAIN file.mount /\ e[2] = file.mount[e[1]]
        <5>1. e[2].source \notin OutOfTree
          BY <2>2, <4>3, SourceAssumption
        <5>2. ~MountReadsBack(e[2])
          BY <2>10, <4>2, <5>1
        <5>3. m \in gone
          BY <4>1, <4>3, <5>2
        <5> QED
          BY <5>3
      <4>4. CASE e[1] \in DOMAIN A.mount /\ e[2] = A.mount[e[1]]
        <5>1. DOMAIN NoKeys = {}
          BY DEF NoKeys
        <5>2. A.mount # NoKeys
          BY <4>4, <5>1
        <5>3. A.mount = [x \in {"workspace"} |->
                           [source |-> CwdSource, target |-> Workspace, ro |-> FALSE]]
          BY <2>4, <5>2
        <5>4. e[2] = [source |-> CwdSource, target |-> Workspace, ro |-> FALSE]
          BY <4>4, <5>3
        <5>5. MountReadsBack(e[2])
          BY <5>4 DEF MountReadsBack, CwdSource, Workspace, Colon, ToSet
        <5>6. e[2].source = CwdSource /\ CwdSource \notin OutOfTree
          BY <5>4, SourceAssumption
        <5> QED
          BY <2>10, <4>2, <5>5, <5>6
      <4>5. \/ e[1] \in DOMAIN file.mount /\ e[2] = file.mount[e[1]]
            \/ e[1] \in DOMAIN A.mount /\ e[2] = A.mount[e[1]]
        BY <4>1 DEF Entries
      <4> QED
        BY <4>3, <4>4, <4>5
    <3> QED
      BY <3>1, <3>2
  <2> HIDE DEF blind, gone
  <2>11. /\ \A f \in {"rootfs", "auditLog"} : exec.scalar[f] = cli.scalar[f]
         /\ \A s \in exec.secrets : FromHost(ParseSecret(s).value) =>
              s \in cli.secrets \cup SecretSpecs(AgentOf(p)) \cup blind
         /\ \A m \in exec.mounts : ParseMount(m).source \in OutOfTree => m \in cli.mounts \cup gone
    BY <2>5, <2>7, <2>9, <2>10
  <2> QED
    BY <2>8, <2>11, Zenon DEF exec, cli, file, blind, gone
<1>2. LaunchInv /\ MergeInv => HostReachTrusted
  BY <1>1, Zenon DEF HostReachTrusted
<1> QED
  BY <1>2, MergeInvariant, PTL
=============================================================================
