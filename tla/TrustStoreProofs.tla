------------------------- MODULE TrustStoreProofs -------------------------
(***************************************************************************)
(* The properties of TrustStore, for any number of commands, any paths and *)
(* any texts.                                                              *)
(*                                                                         *)
(* What is trusted was granted because every map on its way to the disk    *)
(* was (GrantedInv), whoever's inode it lands in.  A command is atomic when *)
(* alone because no other writer can touch what it goes on: the map it has *)
(* made is still the change of the map in the store, and the temporary     *)
(* file is its own (AloneInv).                                             *)
(***************************************************************************)
EXTENDS TrustStore, TLAPS

Pair(p) == <<job[p].key, job[p].text>>

\* Every map on the disk or about to be written is of granted texts, and so is
\* what a trust command, a confirmed prompt or a running session stands for.
GrantedInv ==
  /\ \A i \in Ino : data[i].map \subseteq granted
  /\ \A p \in Proc : pc[p] \in {"opening", "writing"} => copy[p] \subseteq granted
  /\ \A p \in Proc : job[p].op = "trust" /\ pc[p] # "idle" => Pair(p) \in granted
  /\ \A p \in Proc : job[p].op = "load" /\ pc[p] \in Writing \cup {"ready"}
                       => Pair(p) \in granted
  /\ \A p \in Proc : pc[p] \in {"discovered", "asked", "running"} => job[p].op = "load"
  /\ RunsWhatWasGranted

\* The writer p has the temporary file to itself.
Alone(p) ==
  /\ copy[p] = Changed(p)
  /\ pc[p] = "writing" => tmp # NoIno /\ fd[p] = tmp /\ data[tmp] = Blank
  /\ pc[p] = "renaming" => tmp # NoIno /\ data[tmp] = Holds(copy[p])

AloneInv ==
  ~overlap => \A p \in Writers : Alone(p) /\ Writers = {p}

FdInv == \A p \in Holders : fd[p] \in Ino

TrustInv == TrustTypeOK /\ FdInv /\ GrantedInv /\ AloneInv

----------------------------------------------------------------------------
(* Lemmas about single operators *)

\* The store read back is a map, and only of granted texts.
LEMMA TrustedIsMap ==
  ASSUME TrustTypeOK
  PROVE  Trusted \in Map /\ (GrantedInv => Trusted \subseteq granted)
<1>1. \A i \in Ino : data[i].map \in Map
  BY DEF TrustTypeOK, Blank, Torn, Holds, Map
<1> QED
  BY <1>1 DEF Trusted, TrustTypeOK, GrantedInv, Map

\* A write leaves the writer's map, whole, or something that reads as empty.
LEMMA OverlayResult ==
  ASSUME NEW old, NEW new, NEW d \in Overlay(old, new)
  PROVE  d = Holds(new) \/ d = Torn
BY DEF Overlay

\* Over a file that was just truncated it leaves the map.
LEMMA OverlayBlank ==
  ASSUME NEW new, NEW d \in Overlay(Blank, new)
  PROVE  d = Holds(new)
BY DEF Overlay, Blank

\* The map a command makes is the store's after a grant or a revocation.
LEMMA ChangedIsMap ==
  ASSUME TrustTypeOK, NEW p \in Proc
  PROVE  Changed(p) \in Map
<1>1. Trusted \in Map /\ job[p].key \in Key /\ job[p].text \in Text
  BY TrustedIsMap DEF TrustTypeOK
<1> QED
  BY <1>1 DEF Changed, Others, Map

----------------------------------------------------------------------------
(* The inductive invariant *)

LEMMA TrustInitInv == TrustInit => TrustInv
<1> SUFFICES ASSUME TrustInit PROVE TrustInv
  OBVIOUS
<1> USE DEF TrustInit
<1>1. TrustTypeOK
  <2>1. {} \in Map
    BY DEF Map
  <2>2. job \in [Proc -> [op : {"trust", "untrust", "load"}, key : Key, text : Text]]
    OBVIOUS
  <2> QED
    BY <2>1, <2>2 DEF TrustTypeOK
<1>2. FdInv
  BY DEF FdInv, Holders
<1>3. GrantedInv
  BY DEF GrantedInv, RunsWhatWasGranted, Blank, Writing
<1>4. AloneInv
  BY DEF AloneInv, Writers, Writing
<1> QED
  BY <1>1, <1>2, <1>3, <1>4 DEF TrustInv

\* The places a command leaves its work for are no writer's.
LEMMA LeaveWriters ==
  ASSUME TrustTypeOK, NEW p \in Proc, NEW step,
         step \in {"idle", "ready", "discovered", "asked", "running"}, Leave(p, step)
  PROVE  Writers' = Writers \ {p} /\ Holders' = Holders \ {p}
BY DEF TrustTypeOK, Leave, Writers, Holders, Writing

\* Every step keeps the types, and a file is open only while it is written.
LEMMA TrustTypeStep ==
  ASSUME TrustTypeOK, FdInv, [TrustNext]_vars
  PROVE  TrustTypeOK' /\ FdInv'
<1> USE DEF TrustTypeOK, FdInv, Holders, Writing, diskVars, procVars
<1>1. CASE UNCHANGED vars
  BY <1>1 DEF vars
<1>2. ASSUME NEW p \in Proc, NEW op \in {"trust", "untrust", "load"}, NEW k \in Key,
             NEW t \in Text, NEW step \in {"ready", "discovered"}, Begin(p, op, k, t, step),
             granted' \in {granted, granted \cup {<<k, t>>}}
      PROVE  TrustTypeOK' /\ FdInv'
  <2>1. granted' \in Map
    BY <1>2 DEF Map
  <2>2. job' \in [Proc -> [op : {"trust", "untrust", "load"}, key : Key, text : Text]]
    BY <1>2 DEF Begin
  <2> QED
    BY <1>2, <2>1, <2>2 DEF Begin
<1>3. ASSUME NEW p \in Proc, Step(p)
      PROVE  TrustTypeOK' /\ FdInv'
  <2>1. CASE \E k \in Key : UntrustCmd(p, k)
    BY <2>1, <1>2 DEF UntrustCmd
  <2>2. CASE \E k \in Key, t \in Text : TrustCmd(p, k, t)
    BY <2>2, <1>2 DEF TrustCmd
  <2>3. CASE \E k \in Key, t \in Text : LoadCmd(p, k, t)
    BY <2>3, <1>2 DEF LoadCmd
  <2>4. CASE Gate(p)
    BY <2>4 DEF Gate
  <2>5. CASE Confirm(p)
    <3>1. granted' \in Map
      BY <2>5 DEF Confirm, Map
    <3> QED
      BY <2>5, <3>1 DEF Confirm
  <2>6. CASE Exit(p)
    BY <2>6 DEF Exit, Leave
  <2>7. CASE ReadStore(p)
    <3>1. Changed(p) \in Map
      BY ChangedIsMap
    <3> QED
      BY <2>7, <3>1 DEF ReadStore
  <2>8. CASE NoKey(p)
    BY <2>8 DEF NoKey, Leave, AfterWrite
  <2>9. CASE OpenTmp(p)
    <3>1. PICK i \in IF tmp = NoIno THEN Unused ELSE {tmp} :
            /\ fd' = [fd EXCEPT ![p] = i]
            /\ tmp' = i
            /\ data' = [data EXCEPT ![i] = Blank]
      BY <2>9 DEF OpenTmp
    <3>2. i \in Ino /\ i # store
      BY <3>1, TrustAssumption DEF Unused
    <3> QED
      BY <2>9, <3>1, <3>2, TrustAssumption DEF OpenTmp
  <2>10. CASE WriteAll(p)
    <3>1. PICK d \in Overlay(data[fd[p]], copy[p]) : data' = [data EXCEPT ![fd[p]] = d]
      BY <2>10 DEF WriteAll
    <3>2. d \in {Blank, Torn} \cup {Holds(m) : m \in Map}
      BY OverlayResult
    <3>3. data' \in [Ino -> {Blank, Torn} \cup {Holds(m) : m \in Map}]
      BY <3>1, <3>2
    <3> QED
      BY <2>10, <3>3 DEF WriteAll
  <2>11. CASE WriteFails(p)
    BY <2>11 DEF WriteFails, Leave, AfterWrite
  <2>12. CASE Rename(p)
    BY <2>12 DEF Rename, Leave, AfterWrite
  <2> QED
    BY <1>3, <2>1, <2>2, <2>3, <2>4, <2>5, <2>6, <2>7, <2>8, <2>9, <2>10, <2>11, <2>12
       DEF Step
<1> QED
  BY <1>1, <1>3 DEF TrustNext

\* Every map is built from granted texts and the store's, so grants are enough.
LEMMA GrantedStep ==
  ASSUME TrustTypeOK, FdInv, GrantedInv, [TrustNext]_vars
  PROVE  GrantedInv'
<1> USE DEF TrustTypeOK, GrantedInv, RunsWhatWasGranted, Pair, Writing, diskVars, procVars
<1>1. CASE UNCHANGED vars
  BY <1>1 DEF vars
<1>2. Trusted \subseteq granted
  BY TrustedIsMap
<1>3. ASSUME NEW p \in Proc, Step(p)
      PROVE  GrantedInv'
  <2>1. CASE \E k \in Key : UntrustCmd(p, k)
    BY <2>1 DEF UntrustCmd, Begin
  <2>2. CASE \E k \in Key, t \in Text : TrustCmd(p, k, t)
    BY <2>2 DEF TrustCmd, Begin
  <2>3. CASE \E k \in Key, t \in Text : LoadCmd(p, k, t)
    BY <2>3 DEF LoadCmd, Begin
  <2>4. CASE Gate(p)
    BY <2>4, <1>2 DEF Gate, IsTrusted
  <2>5. CASE Confirm(p)
    BY <2>5 DEF Confirm
  <2>6. CASE Exit(p)
    BY <2>6 DEF Exit, Leave
  <2>7. CASE ReadStore(p)
    <3>1. Changed(p) \subseteq granted
      BY <2>7, <1>2 DEF ReadStore, Changed, Others
    <3> QED
      BY <2>7, <3>1 DEF ReadStore
  <2>8. CASE NoKey(p)
    BY <2>8 DEF NoKey, Leave, AfterWrite
  <2>9. CASE OpenTmp(p)
    <3>1. PICK i : data' = [data EXCEPT ![i] = Blank]
      BY <2>9 DEF OpenTmp
    <3>2. \A j \in Ino : data'[j].map \subseteq granted
      BY <3>1 DEF Blank
    <3> QED
      BY <2>9, <3>2 DEF OpenTmp
  <2>10. CASE WriteAll(p)
    <3>1. PICK d \in Overlay(data[fd[p]], copy[p]) : data' = [data EXCEPT ![fd[p]] = d]
      BY <2>10 DEF WriteAll
    <3>2. d.map \subseteq granted
      BY <2>10, OverlayResult DEF WriteAll, Holds, Torn
    <3>3. \A j \in Ino : data'[j].map \subseteq granted
      BY <3>1, <3>2
    <3> QED
      BY <2>10, <3>3 DEF WriteAll
  <2>11. CASE WriteFails(p)
    <3>1. \A j \in Ino : data'[j].map \subseteq granted
      BY <2>11 DEF WriteFails, Torn
    <3> QED
      BY <2>11, <3>1 DEF WriteFails, Leave, AfterWrite
  <2>12. CASE Rename(p)
    BY <2>12 DEF Rename, Leave, AfterWrite
  <2> QED
    BY <1>3, <2>1, <2>2, <2>3, <2>4, <2>5, <2>6, <2>7, <2>8, <2>9, <2>10, <2>11, <2>12
       DEF Step
<1> QED
  BY <1>1, <1>3 DEF TrustNext

\* A command that leaves has had the file to itself, or leaves it to the one that
\* has: nothing that one goes on has changed.
LEMMA LeaveKeepsAlone ==
  ASSUME TrustTypeOK, AloneInv,
         NEW p \in Proc, NEW step \in {"idle", "ready", "discovered", "asked", "running"},
         Leave(p, step), UNCHANGED <<job, copy, fd>>,
         p \notin Writers => UNCHANGED diskVars
  PROVE  AloneInv'
<1> SUFFICES ASSUME ~overlap', NEW q \in Writers'
             PROVE  (Alone(q) /\ Writers = {q})'
  BY DEF AloneInv
<1>1. Writers' = Writers \ {p}
  BY LeaveWriters
<1>2. ~overlap
  BY <1>1 DEF Leave, TrustTypeOK
<1>3. q \in Writers /\ Writers = {q} /\ Alone(q) /\ q # p
  BY <1>1, <1>2 DEF AloneInv
<1>4. UNCHANGED diskVars /\ p \notin Writers
  BY <1>3
<1>5. q \in Proc /\ pc'[q] = pc[q]
  BY <1>3 DEF Leave, TrustTypeOK, Writers
<1>6. Alone(q)'
  BY <1>3, <1>4, <1>5 DEF Alone, Changed, Others, Trusted, diskVars
<1> QED
  BY <1>1, <1>3, <1>4, <1>6

\* A command that is not a writer before or after its step disturbs none.
LEMMA BystanderKeepsAlone ==
  ASSUME TrustTypeOK, AloneInv, NEW p \in Proc,
         pc[p] \notin Writing, UNCHANGED <<diskVars, copy, fd, overlap>>,
         \E step \in {"idle", "ready", "discovered", "asked", "running"} :
            pc' = [pc EXCEPT ![p] = step],
         \A q \in Proc \ {p} : job'[q] = job[q]
  PROVE  AloneInv'
<1>1. Writers' = Writers /\ p \notin Writers
  BY DEF TrustTypeOK, Writers, Writing
<1> SUFFICES ASSUME ~overlap, NEW q \in Writers
             PROVE  (Alone(q) /\ Writers = {q})'
  BY <1>1 DEF AloneInv
<1>2. q \in Proc \ {p} /\ Alone(q) /\ Writers = {q}
  BY <1>1 DEF AloneInv, Writers
<1>3. pc'[q] = pc[q] /\ job'[q] = job[q]
  BY <1>2 DEF TrustTypeOK
<1>4. Alone(q)'
  BY <1>2, <1>3 DEF Alone, Changed, Others, Trusted, diskVars
<1> QED
  BY <1>1, <1>2, <1>4

\* Without an overlap the writer's next step finds what its last one left.
LEMMA AloneStep ==
  ASSUME TrustTypeOK, FdInv, AloneInv, [TrustNext]_vars
  PROVE  AloneInv'
<1>1. CASE UNCHANGED vars
  BY <1>1 DEF vars, diskVars, procVars, AloneInv, Writers, Alone, Changed, Others, Trusted
<1>2. ASSUME NEW p \in Proc, Step(p)
      PROVE  AloneInv'
  <2>1. CASE \E k \in Key : UntrustCmd(p, k)
    BY <2>1, BystanderKeepsAlone DEF UntrustCmd, Begin, Writing, TrustTypeOK
  <2>2. CASE \E k \in Key, t \in Text : TrustCmd(p, k, t) \/ LoadCmd(p, k, t)
    BY <2>2, BystanderKeepsAlone DEF TrustCmd, LoadCmd, Begin, Writing, TrustTypeOK
  <2>3. CASE Gate(p)
    BY <2>3, BystanderKeepsAlone DEF Gate, Writing
  <2>4. CASE Confirm(p)
    BY <2>4, BystanderKeepsAlone DEF Confirm, Writing
  <2>5. CASE Exit(p)
    BY <2>5, LeaveKeepsAlone DEF Exit
  <2>6. CASE NoKey(p)
    BY <2>6, LeaveKeepsAlone DEF NoKey, AfterWrite
  <2>7. CASE WriteFails(p)
    <3>1. p \in Writers
      BY <2>7 DEF WriteFails, Writers, Writing
    <3> QED
      BY <2>7, <3>1, LeaveKeepsAlone DEF WriteFails, AfterWrite
  <2>8. CASE Rename(p)
    <3>1. p \in Writers
      BY <2>8 DEF Rename, Writers, Writing
    <3> QED
      BY <2>8, <3>1, LeaveKeepsAlone DEF Rename, AfterWrite
  <2>9. CASE ReadStore(p)
    <3> SUFFICES ASSUME ~overlap', NEW q \in Writers'
                 PROVE  (Alone(q) /\ Writers = {q})'
      BY DEF AloneInv
    <3>1. Writers = {} /\ Writers' = {p} /\ q = p
      BY <2>9 DEF ReadStore, Writers, Writing, TrustTypeOK
    <3>2. pc'[p] = "opening" /\ copy'[p] = Changed(p) /\ Changed(p)' = Changed(p)
      BY <2>9 DEF ReadStore, TrustTypeOK, Changed, Others, Trusted, diskVars
    <3> QED
      BY <3>1, <3>2 DEF Alone
  <2>10. CASE OpenTmp(p) \/ WriteAll(p)
    <3>1. Writers' = Writers /\ p \in Writers /\ overlap' = overlap
      BY <2>10 DEF OpenTmp, WriteAll, Writers, Writing, TrustTypeOK
    <3> SUFFICES ASSUME ~overlap
                 PROVE  Alone(p)' /\ Writers = {p}
      BY <3>1 DEF AloneInv
    <3>2. Alone(p) /\ Writers = {p}
      BY <3>1 DEF AloneInv
    <3>3. CASE OpenTmp(p)
      <4>1. PICK i \in IF tmp = NoIno THEN Unused ELSE {tmp} :
              /\ fd' = [fd EXCEPT ![p] = i]
              /\ tmp' = i
              /\ data' = [data EXCEPT ![i] = Blank]
        BY <3>3 DEF OpenTmp
      <4>2. i \in Ino /\ i # store /\ i # NoIno
        BY <4>1, TrustAssumption DEF Unused, TrustTypeOK
      <4>3. Trusted' = Trusted
        BY <3>3, <4>1, <4>2 DEF OpenTmp, Trusted, TrustTypeOK
      <4>4. Changed(p)' = Changed(p)
        BY <3>3, <4>3 DEF OpenTmp, Changed, Others
      <4>5. pc'[p] = "writing" /\ copy'[p] = copy[p] /\ fd'[p] = i /\ data'[i] = Blank
        BY <3>3, <4>1, <4>2 DEF OpenTmp, TrustTypeOK
      <4> QED
        BY <3>2, <4>1, <4>2, <4>4, <4>5 DEF Alone
    <3>4. CASE WriteAll(p)
      <4>1. pc[p] = "writing" /\ fd[p] = tmp /\ tmp # NoIno /\ data[tmp] = Blank
        BY <3>2, <3>4 DEF WriteAll, Alone
      <4>2. data' = [data EXCEPT ![tmp] = Holds(copy[p])]
        BY <3>4, <4>1, OverlayBlank DEF WriteAll
      <4>3. tmp \in Ino /\ tmp # store
        BY <4>1 DEF TrustTypeOK
      <4>4. Trusted' = Trusted
        BY <3>4, <4>2, <4>3 DEF WriteAll, Trusted, TrustTypeOK
      <4>5. Changed(p)' = Changed(p)
        BY <3>4, <4>4 DEF WriteAll, Changed, Others
      <4>6. pc'[p] = "renaming" /\ copy'[p] = copy[p] /\ tmp' = tmp
            /\ data'[tmp] = Holds(copy[p])
        BY <3>4, <4>2, <4>3 DEF WriteAll, TrustTypeOK
      <4> QED
        BY <3>2, <4>1, <4>5, <4>6 DEF Alone
    <3> QED
      BY <2>10, <3>2, <3>3, <3>4
  <2> QED
    BY <1>2, <2>1, <2>2, <2>3, <2>4, <2>5, <2>6, <2>7, <2>8, <2>9, <2>10 DEF Step
<1> QED
  BY <1>1, <1>2 DEF TrustNext

\* Only the rename of a writer changes what is trusted when nobody overlaps, and it
\* puts that writer's change in place.
LEMMA RecordStep ==
  ASSUME TrustInv, [TrustNext]_vars, ~overlap
  PROVE  UNCHANGED Trusted \/ (R!Next /\ data'[store'].kind = "store")
<1> USE DEF TrustInv
<1>1. CASE UNCHANGED diskVars
  BY <1>1 DEF diskVars, Trusted
<1>2. ASSUME NEW p \in Proc, Step(p), ~(UNCHANGED diskVars)
      PROVE  OpenTmp(p) \/ WriteAll(p) \/ WriteFails(p) \/ Rename(p)
  BY <1>2 DEF Step, UntrustCmd, TrustCmd, LoadCmd, Begin, Gate, Confirm, Exit, ReadStore, NoKey
<1>3. ASSUME NEW p \in Proc, OpenTmp(p) \/ WriteAll(p) \/ WriteFails(p) \/ Rename(p)
      PROVE  Alone(p) /\ job[p].key \in Key /\ job[p].text \in Text
  <2>1. p \in Writers
    BY <1>3 DEF OpenTmp, WriteAll, WriteFails, Rename, Writers, Writing
  <2> QED
    BY <2>1 DEF AloneInv, TrustTypeOK
<1>4. ASSUME NEW p \in Proc, OpenTmp(p)
      PROVE  UNCHANGED Trusted
  <2>1. PICK i \in IF tmp = NoIno THEN Unused ELSE {tmp} : data' = [data EXCEPT ![i] = Blank]
    BY <1>4 DEF OpenTmp
  <2>2. i # store
    BY <2>1, TrustAssumption DEF Unused, TrustTypeOK
  <2> QED
    BY <1>4, <2>1, <2>2 DEF OpenTmp, Trusted, TrustTypeOK
<1>5. ASSUME NEW p \in Proc, WriteAll(p) \/ WriteFails(p)
      PROVE  UNCHANGED Trusted
  <2>1. fd[p] = tmp /\ tmp # store
    BY <1>3, <1>5 DEF WriteAll, WriteFails, Alone, TrustTypeOK
  <2>2. PICK d : data' = [data EXCEPT ![tmp] = d]
    BY <1>5, <2>1 DEF WriteAll, WriteFails
  <2> QED
    BY <1>5, <2>1, <2>2 DEF WriteAll, WriteFails, Trusted, TrustTypeOK
<1>6. ASSUME NEW p \in Proc, Rename(p)
      PROVE  R!Next /\ data'[store'].kind = "store"
  <2>1. Alone(p) /\ pc[p] = "renaming"
    BY <1>3, <1>6 DEF Rename
  <2>2. tmp # NoIno /\ data[tmp] = Holds(Changed(p))
    BY <2>1 DEF Alone
  <2>3. store' = tmp /\ data' = data
    BY <1>6, <2>2 DEF Rename
  <2>4. Trusted' = Changed(p) /\ data'[store'].kind = "store"
    BY <2>2, <2>3 DEF Trusted, Holds
  <2>5. R!Revoke(job[p].key) \/ R!Grant(job[p].key, job[p].text)
    BY <2>4 DEF Changed, Others, R!Revoke, R!Grant, R!Without
  <2> QED
    BY <1>3, <1>6, <2>4, <2>5 DEF R!Next
<1> QED
  BY <1>1, <1>2, <1>4, <1>5, <1>6 DEF TrustNext, vars

----------------------------------------------------------------------------
(* Theorems *)

\* The invariant holds however many commands run, meet, fail and are killed.
THEOREM TrustInvariant == TrustSpec => []TrustInv
<1>1. TrustInv /\ [TrustNext]_vars => TrustInv'
  BY TrustTypeStep, GrantedStep, AloneStep DEF TrustInv
<1> QED
  BY TrustInitInv, <1>1, PTL DEF TrustSpec

\* Types; and the store and the temporary file are never one inode.
THEOREM TrustTypeCorrect == TrustSpec => []TrustTypeOK
  BY TrustInvariant, PTL DEF TrustInv

\* No text is ever trusted that no user agreed to.
THEOREM OnlyGrantedTrusted == TrustSpec => []TrustedWasGranted
<1>1. TrustInv => TrustedWasGranted
  BY TrustedIsMap DEF TrustInv, TrustedWasGranted
<1> QED
  BY <1>1, TrustInvariant, PTL

\* A session with host authority runs the text that was agreed to.
THEOREM OnlyGrantedRuns == TrustSpec => []RunsWhatWasGranted
<1>1. TrustInv => RunsWhatWasGranted
  BY DEF TrustInv, GrantedInv
<1> QED
  BY <1>1, TrustInvariant, PTL

\* Commands that do not meet implement the abstract record, one change at a time.
THEOREM RecordImplemented == TrustSpec => AtomicAlone
<1>1. TrustInv /\ [TrustNext]_vars
        => [ ~overlap => \/ UNCHANGED Trusted
                         \/ R!Next /\ data'[store'].kind = "store" ]_vars
  BY RecordStep
<1> QED
  BY <1>1, TrustInvariant, PTL DEF TrustSpec, AtomicAlone
=============================================================================
