---------------------------- MODULE TrustStore ----------------------------
(***************************************************************************)
(* The trust store and the commands that use it: trust, untrust and the    *)
(* gate that loads a project's redan.toml.  Any number of them run at once, *)
(* each may be killed between two steps.  The config itself is not state:  *)
(* it may be edited or removed between any two looks at it, also by the    *)
(* guest it is mounted into, so each look may find anything.               *)
(*                                                                         *)
(* write_store opens one temporary file, whatever the process, so what a   *)
(* writer truncates, writes and renames may be another writer's.  A path   *)
(* therefore names an inode, and a writer holds the inode it opened.       *)
(***************************************************************************)
EXTENDS Naturals, FiniteSets

CONSTANTS
  Proc,       \* places for a command to run in
  Key,        \* canonical paths of project configs
  Text,       \* contents of a config, one for each fingerprint
  Reaching,   \* the contents for which analyze returns a capability
  Ino,
  NoIno

ASSUME TrustAssumption ==
  Reaching \subseteq Text /\ NoIno \notin Ino

VARIABLES
  store,      \* the inode of trust.json
  tmp,        \* the inode of trust.json.tmp
  data,       \* what an inode holds
  pc,         \* the step of a command
  job,        \* what it was asked to do, and the text it has read
  copy,       \* the map it is about to write
  fd,         \* the inode it opened
  overlap,    \* two writers have met and one of them is still at it
  granted     \* history: what a user has agreed to

diskVars == <<store, tmp, data>>
procVars == <<pc, job, copy, fd>>
vars == <<diskVars, procVars, overlap, granted>>

Map == SUBSET (Key \X Text)
Blank == [kind |-> "blank", map |-> {}]   \* truncated
Torn  == [kind |-> "torn", map |-> {}]    \* does not parse
Holds(m) == [kind |-> "store", map |-> m]

\* read_store: no file and a file that does not parse read as an empty store.
Trusted == IF store = NoIno THEN {} ELSE data[store].map

R == INSTANCE TrustRecord WITH trusted <- Trusted

Writing == {"opening", "writing", "renaming"}
Writers == {p \in Proc : pc[p] \in Writing}

\* Two writers have met until the last of those at it has gone.
Leave(p, step) == /\ pc' = [pc EXCEPT ![p] = step]
                  /\ overlap' = (overlap /\ Writers \ {p} # {})

\* A session goes on whether or not its grant could be recorded.
AfterWrite(p) == IF job[p].op = "load" THEN "running" ELSE "idle"

----------------------------------------------------------------------------
(* The commands *)

Begin(p, op, k, t, step) ==
  /\ pc[p] = "idle"
  /\ job' = [job EXCEPT ![p] = [op |-> op, key |-> k, text |-> t]]
  /\ pc' = [pc EXCEPT ![p] = step]
  /\ UNCHANGED <<diskVars, copy, fd, overlap>>

\* trust_cmd: the text shown is the text recorded.
TrustCmd(p, k, t) == Begin(p, "trust", k, t, "ready") /\ granted' = granted \cup {<<k, t>>}

UntrustCmd(p, k) ==
  \E t \in Text : Begin(p, "untrust", k, t, "ready") /\ UNCHANGED granted

\* config::discover
LoadCmd(p, k, t) == Begin(p, "load", k, t, "discovered") /\ UNCHANGED granted

\* Mutant: the config is read again to be looked up.
IsTrusted_Reread(p) == \E t \in Text : <<job[p].key, t>> \in Trusted

IsTrusted(p) == <<job[p].key, job[p].text>> \in Trusted

\* load_config and decide; without a terminal a Prompt is a Skip.
\* The key of a config that has gone does not resolve: it is not trusted.
Gate(p) ==
  /\ pc[p] = "discovered"
  /\ \/ /\ job[p].text \notin Reaching \/ IsTrusted(p)
        /\ pc' = [pc EXCEPT ![p] = "running"]
     \/ /\ job[p].text \in Reaching
        /\ \E step \in {"asked", "idle"} : pc' = [pc EXCEPT ![p] = step]
  /\ UNCHANGED <<diskVars, job, copy, fd, overlap, granted>>

Confirm(p) ==
  /\ pc[p] = "asked"
  /\ pc' = [pc EXCEPT ![p] = "ready"]
  /\ granted' = granted \cup {<<job[p].key, job[p].text>>}
  /\ UNCHANGED <<diskVars, job, copy, fd, overlap>>

\* A session that ends, a user who declines, or a kill at any step.
Exit(p) ==
  /\ pc[p] # "idle"
  /\ Leave(p, "idle")
  /\ UNCHANGED <<diskVars, job, copy, fd, granted>>

----------------------------------------------------------------------------
(* trust_in and untrust_in *)

Others(p) == {x \in Trusted : x[1] # job[p].key}

Changed(p) ==
  IF job[p].op = "untrust" THEN Others(p)
  ELSE Others(p) \cup {<<job[p].key, job[p].text>>}

\* Mutant: the fingerprint is taken of the config as it is now.
ReadStore_Reread(p) ==
  /\ pc[p] = "ready"
  /\ \E t \in Text : copy' = [copy EXCEPT ![p] = Others(p) \cup {<<job[p].key, t>>}]
  /\ pc' = [pc EXCEPT ![p] = "opening"]
  /\ overlap' = (overlap \/ Writers # {})
  /\ UNCHANGED <<diskVars, job, fd, granted>>

\* canonical_key, read_store and the change of the map in memory.
ReadStore(p) ==
  /\ pc[p] = "ready"
  /\ copy' = [copy EXCEPT ![p] = Changed(p)]
  /\ pc' = [pc EXCEPT ![p] = "opening"]
  /\ overlap' = (overlap \/ Writers # {})
  /\ UNCHANGED <<diskVars, job, fd, granted>>

\* The config has gone, and its key does not resolve.
NoKey(p) ==
  /\ pc[p] = "ready"
  /\ Leave(p, AfterWrite(p))
  /\ UNCHANGED <<diskVars, job, copy, fd, granted>>

----------------------------------------------------------------------------
(* write_store *)

Holders == {p \in Proc : pc[p] = "writing"}
Unused == Ino \ ({store, tmp} \cup {fd[p] : p \in Holders})

\* Mutant: the store is opened in place.
OpenTmp_InPlace(p) ==
  /\ pc[p] = "opening"
  /\ \E i \in IF store = NoIno THEN Unused ELSE {store} :
       /\ fd' = [fd EXCEPT ![p] = i]
       /\ store' = i /\ tmp' = i
       /\ data' = [data EXCEPT ![i] = Blank]
  /\ pc' = [pc EXCEPT ![p] = "writing"]
  /\ UNCHANGED <<job, copy, overlap, granted>>

\* create and truncate: a temporary file that is there is opened, whosever it is.
OpenTmp(p) ==
  /\ pc[p] = "opening"
  /\ \E i \in IF tmp = NoIno THEN Unused ELSE {tmp} :
       /\ fd' = [fd EXCEPT ![p] = i]
       /\ tmp' = i
       /\ data' = [data EXCEPT ![i] = Blank]
  /\ pc' = [pc EXCEPT ![p] = "writing"]
  /\ UNCHANGED <<store, job, copy, overlap, granted>>

\* A write from offset 0 over what another writer has put there leaves the end of
\* a longer text; keys are as long as each other.
Overlay(old, new) ==
  CASE old.kind = "blank" -> {Holds(new)}
    [] old.kind = "store" -> IF Cardinality(old.map) <= Cardinality(new)
                             THEN {Holds(new)} ELSE {Torn}
    [] OTHER -> {Holds(new), Torn}

\* write_all and sync_all
WriteAll(p) ==
  /\ pc[p] = "writing"
  /\ \E d \in Overlay(data[fd[p]], copy[p]) : data' = [data EXCEPT ![fd[p]] = d]
  /\ pc' = [pc EXCEPT ![p] = "renaming"]
  /\ UNCHANGED <<store, tmp, job, copy, fd, overlap, granted>>

\* Mutant: an error of write_all is passed over.
WriteFails_GoOn(p) ==
  /\ pc[p] = "writing"
  /\ data' = [data EXCEPT ![fd[p]] = Torn]
  /\ pc' = [pc EXCEPT ![p] = "renaming"]
  /\ UNCHANGED <<store, tmp, job, copy, fd, overlap, granted>>

WriteFails(p) ==
  /\ pc[p] = "writing"
  /\ data' = [data EXCEPT ![fd[p]] = Torn]
  /\ Leave(p, AfterWrite(p))
  /\ UNCHANGED <<store, tmp, job, copy, fd, granted>>

\* The rename fails if another writer has renamed the file already.
Rename(p) ==
  /\ pc[p] = "renaming"
  /\ IF tmp = NoIno THEN UNCHANGED <<store, tmp>> ELSE store' = tmp /\ tmp' = NoIno
  /\ Leave(p, AfterWrite(p))
  /\ UNCHANGED <<data, job, copy, fd, granted>>

----------------------------------------------------------------------------
TrustInit ==
  /\ store = NoIno /\ tmp = NoIno
  /\ data = [i \in Ino |-> Blank]
  /\ pc = [p \in Proc |-> "idle"]
  /\ job \in [Proc -> [op : {"load"}, key : Key, text : Text]]
  /\ copy = [p \in Proc |-> {}]
  /\ fd = [p \in Proc |-> NoIno]
  /\ overlap = FALSE
  /\ granted = {}

Step(p) ==
  \/ \E k \in Key : \/ UntrustCmd(p, k)
                   \/ \E t \in Text : TrustCmd(p, k, t) \/ LoadCmd(p, k, t)
  \/ Gate(p) \/ Confirm(p) \/ Exit(p)
  \/ ReadStore(p) \/ NoKey(p) \/ OpenTmp(p) \/ WriteAll(p) \/ WriteFails(p) \/ Rename(p)

TrustNext == \E p \in Proc : Step(p)

TrustSpec == TrustInit /\ [][TrustNext]_vars

----------------------------------------------------------------------------
(* Properties *)

TrustTypeOK ==
  /\ store \in Ino \cup {NoIno} /\ tmp \in Ino \cup {NoIno}
  /\ store = tmp => store = NoIno
  /\ data \in [Ino -> {Blank, Torn} \cup {Holds(m) : m \in Map}]
  /\ pc \in [Proc -> Writing \cup {"idle", "ready", "discovered", "asked", "running"}]
  /\ job \in [Proc -> [op : {"trust", "untrust", "load"}, key : Key, text : Text]]
  /\ copy \in [Proc -> Map]
  /\ fd \in [Proc -> Ino \cup {NoIno}]
  /\ overlap \in BOOLEAN
  /\ granted \in Map

\* The store never holds a text that no user has agreed to, whatever writers do to
\* each other's temporary file and however often the config is edited meanwhile.
TrustedWasGranted == Trusted \subseteq granted

\* A session that runs with host authority runs the very text that was agreed to:
\* "no check-then-read gap" (is_trusted) between the decision and the load.
RunsWhatWasGranted ==
  \A p \in Proc : pc[p] = "running" /\ job[p].text \in Reaching
                    => <<job[p].key, job[p].text>> \in granted

\* Commands that do not meet change the record as one grant or one revocation,
\* killed or failing at whatever step, and leave the store readable.
AtomicAlone ==
  [][ ~overlap => \/ UNCHANGED Trusted
                  \/ R!Next /\ data'[store'].kind = "store" ]_vars

\* "a crash mid-write can't corrupt the store" (write_store)
StoreWhole == store = NoIno \/ data[store].kind = "store"
=============================================================================
