---------------------------- MODULE ImageProofs -----------------------------
(***************************************************************************)
(* What becomes of images, for any number of processes, commands and       *)
(* kills, and whichever builds users ask for.                              *)
(*                                                                         *)
(* Without a race at most one process works on the directory (Alone), and  *)
(* what it finds there is known from its place in the build (DirAt): until *)
(* the files are complete an image of value is in the backup, and from     *)
(* then on in the directory.  A process that does not work changes neither *)
(* (Bystander).  What the metadata says is a property of the directory and *)
(* the backup alone (Tells), because a rename takes it along.              *)
(***************************************************************************)
EXTENDS ImageStore, FiniteSetTheorems, TLAPS

Known == {"create", "docker", "dockerfile", "bundled", "devbuild", "compose", "devimage", "tag"}
Names == Known \cup {"none"}
Metas == Known \cup {"absent", "none", "torn", "devcontainer"}

Places == {"idle", "remove", "removing", "load", "backup", "built", "dropping", "failed", "check",
           "fetch", "curl", "download", "extract", "vm", "clean", "build", "pull", "mkdir", "ccreate",
           "export", "meta", "metaWrite", "outer", "outerWrite", "rmi", "rmiFail"}
Complete == {"meta", "metaWrite", "rmi", "outer", "outerWrite", "built", "dropping"}

Trees == [from : SUBSET Names, whole : BOOLEAN, meta : Metas]
Dirs  == {d \in Trees : d.meta = "absent" => d = Absent}

Record == [pc : Places, kind : Names, update : BOOLEAN, cid : Names]

\* A process's kind and way to rebuild, as far as its place tells them.
Fits(at, kind, update) ==
  /\ at \in {"idle", "remove", "removing"} => ~update
  /\ at \in {"load", "backup"} => update
  /\ at \notin {"idle", "remove", "removing", "load"} => kind # "none"
  /\ at \in {"fetch", "curl", "download", "extract", "vm"} => kind = "create"
  /\ at = "pull" => kind \in {"docker", "devimage", "tag"}
  /\ at \in {"mkdir", "ccreate", "export"} => kind \in {"docker", "devimage"} \/ Tagged(kind)

ProcOK(r) == r \in Record /\ Fits(r.pc, r.kind, r.update)

TypeInv ==
  /\ dir \in Dirs /\ bak \in Dirs /\ tag \in Names
  /\ kills \in Nat /\ raced \in BOOLEAN /\ valued \in BOOLEAN
  /\ DOMAIN proc = Proc /\ \A p \in Proc : ProcOK(proc[p])

\* The image a build takes its files from is its own, unless docker tag failed.
Serves(image, kind) == image \in Known /\ ("tag" \in faults \/ image = kind)
IsFrom(d, kind) == \E k \in Known : Serves(k, kind) /\ d.from = {k}

\* Remains that nobody takes away keep a backup from coming back.
Littered == faults \cap {"tar", "removal"} # {}

\* What the process that works finds in the directory, and where the image of
\* value is meanwhile.
DirAt(p) ==
  LET at == proc[p].pc
  IN  /\ at \in {"build", "check", "fetch", "curl", "download", "extract", "pull", "mkdir"} => dir = Absent
      /\ at \in {"ccreate", "export"} => dir = Empty
      /\ at = "export" => Serves(proc[p].cid, proc[p].kind)
      /\ at = "vm" => dir.from = {"create"} /\ dir.meta = "none"
      /\ at = "clean" => dir.meta \in {"absent", "none"}
      /\ at \in {"rmiFail", "failed"} => dir \in {Absent, Empty} \/ Littered
      /\ IF at \in Complete THEN dir.whole /\ dir.meta # "absent" /\ IsFrom(dir, proc[p].kind)
         ELSE valued => Good(bak)

\* While no other command builds it, a tag is what its own build has set.
TagAt(p) == Tagged(proc[p].kind) /\ proc[p].pc \in {"check", "mkdir", "ccreate"}
              => tag = "none" \/ Serves(tag, proc[p].kind)

Tells(d) == d.meta \notin {"absent", "none", "torn"} =>
  \E k \in Known : d.from = {k} /\ ("tag" \in faults \/ d.meta \in {Recorded(k), "tag", "docker"})

\* A tree that is not whole and says what it is was being removed.
Cut(d, at) == d.meta \notin {"absent", "none", "torn"} =>
  d.whole \/ kills > 0 \/ "removal" \in faults \/ \E p \in Proc : At(p, at)

AloneInv ==
  /\ \A p, q \in Proc : Working(p) /\ Working(q) => p = q
  /\ \A p \in Proc : TagAt(p) /\ (Working(p) => DirAt(p))
  /\ valued => Good(dir) \/ Good(bak)
  /\ Tells(dir) /\ Tells(bak) /\ Cut(dir, "removing") /\ Cut(bak, "dropping")
  /\ ~Littered /\ kills = 0 /\ bak # Absent => \E p \in Proc : Working(p) /\ proc[p].update

ImageInv == TypeInv /\ (~raced => AloneInv)

\* A tarball that is not whole is being written by whoever opened it last.
TarballInv == kills = 0 /\ tarball = "partial" => writer \in Proc /\ At(writer, "download")

----------------------------------------------------------------------------
(* Types *)

LEMMA BecomesDoes ==
  ASSUME TypeInv, NEW p \in Proc, NEW r, proc' = [proc EXCEPT ![p] = r]
  PROVE  DOMAIN proc' = Proc /\ proc'[p] = r /\ \A q \in Proc \ {p} : proc'[q] = proc[q]
BY DEF TypeInv

LEMMA GotoDoes ==
  ASSUME TypeInv, NEW p \in Proc, NEW at, Goto(p, at)
  PROVE  /\ DOMAIN proc' = Proc /\ \A q \in Proc \ {p} : proc'[q] = proc[q]
         /\ proc'[p] = [proc[p] EXCEPT !.pc = at]
BY DEF TypeInv, Goto

LEMMA MovedOK ==
  ASSUME NEW r, ProcOK(r), NEW at \in Places, Fits(at, r.kind, r.update)
  PROVE  ProcOK([r EXCEPT !.pc = at])
BY DEF ProcOK, Record

LEMMA IdleOK == Idle \in Record /\ ProcOK(Idle)
<1>1. Idle \in Record
  BY DEF Idle, Record, Places, Names, Known
<1>2. Fits("idle", "none", FALSE)
  BY DEF Fits, Names, Known
<1> QED
  BY <1>1, <1>2 DEF ProcOK, Idle

LEMMA TypeFrame ==
  ASSUME TypeInv, NEW p \in Proc, DOMAIN proc' = Proc, \A q \in Proc \ {p} : proc'[q] = proc[q],
         ProcOK(proc'[p]), dir' \in Dirs, bak' \in Dirs, tag' \in Names, kills' \in Nat,
         raced' \in BOOLEAN, valued' \in BOOLEAN
  PROVE  TypeInv'
<1>1. ASSUME NEW q \in Proc PROVE ProcOK(proc'[q])
  <2>1. CASE q = p
    BY <2>1
  <2>2. CASE q # p
    BY <2>2 DEF TypeInv
  <2> QED
    BY <2>1, <2>2
<1> QED
  BY <1>1 DEF TypeInv

\* A command begins.
Begins(p) == Update(p) \/ (\E k \in Kinds : Build(p, k)) \/ (\E k \in Kinds \cup {"none"} : Remove(p, k))

LEMMA BeginDoes ==
  ASSUME NEW p, Begins(p)
  PROVE  \E r : Begin(p, r)
<1>1. ASSUME Update(p) PROVE \E r : Begin(p, r)
  BY <1>1, Zenon DEF Update
<1>2. ASSUME NEW k \in Kinds, Build(p, k) PROVE \E r : Begin(p, r)
  BY <1>2, Zenon DEF Build
<1>3. ASSUME NEW k \in Kinds \cup {"none"}, Remove(p, k) PROVE \E r : Begin(p, r)
  BY <1>3, Zenon DEF Remove
<1> QED
  BY <1>1, <1>2, <1>3, Zenon DEF Begins

LEMMA TypeBegin ==
  ASSUME TypeInv, NEW p \in Proc, Begins(p) \/ Kill(p)
  PROVE  TypeInv'
<1> USE IdleOK
<1>1. ASSUME Update(p) PROVE TypeInv'
  <2> DEFINE r == [Idle EXCEPT !.pc = "load", !.update = TRUE]
  <2>1. r \in Record /\ r.pc = "load" /\ r.update = TRUE
    BY DEF Record, Places
  <2>2. ProcOK(r)
    BY <2>1 DEF ProcOK, Fits
  <2> QED
    BY <1>1, <2>2, BecomesDoes, TypeFrame DEF Update, Begin, files, TypeInv
<1>2. ASSUME NEW k \in Kinds, Build(p, k) PROVE TypeInv'
  <2> DEFINE r == [Idle EXCEPT !.pc = First(k), !.kind = k]
  <2>1. k \in Names /\ k # "none" /\ First(k) \in {"build", "check"}
    BY KindAssumption DEF Names, Known, First
  <2>2. r \in Record /\ r.pc = First(k) /\ r.kind = k
    BY <2>1 DEF Record, Places
  <2>3. ProcOK(r)
    BY <2>1, <2>2 DEF ProcOK, Fits
  <2>4. proc' = [proc EXCEPT ![p] = r] /\ UNCHANGED <<dir, bak, tag, kills, raced, valued>>
    BY <1>2 DEF Build, Begin, files
  <2> HIDE DEF r
  <2> QED
    BY <2>3, <2>4, BecomesDoes, TypeFrame DEF TypeInv
<1>3. ASSUME NEW k \in Kinds \cup {"none"}, Remove(p, k) PROVE TypeInv'
  <2> DEFINE r == [Idle EXCEPT !.pc = "remove", !.kind = k]
  <2>1. k \in Names
    BY KindAssumption DEF Names, Known
  <2>2. r \in Record /\ r.pc = "remove" /\ r.update = FALSE
    BY <2>1 DEF Record, Places, Idle
  <2>3. ProcOK(r)
    BY <2>2 DEF ProcOK, Fits
  <2>4. proc' = [proc EXCEPT ![p] = r] /\ UNCHANGED <<dir, bak, tag, kills, raced, valued>>
    BY <1>3 DEF Remove, Begin, files
  <2> HIDE DEF r
  <2> QED
    BY <2>3, <2>4, BecomesDoes, TypeFrame DEF TypeInv
<1>4. ASSUME Kill(p) PROVE TypeInv'
  BY <1>4, BecomesDoes, TypeFrame DEF Kill, files, TypeInv
<1> QED
  BY <1>1, <1>2, <1>3, <1>4 DEF Begins

\* What is known of a process from its place.
LEMMA Held ==
  ASSUME TypeInv, NEW p \in Proc
  PROVE  /\ proc[p] \in Record /\ Fits(proc[p].pc, proc[p].kind, proc[p].update)
         /\ proc[p].pc \in Places /\ proc[p].kind \in Names
         /\ proc[p].update \in BOOLEAN /\ proc[p].cid \in Names
BY DEF TypeInv, ProcOK, Record

LEMMA DirTypes ==
  /\ Absent \in Dirs /\ Empty \in Dirs
  /\ \A d \in Dirs : Exists(d) <=> d.meta # "absent"
  /\ \A d \in Dirs : [d EXCEPT !.whole = FALSE] \in Dirs /\ Made(d) \in Dirs
  /\ \A d \in Dirs : Exists(d) => [d EXCEPT !.whole = TRUE] \in Dirs
  /\ \A d \in Dirs, m \in Metas \ {"absent"} : [d EXCEPT !.meta = m] \in Dirs
  /\ \A d \in Dirs, k \in Names, w \in BOOLEAN : Plus(d, k, w) \in Dirs
<1>1. Absent \in Dirs /\ Empty \in Dirs
  <2>1. Absent \in Trees /\ Empty \in Trees
    BY DEF Absent, Empty, Trees, Metas
  <2>2. Empty.meta # "absent"
    BY DEF Empty
  <2> QED
    BY <2>1, <2>2 DEF Dirs
<1>2. ASSUME NEW d \in Dirs PROVE Exists(d) <=> d.meta # "absent"
  <2>1. Absent.meta = "absent"
    BY DEF Absent
  <2> QED
    BY <2>1 DEF Dirs, Exists
<1>7. ASSUME NEW d \in Dirs PROVE Made(d) \in Dirs
  BY <1>1 DEF Made
<1>3. ASSUME NEW d \in Dirs PROVE [d EXCEPT !.whole = FALSE] \in Dirs
  <2> DEFINE e == [d EXCEPT !.whole = FALSE]
  <2>1. d \in Trees /\ e \in Trees /\ e.meta = d.meta /\ e.from = d.from /\ ~e.whole
    BY DEF Dirs, Trees
  <2>2. ASSUME e.meta = "absent" PROVE e = Absent
    <3>1. d = Absent
      BY <2>1, <2>2 DEF Dirs
    <3>2. e.from = {}
      BY <2>1, <3>1 DEF Absent
    <3> HIDE DEF e
    <3> QED
      BY <2>1, <2>2, <3>2 DEF Absent, Trees
  <2> SUFFICES e \in Dirs
    OBVIOUS
  <2> HIDE DEF e
  <2> QED
    BY <2>1, <2>2 DEF Dirs
<1>4. ASSUME NEW d \in Dirs, Exists(d) PROVE [d EXCEPT !.whole = TRUE] \in Dirs
  BY <1>2, <1>4 DEF Dirs, Trees
<1>5. ASSUME NEW d \in Dirs, NEW m \in Metas \ {"absent"} PROVE [d EXCEPT !.meta = m] \in Dirs
  BY DEF Dirs, Trees
<1>6. ASSUME NEW d \in Dirs, NEW k \in Names, NEW w \in BOOLEAN PROVE Plus(d, k, w) \in Dirs
  <2> DEFINE m == IF Exists(d) THEN d.meta ELSE "none"
  <2>1. d.from \cup {k} \in SUBSET Names /\ d.meta \in Metas /\ "none" \in Metas
    BY <1>6 DEF Dirs, Trees, Metas
  <2>2. m \in Metas /\ m # "absent"
    BY <1>2, <2>1
  <2>3. Plus(d, k, w) = [from |-> d.from \cup {k}, whole |-> w, meta |-> m]
    BY DEF Plus
  <2> HIDE DEF m
  <2> QED
    BY <2>1, <2>2, <2>3 DEF Dirs, Trees
<1> QED
  BY <1>1, <1>2, <1>3, <1>4, <1>5, <1>6, <1>7

\* What a removal leaves is from the same sources and claims no others.
LEMMA RemainsAre ==
  ASSUME NEW d \in Dirs, Exists(d), NEW e \in Remains(d)
  PROVE  e \in Dirs /\ e.from = d.from /\ e.meta \in {d.meta, "none"} /\ e.meta # "absent"
<1>1. d \in Trees /\ d.meta # "absent"
  BY DirTypes DEF Dirs
<1>2. PICK w \in {d.whole, FALSE}, m \in {d.meta, "none"} : e = [d EXCEPT !.whole = w, !.meta = m]
  BY DEF Remains
<1>3. w \in BOOLEAN /\ m \in Metas /\ m # "absent"
  BY <1>1, <1>2 DEF Trees, Metas
<1>4. e \in Trees /\ e.from = d.from /\ e.meta = m
  BY <1>1, <1>2, <1>3 DEF Trees
<1> QED
  BY <1>2, <1>3, <1>4 DEF Dirs

\* A step to a place that fits the process's kind keeps the types.
LEMMA GotoType ==
  ASSUME TypeInv, NEW p \in Proc, NEW at \in Places, Goto(p, at),
         Fits(at, proc[p].kind, proc[p].update),
         dir' \in Dirs, bak' \in Dirs, tag' \in Names, kills' \in Nat,
         raced' \in BOOLEAN, valued' \in BOOLEAN
  PROVE  TypeInv'
<1> DEFINE r == [proc[p] EXCEPT !.pc = at]
<1>1. ProcOK(r)
  BY Held, MovedOK DEF ProcOK
<1>2. DOMAIN proc' = Proc /\ proc'[p] = r /\ \A q \in Proc \ {p} : proc'[q] = proc[q]
  BY GotoDoes
<1> HIDE DEF r
<1> QED
  BY <1>1, <1>2, TypeFrame

LEMMA IdleType ==
  ASSUME TypeInv, NEW p \in Proc, proc' = [proc EXCEPT ![p] = Idle],
         dir' \in Dirs, bak' \in Dirs, tag' \in Names, kills' \in Nat,
         raced' \in BOOLEAN, valued' \in BOOLEAN
  PROVE  TypeInv'
BY BecomesDoes, IdleOK, TypeFrame

LEMMA TypeDirectory ==
  ASSUME TypeInv, NEW p \in Proc,
         \/ RemoveStarts(p) \/ RemoveEnds(p) \/ Load(p) \/ BackUp(p)
         \/ DropBackup(p) \/ Dropped(p) \/ Restore(p)
  PROVE  TypeInv'
<1> USE Held, DirTypes
<1> USE DEF files, history
<1>1. dir \in Dirs /\ bak \in Dirs /\ tag \in Names /\ kills \in Nat /\ raced \in BOOLEAN
      /\ valued \in BOOLEAN
  BY DEF TypeInv
<1>2. First(proc[p].kind) \in {"build", "check"} /\ First(proc[p].kind) \in Places
  BY DEF First, Places
<1>3. ASSUME proc[p].kind # "none" PROVE Fits(First(proc[p].kind), proc[p].kind, proc[p].update)
  BY <1>2, <1>3 DEF Fits
<1>4. ASSUME RemoveStarts(p) PROVE TypeInv'
  <2>1. Fits("removing", proc[p].kind, proc[p].update) /\ "removing" \in Places
    BY <1>4 DEF RemoveStarts, At, Fits, Places
  <2>2. dir' \in Dirs /\ raced' \in BOOLEAN /\ valued' \in BOOLEAN
    BY <1>1, <1>4, RemainsAre DEF RemoveStarts
  <2> QED
    BY <1>1, <1>4, <2>1, <2>2, GotoType, IdleType DEF RemoveStarts
<1>5. ASSUME RemoveEnds(p) PROVE TypeInv'
  BY <1>1, <1>2, <1>3, <1>5, GotoType, IdleType DEF RemoveEnds
<1>6. ASSUME Load(p) PROVE TypeInv'
  <2>1. CASE ~Exists(dir) \/ KindOf(dir.meta) = {}
    BY <1>1, <1>6, <2>1, IdleType DEF Load
  <2>2. ASSUME Exists(dir), NEW k \in KindOf(dir.meta),
               proc' = [proc EXCEPT ![p].pc = "backup", ![p].kind = k]
        PROVE  TypeInv'
    <3>1. proc[p].update /\ dir.meta \in Metas \ {"absent"}
      BY <1>1, <1>6, <2>2 DEF Load, At, Fits, Dirs, Trees
    <3>2. k \in Names /\ k # "none"
      BY <2>2, <3>1, KindAssumption DEF KindOf, Metas, Names, Known
    <3> DEFINE r == [proc[p] EXCEPT !.pc = "backup", !.kind = k]
    <3>3. proc' = [proc EXCEPT ![p] = r]
      BY <2>2 DEF TypeInv
    <3>4. r \in Record /\ r.pc = "backup" /\ r.kind = k /\ r.update = proc[p].update
      BY <3>2 DEF Record, Places
    <3>5. ProcOK(r)
      BY <3>1, <3>2, <3>4 DEF ProcOK, Fits
    <3> HIDE DEF r
    <3> QED
      BY <1>1, <1>6, <3>3, <3>5, BecomesDoes, TypeFrame DEF Load
  <2> QED
    BY <1>6, <2>1, <2>2 DEF Load
<1>7. ASSUME BackUp(p) PROVE TypeInv'
  BY <1>1, <1>2, <1>3, <1>7, GotoType, IdleType DEF BackUp, At, Fits
<1>8. ASSUME DropBackup(p) PROVE TypeInv'
  <2>1. bak' \in Dirs
    BY <1>1, <1>8, RemainsAre DEF DropBackup
  <2> QED
    BY <1>1, <1>8, <2>1, GotoType, IdleType DEF DropBackup, At, Fits, Places
<1>9. ASSUME Dropped(p) PROVE TypeInv'
  BY <1>1, <1>9, IdleType DEF Dropped
<1>10. ASSUME Restore(p) PROVE TypeInv'
  BY <1>1, <1>10, IdleType DEF Restore
<1> QED
  BY <1>4, <1>5, <1>6, <1>7, <1>8, <1>9, <1>10

\* Places any build may be at, and where a build goes on.
Common == {"check", "clean", "build", "meta", "metaWrite", "outer", "outerWrite", "rmi",
           "rmiFail", "built", "failed", "dropping"}

LEMMA Onward ==
  /\ \A at \in Common : \A k, u : k # "none" => Fits(at, k, u)
  /\ \A k : AfterInner(k) \in {"rmi", "outer", "built"} /\ AfterFailure(k) \in {"rmiFail", "failed"}
  /\ \A k \in Names : Recorded(k) \in Metas \ {"absent"}
  /\ Common \subseteq Places
BY DEF Common, Fits, AfterInner, AfterFailure, Recorded, Names, Known, Metas, Places

LEMMA TypeBuild ==
  ASSUME TypeInv, NEW p \in Proc,
         \/ Check(p) \/ Fetch(p) \/ CurlOpens(p) \/ Download(p) \/ CurlFails(p)
         \/ Extract(p) \/ SetUp(p) \/ Clean(p)
  PROVE  TypeInv'
<1> USE Held, DirTypes, Onward
<1> USE DEF files, history, At
<1>1. dir \in Dirs /\ bak \in Dirs /\ tag \in Names /\ kills \in Nat /\ raced \in BOOLEAN
      /\ valued \in BOOLEAN
  BY DEF TypeInv
<1>2. ASSUME Check(p) PROVE TypeInv'
  <2> DEFINE k  == proc[p].kind
             at == IF Exists(dir) THEN AfterFailure(k)
                   ELSE IF k = "create" THEN "fetch"
                   ELSE IF k \in {"docker", "devimage", "tag"} THEN "pull" ELSE "mkdir"
  <2>1. k \in Names /\ k # "none"
    BY <1>2 DEF Check, Fits
  <2>2. CASE Exists(dir)
    BY <1>1, <1>2, <2>1, <2>2, GotoType DEF Check, Common
  <2>3. CASE ~Exists(dir)
    <3>1. at \in {"fetch", "pull", "mkdir"} /\ Goto(p, at)
      BY <1>2, <2>3 DEF Check
    <3>2. Fits(at, k, proc[p].update)
      BY <2>1, <2>3 DEF Fits, Names, Known, Tagged
    <3>3. raced' \in BOOLEAN
      BY <1>1, <1>2 DEF Check
    <3> HIDE DEF at
    <3>4. at \in Places
      BY <3>1 DEF Places
    <3> QED
      BY <1>1, <1>2, <3>1, <3>2, <3>3, <3>4, GotoType DEF Check
  <2> QED
    BY <2>2, <2>3
<1>3. ASSUME Fetch(p) PROVE TypeInv'
  BY <1>1, <1>3, GotoType DEF Fetch, Fits, Places
<1>4. ASSUME CurlOpens(p) \/ Download(p) \/ CurlFails(p) PROVE TypeInv'
  BY <1>1, <1>4, GotoType DEF CurlOpens, Download, CurlFails, Fits, Places
<1>5. ASSUME Extract(p) PROVE TypeInv'
  <2>1. dir' \in Dirs
    BY <1>1, <1>5 DEF Extract, Names, Known
  <2> QED
    BY <1>1, <1>5, <2>1, GotoType DEF Extract, Fits, Places
<1>6. ASSUME SetUp(p) PROVE TypeInv'
  BY <1>1, <1>6, GotoType DEF SetUp, Fits, Common
<1>7. ASSUME Clean(p) PROVE TypeInv'
  <2>1. dir' \in Dirs
    BY <1>1, <1>7, RemainsAre DEF Clean
  <2> QED
    BY <1>1, <1>7, <2>1, GotoType DEF Clean, Fits, Common
<1> QED
  BY <1>2, <1>3, <1>4, <1>5, <1>6, <1>7

LEMMA TypeImport ==
  ASSUME TypeInv, NEW p \in Proc,
         \/ DockerBuild(p) \/ Pull(p) \/ MakeDir(p) \/ ContainerCreate(p) \/ Export(p)
         \/ SaveStarts(p) \/ SaveEnds(p) \/ RemoveTag(p)
  PROVE  TypeInv'
<1> USE Held, DirTypes, Onward
<1> USE DEF files, history, At
<1>1. dir \in Dirs /\ bak \in Dirs /\ tag \in Names /\ kills \in Nat /\ raced \in BOOLEAN
      /\ valued \in BOOLEAN
  BY DEF TypeInv
<1>2. ASSUME DockerBuild(p) PROVE TypeInv'
  BY <1>1, <1>2, GotoType DEF DockerBuild, Fits, Common
<1>3. ASSUME Pull(p) PROVE TypeInv'
  BY <1>1, <1>3, GotoType DEF Pull, Fits, Places
<1>4. ASSUME MakeDir(p) PROVE TypeInv'
  BY <1>1, <1>4, GotoType DEF MakeDir, Fits, Places
<1>5. ASSUME ContainerCreate(p) PROVE TypeInv'
  <2> DEFINE image == IF Tagged(proc[p].kind) THEN tag ELSE proc[p].kind
  <2>1. image \in Names
    BY <1>1
  <2>2. CASE proc' = [proc EXCEPT ![p].pc = "export", ![p].cid = image]
    <3> DEFINE r == [proc[p] EXCEPT !.pc = "export", !.cid = image]
    <3>1. proc' = [proc EXCEPT ![p] = r]
      BY <2>2 DEF TypeInv
    <3> HIDE DEF image
    <3>2. r \in Record /\ r.pc = "export" /\ r.kind = proc[p].kind /\ r.update = proc[p].update
      BY <2>1 DEF Record, Places
    <3>3. ProcOK(r)
      BY <1>5, <3>2 DEF ContainerCreate, ProcOK, Fits
    <3> HIDE DEF r
    <3> QED
      BY <1>1, <1>5, <3>1, <3>3, BecomesDoes, TypeFrame DEF ContainerCreate
  <2>3. CASE Goto(p, "clean") \/ Goto(p, AfterFailure(proc[p].kind))
    BY <1>1, <1>5, <2>3, GotoType DEF ContainerCreate, Fits, Common
  <2> QED
    BY <1>5, <2>2, <2>3 DEF ContainerCreate
<1>6. ASSUME Export(p) PROVE TypeInv'
  <2>1. dir' \in Dirs
    BY <1>1, <1>6 DEF Export
  <2> QED
    BY <1>1, <1>6, <2>1, GotoType DEF Export, Fits, Common
<1>7. ASSUME SaveStarts(p) PROVE TypeInv'
  <2> "torn" \in Metas \ {"absent"}
    BY DEF Metas
  <2>1. dir' \in Dirs
    <3>1. dir' = dir \/ dir' = [dir EXCEPT !.meta = "torn"]
      BY <1>7 DEF SaveStarts
    <3> QED
      BY <1>1, <3>1
  <2>2. Good(dir') \in BOOLEAN
    BY <2>1 DEF Good, Dirs, Trees
  <2>3. valued' \in BOOLEAN
    BY <1>1, <1>7, <2>2 DEF SaveStarts
  <2> QED
    BY <1>1, <1>7, <2>1, <2>3, GotoType DEF SaveStarts, Fits, Common
<1>8. ASSUME SaveEnds(p) PROVE TypeInv'
  <2>1. dir' \in Dirs
    BY <1>1, <1>8 DEF SaveEnds, Metas, Known
  <2>2. PICK at \in {"rmi", "outer", "built"} : Goto(p, at)
    BY <1>8 DEF SaveEnds
  <2>3. at \in Common /\ proc[p].kind # "none"
    BY <1>8 DEF SaveEnds, Fits, Common
  <2> QED
    BY <1>1, <1>8, <2>1, <2>2, <2>3, GotoType DEF SaveEnds
<1>9. ASSUME RemoveTag(p) PROVE TypeInv'
  <2>1. tag' \in Names
    BY <1>1, <1>9 DEF RemoveTag, Names
  <2>2. PICK at \in {"outer", "failed"} : Goto(p, at)
    BY <1>9 DEF RemoveTag
  <2>3. at \in Common /\ proc[p].kind # "none"
    BY <1>9 DEF RemoveTag, Fits, Common
  <2> QED
    BY <1>1, <1>9, <2>1, <2>2, <2>3, GotoType DEF RemoveTag
<1> QED
  BY <1>2, <1>3, <1>4, <1>5, <1>6, <1>7, <1>8, <1>9

LEMMA InitType == Init => TypeInv
<1> SUFFICES ASSUME Init PROVE TypeInv
  OBVIOUS
<1> QED
  BY IdleOK, DirTypes DEF Init, TypeInv, Names, ProcOK

LEMMA NextType == TypeInv /\ [Next]_vars => TypeInv'
<1> SUFFICES ASSUME TypeInv, [Next]_vars PROVE TypeInv'
  OBVIOUS
<1>1. CASE UNCHANGED vars
  BY <1>1 DEF TypeInv, vars, files, history
<1>2. ASSUME NEW p \in Proc, Step(p) PROVE TypeInv'
  BY <1>2, TypeDirectory, TypeBuild, TypeImport DEF Step
<1>3. ASSUME NEW p \in Proc, Kill(p) \/ Begins(p) PROVE TypeInv'
  BY <1>3, TypeBegin
<1> QED
  BY <1>1, <1>2, <1>3, Zenon DEF Next, Begins

----------------------------------------------------------------------------
(* The process that works *)

LEMMA Fields ==
  /\ Absent.from = {} /\ Absent.whole = FALSE /\ Absent.meta = "absent"
  /\ Empty.from = {} /\ Empty.whole = FALSE /\ Empty.meta = "none"
  /\ Idle.pc = "idle" /\ Idle.kind = "none" /\ Idle.update = FALSE
  /\ ~Exists(Absent) /\ Exists(Empty)
<1>1. Empty # Absent
  BY DEF Empty, Absent
<1> QED
  BY <1>1 DEF Absent, Empty, Idle, Exists

\* A directory is good when it is whole and from one build.
LEMMA GoodOnes ==
  /\ \A d, k : d.whole /\ d.meta # "absent" /\ d.from = {k} => Good(d)
  /\ \A d : Good(d) => d.whole /\ d.meta # "absent"
  /\ ~Good(Absent) /\ ~Good(Empty)
<1>1. \A k : Cardinality({k}) = 1
  BY FS_Singleton
<1> QED
  BY <1>1, Fields DEF Good

\* Only p takes the step.
OnlyBy(p) == DOMAIN proc' = Proc /\ \A q \in Proc \ {p} : proc'[q] = proc[q]

LEMMA Others ==
  ASSUME NEW p \in Proc, OnlyBy(p), NEW q \in Proc, q # p
  PROVE  /\ proc'[q] = proc[q] /\ Working(q)' = Working(q) /\ \A at : At(q, at)' = At(q, at)
BY DEF OnlyBy, Working, At

\* Whoever works races with nobody that works.
LEMMA WorksAlone ==
  ASSUME AloneInv, NEW p \in Proc, Working(p)
  PROVE  ~Races(p)
BY DEF AloneInv, Races

\* A fault is not forgotten.
LEMMA Faulted ==
  ASSUME faults \subseteq faults'
  PROVE  /\ \A image, kind : Serves(image, kind) => Serves(image, kind)'
         /\ \A d, kind : IsFrom(d, kind) => \E k \in Known : Serves(k, kind)' /\ d.from = {k}
         /\ Littered => Littered'
         /\ "tag" \in faults => "tag" \in faults'
         /\ "removal" \in faults => "removal" \in faults'
BY DEF Serves, IsFrom, Littered

LEMMA Bystander ==
  ASSUME NEW p \in Proc, OnlyBy(p), NEW q \in Proc, q # p, DirAt(q),
         UNCHANGED <<dir, bak>>, valued' => valued, faults \subseteq faults'
  PROVE  DirAt(q)'
<1>1. proc'[q] = proc[q] /\ dir' = dir /\ bak' = bak
  BY DEF OnlyBy
<1>2. /\ \A image, kind : Serves(image, kind) => Serves(image, kind)'
      /\ Littered => Littered'
  BY Faulted
<1> QED
  BY <1>1, <1>2 DEF DirAt, IsFrom

LEMMA TagStays ==
  ASSUME AloneInv, NEW p \in Proc, OnlyBy(p), tag' \in {tag, "none"}, faults \subseteq faults'
  PROVE  \A q \in Proc \ {p} : TagAt(q)'
<1> TAKE q \in Proc \ {p}
<1>1. TagAt(q) /\ proc'[q] = proc[q]
  BY DEF AloneInv, OnlyBy
<1> QED
  BY <1>1, Faulted DEF TagAt

\* What holds of the files, whoever works.
FilesInv ==
  /\ valued => Good(dir) \/ Good(bak)
  /\ Tells(dir) /\ Tells(bak) /\ Cut(dir, "removing") /\ Cut(bak, "dropping")
  /\ ~Littered /\ kills = 0 /\ bak # Absent => \E p \in Proc : Working(p) /\ proc[p].update

\* A step of p that no other process that works sees, or that changes no file.
LEMMA Assemble ==
  ASSUME AloneInv, NEW p \in Proc, OnlyBy(p), faults \subseteq faults',
         ~Races(p) \/ (~Working(p)' /\ UNCHANGED <<dir, bak>> /\ (valued' => valued)),
         Working(p)' => DirAt(p)',
         TagAt(p)', \A q \in Proc \ {p} : TagAt(q)', FilesInv'
  PROVE  AloneInv'
<1>1. ASSUME NEW q \in Proc, NEW r \in Proc, Working(q)', Working(r)' PROVE q = r
  <2>1. CASE q # p /\ r # p
    BY <1>1, <2>1, Others DEF AloneInv
  <2>2. CASE q = p \/ r = p
    BY <1>1, <2>2, Others DEF Races
  <2> QED
    BY <2>1, <2>2
<1>2. ASSUME NEW q \in Proc PROVE TagAt(q)' /\ (Working(q)' => DirAt(q)')
  <2>1. CASE q = p
    BY <2>1
  <2>2. CASE q # p
    <3>1. TagAt(q)'
      BY <2>2
    <3>2. ASSUME Working(q)' PROVE DirAt(q)'
      <4>1. Working(q) /\ DirAt(q)
        BY <2>2, <3>2, Others DEF AloneInv
      <4>2. UNCHANGED <<dir, bak>> /\ (valued' => valued)
        BY <2>2, <4>1 DEF Races
      <4> QED
        BY <2>2, <4>1, <4>2, Bystander
    <3> QED
      BY <3>1, <3>2
  <2> QED
    BY <2>1, <2>2
<1> QED
  BY <1>1, <1>2 DEF AloneInv, FilesInv

\* A step that leaves the files alone.
LEMMA SameFiles ==
  ASSUME AloneInv, NEW p \in Proc, OnlyBy(p), faults \subseteq faults',
         UNCHANGED <<dir, bak, kills, valued>>,
         ~At(p, "removing"), ~At(p, "dropping"),
         Working(p) /\ proc[p].update =>
           Littered' \/ bak = Absent \/ (Working(p)' /\ proc'[p].update)
  PROVE  FilesInv'
<1>1. dir' = dir /\ bak' = bak /\ kills' = kills /\ valued' = valued
  OBVIOUS
<1>2. \A q \in Proc : \A at \in {"removing", "dropping"} : At(q, at) => At(q, at)'
  BY Others
<1>3. FilesInv
  BY DEF AloneInv, FilesInv
<1>4. Tells(dir)' /\ Tells(bak)' /\ (valued' => Good(dir') \/ Good(bak'))
  BY <1>1, <1>3, Faulted DEF FilesInv, Tells
<1>5. Cut(dir, "removing")' /\ Cut(bak, "dropping")'
  BY <1>1, <1>2, <1>3, Faulted DEF FilesInv, Cut
<1>7. Littered => Littered'
  BY Faulted
<1>6. ~Littered' /\ kills' = 0 /\ bak' # Absent => \E q \in Proc : Working(q)' /\ proc'[q].update
  BY <1>1, <1>3, <1>7, Others DEF FilesInv
<1> QED
  BY <1>4, <1>5, <1>6 DEF FilesInv

LEMMA Moves ==
  ASSUME TypeInv, NEW p \in Proc, NEW at, Goto(p, at)
  PROVE  /\ OnlyBy(p) /\ proc'[p].pc = at /\ proc'[p].kind = proc[p].kind
         /\ proc'[p].update = proc[p].update /\ proc'[p].cid = proc[p].cid
<1>1. OnlyBy(p) /\ proc'[p] = [proc[p] EXCEPT !.pc = at]
  BY GotoDoes DEF OnlyBy
<1> QED
  BY <1>1, Held DEF Record

\* A command that ends works no longer and waits for no tag.
LEMMA Ends ==
  ASSUME TypeInv, NEW p \in Proc, proc' = [proc EXCEPT ![p] = Idle]
  PROVE  OnlyBy(p) /\ proc'[p] = Idle /\ ~Working(p)' /\ TagAt(p)'
<1>1. OnlyBy(p) /\ proc'[p] = Idle
  BY BecomesDoes DEF OnlyBy
<1> QED
  BY <1>1, Fields DEF Working, TagAt, Tagged

\* A step of the process that works, from place to place.
LEMMA WorkStep ==
  ASSUME TypeInv, AloneInv, NEW p \in Proc, NEW at, Goto(p, at), ~Races(p),
         faults \subseteq faults', tag' \in {tag, "none"}, DirAt(p)',
         at \in {"check", "mkdir", "ccreate"} =>
           At(p, "check") \/ At(p, "mkdir") \/ ~Tagged(proc[p].kind),
         FilesInv'
  PROVE  AloneInv'
<1>1. OnlyBy(p) /\ proc'[p].pc = at /\ proc'[p].kind = proc[p].kind
  BY Moves
<1>2. TagAt(p)'
  <2>1. TagAt(p)
    BY DEF AloneInv
  <2>2. CASE ~Tagged(proc[p].kind) \/ at \notin {"check", "mkdir", "ccreate"}
    BY <1>1, <2>2 DEF TagAt
  <2>3. CASE Tagged(proc[p].kind) /\ (At(p, "check") \/ At(p, "mkdir"))
    BY <1>1, <2>1, <2>3, Faulted DEF TagAt, At
  <2> QED
    BY <2>2, <2>3
<1> QED
  BY <1>1, <1>2, TagStays, Assemble

\* The same when it leaves the directories as they are.
LEMMA QuietWork ==
  ASSUME TypeInv, AloneInv, NEW p \in Proc, NEW at, Goto(p, at), ~Races(p),
         faults \subseteq faults', tag' \in {tag, "none"}, UNCHANGED <<dir, bak, kills, valued>>,
         ~At(p, "removing"), ~At(p, "dropping"), at \notin {"idle", "load", "backup"}, DirAt(p)',
         at \in {"check", "mkdir", "ccreate"} =>
           At(p, "check") \/ At(p, "mkdir") \/ ~Tagged(proc[p].kind)
  PROVE  AloneInv'
<1>1. OnlyBy(p) /\ proc'[p].pc = at /\ proc'[p].update = proc[p].update
  BY Moves
<1>2. proc[p].update => Working(p)' /\ proc'[p].update
  BY <1>1 DEF Working
<1>3. FilesInv'
  BY <1>1, <1>2, SameFiles
<1> QED
  BY <1>3, WorkStep

\* A step of a process that does not work, and does not begin to.
LEMMA QuietStep ==
  ASSUME AloneInv, NEW p \in Proc, OnlyBy(p), ~Working(p)', TagAt(p)',
         ~Working(p) \/ ~proc[p].update, ~At(p, "removing"), ~At(p, "dropping"),
         tag' \in {tag, "none"}, UNCHANGED <<dir, bak, kills, valued>>, faults \subseteq faults'
  PROVE  AloneInv'
<1>1. FilesInv'
  BY SameFiles
<1> QED
  BY <1>1, TagStays, Assemble

LEMMA AloneBegin ==
  ASSUME TypeInv, AloneInv, NEW p \in Proc, Begins(p)
  PROVE  AloneInv'
<1>1. At(p, "idle") /\ UNCHANGED <<dir, bak, tag, kills, faults, valued>>
  BY BeginDoes DEF Begin, files
<1>2. ~proc[p].update
  BY <1>1, Held DEF At, Fits
<1>3. ASSUME NEW r, proc' = [proc EXCEPT ![p] = r], r.pc \in {"load", "remove", "build", "check"},
             r.pc = "load" <=> r.update, r.pc = "check" => ~Tagged(r.kind)
      PROVE  AloneInv'
  <2>1. OnlyBy(p) /\ proc'[p] = r
    BY <1>3, BecomesDoes DEF OnlyBy
  <2>2. ~Working(p)' /\ TagAt(p)'
    BY <1>3, <2>1 DEF Working, TagAt
  <2> QED
    BY <1>1, <1>2, <2>1, <2>2, QuietStep DEF At
<1>4. CASE Update(p)
  <2> DEFINE r == [Idle EXCEPT !.pc = "load", !.update = TRUE]
  <2>1. r.pc = "load" /\ r.update
    BY IdleOK DEF Record
  <2> HIDE DEF r
  <2>2. proc' = [proc EXCEPT ![p] = r]
    BY <1>4 DEF Update, Begin, r
  <2> QED
    BY <1>3, <2>1, <2>2
<1>5. ASSUME NEW k \in Kinds, Build(p, k) PROVE AloneInv'
  <2> DEFINE r == [Idle EXCEPT !.pc = First(k), !.kind = k]
  <2>1. r.pc = First(k) /\ r.kind = k /\ ~r.update
    BY IdleOK, Fields DEF Record
  <2> HIDE DEF r
  <2>2. proc' = [proc EXCEPT ![p] = r]
    BY <1>5 DEF Build, Begin, r
  <2> QED
    BY <1>3, <2>1, <2>2 DEF First
<1>6. ASSUME NEW k \in Kinds \cup {"none"}, Remove(p, k) PROVE AloneInv'
  <2> DEFINE r == [Idle EXCEPT !.pc = "remove", !.kind = k]
  <2>1. r.pc = "remove" /\ ~r.update
    BY IdleOK, Fields DEF Record
  <2> HIDE DEF r
  <2>2. proc' = [proc EXCEPT ![p] = r]
    BY <1>6 DEF Remove, Begin, r
  <2> QED
    BY <1>3, <2>1, <2>2
<1> QED
  BY <1>4, <1>5, <1>6 DEF Begins

LEMMA AloneKill ==
  ASSUME TypeInv, AloneInv, NEW p \in Proc, Kill(p)
  PROVE  AloneInv'
<1>1. OnlyBy(p) /\ ~Working(p)' /\ TagAt(p)'
  BY Ends DEF Kill
<1>2. UNCHANGED <<dir, bak, tag, faults, valued>> /\ kills' = kills + 1 /\ kills \in Nat
  BY DEF Kill, files, TypeInv
<1>3. FilesInv'
  <2>1. dir' = dir /\ bak' = bak /\ valued' = valued /\ faults' = faults /\ kills' > 0
    BY <1>2
  <2>2. FilesInv
    BY DEF AloneInv, FilesInv
  <2>3. Tells(dir)' /\ Tells(bak)' /\ (valued' => Good(dir') \/ Good(bak'))
    BY <2>1, <2>2 DEF FilesInv, Tells
  <2>4. Cut(dir, "removing")' /\ Cut(bak, "dropping")'
    BY <2>1 DEF Cut
  <2> QED
    BY <2>1, <2>3, <2>4 DEF FilesInv
<1> QED
  BY <1>1, <1>2, <1>3, TagStays, Assemble

LEMMA AloneRemove ==
  ASSUME TypeInv, AloneInv, ~raced', NEW p \in Proc, RemoveStarts(p) \/ RemoveEnds(p)
  PROVE  AloneInv'
<1>1. FilesInv
  BY DEF AloneInv, FilesInv
<1>2. ASSUME RemoveStarts(p) PROVE AloneInv'
  <2>1. At(p, "remove") /\ ~proc[p].update /\ ~Races(p) /\ ~valued'
    BY <1>2, Held DEF RemoveStarts, At, Fits
  <2>2. UNCHANGED <<bak, tag, kills, faults>>
    BY <1>2 DEF RemoveStarts
  <2>3. CASE Exists(dir)
    <3>1. dir' \in Remains(dir) /\ Goto(p, "removing")
      BY <1>2, <2>3 DEF RemoveStarts
    <3>2. dir'.from = dir.from /\ dir'.meta \in {dir.meta, "none"}
      BY <2>3, <3>1, RemainsAre DEF TypeInv
    <3>3. OnlyBy(p) /\ At(p, "removing")'
      BY <3>1, Moves DEF At
    <3>4. DirAt(p)'
      BY <2>1, <3>3 DEF DirAt, At, Complete
    <3>5. FilesInv'
      <4>1. Tells(dir)' /\ Tells(bak)'
        BY <1>1, <2>2, <3>2 DEF FilesInv, Tells
      <4>2. Cut(dir, "removing")'
        BY <3>3 DEF Cut
      <4>3. Cut(bak, "dropping")'
        <5>1. \A q \in Proc : At(q, "dropping") => At(q, "dropping")'
          BY <2>1, <3>3, Others DEF At
        <5> QED
          BY <1>1, <2>2, <5>1 DEF FilesInv, Cut
      <4>4. ~Littered' /\ kills' = 0 /\ bak' # Absent =>
              \E q \in Proc : Working(q)' /\ proc'[q].update
        BY <1>1, <2>1, <2>2, <3>3, Others DEF FilesInv, Littered
      <4> QED
        BY <2>1, <4>1, <4>2, <4>3, <4>4 DEF FilesInv
    <3> QED
      BY <2>1, <2>2, <3>1, <3>4, <3>5, WorkStep
  <2>4. CASE ~Exists(dir)
    <3>1. proc' = [proc EXCEPT ![p] = Idle] /\ dir' = dir
      BY <1>2, <2>4 DEF RemoveStarts
    <3>2. FilesInv'
      <4>1. OnlyBy(p)
        BY <3>1, Ends
      <4>2. \A q \in Proc : \A at \in {"removing", "dropping"} : At(q, at) => At(q, at)'
        BY <2>1, <4>1, Others DEF At
      <4> QED
        BY <1>1, <2>1, <2>2, <3>1, <4>1, <4>2, Others DEF FilesInv, Tells, Cut, Littered
    <3> QED
      BY <2>1, <2>2, <3>1, <3>2, Ends, TagStays, Assemble
  <2> QED
    BY <2>3, <2>4
<1>3. ASSUME RemoveEnds(p) PROVE AloneInv'
  <2>1. At(p, "removing") /\ ~proc[p].update /\ Working(p)
    BY <1>3, Held DEF RemoveEnds, At, Fits, Working
  <2>2. UNCHANGED <<bak, tag, kills, valued>> /\ ~Races(p)
    BY <1>3, <2>1, WorksAlone DEF RemoveEnds
  <2>6. \/ dir' = Absent /\ faults' = faults
        \/ dir' = dir /\ faults' = faults \cup {"removal"}
    BY <1>3 DEF RemoveEnds, Fault
  <2>3. OnlyBy(p) /\ TagAt(p)' /\ ~Working(p)'
    <3>1. CASE Goto(p, First(proc[p].kind))
      BY <2>1, <3>1, Moves DEF First, TagAt, Working
    <3>2. CASE proc' = [proc EXCEPT ![p] = Idle]
      BY <3>2, Ends
    <3> QED
      BY <1>3, <3>1, <3>2 DEF RemoveEnds
  <2>4. FilesInv'
    <3>1. valued => Good(bak)
      BY <2>1 DEF AloneInv, DirAt, At, Complete
    <3>2. \A q \in Proc : At(q, "dropping") => At(q, "dropping")'
      BY <2>1, <2>3, Others DEF At
    <3>6. "tag" \in faults => "tag" \in faults'
      BY <2>6
    <3>3. Tells(dir)' /\ Cut(dir, "removing")'
      BY <1>1, <2>6, <3>6, Fields DEF FilesInv, Tells, Cut
    <3>4. Tells(bak)' /\ Cut(bak, "dropping")'
      BY <1>1, <2>2, <2>6, <3>2 DEF FilesInv, Tells, Cut
    <3>5. ~Littered' /\ kills' = 0 /\ bak' # Absent =>
            \E q \in Proc : Working(q)' /\ proc'[q].update
      BY <1>1, <2>1, <2>2, <2>3, <2>6, Others DEF FilesInv, Littered
    <3> QED
      BY <2>2, <3>1, <3>3, <3>4, <3>5 DEF FilesInv
  <2> QED
    BY <2>2, <2>3, <2>4, <2>6, TagStays, Assemble
<1> QED
  BY <1>2, <1>3

LEMMA AloneBackUp ==
  ASSUME TypeInv, AloneInv, ~raced', NEW p \in Proc, Load(p) \/ BackUp(p)
  PROVE  AloneInv'
<1>1. proc[p].update /\ ~Working(p) /\ ~At(p, "removing") /\ ~At(p, "dropping")
  BY Held DEF Load, BackUp, At, Fits, Working
<1>2. ASSUME proc' = [proc EXCEPT ![p] = Idle], UNCHANGED <<dir, bak, tag, kills, faults, valued>>
      PROVE  AloneInv'
  BY <1>1, <1>2, Ends, QuietStep
<1>3. ASSUME Load(p) PROVE AloneInv'
  <2>1. UNCHANGED <<dir, bak, tag, kills, faults, valued>>
    BY <1>3 DEF Load, files, history
  <2>2. CASE proc' = [proc EXCEPT ![p] = Idle]
    BY <1>2, <2>1, <2>2
  <2>3. ASSUME NEW k, proc' = [proc EXCEPT ![p].pc = "backup", ![p].kind = k] PROVE AloneInv'
    <3> DEFINE r == [proc[p] EXCEPT !.pc = "backup", !.kind = k]
    <3>1. proc' = [proc EXCEPT ![p] = r]
      BY <2>3 DEF TypeInv
    <3>2. r.pc = "backup" /\ r.update
      BY <1>1, Held DEF Record
    <3> HIDE DEF r
    <3>3. OnlyBy(p) /\ proc'[p] = r
      BY <3>1, BecomesDoes DEF OnlyBy
    <3>4. ~Working(p)' /\ TagAt(p)'
      BY <3>2, <3>3 DEF Working, TagAt
    <3> QED
      BY <1>1, <2>1, <3>3, <3>4, QuietStep
  <2> QED
    BY <1>3, <2>2, <2>3 DEF Load
<1>4. ASSUME BackUp(p) PROVE AloneInv'
  <2>1. ~Races(p) /\ At(p, "backup") /\ UNCHANGED <<tag, kills, faults, valued>>
    BY <1>4 DEF BackUp
  <2>2. CASE Exists(dir) /\ bak \in {Absent, Empty}
    <3>1. bak' = dir /\ dir' = Absent /\ Goto(p, First(proc[p].kind))
      BY <1>4, <2>2 DEF BackUp
    <3>2. /\ OnlyBy(p) /\ proc'[p].pc = First(proc[p].kind) /\ proc'[p].update
          /\ First(proc[p].kind) \in {"build", "check"}
      BY <1>1, <3>1, Moves DEF First
    <3>3. Working(p)'
      BY <3>2 DEF Working
    <3>4. valued => Good(bak')
      BY <2>2, <3>1, GoodOnes DEF AloneInv
    <3>5. DirAt(p)'
      BY <2>1, <3>1, <3>2, <3>4 DEF DirAt, Complete
    <3>6. FilesInv'
      <4>1. \A q \in Proc : ~At(q, "removing")
        <5> SUFFICES ASSUME NEW q \in Proc, At(q, "removing") PROVE FALSE
          OBVIOUS
        <5>1. q # p /\ Working(q)
          BY <2>1, Held DEF At, Working, Fits
        <5> QED
          BY <2>1, <5>1 DEF Races
      <4>2. Tells(dir)' /\ Cut(dir, "removing")'
        BY <3>1, Fields DEF Tells, Cut
      <4>3. Tells(bak)' /\ Cut(bak, "dropping")'
        BY <2>1, <3>1, <4>1 DEF AloneInv, Tells, Cut
      <4> QED
        BY <2>1, <3>2, <3>3, <3>4, <4>2, <4>3 DEF FilesInv
    <3>7. First(proc[p].kind) = "check" => ~Tagged(proc[p].kind)
      BY DEF First
    <3> QED
      BY <2>1, <3>1, <3>2, <3>5, <3>6, <3>7, WorkStep
  <2>3. CASE ~(Exists(dir) /\ bak \in {Absent, Empty})
    BY <1>2, <1>4, <2>1, <2>3 DEF BackUp
  <2> QED
    BY <2>2, <2>3
<1> QED
  BY <1>3, <1>4

\* Behind a build that is complete the image is good where it belongs.
LEMMA CompleteGood ==
  ASSUME AloneInv, NEW p \in Proc, Working(p), proc[p].pc \in Complete
  PROVE  dir.whole /\ dir.meta # "absent" /\ IsFrom(dir, proc[p].kind) /\ Good(dir)
<1>1. DirAt(p)
  BY DEF AloneInv
<1>2. dir.whole /\ dir.meta # "absent" /\ IsFrom(dir, proc[p].kind)
  BY <1>1 DEF DirAt
<1> QED
  BY <1>2, GoodOnes DEF IsFrom

LEMMA AloneDrop ==
  ASSUME TypeInv, AloneInv, NEW p \in Proc, DropBackup(p) \/ Dropped(p)
  PROVE  AloneInv'
<1>1. FilesInv
  BY DEF AloneInv, FilesInv
<1>2. UNCHANGED <<dir, tag, kills, valued>>
  BY DEF DropBackup, Dropped, history
<1>3. ASSUME DropBackup(p), proc[p].update PROVE AloneInv'
  <2>1. /\ bak' \in (IF Exists(bak) THEN Remains(bak) ELSE {bak})
        /\ Goto(p, "dropping") /\ At(p, "built") /\ faults' = faults
    BY <1>3 DEF DropBackup, history
  <2>2. bak'.from = bak.from /\ bak'.meta \in {bak.meta, "none"}
    BY <2>1, RemainsAre DEF TypeInv
  <2>3. OnlyBy(p) /\ At(p, "dropping")' /\ proc'[p].kind = proc[p].kind /\ proc'[p].update
    BY <1>3, <2>1, Moves DEF At
  <2>4. Working(p) /\ proc[p].pc \in Complete /\ Working(p)'
    BY <1>3, <2>1, <2>3 DEF Working, At, Complete
  <2>5. dir.whole /\ dir.meta # "absent" /\ IsFrom(dir, proc[p].kind) /\ Good(dir)
    BY <2>4, CompleteGood
  <2>6. DirAt(p)'
    BY <1>2, <2>1, <2>3, <2>5 DEF DirAt, At, Complete, IsFrom, Serves
  <2>7. FilesInv'
    <3>1. Tells(dir)' /\ Tells(bak)'
      BY <1>1, <1>2, <2>1, <2>2 DEF FilesInv, Tells
    <3>2. Cut(dir, "removing")' /\ Cut(bak, "dropping")'
      BY <1>2, <2>3, <2>5 DEF Cut
    <3> QED
      BY <1>2, <2>3, <2>4, <2>5, <3>1, <3>2 DEF FilesInv
  <2> QED
    BY <1>2, <2>1, <2>4, <2>6, <2>7, WorksAlone, WorkStep
<1>4. ASSUME DropBackup(p), ~proc[p].update PROVE AloneInv'
  <2>1. proc' = [proc EXCEPT ![p] = Idle] /\ bak' = bak /\ At(p, "built") /\ faults' = faults
    BY <1>4 DEF DropBackup, history
  <2> QED
    BY <1>2, <1>4, <2>1, Ends, QuietStep DEF At
<1>5. ASSUME Dropped(p) PROVE AloneInv'
  <2>1. At(p, "dropping") /\ proc' = [proc EXCEPT ![p] = Idle]
    BY <1>5 DEF Dropped
  <2>5. \/ bak' = Absent /\ faults' = faults
        \/ bak' = bak /\ faults' = faults \cup {"removal"}
    BY <1>5 DEF Dropped, Fault
  <2>2. Working(p) /\ proc[p].pc \in Complete
    BY <2>1, Held DEF Working, At, Complete
  <2>3. Good(dir) /\ dir.whole
    BY <2>2, CompleteGood
  <2>4. FilesInv'
    <3>1. Tells(dir)' /\ Cut(dir, "removing")'
      BY <1>1, <1>2, <2>3, <2>5 DEF FilesInv, Tells, Cut
    <3>2. Tells(bak)' /\ Cut(bak, "dropping")'
      BY <1>1, <2>5, Fields DEF FilesInv, Tells, Cut
    <3> QED
      BY <1>2, <2>3, <2>5, <3>1, <3>2 DEF FilesInv, Littered
  <2> QED
    BY <1>2, <2>1, <2>2, <2>4, <2>5, Ends, WorksAlone, TagStays, Assemble
<1> QED
  BY <1>3, <1>4, <1>5

LEMMA AloneRestore ==
  ASSUME TypeInv, AloneInv, ~raced', NEW p \in Proc, Restore(p)
  PROVE  AloneInv'
<1>1. FilesInv
  BY DEF AloneInv, FilesInv
<1>2. /\ At(p, "failed") /\ proc' = [proc EXCEPT ![p] = Idle]
      /\ UNCHANGED <<tag, kills, faults, valued>>
      /\ OnlyBy(p) /\ ~Working(p)' /\ TagAt(p)'
  BY Ends DEF Restore
<1>3. CASE ~proc[p].update
  BY <1>2, <1>3, QuietStep DEF Restore, At
<1>4. CASE proc[p].update
  <2>1. Working(p) /\ ~Races(p)
    BY <1>2, <1>4, WorksAlone DEF Working, At
  <2>2. (dir \in {Absent, Empty} \/ Littered) /\ (valued => Good(bak))
    BY <1>2, <2>1 DEF AloneInv, DirAt, At, Complete
  <2>3. CASE dir \in {Absent, Empty} /\ Exists(bak)
    <3>1. dir' = bak /\ bak' = Absent
      BY <1>4, <2>3 DEF Restore
    <3>2. \A q \in Proc : ~At(q, "dropping")
      <4> SUFFICES ASSUME NEW q \in Proc, At(q, "dropping") PROVE FALSE
        OBVIOUS
      <4>1. q # p /\ Working(q)
        BY <1>2, Held DEF At, Working, Fits
      <4> QED
        BY <2>1, <4>1 DEF Races
    <3>3. Tells(dir)' /\ Cut(dir, "removing")'
      BY <1>1, <1>2, <3>1, <3>2 DEF FilesInv, Tells, Cut
    <3>4. Tells(bak)' /\ Cut(bak, "dropping")'
      BY <3>1, Fields DEF Tells, Cut
    <3>5. FilesInv'
      BY <1>2, <2>2, <3>1, <3>3, <3>4 DEF FilesInv
    <3> QED
      BY <1>2, <2>1, <3>5, TagStays, Assemble
  <2>4. CASE ~(dir \in {Absent, Empty} /\ Exists(bak))
    <3>1. UNCHANGED <<dir, bak>> /\ (Littered' \/ bak = Absent)
      BY <1>2, <1>4, <2>2, <2>4 DEF Restore, Exists, Littered
    <3>2. FilesInv'
      BY <1>2, <3>1, SameFiles DEF At
    <3> QED
      BY <1>2, <2>1, <3>2, TagStays, Assemble
  <2> QED
    BY <2>3, <2>4
<1> QED
  BY <1>3, <1>4

\* A step of a build that has not completed: its directory says nothing yet.
LEMMA Unfinished ==
  ASSUME TypeInv, AloneInv, NEW p \in Proc, NEW at, Goto(p, at), ~At(p, "dropping"),
         at \notin {"idle", "load", "backup"}, UNCHANGED <<bak, kills, valued>>,
         faults \subseteq faults', valued => Good(bak), dir'.meta \in {"absent", "none"}
  PROVE  FilesInv'
<1>8. /\ "tag" \in faults => "tag" \in faults'
      /\ "removal" \in faults => "removal" \in faults'
      /\ Littered => Littered'
  BY Faulted
<1>1. OnlyBy(p) /\ proc'[p].pc = at /\ proc'[p].update = proc[p].update
  BY Moves
<1>2. proc[p].update => Working(p)'
  BY <1>1 DEF Working
<1>3. FilesInv
  BY DEF AloneInv, FilesInv
<1>4. \A q \in Proc : At(q, "dropping") => At(q, "dropping")'
  BY <1>1, Others
<1>5. Tells(dir)' /\ Cut(dir, "removing")'
  BY DEF Tells, Cut
<1>6. Tells(bak)' /\ Cut(bak, "dropping")'
  BY <1>3, <1>4, <1>8 DEF FilesInv, Tells, Cut
<1>7. ~Littered' /\ kills' = 0 /\ bak' # Absent => \E q \in Proc : Working(q)' /\ proc'[q].update
  BY <1>1, <1>2, <1>3, <1>8, Others DEF FilesInv
<1> QED
  BY <1>5, <1>6, <1>7 DEF FilesInv

LEMMA AloneBuild ==
  ASSUME TypeInv, AloneInv, ~raced', NEW p \in Proc,
         \/ Check(p) \/ Fetch(p) \/ CurlOpens(p) \/ Download(p) \/ CurlFails(p)
         \/ Extract(p) \/ SetUp(p) \/ Clean(p)
  PROVE  AloneInv'
<1> USE Fields, Onward
<1>1. ASSUME Check(p) PROVE AloneInv'
  <2>1. At(p, "check") /\ UNCHANGED <<dir, bak, tag, kills, faults, valued>>
    BY <1>1 DEF Check, files
  <2>2. CASE Exists(dir)
    <3>1. Goto(p, AfterFailure(proc[p].kind))
      BY <1>1, <2>2 DEF Check
    <3>2. ~proc[p].update
      BY <2>1, <2>2 DEF AloneInv, DirAt, Working, At
    <3>3. OnlyBy(p) /\ proc'[p].pc \in {"rmiFail", "failed"} /\ ~proc'[p].update
      BY <3>1, <3>2, Moves
    <3>4. ~Working(p)' /\ TagAt(p)'
      BY <3>3 DEF Working, TagAt
    <3> QED
      BY <2>1, <3>2, <3>3, <3>4, QuietStep DEF At
  <2>3. CASE ~Exists(dir)
    <3> DEFINE at == IF proc[p].kind = "create" THEN "fetch"
                     ELSE IF proc[p].kind \in {"docker", "devimage", "tag"} THEN "pull" ELSE "mkdir"
    <3>1. Goto(p, at) /\ ~Races(p) /\ at \in {"fetch", "pull", "mkdir"}
      BY <1>1, <2>3 DEF Check
    <3> HIDE DEF at
    <3>2. dir' = Absent /\ dir = Absent
      BY <2>1, <2>3 DEF Exists
    <3>3. proc'[p].pc = at
      BY <3>1, Moves
    <3>4. DirAt(p)'
      BY <2>1, <3>1, <3>2, <3>3, GoodOnes DEF DirAt, Complete, AloneInv
    <3> QED
      BY <2>1, <3>1, <3>4, QuietWork DEF At
  <2> QED
    BY <2>2, <2>3
<1>2. ASSUME Fetch(p) \/ CurlOpens(p) \/ Download(p) \/ CurlFails(p) PROVE AloneInv'
  <2>1. /\ proc[p].pc \in {"fetch", "curl", "download"}
        /\ UNCHANGED <<dir, bak, tag, kills, faults, valued>>
    BY <1>2 DEF Fetch, CurlOpens, Download, CurlFails, files, history, At
  <2>2. Working(p) /\ DirAt(p)
    BY <2>1 DEF Working, AloneInv
  <2>3. dir = Absent /\ (valued => Good(bak))
    BY <2>1, <2>2 DEF DirAt, Complete
  <2>4. PICK at \in {"extract", "curl", "download", "failed"} : Goto(p, at)
    BY <1>2 DEF Fetch, CurlOpens, Download, CurlFails
  <2>5. DirAt(p)'
    BY <2>1, <2>3, <2>4, Moves DEF DirAt, Complete
  <2> QED
    BY <2>1, <2>2, <2>4, <2>5, WorksAlone, QuietWork DEF At
<1>3. ASSUME Extract(p) PROVE AloneInv'
  <2>1. At(p, "extract") /\ UNCHANGED <<bak, tag, kills, valued>>
    BY <1>3 DEF Extract
  <2>2. Working(p) /\ DirAt(p)
    BY <2>1, Held DEF Working, AloneInv, At
  <2>3. dir = Absent /\ (valued => Good(bak))
    BY <2>1, <2>2 DEF DirAt, Complete, At
  <2>4. LET d == Plus(Absent, "create", FALSE) IN d.from = {"create"} /\ d.meta = "none"
    BY DEF Plus
  <2>8. Made(Absent) = Empty
    BY DEF Made
  <2>5. PICK at \in {"vm", "failed"} :
          /\ Goto(p, at) /\ (faults \subseteq faults') /\ dir'.meta = "none"
          /\ at = "vm" => dir'.from = {"create"}
          /\ at = "failed" => Littered' \/ dir' = Empty
    <3>1. ASSUME dir' = Plus(dir, "create", FALSE), Goto(p, "vm"), UNCHANGED faults
          PROVE  /\ Goto(p, "vm") /\ (faults \subseteq faults') /\ dir'.meta = "none"
                 /\ dir'.from = {"create"}
      BY <2>3, <2>4, <3>1
    <3>2. ASSUME dir' = Plus(dir, "create", FALSE), Goto(p, "failed"), Fault("tar")
          PROVE  Goto(p, "failed") /\ (faults \subseteq faults') /\ dir'.meta = "none" /\ Littered'
      BY <2>3, <2>4, <3>2 DEF Fault, Littered
    <3>3. ASSUME dir' = Made(dir), Goto(p, "failed"), UNCHANGED faults
          PROVE  /\ Goto(p, "failed") /\ (faults \subseteq faults') /\ dir'.meta = "none"
                 /\ dir' = Empty
      BY <2>3, <2>8, <3>3
    <3> QED
      BY <1>3, <3>1, <3>2, <3>3 DEF Extract
  <2>6. DirAt(p)'
    BY <2>1, <2>3, <2>5, Moves DEF DirAt, Complete
  <2>7. FilesInv'
    BY <2>1, <2>3, <2>5, Unfinished DEF At
  <2> QED
    BY <2>1, <2>2, <2>5, <2>6, <2>7, WorksAlone, WorkStep
<1>4. ASSUME SetUp(p) PROVE AloneInv'
  <2>1. At(p, "vm") /\ UNCHANGED <<bak, tag, kills, faults, valued>>
    BY <1>4 DEF SetUp, history
  <2>2. Working(p) /\ DirAt(p) /\ proc[p].kind = "create"
    BY <2>1, Held DEF Working, AloneInv, At, Fits
  <2>3. dir.from = {"create"} /\ dir.meta = "none" /\ (valued => Good(bak))
    BY <2>1, <2>2 DEF DirAt, Complete, At
  <2>4. PICK at \in {"meta", "clean"} : Goto(p, at) /\ dir'.from = {"create"} /\ dir'.meta = "none"
                                        /\ (at = "meta" => dir'.whole)
    BY <1>4, <2>3 DEF SetUp, TypeInv, Dirs, Trees
  <2>7. IsFrom(dir, "create")'
    BY <2>4 DEF IsFrom, Serves, Known
  <2>5. DirAt(p)'
    BY <2>1, <2>2, <2>3, <2>4, <2>7, Moves DEF DirAt, Complete
  <2>6. FilesInv'
    BY <2>1, <2>3, <2>4, Unfinished DEF At
  <2> QED
    BY <2>1, <2>2, <2>4, <2>5, <2>6, WorksAlone, WorkStep
<1>5. ASSUME Clean(p) PROVE AloneInv'
  <2>1. /\ At(p, "clean") /\ Goto(p, AfterFailure(proc[p].kind))
        /\ UNCHANGED <<bak, tag, kills, valued>>
    BY <1>5 DEF Clean
  <2>2. Working(p) /\ DirAt(p)
    BY <2>1, Held DEF Working, AloneInv, At
  <2>3. (valued => Good(bak)) /\ dir.meta \in {"absent", "none"}
    BY <2>1, <2>2 DEF DirAt, Complete, At
  <2>7. /\ dir'.meta \in {"absent", "none"} /\ (dir' = Absent \/ Littered')
        /\ faults \subseteq faults'
    <3>1. CASE dir' = Absent /\ UNCHANGED faults
      BY <3>1
    <3>2. CASE Exists(dir) /\ dir' \in Remains(dir) /\ Fault("removal")
      BY <2>3, <3>2, RemainsAre DEF TypeInv, Fault, Littered
    <3> QED
      BY <1>5, <3>1, <3>2 DEF Clean
  <2>4. proc'[p].pc \in {"rmiFail", "failed"}
    BY <2>1, Moves
  <2>5. DirAt(p)'
    BY <2>1, <2>3, <2>4, <2>7 DEF DirAt, Complete
  <2>6. FilesInv'
    BY <2>1, <2>3, <2>7, Unfinished DEF At
  <2> QED
    BY <2>1, <2>2, <2>5, <2>6, <2>7, WorksAlone, WorkStep
<1> QED
  BY <1>1, <1>2, <1>3, <1>4, <1>5

LEMMA AloneImport ==
  ASSUME TypeInv, AloneInv, ~raced', NEW p \in Proc,
         DockerBuild(p) \/ Pull(p) \/ MakeDir(p) \/ ContainerCreate(p) \/ Export(p)
  PROVE  AloneInv'
<1> USE Fields, Onward
<1>1. ASSUME DockerBuild(p) PROVE AloneInv'
  <2>1. At(p, "build") /\ UNCHANGED <<dir, bak, kills, valued>> /\ faults \subseteq faults'
    BY <1>1 DEF DockerBuild, Fault
  <2> DEFINE Sets == /\ tag' = proc[p].kind
                     /\ \A q \in Proc \ {p} : Tagged(proc[q].kind) =>
                          proc[q].pc \notin {"check", "mkdir", "ccreate"}
  <2>2. PICK at \in {"check", "failed"} :
          /\ Goto(p, at)
          /\ tag' = tag \/ (at = "check" /\ Sets)
          /\ at = "check" => Sets \/ "tag" \in faults'
    BY <1>1 DEF DockerBuild, Fault
  <2>3. /\ OnlyBy(p) /\ proc'[p].pc = at
        /\ proc'[p].kind = proc[p].kind /\ proc'[p].update = proc[p].update
    BY <2>2, Moves
  <2>4. TagAt(p)'
    <3>1. CASE at = "failed"
      BY <2>3, <3>1 DEF TagAt
    <3>2. CASE at = "check" /\ Sets
      <4>1. proc[p].kind \in Known
        BY <2>1, Held DEF At, Fits, Names
      <4> QED
        BY <2>3, <3>2, <4>1 DEF TagAt, Serves
    <3>3. CASE at = "check" /\ "tag" \in faults' /\ tag' = tag
      BY <2>3, <3>3 DEF TagAt, Serves, TypeInv, Names
    <3> QED
      BY <2>2, <3>1, <3>2, <3>3
  <2>5. \A q \in Proc \ {p} : TagAt(q)'
    <3>1. CASE tag' = tag
      BY <2>1, <2>2, <2>3, <3>1, TagStays
    <3>2. CASE Sets
      BY <2>2, <2>3, <3>2, Others DEF TagAt
    <3> QED
      BY <2>2, <3>1, <3>2
  <2>6. Working(p)' => Working(p) /\ proc[p].update
    BY <2>1, <2>3 DEF Working, At
  <2>7. Working(p) => ~Races(p)
    BY WorksAlone
  <2>8. ASSUME Working(p)' PROVE DirAt(p)'
    <3>1. DirAt(p)
      BY <2>6, <2>8 DEF AloneInv
    <3>2. dir = Absent /\ (valued => Good(bak))
      BY <2>1, <3>1 DEF DirAt, Complete, At
    <3> QED
      BY <2>1, <2>3, <3>2 DEF DirAt, Complete
  <2>9. Working(p) /\ proc[p].update => Working(p)' /\ proc'[p].update
    BY <2>3 DEF Working
  <2>10. FilesInv'
    BY <2>1, <2>3, <2>9, SameFiles DEF At
  <2> QED
    BY <2>1, <2>3, <2>4, <2>5, <2>6, <2>7, <2>8, <2>10, Assemble
<1>2. ASSUME Pull(p) PROVE AloneInv'
  <2>1. At(p, "pull") /\ UNCHANGED <<dir, bak, tag, kills, faults, valued>>
    BY <1>2 DEF Pull, files, history
  <2>2. Working(p) /\ DirAt(p) /\ ~Tagged(proc[p].kind)
    BY <2>1, Held DEF Working, AloneInv, At, Fits, Tagged
  <2>3. dir = Absent /\ (valued => Good(bak))
    BY <2>1, <2>2 DEF DirAt, Complete, At
  <2>4. PICK at \in {"mkdir", "failed"} : Goto(p, at)
    BY <1>2 DEF Pull
  <2>5. DirAt(p)'
    BY <2>1, <2>3, <2>4, Moves DEF DirAt, Complete
  <2> QED
    BY <2>1, <2>2, <2>4, <2>5, WorksAlone, QuietWork DEF At
<1>3. ASSUME MakeDir(p) PROVE AloneInv'
  <2>1. /\ At(p, "mkdir") /\ dir' = Made(dir) /\ Goto(p, "ccreate")
        /\ UNCHANGED <<bak, tag, kills, faults, valued>>
    BY <1>3 DEF MakeDir, history
  <2>2. Working(p) /\ DirAt(p)
    BY <2>1, Held DEF Working, AloneInv, At
  <2>3. dir = Absent /\ (valued => Good(bak))
    BY <2>1, <2>2 DEF DirAt, Complete, At
  <2>4. dir' = Empty
    BY <2>1, <2>3 DEF Made
  <2>5. DirAt(p)'
    BY <2>1, <2>3, <2>4, Moves DEF DirAt, Complete
  <2>6. FilesInv'
    BY <2>1, <2>3, <2>4, Unfinished DEF At
  <2> QED
    BY <2>1, <2>2, <2>5, <2>6, WorksAlone, WorkStep
<1>4. ASSUME ContainerCreate(p) PROVE AloneInv'
  <2>1. At(p, "ccreate") /\ UNCHANGED <<dir, bak, tag, kills, faults, valued>>
    BY <1>4 DEF ContainerCreate, files, history
  <2>2. Working(p) /\ DirAt(p) /\ TagAt(p)
    BY <2>1, Held DEF Working, AloneInv, At
  <2>3. dir = Empty /\ (valued => Good(bak))
    BY <2>1, <2>2 DEF DirAt, Complete, At
  <2>4. CASE Goto(p, "clean") \/ Goto(p, AfterFailure(proc[p].kind))
    <3>1. PICK at \in {"clean", "rmiFail", "failed"} : Goto(p, at)
      BY <2>4
    <3>2. DirAt(p)'
      BY <2>1, <2>3, <3>1, Moves DEF DirAt, Complete
    <3> QED
      BY <2>1, <2>2, <3>1, <3>2, WorksAlone, QuietWork DEF At
  <2> DEFINE image == IF Tagged(proc[p].kind) THEN tag ELSE proc[p].kind
  <2>5. CASE image # "none" /\ proc' = [proc EXCEPT ![p].pc = "export", ![p].cid = image]
    <3> DEFINE r == [proc[p] EXCEPT !.pc = "export", !.cid = image]
    <3>1. proc' = [proc EXCEPT ![p] = r]
      BY <2>5 DEF TypeInv
    <3>8. proc[p].kind \in Known
      BY <2>1, Held DEF At, Fits, Names
    <3>2. Serves(image, proc[p].kind)
      BY <2>1, <2>2, <2>5, <3>8 DEF TagAt, At, Serves
    <3>9. image \in Names
      BY <3>2 DEF Serves, Names
    <3>3. /\ r.pc = "export" /\ r.kind = proc[p].kind
          /\ r.update = proc[p].update /\ r.cid = image
      BY <3>9, Held DEF Record
    <3> HIDE DEF r, image
    <3>4. OnlyBy(p) /\ proc'[p] = r
      BY <3>1, BecomesDoes DEF OnlyBy
    <3>5. DirAt(p)' /\ TagAt(p)'
      BY <2>1, <2>3, <3>2, <3>3, <3>4 DEF DirAt, TagAt, Complete, Serves
    <3>6. proc[p].update => Working(p)' /\ proc'[p].update
      BY <3>3, <3>4 DEF Working
    <3>7. FilesInv'
      BY <2>1, <3>4, <3>6, SameFiles DEF At
    <3> QED
      BY <2>1, <2>2, <3>4, <3>5, <3>7, WorksAlone, TagStays, Assemble
  <2> QED
    BY <1>4, <2>4, <2>5 DEF ContainerCreate
<1>5. ASSUME Export(p) PROVE AloneInv'
  <2>1. At(p, "export") /\ UNCHANGED <<bak, tag, kills, faults, valued>>
    BY <1>5 DEF Export, history
  <2>2. Working(p) /\ DirAt(p)
    BY <2>1, Held DEF Working, AloneInv, At
  <2>3. dir = Empty /\ Serves(proc[p].cid, proc[p].kind) /\ (valued => Good(bak))
    BY <2>1, <2>2 DEF DirAt, Complete, At
  <2>4. PICK w \in BOOLEAN, at \in {"meta", "clean"} :
          Goto(p, at) /\ dir' = Plus(dir, proc[p].cid, w) /\ (at = "meta" => w)
    BY <1>5 DEF Export
  <2>5. dir'.from = {proc[p].cid} /\ dir'.meta = "none" /\ (at = "meta" => dir'.whole)
    BY <2>3, <2>4 DEF Plus
  <2>8. IsFrom(dir, proc[p].kind)'
    BY <2>1, <2>3, <2>4, <2>5, Moves DEF IsFrom, Serves
  <2>6. DirAt(p)'
    BY <2>1, <2>3, <2>4, <2>5, <2>8, Moves DEF DirAt, Complete
  <2>7. FilesInv'
    BY <2>1, <2>3, <2>4, <2>5, Unfinished DEF At
  <2> QED
    BY <2>1, <2>2, <2>4, <2>6, <2>7, WorksAlone, WorkStep
<1> QED
  BY <1>1, <1>2, <1>3, <1>4, <1>5

\* A step of a build that has completed, from one such place to another.
LEMMA Completed ==
  ASSUME TypeInv, AloneInv, NEW p \in Proc, NEW at \in Complete, Goto(p, at),
         Working(p), ~At(p, "dropping"), UNCHANGED <<bak, kills, faults>>, tag' \in {tag, "none"},
         dir'.whole, dir'.meta # "absent", dir'.from = dir.from, IsFrom(dir, proc[p].kind),
         Tells(dir)'
  PROVE  AloneInv'
<1>1. /\ OnlyBy(p) /\ proc'[p].pc = at
      /\ proc'[p].kind = proc[p].kind /\ proc'[p].update = proc[p].update
  BY Moves
<1>6. IsFrom(dir, proc[p].kind)'
  BY <1>1 DEF IsFrom, Serves
<1>2. DirAt(p)'
  BY <1>1, <1>6 DEF DirAt, Complete
<1>3. Good(dir')
  BY GoodOnes DEF IsFrom
<1>4. proc[p].update => Working(p)' /\ proc'[p].update
  BY <1>1 DEF Working, Complete
<1>5. FilesInv'
  <2>1. FilesInv
    BY DEF AloneInv, FilesInv
  <2>2. \A q \in Proc : At(q, "dropping") => At(q, "dropping")'
    BY <1>1, Others
  <2>3. Cut(dir, "removing")'
    BY DEF Cut
  <2>4. Tells(bak)' /\ Cut(bak, "dropping")'
    BY <2>1, <2>2 DEF FilesInv, Tells, Cut
  <2>5. ~Littered' /\ kills' = 0 /\ bak' # Absent => \E q \in Proc : Working(q)' /\ proc'[q].update
    BY <1>1, <1>4, <2>1, Others DEF FilesInv, Littered
  <2> QED
    BY <1>3, <2>3, <2>4, <2>5 DEF FilesInv
<1> QED
  BY <1>2, <1>5, WorksAlone, WorkStep DEF Complete

LEMMA AloneSave ==
  ASSUME TypeInv, AloneInv, NEW p \in Proc, SaveStarts(p) \/ SaveEnds(p) \/ RemoveTag(p)
  PROVE  AloneInv'
<1> USE Fields, Onward
<1>1. ASSUME SaveStarts(p) PROVE AloneInv'
  <2>1. proc[p].pc \in {"meta", "outer"} /\ UNCHANGED <<bak, tag, kills, faults>>
    BY <1>1 DEF SaveStarts, history
  <2>2. Working(p) /\ proc[p].pc \in Complete
    BY <2>1, Held DEF Working, Complete
  <2>3. dir.whole /\ dir.meta # "absent" /\ IsFrom(dir, proc[p].kind) /\ Tells(dir)
    BY <2>2, CompleteGood DEF AloneInv
  <2>4. PICK at \in {"metaWrite", "outerWrite", "rmi", "outer", "built"} : Goto(p, at)
    BY <1>1 DEF SaveStarts
  <2>5. dir'.whole /\ dir'.from = dir.from /\ dir'.meta \in {dir.meta, "torn"}
    BY <1>1, <2>3 DEF SaveStarts, TypeInv, Dirs, Trees
  <2>6. Tells(dir)'
    BY <2>1, <2>3, <2>5 DEF Tells
  <2>7. at \in Complete
    BY DEF Complete
  <2> QED
    BY <2>1, <2>2, <2>3, <2>4, <2>5, <2>6, <2>7, Completed DEF At
<1>2. ASSUME SaveEnds(p) PROVE AloneInv'
  <2>1. proc[p].pc \in {"metaWrite", "outerWrite"} /\ UNCHANGED <<bak, tag, kills, faults>>
    BY <1>2 DEF SaveEnds, history
  <2>2. Working(p) /\ proc[p].pc \in Complete
    BY <2>1, Held DEF Working, Complete
  <2>3. dir.whole /\ dir.meta # "absent" /\ IsFrom(dir, proc[p].kind) /\ Exists(dir)
    BY <2>2, CompleteGood DEF Exists
  <2>4. PICK at \in {"rmi", "outer", "built"} : Goto(p, at)
    BY <1>2 DEF SaveEnds
  <2>5. PICK m \in {Recorded(proc[p].kind), "tag", "docker"} : dir' = [dir EXCEPT !.meta = m]
    BY <1>2, <2>3 DEF SaveEnds
  <2>6. dir'.whole /\ dir'.from = dir.from /\ dir'.meta = m
    BY <2>3, <2>5 DEF TypeInv, Dirs, Trees
  <2>7. PICK k \in Known : Serves(k, proc[p].kind) /\ dir.from = {k}
    BY <2>3 DEF IsFrom
  <2>10. "tag" \in faults' \/ k = proc[p].kind
    BY <2>1, <2>7 DEF Serves
  <2>11. m # "absent"
    BY Held DEF Names, Known
  <2>12. "tag" \in faults' \/ m \in {Recorded(k), "tag", "docker"}
    BY <2>10
  <2>8. Tells(dir)'
    BY <2>6, <2>7, <2>12 DEF Tells
  <2>9. at \in Complete
    BY DEF Complete
  <2> QED
    BY <2>1, <2>2, <2>3, <2>4, <2>6, <2>8, <2>9, <2>11, Completed DEF At
<1>3. ASSUME RemoveTag(p) PROVE AloneInv'
  <2>1. tag' \in {tag, "none"} /\ UNCHANGED <<dir, bak, kills, faults, valued>>
    BY <1>3 DEF RemoveTag, history
  <2>2. CASE At(p, "rmi")
    <3>1. Working(p) /\ proc[p].pc \in Complete /\ Goto(p, "outer")
      BY <1>3, <2>2, Held DEF RemoveTag, Working, Complete, At
    <3>2. dir.whole /\ dir.meta # "absent" /\ IsFrom(dir, proc[p].kind) /\ Tells(dir)
      BY <3>1, CompleteGood DEF AloneInv
    <3>3. "outer" \in Complete /\ Tells(dir)'
      BY <2>1, <3>2 DEF Complete, Tells
    <3> QED
      BY <2>1, <2>2, <3>1, <3>2, <3>3, Completed DEF At
  <2>3. CASE At(p, "rmiFail")
    <3>1. Goto(p, "failed")
      BY <1>3, <2>3 DEF RemoveTag, At
    <3>2. CASE proc[p].update
      <4>1. Working(p) /\ DirAt(p)
        BY <2>3, <3>2 DEF Working, At, AloneInv
      <4>2. DirAt(p)'
        BY <2>1, <2>3, <3>1, <4>1, Moves DEF DirAt, Complete, At, Littered
      <4> QED
        BY <2>1, <2>3, <3>1, <4>1, <4>2, WorksAlone, QuietWork DEF At
    <3>3. CASE ~proc[p].update
      <4>1. OnlyBy(p) /\ proc'[p].pc = "failed" /\ ~proc'[p].update
        BY <3>1, <3>3, Moves
      <4>2. ~Working(p)' /\ TagAt(p)'
        BY <4>1 DEF Working, TagAt
      <4> QED
        BY <2>1, <2>3, <3>3, <4>1, <4>2, QuietStep DEF At
    <3> QED
      BY <3>2, <3>3, Held
  <2> QED
    BY <1>3, <2>2, <2>3 DEF RemoveTag, At
<1> QED
  BY <1>1, <1>2, <1>3

LEMMA InitInv == Init => ImageInv
<1> SUFFICES ASSUME Init PROVE ImageInv
  OBVIOUS
<1>1. \A p \in Proc : proc[p] = Idle /\ ~Working(p)
  BY Fields DEF Init, Working
<1>2. FilesInv
  BY <1>1, Fields DEF Init, FilesInv, Tells, Cut
<1>3. \A p \in Proc : TagAt(p)
  BY <1>1, Fields DEF TagAt
<1> QED
  BY <1>1, <1>2, <1>3, InitType DEF ImageInv, AloneInv, FilesInv

LEMMA NextInv == ImageInv /\ [Next]_vars => ImageInv'
<1> SUFFICES ASSUME ImageInv, [Next]_vars PROVE ImageInv'
  OBVIOUS
<1>1. TypeInv /\ TypeInv'
  BY NextType DEF ImageInv
<1>2. ASSUME ~raced' PROVE AloneInv'
  <2>1. CASE UNCHANGED vars
    <3>1. AloneInv
      BY <1>2, <2>1 DEF ImageInv, vars, history
    <3> QED
      BY <2>1, <3>1 DEF vars, files, history, AloneInv, Working, TagAt, DirAt, Tells, Cut, At,
                        Serves, IsFrom, Littered
  <2>2. ASSUME NEW p \in Proc, Step(p) PROVE AloneInv'
    <3>1. raced => raced'
      BY <2>2 DEF Step, RemoveStarts, RemoveEnds, Load, BackUp, DropBackup, Dropped, Restore,
                  Check, Fetch, CurlOpens, Download, CurlFails, Extract, SetUp, Clean,
                  DockerBuild, Pull, MakeDir, ContainerCreate, Export, SaveStarts, SaveEnds,
                  RemoveTag, history
    <3>2. AloneInv
      BY <1>2, <3>1 DEF ImageInv
    <3> QED
      BY <1>1, <1>2, <2>2, <3>2, AloneRemove, AloneBackUp, AloneDrop, AloneRestore, AloneBuild,
         AloneImport, AloneSave DEF Step
  <2>3. ASSUME NEW p \in Proc, Kill(p) \/ Begins(p) PROVE AloneInv'
    <3>1. raced' = raced
      BY <2>3, BeginDoes DEF Kill, Begin
    <3> QED
      BY <1>1, <1>2, <2>3, <3>1, AloneBegin, AloneKill DEF ImageInv
  <2> QED
    BY <2>1, <2>2, <2>3, Zenon DEF Next, Begins
<1> QED
  BY <1>1, <1>2 DEF ImageInv

LEMMA TarballStep == TypeInv /\ TarballInv /\ [Next]_vars => TarballInv'
<1> SUFFICES ASSUME TypeInv, TarballInv, [Next]_vars PROVE TarballInv'
  OBVIOUS
<1> USE DEF files, history
<1>1. CASE UNCHANGED vars
  BY <1>1 DEF vars, TarballInv, At
<1>2. ASSUME NEW p \in Proc, OnlyBy(p), UNCHANGED <<tarball, writer, kills>>, ~At(p, "download")
      PROVE  TarballInv'
  <2>1. \A q \in Proc : At(q, "download") => At(q, "download")'
    BY <1>2, Others
  <2> QED
    BY <1>2, <2>1 DEF TarballInv, At
<1>3. ASSUME NEW p \in Proc, Kill(p) PROVE TarballInv'
  BY <1>3 DEF Kill, TypeInv, TarballInv
<1>4. ASSUME NEW p \in Proc, Begins(p) PROVE TarballInv'
  <2>1. At(p, "idle") /\ UNCHANGED <<tarball, writer, kills>> /\ \E r : proc' = [proc EXCEPT ![p] = r]
    BY <1>4, BeginDoes DEF Begin
  <2> QED
    BY <1>2, <2>1, BecomesDoes DEF OnlyBy, At
<1>5. ASSUME NEW p \in Proc, CurlOpens(p) PROVE TarballInv'
  <2>1. writer' = p /\ At(p, "download")'
    BY <1>5, Moves DEF CurlOpens, At
  <2> QED
    BY <2>1 DEF TarballInv, At
<1>6. ASSUME NEW p \in Proc, Download(p) PROVE TarballInv'
  <2>1. CASE writer = p
    BY <1>6, <2>1 DEF Download, TarballInv
  <2>2. CASE writer # p
    <3>1. OnlyBy(p) /\ UNCHANGED <<tarball, writer, kills>>
      BY <1>6, <2>2, Moves DEF Download
    <3>2. At(writer, "download") /\ writer \in Proc => At(writer, "download")'
      BY <2>2, <3>1, Others DEF At
    <3> QED
      BY <3>1, <3>2 DEF TarballInv, At
  <2> QED
    BY <2>1, <2>2
<1>8. ASSUME NEW p \in Proc, CurlFails(p) PROVE TarballInv'
  <2>1. CASE tarball' = "none"
    BY <2>1 DEF TarballInv
  <2>2. CASE At(p, "curl") /\ UNCHANGED <<tarball, writer>>
    BY <1>2, <1>8, <2>2, Moves DEF CurlFails, At
  <2> QED
    BY <1>8, <2>1, <2>2 DEF CurlFails
<1>7. ASSUME NEW p \in Proc, Step(p), ~CurlOpens(p), ~Download(p), ~CurlFails(p) PROVE TarballInv'
  <2>1. UNCHANGED <<tarball, writer, kills>> /\ ~At(p, "download")
    BY <1>7 DEF Step, RemoveStarts, RemoveEnds, Load, BackUp, DropBackup, Dropped, Restore,
                Check, Fetch, Extract, SetUp, Clean, DockerBuild, Pull, MakeDir,
                ContainerCreate, Export, SaveStarts, SaveEnds, RemoveTag, At
  <2>2. OnlyBy(p)
    <3>1. (\E at : Goto(p, at)) \/ proc' = [proc EXCEPT ![p] = Idle]
          \/ Load(p) \/ ContainerCreate(p)
      BY <1>7 DEF Step, RemoveStarts, RemoveEnds, BackUp, DropBackup, Dropped, Restore,
                  Check, Fetch, Extract, SetUp, Clean, DockerBuild, Pull, MakeDir, Export,
                  SaveStarts, SaveEnds, RemoveTag
    <3>2. CASE \E at : Goto(p, at)
      BY <3>2, Moves
    <3>3. CASE proc' = [proc EXCEPT ![p] = Idle]
      BY <3>3, Ends
    <3>4. CASE Load(p) \/ ContainerCreate(p)
      <4>1. DOMAIN proc' = DOMAIN proc /\ \A q \in Proc \ {p} : proc'[q] = proc[q]
        BY <3>4 DEF Load, ContainerCreate, Goto, TypeInv
      <4> QED
        BY <4>1 DEF OnlyBy, TypeInv
    <3> QED
      BY <3>1, <3>2, <3>3, <3>4
  <2> QED
    BY <1>2, <2>1, <2>2
<1> QED
  BY <1>1, <1>3, <1>4, <1>5, <1>6, <1>7, <1>8, Zenon DEF Next, Begins

----------------------------------------------------------------------------
(* Theorems *)

THEOREM AlwaysInv == Spec => []ImageInv
BY InitInv, NextInv, PTL DEF Spec

\* Whatever commands are killed, and wherever: an image that was built is at its
\* path or in the backup until the user asks to remove it, unless two commands
\* changed its directory at once (main.rs:1432-1474).
THEOREM ImagesAreKept == Spec => []ImageNeverLost
<1>1. ImageInv => ImageNeverLost
  BY DEF ImageInv, AloneInv, ImageNeverLost
<1> QED
  BY <1>1, AlwaysInv, PTL

\* What can be read of the metadata names the one build the files come from, and
\* they are all there, unless a removal is under way, was cut short or has failed
\* half-way, or a compose service could not be tagged (image.rs:97, 182-194,
\* 406-411, 606-610).
THEOREM MetadataIsTrue == Spec => []MetadataTells
<1>1. ASSUME ImageInv PROVE MetadataTells
  <2> SUFFICES ASSUME ~raced, dir.meta \notin {"absent", "none", "torn"}
               PROVE  /\ Cardinality(dir.from) = 1
                      /\ "tag" \in faults \/ \A k \in dir.from : dir.meta \in {Recorded(k), "tag", "docker"}
                      /\ dir.whole \/ kills > 0 \/ "removal" \in faults
                         \/ \E p \in Proc : At(p, "removing")
    BY DEF MetadataTells
  <2>1. Tells(dir) /\ Cut(dir, "removing")
    BY <1>1 DEF ImageInv, AloneInv
  <2>2. PICK k : dir.from = {k} /\ ("tag" \in faults \/ dir.meta \in {Recorded(k), "tag", "docker"})
    BY <2>1 DEF Tells
  <2>3. Cardinality(dir.from) = 1
    BY <2>2, FS_Singleton
  <2>4. dir.whole \/ kills > 0 \/ "removal" \in faults \/ \E p \in Proc : At(p, "removing")
    BY <2>1 DEF Cut
  <2> QED
    BY <2>2, <2>3, <2>4
<1> QED
  BY <1>1, AlwaysInv, PTL

\* When all is quiet no update has left its backup behind, unless a command was
\* killed, a tarball could not be extracted or a directory could not be removed
\* (main.rs:1458-1472, image.rs:136-148, 196, 336, 394, 400).
THEOREM BackupsGoBack == Spec => []UpdatesPutBack
<1>1. ASSUME ImageInv PROVE UpdatesPutBack
  <2> SUFFICES ASSUME ~raced, ~Littered, kills = 0, \A p \in Proc : At(p, "idle"), bak # Absent
               PROVE  FALSE
    BY DEF UpdatesPutBack, Littered
  <2>1. PICK p \in Proc : proc[p].update
    BY <1>1 DEF ImageInv, AloneInv
  <2>2. ~proc[p].update
    BY <1>1, Held DEF ImageInv, At, Fits
  <2> QED
    BY <2>1, <2>2
<1> QED
  BY <1>1, AlwaysInv, PTL

\* However many commands find no tarball and download into the one name, in
\* whatever order they open it, end and fail: once no download is going on and
\* none was killed, the tarball is whole or not there (image.rs:105-132).
THEOREM TarballStaysUsable == Spec => []TarballUsable
<1>1. Init => TarballInv
  BY DEF Init, TarballInv
<1>2. ImageInv => TypeInv
  BY DEF ImageInv
<1>3. TarballInv => TarballUsable
  BY DEF TarballInv, TarballUsable
<1> QED
  BY <1>1, <1>2, <1>3, TarballStep, AlwaysInv, PTL DEF Spec
=============================================================================
