---------------------------- MODULE ImageStore -----------------------------
(***************************************************************************)
(* One named image in the image directory, the commands that build,        *)
(* replace, update and remove it, and the tarball they share.  Commands    *)
(* are processes of the user, any number at once, without a lock; each may *)
(* be killed between any two of its steps and leaves what it has done so   *)
(* far.  Docker, curl, tar and the build's virtual machine are external:   *)
(* they succeed or fail, and so does the removal of a directory.           *)
(*                                                                         *)
(* A directory is a record: the sources its files come from, whether it is *)
(* a whole root file system (with bin/), and the source that its metadata  *)
(* names.  The kind of a build is its source:                              *)
(*   create      Alpine tarball, then setup commands in a VM               *)
(*   docker      a Docker image that is pulled                             *)
(*   dockerfile  built and tagged, imported by tag                         *)
(*   bundled     the same from a Dockerfile in a temporary directory       *)
(*   devbuild, compose   a devcontainer, built and tagged                  *)
(*   devimage    a devcontainer that names a Docker image                  *)
(***************************************************************************)
EXTENDS Integers, FiniteSets, TLC

CONSTANTS
  Proc,         \* processes
  Kinds,        \* the builds users ask for
  MaxCommands,  \* bound: commands started
  MaxKills      \* bound: commands killed

ASSUME KindAssumption ==
  Kinds \subseteq {"create", "docker", "dockerfile", "bundled", "devbuild", "compose", "devimage"}

VARIABLES
  dir,       \* image_path(name)
  bak,       \* the same with the extension .bak
  tarball,   \* the cached minirootfs: none, partial or whole
  writer,    \* whose curl opened it last, while it is partial
  tag,       \* the Docker tag redan-build-<name>: what it was built from
  proc,      \* the processes
  started, kills,  \* bounded counters
  raced,     \* history: two commands changed the directory at once, see Races
  faults,    \* history: what failed and was left as it was: "tar" on the
             \* tarball, the "removal" of a directory, a Docker "tag"
  valued     \* history: a good image came to be and nobody asked to remove it

files   == <<dir, bak, tarball, writer, tag>>
history == <<started, kills, raced, faults>>
vars    == <<files, proc, history, valued>>

Absent == [from |-> {}, whole |-> FALSE, meta |-> "absent"]
Empty  == [from |-> {}, whole |-> FALSE, meta |-> "none"]
Idle   == [pc |-> "idle", kind |-> "none", update |-> FALSE, cid |-> "none"]

Exists(d) == d # Absent

\* What remove_dir_all leaves while it goes on and when it fails: any part of
\* the files, with or without the metadata.
Remains(d) == {[d EXCEPT !.whole = w, !.meta = m] : w \in {d.whole, FALSE}, m \in {d.meta, "none"}}

Fault(what) == faults' = faults \cup {what}

\* A whole root file system of one build, and metadata that says which.
Good(d) == d.whole /\ d.meta # "absent" /\ Cardinality(d.from) = 1

\* What ImageSource::* says of a build; "tag" is the import by tag, which is
\* recorded first and then replaced.
Recorded(kind) == IF kind \in {"devbuild", "compose", "devimage"} THEN "devcontainer" ELSE kind

Tagged(kind) == kind \in {"dockerfile", "bundled", "devbuild", "compose"}

\* import_dockerfile and import_devcontainer write the metadata once more.
Outer(kind) == Tagged(kind) \/ kind = "devimage"

\* Where a build goes on behind import_docker_inner, when that has succeeded
\* and when it has failed.
AfterInner(kind)   == IF Tagged(kind) THEN "rmi" ELSE IF Outer(kind) THEN "outer" ELSE "built"
AfterFailure(kind) == IF Tagged(kind) THEN "rmiFail" ELSE "failed"

At(p, at) == proc[p].pc = at

Goto(p, at) == proc' = [proc EXCEPT ![p].pc = at]

\* Two commands that change the same directory: named here so that the
\* properties can say where the absence of a lock shows.
Working(q) == IF proc[q].update THEN proc[q].pc \notin {"load", "backup"}
              ELSE proc[q].pc \notin {"idle", "remove", "build", "check", "rmiFail", "failed", "built"}
Races(p) == \E q \in Proc \ {p} : Working(q)

----------------------------------------------------------------------------
(* Commands *)

Begin(p, record) ==
  /\ At(p, "idle") /\ started < MaxCommands
  /\ started' = started + 1
  /\ proc' = [proc EXCEPT ![p] = record]
  /\ UNCHANGED <<files, kills, raced, faults, valued>>

First(kind) == IF Tagged(kind) THEN "build" ELSE "check"

\* image create, image import, and the build of an agent's image.
Build(p, kind) == Begin(p, [Idle EXCEPT !.pc = First(kind), !.kind = kind])

\* image remove, and image import --force, which goes on with its build.
Remove(p, kind) ==
  /\ Exists(dir)
  /\ Begin(p, [Idle EXCEPT !.pc = "remove", !.kind = kind])

Update(p) ==
  /\ Exists(dir)
  /\ Begin(p, [Idle EXCEPT !.pc = "load", !.update = TRUE])

\* fs::remove_dir_all, in two steps; a directory that is gone is an error.  An
\* error ends the command, wherever the removal stopped.
RemoveStarts(p) ==
  /\ At(p, "remove")
  /\ valued' = FALSE
  /\ raced' = (raced \/ Races(p))
  /\ IF Exists(dir)
     THEN dir' \in Remains(dir) /\ Goto(p, "removing")
     ELSE proc' = [proc EXCEPT ![p] = Idle] /\ UNCHANGED dir
  /\ UNCHANGED <<bak, tarball, writer, tag, started, kills, faults>>

RemoveEnds(p) ==
  /\ At(p, "removing")
  /\ \/ /\ dir' = Absent /\ UNCHANGED faults
        /\ IF proc[p].kind = "none"
           THEN proc' = [proc EXCEPT ![p] = Idle]
           ELSE Goto(p, First(proc[p].kind))
     \/ Fault("removal") /\ proc' = [proc EXCEPT ![p] = Idle] /\ UNCHANGED dir
  /\ UNCHANGED <<bak, tarball, writer, tag, started, kills, raced, valued>>

----------------------------------------------------------------------------
(* update_image *)

\* What a rebuild starts from. Metadata that is missing or torn ends the
\* command before it touched anything.
KindOf(meta) == CASE meta = "devcontainer" -> Kinds \cap {"devbuild", "compose", "devimage"}
                  [] meta \in {"none", "torn"} -> {}
                  [] OTHER -> {meta}

Load(p) ==
  /\ At(p, "load")
  /\ IF ~Exists(dir) \/ KindOf(dir.meta) = {}
     THEN proc' = [proc EXCEPT ![p] = Idle]
     ELSE \E k \in KindOf(dir.meta) : proc' = [proc EXCEPT ![p].pc = "backup", ![p].kind = k]
  /\ UNCHANGED <<files, history, valued>>

\* rename refuses to replace a directory that is not empty.
BackUp(p) ==
  /\ At(p, "backup")
  /\ raced' = (raced \/ Races(p))
  /\ IF Exists(dir) /\ bak \in {Absent, Empty}
     THEN /\ bak' = dir /\ dir' = Absent
          /\ Goto(p, First(proc[p].kind))
     ELSE proc' = [proc EXCEPT ![p] = Idle] /\ UNCHANGED <<dir, bak>>
  /\ UNCHANGED <<tarball, writer, tag, started, kills, faults, valued>>

\* The build is done: an update drops its backup, and pays no heed when that
\* fails.
DropBackup(p) ==
  /\ At(p, "built")
  /\ IF proc[p].update
     THEN bak' \in (IF Exists(bak) THEN Remains(bak) ELSE {bak}) /\ Goto(p, "dropping")
     ELSE proc' = [proc EXCEPT ![p] = Idle] /\ UNCHANGED bak
  /\ UNCHANGED <<dir, tarball, writer, tag, history, valued>>

Dropped(p) ==
  /\ At(p, "dropping")
  /\ \/ bak' = Absent /\ UNCHANGED faults
     \/ Fault("removal") /\ UNCHANGED bak
  /\ proc' = [proc EXCEPT ![p] = Idle]
  /\ UNCHANGED <<dir, tarball, writer, tag, started, kills, raced, valued>>

\* Mutant: a failed update leaves its backup.
Restore_Forgets(p) ==
  /\ At(p, "failed")
  /\ proc' = [proc EXCEPT ![p] = Idle]
  /\ UNCHANGED <<files, history, valued>>

\* The build failed: an update renames its backup back, which fails when the
\* build has left a directory with something in it.
Restore(p) ==
  /\ At(p, "failed")
  /\ IF proc[p].update /\ dir \in {Absent, Empty} /\ Exists(bak)
     THEN dir' = bak /\ bak' = Absent
     ELSE UNCHANGED <<dir, bak>>
  /\ raced' = (raced \/ (proc[p].update /\ Races(p)))
  /\ proc' = [proc EXCEPT ![p] = Idle]
  /\ UNCHANGED <<tarball, writer, tag, started, kills, faults, valued>>

----------------------------------------------------------------------------
(* create *)

\* Mutant: a build that finds the image there cleans up behind itself.
Check_CleansUp(p) ==
  /\ At(p, "check")
  /\ Goto(p, IF Exists(dir) THEN "clean"
             ELSE IF proc[p].kind = "create" THEN "fetch"
             ELSE IF proc[p].kind \in {"docker", "devimage", "tag"} THEN "pull" ELSE "mkdir")
  /\ raced' = (raced \/ (~Exists(dir) /\ Races(p)))
  /\ UNCHANGED <<files, started, kills, faults, valued>>

\* Every build looks for the directory first, and only then.
Check(p) ==
  /\ At(p, "check")
  /\ Goto(p, IF Exists(dir) THEN AfterFailure(proc[p].kind)
             ELSE IF proc[p].kind = "create" THEN "fetch"
             ELSE IF proc[p].kind \in {"docker", "devimage", "tag"} THEN "pull" ELSE "mkdir")
  /\ raced' = (raced \/ (~Exists(dir) /\ Races(p)))
  /\ UNCHANGED <<files, started, kills, faults, valued>>

\* ensure_base_cached: a file of that name counts as cached.
Fetch(p) ==
  /\ At(p, "fetch")
  /\ Goto(p, IF tarball = "none" THEN "curl" ELSE "extract")
  /\ UNCHANGED <<files, history, valued>>

\* curl opens the file of that name with the first byte it gets, and empties
\* what another one has begun or finished since the look for it.
CurlOpens(p) ==
  /\ At(p, "curl")
  /\ tarball' = "partial" /\ writer' = p
  /\ Goto(p, "download")
  /\ UNCHANGED <<dir, bak, tag, history, valued>>

\* curl ends well: the file is whole if nobody has emptied it since, and one
\* that another removed stays removed.
Download(p) ==
  /\ At(p, "download")
  /\ IF writer = p THEN tarball' = "whole" /\ writer' = "none" ELSE UNCHANGED <<tarball, writer>>
  /\ Goto(p, "extract")
  /\ UNCHANGED <<dir, bak, tag, history, valued>>

\* Mutant: a failed download is left where it is.
CurlFails_KeepsPartial(p) ==
  /\ proc[p].pc \in {"curl", "download"}
  /\ UNCHANGED <<tarball, writer>>
  /\ Goto(p, "failed")
  /\ UNCHANGED <<dir, bak, tag, history, valued>>

\* curl fails, before or behind its first byte: the file of that name goes,
\* whoever's it is -- or curl cannot be started at all.
CurlFails(p) ==
  /\ proc[p].pc \in {"curl", "download"}
  /\ \/ tarball' = "none" /\ writer' = "none"
     \/ At(p, "curl") /\ UNCHANGED <<tarball, writer>>
  /\ Goto(p, "failed")
  /\ UNCHANGED <<dir, bak, tag, history, valued>>

\* What a build adds to the directory.
Plus(d, kind, whole) == [from |-> d.from \cup {kind}, whole |-> whole,
                         meta |-> IF Exists(d) THEN d.meta ELSE "none"]

\* fs::create_dir_all
Made(d) == IF Exists(d) THEN d ELSE Empty

\* tar fails on a tarball that is not whole, and then nothing is cleaned up;
\* where it could not start or found no tarball there is nothing but the
\* directory.
Extract(p) ==
  /\ At(p, "extract")
  /\ \/ tarball = "whole" /\ dir' = Plus(dir, "create", FALSE) /\ Goto(p, "vm") /\ UNCHANGED faults
     \/ tarball # "none" /\ dir' = Plus(dir, "create", FALSE) /\ Goto(p, "failed") /\ Fault("tar")
     \/ dir' = Made(dir) /\ Goto(p, "failed") /\ UNCHANGED faults
  /\ UNCHANGED <<bak, tarball, writer, tag, started, kills, raced, valued>>

\* build_image: the sentinel says whether the setup ran to its end.
SetUp(p) ==
  /\ At(p, "vm")
  /\ \/ Exists(dir) /\ dir' = [dir EXCEPT !.whole = TRUE] /\ Goto(p, "meta")
     \/ Goto(p, "clean") /\ UNCHANGED dir
  /\ UNCHANGED <<bak, tarball, writer, tag, history, valued>>

\* fs::remove_dir_all behind a failed build, whose own failure is ignored.
Clean(p) ==
  /\ At(p, "clean")
  /\ \/ dir' = Absent /\ UNCHANGED faults
     \/ Exists(dir) /\ dir' \in Remains(dir) /\ Fault("removal")
  /\ Goto(p, AfterFailure(proc[p].kind))
  /\ UNCHANGED <<bak, tarball, writer, tag, started, kills, raced, valued>>

----------------------------------------------------------------------------
(* import_docker_inner and the commands around it *)

\* docker build of a Dockerfile, of a devcontainer's or of a compose service;
\* the one of a bundled image is gone when update looks for it again. The tag
\* has the image's name, not the process's.  What compose built is tagged in a
\* call of its own, whose failure is ignored.
DockerBuild(p) ==
  /\ At(p, "build")
  /\ \/ /\ proc[p].kind = "bundled" => ~proc[p].update
        /\ tag' = proc[p].kind /\ Goto(p, "check")
        /\ raced' = (raced \/ \E q \in Proc \ {p} : Tagged(proc[q].kind) /\
                                 proc[q].pc \in {"check", "mkdir", "ccreate"})
        /\ UNCHANGED faults
     \/ proc[p].kind = "compose" /\ Goto(p, "check") /\ Fault("tag") /\ UNCHANGED <<tag, raced>>
     \/ Goto(p, "failed") /\ UNCHANGED <<tag, raced, faults>>
  /\ UNCHANGED <<dir, bak, tarball, writer, started, kills, valued>>

\* An import by tag finds nothing to pull once the tag is removed.
Pull(p) ==
  /\ At(p, "pull")
  /\ \/ proc[p].kind # "tag" /\ Goto(p, "mkdir")
     \/ Goto(p, "failed")
  /\ UNCHANGED <<files, history, valued>>

\* Mutant: the metadata is written with the directory, before the files.
MakeDir_MetaFirst(p) ==
  /\ At(p, "mkdir")
  /\ dir' = IF Exists(dir) THEN dir ELSE [Empty EXCEPT !.meta = Recorded(proc[p].kind)]
  /\ Goto(p, "ccreate")
  /\ UNCHANGED <<bak, tarball, writer, tag, history, valued>>

MakeDir(p) ==
  /\ At(p, "mkdir")
  /\ dir' = Made(dir)
  /\ Goto(p, "ccreate")
  /\ UNCHANGED <<bak, tarball, writer, tag, history, valued>>

\* docker create of the tag, whoever set it last, or of the image pulled. When
\* docker cannot be started, the empty directory stays.
ContainerCreate(p) ==
  /\ At(p, "ccreate")
  /\ LET image == IF Tagged(proc[p].kind) THEN tag ELSE proc[p].kind
     IN  \/ image # "none" /\ proc' = [proc EXCEPT ![p].pc = "export", ![p].cid = image]
         \/ Goto(p, "clean")
         \/ Goto(p, AfterFailure(proc[p].kind))
  /\ UNCHANGED <<files, history, valued>>

\* docker export into tar, and the look for bin/: what arrived stays until the
\* clean-up.
Export(p) ==
  /\ At(p, "export")
  /\ \/ dir' = Plus(dir, proc[p].cid, TRUE) /\ Goto(p, "meta")
     \/ dir' = Plus(dir, proc[p].cid, FALSE) /\ Goto(p, "clean")
  /\ UNCHANGED <<bak, tarball, writer, tag, history, valued>>

\* ImageMeta::save writes the file in place; a save that fails is a warning.
SaveStarts(p) ==
  /\ proc[p].pc \in {"meta", "outer"}
  /\ \/ /\ Exists(dir)
        /\ dir' = [dir EXCEPT !.meta = "torn"]
        /\ Goto(p, IF At(p, "meta") THEN "metaWrite" ELSE "outerWrite")
     \/ /\ Goto(p, IF At(p, "meta") THEN AfterInner(proc[p].kind) ELSE "built")
        /\ UNCHANGED dir
  /\ valued' = (valued \/ Good(dir'))
  /\ UNCHANGED <<bak, tarball, writer, tag, history>>

\* What import_docker_inner records is the Docker image it was given, and the
\* metadata of the command around it replaces that.
SaveEnds(p) ==
  /\ proc[p].pc \in {"metaWrite", "outerWrite"}
  /\ LET k     == proc[p].kind
         inner == At(p, "metaWrite")
     IN  /\ dir' = IF ~Exists(dir) THEN dir
                   ELSE [dir EXCEPT !.meta = IF ~(inner /\ Outer(k)) THEN Recorded(k)
                                             ELSE IF Tagged(k) THEN "tag" ELSE "docker"]
         /\ Goto(p, IF inner THEN AfterInner(k) ELSE "built")
  /\ UNCHANGED <<bak, tarball, writer, tag, history, valued>>

\* docker rmi of the tag, whether the import has succeeded or not; when it
\* fails, the tag stays.
RemoveTag(p) ==
  /\ proc[p].pc \in {"rmi", "rmiFail"}
  /\ tag' \in {tag, "none"}
  /\ Goto(p, IF At(p, "rmi") THEN "outer" ELSE "failed")
  /\ UNCHANGED <<dir, bak, tarball, writer, history, valued>>

\* A user's interrupt, a crash, the end of the terminal.
Kill(p) ==
  /\ proc[p].pc # "idle" /\ kills < MaxKills
  /\ kills' = kills + 1
  /\ proc' = [proc EXCEPT ![p] = Idle]
  /\ UNCHANGED <<files, started, raced, faults, valued>>

----------------------------------------------------------------------------
Init ==
  /\ dir = Absent /\ bak = Absent /\ tarball = "none" /\ writer = "none" /\ tag = "none"
  /\ proc = [p \in Proc |-> Idle]
  /\ started = 0 /\ kills = 0
  /\ raced = FALSE /\ faults = {} /\ valued = FALSE

Step(p) ==
  \/ RemoveStarts(p) \/ RemoveEnds(p)
  \/ Load(p) \/ BackUp(p) \/ DropBackup(p) \/ Dropped(p) \/ Restore(p)
  \/ Check(p) \/ Fetch(p) \/ CurlOpens(p) \/ Download(p) \/ CurlFails(p) \/ Extract(p) \/ SetUp(p) \/ Clean(p)
  \/ DockerBuild(p) \/ Pull(p) \/ MakeDir(p) \/ ContainerCreate(p) \/ Export(p)
  \/ SaveStarts(p) \/ SaveEnds(p) \/ RemoveTag(p)

Next == \E p \in Proc :
  \/ Step(p) \/ Kill(p) \/ Update(p)
  \/ \E k \in Kinds : Build(p, k)
  \/ \E k \in Kinds \cup {"none"} : Remove(p, k)

Spec == Init /\ [][Next]_vars

----------------------------------------------------------------------------
(* What must hold *)

\* An image that was built is not lost to an update, to a build that finds it
\* there, or to the death of either: it, or what replaces it, is at its path or
\* in the backup, until the user asks to remove it (main.rs:1432-1474).
ImageNeverLost == valued /\ ~raced => Good(dir) \/ Good(bak)

\* Metadata is the last thing a build writes: what can be read names the
\* source the files are from, and they are all there.  Named exceptions: a
\* removal that is on its way, was killed or has failed half-way, and a compose
\* service that could not be tagged while the tag of another build was still
\* there (image.rs:97, 182-194, 406-411, 606-610).
MetadataTells ==
  ~raced /\ dir.meta \notin {"absent", "none", "torn"} =>
    /\ Cardinality(dir.from) = 1
    /\ "tag" \in faults \/ \A k \in dir.from : dir.meta \in {Recorded(k), "tag", "docker"}
    /\ dir.whole \/ kills > 0 \/ "removal" \in faults \/ \E p \in Proc : At(p, "removing")

\* Whoever finds the tarball may use it: once no download is going on it is
\* whole or not there, although several commands may have found none, emptied
\* each other's and removed it, in any order.  A killed download is the named
\* exception (image.rs:105-132).
TarballUsable ==
  kills = 0 /\ (\A p \in Proc : ~At(p, "download")) => tarball # "partial"

\* A failed update leaves nothing behind that makes the next one fail: when all
\* is quiet there is no backup.  Named exceptions: a killed command, a tarball
\* that cannot be extracted, whose remains keep the backup from coming back, and
\* a removal that failed -- of the backup, or of what a failed build left in its
\* place (main.rs:1458-1472, image.rs:136-148, 196, 336, 394, 400).
UpdatesPutBack ==
  ~raced /\ faults \cap {"tar", "removal"} = {} /\ kills = 0 /\ (\A p \in Proc : At(p, "idle")) => bak = Absent
=============================================================================
