------------------------------ MODULE Launch --------------------------------
(***************************************************************************)
(* redan exec and redan run from the command line to the end of the VM:    *)
(* exec_command and run_command, launch, and the course of cmd::exec::run  *)
(* with what it writes into the root file system it boots.  Launches are   *)
(* processes; what they share is the image directory, the trust in the     *)
(* project's file, and the root file systems: a guest is served from the   *)
(* directory itself, so what another launch writes there it sees.          *)
(***************************************************************************)
EXTENDS ConfigLayers, FiniteSets

CONSTANTS
  Proc,       \* launches
  CommandLines,  \* what users type: [cmd, agent, extra, detach, browser, discover, scalar, ...]
  Machines,   \* hosts: [vars, files, vault, git, claude, tty, project, user]
  OwnRoots,   \* root file systems named by their path, none an agent's image
  Cdp         \* the port of Chrome's debugger

ASSUME LaunchAssumption ==
  /\ \A c \in CommandLines :
       /\ DOMAIN c = {"cmd", "agent", "extra", "detach", "browser", "discover", "scalar", "allow",
                      "forward", "secrets", "mounts"}
       /\ IsLayer(c) /\ c.scalar["rootfs"] \in OwnRoots \cup {Unset}
  /\ \A m \in Machines : \A file \in {m.project, m.user} :
       file # NoKeys => IsFile(file) /\ file.scalar["rootfs"] \in OwnRoots \cup {Unset}
  /\ Cdp \in Int

VARIABLES
  machine,  \* the host, as it was when all began
  trusted,  \* the project's file is in the trust store
  images,   \* image directories that exist
  disk,     \* per root file system: the CA certificate, the policy and credentials
  proc      \* the launches

vars == <<machine, trusted, images, disk, proc>>

AgentImages == {Def(Agents[i]).image : i \in DOMAIN Agents}
Roots == AgentImages \cup OwnRoots
NoOne == "no one"
Running == {"session", "ca", "specs", "policy", "boot", "forwards", "browser", "proxy",
            "shutdown", "finish"}

Goto(p, at) == [proc EXCEPT ![p].pc = at]

\* process::exit: nothing is put back. The VM child dies with its parent.
Exit(p) == proc' = [proc EXCEPT ![p].pc = "failed",
                                ![p].vm = IF @ = "on" THEN "killed" ELSE @]

\* A user types a command; both begin with load_config.
Start(p) == \E cli \in CommandLines :
  /\ proc[p].pc = "idle"
  /\ proc' = [proc EXCEPT ![p].pc = "load", ![p].cli = cli]
  /\ UNCHANGED <<machine, trusted, images, disk>>

----------------------------------------------------------------------------
(* load_config *)

\* discover: the project's file, or else the user's own, which is trusted.
File == IF machine.project # NoKeys THEN machine.project ELSE machine.user

Decide(needsTrust, alreadyTrusted, interactive) ==
  IF ~needsTrust \/ alreadyTrusted THEN "target"
  ELSE IF interactive THEN "prompt" ELSE "skip"

Load(p) ==
  /\ proc[p].pc = "load"
  /\ LET to == Decide(machine.project # NoKeys /\ Reaches(machine.project), trusted, machine.tty)
     IN  IF to = "skip" THEN Exit(p) ELSE proc' = [Goto(p, to) EXCEPT ![p].file = File]
  /\ UNCHANGED <<machine, trusted, images, disk>>

\* The user looks at what the file asks for, and says yes or no. A yes that
\* cannot be recorded counts for this launch.
Confirm(p) ==
  /\ proc[p].pc = "prompt"
  /\ \/ trusted' \in {trusted, TRUE} /\ proc' = [Goto(p, "target") EXCEPT ![p].agreed = TRUE]
     \/ Exit(p) /\ UNCHANGED trusted
  /\ UNCHANGED <<machine, images, disk>>

----------------------------------------------------------------------------
(* exec_command, run_command *)

\* Which agent's profile is under the file, if any: run names one or has it
\* detected; exec detects one only when there is no file and no explicit flag.
Wanted(p) ==
  LET cli == proc[p].cli
  IN  IF cli.cmd = "run" /\ cli.agent # Unset
      THEN {a \in ToSet(Agents) : a = cli.agent /\ Authenticated(a, machine)}
      ELSE Detected(machine)

Bare(p) == proc[p].cli.cmd = "exec" /\ (proc[p].file # NoKeys \/ Explicit(proc[p].cli))

Target(p) ==
  /\ proc[p].pc = "target"
  /\ IF Bare(p)
     THEN proc' = [Goto(p, "merge") EXCEPT
                     ![p].cfg = IF proc[p].file = NoKeys THEN Default ELSE proc[p].file]
     ELSE IF Wanted(p) = {} THEN Exit(p)
     ELSE \E a \in Wanted(p) :
       LET profile == Profile(a, machine)
       IN  proc' = [Goto(p, IF Def(a).image \in images THEN "merge" ELSE "build") EXCEPT
                      ![p].agent = a, ![p].stage = profile.stage,
                      ![p].cfg = IF proc[p].file = NoKeys THEN profile.config
                                 ELSE Overlay(profile.config, proc[p].file)]
  /\ UNCHANGED <<machine, trusted, images, disk>>

\* build_image_if_needed: whether it is needed was seen when the agent was
\* looked up, and a build refuses an image that is there by now.
BuildImage(p) ==
  /\ proc[p].pc = "build"
  /\ LET image == Def(proc[p].agent).image
     IN  \/ /\ image \notin images
            /\ images' = images \cup {image} /\ proc' = Goto(p, "merge")
         \/ Exit(p) /\ UNCHANGED images
  /\ UNCHANGED <<machine, trusted, disk>>

\* run appends what follows -- to the config's command, and launches with both.
Command(cli, cfg, exec) == IF cli.extra = Unset THEN exec.scalar["command"]
                           ELSE <<cfg.scalar["command"], cli.extra>>

\* An image is preferred to a root file system, whoever asked for which.
Root(exec) == IF exec.scalar["image"] # Unset THEN exec.scalar["image"] ELSE exec.scalar["rootfs"]

\* An image must be there; a directory is taken as it is named.
MergeLayers(p) ==
  /\ proc[p].pc = "merge"
  /\ LET layers == Merge(proc[p].cli, proc[p].cfg, machine.claude)
         exec == [layers EXCEPT
                    !.scalar["command"] = Command(proc[p].cli, proc[p].cfg, layers)]
     IN  IF Root(exec) \in (IF exec.scalar["image"] # Unset THEN images ELSE OwnRoots)
         THEN proc' = [Goto(p, "stage") EXCEPT ![p].exec = exec, ![p].root = Root(exec)]
         ELSE Exit(p)
  /\ UNCHANGED <<machine, trusted, images, disk>>

\* Credential files are copied into the root file system and stay there, those
\* too that came before one that failed.
Stage(p) ==
  /\ proc[p].pc = "stage"
  /\ \E done \in SUBSET proc[p].stage :
       /\ disk' = [disk EXCEPT ![proc[p].root].staged = @ \cup done]
       /\ \/ done = proc[p].stage /\ proc' = Goto(p, "mode")
          \/ proc[p].stage # {} /\ Exit(p)
  /\ UNCHANGED <<machine, trusted, images>>

\* What the daemon is given: all but the terminal.
DaemonConfig(exec) == [exec EXCEPT !.scalar["interactive"] = "no"]

Detach(p) ==
  /\ proc[p].pc = "mode"
  /\ proc' = [Goto(p, "session") EXCEPT
                ![p].exec = IF proc[p].cli.detach THEN DaemonConfig(@) ELSE @]
  /\ UNCHANGED <<machine, trusted, images, disk>>

----------------------------------------------------------------------------
(* cmd::exec::run *)

StartSession(p) ==
  /\ proc[p].pc = "session"
  /\ proc' = [Goto(p, "ca") EXCEPT ![p].status = "running"]
  /\ UNCHANGED <<machine, trusted, images, disk>>

\* p goes on, and the launches on its root file system that were past this
\* step have what it wrote before their eyes.
Overrun(p, from, to) == [q \in Proc |->
  IF q # p /\ proc[q].root = proc[p].root /\ proc[q].pc \in Running \ from
  THEN [proc[q] EXCEPT !.overrun = TRUE] ELSE Goto(p, to)[q]]

\* Mutant: a certificate that is there is left.
InstallCa_Once(p) ==
  /\ proc[p].pc = "ca"
  /\ \/ /\ disk' = [disk EXCEPT ![proc[p].root].ca = IF @ = NoOne THEN p ELSE @]
        /\ proc' = Overrun(p, {"session", "ca"}, "specs")
     \/ Exit(p) /\ UNCHANGED disk
  /\ UNCHANGED <<machine, trusted, images>>

\* install_ca_cert replaces the certificate, a running guest's too. When it
\* fails it has left the old one, none that is whole, or its own.
InstallCa(p) ==
  /\ proc[p].pc = "ca"
  /\ \/ /\ disk' = [disk EXCEPT ![proc[p].root].ca = p]
        /\ proc' = Overrun(p, {"session", "ca"}, "specs")
     \/ /\ \E left \in {NoOne, p} : disk' = [disk EXCEPT ![proc[p].root].ca = left]
        /\ proc' = Overrun(p, {"session", "ca"}, "failed")
     \/ Exit(p) /\ UNCHANGED disk
  /\ UNCHANGED <<machine, trusted, images>>

\* Secrets are resolved, host names and mounts looked at, the list is made.
ParseSpecs(p) ==
  /\ proc[p].pc = "specs"
  /\ IF SpecsValid(proc[p].exec, machine)
     THEN proc' = [Goto(p, "policy") EXCEPT
                     ![p].allowed = AllowedHosts(proc[p].exec.allow, proc[p].exec.secrets)]
     ELSE Exit(p)
  /\ UNCHANGED <<machine, trusted, images, disk>>

\* write_guest_policy. Its errors are not looked at: without the directory the
\* old policy is left, and of a write that fails whatever part there is.
Torn == [network |-> "torn", hosts |-> {}]

WritePolicy(p) ==
  /\ proc[p].pc = "policy"
  /\ LET written == Overrun(p, {"session", "ca", "specs", "policy"}, "boot")
     IN  \/ /\ disk' = [disk EXCEPT ![proc[p].root].policy = proc[p].allowed]
            /\ proc' = written
         \/ /\ disk' = [disk EXCEPT ![proc[p].root].policy = Torn]
            /\ proc' = [written EXCEPT ![p].unwritten = TRUE]
         \/ /\ proc' = [Goto(p, "boot") EXCEPT ![p].unwritten = TRUE]
            /\ UNCHANGED disk
  /\ UNCHANGED <<machine, trusted, images>>

\* save_terminal, Vm::boot. libkrun makes the terminal raw.
Boot(p) ==
  /\ proc[p].pc = "boot"
  /\ \/ proc' = [Goto(p, "forwards") EXCEPT ![p].vm = "on"]
     \/ Exit(p)
  /\ UNCHANGED <<machine, trusted, images, disk>>

\* A guest may end at any time; libkrun's observers put the terminal back.
GuestExits(p) ==
  /\ proc[p].vm = "on"
  /\ proc' = [proc EXCEPT ![p].vm = "gone"]
  /\ UNCHANGED <<machine, trusted, images, disk>>

\* The forwards are parsed behind the boot.
ParseForwards(p) ==
  /\ proc[p].pc = "forwards"
  /\ IF ForwardsValid(proc[p].exec.forward)
     THEN proc' = Goto(p, IF proc[p].cli.browser THEN "browser" ELSE "proxy")
     ELSE Exit(p)
  /\ UNCHANGED <<machine, trusted, images, disk>>

\* Browser::launch, and the forward to its port.
LaunchBrowser(p) ==
  /\ proc[p].pc = "browser"
  /\ LET fs == proc[p].exec.forward
         taken == {fs[i] : i \in {j \in DOMAIN fs : fs[j].guest = Cdp}}
         cdp == [guest |-> Cdp, host |-> Cdp]
     IN  \/ taken \subseteq {cdp} /\ proc' = [Goto(p, "proxy") EXCEPT
                                  ![p].exec.forward = IF taken = {} THEN Append(fs, cdp) ELSE fs]
         \/ Exit(p)
  /\ UNCHANGED <<machine, trusted, images, disk>>

\* proxy::run returns when the guest is gone or the session's time is up.
ProxyEnds(p) ==
  /\ proc[p].pc = "proxy"
  /\ proc' = Goto(p, "shutdown")
  /\ UNCHANGED <<machine, trusted, images, disk>>

Shutdown(p) ==
  /\ proc[p].pc = "shutdown"
  /\ proc' = [Goto(p, "finish") EXCEPT ![p].vm = IF @ = "on" THEN "killed" ELSE @]
  /\ UNCHANGED <<machine, trusted, images, disk>>

Finish(p) ==
  /\ proc[p].pc = "finish"
  /\ proc' = [Goto(p, "done") EXCEPT ![p].status = "final"]
  /\ UNCHANGED <<machine, trusted, images, disk>>

----------------------------------------------------------------------------
Idle == [pc |-> "idle", cli |-> NoKeys, file |-> NoKeys, agreed |-> FALSE, cfg |-> Default,
         agent |-> Unset, stage |-> {}, exec |-> NoKeys, root |-> Unset, allowed |-> Listed({}),
         unwritten |-> FALSE, status |-> "none", vm |-> "none", overrun |-> FALSE]

Init ==
  /\ machine \in Machines /\ trusted = FALSE
  /\ images \in SUBSET AgentImages
  /\ disk = [r \in Roots |-> [ca |-> NoOne, policy |-> Listed({}), staged |-> {}]]
  /\ proc = [p \in Proc |-> Idle]

Next == \E p \in Proc :
  \/ Start(p) \/ Load(p) \/ Confirm(p) \/ Target(p) \/ BuildImage(p) \/ MergeLayers(p)
  \/ Stage(p) \/ Detach(p) \/ StartSession(p) \/ InstallCa(p) \/ ParseSpecs(p)
  \/ WritePolicy(p) \/ Boot(p) \/ GuestExits(p) \/ ParseForwards(p) \/ LaunchBrowser(p)
  \/ ProxyEnds(p) \/ Shutdown(p) \/ Finish(p)

Spec == Init /\ [][Next]_vars

----------------------------------------------------------------------------
(* What must hold *)

\* An entry whose text says what the entry says: the colon of a host, or an
\* equals sign in a name, would be taken for a separator; so would a colon in a
\* mount, and a target "ro".
ReadsBack(name, s) == "=" \notin ToSet(name) /\ Colon \notin ToSet(s.hosts)
MountReadsBack(m) == Colon \notin ToSet(m.source) \cup ToSet(m.target) /\ m.target # <<"ro">>

\* The layers under the command line, each empty when there is none.
FileOf(p)  == IF proc[p].file = NoKeys THEN Default ELSE proc[p].file
AgentOf(p) == IF proc[p].agent = Unset THEN Default ELSE Profile(proc[p].agent, machine).config

\* What a project's file takes from the host comes to nothing without trust: of
\* a file that is not in the store, and that nobody agreed to at this launch,
\* no setting, forward, secret or mount that docs/security-model.md lists as
\* reaching the host is in effect in the session -- after the merge, and after
\* the specs were formatted and parsed again (trust.rs:57-121,
\* main.rs:945-949, config.rs:78-103, cmd/exec.rs:465-563).  Named exception:
\* entries that do not read back.
HostReachTrusted == \A p \in Proc :
  proc[p].pc \in Running \cup {"stage", "mode"} /\ proc[p].file = machine.project
    /\ machine.project # NoKeys /\ ~trusted /\ ~proc[p].agreed =>
      LET exec  == proc[p].exec
          cli   == proc[p].cli
          file  == machine.project
          blind == {SecretSpec(n, file.secrets[n]) :
                      n \in {m \in DOMAIN file.secrets : ~ReadsBack(m, file.secrets[m])}}
          gone  == {MountSpec(file.mount[k]) :
                      k \in {j \in DOMAIN file.mount : ~MountReadsBack(file.mount[j])}}
      IN  /\ \A f \in {"rootfs", "auditLog"} : exec.scalar[f] = cli.scalar[f]
          /\ ToSet(exec.forward) \subseteq ToSet(cli.forward) \cup {[guest |-> Cdp, host |-> Cdp]}
          /\ \A s \in exec.secrets : FromHost(ParseSecret(s).value) =>
               s \in cli.secrets \cup SecretSpecs(AgentOf(p)) \cup blind
          /\ \A m \in exec.mounts : ParseMount(m).source \in OutOfTree =>
               m \in cli.mounts \cup gone

\* The layer that decides a scalar: the strongest that sets it.
Strongest(f, layers) ==
  LET set == {i \in DOMAIN layers : layers[i].scalar[f] # Unset}
  IN  IF set = {} THEN Unset ELSE layers[CHOOSE i \in set : \A j \in set : i <= j].scalar[f]

\* The entries of two maps, those of the top before the base's under their keys.
Entries(top, base) == {<<k, top[k]>> : k \in DOMAIN top}
                      \cup {<<k, base[k]>> : k \in DOMAIN base \ DOMAIN top}

\* A session is what its layers say, whichever way it came: command line over
\* file over agent for each setting -- a terminal when any of them asks for one,
\* but for the daemon --, and for each key of secrets, mounts and environment;
\* what is parsed of a secret or mount is what was configured; every forward,
\* secret and mount any of them lists and no other; every host allowed exactly
\* when one of them says so, or else those named and those of the secrets
\* (main.rs:735-771, 963-1058, config.rs:78-140, cmd/exec.rs:111-215).  Named
\* exceptions: an image of a weaker layer is taken before a --rootfs, and
\* entries that do not read back are parsed as something else.
SessionIsTheMerge == \A p \in Proc :
  proc[p].pc \in {"boot", "forwards", "browser", "proxy"} =>
    LET exec    == proc[p].exec
        cli     == proc[p].cli
        below   == <<FileOf(p), AgentOf(p)>>
        layers  == <<cli, FileOf(p), AgentOf(p)>>
        secrets == {e \in Entries(FileOf(p).secrets, AgentOf(p).secrets) : e[2].hosts # <<>>}
        mounts  == {e[2] : e \in Entries(FileOf(p).mount, AgentOf(p).mount)}
        hosts   == machine.claude \cup UNION {layers[i].allow : i \in DOMAIN layers}
        ports   == UNION {ToSet(layers[i].forward) : i \in DOMAIN layers}
        image   == Strongest("image", layers)
    IN  /\ \A f \in {"image", "timeout", "auditLog"} : exec.scalar[f] = Strongest(f, layers)
        /\ exec.scalar["command"] = IF cli.extra = Unset THEN Strongest("command", layers)
                                    ELSE <<Strongest("command", below), cli.extra>>
        /\ exec.scalar["interactive"] = "yes" <=>
             ~cli.detach /\ "yes" \in {cli.scalar["interactive"], Strongest("interactive", below)}
        /\ proc[p].root = IF image # Unset THEN image ELSE Strongest("rootfs", layers)
        /\ Entries(exec.env, NoKeys) = Entries(FileOf(p).env, AgentOf(p).env)
        /\ ports \subseteq ToSet(exec.forward)
        /\ ToSet(exec.forward) \subseteq ports \cup {[guest |-> Cdp, host |-> Cdp]}
        /\ exec.secrets = cli.secrets \cup {SecretSpec(e[1], e[2]) : e \in secrets}
        /\ exec.mounts = cli.mounts \cup {MountSpec(m) : m \in mounts}
        /\ \A e \in secrets : ReadsBack(e[1], e[2]) => ParseSecret(SecretSpec(e[1], e[2]))
             = [name |-> e[1], value |-> e[2].value, hosts |-> e[2].hosts]
        /\ \A m \in mounts : MountReadsBack(m) => ParseMount(MountSpec(m))
             = [m EXCEPT !.target = IF @ = <<>> THEN Workspace ELSE @]
        /\ proc[p].allowed = IF Star \in hosts THEN NoList
                             ELSE Listed(hosts \cup SecretHosts(exec.secrets))

\* A guest trusts the proxy it talks to and reads the policy it is under, and
\* not those of the session before it: the certificate and the policy in its
\* root file system are its own session's (vm.rs:406-449, cmd/exec.rs:104-109,
\* 268-269, 650-656).  Named exceptions: another launch on the same root file
\* system, which no lock keeps out, has passed it since; and, for the policy,
\* that it could not be written, which does not stop the launch.
GuestSeesItsOwn == \A p \in Proc :
  proc[p].vm = "on" /\ ~proc[p].overrun =>
    /\ disk[proc[p].root].ca = p
    /\ ~proc[p].unwritten => disk[proc[p].root].policy = proc[p].allowed
=============================================================================
