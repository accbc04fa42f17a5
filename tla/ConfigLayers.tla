---------------------------- MODULE ConfigLayers ----------------------------
(***************************************************************************)
(* The layers a session is configured from, as operators: the agents redan *)
(* knows, the config files, the command line, and how they are put         *)
(* together.  What is formatted and parsed again is a text: a sequence of  *)
(* tokens, of which the code looks for ":", "=", ",", "//", "*" and "ro".   *)
(* A config's maps (secrets, mounts, env) are functions from their keys,   *)
(* its allowed hosts a set -- their order decides nothing -- and its       *)
(* forwards a sequence, in which a repeated port is an error.  Host names  *)
(* stand for their lower-case forms.                                       *)
(***************************************************************************)
EXTENDS Integers, Sequences, SequencesExt, TLC

CONSTANTS
  InTree,       \* mount sources that exist: within the project,
  OutOfTree,    \* and outside of it
  GuestPaths    \* targets of mounts that validate_guest_path lets pass

CwdSource == <<".">>
Workspace == <<"/workspace">>

ASSUME SourceAssumption == CwdSource \in InTree /\ InTree \cap OutOfTree = {}
ASSUME TargetAssumption == Workspace \in GuestPaths

Unset == "unset"
Star  == <<"*">>
Named(names) == {<<n>> : n \in names}

\* Config, but for what nothing else depends on. An entry of secrets is its
\* value and its hosts, joined (empty: it lists none); one of mount has a
\* target or an empty one.
Scalars == {"image", "rootfs", "command", "timeout", "interactive", "auditLog", "logFile"}
NoScalars == [f \in Scalars |-> Unset]
NoKeys == <<>>
Default == [scalar |-> NoScalars, allow |-> {}, forward |-> <<>>,
            secrets |-> NoKeys, mount |-> NoKeys, env |-> NoKeys]

\* A forward is two numbers, which nobody has looked at yet.
Ports == [guest : Int, host : Int]

\* What a file or the command line says, as far as it is more than a set.
IsLayer(c) == c.scalar = [f \in Scalars |-> c.scalar[f]] /\ c.forward \in Seq(Ports)
Text == Seq(STRING)
IsFile(c) ==
  /\ IsLayer(c)
  /\ \A n \in DOMAIN c.secrets : n \in Text /\ c.secrets[n] \in [value : Text, hosts : Text]
  /\ \A k \in DOMAIN c.mount : c.mount[k] \in [source : Text, target : Text, ro : BOOLEAN]

----------------------------------------------------------------------------
(* Agents and their credentials *)

\* Where the value of a secret is looked up, if it is no literal.
Env   == <<"env", ":", "//">>
Vault == <<"vault", ":", "//">>

EnvSecret(var, host) == [kind |-> "env", var |-> var, host |-> host]
StagedFiles(files, hosts) == [kind |-> "files", files |-> files, probe |-> Head(files), hosts |-> hosts]

Claude == [image |-> "claude-code", command |-> "claude",
  hosts |-> {"api.anthropic.com", "statsig.anthropic.com", "sentry.io", "platform.claude.com",
             "raw.githubusercontent.com"},
  env  |-> "HOME" :> "/home/dev",
  auth |-> << EnvSecret("ANTHROPIC_API_KEY", "api.anthropic.com"),
              EnvSecret("CLAUDE_CODE_OAUTH_TOKEN", "api.anthropic.com"),
              StagedFiles(<<".credentials.json">>,
                          {"auth.anthropic.com", "console.anthropic.com"}) >>]

Pi == [image |-> "pi", command |-> "pi", hosts |-> {"api.anthropic.com"},
  env  |-> "HOME" :> "/home/dev",
  auth |-> << EnvSecret("ANTHROPIC_API_KEY", "api.anthropic.com"),
              StagedFiles(<<"auth.json", "settings.json", "models.json">>, {}) >>]

Agents == <<"claude", "pi">>
Def(slug) == IF slug = "claude" THEN Claude ELSE Pi

\* resolve_auth: the first method whose source is there. A machine is the set
\* of its environment variables and of its credential files.
Present(method, machine) == IF method.kind = "env" THEN method.var \in machine.vars
                            ELSE method.probe \in machine.files

Authenticated(slug, machine) ==
  \E i \in DOMAIN Def(slug).auth : Present(Def(slug).auth[i], machine)

FirstAuth(slug, machine) ==
  Def(slug).auth[SelectInSeq(Def(slug).auth, LAMBDA m : Present(m, machine))]

\* detect: the first agent of the registry that has credentials, if any.
Detected(machine) ==
  LET found == {i \in DOMAIN Agents : Authenticated(Agents[i], machine)}
  IN  {Agents[i] : i \in {j \in found : \A k \in found : j <= k}}

\* build_config and apply_auth.
Profile(slug, machine) ==
  LET def  == Def(slug)
      auth == FirstAuth(slug, machine)
      staged == auth.kind = "files"
  IN  [config |-> [scalar  |-> [NoScalars EXCEPT !["image"] = def.image, !["command"] = def.command,
                                       !["timeout"] = "3600", !["interactive"] = "yes"],
                   allow   |-> Named(def.hosts \cup machine.git
                                       \cup (IF staged THEN auth.hosts ELSE {})),
                   forward |-> <<>>,
                   secrets |-> IF staged THEN NoKeys
                               ELSE [name \in {<<auth.var>>} |->
                                       [value |-> Env \o name, hosts |-> <<auth.host>>]],
                   mount   |-> [key \in {"workspace"} |->
                                  [source |-> CwdSource, target |-> Workspace, ro |-> FALSE]],
                   env     |-> def.env],
       stage  |-> IF staged THEN ToSet(auth.files) \cap machine.files ELSE {}]

----------------------------------------------------------------------------
(* Layers *)

\* A forward is added once, each behind those there are.
Behind(fs, f) == IF f \in ToSet(fs) THEN fs ELSE Append(fs, f)
Extend(fs, more) ==
  LET join[n \in 0 .. Len(more)] == IF n = 0 THEN fs ELSE Behind(join[n - 1], more[n])
  IN  join[Len(more)]

\* HashMap::extend
Over(top, base) ==
  [k \in DOMAIN top \cup DOMAIN base |-> IF k \in DOMAIN top THEN top[k] ELSE base[k]]

\* overlay: a project file on an agent's defaults.
Overlay(base, top) ==
  [scalar  |-> [f \in Scalars |-> IF top.scalar[f] # Unset THEN top.scalar[f] ELSE base.scalar[f]],
   allow   |-> base.allow \cup top.allow,
   forward |-> Extend(base.forward, top.forward),
   secrets |-> Over(top.secrets, base.secrets),
   mount   |-> Over(top.mount, base.mount),
   env     |-> Over(top.env, base.env)]

----------------------------------------------------------------------------
(* Specs: texts that are written and read again *)

Colon == ":"
FirstAt(text, c) == SelectInSeq(text, LAMBDA d : d = c)
LastAt(text, c)  == SelectLastInSeq(text, LAMBDA d : d = c)

\* secret_specs: entries without hosts are skipped.
SecretSpec(name, s) == name \o <<"=">> \o s.value \o <<Colon>> \o s.hosts
SecretSpecs(cfg) == {SecretSpec(n, cfg.secrets[n]) :
                       n \in {m \in DOMAIN cfg.secrets : cfg.secrets[m].hosts # <<>>}}

\* mount_specs: source[:target][:ro]
MountSpec(m) == m.source \o (IF m.target = <<>> THEN <<>> ELSE <<Colon>> \o m.target)
                         \o (IF m.ro THEN <<Colon, "ro">> ELSE <<>>)
MountSpecs(cfg) == {MountSpec(cfg.mount[k]) : k \in DOMAIN cfg.mount}

\* Mutant: at the first colon, as a mount is.
ParseSecret_FirstColon(text) ==
  LET colon == FirstAt(text, Colon)
      named == SubSeq(text, 1, colon - 1)
      eq    == FirstAt(named, "=")
  IN  [name  |-> SubSeq(named, 1, eq - 1), value |-> SubSeq(named, eq + 1, Len(named)),
       hosts |-> SubSeq(text, colon + 1, Len(text))]

\* parse_secret: at the last colon, then at the first equals sign. Where one is
\* missing a part is empty.
ParseSecret(text) ==
  LET colon == LastAt(text, Colon)
      named == SubSeq(text, 1, colon - 1)
      eq    == FirstAt(named, "=")
  IN  [name  |-> SubSeq(named, 1, eq - 1), value |-> SubSeq(named, eq + 1, Len(named)),
       hosts |-> SubSeq(text, colon + 1, Len(text))]

\* split(','): what lies between one comma, or end, and the next.
HostNames(hosts) ==
  LET cuts == {0, Len(hosts) + 1} \cup {i \in DOMAIN hosts : hosts[i] = ","}
  IN  {SubSeq(hosts, c[1] + 1, c[2] - 1) :
         c \in {d \in cuts \X cuts : d[1] < d[2] /\ \A i \in cuts : i <= d[1] \/ d[2] <= i}}

\* parse_mount: ":ro" is taken off, then at the first colon. A target that is
\* empty or missing is the workspace, and an empty one leaves its colon behind.
ParseMount(text) ==
  LET n     == Len(text)
      ro    == n > 1 /\ text[n - 1] = Colon /\ text[n] = "ro"
      base  == IF ro THEN SubSeq(text, 1, n - 2) ELSE text
      colon == FirstAt(base, Colon)
  IN  IF colon \in {0, Len(base)} THEN [source |-> base, target |-> Workspace, ro |-> ro]
      ELSE [source |-> SubSeq(base, 1, colon - 1), target |-> SubSeq(base, colon + 1, Len(base)),
            ro |-> ro]

----------------------------------------------------------------------------
(* The command line, and trust *)

\* The head of launch: the command line on top of that. Here lists are joined
\* as they are, and the maps' entries stand beside the command line's.
Merge(cli, cfg, claude) ==
  [scalar  |-> [f \in Scalars |->
                 IF f = "interactive"
                 THEN IF "yes" \in {cli.scalar[f], cfg.scalar[f]} THEN "yes" ELSE "no"
                 ELSE IF cli.scalar[f] # Unset THEN cli.scalar[f] ELSE cfg.scalar[f]],
   allow   |-> cli.allow \cup cfg.allow \cup claude,
   forward |-> cli.forward \o cfg.forward,
   secrets |-> cli.secrets \cup SecretSpecs(cfg),
   mounts  |-> cli.mounts \cup MountSpecs(cfg),
   env     |-> cfg.env]

\* has_explicit_flags
Explicit(cli) ==
  \/ \E f \in {"image", "rootfs", "command"} : cli.scalar[f] # Unset
  \/ cli.secrets # {} \/ cli.mounts # {} \/ cli.discover

FromHost(value) == IsPrefix(Env, value) \/ IsPrefix(Vault, value)

\* Mutant: a forward to a port of the host counts as safe.
Reaches_NoForward(cfg) ==
  \/ \E f \in {"rootfs", "auditLog", "logFile"} : cfg.scalar[f] # Unset
  \/ \E n \in DOMAIN cfg.secrets : FromHost(cfg.secrets[n].value)
  \/ \E k \in DOMAIN cfg.mount : cfg.mount[k].source \notin InTree

\* trust::analyze: does the file ask for anything of the host? A source that
\* does not exist counts as outside.
Reaches(cfg) ==
  \/ \E f \in {"rootfs", "auditLog", "logFile"} : cfg.scalar[f] # Unset
  \/ cfg.forward # <<>>
  \/ \E n \in DOMAIN cfg.secrets : FromHost(cfg.secrets[n].value)
  \/ \E k \in DOMAIN cfg.mount : cfg.mount[k].source \notin InTree

----------------------------------------------------------------------------
(* What cmd::exec::run makes of the specs *)

\* The network without a list, and with one.
NoList == [network |-> "allow-all", hosts |-> {}]
Listed(hosts) == [network |-> "restrict", hosts |-> hosts]

\* The hosts secrets are for.
SecretHosts(secrets) == UNION {HostNames(ParseSecret(s).hosts) : s \in secrets}

\* The hosts of secrets join a list that is there.
AllowedHosts(allow, secrets) ==
  IF Star \in allow THEN NoList ELSE Listed(allow \cup SecretHosts(secrets))

\* The errors of parse_secret, resolve_secret_value and SecretBinding::new; a
\* vault answers or fails. A secret goes to hosts by name, not by wildcard.
Resolves(secret, machine) ==
  /\ <<>> \notin {secret.name, secret.value, secret.hosts}
  /\ "*" \notin ToSet(secret.hosts)
  /\ IsPrefix(Env, secret.value) => \E var \in machine.vars : secret.value = Env \o <<var>>
  /\ IsPrefix(Vault, secret.value) => machine.vault

\* A host name is no URL and no host:port.
IsHostName(text) == ToSet(text) \cap {Colon, "/", "//"} = {}

\* The secrets, the host names and the mounts of a session are right.
SpecsValid(exec, machine) ==
  /\ \A s \in exec.secrets : Resolves(ParseSecret(s), machine)
  /\ \A h \in exec.allow : IsHostName(h)
  /\ \A m \in exec.mounts : /\ ParseMount(m).target \in GuestPaths
                             /\ ParseMount(m).source \in InTree \cup OutOfTree

\* parse_forward_spec, with ports as u16, and the check for a repeated port.
Reserved == {22, 53, 80, 443}
PortValid(f) == f.guest \in (1 .. 65535) \ Reserved /\ f.host \in 1 .. 65535

ForwardsValid(fs) ==
  /\ \A i \in DOMAIN fs : PortValid(fs[i])
  /\ \A i, j \in DOMAIN fs : fs[i].guest = fs[j].guest => i = j
=============================================================================
