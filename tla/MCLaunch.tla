------------------------------ MODULE MCLaunch ------------------------------
(* Two launches at once on one machine: with a file in the project or        *)
(* without, with credentials of each kind, from each way to ask for a        *)
(* session.                                                                  *)
EXTENDS Launch

Alike == Permutations(Proc)

Typed(cmd) == [cmd |-> cmd, agent |-> Unset, extra |-> Unset, detach |-> FALSE, browser |-> FALSE,
               discover |-> FALSE, scalar |-> NoScalars, allow |-> {}, forward |-> <<>>,
               secrets |-> {}, mounts |-> {}]
Port(guest, host) == [guest |-> guest, host |-> host]
Token(value, host) == <<"TOKEN", "=">> \o value \o <<":", host>>

MCCommandLines == {
  Typed("exec"),
  [Typed("exec") EXCEPT !.scalar["rootfs"] = "own", !.allow = {Star}, !.detach = TRUE,
     !.scalar["interactive"] = "yes"],
  [Typed("exec") EXCEPT !.scalar["image"] = "claude-code", !.forward = <<Port(9000, 1)>>,
     !.browser = TRUE, !.secrets = {Token(Vault \o <<"t">>, "git.example")}],
  [Typed("exec") EXCEPT !.scalar["image"] = "claude-code", !.forward = <<Port(9222, 1)>>,
     !.browser = TRUE],
  [Typed("exec") EXCEPT !.scalar["image"] = "pi", !.allow = {<<"https", ":", "//", "host">>}],
  [Typed("exec") EXCEPT !.scalar["image"] = "pi", !.secrets = {Token(<<"t">>, "*")}],
  [Typed("run") EXCEPT !.agent = "claude", !.extra = "prompt", !.scalar["timeout"] = "60"],
  [Typed("run") EXCEPT !.detach = TRUE, !.forward = <<Port(80, 80)>>,
     !.mounts = {<<"home", ":", "/data", ":", "ro">>}],
  [Typed("run") EXCEPT !.detach = TRUE, !.forward = <<Port(9000, 9000)>>]}

Secret(value, hosts) == [value |-> value, hosts |-> hosts]
Mount(source, target, ro) == [source |-> <<source>>, target |-> target, ro |-> ro]

\* A secret of two hosts that takes the place of the agent's, one that lists no
\* host, and one with a port behind its host, which is read as the host.
Safe == [Default EXCEPT !.allow = Named({"docs.example"}), !.scalar["command"] = "make",
  !.scalar["interactive"] = "no", !.env = "HOME" :> "/root",
  !.secrets = <<"ANTHROPIC_API_KEY">> :> Secret(<<"x">>, <<"api.example", ",", "b.example">>)
           @@ <<"NONE">> :> Secret(<<"y">>, <<>>)
           @@ <<"DB">> :> Secret(<<"db", ":", "//", "z">>, <<"db.example", ":", "5432">>),
  !.mount = "source" :> Mount("src", <<>>, TRUE)]
Reaching == [Default EXCEPT !.forward = <<Port(9000, 9000)>>, !.scalar["image"] = "pi",
  !.scalar["auditLog"] = "log", !.mount = "out" :> Mount("home", Workspace, FALSE)]
ForwardsOnly == [Default EXCEPT !.forward = <<Port(3000, 3000)>>, !.scalar["image"] = "pi"]
Gone == [Default EXCEPT !.mount = "out" :> Mount("gone", <<"/data">>, FALSE),
  !.scalar["rootfs"] = "own"]
Relative == [Default EXCEPT !.mount = "workspace" :> Mount(".", <<"data">>, FALSE)]

Host(set, files, tty, project, user) ==
  [vars |-> set, files |-> files, vault |-> tty, git |-> {"git.example"},
   claude |-> IF tty THEN Named({"claude.example"}) ELSE {}, tty |-> tty, project |-> project,
   user |-> user]
KeyVar == {"ANTHROPIC_API_KEY"}

MCMachines == {
  Host(KeyVar, {}, TRUE, NoKeys, NoKeys),
  Host({}, {".credentials.json"}, TRUE, Safe, NoKeys),
  Host(KeyVar, {}, TRUE, Safe, NoKeys),
  Host({}, {"auth.json", "models.json"}, TRUE, Reaching, Gone),
  Host(KeyVar, {}, FALSE, ForwardsOnly, NoKeys),
  Host(KeyVar, {}, FALSE, NoKeys, Relative),
  Host(KeyVar, {}, TRUE, NoKeys, Gone)}

MCInTree == {CwdSource, <<"src">>}
MCOutOfTree == {<<"home">>}
MCGuestPaths == Named({"/workspace", "/data"})
=============================================================================
