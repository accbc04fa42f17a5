---------------------------- MODULE BrowserProxy ----------------------------
(***************************************************************************)
(* Browser: Chrome on the host, its temporary profile, and the proxy that  *)
(* its traffic goes through, from Browser::launch to the drop.  Redan's    *)
(* main thread, the accept loop, a worker per connection with its two      *)
(* relay directions, Chrome's leader and its helper processes, and the     *)
(* servers take steps in any order.  Chrome and the servers are external:  *)
(* Chrome may crash, hang, ignore SIGTERM, and open and close connections  *)
(* as it likes, accept a call and not answer it, or not read what it is    *)
(* sent.  The 30 s a client may be silent, the 10 s Chrome has to come up  *)
(* and the 2 s it has to end are steps that may happen at any time while   *)
(* what they wait for has not.                                             *)
(***************************************************************************)
EXTENDS Integers, FiniteSets

CONSTANTS
  Conn,        \* connections Chrome opens
  MaxWorkers   \* MAX_PROXY_WORKERS

ASSUME BrowserAssumption == IsFiniteSet(Conn) /\ MaxWorkers \in Nat

VARIABLES
  redan,      \* where the main thread is, in launch, in the session or in the drop
  profile,    \* the profile directory is there
  unremoved,  \* history: its removal failed
  rewritten,  \* history: a helper that outlived the leader made it anew
  leader, helper,  \* Chrome's processes: none, up, zombie (the leader only), gone
  termed,     \* SIGTERM was sent to the group
  silent,     \* Chrome has taken a call at its CDP port and does not answer it
  shutdown,   \* proxy_shutdown
  loop,       \* run_allowlist_proxy: none, top, accept, ended
  active,     \* the count of workers
  worker,     \* per connection: where its worker is
  relay,      \* the directions of its relay that are still open: up, down
  client, server,  \* its two ends: open, busy (keeps sending), deaf (open, and
                   \* does not read) or closed
  leaked      \* history: workers that were counted and not spawned

files      == <<profile, unremoved, rewritten>>
chromeVars == <<leader, helper, termed, silent>>
proxyVars  == <<loop, active, worker, relay, leaked>>
connVars   == <<client, server>>
vars == <<redan, files, chromeVars, shutdown, proxyVars, connVars>>

Alive == redan \notin {"failed", "ended", "exited"}

----------------------------------------------------------------------------
(* Browser::launch *)

\* Chrome was found, its port is free, the profile directory is made; or not.
MakeProfile ==
  /\ redan = "launch"
  /\ \/ redan' = "bind" /\ profile' = TRUE
     \/ redan' = "failed" /\ UNCHANGED profile
  /\ UNCHANGED <<unremoved, rewritten, chromeVars, shutdown, proxyVars, connVars>>

\* The listener and its thread. A failure here returns as it is: the profile
\* directory stays.
StartProxy ==
  /\ redan = "bind"
  /\ \/ redan' = "spawn" /\ loop' = "top"
     \/ redan' = "failed" /\ UNCHANGED loop
  /\ UNCHANGED <<files, chromeVars, shutdown, active, worker, relay, leaked, connVars>>

SpawnChrome ==
  /\ redan = "spawn"
  /\ \/ redan' = "poll" /\ leader' = "up"
     \/ redan' = "cleanup" /\ UNCHANGED leader
  /\ UNCHANGED <<files, helper, termed, silent, shutdown, proxyVars, connVars>>

\* Mutant: a Chrome that is too slow is given up on and not killed.
PollCdp_LeavesChrome ==
  /\ redan = "poll"
  /\ \/ leader = "up" /\ redan' = "up" /\ UNCHANGED leader
     \/ leader = "zombie" /\ redan' = "stderr" /\ leader' = "gone"
     \/ leader = "up" /\ redan' = "cleanup" /\ UNCHANGED leader
  /\ UNCHANGED <<files, helper, termed, silent, shutdown, proxyVars, connVars>>

\* poll_cdp_ready; a Chrome that has ended is told from one that hangs. The limit
\* is looked at between the calls, and a call has no timeout.
PollCdp ==
  /\ redan = "poll"
  /\ \/ leader = "up" /\ redan' = "up" /\ UNCHANGED leader
     \/ leader = "zombie" /\ redan' = "stderr" /\ leader' = "gone"
     \/ leader = "up" /\ redan' = "cleanup" /\ leader' = "gone"
  /\ UNCHANGED <<files, helper, termed, silent, shutdown, proxyVars, connVars>>

\* The pipe is read to its end: to the end of the last process that holds it.
ReadStderr ==
  /\ redan = "stderr" /\ helper # "up"
  /\ redan' = "cleanup"
  /\ UNCHANGED <<files, chromeVars, shutdown, proxyVars, connVars>>

\* cleanup_proxy
Cleanup ==
  /\ redan = "cleanup"
  /\ shutdown' = TRUE /\ redan' = "joinFailed"
  /\ UNCHANGED <<files, chromeVars, proxyVars, connVars>>

----------------------------------------------------------------------------
(* The session, and Browser's drop *)

\* proxy::run has returned, and run's locals are dropped.
Drop ==
  /\ redan = "up"
  /\ shutdown' = TRUE /\ termed' = TRUE /\ redan' = "wait"
  /\ UNCHANGED <<files, leader, helper, silent, proxyVars, connVars>>

\* A process::exit behind the launch, or a signal: no destructor runs, and the
\* kernel sends Chrome's leader its SIGTERM.
ExitEarly ==
  /\ redan \in {"up", "poll"}
  /\ redan' = "exited" /\ termed' = (leader = "up")
  /\ UNCHANGED <<files, leader, helper, silent, shutdown, proxyVars, connVars>>

ChromeEnded ==
  /\ redan = "wait" /\ leader = "zombie"
  /\ leader' = "gone" /\ redan' = "join"
  /\ UNCHANGED <<files, helper, termed, silent, shutdown, proxyVars, connVars>>

\* Mutant: after two seconds redan waits for Chrome all the same.
Deadline_WaitsOn ==
  /\ redan = "wait" /\ leader = "zombie"
  /\ leader' = "gone" /\ redan' = "join"
  /\ UNCHANGED <<files, helper, termed, silent, shutdown, proxyVars, connVars>>

\* Two seconds are over: SIGKILL to the group.
Deadline ==
  /\ redan = "wait" /\ leader # "gone"
  /\ leader' = "gone" /\ helper' = (IF helper = "up" THEN "gone" ELSE helper)
  /\ redan' = "join"
  /\ UNCHANGED <<files, termed, silent, shutdown, proxyVars, connVars>>

Join ==
  /\ redan \in {"join", "joinFailed"} /\ loop = "ended"
  /\ redan' = IF redan = "join" THEN "remove" ELSE "removeFailed"
  /\ UNCHANGED <<files, chromeVars, shutdown, proxyVars, connVars>>

\* remove_dir_all, whose error is ignored, and with the end of run the end of
\* the process.
RemoveProfile ==
  /\ redan \in {"remove", "removeFailed"}
  /\ \/ profile' = FALSE /\ UNCHANGED unremoved
     \/ unremoved' = TRUE /\ UNCHANGED profile
  /\ redan' = IF redan = "remove" THEN "ended" ELSE "failed"
  /\ UNCHANGED <<rewritten, chromeVars, shutdown, proxyVars, connVars>>

----------------------------------------------------------------------------
(* Chrome *)

\* It takes a call and does not answer; whether it ever does is up to it.
GoesSilent ==
  /\ redan = "poll" /\ leader = "up" /\ ~silent
  /\ silent' = TRUE
  /\ UNCHANGED <<redan, files, leader, helper, termed, shutdown, proxyVars, connVars>>

HelperStarts ==
  /\ leader = "up" /\ helper = "none" /\ ~termed
  /\ helper' = "up"
  /\ UNCHANGED <<redan, files, leader, termed, silent, shutdown, proxyVars, connVars>>

\* Each of its processes may end at any time.
LeaderEnds ==
  /\ leader = "up" /\ leader' = "zombie"
  /\ UNCHANGED <<redan, files, helper, termed, silent, shutdown, proxyVars, connVars>>

HelperEnds ==
  /\ helper = "up" /\ helper' = "gone"
  /\ UNCHANGED <<redan, files, leader, termed, silent, shutdown, proxyVars, connVars>>

\* What still runs writes to the profile, and makes it anew.
WriteProfile ==
  /\ leader = "up" \/ helper = "up"
  /\ profile' = TRUE
  /\ rewritten' = (rewritten \/ (~profile /\ leader # "up"))
  /\ UNCHANGED <<redan, unremoved, chromeVars, shutdown, proxyVars, connVars>>

Opens(c) ==
  /\ worker[c] = "unused" /\ leader = "up" /\ loop # "none"
  /\ worker' = [worker EXCEPT ![c] = "queued"]
  /\ \E s \in {"open", "busy", "deaf"} : client' = [client EXCEPT ![c] = s]
  /\ UNCHANGED <<redan, files, chromeVars, shutdown, loop, active, relay, leaked, server>>

Closes(c) ==
  /\ client[c] # "closed" /\ worker[c] # "unused"
  /\ client' = [client EXCEPT ![c] = "closed"]
  /\ UNCHANGED <<redan, files, chromeVars, shutdown, proxyVars, server>>

\* A server closes, also the one that was told that no more will come.
ServerCloses(c) ==
  /\ worker[c] = "relay" /\ server[c] = "open"
  /\ server' = [server EXCEPT ![c] = "closed"]
  /\ UNCHANGED <<redan, files, chromeVars, shutdown, proxyVars, client>>

----------------------------------------------------------------------------
(* run_allowlist_proxy *)

LoopTop ==
  /\ loop = "top" /\ Alive
  /\ loop' = IF shutdown THEN "ended" ELSE "accept"
  /\ UNCHANGED <<redan, files, chromeVars, shutdown, active, worker, relay, leaked, connVars>>

\* Nothing to accept, or an error that ends the loop for good.
AcceptNothing ==
  /\ loop = "accept" /\ Alive
  /\ \/ (\A c \in Conn : worker[c] # "queued") /\ loop' = "top"
     \/ loop' = "ended"
  /\ UNCHANGED <<redan, files, chromeVars, shutdown, active, worker, relay, leaked, connVars>>

\* A connection beyond the limit is dropped. The worker is counted before its
\* thread is there, and stays counted when there is none.
Accept(c) ==
  /\ loop = "accept" /\ Alive /\ worker[c] = "queued"
  /\ loop' = "top"
  /\ IF active >= MaxWorkers
     THEN worker' = [worker EXCEPT ![c] = "refused"] /\ UNCHANGED <<active, leaked>>
     ELSE /\ active' = active + 1
          /\ \/ worker' = [worker EXCEPT ![c] = "head"] /\ UNCHANGED leaked
             \/ worker' = [worker EXCEPT ![c] = "refused"] /\ leaked' = leaked + 1
  /\ UNCHANGED <<redan, files, chromeVars, shutdown, relay, connVars>>

\* handle_proxy_connection up to the relay: a head that does not come in 30 s,
\* a bad one, a host that is not allowed or has a private address, and a
\* server that cannot be reached end the worker; or a tunnel stands.
Serve(c) ==
  /\ worker[c] = "head" /\ Alive
  /\ \/ /\ client[c] # "closed"
        /\ worker' = [worker EXCEPT ![c] = "relay"] /\ relay' = [relay EXCEPT ![c] = {"up", "down"}]
        /\ server' = [server EXCEPT ![c] = "open"]
     \/ worker' = [worker EXCEPT ![c] = "ending"] /\ UNCHANGED <<relay, server>>
  /\ UNCHANGED <<redan, files, chromeVars, shutdown, loop, active, leaked, client>>


\* Client to server: the client has closed or is silent for 30 s -- also in a
\* tunnel that only receives -- or the server takes no more.
UpEnds(c) ==
  /\ worker[c] = "relay" /\ "up" \in relay[c] /\ Alive
  /\ client[c] # "busy" \/ server[c] = "closed"
  /\ relay' = [relay EXCEPT ![c] = @ \ {"up"}]
  /\ UNCHANGED <<redan, files, chromeVars, shutdown, loop, active, worker, leaked, connVars>>

\* Server to client: the server has closed, and the client takes what it sent.
DownEnds(c) ==
  /\ worker[c] = "relay" /\ "down" \in relay[c] /\ Alive /\ server[c] = "closed"
  /\ client[c] # "deaf"
  /\ relay' = [relay EXCEPT ![c] = @ \ {"down"}]
  /\ UNCHANGED <<redan, files, chromeVars, shutdown, loop, active, worker, leaked, connVars>>

\* Or sends to a client that has gone, or has sent so little to one that does not
\* read that no write waits: the socket has a timeout for its reads alone.
\* Whether either ever happens is up to the server.
DownBreaks(c) ==
  /\ worker[c] = "relay" /\ "down" \in relay[c] /\ Alive
  /\ client[c] = "closed" \/ (client[c] = "deaf" /\ server[c] = "closed")
  /\ relay' = [relay EXCEPT ![c] = @ \ {"down"}]
  /\ UNCHANGED <<redan, files, chromeVars, shutdown, loop, active, worker, leaked, connVars>>

\* The join, and the end of the worker.
WorkerEnds(c) ==
  /\ Alive
  /\ worker[c] = "ending" \/ (worker[c] = "relay" /\ relay[c] = {})
  /\ worker' = [worker EXCEPT ![c] = "done"]
  /\ active' = active - 1
  /\ UNCHANGED <<redan, files, chromeVars, shutdown, loop, relay, leaked, connVars>>

----------------------------------------------------------------------------
Init ==
  /\ redan = "launch" /\ profile = FALSE /\ unremoved = FALSE /\ rewritten = FALSE
  /\ leader = "none" /\ helper = "none" /\ termed = FALSE /\ silent = FALSE
  /\ shutdown = FALSE /\ loop = "none" /\ active = 0 /\ leaked = 0
  /\ worker = [c \in Conn |-> "unused"] /\ relay = [c \in Conn |-> {}]
  /\ client = [c \in Conn |-> "open"] /\ server = [c \in Conn |-> "none"]

Answered == ~silent \/ leader = "zombie"

Main == \/ MakeProfile \/ StartProxy \/ SpawnChrome \/ (Answered /\ PollCdp) \/ ReadStderr
        \/ Cleanup \/ ChromeEnded \/ Deadline \/ Join \/ RemoveProfile
Loop == LoopTop \/ AcceptNothing \/ \E c \in Conn : Accept(c)
Work(c) == Serve(c) \/ UpEnds(c) \/ DownEnds(c) \/ WorkerEnds(c)
External == GoesSilent \/ (~Answered /\ PollCdp)
            \/ HelperStarts \/ LeaderEnds \/ HelperEnds \/ WriteProfile
            \/ \E c \in Conn : Opens(c) \/ Closes(c) \/ ServerCloses(c) \/ DownBreaks(c)

Next == Main \/ Drop \/ ExitEarly \/ Loop \/ (\E c \in Conn : Work(c)) \/ External

\* Threads are scheduled, and timeouts run out. Nothing makes a session end,
\* and nothing is assumed of Chrome and of the servers: not that a call at the CDP
\* port comes back, nor that a server that is there takes what it is sent.
Spec ==
  /\ Init /\ [][Next]_vars
  /\ WF_vars(Main) /\ WF_vars(Loop)
  /\ \A c \in Conn : WF_vars(Serve(c)) /\ WF_vars(server[c] = "closed" /\ UpEnds(c))
                     /\ WF_vars(DownEnds(c))
                     /\ WF_vars(WorkerEnds(c))

----------------------------------------------------------------------------
(* What must hold *)

\* A launch that failed and a browser that was dropped leave no profile behind,
\* no running leader and no proxy thread.  Named exceptions: the failures between the
\* directory and the proxy thread, which return without a clean-up; a removal
\* that fails, which nobody notices; and helpers that outlive the leader and write the
\* profile again -- the drop looks at the leader alone (browser.rs:87-122,
\* 174-201, 293-297).
BrowserLeavesNothing ==
  redan \in {"failed", "ended"} =>
    /\ leader \in {"none", "gone"}
    /\ loop \in {"none", "ended"}
    /\ profile => loop = "none" \/ unremoved \/ rewritten

\* The drop ends, whatever Chrome does with its SIGTERM and whatever its
\* tunnels are doing; and so does a launch.  Two named exceptions: a Chrome that takes
\* a call at its CDP port and never answers it, for as long as it lives -- the
\* limit of 10 s is looked at between the calls, which have no timeout -- and a helper
\* of a dead Chrome that never lets go of the pipe that its last words are read
\* from (browser.rs:137-155, 181-196, 299-312).
BrowserEnds ==
  redan \in {"wait", "cleanup", "poll", "stderr"} ~>
    \/ ~Alive \/ redan = "up"
    \/ [](redan = "poll" /\ silent /\ leader = "up")
    \/ [](redan = "stderr" /\ helper = "up")

=============================================================================
