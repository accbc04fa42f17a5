---------------------------- MODULE TlsPipeline ----------------------------
(***************************************************************************)
(* One TLS connection of the guest after the other, as the thread that     *)
(* `tls_connection_thread` runs for it handles them: the handshake with a  *)
(* certificate made for the SNI, one HTTP request read in pieces, the      *)
(* checks it must pass, the injection, the connection to the host and the  *)
(* response relayed back in pieces, scrubbed on the way.  ProxyLoop has    *)
(* the same thread with all of this left out: what it says about channels  *)
(* and slots is not repeated here.                                         *)
(*                                                                         *)
(* rustls, DNS and the host upstream are external: their answers are       *)
(* choices of the actions.  A host name is the sequence of its labels, in  *)
(* lower case (every comparison of the code ignores case), and a request   *)
(* may name several: in its Host headers, in their order, and in a target  *)
(* in absolute form.  Sizes are in units: the head of a request has        *)
(* HeadSize of them, and what the guest sends may go on behind the body.   *)
(* A request that does not parse is one whose length is never reached.     *)
(***************************************************************************)
EXTENDS SecretText

CONSTANTS
  Requests,     \* the requests a guest may send
  Policies,     \* the allowlists and secrets the program may be started with
  Addresses,    \* what DNS may answer, as octets <<a, b, c>>
  Symbols,      \* the symbols of a response
  HeadSize,     \* size of a request's head
  MaxPiece,     \* bound: size of what one read returns
  MaxRequest,   \* MAX_REQUEST_BODY
  MaxResponse,  \* MAX_RESPONSE_SIZE
  MaxTries,     \* 1000, the iterations of the upstream handshake
  MaxCache,     \* MAX_CACHE_SIZE
  MaxConns      \* bound: connections one after the other

VARIABLES
  policy,      \* the allowlist (or NoList) and the secrets
  pc,
  conns,       \* connections begun
  req,         \* the request the guest is sending
  have,        \* how much of it the thread has read
  reply,       \* the status of the thread's own response, or 0
  addr,        \* the address connected to
  tries,       \* iterations of the upstream handshake
  up,          \* history: the request sent upstream, or Nothing
  got,         \* history: the plaintext read from upstream
  headerBuf, headersSent, overlap,
  toGuest,     \* history: the plaintext of the response sent to the guest
  result,      \* what the thread returned
  cut,         \* the loop has dropped its ends of the channels
  cache,       \* MitmCa.key_cache
  discovered   \* the hosts recorded for discover mode

reqVars  == <<req, have, reply>>
upVars   == <<addr, tries, up>>
respVars == <<got, headerBuf, headersSent, overlap, toGuest>>
shared   == <<policy, conns, cache, discovered>>
vars     == <<policy, pc, conns, reqVars, upVars, respVars, result, cut, cache, discovered>>

NoSni   == <<>>
BadSni  == <<"!">>
NoHost  == <<"none">>
NoList  == {[wild |-> FALSE, name |-> NoHost]}
Nothing == [line |-> {}, target |-> NoHost, hosts |-> <<>>, headers |-> {}, bodyHolds |-> {}, body |-> -1]

\* The tokens a request holds anywhere.
Tokens(r) == r.line \cup r.bodyHolds \cup UNION {h.holds : h \in r.headers}

\* A policy's secrets have ids of their own, and only NoList names no host.
ASSUME PolicyAssumption == \A p \in Policies :
  /\ p.secrets \in Seq(SecretBinding)
  /\ \A s, t \in ToSet(p.secrets) : s.id = t.id => s = t
  /\ p.allow = NoList \/ \A q \in p.allow : q.name # NoHost

\* A guest asks with placeholders: it knows no real value.
ASSUME RequestAssumption == \A r \in Requests :
  /\ {"line", "target", "hosts", "headers", "bodyHolds"} \subseteq DOMAIN r
  /\ r.lengths \in Seq(Int)
  /\ \A h \in r.headers : {"kind", "holds"} \subseteq DOMAIN h
  /\ \A p \in Policies : \A s \in ToSet(p.secrets) : Real(s) \notin Tokens(r)

ASSUME SymbolAssumption == Symbols \subseteq Int /\ MaxPiece \in Nat

\* A request has a head.
ASSUME SizeAssumption == HeadSize \in Nat \ {0}

ASSUME AddressAssumption == Addresses \subseteq (0 .. 255) \X (0 .. 255) \X (0 .. 255)

Secrets == policy.secrets

----------------------------------------------------------------------------
(* Pure decisions *)

IsSuffixOf(s, t) == Len(s) <= Len(t) /\ SubSeq(t, Len(t) - Len(s) + 1, Len(t)) = s

\* A pattern with "*." needs at least one more label.
HostMatches(p, h) == IF p.wild THEN Len(h) > Len(p.name) /\ IsSuffixOf(p.name, h)
                     ELSE p.name = h

Allowed(h) == policy.allow = NoList \/ \E p \in policy.allow : HostMatches(p, h)

ExplicitlyAllowed(h) == policy.allow # NoList /\ \E p \in policy.allow : HostMatches(p, h)

IsPrivateIp(o) ==
  \/ o[1] \in {0, 10, 127} \cup 224 .. 255
  \/ o[1] = 172 /\ o[2] \in 16 .. 31
  \/ o[1] = 192 /\ o[2] = 168
  \/ o[1] = 169 /\ o[2] = 254
  \/ o[1] = 100 /\ o[2] \in 64 .. 127
  \/ o[1] = 192 /\ o[2] = 0 /\ o[3] = 0
  \/ o[1] = 192 /\ o[2] = 88 /\ o[3] = 99
  \/ o[1] = 198 /\ o[2] \in 18 .. 19

\* The first Content-Length that is a number; -1 is one that is not.
ContentLength(r) == LET i == SelectInSeq(r.lengths, LAMBDA n : n >= 0)
                    IN  IF i = 0 THEN 0 ELSE r.lengths[i]

\* Mutant: counts the head as if it were body.
Complete_CountsHead(r, n) == n >= HeadSize /\ ContentLength(r) <= MaxRequest /\ n >= ContentLength(r)

\* http_request_complete
Complete(r, n) == /\ n >= HeadSize
                  /\ ContentLength(r) <= MaxRequest
                  /\ n - HeadSize >= ContentLength(r)

Conflicting(r) == \E i \in DOMAIN r.lengths : r.lengths[i] # r.lengths[1]

\* Mutant: the request's own Host header is compared to nothing.
Verdict_AnyHost(r) ==
  CASE ~Allowed(r.sni) -> 403
    [] r.method = "CONNECT" -> 405
    [] r.upgrade -> 501
    [] Conflicting(r) -> 400
    [] r.chunked -> 411
    [] OTHER -> 0

\* The checks in their order: the status of the refusal, or 0.  Of several Host
\* headers the first is looked at, of the target nothing.
Verdict(r) ==
  CASE ~Allowed(r.sni) -> 403
    [] r.method = "CONNECT" -> 405
    [] r.upgrade -> 501
    [] Conflicting(r) -> 400
    [] r.hosts # <<>> /\ Head(r.hosts) # r.sni -> 421
    [] r.chunked -> 411
    [] OTHER -> 0

----------------------------------------------------------------------------
(* The thread *)

Fail == pc' = "done" /\ result' = "err"

\* MitmCertResolver: a full cache is emptied before the name is looked at.
CertifiedKey(h) ==
  cache' = IF h \in cache THEN cache
           ELSE LET kept == IF Cardinality(cache) >= MaxCache THEN {} ELSE cache
                IN  IF h = BadSni THEN kept ELSE kept \cup {h}

\* The first read drives the handshake; without an SNI, or with one that is no
\* DNS name, there is no certificate and it fails.
Handshake ==
  /\ pc = "handshake"
  /\ IF req.sni = NoSni THEN UNCHANGED cache ELSE CertifiedKey(req.sni)
  /\ IF req.sni \in {NoSni, BadSni} THEN Fail ELSE pc' = "request" /\ UNCHANGED result
  /\ UNCHANGED <<policy, conns, reqVars, upVars, respVars, cut, discovered>>

ReadPiece(n) ==
  /\ pc = "request" /\ ~cut
  /\ have + n <= req.size
  /\ have' = have + n
  /\ IF Complete(req, have') THEN pc' = "verdict" /\ UNCHANGED result
     ELSE IF have' > MaxRequest THEN Fail
     ELSE UNCHANGED <<pc, result>>
  /\ UNCHANGED <<shared, req, reply, upVars, respVars, cut>>

\* close_notify before the request is complete: read returns 0.
GuestCloses ==
  /\ pc = "request" /\ ~cut
  /\ pc' = "done" /\ result' = "ok"
  /\ UNCHANGED <<shared, reqVars, upVars, respVars, cut>>

\* Mutant: the channel is read without a timeout.
ReadFails_NoTimeout ==
  /\ pc \in {"handshake", "request"} /\ cut
  /\ Fail
  /\ UNCHANGED <<shared, reqVars, upVars, respVars, cut>>

\* 30 s without data, or the loop dropped its sender.
ReadFails ==
  /\ pc \in {"handshake", "request"}
  /\ Fail
  /\ UNCHANGED <<shared, reqVars, upVars, respVars, cut>>

\* A refusal is answered; only that of the allowlist ignores a failed write.
Refuse ==
  /\ pc = "verdict" /\ Verdict(req) # 0
  /\ reply' = IF cut THEN 0 ELSE Verdict(req)
  /\ pc' = "done"
  /\ result' = IF cut /\ Verdict(req) # 403 THEN "err" ELSE "ok"
  /\ UNCHANGED <<shared, req, have, upVars, respVars, cut>>

\* The host is recorded before the connection is tried.
Pass ==
  /\ pc = "verdict" /\ Verdict(req) = 0
  /\ discovered' = discovered \cup {req.sni}
  /\ pc' = "connect"
  /\ UNCHANGED <<policy, conns, cache, reqVars, upVars, respVars, result, cut>>

\* connect_upstream: no IPv4 address, a private one, a refusal or the timeout
\* of 10 s end the thread.
Connect(a) ==
  /\ pc = "connect"
  /\ ExplicitlyAllowed(req.sni) \/ ~IsPrivateIp(a)
  /\ addr' = a
  /\ pc' = "upHandshake"
  /\ UNCHANGED <<shared, reqVars, tries, up, respVars, result, cut>>

UpstreamHandshake ==
  /\ pc = "upHandshake" /\ tries < MaxTries
  /\ tries' = tries + 1
  /\ pc' \in {"upHandshake", "send"}
  /\ UNCHANGED <<shared, reqVars, addr, up, respVars, result, cut>>

\* The connection and the handshake (its iterations included) may fail, or
\* take longer than 10 s and 30 s; so may the writes of the request.
UpstreamFails ==
  /\ pc \in {"connect", "upHandshake", "send"}
  /\ Fail
  /\ UNCHANGED <<shared, reqVars, upVars, respVars, cut>>

\* Whatever was read behind the body goes upstream with it.
Send ==
  /\ pc = "send"
  /\ up' = LET r == Inject(RewriteRequest(req), req.sni, Secrets)
           IN  [line |-> r.line, target |-> r.target, hosts |-> r.hosts,
                headers |-> r.headers, bodyHolds |-> r.bodyHolds, body |-> have - HeadSize]
  /\ pc' = "relay" /\ tries' = 0
  /\ UNCHANGED <<shared, reqVars, addr, respVars, result, cut>>

----------------------------------------------------------------------------
(* The response *)

\* The headers, scrubbed and rewritten, and the body's beginning, scrubbed.
Headers(text) ==
  LET end == HeaderEnd(text)
      hd  == RewriteClose(Scrub(SubSeq(text, 1, end), req.sni, Secrets))
      rest == WriteScrubbed(<<>>, SubSeq(text, end + 1, Len(text)), req.sni, Secrets)
  IN  [rest EXCEPT !.out = hd \o @]

\* Plaintext of the response: over the limit it ends the thread, before the
\* end of the headers it is kept, behind it it is scrubbed and written.
RelayRead(t) ==
  /\ pc = "relay"
  /\ got' = got \o t
  /\ LET text == headerBuf \o t
         w == IF headersSent THEN WriteScrubbed(overlap, t, req.sni, Secrets) ELSE Headers(text)
     IN  IF Len(got') > MaxResponse
         THEN Fail /\ UNCHANGED <<headerBuf, headersSent, overlap, toGuest>>
         ELSE IF ~headersSent /\ HeaderEnd(text) = 0
         THEN headerBuf' = text /\ UNCHANGED <<pc, result, headersSent, overlap, toGuest>>
         ELSE IF cut /\ w.out # <<>>
         THEN Fail /\ UNCHANGED <<headerBuf, headersSent, overlap, toGuest>>
         ELSE /\ headersSent' = TRUE /\ headerBuf' = <<>>
              /\ overlap' = w.overlap
              /\ toGuest' = toGuest \o w.out
              /\ UNCHANGED <<pc, result>>
  /\ UNCHANGED <<shared, reqVars, upVars, cut>>

\* close_notify from upstream: headers without an end are sent as they are.
UpstreamClosed ==
  /\ pc = "relay"
  /\ IF ~headersSent /\ headerBuf # <<>>
     THEN IF cut THEN Fail /\ UNCHANGED toGuest
          ELSE /\ toGuest' = toGuest \o RewriteClose(Scrub(headerBuf, req.sni, Secrets))
               /\ pc' = "flush" /\ UNCHANGED result
     ELSE pc' = "flush" /\ UNCHANGED <<toGuest, result>>
  /\ UNCHANGED <<shared, reqVars, upVars, got, headerBuf, headersSent, overlap, cut>>

\* The end of the stream without close_notify, or 120 s without data: the same
\* for the guest, except that headers without an end are dropped.
UpstreamStops ==
  /\ pc = "relay"
  /\ pc' = "flush"
  /\ UNCHANGED <<shared, reqVars, upVars, respVars, result, cut>>

\* Any other error of the read: what is kept back is not written any more.
RelayFails ==
  /\ pc = "relay"
  /\ Fail
  /\ UNCHANGED <<shared, reqVars, upVars, respVars, cut>>

\* What was kept back goes out, then close_notify.
Flush ==
  /\ pc = "flush"
  /\ pc' = "done"
  /\ IF cut /\ overlap # <<>>
     THEN result' = "err" /\ UNCHANGED <<toGuest, overlap>>
     ELSE result' = "ok" /\ toGuest' = toGuest \o overlap /\ overlap' = <<>>
  /\ UNCHANGED <<shared, reqVars, upVars, got, headerBuf, headersSent, cut>>

----------------------------------------------------------------------------
(* The loop, and the specification *)

\* The guest reset the connection or the program ends: both channels close.
LoopDrops ==
  /\ ~cut /\ pc # "done"
  /\ cut' = TRUE
  /\ UNCHANGED <<policy, pc, conns, reqVars, upVars, respVars, result, cache, discovered>>

Fresh(r) ==
  /\ req' = r /\ have' = 0 /\ reply' = 0
  /\ addr' = <<>> /\ tries' = 0 /\ up' = Nothing
  /\ got' = <<>> /\ headerBuf' = <<>> /\ headersSent' = FALSE /\ overlap' = <<>> /\ toGuest' = <<>>
  /\ pc' = "handshake" /\ result' = "none" /\ cut' = FALSE

\* The guest's next connection has a thread of its own; the certificates and
\* the discovered hosts stay.
NextConnection(r) ==
  /\ pc = "done" /\ conns < MaxConns
  /\ conns' = conns + 1
  /\ Fresh(r)
  /\ UNCHANGED <<policy, cache, discovered>>

Init ==
  /\ policy \in Policies
  /\ req \in Requests
  /\ conns = 1 /\ have = 0 /\ reply = 0
  /\ addr = <<>> /\ tries = 0 /\ up = Nothing
  /\ got = <<>> /\ headerBuf = <<>> /\ headersSent = FALSE /\ overlap = <<>> /\ toGuest = <<>>
  /\ pc = "handshake" /\ result = "none" /\ cut = FALSE
  /\ cache = {} /\ discovered = {}

Pieces == UNION {[1 .. n -> Symbols] : n \in 1 .. MaxPiece}

\* What the thread does without anybody's help, its timeouts included.
Own == ReadFails \/ Refuse \/ Pass \/ UpstreamFails \/ Send \/ UpstreamStops \/ Flush

Next ==
  \/ Own
  \/ Handshake \/ (\E n \in 1 .. MaxPiece : ReadPiece(n)) \/ GuestCloses
  \/ (\E a \in Addresses : Connect(a)) \/ UpstreamHandshake
  \/ (\E t \in Pieces : RelayRead(t)) \/ UpstreamClosed \/ RelayFails
  \/ LoopDrops
  \/ \E r \in Requests : NextConnection(r)

\* Nobody else is obliged to do anything: neither the guest nor the host
\* upstream, and a write to the loop fails or goes through (ProxyLoop).
Spec == Init /\ [][Next]_vars /\ WF_vars(Own)

----------------------------------------------------------------------------
(* What must hold *)

\* The address ranges is_private_ip has to cover, from the comments beside its
\* patterns: first octets of the network, and its size in blocks of 256.
Ranges == { <<<<10, 0, 0>>, 65536>>, <<<<172, 16, 0>>, 4096>>, <<<<192, 168, 0>>, 256>>,
            <<<<169, 254, 0>>, 256>>, <<<<127, 0, 0>>, 65536>>, <<<<0, 0, 0>>, 65536>>,
            <<<<100, 64, 0>>, 16384>>, <<<<192, 0, 0>>, 1>>, <<<<192, 88, 99>>, 1>>,
            <<<<198, 18, 0>>, 512>>, <<<<224, 0, 0>>, 1048576>>, <<<<240, 0, 0>>, 1048576>> }

Number(o) == 65536 * o[1] + 256 * o[2] + o[3]

Reserved(o) == \E r \in Ranges : Number(o) \div r[2] = Number(r[1]) \div r[2]

\* A real value leaves the program only in a header of a request to a host the
\* secret is for, which the allowlist (if there is one) names and which the
\* first Host header of what is sent does not contradict; and a request goes to
\* a reserved address only if the user listed its host (proxy.rs:990-1112).
\* Named exceptions: a further Host header and a target in absolute form go
\* upstream as they are, whatever host they name (proxy.rs:1627-1630).
SecretsGoHome ==
  up # Nothing =>
    /\ \A s \in ToSet(Secrets) : Real(s) \in Tokens(up) =>
         /\ req.sni \in s.hosts
         /\ Real(s) \notin up.line \cup up.bodyHolds
    /\ Allowed(req.sni)
    /\ up.hosts # <<>> => up.hosts[1] = req.sni
    /\ Reserved(addr) => \E p \in policy.allow : p.name # NoHost /\ HostMatches(p, req.sni)

\* What goes upstream is a whole request and not what follows it: its only
\* length is satisfied, nothing is read any more once it is, it has no chunked
\* body, it asks for a response that is closed behind its end and not
\* compressed, on which both the relay and the scrubbing rely.  Named
\* exception: what the read that completed the request brought of a next one
\* goes upstream behind the body (proxy.rs:952-1085, secret.rs:346-385).
WholeRequestSent ==
  up # Nothing =>
    /\ \A i \in DOMAIN req.lengths : req.lengths[i] >= 0 => up.body >= req.lengths[i]
    /\ up.body < ContentLength(req) + MaxPiece
    /\ ~req.chunked
    /\ {h.kind : h \in up.headers} \cap {"acceptEncoding", "keepAlive", "close"} = {"close"}

\* However the response is cut into pieces, the guest never gets a real value
\* of a secret of that host.  Two named exceptions: a value longer than the cap,
\* and one with a piece of the header that the program itself adds behind the
\* scrubbing (secret.rs:311, proxy.rs:1238, 1470-1499).
NoSecretToGuest ==
  \A s \in ToSet(Secrets) :
    req.sni \in s.hosts /\ Len(s.real) \in 1 .. ScrubCap /\ CloseHeader \notin ToSet(s.real)
      => ~Shows(toGuest, s.real)

\* A non-empty proper end of s that begins t.
Meets(s, t) == \E k \in 1 .. Smaller(Len(s), Len(t)) :
                 /\ SubSeq(s, Len(s) - k + 1, Len(s)) = SubSeq(t, 1, k)
                 /\ k < Len(s) \/ k < Len(t)

\* No two secrets overlap, none is within another or too long.
Separate == \A s, t \in ToSet(Secrets) :
  /\ Len(s.real) <= ScrubCap
  /\ ~Meets(s.real, t.real)
  /\ s # t => ~Shows(s.real, t.real)

\* What the whole response would be, scrubbed in one piece.
Whole(t) == LET end == HeaderEnd(t)
            IN  RewriteClose(Scrub(SubSeq(t, 1, end), req.sni, Secrets))
                \o Scrub(SubSeq(t, end + 1, Len(t)), req.sni, Secrets)

\* The pieces the guest gets are the response scrubbed as one piece: at any
\* time what was written and what is kept back make it up, and behind the
\* close_notify nothing of it is missing.  Two named exceptions: secrets that
\* overlap, and headers without an end, which UpstreamStops drops.
ChunksMakeTheWhole ==
  headersSent /\ Separate /\ result # "err" =>
    /\ toGuest \o overlap = Whole(got)
    /\ result = "ok" => overlap = <<>>

\* Every connection's thread ends, whatever the guest, the host upstream and
\* the loop do, and however long they take (proxy.rs:895, 1117-1147).
ThreadReturns == pc = "handshake" ~> pc = "done"
=============================================================================
