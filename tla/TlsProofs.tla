----------------------------- MODULE TlsProofs ------------------------------
(***************************************************************************)
(* Where real values go, for any requests that hold none of them, any      *)
(* allowlists and secrets and every address DNS may answer.                *)
(*                                                                         *)
(* A request is sent only behind its verdict and behind the look at the    *)
(* address, and neither the request nor the policy changes in between      *)
(* (PathInv); what is sent is what inject made of it (SentWell); and what  *)
(* is_private_ip lets through lies in no reserved range (ReservedPrivate). *)
(*                                                                         *)
(* And what the guest gets back, for any responses, pieces of them and     *)
(* secrets: no secret of the host is in what byte_replace (Rest) and scrub *)
(* (ScrubDoes) leave of a window, and none comes to lie across a chunk's   *)
(* end, because enough is kept back or a byte no secret has stands between *)
(* (Edge, Straddle); ScrubInv carries this from chunk to chunk.            *)
(*                                                                         *)
(* For secrets that do not overlap the chunks are moreover the response    *)
(* scrubbed as one piece: two replacements commute (ReplacesCommute), so   *)
(* scrub takes back nothing it did before (ScrubAgain), and it leaves what *)
(* it has done with alone (ScrubBehind); so one more chunk is one more     *)
(* piece of the whole (ChunkWhole), which WholeTextInv carries along.      *)
(***************************************************************************)
EXTENDS TlsPipeline, SequenceTheorems, WellFoundedInduction, TLAPS

Beyond == {"connect", "upHandshake", "send", "relay", "flush"}

AddressFits == addr \in Addresses /\ (ExplicitlyAllowed(req.sni) \/ ~IsPrivateIp(addr))

\* What is known of a request once it was sent.
SentWell ==
  /\ Verdict(req) = 0 /\ AddressFits /\ up.hosts = req.hosts
  /\ \A s \in ToSet(Secrets) :
       Real(s) \in Tokens(up) => req.sni \in s.hosts /\ Real(s) \notin up.line \cup up.bodyHolds

PathInv ==
  /\ policy \in Policies /\ req \in Requests
  /\ pc \in Beyond => Verdict(req) = 0
  /\ pc \in Beyond \ {"connect"} => AddressFits
  /\ up = Nothing \/ pc \in {"relay", "flush", "done"}
  /\ up # Nothing => SentWell

----------------------------------------------------------------------------
(* Single operators *)

\* is_private_ip covers every range of the comments beside it.
LEMMA ReservedPrivate ==
  ASSUME NEW o \in (0 .. 255) \X (0 .. 255) \X (0 .. 255), Reserved(o)
  PROVE  IsPrivateIp(o)
<1> DEFINE a == o[1]  b == o[2]  c == o[3]
<1>1. a \in 0 .. 255 /\ b \in 0 .. 255 /\ c \in 0 .. 255
  OBVIOUS
<1>2. PICK r \in Ranges : Number(o) \div r[2] = Number(r[1]) \div r[2]
  BY DEF Reserved
<1>3. Number(o) = 65536 * a + 256 * b + c
  BY DEF Number
<1> HIDE DEF a, b, c
<1>4. IsPrivateIp(o) =
        \/ a \in {0, 10, 127} \cup 224 .. 255
        \/ a = 172 /\ b \in 16 .. 31
        \/ a = 192 /\ b = 168
        \/ a = 169 /\ b = 254
        \/ a = 100 /\ b \in 64 .. 127
        \/ a = 192 /\ b = 0 /\ c = 0
        \/ a = 192 /\ b = 88 /\ c = 99
        \/ a = 198 /\ b \in 18 .. 19
  BY DEF IsPrivateIp, a, b, c
<1>5. CASE r[2] = 65536
  <2>1. Number(r[1]) \in {655360, 8323072, 0}
    BY <1>2, <1>5 DEF Ranges, Number
  <2>2. Number(r[1]) \div 65536 \in {0, 10, 127}
    BY <2>1
  <2>3. (65536 * a + 256 * b + c) \div 65536 = a
    BY <1>1
  <2> QED
    BY <1>2, <1>3, <1>4, <1>5, <2>2, <2>3
<1>6. CASE r[2] = 256
  <2>1. Number(r[1]) \in {12625920, 11140608}
    BY <1>2, <1>6 DEF Ranges, Number
  <2> QED
    BY <1>1, <1>2, <1>3, <1>4, <1>6, <2>1
<1>7. CASE r[2] = 1
  <2>1. Number(r[1]) \in {12582912, 12605539}
    BY <1>2, <1>7 DEF Ranges, Number
  <2> QED
    BY <1>1, <1>2, <1>3, <1>4, <1>7, <2>1
<1>8. CASE r[2] \in {4096, 512, 16384}
  <2>1. \/ r[2] = 4096 /\ Number(r[1]) = 11276288
        \/ r[2] = 512 /\ Number(r[1]) = 12980736
        \/ r[2] = 16384 /\ Number(r[1]) = 6569984
    BY <1>2, <1>8 DEF Ranges, Number
  <2>2. CASE r[2] = 4096 /\ Number(r[1]) = 11276288
    BY <1>1, <1>2, <1>3, <1>4, <2>2
  <2>3. CASE r[2] = 512 /\ Number(r[1]) = 12980736
    BY <1>1, <1>2, <1>3, <1>4, <2>3
  <2>4. CASE r[2] = 16384 /\ Number(r[1]) = 6569984
    BY <1>1, <1>2, <1>3, <1>4, <2>4
  <2> QED
    BY <2>1, <2>2, <2>3, <2>4
<1>9. CASE r[2] = 1048576
  <2>1. Number(r[1]) \in {14680064, 15728640}
    BY <1>2, <1>9 DEF Ranges, Number
  <2> QED
    BY <1>1, <1>2, <1>3, <1>4, <1>9, <2>1
<1>10. r[2] \in {65536, 256, 1, 4096, 512, 16384, 1048576}
  BY <1>2 DEF Ranges
<1> QED
  BY <1>5, <1>6, <1>7, <1>8, <1>9, <1>10

\* A request without a refusal is for a host that the allowlist names and that
\* its first Host header does not contradict.
LEMMA VerdictMeans ==
  ASSUME NEW r, Verdict(r) = 0
  PROVE  Allowed(r.sni) /\ (r.hosts # <<>> => Head(r.hosts) = r.sni)
BY DEF Verdict

\* What inject adds to a header is the values of the secrets of the host, and
\* the request line and the body stay as they were.
LEMMA InjectAdds ==
  ASSUME NEW r \in Requests, NEW p \in Policies, NEW host, NEW s \in ToSet(p.secrets)
  PROVE  LET sent == Inject(RewriteRequest(r), host, p.secrets)
         IN  /\ sent.line = r.line /\ sent.bodyHolds = r.bodyHolds
             /\ \A h \in sent.headers : Real(s) \in h.holds => host \in s.hosts
<1> DEFINE w == RewriteRequest(r)
           mine == Mine(host, p.secrets)
           sent == Inject(w, host, p.secrets)
<1>1. /\ {"line", "headers", "bodyHolds"} \subseteq DOMAIN r
      /\ \A h \in r.headers : {"kind", "holds"} \subseteq DOMAIN h /\ Real(s) \notin h.holds
  BY RequestAssumption DEF Tokens
<1>2. /\ {"line", "headers", "bodyHolds"} \subseteq DOMAIN w
      /\ w.line = r.line /\ w.bodyHolds = r.bodyHolds
      /\ \A h \in w.headers : {"kind", "holds"} \subseteq DOMAIN h /\ Real(s) \notin h.holds
  BY <1>1 DEF RewriteRequest, ConnectionClose
<1>3. /\ sent.line = r.line /\ sent.bodyHolds = r.bodyHolds
      /\ sent.headers = {InjectHeader(h, mine) : h \in w.headers}
  BY <1>2 DEF Inject
<1>4. ASSUME NEW h \in w.headers, Real(s) \in InjectHeader(h, mine).holds
      PROVE  host \in s.hosts
  <2>1. InjectHeader(h, mine).holds = h.holds \/ InjectHeader(h, mine).holds = Swapped(h.holds, mine)
    BY <1>2 DEF InjectHeader
  <2>2. Real(s) \in Swapped(h.holds, mine) /\ Real(s) \notin h.holds
    BY <1>2, <1>4, <2>1
  <2>3. PICK t \in mine : Real(s) = Real(t)
    BY <2>2 DEF Swapped
  <2>4. t \in ToSet(p.secrets) /\ host \in t.hosts /\ s.id = t.id
    BY <2>3 DEF Mine, Applies, Real
  <2>5. s = t
    BY <2>4, PolicyAssumption
  <2> QED
    BY <2>4, <2>5
<1> QED
  BY <1>3, <1>4

LEMMA InjectHosts ==
  ASSUME NEW r \in Requests, NEW host, NEW secrets
  PROVE  Inject(RewriteRequest(r), host, secrets).hosts = r.hosts
<1>1. {"hosts", "headers"} \subseteq DOMAIN r
  BY RequestAssumption
<1> QED
  BY <1>1 DEF Inject, RewriteRequest

----------------------------------------------------------------------------
(* The steps of a thread *)

LEMMA InitPath == Init => PathInv
BY DEF Init, PathInv, Beyond

\* A step that keeps the request, the address and what was sent, and that does
\* not come to a place behind the verdict or the address from before it.
LEMMA CourseStep ==
  ASSUME PathInv, UNCHANGED <<policy, req, addr, up>>,
         pc' \in Beyond => pc \in Beyond,
         pc' \in Beyond \ {"connect"} => pc \in Beyond \ {"connect"},
         pc \in {"relay", "flush", "done"} => pc' \in {"relay", "flush", "done"}
  PROVE  PathInv'
<1>1. Verdict(req)' = Verdict(req)
  BY DEF Verdict, Allowed
<1>2. AddressFits' = AddressFits
  BY DEF AddressFits, ExplicitlyAllowed
<1>3. SentWell' = SentWell
  BY <1>1, <1>2 DEF SentWell, Secrets
<1> QED
  BY <1>1, <1>2, <1>3 DEF PathInv

LEMMA BeforeSteps ==
  ASSUME PathInv,
         \/ Handshake \/ (\E n \in 1 .. MaxPiece : ReadPiece(n)) \/ GuestCloses \/ ReadFails
         \/ Refuse \/ UpstreamHandshake \/ UpstreamFails \/ LoopDrops
  PROVE  PathInv'
<1> USE DEF shared, reqVars, upVars, respVars, Fail, Beyond
<1>1. CASE Handshake
  BY <1>1, CourseStep DEF Handshake
<1>2. ASSUME NEW n \in 1 .. MaxPiece, ReadPiece(n) PROVE PathInv'
  BY <1>2, CourseStep DEF ReadPiece
<1>3. CASE GuestCloses
  BY <1>3, CourseStep DEF GuestCloses
<1>4. CASE ReadFails
  BY <1>4, CourseStep DEF ReadFails
<1>5. CASE Refuse
  BY <1>5, CourseStep DEF Refuse
<1>6. CASE UpstreamHandshake
  BY <1>6, CourseStep DEF UpstreamHandshake
<1>7. CASE UpstreamFails
  BY <1>7, CourseStep DEF UpstreamFails
<1>8. CASE LoopDrops
  BY <1>8, CourseStep DEF LoopDrops
<1> QED
  BY <1>1, <1>2, <1>3, <1>4, <1>5, <1>6, <1>7, <1>8

LEMMA RelaySteps ==
  ASSUME PathInv,
         \/ (\E t \in Pieces : RelayRead(t)) \/ UpstreamClosed \/ UpstreamStops \/ RelayFails \/ Flush
  PROVE  PathInv'
<1> USE DEF shared, reqVars, upVars, respVars, Fail, Beyond
<1>1. ASSUME NEW t \in Pieces, RelayRead(t) PROVE PathInv'
  <2>1. pc = "relay" /\ pc' \in {"relay", "done"} /\ UNCHANGED <<policy, req, addr, up>>
    BY <1>1 DEF RelayRead
  <2> QED
    BY <2>1, CourseStep
<1>2. CASE UpstreamClosed
  BY <1>2, CourseStep DEF UpstreamClosed
<1>3. CASE UpstreamStops
  BY <1>3, CourseStep DEF UpstreamStops
<1>4. CASE RelayFails
  BY <1>4, CourseStep DEF RelayFails
<1>5. CASE Flush
  BY <1>5, CourseStep DEF Flush
<1> QED
  BY <1>1, <1>2, <1>3, <1>4, <1>5

\* The verdict, the address and the request that is sent.
LEMMA OutwardSteps ==
  ASSUME PathInv, Pass \/ (\E a \in Addresses : Connect(a)) \/ Send
  PROVE  PathInv'
<1> USE DEF shared, reqVars, upVars, respVars, Beyond
<1>1. CASE Pass
  <2>1. /\ pc = "verdict" /\ pc' = "connect" /\ Verdict(req) = 0
        /\ UNCHANGED <<policy, req, up>>
    BY <1>1 DEF Pass
  <2>2. Verdict(req)' = 0
    BY <2>1 DEF Verdict, Allowed
  <2> QED
    BY <2>1, <2>2 DEF PathInv
<1>2. ASSUME NEW a \in Addresses, Connect(a) PROVE PathInv'
  <2>1. /\ pc = "connect" /\ pc' = "upHandshake" /\ addr' = a
        /\ ExplicitlyAllowed(req.sni) \/ ~IsPrivateIp(a)
        /\ UNCHANGED <<policy, req, up>>
    BY <1>2 DEF Connect
  <2>2. Verdict(req)' = 0
    BY <2>1 DEF PathInv, Verdict, Allowed
  <2>3. AddressFits'
    BY <2>1 DEF AddressFits, ExplicitlyAllowed
  <2> QED
    BY <2>1, <2>2, <2>3 DEF PathInv
<1>3. CASE Send
  <2> DEFINE r == Inject(RewriteRequest(req), req.sni, Secrets)
  <2>1. /\ pc = "send" /\ pc' = "relay" /\ UNCHANGED <<policy, req, addr>>
        /\ up' = [line |-> r.line, target |-> r.target, hosts |-> r.hosts,
                  headers |-> r.headers, bodyHolds |-> r.bodyHolds, body |-> have - HeadSize]
    BY <1>3 DEF Send
  <2>2. Verdict(req)' = 0
    BY <2>1 DEF PathInv, Verdict, Allowed
  <2>3. AddressFits'
    BY <2>1 DEF PathInv, AddressFits, ExplicitlyAllowed
  <2>4. ASSUME NEW s \in ToSet(Secrets), Real(s) \in Tokens(up')
        PROVE  req.sni \in s.hosts /\ Real(s) \notin up'.line \cup up'.bodyHolds
    <3>1. req \in Requests /\ policy \in Policies
      BY DEF PathInv
    <3>2. /\ up'.line = req.line /\ up'.bodyHolds = req.bodyHolds /\ up'.headers = r.headers
          /\ \A h \in up'.headers : Real(s) \in h.holds => req.sni \in s.hosts
      BY <2>1, <3>1, InjectAdds DEF Secrets
    <3>3. Real(s) \notin req.line \cup req.bodyHolds
      BY <3>1, RequestAssumption DEF Tokens, Secrets
    <3> QED
      BY <2>4, <3>2, <3>3 DEF Tokens
  <2>5. up'.hosts = req.hosts
    <3>1. req \in Requests /\ policy \in Policies
      BY DEF PathInv
    <3>2. r.hosts = req.hosts
      BY <3>1, InjectHosts
    <3> QED
      BY <2>1, <3>2
  <2>6. SentWell'
    BY <2>1, <2>2, <2>3, <2>4, <2>5 DEF SentWell, Secrets
  <2> QED
    BY <2>1, <2>2, <2>3, <2>6 DEF PathInv
<1> QED
  BY <1>1, <1>2, <1>3

LEMMA NextPath == PathInv /\ [Next]_vars => PathInv'
<1> SUFFICES ASSUME PathInv, [Next]_vars PROVE PathInv'
  OBVIOUS
<1>1. ASSUME NEW r \in Requests, NextConnection(r) PROVE PathInv'
  BY <1>1 DEF NextConnection, Fresh, PathInv, Beyond
<1>2. CASE UNCHANGED vars
  BY <1>2, CourseStep DEF vars, reqVars, upVars
<1> QED
  BY <1>1, <1>2, BeforeSteps, RelaySteps, OutwardSteps DEF Next, Own

\* A real value leaves the program only in a header of a request to a host the
\* secret is for and the allowlist names, with no other host in its first Host
\* header; and a request goes to a reserved address only if the user listed its
\* host (proxy.rs:990-1112).
THEOREM SecretsStayHome == Spec => []SecretsGoHome
<1>1. ASSUME PathInv PROVE SecretsGoHome
  <2> SUFFICES ASSUME up # Nothing PROVE SecretsGoHome
    BY DEF SecretsGoHome
  <2>1. SentWell /\ policy \in Policies
    BY <1>1 DEF PathInv
  <2>2. Allowed(req.sni) /\ (up.hosts # <<>> => up.hosts[1] = req.sni)
    BY <2>1, VerdictMeans DEF SentWell
  <2>3. ASSUME Reserved(addr)
        PROVE  \E p \in policy.allow : p.name # NoHost /\ HostMatches(p, req.sni)
    <3>1. IsPrivateIp(addr)
      BY <2>1, <2>3, ReservedPrivate, AddressAssumption DEF SentWell, AddressFits
    <3>2. policy.allow # NoList /\ \E p \in policy.allow : HostMatches(p, req.sni)
      BY <2>1, <3>1 DEF SentWell, AddressFits, ExplicitlyAllowed
    <3> QED
      BY <2>1, <3>2, PolicyAssumption
  <2> QED
    BY <2>1, <2>2, <2>3 DEF SecretsGoHome, SentWell
<1> QED
  BY <1>1, InitPath, NextPath, PTL DEF Spec

----------------------------------------------------------------------------
(* One whole request *)

LEMMA Least ==
  ASSUME NEW S \in SUBSET Nat, S # {}
  PROVE  \E n \in S : \A m \in S : n <= m
<1> DEFINE R == {ss \in Nat \X Nat : ss[1] < ss[2]}
<1>1. IsWellFoundedOn(R, Nat)
  BY NatLessThanWellFounded DEF OpToRel
<1>2. PICK n \in S : \A m \in S : <<m, n>> \notin R
  BY <1>1, WFMin, Zenon
<1>3. \A m \in S : ~(m < n)
  BY <1>2
<1> QED
  BY <1>3

\* The length the code counts on is the only one that a request states, once
\* two that differ are refused.
LEMMA OnlyLength ==
  ASSUME NEW r \in Requests, ~Conflicting(r), NEW i \in DOMAIN r.lengths, r.lengths[i] >= 0
  PROVE  ContentLength(r) = r.lengths[i]
<1> DEFINE I == {j \in 1 .. Len(r.lengths) : r.lengths[j] >= 0}
<1>1. r.lengths \in Seq(Int) /\ i \in I
  BY RequestAssumption
<1>2. \A j \in DOMAIN r.lengths : r.lengths[j] = r.lengths[i]
  BY DEF Conflicting
<1>3. I \in SUBSET Nat /\ I # {} /\ I \subseteq DOMAIN r.lengths /\ 0 \notin I
  BY <1>1
<1>4. ContentLength(r) = r.lengths[Min(I)] \/ Min(I) = 0
  BY <1>3 DEF ContentLength, SelectInSeq
<1> HIDE DEF I
<1>5. Min(I) \in I
  BY <1>3, Least DEF Min
<1> QED
  BY <1>2, <1>3, <1>4, <1>5

LEMMA LengthIsNat == ASSUME NEW r \in Requests PROVE ContentLength(r) \in Nat
<1> DEFINE I == {j \in 1 .. Len(r.lengths) : r.lengths[j] >= 0}
<1>1. r.lengths \in Seq(Int)
  BY RequestAssumption
<1>2. I \in SUBSET Nat /\ \A j \in I : r.lengths[j] \in Nat
  BY <1>1
<1>3. CASE I = {}
  BY <1>3 DEF ContentLength, SelectInSeq
<1>4. CASE I # {}
  <2>1. ContentLength(r) = IF Min(I) = 0 THEN 0 ELSE r.lengths[Min(I)]
    BY <1>4 DEF ContentLength, SelectInSeq
  <2> HIDE DEF I
  <2>2. Min(I) \in I
    BY <1>2, <1>4, Least DEF Min
  <2>3. r.lengths[Min(I)] \in Nat
    BY <1>2, <2>2
  <2> QED
    BY <2>1, <2>3
<1> QED
  BY <1>3, <1>4

\* What is sent has one header of those that rewrite_request_headers deals with.
LEMMA OneConnectionHeader ==
  ASSUME NEW r \in Requests, NEW host, NEW secrets
  PROVE  {h.kind : h \in Inject(RewriteRequest(r), host, secrets).headers}
           \cap {"acceptEncoding", "keepAlive", "close"} = {"close"}
<1> DEFINE w == RewriteRequest(r)
           mine == Mine(host, secrets)
<1>1. /\ "headers" \in DOMAIN r
      /\ \A h \in r.headers : {"kind", "holds"} \subseteq DOMAIN h
  BY RequestAssumption
<1>2. w.headers = {h \in r.headers : h.kind \notin {"acceptEncoding", "keepAlive", "close"}}
                    \cup {ConnectionClose}
  BY <1>1 DEF RewriteRequest
<1>3. "headers" \in DOMAIN w
  BY <1>1 DEF RewriteRequest
<1>4. Inject(w, host, secrets).headers = {InjectHeader(h, mine) : h \in w.headers}
  BY <1>3 DEF Inject
<1>5. ASSUME NEW h \in w.headers PROVE InjectHeader(h, mine).kind = h.kind
  BY <1>1, <1>2 DEF InjectHeader, ConnectionClose
<1>6. ConnectionClose.kind = "close"
  BY DEF ConnectionClose
<1> DEFINE three == {"acceptEncoding", "keepAlive", "close"}
<1>7. {InjectHeader(h, mine).kind : h \in w.headers} \cap three = {"close"}
  <2>1. ASSUME NEW h \in w.headers, h.kind \in three PROVE h.kind = "close"
    BY <1>2, <1>6, <2>1
  <2>2. ConnectionClose \in w.headers /\ "close" \in three
    BY <1>2
  <2> HIDE DEF w, mine, three
  <2>3. "close" \in {InjectHeader(h, mine).kind : h \in w.headers}
    BY <1>5, <1>6, <2>2
  <2> QED
    BY <1>5, <2>1, <2>2, <2>3
<1>8. {h.kind : h \in Inject(w, host, secrets).headers} = {InjectHeader(h, mine).kind : h \in w.headers}
  <2> HIDE DEF w, mine
  <2> QED
    BY <1>4
<1> QED
  BY <1>7, <1>8

Weighed == {"verdict", "connect", "upHandshake", "send"}

\* A request that is all there, with less than a piece behind it.
JustComplete(r, n) == Complete(r, n) /\ n - HeadSize < ContentLength(r) + MaxPiece

\* What is read is not all there yet; behind the reading it just is, and what is
\* sent is that.
WholeInv ==
  /\ have \in Nat
  /\ pc \in {"handshake", "request"} => ~Complete(req, have)
  /\ pc \in Weighed => JustComplete(req, have)
  /\ up # Nothing =>
       /\ JustComplete(req, have) /\ up.body = have - HeadSize
       /\ {h.kind : h \in up.headers} \cap {"acceptEncoding", "keepAlive", "close"} = {"close"}

LEMMA InitWhole == Init => WholeInv
BY SizeAssumption DEF Init, WholeInv, Weighed, Complete

\* The piece that completes a request ends less than its size behind it.
LEMMA LastPiece ==
  ASSUME NEW r \in Requests, NEW m \in Nat, NEW n \in 1 .. MaxPiece,
         ~Complete(r, m), Complete(r, m + n)
  PROVE  JustComplete(r, m + n)
<1>1. ContentLength(r) \in Nat /\ HeadSize \in Nat /\ MaxPiece \in Nat /\ n \in Nat /\ n <= MaxPiece
  BY LengthIsNat, SizeAssumption, SymbolAssumption
<1>2. m < HeadSize \/ m - HeadSize < ContentLength(r)
  BY <1>1 DEF Complete
<1> QED
  BY <1>1, <1>2 DEF JustComplete

\* A step that reads and sends nothing.
LEMMA WeighedStep ==
  ASSUME WholeInv, UNCHANGED <<req, have, up>>, pc' \in Weighed => pc \in Weighed,
         pc' \in {"handshake", "request"} => pc \in {"handshake", "request"}
  PROVE  WholeInv'
<1>1. /\ Complete(req, have)' = Complete(req, have)
      /\ JustComplete(req, have)' = JustComplete(req, have)
  BY DEF Complete, JustComplete
<1> QED
  BY <1>1 DEF WholeInv

LEMMA NextWhole == PathInv /\ WholeInv /\ [Next]_vars => WholeInv'
<1> SUFFICES ASSUME PathInv, WholeInv, [Next]_vars PROVE WholeInv'
  OBVIOUS
<1> USE DEF shared, reqVars, upVars, respVars, Fail, Weighed
<1>1. ASSUME NEW n \in 1 .. MaxPiece, ReadPiece(n) PROVE WholeInv'
  <2>1. /\ have' = have + n /\ have' \in Nat /\ UNCHANGED <<req, up>>
        /\ IF Complete(req, have') THEN pc' = "verdict" ELSE pc' \in {"request", "done"}
    BY <1>1 DEF ReadPiece, WholeInv
  <2>2. up = Nothing /\ req \in Requests /\ have \in Nat /\ ~Complete(req, have)
    BY <1>1 DEF ReadPiece, PathInv, WholeInv
  <2>3. /\ Complete(req, have)' = Complete(req, have')
        /\ JustComplete(req, have)' = JustComplete(req, have')
    BY <2>1 DEF Complete, JustComplete
  <2>4. Complete(req, have') => JustComplete(req, have')
    BY <2>1, <2>2, LastPiece
  <2> QED
    BY <2>1, <2>2, <2>3, <2>4 DEF WholeInv
<1>2. CASE Send
  <2> DEFINE r == Inject(RewriteRequest(req), req.sni, Secrets)
  <2>1. /\ pc = "send" /\ pc' = "relay" /\ UNCHANGED <<req, have>>
        /\ up' = [line |-> r.line, target |-> r.target, hosts |-> r.hosts,
                  headers |-> r.headers, bodyHolds |-> r.bodyHolds, body |-> have - HeadSize]
    BY <1>2 DEF Send
  <2>2. JustComplete(req, have)' /\ have' \in Nat
    BY <2>1 DEF WholeInv, Weighed, Complete, JustComplete
  <2>3. {h.kind : h \in r.headers} \cap {"acceptEncoding", "keepAlive", "close"} = {"close"}
    BY OneConnectionHeader DEF PathInv
  <2>4. up'.headers = r.headers /\ up'.body = (have - HeadSize)'
    BY <2>1
  <2> QED
    BY <2>1, <2>2, <2>3, <2>4 DEF WholeInv
<1>3. CASE Handshake \/ GuestCloses \/ ReadFails \/ Refuse \/ Pass
  BY <1>3, WeighedStep DEF Handshake, GuestCloses, ReadFails, Refuse, Pass
<1>4. ASSUME NEW a \in Addresses, Connect(a) PROVE WholeInv'
  BY <1>4, WeighedStep DEF Connect
<1>5. CASE UpstreamHandshake \/ UpstreamFails
  BY <1>5, WeighedStep DEF UpstreamHandshake, UpstreamFails
<1>6. ASSUME NEW t \in Pieces, RelayRead(t) PROVE WholeInv'
  <2>1. pc = "relay" /\ pc' \in {"relay", "done"} /\ UNCHANGED <<req, have, up>>
    BY <1>6 DEF RelayRead
  <2> QED
    BY <2>1, WeighedStep
<1>7. CASE UpstreamClosed
  <2>1. pc' \in {"flush", "done"} /\ UNCHANGED <<req, have, up>>
    BY <1>7 DEF UpstreamClosed
  <2> QED
    BY <2>1, WeighedStep
<1>8. CASE UpstreamStops \/ RelayFails \/ Flush \/ LoopDrops
  BY <1>8, WeighedStep DEF UpstreamStops, RelayFails, Flush, LoopDrops
<1>9. ASSUME NEW r \in Requests, NextConnection(r) PROVE WholeInv'
  BY <1>9, SizeAssumption DEF NextConnection, Fresh, WholeInv, Complete
<1>10. CASE UNCHANGED vars
  BY <1>10, WeighedStep DEF vars
<1> QED
  BY <1>1, <1>2, <1>3, <1>4, <1>5, <1>6, <1>7, <1>8, <1>9, <1>10 DEF Next, Own

\* What goes upstream is a whole request with the only length it states and with
\* less than the piece that completed it behind that, no chunked body, and
\* headers that make the response end with the connection and keep it readable
\* (proxy.rs:952-1085, secret.rs:346-385).
THEOREM OneRequestSent == Spec => []WholeRequestSent
<1>1. ASSUME PathInv, WholeInv PROVE WholeRequestSent
  <2> SUFFICES ASSUME up # Nothing PROVE WholeRequestSent
    BY DEF WholeRequestSent
  <2>1. req \in Requests /\ Verdict(req) = 0
    BY <1>1 DEF PathInv, SentWell
  <2>2. ~Conflicting(req) /\ ~req.chunked
    BY <2>1 DEF Verdict
  <2>3. Complete(req, have) /\ up.body = have - HeadSize /\ up.body < ContentLength(req) + MaxPiece
    BY <1>1 DEF WholeInv, JustComplete
  <2>4. ASSUME NEW i \in DOMAIN req.lengths, req.lengths[i] >= 0 PROVE up.body >= req.lengths[i]
    BY <2>1, <2>2, <2>3, <2>4, OnlyLength DEF Complete
  <2> QED
    BY <1>1, <2>2, <2>3, <2>4 DEF WholeRequestSent, WholeInv
<1>2. Init => PathInv /\ WholeInv
  BY InitPath, InitWhole
<1>3. PathInv /\ WholeInv /\ [Next]_vars => PathInv' /\ WholeInv'
  BY NextPath, NextWhole
<1> QED
  BY <1>1, <1>2, <1>3, PTL DEF Spec

----------------------------------------------------------------------------
(* The scrubber: what byte_replace makes of a text from its end backwards  *)

\* One step of byte_replace's way through t, from i on, if g is what it makes of
\* the places behind i.
From(g, t, n, r, i) ==
  IF i > Len(t) THEN <<>>
  ELSE IF Occurs(n, t, i) THEN r \o g[i + Len(n)] ELSE <<t[i]>> \o g[i + 1]

LEMMA ReplaceWalks ==
  ASSUME NEW t \in Seq(Int), NEW n \in Words, n # <<>>, NEW r
  PROVE  \E g : /\ ByteReplace(t, n, r) = g[1]
                /\ \A i \in 1 .. Len(t) + Len(n) : g[i] = From(g, t, n, r, i)
<1> DEFINE L == Len(t) + Len(n)
<1>1. Len(t) \in Nat /\ Len(n) \in Nat /\ Len(n) >= 1 /\ L \in Nat
  BY EmptySeq DEF Words
<1> DEFINE Walked(g, m) == /\ g = [i \in 1 .. L |-> g[i]]
                           /\ \A i \in 1 .. L : i > L - m => g[i] = From(g, t, n, r, i)
           Bad == {m \in Nat : m <= L /\ ~\E g : Walked(g, m)}
<1> HIDE DEF L
<1>2. ASSUME Bad # {} PROVE FALSE
  <2>1. PICK m \in Bad : \A k \in Bad : m <= k
    <3>1. Bad \in SUBSET Nat
      OBVIOUS
    <3> HIDE DEF Bad
    <3> QED
      BY <1>2, <3>1, Least
  <2>2. m \in Nat /\ m <= L /\ ~\E g : Walked(g, m)
    BY <2>1
  <2>3. CASE m = 0
    <3> DEFINE g == [i \in 1 .. L |-> <<>>]
    <3>1. Walked(g, 0)
      BY <1>1
    <3> QED
      BY <2>2, <2>3, <3>1
  <2>4. CASE m # 0
    <3>1. m - 1 \in Nat /\ m - 1 <= L /\ ~(m <= m - 1)
      BY <1>1, <2>2, <2>4
    <3>2. PICK g : Walked(g, m - 1)
      <4> HIDE DEF Walked
      <4> QED
        BY <2>1, <3>1
    <3> DEFINE j == L - m + 1
               v == From(g, t, n, r, j)
               h == [i \in 1 .. L |-> IF i = j THEN v ELSE g[i]]
    <3>3. j \in 1 .. L
      BY <1>1, <2>2, <2>4
    <3> HIDE DEF v
    <3>4. h[j] = v /\ (\A i \in 1 .. L : i # j => h[i] = g[i]) /\ h = [i \in 1 .. L |-> h[i]]
      BY <3>3
    <3>5. ASSUME NEW i \in 1 .. L, i > L - m PROVE h[i] = From(h, t, n, r, i)
      <4>1. i >= j
        BY <1>1, <2>2, <3>5
      <4>2. i <= Len(t) => /\ i + 1 \in 1 .. L /\ i + Len(n) \in 1 .. L
                           /\ i + 1 # j /\ i + Len(n) # j
        BY <1>1, <3>3, <4>1 DEF L
      <4>3. From(h, t, n, r, i) = From(g, t, n, r, i)
        BY <1>1, <3>4, <4>2 DEF From
      <4>4. CASE i = j
        BY <3>4, <4>3, <4>4 DEF v
      <4>5. CASE i # j
        <5>1. i > L - (m - 1)
          BY <1>1, <2>2, <4>1, <4>5
        <5> QED
          BY <3>2, <3>4, <4>3, <4>5, <5>1
      <4> QED
        BY <4>4, <4>5
    <3>6. Walked(h, m)
      <4> HIDE DEF h
      <4> QED
        BY <3>4, <3>5
    <3> QED
      BY <2>2, <3>6
  <2> QED
    BY <2>3, <2>4
<1>3. \E g : Walked(g, L)
  BY <1>1, <1>2
<1> DEFINE Is(g) == g = [i \in 1 .. L |-> From(g, t, n, r, i)]
           walk == CHOOSE g : Is(g)
<1>4. PICK g0 : Walked(g0, L)
  BY <1>3
<1>5. Is(g0)
  <2>1. \A i \in 1 .. L : g0[i] = From(g0, t, n, r, i)
    BY <1>1, <1>4
  <2>2. g0 = [i \in 1 .. L |-> g0[i]]
    BY <1>4
  <2> QED
    BY <2>1, <2>2
<1>6. Is(walk)
  <2> HIDE DEF Is
  <2> QED
    BY <1>5
<1>7. ByteReplace(t, n, r) = walk[1]
  BY DEF ByteReplace, From, L
<1> HIDE DEF walk
<1>8. \A i \in 1 .. L : walk[i] = From(walk, t, n, r, i)
  <2> DEFINE e == [i \in 1 .. L |-> From(walk, t, n, r, i)]
  <2>1. walk = e
    BY <1>6
  <2>2. \A i \in 1 .. L : e[i] = From(walk, t, n, r, i)
    OBVIOUS
  <2> HIDE DEF e
  <2> QED
    BY <2>1, <2>2
<1> QED
  BY <1>7, <1>8 DEF L

\* What is known of a real value.
LEMMA WordFacts ==
  ASSUME NEW w \in Words
  PROVE  /\ w \in Seq(Int) /\ Len(w) \in Nat
         /\ w # <<>> => Len(w) >= 1
         /\ \A k \in 1 .. Len(w) : w[k] \in Nat /\ w[k] > 0
<1>1. w \in Seq(Nat \ {0})
  BY DEF Words
<1>2. w \in Seq(Int)
  BY <1>1, SeqMonotonic
<1>3. w # <<>> => Len(w) \in Nat \ {0}
  BY <1>1, EmptySeq
<1>4. \A k \in 1 .. Len(w) : w[k] \in Nat \ {0}
  BY <1>1, ElementOfSeq
<1>5. Len(w) \in Nat
  BY <1>1, LenProperties
<1> QED
  BY <1>2, <1>3, <1>4, <1>5

LEMMA Joined ==
  ASSUME NEW a \in Seq(Int), NEW b \in Seq(Int)
  PROVE  /\ a \o b \in Seq(Int)
         /\ Len(a) \in Nat /\ Len(b) \in Nat /\ Len(a \o b) = Len(a) + Len(b)
         /\ \A i \in 1 .. Len(a) : (a \o b)[i] = a[i] /\ a[i] \in Int
         /\ \A i \in 1 .. Len(b) : (a \o b)[Len(a) + i] = b[i] /\ b[i] \in Int
<1>1. Len(a) \in Nat /\ Len(b) \in Nat
  BY LenProperties
<1>2. /\ a \o b \in Seq(Int) /\ Len(a \o b) = Len(a) + Len(b)
      /\ \A i \in 1 .. Len(a) + Len(b) : (a \o b)[i] = IF i <= Len(a) THEN a[i] ELSE b[i - Len(a)]
  BY ConcatProperties
<1>3. (\A i \in 1 .. Len(a) : a[i] \in Int) /\ \A i \in 1 .. Len(b) : b[i] \in Int
  BY ElementOfSeq
<1>4. \A i \in 1 .. Len(b) : Len(a) + i \in 1 .. Len(a) + Len(b) /\ ~(Len(a) + i <= Len(a)) /\ Len(a) + i - Len(a) = i
  BY <1>1
<1> QED
  BY <1>1, <1>2, <1>3, <1>4

LEMMA JoinedTwice ==
  ASSUME NEW a \in Seq(Int), NEW b \in Seq(Int), NEW c \in Seq(Int)
  PROVE  (a \o b) \o c = a \o (b \o c)
BY ConcatAssociative, SMTT(30)

\* A needle behind the first part of a text is one of the second part.
LEMMA OccursBehind ==
  ASSUME NEW a \in Seq(Int), NEW b \in Seq(Int), NEW w \in Words,
         NEW j \in Nat \ {0}, j > Len(a)
  PROVE  Occurs(w, a \o b, j) <=> Occurs(w, b, j - Len(a))
<1> DEFINE u == a \o b  la == Len(a)  lb == Len(b)  n == Len(w)
<1>1. /\ la \in Nat /\ lb \in Nat /\ Len(u) = la + lb /\ n \in Nat
      /\ \A i \in 1 .. lb : u[la + i] = b[i]
  BY Joined, WordFacts
<1>2. Occurs(w, u, j) <=> j + n - 1 <= Len(u) /\ \A k \in 1 .. n : u[j + k - 1] = w[k]
  BY DEF Occurs
<1>3. Occurs(w, b, j - la) <=> j - la + n - 1 <= lb /\ \A k \in 1 .. n : b[j - la + k - 1] = w[k]
  BY DEF Occurs
<1>4. j > la
  OBVIOUS
<1> HIDE DEF u, la, lb, n
<1>5. ASSUME j + n - 1 <= Len(u), NEW k \in 1 .. n PROVE u[j + k - 1] = b[j - la + k - 1]
  <2>1. j - la + k - 1 \in 1 .. lb /\ la + (j - la + k - 1) = j + k - 1
    BY <1>1, <1>4, <1>5
  <2> QED
    BY <1>1, <2>1
<1>6. j - la + n - 1 <= lb <=> j + n - 1 <= Len(u)
  BY <1>1
<1>7. Occurs(w, u, j) <=> Occurs(w, b, j - la)
  BY <1>2, <1>3, <1>5, <1>6
<1> QED
  BY <1>7 DEF u, la

\* A needle at the beginning of a text lies there in whatever the text begins.
LEMMA OccursAhead ==
  ASSUME NEW a \in Seq(Int), NEW b \in Seq(Int), NEW w \in Words,
         NEW j \in Nat \ {0}, j + Len(w) - 1 <= Len(a)
  PROVE  Occurs(w, a \o b, j) <=> Occurs(w, a, j)
<1> DEFINE u == a \o b  la == Len(a)  n == Len(w)
<1>1. /\ la \in Nat /\ Len(u) >= la /\ n \in Nat
      /\ \A i \in 1 .. la : u[i] = a[i]
  BY Joined, WordFacts
<1>2. Occurs(w, u, j) <=> j + n - 1 <= Len(u) /\ \A k \in 1 .. n : u[j + k - 1] = w[k]
  BY DEF Occurs
<1>3. Occurs(w, a, j) <=> j + n - 1 <= la /\ \A k \in 1 .. n : a[j + k - 1] = w[k]
  BY DEF Occurs
<1>4. j + n - 1 <= la /\ Len(u) \in Nat
  BY Joined, LenProperties
<1> HIDE DEF u, la, n
<1>5. ASSUME NEW k \in 1 .. n PROVE u[j + k - 1] = a[j + k - 1]
  <2>1. j + k - 1 \in 1 .. la
    BY <1>1, <1>4
  <2> QED
    BY <1>1, <2>1
<1>6. Occurs(w, u, j) <=> Occurs(w, a, j)
  BY <1>1, <1>2, <1>3, <1>4, <1>5
<1> QED
  BY <1>6 DEF u

----------------------------------------------------------------------------
(* byte_replace *)

\* A byte no real value has: a place across which none is found.
Stopped(u) == \E k \in 1 .. Len(u) : u[k] <= 0

\* What is left of t from i on: at its beginning, and anywhere in it, is no word
\* but one of t; it is shorter only where a placeholder stands, and keeps
\* every byte a word cannot have.
Rest(u, t, i) ==
  /\ u \in Seq(Int)
  /\ \A w \in Words : w # <<>> /\ Occurs(w, u, 1) => Occurs(w, t, i)
  /\ \A w \in Words, j \in Nat \ {0} :
       w # <<>> /\ Occurs(w, u, j) => \E k \in i .. Len(t) : Occurs(w, t, k)
  /\ Len(u) >= Len(t) - i + 1 \/ Stopped(u)
  /\ (\E j \in i .. Len(t) : t[j] <= 0) => Stopped(u)
  /\ i <= Len(t) /\ t[Len(t)] <= 0 => Len(u) >= 1 /\ u[Len(u)] <= 0
  /\ i > Len(t) => Len(u) = 0

LEMMA RestEmpty ==
  ASSUME NEW t \in Seq(Int), NEW i \in Nat \ {0}, i > Len(t)
  PROVE  Rest(<<>>, t, i)
<1>1. <<>> \in Seq(Int) /\ Len(<<>>) = 0 /\ Len(t) \in Nat
  BY EmptySeq, LenProperties
<1>2. ASSUME NEW w \in Words, NEW j \in Nat \ {0}, w # <<>> PROVE ~Occurs(w, <<>>, j)
  <2>1. Len(w) \in Nat /\ Len(w) >= 1
    BY <1>2, WordFacts
  <2> QED
    BY <1>1, <2>1 DEF Occurs
<1>3. Len(<<>>) >= Len(t) - i + 1 /\ ~(i <= Len(t)) /\ 1 \in Nat \ {0}
  BY <1>1
<1>4. ~\E j \in i .. Len(t) : t[j] <= 0
  BY <1>1
<1> QED
  BY <1>1, <1>2, <1>3, <1>4 DEF Rest

\* A byte that is not replaced.
LEMMA RestKeeps ==
  ASSUME NEW t \in Seq(Int), NEW i \in 1 .. Len(t), NEW v, Rest(v, t, i + 1)
  PROVE  Rest(<<t[i]>> \o v, t, i)
<1> DEFINE a == <<t[i]>>  u == a \o v  lt == Len(t)
<1>1. /\ lt \in Nat /\ i \in Nat /\ i >= 1 /\ i <= lt /\ t[i] \in Int
  BY LenProperties, ElementOfSeq
<1>2. a \in Seq(Int) /\ Len(a) = 1 /\ a[1] = t[i]
  BY <1>1
<1>3. v \in Seq(Int) /\ Len(v) \in Nat
  BY LenProperties DEF Rest
<1>4. /\ u \in Seq(Int) /\ Len(u) = 1 + Len(v) /\ u[1] = t[i]
      /\ \A k \in 1 .. Len(v) : u[1 + k] = v[k] /\ v[k] \in Int
  BY <1>2, <1>3, Joined
<1>5. ASSUME NEW w \in Words, NEW j \in Nat \ {0}, j > 1
      PROVE  Occurs(w, u, j) <=> Occurs(w, v, j - 1)
  <2> HIDE DEF a
  <2>1. j > Len(a)
    BY <1>2, <1>5
  <2> QED
    BY <1>2, <1>3, <2>1, OccursBehind
<1> HIDE DEF a, u, lt
<1>6. ASSUME NEW w \in Words, w # <<>>, Occurs(w, u, 1) PROVE Occurs(w, t, i)
  <2>1. Len(w) \in Nat /\ Len(w) >= 1 /\ w \in Seq(Nat \ {0})
    BY <1>6, WordFacts DEF Words
  <2>2. w[1] = t[i]
    BY <1>4, <1>6, <2>1 DEF Occurs
  <2>3. CASE Len(w) = 1
    BY <1>1, <2>1, <2>2, <2>3 DEF Occurs, lt
  <2>4. CASE Len(w) > 1
    <3> DEFINE x == Tail(w)
    <3>1. x \in Seq(Nat \ {0}) /\ Len(x) = Len(w) - 1 /\ \A k \in 1 .. Len(x) : x[k] = w[k + 1]
      BY <1>6, <2>1, HeadTailProperties
    <3> HIDE DEF x
    <3>2. x \in Words /\ x # <<>>
      BY <2>1, <2>4, <3>1 DEF Words
    <3>3. ASSUME NEW k \in 1 .. Len(x) PROVE v[k] = x[k]
      <4>1. k + 1 \in 1 .. Len(w) /\ 1 + (k + 1) - 1 = 1 + k /\ k \in 1 .. Len(v)
        BY <1>3, <1>4, <1>6, <2>1, <3>1 DEF Occurs
      <4>2. u[1 + k] = w[k + 1]
        BY <1>6, <4>1 DEF Occurs
      <4> QED
        BY <1>4, <3>1, <4>1, <4>2
    <3>4. 1 + Len(x) - 1 <= Len(v)
      BY <1>3, <1>4, <1>6, <2>1, <3>1 DEF Occurs
    <3>5. Occurs(x, v, 1)
      <4>1. \A k \in 1 .. Len(x) : 1 + k - 1 = k
        BY <2>1, <3>1
      <4>2. \A k \in 1 .. Len(x) : v[1 + k - 1] = x[k]
        BY <3>3, <4>1
      <4> QED
        BY <3>4, <4>2 DEF Occurs
    <3>6. Occurs(x, t, i + 1)
      BY <3>2, <3>5 DEF Rest
    <3>7. i + Len(w) - 1 <= lt
      BY <1>1, <2>1, <3>1, <3>6 DEF Occurs, lt
    <3>8. ASSUME NEW k \in 1 .. Len(w) PROVE t[i + k - 1] = w[k]
      <4>1. CASE k = 1
        BY <1>1, <2>2, <4>1
      <4>2. CASE k # 1
        <5>1. k - 1 \in 1 .. Len(x) /\ (i + 1) + (k - 1) - 1 = i + k - 1 /\ (k - 1) + 1 = k
          BY <1>1, <2>1, <3>1, <4>2
        <5> QED
          BY <3>1, <3>6, <5>1 DEF Occurs
      <4> QED
        BY <4>1, <4>2
    <3> QED
      BY <3>7, <3>8 DEF Occurs, lt
  <2>5. Len(w) = 1 \/ Len(w) > 1
    <3> DEFINE n == Len(w)
    <3>1. n \in Nat /\ n >= 1
      BY <2>1
    <3> HIDE DEF n
    <3>2. n = 1 \/ n > 1
      BY <3>1
    <3> QED
      BY <3>2 DEF n
  <2> QED
    BY <2>3, <2>4, <2>5
<1>7. ASSUME NEW w \in Words, NEW j \in Nat \ {0}, w # <<>>, Occurs(w, u, j)
      PROVE  \E k \in i .. lt : Occurs(w, t, k)
  <2>1. CASE j = 1
    <3>1. i \in i .. lt
      BY <1>1
    <3> QED
      BY <1>6, <1>7, <2>1, <3>1
  <2>2. CASE j # 1
    <3>1. j > 1 /\ j - 1 \in Nat \ {0}
      BY <2>2
    <3>2. \E k \in i + 1 .. lt : Occurs(w, t, k)
      BY <1>5, <1>7, <3>1 DEF Rest, lt
    <3>3. i + 1 .. lt \subseteq i .. lt
      BY <1>1
    <3> QED
      BY <3>2, <3>3
  <2> QED
    BY <2>1, <2>2
<1>8. Stopped(v) => Stopped(u)
  <2>1. ASSUME NEW k \in 1 .. Len(v), v[k] <= 0 PROVE Stopped(u)
    <3>1. 1 + k \in 1 .. Len(u) /\ u[1 + k] <= 0
      BY <1>3, <1>4, <2>1
    <3> QED
      BY <3>1 DEF Stopped
  <2> QED
    BY <2>1 DEF Stopped
<1>9. Len(u) >= lt - i + 1 \/ Stopped(u)
  <2>1. Len(v) >= lt - (i + 1) + 1 \/ Stopped(v)
    BY DEF Rest, lt
  <2> QED
    BY <1>1, <1>3, <1>4, <1>8, <2>1
<1>10. ASSUME NEW j \in i .. lt, t[j] <= 0 PROVE Stopped(u)
  <2>1. CASE j = i
    <3>1. 1 \in 1 .. Len(u) /\ u[1] <= 0
      BY <1>3, <1>4, <1>10, <2>1
    <3> QED
      BY <3>1 DEF Stopped
  <2>2. CASE j # i
    <3>1. j \in i + 1 .. lt
      BY <1>1, <2>2
    <3> QED
      BY <1>8, <1>10, <3>1 DEF Rest, lt
  <2> QED
    BY <2>1, <2>2
<1>11. ASSUME t[lt] <= 0 PROVE Len(u) >= 1 /\ u[Len(u)] <= 0
  <2>1. CASE i = lt
    <3>1. Len(v) = 0
      BY <1>1, <2>1 DEF Rest, lt
    <3> DEFINE m == Len(u)
    <3>2. m = 1 /\ u[1] <= 0
      BY <1>4, <1>11, <2>1, <3>1
    <3>3. m >= 1
      BY <3>2
    <3>4. u[m] <= 0
      BY <3>2, Zenon
    <3> QED
      BY <3>3, <3>4
  <2>2. CASE i # lt
    <3>1. i + 1 <= lt
      BY <1>1, <2>2
    <3>2. Len(v) >= 1 /\ v[Len(v)] <= 0
      BY <1>11, <3>1 DEF Rest, lt
    <3>3. Len(v) \in 1 .. Len(v)
      BY <1>3, <3>2
    <3>4. Len(u) = 1 + Len(v) /\ u[1 + Len(v)] = v[Len(v)] /\ Len(u) >= 1
      BY <1>3, <1>4, <3>3
    <3> QED
      BY <3>2, <3>4, Zenon
  <2> QED
    BY <2>1, <2>2
<1>12. ~(i > lt)
  BY <1>1
<1>13. Rest(u, t, i)
  BY <1>4, <1>6, <1>7, <1>9, <1>10, <1>11, <1>12 DEF Rest, lt
<1> QED
  BY <1>13 DEF u, a

\* A needle that is replaced by bytes no word has.
LEMMA RestReplaces ==
  ASSUME NEW t \in Seq(Int), NEW i \in 1 .. Len(t), NEW n \in Words, n # <<>>, Occurs(n, t, i),
         NEW r \in Seq(Int), r # <<>>, \A k \in 1 .. Len(r) : r[k] < 0,
         NEW v, Rest(v, t, i + Len(n))
  PROVE  Rest(r \o v, t, i)
<1> DEFINE u == r \o v  lt == Len(t)  ln == Len(n)  lr == Len(r)
<1>1. /\ lt \in Nat /\ i \in Nat /\ i >= 1 /\ i <= lt
      /\ ln \in Nat /\ ln >= 1 /\ \A k \in 1 .. ln : n[k] > 0
  BY LenProperties, WordFacts
<1>2. lr \in Nat /\ lr >= 1
  BY EmptySeq
<1>3. v \in Seq(Int) /\ Len(v) \in Nat
  BY LenProperties DEF Rest
<1>4. /\ u \in Seq(Int) /\ Len(u) = lr + Len(v)
      /\ \A k \in 1 .. lr : u[k] = r[k] /\ r[k] \in Int
      /\ \A k \in 1 .. Len(v) : u[lr + k] = v[k] /\ v[k] \in Int
  BY <1>3, Joined
<1>5. ASSUME NEW w \in Words, NEW j \in Nat \ {0}, j > lr
      PROVE  Occurs(w, u, j) <=> Occurs(w, v, j - lr)
  BY <1>3, <1>5, OccursBehind
<1>6. i + ln - 1 <= lt /\ \A k \in 1 .. ln : t[i + k - 1] = n[k]
  BY DEF Occurs
<1>7. \A k \in 1 .. lr : r[k] < 0
  OBVIOUS
<1> HIDE DEF u, lt, ln, lr
<1>8. ASSUME NEW w \in Words, NEW j \in 1 .. lr, w # <<>>, Occurs(w, u, j) PROVE FALSE
  <2>1. 1 \in 1 .. Len(w) /\ w[1] \in Nat
    BY <1>8, WordFacts
  <2>2. u[j + 1 - 1] = w[1]
    BY <1>8, <2>1 DEF Occurs
  <2>3. j + 1 - 1 = j
    OBVIOUS
  <2>4. u[j] < 0 /\ u[j] = w[1]
    BY <1>4, <1>7, <2>2, <2>3
  <2> QED
    BY <2>1, <2>4
<1>9. ASSUME NEW w \in Words, NEW j \in Nat \ {0}, w # <<>>, Occurs(w, u, j)
      PROVE  \E k \in i .. lt : Occurs(w, t, k)
  <2>1. j > lr /\ j - lr \in Nat \ {0}
    BY <1>2, <1>8, <1>9
  <2>2. \E k \in i + ln .. lt : Occurs(w, t, k)
    BY <1>5, <1>9, <2>1 DEF Rest, lt, ln
  <2>3. i + ln .. lt \subseteq i .. lt
    BY <1>1
  <2> QED
    BY <2>2, <2>3
<1>10. Stopped(u)
  <2>1. 1 \in 1 .. lr /\ 1 \in 1 .. Len(u)
    BY <1>2, <1>3, <1>4
  <2>2. u[1] = r[1] /\ r[1] \in Int /\ r[1] < 0
    BY <1>4, <1>7, <2>1
  <2>3. u[1] <= 0
    BY <2>2
  <2> QED
    BY <2>1, <2>3 DEF Stopped
<1>11. ASSUME t[lt] <= 0 PROVE Len(u) >= 1 /\ u[Len(u)] <= 0
  <2>1. CASE i + ln - 1 = lt
    <3>1. ln \in 1 .. ln
      BY <1>1
    <3>2. t[i + ln - 1] = n[ln] /\ n[ln] > 0 /\ n[ln] \in Nat
      BY <1>1, <1>6, <3>1, WordFacts DEF ln
    <3>3. t[lt] = n[ln]
      BY <2>1, <3>2, Zenon
    <3> QED
      BY <1>11, <3>2, <3>3
  <2>2. CASE i + ln - 1 # lt
    <3>1. i + ln <= lt
      BY <1>1, <1>6, <2>2
    <3>2. Len(v) >= 1 /\ v[Len(v)] <= 0
      BY <1>11, <3>1 DEF Rest, lt, ln
    <3>3. Len(v) \in 1 .. Len(v)
      BY <1>3, <3>2
    <3>4. Len(u) = lr + Len(v)
      BY <1>4
    <3>5. u[lr + Len(v)] = v[Len(v)]
      BY <1>4, <3>3, Zenon
    <3>6. lr + Len(v) >= 1
      BY <1>2, <1>3
    <3> QED
      BY <3>2, <3>4, <3>5, <3>6, Zenon
  <2> QED
    BY <2>1, <2>2
<1>12. ~(i > lt) /\ 1 \in 1 .. lr
  BY <1>1, <1>2
<1>13. Rest(u, t, i)
  BY <1>4, <1>8, <1>9, <1>10, <1>11, <1>12 DEF Rest, lt
<1> QED
  BY <1>13 DEF u

\* The needle itself is nowhere in what byte_replace leaves.
LEMMA NeedleGone ==
  ASSUME NEW t \in Seq(Int), NEW n \in Words, n # <<>>, NEW i \in 1 .. Len(t), NEW u, NEW v,
         NEW r \in Seq(Int), r # <<>>, \A k \in 1 .. Len(r) : r[k] < 0,
         Rest(u, t, i), Rest(v, t, i + (IF Occurs(n, t, i) THEN Len(n) ELSE 1)),
         \A j \in Nat \ {0} : ~Occurs(n, v, j),
         u = IF Occurs(n, t, i) THEN r \o v ELSE <<t[i]>> \o v
  PROVE  \A j \in Nat \ {0} : ~Occurs(n, u, j)
<1> DEFINE a == IF Occurs(n, t, i) THEN r ELSE <<t[i]>>
<1>1. a \in Seq(Int) /\ Len(a) \in Nat /\ Len(a) >= 1 /\ v \in Seq(Int) /\ u = a \o v
  <2>1. CASE Occurs(n, t, i)
    BY <2>1, EmptySeq, LenProperties DEF Rest
  <2>2. CASE ~Occurs(n, t, i)
    BY <2>2, ElementOfSeq DEF Rest
  <2> QED
    BY <2>1, <2>2
<1>2. ASSUME NEW j \in 1 .. Len(a), Occurs(n, u, j) PROVE FALSE
  <2>1. CASE Occurs(n, t, i)
    <3>1. 1 \in 1 .. Len(n) /\ n[1] \in Nat
      BY WordFacts
    <3>2. u[j + 1 - 1] = n[1]
      BY <1>2, <3>1 DEF Occurs
    <3>3. j + 1 - 1 = j /\ a = r
      BY <2>1
    <3>4. u[j] = r[j] /\ r[j] \in Int /\ r[j] < 0
      BY <1>1, <1>2, <3>3, Joined
    <3> QED
      BY <3>1, <3>2, <3>3, <3>4
  <2>2. CASE ~Occurs(n, t, i)
    <3>1. j = 1
      BY <1>2, <2>2
    <3> QED
      BY <1>2, <2>2, <3>1 DEF Rest
  <2> QED
    BY <2>1, <2>2
<1> HIDE DEF a
<1>3. ASSUME NEW j \in Nat \ {0}, j > Len(a), Occurs(n, u, j) PROVE FALSE
  <2>1. j - Len(a) \in Nat \ {0}
    BY <1>1, <1>3
  <2>2. Occurs(n, a \o v, j)
    BY <1>1, <1>3
  <2>3. Occurs(n, v, j - Len(a))
    BY <1>1, <1>3, <2>2, OccursBehind
  <2> QED
    BY <2>1, <2>3
<1>4. \A j \in Nat \ {0} : j \in 1 .. Len(a) \/ j > Len(a)
  BY <1>1
<1> QED
  BY <1>2, <1>3, <1>4

\* What a real value is replaced by.
LEMMA PlaceholderFacts ==
  ASSUME NEW s \in SecretBinding
  PROVE  /\ Placeholder(s) \in Seq(Int) /\ Placeholder(s) # <<>>
         /\ \A k \in 1 .. Len(Placeholder(s)) : Placeholder(s)[k] < 0
<1> DEFINE n == PhLen  r == Placeholder(s)
<1>1. n \in Nat /\ n >= 1
  BY TextAssumption
<1>2. s.id \in Nat
  BY DEF SecretBinding
<1>3. r = [k \in 1 .. n |-> -(10 * s.id + k)]
  BY DEF Placeholder
<1> HIDE DEF n, r
<1>4. r \in Seq(Int) /\ Len(r) = n /\ \A k \in 1 .. n : r[k] = -(10 * s.id + k)
  <2>1. r \in [1 .. n -> Int]
    BY <1>2, <1>3
  <2>2. \A k \in 1 .. n : r[k] = -(10 * s.id + k)
    BY <1>3
  <2>3. r \in Seq(Int) /\ Len(r) = n
    BY <1>1, <2>1
  <2> QED
    BY <2>2, <2>3
<1>5. Len(<<>>) = 0 /\ Len(r) >= 1
  BY <1>1, <1>4
<1>6. r # <<>>
  <2>1. SUFFICES ASSUME r = <<>> PROVE FALSE
    OBVIOUS
  <2>2. Len(r) = 0
    BY <1>5, <2>1, Zenon
  <2> QED
    BY <1>5, <2>2
<1>7. \A k \in 1 .. Len(r) : r[k] < 0
  BY <1>1, <1>2, <1>4
<1> QED
  BY <1>4, <1>6, <1>7 DEF r

\* byte_replace, whatever it replaces by bytes no word has.
LEMMA ReplaceDoes ==
  ASSUME NEW t \in Seq(Int), NEW n \in Words, n # <<>>,
         NEW r \in Seq(Int), r # <<>>, \A k \in 1 .. Len(r) : r[k] < 0
  PROVE  /\ Rest(ByteReplace(t, n, r), t, 1)
         /\ \A j \in Nat \ {0} : ~Occurs(n, ByteReplace(t, n, r), j)
<1> DEFINE L == Len(t) + Len(n)
<1>1. Len(t) \in Nat /\ Len(n) \in Nat /\ Len(n) >= 1 /\ L \in Nat
  BY LenProperties, WordFacts
<1>2. PICK g : /\ ByteReplace(t, n, r) = g[1]
               /\ \A i \in 1 .. L : g[i] = From(g, t, n, r, i)
  BY ReplaceWalks
<1> DEFINE Good(i) == Rest(g[i], t, i) /\ \A j \in Nat \ {0} : ~Occurs(n, g[i], j)
           Bad == {m \in Nat : m < L /\ ~Good(L - m)}
<1> HIDE DEF L
<1>3. ASSUME NEW i \in 1 .. L, \A k \in i + 1 .. L : Good(k) PROVE Good(i)
  <2>0. /\ g[i] = From(g, t, n, r, i) /\ i \in Nat \ {0}
        /\ i <= Len(t) => ~(i > Len(t))
    BY <1>1, <1>2
  <2>1. CASE i > Len(t)
    <3>1. g[i] = <<>> /\ i \in Nat \ {0}
      BY <2>0, <2>1, Zenon DEF From
    <3>2. Rest(g[i], t, i)
      BY <2>1, <3>1, RestEmpty
    <3>3. ASSUME NEW j \in Nat \ {0} PROVE ~Occurs(n, g[i], j)
      <4>1. j + Len(n) - 1 > 0 /\ Len(<<>>) = 0
        BY <1>1
      <4> QED
        BY <1>1, <3>1, <4>1 DEF Occurs
    <3> QED
      BY <3>2, <3>3
  <2>2. CASE i <= Len(t)
    <3>1. i \in 1 .. Len(t) /\ i + 1 \in i + 1 .. L /\ i + Len(n) \in i + 1 .. L
      BY <1>1, <2>2 DEF L
    <3>2. CASE Occurs(n, t, i)
      <4> DEFINE u == g[i]  v == g[i + Len(n)]
      <4>1. u = r \o v
        BY <2>0, <2>2, <3>2, Zenon DEF From
      <4>2. Rest(v, t, i + Len(n)) /\ \A j \in Nat \ {0} : ~Occurs(n, v, j)
        BY <1>3, <3>1
      <4> HIDE DEF u, v
      <4>3. Rest(u, t, i)
        BY <3>1, <3>2, <4>1, <4>2, RestReplaces
      <4>4. \A j \in Nat \ {0} : ~Occurs(n, u, j)
        BY <3>1, <3>2, <4>1, <4>2, <4>3, NeedleGone
      <4> QED
        BY <4>3, <4>4 DEF u
    <3>3. CASE ~Occurs(n, t, i)
      <4> DEFINE u == g[i]  v == g[i + 1]
      <4>1. u = <<t[i]>> \o v
        BY <2>0, <2>2, <3>3, Zenon DEF From
      <4>2. Rest(v, t, i + 1) /\ \A j \in Nat \ {0} : ~Occurs(n, v, j)
        BY <1>3, <3>1
      <4> HIDE DEF u, v
      <4>3. Rest(u, t, i)
        BY <3>1, <4>1, <4>2, RestKeeps
      <4>4. \A j \in Nat \ {0} : ~Occurs(n, u, j)
        BY <3>1, <3>3, <4>1, <4>2, <4>3, NeedleGone
      <4> QED
        BY <4>3, <4>4 DEF u
    <3> QED
      BY <3>2, <3>3
  <2> QED
    BY <1>1, <2>1, <2>2
<1>4. ASSUME Bad # {} PROVE FALSE
  <2>1. PICK m \in Bad : \A k \in Bad : m <= k
    <3>1. Bad \in SUBSET Nat
      OBVIOUS
    <3> HIDE DEF Bad
    <3> QED
      BY <1>4, <3>1, Least
  <2>2. m \in Nat /\ m < L /\ ~Good(L - m)
    <3> HIDE DEF Good
    <3> QED
      BY <2>1
  <2>3. ASSUME NEW k \in L - m + 1 .. L PROVE Good(k)
    <3>1. L - k \in Nat /\ L - k < L /\ ~(m <= L - k) /\ L - (L - k) = k
      BY <1>1, <2>2
    <3> HIDE DEF Good
    <3> QED
      BY <2>1, <3>1
  <2>4. L - m \in 1 .. L
    BY <1>1, <2>2
  <2> HIDE DEF Good
  <2> QED
    BY <1>3, <2>2, <2>3, <2>4
<1>5. Good(1)
  <2>1. L - 1 \in Nat /\ L - 1 < L /\ L - (L - 1) = 1
    BY <1>1 DEF L
  <2> HIDE DEF Good
  <2> QED
    BY <1>4, <2>1
<1> QED
  BY <1>2, <1>5

----------------------------------------------------------------------------
(* Two needles, and two parts of a text *)

\* Induction from the last place of a text to its first, and over lengths.
LEMMA Downward ==
  ASSUME NEW L \in Nat, NEW S, \A i \in 1 .. L : (\A k \in i + 1 .. L : k \in S) => i \in S
  PROVE  \A i \in 1 .. L : i \in S
<1> DEFINE Bad == {m \in Nat : m < L /\ L - m \notin S}
<1>1. ASSUME Bad # {} PROVE FALSE
  <2>1. PICK m \in Bad : \A k \in Bad : m <= k
    <3>1. Bad \in SUBSET Nat
      OBVIOUS
    <3> HIDE DEF Bad
    <3> QED
      BY <1>1, <3>1, Least
  <2>2. m \in Nat /\ m < L /\ L - m \notin S /\ L - m \in 1 .. L
    BY <2>1
  <2>3. ASSUME NEW k \in L - m + 1 .. L PROVE k \in S
    <3>1. L - k \in Nat /\ L - k < L /\ ~(m <= L - k) /\ L - (L - k) = k
      BY <2>2
    <3> QED
      BY <2>1, <3>1
  <2> QED
    BY <2>2, <2>3
<1>2. ASSUME NEW i \in 1 .. L PROVE i \in S
  <2>1. L - i \in Nat /\ L - i < L /\ L - (L - i) = i
    OBVIOUS
  <2> QED
    BY <1>1, <2>1
<1> QED
  BY <1>2

LEMMA Upward ==
  ASSUME NEW S, \A m \in Nat : (\A k \in Nat : k < m => k \in S) => m \in S
  PROVE  \A m \in Nat : m \in S
<1> DEFINE Bad == {m \in Nat : m \notin S}
<1>1. ASSUME Bad # {} PROVE FALSE
  <2>1. PICK m \in Bad : \A k \in Bad : m <= k
    <3>1. Bad \in SUBSET Nat
      OBVIOUS
    <3> HIDE DEF Bad
    <3> QED
      BY <1>1, <3>1, Least
  <2>2. ASSUME NEW k \in Nat, k < m PROVE k \in S
    <3>1. m \in Nat /\ ~(m <= k)
      BY <2>1, <2>2
    <3> QED
      BY <2>1, <3>1
  <2> QED
    BY <2>1, <2>2
<1> QED
  BY <1>1

\* A needle that lies nowhere across the end of the first part.
Clear(n, a, b) ==
  \A j \in 1 .. Len(a) : Occurs(n, a \o b, j) => j + Len(n) - 1 <= Len(a)

\* The whole way of byte_replace through t.
IsWalk(g, t, n, r) == \A i \in 1 .. Len(t) + Len(n) : g[i] = From(g, t, n, r, i)

LEMMA WalkSteps ==
  ASSUME NEW g, NEW t \in Seq(Int), NEW n \in Words, NEW r, IsWalk(g, t, n, r),
         NEW i \in 1 .. Len(t) + Len(n)
  PROVE  /\ i > Len(t) => g[i] = <<>>
         /\ i <= Len(t) /\ Occurs(n, t, i) => g[i] = r \o g[i + Len(n)]
         /\ i <= Len(t) /\ ~Occurs(n, t, i) => g[i] = <<t[i]>> \o g[i + 1]
<1>1. i <= Len(t) => ~(i > Len(t))
  BY LenProperties
<1>2. g[i] = From(g, t, n, r, i)
  BY DEF IsWalk
<1>3. CASE i > Len(t)
  BY <1>1, <1>2, <1>3, Zenon DEF From
<1>4. CASE i <= Len(t) /\ Occurs(n, t, i)
  BY <1>1, <1>2, <1>4, Zenon DEF From
<1>5. CASE i <= Len(t) /\ ~Occurs(n, t, i)
  BY <1>1, <1>2, <1>5, Zenon DEF From
<1> QED
  BY <1>1, <1>3, <1>4, <1>5, Zenon

LEMMA WalkFits ==
  ASSUME NEW g, NEW t \in Seq(Int), NEW n \in Words, n # <<>>, NEW r \in Seq(Int), IsWalk(g, t, n, r)
  PROVE  \A i \in 1 .. Len(t) + Len(n) : g[i] \in Seq(Int)
<1> DEFINE L == Len(t) + Len(n)
           S == {i \in 1 .. L : g[i] \in Seq(Int)}
<1>1. Len(t) \in Nat /\ Len(n) \in Nat /\ Len(n) >= 1 /\ L \in Nat
  BY LenProperties, WordFacts
<1>2. ASSUME NEW i \in 1 .. L, \A k \in i + 1 .. L : g[k] \in Seq(Int) PROVE g[i] \in Seq(Int)
  <2>1. /\ i > Len(t) => g[i] = <<>>
        /\ i <= Len(t) /\ Occurs(n, t, i) => g[i] = r \o g[i + Len(n)]
        /\ i <= Len(t) /\ ~Occurs(n, t, i) => g[i] = <<t[i]>> \o g[i + 1]
    BY WalkSteps
  <2>2. CASE i > Len(t)
    BY <2>1, <2>2, EmptySeq
  <2>3. CASE i <= Len(t) /\ Occurs(n, t, i)
    <3>1. i + Len(n) \in i + 1 .. L
      BY <1>1, <2>3
    <3>2. g[i + Len(n)] \in Seq(Int)
      BY <1>2, <3>1
    <3>3. r \o g[i + Len(n)] \in Seq(Int)
      BY <3>2, Joined
    <3> QED
      BY <2>1, <2>3, <3>3, Zenon
  <2>4. CASE i <= Len(t) /\ ~Occurs(n, t, i)
    <3>1. i + 1 \in i + 1 .. L /\ i \in 1 .. Len(t)
      BY <1>1, <2>4
    <3>2. g[i + 1] \in Seq(Int) /\ <<t[i]>> \in Seq(Int)
      BY <1>2, <3>1, ElementOfSeq
    <3>3. <<t[i]>> \o g[i + 1] \in Seq(Int)
      BY <3>2, Joined
    <3> QED
      BY <2>1, <2>4, <3>3, Zenon
  <2> QED
    BY <1>1, <2>2, <2>3, <2>4
<1>3. \A i \in 1 .. L : (\A k \in i + 1 .. L : k \in S) => i \in S
  BY <1>1, <1>2
<1> HIDE DEF S, L
<1>4. \A i \in 1 .. L : i \in S
  BY <1>1, <1>3, Downward
<1> QED
  BY <1>4 DEF S, L

LEMMA NotEmpty ==
  ASSUME NEW w \in Words, w # <<>>
  PROVE  Len(w) \in Nat /\ Len(w) >= 1 /\ w \in Seq(Int)
BY WordFacts

LEMMA Walks ==
  ASSUME NEW t \in Seq(Int), NEW n \in Words, n # <<>>, NEW r \in Seq(Int)
  PROVE  \E g : ByteReplace(t, n, r) = g[1] /\ IsWalk(g, t, n, r)
BY ReplaceWalks DEF IsWalk

\* byte_replace leaves a text alone that the needle is not in.
LEMMA ReplaceNone ==
  ASSUME NEW t \in Seq(Int), NEW n \in Words, NEW r \in Seq(Int),
         \A j \in Nat \ {0} : ~Occurs(n, t, j)
  PROVE  ByteReplace(t, n, r) = t
<1>1. CASE n = <<>>
  BY <1>1 DEF ByteReplace
<1>2. CASE n # <<>>
  <2> DEFINE L == Len(t) + Len(n)
  <2>1. Len(t) \in Nat /\ Len(n) \in Nat /\ Len(n) >= 1 /\ L \in Nat /\ 1 \in 1 .. L
    BY <1>2, LenProperties, NotEmpty
  <2>2. PICK g : ByteReplace(t, n, r) = g[1] /\ IsWalk(g, t, n, r)
    BY <1>2, Walks
  <2> DEFINE S == {i \in 1 .. L : g[i] = SubSeq(t, i, Len(t))}
  <2>3. ASSUME NEW i \in 1 .. L, \A k \in i + 1 .. L : g[k] = SubSeq(t, k, Len(t))
        PROVE  g[i] = SubSeq(t, i, Len(t))
    <3>1. /\ i > Len(t) => g[i] = <<>>
          /\ i <= Len(t) /\ ~Occurs(n, t, i) => g[i] = <<t[i]>> \o g[i + 1]
      BY <2>2, WalkSteps
    <3>2. CASE i > Len(t)
      <4>1. i \in Int /\ Len(t) \in Int /\ Len(t) < i
        BY <2>1, <3>2
      <4>2. SubSeq(t, i, Len(t)) = <<>>
        BY ONLY <4>1, SubSeqEmpty
      <4> QED
        BY <3>1, <3>2, <4>2, Zenon
    <3>3. CASE i <= Len(t)
      <4>1. i + 1 \in i + 1 .. L /\ i \in 1 .. Len(t) /\ Len(t) \in i .. Len(t) /\ i \in Nat \ {0}
        BY <2>1, <3>3
      <4>2. g[i] = <<t[i]>> \o g[i + 1] /\ g[i + 1] = SubSeq(t, i + 1, Len(t))
        BY <2>3, <3>1, <3>3, <4>1, Zenon
      <4>3. SubSeq(t, i, Len(t)) = <<t[i]>> \o SubSeq(t, i + 1, Len(t))
        BY ONLY t \in Seq(Int), <4>1, SubSeqRecursiveFirst
      <4> QED
        BY <4>2, <4>3, Zenon
    <3> QED
      BY <2>1, <3>2, <3>3
  <2>4. \A i \in 1 .. L : (\A k \in i + 1 .. L : k \in S) => i \in S
    BY <2>1, <2>3
  <2> HIDE DEF S, L
  <2>5. \A i \in 1 .. L : i \in S
    BY <2>1, <2>4, Downward
  <2>6. g[1] = SubSeq(t, 1, Len(t))
    BY <2>1, <2>5 DEF S
  <2>7. SubSeq(t, 1, Len(t)) = t
    BY SubSeqFull
  <2> QED
    BY <2>2, <2>6, <2>7, Zenon
<1> QED
  BY <1>1, <1>2

\* The needle itself becomes what replaces it.
LEMMA ReplaceWhole ==
  ASSUME NEW n \in Words, n # <<>>, NEW r \in Seq(Int)
  PROVE  ByteReplace(n, n, r) = r
<1>1. Len(n) \in Nat /\ Len(n) >= 1 /\ n \in Seq(Int)
  BY NotEmpty
<1>2. PICK g : ByteReplace(n, n, r) = g[1] /\ IsWalk(g, n, n, r)
  BY <1>1, Walks
<1>3. 1 \in 1 .. Len(n) + Len(n) /\ 1 + Len(n) \in 1 .. Len(n) + Len(n)
  BY <1>1
<1>4. Occurs(n, n, 1) /\ 1 <= Len(n) /\ 1 + Len(n) > Len(n)
  BY <1>1 DEF Occurs
<1>5. g[1] = r \o g[1 + Len(n)]
  BY <1>1, <1>2, <1>3, <1>4, WalkSteps
<1>6. g[1 + Len(n)] = <<>>
  BY <1>1, <1>2, <1>3, <1>4, WalkSteps
<1>7. r \o <<>> = r
  BY ConcatEmptySeq
<1> QED
  BY <1>2, <1>5, <1>6, <1>7, Zenon

\* Two parts that the needle does not lie across are replaced one by one.
LEMMA ReplaceClear ==
  ASSUME NEW a \in Seq(Int), NEW b \in Seq(Int), NEW n \in Words, n # <<>>, NEW r \in Seq(Int),
         Clear(n, a, b)
  PROVE  /\ ByteReplace(a \o b, n, r) = ByteReplace(a, n, r) \o ByteReplace(b, n, r)
         /\ ByteReplace(a, n, r) \in Seq(Int) /\ ByteReplace(b, n, r) \in Seq(Int)
<1> DEFINE t == a \o b  la == Len(a)  lb == Len(b)  ln == Len(n)
<1>1. /\ la \in Nat /\ lb \in Nat /\ Len(t) = la + lb /\ t \in Seq(Int)
      /\ \A i \in 1 .. la : t[i] = a[i]
      /\ \A i \in 1 .. lb : t[la + i] = b[i]
      /\ ln \in Nat /\ ln >= 1
  BY Joined, NotEmpty
<1>0. la \in Nat /\ lb \in Nat /\ ln \in Nat /\ ln >= 1
  BY <1>1
<1>2. PICK g : ByteReplace(t, n, r) = g[1] /\ IsWalk(g, t, n, r)
  BY <1>1, Walks
<1>3. PICK h : ByteReplace(a, n, r) = h[1] /\ IsWalk(h, a, n, r)
  BY Walks
<1>4. PICK k : ByteReplace(b, n, r) = k[1] /\ IsWalk(k, b, n, r)
  BY Walks
<1>5. /\ \A i \in 1 .. la + ln : h[i] \in Seq(Int)
      /\ \A i \in 1 .. lb + ln : k[i] \in Seq(Int)
  BY <1>3, <1>4, WalkFits
<1> HIDE DEF t, la, lb, ln
<1>6. ASSUME NEW i \in 1 .. la + lb + ln
      PROVE  /\ i > la + lb => g[i] = <<>>
             /\ i <= la + lb /\ Occurs(n, t, i) => g[i] = r \o g[i + ln]
             /\ i <= la + lb /\ ~Occurs(n, t, i) => g[i] = <<t[i]>> \o g[i + 1]
  <2>1. i \in 1 .. Len(t) + Len(n)
    BY <1>0, <1>1 DEF ln
  <2>2. /\ i > Len(t) => g[i] = <<>>
        /\ i <= Len(t) /\ Occurs(n, t, i) => g[i] = r \o g[i + Len(n)]
        /\ i <= Len(t) /\ ~Occurs(n, t, i) => g[i] = <<t[i]>> \o g[i + 1]
    BY <1>1, <1>2, <2>1, WalkSteps
  <2> QED
    BY <1>1, <2>2, Zenon DEF ln
<1>7. ASSUME NEW i \in 1 .. la + ln
      PROVE  /\ i > la => h[i] = <<>>
             /\ i <= la /\ Occurs(n, a, i) => h[i] = r \o h[i + ln]
             /\ i <= la /\ ~Occurs(n, a, i) => h[i] = <<a[i]>> \o h[i + 1]
  BY <1>1, <1>3, WalkSteps DEF ln, la
<1>8. ASSUME NEW i \in 1 .. lb + ln
      PROVE  /\ i > lb => k[i] = <<>>
             /\ i <= lb /\ Occurs(n, b, i) => k[i] = r \o k[i + ln]
             /\ i <= lb /\ ~Occurs(n, b, i) => k[i] = <<b[i]>> \o k[i + 1]
  BY <1>1, <1>4, WalkSteps DEF ln, lb
\* Behind the first part the way is that through the second.
<1>9. \A i \in 1 .. lb + ln : g[la + i] = k[i]
  <2> DEFINE S == {i \in 1 .. lb + ln : g[la + i] = k[i]}
  <2>1. ASSUME NEW i \in 1 .. lb + ln, \A j \in i + 1 .. lb + ln : g[la + j] = k[j]
        PROVE  g[la + i] = k[i]
    <3>1. la + i \in 1 .. la + lb + ln /\ la + i \in Nat \ {0} /\ la + i > la /\ la + i - la = i
      BY <1>1
    <3>2. Occurs(n, t, la + i) <=> Occurs(n, b, i)
      <4>1. Occurs(n, a \o b, la + i) <=> Occurs(n, b, (la + i) - Len(a))
        BY <3>1, OccursBehind DEF la
      <4> QED
        BY <3>1, <4>1 DEF t, la
    <3>3. CASE i > lb
      <4>1. la + i > la + lb
        BY <1>1, <3>3
      <4>2. g[la + i] = <<>> /\ k[i] = <<>>
        BY <1>6, <1>8, <3>1, <3>3, <4>1, Zenon
      <4> QED
        BY <4>2
    <3>4. CASE i <= lb /\ Occurs(n, b, i)
      <4>1. la + i <= la + lb /\ i + ln \in i + 1 .. lb + ln /\ la + (i + ln) = (la + i) + ln
        BY <1>1, <3>4
      <4>2. g[la + i] = r \o g[(la + i) + ln] /\ k[i] = r \o k[i + ln]
        BY <1>6, <1>8, <3>1, <3>2, <3>4, <4>1, Zenon
      <4>3. g[la + (i + ln)] = k[i + ln]
        BY <2>1, <4>1
      <4> QED
        BY <4>1, <4>2, <4>3, Zenon
    <3>5. CASE i <= lb /\ ~Occurs(n, b, i)
      <4>1. la + i <= la + lb /\ i + 1 \in i + 1 .. lb + ln /\ la + (i + 1) = (la + i) + 1
            /\ i \in 1 .. lb
        BY <1>1, <3>5
      <4>2. g[la + i] = <<t[la + i]>> \o g[(la + i) + 1] /\ k[i] = <<b[i]>> \o k[i + 1]
        BY <1>6, <1>8, <3>1, <3>2, <3>5, <4>1, Zenon
      <4>3. g[la + (i + 1)] = k[i + 1] /\ t[la + i] = b[i]
        BY <1>1, <2>1, <4>1
      <4> QED
        BY <4>1, <4>2, <4>3, Zenon
    <3> QED
      BY <1>1, <3>3, <3>4, <3>5
  <2>2. lb + ln \in Nat /\ \A i \in 1 .. lb + ln : (\A j \in i + 1 .. lb + ln : j \in S) => i \in S
    BY <1>1, <2>1
  <2> HIDE DEF S
  <2>3. \A i \in 1 .. lb + ln : i \in S
    BY <2>2, Downward
  <2> QED
    BY <2>3 DEF S
\* And up to there it is that through the first.
<1>10. \A i \in 1 .. la + 1 : g[i] = h[i] \o k[1]
  <2> DEFINE S == {i \in 1 .. la + 1 : g[i] = h[i] \o k[1]}
  <2>0. 1 \in 1 .. lb + ln /\ k[1] \in Seq(Int)
    BY <1>1, <1>5
  <2>1. ASSUME NEW i \in 1 .. la + 1, \A j \in i + 1 .. la + 1 : g[j] = h[j] \o k[1]
        PROVE  g[i] = h[i] \o k[1]
    <3>1. i \in 1 .. la + lb + ln /\ i \in 1 .. la + ln /\ i \in Nat \ {0}
      BY <1>1
    <3>2. CASE i = la + 1
      <4>1. i > la
        BY <1>1, <3>2
      <4>2. h[i] = <<>> /\ g[la + 1] = k[1]
        BY <1>7, <1>9, <2>0, <3>1, <4>1, Zenon
      <4>3. <<>> \o k[1] = k[1]
        BY <2>0, ConcatEmptySeq
      <4> QED
        BY <3>2, <4>2, <4>3, Zenon
    <3>3. CASE i <= la /\ Occurs(n, t, i)
      <4>1. i \in 1 .. la /\ i + ln - 1 <= la
        BY <3>1, <3>3 DEF Clear, t, la, ln
      <4>2. Occurs(n, a, i)
        BY <3>1, <3>3, <4>1, OccursAhead DEF t, la, ln
      <4>3. i <= la + lb /\ i + ln \in i + 1 .. la + 1 /\ i + ln \in 1 .. la + ln
        BY <1>1, <4>1
      <4>4. g[i] = r \o g[i + ln] /\ h[i] = r \o h[i + ln]
        BY <1>6, <1>7, <3>1, <3>3, <4>2, <4>3, Zenon
      <4>5. g[i + ln] = h[i + ln] \o k[1] /\ h[i + ln] \in Seq(Int)
        BY <1>5, <2>1, <4>3
      <4>6. (r \o h[i + ln]) \o k[1] = r \o (h[i + ln] \o k[1])
        BY ONLY r \in Seq(Int), <4>5, <2>0, JoinedTwice, Zenon
      <4> QED
        BY <4>4, <4>5, <4>6, Zenon
    <3>4. CASE i <= la /\ ~Occurs(n, t, i)
      <4>1. ~Occurs(n, a, i)
        <5>1. SUFFICES ASSUME Occurs(n, a, i) PROVE FALSE
          OBVIOUS
        <5>2. i + Len(n) - 1 <= Len(a)
          BY <5>1 DEF Occurs
        <5> QED
          BY <3>1, <3>4, <5>1, <5>2, OccursAhead DEF t
      <4>3. i <= la + lb /\ i + 1 \in i + 1 .. la + 1 /\ i + 1 \in 1 .. la + ln /\ i \in 1 .. la
        BY <1>1, <3>1, <3>4
      <4>4. g[i] = <<t[i]>> \o g[i + 1] /\ h[i] = <<a[i]>> \o h[i + 1] /\ t[i] = a[i]
        BY <1>1, <1>6, <1>7, <3>1, <3>4, <4>1, <4>3, Zenon
      <4>5. g[i + 1] = h[i + 1] \o k[1] /\ h[i + 1] \in Seq(Int)
        BY <1>5, <2>1, <4>3
      <4>6. <<a[i]>> \in Seq(Int)
        BY <4>3, ElementOfSeq DEF la
      <4>7. (<<a[i]>> \o h[i + 1]) \o k[1] = <<a[i]>> \o (h[i + 1] \o k[1])
        BY ONLY <4>5, <4>6, <2>0, JoinedTwice, Zenon
      <4> QED
        BY <4>4, <4>5, <4>7, Zenon
    <3>5. i = la + 1 \/ i <= la
      BY <1>0
    <3> QED
      BY <3>2, <3>3, <3>4, <3>5, Zenon
  <2>2. la + 1 \in Nat
    BY <1>0
  <2>4. \A i \in 1 .. la + 1 : (\A j \in i + 1 .. la + 1 : j \in S) => i \in S
    BY <2>1
  <2> HIDE DEF S
  <2>3. \A i \in 1 .. la + 1 : i \in S
    BY <2>2, <2>4, Downward
  <2> QED
    BY <2>3 DEF S
<1>11. 1 \in 1 .. la + 1 /\ 1 \in 1 .. la + ln /\ 1 \in 1 .. lb + ln
  BY <1>1
<1>12. g[1] = h[1] \o k[1] /\ h[1] \in Seq(Int) /\ k[1] \in Seq(Int)
  BY <1>5, <1>10, <1>11
<1> QED
  BY <1>2, <1>3, <1>4, <1>12 DEF t

\* Neither word has a piece of the other at its end, or the other in it.
Disjoint(u, w) == ~Meets(u, w) /\ ~Meets(w, u) /\ (u # w => ~Shows(u, w) /\ ~Shows(w, u))

\* Where two such words are found in a text, one is behind the other.
LEMMA OneBehindOther ==
  ASSUME NEW t \in Seq(Int), NEW u \in Words, u # <<>>, NEW w \in Words, w # <<>>, Disjoint(u, w),
         NEW i \in Nat \ {0}, NEW j \in Nat \ {0}, Occurs(u, t, i), Occurs(w, t, j), i <= j
  PROVE  i + Len(u) <= j \/ (i = j /\ u = w)
<1> DEFINE lu == Len(u)  lw == Len(w)  k == i + lu - j
<1>1. lu \in Nat /\ lu >= 1 /\ lw \in Nat /\ lw >= 1 /\ u \in Seq(Int) /\ w \in Seq(Int)
  BY NotEmpty
<1>2. \A m \in 1 .. lu : t[i + m - 1] = u[m]
  BY DEF Occurs
<1>3. \A m \in 1 .. lw : t[j + m - 1] = w[m]
  BY DEF Occurs
<1>4. SUFFICES ASSUME k >= 1 PROVE i = j /\ u = w
  BY <1>1
<1> HIDE DEF lu, lw
<1>5. \A m \in 1 .. lw : j + m - i \in 1 .. lu => u[j + m - i] = w[m]
  <2> SUFFICES ASSUME NEW m \in 1 .. lw, j + m - i \in 1 .. lu PROVE u[j + m - i] = w[m]
    OBVIOUS
  <2>1. t[i + (j + m - i) - 1] = u[j + m - i] /\ t[j + m - 1] = w[m]
    BY <1>2, <1>3
  <2>2. i + (j + m - i) - 1 = j + m - 1
    BY <1>1
  <2> QED
    BY <2>1, <2>2, Zenon
<1>6. CASE k > lw
  <2>1. j - i + 1 \in 1 .. lu /\ (j - i + 1) + lw - 1 <= lu
    BY <1>1, <1>6
  <2>2. \A m \in 1 .. lw : j + m - i \in 1 .. lu /\ (j - i + 1) + m - 1 = j + m - i
    BY <1>1, <1>6
  <2>3. \A m \in 1 .. lw : u[(j - i + 1) + m - 1] = w[m]
    BY <1>5, <2>2, Zenon
  <2>4. Occurs(w, u, j - i + 1)
    BY <2>1, <2>3 DEF Occurs, lu, lw
  <2>5. Shows(u, w)
    BY <2>1, <2>4 DEF Shows, lu
  <2>6. lw < lu
    BY <1>1, <1>6
  <2>7. u # w
    <3>1. SUFFICES ASSUME u = w PROVE FALSE
      OBVIOUS
    <3>2. lu = lw
      BY <3>1 DEF lu, lw
    <3> QED
      BY <1>1, <2>6, <3>2
  <2> QED
    BY <2>5, <2>7 DEF Disjoint
<1>7. CASE k <= lw
  <2> DEFINE x == SubSeq(u, lu - k + 1, lu)  y == SubSeq(w, 1, k)
  <2>1. /\ k \in 1 .. lu /\ k \in 1 .. lw /\ lu - k + 1 \in Int /\ lu \in Int /\ k \in Int
        /\ lu - k + 1 <= lu /\ lu - (lu - k + 1) + 1 = k /\ k - 1 + 1 = k /\ 1 <= k
        /\ lu - k = j - i
    BY <1>1, <1>4, <1>7
  <2> HIDE DEF k
  <2>2. x \in Seq(Int) /\ Len(x) = k /\ \A m \in 1 .. k : x[m] = u[lu - k + 1 + m - 1]
    <3>1. \A m \in lu - k + 1 .. lu : u[m] \in Int
      BY <1>1, <2>1, ElementOfSeq DEF lu
    <3>2. /\ x \in Seq(Int)
          /\ Len(x) = IF lu - k + 1 <= lu THEN lu - (lu - k + 1) + 1 ELSE 0
          /\ \A m \in 1 .. lu - (lu - k + 1) + 1 : x[m] = u[lu - k + 1 + m - 1]
      BY ONLY <2>1, <3>1, SubSeqProperties DEF x
    <3> HIDE DEF x
    <3> QED
      BY <2>1, <3>2
  <2>3. y \in Seq(Int) /\ Len(y) = k /\ \A m \in 1 .. k : y[m] = w[1 + m - 1]
    <3>1. \A m \in 1 .. k : w[m] \in Int
      BY <1>1, <2>1, ElementOfSeq DEF lw
    <3>2. /\ y \in Seq(Int)
          /\ Len(y) = IF 1 <= k THEN k - 1 + 1 ELSE 0
          /\ \A m \in 1 .. k - 1 + 1 : y[m] = w[1 + m - 1]
      BY ONLY <2>1, <3>1, SubSeqProperties DEF y
    <3> HIDE DEF y
    <3> QED
      BY <2>1, <3>2
  <2> HIDE DEF x, y
  <2>4. ASSUME NEW m \in 1 .. k PROVE x[m] = y[m]
    <3>1. /\ m \in 1 .. lw /\ j + m - i \in 1 .. lu
          /\ lu - k + 1 + m - 1 = j + m - i /\ 1 + m - 1 = m
      BY <1>1, <2>1
    <3>2. x[m] = u[j + m - i] /\ y[m] = w[m]
      BY <2>2, <2>3, <3>1
    <3> QED
      BY <1>5, <3>1, <3>2, Zenon
  <2>5. x = y
    BY <2>2, <2>3, <2>4, SeqEqual
  <2>6. ~(k < lu) /\ ~(k < lw)
    <3>1. SUFFICES ASSUME k < lu \/ k < lw PROVE FALSE
      OBVIOUS
    <3>2. k \in 1 .. Smaller(lu, lw)
      BY <1>1, <2>1 DEF Smaller
    <3>3. Meets(u, w)
      BY <2>5, <3>1, <3>2 DEF Meets, x, y, lu, lw
    <3> QED
      BY <3>3 DEF Disjoint
  <2>7. k = lu /\ k = lw /\ i = j
    BY <1>1, <2>1, <2>6
  <2>8. \A m \in 1 .. lu : u[m] = w[m]
    BY <1>2, <1>3, <2>7, Zenon
  <2>9. lu = lw
    BY <2>7
  <2>10. u = w
    BY <1>1, <2>8, <2>9, SeqEqual DEF lu, lw
  <2> QED
    BY <2>7, <2>10
<1> QED
  BY <1>1, <1>6, <1>7 DEF k

LEMMA DisjointTurns ==
  ASSUME NEW u, NEW w, Disjoint(u, w)
  PROVE  Disjoint(w, u)
BY DEF Disjoint

\* So such a word lies across neither end of another one.
LEMMA ClearOfWord ==
  ASSUME NEW a \in Seq(Int), NEW b \in Seq(Int), NEW u \in Words, u # <<>>,
         NEW w \in Words, w # <<>>, Disjoint(u, w)
  PROVE  Clear(u, a, w \o b) /\ Clear(u, w, b)
<1> DEFINE la == Len(a)  lu == Len(u)  lw == Len(w)  t == a \o (w \o b)  v == w \o b
<1>1. /\ la \in Nat /\ lu \in Nat /\ lu >= 1 /\ lw \in Nat /\ lw >= 1 /\ w \in Seq(Int)
      /\ v \in Seq(Int)
  BY NotEmpty, Joined
<1>2. t \in Seq(Int)
  BY <1>1, Joined
<1>3. Occurs(w, w, 1) /\ 1 \in Nat \ {0} /\ 1 + lw - 1 <= lw
  BY <1>1 DEF Occurs
<1>4. Occurs(w, v, 1)
  BY <1>1, <1>3, OccursAhead
<1>5. Occurs(w, t, la + 1) /\ la + 1 \in Nat \ {0}
  <2>1. la + 1 \in Nat \ {0} /\ la + 1 > la /\ la + 1 - la = 1
    BY <1>1
  <2> HIDE DEF v
  <2>2. Occurs(w, a \o v, la + 1) <=> Occurs(w, v, la + 1 - Len(a))
    BY <1>1, <2>1, OccursBehind
  <2> QED
    BY <1>4, <2>1, <2>2 DEF v
<1> HIDE DEF la, lu, lw, t, v
<1>6. ASSUME NEW j \in 1 .. la, Occurs(u, t, j) PROVE j + lu - 1 <= la
  <2>1. j \in Nat \ {0} /\ j <= la + 1 /\ j # la + 1
    BY <1>1
  <2>2. j + lu <= la + 1
    BY <1>2, <1>5, <1>6, <2>1, OneBehindOther DEF lu
  <2> QED
    BY <1>1, <2>2
<1>7. ASSUME NEW j \in 1 .. lw, Occurs(u, v, j) PROVE j + lu - 1 <= lw
  <2>1. j \in Nat \ {0} /\ 1 <= j
    BY <1>1
  <2>2. 1 + lw <= j \/ (1 = j /\ w = u)
    BY <1>1, <1>3, <1>4, <1>7, <2>1, OneBehindOther, DisjointTurns DEF lw
  <2>3. 1 = j /\ lw = lu
    BY <1>1, <2>2 DEF lw, lu
  <2> QED
    BY <1>1, <2>3
<1> QED
  BY <1>6, <1>7 DEF Clear, la, lu, lw, t, v

\* What a placeholder is to a word: bytes it has not.
Blank(r) == r \in Seq(Int) /\ r # <<>> /\ \A k \in 1 .. Len(r) : r[k] < 0

LEMMA ClearOfBlank ==
  ASSUME NEW a \in Seq(Int), NEW b \in Seq(Int), NEW u \in Words, u # <<>>, NEW r, Blank(r)
  PROVE  Clear(u, a, r \o b) /\ Clear(u, r, b) /\ \A j \in Nat \ {0} : ~Occurs(u, r, j)
<1> DEFINE la == Len(a)  lu == Len(u)  lr == Len(r)  t == a \o (r \o b)  v == r \o b
<1>1. /\ la \in Nat /\ lu \in Nat /\ lu >= 1 /\ r \in Seq(Int) /\ v \in Seq(Int)
      /\ \A k \in 1 .. lu : u[k] \in Nat /\ u[k] > 0
  BY NotEmpty, Joined, WordFacts DEF Blank
<1>2. lr \in Nat /\ lr >= 1 /\ \A k \in 1 .. lr : r[k] < 0
  BY EmptySeq DEF Blank
<1>3. /\ \A k \in 1 .. lr : v[k] = r[k]
      /\ Len(v) >= lr /\ Len(v) \in Nat
      /\ t[la + 1] = v[1]
  <2>1. /\ \A k \in 1 .. lr : v[k] = r[k]
        /\ Len(v) = lr + Len(b) /\ Len(b) \in Nat
    BY <1>1, Joined
  <2>2. Len(v) >= lr /\ Len(v) \in Nat /\ 1 \in 1 .. Len(v)
    BY <1>2, <2>1
  <2> HIDE DEF v
  <2>3. (a \o v)[la + 1] = v[1]
    BY <1>1, <2>2, Joined
  <2> QED
    BY <2>1, <2>2, <2>3 DEF v
<1> HIDE DEF la, lu, lr, t, v
<1>4. ASSUME NEW j \in 1 .. la, Occurs(u, t, j) PROVE j + lu - 1 <= la
  <2>1. SUFFICES ASSUME j + lu - 1 > la PROVE FALSE
    BY <1>1
  <2>2. la + 1 - j + 1 \in 1 .. lu /\ j + (la + 1 - j + 1) - 1 = la + 1
    BY <1>1, <2>1
  <2>3. t[la + 1] = u[la + 1 - j + 1]
    BY <1>4, <2>2 DEF Occurs, lu
  <2>4. 1 \in 1 .. lr
    BY <1>2
  <2>5. t[la + 1] < 0
    BY <1>2, <1>3, <2>4
  <2> QED
    BY <1>1, <2>2, <2>3, <2>5
<1>5. ASSUME NEW j \in 1 .. lr, Occurs(u, v, j) PROVE FALSE
  <2>1. 1 \in 1 .. lu /\ j + 1 - 1 = j
    BY <1>1
  <2>2. v[j] = u[1]
    BY <1>5, <2>1 DEF Occurs, lu
  <2>3. v[j] = r[j] /\ r[j] < 0
    BY <1>2, <1>3
  <2>4. u[1] \in Nat /\ u[1] > 0
    BY <1>1, <2>1
  <2>5. u[1] < 0
    BY <2>2, <2>3, Zenon
  <2> QED
    BY <2>4, <2>5
<1>6. ASSUME NEW j \in Nat \ {0}, Occurs(u, r, j) PROVE FALSE
  <2>1. 1 \in 1 .. lu /\ j + 1 - 1 = j
    BY <1>1
  <2>2. r[j] = u[1] /\ j + lu - 1 <= lr
    BY <1>6, <2>1 DEF Occurs, lu, lr
  <2>3. j \in 1 .. lr
    BY <1>1, <1>2, <2>2
  <2> QED
    BY <1>1, <1>2, <2>1, <2>2, <2>3
<1> QED
  BY <1>4, <1>5, <1>6 DEF Clear, la, lu, lr, t, v

\* A text with a word in it is the word between two shorter ones.
LEMMA CutOut ==
  ASSUME NEW t \in Seq(Int), NEW w \in Words, w # <<>>, NEW i \in Nat \ {0}, Occurs(w, t, i)
  PROVE  \E a \in Seq(Int), b \in Seq(Int) :
           t = a \o (w \o b) /\ Len(a) < Len(t) /\ Len(b) < Len(t)
<1> DEFINE lt == Len(t)  lw == Len(w)  e == i + lw - 1
           a == SubSeq(t, 1, i - 1)  m == SubSeq(t, i, e)  b == SubSeq(t, e + 1, lt)
<1>1. /\ lt \in Nat /\ lw \in Nat /\ lw >= 1 /\ w \in Seq(Int)
      /\ \A k \in 1 .. lt : t[k] \in Int
  BY LenProperties, NotEmpty, ElementOfSeq
<1>2. e <= lt /\ \A k \in 1 .. lw : t[i + k - 1] = w[k]
  BY DEF Occurs
<1> HIDE DEF lt, lw
<1>3. /\ i \in Int /\ i - 1 \in Int /\ e \in Int /\ e + 1 \in Int /\ lt \in Int /\ 1 \in Int
      /\ i >= 1 /\ e >= i /\ e - i + 1 = lw
  BY <1>1
<1> HIDE DEF e
<1>4. a \in Seq(Int) /\ Len(a) = (IF 1 <= i - 1 THEN i - 1 - 1 + 1 ELSE 0)
  <2>1. \A k \in 1 .. i - 1 : t[k] \in Int
    BY <1>1, <1>2, <1>3
  <2> QED
    BY ONLY <1>3, <2>1, SubSeqProperties DEF a
<1>5. b \in Seq(Int) /\ Len(b) = (IF e + 1 <= lt THEN lt - (e + 1) + 1 ELSE 0)
  <2>1. \A k \in e + 1 .. lt : t[k] \in Int
    BY <1>1, <1>2, <1>3
  <2> QED
    BY ONLY <1>3, <2>1, SubSeqProperties DEF b
<1>6. /\ m \in Seq(Int) /\ Len(m) = (IF i <= e THEN e - i + 1 ELSE 0)
      /\ \A k \in 1 .. e - i + 1 : m[k] = t[i + k - 1]
  <2>1. \A k \in i .. e : t[k] \in Int
    BY <1>1, <1>2, <1>3
  <2> QED
    BY ONLY <1>3, <2>1, SubSeqProperties DEF m
<1>7. m \o b = SubSeq(t, i, lt)
  <2>1. i \in 1 .. Len(t) + 1 /\ e \in i - 1 .. Len(t) /\ Len(t) \in e .. Len(t)
    BY <1>1, <1>2, <1>3 DEF lt
  <2> QED
    BY ONLY t \in Seq(Int), <2>1, ConcatAdjacentSubSeq DEF m, b, lt
<1>8. a \o SubSeq(t, i, lt) = SubSeq(t, 1, lt)
  <2>1. 1 \in 1 .. Len(t) + 1 /\ i - 1 \in 1 - 1 .. Len(t) /\ Len(t) \in i - 1 .. Len(t)
        /\ i - 1 + 1 = i
    BY <1>1, <1>2, <1>3 DEF lt
  <2>2. SubSeq(t, 1, i - 1) \o SubSeq(t, i - 1 + 1, Len(t)) = SubSeq(t, 1, Len(t))
    BY ONLY t \in Seq(Int), <2>1, ConcatAdjacentSubSeq
  <2> QED
    BY <2>1, <2>2 DEF a, lt
<1>9. SubSeq(t, 1, lt) = t
  BY SubSeqFull DEF lt
<1> HIDE DEF a, b, m
<1>10. m = w
  <2>1. Len(m) = lw /\ \A k \in 1 .. lw : m[k] = w[k]
    BY <1>2, <1>3, <1>6
  <2> QED
    BY <1>1, <1>6, <2>1, SeqEqual DEF lw
<1>11. t = a \o (w \o b)
  BY <1>7, <1>8, <1>9, <1>10, Zenon
<1>12. Len(a) < lt /\ Len(b) < lt
  BY <1>1, <1>2, <1>3, <1>4, <1>5
<1> QED
  BY <1>4, <1>5, <1>11, <1>12 DEF lt

----------------------------------------------------------------------------
(* Two replacements, one behind the other *)

\* byte_replace leaves no needle, whatever blank it puts there.
LEMMA ReplaceFits ==
  ASSUME NEW t \in Seq(Int), NEW n \in Words, n # <<>>, NEW r, Blank(r)
  PROVE  ByteReplace(t, n, r) \in Seq(Int) /\ \A j \in Nat \ {0} : ~Occurs(n, ByteReplace(t, n, r), j)
BY ReplaceDoes DEF Rest, Blank

\* byte_replace on both sides of m, which becomes x.
Around(a, m, b, n, r, x) ==
  ByteReplace(a \o (m \o b), n, r) = ByteReplace(a, n, r) \o (x \o ByteReplace(b, n, r))

\* Of a word it replaces, of one it does not, and of a placeholder.
LEMMA AroundItself ==
  ASSUME NEW a \in Seq(Int), NEW b \in Seq(Int), NEW w \in Words, w # <<>>, Disjoint(w, w),
         NEW r, Blank(r)
  PROVE  Around(a, w, b, w, r, r)
<1> DEFINE c == w \o b
<1>1. r \in Seq(Int) /\ w \in Seq(Int) /\ c \in Seq(Int)
  BY NotEmpty, Joined DEF Blank
<1>2. Clear(w, a, c) /\ Clear(w, w, b)
  BY ClearOfWord
<1>3. ByteReplace(a \o c, w, r) = ByteReplace(a, w, r) \o ByteReplace(c, w, r)
  <2> HIDE DEF c
  <2> QED
    BY <1>1, <1>2, ReplaceClear
<1>4. ByteReplace(w \o b, w, r) = ByteReplace(w, w, r) \o ByteReplace(b, w, r)
  BY <1>1, <1>2, ReplaceClear
<1>5. ByteReplace(w, w, r) = r
  BY <1>1, ReplaceWhole
<1> QED
  BY <1>3, <1>4, <1>5, Zenon DEF Around

LEMMA AroundOther ==
  ASSUME NEW a \in Seq(Int), NEW b \in Seq(Int), NEW u \in Words, u # <<>>,
         NEW w \in Words, w # <<>>, u # w, Disjoint(u, w), NEW r, Blank(r)
  PROVE  Around(a, w, b, u, r, w)
<1> DEFINE c == w \o b
<1>1. r \in Seq(Int) /\ w \in Seq(Int) /\ c \in Seq(Int)
  BY NotEmpty, Joined DEF Blank
<1>2. Clear(u, a, c) /\ Clear(u, w, b)
  BY ClearOfWord
<1>3. ByteReplace(a \o c, u, r) = ByteReplace(a, u, r) \o ByteReplace(c, u, r)
  <2> HIDE DEF c
  <2> QED
    BY <1>1, <1>2, ReplaceClear
<1>4. ByteReplace(w \o b, u, r) = ByteReplace(w, u, r) \o ByteReplace(b, u, r)
  BY <1>1, <1>2, ReplaceClear
<1>5. ByteReplace(w, u, r) = w
  <2>1. ASSUME NEW j \in Nat \ {0}, Occurs(u, w, j) PROVE FALSE
    <3>1. Len(u) \in Nat /\ Len(u) >= 1 /\ Len(w) \in Nat /\ j + Len(u) - 1 <= Len(w)
      BY <2>1, NotEmpty DEF Occurs
    <3>2. j \in 1 .. Len(w)
      BY <3>1
    <3> QED
      BY <2>1, <3>2 DEF Disjoint, Shows
  <2> QED
    BY <1>1, <2>1, ReplaceNone
<1> QED
  BY <1>3, <1>4, <1>5, Zenon DEF Around

LEMMA AroundBlank ==
  ASSUME NEW a \in Seq(Int), NEW b \in Seq(Int), NEW u \in Words, u # <<>>,
         NEW p, Blank(p), NEW r, Blank(r)
  PROVE  Around(a, p, b, u, r, p)
<1> DEFINE c == p \o b
<1>1. r \in Seq(Int) /\ p \in Seq(Int) /\ c \in Seq(Int)
  BY Joined DEF Blank
<1>2. Clear(u, a, c) /\ Clear(u, p, b) /\ \A j \in Nat \ {0} : ~Occurs(u, p, j)
  BY ClearOfBlank
<1>3. ByteReplace(a \o c, u, r) = ByteReplace(a, u, r) \o ByteReplace(c, u, r)
  <2> HIDE DEF c
  <2> QED
    BY <1>1, <1>2, ReplaceClear
<1>4. ByteReplace(p \o b, u, r) = ByteReplace(p, u, r) \o ByteReplace(b, u, r)
  BY <1>1, <1>2, ReplaceClear
<1>5. ByteReplace(p, u, r) = p
  BY <1>1, <1>2, ReplaceNone
<1> QED
  BY <1>3, <1>4, <1>5, Zenon DEF Around

\* It does not matter which of two words is replaced first.
Alike(t, u, p, w, r) ==
  ByteReplace(ByteReplace(t, u, p), w, r) = ByteReplace(ByteReplace(t, w, r), u, p)

LEMMA AlikeAround ==
  ASSUME NEW a \in Seq(Int), NEW b \in Seq(Int),
         NEW u \in Words, u # <<>>, NEW w \in Words, w # <<>>, u # w,
         Disjoint(u, w), Disjoint(w, w), NEW p, Blank(p), NEW r, Blank(r),
         Alike(a, u, p, w, r), Alike(b, u, p, w, r)
  PROVE  Alike(a \o (w \o b), u, p, w, r)
<1> DEFINE t == a \o (w \o b)
           ua == ByteReplace(a, u, p)  ub == ByteReplace(b, u, p)
           wa == ByteReplace(a, w, r)  wb == ByteReplace(b, w, r)
<1>1. ua \in Seq(Int) /\ ub \in Seq(Int) /\ wa \in Seq(Int) /\ wb \in Seq(Int)
  BY ReplaceFits
<1>2. ByteReplace(t, u, p) = ua \o (w \o ub)
  <2>1. Around(a, w, b, u, p, w)
    BY AroundOther
  <2> QED
    BY <2>1, Zenon DEF Around
<1>3. ByteReplace(t, w, r) = wa \o (r \o wb)
  <2>1. Around(a, w, b, w, r, r)
    BY AroundItself
  <2> QED
    BY <2>1, Zenon DEF Around
<1>4. ByteReplace(ua, w, r) = ByteReplace(wa, u, p) /\ ByteReplace(ub, w, r) = ByteReplace(wb, u, p)
  BY DEF Alike
<1> HIDE DEF t, ua, ub, wa, wb
<1>5. Around(ua, w, ub, w, r, r)
  BY <1>1, AroundItself
<1>6. Around(wa, r, wb, u, p, r)
  BY <1>1, AroundBlank
<1>7. Alike(t, u, p, w, r)
  BY <1>2, <1>3, <1>4, <1>5, <1>6, Zenon DEF Alike, Around
<1> QED
  BY <1>7 DEF t

LEMMA ReplacesCommute ==
  ASSUME NEW u \in Words, u # <<>>, NEW w \in Words, w # <<>>, u # w,
         Disjoint(u, w), Disjoint(u, u), Disjoint(w, w),
         NEW p, Blank(p), NEW r, Blank(r), NEW t \in Seq(Int)
  PROVE  Alike(t, u, p, w, r)
<1> DEFINE Good(x) == Alike(x, u, p, w, r)
           S == {m \in Nat : \A x \in Seq(Int) : Len(x) = m => Good(x)}
<1>1. ASSUME NEW m \in Nat, \A k \in Nat : k < m => k \in S, NEW x \in Seq(Int), Len(x) = m
      PROVE  Good(x)
  <2>1. ASSUME NEW y \in Seq(Int), Len(y) < Len(x) PROVE Good(y)
    <3>1. Len(y) \in Nat /\ Len(y) < m
      BY <1>1, <2>1, LenProperties
    <3> HIDE DEF Good
    <3>2. Len(y) \in S
      BY <1>1, <3>1
    <3> QED
      BY <2>1, <3>2
  <2>2. CASE \E i \in Nat \ {0} : Occurs(w, x, i)
    <3>1. PICK a \in Seq(Int), b \in Seq(Int) :
            x = a \o (w \o b) /\ Len(a) < Len(x) /\ Len(b) < Len(x)
      BY <2>2, CutOut
    <3>2. Alike(a, u, p, w, r) /\ Alike(b, u, p, w, r)
      BY <2>1, <3>1
    <3>3. Alike(a \o (w \o b), u, p, w, r)
      BY <3>2, AlikeAround
    <3> QED
      BY <3>1, <3>3, Zenon
  <2>3. CASE \E i \in Nat \ {0} : Occurs(u, x, i)
    <3>1. PICK a \in Seq(Int), b \in Seq(Int) :
            x = a \o (u \o b) /\ Len(a) < Len(x) /\ Len(b) < Len(x)
      BY <2>3, CutOut
    <3>2. Alike(a, w, r, u, p) /\ Alike(b, w, r, u, p)
      <4>1. Good(a) /\ Good(b)
        BY <2>1, <3>1
      <4> QED
        BY <4>1, Zenon DEF Alike
    <3>3. Alike(a \o (u \o b), w, r, u, p)
      BY <3>2, AlikeAround, DisjointTurns
    <3> QED
      BY <3>1, <3>3, Zenon DEF Alike
  <2>4. CASE ~(\E i \in Nat \ {0} : Occurs(w, x, i)) /\ ~\E i \in Nat \ {0} : Occurs(u, x, i)
    <3>1. p \in Seq(Int) /\ r \in Seq(Int)
      BY DEF Blank
    <3>2. ByteReplace(x, w, r) = x /\ ByteReplace(x, u, p) = x
      BY <2>4, <3>1, ReplaceNone
    <3> QED
      BY <3>2, Zenon DEF Alike
  <2> QED
    BY <2>2, <2>3, <2>4
<1> HIDE DEF Good
<1>2. \A m \in Nat : (\A k \in Nat : k < m => k \in S) => m \in S
  BY <1>1
<1> HIDE DEF S
<1>3. \A m \in Nat : m \in S
  BY <1>2, Upward
<1>4. Len(t) \in S
  BY <1>3, LenProperties
<1>5. Good(t)
  BY <1>4 DEF S
<1> QED
  BY <1>5 DEF Good

\* What was replaced already need not be known to replace the rest.
ReplacedAgain(b, c, w, r) == ByteReplace(ByteReplace(b, w, r) \o c, w, r) = ByteReplace(b \o c, w, r)

LEMMA AgainAround ==
  ASSUME NEW w \in Words, w # <<>>, Disjoint(w, w), NEW r, Blank(r),
         NEW d \in Seq(Int), NEW e \in Seq(Int), NEW c \in Seq(Int), ReplacedAgain(e, c, w, r)
  PROVE  ReplacedAgain(d \o (w \o e), c, w, r)
<1>1. PICK rd, re : rd = ByteReplace(d, w, r) /\ re = ByteReplace(e, w, r)
  OBVIOUS
<1>2. PICK ec, rec : ec = e \o c /\ rec = re \o c
  OBVIOUS
<1>3. r \in Seq(Int) /\ w \in Seq(Int)
  BY NotEmpty DEF Blank
<1>4. rd \in Seq(Int) /\ re \in Seq(Int) /\ \A j \in Nat \ {0} : ~Occurs(w, rd, j)
  <2>1. /\ ByteReplace(d, w, r) \in Seq(Int) /\ ByteReplace(e, w, r) \in Seq(Int)
        /\ \A j \in Nat \ {0} : ~Occurs(w, ByteReplace(d, w, r), j)
    BY ReplaceFits
  <2> QED
    BY <1>1, <2>1, Zenon
<1>5. ByteReplace(rd, w, r) = rd
  BY <1>3, <1>4, ReplaceNone
<1>6. ec \in Seq(Int) /\ rec \in Seq(Int) /\ r \o re \in Seq(Int) /\ w \o e \in Seq(Int)
  BY <1>2, <1>3, <1>4, Joined
<1>7. (rd \o (r \o re)) \o c = rd \o (r \o rec)
  <2>1. PICK x : x = r \o re
    OBVIOUS
  <2>2. rd \in Seq(Int) /\ x \in Seq(Int) /\ c \in Seq(Int)
    BY <1>4, <1>6, <2>1
  <2>3. r \in Seq(Int) /\ re \in Seq(Int) /\ c \in Seq(Int)
    BY <1>3, <1>4
  <2>4. (rd \o x) \o c = rd \o (x \o c)
    BY ONLY <2>2, JoinedTwice, Zenon
  <2>5. (r \o re) \o c = r \o (re \o c)
    BY ONLY <2>3, JoinedTwice, Zenon
  <2> QED
    BY <1>2, <2>1, <2>4, <2>5, Zenon
<1>8. (d \o (w \o e)) \o c = d \o (w \o ec)
  <2>1. PICK x : x = w \o e
    OBVIOUS
  <2>2. d \in Seq(Int) /\ x \in Seq(Int) /\ c \in Seq(Int)
    BY <1>6, <2>1
  <2>3. w \in Seq(Int) /\ e \in Seq(Int) /\ c \in Seq(Int)
    BY <1>3
  <2>4. (d \o x) \o c = d \o (x \o c)
    BY ONLY <2>2, JoinedTwice, Zenon
  <2>5. (w \o e) \o c = w \o (e \o c)
    BY ONLY <2>3, JoinedTwice, Zenon
  <2> QED
    BY <1>2, <2>1, <2>4, <2>5, Zenon
<1>9. Around(d, w, e, w, r, r) /\ Around(rd, r, rec, w, r, r) /\ Around(d, w, ec, w, r, r)
  BY <1>4, <1>6, AroundItself, AroundBlank
<1>10. ByteReplace(rec, w, r) = ByteReplace(ec, w, r)
  BY <1>1, <1>2, Zenon DEF ReplacedAgain
<1>11. ByteReplace(d \o (w \o e), w, r) = rd \o (r \o re)
  BY <1>1, <1>9, Zenon DEF Around
<1>12. ByteReplace(rd \o (r \o rec), w, r) = rd \o (r \o ByteReplace(ec, w, r))
  BY <1>5, <1>9, <1>10, Zenon DEF Around
<1>13. ByteReplace(d \o (w \o ec), w, r) = rd \o (r \o ByteReplace(ec, w, r))
  BY <1>1, <1>9, Zenon DEF Around
<1> QED
  BY <1>7, <1>8, <1>11, <1>12, <1>13, Zenon DEF ReplacedAgain

LEMMA ReplaceAgain ==
  ASSUME NEW w \in Words, w # <<>>, Disjoint(w, w), NEW r, Blank(r),
         NEW b \in Seq(Int), NEW c \in Seq(Int)
  PROVE  ReplacedAgain(b, c, w, r)
<1> DEFINE Good(x) == ReplacedAgain(x, c, w, r)
           S == {m \in Nat : \A x \in Seq(Int) : Len(x) = m => Good(x)}
<1>0. r \in Seq(Int) /\ w \in Seq(Int)
  BY NotEmpty DEF Blank
<1>1. ASSUME NEW m \in Nat, \A k \in Nat : k < m => k \in S, NEW x \in Seq(Int), Len(x) = m
      PROVE  Good(x)
  <2>1. ASSUME NEW y \in Seq(Int), Len(y) < Len(x) PROVE Good(y)
    <3>1. Len(y) \in Nat /\ Len(y) < m
      BY <1>1, <2>1, LenProperties
    <3> HIDE DEF Good
    <3>2. Len(y) \in S
      BY <1>1, <3>1
    <3> QED
      BY <2>1, <3>2
  <2>2. CASE \E i \in Nat \ {0} : Occurs(w, x, i)
    <3>1. PICK d \in Seq(Int), e \in Seq(Int) :
            x = d \o (w \o e) /\ Len(d) < Len(x) /\ Len(e) < Len(x)
      BY <2>2, CutOut
    <3>2. ReplacedAgain(e, c, w, r)
      BY <2>1, <3>1
    <3>3. ReplacedAgain(d \o (w \o e), c, w, r)
      BY <3>2, AgainAround
    <3> QED
      BY <3>1, <3>3, Zenon
  <2>3. CASE ~\E i \in Nat \ {0} : Occurs(w, x, i)
    <3>1. ByteReplace(x, w, r) = x
      BY <1>0, <2>3, ReplaceNone
    <3> QED
      BY <3>1, Zenon DEF ReplacedAgain
  <2> QED
    BY <2>2, <2>3
<1> HIDE DEF Good
<1>2. \A m \in Nat : (\A k \in Nat : k < m => k \in S) => m \in S
  BY <1>1
<1> HIDE DEF S
<1>3. \A m \in Nat : m \in S
  BY <1>2, Upward
<1>4. Len(b) \in S
  BY <1>3, LenProperties
<1>5. Good(b)
  BY <1>4 DEF S
<1> QED
  BY <1>5 DEF Good

----------------------------------------------------------------------------
(* scrub *)

\* What is left of all of t.
Cleaner(u, t) == Rest(u, t, 1)

LEMMA CleanerSame ==
  ASSUME NEW t \in Seq(Int)
  PROVE  Cleaner(t, t)
<1>1. Len(t) \in Nat
  BY LenProperties
<1>2. ASSUME NEW w \in Words, NEW j \in Nat \ {0}, w # <<>>, Occurs(w, t, j)
      PROVE  \E k \in 1 .. Len(t) : Occurs(w, t, k)
  <2>1. Len(w) \in Nat /\ Len(w) >= 1 /\ j + Len(w) - 1 <= Len(t)
    BY <1>2, WordFacts DEF Occurs
  <2>2. j \in 1 .. Len(t)
    BY <1>1, <2>1
  <2> QED
    BY <1>2, <2>2
<1>3. Len(t) >= Len(t) - 1 + 1 /\ (1 > Len(t) => Len(t) = 0) /\ (1 <= Len(t) => Len(t) >= 1)
  BY <1>1
<1> QED
  BY <1>2, <1>3 DEF Cleaner, Rest, Stopped

LEMMA CleanerStill ==
  ASSUME NEW t \in Seq(Int), NEW u, NEW x, Cleaner(u, t), Cleaner(x, u)
  PROVE  Cleaner(x, t)
<1>1. Len(t) \in Nat /\ Len(u) \in Nat /\ Len(x) \in Nat /\ x \in Seq(Int)
  BY LenProperties DEF Cleaner, Rest
<1>2. ASSUME NEW w \in Words, w # <<>>, Occurs(w, x, 1) PROVE Occurs(w, t, 1)
  BY <1>2 DEF Cleaner, Rest
<1>3. ASSUME NEW w \in Words, NEW j \in Nat \ {0}, w # <<>>, Occurs(w, x, j)
      PROVE  \E k \in 1 .. Len(t) : Occurs(w, t, k)
  <2>1. PICK k \in 1 .. Len(u) : Occurs(w, u, k)
    BY <1>3 DEF Cleaner, Rest
  <2>2. k \in Nat \ {0}
    BY <1>1
  <2> QED
    BY <1>3, <2>1, <2>2 DEF Cleaner, Rest
<1>4. Stopped(u) => Stopped(x)
  BY DEF Cleaner, Rest, Stopped
<1>5. Len(x) >= Len(t) - 1 + 1 \/ Stopped(x)
  <2>1. Len(x) >= Len(u) - 1 + 1 \/ Stopped(x)
    BY DEF Cleaner, Rest
  <2>2. Len(u) >= Len(t) - 1 + 1 \/ Stopped(u)
    BY DEF Cleaner, Rest
  <2> QED
    BY <1>1, <1>4, <2>1, <2>2
<1>6. (\E j \in 1 .. Len(t) : t[j] <= 0) => Stopped(x)
  BY <1>4 DEF Cleaner, Rest
<1>7. 1 <= Len(t) /\ t[Len(t)] <= 0 => Len(x) >= 1 /\ x[Len(x)] <= 0
  <2>1. 1 <= Len(t) /\ t[Len(t)] <= 0 => Len(u) >= 1 /\ u[Len(u)] <= 0
    BY DEF Cleaner, Rest
  <2>2. 1 <= Len(u) /\ u[Len(u)] <= 0 => Len(x) >= 1 /\ x[Len(x)] <= 0
    BY DEF Cleaner, Rest
  <2>3. Len(u) >= 1 => 1 <= Len(u)
    BY <1>1
  <2> QED
    BY <2>1, <2>2, <2>3
<1>8. 1 > Len(t) => Len(x) = 0
  <2>1. 1 > Len(t) => Len(u) = 0
    BY DEF Cleaner, Rest
  <2>2. Len(u) = 0 => 1 > Len(u)
    BY <1>1
  <2>3. 1 > Len(u) => Len(x) = 0
    BY DEF Cleaner, Rest
  <2> QED
    BY <2>1, <2>2, <2>3
<1> QED
  BY <1>1, <1>2, <1>3, <1>5, <1>6, <1>7, <1>8 DEF Cleaner, Rest

\* One secret behind the other: g[k] is what the first k left of t.
ScrubStep(g, t, host, secrets, k) ==
  IF k = 0 THEN t
  ELSE IF Applies(secrets[k], host)
       THEN ByteReplace(g[k - 1], secrets[k].real, Placeholder(secrets[k]))
       ELSE g[k - 1]

LEMMA ScrubWalks ==
  ASSUME NEW t, NEW host, NEW secrets, Len(secrets) \in Nat
  PROVE  \E g : /\ Scrub(t, host, secrets) = g[Len(secrets)]
                /\ \A k \in 0 .. Len(secrets) : g[k] = ScrubStep(g, t, host, secrets, k)
<1> DEFINE L == Len(secrets)
           F(g, k) == ScrubStep(g, t, host, secrets, k)
           Walked(g, m) == /\ g = [k \in 0 .. L |-> g[k]]
                           /\ \A k \in 0 .. m : g[k] = F(g, k)
           Bad == {m \in Nat : m <= L /\ ~\E g : Walked(g, m)}
<1>1. L \in Nat
  OBVIOUS
<1> HIDE DEF L
<1>2. ASSUME Bad # {} PROVE FALSE
  <2>1. PICK m \in Bad : \A k \in Bad : m <= k
    <3>1. Bad \in SUBSET Nat
      OBVIOUS
    <3> HIDE DEF Bad
    <3> QED
      BY <1>2, <3>1, Least
  <2>2. m \in Nat /\ m <= L /\ ~\E g : Walked(g, m)
    <3> HIDE DEF Walked
    <3> QED
      BY <2>1
  <2>3. CASE m = 0
    <3> DEFINE g == [k \in 0 .. L |-> t]
    <3>1. g[0] = F(g, 0)
      BY <1>1 DEF ScrubStep
    <3>2. Walked(g, 0)
      BY <3>1
    <3> QED
      BY <2>2, <2>3, <3>2
  <2>4. CASE m # 0
    <3>1. m - 1 \in Nat /\ m - 1 <= L /\ ~(m <= m - 1)
      BY <1>1, <2>2, <2>4
    <3>2. PICK g : Walked(g, m - 1)
      <4> HIDE DEF Walked
      <4> QED
        BY <2>1, <3>1
    <3> DEFINE v == F(g, m)
               h == [k \in 0 .. L |-> IF k = m THEN v ELSE g[k]]
    <3>3. m \in 0 .. L
      BY <1>1, <2>2
    <3> HIDE DEF v
    <3>4. h[m] = v /\ (\A k \in 0 .. L : k # m => h[k] = g[k]) /\ h = [k \in 0 .. L |-> h[k]]
      BY <3>3
    <3>5. ASSUME NEW k \in 0 .. m PROVE h[k] = F(h, k)
      <4>1. k # 0 => k - 1 \in 0 .. L /\ k - 1 # m
        BY <1>1, <2>2
      <4>2. F(h, k) = F(g, k)
        BY <3>4, <4>1 DEF ScrubStep
      <4>3. CASE k = m
        BY <3>4, <4>2, <4>3 DEF v
      <4>4. CASE k # m
        <5>1. k \in 0 .. m - 1 /\ k \in 0 .. L
          BY <1>1, <2>2, <4>4
        <5> QED
          BY <3>2, <3>4, <4>2, <4>4, <5>1
      <4> QED
        BY <4>3, <4>4
    <3>6. Walked(h, m)
      <4> HIDE DEF h
      <4> QED
        BY <3>4, <3>5
    <3> QED
      BY <2>2, <3>6
  <2> QED
    BY <2>3, <2>4
<1>3. \E g : Walked(g, L)
  <2>1. L <= L
    BY <1>1
  <2>2. L \notin Bad
    BY <1>2, Zenon
  <2> HIDE DEF Walked
  <2> QED
    BY <1>1, <2>1, <2>2
<1> DEFINE Is(g) == g = [k \in 0 .. L |-> F(g, k)]
           walk == CHOOSE g : Is(g)
<1>4. PICK g0 : Walked(g0, L)
  BY <1>3
<1>5. Is(g0)
  <2>1. \A k \in 0 .. L : g0[k] = F(g0, k)
    BY <1>4
  <2>2. g0 = [k \in 0 .. L |-> g0[k]]
    BY <1>4
  <2> QED
    BY <2>1, <2>2
<1>6. Is(walk)
  <2> HIDE DEF Is
  <2> QED
    BY <1>5
<1>7. Scrub(t, host, secrets) = walk[L]
  BY DEF Scrub, ScrubStep, L
<1> HIDE DEF walk
<1>8. \A k \in 0 .. L : walk[k] = F(walk, k)
  <2> DEFINE e == [k \in 0 .. L |-> F(walk, k)]
  <2>1. walk = e
    BY <1>6
  <2>2. \A k \in 0 .. L : e[k] = F(walk, k)
    OBVIOUS
  <2> HIDE DEF e
  <2> QED
    BY <2>1, <2>2
<1> QED
  BY <1>7, <1>8 DEF L

\* What scrub does for one secret.
ScrubOne(u, s, host) ==
  IF Applies(s, host) THEN ByteReplace(u, s.real, Placeholder(s)) ELSE u

\* No real value of a secret of the host is left.
Gone(s, u, host) ==
  Applies(s, host) /\ s.real # <<>> => \A j \in Nat \ {0} : ~Occurs(s.real, u, j)

\* What the secrets leave of t, one behind the other.
Stages(g, t, host, secrets) ==
  /\ g[0] = t
  /\ \A k \in 1 .. Len(secrets) : g[k] = ScrubOne(g[k - 1], secrets[k], host)
  /\ \A k \in 0 .. Len(secrets) :
       Cleaner(g[k], t) /\ \A i \in 1 .. k : Gone(secrets[i], g[k], host)

LEMMA ScrubOneDoes ==
  ASSUME NEW u \in Seq(Int), NEW s \in SecretBinding, NEW host
  PROVE  /\ Cleaner(ScrubOne(u, s, host), u)
         /\ Gone(s, ScrubOne(u, s, host), host)
<1> DEFINE x == ScrubOne(u, s, host)
<1>1. s.real \in Words
  BY DEF SecretBinding
<1>2. CASE Applies(s, host) /\ s.real # <<>>
  <2>1. /\ Placeholder(s) \in Seq(Int) /\ Placeholder(s) # <<>>
        /\ \A k \in 1 .. Len(Placeholder(s)) : Placeholder(s)[k] < 0
    BY PlaceholderFacts
  <2>2. x = ByteReplace(u, s.real, Placeholder(s))
    BY <1>2 DEF ScrubOne
  <2> HIDE DEF x
  <2>3. /\ Rest(x, u, 1)
        /\ \A j \in Nat \ {0} : ~Occurs(s.real, x, j)
    BY <1>1, <1>2, <2>1, <2>2, ReplaceDoes
  <2>4. Cleaner(x, u) /\ Gone(s, x, host)
    BY <2>3 DEF Cleaner, Gone
  <2> QED
    BY <2>4 DEF x
<1>3. CASE ~(Applies(s, host) /\ s.real # <<>>)
  <2>1. x = u
    BY <1>3 DEF ScrubOne, ByteReplace
  <2> HIDE DEF x
  <2>2. Cleaner(x, u) /\ Gone(s, x, host)
    BY <1>3, <2>1, CleanerSame DEF Gone
  <2> QED
    BY <2>2 DEF x
<1> QED
  BY <1>2, <1>3

\* scrub, over text of any symbols: no word is in what it leaves that was not
\* there before, and no real value of a secret of the host.
LEMMA ScrubStages ==
  ASSUME NEW t \in Seq(Int), NEW host, NEW secrets \in Seq(SecretBinding)
  PROVE  \E g : Scrub(t, host, secrets) = g[Len(secrets)] /\ Stages(g, t, host, secrets)
<1> DEFINE L == Len(secrets)
<1>1. L \in Nat /\ \A i \in 1 .. L : secrets[i] \in SecretBinding
  BY LenProperties, ElementOfSeq
<1>2. PICK g : /\ Scrub(t, host, secrets) = g[L]
               /\ \A k \in 0 .. L : g[k] = ScrubStep(g, t, host, secrets, k)
  BY <1>1, ScrubWalks
<1> DEFINE Good(k) == Cleaner(g[k], t) /\ \A i \in 1 .. k : Gone(secrets[i], g[k], host)
           S == {m \in Nat : m <= L => Good(m)}
<1> HIDE DEF L
<1>3. g[0] = t /\ \A k \in 1 .. L : g[k] = ScrubOne(g[k - 1], secrets[k], host)
  <2>1. g[0] = t
    BY <1>1, <1>2 DEF ScrubStep
  <2>2. ASSUME NEW k \in 1 .. L PROVE g[k] = ScrubOne(g[k - 1], secrets[k], host)
    <3>1. k # 0 /\ k \in 0 .. L
      BY <1>1
    <3> QED
      BY <1>2, <3>1 DEF ScrubStep, ScrubOne
  <2> QED
    BY <2>1, <2>2
<1>4. ASSUME NEW i \in 1 .. L, NEW u \in Seq(Int), NEW x, Gone(secrets[i], u, host), Cleaner(x, u)
      PROVE  Gone(secrets[i], x, host)
  <2>1. SUFFICES ASSUME secrets[i].real # <<>>, Applies(secrets[i], host),
                        NEW j \in Nat \ {0}, Occurs(secrets[i].real, x, j)
                 PROVE  FALSE
    BY DEF Gone
  <2>2. secrets[i].real \in Words
    BY <1>1 DEF SecretBinding
  <2>3. PICK k \in 1 .. Len(u) : Occurs(secrets[i].real, u, k)
    BY <1>4, <2>1, <2>2 DEF Cleaner, Rest
  <2>4. k \in Nat \ {0}
    BY LenProperties
  <2> QED
    BY <1>4, <2>1, <2>3, <2>4 DEF Gone
<1>5. Good(0)
  <2>1. 1 .. 0 = {}
    OBVIOUS
  <2> QED
    BY <1>3, <2>1, CleanerSame
<1>6. ASSUME NEW m \in 1 .. L, Good(m - 1) PROVE Good(m)
  <2>1. PICK s, u, x : s = secrets[m] /\ u = g[m - 1] /\ x = g[m]
    OBVIOUS
  <2>2. /\ s \in SecretBinding /\ Cleaner(u, t) /\ u \in Seq(Int)
        /\ \A i \in 1 .. m - 1 : Gone(secrets[i], u, host)
    BY <1>1, <1>6, <2>1 DEF Cleaner, Rest
  <2>3. x = ScrubOne(u, s, host)
    BY <1>3, <2>1
  <2>4. Cleaner(x, u) /\ Gone(s, x, host)
    BY <2>2, <2>3, ScrubOneDoes
  <2>5. Cleaner(x, t)
    BY <2>2, <2>4, CleanerStill
  <2>6. ASSUME NEW i \in 1 .. m PROVE Gone(secrets[i], x, host)
    <3>1. i = m \/ (i \in 1 .. m - 1 /\ i \in 1 .. L)
      BY <1>1
    <3> QED
      BY <1>4, <2>1, <2>2, <2>4, <3>1
  <2> QED
    BY <2>1, <2>5, <2>6
<1> HIDE DEF Good
<1>7. ASSUME NEW m \in Nat, \A k \in Nat : k < m => k \in S PROVE m \in S
  <2>1. CASE m = 0
    BY <1>5, <2>1
  <2>2. CASE m # 0
    <3>1. m - 1 \in Nat /\ m - 1 < m /\ (m <= L => m - 1 <= L /\ m \in 1 .. L)
      BY <1>1, <2>2
    <3>2. m - 1 \in S
      BY <1>7, <3>1
    <3> QED
      BY <1>6, <3>1, <3>2
  <2> QED
    BY <2>1, <2>2
<1> HIDE DEF S
<1>8. \A m \in Nat : m \in S
  BY <1>7, Upward
<1>9. \A k \in 0 .. L : Good(k)
  BY <1>1, <1>8 DEF S
<1> QED
  BY <1>2, <1>3, <1>9 DEF Stages, Good, L

LEMMA ScrubDoes ==
  ASSUME NEW t \in Seq(Int), NEW host, NEW secrets \in Seq(SecretBinding)
  PROVE  /\ Cleaner(Scrub(t, host, secrets), t)
         /\ \A i \in 1 .. Len(secrets) : Applies(secrets[i], host) /\ secrets[i].real # <<>>
              => \A j \in Nat \ {0} : ~Occurs(secrets[i].real, Scrub(t, host, secrets), j)
<1>1. PICK g : Scrub(t, host, secrets) = g[Len(secrets)] /\ Stages(g, t, host, secrets)
  BY ScrubStages
<1>2. Len(secrets) \in 0 .. Len(secrets)
  BY LenProperties
<1> QED
  BY <1>1, <1>2 DEF Stages, Gone

----------------------------------------------------------------------------
(* The headers, and the longest secret *)

LEMMA MaxCounts ==
  ASSUME NEW secrets \in Seq(SecretBinding)
  PROVE  /\ MaxSecretLen(secrets) \in Nat
         /\ \A i \in 1 .. Len(secrets) :
              Len(secrets[i].real) <= ScrubCap => Len(secrets[i].real) <= MaxSecretLen(secrets)
<1> DEFINE L == Len(secrets)
           Lens(m) == {0} \cup {Len(secrets[i].real) : i \in 1 .. m}
           Top(m, x) == x \in Lens(m) /\ \A y \in Lens(m) : x >= y
           Bad == {m \in Nat : m <= L /\ ~\E x : Top(m, x)}
<1>1. /\ L \in Nat /\ DOMAIN secrets = 1 .. L
      /\ \A i \in 1 .. L : Len(secrets[i].real) \in Nat
  <2>1. ASSUME NEW i \in 1 .. L PROVE Len(secrets[i].real) \in Nat
    <3>1. secrets[i] \in SecretBinding
      BY ElementOfSeq DEF L
    <3>2. secrets[i].real \in Words
      BY <3>1 DEF SecretBinding
    <3> QED
      BY <3>2, WordFacts
  <2> QED
    BY <2>1, LenProperties
<1> HIDE DEF L
<1>2. ASSUME NEW m \in Nat, m <= L PROVE Lens(m) \subseteq Nat
  BY <1>1, <1>2
<1>3. ASSUME Bad # {} PROVE FALSE
  <2>1. PICK m \in Bad : \A k \in Bad : m <= k
    <3>1. Bad \in SUBSET Nat
      OBVIOUS
    <3> HIDE DEF Bad
    <3> QED
      BY <1>3, <3>1, Least
  <2>2. m \in Nat /\ m <= L /\ ~\E x : Top(m, x)
    <3> HIDE DEF Top
    <3> QED
      BY <2>1
  <2>3. CASE m = 0
    <3>1. Lens(0) = {0}
      OBVIOUS
    <3>2. Top(0, 0)
      BY <3>1
    <3> QED
      BY <2>2, <2>3, <3>2
  <2>4. CASE m # 0
    <3>1. m - 1 \in Nat /\ m - 1 <= L /\ ~(m <= m - 1) /\ m \in 1 .. L
      BY <1>1, <2>2, <2>4
    <3>2. PICK x : Top(m - 1, x)
      <4> HIDE DEF Top
      <4> QED
        BY <2>1, <3>1
    <3> DEFINE y == Len(secrets[m].real)
    <3>3. Lens(m) = Lens(m - 1) \cup {y}
      <4>1. 1 .. m = 1 .. (m - 1) \cup {m}
        BY <3>1
      <4> QED
        BY <4>1
    <3>4. Lens(m - 1) \subseteq Nat /\ y \in Nat
      BY <1>1, <1>2, <3>1
    <3> HIDE DEF y, Lens
    <3>5. Top(m, x) \/ Top(m, y)
      BY <3>2, <3>3, <3>4
    <3> QED
      BY <2>2, <3>5
  <2> QED
    BY <2>3, <2>4
<1>4. PICK x : Top(L, x)
  <2>1. L <= L
    BY <1>1
  <2>2. L \notin Bad
    BY <1>3, Zenon
  <2> HIDE DEF Top
  <2> QED
    BY <1>1, <2>1, <2>2
<1> DEFINE S == Lens(L)  M == Max(S)
<1>5. S \subseteq Nat
  <2>1. L <= L
    BY <1>1
  <2> QED
    BY <1>1, <1>2, <2>1
<1>6. M \in S /\ \A y \in S : M >= y
  <2> HIDE DEF S
  <2> QED
    BY <1>4 DEF Max, S
<1>7. MaxSecretLen(secrets) = Smaller(ScrubCap, M)
  <2>1. {0} \cup {Len(secrets[i].real) : i \in DOMAIN secrets} = S
    BY <1>1
  <2> QED
    BY <2>1 DEF MaxSecretLen
<1>8. \A i \in 1 .. L : Len(secrets[i].real) \in S
  OBVIOUS
<1> HIDE DEF S, M
<1>9. M \in Nat /\ ScrubCap \in Nat
  BY <1>5, <1>6, TextAssumption
<1> QED
  BY <1>1, <1>6, <1>7, <1>8, <1>9 DEF Smaller, L

\* find_header_end stops at the first empty line.
LEMMA HeaderEndIs ==
  ASSUME NEW t \in Seq(Int)
  PROVE  /\ HeaderEnd(t) \in 0 .. Len(t)
         /\ HeaderEnd(t) # 0 => t[HeaderEnd(t)] = 0
<1> DEFINE I == {i \in 1 .. Len(t) : t[i] = 0}
<1>1. Len(t) \in Nat
  BY LenProperties
<1>2. HeaderEnd(t) = IF I # {} THEN Min(I) ELSE 0
  BY DEF HeaderEnd, SelectInSeq
<1>3. I \in SUBSET Nat
  BY <1>1
<1>4. I # {} => Min(I) \in I
  <2> HIDE DEF I
  <2> QED
    BY <1>3, Least DEF Min
<1> QED
  BY <1>1, <1>2, <1>4

\* rewrite_connection_close shows no word that was not there, unless it has the
\* byte of the header it adds, and the headers' end stays behind it.
LEMMA CloseAdds ==
  ASSUME NEW t \in Seq(Int)
  PROVE  /\ RewriteClose(t) \in Seq(Int)
         /\ \A w \in Words, j \in Nat \ {0} :
              w # <<>> /\ CloseHeader \notin ToSet(w) /\ Occurs(w, RewriteClose(t), j)
              => \E k \in 1 .. Len(t) : Occurs(w, t, k)
         /\ Len(t) >= 1 /\ t[Len(t)] <= 0
              => Len(RewriteClose(t)) >= 1 /\ RewriteClose(t)[Len(RewriteClose(t))] <= 0
<1> DEFINE e == HeaderEnd(t)  u == RewriteClose(t)  lt == Len(t)
<1>1. lt \in Nat /\ e \in 0 .. lt /\ (e # 0 => t[e] = 0)
  BY LenProperties, HeaderEndIs
<1>2. CASE e = 0
  <2>1. u = t
    BY <1>2 DEF RewriteClose
  <2>2. \A w \in Words, j \in Nat \ {0} :
          w # <<>> /\ Occurs(w, t, j) => \E k \in 1 .. Len(t) : Occurs(w, t, k)
    BY CleanerSame DEF Cleaner, Rest
  <2> QED
    BY <2>1, <2>2
<1>3. CASE e # 0
  <2> DEFINE a == SubSeq(t, 1, e - 1)  b == <<CloseHeader, 0>>  c == SubSeq(t, e + 1, lt)
  <2>1. e \in 1 .. lt /\ \A i \in 1 .. lt : t[i] \in Int
    BY <1>1, <1>3, ElementOfSeq
  <2>2. u = (a \o b) \o c
    BY <1>3 DEF RewriteClose
  <2>3. /\ a \in Seq(Int) /\ Len(a) = e - 1 /\ \A i \in 1 .. e - 1 : a[i] = t[i]
    <3>1. e - 1 \in Int /\ \A i \in 1 .. e - 1 : t[i] \in Int /\ 1 + i - 1 = i
      BY <1>1, <2>1
    <3>2. /\ a \in Seq(Int) /\ Len(a) = IF 1 <= e - 1 THEN e - 1 - 1 + 1 ELSE 0
          /\ \A i \in 1 .. e - 1 - 1 + 1 : a[i] = t[1 + i - 1]
      <4> HIDE DEF e
      <4> QED
        BY <3>1, SubSeqProperties
    <3>3. e - 1 - 1 + 1 = e - 1 /\ (~(1 <= e - 1) => e - 1 = 0)
      BY <1>1, <2>1
    <3> QED
      BY <3>1, <3>2, <3>3
  <2>4. /\ c \in Seq(Int) /\ Len(c) = lt - e /\ \A i \in 1 .. lt - e : c[i] = t[e + i]
    <3>1. e + 1 \in Int /\ \A i \in e + 1 .. lt : t[i] \in Int
      BY <1>1, <2>1
    <3>2. /\ c \in Seq(Int) /\ Len(c) = IF e + 1 <= lt THEN lt - (e + 1) + 1 ELSE 0
          /\ \A i \in 1 .. lt - (e + 1) + 1 : c[i] = t[e + 1 + i - 1]
      <4> HIDE DEF e, lt
      <4> QED
        BY <1>1, <3>1, SubSeqProperties
    <3>3. lt - (e + 1) + 1 = lt - e /\ (~(e + 1 <= lt) => lt - e = 0)
      BY <1>1, <2>1
    <3>4. \A i \in 1 .. lt - e : e + 1 + i - 1 = e + i
      BY <1>1, <2>1
    <3> QED
      BY <3>2, <3>3, <3>4
  <2>5. b \in Seq(Int) /\ Len(b) = 2 /\ b[1] = CloseHeader /\ b[2] = 0
    BY DEF CloseHeader
  <2>6. /\ u \in Seq(Int) /\ Len(u) = lt + 1
        /\ (\A i \in 1 .. e - 1 : u[i] = t[i])
        /\ u[e] = CloseHeader /\ u[e + 1] = 0
        /\ \A i \in e + 1 .. lt : u[i + 1] = t[i]
    <3> DEFINE d == a \o b
    <3> HIDE DEF a, b, c, e, lt, u
    <3>1. /\ d \in Seq(Int) /\ Len(d) = e + 1
          /\ (\A i \in 1 .. e - 1 : d[i] = a[i])
          /\ d[e] = CloseHeader /\ d[e + 1] = 0
      <4>1. /\ d \in Seq(Int) /\ Len(d) = Len(a) + Len(b)
            /\ (\A i \in 1 .. Len(a) : d[i] = a[i])
            /\ \A i \in 1 .. Len(b) : d[Len(a) + i] = b[i]
        BY <2>3, <2>5, Joined
      <4>2. e - 1 + 1 = e /\ e - 1 + 2 = e + 1 /\ 1 \in 1 .. 2 /\ 2 \in 1 .. 2
        BY <2>1, <1>1
      <4> QED
        BY <2>3, <2>5, <4>1, <4>2
    <3> HIDE DEF d
    <3>2. /\ u \in Seq(Int) /\ Len(u) = Len(d) + Len(c)
          /\ (\A i \in 1 .. Len(d) : u[i] = d[i])
          /\ \A i \in 1 .. Len(c) : u[Len(d) + i] = c[i]
      BY <2>2, <2>4, <3>1, Joined DEF d
    <3>3. Len(u) = lt + 1
      BY <1>1, <2>1, <2>4, <3>1, <3>2
    <3>4. \A i \in 1 .. e - 1 : u[i] = t[i]
      BY <1>1, <2>1, <2>3, <3>1, <3>2
    <3>5. u[e] = CloseHeader /\ u[e + 1] = 0
      BY <1>1, <2>1, <3>1, <3>2
    <3>6. ASSUME NEW i \in e + 1 .. lt PROVE u[i + 1] = t[i]
      <4>1. i - e \in 1 .. lt - e /\ e + 1 + (i - e) = i + 1 /\ e + (i - e) = i
        BY <1>1, <2>1
      <4>2. c[i - e] = t[i]
        <5>1. c[i - e] = t[e + (i - e)]
          BY <2>4, <4>1
        <5> QED
          BY <4>1, <5>1
      <4>3. u[e + 1 + (i - e)] = c[i - e]
        <5>1. i - e \in 1 .. Len(c) /\ Len(d) = e + 1
          BY <2>4, <3>1, <4>1
        <5>2. u[Len(d) + (i - e)] = c[i - e]
          BY <3>2, <5>1
        <5> QED
          BY <5>1, <5>2, Zenon
      <4> QED
        BY <4>1, <4>2, <4>3
    <3> QED
      BY <3>2, <3>3, <3>4, <3>5, <3>6
  <2> HIDE DEF e, u, lt
  <2>7. ASSUME NEW w \in Words, NEW j \in Nat \ {0}, w # <<>>, CloseHeader \notin ToSet(w),
               Occurs(w, u, j)
        PROVE  \E k \in 1 .. lt : Occurs(w, t, k)
    <3> DEFINE n == Len(w)
    <3>1. /\ n \in Nat /\ n >= 1 /\ \A k \in 1 .. n : w[k] # 0 /\ w[k] # CloseHeader
      <4>1. DOMAIN w = 1 .. Len(w)
        BY WordFacts, LenProperties
      <4>2. /\ n \in Nat /\ n >= 1
            /\ \A k \in 1 .. n : w[k] # 0
        BY <2>7, WordFacts
      <4>3. \A k \in 1 .. n : w[k] # CloseHeader
        BY <2>7, <4>1 DEF ToSet
      <4> QED
        BY <4>2, <4>3
    <3>2. j + n - 1 <= lt + 1 /\ \A k \in 1 .. n : u[j + k - 1] = w[k]
      BY <2>6, <2>7 DEF Occurs
    <3>3. Occurs(w, t, j) <=> j + n - 1 <= lt /\ \A k \in 1 .. n : t[j + k - 1] = w[k]
      BY DEF Occurs, lt
    <3>4. Occurs(w, t, j - 1) <=> j - 1 + n - 1 <= lt /\ \A k \in 1 .. n : t[j - 1 + k - 1] = w[k]
      BY DEF Occurs, lt
    <3> HIDE DEF n
    <3>5. CASE j + n - 1 < e
      <4>1. j \in 1 .. lt /\ j + n - 1 <= lt
        BY <1>1, <2>1, <3>1, <3>5
      <4>2. \A k \in 1 .. n : j + k - 1 \in 1 .. e - 1
        BY <1>1, <2>1, <3>1, <3>5
      <4>3. Occurs(w, t, j)
        BY <2>6, <3>2, <3>3, <4>1, <4>2
      <4> QED
        BY <4>1, <4>3
    <3>6. CASE j <= e /\ e <= j + n - 1
      <4>1. e - j + 1 \in 1 .. n /\ j + (e - j + 1) - 1 = e
        BY <1>1, <2>1, <3>1, <3>6
      <4>2. u[e] = w[e - j + 1]
        BY <3>2, <4>1
      <4> QED
        BY <2>6, <3>1, <4>1, <4>2
    <3>7. CASE j = e + 1
      <4>1. 1 \in 1 .. n /\ j + 1 - 1 = e + 1
        BY <1>1, <2>1, <3>1, <3>7
      <4>2. u[e + 1] = w[1]
        BY <3>2, <4>1
      <4> QED
        BY <2>6, <3>1, <4>1, <4>2
    <3>8. CASE j > e + 1
      <4>1. j - 1 \in 1 .. lt /\ j - 1 + n - 1 <= lt
        BY <1>1, <2>1, <3>1, <3>2, <3>8
      <4>2. ASSUME NEW k \in 1 .. n PROVE t[j - 1 + k - 1] = w[k]
        <5>1. j - 1 + k - 1 \in e + 1 .. lt /\ j - 1 + k - 1 + 1 = j + k - 1
          BY <1>1, <2>1, <3>1, <3>2, <3>8
        <5> QED
          BY <2>6, <3>2, <5>1
      <4>3. Occurs(w, t, j - 1)
        BY <3>4, <4>1, <4>2
      <4> QED
        BY <4>1, <4>3
    <3> QED
      BY <1>1, <2>1, <3>1, <3>5, <3>6, <3>7, <3>8
  <2>8. ASSUME lt >= 1, t[lt] <= 0 PROVE Len(u) >= 1 /\ u[Len(u)] <= 0
    <3>1. CASE e = lt
      <4>1. u[lt + 1] <= 0 /\ lt + 1 >= 1
        BY <1>1, <2>6, <3>1
      <4> QED
        BY <2>6, <4>1, Zenon
    <3>2. CASE e # lt
      <4>1. lt \in e + 1 .. lt /\ lt + 1 >= 1
        BY <1>1, <2>1, <3>2
      <4>2. u[lt + 1] = t[lt]
        BY <2>6, <4>1
      <4> QED
        BY <2>6, <2>8, <4>1, <4>2, Zenon
    <3> QED
      BY <3>1, <3>2
  <2> QED
    BY <2>6, <2>7, <2>8 DEF u, lt
<1> QED
  BY <1>2, <1>3

----------------------------------------------------------------------------
(* write_scrubbed_chunk *)

\* What keeps a word of at most max symbols from lying across what was written
\* and what comes behind the part o that is kept back: its length, or a byte
\* that no word has.
Edge(g, o, max) ==
  \/ Len(o) >= max - 1
  \/ Stopped(o)
  \/ Len(g) >= 1 /\ g[Len(g)] <= 0

\* What is written of a scrubbed window and what is kept back are the window,
\* and either enough is kept back or all of it.
Parts(ws, text, max) ==
  /\ ws.out \in Seq(Int) /\ ws.overlap \in Seq(Int)
  /\ max >= 1 => /\ ws.out \o ws.overlap = text
                 /\ Len(ws.overlap) >= max - 1 \/ (ws.out = <<>> /\ ws.overlap = text)

LEMMA WriteMeans ==
  ASSUME NEW o \in Seq(Int), NEW chunk \in Seq(Int), NEW host, NEW secrets \in Seq(SecretBinding)
  PROVE  Parts(WriteScrubbed(o, chunk, host, secrets), Scrub(o \o chunk, host, secrets),
               MaxSecretLen(secrets))
<1> DEFINE max  == MaxSecretLen(secrets)
           text == Scrub(o \o chunk, host, secrets)
           keep == KeepBack(text, max)
           end  == Len(text) - keep
           ws   == WriteScrubbed(o, chunk, host, secrets)
           a    == SubSeq(text, 1, end)
           b    == SubSeq(text, end + 1, Len(text))
<1>1. text \in Seq(Int)
  <2>1. o \o chunk \in Seq(Int)
    BY Joined
  <2> QED
    BY <2>1, ScrubDoes DEF Cleaner, Rest
<1>2. Len(text) \in Nat /\ max \in Nat /\ \A i \in 1 .. Len(text) : text[i] \in Int
  BY <1>1, LenProperties, ElementOfSeq, MaxCounts
<1>3. ws = IF max = 0 THEN [out |-> chunk, overlap |-> o] ELSE [out |-> a, overlap |-> b]
  BY DEF WriteScrubbed
<1>4. CASE max = 0
  <2>1. ws.out = chunk /\ ws.overlap = o
    BY <1>3, <1>4
  <2> QED
    BY <1>4, <2>1 DEF Parts
<1>5. CASE max # 0
  <2>1. ws.out = a /\ ws.overlap = b
    <3> HIDE DEF ws, a, b, max
    <3> QED
      BY <1>3, <1>5
  <2>2. keep \in 0 .. Len(text) /\ (keep = max - 1 \/ keep = Len(text))
    BY <1>2, <1>5 DEF KeepBack, Smaller
  <2> HIDE DEF max, text, keep, ws
  <2>3. end \in 0 .. Len(text) /\ Len(text) - end = keep
    BY <1>2, <2>2
  <2>4. a \in Seq(Int)
    <3>1. 1 \in Int /\ end \in Int /\ \A i \in 1 .. end : text[i] \in Int
      BY <1>2, <2>3
    <3> HIDE DEF end
    <3> QED
      BY ONLY <3>1, SubSeqProperties DEF a
  <2>5. b \in Seq(Int) /\ Len(b) = keep
    <3>1. end + 1 \in Int /\ \A i \in end + 1 .. Len(text) : text[i] \in Int
      BY <1>2, <2>3
    <3>2. b \in Seq(Int) /\ Len(b) = IF end + 1 <= Len(text) THEN Len(text) - (end + 1) + 1 ELSE 0
      <4> HIDE DEF end
      <4> QED
        BY <1>2, <3>1, SubSeqProperties
    <3>3. Len(text) - (end + 1) + 1 = keep /\ (~(end + 1 <= Len(text)) => keep = 0)
      BY <1>2, <2>2, <2>3
    <3> QED
      BY <3>2, <3>3
  <2>6. a \o b = text
    <3>1. 1 \in 1 .. Len(text) + 1 /\ end \in 1 - 1 .. Len(text) /\ Len(text) \in end .. Len(text)
      BY <1>2, <2>3
    <3>2. a \o b = SubSeq(text, 1, Len(text))
      <4> HIDE DEF end
      <4> QED
        BY <1>1, <3>1, ConcatAdjacentSubSeq
    <3> QED
      BY <1>1, <3>2, SubSeqFull
  <2> HIDE DEF a, b
  <2>7. ASSUME keep = max - 1 PROVE Parts(ws, text, max)
    <3>1. Len(b) >= max - 1
      BY <1>2, <2>5, <2>7
    <3> QED
      BY <2>1, <2>4, <2>5, <2>6, <3>1 DEF Parts
  <2>8. ASSUME keep = Len(text) PROVE Parts(ws, text, max)
    <3>1. end = 0
      BY <1>2, <2>3, <2>8
    <3>2. a = <<>>
      BY <3>1, SubSeqEmpty DEF a
    <3>3. b = text
      <4>1. <<>> \o b = b
        BY <2>5, ConcatEmptySeq
      <4> QED
        BY <2>6, <3>2, <4>1, Zenon
    <3> QED
      BY <2>1, <2>4, <2>5, <2>6, <3>2, <3>3 DEF Parts
  <2>9. Parts(ws, text, max)
    BY <2>2, <2>7, <2>8
  <2> QED
    BY <2>9 DEF max, text, ws
<1> QED
  BY <1>4, <1>5

\* A word lies across what was written and what comes only if it did before.
LEMMA NoneAcross ==
  ASSUME NEW g \in Seq(Int), NEW o \in Seq(Int), NEW chunk \in Seq(Int), NEW text,
         Cleaner(text, o \o chunk),
         NEW w \in Words, w # <<>>, NEW max \in Nat, Len(w) <= max, Edge(g, o, max),
         \A j \in Nat \ {0} : ~Occurs(w, g \o o, j)
  PROVE  Clear(w, g, text)
<1> DEFINE lg == Len(g)  lo == Len(o)  n == Len(w)  v == g \o text  u == g \o o  c == o \o chunk
<1>1. /\ lg \in Nat /\ lo \in Nat /\ n \in Nat /\ n >= 1 /\ n <= max
      /\ \A k \in 1 .. n : w[k] \in Nat /\ w[k] > 0
  BY LenProperties, WordFacts
<1>2. text \in Seq(Int) /\ Len(text) \in Nat
  BY LenProperties DEF Cleaner, Rest
<1>3. /\ Len(v) = lg + Len(text)
      /\ (\A i \in 1 .. lg : v[i] = g[i] /\ g[i] \in Int)
      /\ \A i \in 1 .. Len(text) : v[lg + i] = text[i]
  BY <1>2, Joined
<1>4. /\ Len(u) = lg + lo
      /\ (\A i \in 1 .. lg : u[i] = g[i])
      /\ \A i \in 1 .. lo : u[lg + i] = o[i] /\ o[i] \in Int
  BY Joined
<1>5. \A i \in 1 .. lo : c[i] = o[i]
  BY Joined
<1>6. Edge(g, o, max)
  OBVIOUS
<1>9. ASSUME NEW x \in Words, x # <<>>, Occurs(x, text, 1)
      PROVE  \A i \in 1 .. Len(x) : c[i] = x[i]
  <2>1. Occurs(x, c, 1)
    BY <1>9 DEF Cleaner, Rest
  <2>2. Len(x) \in Nat
    BY WordFacts
  <2>3. \A i \in 1 .. Len(x) : 1 + i - 1 = i
    BY <2>2
  <2> QED
    BY <2>1, <2>3 DEF Occurs
<1>10. Occurs(w, u, 1) \in BOOLEAN /\ \A j \in Nat \ {0} : ~Occurs(w, u, j)
  BY DEF Occurs
<1>11. w \in Seq(Nat \ {0})
  BY DEF Words
<1> HIDE DEF lg, lo, u, v, c
<1>12. ASSUME NEW j \in Nat \ {0}, Occurs(w, v, j), j <= lg, j + n - 1 > lg PROVE FALSE
  <2> DEFINE k == j + n - 1 - lg
             x == SubSeq(w, n - k + 1, n)
  <2>1. k \in 1 .. n - 1 /\ n - k = lg - j + 1
    BY <1>1, <1>12
  <2>2. j + n - 1 <= Len(v) /\ \A p \in 1 .. n : v[j + p - 1] = w[p]
    BY <1>12 DEF Occurs
  <2> HIDE DEF k, n
  <2>3. x \in Seq(Nat \ {0}) /\ Len(x) = k /\ \A i \in 1 .. k : x[i] = w[n - k + i]
    <3>1. n - k + 1 \in Int /\ n \in Int /\ \A i \in n - k + 1 .. n : w[i] \in Nat \ {0}
      BY <1>1, <2>1
    <3>2. /\ x \in Seq(Nat \ {0}) /\ Len(x) = IF n - k + 1 <= n THEN n - (n - k + 1) + 1 ELSE 0
          /\ \A i \in 1 .. n - (n - k + 1) + 1 : x[i] = w[n - k + 1 + i - 1]
      <4> DEFINE m == n - k + 1
      <4> HIDE DEF m
      <4>1. /\ SubSeq(w, m, n) \in Seq(Nat \ {0})
            /\ Len(SubSeq(w, m, n)) = IF m <= n THEN n - m + 1 ELSE 0
            /\ \A i \in 1 .. n - m + 1 : SubSeq(w, m, n)[i] = w[m + i - 1]
        BY <3>1, SubSeqProperties DEF m
      <4> QED
        BY <4>1 DEF m
    <3>3. n - (n - k + 1) + 1 = k /\ n - k + 1 <= n
      BY <1>1, <2>1
    <3>4. \A i \in 1 .. k : n - k + 1 + i - 1 = n - k + i
      BY <1>1, <2>1
    <3> QED
      BY <3>2, <3>3, <3>4
  <2> HIDE DEF x
  <2>4. x \in Words /\ x # <<>>
    <3>1. x # <<>>
      BY <2>1, <2>3
    <3> QED
      BY <2>3, <3>1 DEF Words
  <2>5. Occurs(x, text, 1)
    <3>1. 1 + Len(x) - 1 <= Len(text)
      BY <1>1, <1>2, <1>3, <2>1, <2>2, <2>3 DEF k
    <3>2. ASSUME NEW i \in 1 .. Len(x) PROVE text[1 + i - 1] = x[i]
      <4>1. /\ i \in 1 .. k /\ 1 + i - 1 = i /\ i \in 1 .. Len(text)
            /\ n - k + i \in 1 .. n /\ j + (n - k + i) - 1 = lg + i
        BY <1>1, <1>2, <2>1, <2>3, <3>1
      <4>2. v[lg + i] = w[n - k + i]
        BY <2>2, <4>1
      <4> QED
        BY <1>3, <2>3, <4>1, <4>2
    <3> QED
      BY <3>1, <3>2 DEF Occurs
  <2>6. ASSUME NEW i \in 1 .. k, i <= lo PROVE o[i] = w[n - k + i]
    <3>1. i \in 1 .. lo /\ i \in 1 .. Len(x)
      BY <1>1, <2>1, <2>3, <2>6
    <3> QED
      BY <1>5, <1>9, <2>3, <2>4, <2>5, <3>1
  <2>7. CASE k <= lo
    <3>1. ASSUME NEW p \in 1 .. n PROVE u[j + p - 1] = w[p]
      <4>1. CASE j + p - 1 <= lg
        <5>1. j + p - 1 \in 1 .. lg
          BY <1>1, <4>1
        <5> QED
          BY <1>3, <1>4, <2>2, <5>1
      <4>2. CASE j + p - 1 > lg
        <5> DEFINE i == j + p - 1 - lg
        <5>1. i \in 1 .. k /\ i <= lo /\ i \in 1 .. lo /\ lg + i = j + p - 1 /\ n - k + i = p
          BY <1>1, <2>1, <2>7, <4>2
        <5> HIDE DEF i
        <5>2. u[lg + i] = o[i] /\ o[i] = w[n - k + i]
          BY <1>4, <2>6, <5>1
        <5> QED
          BY <5>1, <5>2
      <4>3. j + p - 1 <= lg \/ j + p - 1 > lg
        BY <1>1
      <4> QED
        BY <4>1, <4>2, <4>3
    <3>2. j + n - 1 <= Len(u)
      BY <1>1, <1>4, <2>1, <2>7 DEF k
    <3>3. Occurs(w, u, j)
      BY <3>1, <3>2 DEF Occurs, n
    <3> QED
      BY <1>10, <3>3
  <2>8. CASE k > lo
    <3>1. CASE lo >= max - 1
      BY <1>1, <2>1, <2>8, <3>1
    <3>2. CASE Stopped(o)
      <4>1. PICK i \in 1 .. lo : o[i] <= 0
        BY <3>2 DEF Stopped, lo
      <4>2. i \in 1 .. k /\ i <= lo /\ n - k + i \in 1 .. n
        BY <1>1, <2>1, <2>8
      <4>3. o[i] = w[n - k + i]
        BY <2>6, <4>2
      <4> QED
        BY <1>1, <4>1, <4>2, <4>3
    <3>3. CASE lg >= 1 /\ g[lg] <= 0
      <4>1. lg \in 1 .. lg /\ lg - j + 1 \in 1 .. n /\ j + (lg - j + 1) - 1 = lg
        BY <1>1, <1>12, <3>3
      <4>2. v[lg] = g[lg] /\ v[lg] = w[lg - j + 1]
        BY <1>3, <2>2, <4>1
      <4> QED
        BY <1>1, <3>3, <4>1, <4>2
    <3> QED
      BY <1>6, <3>1, <3>2, <3>3 DEF Edge, lg, lo
  <2> QED
    BY <1>1, <2>1, <2>7, <2>8
<1>13. \A j \in 1 .. lg : j \in Nat \ {0} /\ j <= lg /\ (j + n - 1 <= lg \/ j + n - 1 > lg)
  BY <1>1
<1> QED
  BY <1>12, <1>13 DEF Clear, v, lg, n

LEMMA Straddle ==
  ASSUME NEW g \in Seq(Int), NEW o \in Seq(Int), NEW text \in Seq(Int),
         NEW w \in Words, w # <<>>, Clear(w, g, text),
         \A j \in Nat \ {0} : ~Occurs(w, g \o o, j),
         \A j \in Nat \ {0} : ~Occurs(w, text, j)
  PROVE  \A j \in Nat \ {0} : ~Occurs(w, g \o text, j)
<1> DEFINE lg == Len(g)  n == Len(w)  v == g \o text
<1>1. lg \in Nat /\ n \in Nat
  BY LenProperties, WordFacts
<1> HIDE DEF lg, n, v
<1>2. ASSUME NEW j \in Nat \ {0}, Occurs(w, v, j), j > lg PROVE FALSE
  <2>1. j - lg \in Nat \ {0}
    BY <1>1, <1>2
  <2>2. Occurs(w, text, j - lg)
    BY <1>2, OccursBehind DEF v, lg
  <2> QED
    BY <2>1, <2>2
<1>3. ASSUME NEW j \in Nat \ {0}, Occurs(w, v, j), j <= lg PROVE FALSE
  <2>1. j \in 1 .. lg
    BY <1>1, <1>3
  <2>2. j + n - 1 <= lg
    BY <1>3, <2>1 DEF Clear, v, lg, n
  <2>3. Occurs(w, g, j)
    BY <1>3, <2>2, OccursAhead DEF v, lg, n
  <2>4. Occurs(w, g \o o, j)
    BY <2>2, <2>3, OccursAhead DEF lg, n
  <2> QED
    BY <2>4
<1>4. \A j \in Nat \ {0} : j > lg \/ j <= lg
  BY <1>1
<1> QED
  BY <1>2, <1>3, <1>4 DEF v

\* Scrubbing what is kept back with what comes behind it leaves that as it is.
LEMMA EdgeStays ==
  ASSUME NEW g, NEW o \in Seq(Int), NEW chunk \in Seq(Int), NEW text,
         Cleaner(text, o \o chunk), NEW max \in Nat, Edge(g, o, max)
  PROVE  Edge(g, text, max)
<1> DEFINE c == o \o chunk
<1>1. /\ Len(c) = Len(o) + Len(chunk) /\ Len(o) \in Nat /\ Len(chunk) \in Nat
      /\ \A i \in 1 .. Len(o) : c[i] = o[i]
  BY Joined
<1>2. Len(text) \in Nat
  BY LenProperties DEF Cleaner, Rest
<1> HIDE DEF c
<1>3. CASE Len(o) >= max - 1
  <2>1. Len(text) >= Len(c) - 1 + 1 \/ Stopped(text)
    BY DEF Cleaner, Rest, c
  <2>2. Len(text) >= max - 1 \/ Stopped(text)
    BY <1>1, <1>2, <1>3, <2>1
  <2> QED
    BY <2>2 DEF Edge
<1>4. CASE Stopped(o)
  <2>1. PICK i \in 1 .. Len(o) : o[i] <= 0
    BY <1>4 DEF Stopped
  <2>2. i \in 1 .. Len(c) /\ c[i] <= 0
    BY <1>1, <2>1
  <2>3. Stopped(text)
    BY <2>2 DEF Cleaner, Rest, c
  <2> QED
    BY <2>3 DEF Edge
<1>5. CASE Len(g) >= 1 /\ g[Len(g)] <= 0
  BY <1>5 DEF Edge
<1> QED
  BY <1>3, <1>4, <1>5 DEF Edge

\* One chunk, whatever it holds: no word of the host is in what was written and
\* is kept back, nor can one come to lie across them.
LEMMA ChunkKeeps ==
  ASSUME NEW g \in Seq(Int), NEW o \in Seq(Int), NEW chunk \in Seq(Int), NEW host,
         NEW secrets \in Seq(SecretBinding), NEW m \in 1 .. Len(secrets), NEW w,
         w = secrets[m].real, Applies(secrets[m], host), Len(w) \in 1 .. ScrubCap,
         Edge(g, o, MaxSecretLen(secrets)),
         \A j \in Nat \ {0} : ~Occurs(w, g \o o, j),
         NEW ws, ws = WriteScrubbed(o, chunk, host, secrets)
  PROVE  /\ \A j \in Nat \ {0} : ~Occurs(w, (g \o ws.out) \o ws.overlap, j)
         /\ Edge(g \o ws.out, ws.overlap, MaxSecretLen(secrets))
<1> DEFINE max  == MaxSecretLen(secrets)
           c    == o \o chunk
           text == Scrub(c, host, secrets)
           a    == ws.out
           b    == ws.overlap
<1>1. w \in Words /\ Len(w) \in Nat /\ Len(w) >= 1 /\ w # <<>>
  <2>1. secrets[m] \in SecretBinding
    BY ElementOfSeq
  <2>2. w \in Words
    BY <2>1 DEF SecretBinding
  <2>3. Len(<<>>) = 0 /\ Len(w) \in Nat /\ Len(w) >= 1
    BY <2>2, WordFacts
  <2>4. w # <<>>
    <3>1. SUFFICES ASSUME w = <<>> PROVE FALSE
      OBVIOUS
    <3>2. Len(w) = 0
      BY <2>3, <3>1, Zenon
    <3> QED
      BY <2>3, <3>2
  <2> QED
    BY <2>2, <2>3, <2>4
<1>2. max \in Nat /\ Len(w) <= max /\ max >= 1
  <2>1. Len(w) <= ScrubCap /\ ScrubCap \in Nat
    BY TextAssumption
  <2>2. max \in Nat /\ Len(w) <= max
    BY <2>1, MaxCounts
  <2> QED
    BY <1>1, <2>2
<1>3. c \in Seq(Int) /\ Len(c) = Len(o) + Len(chunk) /\ Len(o) \in Nat /\ Len(chunk) \in Nat
      /\ \A i \in 1 .. Len(o) : c[i] = o[i]
  BY Joined
<1>4. Cleaner(text, c) /\ \A j \in Nat \ {0} : ~Occurs(w, text, j)
  <2>1. secrets[m].real # <<>> /\ w = secrets[m].real
    BY <1>1
  <2> HIDE DEF c
  <2>2. /\ Cleaner(text, c)
        /\ \A i \in 1 .. Len(secrets) : Applies(secrets[i], host) /\ secrets[i].real # <<>>
             => \A j \in Nat \ {0} : ~Occurs(secrets[i].real, text, j)
    BY <1>3, ScrubDoes
  <2> HIDE DEF text
  <2>3. \A j \in Nat \ {0} : ~Occurs(secrets[m].real, text, j)
    BY <2>1, <2>2
  <2> QED
    BY <2>1, <2>2, <2>3, Zenon
<1>5. text \in Seq(Int) /\ Len(text) \in Nat
  BY <1>4, LenProperties DEF Cleaner, Rest
<1>6. /\ a \in Seq(Int) /\ b \in Seq(Int) /\ a \o b = text
      /\ Len(b) >= max - 1 \/ (a = <<>> /\ b = text)
  <2>1. Parts(ws, text, max)
    BY WriteMeans, Zenon
  <2> HIDE DEF max, text
  <2> QED
    BY <1>2, <2>1 DEF Parts
<1>7. \A j \in Nat \ {0} : ~Occurs(w, g \o text, j)
  <2>1. /\ g \in Seq(Int) /\ o \in Seq(Int) /\ chunk \in Seq(Int) /\ Edge(g, o, max)
        /\ \A j \in Nat \ {0} : ~Occurs(w, g \o o, j)
    OBVIOUS
  <2> HIDE DEF text, max
  <2>2. Clear(w, g, text)
    BY ONLY <1>1, <1>2, <1>4, <2>1, NoneAcross DEF c
  <2> QED
    BY ONLY <1>1, <1>4, <1>5, <2>1, <2>2, Straddle
<1> HIDE DEF max, text, a, b
<1>8. (g \o a) \o b = g \o text
  <2>1. g \in Seq(Int) /\ a \in Seq(Int) /\ b \in Seq(Int)
    BY <1>6
  <2>2. (g \o a) \o b = g \o (a \o b)
    BY ONLY <2>1, JoinedTwice, Zenon
  <2> QED
    BY <1>6, <2>2
<1>9. Edge(g \o a, b, max)
  <2>1. CASE Len(b) >= max - 1
    BY <2>1 DEF Edge
  <2>2. CASE a = <<>> /\ b = text
    <3>1. g \o a = g
      BY <2>2, ConcatEmptySeq
    <3>2. Edge(g, o, max)
      BY DEF max
    <3>3. Edge(g, text, max)
      BY <1>2, <1>4, <3>2, EdgeStays DEF c
    <3> QED
      BY <2>2, <3>1, <3>3, Zenon
  <2> QED
    BY <1>6, <2>1, <2>2
<1> QED
  BY <1>7, <1>8, <1>9 DEF a, b, max

----------------------------------------------------------------------------
(* scrub, part by part *)

\* The secrets Separate is about: no real value lies across another one or within
\* it, and two secrets have the same one only if they are the same.
Apart(secrets) ==
  \A i, j \in 1 .. Len(secrets) :
    /\ Len(secrets[i].real) <= ScrubCap
    /\ Disjoint(secrets[i].real, secrets[j].real)
    /\ secrets[i].real = secrets[j].real => secrets[i].real = <<>> \/ secrets[i] = secrets[j]

LEMMA PlaceholderBlank ==
  ASSUME NEW s \in SecretBinding
  PROVE  Blank(Placeholder(s)) /\ s.real \in Words
BY PlaceholderFacts DEF Blank, SecretBinding

\* A secret that is not replaced.
LEMMA ScrubOneIdle ==
  ASSUME NEW s, NEW host, ~Applies(s, host) \/ s.real = <<>>, NEW u
  PROVE  ScrubOne(u, s, host) = u
BY DEF ScrubOne, ByteReplace

LEMMA ScrubOneFits ==
  ASSUME NEW u \in Seq(Int), NEW s \in SecretBinding, NEW host
  PROVE  ScrubOne(u, s, host) \in Seq(Int)
BY ScrubOneDoes DEF Cleaner, Rest

\* And nothing happens to a text the secret is not in.
LEMMA ScrubOneNone ==
  ASSUME NEW u \in Seq(Int), NEW s \in SecretBinding, NEW host, Gone(s, u, host)
  PROVE  ScrubOne(u, s, host) = u
<1>1. CASE ~Applies(s, host) \/ s.real = <<>>
  BY <1>1, ScrubOneIdle
<1>2. CASE Applies(s, host) /\ s.real # <<>>
  <2>1. Placeholder(s) \in Seq(Int) /\ s.real \in Words
    BY PlaceholderBlank DEF Blank
  <2>2. \A j \in Nat \ {0} : ~Occurs(s.real, u, j)
    BY <1>2 DEF Gone
  <2>3. ByteReplace(u, s.real, Placeholder(s)) = u
    BY <2>1, <2>2, ReplaceNone
  <2> QED
    BY <1>2, <2>3 DEF ScrubOne
<1> QED
  BY <1>1, <1>2

\* Two of the secrets, in either order.
LEMMA ScrubOnesCommute ==
  ASSUME NEW secrets \in Seq(SecretBinding), Apart(secrets), NEW host,
         NEW i \in 1 .. Len(secrets), NEW j \in 1 .. Len(secrets), NEW u \in Seq(Int)
  PROVE  ScrubOne(ScrubOne(u, secrets[i], host), secrets[j], host)
           = ScrubOne(ScrubOne(u, secrets[j], host), secrets[i], host)
<1>1. PICK s, t : s = secrets[i] /\ t = secrets[j]
  OBVIOUS
<1>2. s \in SecretBinding /\ t \in SecretBinding
  BY <1>1, ElementOfSeq
<1>3. /\ Disjoint(s.real, s.real) /\ Disjoint(t.real, t.real) /\ Disjoint(s.real, t.real)
      /\ s.real = t.real => s.real = <<>> \/ s = t
  BY <1>1 DEF Apart
<1>4. Blank(Placeholder(s)) /\ s.real \in Words /\ Blank(Placeholder(t)) /\ t.real \in Words
  BY <1>2, PlaceholderBlank
<1>5. CASE ~Applies(s, host) \/ s.real = <<>>
  BY <1>1, <1>5, ScrubOneIdle
<1>6. CASE ~Applies(t, host) \/ t.real = <<>>
  BY <1>1, <1>6, ScrubOneIdle
<1>7. CASE s = t
  BY <1>1, <1>7
<1>8. CASE Applies(s, host) /\ s.real # <<>> /\ Applies(t, host) /\ t.real # <<>> /\ s # t
  <2>1. Alike(u, s.real, Placeholder(s), t.real, Placeholder(t))
    BY <1>3, <1>4, <1>8, ReplacesCommute
  <2> QED
    BY <1>1, <1>8, <2>1, Zenon DEF Alike, ScrubOne
<1> QED
  BY <1>5, <1>6, <1>7, <1>8

\* A secret that was replaced already in a first part.
LEMMA ScrubOneAgain ==
  ASSUME NEW s \in SecretBinding, Disjoint(s.real, s.real), NEW host,
         NEW b \in Seq(Int), NEW c \in Seq(Int)
  PROVE  ScrubOne(ScrubOne(b, s, host) \o c, s, host) = ScrubOne(b \o c, s, host)
<1>1. CASE ~Applies(s, host) \/ s.real = <<>>
  BY <1>1, ScrubOneIdle
<1>2. CASE Applies(s, host) /\ s.real # <<>>
  <2>1. Blank(Placeholder(s)) /\ s.real \in Words
    BY PlaceholderBlank
  <2>2. ReplacedAgain(b, c, s.real, Placeholder(s))
    BY <1>2, <2>1, ReplaceAgain
  <2> QED
    BY <1>2, <2>2, Zenon DEF ReplacedAgain, ScrubOne
<1> QED
  BY <1>1, <1>2

\* scrub does not care for a secret that was replaced before it.
LEMMA ScrubAbsorbs ==
  ASSUME NEW secrets \in Seq(SecretBinding), Apart(secrets), NEW host,
         NEW j \in 1 .. Len(secrets), NEW t \in Seq(Int)
  PROVE  Scrub(ScrubOne(t, secrets[j], host), host, secrets) = Scrub(t, host, secrets)
<1> DEFINE L == Len(secrets)  One(u) == ScrubOne(u, secrets[j], host)
<1>1. L \in Nat /\ \A i \in 1 .. L : secrets[i] \in SecretBinding
  BY LenProperties, ElementOfSeq
<1>2. One(t) \in Seq(Int)
  BY <1>1, ScrubOneFits
<1>3. PICK g : Scrub(t, host, secrets) = g[L] /\ Stages(g, t, host, secrets)
  BY ScrubStages
<1>4. PICK h : Scrub(One(t), host, secrets) = h[L] /\ Stages(h, One(t), host, secrets)
  <2> HIDE DEF One
  <2> QED
    BY <1>2, ScrubStages
<1>5. \A k \in 0 .. L : g[k] \in Seq(Int)
  BY <1>3 DEF Stages, Cleaner, Rest
<1> DEFINE S == {k \in Nat : k <= L => h[k] = One(g[k])}
<1> HIDE DEF L
<1>6. ASSUME NEW m \in Nat, \A k \in Nat : k < m => k \in S PROVE m \in S
  <2>1. CASE m = 0
    <3>1. g[0] = t /\ h[0] = One(t)
      BY <1>3, <1>4 DEF Stages
    <3> QED
      BY <2>1, <3>1, Zenon
  <2>2. CASE m # 0 /\ m <= L
    <3>1. m - 1 \in Nat /\ m - 1 < m /\ m - 1 <= L /\ m \in 1 .. L /\ m - 1 \in 0 .. L
      BY <1>1, <2>2
    <3>2. h[m - 1] = One(g[m - 1])
      <4> HIDE DEF One
      <4> QED
        BY <1>6, <3>1
    <3>3. g[m] = ScrubOne(g[m - 1], secrets[m], host) /\ h[m] = ScrubOne(h[m - 1], secrets[m], host)
      BY <1>3, <1>4, <3>1 DEF Stages, L
    <3>4. g[m - 1] \in Seq(Int)
      BY <1>5, <3>1
    <3>5. ScrubOne(ScrubOne(g[m - 1], secrets[j], host), secrets[m], host)
            = ScrubOne(ScrubOne(g[m - 1], secrets[m], host), secrets[j], host)
      BY <3>1, <3>4, ScrubOnesCommute DEF L
    <3>6. h[m] = One(g[m])
      BY <3>2, <3>3, <3>5, Zenon
    <3> HIDE DEF One
    <3> QED
      BY <3>6
  <2>3. CASE ~(m <= L)
    BY <2>3
  <2> QED
    BY <2>1, <2>2, <2>3
<1> HIDE DEF S
<1>7. \A m \in Nat : m \in S
  BY <1>6, Upward
<1>8. h[L] = One(g[L])
  <2> HIDE DEF One
  <2>1. L <= L
    BY <1>1
  <2> QED
    BY <1>1, <1>7, <2>1 DEF S
<1>9. Gone(secrets[j], g[L], host) /\ g[L] \in Seq(Int)
  <2>1. L \in 0 .. L /\ j \in 1 .. L
    BY <1>1 DEF L
  <2> QED
    BY <1>3, <1>5, <2>1 DEF Stages, L
<1>10. One(g[L]) = g[L]
  <2>1. secrets[j] \in SecretBinding
    BY <1>1 DEF L
  <2> QED
    BY <1>9, <2>1, ScrubOneNone
<1> QED
  BY <1>3, <1>4, <1>8, <1>10, Zenon

\* What was scrubbed already need not be known to scrub what comes behind it.
LEMMA ScrubAgain ==
  ASSUME NEW secrets \in Seq(SecretBinding), Apart(secrets), NEW host,
         NEW b \in Seq(Int), NEW c \in Seq(Int)
  PROVE  Scrub(Scrub(b, host, secrets) \o c, host, secrets) = Scrub(b \o c, host, secrets)
<1> DEFINE L == Len(secrets)  All(u) == Scrub(u, host, secrets)
<1>1. L \in Nat /\ \A i \in 1 .. L : secrets[i] \in SecretBinding
  BY LenProperties, ElementOfSeq
<1>2. PICK g : All(b) = g[L] /\ Stages(g, b, host, secrets)
  BY ScrubStages
<1>3. \A k \in 0 .. L : g[k] \in Seq(Int)
  BY <1>2 DEF Stages, Cleaner, Rest
<1> DEFINE S == {k \in Nat : k <= L => All(g[k] \o c) = All(b \o c)}
<1> HIDE DEF L
<1>4. ASSUME NEW m \in Nat, \A k \in Nat : k < m => k \in S PROVE m \in S
  <2>1. CASE m = 0
    <3>1. g[0] = b
      BY <1>2 DEF Stages
    <3> HIDE DEF All
    <3> QED
      BY <2>1, <3>1
  <2>2. CASE m # 0 /\ m <= L
    <3>1. m - 1 \in Nat /\ m - 1 < m /\ m - 1 <= L /\ m \in 1 .. L /\ m - 1 \in 0 .. L
      BY <1>1, <2>2
    <3>2. PICK y, s : y = g[m - 1] /\ s = secrets[m]
      OBVIOUS
    <3>3. All(y \o c) = All(b \o c)
      <4> HIDE DEF All
      <4> QED
        BY <1>4, <3>1, <3>2
    <3>4. /\ y \in Seq(Int) /\ s \in SecretBinding /\ Disjoint(s.real, s.real)
          /\ g[m] = ScrubOne(y, s, host)
      BY <1>1, <1>2, <1>3, <3>1, <3>2 DEF Stages, Apart, L
    <3>5. PICK x : x = ScrubOne(y, s, host) \o c
      OBVIOUS
    <3>6. x \in Seq(Int) /\ y \o c \in Seq(Int)
      BY <3>4, <3>5, ScrubOneFits, Joined
    <3>7. ScrubOne(x, s, host) = ScrubOne(y \o c, s, host)
      BY <3>4, <3>5, ScrubOneAgain
    <3>8. /\ All(ScrubOne(x, s, host)) = All(x)
          /\ All(ScrubOne(y \o c, s, host)) = All(y \o c)
      BY <3>1, <3>2, <3>6, ScrubAbsorbs DEF L
    <3>9. All(g[m] \o c) = All(b \o c)
      BY <3>3, <3>4, <3>5, <3>7, <3>8, Zenon
    <3> HIDE DEF All
    <3> QED
      BY <3>9
  <2>3. CASE ~(m <= L)
    BY <2>3
  <2> QED
    BY <2>1, <2>2, <2>3
<1> HIDE DEF S
<1>5. \A m \in Nat : m \in S
  BY <1>4, Upward
<1>6. All(g[L] \o c) = All(b \o c)
  <2> HIDE DEF All
  <2>1. L <= L
    BY <1>1
  <2> QED
    BY <1>1, <1>5, <2>1 DEF S
<1> QED
  BY <1>2, <1>6, Zenon

\* No real value of a secret of the host is in t.
Scrubbed(t, host, secrets) == \A i \in 1 .. Len(secrets) : Gone(secrets[i], t, host)

\* Nothing can come to lie across what was written and what comes.
Ready(g, o, max) == g = <<>> \/ Edge(g, o, max)

\* scrub leaves g alone and works on what is behind it only.
Behind(g, c, host, secrets) ==
  Scrub(g \o c, host, secrets) = g \o Scrub(c, host, secrets)

\* So it does behind a part it has scrubbed already, if that part is ready for
\* what comes.
LEMMA ScrubBehind ==
  ASSUME NEW secrets \in Seq(SecretBinding), NEW host,
         \A i \in 1 .. Len(secrets) : Len(secrets[i].real) <= ScrubCap,
         NEW g \in Seq(Int), NEW o \in Seq(Int), NEW chunk \in Seq(Int),
         Ready(g, o, MaxSecretLen(secrets)), Scrubbed(g \o o, host, secrets)
  PROVE  Behind(g, o \o chunk, host, secrets)
<1>1. PICK L, max, c : L = Len(secrets) /\ max = MaxSecretLen(secrets) /\ c = o \o chunk
  OBVIOUS
<1>2. /\ L \in Nat /\ \A i \in 1 .. L : secrets[i] \in SecretBinding
      /\ max \in Nat /\ \A i \in 1 .. L : Len(secrets[i].real) <= max
  BY <1>1, LenProperties, ElementOfSeq, MaxCounts
<1>3. c \in Seq(Int) /\ g \o c \in Seq(Int) /\ g \o o \in Seq(Int)
  BY <1>1, Joined
<1>4. PICK x : Scrub(c, host, secrets) = x[L] /\ Stages(x, c, host, secrets)
  BY <1>1, <1>3, ScrubStages
<1>5. PICK y : Scrub(g \o c, host, secrets) = y[L] /\ Stages(y, g \o c, host, secrets)
  BY <1>1, <1>3, ScrubStages
<1>6. \A k \in 0 .. L : Cleaner(x[k], c) /\ x[k] \in Seq(Int)
  BY <1>1, <1>4 DEF Stages, Cleaner, Rest
<1> DEFINE S == {k \in Nat : k <= L => y[k] = g \o x[k]}
<1>7. ASSUME NEW m \in Nat, \A k \in Nat : k < m => k \in S PROVE m \in S
  <2>1. CASE m = 0
    <3>1. x[0] = c /\ y[0] = g \o c
      BY <1>4, <1>5 DEF Stages
    <3> QED
      BY <2>1, <3>1
  <2>2. CASE m # 0 /\ m <= L
    <3>1. m - 1 \in Nat /\ m - 1 < m /\ m - 1 <= L /\ m \in 1 .. L /\ m - 1 \in 0 .. L
      BY <1>2, <2>2
    <3>2. PICK text, s : text = x[m - 1] /\ s = secrets[m]
      OBVIOUS
    <3>3. /\ y[m - 1] = g \o text
          /\ s \in SecretBinding /\ text \in Seq(Int) /\ Cleaner(text, c)
          /\ Len(s.real) <= max /\ Gone(s, g \o o, host)
      BY <1>1, <1>2, <1>6, <1>7, <3>1, <3>2 DEF Scrubbed
    <3>4. x[m] = ScrubOne(text, s, host) /\ y[m] = ScrubOne(g \o text, s, host)
      BY <1>1, <1>4, <1>5, <3>1, <3>2, <3>3 DEF Stages
    <3>5. ScrubOne(g \o text, s, host) = g \o ScrubOne(text, s, host)
      <4>1. CASE ~Applies(s, host) \/ s.real = <<>>
        <5>1. PICK z : z = g \o text
          OBVIOUS
        <5>2. ScrubOne(z, s, host) = z /\ ScrubOne(text, s, host) = text
          BY <4>1, ScrubOneIdle
        <5> QED
          BY <5>1, <5>2, Zenon
      <4>2. CASE Applies(s, host) /\ s.real # <<>>
        <5>1. Blank(Placeholder(s)) /\ s.real \in Words /\ Placeholder(s) \in Seq(Int)
          BY <3>3, PlaceholderBlank DEF Blank
        <5>2. \A j \in Nat \ {0} : ~Occurs(s.real, g \o o, j)
          BY <3>3, <4>2 DEF Gone
        <5>3. Clear(s.real, g, text)
          <6>1. CASE g = <<>>
            <7>1. Len(g) = 0
              BY <6>1, EmptySeq
            <7> QED
              BY <7>1 DEF Clear
          <6>2. CASE Edge(g, o, max)
            <7>1. Cleaner(text, o \o chunk)
              BY <1>1, <3>3
            <7>2. s.real # <<>>
              BY <4>2
            <7> QED
              BY <1>2, <3>3, <5>1, <5>2, <6>2, <7>1, <7>2, NoneAcross
          <6> QED
            BY <1>1, <6>1, <6>2 DEF Ready
        <5>4. ByteReplace(g \o text, s.real, Placeholder(s))
                = ByteReplace(g, s.real, Placeholder(s)) \o ByteReplace(text, s.real, Placeholder(s))
          BY <3>3, <4>2, <5>1, <5>3, ReplaceClear
        <5>5. ByteReplace(g, s.real, Placeholder(s)) = g
          <6>1. ASSUME NEW j \in Nat \ {0}, Occurs(s.real, g, j) PROVE FALSE
            <7>1. j + Len(s.real) - 1 <= Len(g)
              BY <6>1 DEF Occurs
            <7>2. Occurs(s.real, g \o o, j)
              BY <5>1, <6>1, <7>1, OccursAhead
            <7> QED
              BY <5>2, <7>2
          <6> QED
            BY <5>1, <6>1, ReplaceNone
        <5> QED
          BY <4>2, <5>4, <5>5, Zenon DEF ScrubOne
      <4> QED
        BY <4>1, <4>2
    <3>6. y[m] = g \o x[m]
      BY <3>4, <3>5, Zenon
    <3> QED
      BY <3>6
  <2>3. CASE ~(m <= L)
    BY <2>3
  <2> QED
    BY <2>1, <2>2, <2>3
<1> HIDE DEF S
<1>8. \A m \in Nat : m \in S
  BY <1>7, Upward
<1>9. y[L] = g \o x[L]
  <2>1. L <= L
    BY <1>2
  <2> QED
    BY <1>2, <1>8, <2>1 DEF S
<1> QED
  BY <1>1, <1>4, <1>5, <1>9, Zenon DEF Behind

\* A text that no secret of the host is in stays as it is.
LEMMA ScrubNone ==
  ASSUME NEW secrets \in Seq(SecretBinding), NEW host, NEW t \in Seq(Int), Scrubbed(t, host, secrets)
  PROVE  Scrub(t, host, secrets) = t
<1> DEFINE L == Len(secrets)
<1>1. L \in Nat /\ \A i \in 1 .. L : secrets[i] \in SecretBinding
  BY LenProperties, ElementOfSeq
<1>2. PICK g : Scrub(t, host, secrets) = g[L] /\ Stages(g, t, host, secrets)
  BY ScrubStages
<1> DEFINE S == {k \in Nat : k <= L => g[k] = t}
<1> HIDE DEF L
<1>3. ASSUME NEW m \in Nat, \A k \in Nat : k < m => k \in S PROVE m \in S
  <2>1. CASE m = 0
    <3>1. g[0] = t
      BY <1>2 DEF Stages
    <3> QED
      BY <2>1, <3>1
  <2>2. CASE m # 0 /\ m <= L
    <3>1. m - 1 \in Nat /\ m - 1 < m /\ m - 1 <= L /\ m \in 1 .. L
      BY <1>1, <2>2
    <3>2. g[m - 1] = t
      BY <1>3, <3>1
    <3>3. g[m] = ScrubOne(g[m - 1], secrets[m], host)
      BY <1>2, <3>1 DEF Stages, L
    <3>4. secrets[m] \in SecretBinding /\ Gone(secrets[m], t, host)
      BY <1>1, <3>1 DEF Scrubbed, L
    <3>5. ScrubOne(t, secrets[m], host) = t
      BY <3>4, ScrubOneNone
    <3>6. g[m] = t
      BY <3>2, <3>3, <3>5, Zenon
    <3> QED
      BY <3>6
  <2>3. CASE ~(m <= L)
    BY <2>3
  <2> QED
    BY <2>1, <2>2, <2>3
<1> HIDE DEF S
<1>4. \A m \in Nat : m \in S
  BY <1>3, Upward
<1>5. g[L] = t
  <2>1. L <= L
    BY <1>1
  <2> QED
    BY <1>1, <1>4, <2>1 DEF S
<1> QED
  BY <1>2, <1>5, Zenon

LEMMA ScrubClean ==
  ASSUME NEW secrets \in Seq(SecretBinding), NEW host, NEW t \in Seq(Int)
  PROVE  Scrub(t, host, secrets) \in Seq(Int) /\ Scrubbed(Scrub(t, host, secrets), host, secrets)
BY ScrubDoes DEF Cleaner, Rest, Scrubbed, Gone

\* What write_scrubbed_chunk leaves: with what was written before, the whole
\* text so far, scrubbed as one piece.
ChunkLeaves(b, g, o, host, secrets) ==
  /\ g \in Seq(Int) /\ o \in Seq(Int) /\ g \o o = Scrub(b, host, secrets)
  /\ Ready(g, o, MaxSecretLen(secrets))
  /\ MaxSecretLen(secrets) = 0 => o = <<>>

\* Nothing yet.
LEMMA NothingLeft ==
  ASSUME NEW secrets \in Seq(SecretBinding), NEW host
  PROVE  ChunkLeaves(<<>>, <<>>, <<>>, host, secrets)
<1>1. <<>> \in Seq(Int) /\ <<>> \o <<>> = <<>> /\ 1 .. Len(<<>>) = {}
  BY EmptySeq, ConcatEmptySeq
<1>2. Scrub(<<>>, host, secrets) = <<>>
  <2>1. ASSUME NEW i \in 1 .. Len(secrets), secrets[i].real # <<>>, NEW j \in Nat \ {0}
        PROVE  ~Occurs(secrets[i].real, <<>>, j)
    <3>1. secrets[i] \in SecretBinding
      BY ElementOfSeq
    <3>2. secrets[i].real \in Words
      BY <3>1 DEF SecretBinding
    <3> QED
      BY <1>1, <2>1, <3>2, CleanerSame DEF Cleaner, Rest
  <2>2. Scrubbed(<<>>, host, secrets)
    BY <2>1 DEF Scrubbed, Gone
  <2> QED
    BY <1>1, <2>2, ScrubNone
<1> QED
  BY <1>1, <1>2 DEF ChunkLeaves, Ready

\* Without a real value of any length nothing is scrubbed.
LEMMA NothingToScrub ==
  ASSUME NEW secrets \in Seq(SecretBinding), NEW host, MaxSecretLen(secrets) = 0,
         \A i \in 1 .. Len(secrets) : Len(secrets[i].real) <= ScrubCap, NEW t \in Seq(Int)
  PROVE  Scrub(t, host, secrets) = t
<1>1. ASSUME NEW i \in 1 .. Len(secrets) PROVE Gone(secrets[i], t, host)
  <2>1. secrets[i] \in SecretBinding /\ Len(secrets[i].real) <= 0
    BY ElementOfSeq, MaxCounts
  <2>2. secrets[i].real \in Words
    BY <2>1 DEF SecretBinding
  <2>3. ~(secrets[i].real # <<>>)
    BY <2>1, <2>2, NotEmpty
  <2> QED
    BY <2>3 DEF Gone
<1> QED
  BY <1>1, ScrubNone DEF Scrubbed

\* One more chunk.
LEMMA ChunkWhole ==
  ASSUME NEW secrets \in Seq(SecretBinding), Apart(secrets), NEW host,
         NEW b \in Seq(Int), NEW g, NEW o, ChunkLeaves(b, g, o, host, secrets),
         NEW chunk \in Seq(Int), NEW ws, ws = WriteScrubbed(o, chunk, host, secrets)
  PROVE  ChunkLeaves(b \o chunk, g \o ws.out, ws.overlap, host, secrets)
<1>1. PICK max, c, text, s :
        /\ max = MaxSecretLen(secrets) /\ c = o \o chunk
        /\ text = Scrub(c, host, secrets) /\ s = Scrub(b, host, secrets)
  OBVIOUS
<1>2. /\ g \in Seq(Int) /\ o \in Seq(Int) /\ g \o o = s /\ Ready(g, o, max)
      /\ max = 0 => o = <<>>
  BY <1>1 DEF ChunkLeaves
<1>3. max \in Nat /\ \A i \in 1 .. Len(secrets) : Len(secrets[i].real) <= ScrubCap
  BY <1>1, MaxCounts DEF Apart
<1>4. c \in Seq(Int) /\ b \o chunk \in Seq(Int)
  BY <1>1, <1>2, Joined
<1>5. Cleaner(text, c) /\ text \in Seq(Int) /\ s \in Seq(Int) /\ Scrubbed(s, host, secrets)
  BY <1>1, <1>4, ScrubDoes, ScrubClean DEF Cleaner, Rest
<1>6. g \o text = Scrub(b \o chunk, host, secrets)
  <2>1. Scrub(s \o chunk, host, secrets) = Scrub(b \o chunk, host, secrets)
    BY <1>1, ScrubAgain
  <2>2. s \o chunk = g \o c
    <3>1. g \in Seq(Int) /\ o \in Seq(Int) /\ chunk \in Seq(Int)
      BY <1>2
    <3>2. (g \o o) \o chunk = g \o (o \o chunk)
      BY ONLY <3>1, JoinedTwice, Zenon
    <3> QED
      BY <1>1, <1>2, <3>2, Zenon
  <2>3. Behind(g, o \o chunk, host, secrets)
    <3>1. Ready(g, o, MaxSecretLen(secrets)) /\ Scrubbed(g \o o, host, secrets)
      BY <1>1, <1>2, <1>5, Zenon
    <3> QED
      BY <1>2, <1>3, <3>1, ScrubBehind
  <2> QED
    BY <1>1, <2>1, <2>2, <2>3, Zenon DEF Behind
<1>7. PICK x, y : x = ws.out /\ y = ws.overlap
  OBVIOUS
<1>8. /\ x \in Seq(Int) /\ y \in Seq(Int) /\ g \o x \in Seq(Int)
      /\ max >= 1 => /\ x \o y = text
                     /\ Len(y) >= max - 1 \/ (x = <<>> /\ y = text)
  <2>1. Parts(ws, text, max)
    BY <1>1, <1>2, WriteMeans
  <2>2. x \in Seq(Int)
    BY <1>7, <2>1 DEF Parts
  <2> QED
    BY <1>2, <1>7, <2>1, <2>2, Joined DEF Parts
<1>9. CASE max = 0
  <2>1. ws = [out |-> chunk, overlap |-> o]
    BY <1>1, <1>9 DEF WriteScrubbed
  <2>2. x = chunk /\ y = <<>>
    BY <1>2, <1>7, <1>9, <2>1
  <2>3. c = chunk
    BY <1>1, <1>2, <1>9, ConcatEmptySeq
  <2>4. text = chunk
    BY <1>1, <1>3, <1>9, <2>3, NothingToScrub
  <2>5. (g \o x) \o y = g \o text
    BY <1>8, <2>2, <2>4, ConcatEmptySeq
  <2>6. Ready(g \o x, y, max)
    <3>1. Len(y) \in Nat
      BY <1>8, LenProperties
    <3>2. Len(y) >= max - 1
      BY <1>9, <3>1
    <3> QED
      BY <3>2 DEF Ready, Edge
  <2> QED
    BY <1>1, <1>6, <1>7, <1>8, <2>2, <2>5, <2>6 DEF ChunkLeaves
<1>10. CASE max # 0
  <2>1. /\ x \o y = text
        /\ Len(y) >= max - 1 \/ (x = <<>> /\ y = text)
    BY <1>3, <1>8, <1>10
  <2>2. (g \o x) \o y = g \o text
    <3>1. (g \o x) \o y = g \o (x \o y)
      BY ONLY <1>2, <1>8, JoinedTwice, Zenon
    <3> QED
      BY <2>1, <3>1, Zenon
  <2>3. Ready(g \o x, y, max)
    <3>1. CASE Len(y) >= max - 1
      BY <3>1 DEF Ready, Edge
    <3>2. CASE x = <<>> /\ y = text
      <4>1. g \o x = g
        BY <1>2, <3>2, ConcatEmptySeq
      <4>2. Ready(g, text, max)
        <5>1. CASE g = <<>>
          BY <5>1 DEF Ready
        <5>2. CASE Edge(g, o, max)
          <6>1. Edge(g, text, max)
            BY <1>1, <1>2, <1>3, <1>5, <5>2, EdgeStays
          <6> QED
            BY <6>1 DEF Ready
        <5> QED
          BY <1>2, <5>1, <5>2 DEF Ready
      <4> QED
        BY <3>2, <4>1, <4>2, Zenon
    <3> QED
      BY <2>1, <3>1, <3>2
  <2> QED
    BY <1>1, <1>6, <1>7, <1>8, <1>10, <2>2, <2>3 DEF ChunkLeaves
<1> QED
  BY <1>9, <1>10

----------------------------------------------------------------------------
(* The headers and what is behind them *)

\* The headers of a response with their empty line.
HeadPart(h) ==
  /\ h \in Seq(Int) /\ Len(h) >= 1 /\ h[Len(h)] = 0
  /\ \A i \in 1 .. Len(h) - 1 : h[i] # 0

\* find_header_end finds the first empty line.
LEMMA HeaderEndFirst ==
  ASSUME NEW t \in Seq(Int)
  PROVE  /\ \A i \in 1 .. HeaderEnd(t) - 1 : t[i] # 0
         /\ \A n \in 1 .. Len(t) : t[n] = 0 /\ (\A i \in 1 .. n - 1 : t[i] # 0) => HeaderEnd(t) = n
<1> DEFINE I == {i \in 1 .. Len(t) : t[i] = 0}
<1>1. Len(t) \in Nat
  BY LenProperties
<1>2. HeaderEnd(t) = IF I # {} THEN Min(I) ELSE 0
  BY DEF HeaderEnd, SelectInSeq
<1>3. I \in SUBSET Nat
  BY <1>1
<1>4. I # {} => Min(I) \in I /\ \A i \in I : Min(I) <= i
  <2> HIDE DEF I
  <2> QED
    BY <1>3, Least DEF Min
<1>5. ASSUME NEW i \in 1 .. HeaderEnd(t) - 1 PROVE t[i] # 0
  <2>1. I # {}
    BY <1>2, <1>5
  <2>2. HeaderEnd(t) \in I /\ \A k \in I : HeaderEnd(t) <= k
    BY <1>2, <1>4, <2>1
  <2>3. HeaderEnd(t) \in 1 .. Len(t)
    BY <2>2
  <2>4. i \in 1 .. Len(t) /\ ~(HeaderEnd(t) <= i)
    BY <1>1, <2>3
  <2> QED
    BY <2>2, <2>4
<1>6. ASSUME NEW n \in 1 .. Len(t), t[n] = 0, \A i \in 1 .. n - 1 : t[i] # 0
      PROVE  HeaderEnd(t) = n
  <2>1. n \in I
    BY <1>6
  <2>2. HeaderEnd(t) \in I /\ HeaderEnd(t) <= n
    BY <1>2, <1>4, <2>1
  <2>3. HeaderEnd(t) \in 1 .. Len(t) /\ t[HeaderEnd(t)] = 0
    BY <2>2
  <2>4. ~(HeaderEnd(t) < n)
    <3>1. HeaderEnd(t) < n => HeaderEnd(t) \in 1 .. n - 1
      BY <1>1, <2>3
    <3> QED
      BY <1>6, <2>3, <3>1
  <2> QED
    BY <1>1, <2>2, <2>3, <2>4
<1> QED
  BY <1>5, <1>6

\* The two parts of a joined text.
LEMMA PartsOfJoined ==
  ASSUME NEW a \in Seq(Int), NEW b \in Seq(Int)
  PROVE  /\ SubSeq(a \o b, 1, Len(a)) = a
         /\ SubSeq(a \o b, Len(a) + 1, Len(a \o b)) = b
<1> DEFINE c == a \o b  la == Len(a)  lb == Len(b)  lc == Len(c)
           x == SubSeq(c, 1, la)  y == SubSeq(c, la + 1, lc)
<1>1. /\ c \in Seq(Int) /\ la \in Nat /\ lb \in Nat /\ lc = la + lb
      /\ \A i \in 1 .. la : c[i] = a[i] /\ a[i] \in Int
      /\ \A i \in 1 .. lb : c[la + i] = b[i] /\ b[i] \in Int
  BY Joined
<1> HIDE DEF c, la, lb, lc
<1>2. \A i \in 1 .. lc : c[i] \in Int
  BY <1>1, ElementOfSeq DEF lc
<1>3. x = a
  <2>1. 1 \in Int /\ la \in Int /\ \A i \in 1 .. la : c[i] \in Int
    BY <1>1
  <2>2. /\ x \in Seq(Int) /\ Len(x) = (IF 1 <= la THEN la - 1 + 1 ELSE 0)
        /\ \A i \in 1 .. la - 1 + 1 : x[i] = c[1 + i - 1]
    BY ONLY <2>1, SubSeqProperties DEF x
  <2> HIDE DEF x
  <2>3. la - 1 + 1 = la /\ (~(1 <= la) => la = 0) /\ \A i \in 1 .. la : 1 + i - 1 = i
    BY <1>1
  <2>4. Len(x) = la /\ \A i \in 1 .. la : x[i] = a[i]
    BY <1>1, <2>2, <2>3
  <2> QED
    BY <2>2, <2>4, SeqEqual DEF la
<1>4. y = b
  <2>1. la + 1 \in Int /\ lc \in Int /\ \A i \in la + 1 .. lc : c[i] \in Int
    BY <1>1, <1>2
  <2>2. /\ y \in Seq(Int) /\ Len(y) = (IF la + 1 <= lc THEN lc - (la + 1) + 1 ELSE 0)
        /\ \A i \in 1 .. lc - (la + 1) + 1 : y[i] = c[la + 1 + i - 1]
    BY ONLY <2>1, SubSeqProperties DEF y
  <2> HIDE DEF y
  <2>3. /\ lc - (la + 1) + 1 = lb /\ (~(la + 1 <= lc) => lb = 0)
        /\ \A i \in 1 .. lb : la + 1 + i - 1 = la + i
    BY <1>1
  <2>4. Len(y) = lb /\ \A i \in 1 .. lb : y[i] = b[i]
    BY <1>1, <2>2, <2>3
  <2> QED
    BY <2>2, <2>4, SeqEqual DEF lb
<1> QED
  BY <1>3, <1>4 DEF c, la, lc, x, y

\* The headers are found where they end, whatever follows.
LEMMA HeadStays ==
  ASSUME NEW h, HeadPart(h), NEW b \in Seq(Int)
  PROVE  HeaderEnd(h \o b) = Len(h)
<1> DEFINE t == h \o b  n == Len(h)
<1>1. /\ t \in Seq(Int) /\ n \in Nat /\ Len(b) \in Nat /\ Len(t) = n + Len(b)
      /\ \A i \in 1 .. n : t[i] = h[i]
  BY Joined DEF HeadPart
<1>2. n >= 1 /\ h[n] = 0 /\ \A i \in 1 .. n - 1 : h[i] # 0
  BY DEF HeadPart
<1> HIDE DEF t, n
<1>3. n \in 1 .. Len(t) /\ n \in 1 .. n /\ \A i \in 1 .. n - 1 : i \in 1 .. n
  BY <1>1, <1>2
<1>4. t[n] = 0 /\ \A i \in 1 .. n - 1 : t[i] # 0
  BY <1>1, <1>2, <1>3
<1>5. HeaderEnd(t) = n
  BY <1>1, <1>3, <1>4, HeaderEndFirst
<1> QED
  BY <1>5 DEF t, n

\* And cut there, a text falls into its headers and its body.
LEMMA HeadFound ==
  ASSUME NEW t \in Seq(Int), HeaderEnd(t) # 0
  PROVE  /\ HeadPart(SubSeq(t, 1, HeaderEnd(t)))
         /\ SubSeq(t, HeaderEnd(t) + 1, Len(t)) \in Seq(Int)
         /\ t = SubSeq(t, 1, HeaderEnd(t)) \o SubSeq(t, HeaderEnd(t) + 1, Len(t))
<1> DEFINE e == HeaderEnd(t)  lt == Len(t)  h == SubSeq(t, 1, e)  b == SubSeq(t, e + 1, lt)
<1>1. lt \in Nat /\ e \in 1 .. lt /\ t[e] = 0 /\ \A i \in 1 .. lt : t[i] \in Int
  BY LenProperties, HeaderEndIs, ElementOfSeq
<1>2. \A i \in 1 .. e - 1 : t[i] # 0
  BY HeaderEndFirst
<1> HIDE DEF e
<1>3. /\ h \in Seq(Int) /\ Len(h) = e /\ \A i \in 1 .. e : h[i] = t[i]
  <2>1. 1 \in Int /\ e \in Int /\ \A i \in 1 .. e : t[i] \in Int
    BY <1>1
  <2>2. /\ h \in Seq(Int) /\ Len(h) = IF 1 <= e THEN e - 1 + 1 ELSE 0
        /\ \A i \in 1 .. e - 1 + 1 : h[i] = t[1 + i - 1]
    BY ONLY <2>1, SubSeqProperties DEF h
  <2> HIDE DEF h
  <2>3. 1 <= e /\ e - 1 + 1 = e /\ \A i \in 1 .. e : 1 + i - 1 = i
    BY <1>1
  <2> QED
    BY <2>2, <2>3
<1>4. b \in Seq(Int)
  <2>1. e + 1 \in Int /\ lt \in Int /\ \A i \in e + 1 .. lt : t[i] \in Int
    BY <1>1
  <2> QED
    BY ONLY <2>1, SubSeqProperties DEF b
<1>5. h \o b = t
  <2>1. 1 \in 1 .. Len(t) + 1 /\ e \in 1 - 1 .. Len(t) /\ Len(t) \in e .. Len(t)
    BY <1>1
  <2>2. SubSeq(t, 1, e) \o SubSeq(t, e + 1, Len(t)) = SubSeq(t, 1, Len(t))
    BY ONLY t \in Seq(Int), <2>1, ConcatAdjacentSubSeq
  <2>3. SubSeq(t, 1, Len(t)) = t
    BY SubSeqFull
  <2> QED
    BY <2>2, <2>3
<1> HIDE DEF h, b, lt
<1>6. HeadPart(h)
  <2>1. e >= 1 /\ h[e] = 0 /\ \A i \in 1 .. e - 1 : h[i] # 0
    <3>1. e \in 1 .. e /\ \A i \in 1 .. e - 1 : i \in 1 .. e
      BY <1>1
    <3> QED
      BY <1>1, <1>2, <1>3, <3>1
  <2>2. PICK n : n = Len(h)
    OBVIOUS
  <2>3. n >= 1 /\ h[n] = 0 /\ \A i \in 1 .. n - 1 : h[i] # 0
    BY <1>3, <2>1, <2>2, Zenon
  <2> QED
    BY <1>3, <2>2, <2>3, Zenon DEF HeadPart
<1> QED
  BY <1>4, <1>5, <1>6 DEF e, h, b, lt

\* What the secrets of Separate are, one by one.
LEMMA SeparateMeans ==
  ASSUME Separate, Secrets \in Seq(SecretBinding)
  PROVE  Apart(Secrets)
<1> SUFFICES ASSUME NEW i \in 1 .. Len(Secrets), NEW j \in 1 .. Len(Secrets)
             PROVE  /\ Len(Secrets[i].real) <= ScrubCap
                    /\ Disjoint(Secrets[i].real, Secrets[j].real)
                    /\ Secrets[i].real = Secrets[j].real
                         => Secrets[i].real = <<>> \/ Secrets[i] = Secrets[j]
  BY DEF Apart
<1>1. PICK s, t : s = Secrets[i] /\ t = Secrets[j]
  OBVIOUS
<1>2. s \in ToSet(Secrets) /\ t \in ToSet(Secrets) /\ s \in SecretBinding /\ t \in SecretBinding
  BY <1>1, LenProperties, ElementOfSeq DEF ToSet
<1>3. PICK u, w : u = s.real /\ w = t.real
  OBVIOUS
<1>4. u \in Words /\ w \in Words
  BY <1>2, <1>3 DEF SecretBinding
<1>5. /\ Len(u) <= ScrubCap /\ ~Meets(u, w) /\ ~Meets(w, u)
      /\ s # t => ~Shows(u, w) /\ ~Shows(w, u)
  BY <1>2, <1>3 DEF Separate
<1>6. u # w => s # t
  BY <1>3
<1>7. Disjoint(u, w)
  BY <1>5, <1>6 DEF Disjoint
<1>8. u = w /\ u # <<>> => Shows(u, w)
  <2>1. SUFFICES ASSUME u # <<>> PROVE Shows(u, u)
    OBVIOUS
  <2>2. Len(u) \in Nat /\ Len(u) >= 1
    BY <1>4, <2>1, NotEmpty
  <2>3. 1 \in 1 .. Len(u) /\ Occurs(u, u, 1)
    BY <2>2 DEF Occurs
  <2> QED
    BY <2>3 DEF Shows
<1> QED
  BY <1>1, <1>3, <1>5, <1>7, <1>8

----------------------------------------------------------------------------
(* What the guest has of a response *)

\* The secrets NoSecretToGuest is about.
Shielded(s, host) ==
  host \in s.hosts /\ Len(s.real) \in 1 .. ScrubCap /\ CloseHeader \notin ToSet(s.real)

\* None of them is in what was written and is kept back.
Kept(host, secrets, g, o) ==
  \A i \in 1 .. Len(secrets) : Shielded(secrets[i], host)
    => \A j \in Nat \ {0} : ~Occurs(secrets[i].real, g \o o, j)

\* None of them can come to lie across what was written and what comes.
Closed(host, secrets, g, o) ==
  \A i \in 1 .. Len(secrets) :
    Shielded(secrets[i], host) => Edge(g, o, MaxSecretLen(secrets))

LEMMA SecretFacts ==
  ASSUME NEW secrets \in Seq(SecretBinding), NEW i \in 1 .. Len(secrets), NEW host,
         Shielded(secrets[i], host)
  PROVE  secrets[i].real \in Words /\ secrets[i].real # <<>> /\ Len(secrets[i].real) >= 1
<1>1. secrets[i] \in SecretBinding
  BY ElementOfSeq
<1> DEFINE w == secrets[i].real
<1>2. w \in Words
  BY <1>1 DEF SecretBinding
<1>3. Len(w) \in 1 .. ScrubCap
  BY DEF Shielded
<1> HIDE DEF w
<1>4. Len(<<>>) = 0 /\ Len(w) >= 1
  BY <1>3, TextAssumption
<1>5. w # <<>>
  <2>1. SUFFICES ASSUME w = <<>> PROVE FALSE
    OBVIOUS
  <2>2. Len(w) = 0
    BY <1>4, <2>1, Zenon
  <2> QED
    BY <1>4, <2>2
<1> QED
  BY <1>2, <1>4, <1>5 DEF w

LEMMA KeptEmpty ==
  ASSUME NEW secrets \in Seq(SecretBinding), NEW host
  PROVE  Kept(host, secrets, <<>>, <<>>)
<1>1. ASSUME NEW i \in 1 .. Len(secrets), Shielded(secrets[i], host), NEW j \in Nat \ {0}
      PROVE  ~Occurs(secrets[i].real, <<>> \o <<>>, j)
  <2> DEFINE w == secrets[i].real
  <2>1. w \in Words /\ w # <<>>
    BY <1>1, SecretFacts
  <2> HIDE DEF w
  <2>2. 1 .. Len(<<>>) = {} /\ <<>> \in Seq(Int)
    BY EmptySeq
  <2>3. ~Occurs(w, <<>>, j)
    BY <2>1, <2>2, CleanerSame DEF Cleaner, Rest
  <2>4. <<>> \o <<>> = <<>>
    BY <2>2, ConcatEmptySeq
  <2> QED
    BY <2>3, <2>4 DEF w
<1> QED
  BY <1>1 DEF Kept

LEMMA KeptFlush ==
  ASSUME NEW secrets, NEW host, NEW g \in Seq(Int), NEW o \in Seq(Int), Kept(host, secrets, g, o)
  PROVE  g \o o \in Seq(Int) /\ Kept(host, secrets, g \o o, <<>>)
<1>1. g \o o \in Seq(Int)
  BY Joined
<1>2. (g \o o) \o <<>> = g \o o
  BY <1>1, ConcatEmptySeq
<1> QED
  BY <1>1, <1>2 DEF Kept

LEMMA KeptChunk ==
  ASSUME NEW secrets \in Seq(SecretBinding), NEW host, NEW g \in Seq(Int), NEW o \in Seq(Int),
         NEW chunk \in Seq(Int), Kept(host, secrets, g, o), Closed(host, secrets, g, o),
         NEW ws, ws = WriteScrubbed(o, chunk, host, secrets)
  PROVE  /\ Kept(host, secrets, g \o ws.out, ws.overlap)
         /\ Closed(host, secrets, g \o ws.out, ws.overlap)
<1>1. ASSUME NEW i \in 1 .. Len(secrets), Shielded(secrets[i], host)
      PROVE  /\ \A j \in Nat \ {0} : ~Occurs(secrets[i].real, (g \o ws.out) \o ws.overlap, j)
             /\ Edge(g \o ws.out, ws.overlap, MaxSecretLen(secrets))
  <2>1. Applies(secrets[i], host) /\ Len(secrets[i].real) \in 1 .. ScrubCap
    BY <1>1 DEF Shielded, Applies
  <2>2. /\ Edge(g, o, MaxSecretLen(secrets))
        /\ \A j \in Nat \ {0} : ~Occurs(secrets[i].real, g \o o, j)
    BY <1>1 DEF Kept, Closed
  <2> QED
    BY <2>1, <2>2, ChunkKeeps
<1> QED
  BY <1>1 DEF Kept, Closed

\* The headers, scrubbed and rewritten, or a whole response without any.
LEMMA KeptHeaders ==
  ASSUME NEW secrets \in Seq(SecretBinding), NEW host, NEW t \in Seq(Int),
         NEW hd, hd = RewriteClose(Scrub(t, host, secrets))
  PROVE  /\ hd \in Seq(Int)
         /\ Kept(host, secrets, hd, <<>>)
         /\ Len(t) >= 1 /\ t[Len(t)] <= 0 => Closed(host, secrets, hd, <<>>)
<1> DEFINE x == Scrub(t, host, secrets)
<1>1. Cleaner(x, t) /\ x \in Seq(Int) /\ Len(x) \in Nat
  BY ScrubDoes, LenProperties DEF Cleaner, Rest
<1>2. ASSUME NEW i \in 1 .. Len(secrets), Shielded(secrets[i], host)
      PROVE  \A j \in Nat \ {0} : ~Occurs(secrets[i].real, x, j)
  <2>1. Applies(secrets[i], host) /\ secrets[i].real # <<>>
    BY <1>2, SecretFacts DEF Shielded, Applies
  <2> QED
    BY <2>1, ScrubDoes
<1>3. hd = RewriteClose(x)
  OBVIOUS
<1> HIDE DEF x
<1>4. /\ hd \in Seq(Int)
      /\ \A w \in Words, j \in Nat \ {0} :
           w # <<>> /\ CloseHeader \notin ToSet(w) /\ Occurs(w, hd, j) => \E k \in 1 .. Len(x) : Occurs(w, x, k)
      /\ Len(x) >= 1 /\ x[Len(x)] <= 0 => Len(hd) >= 1 /\ hd[Len(hd)] <= 0
  BY <1>1, <1>3, CloseAdds
<1>5. Kept(host, secrets, hd, <<>>)
  <2>1. ASSUME NEW i \in 1 .. Len(secrets), Shielded(secrets[i], host), NEW j \in Nat \ {0},
               Occurs(secrets[i].real, hd, j)
        PROVE  FALSE
    <3>1. /\ secrets[i].real \in Words /\ secrets[i].real # <<>>
          /\ CloseHeader \notin ToSet(secrets[i].real)
      BY <2>1, SecretFacts DEF Shielded
    <3>2. PICK k \in 1 .. Len(x) : Occurs(secrets[i].real, x, k)
      BY <1>4, <2>1, <3>1
    <3>3. k \in Nat \ {0}
      BY <1>1
    <3> QED
      BY <1>2, <2>1, <3>2, <3>3
  <2>2. hd \o <<>> = hd
    BY <1>4, ConcatEmptySeq
  <2> QED
    BY <2>1, <2>2 DEF Kept
<1>6. ASSUME Len(t) >= 1, t[Len(t)] <= 0 PROVE Closed(host, secrets, hd, <<>>)
  <2>1. Len(t) \in Nat
    BY LenProperties
  <2>2. 1 <= Len(t)
    BY <1>6, <2>1
  <2>3. Len(x) >= 1 /\ x[Len(x)] <= 0
    BY <1>1, <1>6, <2>2 DEF Cleaner, Rest
  <2> QED
    BY <1>4, <2>3 DEF Closed, Edge
<1> QED
  BY <1>4, <1>5, <1>6

----------------------------------------------------------------------------
(* The steps of a response *)

Running == pc \notin {"flush", "done"}

ScrubInv ==
  /\ headerBuf \in Seq(Int) /\ overlap \in Seq(Int) /\ toGuest \in Seq(Int)
  /\ Running /\ ~headersSent => toGuest = <<>> /\ overlap = <<>>
  /\ Kept(req.sni, Secrets, toGuest, overlap)
  /\ Running /\ headersSent => Closed(req.sni, Secrets, toGuest, overlap)

LEMMA SecretsFit == PathInv => Secrets \in Seq(SecretBinding)
BY PolicyAssumption DEF PathInv, Secrets

\* The headers and what came behind them, in one step.
LEMMA HeadersKeep ==
  ASSUME Secrets \in Seq(SecretBinding), NEW text \in Seq(Int), HeaderEnd(text) # 0
  PROVE  /\ Headers(text).out \in Seq(Int) /\ Headers(text).overlap \in Seq(Int)
         /\ Kept(req.sni, Secrets, Headers(text).out, Headers(text).overlap)
         /\ Closed(req.sni, Secrets, Headers(text).out, Headers(text).overlap)
<1> DEFINE end == HeaderEnd(text)
           h   == SubSeq(text, 1, end)
           c   == SubSeq(text, end + 1, Len(text))
           hd  == RewriteClose(Scrub(h, req.sni, Secrets))
           ws  == WriteScrubbed(<<>>, c, req.sni, Secrets)
<1>1. /\ Len(text) \in Nat /\ end \in 1 .. Len(text) /\ text[end] = 0
      /\ \A i \in 1 .. Len(text) : text[i] \in Int
  BY LenProperties, HeaderEndIs, ElementOfSeq
<1>2. Headers(text) = [ws EXCEPT !.out = hd \o @]
  BY DEF Headers
<1>3. PICK a, b : ws = [out |-> a, overlap |-> b]
  BY DEF WriteScrubbed
<1>4. <<>> \in Seq(Int)
  BY EmptySeq
<1> HIDE DEF end
<1>5. h \in Seq(Int) /\ Len(h) = end /\ h[end] = 0
  <2>1. 1 \in Int /\ end \in Int /\ \A i \in 1 .. end : text[i] \in Int
    BY <1>1
  <2>2. /\ h \in Seq(Int) /\ Len(h) = IF 1 <= end THEN end - 1 + 1 ELSE 0
        /\ \A i \in 1 .. end - 1 + 1 : h[i] = text[1 + i - 1]
    BY ONLY <2>1, SubSeqProperties DEF h
  <2>3. 1 <= end /\ end - 1 + 1 = end /\ end \in 1 .. end /\ 1 + end - 1 = end
    BY <1>1
  <2> QED
    BY <1>1, <2>2, <2>3
<1>6. c \in Seq(Int)
  <2>1. end + 1 \in Int /\ Len(text) \in Int /\ \A i \in end + 1 .. Len(text) : text[i] \in Int
    BY <1>1
  <2> QED
    BY ONLY <2>1, SubSeqProperties DEF c
<1> HIDE DEF h, c
<1>7. /\ hd \in Seq(Int) /\ Kept(req.sni, Secrets, hd, <<>>)
      /\ Closed(req.sni, Secrets, hd, <<>>)
  <2>1. Len(h) >= 1 /\ h[Len(h)] <= 0
    BY <1>1, <1>5
  <2> QED
    BY <1>5, <2>1, KeptHeaders
<1>8. Parts(ws, Scrub(<<>> \o c, req.sni, Secrets), MaxSecretLen(Secrets))
  BY <1>4, <1>6, WriteMeans
<1> HIDE DEF hd
<1>9. /\ Kept(req.sni, Secrets, hd \o ws.out, ws.overlap)
      /\ Closed(req.sni, Secrets, hd \o ws.out, ws.overlap)
  BY <1>4, <1>6, <1>7, KeptChunk
<1> HIDE DEF ws
<1>10. Headers(text).out = hd \o ws.out /\ Headers(text).overlap = ws.overlap
  BY <1>2, <1>3
<1>11. ws.out \in Seq(Int) /\ ws.overlap \in Seq(Int)
  BY <1>8 DEF Parts
<1>12. hd \o ws.out \in Seq(Int)
  BY <1>7, <1>11, Joined
<1> QED
  BY <1>9, <1>10, <1>11, <1>12

LEMMA PieceFits ==
  ASSUME NEW t \in Pieces
  PROVE  t \in Seq(Int)
<1>1. PICK n \in 1 .. MaxPiece : t \in [1 .. n -> Symbols]
  BY DEF Pieces
<1>2. n \in Nat
  BY <1>1, SymbolAssumption
<1>3. t \in Seq(Symbols)
  BY <1>1, <1>2
<1> QED
  BY <1>3, SymbolAssumption, SeqMonotonic

LEMMA InitScrub == PathInv /\ Init => ScrubInv
<1> SUFFICES ASSUME PathInv, Init PROVE ScrubInv
  OBVIOUS
<1>1. /\ headerBuf = <<>> /\ overlap = <<>> /\ toGuest = <<>> /\ headersSent = FALSE
      /\ <<>> \in Seq(Int)
  BY EmptySeq DEF Init
<1>2. Kept(req.sni, Secrets, <<>>, <<>>)
  BY SecretsFit, KeptEmpty
<1> QED
  BY <1>1, <1>2 DEF ScrubInv

\* A step that writes nothing, and does not begin again.
LEMMA QuietStep ==
  ASSUME ScrubInv, UNCHANGED <<policy, req, headerBuf, headersSent, overlap, toGuest>>,
         Running' => Running
  PROVE  ScrubInv'
<1>1. req'.sni = req.sni /\ Secrets' = Secrets
  BY DEF Secrets
<1> QED
  BY <1>1 DEF ScrubInv

LEMMA RelayStep ==
  ASSUME PathInv, ScrubInv, NEW t \in Pieces, RelayRead(t)
  PROVE  ScrubInv'
<1> DEFINE text == headerBuf \o t
           w == IF headersSent THEN WriteScrubbed(overlap, t, req.sni, Secrets) ELSE Headers(text)
<1>1. Secrets \in Seq(SecretBinding) /\ t \in Seq(Int)
  BY SecretsFit, PieceFits
<1>2. /\ pc = "relay" /\ Running /\ req' = req /\ Secrets' = Secrets
      /\ UNCHANGED <<policy, req>>
  BY DEF RelayRead, Running, Secrets, shared, reqVars
<1>3. \/ Fail /\ UNCHANGED <<headerBuf, headersSent, overlap, toGuest>>
      \/ /\ ~headersSent
         /\ headerBuf' = text /\ UNCHANGED <<pc, result, headersSent, overlap, toGuest>>
      \/ /\ headersSent \/ HeaderEnd(text) # 0
         /\ headersSent' = TRUE /\ headerBuf' = <<>>
         /\ overlap' = w.overlap /\ toGuest' = toGuest \o w.out
         /\ UNCHANGED <<pc, result>>
  BY DEF RelayRead
<1>4. headerBuf \in Seq(Int) /\ overlap \in Seq(Int) /\ toGuest \in Seq(Int) /\ text \in Seq(Int)
  BY <1>1, Joined DEF ScrubInv
<1>5. CASE Fail /\ UNCHANGED <<headerBuf, headersSent, overlap, toGuest>>
  BY <1>2, <1>5, QuietStep DEF Fail, Running
<1>6. CASE ~headersSent /\ headerBuf' = text /\ UNCHANGED <<pc, result, headersSent, overlap, toGuest>>
  <2> HIDE DEF text
  <2> QED
    BY <1>2, <1>4, <1>6 DEF ScrubInv, Running
<1>7. CASE /\ headersSent \/ HeaderEnd(text) # 0
           /\ headersSent' = TRUE /\ headerBuf' = <<>>
           /\ overlap' = w.overlap /\ toGuest' = toGuest \o w.out
           /\ UNCHANGED <<pc, result>>
  <2>1. /\ w.out \in Seq(Int) /\ w.overlap \in Seq(Int)
        /\ Kept(req.sni, Secrets, toGuest \o w.out, w.overlap)
        /\ Closed(req.sni, Secrets, toGuest \o w.out, w.overlap)
    <3>1. CASE headersSent
      <4>1. w = WriteScrubbed(overlap, t, req.sni, Secrets)
        BY <3>1
      <4>2. /\ Kept(req.sni, Secrets, toGuest, overlap) /\ Closed(req.sni, Secrets, toGuest, overlap)
        BY <1>2, <3>1 DEF ScrubInv
      <4>3. Parts(w, Scrub(overlap \o t, req.sni, Secrets), MaxSecretLen(Secrets))
        BY <1>1, <1>4, <4>1, WriteMeans
      <4>4. w.out \in Seq(Int) /\ w.overlap \in Seq(Int)
        BY <4>3 DEF Parts
      <4> HIDE DEF w
      <4>5. /\ Kept(req.sni, Secrets, toGuest \o w.out, w.overlap)
            /\ Closed(req.sni, Secrets, toGuest \o w.out, w.overlap)
        BY ONLY <1>1, <1>4, <4>1, <4>2, KeptChunk
      <4> QED
        BY <4>4, <4>5 DEF w
    <3>2. CASE ~headersSent
      <4>1. w = Headers(text) /\ HeaderEnd(text) # 0
        BY <1>7, <3>2
      <4>2. toGuest = <<>>
        BY <1>2, <3>2 DEF ScrubInv
      <4> HIDE DEF w, text
      <4>3. /\ w.out \in Seq(Int) /\ w.overlap \in Seq(Int)
            /\ Kept(req.sni, Secrets, w.out, w.overlap)
            /\ Closed(req.sni, Secrets, w.out, w.overlap)
        BY <1>1, <1>4, <4>1, HeadersKeep
      <4>4. toGuest \o w.out = w.out
        BY <4>2, <4>3, ConcatEmptySeq
      <4> QED
        BY <4>3, <4>4 DEF w
    <3> QED
      BY <3>1, <3>2
  <2> HIDE DEF w
  <2>2. toGuest \o w.out \in Seq(Int) /\ <<>> \in Seq(Int)
    BY <1>4, <2>1, Joined, EmptySeq
  <2> QED
    BY <1>2, <1>7, <2>1, <2>2 DEF ScrubInv
<1> QED
  BY <1>3, <1>5, <1>6, <1>7

LEMMA ClosedStep ==
  ASSUME PathInv, ScrubInv, UpstreamClosed
  PROVE  ScrubInv'
<1>1. Secrets \in Seq(SecretBinding) /\ headerBuf \in Seq(Int)
  BY SecretsFit DEF ScrubInv
<1>2. pc = "relay" /\ Running /\ Secrets' = Secrets
      /\ UNCHANGED <<policy, req, headerBuf, headersSent, overlap>>
  BY DEF UpstreamClosed, Running, Secrets, shared, reqVars
<1>3. CASE toGuest' = toGuest
  <2>1. Running' => Running
    BY <1>2
  <2> QED
    BY <1>2, <1>3, <2>1, QuietStep
<1>4. CASE /\ ~headersSent /\ pc' = "flush"
           /\ toGuest' = toGuest \o RewriteClose(Scrub(headerBuf, req.sni, Secrets))
  <2> DEFINE hd == RewriteClose(Scrub(headerBuf, req.sni, Secrets))
  <2>1. toGuest = <<>> /\ overlap = <<>>
    BY <1>2, <1>4 DEF ScrubInv
  <2>2. hd \in Seq(Int) /\ Kept(req.sni, Secrets, hd, <<>>)
    BY <1>1, KeptHeaders
  <2>3. toGuest' = <<>> \o hd
    BY <1>4, <2>1
  <2> HIDE DEF hd
  <2>4. toGuest' = hd
    BY <2>2, <2>3, ConcatEmptySeq
  <2>5. ~Running'
    BY <1>4 DEF Running
  <2> QED
    BY <1>1, <1>2, <2>1, <2>2, <2>4, <2>5 DEF ScrubInv
<1> QED
  BY <1>3, <1>4 DEF UpstreamClosed

LEMMA FlushStep ==
  ASSUME PathInv, ScrubInv, Flush
  PROVE  ScrubInv'
<1>1. /\ Secrets' = Secrets /\ ~Running' /\ UNCHANGED <<policy, req, headerBuf, headersSent>>
  BY DEF Flush, Running, Secrets, shared, reqVars
<1>2. toGuest \in Seq(Int) /\ overlap \in Seq(Int) /\ Kept(req.sni, Secrets, toGuest, overlap)
  BY DEF ScrubInv
<1>3. CASE UNCHANGED <<toGuest, overlap>>
  BY <1>1, <1>3, QuietStep
<1>4. CASE toGuest' = toGuest \o overlap /\ overlap' = <<>>
  <2>1. toGuest \o overlap \in Seq(Int) /\ Kept(req.sni, Secrets, toGuest \o overlap, <<>>)
    BY <1>2, KeptFlush
  <2>2. <<>> \in Seq(Int)
    BY EmptySeq
  <2> QED
    BY <1>1, <1>4, <2>1, <2>2 DEF ScrubInv
<1> QED
  BY <1>3, <1>4 DEF Flush

LEMMA BeginStep ==
  ASSUME PathInv, ScrubInv, NEW r \in Requests, NextConnection(r)
  PROVE  ScrubInv'
<1>1. Secrets \in Seq(SecretBinding) /\ Secrets' = Secrets
  BY SecretsFit DEF NextConnection, Secrets
<1>2. /\ headerBuf' = <<>> /\ overlap' = <<>> /\ toGuest' = <<>> /\ headersSent' = FALSE
      /\ <<>> \in Seq(Int) /\ req' = r
  BY EmptySeq DEF NextConnection, Fresh
<1>3. Kept(r.sni, Secrets, <<>>, <<>>)
  BY <1>1, KeptEmpty
<1> QED
  BY <1>1, <1>2, <1>3 DEF ScrubInv

LEMMA NextScrub == PathInv /\ ScrubInv /\ [Next]_vars => ScrubInv'
<1> SUFFICES ASSUME PathInv, ScrubInv, [Next]_vars PROVE ScrubInv'
  OBVIOUS
<1> USE DEF vars, shared, reqVars, upVars, respVars, Running
<1>1. CASE UNCHANGED vars
  BY <1>1, QuietStep
<1>2. CASE Handshake \/ (\E n \in 1 .. MaxPiece : ReadPiece(n)) \/ GuestCloses \/ ReadFails
  BY <1>2, QuietStep DEF Handshake, ReadPiece, GuestCloses, ReadFails, Fail
<1>3. CASE Refuse \/ Pass \/ (\E a \in Addresses : Connect(a)) \/ UpstreamHandshake
  BY <1>3, QuietStep DEF Refuse, Pass, Connect, UpstreamHandshake
<1>4. CASE UpstreamFails \/ Send \/ UpstreamStops \/ RelayFails \/ LoopDrops
  BY <1>4, QuietStep DEF UpstreamFails, Send, UpstreamStops, RelayFails, LoopDrops, Fail
<1>5. CASE \E t \in Pieces : RelayRead(t)
  BY <1>5, RelayStep
<1>6. CASE UpstreamClosed
  BY <1>6, ClosedStep
<1>7. CASE Flush
  BY <1>7, FlushStep
<1>8. CASE \E r \in Requests : NextConnection(r)
  BY <1>8, BeginStep
<1> QED
  BY <1>1, <1>2, <1>3, <1>4, <1>5, <1>6, <1>7, <1>8 DEF Next, Own

\* However upstream and the loop cut the response into pieces, whichever secrets
\* the program has and however long they are, the guest gets no real value of a
\* secret of that host, the two named exceptions apart (proxy.rs:1217-1330).
THEOREM ResponsesAreScrubbed == Spec => []NoSecretToGuest
<1>1. PathInv /\ ScrubInv => NoSecretToGuest
  <2> SUFFICES ASSUME PathInv, ScrubInv, NEW s \in ToSet(Secrets), Shielded(s, req.sni),
                      NEW j \in 1 .. Len(toGuest), Occurs(s.real, toGuest, j)
               PROVE  FALSE
    BY DEF NoSecretToGuest, Shielded, Shows
  <2>1. Secrets \in Seq(SecretBinding) /\ toGuest \in Seq(Int) /\ overlap \in Seq(Int)
    BY SecretsFit DEF ScrubInv
  <2>2. PICK i \in 1 .. Len(Secrets) : s = Secrets[i]
    BY <2>1, LenProperties DEF ToSet
  <2>3. s.real \in Words
    BY <2>1, <2>2, SecretFacts
  <2>4. j \in Nat \ {0} /\ j + Len(s.real) - 1 <= Len(toGuest)
    BY <2>1, LenProperties DEF Occurs
  <2>5. Occurs(s.real, toGuest \o overlap, j)
    BY <2>1, <2>3, <2>4, OccursAhead
  <2> QED
    BY <2>2, <2>4, <2>5 DEF ScrubInv, Kept
<1> QED
  BY <1>1, InitPath, NextPath, InitScrub, NextScrub, PTL DEF Spec

----------------------------------------------------------------------------
(* The pieces and the whole *)

\* The response so far: its headers, its body, and what was written of the body.
Split(h, b, p) ==
  /\ HeadPart(h) /\ b \in Seq(Int) /\ p \in Seq(Int)
  /\ got = h \o b
  /\ toGuest = RewriteClose(Scrub(h, req.sni, Secrets)) \o p
  /\ p \o overlap = Scrub(b, req.sni, Secrets)
  /\ Running => Ready(p, overlap, MaxSecretLen(Secrets))
  /\ MaxSecretLen(Secrets) = 0 => overlap = <<>>

WholeTextInv ==
  /\ got \in Seq(Int)
  /\ headersSent => pc \in {"relay", "flush", "done"}
  /\ pc # "done" => result = "none"
  /\ Running /\ ~headersSent => headerBuf = got
  /\ headersSent /\ Separate /\ result # "err" => \E h, b, p : Split(h, b, p)
  /\ headersSent /\ result = "ok" => overlap = <<>>

LEMMA HeadFits ==
  ASSUME Secrets \in Seq(SecretBinding), NEW h \in Seq(Int)
  PROVE  RewriteClose(Scrub(h, req.sni, Secrets)) \in Seq(Int)
<1>1. Scrub(h, req.sni, Secrets) \in Seq(Int)
  BY ScrubClean
<1> QED
  BY <1>1, CloseAdds

\* The first write: the headers, and what came behind them as the first chunk.
LEMMA HeadersSplit ==
  ASSUME Secrets \in Seq(SecretBinding), Apart(Secrets), NEW t \in Seq(Int), HeaderEnd(t) # 0
  PROVE  \E h, b, p :
           /\ HeadPart(h) /\ b \in Seq(Int) /\ t = h \o b
           /\ Headers(t).out = RewriteClose(Scrub(h, req.sni, Secrets)) \o p
           /\ ChunkLeaves(b, p, Headers(t).overlap, req.sni, Secrets)
<1>1. PICK h, b : h = SubSeq(t, 1, HeaderEnd(t)) /\ b = SubSeq(t, HeaderEnd(t) + 1, Len(t))
  OBVIOUS
<1>2. HeadPart(h) /\ b \in Seq(Int) /\ t = h \o b
  BY <1>1, HeadFound
<1>3. PICK rest : rest = WriteScrubbed(<<>>, b, req.sni, Secrets)
  OBVIOUS
<1>4. PICK x, y : rest = [out |-> x, overlap |-> y]
  BY <1>3 DEF WriteScrubbed
<1>5. PICK hd : hd = RewriteClose(Scrub(h, req.sni, Secrets))
  OBVIOUS
<1>6. Headers(t) = [rest EXCEPT !.out = hd \o @]
  BY <1>1, <1>3, <1>5 DEF Headers
<1>7. Headers(t).out = hd \o x /\ Headers(t).overlap = y
  BY <1>4, <1>6
<1>8. ChunkLeaves(<<>> \o b, <<>> \o rest.out, rest.overlap, req.sni, Secrets)
  <2>1. ChunkLeaves(<<>>, <<>>, <<>>, req.sni, Secrets) /\ <<>> \in Seq(Int)
    BY NothingLeft, EmptySeq
  <2> QED
    BY <1>2, <1>3, <2>1, ChunkWhole
<1>9. rest.out = x /\ rest.overlap = y
  BY <1>4
<1>10. x \in Seq(Int)
  <2>1. Parts(rest, Scrub(<<>> \o b, req.sni, Secrets), MaxSecretLen(Secrets))
    BY <1>2, <1>3, WriteMeans, EmptySeq
  <2> QED
    BY <1>9, <2>1 DEF Parts
<1>11. <<>> \o b = b /\ <<>> \o x = x
  BY <1>2, <1>10, ConcatEmptySeq
<1>12. ChunkLeaves(b, x, y, req.sni, Secrets)
  BY <1>8, <1>9, <1>11, Zenon
<1> QED
  BY <1>2, <1>5, <1>7, <1>12, Zenon

LEMMA InitWholeText == Init => WholeTextInv
<1>1. <<>> \in Seq(Int)
  BY EmptySeq
<1> QED
  BY <1>1 DEF Init, WholeTextInv

\* A step that neither reads from upstream nor writes to the guest.
LEMMA SilentStep ==
  ASSUME WholeTextInv, UNCHANGED <<policy, req, got, headerBuf, headersSent, overlap, toGuest>>,
         Running' => Running,
         headersSent => pc' \in {"relay", "flush", "done"},
         pc' # "done" => result' = "none",
         result' # "err" => result # "err",
         headersSent /\ result' = "ok" => overlap = <<>>
  PROVE  WholeTextInv'
<1>1. req'.sni = req.sni /\ Secrets' = Secrets /\ Separate' = Separate
  BY DEF Secrets, Separate
<1>2. ASSUME NEW h, NEW b, NEW p, Split(h, b, p) PROVE Split(h, b, p)'
  BY <1>1, <1>2 DEF Split
<1> QED
  BY <1>1, <1>2 DEF WholeTextInv

LEMMA ReadStep ==
  ASSUME PathInv, ScrubInv, WholeTextInv, NEW t \in Pieces, RelayRead(t)
  PROVE  WholeTextInv'
<1> DEFINE text == headerBuf \o t
           w == IF headersSent THEN WriteScrubbed(overlap, t, req.sni, Secrets) ELSE Headers(text)
<1>1. Secrets \in Seq(SecretBinding) /\ t \in Seq(Int) /\ got \in Seq(Int)
  BY SecretsFit, PieceFits DEF WholeTextInv
<1>2. /\ pc = "relay" /\ Running /\ req' = req /\ Secrets' = Secrets /\ Separate' = Separate
      /\ got' = got \o t /\ result = "none"
  BY DEF RelayRead, Running, Secrets, Separate, shared, reqVars, WholeTextInv
<1>3. got' \in Seq(Int)
  BY <1>1, <1>2, Joined
<1>4. \/ Fail /\ UNCHANGED <<headerBuf, headersSent, overlap, toGuest>>
      \/ /\ ~headersSent
         /\ headerBuf' = text /\ UNCHANGED <<pc, result, headersSent, overlap, toGuest>>
      \/ /\ headersSent \/ HeaderEnd(text) # 0
         /\ headersSent' = TRUE /\ headerBuf' = <<>>
         /\ overlap' = w.overlap /\ toGuest' = toGuest \o w.out
         /\ UNCHANGED <<pc, result>>
  BY DEF RelayRead
<1>5. CASE Fail /\ UNCHANGED <<headerBuf, headersSent, overlap, toGuest>>
  BY <1>3, <1>5 DEF Fail, Running, WholeTextInv
<1>6. CASE /\ ~headersSent
           /\ headerBuf' = text /\ UNCHANGED <<pc, result, headersSent, overlap, toGuest>>
  <2>1. headerBuf = got
    BY <1>2, <1>6 DEF WholeTextInv
  <2> QED
    BY <1>2, <1>3, <1>6, <2>1 DEF WholeTextInv
<1>7. CASE /\ headersSent \/ HeaderEnd(text) # 0
           /\ headersSent' = TRUE /\ headerBuf' = <<>>
           /\ overlap' = w.overlap /\ toGuest' = toGuest \o w.out
           /\ UNCHANGED <<pc, result>>
  <2>1. ASSUME Separate PROVE \E h, b, p : Split(h, b, p)'
    <3>1. Apart(Secrets)
      BY <1>1, <2>1, SeparateMeans
    <3>2. PICK old, x, y : old = toGuest /\ x = w.out /\ y = w.overlap
      OBVIOUS
    <3>3. toGuest' = old \o x /\ overlap' = y
      BY <1>7, <3>2, Zenon
    <3>4. ASSUME NEW h, NEW b, NEW p, NEW hd, HeadPart(h), b \in Seq(Int), got' = h \o b,
                 hd = RewriteClose(Scrub(h, req.sni, Secrets)), old \o x = hd \o p,
                 ChunkLeaves(b, p, y, req.sni, Secrets)
          PROVE  Split(h, b, p)'
      BY <1>2, <3>3, <3>4 DEF Split, ChunkLeaves
    <3>5. CASE headersSent
      <4>1. PICK h, b, p : Split(h, b, p)
        BY <1>2, <2>1, <3>5 DEF WholeTextInv
      <4>2. PICK hd, o : hd = RewriteClose(Scrub(h, req.sni, Secrets)) /\ o = overlap
        OBVIOUS
      <4>3. /\ HeadPart(h) /\ h \in Seq(Int) /\ b \in Seq(Int) /\ p \in Seq(Int) /\ o \in Seq(Int)
            /\ got = h \o b /\ old = hd \o p
            /\ ChunkLeaves(b, p, o, req.sni, Secrets)
        BY <1>2, <3>2, <4>1, <4>2 DEF Split, ScrubInv, ChunkLeaves, HeadPart
      <4>4. hd \in Seq(Int) /\ b \o t \in Seq(Int)
        BY <1>1, <4>2, <4>3, HeadFits, Joined
      <4>5. PICK ws : ws = WriteScrubbed(o, t, req.sni, Secrets)
        OBVIOUS
      <4>6. x = ws.out /\ y = ws.overlap
        BY <3>2, <3>5, <4>2, <4>5, Zenon
      <4>7. ChunkLeaves(b \o t, p \o ws.out, ws.overlap, req.sni, Secrets)
        BY <1>1, <3>1, <4>3, <4>5, ChunkWhole
      <4>8. x \in Seq(Int)
        <5>1. Parts(ws, Scrub(o \o t, req.sni, Secrets), MaxSecretLen(Secrets))
          BY <1>1, <4>3, <4>5, WriteMeans
        <5> QED
          BY <4>6, <5>1 DEF Parts
      <4>9. (h \o b) \o t = h \o (b \o t)
        <5>1. h \in Seq(Int) /\ b \in Seq(Int) /\ t \in Seq(Int)
          BY <1>1, <4>3
        <5> QED
          BY ONLY <5>1, JoinedTwice, Zenon
      <4>10. (hd \o p) \o x = hd \o (p \o x)
        <5>1. hd \in Seq(Int) /\ p \in Seq(Int) /\ x \in Seq(Int)
          BY <4>3, <4>4, <4>8
        <5> QED
          BY ONLY <5>1, JoinedTwice, Zenon
      <4>11. PICK c, q : c = b \o t /\ q = p \o x
        OBVIOUS
      <4>12. /\ c \in Seq(Int) /\ got' = h \o c /\ old \o x = hd \o q
             /\ ChunkLeaves(c, q, y, req.sni, Secrets)
        BY <1>2, <4>3, <4>4, <4>6, <4>7, <4>9, <4>10, <4>11, Zenon
      <4>13. Split(h, c, q)'
        BY <3>4, <4>2, <4>3, <4>12
      <4> QED
        BY <4>13
    <3>6. CASE ~headersSent
      <4>1. got' = text /\ old = <<>> /\ text \in Seq(Int) /\ HeaderEnd(text) # 0
        BY <1>2, <1>3, <1>7, <3>2, <3>6 DEF WholeTextInv, ScrubInv
      <4>2. x = Headers(text).out /\ y = Headers(text).overlap
        BY <3>2, <3>6
      <4> HIDE DEF text, w
      <4>3. PICK h, b, p :
              /\ HeadPart(h) /\ b \in Seq(Int) /\ text = h \o b
              /\ x = RewriteClose(Scrub(h, req.sni, Secrets)) \o p
              /\ ChunkLeaves(b, p, y, req.sni, Secrets)
        BY <1>1, <3>1, <4>1, <4>2, HeadersSplit
      <4>4. x \in Seq(Int)
        BY <1>1, <4>1, <4>2, HeadersKeep
      <4>5. old \o x = x
        BY <4>1, <4>4, ConcatEmptySeq
      <4>6. PICK hd : hd = RewriteClose(Scrub(h, req.sni, Secrets))
        OBVIOUS
      <4>7. old \o x = hd \o p /\ got' = h \o b
        BY <4>1, <4>3, <4>5, <4>6, Zenon
      <4>8. Split(h, b, p)'
        BY <3>4, <4>3, <4>6, <4>7
      <4> QED
        BY <4>8
    <3> QED
      BY <3>5, <3>6
  <2> QED
    BY <1>2, <1>3, <1>7, <2>1 DEF WholeTextInv
<1> QED
  BY <1>4, <1>5, <1>6, <1>7

LEMMA CloseStep ==
  ASSUME WholeTextInv, UpstreamClosed
  PROVE  WholeTextInv'
<1>1. /\ pc = "relay" /\ Running /\ pc' \in {"flush", "done"} /\ result = "none"
      /\ result' \in {"none", "err"} /\ (pc' # "done" => result' = "none")
      /\ UNCHANGED <<policy, req, got, headerBuf, headersSent, overlap>>
      /\ headersSent => toGuest' = toGuest
  BY DEF UpstreamClosed, Fail, Running, shared, reqVars, WholeTextInv
<1>2. CASE headersSent
  BY <1>1, <1>2, SilentStep
<1>3. CASE ~headersSent
  BY <1>1, <1>3 DEF WholeTextInv, Running
<1> QED
  BY <1>2, <1>3

LEMMA OutStep ==
  ASSUME PathInv, ScrubInv, WholeTextInv, Flush
  PROVE  WholeTextInv'
<1>1. /\ pc = "flush" /\ pc' = "done" /\ result = "none" /\ ~Running'
      /\ req' = req /\ Secrets' = Secrets /\ Separate' = Separate
      /\ UNCHANGED <<policy, req, got, headerBuf, headersSent>>
  BY DEF Flush, Running, Secrets, Separate, shared, reqVars, WholeTextInv
<1>2. CASE result' = "err" /\ UNCHANGED <<toGuest, overlap>>
  BY <1>1, <1>2 DEF WholeTextInv
<1>3. CASE result' = "ok" /\ toGuest' = toGuest \o overlap /\ overlap' = <<>>
  <2>1. ASSUME headersSent, Separate PROVE \E h, b, p : Split(h, b, p)'
    <3>1. PICK h, b, p : Split(h, b, p)
      BY <1>1, <2>1 DEF WholeTextInv
    <3>2. PICK hd, o, old : hd = RewriteClose(Scrub(h, req.sni, Secrets)) /\ o = overlap /\ old = toGuest
      OBVIOUS
    <3>3. /\ HeadPart(h) /\ h \in Seq(Int) /\ b \in Seq(Int) /\ p \in Seq(Int) /\ o \in Seq(Int)
          /\ got = h \o b /\ old = hd \o p /\ p \o o = Scrub(b, req.sni, Secrets)
      BY <3>1, <3>2 DEF Split, ScrubInv, HeadPart
    <3>4. hd \in Seq(Int)
      BY <3>2, <3>3, HeadFits, SecretsFit
    <3>5. (hd \o p) \o o = hd \o (p \o o)
      BY ONLY <3>3, <3>4, JoinedTwice, Zenon
    <3>6. PICK q : q = p \o o
      OBVIOUS
    <3>7. q \in Seq(Int) /\ q \o <<>> = q
      BY <3>3, <3>6, Joined, ConcatEmptySeq
    <3>8. toGuest' = hd \o q /\ q \o <<>> = Scrub(b, req.sni, Secrets)
      BY <1>3, <3>2, <3>3, <3>5, <3>6, <3>7, Zenon
    <3>9. Split(h, b, q)'
      BY <1>1, <1>3, <3>2, <3>3, <3>7, <3>8 DEF Split
    <3> QED
      BY <3>9
  <2> QED
    BY <1>1, <1>3, <2>1 DEF WholeTextInv
<1> QED
  BY <1>2, <1>3 DEF Flush

LEMMA NewStep ==
  ASSUME NEW r \in Requests, NextConnection(r)
  PROVE  WholeTextInv'
<1>1. <<>> \in Seq(Int)
  BY EmptySeq
<1> QED
  BY <1>1 DEF NextConnection, Fresh, WholeTextInv

LEMMA NextWholeText == PathInv /\ ScrubInv /\ WholeTextInv /\ [Next]_vars => WholeTextInv'
<1> SUFFICES ASSUME PathInv, ScrubInv, WholeTextInv, [Next]_vars PROVE WholeTextInv'
  OBVIOUS
<1> USE DEF vars, shared, reqVars, upVars, respVars, Running
<1>1. /\ headersSent => pc \in {"relay", "flush", "done"}
      /\ pc # "done" => result = "none"
      /\ headersSent /\ result = "ok" => overlap = <<>>
  BY DEF WholeTextInv
<1>2. CASE UNCHANGED vars
  BY <1>1, <1>2, SilentStep
<1>3. CASE Handshake \/ (\E n \in 1 .. MaxPiece : ReadPiece(n)) \/ GuestCloses \/ ReadFails
  BY <1>1, <1>3, SilentStep DEF Handshake, ReadPiece, GuestCloses, ReadFails, Fail
<1>4. CASE Refuse \/ Pass \/ (\E a \in Addresses : Connect(a)) \/ UpstreamHandshake
  BY <1>1, <1>4, SilentStep DEF Refuse, Pass, Connect, UpstreamHandshake
<1>5. CASE UpstreamFails \/ Send \/ UpstreamStops \/ RelayFails \/ LoopDrops
  BY <1>1, <1>5, SilentStep DEF UpstreamFails, Send, UpstreamStops, RelayFails, LoopDrops, Fail
<1>6. CASE \E t \in Pieces : RelayRead(t)
  BY <1>6, ReadStep
<1>7. CASE UpstreamClosed
  BY <1>7, CloseStep
<1>8. CASE Flush
  BY <1>8, OutStep
<1>9. CASE \E r \in Requests : NextConnection(r)
  BY <1>9, NewStep
<1> QED
  BY <1>2, <1>3, <1>4, <1>5, <1>6, <1>7, <1>8, <1>9 DEF Next, Own

\* However the response is cut into pieces on its way, whatever it holds and
\* however many secrets there are, as long as none overlaps another or is longer
\* than the cap: what the guest has and what is still kept back are what the
\* headers and the body give when each is scrubbed in one piece, and a thread
\* that has ended well keeps nothing back (proxy.rs:1217-1330).
THEOREM PiecesMakeTheWhole == Spec => []ChunksMakeTheWhole
<1>1. PathInv /\ ScrubInv /\ WholeTextInv => ChunksMakeTheWhole
  <2> SUFFICES ASSUME PathInv, ScrubInv, WholeTextInv, headersSent, Separate, result # "err"
               PROVE  /\ toGuest \o overlap = Whole(got)
                      /\ result = "ok" => overlap = <<>>
    BY DEF ChunksMakeTheWhole
  <2>1. PICK h, b, p : Split(h, b, p)
    BY DEF WholeTextInv
  <2>2. PICK hd, o, t : /\ hd = RewriteClose(Scrub(h, req.sni, Secrets)) /\ o = overlap
                        /\ t = h \o b
    OBVIOUS
  <2>3. /\ HeadPart(h) /\ h \in Seq(Int) /\ b \in Seq(Int) /\ p \in Seq(Int) /\ o \in Seq(Int)
        /\ got = t /\ toGuest = hd \o p /\ p \o o = Scrub(b, req.sni, Secrets)
    BY <2>1, <2>2 DEF Split, ScrubInv, HeadPart
  <2>4. hd \in Seq(Int)
    BY <2>2, <2>3, HeadFits, SecretsFit
  <2>5. (hd \o p) \o o = hd \o (p \o o)
    BY ONLY <2>3, <2>4, JoinedTwice, Zenon
  <2>6. HeaderEnd(t) = Len(h) /\ SubSeq(t, 1, Len(h)) = h /\ SubSeq(t, Len(h) + 1, Len(t)) = b
    BY <2>2, <2>3, HeadStays, PartsOfJoined
  <2>7. Whole(t) = hd \o Scrub(b, req.sni, Secrets)
    BY <2>2, <2>6, Zenon DEF Whole
  <2> QED
    BY <2>2, <2>3, <2>5, <2>7 DEF WholeTextInv
<1> QED
  BY <1>1, InitPath, NextPath, InitScrub, NextScrub, InitWholeText, NextWholeText, PTL DEF Spec
=============================================================================
