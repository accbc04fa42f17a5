---------------------------- MODULE ProxyProofs ----------------------------
(***************************************************************************)
(* The event loop with its resolver, in three parts.                       *)
(*                                                                         *)
(* The resolver, for any names, any pool that fits its u8, and any address *)
(* table that holds the pool and the gateway.  Invertible and the type     *)
(* invariant are inductive together.  What the guest was told needs more:  *)
(* that the address table is exactly the gateway and the part of the pool  *)
(* given away (so it never overflows), and that each answer is what the    *)
(* maps would answer now.                                                  *)
(*                                                                         *)
(* The loop, for any handles, backlogs, capacities and limits: its types,  *)
(* the slots of its backlogs and the limit of its table, the hosts of its  *)
(* SSH relays, and the cut between a finished connection and its threads.  *)
(*                                                                         *)
(* The bytes of a connection, for any capacities and any lengths: in both  *)
(* directions they arrive in order, none twice and none left out, and an   *)
(* end of stream never overtakes them.                                     *)
(***************************************************************************)
EXTENDS ProxyLoop, FiniteSetTheorems, SequenceTheorems, TLAPS

(* Part 1: the resolver *)

\* The address table holds the gateway and every address given away.
AddrsExact == addrs = {Gateway} \cup (PoolStart .. next - 1)

\* The address the resolver would put into an answer for n in this state.
AnswerOf(n, ip) ==
  IF n \in LocalNames THEN ip = Loopback
  ELSE IF n \in DOMAIN forward THEN ip = forward[n]
  ELSE Exhausted /\ ip = Gateway

AnswersCurrent == \A a \in answers : AnswerOf(a[1], a[2])

\* The inductive invariant.
HostInv == HostTypeOK /\ Invertible /\ AddrsExact /\ AnswersCurrent

----------------------------------------------------------------------------
(* Lemmas about single operators *)

\* While the pool lasts, `next` does not wrap around its u8.
LEMMA NextDoesNotWrap ==
  ASSUME NEW k \in PoolStart .. PoolEnd
  PROVE  (k + 1) % U8 = k + 1
<1>1. k + 1 \in Nat /\ U8 \in Nat /\ k + 1 < U8
  BY HostMapAssumption
<1> QED
  BY <1>1

\* With room for the gateway and the pool, the table is never full while an
\* address is left to give away: the address is added, not just logged.
LEMMA TableHasRoom ==
  ASSUME AddrsExact, NEW ip, next \in PoolStart .. PoolEnd, AddAddr(ip)
  PROVE  addrs' = addrs \cup {ip}
<1> DEFINE given == PoolStart .. next - 1
<1>1. /\ next \in Nat /\ PoolStart \in Nat /\ PoolEnd \in Nat /\ AddrMax \in Nat
      /\ next <= PoolEnd /\ PoolEnd - PoolStart + 2 <= AddrMax
  BY HostMapAssumption
<1>2. IsFiniteSet(given) /\ Cardinality(given) = next - PoolStart
  <2>1. PoolStart \in Int /\ next - 1 \in Int /\ PoolStart <= next
    BY <1>1
  <2>2. /\ IsFiniteSet(given)
        /\ Cardinality(given) = IF PoolStart > next - 1 THEN 0 ELSE (next - 1) - PoolStart + 1
    BY <2>1, FS_Interval
  <2> QED
    BY <2>1, <2>2
<1>3. Cardinality(given \cup {Gateway}) \in {next - PoolStart, next - PoolStart + 1}
  <2>1. Cardinality(given \cup {Gateway}) =
          IF Gateway \in given THEN Cardinality(given) ELSE Cardinality(given) + 1
    BY <1>2, FS_AddElement
  <2> QED
    BY <1>2, <2>1
<1>4. addrs = given \cup {Gateway}
  BY DEF AddrsExact
<1>5. Cardinality(addrs) < AddrMax
  BY <1>1, <1>3, <1>4
<1> QED
  BY <1>5 DEF AddAddr

----------------------------------------------------------------------------
(* The inductive invariant *)

LEMMA InitInv == HostInit => HostInv
<1> SUFFICES ASSUME HostInit PROVE HostInv
  OBVIOUS
<1> USE DEF HostInit
<1>1. HostTypeOK
  BY HostMapAssumption DEF HostTypeOK
<1>2. Invertible
  BY DEF Invertible
<1>3. AddrsExact
  BY HostMapAssumption DEF AddrsExact
<1>4. AnswersCurrent
  BY DEF AnswersCurrent
<1> QED
  BY <1>1, <1>2, <1>3, <1>4 DEF HostInv

\* What a step does when it makes a binding, from the definitions of Bind and
\* AddAddr: the next address of the pool goes to a name that had none.
LEMMA BindStep ==
  ASSUME HostInv, NEW n \in Names \ LocalNames, IsNew(n), Bind(n, next), AddAddr(next)
  PROVE  /\ next \in PoolStart .. PoolEnd /\ next' = next + 1
         /\ DOMAIN forward' = DOMAIN forward \cup {n}
         /\ forward'[n] = next
         /\ \A m \in DOMAIN forward : forward'[m] = forward[m]
         /\ DOMAIN reverse' = PoolStart .. next
         /\ reverse'[next] = n
         /\ \A ip \in DOMAIN reverse : reverse'[ip] = reverse[ip]
         /\ addrs' = {Gateway} \cup (PoolStart .. next)
<1>1. next \in PoolStart .. PoolEnd
  BY HostMapAssumption DEF HostInv, HostTypeOK, IsNew, Exhausted
<1>2. next' = next + 1
  BY <1>1, NextDoesNotWrap DEF Bind
<1>3. /\ DOMAIN forward' = DOMAIN forward \cup {n}
      /\ forward'[n] = next
      /\ \A m \in DOMAIN forward : forward'[m] = forward[m]
  <2>1. forward' = Insert(forward, n, next) /\ n \notin DOMAIN forward
    BY DEF Bind, IsNew
  <2> QED
    BY <2>1 DEF Insert
<1>4. DOMAIN reverse = PoolStart .. next - 1
  BY DEF HostInv, HostTypeOK
<1>5. (PoolStart .. next - 1) \cup {next} = PoolStart .. next /\ next \notin PoolStart .. next - 1
  BY <1>1, HostMapAssumption
<1>6. /\ DOMAIN reverse' = PoolStart .. next
      /\ reverse'[next] = n
      /\ \A ip \in DOMAIN reverse : reverse'[ip] = reverse[ip]
  <2>1. reverse' = Insert(reverse, next, n)
    BY DEF Bind
  <2> QED
    BY <2>1, <1>4, <1>5 DEF Insert
<1>7. addrs' = {Gateway} \cup (PoolStart .. next)
  <2>1. addrs' = addrs \cup {next}
    BY <1>1, TableHasRoom DEF HostInv
  <2> QED
    BY <2>1, <1>5 DEF HostInv, AddrsExact
<1> QED
  BY <1>1, <1>2, <1>3, <1>6, <1>7

\* A step that makes a binding preserves the invariant. An answer given before
\* stays current: its name had a binding, which is kept, because a name without
\* one is answered only when the pool is used up.
LEMMA BindInv ==
  ASSUME HostInv, NEW n \in Names \ LocalNames, IsNew(n), Bind(n, next), AddAddr(next),
         NEW inClass, NEW isA, answers' = Answered(n, inClass, isA, AllocIp(n))
  PROVE  HostInv'
<1>1. /\ next \in PoolStart .. PoolEnd /\ next' = next + 1
      /\ DOMAIN forward' = DOMAIN forward \cup {n}
      /\ forward'[n] = next
      /\ \A m \in DOMAIN forward : forward'[m] = forward[m]
      /\ DOMAIN reverse' = PoolStart .. next
      /\ reverse'[next] = n
      /\ \A ip \in DOMAIN reverse : reverse'[ip] = reverse[ip]
      /\ addrs' = {Gateway} \cup (PoolStart .. next)
  BY BindStep
<1>2. /\ n \notin DOMAIN forward /\ ~Exhausted /\ AllocIp(n) = next
      /\ DOMAIN reverse = PoolStart .. next - 1
      /\ next \in Nat /\ PoolStart \in Nat /\ PoolEnd \in Nat /\ U8 \in Nat
      /\ PoolEnd + 1 < U8
  BY <1>1, HostMapAssumption DEF IsNew, AllocIp, HostInv, HostTypeOK
<1>3. answers' \in {answers, answers \cup {<<n, next>>}}
  BY <1>2 DEF Answered
<1>4. HostTypeOK'
  <2>1. DOMAIN forward' \subseteq Names \ LocalNames
    BY <1>1 DEF HostInv, HostTypeOK
  <2>2. \A m \in DOMAIN forward' : forward'[m] \in Pool
    BY <1>1 DEF HostInv, HostTypeOK, Pool
  <2>3. next' \in PoolStart .. PoolEnd + 1
    BY <1>1, <1>2
  <2>4. DOMAIN reverse' = PoolStart .. next' - 1
    BY <1>1, <1>2
  <2>5. \A ip \in DOMAIN reverse' : reverse'[ip] \in Names
    <3> SUFFICES ASSUME NEW ip \in PoolStart .. next PROVE reverse'[ip] \in Names
      BY <1>1
    <3>1. CASE ip = next
      BY <3>1, <1>1
    <3>2. CASE ip # next
      <4>1. ip \in DOMAIN reverse
        BY <3>2, <1>2
      <4> QED
        BY <4>1, <1>1 DEF HostInv, HostTypeOK
    <3> QED
      BY <3>1, <3>2
  <2>6. answers' \subseteq Names \X IP
    <3>1. next \in IP
      BY <1>1, <1>2 DEF IP
    <3>2. answers \subseteq Names \X IP
      BY DEF HostInv, HostTypeOK
    <3> QED
      BY <3>1, <3>2, <1>3
  <2> QED
    BY <2>1, <2>2, <2>3, <2>4, <2>5, <2>6 DEF HostTypeOK
<1>5. Invertible'
  <2>1. \A m \in DOMAIN forward' : forward'[m] \in DOMAIN reverse' /\ reverse'[forward'[m]] = m
    <3> SUFFICES ASSUME NEW m \in DOMAIN forward'
                 PROVE  forward'[m] \in DOMAIN reverse' /\ reverse'[forward'[m]] = m
      OBVIOUS
    <3>1. CASE m = n
      BY <3>1, <1>1, <1>2
    <3>2. CASE m # n
      <4>1. /\ m \in DOMAIN forward /\ forward'[m] = forward[m]
            /\ forward[m] \in DOMAIN reverse /\ reverse[forward[m]] = m
        BY <3>2, <1>1 DEF HostInv, Invertible
      <4>2. DOMAIN reverse \subseteq DOMAIN reverse'
        BY <1>1, <1>2
      <4> QED
        BY <4>1, <4>2, <1>1
    <3> QED
      BY <3>1, <3>2
  <2>2. \A ip \in DOMAIN reverse' : reverse'[ip] \in DOMAIN forward' /\ forward'[reverse'[ip]] = ip
    <3> SUFFICES ASSUME NEW ip \in PoolStart .. next
                 PROVE  reverse'[ip] \in DOMAIN forward' /\ forward'[reverse'[ip]] = ip
      BY <1>1
    <3>1. CASE ip = next
      BY <3>1, <1>1
    <3>2. CASE ip # next
      <4>1. ip \in DOMAIN reverse
        BY <3>2, <1>2
      <4>2. /\ reverse'[ip] = reverse[ip]
            /\ reverse[ip] \in DOMAIN forward /\ forward[reverse[ip]] = ip
        BY <4>1, <1>1 DEF HostInv, Invertible
      <4> QED
        BY <4>2, <1>1
    <3> QED
      BY <3>1, <3>2
  <2> QED
    BY <2>1, <2>2 DEF Invertible
<1>6. AddrsExact'
  BY <1>1, <1>2 DEF AddrsExact
<1>7. AnswersCurrent'
  <2> SUFFICES ASSUME NEW a \in answers' PROVE AnswerOf(a[1], a[2])'
    BY DEF AnswersCurrent
  <2>1. CASE a = <<n, next>>
    BY <2>1, <1>1 DEF AnswerOf
  <2>2. CASE a \in answers
    <3>1. AnswerOf(a[1], a[2])
      BY <2>2 DEF HostInv, AnswersCurrent
    <3>2. CASE a[1] \in LocalNames
      BY <3>1, <3>2 DEF AnswerOf
    <3>3. CASE a[1] \notin LocalNames
      <4>1. a[1] \in DOMAIN forward /\ a[2] = forward[a[1]]
        BY <3>1, <3>3, <1>2 DEF AnswerOf
      <4> QED
        BY <4>1, <3>3, <1>1 DEF AnswerOf
    <3> QED
      BY <3>2, <3>3
  <2> QED
    BY <2>1, <2>2, <1>3
<1> QED
  BY <1>4, <1>5, <1>6, <1>7 DEF HostInv

\* A query that makes no binding can only repeat what the maps say.
LEMMA RepeatInv ==
  ASSUME HostInv, NEW n \in Names, ~(n \notin LocalNames /\ IsNew(n)),
         UNCHANGED <<forward, reverse, next, addrs>>,
         NEW inClass, NEW isA, answers' = Answered(n, inClass, isA, AllocIp(n))
  PROVE  HostInv'
<1> DEFINE ip == IF n \in LocalNames THEN Loopback ELSE AllocIp(n)
<1>1. answers' \in {answers, answers \cup {<<n, ip>>}}
  BY DEF Answered
<1>2. AnswerOf(n, ip)
  BY DEF AnswerOf, AllocIp, IsNew
<1>3. ip \in IP
  <2>1. \A m \in DOMAIN forward : forward[m] \in Pool
    BY DEF HostInv, HostTypeOK
  <2>2. Pool \subseteq IP /\ Gateway \in IP /\ Loopback \in IP
    BY HostMapAssumption DEF Pool, IP
  <2> QED
    BY <2>1, <2>2 DEF AllocIp, IsNew
<1>4. HostTypeOK'
  BY <1>1, <1>3 DEF HostInv, HostTypeOK
<1>5. Invertible' /\ AddrsExact'
  BY DEF HostInv, Invertible, AddrsExact
<1>6. AnswersCurrent'
  <2> HIDE DEF ip
  <2> SUFFICES ASSUME NEW a \in answers' PROVE AnswerOf(a[1], a[2])'
    BY DEF AnswersCurrent
  <2>1. AnswerOf(a[1], a[2])
    BY <1>1, <1>2 DEF HostInv, AnswersCurrent
  <2> QED
    BY <2>1 DEF AnswerOf, Exhausted
<1> QED
  BY <1>4, <1>5, <1>6 DEF HostInv

LEMMA StepInv == HostInv /\ [HostNext]_hostVars => HostInv'
<1> SUFFICES ASSUME HostInv, [HostNext]_hostVars PROVE HostInv'
  OBVIOUS
<1>1. ASSUME NEW n \in Names, NEW inClass \in BOOLEAN, NEW isA \in BOOLEAN,
             DnsQuery(n, inClass, isA)
      PROVE  HostInv'
  <2>1. CASE n \notin LocalNames /\ IsNew(n)
    BY <1>1, <2>1, BindInv DEF DnsQuery
  <2>2. CASE ~(n \notin LocalNames /\ IsNew(n))
    <3>1. /\ UNCHANGED <<forward, reverse, next, addrs>>
          /\ answers' = Answered(n, inClass, isA, AllocIp(n))
      BY <1>1, <2>2 DEF DnsQuery
    <3> QED
      BY <2>2, <3>1, RepeatInv
  <2> QED
    BY <2>1, <2>2
<1>2. CASE UNCHANGED hostVars
  BY <1>2 DEF hostVars, HostInv, HostTypeOK, Invertible, AddrsExact, AnswersCurrent,
              AnswerOf, Exhausted
<1> QED
  BY <1>1, <1>2 DEF HostNext

\* Every reachable state of the resolver satisfies the inductive invariant.
THEOREM HostInvariant == HostSpec => []HostInv
BY InitInv, StepInv, PTL DEF HostSpec

----------------------------------------------------------------------------
(* What follows from it *)

\* What the guest was told routes back: the answer is what the maps hold, the
\* maps are inverse, and what they hold is on the interface.
LEMMA InvAnswersRouteBack == HostInv => AnswersRouteBack
<1> SUFFICES ASSUME HostInv, NEW a \in answers
             PROVE  \/ a[1] \in LocalNames /\ a[2] = Loopback
                    \/ a[1] \notin LocalNames /\ a[2] = Gateway /\ Exhausted
                    \/ a[1] \notin LocalNames /\ a[2] \in addrs /\ HostnameForIp(a[2]) = a[1]
  BY DEF AnswersRouteBack
<1>1. AnswerOf(a[1], a[2])
  BY DEF HostInv, AnswersCurrent
<1>2. CASE a[1] \in LocalNames \/ a[1] \notin DOMAIN forward
  BY <1>1, <1>2 DEF AnswerOf
<1>3. CASE a[1] \notin LocalNames /\ a[1] \in DOMAIN forward
  <2>1. a[2] \in DOMAIN reverse /\ reverse[a[2]] = a[1]
    BY <1>1, <1>3 DEF AnswerOf, HostInv, Invertible
  <2>2. a[2] \in addrs
    BY <2>1 DEF HostInv, HostTypeOK, AddrsExact
  <2> QED
    BY <1>3, <2>1, <2>2 DEF HostnameForIp
<1> QED
  BY <1>2, <1>3

\* Two answers for one name are both what the maps would answer now.
LEMMA InvOneAnswerPerName == HostInv => OneAnswerPerName
BY DEF HostInv, AnswersCurrent, AnswerOf, OneAnswerPerName

LEMMA StepKeepsBindings ==
  HostInv /\ [HostNext]_hostVars =>
    [\A n \in DOMAIN forward : /\ n \in DOMAIN forward'
                               /\ forward'[n] = forward[n]
                               /\ reverse'[forward[n]] = n]_hostVars
<1> SUFFICES ASSUME HostInv, HostNext, NEW m \in DOMAIN forward
             PROVE  m \in DOMAIN forward' /\ forward'[m] = forward[m] /\ reverse'[forward[m]] = m
  OBVIOUS
<1>1. forward[m] \in DOMAIN reverse /\ reverse[forward[m]] = m
  BY DEF HostInv, Invertible
<1>2. PICK n \in Names, inClass \in BOOLEAN, isA \in BOOLEAN : DnsQuery(n, inClass, isA)
  BY DEF HostNext
<1>3. CASE n \notin LocalNames /\ IsNew(n)
  <2>1. Bind(n, next) /\ AddAddr(next)
    BY <1>2, <1>3 DEF DnsQuery
  <2>2. /\ DOMAIN forward' = DOMAIN forward \cup {n}
        /\ forward'[m] = forward[m] /\ reverse'[forward[m]] = reverse[forward[m]]
    BY <1>1, <1>3, <2>1, BindStep
  <2> QED
    BY <1>1, <2>2
<1>4. CASE ~(n \notin LocalNames /\ IsNew(n))
  BY <1>1, <1>2, <1>4 DEF DnsQuery
<1> QED
  BY <1>3, <1>4

\* The maps keep their shape and `next` stays inside its u8 for any pool.
THEOREM TypeCorrect == HostSpec => []HostTypeOK
BY HostInvariant, PTL DEF HostInv

\* HostMap::alloc never gives an address to two names, whatever is asked.
THEOREM MapsInvertible == HostSpec => []Invertible
BY HostInvariant, PTL DEF HostInv

\* Every address the guest was ever told leads back to the name it asked for.
THEOREM AnswersAlwaysRouteBack == HostSpec => []AnswersRouteBack
BY HostInvariant, InvAnswersRouteBack, PTL

\* A name keeps its one answer, also across the end of the pool.
THEOREM AnswersStable == HostSpec => []OneAnswerPerName
BY HostInvariant, InvOneAnswerPerName, PTL

\* No step of the resolver changes or drops a binding.
THEOREM BindingsKept == HostSpec => BindingsPermanent
BY HostInvariant, StepKeepsBindings, PTL DEF HostSpec, BindingsPermanent

----------------------------------------------------------------------------
(* Part 2: the loop *)

\* Any distribution of the first listeners over the handles.
AnySpec == (\E ports \in [Handle -> Port \cup {"none"}] : InitWith(ports)) /\ [][Next]_vars

\* The sockets that wait to be taken out of their backlog, which HandleBudget
\* leaves a fresh handle for.
Budget == Cardinality({h \in Placed("backlog") : c[h].tcp # "Listen"}) <= Cardinality(Unused)

Ports == \A h \in Handle : place[h] # "unused" => port[h] \in Port

Fresh == {"None", "WaitingForData"}
Over  == {"Draining", "Closing", "Done"}

\* The loop's ends of the two channels, by the state of the connection.
EndsOf(s) ==
  /\ s.state \in Fresh => s.to = NoChannel /\ s.from = NoChannel
  /\ s.state \in Over => ~s.to.tx /\ ~s.from.rx

\* And by the place of the handle.
Ends(h) ==
  /\ EndsOf(c[h])
  /\ place[h] \in {"unused", "backlog", "orphan"} => c[h].state = "None"
  /\ place[h] = "reaped" => ~c[h].to.tx /\ ~c[h].from.rx
  /\ c[h].tcp = "Listen" => place[h] = "backlog"

\* The threads' ends: the sender is with one thread, and goes when it returns.
Threads(h) ==
  /\ wr[h] # "none" => c[h].state \notin Fresh
  /\ wr[h] \in {"none", "open", "sending", "connect"} => rd[h] = "none"
  /\ wr[h] \in {"open", "sending", "connect"} \/ rd[h] \in {"reading", "sending"} => c[h].from.tx

\* An SSH relay's host is what its address was given away for.
Relay(h) ==
  port[h] = "Ssh" /\ wr[h] # "none" =>
    /\ dest[h] \in DOMAIN reverse /\ reverse[dest[h]] = host[h]
    /\ HasAllowlist => host[h] \in Allowlist

\* The inductive invariant.
LoopInv ==
  /\ HostInv /\ LoopTypeOK /\ Budget /\ Ports
  /\ \A h \in Handle : Ends(h) /\ Threads(h) /\ Relay(h)

----------------------------------------------------------------------------
(* One field of a socket is set *)

Fields == {"tcp", "rx", "tx", "state", "pending", "offset", "to", "from"}

\* t is s but for the fields F.
SameBut(t, s, F) == \A f \in Fields \ F : t[f] = s[f]

TcpState == {"Listen", "Established", "CloseWait", "FinWait", "LastAck", "Closed"}

LEMMA SetTcp ==
  ASSUME NEW s \in SocketType, NEW x \in TcpState
  PROVE  LET t == [s EXCEPT !.tcp = x]
         IN  t \in SocketType /\ t.tcp = x /\ SameBut(t, s, {"tcp"})
BY DEF SocketType, SameBut, Fields, TcpState

LEMMA SetRx ==
  ASSUME NEW s \in SocketType, NEW x \in Chunks
  PROVE  LET t == [s EXCEPT !.rx = x]
         IN  t \in SocketType /\ t.rx = x /\ SameBut(t, s, {"rx"})
BY DEF SocketType, SameBut, Fields

LEMMA SetTx ==
  ASSUME NEW s \in SocketType, NEW x \in Chunks
  PROVE  LET t == [s EXCEPT !.tx = x]
         IN  t \in SocketType /\ t.tx = x /\ SameBut(t, s, {"tx"})
BY DEF SocketType, SameBut, Fields

LEMMA SetEnds ==
  ASSUME NEW s \in SocketType, NEW x \in ChannelType, NEW y \in ChannelType
  PROVE  /\ LET t == [s EXCEPT !.to = x]
            IN  t \in SocketType /\ t.to = x /\ SameBut(t, s, {"to"})
         /\ LET t == [s EXCEPT !.from = y]
            IN  t \in SocketType /\ t.from = y /\ SameBut(t, s, {"from"})
         /\ LET t == [s EXCEPT !.to = x, !.from = y]
            IN  t \in SocketType /\ t.to = x /\ t.from = y /\ SameBut(t, s, {"to", "from"})
BY DEF SocketType, SameBut, Fields

LEMMA SetState ==
  ASSUME NEW s \in SocketType, NEW x \in {"Shuttling", "Draining", "Closing", "Done"}
  PROVE  LET t == [s EXCEPT !.state = x]
         IN  t \in SocketType /\ t.state = x /\ SameBut(t, s, {"state"})
BY DEF SocketType, SameBut, Fields

LEMMA SocketFields ==
  ASSUME NEW s \in SocketType
  PROVE  /\ s.rx \in Seq(Nat) /\ s.tx \in Seq(Nat) /\ s.pending \in Seq(Nat)
         /\ s.offset \in Nat /\ s.to \in ChannelType /\ s.from \in ChannelType
         /\ s.to.q \in Seq(Nat) /\ s.from.q \in Seq(Nat)
BY DEF SocketType, ChannelType, Chunks

\* Listeners and empty channels have the types they should.
LEMMA Blanks ==
  /\ NoChannel \in ChannelType /\ Channel \in ChannelType
  /\ Blank \in SocketType /\ WithinCaps(Blank)
  /\ Listener \in SocketType /\ WithinCaps(Listener)
<1>1. <<>> \in Seq(Nat) /\ Len(<<>>) = 0
  OBVIOUS
<1>2. NoChannel \in ChannelType /\ Channel \in ChannelType
  BY <1>1 DEF NoChannel, Channel, ChannelType, Chunks
<1>3. Blank \in SocketType
  BY <1>1, <1>2 DEF Blank, SocketType, Chunks
<1>4. Listener \in SocketType /\ SameBut(Listener, Blank, {"tcp"})
  BY <1>3, SetTcp DEF Listener, TcpState
<1>5. WithinCaps(Blank)
  BY <1>1, ProxyLoopAssumption DEF Blank, WithinCaps, NoChannel
<1>6. WithinCaps(Listener)
  BY <1>4, <1>5 DEF WithinCaps, SameBut, Fields
<1> QED
  BY <1>2, <1>3, <1>4, <1>5, <1>6

----------------------------------------------------------------------------
(* shuttle_bytes keeps the shape of a connection *)

LEMMA ChannelOps ==
  ASSUME NEW ch \in ChannelType, NEW x \in Nat
  PROVE  /\ DropTx(ch) \in ChannelType /\ DropRx(ch) \in ChannelType /\ Put(ch, x) \in ChannelType
         /\ DropTx(ch).q = ch.q /\ DropRx(ch).q = <<>> /\ Put(ch, x).q = Append(ch.q, x)
         /\ ~DropTx(ch).tx /\ DropTx(ch).rx = ch.rx
         /\ ~DropRx(ch).rx /\ DropRx(ch).tx = ch.tx
         /\ Put(ch, x).tx = ch.tx /\ Put(ch, x).rx = ch.rx
<1> USE DEF ChannelType, Chunks
<1>1. DropTx(ch) \in ChannelType /\ DropTx(ch).q = ch.q
  BY DEF DropTx
<1>2. DropRx(ch) \in ChannelType /\ DropRx(ch).q = <<>>
  <2>1. <<>> \in Seq(Nat)
    OBVIOUS
  <2>2. DropRx(ch).q = <<>>
    BY DEF DropRx
  <2>3. DropRx(ch) \in ChannelType
    BY <2>1 DEF DropRx
  <2> QED
    BY <2>2, <2>3
<1>3. Put(ch, x) \in ChannelType /\ Put(ch, x).q = Append(ch.q, x)
  BY DEF Put
<1>4. ~DropTx(ch).tx /\ DropTx(ch).rx = ch.rx
  BY DEF DropTx
<1>5. ~DropRx(ch).rx /\ DropRx(ch).tx = ch.tx
  BY DEF DropRx
<1>6. Put(ch, x).tx = ch.tx /\ Put(ch, x).rx = ch.rx
  BY DEF Put
<1> QED
  BY <1>1, <1>2, <1>3, <1>4, <1>5, <1>6

\* One chunk leaves the socket; a sender may be given up, never gained.
LEMMA PullGuestDoes ==
  ASSUME NEW s \in SocketType, WithinCaps(s)
  PROVE  LET t == PullGuest(s)
         IN  /\ t \in SocketType /\ WithinCaps(t) /\ SameBut(t, s, {"rx", "to"})
             /\ t.to.tx => s.to.tx
<1>1. CASE s.rx = <<>>
  BY <1>1 DEF PullGuest, SameBut
<1>2. CASE s.rx # <<>>
  <2> DEFINE to == IF ~s.to.tx THEN s.to
                   ELSE IF s.to.rx THEN Put(s.to, Head(s.rx)) ELSE DropTx(s.to)
             rx == Tail(s.rx)
             t == PullGuest(s)
  <2>1. t = [s EXCEPT !.rx = rx, !.to = to]
    BY <1>2 DEF PullGuest
  <2>2. s.rx \in Seq(Nat) /\ s.to \in ChannelType /\ Len(s.rx) <= RxCap
    BY SocketFields DEF WithinCaps
  <2>3. Head(s.rx) \in Nat /\ rx \in Seq(Nat) /\ Len(rx) = Len(s.rx) - 1
    BY <1>2, <2>2
  <2>4. to \in ChannelType /\ (to.tx => s.to.tx)
    BY <2>2, <2>3, ChannelOps
  <2> HIDE DEF to, rx, t
  <2>5. t \in SocketType /\ t.rx = rx /\ t.to = to /\ SameBut(t, s, {"rx", "to"})
    BY <2>1, <2>3, <2>4 DEF SocketType, Chunks, SameBut, Fields
  <2>6. Len(rx) <= RxCap
    BY <2>2, <2>3, ProxyLoopAssumption
  <2> QED
    BY <2>4, <2>5, <2>6 DEF WithinCaps, SameBut, Fields, t
<1> QED
  BY <1>1, <1>2

LEMMA CloseType ==
  ASSUME NEW s \in SocketType
  PROVE  /\ Close(s) \in SocketType
         /\ SameBut(Close(s), s, {"tcp"}) /\ Close(s).tcp # "Listen"
<1> DEFINE tcp == CASE s.tcp = "Established" -> "FinWait" [] s.tcp = "CloseWait" -> "LastAck"
                    [] s.tcp = "Listen" -> "Closed" [] OTHER -> s.tcp
<1>1. Close(s) = [s EXCEPT !.tcp = tcp]
  BY DEF Close
<1>2. tcp \in TcpState /\ tcp # "Listen"
  BY DEF SocketType, TcpState
<1> HIDE DEF tcp
<1> QED
  BY <1>1, <1>2, SetTcp

\* What PullThread does: without a receiver nothing; else the queue goes behind
\* pending, and a thread that has finished moves the connection on.
LEMMA PullThreadDoes ==
  ASSUME NEW s \in SocketType
  PROVE  LET t == PullThread(s)
         IN  /\ t \in SocketType
             /\ t.rx = s.rx /\ t.tx = s.tx /\ t.offset = s.offset
             /\ ~s.from.rx => t = s
             /\ s.from.rx => /\ t.pending = s.pending \o s.from.q /\ t.from.q = <<>>
                             /\ t.from.tx = s.from.tx
             /\ s.from.rx /\ s.from.tx => /\ t.tcp = s.tcp /\ t.state = s.state
                                          /\ t.to = s.to /\ t.from.rx
             /\ s.from.rx /\ ~s.from.tx =>
                  /\ t.to = DropTx(s.to) /\ ~t.from.rx
                  /\ \/ t.pending = <<>> /\ t.state = "Closing" /\ t.tcp = Close(s).tcp
                     \/ t.pending # <<>> /\ t.state = "Draining" /\ t.tcp = s.tcp
<1> DEFINE q == s.pending \o s.from.q
           emptied == [s.from EXCEPT !.q = <<>>]
           took == [s EXCEPT !.pending = q, !.from = emptied]
           over == [took EXCEPT !.from = DropRx(emptied), !.to = DropTx(s.to)]
           t == PullThread(s)
<1>1. s.from \in ChannelType /\ s.to \in ChannelType /\ q \in Seq(Nat)
  BY DEF SocketType, ChannelType, Chunks
<1>2. /\ emptied \in ChannelType /\ emptied.q = <<>>
      /\ emptied.tx = s.from.tx /\ emptied.rx = s.from.rx
  <2>1. <<>> \in Seq(Nat)
    OBVIOUS
  <2>2. emptied \in ChannelType
    BY <1>1, <2>1 DEF ChannelType, Chunks
  <2>3. emptied.q = <<>>
    BY <1>1 DEF ChannelType
  <2>4. emptied.tx = s.from.tx
    BY <1>1 DEF ChannelType
  <2>5. emptied.rx = s.from.rx
    BY <1>1 DEF ChannelType
  <2> QED
    BY <2>2, <2>3, <2>4, <2>5
<1>3. /\ DropRx(emptied) \in ChannelType /\ DropRx(emptied).q = <<>>
      /\ ~DropRx(emptied).rx /\ DropRx(emptied).tx = s.from.tx
      /\ DropTx(s.to) \in ChannelType
  BY <1>1, <1>2, ChannelOps
<1>4. t = IF ~s.from.rx THEN s
          ELSE IF s.from.tx THEN took
          ELSE IF over.pending = <<>> THEN [Close(over) EXCEPT !.state = "Closing"]
          ELSE [over EXCEPT !.state = "Draining"]
  <2>1. took.from = emptied /\ took.to = s.to
    BY DEF SocketType
  <2> QED
    BY <2>1 DEF PullThread
<1> HIDE DEF q, emptied, t
<1>5. /\ took \in SocketType /\ took.rx = s.rx /\ took.tx = s.tx /\ took.offset = s.offset
      /\ took.tcp = s.tcp /\ took.state = s.state /\ took.pending = q /\ took.to = s.to
      /\ took.from = emptied
  BY <1>1, <1>2 DEF SocketType, Chunks
<1> HIDE DEF took
<1>6. /\ over \in SocketType /\ over.rx = s.rx /\ over.tx = s.tx /\ over.offset = s.offset
      /\ over.tcp = s.tcp /\ over.pending = q /\ over.to = DropTx(s.to)
      /\ over.from = DropRx(emptied)
  BY <1>3, <1>5 DEF SocketType
<1> HIDE DEF over
<1>7. CASE ~s.from.rx
  BY <1>4, <1>7 DEF t
<1>8. CASE s.from.rx /\ s.from.tx
  <2>1. t = took
    BY <1>4, <1>8
  <2> QED
    BY <1>2, <1>5, <1>8, <2>1 DEF t, q
<1>9. CASE s.from.rx /\ ~s.from.tx /\ over.pending = <<>>
  <2>1. t = [Close(over) EXCEPT !.state = "Closing"]
    BY <1>4, <1>9
  <2>2. /\ Close(over) \in SocketType
        /\ SameBut(Close(over), over, {"tcp"})
        /\ Close(over).tcp = Close(s).tcp
    BY <1>6, CloseType DEF Close, SocketType
  <2>3. /\ t \in SocketType /\ t.state = "Closing" /\ t.tcp = Close(s).tcp
        /\ t.rx = s.rx /\ t.tx = s.tx /\ t.offset = s.offset
        /\ t.pending = q /\ t.to = DropTx(s.to) /\ t.from = DropRx(emptied)
    BY <1>6, <2>1, <2>2 DEF SocketType, SameBut, Fields
  <2> QED
    BY <1>3, <1>6, <1>9, <2>3 DEF t, q
<1>10. CASE s.from.rx /\ ~s.from.tx /\ over.pending # <<>>
  <2>1. t = [over EXCEPT !.state = "Draining"]
    BY <1>4, <1>10
  <2>3. /\ t \in SocketType /\ t.state = "Draining" /\ t.tcp = s.tcp
        /\ t.rx = s.rx /\ t.tx = s.tx /\ t.offset = s.offset
        /\ t.pending = q /\ t.to = DropTx(s.to) /\ t.from = DropRx(emptied)
    BY <1>6, <2>1 DEF SocketType
  <2> QED
    BY <1>3, <1>6, <1>10, <2>3 DEF t, q
<1> QED
  BY <1>7, <1>8, <1>9, <1>10

LEMMA ConcatLen ==
  ASSUME NEW a \in Seq(Nat), NEW b \in Seq(Nat)
  PROVE  a \o b \in Seq(Nat) /\ Len(a \o b) = Len(a) + Len(b) /\ Len(a) <= Len(a \o b)
BY ConcatProperties

\* A part of a sequence, and the rest behind it.
LEMMA Parts ==
  ASSUME NEW p \in Seq(Nat), NEW i \in 0 .. Len(p), NEW j \in i .. Len(p)
  PROVE  /\ SubSeq(p, i + 1, j) \in Seq(Nat) /\ Len(SubSeq(p, i + 1, j)) = j - i
         /\ SubSeq(p, i + 1, j) \o SubSeq(p, j + 1, Len(p)) = SubSeq(p, i + 1, Len(p))
<1>1. Len(p) \in Nat /\ i \in Nat /\ j \in Nat /\ i <= j /\ j <= Len(p)
  OBVIOUS
<1>2. \A k \in i + 1 .. j : p[k] \in Nat
  BY <1>1, ElementOfSeq
<1>3. /\ SubSeq(p, i + 1, j) \in Seq(Nat)
      /\ Len(SubSeq(p, i + 1, j)) = IF i + 1 <= j THEN j - (i + 1) + 1 ELSE 0
  BY <1>1, <1>2, SubSeqProperties
<1>4. i + 1 \in 1 .. Len(p) + 1 /\ j \in (i + 1) - 1 .. Len(p) /\ Len(p) \in j .. Len(p)
  BY <1>1
<1>5. SubSeq(p, i + 1, j) \o SubSeq(p, j + 1, Len(p)) = SubSeq(p, i + 1, Len(p))
  BY <1>4, ConcatAdjacentSubSeq
<1>6. Len(SubSeq(p, i + 1, j)) = j - i
  <2>1. CASE i + 1 <= j
    BY <1>1, <1>3, <2>1
  <2>2. CASE i = j
    BY <1>1, <1>3, <2>2
  <2> QED
    BY <1>1, <2>1, <2>2
<1> QED
  BY <1>3, <1>5, <1>6, Zenon

\* drain_to_socket moves bytes from pending_send to the socket, neither losing
\* nor repeating one, and keeps to the socket's buffer.
LEMMA DrainDoes ==
  ASSUME NEW s \in SocketType, s.offset <= Len(s.pending), Len(s.tx) <= TxCap
  PROVE  LET t == DrainToSocket(s)
         IN  /\ t \in SocketType /\ t.offset <= Len(t.pending) /\ Len(t.tx) <= TxCap
             /\ SameBut(t, s, {"tx", "pending", "offset"})
             /\ ~MaySend(s) => t.tx = s.tx
             /\ t.tx \o Unsent(t) = s.tx \o Unsent(s)
<1> DEFINE p    == s.pending
           sent == s.tx
           o    == s.offset
           left == Len(p) - o
           room == IF MaySend(s) THEN TxCap - Len(sent) ELSE 0
           off  == o + (IF left < room THEN left ELSE room)
           compact == off < Len(p) /\ 2 * off > Len(p) /\ off > CompactMin
           tx   == sent \o SubSeq(p, o + 1, off)
           pending == IF compact THEN SubSeq(p, off + 1, Len(p)) ELSE p
           offset == IF compact THEN 0 ELSE off
           t    == DrainToSocket(s)
<1>1. p \in Seq(Nat) /\ sent \in Seq(Nat) /\ o \in 0 .. Len(p) /\ Len(sent) <= TxCap
  BY DEF SocketType, Chunks
<1>2. t = [s EXCEPT !.tx = tx, !.pending = pending, !.offset = offset]
  BY DEF DrainToSocket
<1>3. \/ pending = p /\ offset = off
      \/ pending = SubSeq(p, off + 1, Len(p)) /\ offset = 0
  OBVIOUS
<1>4. Unsent(s) = SubSeq(p, o + 1, Len(p))
  BY DEF Unsent
<1>5. ASSUME ~MaySend(s)
       PROVE  tx = sent
  <2>1. off = o
    BY <1>1, <1>5
  <2>2. SubSeq(p, o + 1, off) = <<>>
    BY <1>1, <2>1, SubSeqEmpty
  <2>3. sent \o <<>> = sent
    BY <1>1, ConcatEmptySeq
  <2> QED
    BY <2>2, <2>3, Zenon
<1> HIDE DEF p, sent, o, compact, pending, offset, t
<1>6. off \in o .. Len(p) /\ Len(sent) + (off - o) <= TxCap
  BY <1>1, ProxyLoopAssumption
<1> HIDE DEF off
<1>7. /\ pending \in Seq(Nat) /\ offset \in Nat /\ offset <= Len(pending)
      /\ tx \in Seq(Nat) /\ Len(tx) = Len(sent) + (off - o)
      /\ tx \o SubSeq(pending, offset + 1, Len(pending)) = sent \o SubSeq(p, o + 1, Len(p))
  <2> DEFINE moved == SubSeq(p, o + 1, off)
             rest == SubSeq(p, off + 1, Len(p))
  <2>1. /\ Len(p) \in Nat /\ off \in Nat /\ off \in 0 .. Len(p) /\ Len(p) \in off .. Len(p)
        /\ off <= Len(p) /\ off - o \in Nat
    BY <1>1, <1>6
  <2>2. /\ moved \in Seq(Nat) /\ Len(moved) = off - o
        /\ moved \o rest = SubSeq(p, o + 1, Len(p))
    BY <1>1, <1>6, Parts, Zenon
  <2>3. rest \in Seq(Nat)
    BY <1>1, <2>1, Parts, Zenon
  <2> HIDE DEF moved, rest
  <2>4. /\ sent \o moved \in Seq(Nat) /\ Len(sent \o moved) = Len(sent) + Len(moved)
    BY <1>1, <2>2, ConcatProperties
  <2>5. (sent \o moved) \o rest = sent \o (moved \o rest)
    <3>1. sent \in Seq(Nat) /\ moved \in Seq(Nat) /\ rest \in Seq(Nat)
      BY <1>1, <2>2, <2>3
    <3> QED
      BY <3>1, ConcatAssociative, SMTT(30)
  <2>6. /\ SubSeq(pending, offset + 1, Len(pending)) = rest
        /\ pending \in Seq(Nat) /\ offset \in Nat /\ offset <= Len(pending)
    <3>1. CASE pending = p /\ offset = off
      BY <1>1, <2>1, <3>1, Zenon DEF rest
    <3>2. CASE pending = rest /\ offset = 0
      <4>1. SubSeq(rest, 1, Len(rest)) = rest
        BY <2>3, SubSeqFull
      <4>2. 0 + 1 = 1 /\ 0 <= Len(rest) /\ 0 \in Nat
        BY <2>3
      <4> QED
        BY <2>3, <3>2, <4>1, <4>2, Zenon
    <3> QED
      BY <1>3, <3>1, <3>2 DEF rest
  <2>7. tx = sent \o moved
    BY DEF moved
  <2> HIDE DEF tx
  <2> QED
    BY <2>2, <2>4, <2>5, <2>6, <2>7, Zenon
<1> HIDE DEF tx
<1>8. /\ t \in SocketType /\ t.tx = tx /\ t.pending = pending /\ t.offset = offset
      /\ SameBut(t, s, {"tx", "pending", "offset"})
  BY <1>2, <1>7 DEF SocketType, Chunks, SameBut, Fields
<1>9. Len(tx) <= TxCap
  BY <1>6, <1>7
<1>10. Unsent(t) = SubSeq(pending, offset + 1, Len(pending))
  BY <1>8, Zenon DEF Unsent
<1> QED
  BY <1>4, <1>5, <1>7, <1>8, <1>9, <1>10, Zenon DEF t, sent

----------------------------------------------------------------------------
(* shuttle_bytes as a whole *)

\* What every branch of shuttle_bytes keeps.
Kept(t, s) ==
  /\ t \in SocketType /\ WithinCaps(t) /\ EndsOf(t)
  /\ t.from.tx = s.from.tx
  /\ s.state \notin Fresh => t.state \notin Fresh
  /\ s.state # "None" => t.state # "None"
  /\ s.tcp # "Listen" => t.tcp # "Listen"

\* The two channels and the buffer, in the state Shuttling before its test.
LEMMA PumpDoes ==
  ASSUME NEW s \in SocketType, WithinCaps(s), s.state = "Shuttling"
  PROVE  LET b == DrainToSocket(PullThread(PullGuest(s)))
         IN  Kept(b, s)
<1> DEFINE g == PullGuest(s)
           p == PullThread(g)
           b == DrainToSocket(p)
<1>1. g \in SocketType /\ WithinCaps(g) /\ SameBut(g, s, {"rx", "to"})
  BY PullGuestDoes
<1>2. g.state = "Shuttling" /\ g.from = s.from /\ g.tcp = s.tcp
  BY <1>1 DEF SameBut, Fields
<1> HIDE DEF g
<1>3. /\ p \in SocketType /\ p.rx = g.rx /\ p.tx = g.tx /\ p.offset = g.offset
      /\ ~g.from.rx => p = g
      /\ g.from.rx => /\ p.pending = g.pending \o g.from.q /\ p.from.q = <<>>
                      /\ p.from.tx = g.from.tx
      /\ g.from.rx /\ g.from.tx => p.state = g.state
      /\ g.from.rx /\ ~g.from.tx => /\ p.to = DropTx(g.to) /\ ~p.from.rx
                                    /\ p.state \in {"Closing", "Draining"}
      /\ p.tcp \in {g.tcp, Close(g).tcp}
  BY <1>1, PullThreadDoes, Zenon
<1> HIDE DEF p
<1>4. /\ Len(p.rx) <= RxCap /\ Len(p.tx) <= TxCap /\ Len(p.from.q) <= ChannelCap
      /\ p.offset <= Len(p.pending)
  <2>1. CASE ~g.from.rx
    BY <1>1, <1>3, <2>1 DEF WithinCaps
  <2>2. CASE g.from.rx
    <3>1. /\ g.pending \in Seq(Nat) /\ g.from.q \in Seq(Nat) /\ g.offset \in Nat
          /\ g.offset <= Len(g.pending)
      BY <1>1, SocketFields DEF WithinCaps
    <3>2. Len(g.pending) <= Len(p.pending) /\ p.pending \in Seq(Nat)
      BY <1>3, <2>2, <3>1, ConcatLen, Zenon
    <3>3. g.offset <= Len(p.pending)
      BY <3>1, <3>2
    <3>4. Len(p.from.q) <= ChannelCap
      BY <1>3, <2>2, ProxyLoopAssumption
    <3> QED
      BY <1>1, <1>3, <3>4, <3>3 DEF WithinCaps
  <2> QED
    BY <2>1, <2>2
<1>5. /\ b \in SocketType /\ b.offset <= Len(b.pending) /\ Len(b.tx) <= TxCap
      /\ SameBut(b, p, {"tx", "pending", "offset"})
  BY <1>3, <1>4, DrainDoes
<1> HIDE DEF b
<1>6. b.rx = p.rx /\ b.state = p.state /\ b.to = p.to /\ b.from = p.from /\ b.tcp = p.tcp
  BY <1>5 DEF SameBut, Fields
<1>7. WithinCaps(b)
  BY <1>4, <1>5, <1>6 DEF WithinCaps
<1>8. p.from.tx = s.from.tx
  BY <1>2, <1>3
<1>9. p.state \in {"Shuttling", "Closing", "Draining"} /\ EndsOf(p)
  <2>1. CASE ~g.from.rx \/ g.from.tx
    BY <1>2, <1>3, <2>1 DEF EndsOf, Fresh, Over
  <2>2. CASE g.from.rx /\ ~g.from.tx
    <3>1. ~DropTx(g.to).tx
      BY <1>1, SocketFields, ChannelOps
    <3> QED
      BY <1>3, <2>2, <3>1 DEF EndsOf, Fresh, Over
  <2> QED
    BY <2>1, <2>2
<1>10. s.tcp # "Listen" => b.tcp # "Listen"
  <2>1. Close(g).tcp # "Listen"
    BY <1>1, CloseType
  <2> QED
    BY <1>2, <1>3, <1>6, <2>1
<1> QED
  BY <1>5, <1>6, <1>7, <1>8, <1>9, <1>10, Zenon DEF Kept, EndsOf, Fresh, b, p, g

LEMMA WaitingDoes ==
  ASSUME NEW s \in SocketType, WithinCaps(s), EndsOf(s), s.state = "WaitingForData"
  PROVE  Kept(WaitingForData(s), s)
<1> DEFINE rx == Tail(s.rx)
           t == WaitingForData(s)
<1>1. CASE s.rx = <<>>
  BY <1>1 DEF WaitingForData, Kept
<1>2. CASE s.rx # <<>>
  <2>1. t = [s EXCEPT !.rx = rx, !.pending = <<1>>, !.offset = 0, !.state = "Draining"]
    BY <1>2 DEF WaitingForData
  <2>2. s.rx \in Seq(Nat) /\ Len(s.rx) <= RxCap
    BY SocketFields DEF WithinCaps
  <2>3. rx \in Seq(Nat) /\ Len(rx) = Len(s.rx) - 1
    BY <1>2, <2>2
  <2>4. <<1>> \in Seq(Nat) /\ 0 <= Len(<<1>>) /\ 0 \in Nat
    OBVIOUS
  <2> HIDE DEF rx, t
  <2>5. /\ t \in SocketType /\ t.rx = rx /\ t.pending = <<1>> /\ t.offset = 0
        /\ t.state = "Draining" /\ SameBut(t, s, {"rx", "pending", "offset", "state"})
    BY <2>1, <2>3, <2>4 DEF SocketType, Chunks, SameBut, Fields
  <2>6. Len(rx) <= RxCap
    BY <2>2, <2>3, ProxyLoopAssumption
  <2>7. t.tx = s.tx /\ t.from = s.from /\ t.to = s.to /\ t.tcp = s.tcp
    BY <2>5 DEF SameBut, Fields
  <2>8. WithinCaps(t)
    BY <2>4, <2>5, <2>6, <2>7 DEF WithinCaps
  <2>9. ~t.to.tx /\ ~t.from.rx
    BY <2>7 DEF EndsOf, Fresh, NoChannel
  <2> QED
    BY <2>5, <2>7, <2>8, <2>9, Zenon DEF Kept, EndsOf, Fresh, t
<1> QED
  BY <1>1, <1>2

LEMMA ShuttlingDoes ==
  ASSUME NEW s \in SocketType, WithinCaps(s), s.state = "Shuttling"
  PROVE  Kept(Shuttling(s), s)
<1> DEFINE b == DrainToSocket(PullThread(PullGuest(s)))
           to == DropTx(b.to)
           from == DropRx(b.from)
           t == [b EXCEPT !.to = to, !.from = from, !.state = "Done"]
<1>1. Kept(b, s)
  BY PumpDoes
<1>2. Shuttling(s) = IF ~IsActive(b) /\ ~MayRecv(b) THEN t ELSE b
  BY DEF Shuttling
<1> HIDE DEF b
<1>3. b \in SocketType /\ b.to \in ChannelType /\ b.from \in ChannelType
  BY <1>1, SocketFields DEF Kept
<1>4. /\ to \in ChannelType /\ from \in ChannelType /\ ~to.tx /\ ~from.rx
      /\ from.tx = b.from.tx /\ from.q = <<>>
  BY <1>3, ChannelOps
<1> HIDE DEF to, from
<1>5. /\ t \in SocketType /\ t.to = to /\ t.from = from /\ t.state = "Done"
      /\ SameBut(t, b, {"to", "from", "state"})
  BY <1>3, <1>4 DEF SocketType, SameBut, Fields
<1> HIDE DEF t
<1>6. /\ t.rx = b.rx /\ t.tx = b.tx /\ t.pending = b.pending /\ t.offset = b.offset
      /\ t.tcp = b.tcp
  BY <1>5 DEF SameBut, Fields
<1>7. Len(from.q) <= ChannelCap
  BY <1>4, ProxyLoopAssumption
<1>8. WithinCaps(t)
  BY <1>1, <1>5, <1>6, <1>7 DEF WithinCaps, Kept
<1>9. Kept(t, s)
  BY <1>1, <1>4, <1>5, <1>6, <1>8 DEF Kept, EndsOf, Fresh
<1> QED
  BY <1>1, <1>2, <1>9 DEF b

LEMMA DrainingDoes ==
  ASSUME NEW s \in SocketType, WithinCaps(s), EndsOf(s), s.state = "Draining"
  PROVE  Kept(Draining(s), s)
<1> DEFINE b == DrainToSocket(s)
           t == [Close(b) EXCEPT !.state = "Closing"]
<1>1. /\ b \in SocketType /\ b.offset <= Len(b.pending) /\ Len(b.tx) <= TxCap
      /\ SameBut(b, s, {"tx", "pending", "offset"})
  BY DrainDoes DEF WithinCaps
<1>2. Draining(s) = IF b.offset >= Len(b.pending) THEN t ELSE b
  BY DEF Draining
<1> HIDE DEF b
<1>3. /\ Close(b) \in SocketType /\ SameBut(Close(b), b, {"tcp"}) /\ Close(b).tcp # "Listen"
  BY <1>1, CloseType
<1>4. t \in SocketType /\ t.state = "Closing" /\ SameBut(t, Close(b), {"state"})
  BY <1>3, SetState
<1> HIDE DEF t
<1>5. /\ b.rx = s.rx /\ b.state = s.state /\ b.to = s.to /\ b.from = s.from
      /\ t.rx = b.rx /\ t.tx = b.tx /\ t.pending = b.pending /\ t.offset = b.offset
      /\ t.to = b.to /\ t.from = b.from /\ b.tcp = s.tcp /\ t.tcp = Close(b).tcp
  BY <1>1, <1>3, <1>4 DEF SameBut, Fields
<1>6. WithinCaps(b) /\ WithinCaps(t)
  BY <1>1, <1>5 DEF WithinCaps
<1>7. ~s.to.tx /\ ~s.from.rx
  BY DEF EndsOf, Over
<1>8. Kept(b, s) /\ Kept(t, s)
  BY <1>1, <1>3, <1>4, <1>5, <1>6, <1>7 DEF Kept, EndsOf, Fresh
<1> QED
  BY <1>2, <1>8

LEMMA ClosingDoes ==
  ASSUME NEW s \in SocketType, WithinCaps(s), EndsOf(s), s.state = "Closing"
  PROVE  Kept(Closing(s), s)
<1> DEFINE t == [s EXCEPT !.state = "Done"]
<1>1. t \in SocketType /\ t.state = "Done" /\ SameBut(t, s, {"state"})
  BY SetState
<1>2. Closing(s) \in {s, t}
  BY DEF Closing
<1> HIDE DEF t
<1>3. Kept(t, s) /\ Kept(s, s)
  BY <1>1 DEF Kept, SameBut, Fields, WithinCaps, EndsOf, Fresh, Over
<1> QED
  BY <1>2, <1>3

LEMMA ShuttleBytesDoes ==
  ASSUME NEW s \in SocketType, WithinCaps(s), EndsOf(s)
  PROVE  Kept(ShuttleBytes(s), s)
<1>1. Kept(s, s)
  BY DEF Kept
<1> QED
  BY <1>1, WaitingDoes, ShuttlingDoes, DrainingDoes, ClosingDoes DEF ShuttleBytes

----------------------------------------------------------------------------
(* The guest's steps *)

LEMMA OneSocket ==
  ASSUME LoopTypeOK, NEW h \in Handle, NEW s \in SocketType, WithinCaps(s),
         c' = [c EXCEPT ![h] = s]
  PROVE  /\ c' \in [Handle -> SocketType] /\ \A k \in Handle : WithinCaps(c'[k])
         /\ c'[h] = s /\ \A k \in Handle \ {h} : c'[k] = c[k]
BY DEF LoopTypeOK

\* What every step of the guest on a connection keeps.
GuestTouches(h) ==
  /\ c' \in [Handle -> SocketType] /\ \A k \in Handle : WithinCaps(c'[k])
  /\ \A k \in Handle \ {h} : c'[k] = c[k]
  /\ SameBut(c'[h], c[h], {"tcp", "rx", "tx"})
  /\ gsent' \in [Handle -> Nat] /\ got' \in [Handle -> Chunks]
  /\ changed' = TRUE
  /\ UNCHANGED <<pc, place, port, host, discovered, threadVars, hostVars>>

LEMMA GuestTcpDoes ==
  ASSUME LoopTypeOK, NEW h \in Handle, NEW x \in TcpState,
         c' = [c EXCEPT ![h].tcp = x], changed' = TRUE,
         UNCHANGED <<pc, place, port, host, discovered, threadVars, guestVars, hostVars>>
  PROVE  GuestTouches(h) /\ c'[h].tcp = x /\ SameBut(c'[h], c[h], {"tcp"})
<1> DEFINE s == [c[h] EXCEPT !.tcp = x]
<1>1. c[h] \in SocketType /\ WithinCaps(c[h])
  BY DEF LoopTypeOK
<1>2. s \in SocketType /\ s.tcp = x /\ SameBut(s, c[h], {"tcp"})
  BY <1>1, SetTcp
<1>3. c' = [c EXCEPT ![h] = s]
  OBVIOUS
<1> HIDE DEF s
<1>4. WithinCaps(s)
  BY <1>1, <1>2 DEF WithinCaps, SameBut, Fields
<1>5. /\ c' \in [Handle -> SocketType] /\ \A k \in Handle : WithinCaps(c'[k])
      /\ c'[h] = s /\ \A k \in Handle \ {h} : c'[k] = c[k]
  BY <1>2, <1>3, <1>4, OneSocket
<1>6. SameBut(s, c[h], {"tcp", "rx", "tx"})
  BY <1>2 DEF SameBut, Fields
<1> QED
  BY <1>2, <1>5, <1>6 DEF GuestTouches, guestVars, LoopTypeOK

LEMMA GuestSendDoes ==
  ASSUME LoopTypeOK, NEW h \in Handle, GuestSend(h)
  PROVE  /\ GuestTouches(h) /\ SameBut(c'[h], c[h], {"rx"}) /\ dest' = dest
         /\ c'[h].rx = Append(c[h].rx, gsent[h] + 1)
         /\ gsent' = [gsent EXCEPT ![h] = gsent[h] + 1] /\ got' = got
<1> DEFINE rx == Append(c[h].rx, gsent[h] + 1)
           s == [c[h] EXCEPT !.rx = rx]
<1>1. c[h] \in SocketType /\ WithinCaps(c[h]) /\ gsent[h] \in Nat
  BY DEF LoopTypeOK
<1>2. rx \in Seq(Nat) /\ Len(rx) = Len(c[h].rx) + 1
  <2>1. c[h].rx \in Seq(Nat) /\ gsent[h] + 1 \in Nat
    BY <1>1, SocketFields
  <2> QED
    BY <2>1, AppendProperties
<1>3. c' = [c EXCEPT ![h] = s] /\ Len(c[h].rx) < RxCap
  BY DEF GuestSend
<1>4. Len(rx) <= RxCap
  <2>1. Len(c[h].rx) \in Nat
    BY <1>1, SocketFields
  <2> QED
    BY <1>2, <1>3, <2>1, ProxyLoopAssumption
<1> HIDE DEF rx
<1>5. s \in SocketType /\ s.rx = rx /\ SameBut(s, c[h], {"rx"})
  BY <1>1, <1>2, SetRx DEF Chunks
<1> HIDE DEF s
<1>6. WithinCaps(s)
  BY <1>1, <1>4, <1>5 DEF WithinCaps, SameBut, Fields
<1>7. /\ c' \in [Handle -> SocketType] /\ \A k \in Handle : WithinCaps(c'[k])
      /\ c'[h] = s /\ \A k \in Handle \ {h} : c'[k] = c[k]
  BY <1>3, <1>5, <1>6, OneSocket
<1>8. SameBut(s, c[h], {"tcp", "rx", "tx"})
  BY <1>5 DEF SameBut, Fields
<1>9. gsent' \in [Handle -> Nat] /\ got' \in [Handle -> Chunks]
  BY <1>1 DEF GuestSend, LoopTypeOK
<1> QED
  BY <1>5, <1>7, <1>8, <1>9 DEF GuestTouches, GuestSend, Frame, rx

LEMMA GuestReceiveDoes ==
  ASSUME LoopTypeOK, NEW h \in Handle, GuestReceive(h)
  PROVE  /\ GuestTouches(h) /\ SameBut(c'[h], c[h], {"tx"}) /\ dest' = dest
         /\ c[h].tx # <<>> /\ c'[h].tx = Tail(c[h].tx)
         /\ got' = [got EXCEPT ![h] = Append(got[h], Head(c[h].tx))] /\ gsent' = gsent
<1> DEFINE tx == Tail(c[h].tx)
           s == [c[h] EXCEPT !.tx = tx]
<1>1. c[h] \in SocketType /\ WithinCaps(c[h]) /\ got[h] \in Seq(Nat)
  BY DEF LoopTypeOK, Chunks
<1>2. c' = [c EXCEPT ![h] = s] /\ c[h].tx # <<>>
  BY DEF GuestReceive
<1>3. /\ tx \in Seq(Nat) /\ Len(tx) = Len(c[h].tx) - 1
      /\ Head(c[h].tx) \in Nat /\ Len(c[h].tx) \in Nat
  <2>1. c[h].tx \in Seq(Nat)
    BY <1>1, SocketFields
  <2> QED
    BY <1>2, <2>1, HeadTailProperties
<1>4. Len(tx) <= TxCap
  BY <1>1, <1>3, ProxyLoopAssumption DEF WithinCaps
<1> HIDE DEF tx
<1>5. s \in SocketType /\ s.tx = tx /\ SameBut(s, c[h], {"tx"})
  BY <1>1, <1>3, SetTx DEF Chunks
<1> HIDE DEF s
<1>6. WithinCaps(s)
  BY <1>1, <1>4, <1>5 DEF WithinCaps, SameBut, Fields
<1>7. /\ c' \in [Handle -> SocketType] /\ \A k \in Handle : WithinCaps(c'[k])
      /\ c'[h] = s /\ \A k \in Handle \ {h} : c'[k] = c[k]
  BY <1>2, <1>5, <1>6, OneSocket
<1>8. SameBut(s, c[h], {"tcp", "rx", "tx"})
  BY <1>5 DEF SameBut, Fields
<1>9. gsent' \in [Handle -> Nat] /\ got' \in [Handle -> Chunks]
  <2>1. Append(got[h], Head(c[h].tx)) \in Seq(Nat)
    BY <1>1, <1>3, AppendProperties
  <2> QED
    BY <2>1 DEF GuestReceive, LoopTypeOK, Chunks
<1> QED
  BY <1>2, <1>5, <1>7, <1>8, <1>9 DEF GuestTouches, GuestReceive, Frame, tx

LEMMA GuestKeeps ==
  ASSUME LoopInv, NEW h \in Handle, GuestTouches(h),
         c'[h].tcp = "Listen" => c[h].tcp = "Listen"
  PROVE  /\ HostInv' /\ Ports'
         /\ \A k \in Handle : Ends(k)' /\ Threads(k)'
<1>1. HostInv'
  BY DEF LoopInv, GuestTouches, hostVars, HostInv, HostTypeOK, Invertible, AddrsExact,
         AnswersCurrent, AnswerOf, Exhausted
<1>2. /\ place' = place /\ port' = port /\ wr' = wr /\ rd' = rd
      /\ \A k \in Handle : /\ c'[k].state = c[k].state /\ c'[k].to = c[k].to
                           /\ c'[k].from = c[k].from
                           /\ c'[k].tcp = "Listen" => c[k].tcp = "Listen"
  BY DEF GuestTouches, threadVars, SameBut, Fields
<1>3. Ports'
  BY <1>2 DEF LoopInv, Ports
<1>4. ASSUME NEW k \in Handle
      PROVE  Ends(k)' /\ Threads(k)'
  BY <1>2 DEF LoopInv, Ends, EndsOf, Threads
<1> QED
  BY <1>1, <1>3, <1>4

LEMMA GuestTyped ==
  ASSUME LoopInv, NEW h \in Handle, GuestTouches(h), dest' \in [Handle -> IP]
  PROVE  LoopTypeOK'
BY DEF LoopInv, LoopTypeOK, GuestTouches, threadVars

\* A socket that has left its backlog's listeners stays one that has.
LEMMA BudgetKept ==
  ASSUME Budget, place' = place,
         \A k \in Handle : place[k] = "backlog" => (c'[k].tcp = "Listen" <=> c[k].tcp = "Listen")
  PROVE  Budget'
BY DEF Budget, Placed, Unused

\* A step of the guest on an open connection.
LEMMA GuestOpenStep ==
  ASSUME LoopInv, NEW h \in Handle, GuestTouches(h), dest' = dest,
         c[h].tcp # "Listen", c'[h].tcp # "Listen"
  PROVE  LoopInv'
<1>1. HostInv' /\ Ports' /\ \A k \in Handle : Ends(k)' /\ Threads(k)'
  BY GuestKeeps
<1>2. LoopTypeOK'
  BY GuestTyped DEF LoopInv, LoopTypeOK
<1>3. Budget'
  BY BudgetKept DEF LoopInv, GuestTouches
<1>4. \A k \in Handle : Relay(k)'
  BY DEF LoopInv, Relay, GuestTouches, threadVars, hostVars
<1> QED
  BY <1>1, <1>2, <1>3, <1>4 DEF LoopInv

LEMMA HandlesFinite ==
  \A S \in SUBSET Handle : IsFiniteSet(S) /\ Cardinality(S) \in Nat
BY ProxyLoopAssumption, FS_Subset, FS_CardinalityType

\* What GuestConnect, GuestFin, GuestReset and GuestAckFin do to the socket.
LEMMA GuestFlagDoes ==
  ASSUME LoopTypeOK, NEW h \in Handle
  PROVE  /\ \A ip \in addrs : GuestConnect(h, ip) =>
              /\ GuestTouches(h) /\ SameBut(c'[h], c[h], {"tcp"}) /\ UNCHANGED guestVars
              /\ c[h].tcp = "Listen" /\ c'[h].tcp = "Established"
         /\ GuestFin(h) \/ GuestReset(h) \/ GuestAckFin(h) =>
              /\ GuestTouches(h) /\ SameBut(c'[h], c[h], {"tcp"}) /\ UNCHANGED guestVars
              /\ dest' = dest
              /\ c[h].tcp # "Listen" /\ c'[h].tcp \in {"CloseWait", "LastAck", "Closed"}
              /\ c'[h].tcp = "LastAck" => c[h].tcp = "FinWait"
<1>1. ASSUME NEW ip \in addrs, GuestConnect(h, ip)
      PROVE  /\ GuestTouches(h) /\ SameBut(c'[h], c[h], {"tcp"}) /\ UNCHANGED guestVars
             /\ c[h].tcp = "Listen" /\ c'[h].tcp = "Established"
  BY <1>1, GuestTcpDoes DEF GuestConnect, Frame, TcpState
<1>2. ASSUME GuestFin(h)
      PROVE  /\ GuestTouches(h) /\ SameBut(c'[h], c[h], {"tcp"}) /\ UNCHANGED guestVars
             /\ dest' = dest
             /\ c[h].tcp # "Listen" /\ c'[h].tcp \in {"CloseWait", "LastAck"}
             /\ c'[h].tcp = "LastAck" => c[h].tcp = "FinWait"
  <2> DEFINE x == IF c[h].tcp = "Established" THEN "CloseWait" ELSE "LastAck"
  <2>1. c' = [c EXCEPT ![h].tcp = x] /\ x \in TcpState
    BY <1>2 DEF GuestFin, TcpState
  <2>2. GuestTouches(h) /\ c'[h].tcp = x /\ SameBut(c'[h], c[h], {"tcp"})
    BY <1>2, <2>1, GuestTcpDoes DEF GuestFin, Frame
  <2> QED
    BY <1>2, <2>2 DEF GuestFin
<1>3. ASSUME GuestReset(h) \/ GuestAckFin(h)
      PROVE  /\ GuestTouches(h) /\ SameBut(c'[h], c[h], {"tcp"}) /\ UNCHANGED guestVars
             /\ dest' = dest
             /\ c[h].tcp # "Listen" /\ c'[h].tcp = "Closed"
  BY <1>3, GuestTcpDoes DEF GuestReset, GuestAckFin, Frame, TcpState, IsActive
<1> QED
  BY <1>1, <1>2, <1>3

LEMMA GuestConnectStep ==
  ASSUME LoopInv, NEW h \in Handle, NEW ip \in addrs, GuestConnect(h, ip)
  PROVE  LoopInv'
<1>1. /\ GuestTouches(h) /\ SameBut(c'[h], c[h], {"tcp"})
      /\ c[h].tcp = "Listen" /\ c'[h].tcp = "Established"
  BY GuestFlagDoes DEF LoopInv
<1>2. HostInv' /\ Ports' /\ \A k \in Handle : Ends(k)' /\ Threads(k)'
  BY <1>1, GuestKeeps
<1>3. ip \in IP
  BY HostMapAssumption DEF LoopInv, HostInv, HostTypeOK, AddrsExact, IP
<1>4. dest' \in [Handle -> IP] /\ \A k \in Handle \ {h} : dest'[k] = dest[k]
  BY <1>3 DEF GuestConnect, LoopInv, LoopTypeOK
<1>5. LoopTypeOK'
  BY <1>1, <1>4, GuestTyped
<1>6. wr[h] = "none"
  BY <1>1 DEF LoopInv, Ends, Threads, Fresh
<1>7. \A k \in Handle : Relay(k)'
  BY <1>1, <1>4, <1>6 DEF LoopInv, Relay, GuestTouches, threadVars, hostVars
<1>8. Budget'
  <2> DEFINE W == {k \in Placed("backlog") : c[k].tcp # "Listen"}
  <2>1. W' = W \cup {h} /\ Unused' = Unused /\ W \in SUBSET Handle /\ Unused \in SUBSET Handle
    BY <1>1 DEF Placed, Unused, GuestTouches, LoopInv, Ends
  <2>2. Cardinality(W) < Cardinality(Unused)
    BY DEF GuestConnect, HandleBudget
  <2> HIDE DEF W
  <2>3. Cardinality(W') <= Cardinality(W) + 1
    BY <2>1, HandlesFinite, FS_AddElement
  <2>4. Cardinality(W') <= Cardinality(Unused')
    BY <2>1, <2>2, <2>3, HandlesFinite, FS_AddElement
  <2> QED
    BY <2>4 DEF Budget, W
<1> QED
  BY <1>2, <1>5, <1>7, <1>8 DEF LoopInv

LEMMA GuestStep ==
  ASSUME LoopInv, NEW h \in Handle, Guest(h)
  PROVE  LoopInv'
<1>1. LoopTypeOK
  BY DEF LoopInv
<1>2. CASE GuestSend(h)
  <2>1. GuestTouches(h) /\ dest' = dest /\ c'[h].tcp = c[h].tcp
    BY <1>1, <1>2, GuestSendDoes DEF SameBut, Fields
  <2> QED
    BY <1>2, <2>1, GuestOpenStep DEF GuestSend
<1>3. CASE GuestReceive(h)
  <2>1. GuestTouches(h) /\ dest' = dest /\ c'[h].tcp = c[h].tcp
    BY <1>1, <1>3, GuestReceiveDoes DEF SameBut, Fields
  <2> QED
    BY <1>3, <2>1, GuestOpenStep DEF GuestReceive, IsActive
<1>4. CASE GuestFin(h) \/ GuestReset(h) \/ GuestAckFin(h)
  BY <1>1, <1>4, GuestFlagDoes, GuestOpenStep
<1> QED
  BY <1>2, <1>3, <1>4, GuestConnectStep DEF Guest

----------------------------------------------------------------------------
(* The loop's steps *)

\* A step that moves the loop on and touches nothing else.
LEMMA PhaseStep ==
  ASSUME LoopInv, pc' \in {"poll", "dns", "accept", "shuttle", "stopped"}, changed' \in BOOLEAN,
         UNCHANGED <<place, port, dest, c, host, discovered, threadVars, guestVars, hostVars>>
  PROVE  LoopInv'
<1>1. HostInv'
  BY DEF LoopInv, hostVars, HostInv, HostTypeOK, Invertible, AddrsExact,
         AnswersCurrent, AnswerOf, Exhausted
<1>2. LoopTypeOK'
  BY DEF LoopInv, LoopTypeOK, threadVars, guestVars
<1>3. Budget' /\ Ports'
  BY DEF LoopInv, Budget, Placed, Unused, Ports
<1>4. \A k \in Handle : Ends(k)' /\ Threads(k)' /\ Relay(k)'
  BY DEF LoopInv, Ends, EndsOf, Threads, Relay, threadVars, hostVars
<1> QED
  BY <1>1, <1>2, <1>3, <1>4 DEF LoopInv

LEMMA ProcessDnsStep ==
  ASSUME LoopInv, NEW n \in Names, NEW inClass \in BOOLEAN, NEW isA \in BOOLEAN,
         ProcessDns(n, inClass, isA)
  PROVE  LoopInv'
<1>1. HostInv /\ HostNext
  BY DEF LoopInv, ProcessDns, HostNext
<1>2. HostInv'
  BY <1>1, StepInv
<1>3. \A m \in DOMAIN forward : reverse'[forward[m]] = m /\ forward[m] \in DOMAIN reverse'
  <2>1. [\A m \in DOMAIN forward : /\ m \in DOMAIN forward'
                                   /\ forward'[m] = forward[m]
                                   /\ reverse'[forward[m]] = m]_hostVars
    BY <1>1, StepKeepsBindings
  <2>2. \A m \in DOMAIN forward : /\ m \in DOMAIN forward' /\ forward'[m] = forward[m]
                                  /\ reverse'[forward[m]] = m
    BY <1>1, <2>1 DEF hostVars, HostInv, Invertible
  <2> QED
    BY <1>2, <2>2 DEF HostInv, Invertible
<1>4. \A ip \in DOMAIN reverse : ip \in DOMAIN reverse' /\ reverse'[ip] = reverse[ip]
  BY <1>1, <1>3 DEF HostInv, Invertible
<1>5. UNCHANGED <<loopVars, threadVars, guestVars>>
  BY DEF ProcessDns
<1>6. LoopTypeOK' /\ Budget' /\ Ports'
  BY <1>5 DEF LoopInv, LoopTypeOK, Budget, Placed, Unused, Ports, loopVars, threadVars, guestVars
<1>7. \A k \in Handle : Ends(k)' /\ Threads(k)'
  BY <1>5 DEF LoopInv, Ends, EndsOf, Threads, loopVars, threadVars
<1>8. \A k \in Handle : Relay(k)'
  BY <1>4, <1>5 DEF LoopInv, Relay, loopVars, threadVars
<1> QED
  BY <1>2, <1>6, <1>7, <1>8 DEF LoopInv

\* Every connection has its turn, and none is lost from the type invariant.
LEMMA ShuttleStep ==
  ASSUME LoopInv, Shuttle
  PROVE  LoopInv'
<1>1. \A k \in Handle : c[k] \in SocketType /\ WithinCaps(c[k]) /\ EndsOf(c[k])
  BY DEF LoopInv, LoopTypeOK, Ends
<1>2. \A k \in Handle : Kept(ShuttleBytes(c[k]), c[k])
  BY <1>1, ShuttleBytesDoes
<1>3. \A k \in Handle : IF place[k] = "conn" THEN c'[k] = ShuttleBytes(c[k]) ELSE c'[k] = c[k]
  BY DEF Shuttle, Placed, Conns
<1>4. \A k \in Handle : place[k] = "conn" => Kept(c'[k], c[k])
  BY <1>2, <1>3
<1>5. /\ \A k \in Handle : place'[k] = IF place[k] = "conn" /\ c'[k].state = "Done"
                                       THEN "reaped" ELSE place[k]
      /\ place' \in [Handle -> {"unused", "backlog", "conn", "orphan", "reaped"}]
  BY DEF Shuttle, Placed, Conns, LoopInv, LoopTypeOK
<1>6. c' \in [Handle -> SocketType] /\ \A k \in Handle : WithinCaps(c'[k])
  <2>1. \A k \in Handle : c'[k] \in SocketType /\ WithinCaps(c'[k])
    BY <1>1, <1>3, <1>4 DEF Kept
  <2>2. c' = [k \in Handle |-> c'[k]]
    BY DEF Shuttle
  <2> QED
    BY <2>1, <2>2
<1>7. LoopTypeOK'
  BY <1>5, <1>6 DEF LoopInv, LoopTypeOK, Shuttle, threadVars, guestVars
<1>8. HostInv'
  BY DEF LoopInv, Shuttle, hostVars, HostInv, HostTypeOK, Invertible, AddrsExact,
         AnswersCurrent, AnswerOf, Exhausted
<1>9. Ports'
  BY <1>5 DEF LoopInv, Ports, Shuttle
<1>10. Budget'
  <2>1. Placed("backlog")' = Placed("backlog") /\ Unused' = Unused
    BY <1>5 DEF Placed, Unused
  <2>2. \A k \in Placed("backlog") : c'[k] = c[k]
    BY <1>3 DEF Placed
  <2>3. {k \in Placed("backlog") : c[k].tcp # "Listen"}' = {k \in Placed("backlog") : c[k].tcp # "Listen"}
    BY <2>1, <2>2
  <2> QED
    BY <2>1, <2>3 DEF Budget, LoopInv
<1>11. ASSUME NEW k \in Handle
       PROVE  Ends(k)' /\ Threads(k)' /\ Relay(k)'
  <2>1. Ends(k) /\ Threads(k) /\ Relay(k)
    BY DEF LoopInv
  <2>2. wr' = wr /\ rd' = rd /\ port' = port /\ dest' = dest /\ host' = host /\ reverse' = reverse
    BY DEF Shuttle, threadVars, hostVars
  <2>3. Relay(k)'
    BY <2>1, <2>2 DEF Relay
  <2>4. Threads(k)'
    BY <1>3, <1>4, <2>1, <2>2 DEF Threads, Kept
  <2>5. CASE place[k] = "conn"
    <3>1. EndsOf(c'[k]) /\ c'[k].tcp # "Listen"
      BY <1>4, <2>1, <2>5 DEF Kept, Ends
    <3>2. place'[k] = "conn" \/ (place'[k] = "reaped" /\ c'[k].state = "Done")
      BY <1>5, <2>5
    <3>3. c'[k].state = "Done" => ~c'[k].to.tx /\ ~c'[k].from.rx
      BY <3>1 DEF EndsOf, Over
    <3>4. Ends(k)'
      BY <3>1, <3>2, <3>3 DEF Ends, EndsOf
    <3> QED
      BY <2>3, <2>4, <3>4
  <2>6. CASE place[k] # "conn"
    <3>1. c'[k] = c[k] /\ place'[k] = place[k]
      BY <1>3, <1>5, <2>6
    <3>2. Ends(k)'
      BY <2>1, <3>1 DEF Ends, EndsOf
    <3> QED
      BY <2>3, <2>4, <3>2
  <2> QED
    BY <2>5, <2>6
<1> QED
  BY <1>7, <1>8, <1>9, <1>10, <1>11 DEF LoopInv

LEMMA NoChannelDropped == DropTx(NoChannel) = NoChannel /\ DropRx(NoChannel) = NoChannel
<1>1. \A a, b \in ChannelType : a.q = b.q /\ a.tx = b.tx /\ a.rx = b.rx => a = b
  BY DEF ChannelType
<1>2. NoChannel.q = <<>> /\ NoChannel.tx = FALSE /\ NoChannel.rx = FALSE
  BY DEF NoChannel
<1>3. NoChannel \in ChannelType
  BY Blanks
<1>4. /\ DropTx(NoChannel) \in ChannelType /\ DropRx(NoChannel) \in ChannelType
      /\ DropTx(NoChannel).q = <<>> /\ DropRx(NoChannel).q = <<>>
  BY <1>2, <1>3, ChannelOps
<1>5. /\ DropTx(NoChannel).tx = FALSE /\ DropTx(NoChannel).rx = FALSE
      /\ DropRx(NoChannel).tx = FALSE /\ DropRx(NoChannel).rx = FALSE
  BY <1>2, <1>3 DEF DropTx, DropRx, ChannelType
<1> QED
  BY <1>1, <1>2, <1>3, <1>4, <1>5

\* run returns: the channel ends of all connections go.
LEMMA StopStep ==
  ASSUME LoopInv, Stop
  PROVE  LoopInv'
<1> DEFINE Cut(s) == [s EXCEPT !.to = DropTx(s.to), !.from = DropRx(s.from)]
<1>1. \A k \in Handle : c'[k] = IF place[k] = "conn" THEN Cut(c[k]) ELSE c[k]
  BY DEF Stop, Placed, Conns
<1>2. /\ \A k \in Handle : place'[k] = IF place[k] = "conn" THEN "reaped" ELSE place[k]
      /\ place' \in [Handle -> {"unused", "backlog", "conn", "orphan", "reaped"}]
  BY DEF Stop, Placed, Conns, LoopInv, LoopTypeOK
<1>3. ASSUME NEW s \in SocketType, WithinCaps(s), EndsOf(s)
      PROVE  /\ Cut(s) \in SocketType /\ WithinCaps(Cut(s)) /\ EndsOf(Cut(s))
             /\ SameBut(Cut(s), s, {"to", "from"})
             /\ ~Cut(s).to.tx /\ ~Cut(s).from.rx /\ Cut(s).from.tx = s.from.tx
  <2>1. /\ DropTx(s.to) \in ChannelType /\ DropRx(s.from) \in ChannelType
        /\ ~DropTx(s.to).tx /\ ~DropRx(s.from).rx
        /\ DropRx(s.from).tx = s.from.tx /\ DropRx(s.from).q = <<>>
    BY <1>3, SocketFields, ChannelOps
  <2>2. /\ Cut(s) \in SocketType /\ SameBut(Cut(s), s, {"to", "from"})
        /\ Cut(s).to = DropTx(s.to) /\ Cut(s).from = DropRx(s.from)
    <3> DEFINE to == DropTx(s.to)
               from == DropRx(s.from)
               t == [s EXCEPT !.to = to, !.from = from]
    <3>1. to \in ChannelType /\ from \in ChannelType /\ Cut(s) = t
      BY <2>1
    <3> HIDE DEF to, from
    <3>2. t \in SocketType /\ t.to = to /\ t.from = from /\ SameBut(t, s, {"to", "from"})
      BY <1>3, <3>1 DEF SocketType, SameBut, Fields
    <3> HIDE DEF Cut, t
    <3> QED
      BY <3>1, <3>2, Zenon DEF to, from
  <2> HIDE DEF Cut
  <2>3. Len(DropRx(s.from).q) <= ChannelCap
    BY <2>1, ProxyLoopAssumption
  <2>4. WithinCaps(Cut(s))
    BY <1>3, <2>2, <2>3 DEF WithinCaps, SameBut, Fields
  <2>5. Cut(s).state = s.state
    BY <2>2 DEF SameBut, Fields
  <2>6. EndsOf(Cut(s))
    BY <1>3, <2>1, <2>2, <2>5, NoChannelDropped DEF EndsOf
  <2> QED
    BY <2>1, <2>2, <2>4, <2>6
<1> HIDE DEF Cut
<1>4. \A k \in Handle : c[k] \in SocketType /\ WithinCaps(c[k]) /\ EndsOf(c[k])
  BY DEF LoopInv, LoopTypeOK, Ends
<1>5. c' \in [Handle -> SocketType] /\ \A k \in Handle : WithinCaps(c'[k])
  <2>1. \A k \in Handle : c'[k] \in SocketType /\ WithinCaps(c'[k])
    BY <1>1, <1>3, <1>4
  <2>2. c' = [k \in Handle |-> c'[k]]
    BY DEF Stop
  <2> QED
    BY <2>1, <2>2
<1>6. LoopTypeOK'
  BY <1>2, <1>5 DEF LoopInv, LoopTypeOK, Stop, threadVars, guestVars
<1>7. HostInv'
  BY DEF LoopInv, Stop, hostVars, HostInv, HostTypeOK, Invertible, AddrsExact,
         AnswersCurrent, AnswerOf, Exhausted
<1>8. Ports' /\ Placed("backlog")' = Placed("backlog") /\ Unused' = Unused
  BY <1>2 DEF LoopInv, Ports, Stop, Placed, Unused
<1>9. Budget'
  <2>1. \A k \in Placed("backlog") : c'[k] = c[k]
    BY <1>1 DEF Placed
  <2>2. {k \in Placed("backlog") : c[k].tcp # "Listen"}' = {k \in Placed("backlog") : c[k].tcp # "Listen"}
    BY <1>8, <2>1
  <2> QED
    BY <1>8, <2>2 DEF Budget, LoopInv
<1>10. ASSUME NEW k \in Handle
       PROVE  Ends(k)' /\ Threads(k)' /\ Relay(k)'
  <2>1. Ends(k) /\ Threads(k) /\ Relay(k)
    BY DEF LoopInv
  <2>2. wr' = wr /\ rd' = rd /\ port' = port /\ dest' = dest /\ host' = host /\ reverse' = reverse
    BY DEF Stop, threadVars, hostVars
  <2>3. Relay(k)'
    BY <2>1, <2>2 DEF Relay
  <2>4. /\ c'[k].state = c[k].state /\ c'[k].tcp = c[k].tcp /\ c'[k].from.tx = c[k].from.tx
        /\ EndsOf(c'[k])
        /\ place[k] = "conn" => ~c'[k].to.tx /\ ~c'[k].from.rx
        /\ place[k] # "conn" => c'[k] = c[k]
    BY <1>1, <1>3, <1>4 DEF SameBut, Fields
  <2>5. Threads(k)'
    BY <2>1, <2>2, <2>4 DEF Threads
  <2>6. Ends(k)'
    BY <1>2, <2>1, <2>4 DEF Ends, EndsOf
  <2> QED
    BY <2>3, <2>5, <2>6
<1> QED
  BY <1>6, <1>7, <1>8, <1>9, <1>10 DEF LoopInv

\* A socket that waits has a fresh handle to be replaced by: the guest connects
\* within the budget only.
LEMMA FreshHandle ==
  ASSUME LoopInv, NEW h \in Handle, Ready(h)
  PROVE  Unused # {}
<1> DEFINE W == {k \in Placed("backlog") : c[k].tcp # "Listen"}
<1>1. h \in W /\ W \in SUBSET Handle /\ Unused \in SUBSET Handle
  BY DEF Ready, Placed, Unused
<1>2. Cardinality(W) <= Cardinality(Unused)
  BY DEF LoopInv, Budget
<1> HIDE DEF W
<1>3. IsFiniteSet(W) /\ Cardinality(W) \in Nat /\ Cardinality(W) # 0
  BY <1>1, HandlesFinite, FS_EmptySet
<1>4. Cardinality(Unused) # 0 /\ IsFiniteSet(Unused)
  BY <1>1, <1>2, <1>3, HandlesFinite
<1> QED
  BY <1>4, FS_EmptySet

\* The slot of h gets a listener on a handle that was unused.
Replaced(h, fresh, where, r) ==
  /\ fresh \in Unused /\ fresh # h /\ place[h] = "backlog" /\ c[h].tcp # "Listen"
  /\ c' \in [Handle -> SocketType] /\ \A k \in Handle : WithinCaps(c'[k])
  /\ c'[h] = r /\ c'[fresh] = Listener /\ \A k \in Handle \ {h, fresh} : c'[k] = c[k]
  /\ place' = [place EXCEPT ![h] = where, ![fresh] = "backlog"]
  /\ port' = [port EXCEPT ![fresh] = port[h]]

LEMMA ReplaceDoes ==
  ASSUME LoopInv, NEW h \in Handle, Ready(h), NEW where \in {"conn", "orphan"},
         NEW r \in SocketType, WithinCaps(r), Replace(h, where, r)
  PROVE  \E fresh \in Handle : Replaced(h, fresh, where, r)
<1> DEFINE fresh == CHOOSE n \in Unused : TRUE
<1>1. fresh \in Unused
  BY FreshHandle
<1> HIDE DEF fresh
<1>2. /\ place' = [place EXCEPT ![h] = where, ![fresh] = "backlog"]
      /\ port' = [port EXCEPT ![fresh] = port[h]]
      /\ c' = [c EXCEPT ![h] = r, ![fresh] = Listener]
  BY DEF Replace, fresh
<1>3. fresh \in Handle /\ place[fresh] = "unused" /\ place[h] = "backlog" /\ c[h].tcp # "Listen"
  BY <1>1 DEF Unused, Placed, Ready
<1>4. /\ c \in [Handle -> SocketType] /\ (\A k \in Handle : WithinCaps(c[k]))
      /\ Listener \in SocketType /\ WithinCaps(Listener)
  BY Blanks DEF LoopInv, LoopTypeOK
<1>5. /\ c' \in [Handle -> SocketType] /\ c'[h] = r /\ c'[fresh] = Listener
      /\ \A k \in Handle \ {h, fresh} : c'[k] = c[k]
  BY <1>2, <1>3, <1>4
<1>6. \A k \in Handle : WithinCaps(c'[k])
  BY <1>4, <1>5
<1> QED
  BY <1>1, <1>2, <1>3, <1>5, <1>6 DEF Replaced

\* What a replacement keeps, whatever becomes of the old socket.
LEMMA ReplacedKeeps ==
  ASSUME LoopInv, NEW h \in Handle, NEW fresh \in Handle, NEW where \in {"conn", "orphan"},
         NEW r, Replaced(h, fresh, where, r)
  PROVE  /\ place' \in [Handle -> {"unused", "backlog", "conn", "orphan", "reaped"}]
         /\ port' \in [Handle -> Port \cup {"none"}]
         /\ place'[h] = where /\ place'[fresh] = "backlog"
         /\ \A k \in Handle \ {h, fresh} : place'[k] = place[k]
         /\ \A k \in Handle \ {fresh} : port'[k] = port[k]
         /\ Ports' /\ Budget'
<1>1. /\ place \in [Handle -> {"unused", "backlog", "conn", "orphan", "reaped"}]
      /\ port \in [Handle -> Port \cup {"none"}] /\ port[h] \in Port
  BY DEF LoopInv, LoopTypeOK, Ports, Replaced
<1>2. /\ place' \in [Handle -> {"unused", "backlog", "conn", "orphan", "reaped"}]
      /\ port' \in [Handle -> Port \cup {"none"}]
      /\ place'[h] = where /\ place'[fresh] = "backlog" /\ port'[fresh] = port[h]
      /\ \A k \in Handle \ {h, fresh} : place'[k] = place[k]
      /\ \A k \in Handle \ {fresh} : port'[k] = port[k]
  BY <1>1 DEF Replaced
<1>3. Ports'
  BY <1>1, <1>2 DEF LoopInv, Ports, Replaced
<1>4. Budget'
  <2> DEFINE W == {k \in Placed("backlog") : c[k].tcp # "Listen"}
  <2>1. Listener.tcp = "Listen"
    BY DEF Listener, Blank
  <2>2. W' = W \ {h} /\ h \in W /\ Unused' = Unused \ {fresh} /\ fresh \in Unused
    BY <1>2, <2>1 DEF Replaced, Placed, Unused
  <2>3. W \in SUBSET Handle /\ Unused \in SUBSET Handle
    BY DEF Placed, Unused
  <2>4. Cardinality(W) <= Cardinality(Unused)
    BY DEF LoopInv, Budget
  <2> HIDE DEF W
  <2>5. /\ Cardinality(W') = Cardinality(W) - 1
        /\ Cardinality(Unused') = Cardinality(Unused) - 1
    BY <2>2, <2>3, HandlesFinite, FS_RemoveElement
  <2>6. Cardinality(W') <= Cardinality(Unused')
    BY <2>3, <2>4, <2>5, HandlesFinite
  <2> QED
    BY <2>6 DEF Budget, W
<1> QED
  BY <1>2, <1>3, <1>4

\* The handles a replacement is not about, and the new listener.
LEMMA ReplacedOthers ==
  ASSUME LoopInv, NEW h \in Handle, NEW fresh \in Handle, NEW where \in {"conn", "orphan"},
         NEW r, Replaced(h, fresh, where, r),
         \A k \in Handle \ {h} : wr'[k] = wr[k] /\ host'[k] = host[k],
         rd' = rd, dest' = dest, reverse' = reverse
  PROVE  \A k \in Handle \ {h} : Ends(k)' /\ Threads(k)' /\ Relay(k)'
<1>1. /\ place'[fresh] = "backlog" /\ \A k \in Handle \ {h, fresh} : place'[k] = place[k]
      /\ \A k \in Handle \ {fresh} : port'[k] = port[k]
  BY ReplacedKeeps
<1>2. ASSUME NEW k \in Handle \ {h, fresh}
      PROVE  Ends(k)' /\ Threads(k)' /\ Relay(k)'
  <2>1. Ends(k) /\ Threads(k) /\ Relay(k)
    BY DEF LoopInv
  <2>2. /\ c'[k] = c[k] /\ place'[k] = place[k] /\ port'[k] = port[k] /\ wr'[k] = wr[k]
        /\ host'[k] = host[k] /\ rd'[k] = rd[k] /\ dest'[k] = dest[k]
    BY <1>1 DEF Replaced
  <2>3. Ends(k)'
    BY <2>1, <2>2 DEF Ends, EndsOf
  <2>4. Threads(k)'
    BY <2>1, <2>2 DEF Threads
  <2>5. Relay(k)'
    BY <2>1, <2>2 DEF Relay
  <2> QED
    BY <2>3, <2>4, <2>5
<1>3. wr[fresh] = "none" /\ rd[fresh] = "none" /\ fresh # h
  BY DEF LoopInv, Replaced, Unused, Placed, Ends, Threads, Fresh
<1>4. /\ Listener.state = "None" /\ Listener.to = NoChannel /\ Listener.from = NoChannel
      /\ Listener.tcp = "Listen"
  BY DEF Listener, Blank
<1>5. Ends(fresh)' /\ Threads(fresh)' /\ Relay(fresh)'
  BY <1>1, <1>3, <1>4 DEF Replaced, Ends, EndsOf, Threads, Relay, Over
<1> QED
  BY <1>2, <1>5

LEMMA RejectStep ==
  ASSUME LoopInv, NEW h \in Handle, Reject(h)
  PROVE  LoopInv'
<1> DEFINE r == Close(c[h])
<1>1. Ready(h) /\ Replace(h, "orphan", r)
  BY DEF Reject
<1>2. c[h] \in SocketType /\ WithinCaps(c[h])
  BY DEF LoopInv, LoopTypeOK
<1>3. r \in SocketType /\ SameBut(r, c[h], {"tcp"}) /\ r.tcp # "Listen"
  BY <1>2, CloseType
<1> HIDE DEF r
<1>4. WithinCaps(r)
  BY <1>2, <1>3 DEF WithinCaps, SameBut, Fields
<1>5. PICK fresh \in Handle : Replaced(h, fresh, "orphan", r)
  BY <1>1, <1>3, <1>4, ReplaceDoes
<1>6. /\ place' \in [Handle -> {"unused", "backlog", "conn", "orphan", "reaped"}]
      /\ port' \in [Handle -> Port \cup {"none"}]
      /\ place'[h] = "orphan" /\ port'[h] = port[h] /\ Ports' /\ Budget'
  BY <1>5, ReplacedKeeps DEF Replaced
<1>7. UNCHANGED <<pc, changed, dest, host, discovered, threadVars, guestVars, hostVars>>
  BY DEF Reject
<1>8. LoopTypeOK'
  BY <1>5, <1>6, <1>7 DEF LoopInv, LoopTypeOK, Replaced, threadVars, guestVars
<1>9. HostInv'
  BY <1>7 DEF LoopInv, hostVars, HostInv, HostTypeOK, Invertible, AddrsExact,
              AnswersCurrent, AnswerOf, Exhausted
<1>10. \A k \in Handle \ {h} : Ends(k)' /\ Threads(k)' /\ Relay(k)'
  BY <1>5, <1>7, ReplacedOthers DEF threadVars, hostVars
<1>11. Ends(h)' /\ Threads(h)' /\ Relay(h)'
  <2>1. Ends(h) /\ Threads(h) /\ Relay(h) /\ place[h] = "backlog"
    BY <1>5 DEF LoopInv, Replaced
  <2>2. c'[h] = r /\ r.state = c[h].state /\ r.to = c[h].to /\ r.from = c[h].from
    BY <1>3, <1>5 DEF Replaced, SameBut, Fields
  <2>3. c[h].state = "None"
    BY <2>1 DEF Ends
  <2>4. Ends(h)'
    BY <1>3, <1>6, <2>1, <2>2, <2>3 DEF Ends, EndsOf
  <2>5. Threads(h)'
    BY <1>7, <2>1, <2>2 DEF Threads, threadVars
  <2>6. Relay(h)'
    BY <1>6, <1>7, <2>1 DEF Relay, threadVars, hostVars
  <2> QED
    BY <2>4, <2>5, <2>6
<1> QED
  BY <1>6, <1>8, <1>9, <1>10, <1>11 DEF LoopInv

\* A socket that enters the table has its record, and no thread yet.
LEMMA OpenedDoes ==
  ASSUME LoopInv, NEW h \in Handle, Ready(h)
  PROVE  /\ Opened(h) \in SocketType /\ WithinCaps(Opened(h)) /\ EndsOf(Opened(h))
         /\ SameBut(Opened(h), c[h], {"state", "to", "from"})
         /\ Opened(h).state = IF port[h] = "Http" THEN "WaitingForData" ELSE "Shuttling"
         /\ port[h] # "Http" => Opened(h).to = Channel /\ Opened(h).from = Channel
<1>1. /\ c[h] \in SocketType /\ WithinCaps(c[h])
      /\ c[h].to = NoChannel /\ c[h].from = NoChannel
  BY DEF LoopInv, LoopTypeOK, Ends, EndsOf, Ready, Fresh
<1>2. NoChannel \in ChannelType /\ Channel \in ChannelType
  BY Blanks
<1>3. Channel.q = <<>> /\ 0 <= ChannelCap
  BY ProxyLoopAssumption DEF Channel
<1>4. CASE port[h] = "Http"
  <2> DEFINE t == Opened(h)
  <2>1. t = [c[h] EXCEPT !.state = "WaitingForData"]
    BY <1>4 DEF Opened
  <2> HIDE DEF t
  <2>2. t \in SocketType /\ t.state = "WaitingForData" /\ SameBut(t, c[h], {"state"})
    BY <1>1, <2>1 DEF SocketType, SameBut, Fields
  <2>3. SameBut(t, c[h], {"state", "to", "from"}) /\ t.to = c[h].to /\ t.from = c[h].from
    BY <2>2 DEF SameBut, Fields
  <2>4. WithinCaps(t)
    BY <1>1, <2>2 DEF WithinCaps, SameBut, Fields
  <2> QED
    BY <1>1, <1>4, <2>2, <2>3, <2>4 DEF EndsOf, Over, t
<1>5. CASE port[h] # "Http"
  <2> DEFINE t == Opened(h)
  <2>1. t = [c[h] EXCEPT !.state = "Shuttling", !.to = Channel, !.from = Channel]
    BY <1>5 DEF Opened
  <2> HIDE DEF t
  <2>2. /\ t \in SocketType /\ t.state = "Shuttling" /\ t.to = Channel /\ t.from = Channel
        /\ SameBut(t, c[h], {"state", "to", "from"})
    BY <1>1, <1>2, <2>1 DEF SocketType, SameBut, Fields
  <2>3. WithinCaps(t)
    <3>1. Len(t.from.q) <= ChannelCap
      BY <1>3, <2>2
    <3> QED
      BY <1>1, <2>2, <3>1 DEF WithinCaps, SameBut, Fields
  <2> QED
    BY <1>5, <2>2, <2>3 DEF EndsOf, Over, Fresh, t
<1> QED
  BY <1>4, <1>5

LEMMA AcceptStep ==
  ASSUME LoopInv, NEW h \in Handle, Accept(h)
  PROVE  LoopInv'
<1> DEFINE r == Opened(h)
           name == HostnameForIp(dest[h])
<1>1. Ready(h) /\ Replace(h, "conn", r)
  BY DEF Accept
<1>2. /\ r \in SocketType /\ WithinCaps(r) /\ EndsOf(r)
      /\ SameBut(r, c[h], {"state", "to", "from"})
      /\ r.state = IF port[h] = "Http" THEN "WaitingForData" ELSE "Shuttling"
      /\ port[h] # "Http" => r.to = Channel /\ r.from = Channel
  BY <1>1, OpenedDoes
<1> HIDE DEF r
<1>3. PICK fresh \in Handle : Replaced(h, fresh, "conn", r)
  BY <1>1, <1>2, ReplaceDoes
<1>4. /\ place' \in [Handle -> {"unused", "backlog", "conn", "orphan", "reaped"}]
      /\ port' \in [Handle -> Port \cup {"none"}]
      /\ place'[h] = "conn" /\ port'[h] = port[h] /\ Ports' /\ Budget'
  BY <1>3, ReplacedKeeps DEF Replaced
<1>5. UNCHANGED <<pc, changed, dest, rd, up, dsent, eof, guestVars, hostVars>>
  BY DEF Accept
<1>6. port[h] \in Port /\ port[h] \in PortKinds
  BY <1>3, ProxyLoopAssumption DEF LoopInv, Ports, Replaced
<1>7. /\ wr' = [wr EXCEPT ![h] = FirstStep[port[h]]]
      /\ FirstStep[port[h]] \in {"none", "open", "connect"}
      /\ port[h] = "Http" <=> FirstStep[port[h]] = "none"
  BY <1>6 DEF Accept, FirstStep, PortKinds
<1>8. \/ port[h] # "Ssh" /\ host' = host /\ discovered' = discovered
      \/ /\ port[h] = "Ssh" /\ name # NoHost /\ Allowed(name)
         /\ host' = [host EXCEPT ![h] = name]
         /\ discovered' = discovered \/ discovered' = discovered \cup {name}
  BY DEF Accept
<1>9. name # NoHost => dest[h] \in DOMAIN reverse /\ name = reverse[dest[h]] /\ name \in Names
  BY DEF HostnameForIp, LoopInv, HostInv, HostTypeOK
<1> HIDE DEF name
<1>10. LoopTypeOK'
  <2>1. host' \in [Handle -> Names \cup {NoHost}] /\ discovered' \subseteq Names
    BY <1>8, <1>9 DEF LoopInv, LoopTypeOK
  <2>2. wr' \in [Handle -> {"none", "open", "sending", "connect", "relay", "join", "done"}]
    BY <1>7 DEF LoopInv, LoopTypeOK
  <2> QED
    BY <1>3, <1>4, <1>5, <2>1, <2>2 DEF LoopInv, LoopTypeOK, Replaced, guestVars
<1>11. HostInv'
  BY <1>5 DEF LoopInv, hostVars, HostInv, HostTypeOK, Invertible, AddrsExact,
              AnswersCurrent, AnswerOf, Exhausted
<1>12. \A k \in Handle \ {h} : Ends(k)' /\ Threads(k)' /\ Relay(k)'
  <2>1. \A k \in Handle \ {h} : wr'[k] = wr[k] /\ host'[k] = host[k]
    BY <1>7, <1>8 DEF LoopInv, LoopTypeOK
  <2> QED
    BY <1>3, <1>5, <2>1, ReplacedOthers DEF hostVars
<1>13. Ends(h)' /\ Threads(h)' /\ Relay(h)'
  <2>1. Ends(h) /\ Threads(h) /\ Relay(h) /\ place[h] = "backlog" /\ c[h].tcp # "Listen"
    BY <1>3 DEF LoopInv, Replaced
  <2>2. /\ c'[h] = r /\ r.tcp = c[h].tcp /\ wr'[h] = FirstStep[port[h]] /\ rd'[h] = rd[h]
    BY <1>2, <1>3, <1>5, <1>7 DEF Replaced, SameBut, Fields, LoopInv, LoopTypeOK
  <2>3. wr[h] = "none" /\ rd[h] = "none"
    BY <2>1 DEF Ends, Threads, Fresh
  <2>4. Ends(h)'
    BY <1>2, <1>4, <2>1, <2>2 DEF Ends, EndsOf
  <2>5. port[h] # "Http" => r.from.tx
    BY <1>2 DEF Channel
  <2>6. Threads(h)'
    BY <1>2, <1>7, <2>2, <2>3, <2>5 DEF Threads, Fresh
  <2>7. port[h] = "Ssh" => host'[h] = name
    BY <1>8 DEF LoopInv, LoopTypeOK
  <2>8. Relay(h)'
    BY <1>4, <1>5, <1>8, <1>9, <2>7 DEF Relay, Allowed, hostVars
  <2> QED
    BY <2>4, <2>6, <2>8
<1> QED
  BY <1>4, <1>10, <1>11, <1>12, <1>13 DEF LoopInv

LEMMA LoopStep ==
  ASSUME LoopInv, Loop
  PROVE  LoopInv'
<1>1. CASE EndPoll \/ EndDns \/ EndAccept
  <2>1. pc' \in {"poll", "dns", "accept", "shuttle", "stopped"} /\ changed' \in BOOLEAN
    BY <1>1 DEF EndPoll, EndDns, EndAccept, LoopInv, LoopTypeOK
  <2>2. UNCHANGED <<place, port, dest, c, host, discovered, threadVars, guestVars, hostVars>>
    BY <1>1 DEF EndPoll, EndDns, EndAccept
  <2> QED
    BY <2>1, <2>2, PhaseStep
<1> QED
  BY <1>1, ShuttleStep, RejectStep, AcceptStep DEF Loop

----------------------------------------------------------------------------
(* The threads' steps *)

\* A step of a thread may change the channels of its connection, as y and x.
ChannelsSet(h, x, y) ==
  /\ c' \in [Handle -> SocketType] /\ \A k \in Handle : WithinCaps(c'[k])
  /\ \A k \in Handle \ {h} : c'[k] = c[k]
  /\ SameBut(c'[h], c[h], {"to", "from"}) /\ c'[h].to = x /\ c'[h].from = y

LEMMA SetChannels ==
  ASSUME LoopTypeOK, NEW h \in Handle, NEW x \in ChannelType, NEW y \in ChannelType,
         Len(y.q) <= ChannelCap,
         \/ c' = [c EXCEPT ![h].to = x, ![h].from = y]
         \/ c' = [c EXCEPT ![h].to = x] /\ y = c[h].from
         \/ c' = [c EXCEPT ![h].from = y] /\ x = c[h].to
  PROVE  ChannelsSet(h, x, y)
<1>1. c \in [Handle -> SocketType] /\ c[h] \in SocketType /\ WithinCaps(c[h])
  BY DEF LoopTypeOK
<1>2. \E s \in SocketType : /\ c' = [c EXCEPT ![h] = s] /\ SameBut(s, c[h], {"to", "from"})
                            /\ s.to = x /\ s.from = y
  <2>1. CASE c' = [c EXCEPT ![h].to = x, ![h].from = y]
    <3> DEFINE s == [c[h] EXCEPT !.to = x, !.from = y]
    <3>1. c' = [c EXCEPT ![h] = s]
      BY <1>1, <2>1
    <3>2. s \in SocketType /\ s.to = x /\ s.from = y /\ SameBut(s, c[h], {"to", "from"})
      BY <1>1 DEF SocketType, SameBut, Fields
    <3> HIDE DEF s
    <3> QED
      BY <3>1, <3>2
  <2>2. CASE c' = [c EXCEPT ![h].to = x] /\ y = c[h].from
    <3> DEFINE s == [c[h] EXCEPT !.to = x]
    <3>1. c' = [c EXCEPT ![h] = s]
      BY <1>1, <2>2
    <3>2. s \in SocketType /\ s.to = x /\ s.from = y /\ SameBut(s, c[h], {"to", "from"})
      BY <1>1, <2>2 DEF SocketType, SameBut, Fields
    <3> HIDE DEF s
    <3> QED
      BY <3>1, <3>2
  <2>3. CASE c' = [c EXCEPT ![h].from = y] /\ x = c[h].to
    <3> DEFINE s == [c[h] EXCEPT !.from = y]
    <3>1. c' = [c EXCEPT ![h] = s]
      BY <1>1, <2>3
    <3>2. s \in SocketType /\ s.to = x /\ s.from = y /\ SameBut(s, c[h], {"to", "from"})
      BY <1>1, <2>3 DEF SocketType, SameBut, Fields
    <3> HIDE DEF s
    <3> QED
      BY <3>1, <3>2
  <2> QED
    BY <2>1, <2>2, <2>3
<1>3. PICK s \in SocketType : /\ c' = [c EXCEPT ![h] = s] /\ SameBut(s, c[h], {"to", "from"})
                              /\ s.to = x /\ s.from = y
  BY <1>2
<1>4. WithinCaps(s)
  BY <1>1, <1>3 DEF WithinCaps, SameBut, Fields
<1>5. /\ c' \in [Handle -> SocketType] /\ \A k \in Handle : WithinCaps(c'[k])
      /\ c'[h] = s /\ \A k \in Handle \ {h} : c'[k] = c[k]
  BY <1>3, <1>4, OneSocket
<1> QED
  BY <1>3, <1>5 DEF ChannelsSet

\* Whether the steps of a thread are about one handle, and of the right types.
ThreadFrame(h) ==
  /\ wr' \in [Handle -> {"none", "open", "sending", "connect", "relay", "join", "done"}]
  /\ rd' \in [Handle -> {"none", "reading", "sending", "done"}]
  /\ up' \in [Handle -> Chunks] /\ dsent' \in [Handle -> Nat] /\ eof' \in [Handle -> BOOLEAN]
  /\ \A k \in Handle \ {h} : wr'[k] = wr[k] /\ rd'[k] = rd[k]
  /\ wr[h] # "none"
  /\ UNCHANGED <<pc, changed, place, port, dest, host, discovered, guestVars, hostVars>>

LEMMA ThreadKeeps ==
  ASSUME LoopInv, NEW h \in Handle, NEW x, NEW y, ChannelsSet(h, x, y), ThreadFrame(h),
         x.tx = c[h].to.tx, y.rx = c[h].from.rx,
         wr'[h] \in {"none", "open", "sending", "connect"} => rd'[h] = "none",
         wr'[h] \in {"open", "sending", "connect"} \/ rd'[h] \in {"reading", "sending"} => y.tx
  PROVE  LoopInv'
<1>1. HostInv'
  BY DEF LoopInv, ThreadFrame, hostVars, HostInv, HostTypeOK, Invertible, AddrsExact,
         AnswersCurrent, AnswerOf, Exhausted
<1>2. LoopTypeOK'
  BY DEF LoopInv, LoopTypeOK, ThreadFrame, ChannelsSet, guestVars
<1>3. Ports' /\ Budget'
  <2>1. \A k \in Handle : c'[k].tcp = c[k].tcp
    BY DEF ChannelsSet, SameBut, Fields
  <2> QED
    BY <2>1, BudgetKept DEF LoopInv, Ports, ThreadFrame
<1>4. c[h].state \notin Fresh /\ Ends(h) /\ Threads(h)
  BY DEF LoopInv, Threads, ThreadFrame
<1>5. /\ c'[h].state = c[h].state /\ c'[h].tcp = c[h].tcp
      /\ c'[h].to.tx = c[h].to.tx /\ c'[h].from.rx = c[h].from.rx /\ c'[h].from.tx = y.tx
  BY DEF ChannelsSet, SameBut, Fields
<1>6. Ends(h)'
  BY <1>4, <1>5 DEF Ends, EndsOf, ThreadFrame
<1>7. Threads(h)'
  BY <1>4, <1>5 DEF Threads
<1>8. ASSUME NEW k \in Handle \ {h}
      PROVE  Ends(k)' /\ Threads(k)'
  <2>1. Ends(k) /\ Threads(k)
    BY DEF LoopInv
  <2>2. c'[k] = c[k] /\ place'[k] = place[k] /\ wr'[k] = wr[k] /\ rd'[k] = rd[k]
    BY DEF ChannelsSet, ThreadFrame
  <2> QED
    BY <2>1, <2>2 DEF Ends, EndsOf, Threads
<1>9. \A k \in Handle : Relay(k)'
  BY DEF LoopInv, Relay, ThreadFrame, hostVars
<1> QED
  BY <1>1, <1>2, <1>3, <1>6, <1>7, <1>8, <1>9 DEF LoopInv

\* The channel after its first chunk was taken.
Take(ch) == [ch EXCEPT !.q = Tail(ch.q)]

LEMMA TakeDoes ==
  ASSUME LoopTypeOK, NEW h \in Handle, c[h].to.q # <<>>, c' = [c EXCEPT ![h].to.q = Tail(@)],
         up' = [up EXCEPT ![h] = Append(@, Head(c[h].to.q))]
  PROVE  /\ ChannelsSet(h, Take(c[h].to), c[h].from) /\ up' \in [Handle -> Chunks]
         /\ Take(c[h].to).q = Tail(c[h].to.q)
         /\ Take(c[h].to).tx = c[h].to.tx /\ Take(c[h].to).rx = c[h].to.rx
<1> DEFINE ch == c[h].to
           q == Tail(ch.q)
           x == Take(ch)
<1>1. /\ ch \in ChannelType /\ c[h].from \in ChannelType /\ ch.q \in Seq(Nat)
      /\ Len(c[h].from.q) <= ChannelCap
  BY SocketFields DEF LoopTypeOK, WithinCaps
<1>2. q \in Seq(Nat) /\ Head(ch.q) \in Nat
  BY <1>1, HeadTailProperties
<1>3. x = [ch EXCEPT !.q = q] /\ c' = [c EXCEPT ![h].to = x]
  BY DEF Take
<1> HIDE DEF ch, q, x
<1>4. x \in ChannelType /\ x.q = q /\ x.tx = ch.tx /\ x.rx = ch.rx
  BY <1>1, <1>2, <1>3 DEF ChannelType, Chunks
<1>5. ChannelsSet(h, x, c[h].from)
  BY <1>1, <1>3, <1>4, SetChannels
<1>6. up' \in [Handle -> Chunks]
  <2>1. up[h] \in Seq(Nat)
    BY DEF LoopTypeOK, Chunks
  <2>2. Append(up[h], Head(ch.q)) \in Seq(Nat)
    BY <1>2, <2>1, AppendProperties
  <2> QED
    BY <2>2 DEF LoopTypeOK, Chunks, ch
<1> QED
  BY <1>4, <1>5, <1>6 DEF ch, q, x

LEMMA PushDoes ==
  ASSUME LoopTypeOK, NEW h \in Handle, Len(c[h].from.q) < ChannelCap, Push(h),
         dsent' = [dsent EXCEPT ![h] = @ + 1]
  PROVE  LET y == Put(c[h].from, dsent[h] + 1)
         IN  /\ ChannelsSet(h, c[h].to, y) /\ dsent' \in [Handle -> Nat]
             /\ y.q = Append(c[h].from.q, dsent[h] + 1)
             /\ y.tx = c[h].from.tx /\ y.rx = c[h].from.rx
<1> DEFINE ch == c[h].from
           n == dsent[h] + 1
           y == Put(ch, n)
<1>1. ch \in ChannelType /\ c[h].to \in ChannelType /\ ch.q \in Seq(Nat) /\ n \in Nat
  BY SocketFields DEF LoopTypeOK
<1>2. c' = [c EXCEPT ![h].from = y]
  BY DEF Push, Put
<1> HIDE DEF n, y
<1>3. y \in ChannelType /\ y.q = Append(ch.q, n) /\ y.tx = ch.tx /\ y.rx = ch.rx
  BY <1>1, ChannelOps DEF y
<1>4. Len(y.q) <= ChannelCap
  <2>1. Len(Append(ch.q, n)) = Len(ch.q) + 1 /\ Len(ch.q) \in Nat
    BY <1>1, AppendProperties
  <2> QED
    BY <1>3, <2>1, ProxyLoopAssumption
<1>5. ChannelsSet(h, c[h].to, y)
  BY <1>1, <1>2, <1>3, <1>4, SetChannels
<1>6. dsent' \in [Handle -> Nat]
  BY DEF LoopTypeOK
<1> QED
  BY <1>3, <1>5, <1>6 DEF y, n

\* A thread lets go of the channel it reads, of the one it writes, or of both.
LEMMA LetGoDoes ==
  ASSUME LoopTypeOK, NEW h \in Handle
  PROVE  /\ /\ DropRx(c[h].to).q = <<>> /\ ~DropRx(c[h].to).rx
            /\ DropRx(c[h].to).tx = c[h].to.tx
            /\ DropTx(c[h].from).q = c[h].from.q /\ ~DropTx(c[h].from).tx
            /\ DropTx(c[h].from).rx = c[h].from.rx
         /\ Return(h) => ChannelsSet(h, DropRx(c[h].to), DropTx(c[h].from))
         /\ c' = [c EXCEPT ![h].to = DropRx(@)] => ChannelsSet(h, DropRx(c[h].to), c[h].from)
         /\ c' = [c EXCEPT ![h].from = DropTx(@)] => ChannelsSet(h, c[h].to, DropTx(c[h].from))
         /\ c' = c => ChannelsSet(h, c[h].to, c[h].from)
<1> DEFINE x == DropRx(c[h].to)
           y == DropTx(c[h].from)
<1>1. /\ c[h].to \in ChannelType /\ c[h].from \in ChannelType /\ Len(c[h].from.q) <= ChannelCap
      /\ c[h].to.q \in Seq(Nat) /\ c[h].from.q \in Seq(Nat)
  BY SocketFields DEF LoopTypeOK, WithinCaps
<1>2. x \in ChannelType /\ x.q = <<>> /\ ~x.rx /\ x.tx = c[h].to.tx
  BY <1>1, ChannelOps
<1>3. y \in ChannelType /\ y.q = c[h].from.q /\ ~y.tx /\ y.rx = c[h].from.rx
  BY <1>1, ChannelOps
<1>4. /\ Return(h) => c' = [c EXCEPT ![h].to = x, ![h].from = y]
      /\ c' = [c EXCEPT ![h].to = DropRx(@)] => c' = [c EXCEPT ![h].to = x]
      /\ c' = [c EXCEPT ![h].from = DropTx(@)] => c' = [c EXCEPT ![h].from = y]
  BY DEF Return, LoopTypeOK, SocketType
<1> HIDE DEF x, y
<1>5. Len(y.q) <= ChannelCap
  BY <1>1, <1>3
<1>6. c' = c => ChannelsSet(h, c[h].to, c[h].from)
  BY DEF ChannelsSet, LoopTypeOK, SameBut
<1>7. /\ Return(h) => ChannelsSet(h, x, y)
      /\ c' = [c EXCEPT ![h].to = DropRx(@)] => ChannelsSet(h, x, c[h].from)
      /\ c' = [c EXCEPT ![h].from = DropTx(@)] => ChannelsSet(h, c[h].to, y)
  BY <1>1, <1>2, <1>3, <1>4, <1>5, SetChannels
<1> QED
  BY <1>2, <1>3, <1>6, <1>7 DEF x, y

\* Guest to upstream: nothing, the receiver dropped with what was left, or a
\* chunk taken.
TakesFrom(h, x) ==
  \/ up' = up /\ x.q = c[h].to.q /\ x.rx = c[h].to.rx
  \/ up' = up /\ x.q = <<>> /\ ~x.rx
  \/ /\ c[h].to.q # <<>> /\ x.q = Tail(c[h].to.q) /\ x.rx = c[h].to.rx
     /\ up' = [up EXCEPT ![h] = Append(up[h], Head(c[h].to.q))]

\* Upstream to guest: nothing, or a chunk put, while both ends exist.
PutsInto(h, y) ==
  \/ dsent' = dsent /\ y.q = c[h].from.q
  \/ /\ c[h].from.rx /\ c[h].from.tx /\ y.q = Append(c[h].from.q, dsent[h] + 1)
     /\ dsent' = [dsent EXCEPT ![h] = dsent[h] + 1]

\* All that a step of a connection's threads may do.
ThreadEffect(h, x, y) ==
  /\ ThreadFrame(h) /\ ChannelsSet(h, x, y)
  /\ x.tx = c[h].to.tx /\ y.rx = c[h].from.rx /\ (y.tx => c[h].from.tx)
  /\ wr'[h] \in {"none", "open", "sending", "connect"} => rd'[h] = "none"
  /\ wr'[h] \in {"open", "sending", "connect"} \/ rd'[h] \in {"reading", "sending"} => y.tx
  /\ TakesFrom(h, x) /\ PutsInto(h, y)

\* A step that leaves the sockets alone.
LEMMA QuietThread ==
  ASSUME LoopInv, NEW h \in Handle, ThreadFrame(h), c' = c, up' = up, dsent' = dsent,
         wr'[h] \in {"none", "open", "sending", "connect"} => rd'[h] = "none",
         wr'[h] \in {"open", "sending", "connect"} \/ rd'[h] \in {"reading", "sending"}
           => c[h].from.tx
  PROVE  ThreadEffect(h, c[h].to, c[h].from)
BY LetGoDoes DEF LoopInv, ThreadEffect, TakesFrom, PutsInto

LEMMA TlsDoes ==
  ASSUME LoopInv, NEW h \in Handle, TlsRead(h) \/ TlsProduce(h) \/ TlsSend(h) \/ TlsReturn(h)
  PROVE  \E x, y : ThreadEffect(h, x, y)
<1> USE DEF LoopInv, loopVars
<1>1. /\ wr[h] \in {"open", "sending"} /\ rd[h] = "none" /\ c[h].from.tx
      /\ wr \in [Handle -> {"none", "open", "sending", "connect", "relay", "join", "done"}]
      /\ LoopTypeOK
  BY DEF TlsRead, TlsProduce, TlsSend, TlsReturn, Threads, LoopTypeOK
<1>2. CASE TlsRead(h)
  <2>1. /\ ChannelsSet(h, Take(c[h].to), c[h].from) /\ up' \in [Handle -> Chunks]
        /\ Take(c[h].to).q = Tail(c[h].to.q)
        /\ Take(c[h].to).tx = c[h].to.tx /\ Take(c[h].to).rx = c[h].to.rx
    BY <1>1, <1>2, TakeDoes DEF TlsRead
  <2>2. ThreadFrame(h)
    BY <1>1, <1>2, <2>1 DEF TlsRead, ThreadFrame, LoopTypeOK
  <2>3. ThreadEffect(h, Take(c[h].to), c[h].from)
    BY <1>1, <1>2, <2>1, <2>2 DEF TlsRead, ThreadEffect, TakesFrom, PutsInto
  <2> QED
    BY <2>3
<1>3. CASE TlsProduce(h)
  <2>1. ThreadFrame(h) /\ wr'[h] = "sending" /\ rd'[h] = "none"
    BY <1>1, <1>3 DEF TlsProduce, ThreadFrame, LoopTypeOK
  <2> QED
    BY <1>1, <1>3, <2>1, QuietThread DEF TlsProduce
<1>4. CASE /\ wr[h] = "sending" /\ c[h].from.rx /\ Len(c[h].from.q) < ChannelCap /\ Push(h)
           /\ dsent' = [dsent EXCEPT ![h] = @ + 1] /\ wr' = [wr EXCEPT ![h] = "open"]
           /\ UNCHANGED <<pc, changed, place, port, dest, host, discovered, rd, up, eof,
                          guestVars, hostVars>>
  <2> DEFINE y == Put(c[h].from, dsent[h] + 1)
  <2>1. /\ ChannelsSet(h, c[h].to, y) /\ dsent' \in [Handle -> Nat]
        /\ y.q = Append(c[h].from.q, dsent[h] + 1)
        /\ y.tx = c[h].from.tx /\ y.rx = c[h].from.rx
    BY <1>1, <1>4, PushDoes
  <2> HIDE DEF y
  <2>2. ThreadFrame(h)
    BY <1>1, <1>4, <2>1 DEF ThreadFrame, LoopTypeOK
  <2>3. ThreadEffect(h, c[h].to, y)
    BY <1>1, <1>4, <2>1, <2>2 DEF ThreadEffect, TakesFrom, PutsInto
  <2> QED
    BY <2>3
<1>5. CASE /\ Return(h) /\ wr' = [wr EXCEPT ![h] = "done"] /\ dsent' = dsent
           /\ UNCHANGED <<pc, changed, place, port, dest, host, discovered, rd, up, eof,
                          guestVars, hostVars>>
  <2> DEFINE x == DropRx(c[h].to)
             y == DropTx(c[h].from)
  <2>1. /\ ChannelsSet(h, x, y) /\ x.q = <<>> /\ ~x.rx /\ x.tx = c[h].to.tx
        /\ y.q = c[h].from.q /\ ~y.tx /\ y.rx = c[h].from.rx
    BY <1>1, <1>5, LetGoDoes
  <2> HIDE DEF x, y
  <2>2. ThreadFrame(h) /\ wr'[h] = "done" /\ rd'[h] = "none"
    BY <1>1, <1>5 DEF ThreadFrame, LoopTypeOK
  <2>3. ThreadEffect(h, x, y)
    BY <1>5, <2>1, <2>2 DEF ThreadEffect, TakesFrom, PutsInto
  <2> QED
    BY <2>3
<1> QED
  BY <1>2, <1>3, <1>4, <1>5 DEF TlsSend, TlsReturn

LEMMA RelayDoes ==
  ASSUME LoopInv, NEW h \in Handle,
         \/ RelayConnect(h) \/ RelayConnectFails(h) \/ RelayForward(h)
         \/ RelayWriteFails(h) \/ RelayEnds(h) \/ RelayJoin(h)
  PROVE  \E x, y : ThreadEffect(h, x, y)
<1> USE DEF LoopInv, loopVars
<1>1. /\ wr[h] \in {"connect", "relay", "join"} /\ LoopTypeOK /\ Threads(h)
      /\ wr \in [Handle -> {"none", "open", "sending", "connect", "relay", "join", "done"}]
      /\ rd \in [Handle -> {"none", "reading", "sending", "done"}]
  BY DEF RelayConnect, RelayConnectFails, RelayForward, RelayWriteFails, RelayEnds, RelayJoin,
         LoopTypeOK
<1>2. CASE RelayConnect(h)
  <2>1. ThreadFrame(h) /\ wr'[h] = "relay" /\ rd'[h] = "reading" /\ c[h].from.tx
    BY <1>1, <1>2 DEF RelayConnect, ThreadFrame, LoopTypeOK, Threads
  <2> QED
    BY <1>1, <1>2, <2>1, QuietThread DEF RelayConnect
<1>3. CASE RelayConnectFails(h)
  <2> DEFINE x == DropRx(c[h].to)
             y == DropTx(c[h].from)
  <2>1. /\ ChannelsSet(h, x, y) /\ x.q = <<>> /\ ~x.rx /\ x.tx = c[h].to.tx
        /\ y.q = c[h].from.q /\ ~y.tx /\ y.rx = c[h].from.rx
    BY <1>1, <1>3, LetGoDoes DEF RelayConnectFails
  <2> HIDE DEF x, y
  <2>2. ThreadFrame(h) /\ wr'[h] = "done" /\ rd'[h] = "none"
    BY <1>1, <1>3 DEF RelayConnectFails, ThreadFrame, LoopTypeOK, Threads
  <2>3. ThreadEffect(h, x, y)
    BY <1>3, <2>1, <2>2 DEF RelayConnectFails, ThreadEffect, TakesFrom, PutsInto
  <2> QED
    BY <2>3
<1>4. CASE RelayForward(h)
  <2>1. /\ ChannelsSet(h, Take(c[h].to), c[h].from) /\ up' \in [Handle -> Chunks]
        /\ Take(c[h].to).q = Tail(c[h].to.q)
        /\ Take(c[h].to).tx = c[h].to.tx /\ Take(c[h].to).rx = c[h].to.rx
    BY <1>1, <1>4, TakeDoes DEF RelayForward
  <2>2. ThreadFrame(h)
    BY <1>1, <1>4, <2>1 DEF RelayForward, ThreadFrame, LoopTypeOK
  <2>3. ThreadEffect(h, Take(c[h].to), c[h].from)
    BY <1>1, <1>4, <2>1, <2>2 DEF RelayForward, ThreadEffect, TakesFrom, PutsInto, Threads
  <2> QED
    BY <2>3
<1>5. CASE RelayWriteFails(h) \/ RelayEnds(h)
  <2> DEFINE x == DropRx(c[h].to)
  <2>1. LeaveRelay(h) /\ wr[h] = "relay"
    BY <1>5 DEF RelayWriteFails, RelayEnds
  <2>2. ChannelsSet(h, x, c[h].from) /\ x.q = <<>> /\ ~x.rx /\ x.tx = c[h].to.tx
    BY <1>1, <2>1, LetGoDoes DEF LeaveRelay
  <2> HIDE DEF x
  <2>3. ThreadFrame(h) /\ wr'[h] = "join" /\ rd'[h] = rd[h]
    BY <1>1, <2>1 DEF LeaveRelay, ThreadFrame, LoopTypeOK
  <2>4. ThreadEffect(h, x, c[h].from)
    BY <1>1, <2>1, <2>2, <2>3 DEF LeaveRelay, ThreadEffect, TakesFrom, PutsInto, Threads
  <2> QED
    BY <2>4
<1>6. CASE RelayJoin(h)
  <2>1. ThreadFrame(h) /\ wr'[h] = "done" /\ rd'[h] = "done"
    BY <1>1, <1>6 DEF RelayJoin, ThreadFrame, LoopTypeOK
  <2> QED
    BY <1>1, <1>6, <2>1, QuietThread DEF RelayJoin
<1> QED
  BY <1>2, <1>3, <1>4, <1>5, <1>6

LEMMA ReadDoes ==
  ASSUME LoopInv, NEW h \in Handle, ReadUpstream(h) \/ ReadSend(h) \/ ReadEnds(h)
  PROVE  \E x, y : ThreadEffect(h, x, y)
<1> USE DEF LoopInv, loopVars
<1>1. /\ rd[h] \in {"reading", "sending"} /\ LoopTypeOK /\ Threads(h)
      /\ rd \in [Handle -> {"none", "reading", "sending", "done"}]
      /\ wr[h] \in {"relay", "join", "done"} /\ c[h].from.tx
  BY DEF ReadUpstream, ReadSend, ReadEnds, LoopTypeOK, Threads
<1>2. CASE ReadUpstream(h)
  <2>1. ThreadFrame(h) /\ wr'[h] = wr[h]
    BY <1>1, <1>2 DEF ReadUpstream, ThreadFrame, LoopTypeOK
  <2> QED
    BY <1>1, <1>2, <2>1, QuietThread DEF ReadUpstream
<1>3. CASE /\ c[h].from.rx /\ Len(c[h].from.q) < ChannelCap /\ Push(h)
           /\ dsent' = [dsent EXCEPT ![h] = @ + 1] /\ rd' = [rd EXCEPT ![h] = "reading"]
           /\ UNCHANGED <<pc, changed, place, port, dest, host, discovered, wr, up, eof,
                          guestVars, hostVars>>
  <2> DEFINE y == Put(c[h].from, dsent[h] + 1)
  <2>1. /\ ChannelsSet(h, c[h].to, y) /\ dsent' \in [Handle -> Nat]
        /\ y.q = Append(c[h].from.q, dsent[h] + 1)
        /\ y.tx = c[h].from.tx /\ y.rx = c[h].from.rx
    BY <1>1, <1>3, PushDoes
  <2> HIDE DEF y
  <2>2. ThreadFrame(h) /\ wr'[h] = wr[h]
    BY <1>1, <1>3, <2>1 DEF ThreadFrame, LoopTypeOK
  <2>3. ThreadEffect(h, c[h].to, y)
    BY <1>1, <1>3, <2>1, <2>2 DEF ThreadEffect, TakesFrom, PutsInto
  <2> QED
    BY <2>3
<1>4. CASE /\ c' = [c EXCEPT ![h].from = DropTx(@)] /\ rd' = [rd EXCEPT ![h] = "done"]
           /\ dsent' = dsent
           /\ UNCHANGED <<pc, changed, place, port, dest, host, discovered, wr, up, eof,
                          guestVars, hostVars>>
  <2> DEFINE y == DropTx(c[h].from)
  <2>1. ChannelsSet(h, c[h].to, y) /\ y.q = c[h].from.q /\ ~y.tx /\ y.rx = c[h].from.rx
    BY <1>1, <1>4, LetGoDoes
  <2> HIDE DEF y
  <2>2. ThreadFrame(h) /\ wr'[h] = wr[h] /\ rd'[h] = "done"
    BY <1>1, <1>4 DEF ThreadFrame, LoopTypeOK
  <2>3. ThreadEffect(h, c[h].to, y)
    BY <1>1, <1>4, <2>1, <2>2 DEF ThreadEffect, TakesFrom, PutsInto
  <2> QED
    BY <2>3
<1>5. CASE /\ rd' = [rd EXCEPT ![h] = "reading"]
           /\ UNCHANGED <<c, dsent, pc, changed, place, port, dest, host, discovered, wr, up, eof,
                          guestVars, hostVars>>
  <2>1. ThreadFrame(h) /\ wr'[h] = wr[h] /\ rd'[h] = "reading"
    BY <1>1, <1>5 DEF ThreadFrame, LoopTypeOK
  <2> QED
    BY <1>1, <1>5, <2>1, QuietThread
<1> QED
  BY <1>2, <1>3, <1>4, <1>5 DEF ReadSend, ReadEnds

LEMMA ThreadDoes ==
  ASSUME LoopInv, NEW h \in Handle, MainThread(h) \/ ReadThread(h) \/ Upstream(h)
  PROVE  \E x, y : ThreadEffect(h, x, y)
<1>1. CASE TlsRead(h) \/ TlsProduce(h) \/ TlsSend(h) \/ TlsReturn(h)
  BY <1>1, TlsDoes
<1>2. CASE \/ RelayConnect(h) \/ RelayConnectFails(h) \/ RelayForward(h)
           \/ RelayWriteFails(h) \/ RelayEnds(h) \/ RelayJoin(h)
  BY <1>2, RelayDoes
<1>3. CASE ReadUpstream(h) \/ ReadSend(h) \/ ReadEnds(h)
  BY <1>3, ReadDoes
<1> QED
  BY <1>1, <1>2, <1>3 DEF MainThread, ReadThread, Upstream, ReadTimeout, ReadEof

LEMMA ThreadStep ==
  ASSUME LoopInv, NEW h \in Handle, MainThread(h) \/ ReadThread(h) \/ Upstream(h)
  PROVE  LoopInv'
<1>1. PICK x, y : ThreadEffect(h, x, y)
  BY ThreadDoes
<1> QED
  BY <1>1, ThreadKeeps DEF ThreadEffect

----------------------------------------------------------------------------
(* The inductive invariant *)

LEMMA LoopInit ==
  ASSUME NEW ports \in [Handle -> Port \cup {"none"}], InitWith(ports)
  PROVE  LoopInv
<1> USE DEF InitWith
<1>1. HostInv
  BY InitInv
<1>2. /\ \A k \in Handle : c[k] = IF port[k] = "none" THEN Blank ELSE Listener
      /\ \A k \in Handle : place[k] = IF port[k] = "none" THEN "unused" ELSE "backlog"
      /\ place \in [Handle -> {"unused", "backlog", "conn", "orphan", "reaped"}]
  OBVIOUS
<1>3. c \in [Handle -> SocketType] /\ \A k \in Handle : WithinCaps(c[k])
  BY Blanks
<1>4. LoopTypeOK
  <2>1. Gateway \in IP /\ <<>> \in Chunks
    BY HostMapAssumption DEF IP, Chunks
  <2>2. /\ pc \in {"poll", "dns", "accept", "shuttle", "stopped"} /\ changed \in BOOLEAN
        /\ port \in [Handle -> Port \cup {"none"}] /\ dest \in [Handle -> IP]
        /\ host \in [Handle -> Names \cup {NoHost}] /\ discovered \subseteq Names
    BY <2>1
  <2>3. /\ wr \in [Handle -> {"none", "open", "sending", "connect", "relay", "join", "done"}]
        /\ rd \in [Handle -> {"none", "reading", "sending", "done"}]
        /\ gsent \in [Handle -> Nat] /\ dsent \in [Handle -> Nat]
        /\ up \in [Handle -> Chunks] /\ got \in [Handle -> Chunks]
        /\ eof \in [Handle -> BOOLEAN]
    BY <2>1
  <2> QED
    BY <1>2, <1>3, <2>2, <2>3 DEF LoopTypeOK
<1>5. /\ Blank.state = "None" /\ Blank.to = NoChannel /\ Blank.from = NoChannel
      /\ Listener.state = "None" /\ Listener.to = NoChannel /\ Listener.from = NoChannel
      /\ Blank.tcp = "Closed" /\ Listener.tcp = "Listen"
  BY DEF Blank, Listener
<1>6. \A k \in Handle : Ends(k) /\ Threads(k) /\ Relay(k)
  BY <1>2, <1>5 DEF Ends, EndsOf, Over, Threads, Relay
<1>7. Ports
  BY <1>2 DEF Ports
<1>8. Budget
  <2> DEFINE W == {k \in Placed("backlog") : c[k].tcp # "Listen"}
  <2>1. W = {}
    BY <1>2, <1>5 DEF Placed
  <2>2. Cardinality(Unused) \in Nat
    BY HandlesFinite DEF Unused, Placed
  <2> HIDE DEF W
  <2>3. Cardinality(W) <= Cardinality(Unused)
    BY <2>1, <2>2, FS_EmptySet
  <2> QED
    BY <2>3 DEF Budget, W
<1> QED
  BY <1>1, <1>4, <1>6, <1>7, <1>8 DEF LoopInv

LEMMA LoopNext == LoopInv /\ [Next]_vars => LoopInv'
<1> SUFFICES ASSUME LoopInv, [Next]_vars
             PROVE  LoopInv'
  OBVIOUS
<1>1. CASE Loop
  BY <1>1, LoopStep
<1>2. CASE Stop
  BY <1>2, StopStep
<1>3. CASE GuestDatagram
  <2>1. pc' \in {"poll", "dns", "accept", "shuttle", "stopped"} /\ changed' \in BOOLEAN
    BY <1>3 DEF GuestDatagram, Frame, LoopInv, LoopTypeOK
  <2>2. UNCHANGED <<place, port, dest, c, host, discovered, threadVars, guestVars, hostVars>>
    BY <1>3 DEF GuestDatagram
  <2> QED
    BY <2>1, <2>2, PhaseStep
<1>4. CASE \E n \in Names, inClass, isA \in BOOLEAN : ProcessDns(n, inClass, isA)
  BY <1>4, ProcessDnsStep
<1>5. CASE \E h \in Handle : Guest(h) \/ MainThread(h) \/ ReadThread(h) \/ Upstream(h)
  BY <1>5, GuestStep, ThreadStep
<1>6. CASE UNCHANGED vars
  <2>1. pc' \in {"poll", "dns", "accept", "shuttle", "stopped"} /\ changed' \in BOOLEAN
    BY <1>6 DEF vars, loopVars, LoopInv, LoopTypeOK
  <2>2. UNCHANGED <<place, port, dest, c, host, discovered, threadVars, guestVars, hostVars>>
    BY <1>6 DEF vars, loopVars
  <2> QED
    BY <2>1, <2>2, PhaseStep
<1> QED
  BY <1>1, <1>2, <1>3, <1>4, <1>5, <1>6 DEF Next

\* However the loop's phases, the guest's frames and the threads' steps interleave,
\* the two channels of a connection are in a state its ConnState allows, a sender
\* is with one thread only, and a socket that leaves its backlog can be replaced
\* (run, ProxyConn, shuttle_bytes and the three kinds of thread).
THEOREM LoopInvariant == AnySpec => []LoopInv
<1>1. (\E ports \in [Handle -> Port \cup {"none"}] : InitWith(ports)) => LoopInv
  BY LoopInit
<1> QED
  BY <1>1, LoopNext, PTL DEF AnySpec

----------------------------------------------------------------------------
(* What follows from it *)

LEMMA InvSshReachesHostAsked == LoopInv => SshReachesHostAsked
<1> SUFFICES ASSUME LoopInv, NEW h \in Handle, port[h] = "Ssh", wr[h] # "none"
             PROVE  /\ host[h] \in Names
                    /\ HasAllowlist => host[h] \in Allowlist
                    /\ \A a \in answers : a[2] = dest[h] => a[1] = host[h]
  BY DEF SshReachesHostAsked
<1>1. /\ dest[h] \in DOMAIN reverse /\ reverse[dest[h]] = host[h]
      /\ HasAllowlist => host[h] \in Allowlist
  BY DEF LoopInv, Relay
<1>2. HostInv
  BY DEF LoopInv
<1>3. dest[h] \in PoolStart .. next - 1 /\ next \in PoolStart .. PoolEnd + 1
  BY <1>1, <1>2 DEF HostInv, HostTypeOK
<1>4. dest[h] # Loopback /\ dest[h] # Gateway
  BY <1>3, HostMapAssumption
<1>5. \A a \in answers : a[2] = dest[h] => a[1] = host[h]
  BY <1>1, <1>2, <1>4 DEF HostInv, AnswersCurrent, AnswerOf, Invertible
<1> QED
  BY <1>1, <1>2, <1>5 DEF HostInv, HostTypeOK

\* Whatever the guest, the threads and the upstreams do, in whichever order, the
\* sockets, connections and channels keep their shapes and their capacities.
THEOREM LoopTypeCorrect == AnySpec => []LoopTypeOK
BY LoopInvariant, PTL DEF LoopInv

\* The threads of a connection that is out of the table can tell that it is,
\* however the connection ended (Done in every state, and run returning).
THEOREM ReapedAreCutOff == AnySpec => []ReapedCutOff
<1>1. LoopInv => ReapedCutOff
  BY DEF LoopInv, Ends, ReapedCutOff
<1> QED
  BY LoopInvariant, <1>1, PTL

\* An SSH relay's host is admitted, and is the one the guest looked up, whatever
\* is resolved or connected in between (the scan in run, HostMap).
THEOREM SshReachesHost == AnySpec => []SshReachesHostAsked
BY LoopInvariant, InvSshReachesHostAsked, PTL

\* The loop implements the resolver's own specification: no step of the loop,
\* the guest or a thread touches the maps but a query does, so that what is
\* proved of HostMap holds of the whole proxy.
THEOREM LoopImplementsResolver == AnySpec => HostSpec
<1>1. (\E ports \in [Handle -> Port \cup {"none"}] : InitWith(ports)) => HostInit
  BY DEF InitWith
<1>2. [Next]_vars => [HostNext]_hostVars
  <2> SUFFICES ASSUME [Next]_vars
               PROVE  [HostNext]_hostVars
    OBVIOUS
  <2>1. CASE \E n \in Names, inClass, isA \in BOOLEAN : ProcessDns(n, inClass, isA)
    BY <2>1 DEF ProcessDns, HostNext
  <2>2. CASE Loop \/ Stop \/ GuestDatagram \/ UNCHANGED vars
    BY <2>2 DEF Loop, EndPoll, EndDns, EndAccept, Shuttle, Reject, Accept, Stop, GuestDatagram, vars
  <2>3. CASE \E h \in Handle : Guest(h)
    BY <2>3 DEF Guest, GuestConnect, GuestSend, GuestFin, GuestReset, GuestReceive, GuestAckFin
  <2>4. CASE \E h \in Handle : MainThread(h)
    BY <2>4 DEF MainThread, TlsRead, TlsSend, TlsReturn, RelayConnect, RelayConnectFails,
                RelayForward, RelayWriteFails, RelayEnds, LeaveRelay, RelayJoin
  <2>5. CASE \E h \in Handle : ReadThread(h) \/ Upstream(h)
    BY <2>5 DEF ReadThread, ReadSend, ReadTimeout, ReadEnds, Upstream, TlsProduce, ReadUpstream,
                ReadEof, RelayForward, RelayWriteFails, LeaveRelay
  <2> QED
    BY <2>1, <2>2, <2>3, <2>4, <2>5 DEF Next
<1> QED
  BY <1>1, <1>2, PTL DEF AnySpec, HostSpec

----------------------------------------------------------------------------
(* The slots of the backlogs and the limit of the table *)

\* There are handles enough to fill every backlog at the start.
EnoughHandles ==
  \E f \in [Handle -> Port \cup {"none"}] :
    \A p \in Port : Cardinality({h \in Handle : f[h] = p}) = ListenBacklog

Slots(p) == {h \in Placed("backlog") : port[h] = p}

LEMMA SlotsInit ==
  ASSUME EnoughHandles, Init
  PROVE  LoopInv /\ SlotsKept
<1> DEFINE Fills(f) == \A p \in Port : Cardinality({h \in Handle : f[h] = p}) = ListenBacklog
<1>1. \E f \in [Handle -> Port \cup {"none"}] : Fills(f)
  BY DEF EnoughHandles
<1>2. InitialPort = CHOOSE f \in [Handle -> Port \cup {"none"}] : Fills(f)
  BY DEF InitialPort
<1>3. InitialPort \in [Handle -> Port \cup {"none"}] /\ Fills(InitialPort)
  <2> HIDE DEF Fills
  <2> QED
    BY <1>1, <1>2
<1>4. LoopInv
  BY <1>3, LoopInit DEF Init
<1>5. port = InitialPort /\ \A h \in Handle : place[h] = IF port[h] = "none" THEN "unused" ELSE "backlog"
  BY DEF Init, InitWith
<1>6. Cardinality(Conns) <= MaxConnections
  <2>1. Conns = {}
    BY <1>5 DEF Conns, Placed
  <2> QED
    BY <2>1, FS_EmptySet, ProxyLoopAssumption
<1>7. ASSUME NEW p \in Port
      PROVE  Cardinality({h \in Placed("backlog") : port[h] = p}) = ListenBacklog
  <2>1. p # "none"
    BY ProxyLoopAssumption DEF PortKinds
  <2>2. {h \in Placed("backlog") : port[h] = p} = {h \in Handle : InitialPort[h] = p}
    BY <1>5, <2>1 DEF Placed
  <2> QED
    BY <1>3, <2>2
<1> QED
  BY <1>4, <1>6, <1>7 DEF SlotsKept

\* No step but a replacement moves a listener, and none but Accept fills the table.
LEMMA SlotsUntouched ==
  ASSUME SlotsKept, port' = port, Placed("backlog")' = Placed("backlog"),
         Conns' \in SUBSET Conns
  PROVE  SlotsKept'
<1>1. IsFiniteSet(Conns) /\ Conns \in SUBSET Handle
  BY HandlesFinite DEF Conns, Placed
<1>2. Cardinality(Conns') <= Cardinality(Conns)
  BY <1>1, FS_Subset
<1>3. Cardinality(Conns) \in Nat /\ Cardinality(Conns') \in Nat /\ Cardinality(Conns) <= MaxConnections
  BY <1>1, HandlesFinite DEF SlotsKept
<1>4. Cardinality(Conns') <= MaxConnections
  BY <1>2, <1>3, ProxyLoopAssumption
<1> QED
  BY <1>4 DEF SlotsKept

\* A replacement leaves each backlog as many listeners as it had.
LEMMA SlotsReplaced ==
  ASSUME LoopInv, SlotsKept, NEW h \in Handle, NEW fresh \in Handle,
         NEW where \in {"conn", "orphan"}, NEW r, Replaced(h, fresh, where, r), NEW p \in Port
  PROVE  Cardinality(Slots(p)') = ListenBacklog
<1>1. /\ place'[h] = where /\ place'[fresh] = "backlog"
      /\ \A k \in Handle \ {h, fresh} : place'[k] = place[k]
      /\ \A k \in Handle \ {fresh} : port'[k] = port[k]
  BY ReplacedKeeps
<1>2. /\ place[h] = "backlog" /\ place[fresh] = "unused" /\ fresh # h
      /\ port'[fresh] = port[h]
  BY DEF Replaced, Unused, Placed, LoopInv, LoopTypeOK
<1>3. /\ Slots(p) \in SUBSET Handle /\ IsFiniteSet(Slots(p))
      /\ Cardinality(Slots(p)) = ListenBacklog
  <2>1. Slots(p) \in SUBSET Handle
    BY DEF Slots, Placed
  <2> QED
    BY <2>1, HandlesFinite DEF Slots, SlotsKept
<1>4. CASE port[h] = p
  <2> DEFINE S == Slots(p)
             T == S \ {h}
  <2>1. S' = T \cup {fresh} /\ h \in S /\ fresh \notin S
    BY <1>1, <1>2, <1>4 DEF Slots, Placed
  <2> HIDE DEF S
  <2>2. IsFiniteSet(S) /\ Cardinality(S) = ListenBacklog
    BY <1>3 DEF S
  <2>3. IsFiniteSet(T) /\ Cardinality(T) = ListenBacklog - 1 /\ fresh \notin T
    BY <2>1, <2>2, FS_RemoveElement
  <2> HIDE DEF T
  <2>4. Cardinality(T \cup {fresh}) = Cardinality(T) + 1
    BY <2>3, FS_AddElement
  <2>5. Cardinality(T \cup {fresh}) = ListenBacklog
    BY <2>3, <2>4, ProxyLoopAssumption
  <2> QED
    BY <2>1, <2>5, Zenon DEF S
<1>5. CASE port[h] # p
  <2>1. Slots(p)' = Slots(p)
    BY <1>1, <1>2, <1>5 DEF Slots, Placed
  <2> QED
    BY <1>3, <2>1
<1> QED
  BY <1>4, <1>5

LEMMA SlotsScan ==
  ASSUME LoopInv, SlotsKept, NEW h \in Handle, Reject(h) \/ Accept(h)
  PROVE  SlotsKept'
<1>1. \E r : \E fresh \in Handle :
        \/ Replaced(h, fresh, "orphan", r)
        \/ Replaced(h, fresh, "conn", r) /\ ~Full
  <2>1. c[h] \in SocketType /\ WithinCaps(c[h])
    BY DEF LoopInv, LoopTypeOK
  <2>2. CASE Reject(h)
    <3>1. Close(c[h]) \in SocketType /\ SameBut(Close(c[h]), c[h], {"tcp"})
      BY <2>1, CloseType
    <3>2. WithinCaps(Close(c[h]))
      BY <2>1, <3>1 DEF WithinCaps, SameBut, Fields
    <3>3. \E fresh \in Handle : Replaced(h, fresh, "orphan", Close(c[h]))
      BY <2>2, <3>1, <3>2, ReplaceDoes DEF Reject
    <3> QED
      BY <3>3
  <2>3. CASE Accept(h)
    <3>1. Opened(h) \in SocketType /\ WithinCaps(Opened(h))
      BY <2>3, OpenedDoes DEF Accept
    <3>2. (\E fresh \in Handle : Replaced(h, fresh, "conn", Opened(h))) /\ ~Full
      BY <2>3, <3>1, ReplaceDoes DEF Accept
    <3> QED
      BY <3>2
  <2> QED
    BY <2>2, <2>3
<1>2. PICK r : \E fresh \in Handle :
        \/ Replaced(h, fresh, "orphan", r)
        \/ Replaced(h, fresh, "conn", r) /\ ~Full
  BY <1>1
<1>3. PICK fresh \in Handle :
        \/ Replaced(h, fresh, "orphan", r)
        \/ Replaced(h, fresh, "conn", r) /\ ~Full
  BY <1>2
<1>4. \A p \in Port : Cardinality({k \in Placed("backlog") : port[k] = p}') = ListenBacklog
  BY <1>3, SlotsReplaced DEF Slots
<1>5. Cardinality(Conns') <= MaxConnections
  <2>1. IsFiniteSet(Conns) /\ Cardinality(Conns) \in Nat /\ Cardinality(Conns) <= MaxConnections
    BY HandlesFinite DEF Conns, Placed, SlotsKept
  <2>2. CASE Replaced(h, fresh, "orphan", r)
    <3>1. /\ place'[h] = "orphan" /\ place'[fresh] = "backlog"
          /\ \A k \in Handle \ {h, fresh} : place'[k] = place[k]
      BY <2>2, ReplacedKeeps
    <3>2. Conns' = Conns
      BY <2>2, <3>1 DEF Conns, Placed, Replaced, Unused
    <3> QED
      BY <2>1, <3>2
  <2>3. CASE Replaced(h, fresh, "conn", r) /\ ~Full
    <3>1. /\ place'[h] = "conn" /\ place'[fresh] = "backlog"
          /\ \A k \in Handle \ {h, fresh} : place'[k] = place[k]
      BY <2>3, ReplacedKeeps
    <3>2. Conns' = Conns \cup {h} /\ h \notin Conns
      BY <2>3, <3>1 DEF Conns, Placed, Replaced, Unused
    <3>3. Cardinality(Conns') = Cardinality(Conns) + 1
      BY <2>1, <3>2, FS_AddElement
    <3>4. Cardinality(Conns) < MaxConnections
      BY <2>1, <2>3, ProxyLoopAssumption DEF Full
    <3> QED
      BY <2>1, <3>3, <3>4, ProxyLoopAssumption
  <2> QED
    BY <1>3, <2>2, <2>3
<1> QED
  BY <1>4, <1>5 DEF SlotsKept

LEMMA SlotsNext == LoopInv /\ SlotsKept /\ [Next]_vars => SlotsKept'
<1> SUFFICES ASSUME LoopInv, SlotsKept, [Next]_vars
             PROVE  SlotsKept'
  OBVIOUS
<1> USE DEF Conns, Placed
<1>1. ASSUME UNCHANGED <<place, port>>
      PROVE  SlotsKept'
  BY <1>1, SlotsUntouched
<1>2. CASE Shuttle \/ Stop
  <2>1. \A k \in Handle : place'[k] = "reaped" \/ place'[k] = place[k]
    BY <1>2 DEF Shuttle, Stop
  <2>2. \A k \in Handle : place[k] # "conn" => place'[k] = place[k]
    BY <1>2 DEF Shuttle, Stop
  <2>3. Placed("backlog")' = Placed("backlog") /\ Conns' \in SUBSET Conns /\ port' = port
    BY <1>2, <2>1, <2>2 DEF Shuttle, Stop
  <2> QED
    BY <2>3, SlotsUntouched
<1>3. CASE EndPoll \/ EndDns \/ EndAccept \/ GuestDatagram \/ UNCHANGED vars
  BY <1>1, <1>3 DEF EndPoll, EndDns, EndAccept, GuestDatagram, vars, loopVars
<1>4. CASE \E h \in Handle : Reject(h) \/ Accept(h)
  BY <1>4, SlotsScan
<1>5. CASE \E n \in Names, inClass, isA \in BOOLEAN : ProcessDns(n, inClass, isA)
  BY <1>1, <1>5 DEF ProcessDns, loopVars
<1>6. CASE \E h \in Handle : Guest(h)
  BY <1>1, <1>6 DEF Guest, GuestConnect, GuestSend, GuestFin, GuestReset, GuestReceive, GuestAckFin
<1>7. CASE \E h \in Handle : MainThread(h) \/ ReadThread(h) \/ Upstream(h)
  BY <1>1, <1>7, ThreadDoes DEF ThreadEffect, ThreadFrame
<1> QED
  BY <1>2, <1>3, <1>4, <1>5, <1>6, <1>7 DEF Next, Loop

\* The table keeps to MAX_CONNECTIONS and every backlog to its number of
\* listeners, through every order of connections, rejections, ends and stops
\* (the scan in run replaces on its own in each of its branches).
THEOREM SlotsAreKept == ASSUME EnoughHandles PROVE Spec => []SlotsKept
<1>1. Init => LoopInv /\ SlotsKept
  BY SlotsInit
<1>2. LoopInv /\ SlotsKept /\ [Next]_vars => (LoopInv /\ SlotsKept)'
  BY LoopNext, SlotsNext
<1> QED
  BY <1>1, <1>2, PTL DEF Spec

----------------------------------------------------------------------------
(* Part 3: the bytes *)

(* Sequences *)

LEMMA Joins ==
  ASSUME NEW a \in Seq(Nat), NEW b \in Seq(Nat), NEW d \in Seq(Nat)
  PROVE  /\ a \o b \in Seq(Nat) /\ Len(a \o b) = Len(a) + Len(b)
         /\ (a \o b) \o d = a \o (b \o d)
         /\ a \o <<>> = a /\ <<>> \o a = a
         /\ a \o b = a => b = <<>>
         /\ a \o b = <<>> => a = <<>> /\ b = <<>>
<1>1. a \o b \in Seq(Nat) /\ Len(a \o b) = Len(a) + Len(b) /\ Len(a) \in Nat /\ Len(b) \in Nat
  BY SMTT(30), ConcatProperties, LenProperties
<1>2. (a \o b) \o d = a \o (b \o d)
  BY SMTT(30), ConcatAssociative
<1>3. a \o <<>> = a /\ <<>> \o a = a
  BY ConcatEmptySeq
<1>4. (Len(a) = 0 => a = <<>>) /\ (Len(b) = 0 => b = <<>>) /\ Len(<<>>) = 0
  BY EmptySeq
<1>5. a \o b = a => b = <<>>
  BY <1>1, <1>4
<1>6. a \o b = <<>> => a = <<>> /\ b = <<>>
  BY <1>1, <1>4
<1> QED
  BY <1>1, <1>2, <1>3, <1>5, <1>6

LEMMA Regroup == \A a, b, d \in Seq(Nat) : (a \o b) \o d = a \o (b \o d)
<1> TAKE a, b, d \in Seq(Nat)
<1> QED
  BY SMTT(30), Joins

LEMMA NothingBehind ==
  ASSUME NEW a \in Seq(Nat), NEW b \in Seq(Nat), a \o b = a \o <<>>
  PROVE  b = <<>>
BY SMTT(30), Joins, EmptySeq

LEMMA Appends ==
  ASSUME NEW a \in Seq(Nat), NEW b \in Seq(Nat), NEW n \in Nat
  PROVE  /\ Append(a, n) \in Seq(Nat)
         /\ a \o Append(b, n) = Append(a \o b, n)
<1>1. Append(a, n) \in Seq(Nat) /\ Append(b, n) \in Seq(Nat) /\ <<n>> \in Seq(Nat)
  BY SMTT(30), AppendProperties
<1>2. \A e \in Seq(Nat) : Append(e, n) = e \o <<n>>
  BY SMTT(30), AppendIsConcat
<1>3. a \o (b \o <<n>>) = (a \o b) \o <<n>> /\ a \o b \in Seq(Nat)
  BY SMTT(30), <1>1, ConcatAssociative, ConcatProperties
<1> QED
  BY <1>1, <1>2, <1>3

\* The head of a sequence moves to the end of the one before it.
LEMMA Moved ==
  ASSUME NEW a \in Seq(Nat), NEW b \in Seq(Nat), b # <<>>
  PROVE  /\ Head(b) \in Nat /\ Tail(b) \in Seq(Nat) /\ Append(a, Head(b)) \in Seq(Nat)
         /\ Append(a, Head(b)) \o Tail(b) = a \o b
<1> DEFINE x == Head(b)
           t == Tail(b)
<1>1. x \in Nat /\ t \in Seq(Nat) /\ b = <<x>> \o t
  BY SMTT(30), HeadTailProperties
<1> HIDE DEF x, t
<1>2. Append(a, x) = a \o <<x>> /\ <<x>> \in Seq(Nat) /\ Append(a, x) \in Seq(Nat)
  BY SMTT(30), <1>1, AppendProperties, AppendIsConcat
<1>3. (a \o <<x>>) \o t = a \o (<<x>> \o t)
  BY SMTT(30), <1>1, <1>2, Joins
<1> QED
  BY <1>1, <1>2, <1>3 DEF x, t

LEMMA Counts ==
  /\ Count(0) = <<>>
  /\ \A n \in Nat : Count(n) \in Seq(Nat) /\ Count(n + 1) = Append(Count(n), n + 1)
<1>1. Count(0) = <<>>
  BY DEF Count
<1>2. ASSUME NEW n \in Nat
      PROVE  Count(n) \in Seq(Nat) /\ Count(n + 1) = Append(Count(n), n + 1)
  BY DEF Count
<1> QED
  BY <1>1, <1>2

\* A prefix is what something makes the whole.
LEMMA Prefixes ==
  ASSUME NEW a \in Seq(Nat), NEW r \in Seq(Nat)
  PROVE  Prefix(a, a \o r)
<1>1. /\ a \o r \in Seq(Nat) /\ Len(a \o r) = Len(a) + Len(r) /\ Len(a) \in Nat /\ Len(r) \in Nat
      /\ \A i \in 1 .. Len(a) : (a \o r)[i] = a[i]
  BY SMTT(30), ConcatProperties
<1>2. a = SubSeq(a \o r, 1, Len(a))
  BY <1>1
<1> QED
  BY <1>1, <1>2 DEF Prefix

----------------------------------------------------------------------------
(* Guest to upstream *)

\* For a handle at place p with socket s, whose guest sent n chunks and whose
\* thread took u: what was taken, what waits in the channel and a rest are what
\* was sent; as long as nothing is lost the rest is what the socket holds.
UpOf(p, s, n, u) ==
  /\ \E r \in Seq(Nat) : /\ (u \o s.to.q) \o r = Count(n)
                         /\ (s.to.tx /\ s.to.rx) \/ s.state \in Fresh => r = s.rx
  /\ ~s.to.rx => s.to.q = <<>>
  /\ s.state \in Fresh => u = <<>>
  /\ p = "unused" => n = 0 /\ s.tcp = "Closed"

\* What the loop does to the upstream side: nothing, or it loses what it reads,
\* or it moves a chunk from the socket to the channel.
UpMoves(t, s) ==
  /\ t.to.rx = s.to.rx
  /\ t.state \in Fresh => s.state \in Fresh /\ t.rx = s.rx
  /\ \/ t.to.q = s.to.q /\ (t.to.tx /\ t.to.rx => s.to.tx /\ t.rx = s.rx)
     \/ /\ s.to.tx /\ s.to.rx /\ s.rx # <<>>
        /\ t.rx = Tail(s.rx) /\ t.to.q = Append(s.to.q, Head(s.rx))

LEMMA UpMoved ==
  ASSUME NEW s \in SocketType, NEW t \in SocketType, NEW n \in Nat, NEW u \in Seq(Nat),
         NEW p, NEW p1, p1 # "unused", UpOf(p, s, n, u), UpMoves(t, s)
  PROVE  UpOf(p1, t, n, u)
<1>1. PICK r \in Seq(Nat) : /\ (u \o s.to.q) \o r = Count(n)
                            /\ (s.to.tx /\ s.to.rx) \/ s.state \in Fresh => r = s.rx
  BY DEF UpOf
<1>2. /\ ~s.to.rx => s.to.q = <<>>
      /\ s.state \in Fresh => u = <<>>
  BY DEF UpOf
<1>3. CASE t.to.q = s.to.q /\ (t.to.tx /\ t.to.rx => s.to.tx /\ t.rx = s.rx)
  BY <1>1, <1>2, <1>3, Zenon DEF UpOf, UpMoves
<1>4. CASE /\ s.to.tx /\ s.to.rx /\ s.rx # <<>>
           /\ t.rx = Tail(s.rx) /\ t.to.q = Append(s.to.q, Head(s.rx))
  <2> DEFINE q == s.to.q
             x == s.rx
  <2>1. q \in Seq(Nat) /\ x \in Seq(Nat) /\ x # <<>> /\ r = x
    BY <1>1, <1>4, SocketFields
  <2> HIDE DEF q, x
  <2>2. /\ Head(x) \in Nat /\ Tail(x) \in Seq(Nat) /\ u \o q \in Seq(Nat)
        /\ Append(u \o q, Head(x)) \o Tail(x) = (u \o q) \o x
    BY <2>1, Joins, Moved, Zenon
  <2>3. u \o Append(q, Head(x)) = Append(u \o q, Head(x))
    BY SMTT(30), <2>1, <2>2, Appends
  <2>4. (u \o t.to.q) \o t.rx = Count(n) /\ t.rx \in Seq(Nat)
    BY <1>1, <1>4, <2>1, <2>2, <2>3, Zenon DEF q, x
  <2> QED
    BY <1>2, <1>4, <2>4, Zenon DEF UpOf, UpMoves
<1> QED
  BY <1>3, <1>4 DEF UpMoves

\* Before its connection is open a socket holds all that was sent.
LEMMA UpFresh ==
  ASSUME NEW s \in SocketType, NEW n \in Nat, NEW u \in Seq(Nat), NEW p,
         UpOf(p, s, n, u), EndsOf(s), s.state \in Fresh
  PROVE  /\ s.rx = Count(n) /\ u = <<>>
         /\ \A t \in SocketType, p1 \in {"backlog", "conn", "orphan"} :
              t.rx = s.rx /\ t.to.q = <<>> => UpOf(p1, t, n, u)
<1>1. s.rx \in Seq(Nat) /\ s.to.q = <<>> /\ u = <<>>
  BY SocketFields DEF UpOf, EndsOf, NoChannel
<1>2. (u \o s.to.q) \o s.rx = Count(n)
  BY <1>1 DEF UpOf
<1>3. (<<>> \o <<>>) \o s.rx = s.rx
  BY <1>1
<1>4. ASSUME NEW t \in SocketType, NEW p1 \in {"backlog", "conn", "orphan"},
             t.rx = s.rx, t.to.q = <<>>
      PROVE  UpOf(p1, t, n, u)
  BY <1>1, <1>2, <1>4, Zenon DEF UpOf
<1> QED
  BY <1>1, <1>2, <1>3, <1>4, Zenon

\* The guest sends a chunk.
LEMMA UpSent ==
  ASSUME NEW s \in SocketType, NEW t \in SocketType, NEW n \in Nat, NEW u \in Seq(Nat),
         NEW p, UpOf(p, s, n, u), s.tcp # "Closed",
         t.to = s.to, t.state = s.state, t.rx = Append(s.rx, n + 1)
  PROVE  UpOf(p, t, n + 1, u)
<1>1. PICK r \in Seq(Nat) : /\ (u \o s.to.q) \o r = Count(n)
                            /\ (s.to.tx /\ s.to.rx) \/ s.state \in Fresh => r = s.rx
  BY DEF UpOf
<1>2. s.to.q \in Seq(Nat) /\ u \o s.to.q \in Seq(Nat)
  BY SMTT(30), SocketFields, Joins
<1>3. /\ Append(r, n + 1) \in Seq(Nat)
      /\ (u \o s.to.q) \o Append(r, n + 1) = Append((u \o s.to.q) \o r, n + 1)
  <2> DEFINE a == u \o s.to.q
  <2>1. a \in Seq(Nat) /\ n + 1 \in Nat
    BY <1>2
  <2> HIDE DEF a
  <2>2. Append(r, n + 1) \in Seq(Nat) /\ a \o Append(r, n + 1) = Append(a \o r, n + 1)
    BY SMTT(30), <2>1, Appends
  <2> QED
    BY <2>2 DEF a
<1>4. (u \o t.to.q) \o Append(r, n + 1) = Count(n + 1)
  <2>1. t.to.q = s.to.q
    OBVIOUS
  <2>2. Count(n + 1) = Append(Count(n), n + 1)
    BY Counts
  <2> QED
    BY <1>1, <1>3, <2>1, <2>2, Zenon
<1>5. (t.to.tx /\ t.to.rx) \/ t.state \in Fresh => Append(r, n + 1) = t.rx
  BY <1>1
<1>6. /\ ~t.to.rx => t.to.q = <<>>
      /\ t.state \in Fresh => u = <<>>
      /\ p # "unused"
  BY DEF UpOf
<1> QED
  BY <1>3, <1>4, <1>5, <1>6, Zenon DEF UpOf

\* A thread takes a chunk, or lets go of its receiver.
LEMMA UpTaken ==
  ASSUME NEW s \in SocketType, NEW t \in SocketType, NEW n \in Nat, NEW u \in Seq(Nat), NEW v,
         NEW p, UpOf(p, s, n, u), s.state \notin Fresh,
         t.rx = s.rx, t.state = s.state, t.tcp = s.tcp, t.to.tx = s.to.tx,
         \/ v = u /\ t.to.q = s.to.q /\ t.to.rx = s.to.rx
         \/ v = u /\ t.to.q = <<>> /\ ~t.to.rx
         \/ /\ s.to.q # <<>> /\ t.to.q = Tail(s.to.q) /\ t.to.rx = s.to.rx
            /\ v = Append(u, Head(s.to.q))
  PROVE  UpOf(p, t, n, v)
<1>1. PICK r \in Seq(Nat) : /\ (u \o s.to.q) \o r = Count(n)
                            /\ (s.to.tx /\ s.to.rx) \/ s.state \in Fresh => r = s.rx
  BY DEF UpOf
<1>2. s.to.q \in Seq(Nat)
  BY SocketFields
<1>3. CASE v = u /\ t.to.q = s.to.q /\ t.to.rx = s.to.rx
  BY <1>1, <1>3 DEF UpOf
<1>4. CASE v = u /\ t.to.q = <<>> /\ ~t.to.rx
  <2> DEFINE q == s.to.q
  <2> HIDE DEF q
  <2>1. (u \o q) \o r = u \o (q \o r) /\ q \o r \in Seq(Nat) /\ u \o <<>> = u
    <3>1. q \in Seq(Nat)
      BY <1>2 DEF q
    <3>2. (u \o q) \o r = u \o (q \o r)
      BY <3>1, Regroup, Zenon
    <3>3. q \o r \in Seq(Nat)
      BY <3>1, Joins, Zenon
    <3>4. u \o <<>> = u
      BY Joins, Zenon
    <3> QED
      BY <3>2, <3>3, <3>4
  <2>2. (v \o t.to.q) \o (q \o r) = Count(n)
    BY <1>1, <1>4, <2>1, Zenon DEF q
  <2> QED
    BY <1>4, <2>1, <2>2 DEF UpOf
<1>5. CASE /\ s.to.q # <<>> /\ t.to.q = Tail(s.to.q) /\ t.to.rx = s.to.rx
           /\ v = Append(u, Head(s.to.q))
  <2>1. v \o t.to.q = u \o s.to.q
    BY <1>2, <1>5, Moved, Zenon
  <2>2. s.to.rx
    BY <1>5 DEF UpOf
  <2> QED
    BY <1>1, <1>5, <2>1, <2>2 DEF UpOf
<1> QED
  BY <1>3, <1>4, <1>5

----------------------------------------------------------------------------
(* Upstream to guest *)

\* Owed, for a handle of port o with socket s whose thread put n chunks.
OwedTo(o, s, n) == IF o # "Http" THEN Count(n) ELSE IF s.state \in Fresh THEN <<>> ELSE <<1>>

\* The socket has sent its FIN.
Ended(s) == s.tcp \in {"FinWait", "LastAck"}

\* Not yet in the socket's send buffer.
Behind(s) == Unsent(s) \o s.from.q

\* For a handle whose guest got g: what it got, what the socket sends and a rest
\* are what it is owed. In the table the rest is what pending_send and the
\* channel hold, and behind a FIN there is no rest.
DownOf(p, o, s, n, g) ==
  /\ \E r \in Seq(Nat) : /\ (g \o s.tx) \o r = OwedTo(o, s, n)
                         /\ p = "conn" => r = Behind(s)
                         /\ Ended(s) => r = <<>> /\ ~s.from.tx
  /\ p \in {"unused", "backlog"} \/ s.state = "WaitingForData" => ~Ended(s)
  /\ s.state = "None" => n = 0
  /\ s.state \in Fresh => g = <<>> /\ s.tx = <<>> /\ s.pending = <<>>
  /\ s.state = "WaitingForData" => o = "Http"
  /\ o = "Http" => ~s.from.rx
  /\ s.state \in {"Draining", "Closing"} => ~s.from.tx
  /\ ~s.from.rx => s.from.q = <<>>

LEMMA UnsentSeq ==
  ASSUME NEW s \in SocketType, s.offset <= Len(s.pending)
  PROVE  /\ Unsent(s) \in Seq(Nat) /\ Behind(s) \in Seq(Nat)
         /\ s.offset >= Len(s.pending) => Unsent(s) = <<>>
         /\ s.offset = 0 => Unsent(s) = s.pending
<1> DEFINE x == s.pending
           i == s.offset
           q == s.from.q
<1>1. x \in Seq(Nat) /\ i \in 0 .. Len(x) /\ q \in Seq(Nat)
  BY SocketFields
<1>2. Unsent(s) = SubSeq(x, i + 1, Len(x)) /\ Behind(s) = Unsent(s) \o q
  BY DEF Unsent, Behind
<1> HIDE DEF x, i, q
<1>3. Len(x) \in i .. Len(x) /\ Len(x) \in Nat /\ i \in Nat
  BY <1>1
<1>4. SubSeq(x, i + 1, Len(x)) \in Seq(Nat)
  BY SMTT(30), <1>1, <1>3, Parts
<1>5. i >= Len(x) => SubSeq(x, i + 1, Len(x)) = <<>>
  BY SMTT(30), <1>3, SubSeqEmpty
<1>6. i = 0 => SubSeq(x, i + 1, Len(x)) = x
  BY <1>1, SubSeqFull
<1>7. Behind(s) \in Seq(Nat)
  BY SMTT(30), <1>1, <1>2, <1>4, Joins
<1> QED
  BY <1>2, <1>4, <1>5, <1>6, <1>7 DEF x, i

\* What shuttle_bytes does to a connection that is not waiting for its first
\* byte: it moves bytes towards the guest, and it ends the stream when none is
\* behind.
DownMoves(t, s) ==
  /\ t.tx \o Behind(t) = s.tx \o Behind(s)
  /\ Ended(t) => \/ t.tcp = s.tcp /\ t.tx = s.tx
                 \/ Behind(t) = <<>> /\ ~t.from.tx
  /\ t.from.tx = s.from.tx /\ (t.from.rx => s.from.rx)
  /\ t.state \notin Fresh
  /\ t.state \in {"Draining", "Closing"} => ~t.from.tx
  /\ ~t.from.rx => t.from.q = <<>>

LEMMA DownMoved ==
  ASSUME NEW s \in SocketType, NEW t \in SocketType, NEW n \in Nat, NEW g \in Seq(Nat),
         NEW o, NEW p1 \in {"conn", "reaped"}, DownOf("conn", o, s, n, g), DownMoves(t, s),
         s.state \notin Fresh, s.offset <= Len(s.pending), t.offset <= Len(t.pending)
  PROVE  DownOf(p1, o, t, n, g)
<1> DEFINE a == s.tx
           b == t.tx
           r == Behind(s)
           v == Behind(t)
<1>1. a \in Seq(Nat) /\ b \in Seq(Nat) /\ r \in Seq(Nat) /\ v \in Seq(Nat)
  BY SMTT(30), SocketFields, UnsentSeq
<1>2. /\ (g \o a) \o r = OwedTo(o, s, n)
      /\ Ended(s) => r = <<>> /\ ~s.from.tx
  BY DEF DownOf
<1>3. b \o v = a \o r
  BY DEF DownMoves
<1>4. OwedTo(o, t, n) = OwedTo(o, s, n)
  BY DEF OwedTo, DownMoves
<1>5. Ended(t) => v = <<>> /\ ~t.from.tx
  <2>1. CASE t.tcp = s.tcp /\ t.tx = s.tx
    <3>1. Ended(t) => r = <<>> /\ ~t.from.tx
      BY <1>2, <2>1 DEF Ended, DownMoves
    <3> HIDE DEF a, b, r, v
    <3>2. b = a /\ a \o <<>> = a
      BY SMTT(30), <1>1, <2>1, Joins DEF a, b
    <3>3. a \o v = a => v = <<>>
      BY SMTT(30), <1>1, Joins
    <3>4. r = <<>> => a \o v = a
      BY <1>3, <3>2, Zenon
    <3> QED
      BY <3>1, <3>3, <3>4
  <2> QED
    BY <2>1 DEF DownMoves
<1> HIDE DEF a, b, r, v
<1>6. (g \o b) \o v = (g \o a) \o r
  <2>1. (g \o b) \o v = g \o (b \o v)
    BY <1>1, Regroup, Zenon
  <2>2. (g \o a) \o r = g \o (a \o r)
    BY <1>1, Regroup, Zenon
  <2> QED
    BY <1>3, <2>1, <2>2, Zenon
<1>7. /\ o = "Http" => ~t.from.rx
      /\ t.state \notin Fresh
      /\ t.state \in {"Draining", "Closing"} => ~t.from.tx
      /\ ~t.from.rx => t.from.q = <<>>
  BY DEF DownOf, DownMoves
<1>8. \E w \in Seq(Nat) : /\ (g \o t.tx) \o w = OwedTo(o, t, n)
                          /\ p1 = "conn" => w = Behind(t)
                          /\ Ended(t) => w = <<>> /\ ~t.from.tx
  BY <1>1, <1>2, <1>4, <1>5, <1>6, Zenon DEF b, v
<1> QED
  BY <1>7, <1>8 DEF DownOf, Fresh

\* Steps that move no byte: of the guest's flags, of the loop as it rejects or
\* stops, of a thread that returns.
LEMMA DownKept ==
  ASSUME NEW s, NEW t, NEW n, NEW g, NEW o, NEW p, NEW p1, DownOf(p, o, s, n, g),
         t.tx = s.tx, t.pending = s.pending, t.offset = s.offset, t.state = s.state,
         t.from.tx => s.from.tx,
         \/ p1 = p /\ t.from.q = s.from.q /\ (t.from.rx <=> s.from.rx)
         \/ p1 \in {"orphan", "reaped"} /\ t.from.q = <<>> /\ ~t.from.rx,
         Ended(t) => \/ Ended(s)
                     \/ p1 = "orphan" /\ s.state = "None" /\ ~s.from.tx /\ s.from.q = <<>>
  PROVE  DownOf(p1, o, t, n, g)
<1>1. PICK r \in Seq(Nat) : /\ (g \o s.tx) \o r = OwedTo(o, s, n)
                            /\ p = "conn" => r = Behind(s)
                            /\ Ended(s) => r = <<>> /\ ~s.from.tx
  BY DEF DownOf
<1>2. OwedTo(o, t, n) = OwedTo(o, s, n) /\ (t.from.q = s.from.q => Behind(t) = Behind(s))
  BY DEF OwedTo, Behind, Unsent
<1>3. s.state = "None" => r = <<>>
  <2> SUFFICES ASSUME s.state = "None"
               PROVE  r = <<>>
    OBVIOUS
  <2>1. g = <<>> /\ s.tx = <<>> /\ n = 0
    BY DEF DownOf, Fresh
  <2>2. OwedTo(o, s, n) = <<>>
    BY <2>1, Counts DEF OwedTo, Fresh
  <2>3. (<<>> \o <<>>) \o r = r
    BY SMTT(30), <1>1, Joins
  <2> QED
    BY <1>1, <2>1, <2>2, <2>3, Zenon
<1>4. /\ (g \o t.tx) \o r = OwedTo(o, t, n)
      /\ p1 = "conn" => r = Behind(t)
      /\ Ended(t) => r = <<>> /\ ~t.from.tx
  BY <1>1, <1>2, <1>3
<1>5. p1 \in {"unused", "backlog"} \/ t.state = "WaitingForData" => ~Ended(t)
  BY DEF DownOf
<1>6. /\ t.state = "None" => n = 0
      /\ t.state \in Fresh => g = <<>> /\ t.tx = <<>> /\ t.pending = <<>>
      /\ t.state = "WaitingForData" => o = "Http"
      /\ o = "Http" => ~t.from.rx
      /\ t.state \in {"Draining", "Closing"} => ~t.from.tx
      /\ ~t.from.rx => t.from.q = <<>>
  BY DEF DownOf
<1> QED
  BY <1>4, <1>5, <1>6, Zenon DEF DownOf

\* The guest takes a chunk from the send buffer.
LEMMA DownReceived ==
  ASSUME NEW s \in SocketType, NEW t \in SocketType, NEW n, NEW g \in Seq(Nat), NEW o, NEW p,
         DownOf(p, o, s, n, g), SameBut(t, s, {"tx"}), s.tx # <<>>, t.tx = Tail(s.tx)
  PROVE  DownOf(p, o, t, n, Append(g, Head(s.tx)))
<1>1. PICK r \in Seq(Nat) : /\ (g \o s.tx) \o r = OwedTo(o, s, n)
                            /\ p = "conn" => r = Behind(s)
                            /\ Ended(s) => r = <<>> /\ ~s.from.tx
  BY DEF DownOf
<1>2. /\ t.pending = s.pending /\ t.offset = s.offset /\ t.state = s.state /\ t.from = s.from
      /\ t.tcp = s.tcp
  BY DEF SameBut, Fields
<1>3. OwedTo(o, t, n) = OwedTo(o, s, n) /\ Behind(t) = Behind(s) /\ (Ended(t) <=> Ended(s))
  BY <1>2 DEF OwedTo, Behind, Unsent, Ended
<1>4. Append(g, Head(s.tx)) \o t.tx = g \o s.tx
  BY SocketFields, Moved, Zenon
<1>5. t.state \notin Fresh
  BY <1>2 DEF DownOf
<1>6. \E w \in Seq(Nat) : /\ (Append(g, Head(s.tx)) \o t.tx) \o w = OwedTo(o, t, n)
                          /\ p = "conn" => w = Behind(t)
                          /\ Ended(t) => w = <<>> /\ ~t.from.tx
  BY <1>1, <1>2, <1>3, <1>4
<1> QED
  BY <1>2, <1>3, <1>5, <1>6 DEF DownOf, Fresh

\* A thread puts a chunk into its channel.
LEMMA DownPut ==
  ASSUME NEW s \in SocketType, NEW t \in SocketType, NEW n \in Nat, NEW g \in Seq(Nat), NEW o,
         DownOf("conn", o, s, n, g), s.offset <= Len(s.pending), s.state \notin Fresh,
         s.from.rx, s.from.tx, t.from.rx = s.from.rx,
         t.from.q = Append(s.from.q, n + 1),
         t.tx = s.tx, t.pending = s.pending, t.offset = s.offset, t.state = s.state,
         t.tcp = s.tcp
  PROVE  DownOf("conn", o, t, n + 1, g)
<1> DEFINE a == g \o s.tx
           x == Unsent(s)
           q == s.from.q
           r == Behind(s)
<1>1. /\ a \in Seq(Nat) /\ x \in Seq(Nat) /\ q \in Seq(Nat) /\ r \in Seq(Nat)
      /\ r = x \o q
  BY SMTT(30), SocketFields, UnsentSeq, Joins DEF Behind
<1>2. o # "Http" /\ ~Ended(s) /\ a \o r = OwedTo(o, s, n)
  BY DEF DownOf
<1>3. OwedTo(o, s, n) = Count(n) /\ OwedTo(o, t, n + 1) = Append(Count(n), n + 1)
  BY <1>2, Counts DEF OwedTo
<1>4. Unsent(t) = x /\ ~Ended(t) /\ g \o t.tx = a
  BY <1>2 DEF Unsent, Ended
<1>5. Behind(t) = x \o Append(q, n + 1)
  BY <1>4 DEF Behind
<1> HIDE DEF a, x, q, r
<1>6. n + 1 \in Nat
  OBVIOUS
<1>7. x \o Append(q, n + 1) = Append(r, n + 1) /\ Append(r, n + 1) \in Seq(Nat)
  <2>1. x \o Append(q, n + 1) = Append(x \o q, n + 1)
    BY SMTT(30), <1>1, <1>6, Appends
  <2>2. Append(r, n + 1) \in Seq(Nat)
    BY SMTT(30), <1>1, <1>6, AppendProperties
  <2> QED
    BY <1>1, <2>1, <2>2, Zenon
<1>8. a \o Append(r, n + 1) = Append(a \o r, n + 1)
  BY SMTT(30), <1>1, <1>6, Appends
<1>9. (g \o t.tx) \o Behind(t) = OwedTo(o, t, n + 1) /\ Behind(t) \in Seq(Nat)
  BY <1>2, <1>3, <1>4, <1>5, <1>7, <1>8, Zenon
<1> QED
  BY <1>2, <1>4, <1>9 DEF DownOf, Fresh

----------------------------------------------------------------------------
(* shuttle_bytes *)

\* More behind what is left of a buffer.
LEMMA Extended ==
  ASSUME NEW p \in Seq(Nat), NEW q \in Seq(Nat), NEW i \in 0 .. Len(p)
  PROVE  SubSeq(p \o q, i + 1, Len(p \o q)) = SubSeq(p, i + 1, Len(p)) \o q
<1> DEFINE x == SubSeq(p \o q, i + 1, Len(p \o q))
           y == SubSeq(p, i + 1, Len(p))
<1>1. /\ p \o q \in Seq(Nat) /\ Len(p \o q) = Len(p) + Len(q)
      /\ Len(p) \in Nat /\ Len(q) \in Nat
  BY SMTT(30), Joins, LenProperties
<1>2. i \in 0 .. Len(p \o q) /\ Len(p \o q) \in i .. Len(p \o q) /\ Len(p) \in i .. Len(p)
  BY <1>1
<1>3. x \in Seq(Nat) /\ Len(x) = Len(p \o q) - i /\ y \in Seq(Nat) /\ Len(y) = Len(p) - i
  BY SMTT(30), <1>1, <1>2, Parts
<1>4. y \o q \in Seq(Nat) /\ Len(y \o q) = Len(x)
  BY SMTT(30), <1>1, <1>3, Joins
<1>5. ASSUME NEW k \in 1 .. Len(x)
      PROVE  x[k] = (y \o q)[k]
  <2>1. x[k] = (p \o q)[i + k]
    BY <1>1, <1>3, <1>5
  <2>2. k <= Len(y) => y[k] = p[i + k]
    BY <1>1, <1>3
  <2> HIDE DEF x, y
  <2>3. /\ Len(x) = Len(p) + Len(q) - i /\ Len(y) = Len(p) - i
        /\ i \in Nat /\ k \in Nat /\ 1 <= k /\ k <= Len(p) + Len(q) - i
    <3>1. Len(x) = Len(p) + Len(q) - i /\ Len(y) = Len(p) - i /\ i \in Nat
      BY <1>1, <1>3
    <3> QED
      BY <1>1, <1>5, <3>1
  <2>4. (p \o q)[i + k] = IF i + k <= Len(p) THEN p[i + k] ELSE q[i + k - Len(p)]
    <3>1. i + k \in 1 .. Len(p) + Len(q)
      BY <1>1, <2>3
    <3> QED
      BY SMTT(30), <3>1, ConcatProperties
  <2>5. (y \o q)[k] = IF k <= Len(y) THEN y[k] ELSE q[k - Len(y)]
    <3>1. k \in 1 .. Len(y) + Len(q)
      BY <1>1, <2>3
    <3> QED
      BY <1>3, <3>1, ConcatProperties, Zenon
  <2>6. k - Len(y) = i + k - Len(p) /\ (k <= Len(y) <=> i + k <= Len(p))
    BY <1>1, <2>3
  <2> QED
    BY <2>1, <2>2, <2>4, <2>5, <2>6
<1> HIDE DEF x, y
<1>6. x = y \o q
  BY <1>3, <1>4, <1>5, SeqEqual, Zenon
<1> QED
  BY <1>6 DEF x, y

LEMMA PullGuestMoves ==
  ASSUME NEW s \in SocketType, s.state = "Shuttling"
  PROVE  UpMoves(PullGuest(s), s)
<1>1. CASE s.rx = <<>>
  BY <1>1 DEF PullGuest, UpMoves, Fresh
<1>2. CASE s.rx # <<>>
  <2> DEFINE to == IF ~s.to.tx THEN s.to
                   ELSE IF s.to.rx THEN Put(s.to, Head(s.rx)) ELSE DropTx(s.to)
             rx == Tail(s.rx)
             t == PullGuest(s)
  <2>1. t = [s EXCEPT !.rx = rx, !.to = to]
    BY <1>2 DEF PullGuest
  <2>2. s.to \in ChannelType /\ Head(s.rx) \in Nat
    BY SMTT(30), <1>2, SocketFields, Moved
  <2>3. /\ to.rx = s.to.rx
        /\ \/ to.q = s.to.q /\ ~(to.tx /\ to.rx)
           \/ s.to.tx /\ s.to.rx /\ to.q = Append(s.to.q, Head(s.rx))
    <3>1. CASE ~s.to.tx
      BY <3>1
    <3>2. CASE s.to.tx /\ s.to.rx
      <4>1. to = Put(s.to, Head(s.rx))
        BY <3>2
      <4>2. /\ Put(s.to, Head(s.rx)).rx = s.to.rx
            /\ Put(s.to, Head(s.rx)).q = Append(s.to.q, Head(s.rx))
        BY <2>2, ChannelOps
      <4> QED
        BY <3>2, <4>1, <4>2, Zenon
    <3>3. CASE s.to.tx /\ ~s.to.rx
      <4>1. to = DropTx(s.to)
        BY <3>3
      <4> QED
        BY <2>2, <3>3, <4>1, ChannelOps, Zenon
    <3> QED
      BY <3>1, <3>2, <3>3
  <2> HIDE DEF to, rx
  <2>4. t.rx = rx /\ t.to = to /\ t.state = s.state
    BY <2>1 DEF SocketType
  <2> QED
    BY <1>2, <2>3, <2>4 DEF UpMoves, Fresh, rx
<1> QED
  BY <1>1, <1>2

\* The upstream side of a socket that is treated further.
LEMMA UpAgain ==
  ASSUME NEW s, NEW t, NEW v, UpMoves(t, s), v.rx = t.rx, v.state \notin Fresh,
         v.to.q = t.to.q, v.to.rx = t.to.rx, v.to.tx => t.to.tx
  PROVE  UpMoves(v, s)
BY DEF UpMoves

\* PullThread moves bytes from the channel to pending_send.
LEMMA PullThreadMoves ==
  ASSUME NEW s \in SocketType, s.offset <= Len(s.pending), ~s.from.rx => s.from.q = <<>>
  PROVE  LET t == PullThread(s)
         IN  /\ Behind(t) = Behind(s) /\ t.offset <= Len(t.pending) /\ t.from.q = <<>>
             /\ t.tcp = s.tcp \/ Behind(t) = <<>>
<1> DEFINE t == PullThread(s)
           x == s.pending
           q == s.from.q
           i == s.offset
<1>1. /\ t \in SocketType /\ t.offset = s.offset
      /\ ~s.from.rx => t = s
      /\ s.from.rx => t.pending = s.pending \o s.from.q /\ t.from.q = <<>>
      /\ t.tcp = s.tcp \/ t.pending = <<>>
  BY PullThreadDoes, Zenon
<1>2. x \in Seq(Nat) /\ q \in Seq(Nat) /\ i \in 0 .. Len(x)
  BY SocketFields
<1> HIDE DEF t
<1>3. CASE ~s.from.rx
  BY <1>1, <1>3 DEF t
<1>4. CASE s.from.rx
  <2>1. Behind(s) = SubSeq(x, i + 1, Len(x)) \o q
    BY DEF Behind, Unsent
  <2>2. t.pending = x \o q /\ t.offset = i /\ t.from.q = <<>>
    BY <1>1, <1>4
  <2>3. Behind(t) = SubSeq(x \o q, i + 1, Len(x \o q)) \o <<>>
    BY <2>2, Zenon DEF Behind, Unsent
  <2> HIDE DEF x, q, i
  <2>4. /\ x \o q \in Seq(Nat) /\ Len(x \o q) = Len(x) + Len(q)
        /\ Len(x) \in Nat /\ Len(q) \in Nat /\ i \in Nat /\ i <= Len(x)
    BY SMTT(30), <1>2, Joins, LenProperties
  <2>5. t.offset <= Len(t.pending)
    BY <2>2, <2>4
  <2>6. Unsent(t) \in Seq(Nat)
    BY SMTT(30), <1>1, <2>5, UnsentSeq
  <2>7. Unsent(t) = SubSeq(x \o q, i + 1, Len(x \o q))
    BY <2>2, Zenon DEF Unsent
  <2>8. Behind(t) = Behind(s)
    BY <1>2, <2>1, <2>3, <2>6, <2>7, Extended, ConcatEmptySeq, Zenon
  <2>9. t.pending = <<>> => Behind(t) = <<>>
    <3>1. t.pending = <<>> => t.offset >= Len(t.pending)
      BY <2>2, <2>4, EmptySeq
    <3>2. t.offset >= Len(t.pending) => Unsent(t) = <<>>
      BY SMTT(30), <1>1, <2>5, UnsentSeq
    <3>3. <<>> \o <<>> = <<>>
      BY EmptySeq, ConcatEmptySeq
    <3> QED
      BY <2>2, <3>1, <3>2, <3>3, Zenon DEF Behind
  <2> QED
    BY <1>1, <2>2, <2>5, <2>8, <2>9 DEF t
<1> QED
  BY <1>3, <1>4

\* DrainToSocket moves bytes from pending_send to the socket.
LEMMA DrainMoves ==
  ASSUME NEW s \in SocketType, s.offset <= Len(s.pending), Len(s.tx) <= TxCap
  PROVE  LET t == DrainToSocket(s)
         IN  /\ t.tx \o Behind(t) = s.tx \o Behind(s)
             /\ Ended(s) => t.tx = s.tx
             /\ t \in SocketType /\ t.offset <= Len(t.pending)
             /\ SameBut(t, s, {"tx", "pending", "offset"})
<1> DEFINE t == DrainToSocket(s)
           a == s.tx
           b == t.tx
           x == Unsent(s)
           y == Unsent(t)
           q == s.from.q
<1>1. /\ t \in SocketType /\ t.offset <= Len(t.pending)
      /\ SameBut(t, s, {"tx", "pending", "offset"})
      /\ ~MaySend(s) => t.tx = s.tx
      /\ b \o y = a \o x
  BY DrainDoes
<1> HIDE DEF t
<1>2. /\ a \in Seq(Nat) /\ b \in Seq(Nat) /\ x \in Seq(Nat) /\ y \in Seq(Nat)
      /\ q \in Seq(Nat) /\ t.from.q = q
  BY SMTT(30), <1>1, SocketFields, UnsentSeq DEF SameBut, Fields
<1>3. Behind(s) = x \o q /\ Behind(t) = y \o q
  BY <1>2 DEF Behind
<1>4. Ended(s) => ~MaySend(s)
  BY DEF Ended, MaySend
<1> HIDE DEF a, b, x, y, q
<1>5. (b \o y) \o q = b \o (y \o q)
  BY <1>2, Regroup, Zenon
<1>6. (a \o x) \o q = a \o (x \o q)
  BY <1>2, Regroup, Zenon
<1>7. b \o Behind(t) = a \o Behind(s)
  BY <1>1, <1>3, <1>5, <1>6, Zenon
<1> QED
  BY <1>1, <1>4, <1>7, Zenon DEF a, b, t

\* A connection as the loop finds it.
Sound(s) ==
  /\ WithinCaps(s) /\ EndsOf(s)
  /\ ~s.from.rx => s.from.q = <<>>
  /\ s.state \in {"Draining", "Closing"} => ~s.from.tx

LEMMA PumpMoves ==
  ASSUME NEW s \in SocketType, Sound(s), s.state = "Shuttling"
  PROVE  LET b == DrainToSocket(PullThread(PullGuest(s)))
         IN  UpMoves(b, s) /\ DownMoves(b, s) /\ b.from.q = <<>>
<1> DEFINE g == PullGuest(s)
           p == PullThread(g)
           b == DrainToSocket(p)
<1>1. g \in SocketType /\ WithinCaps(g) /\ SameBut(g, s, {"rx", "to"})
  BY PullGuestDoes DEF Sound
<1>2. UpMoves(g, s)
  BY PullGuestMoves
<1>3. /\ g.tx = s.tx /\ g.from = s.from /\ g.tcp = s.tcp /\ g.state = "Shuttling"
      /\ g.pending = s.pending /\ g.offset = s.offset
  BY <1>1 DEF SameBut, Fields
<1> HIDE DEF g
<1>4. /\ p \in SocketType /\ p.rx = g.rx /\ p.tx = g.tx
      /\ p.to = g.to \/ p.to = DropTx(g.to)
      /\ p.from.tx = g.from.tx /\ (p.from.rx => g.from.rx)
      /\ p.state = g.state \/ (p.state \in {"Draining", "Closing"} /\ ~p.from.tx)
      /\ p.tcp = g.tcp \/ ~p.from.tx
  <2>1. /\ p \in SocketType /\ p.rx = g.rx /\ p.tx = g.tx
        /\ ~g.from.rx => p = g
        /\ g.from.rx => p.from.tx = g.from.tx
        /\ g.from.rx /\ g.from.tx => p.tcp = g.tcp /\ p.state = g.state /\ p.to = g.to
        /\ g.from.rx /\ ~g.from.tx => /\ p.to = DropTx(g.to) /\ ~p.from.rx
                                      /\ p.state \in {"Draining", "Closing"}
    BY <1>1, PullThreadDoes, Zenon
  <2>2. CASE ~g.from.rx
    BY <2>1, <2>2
  <2>3. CASE g.from.rx
    BY <2>1, <2>3
  <2> QED
    BY <2>2, <2>3
<1>5. /\ Behind(p) = Behind(g) /\ p.offset <= Len(p.pending) /\ p.from.q = <<>>
      /\ p.tcp = g.tcp \/ Behind(p) = <<>>
  BY <1>1, <1>3, PullThreadMoves DEF Sound, WithinCaps
<1>6. Behind(g) = Behind(s)
  BY <1>3 DEF Behind, Unsent
<1> HIDE DEF p
<1>7. /\ b.tx \o Behind(b) = p.tx \o Behind(p)
      /\ Ended(p) => b.tx = p.tx
      /\ b \in SocketType /\ b.offset <= Len(b.pending)
      /\ SameBut(b, p, {"tx", "pending", "offset"})
  BY <1>1, <1>4, <1>5, DrainMoves DEF WithinCaps
<1> HIDE DEF b
<1>8. b.rx = p.rx /\ b.to = p.to /\ b.from = p.from /\ b.tcp = p.tcp /\ b.state = p.state
  BY <1>7 DEF SameBut, Fields
<1>9. UpMoves(b, s)
  <2>1. /\ DropTx(g.to).q = g.to.q /\ DropTx(g.to).rx = g.to.rx /\ ~DropTx(g.to).tx
    BY <1>1, SocketFields, ChannelOps
  <2>2. b.to.q = g.to.q /\ b.to.rx = g.to.rx /\ (b.to.tx => g.to.tx)
    BY <1>4, <1>8, <2>1
  <2>3. b.rx = g.rx /\ b.state \notin Fresh
    BY <1>3, <1>4, <1>8 DEF Fresh
  <2> QED
    BY <1>2, <2>2, <2>3, UpAgain
<1>10. ASSUME Ended(b)
       PROVE  \/ b.tcp = s.tcp /\ b.tx = s.tx
              \/ Behind(b) = <<>> /\ ~b.from.tx
  <2>1. b.tx = p.tx
    BY <1>7, <1>8, <1>10 DEF Ended
  <2>2. CASE p.tcp = g.tcp
    BY <1>3, <1>4, <1>8, <2>1, <2>2
  <2>3. CASE p.tcp # g.tcp
    <3>1. p.tx \in Seq(Nat) /\ Behind(b) \in Seq(Nat)
      BY SMTT(30), <1>4, <1>7, SocketFields, UnsentSeq
    <3>2. p.tx \o Behind(b) = p.tx \o <<>>
      BY <1>5, <1>7, <2>1, <2>3, Zenon
    <3>3. Behind(b) = <<>>
      BY SMTT(30), <3>1, <3>2, NothingBehind
    <3> QED
      BY <1>4, <1>8, <2>3, <3>3
  <2> QED
    BY <2>2, <2>3
<1>11. DownMoves(b, s)
  <2>1. b.tx \o Behind(b) = s.tx \o Behind(s)
    BY <1>3, <1>4, <1>5, <1>6, <1>7, Zenon
  <2>2. b.from.tx = s.from.tx /\ (b.from.rx => s.from.rx)
    BY <1>3, <1>4, <1>8
  <2>3. b.state \notin Fresh /\ (b.state \in {"Draining", "Closing"} => ~b.from.tx)
    BY <1>3, <1>4, <1>8 DEF Fresh
  <2> QED
    BY <1>5, <1>8, <1>10, <2>1, <2>2, <2>3 DEF DownMoves
<1> QED
  BY <1>5, <1>8, <1>9, <1>11 DEF b, p, g

LEMMA ShuttlingMoves ==
  ASSUME NEW s \in SocketType, Sound(s), s.state = "Shuttling"
  PROVE  UpMoves(Shuttling(s), s) /\ DownMoves(Shuttling(s), s)
<1> DEFINE b == DrainToSocket(PullThread(PullGuest(s)))
           to == DropTx(b.to)
           from == DropRx(b.from)
           t == [b EXCEPT !.to = to, !.from = from, !.state = "Done"]
<1>1. UpMoves(b, s) /\ DownMoves(b, s) /\ b.from.q = <<>>
  BY PumpMoves
<1>2. b \in SocketType
  BY PumpDoes DEF Sound, Kept
<1>3. Shuttling(s) = IF ~IsActive(b) /\ ~MayRecv(b) THEN t ELSE b
  BY DEF Shuttling
<1> HIDE DEF b
<1>4. /\ to.q = b.to.q /\ to.rx = b.to.rx /\ ~to.tx
      /\ from.q = <<>> /\ ~from.rx /\ from.tx = b.from.tx
  BY <1>2, SocketFields, ChannelOps
<1> HIDE DEF to, from
<1>5. /\ t.to = to /\ t.from = from /\ t.state = "Done" /\ t.rx = b.rx /\ t.tx = b.tx
      /\ t.pending = b.pending /\ t.offset = b.offset /\ t.tcp = b.tcp
  BY <1>2 DEF SocketType
<1> HIDE DEF t
<1>6. UpMoves(t, s)
  BY <1>1, <1>4, <1>5, UpAgain DEF Fresh
<1>7. Behind(t) = Behind(b)
  BY <1>1, <1>4, <1>5 DEF Behind, Unsent
<1>8. DownMoves(t, s)
  BY <1>1, <1>4, <1>5, <1>7 DEF DownMoves, Ended, Fresh
<1> QED
  BY <1>1, <1>3, <1>6, <1>8

LEMMA DrainingMoves ==
  ASSUME NEW s \in SocketType, Sound(s), s.state = "Draining"
  PROVE  UpMoves(Draining(s), s) /\ DownMoves(Draining(s), s)
<1> DEFINE b == DrainToSocket(s)
           t == [Close(b) EXCEPT !.state = "Closing"]
<1>1. /\ b.tx \o Behind(b) = s.tx \o Behind(s)
      /\ Ended(s) => b.tx = s.tx
      /\ b \in SocketType /\ b.offset <= Len(b.pending)
      /\ SameBut(b, s, {"tx", "pending", "offset"})
  BY DrainMoves DEF Sound, WithinCaps
<1>2. Draining(s) = IF b.offset >= Len(b.pending) THEN t ELSE b
  BY DEF Draining
<1> HIDE DEF b
<1>3. b.rx = s.rx /\ b.to = s.to /\ b.from = s.from /\ b.tcp = s.tcp /\ b.state = s.state
  BY <1>1 DEF SameBut, Fields
<1>4. ~s.to.tx /\ ~s.from.rx /\ ~s.from.tx /\ s.from.q = <<>>
  BY DEF Sound, EndsOf, Over
<1>5. UpMoves(b, s) /\ DownMoves(b, s)
  BY <1>1, <1>3, <1>4 DEF UpMoves, DownMoves, Ended, Fresh
<1>6. CASE b.offset >= Len(b.pending)
  <2>1. Close(b) \in SocketType /\ SameBut(Close(b), b, {"tcp"})
    BY <1>1, CloseType
  <2>2. /\ t.state = "Closing" /\ t.rx = b.rx /\ t.tx = b.tx /\ t.pending = b.pending
        /\ t.offset = b.offset /\ t.to = b.to /\ t.from = b.from
    BY <2>1, SetState DEF SameBut, Fields
  <2> HIDE DEF t
  <2>3. Unsent(b) = <<>> /\ Behind(t) = Behind(b) /\ Behind(b) = Unsent(b) \o <<>>
    BY <1>1, <1>3, <1>4, <1>6, <2>2, UnsentSeq, Zenon DEF Behind, Unsent
  <2>4. Behind(t) = <<>>
    BY <2>3
  <2>5. UpMoves(t, s) /\ DownMoves(t, s)
    BY <1>1, <1>3, <1>4, <2>2, <2>3, <2>4 DEF UpMoves, DownMoves, Fresh
  <2> QED
    BY <1>2, <1>6, <2>5
<1> QED
  BY <1>2, <1>5, <1>6

LEMMA ClosingMoves ==
  ASSUME NEW s \in SocketType, Sound(s), s.state = "Closing"
  PROVE  UpMoves(Closing(s), s) /\ DownMoves(Closing(s), s)
<1> DEFINE t == [s EXCEPT !.state = "Done"]
<1>1. t.state = "Done" /\ SameBut(t, s, {"state"})
  BY SetState
<1>2. Closing(s) = t \/ Closing(s) = s
  BY DEF Closing
<1> HIDE DEF t
<1>3. /\ t.rx = s.rx /\ t.to = s.to /\ t.tx = s.tx /\ t.from = s.from /\ t.tcp = s.tcp
      /\ Behind(t) = Behind(s)
  BY <1>1 DEF SameBut, Fields, Behind, Unsent
<1>4. UpMoves(t, s) /\ DownMoves(t, s)
  BY <1>1, <1>3 DEF UpMoves, DownMoves, Sound, Fresh
<1>5. UpMoves(s, s) /\ DownMoves(s, s)
  BY DEF UpMoves, DownMoves, Sound, Fresh
<1> QED
  BY <1>2, <1>4, <1>5

\* The one chunk of the response to a request on port 80.
Response == <<1>>

\* The guest's first chunk on port 80 is dropped, and the response is owed.
LEMMA WaitingMoves ==
  ASSUME NEW s \in SocketType, Sound(s), s.state = "WaitingForData", s.rx # <<>>
  PROVE  LET t == WaitingForData(s)
         IN  /\ UpMoves(t, s) /\ t \in SocketType /\ t.state = "Draining"
             /\ t.tx = s.tx /\ t.tcp = s.tcp /\ t.from = NoChannel /\ Unsent(t) = Response
<1> DEFINE t == WaitingForData(s)
<1>1. t = [s EXCEPT !.rx = Tail(s.rx), !.pending = <<1>>, !.offset = 0, !.state = "Draining"]
  BY DEF WaitingForData
<1>2. t \in SocketType
  BY WaitingDoes DEF Sound, Kept
<1>3. /\ t.pending = <<1>> /\ t.offset = 0 /\ t.state = "Draining" /\ t.tx = s.tx
      /\ t.tcp = s.tcp /\ t.to = s.to /\ t.from = s.from
  BY <1>1 DEF SocketType
<1> HIDE DEF t
<1>4. s.to = NoChannel /\ s.from = NoChannel
  BY DEF Sound, EndsOf, Fresh
<1>5. Unsent(t) = Response
  <2>1. t.offset <= Len(t.pending)
    BY <1>3
  <2> QED
    BY <1>2, <1>3, <2>1, UnsentSeq, Zenon DEF Response
<1>6. UpMoves(t, s)
  BY <1>3, <1>4 DEF UpMoves, Fresh, NoChannel
<1> QED
  BY <1>2, <1>3, <1>4, <1>5, <1>6 DEF t

LEMMA ResponseOwed ==
  ASSUME NEW s, NEW t, NEW n, NEW g, NEW o, NEW p1, DownOf("conn", o, s, n, g),
         s.state = "WaitingForData", t.state = "Draining", t.tx = s.tx, t.tcp = s.tcp,
         t.from = NoChannel, Unsent(t) = Response, p1 \in {"conn", "reaped"}
  PROVE  DownOf(p1, o, t, n, g)
<1>1. o = "Http" /\ g = <<>> /\ t.tx = <<>> /\ ~Ended(t)
  BY DEF DownOf, Fresh, Ended
<1>2. t.from.q = <<>> /\ ~t.from.tx /\ ~t.from.rx
  BY DEF NoChannel
<1>3. OwedTo(o, t, n) = <<1>>
  BY <1>1 DEF OwedTo, Fresh
<1>4. <<1>> \in Seq(Nat) /\ (<<>> \o <<>>) \o <<1>> = <<1>> /\ <<1>> \o <<>> = <<1>>
  OBVIOUS
<1>5. Behind(t) = <<1>>
  BY <1>2, <1>4 DEF Behind, Response
<1>6. (g \o t.tx) \o <<1>> = OwedTo(o, t, n)
  BY <1>1, <1>3, <1>4, Zenon
<1>7. \E w \in Seq(Nat) : /\ (g \o t.tx) \o w = OwedTo(o, t, n)
                          /\ p1 = "conn" => w = Behind(t)
                          /\ Ended(t) => w = <<>> /\ ~t.from.tx
  BY <1>1, <1>4, <1>5, <1>6, Zenon
<1> QED
  BY <1>1, <1>2, <1>7 DEF DownOf, Fresh

\* A connection in the table, after a call of shuttle_bytes and reap_done.
LEMMA ShuttleKeepsBytes ==
  ASSUME NEW s \in SocketType, WithinCaps(s), EndsOf(s),
         NEW n \in Nat, NEW m \in Nat, NEW u \in Seq(Nat), NEW g \in Seq(Nat), NEW o,
         UpOf("conn", s, n, u), DownOf("conn", o, s, m, g)
  PROVE  LET t == ShuttleBytes(s)
             p1 == IF t.state = "Done" THEN "reaped" ELSE "conn"
         IN  UpOf(p1, t, n, u) /\ DownOf(p1, o, t, m, g)
<1> DEFINE t == ShuttleBytes(s)
           p1 == IF t.state = "Done" THEN "reaped" ELSE "conn"
<1>1. Sound(s)
  BY DEF Sound, DownOf
<1>2. p1 \in {"conn", "reaped"} /\ p1 # "unused"
  OBVIOUS
<1>3. t \in SocketType /\ t.offset <= Len(t.pending)
  BY ShuttleBytesDoes DEF Kept, WithinCaps
<1>4. CASE s.state \in {"Shuttling", "Draining", "Closing"}
  <2>1. UpMoves(t, s) /\ DownMoves(t, s)
    BY <1>1, <1>4, ShuttlingMoves, DrainingMoves, ClosingMoves DEF ShuttleBytes
  <2> HIDE DEF t, p1
  <2>2. UpOf(p1, t, n, u)
    BY <1>2, <1>3, <2>1, UpMoved
  <2>3. s.state \notin Fresh /\ s.offset <= Len(s.pending)
    BY <1>4 DEF Fresh, WithinCaps
  <2>4. DownOf(p1, o, t, m, g)
    BY <1>2, <1>3, <2>1, <2>3, DownMoved
  <2> QED
    BY <2>2, <2>4 DEF t, p1
<1>5. CASE s.state = "WaitingForData" /\ s.rx # <<>>
  <2>1. t = WaitingForData(s)
    BY <1>5 DEF ShuttleBytes
  <2> HIDE DEF t, p1
  <2>2. /\ UpMoves(t, s) /\ t.state = "Draining"
        /\ t.tx = s.tx /\ t.tcp = s.tcp /\ t.from = NoChannel /\ Unsent(t) = Response
    BY <1>1, <1>5, <2>1, WaitingMoves, Zenon
  <2>3. UpOf(p1, t, n, u)
    BY <1>2, <1>3, <2>2, UpMoved
  <2>4. DownOf(p1, o, t, m, g)
    BY <1>2, <1>5, <2>2, ResponseOwed
  <2> QED
    BY <2>3, <2>4 DEF t, p1
<1>6. CASE \/ s.state = "WaitingForData" /\ s.rx = <<>>
           \/ s.state \in {"None", "Done"}
  <2>1. t = s
    BY <1>6 DEF ShuttleBytes, WaitingForData
  <2>2. UpOf(p1, s, n, u)
    BY <1>2 DEF UpOf
  <2>3. p1 = "conn" \/ (p1 = "reaped" /\ s.from.q = <<>> /\ ~s.from.rx)
    BY <1>1, <2>1 DEF Sound, EndsOf, Over
  <2>4. DownOf(p1, o, s, m, g)
    BY <2>3, DownKept
  <2> QED
    BY <2>1, <2>2, <2>4
<1> QED
  BY <1>4, <1>5, <1>6 DEF SocketType

----------------------------------------------------------------------------
(* The invariant of the bytes, and the steps of the guest and the threads *)

UpInv(h)   == UpOf(place[h], c[h], gsent[h], up[h])
DownInv(h) == DownOf(place[h], port[h], c[h], dsent[h], got[h])

BytesInv == LoopInv /\ \A h \in Handle : UpInv(h) /\ DownInv(h)

LEMMA Typed ==
  ASSUME LoopInv, NEW h \in Handle
  PROVE  /\ c[h] \in SocketType /\ WithinCaps(c[h]) /\ EndsOf(c[h])
         /\ gsent[h] \in Nat /\ dsent[h] \in Nat /\ up[h] \in Seq(Nat) /\ got[h] \in Seq(Nat)
         /\ c[h].offset <= Len(c[h].pending)
BY DEF LoopInv, LoopTypeOK, Chunks, Ends, WithinCaps

LEMMA Untouched ==
  ASSUME BytesInv, NEW h \in Handle, place'[h] = place[h], port'[h] = port[h], c'[h] = c[h],
         gsent'[h] = gsent[h], up'[h] = up[h], dsent'[h] = dsent[h], got'[h] = got[h]
  PROVE  UpInv(h)' /\ DownInv(h)'
BY DEF BytesInv, UpInv, DownInv

\* A step of a thread.
LEMMA ThreadBytes ==
  ASSUME BytesInv, NEW h \in Handle, NEW x, NEW y, ThreadEffect(h, x, y)
  PROVE  \A k \in Handle : UpInv(k)' /\ DownInv(k)'
<1> DEFINE s == c[h]
           t == c'[h]
<1>1. /\ s \in SocketType /\ gsent[h] \in Nat /\ dsent[h] \in Nat /\ up[h] \in Seq(Nat)
      /\ got[h] \in Seq(Nat) /\ s.offset <= Len(s.pending)
      /\ UpOf(place[h], s, gsent[h], up[h])
      /\ DownOf(place[h], port[h], s, dsent[h], got[h])
  BY Typed DEF BytesInv, UpInv, DownInv
<1>2. /\ place' = place /\ port' = port /\ gsent' = gsent /\ got' = got
      /\ t \in SocketType /\ t.to = x /\ t.from = y
      /\ t.rx = s.rx /\ t.tx = s.tx /\ t.state = s.state /\ t.tcp = s.tcp
      /\ t.pending = s.pending /\ t.offset = s.offset
      /\ \A k \in Handle \ {h} : c'[k] = c[k]
  BY DEF ThreadEffect, ThreadFrame, ChannelsSet, SameBut, Fields, guestVars
<1>3. x.tx = s.to.tx /\ y.rx = s.from.rx /\ (y.tx => s.from.tx) /\ s.state \notin Fresh
  BY DEF ThreadEffect, ThreadFrame, BytesInv, LoopInv, Threads
<1>4. TakesFrom(h, x) /\ PutsInto(h, y)
  BY DEF ThreadEffect
<1>5. \A k \in Handle \ {h} : up'[k] = up[k] /\ dsent'[k] = dsent[k]
  BY <1>4 DEF TakesFrom, PutsInto, BytesInv, LoopInv, LoopTypeOK
<1>6. ASSUME NEW k \in Handle \ {h}
      PROVE  UpInv(k)' /\ DownInv(k)'
  BY <1>2, <1>5, <1>6, Untouched
<1>7. UpInv(h)'
  <2>1. \/ up'[h] = up[h] /\ t.to.q = s.to.q /\ t.to.rx = s.to.rx
        \/ up'[h] = up[h] /\ t.to.q = <<>> /\ ~t.to.rx
        \/ /\ s.to.q # <<>> /\ t.to.q = Tail(s.to.q) /\ t.to.rx = s.to.rx
           /\ up'[h] = Append(up[h], Head(s.to.q))
    BY <1>2, <1>4 DEF TakesFrom, BytesInv, LoopInv, LoopTypeOK
  <2> HIDE DEF s, t
  <2>2. UpOf(place[h], t, gsent[h], up'[h])
    BY <1>1, <1>2, <1>3, <2>1, UpTaken
  <2> QED
    BY <1>2, <2>2 DEF UpInv, t
<1>8. DownInv(h)'
  <2>1. CASE dsent' = dsent /\ y.q = s.from.q
    <3> HIDE DEF s, t
    <3>1. DownOf(place[h], port[h], t, dsent[h], got[h])
      BY <1>1, <1>2, <1>3, <2>1, DownKept DEF Ended
    <3> QED
      BY <1>2, <2>1, <3>1 DEF DownInv, t
  <2>2. CASE /\ s.from.rx /\ s.from.tx /\ y.q = Append(s.from.q, dsent[h] + 1)
             /\ dsent' = [dsent EXCEPT ![h] = dsent[h] + 1]
    <3>1. place[h] = "conn"
      BY <1>1, <1>3, <2>2 DEF BytesInv, LoopInv, Ends, EndsOf, Fresh, LoopTypeOK
    <3>2. dsent'[h] = dsent[h] + 1
      BY <2>2 DEF BytesInv, LoopInv, LoopTypeOK
    <3> HIDE DEF s, t
    <3>3. DownOf("conn", port[h], t, dsent[h] + 1, got[h])
      BY <1>1, <1>2, <1>3, <2>2, <3>1, DownPut
    <3> QED
      BY <1>2, <3>1, <3>2, <3>3 DEF DownInv, t
  <2> QED
    BY <1>4, <2>1, <2>2 DEF PutsInto
<1> QED
  BY <1>6, <1>7, <1>8

\* A flag from the guest: SYN, FIN, RST or the ACK of a FIN.
LEMMA FlagBytes ==
  ASSUME BytesInv, NEW h \in Handle,
         \/ \E ip \in addrs : GuestConnect(h, ip)
         \/ GuestFin(h) \/ GuestReset(h) \/ GuestAckFin(h)
  PROVE  \A k \in Handle : UpInv(k)' /\ DownInv(k)'
<1> DEFINE s == c[h]
           t == c'[h]
<1>1. /\ s \in SocketType /\ gsent[h] \in Nat /\ dsent[h] \in Nat /\ up[h] \in Seq(Nat)
      /\ UpOf(place[h], s, gsent[h], up[h])
      /\ DownOf(place[h], port[h], s, dsent[h], got[h])
  BY Typed DEF BytesInv, UpInv, DownInv
<1>2. /\ GuestTouches(h) /\ SameBut(t, s, {"tcp"}) /\ UNCHANGED guestVars
      /\ s.tcp # "Closed" /\ (Ended(t) => Ended(s))
  <2>1. LoopTypeOK
    BY DEF BytesInv, LoopInv
  <2>2. CASE \E ip \in addrs : GuestConnect(h, ip)
    <3>1. PICK ip \in addrs : GuestConnect(h, ip)
      BY <2>2
    <3>2. /\ GuestTouches(h) /\ SameBut(t, s, {"tcp"}) /\ UNCHANGED guestVars
          /\ s.tcp = "Listen" /\ t.tcp = "Established"
      BY <2>1, <3>1, GuestFlagDoes
    <3> QED
      BY <3>2 DEF Ended
  <2>3. CASE GuestFin(h) \/ GuestReset(h) \/ GuestAckFin(h)
    <3>1. /\ GuestTouches(h) /\ SameBut(t, s, {"tcp"}) /\ UNCHANGED guestVars
          /\ t.tcp \in {"CloseWait", "LastAck", "Closed"}
          /\ t.tcp = "LastAck" => s.tcp = "FinWait"
      BY <2>1, <2>3, GuestFlagDoes
    <3>2. s.tcp # "Closed"
      BY <2>3 DEF GuestFin, GuestReset, GuestAckFin, IsActive
    <3> QED
      BY <3>1, <3>2 DEF Ended
  <2> QED
    BY <2>2, <2>3
<1>3. /\ place' = place /\ port' = port /\ gsent' = gsent /\ got' = got
      /\ up' = up /\ dsent' = dsent
      /\ t.rx = s.rx /\ t.tx = s.tx /\ t.state = s.state /\ t.to = s.to /\ t.from = s.from
      /\ t.pending = s.pending /\ t.offset = s.offset
      /\ \A k \in Handle \ {h} : c'[k] = c[k]
  BY <1>2 DEF GuestTouches, threadVars, guestVars, SameBut, Fields
<1>4. ASSUME NEW k \in Handle \ {h}
      PROVE  UpInv(k)' /\ DownInv(k)'
  BY <1>3, <1>4, Untouched
<1> HIDE DEF s, t
<1>5. UpOf(place[h], t, gsent[h], up[h])
  BY <1>1, <1>2, <1>3 DEF UpOf
<1>6. DownOf(place[h], port[h], t, dsent[h], got[h])
  BY <1>1, <1>2, <1>3, DownKept
<1>7. UpInv(h)' /\ DownInv(h)'
  BY <1>3, <1>5, <1>6 DEF UpInv, DownInv, t
<1> QED
  BY <1>4, <1>7

LEMMA SendBytes ==
  ASSUME BytesInv, NEW h \in Handle, GuestSend(h)
  PROVE  \A k \in Handle : UpInv(k)' /\ DownInv(k)'
<1> DEFINE s == c[h]
           t == c'[h]
<1>1. /\ s \in SocketType /\ gsent[h] \in Nat /\ dsent[h] \in Nat /\ up[h] \in Seq(Nat)
      /\ UpOf(place[h], s, gsent[h], up[h])
      /\ DownOf(place[h], port[h], s, dsent[h], got[h])
  BY Typed DEF BytesInv, UpInv, DownInv
<1>2. /\ GuestTouches(h) /\ SameBut(t, s, {"rx"}) /\ t.rx = Append(s.rx, gsent[h] + 1)
      /\ gsent' = [gsent EXCEPT ![h] = gsent[h] + 1] /\ got' = got /\ s.tcp # "Closed"
  BY GuestSendDoes DEF BytesInv, LoopInv, GuestSend
<1>3. /\ place' = place /\ port' = port /\ up' = up /\ dsent' = dsent
      /\ t \in SocketType /\ t.tx = s.tx /\ t.state = s.state /\ t.to = s.to
      /\ t.from = s.from /\ t.pending = s.pending /\ t.offset = s.offset /\ t.tcp = s.tcp
      /\ \A k \in Handle \ {h} : c'[k] = c[k] /\ gsent'[k] = gsent[k]
      /\ gsent'[h] = gsent[h] + 1
  BY <1>2 DEF GuestTouches, threadVars, SameBut, Fields, BytesInv, LoopInv, LoopTypeOK
<1>4. ASSUME NEW k \in Handle \ {h}
      PROVE  UpInv(k)' /\ DownInv(k)'
  BY <1>2, <1>3, <1>4, Untouched
<1> HIDE DEF s, t
<1>5. UpOf(place[h], t, gsent[h] + 1, up[h])
  BY <1>1, <1>2, <1>3, UpSent
<1>6. DownOf(place[h], port[h], t, dsent[h], got[h])
  BY <1>1, <1>2, <1>3, DownKept DEF Ended
<1>7. UpInv(h)' /\ DownInv(h)'
  BY <1>2, <1>3, <1>5, <1>6 DEF UpInv, DownInv, t
<1> QED
  BY <1>4, <1>7

LEMMA ReceiveBytes ==
  ASSUME BytesInv, NEW h \in Handle, GuestReceive(h)
  PROVE  \A k \in Handle : UpInv(k)' /\ DownInv(k)'
<1> DEFINE s == c[h]
           t == c'[h]
<1>1. /\ s \in SocketType /\ got[h] \in Seq(Nat)
      /\ UpOf(place[h], s, gsent[h], up[h])
      /\ DownOf(place[h], port[h], s, dsent[h], got[h])
  BY Typed DEF BytesInv, UpInv, DownInv
<1>2. /\ GuestTouches(h) /\ SameBut(t, s, {"tx"}) /\ s.tx # <<>> /\ t.tx = Tail(s.tx)
      /\ got' = [got EXCEPT ![h] = Append(got[h], Head(s.tx))] /\ gsent' = gsent
  BY GuestReceiveDoes DEF BytesInv, LoopInv
<1>3. /\ place' = place /\ port' = port /\ up' = up /\ dsent' = dsent
      /\ t \in SocketType /\ t.rx = s.rx /\ t.state = s.state /\ t.to = s.to /\ t.tcp = s.tcp
      /\ \A k \in Handle \ {h} : c'[k] = c[k] /\ got'[k] = got[k]
      /\ got'[h] = Append(got[h], Head(s.tx))
  BY <1>2 DEF GuestTouches, threadVars, SameBut, Fields, BytesInv, LoopInv, LoopTypeOK
<1>4. ASSUME NEW k \in Handle \ {h}
      PROVE  UpInv(k)' /\ DownInv(k)'
  BY <1>2, <1>3, <1>4, Untouched
<1> HIDE DEF s, t
<1>5. UpOf(place[h], t, gsent[h], up[h])
  BY <1>1, <1>3 DEF UpOf
<1>6. DownOf(place[h], port[h], t, dsent[h], Append(got[h], Head(s.tx)))
  BY <1>1, <1>2, <1>3, DownReceived
<1>7. UpInv(h)' /\ DownInv(h)'
  BY <1>2, <1>3, <1>5, <1>6 DEF UpInv, DownInv, t
<1> QED
  BY <1>4, <1>7

----------------------------------------------------------------------------
(* The steps of the loop *)

LEMMA QuietBytes ==
  ASSUME BytesInv, UNCHANGED <<place, port, c, gsent, up, dsent, got>>
  PROVE  \A k \in Handle : UpInv(k)' /\ DownInv(k)'
BY Untouched

LEMMA ShuttleKeeps ==
  ASSUME BytesInv, Shuttle
  PROVE  \A k \in Handle : UpInv(k)' /\ DownInv(k)'
<1>1. /\ port' = port /\ gsent' = gsent /\ up' = up /\ dsent' = dsent /\ got' = got
      /\ \A k \in Handle : IF place[k] = "conn" THEN c'[k] = ShuttleBytes(c[k]) ELSE c'[k] = c[k]
      /\ \A k \in Handle : place'[k] = IF place[k] = "conn" /\ c'[k].state = "Done"
                                       THEN "reaped" ELSE place[k]
  BY DEF Shuttle, threadVars, guestVars, Placed, Conns
<1>2. ASSUME NEW k \in Handle, place[k] # "conn"
      PROVE  UpInv(k)' /\ DownInv(k)'
  BY <1>1, <1>2, Untouched
<1>3. ASSUME NEW k \in Handle, place[k] = "conn"
      PROVE  UpInv(k)' /\ DownInv(k)'
  <2> DEFINE s == c[k]
             t == ShuttleBytes(s)
             p1 == IF t.state = "Done" THEN "reaped" ELSE "conn"
  <2>1. /\ s \in SocketType /\ WithinCaps(s) /\ EndsOf(s)
        /\ gsent[k] \in Nat /\ dsent[k] \in Nat /\ up[k] \in Seq(Nat) /\ got[k] \in Seq(Nat)
        /\ UpOf("conn", s, gsent[k], up[k])
        /\ DownOf("conn", port[k], s, dsent[k], got[k])
    BY <1>3, Typed DEF BytesInv, UpInv, DownInv
  <2>2. c'[k] = t /\ place'[k] = p1
    BY <1>1, <1>3
  <2> HIDE DEF s
  <2>3. UpOf(p1, t, gsent[k], up[k]) /\ DownOf(p1, port[k], t, dsent[k], got[k])
    BY <2>1, ShuttleKeepsBytes
  <2> QED
    BY <1>1, <2>2, <2>3 DEF UpInv, DownInv
<1> QED
  BY <1>2, <1>3

\* run returns: the chunks in the channels are lost, none is moved.
LEMMA StopBytes ==
  ASSUME BytesInv, Stop
  PROVE  \A k \in Handle : UpInv(k)' /\ DownInv(k)'
<1> DEFINE Cut(s) == [s EXCEPT !.to = DropTx(s.to), !.from = DropRx(s.from)]
<1>1. \A k \in Handle : c'[k] = IF place[k] = "conn" THEN Cut(c[k]) ELSE c[k]
  BY DEF Stop, Placed, Conns
<1>2. ASSUME NEW s \in SocketType
      PROVE  /\ Cut(s) \in SocketType /\ SameBut(Cut(s), s, {"to", "from"})
             /\ Cut(s).to = DropTx(s.to) /\ Cut(s).from = DropRx(s.from)
  <2> DEFINE to == DropTx(s.to)
             from == DropRx(s.from)
             t == [s EXCEPT !.to = to, !.from = from]
  <2>1. to \in ChannelType /\ from \in ChannelType
    BY <1>2, SocketFields, ChannelOps
  <2>2. Cut(s) = t
    OBVIOUS
  <2> HIDE DEF to, from
  <2>3. t \in SocketType /\ t.to = to /\ t.from = from /\ SameBut(t, s, {"to", "from"})
    BY <1>2, <2>1 DEF SocketType, SameBut, Fields
  <2> HIDE DEF Cut, t
  <2> QED
    BY <2>2, <2>3, Zenon DEF to, from
<1> HIDE DEF Cut
<1>3. /\ port' = port /\ gsent' = gsent /\ up' = up /\ dsent' = dsent /\ got' = got
      /\ \A k \in Handle : place'[k] = IF place[k] = "conn" THEN "reaped" ELSE place[k]
  BY DEF Stop, threadVars, guestVars, Placed, Conns
<1>4. ASSUME NEW k \in Handle, place[k] # "conn"
      PROVE  UpInv(k)' /\ DownInv(k)'
  BY <1>1, <1>3, <1>4, Untouched
<1>5. ASSUME NEW k \in Handle, place[k] = "conn"
      PROVE  UpInv(k)' /\ DownInv(k)'
  <2> DEFINE s == c[k]
             t == c'[k]
  <2>1. /\ s \in SocketType
        /\ gsent[k] \in Nat /\ dsent[k] \in Nat /\ up[k] \in Seq(Nat) /\ got[k] \in Seq(Nat)
        /\ UpOf("conn", s, gsent[k], up[k])
        /\ DownOf("conn", port[k], s, dsent[k], got[k])
    BY <1>5, Typed DEF BytesInv, UpInv, DownInv
  <2>2. place'[k] = "reaped" /\ t = Cut(s)
    BY <1>1, <1>3, <1>5
  <2> HIDE DEF s, t
  <2>3. /\ t \in SocketType /\ SameBut(t, s, {"to", "from"})
        /\ t.to = DropTx(s.to) /\ t.from = DropRx(s.from)
    BY <1>2, <2>1, <2>2
  <2>4. /\ t.to.q = s.to.q /\ t.to.rx = s.to.rx /\ ~t.to.tx
        /\ t.from.q = <<>> /\ ~t.from.rx /\ t.from.tx = s.from.tx
    BY <2>1, <2>3, SocketFields, ChannelOps
  <2>5. /\ t.rx = s.rx /\ t.tx = s.tx /\ t.state = s.state /\ t.tcp = s.tcp
        /\ t.pending = s.pending /\ t.offset = s.offset
    BY <2>3 DEF SameBut, Fields
  <2>6. UpMoves(t, s)
    BY <2>4, <2>5 DEF UpMoves
  <2>7. UpOf("reaped", t, gsent[k], up[k])
    BY <2>1, <2>3, <2>6, UpMoved
  <2>8. DownOf("reaped", port[k], t, dsent[k], got[k])
    BY <2>1, <2>4, <2>5, DownKept DEF Ended
  <2> QED
    BY <1>3, <2>2, <2>7, <2>8 DEF UpInv, DownInv, t
<1> QED
  BY <1>4, <1>5

\* A socket in which nothing has happened.
LEMMA ListenerBytes ==
  ASSUME NEW o, NEW p \in {"unused", "backlog"}, NEW s \in {Blank, Listener},
         p = "unused" => s = Blank
  PROVE  UpOf(p, s, 0, <<>>) /\ DownOf(p, o, s, 0, <<>>)
<1>1. /\ s.rx = <<>> /\ s.tx = <<>> /\ s.pending = <<>> /\ s.state = "None"
      /\ s.to = NoChannel /\ s.from = NoChannel
      /\ s.tcp \in {"Closed", "Listen"} /\ (p = "unused" => s.tcp = "Closed")
  BY DEF Blank, Listener
<1>2. /\ NoChannel.q = <<>> /\ ~NoChannel.tx /\ ~NoChannel.rx
  BY DEF NoChannel
<1>3. <<>> \in Seq(Nat) /\ (<<>> \o <<>>) \o <<>> = <<>> /\ Count(0) = <<>>
  BY Counts
<1>4. OwedTo(o, s, 0) = <<>>
  BY <1>1, <1>3 DEF OwedTo, Fresh
<1>5. UpOf(p, s, 0, <<>>)
  BY <1>1, <1>2, <1>3, Zenon DEF UpOf
<1>6. ~Ended(s)
  BY <1>1 DEF Ended
<1>7. DownOf(p, o, s, 0, <<>>)
  <2>1. \E r \in Seq(Nat) : /\ (<<>> \o s.tx) \o r = OwedTo(o, s, 0)
                            /\ p = "conn" => r = Behind(s)
                            /\ Ended(s) => r = <<>> /\ ~s.from.tx
    BY <1>1, <1>3, <1>4, <1>6, Zenon
  <2> QED
    BY <1>1, <1>2, <1>6, <2>1 DEF DownOf
<1> QED
  BY <1>5, <1>7

\* A socket leaves its backlog: a new listener takes its place, and what happens
\* to its own bytes is said by the caller.
LEMMA ReplacedBytes ==
  ASSUME BytesInv, NEW h \in Handle, NEW fresh \in Handle, NEW where \in {"conn", "orphan"},
         NEW r \in SocketType, Replaced(h, fresh, where, r), UNCHANGED <<gsent, up, dsent, got>>,
         r.rx = c[h].rx, r.to.q = <<>>,
         DownOf(where, port[h], r, dsent[h], got[h])
  PROVE  \A k \in Handle : UpInv(k)' /\ DownInv(k)'
<1>1. /\ place'[h] = where /\ place'[fresh] = "backlog"
      /\ \A k \in Handle \ {h, fresh} : place'[k] = place[k]
      /\ \A k \in Handle \ {fresh} : port'[k] = port[k]
  BY ReplacedKeeps DEF BytesInv
<1>2. /\ fresh # h /\ place[h] = "backlog" /\ place[fresh] = "unused"
      /\ c'[h] = r /\ c'[fresh] = Listener /\ \A k \in Handle \ {h, fresh} : c'[k] = c[k]
  BY DEF Replaced, Unused, Placed
<1>3. ASSUME NEW k \in Handle \ {h, fresh}
      PROVE  UpInv(k)' /\ DownInv(k)'
  BY <1>1, <1>2, <1>3, Untouched
<1>4. UpInv(h)' /\ DownInv(h)'
  <2>1. /\ c[h] \in SocketType /\ gsent[h] \in Nat /\ up[h] \in Seq(Nat) /\ EndsOf(c[h])
        /\ UpOf(place[h], c[h], gsent[h], up[h])
    BY Typed DEF BytesInv, UpInv
  <2>2. c[h].state \in Fresh
    BY <1>2 DEF BytesInv, LoopInv, Ends, Fresh
  <2>3. UpOf(where, r, gsent[h], up[h])
    BY <2>1, <2>2, UpFresh
  <2> QED
    BY <1>1, <1>2, <2>3 DEF UpInv, DownInv
<1>5. UpInv(fresh)' /\ DownInv(fresh)'
  <2>1. /\ UpOf("unused", c[fresh], gsent[fresh], up[fresh])
        /\ DownOf("unused", port[fresh], c[fresh], dsent[fresh], got[fresh])
        /\ c[fresh].state = "None"
    BY <1>2 DEF BytesInv, UpInv, DownInv, LoopInv, Ends
  <2>2. gsent[fresh] = 0 /\ up[fresh] = <<>>
    BY <2>1 DEF UpOf, Fresh
  <2>3. dsent[fresh] = 0 /\ got[fresh] = <<>>
    BY <2>1 DEF DownOf, Fresh
  <2>4. UpOf("backlog", Listener, 0, <<>>) /\ DownOf("backlog", port'[fresh], Listener, 0, <<>>)
    BY ListenerBytes
  <2> QED
    BY <1>1, <1>2, <2>2, <2>3, <2>4 DEF UpInv, DownInv
<1> QED
  BY <1>3, <1>4, <1>5

LEMMA RejectBytes ==
  ASSUME BytesInv, NEW h \in Handle, Reject(h)
  PROVE  \A k \in Handle : UpInv(k)' /\ DownInv(k)'
<1> DEFINE s == c[h]
           t == Close(s)
<1>1. /\ s \in SocketType /\ WithinCaps(s) /\ Ready(h)
      /\ place[h] = "backlog" /\ s.state = "None"
      /\ s.to = NoChannel /\ s.from = NoChannel
      /\ DownOf("backlog", port[h], s, dsent[h], got[h])
  BY Typed DEF Reject, Ready, BytesInv, DownInv, LoopInv, Ends, EndsOf, Fresh
<1>2. t \in SocketType /\ SameBut(t, s, {"tcp"})
  BY <1>1, CloseType
<1>3. /\ t.rx = s.rx /\ t.tx = s.tx /\ t.state = s.state /\ t.to = s.to /\ t.from = s.from
      /\ t.pending = s.pending /\ t.offset = s.offset
  BY <1>2 DEF SameBut, Fields
<1>4. WithinCaps(t)
  BY <1>1, <1>3 DEF WithinCaps
<1>5. \E fresh \in Handle : Replaced(h, fresh, "orphan", t)
  BY <1>1, <1>2, <1>4, ReplaceDoes DEF Reject, BytesInv
<1>6. UNCHANGED <<gsent, up, dsent, got>>
  BY DEF Reject, threadVars, guestVars
<1> HIDE DEF s, t
<1>7. t.to.q = <<>> /\ t.from.q = <<>> /\ ~t.from.tx /\ ~t.from.rx
  BY <1>1, <1>3 DEF NoChannel
<1>8. DownOf("orphan", port[h], t, dsent[h], got[h])
  BY <1>1, <1>3, <1>7, DownKept
<1>9. t.rx = c[h].rx
  BY <1>3 DEF s
<1> QED
  BY <1>2, <1>5, <1>6, <1>7, <1>8, <1>9, ReplacedBytes

\* ProxyConn::new: nothing is owed, and nothing on its way.
LEMMA AcceptBytes ==
  ASSUME BytesInv, NEW h \in Handle, Accept(h)
  PROVE  \A k \in Handle : UpInv(k)' /\ DownInv(k)'
<1> DEFINE s == c[h]
           t == Opened(h)
           o == port[h]
<1>1. /\ s \in SocketType /\ Ready(h) /\ s.state = "None"
      /\ s.to = NoChannel /\ s.from = NoChannel
      /\ DownOf("backlog", o, s, dsent[h], got[h])
  BY Typed DEF Accept, Ready, BytesInv, DownInv, LoopInv, Ends, EndsOf, Fresh
<1>2. /\ t \in SocketType /\ WithinCaps(t) /\ SameBut(t, s, {"state", "to", "from"})
      /\ t.state = IF o = "Http" THEN "WaitingForData" ELSE "Shuttling"
      /\ o # "Http" => t.to = Channel /\ t.from = Channel
      /\ EndsOf(t)
  BY <1>1, OpenedDoes DEF BytesInv
<1>3. \E fresh \in Handle : Replaced(h, fresh, "conn", t)
  BY <1>1, <1>2, ReplaceDoes DEF Accept, BytesInv
<1>4. UNCHANGED <<gsent, up, dsent, got>>
  BY DEF Accept, guestVars
<1> HIDE DEF s, t, o
<1>5. /\ t.rx = s.rx /\ t.tx = s.tx /\ t.pending = s.pending /\ t.offset = s.offset
      /\ t.tcp = s.tcp
  BY <1>2 DEF SameBut, Fields
<1>6. /\ got[h] = <<>> /\ t.tx = <<>> /\ t.pending = <<>> /\ dsent[h] = 0
      /\ ~Ended(t)
  BY <1>1, <1>5 DEF DownOf, Fresh, Ended
<1>7. /\ t.to.q = <<>> /\ t.from.q = <<>>
      /\ o = "Http" => ~t.from.rx
      /\ t.state \in Fresh => o = "Http"
      /\ t.state \notin {"None", "Draining", "Closing"}
  <2>1. CASE o = "Http"
    BY <1>2, <2>1 DEF EndsOf, Fresh, NoChannel
  <2>2. CASE o # "Http"
    BY <1>2, <2>2 DEF Fresh, Channel
  <2> QED
    BY <2>1, <2>2
<1>8. OwedTo(o, t, 0) = <<>>
  BY <1>2, Counts DEF OwedTo, Fresh
<1>9. <<>> \in Seq(Nat) /\ (<<>> \o <<>>) \o <<>> = <<>> /\ <<>> \o <<>> = <<>>
  BY EmptySeq, ConcatEmptySeq
<1>10. Behind(t) = <<>>
  <2>1. t.offset <= Len(t.pending)
    BY <1>2 DEF WithinCaps
  <2>2. t.offset >= Len(t.pending)
    <3>1. Len(t.pending) = 0 /\ t.offset \in Nat
      BY <1>2, <1>6, SocketFields, EmptySeq
    <3> QED
      BY <3>1
  <2>3. Unsent(t) = <<>>
    BY SMTT(30), <1>2, <2>1, <2>2, UnsentSeq
  <2> QED
    BY <1>7, <1>9, <2>3, Zenon DEF Behind
<1>11. DownOf("conn", o, t, dsent[h], got[h])
  <2>1. \E r \in Seq(Nat) : /\ (got[h] \o t.tx) \o r = OwedTo(o, t, dsent[h])
                            /\ "conn" = "conn" => r = Behind(t)
                            /\ Ended(t) => r = <<>> /\ ~t.from.tx
    BY <1>6, <1>8, <1>9, <1>10, Zenon
  <2>2. ~t.from.rx => t.from.q = <<>>
    BY <1>7
  <2> QED
    BY <1>6, <1>7, <2>1, <2>2 DEF DownOf, Fresh
<1>12. t.rx = c[h].rx /\ DownOf("conn", port[h], t, dsent[h], got[h])
  BY <1>5, <1>11 DEF s, o
<1> QED
  BY <1>2, <1>3, <1>4, <1>7, <1>12, ReplacedBytes

LEMMA BytesInit ==
  ASSUME NEW ports \in [Handle -> Port \cup {"none"}], InitWith(ports)
  PROVE  BytesInv
<1>1. LoopInv
  BY LoopInit
<1>2. ASSUME NEW k \in Handle
      PROVE  UpInv(k) /\ DownInv(k)
  <2>1. /\ gsent[k] = 0 /\ up[k] = <<>> /\ dsent[k] = 0 /\ got[k] = <<>>
        /\ place[k] \in {"unused", "backlog"} /\ c[k] \in {Blank, Listener}
        /\ place[k] = "unused" => c[k] = Blank
    BY DEF InitWith
  <2>2. /\ UpOf(place[k], c[k], 0, <<>>)
        /\ DownOf(place[k], port[k], c[k], 0, <<>>)
    BY <2>1, ListenerBytes
  <2> QED
    BY <2>1, <2>2 DEF UpInv, DownInv
<1> QED
  BY <1>1, <1>2 DEF BytesInv

LEMMA BytesNext == BytesInv /\ [Next]_vars => BytesInv'
<1> SUFFICES ASSUME BytesInv, [Next]_vars
             PROVE  BytesInv'
  OBVIOUS
<1>1. LoopInv'
  BY LoopNext DEF BytesInv
<1> SUFFICES \A k \in Handle : UpInv(k)' /\ DownInv(k)'
  BY <1>1 DEF BytesInv
<1>2. CASE Loop
  <2>1. CASE EndPoll \/ EndDns \/ EndAccept
    <3>1. UNCHANGED <<place, port, c, gsent, up, dsent, got>>
      BY <2>1 DEF EndPoll, EndDns, EndAccept, threadVars, guestVars
    <3> QED
      BY <3>1, QuietBytes
  <2>2. CASE \E h \in Handle : Reject(h) \/ Accept(h)
    BY <2>2, RejectBytes, AcceptBytes
  <2> QED
    BY <1>2, <2>1, <2>2, ShuttleKeeps DEF Loop
<1>3. CASE GuestDatagram \/ UNCHANGED vars
  <2>1. UNCHANGED <<place, port, c, gsent, up, dsent, got>>
    BY <1>3 DEF GuestDatagram, vars, loopVars, threadVars, guestVars
  <2> QED
    BY <2>1, QuietBytes
<1>4. CASE \E n \in Names, inClass, isA \in BOOLEAN : ProcessDns(n, inClass, isA)
  <2>1. UNCHANGED <<place, port, c, gsent, up, dsent, got>>
    BY <1>4 DEF ProcessDns, loopVars, threadVars, guestVars
  <2> QED
    BY <2>1, QuietBytes
<1>5. CASE \E h \in Handle : Guest(h)
  BY <1>5, FlagBytes, SendBytes, ReceiveBytes DEF Guest
<1>6. CASE \E h \in Handle : MainThread(h) \/ ReadThread(h) \/ Upstream(h)
  <2>1. PICK h \in Handle : MainThread(h) \/ ReadThread(h) \/ Upstream(h)
    BY <1>6
  <2>2. PICK x, y : ThreadEffect(h, x, y)
    BY <2>1, ThreadDoes DEF BytesInv
  <2> QED
    BY <2>2, ThreadBytes
<1> QED
  BY <1>2, <1>3, <1>4, <1>5, <1>6, StopBytes DEF Next

\* In every order of the loop, the guest and the threads, what a connection has
\* received in each direction, what its buffers and channels hold and what is
\* lost with it make up what was sent (shuttle_bytes, drain_to_socket, run's
\* scan, the three kinds of thread).
THEOREM BytesInvariant == AnySpec => []BytesInv
<1>1. (\E ports \in [Handle -> Port \cup {"none"}] : InitWith(ports)) => BytesInv
  BY BytesInit
<1> QED
  BY <1>1, BytesNext, PTL DEF AnySpec

----------------------------------------------------------------------------
(* What follows from it *)

LEMMA InvUpstream == BytesInv => UpstreamInOrder
<1> SUFFICES ASSUME BytesInv, NEW h \in Handle
             PROVE  /\ Prefix(up[h], Count(gsent[h]))
                    /\ place[h] = "backlog" => c[h].rx = Count(gsent[h])
                    /\ c[h].to.tx /\ c[h].to.rx => up[h] \o c[h].to.q \o c[h].rx = Count(gsent[h])
  BY DEF UpstreamInOrder
<1> DEFINE s == c[h]
           u == up[h]
           q == s.to.q
           n == gsent[h]
<1>1. /\ s \in SocketType /\ u \in Seq(Nat) /\ n \in Nat /\ EndsOf(s)
      /\ q \in Seq(Nat) /\ UpOf(place[h], s, n, u)
  BY Typed, SocketFields DEF BytesInv, UpInv
<1>2. place[h] = "backlog" => s.state \in Fresh
  BY DEF BytesInv, LoopInv, Ends, Fresh
<1>3. place[h] = "backlog" => s.rx = Count(n)
  <2> HIDE DEF s, u, n
  <2> QED
    BY <1>1, <1>2, UpFresh
<1>4. PICK r \in Seq(Nat) : /\ (u \o q) \o r = Count(n)
                            /\ (s.to.tx /\ s.to.rx) \/ s.state \in Fresh => r = s.rx
  BY <1>1 DEF UpOf
<1>5. s.to.tx /\ s.to.rx => u \o q \o s.rx = Count(n)
  <2> HIDE DEF s, u, q, n
  <2> QED
    BY <1>4
<1>6. Prefix(u, Count(n))
  <2> HIDE DEF u, q, n
  <2>1. (u \o q) \o r = u \o (q \o r)
    BY <1>1, Regroup, Zenon
  <2>2. q \o r \in Seq(Nat)
    BY SMTT(30), <1>1, Joins
  <2>3. Prefix(u, u \o (q \o r))
    BY <1>1, <2>2, Prefixes
  <2>4. u \o (q \o r) = Count(n)
    BY <1>4, <2>1, Zenon
  <2> QED
    BY <2>3, <2>4, Zenon
<1> QED
  BY <1>3, <1>5, <1>6

LEMMA OwedSame == \A h \in Handle : Owed(h) = OwedTo(port[h], c[h], dsent[h])
BY DEF Owed, OwedTo, Fresh

LEMMA InvDownstream == BytesInv => DownstreamInOrder /\ NoTruncatedClose
<1> SUFFICES ASSUME BytesInv, NEW h \in Handle
             PROVE  /\ Prefix(got[h] \o c[h].tx, Owed(h))
                    /\ place[h] = "conn" =>
                         got[h] \o c[h].tx \o Unsent(c[h]) \o c[h].from.q = Owed(h)
                    /\ c[h].tcp \in {"FinWait", "LastAck"} =>
                         ~c[h].from.tx /\ got[h] \o c[h].tx = Owed(h)
  BY DEF DownstreamInOrder, NoTruncatedClose
<1> DEFINE s == c[h]
           a == got[h] \o s.tx
           x == Unsent(s)
           q == s.from.q
           w == Owed(h)
<1>1. /\ s \in SocketType /\ got[h] \in Seq(Nat) /\ s.offset <= Len(s.pending)
      /\ DownOf(place[h], port[h], s, dsent[h], got[h])
  BY Typed DEF BytesInv, DownInv
<1>2. a \in Seq(Nat)
  BY SMTT(30), <1>1, SocketFields, Joins
<1>3. x \in Seq(Nat) /\ q \in Seq(Nat)
  BY SMTT(30), <1>1, SocketFields, UnsentSeq
<1>4. \E r \in Seq(Nat) : /\ a \o r = w
                          /\ place[h] = "conn" => r = x \o q
                          /\ s.tcp \in {"FinWait", "LastAck"} => r = <<>> /\ ~s.from.tx
  BY <1>1, OwedSame DEF DownOf, Behind, Ended
<1> HIDE DEF a, x, q, w
<1>5. PICK r \in Seq(Nat) : /\ a \o r = w
                            /\ place[h] = "conn" => r = x \o q
                            /\ s.tcp \in {"FinWait", "LastAck"} => r = <<>> /\ ~s.from.tx
  BY <1>4, Zenon
<1>6. Prefix(a, w)
  <2>1. Prefix(a, a \o r)
    BY <1>2, Prefixes
  <2> QED
    BY <1>5, <2>1, Zenon
<1>7. (a \o x) \o q = a \o (x \o q)
  BY <1>2, <1>3, Regroup, Zenon
<1>8. place[h] = "conn" => (a \o x) \o q = w
  BY <1>5, <1>7, Zenon
<1>9. a \o <<>> = a
  BY SMTT(30), <1>2, Joins
<1>10. s.tcp \in {"FinWait", "LastAck"} => ~s.from.tx /\ a = w
  BY <1>5, <1>9, Zenon
<1> QED
  BY <1>6, <1>8, <1>10, Zenon DEF a, x, q, w

\* However the guest, the loop and the threads interleave, and however a
\* connection ends, its thread takes the guest's chunks in order, without a gap
\* and without one twice (the Shuttling step of shuttle_bytes and its channel).
THEOREM UpstreamIsInOrder == AnySpec => []UpstreamInOrder
BY BytesInvariant, InvUpstream, PTL

\* The guest receives its thread's chunks in order and each once, for any window,
\* any capacity of the channel and any threshold of drain_to_socket's compaction.
THEOREM DownstreamIsInOrder == AnySpec => []DownstreamInOrder
BY BytesInvariant, InvDownstream, PTL

\* A FIN leaves only when the thread has finished and all it wrote is in the
\* socket's buffer or with the guest (PullThread, Draining and Closing in
\* shuttle_bytes), however large the response is.
THEOREM NoCloseIsTruncated == AnySpec => []NoTruncatedClose
BY BytesInvariant, InvDownstream, PTL
=============================================================================
