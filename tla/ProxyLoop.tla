----------------------------- MODULE ProxyLoop -----------------------------
(***************************************************************************)
(* The event loop of proxy::run and everything it drives: the smoltcp      *)
(* sockets, the backlogs of listeners, the table of connections, the two   *)
(* channels of each connection, and the threads at their other end.        *)
(*                                                                         *)
(* One thread runs the loop: iface.poll lets the guest's frames act on the *)
(* sockets, process_dns answers queries, a scan moves ready sockets from   *)
(* the backlogs to the connection table, and shuttle_bytes is called for   *)
(* every connection.  Connection threads run beside it and meet it only in *)
(* the channels, so a phase of the loop is one step for the connections,   *)
(* and the threads step between any two phases.                            *)
(*                                                                         *)
(* Bytes are chunks numbered from 1 in each direction: what one recv_slice *)
(* or one upstream read returns.  Socket buffers and channels hold chunks. *)
(* A handle is used for one connection, so that a thread that outlives its *)
(* connection can be told from the threads of later ones.                  *)
(***************************************************************************)
EXTENDS HostMap, Sequences

CONSTANTS
  Handle,          \* SocketHandle
  Port,            \* the backlogs: a subset of PortKinds
  ListenBacklog,   \* listeners per backlog (4 and LISTEN_BACKLOG)
  MaxConnections,  \* MAX_CONNECTIONS
  ChannelCap,      \* 64: the sync_channel from a thread
  RxCap, TxCap,    \* TCP_SOCKET_BUF, in chunks
  CompactMin,      \* 65536, in chunks
  Discover,        \* --discover
  HasAllowlist,    \* ProxyConfig.allowed_hosts is Some
  Allowlist,       \* the names its patterns match
  MaxUp, MaxDown   \* bounds: chunks the guest / the upstream sends

PortKinds == {"Http", "Tls", "Ssh", "Forward"}

ASSUME ProxyLoopAssumption ==
  /\ IsFiniteSet(Handle)
  /\ Port \subseteq PortKinds
  /\ ListenBacklog \in Nat \ {0}
  /\ MaxConnections \in Nat
  /\ ChannelCap \in Nat \ {0}
  /\ RxCap \in Nat \ {0} /\ TxCap \in Nat \ {0}
  /\ CompactMin \in Nat
  /\ Discover \in BOOLEAN /\ HasAllowlist \in BOOLEAN
  /\ Discover => ~HasAllowlist   \* run drops the allowlist in discover mode
  /\ Allowlist \subseteq Names
  /\ MaxUp \in Nat /\ MaxDown \in Nat

VARIABLES
  pc,          \* phase of the loop: poll, dns, accept, shuttle, stopped
  changed,     \* iface.poll returns SocketStateChanged
  place,       \* who owns a handle: unused, backlog, conn, orphan, reaped
  port,        \* the backlog a handle was opened for
  dest,        \* local_endpoint: the IP the guest connected to
  c,           \* socket, ProxyConn and channels of a handle
  wr,          \* the connection's thread
  rd,          \* the read thread of a relay
  host,        \* SshRelay.hostname
  discovered,  \* DiscoveredHosts, as far as SSH fills it
  gsent,       \* history: chunks the guest sent
  up,          \* history: chunks the thread took, in order
  dsent,       \* history: chunks the thread put into its channel
  got,         \* history: chunks the guest received, in order
  eof          \* history: the relay shut down its upstream write side

loopVars   == <<pc, changed, place, port, dest, c, host, discovered>>
threadVars == <<wr, rd, up, dsent, eof>>
guestVars  == <<gsent, got>>
vars == <<loopVars, threadVars, guestVars, hostVars>>

Placed(p) == {h \in Handle : place[h] = p}
Conns  == Placed("conn")
Unused == Placed("unused")

----------------------------------------------------------------------------
(* mpsc channels: a queue and whether each end still exists *)

NoChannel == [q |-> <<>>, tx |-> FALSE, rx |-> FALSE]
Channel   == [q |-> <<>>, tx |-> TRUE, rx |-> TRUE]
DropTx(ch) == [ch EXCEPT !.tx = FALSE]
DropRx(ch) == [ch EXCEPT !.rx = FALSE, !.q = <<>>]
Put(ch, x) == [ch EXCEPT !.q = Append(@, x)]

(* smoltcp's TCP socket.  SynReceived is part of Listen (neither receives),  *)
(* FinWait1 and FinWait2 are FinWait, Closing is LastAck (both sides have    *)
(* closed, our FIN is not acknowledged), TimeWait is Closed (neither is      *)
(* active).                                                                  *)

IsActive(s) == s.tcp \in {"Established", "CloseWait", "FinWait", "LastAck"}
MayRecv(s)  == s.tcp \in {"Established", "FinWait"} \/ s.rx # <<>>
MaySend(s)  == s.tcp \in {"Established", "CloseWait"}

Close(s) == [s EXCEPT !.tcp = CASE s.tcp = "Established" -> "FinWait"
                                [] s.tcp = "CloseWait"   -> "LastAck"
                                [] s.tcp = "Listen"      -> "Closed"
                                [] OTHER                 -> s.tcp]

Blank == [tcp |-> "Closed", rx |-> <<>>, tx |-> <<>>,
          state |-> "None", pending |-> <<>>, offset |-> 0,
          to |-> NoChannel, from |-> NoChannel]

Listener == [Blank EXCEPT !.tcp = "Listen"]

----------------------------------------------------------------------------
(* shuttle_bytes *)

\* Mutant: the compaction leaves the offset where it was.
DrainToSocket_StaleOffset(s) ==
  LET left    == Len(s.pending) - s.offset
      room    == IF MaySend(s) THEN TxCap - Len(s.tx) ELSE 0
      off     == s.offset + (IF left < room THEN left ELSE room)
      compact == off < Len(s.pending) /\ 2 * off > Len(s.pending) /\ off > CompactMin
  IN [s EXCEPT !.tx = @ \o SubSeq(s.pending, s.offset + 1, off),
               !.pending = IF compact THEN SubSeq(@, off + 1, Len(@)) ELSE @,
               !.offset = off]

\* drain_to_socket: fill the socket's send buffer from pending_send. A socket
\* that may not send refuses the bytes; the compaction at the end is reached
\* only when bytes remain.
DrainToSocket(s) ==
  LET left    == Len(s.pending) - s.offset
      room    == IF MaySend(s) THEN TxCap - Len(s.tx) ELSE 0
      off     == s.offset + (IF left < room THEN left ELSE room)
      compact == off < Len(s.pending) /\ 2 * off > Len(s.pending) /\ off > CompactMin
  IN [s EXCEPT !.tx = @ \o SubSeq(s.pending, s.offset + 1, off),
               !.pending = IF compact THEN SubSeq(@, off + 1, Len(@)) ELSE @,
               !.offset = IF compact THEN 0 ELSE off]

\* Mutant: try_send into a bounded channel, whose error is ignored.
PullGuest_TrySend(s) ==
  IF s.rx = <<>> THEN s
  ELSE [s EXCEPT !.rx = Tail(@),
                 !.to = IF @.tx /\ @.rx /\ @.q = <<>>
                        THEN Put(@, Head(s.rx)) ELSE @]

\* Mutant: only a connection open on both sides is read.
PullGuest_OnlyOpen(s) ==
  IF s.rx = <<>> \/ s.tcp # "Established" THEN s
  ELSE [s EXCEPT !.rx = Tail(@),
                 !.to = IF ~@.tx THEN @
                        ELSE IF @.rx THEN Put(@, Head(s.rx))
                        ELSE DropTx(@)]

\* Guest -> thread: one recv_slice. A send that fails shows the thread died;
\* without a sender the bytes are read and dropped.
PullGuest(s) ==
  IF s.rx = <<>> THEN s
  ELSE [s EXCEPT !.rx = Tail(@),
                 !.to = IF ~@.tx THEN @
                        ELSE IF @.rx THEN Put(@, Head(s.rx))
                        ELSE DropTx(@)]

\* Mutant: the socket is closed as soon as the thread has finished.
PullThread_CloseAtOnce(s) ==
  IF ~s.from.rx THEN s
  ELSE LET took == [s EXCEPT !.pending = @ \o s.from.q, !.from = [@ EXCEPT !.q = <<>>]]
           over == [took EXCEPT !.from = DropRx(@), !.to = DropTx(@)]
       IN IF s.from.tx THEN took ELSE [Close(over) EXCEPT !.state = "Closing"]

\* Thread -> guest: take all the channel holds, and learn that the thread has
\* finished only after its last chunk.
PullThread(s) ==
  IF ~s.from.rx THEN s
  ELSE LET took == [s EXCEPT !.pending = @ \o s.from.q, !.from = [@ EXCEPT !.q = <<>>]]
           over == [took EXCEPT !.from = DropRx(@), !.to = DropTx(@)]
       IN IF s.from.tx THEN took
          ELSE IF over.pending = <<>> THEN [Close(over) EXCEPT !.state = "Closing"]
          ELSE [over EXCEPT !.state = "Draining"]

WaitingForData(s) ==
  IF s.rx = <<>> THEN s
  ELSE [s EXCEPT !.rx = Tail(@), !.pending = <<1>>, !.offset = 0, !.state = "Draining"]

\* Mutant: a connection is done before its channel ends are dropped.
Shuttling_KeepsEnds(s) ==
  LET b == DrainToSocket(PullThread(PullGuest(s)))
  IN IF ~IsActive(b) /\ ~MayRecv(b) THEN [b EXCEPT !.state = "Done"] ELSE b

Shuttling(s) ==
  LET b == DrainToSocket(PullThread(PullGuest(s)))
  IN IF ~IsActive(b) /\ ~MayRecv(b)
     THEN [b EXCEPT !.to = DropTx(@), !.from = DropRx(@), !.state = "Done"]
     ELSE b

Draining(s) ==
  LET b == DrainToSocket(s)
  IN IF b.offset >= Len(b.pending) THEN [Close(b) EXCEPT !.state = "Closing"] ELSE b

\* Mutant: waits for the send buffer as well, which a reset leaves as it is.
Closing_WaitsForBuffer(s) ==
  IF ~IsActive(s) /\ s.tx = <<>> THEN [s EXCEPT !.state = "Done"] ELSE s

Closing(s) == IF ~IsActive(s) THEN [s EXCEPT !.state = "Done"] ELSE s

ShuttleBytes(s) ==
  CASE s.state = "WaitingForData" -> WaitingForData(s)
    [] s.state = "Shuttling"      -> Shuttling(s)
    [] s.state = "Draining"       -> Draining(s)
    [] s.state = "Closing"        -> Closing(s)
    [] OTHER                      -> s

\* The loop's last phase: shuttle_bytes for every connection, then reap_done.
\* The connections share no state, so their order does not matter.
Shuttle ==
  /\ pc = "shuttle"
  /\ pc' = "poll"
  /\ c' = [h \in Handle |-> IF h \in Conns THEN ShuttleBytes(c[h]) ELSE c[h]]
  /\ place' = [h \in Handle |->
       IF h \in Conns /\ c'[h].state = "Done" THEN "reaped" ELSE place[h]]
  /\ UNCHANGED <<changed, port, dest, host, discovered, threadVars, guestVars, hostVars>>

----------------------------------------------------------------------------
(* The guest's frames, applied by iface.poll *)

\* A frame reached some socket, so the poll reports a change.
Frame == pc = "poll" /\ changed' = TRUE

\* Bound: the guest connects only while every socket that left Listen can be
\* replaced by a fresh one.
HandleBudget ==
  Cardinality({h \in Placed("backlog") : c[h].tcp # "Listen"}) < Cardinality(Unused)

\* The interface accepts SYNs for its own addresses only.
GuestConnect(h, ip) ==
  /\ Frame
  /\ c[h].tcp = "Listen"
  /\ HandleBudget
  /\ ip \in addrs
  /\ c' = [c EXCEPT ![h].tcp = "Established"]
  /\ dest' = [dest EXCEPT ![h] = ip]
  /\ UNCHANGED <<pc, place, port, host, discovered, threadVars, guestVars, hostVars>>

GuestSend(h) ==
  /\ Frame
  /\ c[h].tcp \in {"Established", "FinWait"}
  /\ Len(c[h].rx) < RxCap
  /\ gsent[h] < MaxUp
  /\ gsent' = [gsent EXCEPT ![h] = @ + 1]
  /\ c' = [c EXCEPT ![h].rx = Append(@, gsent[h] + 1)]
  /\ UNCHANGED <<pc, place, port, dest, host, discovered, got, threadVars, hostVars>>

GuestFin(h) ==
  /\ Frame
  /\ c[h].tcp \in {"Established", "FinWait"}
  /\ c' = [c EXCEPT ![h].tcp = IF @ = "Established" THEN "CloseWait" ELSE "LastAck"]
  /\ UNCHANGED <<pc, place, port, dest, host, discovered, threadVars, guestVars, hostVars>>

\* What was received and not yet read stays readable; what was not yet
\* acknowledged stays in the send buffer.
GuestReset(h) ==
  /\ Frame
  /\ IsActive(c[h])
  /\ c' = [c EXCEPT ![h].tcp = "Closed"]
  /\ UNCHANGED <<pc, place, port, dest, host, discovered, threadVars, guestVars, hostVars>>

GuestReceive(h) ==
  /\ Frame
  /\ IsActive(c[h])
  /\ c[h].tx # <<>>
  /\ got' = [got EXCEPT ![h] = Append(@, Head(c[h].tx))]
  /\ c' = [c EXCEPT ![h].tx = Tail(@)]
  /\ UNCHANGED <<pc, place, port, dest, host, discovered, gsent, threadVars, hostVars>>

GuestAckFin(h) ==
  /\ Frame
  /\ c[h].tcp = "LastAck"
  /\ c[h].tx = <<>>
  /\ c' = [c EXCEPT ![h].tcp = "Closed"]
  /\ UNCHANGED <<pc, place, port, dest, host, discovered, threadVars, guestVars, hostVars>>

\* A DNS packet, or any other frame that changes no TCP socket.
GuestDatagram ==
  /\ Frame
  /\ UNCHANGED <<pc, place, port, dest, c, host, discovered, threadVars, guestVars, hostVars>>

Guest(h) ==
  \/ \E ip \in addrs : GuestConnect(h, ip)
  \/ GuestSend(h) \/ GuestFin(h) \/ GuestReset(h) \/ GuestReceive(h) \/ GuestAckFin(h)

----------------------------------------------------------------------------
(* The loop *)

\* Mutant: the connections are served only after a change on some socket.
EndPoll_OnChange ==
  /\ pc = "poll"
  /\ pc' = IF changed THEN "dns" ELSE "poll"
  /\ changed' = FALSE
  /\ UNCHANGED <<place, port, dest, c, host, discovered, threadVars, guestVars, hostVars>>

\* iface.poll has applied the frames. Without a change the loop goes straight
\* to the connections.
EndPoll ==
  /\ pc = "poll"
  /\ pc' = IF changed THEN "dns" ELSE "shuttle"
  /\ changed' = FALSE
  /\ UNCHANGED <<place, port, dest, c, host, discovered, threadVars, guestVars, hostVars>>

\* process_dns takes the queries that arrived; the last one ends the phase.
ProcessDns(n, inClass, isA) ==
  /\ pc = "dns"
  /\ DnsQuery(n, inClass, isA)
  /\ UNCHANGED <<loopVars, threadVars, guestVars>>

EndDns ==
  /\ pc = "dns"
  /\ pc' = "accept"
  /\ UNCHANGED <<changed, place, port, dest, c, host, discovered, threadVars, guestVars, hostVars>>

Ready(h) == place[h] = "backlog" /\ c[h].tcp # "Listen" /\ MayRecv(c[h])

Full_OffByOne == Cardinality(Conns) > MaxConnections   \* mutant

Full == Cardinality(Conns) >= MaxConnections

Allowed(n) == HasAllowlist => n \in Allowlist

\* add_tcp_listener in the slot of h, which goes to `where` as record `r`.
Replace(h, where, r) ==
  LET fresh == CHOOSE n \in Unused : TRUE
  IN /\ place' = [place EXCEPT ![h] = where, ![fresh] = "backlog"]
     /\ port' = [port EXCEPT ![fresh] = port[h]]
     /\ c' = [c EXCEPT ![h] = r, ![fresh] = Listener]

\* A socket that is not accepted is closed, and stays in the SocketSet for good.
Reject(h) ==
  /\ pc = "accept"
  /\ Ready(h)
  /\ \/ Full
     \/ /\ port[h] = "Ssh"
        /\ \/ HostnameForIp(dest[h]) = NoHost
           \/ ~Allowed(HostnameForIp(dest[h]))
  /\ Replace(h, "orphan", Close(c[h]))
  /\ UNCHANGED <<pc, changed, dest, host, discovered, threadVars, guestVars, hostVars>>

\* The thread a connection of each kind is given (ProxyConn::new).
FirstStep == [Http |-> "none", Tls |-> "open", Ssh |-> "connect", Forward |-> "connect"]

Opened(h) ==
  IF port[h] = "Http" THEN [c[h] EXCEPT !.state = "WaitingForData"]
  ELSE [c[h] EXCEPT !.state = "Shuttling", !.to = Channel, !.from = Channel]

Accept(h) ==
  LET name == HostnameForIp(dest[h]) IN
  /\ pc = "accept"
  /\ Ready(h)
  /\ ~Full
  /\ port[h] = "Ssh" => name # NoHost /\ Allowed(name)
  /\ Replace(h, "conn", Opened(h))
  /\ wr' = [wr EXCEPT ![h] = FirstStep[port[h]]]
  /\ IF port[h] = "Ssh"
     THEN /\ host' = [host EXCEPT ![h] = name]
          /\ discovered' = IF Discover THEN discovered \cup {name} ELSE discovered
     ELSE UNCHANGED <<host, discovered>>
  /\ UNCHANGED <<pc, changed, dest, rd, up, dsent, eof, guestVars, hostVars>>

EndAccept ==
  /\ pc = "accept"
  /\ \A h \in Handle : ~Ready(h)
  /\ pc' = "shuttle"
  /\ UNCHANGED <<changed, place, port, dest, c, host, discovered, threadVars, guestVars, hostVars>>

\* The proxy's own timeout, or the guest's socket closed: run returns and the
\* connections, with their channel ends, are dropped.
Stop ==
  /\ pc = "poll"
  /\ pc' = "stopped"
  /\ c' = [h \in Handle |->
       IF h \in Conns THEN [c[h] EXCEPT !.to = DropTx(@), !.from = DropRx(@)] ELSE c[h]]
  /\ place' = [h \in Handle |-> IF h \in Conns THEN "reaped" ELSE place[h]]
  /\ UNCHANGED <<changed, port, dest, host, discovered, threadVars, guestVars, hostVars>>

Loop ==
  \/ EndPoll \/ EndDns \/ EndAccept \/ Shuttle
  \/ \E h \in Handle : Reject(h) \/ Accept(h)

----------------------------------------------------------------------------
(* tls_connection_thread, as the channels see it: it takes chunks, puts       *)
(* chunks, and returns.  Every wait in it is bounded (channel reads, connect, *)
(* upstream reads and writes all time out) and so are the bytes it handles,   *)
(* so it returns in the end unless a send blocks.  Returning drops both ends. *)

Return(h) == c' = [c EXCEPT ![h].to = DropRx(@), ![h].from = DropTx(@)]

TlsRead(h) ==
  /\ wr[h] = "open"
  /\ c[h].to.q # <<>>
  /\ up' = [up EXCEPT ![h] = Append(@, Head(c[h].to.q))]
  /\ c' = [c EXCEPT ![h].to.q = Tail(@)]
  /\ UNCHANGED <<pc, changed, place, port, dest, host, discovered, wr, rd, dsent, eof, guestVars, hostVars>>

TlsProduce(h) ==
  /\ wr[h] = "open"
  /\ dsent[h] < MaxDown
  /\ wr' = [wr EXCEPT ![h] = "sending"]
  /\ UNCHANGED <<loopVars, rd, up, dsent, eof, guestVars, hostVars>>

\* tx.send of a sync_channel blocks while the channel is full and fails once
\* the loop has dropped its receiver.
Push(h) == c' = [c EXCEPT ![h].from.q = Append(@, dsent[h] + 1)]

TlsSend(h) ==
  /\ wr[h] = "sending"
  /\ \/ /\ c[h].from.rx
        /\ Len(c[h].from.q) < ChannelCap
        /\ Push(h)
        /\ dsent' = [dsent EXCEPT ![h] = @ + 1]
        /\ wr' = [wr EXCEPT ![h] = "open"]
     \/ /\ ~c[h].from.rx
        /\ Return(h)
        /\ wr' = [wr EXCEPT ![h] = "done"]
        /\ UNCHANGED dsent
  /\ UNCHANGED <<pc, changed, place, port, dest, host, discovered, rd, up, eof, guestVars, hostVars>>

TlsReturn(h) ==
  /\ wr[h] = "open"
  /\ Return(h)
  /\ wr' = [wr EXCEPT ![h] = "done"]
  /\ UNCHANGED <<pc, changed, place, port, dest, host, discovered, rd, up, dsent, eof, guestVars, hostVars>>

----------------------------------------------------------------------------
(* ssh_relay_thread and tcp_forward_thread: the same two threads, the first  *)
(* with 30 s timeouts on the upstream socket, the second with none.          *)

\* The upstream socket connects; the sender moves to the read thread.
RelayConnect(h) ==
  /\ wr[h] = "connect"
  /\ wr' = [wr EXCEPT ![h] = "relay"]
  /\ rd' = [rd EXCEPT ![h] = "reading"]
  /\ UNCHANGED <<loopVars, up, dsent, eof, guestVars, hostVars>>

\* No address, a private address that is not allowed, a refused or timed out
\* connection.
RelayConnectFails(h) ==
  /\ wr[h] = "connect"
  /\ wr' = [wr EXCEPT ![h] = "done"]
  /\ Return(h)
  /\ UNCHANGED <<pc, changed, place, port, dest, host, discovered, rd, up, dsent, eof, guestVars, hostVars>>

RelayForward(h) ==
  /\ wr[h] = "relay"
  /\ c[h].to.q # <<>>
  /\ up' = [up EXCEPT ![h] = Append(@, Head(c[h].to.q))]
  /\ c' = [c EXCEPT ![h].to.q = Tail(@)]
  /\ UNCHANGED <<pc, changed, place, port, dest, host, discovered, wr, rd, dsent, eof, guestVars, hostVars>>

\* rx and the upstream's write side are closed as the loop over rx ends.
LeaveRelay(h) ==
  /\ c' = [c EXCEPT ![h].to = DropRx(@)]
  /\ wr' = [wr EXCEPT ![h] = "join"]
  /\ eof' = [eof EXCEPT ![h] = TRUE]
  /\ UNCHANGED <<pc, changed, place, port, dest, host, discovered, rd, up, dsent, guestVars, hostVars>>

RelayWriteFails(h) == wr[h] = "relay" /\ c[h].to.q # <<>> /\ LeaveRelay(h)

\* The loop's sender is gone and everything it sent was taken.
RelayEnds(h) == wr[h] = "relay" /\ c[h].to.q = <<>> /\ ~c[h].to.tx /\ LeaveRelay(h)

RelayJoin(h) ==
  /\ wr[h] = "join"
  /\ rd[h] = "done"
  /\ wr' = [wr EXCEPT ![h] = "done"]
  /\ UNCHANGED <<loopVars, rd, up, dsent, eof, guestVars, hostVars>>

\* The upstream may send for ever, so that no read of it times out.
ReadUpstream(h) ==
  /\ rd[h] = "reading"
  /\ rd' = [rd EXCEPT ![h] = "sending"]
  /\ UNCHANGED <<loopVars, wr, up, dsent, eof, guestVars, hostVars>>

\* Bound: what a relay's upstream sends behind its MaxDown chunks finds room in
\* the channel as any chunk does, and is not followed any further.
ReadSend(h) ==
  /\ rd[h] = "sending"
  /\ \/ /\ c[h].from.rx
        /\ Len(c[h].from.q) < ChannelCap
        /\ IF dsent[h] < MaxDown THEN Push(h) /\ dsent' = [dsent EXCEPT ![h] = @ + 1]
           ELSE UNCHANGED <<c, dsent>>
        /\ rd' = [rd EXCEPT ![h] = "reading"]
     \/ /\ ~c[h].from.rx
        /\ c' = [c EXCEPT ![h].from = DropTx(@)]
        /\ rd' = [rd EXCEPT ![h] = "done"]
        /\ UNCHANGED dsent
  /\ UNCHANGED <<pc, changed, place, port, dest, host, discovered, wr, up, eof, guestVars, hostVars>>

ReadEnds(h) ==
  /\ rd[h] = "reading"
  /\ rd' = [rd EXCEPT ![h] = "done"]
  /\ c' = [c EXCEPT ![h].from = DropTx(@)]
  /\ UNCHANGED <<pc, changed, place, port, dest, host, discovered, wr, up, dsent, eof, guestVars, hostVars>>

\* The upstream closes or resets.
ReadEof(h) == ReadEnds(h)

\* Mutant: the timeout is set on the other relay's socket.
ReadTimeout_OnForward(h) == port[h] = "Forward" /\ ReadEnds(h)

\* set_read_timeout is called on the SSH upstream alone.
ReadTimeout(h) == port[h] = "Ssh" /\ ReadEnds(h)

\* The steps a connection's threads take on their own: the waits of the TLS and
\* the SSH thread time out. A write to a forwarded service has no timeout and
\* ends when the service reads; that, like what any upstream sends, is decided
\* outside.
MainThread(h) ==
  \/ TlsRead(h) \/ TlsSend(h) \/ TlsReturn(h)
  \/ RelayConnect(h) \/ RelayConnectFails(h)
  \/ port[h] = "Ssh" /\ (RelayForward(h) \/ RelayWriteFails(h))
  \/ RelayEnds(h) \/ RelayJoin(h)
ReadThread(h) == ReadSend(h) \/ ReadTimeout(h)
Upstream(h) ==
  \/ TlsProduce(h) \/ ReadUpstream(h) \/ ReadEof(h)
  \/ port[h] = "Forward" /\ (RelayForward(h) \/ RelayWriteFails(h))

----------------------------------------------------------------------------
\* add_tcp_listener for every slot of every backlog, before the loop starts.
InitialPort == CHOOSE f \in [Handle -> Port \cup {"none"}] :
  \A p \in Port : Cardinality({h \in Handle : f[h] = p}) = ListenBacklog

InitWith(ports) ==
  /\ HostInit
  /\ pc = "poll"
  /\ changed = FALSE
  /\ port = ports
  /\ place = [h \in Handle |-> IF port[h] = "none" THEN "unused" ELSE "backlog"]
  /\ dest = [h \in Handle |-> Gateway]
  /\ c = [h \in Handle |-> IF port[h] = "none" THEN Blank ELSE Listener]
  /\ wr = [h \in Handle |-> "none"]
  /\ rd = [h \in Handle |-> "none"]
  /\ host = [h \in Handle |-> NoHost]
  /\ discovered = {}
  /\ gsent = [h \in Handle |-> 0]
  /\ up = [h \in Handle |-> <<>>]
  /\ dsent = [h \in Handle |-> 0]
  /\ got = [h \in Handle |-> <<>>]
  /\ eof = [h \in Handle |-> FALSE]

Init == InitWith(InitialPort)

Next ==
  \/ Loop
  \/ Stop
  \/ GuestDatagram
  \/ \E n \in Names, inClass, isA \in BOOLEAN : ProcessDns(n, inClass, isA)
  \/ \E h \in Handle : Guest(h) \/ MainThread(h) \/ ReadThread(h) \/ Upstream(h)

Spec == Init /\ [][Next]_vars

\* What the code's scheduling guarantees: the loop runs on, and a thread that can
\* step does. Of the guest it is assumed that one whose TCP is alive reads what
\* it is sent and acknowledges a FIN; nothing of what it sends or when it leaves,
\* and nothing of the upstream services.
Fairness ==
  /\ WF_vars(Loop)
  /\ \A h \in Handle : /\ WF_vars(MainThread(h))
                       /\ WF_vars(ReadThread(h))
                       /\ SF_vars(GuestReceive(h) \/ GuestAckFin(h))

FairSpec == Spec /\ Fairness

----------------------------------------------------------------------------
(* Safety *)

Chunks == Seq(Nat)
ChannelType == [q : Chunks, tx : BOOLEAN, rx : BOOLEAN]

\* The shapes of the loop's state; queues keep within the capacities the code
\* gives them, and no offset passes the end of its buffer.
SocketType ==
  [tcp : {"Listen", "Established", "CloseWait", "FinWait", "LastAck", "Closed"},
   rx : Chunks, tx : Chunks,
   state : {"None", "WaitingForData", "Shuttling", "Draining", "Closing", "Done"},
   pending : Chunks, offset : Nat, to : ChannelType, from : ChannelType]

WithinCaps(s) == /\ Len(s.rx) <= RxCap /\ Len(s.tx) <= TxCap
                 /\ Len(s.from.q) <= ChannelCap
                 /\ s.offset <= Len(s.pending)

LoopTypeOK ==
  /\ pc \in {"poll", "dns", "accept", "shuttle", "stopped"}
  /\ changed \in BOOLEAN
  /\ place \in [Handle -> {"unused", "backlog", "conn", "orphan", "reaped"}]
  /\ port \in [Handle -> Port \cup {"none"}]
  /\ dest \in [Handle -> IP]
  /\ host \in [Handle -> Names \cup {NoHost}]
  /\ discovered \subseteq Names
  /\ wr \in [Handle -> {"none", "open", "sending", "connect", "relay", "join", "done"}]
  /\ rd \in [Handle -> {"none", "reading", "sending", "done"}]
  /\ gsent \in [Handle -> Nat] /\ dsent \in [Handle -> Nat]
  /\ up \in [Handle -> Chunks] /\ got \in [Handle -> Chunks]
  /\ eof \in [Handle -> BOOLEAN]
  /\ c \in [Handle -> SocketType]
  /\ \A h \in Handle : WithinCaps(c[h])

\* The connection table never passes its limit, and every backlog keeps all its
\* slots: a socket that leaves one, accepted or rejected, is replaced there and
\* then (the scan in run, each branch of which replaces on its own).
SlotsKept ==
  /\ Cardinality(Conns) <= MaxConnections
  /\ \A p \in Port : Cardinality({h \in Placed("backlog") : port[h] = p}) = ListenBacklog

Count(n) == [i \in 1 .. n |-> i]
Prefix(s, t) == Len(s) <= Len(t) /\ s = SubSeq(t, 1, Len(s))

\* Guest to upstream: what a thread took is what the guest sent, in order and
\* without a gap; and while both ends of the channel exist every chunk is in
\* exactly one of the socket, the channel and the thread.
UpstreamInOrder ==
  \A h \in Handle :
    /\ Prefix(up[h], Count(gsent[h]))
    /\ place[h] = "backlog" => c[h].rx = Count(gsent[h])
    /\ c[h].to.tx /\ c[h].to.rx => up[h] \o c[h].to.q \o c[h].rx = Count(gsent[h])

Unsent(s) == SubSeq(s.pending, s.offset + 1, Len(s.pending))

\* What the guest is owed: its thread's chunks, or the one 421 response.
Owed(h) == IF port[h] # "Http" THEN Count(dsent[h])
           ELSE IF c[h].state \in {"None", "WaitingForData"} THEN <<>> ELSE <<1>>

\* Upstream to guest: chunks arrive in order, none twice, whatever the buffer,
\* the window and the compaction of pending_send do; while the connection has
\* not been cut they are in exactly one place each.
DownstreamInOrder ==
  \A h \in Handle :
    /\ Prefix(got[h] \o c[h].tx, Owed(h))
    /\ place[h] = "conn" => got[h] \o c[h].tx \o Unsent(c[h]) \o c[h].from.q = Owed(h)

\* The guest sees an end of stream only behind the last chunk its thread wrote:
\* the loop closes a socket once the thread has dropped its sender, the channel
\* is empty and pending_send is drained, not before.
NoTruncatedClose ==
  \A h \in Handle :
    c[h].tcp \in {"FinWait", "LastAck"} =>
      ~c[h].from.tx /\ got[h] \o c[h].tx = Owed(h)

\* An SSH relay exists only for a host the allowlist admits, and it is the host
\* whose lookup gave the guest the address it connected to, even if many names
\* were resolved since (the scan's reverse lookup over HostMap).
SshReachesHostAsked ==
  \A h \in Handle :
    port[h] = "Ssh" /\ wr[h] # "none" =>
      /\ host[h] \in Names
      /\ HasAllowlist => host[h] \in Allowlist
      /\ \A a \in answers : a[2] = dest[h] => a[1] = host[h]

\* A thread that outlives its connection is cut off from it: both its ends are
\* orphaned, so that its next send or receive can tell.
ReapedCutOff ==
  \A h \in Handle : place[h] = "reaped" => ~c[h].to.tx /\ ~c[h].from.rx

----------------------------------------------------------------------------
(* Liveness *)

GuestGone(h) ==
  place[h] = "conn" /\ c[h].tcp \in {"CloseWait", "LastAck", "Closed"}

\* Two shapes in which a connection whose guest has gone keeps its slot: a guest
\* that left before its first byte on port 80, a reset while bytes wait in
\* Draining.
Stuck(h) ==
  \/ c[h].state = "WaitingForData" /\ c[h].rx = <<>>
  \/ c[h].state = "Draining" /\ c[h].tcp = "Closed" /\ Unsent(c[h]) # <<>>

\* Two more, in which the guest has closed its side only and the relay's upstream
\* keeps the read thread: a forwarded service that neither sends nor closes, and
\* a service of either kind that never stops sending.
Silent(h)  == port[h] = "Forward" /\ c[h].tcp = "CloseWait" /\ rd[h] = "reading"
Talking(h) == port[h] \in {"Ssh", "Forward"} /\ c[h].tcp = "CloseWait"

\* When the guest closes or resets, its slot is released: the loop sees the
\* dead socket (proxy.rs:806), or the thread's timeouts end the connection for
\* it.  The four shapes above are named exceptions; of the last two it is said
\* that they go on for ever.
SlotsReleased ==
  \A h \in Handle :
    \/ GuestGone(h) ~> place[h] # "conn" \/ Stuck(h)
    \/ <>[]Silent(h)
    \/ []<>(Talking(h) /\ rd[h] = "reading") /\ []<>(Talking(h) /\ rd[h] = "sending")

\* Every chunk a thread wrote reaches the guest, unless the guest resets or the
\* proxy stops: no chunk is left in the channel, in pending_send or behind a
\* full window when everything else is idle.
AllDelivered ==
  \A h \in Handle, k \in 1 .. MaxDown :
    dsent[h] >= k ~> Len(got[h]) >= k \/ c[h].tcp = "Closed" \/ pc = "stopped"

\* Every chunk the guest sent on an accepted connection is handed to its thread,
\* also one that arrived together with the guest's FIN or reset, unless the
\* channel has lost one of its ends.
AllHandedOver ==
  \A h \in Handle, k \in 1 .. MaxUp :
    gsent[h] >= k /\ c[h].to.tx /\ c[h].to.rx
      ~> Len(up[h]) + Len(c[h].to.q) >= k \/ ~c[h].to.tx \/ ~c[h].to.rx

\* Threads of TLS and SSH connections end once their connection is gone, and no
\* more than their own timeouts later.
ThreadsEnd ==
  \A h \in Handle :
    place[h] = "reaped" /\ port[h] \in {"Tls", "Ssh"}
      ~> wr[h] = "done" /\ rd[h] \in {"none", "done"}
=============================================================================
