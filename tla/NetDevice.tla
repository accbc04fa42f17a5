----------------------------- MODULE NetDevice -----------------------------
(***************************************************************************)
(* `VirtioNetDevice`: Ethernet frames over a Unix stream socket, each      *)
(* behind a length prefix, between the poll loop and libkrun's virtio-net  *)
(* backend (the peer, external).  The socket keeps no frame boundaries:    *)
(* both sides stay in step only as long as every prefix and every body is  *)
(* written and read whole.  The device's socket is non-blocking, except    *)
(* while it reads a body.                                                  *)
(*                                                                         *)
(* A frame is a record of its number and its length, and goes over the     *)
(* wire as two prefix units and one unit per length.                       *)
(***************************************************************************)
EXTENDS Integers, Sequences, SequencesExt

CONSTANTS
  MaxFrame,   \* 65536, the largest length accepted
  Room,       \* what the socket's send buffer holds, in units
  TxLens,     \* lengths of the frames smoltcp sends
  RxLens,     \* lengths of the frames the peer sends
  MaxTx,      \* bound: frames smoltcp sends
  MaxRx       \* bound: frames the peer sends

\* An Ethernet frame has a header, so it is never empty.
ASSUME NetAssumption ==
  /\ MaxFrame \in Nat /\ Room \in Nat
  /\ TxLens \subseteq Nat \ {0} /\ RxLens \subseteq Nat \ {0}

VARIABLES
  pc,         \* where the loop is: top, poll, body, flush, flushBody or stopped
  popped,     \* the frame flush_tx has taken from pending_tx
  pending_tx,
  peer_closed,
  rxLen,      \* frame_len, while its body is read
  out,        \* everything ever written to the socket
  taken,      \* how much of it the peer has read
  in,         \* everything the peer ever wrote
  pos,        \* how much of it the device has read
  gone,       \* the peer has closed its end
  cut,        \* history: write_all failed behind the first unit of a frame
  lost,       \* history: the numbers of the frames that found no room at all
  sent,       \* history: the frames smoltcp sent
  peerSent,   \* history: the frames the peer began
  got         \* history: the numbers of the frames handed to smoltcp

txVars  == <<popped, pending_tx, out, cut, lost, sent>>
rxVars  == <<rxLen, pos, got, peer_closed>>
peerVars == <<taken, in, gone, peerSent>>
netVars == <<pc, txVars, rxVars, peerVars>>

None == [id |-> 0, len |-> 0]

Prefix(f) == <<<<f.id, "hi", f.len>>, <<f.id, "lo", f.len>>>>
Body(f)   == [i \in 1 .. f.len |-> <<f.id, "body", i>>]
Encode(f) == Prefix(f) \o Body(f)
Stream(fs) == FlattenSeq([i \in DOMAIN fs |-> Encode(fs[i])])

----------------------------------------------------------------------------
(* flush_tx *)

Unread == Len(out) - taken
Fits(units) == Unread + Len(units) <= Room

\* write_all on a non-blocking socket: what fits goes out, and the rest makes
\* it fail; so does a peer that is gone, with nothing written.
WriteAll(units) ==
  /\ out' = IF gone THEN out
            ELSE out \o SubSeq(units, 1, IF Fits(units) THEN Len(units) ELSE Room - Unread)
  /\ cut' = (cut \/ (~gone /\ ~Fits(units) /\ (pc = "flushBody" \/ Unread < Room)))

\* Mutant: the queue is drained, and a failed write drops the rest of it.
FlushPrefix_Drains ==
  /\ pc = "flush" /\ pending_tx # <<>>
  /\ popped' = Head(pending_tx)
  /\ WriteAll(Prefix(popped'))
  /\ lost' = IF ~gone /\ Unread >= Room THEN lost \cup {popped'.id} ELSE lost
  /\ pc' = IF ~gone /\ Fits(Prefix(popped')) THEN "flushBody" ELSE "top"
  /\ pending_tx' = IF pc' = "top" THEN <<>> ELSE Tail(pending_tx)
  /\ UNCHANGED <<sent, rxVars, peerVars>>

\* A frame leaves the queue before its prefix is written: when that fails the
\* frame is lost, and the rest of the queue waits for the next pass.
FlushPrefix ==
  /\ pc = "flush" /\ pending_tx # <<>>
  /\ popped' = Head(pending_tx)
  /\ pending_tx' = Tail(pending_tx)
  /\ WriteAll(Prefix(popped'))
  /\ lost' = IF ~gone /\ Unread >= Room THEN lost \cup {popped'.id} ELSE lost
  /\ pc' = IF ~gone /\ Fits(Prefix(popped')) THEN "flushBody" ELSE "top"
  /\ UNCHANGED <<sent, rxVars, peerVars>>

FlushBody ==
  /\ pc = "flushBody"
  /\ WriteAll(Body(popped))
  /\ pc' = IF ~gone /\ Fits(Body(popped)) THEN "flush" ELSE "top"
  /\ popped' = None
  /\ UNCHANGED <<pending_tx, lost, sent, rxVars, peerVars>>

FlushEnds ==
  /\ pc = "flush" /\ pending_tx = <<>>
  /\ pc' = "top"
  /\ UNCHANGED <<txVars, rxVars, peerVars>>

----------------------------------------------------------------------------
(* receive, transmit *)

Arrived == SubSeq(in, pos + 1, Len(in))

\* TxToken::consume, called by smoltcp for a reply to a frame or for a socket.
Transmit(n) ==
  /\ pc = "poll"
  /\ Len(sent) < MaxTx
  /\ LET f == [id |-> Len(sent) + 1, len |-> n]
     IN  pending_tx' = Append(pending_tx, f) /\ sent' = Append(sent, f)
  /\ UNCHANGED <<pc, popped, out, cut, lost, rxVars, peerVars>>

Oversized(n) == n > MaxFrame

\* A whole prefix: an oversized frame ends the connection, any other is read
\* in blocking mode.
RecvPrefix ==
  /\ pc = "poll" /\ ~peer_closed
  /\ Len(Arrived) >= 2
  /\ pos' = pos + 2
  /\ IF Oversized(Arrived[1][3])
     THEN peer_closed' = TRUE /\ UNCHANGED <<pc, rxLen>>
     ELSE pc' = "body" /\ rxLen' = Arrived[1][3] /\ UNCHANGED peer_closed
  /\ UNCHANGED <<got, txVars, peerVars>>

\* Mutant: the body, too, is read without blocking.
RecvBody_NonBlocking ==
  /\ pc = "body"
  /\ pos' = pos + (IF Len(Arrived) >= rxLen THEN rxLen ELSE Len(Arrived))
  /\ got' = IF Len(Arrived) >= rxLen THEN Append(got, Arrived[1][1]) ELSE got
  /\ pc' = "poll" /\ rxLen' = 0
  /\ UNCHANGED <<peer_closed, txVars, peerVars>>

\* The whole loop waits here until the body is there or the peer is gone; in
\* that case what arrived is read and dropped and peer_closed is left alone.
RecvBody ==
  /\ pc = "body"
  /\ Len(Arrived) >= rxLen \/ gone
  /\ pos' = pos + (IF Len(Arrived) >= rxLen THEN rxLen ELSE Len(Arrived))
  /\ got' = IF Len(Arrived) >= rxLen THEN Append(got, Arrived[1][1]) ELSE got
  /\ pc' = "poll" /\ rxLen' = 0
  /\ UNCHANGED <<peer_closed, txVars, peerVars>>

\* Mutant: the end of the stream is taken for an empty one.
RecvNothing_IgnoresEof ==
  /\ pc = "poll"
  /\ peer_closed \/ Len(Arrived) < 2
  /\ pc' = "flush"
  /\ UNCHANGED <<peer_closed, pos, rxLen, got, txVars, peerVars>>

\* No prefix to read: smoltcp's poll ends. WouldBlock is no frame,
\* UnexpectedEof also sets peer_closed.
RecvNothing ==
  /\ pc = "poll"
  /\ peer_closed \/ Len(Arrived) < 2
  /\ peer_closed' = (peer_closed \/ gone)
  /\ pos' = IF peer_closed THEN pos ELSE Len(in)
  /\ pc' = "flush"
  /\ UNCHANGED <<rxLen, got, txVars, peerVars>>

\* run: the loop ends when it finds peer_closed at its top.
Top ==
  /\ pc = "top"
  /\ pc' = IF peer_closed THEN "stopped" ELSE "poll"
  /\ UNCHANGED <<txVars, rxVars, peerVars>>

----------------------------------------------------------------------------
(* The peer: it writes a prefix in one piece and the body in any number of *)
(* pieces, and may die between any two of them.                            *)

Writing == LET whole == Stream(peerSent) IN SubSeq(whole, Len(in) + 1, Len(whole))

PeerBegins(n) ==
  /\ ~gone /\ Writing = <<>> /\ Len(peerSent) < MaxRx
  /\ peerSent' = Append(peerSent, [id |-> Len(peerSent) + 1, len |-> n])
  /\ in' = in \o Prefix(Last(peerSent'))
  /\ UNCHANGED <<pc, taken, gone, txVars, rxVars>>

PeerWrites ==
  /\ ~gone /\ Writing # <<>>
  /\ in' = Append(in, Writing[1])
  /\ UNCHANGED <<pc, taken, gone, peerSent, txVars, rxVars>>

PeerReads ==
  /\ ~gone /\ Unread > 0
  /\ taken' = taken + 1
  /\ UNCHANGED <<pc, in, gone, peerSent, txVars, rxVars>>

PeerCloses ==
  /\ ~gone
  /\ gone' = TRUE
  /\ UNCHANGED <<pc, taken, in, peerSent, txVars, rxVars>>

----------------------------------------------------------------------------
NetInit ==
  /\ pc = "top" /\ popped = None /\ pending_tx = <<>> /\ peer_closed = FALSE
  /\ rxLen = 0 /\ out = <<>> /\ taken = 0 /\ in = <<>> /\ pos = 0
  /\ gone = FALSE /\ cut = FALSE /\ lost = {} /\ sent = <<>> /\ peerSent = <<>> /\ got = <<>>

Device == FlushPrefix \/ FlushBody \/ FlushEnds \/ RecvPrefix \/ RecvBody \/ RecvNothing \/ Top

Next ==
  \/ Device
  \/ \E n \in TxLens : Transmit(n)
  \/ \E n \in RxLens : PeerBegins(n)
  \/ PeerWrites \/ PeerReads \/ PeerCloses

\* The loop keeps polling, and a peer that began a frame ends it or dies.
Fairness == WF_netVars(Device) /\ WF_netVars(PeerWrites)

NetSpec == NetInit /\ [][Next]_netVars /\ Fairness

----------------------------------------------------------------------------
\* What goes out is the frames smoltcp sent, whole and in their order: every
\* frame that left the queue is on the wire, but those whose prefix found the
\* send buffer full, which are lost whole, as Ethernet may -- as long as no
\* write_all ended behind the first unit of a frame.  flush_tx does not
\* remember such a rest, and every frame behind it is read by the peer out of
\* step (net.rs:38-52).
TxInStep ==
  ~cut => \E n \in 0 .. Len(sent) : \E at \in [1 .. n -> 1 .. Len(sent)] :
            LET begun == [i \in 1 .. n |-> sent[at[i]]]
            IN  /\ \A i, j \in 1 .. n : i < j => at[i] < at[j]
                /\ {at[i] : i \in 1 .. n} = (1 .. Len(sent) - Len(pending_tx)) \ lost
                /\ IsPrefix(out, Stream(begun))
                /\ pc # "flushBody" => gone \/ out = Stream(begun)

\* What smoltcp is handed is the frames the peer sent, in their order and none
\* missing, however the bodies are cut up on their way; a body the peer did not
\* live to finish is handed to nobody (net.rs:54-94).
RxInStep ==
  /\ got = [i \in 1 .. Len(got) |-> i]
  /\ \A i \in 1 .. Len(got) : peerSent[i].len <= MaxFrame
  /\ ~gone /\ ~peer_closed =>
       pos = Len(Stream(SubSeq(peerSent, 1, Len(got)))) + IF pc = "body" THEN 2 ELSE 0

\* The loop notices that the virtual machine is gone and returns, also when it
\* was reading a body or could not write (net.rs:59-68, proxy.rs:363).
LossNoticed == gone ~> pc = "stopped"
=============================================================================
