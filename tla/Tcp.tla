-------------------------------- MODULE Tcp ---------------------------------
(***************************************************************************)
(* One TCP connection of the network stack, with this code at both ends:   *)
(* the handshake, data with cumulative acknowledgements, the queue of      *)
(* segments kept for retransmission, the close handshake, resets.          *)
(* Source: kernel/net/tcp.c; every entry point runs under tcp_lock, so it  *)
(* is one step.                                                            *)
(*                                                                         *)
(* The network loses, delays, reorders and duplicates: a segment stays in  *)
(* net from when it is sent, and whether, when and how often it arrives is *)
(* open. A segment with a bad checksum is dropped on arrival and so counts *)
(* as lost, and so does an ACK that there was no memory for. Initial       *)
(* sequence numbers are 0, which makes the n-th byte of a side the one     *)
(* with sequence number n; numbers do not wrap.                            *)
(***************************************************************************)
EXTENDS Integers, Sequences, FiniteSets

CONSTANTS
    MaxBytes,      \* bound: bytes that the applications of both sides write
    RtxQueue,      \* TCP_RTX_QUEUE
    MaxRetries,    \* TCP_MAX_RETRIES
    MayCloseFirst, \* the sides whose application closes before the peer has
    Writers        \* the sides whose application writes

Sides == {"client", "server"}
Other(e) == IF e = "client" THEN "server" ELSE "client"

ASSUME RetriesAssumption == MaxRetries \in Nat \ {0}
ASSUME QueueAssumption   == RtxQueue \in Nat \ {0}

VARIABLES
    conn,      \* the entry of conns[] for the connection at each side
    recvd,     \* the bytes put into recv_buf, in order
    ended,     \* how the entry was given back: "no" until then
    net,       \* the segments that were sent
    unkept     \* history: the bytes that a side sent and did not keep

tcpVars == <<conn, recvd, ended, net, unkept>>

Flags == {"SYN", "ACK", "FIN", "RST"}

Closed == [state |-> "CLOSED", accepted |-> FALSE, seq |-> 0, ack |-> 0, rtx |-> <<>>]

Active(e) == conn[e].state # "CLOSED"

TcpInit ==
    /\ conn = [e \in Sides |-> Closed]
    /\ recvd = [e \in Sides |-> <<>>]
    /\ ended = [e \in Sides |-> "no"]
    /\ net = {}
    /\ unkept = [e \in Sides |-> {}]

----------------------------------------------------------------------------
(* Segments.                                                                *)

Segment(e, c, flags, len) ==
    [to |-> Other(e), flags |-> flags, seq |-> c.seq, ack |-> c.ack, len |-> len]

Has(m, flag) == flag \in m.flags

\* How much sequence space a segment takes.
Span(m) == m.len + (IF Has(m, "SYN") THEN 1 ELSE 0) + (IF Has(m, "FIN") THEN 1 ELSE 0)

\* There is room in the queue, and memory for a copy.
Keeps(rtx, memory) == memory /\ Len(rtx) < RtxQueue

\* A segment joins the queue, or does not.
Keep(rtx, m, memory) ==
    IF Keeps(rtx, memory) THEN Append(rtx, [seg |-> m, retries |-> 0]) ELSE rtx

\* send_segment: the entry c after it; Segment is what it put on the wire.
Sent(e, c, flags, len, memory) ==
    LET m == Segment(e, c, flags, len)
    IN  [c EXCEPT !.seq = @ + Span(m), !.rtx = IF Span(m) > 0 THEN Keep(@, m, memory) ELSE @]

\* e sends from the entry c, which is its entry otherwise.  Without memory for the segment nothing
\* is sent and no number taken, and of the callers only tcp_send passes that on.
Send(e, c, flags, len) ==
    \/ \E memory \in BOOLEAN :
          /\ conn' = [conn EXCEPT ![e] = Sent(e, c, flags, len, memory)]
          /\ net' = net \cup {Segment(e, c, flags, len)}
          /\ unkept' = [unkept EXCEPT ![e] = IF len > 0 /\ ~Keeps(c.rtx, memory) THEN @ \cup {c.seq} ELSE @]
    \/ /\ conn' = [conn EXCEPT ![e] = c]
       /\ UNCHANGED <<net, unkept>>

\* tcp_conn_release, and its like in tcp_tick.
Release(e, how) ==
    /\ conn' = [conn EXCEPT ![e] = Closed]
    /\ ended' = [ended EXCEPT ![e] = how]

----------------------------------------------------------------------------
(* What the applications ask.                                               *)

\* tcp_connect, on one side; the other has a listener.
Connect ==
    /\ conn["client"] = Closed /\ ended["client"] = "no"
    /\ Send("client", [Closed EXCEPT !.state = "SYN_SENT", !.accepted = TRUE], {"SYN"}, 0)
    /\ UNCHANGED <<recvd, ended>>

\* tcp_accept.
Accept ==
    /\ conn["server"].state \in {"ESTABLISHED", "CLOSE_WAIT"} /\ ~conn["server"].accepted
    /\ conn' = [conn EXCEPT !["server"].accepted = TRUE]
    /\ UNCHANGED <<recvd, ended, net, unkept>>

\* The bytes that e has put on the wire.
SentBytes(e) == {m.seq : m \in {n \in net : n.to = Other(e) /\ n.len > 0}}

\* tcp_send of a byte.
Write(e) ==
    /\ conn[e].state \in {"ESTABLISHED", "CLOSE_WAIT"} /\ conn[e].accepted
    /\ e \in Writers
    /\ Cardinality(SentBytes("client")) + Cardinality(SentBytes("server")) < MaxBytes
    /\ Send(e, conn[e], {"ACK"}, 1)
    /\ UNCHANGED <<recvd, ended>>

\* tcp_close.
Close(e) ==
    /\ conn[e].accepted
    /\ \/ /\ conn[e].state = "ESTABLISHED" /\ e \in MayCloseFirst
          /\ Send(e, [conn[e] EXCEPT !.state = "FIN_WAIT1"], {"FIN", "ACK"}, 0)
          /\ UNCHANGED ended
       \/ /\ conn[e].state = "CLOSE_WAIT"
          /\ Send(e, [conn[e] EXCEPT !.state = "LAST_ACK"], {"FIN", "ACK"}, 0)
          /\ UNCHANGED ended
       \/ /\ conn[e].state = "SYN_SENT"
          /\ Release(e, "dropped")
          /\ UNCHANGED <<net, unkept>>
    /\ UNCHANGED recvd

----------------------------------------------------------------------------
(* tcp_tick: the segments whose time-out has elapsed are sent again.        *)

\* The queue with one more attempt counted for the late ones.
Retried(rtx, late) ==
    [i \in DOMAIN rtx |-> IF i \in late /\ rtx[i].retries < MaxRetries
                          THEN [rtx[i] EXCEPT !.retries = @ + 1] ELSE rtx[i]]

Resend(e, late) ==
    /\ conn[e].rtx # <<>> /\ conn[e].rtx[1].retries < MaxRetries
    /\ late \subseteq DOMAIN conn[e].rtx /\ late # {}
    /\ conn' = [conn EXCEPT ![e].rtx = Retried(@, late)]
    /\ net' = net \cup {conn[e].rtx[i].seg : i \in late}
    /\ UNCHANGED <<recvd, ended, unkept>>

GiveUp(e) ==
    /\ conn[e].rtx # <<>> /\ conn[e].rtx[1].retries >= MaxRetries
    /\ Release(e, "given up")
    /\ UNCHANGED <<recvd, net, unkept>>

----------------------------------------------------------------------------
(* tcp_handle_packet.                                                       *)

\* A first SYN makes an entry; the model lets it happen once.
Spawn(m) ==
    /\ m.to = "server" /\ ~Active("server") /\ ended["server"] = "no"
    /\ Has(m, "SYN") /\ ~Has(m, "ACK")
    /\ Send("server", [Closed EXCEPT !.state = "SYN_RCVD", !.ack = m.seq + 1], {"SYN", "ACK"}, 0)
    /\ UNCHANGED <<recvd, ended>>

\* Anything else for which there is no entry is answered by a reset.
Refuse(m) ==
    /\ ~Active(m.to) /\ ~Has(m, "RST") /\ ended[m.to] # "no"
    /\ net' = net \cup {[to |-> Other(m.to), flags |-> {"RST", "ACK"},
                         seq |-> 0, ack |-> m.seq + 1, len |-> 0]}
    /\ UNCHANGED <<conn, recvd, ended, unkept>>

\* Mutant: an acknowledgement of its beginning clears a segment.
AckSeqShort(m) == m.seq

\* The acknowledgement that clears a segment.
AckSeq(m) == m.seq + Span(m)

\* The cumulative acknowledgement clears what ends at or before it, from the oldest.
Unacked(rtx, ack) ==
    LET cleared == {i \in DOMAIN rtx : \A j \in 1..i : AckSeq(rtx[j].seg) <= ack}
    IN  SubSeq(rtx, Cardinality(cleared) + 1, Len(rtx))

\* All that was sent is acknowledged, the FIN too if it was sent.
AllAcked(e, m) == Has(m, "ACK") /\ m.ack >= conn[e].seq

\* The entry once the acknowledgement in m has been seen to.
AfterAck(e, m) ==
    LET c == conn[e]
    IN  IF ~Has(m, "ACK") THEN c
        ELSE [c EXCEPT !.rtx = Unacked(@, m.ack),
                       !.state = IF @ = "FIN_WAIT1" /\ AllAcked(e, m) THEN "FIN_WAIT2"
                                 ELSE IF @ = "SYN_RCVD" THEN "ESTABLISHED" ELSE @]

HasData(m) == m.len > 0 /\ Has(m, "ACK")

\* Mutant: the payload is taken wherever it starts.
InAnyOrder(c, m) == TRUE

InOrder(c, m) == m.seq = c.ack

\* The entry once the payload or the SYN-ACK has been seen to; stored says that there was memory.
AfterData(c, m, stored) ==
    IF HasData(m) THEN (IF stored THEN [c EXCEPT !.ack = m.seq + m.len] ELSE c)
    ELSE IF Has(m, "SYN") /\ Has(m, "ACK") /\ c.state = "SYN_SENT"
         THEN [c EXCEPT !.ack = m.seq + 1, !.state = "ESTABLISHED"]
    ELSE c

\* Whether that is acknowledged: out of order too, but not when memory was short.
Acks(c, m, stored) ==
    \/ HasData(m) /\ (stored \/ ~InOrder(c, m))
    \/ ~HasData(m) /\ AfterData(c, m, stored) # c

\* The FIN of m counts, unless it comes after data that was not stored.
TakesFin(m, stored) == Has(m, "FIN") /\ (m.len > 0 => stored)

AfterFin(c, m) == [c EXCEPT !.ack = m.seq + m.len + 1]

Ack(e, c) == Segment(e, c, {"ACK"}, 0)

\* The last acknowledgement of a passive close.
FinishClose(m) ==
    LET e == m.to
    IN  /\ conn[e].state = "LAST_ACK" /\ AllAcked(e, m)
        /\ Release(e, "closed")
        /\ UNCHANGED <<recvd, net, unkept>>

Receive(m, stored) ==
    LET e   == m.to
        c1  == AfterAck(e, m)
        c2  == AfterData(c1, m, stored)
        fin == TakesFin(m, stored)
        c3  == AfterFin(c2, m)
        now == IF Acks(c1, m, stored) THEN {Ack(e, c2)} ELSE {}
    IN  /\ Active(e) /\ UNCHANGED unkept
        /\ ~(conn[e].state = "LAST_ACK" /\ AllAcked(e, m))
        /\ stored => HasData(m) /\ InOrder(c1, m)
        /\ recvd' = [recvd EXCEPT ![e] =
                        IF stored THEN @ \o [i \in 1..m.len |-> m.seq + i - 1] ELSE @]
        /\ \/ /\ fin /\ c2.state = "ESTABLISHED"
              /\ conn' = [conn EXCEPT ![e] = [c3 EXCEPT !.state = "CLOSE_WAIT"]]
              /\ net' = net \cup now \cup {Ack(e, c3)}
              /\ UNCHANGED ended
           \/ /\ fin /\ c2.state \in {"FIN_WAIT1", "FIN_WAIT2"}
              /\ Release(e, "closed")
              /\ net' = net \cup now \cup {Ack(e, c3)}
           \/ /\ ~fin \/ c2.state \in {"SYN_SENT", "CLOSE_WAIT", "LAST_ACK"}
              /\ conn' = [conn EXCEPT ![e] = c2]
              /\ net' = net \cup now
              /\ UNCHANGED ended

TcpNext ==
    \/ Connect \/ Accept
    \/ \E e \in Sides :
          \/ Write(e) \/ Close(e) \/ GiveUp(e)
          \/ \E late \in SUBSET (1..RtxQueue) : Resend(e, late)
    \/ \E m \in net :
          \/ Spawn(m) \/ Refuse(m) \/ FinishClose(m)
          \/ \E stored \in BOOLEAN : Receive(m, stored)

TcpSpec == TcpInit /\ [][TcpNext]_tcpVars
=============================================================================
