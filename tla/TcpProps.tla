------------------------------ MODULE TcpProps ------------------------------
(***************************************************************************)
(* What a TCP connection has to guarantee over a network that may lose,    *)
(* delay, reorder and duplicate every segment.                             *)
(***************************************************************************)
EXTENDS Tcp

States == {"CLOSED", "SYN_SENT", "SYN_RCVD", "ESTABLISHED", "FIN_WAIT1", "FIN_WAIT2",
           "CLOSE_WAIT", "LAST_ACK"}

\* The types of the variables.
TcpTypeOK ==
    /\ \A e \in Sides :
          /\ conn[e].state \in States
          /\ conn[e].seq \in 0..(MaxBytes + 2) /\ conn[e].ack \in 0..(MaxBytes + 2)
          /\ Len(conn[e].rtx) <= RtxQueue
          /\ \A i \in DOMAIN conn[e].rtx :
                conn[e].rtx[i].seg \in net /\ conn[e].rtx[i].retries \in 0..MaxRetries
          /\ ended[e] \in {"no", "closed", "dropped", "given up"}
          /\ unkept[e] \subseteq 0..(MaxBytes + 1)
    /\ \A m \in net : m.to \in Sides /\ m.flags \subseteq Flags

\* recv_buf holds a beginning of what the peer wrote: no byte twice, none skipped, none out of
\* place, whatever is retransmitted, duplicated or overtaken on the way.
ReceivedInOrder == \A e \in Sides : recvd[e] = [i \in 1..Len(recvd[e]) |-> i]

\* Those that it can send again.
Kept(e) == {r.seg.seq : r \in {conn[e].rtx[i] : i \in DOMAIN conn[e].rtx}}

Received(e) == {recvd[e][i] : i \in DOMAIN recvd[e]}

\* Until e closes, and while its peer has an entry, a byte that e sent is in the peer's recv_buf,
\* or still in the queue of e for retransmission unless send_segment could not put it there: an
\* acknowledgement never clears what is not stored.
KeptUntilReceived ==
    \A e \in Sides :
       conn[e].state = "ESTABLISHED" /\ ended[Other(e)] = "no"
       => SentBytes(e) \subseteq Received(Other(e)) \cup Kept(e) \cup unkept[e]

\* The FIN of e went out.
FinOut(e) == \E m \in net : m.to = Other(e) /\ Has(m, "FIN")

PastEstablished(e) == conn[e].state \notin {"SYN_SENT", "SYN_RCVD", "ESTABLISHED"}

\* A side that has sent its FIN and takes it for acknowledged, or has finished closing, is right:
\* its peer is past ESTABLISHED or is gone.
FinNeverAssumed ==
    \A e \in Sides :
       (conn[e].state = "FIN_WAIT2" /\ FinOut(e)) \/ ended[e] = "closed"
       => PastEstablished(Other(e))

\* What a side takes for acknowledged, byte or FIN, its peer has.
AcknowledgedIsThere == KeptUntilReceived /\ FinNeverAssumed

----------------------------------------------------------------------------
(* What the comments say, and memory that runs short refutes.               *)

\* FIN_WAIT2 says that our FIN is acknowledged: there is a FIN, and the peer has seen it (tcp.c).
FinAcknowledged ==
    \A e \in Sides : conn[e].state = "FIN_WAIT2" => PastEstablished(Other(e))

\* Lost data stays recoverable: what the peer has not stored is in the queue (tcp.h).
LostIsRecoverable ==
    \A e \in Sides :
       conn[e].state = "ESTABLISHED" /\ ended[Other(e)] = "no"
       => SentBytes(e) \subseteq Received(Other(e)) \cup Kept(e)
=============================================================================
