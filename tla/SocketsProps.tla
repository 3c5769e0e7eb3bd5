---------------------------- MODULE SocketsProps -----------------------------
(***************************************************************************)
(* What the socket layer has to guarantee.                                 *)
(***************************************************************************)
EXTENDS Sockets

ConnStates == {"CLOSED", "LISTEN", "SYN_SENT", "SYN_RCVD", "ESTABLISHED", "FIN_WAIT1",
               "FIN_WAIT2", "CLOSE_WAIT", "LAST_ACK"}
AllPorts   == Ports \cup {NoPort} \cup EphemeralBase..(EphemeralEnd - 1)

\* The types of the variables.
SockTypeOK ==
    /\ conns \in [ConnIds -> [state : ConnStates, accepted : BOOLEAN, sport : AllPorts,
                              dport : AllPorts, due : BOOLEAN]]
    /\ nsocks \in [SockIds -> [used : BOOLEAN, conn : ConnIds \cup {NoConn}, listening : BOOLEAN,
                               mine : {<<>>} \cup (AllPorts \X AllPorts)]]
    /\ sfds \in [Peers -> [SFds -> SockIds \cup {NoSock}]]
    /\ ring \in Seq([kind : {"SYN", "SYNACK", "ACK", "FIN", "RST"}, from : AllPorts,
                      to : AllPorts, covers : BOOLEAN])
    /\ Len(ring) <= RingLen
    /\ ephemeral \in AllPorts /\ made \in 0..MaxSockets
    /\ dialled \in 0..MaxConnects /\ orphans \subseteq ConnIds

InUse == {s \in SockIds : nsocks[s].used /\ nsocks[s].conn # NoConn}

\* Two entries never have the same pair of ports, so that a segment has one entry to go to.
PairsDiffer ==
    \A c, d \in ConnIds :
       conns[c].state \notin {"CLOSED", "LISTEN"} /\ Ports2(conns[c]) = Ports2(conns[d]) => c = d

\* No port of the range has been taken twice.
FirstRound == dialled <= EphemeralEnd - EphemeralBase

\* Programs that use sockets at once do not meet in a connection: an index that a socket keeps
\* still is that of the connection it was given, no two sockets have the same one, and until the
\* source ports have been around once a segment has one entry to go to.
SessionsApart ==
    /\ \A s \in InUse : Ports2(conns[nsocks[s].conn]) = nsocks[s].mine
    /\ \A s, r \in InUse : nsocks[s].conn = nsocks[r].conn => s = r
    /\ FirstRound => PairsDiffer

\* What the comment of nsock_connect says is mended, and ports that have been around once bring
\* back: a connect takes the pair of an entry that waits for its peer to close, so that its SYN
\* goes to the peer's old entry and makes no connection (net.c).
SourcePortIsFresh ==
    \A c, d \in ConnIds :
       conns[c].state = "SYN_SENT" /\ conns[d].state = "FIN_WAIT2"
       => Ports2(conns[c]) # Ports2(conns[d])

Fd(s) == {h \in Peers \X SFds : sfds[h[1]][h[2]] = s}

\* Nothing is lost between the three tables: a socket in use has one descriptor, and an entry
\* that a program made or accepted, and has not closed, has a socket, unless a full table or a
\* second connect has left it behind.
HandlesExact ==
    /\ \A s \in SockIds : Cardinality(Fd(s)) = IF nsocks[s].used THEN 1 ELSE 0
    /\ \A c \in ConnIds :
          \/ conns[c].state \in {"LISTEN", "SYN_SENT"}
          \/ /\ conns[c].state \in {"ESTABLISHED", "CLOSE_WAIT"}
             /\ conns[c].accepted \/ conns[c].sport >= EphemeralBase
          => c \in orphans \/ \E s \in InUse : nsocks[s].conn = c
=============================================================================
