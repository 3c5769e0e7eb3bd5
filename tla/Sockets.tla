------------------------------ MODULE Sockets -------------------------------
(***************************************************************************)
(* Stream sockets: the descriptors of the programs, the table of sockets   *)
(* behind them, and the table of TCP connections behind those, for         *)
(* programs that connect to one another over the loopback.                 *)
(* Sources: nsock_* and kernel_poll_net in kernel/net/net.c; the table     *)
(* conns[] and the life of its entries in kernel/net/tcp.c; the ring of    *)
(* looped packets in kernel/net/ip.c; SYS_SOCKET, SYS_ACCEPT and SYS_CLOSE *)
(* in kernel/core/syscall.c; close_proc_fds in kernel/proc/process.c.      *)
(*                                                                         *)
(* Programs run on cores of their own; what happens under net_lock is a    *)
(* step, or one for each segment of a poll.  A call that polls (connect,   *)
(* accept, read) may give up at any time and leaves nothing behind, so it  *)
(* is the step that succeeds.  A program has one thread and does not dup a *)
(* socket.  Data, sequence numbers, and segments for which there is no     *)
(* memory are in Tcp; of an acknowledgement only what it does to the       *)
(* handshakes is kept.  dialled is a history variable.                     *)
(***************************************************************************)
EXTENDS Integers, FiniteSets, Sequences

CONSTANTS
    Clients,     \* the programs that connect
    Servers,     \* the programs that listen
    NSocks,      \* MAX_SOCKETS
    NConns,      \* TCP_MAX_CONNS
    SockFds,     \* descriptors of a program
    Ports,       \* those that servers bind; all below EphemeralBase
    EphemeralBase, \* the source ports of connect are those from here ...
    EphemeralEnd,  \* ... to below this one: 40000 and 60000
    RingLen,     \* packets that the ring of looped packets has room for
    MaxSockets,  \* bound: calls of socket
    MaxConnects, \* bound: calls of connect
    Reuses,      \* whether a program listens or connects again on a socket that has done so
    CutsOff      \* whether a connection is given up while a program has it

Peers   == Clients \cup Servers
SockIds == 1..NSocks
ConnIds == 1..NConns
SFds    == 1..SockFds
NoSock  == 0
NoConn  == 0
NoPort  == 0

ASSUME PortsAssumption ==
    /\ Ports \subseteq Nat \ {NoPort} /\ {EphemeralBase, EphemeralEnd} \subseteq Nat
    /\ EphemeralBase < EphemeralEnd /\ \A p \in Ports : p < EphemeralBase
ASSUME TablesAssumption ==
    /\ {NSocks, NConns, SockFds, RingLen, MaxSockets, MaxConnects} \subseteq Nat
    /\ Reuses \in BOOLEAN /\ CutsOff \in BOOLEAN

VARIABLES
    conns,      \* conns[]
    nsocks,     \* nsocks[]; mine is the pair of ports that a socket was given
    sfds,       \* the descriptors of a program
    ring,       \* lo_ring, the segments on their way
    ephemeral,  \* the next source port
    made,       \* how often socket was called
    dialled,    \* how often connect has taken a port
    orphans     \* the connections that their socket has lost sight of

sockVars == <<conns, nsocks, sfds, ring, ephemeral, made, dialled, orphans>>

Inactive == [state |-> "CLOSED", accepted |-> FALSE, sport |-> NoPort, dport |-> NoPort,
             due |-> FALSE]
NewConn(state, sport, dport) ==
    [state |-> state, accepted |-> FALSE, sport |-> sport, dport |-> dport, due |-> TRUE]
NewSock == [used |-> TRUE, conn |-> NoConn, listening |-> FALSE, mine |-> <<>>]
NotUsed == [NewSock EXCEPT !.used = FALSE]

SockInit ==
    /\ conns = [c \in ConnIds |-> Inactive]
    /\ nsocks = [s \in SockIds |-> NotUsed]
    /\ sfds = [t \in Peers |-> [f \in SFds |-> NoSock]]
    /\ ring = <<>>
    /\ ephemeral = EphemeralBase /\ made = 0 /\ dialled = 0
    /\ orphans = {}

Lowest1(S) == CHOOSE i \in S : \A j \in S : i <= j

FreeConns == {c \in ConnIds : conns[c].state = "CLOSED"}      \* find_slot
FreeSocks == {s \in SockIds : ~nsocks[s].used}
FreeFds(t) == {f \in SFds : sfds[t][f] = NoSock}
Ports2(c) == <<c.sport, c.dport>>

----------------------------------------------------------------------------
(* Segments.  covers says that the acknowledgement is one of all the        *)
(* receiver has sent, its FIN included.                                     *)

Seg(kind, from, to, covers) == [kind |-> kind, from |-> from, to |-> to, covers |-> covers]

TakenFin(c) == c.state \in {"CLOSE_WAIT", "LAST_ACK"}

SegOf(kind, c) == Seg(kind, c.sport, c.dport, TakenFin(c))

\* What an entry sends again until it is acknowledged.
Unanswered(c) ==
    SegOf(CASE c.state = "SYN_SENT" -> "SYN" [] c.state = "SYN_RCVD" -> "SYNACK" [] OTHER -> "FIN", c)

\* loopback_enqueue: a packet for which there is no room is dropped.
Enqueued(r, p) == IF Len(r) < RingLen THEN Append(r, p) ELSE r

Sends(p) == ring' = Enqueued(ring, p)

\* The entries when c is released.
Without(c) == [conns EXCEPT ![c] = Inactive]

\* tcp_close of c: a FIN, or the end of the entry.
Shut(c) ==
    LET to == IF conns[c].state = "ESTABLISHED" THEN "FIN_WAIT1" ELSE "LAST_ACK"
        shut == [conns[c] EXCEPT !.state = to, !.due = TRUE]
    IN  IF c # NoConn /\ conns[c].state \in {"ESTABLISHED", "CLOSE_WAIT"}
        THEN conns' = [conns EXCEPT ![c] = shut] /\ Sends(SegOf("FIN", shut))
        ELSE /\ conns' = IF c = NoConn THEN conns ELSE Without(c)
             /\ UNCHANGED ring

----------------------------------------------------------------------------
(* The calls.                                                               *)

\* SYS_SOCKET: a socket for which there is no descriptor is closed again.
Socket(t) ==
    /\ FreeSocks # {} /\ FreeFds(t) # {}
    /\ made < MaxSockets /\ made' = made + 1
    /\ nsocks' = [nsocks EXCEPT ![Lowest1(FreeSocks)] = NewSock]
    /\ sfds' = [sfds EXCEPT ![t][Lowest1(FreeFds(t))] = Lowest1(FreeSocks)]
    /\ UNCHANGED <<conns, ring, ephemeral, dialled, orphans>>

\* The socket gets connection c, whatever it had before.
Attached(s, c, listening) ==
    /\ nsocks' = [nsocks EXCEPT ![s].conn = c, ![s].listening = @ \/ listening,
                                ![s].mine = Ports2(conns'[c])]
    /\ orphans' = orphans \cup {old \in {nsocks[s].conn} \ {NoConn} : conns[old].state # "CLOSED"}

\* nsock_bind, which only notes the port, and nsock_listen.
Listen(s, port) ==
    LET c == Lowest1(FreeConns)
    IN  /\ FreeConns # {} /\ (Reuses \/ nsocks[s].conn = NoConn)
        /\ conns' = [conns EXCEPT ![c] = [NewConn("LISTEN", port, NoPort) EXCEPT !.due = FALSE]]
        /\ Attached(s, c, TRUE)
        /\ UNCHANGED <<sfds, ring, ephemeral, made, dialled>>

\* Mutant: another connect reads the counter before this one has stored it.
ReadTwice(port) == port

\* ephemeral++, and around at the end of the range.
NextPort(port) == IF port + 1 >= EphemeralEnd THEN EphemeralBase ELSE port + 1

\* nsock_connect.
ConnectTo(s, port) ==
    LET c   == Lowest1(FreeConns)
        new == NewConn("SYN_SENT", ephemeral, port)
    IN  /\ dialled < MaxConnects /\ (Reuses \/ nsocks[s].conn = NoConn)
        /\ ephemeral' = NextPort(ephemeral) /\ dialled' = dialled + 1
        /\ IF FreeConns = {} THEN UNCHANGED <<conns, nsocks, ring, orphans>>
           ELSE /\ conns' = [conns EXCEPT ![c] = new]
                /\ Sends(SegOf("SYN", new))
                /\ Attached(s, c, FALSE)
        /\ UNCHANGED <<sfds, made>>

\* tcp_accept.
Waiting(l) ==
    {c \in ConnIds : /\ conns[c].state \in {"ESTABLISHED", "CLOSE_WAIT"}
                     /\ ~conns[c].accepted /\ conns[c].sport = conns[l].sport}

\* Mutant: a connection for which there is no descriptor stays with its socket.
KeptWithoutFd(t, child) ==
    /\ conns' = [conns EXCEPT ![child].accepted = TRUE]
    /\ nsocks' = [nsocks EXCEPT ![Lowest1(FreeSocks)] =
                     [NewSock EXCEPT !.conn = child, !.mine = Ports2(conns[child])]]
    /\ UNCHANGED <<sfds, ring, orphans>>

\* SYS_ACCEPT without a descriptor: nsock_close of the socket that nsock_accept has just made.
\* (Whether a connection that is being closed was accepted does not matter.)
ClosedAgain(t, child) ==
    /\ Shut(child)
    /\ UNCHANGED <<nsocks, sfds, orphans>>

\* SYS_ACCEPT of a connection that waits; without a free socket nobody has it.
Accepts(t, s) ==
    LET child == Lowest1(Waiting(nsocks[s].conn))
        new   == Lowest1(FreeSocks)
    IN  /\ nsocks[s].listening /\ nsocks[s].conn # NoConn
        /\ conns[nsocks[s].conn].state = "LISTEN" /\ Waiting(nsocks[s].conn) # {}
        /\ \/ /\ FreeSocks # {} /\ FreeFds(t) # {}
              /\ conns' = [conns EXCEPT ![child].accepted = TRUE]
              /\ nsocks' = [nsocks EXCEPT ![new] = [NewSock EXCEPT !.conn = child,
                                                               !.mine = Ports2(conns[child])]]
              /\ sfds' = [sfds EXCEPT ![t][Lowest1(FreeFds(t))] = new]
              /\ UNCHANGED <<ring, orphans>>
           \/ /\ FreeSocks # {} /\ FreeFds(t) = {}
              /\ ClosedAgain(t, child)
           \/ /\ FreeSocks = {}
              /\ conns' = [conns EXCEPT ![child].accepted = TRUE]
              /\ orphans' = orphans \cup {child}
              /\ UNCHANGED <<nsocks, sfds, ring>>
        /\ UNCHANGED <<ephemeral, made, dialled>>

\* SYS_CLOSE, and each descriptor that close_proc_fds closes.
CloseSock(t, f) ==
    LET s == sfds[t][f]
    IN  /\ Shut(nsocks[s].conn)
        /\ nsocks' = [nsocks EXCEPT ![s] = NotUsed]
        /\ sfds' = [sfds EXCEPT ![t][f] = NoSock]
        /\ UNCHANGED <<ephemeral, made, dialled, orphans>>

----------------------------------------------------------------------------
(* kernel_poll_net, run by whoever waits: the ring is drained first.        *)

\* find_conn_by_tuple.
Matching(p) ==
    {c \in ConnIds : /\ conns[c].state \notin {"CLOSED", "LISTEN"}
                     /\ conns[c].sport = p.to /\ conns[c].dport = p.from}

\* The oldest packet is taken out, and nothing or q is sent.
Takes == ring' = Tail(ring)
TakesAndSends(q) == ring' = Enqueued(Tail(ring), q)

Acceptable(p) ==
    /\ p.kind = "SYN" /\ FreeConns # {}
    /\ \E l \in ConnIds : conns[l].state = "LISTEN" /\ conns[l].sport = p.to

\* A first SYN makes a connection.
SynArrives(p) ==
    LET c   == Lowest1(FreeConns)
        new == NewConn("SYN_RCVD", p.to, p.from)
    IN  /\ Matching(p) = {} /\ Acceptable(p)
        /\ conns' = [conns EXCEPT ![c] = new]
        /\ TakesAndSends(SegOf("SYNACK", new))
        /\ UNCHANGED orphans

\* Nobody to take it: a reset, unless it is one.
Refused(p) ==
    /\ Matching(p) = {} /\ ~Acceptable(p)
    /\ IF p.kind = "RST" THEN Takes
       ELSE TakesAndSends(Seg("RST", p.to, p.from, p.kind \notin {"SYN", "SYNACK"}))
    /\ UNCHANGED <<conns, orphans>>

\* The entry once the acknowledgement of p has been seen to.  Nothing looks at the flag of a
\* reset, so that it counts as any other acknowledgement.
Acked(c, p) ==
    IF p.kind = "SYN" THEN c
    ELSE CASE c.state = "FIN_WAIT1" /\ p.covers -> [c EXCEPT !.state = "FIN_WAIT2", !.due = FALSE]
           [] c.state = "SYN_RCVD" -> [c EXCEPT !.state = "ESTABLISHED", !.due = FALSE]
           [] c.state = "SYN_SENT" -> [c EXCEPT !.due = FALSE]
           [] OTHER -> c

\* tcp_handle_packet with an entry, the lowest that matches.
Arrives(p) ==
    LET c == Lowest1(Matching(p))
        a == Acked(conns[c], p)
        Released == conns' = Without(c) /\ orphans' = orphans \ {c}
        Becomes(state) ==
            conns' = [conns EXCEPT ![c] = [a EXCEPT !.state = state]] /\ UNCHANGED orphans
        ack == Seg("ACK", a.sport, a.dport, TRUE)
    IN  /\ Matching(p) # {}
        /\ CASE a.state = "LAST_ACK" /\ p.kind # "SYN" /\ p.covers -> Released /\ Takes
             [] p.kind = "SYNACK" /\ a.state = "SYN_SENT" ->
                   Becomes("ESTABLISHED") /\ TakesAndSends(SegOf("ACK", a))
             [] p.kind = "FIN" /\ a.state = "ESTABLISHED" ->
                   Becomes("CLOSE_WAIT") /\ TakesAndSends(ack)
             [] p.kind = "FIN" /\ a.state \in {"FIN_WAIT1", "FIN_WAIT2"} ->
                   Released /\ TakesAndSends(ack)
             [] OTHER -> Becomes(a.state) /\ Takes

\* tcp_tick, once the ring is empty, sends a segment again ...
Resends(c) ==
    /\ ring = <<>> /\ conns[c].due
    /\ Sends(Unanswered(conns[c]))
    /\ UNCHANGED <<conns, orphans>>

\* ... until it gives the connection up; with data that is unanswered an open one too.
GivesUp(c) ==
    /\ ring = <<>>
    /\ conns[c].state \in {"ESTABLISHED", "CLOSE_WAIT"} \/ conns[c].due
    /\ CutsOff \/ \A s \in SockIds : nsocks[s].conn # c
    /\ conns' = Without(c) /\ orphans' = orphans \ {c}
    /\ UNCHANGED ring

SockNext ==
    \/ \E t \in Peers :
          \/ Socket(t)
          \/ \E f \in {g \in SFds : sfds[t][g] # NoSock} :
                \/ CloseSock(t, f)
                \/ /\ t \in Servers
                   /\ Accepts(t, sfds[t][f]) \/ \E port \in Ports : Listen(sfds[t][f], port)
                \/ t \in Clients /\ \E port \in Ports : ConnectTo(sfds[t][f], port)
    \/ /\ \/ ring # <<>> /\ (SynArrives(Head(ring)) \/ Refused(Head(ring)) \/ Arrives(Head(ring)))
          \/ \E c \in ConnIds : Resends(c) \/ GivesUp(c)
       /\ UNCHANGED <<nsocks, sfds, ephemeral, made, dialled>>

SockSpec == SockInit /\ [][SockNext]_sockVars
=============================================================================
