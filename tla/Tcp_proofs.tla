----------------------------- MODULE Tcp_proofs -----------------------------
(***************************************************************************)
(* A TCP connection delivers in order, and clears from its queue only what *)
(* has been delivered: for any number of bytes and retransmissions, over a *)
(* network that loses, delays, reorders and duplicates, and with memory    *)
(* that may run short whenever send_segment asks for some.                 *)
(***************************************************************************)
EXTENDS TcpProps, SequenceTheorems, FiniteSetTheorems, TLAPS

Opening == {"SYN_SENT", "SYN_RCVD"}
Writing == {"ESTABLISHED", "CLOSE_WAIT"}
FinSent == {"FIN_WAIT1", "FIN_WAIT2", "LAST_ACK"}

\* e will not write any more.
DoneWriting(e) == conn[e].state \in FinSent \/ ended[e] # "no"

\* e has seen no FIN yet.
Listens(e) == ended[e] = "no" /\ conn[e].state \notin {"CLOSE_WAIT", "LAST_ACK"}

\* e is past ESTABLISHED, or gone.
Past(e) == conn[e].state \in FinSent \cup {"CLOSE_WAIT"} \/ ended[e] # "no"

SegmentSet == [to : Sides, flags : SUBSET Flags, seq : Nat, ack : Nat, len : {0, 1}]

\* The entries of conns[] that keep segments of S.
Entry(S) == [state : States, accepted : BOOLEAN, seq : Nat, ack : Nat,
             rtx : Seq([seg : S, retries : Nat])]

\* The segments that a side may keep.
Keepable == {m \in net : Span(m) > 0}

TcpTypes ==
    /\ net \subseteq SegmentSet
    /\ conn \in [Sides -> Entry(Keepable)]
    /\ recvd \in [Sides -> Seq(Nat)]
    /\ ended \in [Sides -> {"no", "closed", "dropped", "given up"}]

\* What a segment on the wire says of e, which sent it.
Wire(e) ==
    \A m \in net : m.to = Other(e) =>
       /\ ended[e] = "no" => Active(e)
       /\ Has(m, "SYN") => m.seq = 0 /\ m.len = 0
       /\ m.len > 0 => m.seq >= 1 /\ Has(m, "ACK")
       /\ Has(m, "FIN") => m.len = 0 /\ m.seq >= 1 /\ DoneWriting(e)
       /\ Has(m, "ACK") => m.ack >= 1
       /\ Listens(e) => m.ack <= Len(recvd[e]) + 1
       /\ conn[e].state = "SYN_SENT" => ~Has(m, "ACK")

\* e has put a segment on the wire.
Spoke(e) == \E m \in net : m.to = Other(e)

\* What e sends: the bytes from 1 on, then a FIN; what there was no memory for takes no number.
Stream(e) ==
    /\ Active(e) => ended[e] = "no"
    /\ conn[e].state \in Opening => SentBytes(e) = {} /\ conn[e].seq = IF Spoke(e) THEN 1 ELSE 0
    /\ conn[e].state \in Writing => conn[e].seq >= 1 /\ SentBytes(e) = 1..(conn[e].seq - 1)
    /\ conn[e].state \in FinSent /\ FinOut(e)
       => conn[e].seq >= 2 /\ SentBytes(e) = 1..(conn[e].seq - 2)
    /\ conn[e].state \in FinSent /\ ~FinOut(e)
       => conn[e].seq >= 1 /\ SentBytes(e) = 1..(conn[e].seq - 1)
    /\ \A m \in net : m.to = Other(e) /\ Has(m, "FIN") => \A b \in SentBytes(e) : b < m.seq
    /\ conn[e].state \in Writing \/ SentBytes(e) # {} => \E m \in net : m.to = e /\ Has(m, "ACK")

\* What e has received, and what it expects next.
Expected(e) ==
    /\ recvd[e] = [i \in 1..Len(recvd[e]) |-> i]
    /\ 1..Len(recvd[e]) \subseteq SentBytes(Other(e))
    /\ conn[e].state \in {"CLOSED", "SYN_SENT"} /\ ended[e] = "no" => recvd[e] = <<>>
    /\ conn[e].state = "SYN_SENT" => conn[e].ack = 0
    /\ conn[e].state \in {"SYN_RCVD", "ESTABLISHED", "FIN_WAIT1", "FIN_WAIT2"}
       => conn[e].ack = Len(recvd[e]) + 1
    /\ conn[e].state \in {"CLOSE_WAIT", "LAST_ACK"}
       => /\ DoneWriting(Other(e)) /\ conn[e].ack >= 1
          /\ \A b \in SentBytes(Other(e)) : b < conn[e].ack

\* What e keeps at first is its SYN.
Queue(e) ==
    conn[e].state \in Opening
    => Len(conn[e].rtx) <= 1 /\ \A i \in 1..Len(conn[e].rtx) : AckSeq(conn[e].rtx[i].seg) = 1

\* Who has finished was right to.
FinSeen(e) == (conn[e].state = "FIN_WAIT2" /\ FinOut(e)) \/ ended[e] = "closed" => Past(Other(e))

\* Who acknowledges to e has heard from it.
Heard(e) == (\E m \in net : m.to = e /\ Has(m, "ACK")) => Spoke(e)

SideInv(e) == Wire(e) /\ Stream(e) /\ Expected(e) /\ Queue(e) /\ FinSeen(e) /\ Heard(e)

TcpInv == TcpTypes /\ \A e \in Sides : SideInv(e)

----------------------------------------------------------------------------
(* The operators of the model.                                              *)

\* There are two sides.
LEMMA TwoSides ==
  ASSUME NEW e \in Sides
  PROVE  Other(e) \in Sides /\ Other(e) # e /\ Other(Other(e)) = e
         /\ \A f \in Sides : f = e \/ f = Other(e)
  BY DEF Sides, Other

\* A segment takes one or more numbers exactly if it has a byte, a SYN or a FIN.
LEMMA SpanFacts ==
  ASSUME NEW m \in SegmentSet
  PROVE  /\ Span(m) \in Nat /\ Span(m) >= m.len /\ AckSeq(m) \in Nat
         /\ Span(m) > 0 <=> m.len > 0 \/ Has(m, "SYN") \/ Has(m, "FIN")
         /\ AckSeq(m) = m.seq + Span(m)
         /\ m.flags = {"ACK"} => Span(m) = m.len
<1> DEFINE syn == IF Has(m, "SYN") THEN 1 ELSE 0
           fin == IF Has(m, "FIN") THEN 1 ELSE 0
<1>1. m.len \in Nat /\ m.seq \in Nat
  BY DEF SegmentSet
<1>2. syn \in {0, 1} /\ (syn = 1 <=> Has(m, "SYN"))
  OBVIOUS
<1>3. fin \in {0, 1} /\ (fin = 1 <=> Has(m, "FIN"))
  OBVIOUS
<1>4. m.flags = {"ACK"} => syn = 0 /\ fin = 0
  BY DEF Has
<1>5. Span(m) = m.len + syn + fin /\ AckSeq(m) = m.seq + Span(m)
  BY DEF Span, AckSeq
<1> HIDE DEF syn, fin
<1>6. Span(m) \in Nat /\ Span(m) >= m.len /\ (Span(m) > 0 <=> m.len > 0 \/ syn = 1 \/ fin = 1)
  BY <1>1, <1>2, <1>3, <1>5
<1>7. AckSeq(m) \in Nat
  BY <1>1, <1>5, <1>6
<1>8. m.flags = {"ACK"} => Span(m) = m.len
  BY <1>1, <1>4, <1>5
<1> QED
  BY <1>2, <1>3, <1>5, <1>6, <1>7, <1>8

\* A set of numbers from 1..n with no gap at its beginning contains the first ones of them.
LEMMA FirstOnes ==
  ASSUME NEW n \in Nat, NEW S \in SUBSET (1..n), \A i \in S : \A j \in 1..i : j \in S
  PROVE  /\ Cardinality(S) \in 0..n
         /\ \A i \in 1..Cardinality(S) : i \in S
         /\ S = 1..n => Cardinality(S) = n
<1>1. IsFiniteSet(1..n) /\ Cardinality(1..n) = n
  BY FS_Interval
<1>2. IsFiniteSet(S) /\ Cardinality(S) \in Nat /\ Cardinality(S) <= n
  <2>1. IsFiniteSet(S) /\ Cardinality(S) <= Cardinality(1..n)
    BY <1>1, FS_Subset
  <2>2. Cardinality(S) \in Nat
    BY <2>1, FS_CardinalityType
  <2> QED
    BY <1>1, <2>1, <2>2
<1>3. ASSUME NEW i \in 1..Cardinality(S), i \notin S PROVE FALSE
  <2>1. i \in Int /\ i >= 1 /\ i <= Cardinality(S)
    BY <1>2
  <2>2. S \subseteq 1..(i - 1)
    BY <1>3, <2>1
  <2>3. IsFiniteSet(1..(i - 1)) /\ Cardinality(1..(i - 1)) = i - 1
    <3>1. i - 1 \in Int /\ 1 \in Int /\ (1 > i - 1 => i - 1 = 0) /\ (i - 1) - 1 + 1 = i - 1
      BY <2>1
    <3> QED
      BY <3>1, FS_Interval
  <2>4. Cardinality(S) <= i - 1
    BY <2>2, <2>3, FS_Subset
  <2> QED
    BY <1>2, <2>1, <2>4
<1> QED
  BY <1>1, <1>2, <1>3

\* What is left of a sequence without its first k elements.
LEMMA SuffixFacts ==
  ASSUME NEW R, NEW s \in Seq(R), NEW k \in 0..Len(s)
  PROVE  LET rest == SubSeq(s, k + 1, Len(s)) IN
         /\ rest \in Seq(R) /\ Len(rest) <= Len(s) /\ (k = Len(s) => Len(rest) = 0)
         /\ \A i \in 1..Len(rest) : k + i \in 1..Len(s) /\ rest[i] = s[k + i]
         /\ \A j \in (k + 1)..Len(s) : j - k \in 1..Len(rest) /\ rest[j - k] = s[j]
<1> DEFINE rest == SubSeq(s, k + 1, Len(s))
<1>1. Len(s) \in Nat /\ k \in Int /\ k + 1 \in Int /\ 0 <= k /\ k <= Len(s)
  BY LenProperties
<1>2. \A i \in (k + 1)..Len(s) : i \in 1..Len(s)
  BY <1>1
<1>3. \A i \in (k + 1)..Len(s) : s[i] \in R
  BY <1>2, ElementOfSeq
<1>4. /\ rest \in Seq(R)
      /\ Len(rest) = IF k + 1 <= Len(s) THEN Len(s) - (k + 1) + 1 ELSE 0
      /\ \A i \in 1..(Len(s) - (k + 1) + 1) : rest[i] = s[k + 1 + i - 1]
  BY <1>1, <1>3, SubSeqProperties
<1> HIDE DEF rest
<1>5. Len(rest) = Len(s) - k /\ Len(rest) <= Len(s) /\ (k = Len(s) => Len(rest) = 0)
  BY <1>1, <1>4
<1>6. \A i \in 1..Len(rest) : k + i \in 1..Len(s) /\ rest[i] = s[k + i]
  BY <1>1, <1>4, <1>5
<1>7. \A j \in (k + 1)..Len(s) : j - k \in 1..Len(rest) /\ k + (j - k) = j
  BY <1>1, <1>5
<1> QED
  BY <1>4, <1>5, <1>6, <1>7 DEF rest

\* An acknowledgement removes segments from the front of the queue, and only those that it reaches.
LEMMA UnackedFacts ==
  ASSUME NEW S \in SUBSET SegmentSet, NEW rtx \in Seq([seg : S, retries : Nat]), NEW ack \in Nat
  PROVE  LET rest == Unacked(rtx, ack) IN
         /\ rest \in Seq([seg : S, retries : Nat]) /\ Len(rest) <= Len(rtx)
         /\ \A i \in 1..Len(rest) : \E j \in 1..Len(rtx) : rest[i] = rtx[j]
         /\ \A j \in 1..Len(rtx) : AckSeq(rtx[j].seg) > ack
                                   => \E i \in 1..Len(rest) : rest[i] = rtx[j]
         /\ (\A j \in 1..Len(rtx) : AckSeq(rtx[j].seg) <= ack) => Len(rest) = 0
<1> DEFINE R == [seg : S, retries : Nat]
           cleared == {i \in DOMAIN rtx : \A j \in 1..i : AckSeq(rtx[j].seg) <= ack}
           k == Cardinality(cleared)
           rest == SubSeq(rtx, k + 1, Len(rtx))
<1>1. Len(rtx) \in Nat /\ DOMAIN rtx = 1..Len(rtx)
  BY LenProperties
<1>2. \A i \in 1..Len(rtx) : AckSeq(rtx[i].seg) \in Nat
  <2> TAKE i \in 1..Len(rtx)
  <2>1. rtx[i] \in [seg : S, retries : Nat]
    BY ElementOfSeq
  <2>2. rtx[i].seg \in SegmentSet
    BY <2>1
  <2> DEFINE m == rtx[i].seg
  <2> HIDE DEF m
  <2>3. m \in SegmentSet
    BY <2>2 DEF m
  <2>4. AckSeq(m) \in Nat
    BY <2>3, SpanFacts
  <2> QED
    BY <2>4 DEF m
<1>3. /\ k \in 0..Len(rtx)
      /\ \A i \in 1..k : i \in cleared
      /\ cleared = 1..Len(rtx) => k = Len(rtx)
  <2>1. cleared \in SUBSET (1..Len(rtx)) /\ \A i \in cleared : \A j \in 1..i : j \in cleared
    BY <1>1
  <2> HIDE DEF cleared
  <2> QED
    BY <1>1, <2>1, FirstOnes
<1>4. \A j \in 1..Len(rtx) : AckSeq(rtx[j].seg) > ack => j \notin cleared
  BY <1>1, <1>2
<1>5. (\A j \in 1..Len(rtx) : AckSeq(rtx[j].seg) <= ack) => k = Len(rtx)
  <2>1. (\A j \in 1..Len(rtx) : AckSeq(rtx[j].seg) <= ack) => cleared = 1..Len(rtx)
    BY <1>1
  <2> QED
    BY <1>3, <2>1
<1>6. \A j \in 1..Len(rtx) : AckSeq(rtx[j].seg) > ack => j \notin 1..k
  BY <1>3, <1>4
<1>7. Unacked(rtx, ack) = rest
  BY DEF Unacked
<1> HIDE DEF R, cleared, k
<1>8. /\ rest \in Seq(R) /\ Len(rest) <= Len(rtx) /\ (k = Len(rtx) => Len(rest) = 0)
      /\ \A i \in 1..Len(rest) : k + i \in 1..Len(rtx) /\ rest[i] = rtx[k + i]
      /\ \A j \in (k + 1)..Len(rtx) : j - k \in 1..Len(rest) /\ rest[j - k] = rtx[j]
  <2>1. rtx \in Seq(R)
    BY DEF R
  <2>2. k \in 0..Len(rtx)
    BY <1>3
  <2> QED
    BY <2>1, <2>2, SuffixFacts
<1> HIDE DEF rest
<1>9. \A j \in 1..Len(rtx) : j \notin 1..k => j \in (k + 1)..Len(rtx)
  <2>1. k \in 0..Len(rtx)
    BY <1>3
  <2> QED
    BY <1>1, <2>1
<1>10. \A j \in 1..Len(rtx) : AckSeq(rtx[j].seg) > ack => \E i \in 1..Len(rest) : rest[i] = rtx[j]
  BY <1>6, <1>8, <1>9
<1>11. \A i \in 1..Len(rest) : \E j \in 1..Len(rtx) : rest[i] = rtx[j]
  BY <1>8
<1> QED
  BY <1>5, <1>7, <1>8, <1>10, <1>11 DEF R

\* What e sends from the entry c, whose queue has segments of S, and what its entry is then.
SentEntry(S, e, c, flags, len, memory) ==
    LET m == Segment(e, c, flags, len)
        d == Sent(e, c, flags, len, memory)
    IN  /\ m \in SegmentSet /\ m.to = Other(e) /\ m.flags = flags /\ m.len = len
        /\ m.seq = c.seq /\ m.ack = c.ack /\ Span(m) \in Nat
        /\ d \in Entry(S \cup IF Span(m) > 0 THEN {m} ELSE {})
        /\ d.state = c.state /\ d.accepted = c.accepted
        /\ d.ack = c.ack /\ d.seq = c.seq + Span(m)
        /\ Span(m) = 0 => d.rtx = c.rtx
        /\ Span(m) > 0 => d.rtx = Keep(c.rtx, m, memory)

\* The entry once send_segment is done.
LEMMA SendFacts ==
  ASSUME NEW S \in SUBSET SegmentSet, NEW e \in Sides, NEW c \in Entry(S),
         NEW flags \in SUBSET Flags, NEW len \in {0, 1}, NEW memory \in BOOLEAN
  PROVE  SentEntry(S, e, c, flags, len, memory)
<1> DEFINE m == Segment(e, c, flags, len)
           d == Sent(e, c, flags, len, memory)
           T == S \cup IF Span(m) > 0 THEN {m} ELSE {}
<1>1. m \in SegmentSet /\ m.to = Other(e) /\ m.flags = flags /\ m.len = len
      /\ m.seq = c.seq /\ m.ack = c.ack
  BY TwoSides DEF Segment, SegmentSet, Entry
<1>2. Span(m) \in Nat
  BY <1>1, SpanFacts
<1>3. d = [c EXCEPT !.seq = @ + Span(m), !.rtx = IF Span(m) > 0 THEN Keep(@, m, memory) ELSE @]
  BY DEF Sent
<1> HIDE DEF m, d
<1>4. c.rtx \in Seq([seg : S, retries : Nat]) /\ c.seq \in Nat
  BY DEF Entry
<1>5. c.rtx \in Seq([seg : T, retries : Nat])
  BY <1>4, SeqMonotonic
<1>6. Span(m) > 0 => Keep(c.rtx, m, memory) \in Seq([seg : T, retries : Nat])
  <2>1. SUFFICES ASSUME Span(m) > 0 PROVE Keep(c.rtx, m, memory) \in Seq([seg : T, retries : Nat])
    OBVIOUS
  <2>2. [seg |-> m, retries |-> 0] \in [seg : T, retries : Nat]
    BY <2>1
  <2> QED
    BY <1>5, <2>2, AppendProperties DEF Keep, Keeps
<1>7. d \in Entry(T)
  <2> DEFINE Q == Seq([seg : T, retries : Nat])
  <2>1. c \in [state : States, accepted : BOOLEAN, seq : Nat, ack : Nat,
               rtx : Seq([seg : S, retries : Nat])]
    BY DEF Entry
  <2>2. c.seq + Span(m) \in Nat
    BY <1>2, <1>4
  <2>3. (IF Span(m) > 0 THEN Keep(c.rtx, m, memory) ELSE c.rtx) \in Q
    BY <1>5, <1>6
  <2> HIDE DEF Q, T
  <2>4. d \in [state : States, accepted : BOOLEAN, seq : Nat, ack : Nat, rtx : Q]
    BY <1>3, <2>1, <2>2, <2>3
  <2> QED
    BY <2>4 DEF Entry, Q
<1> QED
  BY <1>1, <1>2, <1>3, <1>7 DEF m, d, Entry, SentEntry

\* With room and memory, the queue gets one more and keeps the others.
LEMMA KeepsOneMore ==
  ASSUME NEW S, NEW rtx \in Seq([seg : S, retries : Nat]), NEW m, NEW memory, Keeps(rtx, memory)
  PROVE  /\ \A i \in 1..Len(rtx) : Keep(rtx, m, memory)[i] = rtx[i]
         /\ Keep(rtx, m, memory)[Len(rtx) + 1].seg = m
         /\ Len(Keep(rtx, m, memory)) = Len(rtx) + 1
<1> DEFINE T == [seg : S \cup {m}, retries : Nat]
           x == [seg |-> m, retries |-> 0]
<1>1. Keep(rtx, m, memory) = Append(rtx, x)
  BY DEF Keep
<1>2. rtx \in Seq(T) /\ x \in T /\ Len(rtx) \in Nat /\ x.seg = m
  BY SeqMonotonic, LenProperties
<1> HIDE DEF T, x
<1>3. /\ Len(Append(rtx, x)) = Len(rtx) + 1
      /\ \A i \in 1..(Len(rtx) + 1) : Append(rtx, x)[i] = IF i <= Len(rtx) THEN rtx[i] ELSE x
  BY <1>2, AppendProperties
<1>4. \A i \in 1..Len(rtx) : Append(rtx, x)[i] = rtx[i]
  BY <1>2, <1>3
<1>5. Append(rtx, x)[Len(rtx) + 1] = x
  BY <1>2, <1>3
<1> QED
  BY <1>1, <1>2, <1>3, <1>4, <1>5

\* An empty queue.
LEMMA KeepFirst ==
  ASSUME NEW m, NEW memory
  PROVE  LET k == Keep(<<>>, m, memory) IN Len(k) <= 1 /\ \A i \in 1..Len(k) : k[i].seg = m
<1> DEFINE x == [seg |-> m, retries |-> 0]
           k == Keep(<<>>, m, memory)
<1>1. k = <<>> \/ k = Append(<<>>, x)
  BY DEF Keep
<1>2. Append(<<>>, x) = <<x>> /\ Len(<<x>>) = 1 /\ <<x>>[1] = x
  OBVIOUS
<1>3. x.seg = m
  OBVIOUS
<1> HIDE DEF x, k
<1>4. k = <<>> => Len(k) <= 1 /\ \A i \in 1..Len(k) : k[i].seg = m
  <2>1. Len(<<>>) = 0 /\ \A i \in 1..0 : FALSE
    BY EmptySeq
  <2> QED
    BY <2>1
<1>5. k = Append(<<>>, x) => Len(k) <= 1 /\ \A i \in 1..Len(k) : k[i].seg = m
  <2> SUFFICES ASSUME k = Append(<<>>, x) PROVE Len(k) <= 1 /\ \A i \in 1..Len(k) : k[i].seg = m
    OBVIOUS
  <2>1. Len(k) = 1 /\ k[1] = x
    BY <1>2
  <2>2. \A i \in 1..Len(k) : i = 1
    BY <2>1
  <2> QED
    BY <1>3, <2>1, <2>2
<1>6. Len(k) <= 1 /\ \A i \in 1..Len(k) : k[i].seg = m
  BY <1>1, <1>4, <1>5
<1> QED
  BY <1>6 DEF k

----------------------------------------------------------------------------
(* What a step of one side leaves alone.                                    *)

\* More segments may be kept when there are more.
LEMMA EntryGrows ==
  ASSUME NEW S, NEW T, S \subseteq T, NEW c \in Entry(S)
  PROVE  c \in Entry(T)
<1>1. c.rtx \in Seq([seg : S, retries : Nat])
  BY DEF Entry
<1>2. c.rtx \in Seq([seg : T, retries : Nat])
  BY <1>1, SeqMonotonic
<1> DEFINE P == Seq([seg : S, retries : Nat])
           Q == Seq([seg : T, retries : Nat])
<1>3. c \in [state : States, accepted : BOOLEAN, seq : Nat, ack : Nat, rtx : P]
  BY DEF Entry
<1>4. c.rtx \in Q
  BY <1>2
<1> HIDE DEF P, Q
<1>5. c \in [state : States, accepted : BOOLEAN, seq : Nat, ack : Nat, rtx : Q]
  BY <1>3, <1>4
<1> QED
  BY <1>5 DEF Entry, Q

\* The types survive when one entry changes and the wire gets more.
LEMMA TypesKept ==
  ASSUME TcpTypes, NEW e \in Sides, NEW d,
         net \subseteq net', net' \subseteq SegmentSet,
         conn' = [conn EXCEPT ![e] = d], d \in Entry(Keepable'),
         recvd' \in [Sides -> Seq(Nat)],
         ended' \in [Sides -> {"no", "closed", "dropped", "given up"}]
  PROVE  TcpTypes'
<1>1. Keepable \subseteq Keepable'
  BY DEF Keepable
<1>2. \A f \in Sides : conn[f] \in Entry(Keepable)
  BY DEF TcpTypes
<1>3. \A f \in Sides : conn[f] \in Entry(Keepable')
  BY <1>1, <1>2, EntryGrows
<1>4. conn \in [Sides -> Entry(Keepable)]
  BY DEF TcpTypes
<1> DEFINE A == Entry(Keepable)
           B == Entry(Keepable')
<1> HIDE DEF A, B
<1>5. conn \in [Sides -> A] /\ d \in B /\ \A f \in Sides : conn[f] \in B
  BY <1>3, <1>4 DEF A, B
<1>6. conn' \in [Sides -> B]
  BY <1>5
<1> QED
  BY <1>6 DEF TcpTypes, B

\* Segments without a byte leave the streams as they are.
LEMMA BytesKept ==
  ASSUME net \subseteq net', \A m \in net' : m \in net \/ m.len = 0
  PROVE  \A e : SentBytes(e)' = SentBytes(e)
  BY DEF SentBytes

\* A side that does nothing keeps its part, if the other takes nothing back.
LEMMA PeerKeeps ==
  ASSUME NEW e \in Sides, SideInv(Other(e)),
         conn'[Other(e)] = conn[Other(e)], recvd'[Other(e)] = recvd[Other(e)],
         ended'[Other(e)] = ended[Other(e)],
         net \subseteq net', \A m \in net' : m \in net \/ m.to = Other(e),
         SentBytes(e) \subseteq SentBytes(e)',
         DoneWriting(e) => DoneWriting(e)' /\ SentBytes(e)' = SentBytes(e),
         Past(e) => Past(e)',
         \A m \in net' : m \in net \/ ~Has(m, "ACK") \/ \E n \in net : n.to = e
  PROVE  SideInv(Other(e))'
<1> DEFINE p == Other(e)
<1>1. p \in Sides /\ p # e /\ Other(p) = e
  BY TwoSides
<1>2. \A m \in net' : m.to = e => m \in net
  BY <1>1
<1>3. SentBytes(p)' = SentBytes(p)
  BY <1>1, <1>2 DEF SentBytes
<1> HIDE DEF p
<1>4. SideInv(p) /\ conn'[p] = conn[p] /\ recvd'[p] = recvd[p] /\ ended'[p] = ended[p]
  BY DEF p
<1>5. Wire(p)'
  BY <1>1, <1>2, <1>4 DEF SideInv, Wire, Active, DoneWriting, Listens
<1>6. Stream(p)'
  BY <1>1, <1>2, <1>3, <1>4 DEF SideInv, Stream, Active, Spoke, FinOut
<1>7. Expected(p)'
  BY <1>1, <1>4 DEF SideInv, Expected
<1>8. Queue(p)'
  BY <1>4 DEF SideInv, Queue
<1>9. FinSeen(p)'
  BY <1>1, <1>2, <1>4 DEF SideInv, FinSeen, FinOut
<1>10. Heard(p)'
  <2> SUFFICES ASSUME NEW m \in net', m.to = p, Has(m, "ACK") PROVE \E n \in net : n.to = e
    BY <1>1 DEF Heard, Spoke
  <2>1. CASE m \in net
    BY <1>1, <1>4, <2>1 DEF SideInv, Heard, Spoke
  <2>2. CASE m \notin net
    BY <2>2
  <2> QED
    BY <2>1, <2>2
<1> QED
  BY <1>5, <1>6, <1>7, <1>8, <1>9, <1>10 DEF SideInv, p

\* e sends from the entry c, or lacks the memory to and has the entry c all the same.
Sends(e, c, flags, len, memory) ==
    /\ conn' = [conn EXCEPT ![e] = Sent(e, c, flags, len, memory)]
    /\ net' = net \cup {Segment(e, c, flags, len)}

Lacks(e, c) == conn' = [conn EXCEPT ![e] = c] /\ net' = net

\* The step that sends from the entry c of e.
LEMMA SendStep ==
  ASSUME TcpTypes, NEW e \in Sides, NEW c \in Entry(Keepable), NEW flags \in SUBSET Flags,
         NEW len \in {0, 1}, NEW memory \in BOOLEAN, Sends(e, c, flags, len, memory),
         UNCHANGED <<recvd, ended>>
  PROVE  LET m == Segment(e, c, flags, len) IN
         /\ TcpTypes'
         /\ net' = net \cup {m} /\ m \in SegmentSet
         /\ m.to = Other(e) /\ m.flags = flags /\ m.len = len /\ m.seq = c.seq /\ m.ack = c.ack
         /\ Span(m) \in Nat
         /\ conn'[Other(e)] = conn[Other(e)]
         /\ conn'[e].state = c.state /\ conn'[e].ack = c.ack /\ conn'[e].seq = c.seq + Span(m)
         /\ Span(m) = 0 => conn'[e].rtx = c.rtx
         /\ Span(m) > 0 => conn'[e].rtx = Keep(c.rtx, m, memory)
<1> DEFINE m == Segment(e, c, flags, len)
           d == Sent(e, c, flags, len, memory)
<1>1. conn' = [conn EXCEPT ![e] = d] /\ net' = net \cup {m}
  BY DEF Sends
<1>2. /\ m \in SegmentSet /\ m.to = Other(e) /\ m.flags = flags /\ m.len = len
      /\ m.seq = c.seq /\ m.ack = c.ack /\ Span(m) \in Nat
      /\ d \in Entry(Keepable \cup IF Span(m) > 0 THEN {m} ELSE {})
      /\ d.state = c.state /\ d.ack = c.ack /\ d.seq = c.seq + Span(m)
      /\ Span(m) = 0 => d.rtx = c.rtx
      /\ Span(m) > 0 => d.rtx = Keep(c.rtx, m, memory)
  <2>1. Keepable \in SUBSET SegmentSet
    BY DEF Keepable, TcpTypes
  <2>2. SentEntry(Keepable, e, c, flags, len, memory)
    BY <2>1, SendFacts
  <2> QED
    BY <2>2 DEF SentEntry
<1> HIDE DEF m, d
<1>3. d \in Entry(Keepable')
  <2>1. Keepable \cup (IF Span(m) > 0 THEN {m} ELSE {}) \subseteq Keepable'
    BY <1>1 DEF Keepable
  <2> QED
    BY <1>2, <2>1, EntryGrows
<1>4. TcpTypes'
  BY <1>1, <1>2, <1>3, TypesKept DEF TcpTypes
<1>5. conn'[e] = d /\ conn'[Other(e)] = conn[Other(e)]
  BY <1>1, TwoSides DEF TcpTypes
<1> QED
  BY <1>1, <1>2, <1>4, <1>5 DEF m

\* The step that has the entry c of e, and for lack of memory sends nothing.
LEMMA LacksStep ==
  ASSUME TcpTypes, NEW e \in Sides, NEW c \in Entry(Keepable), Lacks(e, c), UNCHANGED <<recvd, ended>>
  PROVE  TcpTypes' /\ net' = net /\ conn'[Other(e)] = conn[Other(e)] /\ conn'[e] = c
<1>1. conn' = [conn EXCEPT ![e] = c] /\ net' = net
  BY DEF Lacks
<1>2. Keepable' = Keepable /\ net \subseteq SegmentSet
  BY <1>1 DEF Keepable, TcpTypes
<1>3. TcpTypes'
  BY <1>1, <1>2, TypesKept DEF TcpTypes
<1> QED
  BY <1>1, <1>3, TwoSides DEF TcpTypes

----------------------------------------------------------------------------
(* The steps, one by one.                                                   *)

\* tcp_connect and the first SYN: nothing was there before.
LEMMA OpenKeeps ==
  ASSUME TcpInv, NEW e \in Sides, ~Active(e), ended[e] = "no",
         NEW c \in Entry(Keepable), NEW flags \in SUBSET Flags,
         NEW memory \in BOOLEAN, Sends(e, c, flags, 0, memory), UNCHANGED <<recvd, ended>>,
         "SYN" \in flags, "FIN" \notin flags, "ACK" \in flags => \E n \in net : n.to = e,
         c.seq = 0, c.rtx = <<>>,
         \/ c.state = "SYN_SENT" /\ c.ack = 0 /\ "ACK" \notin flags
         \/ c.state = "SYN_RCVD" /\ c.ack = 1
  PROVE  TcpInv'
<1> DEFINE m == Segment(e, c, flags, 0)
<1>1. /\ TcpTypes'
      /\ net' = net \cup {m} /\ m \in SegmentSet
      /\ m.to = Other(e) /\ m.flags = flags /\ m.len = 0 /\ m.seq = 0 /\ m.ack = c.ack
      /\ Span(m) \in Nat
      /\ conn'[Other(e)] = conn[Other(e)]
      /\ conn'[e].state = c.state /\ conn'[e].ack = c.ack /\ conn'[e].seq = 0 + Span(m)
      /\ Span(m) > 0 => conn'[e].rtx = Keep(<<>>, m, memory)
  <2>1. TcpTypes
    BY DEF TcpInv
  <2> QED
    BY <2>1, SendStep
<1> HIDE DEF m
<1>2. Other(e) \in Sides /\ Other(e) # e /\ Other(Other(e)) = e
      /\ \A f \in Sides : f = e \/ f = Other(e)
  BY TwoSides
<1>3. SideInv(e) /\ SideInv(Other(e)) /\ net \subseteq SegmentSet
  BY <1>2 DEF TcpInv, TcpTypes
<1>4. \A n \in net : n.to # Other(e)
  BY <1>3 DEF SideInv, Wire
<1>5. Span(m) = 1 /\ AckSeq(m) = 1
  BY <1>1 DEF Span, Has, AckSeq
<1>6. \A f : SentBytes(f)' = SentBytes(f)
  BY <1>1, BytesKept
<1>7. SentBytes(e) = {}
  BY <1>4 DEF SentBytes
<1>8. SideInv(Other(e))'
  <2>1. \A n \in net' : n \in net \/ ~Has(n, "ACK") \/ \E k \in net : k.to = e
    BY <1>1 DEF Has
  <2> QED
    BY <1>1, <1>2, <1>3, <1>6, <2>1, PeerKeeps DEF DoneWriting, Past, Active, FinSent
<1>9. recvd[e] = <<>> /\ recvd'[e] = <<>> /\ ended'[e] = "no" /\ Len(recvd[e]) = 0
  BY <1>3 DEF SideInv, Expected, Active
<1>10. Wire(e)'
  BY <1>1, <1>2, <1>4, <1>9 DEF Wire, Active, Listens, Has
<1>11. Stream(e)'
  <2>1. SentBytes(e)' = {} /\ Spoke(e)'
    BY <1>1, <1>6, <1>7 DEF Spoke
  <2> QED
    BY <1>1, <1>4, <1>5, <1>9, <2>1 DEF Stream, Active, Has, Opening, Writing, FinSent
<1>12. Expected(e)'
  BY <1>1, <1>6, <1>9 DEF Expected
<1>13. Queue(e)'
  <2>1. conn'[e].rtx = Keep(<<>>, m, memory)
    BY <1>1, <1>5
  <2>2. LET k == Keep(<<>>, m, memory) IN Len(k) <= 1 /\ \A i \in 1..Len(k) : k[i].seg = m
    BY KeepFirst
  <2> QED
    BY <1>1, <1>5, <2>1, <2>2 DEF Queue, Opening, Writing
<1>14. FinSeen(e)'
  BY <1>1, <1>9 DEF FinSeen
<1>15. Heard(e)'
  BY <1>1 DEF Heard, Spoke
<1> QED
  BY <1>1, <1>2, <1>8, <1>10, <1>11, <1>12, <1>13, <1>14, <1>15 DEF TcpInv, SideInv

\* The same without memory for the SYN: the entry is there, and has sent nothing.
LEMMA OpenLacks ==
  ASSUME TcpInv, NEW e \in Sides, ~Active(e), ended[e] = "no",
         NEW c \in Entry(Keepable), Lacks(e, c), UNCHANGED <<recvd, ended>>,
         c.seq = 0, c.rtx = <<>>,
         \/ c.state = "SYN_SENT" /\ c.ack = 0
         \/ c.state = "SYN_RCVD" /\ c.ack = 1
  PROVE  TcpInv'
<1>1. TcpTypes' /\ net' = net /\ conn'[Other(e)] = conn[Other(e)] /\ conn'[e] = c
  BY LacksStep DEF TcpInv
<1>2. Other(e) \in Sides /\ Other(e) # e /\ Other(Other(e)) = e
      /\ \A f \in Sides : f = e \/ f = Other(e)
  BY TwoSides
<1>3. SideInv(e) /\ SideInv(Other(e))
  BY <1>2 DEF TcpInv
<1>4. \A n \in net : n.to # Other(e)
  BY <1>3 DEF SideInv, Wire
<1>5. \A f : SentBytes(f)' = SentBytes(f)
  BY <1>1 DEF SentBytes
<1>6. SentBytes(e) = {} /\ ~Spoke(e)
  BY <1>4 DEF SentBytes, Spoke
<1>7. recvd[e] = <<>> /\ recvd'[e] = <<>> /\ ended'[e] = "no" /\ Len(recvd[e]) = 0
  BY <1>3 DEF SideInv, Expected, Active
<1>8. SideInv(Other(e))'
  BY <1>1, <1>2, <1>3, <1>5, PeerKeeps DEF DoneWriting, Past, Active, FinSent
<1>9. Wire(e)'
  BY <1>1, <1>4 DEF Wire
<1>10. Stream(e)'
  <2>1. SentBytes(e)' = {} /\ ~Spoke(e)'
    BY <1>1, <1>5, <1>6 DEF Spoke
  <2> QED
    BY <1>1, <1>4, <1>7, <2>1 DEF Stream, Active, Opening, Writing, FinSent
<1>11. Expected(e)'
  BY <1>1, <1>5, <1>7 DEF Expected
<1>12. Queue(e)'
  BY <1>1, EmptySeq DEF Queue
<1>13. FinSeen(e)'
  BY <1>1, <1>7 DEF FinSeen
<1>14. Heard(e)'
  BY <1>1, <1>3 DEF SideInv, Heard, Spoke
<1> QED
  BY <1>1, <1>2, <1>8, <1>9, <1>10, <1>11, <1>12, <1>13, <1>14 DEF TcpInv, SideInv

\* A length of zero is not positive.
LEMMA ZeroIsLeast == \A n : n = 0 => ~(n > 0)
  OBVIOUS

\* The FIN of tcp_close: it comes after every byte.
LEMMA FinKeeps ==
  ASSUME TcpInv, NEW e \in Sides, NEW to \in States, NEW memory \in BOOLEAN,
         \/ conn[e].state = "ESTABLISHED" /\ to = "FIN_WAIT1"
         \/ conn[e].state = "CLOSE_WAIT" /\ to = "LAST_ACK",
         Sends(e, [conn[e] EXCEPT !.state = to], {"FIN", "ACK"}, 0, memory),
         UNCHANGED <<recvd, ended>>
  PROVE  TcpInv'
<1> DEFINE c == [conn[e] EXCEPT !.state = to]
           m == Segment(e, c, {"FIN", "ACK"}, 0)
<1>1. conn[e] \in Entry(Keepable)
  BY DEF TcpInv, TcpTypes
<1>2. c \in Entry(Keepable) /\ c.state = to /\ c.seq = conn[e].seq /\ c.ack = conn[e].ack
      /\ c.rtx = conn[e].rtx /\ conn[e].seq \in Nat /\ conn[e].ack \in Nat
  <2> DEFINE Q == Seq([seg : Keepable, retries : Nat])
  <2>1. conn[e] \in [state : States, accepted : BOOLEAN, seq : Nat, ack : Nat, rtx : Q]
    BY <1>1 DEF Entry
  <2> HIDE DEF Q
  <2>2. c \in [state : States, accepted : BOOLEAN, seq : Nat, ack : Nat, rtx : Q]
        /\ c.state = to /\ c.seq = conn[e].seq /\ c.ack = conn[e].ack
        /\ c.rtx = conn[e].rtx /\ conn[e].seq \in Nat /\ conn[e].ack \in Nat
    BY <2>1
  <2> QED
    BY <2>2 DEF Q, Entry
<1> HIDE DEF c
<1>3. /\ TcpTypes'
      /\ net' = net \cup {m} /\ m \in SegmentSet
      /\ m.to = Other(e) /\ m.flags = {"FIN", "ACK"} /\ m.len = 0
      /\ m.seq = conn[e].seq /\ m.ack = conn[e].ack
      /\ conn'[Other(e)] = conn[Other(e)]
      /\ conn'[e].state = to /\ conn'[e].ack = conn[e].ack /\ conn'[e].seq = conn[e].seq + Span(m)
  <2>1. TcpTypes /\ Sends(e, c, {"FIN", "ACK"}, 0, memory) /\ {"FIN", "ACK"} \in SUBSET Flags
    BY DEF TcpInv, c, Flags
  <2> QED
    BY <1>2, <2>1, SendStep
<1> HIDE DEF m
<1>4. Other(e) \in Sides /\ Other(e) # e /\ Other(Other(e)) = e
      /\ \A f \in Sides : f = e \/ f = Other(e)
  BY TwoSides
<1>5. SideInv(e) /\ SideInv(Other(e)) /\ net \subseteq SegmentSet
  BY <1>4 DEF TcpInv, TcpTypes
<1>6. Span(m) = 1
  BY <1>3 DEF Span, Has
<1>7. \A f : SentBytes(f)' = SentBytes(f)
  BY <1>3, BytesKept
<1>8. SideInv(Other(e))'
  <2>1. \E n \in net : n.to = e
    BY <1>5 DEF SideInv, Stream, Writing
  <2> QED
    BY <1>3, <1>4, <1>5, <1>7, <2>1, PeerKeeps DEF DoneWriting, Past, FinSent
<1>9. ended[e] = "no" /\ ended'[e] = "no" /\ recvd'[e] = recvd[e] /\ ~DoneWriting(e)
      /\ conn[e].seq >= 1 /\ SentBytes(e) = 1..(conn[e].seq - 1)
  BY <1>5 DEF SideInv, Stream, Active, DoneWriting, Writing, FinSent
<1>10. conn[e].ack >= 1 /\ (to = "FIN_WAIT1" => conn[e].ack = Len(recvd[e]) + 1)
  <2>1. Len(recvd[e]) \in Nat
    BY LenProperties DEF TcpInv, TcpTypes
  <2> QED
    BY <1>5, <2>1 DEF SideInv, Expected
<1>11. Wire(e)'
  BY <1>3, <1>2, <1>5, <1>9, <1>10 DEF SideInv, Wire, Active, Listens, Has, DoneWriting, FinSent
<1>12. Stream(e)'
  <2>1. \A n \in net : n.to = Other(e) => ~Has(n, "FIN")
    BY <1>5, <1>9 DEF SideInv, Wire
  <2>2. \A n \in net' : n.to = Other(e) /\ Has(n, "FIN") => \A b \in SentBytes(e)' : b < n.seq
    BY <1>2, <1>3, <1>7, <1>9, <2>1
  <2>3. \E n \in net' : n.to = e /\ Has(n, "ACK")
    BY <1>3, <1>5 DEF SideInv, Stream, Writing
  <2>4. conn'[e].seq >= 2 /\ SentBytes(e)' = 1..(conn'[e].seq - 2)
    BY <1>2, <1>3, <1>6, <1>7, <1>9
  <2>5. FinOut(e)'
    BY <1>3 DEF FinOut, Has
  <2> QED
    BY <1>3, <1>9, <2>2, <2>3, <2>4, <2>5 DEF Stream, Active, Opening, Writing, FinSent
<1>13. Expected(e)'
  <2>1. DoneWriting(Other(e)) => DoneWriting(Other(e))'
    BY <1>3, <1>4 DEF DoneWriting
  <2> QED
    BY <1>3, <1>5, <1>7, <1>9, <2>1 DEF SideInv, Expected
<1>14. Queue(e)'
  BY <1>3 DEF Queue, Opening
<1>15. FinSeen(e)'
  BY <1>3, <1>9 DEF FinSeen
<1>16. Heard(e)'
  BY <1>3 DEF Heard, Spoke
<1> QED
  BY <1>3, <1>4, <1>8, <1>11, <1>12, <1>13, <1>14, <1>15, <1>16 DEF TcpInv, SideInv

\* The same without memory for the FIN: the state says that it was sent, and it was not.
LEMMA FinLacks ==
  ASSUME TcpInv, NEW e \in Sides, NEW to \in States,
         \/ conn[e].state = "ESTABLISHED" /\ to = "FIN_WAIT1"
         \/ conn[e].state = "CLOSE_WAIT" /\ to = "LAST_ACK",
         Lacks(e, [conn[e] EXCEPT !.state = to]), UNCHANGED <<recvd, ended>>
  PROVE  TcpInv'
<1> DEFINE c == [conn[e] EXCEPT !.state = to]
<1>1. c \in Entry(Keepable) /\ c.state = to /\ c.seq = conn[e].seq /\ c.ack = conn[e].ack
      /\ conn[e].seq \in Nat /\ conn[e].ack \in Nat
  <2> DEFINE Q == Seq([seg : Keepable, retries : Nat])
  <2>1. conn[e] \in [state : States, accepted : BOOLEAN, seq : Nat, ack : Nat, rtx : Q]
    BY DEF TcpInv, TcpTypes, Entry
  <2> HIDE DEF Q
  <2>2. c \in [state : States, accepted : BOOLEAN, seq : Nat, ack : Nat, rtx : Q]
        /\ c.state = to /\ c.seq = conn[e].seq /\ c.ack = conn[e].ack
        /\ conn[e].seq \in Nat /\ conn[e].ack \in Nat
    BY <2>1
  <2> QED
    BY <2>2 DEF Q, Entry
<1> HIDE DEF c
<1>2. TcpTypes' /\ net' = net /\ conn'[Other(e)] = conn[Other(e)] /\ conn'[e] = c
  <2>1. TcpTypes /\ Lacks(e, c)
    BY DEF TcpInv, c
  <2> QED
    BY <1>1, <2>1, LacksStep
<1>3. Other(e) \in Sides /\ Other(e) # e /\ Other(Other(e)) = e
      /\ \A f \in Sides : f = e \/ f = Other(e)
  BY TwoSides
<1>4. SideInv(e) /\ SideInv(Other(e))
  BY <1>3 DEF TcpInv
<1>5. \A f : SentBytes(f)' = SentBytes(f)
  BY <1>2 DEF SentBytes
<1>6. ended[e] = "no" /\ ended'[e] = "no" /\ recvd'[e] = recvd[e] /\ ~DoneWriting(e)
      /\ conn[e].seq >= 1 /\ SentBytes(e) = 1..(conn[e].seq - 1)
  BY <1>4 DEF SideInv, Stream, Active, DoneWriting, Writing, FinSent
<1>7. ~FinOut(e) /\ ~FinOut(e)'
  <2>1. ~FinOut(e)
    BY <1>4, <1>6 DEF SideInv, Wire, FinOut
  <2>2. FinOut(e)' <=> FinOut(e)
    BY <1>2 DEF FinOut
  <2> QED
    BY <2>1, <2>2
<1>8. SideInv(Other(e))'
  <2>1. /\ net \subseteq net' /\ SentBytes(e) \subseteq SentBytes(e)'
        /\ \A n \in net' : n \in net \/ n.to = Other(e)
        /\ \A n \in net' : n \in net \/ ~Has(n, "ACK") \/ \E k \in net : k.to = e
    BY <1>2, <1>5
  <2>2. (Past(e) => Past(e)') /\ ended'[Other(e)] = ended[Other(e)]
        /\ recvd'[Other(e)] = recvd[Other(e)]
    BY <1>1, <1>2 DEF Past, FinSent
  <2> QED
    BY <1>2, <1>3, <1>4, <1>6, <2>1, <2>2, PeerKeeps
<1>9. Wire(e)'
  BY <1>1, <1>2, <1>4, <1>6 DEF SideInv, Wire, Active, Listens, DoneWriting
<1>10. Stream(e)'
  BY <1>1, <1>2, <1>4, <1>5, <1>6, <1>7
     DEF SideInv, Stream, Active, Opening, Writing, FinSent, FinOut
<1>11. Expected(e)'
  <2>1. DoneWriting(Other(e)) => DoneWriting(Other(e))'
    BY <1>2, <1>3 DEF DoneWriting
  <2> QED
    BY <1>1, <1>2, <1>4, <1>5, <1>6, <2>1 DEF SideInv, Expected
<1>12. Queue(e)'
  BY <1>1, <1>2 DEF Queue, Opening
<1>13. FinSeen(e)'
  BY <1>1, <1>2, <1>6 DEF FinSeen
<1>14. Heard(e)'
  BY <1>2, <1>4 DEF SideInv, Heard, Spoke
<1> QED
  BY <1>2, <1>3, <1>8, <1>9, <1>10, <1>11, <1>12, <1>13, <1>14 DEF TcpInv, SideInv

\* A step that leaves a connection as it is.
LEMMA NothingKeeps ==
  ASSUME TcpInv, UNCHANGED <<conn, recvd, ended, net>>
  PROVE  TcpInv'
<1>1. \A f : SentBytes(f)' = SentBytes(f)
  BY DEF SentBytes
<1>2. TcpTypes'
  BY DEF TcpInv, TcpTypes, Keepable
<1>3. ASSUME NEW f \in Sides PROVE SideInv(f)'
  <2>1. SideInv(f)
    BY DEF TcpInv
  <2> QED
    BY <1>1, <2>1 DEF SideInv, Wire, Stream, Expected, Queue, FinSeen, Heard, Spoke, FinOut, Active,
                      DoneWriting, Listens, Past
<1> QED
  BY <1>2, <1>3 DEF TcpInv

\* An entry is given back, perhaps with an acknowledgement.
LEMMA ReleaseKeeps ==
  ASSUME TcpInv, NEW e \in Sides, NEW how \in {"closed", "dropped", "given up"},
         Release(e, how), recvd' = recvd,
         net \subseteq net', net' \subseteq SegmentSet,
         \A m \in net' : m \in net \/ (m.to = Other(e) /\ m.len = 0 /\ m.flags = {"ACK"}
                                       /\ m.ack >= 1),
         net' # net => \E m \in net : m.to = e,
         how = "closed" => Past(Other(e))
  PROVE  TcpInv'
<1>1. Other(e) \in Sides /\ Other(e) # e /\ Other(Other(e)) = e
      /\ \A f \in Sides : f = e \/ f = Other(e)
  BY TwoSides
<1>2. SideInv(e) /\ SideInv(Other(e))
  BY <1>1 DEF TcpInv
<1>3. conn' = [conn EXCEPT ![e] = Closed] /\ ended' = [ended EXCEPT ![e] = how]
  BY DEF Release
<1>4. conn'[e] = Closed /\ conn'[Other(e)] = conn[Other(e)]
      /\ ended'[e] = how /\ ended'[Other(e)] = ended[Other(e)]
      /\ ended' \in [Sides -> {"no", "closed", "dropped", "given up"}]
  BY <1>1, <1>3 DEF TcpInv, TcpTypes
<1>5. Closed \in Entry(Keepable')
  <2> DEFINE Q == Seq([seg : Keepable', retries : Nat])
  <2>1. <<>> \in Q
    BY EmptySeq
  <2> HIDE DEF Q
  <2>2. Closed \in [state : States, accepted : BOOLEAN, seq : Nat, ack : Nat, rtx : Q]
    BY <2>1 DEF Closed, States
  <2> QED
    BY <2>2 DEF Entry, Q
<1>6. TcpTypes'
  BY <1>3, <1>4, <1>5, TypesKept DEF TcpInv, TcpTypes
<1>7. \A m \in net' : m \in net \/ (m.to = Other(e) /\ m.len = 0 /\ m.ack >= 1
                                     /\ ~Has(m, "SYN") /\ ~Has(m, "FIN"))
  <2> TAKE m \in net'
  <2>1. m \in net \/ (m.to = Other(e) /\ m.len = 0 /\ m.flags = {"ACK"} /\ m.ack >= 1)
    OBVIOUS
  <2>2. m.flags = {"ACK"} => ~Has(m, "SYN") /\ ~Has(m, "FIN")
    BY DEF Has
  <2> QED
    BY <2>1, <2>2
<1>8. \A f : SentBytes(f)' = SentBytes(f)
  <2>1. \A m \in net' : m \in net \/ m.len = 0
    BY <1>7
  <2> QED
    BY <2>1, BytesKept
<1>9. conn'[e].state = "CLOSED" /\ ended'[e] # "no" /\ recvd'[e] = recvd[e]
  <2>1. Closed.state = "CLOSED"
    BY DEF Closed
  <2>2. how # "no"
    OBVIOUS
  <2> QED
    BY <1>4, <2>1, <2>2
<1>10. DoneWriting(e)' /\ Past(e)'
  BY <1>9 DEF DoneWriting, Past
<1>11. SideInv(Other(e))'
  <2>1. \A m \in net' : m \in net \/ ~Has(m, "ACK") \/ \E n \in net : n.to = e
    OBVIOUS
  <2> QED
    BY <1>1, <1>2, <1>4, <1>8, <1>10, <2>1, PeerKeeps
<1>12. Wire(e)'
  <2> SUFFICES ASSUME NEW m \in net', m.to = Other(e)
               PROVE  /\ Has(m, "SYN") => m.seq = 0 /\ m.len = 0
                      /\ m.len > 0 => m.seq >= 1 /\ Has(m, "ACK")
                      /\ Has(m, "FIN") => m.len = 0 /\ m.seq >= 1
                      /\ Has(m, "ACK") => m.ack >= 1
    BY <1>9, <1>10 DEF Wire, Listens
  <2> QED
    <3>1. CASE m \in net
      BY <1>2, <3>1 DEF SideInv, Wire
    <3>2. CASE m \notin net
      <4>1. m.len = 0 /\ m.ack >= 1 /\ ~Has(m, "SYN") /\ ~Has(m, "FIN")
        BY <1>7, <3>2
      <4>2. m.len = 0
        BY <4>1
      <4>3. ~(m.len > 0)
        BY <4>2, ZeroIsLeast
      <4> QED
        BY <4>1, <4>3
    <3> QED
      BY <3>1, <3>2
<1>13. Stream(e)'
  <2>1. \A m \in net' : m.to = Other(e) /\ Has(m, "FIN") => \A b \in SentBytes(e)' : b < m.seq
    <3>1. \A m \in net' : Has(m, "FIN") => m \in net
      BY <1>7
    <3> QED
      BY <1>2, <1>8, <3>1 DEF SideInv, Stream
  <2> QED
    BY <1>2, <1>8, <1>9, <2>1 DEF SideInv, Stream, Active, Opening, Writing, FinSent
<1>14. Expected(e)'
  BY <1>2, <1>8, <1>9 DEF SideInv, Expected
<1>15. Queue(e)'
  BY <1>9 DEF Queue, Opening
<1>16. FinSeen(e)'
  <2>1. ended'[e] = "closed" => Past(Other(e))'
    BY <1>4 DEF Past
  <2> QED
    BY <1>9, <2>1 DEF FinSeen
<1>17. Heard(e)'
  <2>1. \A m \in net' : m.to = e => m \in net
    BY <1>1
  <2> QED
    BY <1>2, <2>1 DEF SideInv, Heard, Spoke
<1> QED
  BY <1>1, <1>6, <1>11, <1>12, <1>13, <1>14, <1>15, <1>16, <1>17 DEF TcpInv, SideInv

\* tcp_send: the next byte, kept if there are room and memory.
LEMMA ByteKeeps ==
  ASSUME TcpInv, NEW e \in Sides, Write(e), NEW memory \in BOOLEAN,
         Sends(e, conn[e], {"ACK"}, 1, memory)
  PROVE  TcpInv'
<1> DEFINE c == conn[e]
           m == Segment(e, c, {"ACK"}, 1)
<1>1. /\ c \in Entry(Keepable) /\ c.seq \in Nat /\ c.ack \in Nat
      /\ c.rtx \in Seq([seg : Keepable, retries : Nat]) /\ Len(c.rtx) \in Nat
  BY LenProperties DEF TcpInv, TcpTypes, Entry
<1>2. /\ TcpTypes'
      /\ net' = net \cup {m} /\ m \in SegmentSet
      /\ m.to = Other(e) /\ m.flags = {"ACK"} /\ m.len = 1 /\ m.seq = c.seq /\ m.ack = c.ack
      /\ conn'[Other(e)] = conn[Other(e)]
      /\ conn'[e].state = c.state /\ conn'[e].ack = c.ack /\ conn'[e].seq = c.seq + Span(m)
      /\ UNCHANGED <<recvd, ended>>
  <2>1. TcpTypes /\ Sends(e, c, {"ACK"}, 1, memory) /\ {"ACK"} \in SUBSET Flags
        /\ UNCHANGED <<recvd, ended>>
    BY DEF TcpInv, Write, Flags
  <2> QED
    BY <1>1, <2>1, SendStep
<1>3. c.state \in {"ESTABLISHED", "CLOSE_WAIT"}
  BY DEF Write
<1> HIDE DEF m
<1>4. Other(e) \in Sides /\ Other(e) # e /\ Other(Other(e)) = e
      /\ \A f \in Sides : f = e \/ f = Other(e)
  BY TwoSides
<1>5. SideInv(e) /\ SideInv(Other(e)) /\ net \subseteq SegmentSet
  BY <1>4 DEF TcpInv, TcpTypes
<1>6. Span(m) = 1
  BY <1>2 DEF Span, Has
<1>7. /\ ended[e] = "no" /\ ended'[e] = "no" /\ recvd'[e] = recvd[e] /\ ~DoneWriting(e)
      /\ c.seq >= 1 /\ SentBytes(e) = 1..(c.seq - 1)
  BY <1>2, <1>3, <1>5 DEF SideInv, Stream, Active, DoneWriting, Writing, FinSent
<1>8. SentBytes(e)' = SentBytes(e) \cup {c.seq}
  BY <1>2 DEF SentBytes
<1>9. SentBytes(Other(e))' = SentBytes(Other(e))
  BY <1>2, <1>4 DEF SentBytes
<1>10. SideInv(Other(e))'
  <2>1. \E n \in net : n.to = e
    BY <1>3, <1>5 DEF SideInv, Stream, Writing
  <2> QED
    BY <1>2, <1>4, <1>5, <1>7, <1>8, <2>1, PeerKeeps DEF Past, FinSent
<1>11. c.ack >= 1 /\ (c.state = "ESTABLISHED" => c.ack = Len(recvd[e]) + 1)
  <2>1. Len(recvd[e]) \in Nat
    BY LenProperties DEF TcpInv, TcpTypes
  <2> QED
    BY <1>3, <1>5, <2>1 DEF SideInv, Expected
<1>12. Wire(e)'
  BY <1>2, <1>3, <1>5, <1>7, <1>11 DEF SideInv, Wire, Active, Listens, Has, DoneWriting, FinSent
<1>13. Stream(e)'
  <2>1. \A n \in net : n.to = Other(e) => ~Has(n, "FIN")
    BY <1>5, <1>7 DEF SideInv, Wire
  <2>2. \A n \in net' : n.to = Other(e) => ~Has(n, "FIN")
    BY <1>2, <2>1 DEF Has
  <2>3. \E n \in net' : n.to = e /\ Has(n, "ACK")
    BY <1>2, <1>3, <1>5 DEF SideInv, Stream, Writing
  <2>4. conn'[e].seq >= 1 /\ SentBytes(e)' = 1..(conn'[e].seq - 1)
    BY <1>1, <1>2, <1>6, <1>7, <1>8
  <2> QED
    BY <1>2, <1>3, <1>7, <2>2, <2>3, <2>4 DEF Stream, Active, Opening, Writing, FinSent
<1>14. Expected(e)'
  <2>1. DoneWriting(Other(e)) => DoneWriting(Other(e))'
    BY <1>2, <1>4 DEF DoneWriting
  <2> QED
    BY <1>2, <1>5, <1>7, <1>9, <2>1 DEF SideInv, Expected
<1>15. Queue(e)'
  BY <1>2, <1>3 DEF Queue, Opening
<1>16. FinSeen(e)'
  BY <1>2, <1>3, <1>7 DEF FinSeen
<1>17. Heard(e)'
  BY <1>2 DEF Heard, Spoke
<1> QED
  BY <1>2, <1>4, <1>10, <1>12, <1>13, <1>14, <1>15, <1>16, <1>17 DEF TcpInv, SideInv

\* An entry is replaced by itself if there is no memory.
LEMMA LacksSame ==
  ASSUME TcpTypes, NEW e \in Sides, Lacks(e, conn[e])
  PROVE  conn' = conn /\ net' = net
  BY DEF Lacks, TcpTypes

\* send_segment has memory, or it has not.
LEMMA SendSplits ==
  ASSUME NEW e, NEW c, NEW flags, NEW len, Send(e, c, flags, len)
  PROVE  (\E memory \in BOOLEAN : Sends(e, c, flags, len, memory)) \/ Lacks(e, c)
  BY DEF Send, Sends, Lacks

\* tcp_send.
LEMMA WriteKeeps ==
  ASSUME TcpInv, NEW e \in Sides, Write(e)
  PROVE  TcpInv'
<1>1. Send(e, conn[e], {"ACK"}, 1) /\ UNCHANGED <<recvd, ended>>
  BY DEF Write
<1>2. CASE Lacks(e, conn[e])
  BY <1>1, <1>2, LacksSame, NothingKeeps DEF TcpInv
<1>3. ASSUME NEW memory \in BOOLEAN, Sends(e, conn[e], {"ACK"}, 1, memory) PROVE TcpInv'
  BY <1>3, ByteKeeps
<1> QED
  BY <1>1, <1>2, <1>3, SendSplits

\* tcp_accept and tcp_tick leave what the invariant speaks of.
LEMMA SameKeeps ==
  ASSUME TcpInv, NEW e \in Sides, NEW d \in Entry(Keepable),
         conn' = [conn EXCEPT ![e] = d], UNCHANGED <<recvd, ended, net>>,
         d.state = conn[e].state, d.seq = conn[e].seq, d.ack = conn[e].ack,
         Len(d.rtx) = Len(conn[e].rtx),
         \A i \in 1..Len(d.rtx) : d.rtx[i].seg = conn[e].rtx[i].seg
  PROVE  TcpInv'
<1>1. \A f \in Sides : f # e => conn'[f] = conn[f]
  BY DEF TcpInv, TcpTypes
<1>2. conn'[e] = d
  BY DEF TcpInv, TcpTypes
<1>3. TcpTypes'
  BY TypesKept DEF TcpInv, TcpTypes, Keepable
<1>4. \A f \in Sides : conn'[f].state = conn[f].state /\ conn'[f].seq = conn[f].seq
                       /\ conn'[f].ack = conn[f].ack
  BY <1>1, <1>2
<1>5. \A f : SentBytes(f)' = SentBytes(f)
  BY DEF SentBytes
<1>6. ASSUME NEW f \in Sides PROVE SideInv(f)'
  <2>1. SideInv(f) /\ Other(f) \in Sides
    BY TwoSides DEF TcpInv
  <2>2. Wire(f)'
    BY <1>4, <2>1 DEF SideInv, Wire, Active, DoneWriting, Listens
  <2>3. Stream(f)'
    BY <1>4, <1>5, <2>1 DEF SideInv, Stream, Active, Spoke, FinOut
  <2>4. Expected(f)'
    BY <1>4, <1>5, <2>1 DEF SideInv, Expected, DoneWriting
  <2>5. Queue(f)'
    <3>1. CASE f = e
      BY <1>2, <2>1, <3>1 DEF SideInv, Queue
    <3>2. CASE f # e
      BY <1>1, <2>1, <3>2 DEF SideInv, Queue
    <3> QED
      BY <3>1, <3>2
  <2>6. FinSeen(f)'
    BY <1>4, <2>1 DEF SideInv, FinSeen, Past, FinOut
  <2>7. Heard(f)'
    BY <2>1 DEF SideInv, Heard, Spoke
  <2> QED
    BY <2>2, <2>3, <2>4, <2>5, <2>6, <2>7 DEF SideInv
<1> QED
  BY <1>3, <1>6 DEF TcpInv

\* tcp_accept.
LEMMA AcceptKeeps == TcpInv /\ Accept => TcpInv'
<1> SUFFICES ASSUME TcpInv, Accept PROVE TcpInv'
  OBVIOUS
<1> DEFINE e == "server"
           d == [conn[e] EXCEPT !.accepted = TRUE]
<1>1. e \in Sides /\ conn[e] \in Entry(Keepable)
  BY DEF Sides, TcpInv, TcpTypes
<1>2. d \in Entry(Keepable) /\ d.state = conn[e].state /\ d.seq = conn[e].seq
      /\ d.ack = conn[e].ack /\ d.rtx = conn[e].rtx
  <2> DEFINE Q == Seq([seg : Keepable, retries : Nat])
  <2>1. conn[e] \in [state : States, accepted : BOOLEAN, seq : Nat, ack : Nat, rtx : Q]
    BY <1>1 DEF Entry
  <2> HIDE DEF Q
  <2>2. d \in [state : States, accepted : BOOLEAN, seq : Nat, ack : Nat, rtx : Q]
        /\ d.state = conn[e].state /\ d.seq = conn[e].seq
        /\ d.ack = conn[e].ack /\ d.rtx = conn[e].rtx
    BY <2>1
  <2> QED
    BY <2>2 DEF Q, Entry
<1>3. conn' = [conn EXCEPT ![e] = d] /\ UNCHANGED <<recvd, ended, net>>
  BY DEF Accept
<1> HIDE DEF e, d
<1> QED
  BY <1>1, <1>2, <1>3, SameKeeps

\* tcp_tick sends again only what is on the wire already, as far as the model is concerned.
LEMMA ResendKeeps ==
  ASSUME TcpInv, NEW e \in Sides, NEW late, Resend(e, late)
  PROVE  TcpInv'
<1> DEFINE rtx == conn[e].rtx
           new == Retried(rtx, late)
           d == [conn[e] EXCEPT !.rtx = new]
           R == [seg : Keepable, retries : Nat]
<1>1. /\ late \subseteq DOMAIN rtx
      /\ conn' = [conn EXCEPT ![e] = d]
      /\ net' = net \cup {rtx[i].seg : i \in late}
      /\ UNCHANGED <<recvd, ended>>
  <2>1. conn' = [conn EXCEPT ![e].rtx = new]
    BY DEF Resend
  <2> HIDE DEF new
  <2>2. conn' = [conn EXCEPT ![e] = d]
    BY <2>1
  <2> QED
    BY <2>2 DEF Resend
<1>2. conn[e] \in Entry(Keepable) /\ rtx \in Seq(R)
  BY DEF TcpInv, TcpTypes, Entry
<1>3. Len(rtx) \in Nat /\ DOMAIN rtx = 1..Len(rtx) /\ \A i \in 1..Len(rtx) : rtx[i] \in R
  BY <1>2, LenProperties, ElementOfSeq
<1>4. net' = net
  BY <1>1, <1>3 DEF Keepable
<1>5. \A i \in 1..Len(rtx) : new[i] \in R /\ new[i].seg = rtx[i].seg
  BY <1>3 DEF Retried
<1>6. new \in [1..Len(rtx) -> R]
  BY <1>3, <1>5 DEF Retried
<1>7. new \in Seq(R) /\ Len(new) = Len(rtx)
  <2> HIDE DEF new, R, rtx
  <2>1. new \in Seq(R)
    BY <1>3, <1>6, SeqDef
  <2>2. DOMAIN new = 1..Len(new) /\ Len(new) \in Nat /\ DOMAIN new = 1..Len(rtx)
    BY <1>6, <2>1, LenProperties
  <2>3. \A a, b \in Nat : 1..a = 1..b => a = b
    <3> TAKE a, b \in Nat
    <3>1. a > 0 => a \in 1..a
      OBVIOUS
    <3>2. b > 0 => b \in 1..b
      OBVIOUS
    <3> QED
      BY <3>1, <3>2
  <2> QED
    BY <1>3, <2>1, <2>2, <2>3
<1>8. d \in Entry(Keepable) /\ d.state = conn[e].state /\ d.seq = conn[e].seq
      /\ d.ack = conn[e].ack /\ d.rtx = new
  <2> DEFINE Q == Seq([seg : Keepable, retries : Nat])
  <2>1. conn[e] \in [state : States, accepted : BOOLEAN, seq : Nat, ack : Nat, rtx : Q]
        /\ new \in Q
    BY <1>2, <1>7 DEF Entry
  <2> HIDE DEF Q, new
  <2>2. d \in [state : States, accepted : BOOLEAN, seq : Nat, ack : Nat, rtx : Q]
        /\ d.state = conn[e].state /\ d.seq = conn[e].seq
        /\ d.ack = conn[e].ack /\ d.rtx = new
    BY <2>1
  <2> QED
    BY <2>2 DEF Q, Entry
<1> HIDE DEF d, new, R
<1> QED
  BY <1>1, <1>4, <1>5, <1>7, <1>8, SameKeeps

\* A reset promises nothing, and it comes from a side that is gone.
LEMMA RefuseKeeps ==
  ASSUME TcpInv, NEW m \in net, Refuse(m)
  PROVE  TcpInv'
<1> DEFINE e == m.to
           r == [to |-> Other(e), flags |-> {"RST", "ACK"}, seq |-> 0, ack |-> m.seq + 1, len |-> 0]
<1>1. e \in Sides /\ m.seq \in Nat /\ net \subseteq SegmentSet
  BY DEF TcpInv, TcpTypes, SegmentSet
<1>2. /\ conn[e].state = "CLOSED" /\ ended[e] # "no"
      /\ net' = net \cup {r} /\ UNCHANGED <<conn, recvd, ended>>
  BY DEF Refuse, Active
<1>3. Other(e) \in Sides /\ Other(e) # e /\ Other(Other(e)) = e
      /\ \A f \in Sides : f = e \/ f = Other(e)
  BY <1>1, TwoSides
<1>4. r \in SegmentSet /\ r.to = Other(e) /\ r.len = 0 /\ r.ack >= 1
      /\ ~Has(r, "SYN") /\ ~Has(r, "FIN") /\ Has(r, "ACK")
  BY <1>1, <1>3 DEF SegmentSet, Flags, Has
<1>5. ~(r.len > 0)
  BY <1>4, ZeroIsLeast
<1> HIDE DEF e, r
<1>6. SideInv(e) /\ SideInv(Other(e))
  BY <1>1, <1>3 DEF TcpInv
<1>7. \A f : SentBytes(f)' = SentBytes(f)
  BY <1>2, <1>4, BytesKept
<1>8. TcpTypes'
  <2>1. Keepable \subseteq Keepable'
    BY <1>2 DEF Keepable
  <2>2. conn[e] \in Entry(Keepable)
    BY <1>1 DEF TcpInv, TcpTypes
  <2>3. conn[e] \in Entry(Keepable')
    BY <2>1, <2>2, EntryGrows
  <2>4. conn' = [conn EXCEPT ![e] = conn[e]]
    BY <1>1, <1>2 DEF TcpInv, TcpTypes
  <2> QED
    BY <1>1, <1>2, <1>4, <2>3, <2>4, TypesKept DEF TcpInv, TcpTypes
<1>9. SideInv(Other(e))'
  <2>1. \A n \in net' : n \in net \/ n.to = Other(e)
    BY <1>2, <1>4
  <2>2. net \subseteq net' /\ SentBytes(e)' = SentBytes(e)
    BY <1>2, <1>7
  <2>3. (DoneWriting(e) => DoneWriting(e)') /\ (Past(e) => Past(e)')
    BY <1>2 DEF DoneWriting, Past
  <2> QED
    BY <1>1, <1>2, <1>6, <2>1, <2>2, <2>3, PeerKeeps DEF e
<1>10. Wire(e)'
  BY <1>2, <1>4, <1>5, <1>6 DEF SideInv, Wire, Listens, DoneWriting
<1>11. Stream(e)'
  BY <1>2, <1>4, <1>6, <1>7 DEF SideInv, Stream, Active, Opening, Writing, FinSent
<1>12. Expected(e)'
  BY <1>2, <1>6, <1>7 DEF SideInv, Expected
<1>13. Queue(e)'
  BY <1>2, <1>6 DEF SideInv, Queue
<1>14. FinSeen(e)'
  BY <1>2, <1>6 DEF SideInv, FinSeen, Past
<1>15. Heard(e)'
  BY <1>2, <1>3, <1>4, <1>6 DEF SideInv, Heard, Spoke
<1> QED
  BY <1>1, <1>3, <1>8, <1>9, <1>10, <1>11, <1>12, <1>13, <1>14, <1>15 DEF TcpInv, SideInv

----------------------------------------------------------------------------
(* tcp_handle_packet, part by part.                                         *)

\* Who sees its FIN acknowledged knows that the peer has seen it: what else a peer that has not
\* could acknowledge are bytes, and they come before.
LEMMA FinAcked ==
  ASSUME TcpInv, NEW m \in net, Has(m, "ACK"),
         conn[m.to].state \in FinSent, FinOut(m.to), m.ack >= conn[m.to].seq
  PROVE  Past(Other(m.to))
<1> DEFINE e == m.to
           p == Other(e)
<1>1. e \in Sides /\ p \in Sides /\ Other(p) = e /\ m.ack \in Nat
  BY TwoSides DEF TcpInv, TcpTypes, SegmentSet
<1>2. SideInv(e) /\ SideInv(p)
  BY <1>1 DEF TcpInv
<1>3. Len(recvd[p]) \in Nat /\ conn[e].seq \in Nat
  BY <1>1, LenProperties DEF TcpInv, TcpTypes, Entry
<1> HIDE DEF e, p
<1>4. conn[e].seq >= 2 /\ SentBytes(e) = 1..(conn[e].seq - 2)
  BY <1>2 DEF SideInv, Stream, e
<1>5. 1..Len(recvd[p]) \subseteq SentBytes(e)
  BY <1>1, <1>2 DEF SideInv, Expected
<1>6. Len(recvd[p]) <= conn[e].seq - 2
  BY <1>3, <1>4, <1>5
<1>7. ~Past(p) => ended[p] = "no" /\ Listens(p)
  BY DEF Past, Listens, FinSent
<1>8. Listens(p) => m.ack <= Len(recvd[p]) + 1
  BY <1>1, <1>2 DEF SideInv, Wire, e
<1>9. m.ack >= conn[e].seq
  BY DEF e
<1> QED
  BY <1>1, <1>3, <1>4, <1>6, <1>7, <1>8, <1>9 DEF p, e

\* The entry once the acknowledgement has been seen to.
LEMMA AfterAckFacts ==
  ASSUME TcpInv, NEW m \in net, NEW e \in Sides, e = m.to
  PROVE  LET c1 == AfterAck(e, m) IN
         /\ c1 \in Entry(Keepable) /\ c1.seq = conn[e].seq /\ c1.ack = conn[e].ack
         /\ \/ c1.state = conn[e].state
            \/ conn[e].state = "FIN_WAIT1" /\ c1.state = "FIN_WAIT2"
               /\ (FinOut(e) => Past(Other(e)))
            \/ conn[e].state = "SYN_RCVD" /\ c1.state = "ESTABLISHED" /\ Has(m, "ACK")
         /\ Len(c1.rtx) <= Len(conn[e].rtx)
         /\ \A i \in 1..Len(c1.rtx) : \E j \in 1..Len(conn[e].rtx) : c1.rtx[i] = conn[e].rtx[j]
         /\ Has(m, "ACK") => /\ c1.state # "SYN_RCVD"
                             /\ conn[e].state \in Opening => Len(c1.rtx) = 0
                             /\ c1.rtx = Unacked(conn[e].rtx, m.ack)
         /\ ~Has(m, "ACK") => c1.rtx = conn[e].rtx
<1> DEFINE c == conn[e]
           c1 == AfterAck(e, m)
           Q == Seq([seg : Keepable, retries : Nat])
<1>1. c \in [state : States, accepted : BOOLEAN, seq : Nat, ack : Nat, rtx : Q]
      /\ m.ack \in Nat /\ Keepable \subseteq SegmentSet /\ c.seq \in Nat
  BY DEF TcpInv, TcpTypes, Entry, SegmentSet, Keepable
<1>2. SideInv(e) /\ SideInv(Other(e)) /\ Other(Other(e)) = e
  BY TwoSides DEF TcpInv
<1>3. CASE ~Has(m, "ACK")
  <2>1. c1 = c
    BY <1>3 DEF AfterAck
  <2>2. Len(c.rtx) \in Nat
    BY <1>1, LenProperties
  <2> HIDE DEF c1
  <2> QED
    BY <1>1, <1>3, <2>1, <2>2 DEF c1, Entry
<1>4. CASE Has(m, "ACK")
  <2> DEFINE rest == Unacked(c.rtx, m.ack)
             s1 == IF c.state = "FIN_WAIT1" /\ AllAcked(e, m) THEN "FIN_WAIT2"
                   ELSE IF c.state = "SYN_RCVD" THEN "ESTABLISHED" ELSE c.state
  <2>1. c1 = [c EXCEPT !.rtx = rest, !.state = s1]
    BY <1>4 DEF AfterAck
  <2>2. /\ rest \in Q /\ Len(rest) <= Len(c.rtx)
        /\ \A i \in 1..Len(rest) : \E j \in 1..Len(c.rtx) : rest[i] = c.rtx[j]
        /\ (\A j \in 1..Len(c.rtx) : AckSeq(c.rtx[j].seg) <= m.ack) => Len(rest) = 0
    <3>1. c.rtx \in Seq([seg : Keepable, retries : Nat])
      BY <1>1
    <3>2. Keepable \in SUBSET SegmentSet /\ m.ack \in Nat
      BY <1>1
    <3> HIDE DEF c
    <3>3. LET r == Unacked(c.rtx, m.ack) IN
          /\ r \in Seq([seg : Keepable, retries : Nat]) /\ Len(r) <= Len(c.rtx)
          /\ \A i \in 1..Len(r) : \E j \in 1..Len(c.rtx) : r[i] = c.rtx[j]
          /\ (\A j \in 1..Len(c.rtx) : AckSeq(c.rtx[j].seg) <= m.ack) => Len(r) = 0
      BY <3>1, <3>2, UnackedFacts, ZenonT(60)
    <3> QED
      BY <3>3
  <2>3. c.state \in Opening => Len(rest) = 0
    <3>1. m.ack >= 1
      BY <1>2, <1>4 DEF SideInv, Wire
    <3>2. c.state \in Opening => \A j \in 1..Len(c.rtx) : AckSeq(c.rtx[j].seg) = 1
      BY <1>2 DEF SideInv, Queue
    <3> QED
      BY <2>2, <3>1, <3>2
  <2> HIDE DEF Q, rest
  <2>4. s1 \in States /\ s1 # "SYN_RCVD"
    BY <1>1 DEF States
  <2>5. \/ s1 = c.state
        \/ c.state = "FIN_WAIT1" /\ s1 = "FIN_WAIT2" /\ AllAcked(e, m)
        \/ c.state = "SYN_RCVD" /\ s1 = "ESTABLISHED"
    OBVIOUS
  <2> HIDE DEF s1, c1
  <2>6. c.state = "FIN_WAIT1" /\ AllAcked(e, m) /\ FinOut(e) => Past(Other(e))
    BY <1>4, FinAcked DEF AllAcked, FinSent
  <2>7. /\ c1 \in [state : States, accepted : BOOLEAN, seq : Nat, ack : Nat, rtx : Q]
        /\ c1.seq = c.seq /\ c1.ack = c.ack /\ c1.state = s1 /\ c1.rtx = rest
    BY <1>1, <2>1, <2>2, <2>4
  <2> QED
    BY <1>4, <2>2, <2>3, <2>4, <2>5, <2>6, <2>7 DEF c1, Q, Entry, rest
<1> QED
  BY <1>3, <1>4

\* What is in recv_buf once the payload has been seen to.
Buffer(e, m, stored) ==
    IF stored THEN recvd[e] \o [i \in 1..m.len |-> m.seq + i - 1] ELSE recvd[e]

\* The entry then, c2, which was c1 before, and the buffer, r2.
DataSeen(e, m, stored, c1, c2, r2) ==
    /\ c2 \in Entry(Keepable) /\ c2.seq = c1.seq /\ c2.rtx = c1.rtx
    /\ \/ c2.state = c1.state
       \/ conn[e].state = "SYN_SENT" /\ c2.state = "ESTABLISHED" /\ Has(m, "ACK")
    /\ r2 \in Seq(Nat) /\ r2 = [i \in 1..Len(r2) |-> i]
    /\ Len(recvd[e]) <= Len(r2) /\ 1..Len(r2) \subseteq SentBytes(Other(e))
    /\ c2.state = "SYN_SENT" => c2.ack = 0 /\ r2 = <<>> /\ ~Acks(c1, m, stored)
    /\ c2.state \in {"SYN_RCVD", "ESTABLISHED", "FIN_WAIT1", "FIN_WAIT2"}
       => c2.ack = Len(r2) + 1
    /\ c2.state \in {"CLOSE_WAIT", "LAST_ACK"} => c2.ack = conn[e].ack /\ c2.ack >= 1
    /\ stored => m.len = 1

\* The payload or the SYN-ACK, at tcp_handle_packet.
LEMMA AfterDataFacts ==
  ASSUME TcpInv, NEW m \in net, NEW e \in Sides, e = m.to, NEW stored \in BOOLEAN, Active(e),
         stored => HasData(m) /\ InOrder(AfterAck(e, m), m)
  PROVE  DataSeen(e, m, stored, AfterAck(e, m), AfterData(AfterAck(e, m), m, stored),
                  Buffer(e, m, stored))
<1> DEFINE c == conn[e]
           p == Other(e)
           c1 == AfterAck(e, m)
           c2 == AfterData(c1, m, stored)
           r2 == Buffer(e, m, stored)
           Q == Seq([seg : Keepable, retries : Nat])
<1>1. /\ c1 \in Entry(Keepable) /\ c1.seq = c.seq /\ c1.ack = c.ack
      /\ \/ c1.state = c.state
         \/ c.state = "FIN_WAIT1" /\ c1.state = "FIN_WAIT2"
         \/ c.state = "SYN_RCVD" /\ c1.state = "ESTABLISHED"
  BY AfterAckFacts
<1>2. p \in Sides /\ Other(p) = e /\ SideInv(e) /\ SideInv(p)
  BY TwoSides DEF TcpInv
<1>3. m \in SegmentSet /\ m.seq \in Nat /\ m.len \in {0, 1} /\ c.ack \in Nat
      /\ recvd[e] \in Seq(Nat) /\ Len(recvd[e]) \in Nat
  BY LenProperties DEF TcpInv, TcpTypes, SegmentSet, Entry
<1>4. c.state \in States /\ c.state # "CLOSED" /\ ended[e] = "no"
  BY <1>2 DEF Active, SideInv, Stream, TcpInv, TcpTypes, Entry
<1>5. HasData(m) => m.len = 1 /\ m.seq >= 1 /\ m.seq \in SentBytes(p) /\ c.state # "SYN_SENT"
  <2> SUFFICES ASSUME HasData(m)
               PROVE  m.len = 1 /\ m.seq >= 1 /\ m.seq \in SentBytes(p) /\ c.state # "SYN_SENT"
    OBVIOUS
  <2>1. m.len > 0
    BY DEF HasData
  <2>2. m.len = 1
    BY <1>3, <2>1
  <2>3. m.seq \in SentBytes(p)
    BY <1>2, <2>1 DEF SentBytes
  <2>4. m.seq >= 1
    BY <1>2, <2>1 DEF SideInv, Wire
  <2>5. PICK n \in net : n.to = p /\ Has(n, "ACK")
    BY <1>2, <2>3 DEF SideInv, Stream
  <2>6. c.state # "SYN_SENT"
    BY <1>2, <2>5 DEF SideInv, Wire
  <2> QED
    BY <2>2, <2>3, <2>4, <2>6
<1>6. /\ recvd[e] = [i \in 1..Len(recvd[e]) |-> i]
      /\ 1..Len(recvd[e]) \subseteq SentBytes(p)
      /\ c.state = "SYN_SENT" => c.ack = 0 /\ recvd[e] = <<>>
      /\ c.state \in {"SYN_RCVD", "ESTABLISHED", "FIN_WAIT1", "FIN_WAIT2"}
         => c.ack = Len(recvd[e]) + 1
      /\ c.state \in {"CLOSE_WAIT", "LAST_ACK"}
         => c.ack >= 1 /\ \A b \in SentBytes(p) : b < c.ack
  BY <1>2, <1>4 DEF SideInv, Expected
<1>7. stored => HasData(m) /\ m.seq = c.ack
  BY <1>1 DEF InOrder
<1>8. CASE stored
  <2>1. m.len = 1 /\ m.seq >= 1 /\ m.seq = c.ack /\ m.seq \in SentBytes(p) /\ c.state # "SYN_SENT"
    BY <1>5, <1>7, <1>8
  <2>2. c.state \notin {"CLOSE_WAIT", "LAST_ACK"}
    <3>1. ~(c.ack < c.ack)
      BY <1>3
    <3> QED
      BY <1>6, <2>1, <3>1
  <2>3. c.state \in {"SYN_RCVD", "ESTABLISHED", "FIN_WAIT1", "FIN_WAIT2"}
    BY <1>4, <2>1, <2>2 DEF States
  <2>4. c.ack = Len(recvd[e]) + 1
    BY <1>6, <2>3
  <2> DEFINE n == Len(recvd[e])
             t == [i \in 1..m.len |-> m.seq + i - 1]
  <2>5. t \in Seq(Nat) /\ Len(t) = 1 /\ t[1] = n + 1
    <3>1. t = [i \in 1..1 |-> n + i]
      <4>1. m.len = 1 /\ m.seq = n + 1 /\ n \in Nat
        BY <1>3, <2>1, <2>4
      <4>2. \A i \in 1..1 : m.seq + i - 1 = n + i
        BY <4>1
      <4> QED
        BY <4>1, <4>2
    <3> HIDE DEF n, t
    <3>2. n \in Nat
      BY <1>3 DEF n
    <3>3. t \in [1..1 -> Nat] /\ t[1] = n + 1
      BY <3>1, <3>2
    <3>4. t = <<n + 1>>
      BY <3>3
    <3>5. n + 1 \in Nat
      BY <3>2
    <3> QED
      BY <3>3, <3>4, <3>5
  <2>6. /\ r2 \in Seq(Nat) /\ Len(r2) = n + 1
        /\ \A i \in 1..(n + 1) : r2[i] = IF i <= n THEN recvd[e][i] ELSE t[i - n]
    <3>1. r2 = recvd[e] \o t
      BY <1>8 DEF Buffer
    <3> HIDE DEF t, r2
    <3>2. /\ r2 \in Seq(Nat) /\ Len(r2) = Len(recvd[e]) + Len(t)
          /\ \A i \in 1..(Len(recvd[e]) + Len(t)) :
                r2[i] = IF i <= Len(recvd[e]) THEN recvd[e][i] ELSE t[i - Len(recvd[e])]
      <4>1. recvd[e] \in Seq(Nat) /\ t \in Seq(Nat)
        BY <1>3, <2>5
      <4> QED
        BY <3>1, <4>1, ConcatProperties, ZenonT(60)
    <3> QED
      BY <2>5, <3>2
  <2> HIDE DEF t, r2
  <2>7. \A i \in 1..(n + 1) : r2[i] = i
    <3>1. n \in Nat /\ \A i \in 1..n : recvd[e][i] = i
      BY <1>3, <1>6
    <3> HIDE DEF n
    <3>2. ASSUME NEW i \in 1..(n + 1) PROVE r2[i] = i
      <4>1. CASE i <= n
        BY <2>6, <3>1, <4>1
      <4>2. CASE ~(i <= n)
        <5>1. i = n + 1 /\ i - n = 1
          BY <3>1, <4>2
        <5> QED
          BY <2>5, <2>6, <4>2, <5>1
      <4> QED
        BY <4>1, <4>2
    <3> QED
      BY <3>2
  <2>8. r2 = [i \in 1..Len(r2) |-> i]
    <3>1. Len(r2) \in Nat /\ DOMAIN r2 = 1..Len(r2)
      BY <2>6, LenProperties
    <3>2. r2 \in [1..Len(r2) -> Nat]
      BY <2>6, LenProperties
    <3>3. \A i \in 1..Len(r2) : r2[i] = i
      BY <2>6, <2>7
    <3> QED
      BY <3>2, <3>3
  <2>9. 1..Len(r2) \subseteq SentBytes(p)
    <3>1. n \in Nat /\ Len(r2) = n + 1 /\ n + 1 \in SentBytes(p) /\ 1..n \subseteq SentBytes(p)
      BY <1>3, <1>6, <2>1, <2>4, <2>6
    <3> HIDE DEF n, p
    <3>2. \A i \in 1..(n + 1) : i \in 1..n \/ i = n + 1
      BY <3>1
    <3> QED
      BY <3>1, <3>2
  <2>10. c2 = [c1 EXCEPT !.ack = m.seq + m.len]
    BY <1>7, <1>8 DEF AfterData
  <2>11. m.seq + m.len = n + 1 + 1 /\ m.seq + m.len \in Nat
    BY <1>3, <2>1, <2>4
  <2> HIDE DEF c1, c2, n
  <2>12. /\ c2 \in Entry(Keepable) /\ c2.seq = c1.seq /\ c2.rtx = c1.rtx /\ c2.state = c1.state
         /\ c2.ack = m.seq + m.len
    <3>1. c1 \in [state : States, accepted : BOOLEAN, seq : Nat, ack : Nat, rtx : Q]
      BY <1>1 DEF Entry
    <3> HIDE DEF Q
    <3>2. /\ c2 \in [state : States, accepted : BOOLEAN, seq : Nat, ack : Nat, rtx : Q]
          /\ c2.seq = c1.seq /\ c2.rtx = c1.rtx /\ c2.state = c1.state
          /\ c2.ack = m.seq + m.len
      BY <2>10, <2>11, <3>1
    <3> QED
      BY <3>2 DEF Entry, Q
  <2>13. c2.ack = Len(r2) + 1 /\ Len(recvd[e]) <= Len(r2)
    BY <1>3, <2>6, <2>11, <2>12 DEF n
  <2>14. c2.state \in {"SYN_RCVD", "ESTABLISHED", "FIN_WAIT1", "FIN_WAIT2"}
    BY <1>1, <2>3, <2>12
  <2> QED
    BY <2>1, <2>6, <2>8, <2>9, <2>12, <2>13, <2>14 DEF r2, c1, c2, DataSeen
<1>9. CASE ~stored
  <2>1. r2 = recvd[e]
    BY <1>9 DEF Buffer
  <2>2. CASE ~HasData(m) /\ Has(m, "SYN") /\ Has(m, "ACK") /\ c1.state = "SYN_SENT"
    <3>1. c2 = [c1 EXCEPT !.ack = m.seq + 1, !.state = "ESTABLISHED"]
      BY <2>2 DEF AfterData
    <3>2. c.state = "SYN_SENT"
      BY <1>1, <2>2
    <3>3. m.seq + 1 = 1
      BY <1>2, <2>2 DEF SideInv, Wire
    <3>4. recvd[e] = <<>> /\ Len(recvd[e]) = 0
      BY <1>6, <3>2
    <3>5. c2 = [c1 EXCEPT !.ack = 1, !.state = "ESTABLISHED"]
      BY <3>1, <3>3
    <3> HIDE DEF c1, c2
    <3>6. /\ c2 \in Entry(Keepable) /\ c2.seq = c1.seq /\ c2.rtx = c1.rtx
          /\ c2.state = "ESTABLISHED" /\ c2.ack = 1
      <4>1. c1 \in [state : States, accepted : BOOLEAN, seq : Nat, ack : Nat, rtx : Q]
        BY <1>1 DEF Entry
      <4> HIDE DEF Q
      <4>2. /\ c2 \in [state : States, accepted : BOOLEAN, seq : Nat, ack : Nat, rtx : Q]
            /\ c2.seq = c1.seq /\ c2.rtx = c1.rtx /\ c2.state = "ESTABLISHED" /\ c2.ack = 1
        BY <3>5, <4>1 DEF States
      <4> QED
        BY <4>2 DEF Entry, Q
    <3> QED
      BY <1>3, <1>6, <1>9, <2>1, <2>2, <3>2, <3>4, <3>6 DEF c1, c2, DataSeen
  <2>3. CASE ~(~HasData(m) /\ Has(m, "SYN") /\ Has(m, "ACK") /\ c1.state = "SYN_SENT")
    <3>1. c2 = c1
      BY <1>9, <2>3 DEF AfterData
    <3>2. c1.state = "SYN_SENT" => ~Acks(c1, m, stored)
      BY <1>1, <1>5, <3>1 DEF Acks
    <3> HIDE DEF c1, c2, r2
    <3>3. Len(recvd[e]) <= Len(r2)
      BY <1>3, <2>1
    <3> QED
      BY <1>1, <1>3, <1>4, <1>6, <1>9, <2>1, <3>1, <3>2, <3>3 DEF c1, c2, r2, DataSeen
  <2> QED
    BY <2>2, <2>3
<1> QED
  BY <1>8, <1>9

\* What tcp_handle_packet may do to an entry that stays, e's, for m: it becomes d, and what has
\* been received becomes r2.
EntryStep(m, e, d, r2) ==
    /\ conn' = [conn EXCEPT ![e] = d] /\ recvd' = [recvd EXCEPT ![e] = r2] /\ ended' = ended
    /\ net \subseteq net' /\ net' \subseteq SegmentSet
    /\ \A n \in net' \ net :
          /\ n.to = Other(e) /\ n.len = 0 /\ n.flags = {"ACK"} /\ n.ack >= 1
          /\ d.state # "SYN_SENT" /\ (d.state \in Opening => Has(m, "ACK"))
          /\ d.state \notin {"CLOSE_WAIT", "LAST_ACK"} => n.ack <= Len(r2) + 1
    /\ \/ d.state = conn[e].state
       \/ conn[e].state \in Opening /\ d.state \in Writing /\ Has(m, "ACK") /\ Len(d.rtx) = 0
       \/ conn[e].state = "FIN_WAIT1" /\ d.state = "FIN_WAIT2" /\ (FinOut(e) => Past(Other(e)))
       \/ conn[e].state = "ESTABLISHED" /\ d.state = "CLOSE_WAIT"
    /\ d.seq = conn[e].seq /\ Len(d.rtx) <= Len(conn[e].rtx)
    /\ \A i \in 1..Len(d.rtx) : \E j \in 1..Len(conn[e].rtx) : d.rtx[i] = conn[e].rtx[j]
    /\ r2 = [i \in 1..Len(r2) |-> i] /\ Len(recvd[e]) <= Len(r2)
    /\ 1..Len(r2) \subseteq SentBytes(Other(e))
    /\ d.state = "SYN_SENT" => d.ack = 0 /\ r2 = <<>>
    /\ d.state \in {"SYN_RCVD", "ESTABLISHED", "FIN_WAIT1", "FIN_WAIT2"} => d.ack = Len(r2) + 1
    /\ d.state \in {"CLOSE_WAIT", "LAST_ACK"}
       => /\ DoneWriting(Other(e)) /\ d.ack >= 1
          /\ \A b \in SentBytes(Other(e)) : b < d.ack

\* A step that leaves the entry d and the buffer r2 as EntryStep says.
LEMMA EntryKeeps ==
  ASSUME TcpInv, NEW m \in net, NEW e \in Sides, e = m.to, Active(e),
         NEW d \in Entry(Keepable), NEW r2 \in Seq(Nat), EntryStep(m, e, d, r2)
  PROVE  TcpInv'
<1> USE DEF EntryStep
<1> DEFINE p == Other(e)
           c == conn[e]
<1>1. p \in Sides /\ p # e /\ Other(p) = e /\ \A f \in Sides : f = e \/ f = p
  BY TwoSides
<1>2. SideInv(e) /\ SideInv(p)
  BY <1>1 DEF TcpInv
<1>3. conn'[e] = d /\ conn'[p] = conn[p] /\ recvd'[e] = r2 /\ recvd'[p] = recvd[p]
      /\ ended'[e] = "no" /\ ended[e] = "no" /\ ended'[p] = ended[p]
  <2>1. DOMAIN conn = Sides /\ DOMAIN recvd = Sides /\ DOMAIN ended = Sides
    BY DEF TcpInv, TcpTypes
  <2>2. conn' = [conn EXCEPT ![e] = d] /\ recvd' = [recvd EXCEPT ![e] = r2] /\ ended' = ended
    OBVIOUS
  <2>3. ended[e] = "no"
    BY <1>2 DEF SideInv, Stream
  <2> QED
    BY <1>1, <2>1, <2>2, <2>3
<1>4. TcpTypes'
  <2>1. Keepable \subseteq Keepable'
    BY DEF Keepable
  <2>2. d \in Entry(Keepable')
    BY <2>1, EntryGrows
  <2>3. recvd' \in [Sides -> Seq(Nat)]
        /\ ended' \in [Sides -> {"no", "closed", "dropped", "given up"}]
    BY DEF TcpInv, TcpTypes
  <2> QED
    BY <2>2, <2>3, TypesKept DEF TcpInv
<1>5. \A n \in net' : n \in net \/ (n.to = p /\ n.len = 0 /\ n.ack >= 1 /\ ~(n.len > 0)
                                     /\ ~Has(n, "SYN") /\ ~Has(n, "FIN"))
  <2> TAKE n \in net'
  <2> SUFFICES ASSUME n \notin net
               PROVE  n.to = p /\ n.len = 0 /\ n.ack >= 1 /\ ~(n.len > 0)
                      /\ ~Has(n, "SYN") /\ ~Has(n, "FIN")
    OBVIOUS
  <2>1. n.to = p /\ n.len = 0 /\ n.flags = {"ACK"} /\ n.ack >= 1
    OBVIOUS
  <2>2. ~Has(n, "SYN") /\ ~Has(n, "FIN")
    BY <2>1 DEF Has
  <2> QED
    BY <2>1, <2>2, ZeroIsLeast
<1>6. \A f : SentBytes(f)' = SentBytes(f)
  <2>1. \A n \in net' : n \in net \/ n.len = 0
    BY <1>5
  <2> QED
    BY <2>1, BytesKept
<1>7. c.state # "CLOSED" /\ d.state # "CLOSED" /\ c.state \in States /\ d.state \in States
  BY DEF Active, Opening, Writing, TcpInv, TcpTypes, Entry
<1>8. SideInv(p)'
  <2>1. (DoneWriting(e) => DoneWriting(e)') /\ (Past(e) => Past(e)')
    BY <1>3 DEF DoneWriting, Past, FinSent, Opening, Writing
  <2>2. \A n \in net' : n \in net \/ n.to = p
    BY <1>5
  <2>3. \E n \in net : n.to = e
    OBVIOUS
  <2> QED
    BY <1>2, <1>3, <1>6, <2>1, <2>2, <2>3, PeerKeeps
<1>9. Wire(e)'
  <2> SUFFICES ASSUME NEW n \in net', n.to = p
               PROVE  /\ Has(n, "SYN") => n.seq = 0 /\ n.len = 0
                      /\ n.len > 0 => n.seq >= 1 /\ Has(n, "ACK")
                      /\ Has(n, "FIN") => n.len = 0 /\ n.seq >= 1 /\ DoneWriting(e)'
                      /\ Has(n, "ACK") => n.ack >= 1
                      /\ Listens(e)' => n.ack <= Len(r2) + 1
                      /\ d.state = "SYN_SENT" => ~Has(n, "ACK")
    BY <1>3, <1>7 DEF Wire, Active
  <2>1. Listens(e)' => d.state \notin {"CLOSE_WAIT", "LAST_ACK"}
    BY <1>3 DEF Listens
  <2>2. CASE n \in net
    <3>1. /\ Has(n, "SYN") => n.seq = 0 /\ n.len = 0
          /\ n.len > 0 => n.seq >= 1 /\ Has(n, "ACK")
          /\ Has(n, "FIN") => n.len = 0 /\ n.seq >= 1 /\ DoneWriting(e)
          /\ Has(n, "ACK") => n.ack >= 1
          /\ Listens(e) => n.ack <= Len(recvd[e]) + 1
          /\ c.state = "SYN_SENT" => ~Has(n, "ACK")
      BY <1>2, <2>2 DEF SideInv, Wire
    <3>2. DoneWriting(e) => DoneWriting(e)'
      BY <1>3 DEF DoneWriting, FinSent, Opening, Writing
    <3>3. d.state = "SYN_SENT" => c.state = "SYN_SENT"
      BY DEF Opening, Writing
    <3>4. Listens(e)' => Listens(e)
      BY <1>3, <2>1 DEF Listens, Opening, Writing
    <3>5. n.ack <= Len(recvd[e]) + 1 => n.ack <= Len(r2) + 1
      <4>1. n.ack \in Nat /\ Len(recvd[e]) \in Nat /\ Len(r2) \in Nat
        BY LenProperties DEF SegmentSet, TcpInv, TcpTypes
      <4> QED
        BY <4>1
    <3> QED
      BY <3>1, <3>2, <3>3, <3>4, <3>5
  <2>3. CASE n \notin net
    <3>1. n.len = 0 /\ n.ack >= 1 /\ ~(n.len > 0) /\ ~Has(n, "SYN") /\ ~Has(n, "FIN")
      BY <1>5, <2>3
    <3>2. d.state # "SYN_SENT"
          /\ (d.state \notin {"CLOSE_WAIT", "LAST_ACK"} => n.ack <= Len(r2) + 1)
      BY <2>3
    <3> QED
      BY <2>1, <3>1, <3>2
  <2> QED
    BY <2>2, <2>3
<1>10. \A n \in net' : Has(n, "FIN") => n \in net
  BY <1>5
<1>11. FinOut(e)' <=> FinOut(e)
  BY <1>10 DEF FinOut
<1>12. Stream(e)'
  <2>1. c.state \in Opening => SentBytes(e) = {} /\ c.seq = IF Spoke(e) THEN 1 ELSE 0
    BY <1>2 DEF SideInv, Stream
  <2>2. \A n \in net' : n.to = p /\ Has(n, "FIN") => \A b \in SentBytes(e)' : b < n.seq
    BY <1>2, <1>6, <1>10 DEF SideInv, Stream
  <2>3. /\ c.state \in Opening /\ Has(m, "ACK") => SentBytes(e) = {} /\ c.seq = 1
        /\ c.state \in Writing => c.seq >= 1 /\ SentBytes(e) = 1..(c.seq - 1)
        /\ c.state \in FinSent /\ FinOut(e) => c.seq >= 2 /\ SentBytes(e) = 1..(c.seq - 2)
        /\ c.state \in FinSent /\ ~FinOut(e) => c.seq >= 1 /\ SentBytes(e) = 1..(c.seq - 1)
        /\ c.state \in Writing \/ SentBytes(e) # {} => \E n \in net : n.to = e /\ Has(n, "ACK")
    <3>1. Has(m, "ACK") => Spoke(e)
      BY <1>2 DEF SideInv, Heard
    <3> QED
      BY <1>2, <2>1, <3>1 DEF SideInv, Stream
  <2>4. c.seq = 1 => c.seq >= 1 /\ 1..(c.seq - 1) = {}
    OBVIOUS
  <2>5. /\ d.state \in Opening => c.state \in Opening /\ d.state = c.state
        /\ d.state \in Writing => c.seq >= 1 /\ SentBytes(e) = 1..(c.seq - 1)
        /\ d.state \in FinSent /\ FinOut(e) => c.seq >= 2 /\ SentBytes(e) = 1..(c.seq - 2)
        /\ d.state \in FinSent /\ ~FinOut(e) => c.seq >= 1 /\ SentBytes(e) = 1..(c.seq - 1)
    <3>1. CASE d.state = c.state
      BY <2>3, <3>1
    <3>2. CASE c.state \in Opening /\ d.state \in Writing /\ Has(m, "ACK")
      BY <2>3, <2>4, <3>2 DEF Opening, Writing, FinSent
    <3>3. CASE c.state = "FIN_WAIT1" /\ d.state = "FIN_WAIT2"
      BY <2>3, <3>3 DEF Opening, Writing, FinSent
    <3>4. CASE c.state = "ESTABLISHED" /\ d.state = "CLOSE_WAIT"
      BY <2>3, <3>4 DEF Opening, Writing, FinSent
    <3> QED
      BY <3>1, <3>2, <3>3, <3>4
  <2>6. d.state \in Writing \/ SentBytes(e) # {} => \E n \in net : n.to = e /\ Has(n, "ACK")
    <3>1. d.state \in Writing => c.state \in Writing \/ Has(m, "ACK")
      BY DEF Opening, Writing
    <3> QED
      BY <2>3, <3>1
  <2>7. d.state \in Writing \/ SentBytes(e)' # {} => \E n \in net' : n.to = e /\ Has(n, "ACK")
    BY <1>6, <2>6
  <2>8. d.state \in Opening => SentBytes(e)' = {} /\ d.seq = IF Spoke(e)' THEN 1 ELSE 0
    <3>1. c.state \in Opening /\ d.state = c.state => (Spoke(e)' <=> Spoke(e))
      <4>1. SUFFICES ASSUME c.state \in Opening, d.state = c.state, NEW n \in net', n \notin net
                     PROVE  Spoke(e)
        BY DEF Spoke
      <4>2. Has(m, "ACK")
        BY <4>1
      <4> QED
        BY <1>2, <4>2 DEF SideInv, Heard
    <3> QED
      BY <1>6, <2>1, <2>5, <3>1
  <2> QED
    BY <1>3, <1>6, <1>11, <2>2, <2>5, <2>7, <2>8 DEF Stream
<1>13. Expected(e)'
  <2>1. DoneWriting(p) => DoneWriting(p)'
    BY <1>3 DEF DoneWriting
  <2> QED
    BY <1>3, <1>6, <1>7, <2>1 DEF Expected
<1>14. Queue(e)'
  <2>1. /\ c.state \in Opening
           => Len(c.rtx) <= 1 /\ \A i \in 1..Len(c.rtx) : AckSeq(c.rtx[i].seg) = 1
    BY <1>2 DEF SideInv, Queue
  <2>2. Len(d.rtx) \in Nat /\ Len(c.rtx) \in Nat
    BY LenProperties DEF TcpInv, TcpTypes, Entry
  <2>3. d.state \in Opening => c.state \in Opening
    BY DEF Opening, Writing
  <2>4. d.state \in Opening
        => Len(d.rtx) <= 1 /\ \A i \in 1..Len(d.rtx) : AckSeq(d.rtx[i].seg) = 1
    <3>1. c.state \in Opening => Len(d.rtx) <= 1
      BY <2>1, <2>2
    <3>2. c.state \in Opening => \A i \in 1..Len(d.rtx) : AckSeq(d.rtx[i].seg) = 1
      BY <2>1
    <3> QED
      BY <2>3, <3>1, <3>2
  <2> QED
    BY <1>3, <2>4 DEF Queue
<1>15. FinSeen(e)'
  <2>1. Past(p) => Past(p)'
    BY <1>3 DEF Past
  <2>2. d.state = "FIN_WAIT2" /\ FinOut(e) => Past(p)
    BY <1>2 DEF SideInv, FinSeen, Writing
  <2> QED
    BY <1>3, <1>11, <2>1, <2>2 DEF FinSeen
<1>16. Heard(e)'
  <2>1. \A n \in net' : n.to = e => n \in net
    BY <1>1, <1>5
  <2> QED
    BY <1>2, <2>1 DEF SideInv, Heard, Spoke
<1> QED
  BY <1>1, <1>4, <1>8, <1>9, <1>12, <1>13, <1>14, <1>15, <1>16 DEF TcpInv, SideInv

\* An acknowledgement on its own.
LEMMA AckFacts ==
  ASSUME TcpInv, NEW e \in Sides, NEW c \in Entry(Keepable)
  PROVE  /\ Ack(e, c) \in SegmentSet /\ Ack(e, c).to = Other(e) /\ Ack(e, c).len = 0
         /\ Ack(e, c).flags = {"ACK"} /\ Ack(e, c).ack = c.ack
<1>1. c.seq \in Nat /\ c.ack \in Nat
  BY DEF Entry
<1> QED
  BY <1>1, TwoSides DEF Ack, Segment, SegmentSet, Flags

\* tcp_handle_packet for an entry that exists.
LEMMA ReceiveKeeps ==
  ASSUME TcpInv, NEW m \in net, NEW stored \in BOOLEAN, Receive(m, stored)
  PROVE  TcpInv'
<1> DEFINE e == m.to
           p == Other(e)
           c == conn[e]
           c1 == AfterAck(e, m)
           c2 == AfterData(c1, m, stored)
           c3 == AfterFin(c2, m)
           fin == TakesFin(m, stored)
           now == IF Acks(c1, m, stored) THEN {Ack(e, c2)} ELSE {}
           r2 == Buffer(e, m, stored)
           Q == Seq([seg : Keepable, retries : Nat])
<1>1. /\ Active(e)
      /\ stored => HasData(m) /\ InOrder(c1, m)
      /\ recvd' = [recvd EXCEPT ![e] = r2]
      /\ \/ /\ fin /\ c2.state = "ESTABLISHED"
            /\ conn' = [conn EXCEPT ![e] = [c3 EXCEPT !.state = "CLOSE_WAIT"]]
            /\ net' = net \cup now \cup {Ack(e, c3)}
            /\ UNCHANGED ended
         \/ /\ fin /\ c2.state \in {"FIN_WAIT1", "FIN_WAIT2"}
            /\ Release(e, "closed")
            /\ net' = net \cup now \cup {Ack(e, c3)}
         \/ /\ conn' = [conn EXCEPT ![e] = c2]
            /\ net' = net \cup now
            /\ UNCHANGED ended
  BY DEF Receive, Buffer
<1>2. /\ e = m.to /\ e \in Sides /\ p \in Sides /\ Other(p) = e /\ SideInv(e) /\ SideInv(p)
      /\ m \in SegmentSet /\ m.seq \in Nat /\ m.len \in {0, 1}
      /\ Keepable \subseteq SegmentSet /\ net \subseteq SegmentSet
  BY TwoSides DEF TcpInv, TcpTypes, SegmentSet, Keepable
<1> HIDE DEF e
<1>3. /\ c1 \in Entry(Keepable) /\ c1.seq = c.seq /\ c1.ack = c.ack
      /\ \/ c1.state = c.state
         \/ c.state = "FIN_WAIT1" /\ c1.state = "FIN_WAIT2" /\ (FinOut(e) => Past(p))
         \/ c.state = "SYN_RCVD" /\ c1.state = "ESTABLISHED" /\ Has(m, "ACK")
      /\ Len(c1.rtx) <= Len(c.rtx)
      /\ \A i \in 1..Len(c1.rtx) : \E j \in 1..Len(c.rtx) : c1.rtx[i] = c.rtx[j]
      /\ Has(m, "ACK") => (c.state \in Opening => Len(c1.rtx) = 0)
  <2>1. LET x == AfterAck(e, m) IN
        /\ x \in Entry(Keepable) /\ x.seq = conn[e].seq /\ x.ack = conn[e].ack
        /\ \/ x.state = conn[e].state
           \/ conn[e].state = "FIN_WAIT1" /\ x.state = "FIN_WAIT2"
              /\ (FinOut(e) => Past(Other(e)))
           \/ conn[e].state = "SYN_RCVD" /\ x.state = "ESTABLISHED" /\ Has(m, "ACK")
        /\ Len(x.rtx) <= Len(conn[e].rtx)
        /\ \A i \in 1..Len(x.rtx) : \E j \in 1..Len(conn[e].rtx) : x.rtx[i] = conn[e].rtx[j]
        /\ Has(m, "ACK") => (conn[e].state \in Opening => Len(x.rtx) = 0)
    BY <1>2, AfterAckFacts, ZenonT(60)
  <2> QED
    BY <2>1
<1>4. /\ c2 \in Entry(Keepable) /\ c2.seq = c1.seq /\ c2.rtx = c1.rtx
      /\ \/ c2.state = c1.state
         \/ c.state = "SYN_SENT" /\ c2.state = "ESTABLISHED" /\ Has(m, "ACK")
      /\ r2 \in Seq(Nat) /\ r2 = [i \in 1..Len(r2) |-> i]
      /\ Len(recvd[e]) <= Len(r2) /\ 1..Len(r2) \subseteq SentBytes(p)
      /\ c2.state = "SYN_SENT" => c2.ack = 0 /\ r2 = <<>> /\ ~Acks(c1, m, stored)
      /\ c2.state \in {"SYN_RCVD", "ESTABLISHED", "FIN_WAIT1", "FIN_WAIT2"}
         => c2.ack = Len(r2) + 1
      /\ c2.state \in {"CLOSE_WAIT", "LAST_ACK"} => c2.ack = c.ack /\ c2.ack >= 1
      /\ stored => m.len = 1
  <2>1. e = m.to /\ e \in Sides /\ Active(e)
        /\ (stored => HasData(m) /\ InOrder(AfterAck(e, m), m))
    BY <1>1, <1>2
  <2>2. DataSeen(e, m, stored, c1, c2, r2)
    BY <2>1, AfterDataFacts
  <2> HIDE DEF c1, c2, r2
  <2> QED
    BY <2>2 DEF DataSeen
<1> HIDE DEF c1, c2, r2, now
<1>5. Len(r2) \in Nat /\ c2.ack \in Nat /\ c2.state \in States
      /\ c.state # "CLOSED" /\ c2.state # "CLOSED"
  BY <1>1, <1>3, <1>4, LenProperties DEF Entry, Active
<1>6. c2.state # "SYN_SENT" => c2.ack >= 1
  <2>1. c2.state \in {"SYN_RCVD", "ESTABLISHED", "FIN_WAIT1", "FIN_WAIT2"} => c2.ack >= 1
    BY <1>4, <1>5
  <2> QED
    BY <1>4, <1>5, <2>1 DEF States
<1>7. \A n \in now : /\ n \in SegmentSet /\ n.to = p /\ n.len = 0 /\ n.flags = {"ACK"}
                     /\ n.ack = c2.ack /\ n.ack >= 1 /\ c2.state # "SYN_SENT" /\ Has(m, "ACK")
  <2> SUFFICES ASSUME Acks(c1, m, stored)
               PROVE  LET n == Ack(e, c2) IN
                      /\ n \in SegmentSet /\ n.to = p /\ n.len = 0 /\ n.flags = {"ACK"}
                      /\ n.ack = c2.ack /\ n.ack >= 1 /\ c2.state # "SYN_SENT" /\ Has(m, "ACK")
    BY DEF now
  <2>1. Has(m, "ACK")
    BY DEF Acks, HasData, AfterData
  <2> QED
    BY <1>2, <1>4, <1>6, <2>1, AckFacts
<1>8. CASE /\ fin /\ net' = net \cup now \cup {Ack(e, c3)}
           /\ \/ Release(e, "closed")
              \/ /\ c2.state = "ESTABLISHED" /\ UNCHANGED ended
                 /\ conn' = [conn EXCEPT ![e] = [c3 EXCEPT !.state = "CLOSE_WAIT"]]
  <2>1. /\ m.len = 0 /\ m.seq >= 1 /\ DoneWriting(p)
        /\ \A b \in SentBytes(p) : b < m.seq
    BY <1>2, <1>8 DEF TakesFin, SideInv, Wire, Stream, e
  <2>2. ~stored /\ r2 = recvd[e] /\ recvd' = recvd
    <3>1. ~stored
      BY <1>4, <2>1
    <3>2. r2 = recvd[e]
      BY <3>1 DEF r2, Buffer
    <3> QED
      BY <1>1, <3>1, <3>2 DEF TcpInv, TcpTypes
  <2>3. c3 = [c2 EXCEPT !.ack = m.seq + 1]
    BY <1>2, <2>1 DEF AfterFin
  <2>4. m.seq + 1 \in Nat /\ m.seq + 1 >= 1
    BY <1>2
  <2>5. /\ c3 \in Entry(Keepable) /\ c3.ack = m.seq + 1
        /\ [c3 EXCEPT !.state = "CLOSE_WAIT"] \in Entry(Keepable)
        /\ [c3 EXCEPT !.state = "CLOSE_WAIT"].state = "CLOSE_WAIT"
        /\ [c3 EXCEPT !.state = "CLOSE_WAIT"].seq = c2.seq
        /\ [c3 EXCEPT !.state = "CLOSE_WAIT"].rtx = c2.rtx
        /\ [c3 EXCEPT !.state = "CLOSE_WAIT"].ack = m.seq + 1
    <3>1. c2 \in [state : States, accepted : BOOLEAN, seq : Nat, ack : Nat, rtx : Q]
      BY <1>4 DEF Entry
    <3> HIDE DEF Q, c3
    <3>2. c3 \in [state : States, accepted : BOOLEAN, seq : Nat, ack : Nat, rtx : Q]
          /\ c3.ack = m.seq + 1 /\ c3.seq = c2.seq /\ c3.rtx = c2.rtx
      BY <2>3, <2>4, <3>1
    <3> DEFINE d == [c3 EXCEPT !.state = "CLOSE_WAIT"]
    <3>3. /\ d \in [state : States, accepted : BOOLEAN, seq : Nat, ack : Nat, rtx : Q]
          /\ d.state = "CLOSE_WAIT" /\ d.seq = c2.seq /\ d.rtx = c2.rtx /\ d.ack = m.seq + 1
      BY <3>2 DEF States
    <3> QED
      BY <3>2, <3>3 DEF Entry, Q
  <2>6. LET n == Ack(e, c3) IN
        n \in SegmentSet /\ n.to = p /\ n.len = 0 /\ n.flags = {"ACK"} /\ n.ack >= 1
    <3> HIDE DEF c3
    <3> QED
      BY <1>2, <2>4, <2>5, AckFacts
  <2> HIDE DEF c3
  <2>7. net \subseteq net' /\ net' \subseteq SegmentSet
    BY <1>2, <1>7, <1>8, <2>6
  <2>8. \A n \in net' \ net : n.to = p /\ n.len = 0 /\ n.flags = {"ACK"} /\ n.ack >= 1
    BY <1>7, <1>8, <2>6
  <2>9. CASE Release(e, "closed")
    <3>1. Past(p)
      BY <2>1 DEF DoneWriting, Past
    <3>2. \A n \in net' : n \in net \/ (n.to = p /\ n.len = 0 /\ n.flags = {"ACK"} /\ n.ack >= 1)
      BY <2>8
    <3>3. \E n \in net : n.to = e
      BY DEF e
    <3> QED
      BY <1>2, <2>2, <2>7, <2>9, <3>1, <3>2, <3>3, ReleaseKeeps
  <2>10. CASE /\ c2.state = "ESTABLISHED" /\ UNCHANGED ended
              /\ conn' = [conn EXCEPT ![e] = [c3 EXCEPT !.state = "CLOSE_WAIT"]]
    <3> DEFINE d == [c3 EXCEPT !.state = "CLOSE_WAIT"]
    <3>1. d \in Entry(Keepable) /\ d.state = "CLOSE_WAIT" /\ d.seq = c.seq /\ d.rtx = c1.rtx
          /\ d.ack = m.seq + 1
      BY <1>3, <1>4, <2>5
    <3>2. conn' = [conn EXCEPT ![e] = d]
      BY <2>10
    <3> HIDE DEF d
    <3>3. \A b \in SentBytes(p) : b < d.ack
      <4> TAKE b \in SentBytes(p)
      <4>1. b < m.seq /\ b \in Nat
        BY <1>2, <2>1 DEF SentBytes, SegmentSet
      <4> QED
        BY <1>2, <3>1, <4>1
    <3>4. \/ c.state \in Opening /\ d.state \in Writing /\ Has(m, "ACK") /\ Len(d.rtx) = 0
          \/ c.state = "ESTABLISHED" /\ d.state = "CLOSE_WAIT"
      BY <1>3, <1>4, <2>10, <3>1 DEF Opening, Writing
    <3>5. d.state \in {"CLOSE_WAIT", "LAST_ACK"}
          => DoneWriting(p) /\ d.ack >= 1 /\ \A b \in SentBytes(p) : b < d.ack
      BY <2>1, <2>4, <3>1, <3>3
    <3>6. \A n \in net' \ net :
             /\ n.to = Other(e) /\ n.len = 0 /\ n.flags = {"ACK"} /\ n.ack >= 1
             /\ d.state # "SYN_SENT" /\ (d.state \in Opening => Has(m, "ACK"))
             /\ d.state \notin {"CLOSE_WAIT", "LAST_ACK"} => n.ack <= Len(r2) + 1
      BY <2>8, <3>1 DEF Opening
    <3>7. /\ d.state # "SYN_SENT"
          /\ d.state \notin {"SYN_RCVD", "ESTABLISHED", "FIN_WAIT1", "FIN_WAIT2"}
      BY <3>1
    <3>8. /\ Len(d.rtx) <= Len(c.rtx)
          /\ \A i \in 1..Len(d.rtx) : \E j \in 1..Len(c.rtx) : d.rtx[i] = c.rtx[j]
      BY <1>3, <3>1
    <3>9. ended' = ended /\ e = m.to /\ d.seq = conn[e].seq /\ recvd' = [recvd EXCEPT ![e] = r2]
      BY <1>1, <2>10, <3>1 DEF e
    <3>10. EntryStep(m, e, d, r2)
      BY <1>4, <2>7, <3>1, <3>2, <3>4, <3>5, <3>6, <3>7, <3>8, <3>9 DEF EntryStep
    <3> QED
      BY <1>1, <1>2, <1>4, <3>1, <3>10, EntryKeeps
  <2> QED
    BY <1>8, <2>9, <2>10
<1>9. CASE conn' = [conn EXCEPT ![e] = c2] /\ net' = net \cup now /\ UNCHANGED ended
  <2>1. net \subseteq net' /\ net' \subseteq SegmentSet
    BY <1>2, <1>7, <1>9
  <2>2. \A n \in net' \ net :
           /\ n.to = Other(e) /\ n.len = 0 /\ n.flags = {"ACK"} /\ n.ack >= 1
           /\ c2.state # "SYN_SENT" /\ (c2.state \in Opening => Has(m, "ACK"))
           /\ c2.state \notin {"CLOSE_WAIT", "LAST_ACK"} => n.ack <= Len(r2) + 1
    <3>1. c2.state \notin {"CLOSE_WAIT", "LAST_ACK", "SYN_SENT"} => c2.ack <= Len(r2) + 1
      BY <1>4, <1>5 DEF States
    <3> QED
      BY <1>7, <1>9, <3>1
  <2>3. \/ c2.state = conn[e].state
        \/ conn[e].state \in Opening /\ c2.state \in Writing /\ Has(m, "ACK") /\ Len(c2.rtx) = 0
        \/ conn[e].state = "FIN_WAIT1" /\ c2.state = "FIN_WAIT2" /\ (FinOut(e) => Past(p))
    BY <1>3, <1>4 DEF Opening, Writing
  <2>4. c2.state \in {"CLOSE_WAIT", "LAST_ACK"}
        => DoneWriting(p) /\ c2.ack >= 1 /\ \A b \in SentBytes(p) : b < c2.ack
    <3>1. c2.state \in {"CLOSE_WAIT", "LAST_ACK"} => c2.state = c.state
      BY <1>3, <1>4
    <3> QED
      BY <1>2, <1>4, <3>1 DEF SideInv, Expected
  <2>5. /\ Len(c2.rtx) <= Len(c.rtx) /\ c2.seq = c.seq
        /\ \A i \in 1..Len(c2.rtx) : \E j \in 1..Len(c.rtx) : c2.rtx[i] = c.rtx[j]
    BY <1>3, <1>4
  <2>6. ended' = ended /\ e = m.to /\ recvd' = [recvd EXCEPT ![e] = r2]
        /\ conn' = [conn EXCEPT ![e] = c2] /\ (c2.state = "SYN_SENT" => c2.ack = 0 /\ r2 = <<>>)
    BY <1>1, <1>4, <1>9 DEF e
  <2> QED
    <3>1. EntryStep(m, e, c2, r2)
      BY <1>4, <2>1, <2>2, <2>3, <2>4, <2>5, <2>6 DEF EntryStep
    <3> QED
      BY <1>1, <1>2, <1>4, <3>1, EntryKeeps
<1> QED
  BY <1>1, <1>8, <1>9

----------------------------------------------------------------------------
(* The invariant.                                                           *)

\* A connection that does not exist yet satisfies the invariant.
LEMMA TcpInvInit == TcpInit => TcpInv
<1> SUFFICES ASSUME TcpInit PROVE TcpInv
  OBVIOUS
<1>1. net = {} /\ \A e \in Sides : conn[e] = Closed /\ recvd[e] = <<>> /\ ended[e] = "no"
  BY DEF TcpInit
<1>2. \A e \in Sides : conn[e].state = "CLOSED" /\ Len(recvd[e]) = 0 /\ SentBytes(e) = {}
  BY <1>1, EmptySeq DEF Closed, SentBytes
<1>3. Closed \in Entry(Keepable)
  <2> DEFINE Q == Seq([seg : Keepable, retries : Nat])
  <2>1. <<>> \in Q
    BY EmptySeq
  <2> HIDE DEF Q
  <2>2. Closed \in [state : States, accepted : BOOLEAN, seq : Nat, ack : Nat, rtx : Q]
    BY <2>1 DEF Closed, States
  <2> QED
    BY <2>2 DEF Entry, Q
<1>4. TcpTypes
  <2>1. <<>> \in Seq(Nat)
    BY EmptySeq
  <2> QED
    BY <1>1, <1>3, <2>1 DEF TcpInit, TcpTypes
<1>5. ASSUME NEW e \in Sides PROVE SideInv(e)
  <2>1. Wire(e)
    BY <1>1 DEF Wire
  <2>2. Stream(e)
    BY <1>1, <1>2 DEF Stream, Active, Opening, Writing, FinSent
  <2>3. Expected(e)
    <3>1. recvd[e] = [i \in 1..Len(recvd[e]) |-> i] /\ 1..Len(recvd[e]) = {}
      <4>1. 1..0 = {}
        OBVIOUS
      <4>2. <<>> = [i \in 1..0 |-> i]
        BY <4>1
      <4> QED
        BY <1>1, <1>2, <4>1, <4>2
    <3> QED
      BY <1>1, <1>2, <3>1 DEF Expected
  <2>4. Queue(e)
    BY <1>2 DEF Queue, Opening
  <2>5. FinSeen(e) /\ Heard(e)
    BY <1>1, <1>2 DEF FinSeen, Heard
  <2> QED
    BY <2>1, <2>2, <2>3, <2>4, <2>5 DEF SideInv
<1> QED
  BY <1>4, <1>5 DEF TcpInv

\* tcp_connect.
LEMMA ConnectKeeps == TcpInv /\ Connect => TcpInv'
<1> SUFFICES ASSUME TcpInv, Connect PROVE TcpInv'
  OBVIOUS
<1> DEFINE e == "client"
           c == [Closed EXCEPT !.state = "SYN_SENT", !.accepted = TRUE]
           Q == Seq([seg : Keepable, retries : Nat])
<1>1. e \in Sides /\ ~Active(e) /\ ended[e] = "no" /\ Send(e, c, {"SYN"}, 0)
      /\ UNCHANGED <<recvd, ended>>
  BY DEF Connect, Sides, Active, Closed
<1>2. c \in Entry(Keepable)
  <2>1. <<>> \in Q
    BY EmptySeq
  <2> HIDE DEF Q
  <2>2. c \in [state : States, accepted : BOOLEAN, seq : Nat, ack : Nat, rtx : Q]
    BY <2>1 DEF Closed, States
  <2> QED
    BY <2>2 DEF Entry, Q
<1>3. c.seq = 0 /\ c.rtx = <<>> /\ c.state = "SYN_SENT" /\ c.ack = 0
  BY DEF Closed
<1>4. "SYN" \in {"SYN"} /\ "FIN" \notin {"SYN"} /\ "ACK" \notin {"SYN"} /\ {"SYN"} \in SUBSET Flags
  BY DEF Flags
<1> HIDE DEF e, c
<1>5. CASE Lacks(e, c)
  BY <1>1, <1>2, <1>3, <1>5, OpenLacks
<1>6. ASSUME NEW memory \in BOOLEAN, Sends(e, c, {"SYN"}, 0, memory) PROVE TcpInv'
  BY <1>1, <1>2, <1>3, <1>4, <1>6, OpenKeeps
<1> QED
  BY <1>1, <1>5, <1>6, SendSplits

\* The first SYN.
LEMMA SpawnKeeps ==
  ASSUME TcpInv, NEW m \in net, Spawn(m)
  PROVE  TcpInv'
<1> DEFINE e == "server"
           c == [Closed EXCEPT !.state = "SYN_RCVD", !.ack = m.seq + 1]
           f == {"SYN", "ACK"}
           Q == Seq([seg : Keepable, retries : Nat])
<1>1. /\ e \in Sides /\ m.to = e /\ Has(m, "SYN") /\ ~Active(e) /\ ended[e] = "no"
      /\ Send(e, c, f, 0) /\ UNCHANGED <<recvd, ended>>
  BY DEF Spawn, Sides
<1>2. m.seq + 1 = 1
  <2>1. Other(e) \in Sides /\ Other(Other(e)) = e
    BY <1>1, TwoSides
  <2>2. Wire(Other(e))
    BY <2>1 DEF TcpInv, SideInv
  <2>3. m.seq = 0
    BY <1>1, <2>1, <2>2 DEF Wire
  <2> QED
    BY <2>3
<1>3. c = [Closed EXCEPT !.state = "SYN_RCVD", !.ack = 1]
  BY <1>2
<1> HIDE DEF c
<1>4. c \in Entry(Keepable)
  <2>1. <<>> \in Q
    BY EmptySeq
  <2> HIDE DEF Q
  <2>2. c \in [state : States, accepted : BOOLEAN, seq : Nat, ack : Nat, rtx : Q]
    BY <1>3, <2>1 DEF Closed, States
  <2> QED
    BY <2>2 DEF Entry, Q
<1>5. c.seq = 0 /\ c.rtx = <<>> /\ c.state = "SYN_RCVD" /\ c.ack = 1
  BY <1>3 DEF Closed
<1>6. "SYN" \in f /\ "FIN" \notin f /\ f \in SUBSET Flags
  BY DEF Flags
<1> HIDE DEF e, f
<1>7. CASE Lacks(e, c)
  BY <1>1, <1>4, <1>5, <1>7, OpenLacks
<1>8. ASSUME NEW memory \in BOOLEAN, Sends(e, c, f, 0, memory) PROVE TcpInv'
  BY <1>1, <1>4, <1>5, <1>6, <1>8, OpenKeeps
<1> QED
  BY <1>1, <1>7, <1>8, SendSplits

\* tcp_close sends the FIN, or lacks the memory for it.
LEMMA CloseKeeps ==
  ASSUME TcpInv, NEW e \in Sides, NEW to \in States,
         \/ conn[e].state = "ESTABLISHED" /\ to = "FIN_WAIT1"
         \/ conn[e].state = "CLOSE_WAIT" /\ to = "LAST_ACK",
         Send(e, [conn[e] EXCEPT !.state = to], {"FIN", "ACK"}, 0), UNCHANGED <<recvd, ended>>
  PROVE  TcpInv'
<1> DEFINE c == [conn[e] EXCEPT !.state = to]
<1>1. CASE Lacks(e, c)
  BY <1>1, FinLacks
<1>2. ASSUME NEW memory \in BOOLEAN, Sends(e, c, {"FIN", "ACK"}, 0, memory) PROVE TcpInv'
  BY <1>2, FinKeeps
<1> HIDE DEF c
<1>3. Send(e, c, {"FIN", "ACK"}, 0)
  BY DEF c
<1> QED
  BY <1>1, <1>2, <1>3, SendSplits

\* An entry is given back, and nothing is sent.
LEMMA LetGoKeeps ==
  ASSUME TcpInv, NEW e \in Sides, NEW how \in {"closed", "dropped", "given up"},
         Release(e, how), UNCHANGED <<recvd, net>>, how = "closed" => Past(Other(e))
  PROVE  TcpInv'
<1>1. recvd' = recvd /\ net \subseteq net' /\ net' \subseteq SegmentSet /\ \A m \in net' : m \in net
  BY DEF TcpInv, TcpTypes
<1> QED
  BY <1>1, ReleaseKeeps

\* Every step keeps the invariant.
LEMMA TcpInvNext == TcpInv /\ [TcpNext]_tcpVars => TcpInv'
<1> SUFFICES ASSUME TcpInv, [TcpNext]_tcpVars PROVE TcpInv'
  OBVIOUS
<1>1. CASE Connect
  BY <1>1, ConnectKeeps
<1>2. CASE Accept
  BY <1>2, AcceptKeeps
<1>3. ASSUME NEW e \in Sides, Write(e) PROVE TcpInv'
  BY <1>3, WriteKeeps
<1>4. ASSUME NEW e \in Sides, Close(e) PROVE TcpInv'
  <2>1. CASE /\ conn[e].state = "ESTABLISHED" /\ UNCHANGED <<recvd, ended>>
             /\ Send(e, [conn[e] EXCEPT !.state = "FIN_WAIT1"], {"FIN", "ACK"}, 0)
    <3>1. "FIN_WAIT1" \in States
      BY DEF States
    <3> QED
      BY <2>1, <3>1, CloseKeeps
  <2>2. CASE /\ conn[e].state = "CLOSE_WAIT" /\ UNCHANGED <<recvd, ended>>
             /\ Send(e, [conn[e] EXCEPT !.state = "LAST_ACK"], {"FIN", "ACK"}, 0)
    <3>1. "LAST_ACK" \in States
      BY DEF States
    <3> QED
      BY <2>2, <3>1, CloseKeeps
  <2>3. CASE Release(e, "dropped") /\ UNCHANGED <<recvd, net>>
    BY <2>3, LetGoKeeps
  <2> QED
    BY <1>4, <2>1, <2>2, <2>3 DEF Close
<1>5. ASSUME NEW e \in Sides, GiveUp(e) PROVE TcpInv'
  <2>1. Release(e, "given up") /\ UNCHANGED <<recvd, net>>
    BY <1>5 DEF GiveUp
  <2> QED
    BY <2>1, LetGoKeeps
<1>6. ASSUME NEW e \in Sides, NEW late, Resend(e, late) PROVE TcpInv'
  BY <1>6, ResendKeeps
<1>7. ASSUME NEW m \in net, Spawn(m) PROVE TcpInv'
  BY <1>7, SpawnKeeps
<1>8. ASSUME NEW m \in net, Refuse(m) PROVE TcpInv'
  BY <1>8, RefuseKeeps
<1>9. ASSUME NEW m \in net, FinishClose(m) PROVE TcpInv'
  <2> DEFINE e == m.to
  <2>1. e \in Sides /\ conn[e].state = "LAST_ACK" /\ Release(e, "closed") /\ UNCHANGED <<recvd, net>>
    BY <1>9 DEF FinishClose, TcpInv, TcpTypes, SegmentSet
  <2> HIDE DEF e
  <2>2. Past(Other(e))
    BY <2>1 DEF TcpInv, SideInv, Expected, DoneWriting, Past
  <2> QED
    BY <2>1, <2>2, LetGoKeeps
<1>10. ASSUME NEW m \in net, NEW stored \in BOOLEAN, Receive(m, stored) PROVE TcpInv'
  BY <1>10, ReceiveKeeps
<1>11. CASE UNCHANGED tcpVars
  BY <1>11, NothingKeeps DEF tcpVars
<1> QED
  BY <1>1, <1>2, <1>3, <1>4, <1>5, <1>6, <1>7, <1>8, <1>9, <1>10, <1>11 DEF TcpNext

\* The wire, the streams, the buffers and the queues agree, in every state of a connection.
THEOREM TcpInvariance == TcpSpec => []TcpInv
  BY TcpInvInit, TcpInvNext, PTL DEF TcpSpec

\* tcp_handle_packet puts a byte into recv_buf only if it is the next one: recv_buf holds a
\* beginning of what the peer wrote, whatever the network does to the segments.
THEOREM BytesArriveInOrder == TcpSpec => []ReceivedInOrder
<1>1. TcpInv => ReceivedInOrder
  BY DEF TcpInv, SideInv, Expected, ReceivedInOrder
<1> QED
  BY <1>1, TcpInvariance, PTL

\* A side whose FIN is on the wire and that tcp_handle_packet takes to FIN_WAIT2, or whose entry it
\* gives back as closed, has a peer that is past ESTABLISHED or gone.
THEOREM FinsAreSeen == TcpSpec => []FinNeverAssumed
<1>1. TcpInv => FinNeverAssumed
  <2> SUFFICES ASSUME TcpInv, NEW e \in Sides,
                      (conn[e].state = "FIN_WAIT2" /\ FinOut(e)) \/ ended[e] = "closed"
               PROVE  PastEstablished(Other(e))
    BY DEF FinNeverAssumed
  <2>1. Past(Other(e)) /\ Stream(Other(e))
    BY TwoSides DEF TcpInv, SideInv, FinSeen
  <2> QED
    BY <2>1 DEF Past, PastEstablished, Stream, Active, FinSent
<1> QED
  BY <1>1, TcpInvariance, PTL

----------------------------------------------------------------------------
(* What is sent is kept until it is received.                               *)

KeptBy(e) ==
    conn[e].state = "ESTABLISHED" /\ ended[Other(e)] = "no"
    => SentBytes(e) \subseteq Received(Other(e)) \cup Kept(e) \cup unkept[e]

\* There is a set of bytes that were not kept for each side.
UnkeptTypes == DOMAIN unkept = Sides

\* What a sequence holds, as a set.
LEMMA SeqAsSet ==
  ASSUME NEW S, NEW s \in Seq(S)
  PROVE  Len(s) \in Nat /\ DOMAIN s = 1..Len(s)
  BY LenProperties

\* recv_buf as a set, when it is in order.
LEMMA InOrderAsSet ==
  ASSUME NEW s \in Seq(Nat), s = [i \in 1..Len(s) |-> i]
  PROVE  {s[i] : i \in DOMAIN s} = 1..Len(s) /\ Len(s) \in Nat
<1>1. DOMAIN s = 1..Len(s) /\ Len(s) \in Nat
  BY SeqAsSet
<1>2. \A i \in 1..Len(s) : s[i] = i
  BY ONLY s = [i \in 1..Len(s) |-> i]
<1> QED
  BY <1>1, <1>2

\* recv_buf as a set.
LEMMA ReceivedFacts ==
  ASSUME TcpInv, NEW e \in Sides
  PROVE  Received(e) = 1..Len(recvd[e]) /\ Len(recvd[e]) \in Nat
<1>1. recvd[e] \in Seq(Nat) /\ recvd[e] = [i \in 1..Len(recvd[e]) |-> i]
  BY DEF TcpInv, TcpTypes, SideInv, Expected
<1> QED
  BY <1>1, InOrderAsSet DEF Received

\* The same after a step.
LEMMA ReceivedFactsNext ==
  ASSUME TcpInv', NEW e \in Sides
  PROVE  Received(e)' = 1..Len(recvd'[e]) /\ Len(recvd'[e]) \in Nat
<1>1. recvd'[e] \in Seq(Nat) /\ recvd'[e] = [i \in 1..Len(recvd'[e]) |-> i]
  BY DEF TcpInv, TcpTypes, SideInv, Expected
<1> QED
  BY <1>1, InOrderAsSet DEF Received

\* The queue as a set.
LEMMA KeptFacts ==
  ASSUME TcpInv, NEW e \in Sides
  PROVE  Kept(e) = {conn[e].rtx[i].seg.seq : i \in 1..Len(conn[e].rtx)}
<1>1. DOMAIN conn[e].rtx = 1..Len(conn[e].rtx)
  BY LenProperties DEF TcpInv, TcpTypes, Entry
<1> QED
  BY <1>1 DEF Kept

\* The same after a step.
LEMMA KeptFactsNext ==
  ASSUME TcpInv', NEW e \in Sides
  PROVE  Kept(e)' = {conn'[e].rtx[i].seg.seq : i \in 1..Len(conn'[e].rtx)}
<1>1. conn'[e].rtx \in Seq([seg : Keepable', retries : Nat])
  BY DEF TcpInv, TcpTypes, Entry
<1>2. DOMAIN conn'[e].rtx = 1..Len(conn'[e].rtx)
  BY <1>1, SeqAsSet
<1> QED
  BY <1>2 DEF Kept

\* A step of e, for its peer: the peer keeps what it kept, and e has no less.
LEMMA PeerIsKept ==
  ASSUME TcpInv, TcpInv', KeptUntilReceived, NEW e \in Sides,
         conn'[Other(e)] = conn[Other(e)], SentBytes(Other(e))' = SentBytes(Other(e)),
         ended'[e] = "no" => ended[e] = "no", Len(recvd[e]) <= Len(recvd'[e]),
         unkept'[Other(e)] = unkept[Other(e)],
         KeptBy(e)'
  PROVE  KeptUntilReceived'
<1> DEFINE p == Other(e)
<1>1. p \in Sides /\ Other(p) = e /\ \A f \in Sides : f = e \/ f = p
  BY TwoSides
<1>2. KeptBy(p)
  BY <1>1 DEF KeptUntilReceived, KeptBy
<1>3. Kept(p)' = Kept(p)
  BY DEF Kept
<1>4. Received(e) = 1..Len(recvd[e]) /\ Len(recvd[e]) \in Nat
  BY ReceivedFacts
<1>5. Received(e)' = 1..Len(recvd'[e]) /\ Len(recvd'[e]) \in Nat
  BY ReceivedFactsNext
<1>6. Received(e) \subseteq Received(e)'
  BY <1>4, <1>5
<1>7. KeptBy(p)'
  BY <1>1, <1>2, <1>3, <1>6 DEF KeptBy
<1> QED
  BY <1>1, <1>7 DEF KeptUntilReceived, KeptBy

\* tcp_send: the byte is kept, or counts as one that was not.
LEMMA ByteIsKept ==
  ASSUME TcpInv, TcpInv', KeptUntilReceived, UnkeptTypes, NEW e \in Sides, Write(e),
         NEW memory \in BOOLEAN, Sends(e, conn[e], {"ACK"}, 1, memory),
         unkept' = [unkept EXCEPT ![e] = IF 1 > 0 /\ ~Keeps(conn[e].rtx, memory)
                                         THEN @ \cup {conn[e].seq} ELSE @]
  PROVE  KeptUntilReceived'
<1> DEFINE c == conn[e]
           m == Segment(e, c, {"ACK"}, 1)
<1>1. /\ c \in Entry(Keepable) /\ c.seq \in Nat
      /\ c.rtx \in Seq([seg : Keepable, retries : Nat]) /\ Len(c.rtx) \in Nat
  BY LenProperties DEF TcpInv, TcpTypes, Entry
<1>2. /\ net' = net \cup {m} /\ m \in SegmentSet
      /\ m.to = Other(e) /\ m.flags = {"ACK"} /\ m.len = 1 /\ m.seq = c.seq
      /\ conn'[Other(e)] = conn[Other(e)] /\ conn'[e].state = c.state
      /\ Span(m) > 0 => conn'[e].rtx = Keep(c.rtx, m, memory)
      /\ UNCHANGED <<recvd, ended>>
  <2>1. TcpTypes /\ Sends(e, c, {"ACK"}, 1, memory) /\ {"ACK"} \in SUBSET Flags
        /\ UNCHANGED <<recvd, ended>>
    BY DEF TcpInv, Write, Flags
  <2> QED
    BY <1>1, <2>1, SendStep
<1> HIDE DEF m
<1>3. Other(e) \in Sides /\ Other(Other(e)) = e
  BY TwoSides
<1>4. conn'[e].rtx = Keep(c.rtx, m, memory)
  BY <1>2 DEF Span, Has
<1>5. SentBytes(e)' = SentBytes(e) \cup {c.seq}
  BY <1>2 DEF SentBytes
<1>6. SentBytes(Other(e))' = SentBytes(Other(e))
  <2>1. m.to # Other(Other(e))
    BY <1>2, <1>3, TwoSides
  <2>2. \A n : n.to = Other(Other(e)) => (n \in net' <=> n \in net)
    BY <1>2, <2>1
  <2> QED
    BY <2>2 DEF SentBytes
<1>7. /\ Kept(e) = {c.rtx[i].seg.seq : i \in 1..Len(c.rtx)}
      /\ Kept(e)' = {conn'[e].rtx[i].seg.seq : i \in 1..Len(conn'[e].rtx)}
  <2>1. Kept(e) = {c.rtx[i].seg.seq : i \in 1..Len(c.rtx)}
    BY KeptFacts
  <2>2. Kept(e)' = {conn'[e].rtx[i].seg.seq : i \in 1..Len(conn'[e].rtx)}
    BY KeptFactsNext
  <2> QED
    BY <2>1, <2>2
<1>8. ASSUME Keeps(c.rtx, memory) PROVE Kept(e) \cup {c.seq} \subseteq Kept(e)'
  <2> DEFINE r == Keep(c.rtx, m, memory)
             n == Len(c.rtx)
  <2>1. /\ \A i \in 1..n : r[i] = c.rtx[i]
        /\ r[n + 1].seg = m /\ Len(r) = n + 1
    <3> DEFINE q == c.rtx
               K == Keepable
    <3>1. q \in Seq([seg : K, retries : Nat]) /\ Keeps(q, memory) /\ Len(q) \in Nat
      BY <1>1, <1>8
    <3> HIDE DEF q, K, m
    <3>2. /\ \A i \in 1..Len(q) : Keep(q, m, memory)[i] = q[i]
          /\ Keep(q, m, memory)[Len(q) + 1].seg = m /\ Len(Keep(q, m, memory)) = Len(q) + 1
      BY <3>1, KeepsOneMore, Zenon
    <3> QED
      BY <3>2 DEF q
  <2> HIDE DEF r
  <2>2. n \in Nat /\ \A i \in 1..n : i \in 1..(n + 1)
    BY <1>1
  <2>3. n + 1 \in 1..(n + 1)
    BY <1>1
  <2>4. Kept(e)' = {r[i].seg.seq : i \in 1..Len(r)}
    BY <1>4, <1>7 DEF r
  <2> HIDE DEF n
  <2>5. Kept(e) \subseteq Kept(e)'
    BY <1>7, <2>1, <2>2, <2>4 DEF n
  <2>6. c.seq \in Kept(e)'
    BY <1>2, <2>1, <2>3, <2>4
  <2> QED
    BY <2>5, <2>6
<1>9. ASSUME ~Keeps(c.rtx, memory) PROVE Kept(e)' = Kept(e) /\ c.seq \in unkept'[e]
  <2>1. conn'[e].rtx = c.rtx
    BY <1>4, <1>9 DEF Keep
  <2>2. c.seq \in unkept'[e]
    BY <1>9 DEF UnkeptTypes
  <2> QED
    BY <1>7, <2>1, <2>2
<1>10. unkept[e] \subseteq unkept'[e] /\ unkept'[Other(e)] = unkept[Other(e)]
  BY TwoSides DEF UnkeptTypes
<1>11. KeptBy(e)'
  <2>1. Received(Other(e))' = Received(Other(e))
    BY <1>2 DEF Received
  <2>2. KeptBy(e)
    BY DEF KeptUntilReceived, KeptBy
  <2> QED
    BY <1>2, <1>5, <1>8, <1>9, <1>10, <2>1, <2>2 DEF KeptBy
<1>12. (ended'[e] = "no" => ended[e] = "no") /\ Len(recvd[e]) <= Len(recvd'[e])
  <2>1. Len(recvd[e]) \in Nat
    BY ReceivedFacts
  <2> QED
    BY <1>2, <2>1
<1> QED
  BY <1>2, <1>6, <1>10, <1>11, <1>12, PeerIsKept

\* An acknowledgement clears no byte that the peer has not received.
LEMMA ClearedIsReceived ==
  ASSUME TcpInv, NEW m \in net, NEW e \in Sides, e = m.to, Has(m, "ACK"),
         conn[e].state = "ESTABLISHED", ended[Other(e)] = "no",
         NEW b \in SentBytes(e), b < m.ack
  PROVE  b \in Received(Other(e))
<1> DEFINE p == Other(e)
<1>1. p \in Sides /\ Other(p) = e /\ SideInv(e) /\ SideInv(p) /\ m.ack \in Nat
  BY TwoSides DEF TcpInv, TcpTypes, SegmentSet
<1>2. ~DoneWriting(e)
  BY <1>1 DEF SideInv, Stream, Active, DoneWriting, FinSent
<1>3. Listens(p)
  BY <1>1, <1>2 DEF SideInv, Expected, Listens
<1>4. m.ack <= Len(recvd[p]) + 1
  BY <1>1, <1>3 DEF SideInv, Wire
<1>5. conn[e].seq \in Nat /\ b \in 1..(conn[e].seq - 1)
  BY <1>1 DEF SideInv, Stream, Writing, TcpInv, TcpTypes, Entry
<1>6. Received(p) = 1..Len(recvd[p]) /\ Len(recvd[p]) \in Nat
  BY <1>1, ReceivedFacts
<1> QED
  BY <1>1, <1>4, <1>5, <1>6

\* tcp_handle_packet.
LEMMA ReceiveIsKept ==
  ASSUME TcpInv, TcpInv', KeptUntilReceived, UNCHANGED unkept, NEW m \in net, NEW stored \in BOOLEAN,
         Receive(m, stored)
  PROVE  KeptUntilReceived'
<1> DEFINE e == m.to
           p == Other(e)
           c == conn[e]
           c1 == AfterAck(e, m)
           c2 == AfterData(c1, m, stored)
           c3 == AfterFin(c2, m)
           r2 == Buffer(e, m, stored)
           now == IF Acks(c1, m, stored) THEN {Ack(e, c2)} ELSE {}
<1>1. /\ Active(e)
      /\ stored => HasData(m) /\ InOrder(c1, m)
      /\ recvd' = [recvd EXCEPT ![e] = r2]
      /\ \/ /\ conn' = [conn EXCEPT ![e] = [c3 EXCEPT !.state = "CLOSE_WAIT"]]
            /\ net' = net \cup now \cup {Ack(e, c3)}
            /\ UNCHANGED ended
         \/ /\ Release(e, "closed")
            /\ net' = net \cup now \cup {Ack(e, c3)}
         \/ /\ conn' = [conn EXCEPT ![e] = c2]
            /\ net' = net \cup now
            /\ UNCHANGED ended
  BY DEF Receive, Buffer
<1>2. e = m.to /\ e \in Sides /\ p \in Sides /\ p # e /\ SideInv(e) /\ m.ack \in Nat
      /\ Keepable \subseteq SegmentSet
  BY TwoSides DEF TcpInv, TcpTypes, SegmentSet, Keepable
<1> HIDE DEF e
<1>3. /\ \/ c1.state = c.state
         \/ c.state = "FIN_WAIT1" /\ c1.state = "FIN_WAIT2"
         \/ c.state = "SYN_RCVD" /\ c1.state = "ESTABLISHED"
      /\ Has(m, "ACK") => c1.rtx = Unacked(c.rtx, m.ack)
      /\ ~Has(m, "ACK") => c1.rtx = c.rtx
  BY <1>2, AfterAckFacts
<1>4. /\ c2.rtx = c1.rtx
      /\ c2.state = c1.state \/ c.state = "SYN_SENT"
      /\ Len(recvd[e]) <= Len(r2)
  <2>1. e = m.to /\ e \in Sides /\ Active(e)
        /\ (stored => HasData(m) /\ InOrder(AfterAck(e, m), m))
    BY <1>1, <1>2
  <2>2. DataSeen(e, m, stored, c1, c2, r2)
    BY <2>1, AfterDataFacts
  <2> HIDE DEF c1, c2, r2
  <2> QED
    BY <2>2 DEF DataSeen
<1>5. \A n \in net' : n \in net \/ n.len = 0
  BY <1>1 DEF Ack, Segment
<1> HIDE DEF c1, c2, c3, r2, now
<1>6. net \subseteq net'
  BY <1>1
<1>7. \A f : SentBytes(f)' = SentBytes(f)
  BY <1>5, <1>6, BytesKept
<1>8. /\ conn'[p] = conn[p] /\ recvd'[p] = recvd[p] /\ recvd'[e] = r2 /\ ended'[p] = ended[p]
      /\ ended'[e] = "no" => ended[e] = "no"
  BY <1>1, <1>2 DEF TcpInv, TcpTypes, Release
<1>9. KeptBy(e)'
  <2> SUFFICES ASSUME conn'[e].state = "ESTABLISHED", ended[p] = "no", NEW b \in SentBytes(e)
               PROVE  b \in Received(p) \cup Kept(e)' \cup unkept[e]
    BY <1>7, <1>8 DEF KeptBy, Received
  <2>1. conn'[e] = c2
    <3>1. CASE conn' = [conn EXCEPT ![e] = [c3 EXCEPT !.state = "CLOSE_WAIT"]]
      <4>1. c3 = [c2 EXCEPT !.ack = m.seq + m.len + 1]
        BY DEF c3, AfterFin
      <4>2. c2 \in Entry(Keepable)
        <5>1. e = m.to /\ e \in Sides /\ Active(e)
              /\ (stored => HasData(m) /\ InOrder(AfterAck(e, m), m))
          BY <1>1, <1>2 DEF c1
        <5>2. DataSeen(e, m, stored, c1, c2, r2)
          BY <5>1, AfterDataFacts DEF c1, c2, r2
        <5> QED
          BY <5>2 DEF DataSeen
      <4>3. [c3 EXCEPT !.state = "CLOSE_WAIT"].state = "CLOSE_WAIT"
        BY <4>1, <4>2 DEF Entry
      <4> QED
        BY <1>2, <3>1, <4>3 DEF TcpInv, TcpTypes
    <3>2. CASE Release(e, "closed")
      BY <1>2, <3>2 DEF Release, Closed, TcpInv, TcpTypes
    <3>3. CASE conn' = [conn EXCEPT ![e] = c2]
      BY <1>2, <3>3 DEF TcpInv, TcpTypes
    <3> QED
      BY <1>1, <3>1, <3>2, <3>3
  <2>2. c.state \notin Opening
    BY <1>2 DEF SideInv, Stream
  <2>3. c.state = "ESTABLISHED"
    BY <1>3, <1>4, <2>1, <2>2 DEF Opening
  <2>4. Kept(e) = {c.rtx[i].seg.seq : i \in 1..Len(c.rtx)}
    BY <1>2, KeptFacts
  <2>5. Kept(e)' = {conn'[e].rtx[i].seg.seq : i \in 1..Len(conn'[e].rtx)}
    BY <1>2, KeptFactsNext
  <2>6. b \in Received(p) \/ b \in Kept(e) \/ b \in unkept[e]
    BY <1>2, <2>3 DEF KeptUntilReceived
  <2>7. CASE Has(m, "ACK") /\ b \in Kept(e)
    <3>1. PICK j \in 1..Len(c.rtx) : b = c.rtx[j].seg.seq
      BY <2>4, <2>7
    <3>2. c.rtx \in Seq([seg : Keepable, retries : Nat])
      BY <1>2 DEF TcpInv, TcpTypes, Entry
    <3>3. c.rtx[j] \in [seg : Keepable, retries : Nat]
      BY <3>2, ElementOfSeq
    <3> DEFINE s == c.rtx[j].seg
    <3>4. s \in Keepable
      BY <3>3
    <3> HIDE DEF s
    <3>5. s \in SegmentSet /\ Span(s) > 0
      BY <1>2, <3>4 DEF Keepable
    <3>6. Span(s) \in Nat /\ AckSeq(s) = s.seq + Span(s) /\ s.seq \in Nat /\ b = s.seq
      BY <3>1, <3>5, SpanFacts DEF SegmentSet, s
    <3>7. CASE AckSeq(s) > m.ack
      <4>1. conn'[e].rtx = Unacked(c.rtx, m.ack)
        BY <1>3, <1>4, <2>1, <2>7
      <4>2. \E i \in 1..Len(Unacked(c.rtx, m.ack)) : Unacked(c.rtx, m.ack)[i] = c.rtx[j]
        <5>1. Keepable \in SUBSET SegmentSet /\ m.ack \in Nat /\ AckSeq(c.rtx[j].seg) > m.ack
          BY <1>2, <3>7 DEF s
        <5> QED
          BY <3>2, <5>1, UnackedFacts, Zenon
      <4>3. \E i \in 1..Len(conn'[e].rtx) : conn'[e].rtx[i] = c.rtx[j]
        BY <4>1, <4>2
      <4> QED
        BY <2>5, <3>1, <4>3
    <3>8. CASE ~(AckSeq(s) > m.ack)
      <4>1. b < m.ack
        BY <1>2, <3>5, <3>6, <3>8
      <4> QED
        BY <1>2, <2>3, <2>7, <4>1, ClearedIsReceived
    <3> QED
      BY <3>7, <3>8
  <2>8. CASE ~Has(m, "ACK") /\ b \in Kept(e)
    BY <1>3, <1>4, <2>1, <2>4, <2>5, <2>8
  <2> QED
    BY <2>6, <2>7, <2>8
<1> QED
  BY <1>2, <1>4, <1>7, <1>8, <1>9, PeerIsKept


\* A step after which e is not connected, and that sends no byte.
LEMMA ApartIsKept ==
  ASSUME TcpInv, TcpInv', KeptUntilReceived, NEW e \in Sides,
         conn'[Other(e)] = conn[Other(e)], recvd' = recvd,
         net \subseteq net', \A m \in net' : m \in net \/ m.len = 0,
         ended'[e] = "no" => ended[e] = "no", conn'[e].state # "ESTABLISHED",
         unkept'[Other(e)] = unkept[Other(e)]
  PROVE  KeptUntilReceived'
<1>1. SentBytes(Other(e))' = SentBytes(Other(e))
  BY BytesKept
<1>2. Len(recvd[e]) <= Len(recvd'[e])
  BY ReceivedFacts
<1>3. KeptBy(e)'
  BY DEF KeptBy
<1> QED
  BY <1>1, <1>2, <1>3, PeerIsKept

\* A step that changes neither the streams nor what is kept of them.
LEMMA SameIsKept ==
  ASSUME KeptUntilReceived, recvd' = recvd, ended' = ended, unkept' = unkept,
         net \subseteq net', \A m \in net' : m \in net \/ m.len = 0,
         \A f \in Sides : conn'[f].state = conn[f].state /\ Kept(f)' = Kept(f)
  PROVE  KeptUntilReceived'
<1>1. \A f : SentBytes(f)' = SentBytes(f)
  BY BytesKept
<1>2. \A f : Received(f)' = Received(f)
  BY DEF Received
<1> QED
  BY <1>1, <1>2, TwoSides DEF KeptUntilReceived

\* The step that sends a SYN or a FIN.
LEMMA EmptyIsKept ==
  ASSUME TcpInv, TcpInv', KeptUntilReceived, UnkeptTypes, NEW e \in Sides, NEW c,
         c \in Entry(Keepable), c.state # "ESTABLISHED", NEW flags \in SUBSET Flags,
         Send(e, c, flags, 0), UNCHANGED <<recvd, ended>>
  PROVE  KeptUntilReceived'
<1>1. Other(e) \in Sides /\ Other(e) # e
  BY TwoSides
<1>2. conn'[Other(e)] = conn[Other(e)] /\ unkept'[Other(e)] = unkept[Other(e)]
  BY <1>1 DEF Send, TcpInv, TcpTypes, UnkeptTypes
<1>3. net \subseteq net' /\ \A m \in net' : m \in net \/ m.len = 0
  BY DEF Send, Segment
<1>4. conn'[e].state = c.state
  <2>1. conn'[e] = c \/ \E memory \in BOOLEAN : conn'[e] = Sent(e, c, flags, 0, memory)
    BY DEF Send, TcpInv, TcpTypes
  <2>2. ASSUME NEW memory \in BOOLEAN PROVE Sent(e, c, flags, 0, memory).state = c.state
    <3>1. Keepable \in SUBSET SegmentSet /\ 0 \in {0, 1}
      BY DEF Keepable, TcpInv, TcpTypes
    <3>2. SentEntry(Keepable, e, c, flags, 0, memory)
      BY <3>1, SendFacts
    <3> QED
      BY <3>2 DEF SentEntry
  <2> QED
    BY <2>1, <2>2
<1> QED
  BY <1>2, <1>3, <1>4, ApartIsKept

\* The step that gives an entry back.
LEMMA LetGoIsKept ==
  ASSUME TcpInv, TcpInv', KeptUntilReceived, NEW e \in Sides,
         NEW how \in {"closed", "dropped", "given up"}, Release(e, how),
         UNCHANGED <<recvd, net, unkept>>
  PROVE  KeptUntilReceived'
<1>1. Other(e) \in Sides /\ Other(e) # e
  BY TwoSides
<1>2. /\ conn'[Other(e)] = conn[Other(e)] /\ conn'[e].state = "CLOSED" /\ ended'[e] # "no"
  BY <1>1 DEF Release, Closed, TcpInv, TcpTypes
<1> QED
  BY <1>2, ApartIsKept

\* tcp_connect.
LEMMA ConnectIsKept ==
  TcpInv /\ TcpInv' /\ KeptUntilReceived /\ UnkeptTypes /\ Connect => KeptUntilReceived'
<1> SUFFICES ASSUME TcpInv, TcpInv', KeptUntilReceived, UnkeptTypes, Connect
             PROVE  KeptUntilReceived'
  OBVIOUS
<1> DEFINE e == "client"
           c == [Closed EXCEPT !.state = "SYN_SENT", !.accepted = TRUE]
           Q == Seq([seg : Keepable, retries : Nat])
<1>1. e \in Sides /\ Send(e, c, {"SYN"}, 0) /\ UNCHANGED <<recvd, ended>> /\ {"SYN"} \in SUBSET Flags
  BY DEF Connect, Sides, Flags
<1>2. c \in Entry(Keepable) /\ c.state = "SYN_SENT"
  <2>1. <<>> \in Q
    BY EmptySeq
  <2> HIDE DEF Q
  <2>2. c \in [state : States, accepted : BOOLEAN, seq : Nat, ack : Nat, rtx : Q]
        /\ c.state = "SYN_SENT"
    BY <2>1 DEF Closed, States
  <2> QED
    BY <2>2 DEF Entry, Q
<1> HIDE DEF e, c
<1> QED
  BY <1>1, <1>2, EmptyIsKept

\* The first SYN.
LEMMA SpawnIsKept ==
  ASSUME TcpInv, TcpInv', KeptUntilReceived, UnkeptTypes, NEW m \in net, Spawn(m)
  PROVE  KeptUntilReceived'
<1> DEFINE e == "server"
           c == [Closed EXCEPT !.state = "SYN_RCVD", !.ack = m.seq + 1]
           f == {"SYN", "ACK"}
           Q == Seq([seg : Keepable, retries : Nat])
<1>1. e \in Sides /\ Send(e, c, f, 0) /\ UNCHANGED <<recvd, ended>> /\ f \in SUBSET Flags
  BY DEF Spawn, Sides, Flags
<1>2. m.seq + 1 \in Nat
  <2>1. m \in SegmentSet
    BY DEF TcpInv, TcpTypes
  <2> QED
    BY <2>1 DEF SegmentSet
<1>3. c \in Entry(Keepable) /\ c.state = "SYN_RCVD"
  <2>1. <<>> \in Q
    BY EmptySeq
  <2> HIDE DEF Q
  <2>2. c \in [state : States, accepted : BOOLEAN, seq : Nat, ack : Nat, rtx : Q]
        /\ c.state = "SYN_RCVD"
    BY <1>2, <2>1 DEF Closed, States
  <2> QED
    BY <2>2 DEF Entry, Q
<1> HIDE DEF e, c, f
<1> QED
  BY <1>1, <1>3, EmptyIsKept

\* tcp_close.
LEMMA CloseIsKept ==
  ASSUME TcpInv, TcpInv', KeptUntilReceived, UnkeptTypes, NEW e \in Sides, Close(e)
  PROVE  KeptUntilReceived'
<1>1. ASSUME NEW to \in {"FIN_WAIT1", "LAST_ACK"}, UNCHANGED <<recvd, ended>>,
             Send(e, [conn[e] EXCEPT !.state = to], {"FIN", "ACK"}, 0)
      PROVE  KeptUntilReceived'
  <2> DEFINE c == [conn[e] EXCEPT !.state = to]
             S == Seq([seg : Keepable, retries : Nat])
  <2>1. conn[e] \in [state : States, accepted : BOOLEAN, seq : Nat, ack : Nat, rtx : S]
    BY DEF TcpInv, TcpTypes, Entry
  <2> HIDE DEF S
  <2>2. c.state = to /\ c \in [state : States, accepted : BOOLEAN, seq : Nat, ack : Nat, rtx : S]
    BY <1>1, <2>1 DEF States
  <2>3. Send(e, c, {"FIN", "ACK"}, 0) /\ {"FIN", "ACK"} \in SUBSET Flags
    BY <1>1 DEF Flags
  <2>4. c \in Entry(Keepable) /\ c.state # "ESTABLISHED"
    BY <1>1, <2>2 DEF Entry, S
  <2> HIDE DEF c
  <2> QED
    BY <1>1, <2>3, <2>4, EmptyIsKept
<1>2. CASE Release(e, "dropped") /\ UNCHANGED <<recvd, net, unkept>>
  BY <1>2, LetGoIsKept
<1> QED
  BY <1>1, <1>2 DEF Close

\* tcp_accept and tcp_tick change no segment of the queue, and send none that was not sent before.
LEMMA TickIsKept ==
  ASSUME TcpInv, KeptUntilReceived, NEW e \in Sides, NEW late, Resend(e, late)
  PROVE  KeptUntilReceived'
<1> DEFINE rtx == conn[e].rtx
           new == Retried(rtx, late)
           R == [seg : Keepable, retries : Nat]
<1>1. /\ late \subseteq DOMAIN rtx /\ UNCHANGED <<recvd, ended, unkept>>
      /\ conn' = [conn EXCEPT ![e] = [conn[e] EXCEPT !.rtx = new]]
      /\ net' = net \cup {rtx[i].seg : i \in late}
  BY DEF Resend
<1>2. rtx \in Seq(R)
  BY DEF TcpInv, TcpTypes, Entry
<1>3. \A i \in DOMAIN rtx : rtx[i] \in R
  BY <1>2, ElementOfSeq, SeqAsSet
<1>4. net' = net
  BY <1>1, <1>3 DEF Keepable
<1>5. DOMAIN new = DOMAIN rtx /\ \A i \in DOMAIN rtx : new[i].seg = rtx[i].seg
  BY <1>3 DEF Retried
<1>6. conn'[e].state = conn[e].state /\ conn'[e].rtx = new
  <2> DEFINE S == Seq([seg : Keepable, retries : Nat])
  <2>1. conn[e] \in [state : States, accepted : BOOLEAN, seq : Nat, ack : Nat, rtx : S]
    BY DEF TcpInv, TcpTypes, Entry
  <2>2. conn'[e] = [conn[e] EXCEPT !.rtx = new]
    BY <1>1 DEF TcpInv, TcpTypes
  <2> HIDE DEF S, new
  <2> QED
    BY <2>1, <2>2
<1> HIDE DEF new
<1>7. Kept(e)' = Kept(e)
  <2>1. DOMAIN conn'[e].rtx = DOMAIN conn[e].rtx
        /\ \A i \in DOMAIN conn[e].rtx : conn'[e].rtx[i].seg = conn[e].rtx[i].seg
    BY <1>5, <1>6
  <2> QED
    BY <2>1 DEF Kept
<1>8. \A f \in Sides : f # e => conn'[f] = conn[f]
  BY <1>1 DEF TcpInv, TcpTypes
<1>9. ASSUME NEW f \in Sides
      PROVE  conn'[f].state = conn[f].state /\ Kept(f)' = Kept(f)
  <2>1. CASE f = e
    BY <1>6, <1>7, <2>1
  <2>2. CASE f # e
    <3>1. conn'[f] = conn[f]
      BY <1>8, <2>2
    <3>2. Kept(f)' = Kept(f)
      BY <3>1 DEF Kept
    <3> QED
      BY <3>1, <3>2
  <2> QED
    BY <2>1, <2>2
<1> QED
  BY <1>1, <1>4, <1>9, SameIsKept

\* tcp_accept.
LEMMA AcceptIsKept == TcpInv /\ KeptUntilReceived /\ Accept => KeptUntilReceived'
<1> SUFFICES ASSUME TcpInv, KeptUntilReceived, Accept PROVE KeptUntilReceived'
  OBVIOUS
<1> DEFINE S == Seq([seg : Keepable, retries : Nat])
<1>1. \A f \in Sides : conn[f] \in [state : States, accepted : BOOLEAN, seq : Nat, ack : Nat, rtx : S]
  BY DEF TcpInv, TcpTypes, Entry
<1>2. "server" \in Sides /\ UNCHANGED <<recvd, ended, net, unkept>> /\ DOMAIN conn = Sides
      /\ conn' = [conn EXCEPT !["server"].accepted = TRUE]
  BY DEF Accept, Sides, TcpInv, TcpTypes
<1> HIDE DEF S
<1>3. \A f \in Sides : conn'[f].state = conn[f].state /\ conn'[f].rtx = conn[f].rtx
  BY <1>1, <1>2
<1>4. \A f \in Sides : Kept(f)' = Kept(f)
  BY <1>3 DEF Kept
<1> QED
  BY <1>2, <1>3, <1>4, SameIsKept

\* A step that leaves a connection as it is.
LEMMA NothingIsKept ==
  ASSUME KeptUntilReceived, UNCHANGED tcpVars
  PROVE  KeptUntilReceived'
<1>1. conn' = conn /\ recvd' = recvd /\ ended' = ended /\ net' = net /\ unkept' = unkept
  BY DEF tcpVars
<1>2. \A f \in Sides : conn'[f].state = conn[f].state /\ Kept(f)' = Kept(f)
  BY <1>1 DEF Kept
<1> QED
  BY <1>1, <1>2, SameIsKept

\* tcp_send.
LEMMA WriteIsKept ==
  ASSUME TcpInv, TcpInv', KeptUntilReceived, UnkeptTypes, NEW e \in Sides, Write(e)
  PROVE  KeptUntilReceived'
<1> DEFINE c == conn[e]
<1>1. UNCHANGED <<recvd, ended>>
      /\ \/ \E memory \in BOOLEAN :
               /\ Sends(e, c, {"ACK"}, 1, memory)
               /\ unkept' = [unkept EXCEPT ![e] = IF 1 > 0 /\ ~Keeps(c.rtx, memory)
                                                  THEN @ \cup {c.seq} ELSE @]
         \/ Lacks(e, c) /\ UNCHANGED unkept
  BY DEF Write, Send, Sends, Lacks
<1>2. CASE Lacks(e, c) /\ UNCHANGED unkept
  <2>1. conn' = conn /\ net' = net
    BY <1>2, LacksSame DEF TcpInv
  <2> QED
    BY <1>1, <1>2, <2>1, NothingIsKept DEF tcpVars
<1> QED
  BY <1>1, <1>2, ByteIsKept

\* Every step keeps what it sends, or counts it.
LEMMA KeptNext ==
  TcpInv /\ TcpInv' /\ KeptUntilReceived /\ UnkeptTypes /\ [TcpNext]_tcpVars => KeptUntilReceived'
<1> SUFFICES ASSUME TcpInv, TcpInv', KeptUntilReceived, UnkeptTypes, [TcpNext]_tcpVars
             PROVE  KeptUntilReceived'
  OBVIOUS
<1>1. CASE Connect
  BY <1>1, ConnectIsKept
<1>2. CASE Accept
  BY <1>2, AcceptIsKept
<1>3. ASSUME NEW e \in Sides, Write(e) PROVE KeptUntilReceived'
  BY <1>3, WriteIsKept
<1>4. ASSUME NEW e \in Sides, Close(e) PROVE KeptUntilReceived'
  BY <1>4, CloseIsKept
<1>5. ASSUME NEW e \in Sides, GiveUp(e) PROVE KeptUntilReceived'
  <2>1. Release(e, "given up") /\ UNCHANGED <<recvd, net, unkept>>
    BY <1>5 DEF GiveUp
  <2> QED
    BY <2>1, LetGoIsKept
<1>6. ASSUME NEW e \in Sides, NEW late, Resend(e, late) PROVE KeptUntilReceived'
  BY <1>6, TickIsKept
<1>7. ASSUME NEW m \in net, Spawn(m) PROVE KeptUntilReceived'
  BY <1>7, SpawnIsKept
<1>8. ASSUME NEW m \in net, Refuse(m) PROVE KeptUntilReceived'
  <2>1. /\ recvd' = recvd /\ ended' = ended /\ conn' = conn /\ unkept' = unkept /\ net \subseteq net'
        /\ \A n \in net' : n \in net \/ n.len = 0
    BY <1>8 DEF Refuse
  <2>2. \A f \in Sides : conn'[f].state = conn[f].state /\ Kept(f)' = Kept(f)
    BY <2>1 DEF Kept
  <2> QED
    BY <2>1, <2>2, SameIsKept
<1>9. ASSUME NEW m \in net, FinishClose(m) PROVE KeptUntilReceived'
  <2>1. m.to \in Sides /\ Release(m.to, "closed") /\ UNCHANGED <<recvd, net, unkept>>
    BY <1>9 DEF FinishClose, TcpInv, TcpTypes, SegmentSet
  <2> QED
    BY <2>1, LetGoIsKept
<1>10. ASSUME NEW m \in net, NEW stored \in BOOLEAN, Receive(m, stored) PROVE KeptUntilReceived'
  BY <1>10, ReceiveIsKept DEF Receive
<1>11. CASE UNCHANGED tcpVars
  BY <1>11, NothingIsKept
<1> QED
  BY <1>1, <1>2, <1>3, <1>4, <1>5, <1>6, <1>7, <1>8, <1>9, <1>10, <1>11 DEF TcpNext

\* At first there is nothing to keep.
LEMMA KeptInit == TcpInit => KeptUntilReceived /\ UnkeptTypes
  BY DEF TcpInit, KeptUntilReceived, SentBytes, UnkeptTypes

\* Each side has its set.
LEMMA UnkeptNext == UnkeptTypes /\ [TcpNext]_tcpVars => UnkeptTypes'
<1> SUFFICES ASSUME UnkeptTypes, [TcpNext]_tcpVars PROVE UnkeptTypes'
  OBVIOUS
<1>1. ASSUME NEW e, NEW c, NEW flags, NEW len, Send(e, c, flags, len) PROVE UnkeptTypes'
  BY <1>1 DEF Send, UnkeptTypes
<1>2. CASE UNCHANGED unkept
  BY <1>2 DEF UnkeptTypes
<1>3. CASE Connect
  BY <1>1, <1>3 DEF Connect
<1>4. ASSUME NEW e \in Sides, Write(e) \/ Close(e) PROVE UnkeptTypes'
  BY <1>1, <1>2, <1>4 DEF Write, Close
<1>5. ASSUME NEW m \in net, Spawn(m) PROVE UnkeptTypes'
  BY <1>1, <1>5 DEF Spawn
<1>6. \/ UNCHANGED unkept \/ Connect
      \/ \E e \in Sides : Write(e) \/ Close(e)
      \/ \E m \in net : Spawn(m)
  BY DEF TcpNext, Accept, GiveUp, Resend, Refuse, FinishClose, Receive, tcpVars
<1> QED
  BY <1>2, <1>3, <1>4, <1>5, <1>6

\* What tcp_send puts on the wire is in rtx_queue until the peer's tcp_handle_packet has put it
\* into recv_buf, but for what send_segment had no room or no memory to keep.
THEOREM KeptIsKept == TcpSpec => []KeptUntilReceived
<1> DEFINE I == KeptUntilReceived /\ UnkeptTypes
<1>1. TcpInit => I
  BY KeptInit
<1>2. TcpInv /\ TcpInv' /\ I /\ [TcpNext]_tcpVars => I'
  BY KeptNext, UnkeptNext
<1>3. I => KeptUntilReceived
  OBVIOUS
<1> HIDE DEF I
<1> QED
  BY <1>1, <1>2, <1>3, TcpInvariance, PTL DEF TcpSpec

\* What a side takes for acknowledged, byte or FIN, its peer has, if the side had the memory and the
\* room to keep the byte, and the memory to send the FIN: tcp_handle_packet acknowledges nothing
\* that it has not taken.
THEOREM AcknowledgedIsReceived == TcpSpec => []AcknowledgedIsThere
<1>1. KeptUntilReceived /\ FinNeverAssumed => AcknowledgedIsThere
  BY DEF AcknowledgedIsThere
<1> QED
  BY <1>1, KeptIsKept, FinsAreSeen, PTL
=============================================================================
