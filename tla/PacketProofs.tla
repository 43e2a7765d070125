---------------------------- MODULE PacketProofs ----------------------------
(***************************************************************************)
(* Proofs about the ways of a packet: MessagePath, for any processes,      *)
(* capacities and ends of processes; IntercomClient, for any number of     *)
(* cells and doors and any of the intervals and limits.                    *)
(*                                                                         *)
(* The hub's path: each step of a process is, in each direction, a step of *)
(* a channel that keeps the order and loses only its newest packets        *)
(* (ChannelStep), and those steps keep the order and the account of the    *)
(* packets (PathInOrder, PathAccounted).  A crash loses what is behind the *)
(* inbox, a full in-process queue the packet that comes last.              *)
(*                                                                         *)
(* The intercom: as long as no packet was forgotten of a door that had yet *)
(* to get its cell, a door in the stream is known, or the next one, or     *)
(* behind the one before it (Successive), so that the list of doors is     *)
(* that of the hub and a cell names its door (InStep); what waits in the   *)
(* outbox is no door's packet (SentPacket).  The hub has not been without  *)
(* word for longer than the client's last sync is past, nor than the       *)
(* interval, unless a bell or a clock set back kept the client, or word is *)
(* under way (Heard).                                                      *)
(***************************************************************************)
EXTENDS MessagePath, IntercomClient, SequenceTheorems, FiniteSetTheorems, TLAPS

-----------------------------------------------------------------------------
(* Sequences                                                               *)

\* An element appended to the second of two sequences is appended to both.
LEMMA AppendToConcat ==
  ASSUME NEW S, NEW a \in Seq(S), NEW b \in Seq(S), NEW x \in S
  PROVE  a \o Append(b, x) = Append(a \o b, x)
<1>1. Append(b, x) = b \o <<x>> /\ <<x>> \in Seq(S)
  BY AppendIsConcat
<1>2. a \o b \in Seq(S)
  BY ConcatProperties
<1>3. Append(a \o b, x) = (a \o b) \o <<x>>
  BY <1>2, AppendIsConcat
<1> QED
  BY <1>1, <1>3, ConcatAssociative

\* The same, of the numbers of packets.
LEMMA NumberToConcat ==
  \A a, b \in Seq(Nat), x \in Nat : a \o Append(b, x) = Append(a \o b, x)
BY AppendToConcat

\* The first element of the second of two sequences may as well end the first.
LEMMA HeadMovesOver ==
  ASSUME NEW S, NEW a \in Seq(S), NEW b \in Seq(S), b # <<>>
  PROVE  Append(a, Head(b)) \o Tail(b) = a \o b
<1> DEFINE c == Append(a, Head(b))
           t == Tail(b)
<1>1. /\ Head(b) \in S /\ t \in Seq(S) /\ Len(t) = Len(b) - 1
      /\ \A i \in 1 .. Len(t) : t[i] = b[i + 1]
  BY HeadTailProperties
<1>2. Head(b) = b[1] /\ Len(b) \in Nat \ {0} /\ Len(a) \in Nat
  BY EmptySeq
<1>3. /\ c \in Seq(S) /\ Len(c) = Len(a) + 1 /\ c[Len(a) + 1] = b[1]
      /\ \A i \in 1 .. Len(a) : c[i] = a[i]
  BY <1>1, <1>2, AppendProperties
<1> HIDE DEF c, t
<1>4. /\ c \o t \in Seq(S) /\ Len(c \o t) = Len(c) + Len(t)
      /\ \A i \in 1 .. Len(c) + Len(t) :
           (c \o t)[i] = IF i <= Len(c) THEN c[i] ELSE t[i - Len(c)]
  BY <1>1, <1>3, ConcatProperties
<1>5. /\ a \o b \in Seq(S) /\ Len(a \o b) = Len(a) + Len(b)
      /\ \A i \in 1 .. Len(a) + Len(b) :
           (a \o b)[i] = IF i <= Len(a) THEN a[i] ELSE b[i - Len(a)]
  BY ConcatProperties
<1>6. Len(c) + Len(t) = Len(a) + Len(b)
  BY <1>1, <1>2, <1>3
<1>7. ASSUME NEW i \in 1 .. Len(a) + Len(b) PROVE (c \o t)[i] = (a \o b)[i]
  <2>1. CASE i <= Len(a)
    BY <1>2, <1>3, <1>4, <1>5, <1>6, <2>1
  <2>2. CASE i = Len(a) + 1
    BY <1>2, <1>3, <1>4, <1>5, <1>6, <2>2
  <2>3. CASE i > Len(a) + 1
    <3>1. /\ i - Len(c) \in 1 .. Len(t) /\ (i - Len(c)) + 1 = i - Len(a)
          /\ ~(i <= Len(c)) /\ ~(i <= Len(a)) /\ i \in 1 .. Len(c) + Len(t)
      BY <1>1, <1>2, <1>3, <2>3
    <3>2. (c \o t)[i] = t[i - Len(c)]
      BY <1>4, <3>1
    <3>3. t[i - Len(c)] = b[(i - Len(c)) + 1]
      BY <1>1, <3>1
    <3> QED
      BY <1>5, <3>1, <3>2, <3>3
  <2>4. i \in Int /\ Len(a) \in Int
    BY <1>2
  <2>5. i <= Len(a) \/ i = Len(a) + 1 \/ i > Len(a) + 1
    BY <2>4
  <2> QED
    BY <2>1, <2>2, <2>3, <2>5
<1> QED
  BY <1>4, <1>5, <1>6, <1>7, SeqEqual DEF c, t

\* The first element of two sequences is taken from the first of them.
LEMMA HeadTailOfConcat ==
  ASSUME NEW S, NEW a \in Seq(S), NEW b \in Seq(S), a # <<>>
  PROVE  /\ a \o b # <<>> /\ Head(a \o b) = Head(a)
         /\ Tail(a \o b) = Tail(a) \o b
<1>1. /\ Head(a) \in S /\ Tail(a) \in Seq(S) /\ Len(Tail(a)) = Len(a) - 1
      /\ \A i \in 1 .. Len(Tail(a)) : Tail(a)[i] = a[i + 1]
  BY HeadTailProperties
<1>2. Len(a) \in Nat \ {0} /\ Len(b) \in Nat
  BY EmptySeq
<1>3. /\ a \o b \in Seq(S) /\ Len(a \o b) = Len(a) + Len(b)
      /\ \A i \in 1 .. Len(a) + Len(b) :
           (a \o b)[i] = IF i <= Len(a) THEN a[i] ELSE b[i - Len(a)]
  BY ConcatProperties
<1>4. a \o b # <<>>
  BY <1>2, <1>3, EmptySeq
<1>5. Head(a \o b) = Head(a)
  BY <1>2, <1>3
<1>6. /\ Tail(a \o b) \in Seq(S) /\ Len(Tail(a \o b)) = Len(a) + Len(b) - 1
      /\ \A i \in 1 .. Len(Tail(a \o b)) : Tail(a \o b)[i] = (a \o b)[i + 1]
  BY <1>3, <1>4, HeadTailProperties
<1>7. /\ Tail(a) \o b \in Seq(S) /\ Len(Tail(a) \o b) = Len(a) + Len(b) - 1
      /\ \A i \in 1 .. Len(a) + Len(b) - 1 :
           (Tail(a) \o b)[i] = IF i <= Len(a) - 1 THEN Tail(a)[i] ELSE b[i - (Len(a) - 1)]
  BY <1>1, <1>2, ConcatProperties
<1>8. ASSUME NEW i \in 1 .. Len(a) + Len(b) - 1 PROVE Tail(a \o b)[i] = (Tail(a) \o b)[i]
  <2>1. i + 1 \in 1 .. Len(a) + Len(b) /\ Tail(a \o b)[i] = (a \o b)[i + 1]
    BY <1>2, <1>6
  <2>2. CASE i <= Len(a) - 1
    <3>1. i \in 1 .. Len(Tail(a)) /\ i + 1 <= Len(a)
      BY <1>1, <1>2, <2>2
    <3> QED
      BY <1>1, <1>3, <1>7, <2>1, <2>2, <3>1
  <2>3. CASE i > Len(a) - 1
    <3>1. ~(i + 1 <= Len(a)) /\ (i + 1) - Len(a) = i - (Len(a) - 1)
      BY <1>2, <2>3
    <3> QED
      BY <1>2, <1>3, <1>7, <2>1, <2>3, <3>1
  <2> QED
    BY <1>2, <2>2, <2>3
<1>9. Tail(a \o b) = Tail(a) \o b
  BY <1>6, <1>7, <1>8, SeqEqual
<1> QED
  BY <1>4, <1>5, <1>9

\* The elements of two sequences are those of each.
LEMMA ElementsOfConcat ==
  ASSUME NEW S, NEW a \in Seq(S), NEW b \in Seq(S)
  PROVE  ToSet(a \o b) = ToSet(a) \cup ToSet(b)
<1>1. /\ a \o b \in Seq(S) /\ Len(a \o b) = Len(a) + Len(b)
      /\ \A i \in 1 .. Len(a) + Len(b) :
           (a \o b)[i] = IF i <= Len(a) THEN a[i] ELSE b[i - Len(a)]
  BY ConcatProperties
<1>2. /\ DOMAIN a = 1 .. Len(a) /\ DOMAIN b = 1 .. Len(b) /\ Len(a) \in Nat /\ Len(b) \in Nat
      /\ DOMAIN (a \o b) = 1 .. Len(a) + Len(b)
  BY <1>1, LenProperties
<1>3. ASSUME NEW x \in ToSet(a \o b) PROVE x \in ToSet(a) \cup ToSet(b)
  <2>1. PICK i \in 1 .. Len(a) + Len(b) : x = (a \o b)[i]
    BY <1>2 DEF ToSet
  <2>2. i <= Len(a) \/ i - Len(a) \in 1 .. Len(b)
    BY <1>2
  <2> QED
    BY <1>1, <1>2, <2>1, <2>2 DEF ToSet
<1>4. ASSUME NEW x \in ToSet(a) PROVE x \in ToSet(a \o b)
  <2>1. PICK i \in 1 .. Len(a) : x = a[i]
    BY <1>2 DEF ToSet
  <2>2. i \in 1 .. Len(a) + Len(b) /\ (a \o b)[i] = x
    BY <1>1, <1>2, <2>1
  <2> QED
    BY <1>2, <2>2 DEF ToSet
<1>5. ASSUME NEW x \in ToSet(b) PROVE x \in ToSet(a \o b)
  <2>1. PICK i \in 1 .. Len(b) : x = b[i]
    BY <1>2 DEF ToSet
  <2>2. i + Len(a) \in 1 .. Len(a) + Len(b) /\ ~(i + Len(a) <= Len(a)) /\ (i + Len(a)) - Len(a) = i
    BY <1>2
  <2>3. (a \o b)[i + Len(a)] = x
    BY <1>1, <2>1, <2>2
  <2> QED
    BY <1>2, <2>2, <2>3 DEF ToSet
<1> QED
  BY <1>3, <1>4, <1>5

\* The elements of a sequence after its first k.
LEMMA ElementsAfter ==
  ASSUME NEW S, NEW a \in Seq(S), NEW b \in Seq(S)
  PROVE  /\ SubSeq(a \o b, 1, Len(a)) = a
         /\ {(a \o b)[i] : i \in Len(a) + 1 .. Len(a \o b)} = ToSet(b)
<1>1. /\ a \o b \in Seq(S) /\ Len(a \o b) = Len(a) + Len(b)
      /\ \A i \in 1 .. Len(a) + Len(b) :
           (a \o b)[i] = IF i <= Len(a) THEN a[i] ELSE b[i - Len(a)]
  BY ConcatProperties
<1>2. DOMAIN b = 1 .. Len(b) /\ Len(a) \in Nat /\ Len(b) \in Nat
  BY LenProperties
<1>3. \A i \in 1 .. Len(a) : (a \o b)[i] \in S /\ (a \o b)[i] = a[i]
  BY <1>1, <1>2, ElementOfSeq
<1>4. /\ SubSeq(a \o b, 1, Len(a)) \in Seq(S)
      /\ Len(SubSeq(a \o b, 1, Len(a))) = Len(a)
      /\ \A i \in 1 .. Len(a) : SubSeq(a \o b, 1, Len(a))[i] = a[i]
  <2>1. \A i \in 1 .. Len(a) : (a \o b)[i] \in S
    BY <1>3
  <2>2. 1 \in Int /\ Len(a) \in Int
    BY <1>2
  <2>3. /\ SubSeq(a \o b, 1, Len(a)) \in Seq(S)
        /\ Len(SubSeq(a \o b, 1, Len(a))) = IF 1 <= Len(a) THEN Len(a) - 1 + 1 ELSE 0
        /\ \A i \in 1 .. Len(a) - 1 + 1 : SubSeq(a \o b, 1, Len(a))[i] = (a \o b)[1 + i - 1]
    BY <2>1, <2>2, SubSeqProperties
  <2> QED
    BY <1>2, <1>3, <2>3
<1>5. SubSeq(a \o b, 1, Len(a)) = a
  BY <1>4, SeqEqual
<1>6. ASSUME NEW x PROVE x \in {(a \o b)[i] : i \in Len(a) + 1 .. Len(a \o b)} <=> x \in ToSet(b)
  <2>1. ASSUME NEW i \in Len(a) + 1 .. Len(a) + Len(b), x = (a \o b)[i] PROVE x \in ToSet(b)
    <3>1. i \in 1 .. Len(a) + Len(b) /\ ~(i <= Len(a)) /\ i - Len(a) \in 1 .. Len(b)
      BY <1>2
    <3> QED
      BY <1>1, <1>2, <2>1, <3>1 DEF ToSet
  <2>2. ASSUME NEW j \in 1 .. Len(b), x = b[j]
        PROVE  \E i \in Len(a) + 1 .. Len(a) + Len(b) : x = (a \o b)[i]
    <3>1. /\ j + Len(a) \in Len(a) + 1 .. Len(a) + Len(b) /\ j + Len(a) \in 1 .. Len(a) + Len(b)
          /\ ~(j + Len(a) <= Len(a)) /\ (j + Len(a)) - Len(a) = j
      BY <1>2
    <3> QED
      BY <1>1, <2>2, <3>1
  <2> QED
    BY <1>1, <1>2, <2>1, <2>2 DEF ToSet
<1> QED
  BY <1>5, <1>6


\* A sequence behind another one may be cut.
LEMMA CutBehind ==
  ASSUME NEW S, NEW g \in Seq(S), NEW a \in Seq(S), NEW b \in Seq(S), NEW w, w = a \o b
  PROVE  g \o w = (g \o a) \o b
BY ConcatAssociative

\* A sequence cut after its first n elements.
LEMMA CutAfter ==
  ASSUME NEW S, NEW w \in Seq(S), NEW n \in 0 .. Len(w)
  PROVE  /\ SubSeq(w, 1, n) \in Seq(S) /\ SubSeq(w, n + 1, Len(w)) \in Seq(S)
         /\ w = SubSeq(w, 1, n) \o SubSeq(w, n + 1, Len(w))
         /\ {w[i] : i \in n + 1 .. Len(w)} = ToSet(SubSeq(w, n + 1, Len(w)))
<1> DEFINE a == SubSeq(w, 1, n)
           b == SubSeq(w, n + 1, Len(w))
<1>1. Len(w) \in Nat /\ \A i \in 1 .. Len(w) : w[i] \in S
  BY LenProperties, ElementOfSeq
<1>2. a \in Seq(S) /\ Len(a) = n
  <2>1. \A i \in 1 .. n : w[i] \in S
    BY <1>1
  <2>2. a \in Seq(S) /\ Len(a) = IF 1 <= n THEN n - 1 + 1 ELSE 0
    BY <1>1, <2>1, SubSeqProperties
  <2> QED
    BY <1>1, <2>2
<1>3. b \in Seq(S)
  <2>1. \A i \in n + 1 .. Len(w) : w[i] \in S
    BY <1>1
  <2> QED
    BY <1>1, <2>1, SubSeqProperties
<1>4. w = a \o b
  <2>1. SubSeq(w, 1, Len(w)) = w
    BY SubSeqFull
  <2>2. 1 \in 1 .. Len(w) + 1 /\ n \in 1 - 1 .. Len(w) /\ Len(w) \in n .. Len(w)
    BY <1>1
  <2>3. SubSeq(w, 1, n) \o SubSeq(w, n + 1, Len(w)) = SubSeq(w, 1, Len(w))
    BY <2>2, ConcatAdjacentSubSeq
  <2> QED
    BY <2>1, <2>3
<1> HIDE DEF a, b
<1>5. {(a \o b)[i] : i \in Len(a) + 1 .. Len(a \o b)} = ToSet(b)
  BY <1>2, <1>3, ElementsAfter
<1>7. {w[i] : i \in n + 1 .. Len(w)} = ToSet(b)
  BY <1>2, <1>4, <1>5
<1> QED
  BY <1>2, <1>3, <1>4, <1>7 DEF a, b

-----------------------------------------------------------------------------
(* MessagePath: a direction is a channel                                    *)

Packets == Senders \X Nat

\* The type of the variables, the capacities left aside.
PathTypes ==
  /\ created \subseteq Inboxes
  /\ opened \in [Processes -> -1 .. Len(OpeningOrder)]
  /\ handle \in [Processes -> [Inboxes -> {"none", "read", "both"}]]
  /\ inbox \in [Inboxes -> Seq(Packets)] /\ delivered \in [Inboxes -> Seq(Packets)]
  /\ internal \in [Senders -> Seq(Nat)]
  /\ making \in [Senders -> Nat \cup {Nothing}] /\ hand \in [Senders -> Nat \cup {Nothing}]
  /\ produced \in [Senders -> Nat] /\ lost \in [Senders -> SUBSET Nat]
  /\ crashes \in 0 .. MaxCrashes

\* Both queues keep to their capacities, and nobody produces beyond the bound.
WithinCapacities ==
  /\ \A q \in Inboxes : Len(inbox[q]) <= InboxCapacity
  /\ \A s \in Senders : /\ Len(internal[s]) <= InternalCapacity
                        /\ produced[s] <= MaxPackets[s]

\* Nobody has a handle on a queue that does not exist, and at most one process
\* has one without the right to send.
OneCreator ==
  \A q \in Inboxes :
    /\ q \notin created => \A p \in Processes : handle[p][q] = "none"
    /\ \A p, r \in Processes : handle[p][q] = "read" /\ handle[r][q] = "read" => p = r

\* What the path of a sender keeps: its order, and that it and what is lost are
\* what was produced.
PathInOrder ==
  \A s \in Senders : \A i, j \in 1 .. Len(Path(s)) : i < j => Path(s)[i] < Path(s)[j]

PathAccounted ==
  \A s \in Senders : 1 .. produced[s] = ToSet(Path(s)) \cup lost[s]

\* The inductive invariant of MessagePath.
PathInv == PathTypes /\ WithinCapacities /\ OneCreator /\ PathInOrder /\ PathAccounted

\* The sender at the other end of a queue is another one, and no sender's
\* packets go to the database but as copies.
LEMMA Peers ==
  ASSUME NEW s \in Senders
  PROVE  /\ Peer(s) \in Senders /\ Peer(s) \in Inboxes /\ Peer(s) # Database
         /\ \A t \in Senders : Peer(s) = Peer(t) => s = t
         /\ s \in Inboxes /\ s \in Processes /\ s # Database
BY MessagePathAssumption DEF Senders, Peer, Inboxes, Processes

LEMMA NumbersOf ==
  ASSUME NEW q \in Seq(Packets)
  PROVE  /\ Numbers(q) \in Seq(Nat) /\ Len(Numbers(q)) = Len(q)
         /\ \A i \in 1 .. Len(q) : Numbers(q)[i] = q[i][2]
<1>1. DOMAIN q = 1 .. Len(q) /\ Len(q) \in Nat
  BY LenProperties
<1>2. \A i \in 1 .. Len(q) : q[i] \in Packets
  BY ElementOfSeq
<1>3. \A i \in 1 .. Len(q) : q[i][2] \in Nat
  BY <1>2 DEF Packets
<1>4. Numbers(q) = [i \in 1 .. Len(q) |-> q[i][2]]
  BY <1>1 DEF Numbers
<1>5. Numbers(q) \in [1 .. Len(q) -> Nat]
  BY <1>3, <1>4
<1> QED
  BY <1>1, <1>4, <1>5

\* A packet that is appended appends its number.
LEMMA NumbersAppend ==
  ASSUME NEW q \in Seq(Packets), NEW packet \in Packets
  PROVE  Numbers(Append(q, packet)) = Append(Numbers(q), packet[2])
<1> DEFINE a == Append(q, packet)
<1>1. /\ a \in Seq(Packets) /\ Len(a) = Len(q) + 1 /\ a[Len(q) + 1] = packet
      /\ \A i \in 1 .. Len(q) : a[i] = q[i]
  BY AppendProperties
<1> HIDE DEF a
<1>2. packet[2] \in Nat /\ Len(q) \in Nat
  BY LenProperties DEF Packets
<1>3. /\ Numbers(q) \in Seq(Nat) /\ Len(Numbers(q)) = Len(q)
      /\ \A i \in 1 .. Len(q) : Numbers(q)[i] = q[i][2]
  BY NumbersOf
<1>4. /\ Numbers(a) \in Seq(Nat) /\ Len(Numbers(a)) = Len(q) + 1
      /\ \A i \in 1 .. Len(q) + 1 : Numbers(a)[i] = a[i][2]
  BY <1>1, NumbersOf
<1> DEFINE b == Append(Numbers(q), packet[2])
<1>5. /\ b \in Seq(Nat) /\ Len(b) = Len(q) + 1 /\ b[Len(q) + 1] = packet[2]
      /\ \A i \in 1 .. Len(q) : b[i] = q[i][2]
  BY <1>2, <1>3, AppendProperties
<1> HIDE DEF b
<1>6. ASSUME NEW i \in 1 .. Len(q) + 1 PROVE Numbers(a)[i] = b[i]
  <2>1. Numbers(a)[i] = a[i][2]
    BY <1>4
  <2>2. CASE i = Len(q) + 1
    BY <1>1, <1>5, <2>1, <2>2
  <2>3. CASE i # Len(q) + 1
    <3>1. i \in 1 .. Len(q)
      BY <1>2, <2>3
    <3> QED
      BY <1>1, <1>5, <2>1, <3>1
  <2> QED
    BY <2>2, <2>3
<1>7. Numbers(a) = b
  BY <1>4, <1>5, <1>6, SeqEqual
<1> QED
  BY <1>7 DEF a, b

\* The first packet has the first number.
LEMMA NumbersTail ==
  ASSUME NEW q \in Seq(Packets), q # <<>>
  PROVE  /\ Numbers(q) # <<>> /\ Head(q) \in Packets /\ Tail(q) \in Seq(Packets)
         /\ Head(Numbers(q)) = Head(q)[2] /\ Numbers(Tail(q)) = Tail(Numbers(q))
<1> DEFINE t == Tail(q)
           n == Numbers(q)
<1>1. /\ Head(q) \in Packets /\ t \in Seq(Packets) /\ Len(t) = Len(q) - 1
      /\ \A i \in 1 .. Len(t) : t[i] = q[i + 1]
  BY HeadTailProperties
<1>2. Head(q) = q[1] /\ Len(q) \in Nat \ {0}
  BY EmptySeq
<1>3. /\ n \in Seq(Nat) /\ Len(n) = Len(q)
      /\ \A i \in 1 .. Len(q) : n[i] = q[i][2]
  BY NumbersOf
<1> HIDE DEF t, n
<1>4. n # <<>> /\ Head(n) = q[1][2]
  BY <1>2, <1>3, EmptySeq
<1>5. /\ Tail(n) \in Seq(Nat) /\ Len(Tail(n)) = Len(n) - 1
      /\ \A i \in 1 .. Len(Tail(n)) : Tail(n)[i] = n[i + 1]
  BY <1>3, <1>4, HeadTailProperties
<1>6. /\ Numbers(t) \in Seq(Nat) /\ Len(Numbers(t)) = Len(t)
      /\ \A i \in 1 .. Len(t) : Numbers(t)[i] = t[i][2]
  BY <1>1, NumbersOf
<1>7. ASSUME NEW i \in 1 .. Len(t) PROVE Numbers(t)[i] = Tail(n)[i]
  <2>1. i + 1 \in 1 .. Len(q) /\ i \in 1 .. Len(Tail(n))
    BY <1>1, <1>2, <1>3, <1>5
  <2> QED
    BY <1>1, <1>3, <1>5, <1>6, <2>1
<1>8. Numbers(t) = Tail(n)
  BY <1>1, <1>3, <1>5, <1>6, <1>7, SeqEqual
<1> QED
  BY <1>1, <1>2, <1>4, <1>8 DEF t, n

\* The pieces of a path are sequences of numbers.
LEMMA Pieces ==
  ASSUME PathTypes, NEW s \in Senders
  PROVE  /\ inbox[Peer(s)] \in Seq(Packets) /\ delivered[Peer(s)] \in Seq(Packets)
         /\ Numbers(inbox[Peer(s)]) \in Seq(Nat) /\ Got(s) \in Seq(Nat)
         /\ One(hand[s]) \in Seq(Nat) /\ internal[s] \in Seq(Nat) /\ One(making[s]) \in Seq(Nat)
         /\ internal[s] \o One(making[s]) \in Seq(Nat)
         /\ One(hand[s]) \o (internal[s] \o One(making[s])) \in Seq(Nat)
         /\ Way(s) \in Seq(Nat) /\ Path(s) \in Seq(Nat)
<1>1. inbox[Peer(s)] \in Seq(Packets) /\ delivered[Peer(s)] \in Seq(Packets)
  BY Peers DEF PathTypes
<1>2. Numbers(inbox[Peer(s)]) \in Seq(Nat) /\ Got(s) \in Seq(Nat)
  BY <1>1, NumbersOf DEF Got
<1>3. One(hand[s]) \in Seq(Nat) /\ internal[s] \in Seq(Nat) /\ One(making[s]) \in Seq(Nat)
  BY DEF PathTypes, One
<1>4. internal[s] \o One(making[s]) \in Seq(Nat)
  BY <1>3, ConcatProperties
<1>5. One(hand[s]) \o (internal[s] \o One(making[s])) \in Seq(Nat)
  BY <1>3, <1>4, ConcatProperties
<1>6. Way(s) \in Seq(Nat)
  BY <1>2, <1>5, ConcatProperties DEF Way
<1>7. Path(s) \in Seq(Nat)
  BY <1>2, <1>6, ConcatProperties DEF Path
<1> QED
  BY <1>1, <1>2, <1>3, <1>4, <1>5, <1>6, <1>7

\* The steps of the channel, for the packets of sender s.
PutStep(s) ==
  /\ produced'[s] = produced[s] + 1 /\ Way(s)' = Append(Way(s), produced[s] + 1)
  /\ Got(s)' = Got(s) /\ lost'[s] = lost[s]

LoseStep(s, n) ==
  /\ Way(s)' = SubSeq(Way(s), 1, n)
  /\ lost'[s] = lost[s] \cup {Way(s)[i] : i \in n + 1 .. Len(Way(s))}
  /\ produced'[s] = produced[s] /\ Got(s)' = Got(s)

DeliverStep(s) ==
  /\ Way(s) # <<>>
  /\ Got(s)' = Append(Got(s), Head(Way(s))) /\ Way(s)' = Tail(Way(s))
  /\ produced'[s] = produced[s] /\ lost'[s] = lost[s]

SameStep(s) ==
  /\ Way(s)' = Way(s) /\ Got(s)' = Got(s)
  /\ produced'[s] = produced[s] /\ lost'[s] = lost[s]

ChannelStep(s) ==
  \/ PutStep(s) \/ DeliverStep(s) \/ SameStep(s)
  \/ \E n \in 0 .. Len(Way(s)) - 1 : LoseStep(s, n)

\* A step that touches none of a path's pieces leaves the path as it is.
LEMMA Untouched ==
  ASSUME NEW s,
         inbox'[Peer(s)] = inbox[Peer(s)], delivered'[Peer(s)] = delivered[Peer(s)],
         internal'[s] = internal[s], hand'[s] = hand[s], making'[s] = making[s],
         produced'[s] = produced[s], lost'[s] = lost[s]
  PROVE  ChannelStep(s)
BY DEF ChannelStep, SameStep, Way, Got, Peer

LEMMA CopyOnChannel ==
  ASSUME PathTypes, NEW t \in Senders, Copy(t), NEW s \in Senders
  PROVE  ChannelStep(s)
<1>1. Peer(s) # Database
  BY Peers
<1>2. inbox'[Peer(s)] = inbox[Peer(s)]
  BY <1>1, Peers DEF Copy, PathTypes
<1>3. CASE s # t
  <2>1. making'[s] = making[s] /\ produced'[s] = produced[s]
    BY <1>3 DEF Copy, PathTypes
  <2> QED
    BY <1>2, <2>1, Untouched DEF Copy
<1>4. CASE s = t
  <2> DEFINE n == produced[s] + 1
  <2>1. /\ making[s] = Nothing /\ making'[s] = n /\ produced'[s] = n /\ n \in Nat
        /\ hand' = hand /\ internal' = internal /\ lost' = lost /\ delivered' = delivered
    BY <1>4 DEF Copy, PathTypes
  <2>2. One(making[s]) = <<>> /\ One(making'[s]) = <<n>>
    BY <2>1, MessagePathAssumption DEF One
  <2>3. internal[s] \o <<n>> = Append(internal[s], n) /\ internal[s] \o <<>> = internal[s]
    BY <2>1, Pieces, AppendIsConcat, ConcatEmptySeq
  <2> DEFINE A == Numbers(inbox[Peer(s)])
             B == One(hand[s])
             I == internal[s]
  <2>7. Way(s) = A \o (B \o I)
    BY <2>2, <2>3 DEF Way
  <2>8. Way(s)' = A \o (B \o Append(I, n))
    BY <1>2, <2>1, <2>2, <2>3 DEF Way, Peer
  <2>11. A \in Seq(Nat) /\ B \in Seq(Nat) /\ I \in Seq(Nat) /\ n \in Nat
    BY <2>1, Pieces
  <2> HIDE DEF n, A, B, I
  <2>4. B \o Append(I, n) = Append(B \o I, n)
    BY <2>11, AppendToConcat
  <2>5. B \o I \in Seq(Nat)
    BY <2>11, ConcatProperties
  <2>6. A \o Append(B \o I, n) = Append(A \o (B \o I), n)
    BY <2>5, <2>11, AppendToConcat
  <2>9. Way(s)' = Append(Way(s), n)
    BY <2>4, <2>6, <2>7, <2>8
  <2>10. Got(s)' = Got(s)
    BY <2>1 DEF Got, Peer
  <2> QED
    BY <2>1, <2>9, <2>10 DEF ChannelStep, PutStep, n
<1> QED
  BY <1>3, <1>4

LEMMA EnqueueOnChannel ==
  ASSUME PathTypes, NEW t \in Senders, Enqueue(t), NEW s \in Senders
  PROVE  ChannelStep(s)
<1>1. /\ inbox' = inbox /\ hand' = hand /\ produced' = produced /\ delivered' = delivered
  BY DEF Enqueue
<1>2. CASE s # t
  <2>1. making'[s] = making[s] /\ internal'[s] = internal[s] /\ lost'[s] = lost[s]
    BY <1>2 DEF Enqueue, PathTypes
  <2> QED
    BY <1>1, <2>1, Untouched
<1>3. CASE s = t
  <2> DEFINE n == making[s]
             A == Numbers(inbox[Peer(s)])
             B == One(hand[s])
  <2>1. n \in Nat /\ n # Nothing /\ making'[s] = Nothing
    BY <1>3 DEF Enqueue, PathTypes
  <2>2. One(making[s]) = <<n>> /\ One(making'[s]) = <<>>
    BY <2>1 DEF One
  <2>3. A \in Seq(Nat) /\ B \in Seq(Nat) /\ internal[s] \in Seq(Nat)
    BY Pieces
  <2>4. internal[s] \o <<n>> = Append(internal[s], n)
    BY <2>1, <2>3, AppendIsConcat
  <2>5. Got(s)' = Got(s)
    BY <1>1 DEF Got, Peer
  <2>6. Way(s)' = A \o (B \o (internal'[s] \o <<>>))
    BY <1>1, <2>2 DEF Way, Peer
  <2>7. Way(s) = A \o (B \o Append(internal[s], n))
    BY <2>2, <2>4 DEF Way
  <2> HIDE DEF n, A, B
  <2>8. CASE Len(internal[t]) < InternalCapacity
    <3>1. internal'[s] = Append(internal[s], n) /\ lost'[s] = lost[s]
      BY <1>3, <2>8 DEF Enqueue, PathTypes, n
    <3>2. internal'[s] \o <<>> = internal'[s]
      BY <2>1, <2>3, <3>1, AppendProperties, ConcatEmptySeq
    <3> QED
      BY <1>1, <2>5, <2>6, <2>7, <3>1, <3>2 DEF ChannelStep, SameStep
  <2>9. CASE ~(Len(internal[t]) < InternalCapacity)
    <3>1. internal'[s] = internal[s] /\ lost'[s] = lost[s] \cup {n}
      BY <1>3, <2>9 DEF Enqueue, PathTypes, n
    <3>2. internal'[s] \o <<>> = internal[s]
      BY <2>3, <3>1, ConcatEmptySeq
    <3> DEFINE X == A \o (B \o internal[s])
    <3>3. B \o internal[s] \in Seq(Nat) /\ X \in Seq(Nat)
      BY <2>3, ConcatProperties
    <3>n. n \in Nat
      BY <2>1
    <3>4. B \o Append(internal[s], n) = Append(B \o internal[s], n)
      BY <2>3, <3>n, NumberToConcat
    <3>5. A \o Append(B \o internal[s], n) = Append(X, n)
      BY <2>3, <3>3, <3>n, NumberToConcat
    <3> HIDE DEF X
    <3>6. Append(X, n) = X \o <<n>> /\ <<n>> \in Seq(Nat) /\ Len(X) \in Nat
          /\ Len(Append(X, n)) = Len(X) + 1
      BY <2>1, <3>3, AppendIsConcat, AppendProperties
    <3>7. Way(s) = X \o <<n>> /\ Way(s)' = X
      BY <2>6, <2>7, <3>2, <3>4, <3>5, <3>6 DEF X
    <3>8. ToSet(<<n>>) = {n}
      BY DEF ToSet
    <3>9. /\ SubSeq(Way(s), 1, Len(X)) = X
          /\ {Way(s)[i] : i \in Len(X) + 1 .. Len(Way(s))} = {n}
      BY <3>3, <3>6, <3>7, <3>8, ElementsAfter
    <3>10. LoseStep(s, Len(X))
      BY <1>1, <2>5, <3>1, <3>7, <3>9 DEF LoseStep
    <3>11. Len(X) \in 0 .. Len(Way(s)) - 1
      BY <3>6, <3>7
    <3> QED
      BY <3>10, <3>11 DEF ChannelStep
  <2> QED
    BY <2>8, <2>9
<1> QED
  BY <1>2, <1>3

LEMMA TakeOutOnChannel ==
  ASSUME PathTypes, NEW t \in Senders, TakeOut(t), NEW s \in Senders
  PROVE  ChannelStep(s)
<1>1. /\ inbox' = inbox /\ making' = making /\ produced' = produced /\ lost' = lost
      /\ delivered' = delivered
  BY DEF TakeOut
<1>2. CASE s # t
  <2>1. hand'[s] = hand[s] /\ internal'[s] = internal[s]
    BY <1>2 DEF TakeOut, PathTypes
  <2> QED
    BY <1>1, <2>1, Untouched
<1>3. CASE s = t
  <2>1. /\ internal[s] \in Seq(Nat) /\ One(making[s]) \in Seq(Nat) /\ internal[s] # <<>>
        /\ internal'[s] = Tail(internal[s]) /\ hand[s] = Nothing /\ hand'[s] = Head(internal[s])
    BY <1>3, Pieces DEF TakeOut, PathTypes
  <2>2. Head(internal[s]) \in Nat /\ Tail(internal[s]) \in Seq(Nat)
    BY <2>1, HeadTailProperties
  <2>3. One(hand[s]) = <<>> /\ One(hand'[s]) = <<Head(internal[s])>>
    BY <2>1, <2>2, MessagePathAssumption DEF One
  <2> DEFINE h == Head(internal[s])
             r == Tail(internal[s])
             m == One(making[s])
  <2>4. Append(<<>>, h) \o r = <<>> \o internal[s]
    BY <2>1, EmptySeq, HeadMovesOver
  <2>5. Append(<<>>, h) = <<>> \o <<h>> /\ <<>> \o <<h>> = <<h>> /\ <<h>> \in Seq(Nat)
    BY <2>2, EmptySeq, AppendIsConcat, ConcatEmptySeq
  <2>6. <<>> \o internal[s] = internal[s]
    BY <2>1, ConcatEmptySeq
  <2>7. <<h>> \o r = internal[s]
    BY <2>4, <2>5, <2>6
  <2>12. r \in Seq(Nat) /\ m \in Seq(Nat)
    BY <2>1, <2>2
  <2>8. <<h>> \o (r \o m) = internal[s] \o m
    <3>1. <<h>> \in Seq(Nat)
      BY <2>5
    <3> HIDE DEF h, r, m
    <3>2. (<<h>> \o r) \o m = <<h>> \o (r \o m)
      BY <3>1, <2>12, ConcatAssociative
    <3> QED
      BY <2>7, <3>2
  <2>9. <<>> \o (internal[s] \o m) = internal[s] \o m
    BY Pieces, ConcatEmptySeq
  <2>10. Way(s)' = Way(s)
    BY <1>1, <2>1, <2>3, <2>8, <2>9 DEF Way, Peer
  <2>11. Got(s)' = Got(s)
    BY <1>1 DEF Got, Peer
  <2> QED
    BY <1>1, <2>10, <2>11 DEF ChannelStep, SameStep
<1> QED
  BY <1>2, <1>3

LEMMA SendOnChannel ==
  ASSUME PathTypes, NEW t \in Senders, Send(t), NEW s \in Senders
  PROVE  ChannelStep(s)
<1>1. /\ internal' = internal /\ making' = making /\ produced' = produced /\ lost' = lost
      /\ delivered' = delivered
  BY DEF Send
<1>2. CASE s # t
  <2>1. hand'[s] = hand[s]
    BY <1>2 DEF Send, PathTypes
  <2>2. inbox'[Peer(s)] = inbox[Peer(s)]
    BY <1>2, Peers DEF Send, PathTypes
  <2> QED
    BY <1>1, <2>1, <2>2, Untouched
<1>3. CASE s = t
  <2> DEFINE h == hand[s]
             b == inbox[Peer(s)]
             a == Numbers(b)
             r == internal[s] \o One(making[s])
  <2>1. /\ h # Nothing /\ h \in Nat /\ hand'[s] = Nothing
        /\ inbox'[Peer(s)] = Append(b, <<s, h>>)
    BY <1>3, Peers DEF Send, PathTypes
  <2>2. One(h) = <<h>> /\ One(hand'[s]) = <<>>
    BY <2>1 DEF One
  <2>3. b \in Seq(Packets) /\ a \in Seq(Nat) /\ r \in Seq(Nat)
    BY Pieces
  <2>4. <<s, h>> \in Packets /\ <<s, h>>[2] = h
    BY <2>1 DEF Packets
  <2>5. Numbers(inbox'[Peer(s)]) = Append(a, h)
    BY <2>1, <2>3, <2>4, NumbersAppend
  <2>6. Way(s) = a \o (<<h>> \o r)
    BY <2>2 DEF Way
  <2>7. Way(s)' = Append(a, h) \o (<<>> \o r)
    BY <1>1, <2>2, <2>5 DEF Way, Peer
  <2>8. Got(s)' = Got(s)
    BY <1>1 DEF Got, Peer
  <2> HIDE DEF h, b, a, r
  <2>9. <<>> \o r = r
    BY <2>3, ConcatEmptySeq
  <2>10. Append(a, h) = a \o <<h>> /\ <<h>> \in Seq(Nat)
    BY <2>1, <2>3, AppendIsConcat
  <2>11. (a \o <<h>>) \o r = a \o (<<h>> \o r)
    BY <2>3, <2>10, ConcatAssociative
  <2>12. Way(s)' = Way(s)
    BY <2>6, <2>7, <2>9, <2>10, <2>11
  <2> QED
    BY <1>1, <2>8, <2>12 DEF ChannelStep, SameStep
<1> QED
  BY <1>2, <1>3

LEMMA TakeInOnChannel ==
  ASSUME PathTypes, NEW q \in Inboxes, TakeIn(q), NEW s \in Senders
  PROVE  ChannelStep(s)
<1>1. /\ internal' = internal /\ making' = making /\ hand' = hand /\ produced' = produced
      /\ lost' = lost
  BY DEF TakeIn, senderVars
<1>2. CASE q # Peer(s)
  <2>1. inbox'[Peer(s)] = inbox[Peer(s)] /\ delivered'[Peer(s)] = delivered[Peer(s)]
    BY <1>2, Peers DEF TakeIn, PathTypes
  <2> QED
    BY <1>1, <2>1, Untouched
<1>3. CASE q = Peer(s)
  <2> DEFINE b == inbox[Peer(s)]
             d == delivered[Peer(s)]
             r == One(hand[s]) \o (internal[s] \o One(making[s]))
  <2>1. /\ b # <<>> /\ inbox'[Peer(s)] = Tail(b) /\ delivered'[Peer(s)] = Append(d, Head(b))
    BY <1>3 DEF TakeIn, PathTypes
  <2>2. b \in Seq(Packets) /\ d \in Seq(Packets) /\ r \in Seq(Nat) /\ Numbers(b) \in Seq(Nat)
    BY Pieces
  <2>3. /\ Numbers(b) # <<>> /\ Head(b) \in Packets
        /\ Head(Numbers(b)) = Head(b)[2] /\ Numbers(Tail(b)) = Tail(Numbers(b))
    BY <2>1, <2>2, NumbersTail
  <2>4. Numbers(Append(d, Head(b))) = Append(Numbers(d), Head(b)[2])
    BY <2>2, <2>3, NumbersAppend
  <2>5. Way(s) = Numbers(b) \o r /\ Got(s) = Numbers(d)
    BY DEF Way, Got
  <2>6. Way(s)' = Tail(Numbers(b)) \o r
    BY <1>1, <2>1, <2>3 DEF Way, Peer
  <2>7. Got(s)' = Append(Numbers(d), Head(Numbers(b)))
    BY <2>1, <2>3, <2>4 DEF Got, Peer
  <2> HIDE DEF b, d, r
  <2>8. /\ Numbers(b) \o r # <<>> /\ Head(Numbers(b) \o r) = Head(Numbers(b))
        /\ Tail(Numbers(b) \o r) = Tail(Numbers(b)) \o r
    BY <2>2, <2>3, HeadTailOfConcat
  <2> QED
    BY <1>1, <2>5, <2>6, <2>7, <2>8 DEF ChannelStep, DeliverStep
<1> QED
  BY <1>2, <1>3

\* What a sender holds are the packets of its path that are not in the inbox.
LEMMA HeldIsOnTheWay ==
  ASSUME PathTypes, NEW s \in Senders
  PROVE  ToSet(One(hand[s]) \o (internal[s] \o One(making[s]))) = Held(s)
<1> DEFINE h == One(hand[s])
           i == internal[s]
           m == One(making[s])
<1>1. h \in Seq(Nat) /\ i \in Seq(Nat) /\ m \in Seq(Nat) /\ i \o m \in Seq(Nat)
  BY Pieces
<1>2. ToSet(h) = {hand[s]} \ {Nothing} /\ ToSet(m) = {making[s]} \ {Nothing}
  BY DEF One, ToSet
<1>3. Held(s) = ToSet(i) \cup (ToSet(h) \cup ToSet(m))
  BY <1>2 DEF Held
<1> HIDE DEF h, i, m
<1>4. ToSet(i \o m) = ToSet(i) \cup ToSet(m)
  BY <1>1, ElementsOfConcat
<1>5. ToSet(h \o (i \o m)) = ToSet(h) \cup ToSet(i \o m)
  <2> DEFINE r == i \o m
  <2>1. r \in Seq(Nat)
    BY <1>1
  <2> HIDE DEF r
  <2>2. ToSet(h \o r) = ToSet(h) \cup ToSet(r)
    BY <1>1, <2>1, ElementsOfConcat
  <2> QED
    BY <2>2 DEF r
<1>6. ToSet(h \o (i \o m)) = Held(s)
  BY <1>3, <1>4, <1>5
<1> QED
  BY <1>6 DEF h, i, m

LEMMA CrashOnChannel ==
  ASSUME PathTypes, NEW p \in Processes, Crash(p), NEW s \in Senders
  PROVE  ChannelStep(s)
<1>1. inbox' = inbox /\ produced' = produced /\ delivered' = delivered
  BY DEF Crash
<1>2. CASE s # p
  <2>1. hand'[s] = hand[s] /\ internal'[s] = internal[s] /\ making'[s] = making[s]
        /\ lost'[s] = lost[s]
    BY <1>2 DEF Crash, PathTypes
  <2> QED
    BY <1>1, <2>1, Untouched
<1>3. CASE s = p
  <2> DEFINE a == Numbers(inbox[Peer(s)])
             r == One(hand[s]) \o (internal[s] \o One(making[s]))
  <2>1. /\ hand'[s] = Nothing /\ internal'[s] = <<>> /\ making'[s] = Nothing
        /\ lost'[s] = lost[s] \cup Held(s)
    BY <1>3 DEF Crash, PathTypes
  <2>2. One(hand'[s]) = <<>> /\ One(making'[s]) = <<>>
    BY <2>1 DEF One
  <2>3. a \in Seq(Nat) /\ r \in Seq(Nat)
    BY Pieces
  <2>4. Way(s) = a \o r
    BY DEF Way
  <2>5. Way(s)' = a \o (<<>> \o (<<>> \o <<>>))
    BY <1>1, <2>1, <2>2 DEF Way, Peer
  <2>6. Got(s)' = Got(s)
    BY <1>1 DEF Got, Peer
  <2>7. ToSet(r) = Held(s)
    BY HeldIsOnTheWay
  <2> HIDE DEF a, r
  <2>8. Way(s)' = a
    <3>1. <<>> \o <<>> = <<>>
      BY EmptySeq, ConcatEmptySeq
    <3>2. a \o <<>> = a
      BY <2>3, ConcatEmptySeq
    <3> QED
      BY <2>5, <3>1, <3>2
  <2>9. /\ SubSeq(Way(s), 1, Len(a)) = a
        /\ {Way(s)[i] : i \in Len(a) + 1 .. Len(Way(s))} = Held(s)
    <3>1. /\ SubSeq(a \o r, 1, Len(a)) = a
          /\ {(a \o r)[i] : i \in Len(a) + 1 .. Len(a \o r)} = ToSet(r)
      BY <2>3, ElementsAfter
    <3> QED
      BY <2>4, <2>7, <3>1
  <2>10. Len(Way(s)) = Len(a) + Len(r) /\ Len(a) \in Nat /\ Len(r) \in Nat
    BY <2>3, <2>4, ConcatProperties
  <2>11. CASE r = <<>>
    <3>1. Held(s) = {} /\ a \o r = a
      BY <2>3, <2>7, <2>11, ConcatEmptySeq DEF ToSet
    <3> QED
      BY <1>1, <2>1, <2>4, <2>6, <2>8, <3>1 DEF ChannelStep, SameStep
  <2>12. CASE r # <<>>
    <3>1. Len(a) \in 0 .. Len(Way(s)) - 1
      BY <2>3, <2>10, <2>12, EmptySeq
    <3>2. LoseStep(s, Len(a))
      BY <1>1, <2>1, <2>6, <2>8, <2>9 DEF LoseStep
    <3> QED
      BY <3>1, <3>2 DEF ChannelStep
  <2> QED
    BY <2>11, <2>12
<1> QED
  BY <1>2, <1>3

\* Whatever happens in the hub, in each direction it is a step of the channel
\* or none.
LEMMA EveryStepOnChannel ==
  ASSUME PathTypes, [PathNext]_pathVars, NEW s \in Senders
  PROVE  ChannelStep(s)
<1>1. CASE UNCHANGED pathVars
  BY <1>1, Untouched DEF pathVars, senderVars
<1>2. ASSUME NEW p \in Processes, OpenQueue(p) \/ Relaunch(p) PROVE ChannelStep(s)
  BY <1>2, Untouched DEF OpenQueue, Relaunch, senderVars
<1>3. ASSUME NEW p \in Processes, Crash(p) PROVE ChannelStep(s)
  BY <1>3, CrashOnChannel
<1>4. ASSUME NEW t \in Senders, Copy(t) \/ Enqueue(t) \/ TakeOut(t) \/ Send(t)
      PROVE  ChannelStep(s)
  BY <1>4, CopyOnChannel, EnqueueOnChannel, TakeOutOnChannel, SendOnChannel
<1>5. ASSUME NEW q \in Inboxes, TakeIn(q) PROVE ChannelStep(s)
  BY <1>5, TakeInOnChannel
<1> QED
  BY <1>1, <1>2, <1>3, <1>4, <1>5 DEF PathNext, Process, Output

-----------------------------------------------------------------------------
(* MessagePath: its invariant                                               *)

LEMMA EmptyAtFirst ==
  ASSUME PathInit, NEW s \in Senders
  PROVE  Way(s) = <<>> /\ Got(s) = <<>> /\ Path(s) = <<>> /\ produced[s] = 0 /\ lost[s] = {}
<1>1. /\ inbox[Peer(s)] = <<>> /\ delivered[Peer(s)] = <<>> /\ internal[s] = <<>>
      /\ hand[s] = Nothing /\ making[s] = Nothing /\ produced[s] = 0 /\ lost[s] = {}
  BY Peers DEF PathInit
<1>2. <<>> \in Seq(Packets) /\ Len(<<>>) = 0
  BY EmptySeq
<1>3. Numbers(<<>>) \in Seq(Nat) /\ Len(Numbers(<<>>)) = 0
  BY <1>2, NumbersOf
<1>4. Numbers(<<>>) = <<>>
  BY <1>3, EmptySeq
<1>5. <<>> \o <<>> = <<>>
  BY EmptySeq, ConcatEmptySeq
<1> QED
  BY <1>1, <1>4, <1>5 DEF Way, Got, Path, One

LEMMA InitPathInv == PathInit => PathInv
<1> SUFFICES ASSUME PathInit PROVE PathInv
  OBVIOUS
<1>1. PathTypes
  <2>1. <<>> \in Seq(Packets) /\ <<>> \in Seq(Nat)
    BY EmptySeq
  <2> QED
    BY <2>1, MessagePathAssumption DEF PathTypes, PathInit, OpeningOrder
<1>2. WithinCapacities
  BY MessagePathAssumption, Peers DEF WithinCapacities, PathInit, Senders
<1>3. OneCreator
  BY DEF OneCreator, PathInit
<1>4. PathInOrder
  BY EmptyAtFirst, EmptySeq DEF PathInOrder
<1>5. PathAccounted
  BY EmptyAtFirst DEF PathAccounted, ToSet
<1> QED
  BY <1>1, <1>2, <1>3, <1>4, <1>5 DEF PathInv

\* The types of the variables are kept by every step.
LEMMA PathTypesStep == PathTypes /\ [PathNext]_pathVars => PathTypes'
<1> SUFFICES ASSUME PathTypes, [PathNext]_pathVars PROVE PathTypes'
  OBVIOUS
<1> USE DEF PathTypes
<1>1. CASE UNCHANGED pathVars
  BY <1>1 DEF pathVars, processVars, senderVars
<1>2. ASSUME NEW p \in Processes, OpenQueue(p) PROVE PathTypes'
  <2>1. /\ opened[p] + 1 \in 1 .. 3 /\ OpeningOrder[opened[p] + 1] \in Inboxes
        /\ Len(OpeningOrder) = 3
    BY <1>2 DEF OpenQueue, OpeningOrder, Inboxes
  <2>2. created' \subseteq Inboxes
    BY <1>2, <2>1 DEF OpenQueue
  <2>3. opened' \in [Processes -> -1 .. Len(OpeningOrder)]
    BY <1>2, <2>1 DEF OpenQueue
  <2>4. handle' \in [Processes -> [Inboxes -> {"none", "read", "both"}]]
    BY <1>2 DEF OpenQueue
  <2> QED
    BY <1>2, <2>2, <2>3, <2>4 DEF OpenQueue, senderVars
<1>3. ASSUME NEW p \in Processes, Relaunch(p) PROVE PathTypes'
  BY <1>3 DEF Relaunch, senderVars, OpeningOrder
<1>4. ASSUME NEW p \in Processes, Crash(p) PROVE PathTypes'
  <2>1. opened' \in [Processes -> -1 .. Len(OpeningOrder)] /\ crashes' \in 0 .. MaxCrashes
    BY <1>4, MessagePathAssumption DEF Crash, OpeningOrder
  <2>2. handle' \in [Processes -> [Inboxes -> {"none", "read", "both"}]]
    BY <1>4 DEF Crash
  <2>3. CASE p \in Senders
    <3>1. ToSet(internal[p]) \subseteq Nat
      <4>1. internal[p] \in Seq(Nat)
        BY <2>3
      <4> QED
        BY <4>1 DEF ToSet
    <3>2. Held(p) \subseteq Nat
      BY <2>3, <3>1 DEF Held
    <3>5. /\ lost' = [lost EXCEPT ![p] = @ \cup Held(p)]
          /\ internal' = [internal EXCEPT ![p] = <<>>]
          /\ making' = [making EXCEPT ![p] = Nothing]
          /\ hand' = [hand EXCEPT ![p] = Nothing]
      BY <1>4, <2>3 DEF Crash
    <3>6. <<>> \in Seq(Nat) /\ lost[p] \cup Held(p) \in SUBSET Nat
      BY <2>3, <3>2, EmptySeq
    <3>3. lost' \in [Senders -> SUBSET Nat]
      BY <2>3, <3>5, <3>6
    <3>4. /\ internal' \in [Senders -> Seq(Nat)]
          /\ making' \in [Senders -> Nat \cup {Nothing}]
          /\ hand' \in [Senders -> Nat \cup {Nothing}]
      BY <2>3, <3>5, <3>6
    <3> QED
      BY <1>4, <2>1, <2>2, <3>3, <3>4 DEF Crash
  <2>4. CASE p \notin Senders
    BY <1>4, <2>1, <2>2, <2>4 DEF Crash
  <2> QED
    BY <2>3, <2>4
<1>5. ASSUME NEW s \in Senders, Copy(s) PROVE PathTypes'
  <2>1. Database \in Inboxes /\ <<s, produced[s] + 1>> \in Packets
    BY DEF Inboxes, Packets
  <2>2. Append(inbox[Database], <<s, produced[s] + 1>>) \in Seq(Packets)
    BY <2>1, AppendProperties
  <2>3. inbox' \in [Inboxes -> Seq(Packets)]
    BY <1>5, <2>1, <2>2 DEF Copy
  <2> QED
    BY <1>5, <2>3 DEF Copy, processVars
<1>6. ASSUME NEW s \in Senders, Enqueue(s) PROVE PathTypes'
  <2>1. making[s] \in Nat
    BY <1>6 DEF Enqueue
  <2>2. Append(internal[s], making[s]) \in Seq(Nat)
    BY <2>1, AppendProperties
  <2>3. internal' \in [Senders -> Seq(Nat)]
    BY <1>6, <2>2 DEF Enqueue
  <2>4. lost[s] \cup {making[s]} \in SUBSET Nat
    BY <2>1
  <2>5. lost' \in [Senders -> SUBSET Nat]
    BY <1>6, <2>4 DEF Enqueue
  <2> QED
    BY <1>6, <2>3, <2>5 DEF Enqueue, processVars
<1>7. ASSUME NEW s \in Senders, TakeOut(s) PROVE PathTypes'
  <2>1. Head(internal[s]) \in Nat /\ Tail(internal[s]) \in Seq(Nat)
    BY <1>7, HeadTailProperties DEF TakeOut
  <2> QED
    BY <1>7, <2>1 DEF TakeOut, processVars
<1>8. ASSUME NEW s \in Senders, Send(s) PROVE PathTypes'
  <2>1. Peer(s) \in Inboxes /\ <<s, hand[s]>> \in Packets
    BY <1>8, Peers DEF Send, Packets
  <2>2. Append(inbox[Peer(s)], <<s, hand[s]>>) \in Seq(Packets)
    BY <2>1, AppendProperties
  <2> QED
    BY <1>8, <2>1, <2>2 DEF Send, processVars
<1>9. ASSUME NEW q \in Inboxes, TakeIn(q) PROVE PathTypes'
  <2>1. Head(inbox[q]) \in Packets /\ Tail(inbox[q]) \in Seq(Packets)
    BY <1>9, HeadTailProperties DEF TakeIn
  <2>2. Append(delivered[q], Head(inbox[q])) \in Seq(Packets)
    BY <2>1, AppendProperties
  <2> QED
    BY <1>9, <2>1, <2>2 DEF TakeIn, processVars, senderVars
<1> QED
  BY <1>1, <1>2, <1>3, <1>4, <1>5, <1>6, <1>7, <1>8, <1>9 DEF PathNext, Process, Output

LEMMA WithinCapacitiesStep ==
  PathTypes /\ WithinCapacities /\ [PathNext]_pathVars => WithinCapacities'
<1> SUFFICES ASSUME PathTypes, WithinCapacities, [PathNext]_pathVars PROVE WithinCapacities'
  OBVIOUS
<1> USE DEF WithinCapacities, PathTypes
<1>1. CASE UNCHANGED pathVars
  BY <1>1 DEF pathVars, senderVars
<1>2. ASSUME NEW p \in Processes, OpenQueue(p) \/ Relaunch(p) PROVE WithinCapacities'
  BY <1>2 DEF OpenQueue, Relaunch, senderVars
<1>3. ASSUME NEW p \in Processes, Crash(p) PROVE WithinCapacities'
  <2>1. Len(<<>>) <= InternalCapacity
    BY MessagePathAssumption
  <2>2. \A s \in Senders : internal'[s] = internal[s] \/ internal'[s] = <<>>
    BY <1>3 DEF Crash
  <2> QED
    BY <1>3, <2>1, <2>2 DEF Crash
<1>4. ASSUME NEW t \in Senders, Copy(t) PROVE WithinCapacities'
  <2>1. ASSUME NEW q \in Inboxes PROVE Len(inbox'[q]) <= InboxCapacity
    <3>1. CASE q = Database /\ CanSend(t, Database)
      <4>1. <<t, produced[t] + 1>> \in Packets
        BY DEF Packets
      <4>2. Len(Append(inbox[q], <<t, produced[t] + 1>>)) = Len(inbox[q]) + 1
        BY <4>1, AppendProperties
      <4>3. Len(inbox[q]) < InboxCapacity /\ Len(inbox[q]) \in Nat
        BY <3>1, LenProperties DEF CanSend
      <4> QED
        BY <1>4, <3>1, <4>2, <4>3, MessagePathAssumption DEF Copy
    <3>2. CASE ~(q = Database /\ CanSend(t, Database))
      BY <1>4, <3>2 DEF Copy
    <3> QED
      BY <3>1, <3>2
  <2>2. \A s \in Senders : produced'[s] <= MaxPackets[s]
    BY <1>4, MessagePathAssumption DEF Copy, Senders
  <2> QED
    BY <1>4, <2>1, <2>2 DEF Copy
<1>5. ASSUME NEW t \in Senders, Enqueue(t) PROVE WithinCapacities'
  <2>1. ASSUME NEW s \in Senders PROVE Len(internal'[s]) <= InternalCapacity
    <3>1. CASE s = t /\ Len(internal[t]) < InternalCapacity
      <4>1. making[t] \in Nat
        BY <1>5 DEF Enqueue
      <4>2. Len(Append(internal[t], making[t])) = Len(internal[t]) + 1 /\ Len(internal[t]) \in Nat
        BY <4>1, AppendProperties, LenProperties
      <4> QED
        BY <1>5, <3>1, <4>2, MessagePathAssumption DEF Enqueue
    <3>2. CASE ~(s = t /\ Len(internal[t]) < InternalCapacity)
      BY <1>5, <3>2 DEF Enqueue
    <3> QED
      BY <3>1, <3>2
  <2> QED
    BY <1>5, <2>1 DEF Enqueue
<1>6. ASSUME NEW t \in Senders, TakeOut(t) PROVE WithinCapacities'
  <2>1. Len(Tail(internal[t])) = Len(internal[t]) - 1 /\ Len(internal[t]) \in Nat
    BY <1>6, HeadTailProperties, LenProperties DEF TakeOut
  <2>2. ASSUME NEW s \in Senders PROVE Len(internal'[s]) <= InternalCapacity
    BY <1>6, <2>1, MessagePathAssumption DEF TakeOut
  <2> QED
    BY <1>6, <2>2 DEF TakeOut
<1>7. ASSUME NEW t \in Senders, Send(t) PROVE WithinCapacities'
  <2>1. Peer(t) \in Inboxes /\ <<t, hand[t]>> \in Packets
    BY <1>7, Peers DEF Send, Packets
  <2>2. Len(Append(inbox[Peer(t)], <<t, hand[t]>>)) = Len(inbox[Peer(t)]) + 1
    BY <2>1, AppendProperties
  <2>3. Len(inbox[Peer(t)]) < InboxCapacity /\ Len(inbox[Peer(t)]) \in Nat
    BY <1>7, <2>1, LenProperties DEF Send, CanSend
  <2>4. ASSUME NEW q \in Inboxes PROVE Len(inbox'[q]) <= InboxCapacity
    BY <1>7, <2>1, <2>2, <2>3, MessagePathAssumption DEF Send
  <2> QED
    BY <1>7, <2>4 DEF Send
<1>8. ASSUME NEW r \in Inboxes, TakeIn(r) PROVE WithinCapacities'
  <2>1. Len(Tail(inbox[r])) = Len(inbox[r]) - 1 /\ Len(inbox[r]) \in Nat
    BY <1>8, HeadTailProperties, LenProperties DEF TakeIn
  <2>2. ASSUME NEW q \in Inboxes PROVE Len(inbox'[q]) <= InboxCapacity
    BY <1>8, <2>1, MessagePathAssumption DEF TakeIn
  <2> QED
    BY <1>8, <2>2 DEF TakeIn, senderVars
<1> QED
  BY <1>1, <1>2, <1>3, <1>4, <1>5, <1>6, <1>7, <1>8 DEF PathNext, Process, Output

LEMMA OneCreatorStep ==
  PathTypes /\ OneCreator /\ [PathNext]_pathVars => OneCreator'
<1> SUFFICES ASSUME PathTypes, OneCreator, [PathNext]_pathVars PROVE OneCreator'
  OBVIOUS
<1>1. CASE UNCHANGED processVars
  BY <1>1 DEF OneCreator, processVars
<1>2. ASSUME NEW p \in Processes, OpenQueue(p) PROVE OneCreator'
  <2> DEFINE q == OpeningOrder[opened[p] + 1]
  <2>1. q \in Inboxes
    BY <1>2 DEF OpenQueue, OpeningOrder, Inboxes, PathTypes
  <2>2. /\ created' = created \cup {q}
        /\ handle' = [handle EXCEPT ![p][q] = IF q \in created THEN "both" ELSE "read"]
    BY <1>2 DEF OpenQueue
  <2> HIDE DEF q
  <2>3. \A r \in Processes, o \in Inboxes :
          handle'[r][o] = IF r = p /\ o = q THEN (IF q \in created THEN "both" ELSE "read")
                          ELSE handle[r][o]
    BY <2>1, <2>2 DEF PathTypes
  <2>4. \A o \in Inboxes : o \notin created' =>
          o \notin created /\ \A r \in Processes : handle'[r][o] = handle[r][o]
    BY <2>2, <2>3
  <2>5. ASSUME NEW o \in Inboxes, NEW r \in Processes, NEW t \in Processes,
               handle'[r][o] = "read", handle'[t][o] = "read"
        PROVE  r = t
    BY <2>1, <2>3, <2>5 DEF OneCreator
  <2> QED
    BY <2>4, <2>5 DEF OneCreator
<1>3. ASSUME NEW p \in Processes, Crash(p) PROVE OneCreator'
  <2>1. \A r \in Processes, o \in Inboxes :
          handle'[r][o] = IF r = p THEN "none" ELSE handle[r][o]
    BY <1>3 DEF Crash, PathTypes
  <2> QED
    BY <1>3, <2>1 DEF Crash, OneCreator
<1>4. ASSUME NEW p \in Processes, Relaunch(p) PROVE OneCreator'
  BY <1>4 DEF Relaunch, OneCreator
<1> QED
  BY <1>1, <1>2, <1>3, <1>4
     DEF PathNext, Process, Output, Copy, Enqueue, TakeOut, Send, TakeIn, pathVars, processVars

\* The order of one sender's path, and what became of its packets.
Ordered(s) == \A i, j \in 1 .. Len(Path(s)) : i < j => Path(s)[i] < Path(s)[j]
Accounted(s) == 1 .. produced[s] = ToSet(Path(s)) \cup lost[s]

LEMMA PutKeeps ==
  ASSUME PathTypes, NEW s \in Senders, Ordered(s), Accounted(s), PutStep(s)
  PROVE  Ordered(s)' /\ Accounted(s)'
<1> DEFINE n == produced[s] + 1
           p == Path(s)
<1>1. n \in Nat /\ produced[s] \in Nat
  BY DEF PathTypes
<1>2. Got(s) \in Seq(Nat) /\ Way(s) \in Seq(Nat) /\ p \in Seq(Nat)
  BY Pieces
<1>3. Path(s)' = Got(s) \o Append(Way(s), n)
  BY DEF Path, PutStep
<1>4. Got(s) \o Append(Way(s), n) = Append(Got(s) \o Way(s), n)
  <2> HIDE DEF n
  <2> QED
    BY <1>1, <1>2, AppendToConcat
<1>5. Path(s)' = Append(p, n)
  BY <1>3, <1>4 DEF Path
<1>6. 1 .. produced[s] = ToSet(p) \cup lost[s]
  BY DEF Accounted
<1>7. \A i, j \in 1 .. Len(p) : i < j => p[i] < p[j]
  BY DEF Ordered
<1>8. produced'[s] = n /\ lost'[s] = lost[s]
  BY DEF PutStep
<1>9. 1 .. n = 1 .. produced[s] \cup {n}
  BY <1>1
<1> HIDE DEF n, p
<1>10. /\ Append(p, n) \in Seq(Nat) /\ Len(Append(p, n)) = Len(p) + 1 /\ Len(p) \in Nat
       /\ Append(p, n)[Len(p) + 1] = n /\ \A i \in 1 .. Len(p) : Append(p, n)[i] = p[i]
  BY <1>1, <1>2, AppendProperties, LenProperties
<1>11. \A i \in 1 .. Len(p) : p[i] \in Nat /\ p[i] < n
  <2>1. \A i \in 1 .. Len(p) : p[i] \in ToSet(p)
    BY <1>2 DEF ToSet
  <2> QED
    BY <1>1, <1>6, <2>1 DEF n
<1>12. ASSUME NEW i \in 1 .. Len(p) + 1, NEW j \in 1 .. Len(p) + 1, i < j
       PROVE  Append(p, n)[i] < Append(p, n)[j]
  <2>1. i \in 1 .. Len(p) /\ (j = Len(p) + 1 \/ j \in 1 .. Len(p))
    BY <1>10, <1>12
  <2>2. CASE j = Len(p) + 1
    BY <1>10, <1>11, <2>1, <2>2
  <2>3. CASE j \in 1 .. Len(p)
    BY <1>7, <1>10, <1>12, <2>1, <2>3
  <2> QED
    BY <2>1, <2>2, <2>3
<1>13. ToSet(Append(p, n)) = ToSet(p) \cup {n}
  <2> DEFINE e == <<n>>
  <2>1. Append(p, n) = p \o e /\ e \in Seq(Nat) /\ ToSet(e) = {n}
    BY <1>1, <1>2, AppendIsConcat DEF ToSet
  <2> HIDE DEF e
  <2>2. ToSet(p \o e) = ToSet(p) \cup ToSet(e)
    BY <1>2, <2>1, ElementsOfConcat
  <2> QED
    BY <2>1, <2>2
<1>14. Ordered(s)'
  BY <1>5, <1>10, <1>12 DEF Ordered
<1>15. Accounted(s)'
  BY <1>5, <1>6, <1>8, <1>9, <1>13 DEF Accounted
<1> QED
  BY <1>14, <1>15

LEMMA LoseKeeps ==
  ASSUME PathTypes, NEW s \in Senders, Ordered(s), Accounted(s),
         NEW n \in 0 .. Len(Way(s)) - 1, LoseStep(s, n)
  PROVE  Ordered(s)' /\ Accounted(s)'
<1> DEFINE w == Way(s)
           a == SubSeq(w, 1, n)
           b == SubSeq(w, n + 1, Len(w))
           p == Got(s) \o a
<1>1. Got(s) \in Seq(Nat) /\ w \in Seq(Nat) /\ Len(w) \in Nat
  BY Pieces, LenProperties
<1>2. n \in 0 .. Len(w)
  BY <1>1
<1>3. Path(s) = Got(s) \o w /\ Path(s)' = p
  BY DEF Path, LoseStep
<1>4. /\ a \in Seq(Nat) /\ b \in Seq(Nat) /\ p \in Seq(Nat) /\ Got(s) \o w = p \o b
      /\ {w[i] : i \in n + 1 .. Len(w)} = ToSet(b)
  <2> HIDE DEF w
  <2>1. a \in Seq(Nat) /\ b \in Seq(Nat)
    BY <1>1, <1>2, CutAfter
  <2>2. {w[i] : i \in n + 1 .. Len(w)} = ToSet(b)
    BY <1>1, <1>2, CutAfter
  <2>3. w = a \o b
    BY <1>1, <1>2, CutAfter
  <2>4. p \in Seq(Nat) /\ Got(s) \o w = p \o b
    <3> HIDE DEF a, b
    <3>1. Got(s) \o w = (Got(s) \o a) \o b
      <4> DEFINE g == Got(s)
                 S == Nat
      <4>1. g \in Seq(S) /\ a \in Seq(S) /\ b \in Seq(S)
        BY <1>1, <2>1
      <4> HIDE DEF g, S
      <4>2. g \o w = (g \o a) \o b
        BY <2>3, <4>1, CutBehind
      <4> QED
        BY <4>2 DEF g
    <3>2. Got(s) \o a \in Seq(Nat)
      BY <1>1, <2>1, ConcatProperties
    <3> QED
      BY <3>1, <3>2
  <2> QED
    BY <2>1, <2>2, <2>4
<1>5. Path(s)' = p /\ Path(s) = p \o b
  BY <1>3, <1>4
<1>6. lost'[s] = lost[s] \cup ToSet(b) /\ produced'[s] = produced[s]
  BY <1>4 DEF LoseStep
<1> HIDE DEF w, a, b, p
<1>7. /\ Len(p \o b) = Len(p) + Len(b) /\ Len(p) \in Nat /\ Len(b) \in Nat
      /\ \A i \in 1 .. Len(p) + Len(b) : i <= Len(p) => (p \o b)[i] = p[i]
  BY <1>4, ConcatProperties, LenProperties
<1>8. Ordered(s)'
  <2>1. \A i \in 1 .. Len(p) : i \in 1 .. Len(Path(s)) /\ Path(s)[i] = p[i]
    BY <1>5, <1>7
  <2> QED
    BY <1>5, <2>1 DEF Ordered
<1>9. Accounted(s)'
  <2>1. ToSet(p \o b) = ToSet(p) \cup ToSet(b)
    BY <1>4, ElementsOfConcat
  <2> QED
    BY <1>5, <1>6, <2>1 DEF Accounted
<1> QED
  BY <1>8, <1>9

LEMMA DeliverKeeps ==
  ASSUME PathTypes, NEW s \in Senders, Ordered(s), Accounted(s), DeliverStep(s)
  PROVE  Ordered(s)' /\ Accounted(s)'
<1>1. Got(s) \in Seq(Nat) /\ Way(s) \in Seq(Nat)
  BY Pieces
<1>2. Append(Got(s), Head(Way(s))) \o Tail(Way(s)) = Got(s) \o Way(s)
  BY <1>1, HeadMovesOver DEF DeliverStep
<1>3. Path(s)' = Path(s)
  BY <1>2 DEF Path, DeliverStep
<1> QED
  BY <1>3 DEF Ordered, Accounted, DeliverStep

\* The steps of the channel keep its order and lose account of no packet.
LEMMA ChannelKeeps ==
  ASSUME PathTypes, NEW s \in Senders, Ordered(s), Accounted(s), ChannelStep(s)
  PROVE  Ordered(s)' /\ Accounted(s)'
<1>1. CASE SameStep(s)
  BY <1>1 DEF SameStep, Ordered, Accounted, Path
<1> QED
  BY <1>1, PutKeeps, LoseKeeps, DeliverKeeps DEF ChannelStep

LEMMA PathInvStep == PathInv /\ [PathNext]_pathVars => PathInv'
<1> SUFFICES ASSUME PathInv, [PathNext]_pathVars PROVE PathInv'
  OBVIOUS
<1>1. PathTypes /\ PathTypes'
  BY PathTypesStep DEF PathInv
<1>2. WithinCapacities' /\ OneCreator'
  BY WithinCapacitiesStep, OneCreatorStep DEF PathInv
<1>3. ASSUME NEW s \in Senders PROVE Ordered(s)' /\ Accounted(s)'
  <2>1. Ordered(s) /\ Accounted(s)
    BY DEF PathInv, PathInOrder, PathAccounted, Ordered, Accounted
  <2>2. ChannelStep(s)
    BY <1>1, EveryStepOnChannel
  <2> QED
    BY <1>1, <2>1, <2>2, ChannelKeeps
<1>4. PathInOrder' /\ PathAccounted'
  BY <1>3 DEF PathInOrder, PathAccounted, Ordered, Accounted
<1> QED
  BY <1>1, <1>2, <1>4 DEF PathInv

\* At every point of the path of the packets the types, the capacities, the
\* order and the account hold (ipc_out_loop, ipc_in_loop and what they call).
THEOREM PathInvariant == PathSpec => []PathInv
<1> QED
  BY InitPathInv, PathInvStep, PTL DEF PathSpec

LEMMA PathInvType == PathInv => PathTypeOK
<1> SUFFICES ASSUME PathInv PROVE PathTypeOK
  OBVIOUS
<1>1. PathTypes /\ WithinCapacities /\ OneCreator /\ PathAccounted
  BY DEF PathInv
<1>2. ASSUME NEW q \in Inboxes
      PROVE  /\ Cardinality({p \in Processes : handle[p][q] = "read"}) <= 1
             /\ Len(inbox[q]) <= InboxCapacity
             /\ \A i \in DOMAIN inbox[q] : inbox[q][i] \in Senders \X Nat
  <2> DEFINE R == {p \in Processes : handle[p][q] = "read"}
  <2>1. Cardinality(R) <= 1
    <3>1. CASE R = {}
      BY <3>1, FS_EmptySet
    <3>2. CASE R # {}
      <4>1. PICK p \in R : TRUE
        BY <3>2
      <4>2. R = {p}
        BY <1>1, <4>1 DEF OneCreator
      <4>3. Cardinality(R) = 1
        BY <4>2, FS_Singleton
      <4> QED
        BY <4>3
    <3> QED
      BY <3>1, <3>2
  <2>2. \A i \in DOMAIN inbox[q] : inbox[q][i] \in Senders \X Nat
    <3>1. inbox[q] \in Seq(Packets)
      BY <1>1 DEF PathTypes
    <3> QED
      BY <3>1, ElementOfSeq, LenProperties DEF Packets
  <2> QED
    BY <1>1, <2>1, <2>2 DEF WithinCapacities
<1>3. ASSUME NEW s \in Senders
      PROVE  /\ Len(internal[s]) <= InternalCapacity
             /\ Held(s) \cup lost[s] \subseteq 1 .. produced[s]
             /\ produced[s] \in 0 .. MaxPackets[s]
  <2>1. produced[s] \in 0 .. MaxPackets[s]
    BY <1>1, MessagePathAssumption DEF PathTypes, WithinCapacities, Senders
  <2> DEFINE a == Numbers(inbox[Peer(s)])
             r == One(hand[s]) \o (internal[s] \o One(making[s]))
  <2>2. a \in Seq(Nat) /\ r \in Seq(Nat) /\ Got(s) \in Seq(Nat) /\ Way(s) \in Seq(Nat)
    BY <1>1, Pieces
  <2>3. ToSet(r) = Held(s)
    BY <1>1, HeldIsOnTheWay
  <2>4. Way(s) = a \o r
    BY DEF Way
  <2> HIDE DEF a, r
  <2>5. ToSet(Way(s)) = ToSet(a) \cup ToSet(r)
    BY <2>2, <2>4, ElementsOfConcat
  <2>6. ToSet(Path(s)) = ToSet(Got(s)) \cup ToSet(Way(s))
    BY <2>2, ElementsOfConcat DEF Path
  <2>7. 1 .. produced[s] = ToSet(Path(s)) \cup lost[s]
    BY <1>1 DEF PathAccounted
  <2> QED
    BY <1>1, <2>1, <2>3, <2>5, <2>6, <2>7 DEF WithinCapacities
<1> QED
  BY <1>1, <1>2, <1>3 DEF PathTypeOK, PathTypes

\* Every variable keeps its type, the queues their capacities, and at most one
\* process has a queue for reading only (ipc_init_inbox_handles).
THEOREM PathTypeCorrect == PathSpec => []PathTypeOK
<1> QED
  BY PathInvariant, PathInvType, PTL

\* Packets arrive in the order in which they were made, none twice, wherever
\* processes end and are launched again (ipc_out_loop, ipc_in_loop).
THEOREM ArriveInOrder == PathSpec => []DeliveredInOrder
<1>1. PathInv => DeliveredInOrder
  <2> SUFFICES ASSUME PathInv, NEW s \in Senders
               PROVE  \A i, j \in DOMAIN Path(s) : i < j => Path(s)[i] < Path(s)[j]
    BY DEF DeliveredInOrder
  <2>1. Path(s) \in Seq(Nat)
    BY Pieces DEF PathInv
  <2>2. DOMAIN Path(s) = 1 .. Len(Path(s))
    BY <2>1, LenProperties
  <2> QED
    BY <2>2 DEF PathInv, PathInOrder
<1> QED
  BY <1>1, PathInvariant, PTL

\* Every packet made is under way, has arrived, or was lost in a full in-process
\* queue or with its process (ipc_out_loop, hub_queue_enqueue).
THEOREM NoneVanishes == PathSpec => []NothingVanishes
<1>1. PathInv => NothingVanishes
  BY DEF PathInv, PathAccounted, NothingVanishes
<1> QED
  BY <1>1, PathInvariant, PTL

\* In each direction the processes implement a channel that keeps the order and
\* loses its newest packets only (ipc_out_loop, ipc_in_loop).
THEOREM ChannelRefinement == PathSpec => ImplementsChannels
<1>1. DoorManager \in Senders /\ IntercomServer \in Senders
  BY DEF Senders
<1>2. PathInit => FromDoors!Init /\ FromIntercoms!Init
  BY <1>1, EmptyAtFirst DEF FromDoors!Init, FromIntercoms!Init
<1>3. PathTypes /\ [PathNext]_pathVars => [FromDoors!Next]_(FromDoors!channelVars)
  <2> SUFFICES ASSUME PathTypes, [PathNext]_pathVars
               PROVE  [FromDoors!Next]_(FromDoors!channelVars)
    OBVIOUS
  <2>1. ChannelStep(DoorManager)
    BY <1>1, EveryStepOnChannel
  <2> QED
    BY <2>1 DEF ChannelStep, PutStep, LoseStep, DeliverStep, SameStep, FromDoors!Next,
                FromDoors!Put, FromDoors!LoseNewest, FromDoors!Deliver, FromDoors!channelVars
<1>4. PathTypes /\ [PathNext]_pathVars => [FromIntercoms!Next]_(FromIntercoms!channelVars)
  <2> SUFFICES ASSUME PathTypes, [PathNext]_pathVars
               PROVE  [FromIntercoms!Next]_(FromIntercoms!channelVars)
    OBVIOUS
  <2>1. ChannelStep(IntercomServer)
    BY <1>1, EveryStepOnChannel
  <2> QED
    BY <2>1 DEF ChannelStep, PutStep, LoseStep, DeliverStep, SameStep, FromIntercoms!Next,
                FromIntercoms!Put, FromIntercoms!LoseNewest, FromIntercoms!Deliver,
                FromIntercoms!channelVars
<1>5. PathInv => PathTypes
  BY DEF PathInv
<1> QED
  BY <1>2, <1>3, <1>4, <1>5, PathInvariant, PTL
     DEF PathSpec, ImplementsChannels, FromDoors!Spec, FromIntercoms!Spec

-----------------------------------------------------------------------------
(* IntercomClient: its types                                                *)

\* What travels to the client, and what to the hub.
ClientPackets == {TimeOf, Bell} \cup {Info(i) : i \in 0 .. MaxDoors - 1}
ServerPackets == {Sync} \cup {OpenDoor(to, meant) : to \in 0 .. Cells - 1, meant \in Nat}

StreamTypes == toClient \in Seq(ClientPackets) /\ toServer \in Seq(ServerPackets)

LEMMA ClientPacketKinds ==
  /\ TimeOf \in ClientPackets /\ Bell \in ClientPackets
  /\ TimeOf.kind = "time" /\ Bell.kind = "bell"
  /\ \A i \in 0 .. MaxDoors - 1 : Info(i) \in ClientPackets
  /\ \A i : Info(i).kind = "info" /\ Info(i).index = i
  /\ \A m \in ClientPackets : m.kind = "info" => m.index \in 0 .. MaxDoors - 1 /\ m = Info(m.index)
<1>1. TimeOf \in ClientPackets /\ Bell \in ClientPackets
  BY DEF ClientPackets
<1>2. TimeOf.kind = "time" /\ Bell.kind = "bell"
  BY DEF TimeOf, Bell
<1>3. \A i \in 0 .. MaxDoors - 1 : Info(i) \in ClientPackets
  BY DEF ClientPackets
<1>4. \A i : Info(i).kind = "info" /\ Info(i).index = i
  BY DEF Info
<1>5. ASSUME NEW m \in ClientPackets, m.kind = "info"
      PROVE  m.index \in 0 .. MaxDoors - 1 /\ m = Info(m.index)
  <2>1. m # TimeOf /\ m # Bell
    BY <1>2, <1>5
  <2>2. PICK i \in 0 .. MaxDoors - 1 : m = Info(i)
    BY <2>1 DEF ClientPackets
  <2> QED
    BY <1>4, <2>2
<1> QED
  BY <1>1, <1>2, <1>3, <1>4, <1>5

\* What is left of a sequence after its first n elements.
LEMMA RestOfSeq ==
  ASSUME NEW S, NEW q \in Seq(S), NEW n \in 0 .. Len(q)
  PROVE  /\ SubSeq(q, n + 1, Len(q)) \in Seq(S)
         /\ Len(SubSeq(q, n + 1, Len(q))) = Len(q) - n
         /\ \A k \in 1 .. Len(q) - n : SubSeq(q, n + 1, Len(q))[k] = q[n + k]
<1>1. Len(q) \in Nat /\ \A i \in 1 .. Len(q) : q[i] \in S
  BY LenProperties, ElementOfSeq
<1>2. \A i \in n + 1 .. Len(q) : q[i] \in S
  BY <1>1
<1>3. n + 1 \in Int /\ Len(q) \in Int
  BY <1>1
<1>4. /\ SubSeq(q, n + 1, Len(q)) \in Seq(S)
      /\ Len(SubSeq(q, n + 1, Len(q))) = IF n + 1 <= Len(q) THEN Len(q) - (n + 1) + 1 ELSE 0
      /\ \A i \in 1 .. Len(q) - (n + 1) + 1 : SubSeq(q, n + 1, Len(q))[i] = q[n + 1 + i - 1]
  BY <1>2, <1>3, SubSeqProperties
<1>5. ASSUME NEW k \in 1 .. Len(q) - n PROVE SubSeq(q, n + 1, Len(q))[k] = q[n + k]
  <2>1. k \in 1 .. Len(q) - (n + 1) + 1 /\ n + 1 + k - 1 = n + k
    BY <1>1
  <2> QED
    BY <1>4, <2>1
<1> QED
  BY <1>1, <1>4, <1>5

\* The list of doors as packets.
LEMMA DoorInfosType ==
  ASSUME TypeOK
  PROVE  /\ DoorInfos \in Seq(ClientPackets) /\ Len(DoorInfos) = doorCount /\ doorCount \in Nat
         /\ \A i \in 1 .. doorCount : DoorInfos[i] = Info(i - 1)
<1>1. doorCount \in Nat /\ doorCount <= MaxDoors
  BY IntercomClientAssumption DEF TypeOK
<1>2. \A i \in 1 .. doorCount : Info(i - 1) \in ClientPackets
  BY <1>1, ClientPacketKinds, IntercomClientAssumption
<1>3. DoorInfos \in [1 .. doorCount -> ClientPackets]
  BY <1>2 DEF DoorInfos
<1> QED
  BY <1>1, <1>3 DEF DoorInfos

\* What the answer to a sync adds to the stream.
LEMMA AnswerType ==
  ASSUME TypeOK, StreamTypes
  PROVE  toClient \o DoorInfos \in Seq(ClientPackets)
<1>1. toClient \in Seq(ClientPackets) /\ DoorInfos \in Seq(ClientPackets)
  BY DoorInfosType DEF StreamTypes
<1> QED
  BY <1>1, ConcatProperties

\* A packet for the outbox, taken or refused, keeps it within its capacity.
LEMMA OutboxKeepsType ==
  ASSUME TypeOK, NEW m \in {TimeOf, Bell}, ToOutbox(m)
  PROVE  outbox' \in Seq({TimeOf, Bell}) /\ Len(outbox') <= OutboxCapacity
<1>1. /\ outbox \in Seq({TimeOf, Bell}) /\ Len(outbox) \in Nat
      /\ Len(outbox) <= OutboxCapacity /\ OutboxCapacity \in Nat
  BY LenProperties, IntercomClientAssumption DEF TypeOK
<1>2. CASE Len(outbox) < OutboxCapacity
  <2>1. outbox' = Append(outbox, m)
    BY <1>2 DEF ToOutbox
  <2>2. Append(outbox, m) \in Seq({TimeOf, Bell}) /\ Len(Append(outbox, m)) = Len(outbox) + 1
    BY <1>1, AppendProperties
  <2>3. Len(outbox) + 1 <= OutboxCapacity
    BY <1>1, <1>2
  <2> QED
    BY <2>1, <2>2, <2>3
<1>3. CASE ~(Len(outbox) < OutboxCapacity)
  BY <1>1, <1>3 DEF ToOutbox
<1> QED
  BY <1>2, <1>3

\* What leaves the outbox is no door's packet.
LEMMA SentPacket ==
  ASSUME TypeOK, HubSend
  PROVE  /\ Head(outbox) \in ClientPackets /\ Head(outbox).kind # "info"
         /\ outbox' \in Seq({TimeOf, Bell}) /\ Len(outbox') <= OutboxCapacity
<1>1. outbox \in Seq({TimeOf, Bell}) /\ outbox # <<>> /\ Len(outbox) <= OutboxCapacity
  BY DEF TypeOK, HubSend
<1>2. /\ Head(outbox) \in {TimeOf, Bell} /\ Tail(outbox) \in Seq({TimeOf, Bell})
      /\ Len(Tail(outbox)) = Len(outbox) - 1
  BY <1>1, HeadTailProperties
<1>3. Len(outbox) \in Nat /\ OutboxCapacity \in Nat
  BY <1>1, LenProperties, IntercomClientAssumption
<1>4. Len(Tail(outbox)) <= OutboxCapacity
  BY <1>1, <1>2, <1>3
<1>5. outbox' = Tail(outbox)
  BY DEF HubSend
<1> QED
  BY <1>2, <1>4, <1>5, ClientPacketKinds

\* A connection begins and ends with nothing in its outbox.
LEMMA NoOutboxType ==
  ASSUME NoOutbox
  PROVE  /\ outbox' \in Seq({TimeOf, Bell}) /\ Len(outbox') <= OutboxCapacity
         /\ checked' \in BOOLEAN
<1>1. <<>> \in Seq({TimeOf, Bell}) /\ Len(<<>>) = 0
  BY EmptySeq
<1>2. outbox' = <<>> /\ checked' \in BOOLEAN
  BY DEF NoOutbox, Checked
<1>3. 0 <= OutboxCapacity
  BY IntercomClientAssumption
<1> QED
  BY <1>1, <1>2, <1>3

\* The packet in front of the client's stream.
LEMMA FrontPacket ==
  ASSUME StreamTypes, NEW n \in 1 .. Len(toClient)
  PROVE  /\ Head(toClient) = toClient[1] /\ Head(toClient) \in ClientPackets
         /\ Len(toClient) \in Nat /\ n \in 0 .. Len(toClient)
<1>1. toClient \in Seq(ClientPackets) /\ Len(toClient) \in Nat
  BY LenProperties DEF StreamTypes
<1>2. toClient # <<>>
  BY <1>1, EmptySeq
<1> QED
  BY <1>1, <1>2, HeadTailProperties

\* A door learnt keeps the list a list of different doors, shorter than its cells.
LEMMA LearnKeepsType ==
  ASSUME TypeOK, NEW i \in 0 .. MaxDoors - 1, Learn(i)
  PROVE  /\ doors' \in Seq(0 .. MaxDoors - 1) /\ Len(doors') < Cells
         /\ \A k, l \in DOMAIN doors' : doors'[k] = doors'[l] => k = l
<1> DEFINE D == 0 .. MaxDoors - 1
<1>1. doors \in Seq(D) /\ Len(doors) \in Nat /\ DOMAIN doors = 1 .. Len(doors)
  BY LenProperties DEF TypeOK
<1>2. CASE i \in ToSet(doors) \/ Len(doors) + 1 >= Cells
  BY <1>2 DEF Learn, TypeOK
<1>3. CASE ~(i \in ToSet(doors) \/ Len(doors) + 1 >= Cells)
  <2> DEFINE a == Append(doors, i)
  <2>1. doors' = a
    BY <1>3 DEF Learn
  <2>2. /\ a \in Seq(D) /\ Len(a) = Len(doors) + 1 /\ a[Len(doors) + 1] = i
        /\ \A k \in 1 .. Len(doors) : a[k] = doors[k]
    BY <1>1, AppendProperties
  <2> HIDE DEF a
  <2>3. DOMAIN a = 1 .. Len(doors) + 1
    BY <2>2, LenProperties
  <2>4. Len(a) < Cells
    BY <1>1, <1>3, <2>2, IntercomClientAssumption
  <2>5. \A k \in 1 .. Len(doors) : doors[k] # i
    BY <1>1, <1>3 DEF ToSet
  <2>6. ASSUME NEW k \in 1 .. Len(doors) + 1, NEW l \in 1 .. Len(doors) + 1, a[k] = a[l]
        PROVE  k = l
    <3>1. k \in 1 .. Len(doors) \/ k = Len(doors) + 1
      BY <1>1
    <3>2. l \in 1 .. Len(doors) \/ l = Len(doors) + 1
      BY <1>1
    <3>3. CASE k \in 1 .. Len(doors) /\ l \in 1 .. Len(doors)
      BY <1>1, <2>2, <2>6, <3>3 DEF TypeOK
    <3> QED
      BY <2>2, <2>5, <2>6, <3>1, <3>2, <3>3
  <2> QED
    BY <2>1, <2>2, <2>3, <2>4, <2>6
<1> QED
  BY <1>2, <1>3

\* The types together with those of the two streams are kept by every step.
LEMMA HubReceiveTypes ==
  ASSUME TypeOK, StreamTypes, NEW n \in 1 .. Len(toServer), HubReceive(n)
  PROVE  TypeOK' /\ StreamTypes'
<1>1. Len(toServer) \in Nat /\ toServer \in Seq(ServerPackets)
  BY LenProperties DEF StreamTypes
<1>2. toServer' \in Seq(ServerPackets)
  BY <1>1, RestOfSeq DEF HubReceive
<1>3. toClient' \in Seq(ClientPackets)
  BY AnswerType DEF HubReceive, StreamTypes
<1>4. /\ outbox' \in Seq({TimeOf, Bell}) /\ Len(outbox') <= OutboxCapacity
      /\ checked' \in BOOLEAN
  <2>1. CASE Head(toServer) = Sync
    BY <2>1, OutboxKeepsType DEF HubReceive, Checked
  <2>2. CASE Head(toServer) # Sync
    BY <2>2 DEF HubReceive, TypeOK, Checked
  <2> QED
    BY <2>1, <2>2
<1>5. TypeOK'
  BY <1>4, IntercomClientAssumption DEF HubReceive, TypeOK, clockVars, countVars
<1> QED
  BY <1>2, <1>3, <1>5 DEF StreamTypes

LEMMA HubTypes ==
  ASSUME TypeOK, StreamTypes, HubSend \/ HubBell \/ HubDrop \/ Break \/ NewDoor
  PROVE  TypeOK' /\ StreamTypes'
<1>1. <<>> \in Seq(ClientPackets) /\ <<>> \in Seq(ServerPackets)
  BY EmptySeq
<1>2. CASE HubSend
  <2>1. /\ Head(outbox) \in ClientPackets
        /\ outbox' \in Seq({TimeOf, Bell}) /\ Len(outbox') <= OutboxCapacity
    BY <1>2, SentPacket
  <2>2. toClient' \in Seq(ClientPackets)
    BY <1>2, <2>1, AppendProperties DEF HubSend, StreamTypes
  <2>3. checked' \in BOOLEAN
    BY <1>2 DEF HubSend, Checked
  <2> QED
    BY <1>2, <2>1, <2>2, <2>3 DEF HubSend, StreamTypes, TypeOK, clockVars, countVars
<1>3. CASE HubBell
  <2>1. outbox' \in Seq({TimeOf, Bell}) /\ Len(outbox') <= OutboxCapacity
    BY <1>3, OutboxKeepsType DEF HubBell
  <2> QED
    BY <1>3, <2>1 DEF HubBell, StreamTypes, TypeOK, clockVars, countVars
<1>4. CASE HubDrop
  BY <1>1, <1>4, NoOutboxType, IntercomClientAssumption
     DEF HubDrop, StreamTypes, TypeOK, clockVars, countVars, Unread
<1>5. CASE Break
  BY <1>1, <1>5, NoOutboxType, IntercomClientAssumption
     DEF Break, StreamTypes, TypeOK, clockVars, countVars, Unread
<1>6. CASE NewDoor
  BY <1>6, IntercomClientAssumption
     DEF NewDoor, StreamTypes, TypeOK, clockVars, countVars, outVars
<1> QED
  BY <1>2, <1>3, <1>4, <1>5, <1>6

LEMMA ConnectTypes ==
  ASSUME TypeOK, StreamTypes, WifiConnected \/ Connect \/ ConnectFails
  PROVE  TypeOK' /\ StreamTypes'
<1>1. /\ <<>> \in Seq(ClientPackets) /\ <<>> \in Seq(ServerPackets)
      /\ <<>> \in Seq(0 .. MaxDoors - 1) /\ Len(<<>>) = 0 /\ DOMAIN <<>> = {}
  BY EmptySeq
<1>2. CASE WifiConnected
  BY <1>2 DEF WifiConnected, StreamTypes, TypeOK, clockVars, countVars, hubVars, outVars
<1>3. CASE Connect
  <2>1. Sync \in ServerPackets
    BY DEF ServerPackets
  <2>2. toClient' \in Seq(ClientPackets) /\ toServer' \in Seq(ServerPackets)
    BY <1>3, <2>1, DoorInfosType DEF Connect
  <2> QED
    BY <1>3, <2>2, NoOutboxType, IntercomClientAssumption
       DEF Connect, StreamTypes, TypeOK, clockVars
<1>4. CASE ConnectFails /\ failures < RetryLimit
  BY <1>1, <1>4, IntercomClientAssumption DEF ConnectFails, StreamTypes, TypeOK, hubVars, outVars
<1>5. CASE ConnectFails /\ ~(failures < RetryLimit)
  <2>1. Boot /\ UNCHANGED <<doorCount, silence, outbox, checked, today>>
    BY <1>5 DEF ConnectFails, hubVars, outVars
  <2>2. /\ doors' \in Seq(0 .. MaxDoors - 1) /\ Len(doors') < Cells
        /\ \A k, l \in DOMAIN doors' : doors'[k] = doors'[l] => k = l
    <3>1. doors' = <<>>
      BY <2>1 DEF Boot
    <3>2. 0 < Cells
      BY IntercomClientAssumption
    <3> QED
      BY <1>1, <3>1, <3>2
  <2>3. /\ errors' \in 0 .. ErrorLimit + 1 /\ failures' \in 0 .. RetryLimit
        /\ sinceSync' \in 0 .. SyncInterval + 1 /\ ringing' \in 0 .. RingTime
        /\ ahead' \in {0, 28, 31} /\ behind' \in Nat
    BY <2>1, IntercomClientAssumption DEF Boot
  <2>4. StreamTypes'
    BY <1>1, <2>1 DEF Boot, StreamTypes
  <2>5. /\ client_state' \in {"init", "connecting", "connected", "bell"}
        /\ link' \in {"none", "open", "closed", "reset"}
        /\ selected' \in {NoCell} \cup 0 .. Cells - 1
        /\ missed' \in BOOLEAN /\ kept' \in BOOLEAN
    BY <2>1 DEF Boot
  <2>6. doorCount' \in FirstDoors .. MaxDoors /\ silence' \in 0 .. Silence + 1
        /\ today' \in FirstDay .. LastDay
        /\ outbox' \in Seq({TimeOf, Bell}) /\ Len(outbox') <= OutboxCapacity
        /\ checked' \in BOOLEAN
    BY <2>1 DEF TypeOK
  <2> QED
    BY <2>2, <2>3, <2>4, <2>5, <2>6 DEF TypeOK
<1> QED
  BY <1>2, <1>3, <1>4, <1>5

LEMMA CommsTypes ==
  ASSUME TypeOK, StreamTypes, SendSync \/ CommsFail \/ ReceiveEnd \/ BellEnds
  PROVE  TypeOK' /\ StreamTypes'
<1>1. CASE SendSync
  <2>1. Sync \in ServerPackets /\ <<>> \in Seq(ClientPackets)
    BY EmptySeq DEF ServerPackets
  <2>2. Append(toServer, Sync) \in Seq(ServerPackets)
    BY <2>1, AppendProperties DEF StreamTypes
  <2>3. toServer' \in Seq(ServerPackets) /\ link' \in {"open", "reset"}
    <3>1. CASE link = "open"
      BY <1>1, <2>2, <3>1 DEF SendSync
    <3>2. CASE link # "open"
      BY <1>1, <3>2 DEF SendSync, StreamTypes
    <3> QED
      BY <3>1, <3>2
  <2>4. toClient' \in Seq(ClientPackets)
    BY <1>1, <2>1 DEF SendSync, Unread, StreamTypes
  <2>5. sinceSync' \in 0 .. SyncInterval + 1 /\ errors' \in 0 .. ErrorLimit + 1 /\ kept' \in BOOLEAN
    <3>1. sinceSync' = 0 /\ errors' = 0 /\ kept' = FALSE
      BY <1>1 DEF SendSync
    <3>2. sinceSync' \in 0 .. SyncInterval + 1 /\ errors' \in 0 .. ErrorLimit + 1
      BY <3>1, IntercomClientAssumption
    <3>3. kept' \in BOOLEAN
      BY <3>1
    <3> QED
      BY <3>2, <3>3
  <2>6. UNCHANGED <<client_state, ringing, doors, selected, doorCount, silence,
                    outbox, checked, today, ahead, behind, missed, failures>>
    BY <1>1 DEF SendSync, hubVars, outVars, clockVars
  <2> QED
    BY <2>3, <2>4, <2>5, <2>6 DEF StreamTypes, TypeOK
<1>2. CountError => client_state' \in {"init", "connecting", "connected", "bell"}
                    /\ errors' \in 0 .. ErrorLimit + 1
  BY IntercomClientAssumption DEF CountError, TypeOK
<1>3. CASE CommsFail
  BY <1>2, <1>3, IntercomClientAssumption
     DEF CommsFail, StreamTypes, TypeOK, clockVars, hubVars, outVars
<1>4. CASE ReceiveEnd
  BY <1>2, <1>4 DEF ReceiveEnd, StreamTypes, TypeOK, clockVars, hubVars, outVars
<1>5. CASE BellEnds
  BY <1>5 DEF BellEnds, StreamTypes, TypeOK, clockVars, hubVars, outVars, countVars
<1> QED
  BY <1>1, <1>3, <1>4, <1>5

LEMMA ReceiveTypes ==
  ASSUME TypeOK, StreamTypes, NEW n \in 1 .. Len(toClient), Receive(n)
  PROVE  TypeOK' /\ StreamTypes'
<1> DEFINE packet == Head(toClient)
<1>1. packet \in ClientPackets /\ n \in 0 .. Len(toClient)
  BY FrontPacket
<1>2. toClient' \in Seq(ClientPackets) /\ toServer' \in Seq(ServerPackets)
  BY <1>1, RestOfSeq DEF Receive, StreamTypes
<1>3. /\ doors' \in Seq(0 .. MaxDoors - 1) /\ Len(doors') < Cells
      /\ \A k, l \in DOMAIN doors' : doors'[k] = doors'[l] => k = l
  <2>1. CASE packet.kind = "info"
    <3>1. packet.index \in 0 .. MaxDoors - 1 /\ Learn(packet.index)
      BY <1>1, <2>1, ClientPacketKinds DEF Receive
    <3> QED
      BY <3>1, LearnKeepsType
  <2>2. CASE packet.kind # "info"
    BY <2>2 DEF Receive, TypeOK
  <2> QED
    BY <2>1, <2>2
<1>4. /\ today' \in FirstDay .. LastDay /\ ahead' \in {0, 28, 31} /\ behind' \in Nat
      /\ sinceSync' \in 0 .. SyncInterval + 1
  <2>1. CASE packet.kind = "time"
    <3>1. SetClock
      BY <2>1 DEF Receive
    <3>2. MonthLength(today) \in {28, 31}
      BY DEF MonthLength
    <3>3. ahead \in {0, 28, 31} /\ behind \in Nat
      BY DEF TypeOK
    <3>4. ahead' = MonthLength(today) /\ today' = today
      BY <3>1 DEF SetClock
    <3>5. behind' \in Nat /\ sinceSync' \in 0 .. SyncInterval + 1
      <4>1. CASE ahead = 0 \/ MonthLength(today) - ahead > 0
        <5>1. behind' = 0 /\ sinceSync' = SyncInterval + 1
          BY <3>1, <4>1 DEF SetClock
        <5> QED
          BY <5>1, IntercomClientAssumption
      <4>2. CASE ~(ahead = 0 \/ MonthLength(today) - ahead > 0)
        <5>1. behind' = behind - (MonthLength(today) - ahead) /\ sinceSync' = sinceSync
          BY <3>1, <4>2 DEF SetClock
        <5>2. behind' \in Nat
          BY <3>2, <3>3, <4>2, <5>1
        <5> QED
          BY <5>1, <5>2 DEF TypeOK
      <4> QED
        BY <4>1, <4>2
    <3> QED
      BY <3>2, <3>4, <3>5 DEF TypeOK
  <2>2. CASE packet.kind # "time"
    BY <2>2 DEF Receive, TypeOK, clockVars
  <2> QED
    BY <2>1, <2>2
<1>5. client_state' \in {"init", "connecting", "connected", "bell"} /\ ringing' \in 0 .. RingTime
  <2>1. CASE packet.kind = "bell"
    BY <2>1, IntercomClientAssumption DEF Receive, Ring
  <2>2. CASE packet.kind # "bell"
    BY <2>2 DEF Receive, TypeOK
  <2> QED
    BY <2>1, <2>2
<1>6. missed' \in BOOLEAN
  BY DEF Receive, TypeOK
<1>7. kept' \in BOOLEAN
  <2>1. CASE packet.kind = "info"
    BY <2>1 DEF Receive, TypeOK
  <2>2. CASE packet.kind = "time"
    BY <2>2 DEF Receive, SetClock, TypeOK
  <2>3. CASE packet.kind = "bell"
    BY <2>3 DEF Receive, Ring
  <2>4. packet = TimeOf \/ packet = Bell \/ packet.kind = "info"
    BY <1>1, ClientPacketKinds DEF ClientPackets
  <2> QED
    BY <2>1, <2>2, <2>3, <2>4, ClientPacketKinds
<1>8. TypeOK'
  <2>1. /\ link' = link /\ selected' = selected /\ failures' = failures
        /\ doorCount' = doorCount /\ silence' = silence /\ errors' = 0
        /\ outbox' = outbox /\ checked' = checked
    BY DEF Receive, hubVars, outVars
  <2> QED
    BY <1>3, <1>4, <1>5, <1>6, <1>7, <2>1, IntercomClientAssumption DEF TypeOK
<1> QED
  BY <1>2, <1>8 DEF StreamTypes

\* The number a button shows is one.
LEMMA ShownIsNumber ==
  ASSUME TypeOK, NEW cell \in 0 .. Cells - 1
  PROVE  Shown(cell) \in Nat
<1>1. doors \in Seq(0 .. MaxDoors - 1) /\ Len(doors) \in Nat
  BY LenProperties DEF TypeOK
<1>2. CASE cell < Len(doors)
  <2>1. cell + 1 \in 1 .. Len(doors)
    BY <1>1, <1>2, IntercomClientAssumption
  <2>2. doors[cell + 1] \in 0 .. MaxDoors - 1
    BY <1>1, <2>1, ElementOfSeq
  <2> QED
    BY <1>2, <2>2, IntercomClientAssumption DEF Shown
<1>3. CASE ~(cell < Len(doors))
  BY <1>3, IntercomClientAssumption DEF Shown
<1> QED
  BY <1>2, <1>3

LEMMA TouchTypes ==
  ASSUME TypeOK, StreamTypes,
         (\E cell \in 0 .. Cells - 1 : Select(cell)) \/ Back \/ Open
  PROVE  TypeOK' /\ StreamTypes'
<1>1. CASE \E cell \in 0 .. Cells - 1 : Select(cell)
  BY <1>1 DEF Select, StreamTypes, TypeOK, clockVars, hubVars, outVars, countVars
<1>2. CASE Back
  BY <1>2 DEF Back, StreamTypes, TypeOK, clockVars, hubVars, outVars, countVars
<1>3. CASE Open
  <2>1. selected \in 0 .. Cells - 1
    BY <1>3 DEF Open, TypeOK
  <2>2. OpenDoor(selected, Shown(selected)) \in ServerPackets
    BY <2>1, ShownIsNumber DEF ServerPackets
  <2>3. Append(toServer, OpenDoor(selected, Shown(selected))) \in Seq(ServerPackets)
    BY <2>2, AppendProperties DEF StreamTypes
  <2>4. toServer' \in Seq(ServerPackets)
    BY <1>3, <2>3 DEF Open, StreamTypes
  <2>5. <<>> \in Seq(ClientPackets)
    BY EmptySeq
  <2> QED
    BY <1>3, <2>4, <2>5 DEF Open, StreamTypes, TypeOK, clockVars, hubVars, outVars, countVars, Unread
<1> QED
  BY <1>1, <1>2, <1>3

LEMMA TimeTypes ==
  ASSUME TypeOK, StreamTypes, Tick \/ NextDay
  PROVE  TypeOK' /\ StreamTypes'
<1>1. CASE Tick
  <2>1. /\ sinceSync' \in 0 .. SyncInterval + 1 /\ silence' \in 0 .. Silence + 1
        /\ ringing' \in 0 .. RingTime
    BY <1>1, IntercomClientAssumption DEF Tick, TypeOK
  <2> QED
    BY <1>1, <2>1 DEF Tick, StreamTypes, TypeOK, clockVars, countVars, outVars
<1>2. CASE NextDay
  <2>1. /\ today' \in FirstDay .. LastDay /\ behind' \in Nat
        /\ sinceSync' \in 0 .. SyncInterval + 1
    BY <1>2, IntercomClientAssumption DEF NextDay, TypeOK
  <2> QED
    BY <1>2, <2>1 DEF NextDay, StreamTypes, TypeOK, hubVars, outVars, countVars
<1> QED
  BY <1>1, <1>2

LEMMA ClientTypesStep == TypeOK /\ StreamTypes /\ [Next]_vars => TypeOK' /\ StreamTypes'
<1> SUFFICES ASSUME TypeOK, StreamTypes, [Next]_vars PROVE TypeOK' /\ StreamTypes'
  OBVIOUS
<1>1. CASE UNCHANGED vars
  BY <1>1 DEF vars, StreamTypes, TypeOK, clockVars, hubVars, outVars, countVars
<1>2. CASE Next
  BY <1>2, HubReceiveTypes, HubTypes, ConnectTypes, CommsTypes, ReceiveTypes, TouchTypes, TimeTypes
     DEF Next, Comms, Hub
<1> QED
  BY <1>1, <1>2

-----------------------------------------------------------------------------
(* IntercomClient: the list follows the hub's, if no new door was forgotten *)

\* The door of a packet of q is already known, or the one to be learnt next, or
\* that of the packet before it is in front of it; or the list of l doors is full.
Successive(q, l) ==
  \A k \in DOMAIN q : q[k].kind = "info" =>
    \/ l + 1 >= Cells \/ q[k].index <= l
    \/ \E j \in 1 .. k - 1 : q[j] = Info(q[k].index - 1)

\* The cell of a door is its index.
ListInStep == \A i \in DOMAIN doors : doors[i] = i - 1

\* The requests of q open what was meant.
Meant(q) == \A k \in DOMAIN q : q[k].kind = "open" => q[k].to = q[k].meant

\* The client's list and stream follow the hub's list.
InStep == ~missed => ListInStep /\ Meant(toServer) /\ Successive(toClient, Len(doors))

LEMMA SuccessiveEmpty == ASSUME NEW l PROVE Successive(<<>>, l)
<1> QED
  BY EmptySeq DEF Successive

LEMMA SuccessiveAppend ==
  ASSUME NEW q \in Seq(ClientPackets), NEW l \in Nat, Successive(q, l),
         NEW m \in ClientPackets, m.kind # "info"
  PROVE  Successive(Append(q, m), l)
<1> DEFINE a == Append(q, m)
<1>1. /\ a \in Seq(ClientPackets) /\ Len(a) = Len(q) + 1 /\ a[Len(q) + 1] = m
      /\ \A k \in 1 .. Len(q) : a[k] = q[k]
  BY AppendProperties
<1>2. DOMAIN a = 1 .. Len(q) + 1 /\ DOMAIN q = 1 .. Len(q) /\ Len(q) \in Nat
  BY <1>1, LenProperties
<1> HIDE DEF a
<1>3. ASSUME NEW k \in DOMAIN a, a[k].kind = "info"
      PROVE  \/ l + 1 >= Cells \/ a[k].index <= l
             \/ \E j \in 1 .. k - 1 : a[j] = Info(a[k].index - 1)
  <2>1. k \in 1 .. Len(q)
    BY <1>1, <1>2, <1>3
  <2>2. a[k] = q[k] /\ k \in DOMAIN q
    BY <1>1, <1>2, <2>1
  <2>3. CASE \E j \in 1 .. k - 1 : q[j] = Info(q[k].index - 1)
    <3>1. PICK j \in 1 .. k - 1 : q[j] = Info(q[k].index - 1)
      BY <2>3
    <3>2. j \in 1 .. Len(q)
      BY <1>2, <2>1
    <3>3. a[j] = Info(a[k].index - 1)
      BY <1>1, <2>2, <3>1, <3>2
    <3> QED
      BY <3>3
  <2> QED
    BY <1>3, <2>2, <2>3 DEF Successive
<1>4. Successive(a, l)
  BY <1>3 DEF Successive
<1> QED
  BY <1>4 DEF a

\* Each door of the list sent is behind the door before it.
LEMMA SuccessiveInfos ==
  ASSUME TypeOK, NEW q \in Seq(ClientPackets), NEW l \in Nat, Successive(q, l)
  PROVE  Successive(q \o DoorInfos, l)
<1> DEFINE d == DoorInfos
           a == q \o d
<1>1. /\ d \in Seq(ClientPackets) /\ Len(d) = doorCount /\ doorCount \in Nat
      /\ \A i \in 1 .. doorCount : d[i] = Info(i - 1)
  BY DoorInfosType
<1>2. Len(q) \in Nat /\ DOMAIN q = 1 .. Len(q)
  BY LenProperties
<1> HIDE DEF d
<1>3. /\ a \in Seq(ClientPackets) /\ Len(a) = Len(q) + doorCount
      /\ \A k \in 1 .. Len(q) + doorCount : a[k] = IF k <= Len(q) THEN q[k] ELSE d[k - Len(q)]
  BY <1>1, ConcatProperties
<1>4. DOMAIN a = 1 .. Len(q) + doorCount
  BY <1>3, LenProperties
<1> HIDE DEF a
<1>5. ASSUME NEW k \in DOMAIN a, a[k].kind = "info"
      PROVE  \/ l + 1 >= Cells \/ a[k].index <= l
             \/ \E j \in 1 .. k - 1 : a[j] = Info(a[k].index - 1)
  <2>0. k \in 1 .. Len(q) + doorCount
    BY <1>4
  <2>1. CASE k <= Len(q)
    <3>1. a[k] = q[k] /\ k \in DOMAIN q
      BY <1>1, <1>2, <1>3, <2>0, <2>1
    <3>2. CASE \E j \in 1 .. k - 1 : q[j] = Info(q[k].index - 1)
      <4>1. PICK j \in 1 .. k - 1 : q[j] = Info(q[k].index - 1)
        BY <3>2
      <4>2. j \in 1 .. Len(q) + doorCount /\ j <= Len(q)
        BY <1>1, <1>2, <2>0, <2>1
      <4>3. a[j] = Info(a[k].index - 1)
        BY <1>3, <3>1, <4>1, <4>2
      <4> QED
        BY <4>3
    <3> QED
      BY <1>5, <3>1, <3>2 DEF Successive
  <2>2. CASE ~(k <= Len(q))
    <3> DEFINE i == k - Len(q)
    <3>1. i \in 1 .. doorCount
      BY <1>1, <1>2, <2>0, <2>2
    <3>2. a[k] = Info(i - 1)
      BY <1>1, <1>3, <2>0, <2>2, <3>1
    <3>3. a[k].index = i - 1
      BY <3>2, ClientPacketKinds
    <3>4. CASE i = 1
      BY <3>3, <3>4
    <3>5. CASE i # 1
      <4>1. k - 1 \in 1 .. Len(q) + doorCount /\ ~(k - 1 <= Len(q)) /\ (k - 1) - Len(q) = i - 1
            /\ i - 1 \in 1 .. doorCount
        BY <1>1, <1>2, <2>0, <2>2, <3>1, <3>5
      <4>2. a[k - 1] = d[i - 1]
        BY <1>3, <4>1
      <4>3. a[k - 1] = Info(a[k].index - 1)
        BY <1>1, <3>3, <4>1, <4>2
      <4>4. k - 1 \in 1 .. k - 1
        BY <1>2, <4>1
      <4> QED
        BY <4>3, <4>4
    <3> QED
      BY <3>4, <3>5
  <2> QED
    BY <2>1, <2>2
<1>6. Successive(a, l)
  BY <1>5 DEF Successive
<1> QED
  BY <1>6 DEF a, d

\* What the order of a stream says of one packet of a door.
LEMMA SuccessiveAt ==
  ASSUME NEW q, NEW l, Successive(q, l), NEW p \in DOMAIN q, q[p].kind = "info"
  PROVE  \/ l + 1 >= Cells \/ q[p].index <= l
         \/ \E j \in 1 .. p - 1 : q[j] = Info(q[p].index - 1)
BY Zenon DEF Successive

\* What is behind the first n packets, when the doors of these are now known.
LEMMA SuccessiveRest ==
  ASSUME NEW q \in Seq(ClientPackets), NEW l \in Nat, Successive(q, l), NEW n \in 1 .. Len(q),
         NEW m \in Nat, l <= m,
         \A j \in 1 .. n : q[j].kind = "info" => m + 1 >= Cells \/ q[j].index < m
  PROVE  Successive(SubSeq(q, n + 1, Len(q)), m)
<1> DEFINE r == SubSeq(q, n + 1, Len(q))
<1>1. Len(q) \in Nat /\ DOMAIN q = 1 .. Len(q) /\ n \in 0 .. Len(q)
  BY LenProperties
<1>2. /\ r \in Seq(ClientPackets) /\ Len(r) = Len(q) - n
      /\ \A k \in 1 .. Len(q) - n : r[k] = q[n + k]
  BY <1>1, RestOfSeq
<1> HIDE DEF r
<1>3. DOMAIN r = 1 .. Len(q) - n
  BY <1>2, LenProperties
<1>4. ASSUME NEW k \in DOMAIN r, r[k].kind = "info"
      PROVE  \/ m + 1 >= Cells \/ r[k].index <= m
             \/ \E j \in 1 .. k - 1 : r[j] = Info(r[k].index - 1)
  <2> DEFINE p == n + k
  <2>1. k \in 1 .. Len(q) - n /\ r[k] = q[p] /\ p \in DOMAIN q /\ p = n + k
    BY <1>1, <1>2, <1>3
  <2> HIDE DEF p
  <2>2. r[k] \in ClientPackets
    BY <1>2, <1>3, <2>1, ElementOfSeq
  <2>3. r[k].index \in 0 .. MaxDoors - 1
    BY <1>4, <2>2, ClientPacketKinds
  <2>4. \/ l + 1 >= Cells \/ r[k].index <= l
        \/ \E j \in 1 .. p - 1 : q[j] = Info(r[k].index - 1)
    <3>1. q[p].kind = "info"
      BY <1>4, <2>1
    <3> QED
      BY <2>1, <3>1, SuccessiveAt
  <2>5. CASE l + 1 >= Cells \/ r[k].index <= l
    BY <2>3, <2>5, IntercomClientAssumption
  <2>6. CASE \E j \in 1 .. p - 1 : q[j] = Info(r[k].index - 1)
    <3>1. PICK j \in 1 .. p - 1 : q[j] = Info(r[k].index - 1)
      BY <2>6
    <3>2. q[j].kind = "info" /\ q[j].index = r[k].index - 1
      BY <3>1, ClientPacketKinds
    <3>3. CASE j \in 1 .. n
      <4>1. m + 1 >= Cells \/ r[k].index - 1 < m
        BY <3>2, <3>3
      <4> QED
        BY <2>3, <4>1
    <3>4. CASE j > n
      <4>1. j - n \in 1 .. k - 1 /\ j - n \in 1 .. Len(q) - n /\ n + (j - n) = j
        BY <1>1, <2>1, <3>4
      <4>2. r[j - n] = q[j]
        BY <1>2, <4>1
      <4> QED
        BY <3>1, <4>1, <4>2
    <3>5. j \in 1 .. n \/ j > n
      BY <1>1, <2>1
    <3> QED
      BY <3>3, <3>4, <3>5
  <2> QED
    BY <2>4, <2>5, <2>6
<1>5. Successive(r, m)
  BY <1>4 DEF Successive
<1> QED
  BY <1>5 DEF r

\* A door learnt from the front of such a stream is the next one.
LEMMA LearnInStep ==
  ASSUME TypeOK, ListInStep, NEW i \in 0 .. MaxDoors - 1, Learn(i),
         Len(doors) + 1 >= Cells \/ i <= Len(doors)
  PROVE  /\ ListInStep' /\ Len(doors') \in Nat /\ Len(doors) <= Len(doors')
         /\ Len(doors') + 1 >= Cells \/ i < Len(doors')
<1>1. doors \in Seq(0 .. MaxDoors - 1) /\ Len(doors) \in Nat /\ DOMAIN doors = 1 .. Len(doors)
  BY LenProperties DEF TypeOK
<1>2. CASE i \in ToSet(doors)
  <2>1. PICK k \in 1 .. Len(doors) : doors[k] = i
    BY <1>1, <1>2 DEF ToSet
  <2>2. i = k - 1
    BY <1>1, <2>1 DEF ListInStep
  <2>3. i < Len(doors)
    BY <1>1, <2>2
  <2>4. doors' = doors
    BY <1>2 DEF Learn
  <2> QED
    BY <1>1, <2>3, <2>4 DEF ListInStep
<1>3. CASE Len(doors) + 1 >= Cells
  <2>1. doors' = doors
    BY <1>3 DEF Learn
  <2> QED
    BY <1>1, <1>3, <2>1 DEF ListInStep
<1>4. CASE i \notin ToSet(doors) /\ ~(Len(doors) + 1 >= Cells)
  <2> DEFINE a == Append(doors, i)
  <2>1. doors' = a
    BY <1>4 DEF Learn
  <2>2. /\ a \in Seq(0 .. MaxDoors - 1) /\ Len(a) = Len(doors) + 1 /\ a[Len(doors) + 1] = i
        /\ \A k \in 1 .. Len(doors) : a[k] = doors[k]
    BY <1>1, AppendProperties
  <2> HIDE DEF a
  <2>3. DOMAIN a = 1 .. Len(doors) + 1
    BY <2>2, LenProperties
  <2>4. i = Len(doors)
    <3>1. i <= Len(doors)
      BY <1>4
    <3>2. ASSUME i < Len(doors) PROVE FALSE
      <4>1. i + 1 \in DOMAIN doors
        BY <1>1, <3>2
      <4>2. doors[i + 1] = i + 1 - 1
        BY <4>1 DEF ListInStep
      <4>3. doors[i + 1] = i
        BY <4>2
      <4> QED
        BY <1>4, <4>1, <4>3 DEF ToSet
    <3>3. i \in Int /\ Len(doors) \in Int
      BY <1>1, IntercomClientAssumption
    <3> QED
      BY <3>1, <3>2, <3>3
  <2>5. \A k \in 1 .. Len(doors) + 1 : a[k] = k - 1
    <3>1. ASSUME NEW k \in 1 .. Len(doors) + 1 PROVE a[k] = k - 1
      <4>1. CASE k = Len(doors) + 1
        BY <1>1, <2>2, <2>4, <4>1
      <4>2. CASE k # Len(doors) + 1
        <5>1. k \in 1 .. Len(doors)
          BY <1>1, <4>2
        <5> QED
          BY <1>1, <2>2, <5>1 DEF ListInStep
      <4> QED
        BY <4>1, <4>2
    <3> QED
      BY <3>1
  <2> QED
    BY <1>1, <2>1, <2>2, <2>3, <2>4, <2>5 DEF ListInStep
<1> QED
  BY <1>2, <1>3, <1>4

LEMMA MeantEmpty == Meant(<<>>)
<1> QED
  BY EmptySeq DEF Meant

LEMMA MeantAppend ==
  ASSUME NEW q \in Seq(ServerPackets), Meant(q), NEW m \in ServerPackets,
         m.kind = "open" => m.to = m.meant
  PROVE  Meant(Append(q, m))
<1> DEFINE a == Append(q, m)
<1>1. /\ a \in Seq(ServerPackets) /\ Len(a) = Len(q) + 1 /\ a[Len(q) + 1] = m
      /\ \A k \in 1 .. Len(q) : a[k] = q[k]
  BY AppendProperties
<1>2. DOMAIN a = 1 .. Len(q) + 1 /\ DOMAIN q = 1 .. Len(q) /\ Len(q) \in Nat
  BY <1>1, LenProperties
<1> HIDE DEF a
<1>3. ASSUME NEW k \in DOMAIN a PROVE a[k].kind = "open" => a[k].to = a[k].meant
  <2>1. k = Len(q) + 1 \/ k \in DOMAIN q
    BY <1>2
  <2> QED
    BY <1>1, <1>2, <2>1 DEF Meant
<1>4. Meant(a)
  BY <1>3 DEF Meant
<1> QED
  BY <1>4 DEF a

LEMMA MeantRest ==
  ASSUME NEW q \in Seq(ServerPackets), Meant(q), NEW n \in 1 .. Len(q)
  PROVE  Meant(SubSeq(q, n + 1, Len(q)))
<1> DEFINE r == SubSeq(q, n + 1, Len(q))
<1>1. Len(q) \in Nat /\ DOMAIN q = 1 .. Len(q) /\ n \in 0 .. Len(q)
  BY LenProperties
<1>2. /\ r \in Seq(ServerPackets) /\ Len(r) = Len(q) - n
      /\ \A k \in 1 .. Len(q) - n : r[k] = q[n + k]
  BY <1>1, RestOfSeq
<1> HIDE DEF r
<1>3. DOMAIN r = 1 .. Len(q) - n
  BY <1>2, LenProperties
<1>4. ASSUME NEW k \in DOMAIN r PROVE r[k].kind = "open" => r[k].to = r[k].meant
  <2>1. n + k \in DOMAIN q /\ r[k] = q[n + k]
    BY <1>1, <1>2, <1>3
  <2> QED
    BY <2>1 DEF Meant
<1>5. Meant(r)
  BY <1>4 DEF Meant
<1> QED
  BY <1>5 DEF r

LEMMA SyncPacket == Sync \in ServerPackets /\ Sync.kind = "sync"
<1> QED
  BY DEF Sync, ServerPackets

LEMMA DoorsKnown == ASSUME TypeOK PROVE Len(doors) \in Nat
<1> QED
  BY LenProperties DEF TypeOK

\* The stream to the client is left alone or cut off.
LEMMA UnreadSuccessive ==
  ASSUME Unread, UNCHANGED doors, Successive(toClient, Len(doors))
  PROVE  Successive(toClient', Len(doors'))
<1>1. CASE link' = "reset"
  BY <1>1, SuccessiveEmpty DEF Unread
<1>2. CASE link' # "reset"
  BY <1>2 DEF Unread
<1> QED
  BY <1>1, <1>2

LEMMA HubInStep ==
  ASSUME TypeOK, StreamTypes, InStep,
         \/ \E n \in 1 .. Len(toServer) : HubReceive(n)
         \/ HubSend \/ HubBell \/ HubDrop \/ Break \/ NewDoor
  PROVE  InStep'
<1> SUFFICES ASSUME ~missed'
             PROVE  ListInStep' /\ Meant(toServer)' /\ Successive(toClient', Len(doors'))
  BY DEF InStep
<1>1. missed' = missed /\ doors' = doors
  BY DEF HubReceive, HubSend, HubBell, HubDrop, Break, NewDoor
<1>2. ListInStep' /\ Meant(toServer) /\ Successive(toClient, Len(doors))
  BY <1>1 DEF InStep, ListInStep
<1>3. toServer \in Seq(ServerPackets) /\ toClient \in Seq(ClientPackets) /\ Len(doors) \in Nat
  BY DoorsKnown DEF StreamTypes
<1>4. ASSUME NEW n \in 1 .. Len(toServer), HubReceive(n)
      PROVE  Meant(toServer)' /\ Successive(toClient', Len(doors'))
  <2>1. Meant(toServer')
    BY <1>2, <1>3, <1>4, MeantRest DEF HubReceive
  <2>2. CASE Head(toServer) = Sync
    <3>1. toClient' = toClient \o DoorInfos
      BY <1>4, <2>2 DEF HubReceive
    <3>2. Successive(toClient \o DoorInfos, Len(doors))
      BY <1>2, <1>3, SuccessiveInfos
    <3> QED
      BY <1>1, <2>1, <3>1, <3>2 DEF Meant
  <2>3. CASE Head(toServer) # Sync
    BY <1>1, <1>2, <1>4, <2>1, <2>3 DEF HubReceive, Meant
  <2> QED
    BY <2>2, <2>3
<1>5. CASE HubSend
  <2>1. Successive(Append(toClient, Head(outbox)), Len(doors))
    BY <1>2, <1>3, <1>5, SentPacket, SuccessiveAppend
  <2> QED
    BY <1>1, <1>2, <1>5, <2>1 DEF HubSend, Meant
<1>6. CASE HubDrop \/ Break
  <2>1. Unread /\ toServer' = <<>>
    BY <1>6 DEF HubDrop, Break
  <2> QED
    BY <1>1, <1>2, <2>1, UnreadSuccessive, MeantEmpty DEF Meant
<1>7. CASE HubBell \/ NewDoor
  BY <1>1, <1>2, <1>7 DEF HubBell, NewDoor, Meant
<1> QED
  BY <1>2, <1>4, <1>5, <1>6, <1>7

LEMMA ConnectInStep ==
  ASSUME TypeOK, StreamTypes, InStep, WifiConnected \/ Connect \/ ConnectFails
  PROVE  InStep'
<1> SUFFICES ASSUME ~missed'
             PROVE  ListInStep' /\ Meant(toServer)' /\ Successive(toClient', Len(doors'))
  BY DEF InStep
<1>1. CASE WifiConnected
  BY <1>1 DEF WifiConnected, InStep, ListInStep, Meant
<1>2. CASE Connect
  <2>1. ListInStep' /\ doors' = doors
    BY <1>2 DEF Connect, InStep, ListInStep
  <2>2. Meant(<<Sync>>)
    <3>1. <<>> \in Seq(ServerPackets) /\ Append(<<>>, Sync) = <<Sync>>
      BY EmptySeq
    <3> QED
      BY <3>1, MeantEmpty, MeantAppend, SyncPacket
  <2>3. Successive(<<>> \o DoorInfos, Len(doors))
    <3>1. <<>> \in Seq(ClientPackets)
      BY EmptySeq
    <3> QED
      BY <3>1, SuccessiveEmpty, SuccessiveInfos, DoorsKnown
  <2>4. <<>> \o DoorInfos = DoorInfos
    BY DoorInfosType, ConcatEmptySeq
  <2> QED
    BY <1>2, <2>1, <2>2, <2>3, <2>4 DEF Connect, Meant
<1>3. CASE ConnectFails /\ failures < RetryLimit
  <2>1. /\ doors' = doors /\ toServer' = toServer /\ missed' = missed /\ toClient' = <<>>
    BY <1>3 DEF ConnectFails
  <2> QED
    BY <2>1, SuccessiveEmpty DEF InStep, ListInStep, Meant
<1>4. CASE ConnectFails /\ ~(failures < RetryLimit)
  <2>1. doors' = <<>> /\ toServer' = <<>> /\ toClient' = <<>>
    BY <1>4 DEF ConnectFails, Boot
  <2>2. ListInStep'
    BY <2>1, EmptySeq DEF ListInStep
  <2>3. Meant(toServer')
    BY <2>1, MeantEmpty
  <2> QED
    BY <2>1, <2>2, <2>3, SuccessiveEmpty DEF Meant
<1> QED
  BY <1>1, <1>2, <1>3, <1>4

LEMMA CommsInStep ==
  ASSUME TypeOK, StreamTypes, InStep, SendSync \/ CommsFail \/ ReceiveEnd \/ BellEnds
  PROVE  InStep'
<1> SUFFICES ASSUME ~missed'
             PROVE  ListInStep' /\ Meant(toServer)' /\ Successive(toClient', Len(doors'))
  BY DEF InStep
<1>1. CASE SendSync
  <2>1. doors' = doors /\ missed' = missed /\ Unread
    BY <1>1 DEF SendSync
  <2>2. ListInStep' /\ Meant(toServer) /\ Successive(toClient, Len(doors))
    BY <2>1 DEF InStep, ListInStep
  <2>3. Meant(toServer')
    <3>1. CASE link = "open"
      <4>1. toServer' = Append(toServer, Sync)
        BY <1>1, <3>1 DEF SendSync
      <4> QED
        BY <2>2, <4>1, MeantAppend, SyncPacket DEF StreamTypes
    <3>2. CASE link # "open"
      BY <1>1, <2>2, <3>2 DEF SendSync
    <3> QED
      BY <3>1, <3>2
  <2> QED
    BY <2>1, <2>2, <2>3, UnreadSuccessive DEF Meant
<1>2. CASE CommsFail \/ ReceiveEnd \/ BellEnds
  <2>1. doors' = doors /\ missed' = missed /\ toServer' = toServer /\ toClient' = toClient
    BY <1>2 DEF CommsFail, ReceiveEnd, BellEnds
  <2> QED
    BY <2>1 DEF InStep, ListInStep, Meant
<1> QED
  BY <1>1, <1>2

LEMMA ReceiveInStep ==
  ASSUME TypeOK, StreamTypes, InStep, NEW n \in 1 .. Len(toClient), Receive(n)
  PROVE  InStep'
<1> SUFFICES ASSUME ~missed'
             PROVE  ListInStep' /\ Meant(toServer)' /\ Successive(toClient', Len(doors'))
  BY DEF InStep
<1> DEFINE packet == Head(toClient)
           forgotten == SubSeq(toClient, 2, n)
<1>1. /\ packet = toClient[1] /\ packet \in ClientPackets /\ Len(toClient) \in Nat
      /\ toClient \in Seq(ClientPackets) /\ DOMAIN toClient = 1 .. Len(toClient)
  BY FrontPacket, LenProperties DEF StreamTypes
<1>2. /\ ~missed
      /\ \A m \in ToSet(forgotten) :
           m.kind = "info" => m.index \in ToSet(doors') \/ ~(Len(doors') + 1 < Cells)
  BY DEF Receive, ToLearn
<1>3. ListInStep /\ Meant(toServer) /\ Successive(toClient, Len(doors))
  BY <1>2 DEF InStep
<1>4. \A j \in 2 .. n : toClient[j] \in ToSet(forgotten)
  <2>1. ASSUME NEW j \in 2 .. n PROVE toClient[j] \in ToSet(forgotten)
    <3>1. \A i \in 2 .. n : toClient[i] \in ClientPackets
      BY <1>1, ElementOfSeq
    <3>2. /\ forgotten \in Seq(ClientPackets) /\ Len(forgotten) = IF 2 <= n THEN n - 2 + 1 ELSE 0
          /\ \A i \in 1 .. n - 2 + 1 : forgotten[i] = toClient[2 + i - 1]
      BY <1>1, <3>1, SubSeqProperties
    <3> HIDE DEF forgotten
    <3>3. j - 1 \in DOMAIN forgotten
      BY <1>1, <3>2, LenProperties
    <3>4. forgotten[j - 1] = toClient[j]
      <4>1. j - 1 \in 1 .. n - 2 + 1 /\ 2 + (j - 1) - 1 = j
        BY <1>1
      <4> QED
        BY <3>2, <4>1
    <3> QED
      BY <3>3, <3>4 DEF ToSet
  <2> QED
    BY <2>1
<1>5. /\ ListInStep' /\ Len(doors') \in Nat /\ Len(doors) <= Len(doors')
      /\ packet.kind = "info" => Len(doors') + 1 >= Cells \/ packet.index < Len(doors')
  <2>1. CASE packet.kind = "info"
    <3>1. packet.index \in 0 .. MaxDoors - 1 /\ Learn(packet.index)
      BY <1>1, <2>1, ClientPacketKinds DEF Receive
    <3>2. 1 \in DOMAIN toClient /\ 1 .. 1 - 1 = {}
      BY <1>1
    <3>3. Len(doors) + 1 >= Cells \/ packet.index <= Len(doors)
      BY <1>1, <1>3, <2>1, <3>2 DEF Successive
    <3> QED
      BY <1>3, <3>1, <3>3, LearnInStep
  <2>2. CASE packet.kind # "info"
    <3>1. doors' = doors
      BY <2>2 DEF Receive
    <3> QED
      BY <1>3, <2>2, <3>1, DoorsKnown DEF ListInStep
  <2> QED
    BY <2>1, <2>2
<1>6. toClient' = SubSeq(toClient, n + 1, Len(toClient)) /\ toServer' = toServer
  BY DEF Receive
<1>7. Len(doors) \in Nat
  BY DoorsKnown
<1>8. \A j \in 1 .. n : toClient[j].kind = "info" =>
        Len(doors') + 1 >= Cells \/ toClient[j].index < Len(doors')
  <2>1. ASSUME NEW j \in 2 .. n, toClient[j].kind = "info"
        PROVE  Len(doors') + 1 >= Cells \/ toClient[j].index < Len(doors')
    <3>1. toClient[j] \in ToSet(forgotten)
      BY <1>4, <2>1
    <3> HIDE DEF forgotten
    <3>2. toClient[j].index \in ToSet(doors') \/ ~(Len(doors') + 1 < Cells)
      BY <1>2, <2>1, <3>1
    <3>3. CASE toClient[j].index \in ToSet(doors')
      <4>1. PICK k \in DOMAIN doors' : doors'[k] = toClient[j].index
        BY <3>3 DEF ToSet
      <4>2. doors'[k] = k - 1
        BY <1>5, <4>1 DEF ListInStep
      <4>3. DOMAIN doors' = 1 .. Len(doors')
        BY ReceiveTypes, LenProperties DEF TypeOK
      <4> QED
        BY <1>5, <4>1, <4>2, <4>3
    <3> QED
      BY <1>5, <3>2, <3>3, IntercomClientAssumption
  <2>2. \A j \in 1 .. n : j = 1 \/ j \in 2 .. n
    OBVIOUS
  <2> QED
    BY <1>1, <1>5, <2>1, <2>2
<1>9. Successive(SubSeq(toClient, n + 1, Len(toClient)), Len(doors'))
  BY <1>1, <1>3, <1>5, <1>7, <1>8, SuccessiveRest
<1> QED
  BY <1>3, <1>5, <1>6, <1>9 DEF Meant

LEMMA TouchInStep ==
  ASSUME TypeOK, StreamTypes, InStep,
         \/ \E cell \in 0 .. Cells - 1 : Select(cell)
         \/ Back \/ Open \/ Tick \/ NextDay
  PROVE  InStep'
<1> SUFFICES ASSUME ~missed'
             PROVE  ListInStep' /\ Meant(toServer)' /\ Successive(toClient', Len(doors'))
  BY DEF InStep
<1>1. doors' = doors /\ missed' = missed
  BY DEF Select, Back, Open, Tick, NextDay
<1>2. ListInStep /\ ListInStep' /\ Meant(toServer) /\ Successive(toClient, Len(doors))
  BY <1>1 DEF InStep, ListInStep
<1>3. CASE Open
  <2>1. selected \in 0 .. Cells - 1
    BY <1>3 DEF Open, TypeOK
  <2>2. Shown(selected) = selected
    <3>1. CASE selected < Len(doors)
      <4>1. DOMAIN doors = 1 .. Len(doors) /\ Len(doors) \in Nat
        BY LenProperties DEF TypeOK
      <4>2. selected + 1 \in DOMAIN doors
        BY <2>1, <3>1, <4>1, IntercomClientAssumption
      <4>3. \A i \in DOMAIN doors : doors[i] = i - 1
        BY <1>2 DEF ListInStep
      <4>4. doors[selected + 1] = selected
        BY <2>1, <4>2, <4>3, IntercomClientAssumption
      <4> QED
        BY <3>1, <4>4 DEF Shown
    <3>2. CASE ~(selected < Len(doors))
      BY <3>2 DEF Shown
    <3> QED
      BY <3>1, <3>2
  <2> DEFINE m == OpenDoor(selected, Shown(selected))
  <2>3. m \in ServerPackets
    BY <2>1, ShownIsNumber DEF ServerPackets
  <2>4. m.to = m.meant
    BY <2>2 DEF OpenDoor
  <2>5. Meant(Append(toServer, m))
    BY <1>2, <2>3, <2>4, MeantAppend DEF StreamTypes
  <2>6. Meant(toServer')
    BY <1>2, <1>3, <2>5 DEF Open
  <2>7. Unread
    BY <1>3 DEF Open
  <2> QED
    BY <1>1, <1>2, <2>6, <2>7, UnreadSuccessive DEF Meant
<1>4. CASE ~Open
  <2>1. toServer' = toServer /\ toClient' = toClient
    BY <1>4 DEF Select, Back, Tick, NextDay
  <2> QED
    BY <1>1, <1>2, <2>1 DEF Meant
<1> QED
  BY <1>3, <1>4

-----------------------------------------------------------------------------
(* IntercomClient: the hub hears a client that is there                     *)

\* The hub has not been without word for longer than the client's interval,
\* unless a bell or a clock set back kept the client, or word is under way.
Heard ==
  /\ link = "open" => client_state \in {"connected", "bell"}
  /\ client_state = "bell" => kept
  /\ behind > 0 => kept
  /\ link = "open" /\ ~kept /\ toServer = <<>> => silence <= sinceSync /\ silence <= SyncInterval

LEMMA HubHeard ==
  ASSUME TypeOK, StreamTypes, Heard,
         \/ \E n \in 1 .. Len(toServer) : HubReceive(n)
         \/ HubSend \/ HubBell \/ HubDrop \/ Break \/ NewDoor
  PROVE  Heard'
<1>1. CASE \E n \in 1 .. Len(toServer) : HubReceive(n)
  <2>1. silence' = 0 /\ UNCHANGED <<link, client_state, kept, behind, sinceSync>>
    BY <1>1 DEF HubReceive, clockVars
  <2>2. 0 <= sinceSync /\ 0 <= SyncInterval
    BY IntercomClientAssumption DEF TypeOK
  <2> QED
    BY <2>1, <2>2 DEF Heard
<1>2. CASE HubSend \/ HubBell \/ NewDoor
  BY <1>2 DEF HubSend, HubBell, NewDoor, Heard, clockVars
<1>3. CASE HubDrop \/ Break
  <2>1. link' # "open" /\ UNCHANGED <<client_state, kept, behind>>
    BY <1>3 DEF HubDrop, Break, clockVars
  <2> QED
    BY <2>1 DEF Heard
<1> QED
  BY <1>1, <1>2, <1>3

LEMMA ConnectHeard ==
  ASSUME TypeOK, StreamTypes, Heard, WifiConnected \/ Connect \/ ConnectFails
  PROVE  Heard'
<1>1. CASE WifiConnected
  <2>1. link' # "open" /\ client_state' = "connecting" /\ UNCHANGED <<kept, behind>>
    BY <1>1 DEF WifiConnected, Heard, clockVars
  <2> QED
    BY <2>1 DEF Heard
<1>2. CASE Connect
  <2>1. toServer' # <<>> /\ client_state' = "connected" /\ UNCHANGED <<kept, behind>>
    BY <1>2 DEF Connect, clockVars
  <2> QED
    BY <2>1 DEF Heard
<1>3. CASE ConnectFails /\ failures < RetryLimit
  BY <1>3 DEF ConnectFails, Heard
<1>4. CASE ConnectFails /\ ~(failures < RetryLimit)
  <2>1. link' = "none" /\ client_state' = "init" /\ behind' = 0
    BY <1>4 DEF ConnectFails, Boot
  <2> QED
    BY <2>1 DEF Heard
<1> QED
  BY <1>1, <1>2, <1>3, <1>4

LEMMA CommsHeard ==
  ASSUME TypeOK, StreamTypes, Heard, SendSync \/ CommsFail \/ ReceiveEnd \/ BellEnds
  PROVE  Heard'
<1>1. CASE SendSync
  <2>1. behind' = 0 /\ client_state' = "connected"
    BY <1>1 DEF SendSync, SyncDue, clockVars
  <2>2. link' = "open" => toServer' # <<>>
    <3>1. CASE link = "open"
      <4>1. toServer' = Append(toServer, Sync)
        BY <1>1, <3>1 DEF SendSync
      <4>2. Len(toServer') = Len(toServer) + 1 /\ Len(toServer) \in Nat
        BY <4>1, AppendProperties, LenProperties, SyncPacket DEF StreamTypes
      <4> QED
        BY <4>2, EmptySeq
    <3>2. CASE link # "open"
      BY <1>1, <3>2 DEF SendSync
    <3> QED
      BY <3>1, <3>2
  <2> QED
    BY <2>1, <2>2 DEF Heard
<1>2. CASE CommsFail \/ ReceiveEnd
  <2>1. link' # "open" /\ client_state' # "bell" /\ UNCHANGED <<kept, behind>>
    BY <1>2 DEF CommsFail, ReceiveEnd, CountError, clockVars
  <2> QED
    BY <2>1 DEF Heard
<1>3. CASE BellEnds
  BY <1>3 DEF BellEnds, Heard, hubVars, outVars, clockVars
<1> QED
  BY <1>1, <1>2, <1>3

LEMMA ReceiveHeard ==
  ASSUME TypeOK, StreamTypes, Heard, NEW n \in 1 .. Len(toClient), Receive(n)
  PROVE  Heard'
<1> DEFINE packet == Head(toClient)
<1>1. packet \in ClientPackets
  BY FrontPacket
<1>2. client_state = "connected" /\ UNCHANGED <<link, silence, toServer>>
  BY DEF Receive, hubVars, outVars
<1>3. CASE packet.kind = "time"
  <2>1. SetClock /\ client_state' = client_state
    BY <1>3 DEF Receive
  <2>2. CASE ahead = 0 \/ MonthLength(today) - ahead > 0
    <3>1. behind' = 0 /\ sinceSync' = SyncInterval + 1 /\ kept' = kept
      BY <2>1, <2>2 DEF SetClock
    <3>2. silence <= SyncInterval => silence <= sinceSync'
      BY <3>1, IntercomClientAssumption DEF TypeOK
    <3> QED
      BY <1>2, <2>1, <3>1, <3>2 DEF Heard
  <2>3. CASE ~(ahead = 0 \/ MonthLength(today) - ahead > 0)
    <3> DEFINE jump == MonthLength(today) - ahead
    <3>1. behind' = behind - jump /\ kept' = (kept \/ jump < 0) /\ sinceSync' = sinceSync
      BY <2>1, <2>3 DEF SetClock
    <3>2. jump \in Int /\ jump <= 0 /\ behind \in Nat
      BY <2>3 DEF MonthLength, TypeOK
    <3> HIDE DEF jump
    <3>3. behind' > 0 => behind > 0 \/ jump < 0
      BY <3>1, <3>2
    <3> QED
      BY <1>2, <2>1, <3>1, <3>3 DEF Heard
  <2> QED
    BY <2>2, <2>3
<1>4. CASE packet.kind = "bell"
  <2>1. kept' /\ client_state' = "bell"
    BY <1>4 DEF Receive, Ring
  <2> QED
    BY <2>1 DEF Heard
<1>5. CASE packet.kind = "info"
  <2>1. UNCHANGED <<client_state, kept, behind, sinceSync>>
    BY <1>5 DEF Receive, clockVars
  <2> QED
    BY <1>2, <2>1 DEF Heard
<1>6. packet = TimeOf \/ packet = Bell \/ packet.kind = "info"
  BY <1>1, ClientPacketKinds DEF ClientPackets
<1> QED
  BY <1>3, <1>4, <1>5, <1>6, ClientPacketKinds

LEMMA TouchHeard ==
  ASSUME TypeOK, StreamTypes, Heard,
         \/ \E cell \in 0 .. Cells - 1 : Select(cell)
         \/ Back \/ Open
  PROVE  Heard'
<1>1. CASE Open
  <2>1. UNCHANGED <<client_state, kept, behind, sinceSync, silence>>
    BY <1>1 DEF Open, hubVars, outVars, clockVars
  <2>2. link' = "open" => link = "open"
    BY <1>1 DEF Open
  <2>3. toServer' = <<>> => toServer = <<>>
    <3>1. CASE toServer' = Append(toServer, OpenDoor(selected, Shown(selected)))
      <4>1. OpenDoor(selected, Shown(selected)) \in ServerPackets
        BY <1>1, ShownIsNumber DEF Open, TypeOK, ServerPackets
      <4>2. Len(toServer') = Len(toServer) + 1 /\ Len(toServer) \in Nat
        BY <3>1, <4>1, AppendProperties, LenProperties DEF StreamTypes
      <4> QED
        BY <4>2, EmptySeq
    <3>2. CASE toServer' = toServer
      BY <3>2
    <3> QED
      BY <1>1, <3>1, <3>2 DEF Open
  <2> QED
    BY <2>1, <2>2, <2>3 DEF Heard
<1>2. CASE ~Open
  <2>1. UNCHANGED <<client_state, kept, behind, sinceSync, silence, link, toServer>>
    BY <1>2 DEF Select, Back, hubVars, outVars, clockVars
  <2> QED
    BY <2>1 DEF Heard
<1> QED
  BY <1>1, <1>2

\* A tick passes for a client that is not kept only while its sync is not due.
LEMMA TimeHeard ==
  ASSUME TypeOK, StreamTypes, Heard, Tick \/ NextDay
  PROVE  Heard'
<1>1. CASE Tick
  <2>1. UNCHANGED <<client_state, link, kept, behind, toServer>>
    BY <1>1 DEF Tick, clockVars
  <2>2. ASSUME link = "open", ~kept, toServer = <<>>
        PROVE  silence' <= sinceSync' /\ silence' <= SyncInterval
    <3>1. client_state = "connected" /\ ~(behind > 0) /\ silence <= sinceSync
      BY <2>2 DEF Heard
    <3>2. behind = 0
      BY <3>1 DEF TypeOK
    <3>3. ~(sinceSync >= SyncInterval)
      BY <1>1, <3>1, <3>2 DEF Tick, SyncDue
    <3>4. silence' = silence + 1
      BY <1>1, <2>2 DEF Tick
    <3>5. sinceSync' = IF sinceSync > SyncInterval THEN sinceSync ELSE sinceSync + 1
      BY <1>1 DEF Tick
    <3>6. sinceSync \in Int /\ silence \in Int /\ SyncInterval \in Int
      BY IntercomClientAssumption DEF TypeOK
    <3> QED
      BY <3>1, <3>3, <3>4, <3>5, <3>6
  <2> QED
    BY <2>1, <2>2 DEF Heard
<1>2. CASE NextDay
  <2>1. UNCHANGED <<client_state, link, kept, toServer, silence>>
    BY <1>2 DEF NextDay, hubVars, outVars
  <2>2. behind' > 0 => behind > 0
    BY <1>2 DEF NextDay, TypeOK
  <2>3. behind = 1 \/ sinceSync' = sinceSync
    BY <1>2 DEF NextDay
  <2> QED
    BY <2>1, <2>2, <2>3 DEF Heard
<1> QED
  BY <1>1, <1>2

-----------------------------------------------------------------------------

\* The inductive invariant of IntercomClient.
ClientInv == TypeOK /\ StreamTypes /\ InStep /\ Heard

LEMMA InitClientInv == Init => ClientInv
<1> SUFFICES ASSUME Init PROVE ClientInv
  OBVIOUS
<1>1. /\ <<>> \in Seq(ClientPackets) /\ <<>> \in Seq(ServerPackets)
      /\ <<>> \in Seq(0 .. MaxDoors - 1) /\ Len(<<>>) = 0 /\ DOMAIN <<>> = {}
  BY EmptySeq
<1>2. StreamTypes
  BY <1>1 DEF Init, StreamTypes
<1>3. /\ doors \in Seq(0 .. MaxDoors - 1) /\ Len(doors) < Cells
      /\ \A k, l \in DOMAIN doors : doors[k] = doors[l] => k = l
  <2>1. doors = <<>> /\ 0 < Cells
    BY IntercomClientAssumption DEF Init
  <2> QED
    BY <1>1, <2>1
<1>4. /\ errors \in 0 .. ErrorLimit + 1 /\ failures \in 0 .. RetryLimit
      /\ sinceSync \in 0 .. SyncInterval + 1 /\ ringing \in 0 .. RingTime
      /\ ahead \in {0, 28, 31} /\ behind \in Nat
      /\ doorCount \in FirstDoors .. MaxDoors /\ silence \in 0 .. Silence + 1
      /\ today \in FirstDay .. LastDay
  BY IntercomClientAssumption DEF Init
<1>5. /\ client_state = "init" /\ link = "none" /\ selected = NoCell
      /\ missed = FALSE /\ kept = FALSE /\ behind = 0
  BY DEF Init
<1>6. TypeOK
  <2>1. outbox \in Seq({TimeOf, Bell}) /\ Len(outbox) = 0 /\ checked \in BOOLEAN
    BY EmptySeq DEF Init
  <2>2. Len(outbox) <= OutboxCapacity
    BY <2>1, IntercomClientAssumption
  <2> QED
    BY <1>3, <1>4, <1>5, <2>1, <2>2 DEF TypeOK
<1>7. ListInStep
  BY <1>1 DEF Init, ListInStep
<1>8. InStep
  BY <1>7, MeantEmpty, SuccessiveEmpty DEF Init, InStep
<1>9. Heard
  BY <1>5 DEF Heard
<1> QED
  BY <1>2, <1>6, <1>8, <1>9 DEF ClientInv

LEMMA ClientInvStep == ClientInv /\ [Next]_vars => ClientInv'
<1> SUFFICES ASSUME ClientInv, [Next]_vars PROVE ClientInv'
  OBVIOUS
<1>1. TypeOK /\ StreamTypes /\ InStep /\ Heard
  BY DEF ClientInv
<1>2. TypeOK' /\ StreamTypes'
  BY <1>1, ClientTypesStep
<1>3. InStep' /\ Heard'
  <2>1. CASE UNCHANGED vars
    BY <1>1, <2>1 DEF vars, InStep, ListInStep, Heard, clockVars, hubVars, outVars
  <2>2. CASE Next
    <3>1. CASE \/ \E n \in 1 .. Len(toServer) : HubReceive(n)
               \/ HubSend \/ HubBell \/ HubDrop \/ Break \/ NewDoor
      BY <1>1, <3>1, HubInStep, HubHeard
    <3>2. CASE WifiConnected \/ Connect \/ ConnectFails
      BY <1>1, <3>2, ConnectInStep, ConnectHeard
    <3>3. CASE SendSync \/ CommsFail \/ ReceiveEnd \/ BellEnds
      BY <1>1, <3>3, CommsInStep, CommsHeard
    <3>4. CASE \E n \in 1 .. Len(toClient) : Receive(n)
      BY <1>1, <3>4, ReceiveInStep, ReceiveHeard
    <3>5. CASE (\E cell \in 0 .. Cells - 1 : Select(cell)) \/ Back \/ Open
      BY <1>1, <3>5, TouchInStep, TouchHeard
    <3>6. CASE Tick \/ NextDay
      BY <1>1, <3>6, TouchInStep, TimeHeard
    <3> QED
      BY <2>2, <3>1, <3>2, <3>3, <3>4, <3>5, <3>6 DEF Next, Comms, Hub
  <2> QED
    BY <2>1, <2>2
<1> QED
  BY <1>2, <1>3 DEF ClientInv

\* The types, those of the streams, the agreement of the list with the hub's, and
\* what the hub has heard hold throughout (hub_comms, connection_loop).
THEOREM ClientInvariant == Spec => []ClientInv
<1> QED
  BY InitClientInv, ClientInvStep, PTL DEF Spec

\* Every variable keeps its type; the list of doors keeps to its cells, also
\* when it is full, and gives no door two of them (process_data).
THEOREM ClientTypeCorrect == Spec => []TypeOK
<1>1. ClientInv => TypeOK
  BY DEF ClientInv
<1> QED
  BY <1>1, ClientInvariant, PTL

\* A touch opens the door whose name its button shows, as long as no
\* packet was forgotten of a door yet to get its cell (gui_handle_button_touch, receive_packet).
THEOREM OpensWhatIsMeant == Spec => []OpenIsMeant
<1>1. ClientInv => OpenIsMeant
  BY DEF ClientInv, InStep, Meant, OpenIsMeant, ToSet
<1> QED
  BY <1>1, ClientInvariant, PTL

\* The hub finds a connected client silent only after a bell or a clock set back,
\* or with a late sync under way (hub_comms, set_datetime, connection_loop).
THEOREM SilenceHasACause == Spec => []SilentOnlyForACause
<1>1. ClientInv => SilentOnlyForACause
  <2> SUFFICES ASSUME ClientInv, link = "open", silence >= Silence, ~kept, toServer = <<>>
               PROVE  FALSE
    BY DEF SilentOnlyForACause
  <2>1. silence <= SyncInterval
    BY DEF ClientInv, Heard
  <2>2. silence \in Int /\ SyncInterval < Silence /\ SyncInterval \in Int /\ Silence \in Int
    BY IntercomClientAssumption DEF ClientInv, TypeOK
  <2> QED
    BY <2>1, <2>2
<1> QED
  BY <1>1, ClientInvariant, PTL
=============================================================================
