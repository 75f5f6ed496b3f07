----------------------------- MODULE RtpProofs -----------------------------
(***************************************************************************)
(* Proofs about the transport protocol: for every length of the file,      *)
(* every window and both modes of acknowledgement.                         *)
(***************************************************************************)
EXTENDS RtpProperties, FiniteSetTheorems, TLAPS

LEMMA IntervalSize ==
  ASSUME NEW a \in Int, NEW b \in Int, a <= b
  PROVE  IsFiniteSet(a + 1 .. b) /\ Cardinality(a + 1 .. b) = b - a
<1>1. ASSUME NEW c \in Int, c = a + 1 PROVE IsFiniteSet(c .. b) /\ Cardinality(c .. b) = b - a
  <2>1. IsFiniteSet(c .. b) /\ Cardinality(c .. b) = IF c > b THEN 0 ELSE b - c + 1
    BY FS_Interval
  <2>2. QED BY <1>1, <2>1
<1>2. QED BY <1>1

(* The numbers the scan takes form an interval that starts at base + 1:    *)
(* everything below one of them is one of them, so each is at most base    *)
(* plus their number, and there are as many as that.                       *)
LEMMA RunInterval ==
  ASSUME NEW base \in Int, NEW S \in SUBSET Int, IsFiniteSet(S),
         \A n \in S : n > base
  PROVE  /\ Cardinality(Run(base, S)) \in Nat
         /\ Run(base, S) = base + 1 .. base + Cardinality(Run(base, S))
<1> DEFINE R == Run(base, S)
           k == Cardinality(R)
<1>1. R \in SUBSET S
  BY DEF Run
<1>2. IsFiniteSet(R) /\ k \in Nat
  BY <1>1, FS_Subset, FS_CardinalityType
<1>3. \A n \in R : n \in Int /\ n > base /\ base + 1 .. n \in SUBSET R
  <2>1. TAKE n \in R
  <2>2. n \in Int /\ n > base /\ base + 1 .. n \subseteq S
    BY <2>1 DEF Run
  <2>3. ASSUME NEW j \in base + 1 .. n PROVE j \in R
    BY <2>2, <2>3 DEF Run
  <2>4. QED BY <2>2, <2>3
<1>4. R \in SUBSET (base + 1 .. base + k)
  <2>1. SUFFICES ASSUME NEW n \in R PROVE n \in base + 1 .. base + k
    OBVIOUS
  <2>2. n \in Int /\ n > base /\ base + 1 .. n \in SUBSET R
    BY <1>3
  <2>3. Cardinality(base + 1 .. n) <= k
    BY <1>2, <2>2, FS_Subset
  <2>4. Cardinality(base + 1 .. n) = n - base
    BY <2>2, IntervalSize
  <2>5. QED BY <1>2, <2>2, <2>3, <2>4
<1>5. IsFiniteSet(base + 1 .. base + k) /\ Cardinality(base + 1 .. base + k) = k
  <2> HIDE DEF k
  <2>1. base + k \in Int /\ base <= base + k
    BY <1>2
  <2>2. (base + k) - base = k
    BY <1>2
  <2>3. QED BY <2>1, <2>2, IntervalSize
<1>6. base + 1 .. base + k = R
  BY <1>4, <1>5, FS_Subset
<1>7. QED BY <1>2, <1>6

(* Sorting an interval gives its numbers in order.                         *)
LEMMA SortedInterval ==
  ASSUME NEW a \in Nat, NEW b \in Nat, a <= b
  PROVE  Sorted(a + 1 .. b) = [i \in 1 .. b - a |-> a + i]
<1> DEFINE S == a + 1 .. b
<1>1. Cardinality(S) = b - a
  BY IntervalSize
<1>2. ASSUME NEW n \in S PROVE Cardinality({ m \in S : m <= n }) = n - a
  <2>1. { m \in S : m <= n } = a + 1 .. n
    OBVIOUS
  <2>2. n \in Int /\ a <= n
    OBVIOUS
  <2>3. Cardinality(a + 1 .. n) = n - a
    BY <2>2, IntervalSize
  <2>4. QED BY <2>1, <2>3
<1>3. ASSUME NEW i \in 1 .. b - a
      PROVE  (CHOOSE n \in S : Cardinality({ m \in S : m <= n }) = i) = a + i
  <2>1. a + i \in S /\ Cardinality({ m \in S : m <= a + i }) = i
    <3>1. a + i \in S
      OBVIOUS
    <3>2. Cardinality({ m \in S : m <= a + i }) = (a + i) - a
      BY <1>2, <3>1
    <3>3. QED BY <3>1, <3>2
  <2>2. \A n \in S : Cardinality({ m \in S : m <= n }) = i => n = a + i
    <3> HIDE DEF S
    <3>1. TAKE n \in S
    <3>2. n \in Int
      BY DEF S
    <3>3. QED BY <1>2, <3>1, <3>2
  <2> DEFINE P(n) == Cardinality({ m \in S : m <= n }) = i
  <2>3. (CHOOSE n \in S : P(n)) \in S /\ P(CHOOSE n \in S : P(n))
    <3>1. \E n \in S : P(n)
      BY <2>1
    <3> HIDE DEF S, P
    <3>2. QED BY <3>1
  <2>4. QED BY <2>2, <2>3
<1>4. QED BY <1>1, <1>3 DEF Sorted

(* What Connection.ack does to a connection: it takes an interval off the  *)
(* buffer, moves its end, and leaves what lies beyond the next gap.        *)
LEMMA AckedFacts ==
  ASSUME NEW n \in 0 .. N + 1, NEW cur \in -1 .. N + 1, NEW buf \in SUBSET (0 .. N + 1),
         \A k \in buf : k > cur + 1 /\ k <= cur + BufferSize
  PROVE  LET ack == Acked(n, cur, buf) IN
         /\ ack.current \in cur .. N + 1
         /\ ack.taken = cur + 1 .. ack.current
         /\ ack.taken \subseteq buf \cup {n}
         /\ ack.buffered \subseteq buf \cup {n}
         /\ \A k \in ack.buffered : k > ack.current + 1 /\ k <= ack.current + BufferSize
         /\ n = cur + 1 => ack.current >= n
<1> USE RtpAssumption
<1> DEFINE ack == Acked(n, cur, buf)
           arrived == buf \cup {n}
           taken == Run(cur, arrived)
           Ok(a) == /\ a.current \in cur .. N + 1
                    /\ a.taken = cur + 1 .. a.current
                    /\ a.taken \subseteq buf \cup {n}
                    /\ a.buffered \subseteq buf \cup {n}
                    /\ \A k \in a.buffered : k > a.current + 1 /\ k <= a.current + BufferSize
                    /\ n = cur + 1 => a.current >= n
<1>1. CASE ~Accepts(n, cur)
  <2>1. ack = [current |-> cur, buffered |-> buf, taken |-> {}]
    BY <1>1 DEF Acked
  <2>2. ack.current = cur /\ ack.buffered = buf /\ ack.taken = {}
    BY <2>1
  <2>3. cur + 1 .. cur = {}
    OBVIOUS
  <2> HIDE DEF ack
  <2>4. ack.current \in cur .. N + 1 /\ ack.taken = cur + 1 .. ack.current
    BY <2>2, <2>3
  <2>5. \A k \in ack.buffered : k > ack.current + 1 /\ k <= ack.current + BufferSize
    BY <2>2
  <2>6. n # cur + 1
    BY <1>1 DEF Accepts
  <2> HIDE DEF ack
  <2>7. Ok(ack)
    BY <2>2, <2>4, <2>5, <2>6
  <2>8. QED BY <2>7 DEF ack
<1>2. CASE Accepts(n, cur)
  <2>1. ack = [current |-> cur + Cardinality(taken), buffered |-> arrived \ taken,
               taken |-> taken]
    BY <1>2 DEF Acked
  <2>2. arrived \in SUBSET (0 .. N + 1) /\ \A k \in arrived : k > cur /\ k <= cur + BufferSize
    BY <1>2 DEF Accepts
  <2>3. IsFiniteSet(arrived) /\ arrived \in SUBSET Int
    <3> HIDE DEF arrived
    <3>1. N + 1 \in Int /\ 0 .. N + 1 \in SUBSET Int
      OBVIOUS
    <3>2. IsFiniteSet(0 .. N + 1)
      BY <3>1, FS_Interval
    <3>3. IsFiniteSet(arrived)
      BY <2>2, <3>2, FS_Subset
    <3>4. QED BY <2>2, <3>1, <3>3
  <2>4. Cardinality(taken) \in Nat /\ taken = cur + 1 .. cur + Cardinality(taken)
    <3> HIDE DEF arrived
    <3>1. QED BY <2>2, <2>3, RunInterval
  <2>5. taken \subseteq arrived
    BY DEF Run
  <2> DEFINE k == Cardinality(taken)
  <2> HIDE DEF k
  <2>6. k \in Nat /\ taken = cur + 1 .. cur + k
    BY <2>4 DEF k
  <2>7. cur + k <= N + 1
    <3>1. CASE k = 0
      BY <3>1
    <3>2. CASE k # 0
      <4>1. cur + k \in taken
        BY <2>6, <3>2
      <4> HIDE DEF arrived
      <4>2. cur + k \in 0 .. N + 1
        BY <2>2, <2>5, <4>1
      <4>3. QED BY <4>2
    <3>3. QED BY <3>1, <3>2
  <2>8. ASSUME NEW j \in arrived \ taken PROVE j > cur + k + 1 /\ j <= cur + k + BufferSize
    <3>1. j \in Int /\ j > cur /\ j <= cur + BufferSize
      BY <2>2, <2>8
    <3>2. j > cur + k
      BY <2>6, <2>8, <3>1
    <3>3. j # cur + k + 1
      <4>1. SUFFICES ASSUME j = cur + k + 1 PROVE FALSE
        OBVIOUS
      <4>2. cur + 1 .. j \subseteq arrived
        <5>1. \A i \in cur + 1 .. j : i \in cur + 1 .. cur + k \/ i = j
          BY <2>6, <4>1
        <5>2. QED BY <2>5, <2>6, <2>8, <5>1
      <4>3. j \in taken
        BY <2>8, <4>2 DEF Run
      <4>4. QED BY <2>8, <4>3
    <3>4. QED BY <2>6, <3>1, <3>2, <3>3
  <2>9. ack.current = cur + k /\ ack.taken = taken /\ ack.buffered = arrived \ taken
    BY <2>1 DEF k
  <2>10. n = cur + 1 => cur + k >= n
    <3>1. SUFFICES ASSUME n = cur + 1 PROVE cur + k >= n
      OBVIOUS
    <3>2. cur + 1 .. n \subseteq arrived
      BY <3>1
    <3>3. n \in taken
      BY <3>2 DEF Run
    <3> HIDE DEF taken
    <3>4. QED BY <2>6, <3>3
  <2> HIDE DEF ack, taken
  <2>11. cur + k \in cur .. N + 1
    BY <2>6, <2>7
  <2>12. Ok(ack)
    BY <2>5, <2>6, <2>8, <2>9, <2>10, <2>11
  <2>13. QED BY <2>12 DEF ack
<1>3. QED BY <1>1, <1>2

(* The packets of a transfer, and what they name.                          *)
LEMMA PacketFacts ==
  /\ \A p \in Packets : /\ p.seqno \in 0 .. N + 1
                        /\ p # Syn => p.seqno \in 1 .. N + 1
                        /\ p # Fin(N + 1) => p.seqno <= N
  /\ \A n \in Cache : /\ Dat(n) \in Packets /\ Dat(n).seqno = n
                      /\ Dat(n) # Syn /\ Dat(n) # Fin(N + 1)
  /\ Syn \in Packets /\ Syn.seqno = 0
  /\ Fin(N + 1) \in Packets /\ Fin(N + 1).seqno = N + 1 /\ Fin(N + 1) # Syn
<1> USE RtpAssumption DEF Packets, Syn, Dat, Fin, Packet, Cache
<1>1. \A p \in Packets : \/ p = Syn \/ p = Fin(N + 1) \/ \E n \in Cache : p = Dat(n)
  OBVIOUS
<1>2. Syn \in Packets /\ Syn.seqno = 0 /\ Fin(N + 1) \in Packets /\ Fin(N + 1).seqno = N + 1
  OBVIOUS
<1>3. Fin(N + 1) # Syn
  OBVIOUS
<1>4. \A n \in Cache : Dat(n) \in Packets /\ Dat(n).seqno = n /\ n \in Int /\ 1 <= n /\ n <= N
  <2>1. TAKE n \in Cache
  <2>2. Dat(n) \in Packets /\ Dat(n).seqno = n
    OBVIOUS
  <2>3. n \in Int /\ 1 <= n /\ n <= N
    OBVIOUS
  <2>4. QED BY <2>2, <2>3
<1>5. \A n \in Cache : Dat(n) # Syn /\ Dat(n) # Fin(N + 1)
  OBVIOUS
<1>6. \A p \in Packets : /\ p.seqno \in 0 .. N + 1
                         /\ p # Syn => p.seqno \in 1 .. N + 1
                         /\ p # Fin(N + 1) => p.seqno <= N
  BY <1>1, <1>2, <1>4
<1>7. QED BY <1>2, <1>3, <1>4, <1>5, <1>6

LEMMA AckMessageFacts ==
  ASSUME NEW m \in Acks
  PROVE  /\ m.seqno \in 1 .. N + 2 /\ m.sacks \in SUBSET (1 .. N + 1)
         /\ Cardinality(m.sacks) \in Nat
<1> USE RtpAssumption
<1>1. m.seqno \in 1 .. N + 2 /\ m.sacks \in SUBSET (1 .. N + 1)
  BY DEF Acks
<1>2. N + 1 \in Int
  OBVIOUS
<1>3. IsFiniteSet(1 .. N + 1)
  BY <1>2, FS_Interval
<1>4. QED BY <1>1, <1>3, FS_Subset, FS_CardinalityType

(* What the receiver answers, with the state of the connection it has.     *)
LEMMA AnswerFacts ==
  ASSUME sackMode \in SackModes, NEW ack,
         ack.current \in -1 .. N + 1, ack.current >= 0, ack.buffered \in SUBSET (1 .. N + 1)
  PROVE  /\ Answer(ack) \in Acks /\ Answer(ack).seqno = ack.current + 1
         /\ Answer(ack).sacks \subseteq ack.buffered
<1> USE RtpAssumption
<1>1. Answer(ack).seqno = ack.current + 1
  BY DEF Answer
<1>2. Answer(ack).sacks = IF sackMode THEN ack.buffered ELSE {}
  BY DEF Answer
<1>3. ack.current + 1 \in 1 .. N + 2
  OBVIOUS
<1>4. Answer(ack).sacks \in IF TRUE \in SackModes THEN SUBSET (1 .. N + 1) ELSE {{}}
  <2>1. CASE sackMode = TRUE
    BY <1>2, <2>1
  <2>2. CASE sackMode = FALSE
    BY <1>2, <2>2
  <2>3. QED BY <2>1, <2>2
<1>5. Answer(ack) \in Acks
  BY <1>2, <1>3, <1>4 DEF Acks, Answer
<1>6. QED BY <1>1, <1>2, <1>5

(* Held, on the numbers and the differences it is used for.                *)
LEMMA HeldFacts ==
  /\ \A c \in 0 .. N + 1 : Held(c) \in 0 .. N
  /\ \A c, d \in Int : c <= d => Held(c) <= Held(d)
  /\ \A x \in 0 .. N + 2 : Held(x - 1) \in Int
  /\ \A x, c \in Int : x = c + 1 => Held(x - 1) = Held(c)
<1> USE RtpAssumption DEF Held
<1>1. \A c \in 0 .. N + 1 : Held(c) \in 0 .. N
  OBVIOUS
<1>2. \A c, d \in Int : c <= d => Held(c) <= Held(d)
  OBVIOUS
<1>3. \A x \in 0 .. N + 2 : Held(x - 1) \in Int
  OBVIOUS
<1>4. \A x, c \in Int : x = c + 1 => Held(x - 1) = Held(c)
  <2>1. ASSUME NEW x \in Int, NEW c \in Int, x = c + 1 PROVE x - 1 = c
    BY <2>1
  <2>2. QED BY <2>1
<1>5. QED BY <1>1, <1>2, <1>3, <1>4

(* Taking a packet off a channel leaves no packet there that was not.      *)
LEMMA TakeFacts ==
  ASSUME dups \in 0 .. MaxDups, NEW m
  PROVE  /\ Take(toSender, m) => toSender' \subseteq toSender /\ dups' \in 0 .. MaxDups
         /\ Take(toReceiver, m) => toReceiver' \subseteq toReceiver /\ dups' \in 0 .. MaxDups
BY RtpAssumption DEF Take

(* What send_window sends: chunks of its window, and the fin when the      *)
(* window reaches past the file.                                           *)
LEMMA SendWindowFacts ==
  ASSUME NEW first \in 1 .. N + 2, NEW width \in Int, NEW resent \in SUBSET Packets,
         TypeOK, end_seq = 0 => first <= N + 1,
         SendWindow(first, width, resent)
  PROVE  /\ end_seq' \in {0, N + 2}
         /\ \A p \in toReceiver' :
              \/ p \in toReceiver \/ p \in resent
              \/ p \in Packets /\ p # Syn /\ p.seqno <= first + width - 1
         /\ end_seq' = 0 =>
              /\ end_seq = 0
              /\ Fin(N + 1) \in toReceiver' => Fin(N + 1) \in toReceiver \cup resent
<1> USE RtpAssumption
<1> DEFINE window == Window(first, width)
           past == { n \in window : n \notin Cache }
           data == { Dat(n) : n \in window \cap Cache }
           least == CHOOSE n \in past : \A m \in past : n <= m
<1>1. \A p \in data : /\ p \in Packets /\ p # Syn /\ p.seqno <= first + width - 1
                      /\ p # Fin(N + 1)
  <2>1. \A n \in window : n <= first + width - 1
    BY DEF Window
  <2> HIDE DEF window
  <2>2. QED BY <2>1, PacketFacts
<1>2. CASE past # {} /\ end_seq = 0
  <2>1. toReceiver' = toReceiver \cup (resent \cup data \cup {Fin(least)}) /\ end_seq' = least + 1
    BY <1>2 DEF SendWindow, Send
  <2>2. \A n \in past : n \in Int /\ N + 1 <= n /\ n <= first + width - 1
    BY DEF Window, Cache
  <2>3. N + 1 \in past
    <3>1. PICK n \in past : TRUE
      BY <1>2
    <3>2. N + 1 <= n /\ n <= first + width - 1 /\ n \in Int
      BY <2>2
    <3>3. N + 1 \in window /\ N + 1 \notin Cache
      BY <1>2, <3>2 DEF Window, Cache
    <3>4. QED BY <3>3
  <2>4. least = N + 1
    <3> HIDE DEF past
    <3>1. least \in past /\ \A m \in past : least <= m
      BY <2>2, <2>3
    <3>2. least \in Int /\ N + 1 <= least /\ least <= N + 1
      BY <2>2, <2>3, <3>1
    <3>3. QED BY <3>2
  <2>5. N + 1 <= first + width - 1
    BY <2>2, <2>3
  <2> HIDE DEF data, least, past
  <2>6. \A p \in toReceiver' : \/ p \in toReceiver \/ p \in resent
                               \/ p \in data \/ p = Fin(N + 1)
    BY <2>1, <2>4
  <2>7. end_seq' = N + 2
    BY <2>1, <2>4
  <2>8. QED BY <1>1, <2>5, <2>6, <2>7, PacketFacts
<1>3. CASE ~(past # {} /\ end_seq = 0)
  <2>1. toReceiver' = toReceiver \cup (resent \cup data) /\ end_seq' = end_seq
    BY <1>3 DEF SendWindow, Send
  <2>2. end_seq \in {0, N + 2}
    BY DEF TypeOK
  <2> HIDE DEF data
  <2>3. QED BY <1>1, <2>1, <2>2
<1>4. QED BY <1>2, <1>3

-----------------------------------------------------------------------------
(* Every step preserves the invariant: one lemma per action.               *)

LEMMA WrittenFacts ==
  ASSUME TypeOK, InOrder
  PROVE  outfile \in Seq(Cache) /\ Len(outfile) \in 0 .. N
<1>1. outfile \in Seq(Cache) /\ Len(outfile) \in Nat
  BY DEF TypeOK
<1>2. SUFFICES ASSUME Len(outfile) > N PROVE FALSE
  BY <1>1, RtpAssumption
<1>3. N + 1 \in 1 .. Len(outfile)
  BY <1>1, <1>2, RtpAssumption
<1>4. outfile[N + 1] \in Cache
  BY <1>1, <1>3
<1>5. outfile[N + 1] = N + 1
  BY <1>3 DEF InOrder
<1>6. QED BY <1>4, <1>5, RtpAssumption DEF Cache

LEMMA InitInv == Init => RtpInv
<1> SUFFICES ASSUME Init PROVE RtpInv
  OBVIOUS
<1> USE RtpAssumption DEF Init
<1>1. TypeOK
  <2>1. times_received \in [Cache -> 0 .. RetransmitLimit - 1]
    OBVIOUS
  <2>2. toReceiver \in SUBSET Packets
    BY PacketFacts
  <2>3. outfile \in Seq(Cache)
    OBVIOUS
  <2>4. /\ phase \in {"handshake", "sending", "done"}
        /\ cum_seq \in 0 .. N + 2 /\ end_seq \in {0, N + 2}
        /\ current_seqno \in -1 .. N + 1 /\ dups \in 0 .. MaxDups
    OBVIOUS
  <2>5. connected \in BOOLEAN /\ sackMode \in SackModes
    OBVIOUS
  <2>6. seqnums \in SUBSET (1 .. N + 1) /\ toSender \in SUBSET Acks
    OBVIOUS
  <2> HIDE DEF Init
  <2>7. QED BY <2>1, <2>2, <2>3, <2>4, <2>5, <2>6 DEF TypeOK
<1>2. HandshakeInv
  BY DEF HandshakeInv
<1>3. ConnectionInv
  BY DEF ConnectionInv
<1>4. FinInv
  BY PacketFacts DEF FinInv
<1>5. InOrder
  BY DEF InOrder
<1>6. SenderBelief /\ DoneMeansDelivered /\ NoOverrun
  BY DEF SenderBelief, DoneMeansDelivered, NoOverrun
<1>7. QED BY <1>1, <1>2, <1>3, <1>4, <1>5, <1>6 DEF RtpInv

(* An action of the sender, or of the channel, leaves the receiver alone;  *)
(* what it puts on its way to the receiver is what has to be looked at.    *)
LEMMA ReceiverUntouched ==
  ASSUME RtpInv, UNCHANGED receiverVars,
         toReceiver' \in SUBSET Packets, toSender' \subseteq toSender,
         connected => \A p \in toReceiver' \ toReceiver : p.seqno <= current_seqno + BufferSize
  PROVE  /\ InOrder' /\ NoOverrun'
         /\ (\A m \in toSender : Held(m.seqno - 1) <= Len(outfile))'
<1> USE DEF RtpInv, receiverVars
<1>1. InOrder'
  BY DEF InOrder, Held
<1>2. NoOverrun'
  BY DEF NoOverrun
<1>3. (\A m \in toSender : Held(m.seqno - 1) <= Len(outfile))'
  BY DEF SenderBelief, Held
<1>4. QED BY <1>1, <1>2, <1>3

LEMMA HandshakeTimeoutStep ==
  ASSUME RtpInv, HandshakeTimeout
  PROVE  RtpInv'
<1> USE RtpAssumption DEF HandshakeTimeout, senderVars, receiverVars
<1>1. toReceiver' = toReceiver \cup {Syn}
  BY DEF Send
<1>2. TypeOK'
  BY <1>1, PacketFacts DEF RtpInv, TypeOK
<1>3. HandshakeInv'
  BY <1>1 DEF RtpInv, HandshakeInv
<1>4. ConnectionInv'
  BY DEF RtpInv, ConnectionInv
<1>5. FinInv'
  BY <1>1, PacketFacts DEF RtpInv, FinInv
<1>6. connected => 0 <= current_seqno + BufferSize
  BY DEF RtpInv, TypeOK, ConnectionInv
<1>7. InOrder' /\ NoOverrun' /\ (\A m \in toSender : Held(m.seqno - 1) <= Len(outfile))'
  <2>1. toReceiver' \in SUBSET Packets
    BY <1>2 DEF TypeOK
  <2>2. QED BY <1>1, <1>6, <2>1, ReceiverUntouched, PacketFacts
<1>8. SenderBelief' /\ DoneMeansDelivered'
  BY <1>7 DEF SenderBelief, DoneMeansDelivered
<1>9. QED BY <1>2, <1>3, <1>4, <1>5, <1>7, <1>8 DEF RtpInv

LEMMA HandshakeReplyStep ==
  ASSUME RtpInv, NEW m \in toSender, HandshakeReply(m)
  PROVE  RtpInv'
<1> USE RtpAssumption DEF HandshakeReply, receiverVars
<1>1. toReceiver' = toReceiver \cup {Dat(1)} /\ 1 \in Cache
  BY DEF Send, Cache
<1>2. toSender' \subseteq toSender /\ dups' \in 0 .. MaxDups
  BY TakeFacts DEF RtpInv, TypeOK
<1>3. connected /\ current_seqno \in 0 .. N + 1
  BY DEF RtpInv, HandshakeInv, ConnectionInv, TypeOK
<1>4. TypeOK'
  BY <1>1, <1>2, PacketFacts DEF RtpInv, TypeOK
<1>5. HandshakeInv'
  BY <1>2, <1>3 DEF RtpInv, HandshakeInv
<1>6. ConnectionInv'
  BY <1>2, <1>3 DEF RtpInv, ConnectionInv
<1>7. FinInv'
  BY <1>1, PacketFacts DEF RtpInv, FinInv
<1>8. InOrder' /\ NoOverrun' /\ (\A k \in toSender : Held(k.seqno - 1) <= Len(outfile))'
  <2>1. toReceiver' \in SUBSET Packets
    BY <1>4 DEF TypeOK
  <2>2. QED BY <1>1, <1>2, <1>3, <2>1, ReceiverUntouched, PacketFacts
<1>9. SenderBelief' /\ DoneMeansDelivered'
  <2>1. Held(0) <= Len(outfile)
    BY WrittenFacts DEF RtpInv, Held
  <2>2. QED BY <1>8, <2>1 DEF SenderBelief, DoneMeansDelivered
<1>10. QED BY <1>4, <1>5, <1>6, <1>7, <1>8, <1>9 DEF RtpInv

LEMMA TimeoutStep ==
  ASSUME RtpInv, Timeout
  PROVE  RtpInv'
<1> USE RtpAssumption DEF Timeout, receiverVars
<1>1. cum_seq \in 1 .. N + 2
  BY DEF RtpInv, HandshakeInv, TypeOK
<1>2. /\ toReceiver' \in SUBSET Packets
      /\ \A p \in toReceiver' : \/ p \in toReceiver
                                \/ /\ p.seqno = cum_seq /\ p # Syn /\ p # Fin(N + 1)
  <2>1. CASE GivesUp
    BY <2>1 DEF RtpInv, TypeOK
  <2>2. CASE ~GivesUp
    <3>1. toReceiver' = toReceiver \cup {Dat(cum_seq)} /\ cum_seq \in Cache
      BY <2>2 DEF GivesUp, Send, Resent
    <3>2. QED BY <3>1, PacketFacts DEF RtpInv, TypeOK
  <2>3. QED BY <2>1, <2>2
<1>3. phase' \in {"sending", "done"}
  BY DEF GivesUp
<1>4. TypeOK'
  BY <1>2, <1>3 DEF RtpInv, TypeOK
<1>5. HandshakeInv'
  BY <1>2, <1>3 DEF RtpInv, HandshakeInv
<1>6. ConnectionInv'
  BY DEF RtpInv, ConnectionInv
<1>7. FinInv'
  BY <1>2 DEF RtpInv, FinInv
<1>8. InOrder' /\ NoOverrun' /\ (\A m \in toSender : Held(m.seqno - 1) <= Len(outfile))'
  <2>1. connected => cum_seq <= current_seqno + BufferSize
    BY <1>1 DEF RtpInv, ConnectionInv, TypeOK
  <2>2. QED BY <1>2, <2>1, ReceiverUntouched
<1>9. SenderBelief'
  BY <1>8 DEF SenderBelief, RtpInv, Held
<1>10. DoneMeansDelivered'
  <2>1. SUFFICES ASSUME GivesUp PROVE Len(outfile) = N
    BY DEF DoneMeansDelivered
  <2>2. Held(cum_seq - 1) = N
    BY <1>1, <2>1 DEF GivesUp, Cache, Held
  <2>3. Held(cum_seq - 1) <= Len(outfile)
    BY DEF RtpInv, SenderBelief
  <2>4. QED BY <2>2, <2>3, WrittenFacts DEF RtpInv
<1>11. QED BY <1>4, <1>5, <1>6, <1>7, <1>8, <1>9, <1>10 DEF RtpInv

LEMMA CleanupStep ==
  ASSUME RtpInv, Cleanup
  PROVE  RtpInv'
<1> USE RtpAssumption DEF Cleanup, senderVars
<1>1. TypeOK'
  <2>1. connected' \in BOOLEAN /\ current_seqno' \in -1 .. N + 1
    <3>1. connected' \in BOOLEAN
      BY Zenon
    <3>2. current_seqno' \in -1 .. N + 1
      OBVIOUS
    <3>3. QED BY <3>1, <3>2
  <2>2. seqnums' \in SUBSET (1 .. N + 1)
    OBVIOUS
  <2>3. /\ UNCHANGED << phase, cum_seq, end_seq, times_received >>
        /\ UNCHANGED << outfile, sackMode, toReceiver, toSender, dups >>
    OBVIOUS
  <2> HIDE DEF Cleanup
  <2>4. QED BY <2>1, <2>2, <2>3 DEF RtpInv, TypeOK
<1>2. HandshakeInv'
  BY DEF RtpInv, HandshakeInv
<1>3. ConnectionInv'
  BY DEF ConnectionInv
<1>4. FinInv'
  BY DEF RtpInv, FinInv
<1>5. InOrder'
  BY DEF RtpInv, InOrder
<1>6. SenderBelief' /\ DoneMeansDelivered' /\ NoOverrun'
  BY DEF RtpInv, SenderBelief, DoneMeansDelivered, NoOverrun, Held
<1>7. QED BY <1>1, <1>2, <1>3, <1>4, <1>5, <1>6 DEF RtpInv

LEMMA LoseStep ==
  ASSUME RtpInv, Lose, UNCHANGED << senderVars, receiverVars, dups >>
  PROVE  RtpInv'
<1> USE RtpAssumption DEF senderVars, receiverVars
<1>1. toReceiver' \subseteq toReceiver /\ toSender' \subseteq toSender
  BY DEF Lose
<1>2. TypeOK'
  BY <1>1 DEF RtpInv, TypeOK
<1>3. HandshakeInv'
  BY <1>1 DEF RtpInv, HandshakeInv
<1>4. ConnectionInv'
  BY <1>1 DEF RtpInv, ConnectionInv
<1>5. FinInv'
  BY <1>1 DEF RtpInv, FinInv
<1>6. InOrder' /\ NoOverrun' /\ (\A m \in toSender : Held(m.seqno - 1) <= Len(outfile))'
  <2>1. toReceiver' \in SUBSET Packets
    BY <1>2 DEF TypeOK
  <2>2. QED BY <1>1, <2>1, ReceiverUntouched
<1>7. SenderBelief' /\ DoneMeansDelivered'
  BY <1>6 DEF RtpInv, SenderBelief, DoneMeansDelivered, Held
<1>8. QED BY <1>2, <1>3, <1>4, <1>5, <1>6, <1>7 DEF RtpInv

LEMMA StutterStep ==
  ASSUME RtpInv, UNCHANGED vars
  PROVE  RtpInv'
BY DEF vars, senderVars, receiverVars, RtpInv, TypeOK, HandshakeInv, ConnectionInv, FinInv,
       InOrder, SenderBelief, DoneMeansDelivered, NoOverrun, Held

LEMMA ReceiveAckStep ==
  ASSUME RtpInv, NEW m \in toSender, ReceiveAck(m)
  PROVE  RtpInv'
<1> USE RtpAssumption
<1> DEFINE n == m.seqno
           sacked == { Dat(k) : k \in m.sacks \cap Cache }
           Harmless(p) == \/ p \in toReceiver
                          \/ p \in Packets /\ p # Syn /\ p.seqno <= current_seqno + BufferSize
<1>1. /\ phase = "sending" /\ cum_seq' = n /\ UNCHANGED receiverVars
      /\ toSender' \subseteq toSender /\ dups' \in 0 .. MaxDups
  BY TakeFacts DEF RtpInv, TypeOK, ReceiveAck
<1>2. /\ connected /\ current_seqno \in 0 .. N + 1
      /\ n \in 1 .. N + 2 /\ n <= current_seqno + 1
      /\ m.sacks \in SUBSET (1 .. N + 1) /\ Cardinality(m.sacks) \in Nat
      /\ \A k \in m.sacks : k <= current_seqno + BufferSize
  <2>1. m \in Acks
    BY DEF RtpInv, TypeOK
  <2>2. QED BY <2>1, AckMessageFacts DEF RtpInv, HandshakeInv, ConnectionInv, TypeOK
<1>3. end_seq = 0 => n <= N + 1
  BY <1>2 DEF RtpInv, FinInv
<1>4. \A p \in sacked : /\ p \in Packets /\ p # Syn /\ p # Fin(N + 1)
                        /\ p.seqno <= current_seqno + BufferSize
  BY <1>2, PacketFacts
<1>5. /\ times_received' \in [Cache -> 0 .. RetransmitLimit - 1]
      /\ end_seq' \in {0, N + 2}
      /\ \A p \in toReceiver' : Harmless(p)
      /\ end_seq' = 0 => /\ end_seq = 0
                         /\ Fin(N + 1) \in toReceiver' => Fin(N + 1) \in toReceiver
      /\ \/ phase' = "sending"
         \/ phase' = "done" /\ n \notin Cache /\ n = end_seq
  <2> HIDE DEF sacked
  <2>1. CASE n \notin Cache /\ n = end_seq
    <3>1. /\ phase' = "done" /\ toReceiver' = toReceiver \cup sacked
          /\ UNCHANGED << end_seq, times_received >>
      BY <2>1 DEF ReceiveAck, Send, sacked
    <3>2. QED BY <1>4, <2>1, <3>1 DEF RtpInv, TypeOK
  <2>2. CASE (n \in Cache \/ n # end_seq) /\ FastRetransmits(n)
    <3>1. /\ phase' = phase
          /\ times_received' = [times_received EXCEPT ![n] = 0]
          /\ SendWindow(n, BufferSize - 1 - Cardinality(m.sacks), sacked \cup {Dat(n)})
      BY <2>2 DEF ReceiveAck, sacked
    <3>2. n \in Cache
      BY <2>2 DEF FastRetransmits
    <3>3. times_received' \in [Cache -> 0 .. RetransmitLimit - 1]
      BY <3>1, <3>2 DEF RtpInv, TypeOK
    <3> DEFINE width == BufferSize - 1 - Cardinality(m.sacks)
               resent == sacked \cup {Dat(n)}
    <3>4. width \in Int /\ n + width - 1 <= current_seqno + BufferSize
      BY <1>2
    <3>5. \A p \in resent : /\ p \in Packets /\ p # Syn /\ p # Fin(N + 1)
                            /\ p.seqno <= current_seqno + BufferSize
      BY <1>2, <1>4, <3>2, PacketFacts
    <3>6. SendWindow(n, width, resent)
      BY <3>1
    <3> HIDE DEF width, resent, n
    <3>7. /\ end_seq' \in {0, N + 2}
          /\ \A p \in toReceiver' :
               \/ p \in toReceiver \/ p \in resent
               \/ p \in Packets /\ p # Syn /\ p.seqno <= n + width - 1
          /\ end_seq' = 0 =>
               /\ end_seq = 0
               /\ Fin(N + 1) \in toReceiver' => Fin(N + 1) \in toReceiver \cup resent
      <4>1. resent \in SUBSET Packets
        BY <3>5
      <4>2. QED BY <1>2, <1>3, <3>4, <3>6, <4>1, SendWindowFacts DEF RtpInv
    <3>8. \A p \in Packets : p.seqno \in Int
      BY PacketFacts
    <3>9. \A p \in toReceiver' : Harmless(p)
      BY <1>2, <3>4, <3>5, <3>7, <3>8
    <3>10. QED BY <1>1, <3>1, <3>3, <3>5, <3>7, <3>9
  <2>3. CASE (n \in Cache \/ n # end_seq) /\ ~FastRetransmits(n)
    <3>1. /\ phase' = phase
          /\ times_received' =
               [k \in Cache |-> times_received[k] + (IF k = n THEN 1 ELSE 0)]
          /\ SendWindow(n, BufferSize - Cardinality(m.sacks), sacked)
      BY <2>3 DEF ReceiveAck, sacked
    <3>2. times_received' \in [Cache -> 0 .. RetransmitLimit - 1]
      <4>1. ASSUME NEW k \in Cache
            PROVE  times_received[k] + (IF k = n THEN 1 ELSE 0) \in 0 .. RetransmitLimit - 1
        <5>1. times_received[k] \in 0 .. RetransmitLimit - 1
          BY DEF RtpInv, TypeOK
        <5>2. k = n => times_received[k] + 1 < RetransmitLimit
          BY <2>3, <5>1 DEF FastRetransmits
        <5>3. QED BY <5>1, <5>2
      <4>2. QED BY <3>1, <4>1
    <3> DEFINE width == BufferSize - Cardinality(m.sacks)
    <3>3. width \in Int /\ n + width - 1 <= current_seqno + BufferSize
      BY <1>2
    <3>4. SendWindow(n, width, sacked)
      BY <3>1
    <3> HIDE DEF width, n
    <3>5. /\ end_seq' \in {0, N + 2}
          /\ \A p \in toReceiver' :
               \/ p \in toReceiver \/ p \in sacked
               \/ p \in Packets /\ p # Syn /\ p.seqno <= n + width - 1
          /\ end_seq' = 0 =>
               /\ end_seq = 0
               /\ Fin(N + 1) \in toReceiver' => Fin(N + 1) \in toReceiver \cup sacked
      <4>1. sacked \in SUBSET Packets
        BY <1>4
      <4>2. QED BY <1>2, <1>3, <3>3, <3>4, <4>1, SendWindowFacts DEF RtpInv
    <3>6. \A p \in Packets : p.seqno \in Int
      BY PacketFacts
    <3>7. \A p \in toReceiver' : Harmless(p)
      BY <1>2, <1>4, <3>3, <3>5, <3>6
    <3>8. QED BY <1>1, <1>4, <3>1, <3>2, <3>5, <3>7
  <2>4. QED BY <2>1, <2>2, <2>3
<1> HIDE DEF n, sacked
<1>6. toReceiver' \in SUBSET Packets
  BY <1>5 DEF RtpInv, TypeOK
<1>7. TypeOK'
  BY <1>1, <1>2, <1>5, <1>6 DEF RtpInv, TypeOK, receiverVars
<1>8. HandshakeInv'
  BY <1>1, <1>2, <1>5 DEF RtpInv, HandshakeInv, receiverVars
<1>9. ConnectionInv'
  BY <1>1, <1>2 DEF RtpInv, ConnectionInv, receiverVars
<1>10. FinInv'
  BY <1>1, <1>5 DEF RtpInv, FinInv, receiverVars
<1>11. InOrder' /\ NoOverrun' /\ (\A k \in toSender : Held(k.seqno - 1) <= Len(outfile))'
  BY <1>1, <1>5, <1>6, ReceiverUntouched
<1>12. Held(n - 1) <= Len(outfile)
  BY DEF RtpInv, SenderBelief, n
<1>13. SenderBelief'
  BY <1>1, <1>11, <1>12 DEF SenderBelief, Held, receiverVars
<1>14. DoneMeansDelivered'
  <2>1. SUFFICES ASSUME n \notin Cache PROVE Len(outfile) = N
    BY <1>1, <1>5 DEF DoneMeansDelivered, receiverVars
  <2>2. Held(n - 1) = N
    BY <1>2, <2>1 DEF Cache, Held
  <2>3. QED BY <1>12, <2>2, WrittenFacts DEF RtpInv
<1>15. QED BY <1>7, <1>8, <1>9, <1>10, <1>11, <1>13, <1>14 DEF RtpInv

(* The syn.  Once there is a connection it changes nothing of it; before,  *)
(* nothing but syns is under way.                                          *)
LEMMA HandleSynStep ==
  ASSUME RtpInv, HandleSyn
  PROVE  RtpInv' /\ outfile' = outfile
<1> USE RtpAssumption
<1> DEFINE cur == IF Fresh THEN -1 ELSE current_seqno
           buf == IF Fresh THEN {} ELSE seqnums
           ack == Acked(0, cur, buf)
<1>1. /\ Syn \in toReceiver /\ toReceiver' \subseteq toReceiver /\ dups' \in 0 .. MaxDups
      /\ outfile' = (IF Fresh THEN << >> ELSE outfile)
      /\ current_seqno' = ack.current /\ seqnums' = ack.buffered
      /\ toSender' = toSender \cup {Answer(ack)}
      /\ connected' = TRUE
      /\ UNCHANGED senderVars /\ sackMode' = sackMode
  BY TakeFacts DEF RtpInv, TypeOK, HandleSyn
<1>2. /\ outfile' = outfile
      /\ current_seqno' \in 0 .. N + 1 /\ current_seqno' >= current_seqno
      /\ connected => current_seqno' = current_seqno /\ seqnums' = seqnums
      /\ ~connected => /\ current_seqno' = 0 /\ seqnums' = {} /\ outfile = << >>
                       /\ phase = "handshake" /\ toSender = {} /\ toReceiver \subseteq {Syn}
  <2>1. CASE connected
    <3>1. cur = current_seqno /\ buf = seqnums /\ outfile' = outfile
      BY <1>1, <2>1 DEF Fresh
    <3>2. current_seqno \in 0 .. N + 1
      BY <2>1 DEF RtpInv, ConnectionInv, TypeOK
    <3>3. ~Accepts(0, cur)
      BY <3>1, <3>2 DEF Accepts
    <3>4. ack = [current |-> cur, buffered |-> buf, taken |-> {}]
      BY <3>3 DEF Acked
    <3>5. ack.current = cur /\ ack.buffered = buf
      BY <3>4
    <3> HIDE DEF cur, buf, ack
    <3>6. QED BY <1>1, <2>1, <3>1, <3>2, <3>5
  <2>2. CASE ~connected
    <3>1. cur = -1 /\ buf = {} /\ outfile' = << >>
      BY <1>1, <2>2 DEF Fresh
    <3>2. /\ phase = "handshake" /\ toSender = {} /\ toReceiver \subseteq {Syn}
          /\ outfile = << >> /\ current_seqno = -1
      BY <1>1, <2>2 DEF RtpInv, HandshakeInv, ConnectionInv
    <3> HIDE DEF cur, buf, ack
    <3>3. /\ ack.current \in cur .. N + 1
          /\ ack.taken = cur + 1 .. ack.current
          /\ ack.taken \subseteq buf \cup {0}
          /\ ack.buffered \subseteq buf \cup {0}
          /\ \A k \in ack.buffered : k > ack.current + 1 /\ k <= ack.current + BufferSize
          /\ 0 = cur + 1 => ack.current >= 0
      <4>1. 0 \in 0 .. N + 1 /\ cur \in -1 .. N + 1 /\ buf \in SUBSET (0 .. N + 1)
        BY <3>1
      <4>2. \A k \in buf : k > cur + 1 /\ k <= cur + BufferSize
        BY <3>1
      <4>3. QED BY <4>1, <4>2, AckedFacts DEF ack
    <3>4. ack.current = 0
      <4>1. ack.current \in 0 .. N + 1
        BY <3>1, <3>3
      <4>2. ack.current \in ack.taken
        BY <3>1, <3>3, <4>1
      <4>3. QED BY <3>1, <3>3, <4>2
    <3>5. ack.buffered = {}
      BY <3>1, <3>3, <3>4
    <3>6. QED BY <1>1, <2>2, <3>1, <3>2, <3>4, <3>5
  <2>3. QED BY <2>1, <2>2
<1>3. seqnums' \in SUBSET (1 .. N + 1)
  <2>1. CASE connected
    BY <1>2, <2>1 DEF RtpInv, TypeOK
  <2>2. CASE ~connected
    BY <1>2, <2>2
  <2>3. QED BY <2>1, <2>2
<1>4. /\ Answer(ack) \in Acks /\ Answer(ack).seqno = current_seqno' + 1
      /\ Answer(ack).sacks \subseteq seqnums'
  <2>1. sackMode \in SackModes
    BY DEF RtpInv, TypeOK
  <2> HIDE DEF ack
  <2>2. ack.current \in -1 .. N + 1 /\ ack.current >= 0 /\ ack.buffered \in SUBSET (1 .. N + 1)
    BY <1>1, <1>2, <1>3
  <2>3. QED BY <1>1, <2>1, <2>2, AnswerFacts
<1> DEFINE a == Answer(ack)
<1> HIDE DEF cur, buf, ack, a
<1>5. toSender' = toSender \cup {a}
  BY <1>1 DEF a
<1>6. a \in Acks /\ a.seqno = current_seqno' + 1 /\ a.sacks \subseteq seqnums'
  BY <1>4 DEF a
<1>7. TypeOK'
  <2>1. connected' \in BOOLEAN
    BY <1>1, Zenon
  <2>2. current_seqno' \in -1 .. N + 1
    BY <1>2
  <2>3. toSender' \in SUBSET Acks /\ toReceiver' \in SUBSET Packets
    BY <1>1, <1>5, <1>6 DEF RtpInv, TypeOK
  <2>4. QED BY <1>1, <1>2, <1>3, <2>1, <2>2, <2>3 DEF RtpInv, TypeOK, senderVars
<1>8. HandshakeInv'
  <2>1. phase' = "handshake" => current_seqno' <= 0 /\ seqnums' = {}
    BY <1>1, <1>2 DEF RtpInv, HandshakeInv, senderVars
  <2>2. QED BY <1>1, <1>2, <2>1 DEF RtpInv, HandshakeInv, senderVars
<1>9. ConnectionInv'
  <2>1. \A n \in seqnums' : n > current_seqno' + 1 /\ n <= current_seqno' + BufferSize
    BY <1>2 DEF RtpInv, ConnectionInv
  <2>2. ASSUME NEW m \in toSender'
        PROVE  /\ m.seqno <= current_seqno' + 1
               /\ \A n \in m.sacks : n <= current_seqno' + BufferSize
    <3>1. CASE m = a
      BY <1>2, <1>6, <2>1, <3>1
    <3>2. CASE m \in toSender
      <4>1. connected /\ current_seqno' = current_seqno
        BY <1>2, <3>2
      <4>2. QED BY <3>2, <4>1 DEF RtpInv, ConnectionInv
    <3>3. QED BY <1>5, <2>2, <3>1, <3>2
  <2>3. phase' # "handshake" => cum_seq' <= current_seqno' + 1
    BY <1>1, <1>2 DEF RtpInv, ConnectionInv, senderVars
  <2>4. QED BY <1>1, <1>2, <2>1, <2>2, <2>3 DEF ConnectionInv
<1>10. FinInv'
  BY <1>1, <1>2 DEF RtpInv, FinInv, senderVars
<1>11. InOrder'
  <2>1. Len(outfile') = Held(current_seqno')
    <3>1. CASE connected
      BY <1>2, <3>1 DEF RtpInv, InOrder, Held
    <3>2. CASE ~connected
      BY <1>2, <3>2 DEF Held
    <3>3. QED BY <3>1, <3>2
  <2>2. QED BY <1>2, <2>1 DEF RtpInv, InOrder, Held
<1>12. SenderBelief'
  <2>1. Held(a.seqno - 1) <= Len(outfile')
    <3>1. a.seqno \in Int /\ current_seqno' \in Int /\ a.seqno = current_seqno' + 1
      <4>1. a.seqno \in 1 .. N + 2
        BY <1>6, AckMessageFacts
      <4>2. QED BY <1>2, <1>6, <4>1
    <3>2. Held(a.seqno - 1) = Held(current_seqno')
      BY <3>1, HeldFacts
    <3>3. Held(current_seqno') \in 0 .. N
      BY <1>2, HeldFacts
    <3>4. QED BY <1>1, <1>11, <3>2, <3>3 DEF InOrder
  <2>2. QED BY <1>1, <1>2, <1>5, <2>1 DEF RtpInv, SenderBelief, Held, senderVars
<1>13. DoneMeansDelivered'
  BY <1>1, <1>2 DEF RtpInv, DoneMeansDelivered, senderVars
<1>14. NoOverrun'
  <2>1. CASE connected
    BY <1>1, <1>2, <2>1 DEF RtpInv, NoOverrun
  <2>2. CASE ~connected
    BY <1>1, <1>2, <2>2, PacketFacts DEF NoOverrun
  <2>3. QED BY <2>1, <2>2
<1>15. QED BY <1>2, <1>7, <1>8, <1>9, <1>10, <1>11, <1>12, <1>13, <1>14 DEF RtpInv

(* A chunk or the fin.  What the connection takes off its buffer is what   *)
(* follows what it has written, and is appended in order.                  *)
LEMMA HandleDatStep ==
  ASSUME RtpInv, NEW m \in toReceiver, HandleDat(m)
  PROVE  RtpInv' /\ Len(outfile') >= Len(outfile)
<1> USE RtpAssumption
<1>1. /\ m # Syn /\ toReceiver' \subseteq toReceiver /\ dups' \in 0 .. MaxDups
      /\ UNCHANGED senderVars /\ connected' = connected /\ sackMode' = sackMode
  BY TakeFacts DEF RtpInv, TypeOK, HandleDat
<1>2. phase # "handshake"
  BY <1>1 DEF RtpInv, HandshakeInv
<1>3. CASE ~connected
  <2>1. UNCHANGED << current_seqno, seqnums, outfile, toSender >>
    BY <1>3 DEF HandleDat
  <2>2. TypeOK'
    BY <1>1, <2>1 DEF RtpInv, TypeOK, senderVars
  <2>3. HandshakeInv' /\ ConnectionInv' /\ FinInv'
    BY <1>1, <1>3, <2>1 DEF RtpInv, HandshakeInv, ConnectionInv, FinInv, senderVars
  <2>4. InOrder' /\ SenderBelief' /\ DoneMeansDelivered' /\ NoOverrun'
    BY <1>1, <1>3, <2>1 DEF RtpInv, InOrder, SenderBelief, DoneMeansDelivered, NoOverrun,
                            Held, senderVars
  <2>5. Len(outfile') >= Len(outfile)
    BY <2>1, WrittenFacts DEF RtpInv
  <2>6. QED BY <2>2, <2>3, <2>4, <2>5 DEF RtpInv
<1>4. CASE connected
  <2> DEFINE cur == current_seqno
             ack == Acked(m.seqno, current_seqno, seqnums)
             a   == Answer(ack)
  <2>1. /\ outfile' = outfile \o Chunks(ack)
        /\ current_seqno' = ack.current /\ seqnums' = ack.buffered
        /\ toSender' = toSender \cup {a}
    BY <1>4 DEF HandleDat
  <2>2. m.seqno \in 1 .. N + 1 /\ (m # Fin(N + 1) => m.seqno <= N)
    BY <1>1, PacketFacts DEF RtpInv, TypeOK
  <2>3. cur \in 0 .. N + 1 /\ seqnums \in SUBSET (1 .. N + 1)
    BY <1>4 DEF RtpInv, ConnectionInv, TypeOK
  <2>4. /\ ack.current \in cur .. N + 1
        /\ ack.taken = cur + 1 .. ack.current
        /\ ack.taken \subseteq seqnums \cup {m.seqno}
        /\ ack.buffered \subseteq seqnums \cup {m.seqno}
        /\ \A k \in ack.buffered : k > ack.current + 1 /\ k <= ack.current + BufferSize
    <3> DEFINE n == m.seqno
    <3>1. n \in 0 .. N + 1 /\ cur \in -1 .. N + 1 /\ seqnums \in SUBSET (0 .. N + 1)
      BY <2>2, <2>3
    <3>2. \A k \in seqnums : k > cur + 1 /\ k <= cur + BufferSize
      BY <1>4 DEF RtpInv, ConnectionInv
    <3>3. ack = Acked(n, cur, seqnums)
      OBVIOUS
    <3> HIDE DEF n, cur, ack
    <3>4. /\ ack.current \in cur .. N + 1
          /\ ack.taken = cur + 1 .. ack.current
          /\ ack.taken \subseteq seqnums \cup {n}
          /\ ack.buffered \subseteq seqnums \cup {n}
          /\ \A k \in ack.buffered : k > ack.current + 1 /\ k <= ack.current + BufferSize
      BY <3>1, <3>2, <3>3, AckedFacts
    <3>5. QED BY <3>4 DEF n
  <2>5. /\ current_seqno' \in 0 .. N + 1 /\ current_seqno' >= current_seqno
        /\ seqnums' \in SUBSET (1 .. N + 1)
    <3> HIDE DEF ack
    <3>1. current_seqno' \in cur .. N + 1
      BY <2>1, <2>4
    <3>2. seqnums' \subseteq seqnums \cup {m.seqno}
      BY <2>1, <2>4
    <3> HIDE DEF cur
    <3>3. current_seqno' \in 0 .. N + 1 /\ current_seqno' >= cur
      BY <2>3, <3>1
    <3>4. seqnums' \in SUBSET (1 .. N + 1)
      BY <2>2, <2>3, <3>2
    <3>5. QED BY <3>3, <3>4 DEF cur
  <2>6. a \in Acks /\ a.seqno = current_seqno' + 1 /\ a.sacks \subseteq seqnums'
    <3>1. sackMode \in SackModes
      BY DEF RtpInv, TypeOK
    <3> HIDE DEF ack
    <3>2. ack.current \in -1 .. N + 1 /\ ack.current >= 0 /\ ack.buffered \in SUBSET (1 .. N + 1)
      BY <2>1, <2>5
    <3>3. QED BY <2>1, <3>1, <3>2, AnswerFacts
  <2>7. /\ outfile' = [i \in 1 .. Held(current_seqno') |-> i]
        /\ Len(outfile') = Held(current_seqno') /\ Len(outfile') >= Len(outfile)
        /\ outfile' \in Seq(Cache)
    <3> DEFINE from == Held(current_seqno)
               to   == Held(current_seqno')
    <3>1. from \in 0 .. N /\ to \in 0 .. N /\ from <= to
      BY <2>3, <2>5 DEF Held
    <3>2. outfile \in Seq(Cache) /\ Len(outfile) = from
          /\ outfile = [i \in 1 .. from |-> i]
      BY <1>4, WrittenFacts DEF RtpInv, InOrder
    <3>3. ack.taken \cap Cache = from + 1 .. to
      <4> HIDE DEF ack
      <4>1. ack.taken = cur + 1 .. current_seqno'
        BY <2>1, <2>4
      <4>2. QED BY <2>3, <2>5, <4>1 DEF Held, Cache
    <3> HIDE DEF from, to
    <3>4. Chunks(ack) = [i \in 1 .. to - from |-> from + i]
      <4>1. from \in Nat /\ to \in Nat /\ from <= to
        BY <3>1
      <4>2. Chunks(ack) = Sorted(from + 1 .. to)
        BY <3>3 DEF Chunks
      <4>3. Sorted(from + 1 .. to) = [i \in 1 .. to - from |-> from + i]
        BY <4>1, SortedInterval
      <4>4. QED BY <4>2, <4>3
    <3>5. outfile' = [i \in 1 .. from |-> i] \o [i \in 1 .. to - from |-> from + i]
      BY <2>1, <3>2, <3>4
    <3>6. outfile' = [i \in 1 .. to |-> i] /\ Len(outfile') = to
      BY <3>1, <3>5
    <3>7. outfile' \in Seq(Cache)
      BY <3>1, <3>6 DEF Cache
    <3>8. QED BY <3>1, <3>2, <3>6, <3>7 DEF to
  <2>8. end_seq = 0 => current_seqno' <= N /\ N + 1 \notin seqnums'
    <3>1. SUFFICES ASSUME end_seq = 0 PROVE current_seqno' <= N /\ N + 1 \notin seqnums'
      OBVIOUS
    <3>2. N + 1 \notin seqnums \cup {m.seqno} /\ current_seqno <= N
      BY <2>2, <3>1 DEF RtpInv, FinInv
    <3> HIDE DEF ack
    <3>3. current_seqno' # N + 1
      BY <2>1, <2>3, <2>4, <3>2
    <3>4. QED BY <2>1, <2>4, <2>5, <3>2, <3>3
  <2> HIDE DEF ack, a, cur
  <2>9. TypeOK'
    <3>1. toSender' \in SUBSET Acks /\ toReceiver' \in SUBSET Packets
      BY <1>1, <2>1, <2>6 DEF RtpInv, TypeOK
    <3>2. current_seqno' \in -1 .. N + 1
      BY <2>5
    <3>3. QED BY <1>1, <2>5, <2>7, <3>1, <3>2 DEF RtpInv, TypeOK, senderVars
  <2>10. HandshakeInv'
    BY <1>1, <1>2, <1>4 DEF RtpInv, HandshakeInv, senderVars
  <2>11. ConnectionInv'
    <3>1. \A n \in seqnums' : n > current_seqno' + 1 /\ n <= current_seqno' + BufferSize
      BY <2>1, <2>4
    <3>2. ASSUME NEW k \in toSender'
          PROVE  /\ k.seqno <= current_seqno' + 1
                 /\ \A n \in k.sacks : n <= current_seqno' + BufferSize
      <4>1. CASE k = a
        <5>1. k.seqno = current_seqno' + 1 /\ k.sacks \subseteq seqnums' /\ current_seqno' \in Int
          BY <2>5, <2>6, <4>1
        <5>2. k.seqno <= current_seqno' + 1
          BY <5>1
        <5>3. QED BY <3>1, <5>1, <5>2
      <4>2. CASE k \in toSender
        <5>1. k \in Acks
          BY <4>2 DEF RtpInv, TypeOK
        <5>2. k.seqno \in Int /\ \A n \in k.sacks : n \in Int
          BY <5>1, AckMessageFacts
        <5>3. /\ k.seqno <= current_seqno + 1
              /\ \A n \in k.sacks : n <= current_seqno + BufferSize
          BY <1>4, <4>2 DEF RtpInv, ConnectionInv
        <5>4. current_seqno \in Int /\ current_seqno' \in Int /\ current_seqno <= current_seqno'
          BY <2>3, <2>5 DEF cur
        <5>5. QED BY <5>2, <5>3, <5>4
      <4>3. QED BY <2>1, <3>2, <4>1, <4>2
    <3>3. cum_seq' <= current_seqno' + 1
      <4>1. cum_seq' = cum_seq /\ cum_seq \in Int
        BY <1>1 DEF RtpInv, TypeOK, senderVars
      <4>2. cum_seq <= current_seqno + 1
        BY <1>2, <1>4 DEF RtpInv, ConnectionInv
      <4>3. current_seqno \in Int /\ current_seqno' \in Int /\ current_seqno <= current_seqno'
        BY <2>3, <2>5 DEF cur
      <4> DEFINE next == current_seqno'
      <4>4. cum_seq <= next + 1
        <5>1. next \in Int /\ current_seqno <= next
          BY <4>3
        <5> HIDE DEF next
        <5>2. QED BY <4>1, <4>2, <4>3, <5>1
      <4>5. QED BY <4>1, <4>4
    <3>4. QED BY <1>1, <1>4, <2>5, <3>1, <3>2, <3>3 DEF ConnectionInv
  <2>12. FinInv'
    BY <1>1, <2>8 DEF RtpInv, FinInv, senderVars
  <2>13. InOrder'
    BY <2>7 DEF InOrder
  <2>14. SenderBelief'
    <3>1. Held(a.seqno - 1) <= Len(outfile')
      <4>1. a.seqno \in 1 .. N + 2
        BY <2>6, AckMessageFacts
      <4>2. a.seqno \in Int /\ current_seqno' \in Int /\ a.seqno = current_seqno' + 1
        BY <2>5, <2>6, <4>1
      <4>3. Held(a.seqno - 1) = Held(current_seqno')
        BY <4>2, HeldFacts
      <4>4. Held(current_seqno') \in 0 .. N
        BY <2>5, HeldFacts
      <4>5. QED BY <2>7, <4>3, <4>4
    <3>0. Len(outfile) \in Int /\ Len(outfile') \in Int /\ Len(outfile) <= Len(outfile')
      <4>1. Len(outfile) \in 0 .. N
        BY WrittenFacts DEF RtpInv
      <4>2. Len(outfile') \in 0 .. N
        BY <2>5, <2>7, HeldFacts
      <4>3. Len(outfile) <= Len(outfile')
        BY <2>7
      <4>4. Len(outfile) \in Int
        BY <4>1
      <4>5. Len(outfile') \in Int
        BY <4>2
      <4>6. QED BY <4>3, <4>4, <4>5
    <3>2. ASSUME NEW k \in toSender PROVE Held(k.seqno - 1) <= Len(outfile')
      <4>1. k \in Acks /\ Held(k.seqno - 1) <= Len(outfile)
        BY DEF RtpInv, TypeOK, SenderBelief
      <4>2. k.seqno \in 1 .. N + 2
        BY <4>1, AckMessageFacts
      <4>3. Held(k.seqno - 1) \in Int
        BY <4>2, HeldFacts
      <4>4. QED BY <4>1, <4>3, <3>0
    <3>3. Held(cum_seq - 1) <= Len(outfile')
      <4>1. cum_seq \in 0 .. N + 2 /\ Held(cum_seq - 1) <= Len(outfile)
        BY <1>2 DEF RtpInv, TypeOK, SenderBelief
      <4>2. Held(cum_seq - 1) \in Int
        BY <4>1, HeldFacts
      <4>3. QED BY <4>1, <4>2, <3>0
    <3>4. QED BY <1>1, <2>1, <3>1, <3>2, <3>3 DEF SenderBelief, Held, senderVars
  <2>15. DoneMeansDelivered'
    <3>1. Len(outfile') \in 0 .. N
      BY <2>5, <2>7, HeldFacts
    <3>2. phase = "done" => Len(outfile) = N
      BY DEF RtpInv, DoneMeansDelivered
    <3>3. phase = "done" => Len(outfile') = N
      <4> DEFINE l == Len(outfile')
      <4>1. l \in 0 .. N
        BY <3>1
      <4>2. l >= Len(outfile)
        BY <2>7
      <4> HIDE DEF l
      <4>3. phase = "done" => l = N
        BY <3>2, <4>1, <4>2
      <4>4. QED BY <4>3 DEF l
    <3>4. phase' = phase
      BY <1>1 DEF senderVars
    <3>5. QED BY <3>3, <3>4 DEF DoneMeansDelivered
  <2>16. NoOverrun'
    <3>1. ASSUME NEW p \in toReceiver' PROVE p.seqno <= current_seqno' + BufferSize
      <4>1. p \in toReceiver /\ p.seqno \in Int /\ p.seqno <= current_seqno + BufferSize
        BY <1>1, <1>4, PacketFacts DEF RtpInv, TypeOK, NoOverrun
      <4>2. current_seqno \in Int /\ current_seqno' \in Int /\ current_seqno <= current_seqno'
        BY <2>3, <2>5 DEF cur
      <4>3. QED BY <4>1, <4>2
    <3>2. QED BY <3>1 DEF NoOverrun
  <2>17. QED BY <2>7, <2>9, <2>10, <2>11, <2>12, <2>13, <2>14, <2>15, <2>16 DEF RtpInv
<1>5. QED BY <1>3, <1>4

LEMMA NextStep ==
  ASSUME RtpInv, [Next]_vars
  PROVE  RtpInv' /\ Len(outfile') >= Len(outfile)
<1>1. Len(outfile) \in Nat
  BY WrittenFacts, RtpAssumption DEF RtpInv
<1>2. CASE HandshakeTimeout
  BY <1>1, <1>2, HandshakeTimeoutStep DEF HandshakeTimeout, receiverVars
<1>3. CASE Timeout
  BY <1>1, <1>3, TimeoutStep DEF Timeout, receiverVars
<1>4. CASE HandleSyn
  BY <1>1, <1>4, HandleSynStep
<1>5. CASE Cleanup
  <2>1. outfile' = outfile
    BY <1>5 DEF Cleanup
  <2>2. QED BY <1>1, <1>5, <2>1, CleanupStep
<1>6. CASE \E m \in toSender : HandshakeReply(m) \/ ReceiveAck(m)
  <2>1. PICK m \in toSender : HandshakeReply(m) \/ ReceiveAck(m)
    BY <1>6
  <2>2. CASE HandshakeReply(m)
    <3>1. outfile' = outfile
      BY <2>2 DEF HandshakeReply, receiverVars
    <3>2. QED BY <1>1, <2>2, <3>1, HandshakeReplyStep
  <2>3. CASE ReceiveAck(m)
    <3>1. outfile' = outfile
      BY <2>3 DEF ReceiveAck, receiverVars
    <3>2. QED BY <1>1, <2>3, <3>1, ReceiveAckStep
  <2>4. QED BY <2>1, <2>2, <2>3
<1>7. CASE \E m \in toReceiver : HandleDat(m)
  BY <1>7, HandleDatStep
<1>8. CASE Lose /\ UNCHANGED << senderVars, receiverVars, dups >>
  BY <1>1, <1>8, LoseStep DEF receiverVars
<1>9. CASE UNCHANGED vars
  BY <1>1, <1>9, StutterStep DEF vars, receiverVars
<1>10. QED BY <1>2, <1>3, <1>4, <1>5, <1>6, <1>7, <1>8, <1>9 DEF Next

(* The invariant holds for every length of the file, window, limit of      *)
(* retransmissions, mode of acknowledgement and number of packets lost or  *)
(* duplicated.                                                             *)
THEOREM Invariant == Spec => []RtpInv
<1>1. Init => RtpInv
  BY InitInv
<1>2. RtpInv /\ [Next]_vars => RtpInv'
  BY NextStep
<1>3. QED BY <1>1, <1>2, PTL DEF Spec

(* The file is written in order, each chunk once.                          *)
THEOREM WrittenInOrder == Spec => []InOrder
<1>1. RtpInv => InOrder
  BY DEF RtpInv
<1>2. QED BY <1>1, Invariant, PTL

(* The sender takes nothing for received that has not been written.        *)
THEOREM SenderLagsBehind == Spec => []SenderBelief
<1>1. RtpInv => SenderBelief
  BY DEF RtpInv
<1>2. QED BY <1>1, Invariant, PTL

(* A sender that has stopped, even by a timeout, leaves a complete file.   *)
THEOREM DeliveredWhenDone == Spec => []DoneMeansDelivered
<1>1. RtpInv => DoneMeansDelivered
  BY DEF RtpInv
<1>2. QED BY <1>1, Invariant, PTL

(* Nothing that is sent lies outside the window of the receiver.           *)
THEOREM WindowKept == Spec => []NoOverrun
<1>1. RtpInv => NoOverrun
  BY DEF RtpInv
<1>2. QED BY <1>1, Invariant, PTL

(* No step takes anything out of the file.                                 *)
THEOREM FileOnlyGrows == Spec => NeverTruncated
<1>1. RtpInv /\ [Next]_vars => [Len(outfile') >= Len(outfile)]_vars
  BY NextStep
<1>2. QED BY <1>1, Invariant, PTL DEF Spec, NeverTruncated
=============================================================================
