------------------------- MODULE ChannelRing_proofs -------------------------
(***************************************************************************)
(* The message ring is a FIFO, whatever the widths, the ring's size and    *)
(* the lengths.  The counters wrap, so the invariant speaks of counters    *)
(* that do not: T and H stand for all the slots consumed and produced so   *)
(* far, and pos for the places of the messages not yet seen.               *)
(***************************************************************************)
EXTENDS ChannelRing, TLAPS

(* Division with remainder. *)

\* Quotient and remainder by a positive number, as the counters' masks use them.
LEMMA DivMod ==
  ASSUME NEW a \in Int, NEW d \in Nat \ {0}
  PROVE  a \div d \in Int /\ a % d \in 0 .. d - 1 /\ a = d * (a \div d) + (a % d)
  OBVIOUS

\* A multiple of d with a positive factor is at least d.
LEMMA Multiple ==
  ASSUME NEW d \in Nat \ {0}, NEW k \in Int, k >= 1
  PROVE  d * k >= d
  OBVIOUS

\* The only multiple of d strictly between -d and d is zero.
LEMMA SmallMultiple ==
  ASSUME NEW d \in Nat \ {0}, NEW k \in Int, d * k < d, d * k > 0 - d
  PROVE  k = 0
  <1>1. ~(k >= 1)
    BY Multiple
  <1>2. ~(k <= -1)
    <2> SUFFICES ASSUME k <= -1 PROVE FALSE
      OBVIOUS
    <2>1. d * (-k) >= d
      BY Multiple
    <2>2. d * (-k) = - (d * k)
      OBVIOUS
    <2> QED
      BY <2>1, <2>2
  <1> QED
    BY <1>1, <1>2

\* Quotient and remainder are unique.
LEMMA Unique ==
  ASSUME NEW a \in Int, NEW d \in Nat \ {0}, NEW q \in Int, NEW r \in 0 .. d - 1,
         a = d * q + r
  PROVE  a \div d = q /\ a % d = r
  <1> DEFINE p == a \div d
             s == a % d
  <1>1. p \in Int /\ s \in 0 .. d - 1 /\ a = d * p + s
    BY DivMod
  <1> HIDE DEF p, s
  <1>2. d * (p - q) = r - s
    <2>1. d * (p - q) = d * p - d * q
      BY <1>1
    <2> QED
      BY <1>1, <2>1
  <1>3. p - q = 0
    BY <1>1, <1>2, SmallMultiple
  <1>4. p = q
    BY <1>1, <1>3
  <1>5. s = r
    BY <1>1, <1>4
  <1> QED
    BY <1>4, <1>5 DEF p, s

\* Counting on from a wrapped counter: (H % Wrap + n) % Wrap.
LEMMA ModPlus ==
  ASSUME NEW d \in Nat \ {0}, NEW a \in Int, NEW n \in Int
  PROVE  ((a % d) + n) % d = (a + n) % d
  <1>1. PICK q \in Int : a = d * q + (a % d)
    BY DivMod, ZenonT(60)
  <1> DEFINE x == (a % d) + n
  <1>2. a % d \in Int /\ x \in Int
    BY DivMod
  <1>3. PICK k \in Int : x = d * k + (x % d) /\ x % d \in 0 .. d - 1
    BY <1>2, DivMod, ZenonT(60)
  <1> HIDE DEF x
  <1>4. a + n = d * q + x
    BY <1>1, <1>2 DEF x
  <1>5. d * q + d * k = d * (q + k)
    OBVIOUS
  <1>6. a + n = d * (q + k) + (x % d)
    BY <1>2, <1>3, <1>4, <1>5
  <1>7. (a + n) % d = x % d
    <2>1. a + n \in Int /\ q + k \in Int
      OBVIOUS
    <2> QED
      BY ONLY <1>3, <1>6, <2>1, Unique, d \in Nat \ {0}, ZenonT(60)
  <1> QED
    BY <1>7 DEF x

\* A number below d is its own remainder.
LEMMA ModSmall ==
  ASSUME NEW d \in Nat \ {0}, NEW a \in 0 .. d - 1
  PROVE  a % d = a
  <1>1. a = d * 0 + a
    OBVIOUS
  <1> QED
    BY <1>1, Unique

\* Two counters less than d apart have different remainders.
LEMMA ModDiffers ==
  ASSUME NEW d \in Nat \ {0}, NEW p \in Int, NEW q \in Int, p < q, q < p + d
  PROVE  p % d # q % d
  <1> SUFFICES ASSUME p % d = q % d PROVE FALSE
    OBVIOUS
  <1>1. PICK j \in Int : p = d * j + (p % d)
    BY DivMod, ZenonT(60)
  <1>2. PICK k \in Int : q = d * k + (q % d)
    BY DivMod, ZenonT(60)
  <1>3. d * (k - j) = d * k - d * j
    OBVIOUS
  <1>4. d * (k - j) = q - p
    <2>1. p % d \in Int
      BY DivMod
    <2> QED
      BY <1>1, <1>2, <1>3, <2>1
  <1>5. k - j = 0
    BY <1>4, SmallMultiple
  <1>6. q - p = 0
    BY <1>4, <1>5
  <1> QED
    BY <1>6

\* Masking a wrapped counter: the ring's size divides the counters' range.
LEMMA MaskWrapped ==
  ASSUME NEW a \in Int
  PROVE  Index(a % Wrap) = a % nelems
  <1>1. Wrap \in Nat \ {0} /\ nelems \in Nat \ {0} /\ Wrap % nelems = 0
    BY RingAssumption
  <1>2. PICK w \in Int : Wrap = nelems * w
    <2>1. /\ Wrap \div nelems \in Int
          /\ Wrap = nelems * (Wrap \div nelems) + (Wrap % nelems)
      BY <1>1, DivMod
    <2>2. Wrap = nelems * (Wrap \div nelems)
      BY <1>1, <2>1
    <2> QED
      BY <2>1, <2>2
  <1>3. PICK q \in Int : a = Wrap * q + (a % Wrap)
    BY <1>1, DivMod, ZenonT(60)
  <1> DEFINE x == a % Wrap
  <1>4. x \in Int
    BY <1>1, DivMod
  <1>5. PICK k \in Int : x = nelems * k + (x % nelems) /\ x % nelems \in 0 .. nelems - 1
    BY <1>1, <1>4, DivMod, ZenonT(60)
  <1> HIDE DEF x
  <1>6. Wrap * q = nelems * (w * q)
    BY <1>1, <1>2
  <1>7. nelems * (w * q) + nelems * k = nelems * (w * q + k) /\ w * q + k \in Int
    BY <1>1
  <1>8. a = nelems * (w * q + k) + (x % nelems)
    <2>1. a = Wrap * q + x
      BY <1>3 DEF x
    <2>2. x % nelems \in Int /\ w * q \in Int
      BY <1>5
    <2>3. nelems * (w * q) \in Int /\ nelems * k \in Int
      BY <1>1, <2>2
    <2>4. a = (nelems * (w * q) + nelems * k) + (x % nelems)
      BY ONLY <1>5, <1>6, <2>1, <2>2, <2>3
    <2> QED
      BY <1>7, <2>4
  <1>9. PICK z \in Int, r \in 0 .. nelems - 1 : a = nelems * z + r /\ r = x % nelems
    BY <1>5, <1>7, <1>8, Zenon
  <1>10. a % nelems = r
    BY ONLY <1>1, <1>9, a \in Int, Unique, Zenon
  <1> QED
    BY <1>9, <1>10 DEF x, Index

\* roundup2(length, slot_size) / slot_size is a positive number of slots, and a whole
\* number of slots is not rounded up: a MSG_NOP takes exactly the slots it pads.
LEMMA SlotsOfFacts ==
  /\ \A length \in Nat \ {0} : SlotsOf(length) \in Nat \ {0}
  /\ \A k \in Nat : SlotsOf(k * SlotSize) = k
  /\ \A k \in Nat \ {0} : k * SlotSize \in Nat \ {0}
  <1>1. SlotSize \in Nat \ {0}
    BY RingAssumption
  <1>2. ASSUME NEW length \in Nat \ {0} PROVE SlotsOf(length) \in Nat \ {0}
    <2> DEFINE a == length + SlotSize - 1
               q == a \div SlotSize
               r == a % SlotSize
    <2>1. a \in Int /\ a >= SlotSize
      BY <1>1
    <2>2. q \in Int /\ r \in 0 .. SlotSize - 1 /\ a = SlotSize * q + r
      BY <1>1, <2>1, DivMod, ZenonT(60)
    <2> HIDE DEF a, q, r
    <2>3. SlotSize * q > 0
      BY <1>1, <2>1, <2>2
    <2>4. q >= 1
      BY <1>1, <2>2, <2>3
    <2> QED
      BY <2>2, <2>4 DEF SlotsOf, q, a
  <1>3. ASSUME NEW k \in Nat PROVE SlotsOf(k * SlotSize) = k
    <2>1. k * SlotSize = SlotSize * k /\ k * SlotSize \in Int
      BY <1>1
    <2>2. SlotSize - 1 \in 0 .. SlotSize - 1
      BY <1>1
    <2>3. k * SlotSize + SlotSize - 1 = SlotSize * k + (SlotSize - 1)
      BY <1>1, <2>1
    <2> QED
      BY <1>1, <2>1, <2>2, <2>3, Unique DEF SlotsOf
  <1>4. ASSUME NEW k \in Nat \ {0} PROVE k * SlotSize \in Nat \ {0}
    BY <1>1, Multiple
  <1> QED
    BY <1>2, <1>3, <1>4

-----------------------------------------------------------------------------
(* The inductive invariant. *)

Paddings == [id : {Nop}, length : Nat \ {0}]

\* The slots a message takes.
Size(m) == SlotsOf(m.length)

\* A consumer that has read up to counter p comes next to the message at counter q:
\* at once, or past the padding at the end of the ring.
Follows(p, q) ==
    \/ p = q
    \/ slots[p % nelems].id = Nop /\ p + Size(slots[p % nelems]) = q

\* The counter up to which AgentThread has seen the messages, if T slots are consumed.
Seen(T) == IF \E m \in msg : m.id # Nop THEN T + Size(slots[T % nelems]) ELSE T

\* The counters are those of T consumed and H produced slots, at most a ring apart;
\* what AgentThread has peeked at is in the slot at the tail.
Counters(T, H) ==
    /\ T \in Nat /\ H \in Nat /\ T <= H /\ H - T <= nelems
    /\ tail = T % Wrap /\ head = H % Wrap
    /\ msg = {} \/ (msg = {slots[T % nelems]} /\ T < H)

\* The unseen messages lie in their slots at counters pos, one after the other.
Placed(T, H, pos) ==
    /\ pos \in [1 .. Len(sent) -> Nat]
    /\ \A i \in 1 .. Len(sent) :
         /\ slots[pos[i] % nelems] = sent[i]
         /\ Seen(T) <= pos[i] /\ pos[i] + Size(sent[i]) <= H
         /\ \A j \in 1 .. Len(sent) : i < j => pos[i] + Size(sent[i]) <= pos[j]

\* From what AgentThread has seen it comes to every unseen message in turn, and then
\* to the head.
Linked(T, H, pos) ==
    /\ sent = << >> => Seen(T) = H
    /\ sent # << >> => /\ Follows(Seen(T), pos[1])
                       /\ pos[Len(sent)] + Size(sent[Len(sent)]) = H
    /\ \A i \in 1 .. Len(sent) - 1 : Follows(pos[i] + Size(sent[i]), pos[i + 1])

RingTypeOK ==
    /\ slots \in [0 .. nelems - 1 -> Messages \cup Paddings]
    /\ sent \in Seq(Messages)
    /\ overflow \in BOOLEAN /\ crashed \in BOOLEAN

IInv == /\ RingTypeOK
        /\ \E T, H \in Nat : \E pos \in [1 .. Len(sent) -> Nat] :
             Counters(T, H) /\ Placed(T, H, pos) /\ Linked(T, H, pos)

\* What a slot holds takes at least one slot.
LEMMA SizeFacts ==
  ASSUME NEW m \in Messages \cup Paddings
  PROVE  Size(m) \in Nat \ {0} /\ (m \in Messages => m.id # Nop)
  <1>1. m.length \in Nat \ {0}
    BY RingAssumption, ZenonT(60) DEF Messages, Paddings
  <1>2. m \in Messages => m.id # Nop
    BY RingAssumption DEF Messages, Nop
  <1> QED
    BY <1>1, <1>2, SlotsOfFacts DEF Size

\* Masked counters are slots.
LEMMA IndexFacts ==
  ASSUME NEW p \in Int
  PROVE  p % nelems \in 0 .. nelems - 1
  BY RingAssumption, DivMod

\* What the code computes from head and tail: the slots in use, whether the ring is
\* empty, and the slots at the two ends.
LEMMA CounterFacts ==
  ASSUME NEW T, NEW H, Counters(T, H)
  PROVE  /\ Used = H - T
         /\ tail = head <=> T = H
         /\ Index(tail) = T % nelems /\ Index(head) = H % nelems
         /\ \A n \in Nat : Index(head + n) = (H + n) % nelems
         /\ \A n \in Nat : (head + n) % Wrap = (H + n) % Wrap
         /\ \A n \in Nat : (tail + n) % Wrap = (T + n) % Wrap
  <1>1. /\ T \in Nat /\ H \in Nat /\ T <= H /\ H - T <= nelems
        /\ tail = T % Wrap /\ head = H % Wrap
    BY DEF Counters
  <1>2. /\ Wrap \in Nat \ {0} /\ nelems \in Nat \ {0} /\ nelems < Wrap
    BY RingAssumption
  <1>3. tail \in Int /\ head \in Int /\ T \in Int /\ H \in Int
    BY <1>1, <1>2, DivMod
  <1>4. (head - tail) % Wrap = H - T
    <2>1. (head + (- tail)) % Wrap = (H + (- tail)) % Wrap
      <3>1. - tail \in Int
        BY <1>3
      <3> QED
        BY ONLY <1>1, <1>2, <1>3, <3>1, ModPlus, ZenonT(60)
    <2>2. PICK q \in Int : T = Wrap * q + tail
      BY <1>1, <1>2, <1>3, DivMod, ZenonT(60)
    <2>3. H - T \in 0 .. Wrap - 1
      BY <1>1, <1>2
    <2>4. H + (- tail) = Wrap * q + (H - T)
      BY <1>2, <1>3, <2>2
    <2>5. H + (- tail) \in Int
      BY <1>3
    <2>6. (H + (- tail)) % Wrap = H - T
      BY ONLY <1>2, <2>3, <2>4, <2>5, Unique, ZenonT(60)
    <2>7. head + (- tail) = head - tail
      BY <1>3
    <2> QED
      BY <2>1, <2>6, <2>7
  <1>5. tail = head <=> T = H
    <2>1. T = H => tail = head
      BY <1>1
    <2>2. ASSUME T # H PROVE tail # head
      <3>1. T < H /\ H < T + Wrap
        BY <1>1, <1>2, <2>2
      <3> QED
        BY <1>1, <1>2, <1>3, <3>1, ModDiffers, ZenonT(60)
    <2> QED
      BY <2>1, <2>2
  <1>6. Index(tail) = T % nelems /\ Index(head) = H % nelems
    BY <1>1, <1>3, MaskWrapped
  <1>7. ASSUME NEW n \in Nat
        PROVE  /\ (head + n) % Wrap = (H + n) % Wrap
               /\ (tail + n) % Wrap = (T + n) % Wrap
               /\ Index(head + n) = (H + n) % nelems
    <2>1. n \in Int /\ head + n \in Int /\ H + n \in Int
      BY <1>3
    <2>2. (head + n) % Wrap = (H + n) % Wrap
      BY <1>1, <1>2, <1>3, <2>1, ModPlus, ZenonT(60)
    <2>3. (tail + n) % Wrap = (T + n) % Wrap
      BY <1>1, <1>2, <1>3, <2>1, ModPlus, ZenonT(60)
    <2>4. (head + n) % nelems = ((head % nelems) + n) % nelems
      BY <1>2, <1>3, <2>1, ModPlus, ZenonT(60)
    <2>5. (H + n) % nelems = ((H % nelems) + n) % nelems
      BY <1>2, <1>3, <2>1, ModPlus, ZenonT(60)
    <2>6. head % nelems = H % nelems
      BY <1>6 DEF Index
    <2> QED
      BY <2>2, <2>3, <2>4, <2>5, <2>6 DEF Index
  <1> QED
    BY <1>4, <1>5, <1>6, <1>7 DEF Used

-----------------------------------------------------------------------------
(* The steps. *)

\* The state of the ring, with the counters that do not wrap.
Ring(T, H, pos) == RingTypeOK /\ Counters(T, H) /\ Placed(T, H, pos) /\ Linked(T, H, pos)

\* Producing writes behind the head: slots in use keep what they hold.
LEMMA InUseKept ==
  ASSUME NEW T \in Nat, NEW H \in Nat, NEW k \in Nat, NEW p \in Int,
         T <= p, p < H, H + k < T + nelems
  PROVE  p % nelems # (H + k) % nelems
  <1>1. p < H + k /\ H + k < p + nelems /\ H + k \in Int
    BY RingAssumption
  <1> QED
    BY <1>1, ModDiffers, RingAssumption, ZenonT(60)

\* What has been seen lies between the tail and the head.
LEMMA SeenFacts ==
  ASSUME NEW T, NEW H, NEW pos, Ring(T, H, pos)
  PROVE  /\ Seen(T) \in Nat /\ T <= Seen(T) /\ Seen(T) <= H
         /\ slots[T % nelems] \in Messages \cup Paddings
  <1>1. T \in Nat /\ H \in Nat /\ T <= H
    BY DEF Ring, Counters
  <1>2. slots[T % nelems] \in Messages \cup Paddings
    BY <1>1, IndexFacts DEF Ring, RingTypeOK
  <1>3. Seen(T) \in Nat /\ T <= Seen(T)
    BY <1>1, <1>2, SizeFacts DEF Seen
  <1>4. Seen(T) <= H
    <2>1. CASE sent = << >>
      BY <1>1, <2>1 DEF Ring, Linked
    <2>2. CASE sent # << >>
      <3>1. Len(sent) \in Nat /\ 1 \in 1 .. Len(sent) /\ sent[1] \in Messages
        BY <2>2 DEF Ring, RingTypeOK
      <3>2. Seen(T) <= pos[1] /\ pos[1] + Size(sent[1]) <= H /\ pos[1] \in Nat
        BY <3>1 DEF Ring, Placed
      <3>3. Size(sent[1]) \in Nat
        BY <3>1, SizeFacts
      <3> QED
        BY <1>1, <1>3, <3>2, <3>3
    <2> QED
      BY <2>1, <2>2
  <1> QED
    BY <1>1, <1>2, <1>3, <1>4

\* An overflow changes no message, and a message that is written is the last to be read.
LEMMA ProduceStep ==
  ASSUME NEW T, NEW H, NEW pos, Ring(T, H, pos), NEW m \in Messages, Produce(m)
  PROVE  IInv' /\ [F!FifoNext]_(F!fvars)
  <1> DEFINE n == SlotsOf(m.length)
             toEnd == nelems - Index(head)
             pad == IF toEnd < n THEN toEnd ELSE 0
  <1>1. /\ T \in Nat /\ H \in Nat /\ T <= H /\ H - T <= nelems
        /\ tail = T % Wrap /\ head = H % Wrap
        /\ nelems \in Nat \ {0} /\ SlotSize \in Nat \ {0}
    BY RingAssumption DEF Ring, Counters
  <1>2. n \in Nat \ {0} /\ n = Size(m) /\ m.id # Nop
    BY SizeFacts DEF Size
  <1>3. Index(head) \in 0 .. nelems - 1 /\ Index(head) = H % nelems
    <2>1. Counters(T, H) /\ H \in Int
      BY <1>1 DEF Ring
    <2>2. Index(head) = H % nelems
      BY ONLY <2>1, CounterFacts
    <2> QED
      BY ONLY <2>1, <2>2, IndexFacts
  <1>4. pad \in Nat /\ (pad > 0 => pad = toEnd)
    BY <1>1, <1>3
  <1>5. UNCHANGED <<tail, msg, crashed>>
    BY DEF Produce
  <1>6. Used = H - T
    BY CounterFacts DEF Ring
  <1>7. CASE Used + pad + n > nelems
    <2>1. overflow' = TRUE /\ UNCHANGED <<head, slots, sent>>
      BY <1>7 DEF Produce
    <2>2. Ring(T, H, pos)'
      <3>1. RingTypeOK' /\ Counters(T, H)' /\ Seen(T)' = Seen(T)
        BY <1>5, <2>1 DEF Ring, RingTypeOK, Counters, Seen, Size, SlotsOf
      <3>2. Placed(T, H, pos)'
        BY <1>5, <2>1, <3>1 DEF Ring, Placed, Size, SlotsOf
      <3>3. Linked(T, H, pos)'
        BY <1>5, <2>1, <3>1 DEF Ring, Linked, Follows, Size, SlotsOf
      <3> QED
        BY <3>1, <3>2, <3>3 DEF Ring
    <2>3. IInv'
      BY <2>2 DEF Ring, IInv, Counters, Placed
    <2>4. F!Lose
      BY <1>5, <2>1 DEF F!Lose
    <2> QED
      BY <2>3, <2>4 DEF F!FifoNext
  <1>8. CASE Used + pad + n <= nelems
    <2>0. PICK k \in Nat : k = pad
      BY <1>4
    <2>1. /\ slots' = [i \in DOMAIN slots |->
                         IF i = Index(head + k) THEN m
                         ELSE IF k > 0 /\ i = Index(head)
                           THEN [id |-> Nop, length |-> k * SlotSize]
                         ELSE slots[i]]
          /\ head' = (head + k + n) % Wrap
          /\ sent' = Append(sent, m) /\ UNCHANGED overflow
      <3>1. ~(Used + pad + n > nelems)
        BY <1>1, <1>2, <1>4, <1>6, <1>8
      <3> QED
        BY <2>0, <3>1 DEF Produce
    <2> DEFINE E == H + k + n
    <2> HIDE DEF n, pad, toEnd
    <2>2. E \in Nat /\ T <= E /\ E - T <= nelems /\ H + k < T + nelems /\ H < E
      BY <1>1, <1>2, <2>0, <1>6, <1>8
    <2>3. head' = E % Wrap
      <3>0. H \in Int /\ Wrap \in Nat \ {0}
        BY <1>1, RingAssumption
      <3>1. k + n \in Nat /\ head \in Int
        BY <1>1, <1>2, <3>0, DivMod
      <3>2. (head + (k + n)) % Wrap = (H + (k + n)) % Wrap
        BY <3>1, CounterFacts DEF Ring
      <3>3. head + (k + n) = head + k + n /\ H + (k + n) = E
        BY <1>1, <1>2, <2>0, <3>1
      <3> QED
        BY <2>1, <3>2, <3>3
    <2>4. /\ (H + k) % nelems \in 0 .. nelems - 1 /\ H % nelems \in 0 .. nelems - 1
          /\ Index(head + k) = (H + k) % nelems /\ Index(head) = H % nelems
          /\ DOMAIN slots = 0 .. nelems - 1
      <3>1. H + k \in Int /\ H \in Int /\ Counters(T, H)
        BY <1>1 DEF Ring
      <3>2. (H + k) % nelems \in 0 .. nelems - 1 /\ H % nelems \in 0 .. nelems - 1
        BY ONLY <3>1, IndexFacts
      <3>3. Index(head + k) = (H + k) % nelems
        BY ONLY <3>1, k \in Nat, CounterFacts
      <3>4. DOMAIN slots = 0 .. nelems - 1
        BY DEF Ring, RingTypeOK
      <3> QED
        BY <1>3, <3>2, <3>3, <3>4
    <2>5. slots'[(H + k) % nelems] = m
      BY <2>1, <2>4
    <2>6. k > 0 => slots'[H % nelems] = [id |-> Nop, length |-> k * SlotSize]
      <3> SUFFICES ASSUME k > 0
                   PROVE slots'[H % nelems] = [id |-> Nop, length |-> k * SlotSize]
        OBVIOUS
      <3>1. H < H + k /\ H + k < H + nelems /\ H \in Int /\ H + k \in Int
        BY <1>1, <2>0, <2>2
      <3>2. H % nelems # (H + k) % nelems
        BY <1>1, <3>1, ModDiffers, ZenonT(60)
      <3> QED
        BY <2>1, <2>4, <3>2
    <2>7. ASSUME NEW p \in Int, T <= p, p < H
          PROVE  slots'[p % nelems] = slots[p % nelems]
      <3>1. p % nelems # (H + k) % nelems
        BY <1>1, <2>0, <2>2, <2>7, InUseKept, ZenonT(60)
      <3>2. p % nelems # H % nelems
        <4>1. H + 0 = H /\ H < T + nelems
          BY <1>1, <2>0, <2>2
        <4> QED
          BY <1>1, <2>7, <4>1, InUseKept, ZenonT(60)
      <3> QED
        BY <2>1, <2>4, <2>7, <3>1, <3>2, IndexFacts
    <2>8. RingTypeOK'
      <3>1. k > 0 => [id |-> Nop, length |-> k * SlotSize] \in Paddings
        BY <2>0, SlotsOfFacts DEF Paddings
      <3>2. slots' \in [0 .. nelems - 1 -> Messages \cup Paddings]
        BY <2>1, <2>4, <3>1 DEF Ring, RingTypeOK
      <3> QED
        BY <1>5, <2>1, <3>2 DEF Ring, RingTypeOK
    <2>9. Counters(T, E)'
      <3>1. msg # {} => T < H
        BY DEF Ring, Counters
      <3>2. msg # {} => slots'[T % nelems] = slots[T % nelems]
        <4>1. T \in Int /\ T <= T
          BY <1>1
        <4> QED
          BY <2>7, <3>1, <4>1
      <3>3. msg = {} \/ (msg = {slots[T % nelems]} /\ T < H)
        BY DEF Ring, Counters
      <3>4. msg' = {} \/ (msg' = {slots'[T % nelems]} /\ T < E)
        BY <1>1, <1>5, <2>2, <3>2, <3>3
      <3> QED
        BY <1>1, <1>5, <2>2, <2>3, <3>4 DEF Counters
    <2>10. Seen(T)' = Seen(T)
      <3>1. msg # {} => T < H
        BY DEF Ring, Counters
      <3>2. msg # {} => slots'[T % nelems] = slots[T % nelems]
        <4>1. T \in Int /\ T <= T
          BY <1>1
        <4> QED
          BY <2>7, <3>1, <4>1
      <3> QED
        BY <1>5, <3>2 DEF Seen, Size, SlotsOf
    <2>11. /\ sent \in Seq(Messages) /\ Len(sent) \in Nat
           /\ Len(sent') = Len(sent) + 1 /\ sent'[Len(sent) + 1] = m
           /\ \A i \in 1 .. Len(sent) : sent'[i] = sent[i] /\ sent[i] \in Messages
           /\ sent' # << >>
      BY <2>1 DEF Ring, RingTypeOK
    <2>12. /\ Seen(T) \in Nat /\ T <= Seen(T) /\ Seen(T) <= H
      BY SeenFacts
    <2>13. \A i \in 1 .. Len(sent) :
             /\ pos[i] \in Nat /\ Size(sent[i]) \in Nat \ {0}
             /\ T <= pos[i] /\ pos[i] < H /\ pos[i] + Size(sent[i]) <= H
             /\ Seen(T) <= pos[i] /\ slots[pos[i] % nelems] = sent[i]
      <3> TAKE i \in 1 .. Len(sent)
      <3>1. Size(sent[i]) \in Nat \ {0}
        BY <2>11, SizeFacts
      <3>2. pos[i] \in Nat /\ pos[i] + Size(sent[i]) <= H /\ Seen(T) <= pos[i]
            /\ slots[pos[i] % nelems] = sent[i]
        BY DEF Ring, Placed
      <3> QED
        BY <1>1, <2>12, <3>1, <3>2
    <2>14. PICK at \in [1 .. Len(sent') -> Nat] :
             /\ at[Len(sent) + 1] = H + k
             /\ \A i \in 1 .. Len(sent) : at[i] = pos[i]
      <3> DEFINE f == [i \in 1 .. Len(sent) + 1 |-> IF i <= Len(sent) THEN pos[i] ELSE H + k]
      <3>1. f \in [1 .. Len(sent') -> Nat]
        BY <1>1, <2>0, <2>11, <2>13
      <3>2. f[Len(sent) + 1] = H + k /\ \A i \in 1 .. Len(sent) : f[i] = pos[i]
        BY <2>11
      <3> QED
        BY <3>1, <3>2
    <2> HIDE DEF E
    <2>15. Placed(T, E, at)'
      <3> SUFFICES ASSUME NEW i \in 1 .. Len(sent')
                   PROVE  /\ slots'[at[i] % nelems] = sent'[i]
                          /\ Seen(T) <= at[i] /\ at[i] + Size(sent'[i]) <= E
                          /\ \A j \in 1 .. Len(sent') : i < j => at[i] + Size(sent'[i]) <= at[j]
        BY <2>10, <2>14 DEF Placed, Size, SlotsOf
      <3>1. CASE i = Len(sent) + 1
        <4>1. at[i] = H + k /\ sent'[i] = m /\ Size(sent'[i]) = n
          BY <1>2, <2>11, <2>14, <3>1
        <4>2. Seen(T) <= at[i] /\ at[i] + Size(sent'[i]) <= E
          BY <1>1, <1>2, <2>12, <4>1 DEF E
        <4>3. \A j \in 1 .. Len(sent') : ~(i < j)
          BY <2>11, <3>1
        <4> QED
          BY <2>5, <4>1, <4>2, <4>3
      <3>2. CASE i # Len(sent) + 1
        <4>1. i \in 1 .. Len(sent) /\ at[i] = pos[i] /\ sent'[i] = sent[i]
          BY <2>11, <2>14, <3>2
        <4>2. slots'[pos[i] % nelems] = sent[i]
          BY <2>7, <2>13, <4>1
        <4>3. ASSUME NEW j \in 1 .. Len(sent'), i < j PROVE at[i] + Size(sent[i]) <= at[j]
          <5>1. CASE j = Len(sent) + 1
            <6>1. /\ at[j] = H + k /\ pos[i] + Size(sent[i]) <= H
                  /\ pos[i] \in Nat /\ Size(sent[i]) \in Nat
              BY <2>13, <2>14, <4>1, <5>1
            <6> QED
              BY <1>1, <4>1, <6>1
          <5>2. CASE j # Len(sent) + 1
            <6>1. j \in 1 .. Len(sent)
              BY <2>11, <5>2
            <6>2. pos[i] + Size(sent[i]) <= pos[j]
              BY <4>1, <4>3, <6>1 DEF Ring, Placed
            <6> QED
              BY <2>14, <4>1, <6>1, <6>2
          <5> QED
            BY <5>1, <5>2
        <4>4. /\ Seen(T) <= pos[i] /\ pos[i] + Size(sent[i]) <= H
              /\ pos[i] \in Nat /\ Size(sent[i]) \in Nat
          BY <2>13, <4>1
        <4>5. pos[i] + Size(sent[i]) <= E
          BY <1>1, <2>2, <4>4
        <4> QED
          BY <4>1, <4>2, <4>3, <4>4, <4>5
      <3> QED
        BY <3>1, <3>2
    <2>16. ASSUME NEW p \in Int, NEW q \in Nat, T <= p, q < H, Follows(p, q)
           PROVE  Follows(p, q)'
      <3>1. CASE p = q
        BY <3>1 DEF Follows
      <3>2. CASE slots[p % nelems].id = Nop /\ p + Size(slots[p % nelems]) = q
        <4>1. Size(slots[p % nelems]) \in Nat \ {0}
          BY <2>16, IndexFacts, SizeFacts, ZenonT(60) DEF Ring, RingTypeOK
        <4>2. p < H
          BY <1>1, <2>16, <3>2, <4>1
        <4>3. slots'[p % nelems] = slots[p % nelems]
          BY <2>7, <2>16, <4>2
        <4> QED
          BY <3>2, <4>3 DEF Follows, Size, SlotsOf
      <3> QED
        BY <2>16, <3>1, <3>2 DEF Follows
    <2>17. Follows(H, H + k)'
      <3>1. CASE k = 0
        BY <1>1, <3>1 DEF Follows
      <3>2. CASE k > 0
        <4>1. slots'[H % nelems].id = Nop /\ slots'[H % nelems].length = k * SlotSize
          BY <2>6, <3>2
        <4>2. SlotsOf(k * SlotSize) = k
          BY <2>0, SlotsOfFacts
        <4> QED
          BY <4>1, <4>2 DEF Follows, Size, SlotsOf
      <3> QED
        BY <2>0, <3>1, <3>2
    <2>18. Linked(T, E, at)'
      <3>1. at[Len(sent')] + Size(sent'[Len(sent')]) = E
        BY <1>1, <1>2, <2>0, <2>11, <2>14 DEF E
      <3>2. Follows(Seen(T), at[1])'
        <4>1. CASE sent = << >>
          <5>1. Seen(T) = H /\ at[1] = H + k
            BY <2>11, <2>14, <4>1 DEF Ring, Linked
          <5> QED
            BY <2>10, <2>17, <5>1
        <4>2. CASE sent # << >>
          <5>1. 1 \in 1 .. Len(sent) /\ Follows(Seen(T), pos[1]) /\ at[1] = pos[1]
            BY <2>11, <2>14, <4>2 DEF Ring, Linked
          <5>2. Seen(T) \in Int /\ T <= Seen(T) /\ pos[1] \in Nat /\ pos[1] < H
            BY <2>12, <2>13, <5>1
          <5>3. Follows(Seen(T), pos[1])'
            BY ONLY <2>10, <2>16, <5>1, <5>2 DEF Follows, Size, SlotsOf
          <5> QED
            BY <5>1, <5>3
        <4> QED
          BY <4>1, <4>2
      <3>3. ASSUME NEW i \in 1 .. Len(sent') - 1
            PROVE  Follows(at[i] + Size(sent[i]), at[i + 1])'
        <4>1. i \in 1 .. Len(sent) /\ at[i] = pos[i] /\ sent'[i] = sent[i]
          BY <2>11, <2>14
        <4>2. CASE i = Len(sent)
          <5>1. pos[i] + Size(sent[i]) = H
            BY <2>11, <4>1, <4>2 DEF Ring, Linked
          <5>2. at[i + 1] = H + k
            BY <2>14, <4>2
          <5> QED
            BY <2>17, <4>1, <5>1, <5>2 DEF Follows, Size, SlotsOf
        <4>3. CASE i # Len(sent)
          <5>1. i \in 1 .. Len(sent) - 1 /\ i + 1 \in 1 .. Len(sent)
            BY <2>11, <4>1, <4>3
          <5>2. Follows(pos[i] + Size(sent[i]), pos[i + 1])
            BY <5>1 DEF Ring, Linked
          <5>3. /\ pos[i] + Size(sent[i]) \in Int /\ T <= pos[i] + Size(sent[i])
                /\ pos[i + 1] \in Nat /\ pos[i + 1] < H /\ at[i + 1] = pos[i + 1]
            <6>1. /\ pos[i] \in Nat /\ Size(sent[i]) \in Nat /\ T <= pos[i]
                  /\ pos[i + 1] \in Nat /\ pos[i + 1] < H /\ at[i + 1] = pos[i + 1]
              BY <2>13, <2>14, <4>1, <5>1
            <6> QED
              BY <1>1, <6>1
          <5> DEFINE e == pos[i] + Size(sent[i])
          <5>4. PICK p \in Int : p = e
            BY <5>3
          <5>5. Follows(p, pos[i + 1])
            BY <5>2, <5>4
          <5>6. Follows(p, pos[i + 1])'
            BY <2>16, <5>3, <5>4, <5>5
          <5>7. (at[i] + Size(sent[i]))' = p
            BY <4>1, <5>4 DEF Size, SlotsOf
          <5> QED
            BY <5>3, <5>6, <5>7 DEF Follows
        <4> QED
          BY <4>2, <4>3
      <3> QED
        BY <2>11, <3>1, <3>2, <3>3 DEF Linked, Size, SlotsOf
    <2>19. IInv'
      BY <1>1, <2>2, <2>8, <2>9, <2>14, <2>15, <2>18 DEF IInv
    <2>20. F!Send
      BY <1>5, <2>1 DEF F!Send
    <2> QED
      BY <2>19, <2>20 DEF F!FifoNext
  <1> QED
    BY <1>1, <1>2, <1>4, <1>6, <1>7, <1>8

\* The first message AgentThread has not seen is at the tail, or behind padding there.
LEMMA PeekStep ==
  ASSUME NEW T, NEW H, NEW pos, Ring(T, H, pos), Peek
  PROVE  IInv' /\ [F!FifoNext]_(F!fvars)
  <1>1. /\ T \in Nat /\ H \in Nat /\ T <= H /\ H - T <= nelems
        /\ tail = T % Wrap /\ head = H % Wrap /\ Counters(T, H)
    BY DEF Ring, Counters
  <1>2. /\ msg = {} /\ tail # head /\ UNCHANGED <<head, tail, slots, overflow>>
    BY DEF Peek
  <1>3. Index(tail) = T % nelems /\ T < H
    <2>1. Index(tail) = T % nelems /\ T # H
      BY ONLY <1>1, <1>2, CounterFacts
    <2> QED
      BY <1>1, <2>1
  <1>4. Seen(T) = T
    BY <1>2 DEF Seen
  <1>5. /\ sent \in Seq(Messages) /\ Len(sent) \in Nat /\ sent # << >>
        /\ 1 \in 1 .. Len(sent) /\ sent[1] \in Messages
    <2>1. sent # << >>
      BY <1>1, <1>3, <1>4 DEF Ring, Linked
    <2> QED
      BY <2>1 DEF Ring, RingTypeOK
  <1>6. CASE overflow
    <2>1. crashed' = TRUE /\ UNCHANGED <<msg, sent>>
      BY <1>6 DEF Peek
    <2>2. Ring(T, H, pos)'
      <3>1. RingTypeOK' /\ Counters(T, H)' /\ Seen(T)' = Seen(T)
        BY <1>2, <2>1 DEF Ring, RingTypeOK, Counters, Seen, Size, SlotsOf
      <3>2. Placed(T, H, pos)'
        BY <1>2, <2>1, <3>1 DEF Ring, Placed, Size, SlotsOf
      <3>3. Linked(T, H, pos)'
        BY <1>2, <2>1, <3>1 DEF Ring, Linked, Follows, Size, SlotsOf
      <3> QED
        BY <3>1, <3>2, <3>3 DEF Ring
    <2>3. IInv'
      BY <2>2 DEF Ring, IInv, Counters, Placed
    <2>4. UNCHANGED F!fvars
      BY <1>2, <2>1 DEF F!fvars
    <2> QED
      BY <2>3, <2>4
  <1>7. CASE ~overflow
    <2> DEFINE m == slots[T % nelems]
    <2>1. msg' = {m} /\ UNCHANGED crashed /\ sent' = IF m.id = Nop THEN sent ELSE Tail(sent)
      BY <1>3, <1>5, <1>7 DEF Peek
    <2>2. m \in Messages \cup Paddings
      BY SeenFacts
    <2>3. CASE m.id = Nop
      <3>1. sent' = sent
        BY <2>1, <2>3
      <3>2. RingTypeOK' /\ Counters(T, H)'
        BY <1>1, <1>2, <1>3, <2>1, <3>1, ZenonT(60) DEF Ring, RingTypeOK, Counters
      <3>3. Seen(T)' = T
        BY <1>2, <2>1, <2>3 DEF Seen
      <3>4. Placed(T, H, pos)'
        BY <1>2, <1>4, <3>1, <3>3 DEF Ring, Placed, Size, SlotsOf
      <3>5. Linked(T, H, pos)'
        BY <1>2, <1>4, <3>1, <3>3 DEF Ring, Linked, Follows, Size, SlotsOf
      <3>6. IInv'
        BY <3>1, <3>2, <3>4, <3>5, ZenonT(60) DEF IInv, Counters, Placed
      <3>7. UNCHANGED F!fvars
        BY <1>2, <2>1, <2>3, <3>1 DEF F!fvars
      <3> QED
        BY <3>6, <3>7
    <2>4. CASE m.id # Nop
      <3>1. sent' = Tail(sent)
        BY <2>1, <2>4
      <3>2. T = pos[1] /\ m = sent[1]
        <4>1. Follows(T, pos[1])
          BY <1>4, <1>5 DEF Ring, Linked
        <4>2. T = pos[1]
          BY <2>4, <4>1 DEF Follows
        <4> QED
          BY <1>5, <4>2 DEF Ring, Placed
      <3>3. /\ Len(sent') = Len(sent) - 1 /\ sent' \in Seq(Messages)
            /\ \A i \in 1 .. Len(sent') : sent'[i] = sent[i + 1] /\ i + 1 \in 1 .. Len(sent)
        BY <1>5, <3>1
      <3>4. PICK at \in [1 .. Len(sent') -> Nat] : \A i \in 1 .. Len(sent') : at[i] = pos[i + 1]
        <4> DEFINE f == [i \in 1 .. Len(sent') |-> pos[i + 1]]
        <4>1. f \in [1 .. Len(sent') -> Nat]
          BY <3>3 DEF Ring, Placed
        <4> QED
          BY <4>1, ZenonT(60)
      <3>5. RingTypeOK' /\ Counters(T, H)'
        BY <1>1, <1>2, <1>3, <2>1, <3>3 DEF Ring, RingTypeOK, Counters
      <3>6. PICK e \in Nat : e = T + Size(m)
        BY <1>1, <2>2, SizeFacts
      <3>7. Seen(T)' = e
        BY <1>2, <2>1, <2>4, <3>6 DEF Seen, Size, SlotsOf
      <3>8. Placed(T, H, at)'
        <4> SUFFICES ASSUME NEW i \in 1 .. Len(sent')
                     PROVE  /\ slots[at[i] % nelems] = sent'[i]
                            /\ e <= at[i] /\ at[i] + Size(sent'[i]) <= H
                            /\ \A j \in 1 .. Len(sent') : i < j => at[i] + Size(sent'[i]) <= at[j]
          BY <1>2, <3>4, <3>7 DEF Placed, Size, SlotsOf
        <4>1. i + 1 \in 1 .. Len(sent) /\ at[i] = pos[i + 1] /\ sent'[i] = sent[i + 1] /\ 1 < i + 1
          BY <3>3, <3>4
        <4>2. e <= pos[i + 1]
          BY <1>5, <3>2, <3>6, <4>1 DEF Ring, Placed
        <4>3. ASSUME NEW j \in 1 .. Len(sent'), i < j
              PROVE  pos[i + 1] + Size(sent[i + 1]) <= pos[j + 1]
          <5>1. j + 1 \in 1 .. Len(sent) /\ i + 1 < j + 1
            BY <3>3, <4>3
          <5> QED
            BY <4>1, <5>1 DEF Ring, Placed
        <4>4. slots[pos[i + 1] % nelems] = sent[i + 1] /\ pos[i + 1] + Size(sent[i + 1]) <= H
          BY <4>1 DEF Ring, Placed
        <4> QED
          BY <3>4, <4>1, <4>2, <4>3, <4>4
      <3>9. Linked(T, H, at)'
        <4>1. CASE Len(sent) = 1
          <5>1. sent' = << >>
            BY <3>3, <4>1
          <5>2. e = H
            BY <1>5, <3>2, <3>6, <4>1, ZenonT(60) DEF Ring, Linked
          <5> QED
            BY <3>7, <5>1, <5>2 DEF Linked
        <4>2. CASE Len(sent) # 1
          <5>1. /\ 1 \in 1 .. Len(sent) - 1 /\ sent' # << >> /\ at[1] = pos[2]
                /\ Len(sent') \in 1 .. Len(sent')
            BY <1>5, <3>3, <3>4, <4>2
          <5>2. Follows(e, at[1])
            BY <3>2, <3>6, <5>1 DEF Ring, Linked
          <5>3. at[Len(sent')] + Size(sent'[Len(sent')]) = H
            <6>1. Len(sent') + 1 = Len(sent)
              BY <1>5, <3>3
            <6>2. at[Len(sent')] = pos[Len(sent)] /\ sent'[Len(sent')] = sent[Len(sent)]
              BY <3>3, <3>4, <5>1, <6>1
            <6> QED
              BY <1>5, <6>2 DEF Ring, Linked
          <5>4. ASSUME NEW i \in 1 .. Len(sent') - 1
                PROVE  Follows(at[i] + Size(sent'[i]), at[i + 1])
            <6>1. /\ i \in 1 .. Len(sent') /\ i + 1 \in 1 .. Len(sent')
                  /\ i + 1 \in 1 .. Len(sent) - 1
              BY <1>5, <3>3
            <6>2. Follows(pos[i + 1] + Size(sent[i + 1]), pos[i + 1 + 1])
              BY <6>1 DEF Ring, Linked
            <6> QED
              BY <3>3, <3>4, <6>1, <6>2
          <5> QED
            BY <1>2, <3>7, <5>1, <5>2, <5>3, <5>4 DEF Linked, Follows, Size, SlotsOf
        <4> QED
          BY <4>1, <4>2
      <3>10. IInv'
        BY <1>1, <3>4, <3>5, <3>8, <3>9 DEF IInv
      <3>11. F!Receive
        <4>1. {x \in msg : x.id # Nop} = {} /\ {x \in msg' : x.id # Nop} = {Head(sent)}
          BY <1>2, <1>5, <2>1, <2>4, <3>2
        <4> QED
          BY <1>2, <1>5, <1>7, <3>1, <4>1 DEF F!Receive
      <3> QED
        BY <3>10, <3>11 DEF F!FifoNext
    <2> QED
      BY <2>3, <2>4
  <1> QED
    BY <1>6, <1>7

\* Consuming moves the tail past what was peeked at: a message, or the padding.
LEMMA ConsumeStep ==
  ASSUME NEW T, NEW H, NEW pos, Ring(T, H, pos), Consume
  PROVE  IInv' /\ [F!FifoNext]_(F!fvars)
  <1> DEFINE m == slots[T % nelems]
  <1>1. /\ T \in Nat /\ H \in Nat /\ T <= H /\ H - T <= nelems
        /\ tail = T % Wrap /\ head = H % Wrap /\ Counters(T, H)
    BY DEF Ring, Counters
  <1>2. msg = {m} /\ T < H
    BY DEF Ring, Counters, Consume
  <1>3. /\ tail' = (tail + Size(m)) % Wrap /\ msg' = {}
        /\ UNCHANGED <<head, slots, overflow, crashed, sent>>
    BY <1>2 DEF Consume, Size
  <1>4. m \in Messages \cup Paddings /\ Seen(T) \in Nat /\ Seen(T) <= H
    BY SeenFacts
  <1>5. Size(m) \in Nat \ {0}
    BY <1>4, SizeFacts
  <1>6. PICK E \in Nat : E = T + Size(m)
    BY <1>1, <1>5
  <1>7. tail' = E % Wrap
    <2>1. Size(m) \in Nat
      BY <1>5
    <2> QED
      BY ONLY <1>1, <1>3, <1>6, <2>1, CounterFacts
  <1>8. Seen(E)' = E
    BY <1>3 DEF Seen
  <1>9. /\ sent \in Seq(Messages) /\ Len(sent) \in Nat
        /\ \A i \in 1 .. Len(sent) : sent[i] \in Messages
    BY DEF Ring, RingTypeOK
  <1>10. /\ E <= H /\ \A i \in 1 .. Len(sent) : E <= pos[i]
         /\ sent = << >> => E = H
         /\ sent # << >> => Follows(E, pos[1])
    <2>1. CASE m.id # Nop
      <3>1. Seen(T) = E
        BY <1>2, <1>6, <2>1 DEF Seen
      <3> QED
        BY <1>4, <3>1 DEF Ring, Placed, Linked
    <2>2. CASE m.id = Nop
      <3>1. Seen(T) = T
        BY <1>2, <2>2 DEF Seen
      <3>2. sent # << >> /\ 1 \in 1 .. Len(sent)
        BY <1>1, <1>2, <1>9, <3>1 DEF Ring, Linked
      <3>3. sent[1].id # Nop
        BY <1>9, <3>2, SizeFacts
      <3>4. Follows(T, pos[1]) /\ slots[pos[1] % nelems] = sent[1]
        BY <3>1, <3>2 DEF Ring, Linked, Placed
      <3>5. pos[1] = E
        BY <1>6, <2>2, <3>3, <3>4 DEF Follows
      <3>6. \A i \in 1 .. Len(sent) : E <= pos[i]
        <4> TAKE i \in 1 .. Len(sent)
        <4>1. CASE i = 1
          BY <3>5, <4>1
        <4>2. CASE i # 1
          <5>1. pos[1] + Size(sent[1]) <= pos[i] /\ pos[i] \in Nat
            BY <1>9, <3>2, <4>2 DEF Ring, Placed
          <5>2. Size(sent[1]) \in Nat
            BY <1>9, <3>2, SizeFacts
          <5> QED
            BY <3>5, <5>1, <5>2
        <4> QED
          BY <4>1, <4>2
      <3>7. E <= H
        <4>1. pos[1] + Size(sent[1]) <= H
          BY <3>2 DEF Ring, Placed
        <4>2. Size(sent[1]) \in Nat
          BY <1>9, <3>2, SizeFacts
        <4> QED
          BY <1>1, <3>5, <4>1, <4>2
      <3> QED
        BY <3>2, <3>5, <3>6, <3>7 DEF Follows
    <2> QED
      BY <2>1, <2>2
  <1>11. RingTypeOK' /\ Counters(E, H)'
    <2>1. H - E <= nelems
      BY <1>1, <1>5, <1>6, RingAssumption
    <2> QED
      BY <1>1, <1>3, <1>7, <1>10, <2>1 DEF Ring, RingTypeOK, Counters
  <1>12. Placed(E, H, pos)'
    BY <1>3, <1>8, <1>10 DEF Ring, Placed, Size, SlotsOf
  <1>13. Linked(E, H, pos)'
    BY <1>3, <1>8, <1>10 DEF Ring, Linked, Follows, Size, SlotsOf
  <1>14. IInv'
    BY <1>1, <1>3, <1>11, <1>12, <1>13, ZenonT(60) DEF IInv, Placed
  <1>15. F!Done
    BY <1>3 DEF F!Done
  <1> QED
    BY <1>14, <1>15 DEF F!FifoNext

\* The empty ring.
LEMMA InitRing ==
  ASSUME RingInit
  PROVE  IInv /\ F!FifoInit
  <1>1. [id |-> Nop, length |-> SlotSize] \in Paddings
    BY RingAssumption DEF Paddings
  <1>2. RingTypeOK
    <2>1. slots \in [0 .. nelems - 1 -> Messages \cup Paddings]
      BY <1>1 DEF RingInit
    <2>2. sent \in Seq(Messages)
      BY DEF RingInit
    <2> QED
      BY <2>1, <2>2, ZenonT(60) DEF RingInit, RingTypeOK
  <1>3. sent = << >> /\ Len(sent) = 0 /\ msg = {} /\ Seen(0) = 0
    BY DEF RingInit, Seen
  <1>4. 0 % Wrap = 0
    <2>1. Wrap \in Nat \ {0} /\ 0 \in 0 .. Wrap - 1
      BY RingAssumption
    <2> QED
      BY <2>1, ModSmall
  <1>5. Counters(0, 0)
    BY <1>3, <1>4, RingAssumption DEF RingInit, Counters
  <1>6. PICK pos \in [1 .. 0 -> Nat] : TRUE
    <2>1. [i \in 1 .. 0 |-> 0] \in [1 .. 0 -> Nat]
      OBVIOUS
    <2> QED
      BY <2>1, ZenonT(60)
  <1>7. Placed(0, 0, pos) /\ Linked(0, 0, pos)
    BY <1>3, <1>6 DEF Placed, Linked
  <1>8. IInv
    BY <1>2, <1>3, <1>5, <1>6, <1>7, ZenonT(60) DEF IInv
  <1> QED
    BY <1>8 DEF RingInit, F!FifoInit

\* Every step of the ring keeps the invariant and is a step of the FIFO, or none.
LEMMA RingStep ==
  ASSUME IInv, [RingNext]_rvars
  PROVE  IInv' /\ [F!FifoNext]_(F!fvars)
  <1>1. PICK T \in Nat, H \in Nat : \E pos \in [1 .. Len(sent) -> Nat] : Ring(T, H, pos)
    BY DEF IInv, Ring
  <1>2. PICK pos \in [1 .. Len(sent) -> Nat] : Ring(T, H, pos)
    BY <1>1
  <1>3. CASE RingNext
    <2>1. ASSUME NEW m \in Messages, Produce(m) PROVE IInv' /\ [F!FifoNext]_(F!fvars)
      BY <1>2, <2>1, ProduceStep
    <2>2. CASE Peek
      BY <1>2, <2>2, PeekStep
    <2>3. CASE Consume
      BY <1>2, <2>3, ConsumeStep
    <2> QED
      BY <1>3, <2>1, <2>2, <2>3 DEF RingNext
  <1>4. CASE UNCHANGED rvars
    <2>1. RingTypeOK' /\ Counters(T, H)' /\ Seen(T)' = Seen(T)
      BY <1>2, <1>4 DEF rvars, Ring, RingTypeOK, Counters, Seen, Size, SlotsOf
    <2>2. Placed(T, H, pos)'
      BY <1>2, <1>4, <2>1 DEF rvars, Ring, Placed, Size, SlotsOf
    <2>3. Linked(T, H, pos)'
      BY <1>2, <1>4, <2>1 DEF rvars, Ring, Linked, Follows, Size, SlotsOf
    <2>4. IInv'
      BY <1>1, <1>2, <1>4, <2>1, <2>2, <2>3 DEF rvars, IInv
    <2>5. UNCHANGED F!fvars
      BY <1>4 DEF rvars, F!fvars
    <2> QED
      BY <2>4, <2>5
  <1> QED
    BY <1>3, <1>4

-----------------------------------------------------------------------------
(* The theorems. *)

\* The invariant holds: AgentThread's tail and the kernel's head never get more than a
\* ring apart, and every message it has not seen lies whole in its slots.
THEOREM RingInductive == RingSpec => []IInv
  <1>1. RingInit => IInv
    BY InitRing
  <1>2. IInv /\ [RingNext]_rvars => IInv'
    BY RingStep
  <1> QED
    BY <1>1, <1>2, PTL DEF RingSpec

\* LocalChannel::Peek and Consume hand AgentThread every message once, whole and in
\* order, however often the counters wrap, whatever the size of the ring and the
\* lengths of the messages; after an overflow they hand it none.
THEOREM RingImplementsFifo == RingSpec => ImplementsFifo
  <1>1. RingInit => F!FifoInit
    BY InitRing
  <1>2. IInv /\ [RingNext]_rvars => [F!FifoNext]_(F!fvars)
    BY RingStep
  <1> QED
    BY <1>1, <1>2, RingInductive, PTL DEF RingSpec, ImplementsFifo, F!FifoSpec
=============================================================================
