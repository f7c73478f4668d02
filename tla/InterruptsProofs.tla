------------------------- MODULE InterruptsProofs -------------------------
(***************************************************************************)
(* Proofs about the event queue and the clock of the machine, for every    *)
(* size of the pool, every turn of Count and every delay that              *)
(* InterruptsAssumption allows.                                            *)
(***************************************************************************)
EXTENDS Interrupts, SequenceTheorems, FiniteSetTheorems, WellFoundedInduction, TLAPS

(***************************************************************************)
(* Induction over the naturals, for a set instead of a predicate, and the  *)
(* least element of a set of naturals.                                     *)
(***************************************************************************)
LEMMA LeastNat ==
    ASSUME NEW S, S \subseteq Nat, S # {}
    PROVE  \E n \in S : \A j \in S : n <= j
<1>1. PICK n \in S : \A j \in S : <<j, n>> \notin OpToRel(<, Nat)
    BY WFMin, NatLessThanWellFounded, Zenon
<1>2. \A j \in S : ~(j < n)
    BY <1>1, Zenon DEF OpToRel
<1> QED BY <1>2

LEMMA NatSet ==
    ASSUME NEW S, 0 \in S, \A n \in Nat : n \in S => n + 1 \in S
    PROVE  \A n \in Nat : n \in S
<1> SUFFICES ASSUME NEW k \in Nat, k \notin S PROVE FALSE
    OBVIOUS
<1>1. PICK n \in Nat \ S : \A j \in Nat \ S : n <= j
    BY LeastNat
<1>2. n # 0
    OBVIOUS
<1>3. n - 1 \in Nat /\ ~(n <= n - 1) /\ (n - 1) + 1 = n
    BY <1>2
<1>4. n - 1 \in S
    BY <1>1, <1>3
<1> QED BY <1>3, <1>4

-----------------------------------------------------------------------------
(***************************************************************************)
(* Arithmetic on a Count that turns.                                       *)
(***************************************************************************)
LEMMA ModulusTypes ==
    /\ Half \in Nat /\ Half > 0 /\ Modulus \in Nat \ {0} /\ Modulus = 2 * Half
    /\ Modulus > 0
BY InterruptsAssumption

LEMMA MultAtLeast ==
    ASSUME NEW d \in Int, d > 0
    PROVE  Modulus * d >= Modulus
<1> DEFINE M == Modulus
<1>1. M \in Nat \ {0}
    BY ModulusTypes
<1> HIDE DEF M
<1>2. M * d >= M
    BY <1>1, SMTT(30)
<1> QED BY <1>2 DEF M

LEMMA DivMod ==
    ASSUME NEW x \in Int
    PROVE  /\ x % Modulus \in Counts /\ x \div Modulus \in Int
           /\ x = Modulus * (x \div Modulus) + (x % Modulus)
<1> DEFINE M == Modulus
<1>1. M \in Nat \ {0}
    BY ModulusTypes
<1> HIDE DEF M
<1>2. x % M \in 0 .. M - 1 /\ x \div M \in Int /\ x = M * (x \div M) + (x % M)
    BY <1>1, SMTT(30)
<1> QED BY <1>2 DEF M, Counts

LEMMA OneResidue ==
    ASSUME NEW a \in Counts, NEW b \in Counts, NEW d \in Int, a - b = Modulus * d
    PROVE  a = b
<1> DEFINE M == Modulus
<1>1. M \in Nat \ {0} /\ a \in 0 .. M - 1 /\ b \in 0 .. M - 1 /\ a - b = M * d
    BY ModulusTypes DEF Counts
<1>2. \A k \in Int : k > 0 => M * k >= M
    BY MultAtLeast
<1> HIDE DEF M
<1>3. M * (-d) = -(M * d) /\ -d \in Int
    BY <1>1
<1>4. CASE d > 0
    BY <1>1, <1>2, <1>4
<1>5. CASE d < 0
  <2>1. M * (-d) >= M
    BY <1>2, <1>3, <1>5
  <2> QED BY <1>1, <1>3, <2>1
<1>6. CASE d = 0
  <2>1. M * d = 0
    BY <1>1, <1>6
  <2> QED BY <1>1, <2>1
<1> QED BY <1>4, <1>5, <1>6

(* Numbers that differ by turns have the same residue, and a residue       *)
(* differs from its number by turns.                                       *)
LEMMA SameResidue ==
    ASSUME NEW x \in Int, NEW y \in Int, NEW k \in Int, x = y + Modulus * k
    PROVE  x % Modulus = y % Modulus
<1> DEFINE a == x % Modulus  b == y % Modulus  i == x \div Modulus  j == y \div Modulus
           M == Modulus
<1>1. /\ a \in Counts /\ i \in Int /\ x = M * i + a
      /\ b \in Counts /\ j \in Int /\ y = M * j + b
      /\ M \in Int /\ x = y + M * k /\ Counts \subseteq Int
    BY DivMod, ModulusTypes DEF Counts
<1> HIDE DEF a, b, i, j, M
<1>2. a - b = M * j + M * k - M * i
    BY <1>1
<1>3. M * j + M * k - M * i = M * (j + k - i) /\ j + k - i \in Int
    BY <1>1
<1>4. a - b = Modulus * (j + k - i)
    BY <1>2, <1>3 DEF M
<1>5. a = b
    BY <1>1, <1>3, <1>4, OneResidue
<1> QED BY <1>5 DEF a, b

LEMMA ResidueOf ==
    ASSUME NEW x \in Int
    PROVE  \E k \in Int : x % Modulus = x + Modulus * k
<1> DEFINE i == x \div Modulus  M == Modulus  a == x % Modulus
<1>1. i \in Int /\ x = M * i + a /\ M \in Int /\ a \in Int
    BY DivMod, ModulusTypes DEF Counts
<1> HIDE DEF i, M, a
<1>2. -i \in Int /\ a = x + M * (-i)
    BY <1>1
<1>3. x % Modulus = x + Modulus * (-i)
    BY <1>2 DEF M, a
<1> QED BY <1>2, <1>3

LEMMA PlusResidue ==
    ASSUME NEW x \in Int, NEW y \in Int
    PROVE  ((x % Modulus) + y) % Modulus = (x + y) % Modulus
<1>1. PICK k \in Int : x % Modulus = x + Modulus * k
    BY ResidueOf
<1>2. x % Modulus \in Int
    BY DivMod DEF Counts
<1>3. Modulus * k \in Int
    BY ModulusTypes
<1>4. (x % Modulus) + y = (x + y) + Modulus * k
    BY <1>1, <1>2, <1>3
<1>5. (x % Modulus) + y \in Int /\ x + y \in Int
    BY <1>2
<1> QED BY <1>4, <1>5, SameResidue

LEMMA MinusResidue ==
    ASSUME NEW x \in Int, NEW y \in Int
    PROVE  (y - (x % Modulus)) % Modulus = (y - x) % Modulus
<1>1. PICK k \in Int : x % Modulus = x + Modulus * k
    BY ResidueOf
<1>2. x % Modulus \in Int
    BY DivMod DEF Counts
<1>3. Modulus * k \in Int /\ Modulus * (-k) = -(Modulus * k) /\ -k \in Int
    BY ModulusTypes
<1>4. y - (x % Modulus) = (y - x) + Modulus * (-k)
    BY <1>1, <1>2, <1>3
<1>5. y - (x % Modulus) \in Int /\ y - x \in Int
    BY <1>2
<1> QED BY <1>3, <1>4, <1>5, SameResidue

LEMMA ResidueIsItself ==
    ASSUME NEW x \in Counts
    PROVE  x % Modulus = x
<1>1. x \in Int /\ 0 \in Int /\ 0 = Modulus * 0
    BY ModulusTypes DEF Counts
<1>2. PICK k \in Int : x % Modulus = x + Modulus * k
    BY <1>1, ResidueOf
<1>3. x % Modulus \in Counts /\ Modulus * k \in Int
    BY <1>1, DivMod, ModulusTypes
<1>4. (x % Modulus) - x = Modulus * k
    BY <1>1, <1>2, <1>3 DEF Counts
<1> QED BY <1>3, <1>4, OneResidue

LEMMA TurnLess ==
    ASSUME NEW x \in Int
    PROVE  (x - Modulus) % Modulus = x % Modulus
<1>1. x - Modulus = x + Modulus * (-1) /\ x - Modulus \in Int /\ -1 \in Int
    BY ModulusTypes
<1> QED BY <1>1, SameResidue

LEMMA SignedTypes ==
    ASSUME NEW x \in Int
    PROVE  Signed(x) \in -Half .. Half - 1
BY DivMod, ModulusTypes DEF Signed, Counts

LEMMA SignedResidue ==
    ASSUME NEW x \in Int
    PROVE  Signed(x) % Modulus = x % Modulus
<1>1. x % Modulus \in Int /\ x % Modulus \in Counts
    BY DivMod DEF Counts
<1>2. (x % Modulus) % Modulus = x % Modulus
    BY <1>1, ResidueIsItself
<1>3. ((x % Modulus) - Modulus) % Modulus = x % Modulus
    BY <1>1, <1>2, TurnLess
<1> QED BY <1>2, <1>3 DEF Signed

LEMMA SignedSame ==
    ASSUME NEW x \in Int, NEW y \in Int, x % Modulus = y % Modulus
    PROVE  Signed(x) = Signed(y)
BY DEF Signed

LEMMA SignedIsItself ==
    ASSUME NEW x \in -Half .. Half - 1
    PROVE  Signed(x) = x
<1>1. CASE x >= 0
  <2>1. x \in Counts
      BY <1>1, ModulusTypes DEF Counts
  <2>2. x % Modulus = x
      BY <2>1, ResidueIsItself
  <2>3. x < Half
      BY ModulusTypes
  <2> QED BY <2>2, <2>3 DEF Signed
<1>2. CASE x < 0
  <2>1. x + Modulus \in Counts /\ x + Modulus \in Int /\ (x + Modulus) - Modulus = x
      BY <1>2, ModulusTypes DEF Counts
  <2>2. x % Modulus = x + Modulus
      BY <2>1, ResidueIsItself, TurnLess
  <2>3. ~(x + Modulus < Half)
      BY ModulusTypes
  <2> QED BY <2>1, <2>2, <2>3 DEF Signed
<1> QED BY <1>1, <1>2

(* A half turn ahead of the first event, cycle_count is what it is.        *)
LEMMA SignedPlus ==
    ASSUME NEW x \in Int, NEW n \in Int
    PROVE  Signed(Signed(x) + n) = Signed(x + n)
<1>1. Signed(x) \in Int
    BY SignedTypes, ModulusTypes
<1>2. ((Signed(x) % Modulus) + n) % Modulus = (Signed(x) + n) % Modulus
    BY <1>1, PlusResidue
<1>3. ((x % Modulus) + n) % Modulus = (x + n) % Modulus
    BY PlusResidue
<1>4. (Signed(x) + n) % Modulus = (x + n) % Modulus
    BY <1>2, <1>3, SignedResidue
<1>5. Signed(x) + n \in Int /\ x + n \in Int
    BY <1>1
<1> QED BY <1>4, <1>5, SignedSame

-----------------------------------------------------------------------------
(***************************************************************************)
(* Queues: an entry put in, an entry taken out.                            *)
(***************************************************************************)
Entries == [type : Types, count : Counts, left : Int]
Queues == Seq(Entries)

Has(q, type) == \E i \in 1 .. Len(q) : q[i].type = type
AtMostOne(q, type) ==
    \A i, j \in 1 .. Len(q) : q[i].type = type /\ q[j].type = type => i = j

(* q2 is q with e put in at p; q2 is q without its entry at p *)
Inserted(q, p, e, q2) ==
    /\ p \in 1 .. Len(q) + 1 /\ Len(q2) = Len(q) + 1
    /\ \A i \in 1 .. Len(q2) :
          q2[i] = IF i < p THEN q[i] ELSE IF i = p THEN e ELSE q[i - 1]

Dropped(q, p, q2) ==
    /\ p \in 1 .. Len(q) /\ Len(q2) = Len(q) - 1
    /\ \A i \in 1 .. Len(q2) : q2[i] = IF i < p THEN q[i] ELSE q[i + 1]

LEMMA InsertAtInserts ==
    ASSUME NEW q \in Queues, NEW e \in Entries, NEW p \in 1 .. Len(q) + 1
    PROVE  InsertAt(q, p, e) \in Queues /\ Inserted(q, p, e, InsertAt(q, p, e))
<1> DEFINE a == SubSeq(q, 1, p - 1)  b == SubSeq(q, p, Len(q))
<1>1. Len(q) \in Nat /\ p \in Int /\ q \in Seq(Entries)
    BY DEF Queues
<1>2. /\ a \in Seq(Entries) /\ Len(a) = p - 1
      /\ \A i \in 1 .. p - 1 : a[i] = q[i]
    BY <1>1
<1>3. /\ b \in Seq(Entries) /\ Len(b) = Len(q) - p + 1
      /\ \A i \in 1 .. Len(q) - p + 1 : b[i] = q[p + i - 1]
    BY <1>1
<1> HIDE DEF a, b
<1> DEFINE c == a \o << e >>
<1>4. /\ c \in Seq(Entries) /\ Len(c) = p
      /\ \A i \in 1 .. p : c[i] = IF i < p THEN a[i] ELSE e
    BY <1>1, <1>2
<1> HIDE DEF c
<1>5. /\ c \o b \in Seq(Entries) /\ Len(c \o b) = Len(q) + 1
      /\ \A i \in 1 .. Len(q) + 1 : (c \o b)[i] = IF i <= p THEN c[i] ELSE b[i - p]
  <2>1. c \in Seq(Entries) /\ b \in Seq(Entries)
      BY <1>3, <1>4
  <2>2. /\ c \o b \in Seq(Entries) /\ Len(c \o b) = Len(c) + Len(b)
        /\ \A i \in 1 .. Len(c) + Len(b) :
              (c \o b)[i] = IF i <= Len(c) THEN c[i] ELSE b[i - Len(c)]
      BY <2>1, ConcatProperties
  <2>3. Len(c) = p /\ Len(c) + Len(b) = Len(q) + 1
      BY <1>1, <1>3, <1>4
  <2> QED BY <2>2, <2>3
<1>6. InsertAt(q, p, e) = c \o b
    BY DEF InsertAt, a, b, c
<1>7. ASSUME NEW i \in 1 .. Len(q) + 1
      PROVE  (c \o b)[i] = IF i < p THEN q[i] ELSE IF i = p THEN e ELSE q[i - 1]
  <2>1. CASE i < p
      BY <1>1, <1>2, <1>4, <1>5, <2>1
  <2>2. CASE i = p
      BY <1>1, <1>4, <1>5, <2>2
  <2>3. CASE i > p
    <3>1. i - p \in 1 .. Len(q) - p + 1 /\ p + (i - p) - 1 = i - 1
        BY <1>1, <2>3
    <3>2. (c \o b)[i] = b[i - p]
        BY <1>1, <1>5, <2>3
    <3> QED BY <1>1, <1>3, <2>3, <3>1, <3>2
  <2>4. i < p \/ i = p \/ i > p
      BY <1>1
  <2> QED BY <2>1, <2>2, <2>3, <2>4, Zenon
<1> QED BY <1>5, <1>6, <1>7 DEF Queues, Inserted

LEMMA RemoveAtDrops ==
    ASSUME NEW q \in Queues, NEW p \in 1 .. Len(q)
    PROVE  RemoveAt(q, p) \in Queues /\ Dropped(q, p, RemoveAt(q, p))
<1> DEFINE a == SubSeq(q, 1, p - 1)  b == SubSeq(q, p + 1, Len(q))
<1>1. Len(q) \in Nat /\ p \in Int /\ q \in Seq(Entries)
    BY DEF Queues
<1>2. /\ a \in Seq(Entries) /\ Len(a) = p - 1
      /\ \A i \in 1 .. p - 1 : a[i] = q[i]
    BY <1>1
<1>3. /\ b \in Seq(Entries) /\ Len(b) = Len(q) - p
      /\ \A i \in 1 .. Len(q) - p : b[i] = q[p + i]
    BY <1>1
<1> HIDE DEF a, b
<1>4. /\ a \o b \in Seq(Entries) /\ Len(a \o b) = Len(q) - 1
      /\ \A i \in 1 .. Len(q) - 1 : (a \o b)[i] = IF i <= p - 1 THEN a[i] ELSE b[i - (p - 1)]
  <2>1. a \in Seq(Entries) /\ b \in Seq(Entries)
      BY <1>2, <1>3
  <2>2. /\ a \o b \in Seq(Entries) /\ Len(a \o b) = Len(a) + Len(b)
        /\ \A i \in 1 .. Len(a) + Len(b) :
              (a \o b)[i] = IF i <= Len(a) THEN a[i] ELSE b[i - Len(a)]
      BY <2>1, ConcatProperties
  <2>3. Len(a) = p - 1 /\ Len(a) + Len(b) = Len(q) - 1
      BY <1>1, <1>2, <1>3
  <2> QED BY <2>2, <2>3
<1>5. RemoveAt(q, p) = a \o b
    BY DEF RemoveAt, a, b
<1>6. Dropped(q, p, a \o b)
    BY <1>1, <1>2, <1>3, <1>4 DEF Dropped
<1> QED BY <1>4, <1>5, <1>6 DEF Queues

LEMMA TailDrops ==
    ASSUME NEW q \in Queues, q # << >>
    PROVE  Tail(q) \in Queues /\ Dropped(q, 1, Tail(q))
BY DEF Queues, Dropped

LEMMA PrependInserts ==
    ASSUME NEW q \in Queues, NEW e \in Entries
    PROVE  << e >> \o q \in Queues /\ Inserted(q, 1, e, << e >> \o q)
BY DEF Queues, Inserted

(* What is in a queue an entry was put into, and where. *)
LEMMA InsertedEntries ==
    ASSUME NEW q \in Queues, NEW e \in Entries, NEW p, NEW q2 \in Queues,
           Inserted(q, p, e, q2)
    PROVE  /\ p \in 1 .. Len(q2) /\ q2[p] = e /\ Len(q2) = Len(q) + 1
           /\ \A i \in 1 .. Len(q2) :
                 \/ i = p
                 \/ i < p /\ i \in 1 .. Len(q) /\ q2[i] = q[i]
                 \/ i > p /\ i - 1 \in 1 .. Len(q) /\ q2[i] = q[i - 1]
           /\ \A i \in 1 .. Len(q) :
                 \/ i < p /\ i \in 1 .. Len(q2) /\ q2[i] = q[i]
                 \/ i >= p /\ i + 1 \in 1 .. Len(q2) /\ q2[i + 1] = q[i]
<1>1. Len(q) \in Nat
    BY DEF Queues
<1> QED BY <1>1 DEF Inserted

LEMMA InsertedTypes ==
    ASSUME NEW q \in Queues, NEW e \in Entries, NEW p, NEW q2 \in Queues,
           Inserted(q, p, e, q2)
    PROVE  /\ \A t : Has(q2, t) <=> Has(q, t) \/ t = e.type
           /\ \A t : AtMostOne(q, t) /\ (t # e.type \/ ~Has(q, t)) => AtMostOne(q2, t)
<1>1. Len(q) \in Nat
    BY DEF Queues
<1>2. ASSUME NEW t PROVE Has(q2, t) <=> Has(q, t) \/ t = e.type
  <2>1. ASSUME Has(q2, t) PROVE Has(q, t) \/ t = e.type
    <3>1. PICK i \in 1 .. Len(q2) : q2[i].type = t
        BY <2>1 DEF Has
    <3>2. \/ i = p
          \/ i \in 1 .. Len(q) /\ q2[i] = q[i]
          \/ i - 1 \in 1 .. Len(q) /\ q2[i] = q[i - 1]
        BY InsertedEntries
    <3>3. q2[p] = e
        BY InsertedEntries
    <3> QED BY <3>1, <3>2, <3>3 DEF Has
  <2>2. ASSUME Has(q, t) PROVE Has(q2, t)
    <3>1. PICK i \in 1 .. Len(q) : q[i].type = t
        BY <2>2 DEF Has
    <3>2. \/ i \in 1 .. Len(q2) /\ q2[i] = q[i]
          \/ i + 1 \in 1 .. Len(q2) /\ q2[i + 1] = q[i]
        BY InsertedEntries
    <3> QED BY <3>1, <3>2 DEF Has
  <2>3. t = e.type => Has(q2, t)
      BY InsertedEntries DEF Has
  <2> QED BY <2>1, <2>2, <2>3
<1>3. ASSUME NEW t, AtMostOne(q, t), t # e.type \/ ~Has(q, t) PROVE AtMostOne(q2, t)
  <2> SUFFICES ASSUME NEW i \in 1 .. Len(q2), NEW j \in 1 .. Len(q2),
                      q2[i].type = t, q2[j].type = t
               PROVE  i = j
      BY DEF AtMostOne
  <2>1. CASE t # e.type
    <3>1. i # p /\ j # p
        BY <2>1, InsertedEntries
    <3> DEFINE a == IF i < p THEN i ELSE i - 1
               b == IF j < p THEN j ELSE j - 1
    <3>2. a \in 1 .. Len(q) /\ b \in 1 .. Len(q) /\ q[a].type = t /\ q[b].type = t
        BY <3>1, InsertedEntries
    <3>3. a = b
        BY <1>3, <3>2 DEF AtMostOne
    <3> QED BY <3>1, <3>3, InsertedEntries, <1>1
  <2>2. CASE ~Has(q, t)
    <3>1. i = p
        BY <2>2, InsertedEntries DEF Has
    <3>2. j = p
        BY <2>2, InsertedEntries DEF Has
    <3> QED BY <3>1, <3>2
  <2> QED BY <1>3, <2>1, <2>2
<1> QED BY <1>2, <1>3

LEMMA DroppedEntries ==
    ASSUME NEW q \in Queues, NEW p, NEW q2 \in Queues, Dropped(q, p, q2)
    PROVE  /\ p \in 1 .. Len(q) /\ Len(q2) = Len(q) - 1
           /\ \A i \in 1 .. Len(q2) :
                 \/ i < p /\ i \in 1 .. Len(q) /\ q2[i] = q[i]
                 \/ i >= p /\ i + 1 \in 1 .. Len(q) /\ q2[i] = q[i + 1]
           /\ \A i \in 1 .. Len(q) :
                 \/ i = p
                 \/ i < p /\ i \in 1 .. Len(q2) /\ q2[i] = q[i]
                 \/ i > p /\ i - 1 \in 1 .. Len(q2) /\ q2[i - 1] = q[i]
<1>1. Len(q) \in Nat
    BY DEF Queues
<1> QED BY <1>1 DEF Dropped

LEMMA DroppedTypes ==
    ASSUME NEW q \in Queues, NEW p, NEW q2 \in Queues, Dropped(q, p, q2)
    PROVE  /\ \A t : Has(q2, t) => Has(q, t)
           /\ \A t : Has(q, t) /\ t # q[p].type => Has(q2, t)
           /\ \A t : AtMostOne(q, t) => AtMostOne(q2, t)
           /\ AtMostOne(q, q[p].type) => ~Has(q2, q[p].type)
<1>1. Len(q) \in Nat
    BY DEF Queues
<1>2. \A t : Has(q2, t) => Has(q, t)
    BY DroppedEntries DEF Has
<1>3. \A t : Has(q, t) /\ t # q[p].type => Has(q2, t)
    BY DroppedEntries DEF Has
<1>4. ASSUME NEW t, AtMostOne(q, t) PROVE AtMostOne(q2, t)
  <2> SUFFICES ASSUME NEW i \in 1 .. Len(q2), NEW j \in 1 .. Len(q2),
                      q2[i].type = t, q2[j].type = t
               PROVE  i = j
      BY DEF AtMostOne
  <2> DEFINE a == IF i < p THEN i ELSE i + 1
             b == IF j < p THEN j ELSE j + 1
  <2>1. a \in 1 .. Len(q) /\ q[a].type = t
      BY DroppedEntries
  <2>2. b \in 1 .. Len(q) /\ q[b].type = t
      BY DroppedEntries
  <2>3. a = b
      BY <1>4, <2>1, <2>2 DEF AtMostOne
  <2>4. p \in 1 .. Len(q)
      BY DroppedEntries
  <2> QED BY <2>3, <2>4, <1>1
<1>5. ASSUME AtMostOne(q, q[p].type), Has(q2, q[p].type) PROVE FALSE
  <2>1. PICK i \in 1 .. Len(q2) : q2[i].type = q[p].type
      BY <1>5 DEF Has
  <2> DEFINE a == IF i < p THEN i ELSE i + 1
  <2>2. a \in 1 .. Len(q) /\ p \in 1 .. Len(q) /\ q[a].type = q[p].type /\ a # p
      BY <2>1, DroppedEntries, <1>1
  <2> QED BY <1>5, <2>2 DEF AtMostOne
<1> QED BY <1>2, <1>3, <1>4, <1>5

-----------------------------------------------------------------------------
(***************************************************************************)
(* What holds of a machine inside a handler, where cycle_count may be out  *)
(* of date and an event may be missing (Sound), and of one at rest (Whole).*)
(* An event is counted from Count, not more than half a turn of Count away *)
(* but for the timer, which may be a whole turn away.                      *)
(***************************************************************************)
Machines == [count : Counts, compare : Counts, cycle : -Half .. Half - 1, q : Queues,
             enabled : SUBSET Lines, exl : BOOLEAN, ip : SUBSET Lines,
             line : BOOLEAN, busy : BOOLEAN, disciplined : BOOLEAN]

InReach(e) ==
    /\ 1 - Half <= e.left
    /\ e.left <= (IF e.type = "COMPARE" THEN Modulus - 1 + CountPerOp ELSE Half)
    /\ e.type = "CHECK" => e.left <= 0

TimedAt(c, e) == e.count = (c + e.left) % Modulus /\ InReach(e)

Timed(c, q) == \A i \in 1 .. Len(q) : TimedAt(c, q[i])

Single == {"SPECIAL", "COMPARE", "VI"}

Sound(r) ==
    /\ r \in Machines /\ Len(r.q) <= Capacity /\ Timed(r.count, r.q)
    /\ \A t \in Single : AtMostOne(r.q, t)

Current(r) == r.q # << >> /\ r.cycle = CycleOf(r, r.q)

Whole(r) ==
    /\ Sound(r) /\ Current(r)
    /\ Has(r.q, "SPECIAL") /\ Has(r.q, "COMPARE")

LEMMA MachineFields ==
    ASSUME NEW r \in Machines
    PROVE  /\ r.count \in Counts /\ r.compare \in Counts /\ r.cycle \in -Half .. Half - 1
           /\ r.q \in Queues /\ Len(r.q) \in Nat
           /\ r.count \in Int /\ r.compare \in Int /\ r.cycle \in Int
BY ModulusTypes DEF Machines, Queues, Counts

LEMMA EntryFields ==
    ASSUME NEW q \in Queues, NEW i \in 1 .. Len(q)
    PROVE  /\ q[i] \in Entries /\ q[i].type \in Types
           /\ q[i].count \in Counts /\ q[i].count \in Int /\ q[i].left \in Int
<1>1. q[i] \in Entries
    BY DEF Queues
<1>2. q[i].type \in Types /\ q[i].count \in Counts /\ q[i].left \in Int
    BY <1>1 DEF Entries
<1> QED BY <1>1, <1>2, ModulusTypes DEF Counts

LEMMA CycleTypes ==
    ASSUME NEW r \in Machines, NEW q \in Queues
    PROVE  CycleOf(r, q) \in -Half .. Half - 1
<1>1. CASE q = << >>
    BY <1>1, ModulusTypes DEF CycleOf
<1>2. CASE q # << >>
  <2>1. 1 \in 1 .. Len(q)
      BY <1>2 DEF Queues
  <2>2. r.count - q[1].count \in Int
      BY <2>1, MachineFields, EntryFields
  <2> QED BY <1>2, <2>2, SignedTypes DEF CycleOf
<1> QED BY <1>1, <1>2

LEMMA CycleOfFirst ==
    ASSUME NEW r \in Machines, NEW q \in Queues, q # << >>,
           q[1].count = (r.count + q[1].left) % Modulus
    PROVE  CycleOf(r, q) = Signed(-q[1].left)
<1>1. 1 \in 1 .. Len(q)
    BY DEF Queues
<1>2. /\ r.count \in Int /\ q[1].left \in Int /\ q[1].count \in Int
      /\ r.count + q[1].left \in Int
    BY <1>1, MachineFields, EntryFields
<1>3. (r.count - q[1].count) % Modulus = (r.count - (r.count + q[1].left)) % Modulus
    BY <1>2, MinusResidue
<1>4. r.count - (r.count + q[1].left) = -q[1].left /\ r.count - q[1].count \in Int
    BY <1>2
<1> QED BY <1>2, <1>3, <1>4, SignedSame DEF CycleOf

(* Add puts the entry before the first that is due later.                  *)
LEMMA AddPlaces ==
    ASSUME NEW r \in Machines, NEW e \in Entries, Len(r.q) < Capacity
    PROVE  \E p, q2 :
              /\ q2 \in Queues /\ Inserted(r.q, p, e, q2)
              /\ Add(r, e) = [r EXCEPT !.q = q2, !.cycle = CycleOf(r, q2)]
              /\ \A i \in 1 .. Len(r.q) : i < p => ~before_event(r, e.count, r.q[i].count)
              /\ p \in 1 .. Len(r.q) => before_event(r, e.count, r.q[p].count)
<1> DEFINE later == {i \in 1 .. Len(r.q) : before_event(r, e.count, r.q[i].count)}
           place == IF later = {} THEN Len(r.q) + 1
                    ELSE CHOOSE i \in later : \A j \in later : i <= j
           q2 == InsertAt(r.q, place, e)
<1>1. r.q \in Queues /\ Len(r.q) \in Nat
    BY MachineFields
<1>2. Capacity \in Nat
    BY InterruptsAssumption
<1>3. Add(r, e) = [r EXCEPT !.q = q2, !.cycle = CycleOf(r, q2)]
    BY <1>1, <1>2 DEF Add
<1>4. /\ place \in 1 .. Len(r.q) + 1
      /\ \A i \in 1 .. Len(r.q) : i < place => i \notin later
      /\ place \in 1 .. Len(r.q) => place \in later
  <2>1. CASE later = {}
      BY <1>1, <2>1
  <2>2. CASE later # {}
    <3>1. later \subseteq Nat /\ later \subseteq 1 .. Len(r.q)
        BY <1>1
    <3> HIDE DEF later
    <3>2. \E i \in later : \A j \in later : i <= j
        BY <2>2, <3>1, LeastNat
    <3>3. place \in later /\ \A j \in later : place <= j
        BY <2>2, <3>2
    <3> HIDE DEF place
    <3> QED BY <1>1, <3>1, <3>3
  <2> QED BY <2>1, <2>2
<1> HIDE DEF place
<1>5. q2 \in Queues /\ Inserted(r.q, place, e, q2)
    BY <1>1, <1>4, InsertAtInserts
<1>6. /\ \A i \in 1 .. Len(r.q) : i < place => ~before_event(r, e.count, r.q[i].count)
      /\ place \in 1 .. Len(r.q) => before_event(r, e.count, r.q[place].count)
    BY <1>4
<1> HIDE DEF q2
<1> QED BY <1>3, <1>5, <1>6, Zenon

LEMMA AddFull ==
    ASSUME NEW r, NEW e, Len(r.q) >= Capacity
    PROVE  Add(r, e) = r
BY DEF Add

(* An entry goes in: the others stay, and cycle_count is up to date.       *)
LEMMA InsertedSound ==
    ASSUME NEW r, Sound(r), NEW e \in Entries, NEW p, NEW s \in Machines,
           s.count = r.count, s.cycle = CycleOf(s, s.q),
           Inserted(r.q, p, e, s.q), TimedAt(r.count, e), Len(r.q) < Capacity,
           e.type \in Single => ~Has(r.q, e.type)
    PROVE  Sound(s) /\ Current(s)
<1>1. r \in Machines /\ r.q \in Queues /\ Len(r.q) \in Nat /\ s.q \in Queues
    BY MachineFields DEF Sound
<1>2. Len(s.q) = Len(r.q) + 1
    BY <1>1, InsertedEntries
<1>3. Capacity \in Nat
    BY InterruptsAssumption
<1>4. Timed(r.count, s.q)
  <2> SUFFICES ASSUME NEW i \in 1 .. Len(s.q) PROVE TimedAt(r.count, s.q[i])
      BY DEF Timed
  <2>1. s.q[p] = e
      BY <1>1, InsertedEntries
  <2>2. \/ i = p
        \/ i \in 1 .. Len(r.q) /\ s.q[i] = r.q[i]
        \/ i - 1 \in 1 .. Len(r.q) /\ s.q[i] = r.q[i - 1]
      BY <1>1, InsertedEntries
  <2>3. \A j \in 1 .. Len(r.q) : TimedAt(r.count, r.q[j])
      BY DEF Sound, Timed
  <2> QED BY <2>1, <2>2, <2>3
<1>5. \A t \in Single : AtMostOne(s.q, t)
  <2> SUFFICES ASSUME NEW t \in Single PROVE AtMostOne(s.q, t)
      OBVIOUS
  <2>1. AtMostOne(r.q, t)
      BY DEF Sound
  <2>2. t # e.type \/ ~Has(r.q, t)
      OBVIOUS
  <2> QED BY <1>1, <2>1, <2>2, InsertedTypes
<1>6. s.q # << >>
    BY <1>1, <1>2
<1>7. Sound(s)
    BY <1>1, <1>2, <1>3, <1>4, <1>5 DEF Sound
<1> QED BY <1>6, <1>7 DEF Current

(* The registers the queue's operations leave alone. *)
Aside(r) == << r.compare, r.enabled, r.exl, r.ip, r.line, r.busy, r.disciplined >>

LEMMA SoundFields ==
    ASSUME NEW r, Sound(r)
    PROVE  /\ r \in Machines /\ r.q \in Queues /\ Len(r.q) \in Nat
           /\ Len(r.q) <= Capacity /\ Capacity \in Nat
           /\ \A i \in 1 .. Len(r.q) : TimedAt(r.count, r.q[i])
           /\ \A t \in Single : AtMostOne(r.q, t)
BY MachineFields, InterruptsAssumption DEF Sound, Timed

LEMMA AddSound ==
    ASSUME NEW r, Sound(r), NEW e \in Entries, TimedAt(r.count, e), Len(r.q) < Capacity,
           e.type \in Single => ~Has(r.q, e.type)
    PROVE  LET s == Add(r, e)
           IN /\ Sound(s) /\ Current(s) /\ s.count = r.count /\ Aside(s) = Aside(r)
              /\ Len(s.q) = Len(r.q) + 1
              /\ \E p : Inserted(r.q, p, e, s.q)
              /\ \A t : Has(s.q, t) <=> Has(r.q, t) \/ t = e.type
<1>1. r \in Machines /\ r.q \in Queues
    BY SoundFields
<1>2. PICK p, q2 :
         /\ q2 \in Queues /\ Inserted(r.q, p, e, q2)
         /\ Add(r, e) = [r EXCEPT !.q = q2, !.cycle = CycleOf(r, q2)]
    BY <1>1, AddPlaces
<1> DEFINE c == CycleOf(r, q2)
           s == [r EXCEPT !.q = q2, !.cycle = c]
<1>3. c = CycleOf(s, q2)
    BY <1>1 DEF CycleOf, Machines
<1>4. c \in -Half .. Half - 1
    BY <1>1, <1>2, CycleTypes
<1> HIDE DEF c
<1>5. /\ s \in Machines /\ s.q = q2 /\ s.cycle = c
      /\ s.count = r.count /\ Aside(s) = Aside(r)
    BY <1>1, <1>2, <1>4 DEF Machines, Aside
<1>6. \A t : Has(q2, t) <=> Has(r.q, t) \/ t = e.type
    BY <1>1, <1>2, InsertedTypes
<1>7. Len(q2) = Len(r.q) + 1
    BY <1>1, <1>2, InsertedEntries
<1>8. Add(r, e) = s
    BY <1>2 DEF c
<1> HIDE DEF s
<1>9. Sound(s) /\ Current(s)
    BY <1>2, <1>3, <1>5, InsertedSound
<1> QED BY <1>2, <1>5, <1>6, <1>7, <1>8, <1>9

(* An entry goes out. *)
LEMMA DroppedSound ==
    ASSUME NEW r, Sound(r), NEW p, NEW q2 \in Queues, Dropped(r.q, p, q2)
    PROVE  /\ Len(q2) = Len(r.q) - 1 /\ Len(q2) <= Capacity /\ Timed(r.count, q2)
           /\ \A t \in Single : AtMostOne(q2, t)
<1>1. r.q \in Queues /\ Len(r.q) \in Nat /\ Len(r.q) <= Capacity /\ Capacity \in Nat
    BY SoundFields
<1>2. Len(q2) = Len(r.q) - 1
    BY <1>1, DroppedEntries
<1>3. Timed(r.count, q2)
  <2> SUFFICES ASSUME NEW i \in 1 .. Len(q2) PROVE TimedAt(r.count, q2[i])
      BY DEF Timed
  <2>1. \/ i \in 1 .. Len(r.q) /\ q2[i] = r.q[i]
        \/ i + 1 \in 1 .. Len(r.q) /\ q2[i] = r.q[i + 1]
      BY <1>1, DroppedEntries
  <2> QED BY <2>1, SoundFields
<1>4. \A t \in Single : AtMostOne(q2, t)
    BY <1>1, SoundFields, DroppedTypes
<1> QED BY <1>1, <1>2, <1>3, <1>4

LEMMA RemoveFirstSound ==
    ASSUME NEW r, Sound(r), r.q # << >>
    PROVE  LET s == remove_interrupt_event(r)
           IN /\ Sound(s) /\ s.count = r.count /\ Aside(s) = Aside(r)
              /\ s.q = Tail(r.q) /\ s.cycle = CycleOf(s, s.q)
              /\ Len(s.q) = Len(r.q) - 1 /\ Dropped(r.q, 1, s.q)
<1> DEFINE q2 == Tail(r.q)  c == CycleOf(r, q2)
           s == [r EXCEPT !.q = q2, !.cycle = c]
<1>1. r \in Machines /\ r.q \in Queues
    BY SoundFields
<1>2. q2 \in Queues /\ Dropped(r.q, 1, q2)
    BY <1>1, TailDrops
<1>3. c \in -Half .. Half - 1
    BY <1>1, <1>2, CycleTypes
<1>4. remove_interrupt_event(r) = s
    BY DEF remove_interrupt_event
<1>5. c = CycleOf(s, q2)
    BY <1>1 DEF CycleOf, Machines
<1> HIDE DEF q2, c
<1>6. s \in Machines
    BY <1>1, <1>2, <1>3 DEF Machines
<1>7. s.q = q2 /\ s.cycle = c /\ s.count = r.count
    BY <1>1 DEF Machines
<1>8. Aside(s) = Aside(r)
    BY <1>1 DEF Machines, Aside
<1> HIDE DEF s
<1>9. Sound(s)
    BY <1>2, <1>6, <1>7, DroppedSound DEF Sound
<1>10. Len(q2) = Len(r.q) - 1
    BY <1>2, DroppedSound
<1>11. q2 = Tail(r.q)
    BY DEF q2
<1> QED BY <1>2, <1>4, <1>5, <1>7, <1>8, <1>9, <1>10, <1>11

(* remove_event takes out one event of the type, if there is one. *)
LEMMA RemoveTypeSound ==
    ASSUME NEW r, Sound(r), NEW t
    PROVE  LET s == remove_event(r, t)
           IN /\ Sound(s) /\ s.count = r.count /\ s.cycle = r.cycle /\ Aside(s) = Aside(r)
              /\ ~Has(r.q, t) => s = r
              /\ Has(r.q, t) => /\ Len(s.q) = Len(r.q) - 1
                                /\ \E p : Dropped(r.q, p, s.q) /\ r.q[p].type = t
              /\ \A u : u # t => (Has(s.q, u) <=> Has(r.q, u))
              /\ t \in Single => ~Has(s.q, t)
<1> DEFINE ofType == {i \in 1 .. Len(r.q) : r.q[i].type = t}
           p == CHOOSE i \in ofType : \A j \in ofType : i <= j
           q2 == RemoveAt(r.q, p)
           s == [r EXCEPT !.q = q2]
<1>1. r \in Machines /\ r.q \in Queues /\ Len(r.q) \in Nat
    BY SoundFields
<1>2. CASE ~Has(r.q, t)
  <2>1. ofType = {}
      BY <1>2 DEF Has
  <2>2. remove_event(r, t) = r
      BY <2>1 DEF remove_event
  <2> QED BY <1>2, <2>2
<1>3. CASE Has(r.q, t)
  <2>1. ofType # {} /\ ofType \subseteq 1 .. Len(r.q) /\ ofType \subseteq Nat
      BY <1>1, <1>3 DEF Has
  <2>2. remove_event(r, t) = s
      BY <2>1 DEF remove_event
  <2>3. p \in 1 .. Len(r.q) /\ r.q[p].type = t
    <3> HIDE DEF ofType
    <3>1. \E i \in ofType : \A j \in ofType : i <= j
        BY <2>1, LeastNat
    <3>2. p \in ofType
        BY <3>1
    <3> QED BY <2>1, <3>2 DEF ofType
  <2> HIDE DEF p
  <2>4. q2 \in Queues /\ Dropped(r.q, p, q2)
      BY <1>1, <2>3, RemoveAtDrops
  <2> HIDE DEF q2
  <2>5. s \in Machines
      BY <1>1, <2>4 DEF Machines
  <2>6. s.q = q2 /\ s.cycle = r.cycle /\ s.count = r.count
      BY <1>1 DEF Machines
  <2>7. Aside(s) = Aside(r)
      BY <1>1 DEF Machines, Aside
  <2> HIDE DEF s
  <2>8. Sound(s) /\ Len(q2) = Len(r.q) - 1
      BY <2>4, <2>5, <2>6, DroppedSound DEF Sound
  <2>9. \A u : u # t => (Has(q2, u) <=> Has(r.q, u))
      BY <1>1, <2>3, <2>4, DroppedTypes
  <2>10. t \in Single => ~Has(q2, t)
    <3>1. t \in Single => AtMostOne(r.q, t)
        BY SoundFields
    <3> QED BY <1>1, <2>3, <2>4, <3>1, DroppedTypes
  <2> QED BY <1>3, <2>2, <2>3, <2>4, <2>6, <2>7, <2>8, <2>9, <2>10
<1> QED BY <1>2, <1>3

-----------------------------------------------------------------------------
(***************************************************************************)
(* The events the handlers add.                                            *)
(***************************************************************************)
LEMMA BoundTypes ==
    /\ CountPerOp \in Nat /\ CountPerOp > 0 /\ CountPerOp < Half
    /\ ViDelay \in Nat /\ ViDelay > 0 /\ ViDelay < Half
    /\ MaxBlock \in Nat /\ MaxBlock > 0 /\ MaxBlock < Half
    /\ MaxLate \in Nat /\ MaxLate < ViDelay /\ 2 * MaxLate + CountPerOp < Half
    /\ Capacity \in Nat /\ Capacity >= 5
BY InterruptsAssumption

LEMMA EventFields ==
    ASSUME NEW t \in Types, NEW c \in Counts, NEW l \in Int
    PROVE  /\ Event(t, c, l) \in Entries /\ Event(t, c, l).type = t
           /\ Event(t, c, l).count = c /\ Event(t, c, l).left = l
BY DEF Event, Entries

SpecialEvent(r) ==
    LET c == IF r.count < Half THEN Half ELSE 0
    IN Event("SPECIAL", c, Ahead(c, r.count))

LEMMA SpecialTimed ==
    ASSUME NEW r \in Machines
    PROVE  /\ AddSpecial(r) = Add(r, SpecialEvent(r))
           /\ SpecialEvent(r) \in Entries /\ SpecialEvent(r).type = "SPECIAL"
           /\ SpecialEvent(r).left = (IF r.count < Half THEN Half ELSE Modulus) - r.count
           /\ SpecialEvent(r).left \in 1 .. Half
           /\ TimedAt(r.count, SpecialEvent(r))
<1> DEFINE c == IF r.count < Half THEN Half ELSE 0
           a == Ahead(c, r.count)
           w == (IF r.count < Half THEN Half ELSE Modulus) - r.count
<1>1. r.count \in Counts /\ r.count \in Int
    BY MachineFields
<1>2. c \in Counts /\ c \in Int /\ c - r.count \in Int
    BY <1>1, ModulusTypes DEF Counts
<1>3. w \in 1 .. Half /\ w \in Counts /\ w \in Int
    BY <1>1, ModulusTypes DEF Counts
<1>4. a = w
  <2>1. CASE r.count < Half
    <3>1. c - r.count = w
        BY <2>1
    <3> QED BY <1>3, <3>1, ResidueIsItself DEF Ahead
  <2>2. CASE ~(r.count < Half)
    <3>1. c - r.count = w - Modulus
        BY <1>1, <2>2, ModulusTypes
    <3>2. (w - Modulus) % Modulus = w % Modulus
        BY <1>3, TurnLess
    <3> QED BY <1>3, <3>1, <3>2, ResidueIsItself DEF Ahead
  <2> QED BY <2>1, <2>2
<1>5. c = (r.count + w) % Modulus
  <2>1. CASE r.count < Half
    <3>1. r.count + w = c
        BY <1>1, <2>1, ModulusTypes
    <3> QED BY <1>2, <3>1, ResidueIsItself
  <2>2. CASE ~(r.count < Half)
    <3>1. (r.count + w) - Modulus = c /\ r.count + w \in Int
        BY <1>1, <2>2, ModulusTypes
    <3> QED BY <1>2, <3>1, ResidueIsItself, TurnLess
  <2> QED BY <2>1, <2>2
<1>6. AddSpecial(r) = Add(r, Event("SPECIAL", c, a)) /\ SpecialEvent(r) = Event("SPECIAL", c, a)
    BY DEF AddSpecial, SpecialEvent
<1>7. "SPECIAL" \in Types
    BY DEF Types
<1> DEFINE e == Event("SPECIAL", c, a)
<1>8. e \in Entries /\ e.type = "SPECIAL" /\ e.count = c /\ e.left = w
  <2> HIDE DEF a, c, w
  <2> QED BY <1>2, <1>3, <1>4, <1>7, EventFields
<1>9. TimedAt(r.count, e)
  <2> HIDE DEF e, c, w
  <2> QED BY <1>3, <1>5, <1>8, ModulusTypes DEF TimedAt, InReach
<1> QED BY <1>3, <1>6, <1>8, <1>9

LEMMA DelayTimed ==
    ASSUME NEW r \in Machines, NEW t \in {"VI", "PI"}, NEW l \in Int,
           1 - Half <= l, l <= Half, NEW c, c = (r.count + l) % Modulus
    PROVE  /\ Event(t, c, l) \in Entries /\ Event(t, c, l).type = t
           /\ Event(t, c, l).left = l /\ TimedAt(r.count, Event(t, c, l))
<1>1. r.count \in Int /\ r.count + l \in Int
    BY MachineFields
<1>2. c \in Counts /\ t \in Types
    BY <1>1, DivMod DEF Types
<1>3. /\ Event(t, c, l) \in Entries /\ Event(t, c, l).type = t
      /\ Event(t, c, l).count = c /\ Event(t, c, l).left = l
    BY <1>2, EventFields
<1>4. t # "COMPARE" /\ t # "CHECK"
    OBVIOUS
<1> HIDE DEF Event
<1>5. TimedAt(r.count, Event(t, c, l))
    BY <1>3, <1>4 DEF TimedAt, InReach
<1> QED BY <1>3, <1>5

CompareEvent(r, c) == Event("COMPARE", c, Match(r, c))

LEMMA CompareTimed ==
    ASSUME NEW r \in Machines, NEW c \in Counts
    PROVE  /\ CompareEvent(r, c) \in Entries /\ CompareEvent(r, c).type = "COMPARE"
           /\ CompareEvent(r, c).count = c /\ CompareEvent(r, c).left = Match(r, c)
           /\ Match(r, c) \in CountPerOp .. Modulus - 1 + CountPerOp
           /\ TimedAt(r.count, CompareEvent(r, c))
<1> DEFINE x == c - r.count - CountPerOp  l == Match(r, c)
<1>1. /\ r.count \in Int /\ c \in Int /\ CountPerOp \in Nat /\ x \in Int
      /\ CountPerOp > 0 /\ CountPerOp < Half /\ r.count + CountPerOp \in Int
    BY MachineFields, BoundTypes DEF Counts
<1>2. x % Modulus \in Counts /\ x % Modulus \in Int /\ l = (x % Modulus) + CountPerOp
    BY <1>1, DivMod DEF Counts, Match
<1>3. l \in Int /\ l \in CountPerOp .. Modulus - 1 + CountPerOp
    BY <1>1, <1>2, ModulusTypes DEF Counts
<1>4. ((x % Modulus) + (r.count + CountPerOp)) % Modulus = (x + (r.count + CountPerOp)) % Modulus
    BY <1>1, PlusResidue
<1>5. /\ (x % Modulus) + (r.count + CountPerOp) = r.count + l
      /\ x + (r.count + CountPerOp) = c
    BY <1>1, <1>2
<1>6. c = (r.count + l) % Modulus
    BY <1>4, <1>5, ResidueIsItself
<1>7. "COMPARE" \in Types
    BY DEF Types
<1> DEFINE e == CompareEvent(r, c)
<1>8. e \in Entries /\ e.type = "COMPARE" /\ e.count = c /\ e.left = l
  <2> HIDE DEF l
  <2>1. CompareEvent(r, c) = Event("COMPARE", c, l)
      BY DEF CompareEvent, l
  <2> QED BY <1>3, <1>7, <2>1, EventFields
<1>9. TimedAt(r.count, e)
  <2> HIDE DEF e, l
  <2> QED BY <1>1, <1>3, <1>6, <1>8, ModulusTypes DEF TimedAt, InReach
<1> QED BY <1>3, <1>8, <1>9

LEMMA AddSpecialSound ==
    ASSUME NEW r, Sound(r), Len(r.q) < Capacity, ~Has(r.q, "SPECIAL")
    PROVE  LET s == AddSpecial(r)
           IN /\ Sound(s) /\ Current(s) /\ s.count = r.count /\ Aside(s) = Aside(r)
              /\ Len(s.q) = Len(r.q) + 1
              /\ \A t : Has(s.q, t) <=> Has(r.q, t) \/ t = "SPECIAL"
<1>1. r \in Machines
    BY SoundFields
<1> QED BY <1>1, SpecialTimed, AddSound

LEMMA AddCompareSound ==
    ASSUME NEW r, Sound(r), NEW c \in Counts, Len(r.q) < Capacity, ~Has(r.q, "COMPARE")
    PROVE  LET s == AddCompare(r, c)
           IN /\ Sound(s) /\ Current(s) /\ s.count = r.count /\ Aside(s) = Aside(r)
              /\ Len(s.q) = Len(r.q) + 1 /\ \E p : Inserted(r.q, p, CompareEvent(r, c), s.q)
              /\ \A t : Has(s.q, t) <=> Has(r.q, t) \/ t = "COMPARE"
<1> DEFINE next == [r EXCEPT !.count = (r.count + CountPerOp) % Modulus,
                             !.cycle = Signed(r.cycle + CountPerOp)]
           e == CompareEvent(r, c)
<1>1. r \in Machines /\ r.q \in Queues
    BY SoundFields
<1>2. (r.count + CountPerOp) % Modulus \in Counts /\ Signed(r.cycle + CountPerOp) \in -Half .. Half - 1
  <2>1. r.count + CountPerOp \in Int /\ r.cycle + CountPerOp \in Int
      BY <1>1, MachineFields, BoundTypes
  <2> QED BY <2>1, DivMod, SignedTypes
<1>3. next \in Machines /\ next.q = r.q
    BY <1>1, <1>2 DEF Machines
<1>4. e \in Entries /\ e.type = "COMPARE" /\ TimedAt(r.count, e)
    BY <1>1, CompareTimed
<1> DEFINE added == Add(next, e)
           s == [added EXCEPT !.count = r.count, !.cycle = CycleOf(r, added.q)]
<1>5. AddCompare(r, c) = s
    BY DEF AddCompare, CompareEvent
<1> HIDE DEF next, e
<1>6. PICK p, q2 :
         /\ q2 \in Queues /\ Inserted(next.q, p, e, q2)
         /\ added = [next EXCEPT !.q = q2, !.cycle = CycleOf(next, q2)]
  <2>1. Len(next.q) < Capacity
      BY <1>3
  <2>2. \E p, q2 :
           /\ q2 \in Queues /\ Inserted(next.q, p, e, q2)
           /\ Add(next, e) = [next EXCEPT !.q = q2, !.cycle = CycleOf(next, q2)]
    <3>1. next \in Machines /\ e \in Entries
        BY <1>3, <1>4
    <3> QED BY <2>1, <3>1, AddPlaces
  <2> QED BY <2>2
<1>7. added.q = q2
    BY <1>3, <1>6 DEF Machines
<1> DEFINE d == CycleOf(r, q2)
<1>8. s = [r EXCEPT !.q = q2, !.cycle = d]
    BY <1>1, <1>3, <1>6, <1>7 DEF Machines, next
<1>9. d \in -Half .. Half - 1
    BY <1>1, <1>6, CycleTypes
<1> HIDE DEF s
<1>10. d = CycleOf(s, q2)
    BY <1>1, <1>8 DEF CycleOf, Machines
<1> HIDE DEF d
<1>11. /\ s \in Machines /\ s.q = q2 /\ s.cycle = d
       /\ s.count = r.count /\ Aside(s) = Aside(r)
    BY <1>1, <1>6, <1>8, <1>9 DEF Machines, Aside
<1>12. Sound(s) /\ Current(s)
    BY <1>3, <1>4, <1>6, <1>10, <1>11, InsertedSound
<1>13. \A t : Has(q2, t) <=> Has(r.q, t) \/ t = "COMPARE"
    BY <1>1, <1>3, <1>4, <1>6, InsertedTypes
<1>14. Len(q2) = Len(r.q) + 1
    BY <1>1, <1>3, <1>4, <1>6, InsertedEntries
<1>15. \E k : Inserted(r.q, k, CompareEvent(r, c), s.q)
    BY <1>3, <1>6, <1>11 DEF e
<1> QED BY <1>5, <1>11, <1>12, <1>13, <1>14, <1>15

-----------------------------------------------------------------------------
(***************************************************************************)
(* Time passes, interrupts are raised.                                     *)
(***************************************************************************)
SameClock(r, s) == s.q = r.q /\ s.count = r.count /\ s.cycle = r.cycle

LEMMA SameClockWhole ==
    ASSUME NEW r, NEW s \in Machines, SameClock(r, s)
    PROVE  (Sound(r) => Sound(s)) /\ (Current(r) => Current(s)) /\ (Whole(r) => Whole(s))
<1>1. Sound(r) => Sound(s)
    BY DEF Sound, SameClock
<1>2. Current(r) => Current(s)
    BY DEF Current, CycleOf, SameClock
<1> QED BY <1>1, <1>2 DEF Whole, SameClock

LEMMA LapsedSound ==
    ASSUME NEW r, Sound(r), NEW n \in Nat,
           \A i \in 1 .. Len(r.q) : r.q[i].left - n >= 1 - Half
    PROVE  LET s == Lapsed(r, n)
           IN /\ Sound(s) /\ (Current(r) => Current(s)) /\ Aside(s) = Aside(r)
              /\ s.count = (r.count + n) % Modulus /\ s.cycle = Signed(r.cycle + n)
              /\ Len(s.q) = Len(r.q)
              /\ \A i \in 1 .. Len(r.q) : /\ s.q[i].type = r.q[i].type
                                          /\ s.q[i].left = r.q[i].left - n
              /\ \A t : Has(s.q, t) <=> Has(r.q, t)
<1> DEFINE s == Lapsed(r, n)
           q2 == [i \in 1 .. Len(r.q) |-> [r.q[i] EXCEPT !.left = @ - n]]
           c2 == (r.count + n) % Modulus
           d2 == Signed(r.cycle + n)
<1>1. r \in Machines /\ r.q \in Queues /\ Len(r.q) \in Nat /\ r.count \in Int /\ r.cycle \in Int
    BY SoundFields, MachineFields
<1>2. s = [r EXCEPT !.count = c2, !.cycle = d2, !.q = q2]
    BY <1>1 DEF Lapsed, Machines
<1>3. \A i \in 1 .. Len(r.q) :
         /\ q2[i] \in Entries /\ q2[i].type = r.q[i].type /\ q2[i].count = r.q[i].count
         /\ q2[i].left = r.q[i].left - n
  <2> SUFFICES ASSUME NEW i \in 1 .. Len(r.q)
               PROVE  /\ q2[i] \in Entries /\ q2[i].type = r.q[i].type
                      /\ q2[i].count = r.q[i].count /\ q2[i].left = r.q[i].left - n
      OBVIOUS
  <2>1. r.q[i] \in Entries
      BY <1>1, EntryFields
  <2>2. q2[i] = [r.q[i] EXCEPT !.left = r.q[i].left - n]
      BY <2>1 DEF Entries
  <2> QED BY <2>1, <2>2 DEF Entries
<1>4. q2 \in Queues /\ Len(q2) = Len(r.q)
  <2> HIDE DEF q2
  <2>1. DOMAIN q2 = 1 .. Len(r.q) /\ q2 = [i \in 1 .. Len(r.q) |-> q2[i]]
      BY DEF q2
  <2>2. q2 \in [1 .. Len(r.q) -> Entries]
      BY <1>3, <2>1
  <2>3. q2 \in Seq(Entries)
      BY <1>1, <2>2, SeqDef
  <2>4. DOMAIN q2 = 1 .. Len(q2) /\ Len(q2) \in Nat
      BY <2>3, LenProperties
  <2> QED BY <1>1, <2>1, <2>3, <2>4 DEF Queues
<1>5. c2 \in Counts /\ d2 \in -Half .. Half - 1 /\ r.cycle + n \in Int /\ r.count + n \in Int
  <2>1. r.cycle + n \in Int /\ r.count + n \in Int
      BY <1>1
  <2> QED BY <2>1, DivMod, SignedTypes
<1> HIDE DEF q2, c2, d2
<1>6. /\ s \in Machines /\ s.q = q2 /\ s.count = c2 /\ s.cycle = d2 /\ Aside(s) = Aside(r)
    BY <1>1, <1>2, <1>4, <1>5 DEF Machines, Aside
<1> HIDE DEF s
<1>7. Timed(c2, q2)
  <2> SUFFICES ASSUME NEW i \in 1 .. Len(q2) PROVE TimedAt(c2, q2[i])
      BY DEF Timed
  <2>1. TimedAt(r.count, r.q[i]) /\ r.q[i].left - n >= 1 - Half /\ r.q[i].left \in Int
      BY <1>1, <1>4, SoundFields, EntryFields
  <2>2. /\ q2[i].type = r.q[i].type /\ q2[i].count = r.q[i].count
        /\ q2[i].left = r.q[i].left - n
      BY <1>3, <1>4
  <2>3. InReach(q2[i])
    <3> DEFINE a == r.q[i]  b == q2[i]
    <3>1. /\ InReach(a) /\ a.left \in Int /\ a.left - n >= 1 - Half
          /\ b.type = a.type /\ b.left = a.left - n
        BY <2>1, <2>2 DEF TimedAt
    <3> HIDE DEF a, b
    <3>2. InReach(b)
        BY <3>1, ModulusTypes, BoundTypes DEF InReach
    <3> QED BY <3>2 DEF b
  <2>4. (c2 + q2[i].left) % Modulus = (r.count + n + (r.q[i].left - n)) % Modulus
    <3>1. r.count + n \in Int /\ r.q[i].left - n \in Int
        BY <1>5, <2>1
    <3> QED BY <2>2, <3>1, PlusResidue DEF c2
  <2>5. r.count + n + (r.q[i].left - n) = r.count + r.q[i].left
      BY <1>1, <2>1
  <2> QED BY <2>1, <2>2, <2>3, <2>4, <2>5 DEF TimedAt
<1>8. \A t : Has(q2, t) <=> Has(r.q, t)
    BY <1>3, <1>4 DEF Has
<1>9. \A t : AtMostOne(r.q, t) => AtMostOne(q2, t)
    BY <1>3, <1>4 DEF AtMostOne
<1>10. Sound(s)
    BY <1>4, <1>6, <1>7, <1>9, SoundFields DEF Sound
<1>11. ASSUME Current(r) PROVE Current(s)
  <2>1. r.q # << >> /\ r.cycle = CycleOf(r, r.q) /\ 1 \in 1 .. Len(r.q)
      BY <1>1, <1>11 DEF Current, Queues
  <2>2. q2 # << >>
      BY <1>4, <2>1
  <2>3. r.q[1].left \in Int /\ q2[1].left = r.q[1].left - n
      BY <1>1, <1>3, <2>1, EntryFields
  <2>4. r.cycle = Signed(-r.q[1].left)
      BY <1>1, <2>1, SoundFields, CycleOfFirst DEF TimedAt
  <2>5. d2 = Signed(-r.q[1].left + n)
    <3>1. -r.q[1].left \in Int
        BY <2>3
    <3>2. d2 = Signed(Signed(-r.q[1].left) + n)
        BY <2>4 DEF d2
    <3>3. Signed(Signed(-r.q[1].left) + n) = Signed(-r.q[1].left + n)
      <4> DEFINE a == -r.q[1].left
      <4>1. a \in Int /\ n \in Int
          BY <3>1
      <4> HIDE DEF a
      <4>2. Signed(Signed(a) + n) = Signed(a + n)
          BY <4>1, SignedPlus
      <4> QED BY <4>2 DEF a
    <3> QED BY <3>2, <3>3
  <2>6. q2[1].count = (c2 + q2[1].left) % Modulus
      BY <1>4, <1>7, <2>1 DEF Timed, TimedAt
  <2>7. CycleOf(s, q2) = Signed(-q2[1].left)
      BY <1>4, <1>6, <2>2, <2>6, CycleOfFirst
  <2>8. -q2[1].left = -r.q[1].left + n
      BY <2>3
  <2> QED BY <1>6, <2>2, <2>5, <2>7, <2>8 DEF Current
<1>12. c2 = (r.count + n) % Modulus /\ d2 = Signed(r.cycle + n)
    BY DEF c2, d2
<1>13. s = Lapsed(r, n)
    BY DEF s
<1> QED BY <1>3, <1>4, <1>6, <1>8, <1>10, <1>11, <1>12, <1>13

LEMMA RaiseTypes ==
    ASSUME NEW r \in Machines, NEW ip \in Lines
    PROVE  LET s == Raise(r, ip)
           IN /\ s \in Machines /\ SameClock(r, s) /\ ~Pending(s)
              /\ s.disciplined = r.disciplined /\ s.busy = r.busy /\ s.enabled = r.enabled
<1> DEFINE raised == [r EXCEPT !.ip = @ \cup {ip}]
           taken == [raised EXCEPT !.exl = TRUE]
<1>1. /\ raised \in Machines /\ SameClock(r, raised) /\ raised.disciplined = r.disciplined
      /\ raised.busy = r.busy /\ raised.enabled = r.enabled
    BY DEF Machines, SameClock
<1>2. /\ taken \in Machines /\ SameClock(r, taken) /\ taken.disciplined = r.disciplined
      /\ taken.busy = r.busy /\ taken.exl = TRUE /\ taken.enabled = r.enabled
  <2> HIDE DEF raised
  <2> QED BY <1>1 DEF Machines, SameClock
<1>3. ~Pending(taken)
    BY <1>2 DEF Pending
<1>4. Raise(r, ip) = IF Pending(raised) THEN taken ELSE raised
    BY DEF Raise
<1> HIDE DEF raised, taken
<1> QED BY <1>1, <1>2, <1>3, <1>4

LEMMA RaiseRcpTypes ==
    ASSUME NEW r \in Machines, NEW s \in RaiseRcp(r)
    PROVE  /\ s \in Machines /\ SameClock(r, s) /\ (Pending(s) => Pending(r))
           /\ s.disciplined = r.disciplined /\ s.busy = r.busy
<1> DEFINE lit == [r EXCEPT !.line = TRUE]
<1>1. PICK l \in {r.line, TRUE} : s = IF l THEN Raise(lit, "rcp") ELSE r
    BY DEF RaiseRcp
<1>2. CASE s = r
    BY <1>2 DEF SameClock
<1>3. CASE s = Raise(lit, "rcp")
  <2>1. /\ lit \in Machines /\ SameClock(r, lit) /\ lit.disciplined = r.disciplined
        /\ lit.busy = r.busy
      BY DEF Machines, SameClock
  <2>2. "rcp" \in Lines
      BY DEF Lines
  <2> HIDE DEF lit
  <2> QED BY <1>3, <2>1, <2>2, RaiseTypes DEF SameClock
<1> QED BY <1>1, <1>2, <1>3

(* r4300_check_interrupt puts a CHECK in front, or nothing. *)
LEMMA CheckTypes ==
    ASSUME NEW r \in Machines
    PROVE  LET s == Check(r)
           IN /\ s \in Machines /\ s.disciplined = r.disciplined /\ s.busy = r.busy
              /\ s.count = r.count /\ s.enabled = r.enabled /\ s.exl = r.exl
              /\ \/ SameClock(r, s) /\ (Pending(s) => Len(r.q) >= Capacity)
                 \/ /\ s.q = << Event("CHECK", r.count, 0) >> \o r.q /\ s.cycle = 0
                    /\ Len(r.q) < Capacity
<1> DEFINE e == Event("CHECK", r.count, 0)
           caused == [r EXCEPT !.ip = IF r.line THEN @ \cup {"rcp"} ELSE @ \ {"rcp"}]
           queued == [caused EXCEPT !.q = << e >> \o @, !.cycle = 0]
<1>1. Check(r) = IF Pending(caused) /\ Len(r.q) < Capacity THEN queued ELSE caused
    BY DEF Check
<1>2. /\ caused \in Machines /\ SameClock(r, caused) /\ caused.disciplined = r.disciplined
      /\ caused.busy = r.busy /\ caused.enabled = r.enabled /\ caused.exl = r.exl
    BY DEF Machines, SameClock, Lines
<1>3. e \in Entries
    BY MachineFields, EventFields DEF Types
<1>4. << e >> \o r.q \in Queues
    BY <1>3, MachineFields, PrependInserts
<1>5. 0 \in -Half .. Half - 1
    BY ModulusTypes
<1>6. /\ queued \in Machines /\ queued.q = << e >> \o r.q /\ queued.cycle = 0
      /\ queued.count = r.count /\ queued.enabled = r.enabled /\ queued.exl = r.exl
      /\ queued.disciplined = r.disciplined /\ queued.busy = r.busy
  <2> HIDE DEF caused, e
  <2> QED BY <1>2, <1>4, <1>5 DEF Machines, SameClock
<1>7. Len(r.q) \in Nat /\ Capacity \in Nat
    BY MachineFields, BoundTypes
<1>8. ~(Len(r.q) < Capacity) => Len(r.q) >= Capacity
    BY <1>7
<1>9. CASE Pending(caused) /\ Len(r.q) < Capacity
  <2>1. Check(r) = queued
      BY <1>1, <1>9, Zenon
  <2> HIDE DEF caused, queued
  <2> QED BY <1>6, <1>9, <2>1
<1>10. CASE ~(Pending(caused) /\ Len(r.q) < Capacity)
  <2>1. Check(r) = caused
      BY <1>1, <1>10, Zenon
  <2> HIDE DEF caused, queued
  <2>2. Pending(caused) => Len(r.q) >= Capacity
      BY <1>8, <1>10, Zenon
  <2>3. /\ caused \in Machines /\ caused.disciplined = r.disciplined
        /\ caused.busy = r.busy /\ caused.count = r.count /\ caused.enabled = r.enabled
        /\ caused.exl = r.exl /\ SameClock(r, caused)
        /\ Pending(caused) => Len(r.q) >= Capacity
      BY <1>2, <2>2 DEF SameClock
  <2> QED BY <2>1, <2>3
<1> QED BY <1>9, <1>10, Zenon

LEMMA CheckWhole ==
    ASSUME NEW r, Whole(r)
    PROVE  LET s == Check(r)
           IN /\ Whole(s) /\ s.disciplined = r.disciplined /\ s.busy = r.busy
              /\ s.count = r.count /\ s.enabled = r.enabled /\ s.exl = r.exl
              /\ \/ SameClock(r, s) /\ (Pending(s) => Len(r.q) >= Capacity)
                 \/ /\ s.cycle = 0 /\ s.q[1] = Event("CHECK", r.count, 0)
                    /\ Inserted(r.q, 1, s.q[1], s.q) /\ Len(r.q) < Capacity
<1> DEFINE s == Check(r)  e == Event("CHECK", r.count, 0)
<1>1. Sound(r) /\ r \in Machines /\ r.q \in Queues /\ r.count \in Counts /\ r.count \in Int
    BY SoundFields, MachineFields DEF Whole
<1>2. /\ s \in Machines /\ s.disciplined = r.disciplined /\ s.busy = r.busy
      /\ s.count = r.count /\ s.enabled = r.enabled /\ s.exl = r.exl
      /\ \/ SameClock(r, s) /\ (Pending(s) => Len(r.q) >= Capacity)
         \/ s.q = << e >> \o r.q /\ s.cycle = 0 /\ Len(r.q) < Capacity
    BY <1>1, CheckTypes
<1> HIDE DEF s
<1>3. CASE SameClock(r, s)
  <2>1. Whole(s)
      BY <1>2, <1>3, SameClockWhole
  <2>2. Pending(s) => Len(r.q) >= Capacity
    <3>1. Len(s.q) = Len(r.q) /\ (s.q = << e >> \o r.q => Len(s.q) = Len(r.q) + 1)
      <4>1. s.q = << e >> \o r.q => Len(s.q) = Len(r.q) + 1
          BY <1>1
      <4> QED BY <1>3, <4>1 DEF SameClock
    <3>2. Len(r.q) \in Nat
        BY <1>1, MachineFields
    <3> QED BY <1>2, <3>1, <3>2
  <2> QED BY <1>2, <1>3, <2>1, <2>2 DEF s
<1>4. CASE s.q = << e >> \o r.q /\ s.cycle = 0 /\ Len(r.q) < Capacity
  <2>1. "CHECK" \in Types /\ 0 \in Int
      BY DEF Types
  <2>2. e \in Entries /\ e.type = "CHECK" /\ e.count = r.count /\ e.left = 0
      BY <1>1, <2>1, EventFields
  <2> HIDE DEF e
  <2>3. s.q \in Queues /\ Inserted(r.q, 1, e, s.q)
      BY <1>1, <1>4, <2>2, PrependInserts
  <2>4. s.q[1] = e /\ Len(s.q) = Len(r.q) + 1
      BY <1>1, <2>2, <2>3, InsertedEntries
  <2>5. TimedAt(r.count, e)
      BY <1>1, <2>2, ResidueIsItself, ModulusTypes DEF TimedAt, InReach
  <2>6. s.q # << >> /\ s.q[1].count = (s.count + s.q[1].left) % Modulus
      BY <1>1, <1>2, <2>4, <2>5, SoundFields DEF TimedAt
  <2>7. CycleOf(s, s.q) = 0
    <3>1. CycleOf(s, s.q) = Signed(-s.q[1].left)
        BY <1>2, <2>3, <2>6, CycleOfFirst
    <3>2. -s.q[1].left = 0 /\ 0 \in -Half .. Half - 1
        BY <2>2, <2>4, ModulusTypes
    <3> QED BY <3>1, <3>2, SignedIsItself
  <2>8. Sound(s) /\ Current(s)
    <3>1. e.type \notin Single
        BY <2>2 DEF Single
    <3> QED BY <1>1, <1>2, <1>4, <2>2, <2>3, <2>5, <2>7, <3>1, InsertedSound
  <2>9. Has(s.q, "SPECIAL") /\ Has(s.q, "COMPARE")
      BY <1>1, <2>2, <2>3, InsertedTypes DEF Whole
  <2> QED BY <1>2, <1>4, <2>3, <2>4, <2>8, <2>9 DEF Whole, s, e
<1> QED BY <1>2, <1>3, <1>4

-----------------------------------------------------------------------------
(***************************************************************************)
(* gen_interrupt: what it takes is due, and the machine is whole again     *)
(* when it returns.                                                        *)
(***************************************************************************)
LEMMA FirstDue ==
    ASSUME NEW r, Whole(r)
    PROVE  /\ 1 \in 1 .. Len(r.q) /\ First(r) = r.q[1] /\ First(r) \in Entries
           /\ First(r).type \in Types /\ First(r).left \in Int /\ TimedAt(r.count, First(r))
           /\ r.cycle = Signed(-First(r).left)
           /\ First(r).type # "COMPARE" /\ First(r).left < Half => r.cycle = -First(r).left
           /\ r.cycle >= 0 => First(r).type = "COMPARE" \/ First(r).left <= 0
<1> DEFINE e == r.q[1]
<1>1. /\ r \in Machines /\ r.q \in Queues /\ r.q # << >> /\ r.cycle = CycleOf(r, r.q)
      /\ r.cycle \in Int
    BY SoundFields, MachineFields DEF Whole, Current
<1>2. 1 \in 1 .. Len(r.q)
    BY <1>1 DEF Queues
<1>3. e \in Entries /\ e.type \in Types /\ e.left \in Int
    BY <1>1, <1>2, EntryFields
<1>4. TimedAt(r.count, e)
    BY <1>2, SoundFields DEF Whole
<1>5. r.cycle = Signed(-e.left)
    BY <1>1, <1>4, CycleOfFirst DEF TimedAt
<1> HIDE DEF e
<1>6. ASSUME e.type # "COMPARE" PROVE e.left < Half => r.cycle = -e.left
  <2>1. ASSUME e.left < Half PROVE -e.left \in -Half .. Half - 1
      BY <1>3, <1>4, <1>6, <2>1, ModulusTypes DEF TimedAt, InReach
  <2> QED BY <1>5, <2>1, SignedIsItself
<1>7. ASSUME e.type # "COMPARE", r.cycle >= 0 PROVE e.left <= 0
  <2>1. e.left <= Half
      BY <1>4, <1>7 DEF TimedAt, InReach
  <2>2. CASE e.left < Half
      BY <1>3, <1>6, <1>7, <2>2
  <2>3. CASE e.left = Half
    <3>1. -e.left \in -Half .. Half - 1 /\ -e.left < 0
        BY <2>3, ModulusTypes
    <3> QED BY <1>5, <1>7, <3>1, SignedIsItself
  <2> QED BY <1>3, <2>1, <2>2, <2>3, ModulusTypes
<1>8. First(r) = e
    BY DEF First, e
<1> QED BY <1>2, <1>3, <1>4, <1>5, <1>6, <1>7, <1>8 DEF e

LEMMA FirstTaken ==
    ASSUME NEW r, Whole(r)
    PROVE  LET s == remove_interrupt_event(r)
           IN /\ Sound(s) /\ s.count = r.count /\ Aside(s) = Aside(r)
              /\ s.cycle = CycleOf(s, s.q) /\ Len(s.q) < Capacity
              /\ Len(s.q) = Len(r.q) - 1 /\ Dropped(r.q, 1, s.q)
              /\ \A t : t # First(r).type => (Has(s.q, t) <=> Has(r.q, t))
              /\ \A t : AtMostOne(r.q, t) => AtMostOne(s.q, t)
              /\ AtMostOne(r.q, First(r).type) => ~Has(s.q, First(r).type)
              /\ First(r).type # "SPECIAL" => Current(s)
<1> DEFINE s == remove_interrupt_event(r)
<1>1. /\ Sound(r) /\ r.q \in Queues /\ r.q # << >> /\ Len(r.q) \in Nat
      /\ Len(r.q) <= Capacity /\ Capacity \in Nat
    BY SoundFields DEF Whole, Current
<1>2. /\ Sound(s) /\ s.count = r.count /\ Aside(s) = Aside(r) /\ s.cycle = CycleOf(s, s.q)
      /\ Len(s.q) = Len(r.q) - 1 /\ Dropped(r.q, 1, s.q) /\ s.q \in Queues
    BY <1>1, RemoveFirstSound, SoundFields
<1> HIDE DEF s
<1>3. First(r) = r.q[1]
    BY DEF First
<1>4. /\ \A t : t # First(r).type => (Has(s.q, t) <=> Has(r.q, t))
      /\ \A t : AtMostOne(r.q, t) => AtMostOne(s.q, t)
      /\ AtMostOne(r.q, First(r).type) => ~Has(s.q, First(r).type)
    BY <1>1, <1>2, <1>3, DroppedTypes
<1>5. ASSUME First(r).type # "SPECIAL" PROVE Current(s)
  <2>1. Has(s.q, "SPECIAL")
      BY <1>4, <1>5 DEF Whole
  <2>2. s.q # << >>
      BY <2>1 DEF Has
  <2> QED BY <1>2, <2>2 DEF Current
<1> QED BY <1>1, <1>2, <1>4, <1>5 DEF s

ViEvent(r) == Event("VI", (First(r).count + ViDelay) % Modulus, First(r).left + ViDelay)

LEMMA ViTimed ==
    ASSUME NEW r, Whole(r), r.cycle >= 0, First(r).type = "VI"
    PROVE  /\ ViEvent(r) \in Entries /\ ViEvent(r).type = "VI" /\ First(r).left \in Int
           /\ ViEvent(r).left = First(r).left + ViDelay /\ First(r).left <= 0
           /\ TimedAt(r.count, ViEvent(r))
<1> DEFINE e == First(r)  l == e.left + ViDelay  c == (e.count + ViDelay) % Modulus
<1>1. /\ r \in Machines /\ r.count \in Int /\ e.left \in Int /\ e.left <= 0
      /\ TimedAt(r.count, e) /\ e.left >= 1 - Half
    BY FirstDue, SoundFields, MachineFields DEF Whole, TimedAt, InReach
<1>2. l \in Int /\ 1 - Half <= l /\ l <= Half /\ ViDelay \in Int /\ r.count + e.left \in Int
    BY <1>1, BoundTypes, ModulusTypes
<1>3. (((r.count + e.left) % Modulus) + ViDelay) % Modulus = (r.count + e.left + ViDelay) % Modulus
    BY <1>2, PlusResidue
<1>4. e.count = (r.count + e.left) % Modulus /\ r.count + e.left + ViDelay = r.count + l
    BY <1>1, <1>2 DEF TimedAt
<1>5. c = (r.count + l) % Modulus
    BY <1>3, <1>4
<1>6. ViEvent(r) = Event("VI", c, l)
    BY DEF ViEvent
<1> HIDE DEF c, l
<1>7. /\ ViEvent(r) \in Entries /\ ViEvent(r).type = "VI"
      /\ ViEvent(r).left = l /\ TimedAt(r.count, ViEvent(r))
    BY <1>1, <1>2, <1>5, <1>6, DelayTimed
<1> QED BY <1>1, <1>7 DEF l

LEMMA GenWhole ==
    ASSUME NEW r, Whole(r), r.cycle >= 0, NEW s \in gen_interrupt(r)
    PROVE  Whole(s) /\ s.disciplined = r.disciplined /\ s.count = r.count
<1> DEFINE a == remove_interrupt_event(r)  t == First(r).type
<1>1. /\ Sound(a) /\ a \in Machines /\ a.count = r.count /\ Aside(a) = Aside(r)
      /\ Len(a.q) < Capacity
      /\ \A u : u # t => (Has(a.q, u) <=> Has(r.q, u))
      /\ t \in Single => ~Has(a.q, t)
      /\ t # "SPECIAL" => Current(a)
  <2>1. t \in Single => AtMostOne(r.q, t)
      BY SoundFields DEF Whole
  <2> QED BY <2>1, FirstTaken, SoundFields
<1>2. t \in Types /\ Has(r.q, "SPECIAL") /\ Has(r.q, "COMPARE")
    BY FirstDue DEF Whole
<1>3. a.disciplined = r.disciplined /\ a.compare = r.compare
    BY <1>1 DEF Aside
<1> HIDE DEF a
<1>4. CASE t = "VI"
  <2> DEFINE b == Add(a, ViEvent(r))
  <2>1. s \in RaiseRcp(b)
      BY <1>4 DEF gen_interrupt, TakeVi, ViEvent, a
  <2>2. /\ ViEvent(r) \in Entries /\ ViEvent(r).type = "VI"
        /\ TimedAt(a.count, ViEvent(r)) /\ ~Has(a.q, "VI")
      BY <1>1, <1>4, ViTimed DEF Single
  <2>3. /\ Sound(b) /\ Current(b) /\ b.count = a.count /\ Aside(b) = Aside(a)
        /\ \A u : Has(b.q, u) <=> Has(a.q, u) \/ u = "VI"
      BY <1>1, <2>2, AddSound
  <2> HIDE DEF b
  <2>4. Whole(b) /\ b \in Machines
      BY <1>1, <1>2, <1>4, <2>3, SoundFields DEF Whole
  <2>5. b.disciplined = r.disciplined
      BY <1>3, <2>3 DEF Aside
  <2>6. s \in Machines /\ SameClock(b, s) /\ s.disciplined = b.disciplined
      BY <2>1, <2>4, RaiseRcpTypes
  <2> QED BY <1>1, <2>3, <2>4, <2>5, <2>6, SameClockWhole DEF SameClock
<1>5. CASE t = "COMPARE"
  <2> DEFINE b == AddCompare(a, r.compare)
  <2>1. s = Raise(b, "timer")
      BY <1>5 DEF gen_interrupt, TakeCompare, a
  <2>2. r.compare \in Counts /\ ~Has(a.q, "COMPARE") /\ "timer" \in Lines
      BY <1>1, <1>5, SoundFields, MachineFields DEF Single, Whole, Lines
  <2>3. /\ Sound(b) /\ Current(b) /\ b.count = a.count /\ Aside(b) = Aside(a)
        /\ \A u : Has(b.q, u) <=> Has(a.q, u) \/ u = "COMPARE"
      BY <1>1, <2>2, AddCompareSound
  <2> HIDE DEF b
  <2>4. Whole(b) /\ b \in Machines
      BY <1>1, <1>2, <1>5, <2>3, SoundFields DEF Whole
  <2>5. b.disciplined = r.disciplined
      BY <1>3, <2>3 DEF Aside
  <2>6. s \in Machines /\ SameClock(b, s) /\ s.disciplined = b.disciplined
      BY <2>1, <2>2, <2>4, RaiseTypes
  <2> QED BY <1>1, <2>3, <2>4, <2>5, <2>6, SameClockWhole DEF SameClock
<1>6. CASE t = "CHECK"
  <2>1. s = [a EXCEPT !.exl = TRUE]
      BY <1>6 DEF gen_interrupt, TakeCheck, a
  <2>2. Whole(a)
      BY <1>1, <1>2, <1>6 DEF Whole
  <2>3. s \in Machines /\ SameClock(a, s) /\ s.disciplined = a.disciplined
      BY <1>1, <2>1 DEF Machines, SameClock
  <2> QED BY <1>1, <1>3, <2>2, <2>3, SameClockWhole DEF SameClock
<1>7. CASE t = "SPECIAL"
  <2> DEFINE b == AddSpecial(a)
  <2>1. s = b
      BY <1>7 DEF gen_interrupt, TakeSpecial, a
  <2>2. ~Has(a.q, "SPECIAL")
      BY <1>1, <1>7 DEF Single
  <2>3. /\ Sound(b) /\ Current(b) /\ b.count = a.count /\ Aside(b) = Aside(a)
        /\ \A u : Has(b.q, u) <=> Has(a.q, u) \/ u = "SPECIAL"
      BY <1>1, <2>2, AddSpecialSound
  <2> HIDE DEF b
  <2>4. Whole(b)
      BY <1>1, <1>2, <1>7, <2>3 DEF Whole
  <2>5. b.disciplined = r.disciplined
      BY <1>3, <2>3 DEF Aside
  <2> QED BY <1>1, <2>1, <2>3, <2>4, <2>5
<1>8. CASE t = "PI"
  <2> DEFINE b == [a EXCEPT !.busy = FALSE]
  <2>1. s \in RaiseRcp(b)
      BY <1>8 DEF gen_interrupt, TakePi, a
  <2>2. Whole(a)
      BY <1>1, <1>2, <1>8 DEF Whole
  <2>3. b \in Machines /\ SameClock(a, b) /\ b.disciplined = a.disciplined
      BY <1>1 DEF Machines, SameClock
  <2> HIDE DEF b
  <2>4. s \in Machines /\ SameClock(b, s) /\ s.disciplined = b.disciplined
      BY <2>1, <2>3, RaiseRcpTypes
  <2> QED BY <1>1, <1>3, <2>2, <2>3, <2>4, SameClockWhole DEF SameClock
<1> QED BY <1>2, <1>4, <1>5, <1>6, <1>7, <1>8 DEF Types

-----------------------------------------------------------------------------
(***************************************************************************)
(* Loading a queue adds its entries one by one: what the empty queue has,  *)
(* and every addition keeps, the loaded machine has.  F[k] stands for the  *)
(* machines with the first k entries.                                      *)
(***************************************************************************)
LEMMA LoadedBy ==
    ASSUME NEW r \in Machines, NEW F, [r EXCEPT !.q = << >>] \in F[0],
           \A k \in 1 .. Len(r.q) : \A x \in F[k - 1] : Add(x, r.q[k]) \in F[k]
    PROVE  Loaded(r) \in F[Len(r.q)]
<1> DEFINE start == [r EXCEPT !.q = << >>]
           N == Len(r.q)
           Table(g, k) == [n \in 0 .. k |-> IF n = 0 THEN start ELSE Add(g[n - 1], r.q[n])]
           load == CHOOSE g : g = Table(g, N)
           S == {k \in Nat : \E g : g = Table(g, k)}
           L == {k \in Nat : k <= N => load[k] \in F[k]}
<1>1. N \in Nat
    BY MachineFields
<1>2. Loaded(r) = load[N]
    BY DEF Loaded
<1> HIDE DEF start
<1>3. 0 \in S
  <2>1. \E g : g = Table(g, 0)
    <3> DEFINE g == [n \in 0 .. 0 |-> start]
    <3>1. g = Table(g, 0)
        OBVIOUS
    <3> QED BY <3>1
  <2> QED BY <2>1
<1>4. ASSUME NEW k \in Nat, k \in S PROVE k + 1 \in S
  <2>1. PICK g : g = Table(g, k)
      BY <1>4
  <2> DEFINE h == [n \in 0 .. k + 1 |-> IF n = k + 1 THEN Add(g[k], r.q[k + 1]) ELSE g[n]]
  <2>2. \A n \in 0 .. k + 1 :
           h[n] = IF n = 0 THEN start ELSE Add(h[n - 1], r.q[n])
    <3> SUFFICES ASSUME NEW n \in 0 .. k + 1
                 PROVE  h[n] = IF n = 0 THEN start ELSE Add(h[n - 1], r.q[n])
        OBVIOUS
    <3>1. CASE n = k + 1
        BY <3>1
    <3>2. CASE n # k + 1
      <4>1. n \in 0 .. k /\ h[n] = g[n]
          BY <3>2
      <4>2. g[n] = IF n = 0 THEN start ELSE Add(g[n - 1], r.q[n])
        <5>1. g[n] = Table(g, k)[n]
            BY <2>1
        <5> QED BY <4>1, <5>1
      <4>3. n # 0 => h[n - 1] = g[n - 1]
          BY <4>1
      <4> QED BY <4>1, <4>2, <4>3
    <3> QED BY <3>1, <3>2
  <2> HIDE DEF h
  <2>3. h = [n \in 0 .. k + 1 |-> h[n]]
      BY DEF h
  <2>4. h = Table(h, k + 1)
      BY <2>2, <2>3
  <2> QED BY <2>4
<1>5. N \in S
  <2> HIDE DEF S
  <2> QED BY <1>1, <1>3, <1>4, NatSet
<1>6. load = Table(load, N)
  <2>1. \E g : g = Table(g, N)
      BY <1>5
  <2> QED BY <2>1
<1> HIDE DEF load
<1>7. \A n \in 0 .. N : load[n] = IF n = 0 THEN start ELSE Add(load[n - 1], r.q[n])
  <2> SUFFICES ASSUME NEW n \in 0 .. N
               PROVE  load[n] = IF n = 0 THEN start ELSE Add(load[n - 1], r.q[n])
      OBVIOUS
  <2>1. load[n] = Table(load, N)[n]
      BY <1>6
  <2> QED BY <2>1
<1>8. 0 \in L
    BY <1>1, <1>7 DEF start
<1>9. ASSUME NEW k \in Nat, k \in L PROVE k + 1 \in L
  <2> SUFFICES ASSUME k + 1 <= N PROVE load[k + 1] \in F[k + 1]
      OBVIOUS
  <2>1. load[k] \in F[k] /\ k + 1 \in 1 .. N /\ (k + 1) - 1 = k
      BY <1>1, <1>9
  <2>2. load[k + 1] = Add(load[k], r.q[k + 1])
      BY <1>7, <2>1
  <2> QED BY <2>1, <2>2
<1>10. N \in L
  <2> HIDE DEF L
  <2> QED BY <1>1, <1>8, <1>9, NatSet
<1> QED BY <1>1, <1>2, <1>10

(* A machine with the first k entries of r's queue *)
LoadedPart(r, k, x) ==
    /\ x \in Machines /\ Sound(x) /\ x.count = r.count /\ Aside(x) = Aside(r)
    /\ Len(x.q) = k /\ (k # 0 => Current(x))
    /\ \A t : Has(x.q, t) <=> \E i \in 1 .. k : r.q[i].type = t
    /\ \A t : AtMostOne(r.q, t) => AtMostOne(x.q, t)

LEMMA LoadStarts ==
    ASSUME NEW r, Whole(r)
    PROVE  LET x == [r EXCEPT !.q = << >>]
           IN LoadedPart(r, 0, x) /\ x.q = << >> /\ x.cycle = r.cycle
<1> DEFINE start == [r EXCEPT !.q = << >>]
<1>1. /\ r \in Machines /\ Capacity \in Nat /\ Capacity >= 5
    BY SoundFields, BoundTypes DEF Whole
<1>2. << >> \in Queues /\ Len(<< >>) = 0
    BY DEF Queues
<1>3. /\ start \in Machines /\ start.q = << >> /\ start.count = r.count
      /\ start.cycle = r.cycle /\ Aside(start) = Aside(r)
    BY <1>1, <1>2 DEF Machines, Aside
<1> HIDE DEF start
<1>4. Sound(start)
    BY <1>1, <1>2, <1>3 DEF Sound, Timed, AtMostOne
<1>5. /\ \A t : ~Has(start.q, t)
      /\ \A t : AtMostOne(start.q, t)
    BY <1>2, <1>3 DEF Has, AtMostOne
<1>6. \A t : ~ \E i \in 1 .. 0 : r.q[i].type = t
    OBVIOUS
<1> QED BY <1>2, <1>3, <1>4, <1>5, <1>6 DEF LoadedPart, start

LEMMA LoadGoesOn ==
    ASSUME NEW r, Whole(r), NEW k \in 1 .. Len(r.q), NEW x, LoadedPart(r, k - 1, x)
    PROVE  LET s == Add(x, r.q[k])
           IN /\ LoadedPart(r, k, s) /\ r.q[k] \in Entries /\ TimedAt(x.count, r.q[k])
              /\ Len(x.q) < Capacity /\ \E p : Inserted(x.q, p, r.q[k], s.q)
<1> DEFINE q == r.q  e == q[k]  s == Add(x, e)
<1>1. /\ q \in Queues /\ Len(q) \in Nat /\ Len(q) <= Capacity /\ Capacity \in Nat
      /\ \A i \in 1 .. Len(q) : TimedAt(r.count, q[i])
      /\ \A t \in Single : AtMostOne(q, t)
    BY SoundFields DEF Whole
<1>2. /\ x \in Machines /\ Sound(x) /\ x.count = r.count /\ Aside(x) = Aside(r)
      /\ Len(x.q) = k - 1
      /\ \A t : Has(x.q, t) <=> \E i \in 1 .. k - 1 : q[i].type = t
      /\ \A t : AtMostOne(q, t) => AtMostOne(x.q, t)
    BY DEF LoadedPart
<1>3. e \in Entries /\ TimedAt(x.count, e) /\ Len(x.q) < Capacity
    BY <1>1, <1>2, EntryFields
<1>4. \A t : t = e.type /\ AtMostOne(q, t) => ~Has(x.q, t)
    BY <1>1, <1>2 DEF AtMostOne
<1>5. e.type \in Single => ~Has(x.q, e.type)
    BY <1>1, <1>4
<1> HIDE DEF e
<1>6. /\ Sound(s) /\ Current(s) /\ s.count = x.count /\ Aside(s) = Aside(x)
      /\ Len(s.q) = Len(x.q) + 1 /\ \E p : Inserted(x.q, p, e, s.q)
      /\ \A t : Has(s.q, t) <=> Has(x.q, t) \/ t = e.type
    BY <1>2, <1>3, <1>5, AddSound
<1> HIDE DEF s
<1>7. s \in Machines /\ s.q \in Queues /\ x.q \in Queues
    BY <1>2, <1>6, SoundFields
<1>8. \A t : AtMostOne(q, t) => AtMostOne(s.q, t)
    BY <1>2, <1>3, <1>4, <1>6, <1>7, InsertedTypes
<1>9. ASSUME NEW t PROVE Has(s.q, t) <=> \E i \in 1 .. k : q[i].type = t
  <2>1. (\E i \in 1 .. k : q[i].type = t) <=> (\E i \in 1 .. k - 1 : q[i].type = t) \/ t = e.type
      BY <1>1 DEF e
  <2> QED BY <1>2, <1>6, <2>1
<1>10. Len(s.q) = k
    BY <1>1, <1>2, <1>6
<1>11. LoadedPart(r, k, s)
    BY <1>2, <1>6, <1>7, <1>8, <1>9, <1>10 DEF LoadedPart
<1> QED BY <1>3, <1>6, <1>11 DEF s, e

LEMMA LoadedSound ==
    ASSUME NEW r, Whole(r)
    PROVE  LET x == Loaded(r)
           IN /\ Sound(x) /\ Current(x) /\ x.count = r.count /\ Aside(x) = Aside(r)
              /\ Len(x.q) = Len(r.q)
              /\ \A t : Has(x.q, t) <=> Has(r.q, t)
              /\ \A t : AtMostOne(r.q, t) => AtMostOne(x.q, t)
<1> DEFINE N == Len(r.q)
           F == [k \in 0 .. N |-> {x \in Machines : LoadedPart(r, k, x)}]
<1>1. r \in Machines /\ N \in Nat /\ N # 0
    BY SoundFields DEF Whole, Current, Queues
<1>2. [r EXCEPT !.q = << >>] \in F[0]
  <2> DEFINE start == [r EXCEPT !.q = << >>]
  <2>1. LoadedPart(r, 0, start)
      BY LoadStarts
  <2> HIDE DEF start
  <2>2. start \in Machines
      BY <2>1 DEF LoadedPart
  <2>3. start \in F[0]
      BY <1>1, <2>1, <2>2
  <2> QED BY <2>3 DEF start
<1>3. ASSUME NEW k \in 1 .. N, NEW x \in F[k - 1] PROVE Add(x, r.q[k]) \in F[k]
  <2> DEFINE s == Add(x, r.q[k])
  <2>1. k - 1 \in 0 .. N /\ k \in 0 .. N
      BY <1>1
  <2>2. LoadedPart(r, k - 1, x)
      BY <1>3, <2>1
  <2>3. LoadedPart(r, k, s)
      BY <2>2, LoadGoesOn
  <2> HIDE DEF s
  <2>4. s \in Machines
      BY <2>3 DEF LoadedPart
  <2>5. s \in F[k]
      BY <2>1, <2>3, <2>4
  <2> QED BY <2>5 DEF s
<1>4. Loaded(r) \in F[N]
  <2> HIDE DEF F
  <2> QED BY <1>1, <1>2, <1>3, LoadedBy
<1>5. LoadedPart(r, N, Loaded(r))
    BY <1>1, <1>4
<1>6. \A t : Has(r.q, t) <=> \E i \in 1 .. N : r.q[i].type = t
    BY DEF Has
<1> QED BY <1>1, <1>5, <1>6 DEF LoadedPart

LEMMA ReloadedWhole ==
    ASSUME NEW r, Whole(r)
    PROVE  LET s == Reloaded(r)
           IN /\ Whole(s) /\ s.count = r.count /\ Aside(s) = Aside(r)
              /\ \A t : Has(s.q, t) <=> Has(r.q, t)
<1> DEFINE x == Loaded(r)  y == remove_event(x, "SPECIAL")  s == AddSpecial(y)
<1>1. /\ Sound(x) /\ x.count = r.count /\ Aside(x) = Aside(r) /\ Len(x.q) = Len(r.q)
      /\ \A t : Has(x.q, t) <=> Has(r.q, t)
    BY LoadedSound
<1>2. /\ Len(r.q) \in Nat /\ Len(r.q) <= Capacity /\ Capacity \in Nat
      /\ Has(r.q, "SPECIAL") /\ Has(r.q, "COMPARE")
    BY SoundFields DEF Whole
<1> HIDE DEF x
<1>3. /\ Sound(y) /\ y.count = x.count /\ Aside(y) = Aside(x) /\ Len(y.q) = Len(x.q) - 1
      /\ \A t : t # "SPECIAL" => (Has(y.q, t) <=> Has(x.q, t))
      /\ ~Has(y.q, "SPECIAL")
    BY <1>1, <1>2, RemoveTypeSound DEF Single
<1> HIDE DEF y
<1>4. /\ Sound(s) /\ Current(s) /\ s.count = y.count /\ Aside(s) = Aside(y)
      /\ \A t : Has(s.q, t) <=> Has(y.q, t) \/ t = "SPECIAL"
  <2>1. Len(y.q) < Capacity
      BY <1>1, <1>2, <1>3
  <2> QED BY <1>3, <2>1, AddSpecialSound
<1> HIDE DEF s
<1>5. s = Reloaded(r)
    BY DEF Reloaded, s, y, x
<1> QED BY <1>1, <1>2, <1>3, <1>4, <1>5 DEF Whole

-----------------------------------------------------------------------------
(***************************************************************************)
(* A write to Count: every event keeps its distance from it.               *)
(***************************************************************************)
Moved(r, c) ==
    [r EXCEPT !.count = c,
              !.q = [i \in 1 .. Len(r.q) |->
                       [r.q[i] EXCEPT !.count = (@ - r.count + c) % Modulus]]]

LEMMA MovedSound ==
    ASSUME NEW r, Sound(r), NEW c \in Counts
    PROVE  LET s == Moved(r, c)
           IN /\ Sound(s) /\ s.count = c /\ s.cycle = r.cycle /\ Aside(s) = Aside(r)
              /\ Len(s.q) = Len(r.q)
              /\ \A i \in 1 .. Len(r.q) : /\ s.q[i].type = r.q[i].type
                                          /\ s.q[i].left = r.q[i].left
              /\ \A t : Has(s.q, t) <=> Has(r.q, t)
<1> DEFINE q2 == [i \in 1 .. Len(r.q) |->
                    [r.q[i] EXCEPT !.count = (@ - r.count + c) % Modulus]]
           s == [r EXCEPT !.count = c, !.q = q2]
<1>1. r \in Machines /\ r.q \in Queues /\ Len(r.q) \in Nat /\ r.count \in Int /\ c \in Int
    BY SoundFields, MachineFields DEF Counts
<1>2. Moved(r, c) = s
    BY DEF Moved
<1>3. \A i \in 1 .. Len(r.q) :
         /\ q2[i] \in Entries /\ q2[i].type = r.q[i].type /\ q2[i].left = r.q[i].left
         /\ q2[i].count = (r.q[i].count - r.count + c) % Modulus
  <2> SUFFICES ASSUME NEW i \in 1 .. Len(r.q)
               PROVE  /\ q2[i] \in Entries /\ q2[i].type = r.q[i].type
                      /\ q2[i].left = r.q[i].left
                      /\ q2[i].count = (r.q[i].count - r.count + c) % Modulus
      OBVIOUS
  <2>1. /\ r.q[i] \in Entries /\ r.q[i].count \in Int
        /\ r.q[i].count - r.count + c \in Int
      BY <1>1, EntryFields
  <2> DEFINE n == (r.q[i].count - r.count + c) % Modulus
  <2>2. n \in Counts
      BY <1>1, <2>1, DivMod
  <2>3. q2[i] = [r.q[i] EXCEPT !.count = n]
      BY <2>1 DEF Entries
  <2> HIDE DEF n
  <2>4. /\ q2[i] \in Entries /\ q2[i].type = r.q[i].type /\ q2[i].left = r.q[i].left
        /\ q2[i].count = n
      BY <2>1, <2>2, <2>3 DEF Entries
  <2> QED BY <2>4 DEF n
<1>4. q2 \in Queues /\ Len(q2) = Len(r.q)
  <2> HIDE DEF q2
  <2>1. DOMAIN q2 = 1 .. Len(r.q) /\ q2 = [i \in 1 .. Len(r.q) |-> q2[i]]
      BY DEF q2
  <2>2. q2 \in [1 .. Len(r.q) -> Entries]
      BY <1>3, <2>1
  <2>3. q2 \in Seq(Entries)
      BY <1>1, <2>2, SeqDef
  <2>4. DOMAIN q2 = 1 .. Len(q2) /\ Len(q2) \in Nat
      BY <2>3, LenProperties
  <2> QED BY <1>1, <2>1, <2>3, <2>4 DEF Queues
<1> HIDE DEF q2
<1>5. /\ s \in Machines /\ s.q = q2 /\ s.count = c /\ s.cycle = r.cycle /\ Aside(s) = Aside(r)
    BY <1>1, <1>4 DEF Machines, Aside
<1> HIDE DEF s
<1>6. Timed(c, q2)
  <2> SUFFICES ASSUME NEW i \in 1 .. Len(q2) PROVE TimedAt(c, q2[i])
      BY DEF Timed
  <2> DEFINE l == r.q[i].left
  <2>1. TimedAt(r.count, r.q[i]) /\ l \in Int
      BY <1>1, <1>4, SoundFields, EntryFields
  <2>2. /\ q2[i].type = r.q[i].type /\ q2[i].left = l
        /\ q2[i].count = (r.q[i].count - r.count + c) % Modulus
      BY <1>3, <1>4
  <2>3. InReach(q2[i])
      BY <2>1, <2>2 DEF TimedAt, InReach
  <2>4. q2[i].count = (c + l) % Modulus
    <3>1. r.count + l \in Int /\ c - r.count \in Int /\ r.q[i].count = (r.count + l) % Modulus
        BY <1>1, <2>1 DEF TimedAt
    <3>2. (((r.count + l) % Modulus) + (c - r.count)) % Modulus
            = (r.count + l + (c - r.count)) % Modulus
        BY <3>1, PlusResidue
    <3>3. r.count + l + (c - r.count) = c + l
        BY <1>1, <2>1
    <3>4. r.q[i].count \in Int
        BY <1>1, <1>4, EntryFields
    <3>5. r.q[i].count + (c - r.count) = r.q[i].count - r.count + c
        BY <1>1, <3>4
    <3> QED BY <2>2, <3>1, <3>2, <3>3, <3>5
  <2> QED BY <2>2, <2>3, <2>4 DEF TimedAt
<1>7. \A t : Has(q2, t) <=> Has(r.q, t)
    BY <1>3, <1>4 DEF Has
<1>8. \A t : AtMostOne(r.q, t) => AtMostOne(q2, t)
    BY <1>3, <1>4 DEF AtMostOne
<1>9. Sound(s)
    BY <1>4, <1>5, <1>6, <1>8, SoundFields DEF Sound
<1> QED BY <1>2, <1>3, <1>4, <1>5, <1>7, <1>9

(* translate_event_queue in its steps *)
Kept(r) == remove_event(remove_event(r, "COMPARE"), "SPECIAL")

LEMMA KeptSound ==
    ASSUME NEW r, Whole(r)
    PROVE  LET s == Kept(r)
           IN /\ Sound(s) /\ s.count = r.count /\ s.cycle = r.cycle /\ Aside(s) = Aside(r)
              /\ Len(s.q) = Len(r.q) - 2 /\ Len(s.q) + 2 <= Capacity
              /\ ~Has(s.q, "COMPARE") /\ ~Has(s.q, "SPECIAL")
              /\ \A t : t \notin {"COMPARE", "SPECIAL"} => (Has(s.q, t) <=> Has(r.q, t))
<1> DEFINE a == remove_event(r, "COMPARE")  s == remove_event(a, "SPECIAL")
<1>1. /\ Sound(r) /\ Len(r.q) \in Nat /\ Len(r.q) <= Capacity /\ Capacity \in Nat
      /\ Has(r.q, "SPECIAL") /\ Has(r.q, "COMPARE")
    BY SoundFields DEF Whole
<1>2. /\ Sound(a) /\ a.count = r.count /\ a.cycle = r.cycle /\ Aside(a) = Aside(r)
      /\ Len(a.q) = Len(r.q) - 1 /\ ~Has(a.q, "COMPARE")
      /\ \A t : t # "COMPARE" => (Has(a.q, t) <=> Has(r.q, t))
    BY <1>1, RemoveTypeSound DEF Single
<1> HIDE DEF a
<1>3. Has(a.q, "SPECIAL")
    BY <1>1, <1>2
<1>4. /\ Sound(s) /\ s.count = a.count /\ s.cycle = a.cycle /\ Aside(s) = Aside(a)
      /\ Len(s.q) = Len(a.q) - 1 /\ ~Has(s.q, "SPECIAL")
      /\ \A t : t # "SPECIAL" => (Has(s.q, t) <=> Has(a.q, t))
    BY <1>2, <1>3, RemoveTypeSound DEF Single
<1> HIDE DEF s
<1>5. s = Kept(r)
    BY DEF Kept, s, a
<1>6. Len(s.q) = Len(r.q) - 2 /\ Len(s.q) + 2 <= Capacity
    BY <1>1, <1>2, <1>4
<1> QED BY <1>2, <1>4, <1>5, <1>6

LEMMA TranslatedIs ==
    ASSUME NEW r, Whole(r), NEW c
    PROVE  Translated(r, c) = AddCompare(AddSpecial(Moved(Kept(r), c)), r.compare)
<1> DEFINE k == Kept(r)
<1>1. k.count = r.count
    BY KeptSound
<1>2. Translated(r, c) =
        AddCompare(AddSpecial([k EXCEPT !.count = c,
                    !.q = [i \in 1 .. Len(k.q) |->
                             [k.q[i] EXCEPT !.count = (@ - r.count + c) % Modulus]]]),
                   r.compare)
    BY DEF Translated, Kept
<1> HIDE DEF k
<1>3. Moved(k, c) = [k EXCEPT !.count = c,
                    !.q = [i \in 1 .. Len(k.q) |->
                             [k.q[i] EXCEPT !.count = (@ - r.count + c) % Modulus]]]
    BY <1>1 DEF Moved
<1> QED BY <1>2, <1>3 DEF k

LEMMA TranslatedWhole ==
    ASSUME NEW r, Whole(r), NEW c \in Counts
    PROVE  LET s == Translated(r, c)
           IN /\ Whole(s) /\ s.count = c /\ Aside(s) = Aside(r)
              /\ \A t : Has(s.q, t) <=> Has(r.q, t)
<1> DEFINE k == Kept(r)  a == Moved(k, c)  b == AddSpecial(a)  s == AddCompare(b, r.compare)
<1>1. /\ Sound(k) /\ k.count = r.count /\ Aside(k) = Aside(r) /\ Len(k.q) + 2 <= Capacity
      /\ ~Has(k.q, "COMPARE") /\ ~Has(k.q, "SPECIAL")
      /\ \A t : t \notin {"COMPARE", "SPECIAL"} => (Has(k.q, t) <=> Has(r.q, t))
    BY KeptSound
<1> HIDE DEF k
<1>2. Len(k.q) \in Nat /\ Capacity \in Nat /\ r.compare \in Counts
    BY <1>1, SoundFields, MachineFields DEF Whole
<1>3. /\ Sound(a) /\ a.count = c /\ Aside(a) = Aside(k) /\ Len(a.q) = Len(k.q)
      /\ \A t : Has(a.q, t) <=> Has(k.q, t)
    BY <1>1, MovedSound
<1> HIDE DEF a
<1>4. /\ Sound(b) /\ b.count = a.count /\ Aside(b) = Aside(a) /\ Len(b.q) = Len(a.q) + 1
      /\ \A t : Has(b.q, t) <=> Has(a.q, t) \/ t = "SPECIAL"
  <2>1. Len(a.q) < Capacity
      BY <1>1, <1>2, <1>3
  <2> QED BY <1>1, <1>3, <2>1, AddSpecialSound
<1> HIDE DEF b
<1>5. /\ Sound(s) /\ Current(s) /\ s.count = b.count /\ Aside(s) = Aside(b)
      /\ \A t : Has(s.q, t) <=> Has(b.q, t) \/ t = "COMPARE"
  <2>1. Len(b.q) < Capacity
      BY <1>1, <1>2, <1>3, <1>4
  <2> QED BY <1>1, <1>2, <1>3, <1>4, <2>1, AddCompareSound
<1> HIDE DEF s
<1>6. s = Translated(r, c)
    BY TranslatedIs DEF s, b, a, k
<1>7. ASSUME NEW t PROVE Has(s.q, t) <=> Has(r.q, t)
    BY <1>1, <1>3, <1>4, <1>5 DEF Whole
<1>8. Whole(s)
    BY <1>5, <1>7 DEF Whole
<1> QED BY <1>1, <1>3, <1>4, <1>5, <1>6, <1>7, <1>8

-----------------------------------------------------------------------------
(***************************************************************************)
(* Every program: the machine is whole in every state.                     *)
(***************************************************************************)
WholeInv == Whole(m) /\ m.disciplined \in Disciplines /\ block \in 0 .. MaxBlock

LEMMA WholeInitially == Init => WholeInv
<1> SUFFICES ASSUME Init PROVE WholeInv
    OBVIOUS
<1>1. PICK d \in Disciplines : block = 0 /\ m = PowerOn(d)
    BY DEF Init
<1> DEFINE r == [count |-> FirstCount, compare |-> 0, cycle |-> 0, q |-> << >>,
                 enabled |-> {}, exl |-> FALSE, ip |-> {},
                 line |-> FALSE, busy |-> FALSE, disciplined |-> d]
           e == Event("COMPARE", 0, Match(r, 0))
           a == AddSpecial(r)  s == Add(a, e)
<1>2. m = s
    BY <1>1 DEF PowerOn
<1>3. << >> \in Queues /\ Len(<< >>) = 0
    BY DEF Queues
<1>4. /\ FirstCount \in Counts /\ 0 \in Counts /\ 0 \in -Half .. Half - 1 /\ d \in BOOLEAN
      /\ {} \in SUBSET Lines
    BY InterruptsAssumption, ModulusTypes DEF Counts
<1>5. r \in Machines /\ r.q = << >> /\ r.disciplined = d
    BY <1>3, <1>4 DEF Machines
<1>6. e \in Entries /\ e.type = "COMPARE" /\ TimedAt(r.count, e)
    BY <1>4, <1>5, CompareTimed DEF CompareEvent
<1> HIDE DEF r, e
<1>7. Sound(r) /\ (\A t : ~Has(r.q, t)) /\ Len(r.q) < Capacity
    BY <1>3, <1>5, BoundTypes DEF Sound, Timed, AtMostOne, Has
<1>8. /\ Sound(a) /\ a.count = r.count /\ Aside(a) = Aside(r) /\ Len(a.q) = Len(r.q) + 1
      /\ \A t : Has(a.q, t) <=> t = "SPECIAL"
    BY <1>7, AddSpecialSound
<1> HIDE DEF a
<1>9. Len(a.q) < Capacity
    BY <1>3, <1>5, <1>8, BoundTypes
<1>10. /\ Sound(s) /\ Current(s) /\ Aside(s) = Aside(a)
       /\ \A t : Has(s.q, t) <=> Has(a.q, t) \/ t = "COMPARE"
    BY <1>6, <1>8, <1>9, AddSound
<1> HIDE DEF s
<1>11. s.disciplined = d
    BY <1>5, <1>8, <1>10 DEF Aside
<1>12. Whole(s)
    BY <1>8, <1>10 DEF Whole
<1> QED BY <1>1, <1>2, <1>11, <1>12, BoundTypes DEF WholeInv

LEMMA GenIfDueWhole ==
    ASSUME NEW r, Whole(r), NEW s \in GenIfDue(r)
    PROVE  Whole(s) /\ s.disciplined = r.disciplined
BY GenWhole DEF GenIfDue

(* Where a state is loaded after an event, the outcome of the event is     *)
(* reloaded.                                                               *)
LEMMA ReloadWays ==
    ASSUME NEW r, NEW s \in GenOrReload(r)
    PROVE  s \in GenIfDue(r) \/ \E x \in GenIfDue(r) : s = Reloaded(x)
BY DEF GenOrReload, GenIfDue

LEMMA GenOrReloadWhole ==
    ASSUME NEW r, Whole(r), NEW s \in GenOrReload(r)
    PROVE  Whole(s) /\ s.disciplined = r.disciplined
<1>1. CASE s \in GenIfDue(r)
    BY <1>1, GenIfDueWhole
<1>2. ASSUME NEW x \in GenIfDue(r), s = Reloaded(x)
      PROVE  Whole(s) /\ s.disciplined = r.disciplined
  <2>1. Whole(x) /\ x.disciplined = r.disciplined
      BY GenIfDueWhole
  <2>2. Whole(s) /\ Aside(s) = Aside(x)
      BY <1>2, <2>1, ReloadedWhole
  <2> QED BY <2>1, <2>2 DEF Aside
<1> QED BY <1>1, <1>2, ReloadWays

LEMMA LapseTypes ==
    ASSUME NEW n \in Lapses
    PROVE  n \in Nat /\ n > 0 /\ n >= CountPerOp /\ n <= MaxBlock
BY BoundTypes DEF Lapses

LEMMA EarlyLapseTypes ==
    ASSUME NEW n \in EarlyLapses
    PROVE  n \in Nat /\ n <= MaxBlock
BY BoundTypes, LapseTypes DEF EarlyLapses

LEMMA LaterWhole ==
    ASSUME WholeInv, NEW n \in Nat, Passes(n)
    PROVE  /\ Whole(Later(n)) /\ Later(n).disciplined = m.disciplined
           /\ block + n \in 0 .. MaxBlock
           /\ \A t : Has(Later(n).q, t) <=> Has(m.q, t)
<1>1. Sound(m) /\ Current(m) /\ m.q \in Queues /\ block \in Nat /\ block + n <= MaxBlock
    BY SoundFields DEF WholeInv, Whole, Passes
<1>2. \A i \in 1 .. Len(m.q) : m.q[i].left - n >= 1 - Half
  <2> SUFFICES ASSUME NEW i \in 1 .. Len(m.q) PROVE m.q[i].left - n >= 1 - Half
      OBVIOUS
  <2>1. n - m.q[i].left <= MaxLate
      BY DEF Passes
  <2>2. m.q[i].left \in Int
      BY <1>1, EntryFields
  <2> QED BY <2>1, <2>2, BoundTypes, ModulusTypes
<1>3. /\ Sound(Later(n)) /\ Current(Later(n)) /\ Aside(Later(n)) = Aside(m)
      /\ \A t : Has(Later(n).q, t) <=> Has(m.q, t)
    BY <1>1, <1>2, LapsedSound DEF Later
<1>4. Later(n).disciplined = m.disciplined
    BY <1>3 DEF Aside
<1>5. Whole(Later(n))
    BY <1>3 DEF Whole, WholeInv
<1> QED BY <1>1, <1>3, <1>4, <1>5, BoundTypes

LEMMA AddInWhole ==
    ASSUME NEW r, Whole(r), NEW t \in {"VI", "PI"}, NEW delay \in 0 .. Half - 1,
           t = "VI" => ~Has(r.q, "VI")
    PROVE  LET s == AddIn(r, t, delay)
           IN Whole(s) /\ s.disciplined = r.disciplined
<1> DEFINE c == (r.count + delay) % Modulus  e == Event(t, c, delay)  s == Add(r, e)
<1>1. /\ r \in Machines /\ Sound(r) /\ Len(r.q) \in Nat /\ Capacity \in Nat
      /\ delay \in Int /\ 1 - Half <= delay /\ delay <= Half
    BY SoundFields, ModulusTypes DEF Whole
<1>2. e \in Entries /\ e.type = t /\ TimedAt(r.count, e)
  <2> HIDE DEF e
  <2> QED BY <1>1, DelayTimed DEF e
<1>3. AddIn(r, t, delay) = s
    BY DEF AddIn
<1> HIDE DEF e
<1>4. CASE Len(r.q) >= Capacity
    BY <1>3, <1>4, AddFull
<1>5. CASE Len(r.q) < Capacity
  <2>1. e.type \in Single => ~Has(r.q, e.type)
      BY <1>2 DEF Single
  <2>2. /\ Sound(s) /\ Current(s) /\ Aside(s) = Aside(r)
        /\ \A u : Has(s.q, u) <=> Has(r.q, u) \/ u = e.type
      BY <1>1, <1>2, <1>5, <2>1, AddSound
  <2> HIDE DEF s
  <2>3. Whole(s)
      BY <2>2 DEF Whole
  <2>4. s.disciplined = r.disciplined
      BY <2>2 DEF Aside
  <2> QED BY <1>3, <2>3, <2>4
<1> QED BY <1>1, <1>4, <1>5

(* Registers that are no part of the clock change. *)
LEMMA AsideWhole ==
    ASSUME NEW r, Whole(r), NEW s \in Machines, SameClock(r, s)
    PROVE  Whole(s)
BY SameClockWhole

LEMMA LineTypes ==
    ASSUME WholeInv, NEW l \in BOOLEAN
    PROVE  LET s == [m EXCEPT !.line = l]
           IN /\ Whole(s) /\ s.disciplined = m.disciplined /\ SameClock(m, s)
              /\ s.busy = m.busy /\ s.exl = m.exl /\ s.enabled = m.enabled /\ s.ip = m.ip
<1> DEFINE s == [m EXCEPT !.line = l]
<1>1. m \in Machines
    BY SoundFields DEF WholeInv, Whole
<1>2. /\ s \in Machines /\ SameClock(m, s) /\ s.disciplined = m.disciplined
      /\ s.busy = m.busy /\ s.exl = m.exl /\ s.enabled = m.enabled /\ s.ip = m.ip
    BY <1>1 DEF Machines, SameClock
<1> HIDE DEF s
<1>3. Whole(s)
    BY <1>2, AsideWhole DEF WholeInv
<1> QED BY <1>2, <1>3 DEF s

LEMMA CheckedWhole ==
    ASSUME WholeInv, NEW l \in BOOLEAN
    PROVE  LET s == Check([m EXCEPT !.line = l])
           IN Whole(s) /\ s.disciplined = m.disciplined
<1> DEFINE r == [m EXCEPT !.line = l]
<1>1. Whole(r) /\ r.disciplined = m.disciplined
    BY LineTypes
<1> HIDE DEF r
<1>2. Whole(Check(r)) /\ Check(r).disciplined = m.disciplined
    BY <1>1, CheckWhole
<1> QED BY <1>2 DEF r

(* WriteMask lets time pass after the check. *)
LEMMA MaskedWhole ==
    ASSUME WholeInv, NEW l \in BOOLEAN, NEW n \in Lapses, Passes(n)
    PROVE  LET s == Lapsed(Check([m EXCEPT !.line = l]), n)
           IN Whole(s) /\ s.disciplined = m.disciplined
<1> DEFINE r == [m EXCEPT !.line = l]  c == Check(r)  s == Lapsed(c, n)
<1>1. Whole(r) /\ SameClock(m, r)
    BY LineTypes
<1>2. Whole(c) /\ c.disciplined = m.disciplined
    BY CheckedWhole
<1> HIDE DEF r
<1>3. \/ SameClock(r, c)
      \/ c.q[1] = Event("CHECK", r.count, 0) /\ Inserted(r.q, 1, c.q[1], c.q)
    BY <1>1, CheckWhole
<1> HIDE DEF c
<1>4. n \in Nat /\ n <= MaxBlock
    BY LapseTypes
<1>5. \A i \in 1 .. Len(m.q) : m.q[i].left \in Int /\ m.q[i].left - n >= 1 - Half
  <2> SUFFICES ASSUME NEW i \in 1 .. Len(m.q)
               PROVE  m.q[i].left \in Int /\ m.q[i].left - n >= 1 - Half
      OBVIOUS
  <2>1. n - m.q[i].left <= MaxLate
      BY DEF Passes
  <2>2. m.q[i].left \in Int
      BY SoundFields, EntryFields DEF WholeInv, Whole
  <2> QED BY <1>4, <2>1, <2>2, BoundTypes, ModulusTypes
<1>6. \A i \in 1 .. Len(c.q) : c.q[i].left - n >= 1 - Half
  <2>1. CASE SameClock(r, c)
      BY <1>1, <1>5, <2>1 DEF SameClock
  <2>2. CASE c.q[1] = Event("CHECK", r.count, 0) /\ Inserted(r.q, 1, c.q[1], c.q)
    <3> SUFFICES ASSUME NEW i \in 1 .. Len(c.q) PROVE c.q[i].left - n >= 1 - Half
        OBVIOUS
    <3>1. c.q[1].left = 0
        BY <2>2 DEF Event
    <3>2. r.q \in Queues /\ c.q \in Queues /\ r.q = m.q
        BY <1>1, <1>2, SoundFields DEF Whole, SameClock
    <3>3. \/ i = 1
          \/ i - 1 \in 1 .. Len(r.q) /\ c.q[i] = r.q[i - 1]
        BY <2>2, <3>2 DEF Inserted, Queues
    <3>4. 0 - n >= 1 - Half
        BY <1>4, BoundTypes, ModulusTypes
    <3> QED BY <1>5, <3>1, <3>2, <3>3, <3>4
  <2> QED BY <1>3, <2>1, <2>2
<1>7. /\ Sound(s) /\ Current(s) /\ Aside(s) = Aside(c)
      /\ \A t : Has(s.q, t) <=> Has(c.q, t)
    BY <1>2, <1>4, <1>6, LapsedSound DEF Whole
<1> HIDE DEF s
<1>8. Whole(s)
    BY <1>2, <1>7 DEF Whole
<1>9. s.disciplined = m.disciplined
    BY <1>2, <1>7 DEF Aside
<1> QED BY <1>8, <1>9 DEF s, c, r

LEMMA AsideTypes ==
    ASSUME NEW r, Whole(r), NEW ips \in SUBSET Lines, NEW b \in BOOLEAN
    PROVE  /\ LET s == [r EXCEPT !.exl = b]
              IN Whole(s) /\ s.disciplined = r.disciplined
           /\ LET s == [r EXCEPT !.ip = ips, !.exl = b]
              IN Whole(s) /\ s.disciplined = r.disciplined
           /\ LET s == [r EXCEPT !.busy = b]
              IN Whole(s) /\ s.disciplined = r.disciplined
<1>1. r \in Machines
    BY SoundFields DEF Whole
<1> DEFINE s1 == [r EXCEPT !.exl = b]
           s2 == [r EXCEPT !.ip = ips, !.exl = b]
           s3 == [r EXCEPT !.busy = b]
<1>2. s1 \in Machines /\ SameClock(r, s1) /\ s1.disciplined = r.disciplined
    BY <1>1 DEF Machines, SameClock
<1>3. s2 \in Machines /\ SameClock(r, s2) /\ s2.disciplined = r.disciplined
    BY <1>1 DEF Machines, SameClock
<1>4. s3 \in Machines /\ SameClock(r, s3) /\ s3.disciplined = r.disciplined
    BY <1>1 DEF Machines, SameClock
<1> HIDE DEF s1, s2, s3
<1>5. Whole(s1) /\ Whole(s2) /\ Whole(s3)
    BY <1>2, <1>3, <1>4, AsideWhole
<1> QED BY <1>2, <1>3, <1>4, <1>5 DEF s1, s2, s3

LEMMA WholeStep ==
    WholeInv /\ [Next]_vars => WholeInv' /\ m'.disciplined = m.disciplined
<1> SUFFICES ASSUME WholeInv, [Next]_vars
             PROVE  WholeInv' /\ m'.disciplined = m.disciplined
    OBVIOUS
<1> USE DEF WholeInv
<1>1. m \in Machines /\ m.ip \in SUBSET Lines /\ m.exl \in BOOLEAN /\ m.line \in BOOLEAN
  <2>1. m \in Machines
      BY SoundFields DEF Whole
  <2> QED BY <2>1 DEF Machines
<1>2. ASSUME NEW n \in Nat, Passes(n)
      PROVE  /\ Whole(Later(n)) /\ Later(n).disciplined = m.disciplined
             /\ block + n \in 0 .. MaxBlock /\ 0 \in 0 .. MaxBlock
             /\ \A t : Has(Later(n).q, t) <=> Has(m.q, t)
    BY <1>2, LaterWhole, BoundTypes
<1>3. ASSUME NEW n, Access(n) PROVE Passes(n) /\ block' = block + n
    BY <1>3 DEF Access
<1>4. CASE PiReset
  <2>1. m' = [m EXCEPT !.busy = FALSE] /\ block' = block
      BY <1>4 DEF PiReset
  <2>2. {} \in SUBSET Lines /\ FALSE \in BOOLEAN
      OBVIOUS
  <2> QED BY <2>1, <2>2, AsideTypes
<1>5. CASE Signal \/ Clear
  <2>1. PICK l \in BOOLEAN : m' = Check([m EXCEPT !.line = l])
      BY <1>1, <1>5 DEF Signal, Clear
  <2>2. block' = block
      BY <1>5, <1>3 DEF Signal, Clear
  <2> QED BY <2>1, <2>2, CheckedWhole
<1>6. CASE Fault
  <2>1. m' = [m EXCEPT !.ip = {}, !.exl = TRUE] /\ block' = block
      BY <1>6 DEF Fault
  <2>2. {} \in SUBSET Lines /\ TRUE \in BOOLEAN
      OBVIOUS
  <2> QED BY <2>1, <2>2, AsideTypes
<1>7. ASSUME NEW n \in Lapses, Jump(n) PROVE WholeInv' /\ m'.disciplined = m.disciplined
  <2>1. Whole(Later(n)) /\ Later(n).disciplined = m.disciplined /\ block' \in 0 .. MaxBlock
      BY <1>2, <1>7, LapseTypes DEF Jump
  <2>2. m' \in GenOrReload(Later(n))
      BY <1>7 DEF Jump
  <2> QED BY <2>1, <2>2, GenOrReloadWhole
<1>8. ASSUME NEW n \in EarlyLapses, ERET(n) PROVE WholeInv' /\ m'.disciplined = m.disciplined
  <2> DEFINE r == [Later(n) EXCEPT !.exl = FALSE]
  <2>1. /\ Whole(Later(n)) /\ Later(n).disciplined = m.disciplined /\ block' \in 0 .. MaxBlock
        /\ m' \in GenOrReload(Check(r))
      BY <1>2, <1>8, EarlyLapseTypes DEF ERET
  <2>2. {} \in SUBSET Lines /\ FALSE \in BOOLEAN
      OBVIOUS
  <2>3. Whole(r) /\ r.disciplined = m.disciplined
      BY <2>1, <2>2, AsideTypes
  <2> HIDE DEF r
  <2>4. Whole(Check(r)) /\ Check(r).disciplined = m.disciplined
      BY <2>3, CheckWhole
  <2> QED BY <2>1, <2>4, GenOrReloadWhole
<1>9. ASSUME NEW n \in Lapses, FaultInSlot(n)
      PROVE  WholeInv' /\ m'.disciplined = m.disciplined
  <2> DEFINE l == Later(n)  r == [l EXCEPT !.ip = {}, !.exl = TRUE, !.cycle = 0]
  <2>1. /\ Whole(l) /\ l.disciplined = m.disciplined /\ block' \in 0 .. MaxBlock
        /\ m' = [r EXCEPT !.cycle = CycleOf(r, r.q)]
      BY <1>2, <1>9, LapseTypes DEF FaultInSlot, SkipJump
  <2> HIDE DEF l
  <2>2. l \in Machines /\ l.q \in Queues /\ l.cycle = CycleOf(l, l.q)
      BY <2>1, SoundFields DEF Whole, Current
  <2>3. r.q = l.q /\ r.count = l.count /\ CycleOf(r, r.q) = CycleOf(l, l.q)
      BY <2>2 DEF Machines, CycleOf
  <2>4. m' = [l EXCEPT !.ip = {}, !.exl = TRUE]
      BY <2>1, <2>2, <2>3 DEF Machines
  <2>5. {} \in SUBSET Lines /\ TRUE \in BOOLEAN
      OBVIOUS
  <2>6. m' \in Machines /\ SameClock(l, m') /\ m'.disciplined = l.disciplined
      BY <2>2, <2>4, <2>5 DEF Machines, SameClock
  <2> HIDE DEF r
  <2> QED BY <2>1, <2>6, AsideWhole
<1>10. ASSUME NEW n \in Lapses, StartVi(n)
       PROVE  WholeInv' /\ m'.disciplined = m.disciplined
  <2>1. /\ Whole(Later(n)) /\ Later(n).disciplined = m.disciplined /\ block' \in 0 .. MaxBlock
        /\ \A t : Has(Later(n).q, t) <=> Has(m.q, t)
      BY <1>2, <1>3, <1>10, LapseTypes DEF StartVi
  <2>2. ~Has(m.q, "VI") /\ m' = AddIn(Later(n), "VI", ViDelay)
      BY <1>10 DEF StartVi, Queued, Has
  <2>3. ViDelay \in 0 .. Half - 1
      BY InterruptsAssumption, ModulusTypes
  <2> QED BY <2>1, <2>2, <2>3, AddInWhole
<1>11. ASSUME NEW n \in Lapses, NEW cycles \in PiDelays, PiDma(n, cycles)
       PROVE  WholeInv' /\ m'.disciplined = m.disciplined
  <2> DEFINE r == [Later(n) EXCEPT !.busy = TRUE]
  <2>1. /\ Whole(Later(n)) /\ Later(n).disciplined = m.disciplined /\ block' \in 0 .. MaxBlock
        /\ m' = AddIn(r, "PI", cycles)
      BY <1>2, <1>3, <1>11, LapseTypes DEF PiDma
  <2>2. {} \in SUBSET Lines /\ TRUE \in BOOLEAN
      OBVIOUS
  <2>3. Whole(r) /\ r.disciplined = m.disciplined
      BY <2>1, <2>2, AsideTypes
  <2> HIDE DEF r
  <2>4. cycles \in 0 .. Half - 1
      BY InterruptsAssumption
  <2> QED BY <2>1, <2>3, <2>4, AddInWhole
<1>12. ASSUME NEW n \in Lapses, WriteMask(n)
       PROVE  WholeInv' /\ m'.disciplined = m.disciplined
  <2>1. PICK l \in BOOLEAN : m' \in GenOrReload(Lapsed(Check([m EXCEPT !.line = l]), n))
      BY <1>12 DEF WriteMask
  <2> DEFINE r == Lapsed(Check([m EXCEPT !.line = l]), n)
  <2>2. Passes(n) /\ block' \in 0 .. MaxBlock
      BY <1>2, <1>3, <1>12, LapseTypes DEF WriteMask
  <2>3. Whole(r) /\ r.disciplined = m.disciplined
      BY <2>2, MaskedWhole
  <2> HIDE DEF r
  <2>4. m' \in GenOrReload(r)
      BY <2>1 DEF r
  <2> QED BY <2>2, <2>3, <2>4, GenOrReloadWhole
<1>13. ASSUME NEW n \in EarlyLapses, NEW c \in CompareValues, MTC0_COMPARE(n, c)
       PROVE  WholeInv' /\ m'.disciplined = m.disciplined
  <2> DEFINE a == remove_event(Later(n), "COMPARE")  b == AddCompare(a, c)
  <2>1. /\ Whole(Later(n)) /\ Later(n).disciplined = m.disciplined /\ block' \in 0 .. MaxBlock
        /\ m' = [b EXCEPT !.compare = c, !.ip = @ \ {"timer"}]
      BY <1>2, <1>3, <1>13, EarlyLapseTypes DEF MTC0_COMPARE
  <2>2. /\ Sound(Later(n)) /\ Len(Later(n).q) <= Capacity /\ Len(Later(n).q) \in Nat
        /\ Has(Later(n).q, "COMPARE") /\ Has(Later(n).q, "SPECIAL") /\ Capacity \in Nat
      BY <2>1, SoundFields DEF Whole
  <2>3. /\ Sound(a) /\ Aside(a) = Aside(Later(n)) /\ Len(a.q) = Len(Later(n).q) - 1
        /\ ~Has(a.q, "COMPARE") /\ Has(a.q, "SPECIAL")
      BY <2>2, RemoveTypeSound DEF Single
  <2> HIDE DEF a
  <2>4. Len(a.q) < Capacity /\ c \in Counts
      BY <2>2, <2>3, InterruptsAssumption
  <2>5. /\ Sound(b) /\ Current(b) /\ Aside(b) = Aside(a)
        /\ \A t : Has(b.q, t) <=> Has(a.q, t) \/ t = "COMPARE"
      BY <2>3, <2>4, AddCompareSound
  <2> HIDE DEF b
  <2>6. Whole(b) /\ b \in Machines
      BY <2>3, <2>5, SoundFields DEF Whole
  <2>7. b.disciplined = m.disciplined
      BY <2>1, <2>3, <2>5 DEF Aside
  <2> DEFINE ips == b.ip \ {"timer"}
  <2>8. ips \in SUBSET Lines /\ {} \in SUBSET Lines /\ TRUE \in BOOLEAN
      BY <2>6 DEF Machines
  <2>9. m' = [b EXCEPT !.compare = c, !.ip = ips]
      BY <2>1, <2>6 DEF Machines
  <2> HIDE DEF ips
  <2>10. m' \in Machines /\ SameClock(b, m') /\ m'.disciplined = b.disciplined
      BY <2>4, <2>6, <2>8, <2>9 DEF Machines, SameClock
  <2> QED BY <2>1, <2>6, <2>7, <2>10, AsideWhole
<1>14. ASSUME NEW n \in EarlyLapses, NEW c \in CountValues, MTC0_COUNT(n, c)
       PROVE  WholeInv' /\ m'.disciplined = m.disciplined
  <2>1. /\ Whole(Later(n)) /\ Later(n).disciplined = m.disciplined /\ block' \in 0 .. MaxBlock
      BY <1>2, <1>3, <1>14, EarlyLapseTypes DEF MTC0_COUNT
  <2>2. PICK r \in GenIfDue(Later(n)) : m' = Translated(r, c)
      BY <1>14 DEF MTC0_COUNT
  <2>3. Whole(r) /\ r.disciplined = m.disciplined /\ c \in Counts
      BY <2>1, GenIfDueWhole, InterruptsAssumption
  <2>4. Whole(m') /\ Aside(m') = Aside(r)
      BY <2>2, <2>3, TranslatedWhole
  <2> QED BY <2>1, <2>3, <2>4 DEF Aside
<1>15. ASSUME NEW n \in Lapses, NEW en \in SUBSET Lines, NEW exl \in BOOLEAN,
              MTC0_STATUS(n, en, exl)
       PROVE  WholeInv' /\ m'.disciplined = m.disciplined
  <2> DEFINE r == [Later(n) EXCEPT !.enabled = en, !.exl = exl]
  <2>1. /\ Whole(Later(n)) /\ Later(n).disciplined = m.disciplined /\ block' \in 0 .. MaxBlock
        /\ m' \in GenIfDue(Check(r))
      BY <1>2, <1>3, <1>15, LapseTypes DEF MTC0_STATUS
  <2>2. r \in Machines /\ SameClock(Later(n), r) /\ r.disciplined = Later(n).disciplined
    <3>1. Later(n) \in Machines
        BY <2>1, SoundFields DEF Whole
    <3> QED BY <3>1 DEF Machines, SameClock
  <2>3. Whole(r) /\ r.disciplined = m.disciplined
    <3> HIDE DEF r
    <3> QED BY <2>1, <2>2, AsideWhole
  <2> HIDE DEF r
  <2>4. Whole(Check(r)) /\ Check(r).disciplined = m.disciplined
      BY <2>3, CheckWhole
  <2> QED BY <2>1, <2>4, GenIfDueWhole
<1>16. CASE UNCHANGED vars
    BY <1>16 DEF vars
<1> QED BY <1>4, <1>5, <1>6, <1>7, <1>8, <1>9, <1>10, <1>11, <1>12, <1>13, <1>14, <1>15,
           <1>16 DEF Next

LEMMA AlwaysWhole == Spec => []WholeInv
<1>1. WholeInv /\ [Next]_vars => WholeInv'
    BY WholeStep
<1> QED BY <1>1, WholeInitially, PTL DEF Spec

(* Count, Compare, the queue and the registers keep their ranges, and no   *)
(* more events are queued than there are nodes, whatever the program does. *)
THEOREM ClockTypes == Spec => []TypeOK
<1>1. ASSUME WholeInv PROVE TypeOK
  <2>1. m \in Machines /\ Len(m.q) <= Capacity
      BY <1>1, SoundFields DEF WholeInv, Whole
  <2>2. m.disciplined \in Disciplines /\ block \in 0 .. MaxBlock
      BY <1>1 DEF WholeInv
  <2> QED BY <2>1, <2>2 DEF TypeOK, Machines, Queues, Entries
<1> QED BY <1>1, AlwaysWhole, PTL

(* cycle_count is the distance from Count to the first event after every   *)
(* register write, exception and interrupt.                                *)
THEOREM CycleAlwaysCurrent == Spec => []CycleIsCurrent
<1>1. WholeInv => CycleIsCurrent
    BY DEF WholeInv, Whole, Current, CycleIsCurrent
<1> QED BY <1>1, AlwaysWhole, PTL

(* SPECIAL and COMPARE are queued once each, and VI once at most, also     *)
(* with a full pool and by programs that leave DMA events behind.          *)
THEOREM EventsQueueThemselves == Spec => []SelfQueuing
<1>1. ASSUME WholeInv PROVE SelfQueuing
  <2> DEFINE At(t) == {i \in 1 .. Len(m.q) : m.q[i].type = t}
  <2>1. /\ m.q \in Queues /\ Len(m.q) \in Nat
        /\ \A t \in Single : AtMostOne(m.q, t)
        /\ Has(m.q, "SPECIAL") /\ Has(m.q, "COMPARE")
      BY <1>1, SoundFields DEF WholeInv, Whole
  <2>2. ASSUME NEW t \in Single, Has(m.q, t) PROVE Copies(t) = 1
    <3>1. PICK i \in 1 .. Len(m.q) : m.q[i].type = t
        BY <2>2 DEF Has
    <3>2. At(t) = {i}
        BY <2>1, <3>1 DEF AtMostOne
    <3> QED BY <3>2, FS_Singleton DEF Copies
  <2>3. ASSUME NEW t \in Single, ~Has(m.q, t) PROVE Copies(t) = 0
    <3>1. At(t) = {}
        BY <2>3 DEF Has
    <3> QED BY <3>1, FS_EmptySet DEF Copies
  <2>4. Copies("SPECIAL") = 1 /\ Copies("COMPARE") = 1
      BY <2>1, <2>2 DEF Single
  <2>5. Copies("VI") = 1 \/ Copies("VI") = 0
      BY <2>2, <2>3 DEF Single
  <2> QED BY <2>4, <2>5 DEF SelfQueuing
<1> QED BY <1>1, AlwaysWhole, PTL

(* gen_interrupt is not called for an event whose time has not come, the   *)
(* timer's apart.                                                          *)
THEOREM TakenAlwaysDue == Spec => []TakenIsDue
<1>1. WholeInv => TakenIsDue
    BY FirstDue DEF WholeInv, TakenIsDue
<1> QED BY <1>1, AlwaysWhole, PTL

-----------------------------------------------------------------------------
(***************************************************************************)
(* The order of the queue.  Sorting compares 32-bit distances from a base, *)
(* so the timer's event may stand for a match in this turn of Count or in  *)
(* the last: its key is its distance, or a turn less (z).  Every other key *)
(* is the distance.  With keys less than a turn apart, counted from the    *)
(* base, the queue is sorted by them.                                      *)
(***************************************************************************)
Turns == {0, Modulus}
Key(z, e) == e.left - (IF e.type = "COMPARE" THEN z ELSE 0)
Overdue(c) == IF c > 0 THEN c ELSE 0

Ordered(q, z) == \A i, j \in 1 .. Len(q) : i <= j => Key(z, q[i]) <= Key(z, q[j])

(* d counts before their time, no key is overdue by more than b, and none  *)
(* is a turn ahead of that.                                                *)
Keyed(e, z, b, d) == -b <= Key(z, e) - d /\ Key(z, e) - d <= Modulus - 1 - b
AllKeyed(q, z, b, d) == \A i \in 1 .. Len(q) : Keyed(q[i], z, b, d)

(* The same around the first event, for a cycle_count of c *)
Framed(q, z, c, d) ==
    \A i \in 1 .. Len(q) : /\ -c <= Key(z, q[i])
                           /\ Key(z, q[i]) <= Modulus - 1 + d - Overdue(c + d)

LEMMA KeyTypes ==
    ASSUME NEW z \in Turns, NEW e \in Entries
    PROVE  /\ Key(z, e) \in Int /\ z \in Int
           /\ e.type # "COMPARE" => Key(z, e) = e.left
BY ModulusTypes DEF Turns, Key, Entries

LEMMA OverdueTypes ==
    ASSUME NEW c \in Int
    PROVE  Overdue(c) \in Nat /\ Overdue(c) >= c /\ Overdue(c) >= 0
BY DEF Overdue

(* The distance before_event compares is the key, counted from the base.   *)
LEMMA AheadIsKey ==
    ASSUME NEW r \in Machines, NEW e \in Entries, NEW z \in Turns, NEW d \in Nat,
           e.count = (r.count + (e.left - d)) % Modulus,
           Keyed(e, z, Overdue(r.cycle), d)
    PROVE  Ahead(e.count, Base(r)) = Key(z, e) - d + Overdue(r.cycle)
<1> DEFINE b == Overdue(r.cycle)  k == Key(z, e) - d + b  l == e.left - d
           n == r.count  x == n + l
<1>1. /\ n \in Int /\ b \in Int /\ l \in Int /\ Key(z, e) \in Int /\ z \in Int
      /\ x \in Int /\ k \in Int
  <2>1. n \in Int /\ r.cycle \in Int /\ e.left \in Int
      BY MachineFields DEF Entries
  <2>2. b \in Int /\ Key(z, e) \in Int /\ z \in Int
      BY <2>1, OverdueTypes, KeyTypes
  <2> QED BY <2>1, <2>2
<1>2. k \in Counts
    BY <1>1, ModulusTypes DEF Keyed, Counts
<1>3. Base(r) = (n - b) % Modulus
    BY DEF Base, Overdue
<1>4. e.count \in Int
    BY ModulusTypes DEF Entries, Counts
<1>5. Ahead(e.count, Base(r)) = (e.count - (n - b)) % Modulus
  <2>1. n - b \in Int
      BY <1>1
  <2> QED BY <1>3, <1>4, <2>1, MinusResidue DEF Ahead
<1>6. ((x % Modulus) + (b - n)) % Modulus = (x + (b - n)) % Modulus
  <2>1. b - n \in Int
      BY <1>1
  <2> QED BY <1>1, <2>1, PlusResidue
<1>7. x + (b - n) = l + b
    BY <1>1
<1>8. e.count - (n - b) = (x % Modulus) + (b - n)
    BY <1>1, <1>4
<1>9. Ahead(e.count, Base(r)) = (l + b) % Modulus
    BY <1>5, <1>6, <1>7, <1>8
<1>10. l + b = k \/ l + b = k + Modulus
  <2>1. e.left = Key(z, e) \/ e.left = Key(z, e) + Modulus
    <3>1. e.left \in Int /\ (z = 0 \/ z = Modulus) /\ Modulus \in Int
        BY ModulusTypes DEF Entries, Turns
    <3> QED BY <3>1 DEF Key
  <2>2. e.left \in Int /\ Modulus \in Int
      BY ModulusTypes DEF Entries
  <2> QED BY <1>1, <2>1, <2>2
<1>11. (l + b) % Modulus = k % Modulus
  <2>1. CASE l + b = k
      BY <2>1
  <2>2. CASE l + b = k + Modulus
    <3>1. (l + b) - Modulus = k /\ l + b \in Int
        BY <1>1, <2>2, ModulusTypes
    <3> QED BY <3>1, TurnLess
  <2> QED BY <1>10, <2>1, <2>2
<1> QED BY <1>2, <1>9, <1>11, ResidueIsItself

(* Adding an event keeps the queue sorted. *)
LEMMA AddOrders ==
    ASSUME NEW r \in Machines, NEW e \in Entries, Len(r.q) < Capacity,
           NEW z \in Turns, NEW d \in Nat,
           e.count = (r.count + (e.left - d)) % Modulus,
           \A i \in 1 .. Len(r.q) :
              r.q[i].count = (r.count + (r.q[i].left - d)) % Modulus,
           Keyed(e, z, Overdue(r.cycle), d), AllKeyed(r.q, z, Overdue(r.cycle), d),
           Ordered(r.q, z)
    PROVE  LET q2 == Add(r, e).q
           IN Ordered(q2, z) /\ AllKeyed(q2, z, Overdue(r.cycle), d)
<1> DEFINE b == Overdue(r.cycle)
<1>1. PICK p, q2 :
         /\ q2 \in Queues /\ Inserted(r.q, p, e, q2)
         /\ Add(r, e) = [r EXCEPT !.q = q2, !.cycle = CycleOf(r, q2)]
         /\ \A i \in 1 .. Len(r.q) : i < p => ~before_event(r, e.count, r.q[i].count)
         /\ p \in 1 .. Len(r.q) => before_event(r, e.count, r.q[p].count)
    BY AddPlaces
<1>2. Add(r, e).q = q2
    BY <1>1 DEF Machines
<1>3. r.q \in Queues /\ Len(r.q) \in Nat /\ b \in Int /\ p \in Int
    BY <1>1, MachineFields, OverdueTypes DEF Inserted
<1>4. /\ Key(z, e) \in Int
      /\ \A i \in 1 .. Len(r.q) : r.q[i] \in Entries /\ Key(z, r.q[i]) \in Int
    BY <1>3, EntryFields, KeyTypes
<1>5. Ahead(e.count, Base(r)) = Key(z, e) - d + b
    BY AheadIsKey
<1>6. \A i \in 1 .. Len(r.q) : Ahead(r.q[i].count, Base(r)) = Key(z, r.q[i]) - d + b
    BY <1>4, AheadIsKey DEF AllKeyed
<1>7. \A i \in 1 .. Len(r.q) :
         before_event(r, e.count, r.q[i].count) <=> Key(z, e) < Key(z, r.q[i])
    BY <1>3, <1>4, <1>5, <1>6 DEF before_event
<1>8. \A i \in 1 .. Len(r.q) : i < p => Key(z, r.q[i]) <= Key(z, e)
    BY <1>1, <1>4, <1>7
<1>9. \A i \in 1 .. Len(r.q) : i >= p => Key(z, e) <= Key(z, r.q[i])
  <2> SUFFICES ASSUME NEW i \in 1 .. Len(r.q), i >= p
               PROVE  Key(z, e) <= Key(z, r.q[i])
      OBVIOUS
  <2>1. p \in 1 .. Len(r.q)
      BY <1>1, <1>3 DEF Inserted
  <2>2. Key(z, e) < Key(z, r.q[p]) /\ Key(z, r.q[p]) <= Key(z, r.q[i])
      BY <1>1, <1>7, <2>1 DEF Ordered
  <2> QED BY <1>4, <2>1, <2>2
<1>10. /\ q2[p] = e
       /\ \A i \in 1 .. Len(q2) :
             \/ i = p
             \/ i < p /\ i \in 1 .. Len(r.q) /\ q2[i] = r.q[i]
             \/ i > p /\ i - 1 \in 1 .. Len(r.q) /\ q2[i] = r.q[i - 1]
  <2>1. r.q \in Queues /\ q2 \in Queues /\ Inserted(r.q, p, e, q2)
      BY <1>1, <1>3
  <2> QED BY <2>1, InsertedEntries
<1>11. Ordered(q2, z)
  <2> SUFFICES ASSUME NEW i \in 1 .. Len(q2), NEW j \in 1 .. Len(q2), i <= j
               PROVE  Key(z, q2[i]) <= Key(z, q2[j])
      BY DEF Ordered
  <2>1. q2[p] = e
      BY <1>10
  <2>2. \/ i = p
        \/ i < p /\ i \in 1 .. Len(r.q) /\ q2[i] = r.q[i]
        \/ i > p /\ i - 1 \in 1 .. Len(r.q) /\ q2[i] = r.q[i - 1]
      BY <1>10
  <2>3. \/ j = p
        \/ j < p /\ j \in 1 .. Len(r.q) /\ q2[j] = r.q[j]
        \/ j > p /\ j - 1 \in 1 .. Len(r.q) /\ q2[j] = r.q[j - 1]
      BY <1>10
  <2>4. CASE i = p
    <3>1. CASE j = p
        BY <1>4, <2>1, <2>4, <3>1
    <3>2. CASE j > p /\ j - 1 \in 1 .. Len(r.q) /\ q2[j] = r.q[j - 1]
      <4>1. j - 1 >= p
          BY <1>3, <3>2
      <4> QED BY <1>9, <2>1, <2>4, <3>2, <4>1
    <3> QED BY <1>3, <2>3, <2>4, <3>1, <3>2
  <2>5. CASE i < p /\ i \in 1 .. Len(r.q) /\ q2[i] = r.q[i]
    <3>1. CASE j = p
        BY <1>8, <2>1, <2>5, <3>1
    <3>2. CASE j < p /\ j \in 1 .. Len(r.q) /\ q2[j] = r.q[j]
        BY <2>5, <3>2 DEF Ordered
    <3>3. CASE j > p /\ j - 1 \in 1 .. Len(r.q) /\ q2[j] = r.q[j - 1]
      <4>1. i <= j - 1
          BY <1>3, <2>5, <3>3
      <4> QED BY <2>5, <3>3, <4>1 DEF Ordered
    <3> QED BY <2>3, <3>1, <3>2, <3>3
  <2>6. CASE i > p /\ i - 1 \in 1 .. Len(r.q) /\ q2[i] = r.q[i - 1]
    <3>1. j > p /\ j - 1 \in 1 .. Len(r.q) /\ q2[j] = r.q[j - 1] /\ i - 1 <= j - 1
        BY <1>3, <2>3, <2>6
    <3> QED BY <2>6, <3>1 DEF Ordered
  <2> QED BY <2>2, <2>4, <2>5, <2>6
<1>12. AllKeyed(q2, z, b, d)
  <2> SUFFICES ASSUME NEW i \in 1 .. Len(q2) PROVE Keyed(q2[i], z, b, d)
      BY DEF AllKeyed
  <2>1. \/ q2[i] = e
        \/ \E j \in 1 .. Len(r.q) : q2[i] = r.q[j]
      BY <1>10
  <2> QED BY <2>1 DEF AllKeyed
<1> QED BY <1>2, <1>11, <1>12

LEMMA FramedKeyed ==
    ASSUME NEW q \in Queues, NEW z \in Turns, NEW c \in Int, Framed(q, z, c, 0)
    PROVE  /\ AllKeyed(q, z, Overdue(c), 0)
           /\ AllKeyed(q, z, Overdue(c + CountPerOp), CountPerOp)
           /\ Framed(q, z, c, CountPerOp)
<1> SUFFICES ASSUME NEW i \in 1 .. Len(q)
             PROVE  /\ Keyed(q[i], z, Overdue(c), 0)
                    /\ Keyed(q[i], z, Overdue(c + CountPerOp), CountPerOp)
                    /\ Key(z, q[i]) <= Modulus - 1 + CountPerOp - Overdue(c + CountPerOp)
    BY DEF AllKeyed, Framed
<1> DEFINE k == Key(z, q[i])
<1>1. k \in Int /\ CountPerOp \in Nat /\ Modulus \in Int
    BY EntryFields, KeyTypes, BoundTypes, ModulusTypes
<1>2. -c <= k /\ k <= Modulus - 1 + 0 - Overdue(c + 0) /\ c + 0 = c
    BY DEF Framed
<1> HIDE DEF k
<1>3. /\ -Overdue(c) <= k - 0 /\ k - 0 <= Modulus - 1 - Overdue(c)
      /\ -Overdue(c + CountPerOp) <= k - CountPerOp
      /\ k - CountPerOp <= Modulus - 1 - Overdue(c + CountPerOp)
      /\ k <= Modulus - 1 + CountPerOp - Overdue(c + CountPerOp)
    BY <1>1, <1>2 DEF Overdue
<1> QED BY <1>3 DEF k, Keyed

LEMMA DroppedOrdered ==
    ASSUME NEW q \in Queues, NEW p, NEW q2 \in Queues, Dropped(q, p, q2)
    PROVE  /\ \A z : Ordered(q, z) => Ordered(q2, z)
           /\ \A z, c, d : Framed(q, z, c, d) => Framed(q2, z, c, d)
           /\ \A z, b, d : AllKeyed(q, z, b, d) => AllKeyed(q2, z, b, d)
<1> DEFINE At(i) == IF i < p THEN i ELSE i + 1
<1>1. \A i \in 1 .. Len(q2) : At(i) \in 1 .. Len(q) /\ q2[i] = q[At(i)]
    BY DroppedEntries
<1>2. Len(q2) \in Nat /\ p \in 1 .. Len(q) /\ Len(q) \in Nat
    BY DroppedEntries DEF Queues
<1>3. \A i, j \in 1 .. Len(q2) : i <= j => At(i) <= At(j)
    BY <1>2
<1> HIDE DEF At
<1>4. \A z : Ordered(q, z) => Ordered(q2, z)
    BY <1>1, <1>3 DEF Ordered
<1>5. \A z, c, d : Framed(q, z, c, d) => Framed(q2, z, c, d)
    BY <1>1 DEF Framed
<1>6. \A z, b, d : AllKeyed(q, z, b, d) => AllKeyed(q2, z, b, d)
    BY <1>1 DEF AllKeyed
<1> QED BY <1>4, <1>5, <1>6

(* While the key of the first event is no more than half a turn,           *)
(* cycle_count is the distance to it.                                      *)
LEMMA HeadIsCycle ==
    ASSUME NEW s, Sound(s), Current(s), NEW z \in Turns, NEW b \in Int, b < Half,
           -b <= Key(z, s.q[1]), Key(z, s.q[1]) <= Half
    PROVE  s.cycle = -Key(z, s.q[1])
<1> DEFINE e == s.q[1]  k == Key(z, e)
<1>1. /\ s \in Machines /\ s.q \in Queues /\ s.q # << >> /\ s.cycle = CycleOf(s, s.q)
      /\ \A i \in 1 .. Len(s.q) : TimedAt(s.count, s.q[i])
    BY SoundFields DEF Current
<1>2. 1 \in 1 .. Len(s.q)
    BY <1>1 DEF Queues
<1>3. e \in Entries /\ e.left \in Int /\ k \in Int /\ z \in Int
    BY <1>1, <1>2, EntryFields, KeyTypes
<1>4. s.cycle = Signed(-e.left)
    BY <1>1, <1>2, CycleOfFirst DEF TimedAt
<1>5. -e.left = -k \/ -e.left = -k - Modulus
  <2>1. z = 0 \/ z = Modulus
      BY DEF Turns
  <2>2. k = e.left \/ k = e.left - z
      BY <1>3 DEF Key
  <2> QED BY <1>3, <2>1, <2>2, ModulusTypes
<1> HIDE DEF e, k
<1>6. -e.left \in Int /\ -k \in Int /\ -k - Modulus \in Int
    BY <1>3, ModulusTypes
<1>7. (-e.left) % Modulus = (-k) % Modulus
    BY <1>5, <1>6, TurnLess
<1>8. Signed(-e.left) = Signed(-k)
    BY <1>6, <1>7, SignedSame
<1>9. -k \in -Half .. Half - 1
    BY <1>3, ModulusTypes DEF k, e
<1>10. Signed(-k) = -k
    BY <1>9, SignedIsItself
<1> QED BY <1>4, <1>8, <1>10 DEF k, e

(* So it is with an event other than the timer's in the queue. *)
LEMMA HeadCycle ==
    ASSUME NEW s, Sound(s), Current(s), NEW z \in Turns, NEW b \in Int, b < Half,
           Ordered(s.q, z), -b <= Key(z, s.q[1]),
           NEW t, t # "COMPARE", Has(s.q, t)
    PROVE  /\ 1 \in 1 .. Len(s.q) /\ Key(z, s.q[1]) \in Int /\ Key(z, s.q[1]) <= Half
           /\ s.cycle = -Key(z, s.q[1])
<1>1. /\ s.q \in Queues /\ s.q # << >>
      /\ \A i \in 1 .. Len(s.q) : TimedAt(s.count, s.q[i])
    BY SoundFields DEF Current
<1>2. 1 \in 1 .. Len(s.q)
    BY <1>1 DEF Queues
<1>3. Key(z, s.q[1]) \in Int
    BY <1>1, <1>2, EntryFields, KeyTypes
<1>4. Key(z, s.q[1]) <= Half
  <2>1. PICK i \in 1 .. Len(s.q) : s.q[i].type = t
      BY DEF Has
  <2>2. s.q[i] \in Entries /\ Key(z, s.q[i]) = s.q[i].left /\ s.q[i].left \in Int
      BY <1>1, <2>1, EntryFields, KeyTypes
  <2>3. s.q[i].left <= Half
      BY <1>1, <2>1 DEF TimedAt, InReach
  <2>4. Key(z, s.q[1]) <= Key(z, s.q[i])
      BY <1>2 DEF Ordered
  <2> QED BY <1>3, <2>2, <2>3, <2>4, ModulusTypes
<1>5. s.cycle = -Key(z, s.q[1])
    BY <1>4, HeadIsCycle
<1> QED BY <1>2, <1>3, <1>4, <1>5

(* A machine whose cycle_count is up to date is framed by it. *)
LEMMA Settles ==
    ASSUME NEW s, Sound(s), Current(s), NEW z \in Turns, NEW b \in Nat, NEW d \in Nat,
           b < Half, Ordered(s.q, z), AllKeyed(s.q, z, b, d),
           NEW t, t # "COMPARE", Has(s.q, t)
    PROVE  /\ Framed(s.q, z, s.cycle, d) /\ s.cycle <= b - d
           /\ s.cycle = -Key(z, s.q[1])
<1>1. /\ s \in Machines /\ s.q \in Queues /\ s.q # << >> /\ s.cycle \in Int
    BY SoundFields, MachineFields DEF Current
<1>2. 1 \in 1 .. Len(s.q)
    BY <1>1 DEF Queues
<1>3. \A i \in 1 .. Len(s.q) : Key(z, s.q[i]) \in Int
    BY <1>1, EntryFields, KeyTypes
<1>4. -b <= Key(z, s.q[1]) - d
    BY <1>2 DEF AllKeyed, Keyed
<1>5. -b <= Key(z, s.q[1])
    BY <1>2, <1>3, <1>4
<1>6. s.cycle = -Key(z, s.q[1])
  <2>1. b \in Int
      OBVIOUS
  <2> QED BY <1>5, <2>1, HeadCycle, Zenon
<1>7. s.cycle <= b - d
    BY <1>2, <1>3, <1>4, <1>6
<1>8. Overdue(s.cycle + d) <= b
    BY <1>1, <1>7 DEF Overdue
<1>9. Framed(s.q, z, s.cycle, d)
  <2> SUFFICES ASSUME NEW i \in 1 .. Len(s.q)
               PROVE  /\ -s.cycle <= Key(z, s.q[i])
                      /\ Key(z, s.q[i]) <= Modulus - 1 + d - Overdue(s.cycle + d)
      BY DEF Framed
  <2>1. Key(z, s.q[1]) <= Key(z, s.q[i]) /\ Key(z, s.q[i]) - d <= Modulus - 1 - b
      BY <1>2 DEF Ordered, AllKeyed, Keyed
  <2>2. Overdue(s.cycle + d) \in Int
    <3>1. s.cycle + d \in Int
        BY <1>1
    <3> QED BY <3>1 DEF Overdue
  <2> QED BY <1>1, <1>2, <1>3, <1>6, <1>8, <2>1, <2>2, ModulusTypes
<1> QED BY <1>6, <1>7, <1>9

-----------------------------------------------------------------------------
(***************************************************************************)
(* Programs that keep the rules.  Between handlers, with no CHECK in the   *)
(* queue, every event is there once, a busy DMA has its event, the queue   *)
(* is sorted, and before the VI is started SPECIAL is at the next flip of  *)
(* Count's top bit: there always is an event less than half a turn away.   *)
(***************************************************************************)
SpecialDue(c) == (IF c < Half THEN Half ELSE Modulus) - c

Turned(c, q) ==
    \/ Has(q, "VI")
    \/ \A i \in 1 .. Len(q) : q[i].type = "SPECIAL" => q[i].left = SpecialDue(c)

BusyQueued(r) == r.busy <=> Has(r.q, "PI")

Level(r, d) ==
    /\ Whole(r) /\ (\A t : AtMostOne(r.q, t)) /\ ~Has(r.q, "CHECK")
    /\ BusyQueued(r) /\ Turned(r.count, r.q)
    /\ \E z \in Turns : Ordered(r.q, z) /\ Framed(r.q, z, r.cycle, d)

(* One event of each type, and no CHECK: the pool has room. *)
LEMMA ShortQueue ==
    ASSUME NEW q \in Queues, \A t : AtMostOne(q, t), ~Has(q, "CHECK")
    PROVE  Len(q) <= 4 /\ Len(q) < Capacity
<1>1. Len(q) \in Nat
    BY DEF Queues
<1>2. ASSUME Len(q) >= 5 PROVE FALSE
  <2>1. 1 \in 1 .. Len(q) /\ 2 \in 1 .. Len(q) /\ 3 \in 1 .. Len(q) /\ 4 \in 1 .. Len(q)
        /\ 5 \in 1 .. Len(q)
      BY <1>1, <1>2
  <2>2. \A i \in 1 .. Len(q) : q[i].type \in {"VI", "COMPARE", "PI", "SPECIAL"}
      BY EntryFields DEF Types, Has
  <2>3. \A i, j \in 1 .. Len(q) : i # j => q[i].type # q[j].type
      BY DEF AtMostOne
  <2> DEFINE T(i) == q[i].type
  <2>4. /\ T(1) # T(2) /\ T(1) # T(3) /\ T(1) # T(4) /\ T(1) # T(5) /\ T(2) # T(3)
        /\ T(2) # T(4) /\ T(2) # T(5) /\ T(3) # T(4) /\ T(3) # T(5) /\ T(4) # T(5)
      BY <2>1, <2>3
  <2>5. /\ T(1) \in {"VI", "COMPARE", "PI", "SPECIAL"} /\ T(2) \in {"VI", "COMPARE", "PI", "SPECIAL"}
        /\ T(3) \in {"VI", "COMPARE", "PI", "SPECIAL"} /\ T(4) \in {"VI", "COMPARE", "PI", "SPECIAL"}
        /\ T(5) \in {"VI", "COMPARE", "PI", "SPECIAL"}
      BY <2>1, <2>2
  <2> HIDE DEF T
  <2> QED BY <2>4, <2>5
<1> QED BY <1>1, <1>2, BoundTypes

LEMMA AddLevels ==
    ASSUME NEW r, Sound(r), Len(r.q) < Capacity, NEW z \in Turns,
           Overdue(r.cycle) < Half, Ordered(r.q, z),
           AllKeyed(r.q, z, Overdue(r.cycle), 0),
           NEW e \in Entries, e.type # "COMPARE", TimedAt(r.count, e),
           -Overdue(r.cycle) <= e.left, e.type \in Single => ~Has(r.q, e.type)
    PROVE  LET s == Add(r, e)
           IN /\ Sound(s) /\ Current(s) /\ s.count = r.count /\ Aside(s) = Aside(r)
              /\ Len(s.q) = Len(r.q) + 1 /\ \E p : Inserted(r.q, p, e, s.q)
              /\ \A t : Has(s.q, t) <=> Has(r.q, t) \/ t = e.type
              /\ Ordered(s.q, z) /\ Framed(s.q, z, s.cycle, 0)
              /\ s.cycle <= Overdue(r.cycle)
<1> DEFINE s == Add(r, e)  b == Overdue(r.cycle)
<1>1. /\ r \in Machines /\ r.q \in Queues /\ r.cycle \in Int
      /\ \A i \in 1 .. Len(r.q) : TimedAt(r.count, r.q[i])
    BY SoundFields, MachineFields
<1>2. /\ Sound(s) /\ Current(s) /\ s.count = r.count /\ Aside(s) = Aside(r)
      /\ Len(s.q) = Len(r.q) + 1 /\ \E p : Inserted(r.q, p, e, s.q)
      /\ \A t : Has(s.q, t) <=> Has(r.q, t) \/ t = e.type
    BY AddSound
<1>3. b \in Nat /\ e.left \in Int /\ Key(z, e) = e.left
    BY <1>1, OverdueTypes, KeyTypes DEF Entries
<1>4. Keyed(e, z, b, 0)
  <2>1. e.left <= Half
      BY DEF TimedAt, InReach
  <2> QED BY <1>3, <2>1, ModulusTypes DEF Keyed
<1>5. e.count = (r.count + (e.left - 0)) % Modulus
  <2>1. e.left - 0 = e.left
      BY <1>3
  <2> QED BY <2>1 DEF TimedAt
<1>6. \A i \in 1 .. Len(r.q) : r.q[i].count = (r.count + (r.q[i].left - 0)) % Modulus
  <2> SUFFICES ASSUME NEW i \in 1 .. Len(r.q)
               PROVE  r.q[i].count = (r.count + (r.q[i].left - 0)) % Modulus
      OBVIOUS
  <2>1. r.q[i].left \in Int
      BY <1>1, EntryFields
  <2>2. r.q[i].left - 0 = r.q[i].left
      BY <2>1
  <2> QED BY <1>1, <2>2 DEF TimedAt
<1>7. Ordered(s.q, z) /\ AllKeyed(s.q, z, b, 0)
    BY <1>1, <1>4, <1>5, <1>6, AddOrders
<1> HIDE DEF s, b
<1>8. Framed(s.q, z, s.cycle, 0) /\ s.cycle <= b - 0
  <2>1. Has(s.q, e.type) /\ b < Half
      BY <1>2 DEF b
  <2> QED BY <1>2, <1>3, <1>7, <2>1, Settles
<1>9. s.cycle <= b
    BY <1>3, <1>8
<1> QED BY <1>2, <1>7, <1>8, <1>9 DEF s, b

(* Without a COMPARE in the queue, every choice of z is the same. *)
LEMMA SameKeys ==
    ASSUME NEW q \in Queues, ~Has(q, "COMPARE"), NEW z \in Turns, NEW z2 \in Turns
    PROVE  /\ Ordered(q, z) => Ordered(q, z2)
           /\ \A c, d : Framed(q, z, c, d) => Framed(q, z2, c, d)
           /\ \A b, d : AllKeyed(q, z, b, d) => AllKeyed(q, z2, b, d)
<1>1. \A i \in 1 .. Len(q) : Key(z2, q[i]) = Key(z, q[i])
    BY EntryFields, KeyTypes DEF Has
<1>2. Ordered(q, z) => Ordered(q, z2)
    BY <1>1 DEF Ordered
<1>3. \A c, d : Framed(q, z, c, d) => Framed(q, z2, c, d)
    BY <1>1 DEF Framed
<1>4. \A b, d : AllKeyed(q, z, b, d) => AllKeyed(q, z2, b, d)
    BY <1>1 DEF AllKeyed, Keyed
<1> QED BY <1>2, <1>3, <1>4

(* A key for the timer that is in the frame *)
LEMMA TimerKey ==
    ASSUME NEW e \in Entries, e.type = "COMPARE", NEW b \in Nat, b < Half, NEW d \in Nat,
           -b <= e.left - d, e.left - d < 2 * Modulus - b
    PROVE  \E z \in Turns : Keyed(e, z, b, d)
<1>1. e.left \in Int /\ 0 \in Turns /\ Modulus \in Turns /\ Modulus \in Int
    BY ModulusTypes DEF Entries, Turns
<1>2. Key(0, e) = e.left /\ Key(Modulus, e) = e.left - Modulus
    BY <1>1 DEF Key
<1>3. CASE e.left - d <= Modulus - 1 - b
    BY <1>1, <1>2, <1>3 DEF Keyed
<1>4. CASE ~(e.left - d <= Modulus - 1 - b)
  <2>1. Keyed(e, Modulus, b, d)
      BY <1>1, <1>2, <1>4, ModulusTypes DEF Keyed
  <2> QED BY <1>1, <2>1
<1> QED BY <1>3, <1>4


(* How far Count may be past the first event: a delay before the CHECK in  *)
(* front of it is queued, and one after.                                   *)
Slack == 2 * MaxLate

LEMMA SlackTypes ==
    /\ Slack \in Nat /\ Slack + CountPerOp < Half /\ Slack < Half
    /\ MaxLate \in Nat /\ Slack = MaxLate + MaxLate /\ MaxLate <= Slack /\ MaxLate < Half
    /\ Half \in Nat
BY BoundTypes, ModulusTypes DEF Slack

(* The timer is added one instruction ahead, with whatever key is in the   *)
(* frame then.                                                             *)
LEMMA AddCompareLevels ==
    ASSUME NEW r, Sound(r), NEW c \in Counts, Len(r.q) < Capacity, ~Has(r.q, "COMPARE"),
           NEW z \in Turns, Ordered(r.q, z), Framed(r.q, z, r.cycle, 0),
           r.cycle <= Slack, NEW t, t # "COMPARE", Has(r.q, t)
    PROVE  LET s == AddCompare(r, c)
           IN /\ \E z2 \in Turns : Ordered(s.q, z2) /\ Framed(s.q, z2, s.cycle, CountPerOp)
              /\ s.cycle <= Overdue(r.cycle)
<1> DEFINE d == CountPerOp
           next == [r EXCEPT !.count = (r.count + d) % Modulus,
                             !.cycle = Signed(r.cycle + d)]
           e == CompareEvent(r, c)  s == AddCompare(r, c)  b == Overdue(r.cycle + d)
<1>1. /\ r \in Machines /\ r.q \in Queues /\ r.cycle \in -Half .. Half - 1 /\ r.cycle \in Int
      /\ r.count \in Int /\ d \in Nat /\ d \in Int /\ d > 0 /\ Half \in Nat /\ Modulus = 2 * Half
      /\ Slack \in Nat /\ Slack + d < Half
    BY SoundFields, MachineFields, SlackTypes, BoundTypes, ModulusTypes
<1>0. /\ \A i \in 1 .. Len(r.q) : TimedAt(r.count, r.q[i])
      /\ \A i \in 1 .. Len(r.q) : r.q[i].left \in Int
    BY <1>1, SoundFields, EntryFields
<1>2. r.cycle + d \in -Half .. Half - 1 /\ r.cycle + d \in Int /\ r.count + d \in Int
    BY <1>1
<1>3. Signed(r.cycle + d) = r.cycle + d /\ (r.count + d) % Modulus \in Counts
    BY <1>2, SignedIsItself, DivMod
<1>4. /\ next \in Machines /\ next.q = r.q /\ next.cycle = r.cycle + d
      /\ next.count = (r.count + d) % Modulus
    BY <1>1, <1>2, <1>3 DEF Machines
<1>5. /\ e \in Entries /\ e.type = "COMPARE" /\ TimedAt(r.count, e) /\ e.left \in Int
      /\ d <= e.left /\ e.left <= Modulus - 1 + d
  <2>1. /\ e \in Entries /\ e.type = "COMPARE" /\ TimedAt(r.count, e)
        /\ e.left \in d .. Modulus - 1 + d
      BY <1>1, CompareTimed
  <2> HIDE DEF e
  <2> QED BY <2>1 DEF Entries
<1>6. /\ Sound(s) /\ Current(s) /\ \A u : Has(s.q, u) <=> Has(r.q, u) \/ u = "COMPARE"
    BY AddCompareSound
<1>7. s.q = Add(next, e).q
  <2> DEFINE added == Add(next, e)
  <2>1. AddCompare(r, c) = [added EXCEPT !.count = r.count, !.cycle = CycleOf(r, added.q)]
      BY DEF AddCompare, CompareEvent
  <2> HIDE DEF next, e
  <2>2. PICK q2 : added = [next EXCEPT !.q = q2, !.cycle = CycleOf(next, q2)]
    <3>1. Len(next.q) < Capacity /\ next \in Machines /\ e \in Entries
        BY <1>4, <1>5
    <3>2. \E p, q2 : /\ q2 \in Queues /\ Inserted(next.q, p, e, q2)
                    /\ Add(next, e) = [next EXCEPT !.q = q2, !.cycle = CycleOf(next, q2)]
        BY <3>1, AddPlaces
    <3> QED BY <3>2, Zenon DEF added
  <2> HIDE DEF added
  <2> QED BY <1>4, <2>1, <2>2 DEF Machines, added
<1>8. b \in Nat /\ b < Half /\ b - d <= Overdue(r.cycle)
    BY <1>1, <1>2 DEF Overdue
<1> HIDE DEF next, e, s, b
<1>9. ASSUME NEW f, f.left \in Int, TimedAt(r.count, f)
      PROVE  f.count = (next.count + (f.left - d)) % Modulus
  <2>1. f.left - d \in Int /\ r.count + d + (f.left - d) = r.count + f.left
      BY <1>1, <1>9
  <2>2. (((r.count + d) % Modulus) + (f.left - d)) % Modulus = (r.count + d + (f.left - d)) % Modulus
      BY <1>2, <2>1, PlusResidue
  <2> QED BY <1>4, <1>9, <2>1, <2>2 DEF TimedAt
<1>10. PICK z2 \in Turns : Keyed(e, z2, b, d)
  <2>1. -b <= e.left - d /\ e.left - d < 2 * Modulus - b
      BY <1>1, <1>5, <1>8
  <2> QED BY <1>1, <1>5, <1>8, <2>1, TimerKey
<1>11. Ordered(r.q, z2) /\ AllKeyed(r.q, z2, b, d)
  <2>1. Ordered(r.q, z2) /\ Framed(r.q, z2, r.cycle, 0)
      BY <1>1, SameKeys
  <2> QED BY <1>1, <2>1, FramedKeyed DEF b
<1>12. Ordered(s.q, z2) /\ AllKeyed(s.q, z2, b, d)
  <2>1. \A i \in 1 .. Len(next.q) :
           next.q[i].count = (next.count + (next.q[i].left - d)) % Modulus
      BY <1>0, <1>4, <1>9
  <2>2. e.count = (next.count + (e.left - d)) % Modulus
      BY <1>5, <1>9
  <2>3. b = Overdue(next.cycle) /\ Len(next.q) < Capacity
      BY <1>4 DEF b
  <2>4. LET q2 == Add(next, e).q
        IN Ordered(q2, z2) /\ AllKeyed(q2, z2, Overdue(next.cycle), d)
    <3>1. /\ next \in Machines /\ e \in Entries /\ d \in Nat
          /\ Keyed(e, z2, Overdue(next.cycle), d)
          /\ AllKeyed(next.q, z2, Overdue(next.cycle), d) /\ Ordered(next.q, z2)
        BY <1>1, <1>4, <1>5, <1>10, <1>11, <2>3
    <3> QED BY <2>1, <2>2, <2>3, <3>1, AddOrders
  <2> QED BY <1>7, <2>3, <2>4
<1>13. Framed(s.q, z2, s.cycle, d) /\ s.cycle <= b - d
  <2>1. Has(s.q, t)
      BY <1>6
  <2> QED BY <1>1, <1>6, <1>8, <1>12, <2>1, Settles
<1>14. s.cycle <= Overdue(r.cycle)
  <2>1. s.cycle \in Int
      BY <1>6, SoundFields, MachineFields
  <2>2. Overdue(r.cycle) \in Int
      BY <1>1 DEF Overdue
  <2> QED BY <1>1, <1>8, <1>13, <2>1, <2>2
<1> QED BY <1>12, <1>13, <1>14 DEF s


-----------------------------------------------------------------------------
(***************************************************************************)
(* The states of a program that keeps the rules: nothing pending and no    *)
(* CHECK, or a CHECK in front of a level queue, for as long as the jump    *)
(* that takes it is late.                                                  *)
(***************************************************************************)
Open(r) == Level(r, CountPerOp) /\ ~Pending(r) /\ r.cycle <= Slack

CheckFirst(r, d) ==
    Whole(r) /\ First(r).type = "CHECK" /\ Level(remove_interrupt_event(r), d)

Held(r) ==
    /\ CheckFirst(r, CountPerOp) /\ -MaxLate <= First(r).left
    /\ remove_interrupt_event(r).cycle <= MaxLate - First(r).left

Rules(r) == Open(r) \/ Held(r)

LEMMA LevelFields ==
    ASSUME NEW r, NEW d, Level(r, d)
    PROVE  /\ Whole(r) /\ Sound(r) /\ Current(r) /\ r \in Machines /\ r.q \in Queues
           /\ r.cycle \in Int /\ r.count \in Int /\ r.count \in Counts /\ Len(r.q) \in Nat
           /\ Len(r.q) < Capacity
           /\ Has(r.q, "SPECIAL") /\ Has(r.q, "COMPARE") /\ ~Has(r.q, "CHECK")
           /\ \A t : AtMostOne(r.q, t)
           /\ BusyQueued(r) /\ Turned(r.count, r.q)
<1>1. Whole(r) /\ Sound(r) /\ Current(r) /\ r \in Machines /\ r.q \in Queues
    BY SoundFields DEF Level, Whole
<1>2. /\ Has(r.q, "SPECIAL") /\ Has(r.q, "COMPARE") /\ ~Has(r.q, "CHECK")
      /\ \A t : AtMostOne(r.q, t)
      /\ BusyQueued(r) /\ Turned(r.count, r.q)
    BY DEF Level, Whole
<1>3. r.cycle \in Int /\ r.count \in Int /\ r.count \in Counts /\ Len(r.q) \in Nat
    BY <1>1, MachineFields
<1>4. Len(r.q) < Capacity
    BY <1>1, <1>2, ShortQueue
<1> QED BY <1>1, <1>2, <1>3, <1>4, Zenon

(* A queue framed up to the present is framed an instruction ahead. *)
LEMMA LevelAhead ==
    ASSUME NEW r, Level(r, 0)
    PROVE  Level(r, CountPerOp)
<1>1. r.q \in Queues /\ r.cycle \in Int
    BY LevelFields
<1>2. PICK z \in Turns : Ordered(r.q, z) /\ Framed(r.q, z, r.cycle, 0)
    BY DEF Level
<1>3. Framed(r.q, z, r.cycle, CountPerOp)
    BY <1>1, <1>2, FramedKeyed
<1>4. \E y \in Turns : Ordered(r.q, y) /\ Framed(r.q, y, r.cycle, CountPerOp)
    BY <1>2, <1>3
<1> QED BY <1>4 DEF Level

(* Without the timer's event, or once the first event is due, being framed *)
(* an instruction ahead is being framed now.                               *)
LEMMA FramedNow ==
    ASSUME NEW q \in Queues, NEW z \in Turns, NEW c \in Int, Framed(q, z, c, CountPerOp),
           \/ c >= 0
           \/ \A i \in 1 .. Len(q) : q[i].type # "COMPARE" /\ q[i].left <= Half
    PROVE  Framed(q, z, c, 0)
<1> SUFFICES ASSUME NEW i \in 1 .. Len(q)
             PROVE  -c <= Key(z, q[i]) /\ Key(z, q[i]) <= Modulus - 1 + 0 - Overdue(c + 0)
    BY DEF Framed
<1> DEFINE k == Key(z, q[i])
<1>1. /\ k \in Int /\ q[i].left \in Int
      /\ q[i].type # "COMPARE" => k = q[i].left
    BY EntryFields, KeyTypes
<1>2. -c <= k /\ k <= Modulus - 1 + CountPerOp - Overdue(c + CountPerOp)
    BY DEF Framed
<1> HIDE DEF k
<1>3. CASE c >= 0
    BY <1>1, <1>2, <1>3, BoundTypes, ModulusTypes DEF Overdue, k
<1>4. CASE c < 0
  <2>1. k <= Half
      BY <1>1, <1>4
  <2> QED BY <1>1, <1>2, <1>4, <2>1, ModulusTypes DEF Overdue, k
<1> QED BY <1>3, <1>4

LEMMA LevelNow ==
    ASSUME NEW r, Level(r, CountPerOp), r.cycle >= 0
    PROVE  Level(r, 0)
<1>1. r.q \in Queues /\ r.cycle \in Int
    BY LevelFields
<1>2. PICK z \in Turns : Ordered(r.q, z) /\ Framed(r.q, z, r.cycle, CountPerOp)
    BY DEF Level
<1>3. Framed(r.q, z, r.cycle, 0)
    BY <1>1, <1>2, FramedNow
<1>4. \E y \in Turns : Ordered(r.q, y) /\ Framed(r.q, y, r.cycle, 0)
    BY <1>2, <1>3
<1> QED BY <1>4 DEF Level

LEMMA SameClockLevel ==
    ASSUME NEW r, NEW s \in Machines, SameClock(r, s), s.busy = r.busy, NEW d, Level(r, d)
    PROVE  Level(s, d)
<1>1. Whole(s)
    BY SameClockWhole DEF Level
<1>2. s.q = r.q /\ s.count = r.count /\ s.cycle = r.cycle
    BY DEF SameClock
<1> QED BY <1>1, <1>2 DEF Level, BusyQueued

LEMMA SameClockHeld ==
    ASSUME NEW r, NEW s \in Machines, SameClock(r, s), s.busy = r.busy, Held(r)
    PROVE  Held(s)
<1> DEFINE a == remove_interrupt_event(r)  b == remove_interrupt_event(s)
<1>1. Whole(r) /\ Whole(s) /\ r \in Machines
    BY SameClockWhole, SoundFields DEF Held, CheckFirst, Whole
<1>2. s.q = r.q /\ s.count = r.count /\ First(s) = First(r)
    BY DEF SameClock, First
<1>3. /\ a.q = Tail(r.q) /\ a.count = r.count /\ a.cycle = CycleOf(r, Tail(r.q))
      /\ a.busy = r.busy
    BY <1>1 DEF remove_interrupt_event, Machines
<1>4. /\ b.q = Tail(s.q) /\ b.count = s.count /\ b.cycle = CycleOf(s, Tail(s.q))
      /\ b.busy = s.busy
    BY DEF remove_interrupt_event, Machines
<1>5. b \in Machines
    BY <1>1, FirstTaken, SoundFields
<1> HIDE DEF a, b
<1>6. SameClock(a, b) /\ b.busy = a.busy
    BY <1>2, <1>3, <1>4 DEF SameClock, CycleOf
<1>7. Level(a, CountPerOp) /\ First(r).type = "CHECK" /\ -MaxLate <= First(r).left
      /\ a.cycle <= MaxLate - First(r).left
    BY DEF Held, CheckFirst, a
<1>8. Level(b, CountPerOp)
    BY <1>5, <1>6, <1>7, SameClockLevel
<1> QED BY <1>1, <1>2, <1>6, <1>7, <1>8 DEF Held, CheckFirst, SameClock, b


(* Until Count is a turn's half past the last flip before the VI, and no   *)
(* event is left out of reach, a level queue stays level as time passes.   *)
Lapsing(r, n) ==
    /\ \A i \in 1 .. Len(r.q) : r.q[i].left - n >= 1 - Half
    /\ Has(r.q, "VI") \/ r.count + n < Half

LEMMA LapsedLevel ==
    ASSUME NEW r, Level(r, CountPerOp), NEW n \in Nat, n >= CountPerOp, Lapsing(r, n),
           r.cycle + n < Half
    PROVE  LET s == Lapsed(r, n)
           IN Level(s, 0) /\ s.cycle = r.cycle + n /\ Aside(s) = Aside(r)
<1> DEFINE s == Lapsed(r, n)
<1>1. /\ Sound(r) /\ Current(r) /\ Whole(r) /\ r.q \in Queues /\ r.cycle \in Int /\ r.count \in Int
      /\ r.cycle \in -Half .. Half - 1 /\ r.count \in Counts /\ Len(r.q) \in Nat
      /\ ~Has(r.q, "CHECK") /\ BusyQueued(r) /\ Turned(r.count, r.q)
      /\ \A t : AtMostOne(r.q, t)
    BY LevelFields, MachineFields
<1>2. /\ Sound(s) /\ Current(s) /\ Aside(s) = Aside(r)
      /\ s.count = (r.count + n) % Modulus /\ s.cycle = Signed(r.cycle + n)
      /\ Len(s.q) = Len(r.q)
      /\ \A i \in 1 .. Len(r.q) : /\ s.q[i].type = r.q[i].type
                                  /\ s.q[i].left = r.q[i].left - n
      /\ \A t : Has(s.q, t) <=> Has(r.q, t)
    BY <1>1, LapsedSound DEF Lapsing
<1> HIDE DEF s
<1>3. s.cycle = r.cycle + n
  <2>1. r.cycle + n \in -Half .. Half - 1
      BY <1>1, ModulusTypes
  <2> QED BY <1>2, <2>1, SignedIsItself
<1>4. Whole(s) /\ s.q \in Queues
    BY <1>1, <1>2, SoundFields DEF Whole
<1>5. (\A t : AtMostOne(s.q, t)) /\ ~Has(s.q, "CHECK")
  <2>1. ASSUME NEW t PROVE AtMostOne(s.q, t)
    <3>1. AtMostOne(r.q, t) /\ Len(s.q) = Len(r.q)
        BY <1>1, <1>2
    <3>2. \A i \in 1 .. Len(r.q) : s.q[i].type = r.q[i].type
        BY <1>2
    <3> QED BY <3>1, <3>2 DEF AtMostOne
  <2>2. ~Has(s.q, "CHECK")
      BY <1>1, <1>2
  <2> QED BY <2>1, <2>2
<1>6. BusyQueued(s)
    BY <1>1, <1>2 DEF BusyQueued, Aside
<1>7. Turned(s.count, s.q)
  <2>1. CASE Has(r.q, "VI")
      BY <1>2, <2>1 DEF Turned
  <2>2. CASE ~Has(r.q, "VI")
    <3>1. /\ \A i \in 1 .. Len(r.q) : r.q[i].type = "SPECIAL" => r.q[i].left = SpecialDue(r.count)
          /\ r.count + n < Half
        BY <1>1, <2>2 DEF Turned, Lapsing
    <3>2. r.count + n \in Counts /\ r.count < Half
        BY <1>1, <3>1, ModulusTypes DEF Counts
    <3>3. s.count = r.count + n
        BY <1>2, <3>2, ResidueIsItself
    <3>4. SpecialDue(s.count) = SpecialDue(r.count) - n
        BY <1>1, <3>1, <3>2, <3>3, ModulusTypes DEF SpecialDue
    <3>5. \A i \in 1 .. Len(s.q) : s.q[i].type = "SPECIAL" => s.q[i].left = SpecialDue(s.count)
        BY <1>2, <3>1, <3>4
    <3> QED BY <3>5 DEF Turned
  <2> QED BY <2>1, <2>2
<1>8. PICK z \in Turns : Ordered(r.q, z) /\ Framed(r.q, z, r.cycle, CountPerOp)
    BY DEF Level
<1>9. \A i \in 1 .. Len(r.q) : /\ Key(z, r.q[i]) \in Int
                               /\ Key(z, s.q[i]) = Key(z, r.q[i]) - n
  <2> SUFFICES ASSUME NEW i \in 1 .. Len(r.q)
               PROVE  /\ Key(z, r.q[i]) \in Int
                      /\ Key(z, s.q[i]) = Key(z, r.q[i]) - n
      OBVIOUS
  <2>1. s.q[i].type = r.q[i].type /\ s.q[i].left = r.q[i].left - n
      BY <1>2
  <2>2. r.q[i].left \in Int /\ z \in Int /\ Key(z, r.q[i]) \in Int
      BY <1>1, EntryFields, KeyTypes
  <2> QED BY <2>1, <2>2 DEF Key
<1>10. Ordered(s.q, z)
    BY <1>2, <1>8, <1>9 DEF Ordered
<1>11. Framed(s.q, z, s.cycle, 0)
  <2> SUFFICES ASSUME NEW i \in 1 .. Len(s.q)
               PROVE  /\ -s.cycle <= Key(z, s.q[i])
                      /\ Key(z, s.q[i]) <= Modulus - 1 + 0 - Overdue(s.cycle + 0)
      BY DEF Framed
  <2> DEFINE k == Key(z, r.q[i])
  <2>1. /\ k \in Int /\ Key(z, s.q[i]) = k - n
        /\ -r.cycle <= k /\ k <= Modulus - 1 + CountPerOp - Overdue(r.cycle + CountPerOp)
      BY <1>2, <1>8, <1>9 DEF Framed
  <2> HIDE DEF k
  <2>2. CountPerOp \in Nat /\ Modulus \in Int
      BY BoundTypes, ModulusTypes
  <2> QED BY <1>1, <1>3, <2>1, <2>2 DEF Overdue
<1>12. Level(s, 0)
  <2>1. \E y \in Turns : Ordered(s.q, y) /\ Framed(s.q, y, s.cycle, 0)
      BY <1>10, <1>11
  <2> QED BY <1>4, <1>5, <1>6, <1>7, <2>1 DEF Level
<1> QED BY <1>2, <1>3, <1>12 DEF s

(* The same with a CHECK in front. *)
LEMMA LapsedFirst ==
    ASSUME NEW r, CheckFirst(r, CountPerOp), NEW n \in Nat, n >= CountPerOp, Lapsing(r, n),
           remove_interrupt_event(r).cycle + n < Half, n - First(r).left < Half
    PROVE  LET s == Lapsed(r, n)
           IN /\ CheckFirst(s, 0) /\ Aside(s) = Aside(r)
              /\ First(s).left = First(r).left - n
              /\ remove_interrupt_event(s).cycle = remove_interrupt_event(r).cycle + n
<1> DEFINE s == Lapsed(r, n)  a == remove_interrupt_event(r)
           l == Lapsed(a, n)  b == remove_interrupt_event(s)
<1>1. /\ Whole(r) /\ Sound(r) /\ Current(r) /\ r.q \in Queues /\ Len(r.q) \in Nat
      /\ 1 \in 1 .. Len(r.q) /\ First(r).type = "CHECK" /\ Level(a, CountPerOp)
    BY SoundFields, FirstDue DEF CheckFirst, Whole
<1>2. /\ Sound(s) /\ Current(s) /\ Aside(s) = Aside(r) /\ s.count = (r.count + n) % Modulus
      /\ Len(s.q) = Len(r.q)
      /\ \A i \in 1 .. Len(r.q) : /\ s.q[i].type = r.q[i].type
                                  /\ s.q[i].left = r.q[i].left - n
      /\ \A t : Has(s.q, t) <=> Has(r.q, t)
    BY <1>1, LapsedSound DEF Lapsing
<1>3. Whole(s)
    BY <1>1, <1>2 DEF Whole
<1>4. First(s).type = "CHECK" /\ First(s).left = First(r).left - n
    BY <1>1, <1>2 DEF First
<1>5. /\ a.q = Tail(r.q) /\ Dropped(r.q, 1, a.q) /\ a.count = r.count /\ Aside(a) = Aside(r)
      /\ a.q \in Queues /\ Len(a.q) = Len(r.q) - 1 /\ r.q # << >>
  <2>1. r.q # << >>
      BY <1>1 DEF Current
  <2> QED BY <1>1, <2>1, RemoveFirstSound, LevelFields
<1>6. /\ b.q = Tail(s.q) /\ Dropped(s.q, 1, b.q) /\ b.count = s.count /\ Aside(b) = Aside(s)
      /\ b.q \in Queues /\ b.cycle = CycleOf(b, b.q) /\ Sound(b) /\ b \in Machines
  <2>1. s.q # << >>
      BY <1>2 DEF Current
  <2> QED BY <1>2, <2>1, RemoveFirstSound, SoundFields
<1>7. Lapsing(a, n)
  <2>1. \A i \in 1 .. Len(a.q) : i + 1 \in 1 .. Len(r.q) /\ a.q[i] = r.q[i + 1]
      BY <1>1, <1>5 DEF Dropped
  <2>2. Has(r.q, "VI") => Has(a.q, "VI")
    <3>1. r.q[1].type # "VI"
        BY <1>1 DEF First
    <3> QED BY <1>1, <1>5, <3>1, DroppedTypes
  <2> QED BY <1>5, <2>1, <2>2 DEF Lapsing
<1>8. /\ Level(l, 0) /\ l.cycle = a.cycle + n /\ Aside(l) = Aside(a)
    BY <1>1, <1>7, LapsedLevel
<1>9. /\ l.count = (a.count + n) % Modulus /\ l.q = [i \in 1 .. Len(a.q) |-> [a.q[i] EXCEPT !.left = @ - n]]
      /\ s.q = [i \in 1 .. Len(r.q) |-> [r.q[i] EXCEPT !.left = @ - n]]
  <2>1. a \in Machines /\ r \in Machines
      BY <1>1, LevelFields, SoundFields
  <2> HIDE DEF a
  <2> QED BY <2>1 DEF Lapsed, Machines
<1> HIDE DEF s, l, a, b
<1>10. b.q = l.q
  <2>1. l.q \in Seq(Entries) /\ b.q \in Seq(Entries) /\ s.q \in Queues /\ l \in Machines
      BY <1>2, <1>6, <1>8, LevelFields, SoundFields DEF Queues
  <2>2. Len(l.q) = Len(a.q) /\ Len(a.q) \in Nat
    <3>1. DOMAIN l.q = 1 .. Len(l.q) /\ Len(l.q) \in Nat
        BY <2>1, LenProperties
    <3>2. Len(a.q) \in Nat
        BY <1>1, LevelFields
    <3>3. DOMAIN l.q = 1 .. Len(a.q)
        BY <1>9
    <3> QED BY <3>1, <3>2, <3>3
  <2>3. Len(b.q) = Len(l.q)
      BY <1>2, <1>5, <1>6, <2>2 DEF Dropped
  <2>4. ASSUME NEW i \in 1 .. Len(b.q) PROVE b.q[i] = l.q[i]
    <3>1. i \in 1 .. Len(a.q) /\ i + 1 \in 1 .. Len(r.q) /\ i + 1 \in 1 .. Len(s.q) /\ ~(i < 1)
        BY <1>2, <1>5, <2>2, <2>3
    <3>2. a.q[i] = r.q[i + 1] /\ b.q[i] = s.q[i + 1]
        BY <1>5, <1>6, <3>1 DEF Dropped
    <3>3. l.q[i] = [a.q[i] EXCEPT !.left = @ - n] /\ s.q[i + 1] = [r.q[i + 1] EXCEPT !.left = @ - n]
        BY <1>9, <3>1
    <3> QED BY <3>2, <3>3
  <2> QED BY <2>1, <2>3, <2>4, SeqEqual
<1>11. l.count = s.count
    BY <1>2, <1>5, <1>9
<1>12. l.cycle = CycleOf(l, l.q)
    BY <1>8, LevelFields DEF Current
<1>13. SameClock(l, b) /\ b.busy = l.busy
  <2>1. b.cycle = l.cycle
      BY <1>6, <1>10, <1>11, <1>12 DEF CycleOf
  <2>2. b.busy = l.busy
      BY <1>2, <1>5, <1>6, <1>8 DEF Aside
  <2> QED BY <1>6, <1>10, <1>11, <2>1, <2>2 DEF SameClock
<1>14. Level(b, 0)
    BY <1>6, <1>8, <1>13, SameClockLevel
<1>15. CheckFirst(s, 0)
    BY <1>3, <1>4, <1>14 DEF CheckFirst, b
<1>16. b.cycle = a.cycle + n
    BY <1>8, <1>13 DEF SameClock
<1> QED BY <1>2, <1>4, <1>15, <1>16 DEF s, a, b


(* r4300_check_interrupt leaves nothing pending without a CHECK. *)
LEMMA CheckRules ==
    ASSUME NEW r, Level(r, CountPerOp), r.cycle <= MaxLate
    PROVE  LET s == Check(r)
           IN /\ s.disciplined = r.disciplined
              /\ \/ SameClock(r, s) /\ s.busy = r.busy /\ s.exl = r.exl /\ Open(s)
                 \/ /\ Held(s) /\ First(s).left = 0 /\ Inserted(r.q, 1, s.q[1], s.q)
                    /\ SameClock(r, remove_interrupt_event(s))
<1> DEFINE s == Check(r)  a == remove_interrupt_event(s)
<1>1. /\ Whole(r) /\ r \in Machines /\ r.q \in Queues /\ Len(r.q) < Capacity /\ Len(r.q) \in Nat
      /\ r.cycle = CycleOf(r, r.q) /\ Capacity \in Nat /\ r.cycle \in Int
    BY LevelFields, BoundTypes DEF Current
<1>2. /\ Whole(s) /\ s.disciplined = r.disciplined /\ s.busy = r.busy
      /\ s.count = r.count /\ s.exl = r.exl
      /\ \/ SameClock(r, s) /\ (Pending(s) => Len(r.q) >= Capacity)
         \/ /\ s.q[1] = Event("CHECK", r.count, 0)
            /\ Inserted(r.q, 1, s.q[1], s.q)
    BY <1>1, CheckWhole
<1> HIDE DEF s
<1>3. s \in Machines /\ s.q \in Queues
    BY <1>2, SoundFields DEF Whole
<1>4. CASE SameClock(r, s) /\ (Pending(s) => Len(r.q) >= Capacity)
  <2>1. ~Pending(s)
      BY <1>1, <1>4
  <2>2. Level(s, CountPerOp)
      BY <1>2, <1>3, <1>4, SameClockLevel
  <2>3. s.cycle <= Slack
    <3>1. s.cycle = r.cycle
        BY <1>4 DEF SameClock
    <3> QED BY <1>1, <3>1, SlackTypes, BoundTypes
  <2> QED BY <1>2, <1>4, <2>1, <2>2, <2>3 DEF Open, s
<1>5. CASE s.q[1] = Event("CHECK", r.count, 0) /\ Inserted(r.q, 1, s.q[1], s.q)
  <2>1. /\ First(s).type = "CHECK" /\ First(s).left = 0
      BY <1>5 DEF First, Event
  <2>2. /\ a \in Machines /\ a.q \in Queues /\ a.count = s.count /\ Aside(a) = Aside(s)
        /\ a.cycle = CycleOf(a, a.q) /\ Len(a.q) = Len(s.q) - 1 /\ Dropped(s.q, 1, a.q)
      BY <1>2, FirstTaken, SoundFields
  <2> HIDE DEF a
  <2>3. a.q = r.q
    <3>1. Len(s.q) = Len(r.q) + 1 /\ Len(a.q) = Len(r.q)
        BY <1>1, <1>5, <2>2 DEF Inserted
    <3>2. ASSUME NEW i \in 1 .. Len(a.q) PROVE a.q[i] = r.q[i]
      <4>1. a.q[i] = s.q[i + 1] /\ i + 1 \in 1 .. Len(s.q)
          BY <1>1, <2>2, <3>1, <3>2 DEF Dropped
      <4>2. s.q[i + 1] = r.q[(i + 1) - 1] /\ (i + 1) - 1 = i
          BY <1>1, <1>5, <3>1, <4>1 DEF Inserted
      <4> QED BY <4>1, <4>2
    <3>3. a.q \in Seq(Entries) /\ r.q \in Seq(Entries)
        BY <1>1, <2>2 DEF Queues
    <3> QED BY <3>1, <3>2, <3>3, SeqEqual
  <2>4. SameClock(r, a) /\ a.busy = r.busy
      BY <1>1, <1>2, <2>2, <2>3 DEF SameClock, CycleOf, Aside
  <2>5. Level(a, CountPerOp)
      BY <2>2, <2>4, SameClockLevel
  <2>6. a.cycle <= MaxLate - First(s).left /\ -MaxLate <= First(s).left
    <3>1. a.cycle = r.cycle
        BY <2>4 DEF SameClock
    <3> QED BY <1>1, <2>1, <3>1, BoundTypes
  <2>7. Held(s)
      BY <1>2, <2>1, <2>5, <2>6 DEF Held, CheckFirst, a
  <2> QED BY <1>2, <1>5, <2>1, <2>4, <2>7 DEF s, a
<1> QED BY <1>2, <1>4, <1>5

(* check_int_handler: the CHECK is taken and the CPU enters the exception. *)
LEMMA GenCheck ==
    ASSUME NEW r, CheckFirst(r, CountPerOp), remove_interrupt_event(r).cycle <= Slack,
           NEW s \in gen_interrupt(r)
    PROVE  Open(s) /\ s.disciplined = r.disciplined
<1> DEFINE a == remove_interrupt_event(r)
<1>1. Whole(r) /\ First(r).type = "CHECK" /\ Level(a, CountPerOp)
    BY DEF CheckFirst
<1>2. a \in Machines /\ Aside(a) = Aside(r)
    BY <1>1, FirstTaken, SoundFields
<1> HIDE DEF a
<1>3. s = [a EXCEPT !.exl = TRUE]
    BY <1>1 DEF gen_interrupt, TakeCheck, a
<1>4. /\ s \in Machines /\ SameClock(a, s) /\ s.busy = a.busy /\ s.exl
      /\ s.disciplined = a.disciplined
    BY <1>2, <1>3 DEF Machines, SameClock
<1>5. Level(s, CountPerOp)
    BY <1>1, <1>4, SameClockLevel
<1>6. ~Pending(s)
    BY <1>4 DEF Pending
<1>7. s.cycle <= Slack
    BY <1>4 DEF SameClock, a
<1>8. s.disciplined = r.disciplined
    BY <1>2, <1>4 DEF Aside
<1> QED BY <1>5, <1>6, <1>7, <1>8 DEF Open

(* What an entry put in or taken out leaves of the rules *)
LEMMA TurnedInserted ==
    ASSUME NEW q \in Queues, NEW e \in Entries, NEW p, NEW q2 \in Queues,
           Inserted(q, p, e, q2), NEW c, Turned(c, q),
           e.type = "SPECIAL" => e.left = SpecialDue(c)
    PROVE  Turned(c, q2)
<1>1. CASE Has(q, "VI")
  <2>1. Has(q2, "VI")
      BY <1>1, InsertedTypes
  <2> QED BY <2>1 DEF Turned
<1>2. CASE ~Has(q, "VI")
  <2>1. \A i \in 1 .. Len(q) : q[i].type = "SPECIAL" => q[i].left = SpecialDue(c)
      BY <1>2 DEF Turned
  <2>2. ASSUME NEW i \in 1 .. Len(q2), q2[i].type = "SPECIAL"
        PROVE  q2[i].left = SpecialDue(c)
    <3>1. \/ i = p /\ q2[p] = e
          \/ i \in 1 .. Len(q) /\ q2[i] = q[i]
          \/ i - 1 \in 1 .. Len(q) /\ q2[i] = q[i - 1]
        BY InsertedEntries
    <3> QED BY <2>1, <2>2, <3>1
  <2> QED BY <2>2 DEF Turned
<1> QED BY <1>1, <1>2

LEMMA TurnedDropped ==
    ASSUME NEW q \in Queues, NEW p, NEW q2 \in Queues, Dropped(q, p, q2),
           NEW c, Turned(c, q), q[p].type # "VI"
    PROVE  Turned(c, q2)
<1>1. CASE Has(q, "VI")
  <2>1. Has(q2, "VI")
      BY <1>1, DroppedTypes
  <2> QED BY <2>1 DEF Turned
<1>2. CASE ~Has(q, "VI")
  <2>1. \A i \in 1 .. Len(q) : q[i].type = "SPECIAL" => q[i].left = SpecialDue(c)
      BY <1>2 DEF Turned
  <2>2. ASSUME NEW i \in 1 .. Len(q2), q2[i].type = "SPECIAL"
        PROVE  q2[i].left = SpecialDue(c)
    <3>1. \/ i \in 1 .. Len(q) /\ q2[i] = q[i]
          \/ i + 1 \in 1 .. Len(q) /\ q2[i] = q[i + 1]
        BY DroppedEntries
    <3> QED BY <2>1, <2>2, <3>1
  <2> QED BY <2>2 DEF Turned
<1> QED BY <1>1, <1>2


Tidy(r) == (\A t : AtMostOne(r.q, t)) /\ ~Has(r.q, "CHECK") /\ Turned(r.count, r.q)

LEMMA TidyInserted ==
    ASSUME NEW r, r.q \in Queues, Tidy(r), NEW e \in Entries, NEW s, s.q \in Queues,
           s.count = r.count, \E p : Inserted(r.q, p, e, s.q),
           ~Has(r.q, e.type), e.type # "CHECK",
           e.type = "SPECIAL" => e.left = SpecialDue(r.count)
    PROVE  Tidy(s)
<1>1. PICK p : Inserted(r.q, p, e, s.q)
    OBVIOUS
<1>2. (\A t : AtMostOne(s.q, t)) /\ ~Has(s.q, "CHECK")
  <2>1. /\ \A t : Has(s.q, t) <=> Has(r.q, t) \/ t = e.type
        /\ \A t : AtMostOne(r.q, t) /\ (t # e.type \/ ~Has(r.q, t)) => AtMostOne(s.q, t)
      BY <1>1, InsertedTypes
  <2> QED BY <2>1, Zenon DEF Tidy
<1>3. Turned(r.count, s.q)
    BY <1>1, TurnedInserted DEF Tidy
<1> QED BY <1>2, <1>3 DEF Tidy

LEMMA TidyDropped ==
    ASSUME NEW r, r.q \in Queues, Tidy(r), NEW s, s.q \in Queues,
           s.count = r.count, NEW p, Dropped(r.q, p, s.q), r.q[p].type # "VI"
    PROVE  Tidy(s)
<1>1. (\A t : AtMostOne(s.q, t)) /\ ~Has(s.q, "CHECK")
  <2>1. /\ \A t : Has(s.q, t) => Has(r.q, t)
        /\ \A t : AtMostOne(r.q, t) => AtMostOne(s.q, t)
      BY DroppedTypes
  <2> QED BY <2>1, Zenon DEF Tidy
<1>2. Turned(r.count, s.q)
    BY TurnedDropped DEF Tidy
<1> QED BY <1>1, <1>2 DEF Tidy

LEMMA RaisedOpen ==
    ASSUME NEW r, Level(r, CountPerOp), r.cycle <= Slack, NEW s \in Machines,
           SameClock(r, s), s.busy = r.busy, ~Pending(s)
    PROVE  Open(s)
<1>1. Level(s, CountPerOp)
    BY SameClockLevel
<1> QED BY <1>1 DEF Open, SameClock

(* A handler leaves the machine level, and its interrupt taken or not      *)
(* pending.                                                                *)
LEMMA GenOpen ==
    ASSUME NEW r, Level(r, 0), ~Pending(r), r.cycle >= 0, r.cycle <= MaxLate,
           -MaxLate <= First(r).left, NEW s \in gen_interrupt(r)
    PROVE  Open(s)
<1> DEFINE a == remove_interrupt_event(r)  t == First(r).type
<1>1. /\ Whole(r) /\ r \in Machines /\ r.q \in Queues /\ r.cycle \in Int /\ Len(r.q) \in Nat
      /\ ~Has(r.q, "CHECK") /\ Has(r.q, "SPECIAL") /\ Has(r.q, "COMPARE")
      /\ BusyQueued(r) /\ \A u : AtMostOne(r.q, u)
    BY LevelFields
<1>2. /\ 1 \in 1 .. Len(r.q) /\ First(r) = r.q[1] /\ t \in Types /\ First(r).left \in Int
      /\ t = "COMPARE" \/ First(r).left <= 0
    BY <1>1, FirstDue
<1>3. t # "CHECK"
    BY <1>1, <1>2 DEF Has
<1>4. /\ Sound(a) /\ a.count = r.count /\ Aside(a) = Aside(r) /\ Len(a.q) < Capacity
      /\ a.cycle = CycleOf(a, a.q) /\ Dropped(r.q, 1, a.q)
      /\ \A u : u # t => (Has(a.q, u) <=> Has(r.q, u))
      /\ ~Has(a.q, t)
    BY <1>1, FirstTaken
<1>5. /\ a \in Machines /\ a.q \in Queues /\ a.cycle \in Int /\ a.count \in Counts
      /\ a.busy = r.busy /\ a.disciplined = r.disciplined /\ a.compare = r.compare
      /\ a.compare \in Counts /\ a.exl = r.exl /\ a.enabled = r.enabled /\ a.ip = r.ip
  <2>1. a \in Machines /\ a.q \in Queues
      BY <1>4, SoundFields
  <2>2. /\ a.busy = r.busy /\ a.disciplined = r.disciplined /\ a.compare = r.compare
        /\ a.exl = r.exl /\ a.enabled = r.enabled /\ a.ip = r.ip
      BY <1>4 DEF Aside
  <2> QED BY <2>1, <2>2, MachineFields
<1> HIDE DEF a
<1>6. Tidy(r)
    BY LevelFields DEF Tidy
<1>7. t # "VI" => Tidy(a)
    BY <1>1, <1>2, <1>4, <1>5, <1>6, TidyDropped
<1>8. t = "SPECIAL" => Has(r.q, "VI")
  <2> SUFFICES ASSUME t = "SPECIAL", ~Has(r.q, "VI") PROVE FALSE
      OBVIOUS
  <2>1. First(r).left = SpecialDue(r.count)
      BY <1>2, <1>6 DEF Tidy, Turned
  <2>2. SpecialDue(r.count) > 0
    <3>1. r.count \in Counts
        BY <1>1, MachineFields
    <3> QED BY <3>1, ModulusTypes DEF SpecialDue, Counts
  <2> QED BY <1>2, <2>1, <2>2
<1>9. PICK u : u # "COMPARE" /\ Has(a.q, u)
  <2>1. CASE t = "SPECIAL"
      BY <1>4, <1>8, <2>1
  <2>2. CASE t # "SPECIAL"
      BY <1>1, <1>4, <2>2
  <2> QED BY <2>1, <2>2
<1>10. Current(a)
  <2>1. a.q # << >>
      BY <1>9 DEF Has
  <2> QED BY <1>4, <2>1 DEF Current
<1>11. PICK z \in Turns : Ordered(r.q, z) /\ Framed(r.q, z, r.cycle, 0)
    BY DEF Level
<1>12. /\ Ordered(a.q, z) /\ Framed(a.q, z, a.cycle, 0) /\ a.cycle <= r.cycle
       /\ AllKeyed(a.q, z, Overdue(a.cycle), 0)
  <2>1. AllKeyed(r.q, z, Overdue(r.cycle), 0)
      BY <1>1, <1>11, FramedKeyed
  <2>2. Ordered(a.q, z) /\ AllKeyed(a.q, z, Overdue(r.cycle), 0)
      BY <1>1, <1>4, <1>5, <1>11, <2>1, DroppedOrdered
  <2>3. Overdue(r.cycle) = r.cycle /\ r.cycle \in Nat /\ r.cycle < Half /\ r.cycle - 0 = r.cycle
    <3>1. r.cycle \in Nat
        BY <1>1
    <3> QED BY <3>1, SlackTypes DEF Overdue
  <2>4. Framed(a.q, z, a.cycle, 0) /\ a.cycle <= r.cycle - 0
      BY <1>4, <1>9, <1>10, <2>2, <2>3, Settles
  <2> QED BY <1>5, <2>2, <2>3, <2>4, FramedKeyed
<1>13. Overdue(a.cycle) \in Nat /\ Overdue(a.cycle) < Half /\ Overdue(a.cycle) <= MaxLate
       /\ a.cycle <= Slack /\ MaxLate <= Slack
    BY <1>1, <1>5, <1>12, SlackTypes DEF Overdue
<1>14. ASSUME NEW b \in Machines, Aside(b) = Aside(a) PROVE ~Pending(b) /\ b.busy = r.busy
    BY <1>5, <1>14 DEF Pending, Aside
<1>15. CASE t = "VI"
  <2> DEFINE e == ViEvent(r)  b == Add(a, e)
  <2>1. s \in RaiseRcp(b)
      BY <1>15 DEF gen_interrupt, TakeVi, ViEvent, a
  <2>2. /\ e \in Entries /\ e.type = "VI" /\ TimedAt(a.count, e)
        /\ e.left = First(r).left + ViDelay
      BY <1>1, <1>4, <1>15, ViTimed
  <2>3. -Overdue(a.cycle) <= e.left
      BY <1>2, <1>13, <2>2, BoundTypes
  <2> HIDE DEF e
  <2>4. /\ Sound(b) /\ Current(b) /\ b.count = a.count /\ Aside(b) = Aside(a)
        /\ \E p : Inserted(a.q, p, e, b.q)
        /\ \A v : Has(b.q, v) <=> Has(a.q, v) \/ v = e.type
        /\ Ordered(b.q, z) /\ Framed(b.q, z, b.cycle, 0)
        /\ b.cycle <= Overdue(a.cycle)
      BY <1>4, <1>12, <1>13, <1>15, <2>2, <2>3, AddLevels
  <2> HIDE DEF b
  <2>5. b \in Machines /\ b.q \in Queues /\ b.cycle \in Int
      BY <2>4, SoundFields, MachineFields
  <2>6. Whole(b)
      BY <1>1, <1>4, <1>15, <2>4 DEF Whole
  <2>7. (\A v : AtMostOne(b.q, v)) /\ ~Has(b.q, "CHECK")
    <3>1. \A v : AtMostOne(a.q, v)
        BY <1>1, <1>4, <1>5, DroppedTypes
    <3>2. PICK p : Inserted(a.q, p, e, b.q)
        BY <2>4
    <3>3. \A v : AtMostOne(a.q, v) /\ (v # e.type \/ ~Has(a.q, v)) => AtMostOne(b.q, v)
        BY <1>5, <2>2, <2>5, <3>2, InsertedTypes
    <3> QED BY <1>1, <1>4, <1>15, <2>2, <2>4, <3>1, <3>3
  <2>8. BusyQueued(b) /\ Turned(b.count, b.q)
      BY <1>1, <1>4, <1>14, <1>15, <2>2, <2>4, <2>5 DEF BusyQueued, Turned
  <2>9. Level(b, 0)
      BY <1>11, <2>4, <2>6, <2>7, <2>8 DEF Level
  <2>10. s \in Machines /\ SameClock(b, s) /\ s.busy = b.busy /\ (Pending(s) => Pending(b))
      BY <2>1, <2>5, RaiseRcpTypes
  <2>11. ~Pending(b)
      BY <1>14, <2>4, <2>5
  <2>12. b.cycle <= Slack
      BY <1>13, <2>4, <2>5, SlackTypes, BoundTypes
  <2> QED BY <2>9, <2>10, <2>11, <2>12, LevelAhead, RaisedOpen
<1>16. CASE t = "COMPARE"
  <2> DEFINE e == CompareEvent(a, r.compare)  b == AddCompare(a, r.compare)
  <2>1. s = Raise(b, "timer")
      BY <1>16 DEF gen_interrupt, TakeCompare, a
  <2>2. /\ Sound(b) /\ Current(b) /\ b.count = a.count /\ Aside(b) = Aside(a)
        /\ \E p : Inserted(a.q, p, e, b.q)
        /\ \A v : Has(b.q, v) <=> Has(a.q, v) \/ v = "COMPARE"
      BY <1>4, <1>5, <1>16, AddCompareSound
  <2>3. /\ \E y \in Turns : Ordered(b.q, y) /\ Framed(b.q, y, b.cycle, CountPerOp)
        /\ b.cycle <= Overdue(a.cycle)
      BY <1>4, <1>5, <1>9, <1>11, <1>12, <1>13, <1>16, AddCompareLevels
  <2>4. e \in Entries /\ e.type = "COMPARE"
      BY <1>5, CompareTimed
  <2> HIDE DEF b, e
  <2>5. b \in Machines /\ b.q \in Queues /\ b.cycle \in Int
      BY <2>2, SoundFields, MachineFields
  <2>6. Whole(b)
      BY <1>1, <1>4, <1>16, <2>2 DEF Whole
  <2>7. Tidy(b)
      BY <1>4, <1>5, <1>7, <1>16, <2>2, <2>4, <2>5, TidyInserted
  <2>8. BusyQueued(b)
      BY <1>1, <1>4, <1>14, <1>16, <2>2, <2>5 DEF BusyQueued
  <2>9. Level(b, CountPerOp)
      BY <2>3, <2>6, <2>7, <2>8 DEF Level, Tidy
  <2>10. s \in Machines /\ SameClock(b, s) /\ s.busy = b.busy /\ ~Pending(s)
    <3>1. "timer" \in Lines
        BY DEF Lines
    <3> QED BY <2>1, <2>5, <3>1, RaiseTypes
  <2>11. b.cycle <= Slack
      BY <1>13, <2>3, <2>5, SlackTypes, BoundTypes
  <2> QED BY <2>9, <2>10, <2>11, RaisedOpen
<1>17. CASE t = "SPECIAL"
  <2> DEFINE e == SpecialEvent(a)  b == AddSpecial(a)
  <2>1. s = b
      BY <1>17 DEF gen_interrupt, TakeSpecial, a
  <2>2. /\ b = Add(a, e) /\ e \in Entries /\ e.type = "SPECIAL" /\ e.left \in 1 .. Half
        /\ e.left = SpecialDue(a.count) /\ TimedAt(a.count, e)
      BY <1>5, SpecialTimed DEF SpecialDue
  <2>3. -Overdue(a.cycle) <= e.left
      BY <1>13, <2>2, ModulusTypes
  <2> HIDE DEF e, b
  <2>4. /\ Sound(b) /\ Current(b) /\ b.count = a.count /\ Aside(b) = Aside(a)
        /\ \E p : Inserted(a.q, p, e, b.q)
        /\ \A v : Has(b.q, v) <=> Has(a.q, v) \/ v = e.type
        /\ Ordered(b.q, z) /\ Framed(b.q, z, b.cycle, 0)
        /\ b.cycle <= Overdue(a.cycle)
      BY <1>4, <1>12, <1>13, <1>17, <2>2, <2>3, AddLevels
  <2>5. b \in Machines /\ b.q \in Queues /\ b.cycle \in Int
      BY <2>4, SoundFields, MachineFields
  <2>6. Whole(b)
      BY <1>1, <1>4, <1>17, <2>2, <2>4 DEF Whole
  <2>7. Tidy(b)
      BY <1>4, <1>5, <1>7, <1>17, <2>2, <2>4, <2>5, TidyInserted
  <2>8. BusyQueued(b)
      BY <1>1, <1>4, <1>14, <1>17, <2>2, <2>4, <2>5 DEF BusyQueued
  <2>9. Level(b, 0)
      BY <1>11, <2>4, <2>6, <2>7, <2>8 DEF Level, Tidy
  <2>10. b.cycle <= Slack
      BY <1>13, <2>4, <2>5, SlackTypes, BoundTypes
  <2>11. ~Pending(b)
      BY <1>14, <2>4, <2>5
  <2> QED BY <2>1, <2>9, <2>10, <2>11, LevelAhead DEF Open
<1>18. CASE t = "PI"
  <2> DEFINE b == [a EXCEPT !.busy = FALSE]
  <2>1. s \in RaiseRcp(b)
      BY <1>18 DEF gen_interrupt, TakePi, a
  <2>2. /\ b \in Machines /\ SameClock(a, b) /\ b.busy = FALSE /\ b.exl = a.exl
        /\ b.enabled = a.enabled /\ b.ip = a.ip
      BY <1>5 DEF Machines, SameClock
  <2> HIDE DEF b
  <2>3. Whole(b)
    <3>1. Whole(a)
        BY <1>1, <1>4, <1>10, <1>18 DEF Whole
    <3> QED BY <2>2, <3>1, SameClockWhole
  <2>4. BusyQueued(b)
      BY <1>4, <1>18, <2>2 DEF BusyQueued, SameClock
  <2>5. Level(b, 0)
    <3>1. /\ b.q = a.q /\ b.count = a.count /\ b.cycle = a.cycle
        BY <2>2 DEF SameClock
    <3>2. Tidy(a)
        BY <1>7, <1>18
    <3> QED BY <1>11, <1>12, <2>3, <2>4, <3>1, <3>2 DEF Level, Tidy
  <2>6. s \in Machines /\ SameClock(b, s) /\ s.busy = b.busy /\ (Pending(s) => Pending(b))
      BY <2>1, <2>2, RaiseRcpTypes
  <2>7. ~Pending(b)
      BY <1>5, <2>2 DEF Pending
  <2>8. b.cycle <= Slack
      BY <1>13, <2>2 DEF SameClock
  <2> QED BY <2>5, <2>6, <2>7, <2>8, LevelAhead, RaisedOpen
<1> QED BY <1>2, <1>3, <1>15, <1>16, <1>17, <1>18 DEF Types


-----------------------------------------------------------------------------
(***************************************************************************)
(* The queue is loaded in the order it was saved in, but for the timer,    *)
(* whose event may be taken for the match in the turn before.  The first   *)
(* event keeps its key.                                                    *)
(***************************************************************************)
LEMMA LoadKeys ==
    ASSUME NEW r, Level(r, CountPerOp), r.cycle <= Slack
    PROVE  \E y \in Turns : /\ AllKeyed(r.q, y, Overdue(r.cycle), 0)
                            /\ Key(y, r.q[1]) = -r.cycle
<1> DEFINE b == Overdue(r.cycle)
<1>1. /\ Sound(r) /\ Current(r) /\ r.q \in Queues /\ r.cycle \in Int /\ Has(r.q, "SPECIAL")
      /\ \A t : AtMostOne(r.q, t)
      /\ r.cycle \in -Half .. Half - 1
    BY LevelFields, MachineFields
<1>2. b \in Nat /\ b < Half /\ r.cycle < Half /\ -b <= -r.cycle
    BY <1>1, SlackTypes DEF Overdue
<1>3. PICK z \in Turns : Ordered(r.q, z) /\ Framed(r.q, z, r.cycle, CountPerOp)
    BY DEF Level
<1>4. 1 \in 1 .. Len(r.q) /\ Key(z, r.q[1]) = -r.cycle
  <2>1. 1 \in 1 .. Len(r.q)
      BY <1>1 DEF Current, Queues
  <2>2. -r.cycle <= Key(z, r.q[1])
      BY <1>3, <2>1 DEF Framed
  <2>3. r.cycle = -Key(z, r.q[1]) /\ Key(z, r.q[1]) \in Int
      BY <1>1, <1>2, <1>3, <2>2, HeadCycle
  <2> QED BY <2>1, <2>3
<1> HIDE DEF b
<1>5. ASSUME NEW i \in 1 .. Len(r.q)
      PROVE  /\ r.q[i] \in Entries /\ Key(z, r.q[i]) \in Int /\ r.q[i].left \in Int
             /\ TimedAt(r.count, r.q[i]) /\ -b <= Key(z, r.q[i])
  <2>1. r.q[i] \in Entries /\ Key(z, r.q[i]) \in Int /\ r.q[i].left \in Int
      BY <1>1, EntryFields, KeyTypes
  <2>2. TimedAt(r.count, r.q[i]) /\ -r.cycle <= Key(z, r.q[i])
      BY <1>1, <1>3, SoundFields DEF Framed
  <2> QED BY <1>1, <1>2, <2>1, <2>2
<1>6. ASSUME NEW i \in 1 .. Len(r.q), r.q[i].type # "COMPARE", NEW y \in Turns
      PROVE  Keyed(r.q[i], y, b, 0) /\ Key(y, r.q[i]) = Key(z, r.q[i])
  <2>1. r.q[i].left <= Half
      BY <1>5, <1>6 DEF TimedAt, InReach
  <2>2. Key(y, r.q[i]) = r.q[i].left /\ Key(z, r.q[i]) = r.q[i].left
      BY <1>5, <1>6, KeyTypes
  <2> QED BY <1>2, <1>5, <2>1, <2>2, ModulusTypes DEF Keyed
<1>7. CASE AllKeyed(r.q, z, b, 0)
    BY <1>4, <1>7 DEF b
<1>8. CASE ~AllKeyed(r.q, z, b, 0)
  <2>1. PICK i \in 1 .. Len(r.q) : ~Keyed(r.q[i], z, b, 0)
      BY <1>8 DEF AllKeyed
  <2>2. r.q[i].type = "COMPARE"
      BY <1>6, <2>1
  <2>3. PICK y \in Turns : Keyed(r.q[i], y, b, 0)
    <3>1. -b <= r.q[i].left - 0
      <4>1. Key(z, r.q[i]) <= r.q[i].left
          BY <1>5, ModulusTypes DEF Key, Turns
      <4> QED BY <1>2, <1>5, <4>1
    <3>2. r.q[i].left - 0 < 2 * Modulus - b
      <4>1. r.q[i].left <= Modulus - 1 + CountPerOp
          BY <1>5, <2>2 DEF TimedAt, InReach
      <4> QED BY <1>2, <1>5, <4>1, ModulusTypes, SlackTypes, BoundTypes
    <3>3. r.q[i] \in Entries
        BY <1>5
    <3> QED BY <1>2, <2>2, <3>1, <3>2, <3>3, TimerKey
  <2>4. AllKeyed(r.q, y, b, 0)
    <3> SUFFICES ASSUME NEW j \in 1 .. Len(r.q) PROVE Keyed(r.q[j], y, b, 0)
        BY DEF AllKeyed
    <3>1. r.q[j].type = "COMPARE" => j = i
        BY <1>1, <2>2 DEF AtMostOne
    <3> QED BY <1>6, <2>3, <3>1
  <2>5. r.q[1].type # "COMPARE"
    <3> SUFFICES ASSUME r.q[1].type = "COMPARE" PROVE FALSE
        OBVIOUS
    <3>1. i = 1
        BY <1>1, <1>4, <2>2 DEF AtMostOne
    <3>2. Keyed(r.q[1], z, b, 0)
        BY <1>1, <1>2, <1>4, ModulusTypes, SlackTypes DEF Keyed
    <3> QED BY <2>1, <3>1, <3>2
  <2>6. Key(y, r.q[1]) = -r.cycle
      BY <1>4, <1>6, <2>5
  <2> QED BY <2>4, <2>6 DEF b
<1> QED BY <1>7, <1>8


(* The entries added so far are sorted, and the base is what it was. *)
LoadedLevel(r, y, k, x) ==
    /\ LoadedPart(r, k, x) /\ Ordered(x.q, y) /\ AllKeyed(x.q, y, Overdue(r.cycle), 0)
    /\ Overdue(x.cycle) = Overdue(r.cycle)
    /\ k # 0 => \E i \in 1 .. Len(x.q) : x.q[i] = r.q[1]

LEMMA LoadStaysLevel ==
    ASSUME NEW r, Whole(r), r.cycle <= Slack, NEW y \in Turns,
           AllKeyed(r.q, y, Overdue(r.cycle), 0), Key(y, r.q[1]) = -r.cycle,
           NEW k \in 1 .. Len(r.q), NEW x, LoadedLevel(r, y, k - 1, x)
    PROVE  LoadedLevel(r, y, k, Add(x, r.q[k]))
<1> DEFINE e == r.q[k]  s == Add(x, e)  b == Overdue(r.cycle)
<1>1. /\ r \in Machines /\ r.q \in Queues /\ Len(r.q) \in Nat /\ 1 \in 1 .. Len(r.q)
      /\ r.cycle \in Int /\ r.cycle \in -Half .. Half - 1
  <2>1. r \in Machines /\ r.q \in Queues /\ r.q # << >>
      BY SoundFields DEF Whole, Current
  <2>2. 1 \in 1 .. Len(r.q)
      BY <2>1 DEF Queues
  <2> QED BY <2>1, <2>2, MachineFields
<1>2. b \in Nat /\ b < Half /\ -r.cycle <= Half
    BY <1>1, SlackTypes DEF Overdue
<1>3. /\ LoadedPart(r, k - 1, x) /\ Ordered(x.q, y) /\ AllKeyed(x.q, y, b, 0)
      /\ Overdue(x.cycle) = b
      /\ k - 1 # 0 => \E i \in 1 .. Len(x.q) : x.q[i] = r.q[1]
    BY DEF LoadedLevel
<1>4. /\ LoadedPart(r, k, s) /\ e \in Entries /\ TimedAt(x.count, e) /\ Len(x.q) < Capacity
      /\ \E p : Inserted(x.q, p, e, s.q)
    BY <1>3, LoadGoesOn
<1>5. /\ x \in Machines /\ Sound(x) /\ x.q \in Queues
      /\ s \in Machines /\ Sound(s) /\ Current(s) /\ s.q \in Queues /\ s.q # << >>
      /\ s.cycle \in Int
  <2>1. /\ x \in Machines /\ Sound(x) /\ s \in Machines /\ Sound(s) /\ Current(s)
      BY <1>1, <1>3, <1>4 DEF LoadedPart
  <2> QED BY <2>1, MachineFields DEF Current
<1>6. Keyed(e, y, b, 0)
    BY DEF AllKeyed
<1> HIDE DEF b, e
<1>7. Ordered(s.q, y) /\ AllKeyed(s.q, y, b, 0)
  <2>1. ASSUME NEW f \in Entries, TimedAt(x.count, f)
        PROVE  f.count = (x.count + (f.left - 0)) % Modulus
    <3>1. f.left - 0 = f.left
        BY DEF Entries
    <3> QED BY <2>1, <3>1 DEF TimedAt
  <2>2. \A i \in 1 .. Len(x.q) : x.q[i].count = (x.count + (x.q[i].left - 0)) % Modulus
      BY <1>5, <2>1, SoundFields, EntryFields
  <2>3. e.count = (x.count + (e.left - 0)) % Modulus
      BY <1>4, <2>1
  <2>4. /\ Keyed(e, y, Overdue(x.cycle), 0) /\ AllKeyed(x.q, y, Overdue(x.cycle), 0)
        /\ Overdue(x.cycle) = b /\ 0 \in Nat
      BY <1>3, <1>6
  <2> QED BY <1>3, <1>4, <1>5, <2>2, <2>3, <2>4, AddOrders
<1> HIDE DEF s
<1>8. PICK i \in 1 .. Len(s.q) : s.q[i] = r.q[1]
  <2>1. PICK p : Inserted(x.q, p, e, s.q)
      BY <1>4
  <2>2. /\ p \in 1 .. Len(s.q) /\ s.q[p] = e
        /\ \A j \in 1 .. Len(x.q) :
              \/ j \in 1 .. Len(s.q) /\ s.q[j] = x.q[j]
              \/ j + 1 \in 1 .. Len(s.q) /\ s.q[j + 1] = x.q[j]
    <3>1. x.q \in Queues /\ s.q \in Queues /\ e \in Entries
        BY <1>4, <1>5
    <3>2. /\ p \in 1 .. Len(s.q) /\ s.q[p] = e /\ Len(s.q) = Len(x.q) + 1
          /\ \A j \in 1 .. Len(s.q) :
                \/ j = p
                \/ j < p /\ j \in 1 .. Len(x.q) /\ s.q[j] = x.q[j]
                \/ j > p /\ j - 1 \in 1 .. Len(x.q) /\ s.q[j] = x.q[j - 1]
          /\ \A j \in 1 .. Len(x.q) :
                \/ j < p /\ j \in 1 .. Len(s.q) /\ s.q[j] = x.q[j]
                \/ j >= p /\ j + 1 \in 1 .. Len(s.q) /\ s.q[j + 1] = x.q[j]
        BY <2>1, <3>1, InsertedEntries
    <3> QED BY <3>2
  <2>3. CASE k - 1 = 0
    <3>1. e = r.q[1]
        BY <2>3 DEF e
    <3> QED BY <2>2, <3>1
  <2>4. CASE k - 1 # 0
      BY <1>3, <2>2, <2>4
  <2> QED BY <2>3, <2>4
<1>9. 1 \in 1 .. Len(s.q)
    BY <1>5 DEF Queues
<1>10. /\ Key(y, s.q[1]) \in Int /\ Key(y, s.q[1]) <= -r.cycle /\ -b <= Key(y, s.q[1])
  <2>1. Key(y, s.q[1]) <= Key(y, s.q[i])
      BY <1>7, <1>8, <1>9 DEF Ordered
  <2>2. Key(y, s.q[1]) \in Int
      BY <1>5, <1>9, EntryFields, KeyTypes
  <2>3. -b <= Key(y, s.q[1]) - 0
      BY <1>7, <1>9 DEF AllKeyed, Keyed
  <2> QED BY <1>2, <1>8, <2>1, <2>2, <2>3
<1>11. s.cycle = -Key(y, s.q[1])
  <2>1. Key(y, s.q[1]) <= Half /\ b \in Int
      BY <1>1, <1>2, <1>10, ModulusTypes
  <2> QED BY <1>2, <1>5, <1>10, <2>1, HeadIsCycle
<1>12. Overdue(s.cycle) = b
    BY <1>1, <1>5, <1>10, <1>11 DEF Overdue, b
<1> QED BY <1>4, <1>7, <1>8, <1>12 DEF LoadedLevel, b, s, e

LEMMA LoadedIsLevel ==
    ASSUME NEW r, Level(r, CountPerOp), r.cycle <= Slack
    PROVE  LET x == Loaded(r)
           IN \E y \in Turns : /\ Ordered(x.q, y) /\ AllKeyed(x.q, y, Overdue(r.cycle), 0)
                               /\ Overdue(x.cycle) = Overdue(r.cycle)
<1> DEFINE N == Len(r.q)
<1>1. r \in Machines /\ N \in Nat /\ Whole(r) /\ r.cycle \in Int
    BY LevelFields
<1>2. PICK y \in Turns : /\ AllKeyed(r.q, y, Overdue(r.cycle), 0)
                         /\ Key(y, r.q[1]) = -r.cycle
    BY LoadKeys
<1> DEFINE F == [k \in 0 .. N |-> {x \in Machines : LoadedLevel(r, y, k, x)}]
<1>3. [r EXCEPT !.q = << >>] \in F[0]
  <2> DEFINE start == [r EXCEPT !.q = << >>]
  <2>1. LoadedPart(r, 0, start) /\ start.q = << >> /\ start.cycle = r.cycle
      BY <1>1, LoadStarts
  <2> HIDE DEF start
  <2>2. start \in Machines
      BY <2>1 DEF LoadedPart
  <2>3. Ordered(start.q, y) /\ AllKeyed(start.q, y, Overdue(r.cycle), 0)
      BY <2>1 DEF Ordered, AllKeyed
  <2>4. start \in F[0]
      BY <1>1, <2>1, <2>2, <2>3 DEF LoadedLevel
  <2> QED BY <2>4 DEF start
<1>4. ASSUME NEW k \in 1 .. N, NEW x \in F[k - 1] PROVE Add(x, r.q[k]) \in F[k]
  <2> DEFINE s == Add(x, r.q[k])
  <2>1. k - 1 \in 0 .. N /\ k \in 0 .. N
      BY <1>1
  <2>2. LoadedLevel(r, y, k - 1, x)
      BY <1>4, <2>1
  <2>3. LoadedLevel(r, y, k, s)
      BY <1>1, <1>2, <2>2, LoadStaysLevel
  <2> HIDE DEF s
  <2>4. s \in Machines
      BY <2>3 DEF LoadedLevel, LoadedPart
  <2>5. s \in F[k]
      BY <2>1, <2>3, <2>4
  <2> QED BY <2>5 DEF s
<1>5. Loaded(r) \in F[N]
  <2> HIDE DEF F
  <2> QED BY <1>1, <1>3, <1>4, LoadedBy
<1>6. LoadedLevel(r, y, N, Loaded(r))
    BY <1>1, <1>5
<1> QED BY <1>6 DEF LoadedLevel

LEMMA ReloadedOpen ==
    ASSUME NEW r, Open(r)
    PROVE  Open(Reloaded(r)) /\ Reloaded(r).disciplined = r.disciplined
<1> DEFINE x == Loaded(r)  a == remove_event(x, "SPECIAL")  e == SpecialEvent(a)
           s == AddSpecial(a)  b == Overdue(r.cycle)
<1>1. /\ Level(r, CountPerOp) /\ Whole(r) /\ r.cycle \in Int /\ ~Has(r.q, "CHECK")
      /\ BusyQueued(r) /\ (\A t : AtMostOne(r.q, t)) /\ ~Pending(r)
      /\ Has(r.q, "SPECIAL") /\ Len(r.q) \in Nat /\ Len(r.q) < Capacity /\ r.cycle <= Slack
    BY LevelFields DEF Open
<1>2. /\ Sound(x) /\ x.count = r.count /\ Aside(x) = Aside(r)
      /\ Len(x.q) = Len(r.q)
      /\ \A t : Has(x.q, t) <=> Has(r.q, t)
      /\ \A t : AtMostOne(r.q, t) => AtMostOne(x.q, t)
    BY <1>1, LoadedSound
<1>3. PICK y \in Turns : /\ Ordered(x.q, y) /\ AllKeyed(x.q, y, b, 0)
                         /\ Overdue(x.cycle) = b
    BY <1>1, LoadedIsLevel
<1>4. b \in Nat /\ b < Half /\ b <= Slack
    BY <1>1, SlackTypes DEF Overdue
<1> HIDE DEF x, b
<1>5. /\ Sound(a) /\ a.count = x.count /\ a.cycle = x.cycle /\ Aside(a) = Aside(x)
      /\ Len(a.q) = Len(x.q) - 1 /\ (\E p : Dropped(x.q, p, a.q))
      /\ \A t : t # "SPECIAL" => (Has(a.q, t) <=> Has(x.q, t))
      /\ ~Has(a.q, "SPECIAL")
    BY <1>1, <1>2, RemoveTypeSound DEF Single
<1>6. x.q \in Queues /\ a.q \in Queues /\ a \in Machines /\ a.count \in Counts
    BY <1>2, <1>5, SoundFields, MachineFields
<1> HIDE DEF a
<1>7. Ordered(a.q, y) /\ AllKeyed(a.q, y, b, 0) /\ \A t : AtMostOne(a.q, t)
  <2>1. PICK p : Dropped(x.q, p, a.q)
      BY <1>5
  <2>2. Ordered(a.q, y) /\ AllKeyed(a.q, y, b, 0)
      BY <1>3, <1>6, <2>1, DroppedOrdered
  <2>3. \A t : AtMostOne(x.q, t) => AtMostOne(a.q, t)
      BY <1>6, <2>1, DroppedTypes
  <2> QED BY <1>1, <1>2, <2>2, <2>3
<1>8. Tidy(a)
  <2>1. Turned(a.count, a.q)
      BY <1>5 DEF Turned, Has
  <2>2. ~Has(a.q, "CHECK")
      BY <1>1, <1>2, <1>5
  <2> QED BY <1>7, <2>1, <2>2 DEF Tidy
<1>9. /\ s = Add(a, e) /\ e \in Entries /\ e.type = "SPECIAL" /\ e.left \in 1 .. Half
      /\ e.left = SpecialDue(a.count) /\ TimedAt(a.count, e)
    BY <1>6, SpecialTimed DEF SpecialDue
<1>10. /\ Overdue(a.cycle) = b /\ -b <= e.left /\ Len(a.q) < Capacity
  <2>1. Overdue(a.cycle) = b
      BY <1>3, <1>5
  <2>2. -b <= e.left
      BY <1>4, <1>9, ModulusTypes
  <2>3. Len(a.q) < Capacity
      BY <1>1, <1>2, <1>5, BoundTypes
  <2> QED BY <2>1, <2>2, <2>3
<1> HIDE DEF e, s
<1>11. /\ Sound(s) /\ Current(s) /\ s.count = a.count /\ Aside(s) = Aside(a)
       /\ \E p : Inserted(a.q, p, e, s.q)
       /\ \A t : Has(s.q, t) <=> Has(a.q, t) \/ t = e.type
       /\ Ordered(s.q, y) /\ Framed(s.q, y, s.cycle, 0)
       /\ s.cycle <= Overdue(a.cycle)
  <2>1. /\ Overdue(a.cycle) < Half /\ AllKeyed(a.q, y, Overdue(a.cycle), 0)
        /\ -Overdue(a.cycle) <= e.left /\ e.type # "COMPARE"
        /\ e.type \in Single => ~Has(a.q, e.type)
      BY <1>4, <1>5, <1>7, <1>9, <1>10
  <2> QED BY <1>5, <1>7, <1>9, <1>10, <2>1, AddLevels
<1>12. s \in Machines /\ s.q \in Queues /\ s.cycle \in Int
    BY <1>11, SoundFields, MachineFields
<1>13. s = Reloaded(r)
    BY DEF Reloaded, s, a, x
<1>14. Whole(s)
    BY <1>1, <1>13, ReloadedWhole
<1>15. Tidy(s)
    BY <1>5, <1>6, <1>8, <1>9, <1>11, <1>12, TidyInserted
<1>16. Aside(s) = Aside(r)
    BY <1>2, <1>5, <1>11
<1>17. BusyQueued(s)
  <2>1. s.busy = r.busy
      BY <1>16 DEF Aside
  <2> QED BY <1>1, <1>2, <1>5, <1>9, <1>11, <2>1 DEF BusyQueued
<1>18. Level(s, 0)
    BY <1>11, <1>14, <1>15, <1>17 DEF Level, Tidy
<1>19. s.cycle <= Slack
    BY <1>4, <1>10, <1>11, <1>12, SlackTypes
<1>20. ~Pending(s) /\ s.disciplined = r.disciplined
    BY <1>1, <1>16 DEF Pending, Aside
<1> QED BY <1>13, <1>18, <1>19, <1>20, LevelAhead DEF Open


-----------------------------------------------------------------------------
(***************************************************************************)
(* Events that register writes add and remove.                             *)
(***************************************************************************)
LEMMA RemoveKeeps ==
    ASSUME NEW r, Sound(r), NEW t
    PROVE  LET s == remove_event(r, t)
           IN /\ \A u : AtMostOne(r.q, u) => AtMostOne(s.q, u)
              /\ \A z : Ordered(r.q, z) => Ordered(s.q, z)
              /\ \A z, c, d : Framed(r.q, z, c, d) => Framed(s.q, z, c, d)
<1> DEFINE s == remove_event(r, t)
<1>1. /\ Sound(s) /\ (~Has(r.q, t) => s = r)
      /\ Has(r.q, t) => \E p : Dropped(r.q, p, s.q)
    BY RemoveTypeSound
<1>2. r.q \in Queues /\ s.q \in Queues
    BY <1>1, SoundFields
<1> HIDE DEF s
<1>3. CASE ~Has(r.q, t)
  <2>1. s = r
      BY <1>1, <1>3
  <2> QED BY <2>1 DEF s
<1>4. CASE Has(r.q, t)
  <2>1. PICK p : Dropped(r.q, p, s.q)
      BY <1>1, <1>4
  <2>2. \A u : AtMostOne(r.q, u) => AtMostOne(s.q, u)
      BY <1>2, <2>1, DroppedTypes
  <2>3. /\ \A z : Ordered(r.q, z) => Ordered(s.q, z)
        /\ \A z, c, d : Framed(r.q, z, c, d) => Framed(s.q, z, c, d)
      BY <1>2, <2>1, DroppedOrdered
  <2> QED BY <2>2, <2>3, Zenon DEF s
<1> QED BY <1>3, <1>4, Zenon

(* An event other than the timer's is added to a queue that lacks it. *)
LEMMA AddTidies ==
    ASSUME NEW r, Sound(r), Tidy(r), Len(r.q) < Capacity, Overdue(r.cycle) <= Slack,
           NEW z \in Turns, Ordered(r.q, z), AllKeyed(r.q, z, Overdue(r.cycle), 0),
           NEW e \in Entries, e.type \notin {"COMPARE", "CHECK"}, TimedAt(r.count, e),
           e.left >= 0, ~Has(r.q, e.type),
           e.type = "SPECIAL" => e.left = SpecialDue(r.count)
    PROVE  LET s == Add(r, e)
           IN /\ Sound(s) /\ Current(s) /\ Tidy(s) /\ s.count = r.count /\ Aside(s) = Aside(r)
              /\ Len(s.q) = Len(r.q) + 1
              /\ \A t : Has(s.q, t) <=> Has(r.q, t) \/ t = e.type
              /\ Ordered(s.q, z) /\ Framed(s.q, z, s.cycle, 0) /\ s.cycle <= Slack
<1> DEFINE s == Add(r, e)
<1>1. r.cycle \in Int /\ r.q \in Queues /\ e.left \in Int
    BY SoundFields, MachineFields DEF Entries
<1>2. Overdue(r.cycle) \in Nat /\ Overdue(r.cycle) < Half /\ -Overdue(r.cycle) <= e.left
  <2>1. Overdue(r.cycle) \in Nat
      BY <1>1, OverdueTypes
  <2> QED BY <1>1, <2>1, SlackTypes
<1>3. /\ Sound(s) /\ Current(s) /\ s.count = r.count /\ Aside(s) = Aside(r)
      /\ Len(s.q) = Len(r.q) + 1 /\ \E p : Inserted(r.q, p, e, s.q)
      /\ \A t : Has(s.q, t) <=> Has(r.q, t) \/ t = e.type
      /\ Ordered(s.q, z) /\ Framed(s.q, z, s.cycle, 0)
      /\ s.cycle <= Overdue(r.cycle)
    BY <1>2, AddLevels
<1> HIDE DEF s
<1>4. s.q \in Queues /\ s.cycle \in Int
    BY <1>3, SoundFields, MachineFields
<1>5. Tidy(s)
    BY <1>1, <1>3, <1>4, TidyInserted
<1>6. s.cycle <= Slack
    BY <1>2, <1>3, <1>4, SlackTypes
<1> QED BY <1>3, <1>5, <1>6 DEF s

(* The timer's event is added, and the machine is level again. *)
LEMMA AddCompareTidies ==
    ASSUME NEW r, Sound(r), Tidy(r), BusyQueued(r), Len(r.q) < Capacity, r.cycle <= Slack,
           NEW z \in Turns, Ordered(r.q, z), Framed(r.q, z, r.cycle, 0),
           Has(r.q, "SPECIAL"), ~Has(r.q, "COMPARE"), NEW c \in Counts
    PROVE  LET s == AddCompare(r, c)
           IN Level(s, CountPerOp) /\ s.cycle <= Slack /\ Aside(s) = Aside(r)
<1> DEFINE e == CompareEvent(r, c)  s == AddCompare(r, c)
<1>1. r \in Machines /\ r.cycle \in Int /\ r.q \in Queues
    BY SoundFields, MachineFields
<1>2. /\ Sound(s) /\ Current(s) /\ s.count = r.count /\ Aside(s) = Aside(r)
      /\ \E p : Inserted(r.q, p, e, s.q)
      /\ \A t : Has(s.q, t) <=> Has(r.q, t) \/ t = "COMPARE"
    BY AddCompareSound
<1>3. /\ \E y \in Turns : Ordered(s.q, y) /\ Framed(s.q, y, s.cycle, CountPerOp)
      /\ s.cycle <= Overdue(r.cycle)
    BY AddCompareLevels
<1>4. e \in Entries /\ e.type = "COMPARE"
    BY <1>1, CompareTimed
<1> HIDE DEF s, e
<1>5. s \in Machines /\ s.q \in Queues /\ s.cycle \in Int
    BY <1>2, SoundFields, MachineFields
<1>6. Whole(s)
    BY <1>2 DEF Whole
<1>7. Tidy(s)
    BY <1>1, <1>2, <1>4, <1>5, TidyInserted
<1>8. BusyQueued(s)
  <2>1. s.busy = r.busy
      BY <1>2 DEF Aside
  <2> QED BY <1>2, <2>1 DEF BusyQueued
<1>9. Level(s, CountPerOp)
    BY <1>3, <1>6, <1>7, <1>8 DEF Level, Tidy
<1>10. s.cycle <= Slack
    BY <1>1, <1>3, <1>5, SlackTypes DEF Overdue
<1> QED BY <1>2, <1>9, <1>10 DEF s

(* MTC0 to Compare *)
LEMMA CompareWritten ==
    ASSUME NEW r, Level(r, CountPerOp), ~Pending(r), r.cycle <= Slack, NEW c \in Counts
    PROVE  LET s == AddCompare(remove_event(r, "COMPARE"), c)
           IN Level(s, CountPerOp) /\ s.cycle <= Slack /\ Aside(s) = Aside(r)
<1> DEFINE a == remove_event(r, "COMPARE")
<1>1. /\ Sound(r) /\ r.q \in Queues /\ Len(r.q) \in Nat /\ Len(r.q) < Capacity
      /\ Has(r.q, "SPECIAL") /\ Has(r.q, "COMPARE") /\ ~Has(r.q, "CHECK")
      /\ BusyQueued(r) /\ Tidy(r)
    BY LevelFields DEF Tidy
<1>2. /\ Sound(a) /\ a.count = r.count /\ a.cycle = r.cycle /\ Aside(a) = Aside(r)
      /\ Len(a.q) = Len(r.q) - 1
      /\ \E p : Dropped(r.q, p, a.q) /\ r.q[p].type = "COMPARE"
      /\ \A u : u # "COMPARE" => (Has(a.q, u) <=> Has(r.q, u))
      /\ ~Has(a.q, "COMPARE")
    BY <1>1, RemoveTypeSound DEF Single
<1>3. PICK z \in Turns : Ordered(r.q, z) /\ Framed(r.q, z, r.cycle, CountPerOp)
    BY DEF Level
<1>4. Ordered(a.q, z) /\ Framed(a.q, z, r.cycle, CountPerOp)
    BY <1>1, <1>3, RemoveKeeps
<1> HIDE DEF a
<1>5. a.q \in Queues /\ r.cycle \in Int
    BY <1>1, <1>2, SoundFields, MachineFields
<1>6. Tidy(a)
  <2>1. PICK p : Dropped(r.q, p, a.q) /\ r.q[p].type = "COMPARE"
      BY <1>2
  <2> QED BY <1>1, <1>2, <1>5, <2>1, TidyDropped
<1>7. BusyQueued(a)
  <2>1. a.busy = r.busy
      BY <1>2 DEF Aside
  <2> QED BY <1>1, <1>2, <2>1 DEF BusyQueued
<1>8. Framed(a.q, z, a.cycle, 0)
  <2>1. ASSUME NEW i \in 1 .. Len(a.q)
        PROVE  a.q[i].type # "COMPARE" /\ a.q[i].left <= Half
    <3>1. a.q[i].type # "COMPARE"
        BY <1>2 DEF Has
    <3>2. TimedAt(a.count, a.q[i])
        BY <1>2 DEF Sound, Timed
    <3> QED BY <3>1, <3>2 DEF TimedAt, InReach
  <2> QED BY <1>2, <1>4, <1>5, <2>1, FramedNow
<1>9. Len(a.q) < Capacity /\ a.cycle <= Slack /\ Has(a.q, "SPECIAL")
    BY <1>1, <1>2, BoundTypes
<1>10. LET s == AddCompare(a, c)
       IN Level(s, CountPerOp) /\ s.cycle <= Slack /\ Aside(s) = Aside(a)
    BY <1>2, <1>4, <1>6, <1>7, <1>8, <1>9, AddCompareTidies
<1> QED BY <1>2, <1>10 DEF a

(* MTC0 to Count *)
LEMMA TranslatedOpen ==
    ASSUME NEW r, Open(r), NEW c \in Counts
    PROVE  Open(Translated(r, c)) /\ Translated(r, c).disciplined = r.disciplined
<1> DEFINE j == remove_event(r, "COMPARE")  k == Kept(r)  a == Moved(k, c)
           e == SpecialEvent(a)  b == AddSpecial(a)  s == AddCompare(b, r.compare)
<1>1. /\ Whole(r) /\ Sound(r) /\ r.q \in Queues /\ Len(r.q) \in Nat /\ r.cycle \in Int
      /\ ~Has(r.q, "CHECK") /\ BusyQueued(r) /\ (\A t : AtMostOne(r.q, t))
      /\ ~Pending(r) /\ r.cycle <= Slack /\ r.compare \in Counts
    BY LevelFields, MachineFields DEF Open
<1>2. PICK z \in Turns : Ordered(r.q, z) /\ Framed(r.q, z, r.cycle, CountPerOp)
    BY DEF Open, Level
<1>3. /\ Sound(k) /\ k.count = r.count /\ k.cycle = r.cycle /\ Aside(k) = Aside(r)
      /\ Len(k.q) + 2 <= Capacity
      /\ ~Has(k.q, "COMPARE") /\ ~Has(k.q, "SPECIAL")
      /\ \A t : t \notin {"COMPARE", "SPECIAL"} => (Has(k.q, t) <=> Has(r.q, t))
    BY <1>1, KeptSound
<1>4. Ordered(k.q, z) /\ Framed(k.q, z, r.cycle, CountPerOp) /\ \A t : AtMostOne(k.q, t)
  <2>1. Sound(j)
      BY <1>1, RemoveTypeSound
  <2>2. Ordered(j.q, z) /\ Framed(j.q, z, r.cycle, CountPerOp) /\ \A t : AtMostOne(j.q, t)
      BY <1>1, <1>2, RemoveKeeps
  <2>3. k = remove_event(j, "SPECIAL")
      BY DEF Kept
  <2> HIDE DEF j, k
  <2> QED BY <2>1, <2>2, <2>3, RemoveKeeps
<1> HIDE DEF k
<1>5. /\ Sound(a) /\ a.count = c /\ a.cycle = k.cycle /\ Aside(a) = Aside(k)
      /\ Len(a.q) = Len(k.q)
      /\ \A i \in 1 .. Len(k.q) : /\ a.q[i].type = k.q[i].type
                                  /\ a.q[i].left = k.q[i].left
      /\ \A t : Has(a.q, t) <=> Has(k.q, t)
    BY <1>3, MovedSound
<1> HIDE DEF a
<1>6. /\ k.q \in Queues /\ a \in Machines /\ a.q \in Queues /\ Len(k.q) \in Nat
      /\ Capacity \in Nat
      /\ \A i \in 1 .. Len(a.q) : TimedAt(a.count, a.q[i])
    BY <1>3, <1>5, SoundFields
<1>7. \A i \in 1 .. Len(k.q) : Key(z, a.q[i]) = Key(z, k.q[i])
    BY <1>5 DEF Key
<1>8. Ordered(a.q, z)
    BY <1>4, <1>5, <1>7 DEF Ordered
<1>9. /\ Overdue(a.cycle) = Overdue(r.cycle) /\ Overdue(r.cycle) \in Nat
      /\ Overdue(r.cycle) <= Slack /\ Overdue(r.cycle) < Half /\ -Overdue(r.cycle) <= -r.cycle
    BY <1>1, <1>3, <1>5, SlackTypes DEF Overdue
<1>10. AllKeyed(a.q, z, Overdue(a.cycle), 0)
  <2> SUFFICES ASSUME NEW i \in 1 .. Len(a.q)
               PROVE  Keyed(a.q[i], z, Overdue(r.cycle), 0)
      BY <1>9 DEF AllKeyed
  <2>1. -r.cycle <= Key(z, a.q[i])
      BY <1>4, <1>5, <1>7 DEF Framed
  <2>2. a.q[i].type # "COMPARE"
      BY <1>3, <1>5 DEF Has
  <2>3. a.q[i].left \in Int /\ Key(z, a.q[i]) = a.q[i].left
      BY <1>6, <2>2, EntryFields, KeyTypes
  <2>4. a.q[i].left <= Half
      BY <1>6, <2>2 DEF TimedAt, InReach
  <2>5. r.cycle \in Int
      BY <1>1
  <2> DEFINE n == Overdue(r.cycle)  l == a.q[i].left
  <2>6. /\ n \in Nat /\ n < Half /\ -n <= -r.cycle /\ -r.cycle <= l /\ l <= Half /\ l \in Int
        /\ Key(z, a.q[i]) = l
      BY <1>9, <2>1, <2>3, <2>4
  <2> HIDE DEF n, l
  <2>7. -n <= l - 0 /\ l - 0 <= Modulus - 1 - n
      BY <2>5, <2>6, ModulusTypes
  <2> QED BY <2>6, <2>7 DEF Keyed, n
<1>11. Tidy(a)
  <2>1. ASSUME NEW t PROVE AtMostOne(a.q, t)
    <3>1. AtMostOne(k.q, t)
        BY <1>4
    <3> QED BY <1>5, <3>1 DEF AtMostOne
  <2>2. ~Has(a.q, "CHECK") /\ ~Has(a.q, "SPECIAL")
      BY <1>1, <1>3, <1>5
  <2>3. Turned(a.count, a.q)
      BY <2>2 DEF Turned, Has
  <2> QED BY <2>1, <2>2, <2>3 DEF Tidy
<1>12. /\ b = Add(a, e) /\ e \in Entries /\ e.type = "SPECIAL" /\ e.left \in 1 .. Half
       /\ e.left = SpecialDue(a.count) /\ TimedAt(a.count, e)
    BY <1>6, SpecialTimed DEF SpecialDue
<1> HIDE DEF e, b
<1>13. /\ Sound(b) /\ Tidy(b) /\ b.count = a.count /\ Aside(b) = Aside(a)
       /\ Len(b.q) = Len(a.q) + 1
       /\ \A t : Has(b.q, t) <=> Has(a.q, t) \/ t = e.type
       /\ Ordered(b.q, z) /\ Framed(b.q, z, b.cycle, 0) /\ b.cycle <= Slack
  <2>1. /\ Len(a.q) < Capacity /\ Overdue(a.cycle) <= Slack /\ e.left >= 0
        /\ ~Has(a.q, e.type) /\ e.type \notin {"COMPARE", "CHECK"}
    <3>1. Len(a.q) < Capacity
        BY <1>3, <1>5, <1>6
    <3>2. e.left >= 0
        BY <1>12, ModulusTypes
    <3> QED BY <1>3, <1>5, <1>9, <1>12, <3>1, <3>2
  <2> QED BY <1>5, <1>8, <1>10, <1>11, <1>12, <2>1, AddTidies
<1>14. BusyQueued(b) /\ Has(b.q, "SPECIAL") /\ ~Has(b.q, "COMPARE") /\ Len(b.q) < Capacity
  <2>1. b.busy = r.busy
      BY <1>3, <1>5, <1>13 DEF Aside
  <2>2. Len(b.q) < Capacity
      BY <1>3, <1>5, <1>6, <1>13
  <2> QED BY <1>1, <1>3, <1>5, <1>12, <1>13, <2>1, <2>2 DEF BusyQueued
<1>15. Level(s, CountPerOp) /\ s.cycle <= Slack /\ Aside(s) = Aside(b)
    BY <1>1, <1>13, <1>14, AddCompareTidies
<1> HIDE DEF s
<1>16. s = Translated(r, c)
    BY <1>1, TranslatedIs DEF s, b, a, k
<1>17. ~Pending(s) /\ s.disciplined = r.disciplined
  <2>1. Aside(s) = Aside(r)
      BY <1>3, <1>5, <1>13, <1>15
  <2> QED BY <1>1, <2>1 DEF Aside, Pending
<1> QED BY <1>15, <1>16, <1>17 DEF Open


-----------------------------------------------------------------------------
(***************************************************************************)
(* The steps of a program that keeps the rules.                            *)
(***************************************************************************)
LEMMA GenIfDueOpen ==
    ASSUME NEW r, Level(r, CountPerOp), ~Pending(r), r.cycle <= MaxLate,
           -MaxLate <= First(r).left, NEW s \in GenIfDue(r)
    PROVE  Open(s) /\ s.disciplined = r.disciplined
<1>1. Whole(r) /\ r.cycle \in Int
    BY LevelFields
<1>2. s.disciplined = r.disciplined
    BY <1>1, GenIfDueWhole
<1>3. CASE r.cycle >= 0
  <2>1. s \in gen_interrupt(r)
      BY <1>3 DEF GenIfDue
  <2>2. Level(r, 0)
      BY <1>3, LevelNow
  <2> QED BY <1>2, <1>3, <2>1, <2>2, GenOpen
<1>4. CASE ~(r.cycle >= 0)
  <2>1. s = r
      BY <1>4 DEF GenIfDue
  <2>2. r.cycle <= Slack
      BY <1>1, SlackTypes
  <2> QED BY <2>1, <2>2 DEF Open
<1> QED BY <1>3, <1>4

LEMMA GenIfDueCheck ==
    ASSUME NEW r, CheckFirst(r, CountPerOp), First(r).left <= 0,
           remove_interrupt_event(r).cycle <= Slack, NEW s \in GenIfDue(r)
    PROVE  Open(s) /\ s.disciplined = r.disciplined
<1>1. Whole(r) /\ First(r).type = "CHECK"
    BY DEF CheckFirst
<1>2. First(r).left \in Int /\ First(r).left < Half
    BY <1>1, FirstDue, ModulusTypes
<1>3. r.cycle = -First(r).left
    BY <1>1, <1>2, FirstDue
<1>4. r.cycle >= 0
    BY <1>2, <1>3
<1>5. s \in gen_interrupt(r)
    BY <1>4 DEF GenIfDue
<1> QED BY <1>5, GenCheck

(* Loading a state leaves an open machine open. *)
LEMMA OpenReloads ==
    ASSUME NEW r, \A x \in GenIfDue(r) : Open(x) /\ x.disciplined = r.disciplined,
           NEW s \in GenOrReload(r)
    PROVE  Open(s) /\ s.disciplined = r.disciplined
BY ReloadWays, ReloadedOpen

(* After a check a CHECK is taken at once. *)
LEMMA CheckedOpen ==
    ASSUME NEW r, Level(r, CountPerOp), r.cycle <= MaxLate, -MaxLate <= First(r).left,
           NEW s \in GenIfDue(Check(r))
    PROVE  Open(s) /\ s.disciplined = r.disciplined
<1> DEFINE c == Check(r)
<1>1. r.cycle \in Int
    BY LevelFields
<1>2. /\ c.disciplined = r.disciplined
      /\ \/ SameClock(r, c) /\ c.busy = r.busy /\ Open(c)
         \/ /\ Held(c) /\ First(c).left = 0 /\ SameClock(r, remove_interrupt_event(c))
    BY <1>1, CheckRules
<1> HIDE DEF c
<1>3. s \in GenIfDue(c)
    BY DEF c
<1>4. CASE SameClock(r, c) /\ c.busy = r.busy /\ Open(c)
  <2>1. c \in Machines /\ ~Pending(c)
      BY <1>4, LevelFields DEF Open
  <2>2. Level(c, CountPerOp)
      BY <1>4 DEF Open
  <2>3. c.cycle <= MaxLate /\ First(c).left = First(r).left
      BY <1>4 DEF SameClock, First
  <2> QED BY <1>2, <1>3, <2>1, <2>2, <2>3, GenIfDueOpen
<1>5. CASE Held(c) /\ First(c).left = 0 /\ SameClock(r, remove_interrupt_event(c))
  <2>1. CheckFirst(c, CountPerOp) /\ First(c).left <= 0
      BY <1>5 DEF Held
  <2>2. remove_interrupt_event(c).cycle <= Slack
    <3>1. remove_interrupt_event(c).cycle = r.cycle
        BY <1>5 DEF SameClock
    <3> QED BY <1>1, <3>1, SlackTypes
  <2> QED BY <1>2, <1>3, <2>1, <2>2, GenIfDueCheck
<1> QED BY <1>2, <1>4, <1>5

LEMMA LapsingMachine ==
    ASSUME WholeInv, m.disciplined, NEW n \in Lapses, Passes(n)
    PROVE  /\ Lapsing(m, n) /\ n \in Nat /\ n >= CountPerOp
           /\ m.cycle + n <= MaxLate /\ m.cycle <= MaxLate /\ m.cycle \in Int
           /\ \A i \in 1 .. Len(m.q) : m.q[i].left \in Int /\ n - m.q[i].left <= MaxLate
<1>1. n \in Nat /\ n >= CountPerOp
    BY LapseTypes
<1>2. m \in Machines /\ m.q \in Queues /\ m.cycle \in Int
    BY SoundFields, MachineFields DEF WholeInv, Whole
<1>3. /\ m.cycle + n <= MaxLate
      /\ \A i \in 1 .. Len(m.q) : m.q[i].left \in Int /\ n - m.q[i].left <= MaxLate
    BY <1>2, EntryFields DEF Passes
<1>4. m.cycle <= MaxLate
    BY <1>1, <1>2, <1>3, SlackTypes
<1>5. Lapsing(m, n)
  <2>1. \A i \in 1 .. Len(m.q) : m.q[i].left - n >= 1 - Half
      BY <1>1, <1>3, SlackTypes
  <2>2. Has(m.q, "VI") \/ m.count + n < Half
      BY DEF Passes, Queued, Has
  <2> QED BY <2>1, <2>2 DEF Lapsing
<1> QED BY <1>1, <1>2, <1>3, <1>4, <1>5

LEMMA LapsedOpen ==
    ASSUME NEW r, Open(r), NEW n \in Nat, n >= CountPerOp, Lapsing(r, n), r.cycle + n <= MaxLate,
           \A i \in 1 .. Len(r.q) : r.q[i].left \in Int /\ n - r.q[i].left <= MaxLate
    PROVE  LET s == Lapsed(r, n)
           IN /\ Level(s, 0) /\ ~Pending(s) /\ s.cycle <= MaxLate /\ -MaxLate <= First(s).left
              /\ s.disciplined = r.disciplined /\ s.busy = r.busy
              /\ \A t : Has(s.q, t) <=> Has(r.q, t)
<1> DEFINE s == Lapsed(r, n)
<1>1. /\ Level(r, CountPerOp) /\ Sound(r) /\ Current(r) /\ r.q \in Queues /\ ~Pending(r)
      /\ r.cycle \in Int
    BY LevelFields DEF Open
<1>2. r.cycle + n < Half
    BY <1>1, SlackTypes
<1>3. Level(s, 0) /\ s.cycle = r.cycle + n /\ Aside(s) = Aside(r)
    BY <1>1, <1>2, LapsedLevel
<1>4. /\ \A i \in 1 .. Len(r.q) : s.q[i].left = r.q[i].left - n
      /\ \A t : Has(s.q, t) <=> Has(r.q, t)
    BY <1>1, LapsedSound DEF Lapsing
<1> HIDE DEF s
<1>5. 1 \in 1 .. Len(r.q)
    BY <1>1 DEF Current, Queues
<1>6. -MaxLate <= First(s).left
  <2>1. First(s).left = r.q[1].left - n /\ r.q[1].left \in Int /\ n - r.q[1].left <= MaxLate
      BY <1>4, <1>5 DEF First
  <2>2. n \in Nat
      OBVIOUS
  <2> QED BY <2>1, <2>2, SlackTypes
<1>7. ~Pending(s) /\ s.disciplined = r.disciplined /\ s.busy = r.busy
    BY <1>1, <1>3 DEF Aside, Pending
<1> QED BY <1>3, <1>4, <1>6, <1>7 DEF s

LEMMA LaterOpen ==
    ASSUME WholeInv, m.disciplined, Open(m), NEW n \in Lapses, Passes(n)
    PROVE  LET s == Later(n)
           IN /\ Level(s, 0) /\ ~Pending(s) /\ s.cycle <= MaxLate /\ -MaxLate <= First(s).left
              /\ s.disciplined = m.disciplined /\ s.busy = m.busy
              /\ \A t : Has(s.q, t) <=> Has(m.q, t)
BY LapsingMachine, LapsedOpen DEF Later

LEMMA LapsedNothing ==
    ASSUME NEW r \in Machines
    PROVE  Lapsed(r, 0) = r
<1>1. (r.count + 0) % Modulus = r.count /\ Signed(r.cycle + 0) = r.cycle
    BY MachineFields, ResidueIsItself, SignedIsItself
<1>2. [i \in 1 .. Len(r.q) |-> [r.q[i] EXCEPT !.left = @ - 0]] = r.q
  <2>1. ASSUME NEW i \in 1 .. Len(r.q) PROVE [r.q[i] EXCEPT !.left = @ - 0] = r.q[i]
    <3>1. r.q[i] \in Entries /\ r.q[i].left - 0 = r.q[i].left
        BY MachineFields, EntryFields
    <3> QED BY <3>1 DEF Entries
  <2>2. r.q \in Seq(Entries) /\ r.q = [i \in 1 .. Len(r.q) |-> r.q[i]]
      BY MachineFields DEF Queues
  <2> QED BY <2>1, <2>2
<1> QED BY <1>1, <1>2 DEF Lapsed, Machines

(* Without an instruction to count, time stands still. *)
LEMMA LaterEarly ==
    ASSUME WholeInv, m.disciplined, Open(m), NEW n \in EarlyLapses, Passes(n)
    PROVE  LET s == Later(n)
           IN /\ Level(s, CountPerOp) /\ ~Pending(s) /\ s.cycle <= MaxLate
              /\ -MaxLate <= First(s).left
              /\ s.disciplined = m.disciplined /\ s.busy = m.busy
<1>1. CASE n \in Lapses
    BY <1>1, LaterOpen, LevelAhead
<1>2. CASE n = 0
  <2>1. m \in Machines /\ m.q \in Queues /\ Current(m) /\ m.cycle \in Int
      BY SoundFields, MachineFields DEF WholeInv, Whole
  <2>2. Later(n) = m
      BY <1>2, <2>1, LapsedNothing DEF Later
  <2>3. m.cycle <= MaxLate
      BY <1>2, <2>1 DEF Passes
  <2>4. -MaxLate <= First(m).left
    <3>1. 1 \in 1 .. Len(m.q)
        BY <2>1 DEF Current, Queues
    <3>2. 0 - m.q[1].left <= MaxLate /\ m.q[1].left \in Int
        BY <1>2, <2>1, <3>1, EntryFields DEF Passes
    <3> QED BY <3>2, SlackTypes DEF First
  <2> QED BY <2>2, <2>3, <2>4 DEF Open
<1> QED BY <1>1, <1>2 DEF EarlyLapses

LEMMA LaterHeld ==
    ASSUME WholeInv, m.disciplined, Held(m), NEW n \in Lapses, Passes(n)
    PROVE  LET s == Later(n)
           IN /\ Held(s) /\ First(s).left <= 0 /\ remove_interrupt_event(s).cycle <= Slack
              /\ s.disciplined = m.disciplined /\ s.busy = m.busy
<1> DEFINE s == Later(n)  a == remove_interrupt_event(m)  b == remove_interrupt_event(s)
<1>1. /\ CheckFirst(m, CountPerOp) /\ -MaxLate <= First(m).left
      /\ a.cycle <= MaxLate - First(m).left /\ Whole(m) /\ First(m).type = "CHECK"
      /\ Level(a, CountPerOp)
    BY DEF Held, CheckFirst
<1>2. a.cycle \in Int
    BY <1>1, LevelFields
<1>3. /\ Lapsing(m, n) /\ n \in Nat /\ n >= CountPerOp
      /\ \A i \in 1 .. Len(m.q) : m.q[i].left \in Int /\ n - m.q[i].left <= MaxLate
    BY LapsingMachine
<1>4. 1 \in 1 .. Len(m.q) /\ First(m) = m.q[1] /\ TimedAt(m.count, First(m))
    BY <1>1, FirstDue
<1>5. /\ First(m).left \in Int /\ n - First(m).left <= MaxLate /\ First(m).left <= 0
    BY <1>1, <1>3, <1>4 DEF TimedAt, InReach
<1>6. a.cycle + n <= Slack /\ a.cycle + n < Half /\ n - First(m).left < Half
    BY <1>1, <1>2, <1>3, <1>5, SlackTypes
<1>7. /\ CheckFirst(s, 0) /\ Aside(s) = Aside(m)
      /\ First(s).left = First(m).left - n
      /\ b.cycle = a.cycle + n
  <2>1. /\ remove_interrupt_event(m).cycle + n < Half /\ n - First(m).left < Half
      BY <1>6
  <2> QED BY <1>1, <1>3, <2>1, LapsedFirst DEF Later
<1> HIDE DEF s, a, b
<1>8. First(s).left <= 0 /\ -MaxLate <= First(s).left /\ b.cycle <= MaxLate - First(s).left
      /\ b.cycle <= Slack
    BY <1>1, <1>2, <1>3, <1>5, <1>6, <1>7, SlackTypes
<1>9. CheckFirst(s, CountPerOp)
    BY <1>7, LevelAhead DEF CheckFirst
<1>10. s.disciplined = m.disciplined /\ s.busy = m.busy
    BY <1>7 DEF Aside
<1> QED BY <1>8, <1>9, <1>10 DEF Held, s, b

LEMMA AddInOpen ==
    ASSUME NEW o, Level(o, 0), NEW r \in Machines, SameClock(o, r), ~Pending(r),
           r.cycle <= MaxLate, NEW t \in {"VI", "PI"}, ~Has(r.q, t),
           r.busy = (t = "PI" \/ o.busy), NEW delay \in 0 .. Half - 1
    PROVE  LET s == AddIn(r, t, delay)
           IN Open(s) /\ s.disciplined = r.disciplined
<1> DEFINE e == Event(t, (r.count + delay) % Modulus, delay)  s == AddIn(r, t, delay)
<1>1. /\ r.q = o.q /\ r.count = o.count /\ r.cycle = o.cycle /\ Whole(o) /\ r.cycle \in Int
      /\ Whole(r) /\ Sound(r) /\ r.q \in Queues /\ Len(r.q) < Capacity
      /\ Has(r.q, "SPECIAL") /\ Has(r.q, "COMPARE") /\ Tidy(r)
  <2>1. /\ r.q = o.q /\ r.count = o.count /\ r.cycle = o.cycle
      BY DEF SameClock
  <2>2. /\ Whole(o) /\ o.cycle \in Int /\ o.q \in Queues /\ Len(o.q) < Capacity
        /\ Has(o.q, "SPECIAL") /\ Has(o.q, "COMPARE") /\ Tidy(o)
      BY LevelFields DEF Tidy
  <2>3. Whole(r)
      BY <2>2, SameClockWhole
  <2> QED BY <2>1, <2>2, <2>3 DEF Tidy, Whole
<1>2. BusyQueued(o)
    BY LevelFields
<1>3. PICK z \in Turns : Ordered(r.q, z) /\ Framed(r.q, z, r.cycle, 0)
    BY <1>1 DEF Level
<1>4. AllKeyed(r.q, z, Overdue(r.cycle), 0)
    BY <1>1, <1>3, FramedKeyed
<1>5. e \in Entries /\ e.type = t /\ e.left = delay /\ TimedAt(r.count, e)
  <2>1. delay \in Int /\ 1 - Half <= delay /\ delay <= Half
      BY ModulusTypes
  <2> HIDE DEF e
  <2> QED BY <2>1, DelayTimed DEF e
<1>6. s = Add(r, e)
    BY DEF AddIn
<1> HIDE DEF e, s
<1>7. /\ Sound(s) /\ Current(s) /\ Tidy(s) /\ Aside(s) = Aside(r)
      /\ \A u : Has(s.q, u) <=> Has(r.q, u) \/ u = e.type
      /\ Ordered(s.q, z) /\ Framed(s.q, z, s.cycle, 0) /\ s.cycle <= Slack
  <2>1. Overdue(r.cycle) <= Slack
      BY <1>1, SlackTypes DEF Overdue
  <2>2. /\ e.type \notin {"COMPARE", "CHECK"} /\ e.left >= 0 /\ e.type # "SPECIAL"
        /\ ~Has(r.q, e.type)
      BY <1>5, ModulusTypes
  <2> QED BY <1>1, <1>3, <1>4, <1>5, <1>6, <2>1, <2>2, AddTidies
<1>8. Whole(s)
    BY <1>1, <1>7 DEF Whole
<1>9. s.busy = r.busy /\ s.disciplined = r.disciplined /\ ~Pending(s)
    BY <1>7 DEF Aside, Pending
<1>10. BusyQueued(s)
  <2>1. Has(s.q, "PI") <=> Has(o.q, "PI") \/ t = "PI"
      BY <1>1, <1>5, <1>7
  <2> QED BY <1>2, <1>9, <2>1, Zenon DEF BusyQueued
<1>11. Level(s, 0)
    BY <1>3, <1>7, <1>8, <1>10 DEF Level, Tidy
<1> QED BY <1>7, <1>9, <1>11, LevelAhead DEF Open, s


(* WriteMask: the check, then the time since the last jump. *)
LEMMA MaskedOpen ==
    ASSUME WholeInv, m.disciplined, Open(m), NEW l \in BOOLEAN, NEW n \in Lapses, Passes(n),
           NEW s \in GenOrReload(Lapsed(Check([m EXCEPT !.line = l]), n))
    PROVE  Open(s) /\ s.disciplined = m.disciplined
<1> DEFINE r == [m EXCEPT !.line = l]  c == Check(r)  x == Lapsed(c, n)
<1>1. Whole(r) /\ r.disciplined = m.disciplined /\ SameClock(m, r) /\ r.busy = m.busy
    BY LineTypes
<1>2. /\ Lapsing(m, n) /\ n \in Nat /\ n >= CountPerOp /\ n <= MaxBlock
      /\ m.cycle + n <= MaxLate /\ m.cycle <= MaxLate /\ m.cycle \in Int
      /\ \A i \in 1 .. Len(m.q) : m.q[i].left \in Int /\ n - m.q[i].left <= MaxLate
    BY LapsingMachine, LapseTypes
<1> HIDE DEF r
<1>3. /\ r.q = m.q /\ r.count = m.count /\ r.cycle = m.cycle /\ r \in Machines
      /\ Level(r, CountPerOp)
  <2>1. r \in Machines
      BY <1>1, SoundFields DEF Whole
  <2> QED BY <1>1, <2>1, SameClockLevel DEF SameClock, Open
<1>4. /\ c.disciplined = r.disciplined
      /\ \/ SameClock(r, c) /\ Open(c)
         \/ /\ Held(c) /\ First(c).left = 0 /\ Inserted(r.q, 1, c.q[1], c.q)
            /\ SameClock(r, remove_interrupt_event(c))
    BY <1>2, <1>3, CheckRules
<1>5. c.count = r.count
    BY <1>3, CheckTypes
<1> HIDE DEF c
<1>6. s \in GenOrReload(x)
    BY DEF c, r
<1>7. CASE SameClock(r, c) /\ Open(c)
  <2>1. c.q = m.q /\ c.count = m.count /\ c.cycle = m.cycle
      BY <1>3, <1>7 DEF SameClock
  <2>2. Lapsing(c, n)
      BY <1>2, <2>1 DEF Lapsing
  <2>3. /\ Level(x, 0) /\ ~Pending(x) /\ x.cycle <= MaxLate /\ -MaxLate <= First(x).left
        /\ x.disciplined = c.disciplined
      BY <1>2, <1>7, <2>1, <2>2, LapsedOpen
  <2>4. Level(x, CountPerOp)
      BY <2>3, LevelAhead
  <2> HIDE DEF x
  <2>5. ASSUME NEW y \in GenIfDue(x) PROVE Open(y) /\ y.disciplined = x.disciplined
      BY <2>3, <2>4, GenIfDueOpen
  <2> QED BY <1>1, <1>4, <1>6, <2>3, <2>5, OpenReloads
<1>8. CASE /\ Held(c) /\ First(c).left = 0 /\ Inserted(r.q, 1, c.q[1], c.q)
           /\ SameClock(r, remove_interrupt_event(c))
  <2> DEFINE a == remove_interrupt_event(c)
  <2>1. CheckFirst(c, CountPerOp) /\ a.cycle = m.cycle
      BY <1>3, <1>8 DEF Held, SameClock
  <2>2. r.q \in Queues /\ c.q \in Queues /\ First(c) = c.q[1]
      BY <1>3, <2>1, MachineFields, SoundFields DEF CheckFirst, Whole, First
  <2>3. Lapsing(c, n)
    <3>1. ASSUME NEW i \in 1 .. Len(c.q) PROVE c.q[i].left - n >= 1 - Half
      <4>1. \/ i = 1
            \/ i - 1 \in 1 .. Len(r.q) /\ c.q[i] = r.q[i - 1]
          BY <1>8, <2>2 DEF Inserted, Queues
      <4>2. CASE i = 1
        <5>1. c.q[i].left = 0
            BY <1>8, <2>2, <4>2
        <5>2. 0 - n >= 1 - Half
            BY <1>2, BoundTypes, ModulusTypes
        <5> QED BY <5>1, <5>2
      <4>3. CASE i - 1 \in 1 .. Len(r.q) /\ c.q[i] = r.q[i - 1]
          BY <1>2, <1>3, <4>3 DEF Lapsing
      <4> QED BY <4>1, <4>2, <4>3
    <3>2. c.q[1] \in Entries /\ 1 \in 1 .. Len(c.q)
        BY <2>1, <2>2, FirstDue DEF CheckFirst
    <3>3. Has(r.q, "VI") => Has(c.q, "VI")
      <4>1. \A t : Has(c.q, t) <=> Has(r.q, t) \/ t = c.q[1].type
          BY <1>8, <2>2, <3>2, InsertedTypes
      <4> QED BY <4>1
    <3>4. Has(c.q, "VI") \/ c.count + n < Half
        BY <1>2, <1>3, <1>5, <3>3 DEF Lapsing
    <3> QED BY <3>1, <3>4 DEF Lapsing
  <2>4. /\ CheckFirst(x, 0) /\ Aside(x) = Aside(c) /\ First(x).left = First(c).left - n
        /\ remove_interrupt_event(x).cycle = a.cycle + n
    <3>1. a.cycle + n < Half /\ n - First(c).left < Half
        BY <1>2, <1>8, <2>1, SlackTypes, BoundTypes
    <3> QED BY <1>2, <2>1, <2>3, <3>1, LapsedFirst
  <2> HIDE DEF x, a
  <2>5. First(x).left <= 0 /\ remove_interrupt_event(x).cycle <= Slack
      BY <1>2, <1>8, <2>1, <2>4, SlackTypes
  <2>6. CheckFirst(x, CountPerOp)
      BY <2>4, LevelAhead DEF CheckFirst
  <2>7. x.disciplined = c.disciplined
      BY <2>4 DEF Aside
  <2>8. ASSUME NEW y \in GenIfDue(x) PROVE Open(y) /\ y.disciplined = x.disciplined
      BY <2>5, <2>6, <2>4, <1>2, <1>8, GenIfDueCheck
  <2> QED BY <1>1, <1>4, <1>6, <2>7, <2>8, OpenReloads
<1> QED BY <1>4, <1>7, <1>8


-----------------------------------------------------------------------------
(***************************************************************************)
(* Programs that keep the rules: the queue is level in every state, but    *)
(* for a CHECK in front of it.                                             *)
(***************************************************************************)
RulesInv == m.disciplined => Rules(m)

LEMMA HeldQueued ==
    ASSUME NEW r, Held(r)
    PROVE  Has(r.q, "CHECK")
<1>1. 1 \in 1 .. Len(r.q) /\ r.q[1].type = "CHECK"
    BY FirstDue DEF Held, CheckFirst, First
<1> QED BY <1>1 DEF Has

LEMMA AccessOpen ==
    ASSUME RulesInv, m.disciplined, ~Queued(m, "CHECK")
    PROVE  Open(m)
BY HeldQueued DEF RulesInv, Rules, Queued, Has

(* A write to a register lets time pass and checks. *)
LEMMA WrittenOpen ==
    ASSUME WholeInv, m.disciplined, Open(m), NEW n \in EarlyLapses, Passes(n),
           NEW r \in Machines, SameClock(Later(n), r), r.busy = Later(n).busy,
           r.disciplined = m.disciplined, NEW s \in GenIfDue(Check(r))
    PROVE  Open(s) /\ s.disciplined = m.disciplined
<1> DEFINE o == Later(n)
<1>1. Level(o, CountPerOp) /\ o.cycle <= MaxLate /\ -MaxLate <= First(o).left
    BY LaterEarly
<1> HIDE DEF o
<1>2. SameClock(o, r) /\ r.busy = o.busy
    BY DEF o
<1>3. Level(r, CountPerOp)
    BY <1>1, <1>2, SameClockLevel
<1>4. r.cycle <= MaxLate /\ -MaxLate <= First(r).left
    BY <1>1, <1>2 DEF SameClock, First
<1> QED BY <1>3, <1>4, CheckedOpen

LEMMA JumpRules ==
    ASSUME WholeInv, m.disciplined, Rules(m), NEW n \in Lapses, Jump(n)
    PROVE  Open(m')
<1> DEFINE o == Later(n)
<1>1. Passes(n) /\ m' \in GenOrReload(o)
    BY DEF Jump
<1>2. ASSUME NEW r \in GenIfDue(o) PROVE Open(r) /\ r.disciplined = o.disciplined
  <2>1. CASE Open(m)
    <3>1. /\ Level(o, CountPerOp) /\ ~Pending(o) /\ o.cycle <= MaxLate
          /\ -MaxLate <= First(o).left
        BY <1>1, <2>1, LaterOpen, LevelAhead
    <3> HIDE DEF o
    <3> QED BY <1>2, <3>1, GenIfDueOpen
  <2>2. CASE Held(m)
    <3>1. Held(o) /\ First(o).left <= 0 /\ remove_interrupt_event(o).cycle <= Slack
        BY <1>1, <2>2, LaterHeld
    <3> HIDE DEF o
    <3> QED BY <1>2, <3>1, GenIfDueCheck DEF Held
  <2> QED BY <2>1, <2>2 DEF Rules
<1> HIDE DEF o
<1> QED BY <1>1, <1>2, OpenReloads

(* An exception taken in a delay slot leaves the clock as it is.           *)
LEMMA FaultRules ==
    ASSUME NEW o, (Level(o, 0) /\ o.cycle <= MaxLate) \/ Held(o),
           NEW s \in Machines, SameClock(o, s), s.busy = o.busy, ~Pending(s)
    PROVE  Rules(s)
<1>1. CASE Level(o, 0) /\ o.cycle <= MaxLate
  <2>1. Level(o, CountPerOp) /\ o.cycle <= Slack
      BY <1>1, LevelAhead, LevelFields, SlackTypes
  <2> QED BY <2>1, RaisedOpen DEF Rules
<1>2. CASE Held(o)
    BY <1>2, SameClockHeld DEF Rules
<1> QED BY <1>1, <1>2

LEMMA SlotRules ==
    ASSUME WholeInv, m.disciplined, Rules(m), NEW n \in Lapses, FaultInSlot(n)
    PROVE  Rules(m')
<1> DEFINE l == Later(n)  r == [l EXCEPT !.ip = {}, !.exl = TRUE, !.cycle = 0]
<1>1. Passes(n) /\ n \in Nat /\ m' = [r EXCEPT !.cycle = CycleOf(r, r.q)]
    BY LapseTypes DEF FaultInSlot, SkipJump
<1>2. (Level(l, 0) /\ l.cycle <= MaxLate) \/ Held(l)
    BY <1>1, LaterOpen, LaterHeld DEF Rules
<1>3. Whole(l)
    BY <1>1, LaterWhole
<1> HIDE DEF l
<1>4. l \in Machines /\ l.q \in Queues /\ l.cycle = CycleOf(l, l.q)
    BY <1>3, SoundFields DEF Whole, Current
<1>5. r.q = l.q /\ r.count = l.count /\ CycleOf(r, r.q) = CycleOf(l, l.q)
    BY <1>4 DEF Machines, CycleOf
<1>6. m' = [l EXCEPT !.ip = {}, !.exl = TRUE]
    BY <1>1, <1>4, <1>5 DEF Machines
<1>7. {} \in SUBSET Lines /\ TRUE \in BOOLEAN
    OBVIOUS
<1>8. m' \in Machines /\ SameClock(l, m') /\ m'.busy = l.busy /\ m'.exl
    BY <1>4, <1>6, <1>7 DEF Machines, SameClock
<1> HIDE DEF r
<1>9. ~Pending(m')
    BY <1>8 DEF Pending
<1> QED BY <1>2, <1>8, <1>9, FaultRules


LEMMA StartViOpen ==
    ASSUME WholeInv, m.disciplined, Open(m), NEW n \in Lapses, StartVi(n)
    PROVE  Open(m') /\ m'.disciplined = m.disciplined
<1> DEFINE o == Later(n)
<1>1. Passes(n) /\ ~Has(m.q, "VI") /\ m' = AddIn(o, "VI", ViDelay)
    BY DEF StartVi, Access, Queued, Has
<1>2. /\ Level(o, 0) /\ ~Pending(o) /\ o.cycle <= MaxLate /\ o.disciplined = m.disciplined
      /\ ~Has(o.q, "VI")
    BY <1>1, LaterOpen
<1>3. ViDelay \in 0 .. Half - 1
    BY InterruptsAssumption, ModulusTypes
<1> HIDE DEF o
<1>4. o \in Machines /\ SameClock(o, o) /\ o.busy \in BOOLEAN
  <2>1. o \in Machines
      BY <1>2, LevelFields
  <2> QED BY <2>1 DEF Machines, SameClock
<1>5. o.busy = ("VI" = "PI" \/ o.busy)
    BY <1>4
<1> QED BY <1>1, <1>2, <1>3, <1>4, <1>5, AddInOpen

LEMMA PiDmaOpen ==
    ASSUME WholeInv, m.disciplined, Open(m), NEW n \in Lapses,
           NEW cycles \in PiDelays, PiDma(n, cycles)
    PROVE  Open(m') /\ m'.disciplined = m.disciplined
<1> DEFINE o == Later(n)  r == [o EXCEPT !.busy = TRUE]
<1>1. Passes(n) /\ ~m.busy /\ m' = AddIn(r, "PI", cycles)
    BY DEF PiDma, Access
<1>2. /\ Level(o, 0) /\ ~Pending(o) /\ o.cycle <= MaxLate /\ o.disciplined = m.disciplined
      /\ o.busy = m.busy
    BY <1>1, LaterOpen
<1>3. cycles \in 0 .. Half - 1
    BY InterruptsAssumption
<1> HIDE DEF o
<1>4. o \in Machines /\ BusyQueued(o)
    BY <1>2, LevelFields
<1>5. ~Has(o.q, "PI")
    BY <1>1, <1>2, <1>4 DEF BusyQueued
<1>6. /\ r \in Machines /\ SameClock(o, r) /\ r.busy = TRUE /\ r.exl = o.exl
      /\ r.enabled = o.enabled /\ r.ip = o.ip /\ r.disciplined = o.disciplined
    BY <1>4 DEF Machines, SameClock
<1> HIDE DEF r
<1>7. ~Pending(r) /\ r.cycle <= MaxLate /\ ~Has(r.q, "PI")
    BY <1>2, <1>5, <1>6 DEF Pending, SameClock
<1>8. r.busy = ("PI" = "PI" \/ o.busy)
    BY <1>6
<1> QED BY <1>1, <1>2, <1>3, <1>6, <1>7, <1>8, AddInOpen

LEMMA CompareOpen ==
    ASSUME WholeInv, m.disciplined, Open(m), NEW n \in EarlyLapses,
           NEW c \in CompareValues, MTC0_COMPARE(n, c)
    PROVE  Open(m') /\ m'.disciplined = m.disciplined
<1> DEFINE o == Later(n)  b == AddCompare(remove_event(o, "COMPARE"), c)
           ips == b.ip \ {"timer"}
<1>1. Passes(n) /\ m' = [b EXCEPT !.compare = c, !.ip = @ \ {"timer"}]
    BY DEF MTC0_COMPARE, Access
<1>2. /\ Level(o, CountPerOp) /\ ~Pending(o) /\ o.cycle <= MaxLate /\ o.disciplined = m.disciplined
    BY <1>1, LaterEarly
<1>3. c \in Counts /\ o.cycle <= Slack
  <2>1. o.cycle \in Int
      BY <1>2, LevelFields
  <2> QED BY <1>2, <2>1, InterruptsAssumption, SlackTypes
<1> HIDE DEF o
<1>4. Level(b, CountPerOp) /\ b.cycle <= Slack /\ Aside(b) = Aside(o)
    BY <1>2, <1>3, CompareWritten
<1> HIDE DEF b
<1>5. b \in Machines /\ ~Pending(b) /\ b.disciplined = m.disciplined
  <2>1. b \in Machines
      BY <1>4, LevelFields
  <2>2. b.enabled = o.enabled /\ b.ip = o.ip /\ b.exl = o.exl /\ b.disciplined = o.disciplined
      BY <1>4 DEF Aside
  <2> QED BY <1>2, <2>1, <2>2 DEF Pending
<1>6. ips \in SUBSET Lines
    BY <1>5 DEF Machines
<1>7. m' = [b EXCEPT !.compare = c, !.ip = ips]
    BY <1>1, <1>5 DEF Machines
<1> HIDE DEF ips
<1>8. /\ m' \in Machines /\ SameClock(b, m') /\ m'.disciplined = b.disciplined
      /\ m'.busy = b.busy /\ m'.enabled = b.enabled /\ m'.exl = b.exl /\ m'.ip = ips
    BY <1>3, <1>5, <1>6, <1>7 DEF Machines, SameClock
<1>9. ~Pending(m')
    BY <1>5, <1>8 DEF Pending, ips
<1> QED BY <1>4, <1>5, <1>8, <1>9, RaisedOpen

LEMMA CountOpen ==
    ASSUME WholeInv, m.disciplined, Open(m), NEW n \in EarlyLapses,
           NEW c \in CountValues, MTC0_COUNT(n, c)
    PROVE  Open(m') /\ m'.disciplined = m.disciplined
<1> DEFINE o == Later(n)
<1>1. PICK r \in GenIfDue(o) : m' = Translated(r, c)
    BY DEF MTC0_COUNT
<1>2. Passes(n) /\ c \in Counts
    BY InterruptsAssumption DEF MTC0_COUNT, Access
<1>3. /\ Level(o, CountPerOp) /\ ~Pending(o) /\ o.cycle <= MaxLate /\ o.disciplined = m.disciplined
      /\ -MaxLate <= First(o).left
    BY <1>2, LaterEarly
<1> HIDE DEF o
<1>4. Open(r) /\ r.disciplined = m.disciplined
    BY <1>1, <1>3, GenIfDueOpen
<1> QED BY <1>1, <1>2, <1>4, TranslatedOpen


LEMMA RulesStep ==
    WholeInv /\ RulesInv /\ [Next]_vars => RulesInv'
<1> SUFFICES ASSUME WholeInv, RulesInv, [Next]_vars, m'.disciplined PROVE Rules(m')
    BY DEF RulesInv
<1>1. m.disciplined /\ Rules(m)
    BY WholeStep DEF RulesInv
<1>2. m \in Machines /\ m.line \in BOOLEAN /\ m.exl \in BOOLEAN
  <2>1. m \in Machines
      BY SoundFields DEF WholeInv, Whole
  <2> QED BY <2>1 DEF Machines
<1>3. ASSUME NEW n, Access(n) PROVE Passes(n) /\ Open(m)
    BY <1>1, <1>3, AccessOpen DEF Access
<1>4. CASE PiReset
  <2>1. ~m.busy /\ m' = [m EXCEPT !.busy = FALSE]
      BY <1>1, <1>4 DEF PiReset
  <2>2. m' = m
      BY <1>2, <2>1 DEF Machines
  <2> QED BY <1>1, <2>2
<1>5. CASE Signal \/ Clear
  <2>1. Access(0) /\ Open(m)
      BY <1>3, <1>5 DEF Signal, Clear
  <2>2. PICK l \in BOOLEAN : m' = Check([m EXCEPT !.line = l])
      BY <1>2, <1>5 DEF Signal, Clear
  <2> DEFINE r == [m EXCEPT !.line = l]
  <2>3. Whole(r) /\ SameClock(m, r) /\ r.busy = m.busy
      BY LineTypes
  <2> HIDE DEF r
  <2>4. Level(r, CountPerOp) /\ r.cycle = m.cycle
    <3>1. r \in Machines
        BY <2>3, SoundFields DEF Whole
    <3> QED BY <2>1, <2>3, <3>1, SameClockLevel DEF SameClock, Open
  <2>5. m.cycle <= MaxLate
    <3>1. m.cycle + 0 <= MaxLate /\ m.cycle \in Int
        BY <1>2, <2>1, MachineFields DEF Access, Passes
    <3> QED BY <3>1
  <2>6. m' = Check(r)
      BY <2>2 DEF r
  <2> QED BY <2>4, <2>5, <2>6, CheckRules DEF Rules
<1>6. CASE Fault
  <2>1. m' = [m EXCEPT !.ip = {}, !.exl = TRUE]
      BY <1>6 DEF Fault
  <2>2. {} \in SUBSET Lines /\ TRUE \in BOOLEAN
      OBVIOUS
  <2>3. m' \in Machines /\ SameClock(m, m') /\ m'.busy = m.busy /\ m'.exl
      BY <1>2, <2>1, <2>2 DEF Machines, SameClock
  <2>4. ~Pending(m')
      BY <2>3 DEF Pending
  <2>5. Open(m) \/ Held(m)
      BY <1>1 DEF Rules
  <2>6. CASE Open(m)
      BY <2>3, <2>4, <2>6, RaisedOpen DEF Open, Rules
  <2>7. CASE Held(m)
      BY <2>3, <2>4, <2>7, SameClockHeld DEF Rules
  <2> QED BY <2>5, <2>6, <2>7
<1>7. ASSUME NEW n \in Lapses, Jump(n) PROVE Rules(m')
    BY <1>1, <1>7, JumpRules DEF Rules
<1>8. ASSUME NEW n \in EarlyLapses, ERET(n) PROVE Rules(m')
  <2> DEFINE r == [Later(n) EXCEPT !.exl = FALSE]
  <2>1. Passes(n) /\ Open(m) /\ m' \in GenOrReload(Check(r))
      BY <1>1, <1>8, AccessOpen DEF ERET
  <2>2. Later(n) \in Machines /\ Later(n).disciplined = m.disciplined
      BY <2>1, LaterWhole, EarlyLapseTypes, SoundFields DEF Whole
  <2>3. /\ r \in Machines /\ SameClock(Later(n), r) /\ r.busy = Later(n).busy
        /\ r.disciplined = m.disciplined
      BY <2>2 DEF Machines, SameClock
  <2> HIDE DEF r
  <2>4. Check(r).disciplined = r.disciplined
    <3>1. Whole(r)
        BY <2>1, <2>3, LaterWhole, EarlyLapseTypes, SameClockWhole
    <3> QED BY <3>1, CheckWhole
  <2>5. \A x \in GenIfDue(Check(r)) : Open(x) /\ x.disciplined = Check(r).disciplined
      BY <1>1, <2>1, <2>3, <2>4, WrittenOpen
  <2> QED BY <2>1, <2>5, OpenReloads DEF Rules
<1>9. ASSUME NEW n \in Lapses, FaultInSlot(n) PROVE Rules(m')
    BY <1>1, <1>9, SlotRules
<1>10. ASSUME NEW n \in Lapses, StartVi(n) PROVE Rules(m')
    BY <1>1, <1>3, <1>10, StartViOpen DEF Rules, StartVi
<1>11. ASSUME NEW n \in Lapses, NEW cycles \in PiDelays, PiDma(n, cycles) PROVE Rules(m')
    BY <1>1, <1>3, <1>11, PiDmaOpen DEF Rules, PiDma
<1>12. ASSUME NEW n \in Lapses, WriteMask(n) PROVE Rules(m')
    BY <1>1, <1>3, <1>12, MaskedOpen DEF Rules, WriteMask
<1>13. ASSUME NEW n \in EarlyLapses, NEW c \in CompareValues, MTC0_COMPARE(n, c) PROVE Rules(m')
    BY <1>1, <1>3, <1>13, CompareOpen DEF Rules, MTC0_COMPARE
<1>14. ASSUME NEW n \in EarlyLapses, NEW c \in CountValues, MTC0_COUNT(n, c) PROVE Rules(m')
    BY <1>1, <1>3, <1>14, CountOpen DEF Rules, MTC0_COUNT
<1>15. ASSUME NEW n \in Lapses, NEW en \in SUBSET Lines, NEW exl \in BOOLEAN,
              MTC0_STATUS(n, en, exl)
       PROVE  Rules(m')
  <2> DEFINE r == [Later(n) EXCEPT !.enabled = en, !.exl = exl]
  <2>1. Passes(n) /\ Open(m) /\ m' \in GenIfDue(Check(r))
      BY <1>3, <1>15 DEF MTC0_STATUS
  <2>2. Later(n) \in Machines /\ Later(n).disciplined = m.disciplined
      BY <2>1, LaterWhole, LapseTypes, SoundFields DEF Whole
  <2>3. /\ r \in Machines /\ SameClock(Later(n), r) /\ r.busy = Later(n).busy
        /\ r.disciplined = m.disciplined
      BY <2>2 DEF Machines, SameClock
  <2> HIDE DEF r
  <2> QED BY <1>1, <2>1, <2>3, WrittenOpen DEF Rules, EarlyLapses
<1>16. CASE UNCHANGED vars
    BY <1>1, <1>16 DEF vars
<1> QED BY <1>4, <1>5, <1>6, <1>7, <1>8, <1>9, <1>10, <1>11, <1>12, <1>13, <1>14, <1>15,
           <1>16 DEF Next


LEMMA RulesInitially == Init => RulesInv
<1> SUFFICES ASSUME Init PROVE Rules(m)
    BY DEF RulesInv
<1>1. PICK x \in Disciplines : m = PowerOn(x)
    BY DEF Init
<1> DEFINE r == [count |-> FirstCount, compare |-> 0, cycle |-> 0, q |-> << >>,
                 enabled |-> {}, exl |-> FALSE, ip |-> {},
                 line |-> FALSE, busy |-> FALSE, disciplined |-> x]
           e == Event("COMPARE", 0, Match(r, 0))  f == SpecialEvent(r)
           a == AddSpecial(r)  s == Add(a, e)  b == Overdue(a.cycle)
<1>2. m = s
    BY <1>1 DEF PowerOn
<1>3. << >> \in Queues /\ Len(<< >>) = 0 /\ 0 < Capacity /\ Capacity \in Nat /\ Capacity >= 5
    BY BoundTypes DEF Queues
<1>4. /\ FirstCount \in Counts /\ 0 \in Counts /\ 0 \in -Half .. Half - 1 /\ x \in BOOLEAN
      /\ {} \in SUBSET Lines
    BY InterruptsAssumption, ModulusTypes DEF Counts
<1>5. /\ r \in Machines /\ r.q = << >> /\ r.cycle = 0 /\ r.enabled = {} /\ r.busy = FALSE
    BY <1>3, <1>4 DEF Machines
<1>6. /\ e \in Entries /\ e.type = "COMPARE" /\ e.left = Match(r, 0) /\ TimedAt(r.count, e)
      /\ Match(r, 0) \in CountPerOp .. Modulus - 1 + CountPerOp
    BY <1>4, <1>5, CompareTimed DEF CompareEvent
<1>7. /\ a = Add(r, f) /\ f \in Entries /\ f.type = "SPECIAL" /\ f.left \in 1 .. Half
      /\ f.left = SpecialDue(r.count) /\ TimedAt(r.count, f)
    BY <1>5, SpecialTimed DEF SpecialDue
<1> HIDE DEF r, e, f, a
<1>8. Sound(r) /\ Tidy(r) /\ \A t : ~Has(r.q, t)
    BY <1>3, <1>5 DEF Sound, Timed, AtMostOne, Has, Tidy, Turned
<1>9. Overdue(r.cycle) = 0 /\ 0 \in Turns
    BY <1>5 DEF Overdue, Turns
<1>10. Ordered(r.q, 0) /\ AllKeyed(r.q, 0, Overdue(r.cycle), 0)
    BY <1>3, <1>5 DEF Ordered, AllKeyed
<1>11. /\ Sound(a) /\ Current(a) /\ Tidy(a) /\ a.count = r.count /\ Aside(a) = Aside(r)
       /\ Len(a.q) = Len(r.q) + 1
       /\ \A t : Has(a.q, t) <=> Has(r.q, t) \/ t = f.type
       /\ Ordered(a.q, 0) /\ Framed(a.q, 0, a.cycle, 0) /\ a.cycle <= Slack
  <2>1. /\ Len(r.q) < Capacity /\ Overdue(r.cycle) <= Slack
        /\ f.type \notin {"COMPARE", "CHECK"} /\ f.left >= 0 /\ ~Has(r.q, f.type)
    <3>1. f.left >= 0
        BY <1>7, ModulusTypes
    <3>2. Len(r.q) < Capacity /\ Overdue(r.cycle) <= Slack
        BY <1>3, <1>5, <1>9, SlackTypes
    <3> QED BY <1>7, <1>8, <3>1, <3>2
  <2> QED BY <1>7, <1>8, <1>9, <1>10, <2>1, AddTidies
<1>12. /\ a \in Machines /\ a.q \in Queues /\ a.cycle \in Int /\ Len(a.q) < Capacity
       /\ ~Has(a.q, "COMPARE") /\ Has(a.q, "SPECIAL") /\ TimedAt(a.count, e)
       /\ \A i \in 1 .. Len(a.q) : TimedAt(a.count, a.q[i])
    BY <1>3, <1>5, <1>6, <1>7, <1>8, <1>11, SoundFields, MachineFields
<1>13. b \in Nat /\ b <= Slack /\ b < Half
    BY <1>11, <1>12, SlackTypes DEF Overdue
<1> HIDE DEF b
<1>14. PICK z \in Turns : Keyed(e, z, b, 0)
  <2>1. -b <= e.left - 0 /\ e.left - 0 < 2 * Modulus - b
    <3>1. e.left \in CountPerOp .. Modulus - 1 + CountPerOp
        BY <1>6
    <3>2. CountPerOp \in Nat /\ CountPerOp < Half
        BY BoundTypes
    <3> QED BY <1>13, <3>1, <3>2, ModulusTypes
  <2> QED BY <1>6, <1>13, <2>1, TimerKey
<1>15. Ordered(a.q, z) /\ AllKeyed(a.q, z, b, 0)
  <2>1. Ordered(a.q, z) /\ Framed(a.q, z, a.cycle, 0)
      BY <1>9, <1>11, <1>12, SameKeys
  <2> QED BY <1>12, <2>1, FramedKeyed DEF b
<1>16. /\ Sound(s) /\ Current(s) /\ s.count = a.count /\ Aside(s) = Aside(a)
       /\ \E p : Inserted(a.q, p, e, s.q)
       /\ \A t : Has(s.q, t) <=> Has(a.q, t) \/ t = e.type
    BY <1>6, <1>11, <1>12, AddSound
<1>17. Ordered(s.q, z) /\ AllKeyed(s.q, z, b, 0)
  <2>1. /\ e.count = (a.count + (e.left - 0)) % Modulus
        /\ \A i \in 1 .. Len(a.q) : a.q[i].count = (a.count + (a.q[i].left - 0)) % Modulus
    <3>1. e.left \in Int /\ \A i \in 1 .. Len(a.q) : a.q[i].left \in Int
        BY <1>6, <1>12, EntryFields DEF Entries
    <3>2. \A l \in Int : l - 0 = l
        OBVIOUS
    <3> QED BY <1>12, <3>1, <3>2 DEF TimedAt
  <2>2. 0 \in Nat
      OBVIOUS
  <2> QED BY <1>6, <1>12, <1>14, <1>15, <2>1, <2>2, AddOrders DEF b
<1> HIDE DEF s
<1>18. Framed(s.q, z, s.cycle, 0) /\ s.cycle <= b - 0
  <2>1. Has(s.q, "SPECIAL") /\ "SPECIAL" # "COMPARE" /\ 0 \in Nat
      BY <1>12, <1>16
  <2> QED BY <1>13, <1>16, <1>17, <2>1, Settles
<1>19. s.cycle <= Slack
  <2>1. s.cycle \in Int
      BY <1>16, SoundFields, MachineFields
  <2> QED BY <1>13, <1>18, <2>1, SlackTypes
<1>20. Tidy(s)
  <2>1. s.q \in Queues /\ ~Has(a.q, e.type) /\ e.type # "CHECK" /\ e.type # "SPECIAL"
      BY <1>6, <1>12, <1>16, SoundFields
  <2> QED BY <1>6, <1>11, <1>12, <1>16, <2>1, TidyInserted
<1>21. BusyQueued(s) /\ ~Pending(s) /\ Whole(s)
  <2>1. s.busy = FALSE /\ s.enabled = {}
      BY <1>5, <1>11, <1>16 DEF Aside
  <2>2. ~Has(s.q, "PI")
      BY <1>6, <1>7, <1>8, <1>11, <1>16
  <2>3. Has(s.q, "SPECIAL") /\ Has(s.q, "COMPARE")
      BY <1>6, <1>12, <1>16
  <2> QED BY <1>16, <2>1, <2>2, <2>3 DEF BusyQueued, Pending, Whole
<1>22. Level(s, 0)
    BY <1>16, <1>17, <1>18, <1>20, <1>21 DEF Level, Tidy
<1> QED BY <1>2, <1>19, <1>21, <1>22, LevelAhead DEF Rules, Open


LEMMA AlwaysRules == Spec => [](WholeInv /\ RulesInv)
<1>1. WholeInv /\ RulesInv /\ [Next]_vars => WholeInv' /\ RulesInv'
    BY WholeStep, RulesStep
<1> QED BY <1>1, WholeInitially, RulesInitially, PTL DEF Spec

(* No interrupt is lost: one the CPU could take has a CHECK that makes it  *)
(* take it, for programs that keep the rules.                              *)
THEOREM PendingAlwaysQueued == Spec => []PendingIsQueued
<1>1. ASSUME RulesInv PROVE PendingIsQueued
  <2> SUFFICES ASSUME m.disciplined, Pending(m) PROVE Queued(m, "CHECK")
      BY DEF PendingIsQueued
  <2>1. ~Open(m)
      BY DEF Open
  <2>2. Held(m)
      BY <1>1, <2>1 DEF RulesInv, Rules
  <2> QED BY <2>2, HeldQueued DEF Queued, Has
<1> QED BY <1>1, AlwaysRules, PTL

(* A DMA under way has the event that ends it.                             *)
THEOREM BusyAlwaysEnds == Spec => []BusyHasEvent
<1>1. ASSUME WholeInv, RulesInv PROVE BusyHasEvent
  <2> SUFFICES ASSUME m.disciplined, m.busy PROVE Has(m.q, "PI")
      BY DEF BusyHasEvent, Queued, Has
  <2>1. CASE Open(m)
      BY <2>1, LevelFields DEF Open, BusyQueued
  <2>2. CASE Held(m)
    <3> DEFINE a == remove_interrupt_event(m)
    <3>1. Whole(m) /\ Level(a, CountPerOp)
        BY <2>2 DEF Held, CheckFirst
    <3>2. /\ Dropped(m.q, 1, a.q) /\ Aside(a) = Aside(m) /\ m.q \in Queues
        BY <3>1, FirstTaken, SoundFields DEF Whole
    <3> HIDE DEF a
    <3>3. a.q \in Queues /\ BusyQueued(a) /\ a.busy = m.busy
        BY <3>1, <3>2, LevelFields DEF Aside
    <3>4. Has(a.q, "PI") => Has(m.q, "PI")
        BY <3>2, <3>3, DroppedTypes
    <3> QED BY <3>3, <3>4 DEF BusyQueued
  <2> QED BY <1>1, <2>1, <2>2 DEF RulesInv, Rules
<1> QED BY <1>1, AlwaysRules, PTL

(* An event that is due, the timer's too, makes the next jump call         *)
(* gen_interrupt, whatever has been written to Count and Compare since it  *)
(* was queued.                                                             *)
THEOREM DueAlwaysSeen == Spec => []DueIsSeen
<1>1. ASSUME WholeInv, RulesInv PROVE DueIsSeen
  <2> SUFFICES ASSUME m.disciplined, NEW i \in 1 .. Len(m.q), m.q[i].left <= 0
               PROVE  m.cycle >= 0
      BY DEF DueIsSeen
  <2>1. CASE Open(m)
    <3>1. /\ Level(m, CountPerOp) /\ Sound(m) /\ Current(m) /\ m.q \in Queues /\ m.cycle \in Int
          /\ Has(m.q, "SPECIAL")
        BY <2>1, LevelFields DEF Open
    <3>2. m.cycle <= Slack
        BY <2>1 DEF Open
    <3>3. PICK z \in Turns : Ordered(m.q, z) /\ Framed(m.q, z, m.cycle, CountPerOp)
        BY <3>1 DEF Level
    <3>4. 1 \in 1 .. Len(m.q) /\ 1 <= i
        BY <3>1 DEF Queues
    <3>5. /\ Key(z, m.q[1]) \in Int /\ Key(z, m.q[i]) \in Int /\ m.q[i].left \in Int
        BY <3>1, <3>4, EntryFields, KeyTypes
    <3>6. Key(z, m.q[i]) <= m.q[i].left
        BY <3>5, ModulusTypes DEF Key, Turns
    <3>7. Key(z, m.q[1]) <= Key(z, m.q[i]) /\ -m.cycle <= Key(z, m.q[1])
        BY <3>3, <3>4 DEF Ordered, Framed
    <3> QED BY <3>1, <3>5, <3>6, <3>7
  <2>2. CASE Held(m)
    <3>1. Whole(m) /\ First(m).type = "CHECK"
        BY <2>2 DEF Held, CheckFirst
    <3>2. First(m).left \in Int /\ First(m).left <= 0
        BY <3>1, FirstDue DEF TimedAt, InReach
    <3>3. m.cycle = -First(m).left
        BY <3>1, <3>2, FirstDue, ModulusTypes
    <3> QED BY <3>2, <3>3
  <2> QED BY <1>1, <2>1, <2>2 DEF RulesInv, Rules
<1> QED BY <1>1, AlwaysRules, PTL
=============================================================================
