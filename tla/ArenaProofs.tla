--------------------------- MODULE ArenaProofs ---------------------------
(***************************************************************************)
(* The arena hands out disjoint, aligned memory inside its bounds, for     *)
(* every word size, arena and set of types.                                *)
(***************************************************************************)
EXTENDS Arena, TLAPS

\* Euclid's division, as % and \div round.
LEMMA Division ==
  ASSUME NEW x \in Int, NEW a \in Nat \ {0}
  PROVE  /\ x % a \in 0 .. a - 1 /\ x \div a \in Int
         /\ x = a * (x \div a) + (x % a)
  BY SMT

\* A number below the word size is its own remainder.
LEMMA SmallRemainder ==
  ASSUME NEW a \in Nat \ {0}, NEW x \in 0 .. a - 1
  PROVE  x % a = x
  BY SMT

\* A smaller factor gives a smaller product.
LEMMA Products ==
  ASSUME NEW a \in Nat \ {0}, NEW k \in Int, NEW m \in Int, k > m
  PROVE  a * k >= a * m + a
<1>1. PICK d \in Nat : k = m + 1 + d
  BY k - m - 1 \in Nat, k = m + 1 + (k - m - 1)
<1>2. a * k = a * m + a + a * d
  BY <1>1, SMT
<1>3. a * d >= 0
  BY SMT
<1> QED BY <1>2, <1>3, SMT

\* The padding that aligns an address stays below an aligned end.
LEMMA PaddingFits ==
  ASSUME NEW x \in Nat, NEW e \in Nat, NEW a \in Nat \ {0}, x <= e, e % a = 0
  PROVE  /\ (-x) % a \in 0 .. a - 1
         /\ x + ((-x) % a) <= e
         /\ (x + ((-x) % a)) % a = 0
<1> DEFINE r == (-x) % a
           k == 0 - ((-x) \div a)
           m == e \div a
<1>1. r \in 0 .. a - 1 /\ k \in Int /\ x + r = a * k
  <2>1. -x \in Int
    OBVIOUS
  <2>2. (-x) % a \in 0 .. a - 1 /\ (-x) \div a \in Int /\ -x = a * ((-x) \div a) + ((-x) % a)
    BY <2>1, Division
  <2>3. a * (0 - ((-x) \div a)) = 0 - a * ((-x) \div a)
    BY <2>2, SMT
  <2> QED BY <2>2, <2>3, SMT
<1>2. m \in Int /\ e = a * m
  BY Division, SMT
<1>3. k <= m
  <2> SUFFICES ASSUME k > m PROVE FALSE
    BY <1>1, <1>2
  <2>1. a * k >= a * m + a
    BY <1>1, <1>2, Products
  <2>2. a * k \in Int /\ a * m \in Int
    BY <1>1, <1>2
  <2> HIDE DEF r, k, m
  <2> QED BY <1>1, <1>2, <2>1, <2>2
<1>4. a * k <= a * m
  <2>1. CASE k = m
    BY <1>1, <1>2, <2>1
  <2>2. CASE m > k
    <3> HIDE DEF r, k, m
    <3>1. a * m >= a * k + a
      BY <1>1, <1>2, <2>2, Products
    <3>2. a * k \in Int /\ a * m \in Int
      BY <1>1, <1>2
    <3> QED BY <3>1, <3>2
  <2> QED
    <3> HIDE DEF r, k, m
    <3> QED BY <1>1, <1>2, <1>3, <2>1, <2>2
<1>5. (a * k) % a = 0
  <2> HIDE DEF r, k, m
  <2>1. a * k \in Int
    BY <1>1
  <2> DEFINE q == (a * k) \div a
             s == (a * k) % a
  <2>2. q \in Int /\ s \in 0 .. a - 1 /\ a * k = a * q + s
    BY <2>1, Division
  <2> HIDE DEF q, s
  <2>3. ~(k > q)
    <3> SUFFICES ASSUME k > q PROVE FALSE
      OBVIOUS
    <3>1. a * k >= a * q + a
      BY <1>1, <2>2, Products
    <3> QED BY <2>1, <2>2, <3>1
  <2>4. ~(q > k)
    <3> SUFFICES ASSUME q > k PROVE FALSE
      OBVIOUS
    <3>1. a * q >= a * k + a
      BY <1>1, <2>2, Products
    <3>2. a * q \in Int
      BY <2>2
    <3> QED BY <2>1, <2>2, <3>1, <3>2
  <2>5. k = q
    BY <1>1, <2>2, <2>3, <2>4
  <2>6. s = 0
    BY <2>1, <2>2, <2>5
  <2> QED BY <2>6 DEF s
<1> QED BY <1>1, <1>2, <1>4, <1>5

\* As many elements as fit take no more bytes than there are.
LEMMA WholeElements ==
  ASSUME NEW room \in Nat, NEW size \in Nat \ {0}, NEW count \in Nat,
         count <= room \div size
  PROVE  size * count \in 0 .. room
<1> DEFINE q == room \div size
<1>1. q \in Int /\ room % size \in 0 .. size - 1 /\ room = size * q + (room % size)
  BY Division
<1>2. size * count \in Nat /\ size * q \in Int
  BY <1>1
<1>3. size * count <= size * q
  <2> HIDE DEF q
  <2>1. CASE q = count
    BY <1>2, <2>1
  <2>2. CASE q > count
    <3>1. size * q >= size * count + size
      BY <1>1, <2>2, Products
    <3> QED BY <1>2, <3>1
  <2> QED BY <1>1, <2>1, <2>2 DEF q
<1> HIDE DEF q
<1> QED BY <1>1, <1>2, <1>3

-----------------------------------------------------------------------------
\* The invariant: the types, the bounds, and what is handed out is apart and aligned.
IInv == TypeOK /\ HandsOutApart

\* In a state of the invariant nothing in alloc wraps: the padding ends inside
\* the arena, and so do the elements that fit behind it.
LEMMA NoWrap ==
  ASSUME IInv,
         NEW size \in Sizes, NEW align \in Aligns, NEW count \in Counts,
         Fits(size, align, count)
  PROVE  LET p == curFree + padding(align) IN
         /\ p \in curFree .. END /\ p % align = 0
         /\ size * count \in 0 .. END - p
         /\ p % WORD = p
         /\ (size * count) % WORD = size * count
         /\ (p + size * count) % WORD = p + size * count
<1> DEFINE p == curFree + padding(align)
<1>1. /\ WORD \in Nat \ {0} /\ BEG \in Nat /\ END \in Nat /\ END < WORD
      /\ align \in Nat \ {0} /\ size \in Nat \ {0} /\ count \in Nat
      /\ END % align = 0
  BY ArenaAssumption
<1>2. curFree \in Nat /\ curFree <= END
  BY <1>1 DEF IInv, HandsOutApart
<1>3. /\ padding(align) \in 0 .. align - 1 /\ curFree + padding(align) <= END
      /\ (curFree + padding(align)) % align = 0
  BY <1>1, <1>2, PaddingFits DEF padding
<1>4. p \in curFree .. END /\ p % align = 0
  BY <1>1, <1>2, <1>3
<1>5. Room(align) = END - p
  <2>1. END - curFree \in 0 .. WORD - 1 /\ END - curFree - padding(align) \in 0 .. WORD - 1
    BY <1>1, <1>2, <1>3
  <2>2. Minus(END, curFree) = END - curFree
    BY <1>1, <2>1, SmallRemainder DEF Minus
  <2>3. Minus(END - curFree, padding(align)) = END - curFree - padding(align)
    BY <1>1, <2>1, SmallRemainder DEF Minus
  <2>4. END - curFree - padding(align) = END - p
    BY <1>1, <1>2, <1>3
  <2> QED BY <2>2, <2>3, <2>4 DEF Room
<1>6. size * count \in 0 .. END - p
  <2>1. END - p \in Nat
    BY <1>1, <1>2, <1>4
  <2>2. count <= (END - p) \div size
    BY <1>5 DEF Fits
  <2> HIDE DEF p
  <2> QED BY <1>1, <2>1, <2>2, WholeElements
<1>7. p \in 0 .. WORD - 1 /\ size * count \in 0 .. WORD - 1 /\ p + size * count \in 0 .. WORD - 1
  <2> HIDE DEF p
  <2> QED BY <1>1, <1>2, <1>4, <1>6
<1> HIDE DEF p
<1>8. /\ p % WORD = p /\ (size * count) % WORD = size * count
      /\ (p + size * count) % WORD = p + size * count
  BY <1>1, <1>7, SmallRemainder
<1> QED BY <1>4, <1>6, <1>8 DEF p

\* An allocation that fits preserves the invariant.
LEMMA AllocStep ==
  ASSUME IInv,
         NEW size \in Sizes, NEW align \in Aligns, NEW count \in Counts,
         alloc(size, align, count)
  PROVE  IInv'
<1> DEFINE p == curFree + padding(align)
           total == size * count
           new == [from |-> p, to |-> p + total, align |-> align]
<1>1. /\ p \in curFree .. END /\ p % align = 0 /\ total \in 0 .. END - p
      /\ p % WORD = p /\ total % WORD = total /\ (p + total) % WORD = p + total
  BY NoWrap DEF alloc
<1>2. /\ curFree' = p + total /\ jumped' = jumped
      /\ blocks' = blocks \cup {b \in {new} : total > 0}
  BY <1>1 DEF alloc
<1>3. /\ WORD \in Nat /\ BEG \in Nat /\ END \in Nat /\ END < WORD
      /\ curFree \in BEG .. END /\ p \in Nat /\ total \in Nat
      /\ p + total \in BEG .. END
  BY <1>1, ArenaAssumption DEF IInv, HandsOutApart
<1> HIDE DEF p, total
<1>4. ASSUME NEW b \in blocks
      PROVE  /\ b \in [from : 0 .. WORD - 1, to : 0 .. WORD - 1, align : Aligns]
             /\ BEG <= b.from /\ b.from < b.to /\ b.to <= curFree /\ b.from % b.align = 0
  BY DEF IInv, TypeOK, HandsOutApart
<1>5. ASSUME NEW b \in blocks'
      PROVE  b \in blocks \/ (b = new /\ total > 0)
  BY <1>2
<1>6. TypeOK'
  <2>1. new \in [from : 0 .. WORD - 1, to : 0 .. WORD - 1, align : Aligns]
    BY <1>3
  <2>2. blocks' \subseteq [from : 0 .. WORD - 1, to : 0 .. WORD - 1, align : Aligns]
    BY <1>4, <1>5, <2>1
  <2>3. curFree' \in 0 .. WORD - 1
    BY <1>2, <1>3
  <2> QED BY <1>2, <2>2, <2>3 DEF IInv, TypeOK
<1>7. ASSUME NEW b \in blocks'
      PROVE  /\ BEG <= b.from /\ b.from < b.to /\ b.to <= curFree'
             /\ b.from % b.align = 0
  <2>1. curFree <= p + total
    BY <1>1, <1>3
  <2> QED BY <1>1, <1>2, <1>3, <1>4, <1>5, <1>7, <2>1
<1>8. ASSUME NEW b \in blocks', NEW c \in blocks'
      PROVE  b = c \/ b.to <= c.from \/ c.to <= b.from
  <2>1. CASE b \in blocks /\ c \in blocks
    BY <2>1 DEF IInv, HandsOutApart
  <2>2. CASE b \in blocks /\ c = new
    <3>1. b.to <= curFree /\ b.to \in Int
      BY <1>4, <2>2
    <3> QED BY <1>1, <1>3, <2>2, <3>1
  <2>3. CASE b = new /\ c \in blocks
    <3>1. c.to <= curFree /\ c.to \in Int
      BY <1>4, <2>3
    <3> QED BY <1>1, <1>3, <2>3, <3>1
  <2> QED BY <1>5, <2>1, <2>2, <2>3
<1>9. HandsOutApart'
  BY <1>2, <1>3, <1>7, <1>8 DEF HandsOutApart
<1> QED BY <1>6, <1>9 DEF IInv

\* The invariant holds at first and is kept by every step of the arena.
THEOREM Invariance == Spec => []IInv
<1>1. ASSUME Init PROVE IInv
  <2>1. BEG \in BEG .. END /\ BEG \in 0 .. WORD - 1
    BY ArenaAssumption
  <2>2. curFree = BEG /\ blocks = {} /\ jumped = FALSE
    BY <1>1 DEF Init
  <2> QED BY <2>1, <2>2 DEF IInv, TypeOK, HandsOutApart
<1>2. IInv /\ [Next]_vars => IInv'
  <2> SUFFICES ASSUME IInv, [Next]_vars PROVE IInv'
    OBVIOUS
  <2>1. ASSUME NEW size \in Sizes, NEW align \in Aligns, NEW count \in Counts,
               alloc(size, align, count)
        PROVE  IInv'
    BY <2>1, AllocStep
  <2>2. ASSUME NEW size \in Sizes, NEW align \in Aligns, NEW count \in Counts,
               NEW nullptrOnFail \in BOOLEAN,
               allocFails(size, align, count, nullptrOnFail)
        PROVE  IInv'
    BY <2>2 DEF allocFails, IInv, TypeOK, HandsOutApart
  <2>3. CASE UNCHANGED vars
    BY <2>3 DEF vars, IInv, TypeOK, HandsOutApart
  <2> QED BY <2>1, <2>2, <2>3 DEF Next
<1> QED BY <1>1, <1>2, PTL DEF Spec

\* The arena never hands out memory outside its bounds, gives two callers the same
\* byte or misaligns a type: the subtraction of the padding, the product and the sum
\* in alloc do not wrap, for any arena whose end is aligned for the types allocated.
THEOREM ArenaApart == Spec => []HandsOutApart
<1>1. IInv => HandsOutApart
  BY DEF IInv
<1> QED BY <1>1, Invariance, PTL
=============================================================================
