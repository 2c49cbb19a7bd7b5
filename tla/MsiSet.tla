------------------------------- MODULE MsiSet -------------------------------
(***************************************************************************)
(* The double-hashed open-addressing sets of shared/code/hash/msi, for two *)
(* sets that use the same hash.  A probe of the table goes on until it     *)
(* finds the key or an empty slot: it returns only if there is one on its  *)
(* path, which is for the caller and for indexLookup to see to.            *)
(***************************************************************************)
EXTENDS Integers, FiniteSets, FiniteSetsExt, Sequences

CONSTANTS
  Keys,      \* the strings, none of them empty
  BITS,      \* the width of a hash: 64 in the code
  Hashings,  \* the functions from keys to hashes considered
  MaxExp,    \* the exponent at which msi_newSet gives up: 31 in the code
  MaxCalls   \* bound on the calls made

MsiAssumption == /\ BITS \in Nat /\ Hashings \subseteq [Keys -> 0 .. 2^BITS - 1]
                 /\ MaxExp \in 1 .. BITS /\ MaxCalls \in Nat /\ "empty" \notin Keys

Sets == {1, 2}

VARIABLES
  hash,      \* the hash of every key
  set,       \* the two sets: [buf, exp, len]
  todo,      \* the keys of an outgrown table still to be rehashed, by set
  result,    \* what the last call returned
  members,   \* the keys inserted, by set
  calls

vars == <<hash, set, todo, result, members, calls>>

NONE == -1
Slots(exp) == 0 .. 2^exp - 1

\* Variant with a defect: the step may be even.
indexLookupEven(h, exp, i) == (i + h \div 2^(BITS - exp)) % 2^exp

\* The step is made of the highest bits of the hash and is odd.
indexLookup(h, exp, i) ==
  LET high == h \div 2^(BITS - exp) IN (i + high + (1 - (high % 2))) % 2^exp

\* The slots a probe for k visits: it is back at the first after at most 2^exp steps.
Probe(s, k) ==
  LET p[n \in 0 .. 2^set[s].exp] ==
        IF n = 0 THEN hash[k] ELSE indexLookup(hash[k], set[s].exp, p[n - 1])
  IN p

\* The slot where the probe for k ends, or NONE when it goes on for ever.
Slot(s, k) ==
  LET p == Probe(s, k)
      ends == {n \in 1 .. 2^set[s].exp : set[s].buf[p[n]] \in {"empty", k}}
  IN IF ends = {} THEN NONE ELSE p[Min(ends)]

Holds(s, k) == Slot(s, k) # NONE /\ set[s].buf[Slot(s, k)] = k

-----------------------------------------------------------------------------

\* Variant with a defect: a key that is there already is stored once more.
PutTwice(s, k) ==
  LET i == CHOOSE j \in Slots(set[s].exp) : set[s].buf[j] = "empty"
  IN set' = [set EXCEPT ![s].buf[i] = k, ![s].len = @ + 1] /\ result' = "true"

\* The body of an insertion.
Put(s, k) ==
  LET i == Slot(s, k) IN
  CASE i = NONE -> set' = set /\ result' = "spins"
    [] i # NONE /\ set[s].buf[i] = k -> set' = set /\ result' = "false"
    [] OTHER -> set' = [set EXCEPT ![s].buf[i] = k, ![s].len = @ + 1] /\ result' = "true"

\* The caller makes no call before an outgrown table is rehashed.
Call == todo = [s \in Sets |-> <<>>] /\ calls < MaxCalls /\ calls' = calls + 1

\* The caller grows a set that is half full before it inserts.
HalfFull(s) == 2 * set[s].len >= 2^set[s].exp

msi_insertString(s, k) ==
  /\ Call /\ ~HalfFull(s)
  /\ Put(s, k)
  /\ members' = [members EXCEPT ![s] = @ \cup {k}]
  /\ UNCHANGED <<hash, todo>>

msi_containsString(s, k) ==
  /\ Call
  /\ result' = CASE Slot(s, k) = NONE -> "spins"
                 [] Slot(s, k) # NONE /\ Holds(s, k) -> "true"
                 [] OTHER -> "false"
  /\ UNCHANGED <<hash, set, todo, members>>

Elements(s) == {set[s].buf[i] : i \in Slots(set[s].exp)} \ {"empty"}

\* Variant with a defect: only the elements of the first set are looked up.
ComparisonOneSided ==
  IF \E k \in Elements(1) : ~Holds(2, k) THEN "DIFFERENT_CONTENT" ELSE "SUCCESS"

Comparison ==
  CASE set[1].len # set[2].len -> "DIFFERENT_SIZES"
    [] set[1].len = set[2].len /\ \E k \in Elements(1) : ~Holds(2, k) -> "DIFFERENT_CONTENT"
    [] set[1].len = set[2].len /\ \E k \in Elements(2) : ~Holds(1, k) -> "DIFFERENT_CONTENT"
    [] OTHER -> "SUCCESS"

msi_equalsStringSet ==
  /\ Call
  /\ result' = Comparison
  /\ UNCHANGED <<hash, set, todo, members>>

Empty(exp) == [buf |-> [i \in Slots(exp) |-> "empty"], exp |-> exp, len |-> 0]

\* Variant with a defect: the empty slots are rehashed too.
msi_newSetAllSlots(s) ==
  /\ Call /\ HalfFull(s) /\ set[s].exp < MaxExp
  /\ set' = [set EXCEPT ![s] = Empty(@.exp + 1)]
  /\ todo' = [todo EXCEPT ![s] = [i \in 1 .. 2^set[s].exp |-> set[s].buf[i - 1]]]
  /\ UNCHANGED <<hash, result, members>>

\* msi_newSet for a set that has a buffer: it is empty and twice as large, and the
\* caller inserts again what the old buffer held.
msi_newSet(s) ==
  /\ Call /\ HalfFull(s) /\ set[s].exp < MaxExp
  /\ set' = [set EXCEPT ![s] = Empty(@.exp + 1)]
  /\ todo' = [todo EXCEPT ![s] = SelectSeq([i \in 1 .. 2^set[s].exp |-> set[s].buf[i - 1]],
                                           LAMBDA k : k # "empty")]
  /\ UNCHANGED <<hash, result, members>>

\* Variant with a defect: the last key of the old table is left behind.
RehashDropsLast(s) ==
  /\ todo[s] # <<>>
  /\ IF Len(todo[s]) = 1 THEN UNCHANGED <<set, result>> ELSE Put(s, Head(todo[s]))
  /\ todo' = [todo EXCEPT ![s] = Tail(@)]
  /\ UNCHANGED <<hash, members, calls>>

Rehash(s) ==
  /\ todo[s] # <<>>
  /\ Put(s, Head(todo[s]))
  /\ todo' = [todo EXCEPT ![s] = Tail(@)]
  /\ UNCHANGED <<hash, members, calls>>

Init ==
  /\ hash \in Hashings
  /\ set = [s \in Sets |-> Empty(s)]
  /\ todo = [s \in Sets |-> <<>>]
  /\ result = "true" /\ members = [s \in Sets |-> {}] /\ calls = 0

Next ==
  \/ \E s \in Sets :
       \/ msi_newSet(s) \/ Rehash(s)
       \/ \E k \in Keys : msi_insertString(s, k) \/ msi_containsString(s, k)
  \/ msi_equalsStringSet
  \/ calls = MaxCalls /\ UNCHANGED vars

Spec == Init /\ [][Next]_vars

-----------------------------------------------------------------------------

\* The types of the tables, the calls and the histories.
TypeOK ==
  /\ hash \in Hashings
  /\ \A s \in Sets : /\ set[s].exp \in 1 .. MaxExp /\ set[s].len \in Nat
                     /\ set[s].buf \in [Slots(set[s].exp) -> Keys \cup {"empty"}]
                     /\ todo[s] \in Seq(Keys) /\ members[s] \subseteq Keys
  /\ calls \in 0 .. MaxCalls

\* As long as the caller keeps the sets half empty, no probe goes on for ever: the
\* odd step leads to every slot of a table whose size is a power of two.
NeverSpins == result # "spins"

\* A key is found exactly when it was inserted, through collisions and rehashing.
FindsMembers ==
  \A s \in Sets : todo[s] = <<>> => \A k \in Keys : Holds(s, k) <=> k \in members[s]

\* len counts the keys of a set: none is stored twice.
LenCounts ==
  \A s \in Sets : set[s].len + Len(todo[s]) = Cardinality(members[s])

\* Two sets are reported equal exactly when the same keys were inserted, whatever the
\* sizes of their tables and the order of the insertions.
EqualMeansEqual ==
  (\A s \in Sets : todo[s] = <<>>) => (Comparison = "SUCCESS" <=> members[1] = members[2])
=============================================================================
