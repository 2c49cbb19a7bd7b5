------------------------------ MODULE HashTrie ------------------------------
(***************************************************************************)
(* The hash tries of shared/code/hash/trie and their iterator.  A node is  *)
(* known by the path to it: the branches taken from the root, two bits of  *)
(* the hash each.  When the hash is used up its bits are zero, so that     *)
(* keys with one hash follow each other on the branch 0.  The map that     *)
(* numbers its keys is modelled; the others are the same without numbers.  *)
(* A loop may insert while it iterates.                                    *)
(***************************************************************************)
EXTENDS Integers, Sequences, FiniteSets, FiniteSetsExt

CONSTANTS
  Keys,      \* the keys, none of them empty
  Hashings,  \* the functions from keys to hashes considered; a hash is a sequence of branches
  NODE_MAX,  \* how many keys can be numbered: U16_MAX in the code
  MaxCalls   \* bound on the insertions

TrieAssumption == /\ Hashings \subseteq [Keys -> Seq(0 .. 3)] /\ Hashings # {}
                  /\ NODE_MAX \in Nat /\ MaxCalls \in Nat

VARIABLES
  hash,        \* the hash of every key
  node,        \* the nodes: [key, value] by path
  nodeCount,   \* how many keys there are
  jumped,      \* the numbers have run out and the caller's handler was entered
  pc,          \* whether an iteration is in a call to next
  head,        \* the iterator's stack of [set, index], the top first
  free,        \* its used nodes, kept for later: what their index was left at
  seen,        \* what the iteration has returned
  expected,    \* the keys there were when the iteration began
  inserted,    \* the number every key was given when it was inserted first
  calls

trie == <<hash, node, nodeCount, jumped, inserted>>
iterator == <<pc, head, free, seen, expected>>
vars == <<trie, iterator, calls>>

Paths == DOMAIN node
NONE == <<4>>

\* The path the first n branches of k's hash lead to.
PathOf(k, n) == [i \in 1 .. n |-> IF i <= Len(hash[k]) THEN hash[k][i] ELSE 0]

\* Variant with a defect: the hash is not shifted behind its second branch.
LookupStuck(k) ==
  LET stuck(n) == [i \in 1 .. n |-> IF hash[k] = <<>> THEN 0 ELSE hash[k][1]]
      ends == {n \in 0 .. Cardinality(Paths) :
                 stuck(n) \notin Paths \/ node[stuck(n)].key = k}
  IN PathOf(k, Min(ends))

\* Where the search for k ends: at its node, or where it will be inserted.
Lookup(k) ==
  LET ends == {n \in 0 .. Cardinality(Paths) :
                 PathOf(k, n) \notin Paths \/ node[PathOf(k, n)].key = k}
  IN PathOf(k, Min(ends))

-----------------------------------------------------------------------------

\* Variant with a defect: the number is given before it is counted up.
NumberOfOld == nodeCount
NumberOf == nodeCount + 1

trie_insertStringAutoU16Map(k) ==
  LET p == Lookup(k) IN
  /\ ~jumped /\ pc # "next" /\ calls < MaxCalls /\ calls' = calls + 1
  /\ \/ p \in Paths /\ UNCHANGED trie
     \/ /\ p \notin Paths /\ nodeCount = NODE_MAX
        /\ jumped' = TRUE /\ UNCHANGED <<hash, node, nodeCount, inserted>>
     \/ /\ p \notin Paths /\ nodeCount < NODE_MAX
        /\ node' = [q \in Paths \cup {p} |->
                      IF q = p THEN [key |-> k, value |-> NumberOf] ELSE node[q]]
        /\ nodeCount' = nodeCount + 1
        /\ inserted' = [inserted EXCEPT ![k] = NumberOf]
        /\ UNCHANGED <<hash, jumped>>
  /\ UNCHANGED iterator

trie_containsStringAutoU16Map(k) ==
  IF Lookup(k) \in Paths THEN node[Lookup(k)].value ELSE 0

-----------------------------------------------------------------------------

createIterator ==
  /\ ~jumped /\ pc = "idle" /\ calls < MaxCalls /\ calls' = calls + 1
  /\ head' = IF <<>> \in Paths THEN <<[set |-> <<>>, index |-> 0]>> ELSE <<>>
  /\ free' = <<>> /\ seen' = <<>> /\ expected' = {node[p].key : p \in Paths}
  /\ pc' = "body"
  /\ UNCHANGED trie

nextIterator ==
  /\ ~jumped /\ pc = "body" /\ pc' = "next"
  /\ UNCHANGED <<trie, head, free, seen, expected, calls>>

\* One turn of the loop in next: index is counted up in each.
Turn(index) == pc = "next" /\ head # <<>> /\ head[1].index = index
CountedUp == [head EXCEPT ![1].index = @ + 1]

ReturnData ==
  /\ Turn(0)
  /\ head' = CountedUp
  /\ seen' = Append(seen, node[head[1].set].key)
  /\ pc' = "body"
  /\ UNCHANGED <<trie, free, expected, calls>>

\* Variant with a defect: a used node is taken again with the index it was left at.
DescendStale ==
  \E index \in 1 .. 4 :
    LET child == Append(head[1].set, index - 1) IN
    /\ Turn(index)
    /\ IF child \in Paths
         THEN /\ head' = <<[set |-> child, index |-> IF free = <<>> THEN 0 ELSE Head(free)]>>
                          \o CountedUp
              /\ free' = IF free = <<>> THEN <<>> ELSE Tail(free)
         ELSE head' = CountedUp /\ UNCHANGED free
    /\ UNCHANGED <<trie, pc, seen, expected, calls>>

\* Down to a child if there is one, with a used node if there is one.
Descend ==
  \E index \in 1 .. 4 :
    LET child == Append(head[1].set, index - 1) IN
    /\ Turn(index)
    /\ IF child \in Paths
         THEN /\ head' = <<[set |-> child, index |-> 0]>> \o CountedUp
              /\ free' = IF free = <<>> THEN <<>> ELSE Tail(free)
         ELSE head' = CountedUp /\ UNCHANGED free
    /\ UNCHANGED <<trie, pc, seen, expected, calls>>

\* Variant with a defect: the node that is left stays on the stack.
AscendStays == Turn(5) /\ UNCHANGED vars

\* Variant with a defect: a node is left before its last child.
AscendEarly ==
  /\ Turn(4)
  /\ head' = Tail(head)
  /\ free' = <<5>> \o free
  /\ UNCHANGED <<trie, pc, seen, expected, calls>>

Ascend ==
  /\ Turn(5)
  /\ head' = Tail(head)
  /\ free' = <<6>> \o free
  /\ UNCHANGED <<trie, pc, seen, expected, calls>>

\* The loop over the elements ends.
IteratorEnds ==
  /\ pc = "next" /\ head = <<>>
  /\ pc' = "idle" /\ free' = <<>>
  /\ UNCHANGED <<trie, head, seen, expected, calls>>

Init ==
  /\ hash \in Hashings
  /\ node = [p \in {} |-> 0] /\ nodeCount = 0 /\ jumped = FALSE
  /\ inserted = [k \in Keys |-> 0]
  /\ pc = "idle" /\ head = <<>> /\ free = <<>> /\ seen = <<>> /\ expected = {}
  /\ calls = 0

Iterating == nextIterator \/ ReturnData \/ Descend \/ Ascend \/ IteratorEnds

Next ==
  \/ \E k \in Keys : trie_insertStringAutoU16Map(k)
  \/ createIterator \/ Iterating
  \/ (jumped \/ calls = MaxCalls) /\ pc # "next" /\ UNCHANGED vars

Spec == Init /\ [][Next]_vars

-----------------------------------------------------------------------------

\* The types of the trie and the iterator.
TypeOK ==
  /\ hash \in Hashings
  /\ Paths \subseteq Seq(0 .. 3) /\ \A p \in Paths : node[p].key \in Keys
  /\ nodeCount \in 0 .. NODE_MAX /\ jumped \in BOOLEAN
  /\ pc \in {"idle", "body", "next"} /\ seen \in Seq(Keys)
  /\ \A i \in DOMAIN head : head[i].set \in Paths /\ head[i].index \in 0 .. 5

\* A lookup returns the number its key was given when it was first inserted, and 0
\* for any other key, through every collision of hashes.
FindsMembers == \A k \in Keys : trie_containsStringAutoU16Map(k) = inserted[k]

\* The numbers are 1 .. nodeCount, so that none is the 0 that ends an iteration.
Numbered == {node[p].value : p \in Paths} = 1 .. nodeCount /\ Cardinality(Paths) = nodeCount

\* An iteration returns no key twice, even when keys are inserted meanwhile and
\* nodes of the iterator are used again.
VisitsOnce == \A i, j \in DOMAIN seen : seen[i] = seen[j] => i = j

\* An iteration that has ended has returned every key there was at its beginning.
VisitsAll ==
  pc = "idle" => expected \subseteq {seen[i] : i \in DOMAIN seen}
=============================================================================
