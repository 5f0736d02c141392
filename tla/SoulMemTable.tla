---------------------------- MODULE SoulMemTable ----------------------------
(***************************************************************************)
(* The skip list of pkg/storage/memtable.go and its iterator.              *)
(*                                                                         *)
(* An insert holds MemTable.mu, and here takes a step for every store that *)
(* a goroutine without the lock can see: the value and then the tombstone  *)
(* of a node that exists, or the lowest link of a new node and the link to *)
(* it; the links above come with the last step.  Get takes the lock and is *)
(* an operator.  The iterator takes the lock only to be created, and then  *)
(* follows the lowest links beside the inserts; its caller reads the value *)
(* and the tombstone of each node in turn.  This is a data race: of a new  *)
(* node, until its insert lets go of the lock, a walk may read what was    *)
(* stored or find it not stored yet.                                       *)
(*                                                                         *)
(* A key is a number, in the order of bytes.Compare, and has length 1; a   *)
(* value is its length.                                                    *)
(***************************************************************************)
EXTENDS Integers, Sequences, FiniteSets, SequencesExt

CONSTANTS
    Key,
    Value,      \* lengths of the values put
    Nil,
    MaxLevel,   \* MemTableOptions.MaxLevel
    MaxInserts  \* bound: the inserts begun

ASSUME MemTableConstants ==
    /\ Key \subseteq Nat \ {0} /\ Value \subseteq Nat
    /\ MaxLevel \in Nat \ {0} /\ MaxInserts \in Nat

VARIABLES
    node,       \* the fields of each key's node, or Nil
    forward,    \* the links of the head and of each node, by level
    level,      \* MemTable.level
    sizeBytes,  \* MemTable.sizeBytes
    ins,        \* the insert that holds the lock, or Nil
    iter,       \* the walk under way, or Nil
    inserts

memVars == <<node, forward, level, sizeBytes, ins, inserts>>

head == 0
KeyLen == 1
Node == [value : Value \cup {0}, tombstone : BOOLEAN]

MemInit ==
    /\ node = [k \in Key |-> Nil]
    /\ forward = [n \in {head} \cup Key |-> [i \in 1..MaxLevel |-> Nil]]
    /\ level = 1 /\ sizeBytes = 0
    /\ ins = Nil /\ iter = Nil
-----------------------------------------------------------------------------
\* The last node before key at level i, from a node on.
Before(key, i, from) ==
    LET walk[n \in {head} \cup Key] ==
            IF forward[n][i] # Nil /\ forward[n][i] < key THEN walk[forward[n][i]] ELSE n
    IN  walk[from]

\* update: the node to link from at every level, found from the top level down.
Update(key) ==
    LET update[i \in 1..MaxLevel] ==
            IF i > level THEN head
            ELSE Before(key, i, IF i = level THEN head ELSE update[i + 1])
    IN  update

\* Where the search ends: the first node not before key.
Search(key) == forward[Update(key)[1]][1]
\* Get, as it answers once it has the lock.
MemGet(key) == IF Search(key) = key THEN node[key] ELSE Nil

\* The walk under way is told which keys inserts have changed since it began.
Touch(key) == iter' = IF iter = Nil THEN Nil ELSE [iter EXCEPT !.touched = @ \cup {key}]

\* A key that is there: its value is replaced, then its tombstone.
UpdateValue(key, value, tombstone) ==
    /\ ins = Nil /\ inserts < MaxInserts /\ Search(key) = key
    /\ node' = [node EXCEPT ![key].value = value]
    /\ ins' = [key |-> key, value |-> value, tombstone |-> tombstone, old |-> node[key]]
    /\ inserts' = inserts + 1 /\ Touch(key)
    /\ UNCHANGED <<forward, level, sizeBytes>>

Updating == ins # Nil /\ ins.old # Nil

\* Mutant: the size of the old value is not taken off.
UpdateTombstoneGrows ==
    /\ Updating
    /\ node' = [node EXCEPT ![ins.key].tombstone = ins.tombstone]
    /\ sizeBytes' = sizeBytes + ins.value
    /\ ins' = Nil
    /\ UNCHANGED <<forward, level, iter, inserts>>
\* Mutant: only Delete stores the tombstone, and a Put leaves it as it was.
UpdateTombstoneOnDelete ==
    /\ Updating
    /\ node' = [node EXCEPT ![ins.key].tombstone = @ \/ ins.tombstone]
    /\ sizeBytes' = sizeBytes + (KeyLen + ins.value) - (KeyLen + ins.old.value)
    /\ ins' = Nil
    /\ UNCHANGED <<forward, level, iter, inserts>>
UpdateTombstone ==
    /\ Updating
    /\ node' = [node EXCEPT ![ins.key].tombstone = ins.tombstone]
    /\ sizeBytes' = sizeBytes + (KeyLen + ins.value) - (KeyLen + ins.old.value)
    /\ ins' = Nil
    /\ UNCHANGED <<forward, level, iter, inserts>>

\* Mutant: a node higher than the list does not raise its level.
NewNodeLevelKept(key, value, tombstone, height) ==
    /\ ins = Nil /\ inserts < MaxInserts /\ Search(key) # key
    /\ node' = [node EXCEPT ![key] = [value |-> value, tombstone |-> tombstone]]
    /\ ins' = [key |-> key, value |-> value, tombstone |-> tombstone, old |-> Nil,
               from |-> SubSeq(Update(key), 1, height), next |-> "forward"]
    /\ inserts' = inserts + 1 /\ Touch(key)
    /\ UNCHANGED <<forward, level, sizeBytes>>
\* A key that is not: a node of a random height, not linked yet.
NewNode(key, value, tombstone, height) ==
    /\ ins = Nil /\ inserts < MaxInserts /\ Search(key) # key
    /\ node' = [node EXCEPT ![key] = [value |-> value, tombstone |-> tombstone]]
    /\ level' = IF height > level THEN height ELSE level
    /\ ins' = [key |-> key, value |-> value, tombstone |-> tombstone, old |-> Nil,
               from |-> SubSeq(Update(key), 1, height), next |-> "forward"]
    /\ inserts' = inserts + 1 /\ Touch(key)
    /\ UNCHANGED <<forward, sizeBytes>>

Linking(next) == ins # Nil /\ ins.old = Nil /\ ins.next = next

\* Mutant: the new node is linked to none.
SetForwardNone ==
    /\ Linking("forward")
    /\ ins' = [ins EXCEPT !.next = "link"]
    /\ UNCHANGED <<node, forward, level, sizeBytes, iter, inserts>>
\* newNode.forward[0] = update[0].forward[0]
SetForward ==
    /\ Linking("forward")
    /\ forward' = [forward EXCEPT ![ins.key][1] = forward[ins.from[1]][1]]
    /\ ins' = [ins EXCEPT !.next = "link"]
    /\ UNCHANGED <<node, level, sizeBytes, iter, inserts>>

\* update[0].forward[0] = newNode
Link ==
    /\ Linking("link")
    /\ forward' = [forward EXCEPT ![ins.from[1]][1] = ins.key]
    /\ ins' = [ins EXCEPT !.next = "above"]
    /\ UNCHANGED <<node, level, sizeBytes, iter, inserts>>

\* The same at the levels above, the size, and the lock let go.
LinkAbove ==
    /\ Linking("above")
    /\ forward' = [n \in DOMAIN forward |-> [i \in 1..MaxLevel |->
                        CASE i \in 2..Len(ins.from) /\ n = ins.key -> forward[ins.from[i]][i]
                          [] i \in 2..Len(ins.from) /\ n = ins.from[i] -> ins.key
                          [] OTHER -> forward[n][i]]]
    /\ sizeBytes' = sizeBytes + KeyLen + ins.value
    /\ ins' = Nil
    /\ UNCHANGED <<node, level, iter, inserts>>

\* The heights randomLevel may return.
randomLevel == 1..MaxLevel
\* Put and Delete: Delete stores no value.
Put(key, value) ==
    \/ UpdateValue(key, value, FALSE)
    \/ \E height \in randomLevel : NewNode(key, value, FALSE, height)
Delete(key) ==
    \/ UpdateValue(key, 0, TRUE)
    \/ \E height \in randomLevel : NewNode(key, 0, TRUE, height)
-----------------------------------------------------------------------------
\* A walk stands on the head; since is what Get answered when it began.
Iterator ==
    /\ iter = Nil /\ ins = Nil
    /\ iter' = [curr |-> head, walked |-> <<>>, read |-> "node",
                since |-> [k \in Key |-> MemGet(k)], touched |-> {}]
    /\ UNCHANGED memVars

\* What a walk may read in a field of the node it stands on: what is stored, or what
\* the field was before, if the node is new and its insert has not let go of the lock.
Read(stored, before) ==
    {stored} \cup IF ins # Nil /\ ins.old = Nil /\ ins.key = iter.curr THEN {before} ELSE {}
ReadLink == Read(forward[iter.curr][1], Nil)

\* The loop of BuildSSTable: Next, then the length of the value, then the tombstone.
IteratorNext ==
    /\ iter # Nil /\ iter.read = "node"
    /\ \E n \in ReadLink \ {Nil} : iter' = [iter EXCEPT !.curr = n, !.read = "value"]
    /\ UNCHANGED memVars
ReadValue ==
    /\ iter # Nil /\ iter.read = "value"
    /\ \E v \in Read(node[iter.curr].value, 0) :
        iter' = [iter EXCEPT !.walked = Append(@, [key |-> iter.curr, value |-> v, tombstone |-> FALSE]),
                             !.read = "tombstone"]
    /\ UNCHANGED memVars
ReadTombstone ==
    /\ iter # Nil /\ iter.read = "tombstone"
    /\ \E t \in Read(node[iter.curr].tombstone, FALSE) :
        iter' = [iter EXCEPT !.walked[Len(iter.walked)].tombstone = t, !.read = "node"]
    /\ UNCHANGED memVars

Insert ==
    \/ \E k \in Key, v \in Value : Put(k, v)
    \/ \E k \in Key : Delete(k)
    \/ UpdateTombstone
    \/ SetForward
    \/ Link
    \/ LinkAbove
-----------------------------------------------------------------------------
\* The map the skip list holds, and the insert that has the lock: Get's answers,
\* with the key of that insert as it was before.
Contents == [k \in Key |-> IF ins # Nil /\ ins.key = k THEN ins.old ELSE MemGet(k)]
Pending ==
    IF ins = Nil THEN Nil
    ELSE [key |-> ins.key, record |-> [value |-> ins.value, tombstone |-> ins.tombstone]]

\* Whatever the heights and the order of the inserts, Get finds the last record put
\* or deleted under a key: when an insert lets go of the lock its key has its own
\* record, and through all its stores no other key has changed.  The searches that
\* skip levels and the links set while they do agree with a sorted map.
Map == INSTANCE SortedMap WITH Record <- Node, Absent <- Nil, map <- Contents, pending <- Pending
ImplementsMap == Map!Spec

\* sizeBytes is the bytes of the keys and values held, through every mix of
\* inserts, overwrites with longer and shorter values and deletes.
SizeIsExact ==
    ins = Nil =>
        sizeBytes = FoldSet(LAMBDA k, sum : sum + KeyLen + node[k].value, 0,
                            {k \in Key : MemGet(k) # Nil})

\* An iterator beside inserts returns keys in ascending order, and has passed over
\* no key that was there when it began: the links from where it stands lead to the rest.
IteratorMissesNothing ==
    iter # Nil =>
        LET passed == [i \in DOMAIN iter.walked |-> iter.walked[i].key]
        IN  /\ \A i \in 2..Len(passed) : passed[i - 1] < passed[i]
            /\ \A k \in {q \in Key : iter.since[q] # Nil} :
                    k \in ToSet(passed) \cup {iter.curr}
                    \/ (k > iter.curr /\ forward[iter.curr][1] # Nil)
=============================================================================
