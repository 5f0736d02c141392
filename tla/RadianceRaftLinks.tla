------------------------- MODULE RadianceRaftLinks --------------------------
(***************************************************************************)
(* Links, votes and steps of RadianceRaft, for every set of nodes and      *)
(* every bound: the lemmas that the other proofs share.                    *)
(*                                                                         *)
(* AppendEntries joins a call to a log where the terms agree, so the joint *)
(* is a link of the call: no step but Submit makes a link. If the index    *)
(* and the term of an entry determine its link, they determine the one     *)
(* below it, and so the whole log up to it.                                *)
(***************************************************************************)
EXTENDS RadianceRaftInvariant, TLAPS

-----------------------------------------------------------------------------
(* Sequences. *)

\* What is in a sequence.
LEMMA ElementOfSeq ==
    ASSUME NEW S, NEW s \in Seq(S), NEW k \in 1..Len(s)
    PROVE  s[k] \in S
OBVIOUS

\* A sequence has a length.
LEMMA LenProperties ==
    ASSUME NEW S, NEW s \in Seq(S)
    PROVE  Len(s) \in Nat /\ s \in [1..Len(s) -> S] /\ DOMAIN s = 1..Len(s)
OBVIOUS

\* Append adds at the end.
LEMMA AppendProperties ==
    ASSUME NEW S, NEW s \in Seq(S), NEW e \in S
    PROVE  /\ Append(s, e) \in Seq(S) /\ Len(Append(s, e)) = Len(s) + 1
           /\ \A k \in 1..Len(s) : Append(s, e)[k] = s[k]
           /\ Append(s, e)[Len(s) + 1] = e
OBVIOUS

\* A part of a sequence.
LEMMA SubSeqProperties ==
    ASSUME NEW S, NEW s, NEW a \in Int, NEW b \in Int, \A k \in a..b : s[k] \in S
    PROVE  /\ SubSeq(s, a, b) \in Seq(S)
           /\ Len(SubSeq(s, a, b)) = IF a <= b THEN b - a + 1 ELSE 0
           /\ \A k \in 1..(b - a + 1) : SubSeq(s, a, b)[k] = s[a + k - 1]
OBVIOUS

\* Two sequences one after the other.
LEMMA ConcatProperties ==
    ASSUME NEW S, NEW s \in Seq(S), NEW t \in Seq(S)
    PROVE  /\ s \o t \in Seq(S) /\ Len(s \o t) = Len(s) + Len(t)
           /\ \A k \in 1..(Len(s) + Len(t)) :
                 (s \o t)[k] = IF k <= Len(s) THEN s[k] ELSE t[k - Len(s)]
OBVIOUS

\* A function on the first n numbers is a sequence.
LEMMA IsASeq ==
    ASSUME NEW S, NEW n \in Nat, NEW f \in [1..n -> S]
    PROVE  f \in Seq(S) /\ Len(f) = n
OBVIOUS

\* Sequences with the same elements are equal.
LEMMA SeqEqual ==
    ASSUME NEW S, NEW s \in Seq(S), NEW t \in Seq(S), Len(s) = Len(t),
           \A k \in 1..Len(s) : s[k] = t[k]
    PROVE  s = t
OBVIOUS

-----------------------------------------------------------------------------
(* Logs, majorities and votes. *)

\* The append loop of AppendEntries keeps a log a log, and leaves in it every
\* index the call carries.
LEMMA AppendNewType ==
    ASSUME NEW l \in Seq(Entry), NEW entries \in Seq(Entry), NEW prev \in 0..Len(l)
    PROVE  /\ AppendNew(l, prev, entries) \in Seq(Entry)
           /\ Len(AppendNew(l, prev, entries)) >= prev + Len(entries)
<1> DEFINE C == Conflicts(l, prev, entries)
           n == prev + Len(entries)
           f == [k \in 1..n |-> IF \A c \in C : k < prev + c THEN l[k] ELSE entries[k - prev]]
<1>1. Len(l) \in Nat /\ Len(entries) \in Nat /\ n \in Nat
  OBVIOUS
<1>2. CASE C = {}
  <2>1. AppendNew(l, prev, entries) = l  BY Zenon, <1>2 DEF AppendNew
  <2>2. Len(l) >= n
    <3>1. CASE Len(entries) = 0  BY <3>1
    <3>2. CASE Len(entries) # 0
      <4>1. Len(entries) \in 1..Len(entries)  BY <3>2, <1>1
      <4>2. ~(prev + Len(entries) > Len(l))  BY Zenon, <4>1, <1>2 DEF Conflicts
      <4> QED BY <4>2
    <3> QED BY Zenon, <3>1, <3>2
  <2> QED BY Zenon, <2>1, <2>2
<1>3. CASE C # {}
  <2>1. AppendNew(l, prev, entries) = f  BY Zenon, <1>3 DEF AppendNew
  <2>2. ASSUME NEW k \in 1..n PROVE f[k] \in Entry
    <3>1. CASE \A c \in C : k < prev + c
      <4>1. k <= Len(l)
        <5>1. CASE k <= prev  BY <5>1
        <5>2. CASE k > prev
          <6>1. k - prev \in 1..Len(entries) /\ prev + (k - prev) = k  BY <5>2, <1>1
          <6>2. k - prev \notin C  BY <3>1, <6>1
          <6> QED BY <6>1, <6>2 DEF Conflicts
        <5> QED BY <5>1, <5>2
      <4>2. f[k] = l[k]  BY Zenon, <3>1
      <4> QED BY <4>1, <4>2, ElementOfSeq
    <3>2. CASE ~ \A c \in C : k < prev + c
      <4>1. PICK c \in C : ~(k < prev + c)  BY Zenon, <3>2
      <4>2. c \in 1..Len(entries)  BY Zenon, <4>1 DEF Conflicts
      <4>3. k - prev \in 1..Len(entries)  BY <4>1, <4>2, <1>1
      <4>4. f[k] = entries[k - prev]  BY Zenon, <3>2
      <4> QED BY Zenon, <4>3, <4>4, ElementOfSeq
    <3> QED BY Zenon, <3>1, <3>2
  <2>3. f \in [1..n -> Entry]  BY Zenon, <2>2
  <2>4. f \in Seq(Entry) /\ Len(f) = n  BY Zenon, <2>3, <1>1, IsASeq
  <2> QED BY <2>1, <2>4, <1>1
<1> QED BY Zenon, <1>2, <1>3

\* The last entry's term is a number: 0 for the dummy entry.
LEMMA LastTermType == ASSUME NEW l \in Seq(Entry) PROVE LastTerm(l) \in Nat
<1>1. CASE Len(l) = 0  BY Zenon, <1>1 DEF LastTerm, TermAt
<1>2. CASE Len(l) # 0
  <2>1. l[Len(l)] \in Entry  BY <1>2, ElementOfSeq
  <2> QED BY Zenon, <1>2, <2>1 DEF LastTerm, TermAt, Entry
<1> QED BY Zenon, <1>1, <1>2

\* Majorities do not depend on the state.
LEMMA MajoritiesStay == Majorities' <=> Majorities
BY Zenon DEF Majorities, IsMajority

\* A term is won once.
LEMMA WonOnce ==
    ASSUME Majorities, OneVote, NEW i \in Server, NEW k \in Server, NEW t \in Nat, Won(i, t), Won(k, t)
    PROVE  i = k
<1>1. PICK Q \in SUBSET Server : IsMajority(Q) /\ \A j \in Q : Voted(j, i, t)
  BY Zenon DEF Won
<1>2. PICK R \in SUBSET Server : IsMajority(R) /\ \A j \in R : Voted(j, k, t)
  BY Zenon DEF Won
<1>3. PICK j \in Server : j \in Q /\ j \in R
  BY Zenon, <1>1, <1>2 DEF Majorities
<1> QED BY Zenon, <1>1, <1>2, <1>3 DEF OneVote

\* The invariant is election safety.
LEMMA VoteInvSafe == TypeOK /\ VoteInv => ElectionSafety
<1> SUFFICES ASSUME TypeOK, VoteInv PROVE ElectionSafety
  BY Zenon
<1>1. ASSUME NEW i \in Server, NEW k \in Server, role[i] = "Leader", role[k] = "Leader",
             currentTerm[i] = currentTerm[k]
      PROVE  i = k
  <2>1. currentTerm[i] \in Nat
    BY Zenon DEF TypeOK
  <2>2. CASE Server = {i} \/ Server = {k}
    BY Zenon, <2>2
  <2>3. CASE Won(i, currentTerm[i]) /\ Won(k, currentTerm[k])
    BY Zenon, <1>1, <2>1, <2>3, WonOnce DEF VoteInv
  <2> QED BY Zenon, <1>1, <2>2, <2>3 DEF VoteInv, LeaderWon
<1>2. ASSUME NEW m1 \in appendCalls, NEW m2 \in appendCalls, m1.term = m2.term
      PROVE  m1.from = m2.from
  <2>1. m1.from \in Server /\ m2.from \in Server /\ m1.term \in Nat
    BY Zenon DEF TypeOK, AppendEntriesArgs
  <2>2. Won(m1.from, m1.term) /\ Won(m2.from, m1.term)
    BY Zenon, <1>2 DEF VoteInv, CallWon
  <2> QED BY Zenon, <2>1, <2>2, WonOnce DEF VoteInv
<1> QED BY Zenon, <1>1, <1>2 DEF ElectionSafety

\* No vote is ever taken back.
LEMMA VotesStay ==
    ASSUME voteCalls \subseteq voteCalls', voteReplies \subseteq voteReplies'
    PROVE  /\ \A i, j, t : Voted(j, i, t) => Voted(j, i, t)'
           /\ \A i, t : Won(i, t) => Won(i, t)'
<1>1. \A i, j, t : Voted(j, i, t) => Voted(j, i, t)'
  BY Zenon DEF Voted
<1>2. ASSUME NEW i, NEW t, Won(i, t) PROVE Won(i, t)'
  <2>1. PICK Q \in SUBSET Server : IsMajority(Q) /\ \A j \in Q : Voted(j, i, t)
    BY Zenon, <1>2 DEF Won
  <2>2. \A j \in Q : Voted(j, i, t)'
    BY Zenon, <1>1, <2>1
  <2>3. IsMajority(Q)'
    BY Zenon, <2>1 DEF IsMajority
  <2> QED BY Zenon, <2>2, <2>3 DEF Won
<1> QED BY Zenon, <1>1, <1>2

-----------------------------------------------------------------------------
(* Induction down an interval, and what links say of a sequence of entries. *)

\* WellOrdered does not depend on the state.
LEMMA WellOrderedStays == WellOrdered' <=> WellOrdered
BY Zenon DEF WellOrdered

\* What goes down from n one by one reaches every number as far as b.
LEMMA Downward ==
    ASSUME WellOrdered, NEW b \in Nat, NEW n \in Nat, NEW T, n \in T,
           \A x \in b..n : x > b /\ x \in T => x - 1 \in T
    PROVE  \A x \in b..n : x \in T
<1> DEFINE D == {d \in Nat : n - d >= b /\ n - d \notin T}
<1> SUFFICES ASSUME NEW x \in b..n, x \notin T PROVE FALSE
  BY Zenon
<1>1. n - x \in D
  BY SMTT(30)
<1>2. PICK d \in D : \A e \in D : d <= e
  <2>1. D \in SUBSET Nat /\ D # {}
    BY Zenon, <1>1
  <2> HIDE DEF D
  <2> QED BY Zenon, <2>1 DEF WellOrdered
<1>3. d \in Nat /\ n - d >= b /\ n - d \notin T
  BY Zenon, <1>2
<1>4. d # 0
  BY <1>3
<1>5. d - 1 \in Nat /\ d - 1 \notin D
  BY <1>2, <1>3, <1>4
<1>6. n - (d - 1) \in T /\ n - (d - 1) \in b..n /\ n - (d - 1) > b
  BY <1>3, <1>4, <1>5
<1>7. (n - (d - 1)) - 1 \in T
  BY Zenon, <1>6
<1> QED BY <1>3, <1>7

\* The term of an entry, or of the place before the first, is a number.
LEMMA TermAtType ==
    ASSUME NEW l \in Seq(Entry), NEW k \in 0..Len(l)
    PROVE  TermAt(l, k) \in Nat
<1>1. CASE k = 0  BY Zenon, <1>1 DEF TermAt
<1>2. CASE k # 0
  <2>1. k \in 1..Len(l)  BY <1>2
  <2>2. l[k] \in Entry  BY Zenon, <2>1, ElementOfSeq
  <2> QED BY Zenon, <1>2, <2>2 DEF TermAt, Entry
<1> QED BY Zenon, <1>1, <1>2

\* The fields of a link of a log.
LEMMA LinkFields ==
    ASSUME NEW l \in Seq(Entry), NEW k \in 1..Len(l)
    PROVE  /\ Link(l, k) \in LinkRecord
           /\ Link(l, k).index = k /\ Link(l, k).entry = l[k]
           /\ Link(l, k).entry.term = TermAt(l, k)
           /\ Link(l, k).prev = TermAt(l, k - 1)
           /\ TermAt(l, k) \in Nat /\ TermAt(l, k - 1) \in Nat
<1>1. l[k] \in Entry /\ k \in Nat /\ k # 0 /\ k \in 0..Len(l) /\ k - 1 \in 0..Len(l)
  BY ElementOfSeq
<1>2. TermAt(l, k - 1) \in Nat /\ TermAt(l, k) \in Nat
  BY Zenon, <1>1, TermAtType
<1>3. TermAt(l, k) = l[k].term
  BY Zenon, <1>1 DEF TermAt
<1> QED BY Zenon, <1>1, <1>2, <1>3 DEF Link, LinkRecord

\* Terms do not fall along a log made of ordered links.
LEMMA TermsGrow ==
    ASSUME WellOrdered, NEW L, Ordered(L), NEW l \in Seq(Entry), LinksOf(l) \subseteq L,
           NEW x \in Nat, NEW y \in 0..Len(l), x <= y
    PROVE  TermAt(l, x) <= TermAt(l, y)
<1> DEFINE T == {z \in 0..y : TermAt(l, z) <= TermAt(l, y)}
<1>1. Len(l) \in Nat /\ y \in Nat
  OBVIOUS
<1>2. \A z \in 0..Len(l) : TermAt(l, z) \in Nat
  BY Zenon, TermAtType
<1>3. y \in T
  BY <1>1, <1>2
<1>4. ASSUME NEW z \in 0..y, z > 0, z \in T PROVE z - 1 \in T
  <2>1. z \in 1..Len(l) /\ z - 1 \in 0..y /\ z - 1 \in 0..Len(l) /\ z \in 0..Len(l)
    BY <1>1, <1>4
  <2>2. Link(l, z) \in L
    BY Zenon, <2>1 DEF LinksOf
  <2>3. TermAt(l, z - 1) <= TermAt(l, z)
    BY Zenon, <2>1, <2>2, LinkFields DEF Ordered
  <2> QED BY <1>2, <1>4, <2>1, <2>3
<1> HIDE DEF T
<1>5. \A z \in 0..y : z \in T
  BY Zenon, <1>1, <1>3, <1>4, Downward
<1> QED BY <1>1, <1>5 DEF T

\* Two logs with entries of the same term at an index have the same link there.
LEMMA SameLink ==
    ASSUME NEW L, Unique(L), NEW l1 \in Seq(Entry), NEW l2 \in Seq(Entry),
           LinksOf(l1) \subseteq L, LinksOf(l2) \subseteq L,
           NEW x \in Nat, x # 0, x <= Len(l1), x <= Len(l2), TermAt(l1, x) = TermAt(l2, x)
    PROVE  Link(l1, x) = Link(l2, x)
<1>1. x \in 1..Len(l1) /\ x \in 1..Len(l2)
  OBVIOUS
<1>2. Link(l1, x) \in L /\ Link(l2, x) \in L
  BY Zenon, <1>1 DEF LinksOf
<1>3. /\ Link(l1, x).index = Link(l2, x).index
      /\ Link(l1, x).entry.term = Link(l2, x).entry.term
  BY <1>1, LinkFields
<1> QED BY Zenon, <1>2, <1>3 DEF Unique

\* Then they agree up to it.
LEMMA PrefixAgree ==
    ASSUME WellOrdered, NEW L, Unique(L), NEW l1 \in Seq(Entry), NEW l2 \in Seq(Entry),
           LinksOf(l1) \subseteq L, LinksOf(l2) \subseteq L,
           NEW k \in Nat, k <= Len(l1), k <= Len(l2), TermAt(l1, k) = TermAt(l2, k)
    PROVE  /\ \A x \in 1..k : Link(l1, x) = Link(l2, x)
           /\ \A x \in 1..k : l1[x] = l2[x]
           /\ \A x \in 0..k : TermAt(l1, x) = TermAt(l2, x)
           /\ SubSeq(l1, 1, k) = SubSeq(l2, 1, k)
<1> DEFINE T == {x \in 0..k : TermAt(l1, x) = TermAt(l2, x)}
<1>1. k \in T
  OBVIOUS
<1>2. ASSUME NEW x \in 0..k, x > 0, x \in T PROVE x - 1 \in T
  <2>1. Link(l1, x) = Link(l2, x)
    BY <1>2, SameLink
  <2>2. x \in 1..Len(l1) /\ x \in 1..Len(l2) /\ x - 1 \in 0..k
    BY <1>2
  <2> QED BY SMTT(30), <2>1, <2>2, LinkFields
<1> HIDE DEF T
<1>3. \A x \in 0..k : x \in T
  BY Zenon, <1>1, <1>2, Downward
<1>4. \A x \in 0..k : TermAt(l1, x) = TermAt(l2, x)
  BY Zenon, <1>3 DEF T
<1>5. ASSUME NEW x \in 1..k PROVE Link(l1, x) = Link(l2, x) /\ l1[x] = l2[x]
  <2>1. x \in 1..Len(l1) /\ x \in 1..Len(l2) /\ x \in 0..k /\ x \in Nat /\ x # 0
    OBVIOUS
  <2>2. Link(l1, x) = Link(l2, x)
    BY <1>4, <2>1, SameLink
  <2>3. Link(l1, x).entry = l1[x] /\ Link(l2, x).entry = l2[x]
    BY Zenon DEF Link
  <2> QED BY Zenon, <2>2, <2>3
<1>6. SubSeq(l1, 1, k) = SubSeq(l2, 1, k)
  <2>1. \A x \in 1..k : l1[x] \in Entry /\ l2[x] \in Entry
    BY ElementOfSeq
  <2>2. /\ SubSeq(l1, 1, k) \in Seq(Entry) /\ Len(SubSeq(l1, 1, k)) = k
        /\ \A x \in 1..k : SubSeq(l1, 1, k)[x] = l1[x]
    BY <2>1, SubSeqProperties
  <2>3. /\ SubSeq(l2, 1, k) \in Seq(Entry) /\ Len(SubSeq(l2, 1, k)) = k
        /\ \A x \in 1..k : SubSeq(l2, 1, k)[x] = l2[x]
    BY <2>1, SubSeqProperties
  <2> QED BY Zenon, <1>5, <2>2, <2>3, SeqEqual
<1> QED BY Zenon, <1>4, <1>5, <1>6

\* A log that reaches the end of a call has all that the call carries.
LEMMA CallAgree ==
    ASSUME WellOrdered, NEW L, Unique(L), NEW m \in AppendEntriesArgs, CallLinks(m) \subseteq L,
           NEW l \in Seq(Entry), LinksOf(l) \subseteq L,
           EndIndex(m) <= Len(l), TermAt(l, EndIndex(m)) = EndTerm(m)
    PROVE  \A k \in 1..Len(m.entries) : l[m.prevLogIndex + k].term = m.entries[k].term
<1> DEFINE p == m.prevLogIndex
           n == Len(m.entries)
           T == {k \in 1..n : TermAt(l, p + k) = m.entries[k].term}
<1>1. p \in Nat /\ n \in Nat /\ m.entries \in Seq(Entry) /\ p + n <= Len(l)
  BY DEF AppendEntriesArgs, EndIndex
<1>2. CASE n = 0
  BY <1>2
<1>3. CASE n # 0
  <2>1. n \in T
    BY <1>1, <1>3 DEF EndIndex, EndTerm
  <2>2. ASSUME NEW k \in 1..n, k > 1, k \in T PROVE k - 1 \in T
    <3>1. p + k \in 1..Len(l) /\ k - 1 \in 1..n /\ p + (k - 1) = (p + k) - 1
      BY SMTT(30), <1>1, <2>2
    <3>2. Link(l, p + k) \in L /\ CallLink(m, k) \in L
      BY Zenon, <3>1 DEF LinksOf, CallLinks
    <3>3. /\ CallLink(m, k).index = p + k /\ CallLink(m, k).entry = m.entries[k]
          /\ CallLink(m, k).prev = m.entries[k - 1].term
      BY <2>2 DEF CallLink
    <3>4. /\ Link(l, p + k).index = p + k /\ Link(l, p + k).prev = TermAt(l, (p + k) - 1)
          /\ Link(l, p + k).entry.term = m.entries[k].term
      BY Zenon, <2>2, <3>1, LinkFields
    <3>5. Link(l, p + k) = CallLink(m, k)
      BY Zenon, <3>2, <3>3, <3>4 DEF Unique
    <3> QED BY Zenon, <3>1, <3>3, <3>4, <3>5
  <2> HIDE DEF T
  <2>3. \A k \in 1..n : k \in T
    BY Zenon, <1>1, <2>1, <2>2, Downward
  <2>4. ASSUME NEW k \in 1..n PROVE l[p + k].term = m.entries[k].term
    <3>1. p + k # 0
      BY <1>1
    <3>2. TermAt(l, p + k) = m.entries[k].term
      BY Zenon, <2>3 DEF T
    <3> QED BY Zenon, <3>1, <3>2 DEF TermAt
  <2> QED BY Zenon, <2>4
<1> QED BY Zenon, <1>2, <1>3

\* A log that reaches an entry of the term of a link, at its index or later,
\* has the link.
LEMMA RunContains ==
    ASSUME WellOrdered, NEW L \in SUBSET LinkRecord, Unique(L), Runs(L),
           NEW l \in Seq(Entry), LinksOf(l) \subseteq L,
           NEW a \in L, a.index # 0, NEW n \in 0..Len(l), a.index <= n,
           TermAt(l, n) = a.entry.term
    PROVE  a.index \in 1..Len(l) /\ Link(l, a.index) = a
<1> DEFINE k == a.index
           t == a.entry.term
           T == {x \in k..n : TermAt(l, x) = t}
<1>1. k \in Nat /\ n \in Nat /\ Len(l) \in Nat
  BY DEF LinkRecord
<1>2. n \in T
  BY <1>1
<1>3. ASSUME NEW x \in k..n, x > k, x \in T PROVE x - 1 \in T
  <2>1. x \in 1..Len(l) /\ x - 1 \in k..n
    BY <1>1, <1>3
  <2>2. Link(l, x) \in L
    BY Zenon, <2>1 DEF LinksOf
  <2>3. Link(l, x).index = x /\ Link(l, x).entry.term = t /\ Link(l, x).prev = TermAt(l, x - 1)
    BY Zenon, <1>3, <2>1, LinkFields
  <2>4. Link(l, x).prev = t
    BY Zenon, <1>3, <2>2, <2>3 DEF Runs
  <2> QED BY Zenon, <2>1, <2>3, <2>4
<1> HIDE DEF T
<1>4. \A x \in k..n : x \in T
  BY Zenon, <1>1, <1>2, <1>3, Downward
<1>5. k \in 1..Len(l) /\ TermAt(l, k) = t
  BY <1>1, <1>4 DEF T
<1>6. Link(l, k) \in L /\ Link(l, k).index = k /\ Link(l, k).entry.term = t
  BY Zenon, <1>5, LinkFields DEF LinksOf
<1> QED BY Zenon, <1>5, <1>6 DEF Unique

\* If no link of a later term passes a link by, a log that reaches as far as it has it.
LEMMA Contains ==
    ASSUME WellOrdered, NEW L \in SUBSET LinkRecord, Unique(L), Runs(L),
           NEW l \in Seq(Entry), LinksOf(l) \subseteq L,
           NEW a \in L, a.index # 0, NEW n \in 0..Len(l), AtLeast(n, TermAt(l, n), a),
           \A b \in L : b.entry.term > a.entry.term => AtLeast(b.index - 1, b.prev, a)
    PROVE  a.index \in 1..n /\ Link(l, a.index) = a
<1> DEFINE t == a.entry.term
<1>1. a.index \in Nat /\ t \in Nat /\ n \in Nat /\ Len(l) \in Nat
  BY DEF LinkRecord, Entry
<1>2. CASE TermAt(l, n) = t
  <2>1. a.index <= n
    BY SMTT(30), <1>1, <1>2 DEF AtLeast
  <2> QED BY <1>1, <1>2, <2>1, RunContains
<1>3. CASE TermAt(l, n) > t
  <2> DEFINE S == {x \in 0..n : TermAt(l, x) > t}
  <2>1. S \in SUBSET Nat /\ S # {}
    BY <1>1, <1>3
  <2>2. PICK x \in S : \A y \in S : x <= y
    <3> HIDE DEF S
    <3> QED BY Zenon, <2>1 DEF WellOrdered
  <2>3. x \in 0..n /\ TermAt(l, x) > t
    BY Zenon, <2>2
  <2>4. x # 0
    BY <1>1, <2>3 DEF TermAt
  <2>5. x \in 1..Len(l) /\ x - 1 \in 0..n /\ x - 1 \in 0..Len(l)
    BY <1>1, <2>3, <2>4
  <2>6. x - 1 \notin S
    BY <1>1, <2>2, <2>3, <2>5
  <2>7. TermAt(l, x - 1) \in Nat
    BY Zenon, <2>5, LinkFields
  <2>8. TermAt(l, x - 1) <= t
    BY <1>1, <2>5, <2>6, <2>7
  <2>9. /\ Link(l, x) \in L /\ Link(l, x).entry.term > t
        /\ Link(l, x).index = x /\ Link(l, x).prev = TermAt(l, x - 1)
    BY Zenon, <2>3, <2>5, LinkFields DEF LinksOf
  <2>10. AtLeast(x - 1, TermAt(l, x - 1), a)
    BY Zenon, <2>9
  <2>11. TermAt(l, x - 1) = t /\ a.index <= x - 1
    BY <1>1, <2>7, <2>8, <2>10 DEF AtLeast
  <2>12. a.index \in 1..Len(l) /\ Link(l, a.index) = a
    BY Zenon, <2>5, <2>11, RunContains
  <2> QED BY SMTT(30), <1>1, <2>3, <2>11, <2>12
<1> QED BY Zenon, <1>2, <1>3 DEF AtLeast

\* A log reaches as far as each of its points.
LEMMA CoversPoint ==
    ASSUME WellOrdered, NEW L, Ordered(L), NEW l \in Seq(Entry), LinksOf(l) \subseteq L,
           NEW n \in Nat, n <= Len(l), NEW a \in LinkRecord, AtLeast(n, TermAt(l, n), a)
    PROVE  Covers(l, a)
<1>1. a.index \in Nat /\ a.entry.term \in Nat /\ Len(l) \in Nat
  BY DEF LinkRecord, Entry
<1>2. TermAt(l, n) \in Nat /\ TermAt(l, Len(l)) \in Nat
  BY <1>1, TermAtType
<1>3. TermAt(l, n) <= TermAt(l, Len(l))
  BY <1>1, TermsGrow
<1> QED BY <1>1, <1>2, <1>3 DEF AtLeast, Covers, LastTerm

\* The append loop of AppendEntries changes nothing in a log that holds the call.
LEMMA AppendNewSame ==
    ASSUME NEW l \in Seq(Entry), NEW m \in AppendEntriesArgs, EndIndex(m) <= Len(l),
           \A k \in 1..Len(m.entries) : l[m.prevLogIndex + k].term = m.entries[k].term
    PROVE  AppendNew(l, m.prevLogIndex, m.entries) = l
<1>1. m.prevLogIndex \in Nat /\ Len(m.entries) \in Nat /\ Len(l) \in Nat
  BY DEF AppendEntriesArgs
<1>2. \A k \in 1..Len(m.entries) : ~ (m.prevLogIndex + k > Len(l))
  BY SMTT(30), <1>1 DEF EndIndex
<1>3. Conflicts(l, m.prevLogIndex, m.entries) = {}
  BY Zenon, <1>2 DEF Conflicts
<1> QED BY Zenon, <1>3 DEF AppendNew

\* The append loop of AppendEntries makes no new link, and leaves a log that
\* reaches the end of the call.
LEMMA AppendNewLinks ==
    ASSUME WellOrdered,
           NEW l \in Seq(Entry), NEW m \in AppendEntriesArgs, PrevMatches(m, l),
           NEW n \in Seq(Entry), n = AppendNew(l, m.prevLogIndex, m.entries)
    PROVE  /\ LinksOf(n) \subseteq LinksOf(l) \cup CallLinks(m)
           /\ EndIndex(m) <= Len(n) /\ TermAt(n, EndIndex(m)) = EndTerm(m)
           /\ n = l \/ Len(n) = EndIndex(m)
<1> DEFINE p == m.prevLogIndex
           s == m.entries
           C == Conflicts(l, p, s)
<1>1. /\ p \in Nat /\ s \in Seq(Entry) /\ Len(s) \in Nat /\ Len(l) \in Nat
      /\ p \in 0..Len(l) /\ TermAt(l, p) = m.prevLogTerm /\ EndIndex(m) = p + Len(s)
  BY DEF AppendEntriesArgs, PrevMatches, EndIndex
<1>2. n \in Seq(Entry) /\ Len(n) >= p + Len(s)
  BY Zenon, <1>1, AppendNewType
<1>3. C \subseteq 1..Len(s)
  BY Zenon DEF Conflicts
<1>4. \A k \in 1..Len(s) : k \notin C => p + k <= Len(l) /\ l[p + k].term = s[k].term
  BY <1>1 DEF Conflicts
<1>5. CASE C = {}
  <2>1. n = l
    BY Zenon, <1>5 DEF AppendNew
  <2>2. TermAt(l, p + Len(s)) = EndTerm(m)
    <3>1. CASE Len(s) = 0
      BY <1>1, <3>1 DEF EndTerm
    <3>2. CASE Len(s) # 0
      <4>1. Len(s) \in 1..Len(s) /\ p + Len(s) # 0
        BY <1>1, <3>2
      <4>2. l[p + Len(s)].term = s[Len(s)].term
        BY Zenon, <1>4, <1>5, <4>1
      <4> QED BY Zenon, <3>2, <4>1, <4>2 DEF EndTerm, TermAt
    <3> QED BY Zenon, <3>1, <3>2
  <2> QED BY Zenon, <1>1, <1>2, <2>1, <2>2
<1>6. CASE C # {}
  <2>1. PICK c \in C : \A d \in C : c <= d
    <3>1. C \in SUBSET Nat
      BY <1>3
    <3> QED BY Zenon, <1>6, <3>1 DEF WellOrdered
  <2>2. c \in 1..Len(s) /\ c \in Nat
    BY <1>3, <2>1
  <2>3. n = [k \in 1..(p + Len(s)) |-> IF \A d \in C : k < p + d THEN l[k] ELSE s[k - p]]
    BY Zenon, <1>6 DEF AppendNew
  <2>4. Len(n) = p + Len(s)
    <3>1. DOMAIN n = 1..Len(n) /\ Len(n) \in Nat
      BY Zenon, <1>2, LenProperties
    <3>2. DOMAIN n = 1..(p + Len(s))
      BY Zenon, <2>3
    <3>3. p + Len(s) \in Nat
      BY SMTT(30), <1>1
    <3> QED BY <3>1, <3>2, <3>3
  <2>5. ASSUME NEW k \in 1..(p + Len(s)), k < p + c
        PROVE  n[k] = l[k] /\ k <= Len(l)
    <3>1. \A d \in C : k < p + d
      BY <1>1, <1>3, <2>1, <2>2, <2>5
    <3>2. n[k] = l[k]
      BY Zenon, <2>3, <3>1
    <3>3. k <= Len(l)
      <4>1. CASE k <= p
        BY <1>1, <4>1
      <4>2. CASE k > p
        <5>1. k - p \in 1..Len(s) /\ p + (k - p) = k /\ k - p < c
          BY SMTT(30), <1>1, <2>2, <2>5, <4>2
        <5>2. k - p \notin C
          BY <2>1, <2>2, <5>1
        <5> QED BY Zenon, <1>4, <5>1, <5>2
      <4> QED BY <1>1, <4>1, <4>2
    <3> QED BY Zenon, <3>2, <3>3
  <2>6. ASSUME NEW k \in 1..(p + Len(s)), k >= p + c
        PROVE  n[k] = s[k - p]
    <3>1. ~ \A d \in C : k < p + d
      BY SMTT(30), <1>1, <2>1, <2>2, <2>6
    <3> QED BY Zenon, <2>3, <3>1
  <2>7. ASSUME NEW x \in 0..(p + c - 1)
        PROVE  TermAt(n, x) = TermAt(l, x)
    <3>1. CASE x = 0
      BY Zenon, <3>1 DEF TermAt
    <3>2. CASE x # 0
      <4>1. x \in 1..(p + Len(s)) /\ x < p + c
        BY SMTT(30), <1>1, <2>2, <3>2
      <4> QED BY Zenon, <2>5, <3>2, <4>1 DEF TermAt
    <3> QED BY Zenon, <3>1, <3>2
  <2>8. ASSUME NEW k \in 1..Len(n) PROVE Link(n, k) \in LinksOf(l) \cup CallLinks(m)
    <3>1. k \in 1..(p + Len(s)) /\ k \in Nat
      BY <2>4
    <3>2. CASE k < p + c
      <4>1. n[k] = l[k] /\ k \in 1..Len(l)
        BY SMTT(30), <2>5, <3>1, <3>2
      <4>2. TermAt(n, k - 1) = TermAt(l, k - 1)
        BY SMTT(30), <1>1, <2>2, <2>7, <3>1, <3>2
      <4>3. Link(n, k) = Link(l, k)
        BY Zenon, <4>1, <4>2 DEF Link
      <4> QED BY Zenon, <4>1, <4>3 DEF LinksOf
    <3>3. CASE k >= p + c
      <4>1. k - p \in 1..Len(s) /\ p + (k - p) = k
        BY SMTT(30), <1>1, <2>2, <3>1, <3>3
      <4>2. n[k] = s[k - p]
        BY Zenon, <2>6, <3>1, <3>3
      <4>3. TermAt(n, k - 1) = IF k - p = 1 THEN m.prevLogTerm ELSE s[(k - p) - 1].term
        <5> HIDE DEF p, s, C
        <5>1. CASE k = p + c
          <6>1. k - 1 \in 0..(p + c - 1) /\ k - p = c
            BY <1>1, <2>2, <5>1
          <6>2. TermAt(n, k - 1) = TermAt(l, k - 1)
            BY Zenon, <2>7, <6>1
          <6>3. CASE c = 1
            <7>1. k - 1 = p
              BY <1>1, <5>1, <6>3
            <7> QED BY Zenon, <1>1, <6>1, <6>2, <6>3, <7>1
          <6>4. CASE c # 1
            <7>1. c - 1 \in 1..Len(s) /\ c - 1 < c /\ p + (c - 1) = k - 1 /\ k - 1 # 0
              BY <1>1, <2>2, <5>1, <6>4
            <7>2. c - 1 \notin C
              BY <2>1, <2>2, <7>1
            <7>3. l[k - 1].term = s[c - 1].term
              BY Zenon, <1>4, <7>1, <7>2
            <7> QED BY Zenon, <6>1, <6>2, <6>4, <7>1, <7>3 DEF TermAt
          <6> QED BY Zenon, <6>3, <6>4
        <5>2. CASE k > p + c
          <6>1. k - 1 \in 1..(p + Len(s)) /\ k - 1 >= p + c /\ (k - 1) - p = (k - p) - 1
            BY SMTT(30), <1>1, <2>2, <3>1, <5>2
          <6>2. n[k - 1] = s[(k - p) - 1]
            BY Zenon, <2>6, <6>1
          <6>3. k - p # 1 /\ k - 1 # 0
            BY <1>1, <2>2, <3>1, <5>2
          <6> QED BY Zenon, <6>2, <6>3 DEF TermAt
        <5> QED BY <1>1, <2>2, <3>1, <3>3, <5>1, <5>2
      <4>4. Link(n, k) = CallLink(m, k - p)
        BY Zenon, <4>1, <4>2, <4>3 DEF Link, CallLink
      <4> QED BY Zenon, <4>1, <4>4 DEF CallLinks
    <3> QED BY SMTT(30), <1>1, <2>2, <3>1, <3>2, <3>3
  <2>9. TermAt(n, p + Len(s)) = EndTerm(m)
    <3>1. p + Len(s) \in 1..(p + Len(s)) /\ p + Len(s) >= p + c /\ (p + Len(s)) - p = Len(s)
          /\ Len(s) # 0 /\ p + Len(s) # 0
      BY SMTT(30), <1>1, <2>2
    <3>2. n[p + Len(s)] = s[Len(s)]
      BY Zenon, <2>6, <3>1
    <3> QED BY Zenon, <3>1, <3>2 DEF TermAt, EndTerm
  <2>10. LinksOf(n) \subseteq LinksOf(l) \cup CallLinks(m)
    BY Zenon, <2>8 DEF LinksOf
  <2> QED BY Zenon, <1>1, <1>2, <2>4, <2>9, <2>10
<1> QED BY Zenon, <1>5, <1>6

\* The calls broadcastHeartbeats starts are made of links of the log, and end
\* where it ends.
LEMMA BroadcastLinks ==
    ASSUME NEW i \in Server, NEW term \in Nat, NEW ilog \in Seq(Entry),
           NEW next \in [Server -> Nat],
           \A j \in Peers(i) : next[j] \in 1..(Len(ilog) + 1),
           NEW m \in broadcastHeartbeats(i, term, ilog, next)
    PROVE  /\ m.from = i /\ m.to \in Peers(i) /\ m.term = term
           /\ m.leaderCommit = commitIndex[i]
           /\ EndIndex(m) = Len(ilog) /\ EndTerm(m) = LastTerm(ilog)
           /\ CallLinks(m) \subseteq LinksOf(ilog)
           /\ next[m.to] <= Len(ilog) => Link(ilog, Len(ilog)) \in CallLinks(m)
<1>1. PICK j \in Peers(i) :
        m = [from |-> i, to |-> j, term |-> term,
             prevLogIndex |-> IF next[j] < 1 THEN 0 ELSE next[j] - 1,
             prevLogTerm |-> TermAt(ilog, IF next[j] < 1 THEN 0 ELSE next[j] - 1),
             entries |-> SubSeq(ilog, (IF next[j] < 1 THEN 0 ELSE next[j] - 1) + 1, Len(ilog)),
             leaderCommit |-> commitIndex[i]]
  BY Zenon DEF broadcastHeartbeats
<1> DEFINE q == next[j]
           s == SubSeq(ilog, q, Len(ilog))
<1>2. q \in Nat /\ q >= 1 /\ q <= Len(ilog) + 1 /\ Len(ilog) \in Nat /\ (q - 1) + 1 = q
  BY DEF Peers
<1>3. (IF next[j] < 1 THEN 0 ELSE next[j] - 1) = q - 1
  BY <1>2
<1>4. /\ m.from = i /\ m.to = j /\ m.term = term /\ m.leaderCommit = commitIndex[i]
      /\ m.prevLogIndex = q - 1 /\ m.prevLogTerm = TermAt(ilog, q - 1) /\ m.entries = s
  BY Zenon, <1>1, <1>2, <1>3
<1>5. /\ s \in Seq(Entry) /\ Len(s) = Len(ilog) - q + 1
      /\ \A k \in 1..Len(s) : s[k] = ilog[q + k - 1]
  <2>1. \A k \in q..Len(ilog) : ilog[k] \in Entry
    BY SMTT(30), <1>2, ElementOfSeq
  <2> QED BY SMTT(30), <1>2, <2>1, SubSeqProperties
<1> HIDE DEF q, s
<1>6. EndIndex(m) = Len(ilog)
  BY <1>2, <1>4, <1>5 DEF EndIndex
<1>7. EndTerm(m) = LastTerm(ilog)
  <2>1. CASE Len(s) = 0
    <3>1. q - 1 = Len(ilog)
      BY <1>2, <1>5, <2>1
    <3> QED BY Zenon, <1>4, <2>1, <3>1 DEF EndTerm, LastTerm
  <2>2. CASE Len(s) # 0
    <3>1. Len(s) \in 1..Len(s) /\ q + Len(s) - 1 = Len(ilog) /\ Len(ilog) # 0
      BY <1>2, <1>5, <2>2
    <3>2. s[Len(s)] = ilog[Len(ilog)]
      BY Zenon, <1>5, <3>1
    <3> QED BY Zenon, <1>4, <2>2, <3>1, <3>2 DEF EndTerm, LastTerm, TermAt
  <2> QED BY Zenon, <2>1, <2>2
<1>8. ASSUME NEW k \in 1..Len(s)
      PROVE  (q - 1) + k \in 1..Len(ilog) /\ CallLink(m, k) = Link(ilog, (q - 1) + k)
  <2>1. /\ (q - 1) + k \in 1..Len(ilog) /\ q + k - 1 = (q - 1) + k
        /\ k \in Nat /\ Len(s) \in Nat
    BY <1>2, <1>5
  <2>2. s[k] = ilog[(q - 1) + k]
    BY Zenon, <1>5, <2>1
  <2>3. CASE k = 1
    <3>1. ((q - 1) + k) - 1 = q - 1
      BY Zenon, <1>2, <2>3
    <3> QED BY Zenon, <1>4, <2>1, <2>2, <2>3, <3>1 DEF CallLink, Link
  <2>4. CASE k # 1
    <3>1. k - 1 \in 1..Len(s) /\ q + (k - 1) - 1 = ((q - 1) + k) - 1 /\ ((q - 1) + k) - 1 # 0
      BY <1>2, <2>1, <2>4
    <3>2. s[k - 1] = ilog[((q - 1) + k) - 1]
      BY Zenon, <1>5, <3>1
    <3> QED BY Zenon, <1>4, <2>1, <2>2, <2>4, <3>1, <3>2 DEF CallLink, Link, TermAt
  <2> QED BY Zenon, <2>3, <2>4
<1>9. CallLinks(m) \subseteq LinksOf(ilog)
  BY Zenon, <1>4, <1>8 DEF CallLinks, LinksOf
<1>10. ASSUME next[m.to] <= Len(ilog)
       PROVE  Link(ilog, Len(ilog)) \in CallLinks(m)
  <2>1. q <= Len(ilog)
    BY Zenon, <1>4, <1>10 DEF q
  <2>2. Len(s) \in 1..Len(s) /\ (q - 1) + Len(s) = Len(ilog)
    BY <1>2, <1>5, <2>1
  <2>3. CallLink(m, Len(s)) = Link(ilog, Len(ilog))
    BY Zenon, <1>8, <2>2
  <2> QED BY Zenon, <1>4, <2>2, <2>3 DEF CallLinks
<1> QED BY Zenon, <1>4, <1>6, <1>7, <1>9, <1>10

-----------------------------------------------------------------------------
(* The links of a state. *)

\* Logs and calls are made of links.
LEMMA Linked == /\ \A i \in Server : LinksOf(log[i]) \subseteq Links
                /\ \A m \in appendCalls : CallLinks(m) \subseteq Links
<1>1. ASSUME NEW i \in Server PROVE LinksOf(log[i]) \subseteq Links
  <2>1. LinksOf(log[i]) \in {LinksOf(log[s]) : s \in Server}
    BY Zenon
  <2> QED BY Zenon, <2>1 DEF Links
<1>2. ASSUME NEW m \in appendCalls PROVE CallLinks(m) \subseteq Links
  <2>1. CallLinks(m) \in {CallLinks(c) : c \in appendCalls}
    BY Zenon
  <2>2. CallLinks(m) \subseteq SentLinks
    BY Zenon, <2>1 DEF SentLinks
  <2> QED BY Zenon, <2>2 DEF Links
<1> QED BY Zenon, <1>1, <1>2

\* A link is in a log or has been sent.
LEMMA LinkFrom ==
    ASSUME NEW logs, NEW calls,
           NEW a \in (UNION {LinksOf(logs[i]) : i \in Server}) \cup UNION {CallLinks(m) : m \in calls}
    PROVE  \/ \E i \in Server : a \in LinksOf(logs[i])
           \/ \E m \in calls : a \in CallLinks(m)
<1>1. CASE a \in UNION {LinksOf(logs[i]) : i \in Server}
  BY Zenon, <1>1
<1>2. CASE a \in UNION {CallLinks(m) : m \in calls}
  BY Zenon, <1>2
<1> QED BY Zenon, <1>1, <1>2

\* Links are records of one type, with an index above 0.
LEMMA LinksTyped ==
    ASSUME TypeOK
    PROVE  Links \in SUBSET LinkRecord /\ \A a \in Links : a.index # 0
<1>1. log \in [Server -> Seq(Entry)] /\ appendCalls \subseteq AppendEntriesArgs
  BY Zenon DEF TypeOK
<1>2. ASSUME NEW i \in Server, NEW a \in LinksOf(log[i])
      PROVE  a \in LinkRecord /\ a.index # 0
  <2>1. PICK k \in 1..Len(log[i]) : a = Link(log[i], k)
    BY Zenon, <1>2 DEF LinksOf
  <2>2. a \in LinkRecord /\ a.index = k
    BY Zenon, <1>1, <2>1, LinkFields
  <2> QED BY <2>1, <2>2
<1>3. ASSUME NEW m \in appendCalls, NEW a \in CallLinks(m)
      PROVE  a \in LinkRecord /\ a.index # 0
  <2>1. m.entries \in Seq(Entry) /\ m.prevLogIndex \in Nat /\ m.prevLogTerm \in Nat
    BY Zenon, <1>1 DEF AppendEntriesArgs
  <2>2. PICK k \in 1..Len(m.entries) : a = CallLink(m, k)
    BY Zenon, <1>3 DEF CallLinks
  <2>3. k \in Nat /\ k # 0 /\ m.prevLogIndex + k \in Nat /\ m.prevLogIndex + k # 0
    BY <2>1, <2>2
  <2>4. m.entries[k] \in Entry
    BY Zenon, <2>1, <2>2, ElementOfSeq
  <2>5. k # 1 => m.entries[k - 1].term \in Nat
    <3>1. k # 1 => k - 1 \in 1..Len(m.entries)
      BY <2>1, <2>2
    <3>2. k # 1 => m.entries[k - 1] \in Entry
      BY Zenon, <2>1, <3>1, ElementOfSeq
    <3> QED BY Zenon, <3>2 DEF Entry
  <2> QED BY Zenon, <2>1, <2>2, <2>3, <2>4, <2>5 DEF CallLink, LinkRecord
<1>4. \A a \in Links : a \in LinkRecord /\ a.index # 0
  BY Zenon, <1>2, <1>3, LinkFrom DEF Links, SentLinks
<1> QED BY Zenon, <1>4

\* The fields of a call are in range.
LEMMA CallTyped ==
    ASSUME TypeOK, NEW m \in appendCalls
    PROVE  /\ m \in AppendEntriesArgs /\ m.from \in Server /\ m.to \in Server /\ m.term \in Nat
           /\ EndIndex(m) \in Nat /\ EndTerm(m) \in Nat
<1>1. m \in AppendEntriesArgs
  BY Zenon DEF TypeOK
<1>2. /\ m.from \in Server /\ m.to \in Server /\ m.term \in Nat /\ m.entries \in Seq(Entry)
      /\ m.prevLogIndex \in Nat /\ m.prevLogTerm \in Nat
  BY Zenon, <1>1 DEF AppendEntriesArgs
<1>3. EndIndex(m) \in Nat
  BY <1>2 DEF EndIndex
<1>4. EndTerm(m) \in Nat
  <2>1. Len(m.entries) # 0 => Len(m.entries) \in 1..Len(m.entries)
    BY <1>2
  <2>2. Len(m.entries) # 0 => m.entries[Len(m.entries)] \in Entry
    BY Zenon, <1>2, <2>1, ElementOfSeq
  <2> QED BY Zenon, <1>2, <2>2 DEF EndTerm, Entry
<1> QED BY Zenon, <1>1, <1>2, <1>3, <1>4

\* A term has one owner.
LEMMA OwnerOnce ==
    ASSUME VoteInv, NEW i \in Server, NEW k \in Server, NEW t \in Nat, Owner(i, t), Owner(k, t)
    PROVE  i = k
<1>1. CASE Server = {i} \/ Server = {k}
  BY Zenon, <1>1
<1>2. CASE Won(i, t) /\ Won(k, t)
  BY Zenon, <1>2, WonOnce DEF VoteInv
<1> QED BY Zenon, <1>1, <1>2 DEF Owner

\* The leader of a term owns it.
LEMMA LeaderOwns ==
    ASSUME VoteInv, NEW i \in Server, NEW t, Leads(i, t)
    PROVE  Owner(i, t)
BY Zenon DEF VoteInv, LeaderWon, Leads, Owner

-----------------------------------------------------------------------------
(* The kinds of step. *)

\* Every step keeps all calls and replies.
LEMMA NextRemembers == [Next]_vars => Remembers
<1> SUFFICES ASSUME [Next]_vars PROVE Remembers
  BY Zenon
<1>1. ASSUME NEW i \in Server, runElectionLoop(i) PROVE Remembers
  BY Zenon, <1>1 DEF runElectionLoop, startElection, becomeLeader, leaderVars, Remembers
<1>2. ASSUME NEW i \in Server, runHeartbeatLoop(i) PROVE Remembers
  BY Zenon, <1>2 DEF runHeartbeatLoop, voteRPCs, Remembers
<1>3. ASSUME NEW i \in Server, NEW v \in Value, Submit(i, v) PROVE Remembers
  BY Zenon, <1>3 DEF Submit, voteRPCs, Remembers
<1>4. ASSUME NEW i \in Server, Kill(i) PROVE Remembers
  BY Zenon, <1>4 DEF Kill, voteRPCs, appendRPCs, Remembers
<1>5. ASSUME NEW m \in voteCalls, NEW j \in Server, RequestVote(m, j) PROVE Remembers
  BY Zenon, <1>5 DEF RequestVote, appendRPCs, Remembers
<1>6. ASSUME NEW m \in voteReplies, RequestVoteReplied(m) PROVE Remembers
  BY Zenon, <1>6 DEF RequestVoteReplied, becomeLeader, voteRPCs, leaderVars, Remembers
<1>7. ASSUME NEW m \in appendCalls, AppendEntriesStale(m) PROVE Remembers
  BY Zenon, <1>7 DEF AppendEntriesStale, voteRPCs, Remembers
<1>8. ASSUME NEW m \in appendCalls, AppendEntries(m) PROVE Remembers
  BY Zenon, <1>8 DEF AppendEntries, voteRPCs, Remembers
<1>9. ASSUME NEW m \in appendReplies, AppendEntriesReplied(m) PROVE Remembers
  BY Zenon, <1>9 DEF AppendEntriesReplied, voteRPCs, appendRPCs, Remembers
<1>10. CASE UNCHANGED vars
  BY Zenon, <1>10 DEF vars, voteRPCs, appendRPCs, Remembers
<1> QED BY Zenon, <1>1, <1>2, <1>3, <1>4, <1>5, <1>6, <1>7, <1>8, <1>9, <1>10 DEF Next

\* A node that starts an election becomes a candidate, or leads at once when
\* it is alone.
LEMMA ElectionLoopKind ==
    ASSUME TypeOK, Majorities, NEW i \in Server, runElectionLoop(i)
    PROVE  Quiet \/ Sends(i)
<1>1. /\ currentTerm \in [Server -> Nat] /\ role \in [Server -> Role]
      /\ currentTerm' = [currentTerm EXCEPT ![i] = @ + 1]
      /\ log' = log /\ appendReplies' = appendReplies
  BY Zenon DEF TypeOK, runElectionLoop, startElection, logVars
<1>2. CASE IsMajority({i})
  <2>1. Server = {i}
    BY Zenon, <1>2 DEF Majorities
  <2>2. /\ role' = [role EXCEPT ![i] = "Leader"]
        /\ appendCalls' = appendCalls \cup
             broadcastHeartbeats(i, currentTerm[i] + 1, log[i], nextIndex'[i])
    BY Zenon, <1>2 DEF runElectionLoop, startElection, becomeLeader
  <2>3. role'[i] = "Leader" /\ currentTerm'[i] = currentTerm[i] + 1 /\ currentTerm[i] \in Nat
    BY Zenon, <1>1, <2>2
  <2>4. FirstIn(i, currentTerm'[i])
    BY <2>1, <2>3 DEF FirstIn
  <2>5. \A s \in Server : s = i
    BY Zenon, <2>1
  <2> QED BY Zenon, <1>1, <2>2, <2>3, <2>4, <2>5 DEF Sends
<1>3. CASE ~ IsMajority({i})
  <2>1. role' = [role EXCEPT ![i] = "Candidate"] /\ appendCalls' = appendCalls
    BY Zenon, <1>3 DEF runElectionLoop, startElection
  <2>2. \A s \in Server : NoNewLeader(s)
    BY Zenon, <1>1, <2>1 DEF NoNewLeader
  <2> QED BY Zenon, <1>1, <2>1, <2>2 DEF Quiet
<1> QED BY Zenon, <1>2, <1>3

\* Counting a vote changes nothing in the logs, or makes a leader that sends its log.
LEMMA RequestVoteRepliedKind ==
    ASSUME TypeOK, VoteInv', NEW m \in voteReplies, RequestVoteReplied(m)
    PROVE  Quiet \/ Sends(m.from)
<1> DEFINE i == m.from
<1>1. m.from \in Server
  BY Zenon DEF TypeOK, RequestVoteReply
<1>2. /\ role \in [Server -> Role] /\ log' = log /\ appendReplies' = appendReplies
      /\ currentTerm \in [Server -> Nat]
      /\ role[i] = "Candidate" /\ UNCHANGED <<voteCalls, voteReplies>>
  BY Zenon DEF TypeOK, RequestVoteReplied, logVars, voteRPCs
<1> HIDE DEF i
<1>3. CASE becomeFollower(i, m.replyTerm) /\ UNCHANGED appendCalls
  <2>1. \A s \in Server : NoNewLeader(s)
    BY Zenon, <1>1, <1>2, <1>3 DEF becomeFollower, NoNewLeader, i
  <2> QED BY Zenon, <1>2, <1>3, <2>1 DEF Quiet
<1>4. CASE UNCHANGED <<currentTerm, role, appendCalls>>
  BY Zenon, <1>2, <1>4 DEF Quiet, NoNewLeader
<1>5. CASE UNCHANGED currentTerm /\ becomeLeader(i, currentTerm[i])
  <2>1. /\ role' = [role EXCEPT ![i] = "Leader"]
        /\ appendCalls' = appendCalls \cup
             broadcastHeartbeats(i, currentTerm[i], log[i], nextIndex'[i])
    BY Zenon, <1>5 DEF becomeLeader
  <2>2. role'[i] = "Leader" /\ \A s \in Server : s # i => NoNewLeader(s)
    BY Zenon, <1>1, <1>2, <1>5, <2>1 DEF NoNewLeader, i
  <2>3. Server = {i} \/ Won(i, currentTerm[i])'
    BY Zenon, <1>1, <2>2 DEF VoteInv, LeaderWon, i
  <2>4. Owner(i, currentTerm[i])
    BY <1>2, <1>5, <2>3 DEF Owner, Won, Voted, IsMajority
  <2> QED BY Zenon, <1>2, <1>5, <2>1, <2>2, <2>4 DEF Sends, FirstIn, i
<1> QED BY Zenon, <1>3, <1>4, <1>5 DEF RequestVoteReplied, i, leaderVars

\* Every step is of one of four kinds.
LEMMA NextKinds ==
    ASSUME TypeOK, VoteInv', [Next]_vars
    PROVE  \/ Quiet
           \/ \E i \in Server : Sends(i)
           \/ \E i \in Server, v \in Value : Submit(i, v)
           \/ \E m \in appendCalls : Accepts(m)
<1>0. /\ role \in [Server -> Role] /\ currentTerm \in [Server -> Nat]
      /\ appendCalls \subseteq AppendEntriesArgs /\ appendReplies \subseteq AppendEntriesReply
  BY Zenon DEF TypeOK
<1>1. ASSUME NEW i \in Server, runElectionLoop(i) PROVE Quiet \/ Sends(i)
  BY Zenon, <1>1, ElectionLoopKind, MajoritiesStay DEF VoteInv
<1>2. ASSUME NEW i \in Server, runHeartbeatLoop(i) PROVE Sends(i)
  BY Zenon, <1>2 DEF runHeartbeatLoop, electionVars, leaderVars, logVars, Sends, Leads, NoNewLeader
<1>4. ASSUME NEW i \in Server, Kill(i) PROVE Quiet
  BY Zenon, <1>4 DEF Kill, electionVars, logVars, appendRPCs, Quiet, NoNewLeader
<1>5. ASSUME NEW m \in voteCalls, NEW j \in Server, RequestVote(m, j) PROVE Quiet
  <2>1. /\ log' = log /\ appendCalls' = appendCalls /\ appendReplies' = appendReplies
        /\ role' = [role EXCEPT ![j] = IF m.term > currentTerm[j] THEN "Follower" ELSE @]
        /\ currentTerm' = [currentTerm EXCEPT ![j] =
                              IF m.term > currentTerm[j] THEN m.term ELSE currentTerm[j]]
    BY Zenon, <1>5 DEF RequestVote, logVars, appendRPCs
  <2>2. \A s \in Server : NoNewLeader(s)
    BY Zenon, <1>0, <2>1 DEF NoNewLeader
  <2> QED BY Zenon, <2>1, <2>2 DEF Quiet
<1>6. ASSUME NEW m \in voteReplies, RequestVoteReplied(m)
      PROVE  Quiet \/ \E i \in Server : Sends(i)
  <2>1. m.from \in Server
    BY Zenon DEF TypeOK, RequestVoteReply
  <2> QED BY Zenon, <1>6, <2>1, RequestVoteRepliedKind
<1>7. ASSUME NEW m \in appendCalls, AppendEntriesStale(m) PROVE Quiet
  BY SMTT(30), <1>7 DEF AppendEntriesStale, AppendReply, electionVars, logVars, Quiet, NoNewLeader
<1>8. ASSUME NEW m \in appendCalls, AppendEntries(m) PROVE Quiet \/ Accepts(m)
  <2>1. CASE PrevMatches(m, log[m.to])
    BY Zenon, <1>8, <2>1 DEF Accepts
  <2>2. CASE ~ PrevMatches(m, log[m.to])
    <3>1. /\ log' = log /\ appendCalls' = appendCalls
          /\ role' = [role EXCEPT ![m.to] = "Follower"]
          /\ currentTerm' = [currentTerm EXCEPT ![m.to] = m.term]
          /\ appendReplies' = appendReplies \cup {AppendReply(m, m.term, PrevMatches(m, log[m.to]))}
      BY Zenon, <1>8, <2>2 DEF AppendEntries, logVars
    <3>2. ~ AppendReply(m, m.term, PrevMatches(m, log[m.to])).success
      BY Zenon, <2>2 DEF AppendReply
    <3>3. m.to \in Server
      BY Zenon, <1>0 DEF AppendEntriesArgs
    <3>4. \A s \in Server : NoNewLeader(s)
      BY Zenon, <1>0, <3>1, <3>3 DEF NoNewLeader
    <3> QED BY Zenon, <3>1, <3>2, <3>4 DEF Quiet
  <2> QED BY Zenon, <2>1, <2>2
<1>9. ASSUME NEW m \in appendReplies, AppendEntriesReplied(m) PROVE Quiet
  <2>1. log' = log /\ appendCalls' = appendCalls /\ appendReplies' = appendReplies
    BY Zenon, <1>9 DEF AppendEntriesReplied, appendRPCs
  <2>2. m.from \in Server
    BY Zenon, <1>0 DEF AppendEntriesReply
  <2>3. \/ UNCHANGED <<currentTerm, role>>
        \/ /\ role' = [role EXCEPT ![m.from] = "Follower"]
           /\ currentTerm' = [currentTerm EXCEPT ![m.from] = m.replyTerm]
    BY Zenon, <1>9 DEF AppendEntriesReplied, becomeFollower
  <2>4. \A s \in Server : NoNewLeader(s)
    BY Zenon, <1>0, <2>2, <2>3 DEF NoNewLeader
  <2> QED BY Zenon, <2>1, <2>4 DEF Quiet
<1>10. CASE UNCHANGED vars
  BY Zenon, <1>10 DEF vars, electionVars, logVars, appendRPCs, Quiet, NoNewLeader
<1> QED BY Zenon, <1>1, <1>2, <1>4, <1>5, <1>6, <1>7, <1>8, <1>9, <1>10 DEF Next

\* The calls of such a step carry the leader's log as it is.
LEMMA SendsCalls ==
    ASSUME IndexInv, IndexInv', NEW i \in Server, Sends(i), NEW m \in appendCalls'
    PROVE  \/ m \in appendCalls
           \/ /\ m.from = i /\ m.to # i /\ m.term = currentTerm'[i]
              /\ m.leaderCommit = commitIndex[i]
              /\ EndIndex(m) = Len(log[i]) /\ EndTerm(m) = LastTerm(log[i])
              /\ CallLinks(m) \subseteq LinksOf(log[i])
<1>1. /\ currentTerm'[i] \in Nat /\ log[i] \in Seq(Entry) /\ nextIndex'[i] \in [Server -> Nat]
  BY Zenon DEF IndexInv, TypeOK
<1>2. log' = log /\ role'[i] = "Leader"
  BY Zenon DEF Sends
<1>3. \A j \in Peers(i) : nextIndex'[i][j] \in 1..(Len(log[i]) + 1)
  BY Zenon, <1>2 DEF IndexInv, NextIndexInBounds, Peers
<1>4. CASE m \in broadcastHeartbeats(i, currentTerm'[i], log[i], nextIndex'[i])
  <2>1. /\ m.from = i /\ m.to \in Peers(i) /\ m.term = currentTerm'[i]
        /\ m.leaderCommit = commitIndex[i]
        /\ EndIndex(m) = Len(log[i]) /\ EndTerm(m) = LastTerm(log[i])
        /\ CallLinks(m) \subseteq LinksOf(log[i])
    BY SMTT(30), <1>1, <1>3, <1>4, BroadcastLinks
  <2> QED BY Zenon, <2>1 DEF Peers
<1> QED BY Zenon, <1>4 DEF Sends

\* Sending a log makes no new link.
LEMMA SendsKeepsLinks ==
    ASSUME IndexInv, IndexInv', Remembers, NEW i \in Server, Sends(i)
    PROVE  Links' = Links /\ SentLinks \subseteq SentLinks'
<1>1. log' = log /\ appendCalls \subseteq appendCalls'
  BY Zenon DEF Sends, Remembers
<1>2. SentLinks \subseteq SentLinks'
  BY Zenon, <1>1 DEF SentLinks
<1>3. Links \subseteq Links'
  BY Zenon, <1>1, <1>2 DEF Links
<1>4. ASSUME NEW a \in Links' PROVE a \in Links
  <2>1. \/ \E s \in Server : a \in LinksOf(log'[s])
        \/ \E m \in appendCalls' : a \in CallLinks(m)
    BY Zenon, <1>4, LinkFrom DEF Links, SentLinks
  <2>2. ASSUME NEW m \in appendCalls', a \in CallLinks(m) PROVE a \in Links
    <3>1. m \in appendCalls \/ CallLinks(m) \subseteq LinksOf(log[i])
      BY Zenon, SendsCalls
    <3> QED BY Zenon, <2>2, <3>1, Linked
  <2> QED BY Zenon, <1>1, <2>1, <2>2, Linked
<1> QED BY Zenon, <1>2, <1>3, <1>4

\* An entry appended to a log adds one link.
LEMMA AppendLinks ==
    ASSUME NEW l \in Seq(Entry), NEW e \in Entry,
           NEW n \in Seq(Entry), Len(n) = Len(l) + 1, n[Len(l) + 1] = e,
           \A k \in 1..Len(l) : n[k] = l[k]
    PROVE  /\ LastTerm(n) = e.term
           /\ \A k \in 0..Len(l) : TermAt(n, k) = TermAt(l, k)
           /\ \A k \in 1..Len(l) : Link(n, k) = Link(l, k) /\ n[k] = l[k]
           /\ Top(n).index = Len(l) + 1 /\ Top(n).entry = e /\ Top(n).prev = LastTerm(l)
           /\ LinksOf(l) \subseteq LinksOf(n) /\ Top(n) \in LinksOf(n)
           /\ \A a \in LinksOf(n) : a \in LinksOf(l) \/ a = Top(n)
<1>1. /\ n \in Seq(Entry) /\ Len(n) = Len(l) + 1 /\ n[Len(l) + 1] = e /\ Len(l) \in Nat
      /\ \A k \in 1..Len(l) : n[k] = l[k]
  OBVIOUS
<1>2. ASSUME NEW k \in 0..Len(l) PROVE TermAt(n, k) = TermAt(l, k)
  <2>1. k # 0 => k \in 1..Len(l)
    BY <1>1
  <2> QED BY Zenon, <1>1, <2>1 DEF TermAt
<1>3. ASSUME NEW k \in 1..Len(l) PROVE Link(n, k) = Link(l, k)
  <2>1. k - 1 \in 0..Len(l)
    BY <1>1
  <2> QED BY Zenon, <1>1, <1>2, <2>1 DEF Link
<1>4. Top(n).index = Len(l) + 1 /\ Top(n).entry = e /\ Top(n).prev = LastTerm(l)
  <2>1. (Len(l) + 1) - 1 = Len(l) /\ Len(l) \in 0..Len(l)
    BY <1>1
  <2> QED BY Zenon, <1>1, <1>2, <2>1 DEF Top, Link, LastTerm
<1>5. LastTerm(n) = e.term
  <2>1. Len(l) + 1 # 0
    BY SMTT(30), <1>1
  <2> QED BY Zenon, <1>1, <2>1 DEF LastTerm, TermAt
<1>6. \A k \in 1..Len(n) : k \in 1..Len(l) \/ k = Len(n)
  BY <1>1
<1>7. Len(n) \in 1..Len(n) /\ \A k \in 1..Len(l) : k \in 1..Len(n)
  BY <1>1
<1>8. ASSUME NEW a \in LinksOf(n) PROVE a \in LinksOf(l) \/ a = Top(n)
  <2>1. PICK k \in 1..Len(n) : a = Link(n, k)
    BY Zenon, <1>8 DEF LinksOf
  <2>2. CASE k \in 1..Len(l)
    BY Zenon, <1>3, <2>1, <2>2 DEF LinksOf
  <2>3. CASE k = Len(n)
    BY Zenon, <2>1, <2>3 DEF Top
  <2> QED BY Zenon, <1>6, <2>2, <2>3
<1>9. ASSUME NEW a \in LinksOf(l) PROVE a \in LinksOf(n)
  <2>1. PICK k \in 1..Len(l) : a = Link(l, k)
    BY Zenon, <1>9 DEF LinksOf
  <2> QED BY Zenon, <1>3, <1>7, <2>1 DEF LinksOf
<1>10. Top(n) \in LinksOf(n)
  BY Zenon, <1>7 DEF LinksOf, Top
<1> QED BY Zenon, <1>1, <1>2, <1>3, <1>4, <1>5, <1>8, <1>9, <1>10

\* Submit adds one entry of the leader's term to its log, and sends it.
LEMMA SubmitStep ==
    ASSUME IndexInv, IndexInv', NEW i \in Server, NEW v \in Value, Submit(i, v)
    PROVE  /\ Leads(i, currentTerm[i]) /\ currentTerm[i] \in Nat /\ log[i] \in Seq(Entry)
           /\ log'[i] \in Seq(Entry) /\ log \in [Server -> Seq(Entry)]
           /\ Len(log'[i]) = Len(log[i]) + 1 /\ LastTerm(log'[i]) = currentTerm[i]
           /\ \A k \in 0..Len(log[i]) : TermAt(log'[i], k) = TermAt(log[i], k)
           /\ \A k \in 1..Len(log[i]) : /\ Link(log'[i], k) = Link(log[i], k)
                                        /\ log'[i][k] = log[i][k]
           /\ Top(log'[i]).index = Len(log[i]) + 1
           /\ Top(log'[i]).entry.term = currentTerm[i]
           /\ Top(log'[i]).prev = LastTerm(log[i])
           /\ log'[i][Len(log[i]) + 1].term = currentTerm[i]
           /\ LinksOf(log[i]) \subseteq LinksOf(log'[i]) /\ Top(log'[i]) \in LinksOf(log'[i])
           /\ \A a \in LinksOf(log'[i]) : a \in LinksOf(log[i]) \/ a = Top(log'[i])
           /\ \A s \in Server : s # i => log'[s] = log[s]
           /\ UNCHANGED <<currentTerm, role, commitIndex, applied, voteCalls, voteReplies,
                          appendReplies, matchIndex>>
           /\ appendCalls' = appendCalls \cup
                broadcastHeartbeats(i, currentTerm[i], log'[i], nextIndex[i])
<1>1. PICK e, l, n : /\ e = [index |-> Len(log[i]) + 1, term |-> currentTerm[i], cmd |-> v]
                     /\ l = log[i] /\ n = log'[i]
  BY Zenon
<1>2. /\ role[i] = "Leader"
      /\ log' = [log EXCEPT ![i] = Append(@, e)]
      /\ UNCHANGED <<currentTerm, role, commitIndex, applied, voteCalls, voteReplies,
                     appendReplies, matchIndex>>
      /\ appendCalls' = appendCalls \cup
           broadcastHeartbeats(i, currentTerm[i], log'[i], nextIndex[i])
  BY Zenon, <1>1 DEF Submit, electionVars, leaderVars, voteRPCs
<1>3. log \in [Server -> Seq(Entry)] /\ currentTerm[i] \in Nat /\ l \in Seq(Entry)
  BY Zenon, <1>1 DEF IndexInv, TypeOK
<1>4. e \in Entry /\ e.term = currentTerm[i]
  BY SMTT(30), <1>1, <1>3 DEF Entry
<1>5. n = Append(l, e) /\ \A s \in Server : s # i => log'[s] = log[s]
  BY Zenon, <1>1, <1>2, <1>3
<1>6. /\ n \in Seq(Entry) /\ Len(n) = Len(l) + 1 /\ n[Len(l) + 1] = e
      /\ \A k \in 1..Len(l) : n[k] = l[k]
  BY SMTT(30), <1>3, <1>4, <1>5, AppendProperties
<1>7. /\ LastTerm(n) = e.term
      /\ \A k \in 0..Len(l) : TermAt(n, k) = TermAt(l, k)
      /\ \A k \in 1..Len(l) : Link(n, k) = Link(l, k) /\ n[k] = l[k]
      /\ Top(n).index = Len(l) + 1 /\ Top(n).entry = e /\ Top(n).prev = LastTerm(l)
      /\ LinksOf(l) \subseteq LinksOf(n) /\ Top(n) \in LinksOf(n)
      /\ \A a \in LinksOf(n) : a \in LinksOf(l) \/ a = Top(n)
  BY SMTT(30), <1>3, <1>4, <1>6, AppendLinks
<1> QED BY ZenonT(30), <1>1, <1>2, <1>3, <1>4, <1>5, <1>6, <1>7 DEF Leads

\* Its calls end in the new entry.
LEMMA SubmitCalls ==
    ASSUME IndexInv, IndexInv', NEW i \in Server, NEW v \in Value, Submit(i, v),
           NEW m \in broadcastHeartbeats(i, currentTerm[i], log'[i], nextIndex[i])
    PROVE  /\ m.from = i /\ m.to # i /\ m.term = currentTerm[i]
           /\ m.leaderCommit = commitIndex[i]
           /\ EndIndex(m) = Len(log[i]) + 1 /\ EndTerm(m) = currentTerm[i]
           /\ CallLinks(m) \subseteq LinksOf(log'[i])
           /\ Top(log'[i]) \in CallLinks(m)
<1>1. /\ currentTerm[i] \in Nat /\ log[i] \in Seq(Entry) /\ log'[i] \in Seq(Entry)
      /\ Len(log'[i]) = Len(log[i]) + 1 /\ LastTerm(log'[i]) = currentTerm[i]
      /\ Leads(i, currentTerm[i])
  BY Zenon, SubmitStep
<1>2. nextIndex[i] \in [Server -> Nat] /\ Len(log[i]) \in Nat
  BY SMTT(30), <1>1 DEF IndexInv, TypeOK
<1>3. \A j \in Peers(i) : nextIndex[i][j] \in 1..(Len(log[i]) + 1)
  BY Zenon, <1>1 DEF IndexInv, NextIndexInBounds, Peers, Leads
<1>4. \A j \in Peers(i) : /\ nextIndex[i][j] \in 1..(Len(log'[i]) + 1)
                         /\ nextIndex[i][j] <= Len(log'[i])
  BY SMTT(30), <1>1, <1>2, <1>3
<1>5. /\ m.from = i /\ m.to \in Peers(i) /\ m.term = currentTerm[i]
      /\ m.leaderCommit = commitIndex[i]
      /\ EndIndex(m) = Len(log'[i]) /\ EndTerm(m) = LastTerm(log'[i])
      /\ CallLinks(m) \subseteq LinksOf(log'[i])
      /\ nextIndex[i][m.to] <= Len(log'[i]) => Link(log'[i], Len(log'[i])) \in CallLinks(m)
  BY Zenon, <1>1, <1>2, <1>4, BroadcastLinks
<1>6. nextIndex[i][m.to] <= Len(log'[i])
  BY Zenon, <1>4, <1>5
<1> QED BY Zenon, <1>1, <1>5, <1>6 DEF Peers, Top

\* The new entry is the only new link, and it is sent to every peer.
LEMMA SubmitNewLink ==
    ASSUME IndexInv, IndexInv', Remembers, NEW i \in Server, NEW v \in Value, Submit(i, v)
    PROVE  /\ Links \subseteq Links' /\ SentLinks \subseteq SentLinks'
           /\ Top(log'[i]) \in Links'
           /\ \A a \in Links' : a \in Links \/ a = Top(log'[i])
           /\ Server # {i} => Top(log'[i]) \in SentLinks'
<1>1. /\ LinksOf(log[i]) \subseteq LinksOf(log'[i]) /\ Top(log'[i]) \in LinksOf(log'[i])
      /\ \A a \in LinksOf(log'[i]) : a \in LinksOf(log[i]) \/ a = Top(log'[i])
      /\ \A s \in Server : s # i => log'[s] = log[s]
      /\ appendCalls' = appendCalls \cup
           broadcastHeartbeats(i, currentTerm[i], log'[i], nextIndex[i])
  BY Zenon, SubmitStep
<1>2. SentLinks \subseteq SentLinks'
  BY Zenon DEF SentLinks, Remembers
<1>3. \A s \in Server : LinksOf(log[s]) \subseteq LinksOf(log'[s])
  BY Zenon, <1>1
<1>4. \A s \in Server : LinksOf(log'[s]) \subseteq Links'
  BY Zenon DEF Links
<1>5. ASSUME NEW a \in Links PROVE a \in Links'
  <2>1. \/ \E s \in Server : a \in LinksOf(log[s])
        \/ a \in SentLinks
    BY ZenonT(30), LinkFrom DEF Links, SentLinks
  <2> QED BY Zenon, <1>2, <1>3, <1>4, <2>1 DEF Links
<1>6. ASSUME NEW a \in Links' PROVE a \in Links \/ a = Top(log'[i])
  <2>1. \/ \E s \in Server : a \in LinksOf(log'[s])
        \/ \E m \in appendCalls' : a \in CallLinks(m)
    BY Zenon, <1>6, LinkFrom DEF Links, SentLinks
  <2>2. ASSUME NEW s \in Server, a \in LinksOf(log'[s]) PROVE a \in Links \/ a = Top(log'[i])
    BY Zenon, <1>1, <2>2, Linked
  <2>3. ASSUME NEW m \in appendCalls', a \in CallLinks(m) PROVE a \in Links \/ a = Top(log'[i])
    <3>1. m \in appendCalls \/ CallLinks(m) \subseteq LinksOf(log'[i])
      BY Zenon, <1>1, SubmitCalls
    <3> QED BY Zenon, <2>2, <2>3, <3>1, Linked
  <2> QED BY Zenon, <2>1, <2>2, <2>3
<1>7. ASSUME Server # {i} PROVE Top(log'[i]) \in SentLinks'
  <2>1. Peers(i) # {}
    BY Zenon, <1>7 DEF Peers
  <2>2. PICK m \in broadcastHeartbeats(i, currentTerm[i], log'[i], nextIndex[i]) : TRUE
    BY Zenon, <2>1 DEF broadcastHeartbeats
  <2>3. Top(log'[i]) \in CallLinks(m)
    BY Zenon, SubmitCalls
  <2> QED BY Zenon, <1>1, <2>3 DEF SentLinks
<1> QED BY Zenon, <1>1, <1>2, <1>4, <1>5, <1>6, <1>7

\* A peer that accepts a call has a log that reaches the end of it, made of
\* links it had and links of the call.
LEMMA AcceptStep ==
    ASSUME TypeOK, WellOrdered, Unique(Links), NEW m \in appendCalls, Accepts(m)
    PROVE  /\ m.to \in Server /\ m.term \in Nat /\ m.term >= currentTerm[m.to]
           /\ currentTerm'[m.to] = m.term /\ role'[m.to] = "Follower"
           /\ \A s \in Server : s # m.to =>
                log'[s] = log[s] /\ currentTerm'[s] = currentTerm[s] /\ role'[s] = role[s]
           /\ UNCHANGED <<appendCalls, voteCalls, voteReplies, matchIndex>>
           /\ log[m.to] \in Seq(Entry) /\ log'[m.to] \in Seq(Entry)
           /\ LinksOf(log'[m.to]) \subseteq LinksOf(log[m.to]) \cup CallLinks(m)
           /\ EndIndex(m) <= Len(log'[m.to]) /\ TermAt(log'[m.to], EndIndex(m)) = EndTerm(m)
           /\ log'[m.to] = log[m.to] \/ Len(log'[m.to]) = EndIndex(m)
           /\ EndIndex(m) <= Len(log[m.to]) /\ TermAt(log[m.to], EndIndex(m)) = EndTerm(m)
                => log'[m.to] = log[m.to]
           /\ \A r \in appendReplies' :
                \/ r \in appendReplies
                \/ r.from = m.from /\ r.to = m.to /\ r.term = m.term /\ r.match = EndIndex(m)
<1>1. PICK j, l, n : /\ j = m.to /\ l = log[m.to]
                     /\ n = AppendNew(l, m.prevLogIndex, m.entries)
  BY Zenon
<1>2. /\ m.term >= currentTerm[j]
      /\ currentTerm' = [currentTerm EXCEPT ![j] = m.term]
      /\ role' = [role EXCEPT ![j] = "Follower"]
      /\ log' = [log EXCEPT ![j] = n]
      /\ appendReplies' = appendReplies \cup {AppendReply(m, m.term, PrevMatches(m, l))}
      /\ PrevMatches(m, l)
      /\ UNCHANGED <<appendCalls, voteCalls, voteReplies, matchIndex>>
  BY Zenon, <1>1 DEF Accepts, AppendEntries, leaderVars, voteRPCs
<1>3. m \in AppendEntriesArgs /\ j \in Server /\ m.term \in Nat
  BY Zenon, <1>1, CallTyped
<1>4. /\ log \in [Server -> Seq(Entry)] /\ currentTerm \in [Server -> Nat]
      /\ role \in [Server -> Role] /\ l \in Seq(Entry)
  BY Zenon, <1>1, <1>3 DEF TypeOK
<1>5. /\ log'[j] = n /\ currentTerm'[j] = m.term /\ role'[j] = "Follower"
      /\ \A s \in Server : s # j =>
            log'[s] = log[s] /\ currentTerm'[s] = currentTerm[s] /\ role'[s] = role[s]
  BY Zenon, <1>2, <1>3, <1>4
<1>6. /\ n \in Seq(Entry)
      /\ LinksOf(n) \subseteq LinksOf(l) \cup CallLinks(m)
      /\ EndIndex(m) <= Len(n) /\ TermAt(n, EndIndex(m)) = EndTerm(m)
      /\ n = l \/ Len(n) = EndIndex(m)
  <2>1. PrevMatches(m, l) /\ n = AppendNew(l, m.prevLogIndex, m.entries)
    BY Zenon, <1>1, <1>2
  <2>2. m.prevLogIndex \in 0..Len(l) /\ m.entries \in Seq(Entry)
    BY <1>3, <1>4, <2>1 DEF PrevMatches, AppendEntriesArgs
  <2>3. n \in Seq(Entry)
    BY Zenon, <1>4, <2>1, <2>2, AppendNewType
  <2> QED BY SMTT(30), <1>3, <1>4, <2>1, <2>3, AppendNewLinks
<1>7. ASSUME EndIndex(m) <= Len(l), TermAt(l, EndIndex(m)) = EndTerm(m)
      PROVE  n = l
  <2>1. LinksOf(l) \subseteq Links /\ CallLinks(m) \subseteq Links
    BY Zenon, <1>1, <1>3, Linked
  <2>2. \A k \in 1..Len(m.entries) : l[m.prevLogIndex + k].term = m.entries[k].term
    BY ZenonT(30), <1>3, <1>4, <1>7, <2>1, CallAgree
  <2> QED BY Zenon, <1>1, <1>3, <1>4, <1>7, <2>2, AppendNewSame
<1>8. \A r \in appendReplies' :
        \/ r \in appendReplies
        \/ r.from = m.from /\ r.to = m.to /\ r.term = m.term /\ r.match = EndIndex(m)
  BY <1>2 DEF AppendReply, EndIndex
<1> QED BY Zenon, <1>1, <1>2, <1>3, <1>4, <1>5, <1>6, <1>7, <1>8

\* Accepting a call makes no new link: it is joined to the log where the terms agree.
LEMMA AcceptKeepsLinks ==
    ASSUME TypeOK, LinkInv, CallEnds, NEW m \in appendCalls, Accepts(m)
    PROVE  Links' = Links /\ SentLinks' = SentLinks /\ LinkSent'
<1>1. /\ m.to \in Server /\ appendCalls' = appendCalls
      /\ \A s \in Server : s # m.to => log'[s] = log[s]
      /\ LinksOf(log'[m.to]) \subseteq LinksOf(log[m.to]) \cup CallLinks(m)
  BY Zenon, AcceptStep DEF LinkInv
<1>2. \A s \in Server : Server # {s}
  <2>1. m.from \in Server /\ m.from # m.to
    BY Zenon, CallTyped DEF CallEnds
  <2> QED BY SMTT(30), <1>1, <2>1
<1>3. SentLinks' = SentLinks /\ CallLinks(m) \subseteq SentLinks
  BY Zenon, <1>1 DEF SentLinks
<1>4. \A s \in Server : LinksOf(log[s]) \subseteq SentLinks
  BY Zenon, <1>2 DEF LinkInv, LinkSent
<1>5. \A s \in Server : LinksOf(log'[s]) \subseteq SentLinks
  BY Zenon, <1>1, <1>3, <1>4
<1>6. Links = SentLinks
  BY Zenon, <1>4 DEF Links
<1>7. Links' = SentLinks
  BY Zenon, <1>3, <1>5 DEF Links
<1> QED BY Zenon, <1>3, <1>5, <1>6, <1>7 DEF LinkSent
=============================================================================
