-------------------------- MODULE RadianceRaftLog ---------------------------
(***************************************************************************)
(* The logs, calls and replies of RadianceRaft, for every set of nodes and *)
(* every bound: every step keeps LogInv.                                   *)
(*                                                                         *)
(* The index and the term of an entry determine its link, because one      *)
(* leader made all the links of a term, one after the other, at the end of *)
(* its log. A call ends where that log ended when it was sent, so what a   *)
(* call leaves in a log is not undone by an earlier call of the term that  *)
(* comes later.                                                            *)
(***************************************************************************)
EXTENDS RadianceRaftLinks

-----------------------------------------------------------------------------
(* The links. *)

\* A log that reaches the end of a call reaches the end of every earlier call
\* of the term.
LEMMA SameTermCalls ==
    ASSUME TypeOK, WellOrdered, Unique(Links), Runs(Links), CallEnds, CallBelowTerm, CallsGrow,
           NEW m \in appendCalls, NEW c \in appendCalls, m.term = c.term,
           NEW l \in Seq(Entry), LinksOf(l) \subseteq Links,
           EndIndex(m) <= EndIndex(c), EndIndex(c) <= Len(l), TermAt(l, EndIndex(c)) = EndTerm(c)
    PROVE  TermAt(l, EndIndex(m)) = EndTerm(m)
<1>1. /\ EndIndex(m) \in Nat /\ EndIndex(c) \in Nat /\ m.term \in Nat /\ Len(l) \in Nat
      /\ EndIndex(c) \in 0..Len(l)
  BY CallTyped
<1>2. Links \in SUBSET LinkRecord /\ \A a \in Links : a.index # 0
  BY Zenon, LinksTyped
<1>3. CASE EndIndex(m) = EndIndex(c)
  BY Zenon, <1>3 DEF CallsGrow
<1>4. CASE EndIndex(m) < EndIndex(c)
  <2>1. TermAt(l, EndIndex(c)) = m.term /\ EndIndex(c) # 0
    BY <1>1, <1>4 DEF CallsGrow
  <2>2. PICK a \in Links : a.index = EndIndex(c) /\ a.entry.term = m.term
    BY Zenon, <2>1 DEF CallEnds
  <2>3. CASE EndTerm(m) # m.term
    <3>1. PICK f \in Links : /\ f.index = EndIndex(m) + 1 /\ f.index <= a.index
                             /\ f.entry.term = m.term /\ f.prev = EndTerm(m)
      BY Zenon, <2>2, <2>3 DEF CallBelowTerm
    <3>2. f.index \in 1..Len(l) /\ Link(l, f.index) = f
      BY Zenon, <1>1, <1>2, <2>1, <2>2, <3>1, RunContains
    <3>3. Link(l, f.index).prev = TermAt(l, f.index - 1) /\ f.index - 1 = EndIndex(m)
      BY <1>1, <3>1 DEF Link
    <3> QED BY Zenon, <3>1, <3>2, <3>3
  <2>4. CASE EndTerm(m) = m.term /\ EndIndex(m) # 0
    <3>1. PICK b \in Links : b.index = EndIndex(m) /\ b.entry.term = m.term
      BY Zenon, <2>4 DEF CallEnds
    <3>2. b.index \in 1..Len(l) /\ Link(l, b.index) = b
      BY SMTT(30), <1>1, <1>2, <1>4, <2>1, <3>1, RunContains
    <3>3. Link(l, b.index).entry.term = TermAt(l, b.index)
      BY Zenon, <3>2, LinkFields
    <3> QED BY Zenon, <2>4, <3>1, <3>2, <3>3
  <2>5. CASE EndIndex(m) = 0
    BY Zenon, <2>5 DEF CallEnds, TermAt
  <2> QED BY Zenon, <2>3, <2>4, <2>5
<1> QED BY <1>1, <1>3, <1>4

\* Who leads after a step without a new leader led before it.
LEMMA StillLeads ==
    ASSUME NEW s \in Server, NoNewLeader(s), NEW t, Leads(s, t)'
    PROVE  Leads(s, t)
BY Zenon DEF NoNewLeader, Leads

\* A term that had no leader has no links and no calls.
LEMMA FreshTerm ==
    ASSUME TypeOK, CallsWithinLog, VoteInv, LinkOwned, CallEnds,
           NEW i \in Server, NEW t \in Nat, FirstIn(i, t)
    PROVE  /\ \A a \in Links : a.entry.term # t
           /\ \A m \in appendCalls : m.term # t
<1>0. currentTerm[i] \in Nat /\ Owner(i, t)
  BY Zenon DEF TypeOK, FirstIn, Owner
<1>1. ASSUME NEW a \in Links, a.entry.term = t PROVE FALSE
  <2>1. PICK s \in Server : /\ Owner(s, t) /\ currentTerm[s] >= t
                            /\ currentTerm[s] = t => role[s] # "Candidate"
    BY Zenon, <1>1 DEF LinkOwned
  <2>2. s = i
    BY Zenon, <1>0, <2>1, OwnerOnce
  <2> QED BY <1>0, <2>1, <2>2 DEF FirstIn
<1>2. ASSUME NEW m \in appendCalls, m.term = t PROVE FALSE
  <2>1. m.from \in Server /\ m.to \in Server /\ m.from # m.to
    BY Zenon, CallTyped DEF CallEnds
  <2>2. Owner(m.from, t)
    BY Zenon, <1>2 DEF VoteInv, CallWon, Owner
  <2>3. m.from = i
    BY Zenon, <1>0, <2>1, <2>2, OwnerOnce
  <2>4. Server # {i}
    BY Zenon, <2>1, <2>3
  <2> QED BY Zenon, <1>2, <2>3, <2>4 DEF FirstIn, CallsWithinLog, SentWithinLog
<1> QED BY Zenon, <1>1, <1>2

\* A step that makes no link keeps what is said of the links alone, and every
\* step keeps the owner of a link.
LEMMA OwnersStay ==
    ASSUME TypeOK, TypeOK', Remembers, Evolves, LinkOwned, NEW a \in Links
    PROVE  \E s \in Server :
              /\ Owner(s, a.entry.term)'
              /\ currentTerm'[s] >= a.entry.term
              /\ currentTerm'[s] = a.entry.term => role'[s] # "Candidate"
<1> DEFINE t == a.entry.term
<1>1. PICK s \in Server : /\ Owner(s, t) /\ currentTerm[s] >= t
                          /\ currentTerm[s] = t => role[s] # "Candidate"
  BY Zenon DEF LinkOwned
<1>2. currentTerm[s] \in Nat /\ currentTerm'[s] \in Nat
  BY Zenon DEF TypeOK
<1>3. t \in Nat
  BY Zenon, LinksTyped DEF LinkRecord, Entry
<1>4. Owner(s, t)'
  <2>1. Won(s, t) => Won(s, t)'
    BY Zenon, VotesStay DEF Remembers
  <2> QED BY Zenon, <1>1, <2>1 DEF Owner
<1> HIDE DEF t
<1>5. currentTerm'[s] >= t
  BY SMTT(30), <1>1, <1>2, <1>3 DEF Evolves
<1>6. currentTerm'[s] = t => role'[s] # "Candidate"
  BY SMTT(30), <1>1, <1>2, <1>3 DEF Evolves
<1> QED BY Zenon, <1>4, <1>5, <1>6 DEF t

\* Without a new link, what holds of the links stays.
LEMMA SameLinks ==
    ASSUME TypeOK, TypeOK', Remembers, Evolves, LinkInv, Links' = Links
    PROVE  WellOrdered' /\ Unique(Links)' /\ Ordered(Links)' /\ Runs(Links)' /\ LinkOwned'
<1>1. WellOrdered' /\ Unique(Links)' /\ Ordered(Links)' /\ Runs(Links)'
  BY Zenon, WellOrderedStays DEF LinkInv, Unique, Ordered, Runs
<1>2. LinkOwned'
  BY Zenon, OwnersStay DEF LinkInv, LinkOwned
<1> QED BY Zenon, <1>1, <1>2

\* The terms of the logs stay within those of the nodes when no log changes.
LEMMA SameLogTerms ==
    ASSUME TypeOK, TypeOK', Evolves, LogTerms, log' = log
    PROVE  LogTerms'
<1> SUFFICES ASSUME NEW s \in Server PROVE LastTerm(log[s]) <= currentTerm'[s]
  BY Zenon DEF LogTerms
<1>1. currentTerm[s] \in Nat /\ currentTerm'[s] \in Nat /\ log[s] \in Seq(Entry)
  BY Zenon DEF TypeOK
<1>2. LastTerm(log[s]) \in Nat
  BY Zenon, <1>1, LastTermType
<1>3. LastTerm(log[s]) <= currentTerm[s] /\ currentTerm'[s] >= currentTerm[s]
  BY Zenon DEF LogTerms, Evolves
<1> QED BY <1>1, <1>2, <1>3

\* LinkInv and a step that leaves logs and calls alone.
LEMMA QuietLinks ==
    ASSUME TypeOK, TypeOK', Remembers, Evolves, LinkInv, Quiet
    PROVE  LinkInv'
<1>1. Links' = Links /\ SentLinks' = SentLinks /\ log' = log
  BY Zenon DEF Quiet, Links, SentLinks
<1>2. WellOrdered' /\ Unique(Links)' /\ Ordered(Links)' /\ Runs(Links)' /\ LinkOwned'
  BY Zenon, <1>1, SameLinks
<1>3. LeaderHolds'
  <2> SUFFICES ASSUME NEW s \in Server, NEW a \in Links, Leads(s, a.entry.term)'
               PROVE  /\ a.index <= Len(log[s]) /\ Link(log[s], a.index) = a
                      /\ LastTerm(log[s]) = a.entry.term
    BY Zenon, <1>1 DEF LeaderHolds
  <2>1. Leads(s, a.entry.term)
    BY Zenon, StillLeads DEF Quiet
  <2> QED BY Zenon, <2>1 DEF LinkInv, LeaderHolds
<1>4. LinkSent'
  BY Zenon, <1>1 DEF LinkInv, LinkSent
<1>5. LogTerms'
  BY Zenon, <1>1, SameLogTerms DEF LinkInv
<1> QED BY Zenon, <1>2, <1>3, <1>4, <1>5 DEF LinkInv

\* LinkInv and a leader that sends: if it is new, no link of its term exists.
LEMMA SendsLinks ==
    ASSUME IndexInv, IndexInv', VoteInv, Remembers, Evolves, LinkInv, CallEnds,
           NEW i \in Server, Sends(i)
    PROVE  LinkInv'
<1>1. TypeOK /\ TypeOK' /\ CallsWithinLog
  BY Zenon DEF IndexInv
<1>2. Links' = Links /\ SentLinks \subseteq SentLinks' /\ log' = log
  BY Zenon, SendsKeepsLinks DEF Sends
<1>3. WellOrdered' /\ Unique(Links)' /\ Ordered(Links)' /\ Runs(Links)' /\ LinkOwned'
  BY Zenon, <1>1, <1>2, SameLinks
<1>4. LeaderHolds'
  <2> SUFFICES ASSUME NEW s \in Server, NEW a \in Links, Leads(s, a.entry.term)'
               PROVE  /\ a.index <= Len(log[s]) /\ Link(log[s], a.index) = a
                      /\ LastTerm(log[s]) = a.entry.term
    BY Zenon, <1>2 DEF LeaderHolds
  <2>1. CASE Leads(s, a.entry.term)
    BY Zenon, <2>1 DEF LinkInv, LeaderHolds
  <2>2. CASE s = i /\ FirstIn(i, currentTerm'[i])
    <3>1. currentTerm'[i] \in Nat
      BY Zenon, <1>1 DEF TypeOK
    <3>2. a.entry.term # currentTerm'[i]
      BY Zenon, <1>1, <2>2, <3>1, FreshTerm DEF LinkInv
    <3> QED BY Zenon, <2>2, <3>2 DEF Leads
  <2>3. s = i \/ Leads(s, a.entry.term)
    BY Zenon, StillLeads DEF Sends
  <2>4. s = i => currentTerm'[i] = a.entry.term
    BY Zenon DEF Leads
  <2> QED BY Zenon, <2>1, <2>2, <2>3, <2>4 DEF Sends
<1>5. LinkSent'
  BY Zenon, <1>2 DEF LinkInv, LinkSent
<1>6. LogTerms'
  BY Zenon, <1>1, <1>2, SameLogTerms DEF LinkInv
<1> QED BY Zenon, <1>3, <1>4, <1>5, <1>6 DEF LinkInv

\* LinkInv and Submit: the new link is the only one at its index in the term.
LEMMA SubmitLinks ==
    ASSUME IndexInv, IndexInv', VoteInv, VoteInv', Remembers, Evolves, LinkInv,
           NEW i \in Server, NEW v \in Value, Submit(i, v)
    PROVE  LinkInv'
<1>1. PICK a, t, n : a = Top(log'[i]) /\ t = currentTerm[i] /\ n = Len(log[i])
  BY Zenon
<1>2. TypeOK /\ TypeOK' /\ t \in Nat /\ n \in Nat /\ log[i] \in Seq(Entry)
  <2>1. TypeOK /\ TypeOK'
    BY Zenon DEF IndexInv
  <2> QED BY <1>1, <2>1, SubmitStep
<1>3. /\ Links \subseteq Links' /\ SentLinks \subseteq SentLinks' /\ a \in Links'
      /\ \A b \in Links' : b \in Links \/ b = a
      /\ Server # {i} => a \in SentLinks'
  BY Zenon, <1>1, SubmitNewLink
<1>4. /\ a.index = n + 1 /\ a.entry.term = t /\ a.prev = LastTerm(log[i])
      /\ Leads(i, t) /\ UNCHANGED <<currentTerm, role>>
  BY Zenon, <1>1, SubmitStep
<1>5. Links \in SUBSET LinkRecord
  BY Zenon, <1>2, LinksTyped
<1>6. ASSUME NEW b \in Links
      PROVE  b.index \in Nat /\ b.entry.term \in Nat /\ b.prev \in Nat
  BY Zenon, <1>5 DEF LinkRecord, Entry
<1>7. ASSUME NEW b \in Links, b.entry.term = t
      PROVE  b.index <= n /\ Link(log[i], b.index) = b /\ LastTerm(log[i]) = t
  BY Zenon, <1>1, <1>4, <1>7 DEF LinkInv, LeaderHolds
<1>8. Unique(Links)'
  <2> SUFFICES ASSUME NEW b \in Links', NEW c \in Links',
                      b.index = c.index, b.entry.term = c.entry.term
               PROVE  b = c
    BY Zenon DEF Unique
  <2>1. CASE b \in Links /\ c \in Links
    BY Zenon, <2>1 DEF LinkInv, Unique
  <2>2. \A d \in Links : ~ (d.index = n + 1 /\ d.entry.term = t)
    BY <1>2, <1>6, <1>7
  <2> QED BY Zenon, <1>3, <1>4, <2>1, <2>2
<1>9. Ordered(Links)'
  <2>1. a.prev <= a.entry.term
    BY Zenon, <1>1, <1>4 DEF LinkInv, LogTerms
  <2> QED BY Zenon, <1>3, <2>1 DEF Ordered, LinkInv
<1>10. Runs(Links)'
  <2> SUFFICES ASSUME NEW b \in Links', NEW c \in Links',
                      b.entry.term = c.entry.term, b.index < c.index
               PROVE  c.prev = b.entry.term
    BY Zenon DEF Runs
  <2>1. CASE b \in Links /\ c \in Links
    BY Zenon, <2>1 DEF LinkInv, Runs
  <2>2. CASE b \in Links /\ c = a
    BY Zenon, <1>4, <1>7, <2>2
  <2>3. CASE b = a /\ c \in Links
    BY SMTT(30), <1>2, <1>4, <1>6, <1>7, <2>3
  <2>4. CASE b = a /\ c = a
    BY <1>2, <1>4, <2>4
  <2> QED BY Zenon, <1>3, <2>1, <2>2, <2>3, <2>4
<1>11. LeaderHolds'
  <2> SUFFICES ASSUME NEW s \in Server, NEW b \in Links', Leads(s, b.entry.term)'
               PROVE  /\ b.index <= Len(log'[s]) /\ Link(log'[s], b.index) = b
                      /\ LastTerm(log'[s]) = b.entry.term
    BY Zenon DEF LeaderHolds
  <2>1. Leads(s, b.entry.term)
    BY Zenon, <1>4 DEF Leads
  <2>2. CASE s # i
    <3>1. log'[s] = log[s]
      BY Zenon, <2>2, SubmitStep
    <3>2. b \in Links
      <4>1. ASSUME b = a PROVE FALSE
        <5>1. Owner(s, t) /\ Owner(i, t)
          BY Zenon, <1>4, <2>1, <4>1, LeaderOwns
        <5> QED BY Zenon, <1>2, <2>2, <5>1, OwnerOnce
      <4> QED BY Zenon, <1>3, <4>1
    <3> QED BY Zenon, <2>1, <3>1, <3>2 DEF LinkInv, LeaderHolds
  <2>3. CASE s = i
    <3>1. b.entry.term = t
      BY Zenon, <1>1, <2>1, <2>3 DEF Leads
    <3>2. /\ Len(log'[i]) = n + 1 /\ LastTerm(log'[i]) = t
          /\ \A k \in 1..n : Link(log'[i], k) = Link(log[i], k)
      BY Zenon, <1>1, SubmitStep
    <3>3. CASE b = a
      BY SMTT(30), <1>1, <1>2, <1>4, <2>3, <3>2, <3>3 DEF Top
    <3>4. CASE b \in Links
      <4>1. b.index <= n /\ Link(log[i], b.index) = b /\ b.index # 0
        BY Zenon, <1>2, <1>7, <3>1, <3>4, LinksTyped
      <4>2. b.index \in 1..n
        BY SMTT(30), <1>2, <1>6, <3>4, <4>1
      <4> QED BY SMTT(30), <1>2, <2>3, <3>1, <3>2, <4>1, <4>2
    <3> QED BY Zenon, <1>3, <3>3, <3>4
  <2> QED BY Zenon, <2>2, <2>3
<1>12. LinkOwned'
  <2>1. \A b \in Links : \E s \in Server :
          /\ Owner(s, b.entry.term)' /\ currentTerm'[s] >= b.entry.term
          /\ currentTerm'[s] = b.entry.term => role'[s] # "Candidate"
    BY Zenon, <1>2, OwnersStay DEF LinkInv
  <2>2. /\ Owner(i, a.entry.term)' /\ currentTerm'[i] >= a.entry.term
        /\ currentTerm'[i] = a.entry.term => role'[i] # "Candidate"
    <3>1. Owner(i, t)
      BY Zenon, <1>4, LeaderOwns
    <3>2. Owner(i, t)'
      BY Zenon, <3>1, VotesStay DEF Owner, Remembers
    <3> QED BY SMTT(30), <1>1, <1>2, <1>4, <3>2 DEF Leads
  <2> QED BY Zenon, <1>3, <2>1, <2>2 DEF LinkOwned
<1>13. LinkSent'
  <2> SUFFICES ASSUME NEW s \in Server, Server # {s}
               PROVE  LinksOf(log'[s]) \subseteq SentLinks'
    BY Zenon DEF LinkSent
  <2>1. LinksOf(log[s]) \subseteq SentLinks
    BY Zenon DEF LinkInv, LinkSent
  <2>2. CASE s = i
    BY Zenon, <1>1, <1>3, <2>1, <2>2, SubmitStep
  <2>3. CASE s # i
    BY Zenon, <1>3, <2>1, <2>3, SubmitStep
  <2> QED BY Zenon, <2>2, <2>3
<1>14. LogTerms'
  <2> SUFFICES ASSUME NEW s \in Server PROVE LastTerm(log'[s]) <= currentTerm'[s]
    BY Zenon DEF LogTerms
  <2>1. CASE s = i
    BY SMTT(30), <1>1, <1>2, <1>4, <2>1, SubmitStep
  <2>2. CASE s # i
    BY Zenon, <1>4, <2>2, SubmitStep DEF LinkInv, LogTerms
  <2> QED BY Zenon, <2>1, <2>2
<1> QED BY ZenonT(30), <1>8, <1>9, <1>10, <1>11, <1>12, <1>13, <1>14, WellOrderedStays DEF LinkInv

\* LinkInv and a follower that accepts a call: it does not lead the term.
LEMMA AcceptLinks ==
    ASSUME TypeOK, TypeOK', Remembers, Evolves, LinkInv, CallEnds,
           NEW m \in appendCalls, Accepts(m)
    PROVE  LinkInv'
<1>1. Links' = Links /\ LinkSent'
  BY Zenon, AcceptKeepsLinks
<1>2. WellOrdered' /\ Unique(Links)' /\ Ordered(Links)' /\ Runs(Links)' /\ LinkOwned'
  BY Zenon, <1>1, SameLinks
<1>3. /\ m.to \in Server /\ role'[m.to] = "Follower" /\ m.term >= currentTerm[m.to]
      /\ currentTerm'[m.to] = m.term /\ m.term \in Nat /\ log[m.to] \in Seq(Entry)
      /\ TermAt(log'[m.to], EndIndex(m)) = EndTerm(m)
      /\ log'[m.to] = log[m.to] \/ Len(log'[m.to]) = EndIndex(m)
      /\ \A s \in Server : s # m.to =>
            log'[s] = log[s] /\ currentTerm'[s] = currentTerm[s] /\ role'[s] = role[s]
  BY Zenon, AcceptStep DEF LinkInv
<1>4. LeaderHolds'
  <2> SUFFICES ASSUME NEW s \in Server, NEW a \in Links, Leads(s, a.entry.term)'
               PROVE  /\ a.index <= Len(log'[s]) /\ Link(log'[s], a.index) = a
                      /\ LastTerm(log'[s]) = a.entry.term
    BY Zenon, <1>1 DEF LeaderHolds
  <2>1. s # m.to
    BY Zenon, <1>3 DEF Leads
  <2>2. Leads(s, a.entry.term) /\ log'[s] = log[s]
    BY Zenon, <1>3, <2>1 DEF Leads
  <2> QED BY Zenon, <2>2 DEF LinkInv, LeaderHolds
<1>5. LogTerms'
  <2> SUFFICES ASSUME NEW s \in Server PROVE LastTerm(log'[s]) <= currentTerm'[s]
    BY Zenon DEF LogTerms
  <2>1. LastTerm(log[s]) <= currentTerm[s]
    BY Zenon DEF LinkInv, LogTerms
  <2>2. CASE s # m.to
    BY Zenon, <1>3, <2>1, <2>2
  <2>3. CASE s = m.to /\ log'[s] = log[s]
    <3>1. LastTerm(log[s]) \in Nat /\ currentTerm[s] \in Nat
      BY Zenon, <1>3, <2>3, LastTermType DEF TypeOK
    <3> QED BY SMTT(30), <1>3, <2>1, <2>3, <3>1
  <2>4. CASE s = m.to /\ Len(log'[s]) = EndIndex(m)
    BY Zenon, <1>3, <2>4 DEF LastTerm, CallEnds
  <2> QED BY Zenon, <1>3, <2>2, <2>3, <2>4
<1> QED BY Zenon, <1>1, <1>2, <1>4, <1>5 DEF LinkInv

-----------------------------------------------------------------------------
(* The calls. *)

\* Without a new link or call, and with the leaders' logs as they were, CallInv stays.
LEMMA SameCalls ==
    ASSUME CallInv, Links' = Links, appendCalls' = appendCalls,
           \A s \in Server : \A t : Leads(s, t)' => Leads(s, t) /\ log'[s] = log[s]
    PROVE  CallInv'
<1>1. CallEnds' /\ CallBelowTerm' /\ CallsGrow'
  BY ZenonT(30) DEF CallInv, CallEnds, CallBelowTerm, CallsGrow
<1>2. CallsOfLeader'
  BY ZenonT(30) DEF CallInv, CallsOfLeader
<1> QED BY Zenon, <1>1, <1>2 DEF CallInv

\* CallInv and a leader that sends: its calls end where its log ends.
LEMMA SendsCallInv ==
    ASSUME IndexInv, IndexInv', VoteInv, VoteInv', Remembers, Evolves, LinkInv, CallInv,
           NEW i \in Server, Sends(i)
    PROVE  CallInv'
<1>1. PICK t, l : t = currentTerm'[i] /\ l = log[i]
  BY Zenon
<1>2. TypeOK /\ TypeOK' /\ CallsWithinLog
  BY Zenon DEF IndexInv
<1>3. t \in Nat /\ currentTerm[i] \in Nat /\ l \in Seq(Entry) /\ Len(l) \in Nat
  BY SMTT(30), <1>1, <1>2 DEF TypeOK
<1>4. Links' = Links /\ log' = log
  BY Zenon, SendsKeepsLinks DEF Sends
<1>5. ASSUME NEW m \in appendCalls', m \notin appendCalls
      PROVE  /\ m.from = i /\ m.to # i /\ m.term = t
             /\ EndIndex(m) = Len(l) /\ EndTerm(m) = LastTerm(l)
  BY Zenon, <1>1, <1>5, SendsCalls
<1>6. Leads(i, t) \/ FirstIn(i, t)
  BY Zenon, <1>1 DEF Sends
<1>7. FirstIn(i, t) => /\ \A a \in Links : a.entry.term # t
                       /\ \A m \in appendCalls : m.term # t
  BY Zenon, <1>2, <1>3, FreshTerm DEF LinkInv, CallInv
<1>8. ASSUME NEW a \in Links, a.entry.term = t PROVE LastTerm(l) = t
  BY Zenon, <1>1, <1>6, <1>7, <1>8 DEF LinkInv, LeaderHolds
<1>9. ASSUME NEW m \in appendCalls, m.term = t
      PROVE  /\ EndIndex(m) <= Len(l) /\ TermAt(l, EndIndex(m)) = EndTerm(m)
             /\ EndIndex(m) < Len(l) => LastTerm(l) = t
  <2>1. /\ EndIndex(m) <= Len(l) /\ TermAt(l, EndIndex(m)) = EndTerm(m)
        /\ EndIndex(m) < Len(l) => l[EndIndex(m) + 1].term = t
    BY Zenon, <1>1, <1>6, <1>7, <1>9 DEF CallInv, CallsOfLeader
  <2>2. ASSUME EndIndex(m) < Len(l) PROVE LastTerm(l) = t
    <3>1. EndIndex(m) \in Nat
      BY Zenon, <1>2, CallTyped
    <3>2. EndIndex(m) + 1 \in 1..Len(l)
      BY SMTT(30), <1>3, <2>2, <3>1
    <3>3. Link(l, EndIndex(m) + 1) \in Links
      BY Zenon, <1>1, <3>2, Linked DEF LinksOf
    <3>4. Link(l, EndIndex(m) + 1).entry.term = t
      BY Zenon, <2>1, <2>2 DEF Link
    <3> QED BY Zenon, <1>8, <3>3, <3>4
  <2> QED BY Zenon, <2>1, <2>2
<1>10. LastTerm(l) \in Nat /\ LastTerm(l) <= t
  <2>1. LastTerm(l) <= currentTerm[i] /\ currentTerm[i] <= t /\ LastTerm(l) \in Nat
    BY Zenon, <1>1, <1>3, LastTermType DEF LinkInv, LogTerms, Evolves
  <2> QED BY <1>3, <2>1
<1>11. CallEnds'
  <2> SUFFICES ASSUME NEW m \in appendCalls'
               PROVE  /\ m.from # m.to /\ EndTerm(m) <= m.term
                      /\ EndIndex(m) = 0 => EndTerm(m) = 0
                      /\ EndIndex(m) # 0 => \E a \in Links : /\ a.index = EndIndex(m)
                                                            /\ a.entry.term = EndTerm(m)
    BY Zenon, <1>4 DEF CallEnds
  <2>1. CASE m \in appendCalls
    BY Zenon, <2>1 DEF CallInv, CallEnds
  <2>2. CASE m \notin appendCalls
    <3>1. ASSUME Len(l) # 0
          PROVE  \E a \in Links : a.index = Len(l) /\ a.entry.term = LastTerm(l)
      <4>1. Len(l) \in 1..Len(l)
        BY SMTT(30), <1>3, <3>1
      <4>2. Link(l, Len(l)) \in Links
        BY Zenon, <1>1, <4>1, Linked DEF LinksOf
      <4>3. Link(l, Len(l)).index = Len(l) /\ Link(l, Len(l)).entry.term = LastTerm(l)
        BY Zenon, <1>3, <4>1, LinkFields DEF LastTerm
      <4> QED BY Zenon, <4>2, <4>3
    <3>2. Len(l) = 0 => LastTerm(l) = 0
      BY Zenon DEF LastTerm, TermAt
    <3> QED BY Zenon, <1>5, <1>10, <2>2, <3>1, <3>2
  <2> QED BY Zenon, <2>1, <2>2
<1>12. CallsOfLeader'
  <2> SUFFICES ASSUME NEW m \in appendCalls', NEW s \in Server, Leads(s, m.term)'
               PROVE  /\ EndIndex(m) <= Len(log[s]) /\ TermAt(log[s], EndIndex(m)) = EndTerm(m)
                      /\ EndIndex(m) < Len(log[s]) => log[s][EndIndex(m) + 1].term = m.term
    BY Zenon, <1>4 DEF CallsOfLeader
  <2>1. CASE m \in appendCalls
    <3>1. Leads(s, m.term)
      <4>1. CASE s # i
        BY Zenon, <4>1, StillLeads DEF Sends
      <4>2. CASE s = i
        BY Zenon, <1>1, <1>6, <1>7, <2>1, <4>2 DEF Leads
      <4> QED BY Zenon, <4>1, <4>2
    <3> QED BY Zenon, <2>1, <3>1 DEF CallInv, CallsOfLeader
  <2>2. CASE m \notin appendCalls
    <3>1. m.term = t /\ EndIndex(m) = Len(l) /\ EndTerm(m) = LastTerm(l)
      BY Zenon, <1>5, <2>2
    <3>2. s = i
      <4>1. role'[s] = "Leader" /\ currentTerm'[s] = t /\ role'[i] = "Leader"
        BY Zenon, <3>1 DEF Leads, Sends
      <4>2. (TypeOK /\ VoteInv)' => ElectionSafety'
        BY VoteInvSafe, PTL
      <4> QED BY Zenon, <1>1, <1>2, <4>1, <4>2 DEF ElectionSafety
    <3> QED BY SMTT(30), <1>1, <1>3, <3>1, <3>2 DEF LastTerm
  <2> QED BY Zenon, <2>1, <2>2
<1>13. CallBelowTerm'
  <2> SUFFICES ASSUME NEW m \in appendCalls', EndTerm(m) # m.term,
                      NEW a \in Links, a.entry.term = m.term
               PROVE  \E f \in Links : /\ f.index = EndIndex(m) + 1 /\ f.index <= a.index
                                       /\ f.entry.term = m.term /\ f.prev = EndTerm(m)
    BY Zenon, <1>4 DEF CallBelowTerm
  <2>1. CASE m \in appendCalls
    BY Zenon, <2>1 DEF CallInv, CallBelowTerm
  <2>2. CASE m \notin appendCalls
    BY Zenon, <1>5, <1>8, <2>2
  <2> QED BY Zenon, <2>1, <2>2
<1>14. CallsGrow'
  <2> SUFFICES ASSUME NEW m \in appendCalls', NEW c \in appendCalls', m.term = c.term
               PROVE  /\ EndIndex(m) = EndIndex(c) => EndTerm(m) = EndTerm(c)
                      /\ EndIndex(m) < EndIndex(c) => EndTerm(c) = c.term
    BY Zenon DEF CallsGrow
  <2>1. CASE m \in appendCalls /\ c \in appendCalls
    BY Zenon, <2>1 DEF CallInv, CallsGrow
  <2>2. CASE m \in appendCalls /\ c \notin appendCalls
    BY Zenon, <1>5, <1>9, <2>2 DEF LastTerm
  <2>3. CASE m \notin appendCalls /\ c \in appendCalls
    <3>1. EndIndex(c) \in Nat
      BY Zenon, <1>2, <2>3, CallTyped
    <3> QED BY SMTT(30), <1>3, <1>5, <1>9, <2>3, <3>1 DEF LastTerm
  <2>4. CASE m \notin appendCalls /\ c \notin appendCalls
    BY SMTT(30), <1>3, <1>5, <2>4
  <2> QED BY Zenon, <2>1, <2>2, <2>3, <2>4
<1> QED BY Zenon, <1>11, <1>12, <1>13, <1>14 DEF CallInv

\* CallInv and Submit: the log grows by an entry of the leader's term.
LEMMA SubmitCallInv ==
    ASSUME IndexInv, IndexInv', VoteInv, Remembers, LinkInv, CallInv,
           NEW i \in Server, NEW v \in Value, Submit(i, v)
    PROVE  CallInv'
<1>1. PICK a, t, l, n : a = Top(log'[i]) /\ t = currentTerm[i] /\ l = log[i] /\ n = Len(log[i])
  BY Zenon
<1>2. /\ t \in Nat /\ n \in Nat /\ l \in Seq(Entry) /\ Leads(i, t)
      /\ a.index = n + 1 /\ a.entry.term = t /\ a.prev = LastTerm(l)
      /\ UNCHANGED <<currentTerm, role>>
  BY SMTT(30), <1>1, SubmitStep
<1>3. /\ \A b \in Links' : b \in Links \/ b = a
      /\ Links \subseteq Links' /\ a \in Links'
  BY Zenon, <1>1, SubmitNewLink
<1>4. ASSUME NEW m \in appendCalls', m \notin appendCalls
      PROVE  m.from = i /\ m.to # i /\ m.term = t /\ EndIndex(m) = n + 1 /\ EndTerm(m) = t
  <2>1. m \in broadcastHeartbeats(i, currentTerm[i], log'[i], nextIndex[i])
    BY Zenon, <1>4, SubmitStep
  <2> QED BY Zenon, <1>1, <2>1, SubmitCalls
<1>5. ASSUME NEW m \in appendCalls, m.term = t
      PROVE  /\ EndIndex(m) <= n /\ TermAt(l, EndIndex(m)) = EndTerm(m)
             /\ EndIndex(m) < n => l[EndIndex(m) + 1].term = t
  BY Zenon, <1>1, <1>2, <1>5 DEF CallInv, CallsOfLeader
<1>6. \A m \in appendCalls : EndIndex(m) \in Nat
  <2>1. TypeOK
    BY Zenon DEF IndexInv
  <2> QED BY Zenon, <2>1, CallTyped
<1>7. CallEnds'
  <2> SUFFICES ASSUME NEW m \in appendCalls'
               PROVE  /\ m.from # m.to /\ EndTerm(m) <= m.term
                      /\ EndIndex(m) = 0 => EndTerm(m) = 0
                      /\ EndIndex(m) # 0 => \E b \in Links' : /\ b.index = EndIndex(m)
                                                             /\ b.entry.term = EndTerm(m)
    BY Zenon DEF CallEnds
  <2>1. CASE m \in appendCalls
    BY Zenon, <1>3, <2>1 DEF CallInv, CallEnds
  <2>2. CASE m \notin appendCalls
    BY SMTT(30), <1>2, <1>3, <1>4, <2>2
  <2> QED BY Zenon, <2>1, <2>2
<1>8. CallsOfLeader'
  <2> SUFFICES ASSUME NEW m \in appendCalls', NEW s \in Server, Leads(s, m.term)'
               PROVE  /\ EndIndex(m) <= Len(log'[s]) /\ TermAt(log'[s], EndIndex(m)) = EndTerm(m)
                      /\ EndIndex(m) < Len(log'[s]) => log'[s][EndIndex(m) + 1].term = m.term
    BY Zenon DEF CallsOfLeader
  <2>1. Leads(s, m.term)
    BY Zenon, <1>2 DEF Leads
  <2>2. /\ Len(log'[i]) = n + 1 /\ LastTerm(log'[i]) = t /\ log'[i][n + 1].term = t
        /\ \A k \in 0..n : TermAt(log'[i], k) = TermAt(l, k)
        /\ \A k \in 1..n : log'[i][k] = l[k]
    BY Zenon, <1>1, SubmitStep
  <2>3. CASE s = i /\ m \in appendCalls
    <3>1. m.term = t
      BY Zenon, <1>1, <2>1, <2>3 DEF Leads
    <3>2. EndIndex(m) \in 0..n /\ EndIndex(m) <= n + 1
      BY SMTT(30), <1>2, <1>5, <1>6, <2>3, <3>1
    <3>3. TermAt(log'[i], EndIndex(m)) = EndTerm(m)
      BY Zenon, <1>5, <2>2, <2>3, <3>1, <3>2
    <3>4. log'[i][EndIndex(m) + 1].term = t
      <4>1. CASE EndIndex(m) = n
        BY Zenon, <2>2, <4>1
      <4>2. CASE EndIndex(m) < n
        <5>1. EndIndex(m) + 1 \in 1..n
          BY SMTT(30), <1>2, <3>2, <4>2
        <5> QED BY ZenonT(30), <1>5, <2>2, <2>3, <3>1, <4>2, <5>1
      <4> QED BY SMTT(30), <1>2, <3>2, <4>1, <4>2
    <3> QED BY ZenonT(30), <2>2, <2>3, <3>1, <3>2, <3>3, <3>4
  <2>4. CASE s = i /\ m \notin appendCalls
    BY SMTT(30), <1>2, <1>4, <2>2, <2>4 DEF LastTerm
  <2>5. CASE s # i
    <3>1. log'[s] = log[s]
      BY Zenon, <2>5, SubmitStep
    <3>2. m \in appendCalls
      <4>1. ASSUME m.term = t PROVE FALSE
        <5>1. Owner(s, t) /\ Owner(i, t)
          BY Zenon, <1>2, <2>1, <4>1, LeaderOwns
        <5> QED BY Zenon, <1>2, <2>5, <5>1, OwnerOnce
      <4> QED BY Zenon, <1>4, <4>1
    <3> QED BY Zenon, <2>1, <3>1, <3>2 DEF CallInv, CallsOfLeader
  <2> QED BY Zenon, <2>3, <2>4, <2>5
<1>9. CallBelowTerm'
  <2> SUFFICES ASSUME NEW m \in appendCalls', EndTerm(m) # m.term,
                      NEW b \in Links', b.entry.term = m.term
               PROVE  \E f \in Links' : /\ f.index = EndIndex(m) + 1 /\ f.index <= b.index
                                        /\ f.entry.term = m.term /\ f.prev = EndTerm(m)
    BY Zenon DEF CallBelowTerm
  <2>1. m \in appendCalls
    BY Zenon, <1>4
  <2>2. CASE b \in Links
    <3>1. \E f \in Links : /\ f.index = EndIndex(m) + 1 /\ f.index <= b.index
                           /\ f.entry.term = m.term /\ f.prev = EndTerm(m)
      BY Zenon, <2>1, <2>2 DEF CallInv, CallBelowTerm
    <3> QED BY Zenon, <1>3, <3>1
  <2>3. CASE b = a
    <3>1. m.term = t /\ EndIndex(m) \in Nat
      BY Zenon, <1>2, <1>6, <2>1, <2>3
    <3>2. CASE EndIndex(m) = n
      <4>1. a.prev = EndTerm(m)
        BY Zenon, <1>1, <1>2, <1>5, <2>1, <3>1, <3>2 DEF LastTerm
      <4> QED BY SMTT(30), <1>2, <1>3, <2>3, <3>1, <3>2, <4>1
    <3>3. CASE EndIndex(m) < n
      <4>1. EndIndex(m) + 1 \in 1..Len(l) /\ (EndIndex(m) + 1) - 1 = EndIndex(m)
        BY SMTT(30), <1>1, <1>2, <3>1, <3>3
      <4>2. Link(l, EndIndex(m) + 1) \in Links'
        BY Zenon, <1>1, <1>3, <4>1, Linked DEF LinksOf
      <4>3. /\ Link(l, EndIndex(m) + 1).index = EndIndex(m) + 1
            /\ Link(l, EndIndex(m) + 1).entry.term = t
            /\ Link(l, EndIndex(m) + 1).prev = EndTerm(m)
        BY Zenon, <1>5, <2>1, <3>1, <3>3, <4>1 DEF Link
      <4>4. EndIndex(m) + 1 <= b.index
        BY SMTT(30), <1>2, <2>3, <3>1, <3>3
      <4> QED BY Zenon, <3>1, <4>2, <4>3, <4>4
    <3> QED BY SMTT(30), <1>2, <1>5, <2>1, <3>1, <3>2, <3>3
  <2> QED BY Zenon, <1>3, <2>2, <2>3
<1>10. CallsGrow'
  <2> SUFFICES ASSUME NEW m \in appendCalls', NEW c \in appendCalls', m.term = c.term
               PROVE  /\ EndIndex(m) = EndIndex(c) => EndTerm(m) = EndTerm(c)
                      /\ EndIndex(m) < EndIndex(c) => EndTerm(c) = c.term
    BY Zenon DEF CallsGrow
  <2>1. CASE m \in appendCalls /\ c \in appendCalls
    BY Zenon, <2>1 DEF CallInv, CallsGrow
  <2>2. CASE m \in appendCalls /\ c \notin appendCalls
    BY SMTT(30), <1>2, <1>4, <1>5, <1>6, <2>2
  <2>3. CASE m \notin appendCalls /\ c \in appendCalls
    BY SMTT(30), <1>2, <1>4, <1>5, <1>6, <2>3
  <2>4. CASE m \notin appendCalls /\ c \notin appendCalls
    BY Zenon, <1>2, <1>4, <2>4
  <2> QED BY Zenon, <2>1, <2>2, <2>3, <2>4
<1> QED BY Zenon, <1>7, <1>8, <1>9, <1>10 DEF CallInv

-----------------------------------------------------------------------------
(* The replies. *)

\* What was accepted stays accepted if the peer's log keeps reaching the end
\* of the call while the peer is in the term.
LEMMA AcceptedStays ==
    ASSUME TypeOK, TypeOK', Evolves, NEW r \in appendReplies, NEW c, Accepted(r, c),
           /\ currentTerm[r.to] = r.term /\ currentTerm'[r.to] = r.term
           /\ EndIndex(c) <= Len(log[r.to]) /\ TermAt(log[r.to], EndIndex(c)) = EndTerm(c)
           => EndIndex(c) <= Len(log'[r.to]) /\ TermAt(log'[r.to], EndIndex(c)) = EndTerm(c)
    PROVE  Accepted(r, c)'
<1>1. r.to \in Server /\ r.term \in Nat
  BY Zenon DEF TypeOK, AppendEntriesReply
<1>2. currentTerm[r.to] \in Nat /\ currentTerm'[r.to] \in Nat
  BY Zenon, <1>1 DEF TypeOK
<1>3. currentTerm'[r.to] >= currentTerm[r.to] /\ r.term <= currentTerm[r.to]
  BY Zenon, <1>1 DEF Evolves, Accepted
<1>4. r.term <= currentTerm'[r.to]
  BY SMTT(30), <1>1, <1>2, <1>3
<1>5. currentTerm'[r.to] = r.term => currentTerm[r.to] = r.term
  BY SMTT(30), <1>1, <1>2, <1>3
<1> QED BY Zenon, <1>4, <1>5 DEF Accepted

\* ReplySound and a step that changes no log.
LEMMA QuietReplies ==
    ASSUME TypeOK, TypeOK', Evolves, Remembers, ReplySound, log' = log,
           \A r \in appendReplies' : r.success => r \in appendReplies
    PROVE  ReplySound'
<1> SUFFICES ASSUME NEW r \in appendReplies, r.success
             PROVE  \E c \in appendCalls' : Accepted(r, c)'
  BY Zenon DEF ReplySound
<1>1. PICK c \in appendCalls : Accepted(r, c)
  BY Zenon DEF ReplySound
<1>2. Accepted(r, c)'
  BY Zenon, <1>1, AcceptedStays
<1> QED BY Zenon, <1>2 DEF Remembers

\* ReplySound and Submit, which only adds to a log.
LEMMA SubmitReplies ==
    ASSUME IndexInv, IndexInv', Evolves, Remembers, ReplySound,
           NEW i \in Server, NEW v \in Value, Submit(i, v)
    PROVE  ReplySound'
<1>1. TypeOK /\ TypeOK'
  BY Zenon DEF IndexInv
<1>2. /\ appendReplies' = appendReplies /\ Len(log[i]) \in Nat
      /\ Len(log'[i]) = Len(log[i]) + 1
      /\ \A k \in 0..Len(log[i]) : TermAt(log'[i], k) = TermAt(log[i], k)
      /\ \A s \in Server : s # i => log'[s] = log[s]
  BY SMTT(30), SubmitStep
<1> SUFFICES ASSUME NEW r \in appendReplies, r.success
             PROVE  \E c \in appendCalls' : Accepted(r, c)'
  BY Zenon, <1>2 DEF ReplySound
<1>3. PICK c \in appendCalls : Accepted(r, c)
  BY Zenon DEF ReplySound
<1>4. r.to \in Server
  BY Zenon, <1>1 DEF TypeOK, AppendEntriesReply
<1>5. ASSUME EndIndex(c) <= Len(log[r.to]), TermAt(log[r.to], EndIndex(c)) = EndTerm(c)
      PROVE  EndIndex(c) <= Len(log'[r.to]) /\ TermAt(log'[r.to], EndIndex(c)) = EndTerm(c)
  <2>1. CASE r.to # i
    BY Zenon, <1>2, <1>4, <1>5, <2>1
  <2>2. CASE r.to = i
    <3>1. EndIndex(c) \in Nat
      BY Zenon, <1>1, CallTyped
    <3>2. EndIndex(c) \in 0..Len(log[i])
      BY SMTT(30), <1>2, <1>5, <2>2, <3>1
    <3> QED BY SMTT(30), <1>2, <1>5, <2>2, <3>1, <3>2
  <2> QED BY Zenon, <2>1, <2>2
<1>6. Accepted(r, c)'
  BY Zenon, <1>1, <1>3, <1>5, AcceptedStays
<1> QED BY Zenon, <1>6 DEF Remembers

\* A call that is handled late, or again, does not undo what a later call of
\* the same term has left.
LEMMA AcceptReplies ==
    ASSUME TypeOK, TypeOK', Evolves, Remembers, LinkInv, CallInv, ReplySound,
           NEW m \in appendCalls, Accepts(m)
    PROVE  ReplySound'
<1>1. PICK j, l, n : j = m.to /\ l = log[m.to] /\ n = log'[m.to]
  BY Zenon
<1>2. /\ j \in Server /\ m.term \in Nat /\ currentTerm'[j] = m.term
      /\ l \in Seq(Entry) /\ n \in Seq(Entry)
      /\ EndIndex(m) <= Len(n) /\ TermAt(n, EndIndex(m)) = EndTerm(m)
      /\ EndIndex(m) <= Len(l) /\ TermAt(l, EndIndex(m)) = EndTerm(m) => n = l
      /\ n = l \/ Len(n) = EndIndex(m)
      /\ \A s \in Server : s # j => log'[s] = log[s]
  BY Zenon, <1>1, AcceptStep DEF LinkInv
<1>3. LinksOf(l) \subseteq Links /\ LinksOf(n) \subseteq Links
  <2>1. Links' = Links
    BY Zenon, AcceptKeepsLinks DEF CallInv
  <2>2. LinksOf(log'[j]) \subseteq Links'
    BY Zenon, <1>2 DEF Links
  <2> QED BY Zenon, <1>1, <1>2, <2>1, <2>2, Linked
<1> SUFFICES ASSUME NEW r \in appendReplies', r.success
             PROVE  \E c \in appendCalls' : Accepted(r, c)'
  BY Zenon DEF ReplySound
<1>4. CASE r \in appendReplies
  <2>1. PICK c \in appendCalls : Accepted(r, c)
    BY Zenon, <1>4 DEF ReplySound
  <2>2. r.to \in Server
    BY Zenon, <1>4 DEF TypeOK, AppendEntriesReply
  <2>3. ASSUME currentTerm'[r.to] = r.term,
               EndIndex(c) <= Len(log[r.to]), TermAt(log[r.to], EndIndex(c)) = EndTerm(c)
        PROVE  EndIndex(c) <= Len(log'[r.to]) /\ TermAt(log'[r.to], EndIndex(c)) = EndTerm(c)
    <3>1. CASE r.to # j
      BY Zenon, <1>2, <2>2, <2>3, <3>1
    <3>2. CASE r.to = j
      <4>1. m.term = c.term
        BY Zenon, <1>1, <1>2, <2>1, <2>3, <3>2 DEF Accepted
      <4>2. EndIndex(m) \in Nat /\ EndIndex(c) \in Nat /\ Len(n) \in Nat
        BY SMTT(30), <1>2, CallTyped
      <4>3. CASE EndIndex(c) <= EndIndex(m)
        <5>1. TermAt(n, EndIndex(c)) = EndTerm(c)
          BY Zenon, <1>2, <1>3, <4>1, <4>3, SameTermCalls DEF LinkInv, CallInv
        <5>2. EndIndex(c) <= Len(n)
          BY SMTT(30), <1>2, <4>2, <4>3
        <5> QED BY Zenon, <1>1, <3>2, <5>1, <5>2
      <4>4. CASE EndIndex(m) <= EndIndex(c)
        <5>1. EndIndex(c) <= Len(l) /\ TermAt(l, EndIndex(c)) = EndTerm(c) /\ Len(l) \in Nat
          BY SMTT(30), <1>1, <1>2, <2>3, <3>2
        <5>2. TermAt(l, EndIndex(m)) = EndTerm(m)
          BY Zenon, <1>2, <1>3, <4>1, <4>4, <5>1, SameTermCalls DEF LinkInv, CallInv
        <5>3. n = l
          BY SMTT(30), <1>2, <4>2, <4>4, <5>1, <5>2
        <5> QED BY Zenon, <1>1, <3>2, <5>1, <5>3
      <4> QED BY SMTT(30), <4>2, <4>3, <4>4
    <3> QED BY Zenon, <3>1, <3>2
  <2>4. Accepted(r, c)'
    BY Zenon, <1>4, <2>1, <2>3, AcceptedStays
  <2> QED BY Zenon, <2>4 DEF Remembers
<1>5. CASE r.from = m.from /\ r.to = m.to /\ r.term = m.term /\ r.match = EndIndex(m)
  <2>1. Accepted(r, m)'
    BY SMTT(30), <1>1, <1>2, <1>5 DEF Accepted
  <2> QED BY Zenon, <2>1 DEF Remembers
<1> QED BY Zenon, <1>4, <1>5, AcceptStep DEF LinkInv

\* becomeLeader sets every matchIndex of a peer to 0.
LEMMA ElectedMatch ==
    ASSUME TypeOK, NEW i \in Server, NEW t, becomeLeader(i, t),
           \A s \in Server : s # i => currentTerm'[s] = currentTerm[s],
           NEW s \in Server, role'[s] = "Leader"
    PROVE  MatchEvolves(s)
<1>1. matchIndex \in [Server -> [Server -> Nat]] /\ role \in [Server -> Role]
  BY Zenon DEF TypeOK
<1>2. /\ matchIndex' = [matchIndex EXCEPT ![i] = [j \in Server |-> IF j = i THEN @[j] ELSE 0]]
      /\ role' = [role EXCEPT ![i] = "Leader"]
  BY Zenon DEF becomeLeader
<1>3. CASE s = i
  BY Zenon, <1>1, <1>2, <1>3 DEF MatchEvolves
<1>4. CASE s # i
  BY Zenon, <1>1, <1>2, <1>4 DEF MatchEvolves
<1> QED BY Zenon, <1>3, <1>4

\* How a step changes the matchIndex of a leader.
LEMMA NextMatch ==
    ASSUME TypeOK, VoteInv', [Next]_vars, NEW s \in Server, role'[s] = "Leader"
    PROVE  MatchEvolves(s)
<1>0. /\ currentTerm \in [Server -> Nat] /\ role \in [Server -> Role]
      /\ matchIndex \in [Server -> [Server -> Nat]]
      /\ appendReplies \subseteq AppendEntriesReply /\ appendCalls \subseteq AppendEntriesArgs
  BY Zenon DEF TypeOK
<1>1. ASSUME NEW i \in Server, runElectionLoop(i) PROVE MatchEvolves(s)
  <2>1. currentTerm' = [currentTerm EXCEPT ![i] = @ + 1]
    BY Zenon, <1>1 DEF runElectionLoop, startElection
  <2>2. CASE becomeLeader(i, currentTerm[i] + 1)
    BY Zenon, <1>0, <2>1, <2>2, ElectedMatch
  <2>3. CASE role' = [role EXCEPT ![i] = "Candidate"] /\ matchIndex' = matchIndex
    BY Zenon, <1>0, <2>1, <2>3 DEF MatchEvolves
  <2> QED BY Zenon, <1>1, <2>2, <2>3 DEF runElectionLoop, startElection, leaderVars
<1>2. ASSUME NEW i \in Server, runHeartbeatLoop(i) PROVE MatchEvolves(s)
  BY Zenon, <1>2 DEF runHeartbeatLoop, electionVars, leaderVars, MatchEvolves
<1>3. ASSUME NEW i \in Server, NEW v \in Value, Submit(i, v) PROVE MatchEvolves(s)
  BY Zenon, <1>3 DEF Submit, electionVars, leaderVars, MatchEvolves
<1>4. ASSUME NEW i \in Server, Kill(i) PROVE MatchEvolves(s)
  BY Zenon, <1>4 DEF Kill, electionVars, leaderVars, MatchEvolves
<1>5. ASSUME NEW m \in voteCalls, NEW j \in Server, RequestVote(m, j) PROVE MatchEvolves(s)
  <2>1. /\ role' = [role EXCEPT ![j] = IF m.term > currentTerm[j] THEN "Follower" ELSE @]
        /\ currentTerm' = [currentTerm EXCEPT ![j] =
                              IF m.term > currentTerm[j] THEN m.term ELSE currentTerm[j]]
        /\ matchIndex' = matchIndex
    BY Zenon, <1>5 DEF RequestVote, leaderVars
  <2> QED BY Zenon, <1>0, <2>1 DEF MatchEvolves
<1>6. ASSUME NEW m \in voteReplies, RequestVoteReplied(m) PROVE MatchEvolves(s)
  <2>1. m.from \in Server
    BY Zenon DEF TypeOK, RequestVoteReply
  <2>2. CASE becomeFollower(m.from, m.replyTerm) /\ matchIndex' = matchIndex
    BY Zenon, <1>0, <2>1, <2>2 DEF becomeFollower, MatchEvolves
  <2>3. CASE currentTerm' = currentTerm /\ becomeLeader(m.from, currentTerm[m.from])
    BY Zenon, <2>1, <2>3, ElectedMatch
  <2>4. CASE UNCHANGED <<currentTerm, role, matchIndex>>
    BY Zenon, <2>4 DEF MatchEvolves
  <2> QED BY Zenon, <1>6, <2>2, <2>3, <2>4 DEF RequestVoteReplied, leaderVars
<1>7. ASSUME NEW m \in appendCalls, AppendEntriesStale(m) PROVE MatchEvolves(s)
  BY Zenon, <1>7 DEF AppendEntriesStale, electionVars, leaderVars, MatchEvolves
<1>8. ASSUME NEW m \in appendCalls, AppendEntries(m) PROVE MatchEvolves(s)
  <2>1. /\ role' = [role EXCEPT ![m.to] = "Follower"] /\ matchIndex' = matchIndex
        /\ currentTerm' = [currentTerm EXCEPT ![m.to] = m.term] /\ m.to \in Server
    BY Zenon, <1>0, <1>8 DEF AppendEntries, leaderVars, AppendEntriesArgs
  <2> QED BY Zenon, <1>0, <2>1 DEF MatchEvolves
<1>9. ASSUME NEW m \in appendReplies, AppendEntriesReplied(m) PROVE MatchEvolves(s)
  <2>1. m.from \in Server /\ m.to \in Server
    BY Zenon, <1>0 DEF AppendEntriesReply
  <2>2. CASE becomeFollower(m.from, m.replyTerm) /\ matchIndex' = matchIndex
    BY Zenon, <1>0, <2>1, <2>2 DEF becomeFollower, MatchEvolves
  <2>3. CASE UNCHANGED <<currentTerm, role, matchIndex>>
    BY Zenon, <2>3 DEF MatchEvolves
  <2>4. CASE /\ m.success /\ UNCHANGED <<currentTerm, role>>
             /\ matchIndex' = [matchIndex EXCEPT ![m.from][m.to] = m.match]
    <3>1. role[m.from] = "Leader" /\ currentTerm[m.from] = m.term
      BY Zenon, <1>9 DEF AppendEntriesReplied
    <3>2. CASE s = m.from
      BY ZenonT(30), <1>0, <2>1, <2>4, <3>1, <3>2 DEF MatchEvolves
    <3>3. CASE s # m.from
      BY Zenon, <1>0, <2>1, <2>4, <3>3 DEF MatchEvolves
    <3> QED BY Zenon, <3>2, <3>3
  <2> QED BY Zenon, <1>9, <2>2, <2>3, <2>4 DEF AppendEntriesReplied, leaderVars
<1>10. CASE UNCHANGED vars
  BY Zenon, <1>10 DEF vars, electionVars, leaderVars, MatchEvolves
<1> QED BY ZenonT(30), <1>1, <1>2, <1>3, <1>4, <1>5, <1>6, <1>7, <1>8, <1>9, <1>10 DEF Next

\* Every step keeps MatchReported.
LEMMA NextMatchReported ==
    ASSUME TypeOK, VoteInv', [Next]_vars, Remembers, MatchReported
    PROVE  MatchReported'
<1> SUFFICES ASSUME NEW i \in Server, NEW j \in Server,
                    role'[i] = "Leader", i # j, matchIndex'[i][j] # 0
             PROVE  \E r \in appendReplies' :
                        /\ r.success /\ r.from = i /\ r.to = j
                        /\ r.term = currentTerm'[i] /\ r.match = matchIndex'[i][j]
  BY SMTT(30) DEF MatchReported
<1>1. matchIndex[i] \in [Server -> Nat]
  BY Zenon DEF TypeOK
<1>2. ASSUME role[i] = "Leader", currentTerm'[i] = currentTerm[i],
             matchIndex'[i][j] = matchIndex[i][j]
      PROVE  \E r \in appendReplies' :
                /\ r.success /\ r.from = i /\ r.to = j
                /\ r.term = currentTerm'[i] /\ r.match = matchIndex'[i][j]
  BY <1>2 DEF MatchReported, Remembers
<1>3. ASSUME role[i] = "Leader", currentTerm'[i] = currentTerm[i], NEW r \in appendReplies,
             r.success, r.from = i, r.term = currentTerm[i],
             matchIndex'[i] = [matchIndex[i] EXCEPT ![r.to] = r.match]
      PROVE  \E q \in appendReplies' :
                /\ q.success /\ q.from = i /\ q.to = j
                /\ q.term = currentTerm'[i] /\ q.match = matchIndex'[i][j]
  <2>1. CASE r.to = j
    BY SMTT(30), <1>1, <1>3, <2>1 DEF Remembers
  <2>2. CASE r.to # j
    BY Zenon, <1>1, <1>2, <1>3, <2>2
  <2> QED BY Zenon, <2>1, <2>2
<1>4. MatchEvolves(i)
  BY Zenon, NextMatch
<1> QED BY Zenon, <1>2, <1>3, <1>4 DEF MatchEvolves

-----------------------------------------------------------------------------
(* The invariant. *)

\* NewRaftNode has an empty log, and nothing has been sent.
LEMMA InitLog == Init /\ WellOrdered => LogInv
<1> SUFFICES ASSUME Init, WellOrdered PROVE LogInv
  BY Zenon
<1>1. /\ appendCalls = {} /\ appendReplies = {}
      /\ \A i \in Server : log[i] = <<>> /\ role[i] = "Follower" /\ currentTerm[i] = 0
  BY Zenon DEF Init
<1>2. \A i \in Server : LinksOf(log[i]) = {} /\ LastTerm(log[i]) = 0
  BY <1>1 DEF LinksOf, LastTerm, TermAt
<1>3. Links = {}
  <2>1. ASSUME NEW a \in Links PROVE FALSE
    BY Zenon, <1>1, <1>2, LinkFrom DEF Links, SentLinks
  <2> QED BY Zenon, <2>1
<1>4. LinkInv
  BY SMTT(30), <1>1, <1>2, <1>3 DEF LinkInv, Unique, Ordered, Runs, LeaderHolds, LinkOwned, LinkSent, LogTerms
<1>5. CallInv
  BY Zenon, <1>1 DEF CallInv, CallEnds, CallsOfLeader, CallBelowTerm, CallsGrow
<1>6. ReplyInv
  BY Zenon, <1>1 DEF ReplyInv, ReplySound, MatchReported
<1> QED BY Zenon, <1>4, <1>5, <1>6 DEF LogInv

\* Every step keeps the invariant.
LEMMA NextLogInv ==
    IndexInv /\ IndexInv' /\ Evolves /\ VoteInv /\ VoteInv' /\ LogInv /\ [Next]_vars => LogInv'
<1> SUFFICES ASSUME IndexInv, IndexInv', Evolves, VoteInv, VoteInv', LogInv, [Next]_vars
             PROVE  LogInv'
  BY Zenon
<1>1. TypeOK /\ TypeOK' /\ LinkInv /\ CallInv /\ ReplySound /\ MatchReported
  BY Zenon DEF IndexInv, LogInv, ReplyInv
<1>2. Remembers
  BY Zenon, NextRemembers
<1>3. MatchReported'
  BY Zenon, <1>1, <1>2, NextMatchReported
<1>4. CASE Quiet
  <2>1. LinkInv'
    BY Zenon, <1>1, <1>2, <1>4, QuietLinks
  <2>2. CallInv'
    <3>1. Links' = Links /\ appendCalls' = appendCalls /\ log' = log
      BY Zenon, <1>4 DEF Quiet, Links, SentLinks
    <3>2. \A s \in Server : \A t : Leads(s, t)' => Leads(s, t)
      BY Zenon, <1>4, StillLeads DEF Quiet
    <3> QED BY Zenon, <1>1, <3>1, <3>2, SameCalls
  <2>3. ReplySound'
    BY Zenon, <1>1, <1>2, <1>4, QuietReplies DEF Quiet
  <2> QED BY Zenon, <1>3, <2>1, <2>2, <2>3 DEF LogInv, ReplyInv
<1>5. ASSUME NEW i \in Server, Sends(i) PROVE LogInv'
  <2>1. LinkInv'
    BY Zenon, <1>1, <1>2, <1>5, SendsLinks DEF CallInv
  <2>2. CallInv'
    BY Zenon, <1>1, <1>2, <1>5, SendsCallInv
  <2>3. ReplySound'
    BY Zenon, <1>1, <1>2, <1>5, QuietReplies DEF Sends
  <2> QED BY Zenon, <1>3, <2>1, <2>2, <2>3 DEF LogInv, ReplyInv
<1>6. ASSUME NEW i \in Server, NEW v \in Value, Submit(i, v) PROVE LogInv'
  <2>1. LinkInv'
    BY Zenon, <1>1, <1>2, <1>6, SubmitLinks
  <2>2. CallInv'
    BY Zenon, <1>1, <1>2, <1>6, SubmitCallInv
  <2>3. ReplySound'
    BY Zenon, <1>1, <1>2, <1>6, SubmitReplies
  <2> QED BY Zenon, <1>3, <2>1, <2>2, <2>3 DEF LogInv, ReplyInv
<1>7. ASSUME NEW m \in appendCalls, Accepts(m) PROVE LogInv'
  <2>1. LinkInv'
    BY Zenon, <1>1, <1>2, <1>7, AcceptLinks DEF CallInv
  <2>2. CallInv'
    <3>1. Links' = Links
      BY Zenon, <1>1, <1>7, AcceptKeepsLinks DEF CallInv
    <3>2. /\ appendCalls' = appendCalls /\ role'[m.to] = "Follower"
          /\ \A s \in Server : s # m.to =>
               log'[s] = log[s] /\ currentTerm'[s] = currentTerm[s] /\ role'[s] = role[s]
      BY Zenon, <1>1, <1>7, AcceptStep DEF LinkInv
    <3>3. \A s \in Server : \A t : Leads(s, t)' => Leads(s, t) /\ log'[s] = log[s]
      BY Zenon, <3>2 DEF Leads
    <3> QED BY Zenon, <1>1, <3>1, <3>2, <3>3, SameCalls
  <2>3. ReplySound'
    BY Zenon, <1>1, <1>2, <1>7, AcceptReplies
  <2> QED BY Zenon, <1>3, <2>1, <2>2, <2>3 DEF LogInv, ReplyInv
<1> QED BY Zenon, <1>1, <1>4, <1>5, <1>6, <1>7, NextKinds
=============================================================================
