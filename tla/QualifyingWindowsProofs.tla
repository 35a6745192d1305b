----------------------- MODULE QualifyingWindowsProofs -----------------------
(***************************************************************************)
(* Proofs about the loop of qualifying_windows, for every rule, every       *)
(* setting of its window, threshold and cap, and every list of events.      *)
(***************************************************************************)
EXTENDS QualifyingWindows, SubsequencesProofs

-----------------------------------------------------------------------------
(* Windows as sets of indices *)

(* The events in time for a window that ends at event i, and the last m of *)
(* a set of them.                                                          *)
Near(r, s, i) ==
    {j \in 1..i : /\ GroupKey(r, s[j]) = GroupKey(r, s[i])
                  /\ s[i].ts - s[j].ts <= Seconds[r]}

Latest(I, m) == {j \in I : Cardinality({k \in I : k > j}) < m}

Sorted(s) == \A i, j \in DOMAIN s : i <= j => s[i].ts <= s[j].ts

LEMMA WindowIndices ==
    \A r, s, i : WindowEndingAt(r, s, i) = AtIndices(s, Latest(Near(r, s, i), MaxWindowEvents))
BY DEF WindowEndingAt, Near, Latest

(* Cutting a window and cutting it again after it has slid on by one event *)
(* is cutting it once.                                                     *)
LEMMA LatestOfLatest ==
    ASSUME NEW I \in SUBSET Nat, IsFiniteSet(I), NEW J \in SUBSET I,
           \A j \in J, k \in I : k > j => k \in J,
           NEW n \in Nat, \A i \in I : i < n,
           NEW m \in Nat \ {0}
    PROVE  Latest((Latest(I, m) \cap J) \cup {n}, m) = Latest(J \cup {n}, m)
<1> DEFINE A == Latest(I, m) \cap J
           inI(j) == {k \in I : k > j}
           inA(j) == {k \in A \cup {n} : k > j}
           inJ(j) == {k \in J \cup {n} : k > j}
<1>1. /\ \A j : inI(j) \in SUBSET I /\ IsFiniteSet(inI(j)) /\ Cardinality(inI(j)) \in Nat
      /\ \A j : inJ(j) \in SUBSET (J \cup {n}) /\ IsFiniteSet(inJ(j)) /\ Cardinality(inJ(j)) \in Nat
      /\ \A j : inA(j) \in SUBSET inJ(j)
  <2>1. IsFiniteSet(J \cup {n})
    BY FS_Subset, FS_AddElement
  <2>2. \A j : inI(j) \in SUBSET I /\ inJ(j) \in SUBSET (J \cup {n}) /\ inA(j) \in SUBSET inJ(j)
    OBVIOUS
  <2> HIDE DEF inI, inA, inJ
  <2> QED BY <2>1, <2>2, FS_Subset, FS_CardinalityType
<1>2. \A j : Cardinality(inA(j)) <= Cardinality(inJ(j)) /\ Cardinality(inA(j)) \in Nat
  <2> HIDE DEF inI, inA, inJ
  <2> QED BY <1>1, FS_Subset, FS_CardinalityType
<1>3. \A j \in J : inI(j) \in SUBSET inJ(j)
  OBVIOUS
<1>4. \A j \in J : Cardinality(inI(j)) <= Cardinality(inJ(j))
  <2> HIDE DEF inI, inA, inJ
  <2> QED BY <1>1, <1>3, FS_Subset
<1>5. \A j : j \in A <=> j \in J /\ Cardinality(inI(j)) < m
  BY DEF Latest
<1>6. ASSUME NEW j \in J \cup {n}, Cardinality(inJ(j)) < m
      PROVE  j \in A \cup {n} /\ Cardinality(inA(j)) < m
  <2>1. Cardinality(inA(j)) < m
    <3> HIDE DEF inI, inA, inJ, A
    <3> QED BY <1>1, <1>2, <1>6
  <2>2. CASE j = n
    BY <2>1, <2>2
  <2>3. CASE j \in J
    <3>1. Cardinality(inI(j)) < m
      <4> HIDE DEF inI, inA, inJ, A
      <4> QED BY <1>1, <1>4, <1>6, <2>3
    <3> QED BY <1>5, <2>1, <2>3, <3>1
  <2> QED BY <2>2, <2>3
<1>7. ASSUME NEW j \in A \cup {n}, Cardinality(inA(j)) < m
      PROVE  j \in J \cup {n} /\ Cardinality(inJ(j)) < m
  <2>1. j \in J \cup {n} /\ j \in Nat
    OBVIOUS
  <2>2. \A k \in inJ(j) : k \in inA(j)
    <3> TAKE k \in inJ(j)
    <3>1. k \in J \cup {n} /\ k > j /\ k \in Nat
      OBVIOUS
    <3>2. CASE k = n
      BY <3>1, <3>2
    <3>3. CASE k \in J /\ j = n
      <4>1. k < n
        BY <3>3
      <4> QED BY <3>1, <3>3, <4>1
    <3>4. CASE k \in J /\ j # n
      <4>1. j \in A /\ Cardinality(inI(j)) < m
        BY <1>5, <3>4
      <4>2. inI(k) \in SUBSET inI(j)
        <5>1. \A l \in I : l > k => l > j
          BY <2>1, <3>1
        <5> QED BY <5>1
      <4>3. Cardinality(inI(k)) <= Cardinality(inI(j))
        <5> HIDE DEF inI, inA, inJ, A
        <5> QED BY <1>1, <4>2, FS_Subset
      <4>4. Cardinality(inI(k)) < m
        <5> HIDE DEF inI, inA, inJ, A
        <5> QED BY <1>1, <4>1, <4>3
      <4>5. k \in A
        BY <1>5, <3>4, <4>4
      <4> HIDE DEF A
      <4> QED BY <3>1, <4>5
    <3> QED BY <3>1, <3>2, <3>3, <3>4
  <2>3. inJ(j) = inA(j)
    <3> HIDE DEF inI, inA, inJ, A
    <3> QED BY <1>1, <2>2
  <2> QED BY <1>7, <2>1, <2>3
<1>8. /\ Latest(A \cup {n}, m) = {j \in A \cup {n} : Cardinality(inA(j)) < m}
      /\ Latest(J \cup {n}, m) = {j \in J \cup {n} : Cardinality(inJ(j)) < m}
  BY DEF Latest
<1> HIDE DEF inA, inJ, inI, A
<1>9. Latest(A \cup {n}, m) = Latest(J \cup {n}, m)
  BY <1>6, <1>7, <1>8
<1> QED BY <1>9 DEF A

(* The last m are those of the last m ranks. *)
LEMMA LatestByRank ==
    ASSUME NEW I \in SUBSET Nat, IsFiniteSet(I), NEW m \in Nat \ {0}
    PROVE  Latest(I, m) = IF Cardinality(I) > m
                          THEN {i \in I : Rank(I, i) >= Cardinality(I) - m + 1}
                          ELSE I
<1> DEFINE c == Cardinality(I)
           later(i) == {k \in I : k > i}
<1>1. c \in Nat
  BY FS_CardinalityType
<1>2. \A i \in I : Cardinality(later(i)) = c - Rank(I, i) /\ Rank(I, i) \in 1..c
  BY RankRest, RankOrder
<1>3. Latest(I, m) = {i \in I : Cardinality(later(i)) < m}
  BY DEF Latest
<1> HIDE DEF c, later
<1>4. \A i \in I : Cardinality(later(i)) < m <=> (c > m => Rank(I, i) >= c - m + 1)
  <2> TAKE i \in I
  <2>1. Rank(I, i) \in 1..c /\ Cardinality(later(i)) = c - Rank(I, i)
    BY <1>2
  <2> HIDE DEF Rank
  <2> QED BY <1>1, <2>1
<1> QED BY <1>3, <1>4 DEF c

LEMMA EventTimes ==
    ASSUME NEW s \in Seq(Event)
    PROVE  \A i \in DOMAIN s : s[i] \in Event /\ s[i].ts \in Nat
<1>1. \A e \in Event : e.ts \in Nat
  BY DEF Event
<1>2. \A i \in DOMAIN s : s[i] \in Event
  OBVIOUS
<1> QED BY <1>1, <1>2

LEMMA RuleConstants ==
    /\ MaxWindowEvents \in Nat \ {0}
    /\ \A r \in Rules : Seconds[r] \in Nat /\ Threshold[r] \in Nat
BY RulesAssumption

(* Since the events are in time order, sliding takes an initial part.      *)
LEMMA SlideIndices ==
    ASSUME rule \in Rules, NEW s \in Seq(Event), Sorted(s),
           NEW G \in SUBSET DOMAIN s, NEW n \in G, \A i \in G : i <= n
    PROVE  Slide(AtIndices(s, G), s[n].ts)
             = AtIndices(s, {i \in G : s[n].ts - s[i].ts <= Seconds[rule]})
<1> DEFINE c == Cardinality(G)
           w == AtIndices(s, G)
           now == s[n].ts
           live == {p \in DOMAIN w : now - w[p].ts <= Seconds[rule]}
           m == Min(live)
<1>1. IsFiniteSet(G) /\ G \in SUBSET Nat
  BY Indices
<1>2. c \in Nat
  BY <1>1, FS_CardinalityType
<1>3. /\ \A p \in 1..c : Nth(G, p) \in G /\ Rank(G, Nth(G, p)) = p
      /\ \A i \in G : Nth(G, Rank(G, i)) = i
      /\ \A p, q \in 1..c : p < q => Nth(G, p) < Nth(G, q)
      /\ \A i \in G : Rank(G, i) \in 1..c
  BY <1>1, NthIndex, RankOrder
<1>4. /\ w \in Seq(Event) /\ Len(w) = c /\ DOMAIN w = 1..c
      /\ \A p \in 1..c : w[p] = s[Nth(G, p)]
      /\ \A i \in G : w[Rank(G, i)] = s[i]
  BY SubsequenceAtIndices DEF AtIndices
<1>5. /\ Seconds[rule] \in Nat /\ now \in Nat
      /\ \A i \in G : s[i].ts \in Nat
      /\ \A p \in 1..c : w[p].ts \in Nat
  BY <1>3, <1>4, RuleConstants, EventTimes
<1>6. Slide(w, now) = SubSeq(w, m, c)
  BY <1>4 DEF Slide
<1> HIDE DEF c, w, now
<1>7. m \in 1..c /\ m \in live /\ \A p \in live : m <= p
  <2>1. live \in SUBSET Nat
    BY <1>4
  <2>2. Rank(G, n) \in live
    <3>1. w[Rank(G, n)].ts = now
      BY <1>4 DEF now
    <3>2. now - now <= Seconds[rule]
      BY <1>5
    <3> QED BY <1>3, <1>4, <3>1, <3>2
  <2> QED BY <1>4, <2>1, <2>2, LeastOf
<1>8. \A p, q \in 1..c : p <= q => w[p].ts <= w[q].ts
  <2> TAKE p \in 1..c, q \in 1..c
  <2> HAVE p <= q
  <2>1. CASE p = q
    BY <1>5, <2>1
  <2>2. CASE p # q
    <3>1. Nth(G, p) < Nth(G, q) /\ Nth(G, p) \in G /\ Nth(G, q) \in G
      BY <1>3, <2>2
    <3>2. Nth(G, p) <= Nth(G, q) /\ Nth(G, p) \in DOMAIN s /\ Nth(G, q) \in DOMAIN s
      BY <1>1, <3>1
    <3> QED BY <1>4, <3>2 DEF Sorted
  <2> QED BY <2>1, <2>2
<1>9. \A p \in 1..c : now - w[p].ts <= Seconds[rule] <=> p >= m
  <2> TAKE p \in 1..c
  <2>1. ASSUME p >= m PROVE now - w[p].ts <= Seconds[rule]
    <3>1. w[m].ts <= w[p].ts /\ now - w[m].ts <= Seconds[rule]
      BY <1>7, <1>8, <2>1
    <3> HIDE DEF m
    <3> QED BY <1>5, <1>7, <3>1
  <2>2. ASSUME now - w[p].ts <= Seconds[rule] PROVE p >= m
    <3>1. p \in live
      BY <1>4, <2>2
    <3> HIDE DEF m
    <3> QED BY <1>7, <3>1
  <2> QED BY <2>1, <2>2
<1>10. {i \in G : now - s[i].ts <= Seconds[rule]} = {i \in G : Rank(G, i) >= m}
  <2>1. \A i \in G : now - s[i].ts <= Seconds[rule] <=> Rank(G, i) >= m
    <3> HIDE DEF m
    <3> QED BY <1>3, <1>4, <1>9
  <2> HIDE DEF m
  <2> QED BY <2>1
<1>11. SubSeq(w, m, c) = AtIndices(s, {i \in G : Rank(G, i) >= m})
  <2>1. m \in 1..(c + 1)
    <3> HIDE DEF m
    <3> QED BY <1>2, <1>7
  <2> HIDE DEF m
  <2> QED BY <2>1, LastIndices DEF c, w
<1> QED BY <1>6, <1>10, <1>11 DEF now, w

(* Capping keeps the last of what there is.                                *)
LEMMA CappedIndices ==
    ASSUME NEW s \in Seq(Event), NEW G \in SUBSET DOMAIN s
    PROVE  Capped(AtIndices(s, G)) = AtIndices(s, Latest(G, MaxWindowEvents))
<1> DEFINE c == Cardinality(G)
           w == AtIndices(s, G)
<1>1. IsFiniteSet(G) /\ G \in SUBSET Nat
  BY Indices
<1>2. c \in Nat /\ MaxWindowEvents \in Nat \ {0}
  BY <1>1, FS_CardinalityType, RuleConstants
<1>3. w \in Seq(Event) /\ Len(w) = c
  BY SubsequenceAtIndices
<1>4. Latest(G, MaxWindowEvents)
        = IF c > MaxWindowEvents THEN {i \in G : Rank(G, i) >= c - MaxWindowEvents + 1} ELSE G
  BY <1>1, <1>2, LatestByRank
<1>5. Capped(w) = IF c > MaxWindowEvents THEN SubSeq(w, c - MaxWindowEvents + 1, c) ELSE w
  BY <1>3 DEF Capped
<1>6. CASE c > MaxWindowEvents
  <2>1. c - MaxWindowEvents + 1 \in 1..(c + 1)
    <3> HIDE DEF c
    <3> QED BY <1>2, <1>6
  <2>2. SubSeq(w, c - MaxWindowEvents + 1, c)
          = AtIndices(s, {i \in G : Rank(G, i) >= c - MaxWindowEvents + 1})
    BY <2>1, LastIndices
  <2>3. Capped(w) = SubSeq(w, c - MaxWindowEvents + 1, c)
    BY <1>5, <1>6, Zenon
  <2>4. Latest(G, MaxWindowEvents) = {i \in G : Rank(G, i) >= c - MaxWindowEvents + 1}
    BY <1>4, <1>6, Zenon
  <2> QED BY <2>2, <2>3, <2>4, Zenon
<1>7. CASE ~(c > MaxWindowEvents)
  BY <1>4, <1>5, <1>7
<1> QED BY <1>6, <1>7

-----------------------------------------------------------------------------
(* The inductive invariant *)

(* The events so far of one group, the window that ends at one of them and *)
(* the evidence of that window.                                            *)
Ends(key) == {i \in 1..(next - 1) : GroupKey(rule, stamped[i]) = key}

EvidenceAt(i) == Evidence(rule, WindowEndingAt(rule, stamped, i))

(* The events of a group up to the next one: Ends(key) after a step.        *)
NewEnds(key) == {i \in 1..next : GroupKey(rule, stamped[i]) = key}

(* The first index of a group with its widest evidence.                    *)
FirstWidest(i, key) ==
    /\ i \in Ends(key)
    /\ \A j \in Ends(key) :
          \/ Len(EvidenceAt(j)) < Len(EvidenceAt(i))
          \/ Len(EvidenceAt(j)) = Len(EvidenceAt(i)) /\ i <= j

Entry == [key : DOMAIN windows, evidence : Seq(Event) \ {<<>>}]

Types ==
    /\ rule \in Rules
    /\ stamped \in Seq(Event) /\ Sorted(stamped)
    /\ next \in 1..(Len(stamped) + 1)
    /\ \A i \in DOMAIN stamped : GroupKey(rule, stamped[i]) \in DOMAIN windows
    /\ matched \in Seq(Entry)

(* A deque is the window that ends at its group's last event.              *)
DequeExact ==
    \A key \in DOMAIN windows :
        /\ Ends(key) = {} => windows[key] = <<>>
        /\ \A i \in Ends(key) :
              (\A j \in Ends(key) : j <= i) => windows[key] = WindowEndingAt(rule, stamped, i)

(* The matched dict has each qualified group once, with its widest         *)
(* evidence, in the order in which the groups first qualified.             *)
MatchedOnce == \A p, q \in DOMAIN matched : matched[p].key = matched[q].key => p = q

MatchedComplete ==
    \A i \in 1..(next - 1) :
        EvidenceAt(i) # <<>> => \E p \in DOMAIN matched : matched[p].key = GroupKey(rule, stamped[i])

MatchedWidest ==
    \A p \in DOMAIN matched :
        \E i \in Ends(matched[p].key) :
            FirstWidest(i, matched[p].key) /\ matched[p].evidence = EvidenceAt(i)

MatchedInOrder ==
    \A p, q \in DOMAIN matched :
        p < q => \E i \in Ends(matched[p].key) :
                    /\ EvidenceAt(i) # <<>>
                    /\ \A j \in Ends(matched[q].key) : EvidenceAt(j) # <<>> => i < j

IInv == /\ Types /\ DequeExact
        /\ MatchedOnce /\ MatchedComplete /\ MatchedWidest /\ MatchedInOrder
-----------------------------------------------------------------------------
(* The deque of a group after a step *)

(* Seen from the next event, the window that ended at its group's last     *)
(* event has all the earlier ones that are still in time.                  *)
LEMMA NextNear ==
    ASSUME Types, DequeExact, next \in DOMAIN stamped
    PROVE  \E I \in SUBSET (1..(next - 1)) :
              /\ windows[GroupKey(rule, stamped[next])]
                   = AtIndices(stamped, Latest(I, MaxWindowEvents))
              /\ Near(rule, stamped, next)
                   = {j \in I : stamped[next].ts - stamped[j].ts <= Seconds[rule]} \cup {next}
<1> DEFINE n == next
           key == GroupKey(rule, stamped[n])
           now == stamped[n].ts
<1>1. /\ n \in Nat \ {0} /\ n \in DOMAIN stamped
      /\ stamped \in Seq(Event) /\ Sorted(stamped) /\ rule \in Rules
      /\ key \in DOMAIN windows
      /\ DOMAIN stamped = 1..Len(stamped) /\ Len(stamped) \in Nat
  BY DEF Types
<1>2. /\ Seconds[rule] \in Nat
      /\ \A i \in DOMAIN stamped : stamped[i].ts \in Nat
      /\ now \in Nat
  BY <1>1, RuleConstants, EventTimes
<1>3. Ends(key) \in SUBSET (1..(n - 1))
  BY DEF Ends
<1>4. \A j \in Near(rule, stamped, n) : j = n \/ j \in Ends(key)
  BY <1>1 DEF Near, Ends
<1>5. n \in Near(rule, stamped, n)
  <2>1. now - now <= Seconds[rule]
    BY <1>2
  <2> QED BY <1>1, <2>1 DEF Near
<1>6. CASE Ends(key) = {}
  <2>1. windows[key] = <<>>
    BY <1>1, <1>6 DEF DequeExact
  <2>2. Latest({}, MaxWindowEvents) = {}
    BY DEF Latest
  <2>3. AtIndices(stamped, {}) = <<>>
    <3>1. Len(AtIndices(stamped, {})) = 0 /\ AtIndices(stamped, {}) \in Seq(Event)
      BY <1>1, SubsequenceAtIndices, FS_EmptySet
    <3> QED BY <3>1
  <2>4. Near(rule, stamped, n) = {n}
    BY <1>4, <1>5, <1>6
  <2>5. {j \in {} : now - stamped[j].ts <= Seconds[rule]} = {}
    OBVIOUS
  <2>6. {} \in SUBSET (1..(n - 1))
    OBVIOUS
  <2>7. {} \cup {n} = {n}
    OBVIOUS
  <2> HIDE DEF n
  <2> QED BY <2>1, <2>2, <2>3, <2>4, <2>5, <2>6, <2>7 DEF n
<1>7. CASE Ends(key) # {}
  <2>1. Ends(key) \subseteq Int /\ IsFiniteSet(Ends(key))
    <3>1. IsFiniteSet(1..(n - 1))
      <4>1. n - 1 \in Nat
        BY <1>1
      <4> QED BY <4>1, FirstNumbers
    <3>2. 1..(n - 1) \subseteq Int
      OBVIOUS
    <3> HIDE DEF key, n
    <3> QED BY <1>3, <3>1, <3>2, FS_Subset
  <2>2. PICK l \in Ends(key) : \A j \in Ends(key) : l >= j
    BY <1>7, <2>1, GreatestElement
  <2>3. l \in 1..(n - 1) /\ l \in DOMAIN stamped /\ GroupKey(rule, stamped[l]) = key
    <3>1. l \in 1..(n - 1) /\ GroupKey(rule, stamped[l]) = key
      BY DEF Ends
    <3> QED BY <1>1, <3>1
  <2>4. \A j \in Ends(key) : j <= l
    BY <1>3, <2>2, <2>3
  <2> DEFINE I == Near(rule, stamped, l)
  <2>5. windows[key] = AtIndices(stamped, Latest(I, MaxWindowEvents))
    BY <1>1, <2>4, WindowIndices DEF DequeExact
  <2>6. I \in SUBSET (1..(n - 1))
    BY <1>1, <2>3 DEF Near
  <2>7. ASSUME NEW j \in Near(rule, stamped, n), j # n
        PROVE  j \in I /\ now - stamped[j].ts <= Seconds[rule]
    <3>1. j \in Ends(key) /\ now - stamped[j].ts <= Seconds[rule]
      BY <1>4, <2>7 DEF Near
    <3>2. j \in 1..l /\ j \in DOMAIN stamped /\ GroupKey(rule, stamped[j]) = key
      BY <1>1, <1>3, <2>3, <2>4, <3>1 DEF Ends
    <3>3. stamped[l].ts <= now
      BY <1>1, <2>3 DEF Sorted
    <3>4. stamped[l].ts - stamped[j].ts <= Seconds[rule]
      <4> HIDE DEF now
      <4> QED BY <1>2, <2>3, <3>1, <3>2, <3>3
    <3> QED BY <2>3, <3>1, <3>2, <3>4 DEF Near
  <2>8. ASSUME NEW j \in I, now - stamped[j].ts <= Seconds[rule]
        PROVE  j \in Near(rule, stamped, n)
    <3>1. j \in 1..n /\ GroupKey(rule, stamped[j]) = key
      BY <1>1, <2>3 DEF Near
    <3> QED BY <2>8, <3>1 DEF Near
  <2>9. Near(rule, stamped, n) = {j \in I : now - stamped[j].ts <= Seconds[rule]} \cup {n}
    <3> HIDE DEF I, now, n
    <3> QED BY <1>5, <2>7, <2>8
  <2> HIDE DEF I
  <2> QED BY <2>5, <2>6, <2>9
<1> QED BY <1>6, <1>7

LEMMA NextWindow ==
    ASSUME Types, DequeExact, next \in DOMAIN stamped
    PROVE  Capped(Slide(Append(windows[GroupKey(rule, stamped[next])], stamped[next]),
                        stamped[next].ts))
             = WindowEndingAt(rule, stamped, next)
<1> DEFINE n == next
           key == GroupKey(rule, stamped[n])
           now == stamped[n].ts
           m == MaxWindowEvents
<1>1. /\ n \in Nat \ {0} /\ n \in DOMAIN stamped
      /\ stamped \in Seq(Event) /\ Sorted(stamped) /\ rule \in Rules
      /\ DOMAIN stamped = 1..Len(stamped) /\ Len(stamped) \in Nat
  BY DEF Types
<1>2. /\ Seconds[rule] \in Nat /\ m \in Nat \ {0}
      /\ \A i \in DOMAIN stamped : stamped[i].ts \in Nat
      /\ now \in Nat
  BY <1>1, RuleConstants, EventTimes
<1>3. PICK I \in SUBSET (1..(n - 1)) :
              /\ windows[key] = AtIndices(stamped, Latest(I, m))
              /\ Near(rule, stamped, n)
                   = {j \in I : now - stamped[j].ts <= Seconds[rule]} \cup {n}
  BY NextNear
<1> DEFINE J == {j \in I : now - stamped[j].ts <= Seconds[rule]}
           L == Latest(I, m)
           G == L \cup {n}
<1>4. I \in SUBSET Nat /\ I \in SUBSET DOMAIN stamped /\ \A i \in I : i < n
  BY <1>1, <1>3
<1>5. IsFiniteSet(I)
  BY <1>1, <1>4, Indices
<1>6. L \in SUBSET I
  BY DEF Latest
<1>7. Append(windows[key], stamped[n]) = AtIndices(stamped, G)
  <2>1. L \in SUBSET DOMAIN stamped /\ \A i \in L : i < n
    BY <1>4, <1>6
  <2>2. windows[key] = AtIndices(stamped, L)
    BY <1>3
  <2>3. Append(AtIndices(stamped, L), stamped[n]) = AtIndices(stamped, L \cup {n})
    <3> HIDE DEF L, n, key
    <3> QED BY <1>1, <2>1, AppendedIndex
  <2> QED BY <2>2, <2>3, Zenon
<1>8. Slide(AtIndices(stamped, G), now)
        = AtIndices(stamped, {i \in G : now - stamped[i].ts <= Seconds[rule]})
  <2>1. G \in SUBSET DOMAIN stamped /\ n \in G /\ \A i \in G : i <= n
    <3>1. \A i \in G : i = n \/ i \in I
      BY <1>6
    <3>2. \A i \in I : i \in DOMAIN stamped /\ i <= n
      BY <1>1, <1>4
    <3> HIDE DEF L
    <3>3. n <= n /\ n \in G
      BY <1>1
    <3> HIDE DEF G
    <3> QED BY <1>1, <3>1, <3>2, <3>3
  <2> HIDE DEF G
  <2> QED BY <1>1, <2>1, SlideIndices
<1>9. {i \in G : now - stamped[i].ts <= Seconds[rule]} = (L \cap J) \cup {n}
  <2>1. now - stamped[n].ts <= Seconds[rule]
    BY <1>2
  <2>2. \A i \in L : i \in I
    BY <1>6
  <2> HIDE DEF L, now
  <2> QED BY <2>1, <2>2
<1>10. Capped(AtIndices(stamped, (L \cap J) \cup {n}))
         = AtIndices(stamped, Latest((L \cap J) \cup {n}, m))
  <2>1. (L \cap J) \cup {n} \in SUBSET DOMAIN stamped
    BY <1>1, <1>4
  <2> HIDE DEF L, J
  <2> QED BY <1>1, <2>1, CappedIndices
<1>11. Latest((L \cap J) \cup {n}, m) = Latest(J \cup {n}, m)
  <2>1. J \in SUBSET I
    OBVIOUS
  <2>2. ASSUME NEW j \in J, NEW k \in I, k > j PROVE k \in J
    <3>1. j \in DOMAIN stamped /\ k \in DOMAIN stamped /\ j <= k
      BY <1>4, <2>2
    <3>2. stamped[j].ts <= stamped[k].ts
      BY <1>1, <3>1 DEF Sorted
    <3>3. now - stamped[j].ts <= Seconds[rule]
      OBVIOUS
    <3>4. now - stamped[k].ts <= Seconds[rule]
      <4> HIDE DEF now
      <4> QED BY <1>2, <3>1, <3>2, <3>3
    <3> QED BY <3>4
  <2>3. \A j \in J, k \in I : k > j => k \in J
    BY <2>2
  <2>4. n \in Nat /\ m \in Nat \ {0}
    BY <1>1, <1>2
  <2> HIDE DEF J, n, m
  <2>5. Latest((Latest(I, m) \cap J) \cup {n}, m) = Latest(J \cup {n}, m)
    BY ONLY <1>4, <1>5, <2>1, <2>3, <2>4, LatestOfLatest
  <2> QED BY <2>5
<1>12. WindowEndingAt(rule, stamped, n) = AtIndices(stamped, Latest(J \cup {n}, m))
  BY <1>3, WindowIndices
<1> HIDE DEF J, L, G
<1> QED BY <1>7, <1>8, <1>9, <1>10, <1>11, <1>12
-----------------------------------------------------------------------------
(* What the rules sort and count *)

Distinct(s) == \A i, j \in DOMAIN s : s[i] = s[j] => i = j

SortsBefore(events, i, j) ==
    \/ events[i].ts < events[j].ts
    \/ events[i].ts = events[j].ts /\ i < j

(* Sorting some of the events lists their indices in order of time.        *)
LEMMA OrderedIndices ==
    ASSUME NEW events \in Seq(Event), NEW kept \in SUBSET DOMAIN events
    PROVE  \E order \in Seq(kept) :
              /\ TimeOrdered(events, kept) = [n \in DOMAIN order |-> events[order[n]]]
              /\ \A x \in kept : \E n \in DOMAIN order : order[n] = x
              /\ \A m, n \in DOMAIN order : m < n => SortsBefore(events, order[m], order[n])
<1> DEFINE before == {p \in kept \X kept :
                        \/ events[p[1]].ts < events[p[2]].ts
                        \/ events[p[1]].ts = events[p[2]].ts /\ p[1] < p[2]}
           order == InOrder(kept, before)
<1>1. IsFiniteSet(kept) /\ kept \in SUBSET Nat
  BY Indices
<1>2. \A i \in kept : events[i].ts \in Nat /\ i \in Nat
  BY <1>1, EventTimes
<1>3. \A i, j \in kept : <<i, j>> \in before <=> SortsBefore(events, i, j)
  BY DEF SortsBefore
<1>4. TimeOrdered(events, kept) = [n \in DOMAIN order |-> events[order[n]]]
  BY DEF TimeOrdered
<1> HIDE DEF before
<1>5. \A i \in kept : <<i, i>> \notin before
  BY <1>2, <1>3 DEF SortsBefore
<1>6. \A i, j \in kept : i # j => <<i, j>> \in before \/ <<j, i>> \in before
  BY <1>2, <1>3 DEF SortsBefore
<1>7. \A i, j, k \in kept : <<i, j>> \in before /\ <<j, k>> \in before => <<i, k>> \in before
  BY <1>2, <1>3 DEF SortsBefore
<1>8. /\ order \in Seq(kept)
      /\ Len(order) = Cardinality(kept) /\ Cardinality(kept) \in Nat
      /\ \A x \in kept : \E n \in 1..Cardinality(kept) : order[n] = x
      /\ \A m, n \in 1..Cardinality(kept) : m < n => <<order[m], order[n]>> \in before
  BY <1>1, <1>5, <1>6, <1>7, SortedSet, Zenon
<1> HIDE DEF order
<1>9. DOMAIN order = 1..Cardinality(kept) /\ \A n \in 1..Cardinality(kept) : order[n] \in kept
  BY <1>8
<1>10. \A m, n \in DOMAIN order : m < n => SortsBefore(events, order[m], order[n])
  BY <1>3, <1>8, <1>9
<1> QED BY <1>4, <1>8, <1>9, <1>10

LEMMA TimeOrderedSorted ==
    ASSUME NEW events \in Seq(Event), NEW kept \in SUBSET DOMAIN events
    PROVE  TimeOrdered(events, kept) \in Seq(Event) /\ Sorted(TimeOrdered(events, kept))
<1>1. PICK order \in Seq(kept) :
          /\ TimeOrdered(events, kept) = [n \in DOMAIN order |-> events[order[n]]]
          /\ \A m, n \in DOMAIN order : m < n => SortsBefore(events, order[m], order[n])
  BY OrderedIndices
<1>2. \A n \in DOMAIN order : events[order[n]] \in Event /\ events[order[n]].ts \in Nat
  BY EventTimes
<1>3. DOMAIN order = 1..Len(order) /\ Len(order) \in Nat
  OBVIOUS
<1>4. TimeOrdered(events, kept) \in Seq(Event)
  BY <1>1, <1>2, <1>3
<1>5. ASSUME NEW i \in DOMAIN order, NEW j \in DOMAIN order, i <= j
      PROVE  events[order[i]].ts <= events[order[j]].ts
  <2>1. CASE i = j
    BY <1>2, <2>1
  <2>2. CASE i # j
    <3>1. i < j
      BY <1>3, <1>5, <2>2
    <3> QED BY <1>1, <1>2, <3>1 DEF SortsBefore
  <2> QED BY <2>1, <2>2
<1>6. Sorted(TimeOrdered(events, kept))
  BY <1>1, <1>5 DEF Sorted
<1> QED BY <1>4, <1>6

LEMMA StampedSorted ==
    ASSUME NEW r, NEW events \in Seq(Event)
    PROVE  /\ Stamped(r, events) \in Seq(Event) /\ Sorted(Stamped(r, events))
           /\ \A i \in DOMAIN Stamped(r, events) :
                 /\ Relevant(r, Stamped(r, events)[i])
                 /\ \E j \in DOMAIN events : Stamped(r, events)[i] = events[j]
           /\ \A j \in DOMAIN events : Relevant(r, events[j]) =>
                 \E i \in DOMAIN Stamped(r, events) : Stamped(r, events)[i] = events[j]
           /\ Distinct(events) => Distinct(Stamped(r, events))
<1> DEFINE relevant == {i \in DOMAIN events : Relevant(r, events[i])}
<1>1. /\ relevant \in SUBSET DOMAIN events /\ relevant \in SUBSET Nat
      /\ \A i \in relevant : Relevant(r, events[i])
      /\ \A i \in DOMAIN events : Relevant(r, events[i]) => i \in relevant
  BY Indices
<1>2. Stamped(r, events) = TimeOrdered(events, relevant)
  BY DEF Stamped
<1> HIDE DEF relevant
<1>3. Stamped(r, events) \in Seq(Event) /\ Sorted(Stamped(r, events))
  BY <1>1, <1>2, TimeOrderedSorted
<1>4. PICK order \in Seq(relevant) :
          /\ Stamped(r, events) = [n \in DOMAIN order |-> events[order[n]]]
          /\ \A x \in relevant : \E n \in DOMAIN order : order[n] = x
          /\ \A m, n \in DOMAIN order : m < n => SortsBefore(events, order[m], order[n])
  BY <1>1, <1>2, OrderedIndices
<1>5. /\ DOMAIN Stamped(r, events) = DOMAIN order
      /\ \A n \in DOMAIN order :
            Stamped(r, events)[n] = events[order[n]] /\ order[n] \in relevant
  BY <1>4
<1>6. ASSUME Distinct(events), NEW i \in DOMAIN order, NEW j \in DOMAIN order,
             Stamped(r, events)[i] = Stamped(r, events)[j], i # j
      PROVE  FALSE
  <2>1. order[i] = order[j] /\ order[i] \in DOMAIN events
    BY <1>1, <1>5, <1>6 DEF Distinct
  <2>2. i < j \/ j < i
    BY <1>6
  <2>3. SortsBefore(events, order[i], order[i])
    BY <1>4, <2>1, <2>2
  <2> QED BY <1>1, <1>5, <2>1, <2>3, EventTimes DEF SortsBefore
<1>7. Distinct(events) => Distinct(Stamped(r, events))
  BY <1>5, <1>6 DEF Distinct
<1> QED BY <1>1, <1>3, <1>4, <1>5, <1>7

(* What is sorted of part of the kept events is that part of what is       *)
(* sorted of all of them.                                                  *)
LEMMA OrderedSelection ==
    ASSUME NEW events \in Seq(Event), NEW kept \in SUBSET DOMAIN events, NEW r,
           \A i \in DOMAIN events : Relevant(r, events[i]) => i \in kept,
           NEW all, all = TimeOrdered(events, kept)
    PROVE  Stamped(r, events) = AtIndices(all, {p \in DOMAIN all : Relevant(r, all[p])})
<1> DEFINE part == {i \in DOMAIN events : Relevant(r, events[i])}
           places == {p \in DOMAIN all : Relevant(r, all[p])}
<1>1. /\ part \in SUBSET DOMAIN events /\ part \in SUBSET kept
      /\ \A i \in DOMAIN events : i \in part <=> Relevant(r, events[i])
  OBVIOUS
<1>2. Stamped(r, events) = TimeOrdered(events, part)
  BY DEF Stamped
<1> HIDE DEF part
<1>3. PICK long \in Seq(kept) :
          /\ all = [n \in DOMAIN long |-> events[long[n]]]
          /\ \A x \in kept : \E n \in DOMAIN long : long[n] = x
          /\ \A m, n \in DOMAIN long : m < n => SortsBefore(events, long[m], long[n])
  BY OrderedIndices
<1>4. PICK short \in Seq(part) :
          /\ Stamped(r, events) = [n \in DOMAIN short |-> events[short[n]]]
          /\ \A x \in part : \E n \in DOMAIN short : short[n] = x
          /\ \A m, n \in DOMAIN short : m < n => SortsBefore(events, short[m], short[n])
  BY <1>1, <1>2, OrderedIndices
<1>5. /\ DOMAIN all = DOMAIN long /\ DOMAIN long = 1..Len(long) /\ Len(long) \in Nat
      /\ \A p \in DOMAIN long : long[p] \in kept /\ all[p] = events[long[p]]
      /\ DOMAIN short = 1..Len(short) /\ Len(short) \in Nat
      /\ \A n \in DOMAIN short : short[n] \in part
  BY <1>3
<1>6. \A x, y \in kept : ~(SortsBefore(events, x, y) /\ SortsBefore(events, y, x))
  <2>1. \A x \in kept : events[x].ts \in Nat /\ x \in Nat
    BY EventTimes, Indices
  <2> QED BY <2>1 DEF SortsBefore
<1> DEFINE at(n) == CHOOSE p \in DOMAIN long : long[p] = short[n]
           f == [n \in 1..Len(short) |-> at(n)]
<1>7. ASSUME NEW n \in 1..Len(short)
      PROVE  f[n] \in DOMAIN long /\ long[f[n]] = short[n] /\ f[n] \in places
  <2>1. \E p \in DOMAIN long : long[p] = short[n]
    BY <1>1, <1>3, <1>5
  <2>2. at(n) \in DOMAIN long /\ long[at(n)] = short[n]
    BY <2>1
  <2> HIDE DEF at
  <2>3. all[at(n)] = events[short[n]] /\ short[n] \in part
    BY <1>5, <2>2
  <2> QED BY <1>1, <1>5, <2>2, <2>3
<1>8. \A m, n \in 1..Len(short) : m < n => f[m] < f[n]
  <2> SUFFICES ASSUME NEW m \in 1..Len(short), NEW n \in 1..Len(short), m < n
               PROVE  f[m] < f[n]
    OBVIOUS
  <2>1. SortsBefore(events, short[m], short[n])
    BY <1>4, <1>5
  <2>2. short[m] \in kept /\ short[n] \in kept
    BY <1>1, <1>5
  <2>3. /\ f[m] \in 1..Len(long) /\ f[n] \in 1..Len(long)
        /\ long[f[m]] = short[m] /\ long[f[n]] = short[n]
    BY <1>5, <1>7
  <2> HIDE DEF f
  <2>4. f[m] # f[n]
    BY <1>6, <2>1, <2>2, <2>3
  <2>5. ~(f[n] < f[m])
    BY <1>3, <1>5, <1>6, <2>1, <2>2, <2>3
  <2> QED BY <1>5, <2>3, <2>4, <2>5
<1>9. ASSUME NEW p \in places
      PROVE  \E n \in 1..Len(short) : f[n] = p
  <2>1. p \in DOMAIN long /\ long[p] \in part
    BY <1>1, <1>5
  <2>2. PICK n \in 1..Len(short) : short[n] = long[p]
    BY <1>4, <1>5, <2>1
  <2>3. long[f[n]] = long[p] /\ f[n] \in DOMAIN long /\ long[p] \in kept
    BY <1>5, <1>7, <2>1, <2>2
  <2> HIDE DEF f
  <2>4. ~(f[n] < p) /\ ~(p < f[n])
    BY <1>3, <1>6, <2>1, <2>3
  <2> QED BY <1>5, <2>1, <2>3, <2>4
<1>10. f = [n \in 1..Len(short) |-> f[n]] /\ places \in SUBSET Nat
  BY <1>5
<1> HIDE DEF f, places
<1>11. f \in [1..Len(short) -> places]
  BY <1>7, <1>10
<1>12. Cardinality(places) = Len(short) /\ \A n \in 1..Len(short) : f[n] = Nth(places, n)
  BY <1>5, <1>8, <1>9, <1>10, <1>11, IncreasingList
<1>13. \A n \in 1..Len(short) : all[Nth(places, n)] = events[short[n]]
  BY <1>5, <1>7, <1>12
<1>14. AtIndices(all, places) = [n \in 1..Len(short) |-> events[short[n]]]
  BY <1>12, <1>13 DEF AtIndices
<1> QED BY <1>4, <1>5, <1>14 DEF places

(* Representatives are events of the window, no more than it has.          *)
LEMMA RepresentativesOf ==
    ASSUME NEW S, NEW w \in Seq(S), NEW r
    PROVE  Representatives(r, w) \in Seq(S) /\ Len(Representatives(r, w)) <= Len(w)
<1> DEFINE I == {i \in DOMAIN w : /\ Dimension(r, w[i]) # None
                                  /\ \A j \in 1..(i - 1) : Dimension(r, w[j]) # Dimension(r, w[i])}
<1>1. I \in SUBSET DOMAIN w
  OBVIOUS
<1>2. Representatives(r, w) = AtIndices(w, I)
  BY DEF Representatives
<1> HIDE DEF I
<1> QED BY <1>1, <1>2, SubsequenceAtIndices

LEMMA Joined ==
    ASSUME NEW S, NEW a \in Seq(S), NEW b \in Seq(S)
    PROVE  a \o b \in Seq(S) /\ Len(a \o b) = Len(a) + Len(b)
OBVIOUS

LEMMA OnePerFamilyOf ==
    ASSUME NEW S, NEW w \in Seq(S)
    PROVE  OnePerFamily(w) \in Seq(S) /\ Len(OnePerFamily(w)) <= Len(w)
<1> DEFINE found == Representatives("credential_stuffing", w)
           of(f) == {i \in DOMAIN found : SourceFamily(found[i]) = f}
           A == of("ssh")
           B == of("vpn")
           C == of("web")
<1>1. found \in Seq(S) /\ Len(found) <= Len(w) /\ Len(found) \in Nat /\ Len(w) \in Nat
  BY RepresentativesOf
<1>2. OnePerFamily(w) = AtIndices(found, A) \o AtIndices(found, B) \o AtIndices(found, C)
  BY DEF OnePerFamily
<1> HIDE DEF found
<1>3. /\ A \in SUBSET DOMAIN found /\ B \in SUBSET DOMAIN found /\ C \in SUBSET DOMAIN found
      /\ A \cap B = {} /\ (A \cup B) \cap C = {}
  OBVIOUS
<1> HIDE DEF A, B, C
<1>4. (A \cup B) \cup C \in SUBSET DOMAIN found
  BY <1>3
<1>5. /\ IsFiniteSet(A) /\ IsFiniteSet(B) /\ IsFiniteSet(C) /\ IsFiniteSet((A \cup B) \cup C)
      /\ Cardinality((A \cup B) \cup C) <= Len(found)
  BY <1>1, <1>3, <1>4, SubsequenceAtIndices
<1>6. Cardinality(A) + Cardinality(B) + Cardinality(C) <= Len(found)
  <2>1. IsFiniteSet(A \cup B)
        /\ Cardinality(A \cup B) = Cardinality(A) + Cardinality(B) - Cardinality(A \cap B)
    BY <1>5, FS_Union
  <2>2. Cardinality((A \cup B) \cup C)
          = Cardinality(A \cup B) + Cardinality(C) - Cardinality((A \cup B) \cap C)
    BY <1>5, <2>1, FS_Union
  <2>3. Cardinality(A \cap B) = 0 /\ Cardinality((A \cup B) \cap C) = 0
    BY <1>3, FS_EmptySet
  <2>4. /\ Cardinality(A) \in Nat /\ Cardinality(B) \in Nat /\ Cardinality(C) \in Nat
        /\ Cardinality(A \cup B) \in Nat
    BY <1>5, <2>1, FS_CardinalityType
  <2> QED BY <1>1, <1>5, <2>1, <2>2, <2>3, <2>4
<1> DEFINE a == AtIndices(found, A)
           b == AtIndices(found, B)
           d == AtIndices(found, C)
<1>7. /\ a \in Seq(S) /\ Len(a) = Cardinality(A)
      /\ b \in Seq(S) /\ Len(b) = Cardinality(B)
      /\ d \in Seq(S) /\ Len(d) = Cardinality(C)
  BY <1>1, <1>3, SubsequenceAtIndices
<1> HIDE DEF a, b, d
<1>8. a \o b \o d \in Seq(S) /\ Len(a \o b \o d) = Len(a) + Len(b) + Len(d)
  <2> DEFINE ab == a \o b
  <2>1. ab \in Seq(S) /\ Len(ab) = Len(a) + Len(b)
    BY <1>7, Joined, Zenon
  <2> HIDE DEF ab
  <2>2. ab \o d \in Seq(S) /\ Len(ab \o d) = Len(ab) + Len(d)
    BY <1>7, <2>1, Joined, Zenon
  <2> QED BY <2>1, <2>2 DEF ab
<1> QED BY <1>1, <1>2, <1>6, <1>7, <1>8 DEF a, b, d

(* Evidence consists of events of the window, no more than it has.         *)
LEMMA EvidenceOf ==
    ASSUME NEW r \in Rules, NEW S, NEW w \in Seq(S)
    PROVE  Evidence(r, w) \in Seq(S) /\ Len(Evidence(r, w)) <= Len(w)
<1> DEFINE sent == CASE r \in CountRules -> w
                     [] r = "credential_stuffing" -> OnePerFamily(w)
                     [] OTHER -> Representatives(r, w)
<1>1. sent \in {w, OnePerFamily(w), Representatives(r, w)}
  <2>1. r = "credential_stuffing" => r \notin CountRules
    BY DEF CountRules
  <2> QED BY <2>1, Zenon
<1>2. Evidence(r, w) = sent \/ Evidence(r, w) = <<>>
  BY Zenon DEF Evidence
<1>3. /\ w \in Seq(S) /\ Len(w) <= Len(w)
      /\ OnePerFamily(w) \in Seq(S) /\ Len(OnePerFamily(w)) <= Len(w)
      /\ Representatives(r, w) \in Seq(S) /\ Len(Representatives(r, w)) <= Len(w)
  BY RepresentativesOf, OnePerFamilyOf
<1>4. <<>> \in Seq(S) /\ Len(<<>>) <= Len(w)
  OBVIOUS
<1> HIDE DEF sent
<1>5. sent \in Seq(S) /\ Len(sent) <= Len(w)
  BY <1>1, <1>3
<1> QED BY <1>2, <1>4, <1>5

(* As many as there are, but no more than the cap.                         *)
LEMMA LatestSize ==
    ASSUME NEW s \in Seq(Event), NEW N \in SUBSET DOMAIN s
    PROVE  Cardinality(Latest(N, MaxWindowEvents))
             = IF Cardinality(N) > MaxWindowEvents THEN MaxWindowEvents ELSE Cardinality(N)
<1> DEFINE I == Latest(N, MaxWindowEvents)
           w == AtIndices(s, I)
           c == Cardinality(N)
           m == c - MaxWindowEvents + 1
<1>1. I \in SUBSET N /\ I \in SUBSET DOMAIN s
  BY DEF Latest
<1>2. IsFiniteSet(N) /\ N \in SUBSET Nat
  BY Indices
<1>3. c \in Nat /\ MaxWindowEvents \in Nat \ {0}
  BY <1>2, FS_CardinalityType, RuleConstants
<1>4. w \in Seq(Event) /\ Len(w) = Cardinality(I)
  <2> HIDE DEF I
  <2> QED BY <1>1, SubsequenceAtIndices
<1>5. CASE c > MaxWindowEvents
  <2>1. I = {j \in N : Rank(N, j) >= m}
    BY <1>2, <1>3, <1>5, LatestByRank
  <2>2. m \in 1..(c + 1)
    <3> HIDE DEF c
    <3> QED BY <1>3, <1>5
  <2>3. SubSeq(AtIndices(s, N), m, c) = w
    <3> HIDE DEF m, I
    <3> QED BY <2>1, <2>2, LastIndices DEF c, w
  <2>4. PICK all \in Seq(Event) : all = AtIndices(s, N) /\ Len(all) = c
    BY SubsequenceAtIndices
  <2>5. Len(SubSeq(all, m, c)) = c - m + 1
    <3> HIDE DEF m, c
    <3> QED BY <1>3, <2>2, <2>4
  <2>6. c - m + 1 = MaxWindowEvents
    <3> HIDE DEF c
    <3> QED BY <1>3
  <2>7. Cardinality(I) = MaxWindowEvents
    BY <1>4, <2>3, <2>4, <2>5, <2>6, Zenon
  <2> QED BY <1>5, <2>7, Zenon
<1>6. CASE ~(c > MaxWindowEvents)
  <2>1. I = N
    BY <1>2, <1>3, <1>6, LatestByRank
  <2> QED BY <1>6, <2>1, Zenon
<1> QED BY <1>5, <1>6

(* The window that ends at an event is made of events in time for it, no   *)
(* more than the cap.                                                      *)
LEMMA WindowOf ==
    ASSUME NEW r \in Rules, NEW s \in Seq(Event), NEW i \in DOMAIN s
    PROVE  LET members == {s[j] : j \in Near(r, s, i)}
           IN /\ WindowEndingAt(r, s, i) \in Seq(members)
              /\ WindowEndingAt(r, s, i) \in Seq(Event)
              /\ Len(WindowEndingAt(r, s, i)) <= MaxWindowEvents
<1> DEFINE N == Near(r, s, i)
           I == Latest(N, MaxWindowEvents)
           members == {s[j] : j \in N}
           w == AtIndices(s, I)
<1>1. N \in SUBSET DOMAIN s
  BY DEF Near
<1>2. I \in SUBSET N /\ I \in SUBSET DOMAIN s
  BY <1>1 DEF Latest
<1>3. IsFiniteSet(N) /\ N \in SUBSET Nat /\ IsFiniteSet(I)
  BY <1>1, <1>2, Indices
<1>4. Cardinality(N) \in Nat /\ MaxWindowEvents \in Nat \ {0}
  BY <1>3, FS_CardinalityType, RuleConstants
<1>5. WindowEndingAt(r, s, i) = w
  BY WindowIndices
<1>6. /\ w \in Seq(Event) /\ Len(w) = Cardinality(I) /\ Len(w) \in Nat
      /\ \A p \in 1..Len(w) : w[p] \in members
  <2> HIDE DEF I
  <2>1. /\ w \in Seq(Event) /\ Len(w) = Cardinality(I)
        /\ \A p \in 1..Cardinality(I) : Nth(I, p) \in I /\ w[p] = s[Nth(I, p)]
    BY <1>2, SubsequenceAtIndices
  <2> HIDE DEF w, N
  <2> QED BY <1>2, <2>1
<1>7. w \in Seq(members)
  <2> HIDE DEF w, members
  <2> QED BY <1>6
<1>8. Cardinality(I) <= MaxWindowEvents
  <2>1. Cardinality(I) = IF Cardinality(N) > MaxWindowEvents THEN MaxWindowEvents ELSE Cardinality(N)
    BY <1>1, LatestSize
  <2> HIDE DEF I, N
  <2> QED BY <1>4, <2>1
<1> HIDE DEF w, members, I
<1> QED BY <1>5, <1>6, <1>7, <1>8 DEF members
-----------------------------------------------------------------------------
(* The induction *)

LEMMA InitEstablishes == Init => IInv
<1> SUFFICES ASSUME Init PROVE IInv
  OBVIOUS
<1>0. PICK r \in Rules : \E events \in Inputs[r] :
          /\ rule = r
          /\ stamped = Stamped(r, events)
          /\ next = 1
          /\ windows = [k \in {GroupKey(r, events[i]) : i \in DOMAIN events} |-> <<>>]
          /\ matched = <<>>
  BY DEF Init
<1>1. PICK events \in Inputs[r] :
          /\ rule = r
          /\ stamped = Stamped(r, events)
          /\ next = 1
          /\ windows = [k \in {GroupKey(r, events[i]) : i \in DOMAIN events} |-> <<>>]
          /\ matched = <<>>
  BY <1>0
<1>2. events \in Seq(Event)
  BY InputsAssumption
<1>3. /\ stamped \in Seq(Event) /\ Sorted(stamped)
      /\ \A i \in DOMAIN stamped : \E j \in DOMAIN events : stamped[i] = events[j]
  BY <1>1, <1>2, StampedSorted
<1>4. Types
  <2>1. next \in 1..(Len(stamped) + 1)
    BY <1>1, <1>3
  <2>2. \A i \in DOMAIN stamped : GroupKey(rule, stamped[i]) \in DOMAIN windows
    BY <1>1, <1>3
  <2>3. matched \in Seq(Entry)
    BY <1>1
  <2> QED BY <1>1, <1>3, <2>1, <2>2, <2>3 DEF Types
<1>5. 1..(next - 1) = {} /\ DOMAIN matched = {}
  BY <1>1
<1>6. DequeExact
  <2>1. \A key : Ends(key) = {}
    BY <1>5 DEF Ends
  <2>2. \A key \in DOMAIN windows : windows[key] = <<>>
    BY <1>1
  <2> QED BY <2>1, <2>2 DEF DequeExact
<1> QED BY <1>4, <1>5, <1>6
        DEF IInv, MatchedOnce, MatchedComplete, MatchedWidest, MatchedInOrder

LEMMA EntryTypes ==
    ASSUME Types
    PROVE  \A p \in DOMAIN matched :
              /\ matched[p] \in Entry
              /\ matched[p].evidence \in Seq(Event) /\ matched[p].evidence # <<>>
              /\ Len(matched[p].evidence) \in Nat
<1> SUFFICES ASSUME NEW p \in DOMAIN matched
             PROVE  /\ matched[p] \in Entry
                    /\ matched[p].evidence \in Seq(Event) /\ matched[p].evidence # <<>>
                    /\ Len(matched[p].evidence) \in Nat
  OBVIOUS
<1>1. matched[p] \in Entry
  <2>1. matched \in Seq(Entry)
    BY DEF Types
  <2> QED BY <2>1
<1>2. \A e \in Entry : e.evidence \in Seq(Event) /\ e.evidence # <<>>
  BY DEF Entry
<1>3. \A e \in Seq(Event) : Len(e) \in Nat
  OBVIOUS
<1> QED BY <1>1, <1>2, <1>3

(* What one group's dict entry says of its length. *)
LEMMA MatchedLength ==
    ASSUME Types, MatchedOnce, NEW key
    PROVE  /\ \A p \in DOMAIN matched :
                 matched[p].key = key => MatchedLen(matched, key) = Len(matched[p].evidence)
           /\ (\A p \in DOMAIN matched : matched[p].key # key) => MatchedLen(matched, key) = 0
<1> DEFINE entry == {i \in DOMAIN matched : matched[i].key = key}
<1>1. MatchedLen(matched, key) = IF entry = {} THEN 0 ELSE Len(matched[Min(entry)].evidence)
  BY DEF MatchedLen
<1>2. entry \in SUBSET Nat
  BY DEF Types
<1>3. ASSUME NEW p \in DOMAIN matched, matched[p].key = key
      PROVE  MatchedLen(matched, key) = Len(matched[p].evidence)
  <2>1. p \in entry /\ entry # {}
    BY <1>3
  <2>2. Min(entry) \in entry
    BY <1>2, <2>1, LeastOf
  <2>3. Min(entry) = p
    BY <1>3, <2>2 DEF MatchedOnce
  <2> HIDE DEF entry
  <2> QED BY <1>1, <2>1, <2>3
<1>4. (\A p \in DOMAIN matched : matched[p].key # key) => entry = {}
  OBVIOUS
<1> HIDE DEF entry
<1> QED BY <1>1, <1>3, <1>4

(* The events of an event's window and its evidence are events.            *)
LEMMA EvidenceAtType ==
    ASSUME Types
    PROVE  \A i \in DOMAIN stamped :
              /\ EvidenceAt(i) \in Seq(Event) /\ Len(EvidenceAt(i)) \in Nat
              /\ (EvidenceAt(i) = <<>>) <=> (Len(EvidenceAt(i)) = 0)
<1> SUFFICES ASSUME NEW i \in DOMAIN stamped
             PROVE  EvidenceAt(i) \in Seq(Event)
  <2>1. \A e \in Seq(Event) : Len(e) \in Nat /\ (e = <<>> <=> Len(e) = 0)
    OBVIOUS
  <2> QED BY <2>1
<1>1. rule \in Rules /\ stamped \in Seq(Event)
  BY DEF Types
<1>2. WindowEndingAt(rule, stamped, i) \in Seq(Event)
  BY <1>1, WindowOf
<1> QED BY <1>1, <1>2, EvidenceOf DEF EvidenceAt

(* What a step leaves as it is, and what it adds.                          *)
LEMMA StepFrame ==
    ASSUME IInv, Step
    PROVE  /\ next \in DOMAIN stamped /\ next \in Nat \ {0}
           /\ rule' = rule /\ stamped' = stamped /\ next' = next + 1 /\ next' - 1 = next
           /\ DOMAIN windows' = DOMAIN windows
           /\ \A i : EvidenceAt(i)' = EvidenceAt(i)
           /\ NewEnds(GroupKey(rule, stamped[next])) = Ends(GroupKey(rule, stamped[next])) \cup {next}
           /\ \A key : key # GroupKey(rule, stamped[next]) => NewEnds(key) = Ends(key)
           /\ \A key : Ends(key) \in SUBSET (1..(next - 1))
           /\ \A i \in 1..(next - 1) : i \in DOMAIN stamped /\ i < next /\ i \in Nat
           /\ 1..(next' - 1) = (1..(next - 1)) \cup {next}
<1>1. /\ stamped \in Seq(Event) /\ next \in 1..(Len(stamped) + 1)
      /\ Len(stamped) \in Nat /\ DOMAIN stamped = 1..Len(stamped)
  BY DEF IInv, Types
<1>2. next <= Len(stamped) /\ next' = next + 1 /\ rule' = rule /\ stamped' = stamped
  BY DEF Step
<1>3. next \in DOMAIN stamped /\ next \in Nat \ {0}
  BY <1>1, <1>2
<1>4. DOMAIN windows' = DOMAIN windows
  BY DEF Step
<1>5. \A i : EvidenceAt(i)' = EvidenceAt(i)
  BY <1>2 DEF EvidenceAt
<1>6. 1..(next' - 1) = (1..(next - 1)) \cup {next}
  BY <1>2, <1>3
<1>7. \A key : NewEnds(key) = {i \in (1..(next - 1)) \cup {next} : GroupKey(rule, stamped[i]) = key}
  <2>1. 1..next = (1..(next - 1)) \cup {next}
    BY <1>3
  <2> QED BY <2>1 DEF NewEnds
<1>8. \A i \in 1..(next - 1) : i \in DOMAIN stamped /\ i < next /\ i \in Nat
  BY <1>1, <1>3
<1>9. /\ NewEnds(GroupKey(rule, stamped[next])) = Ends(GroupKey(rule, stamped[next])) \cup {next}
      /\ \A key : key # GroupKey(rule, stamped[next]) => NewEnds(key) = Ends(key)
      /\ \A key : Ends(key) \in SUBSET (1..(next - 1))
  <2>1. \A key : NewEnds(key)
                   = IF GroupKey(rule, stamped[next]) = key THEN Ends(key) \cup {next} ELSE Ends(key)
    <3> HIDE DEF GroupKey
    <3> QED BY <1>7 DEF Ends
  <2>2. \A key : Ends(key) \in SUBSET (1..(next - 1))
    BY DEF Ends
  <2> QED BY <2>1, <2>2
<1> QED BY <1>2, <1>3, <1>4, <1>5, <1>6, <1>8, <1>9

LEMMA StepDeque ==
    ASSUME IInv, Step
    PROVE  DequeExact'
<1> DEFINE n == next
           at == GroupKey(rule, stamped[n])
           window == Capped(Slide(Append(windows[at], stamped[n]), stamped[n].ts))
<1>1. Types /\ DequeExact
  BY DEF IInv
<1>2. window = WindowEndingAt(rule, stamped, n)
  BY <1>1, StepFrame, NextWindow
<1>3. windows' = [windows EXCEPT ![at] = window] /\ at \in DOMAIN windows
  <2>1. windows' = [windows EXCEPT ![at] = window]
    BY DEF Step
  <2> QED BY <2>1, StepFrame DEF IInv, Types
<1> SUFFICES ASSUME NEW key \in DOMAIN windows
             PROVE  /\ NewEnds(key) = {} => windows'[key] = <<>>
                    /\ \A i \in NewEnds(key) :
                          (\A j \in NewEnds(key) : j <= i)
                              => windows'[key] = WindowEndingAt(rule, stamped, i)
  BY StepFrame DEF DequeExact, Ends, NewEnds, EvidenceAt
<1>4. CASE key # at
  <2>1. windows'[key] = windows[key] /\ NewEnds(key) = Ends(key)
    BY <1>3, <1>4, StepFrame
  <2> QED BY <1>1, <2>1 DEF DequeExact
<1>5. CASE key = at
  <2>1. windows'[key] = WindowEndingAt(rule, stamped, n)
    BY <1>2, <1>3, <1>5
  <2>2. NewEnds(key) = Ends(key) \cup {n}
    BY <1>5, StepFrame
  <2>3. \A i \in Ends(key) : i \in Nat /\ i < n
    BY StepFrame
  <2>4. n \in Nat
    BY StepFrame
  <2>5. \A i \in NewEnds(key) : (\A j \in NewEnds(key) : j <= i) => i = n
    <3> HIDE DEF n
    <3>1. \A i \in Ends(key) : ~(n <= i)
      BY <2>3, <2>4
    <3> QED BY <2>2, <3>1
  <2> HIDE DEF n
  <2> QED BY <2>1, <2>2, <2>5
<1> QED BY <1>4, <1>5

(* The dict's entries after a step, in terms of the evidence before it.    *)
LEMMA WidestAfter ==
    ASSUME rule' = rule, stamped' = stamped, next' - 1 = next,
           \A p \in DOMAIN matched' :
               \E i \in NewEnds(matched'[p].key) :
                   /\ \A j \in NewEnds(matched'[p].key) :
                         \/ Len(EvidenceAt(j)) < Len(EvidenceAt(i))
                         \/ Len(EvidenceAt(j)) = Len(EvidenceAt(i)) /\ i <= j
                   /\ matched'[p].evidence = EvidenceAt(i)
    PROVE  MatchedWidest'
BY DEF MatchedWidest, FirstWidest, Ends, NewEnds, EvidenceAt

(* A step that records nothing: the new window is no wider than what the   *)
(* group has.                                                              *)
LEMMA StepPasses ==
    ASSUME IInv, Step, matched' = matched,
           LET e == EvidenceAt(next)
           IN  ~(e # <<>> /\ Len(e) > MatchedLen(matched, GroupKey(rule, stamped[next])))
    PROVE  (MatchedOnce /\ MatchedComplete /\ MatchedWidest /\ MatchedInOrder)'
<1> DEFINE n == next
           at == GroupKey(rule, stamped[n])
<1>1. /\ \A p \in DOMAIN matched :
            matched[p].key = at => MatchedLen(matched, at) = Len(matched[p].evidence)
      /\ (\A p \in DOMAIN matched : matched[p].key # at) => MatchedLen(matched, at) = 0
  BY MatchedLength DEF IInv
<1>2. /\ \A i \in DOMAIN stamped : /\ Len(EvidenceAt(i)) \in Nat
                                   /\ (EvidenceAt(i) = <<>>) <=> (Len(EvidenceAt(i)) = 0)
      /\ n \in DOMAIN stamped /\ n \in Nat
  BY EvidenceAtType, StepFrame DEF IInv
<1>3. EvidenceAt(n) # <<>> => Len(EvidenceAt(n)) <= MatchedLen(matched, at)
  <2>1. MatchedLen(matched, at) \in Nat
    <3>1. \A p \in DOMAIN matched : Len(matched[p].evidence) \in Nat
      BY EntryTypes DEF IInv
    <3> QED BY <1>1, <3>1
  <2> QED BY <1>2, <2>1
<1>4. MatchedOnce'
  BY DEF IInv, MatchedOnce
<1>5. MatchedComplete'
  <2> SUFFICES ASSUME NEW i \in 1..(next' - 1), EvidenceAt(i) # <<>>
               PROVE  \E p \in DOMAIN matched : matched[p].key = GroupKey(rule, stamped[i])
    BY StepFrame DEF MatchedComplete
  <2>1. CASE i \in 1..(next - 1)
    BY <2>1 DEF IInv, MatchedComplete
  <2>2. CASE i = n
    BY <1>1, <1>2, <1>3, <2>2
  <2> QED BY <2>1, <2>2, StepFrame
<1>6. MatchedWidest'
  <2> SUFFICES ASSUME NEW p \in DOMAIN matched
               PROVE  \E i \in NewEnds(matched[p].key) :
                         /\ \A j \in NewEnds(matched[p].key) :
                               \/ Len(EvidenceAt(j)) < Len(EvidenceAt(i))
                               \/ Len(EvidenceAt(j)) = Len(EvidenceAt(i)) /\ i <= j
                         /\ matched[p].evidence = EvidenceAt(i)
    BY StepFrame DEF MatchedWidest, FirstWidest, Ends, NewEnds, EvidenceAt
  <2> DEFINE key == matched[p].key
  <2>1. PICK i \in Ends(key) :
               /\ \A j \in Ends(key) :
                     \/ Len(EvidenceAt(j)) < Len(EvidenceAt(i))
                     \/ Len(EvidenceAt(j)) = Len(EvidenceAt(i)) /\ i <= j
               /\ matched[p].evidence = EvidenceAt(i)
    BY DEF IInv, MatchedWidest, FirstWidest
  <2>2. CASE key # at
    BY <2>1, <2>2, StepFrame
  <2>3. CASE key = at
    <3>1. NewEnds(key) = Ends(key) \cup {n} /\ i <= n /\ i \in DOMAIN stamped
      BY <2>3, StepFrame
    <3>2. Len(EvidenceAt(n)) <= Len(EvidenceAt(i))
      BY <1>1, <1>2, <1>3, <2>1, <2>3, <3>1
    <3>3. \/ Len(EvidenceAt(n)) < Len(EvidenceAt(i))
          \/ Len(EvidenceAt(n)) = Len(EvidenceAt(i)) /\ i <= n
      BY <1>2, <3>1, <3>2
    <3> HIDE DEF n
    <3> QED BY <2>1, <3>1, <3>3 DEF key
  <2> QED BY <2>2, <2>3
<1>7. MatchedInOrder'
  <2> SUFFICES ASSUME NEW p \in DOMAIN matched, NEW q \in DOMAIN matched, p < q
               PROVE  \E i \in NewEnds(matched[p].key) :
                         /\ EvidenceAt(i) # <<>>
                         /\ \A j \in NewEnds(matched[q].key) : EvidenceAt(j) # <<>> => i < j
    BY StepFrame DEF MatchedInOrder, Ends, NewEnds, EvidenceAt
  <2>1. PICK i \in Ends(matched[p].key) :
               /\ EvidenceAt(i) # <<>>
               /\ \A j \in Ends(matched[q].key) : EvidenceAt(j) # <<>> => i < j
    BY DEF IInv, MatchedInOrder
  <2>2. i < n /\ i \in NewEnds(matched[p].key)
    BY StepFrame
  <2>3. \A j \in NewEnds(matched[q].key) : j = n \/ j \in Ends(matched[q].key)
    BY StepFrame
  <2> QED BY <2>1, <2>2, <2>3
<1> QED BY <1>4, <1>5, <1>6, <1>7

(* A step that widens the evidence of a group that has some.               *)
LEMMA StepWidens ==
    ASSUME IInv, Step, NEW p0 \in DOMAIN matched,
           matched[p0].key = GroupKey(rule, stamped[next]),
           EvidenceAt(next) # <<>>,
           Len(EvidenceAt(next)) > Len(matched[p0].evidence),
           matched' = [matched EXCEPT ![p0] = [key |-> GroupKey(rule, stamped[next]),
                                               evidence |-> EvidenceAt(next)]]
    PROVE  (MatchedOnce /\ MatchedComplete /\ MatchedWidest /\ MatchedInOrder)'
<1> DEFINE n == next
           at == GroupKey(rule, stamped[n])
<1>1. /\ DOMAIN matched' = DOMAIN matched
      /\ \A p \in DOMAIN matched : matched'[p].key = matched[p].key
      /\ matched'[p0].evidence = EvidenceAt(n)
      /\ \A p \in DOMAIN matched : p # p0 => matched'[p] = matched[p] /\ matched[p].key # at
  BY DEF IInv, MatchedOnce
<1>2. /\ \A i \in DOMAIN stamped : Len(EvidenceAt(i)) \in Nat
      /\ n \in DOMAIN stamped /\ n \in Nat
  BY EvidenceAtType, StepFrame DEF IInv
<1>3. MatchedOnce'
  BY <1>1 DEF IInv, MatchedOnce
<1>4. MatchedComplete'
  <2> SUFFICES ASSUME NEW i \in 1..(next' - 1), EvidenceAt(i) # <<>>
               PROVE  \E p \in DOMAIN matched : matched[p].key = GroupKey(rule, stamped[i])
    BY <1>1, StepFrame DEF MatchedComplete
  <2>1. CASE i \in 1..(next - 1)
    BY <2>1 DEF IInv, MatchedComplete
  <2>2. CASE i = n
    BY <2>2
  <2> QED BY <2>1, <2>2, StepFrame
<1>5. MatchedWidest'
  <2> SUFFICES ASSUME NEW p \in DOMAIN matched
               PROVE  \E i \in NewEnds(matched[p].key) :
                         /\ \A j \in NewEnds(matched[p].key) :
                               \/ Len(EvidenceAt(j)) < Len(EvidenceAt(i))
                               \/ Len(EvidenceAt(j)) = Len(EvidenceAt(i)) /\ i <= j
                         /\ matched'[p].evidence = EvidenceAt(i)
    BY <1>1, StepFrame DEF MatchedWidest, FirstWidest, Ends, NewEnds, EvidenceAt
  <2>1. PICK i \in Ends(matched[p].key) :
               /\ \A j \in Ends(matched[p].key) :
                     \/ Len(EvidenceAt(j)) < Len(EvidenceAt(i))
                     \/ Len(EvidenceAt(j)) = Len(EvidenceAt(i)) /\ i <= j
               /\ matched[p].evidence = EvidenceAt(i)
    BY DEF IInv, MatchedWidest, FirstWidest
  <2>2. CASE p # p0
    <3>1. NewEnds(matched[p].key) = Ends(matched[p].key) /\ matched'[p] = matched[p]
      BY <1>1, <2>2, StepFrame
    <3> QED BY <2>1, <3>1
  <2>3. CASE p = p0
    <3>1. NewEnds(at) = Ends(at) \cup {n}
      BY StepFrame
    <3>2. i \in DOMAIN stamped /\ \A j \in Ends(at) : j \in DOMAIN stamped
      BY StepFrame
    <3>3. Len(EvidenceAt(i)) < Len(EvidenceAt(n))
      BY <1>2, <2>1, <2>3, <3>2
    <3>4. \A j \in Ends(at) : Len(EvidenceAt(j)) < Len(EvidenceAt(n))
      BY <1>2, <2>1, <2>3, <3>2, <3>3
    <3>5. n <= n
      BY <1>2
    <3> HIDE DEF n
    <3> QED BY <1>1, <2>3, <3>1, <3>4, <3>5 DEF n
  <2> QED BY <2>2, <2>3
<1>6. MatchedInOrder'
  <2> SUFFICES ASSUME NEW p \in DOMAIN matched, NEW q \in DOMAIN matched, p < q
               PROVE  \E i \in NewEnds(matched[p].key) :
                         /\ EvidenceAt(i) # <<>>
                         /\ \A j \in NewEnds(matched[q].key) : EvidenceAt(j) # <<>> => i < j
    BY <1>1, StepFrame DEF MatchedInOrder, Ends, NewEnds, EvidenceAt
  <2>1. PICK i \in Ends(matched[p].key) :
               /\ EvidenceAt(i) # <<>>
               /\ \A j \in Ends(matched[q].key) : EvidenceAt(j) # <<>> => i < j
    BY DEF IInv, MatchedInOrder
  <2>2. i < n /\ i \in NewEnds(matched[p].key)
    BY StepFrame
  <2>3. \A j \in NewEnds(matched[q].key) : j = n \/ j \in Ends(matched[q].key)
    BY StepFrame
  <2> QED BY <2>1, <2>2, <2>3
<1> QED BY <1>3, <1>4, <1>5, <1>6

(* A step with which a group first qualifies. *)
LEMMA StepMatches ==
    ASSUME IInv, Step, \A p \in DOMAIN matched : matched[p].key # GroupKey(rule, stamped[next]),
           EvidenceAt(next) # <<>>,
           matched' = Append(matched, [key |-> GroupKey(rule, stamped[next]),
                                       evidence |-> EvidenceAt(next)])
    PROVE  (MatchedOnce /\ MatchedComplete /\ MatchedWidest /\ MatchedInOrder)'
<1> DEFINE n == next
           at == GroupKey(rule, stamped[n])
           m == Len(matched) + 1
<1>1. /\ DOMAIN matched' = DOMAIN matched \cup {m} /\ m \notin DOMAIN matched
      /\ \A p \in DOMAIN matched : matched'[p] = matched[p] /\ p < m
      /\ matched'[m].key = at /\ matched'[m].evidence = EvidenceAt(n)
  <2>1. matched \in Seq(Entry)
    BY DEF IInv, Types
  <2> DEFINE new == [key |-> at, evidence |-> EvidenceAt(n)]
  <2>2. new.key = at /\ new.evidence = EvidenceAt(n)
    OBVIOUS
  <2>3. matched' = Append(matched, new)
    OBVIOUS
  <2> HIDE DEF new
  <2>4. matched'[m] = new /\ DOMAIN matched' = 1..m /\ DOMAIN matched = 1..Len(matched)
        /\ \A p \in 1..Len(matched) : matched'[p] = matched[p]
    BY <2>1, <2>3
  <2>5. Len(matched) \in Nat
    BY <2>1
  <2> QED BY <2>2, <2>4, <2>5
<1>2. /\ \A i \in DOMAIN stamped : /\ Len(EvidenceAt(i)) \in Nat
                                   /\ (EvidenceAt(i) = <<>>) <=> (Len(EvidenceAt(i)) = 0)
      /\ n \in DOMAIN stamped /\ n \in Nat
  BY EvidenceAtType, StepFrame DEF IInv
<1>3. \A i \in Ends(at) : EvidenceAt(i) = <<>>
  BY StepFrame DEF IInv, MatchedComplete, Ends
<1> HIDE DEF m
<1>4. MatchedOnce'
  BY <1>1 DEF IInv, MatchedOnce
<1>5. MatchedComplete'
  <2> SUFFICES ASSUME NEW i \in 1..(next' - 1), EvidenceAt(i) # <<>>
               PROVE  \E p \in DOMAIN matched' : matched'[p].key = GroupKey(rule, stamped[i])
    BY StepFrame DEF MatchedComplete
  <2>1. CASE i \in 1..(next - 1)
    BY <1>1, <2>1 DEF IInv, MatchedComplete
  <2>2. CASE i = n
    BY <1>1, <2>2
  <2> QED BY <2>1, <2>2, StepFrame
<1>6. MatchedWidest'
  <2> SUFFICES ASSUME NEW p \in DOMAIN matched'
               PROVE  \E i \in NewEnds(matched'[p].key) :
                         /\ \A j \in NewEnds(matched'[p].key) :
                               \/ Len(EvidenceAt(j)) < Len(EvidenceAt(i))
                               \/ Len(EvidenceAt(j)) = Len(EvidenceAt(i)) /\ i <= j
                         /\ matched'[p].evidence = EvidenceAt(i)
    BY StepFrame, WidestAfter
  <2>1. CASE p # m
    <3>1. p \in DOMAIN matched /\ matched'[p] = matched[p] /\ matched[p].key # at
      BY <1>1, <2>1
    <3>2. NewEnds(matched[p].key) = Ends(matched[p].key)
      BY <3>1, StepFrame
    <3> QED BY <3>1, <3>2 DEF IInv, MatchedWidest, FirstWidest
  <2>2. CASE p = m
    <3>1. NewEnds(at) = Ends(at) \cup {n}
      BY StepFrame
    <3>2. \A j \in Ends(at) : Len(EvidenceAt(j)) < Len(EvidenceAt(n))
      BY <1>2, <1>3, StepFrame
    <3>3. n <= n
      BY <1>2
    <3> HIDE DEF n
    <3> QED BY <1>1, <2>2, <3>1, <3>2, <3>3 DEF n
  <2> QED BY <2>1, <2>2
<1>7. MatchedInOrder'
  <2> SUFFICES ASSUME NEW p \in DOMAIN matched', NEW q \in DOMAIN matched', p < q
               PROVE  \E i \in NewEnds(matched'[p].key) :
                         /\ EvidenceAt(i) # <<>>
                         /\ \A j \in NewEnds(matched'[q].key) : EvidenceAt(j) # <<>> => i < j
    BY StepFrame, SMTT(30) DEF MatchedInOrder, Ends, NewEnds, EvidenceAt
  <2>0. p # m /\ p \in DOMAIN matched /\ matched'[p] = matched[p] /\ matched[p].key # at
    <3>1. matched \in Seq(Entry)
      BY DEF IInv, Types
    <3>2. m \in Nat /\ DOMAIN matched \in SUBSET Nat
      BY <3>1 DEF m
    <3>3. p # m
      BY <1>1, <3>2
    <3> QED BY <1>1, <3>3
  <2>1. CASE q # m
    <3>1. q \in DOMAIN matched /\ matched'[q] = matched[q] /\ matched[q].key # at
      BY <1>1, <2>1
    <3>2. /\ NewEnds(matched[p].key) = Ends(matched[p].key)
          /\ NewEnds(matched[q].key) = Ends(matched[q].key)
      BY <2>0, <3>1, StepFrame
    <3> QED BY <2>0, <3>1, <3>2 DEF IInv, MatchedInOrder
  <2>2. CASE q = m
    <3>1. PICK i \in Ends(matched[p].key) : matched[p].evidence = EvidenceAt(i)
      BY <2>0 DEF IInv, MatchedWidest
    <3>2. EvidenceAt(i) # <<>>
      <4>1. matched[p] \in Entry
        BY <2>0 DEF IInv, Types
      <4> QED BY <3>1, <4>1 DEF Entry
    <3>3. i < n /\ i \in NewEnds(matched[p].key)
      BY StepFrame
    <3>4. \A j \in NewEnds(at) : EvidenceAt(j) # <<>> => j = n
      BY <1>3, StepFrame
    <3> QED BY <1>1, <2>0, <2>2, <3>2, <3>3, <3>4
  <2> QED BY <2>1, <2>2
<1> QED BY <1>4, <1>5, <1>6, <1>7

LEMMA StepPreserves == IInv /\ Step => IInv'
<1> SUFFICES ASSUME IInv, Step PROVE IInv'
  OBVIOUS
<1> DEFINE n == next
           at == GroupKey(rule, stamped[n])
           e == EvidenceAt(n)
           new == [key |-> at, evidence |-> e]
<1>1. e = Evidence(rule, Capped(Slide(Append(windows[at], stamped[n]), stamped[n].ts)))
  BY StepFrame, NextWindow DEF IInv, EvidenceAt
<1>2. matched' = IF e # <<>> /\ Len(e) > MatchedLen(matched, at)
                 THEN Record(matched, at, e) ELSE matched
  BY <1>1 DEF Step
<1>3. /\ \A p \in DOMAIN matched :
            matched[p].key = at => MatchedLen(matched, at) = Len(matched[p].evidence)
      /\ matched \in Seq(Entry)
  BY MatchedLength DEF IInv, Types
<1>4. new \in Entry \/ e = <<>>
  <2>1. at \in DOMAIN windows /\ n \in DOMAIN stamped
    BY StepFrame DEF IInv, Types
  <2>2. e \in Seq(Event)
    BY <2>1, EvidenceAtType DEF IInv
  <2> QED BY <2>1, <2>2 DEF Entry
<1>5. Entry' = Entry
  BY StepFrame DEF Entry
<1> HIDE DEF e
<1>6. /\ (MatchedOnce /\ MatchedComplete /\ MatchedWidest /\ MatchedInOrder)'
      /\ matched' \in Seq(Entry)
  <2>1. CASE ~(e # <<>> /\ Len(e) > MatchedLen(matched, at))
    <3>1. matched' = matched
      BY <1>2, <2>1
    <3>2. (MatchedOnce /\ MatchedComplete /\ MatchedWidest /\ MatchedInOrder)'
      BY <2>1, <3>1, StepPasses DEF e
    <3> QED BY <1>3, <3>1, <3>2
  <2>2. CASE e # <<>> /\ Len(e) > MatchedLen(matched, at) /\ \E p \in DOMAIN matched : matched[p].key = at
    <3>1. PICK p \in DOMAIN matched : matched[p].key = at
      BY <2>2
    <3>2. matched' = [i \in DOMAIN matched |-> IF matched[i].key = at THEN new ELSE matched[i]]
      BY <1>2, <2>2 DEF Record
    <3>3. \A i \in DOMAIN matched : matched[i].key = at <=> i = p
      BY <3>1 DEF IInv, MatchedOnce
    <3>4. matched' = [matched EXCEPT ![p] = new]
      <4> HIDE DEF new
      <4> QED BY <3>2, <3>3
    <3>5. (MatchedOnce /\ MatchedComplete /\ MatchedWidest /\ MatchedInOrder)'
      BY <1>3, <2>2, <3>1, <3>4, StepWidens DEF e
    <3>6. matched' \in Seq(Entry)
      <4> HIDE DEF new
      <4> QED BY <1>3, <1>4, <2>2, <3>1, <3>4
    <3> QED BY <3>5, <3>6
  <2>3. CASE e # <<>> /\ Len(e) > MatchedLen(matched, at) /\ \A p \in DOMAIN matched : matched[p].key # at
    <3>1. matched' = Append(matched, new)
      BY <1>2, <2>3 DEF Record
    <3>2. (MatchedOnce /\ MatchedComplete /\ MatchedWidest /\ MatchedInOrder)'
      BY <2>3, <3>1, StepMatches DEF e
    <3>3. matched' \in Seq(Entry)
      <4> HIDE DEF new
      <4> QED BY <1>3, <1>4, <2>3, <3>1
    <3> QED BY <3>2, <3>3
  <2> QED BY <2>1, <2>2, <2>3
<1>7. Types'
  <2>1. next' \in 1..(Len(stamped) + 1)
    <3>1. stamped \in Seq(Event)
      BY DEF IInv, Types
    <3> QED BY <3>1, StepFrame
  <2> QED BY <1>5, <1>6, <2>1, StepFrame DEF IInv, Types
<1>8. DequeExact'
  BY StepDeque
<1> QED BY <1>6, <1>7, <1>8 DEF IInv

(* The inductive invariant holds in every reachable state, for every rule  *)
(* and every list of events (qualifying_windows, patterns/base.py).        *)
THEOREM Invariance == Spec => []IInv
<1>1. IInv /\ [Next]_vars => IInv'
  <2> SUFFICES ASSUME IInv, [Next]_vars PROVE IInv'
    OBVIOUS
  <2>1. CASE Step
    BY <2>1, StepPreserves
  <2>2. CASE UNCHANGED vars
    BY <2>2 DEF vars, IInv, Types, Entry, DequeExact, Ends, EvidenceAt, FirstWidest,
                MatchedOnce, MatchedComplete, MatchedWidest, MatchedInOrder
  <2> QED BY <2>1, <2>2 DEF Next, Done
<1> QED BY <1>1, InitEstablishes, PTL DEF Spec

-----------------------------------------------------------------------------
(* The properties *)

(* Evidence never leaves its window: one group, one window length, at most *)
(* the cap.                                                                *)
LEMMA WithinWindow == IInv => EvidenceWithinWindow
<1> SUFFICES ASSUME IInv, NEW p \in DOMAIN matched
             PROVE  LET found == matched[p].evidence
                    IN /\ Len(found) <= MaxWindowEvents
                       /\ \A j, k \in DOMAIN found :
                            /\ GroupKey(rule, found[j]) = matched[p].key
                            /\ found[j].ts - found[k].ts <= Seconds[rule]
  BY DEF EvidenceWithinWindow
<1>1. /\ rule \in Rules /\ stamped \in Seq(Event) /\ Sorted(stamped)
      /\ next \in 1..(Len(stamped) + 1) /\ Len(stamped) \in Nat
      /\ DOMAIN stamped = 1..Len(stamped)
  BY DEF IInv, Types
<1>2. PICK i \in Ends(matched[p].key) : matched[p].evidence = EvidenceAt(i)
  BY DEF IInv, MatchedWidest
<1>3. i \in DOMAIN stamped /\ GroupKey(rule, stamped[i]) = matched[p].key
  BY <1>1 DEF Ends
<1> DEFINE members == {stamped[j] : j \in Near(rule, stamped, i)}
           w == WindowEndingAt(rule, stamped, i)
           found == EvidenceAt(i)
<1>4. w \in Seq(members) /\ w \in Seq(Event) /\ Len(w) <= MaxWindowEvents
  BY <1>1, <1>3, WindowOf
<1>5. found \in Seq(members) /\ found \in Seq(Event) /\ Len(found) <= Len(w)
  <2> HIDE DEF members, w
  <2> QED BY <1>1, <1>4, EvidenceOf DEF EvidenceAt, w
<1>6. Len(found) <= MaxWindowEvents
  <2>1. Len(w) \in Nat /\ Len(found) \in Nat /\ MaxWindowEvents \in Nat
    <3>1. \A t \in Seq(Event) : Len(t) \in Nat
      OBVIOUS
    <3> QED BY <1>4, <1>5, <3>1, RuleConstants
  <2> HIDE DEF w, found
  <2> QED BY <1>4, <1>5, <2>1
<1>7. \A j \in DOMAIN found : found[j] \in members
  <2> HIDE DEF members, found
  <2> QED BY <1>5
<1>8. \A e \in members : /\ GroupKey(rule, e) = matched[p].key
                         /\ e.ts \in Nat /\ e.ts <= stamped[i].ts
                         /\ stamped[i].ts - e.ts <= Seconds[rule]
  <2> SUFFICES ASSUME NEW j \in Near(rule, stamped, i)
               PROVE  /\ GroupKey(rule, stamped[j]) = matched[p].key
                      /\ stamped[j].ts \in Nat /\ stamped[j].ts <= stamped[i].ts
                      /\ stamped[i].ts - stamped[j].ts <= Seconds[rule]
    OBVIOUS
  <2>1. /\ j \in 1..i /\ GroupKey(rule, stamped[j]) = GroupKey(rule, stamped[i])
        /\ stamped[i].ts - stamped[j].ts <= Seconds[rule]
    BY DEF Near
  <2>2. j \in DOMAIN stamped /\ j <= i
    BY <1>1, <1>3, <2>1
  <2>3. stamped[j].ts \in Nat
    BY <1>1, <2>2, EventTimes
  <2> QED BY <1>1, <1>3, <2>1, <2>2, <2>3 DEF Sorted
<1>9. stamped[i].ts \in Nat /\ Seconds[rule] \in Nat
  BY <1>1, <1>3, EventTimes, RuleConstants
<1>10. \A d, e \in members : d.ts - e.ts <= Seconds[rule]
  <2> HIDE DEF members
  <2> QED BY <1>8, <1>9
<1> HIDE DEF members, found
<1> QED BY <1>2, <1>6, <1>7, <1>8, <1>10 DEF found

(* A selection depends on the selected elements alone.                     *)
LEMMA SameSelection ==
    ASSUME NEW I \in SUBSET Nat, IsFiniteSet(I), NEW s, NEW t, \A i \in I : s[i] = t[i]
    PROVE  AtIndices(s, I) = AtIndices(t, I)
<1>1. \A n \in 1..Cardinality(I) : Nth(I, n) \in I
  BY NthIndex
<1>2. \A n \in 1..Cardinality(I) : s[Nth(I, n)] = t[Nth(I, n)]
  BY <1>1
<1> QED BY <1>2 DEF AtIndices

(* A window that ends at an event needs no later event.                    *)
LEMMA ProcessedWindows ==
    ASSUME Types
    PROVE  /\ DOMAIN Processed = 1..(next - 1)
           /\ \A i \in 1..(next - 1) :
                 /\ Processed[i] = stamped[i]
                 /\ WindowEndingAt(rule, Processed, i) = WindowEndingAt(rule, stamped, i)
<1>1. /\ stamped \in Seq(Event) /\ next \in 1..(Len(stamped) + 1) /\ Len(stamped) \in Nat
      /\ DOMAIN stamped = 1..Len(stamped)
  BY DEF Types
<1>2. DOMAIN Processed = 1..(next - 1) /\ \A i \in 1..(next - 1) : Processed[i] = stamped[i]
  BY <1>1 DEF Processed
<1> SUFFICES ASSUME NEW i \in 1..(next - 1)
             PROVE  WindowEndingAt(rule, Processed, i) = WindowEndingAt(rule, stamped, i)
  BY <1>2
<1> HIDE DEF Processed
<1>3. \A j \in 1..i : j \in 1..(next - 1) /\ j \in DOMAIN stamped /\ Processed[j] = stamped[j]
  BY <1>1, <1>2
<1>4. i \in 1..i
  OBVIOUS
<1>5. Near(rule, Processed, i) = Near(rule, stamped, i)
  BY <1>3, <1>4, Zenon DEF Near
<1> DEFINE I == Latest(Near(rule, stamped, i), MaxWindowEvents)
<1>6. I \in SUBSET (1..i)
  BY DEF Latest, Near
<1>7. I \in SUBSET DOMAIN stamped
  <2> HIDE DEF I
  <2> QED BY <1>3, <1>6
<1>8. I \in SUBSET Nat /\ IsFiniteSet(I)
  BY <1>1, <1>7, Indices
<1>9. AtIndices(Processed, I) = AtIndices(stamped, I)
  <2> HIDE DEF I
  <2> QED BY <1>3, <1>6, <1>8, SameSelection
<1> QED BY <1>5, <1>9, WindowIndices

(* What the reference reads, in terms of the evidence of each event.       *)
LEMMA ReferenceReads ==
    ASSUME Types, NEW key
    PROVE  LET widest == {i \in Ends(key) : \A j \in Ends(key) : Len(EvidenceAt(j)) <= Len(EvidenceAt(i))}
           IN /\ WidestEvidence(rule, Processed, key)
                   = IF Ends(key) = {} THEN <<>>
                     ELSE Evidence(rule, WindowEndingAt(rule, Processed, Min(widest)))
              /\ FirstQualified(rule, Processed, key) = Min({i \in Ends(key) : EvidenceAt(i) # <<>>})
<1> DEFINE ends == {i \in DOMAIN Processed : GroupKey(rule, Processed[i]) = key}
           width == [i \in ends |-> Len(Evidence(rule, WindowEndingAt(rule, Processed, i)))]
           widest == {i \in ends : \A j \in ends : width[j] <= width[i]}
           wide == {i \in Ends(key) : \A j \in Ends(key) : Len(EvidenceAt(j)) <= Len(EvidenceAt(i))}
<1>1. ends = Ends(key)
  BY ProcessedWindows DEF Ends
<1>2. \A i \in ends : Evidence(rule, WindowEndingAt(rule, Processed, i)) = EvidenceAt(i)
  BY ProcessedWindows DEF EvidenceAt
<1>3. WidestEvidence(rule, Processed, key)
        = IF ends = {} THEN <<>>
          ELSE Evidence(rule, WindowEndingAt(rule, Processed, Min(widest)))
  BY DEF WidestEvidence
<1>4. widest = wide
  <2>1. \A i \in ends : width[i] = Len(EvidenceAt(i))
    BY <1>2
  <2> HIDE DEF ends, width
  <2> QED BY <1>1, <2>1
<1>5. FirstQualified(rule, Processed, key) = Min({i \in Ends(key) : EvidenceAt(i) # <<>>})
  <2> DEFINE A == {i \in DOMAIN Processed :
                     /\ GroupKey(rule, Processed[i]) = key
                     /\ Evidence(rule, WindowEndingAt(rule, Processed, i)) # <<>>}
             B == {i \in Ends(key) : EvidenceAt(i) # <<>>}
  <2>1. FirstQualified(rule, Processed, key) = Min(A)
    BY DEF FirstQualified
  <2>2. A = {i \in ends : Evidence(rule, WindowEndingAt(rule, Processed, i)) # <<>>}
    OBVIOUS
  <2>3. A = B
    <3> HIDE DEF ends
    <3> QED BY <1>1, <1>2, <2>2
  <2> HIDE DEF A, B
  <2> QED BY <2>1, <2>3 DEF B
<1> HIDE DEF ends, widest, wide
<1> QED BY <1>1, <1>3, <1>4, <1>5 DEF wide

(* The dict's evidence is the reference's: the window at the first index   *)
(* where a group's evidence is widest.                                     *)
LEMMA IsWidest == IInv => EvidenceIsWidest
<1> SUFFICES ASSUME IInv, NEW key \in DOMAIN windows
             PROVE  MatchedFor(key) = WidestEvidence(rule, Processed, key)
  BY DEF EvidenceIsWidest
<1> DEFINE widest == {i \in Ends(key) : \A j \in Ends(key) : Len(EvidenceAt(j)) <= Len(EvidenceAt(i))}
           entry == {i \in DOMAIN matched : matched[i].key = key}
<1>0. Types
  BY DEF IInv
<1>1. WidestEvidence(rule, Processed, key)
        = IF Ends(key) = {} THEN <<>>
          ELSE Evidence(rule, WindowEndingAt(rule, Processed, Min(widest)))
  BY <1>0, ReferenceReads
<1>2. \A i \in Ends(key) :
          /\ i \in DOMAIN stamped /\ i \in Nat
          /\ Evidence(rule, WindowEndingAt(rule, Processed, i)) = EvidenceAt(i)
          /\ Len(EvidenceAt(i)) \in Nat
          /\ (EvidenceAt(i) = <<>>) <=> (Len(EvidenceAt(i)) = 0)
  <2> SUFFICES ASSUME NEW i \in Ends(key)
               PROVE  /\ i \in DOMAIN stamped /\ i \in Nat
                      /\ Evidence(rule, WindowEndingAt(rule, Processed, i)) = EvidenceAt(i)
    BY <1>0, EvidenceAtType
  <2>1. i \in 1..(next - 1)
    BY DEF Ends
  <2>2. stamped \in Seq(Event) /\ next \in 1..(Len(stamped) + 1)
    BY <1>0 DEF Types
  <2> QED BY <1>0, <2>1, <2>2, ProcessedWindows DEF EvidenceAt
<1>3. widest \in SUBSET Ends(key) /\ widest \in SUBSET Nat
  BY <1>2
<1>4. MatchedFor(key) = IF entry = {} THEN <<>> ELSE matched[Min(entry)].evidence
  BY DEF MatchedFor
<1>5. CASE entry = {}
  <2>1. \A i \in Ends(key) : EvidenceAt(i) = <<>>
    BY <1>5 DEF IInv, MatchedComplete, Ends
  <2>2. Ends(key) # {} => widest = Ends(key)
    <3>1. \A i, j \in Ends(key) : Len(EvidenceAt(j)) <= Len(EvidenceAt(i))
      BY <1>2, <2>1
    <3> QED BY <3>1
  <2> HIDE DEF widest, entry
  <2>3. Ends(key) # {} => Evidence(rule, WindowEndingAt(rule, Processed, Min(widest))) = <<>>
    BY <1>2, <1>3, <2>1, <2>2, LeastOf
  <2> QED BY <1>1, <1>4, <1>5, <2>3
<1>6. CASE entry # {}
  <2>1. PICK p \in DOMAIN matched : matched[p].key = key
    BY <1>6
  <2>2. PICK i \in Ends(key) :
               /\ \A j \in Ends(key) :
                     \/ Len(EvidenceAt(j)) < Len(EvidenceAt(i))
                     \/ Len(EvidenceAt(j)) = Len(EvidenceAt(i)) /\ i <= j
               /\ matched[p].evidence = EvidenceAt(i)
    BY <2>1 DEF IInv, MatchedWidest, FirstWidest
  <2>3. i \in widest /\ \A j \in widest : i <= j
    <3>1. i \in widest
      BY <1>2, <2>2
    <3>2. \A j \in widest : j \in Ends(key) /\ Len(EvidenceAt(i)) <= Len(EvidenceAt(j))
      OBVIOUS
    <3> HIDE DEF widest
    <3> QED BY <1>2, <2>2, <3>1, <3>2
  <2>4. Min(widest) = i
    <3> DEFINE m == Min(widest)
    <3>1. m \in widest /\ m <= i
      <4> HIDE DEF widest
      <4> QED BY <1>3, <2>3, LeastOf
    <3>2. i <= m /\ m \in Nat /\ i \in Nat
      <4> HIDE DEF widest, m
      <4> QED BY <1>2, <1>3, <2>3, <3>1
    <3> HIDE DEF widest, m
    <3>3. m = i
      BY <3>1, <3>2
    <3> QED BY <3>3 DEF m
  <2>5. Min(entry) = p
    <3>1. entry \in SUBSET Nat /\ p \in entry
      BY <1>0, <2>1 DEF Types
    <3>2. Min(entry) \in entry
      <4> HIDE DEF entry
      <4> QED BY <3>1, LeastOf
    <3> QED BY <2>1, <3>2 DEF IInv, MatchedOnce
  <2> HIDE DEF widest, entry
  <2> QED BY <1>1, <1>2, <1>4, <1>6, <2>2, <2>4, <2>5
<1> QED BY <1>5, <1>6

LEMMA InOrderOfQualifying == IInv => ReportedInOrder
<1> DEFINE evident(key) == {i \in Ends(key) : EvidenceAt(i) # <<>>}
<1> SUFFICES ASSUME IInv, NEW p \in DOMAIN matched, NEW q \in DOMAIN matched, p < q
             PROVE  FirstQualified(rule, Processed, matched[p].key)
                      < FirstQualified(rule, Processed, matched[q].key)
  BY DEF ReportedInOrder
<1>0. Types
  BY DEF IInv
<1>1. \A key : FirstQualified(rule, Processed, key) = Min(evident(key))
  BY <1>0, ReferenceReads
<1>2. PICK i \in Ends(matched[p].key) :
             /\ EvidenceAt(i) # <<>>
             /\ \A j \in Ends(matched[q].key) : EvidenceAt(j) # <<>> => i < j
  BY DEF IInv, MatchedInOrder
<1>3. i \in evident(matched[p].key) /\ \A j \in evident(matched[q].key) : i < j
  BY <1>2
<1>4. evident(matched[q].key) # {}
  <2>1. PICK k \in Ends(matched[q].key) : matched[q].evidence = EvidenceAt(k)
    BY DEF IInv, MatchedWidest
  <2>2. matched[q].evidence # <<>>
    BY <1>0, EntryTypes
  <2> QED BY <2>1, <2>2
<1>5. \A key : evident(key) \in SUBSET Nat
  <2>1. \A n \in 1..(next - 1) : n \in Nat
    BY <1>0 DEF Types
  <2> QED BY <2>1 DEF Ends
<1> HIDE DEF evident
<1>6. Min(evident(matched[p].key)) <= i /\ Min(evident(matched[p].key)) \in Nat /\ i \in Nat
  BY <1>3, <1>5, LeastOf
<1>7. i < Min(evident(matched[q].key)) /\ Min(evident(matched[q].key)) \in Nat
  BY <1>3, <1>4, <1>5, LeastOf
<1> QED BY <1>1, <1>6, <1>7

(* A finding claims what its window shows: events of one group, within one *)
(* window length of each other, at most the cap (patterns/base.py), for     *)
(* every rule, setting and list of events.                                 *)
THEOREM FindingsFitOneWindow == Spec => []EvidenceWithinWindow
BY Invariance, WithinWindow, PTL

(* At every point of the loop the running maximum kept in `matched`, with   *)
(* its incremental deques, is what a search of all windows from scratch    *)
(* finds: the widest evidence of each group, the earliest if several.      *)
THEOREM LoopFindsWidest == Spec => []EvidenceIsWidest
BY Invariance, IsWidest, PTL

(* A later, wider window never moves a group: `matched` keeps the order in  *)
(* which the groups first qualified (a dict assignment to a present key).  *)
THEOREM OrderOfFirstQualifying == Spec => []ReportedInOrder
BY Invariance, InOrderOfQualifying, PTL

-----------------------------------------------------------------------------
(* More events, more evidence *)

(* The first event of each kind in a window: what Representatives selects. *)
Firsts(r, w) ==
    {i \in DOMAIN w : /\ Dimension(r, w[i]) # None
                      /\ \A j \in 1..(i - 1) : Dimension(r, w[j]) # Dimension(r, w[i])}

LEMMA FirstOfKind ==
    ASSUME NEW S, NEW w \in Seq(S), NEW r
    PROVE  /\ Firsts(r, w) \in SUBSET DOMAIN w
           /\ Representatives(r, w) = AtIndices(w, Firsts(r, w))
           /\ \A i, j \in Firsts(r, w) : Dimension(r, w[i]) = Dimension(r, w[j]) => i = j
           /\ \A i \in DOMAIN w :
                 Dimension(r, w[i]) # None =>
                    \E k \in Firsts(r, w) : Dimension(r, w[k]) = Dimension(r, w[i])
<1>0. DOMAIN w \in SUBSET Nat /\ DOMAIN w = 1..Len(w) /\ Len(w) \in Nat
  OBVIOUS
<1>1. Firsts(r, w) \in SUBSET DOMAIN w /\ Representatives(r, w) = AtIndices(w, Firsts(r, w))
  BY DEF Firsts, Representatives
<1>2. ASSUME NEW i \in Firsts(r, w), NEW j \in Firsts(r, w),
             Dimension(r, w[i]) = Dimension(r, w[j]), i # j
      PROVE  FALSE
  <2>1. i \in Nat /\ j \in Nat /\ i >= 1 /\ j >= 1
    BY <1>0, <1>1
  <2>2. i \in 1..(j - 1) \/ j \in 1..(i - 1)
    BY <1>2, <2>1
  <2> QED BY <1>2, <2>2 DEF Firsts
<1>3. ASSUME NEW i \in DOMAIN w, Dimension(r, w[i]) # None
      PROVE  \E k \in Firsts(r, w) : Dimension(r, w[k]) = Dimension(r, w[i])
  <2> DEFINE alike == {j \in DOMAIN w : Dimension(r, w[j]) = Dimension(r, w[i])}
  <2>1. alike \in SUBSET Nat /\ i \in alike
    BY <1>0
  <2>2. PICK k \in alike : \A j \in alike : k <= j
    <3> HIDE DEF alike
    <3> QED BY <2>1, LeastNatural
  <2>3. \A j \in 1..(k - 1) : j \in DOMAIN w /\ ~(k <= j)
    BY <1>0, <2>2
  <2>4. \A j \in 1..(k - 1) : Dimension(r, w[j]) # Dimension(r, w[k])
    BY <2>2, <2>3
  <2>5. k \in Firsts(r, w)
    BY <1>3, <2>2, <2>4 DEF Firsts
  <2> QED BY <2>2, <2>5
<1> QED BY <1>1, <1>2, <1>3

(* A window with at least the kinds of another has as many representatives. *)
LEMMA MoreRepresentatives ==
    ASSUME NEW S, NEW w \in Seq(S), NEW v \in Seq(S), NEW r,
           \A i \in DOMAIN w : Dimension(r, w[i]) # None =>
              \E k \in DOMAIN v : Dimension(r, v[k]) = Dimension(r, w[i])
    PROVE  Len(Representatives(r, w)) <= Len(Representatives(r, v))
<1> DEFINE F == Firsts(r, w)
           G == Firsts(r, v)
           f == [i \in F |-> CHOOSE k \in G : Dimension(r, v[k]) = Dimension(r, w[i])]
<1>1. /\ F \in SUBSET DOMAIN w /\ G \in SUBSET DOMAIN v
      /\ Representatives(r, w) = AtIndices(w, F) /\ Representatives(r, v) = AtIndices(v, G)
      /\ \A i, j \in F : Dimension(r, w[i]) = Dimension(r, w[j]) => i = j
  BY FirstOfKind
<1>2. ASSUME NEW i \in F
      PROVE  \E k \in G : Dimension(r, v[k]) = Dimension(r, w[i])
  <2>1. i \in DOMAIN w /\ Dimension(r, w[i]) # None
    BY DEF Firsts
  <2>2. PICK k \in DOMAIN v : Dimension(r, v[k]) = Dimension(r, w[i])
    BY <2>1
  <2>3. Dimension(r, v[k]) # None
    BY <2>1, <2>2
  <2>4. PICK l \in G : Dimension(r, v[l]) = Dimension(r, v[k])
    BY <2>3, FirstOfKind
  <2> QED BY <2>2, <2>4
<1> HIDE DEF F, G
<1>3. \A i \in F : f[i] \in G /\ Dimension(r, v[f[i]]) = Dimension(r, w[i])
  BY <1>2
<1>4. f \in [F -> G]
  BY <1>3
<1>5. \A i, j \in F : f[i] = f[j] => i = j
  <2> HIDE DEF f
  <2> QED BY <1>1, <1>3
<1>6. f \in Injection(F, G)
  <2> HIDE DEF f
  <2> QED BY <1>4, <1>5 DEF Injection, IsInjective
<1>7. IsFiniteSet(G)
  BY <1>1, Indices
<1>8. Cardinality(F) <= Cardinality(G)
  <2> HIDE DEF f
  <2> QED BY <1>6, <1>7, FS_Injection
<1>9. Len(AtIndices(w, F)) = Cardinality(F) /\ Len(AtIndices(v, G)) = Cardinality(G)
  BY <1>1, SubsequenceAtIndices
<1> QED BY <1>1, <1>8, <1>9

(* A window that shows a family. *)
Shows(w, f) == \E i \in DOMAIN w : SourceFamily(w[i]) = f

(* The cross-source rule finds three events as soon as all three families  *)
(* are in the window, and nothing before.                                  *)
LEMMA JoinedAt ==
    ASSUME NEW S, NEW a \in Seq(S), NEW b \in Seq(S)
    PROVE  \A k \in 1..(Len(a) + Len(b)) :
              (a \o b)[k] = IF k <= Len(a) THEN a[k] ELSE b[k - Len(a)]
OBVIOUS

LEMMA JoinedOne ==
    ASSUME NEW S, NEW a \in Seq(S), NEW b \in Seq(S), NEW n \in Nat, n = Len(a), Len(b) = 1
    PROVE  /\ a \o b \in Seq(S) /\ Len(a \o b) = n + 1
           /\ \A k \in 1..n : (a \o b)[k] = a[k]
           /\ (a \o b)[n + 1] = b[1]
<1>1. /\ a \o b \in Seq(S) /\ Len(a \o b) = n + 1
      /\ \A k \in 1..(n + 1) : (a \o b)[k] = IF k <= n THEN a[k] ELSE b[k - n]
  <2>1. /\ a \o b \in Seq(S) /\ Len(a \o b) = Len(a) + Len(b)
        /\ \A k \in 1..(Len(a) + Len(b)) :
              (a \o b)[k] = IF k <= Len(a) THEN a[k] ELSE b[k - Len(a)]
    BY Joined, JoinedAt, Zenon
  <2> QED BY <2>1, Zenon
<1>2. \A k \in 1..n : k \in 1..(n + 1) /\ k <= n
  OBVIOUS
<1>3. PICK m \in Nat : m = n + 1
  OBVIOUS
<1>4. m \in 1..(n + 1) /\ ~(m <= n) /\ m - n = 1
  BY <1>3
<1>5. (a \o b)[m] = b[m - n]
  BY <1>1, <1>4
<1>6. b[m - n] = b[1]
  BY <1>4, Zenon
<1> QED BY <1>1, <1>2, <1>3, <1>5, <1>6, Zenon

LEMMA FamilyEvidence ==
    ASSUME NEW S, NEW w \in Seq(S)
    PROVE  Len(Evidence("credential_stuffing", w))
             = IF \A f \in RequiredFamilies : Shows(w, f) THEN 3 ELSE 0
<1> DEFINE r == "credential_stuffing"
           found == Representatives(r, w)
           of(f) == AtIndices(found, {i \in DOMAIN found : SourceFamily(found[i]) = f})
           all == of("ssh") \o of("vpn") \o of("web")
           families == {SourceFamily(all[i]) : i \in DOMAIN all}
<1>1. found \in Seq(S)
  BY RepresentativesOf
<1>2. Evidence(r, w) = IF families = RequiredFamilies THEN all ELSE <<>>
  <2>1. r \notin CountRules
    BY DEF CountRules
  <2>2. OnePerFamily(w) = all
    BY DEF OnePerFamily
  <2> HIDE DEF all
  <2> QED BY <2>1, <2>2, Zenon DEF Evidence
<1>3. \A e : Dimension(r, e) = SourceFamily(e)
  BY DEF Dimension
<1>4. \A i, j \in DOMAIN found : SourceFamily(found[i]) = SourceFamily(found[j]) => i = j
  <2> DEFINE F == Firsts(r, w)
  <2>1. /\ found = AtIndices(w, F) /\ F \in SUBSET DOMAIN w
        /\ \A i, j \in F : SourceFamily(w[i]) = SourceFamily(w[j]) => i = j
    BY <1>3, FirstOfKind
  <2>2. \A i \in DOMAIN found : Nth(F, i) \in F /\ found[i] = w[Nth(F, i)]
    <3> HIDE DEF found, F
    <3> QED BY <2>1, Selection
  <2>3. \A i, j \in DOMAIN found : Nth(F, i) = Nth(F, j) => i = j
    <3> HIDE DEF found, F
    <3> QED BY <2>1, Selection
  <2> HIDE DEF found, F
  <2> QED BY <2>1, <2>2, <2>3
<1>5. ASSUME NEW f \in RequiredFamilies
      PROVE  Shows(w, f) <=> \E i \in DOMAIN found : SourceFamily(found[i]) = f
  <2> DEFINE F == Firsts(r, w)
  <2>1. found = AtIndices(w, F) /\ F \in SUBSET DOMAIN w
    BY FirstOfKind
  <2>2. /\ \A i \in DOMAIN found : Nth(F, i) \in F /\ found[i] = w[Nth(F, i)]
        /\ \A k \in F : Rank(F, k) \in DOMAIN found /\ found[Rank(F, k)] = w[k]
    <3> HIDE DEF found, F
    <3> QED BY <2>1, Selection
  <2>3. f # None
    BY DEF RequiredFamilies, None
  <2>4. \A i \in DOMAIN w : Dimension(r, w[i]) # None =>
                   \E k \in F : Dimension(r, w[k]) = Dimension(r, w[i])
    BY FirstOfKind
  <2>5. Shows(w, f) => \E k \in F : SourceFamily(w[k]) = f
    BY <1>3, <2>3, <2>4 DEF Shows
  <2> HIDE DEF found, F
  <2> QED BY <2>1, <2>2, <2>5 DEF Shows
<1>6. ASSUME NEW f
      PROVE  /\ of(f) \in Seq(S) /\ Len(of(f)) <= 1
             /\ \A i \in DOMAIN of(f) : SourceFamily(of(f)[i]) = f
             /\ (\E i \in DOMAIN found : SourceFamily(found[i]) = f) => Len(of(f)) = 1
  <2> DEFINE I == {i \in DOMAIN found : SourceFamily(found[i]) = f}
  <2>1. I \in SUBSET DOMAIN found /\ \A i \in I : SourceFamily(found[i]) = f
    OBVIOUS
  <2>2. IsFiniteSet(I) /\ Cardinality(I) \in Nat
    <3> HIDE DEF I, found
    <3> QED BY <1>1, <2>1, Indices, FS_CardinalityType
  <2>3. I = {} \/ \E i \in I : I = {i}
    <3> HIDE DEF found
    <3> QED BY <1>4
  <2>4. Cardinality(I) <= 1 /\ (I # {} => Cardinality(I) = 1)
    <3> HIDE DEF I
    <3> QED BY <2>2, <2>3, FS_Singleton, FS_EmptySet
  <2>5. I # {} <=> \E i \in DOMAIN found : SourceFamily(found[i]) = f
    OBVIOUS
  <2>6. /\ AtIndices(found, I) \in Seq(S) /\ Len(AtIndices(found, I)) = Cardinality(I)
        /\ \A i \in DOMAIN AtIndices(found, I) :
              Nth(I, i) \in I /\ AtIndices(found, I)[i] = found[Nth(I, i)]
    <3> HIDE DEF found, I
    <3> QED BY <1>1, <2>1, SubsequenceAtIndices, Selection
  <2> HIDE DEF I, found
  <2>7. \A i \in DOMAIN AtIndices(found, I) : SourceFamily(AtIndices(found, I)[i]) = f
    BY <2>1, <2>6
  <2> QED BY <2>4, <2>5, <2>6, <2>7 DEF I
<1>7. ASSUME \A f \in RequiredFamilies : Shows(w, f)
      PROVE  families = RequiredFamilies /\ Len(all) = 3
  <2>1. \A f \in RequiredFamilies : Len(of(f)) = 1
    <3> HIDE DEF of, found
    <3> QED BY <1>5, <1>6, <1>7
  <2> DEFINE a == of("ssh")
             b == of("vpn")
             c == of("web")
  <2>2. /\ a \in Seq(S) /\ Len(a) = 1 /\ \A i \in DOMAIN a : SourceFamily(a[i]) = "ssh"
        /\ b \in Seq(S) /\ Len(b) = 1 /\ \A i \in DOMAIN b : SourceFamily(b[i]) = "vpn"
        /\ c \in Seq(S) /\ Len(c) = 1 /\ \A i \in DOMAIN c : SourceFamily(c[i]) = "web"
    <3> HIDE DEF of
    <3> QED BY <1>6, <2>1 DEF RequiredFamilies
  <2>3. all = a \o b \o c
    OBVIOUS
  <2> HIDE DEF a, b, c, of, all, found
  <2>4. Len(all) = 3 /\ all[1] = a[1] /\ all[2] = b[1] /\ all[3] = c[1]
    <3>1. PICK ab \in Seq(S) : ab = a \o b /\ Len(ab) = 2 /\ ab[1] = a[1] /\ ab[2] = b[1]
      <4>1. /\ a \o b \in Seq(S) /\ Len(a \o b) = 1 + 1
            /\ \A k \in 1..1 : (a \o b)[k] = a[k]
            /\ (a \o b)[1 + 1] = b[1]
        BY <2>2, JoinedOne
      <4>2. PICK ab \in Seq(S) : ab = a \o b
        BY <4>1
      <4>3. Len(ab) = 1 + 1 /\ (\A k \in 1..1 : ab[k] = a[k]) /\ ab[1 + 1] = b[1]
        BY <4>1, <4>2, Zenon
      <4>4. 1 + 1 = 2 /\ 1 \in 1..1
        OBVIOUS
      <4>5. Len(ab) = 2 /\ ab[1] = a[1] /\ ab[2] = b[1]
        BY <4>3, <4>4, Zenon
      <4> QED BY <4>2, <4>5, Zenon
    <3>2. /\ Len(ab \o c) = 2 + 1 /\ (\A k \in 1..2 : (ab \o c)[k] = ab[k])
          /\ (ab \o c)[2 + 1] = c[1]
      BY <2>2, <3>1, JoinedOne
    <3>3. all = ab \o c
      BY <2>3, <3>1, Zenon
    <3>4. Len(all) = 2 + 1 /\ (\A k \in 1..2 : all[k] = ab[k]) /\ all[2 + 1] = c[1]
      BY <3>2, <3>3, Zenon
    <3> QED BY <3>1, <3>4
  <2>5. DOMAIN all = 1..3
    <3>1. all \in Seq(S)
      BY <2>2, <2>3
    <3> QED BY <2>4, <3>1
  <2>6. 1 \in DOMAIN a /\ 1 \in DOMAIN b /\ 1 \in DOMAIN c
    BY <2>2
  <2>7. /\ SourceFamily(all[1]) = "ssh" /\ SourceFamily(all[2]) = "vpn"
        /\ SourceFamily(all[3]) = "web"
    BY <2>2, <2>4, <2>6
  <2>8. \A i \in DOMAIN all : i = 1 \/ i = 2 \/ i = 3
    BY <2>5
  <2>9. 1 \in DOMAIN all /\ 2 \in DOMAIN all /\ 3 \in DOMAIN all
    BY <2>5
  <2>10. families = RequiredFamilies
    BY <2>7, <2>8, <2>9, Zenon DEF RequiredFamilies
  <2> QED BY <2>4, <2>10
<1>8. ASSUME families = RequiredFamilies, NEW f \in RequiredFamilies
      PROVE  Shows(w, f)
  <2> DEFINE a == of("ssh")
             b == of("vpn")
             c == of("web")
  <2>1. /\ a \in Seq(S) /\ \A i \in DOMAIN a : SourceFamily(a[i]) = "ssh"
        /\ b \in Seq(S) /\ \A i \in DOMAIN b : SourceFamily(b[i]) = "vpn"
        /\ c \in Seq(S) /\ \A i \in DOMAIN c : SourceFamily(c[i]) = "web"
    <3> HIDE DEF of
    <3> QED BY <1>6
  <2>2. all = a \o b \o c
    OBVIOUS
  <2>3. PICK i \in DOMAIN all : SourceFamily(all[i]) = f
    <3> HIDE DEF all
    <3> QED BY <1>8
  <2>4. \E g \in {"ssh", "vpn", "web"} : \E k \in DOMAIN of(g) : all[i] = of(g)[k]
    <3>1. \/ \E k \in DOMAIN a : all[i] = a[k]
          \/ \E k \in DOMAIN b : all[i] = b[k]
          \/ \E k \in DOMAIN c : all[i] = c[k]
      <4> HIDE DEF a, b, c, all
      <4> DEFINE ab == a \o b
      <4>1. /\ ab \in Seq(S) /\ Len(ab) = Len(a) + Len(b)
            /\ \A k \in 1..Len(ab) : ab[k] = IF k <= Len(a) THEN a[k] ELSE b[k - Len(a)]
        BY <2>1
      <4>2. all = ab \o c
        BY <2>2
      <4> HIDE DEF ab
      <4>3. i \in 1..(Len(ab) + Len(c)) /\ all[i] = IF i <= Len(ab) THEN ab[i] ELSE c[i - Len(ab)]
        BY <2>1, <2>3, <4>1, <4>2
      <4>4. CASE i <= Len(ab)
        <5>1. i \in 1..Len(ab) /\ all[i] = ab[i]
          BY <2>1, <4>1, <4>3, <4>4
        <5>2. CASE i <= Len(a)
          <6>1. i \in DOMAIN a /\ all[i] = a[i]
            BY <2>1, <4>1, <5>1, <5>2
          <6> QED BY <6>1
        <5>3. CASE ~(i <= Len(a))
          <6>1. i - Len(a) \in DOMAIN b /\ all[i] = b[i - Len(a)]
            BY <2>1, <4>1, <5>1, <5>3
          <6> QED BY <6>1
        <5> QED BY <5>2, <5>3
      <4>5. CASE ~(i <= Len(ab))
        <5>1. i - Len(ab) \in DOMAIN c /\ all[i] = c[i - Len(ab)]
          BY <2>1, <4>1, <4>3, <4>5
        <5> QED BY <5>1
      <4> QED BY <4>4, <4>5
    <3> HIDE DEF all, of
    <3> QED BY <3>1, Zenon
  <2>5. PICK g \in {"ssh", "vpn", "web"} : \E k \in DOMAIN of(g) : all[i] = of(g)[k]
    BY <2>4
  <2>6. PICK k \in DOMAIN of(g) : all[i] = of(g)[k]
    BY <2>5
  <2>7. SourceFamily(all[i]) = g
    <3>1. SourceFamily(of(g)[k]) = g
      <4> HIDE DEF of
      <4> QED BY <1>6
    <3> HIDE DEF of, all
    <3> QED BY <2>6, <3>1
  <2>8. \E l \in DOMAIN found : SourceFamily(found[l]) = f
    <3>1. f = g
      <4> HIDE DEF all
      <4> QED BY <2>3, <2>7
    <3>2. of(g) = AtIndices(found, {l \in DOMAIN found : SourceFamily(found[l]) = g})
      OBVIOUS
    <3> DEFINE I == {l \in DOMAIN found : SourceFamily(found[l]) = g}
    <3>3. I \in SUBSET DOMAIN found
      OBVIOUS
    <3>4. Nth(I, k) \in I
      <4>1. k \in DOMAIN AtIndices(found, I)
        BY <3>2
      <4> HIDE DEF I, found
      <4> QED BY <1>1, <3>3, <4>1, Selection
    <3> QED BY <3>1, <3>4
  <2> QED BY <1>5, <2>8
<1> HIDE DEF all, families, found, of
<1>9. Len(<<>>) = 0
  OBVIOUS
<1> QED BY <1>2, <1>7, <1>8, <1>9

(* A window with as many events, or for the rules that count kinds with    *)
(* the same ones and perhaps others, has no less evidence.                 *)
LEMMA MoreIsWider ==
    ASSUME NEW r \in Rules, NEW w \in Seq(Event), NEW v \in Seq(Event),
           r \in CountRules => Len(w) <= Len(v),
           r \notin CountRules => \A i \in DOMAIN w : \E k \in DOMAIN v : v[k] = w[i]
    PROVE  Len(Evidence(r, w)) <= Len(Evidence(r, v))
<1>0. Len(<<>>) = 0 /\ Len(w) \in Nat /\ Len(v) \in Nat /\ Threshold[r] \in Nat
  BY RuleConstants
<1>1. CASE r \in CountRules
  <2>1. r # "credential_stuffing"
    BY <1>1 DEF CountRules
  <2>2. \A u : Evidence(r, u) = IF Len(u) >= Threshold[r] THEN u ELSE <<>>
    BY <1>1, <2>1, Zenon DEF Evidence
  <2> QED BY <1>0, <1>1, <2>2
<1>2. CASE r = "credential_stuffing"
  <2>1. r \notin CountRules
    BY <1>2 DEF CountRules
  <2>2. \A f : Shows(w, f) => Shows(v, f)
    BY <2>1 DEF Shows
  <2>3. /\ Len(Evidence(r, w)) = IF \A f \in RequiredFamilies : Shows(w, f) THEN 3 ELSE 0
        /\ Len(Evidence(r, v)) = IF \A f \in RequiredFamilies : Shows(v, f) THEN 3 ELSE 0
    BY <1>2, FamilyEvidence, Zenon
  <2> QED BY <2>2, <2>3
<1>3. CASE r \notin CountRules /\ r # "credential_stuffing"
  <2>1. \A u : Evidence(r, u) = IF Len(Representatives(r, u)) >= Threshold[r]
                                THEN Representatives(r, u) ELSE <<>>
    BY <1>3, Zenon DEF Evidence
  <2>2. Len(Representatives(r, w)) <= Len(Representatives(r, v))
    BY <1>3, MoreRepresentatives
  <2>3. Len(Representatives(r, w)) \in Nat /\ Len(Representatives(r, v)) \in Nat
    BY RepresentativesOf
  <2> QED BY <1>0, <2>1, <2>2, <2>3
<1> QED BY <1>1, <1>2, <1>3

(* Where the event at j of a list with x removed stands in the whole list. *)
Before(x, j) == IF j < x THEN j ELSE j + 1

LEMMA Removed ==
    ASSUME NEW s \in Seq(Event), NEW x \in DOMAIN s
    PROVE  /\ RemoveAt(s, x) \in Seq(Event)
           /\ Len(RemoveAt(s, x)) = Len(s) - 1
           /\ \A j \in 1..(Len(s) - 1) :
                 Before(x, j) \in DOMAIN s /\ RemoveAt(s, x)[j] = s[Before(x, j)]
<1> DEFINE a == SubSeq(s, 1, x - 1)
           b == SubSeq(s, x + 1, Len(s))
<1>1. x \in 1..Len(s) /\ Len(s) \in Nat /\ DOMAIN s = 1..Len(s)
  OBVIOUS
<1>2. /\ a \in Seq(Event) /\ Len(a) = x - 1 /\ \A j \in 1..(x - 1) : a[j] = s[j]
      /\ b \in Seq(Event) /\ Len(b) = Len(s) - x /\ \A j \in 1..(Len(s) - x) : b[j] = s[x + j]
  BY <1>1, SMTT(30)
<1>3. RemoveAt(s, x) = a \o b
  BY DEF RemoveAt
<1> HIDE DEF a, b
<1>4. a \o b \in Seq(Event) /\ Len(a \o b) = Len(a) + Len(b)
  BY <1>2, Joined
<1>5. \A j \in 1..(Len(a) + Len(b)) : (a \o b)[j] = IF j <= Len(a) THEN a[j] ELSE b[j - Len(a)]
  BY <1>2, JoinedAt
<1>6. Len(a) + Len(b) = Len(s) - 1
  BY <1>1, <1>2
<1>7. ASSUME NEW j \in 1..(Len(s) - 1)
      PROVE  Before(x, j) \in DOMAIN s /\ (a \o b)[j] = s[Before(x, j)]
  <2>1. (a \o b)[j] = IF j <= Len(a) THEN a[j] ELSE b[j - Len(a)]
    BY <1>5, <1>6
  <2>2. CASE j < x
    <3>1. j \in 1..(x - 1) /\ j <= Len(a) /\ j \in DOMAIN s
      BY <1>1, <1>2, <2>2
    <3>2. Before(x, j) = j
      BY <2>2 DEF Before
    <3> QED BY <1>2, <2>1, <3>1, <3>2
  <2>3. CASE ~(j < x)
    <3>1. /\ ~(j <= Len(a)) /\ j - Len(a) \in 1..(Len(s) - x) /\ x + (j - Len(a)) = j + 1
          /\ j + 1 \in DOMAIN s
      BY <1>1, <1>2, <2>3
    <3>2. Before(x, j) = j + 1
      BY <2>3 DEF Before
    <3>3. b[j - Len(a)] = s[x + (j - Len(a))]
      BY <1>2, <3>1
    <3> QED BY <2>1, <3>1, <3>2, <3>3, Zenon
  <2> QED BY <2>2, <2>3
<1> QED BY <1>3, <1>4, <1>6, <1>7

(* The window of an event is no wider without another, earlier or later,   *)
(* event, and without the cap it has no other events.                      *)
LEMMA WindowShrinks ==
    ASSUME NEW r \in Rules, NEW s \in Seq(Event), NEW x \in DOMAIN s, NEW t \in Seq(Event),
           Len(t) = Len(s) - 1,
           \A j \in DOMAIN t : Before(x, j) \in DOMAIN s /\ t[j] = s[Before(x, j)],
           NEW i \in DOMAIN t,
           r \notin CountRules => Len(s) <= MaxWindowEvents
    PROVE  Len(Evidence(r, WindowEndingAt(r, t, i)))
             <= Len(Evidence(r, WindowEndingAt(r, s, Before(x, i))))
<1> DEFINE up == Before(x, i)
           N == Near(r, t, i)
           M == Near(r, s, up)
           I == Latest(N, MaxWindowEvents)
           J == Latest(M, MaxWindowEvents)
           f == [k \in N |-> Before(x, k)]
           w == WindowEndingAt(r, t, i)
           v == WindowEndingAt(r, s, up)
<1>1. /\ DOMAIN t = 1..Len(t) /\ Len(t) \in Nat /\ DOMAIN s = 1..Len(s) /\ Len(s) \in Nat
      /\ up \in DOMAIN s /\ x \in Nat
  OBVIOUS
<1>2. N \in SUBSET DOMAIN t /\ M \in SUBSET DOMAIN s
  BY <1>1 DEF Near
<1>3. \A k \in N : Before(x, k) \in M
  <2> SUFFICES ASSUME NEW k \in N PROVE Before(x, k) \in M
    OBVIOUS
  <2>1. k \in DOMAIN t /\ k <= i /\ GroupKey(r, t[k]) = GroupKey(r, t[i])
        /\ t[i].ts - t[k].ts <= Seconds[r]
    BY <1>2 DEF Near
  <2>2. t[k] = s[Before(x, k)] /\ t[i] = s[up] /\ Before(x, k) \in DOMAIN s
    BY <2>1
  <2>3. Before(x, k) \in 1..up
    BY <1>1, <2>1, <2>2 DEF Before
  <2> QED BY <2>1, <2>2, <2>3 DEF Near
<1>4. \A k, l \in N : Before(x, k) = Before(x, l) => k = l
  BY <1>1, <1>2 DEF Before
<1>5. /\ IsFiniteSet(N) /\ N \in SUBSET Nat /\ Cardinality(N) \in Nat /\ Cardinality(N) <= Len(t)
      /\ IsFiniteSet(M) /\ M \in SUBSET Nat /\ Cardinality(M) \in Nat /\ Cardinality(M) <= Len(s)
  <2> HIDE DEF N, M
  <2> QED BY <1>2, Indices, SubsequenceAtIndices, FS_CardinalityType
<1> HIDE DEF N, M, up
<1>6. Cardinality(N) <= Cardinality(M)
  <2>1. f \in Injection(N, M)
    BY <1>3, <1>4 DEF Injection, IsInjective
  <2> HIDE DEF f
  <2> QED BY <1>5, <2>1, FS_Injection
<1>7. MaxWindowEvents \in Nat \ {0}
  BY RuleConstants
<1>8. /\ Cardinality(I) = IF Cardinality(N) > MaxWindowEvents THEN MaxWindowEvents ELSE Cardinality(N)
      /\ Cardinality(J) = IF Cardinality(M) > MaxWindowEvents THEN MaxWindowEvents ELSE Cardinality(M)
  BY <1>2, LatestSize
<1>9. /\ w = AtIndices(t, I) /\ v = AtIndices(s, J)
      /\ I \in SUBSET DOMAIN t /\ J \in SUBSET DOMAIN s
  BY <1>2, WindowIndices DEF N, M, Latest
<1> HIDE DEF I, J, w, v, f
<1>10. /\ w \in Seq(Event) /\ Len(w) = Cardinality(I)
       /\ v \in Seq(Event) /\ Len(v) = Cardinality(J)
  BY <1>9, SubsequenceAtIndices
<1>11. Len(w) <= Len(v)
  BY <1>5, <1>6, <1>7, <1>8, <1>10
<1>12. ASSUME r \notin CountRules, NEW p \in DOMAIN w
       PROVE  \E q \in DOMAIN v : v[q] = w[p]
  <2>1. Cardinality(N) <= MaxWindowEvents /\ Cardinality(M) <= MaxWindowEvents
    BY <1>1, <1>5, <1>7, <1>12
  <2>2. I = N /\ J = M
    <3>1. ~(Cardinality(N) > MaxWindowEvents) /\ ~(Cardinality(M) > MaxWindowEvents)
      BY <1>5, <1>7, <2>1
    <3> QED BY <1>5, <1>7, <3>1, LatestByRank DEF I, J
  <2>3. Nth(N, p) \in N /\ w[p] = t[Nth(N, p)]
    BY <1>2, <1>9, <2>2, Selection
  <2>4. Before(x, Nth(N, p)) \in M /\ t[Nth(N, p)] = s[Before(x, Nth(N, p))]
    BY <1>2, <1>3, <2>3
  <2>5. \A k \in M : Rank(M, k) \in DOMAIN v /\ v[Rank(M, k)] = s[k]
    BY <1>2, <1>9, <2>2, Selection, SMTT(30)
  <2> QED BY <2>3, <2>4, <2>5
<1>13. Len(Evidence(r, w)) <= Len(Evidence(r, v))
  BY <1>10, <1>11, <1>12, MoreIsWider
<1> QED BY <1>13 DEF w, v, up

(* What is kept for a group is no less than any of its windows gives.      *)
LEMMA MatchedIsMost ==
    ASSUME IInv, NEW key, NEW k \in Ends(key)
    PROVE  Len(EvidenceAt(k)) <= Len(MatchedFor(key)) /\ Len(MatchedFor(key)) \in Nat
<1> DEFINE entry == {i \in DOMAIN matched : matched[i].key = key}
<1>0. Types
  BY DEF IInv
<1>1. k \in 1..(next - 1) /\ k \in DOMAIN stamped /\ GroupKey(rule, stamped[k]) = key
  <2>1. stamped \in Seq(Event) /\ next \in 1..(Len(stamped) + 1)
    BY <1>0 DEF Types
  <2> QED BY <2>1 DEF Ends
<1>2. Len(EvidenceAt(k)) \in Nat /\ (EvidenceAt(k) = <<>> <=> Len(EvidenceAt(k)) = 0)
  BY <1>0, <1>1, EvidenceAtType
<1>3. MatchedFor(key) = IF entry = {} THEN <<>> ELSE matched[Min(entry)].evidence
  BY DEF MatchedFor
<1>4. entry \in SUBSET Nat
  BY <1>0 DEF Types
<1>5. CASE entry = {}
  <2>1. EvidenceAt(k) = <<>>
    BY <1>1, <1>5 DEF IInv, MatchedComplete
  <2>2. Len(<<>>) = 0
    OBVIOUS
  <2> QED BY <1>3, <1>5, <2>1, <2>2
<1>6. CASE entry # {}
  <2>1. Min(entry) \in entry
    <3> HIDE DEF entry
    <3> QED BY <1>4, <1>6, LeastOf
  <2>2. PICK p \in DOMAIN matched : p = Min(entry) /\ matched[p].key = key
    BY <2>1
  <2>3. MatchedFor(key) = matched[p].evidence
    BY <1>3, <1>6, <2>2, Zenon
  <2>4. Len(matched[p].evidence) \in Nat
    BY <1>0, EntryTypes
  <2>5. PICK i \in Ends(key) : FirstWidest(i, key) /\ matched[p].evidence = EvidenceAt(i)
    BY <2>2 DEF IInv, MatchedWidest
  <2>6. \/ Len(EvidenceAt(k)) < Len(EvidenceAt(i))
        \/ Len(EvidenceAt(k)) = Len(EvidenceAt(i))
    BY <2>5 DEF FirstWidest
  <2> HIDE DEF entry
  <2> QED BY <1>2, <2>3, <2>4, <2>5, <2>6
<1> QED BY <1>5, <1>6

(* The first of a group's windows that gives the most evidence.            *)
IsWidestOf(r, s, key, i) ==
    \A j \in DOMAIN s :
        GroupKey(r, s[j]) = key =>
           LET here == Len(Evidence(r, WindowEndingAt(r, s, i)))
               there == Len(Evidence(r, WindowEndingAt(r, s, j)))
           IN there < here \/ (there = here /\ i <= j)

(* The widest evidence of a group is that of one of its windows.           *)
LEMMA WidestIsOne ==
    ASSUME NEW r \in Rules, NEW s \in Seq(Event), NEW key
    PROVE  \/ WidestEvidence(r, s, key) = <<>>
           \/ \E i \in DOMAIN s : /\ GroupKey(r, s[i]) = key
                                  /\ WidestEvidence(r, s, key) = Evidence(r, WindowEndingAt(r, s, i))
                                  /\ IsWidestOf(r, s, key, i)
<1> DEFINE ends == {i \in DOMAIN s : GroupKey(r, s[i]) = key}
           width == [i \in ends |-> Len(Evidence(r, WindowEndingAt(r, s, i)))]
           widest == {i \in ends : \A j \in ends : width[j] <= width[i]}
           widths == {width[i] : i \in ends}
<1>1. WidestEvidence(r, s, key)
        = IF ends = {} THEN <<>> ELSE Evidence(r, WindowEndingAt(r, s, Min(widest)))
  BY DEF WidestEvidence
<1>2. ends \in SUBSET DOMAIN s /\ ends \in SUBSET Nat /\ IsFiniteSet(ends)
  <2>1. ends \in SUBSET DOMAIN s
    OBVIOUS
  <2> HIDE DEF ends
  <2> QED BY <2>1, Indices
<1>3. \A i \in ends : width[i] \in Nat
  <2> SUFFICES ASSUME NEW i \in ends PROVE Len(Evidence(r, WindowEndingAt(r, s, i))) \in Nat
    OBVIOUS
  <2>1. WindowEndingAt(r, s, i) \in Seq(Event)
    BY <1>2, WindowOf
  <2>2. Evidence(r, WindowEndingAt(r, s, i)) \in Seq(Event)
    BY <2>1, EvidenceOf
  <2> QED BY <2>2
<1>4. ASSUME ends # {}
      PROVE  /\ Min(widest) \in ends
             /\ \A j \in ends : width[j] <= width[Min(widest)]
             /\ \A j \in ends : width[j] = width[Min(widest)] => Min(widest) <= j
  <2>1. widths \subseteq Int /\ widths # {} /\ IsFiniteSet(widths)
    <3>1. IsFiniteSet(widths)
      <4>1. width \in Surjection(ends, widths)
        <5>1. width \in [ends -> widths] /\ \A n \in widths : \E i \in ends : width[i] = n
          OBVIOUS
        <5> HIDE DEF width, ends, widths
        <5> QED BY <5>1 DEF Surjection
      <4> HIDE DEF width, ends, widths
      <4> QED BY <1>2, <4>1, FS_Surjection
    <3> HIDE DEF width, ends
    <3> QED BY <1>3, <1>4, <3>1
  <2>2. PICK most \in widths : \A n \in widths : most >= n
    <3> HIDE DEF widths
    <3> QED BY <2>1, GreatestElement
  <2>3. PICK i \in ends : width[i] = most
    <3> HIDE DEF width, ends
    <3> QED BY <2>2
  <2>4. i \in widest
    <3> HIDE DEF width, ends
    <3> QED BY <1>3, <2>2, <2>3
  <2>5. widest \in SUBSET ends
    <3> HIDE DEF width, ends
    <3> QED OBVIOUS
  <2>6. widest \in SUBSET Nat
    BY <1>2, <2>5
  <2>7. \A k : k \in widest <=> k \in ends /\ \A j \in ends : width[j] <= width[k]
    <3> HIDE DEF width, ends
    <3> QED OBVIOUS
  <2> HIDE DEF width, ends, widest
  <2>8. Min(widest) \in widest /\ \A j \in widest : Min(widest) <= j
    BY <2>4, <2>6, LeastOf
  <2>9. ASSUME NEW j \in ends, width[j] = width[Min(widest)]
        PROVE  Min(widest) <= j
    <3>1. \A k \in ends : width[k] <= width[j]
      BY <2>7, <2>8, <2>9
    <3>2. j \in widest
      BY <2>7, <3>1
    <3> QED BY <2>8, <3>2
  <2> QED BY <2>7, <2>8, <2>9
<1>5. CASE ends = {}
  BY <1>1, <1>5, Zenon
<1>6. CASE ends # {}
  <2>1. PICK i \in ends : i = Min(widest)
    <3> HIDE DEF ends, widest
    <3> QED BY <1>4, <1>6
  <2>2. WidestEvidence(r, s, key) = Evidence(r, WindowEndingAt(r, s, i))
    BY <1>1, <1>6, <2>1, Zenon
  <2>3. \A j \in ends : width[j] <= width[i] /\ (width[j] = width[i] => i <= j)
    <3> HIDE DEF ends, width, widest
    <3> QED BY <1>4, <1>6, <2>1
  <2>4. \A j \in ends : width[j] < width[i] \/ (width[j] = width[i] /\ i <= j)
    <3> HIDE DEF ends, width
    <3> QED BY <1>3, <2>3
  <2>5. IsWidestOf(r, s, key, i)
    <3>1. \A j \in DOMAIN s : GroupKey(r, s[j]) = key => j \in ends
      OBVIOUS
    <3>2. \A j \in ends : width[j] = Len(Evidence(r, WindowEndingAt(r, s, j)))
      OBVIOUS
    <3> HIDE DEF ends, width
    <3> QED BY <2>4, <3>1, <3>2 DEF IsWidestOf
  <2> QED BY <2>1, <2>2, <2>5
<1> QED BY <1>5, <1>6

LEMMA NoLessEvidence == IInv => MoreEventsMoreEvidence
<1> SUFFICES ASSUME IInv, next > Len(stamped), NEW x \in DOMAIN stamped, NEW key \in DOMAIN windows,
                    ~(rule \notin CountRules /\ Len(stamped) > MaxWindowEvents)
             PROVE  Len(WidestEvidence(rule, RemoveAt(stamped, x), key)) <= Len(MatchedFor(key))
  BY DEF MoreEventsMoreEvidence
<1> DEFINE t == RemoveAt(stamped, x)
<1>0. Types
  BY DEF IInv
<1>1. /\ rule \in Rules /\ stamped \in Seq(Event) /\ Len(stamped) \in Nat
      /\ next = Len(stamped) + 1 /\ DOMAIN stamped = 1..Len(stamped)
  BY <1>0 DEF Types
<1>2. /\ t \in Seq(Event) /\ Len(t) = Len(stamped) - 1
      /\ \A j \in DOMAIN t : Before(x, j) \in DOMAIN stamped /\ t[j] = stamped[Before(x, j)]
  <2>1. /\ t \in Seq(Event) /\ Len(t) = Len(stamped) - 1
        /\ \A j \in 1..(Len(stamped) - 1) :
              Before(x, j) \in DOMAIN stamped /\ t[j] = stamped[Before(x, j)]
    BY <1>1, Removed
  <2> HIDE DEF t
  <2>2. DOMAIN t = 1..(Len(stamped) - 1)
    BY <2>1
  <2> QED BY <2>1, <2>2
<1> HIDE DEF t
<1>3. rule \notin CountRules => Len(stamped) <= MaxWindowEvents
  BY <1>1, RuleConstants
<1>4. CASE WidestEvidence(rule, t, key) = <<>>
  <2>1. Len(<<>>) = 0
    OBVIOUS
  <2>2. Len(MatchedFor(key)) \in Nat
    <3> DEFINE entry == {i \in DOMAIN matched : matched[i].key = key}
    <3>1. MatchedFor(key) = IF entry = {} THEN <<>> ELSE matched[Min(entry)].evidence
      BY DEF MatchedFor
    <3>2. entry \in SUBSET Nat /\ entry \in SUBSET DOMAIN matched
      BY <1>0 DEF Types
    <3> HIDE DEF entry
    <3>3. entry # {} => Len(matched[Min(entry)].evidence) \in Nat
      BY <1>0, <3>2, LeastOf, EntryTypes
    <3> QED BY <2>1, <3>1, <3>3
  <2>3. Len(WidestEvidence(rule, t, key)) = 0
    BY <1>4, <2>1, Zenon
  <2> QED BY <2>2, <2>3 DEF t
<1>5. ASSUME NEW i \in DOMAIN t, GroupKey(rule, t[i]) = key,
             WidestEvidence(rule, t, key) = Evidence(rule, WindowEndingAt(rule, t, i))
      PROVE  Len(WidestEvidence(rule, t, key)) <= Len(MatchedFor(key))
  <2>1. Len(WidestEvidence(rule, t, key)) <= Len(EvidenceAt(Before(x, i)))
    <3>1. Len(Evidence(rule, WindowEndingAt(rule, t, i)))
            <= Len(Evidence(rule, WindowEndingAt(rule, stamped, Before(x, i))))
      BY <1>1, <1>2, <1>3, WindowShrinks
    <3> QED BY <1>5, <3>1 DEF EvidenceAt
  <2>2. Before(x, i) \in Ends(key) /\ Before(x, i) \in DOMAIN stamped
    <3>1. Before(x, i) \in 1..(next - 1)
      BY <1>1, <1>2
    <3> QED BY <1>2, <1>5, <3>1 DEF Ends
  <2>3. Len(EvidenceAt(Before(x, i))) <= Len(MatchedFor(key)) /\ Len(MatchedFor(key)) \in Nat
    BY <2>2, MatchedIsMost
  <2>4. Len(EvidenceAt(Before(x, i))) \in Nat
    BY <1>0, <2>2, EvidenceAtType
  <2>5. Len(WidestEvidence(rule, t, key)) \in Nat
    <3>1. WindowEndingAt(rule, t, i) \in Seq(Event)
      BY <1>1, <1>2, WindowOf
    <3>2. Evidence(rule, WindowEndingAt(rule, t, i)) \in Seq(Event)
      BY <1>1, <3>1, EvidenceOf
    <3> QED BY <1>5, <3>2
  <2> QED BY <2>1, <2>3, <2>4, <2>5
<1> QED BY <1>1, <1>2, <1>4, <1>5, WidestIsOne DEF t

(* One more event never costs a group its detection or any of its evidence *)
(* (qualifying_windows in patterns/base.py, as the server's comparison of  *)
(* event counts presumes), where no window of a rule that counts kinds can *)
(* be cut at the cap.                                                      *)
THEOREM MoreEventsNeverLess == Spec => []MoreEventsMoreEvidence
BY Invariance, NoLessEvidence, PTL

-----------------------------------------------------------------------------
(* Evidence that stays in the list, with the widest window reported *)

HasAll(v, t, N) == \A p \in N : \E q \in DOMAIN v : v[q] = t[p]

(* A window has every event in time for it, up to the cap.                 *)
LEMMA WindowSize ==
    ASSUME NEW r \in Rules, NEW t \in Seq(Event), NEW m \in DOMAIN t,
           NEW c, c = Cardinality(Near(r, t, m)), NEW v, v = WindowEndingAt(r, t, m)
    PROVE  /\ c \in Nat
           /\ v \in Seq(Event)
           /\ Len(v) = IF c > MaxWindowEvents THEN MaxWindowEvents ELSE c
           /\ Sorted(t) => Sorted(v)
           /\ Distinct(t) => Distinct(v)
           /\ c <= MaxWindowEvents => HasAll(v, t, Near(r, t, m))
<1> DEFINE N == Near(r, t, m)
           I == Latest(N, MaxWindowEvents)
           w == AtIndices(t, I)
<1>1. N \in SUBSET DOMAIN t
  BY DEF Near
<1>2. I \in SUBSET N /\ I \in SUBSET DOMAIN t
  BY <1>1 DEF Latest
<1>3. IsFiniteSet(N) /\ N \in SUBSET Nat /\ Cardinality(N) \in Nat
  BY <1>1, Indices, FS_CardinalityType
<1>4. WindowEndingAt(r, t, m) = w
  BY WindowIndices
<1>5. Cardinality(I) = IF Cardinality(N) > MaxWindowEvents THEN MaxWindowEvents ELSE Cardinality(N)
  BY <1>1, LatestSize
<1> HIDE DEF N
<1>6. Cardinality(N) <= MaxWindowEvents => I = N
  <2>1. ~(Cardinality(N) > MaxWindowEvents) => I = N
    BY <1>3, RuleConstants, LatestByRank
  <2> QED BY <1>3, RuleConstants, <2>1
<1> HIDE DEF I
<1>7. w \in Seq(Event) /\ Len(w) = Cardinality(I)
  BY <1>2, SubsequenceAtIndices
<1>8. /\ \A n \in DOMAIN w : Nth(I, n) \in DOMAIN t /\ w[n] = t[Nth(I, n)]
      /\ \A k, n \in DOMAIN w : k < n => Nth(I, k) < Nth(I, n)
      /\ \A k, n \in DOMAIN w : Nth(I, k) = Nth(I, n) => k = n
      /\ \A i \in I : Rank(I, i) \in DOMAIN w /\ w[Rank(I, i)] = t[i]
  BY <1>2, Selection
<1>9. Sorted(t) => Sorted(w)
  <2> SUFFICES ASSUME Sorted(t), NEW k \in DOMAIN w, NEW n \in DOMAIN w, k <= n
               PROVE  w[k].ts <= w[n].ts
    BY DEF Sorted
  <2>1. k < n \/ k = n
    BY <1>7
  <2>2. /\ Nth(I, k) \in DOMAIN t /\ Nth(I, n) \in DOMAIN t /\ Nth(I, k) <= Nth(I, n)
        /\ w[k] = t[Nth(I, k)] /\ w[n] = t[Nth(I, n)]
    BY <1>8, <2>1
  <2> QED BY <2>2 DEF Sorted
<1>10. Distinct(t) => Distinct(w)
  BY <1>8 DEF Distinct
<1>11. Cardinality(N) <= MaxWindowEvents => HasAll(w, t, N)
  BY <1>6, <1>8 DEF HasAll
<1> HIDE DEF w
<1> QED BY <1>3, <1>4, <1>5, <1>7, <1>9, <1>10, <1>11 DEF N

LEMMA KindOfRelevant ==
    ASSUME NEW r \in Rules, NEW e, Relevant(r, e), r \notin CountRules
    PROVE  /\ Dimension(r, e) # None
           /\ r = "credential_stuffing" => SourceFamily(e) \in RequiredFamilies
<1>1. r \in {"lateral_movement", "geo_anomaly", "credential_reuse", "credential_stuffing"}
  BY DEF Rules, CountRules
<1>2. \A f \in RequiredFamilies : f # None
  BY DEF RequiredFamilies, None
<1>3. Predicate(r, e)
  BY DEF Relevant
<1>4. CASE r = "lateral_movement"
  BY <1>3, <1>4 DEF Predicate, Dimension
<1>5. CASE r = "geo_anomaly"
  BY <1>3, <1>5 DEF Predicate, Dimension
<1>6. CASE r = "credential_reuse"
  BY <1>3, <1>6 DEF Predicate, Dimension
<1>7. CASE r = "credential_stuffing"
  BY <1>2, <1>3, <1>7 DEF Predicate, Dimension
<1> QED BY <1>1, <1>4, <1>5, <1>6, <1>7

(* Sent as evidence, evidence is itself evidence of the same size.         *)
LEMMA EvidenceAgain ==
    ASSUME NEW r \in Rules, NEW w \in Seq(Event), NEW E, E = Evidence(r, w), E # <<>>
    PROVE  Len(Evidence(r, E)) = Len(E)
<1>1. E \in Seq(Event) /\ Len(E) \in Nat /\ Threshold[r] \in Nat
  BY EvidenceOf, RuleConstants
<1>2. CASE r \in CountRules
  <2>1. r # "credential_stuffing"
    BY <1>2 DEF CountRules
  <2>2. \A u : Evidence(r, u) = IF Len(u) >= Threshold[r] THEN u ELSE <<>>
    BY <1>2, <2>1, Zenon DEF Evidence
  <2> QED BY <2>2
<1>3. CASE r \notin CountRules /\ r # "credential_stuffing"
  <2>1. \A u : Evidence(r, u) = IF Len(Representatives(r, u)) >= Threshold[r]
                                THEN Representatives(r, u) ELSE <<>>
    BY <1>3, Zenon DEF Evidence
  <2>2. E = Representatives(r, w) /\ Len(E) >= Threshold[r]
    BY <2>1
  <2>3. \A i \in DOMAIN w : Dimension(r, w[i]) # None =>
            \E k \in DOMAIN E : Dimension(r, E[k]) = Dimension(r, w[i])
    <3> DEFINE F == Firsts(r, w)
    <3>1. F \in SUBSET DOMAIN w /\ E = AtIndices(w, F)
      BY <2>2, FirstOfKind
    <3>2. \A i \in DOMAIN w : Dimension(r, w[i]) # None =>
              \E k \in F : Dimension(r, w[k]) = Dimension(r, w[i])
      BY FirstOfKind
    <3> HIDE DEF F
    <3>3. \A k \in F : Rank(F, k) \in DOMAIN E /\ E[Rank(F, k)] = w[k]
      BY <3>1, Selection
    <3> QED BY <3>2, <3>3
  <2>4. Len(Representatives(r, w)) <= Len(Representatives(r, E))
    BY <1>1, <2>3, MoreRepresentatives
  <2>5. /\ Representatives(r, E) \in Seq(Event)
        /\ Len(Representatives(r, E)) \in Nat /\ Len(Representatives(r, E)) <= Len(E)
    BY <1>1, RepresentativesOf
  <2>6. Len(Representatives(r, E)) = Len(E)
    BY <1>1, <2>2, <2>4, <2>5
  <2> QED BY <2>1, <2>2, <2>6
<1>4. CASE r = "credential_stuffing"
  <2>1. \A u : Evidence(r, u) = LET found == OnePerFamily(u)
                                IN IF {SourceFamily(found[i]) : i \in DOMAIN found} = RequiredFamilies
                                   THEN found ELSE <<>>
    <3>1. r \notin CountRules
      BY <1>4 DEF CountRules
    <3> QED BY <1>4, <3>1, Zenon DEF Evidence
  <2>2. {SourceFamily(E[i]) : i \in DOMAIN E} = RequiredFamilies
    BY <2>1
  <2>3. \A f \in RequiredFamilies : Shows(E, f)
    BY <2>2 DEF Shows
  <2>4. Len(Evidence(r, E)) = 3
    BY <1>1, <1>4, <2>3, FamilyEvidence
  <2>5. Len(E) = 3 \/ Len(E) = 0
    BY <1>4, FamilyEvidence
  <2>6. Len(E) # 0
    BY <1>1
  <2> QED BY <2>4, <2>5, <2>6
<1> QED BY <1>2, <1>3, <1>4

(* Evidence lies within a window's time, is about its group, and fits the cap. *)
LEMMA EvidenceSpan ==
    ASSUME NEW r \in Rules, NEW s \in Seq(Event), Sorted(s), NEW i \in DOMAIN s
    PROVE  LET E == Evidence(r, WindowEndingAt(r, s, i))
           IN  /\ E \in Seq(Event) /\ Len(E) <= MaxWindowEvents
               /\ \A k \in DOMAIN E : /\ GroupKey(r, E[k]) = GroupKey(r, s[i])
                                      /\ \E j \in DOMAIN s : E[k] = s[j]
               /\ \A k, l \in DOMAIN E : E[k].ts - E[l].ts <= Seconds[r]
               /\ r \in CountRules /\ Distinct(s) => Distinct(E)
<1> DEFINE members == {s[j] : j \in Near(r, s, i)}
           w == WindowEndingAt(r, s, i)
           E == Evidence(r, w)
<1>1. w \in Seq(members) /\ w \in Seq(Event) /\ Len(w) <= MaxWindowEvents
  BY WindowOf
<1>2. /\ \A j \in DOMAIN s : s[j].ts \in Nat
      /\ MaxWindowEvents \in Nat /\ Seconds[r] \in Nat
      /\ DOMAIN s \in SUBSET Nat
  BY EventTimes, RuleConstants
<1>3. \A j \in Near(r, s, i) :
          /\ j \in DOMAIN s /\ GroupKey(r, s[j]) = GroupKey(r, s[i])
          /\ s[j].ts <= s[i].ts /\ s[i].ts - s[j].ts <= Seconds[r]
  BY <1>2 DEF Near, Sorted
<1>4. \A e \in members : /\ GroupKey(r, e) = GroupKey(r, s[i])
                         /\ \E j \in DOMAIN s : e = s[j]
                         /\ e.ts \in Nat /\ e.ts <= s[i].ts /\ s[i].ts - e.ts <= Seconds[r]
  BY <1>2, <1>3
<1>5. Distinct(s) => Distinct(w)
  BY WindowSize
<1> HIDE DEF members, w
<1>6. E \in Seq(members) /\ E \in Seq(Event) /\ Len(E) <= Len(w) /\ Len(w) \in Nat /\ Len(E) \in Nat
  BY <1>1, EvidenceOf
<1>7. ASSUME r \in CountRules, Distinct(s)
      PROVE  Distinct(E)
  <2>1. r # "credential_stuffing"
    BY <1>7 DEF CountRules
  <2>2. E = IF Len(w) >= Threshold[r] THEN w ELSE <<>>
    BY <1>7, <2>1, Zenon DEF Evidence
  <2> HIDE DEF E
  <2>3. Distinct(<<>>)
    BY DEF Distinct
  <2> QED BY <1>5, <1>7, <2>2, <2>3
<1> HIDE DEF E
<1>8. \A k \in DOMAIN E : E[k] \in members
  BY <1>6
<1>9. \A k, l \in DOMAIN E : E[k].ts - E[l].ts <= Seconds[r]
  <2> SUFFICES ASSUME NEW k \in DOMAIN E, NEW l \in DOMAIN E
               PROVE  E[k].ts - E[l].ts <= Seconds[r]
    OBVIOUS
  <2>1. /\ E[k].ts \in Nat /\ E[l].ts \in Nat /\ s[i].ts \in Nat
        /\ E[k].ts <= s[i].ts /\ s[i].ts - E[l].ts <= Seconds[r]
    BY <1>2, <1>4, <1>8
  <2> QED BY <1>2, <2>1
<1>10. Len(E) <= MaxWindowEvents
  BY <1>1, <1>2, <1>6
<1> QED BY <1>4, <1>6, <1>7, <1>8, <1>9, <1>10 DEF E, w

(* Evidence starts no later than any relevant event of its window.         *)
LEMMA NoLater ==
    ASSUME NEW r \in Rules, NEW v \in Seq(Event), Sorted(v), NEW F, F = Evidence(r, v), F # <<>>,
           NEW q \in DOMAIN v, Relevant(r, v[q])
    PROVE  \E n \in DOMAIN F : F[n].ts <= v[q].ts
<1>0. \A j \in DOMAIN v : v[j].ts \in Nat
  BY EventTimes
<1>1. CASE r \in CountRules
  <2>1. r # "credential_stuffing"
    BY <1>1 DEF CountRules
  <2>2. F = v
    BY <1>1, <2>1, Zenon DEF Evidence
  <2>3. F[q].ts <= v[q].ts
    BY <1>0, <2>2
  <2> QED BY <2>2, <2>3
<1>2. ASSUME r \notin CountRules
      PROVE  \E n \in DOMAIN Representatives(r, v) :
                /\ Dimension(r, Representatives(r, v)[n]) = Dimension(r, v[q])
                /\ Representatives(r, v)[n].ts <= v[q].ts
  <2> DEFINE G == Firsts(r, v)
             found == Representatives(r, v)
  <2>1. Dimension(r, v[q]) # None
    BY <1>2, KindOfRelevant
  <2>2. G \in SUBSET DOMAIN v /\ found = AtIndices(v, G)
    BY FirstOfKind
  <2>3. PICK k \in G : Dimension(r, v[k]) = Dimension(r, v[q])
    BY <2>1, FirstOfKind
  <2>4. k <= q
    <3>1. k \in Nat /\ q \in Nat /\ k >= 1 /\ q >= 1
      BY <2>2
    <3>2. \A j \in 1..(k - 1) : Dimension(r, v[j]) # Dimension(r, v[k])
      BY DEF Firsts
    <3> QED BY <2>3, <3>1, <3>2
  <2>5. v[k].ts <= v[q].ts
    BY <2>2, <2>4 DEF Sorted
  <2> HIDE DEF G, found
  <2>6. Rank(G, k) \in DOMAIN found /\ found[Rank(G, k)] = v[k]
    BY <2>2, Selection
  <2>7. Dimension(r, found[Rank(G, k)]) = Dimension(r, v[q]) /\ found[Rank(G, k)].ts <= v[q].ts
    BY <2>3, <2>5, <2>6, Zenon
  <2> QED BY <2>6, <2>7 DEF found
<1>3. CASE r \notin CountRules /\ r # "credential_stuffing"
  <2>1. F = Representatives(r, v)
    BY <1>3, Zenon DEF Evidence
  <2> QED BY <1>2, <1>3, <2>1
<1>4. CASE r = "credential_stuffing"
  <2> DEFINE found == Representatives(r, v)
             range == {found[i] : i \in DOMAIN found}
             of(f) == {i \in DOMAIN found : SourceFamily(found[i]) = f}
  <2>0. r \notin CountRules
    BY <1>4 DEF CountRules
  <2>1. F = OnePerFamily(v) /\ {SourceFamily(F[i]) : i \in DOMAIN F} = RequiredFamilies
    BY <1>4, <2>0, Zenon DEF Evidence
  <2>2. \A e : Dimension(r, e) = SourceFamily(e)
    BY <1>4 DEF Dimension
  <2>3. PICK n \in DOMAIN found : SourceFamily(found[n]) = SourceFamily(v[q])
                                  /\ found[n].ts <= v[q].ts
    BY <1>2, <2>0, <2>2
  <2>4. found \in Seq(Event)
    BY RepresentativesOf
  <2>5. found \in Seq(range)
    <3> HIDE DEF found
    <3>1. DOMAIN found = 1..Len(found) /\ Len(found) \in Nat /\ found = [i \in 1..Len(found) |-> found[i]]
      BY <2>4
    <3>2. \A i \in 1..Len(found) : found[i] \in range
      BY <3>1
    <3> HIDE DEF range
    <3> QED BY <3>1, <3>2
  <2>6. F \in Seq(range)
    <3>1. F = AtIndices(found, of("ssh")) \o AtIndices(found, of("vpn")) \o AtIndices(found, of("web"))
      BY <1>4, <2>1 DEF OnePerFamily
    <3>2. \A f : AtIndices(found, of(f)) \in Seq(range)
      <4> SUFFICES ASSUME NEW f PROVE AtIndices(found, of(f)) \in Seq(range)
        OBVIOUS
      <4> DEFINE I == of(f)
      <4>1. I \in SUBSET DOMAIN found
        OBVIOUS
      <4> HIDE DEF I, found, range
      <4>2. AtIndices(found, I) \in Seq(range)
        BY <2>5, <4>1, SubsequenceAtIndices
      <4> QED BY <4>2 DEF I
    <3> HIDE DEF range, of, found
    <3> QED BY <3>1, <3>2
  <2>7. \A i, j \in DOMAIN found : SourceFamily(found[i]) = SourceFamily(found[j]) => i = j
    <3> DEFINE G == Firsts(r, v)
    <3>1. /\ found = AtIndices(v, G) /\ G \in SUBSET DOMAIN v
          /\ \A i, j \in G : SourceFamily(v[i]) = SourceFamily(v[j]) => i = j
      BY <2>2, FirstOfKind
    <3> HIDE DEF found, G
    <3>2. /\ \A i \in DOMAIN found : Nth(G, i) \in G /\ found[i] = v[Nth(G, i)]
          /\ \A i, j \in DOMAIN found : Nth(G, i) = Nth(G, j) => i = j
      BY <3>1, Selection
    <3> QED BY <3>1, <3>2
  <2>8. SourceFamily(v[q]) \in RequiredFamilies
    BY <1>4, <2>0, KindOfRelevant
  <2>9. PICK x \in DOMAIN F : SourceFamily(F[x]) = SourceFamily(v[q])
    <3> HIDE DEF found
    <3> QED BY <2>1, <2>8
  <2>10. F[x] \in range
    <3> HIDE DEF range
    <3> QED BY <2>6, <2>9
  <2>11. PICK y \in DOMAIN found : F[x] = found[y]
    BY <2>10
  <2> HIDE DEF found, range
  <2>12. y = n
    BY <2>3, <2>7, <2>9, <2>11
  <2> QED BY <2>3, <2>11, <2>12
<1> QED BY <1>1, <1>3, <1>4

(* The first of the widest windows of a rule that counts events is not cut: *)
(* the one before it would be as wide.                                      *)
LEMMA FirstWidestFits ==
    ASSUME NEW r \in CountRules, NEW t \in Seq(Event), Sorted(t), NEW m \in DOMAIN t,
           IsWidestOf(r, t, GroupKey(r, t[m]), m),
           Evidence(r, WindowEndingAt(r, t, m)) # <<>>
    PROVE  Cardinality(Near(r, t, m)) <= MaxWindowEvents
<1> DEFINE N == Near(r, t, m)
           R == N \ {m}
<1>0. r \in Rules /\ r # "credential_stuffing"
  BY DEF CountRules, Rules
<1>1. /\ \A j \in DOMAIN t : t[j].ts \in Nat
      /\ MaxWindowEvents \in Nat \ {0} /\ Seconds[r] \in Nat /\ Threshold[r] \in Nat
      /\ DOMAIN t = 1..Len(t) /\ Len(t) \in Nat
  BY <1>0, EventTimes, RuleConstants
<1>2. N \in SUBSET DOMAIN t /\ N \in SUBSET 1..m /\ m \in N
  BY <1>1 DEF Near
<1>3. IsFiniteSet(N) /\ N \in SUBSET Nat /\ Cardinality(N) \in Nat
  BY <1>2, Indices, FS_CardinalityType
<1>4. SUFFICES ASSUME Cardinality(N) > MaxWindowEvents PROVE FALSE
  BY <1>1, <1>3
<1>5. IsFiniteSet(R) /\ Cardinality(R) = Cardinality(N) - 1
  <2> HIDE DEF N
  <2> QED BY <1>2, <1>3, FS_RemoveElement
<1>6. Cardinality(R) \in Nat /\ Cardinality(R) >= MaxWindowEvents /\ R # {}
  <2>1. Cardinality(R) \in Nat /\ Cardinality(R) >= MaxWindowEvents
    BY <1>1, <1>3, <1>4, <1>5
  <2>2. R # {}
    <3> HIDE DEF R
    <3> QED BY <1>1, <1>5, <2>1, FS_EmptySet
  <2> QED BY <2>1, <2>2
<1>7. R \in SUBSET N
  OBVIOUS
<1>8. PICK l \in R : \A j \in R : l >= j
  <2>1. R \subseteq Int
    BY <1>3
  <2> HIDE DEF R
  <2> QED BY <1>5, <1>6, <2>1, GreatestElement
<1>9. l \in DOMAIN t /\ l < m /\ GroupKey(r, t[l]) = GroupKey(r, t[m])
  BY <1>1, <1>2 DEF Near
<1>10. R \in SUBSET Near(r, t, l)
  <2> SUFFICES ASSUME NEW j \in R PROVE j \in Near(r, t, l)
    OBVIOUS
  <2>1. /\ j \in DOMAIN t /\ j \in 1..l /\ GroupKey(r, t[j]) = GroupKey(r, t[m])
        /\ t[m].ts - t[j].ts <= Seconds[r]
    BY <1>1, <1>2, <1>8, <1>9 DEF Near
  <2>2. t[l].ts <= t[m].ts
    BY <1>9, <1>1 DEF Sorted
  <2>3. t[l].ts - t[j].ts <= Seconds[r]
    BY <1>1, <1>9, <2>1, <2>2
  <2> QED BY <1>9, <2>1, <2>3 DEF Near
<1>11. Near(r, t, l) \in SUBSET DOMAIN t /\ IsFiniteSet(Near(r, t, l))
       /\ Cardinality(Near(r, t, l)) \in Nat
  <2>1. Near(r, t, l) \in SUBSET DOMAIN t
    BY <1>1, <1>9 DEF Near
  <2> QED BY <2>1, Indices, FS_CardinalityType
<1>12. Cardinality(Near(r, t, l)) >= MaxWindowEvents
  <2>1. Cardinality(R) <= Cardinality(Near(r, t, l))
    <3> HIDE DEF R
    <3> QED BY <1>10, <1>11, FS_Subset
  <2> QED BY <1>1, <1>6, <1>11, <2>1
<1> DEFINE w == WindowEndingAt(r, t, m)
           v == WindowEndingAt(r, t, l)
<1>13. Len(w) = MaxWindowEvents /\ Len(v) = MaxWindowEvents
  <2>0. \A n \in DOMAIN t : \A c, u :
            c = Cardinality(Near(r, t, n)) /\ u = WindowEndingAt(r, t, n)
               => Len(u) = IF c > MaxWindowEvents THEN MaxWindowEvents ELSE c
    BY <1>0, WindowSize
  <2>1. Len(w) = IF Cardinality(N) > MaxWindowEvents THEN MaxWindowEvents ELSE Cardinality(N)
    BY <2>0, Zenon
  <2>2. Len(v) = IF Cardinality(Near(r, t, l)) > MaxWindowEvents
                 THEN MaxWindowEvents ELSE Cardinality(Near(r, t, l))
    BY <1>9, <2>0, Zenon
  <2> HIDE DEF w, v, N
  <2> QED BY <1>1, <1>4, <1>11, <1>12, <2>1, <2>2
<1> HIDE DEF w, v, N
<1>14. \A u : Evidence(r, u) = IF Len(u) >= Threshold[r] THEN u ELSE <<>>
  BY <1>0, Zenon DEF Evidence
<1>15. Evidence(r, w) = w
  BY <1>14 DEF w
<1>16. w # <<>>
  BY <1>15 DEF w
<1>17. Len(w) >= Threshold[r]
  BY <1>14, <1>15, <1>16, Zenon
<1>18. Evidence(r, v) = v
  BY <1>13, <1>14, <1>17, Zenon
<1>19. \/ Len(Evidence(r, v)) < Len(Evidence(r, w))
       \/ Len(Evidence(r, v)) = Len(Evidence(r, w)) /\ m <= l
  BY <1>9 DEF IsWidestOf, v, w
<1>20. Len(Evidence(r, v)) = Len(Evidence(r, w)) /\ Len(Evidence(r, w)) \in Nat
  BY <1>1, <1>13, <1>15, <1>18
<1> QED BY <1>1, <1>2, <1>9, <1>19, <1>20

AllIn(E, events) == \A k \in DOMAIN E : \E j \in DOMAIN events : events[j] = E[k]

(* F is larger than E, or starts no later.                                 *)
LargerOrEarlier(E, F) ==
    Len(F) > Len(E) \/ \A k \in DOMAIN E : \E n \in DOMAIN F : F[n].ts <= E[k].ts

(* While the events of a group's evidence are all still in the list, and   *)
(* whatever others are, the group's evidence gets larger or starts no      *)
(* later.                                                                  *)
LEMMA EvidenceThatStays ==
    ASSUME NEW r \in Rules, NEW a \in Seq(Event), NEW b \in Seq(Event), Distinct(a), NEW key,
           NEW E, E = WidestEvidence(r, Stamped(r, a), key), E # <<>>,
           NEW F, F = WidestEvidence(r, Stamped(r, b), key), F # <<>>,
           AllIn(E, b),
           r \in CountRules \/ Len(Stamped(r, b)) <= MaxWindowEvents
    PROVE  F \in Seq(Event) /\ LargerOrEarlier(E, F)
<1> DEFINE s == Stamped(r, a)
           t == Stamped(r, b)
           P == {p \in DOMAIN t : \E k \in DOMAIN E : t[p] = E[k]}
           given(i) == Evidence(r, WindowEndingAt(r, t, i))
<1>1. /\ s \in Seq(Event) /\ Sorted(s) /\ Distinct(s)
      /\ \A j \in DOMAIN s : Relevant(r, s[j])
  BY StampedSorted
<1>2. /\ t \in Seq(Event) /\ Sorted(t)
      /\ \A j \in DOMAIN t : Relevant(r, t[j])
      /\ \A j \in DOMAIN b : Relevant(r, b[j]) => \E i \in DOMAIN t : t[i] = b[j]
  BY StampedSorted
<1>3. PICK i \in DOMAIN s : GroupKey(r, s[i]) = key /\ E = Evidence(r, WindowEndingAt(r, s, i))
  BY <1>1, WidestIsOne
<1>4. PICK m \in DOMAIN t : GroupKey(r, t[m]) = key /\ F = given(m) /\ IsWidestOf(r, t, key, m)
  BY <1>2, WidestIsOne
<1>v. Len(t) <= MaxWindowEvents \/ r \in CountRules
  OBVIOUS
<1> HIDE DEF s, t
<1>5. /\ E \in Seq(Event) /\ Len(E) <= MaxWindowEvents
      /\ \A k \in DOMAIN E : /\ GroupKey(r, E[k]) = key
                             /\ \E j \in DOMAIN s : E[k] = s[j]
      /\ \A k, l \in DOMAIN E : E[k].ts - E[l].ts <= Seconds[r]
      /\ r \in CountRules => Distinct(E)
  BY <1>1, <1>3, EvidenceSpan
<1>6. /\ \A j \in DOMAIN t : t[j].ts \in Nat
      /\ \A k \in DOMAIN E : E[k].ts \in Nat
      /\ MaxWindowEvents \in Nat \ {0} /\ Seconds[r] \in Nat
      /\ DOMAIN t = 1..Len(t) /\ Len(t) \in Nat
      /\ DOMAIN E = 1..Len(E) /\ Len(E) \in Nat /\ 1 \in DOMAIN E
  BY <1>2, <1>5, EventTimes, RuleConstants
<1>7. \A k \in DOMAIN E : \E p \in P : t[p] = E[k]
  BY <1>1, <1>2, <1>5 DEF AllIn
<1>8. P \in SUBSET DOMAIN t /\ \A p \in P : GroupKey(r, t[p]) = key /\ \E k \in DOMAIN E : t[p] = E[k]
  BY <1>5
<1>9. \A p, q \in P : t[p].ts - t[q].ts <= Seconds[r]
  BY <1>5, <1>8
<1> HIDE DEF P
<1>10. IsFiniteSet(P) /\ P \in SUBSET Nat /\ P # {}
  BY <1>2, <1>6, <1>7, <1>8, Indices
<1>11. PICK e \in P : \A p \in P : e >= p
  <2>1. P \subseteq Int
    BY <1>10
  <2> QED BY <1>10, <2>1, GreatestElement
<1>12. e \in DOMAIN t /\ GroupKey(r, t[e]) = key
  BY <1>8, <1>11
<1>13. P \in SUBSET Near(r, t, e)
  BY <1>6, <1>8, <1>9, <1>11, <1>12 DEF Near
<1>14. Near(r, t, e) \in SUBSET DOMAIN t
  BY <1>6, <1>12 DEF Near
(* The window that ends with the last of them holds them all. *)
<1>15. Len(E) <= Len(given(e))
  <2>0. PICK v, c : v = WindowEndingAt(r, t, e) /\ c = Cardinality(Near(r, t, e))
    OBVIOUS
  <2>1. /\ v \in Seq(Event) /\ c \in Nat
        /\ Len(v) = IF c > MaxWindowEvents THEN MaxWindowEvents ELSE c
        /\ c <= MaxWindowEvents => HasAll(v, t, Near(r, t, e))
    BY <1>2, <1>12, <2>0, WindowSize
  <2>2. ASSUME r \in CountRules PROVE Len(E) <= Len(v)
    <3> DEFINE at == [k \in DOMAIN E |-> CHOOSE p \in P : t[p] = E[k]]
    <3>1. \A k \in DOMAIN E : at[k] \in P /\ t[at[k]] = E[k]
      BY <1>7
    <3>2. at \in Injection(DOMAIN E, Near(r, t, e))
      <4>1. at \in [DOMAIN E -> Near(r, t, e)]
        BY <1>13, <3>1
      <4>2. \A k, l \in DOMAIN E : at[k] = at[l] => k = l
        <5> HIDE DEF at
        <5> QED BY <1>5, <2>2, <3>1 DEF Distinct
      <4> HIDE DEF at
      <4> QED BY <4>1, <4>2 DEF Injection, IsInjective
    <3>3. IsFiniteSet(Near(r, t, e))
      BY <1>2, <1>14, Indices
    <3>4. Cardinality(DOMAIN E) <= c
      <4> HIDE DEF at
      <4> QED BY <3>2, <3>3, <2>0, FS_Injection
    <3>5. Cardinality(DOMAIN E) = Len(E)
      BY <1>6, FirstNumbers
    <3> QED BY <1>5, <1>6, <2>1, <3>4, <3>5
  <2>3. ASSUME r \notin CountRules PROVE \A k \in DOMAIN E : \E q \in DOMAIN v : v[q] = E[k]
    <3>1. c <= Len(t)
      BY <1>2, <1>14, <2>0, SubsequenceAtIndices
    <3>2. c <= MaxWindowEvents
      BY <1>6, <1>v, <2>1, <2>3, <3>1
    <3> QED BY <1>7, <1>13, <2>1, <3>2 DEF HasAll
  <2>4. Len(Evidence(r, E)) <= Len(Evidence(r, v))
    BY <1>5, <2>1, <2>2, <2>3, MoreIsWider
  <2>5. Len(Evidence(r, E)) = Len(E)
    <3>1. WindowEndingAt(r, s, i) \in Seq(Event)
      BY <1>1, <1>3, WindowOf
    <3> QED BY <1>3, <3>1, EvidenceAgain
  <2> QED BY <2>0, <2>4, <2>5
<1>16. Len(given(e)) \in Nat /\ F \in Seq(Event) /\ Len(F) \in Nat
  <2>1. WindowEndingAt(r, t, e) \in Seq(Event) /\ WindowEndingAt(r, t, m) \in Seq(Event)
    BY <1>2, <1>4, <1>12, WindowOf
  <2>2. given(e) \in Seq(Event) /\ given(m) \in Seq(Event)
    BY <2>1, EvidenceOf
  <2> HIDE DEF given
  <2> QED BY <1>4, <2>2
<1>17. \/ Len(given(e)) < Len(F)
       \/ Len(given(e)) = Len(F) /\ m <= e
  BY <1>4, <1>12 DEF IsWidestOf
<1> HIDE DEF given
(* With no more than before, the widest window ends no later, and what of  *)
(* them came before its end is in it.                                      *)
<1>18. ASSUME ~(Len(F) > Len(E)), NEW k \in DOMAIN E
       PROVE  \E n \in DOMAIN F : F[n].ts <= E[k].ts
  <2>1. m <= e
    BY <1>6, <1>15, <1>16, <1>17, <1>18
  <2>2. PICK p \in P : t[p] = E[k]
    BY <1>7
  <2>3. p \in DOMAIN t /\ GroupKey(r, t[p]) = key
    BY <1>8, <2>2
  <2>0. PICK v, c : v = WindowEndingAt(r, t, m) /\ c = Cardinality(Near(r, t, m))
    OBVIOUS
  <2>4. /\ v \in Seq(Event) /\ c \in Nat /\ Sorted(v)
        /\ c <= MaxWindowEvents => HasAll(v, t, Near(r, t, m))
    BY <1>2, <1>4, <2>0, WindowSize
  <2>5. c <= MaxWindowEvents
    <3>1. CASE r \in CountRules
      BY <1>2, <1>4, <2>0, <3>1, FirstWidestFits DEF given
    <3>2. CASE r \notin CountRules
      <4>1. Near(r, t, m) \in SUBSET DOMAIN t
        BY <1>6, <1>4 DEF Near
      <4>2. c <= Len(t)
        BY <1>2, <2>0, <4>1, SubsequenceAtIndices
      <4> QED BY <1>6, <1>v, <2>4, <3>2, <4>2
    <3> QED BY <3>1, <3>2
  (* Its own end, or the event itself when that came before it. *)
  <2>6. PICK x \in Near(r, t, m) : t[x].ts <= t[p].ts
    <3>1. CASE m <= p
      <4>1. m \in Near(r, t, m)
        BY <1>4, <1>6 DEF Near
      <4>2. t[m].ts <= t[p].ts
        BY <1>2, <1>4, <2>3, <3>1 DEF Sorted
      <4> QED BY <4>1, <4>2
    <3>2. CASE ~(m <= p)
      <4>1. t[e].ts - t[p].ts <= Seconds[r]
        BY <1>9, <1>11
      <4>2. t[m].ts <= t[e].ts
        BY <1>2, <1>4, <1>12, <2>1 DEF Sorted
      <4>3. t[m].ts - t[p].ts <= Seconds[r]
        BY <1>4, <1>6, <1>12, <2>3, <4>1, <4>2, SMTT(30)
      <4>4. p \in 1..m
        BY <1>4, <1>6, <2>3, <3>2
      <4>5. p \in Near(r, t, m)
        BY <1>4, <2>3, <4>3, <4>4 DEF Near
      <4>6. t[p].ts <= t[p].ts
        BY <1>6, <2>3
      <4> QED BY <4>5, <4>6
    <3> QED BY <3>1, <3>2
  <2>7. x \in DOMAIN t
    BY <1>4, <1>6 DEF Near
  <2>8. PICK q \in DOMAIN v : v[q] = t[x]
    BY <2>4, <2>5, <2>6 DEF HasAll
  <2>9. F = Evidence(r, v) /\ Relevant(r, v[q])
    BY <1>2, <1>4, <2>0, <2>7, <2>8 DEF given
  <2>10. PICK n \in DOMAIN F : F[n].ts <= v[q].ts
    BY <2>4, <2>8, <2>9, NoLater
  <2>11. F[n].ts \in Nat
    BY <1>16, EventTimes
  <2>12. F[n].ts <= E[k].ts
    BY <1>6, <2>2, <2>3, <2>6, <2>7, <2>8, <2>10, <2>11
  <2> QED BY <2>12
<1> QED BY <1>6, <1>16, <1>18 DEF LargerOrEarlier

-----------------------------------------------------------------------------
(* The older detectors *)

(* In time order, what is in time is what purging leaves.                  *)
LEMMA PurgedIndices ==
    ASSUME rule \in Rules, NEW s \in Seq(Event), Sorted(s), NEW G \in SUBSET DOMAIN s, NEW now \in Nat
    PROVE  Purged(AtIndices(s, G), now) = AtIndices(s, {i \in G : now - s[i].ts <= Seconds[rule]})
<1> DEFINE w == AtIndices(s, G)
           J == {p \in DOMAIN w : \E q \in 1..p : now - w[q].ts <= Seconds[rule]}
<1>1. /\ IsFiniteSet(G) /\ G \in SUBSET Nat /\ DOMAIN w = 1..Cardinality(G) /\ Cardinality(G) \in Nat
      /\ \A p \in DOMAIN w : Nth(G, p) \in G /\ w[p] = s[Nth(G, p)]
      /\ \A p, q \in DOMAIN w : p < q => Nth(G, p) < Nth(G, q)
      /\ \A i \in G : Rank(G, i) \in DOMAIN w /\ Nth(G, Rank(G, i)) = i
  BY Indices, SubsequenceAtIndices, NthIndex, RankOrder, FS_CardinalityType DEF AtIndices
<1>2. /\ Seconds[rule] \in Nat
      /\ \A i \in G : s[i].ts \in Nat
      /\ \A p \in DOMAIN w : w[p].ts \in Nat
  BY <1>1, RuleConstants, EventTimes
<1>3. Purged(w, now) = AtIndices(w, J)
  BY DEF Purged
<1> HIDE DEF w
<1>4. ASSUME NEW p \in DOMAIN w, NEW q \in 1..p, now - w[q].ts <= Seconds[rule]
      PROVE  now - w[p].ts <= Seconds[rule]
  <2>1. CASE q = p
    BY <1>4, <2>1
  <2>2. CASE q # p
    <3>1. q \in DOMAIN w /\ q < p
      BY <1>1, <2>2
    <3>2. /\ Nth(G, q) \in DOMAIN s /\ Nth(G, p) \in DOMAIN s /\ Nth(G, q) <= Nth(G, p)
          /\ w[q] = s[Nth(G, q)] /\ w[p] = s[Nth(G, p)]
      BY <1>1, <3>1
    <3>3. w[q].ts <= w[p].ts
      BY <3>2 DEF Sorted
    <3> QED BY <1>2, <1>4, <3>1, <3>3
  <2> QED BY <2>1, <2>2
<1>5. \A p \in DOMAIN w : p \in J <=> now - w[p].ts <= Seconds[rule]
  <2>1. \A p \in DOMAIN w : p \in 1..p
    BY <1>1
  <2> QED BY <1>4, <2>1
<1>6. {Nth(G, p) : p \in J} = {i \in G : now - s[i].ts <= Seconds[rule]}
  <2>1. J \in SUBSET DOMAIN w
    OBVIOUS
  <2> HIDE DEF J
  <2>2. \A p \in J : Nth(G, p) \in G /\ now - s[Nth(G, p)].ts <= Seconds[rule]
    BY <1>1, <1>5, <2>1
  <2>3. ASSUME NEW i \in G, now - s[i].ts <= Seconds[rule]
        PROVE  Rank(G, i) \in J /\ Nth(G, Rank(G, i)) = i
    BY <1>1, <1>5, <2>3
  <2> QED BY <2>2, <2>3
<1>7. AtIndices(w, J) = AtIndices(s, {Nth(G, p) : p \in J})
  <2>1. J \in SUBSET DOMAIN w
    OBVIOUS
  <2> HIDE DEF J
  <2> QED BY <2>1, SelectionOfSelection DEF w
<1> QED BY <1>3, <1>6, <1>7 DEF w

LegacyRuns == [windows : [DOMAIN windows -> Seq(Event)], active : SUBSET DOMAIN windows,
               alerts : Seq([key : DOMAIN windows, evidence : Seq(Event)])]

LEMMA LegacyStepType ==
    ASSUME rule \in Rules, NEW run \in LegacyRuns, NEW event \in Event,
           GroupKey(rule, event) \in DOMAIN windows
    PROVE  LegacyStep(run, event) \in LegacyRuns
<1> DEFINE key    == GroupKey(rule, event)
           live   == Purged(run.windows[key], event.ts)
           window == Append(live, event)
           active == IF Meets(live) THEN run.active ELSE run.active \ {key}
           fires  == Meets(window) /\ key \notin active
           alert  == [key |-> key, evidence |-> window]
<1>1. /\ run.windows \in [DOMAIN windows -> Seq(Event)] /\ run.active \in SUBSET DOMAIN windows
      /\ run.alerts \in Seq([key : DOMAIN windows, evidence : Seq(Event)])
  BY DEF LegacyRuns
<1>2. LegacyStep(run, event)
        = [windows |-> [run.windows EXCEPT ![key] = window],
           active  |-> IF fires THEN active \cup {key} ELSE active,
           alerts  |-> IF fires THEN Append(run.alerts, alert) ELSE run.alerts]
  BY DEF LegacyStep
<1>3. live \in Seq(Event)
  <2>1. PICK w : w = run.windows[key]
    OBVIOUS
  <2>2. w \in Seq(Event)
    BY <1>1, <2>1
  <2>3. \A J \in SUBSET DOMAIN w : AtIndices(w, J) \in Seq(Event)
    BY <2>2, SubsequenceAtIndices
  <2> QED BY <2>1, <2>3 DEF Purged
<1> HIDE DEF live
<1>4. window \in Seq(Event)
  BY <1>3
<1>5. key \in DOMAIN windows
  OBVIOUS
<1> HIDE DEF window, fires, key
<1>6. alert \in [key : DOMAIN windows, evidence : Seq(Event)]
  BY <1>4, <1>5
<1>7. active \in SUBSET DOMAIN windows
  BY <1>1
<1> HIDE DEF alert, active
<1>8. Append(run.alerts, alert) \in Seq([key : DOMAIN windows, evidence : Seq(Event)])
  BY <1>1, <1>6
<1>9. [run.windows EXCEPT ![key] = window] \in [DOMAIN windows -> Seq(Event)]
  BY <1>1, <1>4
<1>10. (IF fires THEN active \cup {key} ELSE active) \in SUBSET DOMAIN windows
  BY <1>5, <1>7
<1>11. (IF fires THEN Append(run.alerts, alert) ELSE run.alerts)
          \in Seq([key : DOMAIN windows, evidence : Seq(Event)])
  BY <1>1, <1>8
<1> QED BY <1>2, <1>9, <1>10, <1>11 DEF LegacyRuns

(* What an older detector reads, and that qualifying_windows reads of it   *)
(* what the rule looks at.                                                 *)
OlderTypes ==
    /\ rule \in Rules
    /\ older \in Seq(Event) /\ Sorted(older)
    /\ \A i \in DOMAIN older : GroupKey(rule, older[i]) \in DOMAIN windows

Kept == {i \in DOMAIN older : Relevant(rule, older[i])}

OlderView == rule \in LegacyRules => OlderTypes /\ stamped = AtIndices(older, Kept)

LEMMA OlderInvariance == Spec => []OlderView
<1>1. Init => OlderView
  <2> SUFFICES ASSUME Init, rule \in LegacyRules
               PROVE  OlderTypes /\ stamped = AtIndices(older, Kept)
    BY DEF OlderView
  <2>1. PICK r \in Rules : \E events \in Inputs[r] :
            /\ rule = r
            /\ stamped = Stamped(r, events)
            /\ windows = [k \in {GroupKey(r, events[i]) : i \in DOMAIN events} |-> <<>>]
            /\ older = IF r \in LegacyRules THEN LegacyStamped(r, events) ELSE <<>>
    BY DEF Init
  <2>2. PICK events \in Inputs[r] :
            /\ rule = r
            /\ stamped = Stamped(r, events)
            /\ windows = [k \in {GroupKey(r, events[i]) : i \in DOMAIN events} |-> <<>>]
            /\ older = IF r \in LegacyRules THEN LegacyStamped(r, events) ELSE <<>>
    BY <2>1
  <2>3. events \in Seq(Event)
    BY InputsAssumption
  <2> DEFINE kept == {i \in DOMAIN events : LegacyRelevant(r, events[i])}
  <2>4. kept \in SUBSET DOMAIN events
    OBVIOUS
  <2>5. older = TimeOrdered(events, kept)
    BY <2>2 DEF LegacyStamped
  <2>6. \A i \in DOMAIN events : Relevant(r, events[i]) => i \in kept
    <3>1. r = "brute_force" \/ r = "credential_stuffing"
      BY <2>2 DEF LegacyRules
    <3>2. ASSUME NEW e, Relevant(r, e)
          PROVE  LegacyRelevant(r, e)
      <4>1. CASE r = "brute_force"
        BY <3>2, <4>1 DEF LegacyRelevant, Relevant, Predicate, IsFailedLogin
      <4>2. CASE r = "credential_stuffing"
        BY <3>2, <4>2 DEF LegacyRelevant, Relevant, Predicate
      <4> QED BY <3>1, <4>1, <4>2
    <3> QED BY <3>2
  <2> HIDE DEF kept
  <2>7. older \in Seq(Event) /\ Sorted(older)
    BY <2>3, <2>4, <2>5, TimeOrderedSorted
  <2>8. stamped = AtIndices(older, Kept)
    BY <2>2, <2>3, <2>4, <2>5, <2>6, OrderedSelection DEF Kept
  <2>9. \A i \in DOMAIN older : GroupKey(rule, older[i]) \in DOMAIN windows
    <3>1. PICK order \in Seq(kept) : older = [n \in DOMAIN order |-> events[order[n]]]
      BY <2>3, <2>4, <2>5, OrderedIndices
    <3>2. \A n \in DOMAIN older : \E j \in DOMAIN events : older[n] = events[j]
      BY <2>4, <3>1
    <3> QED BY <2>2, <3>2
  <2> QED BY <2>2, <2>7, <2>8, <2>9 DEF OlderTypes
<1>2. OlderView /\ [Next]_vars => OlderView'
  <2> SUFFICES ASSUME OlderView, [Next]_vars PROVE OlderView'
    OBVIOUS
  <2>1. rule' = rule /\ stamped' = stamped /\ older' = older /\ DOMAIN windows' = DOMAIN windows
    BY DEF Next, Step, Done, vars
  <2> QED BY <2>1 DEF OlderView, OlderTypes, Kept
<1> QED BY <1>1, <1>2, PTL DEF Spec

(* The detector after each number of events. *)
LegacyRun(f) ==
    /\ f \in [0..Len(older) -> LegacyRuns]
    /\ f[0] = LegacyStart
    /\ \A n \in 1..Len(older) : f[n] = LegacyStep(f[n - 1], older[n])
    /\ LegacyAlerts(older) = f[Len(older)].alerts

LEMMA LegacyRunExists ==
    ASSUME OlderTypes
    PROVE  \E f : LegacyRun(f)
<1> DEFINE c == Len(older)
           Runs(g) == g = [n \in 0..c |-> IF n = 0 THEN LegacyStart ELSE LegacyStep(g[n - 1], older[n])]
           run == CHOOSE g : Runs(g)
           T == LegacyRuns
           step == [n \in 0..c |-> [x \in T |-> IF n = 0 THEN x ELSE LegacyStep(x, older[n])]]
<1>1. /\ c \in Nat /\ rule \in Rules /\ older \in Seq(Event) /\ DOMAIN older = 1..c
      /\ \A n \in 1..c : older[n] \in Event /\ GroupKey(rule, older[n]) \in DOMAIN windows
  BY DEF OlderTypes
<1>2. LegacyAlerts(older) = run[c].alerts
  BY Zenon DEF LegacyAlerts
<1>3. LegacyStart \in T
  BY DEF LegacyStart, LegacyRuns
<1>4. \A x \in T : \A n \in 1..c : LegacyStep(x, older[n]) \in T
  <2> HIDE DEF c
  <2> QED BY <1>1, LegacyStepType
<1>5. step \in Steps(T, 0, c)
  <2> HIDE DEF T, c
  <2>1. \A n \in 0..c : n # 0 => n \in 1..c
    BY <1>1
  <2> QED BY <1>4, <2>1 DEF Steps
<1>6. PICK f : Repeats(f, T, LegacyStart, step, 0, c)
  <2>1. 0 \in Nat /\ 0 <= c
    BY <1>1
  <2> HIDE DEF T, step, c
  <2> QED BY <1>1, <1>3, <1>5, <2>1, Repetition
<1>7. f \in [0..c -> T] /\ \A n \in 0..c : f[n] = IF n = 0 THEN LegacyStart ELSE step[n][f[n - 1]]
  <2> HIDE DEF T, step, c
  <2> QED BY <1>6 DEF Repeats
<1>8. \A n \in 0..c : n # 0 => n \in 1..c /\ n - 1 \in 0..c
  <2> HIDE DEF c
  <2> QED BY <1>1
<1>9. \A n \in 0..c : f[n] = IF n = 0 THEN LegacyStart ELSE LegacyStep(f[n - 1], older[n])
  <2> TAKE n \in 0..c
  <2>1. CASE n = 0
    <3> HIDE DEF step, c, T
    <3> QED BY <1>7, <2>1
  <2>2. CASE n # 0
    <3>1. f[n - 1] \in T
      <4> HIDE DEF step, c, T
      <4> QED BY <1>7, <1>8, <2>2
    <3>2. step[n][f[n - 1]] = LegacyStep(f[n - 1], older[n])
      <4> HIDE DEF T, c
      <4> QED BY <2>2, <3>1
    <3> HIDE DEF step, c, T
    <3> QED BY <1>7, <2>2, <3>2
  <2> QED BY <2>1, <2>2
<1>10. Runs(f)
  <2>1. DOMAIN f = 0..c
    <3> HIDE DEF step, T, c
    <3> QED BY <1>7
  <2> HIDE DEF step, T, c
  <2> QED BY <1>7, <1>9
<1>11. Runs(run)
  <2> HIDE DEF Runs
  <2> QED BY <1>10
<1> DEFINE good == {n \in 0..c : run[n] \in T}
<1>12. \A n \in 0..c : run[n] = IF n = 0 THEN LegacyStart ELSE LegacyStep(run[n - 1], older[n])
  <2> HIDE DEF run, c
  <2> QED BY <1>11
<1>13. \A n \in 0..c : n \in good
  <2>1. 0 \in good
    <3>1. 0 \in 0..c
      BY <1>1
    <3> HIDE DEF run, T, c
    <3> QED BY <1>3, <1>12, <3>1
  <2>2. ASSUME NEW n \in 0..c, n \in good, n + 1 \in 0..c
        PROVE  n + 1 \in good
    <3>1. n + 1 # 0 /\ (n + 1) - 1 = n /\ n + 1 \in 1..c
      <4> HIDE DEF c
      <4> QED BY <1>1, <2>2
    <3>2. run[n + 1] = LegacyStep(run[n], older[n + 1])
      <4> HIDE DEF run, c, T
      <4> QED BY <1>12, <2>2, <3>1
    <3> HIDE DEF run, c, T
    <3> QED BY <1>4, <2>2, <3>1, <3>2
  <2> HIDE DEF good, c
  <2> QED BY <1>1, <2>1, <2>2, IntervalInduction
<1>14. run = [n \in 0..c |-> run[n]]
  <2> HIDE DEF run, c
  <2> QED BY <1>11
<1>15. run \in [0..c -> T]
  <2> HIDE DEF run, c, T
  <2> QED BY <1>13, <1>14
<1>16. \A n \in 1..c : run[n] = LegacyStep(run[n - 1], older[n])
  <2>1. \A n \in 1..c : n \in 0..c /\ n # 0
    <3> HIDE DEF c
    <3> QED BY <1>1
  <2> HIDE DEF run, c
  <2> QED BY <1>12, <2>1
<1>17. run[0] = LegacyStart
  <2>1. 0 \in 0..c
    BY <1>1
  <2> HIDE DEF run, c
  <2> QED BY <1>12, <2>1
<1> HIDE DEF run
<1>18. LegacyRun(run)
  BY <1>2, <1>15, <1>16, <1>17 DEF LegacyRun
<1> QED BY <1>18

(* The events of a group among the first m, its window when nothing is cut *)
(* at the cap, and what a deque holds: all but some events that have been   *)
(* left behind by more than the window.                                    *)
Group(key, m) == {j \in 1..m : GroupKey(rule, older[j]) = key}

FullWindow(i) == AtIndices(older, Near(rule, older, i))

HoldsRecent(w, key, m) ==
    \E I \in SUBSET Group(key, m) :
        /\ w = AtIndices(older, I)
        /\ \A j \in Group(key, m) \ I : older[m].ts - older[j].ts > Seconds[rule]

(* After m events: an alert is a full window that met the rule, each group *)
(* with such a window has an alert, and so has each active group.          *)
LegacyInv(run, m) ==
    /\ \A key \in DOMAIN windows : HoldsRecent(run.windows[key], key, m)
    /\ \A key \in run.active : \E a \in DOMAIN run.alerts : run.alerts[a].key = key
    /\ \A a \in DOMAIN run.alerts : \E i \in 1..m :
          /\ run.alerts[a] = [key |-> GroupKey(rule, older[i]), evidence |-> FullWindow(i)]
          /\ Meets(FullWindow(i))
    /\ \A i \in 1..m : Meets(FullWindow(i)) =>
          \E a \in DOMAIN run.alerts : run.alerts[a].key = GroupKey(rule, older[i])

(* An event's full window is what is left of the deque, and the event.     *)
LEMMA LegacyWindow ==
    ASSUME OlderTypes, NEW n \in DOMAIN older, NEW w,
           HoldsRecent(w, GroupKey(rule, older[n]), n - 1)
    PROVE  Append(Purged(w, older[n].ts), older[n]) = FullWindow(n)
<1> DEFINE key == GroupKey(rule, older[n])
           now == older[n].ts
<1>1. /\ rule \in Rules /\ older \in Seq(Event) /\ Sorted(older) /\ n \in Nat \ {0}
      /\ DOMAIN older = 1..Len(older) /\ Len(older) \in Nat
  BY DEF OlderTypes
<1>2. /\ Seconds[rule] \in Nat /\ now \in Nat
      /\ \A i \in DOMAIN older : older[i].ts \in Nat
  BY <1>1, RuleConstants, EventTimes
<1>3. PICK I \in SUBSET Group(key, n - 1) :
          /\ w = AtIndices(older, I)
          /\ \A j \in Group(key, n - 1) \ I : older[n - 1].ts - older[j].ts > Seconds[rule]
  BY DEF HoldsRecent
<1> DEFINE L == {i \in I : now - older[i].ts <= Seconds[rule]}
<1>4. I \in SUBSET DOMAIN older /\ \A i \in I : i < n /\ GroupKey(rule, older[i]) = key
  BY <1>1 DEF Group
<1>5. Purged(w, now) = AtIndices(older, L)
  <2> HIDE DEF now
  <2> QED BY <1>1, <1>2, <1>3, <1>4, PurgedIndices
<1>6. Append(AtIndices(older, L), older[n]) = AtIndices(older, L \cup {n})
  <2>1. L \in SUBSET DOMAIN older /\ \A i \in L : i < n
    BY <1>4
  <2> HIDE DEF L
  <2> QED BY <1>1, <2>1, AppendedIndex
<1>7. L \cup {n} = Near(rule, older, n)
  <2>1. ASSUME NEW j \in L \cup {n}
        PROVE  j \in Near(rule, older, n)
    <3>1. CASE j = n
      <4>1. now - now <= Seconds[rule] /\ n \in 1..n
        BY <1>1, <1>2
      <4> QED BY <3>1, <4>1 DEF Near
    <3>2. CASE j \in L
      <4>1. j \in 1..n /\ GroupKey(rule, older[j]) = key /\ now - older[j].ts <= Seconds[rule]
        BY <1>1, <1>4, <3>2
      <4> QED BY <4>1 DEF Near
    <3> QED BY <3>1, <3>2
  <2>2. ASSUME NEW j \in Near(rule, older, n), j # n
        PROVE  j \in L
    <3>1. j \in 1..n /\ GroupKey(rule, older[j]) = key /\ now - older[j].ts <= Seconds[rule]
      BY DEF Near
    <3>2. /\ j \in Group(key, n - 1) /\ j \in DOMAIN older
          /\ n - 1 \in DOMAIN older /\ n - 1 <= n
      BY <1>1, <2>2, <3>1 DEF Group
    <3>3. older[n - 1].ts <= now
      BY <1>1, <3>2 DEF Sorted
    <3>4. ~(older[n - 1].ts - older[j].ts > Seconds[rule])
      <4> HIDE DEF now
      <4> QED BY <1>2, <3>1, <3>2, <3>3
    <3> QED BY <1>3, <3>1, <3>2, <3>4
  <2> HIDE DEF L
  <2> QED BY <2>1, <2>2
<1> HIDE DEF L
<1> QED BY <1>5, <1>6, <1>7, Zenon DEF FullWindow

(* Reading one more event leaves a deque with what is recent.              *)
LEMMA RecentStays ==
    ASSUME OlderTypes, NEW n \in DOMAIN older
    PROVE  /\ HoldsRecent(FullWindow(n), GroupKey(rule, older[n]), n)
           /\ \A w, key : key # GroupKey(rule, older[n]) /\ HoldsRecent(w, key, n - 1)
                             => HoldsRecent(w, key, n)
<1>1. /\ rule \in Rules /\ older \in Seq(Event) /\ Sorted(older) /\ n \in Nat \ {0}
      /\ DOMAIN older = 1..Len(older) /\ Len(older) \in Nat
  BY DEF OlderTypes
<1>2. /\ Seconds[rule] \in Nat
      /\ \A i \in DOMAIN older : older[i].ts \in Nat
  BY <1>1, RuleConstants, EventTimes
<1>3. HoldsRecent(FullWindow(n), GroupKey(rule, older[n]), n)
  <2> DEFINE key == GroupKey(rule, older[n])
             I == Near(rule, older, n)
  <2>1. I \in SUBSET Group(key, n)
    BY DEF Near, Group
  <2>2. ASSUME NEW j \in Group(key, n) \ I
        PROVE  older[n].ts - older[j].ts > Seconds[rule]
    <3>1. j \in 1..n /\ j \in DOMAIN older /\ GroupKey(rule, older[j]) = key
      BY <1>1 DEF Group
    <3>2. ~(older[n].ts - older[j].ts <= Seconds[rule])
      BY <3>1 DEF Near
    <3> QED BY <1>2, <3>1, <3>2
  <2> HIDE DEF key, I
  <2>3. FullWindow(n) = AtIndices(older, I)
    BY DEF FullWindow, I
  <2> QED BY <2>1, <2>2, <2>3 DEF HoldsRecent, key
<1>4. ASSUME NEW w, NEW key, key # GroupKey(rule, older[n]), HoldsRecent(w, key, n - 1)
      PROVE  HoldsRecent(w, key, n)
  <2>1. PICK I \in SUBSET Group(key, n - 1) :
            /\ w = AtIndices(older, I)
            /\ \A j \in Group(key, n - 1) \ I : older[n - 1].ts - older[j].ts > Seconds[rule]
    BY <1>4 DEF HoldsRecent
  <2>2. Group(key, n) = Group(key, n - 1)
    <3>1. \A j \in 1..n : j = n \/ j \in 1..(n - 1)
      BY <1>1
    <3>2. \A j \in 1..(n - 1) : j \in 1..n
      BY <1>1
    <3> QED BY <1>4, <3>1, <3>2 DEF Group
  <2>3. ASSUME NEW j \in Group(key, n) \ I
        PROVE  older[n].ts - older[j].ts > Seconds[rule]
    <3>1. j \in 1..(n - 1) /\ older[n - 1].ts - older[j].ts > Seconds[rule]
      BY <2>1, <2>2 DEF Group
    <3>2. j \in DOMAIN older /\ n - 1 \in DOMAIN older /\ n - 1 <= n
      BY <1>1, <3>1
    <3>3. older[n - 1].ts <= older[n].ts
      BY <1>1, <3>2 DEF Sorted
    <3> QED BY <1>2, <3>1, <3>2, <3>3
  <2> QED BY <2>1, <2>2, <2>3 DEF HoldsRecent
<1> QED BY <1>3, <1>4

LEMMA LegacyStepKeeps ==
    ASSUME OlderTypes, NEW n \in DOMAIN older, NEW run \in LegacyRuns, LegacyInv(run, n - 1)
    PROVE  LegacyInv(LegacyStep(run, older[n]), n)
<1> DEFINE event  == older[n]
           key    == GroupKey(rule, event)
           live   == Purged(run.windows[key], event.ts)
           window == Append(live, event)
           active == IF Meets(live) THEN run.active ELSE run.active \ {key}
           fires  == Meets(window) /\ key \notin active
           alert  == [key |-> key, evidence |-> window]
           then   == LegacyStep(run, event)
<1>1. /\ rule \in Rules /\ older \in Seq(Event) /\ n \in Nat \ {0}
      /\ key \in DOMAIN windows
      /\ run.windows \in [DOMAIN windows -> Seq(Event)]
      /\ run.alerts \in Seq([key : DOMAIN windows, evidence : Seq(Event)])
  BY DEF OlderTypes, LegacyRuns
<1>2. then = [windows |-> [run.windows EXCEPT ![key] = window],
              active  |-> IF fires THEN active \cup {key} ELSE active,
              alerts  |-> IF fires THEN Append(run.alerts, alert) ELSE run.alerts]
  BY DEF LegacyStep
<1>3. window = FullWindow(n)
  BY <1>1, LegacyWindow DEF LegacyInv
<1> HIDE DEF live, window, then
<1>4. \A k \in DOMAIN windows : HoldsRecent(then.windows[k], k, n)
  <2> TAKE k \in DOMAIN windows
  <2>1. CASE k = key
    <3>1. then.windows[k] = FullWindow(n)
      BY <1>1, <1>2, <1>3, <2>1
    <3> QED BY <2>1, <3>1, RecentStays
  <2>2. CASE k # key
    <3>1. then.windows[k] = run.windows[k]
      BY <1>1, <1>2, <2>2
    <3> QED BY <2>2, <3>1, RecentStays DEF LegacyInv
  <2> QED BY <2>1, <2>2
<1>5. active \subseteq run.active
  OBVIOUS
<1>6. Meets(window) /\ ~fires => key \in run.active
  BY <1>5
<1>7. 1..n = (1..(n - 1)) \cup {n}
  BY <1>1
<1>8. PICK old : old = run.alerts
  OBVIOUS
<1>9. /\ old \in Seq([key : DOMAIN windows, evidence : Seq(Event)])
      /\ \A k \in run.active : \E a \in DOMAIN old : old[a].key = k
      /\ \A a \in DOMAIN old : \E i \in 1..(n - 1) :
            /\ old[a] = [key |-> GroupKey(rule, older[i]), evidence |-> FullWindow(i)]
            /\ Meets(FullWindow(i))
      /\ \A i \in 1..(n - 1) : Meets(FullWindow(i)) =>
            \E a \in DOMAIN old : old[a].key = GroupKey(rule, older[i])
  BY <1>1, <1>8 DEF LegacyInv
<1>10. CASE fires
  <2>1. PICK all : all = Append(old, alert)
    OBVIOUS
  <2>2. then.alerts = all /\ then.active = active \cup {key}
    BY <1>2, <1>8, <1>10, <2>1
  <2>3. /\ DOMAIN all = DOMAIN old \cup {Len(old) + 1}
        /\ \A a \in DOMAIN old : all[a] = old[a]
        /\ all[Len(old) + 1] = alert
    <3>1. PICK x : x = alert
      OBVIOUS
    <3>2. PICK E : E = [key : DOMAIN windows, evidence : Seq(Event)]
      OBVIOUS
    <3>3. x \in E
      <4>1. FullWindow(n) \in Seq(Event)
        <5>1. Near(rule, older, n) \in SUBSET DOMAIN older
          BY <1>1 DEF Near
        <5> QED BY <1>1, <5>1, SubsequenceAtIndices DEF FullWindow
      <4> QED BY <1>1, <1>3, <3>1, <3>2, <4>1
    <3>4. all = Append(old, x)
      BY <2>1, <3>1
    <3>5. old \in Seq(E)
      BY <1>9, <3>2
    <3> HIDE DEF alert
    <3>6. all[Len(old) + 1] = x /\ (\A a \in DOMAIN old : all[a] = old[a])
          /\ DOMAIN all = DOMAIN old \cup {Len(old) + 1}
      BY <3>3, <3>4, <3>5
    <3> QED BY <3>1, <3>6
  <2>4. alert = [key |-> GroupKey(rule, older[n]), evidence |-> FullWindow(n)]
        /\ Meets(FullWindow(n)) /\ alert.key = key
    BY <1>3, <1>10
  <2> HIDE DEF alert, key, active
  <2>5. \A k \in then.active : \E a \in DOMAIN all : all[a].key = k
    <3> TAKE k \in then.active
    <3>1. CASE k \in run.active
      BY <1>9, <2>3, <3>1
    <3>2. CASE k = key
      BY <2>3, <2>4, <3>2
    <3> QED BY <1>5, <2>2, <3>1, <3>2
  <2>6. \A a \in DOMAIN all : \E i \in 1..n :
            /\ all[a] = [key |-> GroupKey(rule, older[i]), evidence |-> FullWindow(i)]
            /\ Meets(FullWindow(i))
    <3> TAKE a \in DOMAIN all
    <3>1. CASE a \in DOMAIN old
      <4>1. PICK i \in 1..(n - 1) :
               /\ old[a] = [key |-> GroupKey(rule, older[i]), evidence |-> FullWindow(i)]
               /\ Meets(FullWindow(i))
        BY <1>9, <3>1
      <4>2. i \in 1..n /\ all[a] = old[a]
        BY <1>7, <2>3, <3>1
      <4> QED BY <4>1, <4>2
    <3>2. CASE a = Len(old) + 1
      <4>1. n \in 1..n /\ all[a] = alert
        BY <1>7, <2>3, <3>2
      <4> QED BY <2>4, <4>1
    <3> QED BY <2>3, <3>1, <3>2
  <2>7. \A i \in 1..n : Meets(FullWindow(i)) =>
            \E a \in DOMAIN all : all[a].key = GroupKey(rule, older[i])
    <3> TAKE i \in 1..n
    <3> HAVE Meets(FullWindow(i))
    <3>1. CASE i \in 1..(n - 1)
      BY <1>9, <2>3, <3>1
    <3>2. CASE i = n
      BY <2>3, <2>4, <3>2
    <3> QED BY <1>7, <3>1, <3>2
  <2> QED BY <1>4, <2>2, <2>5, <2>6, <2>7 DEF LegacyInv, then, event
<1>11. CASE ~fires
  <2>1. then.alerts = old /\ then.active = active
    BY <1>2, <1>8, <1>11
  <2> HIDE DEF active, key
  <2>2. \A k \in then.active : \E a \in DOMAIN old : old[a].key = k
    BY <1>5, <1>9, <2>1
  <2>3. \A a \in DOMAIN old : \E i \in 1..n :
            /\ old[a] = [key |-> GroupKey(rule, older[i]), evidence |-> FullWindow(i)]
            /\ Meets(FullWindow(i))
    <3> TAKE a \in DOMAIN old
    <3>1. PICK i \in 1..(n - 1) :
             /\ old[a] = [key |-> GroupKey(rule, older[i]), evidence |-> FullWindow(i)]
             /\ Meets(FullWindow(i))
      BY <1>9
    <3> QED BY <1>7, <3>1
  <2>4. \A i \in 1..n : Meets(FullWindow(i)) =>
            \E a \in DOMAIN old : old[a].key = GroupKey(rule, older[i])
    <3> TAKE i \in 1..n
    <3> HAVE Meets(FullWindow(i))
    <3>1. CASE i \in 1..(n - 1)
      BY <1>9, <3>1
    <3>2. CASE i = n
      <4>1. key \in run.active
        BY <1>3, <1>6, <1>11, <3>2
      <4> QED BY <1>9, <3>2, <4>1 DEF key, event
    <3> QED BY <1>7, <3>1, <3>2
  <2> QED BY <1>4, <2>1, <2>2, <2>3, <2>4 DEF LegacyInv, then, event
<1> QED BY <1>10, <1>11

(* What the older detectors have found at the end.                         *)
LEMMA LegacyHolds ==
    ASSUME OlderTypes
    PROVE  \E f : LegacyRun(f) /\ LegacyInv(f[Len(older)], Len(older))
<1> DEFINE c == Len(older)
<1>1. PICK f : LegacyRun(f)
  BY LegacyRunExists
<1>2. /\ c \in Nat /\ DOMAIN older = 1..c /\ older \in Seq(Event)
  BY DEF OlderTypes
<1>3. /\ \A n \in 0..c : f[n] \in LegacyRuns
      /\ f[0] = LegacyStart
      /\ \A n \in 1..c : f[n] = LegacyStep(f[n - 1], older[n])
  BY <1>1 DEF LegacyRun
<1> HIDE DEF c
<1> DEFINE good == {n \in 0..c : LegacyInv(f[n], n)}
<1>4. 0 \in good
  <2>1. /\ \A key \in DOMAIN windows : LegacyStart.windows[key] = <<>>
        /\ LegacyStart.active = {} /\ LegacyStart.alerts = <<>>
    BY DEF LegacyStart
  <2>2. 1..0 = {} /\ DOMAIN <<>> = {}
    OBVIOUS
  <2>3. \A key : Group(key, 0) = {}
    BY <2>2 DEF Group
  <2>4. AtIndices(older, {}) = <<>>
    <3>1. /\ AtIndices(older, {}) \in Seq(Event)
          /\ Len(AtIndices(older, {})) = Cardinality({})
      <4>1. {} \in SUBSET DOMAIN older
        OBVIOUS
      <4> QED BY <1>2, <4>1, SubsequenceAtIndices
    <3>2. Cardinality({}) = 0
      BY FS_EmptySet
    <3> QED BY <3>1, <3>2
  <2>5. \A key : HoldsRecent(<<>>, key, 0)
    <3> TAKE key
    <3>1. {} \in SUBSET Group(key, 0) /\ Group(key, 0) \ {} = {}
      BY <2>3
    <3> QED BY <2>4, <3>1, Zenon DEF HoldsRecent
  <2>6. LegacyInv(LegacyStart, 0)
    BY <2>1, <2>2, <2>5, Zenon DEF LegacyInv
  <2> QED BY <1>2, <1>3, <2>6
<1>5. ASSUME NEW n \in 0..c, n \in good, n + 1 \in 0..c
      PROVE  n + 1 \in good
  <2>1. n + 1 \in DOMAIN older /\ (n + 1) - 1 = n /\ n + 1 \in 1..c
    BY <1>2, <1>5
  <2>2. f[n + 1] = LegacyStep(f[n], older[n + 1]) /\ f[n] \in LegacyRuns /\ LegacyInv(f[n], n)
    BY <1>3, <1>5, <2>1
  <2>3. LegacyInv(LegacyStep(f[n], older[n + 1]), n + 1)
    <3> PICK m : m = n + 1
      OBVIOUS
    <3>1. m \in DOMAIN older /\ m - 1 = n
      BY <2>1
    <3>2. LegacyInv(LegacyStep(f[n], older[m]), m)
      BY <2>2, <3>1, LegacyStepKeeps
    <3> QED BY <3>2
  <2> QED BY <1>5, <2>2, <2>3
<1>6. \A n \in 0..c : n \in good
  <2>1. 0 \in Nat
    OBVIOUS
  <2> HIDE DEF good
  <2> QED BY <1>2, <1>4, <1>5, <2>1, IntervalInduction
<1>7. c \in 0..c
  BY <1>2
<1> QED BY <1>1, <1>6, <1>7 DEF c

(* An event's window among those the rule looks at is the part it looks at *)
(* of the window among all that the older detector reads.                  *)
LEMMA KeptWindow ==
    ASSUME Types, OlderTypes, stamped = AtIndices(older, Kept), NEW i \in DOMAIN stamped
    PROVE  /\ Nth(Kept, i) \in Kept /\ older[Nth(Kept, i)] = stamped[i]
           /\ {Nth(Kept, p) : p \in Near(rule, stamped, i)} = Near(rule, older, Nth(Kept, i)) \cap Kept
<1> DEFINE n == Nth(Kept, i)
<1>1. /\ older \in Seq(Event) /\ Kept \in SUBSET DOMAIN older
      /\ DOMAIN older = 1..Len(older) /\ Len(older) \in Nat
  BY DEF OlderTypes, Kept
<1>2. /\ \A p \in DOMAIN stamped : Nth(Kept, p) \in Kept /\ stamped[p] = older[Nth(Kept, p)]
      /\ \A p, q \in DOMAIN stamped : p < q => Nth(Kept, p) < Nth(Kept, q)
      /\ DOMAIN stamped = 1..Len(stamped) /\ Len(stamped) \in Nat
  <2>1. /\ \A p \in DOMAIN stamped : Nth(Kept, p) \in Kept /\ stamped[p] = older[Nth(Kept, p)]
        /\ \A p, q \in DOMAIN stamped : p < q => Nth(Kept, p) < Nth(Kept, q)
    BY <1>1, Selection
  <2>2. stamped \in Seq(Event)
    BY DEF Types
  <2> QED BY <2>1, <2>2
<1>3. \A j \in Kept : Rank(Kept, j) \in DOMAIN stamped /\ Nth(Kept, Rank(Kept, j)) = j
  BY <1>1, Selection, Indices, NthIndex
<1>4. n \in Kept /\ n \in 1..Len(older) /\ older[n] = stamped[i]
  BY <1>1, <1>2
<1>5. ASSUME NEW p \in Near(rule, stamped, i)
      PROVE  Nth(Kept, p) \in Near(rule, older, n) \cap Kept
  <2>1. /\ p \in 1..i /\ p \in DOMAIN stamped
        /\ GroupKey(rule, stamped[p]) = GroupKey(rule, stamped[i])
        /\ stamped[i].ts - stamped[p].ts <= Seconds[rule]
    BY <1>2 DEF Near
  <2>2. Nth(Kept, p) \in Kept /\ Nth(Kept, p) \in 1..Len(older) /\ older[Nth(Kept, p)] = stamped[p]
    BY <1>1, <1>2, <2>1
  <2>3. Nth(Kept, p) <= n
    <3>1. CASE p = i
      BY <1>4, <3>1
    <3>2. CASE p # i
      <4>1. p < i
        BY <1>2, <2>1, <3>2
      <4> QED BY <1>2, <1>4, <2>1, <2>2, <4>1
    <3> QED BY <3>1, <3>2
  <2>4. Nth(Kept, p) \in 1..n
    BY <1>4, <2>2, <2>3
  <2> QED BY <1>4, <2>1, <2>2, <2>4 DEF Near
<1>6. ASSUME NEW j \in Near(rule, older, n) \cap Kept
      PROVE  \E p \in Near(rule, stamped, i) : Nth(Kept, p) = j
  <2>1. PICK p \in DOMAIN stamped : Nth(Kept, p) = j /\ stamped[p] = older[j]
    BY <1>2, <1>3
  <2>2. /\ j \in 1..n /\ GroupKey(rule, stamped[p]) = GroupKey(rule, stamped[i])
        /\ stamped[i].ts - stamped[p].ts <= Seconds[rule]
    BY <1>4, <2>1 DEF Near
  <2>3. ~(i < p)
    BY <1>2, <1>4, <2>1, <2>2
  <2>4. p \in 1..i
    BY <1>2, <2>3
  <2> QED BY <2>1, <2>2, <2>4 DEF Near
<1>7. {Nth(Kept, p) : p \in Near(rule, stamped, i)} = Near(rule, older, n) \cap Kept
  <2> HIDE DEF n
  <2> QED BY <1>5, <1>6
<1> QED BY <1>4, <1>7

(* Where the rule has evidence, the older detector's window, which is no   *)
(* smaller, meets its condition.                                           *)
LEMMA EvidenceMeets ==
    ASSUME Types, OlderTypes, stamped = AtIndices(older, Kept), rule \in LegacyRules,
           NEW i \in DOMAIN stamped, EvidenceAt(i) # <<>>
    PROVE  Meets(FullWindow(Nth(Kept, i)))
<1> DEFINE n == Nth(Kept, i)
           N == Near(rule, stamped, i)
           I == Latest(N, MaxWindowEvents)
           H == {Nth(Kept, p) : p \in I}
           M == Near(rule, older, n)
           w == AtIndices(stamped, I)
           v == FullWindow(n)
<1>1. /\ rule \in Rules /\ stamped \in Seq(Event) /\ older \in Seq(Event)
      /\ Kept \in SUBSET DOMAIN older /\ n \in DOMAIN older
      /\ DOMAIN older = 1..Len(older) /\ Len(older) \in Nat
  BY KeptWindow DEF Types, OlderTypes, Kept
<1>2. I \in SUBSET N /\ I \in SUBSET DOMAIN stamped /\ M \in SUBSET DOMAIN older
  BY <1>1 DEF Latest, Near, Types
<1>3. H \in SUBSET M /\ H \in SUBSET DOMAIN older
  <2>1. {Nth(Kept, p) : p \in N} = M \cap Kept
    BY KeptWindow
  <2> HIDE DEF I, N, M
  <2> QED BY <1>2, <2>1
<1>4. w = AtIndices(older, H)
  <2> HIDE DEF I
  <2> QED BY <1>1, <1>2, SelectionOfSelection
<1>5. EvidenceAt(i) = Evidence(rule, w)
  BY WindowIndices DEF EvidenceAt
<1>v. v = AtIndices(older, M)
  BY DEF FullWindow
<1> HIDE DEF I, N, H, M, w, v, n
<1>6. /\ w \in Seq(Event) /\ Len(w) = Cardinality(H) /\ Len(w) \in Nat /\ DOMAIN w = 1..Cardinality(H)
      /\ v \in Seq(Event) /\ Len(v) = Cardinality(M) /\ Len(v) \in Nat /\ DOMAIN v = 1..Cardinality(M)
      /\ Cardinality(H) <= Cardinality(M)
  <2>1. IsFiniteSet(M)
    BY <1>1, <1>2, Indices
  <2>2. Cardinality(H) <= Cardinality(M)
    BY <1>3, <2>1, FS_Subset
  <2>3. /\ w \in Seq(Event) /\ Len(w) = Cardinality(H)
        /\ v \in Seq(Event) /\ Len(v) = Cardinality(M)
    BY <1>1, <1>2, <1>3, <1>4, <1>v, SubsequenceAtIndices
  <2> QED BY <2>2, <2>3
<1>7. CASE rule = "brute_force"
  <2>1. Evidence(rule, w) = IF Len(w) >= Threshold[rule] THEN w ELSE <<>>
    <3>1. rule \in CountRules /\ rule # "credential_stuffing"
      BY <1>7 DEF CountRules
    <3> QED BY <3>1, Zenon DEF Evidence
  <2>2. Len(w) >= Threshold[rule]
    BY <1>5, <2>1, Zenon
  <2>3. Threshold[rule] \in Nat
    BY <1>1, RuleConstants
  <2>4. Len(v) >= Threshold[rule]
    BY <1>6, <2>2, <2>3
  <2> QED BY <1>7, <2>4, Zenon DEF Meets, v, n
<1>8. CASE rule = "credential_stuffing"
  <2>1. Len(EvidenceAt(i)) = IF \A f \in RequiredFamilies : Shows(w, f) THEN 3 ELSE 0
    BY <1>5, <1>6, <1>8, FamilyEvidence
  <2>2. \A f \in RequiredFamilies : Shows(w, f)
    <3>1. Len(EvidenceAt(i)) # 0
      BY EvidenceAtType
    <3> QED BY <2>1, <3>1
  <2>3. \A f : Shows(w, f) => Shows(v, f)
    <3> SUFFICES ASSUME NEW f, NEW q \in DOMAIN w, SourceFamily(w[q]) = f
                 PROVE  Shows(v, f)
      BY DEF Shows
    <3>1. Nth(H, q) \in H /\ w[q] = older[Nth(H, q)]
      BY <1>1, <1>3, <1>4, <1>6, SubsequenceAtIndices
    <3>2. Rank(M, Nth(H, q)) \in DOMAIN v /\ v[Rank(M, Nth(H, q))] = w[q]
      BY <1>1, <1>2, <1>3, <1>6, <1>v, <3>1, SubsequenceAtIndices
    <3> QED BY <3>2 DEF Shows
  <2>4. Meets(v) <=> RequiredFamilies \subseteq {SourceFamily(v[j]) : j \in DOMAIN v}
    BY <1>8 DEF Meets
  <2>5. Meets(v)
    BY <2>2, <2>3, <2>4, Zenon DEF Shows
  <2> QED BY <2>5 DEF v, n
<1> QED BY <1>7, <1>8 DEF LegacyRules

(* A window of the older detector that the rule looks at all of, and that  *)
(* fits under the cap, is the rule's own, and so is its evidence.          *)
LEMMA MeetsIsEvidence ==
    ASSUME Types, OlderTypes, stamped = AtIndices(older, Kept), rule \in LegacyRules,
           NEW n \in DOMAIN older, Meets(FullWindow(n)),
           \A k \in DOMAIN FullWindow(n) : Relevant(rule, FullWindow(n)[k]),
           Len(FullWindow(n)) <= MaxWindowEvents
    PROVE  \E i \in DOMAIN stamped :
              /\ GroupKey(rule, stamped[i]) = GroupKey(rule, older[n])
              /\ EvidenceAt(i) # <<>>
              /\ rule = "brute_force" => EvidenceAt(i) = FullWindow(n)
<1> DEFINE M == Near(rule, older, n)
           w == FullWindow(n)
           i == Rank(Kept, n)
           N == Near(rule, stamped, i)
<1>1. /\ rule \in Rules /\ stamped \in Seq(Event) /\ older \in Seq(Event)
      /\ Kept \in SUBSET DOMAIN older /\ M \in SUBSET DOMAIN older
      /\ DOMAIN older = 1..Len(older) /\ Len(older) \in Nat
      /\ DOMAIN stamped = 1..Len(stamped) /\ Len(stamped) \in Nat
  BY DEF Types, OlderTypes, Kept, Near
<1>2. n \in M
  <2>1. n \in 1..n /\ older[n].ts - older[n].ts <= Seconds[rule]
    BY <1>1, EventTimes, RuleConstants
  <2> QED BY <2>1 DEF Near
<1>3. w = AtIndices(older, M)
  BY DEF FullWindow
<1> HIDE DEF M, w
<1>4. /\ w \in Seq(Event) /\ Len(w) = Cardinality(M) /\ DOMAIN w = 1..Cardinality(M)
      /\ \A j \in M : Rank(M, j) \in DOMAIN w /\ w[Rank(M, j)] = older[j]
  <2>1. w \in Seq(Event) /\ Len(w) = Cardinality(M)
        /\ \A j \in M : Rank(M, j) \in 1..Cardinality(M) /\ w[Rank(M, j)] = older[j]
    BY <1>1, <1>3, SubsequenceAtIndices
  <2> QED BY <2>1
<1>5. M \in SUBSET Kept
  <2>1. \A j \in M : Relevant(rule, older[j])
    BY <1>4 DEF w
  <2> QED BY <1>1, <2>1 DEF Kept
<1>6. i \in DOMAIN stamped /\ Nth(Kept, i) = n
  BY <1>1, <1>2, <1>5, Selection, Indices, NthIndex
<1> HIDE DEF i
<1>7. N \in SUBSET DOMAIN stamped
  BY <1>1, <1>6 DEF Near
<1>8. {Nth(Kept, p) : p \in N} = M
  <2>1. {Nth(Kept, p) : p \in N} = M \cap Kept
    BY <1>6, KeptWindow DEF M
  <2> QED BY <1>5, <2>1
<1>k. GroupKey(rule, stamped[i]) = GroupKey(rule, older[n])
  BY <1>6, KeptWindow
<1> HIDE DEF N
<1>9. AtIndices(stamped, N) = w
  BY <1>1, <1>3, <1>7, <1>8, SelectionOfSelection
<1>10. Latest(N, MaxWindowEvents) = N
  <2>1. IsFiniteSet(N) /\ N \in SUBSET Nat /\ Cardinality(N) \in Nat /\ MaxWindowEvents \in Nat \ {0}
    BY <1>1, <1>7, Indices, FS_CardinalityType, RuleConstants
  <2>2. Cardinality(N) = Len(w)
    BY <1>1, <1>7, <1>9, SubsequenceAtIndices
  <2>3. Cardinality(N) <= MaxWindowEvents
    BY <2>2 DEF w
  <2> QED BY <2>1, <2>3, LatestByRank
<1>11. EvidenceAt(i) = Evidence(rule, w)
  BY <1>9, <1>10, WindowIndices DEF EvidenceAt, N
<1>12. w # <<>>
  <2>1. Rank(M, n) \in DOMAIN w
    BY <1>2, <1>4
  <2> QED BY <2>1
<1>m. Meets(w)
  BY DEF w
<1>13. CASE rule = "brute_force"
  <2>1. Evidence(rule, w) = IF Len(w) >= Threshold[rule] THEN w ELSE <<>>
    <3>1. rule \in CountRules /\ rule # "credential_stuffing"
      BY <1>13 DEF CountRules
    <3> QED BY <3>1, Zenon DEF Evidence
  <2>2. Len(w) >= Threshold[rule]
    BY <1>m, <1>13 DEF Meets
  <2>3. EvidenceAt(i) = w
    BY <1>11, <2>1, <2>2, Zenon
  <2> QED BY <1>6, <1>k, <1>12, <2>3 DEF w
<1>14. CASE rule = "credential_stuffing"
  <2>1. Len(EvidenceAt(i)) = IF \A f \in RequiredFamilies : Shows(w, f) THEN 3 ELSE 0
    BY <1>4, <1>11, <1>14, FamilyEvidence
  <2>2. \A f \in RequiredFamilies : Shows(w, f)
    <3>1. RequiredFamilies \subseteq {SourceFamily(w[j]) : j \in DOMAIN w}
      BY <1>m, <1>14 DEF Meets
    <3> QED BY <3>1, Zenon DEF Shows
  <2>3. EvidenceAt(i) # <<>>
    <3>1. Len(EvidenceAt(i)) = 3
      BY <2>1, <2>2, Zenon
    <3>2. EvidenceAt(i) = <<>> <=> Len(EvidenceAt(i)) = 0
      BY <1>6, EvidenceAtType
    <3> QED BY <3>1, <3>2
  <2>4. rule # "brute_force"
    BY <1>14
  <2> QED BY <1>6, <1>k, <2>3, <2>4
<1> QED BY <1>13, <1>14 DEF LegacyRules

LEMMA OlderAgree == IInv /\ OlderView => LegacyAgrees
<1> SUFFICES ASSUME IInv, OlderView, next > Len(stamped), rule \in LegacyRules,
                    NEW legacy, legacy = LegacyAlerts(older)
             PROVE  /\ \A i \in DOMAIN matched : \E j \in DOMAIN legacy : legacy[j].key = matched[i].key
                    /\ \A j \in DOMAIN legacy :
                          \/ \E n \in DOMAIN legacy[j].evidence : ~Relevant(rule, legacy[j].evidence[n])
                          \/ Len(legacy[j].evidence) > MaxWindowEvents
                          \/ /\ \E i \in DOMAIN matched : matched[i].key = legacy[j].key
                             /\ rule = "brute_force" =>
                                   Len(legacy[j].evidence) <= Len(MatchedFor(legacy[j].key))
  BY Zenon DEF LegacyAgrees
<1>1. /\ Types /\ stamped \in Seq(Event) /\ Len(stamped) \in Nat /\ DOMAIN stamped = 1..Len(stamped)
      /\ 1..(next - 1) = DOMAIN stamped
  <2>1. Types
    BY DEF IInv
  <2>2. stamped \in Seq(Event) /\ next \in 1..(Len(stamped) + 1)
    BY <2>1 DEF Types
  <2> QED BY <2>1, <2>2
<1>2. OlderTypes /\ stamped = AtIndices(older, Kept)
  BY DEF OlderView
<1>3. DOMAIN older = 1..Len(older) /\ Len(older) \in Nat
  BY <1>2 DEF OlderTypes
<1>4. PICK f : LegacyRun(f) /\ LegacyInv(f[Len(older)], Len(older))
  BY <1>2, LegacyHolds
<1>5. legacy = f[Len(older)].alerts
  BY <1>4 DEF LegacyRun
<1>6. /\ \A a \in DOMAIN legacy : \E n \in DOMAIN older :
            /\ legacy[a] = [key |-> GroupKey(rule, older[n]), evidence |-> FullWindow(n)]
            /\ Meets(FullWindow(n))
      /\ \A n \in DOMAIN older : Meets(FullWindow(n)) =>
            \E a \in DOMAIN legacy : legacy[a].key = GroupKey(rule, older[n])
  BY <1>3, <1>4, <1>5 DEF LegacyInv
<1>7. ASSUME NEW p \in DOMAIN matched
      PROVE  \E a \in DOMAIN legacy : legacy[a].key = matched[p].key
  <2>1. PICK i \in Ends(matched[p].key) : matched[p].evidence = EvidenceAt(i)
    BY DEF IInv, MatchedWidest
  <2>2. i \in DOMAIN stamped /\ GroupKey(rule, stamped[i]) = matched[p].key
    BY <1>1, <2>1 DEF Ends
  <2>3. EvidenceAt(i) # <<>>
    BY <1>1, <2>1, EntryTypes
  <2>4. Meets(FullWindow(Nth(Kept, i)))
    BY <1>1, <1>2, <2>2, <2>3, EvidenceMeets
  <2>5. Nth(Kept, i) \in DOMAIN older /\ older[Nth(Kept, i)] = stamped[i]
    BY <1>1, <1>2, <2>2, KeptWindow DEF Kept
  <2> QED BY <1>6, <2>2, <2>4, <2>5
<1>8. ASSUME NEW a \in DOMAIN legacy,
             \A n \in DOMAIN legacy[a].evidence : Relevant(rule, legacy[a].evidence[n]),
             ~(Len(legacy[a].evidence) > MaxWindowEvents)
      PROVE  /\ \E p \in DOMAIN matched : matched[p].key = legacy[a].key
             /\ rule = "brute_force" => Len(legacy[a].evidence) <= Len(MatchedFor(legacy[a].key))
  <2>1. PICK n \in DOMAIN older :
            /\ legacy[a].key = GroupKey(rule, older[n]) /\ legacy[a].evidence = FullWindow(n)
            /\ Meets(FullWindow(n))
    BY <1>6
  <2>2. Len(FullWindow(n)) <= MaxWindowEvents
    <3>1. Near(rule, older, n) \in SUBSET DOMAIN older /\ older \in Seq(Event)
      BY <1>2, <1>3 DEF Near, OlderTypes
    <3>2. FullWindow(n) \in Seq(Event)
      BY <3>1, SubsequenceAtIndices DEF FullWindow
    <3>3. Len(FullWindow(n)) \in Nat /\ MaxWindowEvents \in Nat
      BY <1>1, <3>2, RuleConstants DEF Types
    <3> QED BY <1>8, <2>1, <3>3
  <2>3. \A k \in DOMAIN FullWindow(n) : Relevant(rule, FullWindow(n)[k])
    BY <1>8, <2>1, Zenon
  <2>4. PICK i \in DOMAIN stamped :
            /\ GroupKey(rule, stamped[i]) = legacy[a].key
            /\ EvidenceAt(i) # <<>>
            /\ rule = "brute_force" => EvidenceAt(i) = legacy[a].evidence
    BY <1>1, <1>2, <2>1, <2>2, <2>3, MeetsIsEvidence
  <2>5. i \in Ends(legacy[a].key)
    BY <1>1, <2>4 DEF Ends
  <2>6. \E p \in DOMAIN matched : matched[p].key = legacy[a].key
    BY <1>1, <2>4 DEF IInv, MatchedComplete
  <2>7. Len(EvidenceAt(i)) <= Len(MatchedFor(legacy[a].key))
    BY <2>5, MatchedIsMost
  <2> QED BY <2>4, <2>6, <2>7
<1> QED BY <1>7, <1>8, Zenon

(* The older detectors of correlator.py (detect_brute_force and            *)
(* detect_credential_stuffing), which read failures of any action and of   *)
(* suppressed groups too and alert once per stretch of qualifying windows, *)
(* have an alert for every group qualifying_windows reports; and of what   *)
(* they alert on, it reports all that the rule looks at and the cap lets   *)
(* it see, brute force with no less evidence.                              *)
THEOREM DetectorsAgree == Spec => []LegacyAgrees
BY Invariance, OlderInvariance, OlderAgree, PTL
=============================================================================
