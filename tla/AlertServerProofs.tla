-------------------------- MODULE AlertServerProofs --------------------------
(***************************************************************************)
(* Proofs about AlertServer for every value of its constants.              *)
(***************************************************************************)
EXTENDS AlertServer, SubsequencesProofs

-----------------------------------------------------------------------------
(* The inductive invariant.                                                *)

Distinct(keys) == \A i, j \in DOMAIN keys : keys[i] = keys[j] => i = j

(* What the request t is about to publish is still what merging its        *)
(* findings into the present alerts gives, and it is what is on disk: the  *)
(* lock is held from the commit to the assignment.                         *)
InFlight(t) ==
    pc[t] = "publishing" =>
        /\ up
        /\ \A found : found = Correlate(candidates[t]) => pending[t] = Merged(found)
        /\ Durable => disk = pending[t].alerts

ServerTypes ==
    /\ stored \subseteq W!Item /\ sequence \in Nat
    /\ max_alerts \in MaxAlertsChoices
    /\ up \in BOOLEAN /\ covered \in BOOLEAN
    /\ pc \in [Threads -> {"idle", "correlated", "publishing"}]
    /\ candidates \in [Threads -> SUBSET Events]
    /\ DOMAIN pending = Threads
    /\ faults \in Nat
    /\ latest \in Threads

TableTypes ==
    /\ IsTable(alerts) /\ IsTable(disk)
    /\ order \in Seq(AlertIds)
    /\ IsFiniteSet(DOMAIN disk)
    /\ Len(order) <= max_alerts
    /\ Cardinality(DOMAIN disk) <= max_alerts
    /\ \A t \in Threads : pc[t] # "publishing" => pending[t] = NoDict

ServerInv ==
    /\ ServerTypes
    /\ TableTypes
    /\ OrderEnumeratesAlerts
    /\ MemoryMatchesDisk
    /\ \A t \in Threads : InFlight(t)
    /\ \A s, t \in Threads : pc[s] = "publishing" /\ pc[t] = "publishing" => s = t
    /\ ~Durable => disk = <<>>
    /\ ~up => alerts = <<>> /\ order = <<>> /\ \A t \in Threads : pc[t] = "idle"

-----------------------------------------------------------------------------
(* What merging the findings of one request gives.                         *)

Findings(found) ==
    /\ DOMAIN found = 1..Len(found) /\ Len(found) \in Nat
    /\ \A i \in DOMAIN found : found[i] \in Alert
    /\ \A i, j \in DOMAIN found : found[i].id = found[j].id => i = j

Reported(found) == {found[i].id : i \in DOMAIN found}

(* correlate() returns findings, whatever events it is given. *)
LEMMA CorrelateFinds ==
    ASSUME NEW S \in SUBSET Events
    PROVE  /\ Findings(Correlate(S))
           /\ S = {} => Correlate(S) = <<>>
BY ServerAssumption DEF Findings

(* A sequence without repetitions has as many keys as entries.             *)
LEMMA DistinctCount ==
    ASSUME NEW S, NEW keys \in Seq(S), Distinct(keys)
    PROVE  IsFiniteSet(KeySet(keys)) /\ Cardinality(KeySet(keys)) = Len(keys)
<1>1. Len(keys) \in Nat /\ DOMAIN keys = 1..Len(keys)
  OBVIOUS
<1>2. IsFiniteSet(1..Len(keys)) /\ Cardinality(1..Len(keys)) = Len(keys)
  <2>1. 1 \in Int /\ Len(keys) \in Int /\ (1 > Len(keys) => Len(keys) = 0)
    BY <1>1
  <2>2. /\ IsFiniteSet(1..Len(keys))
        /\ Cardinality(1..Len(keys)) = IF 1 > Len(keys) THEN 0 ELSE Len(keys) - 1 + 1
    BY <2>1, FS_Interval
  <2> QED BY <2>1, <2>2
<1>3. keys \in Surjection(1..Len(keys), KeySet(keys))
  BY <1>1 DEF Surjection, KeySet
<1>4. keys \in Injection(1..Len(keys), KeySet(keys))
  BY <1>1, <1>3 DEF Surjection, Injection, IsInjective, Distinct
<1> QED BY <1>2, <1>3, <1>4, FS_Surjection

(* The identities not yet in the dict, each once.                          *)
LEMMA NewIdsAreNew ==
    ASSUME NEW found, Findings(found)
    PROVE  /\ NewIds(found) \in Seq(AlertIds)
           /\ Distinct(NewIds(found))
           /\ KeySet(NewIds(found)) = Reported(found) \ DOMAIN alerts
<1> DEFINE ids == AllIds(found)
           new == {i \in DOMAIN found : found[i].id \notin DOMAIN alerts}
           c == Cardinality(new)
<1>1. ids \in Seq(AlertIds) /\ DOMAIN ids = DOMAIN found /\ \A i \in DOMAIN found : ids[i] = found[i].id
  BY DEF AllIds, Findings, Alert
<1>2. NewIds(found) = AtIndices(ids, new)
  BY DEF NewIds
<1>3. new \in SUBSET DOMAIN ids /\ new \in SUBSET Nat
  BY <1>1 DEF Findings
<1>4. /\ IsFiniteSet(new)
      /\ AtIndices(ids, new) \in Seq(AlertIds)
      /\ Len(AtIndices(ids, new)) = c
      /\ \A n \in 1..c : Nth(new, n) \in new /\ AtIndices(ids, new)[n] = ids[Nth(new, n)]
      /\ \A i \in new : Rank(new, i) \in 1..c /\ AtIndices(ids, new)[Rank(new, i)] = ids[i]
  <2> HIDE DEF ids, new
  <2> QED BY <1>1, <1>3, SubsequenceAtIndices
<1>5. \A m, n \in 1..c : m < n => Nth(new, m) < Nth(new, n)
  <2> HIDE DEF new
  <2> QED BY <1>3, <1>4, NthIndex
<1>6. DOMAIN NewIds(found) = 1..c /\ c \in Nat
  <2>1. c \in Nat
    <3> HIDE DEF new
    <3> QED BY <1>4, FS_CardinalityType
  <2> HIDE DEF ids, new, c
  <2> QED BY <1>2, <1>4, <2>1
<1>7. ASSUME NEW m \in 1..c, NEW n \in 1..c, NewIds(found)[m] = NewIds(found)[n], m < n
      PROVE  FALSE
  <2>1. found[Nth(new, m)].id = found[Nth(new, n)].id /\ Nth(new, m) \in new /\ Nth(new, n) \in new
    BY <1>1, <1>2, <1>4, <1>7
  <2>2. Nth(new, m) = Nth(new, n)
    BY <2>1 DEF Findings
  <2>3. Nth(new, m) < Nth(new, n) /\ Nth(new, m) \in Nat
    BY <1>3, <1>5, <1>7, <2>1
  <2> QED BY <2>2, <2>3
<1>8. Distinct(NewIds(found))
  <2> HIDE DEF c
  <2> QED BY <1>6, <1>7 DEF Distinct
<1>9. KeySet(NewIds(found)) = Reported(found) \ DOMAIN alerts
  <2>1. ASSUME NEW n \in 1..c
        PROVE  NewIds(found)[n] \in Reported(found) \ DOMAIN alerts
    BY <1>1, <1>2, <1>4 DEF Reported
  <2>2. ASSUME NEW x \in Reported(found) \ DOMAIN alerts
        PROVE  x \in KeySet(NewIds(found))
    <3>1. PICK i \in new : found[i].id = x
      BY DEF Reported
    <3>2. Rank(new, i) \in DOMAIN NewIds(found) /\ NewIds(found)[Rank(new, i)] = x
      BY <1>1, <1>2, <1>4, <1>6, <3>1
    <3> QED BY <3>2 DEF KeySet
  <2> HIDE DEF c
  <2> QED BY <1>6, <2>1, <2>2 DEF KeySet
<1> QED BY <1>2, <1>4, <1>8, <1>9

(* The dict's keys followed by the new ones.                               *)
LEMMA KeysInOrder ==
    ASSUME NEW found, Findings(found), order \in Seq(AlertIds), OrderEnumeratesAlerts
    PROVE  /\ order \o NewIds(found) \in Seq(AlertIds)
           /\ Distinct(order \o NewIds(found))
           /\ KeySet(order \o NewIds(found)) = DOMAIN alerts \cup Reported(found)
<1> DEFINE new == NewIds(found)
           all == order \o new
<1>1. /\ new \in Seq(AlertIds) /\ Distinct(new)
      /\ KeySet(new) = Reported(found) \ DOMAIN alerts
  BY NewIdsAreNew
<1>2. /\ all \in Seq(AlertIds)
      /\ Len(all) = Len(order) + Len(new)
      /\ \A i \in 1..Len(order) : all[i] = order[i]
      /\ \A i \in 1..Len(new) : all[Len(order) + i] = new[i]
      /\ Len(order) \in Nat /\ Len(new) \in Nat
  <2> HIDE DEF new
  <2> QED BY <1>1
<1>3. KeySet(order) = DOMAIN alerts /\ Distinct(order)
  BY DEF OrderEnumeratesAlerts, Distinct
<1> HIDE DEF new, all
<1>4. \A i \in DOMAIN all : \/ i \in 1..Len(order) /\ all[i] = order[i]
                           \/ \E j \in 1..Len(new) : i = Len(order) + j /\ all[i] = new[j]
  <2> SUFFICES ASSUME NEW i \in DOMAIN all
               PROVE  \/ i \in 1..Len(order) /\ all[i] = order[i]
                      \/ \E j \in 1..Len(new) : i = Len(order) + j /\ all[i] = new[j]
    OBVIOUS
  <2>1. i \in 1..(Len(order) + Len(new))
    BY <1>2
  <2>2. CASE i <= Len(order)
    BY <1>2, <2>1, <2>2
  <2>3. CASE ~(i <= Len(order))
    <3>1. i - Len(order) \in 1..Len(new) /\ i = Len(order) + (i - Len(order))
      BY <1>2, <2>1, <2>3
    <3> QED BY <1>2, <3>1
  <2> QED BY <2>2, <2>3
<1>5. Distinct(all)
  <2> SUFFICES ASSUME NEW i \in DOMAIN all, NEW j \in DOMAIN all, all[i] = all[j]
               PROVE  i = j
    BY DEF Distinct
  <2>1. \A m \in 1..Len(order) : order[m] \in DOMAIN alerts
    BY <1>3 DEF KeySet
  <2>2. \A m \in 1..Len(new) : new[m] \notin DOMAIN alerts
    BY <1>1 DEF KeySet
  <2> QED BY <1>1, <1>3, <1>4, <2>1, <2>2, SMTT(30) DEF Distinct
<1>6. KeySet(all) = DOMAIN alerts \cup Reported(found)
  <2>1. KeySet(all) \subseteq KeySet(order) \cup KeySet(new)
    BY <1>1, <1>2, <1>4 DEF KeySet
  <2>2. KeySet(order) \subseteq KeySet(all)
    <3>1. \A i \in DOMAIN order : i \in DOMAIN all /\ all[i] = order[i]
      BY <1>2
    <3> QED BY <3>1 DEF KeySet
  <2>3. KeySet(new) \subseteq KeySet(all)
    <3>1. \A i \in DOMAIN new : Len(order) + i \in DOMAIN all /\ all[Len(order) + i] = new[i]
      BY <1>1, <1>2
    <3> QED BY <3>1 DEF KeySet
  <2> QED BY <1>1, <1>3, <2>1, <2>2, <2>3
<1> QED BY <1>2, <1>5, <1>6 DEF all, new

(* Newest keeps at most max_alerts keys, gives none up while there is      *)
(* room, and exactly fills the capacity when it does.                      *)
LEMMA NewestFits ==
    ASSUME NEW keys \in Seq(AlertIds), Distinct(keys), max_alerts \in Nat \ {0}
    PROVE  /\ Newest(keys) \in Seq(AlertIds)
           /\ Distinct(Newest(keys))
           /\ KeySet(Newest(keys)) \subseteq KeySet(keys)
           /\ Len(Newest(keys)) <= max_alerts
           /\ Newest(keys) = keys \/ Len(Newest(keys)) = max_alerts
           /\ Len(keys) <= max_alerts => Newest(keys) = keys
<1>1. Len(keys) \in Nat /\ DOMAIN keys = 1..Len(keys)
  OBVIOUS
<1>2. CASE ~(Len(keys) > max_alerts)
  BY <1>1, <1>2 DEF Newest
<1>3. CASE Len(keys) > max_alerts
  <2> DEFINE cut == Len(keys) - max_alerts
             kept == SubSeq(keys, cut + 1, Len(keys))
  <2>1. cut \in Nat /\ cut + max_alerts = Len(keys) /\ Newest(keys) = kept
    BY <1>1, <1>3 DEF Newest
  <2>2. /\ kept \in Seq(AlertIds)
        /\ Len(kept) = max_alerts
        /\ \A i \in 1..max_alerts : kept[i] = keys[cut + i] /\ cut + i \in DOMAIN keys
    <3> HIDE DEF cut
    <3> QED BY <1>1, <2>1
  <2> HIDE DEF kept
  <2>3. DOMAIN kept = 1..max_alerts
    BY <2>2
  <2>4. Distinct(kept)
    <3> SUFFICES ASSUME NEW i \in 1..max_alerts, NEW j \in 1..max_alerts, kept[i] = kept[j]
                 PROVE  i = j
      BY <2>3 DEF Distinct
    <3> HIDE DEF cut
    <3>1. cut + i \in DOMAIN keys /\ cut + j \in DOMAIN keys /\ keys[cut + i] = keys[cut + j]
      BY <2>2
    <3>2. cut + i = cut + j
      BY <3>1 DEF Distinct
    <3> QED BY <2>1, <3>2
  <2>5. KeySet(kept) \subseteq KeySet(keys)
    BY <2>2, <2>3 DEF KeySet
  <2> QED BY <1>1, <1>3, <2>1, <2>2, <2>4, <2>5
<1> QED BY <1>2, <1>3

(* Merging never loses evidence, drops alerts only from a full table, and  *)
(* leaves the dict and its key order in step.  While everything fits, all  *)
(* that was found is in it.                                                *)
LEMMA MergeKeepsEvidence ==
    ASSUME NEW found, Findings(found),
           IsTable(alerts), order \in Seq(AlertIds), OrderEnumeratesAlerts,
           max_alerts \in Nat \ {0}
    PROVE  LET m == Merged(found)
           IN  /\ IsTable(m.alerts)
               /\ m.order \in Seq(AlertIds) /\ Distinct(m.order)
               /\ KeySet(m.order) = DOMAIN m.alerts
               /\ Len(m.order) <= max_alerts
               /\ IsFiniteSet(DOMAIN m.alerts)
               /\ Cardinality(DOMAIN m.alerts) = Len(m.order)
               /\ \A x \in DOMAIN alerts \cap DOMAIN m.alerts :
                      m.alerts[x] = alerts[x] \/ m.alerts[x].count > alerts[x].count
               /\ \/ DOMAIN m.alerts = DOMAIN alerts \cup Reported(found)
                  \/ Len(m.order) = max_alerts
               /\ \A i \in DOMAIN found :
                      found[i].id \in DOMAIN m.alerts
                          => m.alerts[found[i].id].count >= found[i].count
<1> DEFINE all == order \o NewIds(found)
           keys == Newest(all)
           both == Overlay(alerts, Changed(found))
           next == Only(both, KeySet(keys))
<1>1. Merged(found).alerts = next /\ Merged(found).order = keys
  BY DEF Merged
<1>2. all \in Seq(AlertIds) /\ Distinct(all) /\ KeySet(all) = DOMAIN alerts \cup Reported(found)
  BY KeysInOrder
<1>3. /\ keys \in Seq(AlertIds) /\ Distinct(keys)
      /\ KeySet(keys) \subseteq KeySet(all)
      /\ Len(keys) <= max_alerts
      /\ keys = all \/ Len(keys) = max_alerts
  <2> HIDE DEF all
  <2> QED BY <1>2, NewestFits
<1>4. IsFiniteSet(KeySet(keys)) /\ Cardinality(KeySet(keys)) = Len(keys)
  <2> HIDE DEF keys
  <2> QED BY <1>3, DistinctCount
<1>5. \A a \in Changed(found) : a \in Alert /\ a.id \in Reported(found) /\ Wins(a)
  BY DEF Changed, Findings, Reported
<1>6. DOMAIN both = DOMAIN alerts \cup Reported(found)
  <2>1. \A x \in Reported(found) \ DOMAIN alerts : \E a \in Changed(found) : a.id = x
    BY DEF Reported, Changed, Wins
  <2> QED BY <1>5, <2>1 DEF Overlay
<1>7. DOMAIN next = KeySet(keys)
  <2> HIDE DEF all, keys, both
  <2> QED BY <1>2, <1>3, <1>6 DEF Only
<1>8. \A x \in DOMAIN next : next[x] = both[x] /\ x \in DOMAIN both
  <2> HIDE DEF keys, both
  <2> QED BY DEF Only
<1>9. ASSUME NEW x \in DOMAIN both
      PROVE  /\ both[x] \in Alert /\ both[x].id = x
             /\ \/ both[x] \in Changed(found)
                \/ /\ x \in DOMAIN alerts /\ both[x] = alerts[x]
                   /\ \A a \in Changed(found) : a.id # x
  <2>1. CASE \E a \in Changed(found) : a.id = x
    <3>1. both[x] = CHOOSE a \in Changed(found) : a.id = x
      BY <2>1 DEF Overlay
    <3>2. both[x] \in Changed(found) /\ both[x].id = x
      <4> HIDE DEF both
      <4> QED BY <2>1, <3>1
    <3> QED BY <1>5, <3>2
  <2>2. CASE ~\E a \in Changed(found) : a.id = x
    <3>1. x \in DOMAIN alerts /\ both[x] = alerts[x]
      BY <2>2 DEF Overlay
    <3>2. alerts[x] \in Alert /\ alerts[x].id = x
      BY <3>1 DEF IsTable
    <3> HIDE DEF both
    <3> QED BY <2>2, <3>1, <3>2
  <2> QED BY <2>1, <2>2
<1>10. IsTable(next)
  <2>1. next = [x \in DOMAIN next |-> next[x]]
    BY DEF Only
  <2>2. KeySet(keys) \subseteq AlertIds
    <3> HIDE DEF keys
    <3> QED BY <1>3 DEF KeySet
  <2> HIDE DEF next, keys, both
  <2> QED BY <1>7, <1>8, <1>9, <2>1, <2>2 DEF IsTable
<1>11. ASSUME NEW x \in DOMAIN alerts \cap DOMAIN next
       PROVE  next[x] = alerts[x] \/ next[x].count > alerts[x].count
  <2> HIDE DEF next, keys, both
  <2> QED BY <1>5, <1>8, <1>9, <1>11 DEF Wins
<1>12. ASSUME NEW i \in DOMAIN found, found[i].id \in DOMAIN next
       PROVE  next[found[i].id].count >= found[i].count
  <2> DEFINE x == found[i].id
  <2>1. found[i] \in Alert /\ found[i].count \in Nat
    BY DEF Findings, Alert
  <2>2. next[x] = both[x] /\ x \in DOMAIN both
    BY <1>8, <1>12
  <2> HIDE DEF next, keys, both
  <2>3. CASE both[x] \in Changed(found)
    <3>1. PICK j \in DOMAIN found : both[x] = found[j]
      BY <2>3 DEF Changed
    <3>2. found[j].id = found[i].id
      BY <1>9, <2>2, <3>1
    <3>3. j = i
      BY <3>1, <3>2 DEF Findings
    <3> QED BY <2>1, <2>2, <3>1, <3>3
  <2>4. CASE both[x] \notin Changed(found)
    <3>1. x \in DOMAIN alerts /\ both[x] = alerts[x] /\ found[i] \notin Changed(found)
      BY <1>9, <2>2, <2>4
    <3>2. ~(found[i].count > alerts[x].count)
      BY <3>1 DEF Changed, Wins
    <3>3. alerts[x].count \in Nat
      BY <3>1 DEF IsTable, Alert
    <3> QED BY <2>1, <2>2, <3>1, <3>2, <3>3
  <2> QED BY <2>3, <2>4
<1>13. DOMAIN next = DOMAIN alerts \cup Reported(found) \/ Len(keys) = max_alerts
  <2> HIDE DEF next, keys, all, both
  <2> QED BY <1>2, <1>3, <1>7
<1> HIDE DEF next, keys, all, both
<1> QED BY <1>1, <1>3, <1>4, <1>7, <1>10, <1>11, <1>12, <1>13

(* Pruning to a capacity the table does not exceed removes nothing.        *)
LEMMA PruneNothing ==
    ASSUME NEW table, IsTable(table), IsFiniteSet(DOMAIN table),
           NEW n \in Nat, Cardinality(DOMAIN table) <= n
    PROVE  PrunedRows(table, n) = table
<1> DEFINE after(x) == {y \in DOMAIN table : RowAfter(table, y, x)}
<1>1. ASSUME NEW x \in DOMAIN table
      PROVE  Cardinality(after(x)) < n
  <2>1. after(x) \in SUBSET (DOMAIN table \ {x})
    <3>1. table[x].last \in Nat /\ x \in Nat
      BY ServerAssumption DEF IsTable, Alert
    <3>2. ~RowAfter(table, x, x)
      BY <3>1 DEF RowAfter
    <3> QED BY <3>2
  <2>2. /\ IsFiniteSet(DOMAIN table \ {x})
        /\ Cardinality(DOMAIN table \ {x}) = Cardinality(DOMAIN table) - 1
    BY FS_RemoveElement
  <2>3. Cardinality(after(x)) <= Cardinality(DOMAIN table) - 1 /\ Cardinality(after(x)) \in Nat
    <3> HIDE DEF after
    <3> QED BY <2>1, <2>2, FS_Subset, FS_CardinalityType
  <2>4. Cardinality(DOMAIN table) \in Nat
    BY FS_CardinalityType
  <2> HIDE DEF after
  <2> QED BY <2>3, <2>4
<1>2. {x \in DOMAIN table : Cardinality(after(x)) < n} = DOMAIN table
  BY <1>1
<1>3. PrunedRows(table, n) = [x \in DOMAIN table |-> table[x]]
  BY <1>2 DEF PrunedRows, Only
<1> QED BY <1>3 DEF IsTable

(* What the transaction leaves on disk is what the dict will hold.         *)
LEMMA AppliedIsMerged ==
    ASSUME NEW found, Findings(found),
           IsTable(alerts), order \in Seq(AlertIds), OrderEnumeratesAlerts,
           max_alerts \in Nat \ {0}, disk = alerts
    PROVE  Applied(found) = Merged(found).alerts
<1> DEFINE m == Merged(found)
           all == KeySet(order \o NewIds(found))
           both == Overlay(alerts, Changed(found))
<1>1. /\ IsTable(m.alerts) /\ IsFiniteSet(DOMAIN m.alerts)
      /\ KeySet(m.order) = DOMAIN m.alerts
      /\ Cardinality(DOMAIN m.alerts) <= max_alerts
  BY MergeKeepsEvidence
<1>2. m.alerts = Only(both, KeySet(m.order))
  BY DEF Merged
<1>3. DOMAIN both \subseteq all
  <2>1. all = DOMAIN alerts \cup Reported(found)
    BY KeysInOrder
  <2> HIDE DEF all
  <2> QED BY <2>1 DEF Overlay, Changed, Reported
<1>4. DOMAIN both \ Evicted(found) = DOMAIN both \cap KeySet(m.order)
  <2>1. Evicted(found) = all \ KeySet(m.order)
    BY DEF Evicted
  <2> HIDE DEF all, m, both
  <2> QED BY <1>3, <2>1
<1>5. Only(both, DOMAIN both \ Evicted(found)) = m.alerts
  <2> HIDE DEF both, m, all
  <2>1. DOMAIN both \cap (DOMAIN both \ Evicted(found)) = DOMAIN both \cap KeySet(m.order)
    BY <1>4
  <2> QED BY <1>2, <2>1 DEF Only
<1>6. Applied(found) = PrunedRows(Only(both, DOMAIN both \ Evicted(found)), max_alerts)
  BY DEF Applied
<1> HIDE DEF both, m, all
<1>7. PrunedRows(m.alerts, max_alerts) = m.alerts
  BY <1>1, PruneNothing
<1> QED BY <1>5, <1>6, <1>7 DEF m

(* A restart prunes to exactly the capacity when there are more rows than  *)
(* that: counting the rows after a row numbers them all, without a gap.    *)
LEMMA PruneToCapacity ==
    ASSUME NEW table, IsTable(table), IsFiniteSet(DOMAIN table), NEW n \in Nat
    PROVE  LET kept == DOMAIN PrunedRows(table, n)
           IN  /\ kept \subseteq DOMAIN table
               /\ \A x \in kept : PrunedRows(table, n)[x] = table[x]
               /\ PrunedRows(table, n) = [x \in kept |-> PrunedRows(table, n)[x]]
               /\ IsFiniteSet(kept)
               /\ Cardinality(kept) = IF Cardinality(DOMAIN table) <= n
                                      THEN Cardinality(DOMAIN table) ELSE n
<1> DEFINE rows == DOMAIN table
           after(x) == {y \in rows : RowAfter(table, y, x)}
           c == Cardinality(rows)
           rank == [x \in rows |-> Cardinality(after(x))]
           kept == {x \in rows : Cardinality(after(x)) < n}
<1>1. c \in Nat
  BY FS_CardinalityType
<1>2. \A x \in rows : table[x].last \in Nat /\ x \in Nat
  BY ServerAssumption DEF IsTable, Alert
<1>3. /\ \A x \in rows : ~RowAfter(table, x, x)
      /\ \A x, y \in rows : x = y \/ RowAfter(table, x, y) \/ RowAfter(table, y, x)
      /\ \A x, y, z \in rows : RowAfter(table, x, y) /\ RowAfter(table, y, z) => RowAfter(table, x, z)
  <2> HIDE DEF rows
  <2> QED BY <1>2 DEF RowAfter
<1>4. \A x \in rows : /\ IsFiniteSet(after(x))
                      /\ Cardinality(after(x)) \in 0..(c - 1)
  <2> SUFFICES ASSUME NEW x \in rows
               PROVE  IsFiniteSet(after(x)) /\ Cardinality(after(x)) \in 0..(c - 1)
    OBVIOUS
  <2>1. after(x) \in SUBSET (rows \ {x})
    BY <1>3
  <2>2. IsFiniteSet(rows \ {x}) /\ Cardinality(rows \ {x}) = c - 1
    BY FS_RemoveElement
  <2>3. /\ IsFiniteSet(after(x))
        /\ Cardinality(after(x)) \in Nat
        /\ Cardinality(after(x)) <= c - 1
    <3> HIDE DEF after, rows, c
    <3> QED BY <2>1, <2>2, FS_Subset, FS_CardinalityType
  <2> HIDE DEF after, rows, c
  <2> QED BY <1>1, <2>3
<1>5. ASSUME NEW x \in rows, NEW y \in rows, RowAfter(table, x, y)
      PROVE  Cardinality(after(x)) < Cardinality(after(y))
  <2>1. after(x) \in SUBSET after(y) /\ x \in after(y) /\ x \notin after(x)
    BY <1>3, <1>5
  <2>2. Cardinality(after(x)) <= Cardinality(after(y)) /\ Cardinality(after(x)) # Cardinality(after(y))
    <3> HIDE DEF after
    <3> QED BY <1>4, <2>1, FS_Subset
  <2>3. Cardinality(after(x)) \in Int /\ Cardinality(after(y)) \in Int
    <3> HIDE DEF after, rows, c
    <3> QED BY <1>4
  <2> HIDE DEF after
  <2> QED BY <2>2, <2>3
<1>6. rank \in Injection(rows, 0..(c - 1))
  <2>1. rank \in [rows -> 0..(c - 1)]
    BY <1>4
  <2>2. ASSUME NEW x \in rows, NEW y \in rows, Cardinality(after(x)) = Cardinality(after(y)), x # y
        PROVE  FALSE
    <3> HIDE DEF after, c, rows
    <3> QED BY <1>3, <1>4, <1>5, <2>2
  <2>3. \A x, y \in rows : rank[x] = rank[y] => x = y
    BY <2>2
  <2> HIDE DEF rank, rows, c
  <2> QED BY <2>1, <2>3 DEF Injection, IsInjective
<1>7. IsFiniteSet(0..(c - 1)) /\ Cardinality(0..(c - 1)) = c
  <2> HIDE DEF c
  <2>1. 0 \in Int /\ c - 1 \in Int /\ (0 > c - 1 => c = 0)
    BY <1>1
  <2>2. /\ IsFiniteSet(0..(c - 1))
        /\ Cardinality(0..(c - 1)) = IF 0 > c - 1 THEN 0 ELSE (c - 1) - 0 + 1
    BY <2>1, FS_Interval
  <2> QED BY <1>1, <2>1, <2>2
<1>8. rank \in Surjection(rows, 0..(c - 1))
  <2>1. Cardinality(rows) = Cardinality(0..(c - 1))
    BY <1>7
  <2> HIDE DEF rank, rows, c
  <2> QED BY <1>6, <1>7, <2>1, FS_Injection
<1>9. PrunedRows(table, n) = [x \in kept |-> table[x]]
  <2>1. rows \cap kept = kept
    OBVIOUS
  <2>2. PrunedRows(table, n) = Only(table, kept)
    BY DEF PrunedRows
  <2> HIDE DEF kept
  <2> QED BY <2>1, <2>2 DEF Only
<1>10. IsFiniteSet(kept)
  <2>1. kept \in SUBSET rows
    OBVIOUS
  <2> HIDE DEF kept
  <2> QED BY <2>1, FS_Subset
<1>11. Cardinality(kept) = IF c <= n THEN c ELSE n
  <2> DEFINE top == 0..((IF c <= n THEN c ELSE n) - 1)
             part == [x \in kept |-> rank[x]]
  <2>1. /\ IsFiniteSet(top)
        /\ Cardinality(top) = IF c <= n THEN c ELSE n
    <3> DEFINE k == IF c <= n THEN c ELSE n
    <3> HIDE DEF c
    <3>1. k \in Nat
      BY <1>1
    <3> HIDE DEF k
    <3>2. 0 \in Int /\ k - 1 \in Int /\ (0 > k - 1 => k = 0)
      BY <3>1
    <3>3. /\ IsFiniteSet(0..(k - 1))
          /\ Cardinality(0..(k - 1)) = IF 0 > k - 1 THEN 0 ELSE (k - 1) - 0 + 1
      BY <3>2, FS_Interval
    <3>4. IsFiniteSet(0..(k - 1)) /\ Cardinality(0..(k - 1)) = k
      BY <3>1, <3>2, <3>3
    <3> QED BY <3>4 DEF k
  <2>2. \A x \in rows : rank[x] \in 0..(c - 1) /\ (x \in kept <=> rank[x] < n)
    BY <1>4
  <2>3. part \in Injection(kept, top)
    <3>1. \A x \in kept : x \in rows
      OBVIOUS
    <3>2. \A x, y \in rows : rank[x] = rank[y] => x = y
      <4> HIDE DEF rank
      <4> QED BY <1>6 DEF Injection, IsInjective
    <3> HIDE DEF kept, rows, c, rank
    <3>3. part \in [kept -> top]
      BY <1>1, <2>2, <3>1
    <3>4. \A x, y \in kept : part[x] = part[y] => x = y
      BY <3>1, <3>2
    <3> HIDE DEF part, top
    <3> QED BY <3>3, <3>4 DEF Injection, IsInjective
  <2>4. part \in Surjection(kept, top)
    <3>1. \A k \in 0..(c - 1) : \E x \in rows : rank[x] = k
      <4> HIDE DEF rank, rows, c
      <4> QED BY <1>8 DEF Surjection
    <3> HIDE DEF kept, rows, c, rank
    <3>2. \A k \in top : \E x \in kept : part[x] = k
      BY <1>1, <2>2, <3>1
    <3>3. part \in [kept -> top]
      <4> HIDE DEF part, top
      <4> QED BY <2>3 DEF Injection
    <3> HIDE DEF part, top
    <3> QED BY <3>2, <3>3 DEF Surjection
  <2> HIDE DEF kept, part, top
  <2>5. Cardinality(kept) = Cardinality(top)
    BY <1>10, <2>1, <2>3, <2>4, FS_Injection
  <2> QED BY <2>1, <2>5
<1> HIDE DEF kept, c
<1>12. DOMAIN PrunedRows(table, n) = kept /\ \A x \in kept : PrunedRows(table, n)[x] = table[x]
  BY <1>9
<1>13. kept \subseteq DOMAIN table
  BY DEF kept
<1> QED BY <1>9, <1>10, <1>11, <1>12, <1>13 DEF c

(* What load() hands to create_app lists every row once.                   *)
LEMMA LoadedOrder ==
    ASSUME NEW table, IsTable(table), IsFiniteSet(DOMAIN table),
           NEW keys \in NewestFirst(table)
    PROVE  /\ keys \in Seq(AlertIds)
           /\ Len(keys) = Cardinality(DOMAIN table)
           /\ Distinct(keys)
           /\ KeySet(keys) = DOMAIN table
<1> DEFINE rows == DOMAIN table
           c == Cardinality(rows)
<1>1. c \in Nat /\ rows \subseteq AlertIds
  BY FS_CardinalityType DEF IsTable
<1>2. keys \in [1..c -> rows] /\ \A i, j \in 1..c : i < j => keys[i] # keys[j]
  BY DEF NewestFirst
<1> HIDE DEF c, rows
<1>3. keys \in Seq(AlertIds) /\ Len(keys) = c /\ DOMAIN keys = 1..c
  BY <1>1, <1>2
<1>4. \A i, j \in 1..c : keys[i] = keys[j] => i = j
  <2> SUFFICES ASSUME NEW i \in 1..c, NEW j \in 1..c, keys[i] = keys[j], i # j
               PROVE  FALSE
    OBVIOUS
  <2>1. i < j \/ j < i
    BY <1>1
  <2> QED BY <1>2, <2>1
<1>5. keys \in Injection(1..c, rows)
  BY <1>2, <1>4 DEF Injection, IsInjective
<1>6. IsFiniteSet(1..c) /\ Cardinality(1..c) = c
  <2>1. 1 \in Int /\ c \in Int /\ (1 > c => c = 0)
    BY <1>1
  <2>2. /\ IsFiniteSet(1..c)
        /\ Cardinality(1..c) = IF 1 > c THEN 0 ELSE c - 1 + 1
    BY <2>1, FS_Interval
  <2> QED BY <1>1, <2>1, <2>2
<1>7. keys \in Surjection(1..c, rows)
  <2>1. IsFiniteSet(rows) /\ Cardinality(1..c) = Cardinality(rows)
    BY <1>6 DEF c, rows
  <2> QED BY <1>5, <2>1, FS_Injection
<1>8. KeySet(keys) = rows
  BY <1>2, <1>3, <1>7 DEF KeySet, Surjection
<1> QED BY <1>3, <1>4, <1>8 DEF Distinct, c, rows

-----------------------------------------------------------------------------
(* The inductive invariant is preserved.                                   *)

LEMMA EmptyTable == IsTable(<<>>) /\ IsFiniteSet(DOMAIN <<>>) /\ Cardinality(DOMAIN <<>>) = 0
<1>1. DOMAIN <<>> = {}
  OBVIOUS
<1>2. <<>> = [x \in DOMAIN <<>> |-> <<>>[x]]
  OBVIOUS
<1> QED BY <1>1, <1>2, FS_EmptySet DEF IsTable

(* The window's module counts with the same Cardinality.                   *)
LEMMA SameCardinality == \A S : W!Cardinality(S) = Cardinality(S)
BY DEF W!Cardinality, Cardinality, W!IsFiniteSet, IsFiniteSet

(* Appending keeps the window a set of numbered events.                    *)
LEMMA WindowTyped ==
    ASSUME stored \subseteq W!Item, sequence \in Nat,
           NEW batch \in Seq(Events), W!AppendBatch(Default, batch)
    PROVE  stored' \subseteq W!Item /\ sequence' \in Nat
<1> DEFINE cutoff == W!NewWatermark(Default, batch) - Horizon
           fresh == W!Fresh(Default, batch, cutoff)
           upto(i) == {j \in fresh : j <= i}
<1>1. DOMAIN batch = 1..Len(batch) /\ Len(batch) \in Nat
  OBVIOUS
<1>2. IsFiniteSet(fresh) /\ Cardinality(fresh) \in Nat /\ fresh \subseteq 1..Len(batch)
  <2>1. fresh \in SUBSET (1..Len(batch))
    BY <1>1 DEF W!Fresh
  <2>2. IsFiniteSet(1..Len(batch))
    BY <1>1, FS_Interval
  <2> HIDE DEF fresh
  <2> QED BY <2>1, <2>2, FS_Subset, FS_CardinalityType
<1>3. \A i \in fresh : Cardinality(upto(i)) \in Nat \ {0}
  <2>1. \A i \in fresh : upto(i) \in SUBSET fresh /\ i \in upto(i)
    <3> HIDE DEF fresh
    <3> QED BY <1>1, <1>2
  <2> HIDE DEF fresh, upto
  <2> QED BY <1>2, <2>1, FS_Subset, FS_CardinalityType, FS_EmptySet
<1>4. W!Admitted(Default, batch, fresh) \subseteq W!Item
  <2>1. \A i \in fresh : W!NumberOf(fresh, i) \in Nat \ {0}
    <3> HIDE DEF fresh
    <3>1. \A i \in fresh : W!NumberOf(fresh, i) = sequence + Cardinality(upto(i))
      BY SameCardinality DEF W!NumberOf
    <3> HIDE DEF upto
    <3> QED BY <1>3, <3>1
  <2>2. \A i \in fresh : batch[i] \in Events
    <3> HIDE DEF fresh
    <3> QED BY <1>1, <1>2
  <2> HIDE DEF fresh
  <2> QED BY <2>1, <2>2 DEF W!Admitted, W!Item
<1>5. stored' \subseteq stored \cup W!Admitted(Default, batch, fresh)
  BY DEF W!AppendBatch
<1>6. sequence' = sequence + Cardinality(fresh)
  <2>1. sequence' = sequence + W!Cardinality(fresh)
    BY DEF W!AppendBatch
  <2> HIDE DEF fresh
  <2> QED BY <2>1, SameCardinality
<1> HIDE DEF fresh
<1> QED BY <1>2, <1>4, <1>5, <1>6

LEMMA SnapshotTyped ==
    ASSUME stored \subseteq W!Item
    PROVE  W!EventsOf(W!Snapshot(Default, MaxCorrelationEvents)) \subseteq Events
BY DEF W!EventsOf, W!Snapshot, W!Bucket, W!Item

(* The merge looks at the dict and the capacity only.                      *)
LEMMA MergeFrame ==
    ASSUME alerts' = alerts, order' = order, max_alerts' = max_alerts
    PROVE  \A found : Merged(found)' = Merged(found)
BY DEF Merged, Newest, NewIds, AllIds, Only, Overlay, Changed, Wins, KeySet

(* What the invariant says of a dict that is about to be published.        *)
LEMMA PublishedDict ==
    ASSUME ServerInv, NEW t \in Threads, pc[t] = "publishing"
    PROVE  LET found == Correlate(candidates[t])
           IN  /\ Findings(found)
               /\ pending[t] = Merged(found)
               /\ Durable => disk = Merged(found).alerts
<1>1. Findings(Correlate(candidates[t]))
  BY CorrelateFinds DEF ServerInv, ServerTypes
<1>2. pending[t] = Merged(Correlate(candidates[t])) /\ (Durable => disk = pending[t].alerts)
  BY DEF ServerInv, InFlight
<1> QED BY <1>1, <1>2

LEMMA Capacity == ASSUME ServerTypes PROVE max_alerts \in Nat \ {0}
BY ServerAssumption DEF ServerTypes

LEMMA InitInv == ASSUME Init PROVE ServerInv
<1> USE DEF Init
<1>1. ServerTypes
  BY DEF ServerTypes, W!Init
<1>2. TableTypes
  <2>1. max_alerts \in Nat \ {0}
    BY <1>1, Capacity
  <2> QED BY <2>1, EmptyTable DEF TableTypes
<1>3. OrderEnumeratesAlerts
  BY DEF OrderEnumeratesAlerts, KeySet
<1> QED BY <1>1, <1>2, <1>3 DEF ServerInv, MemoryMatchesDisk, InFlight

LEMMA IngestInv ==
    ASSUME ServerInv, NEW t \in Threads, NEW batch \in Batches, Ingest(t, batch)
    PROVE  ServerInv'
<1> USE DEF Ingest, memory
<1>1. batch \in Seq(Events)
  BY ServerAssumption
<1>2. stored' \subseteq W!Item /\ sequence' \in Nat
  BY <1>1, WindowTyped DEF ServerInv, ServerTypes
<1>3. W!EventsOf(W!Snapshot(Default, MaxCorrelationEvents)') \subseteq Events
  BY <1>2 DEF W!EventsOf, W!Snapshot, W!Bucket, W!Item
<1>4. ServerTypes'
  BY <1>2, <1>3 DEF ServerInv, ServerTypes
<1>5. TableTypes'
  BY DEF ServerInv, ServerTypes, TableTypes, IsTable
<1>6. OrderEnumeratesAlerts'
  BY DEF ServerInv, OrderEnumeratesAlerts, KeySet
<1>7. MemoryMatchesDisk'
  BY DEF ServerInv, ServerTypes, MemoryMatchesDisk, LockFree
<1>8. \A u \in Threads : pc'[u] # "publishing"
  BY DEF ServerInv, ServerTypes, LockFree
<1>9. \A u \in Threads : InFlight(u)'
  BY <1>8 DEF InFlight
<1> QED BY <1>4, <1>5, <1>6, <1>7, <1>8, <1>9 DEF ServerInv

LEMMA CommitInv ==
    ASSUME ServerInv, NEW t \in Threads, Commit(t)
    PROVE  ServerInv'
<1> USE DEF Commit, memory, window
<1> DEFINE found == Correlate(candidates[t])
<1>1. Findings(found) /\ max_alerts \in Nat \ {0}
  BY CorrelateFinds, Capacity DEF ServerInv, ServerTypes
<1>2. IsTable(alerts) /\ order \in Seq(AlertIds) /\ OrderEnumeratesAlerts
  BY DEF ServerInv, TableTypes
<1>3. /\ IsTable(Merged(found).alerts)
      /\ IsFiniteSet(DOMAIN Merged(found).alerts)
      /\ Cardinality(DOMAIN Merged(found).alerts) <= max_alerts
  <2> HIDE DEF found
  <2> QED BY <1>1, <1>2, MergeKeepsEvidence
<1>4. Durable => disk' = Merged(found).alerts
  <2> SUFFICES ASSUME Durable PROVE disk' = Merged(found).alerts
    OBVIOUS
  <2>1. disk = alerts /\ disk' = Applied(found)
    BY DEF ServerInv, MemoryMatchesDisk
  <2> HIDE DEF found
  <2> QED BY <1>1, <1>2, <2>1, AppliedIsMerged
<1>5. ~Durable => disk' = disk
  OBVIOUS
<1>6. ServerTypes'
  BY DEF ServerInv, ServerTypes
<1>7. TableTypes'
  <2>1. IsTable(disk') /\ IsFiniteSet(DOMAIN disk') /\ Cardinality(DOMAIN disk') <= max_alerts
    BY <1>3, <1>4, <1>5 DEF ServerInv, TableTypes, ServerTypes
  <2>2. \A u \in Threads : pc'[u] # "publishing" => pending'[u] = NoDict
    BY DEF ServerInv, ServerTypes, TableTypes
  <2> QED BY <2>1, <2>2 DEF ServerInv, TableTypes, IsTable
<1>8. OrderEnumeratesAlerts'
  BY DEF ServerInv, OrderEnumeratesAlerts, KeySet
<1>9. MemoryMatchesDisk'
  <2>1. pc'[t] = "publishing"
    BY DEF ServerInv, ServerTypes
  <2> QED BY <2>1 DEF MemoryMatchesDisk, LockFree
<1>10. \A u \in Threads : pc'[u] = "publishing" => u = t
  BY DEF ServerInv, ServerTypes, LockFree
<1>11. InFlight(t)'
  <2>1. pending'[t] = Merged(found) /\ candidates' = candidates /\ up'
    BY DEF ServerInv, ServerTypes
  <2>2. \A f : Merged(f)' = Merged(f)
    BY MergeFrame
  <2> QED BY <1>4, <2>1, <2>2 DEF InFlight
<1>12. \A u \in Threads : InFlight(u)'
  BY <1>10, <1>11 DEF InFlight
<1> QED BY <1>5, <1>6, <1>7, <1>8, <1>9, <1>10, <1>12 DEF ServerInv

LEMMA CommitFailsInv ==
    ASSUME ServerInv, NEW t \in Threads, CommitFails(t)
    PROVE  ServerInv'
<1> USE DEF CommitFails, memory, window
<1>1. ServerTypes'
  BY DEF ServerInv, ServerTypes
<1>2. TableTypes'
  BY DEF ServerInv, ServerTypes, TableTypes, IsTable, LockFree
<1>3. OrderEnumeratesAlerts'
  BY DEF ServerInv, OrderEnumeratesAlerts, KeySet
<1>4. MemoryMatchesDisk'
  BY DEF ServerInv, ServerTypes, MemoryMatchesDisk, LockFree
<1>5. \A u \in Threads : pc'[u] # "publishing"
  BY DEF ServerInv, ServerTypes, LockFree
<1>6. \A u \in Threads : InFlight(u)'
  BY <1>5 DEF InFlight
<1> QED BY <1>1, <1>2, <1>3, <1>4, <1>5, <1>6 DEF ServerInv

LEMMA PublishInv ==
    ASSUME ServerInv, NEW t \in Threads, Publish(t)
    PROVE  ServerInv'
<1> USE DEF Publish, window
<1> DEFINE m == Merged(Correlate(candidates[t]))
<1>1. pending[t] = m /\ (Durable => disk = m.alerts)
  BY PublishedDict
<1>2. /\ IsTable(m.alerts)
      /\ m.order \in Seq(AlertIds) /\ Distinct(m.order)
      /\ KeySet(m.order) = DOMAIN m.alerts
      /\ Len(m.order) <= max_alerts
  <2> DEFINE found == Correlate(candidates[t])
  <2>1. Findings(found) /\ max_alerts \in Nat \ {0}
    BY PublishedDict, Capacity DEF ServerInv
  <2>2. IsTable(alerts) /\ order \in Seq(AlertIds) /\ OrderEnumeratesAlerts
    BY DEF ServerInv, TableTypes
  <2> HIDE DEF found
  <2>3. /\ IsTable(Merged(found).alerts)
        /\ Merged(found).order \in Seq(AlertIds) /\ Distinct(Merged(found).order)
        /\ KeySet(Merged(found).order) = DOMAIN Merged(found).alerts
        /\ Len(Merged(found).order) <= max_alerts
    BY <2>1, <2>2, MergeKeepsEvidence
  <2> QED BY <2>3 DEF found
<1> HIDE DEF m
<1>3. alerts' = m.alerts /\ order' = m.order
  BY <1>1
<1>4. ServerTypes'
  BY DEF ServerInv, ServerTypes
<1>5. \A u \in Threads : pc'[u] # "publishing"
  BY DEF ServerInv, ServerTypes
<1>6. TableTypes'
  <2>1. \A u \in Threads : pending'[u] = NoDict
    BY <1>5 DEF ServerInv, ServerTypes, TableTypes
  <2>2. IsTable(alerts')
    BY <1>2, <1>3
  <2> QED BY <1>2, <1>3, <2>1, <2>2 DEF ServerInv, TableTypes, IsTable
<1>7. OrderEnumeratesAlerts'
  BY <1>2, <1>3 DEF OrderEnumeratesAlerts, Distinct, KeySet
<1>8. MemoryMatchesDisk'
  BY <1>1, <1>3 DEF MemoryMatchesDisk
<1>9. \A u \in Threads : InFlight(u)'
  BY <1>5 DEF InFlight
<1>10. up' /\ (~Durable => disk' = <<>>)
  BY DEF ServerInv
<1> QED BY <1>4, <1>5, <1>6, <1>7, <1>8, <1>9, <1>10 DEF ServerInv

LEMMA CrashInv == ASSUME ServerInv, Crash PROVE ServerInv'
<1> USE DEF Crash
<1>1. ServerTypes'
  <2>1. stored' \subseteq W!Item /\ sequence' \in Nat
    OBVIOUS
  <2>2. UNCHANGED <<max_alerts, latest>> /\ faults' = faults + 1 /\ ~up' /\ covered'
    OBVIOUS
  <2>3. /\ pc' \in [Threads -> {"idle", "correlated", "publishing"}]
        /\ candidates' \in [Threads -> SUBSET Events]
        /\ DOMAIN pending' = Threads
    OBVIOUS
  <2>4. up' \in BOOLEAN /\ covered' \in BOOLEAN
    OBVIOUS
  <2> QED BY ONLY <2>1, <2>2, <2>3, <2>4, ServerInv DEF ServerInv, ServerTypes
<1>2. TableTypes'
  <2>1. max_alerts \in Nat \ {0}
    BY Capacity DEF ServerInv
  <2>2. IsTable(alerts')
    BY EmptyTable
  <2> QED BY <2>1, <2>2 DEF ServerInv, TableTypes, IsTable
<1>3. OrderEnumeratesAlerts'
  BY DEF OrderEnumeratesAlerts, KeySet
<1>4. MemoryMatchesDisk' /\ \A u \in Threads : InFlight(u)'
  BY DEF MemoryMatchesDisk, InFlight
<1> QED BY <1>1, <1>2, <1>3, <1>4 DEF ServerInv

(* The table a restart leaves, and the dict it loads.                      *)
LEMMA RestartedTable ==
    ASSUME ServerInv, Restart
    PROVE  /\ max_alerts' \in Nat \ {0}
           /\ IsTable(disk') /\ IsFiniteSet(DOMAIN disk')
           /\ Cardinality(DOMAIN disk') <= max_alerts'
           /\ DOMAIN disk' \subseteq DOMAIN disk
           /\ \A x \in DOMAIN disk' : disk'[x] = disk[x]
           /\ \/ Cardinality(DOMAIN disk') >= Cardinality(DOMAIN disk) - MaxCorruptRows
              \/ Cardinality(DOMAIN disk') >= max_alerts' - MaxCorruptRows
<1> DEFINE n == max_alerts'
           pruned == PrunedRows(disk, n)
<1>1. n \in Nat \ {0} /\ MaxCorruptRows \in Nat
  BY ServerAssumption DEF Restart
<1>2. PICK bad \in SUBSET DOMAIN disk :
          Cardinality(bad) <= MaxCorruptRows /\ disk' = Only(pruned, DOMAIN disk \ bad)
  BY DEF Restart
<1>3. IsTable(disk) /\ IsFiniteSet(DOMAIN disk)
  BY DEF ServerInv, TableTypes
<1> DEFINE kept == DOMAIN pruned
<1>4. /\ kept \subseteq DOMAIN disk
      /\ \A x \in kept : pruned[x] = disk[x]
      /\ IsFiniteSet(kept)
      /\ Cardinality(kept) = IF Cardinality(DOMAIN disk) <= n THEN Cardinality(DOMAIN disk) ELSE n
  <2> HIDE DEF n
  <2> QED BY <1>1, <1>3, PruneToCapacity
<1>5. DOMAIN disk' = kept \ bad /\ \A x \in DOMAIN disk' : disk'[x] = disk[x]
  <2> HIDE DEF pruned
  <2> QED BY <1>2, <1>4 DEF Only
<1>6. disk' = [x \in DOMAIN disk' |-> disk'[x]]
  <2> HIDE DEF pruned
  <2> QED BY <1>2 DEF Only
<1>7. IsTable(disk')
  BY <1>3, <1>4, <1>5, <1>6 DEF IsTable
<1>8. /\ IsFiniteSet(DOMAIN disk')
      /\ Cardinality(DOMAIN disk') = Cardinality(kept) - Cardinality(kept \cap bad)
  <2> HIDE DEF kept
  <2> QED BY <1>4, <1>5, FS_Difference
<1>9. /\ Cardinality(kept \cap bad) \in Nat
      /\ Cardinality(kept \cap bad) <= MaxCorruptRows
  <2>1. IsFiniteSet(bad)
    BY <1>3, FS_Subset
  <2>2. kept \cap bad \in SUBSET bad
    OBVIOUS
  <2>3. IsFiniteSet(kept \cap bad) /\ Cardinality(kept \cap bad) <= Cardinality(bad)
    <3> HIDE DEF kept
    <3> QED BY <2>1, <2>2, FS_Subset
  <2>4. Cardinality(bad) \in Nat /\ Cardinality(kept \cap bad) \in Nat
    BY <2>1, <2>3, FS_CardinalityType
  <2> HIDE DEF kept
  <2> QED BY <1>1, <1>2, <2>3, <2>4
<1>10. Cardinality(DOMAIN disk) \in Nat
  BY <1>3, FS_CardinalityType
<1> HIDE DEF kept, n
<1>11. /\ Cardinality(DOMAIN disk') <= n
       /\ \/ Cardinality(DOMAIN disk') >= Cardinality(DOMAIN disk) - MaxCorruptRows
          \/ Cardinality(DOMAIN disk') >= n - MaxCorruptRows
  BY <1>1, <1>4, <1>8, <1>9, <1>10
<1> QED BY <1>1, <1>4, <1>5, <1>7, <1>8, <1>11 DEF n

LEMMA RestartInv == ASSUME ServerInv, Restart PROVE ServerInv'
<1>1. /\ max_alerts' \in Nat \ {0}
      /\ IsTable(disk') /\ IsFiniteSet(DOMAIN disk')
      /\ Cardinality(DOMAIN disk') <= max_alerts'
      /\ DOMAIN disk' \subseteq DOMAIN disk
  BY RestartedTable
<1> USE DEF Restart, window
<1>2. /\ IsTable(alerts') /\ IsFiniteSet(DOMAIN alerts')
      /\ Cardinality(DOMAIN alerts') <= max_alerts'
  <2>1. CASE Durable
    BY <1>1, <2>1
  <2>2. CASE ~Durable
    BY <1>1, <2>2, EmptyTable
  <2> QED BY <2>1, <2>2
<1>3. /\ order' \in Seq(AlertIds) /\ Distinct(order')
      /\ Len(order') <= max_alerts'
      /\ KeySet(order') = DOMAIN alerts'
  <2>1. order' \in NewestFirst(alerts')
    OBVIOUS
  <2> QED BY <1>2, <2>1, LoadedOrder
<1>4. ServerTypes'
  <2>1. max_alerts' \in MaxAlertsChoices /\ up' \in BOOLEAN
    OBVIOUS
  <2>2. UNCHANGED <<stored, sequence, pc, candidates, pending, faults, latest, covered>>
    OBVIOUS
  <2> QED BY ONLY <2>1, <2>2, ServerInv DEF ServerInv, ServerTypes
<1>5. \A u \in Threads : pc'[u] = "idle" /\ pending'[u] = NoDict
  BY DEF ServerInv, ServerTypes, TableTypes
<1>6. TableTypes'
  BY <1>1, <1>2, <1>3, <1>5 DEF TableTypes, IsTable
<1>7. OrderEnumeratesAlerts'
  BY <1>3 DEF OrderEnumeratesAlerts, Distinct, KeySet
<1>8. MemoryMatchesDisk'
  BY DEF MemoryMatchesDisk
<1>9. \A u \in Threads : InFlight(u)'
  BY <1>5 DEF InFlight
<1>10. up'
  OBVIOUS
<1>11. ~Durable => disk' = <<>>
  <2> SUFFICES ASSUME ~Durable PROVE disk' = <<>>
    OBVIOUS
  <2>1. DOMAIN disk' = {} /\ disk' = [x \in DOMAIN disk' |-> disk'[x]]
    BY <1>1 DEF ServerInv, IsTable
  <2> QED BY <2>1
<1> QED BY <1>4, <1>5, <1>6, <1>7, <1>8, <1>9, <1>10, <1>11 DEF ServerInv

LEMMA StutterInv == ASSUME ServerInv, UNCHANGED vars PROVE ServerInv'
<1> USE DEF vars, window, memory
<1>1. ServerTypes' /\ OrderEnumeratesAlerts' /\ MemoryMatchesDisk'
  BY DEF ServerInv, ServerTypes, OrderEnumeratesAlerts, KeySet, MemoryMatchesDisk, LockFree
<1>2. TableTypes'
  BY DEF ServerInv, TableTypes, IsTable
<1>3. \A t \in Threads : InFlight(t)'
  <2>1. \A found : Merged(found)' = Merged(found)
    BY MergeFrame
  <2> QED BY <2>1 DEF ServerInv, InFlight
<1> QED BY <1>1, <1>2, <1>3 DEF ServerInv

LEMMA NextInv == ASSUME ServerInv, [Next]_vars PROVE ServerInv'
<1>1. ASSUME NEW t \in Threads, NEW batch \in Batches, Ingest(t, batch) PROVE ServerInv'
  BY <1>1, IngestInv
<1>2. ASSUME NEW t \in Threads, Commit(t) PROVE ServerInv'
  BY <1>2, CommitInv
<1>3. ASSUME NEW t \in Threads, CommitFails(t) PROVE ServerInv'
  BY <1>3, CommitFailsInv
<1>4. ASSUME NEW t \in Threads, Publish(t) PROVE ServerInv'
  BY <1>4, PublishInv
<1>5. CASE Crash
  BY <1>5, CrashInv
<1>6. CASE Restart
  BY <1>6, RestartInv
<1>7. CASE Read \/ UNCHANGED vars
  BY <1>7, StutterInv DEF Read
<1> QED BY <1>1, <1>2, <1>3, <1>4, <1>5, <1>6, <1>7 DEF Next

LEMMA ServerInvariant == Spec => []ServerInv
<1>1. Init => ServerInv
  BY InitInv
<1>2. ServerInv /\ [Next]_vars => ServerInv'
  BY NextInv
<1> QED BY <1>1, <1>2, PTL DEF Spec

(* Every state is well typed and within the capacity: the dict, the rows   *)
(* and what is between a commit and its assignment.                        *)
THEOREM TypesAndCapacity == Spec => []TypeOK
<1>1. ServerInv => TypeOK
  <2> SUFFICES ASSUME ServerInv PROVE TypeOK
    OBVIOUS
  <2>1. /\ IsTable(alerts) /\ IsTable(disk)
        /\ order \in Seq(AlertIds) /\ Len(order) <= max_alerts
        /\ OrderEnumeratesAlerts
        /\ Cardinality(DOMAIN disk) <= max_alerts
    BY DEF ServerInv, TableTypes
  <2>2. Cardinality(DOMAIN alerts) <= max_alerts
    <3>1. Distinct(order) /\ KeySet(order) = DOMAIN alerts
      BY <2>1 DEF OrderEnumeratesAlerts, Distinct
    <3>2. Cardinality(DOMAIN alerts) = Len(order)
      BY <2>1, <3>1, DistinctCount
    <3> QED BY <2>1, <3>2
  <2>3. ASSUME NEW t \in Threads
        PROVE  IsTable(pending[t].alerts) /\ pending[t].order \in Seq(AlertIds)
    <3>1. CASE pc[t] # "publishing"
      <4>1. pending[t] = NoDict
        BY <3>1 DEF ServerInv, TableTypes
      <4> QED BY <4>1, EmptyTable DEF NoDict
    <3>2. CASE pc[t] = "publishing"
      <4> DEFINE found == Correlate(candidates[t])
      <4>1. Findings(found) /\ pending[t] = Merged(found) /\ max_alerts \in Nat \ {0}
        BY <3>2, PublishedDict, Capacity DEF ServerInv
      <4> HIDE DEF found
      <4>2. IsTable(Merged(found).alerts) /\ Merged(found).order \in Seq(AlertIds)
        BY <2>1, <4>1, MergeKeepsEvidence
      <4> QED BY <4>1, <4>2
    <3> QED BY <3>1, <3>2
  <2>4. ServerTypes
    BY DEF ServerInv
  <2> QED BY <2>1, <2>2, <2>3, <2>4 DEF TypeOK, ServerTypes
<1> QED BY <1>1, ServerInvariant, PTL

(* Whoever takes the lock reads what the database holds: what a commit     *)
(* writes is what the assignment after it makes visible.                   *)
THEOREM ReadersSeeTheDisk == Spec => []MemoryMatchesDisk
<1>1. ServerInv => MemoryMatchesDisk
  BY DEF ServerInv
<1> QED BY <1>1, ServerInvariant, PTL

(* Eviction order covers the dict: no alert escapes the bound, and none is *)
(* counted twice against it.                                               *)
THEOREM OrderCoversDict == Spec => []OrderEnumeratesAlerts
<1>1. ServerInv => OrderEnumeratesAlerts
  BY DEF ServerInv
<1> QED BY <1>1, ServerInvariant, PTL

-----------------------------------------------------------------------------
(* The service implements AlertTable.                                      *)

LEMMA TableCardinality == \A S : Table!Cardinality(S) = Cardinality(S)
BY DEF Table!Cardinality, Cardinality, Table!IsFiniteSet, IsFiniteSet

(* Going from one table to another that Reported allows. *)
Grows(old, new, capacity) ==
    /\ \A x \in DOMAIN old \cap DOMAIN new : new[x] = old[x] \/ new[x].count > old[x].count
    /\ Cardinality(DOMAIN new) <= capacity
    /\ DOMAIN old \subseteq DOMAIN new \/ Cardinality(DOMAIN new) = capacity

LEMMA PublishGrows ==
    ASSUME ServerInv, NEW t \in Threads, pc[t] = "publishing"
    PROVE  Grows(alerts, pending[t].alerts, max_alerts)
<1> DEFINE found == Correlate(candidates[t])
           m == Merged(found)
<1>1. /\ Findings(found) /\ max_alerts \in Nat \ {0} /\ pending[t] = m
      /\ IsTable(alerts) /\ order \in Seq(AlertIds) /\ OrderEnumeratesAlerts
  BY PublishedDict, Capacity DEF ServerInv, TableTypes
<1>2. /\ \A x \in DOMAIN alerts \cap DOMAIN m.alerts :
            m.alerts[x] = alerts[x] \/ m.alerts[x].count > alerts[x].count
      /\ Cardinality(DOMAIN m.alerts) = Len(m.order)
      /\ Len(m.order) <= max_alerts
      /\ \/ DOMAIN m.alerts = DOMAIN alerts \cup Reported(found)
         \/ Len(m.order) = max_alerts
  <2> HIDE DEF found
  <2> QED BY <1>1, MergeKeepsEvidence
<1> HIDE DEF m, found
<1> QED BY <1>1, <1>2 DEF Grows

LEMMA StandingStill ==
    ASSUME ServerInv
    PROVE  up => Grows(alerts, alerts, max_alerts)
<1>1. IsTable(alerts) /\ order \in Seq(AlertIds) /\ Len(order) <= max_alerts
  BY DEF ServerInv, TableTypes
<1>2. Distinct(order) /\ KeySet(order) = DOMAIN alerts
  BY DEF ServerInv, OrderEnumeratesAlerts, Distinct
<1>3. Cardinality(DOMAIN alerts) = Len(order)
  BY <1>1, <1>2, DistinctCount
<1> QED BY <1>1, <1>3 DEF Grows

(* Each step of the service reports, stops, starts, or changes nothing     *)
(* that the table promises.                                                *)
LEMMA TableStep ==
    ASSUME Durable, ServerInv, [Next]_vars
    PROVE  [Table!Next]_(Table!tableVars)
<1> USE DEF Table!tableVars, window, memory
<1>1. ASSUME NEW t \in Threads, NEW batch \in Batches, Ingest(t, batch)
      PROVE  UNCHANGED Table!tableVars
  BY <1>1 DEF Ingest
<1>2. ASSUME NEW t \in Threads, Commit(t)
      PROVE  UNCHANGED Table!tableVars
  BY <1>2 DEF Commit
<1>3. ASSUME NEW t \in Threads, CommitFails(t)
      PROVE  UNCHANGED Table!tableVars
  BY <1>3 DEF CommitFails
<1>4. ASSUME NEW t \in Threads, Publish(t)
      PROVE  Table!Report
  <2>1. Grows(alerts, pending[t].alerts, max_alerts)
    BY <1>4, PublishGrows DEF Publish
  <2>2. up /\ up' /\ alerts' = pending[t].alerts /\ max_alerts' = max_alerts /\ up' = up
    BY <1>4 DEF Publish
  <2> QED BY <2>1, <2>2, TableCardinality DEF Grows, Table!Report, Table!Reported
<1>5. CASE Crash
  <2>1. Grows(alerts, disk, max_alerts)
    <3>1. CASE LockFree
      <4>1. disk = alerts
        BY <1>5, <3>1 DEF Crash, ServerInv, MemoryMatchesDisk
      <4> QED BY <1>5, <4>1, StandingStill DEF Crash
    <3>2. CASE ~LockFree
      <4>1. PICK t \in Threads : pc[t] = "publishing"
        BY <3>2 DEF LockFree
      <4>2. disk = pending[t].alerts
        BY <4>1 DEF ServerInv, InFlight
      <4> QED BY <4>1, <4>2, PublishGrows
    <3> QED BY <3>1, <3>2
  <2>2. up /\ up' = FALSE /\ disk' = disk /\ max_alerts' = max_alerts
    BY <1>5 DEF Crash
  <2>3. Table!Stop
    BY <2>1, <2>2, TableCardinality DEF Grows, Table!Stop, Table!Reported
  <2> QED BY <2>3 DEF Table!Next
<1>6. CASE Restart
  <2>1. /\ Cardinality(DOMAIN disk') <= max_alerts'
        /\ DOMAIN disk' \subseteq DOMAIN disk
        /\ \A x \in DOMAIN disk' : disk'[x] = disk[x]
        /\ \/ Cardinality(DOMAIN disk') >= Cardinality(DOMAIN disk) - MaxCorruptRows
           \/ Cardinality(DOMAIN disk') >= max_alerts' - MaxCorruptRows
    BY <1>6, RestartedTable
  <2>2. ~up /\ up' = TRUE /\ alerts' = disk' /\ max_alerts' \in MaxAlertsChoices
    BY <1>6 DEF Restart
  <2>3. Table!Start
    BY <2>1, <2>2, TableCardinality DEF Table!Start
  <2> QED BY <2>3 DEF Table!Next
<1>7. CASE Read \/ UNCHANGED vars
  BY <1>7 DEF Read, vars
<1> QED BY <1>1, <1>2, <1>3, <1>4, <1>5, <1>6, <1>7 DEF Next, Table!Next

(* With a repository, the service implements the alert table: evidence     *)
(* never shrinks, alerts are given up only for room, a report is made in   *)
(* full or not at all, and a restart brings back what fits and can be read.*)
THEOREM ServiceImplementsTable == Durable => (Spec => ImplementsTable)
<1> SUFFICES ASSUME Durable PROVE Spec => ImplementsTable
  OBVIOUS
<1>1. Init => Table!Init
  BY DEF Init, Table!Init
<1>2. ServerInv /\ [Next]_vars => [Table!Next]_(Table!tableVars)
  BY TableStep
<1> QED BY <1>1, <1>2, ServerInvariant, PTL DEF Spec, ImplementsTable, Table!Spec

-----------------------------------------------------------------------------
(* No detection is lost.                                                   *)

Current == W!EventsOf(W!Snapshot(Default, MaxCorrelationEvents))

(* The snapshot of the request that appended last is the current one until *)
(* it commits, and a process that starts has nothing in its window.        *)
LatestSeesAll ==
    /\ ~up => stored = {} /\ covered
    /\ up /\ ~covered /\ pc[latest] # "idle" => candidates[latest] = Current
    /\ covered => pc[latest] = "idle"

(* Publishing while every identity fits drops none and adds what is found. *)
LEMMA PublishKeepsAll ==
    ASSUME ServerInv, IsFiniteSet(AlertIds), max_alerts >= Cardinality(AlertIds),
           NEW t \in Threads, pc[t] = "publishing"
    PROVE  LET found == Correlate(candidates[t])
               m == pending[t].alerts
           IN  /\ \A x \in DOMAIN alerts : x \in DOMAIN m /\ m[x].count >= alerts[x].count
               /\ \A i \in DOMAIN found :
                      found[i].id \in DOMAIN m /\ m[found[i].id].count >= found[i].count
<1> DEFINE found == Correlate(candidates[t])
           m == Merged(found)
<1>1. /\ Findings(found) /\ max_alerts \in Nat \ {0} /\ pending[t] = m
      /\ IsTable(alerts) /\ order \in Seq(AlertIds) /\ OrderEnumeratesAlerts
  BY PublishedDict, Capacity DEF ServerInv, TableTypes
<1>2. /\ IsTable(m.alerts)
      /\ \A x \in DOMAIN alerts \cap DOMAIN m.alerts :
            m.alerts[x] = alerts[x] \/ m.alerts[x].count > alerts[x].count
      /\ IsFiniteSet(DOMAIN m.alerts)
      /\ Cardinality(DOMAIN m.alerts) = Len(m.order)
      /\ \/ DOMAIN m.alerts = DOMAIN alerts \cup Reported(found)
         \/ Len(m.order) = max_alerts
      /\ \A i \in DOMAIN found :
            found[i].id \in DOMAIN m.alerts => m.alerts[found[i].id].count >= found[i].count
  <2> HIDE DEF found
  <2> QED BY <1>1, MergeKeepsEvidence
<1>3. DOMAIN alerts \cup Reported(found) \subseteq AlertIds
  BY <1>1 DEF IsTable, Findings, Alert, Reported
<1> HIDE DEF m, found
<1>4. DOMAIN alerts \cup Reported(found) \subseteq DOMAIN m.alerts
  <2> SUFFICES ASSUME Len(m.order) = max_alerts
               PROVE  DOMAIN m.alerts = AlertIds
    BY <1>2, <1>3
  <2>1. DOMAIN m.alerts \in SUBSET AlertIds
    BY <1>2 DEF IsTable
  <2>2. /\ Cardinality(DOMAIN m.alerts) <= Cardinality(AlertIds)
        /\ Cardinality(AlertIds) = Cardinality(DOMAIN m.alerts) => AlertIds = DOMAIN m.alerts
    BY <2>1, FS_Subset
  <2>3. Cardinality(AlertIds) \in Nat
    BY FS_CardinalityType
  <2> QED BY <1>1, <1>2, <2>2, <2>3
<1>5. \A x \in DOMAIN alerts : x \in DOMAIN m.alerts /\ m.alerts[x].count >= alerts[x].count
  <2> SUFFICES ASSUME NEW x \in DOMAIN alerts
               PROVE  x \in DOMAIN m.alerts /\ m.alerts[x].count >= alerts[x].count
    OBVIOUS
  <2>1. x \in DOMAIN m.alerts
    BY <1>4
  <2>2. alerts[x].count \in Nat /\ m.alerts[x].count \in Nat
    BY <1>1, <1>2, <2>1 DEF IsTable, Alert
  <2> QED BY <1>2, <2>1, <2>2
<1>6. \A i \in DOMAIN found : found[i].id \in DOMAIN m.alerts
  BY <1>4 DEF Reported
<1> QED BY <1>1, <1>2, <1>5, <1>6 DEF found

LEMMA DetectionStep ==
    ASSUME IsFiniteSet(AlertIds), ServerInv, LatestSeesAll, NoDetectionLost, [Next]_vars
    PROVE  LatestSeesAll' /\ NoDetectionLost'
<1>1. ASSUME NEW t \in Threads, NEW batch \in Batches, Ingest(t, batch)
      PROVE  LatestSeesAll' /\ NoDetectionLost'
  <2>1. /\ up' /\ up /\ covered' = FALSE /\ latest' = t
        /\ candidates'[t] = Current'
    BY <1>1 DEF Ingest, ServerInv, ServerTypes, Current
  <2> QED BY <2>1 DEF LatestSeesAll, NoDetectionLost
<1>2. ASSUME NEW t \in Threads, Commit(t)
      PROVE  LatestSeesAll' /\ NoDetectionLost'
  <2>1. /\ up /\ up' = up /\ covered' = covered /\ latest' = latest
        /\ stored' = stored /\ alerts' = alerts /\ max_alerts' = max_alerts
        /\ candidates' = candidates
        /\ pc[t] = "correlated" /\ \A u \in Threads \ {t} : pc'[u] = pc[u]
    BY <1>2 DEF Commit, window, memory, ServerInv, ServerTypes
  <2>2. Current' = Current /\ CurrentDetections' = CurrentDetections
    BY <2>1 DEF Current, CurrentDetections, W!EventsOf, W!Snapshot, W!Bucket, W!Newer
  <2>3. latest \in Threads
    BY DEF ServerInv, ServerTypes
  <2> QED BY <2>1, <2>2, <2>3 DEF LatestSeesAll, NoDetectionLost
<1>3. ASSUME NEW t \in Threads, CommitFails(t)
      PROVE  LatestSeesAll' /\ NoDetectionLost'
  <2>1. /\ up /\ up' = up /\ covered' = covered /\ latest' = latest
        /\ stored' = stored /\ alerts' = alerts /\ max_alerts' = max_alerts
        /\ pc'[t] = "idle"
        /\ \A u \in Threads \ {t} : pc'[u] = pc[u] /\ candidates'[u] = candidates[u]
    BY <1>3 DEF CommitFails, window, memory, ServerInv, ServerTypes
  <2>2. Current' = Current /\ CurrentDetections' = CurrentDetections
    BY <2>1 DEF Current, CurrentDetections, W!EventsOf, W!Snapshot, W!Bucket, W!Newer
  <2>3. latest \in Threads
    BY DEF ServerInv, ServerTypes
  <2> QED BY <2>1, <2>2, <2>3 DEF LatestSeesAll, NoDetectionLost
<1>4. ASSUME NEW t \in Threads, Publish(t)
      PROVE  LatestSeesAll' /\ NoDetectionLost'
  <2>1. /\ up /\ up' = up /\ latest' = latest /\ latest \in Threads
        /\ covered' = (covered \/ t = latest)
        /\ stored' = stored /\ alerts' = pending[t].alerts /\ max_alerts' = max_alerts
        /\ pc[t] = "publishing" /\ pc'[t] = "idle"
        /\ \A u \in Threads \ {t} : pc'[u] = pc[u] /\ candidates'[u] = candidates[u]
    BY <1>4 DEF Publish, window, ServerInv, ServerTypes
  <2>2. Current' = Current /\ CurrentDetections' = CurrentDetections
    BY <2>1 DEF Current, CurrentDetections, W!EventsOf, W!Snapshot, W!Bucket, W!Newer
  <2>3. LatestSeesAll'
    BY <2>1, <2>2 DEF LatestSeesAll
  <2>4. NoDetectionLost'
    <3> SUFFICES ASSUME covered', max_alerts >= Cardinality(AlertIds),
                        NEW a \in CurrentDetections
                 PROVE  a.id \in DOMAIN alerts' /\ alerts'[a.id].count >= a.count
      BY <2>1, <2>2 DEF NoDetectionLost
    <3>1. LET found == Correlate(candidates[t])
              m == pending[t].alerts
          IN  /\ \A x \in DOMAIN alerts : x \in DOMAIN m /\ m[x].count >= alerts[x].count
              /\ \A i \in DOMAIN found :
                     found[i].id \in DOMAIN m /\ m[found[i].id].count >= found[i].count
      BY <2>1, PublishKeepsAll
    <3>2. CASE t = latest
      <4>1. candidates[t] = Current
        BY <2>1, <3>2 DEF LatestSeesAll
      <4>2. PICK i \in DOMAIN Correlate(Current) : a = Correlate(Current)[i]
        BY DEF CurrentDetections, Current
      <4> QED BY <2>1, <3>1, <4>1, <4>2
    <3>3. CASE t # latest
      <4>1. a.id \in DOMAIN alerts /\ alerts[a.id].count >= a.count
        BY <2>1, <3>3 DEF NoDetectionLost
      <4>2. a.id \in DOMAIN alerts' /\ alerts'[a.id].count >= alerts[a.id].count
        BY <2>1, <3>1, <4>1
      <4>3. alerts[a.id].count \in Nat
        BY <4>1 DEF ServerInv, TableTypes, IsTable, Alert
      <4>4. IsTable(pending[t].alerts)
        <5> DEFINE found == Correlate(candidates[t])
        <5>1. /\ Findings(found) /\ max_alerts \in Nat \ {0} /\ pending[t] = Merged(found)
              /\ IsTable(alerts) /\ order \in Seq(AlertIds) /\ OrderEnumeratesAlerts
          BY <2>1, PublishedDict, Capacity DEF ServerInv, TableTypes
        <5> HIDE DEF found
        <5>2. IsTable(Merged(found).alerts)
          BY <5>1, MergeKeepsEvidence
        <5> QED BY <5>1, <5>2
      <4>5. alerts'[a.id].count \in Nat
        BY <2>1, <4>2, <4>4 DEF IsTable, Alert
      <4>6. a.count \in Nat
        <5>1. Current \in SUBSET Events
          BY SnapshotTyped DEF ServerInv, ServerTypes, Current
        <5>2. Findings(Correlate(Current))
          BY <5>1, CorrelateFinds
        <5> QED BY <5>2 DEF Findings, Alert, CurrentDetections, Current
      <4> QED BY <4>1, <4>2, <4>3, <4>5, <4>6
    <3> QED BY <3>2, <3>3
  <2> QED BY <2>3, <2>4
<1>5. CASE Crash
  <2>1. /\ ~up' /\ stored' = {} /\ covered' /\ latest' = latest
        /\ latest \in Threads /\ pc'[latest] = "idle"
    BY <1>5 DEF Crash, ServerInv, ServerTypes
  <2> QED BY <2>1 DEF LatestSeesAll, NoDetectionLost
<1>6. CASE Restart
  <2>1. /\ up' /\ stored' = {} /\ covered' /\ latest' = latest
        /\ latest \in Threads /\ pc'[latest] = "idle"
    BY <1>6 DEF Restart, window, LatestSeesAll, ServerInv, ServerTypes
  <2>2. Current' = {}
    BY <2>1 DEF Current, W!EventsOf, W!Snapshot, W!Bucket
  <2>3. Correlate({}) = <<>>
    BY CorrelateFinds
  <2>4. CurrentDetections' = {}
    BY <2>2, <2>3 DEF CurrentDetections, Current
  <2> QED BY <2>1, <2>4 DEF LatestSeesAll, NoDetectionLost
<1>7. CASE Read \/ UNCHANGED vars
  <2>1. UNCHANGED <<stored, alerts, max_alerts, up, pc, candidates, latest, covered>>
    BY <1>7 DEF Read, vars, window, memory
  <2>2. Current' = Current /\ CurrentDetections' = CurrentDetections
    BY <2>1 DEF Current, CurrentDetections, W!EventsOf, W!Snapshot, W!Bucket, W!Newer
  <2> QED BY <2>1, <2>2 DEF LatestSeesAll, NoDetectionLost
<1> QED BY <1>1, <1>2, <1>3, <1>4, <1>5, <1>6, <1>7 DEF Next

(* While every identity fits, each detection in the current window is      *)
(* reported with at least its present evidence as soon as the request that *)
(* appended last has committed, whatever failed, crashed or came late.     *)
THEOREM DetectionsReported == IsFiniteSet(AlertIds) => (Spec => []NoDetectionLost)
<1> SUFFICES ASSUME IsFiniteSet(AlertIds) PROVE Spec => []NoDetectionLost
  OBVIOUS
<1>1. Init => LatestSeesAll /\ NoDetectionLost
  <2> SUFFICES ASSUME Init PROVE LatestSeesAll /\ NoDetectionLost
    OBVIOUS
  <2>1. stored = {} /\ up /\ covered /\ pc[latest] = "idle"
    BY DEF Init, W!Init
  <2>2. Current = {}
    BY <2>1 DEF Current, W!EventsOf, W!Snapshot, W!Bucket
  <2>3. Correlate({}) = <<>>
    BY CorrelateFinds
  <2>4. CurrentDetections = {}
    BY <2>2, <2>3 DEF CurrentDetections, Current
  <2> QED BY <2>1, <2>4 DEF LatestSeesAll, NoDetectionLost
<1>2. ServerInv /\ LatestSeesAll /\ NoDetectionLost /\ [Next]_vars
          => LatestSeesAll' /\ NoDetectionLost'
  BY DetectionStep
<1> QED BY <1>1, <1>2, ServerInvariant, PTL DEF Spec
=============================================================================
