-------------------------- MODULE EventWindowProofs --------------------------
(***************************************************************************)
(* Proofs about EventWindow for every value of its constants.              *)
(***************************************************************************)
EXTENDS EventWindow, SubsequencesProofs

-----------------------------------------------------------------------------
(* A finite non-empty set of integers has the maximum Max() chooses. *)
LEMMA MaxIsGreatest ==
    ASSUME NEW S, S \subseteq Int, S # {}, IsFiniteSet(S)
    PROVE  /\ Max(S) \in S
           /\ \A y \in S : Max(S) >= y
  BY GreatestElement DEF Max

(* Taking a subset away from a finite set takes its cardinality away. *)
LEMMA RemovalCounts ==
    ASSUME NEW S, NEW T \in SUBSET S, IsFiniteSet(S)
    PROVE  /\ IsFiniteSet(T) /\ Cardinality(T) \in Nat
           /\ IsFiniteSet(S \ T)
           /\ Cardinality(S \ T) = Cardinality(S) - Cardinality(T)
<1>1. IsFiniteSet(T)
  BY FS_Subset
<1>2. Cardinality(T) \in Nat
  BY <1>1, FS_CardinalityType
<1>3. /\ IsFiniteSet(S \ T)
      /\ Cardinality(S \ T) = Cardinality(S) - Cardinality(S \cap T)
  BY FS_Difference
<1>4. S \cap T = T
  OBVIOUS
<1> QED BY <1>1, <1>2, <1>3, <1>4

-----------------------------------------------------------------------------
(* The (ts, sequence) order and what eviction by it keeps.                 *)

NumberedOnce(items) == \A x, y \in items : x.seq = y.seq => x = y

LEMMA TimeType ==
    ASSUME NEW x \in Item
    PROVE  Time(x) \in Nat /\ x.seq \in Nat /\ x.ns \in Namespaces /\ x.event \in Events
BY WindowAssumption DEF Item, Time

(* Older is a strict total order on items with distinct sequence numbers.  *)
LEMMA OlderIsTotalOrder ==
    ASSUME NEW items \in SUBSET Item, NumberedOnce(items)
    PROVE  /\ \A x \in items : ~Older(x, x)
           /\ \A x, y \in items : x = y \/ Older(x, y) \/ Older(y, x)
           /\ \A x, y, z \in items : Older(x, y) /\ Older(y, z) => Older(x, z)
<1>1. \A x \in items : Time(x) \in Nat /\ x.seq \in Nat
  BY TimeType
<1>2. \A x \in items : ~Older(x, x)
  BY <1>1 DEF Older
<1>3. \A x, y \in items : x = y \/ Older(x, y) \/ Older(y, x)
  BY <1>1 DEF Older, NumberedOnce
<1>4. \A x, y, z \in items : Older(x, y) /\ Older(y, z) => Older(x, z)
  BY <1>1 DEF Older
<1> QED BY <1>2, <1>3, <1>4

(* An older item has strictly more items above it.                         *)
LEMMA OlderHasMoreAbove ==
    ASSUME NEW items \in SUBSET Item, IsFiniteSet(items), NumberedOnce(items),
           NEW x \in items, NEW y \in items, Older(x, y)
    PROVE  Cardinality(Newer(items, y)) < Cardinality(Newer(items, x))
<1>1. \A z \in items : IsFiniteSet(Newer(items, z)) /\ Cardinality(Newer(items, z)) \in Nat
  <2>1. \A z \in items : Newer(items, z) \in SUBSET items
    BY DEF Newer
  <2> QED BY <2>1, FS_Subset, FS_CardinalityType
<1>2. Newer(items, y) \in SUBSET Newer(items, x)
  BY OlderIsTotalOrder DEF Newer
<1>3. y \in Newer(items, x) /\ y \notin Newer(items, y)
  BY OlderIsTotalOrder DEF Newer
<1>4. Cardinality(Newer(items, y)) <= Cardinality(Newer(items, x))
  BY <1>1, <1>2, FS_Subset
<1>5. Cardinality(Newer(items, y)) # Cardinality(Newer(items, x))
  BY <1>1, <1>2, <1>3, FS_Subset
<1> QED BY <1>1, <1>4, <1>5

(* _enforce_capacity leaves at most max_events items: counting the newer   *)
(* items numbers the kept ones injectively below MaxEvents.                *)
LEMMA CapacityEnforced ==
    ASSUME NEW items \in SUBSET Item, IsFiniteSet(items), NumberedOnce(items)
    PROVE  Cardinality(items \ OverCapacity(items)) <= MaxEvents
<1> DEFINE kept == items \ OverCapacity(items)
           rank == [x \in kept |-> Cardinality(Newer(items, x))]
<1>1. \A x \in items : Cardinality(Newer(items, x)) \in Nat
  <2>1. \A x \in items : Newer(items, x) \in SUBSET items
    BY DEF Newer
  <2> QED BY <2>1, FS_Subset, FS_CardinalityType
<1>2. rank \in [kept -> 0..(MaxEvents - 1)]
  <2>1. \A x \in kept : Cardinality(Newer(items, x)) \in 0..(MaxEvents - 1)
    BY <1>1, WindowAssumption DEF OverCapacity
  <2> QED BY <2>1
<1>3. ASSUME NEW x \in kept, NEW y \in kept, rank[x] = rank[y]
      PROVE  x = y
  <2>1. ~Older(x, y) /\ ~Older(y, x)
    <3>1. Cardinality(Newer(items, x)) = Cardinality(Newer(items, y))
      BY <1>3
    <3> QED BY <1>1, <3>1, OlderHasMoreAbove
  <2> QED BY <2>1, OlderIsTotalOrder
<1>4. rank \in Injection(kept, 0..(MaxEvents - 1))
  <2>1. \A x, y \in kept : rank[x] = rank[y] => x = y
    BY <1>3
  <2> HIDE DEF rank, kept
  <2> QED BY <1>2, <2>1 DEF Injection, IsInjective
<1>5. /\ IsFiniteSet(0..(MaxEvents - 1))
      /\ Cardinality(0..(MaxEvents - 1)) = MaxEvents
  <2>1. MaxEvents - 1 \in Int /\ 0 \in Int /\ MaxEvents \in Nat /\ MaxEvents > 0
    BY WindowAssumption
  <2> QED BY <2>1, FS_Interval
<1> HIDE DEF rank, kept
<1>6. Cardinality(kept) <= MaxEvents
  BY <1>4, <1>5, FS_Injection
<1> QED BY <1>6 DEF kept

(* Eviction by capacity removes only items older than all it keeps.        *)
LEMMA CapacityEvictsOldest ==
    ASSUME NEW items \in SUBSET Item, IsFiniteSet(items), NumberedOnce(items),
           NEW x \in OverCapacity(items), NEW y \in items \ OverCapacity(items)
    PROVE  Older(x, y)
<1>1. x \in items /\ y \in items /\ x # y
  BY DEF OverCapacity
<1>2. \A z \in items : Cardinality(Newer(items, z)) \in Nat
  <2>1. \A z \in items : Newer(items, z) \in SUBSET items
    BY DEF Newer
  <2> QED BY <2>1, FS_Subset, FS_CardinalityType
<1>3. Cardinality(Newer(items, x)) >= MaxEvents /\ ~(Cardinality(Newer(items, y)) >= MaxEvents)
  BY DEF OverCapacity
<1>4. ~Older(y, x)
  BY <1>1, <1>2, <1>3, OlderHasMoreAbove, WindowAssumption
<1> QED BY <1>1, <1>4, OlderIsTotalOrder

-----------------------------------------------------------------------------
(* Removing the oldest items keeps the index and the watermarks right.     *)

IndexMatches(items, index) ==
    \A ns \in Namespaces : index[ns] = EventsOf(Bucket(items, ns))

StoredOnce(items) == \A x, y \in items : x.ns = y.ns /\ x.event = y.event => x = y

(* A mark for every non-empty bucket; nothing is said of the others.       *)
MarksNewest(items, marks) ==
    \A ns \in Namespaces :
        Bucket(items, ns) # {} =>
            /\ \E x \in Bucket(items, ns) : Time(x) = marks[ns]
            /\ \A x \in Bucket(items, ns) : Time(x) <= marks[ns]

OldestGone(items, gone) ==
    \A x \in gone, y \in items \ gone : x.ns = y.ns => Older(x, y)

LEMMA RemovalKeepsIndex ==
    ASSUME NEW items \in SUBSET Item, NEW gone \in SUBSET items,
           NEW index, IndexMatches(items, index), StoredOnce(items)
    PROVE  IndexMatches(items \ gone, Unindexed(index, items \ gone, gone))
<1> SUFFICES ASSUME NEW ns \in Namespaces
             PROVE  Unindexed(index, items \ gone, gone)[ns] = EventsOf(Bucket(items \ gone, ns))
  BY DEF IndexMatches
<1>1. CASE Bucket(items \ gone, ns) = {}
  BY <1>1 DEF Unindexed, EventsOf
<1>2. CASE Bucket(items \ gone, ns) # {}
  <2>1. Unindexed(index, items \ gone, gone)[ns]
            = EventsOf(Bucket(items, ns)) \ EventsOf(Bucket(gone, ns))
    BY <1>2 DEF Unindexed, IndexMatches
  <2>2. EventsOf(Bucket(items, ns)) \ EventsOf(Bucket(gone, ns)) = EventsOf(Bucket(items \ gone, ns))
    BY DEF EventsOf, Bucket, StoredOnce
  <2> QED BY <2>1, <2>2
<1> QED BY <1>1, <1>2

LEMMA RemovalKeepsMarks ==
    ASSUME NEW items \in SUBSET Item, NEW gone \in SUBSET items,
           NEW marks \in [Namespaces -> Nat \cup {NoWatermark}],
           MarksNewest(items, marks), OldestGone(items, gone)
    PROVE  /\ MarksOfNonEmpty(marks, items \ gone) \in [Namespaces -> Nat \cup {NoWatermark}]
           /\ MarksNewest(items \ gone, MarksOfNonEmpty(marks, items \ gone))
           /\ \A ns \in Namespaces : Bucket(items \ gone, ns) = {} =>
                  MarksOfNonEmpty(marks, items \ gone)[ns] = NoWatermark
<1> DEFINE kept == items \ gone
           after == MarksOfNonEmpty(marks, kept)
<1>1. after \in [Namespaces -> Nat \cup {NoWatermark}]
  BY DEF MarksOfNonEmpty
<1>2. \A ns \in Namespaces : Bucket(kept, ns) = {} => after[ns] = NoWatermark
  BY DEF MarksOfNonEmpty
<1>3. ASSUME NEW ns \in Namespaces, Bucket(kept, ns) # {}
      PROVE  /\ \E x \in Bucket(kept, ns) : Time(x) = after[ns]
             /\ \A x \in Bucket(kept, ns) : Time(x) <= after[ns]
  <2>1. after[ns] = marks[ns]
    BY <1>3 DEF MarksOfNonEmpty
  <2>2. Bucket(kept, ns) \subseteq Bucket(items, ns)
    BY DEF Bucket
  <2>3. PICK x \in Bucket(items, ns) : Time(x) = marks[ns]
    BY <1>3, <2>2 DEF MarksNewest
  <2>4. PICK y \in Bucket(kept, ns) : TRUE
    BY <1>3
  <2>5. \A z \in Bucket(items, ns) : Time(z) <= marks[ns] /\ Time(z) \in Nat
    BY <1>3, <2>2, TimeType DEF MarksNewest, Bucket
  <2>6. CASE x \in kept
    BY <2>1, <2>2, <2>3, <2>5, <2>6 DEF Bucket
  <2>7. CASE x \notin kept
    <3>1. Older(x, y)
      BY <2>3, <2>4, <2>7 DEF OldestGone, Bucket
    <3>2. Time(y) >= marks[ns] /\ Time(y) \in Nat /\ y \in Bucket(items, ns)
      BY <2>2, <2>3, <2>4, <2>5, <3>1 DEF Older
    <3>3. Time(y) = marks[ns]
      BY <2>3, <2>5, <3>2
    <3> QED BY <2>1, <2>2, <2>4, <2>5, <3>3
  <2> QED BY <2>6, <2>7
<1> HIDE DEF after
<1> QED BY <1>1, <1>2, <1>3 DEF MarksNewest, after

-----------------------------------------------------------------------------
(* What append() admits from a batch.                                      *)

LEMMA NewWatermarkIsNewest ==
    ASSUME NEW ns \in Namespaces, NEW batch \in Seq(Events), batch # <<>>,
           watermark[ns] \in Nat \cup {NoWatermark}
    PROVE  /\ NewWatermark(ns, batch) \in Nat
           /\ watermark[ns] <= NewWatermark(ns, batch)
           /\ \A i \in DOMAIN batch : Ts[batch[i]] <= NewWatermark(ns, batch)
           /\ \/ NewWatermark(ns, batch) = watermark[ns]
              \/ \E i \in DOMAIN batch : Ts[batch[i]] = NewWatermark(ns, batch)
<1> DEFINE times == {Ts[batch[i]] : i \in DOMAIN batch}
           mark == NewWatermark(ns, batch)
<1>1. \A i \in DOMAIN batch : Ts[batch[i]] \in Nat
  BY WindowAssumption
<1>2. IsFiniteSet(times)
  <2> DEFINE f == [i \in DOMAIN batch |-> Ts[batch[i]]]
  <2>1. f \in Surjection(DOMAIN batch, times)
    BY DEF Surjection
  <2>2. IsFiniteSet(DOMAIN batch)
    <3>1. DOMAIN batch = 1..Len(batch) /\ Len(batch) \in Nat
      OBVIOUS
    <3> QED BY <3>1, FS_Interval
  <2> HIDE DEF f, times
  <2> QED BY <2>1, <2>2, FS_Surjection
<1>3. IsFiniteSet(times \cup {watermark[ns]})
  <2> HIDE DEF times
  <2> QED BY <1>2, FS_AddElement
<1>4. times \cup {watermark[ns]} \subseteq Int
  BY <1>1 DEF NoWatermark
<1>5. mark \in times \cup {watermark[ns]} /\ \A t \in times \cup {watermark[ns]} : mark >= t
  <2>1. mark = Max(times \cup {watermark[ns]})
    BY DEF NewWatermark
  <2> HIDE DEF times, mark
  <2> QED BY <2>1, <1>3, <1>4, MaxIsGreatest
<1>6. \A t \in times \cup {watermark[ns]} : t <= mark
  <2> HIDE DEF times, mark
  <2> QED BY <1>4, <1>5
<1>7. mark \in Nat
  <2>1. 1 \in DOMAIN batch /\ Ts[batch[1]] \in times /\ Ts[batch[1]] \in Nat
    BY <1>1
  <2>2. Ts[batch[1]] <= mark /\ mark \in Int
    BY <1>4, <1>5, <1>6, <2>1
  <2> HIDE DEF times, mark
  <2> QED BY <2>1, <2>2
<1>8. mark = watermark[ns] \/ \E i \in DOMAIN batch : Ts[batch[i]] = mark
  BY <1>5
<1> HIDE DEF mark
<1> QED BY <1>6, <1>7, <1>8 DEF mark

(* The next sequence numbers go to the stored indices, each its own.       *)
LEMMA SequenceNumbers ==
    ASSUME NEW fresh, IsFiniteSet(fresh), fresh \subseteq Nat, sequence \in Nat
    PROVE  /\ \A i \in fresh : /\ NumberOf(fresh, i) \in Nat
                               /\ NumberOf(fresh, i) > sequence
                               /\ NumberOf(fresh, i) <= sequence + Cardinality(fresh)
           /\ \A i, j \in fresh : NumberOf(fresh, i) = NumberOf(fresh, j) => i = j
<1> DEFINE upto(i) == {k \in fresh : k <= i}
<1>1. \A i \in fresh : /\ IsFiniteSet(upto(i))
                       /\ Cardinality(upto(i)) \in Nat
                       /\ Cardinality(upto(i)) <= Cardinality(fresh)
  <2>1. \A i \in fresh : upto(i) \in SUBSET fresh
    OBVIOUS
  <2> HIDE DEF upto
  <2> QED BY <2>1, FS_Subset, FS_CardinalityType
<1>2. \A i \in fresh : Cardinality(upto(i)) # 0
  <2>1. \A i \in fresh : i \in upto(i)
    OBVIOUS
  <2> HIDE DEF upto
  <2> QED BY <1>1, <2>1, FS_EmptySet
<1>3. ASSUME NEW i \in fresh, NEW j \in fresh, i < j
      PROVE  Cardinality(upto(i)) < Cardinality(upto(j))
  <2>1. upto(i) \in SUBSET upto(j) /\ j \in upto(j) /\ j \notin upto(i)
    <3>1. i \in Nat /\ j \in Nat
      OBVIOUS
    <3>2. ASSUME NEW k \in fresh, k <= i
          PROVE  k <= j
      <4>1. k \in Nat
        OBVIOUS
      <4> QED BY <1>3, <3>1, <3>2, <4>1
    <3>3. j <= j /\ ~(j <= i)
      BY <1>3, <3>1
    <3> QED BY <3>2, <3>3
  <2>2. /\ Cardinality(upto(i)) <= Cardinality(upto(j))
        /\ Cardinality(upto(j)) # Cardinality(upto(i))
    <3> HIDE DEF upto
    <3> QED BY <1>1, <2>1, FS_Subset
  <2> HIDE DEF upto
  <2> QED BY <1>1, <2>2
<1>4. \A i \in fresh : NumberOf(fresh, i) = sequence + Cardinality(upto(i))
  BY DEF NumberOf
<1>5. Cardinality(fresh) \in Nat
  BY FS_CardinalityType
<1> HIDE DEF upto
<1>6. \A i \in fresh : /\ NumberOf(fresh, i) \in Nat
                       /\ NumberOf(fresh, i) > sequence
                       /\ NumberOf(fresh, i) <= sequence + Cardinality(fresh)
  BY <1>1, <1>2, <1>4, <1>5
<1>7. ASSUME NEW i \in fresh, NEW j \in fresh, NumberOf(fresh, i) = NumberOf(fresh, j)
      PROVE  i = j
  <2>1. i \in Nat /\ j \in Nat
    OBVIOUS
  <2>2. Cardinality(upto(i)) = Cardinality(upto(j))
    BY <1>1, <1>4, <1>7
  <2> QED BY <1>1, <1>3, <2>1, <2>2
<1> QED BY <1>6, <1>7

LEMMA FreshIsFinite ==
    ASSUME NEW ns \in Namespaces, NEW batch \in Seq(Events), NEW cutoff
    PROVE  /\ Fresh(ns, batch, cutoff) \subseteq DOMAIN batch
           /\ Fresh(ns, batch, cutoff) \subseteq Nat
           /\ IsFiniteSet(Fresh(ns, batch, cutoff))
           /\ Cardinality(Fresh(ns, batch, cutoff)) \in Nat
<1>1. DOMAIN batch = 1..Len(batch) /\ Len(batch) \in Nat
  OBVIOUS
<1>2. Fresh(ns, batch, cutoff) \in SUBSET (1..Len(batch))
  BY <1>1 DEF Fresh
<1>3. IsFiniteSet(1..Len(batch))
  BY <1>1, FS_Interval
<1> QED BY <1>1, <1>2, <1>3, FS_Subset, FS_CardinalityType

(* The items append() creates for a batch: new numbers, new events, none   *)
(* older than the cutoff.                                                  *)
LEMMA AdmittedItems ==
    ASSUME NEW ns \in Namespaces, NEW batch \in Seq(Events), NEW cutoff \in Int,
           sequence \in Nat
    PROVE  LET fresh == Fresh(ns, batch, cutoff)
               new   == Admitted(ns, batch, fresh)
           IN  /\ new \subseteq Item
               /\ IsFiniteSet(new) /\ Cardinality(new) = Cardinality(fresh)
               /\ NumberedOnce(new) /\ StoredOnce(new)
               /\ \A x \in new : /\ x.ns = ns
                                 /\ x.seq > sequence
                                 /\ x.seq <= sequence + Cardinality(fresh)
                                 /\ x.event \notin fingerprints[ns]
                                 /\ Time(x) >= cutoff
                                 /\ \E i \in DOMAIN batch : x.event = batch[i]
<1> DEFINE fresh == Fresh(ns, batch, cutoff)
           new == Admitted(ns, batch, fresh)
           item == [i \in fresh |-> [ns |-> ns, seq |-> NumberOf(fresh, i), event |-> batch[i]]]
<1>1. /\ fresh \subseteq DOMAIN batch /\ fresh \subseteq Nat
      /\ IsFiniteSet(fresh) /\ Cardinality(fresh) \in Nat
  BY FreshIsFinite
<1>2. /\ \A i \in fresh : /\ NumberOf(fresh, i) \in Nat
                          /\ NumberOf(fresh, i) > sequence
                          /\ NumberOf(fresh, i) <= sequence + Cardinality(fresh)
      /\ \A i, j \in fresh : NumberOf(fresh, i) = NumberOf(fresh, j) => i = j
  <2> HIDE DEF fresh
  <2> QED BY <1>1, SequenceNumbers
<1>3. \A i \in fresh : /\ batch[i] \in Events
                       /\ batch[i] \notin fingerprints[ns]
                       /\ Ts[batch[i]] >= cutoff
  BY WindowAssumption DEF Fresh, Expired
<1>4. \A i, j \in fresh : batch[i] = batch[j] => i = j
  <2> SUFFICES ASSUME NEW i \in fresh, NEW j \in fresh, batch[i] = batch[j], i < j
               PROVE  FALSE
    BY <1>1
  <2>1. i \in Nat /\ j \in Nat /\ i \in 1..(j - 1)
    BY <1>1
  <2> QED BY <2>1 DEF Fresh
<1> HIDE DEF fresh
<1>5. new = {item[i] : i \in fresh}
  BY DEF Admitted
<1>6. \A i \in fresh : /\ item[i] \in Item
                       /\ item[i].ns = ns
                       /\ item[i].seq = NumberOf(fresh, i)
                       /\ item[i].event = batch[i]
                       /\ Time(item[i]) = Ts[batch[i]]
  BY <1>2, <1>3 DEF Item, Time
<1>7. item \in Bijection(fresh, new)
  <2>1. item \in [fresh -> new] /\ \A x \in new : \E i \in fresh : item[i] = x
    BY <1>5
  <2>2. \A i, j \in fresh : item[i] = item[j] => i = j
    BY <1>2, <1>6
  <2> HIDE DEF item, new
  <2> QED BY <2>1, <2>2 DEF Bijection, Injection, Surjection, IsInjective
<1>8. IsFiniteSet(new) /\ Cardinality(new) = Cardinality(fresh)
  <2> HIDE DEF item, new
  <2> QED BY <1>1, <1>7, FS_Bijection DEF ExistsBijection
<1>9. new \subseteq Item
  BY <1>5, <1>6
<1>10. NumberedOnce(new) /\ StoredOnce(new)
  <2> HIDE DEF item, new
  <2> QED BY <1>2, <1>4, <1>5, <1>6 DEF NumberedOnce, StoredOnce
<1>11. \A x \in new : /\ x.ns = ns
                      /\ x.seq > sequence
                      /\ x.seq <= sequence + Cardinality(fresh)
                      /\ x.event \notin fingerprints[ns]
                      /\ Time(x) >= cutoff
                      /\ \E i \in DOMAIN batch : x.event = batch[i]
  <2> HIDE DEF item, new
  <2> QED BY <1>1, <1>2, <1>3, <1>5, <1>6
<1> QED BY <1>8, <1>9, <1>10, <1>11 DEF fresh

(* A recent event of the batch is in the index already or is admitted.     *)
LEMMA RecentEventsAdmitted ==
    ASSUME NEW ns \in Namespaces, NEW batch \in Seq(Events), NEW cutoff \in Int,
           NEW i \in DOMAIN batch, Ts[batch[i]] >= cutoff,
           batch[i] \notin fingerprints[ns]
    PROVE  \E x \in Admitted(ns, batch, Fresh(ns, batch, cutoff)) : x.event = batch[i]
<1> DEFINE same == {j \in DOMAIN batch : batch[j] = batch[i]}
<1>1. same \in SUBSET Nat /\ same # {}
  OBVIOUS
<1>2. PICK j \in same : \A k \in same : j <= k
  <2> HIDE DEF same
  <2> QED BY <1>1, LeastNatural
<1>3. j \in Fresh(ns, batch, cutoff)
  <2>1. j \notin Expired(batch, cutoff)
    BY WindowAssumption DEF Expired
  <2>2. ASSUME NEW k \in 1..(j - 1), batch[k] = batch[j]
        PROVE  FALSE
    <3>1. k \in same /\ k < j
      BY <2>2
    <3> QED BY <1>1, <1>2, <3>1
  <2> QED BY <2>1, <2>2 DEF Fresh
<1> DEFINE fresh == Fresh(ns, batch, cutoff)
<1>4. [ns |-> ns, seq |-> NumberOf(fresh, j), event |-> batch[j]] \in Admitted(ns, batch, fresh)
  <2> HIDE DEF fresh
  <2> QED BY <1>3 DEF Admitted, fresh
<1>5. batch[j] = batch[i]
  BY <1>2
<1> HIDE DEF fresh, same
<1>6. [ns |-> ns, seq |-> NumberOf(fresh, j), event |-> batch[j]].event = batch[i]
  BY <1>5
<1> QED BY <1>4, <1>6 DEF fresh

-----------------------------------------------------------------------------
(* The inductive invariant: the conjunction of the checked invariants.  No *)
(* one of them is inductive alone: the index must match for the batch's    *)
(* events to be stored once, and the newest event must be in the bucket or *)
(* the batch for the watermark to stay tight.                              *)
IInv == /\ TypeOK
        /\ IndexMatchesBuckets
        /\ NoDuplicateEvents
        /\ WatermarkIsNewest
        /\ WithinHorizon
        /\ CapacityBound

LEMMA InitEstablishes == Init => IInv
<1> SUFFICES ASSUME Init PROVE IInv
  OBVIOUS
<1>1. IsFiniteSet(stored) /\ Cardinality(stored) = 0 /\ stored = {}
  BY FS_EmptySet DEF Init
<1>2. TypeOK
  BY <1>1 DEF Init, TypeOK, SequencesUnique, Result, Item, NoWatermark
<1>3. IndexMatchesBuckets /\ WatermarkIsNewest
  BY DEF Init, IndexMatchesBuckets, WatermarkIsNewest, Bucket, EventsOf
<1>4. NoDuplicateEvents /\ WithinHorizon
  BY <1>1 DEF NoDuplicateEvents, WithinHorizon
<1>5. CapacityBound
  BY <1>1, WindowAssumption DEF CapacityBound
<1> QED BY <1>2, <1>3, <1>4, <1>5 DEF IInv

LEMMA WatermarkAsMarks ==
    ASSUME IInv
    PROVE  MarksNewest(stored, watermark)
BY DEF IInv, WatermarkIsNewest, MarksNewest

(* prune_expired keeps the invariant. *)
LEMMA PruneStep ==
    ASSUME IInv, NEW reference \in References, PruneExpired(reference)
    PROVE  IInv' /\ (\A x \in stored \ stored', y \in stored' : x.ns = y.ns => Older(x, y))
<1> DEFINE gone == {x \in stored : Time(x) < reference - Horizon}
<1>1. /\ stored' = stored \ gone
      /\ fingerprints' = Unindexed(fingerprints, stored \ gone, gone)
      /\ watermark' = MarksOfNonEmpty(watermark, stored \ gone)
      /\ sequence' = sequence
      /\ result' = [accepted |-> 0, duplicates |-> 0, expired |-> 0,
                    evicted |-> Cardinality(gone)]
  BY DEF PruneExpired
<1>2. /\ stored \in SUBSET Item /\ gone \in SUBSET stored
      /\ watermark \in [Namespaces -> Nat \cup {NoWatermark}]
      /\ IsFiniteSet(stored)
  BY DEF IInv, TypeOK
<1>3. OldestGone(stored, gone)
  <2>1. reference - Horizon \in Int /\ \A x \in stored : Time(x) \in Nat
    BY <1>2, TimeType, WindowAssumption
  <2> QED BY <2>1 DEF OldestGone, Older
<1>4. /\ IsFiniteSet(stored \ gone) /\ Cardinality(stored \ gone) <= Cardinality(stored)
      /\ IsFiniteSet(gone) /\ Cardinality(gone) \in Nat
      /\ Cardinality(stored \ gone) \in Nat /\ Cardinality(stored) \in Nat
  <2> HIDE DEF gone
  <2> QED BY <1>2, FS_Subset, FS_CardinalityType
<1> HIDE DEF gone
<1>5. IndexMatchesBuckets'
  <2>1. IndexMatches(stored, fingerprints) /\ StoredOnce(stored)
    BY DEF IInv, IndexMatchesBuckets, IndexMatches, NoDuplicateEvents, StoredOnce
  <2>2. IndexMatches(stored \ gone, Unindexed(fingerprints, stored \ gone, gone))
    BY <1>2, <2>1, RemovalKeepsIndex
  <2> QED BY <1>1, <2>2 DEF IndexMatches, IndexMatchesBuckets
<1>6. /\ watermark' \in [Namespaces -> Nat \cup {NoWatermark}]
      /\ WatermarkIsNewest'
  <2>1. /\ watermark' \in [Namespaces -> Nat \cup {NoWatermark}]
        /\ MarksNewest(stored', watermark')
        /\ \A ns \in Namespaces : Bucket(stored', ns) = {} => watermark'[ns] = NoWatermark
    BY <1>1, <1>2, <1>3, WatermarkAsMarks, RemovalKeepsMarks
  <2> QED BY <2>1 DEF MarksNewest, WatermarkIsNewest
<1>7. TypeOK'
  <2>1. fingerprints' \in [Namespaces -> SUBSET Events]
    <3>1. fingerprints \in [Namespaces -> SUBSET Events]
      BY DEF IInv, TypeOK
    <3> QED BY <1>1, <3>1 DEF Unindexed
  <2>2. SequencesUnique'
    BY <1>1 DEF IInv, TypeOK, SequencesUnique
  <2> QED BY <1>1, <1>2, <1>4, <1>6, <2>1, <2>2 DEF IInv, TypeOK, Result
<1>8. NoDuplicateEvents' /\ WithinHorizon'
  BY <1>1, <1>2 DEF IInv, NoDuplicateEvents, WithinHorizon, Time
<1>9. CapacityBound'
  BY <1>1, <1>4, WindowAssumption DEF IInv, CapacityBound
<1>10. \A x \in stored \ stored', y \in stored' : x.ns = y.ns => Older(x, y)
  BY <1>1, <1>3 DEF OldestGone
<1> QED BY <1>5, <1>6, <1>7, <1>8, <1>9, <1>10 DEF IInv

(* append keeps the invariant, removes only the oldest of each namespace   *)
(* and returns counts that add up.                                         *)
LEMMA AppendStep ==
    ASSUME IInv, NEW ns \in Namespaces, NEW batch \in Batches, AppendBatch(ns, batch)
    PROVE  /\ IInv'
           /\ \A x \in stored \ stored', y \in stored' : x.ns = y.ns => Older(x, y)
           /\ Cardinality(stored') = Cardinality(stored) + result'.accepted - result'.evicted
<1> DEFINE mark    == NewWatermark(ns, batch)
           cutoff  == mark - Horizon
           fresh   == Fresh(ns, batch, cutoff)
           new     == Admitted(ns, batch, fresh)
           all     == stored \cup new
           pruned  == Pruned(all, ns, cutoff)
           recent  == all \ pruned
           surplus == OverCapacity(recent)
           gone    == pruned \cup surplus
           index   == [fingerprints EXCEPT ![ns] = @ \cup EventsOf(new)]
           marks   == [watermark EXCEPT ![ns] = mark]
<1>1. /\ batch # <<>>
      /\ stored' = recent \ surplus
      /\ fingerprints' = Unindexed(index, recent \ surplus, gone)
      /\ watermark' = MarksOfNonEmpty(marks, recent \ surplus)
      /\ sequence' = sequence + Cardinality(fresh)
      /\ result'.accepted = Cardinality(fresh)
      /\ result'.evicted = Cardinality(pruned) + Cardinality(surplus)
      /\ result'.expired = Cardinality(Expired(batch, cutoff))
      /\ result' = [accepted   |-> Cardinality(fresh),
             duplicates |-> Len(batch) - Cardinality(fresh) - Cardinality(Expired(batch, cutoff)),
             expired    |-> Cardinality(Expired(batch, cutoff)),
             evicted    |-> Cardinality(pruned) + Cardinality(surplus)]
  BY DEF AppendBatch
<1>2. /\ stored \in SUBSET Item /\ IsFiniteSet(stored) /\ sequence \in Nat
      /\ fingerprints \in [Namespaces -> SUBSET Events]
      /\ watermark \in [Namespaces -> Nat \cup {NoWatermark}]
      /\ batch \in Seq(Events)
  BY WindowAssumption DEF IInv, TypeOK
<1>3. /\ mark \in Nat /\ watermark[ns] <= mark
      /\ \A i \in DOMAIN batch : Ts[batch[i]] <= mark
      /\ mark = watermark[ns] \/ \E i \in DOMAIN batch : Ts[batch[i]] = mark
  <2>1. watermark[ns] \in Nat \cup {NoWatermark}
    BY <1>2
  <2> HIDE DEF mark
  <2> QED BY <1>1, <1>2, <2>1, NewWatermarkIsNewest DEF mark
<1>4. cutoff \in Int /\ mark >= cutoff
  <2> HIDE DEF mark
  <2> QED BY <1>3, WindowAssumption
<1>5. /\ fresh \subseteq DOMAIN batch /\ IsFiniteSet(fresh) /\ Cardinality(fresh) \in Nat
  BY <1>2, FreshIsFinite
<1>6. /\ new \subseteq Item
      /\ IsFiniteSet(new) /\ Cardinality(new) = Cardinality(fresh)
      /\ NumberedOnce(new) /\ StoredOnce(new)
      /\ \A x \in new : /\ x.ns = ns
                        /\ x.seq > sequence
                        /\ x.seq <= sequence + Cardinality(fresh)
                        /\ x.event \notin fingerprints[ns]
                        /\ Time(x) >= cutoff
                        /\ \E i \in DOMAIN batch : x.event = batch[i]
  <2> HIDE DEF cutoff
  <2> QED BY <1>2, <1>4, AdmittedItems
<1>7. ASSUME NEW i \in DOMAIN batch, Ts[batch[i]] >= cutoff
      PROVE  \E x \in all : x.ns = ns /\ x.event = batch[i]
  <2>1. CASE batch[i] \in fingerprints[ns]
    BY <2>1 DEF IInv, IndexMatchesBuckets, EventsOf, Bucket
  <2>2. CASE batch[i] \notin fingerprints[ns]
    <3>1. \E x \in new : x.event = batch[i]
      <4> HIDE DEF cutoff
      <4> QED BY <1>2, <1>4, <1>7, <2>2, RecentEventsAdmitted
    <3> HIDE DEF new
    <3> QED BY <1>6, <3>1
  <2> QED BY <2>1, <2>2
<1>8. \A i \in DOMAIN batch : batch[i] \in Events
  BY <1>2
<1> HIDE DEF mark, cutoff, fresh, new
<1>9. all \in SUBSET Item /\ IsFiniteSet(all)
  BY <1>2, <1>6, FS_Union
<1>10. \A x \in all : x.seq <= sequence + Cardinality(fresh)
  <2>1. \A x \in stored : x.seq \in Nat /\ x.seq <= sequence
    BY <1>2, TimeType DEF IInv, TypeOK, SequencesUnique
  <2> QED BY <1>2, <1>5, <1>6, <2>1
<1>11. NumberedOnce(all)
  <2>1. \A x \in stored : x.seq \in Nat /\ x.seq <= sequence
    BY <1>2, TimeType DEF IInv, TypeOK, SequencesUnique
  <2>2. \A x \in stored, y \in new : x.seq # y.seq
    BY <1>2, <1>6, <2>1
  <2>3. \A x, y \in stored : x.seq = y.seq => x = y
    BY DEF IInv, TypeOK, SequencesUnique
  <2> QED BY <1>6, <2>2, <2>3 DEF NumberedOnce
<1>12. StoredOnce(all)
  <2>1. \A x \in stored : x.event \in fingerprints[x.ns]
    BY <1>2 DEF IInv, IndexMatchesBuckets, EventsOf, Bucket, Item
  <2>2. \A x \in stored, y \in new : ~(x.ns = y.ns /\ x.event = y.event)
    BY <1>6, <2>1
  <2>3. \A x, y \in stored : x.ns = y.ns /\ x.event = y.event => x = y
    BY DEF IInv, NoDuplicateEvents
  <2> QED BY <1>6, <2>2, <2>3 DEF StoredOnce
<1>13. IndexMatches(all, index)
  <2> SUFFICES ASSUME NEW n \in Namespaces PROVE index[n] = EventsOf(Bucket(all, n))
    BY DEF IndexMatches
  <2>1. fingerprints[n] = EventsOf(Bucket(stored, n))
    BY DEF IInv, IndexMatchesBuckets
  <2>2. CASE n = ns
    <3>1. Bucket(all, n) = Bucket(stored, n) \cup new
      BY <1>6, <2>2 DEF Bucket
    <3> QED BY <1>2, <2>1, <2>2, <3>1 DEF EventsOf
  <2>3. CASE n # ns
    <3>1. Bucket(all, n) = Bucket(stored, n)
      BY <1>6, <2>3 DEF Bucket
    <3> QED BY <1>2, <2>1, <2>3, <3>1
  <2> QED BY <2>2, <2>3
<1>14. \A x \in all : Time(x) \in Nat
  BY <1>9, TimeType
<1>15. \A x \in Bucket(all, ns) : Time(x) <= mark
  <2>1. \A x \in new : Time(x) <= mark
    BY <1>3, <1>6 DEF Time
  <2>2. \A x \in Bucket(stored, ns) : Time(x) <= mark
    <3>1. \A x \in Bucket(stored, ns) :
             Time(x) <= watermark[ns] /\ watermark[ns] \in Nat \cup {NoWatermark} /\ Time(x) \in Nat
      BY <1>2, <1>14 DEF IInv, WatermarkIsNewest, Bucket
    <3> QED BY <1>3, <3>1 DEF NoWatermark
  <2> QED BY <2>1, <2>2 DEF Bucket
<1>16. \E x \in Bucket(all, ns) : Time(x) = mark
  <2>1. CASE \E i \in DOMAIN batch : Ts[batch[i]] = mark
    BY <1>4, <1>7, <2>1 DEF Time, Bucket
  <2>2. CASE mark = watermark[ns]
    <3>1. watermark[ns] # NoWatermark
      BY <1>3, <2>2 DEF NoWatermark
    <3> QED BY <2>2, <3>1 DEF IInv, WatermarkIsNewest, Bucket
  <2> QED BY <1>3, <2>1, <2>2
<1>17. MarksNewest(all, marks) /\ marks \in [Namespaces -> Nat \cup {NoWatermark}]
  <2>1. marks \in [Namespaces -> Nat \cup {NoWatermark}]
    BY <1>2, <1>3
  <2>2. marks[ns] = mark /\ \A n \in Namespaces \ {ns} : marks[n] = watermark[n]
    BY <1>2
  <2>3. \A n \in Namespaces \ {ns} : Bucket(all, n) = Bucket(stored, n)
    BY <1>6 DEF Bucket
  <2>4. MarksNewest(stored, watermark)
    BY WatermarkAsMarks
  <2> HIDE DEF marks, all
  <2> QED BY <1>15, <1>16, <2>1, <2>2, <2>3, <2>4 DEF MarksNewest
<1> HIDE DEF all, index, marks
<1>18. recent \in SUBSET Item /\ IsFiniteSet(recent) /\ NumberedOnce(recent)
  BY <1>9, <1>11, FS_Subset DEF NumberedOnce
<1>19. /\ pruned \in SUBSET all /\ surplus \in SUBSET recent /\ gone \in SUBSET all
       /\ recent \ surplus = all \ gone
  BY DEF Pruned, OverCapacity, Bucket
<1>20. OldestGone(all, gone)
  <2> SUFFICES ASSUME NEW x \in gone, NEW y \in all \ gone, x.ns = y.ns
               PROVE  Older(x, y)
    BY DEF OldestGone
  <2>1. CASE x \in pruned
    <3>1. x.ns = ns /\ Time(x) < cutoff /\ ~(Time(y) < cutoff)
      BY <1>19, <2>1 DEF Pruned, Bucket
    <3> QED BY <1>4, <1>14, <1>19, <3>1 DEF Older
  <2>2. CASE x \in surplus
    <3>1. y \in recent \ surplus
      BY <1>19
    <3> QED BY <1>18, <2>2, <3>1, CapacityEvictsOldest
  <2> QED BY <2>1, <2>2
<1>21. StoredOnce(all) /\ IndexMatches(all, index) /\ MarksNewest(all, marks)
  BY <1>12, <1>13, <1>17
<1>22. /\ IsFiniteSet(pruned) /\ IsFiniteSet(surplus)
       /\ Cardinality(pruned) \in Nat /\ Cardinality(surplus) \in Nat
       /\ Cardinality(recent) = Cardinality(all) - Cardinality(pruned)
       /\ Cardinality(recent \ surplus) = Cardinality(recent) - Cardinality(surplus)
       /\ IsFiniteSet(recent \ surplus)
  <2>1. pruned \in SUBSET all /\ surplus \in SUBSET recent /\ recent = all \ pruned
    BY <1>19 DEF recent
  <2>2. IsFiniteSet(all)
    BY <1>9
  <2> HIDE DEF pruned, surplus, recent
  <2>3. /\ IsFiniteSet(pruned) /\ Cardinality(pruned) \in Nat /\ IsFiniteSet(recent)
        /\ Cardinality(recent) = Cardinality(all) - Cardinality(pruned)
    BY <2>1, <2>2, RemovalCounts
  <2>4. /\ IsFiniteSet(surplus) /\ Cardinality(surplus) \in Nat /\ IsFiniteSet(recent \ surplus)
        /\ Cardinality(recent \ surplus) = Cardinality(recent) - Cardinality(surplus)
    BY <2>1, <2>3, RemovalCounts
  <2> QED BY <2>3, <2>4
<1>23. stored' = all \ gone /\ fingerprints' = Unindexed(index, all \ gone, gone)
       /\ watermark' = MarksOfNonEmpty(marks, all \ gone)
  BY <1>1, <1>19 DEF all, index, marks
<1>24. IndexMatchesBuckets'
  <2>1. IndexMatches(all \ gone, Unindexed(index, all \ gone, gone))
    <3> HIDE DEF gone
    <3> QED BY <1>9, <1>19, <1>21, RemovalKeepsIndex
  <2> QED BY <1>23, <2>1 DEF IndexMatches, IndexMatchesBuckets
<1>25. /\ watermark' \in [Namespaces -> Nat \cup {NoWatermark}]
       /\ MarksNewest(stored', watermark')
       /\ \A n \in Namespaces : Bucket(stored', n) = {} => watermark'[n] = NoWatermark
  <2> HIDE DEF gone
  <2> QED BY <1>9, <1>17, <1>19, <1>20, <1>21, <1>23, RemovalKeepsMarks
<1>26. WatermarkIsNewest'
  BY <1>25 DEF MarksNewest, WatermarkIsNewest
<1>27. stored' \in SUBSET Item /\ IsFiniteSet(stored') /\ sequence' \in Nat
  BY <1>1, <1>2, <1>5, <1>18, <1>19, <1>22
<1>28. TypeOK'
  <2>1. fingerprints' \in [Namespaces -> SUBSET Events]
    <3>1. EventsOf(new) \subseteq Events
      BY <1>6, <1>8 DEF EventsOf
    <3>2. index \in [Namespaces -> SUBSET Events]
      BY <1>2, <3>1 DEF index
    <3> QED BY <1>23, <3>2 DEF Unindexed
  <2>2. result' \in Result
    <3> DEFINE expired == Expired(batch, cutoff)
    <3>1. /\ fresh \cap expired = {} /\ fresh \cup expired \in SUBSET (1..Len(batch))
          /\ Len(batch) \in Nat
      BY <1>2, <1>5 DEF fresh, Fresh, Expired
    <3>2. /\ IsFiniteSet(1..Len(batch)) /\ Cardinality(1..Len(batch)) = Len(batch)
      <4>1. 1 \in Int /\ Len(batch) \in Int
        BY <3>1
      <4>2. /\ IsFiniteSet(1..Len(batch))
            /\ Cardinality(1..Len(batch)) = IF 1 > Len(batch) THEN 0 ELSE Len(batch) - 1 + 1
        BY <4>1, FS_Interval
      <4> QED BY <3>1, <4>2
    <3> HIDE DEF expired
    <3>3. expired \in SUBSET (1..Len(batch)) /\ IsFiniteSet(expired) /\ Cardinality(expired) \in Nat
      BY <3>1, <3>2, FS_Subset, FS_CardinalityType
    <3>4. Cardinality(fresh \cup expired) = Cardinality(fresh) + Cardinality(expired)
      <4>1. Cardinality(fresh \cup expired)
              = Cardinality(fresh) + Cardinality(expired) - Cardinality(fresh \cap expired)
        BY <1>5, <3>3, FS_Union
      <4>2. Cardinality(fresh \cap expired) = 0
        BY <3>1, FS_EmptySet
      <4> QED BY <1>5, <3>3, <4>1, <4>2
    <3>5. Cardinality(fresh \cup expired) <= Len(batch)
      BY <3>1, <3>2, FS_Subset
    <3>6. Len(batch) - Cardinality(fresh) - Cardinality(expired) \in Nat
      BY <1>5, <3>1, <3>3, <3>4, <3>5
    <3> QED BY <1>1, <1>5, <1>22, <3>3, <3>6 DEF Result, expired, pruned, surplus, recent, all,
                                              fresh, new, cutoff, mark
  <2>3. SequencesUnique'
    BY <1>1, <1>10, <1>11, <1>23 DEF NumberedOnce, SequencesUnique, fresh
  <2> QED BY <1>25, <1>27, <2>1, <2>2, <2>3 DEF TypeOK
<1>29. NoDuplicateEvents'
  BY <1>21, <1>23 DEF StoredOnce, NoDuplicateEvents
<1>30. WithinHorizon'
  <2> SUFFICES ASSUME NEW x \in stored', NEW y \in stored', x.ns = y.ns
               PROVE  Time(y) - Time(x) <= Horizon
    BY DEF WithinHorizon, Time
  <2>1. x \in all /\ y \in all /\ Time(x) \in Nat /\ Time(y) \in Nat
    BY <1>14, <1>23
  <2>2. CASE x.ns = ns
    <3>1. ~(Time(x) < cutoff)
      BY <1>19, <1>23, <2>1, <2>2 DEF Pruned, Bucket
    <3>2. Time(y) <= mark
      BY <1>15, <2>1, <2>2 DEF Bucket
    <3>3. cutoff = mark - Horizon
      BY DEF cutoff, mark
    <3> QED BY <1>3, <1>4, <2>1, <3>1, <3>2, <3>3, WindowAssumption
  <2>3. CASE x.ns # ns
    <3>1. x \in stored /\ y \in stored
      BY <1>6, <2>1, <2>3 DEF all
    <3> QED BY <3>1 DEF IInv, WithinHorizon
  <2> QED BY <2>2, <2>3
<1>31. CapacityBound'
  <2> HIDE DEF recent
  <2> QED BY <1>18, <1>19, <1>23, CapacityEnforced DEF CapacityBound, surplus
<1>32. \A x \in stored \ stored', y \in stored' : x.ns = y.ns => Older(x, y)
  <2>1. stored \ stored' \subseteq gone
    BY <1>23 DEF all
  <2> QED BY <1>20, <1>23, <2>1 DEF OldestGone
<1>33. Cardinality(stored') = Cardinality(stored) + result'.accepted - result'.evicted
  <2>1. stored \cap new = {}
    <3>1. \A x \in stored : x.seq \in Nat /\ x.seq <= sequence
      BY <1>2, TimeType DEF IInv, TypeOK, SequencesUnique
    <3> QED BY <1>2, <1>6, <3>1
  <2>2. Cardinality(all) = Cardinality(stored) + Cardinality(new)
    <3>1. Cardinality(stored \cup new)
            = Cardinality(stored) + Cardinality(new) - Cardinality(stored \cap new)
      BY <1>2, <1>6, FS_Union
    <3>2. Cardinality(stored \cap new) = 0
      BY <2>1, FS_EmptySet
    <3>3. Cardinality(stored) \in Nat /\ Cardinality(new) \in Nat
      BY <1>2, <1>5, <1>6, FS_CardinalityType
    <3> QED BY <3>1, <3>2, <3>3 DEF all
  <2>3. /\ result'.accepted = Cardinality(fresh)
        /\ result'.evicted = Cardinality(pruned) + Cardinality(surplus)
    BY <1>1 DEF all, new, fresh, cutoff, mark
  <2>4. Cardinality(stored) \in Nat /\ Cardinality(all) \in Nat
    BY <1>2, <1>9, FS_CardinalityType
  <2>5. Cardinality(stored') = Cardinality(all) - Cardinality(pruned) - Cardinality(surplus)
    BY <1>19, <1>22, <1>23
  <2> HIDE DEF pruned, surplus
  <2> QED BY <1>5, <1>6, <1>22, <2>2, <2>3, <2>4, <2>5 DEF pruned, surplus
<1> QED BY <1>24, <1>26, <1>28, <1>29, <1>30, <1>31, <1>32, <1>33 DEF IInv

-----------------------------------------------------------------------------
(* Every step, and stuttering, keeps the invariant; what it removes is     *)
(* older than what it keeps, and its counts explain the change of size.    *)
LEMMA NextStep ==
    ASSUME IInv, [Next]_vars
    PROVE  /\ IInv'
           /\ \A x \in stored \ stored', y \in stored' : x.ns = y.ns => Older(x, y)
           /\ vars' # vars =>
                Cardinality(stored') = Cardinality(stored) + result'.accepted - result'.evicted
<1>0. Cardinality(stored) \in Nat
  BY FS_CardinalityType DEF IInv, TypeOK
<1>1. CASE AppendNothing
  <2>1. UNCHANGED <<stored, fingerprints, watermark, sequence>> /\ result' \in Result
        /\ result'.accepted = 0 /\ result'.evicted = 0
    BY <1>1 DEF AppendNothing, Result
  <2>2. TypeOK' /\ IndexMatchesBuckets' /\ WatermarkIsNewest'
    BY <2>1 DEF IInv, TypeOK, SequencesUnique, IndexMatchesBuckets, WatermarkIsNewest, Time
  <2>3. NoDuplicateEvents' /\ WithinHorizon' /\ CapacityBound'
    BY <2>1 DEF IInv, NoDuplicateEvents, WithinHorizon, CapacityBound, Time
  <2> QED BY <1>0, <2>1, <2>2, <2>3 DEF IInv
<1>2. ASSUME NEW ns \in Namespaces, NEW batch \in Batches, AppendBatch(ns, batch)
      PROVE  /\ IInv'
             /\ \A x \in stored \ stored', y \in stored' : x.ns = y.ns => Older(x, y)
             /\ Cardinality(stored') = Cardinality(stored) + result'.accepted - result'.evicted
  BY <1>2, AppendStep
<1>3. ASSUME NEW reference \in References, PruneExpired(reference)
      PROVE  /\ IInv'
             /\ \A x \in stored \ stored', y \in stored' : x.ns = y.ns => Older(x, y)
             /\ Cardinality(stored') = Cardinality(stored) + result'.accepted - result'.evicted
  <2> DEFINE gone == {x \in stored : Time(x) < reference - Horizon}
  <2>1. stored' = stored \ gone /\ result'.accepted = 0 /\ result'.evicted = Cardinality(gone)
    BY <1>3 DEF PruneExpired
  <2>2. gone \in SUBSET stored /\ stored \cap gone = gone /\ IsFiniteSet(stored)
    BY DEF IInv, TypeOK
  <2>3. Cardinality(stored') = Cardinality(stored) - Cardinality(gone) /\ Cardinality(gone) \in Nat
    <3> HIDE DEF gone
    <3>1. /\ Cardinality(gone) \in Nat
          /\ Cardinality(stored \ gone) = Cardinality(stored) - Cardinality(gone)
      BY <2>2, RemovalCounts
    <3> QED BY <2>1, <3>1
  <2> HIDE DEF gone
  <2> QED BY <1>0, <1>3, <2>1, <2>3, PruneStep
<1>4. CASE UNCHANGED vars
  <2>1. UNCHANGED <<stored, fingerprints, watermark, sequence, result>>
    BY <1>4 DEF vars
  <2>2. TypeOK' /\ IndexMatchesBuckets' /\ WatermarkIsNewest'
    BY <2>1 DEF IInv, TypeOK, SequencesUnique, IndexMatchesBuckets, WatermarkIsNewest, Time
  <2>3. NoDuplicateEvents' /\ WithinHorizon' /\ CapacityBound'
    BY <2>1 DEF IInv, NoDuplicateEvents, WithinHorizon, CapacityBound, Time
  <2> QED BY <1>4, <2>1, <2>2, <2>3 DEF IInv
<1> QED BY <1>1, <1>2, <1>3, <1>4 DEF Next

(* The inductive invariant holds in every reachable state. *)
THEOREM Invariance == Spec => []IInv
<1>1. IInv /\ [Next]_vars => IInv'
  BY NextStep
<1> QED BY <1>1, InitEstablishes, PTL DEF Spec

(* Type correctness of the window store. *)
THEOREM TypeCorrect == Spec => []TypeOK
<1>1. IInv => TypeOK
  BY DEF IInv
<1> QED BY <1>1, Invariance, PTL

(* The duplicate index always matches the buckets, whatever mix of appends, *)
(* expiry and evictions ran.                                               *)
THEOREM IndexExact == Spec => []IndexMatchesBuckets
<1>1. IInv => IndexMatchesBuckets
  BY DEF IInv
<1> QED BY <1>1, Invariance, PTL

(* No namespace holds the same event twice. *)
THEOREM NothingTwice == Spec => []NoDuplicateEvents
<1>1. IInv => NoDuplicateEvents
  BY DEF IInv
<1> QED BY <1>1, Invariance, PTL

(* (ts, sequence) is a strict total order of the store. *)
THEOREM OrderTotal == Spec => []SequencesUnique
<1>1. IInv => SequencesUnique
  BY DEF IInv, TypeOK
<1> QED BY <1>1, Invariance, PTL

(* The watermark is the newest retained time. *)
THEOREM WatermarkExact == Spec => []WatermarkIsNewest
<1>1. IInv => WatermarkIsNewest
  BY DEF IInv
<1> QED BY <1>1, Invariance, PTL

(* Every namespace spans at most one horizon. *)
THEOREM HorizonKept == Spec => []WithinHorizon
<1>1. IInv => WithinHorizon
  BY DEF IInv
<1> QED BY <1>1, Invariance, PTL

(* max_events bounds the whole store after every call. *)
THEOREM Bounded == Spec => []CapacityBound
<1>1. IInv => CapacityBound
  BY DEF IInv
<1> QED BY <1>1, Invariance, PTL

(* Expiry and eviction only ever remove the oldest events of a namespace.  *)
THEOREM OldestFirst == Spec => OldestLeaveFirst
<1>1. IInv /\ [Next]_vars
        => [\A x \in stored \ stored' : \A y \in stored' : x.ns = y.ns => Older(x, y)]_vars
  BY NextStep
<1> QED BY <1>1, Invariance, PTL DEF Spec, OldestLeaveFirst

(* The returned counts explain every change of size. *)
THEOREM CountsExact == Spec => CountsAccountForSize
<1>1. IInv /\ [Next]_vars
        => [Cardinality(stored') = Cardinality(stored) + result'.accepted - result'.evicted]_vars
  BY NextStep
<1> QED BY <1>1, Invariance, PTL DEF Spec, CountsAccountForSize

(* A namespace that keeps holding events never has its watermark go back.  *)
THEOREM WatermarkNeverBack == Spec => WatermarkMonotone
<1>1. ASSUME IInv, [Next]_vars, NEW ns \in Namespaces,
             Bucket(stored, ns) # {}, Bucket(stored', ns) # {}
      PROVE  watermark'[ns] >= watermark[ns]
  <2>0. watermark[ns] \in Int
    BY <1>1 DEF IInv, TypeOK, NoWatermark
  <2>1. CASE AppendNothing \/ UNCHANGED vars
    BY <2>0, <2>1 DEF AppendNothing, vars
  <2>2. ASSUME NEW n \in Namespaces, NEW batch \in Batches, AppendBatch(n, batch)
        PROVE  watermark'[ns] >= watermark[ns]
    <3>1. watermark'[ns] = [watermark EXCEPT ![n] = NewWatermark(n, batch)][ns]
      BY <1>1, <2>2 DEF AppendBatch, MarksOfNonEmpty
    <3>2. watermark \in [Namespaces -> Nat \cup {NoWatermark}] /\ batch \in Seq(Events)
          /\ batch # <<>>
      BY <1>1, <2>2, WindowAssumption DEF IInv, TypeOK, AppendBatch
    <3>3. watermark[n] <= NewWatermark(n, batch) /\ NewWatermark(n, batch) \in Nat
      BY <3>2, NewWatermarkIsNewest
    <3> QED BY <2>0, <3>1, <3>2, <3>3
  <2>3. ASSUME NEW reference \in References, PruneExpired(reference)
        PROVE  watermark'[ns] >= watermark[ns]
    BY <1>1, <2>0, <2>3 DEF PruneExpired, MarksOfNonEmpty
  <2> QED BY <1>1, <2>1, <2>2, <2>3 DEF Next
<1>2. IInv /\ [Next]_vars
        => [\A ns \in Namespaces :
              Bucket(stored, ns) # {} /\ Bucket(stored', ns) # {}
                 => watermark'[ns] >= watermark[ns]]_vars
  BY <1>1
<1> QED BY <1>2, Invariance, PTL DEF Spec, WatermarkMonotone
=============================================================================
