----------------------------- MODULE EventWindow -----------------------------
(***************************************************************************)
(* The bounded event-time window of src/ai_soc_agent/state.py: one         *)
(* WindowStateStore holding, for each namespace, the deduplicated events   *)
(* within `horizon` of that namespace's newest event.                      *)
(*                                                                         *)
(* An event is identified with its fingerprint (SHA-256 of its canonical   *)
(* form), so Events is the set of distinguishable events and Ts[e] is the  *)
(* event's timestamp.  The lists self._events[ns] are always sorted by     *)
(* (ts, sequence), sequence numbers are unique, and the store only removes *)
(* list prefixes; the lists are therefore kept here as one set of records  *)
(* [ns, seq, event] with the order Older.  The caller holds a lock around  *)
(* every operation, so each operation is one step.                         *)
(***************************************************************************)
EXTENDS Integers, Sequences, FiniteSets, FiniteSetsExt

CONSTANTS Namespaces,   \* namespace strings callers use
          Events,       \* distinguishable events (fingerprints)
          Ts,           \* [Events -> Nat]: event time
          Horizon,      \* horizon, in the unit of Ts
          MaxEvents,    \* max_events, over all namespaces
          Batches,      \* the event lists callers may append
          References,   \* the reference times callers may prune with
          MaxSequence   \* bound on the sequence counter (state space only)

ASSUME WindowAssumption ==
    /\ Ts \in [Events -> Nat]
    /\ Horizon \in Nat \ {0}
    /\ MaxEvents \in Nat \ {0}
    /\ Batches \subseteq Seq(Events)
    /\ References \subseteq Int
    /\ MaxSequence \in Nat

VARIABLES stored,        \* all buckets: a set of Items
          fingerprints,  \* self._fingerprints, {} where the key is absent
          watermark,     \* self._watermarks, NoWatermark where absent
          sequence,      \* self._sequence
          result         \* the counts the last call returned

vars == <<stored, fingerprints, watermark, sequence, result>>

NoWatermark == -1

Item == [ns : Namespaces, seq : Nat \ {0}, event : Events]

Result == [accepted : Nat, duplicates : Nat, expired : Nat, evicted : Nat]

Time(item) == Ts[item.event]

(* The sort key (item.event.ts, item.sequence) of every bucket. *)
Older(x, y) == \/ Time(x) < Time(y)
               \/ Time(x) = Time(y) /\ x.seq < y.seq

Bucket(items, ns) == {x \in items : x.ns = ns}

EventsOf(items) == {x.event : x \in items}

Init == /\ stored = {}
        /\ fingerprints = [ns \in Namespaces |-> {}]
        /\ watermark = [ns \in Namespaces |-> NoWatermark]
        /\ sequence = 0
        /\ result = [accepted |-> 0, duplicates |-> 0, expired |-> 0, evicted |-> 0]

-----------------------------------------------------------------------------
(* What append() works out for a batch before it stores anything. *)

(* Mutant: the previous mark is forgotten.                                 *)
BatchWatermark(ns, batch) == Max({Ts[batch[i]] : i \in DOMAIN batch})

(* The newest of the incoming times and the namespace's previous mark. *)
NewWatermark(ns, batch) ==
    Max({Ts[batch[i]] : i \in DOMAIN batch} \cup {watermark[ns]})

Expired(batch, cutoff) == {i \in DOMAIN batch : Ts[batch[i]] < cutoff}

(* Mutant: the index is brought up to date only after the whole batch.     *)
FreshBeforeBatch(ns, batch, cutoff) ==
    {i \in DOMAIN batch \ Expired(batch, cutoff) : batch[i] \notin fingerprints[ns]}

(* Indices stored: recent enough, not in the index, and not a repetition  *)
(* of an event earlier in the same batch.                                  *)
Fresh(ns, batch, cutoff) ==
    {i \in DOMAIN batch \ Expired(batch, cutoff) :
        /\ batch[i] \notin fingerprints[ns]
        /\ \A j \in 1..(i - 1) : batch[j] # batch[i]}

(* Mutant: the counter moves once per batch. *)
SeqPerBatch(fresh, i) == sequence + 1

(* Each stored index takes the next sequence number, in list order. *)
NumberOf(fresh, i) == sequence + Cardinality({j \in fresh : j <= i})

(* Mutant: an event another namespace holds is counted but not stored.     *)
AdmittedOnce(ns, batch, fresh) ==
    {[ns |-> ns, seq |-> NumberOf(fresh, i), event |-> batch[i]]
        : i \in {j \in fresh : batch[j] \notin EventsOf(stored)}}

Admitted(ns, batch, fresh) ==
    {[ns |-> ns, seq |-> NumberOf(fresh, i), event |-> batch[i]] : i \in fresh}

(* Mutant: nothing expires once stored. *)
NothingPruned(items, ns, cutoff) == {}

(* _prune_namespace: the prefix of the bucket older than the cutoff goes. *)
Pruned(items, ns, cutoff) == {x \in Bucket(items, ns) : Time(x) < cutoff}

(* _enforce_capacity: the oldest item over all namespaces goes until       *)
(* MaxEvents remain, so an item stays iff fewer than MaxEvents are newer.  *)
NewerReversed(items, x) == {y \in items : Older(y, x)}   \* mutant
Newer(items, x) == {y \in items : Older(x, y)}

OverCapacityByOne(items) ==                               \* mutant
    {x \in items : Cardinality(Newer(items, x)) > MaxEvents}
OverCapacity(items) == {x \in items : Cardinality(Newer(items, x)) >= MaxEvents}

(* Mutant: removals are not discarded from the index. *)
UnindexedStale(index, kept, gone) ==
    [ns \in Namespaces |-> IF Bucket(kept, ns) = {} THEN {} ELSE index[ns]]

(* The index after the removals in `gone` are discarded from it, and       *)
(* _drop_empty_namespaces has popped the entries of empty buckets.         *)
Unindexed(index, kept, gone) ==
    [ns \in Namespaces |->
        IF Bucket(kept, ns) = {} THEN {}
        ELSE index[ns] \ EventsOf(Bucket(gone, ns))]

MarksOfNonEmpty(marks, kept) ==
    [ns \in Namespaces |-> IF Bucket(kept, ns) = {} THEN NoWatermark ELSE marks[ns]]

-----------------------------------------------------------------------------
(* WindowStateStore.append.  An empty batch returns before touching the    *)
(* store.                                                                   *)
AppendNothing ==
    /\ <<>> \in Batches
    /\ result' = [accepted |-> 0, duplicates |-> 0, expired |-> 0, evicted |-> 0]
    /\ UNCHANGED <<stored, fingerprints, watermark, sequence>>

AppendBatch(ns, batch) ==
    LET mark    == NewWatermark(ns, batch)
        cutoff  == mark - Horizon
        fresh   == Fresh(ns, batch, cutoff)
        new     == Admitted(ns, batch, fresh)
        pruned  == Pruned(stored \cup new, ns, cutoff)
        recent  == (stored \cup new) \ pruned
        surplus == OverCapacity(recent)
        kept    == recent \ surplus
    IN /\ batch # <<>>
       /\ sequence + Len(batch) <= MaxSequence
       /\ stored' = kept
       /\ fingerprints' =
            Unindexed([fingerprints EXCEPT ![ns] = @ \cup EventsOf(new)],
                      kept, pruned \cup surplus)
       /\ watermark' = MarksOfNonEmpty([watermark EXCEPT ![ns] = mark], kept)
       /\ sequence' = sequence + Cardinality(fresh)
       /\ result' =
            [accepted   |-> Cardinality(fresh),
             duplicates |-> Len(batch) - Cardinality(fresh) - Cardinality(Expired(batch, cutoff)),
             expired    |-> Cardinality(Expired(batch, cutoff)),
             evicted    |-> Cardinality(pruned) + Cardinality(surplus)]

(* WindowStateStore.prune_expired with an explicit or clock reference.     *)
PruneExpired(reference) ==
    LET gone == {x \in stored : Time(x) < reference - Horizon}
        kept == stored \ gone
    IN /\ stored' = kept
       /\ fingerprints' = Unindexed(fingerprints, kept, gone)
       /\ watermark' = MarksOfNonEmpty(watermark, kept)
       /\ result' = [accepted |-> 0, duplicates |-> 0, expired |-> 0,
                     evicted |-> Cardinality(gone)]
       /\ UNCHANGED sequence

Next == \/ AppendNothing
        \/ \E ns \in Namespaces, batch \in Batches : AppendBatch(ns, batch)
        \/ \E reference \in References : PruneExpired(reference)

Spec == Init /\ [][Next]_vars

(* snapshot(ns, limit): the newest `limit` items of the bucket, as a set.   *)
Snapshot(ns, limit) ==
    LET bucket == Bucket(stored, ns)
    IN {x \in bucket : Cardinality(Newer(bucket, x)) < limit}

-----------------------------------------------------------------------------
(* Properties *)

(* Sequence numbers are unique and already issued: (ts, sequence) is a     *)
(* total order, over all namespaces.                                       *)
SequencesUnique ==
    /\ \A x \in stored : x.seq <= sequence
    /\ \A x, y \in stored : x.seq = y.seq => x = y

(* Types, with the order that keeps the buckets sorted. *)
TypeOK ==
    /\ stored \in SUBSET Item
    /\ IsFiniteSet(stored)
    /\ fingerprints \in [Namespaces -> SUBSET Events]
    /\ watermark \in [Namespaces -> Nat \cup {NoWatermark}]
    /\ sequence \in Nat /\ SequencesUnique
    /\ result \in Result

(* The duplicate index holds exactly the fingerprints of the events that   *)
(* are still in the bucket: a stale entry would silently drop a fresh      *)
(* event, a missing one would count an event twice in a rule's window.     *)
IndexMatchesBuckets ==
    \A ns \in Namespaces : fingerprints[ns] = EventsOf(Bucket(stored, ns))

(* No event is stored twice in a namespace, so `event_count` thresholds    *)
(* count distinct events.                                                  *)
NoDuplicateEvents ==
    \A x, y \in stored : x.ns = y.ns /\ x.event = y.event => x = y

(* A namespace's watermark is the time of the newest event it holds, and   *)
(* it has none when it holds nothing.                                      *)
WatermarkIsNewest ==
    \A ns \in Namespaces :
        IF Bucket(stored, ns) = {}
        THEN watermark[ns] = NoWatermark
        ELSE /\ \E x \in Bucket(stored, ns) : Time(x) = watermark[ns]
             /\ \A x \in Bucket(stored, ns) : Time(x) <= watermark[ns]

(* Everything a namespace holds lies within one horizon.                   *)
WithinHorizon ==
    \A x, y \in stored : x.ns = y.ns => Time(y) - Time(x) <= Horizon

(* max_events bounds the store over all namespaces together.               *)
CapacityBound == Cardinality(stored) <= MaxEvents

(* Whatever leaves a namespace, by expiry or by capacity, is older than    *)
(* everything the namespace keeps or gains in the same call: rules that    *)
(* look at the newest events never see a gap.                              *)
OldestLeaveFirst ==
    [][\A x \in stored \ stored' : \A y \in stored' :
          x.ns = y.ns => Older(x, y)]_vars

(* While a namespace holds events its watermark never goes back, so an     *)
(* event once judged expired is not accepted later by the same window.     *)
WatermarkMonotone ==
    [][\A ns \in Namespaces :
          Bucket(stored, ns) # {} /\ Bucket(stored', ns) # {}
              => watermark'[ns] >= watermark[ns]]_vars

(* The counts append() and prune_expired() return account for every        *)
(* change of size.                                                         *)
CountsAccountForSize ==
    [][Cardinality(stored') =
          Cardinality(stored) + result'.accepted - result'.evicted]_vars
=============================================================================
