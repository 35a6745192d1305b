----------------------------- MODULE FindingDedup -----------------------------
(***************************************************************************)
(* FindingDeduplicator of src/ai_soc_agent/dedup.py as operators on its    *)
(* one piece of state, the OrderedDict _accepted_at: a sequence of         *)
(* [fingerprint, at] entries, the one next in line for popitem(last=False) *)
(* first.                                                                  *)
(***************************************************************************)
EXTENDS Subsequences

CONSTANTS Cooldown,      \* cooldown
          MaxEntries,    \* max_entries
          NoFingerprint  \* the fingerprint of a finding that has none

ASSUME DedupAssumption ==
    /\ Cooldown \in Nat \ {0}
    /\ MaxEntries \in Nat \ {0}

Holds(entries, fingerprint) ==
    \E i \in DOMAIN entries : entries[i].fingerprint = fingerprint

(* Mutant: the cutoff is the present, not one cooldown ago. *)
OnlyThisInstant(entries, now) == AtIndices(entries, {i \in DOMAIN entries : entries[i].at >= now})

(* _prune: an entry goes once a full cooldown has passed. *)
Unexpired(entries, now) ==
    AtIndices(entries, {i \in DOMAIN entries : entries[i].at > now - Cooldown})

(* Mutant: the decision is taken before the expired entries are pruned. *)
AcceptsUnknown(entries, fingerprint, now) == ~Holds(entries, fingerprint)

(* The decision of accept(): a finding is suppressed only while its last   *)
(* acceptance is less than a cooldown old.                                 *)
Accepts(entries, fingerprint, now) ==
    \/ fingerprint = NoFingerprint
    \/ \A i \in DOMAIN Unexpired(entries, now) :
          LET entry == Unexpired(entries, now)[i]
          IN entry.fingerprint = fingerprint => now - entry.at >= Cooldown

(* Mutants: popitem with its default end, or no popitem at all. *)
DropNewest(entries) == SubSeq(entries, 1, IF Len(entries) > MaxEntries THEN MaxEntries ELSE Len(entries))
KeepAll(entries) == entries

(* popitem(last=False) while there are too many. *)
Trimmed(entries) ==
    IF Len(entries) > MaxEntries
    THEN SubSeq(entries, Len(entries) - MaxEntries + 1, Len(entries))
    ELSE entries

(* The list without what it has of one fingerprint. *)
Without(list, fingerprint) ==
    AtIndices(list, {i \in DOMAIN list : list[i].fingerprint # fingerprint})

(* _accepted_at after accept(). *)
Remembered(entries, fingerprint, now) ==
    LET live == Unexpired(entries, now)
    IN IF fingerprint = NoFingerprint THEN entries
       ELSE IF ~Accepts(entries, fingerprint, now) THEN live
       ELSE Trimmed(Append(Without(live, fingerprint), [fingerprint |-> fingerprint, at |-> now]))
=============================================================================
