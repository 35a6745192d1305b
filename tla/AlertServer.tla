----------------------------- MODULE AlertServer -----------------------------
(***************************************************************************)
(* The /ingest endpoint of src/ai_soc_agent/server.py with its alert store *)
(* and the optional SQLite repository of persistence.py.                   *)
(*                                                                         *)
(* FastAPI runs the synchronous endpoint on a thread pool, so requests     *)
(* interleave.  A request holds store.lock twice: once to append its       *)
(* events and take a snapshot, once to merge what it correlated from that  *)
(* snapshot; correlation itself runs between the two, unlocked.  Within    *)
(* the second section the repository commits before store.alerts is        *)
(* assigned, which are two steps here so that the process may die between  *)
(* them.                                                                   *)
(***************************************************************************)
EXTENDS Subsequences

CONSTANTS Threads,               \* worker threads serving /ingest
          Events, Ts, Horizon, MaxEvents, Batches, MaxSequence,  \* see EventWindow
          Default,               \* the one namespace the server uses
          MaxCorrelationEvents,  \* max_correlation_events
          AlertIds,              \* (kind, actor) identities, numbered in text order
          Correlate(_),          \* correlate(): event set -> sequence of alerts
          MaxAlertsChoices,      \* the values of max_alerts it may be started with
          Durable,               \* whether SOC_ALERT_DB configures a repository
          MaxCorruptRows,        \* rows found malformed at one restart
          MaxFaults              \* bound on crashes and failed commits

Alert == [id : AlertIds, count : Nat \ {0}, last : Nat]

(* Correlate returns alerts of distinct identities, in correlate()'s order, *)
(* and none for no events.                                                  *)
ASSUME ServerAssumption ==
    /\ Ts \in [Events -> Nat]
    /\ Horizon \in Nat \ {0}
    /\ MaxEvents \in Nat \ {0}
    /\ Batches \subseteq Seq(Events)
    /\ MaxSequence \in Nat
    /\ MaxCorrelationEvents \in Nat \ {0}
    /\ AlertIds \subseteq Nat
    /\ \A S \in SUBSET Events :
          LET found == Correlate(S)
          IN  /\ S = {} => found = <<>>
              /\ DOMAIN found = 1..Len(found)
              /\ Len(found) \in Nat
              /\ \A i \in DOMAIN found : found[i] \in Alert
              /\ \A i, j \in DOMAIN found : found[i].id = found[j].id => i = j
    /\ MaxAlertsChoices \subseteq Nat \ {0}
    /\ Durable \in BOOLEAN
    /\ MaxCorruptRows \in Nat
    /\ MaxFaults \in Nat

VARIABLES stored, fingerprints, watermark, sequence, result,  \* store.event_state
          alerts,      \* store.alerts: identity -> alert
          order,       \* the insertion order of that dict
          max_alerts,  \* the capacity create_app was given
          disk,        \* the repository's table: identity -> alert
          up,          \* the process is running
          pc,          \* where each thread is in ingest()
          candidates,  \* candidates[t]: the snapshot t correlates
          pending,     \* pending[t]: next_alerts between commit and assignment
          faults,      \* crashes and failed commits so far
          latest,      \* history: the thread that appended last
          covered      \* history: that request has committed

window == <<stored, fingerprints, watermark, sequence, result>>
memory == <<alerts, order>>
vars == <<window, memory, max_alerts, disk, up, pc, candidates, pending, faults, latest, covered>>

W == INSTANCE EventWindow WITH Namespaces <- {Default}, References <- {}

NoDict == [alerts |-> <<>>, order |-> <<>>]

Only(f, S) == [x \in DOMAIN f \cap S |-> f[x]]

Init == /\ W!Init
        /\ alerts = <<>> /\ order = <<>>
        /\ max_alerts \in MaxAlertsChoices
        /\ disk = <<>>
        /\ up = TRUE
        /\ pc = [t \in Threads |-> "idle"]
        /\ candidates = [t \in Threads |-> {}]
        /\ pending = [t \in Threads |-> NoDict]
        /\ faults = 0
        /\ latest \in Threads
        /\ covered = TRUE

(* store.lock is held across the commit and the assignment only.           *)
LockFree == \A t \in Threads : pc[t] # "publishing"

-----------------------------------------------------------------------------
(* First locked section: append, then snapshot.  An empty list answers 400 *)
(* and one longer than max_events 413, both before the lock.               *)
Ingest(t, batch) ==
    /\ up /\ LockFree
    /\ pc[t] = "idle"
    /\ Len(batch) \in 1..MaxEvents
    /\ W!AppendBatch(Default, batch)
    /\ candidates' = [candidates EXCEPT
           ![t] = W!EventsOf(W!Snapshot(Default, MaxCorrelationEvents)')]
    /\ pc' = [pc EXCEPT ![t] = "correlated"]
    /\ latest' = t /\ covered' = FALSE
    /\ UNCHANGED <<memory, max_alerts, disk, up, pending, faults>>

(* Mutants: the last commit wins, or the first one does. *)
LastWins(a) == TRUE
FirstWins(a) == a.id \notin DOMAIN alerts

(* Second locked section: the merge.  An identity already present keeps    *)
(* its alert unless the new one counts more events, and keeps its place.   *)
Wins(a) == a.id \in DOMAIN alerts => a.count > alerts[a.id].count

Changed(found) == {found[i] : i \in {j \in DOMAIN found : Wins(found[j])}}

Overlay(table, changed) ==
    [x \in DOMAIN table \cup {a.id : a \in changed} |->
        IF \E a \in changed : a.id = x
        THEN CHOOSE a \in changed : a.id = x
        ELSE table[x]]

AllIds(found) == [i \in DOMAIN found |-> found[i].id]   \* mutant of NewIds

NewIds(found) ==
    AtIndices(AllIds(found), {i \in DOMAIN found : found[i].id \notin DOMAIN alerts})

Unbounded(keys) == keys   \* mutant

(* Over capacity, the keys inserted first are popped first.                *)
Newest(keys) ==
    IF Len(keys) > max_alerts
    THEN SubSeq(keys, Len(keys) - max_alerts + 1, Len(keys))
    ELSE keys

KeySet(keys) == {keys[i] : i \in DOMAIN keys}

Merged(found) ==
    LET keys == Newest(order \o NewIds(found))
    IN [alerts |-> Only(Overlay(alerts, Changed(found)), KeySet(keys)),
        order  |-> keys]

Evicted(found) == KeySet(order \o NewIds(found)) \ KeySet(Merged(found).order)

(* SQLiteAlertRepository._prune_locked: rows beyond the max_alerts newest  *)
(* by (last_seen, identity) are deleted.                                   *)
RowAfter(table, x, y) ==
    table[x].last > table[y].last \/ (table[x].last = table[y].last /\ x > y)

PrunedRows(table, capacity) ==
    Only(table, {x \in DOMAIN table :
        Cardinality({y \in DOMAIN table : RowAfter(table, y, x)}) < capacity})

(* Mutant: the evictions are not deleted from the table. *)
AppliedWithoutDeletes(found) == PrunedRows(Overlay(disk, Changed(found)), max_alerts)

(* SQLiteAlertRepository.apply: upserts, deletes and prune, one transaction *)
Applied(found) ==
    LET upserted == Overlay(disk, Changed(found))
    IN PrunedRows(Only(upserted, DOMAIN upserted \ Evicted(found)), max_alerts)

Commit(t) ==
    LET found == Correlate(candidates[t])
    IN /\ up /\ LockFree
       /\ pc[t] = "correlated"
       /\ disk' = IF Durable THEN Applied(found) ELSE disk
       /\ pending' = [pending EXCEPT ![t] = Merged(found)]
       /\ pc' = [pc EXCEPT ![t] = "publishing"]
       /\ UNCHANGED <<window, memory, max_alerts, up, candidates, faults, latest, covered>>

(* apply() raises and its transaction rolls back: the request answers 500, *)
(* its events stay in the window and no alert is merged.                   *)
CommitFails(t) ==
    /\ Durable
    /\ up /\ LockFree
    /\ pc[t] = "correlated"
    /\ faults < MaxFaults
    /\ faults' = faults + 1
    /\ pc' = [pc EXCEPT ![t] = "idle"]
    /\ candidates' = [candidates EXCEPT ![t] = {}]
    /\ UNCHANGED <<window, memory, max_alerts, disk, up, pending, latest, covered>>

Publish(t) ==
    /\ up
    /\ pc[t] = "publishing"
    /\ alerts' = pending[t].alerts
    /\ order' = pending[t].order
    /\ pending' = [pending EXCEPT ![t] = NoDict]
    /\ candidates' = [candidates EXCEPT ![t] = {}]
    /\ pc' = [pc EXCEPT ![t] = "idle"]
    /\ covered' = (covered \/ t = latest)
    /\ UNCHANGED <<window, max_alerts, disk, up, faults, latest>>

-----------------------------------------------------------------------------
(* The process dies: everything but the database file is lost.             *)
Crash ==
    /\ up
    /\ faults < MaxFaults
    /\ faults' = faults + 1
    /\ up' = FALSE
    /\ stored' = {}
    /\ fingerprints' = [ns \in {Default} |-> {}]
    /\ watermark' = [ns \in {Default} |-> W!NoWatermark]
    /\ sequence' = 0
    /\ result' = [accepted |-> 0, duplicates |-> 0, expired |-> 0, evicted |-> 0]
    /\ alerts' = <<>> /\ order' = <<>>
    /\ pc' = [t \in Threads |-> "idle"]
    /\ candidates' = [t \in Threads |-> {}]
    /\ pending' = [t \in Threads |-> NoDict]
    /\ covered' = TRUE
    /\ UNCHANGED <<max_alerts, disk, latest>>

(* load() returns the rows newest first, in any order among equal times.   *)
NewestFirst(table) ==
    {keys \in [1..Cardinality(DOMAIN table) -> DOMAIN table] :
        \A i, j \in DOMAIN keys :
            i < j => keys[i] # keys[j] /\ table[keys[i]].last >= table[keys[j]].last}

(* create_app, with whatever capacity it is given this time: the           *)
(* repository prunes, load() deletes malformed rows, and what it returns   *)
(* becomes the alert dict.                                                 *)
Restart ==
    /\ ~up
    /\ up' = TRUE
    /\ max_alerts' \in MaxAlertsChoices
    /\ \E bad \in SUBSET DOMAIN disk :
          /\ Cardinality(bad) <= MaxCorruptRows
          /\ disk' = Only(PrunedRows(disk, max_alerts'), DOMAIN disk \ bad)
    /\ alerts' = IF Durable THEN disk' ELSE <<>>
    /\ order' \in NewestFirst(alerts')
    /\ UNCHANGED <<window, pc, candidates, pending, faults, latest, covered>>

(* GET /alerts and /health take the lock and only read.                    *)
Read == up /\ LockFree /\ UNCHANGED vars

Next == \/ \E t \in Threads :
              \/ \E batch \in Batches : Ingest(t, batch)
              \/ Commit(t) \/ CommitFails(t) \/ Publish(t)
        \/ Crash \/ Restart \/ Read

Spec == Init /\ [][Next]_vars

-----------------------------------------------------------------------------
(* Properties *)

(* A table maps each of its identities to an alert of that identity. *)
IsTable(f) == /\ f = [x \in DOMAIN f |-> f[x]]
              /\ DOMAIN f \subseteq AlertIds
              /\ \A x \in DOMAIN f : f[x] \in Alert /\ f[x].id = x

(* Types, with the capacity, which bounds the dict and the table.          *)
TypeOK ==
    /\ stored \subseteq W!Item
    /\ IsTable(alerts) /\ IsTable(disk)
    /\ max_alerts \in MaxAlertsChoices
    /\ Cardinality(DOMAIN alerts) <= max_alerts
    /\ Cardinality(DOMAIN disk) <= max_alerts
    /\ order \in Seq(AlertIds)
    /\ up \in BOOLEAN /\ covered \in BOOLEAN
    /\ pc \in [Threads -> {"idle", "correlated", "publishing"}]
    /\ candidates \in [Threads -> SUBSET Events]
    /\ DOMAIN pending = Threads
    /\ \A t \in Threads : IsTable(pending[t].alerts) /\ pending[t].order \in Seq(AlertIds)
    /\ faults \in Nat
    /\ latest \in Threads

(* Whoever can read the alerts reads what the database holds: no alert is  *)
(* shown that a crash would lose, and none is kept on disk that the        *)
(* service has dropped.                                                    *)
MemoryMatchesDisk == Durable /\ up /\ LockFree => alerts = disk

(* The dict's keys are exactly the alerts, each once.                      *)
OrderEnumeratesAlerts ==
    /\ KeySet(order) = DOMAIN alerts
    /\ \A i, j \in DOMAIN order : order[i] = order[j] => i = j

(* The service implements the table of AlertTable: threads that commit     *)
(* snapshots in the wrong order, failed commits, crashes and restarts      *)
(* never shrink an incident's evidence, never drop an alert while there is *)
(* room, and never split a report.                                         *)
Table == INSTANCE AlertTable WITH
             Capacities <- MaxAlertsChoices, MaxLost <- MaxCorruptRows,
             table <- IF up THEN alerts ELSE disk, serving <- up, capacity <- max_alerts

ImplementsTable == Table!Spec

(* Once the request that appended last has committed, every incident in    *)
(* the current window is reported with at least its present evidence,      *)
(* whatever other requests failed or committed late.  (Where every         *)
(* identity fits: eviction is the only way to lose one.)                   *)
CurrentDetections ==
    LET found == Correlate(W!EventsOf(W!Snapshot(Default, MaxCorrelationEvents)))
    IN {found[i] : i \in DOMAIN found}

NoDetectionLost ==
    up /\ covered /\ max_alerts >= Cardinality(AlertIds) =>
        \A a \in CurrentDetections :
            a.id \in DOMAIN alerts /\ alerts[a.id].count >= a.count

(* "Most recent first: insertion order buried an active incident under      *)
(* whatever happened to be ingested earliest" (server.py:293-294): GET      *)
(* /alerts sorts by last_seen, so an incident whose evidence goes on after  *)
(* the end of another alert is not listed below it.                        *)
ActiveNotBuried ==
    up /\ covered =>
        \A a \in CurrentDetections : \A x \in DOMAIN alerts :
            a.id \in DOMAIN alerts /\ a.last > alerts[x].last
                => alerts[a.id].last >= alerts[x].last

(* "capacity keeps newest alerts" (test_persistence.py:96): a stored alert  *)
(* is not given up for capacity while an older one is kept.                *)
CapacityKeepsNewest ==
    [][up => \A x \in DOMAIN disk \ DOMAIN disk', y \in DOMAIN disk \cap DOMAIN disk' :
                disk[x].last <= disk[y].last]_vars
=============================================================================
