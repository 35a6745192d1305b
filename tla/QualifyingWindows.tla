-------------------------- MODULE QualifyingWindows --------------------------
(***************************************************************************)
(* qualifying_windows of src/ai_soc_agent/patterns/base.py: the sliding-    *)
(* window loop that all rules share, one step per event.                   *)
(***************************************************************************)
EXTENDS WindowRules, FiniteSets

CONSTANT Inputs  \* [Rules -> set of event lists]: what callers may pass in

ASSUME InputsAssumption == \A r \in Rules : Inputs[r] \subseteq Seq(Event)

VARIABLES rule,     \* the rule being evaluated
          stamped,  \* its relevant events, sorted by timestamp
          next,     \* index of the next event of the loop
          windows,  \* windows[key]: the deque of each group
          matched,  \* the matched dict: <<key, evidence>> in insertion order
          older     \* what an older detector of the rule reads of the same events

vars == <<rule, stamped, next, windows, matched, older>>

(* detect_brute_force and detect_credential_stuffing of correlator.py, the *)
(* older form of two rules, with the same keys: they read every failure    *)
(* that has a key, of the families required, and know no allowlist.        *)
LegacyRules == {"brute_force", "credential_stuffing"}

LegacyRelevant(r, e) ==
    /\ e.result = "failure"
    /\ GroupKey(r, e) # None
    /\ r = "credential_stuffing" => SourceFamily(e) \in RequiredFamilies

LegacyStamped(r, events) ==
    TimeOrdered(events, {i \in DOMAIN events : LegacyRelevant(r, events[i])})

Init == \E r \in {x \in Rules : Configured(x)} : \E events \in Inputs[r] :
    /\ rule = r
    /\ stamped = Stamped(r, events)
    /\ next = 1
    /\ windows = [k \in {GroupKey(r, events[i]) : i \in DOMAIN events} |-> <<>>]
    /\ matched = <<>>
    /\ older = IF r \in LegacyRules THEN LegacyStamped(r, events) ELSE <<>>

(* Mutants: the boundary is excluded, or old events stay. *)
SlideEarly(window, now) ==
    LET live == {i \in DOMAIN window : now - window[i].ts < Seconds[rule]}
    IN SubSeq(window, Min(live), Len(window))
NoSlide(window, now) == window

(* popleft while the head is too old, then while the deque is too long.    *)
Slide(window, now) ==
    LET live == {i \in DOMAIN window : now - window[i].ts <= Seconds[rule]}
    IN SubSeq(window, Min(live), Len(window))

Capped(window) ==
    IF Len(window) > MaxWindowEvents
    THEN SubSeq(window, Len(window) - MaxWindowEvents + 1, Len(window))
    ELSE window

(* Mutant: the key is removed and inserted again. *)
RecordLast(dict, key, evidence) ==
    Append(SelectSeq(dict, LAMBDA entry : entry.key # key), [key |-> key, evidence |-> evidence])

(* A dict assignment: in place for a present key, at the end otherwise.    *)
Record(dict, key, evidence) ==
    IF \E i \in DOMAIN dict : dict[i].key = key
    THEN [i \in DOMAIN dict |->
            IF dict[i].key = key THEN [key |-> key, evidence |-> evidence] ELSE dict[i]]
    ELSE Append(dict, [key |-> key, evidence |-> evidence])

KeepLatest(dict, key) == 0   \* mutant: the latest evidence replaces any other

MatchedLen(dict, key) ==
    LET entry == {i \in DOMAIN dict : dict[i].key = key}
    IN IF entry = {} THEN 0 ELSE Len(dict[Min(entry)].evidence)

Step ==
    LET event    == stamped[next]
        key      == GroupKey(rule, event)
        window   == Capped(Slide(Append(windows[key], event), event.ts))
        evidence == Evidence(rule, window)
    IN /\ next <= Len(stamped)
       /\ next' = next + 1
       /\ windows' = [windows EXCEPT ![key] = window]
       /\ matched' = IF evidence # <<>> /\ Len(evidence) > MatchedLen(matched, key)
                     THEN Record(matched, key, evidence)
                     ELSE matched
       /\ UNCHANGED <<rule, stamped, older>>

Done == next > Len(stamped) /\ UNCHANGED vars

Next == Step \/ Done

Spec == Init /\ [][Next]_vars

-----------------------------------------------------------------------------
(* The loop of the older detectors.  A group raises an alert when its      *)
(* window, which has no cap, first meets the rule, and is then active      *)
(* until the window, before the next event joins it, no longer does.       *)

(* Mutant: one event more than the threshold. *)
MeetsStrictly(window) ==
    IF rule = "brute_force"
    THEN Len(window) > Threshold[rule]
    ELSE RequiredFamilies \subseteq {SourceFamily(window[i]) : i \in DOMAIN window}

Meets(window) ==
    IF rule = "brute_force"
    THEN Len(window) >= Threshold[rule]
    ELSE RequiredFamilies \subseteq {SourceFamily(window[i]) : i \in DOMAIN window}

(* popleft while the head is too old: what is left starts at the first     *)
(* event in time, and may be nothing, as the new one has yet to join.      *)
Purged(window, now) ==
    AtIndices(window, {i \in DOMAIN window : \E j \in 1..i : now - window[j].ts <= Seconds[rule]})

LegacyStep(run, event) ==
    LET key    == GroupKey(rule, event)
        live   == Purged(run.windows[key], event.ts)
        window == Append(live, event)
        active == IF Meets(live) THEN run.active ELSE run.active \ {key}
        fires  == Meets(window) /\ key \notin active
    IN [windows |-> [run.windows EXCEPT ![key] = window],
        active  |-> IF fires THEN active \cup {key} ELSE active,
        alerts  |-> IF fires THEN Append(run.alerts, [key |-> key, evidence |-> window])
                             ELSE run.alerts]

LegacyStart == [windows |-> [k \in DOMAIN windows |-> <<>>], active |-> {}, alerts |-> <<>>]

(* The older detector after each number of events. *)
LegacyAlerts(events) ==
    LET run[n \in 0..Len(events)] ==
            IF n = 0 THEN LegacyStart ELSE LegacyStep(run[n - 1], events[n])
    IN run[Len(events)].alerts

-----------------------------------------------------------------------------
(* Properties *)

Processed == SubSeq(stamped, 1, next - 1)

MatchedFor(key) ==
    LET entry == {i \in DOMAIN matched : matched[i].key = key}
    IN IF entry = {} THEN <<>> ELSE matched[Min(entry)].evidence

(* At every point of the loop each group's evidence is the widest one any  *)
(* window of the events read so far gives, as computed from scratch: the   *)
(* code and its comment ("Keep the widest evidence this group ever         *)
(* reaches", base.py:133) against the docstring of the same function,      *)
(* which promises "the first qualifying sliding window for *each* group"   *)
(* (base.py:103), narrower as soon as the burst goes on.                   *)
EvidenceIsWidest ==
    \A key \in DOMAIN windows : MatchedFor(key) = WidestEvidence(rule, Processed, key)

(* What a finding claims: events of one group, within one window length    *)
(* and at most the cap.                                                    *)
EvidenceWithinWindow ==
    \A i \in DOMAIN matched :
        LET found == matched[i].evidence
        IN /\ Len(found) <= MaxWindowEvents
           /\ \A j, k \in DOMAIN found :
                /\ GroupKey(rule, found[j]) = matched[i].key
                /\ found[j].ts - found[k].ts <= Seconds[rule]

(* Groups are reported in the order in which they first qualified.         *)
ReportedInOrder ==
    \A i, j \in DOMAIN matched :
        i < j => FirstQualified(rule, Processed, matched[i].key)
                    < FirstQualified(rule, Processed, matched[j].key)

(* One more event never costs a group its detection, nor a single event of *)
(* evidence, as long as no window is cut at the cap: this is what lets the *)
(* server compare event counts of successive correlations.                 *)
MoreEventsMoreEvidence ==
    next > Len(stamped) =>
        \A i \in DOMAIN stamped : \A key \in DOMAIN windows :
            \/ rule \notin CountRules /\ Len(stamped) > MaxWindowEvents
            \/ Len(WidestEvidence(rule, RemoveAt(stamped, i), key)) <= Len(MatchedFor(key))

(* Every group a rule reports is one the correlator's older detector has   *)
(* an alert for.  The other way round, an older alert has its group        *)
(* reported, and for brute force with no less evidence, unless it counts   *)
(* an event the rule does not look at (no login, or of a suppressed group) *)
(* or more events than a window may hold.                                  *)
LegacyAgrees ==
    next > Len(stamped) /\ rule \in LegacyRules =>
        LET legacy == LegacyAlerts(older)
        IN /\ \A i \in DOMAIN matched : \E j \in DOMAIN legacy : legacy[j].key = matched[i].key
           /\ \A j \in DOMAIN legacy :
                 LET alert == legacy[j]
                 IN \/ \E n \in DOMAIN alert.evidence : ~Relevant(rule, alert.evidence[n])
                    \/ Len(alert.evidence) > MaxWindowEvents
                    \/ /\ \E i \in DOMAIN matched : matched[i].key = alert.key
                       /\ rule = "brute_force" => Len(alert.evidence) <= Len(MatchedFor(alert.key))

(* "Actors whose activity should never raise a finding" (config.py:96): no  *)
(* evidence comes from a suppressed actor.                                 *)
SuppressedActorsRaiseNothing ==
    \A i \in DOMAIN matched : \A j \in DOMAIN matched[i].evidence :
        matched[i].evidence[j].actor \notin Suppressed
=============================================================================
