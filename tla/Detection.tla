------------------------------ MODULE Detection ------------------------------
(***************************************************************************)
(* detect_patterns of src/ai_soc_agent/correlator.py on prepared events:   *)
(* the rules of WindowRules in the order of the engine, and of each        *)
(* finding what finding_fingerprint keys on, its end and its event count.  *)
(***************************************************************************)
EXTENDS WindowRules

(* finding_fingerprint keys on the rule, the actor in the metadata, its     *)
(* case folded, and the first event's time.  The actor is the grouping key, *)
(* but for credential reuse it is that of the last event of the evidence.  *)
FindingFrom(rule, key, evidence) ==
    LET times == {evidence[i].ts : i \in DOMAIN evidence}
        actor == IF rule = "credential_reuse" THEN evidence[Len(evidence)].actor ELSE key
    IN [fingerprint |-> [rule |-> rule, actor |-> actor, first |-> Min(times)],
        last |-> Max(times),
        count |-> Len(evidence)]

FindingsOf(rule, events) ==
    LET stamped == Stamped(rule, events)
        keys == MatchedKeys(rule, stamped)
    IN [i \in DOMAIN keys |-> FindingFrom(rule, keys[i], WidestEvidence(rule, stamped, keys[i]))]

(* The engine runs the registered rules in order, one finding per group.    *)
DetectPatterns(ruleOrder, events) ==
    FlattenSeq([i \in DOMAIN ruleOrder |->
                  IF Configured(ruleOrder[i]) THEN FindingsOf(ruleOrder[i], events) ELSE <<>>])
=============================================================================
