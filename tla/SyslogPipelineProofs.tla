------------------------- MODULE SyslogPipelineProofs -------------------------
(***************************************************************************)
(* Proofs about SyslogPipeline.                                            *)
(***************************************************************************)
EXTENDS SyslogPipeline, SubsequencesProofs

WP == INSTANCE EventWindowProofs WITH
        Namespaces <- {Default},
        Ts <- Stamps,
        Batches <- {<<e>> : e \in Events},
        References <- {}

(* Only the facts about rules and windows, which are not about its state,  *)
(* are used of this one.                                                   *)
Q == INSTANCE QualifyingWindowsProofs WITH
        Inputs <- [r \in Rules |-> {}],
        rule <- "brute_force",
        stamped <- <<>>,
        next <- 1,
        windows <- <<>>,
        matched <- <<>>,
        older <- <<>>

(* Parsing gives an event again. *)
LEMMA ParsedType ==
    ASSUME NEW message \in Event, NEW now \in FirstClock..LastClock
    PROVE  Parsed(message, now) \in Event
<1> DEFINE year == now \div YearLength
           rest == message.ts % YearLength
<1>1. year \in Nat /\ rest \in Nat /\ YearLength \in Nat
  BY PipelineAssumption DEF Event
<1>2. year * YearLength + rest \in Nat
  <2> HIDE DEF year, rest
  <2>1. year * YearLength \in Nat
    BY <1>1
  <2> QED BY <1>1, <2>1
<1> HIDE DEF year, rest
<1>3. Parsed(message, now) = [message EXCEPT !.ts = year * YearLength + rest]
  BY DEF Parsed, year, rest
<1> QED BY <1>2, <1>3 DEF Event

LEMMA EventsType == Events \subseteq Event
BY ParsedType, PipelineAssumption DEF Events

LEMMA WindowConstants == WP!WindowAssumption
<1>1. Stamps \in [Events -> Nat]
  BY EventsType DEF Stamps, Event
<1>2. {<<e>> : e \in Events} \subseteq Seq(Events)
  <2>1. \A e \in Events : <<e>> \in Seq(Events)
    OBVIOUS
  <2> QED BY <2>1
<1> QED BY <1>1, <1>2, PipelineAssumption DEF WP!WindowAssumption

LEMMA SameCardinality ==
    /\ \A S : W!Cardinality(S) = Cardinality(S)
    /\ \A S : WP!Cardinality(S) = Cardinality(S)
BY DEF W!Cardinality, WP!Cardinality, Cardinality, W!IsFiniteSet, WP!IsFiniteSet, IsFiniteSet

LEMMA SameInit == W!Init => WP!Init
BY DEF W!Init, WP!Init, W!NoWatermark, WP!NoWatermark

LEMMA SameAppend ==
    ASSUME NEW ns, NEW batch, W!AppendBatch(ns, batch)
    PROVE  WP!AppendBatch(ns, batch)
BY Zenon
   DEF W!Cardinality, WP!Cardinality, W!IsFiniteSet, WP!IsFiniteSet, W!AppendBatch, W!NewWatermark, W!Max, W!Expired, W!Fresh, W!NumberOf, W!Admitted,
       W!Pruned, W!Bucket, W!Time, W!OverCapacity, W!Newer, W!Older, W!EventsOf,
       W!Unindexed, W!MarksOfNonEmpty, W!NoWatermark,
       WP!AppendBatch, WP!NewWatermark, WP!Max, WP!Expired, WP!Fresh, WP!NumberOf, WP!Admitted,
       WP!Pruned, WP!Bucket, WP!Time, WP!OverCapacity, WP!Newer, WP!Older, WP!EventsOf,
       WP!Unindexed, WP!MarksOfNonEmpty, WP!NoWatermark

-----------------------------------------------------------------------------
(* What detect_patterns returns: findings whose fingerprints are built from *)
(* the events it was given.                                                *)

Finding == [fingerprint : Fingerprint, last : Nat, count : Nat]

(* The evidence that events hold against a fingerprint's actor, the first  *)
(* time in a sequence of events, and the findings that events give.        *)
EvidenceFor(fingerprint, events) ==
    WidestEvidence(fingerprint.rule, Stamped(fingerprint.rule, events), fingerprint.actor)

IsFirstOf(t, evidence) ==
    /\ \E n \in DOMAIN evidence : evidence[n].ts = t
    /\ \A n \in DOMAIN evidence : t <= evidence[n].ts

FoundIn(fingerprint, count, events) ==
    /\ EvidenceFor(fingerprint, events) # <<>>
    /\ count = Len(EvidenceFor(fingerprint, events))
    /\ IsFirstOf(fingerprint.first, EvidenceFor(fingerprint, events))

FindingIn(events) == {f \in Finding : FoundIn(f.fingerprint, f.count, events)}

LEMMA GreatestOf ==
    ASSUME NEW S \in SUBSET Nat, S # {}, IsFiniteSet(S)
    PROVE  Max(S) \in S /\ \A x \in S : x <= Max(S)
<1>0. S \subseteq Int
  OBVIOUS
<1>1. PICK x \in S : \A y \in S : x >= y
  BY <1>0, GreatestElement
<1>2. Max(S) \in S /\ \A y \in S : Max(S) >= y
  BY <1>1 DEF Max
<1>3. \A y \in S : y \in Nat /\ Max(S) \in Nat
  BY <1>2
<1> QED BY <1>2, <1>3

LEMMA SeqMonotone ==
    ASSUME NEW S, NEW T, S \subseteq T, NEW s \in Seq(S)
    PROVE  s \in Seq(T)
<1>1. Len(s) \in Nat /\ s \in [1..Len(s) -> S]
  OBVIOUS
<1>2. s \in [1..Len(s) -> T]
  BY <1>1
<1> QED BY <1>1, <1>2

LEMMA KeyType ==
    ASSUME NEW rule \in Rules, NEW e \in Event, GroupKey(rule, e) # None
    PROVE  GroupKey(rule, e) \in STRING
<1>1. /\ e.actor \in STRING /\ e.user \in STRING /\ e.target \in STRING
      /\ e.credential \in STRING /\ e.remote_user \in STRING
  BY DEF Event
<1> QED BY <1>1 DEF Rules, GroupKey, IpActor, SudoUser, RemoteUser, GeoUser, Credential,
                    CrossSourceUser, Named, Or, Blank

LEMMA StampedType ==
    ASSUME NEW rule, NEW events \in Seq(Event)
    PROVE  /\ Stamped(rule, events) \in Seq(Event)
           /\ \A i \in DOMAIN Stamped(rule, events) : Relevant(rule, Stamped(rule, events)[i])
           /\ Stamped(rule, events) # <<>> => events # <<>>
<1> DEFINE relevant == {i \in DOMAIN events : Relevant(rule, events[i])}
           before == {p \in relevant \X relevant :
                        \/ events[p[1]].ts < events[p[2]].ts
                        \/ events[p[1]].ts = events[p[2]].ts /\ p[1] < p[2]}
           order == InOrder(relevant, before)
<1>1. IsFiniteSet(relevant) /\ relevant \in SUBSET Nat /\ relevant \in SUBSET DOMAIN events
  <2>1. relevant \in SUBSET DOMAIN events
    OBVIOUS
  <2> HIDE DEF relevant
  <2> QED BY <2>1, Indices
<1>0. \A e \in Event : e.ts \in Nat
  BY DEF Event
<1>2. \A i \in relevant : events[i] \in Event /\ events[i].ts \in Nat /\ i \in Nat
  <2> HIDE DEF relevant
  <2> QED BY <1>0, <1>1
<1>r. \A i \in relevant : Relevant(rule, events[i])
  OBVIOUS
<1> HIDE DEF relevant
<1>3. \A i, j \in relevant :
          <<i, j>> \in before <=> \/ events[i].ts < events[j].ts
                                  \/ events[i].ts = events[j].ts /\ i < j
  OBVIOUS
<1> HIDE DEF before
<1>4. order \in Seq(relevant) /\ Len(order) = Cardinality(relevant)
  <2>1. \A i \in relevant : <<i, i>> \notin before
    BY <1>2, <1>3
  <2>2. \A i, j \in relevant : i # j => <<i, j>> \in before \/ <<j, i>> \in before
    BY <1>2, <1>3
  <2>3. \A i, j, k \in relevant :
            <<i, j>> \in before /\ <<j, k>> \in before => <<i, k>> \in before
    BY <1>2, <1>3
  <2> QED BY <1>1, <2>1, <2>2, <2>3, SortedSet
<1>5. Stamped(rule, events) = [i \in DOMAIN order |-> events[order[i]]]
  BY DEF Stamped, TimeOrdered, relevant, before
<1> HIDE DEF order
<1>6. Stamped(rule, events) \in Seq(Event)
  <2>1. DOMAIN order = 1..Len(order) /\ Len(order) \in Nat
    BY <1>4
  <2>2. \A i \in 1..Len(order) : events[order[i]] \in Event
    BY <1>2, <1>4
  <2> QED BY <1>5, <2>1, <2>2
<1>7. Stamped(rule, events) # <<>> => events # <<>>
  <2>1. events = <<>> => relevant = {}
    BY <1>1
  <2>2. relevant = {} => order = <<>>
    BY <1>4
  <2>3. order = <<>> => Stamped(rule, events) = <<>>
    BY <1>5
  <2> QED BY <2>1, <2>2, <2>3
<1>8. \A i \in DOMAIN Stamped(rule, events) : Relevant(rule, Stamped(rule, events)[i])
  <2>1. \A i \in DOMAIN order : order[i] \in relevant
    BY <1>4
  <2> QED BY <1>5, <1>r, <2>1
<1> QED BY <1>6, <1>7, <1>8

LEMMA RepresentativesType ==
    ASSUME NEW rule, NEW window_ \in Seq(Event)
    PROVE  Representatives(rule, window_) \in Seq(Event)
<1> DEFINE indices == {i \in DOMAIN window_ :
                  /\ Dimension(rule, window_[i]) # None
                  /\ \A j \in 1..(i - 1) : Dimension(rule, window_[j]) # Dimension(rule, window_[i])}
<1>1. indices \in SUBSET DOMAIN window_
  OBVIOUS
<1>2. Representatives(rule, window_) = AtIndices(window_, indices)
  BY DEF Representatives
<1> HIDE DEF indices
<1> QED BY <1>1, <1>2, SubsequenceAtIndices

LEMMA EvidenceType ==
    ASSUME NEW rule \in Rules, NEW window_ \in Seq(Event)
    PROVE  Evidence(rule, window_) \in Seq(Event)
<1> DEFINE found == Representatives("credential_stuffing", window_)
           ofFamily(f) == AtIndices(found, {i \in DOMAIN found : SourceFamily(found[i]) = f})
<1>1. found \in Seq(Event)
  BY RepresentativesType
<1>2. OnePerFamily(window_) = ofFamily("ssh") \o ofFamily("vpn") \o ofFamily("web")
  BY DEF OnePerFamily
<1> HIDE DEF found
<1>3. \A f : ofFamily(f) \in Seq(Event)
  <2> SUFFICES ASSUME NEW f PROVE ofFamily(f) \in Seq(Event)
    OBVIOUS
  <2> DEFINE indices == {i \in DOMAIN found : SourceFamily(found[i]) = f}
  <2>1. indices \in SUBSET DOMAIN found
    OBVIOUS
  <2> HIDE DEF indices
  <2>2. AtIndices(found, indices) \in Seq(Event)
    BY <1>1, <2>1, SubsequenceAtIndices
  <2> QED BY <2>2 DEF indices
<1> HIDE DEF ofFamily
<1>4. OnePerFamily(window_) \in Seq(Event)
  BY <1>2, <1>3
<1>5. Representatives(rule, window_) \in Seq(Event)
  BY RepresentativesType
<1>6. <<>> \in Seq(Event)
  OBVIOUS
<1> DEFINE sent == CASE rule \in CountRules -> window_
                     [] rule = "credential_stuffing" -> OnePerFamily(window_)
                     [] OTHER -> Representatives(rule, window_)
<1>7. sent \in Seq(Event)
  <2>1. rule = "credential_stuffing" => rule \notin CountRules
    BY DEF CountRules
  <2> QED BY <1>4, <1>5, <2>1, Zenon
<1>8. Evidence(rule, window_) = sent \/ Evidence(rule, window_) = <<>>
  BY Zenon DEF Evidence
<1> HIDE DEF sent
<1> QED BY <1>6, <1>7, <1>8

LEMMA WindowEndingType ==
    ASSUME NEW rule, NEW stamped \in Seq(Event), NEW i \in DOMAIN stamped
    PROVE  WindowEndingAt(rule, stamped, i) \in Seq(Event)
<1> DEFINE near == {j \in 1..i :
                      /\ GroupKey(rule, stamped[j]) = GroupKey(rule, stamped[i])
                      /\ stamped[i].ts - stamped[j].ts <= Seconds[rule]}
           indices == {j \in near : Cardinality({k \in near : k > j}) < MaxWindowEvents}
<1>1. indices \in SUBSET DOMAIN stamped
  OBVIOUS
<1>2. WindowEndingAt(rule, stamped, i) = AtIndices(stamped, indices)
  BY DEF WindowEndingAt
<1> HIDE DEF indices
<1> QED BY <1>1, <1>2, SubsequenceAtIndices

(* The widest evidence of a group is the evidence of one of its windows.   *)
LEMMA WidestEvidenceIsReached ==
    ASSUME NEW rule \in Rules, NEW stamped \in Seq(Event), NEW key,
           WidestEvidence(rule, stamped, key) # <<>>
    PROVE  \E i \in DOMAIN stamped :
               /\ GroupKey(rule, stamped[i]) = key
               /\ WidestEvidence(rule, stamped, key)
                    = Evidence(rule, WindowEndingAt(rule, stamped, i))
<1> DEFINE ends == {i \in DOMAIN stamped : GroupKey(rule, stamped[i]) = key}
           evidence(i) == Evidence(rule, WindowEndingAt(rule, stamped, i))
           width == [i \in ends |-> Len(evidence(i))]
           widest == {i \in ends : \A j \in ends : width[j] <= width[i]}
           widths == {width[i] : i \in ends}
<1>1. ends \in SUBSET DOMAIN stamped /\ ends # {}
  BY DEF WidestEvidence
<1>2. WidestEvidence(rule, stamped, key) = evidence(Min(widest))
  BY <1>1, Zenon DEF WidestEvidence
<1>3. IsFiniteSet(ends) /\ ends \in SUBSET Nat
  <2> HIDE DEF ends
  <2> QED BY <1>1, Indices
<1>4. \A i \in ends : width[i] \in Nat
  <2>1. \A i \in ends : evidence(i) \in Seq(Event)
    BY WindowEndingType, EvidenceType
  <2> HIDE DEF evidence, ends
  <2> QED BY <2>1
<1>5. IsFiniteSet(widths) /\ widths \in SUBSET Nat /\ widths # {}
  <2>1. width \in Surjection(ends, widths)
    BY DEF Surjection
  <2>2. widths \in SUBSET Nat /\ widths # {}
    BY <1>1, <1>4
  <2> HIDE DEF width, widths, ends
  <2> QED BY <1>3, <2>1, <2>2, FS_Surjection
<1>6. widest # {}
  <2>1. Max(widths) \in widths /\ \A w \in widths : w <= Max(widths)
    <3> HIDE DEF widths
    <3> QED BY <1>5, GreatestOf
  <2>2. PICK i \in ends : width[i] = Max(widths)
    BY <2>1
  <2>3. \A j \in ends : width[j] <= width[i]
    <3> HIDE DEF width, ends
    <3> QED BY <2>1, <2>2
  <2> QED BY <2>3
<1>7. Min(widest) \in widest
  <2>1. widest \in SUBSET Nat
    BY <1>3
  <2> HIDE DEF widest
  <2> QED BY <1>6, <2>1, LeastOf
<1>8. Min(widest) \in DOMAIN stamped /\ GroupKey(rule, stamped[Min(widest)]) = key
  <2>1. widest \in SUBSET ends
    OBVIOUS
  <2> HIDE DEF widest
  <2> QED BY <1>7, <2>1
<1> HIDE DEF widest
<1> QED BY <1>2, <1>8

(* The reported groups: keys of events, with evidence.                     *)
LEMMA MatchedKeysType ==
    ASSUME NEW rule \in Rules, NEW stamped \in Seq(Event),
           \A i \in DOMAIN stamped : Relevant(rule, stamped[i])
    PROVE  /\ MatchedKeys(rule, stamped) \in Seq(STRING)
           /\ \A i \in DOMAIN MatchedKeys(rule, stamped) :
                  WidestEvidence(rule, stamped, MatchedKeys(rule, stamped)[i]) # <<>>
<1> DEFINE keys == {GroupKey(rule, stamped[i]) : i \in DOMAIN stamped}
           matched == {k \in keys : WidestEvidence(rule, stamped, k) # <<>>}
           first(k) == FirstQualified(rule, stamped, k)
           before == {p \in matched \X matched : first(p[1]) < first(p[2])}
<1>1. keys \in SUBSET STRING
  BY KeyType DEF Relevant
<1>2. IsFiniteSet(keys)
  <2> DEFINE key == [i \in DOMAIN stamped |-> GroupKey(rule, stamped[i])]
  <2>1. key \in Surjection(DOMAIN stamped, keys)
    BY DEF Surjection
  <2>2. IsFiniteSet(DOMAIN stamped)
    BY Indices
  <2> HIDE DEF key, keys
  <2> QED BY <2>1, <2>2, FS_Surjection
<1>3. IsFiniteSet(matched) /\ matched \in SUBSET STRING
  <2>1. matched \in SUBSET keys
    OBVIOUS
  <2> HIDE DEF keys, matched
  <2> QED BY <1>1, <1>2, <2>1, FS_Subset
<1>4. ASSUME NEW k \in matched
      PROVE  first(k) \in DOMAIN stamped /\ GroupKey(rule, stamped[first(k)]) = k
  <2> DEFINE qualified == {i \in DOMAIN stamped :
                             /\ GroupKey(rule, stamped[i]) = k
                             /\ Evidence(rule, WindowEndingAt(rule, stamped, i)) # <<>>}
  <2>1. WidestEvidence(rule, stamped, k) # <<>>
    OBVIOUS
  <2>2. qualified # {} /\ qualified \in SUBSET DOMAIN stamped
    BY <2>1, WidestEvidenceIsReached
  <2>3. first(k) = Min(qualified)
    BY Zenon DEF FirstQualified
  <2>4. \A i \in qualified : GroupKey(rule, stamped[i]) = k
    OBVIOUS
  <2> HIDE DEF qualified, first
  <2>5. qualified \in SUBSET Nat
    BY <2>2
  <2> QED BY <2>2, <2>3, <2>4, <2>5, LeastOf
<1>5. \A k \in matched : first(k) \in Nat
  <2> HIDE DEF first, matched
  <2> QED BY <1>4
<1>6. \A j, k \in matched : first(j) = first(k) => j = k
  <2> HIDE DEF first, matched
  <2> QED BY <1>4
<1>7. MatchedKeys(rule, stamped) = InOrder(matched, before)
  BY Zenon DEF MatchedKeys
<1> HIDE DEF first
<1>8. \A j, k \in matched : <<j, k>> \in before <=> first(j) < first(k)
  OBVIOUS
<1>w. \A k \in matched : WidestEvidence(rule, stamped, k) # <<>>
  OBVIOUS
<1> HIDE DEF matched, before
<1>9. InOrder(matched, before) \in Seq(matched)
  <2>1. \A k \in matched : <<k, k>> \notin before
    BY <1>5, <1>8
  <2>2. \A j, k \in matched : j # k => <<j, k>> \in before \/ <<k, j>> \in before
    BY <1>5, <1>6, <1>8
  <2>3. \A i, j, k \in matched : <<i, j>> \in before /\ <<j, k>> \in before => <<i, k>> \in before
    BY <1>5, <1>8
  <2> QED BY <1>3, <2>1, <2>2, <2>3, SortedSet
<1>10. MatchedKeys(rule, stamped) \in Seq(STRING)
  BY <1>3, <1>7, <1>9, SeqMonotone
<1> QED BY <1>7, <1>9, <1>10, <1>w

LEMMA FindingType ==
    ASSUME NEW rule \in Rules, rule # "credential_reuse",
           NEW key \in STRING, NEW evidence \in Seq(Event), evidence # <<>>
    PROVE  LET finding == FindingFrom(rule, key, evidence)
           IN  /\ finding \in Finding
               /\ finding.fingerprint.rule = rule /\ finding.fingerprint.actor = key
               /\ finding.count = Len(evidence)
               /\ IsFirstOf(finding.fingerprint.first, evidence)
<1> DEFINE times == {evidence[i].ts : i \in DOMAIN evidence}
<1>0. \A e \in Event : e.ts \in Nat
  BY DEF Event
<1>1. times \in SUBSET Nat /\ times # {}
  <2>1. \A i \in DOMAIN evidence : evidence[i] \in Event
    OBVIOUS
  <2>2. 1 \in DOMAIN evidence
    OBVIOUS
  <2> QED BY <1>0, <2>1, <2>2
<1>2. IsFiniteSet(times)
  <2> DEFINE time == [i \in DOMAIN evidence |-> evidence[i].ts]
  <2>1. time \in Surjection(DOMAIN evidence, times)
    BY DEF Surjection
  <2>2. IsFiniteSet(DOMAIN evidence)
    BY Indices
  <2> HIDE DEF time, times
  <2> QED BY <2>1, <2>2, FS_Surjection
<1>3. FindingFrom(rule, key, evidence) =
        [fingerprint |-> [rule |-> rule, actor |-> key, first |-> Min(times)],
         last |-> Max(times), count |-> Len(evidence)]
  BY Zenon DEF FindingFrom
<1>m. /\ \A t \in times : \E n \in DOMAIN evidence : evidence[n].ts = t
      /\ \A n \in DOMAIN evidence : evidence[n].ts \in times
  OBVIOUS
<1> HIDE DEF times
<1>4. /\ Min(times) \in Nat /\ Max(times) \in Nat
      /\ Min(times) \in times /\ \A t \in times : Min(times) <= t
  <2>1. Min(times) \in times /\ Max(times) \in times
    BY <1>1, <1>2, LeastOf, GreatestOf
  <2> QED BY <1>1, <2>1, LeastOf
<1>5. Len(evidence) \in Nat
  OBVIOUS
<1>6. IsFirstOf(Min(times), evidence)
  BY <1>4, <1>m DEF IsFirstOf
<1> QED BY <1>3, <1>4, <1>5, <1>6 DEF Finding, Fingerprint

(* A rule reports what it found in the events, and in all of it.           *)
LEMMA FindingsOfType ==
    ASSUME NEW rule \in Rules, rule # "credential_reuse", NEW events \in Seq(Event)
    PROVE  FindingsOf(rule, events) \in Seq(FindingIn(events))
<1> DEFINE stamped == Stamped(rule, events)
           keys == MatchedKeys(rule, stamped)
           finding(i) == FindingFrom(rule, keys[i], WidestEvidence(rule, stamped, keys[i]))
<1>1. /\ stamped \in Seq(Event)
      /\ \A i \in DOMAIN stamped : Relevant(rule, stamped[i])
      /\ stamped # <<>> => events # <<>>
  BY StampedType
<1>2. FindingsOf(rule, events) = [i \in DOMAIN keys |-> finding(i)]
  BY Zenon DEF FindingsOf
<1> HIDE DEF stamped
<1>3. /\ keys \in Seq(STRING)
      /\ \A i \in DOMAIN keys : WidestEvidence(rule, stamped, keys[i]) # <<>>
  BY <1>1, MatchedKeysType
<1> HIDE DEF keys
<1>4. ASSUME NEW i \in DOMAIN keys
      PROVE  finding(i) \in FindingIn(events)
  <2>1. keys[i] \in STRING /\ WidestEvidence(rule, stamped, keys[i]) # <<>>
    BY <1>3
  <2>2. PICK n \in DOMAIN stamped :
            WidestEvidence(rule, stamped, keys[i])
               = Evidence(rule, WindowEndingAt(rule, stamped, n))
    BY <1>1, <2>1, WidestEvidenceIsReached
  <2>3. WidestEvidence(rule, stamped, keys[i]) \in Seq(Event)
    BY <1>1, <2>2, WindowEndingType, EvidenceType
  <2>4. /\ finding(i) \in Finding
        /\ finding(i).fingerprint.rule = rule /\ finding(i).fingerprint.actor = keys[i]
        /\ finding(i).count = Len(WidestEvidence(rule, stamped, keys[i]))
        /\ IsFirstOf(finding(i).fingerprint.first, WidestEvidence(rule, stamped, keys[i]))
    BY <2>1, <2>3, FindingType
  <2> HIDE DEF finding
  <2>5. EvidenceFor(finding(i).fingerprint, events) = WidestEvidence(rule, stamped, keys[i])
    BY <2>4, Zenon DEF EvidenceFor, stamped
  <2> QED BY <2>1, <2>4, <2>5 DEF FindingIn, FoundIn
<1> HIDE DEF finding
<1>5. DOMAIN keys = 1..Len(keys) /\ Len(keys) \in Nat
  BY <1>3
<1> DEFINE R == FindingIn(events)
<1>6. \A i \in 1..Len(keys) : finding(i) \in R
  BY <1>4, <1>5
<1> HIDE DEF R
<1>7. FindingsOf(rule, events) \in Seq(R)
  BY <1>2, <1>5, <1>6
<1> QED BY <1>7 DEF R

LEMMA RuleOrderType ==
    RuleOrder \in Seq(Rules) /\ \A i \in DOMAIN RuleOrder : RuleOrder[i] # "credential_reuse"
BY DEF RuleOrder, Rules

(* detect_patterns: what the rules find in the events.                     *)
LEMMA DetectType ==
    ASSUME NEW events \in Seq(Event)
    PROVE  DetectPatterns(RuleOrder, events) \in Seq(FindingIn(events))
<1> DEFINE R == FindingIn(events)
           found == [i \in DOMAIN RuleOrder |->
                       IF Configured(RuleOrder[i]) THEN FindingsOf(RuleOrder[i], events) ELSE <<>>]
<1>1. DetectPatterns(RuleOrder, events) = FlattenSeq(found)
  BY Zenon DEF DetectPatterns
<1>2. found \in Seq(Seq(R))
  <2>1. \A i \in DOMAIN RuleOrder : FindingsOf(RuleOrder[i], events) \in Seq(R) /\ <<>> \in Seq(R)
    <3>1. \A i \in DOMAIN RuleOrder : RuleOrder[i] \in Rules /\ RuleOrder[i] # "credential_reuse"
      <4> HIDE DEF R
      <4> QED BY RuleOrderType
    <3>2. \A rule \in Rules : rule # "credential_reuse" => FindingsOf(rule, events) \in Seq(R)
      BY FindingsOfType
    <3>3. <<>> \in Seq(R)
      <4> HIDE DEF R
      <4> QED OBVIOUS
    <3> QED BY <3>1, <3>2, <3>3, Zenon
  <2>2. \A i \in DOMAIN RuleOrder : found[i] \in Seq(R)
    <3> HIDE DEF R
    <3> QED BY <2>1
  <2>3. DOMAIN RuleOrder = 1..Len(RuleOrder) /\ Len(RuleOrder) \in Nat
    BY RuleOrderType
  <2>4. found = [i \in 1..Len(RuleOrder) |-> found[i]]
    BY <2>3
  <2> HIDE DEF R, found
  <2> QED BY <2>2, <2>3, <2>4
<1> HIDE DEF R, found
<1>3. FlattenSeq(found) \in Seq(R)
  BY <1>2, FlattenSeqType
<1> QED BY <1>1, <1>3 DEF R

NoRepeats(events) == \A i, j \in DOMAIN events : events[i] = events[j] => i = j

(* The snapshot is a sequence of events, none of them twice. *)
LEMMA SnapshotType ==
    ASSUME WP!IInv
    PROVE  SnapshotEvents(Newest) \in Seq(Event) /\ NoRepeats(SnapshotEvents(Newest))
<1> DEFINE newest == Newest
           before == {p \in newest \X newest : W!Older(p[1], p[2])}
           items == InOrder(newest, before)
<1>1. /\ stored \in SUBSET WP!Item /\ IsFiniteSet(stored)
      /\ \A x, y \in stored : x.seq = y.seq => x = y
  BY DEF WP!IInv, WP!TypeOK, WP!SequencesUnique, WP!IsFiniteSet, IsFiniteSet
<1>2. newest \in SUBSET stored
  BY DEF Newest, W!Snapshot, W!Bucket
<1>3. IsFiniteSet(newest)
  BY <1>1, <1>2, FS_Subset
<1>n. \A x, y \in newest : x.event = y.event => x = y
  BY <1>2 DEF WP!IInv, WP!NoDuplicateEvents, Newest, W!Snapshot, W!Bucket
<1>4. \A x \in newest : /\ Stamps[x.event] \in Nat /\ x.seq \in Nat /\ x.event \in Event
  BY <1>1, <1>2, EventsType DEF WP!Item, Stamps, Event
<1>5. \A x, y \in newest : <<x, y>> \in before <=> W!Older(x, y)
  OBVIOUS
<1>6. SnapshotEvents(Newest) = [i \in DOMAIN items |-> items[i].event]
  BY Zenon DEF SnapshotEvents
<1> HIDE DEF newest, before
<1>7. /\ items \in Seq(newest)
      /\ \A m, n \in DOMAIN items : m < n => <<items[m], items[n]>> \in before
  <2>1. \A x \in newest : <<x, x>> \notin before
    BY <1>4, <1>5 DEF W!Older, W!Time
  <2>2. \A x, y \in newest : x # y => <<x, y>> \in before \/ <<y, x>> \in before
    BY <1>1, <1>2, <1>4, <1>5 DEF W!Older, W!Time
  <2>3. \A x, y, z \in newest : <<x, y>> \in before /\ <<y, z>> \in before => <<x, z>> \in before
    BY <1>4, <1>5 DEF W!Older, W!Time
  <2>4. DOMAIN items = 1..Cardinality(newest)
    BY DEF InOrder
  <2> QED BY <1>3, <2>1, <2>2, <2>3, <2>4, SortedSet
<1> HIDE DEF items
<1>8. DOMAIN items = 1..Len(items) /\ Len(items) \in Nat
  BY <1>7
<1>9. \A i \in 1..Len(items) : items[i].event \in Event
  BY <1>4, <1>7
<1>10. \A m, n \in DOMAIN items : items[m] = items[n] => m = n
  <2>1. \A x \in newest : <<x, x>> \notin before
    BY <1>4, <1>5 DEF W!Older, W!Time
  <2>2. \A m, n \in DOMAIN items : m < n \/ n < m \/ m = n
    BY <1>8
  <2>3. \A m \in DOMAIN items : items[m] \in newest
    BY <1>7
  <2>4. SUFFICES ASSUME NEW m \in DOMAIN items, NEW n \in DOMAIN items, items[m] = items[n], m # n
                 PROVE  FALSE
    OBVIOUS
  <2>5. <<items[m], items[n]>> \in before \/ <<items[n], items[m]>> \in before
    BY <1>7, <2>2, <2>4
  <2>6. <<items[m], items[m]>> \in before
    BY <2>4, <2>5
  <2> QED BY <2>1, <2>3, <2>6
<1>11. NoRepeats(SnapshotEvents(Newest))
  <2>1. \A m \in DOMAIN items : items[m] \in newest
    BY <1>7
  <2> QED BY <1>6, <1>n, <1>10, <2>1 DEF NoRepeats
<1> QED BY <1>6, <1>8, <1>9, <1>11

-----------------------------------------------------------------------------
(* The cooldown cache against the history of accepted findings.            *)

Entry == [fingerprint : Fingerprint, at : FirstClock..LastClock]

(* A record tells of what its snapshot held. *)
Record ==
    {r \in [fingerprint : Fingerprint, last : Nat, count : Nat, at : FirstClock..LastClock,
            ripe : BOOLEAN, due : BOOLEAN, snapshot : Seq(Event)] :
        NoRepeats(r.snapshot) /\ FoundIn(r.fingerprint, r.count, r.snapshot)}

OneEach(list) ==
    \A i, j \in DOMAIN list : list[i].fingerprint = list[j].fingerprint => i = j

(* Every entry is in the history with the same time, and in the same order. *)
Linked(cache, history) ==
    /\ \A p \in DOMAIN cache : \E i \in DOMAIN history :
          /\ history[i].fingerprint = cache[p].fingerprint
          /\ history[i].at = cache[p].at
    /\ \A p, q \in DOMAIN cache : \A i, j \in DOMAIN history :
          (/\ p < q
           /\ history[i].fingerprint = cache[p].fingerprint
           /\ history[j].fingerprint = cache[q].fingerprint) => i < j

Kept(cache, history) ==
    \A i \in DOMAIN history :
        \/ history[i].ripe
        \/ Holds(cache, history[i].fingerprint)
        \/ Len(history) - i >= MaxEntries

Explained(history, now) ==
    \A i \in DOMAIN history :
        /\ now - history[i].at >= Cooldown => history[i].ripe
        /\ history[i].due
        /\ StepsBack \/ history[i].at <= now

(* Entries may go without the others losing their link. *)
LEMMA FewerEntries ==
    ASSUME NEW cache \in Seq(Entry), NEW history, OneEach(cache), Linked(cache, history),
           NEW I \in SUBSET DOMAIN cache
    PROVE  /\ AtIndices(cache, I) \in Seq(Entry) /\ Len(AtIndices(cache, I)) <= Len(cache)
           /\ OneEach(AtIndices(cache, I))
           /\ Linked(AtIndices(cache, I), history)
           /\ \A p \in I : Holds(AtIndices(cache, I), cache[p].fingerprint)
           /\ \A f : Holds(AtIndices(cache, I), f) => \E p \in I : cache[p].fingerprint = f
<1> DEFINE part == AtIndices(cache, I)
<1>1. /\ part \in Seq(Entry) /\ Len(part) <= Len(cache)
      /\ \A n \in DOMAIN part : Nth(I, n) \in I /\ part[n] = cache[Nth(I, n)]
      /\ \A m, n \in DOMAIN part : m < n => Nth(I, m) < Nth(I, n)
      /\ \A m, n \in DOMAIN part : Nth(I, m) = Nth(I, n) => m = n
      /\ \A i \in I : Rank(I, i) \in DOMAIN part /\ part[Rank(I, i)] = cache[i]
  BY Selection
<1> HIDE DEF part
<1>2. \A n \in DOMAIN part : Nth(I, n) \in DOMAIN cache
  BY <1>1
<1>3. OneEach(part)
  BY <1>1, <1>2, SMTT(30) DEF OneEach
<1>4. Linked(part, history)
  <2>1. \A p \in DOMAIN part : \E i \in DOMAIN history :
            history[i].fingerprint = part[p].fingerprint /\ history[i].at = part[p].at
    BY <1>1, <1>2 DEF Linked
  <2>2. ASSUME NEW p \in DOMAIN part, NEW q \in DOMAIN part,
               NEW i \in DOMAIN history, NEW j \in DOMAIN history, p < q,
               history[i].fingerprint = part[p].fingerprint,
               history[j].fingerprint = part[q].fingerprint
        PROVE  i < j
    <3>1. Nth(I, p) < Nth(I, q) /\ Nth(I, p) \in DOMAIN cache /\ Nth(I, q) \in DOMAIN cache
      BY <1>1, <1>2, <2>2
    <3>2. /\ history[i].fingerprint = cache[Nth(I, p)].fingerprint
          /\ history[j].fingerprint = cache[Nth(I, q)].fingerprint
      BY <1>1, <2>2
    <3> QED BY <3>1, <3>2 DEF Linked
  <2> QED BY <2>1, <2>2 DEF Linked
<1>5. \A p \in I : Holds(part, cache[p].fingerprint)
  BY <1>1 DEF Holds
<1>6. \A f : Holds(part, f) => \E p \in I : cache[p].fingerprint = f
  BY <1>1 DEF Holds
<1> QED BY <1>1, <1>3, <1>4, <1>5, <1>6 DEF part

(* At most one record goes, so those that stay keep their distance from    *)
(* the end once another takes its place.                                   *)
LEMMA FewerRecords ==
    ASSUME NEW history \in Seq(Record), OneEach(history), NEW f
    PROVE  LET rest == Without(history, f)
               I == {i \in DOMAIN history : history[i].fingerprint # f}
           IN  /\ rest \in Seq(Record)
               /\ Len(history) <= Len(rest) + 1
               /\ \A n \in DOMAIN rest : Nth(I, n) \in I /\ rest[n] = history[Nth(I, n)]
               /\ \A m, n \in DOMAIN rest : m < n => Nth(I, m) < Nth(I, n)
               /\ \A m, n \in DOMAIN rest : Nth(I, m) = Nth(I, n) => m = n
               /\ \A i \in I : /\ Rank(I, i) \in DOMAIN rest /\ rest[Rank(I, i)] = history[i]
                               /\ Rank(I, i) <= i
<1> DEFINE rest == Without(history, f)
           I == {i \in DOMAIN history : history[i].fingerprint # f}
<1>1. rest = AtIndices(history, I)
  BY DEF Without
<1>2. I \in SUBSET DOMAIN history /\ DOMAIN history = 1..Len(history) /\ Len(history) \in Nat
  OBVIOUS
<1>3. Len(history) <= Cardinality(I) + 1
  <2>1. IsFiniteSet(DOMAIN history) /\ Cardinality(DOMAIN history) = Len(history)
    <3>1. 1 \in Int /\ Len(history) \in Int /\ (1 > Len(history) => Len(history) = 0)
      BY <1>2
    <3>2. /\ IsFiniteSet(1..Len(history))
          /\ Cardinality(1..Len(history)) = IF 1 > Len(history) THEN 0 ELSE Len(history) - 1 + 1
      BY <3>1, FS_Interval
    <3> QED BY <1>2, <3>1, <3>2
  <2>2. CASE \E j \in DOMAIN history : history[j].fingerprint = f
    <3>1. PICK j \in DOMAIN history : history[j].fingerprint = f
      BY <2>2
    <3>2. I = DOMAIN history \ {j}
      BY <3>1 DEF OneEach
    <3> HIDE DEF I
    <3>3. Cardinality(I) = Len(history) - 1
      BY <2>1, <3>1, <3>2, FS_RemoveElement
    <3> QED BY <1>2, <3>3
  <2>3. CASE \A j \in DOMAIN history : history[j].fingerprint # f
    <3>1. I = DOMAIN history
      BY <2>3
    <3> HIDE DEF I
    <3> QED BY <1>2, <2>1, <3>1
  <2> QED BY <2>2, <2>3
<1>4. \A i \in I : Rank(I, i) <= i
  <2> SUFFICES ASSUME NEW i \in I PROVE Rank(I, i) <= i
    OBVIOUS
  <2>1. i \in Nat /\ 1 <= i
    BY <1>2
  <2> DEFINE below == {k \in I : k <= i}
  <2>2. below \in SUBSET (1..i)
    BY <1>2
  <2>3. IsFiniteSet(1..i) /\ Cardinality(1..i) = i
    <3>1. 1 \in Int /\ i \in Int /\ (1 > i => i = 0)
      BY <2>1
    <3>2. IsFiniteSet(1..i) /\ Cardinality(1..i) = IF 1 > i THEN 0 ELSE i - 1 + 1
      BY <3>1, FS_Interval
    <3> QED BY <2>1, <3>2
  <2>4. Rank(I, i) = Cardinality(below)
    BY DEF Rank
  <2> HIDE DEF below
  <2> QED BY <2>2, <2>3, <2>4, FS_Subset, ZenonT(30)
<1> HIDE DEF I
<1>5. /\ rest \in Seq(Record)
      /\ \A n \in DOMAIN rest : Nth(I, n) \in I /\ rest[n] = history[Nth(I, n)]
      /\ \A m, n \in DOMAIN rest : m < n => Nth(I, m) < Nth(I, n)
      /\ \A m, n \in DOMAIN rest : Nth(I, m) = Nth(I, n) => m = n
      /\ \A i \in I : Rank(I, i) \in DOMAIN rest /\ rest[Rank(I, i)] = history[i]
  BY <1>1, <1>2, Selection
<1>6. Len(rest) = Cardinality(I)
  BY <1>1, <1>2, SubsequenceAtIndices
<1> HIDE DEF rest
<1>7. Len(history) <= Len(rest) + 1
  BY <1>3, <1>6
<1> QED BY <1>4, <1>5, <1>7 DEF rest, I

(* The record is the last of the new history; the others stand no closer to *)
(* its end than they did.                                                  *)
Moved(history, record, entered) ==
    /\ entered[Len(entered)] = record /\ Len(entered) \in DOMAIN entered
    /\ \A n \in DOMAIN entered :
           \/ n = Len(entered)
           \/ \E i \in DOMAIN history :
                 /\ entered[n] = history[i]
                 /\ Len(entered) - n >= Len(history) - i
    /\ \A i \in DOMAIN history :
           \/ history[i].fingerprint = record.fingerprint
           \/ \E n \in DOMAIN entered : entered[n] = history[i]

(* A finding is accepted: its record moves to the end of the history, its  *)
(* entry to the end of the cache.                                          *)
LEMMA Entering ==
    ASSUME NEW cache \in Seq(Entry), NEW history \in Seq(Record),
           OneEach(cache), OneEach(history), Linked(cache, history),
           NEW record \in Record, ~Holds(cache, record.fingerprint)
    PROVE  LET entered == Append(Without(history, record.fingerprint), record)
               longer == Append(cache, [fingerprint |-> record.fingerprint, at |-> record.at])
           IN  /\ entered \in Seq(Record) /\ longer \in Seq(Entry)
               /\ OneEach(entered) /\ OneEach(longer) /\ Linked(longer, entered)
               /\ Moved(history, record, entered)
<1> DEFINE f == record.fingerprint
           rest == Without(history, f)
           I == {i \in DOMAIN history : history[i].fingerprint # f}
           entered == Append(rest, record)
           entry == [fingerprint |-> f, at |-> record.at]
           longer == Append(cache, entry)
<1>5. f = record.fingerprint
  OBVIOUS
<1> HIDE DEF f
<1>1. /\ rest \in Seq(Record)
      /\ Len(history) <= Len(rest) + 1
      /\ \A n \in DOMAIN rest : Nth(I, n) \in I /\ rest[n] = history[Nth(I, n)]
      /\ \A m, n \in DOMAIN rest : m < n => Nth(I, m) < Nth(I, n)
      /\ \A m, n \in DOMAIN rest : Nth(I, m) = Nth(I, n) => m = n
      /\ \A i \in I : /\ Rank(I, i) \in DOMAIN rest /\ rest[Rank(I, i)] = history[i]
                      /\ Rank(I, i) <= i
  BY FewerRecords
<1>2. \A i \in I : i \in DOMAIN history /\ history[i].fingerprint # f
  OBVIOUS
<1>3. \A i \in DOMAIN history : i \in I \/ history[i].fingerprint = f
  OBVIOUS
<1>4. entry \in Entry /\ entry.fingerprint = f /\ entry.at = record.at
  BY <1>5 DEF Entry, Record
<1> HIDE DEF rest, I, entry
<1>6. /\ entered \in Seq(Record) /\ Len(entered) = Len(rest) + 1 /\ Len(rest) \in Nat
      /\ DOMAIN rest = 1..Len(rest) /\ DOMAIN entered = 1..(Len(rest) + 1)
      /\ entered[Len(rest) + 1] = record
      /\ \A n \in DOMAIN rest : entered[n] = rest[n]
  BY <1>1
<1>7. /\ longer \in Seq(Entry) /\ Len(longer) = Len(cache) + 1 /\ Len(cache) \in Nat
      /\ DOMAIN cache = 1..Len(cache) /\ DOMAIN longer = 1..(Len(cache) + 1)
      /\ longer[Len(cache) + 1] = entry
      /\ \A p \in DOMAIN cache : longer[p] = cache[p]
  BY <1>4
<1> HIDE DEF entered, longer
<1>8. \A n \in DOMAIN entered : n \in DOMAIN rest \/ n = Len(rest) + 1
  BY <1>6
<1>9. \A p \in DOMAIN longer : p \in DOMAIN cache \/ p = Len(cache) + 1
  BY <1>7
<1>10. \A n \in DOMAIN rest : Nth(I, n) \in DOMAIN history /\ entered[n] = history[Nth(I, n)]
                              /\ entered[n].fingerprint # f
  BY <1>1, <1>2, <1>6
<1>11. \A p \in DOMAIN cache : cache[p].fingerprint # f
  BY <1>5 DEF Holds
<1>12. OneEach(entered)
  <2> SUFFICES ASSUME NEW m \in DOMAIN entered, NEW n \in DOMAIN entered,
                      entered[m].fingerprint = entered[n].fingerprint
               PROVE  m = n
    BY DEF OneEach
  <2>1. CASE m \in DOMAIN rest /\ n \in DOMAIN rest
    <3>1. Nth(I, m) = Nth(I, n)
      BY <1>10, <2>1 DEF OneEach
    <3> QED BY <1>1, <2>1, <3>1
  <2> QED BY <1>5, <1>6, <1>8, <1>10, <2>1
<1>13. OneEach(longer)
  <2> SUFFICES ASSUME NEW p \in DOMAIN longer, NEW q \in DOMAIN longer,
                      longer[p].fingerprint = longer[q].fingerprint
               PROVE  p = q
    BY DEF OneEach
  <2>1. CASE p \in DOMAIN cache /\ q \in DOMAIN cache
    BY <1>7, <2>1 DEF OneEach
  <2> QED BY <1>4, <1>7, <1>9, <1>11, <2>1
<1>14. Linked(longer, entered)
  <2>1. ASSUME NEW p \in DOMAIN longer
        PROVE  \E n \in DOMAIN entered :
                  entered[n].fingerprint = longer[p].fingerprint /\ entered[n].at = longer[p].at
    <3>1. CASE p = Len(cache) + 1
      <4>1. Len(rest) + 1 \in DOMAIN entered
        BY <1>6
      <4> QED BY <1>4, <1>5, <1>6, <1>7, <3>1, <4>1
    <3>2. CASE p \in DOMAIN cache
      <4>1. PICK i \in DOMAIN history :
               history[i].fingerprint = cache[p].fingerprint /\ history[i].at = cache[p].at
        BY <3>2 DEF Linked
      <4>2. i \in I
        BY <1>3, <1>11, <3>2, <4>1
      <4>3. Rank(I, i) \in DOMAIN rest /\ entered[Rank(I, i)] = history[i]
        BY <1>1, <1>6, <4>2
      <4>4. Rank(I, i) \in DOMAIN entered
        BY <1>6, <4>3
      <4> QED BY <1>7, <3>2, <4>1, <4>3, <4>4
    <3> QED BY <1>9, <3>1, <3>2
  <2>2. ASSUME NEW p \in DOMAIN longer, NEW q \in DOMAIN longer,
               NEW m \in DOMAIN entered, NEW n \in DOMAIN entered, p < q,
               entered[m].fingerprint = longer[p].fingerprint,
               entered[n].fingerprint = longer[q].fingerprint
        PROVE  m < n
    <3>1. p \in DOMAIN cache /\ longer[p] = cache[p] /\ longer[p].fingerprint # f
      BY <1>7, <1>9, <1>11, <2>2
    <3>2. m \in DOMAIN rest
      BY <1>5, <1>6, <1>8, <2>2, <3>1
    <3>3. CASE n = Len(rest) + 1
      BY <1>6, <3>2, <3>3
    <3>4. CASE n \in DOMAIN rest
      <4>1. q \in DOMAIN cache /\ longer[q] = cache[q]
        BY <1>4, <1>7, <1>9, <1>10, <2>2, <3>4
      <4>2. Nth(I, m) < Nth(I, n)
        <5>1. /\ Nth(I, m) \in DOMAIN history /\ Nth(I, n) \in DOMAIN history
              /\ history[Nth(I, m)].fingerprint = cache[p].fingerprint
              /\ history[Nth(I, n)].fingerprint = cache[q].fingerprint
          BY <1>10, <2>2, <3>1, <3>2, <3>4, <4>1
        <5> QED BY <2>2, <3>1, <4>1, <5>1 DEF Linked
      <4>3. m \in Int /\ n \in Int /\ Nth(I, m) \in Int /\ Nth(I, n) \in Int
        BY <1>6, <1>10, <3>2, <3>4
      <4>4. ~(n < m) /\ n # m
        BY <1>1, <3>2, <3>4, <4>2, <4>3
      <4> QED BY <4>3, <4>4
    <3> QED BY <1>8, <3>3, <3>4
  <2> QED BY <2>1, <2>2 DEF Linked
<1>15. ASSUME NEW n \in DOMAIN entered, n # Len(entered)
       PROVE  \E i \in DOMAIN history :
                  entered[n] = history[i] /\ Len(entered) - n >= Len(history) - i
  <2>1. n \in DOMAIN rest
    BY <1>6, <1>8, <1>15
  <2>2. Nth(I, n) \in I /\ entered[n] = history[Nth(I, n)] /\ Nth(I, n) \in DOMAIN history
    BY <1>1, <1>10, <2>1
  <2>3. n <= Nth(I, n)
    <3>1. Rank(I, Nth(I, n)) = n
      <4>1. I \in SUBSET Nat /\ IsFiniteSet(I)
        BY Indices DEF I
      <4>2. rest = AtIndices(history, I)
        BY DEF rest, I, Without
      <4>3. n \in 1..Cardinality(I)
        BY <2>1, <4>2 DEF AtIndices
      <4> QED BY <4>1, <4>3, NthIndex
    <3> QED BY <1>1, <2>2, <3>1
  <2>4. Len(entered) - n >= Len(history) - Nth(I, n)
    <3>1. Nth(I, n) \in Int /\ n \in Int /\ Len(history) \in Int
      BY <1>6, <2>1, <2>2
    <3> QED BY <1>1, <1>6, <2>3, <3>1
  <2> QED BY <2>2, <2>4
<1>16. ASSUME NEW i \in DOMAIN history, history[i].fingerprint # f
       PROVE  \E n \in DOMAIN entered : entered[n] = history[i]
  <2>1. i \in I
    BY <1>3, <1>16
  <2>2. Rank(I, i) \in DOMAIN rest /\ entered[Rank(I, i)] = history[i]
    BY <1>1, <1>6, <2>1
  <2>3. Rank(I, i) \in DOMAIN entered
    BY <1>6, <2>2
  <2> QED BY <2>2, <2>3
<1>17. entered[Len(entered)] = record /\ Len(entered) \in DOMAIN entered
  BY <1>6
<1>18. Moved(history, record, entered)
  BY <1>5, <1>15, <1>16, <1>17 DEF Moved
<1> QED BY <1>6, <1>7, <1>12, <1>13, <1>14, <1>18 DEF entered, longer, rest, entry, f

(* popitem takes the entry at the front, whose finding was accepted before *)
(* those of all the others: they are max_entries records after its own.    *)
LEMMA Trimming ==
    ASSUME NEW cache \in Seq(Entry), NEW history \in Seq(Record),
           Len(cache) <= MaxEntries + 1,
           OneEach(cache), OneEach(history), Linked(cache, history), Kept(cache, history)
    PROVE  /\ Trimmed(cache) \in Seq(Entry) /\ Len(Trimmed(cache)) <= MaxEntries
           /\ OneEach(Trimmed(cache)) /\ Linked(Trimmed(cache), history)
           /\ Kept(Trimmed(cache), history)
<1>0. MaxEntries \in Nat \ {0} /\ Len(cache) \in Nat
  BY DedupAssumption
<1>1. CASE Len(cache) <= MaxEntries
  <2>1. Trimmed(cache) = cache
    BY <1>0, <1>1 DEF Trimmed
  <2> QED BY <1>1, <2>1
<1>2. CASE Len(cache) > MaxEntries
  <2> DEFINE part == Trimmed(cache)
  <2>1. Len(cache) = MaxEntries + 1
    BY <1>0, <1>2
  <2>2. part = SubSeq(cache, 2, Len(cache))
    BY <1>0, <2>1 DEF Trimmed
  <2> HIDE DEF part
  <2>3. /\ part \in Seq(Entry) /\ Len(part) = MaxEntries /\ DOMAIN part = 1..MaxEntries
        /\ \A p \in 1..MaxEntries : part[p] = cache[p + 1] /\ p + 1 \in DOMAIN cache
    BY <1>0, <2>1, <2>2
  <2>4. DOMAIN cache = 1..(MaxEntries + 1)
    BY <1>0, <2>1
  <2>5. OneEach(part)
    <3> SUFFICES ASSUME NEW p \in DOMAIN part, NEW q \in DOMAIN part,
                        part[p].fingerprint = part[q].fingerprint
                 PROVE  p = q
      BY DEF OneEach
    <3>1. p + 1 = q + 1
      BY <2>3 DEF OneEach
    <3> QED BY <1>0, <2>3, <3>1
  <2>6. Linked(part, history)
    <3>1. \A p \in DOMAIN part : \E i \in DOMAIN history :
              history[i].fingerprint = part[p].fingerprint /\ history[i].at = part[p].at
      BY <2>3 DEF Linked
    <3>2. ASSUME NEW p \in DOMAIN part, NEW q \in DOMAIN part,
                 NEW i \in DOMAIN history, NEW j \in DOMAIN history, p < q,
                 history[i].fingerprint = part[p].fingerprint,
                 history[j].fingerprint = part[q].fingerprint
          PROVE  i < j
      <4>1. p + 1 < q + 1 /\ p + 1 \in DOMAIN cache /\ q + 1 \in DOMAIN cache
        BY <1>0, <2>3, <3>2
      <4>2. /\ history[i].fingerprint = cache[p + 1].fingerprint
            /\ history[j].fingerprint = cache[q + 1].fingerprint
        BY <2>3, <3>2
      <4> QED BY <4>1, <4>2 DEF Linked
    <3> QED BY <3>1, <3>2 DEF Linked
  <2>7. Kept(part, history)
    <3> SUFFICES ASSUME NEW i \in DOMAIN history, ~history[i].ripe,
                        ~Holds(part, history[i].fingerprint)
                 PROVE  Len(history) - i >= MaxEntries
      BY DEF Kept
    <3>0. i \in Nat /\ Len(history) \in Nat /\ DOMAIN history = 1..Len(history) /\ i <= Len(history)
      OBVIOUS
    <3>1. CASE ~Holds(cache, history[i].fingerprint)
      BY <3>1 DEF Kept
    <3>2. CASE Holds(cache, history[i].fingerprint)
      <4>1. PICK p \in DOMAIN cache : cache[p].fingerprint = history[i].fingerprint
        BY <3>2 DEF Holds
      <4>2. p = 1
        <5> SUFFICES ASSUME p # 1 PROVE FALSE
          OBVIOUS
        <5>1. p - 1 \in 1..MaxEntries /\ (p - 1) + 1 = p
          BY <1>0, <2>4
        <5>2. part[p - 1].fingerprint = history[i].fingerprint /\ p - 1 \in DOMAIN part
          BY <2>3, <4>1, <5>1
        <5> QED BY <5>2 DEF Holds
      <4> DEFINE after == (i + 1)..Len(history)
                 home(q) == CHOOSE j \in DOMAIN history :
                               history[j].fingerprint = part[q].fingerprint
                 place == [q \in 1..MaxEntries |-> home(q)]
      <4>3. \A q \in 1..MaxEntries : /\ home(q) \in DOMAIN history
                                     /\ history[home(q)].fingerprint = part[q].fingerprint
        BY <2>3, <2>6 DEF Linked
      <4> HIDE DEF home
      <4>4. \A q \in 1..MaxEntries : home(q) \in after
        <5> SUFFICES ASSUME NEW q \in 1..MaxEntries PROVE home(q) \in after
          OBVIOUS
        <5>1. 1 < q + 1 /\ q + 1 \in DOMAIN cache /\ 1 \in DOMAIN cache
          BY <1>0, <2>3, <2>4
        <5>2. history[home(q)].fingerprint = cache[q + 1].fingerprint
          BY <2>3, <4>3
        <5>3. i < home(q)
          BY <4>1, <4>2, <4>3, <5>1, <5>2 DEF Linked
        <5>4. home(q) \in 1..Len(history)
          BY <3>0, <4>3
        <5> QED BY <3>0, <5>3, <5>4
      <4>5. place \in Injection(1..MaxEntries, after)
        <5>1. place \in [1..MaxEntries -> after]
          BY <4>4
        <5>2. \A q, r \in 1..MaxEntries : place[q] = place[r] => q = r
          <6> SUFFICES ASSUME NEW q \in 1..MaxEntries, NEW r \in 1..MaxEntries, home(q) = home(r)
                       PROVE  q = r
            OBVIOUS
          <6>1. part[q].fingerprint = part[r].fingerprint
            BY <4>3
          <6> QED BY <2>3, <2>5, <6>1 DEF OneEach
        <5> HIDE DEF place
        <5> QED BY <5>1, <5>2 DEF Injection, IsInjective
      <4>6. IsFiniteSet(1..MaxEntries) /\ Cardinality(1..MaxEntries) = MaxEntries
        <5>1. 1 \in Int /\ MaxEntries \in Int /\ ~(1 > MaxEntries)
          BY <1>0
        <5>2. /\ IsFiniteSet(1..MaxEntries)
              /\ Cardinality(1..MaxEntries) = IF 1 > MaxEntries THEN 0 ELSE MaxEntries - 1 + 1
          BY <5>1, FS_Interval
        <5> QED BY <1>0, <5>1, <5>2
      <4>7. IsFiniteSet(after) /\ Cardinality(after) = Len(history) - i
        <5>1. i + 1 \in Int /\ Len(history) \in Int
          BY <3>0
        <5>2. /\ IsFiniteSet(after)
              /\ Cardinality(after) = IF i + 1 > Len(history) THEN 0
                                      ELSE Len(history) - (i + 1) + 1
          BY <5>1, FS_Interval
        <5> QED BY <3>0, <5>2
      <4> HIDE DEF place, after
      <4>8. Cardinality(1..MaxEntries) <= Cardinality(after)
        BY <4>5, <4>6, <4>7, FS_Injection
      <4> QED BY <1>0, <3>0, <4>6, <4>7, <4>8
    <3> QED BY <3>1, <3>2
  <2> QED BY <1>0, <2>3, <2>5, <2>6, <2>7 DEF part
<1> QED BY <1>0, <1>1, <1>2

LEMMA EntryTimes ==
    ASSUME NEW cache \in Seq(Entry)
    PROVE  \A p \in DOMAIN cache : cache[p].at \in Nat
<1>1. \A e \in Entry : e.at \in Nat
  BY PipelineAssumption DEF Entry
<1>2. \A p \in DOMAIN cache : cache[p] \in Entry
  OBVIOUS
<1> QED BY <1>1, <1>2

(* Pruning only forgets what the clock has shown to be a cooldown old.     *)
LEMMA Pruning ==
    ASSUME NEW cache \in Seq(Entry), NEW history \in Seq(Record), NEW now \in Nat,
           OneEach(cache), OneEach(history), Linked(cache, history), Kept(cache, history),
           Explained(history, now)
    PROVE  LET live == Unexpired(cache, now)
           IN  /\ live \in Seq(Entry) /\ Len(live) <= Len(cache)
               /\ OneEach(live) /\ Linked(live, history) /\ Kept(live, history)
               /\ \A p \in DOMAIN live : now - live[p].at < Cooldown
<1> DEFINE I == {p \in DOMAIN cache : cache[p].at > now - Cooldown}
           live == Unexpired(cache, now)
<1>0. Cooldown \in Nat /\ \A p \in DOMAIN cache : cache[p].at \in Nat
  BY DedupAssumption, EntryTimes
<1>1. live = AtIndices(cache, I) /\ I \in SUBSET DOMAIN cache
  BY DEF Unexpired
<1>2. /\ \A p \in DOMAIN cache : cache[p].at > now - Cooldown => p \in I
      /\ \A p \in I : p \in DOMAIN cache /\ cache[p].at > now - Cooldown
  OBVIOUS
<1> HIDE DEF I
<1>3. /\ live \in Seq(Entry) /\ Len(live) <= Len(cache)
      /\ OneEach(live) /\ Linked(live, history)
      /\ \A p \in I : Holds(live, cache[p].fingerprint)
  BY <1>1, FewerEntries
<1>4. \A p \in DOMAIN live : now - live[p].at < Cooldown
  <2>1. \A n \in DOMAIN live : Nth(I, n) \in I /\ live[n] = cache[Nth(I, n)]
    BY <1>1, Selection
  <2> HIDE DEF live
  <2> QED BY <1>0, <1>2, <2>1
<1> HIDE DEF live
<1>5. Kept(live, history)
  <2> SUFFICES ASSUME NEW i \in DOMAIN history, ~history[i].ripe,
                      Holds(cache, history[i].fingerprint)
               PROVE  Holds(live, history[i].fingerprint)
    BY DEF Kept
  <2>1. PICK p \in DOMAIN cache : cache[p].fingerprint = history[i].fingerprint
    BY DEF Holds
  <2>2. PICK j \in DOMAIN history :
           history[j].fingerprint = cache[p].fingerprint /\ history[j].at = cache[p].at
    BY DEF Linked
  <2>3. i = j
    BY <2>1, <2>2 DEF OneEach
  <2>4. ~(now - cache[p].at >= Cooldown)
    BY <2>2, <2>3 DEF Explained
  <2>5. p \in I
    BY <1>0, <1>2, <2>4
  <2> QED BY <1>3, <2>1, <2>5
<1> QED BY <1>3, <1>4, <1>5 DEF live

DedupInv(cache, history, now) ==
    /\ cache \in Seq(Entry) /\ history \in Seq(Record)
    /\ Len(cache) <= MaxEntries
    /\ OneEach(cache) /\ OneEach(history)
    /\ Linked(cache, history) /\ Kept(cache, history)
    /\ Explained(history, now)

Recent(history, f, now) ==
    \E i \in DOMAIN history : history[i].fingerprint = f /\ now - history[i].at < Cooldown

Sifted == [entries : Seq(Entry), ledger : Seq(Record), written : BOOLEAN]

(* accept() of one finding keeps the cache and the history in step, and    *)
(* leaves the finding accepted less than a cooldown ago.                   *)
LEMMA FiledStep ==
    ASSUME NEW x \in Sifted, NEW snapshot \in Seq(Event), NoRepeats(snapshot),
           NEW finding \in FindingIn(snapshot),
           clock \in FirstClock..LastClock,
           DedupInv(x.entries, x.ledger, clock)
    PROVE  LET y == Filed(x, finding, snapshot)
           IN  /\ y \in Sifted
               /\ DedupInv(y.entries, y.ledger, clock)
               /\ Recent(y.ledger, finding.fingerprint, clock)
               /\ \A f : Recent(x.ledger, f, clock) => Recent(y.ledger, f, clock)
<1> DEFINE cache == x.entries
           history == x.ledger
           F == finding.fingerprint
           live == Unexpired(cache, clock)
           due == \A i \in DOMAIN history :
                     history[i].fingerprint = F
                         => history[i].ripe \/ Len(history) - i >= MaxEntries
           record == [fingerprint |-> F, last |-> finding.last, count |-> finding.count,
                      at |-> clock, ripe |-> FALSE, due |-> due,
                      snapshot |-> snapshot]
           entered == Append(Without(history, F), record)
           accepted == Accepts(cache, F, clock)
           y == Filed(x, finding, snapshot)
<1>1. y = [entries |-> Remembered(cache, F, clock),
           ledger |-> IF accepted THEN entered ELSE history,
           written |-> x.written \/ accepted]
  BY Zenon DEF Filed
<1>2. /\ cache \in Seq(Entry) /\ history \in Seq(Record) /\ Len(cache) <= MaxEntries
      /\ OneEach(cache) /\ OneEach(history) /\ Linked(cache, history) /\ Kept(cache, history)
      /\ Explained(history, clock)
  BY DEF DedupInv
<1>3. clock \in Nat /\ Cooldown \in Nat \ {0} /\ MaxEntries \in Nat \ {0} /\ Len(cache) \in Nat
  BY <1>2, PipelineAssumption, DedupAssumption
<1>4. /\ F \in Fingerprint /\ F # NoFingerprint /\ finding.last \in Nat /\ finding.count \in Nat
      /\ FoundIn(F, finding.count, snapshot)
  BY PipelineAssumption DEF Finding, FindingIn
<1>d. due \in BOOLEAN
  BY Zenon
<1>5. record \in Record
  <2> HIDE DEF due, F
  <2> QED BY <1>4, <1>d DEF Record
<1>6. record.fingerprint = F /\ record.at = clock /\ record.due = due
      /\ record.ripe = FALSE
  <2> HIDE DEF due
  <2> QED OBVIOUS
<1>x. x.written \in BOOLEAN
  BY DEF Sifted
<1> HIDE DEF cache, history, y, F, record
<1>7. /\ live \in Seq(Entry) /\ Len(live) <= Len(cache)
      /\ OneEach(live) /\ Linked(live, history) /\ Kept(live, history)
      /\ \A p \in DOMAIN live : clock - live[p].at < Cooldown
  BY <1>2, <1>3, Pruning
<1>8. accepted <=> ~Holds(live, F)
  <2>1. \A p \in DOMAIN live : ~(clock - live[p].at >= Cooldown)
    <3>1. \A p \in DOMAIN live : live[p].at \in Nat
      BY <1>7, EntryTimes
    <3> HIDE DEF live
    <3> QED BY <1>3, <1>7, <3>1
  <2>2. accepted <=> \A p \in DOMAIN live :
                        live[p].fingerprint = F => clock - live[p].at >= Cooldown
    BY <1>4, Zenon DEF Accepts
  <2> HIDE DEF accepted, live
  <2> QED BY <2>1, <2>2 DEF Holds
<1>9. CASE ~accepted
  <2>1. y = [entries |-> live, ledger |-> history, written |-> x.written]
    <3>1. Remembered(cache, F, clock) = live
      BY <1>4, <1>9, Zenon DEF Remembered
    <3> HIDE DEF accepted, entered, live
    <3> QED BY <1>1, <1>9, <1>x, <3>1
  <2>2. y.entries = live /\ y.ledger = history /\ y.written = x.written
    BY <2>1
  <2> HIDE DEF live
  <2>3. y \in Sifted
    BY <1>2, <1>7, <1>x, <2>1 DEF Sifted
  <2>4. DedupInv(y.entries, y.ledger, clock)
    <3>1. Len(live) <= MaxEntries
      BY <1>2, <1>3, <1>7
    <3> QED BY <1>2, <1>7, <2>2, <3>1 DEF DedupInv
  <2>5. Recent(history, F, clock)
    <3>1. PICK p \in DOMAIN live : live[p].fingerprint = F
      BY <1>8, <1>9 DEF Holds
    <3>2. PICK i \in DOMAIN history :
             history[i].fingerprint = live[p].fingerprint /\ history[i].at = live[p].at
      BY <1>7 DEF Linked
    <3> QED BY <1>7, <3>1, <3>2 DEF Recent
  <2> QED BY <2>2, <2>3, <2>4, <2>5 DEF y, F, history
<1>10. CASE accepted
  <2> DEFINE J == {p \in DOMAIN live : live[p].fingerprint # F}
             others == Without(live, F)
             longer == Append(others, [fingerprint |-> F, at |-> clock])
  <2>1. y = [entries |-> Trimmed(longer), ledger |-> entered, written |-> TRUE]
    <3>1. Remembered(cache, F, clock) = Trimmed(longer)
      BY <1>4, <1>10, Zenon DEF Remembered
    <3> HIDE DEF accepted, entered, longer
    <3> QED BY <1>1, <1>10, <1>x, <3>1
  <2>2. others = AtIndices(live, J) /\ J \in SUBSET DOMAIN live
    BY DEF Without
  <2>3. \A p \in J : live[p].fingerprint # F
    OBVIOUS
  <2>4. \A p \in DOMAIN live : p \in J
    BY <1>8, <1>10 DEF Holds
  <2> HIDE DEF J, live
  <2>5. /\ others \in Seq(Entry) /\ Len(others) <= Len(live)
        /\ OneEach(others) /\ Linked(others, history)
        /\ \A p \in J : Holds(others, live[p].fingerprint)
        /\ \A f : Holds(others, f) => \E p \in J : live[p].fingerprint = f
    BY <1>7, <2>2, FewerEntries
  <2> HIDE DEF others
  <2>6. ~Holds(others, F)
    BY <2>3, <2>5
  <2>7. /\ entered \in Seq(Record) /\ longer \in Seq(Entry)
        /\ OneEach(entered) /\ OneEach(longer) /\ Linked(longer, entered)
        /\ entered[Len(entered)] = record /\ Len(entered) \in DOMAIN entered
        /\ \A n \in DOMAIN entered :
               \/ n = Len(entered)
               \/ \E i \in DOMAIN history :
                     entered[n] = history[i] /\ Len(entered) - n >= Len(history) - i
        /\ \A i \in DOMAIN history :
               \/ history[i].fingerprint = F
               \/ \E n \in DOMAIN entered : entered[n] = history[i]
    <3> DEFINE g == record.fingerprint
               e == Append(Without(history, g), record)
               l == Append(others, [fingerprint |-> g, at |-> record.at])
    <3>1. g = F /\ record.at = clock /\ ~Holds(others, g)
      BY <1>6, <2>6
    <3>2. /\ e \in Seq(Record) /\ l \in Seq(Entry)
          /\ OneEach(e) /\ OneEach(l) /\ Linked(l, e)
          /\ Moved(history, record, e)
      BY <1>2, <1>5, <2>5, <3>1, Entering
    <3>3. e = entered /\ l = longer
      <4> HIDE DEF g
      <4> QED BY <3>1, Zenon
    <3> HIDE DEF e, l, entered, longer
    <3> QED BY <1>6, <3>2, <3>3 DEF Moved
  <2>8. Len(longer) <= MaxEntries + 1
    BY <1>2, <1>3, <1>7, <2>5
  <2>9. /\ Holds(longer, F)
        /\ \A f : Holds(live, f) => Holds(longer, f)
    <3>1. \A f : Holds(live, f) => Holds(others, f)
      BY <2>4, <2>5 DEF Holds
    <3>2. /\ longer[Len(others) + 1].fingerprint = F /\ Len(others) + 1 \in DOMAIN longer
          /\ \A p \in DOMAIN others : p \in DOMAIN longer /\ longer[p] = others[p]
      BY <2>5
    <3> HIDE DEF longer
    <3> QED BY <3>1, <3>2 DEF Holds
  <2> HIDE DEF longer, entered, accepted
  <2>10. Kept(longer, entered)
    <3> SUFFICES ASSUME NEW n \in DOMAIN entered
                 PROVE  \/ entered[n].ripe
                        \/ Holds(longer, entered[n].fingerprint)
                        \/ Len(entered) - n >= MaxEntries
      BY DEF Kept
    <3>1. CASE n = Len(entered)
      BY <1>6, <2>7, <2>9, <3>1
    <3>2. CASE n # Len(entered)
      <4>1. PICK i \in DOMAIN history :
               entered[n] = history[i] /\ Len(entered) - n >= Len(history) - i
        BY <2>7, <3>2
      <4>2. history[i].ripe \/ Holds(live, history[i].fingerprint) \/ Len(history) - i >= MaxEntries
        BY <1>7 DEF Kept
      <4>3. /\ Len(history) \in Int /\ i \in Int /\ Len(entered) \in Int /\ n \in Int
        BY <1>2, <2>7
      <4> QED BY <1>3, <2>9, <4>1, <4>2, <4>3
    <3> QED BY <3>1, <3>2
  <2>11. due
    <3> SUFFICES ASSUME NEW i \in DOMAIN history, history[i].fingerprint = F
                 PROVE  history[i].ripe \/ Len(history) - i >= MaxEntries
      OBVIOUS
    <3> QED BY <1>7, <1>8, <1>10 DEF Kept
  <2> HIDE DEF due
  <2>12. Explained(entered, clock)
    <3> SUFFICES ASSUME NEW n \in DOMAIN entered
                 PROVE  /\ clock - entered[n].at >= Cooldown => entered[n].ripe
                        /\ entered[n].due
                        /\ StepsBack \/ entered[n].at <= clock
      BY DEF Explained
    <3>1. CASE n = Len(entered)
      <4>1. entered[n] = record
        BY <2>7, <3>1
      <4>2. record.due
        BY <1>6, <2>11, Zenon
      <4>3. ~(clock - record.at >= Cooldown) /\ record.at <= clock
        BY <1>3, <1>6
      <4> QED BY <4>1, <4>2, <4>3
    <3>2. CASE n # Len(entered)
      <4>1. PICK i \in DOMAIN history : entered[n] = history[i]
        BY <2>7, <3>2
      <4> QED BY <1>2, <4>1 DEF Explained
    <3> QED BY <3>1, <3>2
  <2>13. /\ Trimmed(longer) \in Seq(Entry) /\ Len(Trimmed(longer)) <= MaxEntries
         /\ OneEach(Trimmed(longer)) /\ Linked(Trimmed(longer), entered)
         /\ Kept(Trimmed(longer), entered)
    BY <2>7, <2>8, <2>10, Trimming
  <2>14. y.entries = Trimmed(longer) /\ y.ledger = entered
    BY <2>1
  <2>15. y \in Sifted
    BY <2>1, <2>7, <2>13 DEF Sifted
  <2>16. DedupInv(y.entries, y.ledger, clock)
    BY <2>7, <2>12, <2>13, <2>14 DEF DedupInv
  <2>17. Recent(entered, F, clock)
    BY <1>3, <1>6, <2>7 DEF Recent
  <2>18. \A f : Recent(history, f, clock) => Recent(entered, f, clock)
    <3> SUFFICES ASSUME NEW f, Recent(history, f, clock), f # F
                 PROVE  Recent(entered, f, clock)
      BY <2>17
    <3>1. PICK i \in DOMAIN history :
             history[i].fingerprint = f /\ clock - history[i].at < Cooldown
      BY DEF Recent
    <3>2. PICK n \in DOMAIN entered : entered[n] = history[i]
      BY <2>7, <3>1
    <3> QED BY <3>1, <3>2 DEF Recent
  <2> QED BY <2>14, <2>15, <2>16, <2>17, <2>18 DEF y, F, history
<1> QED BY <1>9, <1>10

(* The loop over the findings. *)
LEMMA SiftKeeps ==
    ASSUME NEW snapshot \in Seq(Event), NoRepeats(snapshot),
           NEW found \in Seq(FindingIn(snapshot)), clock \in FirstClock..LastClock,
           DedupInv(entries, ledger, clock)
    PROVE  /\ DedupInv(Sift(found, snapshot).entries, Sift(found, snapshot).ledger, clock)
           /\ \A m \in DOMAIN found :
                  Recent(Sift(found, snapshot).ledger, found[m].fingerprint, clock)
<1> DEFINE n == Len(found)
           start == [entries |-> entries, ledger |-> ledger, written |-> FALSE]
           Sifts(g) == g = [k \in 0..n |-> IF k = 0 THEN start
                                           ELSE Filed(g[k - 1], found[k], snapshot)]
           sifted == CHOOSE g : Sifts(g)
           T == {x \in Sifted : DedupInv(x.entries, x.ledger, clock)}
           step == [k \in 0..n |-> [x \in T |-> IF k = 0 THEN x
                                                 ELSE Filed(x, found[k], snapshot)]]
<1>1. Sift(found, snapshot) = sifted[n]
  BY Zenon DEF Sift
<1>2. n \in Nat /\ DOMAIN found = 1..n /\ \A k \in 1..n : found[k] \in FindingIn(snapshot)
  OBVIOUS
<1>3. start \in T
  <2>1. start \in Sifted /\ start.entries = entries /\ start.ledger = ledger
    BY DEF DedupInv, Sifted
  <2> HIDE DEF start
  <2> QED BY <2>1
<1>4. ASSUME NEW k \in 1..n, NEW x \in T
      PROVE  /\ Filed(x, found[k], snapshot) \in T
             /\ Recent(Filed(x, found[k], snapshot).ledger, found[k].fingerprint, clock)
             /\ \A f : Recent(x.ledger, f, clock)
                         => Recent(Filed(x, found[k], snapshot).ledger, f, clock)
  <2>1. x \in Sifted /\ DedupInv(x.entries, x.ledger, clock)
    OBVIOUS
  <2>2. found[k] \in FindingIn(snapshot)
    BY <1>2
  <2> DEFINE y == Filed(x, found[k], snapshot)
  <2>3. /\ y \in Sifted /\ DedupInv(y.entries, y.ledger, clock)
        /\ Recent(y.ledger, found[k].fingerprint, clock)
        /\ \A f : Recent(x.ledger, f, clock) => Recent(y.ledger, f, clock)
    BY <2>1, <2>2, FiledStep
  <2> HIDE DEF y
  <2>4. y \in T
    BY <2>3
  <2> QED BY <2>3, <2>4 DEF y
<1> HIDE DEF n, T, start
<1>5. PICK f : Repeats(f, T, start, step, 0, n)
  <2>1. step \in Steps(T, 0, n)
    <3>1. \A k \in 0..n, x \in T :
              (IF k = 0 THEN x ELSE Filed(x, found[k], snapshot)) \in T
      <4>1. \A k \in 0..n : k # 0 => k \in 1..n
        BY <1>2
      <4> QED BY <1>4, <4>1
    <3> QED BY <3>1 DEF Steps
  <2>2. 0 \in Nat /\ 0 <= n
    BY <1>2
  <2> HIDE DEF step
  <2> QED BY <1>2, <1>3, <2>1, <2>2, Repetition
<1>6. Sifts(f)
  <2>1. /\ f \in [0..n -> T]
        /\ \A k \in 0..n : f[k] = IF k = 0 THEN start ELSE step[k][f[k - 1]]
    <3> HIDE DEF step
    <3> QED BY <1>5 DEF Repeats
  <2>2. ASSUME NEW k \in 0..n, k # 0
        PROVE  step[k][f[k - 1]] = Filed(f[k - 1], found[k], snapshot)
    <3>1. k - 1 \in 0..n
      BY <1>2, <2>2
    <3>2. f[k - 1] \in T
      BY <2>1, <3>1
    <3> QED BY <2>2, <3>2
  <2>3. \A k \in 0..n : f[k] = IF k = 0 THEN start ELSE Filed(f[k - 1], found[k], snapshot)
    <3> HIDE DEF step
    <3> QED BY <2>1, <2>2
  <2> HIDE DEF step
  <2> QED BY <2>1, <2>3
<1>7. Sifts(sifted)
  <2> HIDE DEF Sifts
  <2> QED BY <1>6
<1>8. /\ sifted[0] = start
      /\ \A k \in 1..n : sifted[k] = Filed(sifted[k - 1], found[k], snapshot)
  <2>1. 0 \in 0..n /\ \A k \in 1..n : k \in 0..n /\ k # 0
    BY <1>2
  <2> HIDE DEF sifted
  <2> QED BY <1>7, <2>1
<1> HIDE DEF sifted
<1> DEFINE good == {k \in 0..n : /\ sifted[k] \in T
                                 /\ \A m \in 1..k :
                                       Recent(sifted[k].ledger, found[m].fingerprint, clock)}
<1>9. \A k \in 0..n : k \in good
  <2>1. 0 \in good
    <3>1. 0 \in 0..n /\ 1..0 = {}
      BY <1>2
    <3> QED BY <1>3, <1>8, <3>1
  <2>2. ASSUME NEW k \in 0..n, k \in good, k + 1 \in 0..n
        PROVE  k + 1 \in good
    <3>1. k + 1 \in 1..n /\ (k + 1) - 1 = k
      BY <1>2, <2>2
    <3>2. sifted[k + 1] = Filed(sifted[k], found[k + 1], snapshot)
      <4>1. sifted[k + 1] = Filed(sifted[(k + 1) - 1], found[k + 1], snapshot)
        BY <1>8, <3>1, Zenon
      <4> QED BY <3>1, <4>1
    <3>3. sifted[k] \in T
      BY <2>2
    <3>4. /\ sifted[k + 1] \in T
          /\ Recent(sifted[k + 1].ledger, found[k + 1].fingerprint, clock)
          /\ \A g : Recent(sifted[k].ledger, g, clock) => Recent(sifted[k + 1].ledger, g, clock)
      BY <1>4, <3>1, <3>2, <3>3
    <3>5. \A m \in 1..(k + 1) : m \in 1..k \/ m = k + 1
      BY <1>2
    <3>6. \A m \in 1..k : Recent(sifted[k].ledger, found[m].fingerprint, clock)
      BY <2>2
    <3> QED BY <2>2, <3>4, <3>5, <3>6
  <2> HIDE DEF good
  <2>3. 0 \in Nat
    OBVIOUS
  <2> QED BY <1>2, <2>1, <2>2, <2>3, IntervalInduction
<1>10. n \in good
  <2>1. n \in 0..n
    BY <1>2
  <2> HIDE DEF good
  <2> QED BY <1>9, <2>1
<1>11. sifted[n] \in T /\ \A m \in 1..n : Recent(sifted[n].ledger, found[m].fingerprint, clock)
  BY <1>10
<1> QED BY <1>1, <1>2, <1>11 DEF T

(* The clock moves: records ripen, and nothing else changes. *)
LEMMA Ripening ==
    ASSUME NEW cache, NEW history, NEW was \in FirstClock..LastClock, DedupInv(cache, history, was),
           NEW now \in FirstClock..LastClock, StepsBack \/ now >= was
    PROVE  DedupInv(cache,
                    [i \in DOMAIN history |->
                        [history[i] EXCEPT !.ripe = @ \/ now - history[i].at >= Cooldown]],
                    now)
<1> DEFINE ripened == [i \in DOMAIN history |->
                        [history[i] EXCEPT !.ripe = @ \/ now - history[i].at >= Cooldown]]
<1>1. /\ cache \in Seq(Entry) /\ history \in Seq(Record) /\ Len(cache) <= MaxEntries
      /\ OneEach(cache) /\ OneEach(history) /\ Linked(cache, history) /\ Kept(cache, history)
      /\ Explained(history, was)
  BY DEF DedupInv
<1>2. DOMAIN ripened = DOMAIN history
  OBVIOUS
<1>3. \A r \in Record : \A b \in BOOLEAN :
          LET changed == [r EXCEPT !.ripe = b]
          IN  /\ changed \in Record /\ changed.ripe = b
              /\ changed.fingerprint = r.fingerprint /\ changed.at = r.at
              /\ changed.due = r.due
  BY DEF Record
<1>4. ASSUME NEW i \in DOMAIN history
      PROVE  /\ ripened[i] \in Record
             /\ ripened[i].fingerprint = history[i].fingerprint /\ ripened[i].at = history[i].at
             /\ ripened[i].ripe <=> history[i].ripe \/ now - history[i].at >= Cooldown
             /\ ripened[i].due <=> history[i].due
  <2> DEFINE b == history[i].ripe \/ now - history[i].at >= Cooldown
  <2>1. history[i] \in Record
    BY <1>1
  <2>2. b \in BOOLEAN
    BY Zenon
  <2>3. ripened[i] = [history[i] EXCEPT !.ripe = b]
    OBVIOUS
  <2> HIDE DEF ripened
  <2>4. b <=> history[i].ripe \/ now - history[i].at >= Cooldown
    OBVIOUS
  <2> HIDE DEF b
  <2>5. /\ ripened[i] \in Record /\ ripened[i].ripe = b
        /\ ripened[i].fingerprint = history[i].fingerprint /\ ripened[i].at = history[i].at
        /\ ripened[i].due = history[i].due
    BY <1>3, <2>1, <2>2, <2>3
  <2> QED BY <2>4, <2>5
<1> HIDE DEF ripened
<1>5. ripened \in Seq(Record) /\ Len(ripened) = Len(history)
  <2>1. DOMAIN history = 1..Len(history) /\ Len(history) \in Nat
    BY <1>1
  <2>2. ripened = [i \in 1..Len(history) |-> ripened[i]]
    BY <2>1 DEF ripened
  <2> QED BY <1>4, <2>1, <2>2
<1>6. OneEach(ripened)
  BY <1>1, <1>2, <1>4 DEF OneEach
<1>7. Linked(cache, ripened)
  <2>1. \A p \in DOMAIN cache : \E i \in DOMAIN history :
            history[i].fingerprint = cache[p].fingerprint /\ history[i].at = cache[p].at
    BY <1>1 DEF Linked
  <2>2. \A p, q \in DOMAIN cache : \A i, j \in DOMAIN history :
            (/\ p < q
             /\ history[i].fingerprint = cache[p].fingerprint
             /\ history[j].fingerprint = cache[q].fingerprint) => i < j
    BY <1>1 DEF Linked
  <2>3. \A i \in DOMAIN history : /\ ripened[i].fingerprint = history[i].fingerprint
                                 /\ ripened[i].at = history[i].at
    BY <1>4
  <2> QED BY <1>2, <2>1, <2>2, <2>3, ZenonT(30) DEF Linked
<1>8. Kept(cache, ripened)
  BY <1>1, <1>2, <1>4, <1>5 DEF Kept
<1>9. Explained(ripened, now)
  <2>1. \A i \in DOMAIN history : StepsBack \/ history[i].at <= now
    <3>1. \A i \in DOMAIN history : history[i].at \in Nat
      <4>1. \A r \in Record : r.at \in Nat
        BY PipelineAssumption DEF Record
      <4> QED BY <1>1, <4>1
    <3>2. was \in Nat /\ now \in Nat
      BY PipelineAssumption
    <3> QED BY <1>1, <3>1, <3>2 DEF Explained
  <2> QED BY <1>1, <1>2, <1>4, <2>1 DEF Explained
<1> QED BY <1>1, <1>5, <1>6, <1>7, <1>8, <1>9 DEF DedupInv, ripened

-----------------------------------------------------------------------------
(* The inductive invariant *)

IInv == /\ WP!IInv
        /\ clock \in FirstClock..LastClock
        /\ failures \in 0..MaxFailures
        /\ findings \in Seq(Finding)
        /\ DedupInv(entries, ledger, clock)
        /\ \A m \in DOMAIN findings : Recent(ledger, findings[m].fingerprint, clock)

LEMMA InitEstablishes == Init => IInv
<1> SUFFICES ASSUME Init PROVE IInv
  OBVIOUS
<1>1. WP!IInv
  <2>1. WP!Init
    BY SameInit DEF Init
  <2> QED BY <2>1, WindowConstants, WP!InitEstablishes
<1>2. clock \in FirstClock..LastClock /\ failures \in 0..MaxFailures
  BY PipelineAssumption DEF Init
<1>3. DedupInv(<<>>, <<>>, clock)
  <2>1. <<>> \in Seq(Entry) /\ <<>> \in Seq(Record) /\ Len(<<>>) <= MaxEntries /\ DOMAIN <<>> = {}
    BY DedupAssumption
  <2> QED BY <2>1 DEF DedupInv, OneEach, Linked, Kept, Explained
<1>4. findings \in Seq(Finding) /\ DOMAIN findings = {}
  BY DEF Init
<1> QED BY <1>1, <1>2, <1>3, <1>4 DEF IInv, Init

LEMMA SnapshotTypeAlways ==
    WP!IInv => SnapshotEvents(Newest) \in Seq(Event) /\ NoRepeats(SnapshotEvents(Newest))
BY SnapshotType

LEMMA SnapshotTypeNext ==
    WP!IInv' => (SnapshotEvents(Newest) \in Seq(Event) /\ NoRepeats(SnapshotEvents(Newest)))'
BY SnapshotTypeAlways, PTL

(* A handled event, written or not. *)
LEMMA HandleStep ==
    ASSUME IInv, NEW message \in Messages, NEW ok \in BOOLEAN, Handle(message, ok)
    PROVE  IInv'
<1>1. /\ message.ts <= clock
      /\ failures' = failures + (IF ok THEN 0 ELSE 1)
      /\ failures' <= MaxFailures
      /\ W!AppendBatch(Default, <<Parsed(message, clock)>>)
      /\ clock' = clock
  BY Zenon DEF Handle
<1>2. PICK snapshot \in {SnapshotEvents(Newest')} :
          /\ findings' = DetectPatterns(RuleOrder, snapshot)
          /\ entries' = Sift(findings', snapshot).entries
          /\ ledger' = Sift(findings', snapshot).ledger
  BY Zenon DEF Handle
<1>3. WP!IInv'
  <2>1. Parsed(message, clock) \in Events
    BY DEF Events, IInv
  <2>2. WP!AppendBatch(Default, <<Parsed(message, clock)>>)
    BY <1>1, SameAppend
  <2>3. WP!Next
    BY <2>1, <2>2 DEF WP!Next
  <2> QED BY <2>3, WindowConstants, WP!NextStep DEF IInv
<1>4. snapshot \in Seq(Event) /\ NoRepeats(snapshot)
  <2>1. SnapshotEvents(Newest') \in Seq(Event) /\ NoRepeats(SnapshotEvents(Newest'))
    BY <1>3, SnapshotTypeNext
  <2>2. snapshot = SnapshotEvents(Newest')
    OBVIOUS
  <2> QED BY <2>1, <2>2
<1>5. findings' \in Seq(FindingIn(snapshot)) /\ findings' \in Seq(Finding)
  <2>1. findings' \in Seq(FindingIn(snapshot))
    BY <1>2, <1>4, DetectType
  <2>2. FindingIn(snapshot) \subseteq Finding
    BY DEF FindingIn
  <2> QED BY <2>1, <2>2, SeqMonotone
<1>6. failures' \in 0..MaxFailures
  BY <1>1, PipelineAssumption DEF IInv
<1>7. DedupInv(entries, ledger, clock)
  BY DEF IInv
<1>8. clock \in FirstClock..LastClock
  BY DEF IInv
<1>9. /\ DedupInv(entries', ledger', clock)
      /\ \A m \in DOMAIN findings' : Recent(ledger', findings'[m].fingerprint, clock)
  BY <1>2, <1>4, <1>5, <1>7, <1>8, SiftKeeps
<1> QED BY <1>1, <1>3, <1>5, <1>6, <1>8, <1>9 DEF IInv

LEMMA SetClockStep ==
    ASSUME IInv, NEW now \in FirstClock..LastClock, SetClock(now)
    PROVE  IInv'
<1>1. /\ clock' = now /\ findings' = <<>>
      /\ ledger' = [i \in DOMAIN ledger |->
                       [ledger[i] EXCEPT !.ripe = @ \/ now - ledger[i].at >= Cooldown]]
      /\ entries' = entries /\ failures' = failures
      /\ UNCHANGED window
  BY DEF SetClock
<1>2. WP!IInv'
  <2>1. UNCHANGED WP!vars
    BY <1>1 DEF window, WP!vars
  <2> QED BY <2>1, WindowConstants, WP!NextStep DEF IInv
<1>3. DedupInv(entries, ledger', now)
  <2>1. StepsBack \/ now >= clock
    BY DEF SetClock
  <2> QED BY <1>1, <2>1, Ripening DEF IInv
<1>4. findings' \in Seq(Finding) /\ DOMAIN findings' = {}
  BY <1>1
<1> QED BY <1>1, <1>2, <1>3, <1>4 DEF IInv

LEMMA NextStep == IInv /\ [Next]_vars => IInv'
<1> SUFFICES ASSUME IInv, [Next]_vars PROVE IInv'
  OBVIOUS
<1>1. ASSUME NEW message \in Messages, Receive(message) \/ WriteFails(message)
      PROVE  IInv'
  BY <1>1, HandleStep DEF Receive, WriteFails
<1>2. ASSUME NEW now \in FirstClock..LastClock, SetClock(now)
      PROVE  IInv'
  BY <1>2, SetClockStep
<1>3. CASE UNCHANGED vars
  <2>1. UNCHANGED WP!vars
    BY <1>3 DEF vars, window, WP!vars
  <2>2. WP!IInv'
    BY <2>1, WindowConstants, WP!NextStep DEF IInv
  <2> QED BY <1>3, <2>2 DEF IInv, vars
<1> QED BY <1>1, <1>2, <1>3 DEF Next

THEOREM Invariance == Spec => []IInv
<1>1. IInv /\ [Next]_vars => IInv'
  BY NextStep
<1> QED BY <1>1, InitEstablishes, PTL DEF Spec

-----------------------------------------------------------------------------
(* Theorems *)

(* The cooldown cache stays within max_entries, one entry per fingerprint, *)
(* and what it and the findings hold has the types of the code's values.   *)
THEOREM TypeCorrect == Spec => []TypeOK
<1>1. IInv => TypeOK
  <2> SUFFICES ASSUME IInv PROVE TypeOK
    OBVIOUS
  <2>1. stored \subseteq W!Item
    BY DEF IInv, WP!IInv, WP!TypeOK, WP!Item, W!Item
  <2>2. /\ entries \in Seq(Entry) /\ ledger \in Seq(Record) /\ findings \in Seq(Finding)
        /\ Len(entries) <= MaxEntries /\ OneEach(entries)
    BY DEF IInv, DedupInv
  <2>3. \A i \in DOMAIN entries :
            entries[i].fingerprint \in Fingerprint /\ entries[i].at \in FirstClock..LastClock
    <3>1. \A i \in DOMAIN entries : entries[i] \in Entry
      BY <2>2
    <3> QED BY <3>1 DEF Entry
  <2>4. \A i \in DOMAIN findings : findings[i].fingerprint \in Fingerprint
    <3>1. \A i \in DOMAIN findings : findings[i] \in Finding
      BY <2>2
    <3> QED BY <3>1 DEF Finding
  <2>5. \A i \in DOMAIN ledger : ledger[i].fingerprint \in Fingerprint
    <3>1. \A i \in DOMAIN ledger : ledger[i] \in Record
      BY <2>2
    <3> QED BY <3>1 DEF Record
  <2> QED BY <2>1, <2>2, <2>3, <2>4, <2>5 DEF TypeOK, OneEach, IInv
<1> QED BY <1>1, Invariance, PTL

(* After every event, each finding of the window was accepted at a time    *)
(* whose cooldown the clock has not reached the end of, and if the clock is *)
(* never set back, at no later time than it shows: then no finding stays   *)
(* silent for as long as a cooldown.                                       *)
THEOREM DetectionsEmitted == Spec => []EveryDetectionEmitted
<1>1. IInv => EveryDetectionEmitted
  <2> SUFFICES ASSUME IInv, NEW m \in DOMAIN findings
               PROVE  \E i \in DOMAIN ledger :
                         /\ ledger[i].fingerprint = findings[m].fingerprint
                         /\ clock < ledger[i].at + Cooldown
                         /\ StepsBack \/ ledger[i].at <= clock
    BY DEF EveryDetectionEmitted, ToSet
  <2>1. PICK i \in DOMAIN ledger : /\ ledger[i].fingerprint = findings[m].fingerprint
                                   /\ clock - ledger[i].at < Cooldown
    BY DEF IInv, Recent
  <2>2. StepsBack \/ ledger[i].at <= clock
    BY DEF IInv, DedupInv, Explained
  <2>3. ledger[i].at \in Nat /\ clock \in Nat /\ Cooldown \in Nat
    <3>1. \A r \in Record : r.at \in Nat
      BY PipelineAssumption DEF Record
    <3>2. ledger[i] \in Record
      BY DEF IInv, DedupInv
    <3> QED BY <3>1, <3>2, PipelineAssumption, DedupAssumption DEF IInv
  <2> QED BY <2>1, <2>2, <2>3
<1> QED BY <1>1, Invariance, PTL

(* No finding is accepted twice within a cooldown, unless max_entries      *)
(* others were accepted in between.                                        *)
THEOREM CooldownHolds == Spec => []NoEarlyRepeat
<1>1. IInv => NoEarlyRepeat
  BY DEF IInv, DedupInv, Explained, NoEarlyRepeat
<1> QED BY <1>1, Invariance, PTL

(* What the cache has forgotten is past its cooldown or older than         *)
(* max_entries later acceptances.                                          *)
THEOREM OldestForgotten == Spec => []RememberedUntilRipe
<1>1. IInv => RememberedUntilRipe
  BY DEF IInv, DedupInv, Kept, RememberedUntilRipe
<1> QED BY <1>1, Invariance, PTL

-----------------------------------------------------------------------------
(* Why a group is reported again: the rules' definitions are the same here *)
(* and in the proofs about the loop.                                       *)

LEMMA SameAssumptions == Q!RulesAssumption /\ Q!InputsAssumption
<1>1. Q!RulesAssumption
  BY RulesAssumption DEF Q!RulesAssumption, RulesAssumption, Q!Rules, Rules
<1>2. Q!InputsAssumption
  BY DEF Q!InputsAssumption, Q!Rules, Rules
<1> QED BY <1>1, <1>2

LEMMA SameSelections ==
    /\ \A S : Q!Cardinality(S) = Cardinality(S)
    /\ \A s, I : Q!AtIndices(s, I) = AtIndices(s, I)
    /\ \A S, R : Q!InOrder(S, R) = InOrder(S, R)
BY Zenon DEF Q!Cardinality, Cardinality, Q!IsFiniteSet, IsFiniteSet, Q!Rank, Rank, Q!Nth, Nth,
             Q!AtIndices, AtIndices, Q!InOrder, InOrder

LEMMA SameFields ==
    /\ Q!Rules = Rules /\ Q!CountRules = CountRules /\ Q!Event = Event
    /\ \A r, e : Q!GroupKey(r, e) = GroupKey(r, e)
    /\ \A e : Q!SourceFamily(e) = SourceFamily(e)
    /\ \A r, e : Q!Dimension(r, e) = Dimension(r, e)
    /\ \A r, e : Q!Relevant(r, e) = Relevant(r, e)
<1>1. Q!Rules = Rules /\ Q!CountRules = CountRules /\ Q!Event = Event
  BY DEF Q!Rules, Rules, Q!CountRules, CountRules, Q!Event, Event
<1>2. \A e : Q!SourceFamily(e) = SourceFamily(e)
  BY Zenon DEF Q!SourceFamily, SourceFamily
<1>3. \A r, e : Q!GroupKey(r, e) = GroupKey(r, e)
  BY Zenon DEF Q!GroupKey, GroupKey, Q!IpActor, IpActor, Q!SudoUser, SudoUser, Q!RemoteUser, RemoteUser,
        Q!GeoUser, GeoUser, Q!Credential, Credential, Q!CrossSourceUser, CrossSourceUser,
        Q!Named, Named, Q!Or, Or, Q!Blank, Blank, Q!None, None, Q!Dash, Dash, Q!IPs, IPs,
        Q!SourceFamily, SourceFamily
<1>4. \A r, e : Q!Dimension(r, e) = Dimension(r, e)
  BY Zenon DEF Q!Dimension, Dimension, Q!Destination, Destination, Q!Continent, Continent,
        Q!ReuseUser, ReuseUser, Q!OrMissing, OrMissing, Q!SourceFamily, SourceFamily,
        Q!Named, Named, Q!Blank, Blank, Q!None, None, Q!Dash, Dash
<1>5. \A r, e : Q!Predicate(r, e) = Predicate(r, e)
  BY <1>2, Zenon DEF Q!Predicate, Predicate, Q!IsFailedLogin, IsFailedLogin, Q!IsFailedSudo, IsFailedSudo,
        Q!IsRemoteLogin, IsRemoteLogin, Q!RemoteNames, RemoteNames, Q!Destination, Destination, Q!Continent, Continent,
        Q!ReuseUser, ReuseUser, Q!OrMissing, OrMissing, Q!SourceFamily, SourceFamily,
        Q!RequiredFamilies, RequiredFamilies, Q!LoginActions, LoginActions,
        Q!Named, Named, Q!Blank, Blank, Q!None, None, Q!Dash, Dash
<1>6. \A r, e : Q!Relevant(r, e) = Relevant(r, e)
  BY <1>3, <1>5, Zenon DEF Q!Relevant, Relevant, Q!None, None
<1> QED BY <1>1, <1>2, <1>3, <1>4, <1>6

LEMMA SameStamped ==
    ASSUME NEW r, NEW s
    PROVE  Q!Stamped(r, s) = Stamped(r, s)
<1> DEFINE R1 == {i \in DOMAIN s : Q!Relevant(r, s[i])}
           R2 == {i \in DOMAIN s : Relevant(r, s[i])}
           before(R) == {p \in R \X R : \/ s[p[1]].ts < s[p[2]].ts
                                        \/ s[p[1]].ts = s[p[2]].ts /\ p[1] < p[2]}
           list(order) == [i \in DOMAIN order |-> s[order[i]]]
<1>1. R1 = R2
  BY SameFields
<1>2. Q!Stamped(r, s) = list(Q!InOrder(R1, before(R1)))
  BY Zenon DEF Q!Stamped, Q!TimeOrdered
<1>3. Stamped(r, s) = list(InOrder(R2, before(R2)))
  BY Zenon DEF Stamped, TimeOrdered
<1> HIDE DEF R1, R2, before, list
<1> QED BY <1>1, <1>2, <1>3, SameSelections, Zenon

LEMMA SameRepresentatives ==
    ASSUME NEW r, NEW w
    PROVE  Q!Representatives(r, w) = Representatives(r, w)
<1> DEFINE R1 == {i \in DOMAIN w :
                    /\ Q!Dimension(r, w[i]) # Q!None
                    /\ \A j \in 1..(i - 1) : Q!Dimension(r, w[j]) # Q!Dimension(r, w[i])}
           R2 == {i \in DOMAIN w :
                    /\ Dimension(r, w[i]) # None
                    /\ \A j \in 1..(i - 1) : Dimension(r, w[j]) # Dimension(r, w[i])}
<1>1. R1 = R2
  BY SameFields DEF Q!None, None
<1>2. Q!Representatives(r, w) = Q!AtIndices(w, R1)
  BY Zenon DEF Q!Representatives
<1>3. Representatives(r, w) = AtIndices(w, R2)
  BY Zenon DEF Representatives
<1> HIDE DEF R1, R2
<1> QED BY <1>1, <1>2, <1>3, SameSelections, Zenon

LEMMA SameFamilies ==
    ASSUME NEW w
    PROVE  Q!OnePerFamily(w) = OnePerFamily(w)
<1> DEFINE found1 == Q!Representatives("credential_stuffing", w)
           found2 == Representatives("credential_stuffing", w)
           of1(f) == {i \in DOMAIN found1 : Q!SourceFamily(found1[i]) = f}
           of2(f) == {i \in DOMAIN found2 : SourceFamily(found2[i]) = f}
<1>1. found1 = found2
  BY SameRepresentatives
<1>2. \A f : of1(f) = of2(f)
  <2> HIDE DEF found1, found2
  <2> QED BY <1>1, SameFields
<1>3. Q!OnePerFamily(w) = Q!AtIndices(found1, of1("ssh")) \o Q!AtIndices(found1, of1("vpn"))
                            \o Q!AtIndices(found1, of1("web"))
  BY Zenon DEF Q!OnePerFamily
<1>4. OnePerFamily(w) = AtIndices(found2, of2("ssh")) \o AtIndices(found2, of2("vpn"))
                          \o AtIndices(found2, of2("web"))
  BY Zenon DEF OnePerFamily
<1> HIDE DEF found1, found2, of1, of2
<1> QED BY <1>1, <1>2, <1>3, <1>4, SameSelections, Zenon

LEMMA SameEvidence ==
    ASSUME NEW r, NEW w
    PROVE  Q!Evidence(r, w) = Evidence(r, w)
<1> DEFINE found1 == CASE r \in Q!CountRules -> w
                       [] r = "credential_stuffing" -> Q!OnePerFamily(w)
                       [] OTHER -> Q!Representatives(r, w)
           found2 == CASE r \in CountRules -> w
                       [] r = "credential_stuffing" -> OnePerFamily(w)
                       [] OTHER -> Representatives(r, w)
           families1 == {Q!SourceFamily(found1[i]) : i \in DOMAIN found1}
           families2 == {SourceFamily(found2[i]) : i \in DOMAIN found2}
<1>1. found1 = found2
  BY SameFields, SameFamilies, SameRepresentatives, Zenon
<1>2. Q!Evidence(r, w) = IF (IF r = "credential_stuffing" THEN families1 = Q!RequiredFamilies
                             ELSE Len(found1) >= Threshold[r])
                         THEN found1 ELSE <<>>
  BY Zenon DEF Q!Evidence
<1>3. Evidence(r, w) = IF (IF r = "credential_stuffing" THEN families2 = RequiredFamilies
                           ELSE Len(found2) >= Threshold[r])
                       THEN found2 ELSE <<>>
  BY Zenon DEF Evidence
<1>4. families1 = families2
  <2> HIDE DEF found1, found2
  <2> QED BY <1>1, SameFields
<1>5. Q!RequiredFamilies = RequiredFamilies
  BY Zenon DEF Q!RequiredFamilies, RequiredFamilies
<1> HIDE DEF found1, found2, families1, families2
<1>6. (families1 = Q!RequiredFamilies) = (families2 = RequiredFamilies)
  BY <1>4, <1>5
<1>7. (Len(found1) >= Threshold[r]) = (Len(found2) >= Threshold[r])
  BY <1>1
<1> QED BY <1>1, <1>2, <1>3, <1>6, <1>7

LEMMA SameWindow ==
    ASSUME NEW r, NEW s, NEW i
    PROVE  Q!WindowEndingAt(r, s, i) = WindowEndingAt(r, s, i)
<1> DEFINE near1 == {j \in 1..i : /\ Q!GroupKey(r, s[j]) = Q!GroupKey(r, s[i])
                                  /\ s[i].ts - s[j].ts <= Seconds[r]}
           near2 == {j \in 1..i : /\ GroupKey(r, s[j]) = GroupKey(r, s[i])
                                  /\ s[i].ts - s[j].ts <= Seconds[r]}
           last1 == {j \in near1 : Q!Cardinality({k \in near1 : k > j}) < MaxWindowEvents}
           last2 == {j \in near2 : Cardinality({k \in near2 : k > j}) < MaxWindowEvents}
<1>1. near1 = near2
  BY SameFields
<1>2. last1 = last2
  <2> HIDE DEF near1, near2
  <2> QED BY <1>1, SameSelections
<1>3. Q!WindowEndingAt(r, s, i) = Q!AtIndices(s, last1)
  BY Zenon DEF Q!WindowEndingAt
<1>4. WindowEndingAt(r, s, i) = AtIndices(s, last2)
  BY Zenon DEF WindowEndingAt
<1> HIDE DEF last1, last2
<1> QED BY <1>2, <1>3, <1>4, SameSelections, Zenon

LEMMA SameWidest ==
    ASSUME NEW r, NEW s, NEW key
    PROVE  Q!WidestEvidence(r, s, key) = WidestEvidence(r, s, key)
<1> DEFINE ends1 == {i \in DOMAIN s : Q!GroupKey(r, s[i]) = key}
           ends2 == {i \in DOMAIN s : GroupKey(r, s[i]) = key}
           given1(i) == Q!Evidence(r, Q!WindowEndingAt(r, s, i))
           given2(i) == Evidence(r, WindowEndingAt(r, s, i))
           width1 == [i \in ends1 |-> Len(given1(i))]
           width2 == [i \in ends2 |-> Len(given2(i))]
           widest(ends, width) == {i \in ends : \A j \in ends : width[j] <= width[i]}
<1>1. ends1 = ends2
  BY SameFields
<1>2. \A i : given1(i) = given2(i)
  BY SameEvidence, SameWindow, Zenon
<1>3. Q!WidestEvidence(r, s, key)
        = IF ends1 = {} THEN <<>> ELSE given1(Q!Min(widest(ends1, width1)))
  BY Zenon DEF Q!WidestEvidence
<1>4. WidestEvidence(r, s, key) = IF ends2 = {} THEN <<>> ELSE given2(Min(widest(ends2, width2)))
  BY Zenon DEF WidestEvidence
<1>5. width1 = width2
  <2> HIDE DEF ends1, ends2, given1, given2
  <2> QED BY <1>1, <1>2
<1>6. \A S : Q!Min(S) = Min(S)
  BY Zenon DEF Q!Min, Min
<1> HIDE DEF ends1, ends2, given1, given2, width1, width2, widest
<1> QED BY <1>1, <1>2, <1>3, <1>4, <1>5, <1>6, Zenon

(* EvidenceThatStays of the proofs about the loop, in the terms used here. *)
LEMMA EvidenceStays ==
    ASSUME NEW r \in Rules, NEW a \in Seq(Event), NEW b \in Seq(Event), NoRepeats(a), NEW key,
           NEW E, E = WidestEvidence(r, Stamped(r, a), key), E # <<>>,
           NEW F, F = WidestEvidence(r, Stamped(r, b), key), F # <<>>,
           Q!AllIn(E, b),
           r \in CountRules \/ Len(Stamped(r, b)) <= MaxWindowEvents
    PROVE  F \in Seq(Event) /\ Q!LargerOrEarlier(E, F)
<1>1. /\ r \in Q!Rules /\ a \in Seq(Q!Event) /\ b \in Seq(Q!Event)
      /\ r \in Q!CountRules \/ Len(Q!Stamped(r, b)) <= MaxWindowEvents
  BY SameFields, SameStamped
<1>2. Q!Distinct(a)
  BY DEF Q!Distinct, NoRepeats
<1>3. E = Q!WidestEvidence(r, Q!Stamped(r, a), key) /\ F = Q!WidestEvidence(r, Q!Stamped(r, b), key)
  BY SameStamped, SameWidest
<1>4. F \in Seq(Q!Event) /\ Q!LargerOrEarlier(E, F)
  BY <1>1, <1>2, <1>3, SameAssumptions, Q!EvidenceThatStays
<1> QED BY <1>4, SameFields

LEMMA CauseOfRepeats == IInv => RepeatsHaveCause
<1> SUFFICES ASSUME IInv, NEW i \in DOMAIN ledger, NEW j \in DOMAIN ledger, i < j,
                    NEW x, x = ledger[i], NEW y, y = ledger[j],
                    NEW r, r = y.fingerprint.rule, x.fingerprint.rule = r,
                    x.fingerprint.actor = y.fingerprint.actor,
                    r \in CountRules \/ Len(Stamped(r, y.snapshot)) <= MaxWindowEvents,
                    ~(y.count > x.count),
                    ToSet(EvidenceBehind(x)) \subseteq ToSet(y.snapshot)
             PROVE  y.fingerprint.first < x.fingerprint.first
  BY Zenon DEF RepeatsHaveCause
<1>1. ledger \in Seq(Record) /\ OneEach(ledger)
  BY DEF IInv, DedupInv
<1>2. x \in Record /\ y \in Record
  BY <1>1
<1>3. /\ x.fingerprint \in Fingerprint /\ x.snapshot \in Seq(Event) /\ NoRepeats(x.snapshot)
      /\ FoundIn(x.fingerprint, x.count, x.snapshot)
      /\ y.fingerprint \in Fingerprint /\ y.snapshot \in Seq(Event)
      /\ FoundIn(y.fingerprint, y.count, y.snapshot)
      /\ x.count \in Nat /\ y.count \in Nat
  BY <1>2 DEF Record
<1>4. r \in Rules /\ x.fingerprint.first \in Nat /\ y.fingerprint.first \in Nat
  BY <1>3 DEF Fingerprint
<1>5. PICK key : key = x.fingerprint.actor /\ key = y.fingerprint.actor
  OBVIOUS
<1>6. PICK E, F : /\ E = WidestEvidence(r, Stamped(r, x.snapshot), key)
                  /\ F = WidestEvidence(r, Stamped(r, y.snapshot), key)
  OBVIOUS
<1>7. /\ E # <<>> /\ x.count = Len(E) /\ IsFirstOf(x.fingerprint.first, E)
      /\ F # <<>> /\ y.count = Len(F) /\ IsFirstOf(y.fingerprint.first, F)
  BY <1>3, <1>5, <1>6, Zenon DEF FoundIn, EvidenceFor
<1>8. Q!AllIn(E, y.snapshot)
  <2>1. EvidenceBehind(x) = E
    BY <1>5, <1>6, Zenon DEF EvidenceBehind
  <2> QED BY <2>1 DEF Q!AllIn, ToSet
<1>9. F \in Seq(Event) /\ Q!LargerOrEarlier(E, F)
  BY <1>3, <1>4, <1>6, <1>7, <1>8, EvidenceStays
<1>10. PICK k \in DOMAIN E : E[k].ts = x.fingerprint.first
  BY <1>7 DEF IsFirstOf
<1>11. PICK n \in DOMAIN F : F[n].ts <= E[k].ts
  BY <1>7, <1>9, <1>10 DEF Q!LargerOrEarlier
<1>12. F[n].ts \in Nat
  <2>1. \A e \in Event : e.ts \in Nat
    BY DEF Event
  <2> QED BY <1>9, <2>1
<1>13. y.fingerprint.first <= x.fingerprint.first
  <2>1. y.fingerprint.first <= F[n].ts
    BY <1>7 DEF IsFirstOf
  <2> QED BY <1>4, <1>10, <1>11, <1>12, <2>1
<1>14. y.fingerprint.first # x.fingerprint.first
  <2> SUFFICES ASSUME y.fingerprint.first = x.fingerprint.first PROVE FALSE
    OBVIOUS
  <2>1. x.fingerprint = y.fingerprint
    BY <1>3 DEF Fingerprint
  <2>2. i = j
    BY <1>1, <2>1 DEF OneEach
  <2>3. i \in Nat
    BY <1>1
  <2> QED BY <2>2, <2>3
<1> QED BY <1>4, <1>13, <1>14

(* A group is reported again only with more evidence, with evidence that    *)
(* starts earlier, or after some of what was reported has left the          *)
(* snapshot.                                                               *)
THEOREM RepeatsExplained == Spec => []RepeatsHaveCause
BY Invariance, CauseOfRepeats, PTL
=============================================================================
