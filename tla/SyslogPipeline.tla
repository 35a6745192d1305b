---------------------------- MODULE SyslogPipeline ----------------------------
(***************************************************************************)
(* The handler of the live syslog service, _serve_syslog in                *)
(* src/ai_soc_agent/cli.py: each event the receiver delivers is appended   *)
(* to an EventWindow, the newest part of the window is run through the     *)
(* rules, and the findings that FindingDedup accepts are written out.  The *)
(* handler is synchronous on the event loop, so one event is one step.     *)
(*                                                                         *)
(* A message is an event whose ts is the moment it was sent.  Its text     *)
(* carries no year: parse_line stamps it with the year of the wall clock   *)
(* at the moment it is parsed.                                             *)
(***************************************************************************)
EXTENDS Detection, FindingDedup, FiniteSets

CONSTANTS Messages,       \* the messages senders may send
          YearLength,     \* a year, in the unit of the clock
          Horizon, MaxEvents, MaxSequence,  \* see EventWindow
          Default,        \* the namespace append() uses when none is given
          SnapshotLimit,  \* limit of the snapshot
          FirstClock, LastClock,  \* the times the run spans
          StepsBack,      \* whether the wall clock may be set back
          MaxFailures     \* bound on failed writes

Fingerprint == [rule : Rules, actor : STRING, first : Nat]

ASSUME PipelineAssumption ==
    /\ Messages \subseteq Event
    /\ NoFingerprint \notin Fingerprint
    /\ YearLength \in Nat \ {0}
    /\ Horizon \in Nat \ {0}
    /\ MaxEvents \in Nat \ {0}
    /\ SnapshotLimit \in Nat \ {0}
    /\ FirstClock \in Nat /\ LastClock \in Nat /\ FirstClock <= LastClock
    /\ MaxSequence \in Nat /\ MaxFailures \in Nat
    /\ StepsBack \in BOOLEAN

VARIABLES stored, fingerprints, watermark, sequence, result,  \* state
          entries,   \* deduplicator._accepted_at
          clock,     \* the wall clock
          failures,  \* failed writes so far
          findings,  \* what the rules found for the last event, at this clock
          ledger     \* history: every accepted finding, the last accepted last

window == <<stored, fingerprints, watermark, sequence, result>>
vars == <<window, entries, clock, failures, findings, ledger>>

(* _parse_ts without an explicit year. *)
Parsed(message, now) ==
    [message EXCEPT !.ts = (now \div YearLength) * YearLength + (message.ts % YearLength)]

Events == {Parsed(message, now) : message \in Messages, now \in FirstClock..LastClock}

Stamps == [e \in Events |-> e.ts]

W == INSTANCE EventWindow WITH
        Namespaces <- {Default},
        Ts <- Stamps,
        Batches <- {<<e>> : e \in Events},
        References <- {}

Init == /\ W!Init
        /\ entries = <<>>
        /\ clock = FirstClock
        /\ failures = 0
        /\ findings = <<>>
        /\ ledger = <<>>

-----------------------------------------------------------------------------
(* detect_patterns on the snapshot *)

(* The service puts the credential rule in cross-source mode.              *)
RuleOrder == <<"brute_force", "geo_anomaly", "privilege_escalation",
               "lateral_movement", "credential_stuffing">>

Newest == W!Snapshot(Default, SnapshotLimit)

SnapshotEvents(newest) ==
    LET items == InOrder(newest, {p \in newest \X newest : W!Older(p[1], p[2])})
    IN [i \in DOMAIN items |-> items[i].event]

(* accept() for one finding.  The ledger is history: an accepted finding   *)
(* replaces its earlier acceptance.  It is ripe once the clock has shown a *)
(* full cooldown since, and it was due if its earlier acceptance was ripe  *)
(* or max_entries others came after it.                                    *)
Filed(sifted, finding, snapshot) ==
    LET fingerprint == finding.fingerprint
        due == \A i \in DOMAIN sifted.ledger :
                  sifted.ledger[i].fingerprint = fingerprint
                      => sifted.ledger[i].ripe \/ Len(sifted.ledger) - i >= MaxEntries
        record == [fingerprint |-> fingerprint, last |-> finding.last, count |-> finding.count,
                   at |-> clock, ripe |-> FALSE, due |-> due,
                   snapshot |-> snapshot]
        entered == Append(Without(sifted.ledger, fingerprint), record)
        accepted == Accepts(sifted.entries, fingerprint, clock)
    IN [entries |-> Remembered(sifted.entries, fingerprint, clock),
        ledger |-> IF accepted THEN entered ELSE sifted.ledger,
        written |-> sifted.written \/ accepted]

(* One finding after another; whether any is to be written. *)
Sift(found, snapshot) ==
    LET sifted[n \in 0..Len(found)] ==
          IF n = 0 THEN [entries |-> entries, ledger |-> ledger, written |-> FALSE]
          ELSE Filed(sifted[n - 1], found[n], snapshot)
    IN sifted[Len(found)]

(* handle(event) *)
Handle(message, ok) ==
    /\ message.ts <= clock
    /\ failures' = failures + IF ok THEN 0 ELSE 1
    /\ failures' <= MaxFailures
    /\ W!AppendBatch(Default, <<Parsed(message, clock)>>)
    /\ \E newest \in {Newest'} : \E snapshot \in {SnapshotEvents(newest)} :
          /\ findings' = DetectPatterns(RuleOrder, snapshot)
          /\ LET sifted == Sift(findings', snapshot)
             IN /\ entries' = sifted.entries
                /\ ledger' = sifted.ledger
                /\ ~ok => sifted.written
    /\ UNCHANGED clock

Receive(message) == Handle(message, TRUE)

(* click.echo raises: the receiver counts a handler error and goes on, but *)
(* the findings have been accepted, and nothing writes them a second time. *)
WriteFails(message) == Handle(message, FALSE)

SetClock(now) ==
    /\ StepsBack \/ now >= clock
    /\ clock' = now
    /\ findings' = <<>>
    /\ ledger' = [i \in DOMAIN ledger |->
                     [ledger[i] EXCEPT !.ripe = @ \/ now - ledger[i].at >= Cooldown]]
    /\ UNCHANGED <<window, entries, failures>>

Next == \/ \E message \in Messages : Receive(message) \/ WriteFails(message)
        \/ \E now \in FirstClock..LastClock : SetClock(now)

Spec == Init /\ [][Next]_vars

-----------------------------------------------------------------------------
(* Properties *)

(* Types, with the bound of the cooldown cache and one entry per finding.  *)
TypeOK ==
    /\ stored \subseteq W!Item
    /\ Len(entries) <= MaxEntries
    /\ \A i \in DOMAIN entries :
          entries[i].fingerprint \in Fingerprint /\ entries[i].at \in FirstClock..LastClock
    /\ \A i, j \in DOMAIN entries :
          entries[i].fingerprint = entries[j].fingerprint => i = j
    /\ clock \in FirstClock..LastClock
    /\ failures \in 0..MaxFailures
    /\ \A i \in DOMAIN findings : findings[i].fingerprint \in Fingerprint
    /\ \A i \in DOMAIN ledger : ledger[i].fingerprint \in Fingerprint

(* Nothing detected goes unaccepted once the clock shows the end of its    *)
(* cooldown: whenever an event has been handled, each finding of the       *)
(* window was accepted at a time whose cooldown the clock has not reached  *)
(* the end of, whatever the cache forgot since.  On a clock that is never  *)
(* set back, that is less than one cooldown ago.  On one that is, accept() *)
(* takes a negative age for a recent one (dedup.py:66), and the silence is *)
(* as much longer as the clock was set back: not "one bounded cooldown     *)
(* period" (dedup.py:36).                                                  *)
EveryDetectionEmitted ==
    \A finding \in ToSet(findings) :
        \E i \in DOMAIN ledger :
            /\ ledger[i].fingerprint = finding.fingerprint
            /\ clock < ledger[i].at + Cooldown
            /\ StepsBack \/ ledger[i].at <= clock

(* A finding is accepted again only if the clock has shown a full cooldown *)
(* since, or max_entries other findings were accepted after it.            *)
NoEarlyRepeat == \A i \in DOMAIN ledger : ledger[i].due

(* The cache forgets the findings accepted longest ago and no others: one  *)
(* that is missing from it is past its cooldown, or max_entries findings   *)
(* were accepted after it.                                                 *)
RememberedUntilRipe ==
    \A i \in DOMAIN ledger :
        \/ ledger[i].ripe
        \/ Holds(entries, ledger[i].fingerprint)
        \/ Len(ledger) - i >= MaxEntries

(* The events a record of the ledger was found in. *)
EvidenceBehind(record) ==
    LET rule == record.fingerprint.rule
    IN WidestEvidence(rule, Stamped(rule, record.snapshot), record.fingerprint.actor)

(* A group is reported again, under another fingerprint, only for a cause: *)
(* it has more evidence than before, or an event that arrived late extends *)
(* it backwards, or an event of the earlier report has left the snapshot.  *)
(* An attack that merely goes on is not written twice.  (A rule that       *)
(* counts kinds can also lose one of them to the cap on a window.)         *)
RepeatsHaveCause ==
    \A i, j \in DOMAIN ledger :
        LET x == ledger[i]
            y == ledger[j]
            rule == y.fingerprint.rule
        IN (/\ i < j
            /\ x.fingerprint.rule = rule
            /\ x.fingerprint.actor = y.fingerprint.actor
            /\ rule \in CountRules \/ Len(Stamped(rule, y.snapshot)) <= MaxWindowEvents)
               => \/ y.count > x.count
                  \/ y.fingerprint.first < x.fingerprint.first
                  \/ ~(ToSet(EvidenceBehind(x)) \subseteq ToSet(y.snapshot))

(* "Two failure modes this exists to avoid" (parsers.py:95), lines stamped *)
(* "eleven months in the future" (parsers.py:101): an event that arrives   *)
(* within one horizon of being sent is never discarded as expired.         *)
FreshNeverExpired ==
    [][\A message \in Messages :
          Receive(message) /\ clock - message.ts <= Horizon => result'.expired = 0]_vars
=============================================================================
