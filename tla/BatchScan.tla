------------------------------ MODULE BatchScan ------------------------------
(***************************************************************************)
(* The scan and elastic commands of src/ai_soc_agent/cli.py: events are    *)
(* loaded from a log file, from a payload or from Elasticsearch, and once  *)
(* all of them are there they are mapped, enriched and run through the     *)
(* rules.  A load that fails leaves nothing to scan.                       *)
(***************************************************************************)
EXTENDS Detection, EventPreparation, LogFile, ElasticSource

VARIABLE findings  \* what the command prints

vars == <<input, events, phase, fileVars, pullVars, findings>>

Init == /\ input \in Inputs
        /\ events = <<>>
        /\ phase = "reading"
        /\ FileInit
        /\ PullInit
        /\ findings = <<>>

-----------------------------------------------------------------------------
(* A payload: _payload_events.  An item is a dict with the normalized      *)
(* fields, a dict that holds raw text, or the raw text (or, for okta, the  *)
(* record) itself.                                                         *)

(* The raw text of an okta item is not looked at. *)
EventFromItem(item) ==
    CASE item.form = "normalized" -> <<item.event>>
      [] item.form = "wrapped" ->
            IF input.source = "okta" THEN <<>> ELSE ParseRaw(input.source, item.raw, input.now.year)
      [] OTHER -> ParseRaw(input.source, item, input.now.year)

(* A normalized timestamp or an sshd date that does not parse. *)
ItemRaises(item) ==
    CASE item.form = "normalized" -> item.event.ts = BadTime
      [] item.form = "wrapped"    -> DateRaises(input.source, item.raw, input.now.year)
      [] OTHER                    -> DateRaises(input.source, item, input.now.year)

ReadPayload ==
    /\ Reading("payload")
    /\ IF \E n \in DOMAIN input.items : ItemRaises(input.items[n])
       THEN End("failed")
       ELSE /\ events' = FlattenSeq([n \in DOMAIN input.items |->
                                       Taken(n, EventFromItem(input.items[n]))])
            /\ phase' = "read"
            /\ UNCHANGED input

-----------------------------------------------------------------------------
(* detect_patterns *)

(* Nothing puts the credential rule in cross-source mode here. *)
BatchOrder == <<"brute_force", "geo_anomaly", "privilege_escalation",
                "lateral_movement", "credential_reuse">>

Seen(loaded) == [i \in DOMAIN loaded |-> Flat(Prepared(loaded[i].event))]

Scan ==
    /\ phase = "read"
    /\ findings' = DetectPatterns(BatchOrder, Seen(events))
    /\ phase' = "scanned"
    /\ UNCHANGED <<input, events>>

Done == phase \in {"failed", "scanned"} /\ UNCHANGED vars

Next == \/ ReadFile /\ UNCHANGED <<pullVars, findings>>
        \/ PullEvents /\ UNCHANGED <<fileVars, findings>>
        \/ ReadPayload /\ UNCHANGED <<fileVars, pullVars, findings>>
        \/ Scan /\ UNCHANGED <<fileVars, pullVars>>
        \/ Done

Spec == Init /\ [][Next]_vars

-----------------------------------------------------------------------------
(* Properties *)

(* Types; only a scan has findings. *)
TypeOK ==
    /\ input \in Inputs
    /\ phase \in {"reading", "read", "failed", "scanned"}
    /\ at \in Nat \ {0} /\ previous \in 0..Months
    /\ year \in Int /\ rereading \in BOOLEAN
    /\ offset \in Nat /\ pages \in Nat
    /\ input.command = "elastic" => pages <= input.max_pages
    /\ index \in SUBSET DOMAIN Docs
    /\ \A i \in DOMAIN events : events[i].from \in Nat \ {0} /\ events[i].event.ts \in Nat
    /\ findings # <<>> => phase = "scanned"

(* The lines of an sshd log that are a step back from the line with a      *)
(* month before them: an earlier month.                                    *)
Follows(i, j) ==
    /\ i < j /\ HasMonth(Lines[i]) /\ HasMonth(Lines[j])
    /\ \A k \in (i + 1)..(j - 1) : ~HasMonth(Lines[k])

MonthsTo(line) == line.year * Months + line.month - 1

LateLines(n) ==
    {j \in 1..n : \E i \in 1..n : Follows(i, j) /\ MonthsTo(Lines[j]) < MonthsTo(Lines[i])}

(* A log that starts within the year before it is read, and in which no    *)
(* two lines one after the other are a year apart.                         *)
RecentLog ==
    /\ \A j \in DOMAIN Lines :
          HasMonth(Lines[j]) /\ (\A i \in 1..(j - 1) : ~HasMonth(Lines[i]))
              => Lines[j].year = IF Lines[j].month > input.now.month
                                 THEN input.now.year - 1 ELSE input.now.year
    /\ \A i, j \in DOMAIN Lines :
          Follows(i, j) => MonthsTo(Lines[j]) - MonthsTo(Lines[i]) \in (1 - Months)..(Months - 1)

(* An sshd log carries no years, and the reader guesses them from months   *)
(* that go back: every event is stamped with its true year, plus one for   *)
(* each line so far that was logged late over the end of a month.  A line  *)
(* whose month is spelled in another case is stamped with the year reached *)
(* and changes nothing for the others.                                     *)
YearsOffByLateLines ==
    input.command = "file" /\ input.source = "sshd" /\ RecentLog =>
        \A i \in DOMAIN events :
            LET n == events[i].from
            IN Lines[n].in_months =>
               events[i].event.ts = Time(Lines[n].year + Cardinality(LateLines(n)),
                                         Lines[n].month, Lines[n].day)

-----------------------------------------------------------------------------

Origins == [i \in DOMAIN events |-> events[i].from]

Times(n) == Cardinality({i \in DOMAIN events : Origins[i] = n})

(* Dated as if its year were known: whether an event comes of a line does  *)
(* not depend on the year.                                                 *)
Recognized(line) == ParseRaw(input.source, line, input.now.year) # <<>>

Dropped ==
    /\ input.source = "okta" /\ Lines # <<>>
    /\ \/ Lines[1].form \in {"blank", "cut"}
       \/ input.shape = "document" /\ \E n \in DOMAIN Lines : Lines[n].form = "cut"

(* A file that has been read to its end has given an event for every line  *)
(* the parser knows and for no other, in the order of the file, except     *)
(* that an evtx file read again gives those before the break twice, and    *)
(* that of an Okta file that starts with a blank or torn line, or is a     *)
(* torn document, nothing is used.                                         *)
ReadInFull ==
    input.command = "file" /\ phase = "read" =>
        /\ \A n \in DOMAIN Lines :
              Times(n) \in IF Dropped \/ ~Recognized(Lines[n]) THEN {0}
                           ELSE IF rereading THEN {1, 2} ELSE {1}
        /\ \A m, n \in DOMAIN Lines : m < n /\ Times(n) = 2 => Times(m) # 1
        /\ \A i, j \in DOMAIN events :
              i < j /\ ~rereading => Origins[i] < Origins[j]

-----------------------------------------------------------------------------

Untied == \A i, j \in DOMAIN Docs : i # j => Docs[i].sort # Docs[j].sort

Wanted(d) == EventFromHit(Docs[d].content) # <<>>

(* A pull that ends in an answer, if no two documents have the same        *)
(* timestamp, has missed no more of the documents that were there all      *)
(* along than have gone meanwhile, and has read no more of them twice than *)
(* have come meanwhile: all exactly once if the index stood still.         *)
PagingLossBounded ==
    input.command = "elastic" /\ phase = "read" /\ Untied =>
        /\ Cardinality({d \in index \ inserted : Wanted(d) /\ Times(d) = 0}) <= Cardinality(removed)
        /\ Len(events) - Cardinality(ToSet(Origins)) <= Cardinality(inserted)

-----------------------------------------------------------------------------

(* What reaches the rules as a continent or as a credential has been       *)
(* validated, whichever key it came under and whatever else the event      *)
(* carries, unless the event came with the mark of the enricher itself     *)
(* (another mark protects nothing); and a second pass over a prepared      *)
(* event changes nothing.                                                  *)
OnlyValidatedReachRules ==
    \A i \in DOMAIN events :
        LET e == events[i].event
            prepared == Prepared(e)
        IN /\ Get(e.extra, "geo_version") # GeoVersion
                => Flat(prepared).continent \in {None} \cup {ContinentCode[s] : s \in DOMAIN ContinentCode}
           /\ Get(e.extra, "credential_version") # CredentialVersion
                => /\ Flat(prepared).credential \in {None} \cup {Fingerprint[s] : s \in DOMAIN Fingerprint}
                   /\ DOMAIN prepared.extra \cap ToSet(CredentialKeys) \subseteq {"password_fingerprint"}
           /\ Prepared(prepared) = prepared

(* The account a record names: Windows calls the one that logs on target,  *)
(* a web server has one only once it has authenticated it.                 *)
Account(item) == Named(IF input.source = "evtx" THEN item.target_user ELSE item.user)

RawItem(n) ==
    CASE input.command = "file"    -> Lines[n]
      [] input.command = "payload" -> input.items[n]
      [] input.command = "elastic" -> Docs[n].content

(* Every rule that looks at accounts goes by this one. *)
AllGoBy(account, seen) ==
    /\ ReuseUser(seen) = account
    /\ \A rule \in {"privilege_escalation", "lateral_movement", "geo_anomaly",
                    "credential_stuffing"} : GroupKey(rule, seen) = account

(* What becomes of an account that field mapping takes for empty: the      *)
(* cross-source rule goes by it all the same, two rules by what the target *)
(* is, the other two by the actor or by nothing.                           *)
RulesDisagree(seen) ==
    LET target == IF input.source = "nginx" THEN "/path" ELSE Null
    IN /\ CrossSourceUser(seen) = Null
       /\ GeoUser(seen) = target /\ ReuseUser(seen) = target
       /\ SudoUser(seen) = Named(seen.actor)
       /\ RemoteUser(seen) \in {None, Named(seen.actor)}

(* Whatever the log says it with, the account a record names is the one    *)
(* that every rule that looks at accounts groups or counts the event by.   *)
(* An account called "null" or "none" is the exception, but for Okta,      *)
(* whose parser names it where field mapping leaves it alone: the rules do *)
(* not agree on whose event it is.                                         *)
AccountIsKey ==
    \A i \in DOMAIN events :
        LET item == RawItem(events[i].from)
            seen == Flat(Prepared(events[i].event))
        IN item.form = "record" /\ Account(item) # None
              => IF Account(item) # Null \/ input.source = "okta"
                 THEN AllGoBy(Account(item), seen)
                 ELSE RulesDisagree(seen)

-----------------------------------------------------------------------------

(* A brute-force finding of a log file counts failed logins, as its rule   *)
(* says (patterns/brute_force.py:35): no more than the file has records.   *)
EvidenceIsDistinct ==
    \A i \in DOMAIN findings :
        input.command = "file" /\ findings[i].fingerprint.rule = "brute_force"
            => findings[i].count <= Cardinality(ToSet(Origins))
=============================================================================
