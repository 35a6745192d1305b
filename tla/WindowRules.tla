----------------------------- MODULE WindowRules -----------------------------
(***************************************************************************)
(* The five detection rules of src/ai_soc_agent/patterns as data: for each *)
(* rule, which events it looks at, how it groups them, and when a window of *)
(* one group is evidence.  Field values are abstract names: None stands for *)
(* a field the event does not have, Dash for one that is present and a     *)
(* placeholder to the rules (empty, "-" or "unknown", spelled just so).    *)
(***************************************************************************)
EXTENDS Subsequences, SequencesExt

CONSTANTS Seconds,         \* [Rules -> Nat]: window length of each rule
          Threshold,       \* [Rules -> Nat]: its threshold (not used cross-source)
          MaxWindowEvents, \* MAX_WINDOW_EVENTS
          Suppressed       \* keys Suppression.suppresses answers True for

None == "none"
Dash == "-"
Blank == {None, Dash}

Rules == {"brute_force", "privilege_escalation", "lateral_movement", "geo_anomaly",
          "credential_reuse", "credential_stuffing"}

ASSUME RulesAssumption ==
    /\ Seconds \in [Rules -> Nat]
    /\ Threshold \in [Rules -> Nat]
    /\ MaxWindowEvents \in Nat \ {0}

(* The fields the rules look at; an address that is not one of IPs, or a   *)
(* user, is any string.                                                    *)
Event == [ts : Nat, actor : STRING, user : STRING, target : STRING, host : STRING,
          credential : STRING, continent : STRING, process : STRING, action : STRING,
          result : STRING, source : STRING, remote_user : STRING, raw : STRING]

IPs == {"10.0.0.1", "10.0.0.2", "10.0.0.3"}
RequiredFamilies == {"ssh", "vpn", "web"}

SourceFamily(e) ==
    CASE e.source \in {"ssh", "sshd"}                    -> "ssh"
      [] e.source \in {"nginx", "okta", "http", "https"} -> "web"
      [] OTHER                                           -> e.source

(* Some helpers fall back when a field says nothing, others, using the      *)
(* default argument of event_value, only when the event does not have it.  *)
Or(value, fallback) == IF value \in Blank THEN fallback ELSE value
OrMissing(value, fallback) == IF value = None THEN fallback ELSE value

Named(value) == IF value \in Blank THEN None ELSE value

(* The grouping keys.  The _user helper of each rule module falls back on  *)
(* a different field, and not all in the same way.                         *)
IpActor(e) == IF e.actor \in IPs THEN e.actor ELSE None

SudoUser(e) == Named(Or(e.user, e.actor))

RemoteUser(e) == Named(Or(e.user, IF e.actor \in IPs THEN None ELSE e.actor))

GeoUser(e) == Named(Or(e.user, e.target))

Credential(e) == Named(e.credential)

CrossSourceUser(e) ==
    LET user == Or(e.user, e.remote_user)
    IN IF user \in Blank /\ SourceFamily(e) = "web" /\ e.target = "/path"
       THEN None
       ELSE Named(Or(user, e.target))

GroupKey(rule, e) ==
    CASE rule = "brute_force"          -> IpActor(e)
      [] rule = "privilege_escalation" -> SudoUser(e)
      [] rule = "lateral_movement"     -> RemoteUser(e)
      [] rule = "geo_anomaly"          -> GeoUser(e)
      [] rule = "credential_reuse"     -> Credential(e)
      [] rule = "credential_stuffing"  -> CrossSourceUser(e)

(* What a distinct_threshold rule, or the cross-source rule, counts.       *)
ReuseUser(e) == Named(OrMissing(e.user, e.target))

Destination(e) == Named(OrMissing(e.host, e.target))

Continent(e) == e.continent

Dimension(rule, e) ==
    CASE rule = "lateral_movement"    -> Destination(e)
      [] rule = "geo_anomaly"         -> Continent(e)
      [] rule = "credential_reuse"    -> ReuseUser(e)
      [] rule = "credential_stuffing" -> SourceFamily(e)

(* Which events a rule looks at. *)
LoginActions == {"login", "ssh_login", "windows_login", "web_login", "okta_login"}

IsFailedLogin(e) == e.result = "failure" /\ e.action \in LoginActions

(* The raw text of an event is "sudo" if it mentions it anywhere: what is  *)
(* left of a text that was written from these values.                      *)
Mentions(values) == IF "sudo" \in values THEN "sudo" ELSE None

IsFailedSudo(e) == e.result = "failure" /\ "sudo" \in {e.action, e.process, e.raw}

(* The names that contain one of _REMOTE_TOKENS. *)
RemoteNames == {"ssh", "sshd", "ssh_login", "rdp", "winrm", "smb", "remote"}

IsRemoteLogin(e) == e.result = "success" /\ {e.action, e.source} \cap RemoteNames # {}

Predicate(rule, e) ==
    CASE rule = "brute_force"          -> IsFailedLogin(e)
      [] rule = "privilege_escalation" -> IsFailedSudo(e)
      [] rule = "lateral_movement"     -> IsRemoteLogin(e) /\ Destination(e) # None
      [] rule = "geo_anomaly"          -> e.result = "success" /\ Continent(e) # None
      [] rule = "credential_reuse"     -> e.result = "failure" /\ ReuseUser(e) # None
      [] rule = "credential_stuffing"  -> e.result = "failure" /\ SourceFamily(e) \in RequiredFamilies

CountRules == {"brute_force", "privilege_escalation"}

(* Whether an event enters the rule's windows at all. *)
Relevant(rule, e) ==
    /\ Predicate(rule, e)
    /\ GroupKey(rule, e) # None
    /\ GroupKey(rule, e) \notin Suppressed

(* One representative per dimension value: the first in the window.        *)
Representatives(rule, window) ==
    AtIndices(window,
              {i \in DOMAIN window :
                  /\ Dimension(rule, window[i]) # None
                  /\ \A j \in 1..(i - 1) : Dimension(rule, window[j]) # Dimension(rule, window[i])})

(* The cross-source evidence lists one event per family, families sorted.  *)
OnePerFamily(window) ==
    LET found == Representatives("credential_stuffing", window)
        ofFamily(f) == AtIndices(found, {i \in DOMAIN found : SourceFamily(found[i]) = f})
    IN ofFamily("ssh") \o ofFamily("vpn") \o ofFamily("web")

(* The rule's `qualifies` callback: its evidence, <<>> standing for None.  *)
Evidence(rule, window) ==
    LET found == CASE rule \in CountRules -> window
                   [] rule = "credential_stuffing" -> OnePerFamily(window)
                   [] OTHER -> Representatives(rule, window)
        enough == IF rule = "credential_stuffing"
                  THEN {SourceFamily(found[i]) : i \in DOMAIN found} = RequiredFamilies
                  ELSE Len(found) >= Threshold[rule]
    IN IF enough THEN found ELSE <<>>

(* matched_groups of the brute-force rule refuses a zero threshold or      *)
(* window; the other rules use compiled-in positive constants.             *)
Configured(rule) == rule = "brute_force" => Threshold[rule] > 0 /\ Seconds[rule] > 0

(* list.sort on the timestamp alone is stable: equal times keep their      *)
(* order in the input.                                                     *)
TimeOrdered(events, kept) ==
    LET order == InOrder(kept, {p \in kept \X kept :
                                  \/ events[p[1]].ts < events[p[2]].ts
                                  \/ events[p[1]].ts = events[p[2]].ts /\ p[1] < p[2]})
    IN [i \in DOMAIN order |-> events[order[i]]]

Stamped(rule, events) == TimeOrdered(events, {i \in DOMAIN events : Relevant(rule, events[i])})

-----------------------------------------------------------------------------
(* A reference for the loop in qualifying_windows: no deque, no running     *)
(* state, each window taken from the whole time-ordered list of events.     *)

(* The window that ends at event i: the events of its group no more than   *)
(* Seconds older, at most MaxWindowEvents of them.                         *)
WindowEndingAt(rule, stamped, i) ==
    LET near == {j \in 1..i :
                   /\ GroupKey(rule, stamped[j]) = GroupKey(rule, stamped[i])
                   /\ stamped[i].ts - stamped[j].ts <= Seconds[rule]}
    IN AtIndices(stamped, {j \in near : Cardinality({k \in near : k > j}) < MaxWindowEvents})

(* Mutant: evidence of the same size replaces what was there. *)
LatestEvidence(rule, stamped, key) ==
    LET ends == {i \in DOMAIN stamped : GroupKey(rule, stamped[i]) = key}
        width == [i \in ends |-> Len(Evidence(rule, WindowEndingAt(rule, stamped, i)))]
        widest == {i \in ends : \A j \in ends : width[j] <= width[i]}
    IN IF ends = {} THEN <<>>
       ELSE Evidence(rule, WindowEndingAt(rule, stamped, Max(widest)))

(* The widest evidence a group reaches, the earliest if several are.       *)
WidestEvidence(rule, stamped, key) ==
    LET ends == {i \in DOMAIN stamped : GroupKey(rule, stamped[i]) = key}
        width == [i \in ends |-> Len(Evidence(rule, WindowEndingAt(rule, stamped, i)))]
        widest == {i \in ends : \A j \in ends : width[j] <= width[i]}
    IN IF ends = {} THEN <<>>
       ELSE Evidence(rule, WindowEndingAt(rule, stamped, Min(widest)))

(* The index of the event with which a group first qualified. *)
FirstQualified(rule, stamped, key) ==
    Min({i \in DOMAIN stamped :
            /\ GroupKey(rule, stamped[i]) = key
            /\ Evidence(rule, WindowEndingAt(rule, stamped, i)) # <<>>})

(* The groups a rule reports, in the order of the matched dict. *)
MatchedKeys(rule, stamped) ==
    LET matched == {k \in {GroupKey(rule, stamped[i]) : i \in DOMAIN stamped} :
                      WidestEvidence(rule, stamped, k) # <<>>}
    IN InOrder(matched, {p \in matched \X matched :
                           FirstQualified(rule, stamped, p[1]) < FirstQualified(rule, stamped, p[2])})
=============================================================================
