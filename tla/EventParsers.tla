----------------------------- MODULE EventParsers -----------------------------
(***************************************************************************)
(* The parsers of src/ai_soc_agent/parsers.py for one line or record.  A   *)
(* raw item is a record whose form says what it is: "record", one that     *)
(* matches its log type; "other", an sshd line about something else;       *)
(* "noise", text that is neither; "blank"; "cut", the torn start of a      *)
(* record.  A field that is absent or empty is None, "-" is Dash.          *)
(*                                                                         *)
(* A parser returns <<>> for None and otherwise the event in a sequence.   *)
(* The extra dict of an event is a function over the keys it has.          *)
(***************************************************************************)
EXTENDS WindowRules

CONSTANTS Months, Days  \* of the calendar: months in a year, days in a month

ASSUME CalendarAssumption == Months \in Nat \ {0} /\ Days \in Nat \ {0}

LogTypes == {"sshd", "evtx", "nginx", "okta"}

BadTime == -1  \* a timestamp that does not parse

(* NormalizedEvent, before it is prepared for the rules. *)
IsEvent(e) ==
    e = [ts |-> e.ts, actor |-> e.actor, action |-> e.action, target |-> e.target,
         result |-> e.result, source |-> e.source, raw |-> e.raw,
         extra |-> [k \in DOMAIN e.extra |-> e.extra[k]]]

(* The time of a record that carries one parsed or did not.                *)
IsRaw(logType, item) ==
    logType # "sshd" /\ item.form = "record" => item.ts \in Nat \cup {BadTime}

(* The last day of the second month exists in every fourth year only.      *)
Exists(year, month, day) ==
    /\ month \in 1..Months /\ day \in 1..Days
    /\ month = 2 /\ day = Days => year % 4 = 0

Time(year, month, day) == (year * Months + month - 1) * Days + day - 1

Present(fields, dropped) ==
    LET keys == {k \in DOMAIN fields : fields[k] \notin dropped}
    IN [k \in keys |-> fields[k]]

(* Python's `a or b or "unknown"`. *)
Either(values) ==
    LET given == {i \in DOMAIN values : values[i] # None}
    IN IF given = {} THEN Dash ELSE values[Min(given)]

(* parse_line: Failed or Accepted for a user, Invalid user, or a           *)
(* connection closed before authentication.                                *)
ParseSshd(line, ts) ==
    IF line.form # "record" THEN <<>>
    ELSE <<[ts |-> ts, actor |-> line.ip, target |-> line.user, source |-> "sshd",
            action |-> "ssh_login",
            result |-> IF line.says = "Accepted" THEN "success" ELSE "failure",
            raw |-> Mentions({line.host, line.user, line.ip}),
            extra |-> [host |-> line.host]]>>

WindowsActions ==
    [id \in {"4624", "4625", "4648"} |->
        IF id = "4648" THEN "windows_explicit_credentials" ELSE "windows_login"]

WindowsResults ==
    [id \in {"4624", "4625", "4648"} |->
        CASE id = "4624" -> "success" [] id = "4625" -> "failure" [] id = "4648" -> "unknown"]

ParseEvtx(record) ==
    IF record.form # "record" \/ record.ts = BadTime \/ record.event_id \notin DOMAIN WindowsResults
    THEN <<>>
    ELSE <<[ts |-> record.ts, source |-> "windows",
            actor |-> Either(<<Named(record.ip), record.subject_user>>),
            target |-> Either(<<record.target_user, record.server, record.computer>>),
            action |-> WindowsActions[record.event_id],
            result |-> WindowsResults[record.event_id],
            raw |-> Mentions({record.ip, record.subject_user, record.target_user, record.server,
                              record.computer, record.process_name}),
            extra |-> Present([computer |-> record.computer, subject_user |-> record.subject_user,
                               process_name |-> record.process_name], Blank)]>>

(* Static files are never login endpoints; otherwise a whole segment or a  *)
(* part of the last one must say so.                                       *)
IsLoginEndpoint(path) == ~path.static /\ (path.segment \/ path.token)

ParseNginx(line) ==
    IF line.form # "record" \/ line.ts = BadTime THEN <<>>
    ELSE <<[ts |-> line.ts, actor |-> line.ip, target |-> "/path", source |-> "nginx",
            action |-> IF line.method \in {"POST", "PUT", "PATCH"} /\ IsLoginEndpoint(line.path)
                       THEN "web_login" ELSE "http_request",
            result |-> CASE line.status \in 100..399 -> "success"
                         [] line.status \in 400..599 -> "failure"
                         [] OTHER                    -> "unknown",
            raw |-> Mentions({line.user, line.method}),
            extra |-> Present([remote_user |-> line.user, method |-> line.method], Blank)]>>

OktaActions == [login |-> "okta_login", mfa |-> "okta_mfa", sso |-> "okta_sso"]

(* Mutant: the user of a single sign-on is kept in the target only. *)
ParseOktaAppOnly(record) ==
    IF record.form # "record" \/ record.ts = BadTime \/ record.type \notin DOMAIN OktaActions
    THEN <<>>
    ELSE <<[ts |-> record.ts, source |-> "okta",
            actor |-> Either(<<record.ip, record.user>>),
            target |-> IF record.type = "sso" THEN Either(<<record.app, record.user>>)
                                              ELSE Either(<<record.user, record.app>>),
            action |-> OktaActions[record.type],
            result |-> record.outcome,
            raw |-> Mentions({record.user, record.app}),
            extra |-> Present([target_app |-> record.app], {None})]>>

(* For a single sign-on the target is the application, if one is named.    *)
ParseOkta(record) ==
    IF record.form # "record" \/ record.ts = BadTime \/ record.type \notin DOMAIN OktaActions
    THEN <<>>
    ELSE <<[ts |-> record.ts, source |-> "okta",
            actor |-> Either(<<record.ip, record.user>>),
            target |-> IF record.type = "sso" THEN Either(<<record.app, record.user>>)
                                              ELSE Either(<<record.user, record.app>>),
            action |-> OktaActions[record.type],
            result |-> record.outcome,
            raw |-> Mentions({record.user, record.app}),
            extra |-> Present([user |-> record.user, target_app |-> record.app], {None})]>>

(* _parse_raw_event and _parse_raw: an sshd line without its file is       *)
(* stamped with the current year.                                          *)
DateRaises(logType, item, year) ==
    /\ logType = "sshd" /\ item.form \in {"record", "other"}
    /\ ~Exists(year, item.month, item.day)

ParseRaw(logType, item, year) ==
    CASE logType = "sshd"  -> ParseSshd(item, Time(year, item.month, item.day))
      [] logType = "evtx"  -> ParseEvtx(item)
      [] logType = "nginx" -> ParseNginx(item)
      [] logType = "okta"  -> ParseOkta(item)
=============================================================================
