------------------------- MODULE MCQualifyingWindows -------------------------
(* Every rule over every list of at most MaxLen events from a small set     *)
(* chosen for it: relevant events of two groups at times inside and across *)
(* a window, and one event the rule must ignore.                           *)
EXTENDS QualifyingWindows

CONSTANT MaxLen

Login(actor, user, t) ==
    [ts |-> t, actor |-> actor, user |-> user, target |-> None, host |-> None,
     credential |-> None, continent |-> None, process |-> None,
     action |-> "login", result |-> "failure", source |-> "ssh",
     remote_user |-> None, raw |-> None]

BruteForceEvents ==
    {Login("10.0.0.1", None, t) : t \in 0..3}
        \cup {Login("10.0.0.2", None, 0), Login("alice", None, 1),
              [Login("10.0.0.1", None, 1) EXCEPT !.action = "http_request"]}

SudoEvents ==
    {[Login("10.0.0.2", "alice", t) EXCEPT !.action = "sudo"] : t \in {0, 1, 3}}
    \cup {[Login("10.0.0.1", None, t) EXCEPT !.raw = "sudo"] : t \in {0, 1, 3}}

RemoteEvents ==
    {[Login("alice", None, t) EXCEPT !.result = "success", !.host = h]
        : t \in {0, 2}, h \in {"h1", "h2"}}
    \cup {[Login("10.0.0.1", "alice", 1) EXCEPT !.result = "success", !.action = "rdp",
                                                !.source = "other", !.target = "h3"],
          [Login("10.0.0.1", None, 1) EXCEPT !.result = "success", !.host = "h1"],
          [Login("alice", Dash, 1) EXCEPT !.result = "success", !.host = Dash, !.target = "h3"]}

GeoEvents ==
    {[Login("10.0.0.1", None, t) EXCEPT !.result = "success", !.target = "alice", !.continent = c]
        : t \in {0, 2, 3}, c \in {"EU", "NA"}}
    \cup {[Login("10.0.0.1", Dash, 2) EXCEPT !.result = "success", !.target = "alice", !.continent = "AS"]}

ReuseEvents ==
    {[Login("10.0.0.1", u, t) EXCEPT !.credential = "pw"] : u \in {"alice", "bob"}, t \in {0, 2}}
    \cup {[Login("10.0.0.1", None, 3) EXCEPT !.credential = "pw", !.target = "carol"],
          [Login("10.0.0.1", Dash, 2) EXCEPT !.credential = "pw", !.target = "dave"]}

CrossSourceEvents ==
    {[Login("10.0.0.1", "alice", t) EXCEPT !.source = s] : t \in {0, 3}, s \in {"ssh", "vpn", "okta"}}
    \cup {[Login("10.0.0.2", None, 1) EXCEPT !.source = "nginx", !.target = "/path"],
          [Login("10.0.0.2", None, 1) EXCEPT !.source = "nginx", !.target = "/path",
                                             !.remote_user = "alice"]}

Lists(S) == UNION {[1..n -> S] : n \in 0..MaxLen}

MCInputs == [r \in Rules |->
    CASE r = "brute_force"          -> Lists(BruteForceEvents)
      [] r = "privilege_escalation" -> Lists(SudoEvents)
      [] r = "lateral_movement"     -> Lists(RemoteEvents)
      [] r = "geo_anomaly"          -> Lists(GeoEvents)
      [] r = "credential_reuse"     -> Lists(ReuseEvents)
      [] r = "credential_stuffing"  -> Lists(CrossSourceEvents)]

MCSeconds == [r \in Rules |-> 2]
MCThreshold == [r \in Rules |-> 2]
=============================================================================
