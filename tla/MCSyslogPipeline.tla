--------------------------- MODULE MCSyslogPipeline ---------------------------
(* Failed logins from two addresses around New Year, which falls at time 8. *)
EXTENDS SyslogPipeline

Failure(actor, t) ==
    [ts |-> t, actor |-> actor, user |-> "root", target |-> "root", host |-> "h1",
     credential |-> None, continent |-> None, process |-> None,
     action |-> "ssh_login", result |-> "failure", source |-> "sshd",
     remote_user |-> None, raw |-> None]

MCMessages == {Failure("10.0.0.1", t) : t \in 6..8} \cup {Failure("10.0.0.2", t) : t \in {7, 8}}
    \cup {[Failure("10.0.0.1", 8) EXCEPT !.user = "admin"]}

MCSeconds == [r \in Rules |-> 1]
MCThreshold == [r \in Rules |-> 2]
=============================================================================
