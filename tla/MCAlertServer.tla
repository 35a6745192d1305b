---------------------------- MODULE MCAlertServer ----------------------------
(* Two threads, failed logins from two addresses at three times, and the   *)
(* brute-force rule: two failures within two time units.                   *)
EXTENDS AlertServer, SequencesExt

R == INSTANCE WindowRules WITH
        Seconds <- [r \in {"brute_force"} |-> 2],
        Threshold <- [r \in {"brute_force"} |-> 2],
        MaxWindowEvents <- 3,
        Suppressed <- {}

CONSTANTS t1, t2

(* An event is <<address, time>>; identity n is brute force from address n. *)
MCEvents == ({1} \X (0..2)) \cup ((AlertIds \ {1}) \X {1, 2})
MCTs == [e \in MCEvents |-> e[2]]
MCBatches == {<<e>> : e \in MCEvents}
                \cup {<< <<1, 0>>, <<1, 1>> >>}
                \cup {<< <<n, 1>>, <<n, 2>> >> : n \in AlertIds \ {1}}

(* An address that comes back after its first burst has expired. *)
ReturnEvents == ({1} \X {0, 1, 4, 5}) \cup ({2} \X {1, 2})
ReturnTs == [e \in ReturnEvents |-> e[2]]
ReturnBatches == {<< <<1, 0>>, <<1, 1>> >>, << <<2, 1>>, <<2, 2>> >>, << <<1, 4>>, <<1, 5>> >>}

Address(n) == <<"10.0.0.1", "10.0.0.2", "10.0.0.3">>[n]

Login(e) == [ts |-> e[2], actor |-> Address(e[1]), action |-> "login", result |-> "failure"]

MCCorrelate(S) ==
    LET list == SetToSortSeq(S, LAMBDA d, e : d[2] < e[2] \/ (d[2] = e[2] /\ d[1] < e[1]))
        stamped == [i \in DOMAIN list |-> Login(list[i])]
        evidence(n) == R!WidestEvidence("brute_force", stamped, Address(n))
        times(n) == {evidence(n)[i].ts : i \in DOMAIN evidence(n)}
        alert(n) == [id |-> n, count |-> Len(evidence(n)), last |-> Max(times(n))]
        first(n) == Min(times(n))
        found == {n \in AlertIds : evidence(n) # <<>>}
        sorted == SetToSortSeq(found, LAMBDA m, n : first(m) < first(n) \/ (first(m) = first(n) /\ m < n))
    IN [i \in DOMAIN sorted |-> alert(sorted[i])]

(* Threads are interchangeable. *)
MCSymmetry == Permutations(Threads)
=============================================================================
