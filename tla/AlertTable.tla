------------------------------ MODULE AlertTable ------------------------------
(***************************************************************************)
(* What the alert service promises of its alerts, whatever its threads,    *)
(* its window, its lock and its database do: one table from incident to    *)
(* alert that only grows in evidence, gives up alerts only for room, and   *)
(* comes back from a restart with nothing changed and nothing missing but  *)
(* what no longer fits or cannot be read.                                  *)
(***************************************************************************)
EXTENDS Integers, FiniteSets

CONSTANTS Capacities,  \* the capacities the service may be started with
          MaxLost      \* bound on the rows found unreadable at one start

VARIABLES table,     \* incident -> alert
          serving,   \* the service is up
          capacity

tableVars == <<table, serving, capacity>>

Init == table = <<>> /\ serving = TRUE /\ capacity \in Capacities

(* An alert is replaced only by one with more evidence, and the table is   *)
(* full after it has given anything up.                                    *)
Reported ==
    /\ \A x \in DOMAIN table \cap DOMAIN table' :
          table'[x] = table[x] \/ table'[x].count > table[x].count
    /\ Cardinality(DOMAIN table') <= capacity
    /\ DOMAIN table \subseteq DOMAIN table' \/ Cardinality(DOMAIN table') = capacity

Report == serving /\ Reported /\ UNCHANGED <<serving, capacity>>

(* A report under way when the service dies is made in full or not at all. *)
Stop == serving /\ serving' = FALSE /\ Reported /\ UNCHANGED capacity

Start ==
    /\ ~serving /\ serving' = TRUE
    /\ capacity' \in Capacities
    /\ DOMAIN table' \subseteq DOMAIN table
    /\ \A x \in DOMAIN table' : table'[x] = table[x]
    /\ Cardinality(DOMAIN table') <= capacity'
    /\ \/ Cardinality(DOMAIN table') >= Cardinality(DOMAIN table) - MaxLost
       \/ Cardinality(DOMAIN table') >= capacity' - MaxLost

Next == Report \/ Stop \/ Start

Spec == Init /\ [][Next]_tableVars
=============================================================================
