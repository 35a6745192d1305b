----------------------------- MODULE EventSource -----------------------------
(***************************************************************************)
(* What the ways of loading events into one run of the command line share: *)
(* the input the command was given, the events loaded so far and how far   *)
(* the load has come.  Every event carries the position in the input it    *)
(* was read from, which is history: the program keeps no such thing.       *)
(***************************************************************************)
EXTENDS EventParsers

CONSTANT Inputs  \* what the command may be given

(* A line of an sshd log that has a date, true year included.              *)
Dated(line) == line.form \in {"record", "other"}

(* _MONTHS knows the month by its usual spelling only; strptime takes any  *)
(* case.                                                                   *)
HasMonth(line) == Dated(line) /\ line.in_months

(* What a parser reads, raw text or a document.                            *)
ItemsOf(i) ==
    CASE i.command = "file"    -> {i.lines[n] : n \in DOMAIN i.lines}
      [] i.command = "payload" -> {i.items[n] : n \in DOMAIN i.items}
      [] i.command = "elastic" -> {i.docs[n].content : n \in DOMAIN i.docs}

ASSUME InputsAssumption ==
    \A i \in Inputs :
        /\ i.command \in {"file", "elastic", "payload"} /\ i.source \in LogTypes
        /\ i.now \in [year : Int, month : Int]
        /\ i.command = "file" =>
              /\ i.lines \in Seq({i.lines[n] : n \in DOMAIN i.lines})
              /\ i.shape \in {"lines", "document", "cut"}
              /\ i.source = "sshd" =>
                    \A n \in DOMAIN i.lines :
                        Dated(i.lines[n]) =>
                            /\ {i.lines[n].year, i.lines[n].month, i.lines[n].day} \subseteq Int
                            /\ i.lines[n].in_months \in BOOLEAN

(* The calendar starts with year 1, and an item is a dict with the fields  *)
(* of an event, one around raw text, or the raw text itself.               *)
ASSUME ItemsAssumption ==
    \A i \in Inputs :
        /\ i.now.year > 0
        /\ i.command = "payload" => i.items \in Seq(ItemsOf(i))
        /\ \A item \in ItemsOf(i) :
              CASE item.form = "normalized" -> IsEvent(item.event)
                                               /\ item.event.ts \in Nat \cup {BadTime}
                [] item.form = "wrapped"    -> IsRaw(i.source, item.raw)
                [] OTHER                    -> IsRaw(i.source, item)

VARIABLES input,   \* the command and its input, never changed
          events,  \* the events loaded so far
          phase    \* "reading", then "read" or "failed"; then "scanned"

Reading(command) == phase = "reading" /\ input.command = command

(* The event parsed from the item at position n, if there is one.          *)
Taken(n, parsed) == [i \in DOMAIN parsed |-> [from |-> n, event |-> parsed[i]]]

End(outcome) == phase' = outcome /\ UNCHANGED <<input, events>>
=============================================================================
