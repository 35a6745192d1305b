---------------------------- MODULE FeedbackStore ----------------------------
(***************************************************************************)
(* The analyst annotations of src/ai_soc_agent/feedback.py and the         *)
(* /feedback endpoints of server.py.  add() takes its timestamp before the *)
(* lock, so requests that overlap may store their records out of time      *)
(* order.  GET /feedback answers from three separate holds of the lock:    *)
(* the page, the total and the summary.  The two filters, by finding and   *)
(* by label, work alike; the label stands for both.                        *)
(***************************************************************************)
EXTENDS Subsequences, SequencesExt

CONSTANTS Writers,     \* worker threads serving POST /feedback
          Labels,      \* FeedbackLabel
          NoFilter,    \* no filter
          MaxRecords,  \* max_records
          PageLimit,   \* limit of the reader's requests
          MaxAdds,     \* bound on the records added
          LastClock    \* bound on the clock, which is not set back

ASSUME FeedbackAssumption ==
    /\ MaxRecords \in Nat \ {0}
    /\ PageLimit \in Nat \ {0}
    /\ NoFilter \notin Labels
    /\ MaxAdds \in Nat /\ LastClock \in Nat

VARIABLES records,  \* _records, the oldest first
          adding,   \* adding[w]: the record w has built and not yet stored
          clock,
          issued,   \* ids given out so far
          place,    \* where the reader is in its request
          label,    \* its filter
          offset,   \* its page
          answer,   \* what the request has read so far
          seen,     \* history: the ids on the pages of this reading
          owed      \* history: the ids that matched at its first page

reader == <<place, label, offset, answer, seen, owed>>
vars == <<records, adding, clock, issued, reader>>

NoRecord == [id |-> 0]
NoAnswer == [page |-> <<>>, total |-> 0, summary |-> 0]

Ids(list) == {list[i].id : i \in DOMAIN list}

Init == /\ records = <<>>
        /\ adding = [w \in Writers |-> NoRecord]
        /\ clock = 0 /\ issued = 0
        /\ place = "idle" /\ offset = 0 /\ answer = NoAnswer
        /\ label \in Labels \cup {NoFilter}
        /\ seen = {} /\ owed = {}

-----------------------------------------------------------------------------
(* POST /feedback *)

(* add(), up to the lock. *)
Build(w, newLabel) ==
    /\ adding[w] = NoRecord
    /\ issued < MaxAdds
    /\ issued' = issued + 1
    /\ adding' = [adding EXCEPT ![w] = [id |-> issued', label |-> newLabel, ts |-> clock]]
    /\ UNCHANGED <<records, clock, reader>>

(* Mutants: a full list loses one record too many; the newest is stored    *)
(* at the front.                                                           *)
TrimmedTwice(list) ==
    IF Len(list) > MaxRecords THEN SubSeq(list, Len(list) - MaxRecords + 2, Len(list)) ELSE list
StoredFirst(record) == <<record>> \o records

Trimmed(list) ==
    IF Len(list) > MaxRecords THEN SubSeq(list, Len(list) - MaxRecords + 1, Len(list)) ELSE list

Stored(record) == Trimmed(Append(records, record))

(* History: a record remembers which others were being added beside it.    *)
Beside(w) ==
    [id |-> adding[w].id, label |-> adding[w].label, ts |-> adding[w].ts,
     beside |-> {adding[v].id : v \in Writers \ {w}}]

Store(w) ==
    /\ adding[w] # NoRecord
    /\ records' = Stored(Beside(w))
    /\ adding' = [adding EXCEPT ![w] = NoRecord]
    /\ UNCHANGED <<clock, issued, reader>>

Tick == clock < LastClock /\ clock' = clock + 1 /\ UNCHANGED <<records, adding, issued, reader>>

-----------------------------------------------------------------------------
(* GET /feedback *)

Matches == {i \in DOMAIN records : label \in {NoFilter, records[i].label}}

OldestFirst == AtIndices(records, Matches)   \* mutant

(* _matching: newest first. *)
Matching == Reverse(AtIndices(records, Matches))

Query ==
    /\ place = "idle"
    /\ LET last == IF offset + PageLimit < Len(Matching) THEN offset + PageLimit ELSE Len(Matching)
       IN answer' = [answer EXCEPT !.page = SubSeq(Matching, offset + 1, last)]
    /\ seen' = seen \cup Ids(answer'.page)
    /\ owed' = IF offset = 0 THEN Ids(Matching) ELSE owed
    /\ place' = "queried"
    /\ UNCHANGED <<records, adding, clock, issued, label, offset>>

Count ==
    /\ place = "queried"
    /\ answer' = [answer EXCEPT !.total = Len(Matching)]
    /\ place' = "counted"
    /\ UNCHANGED <<records, adding, clock, issued, label, offset, seen, owed>>

(* The summary counts each label over all records, whatever the filter.    *)
Summary ==
    /\ place = "counted"
    /\ answer' = [answer EXCEPT !.summary = Len(records)]
    /\ place' = "answered"
    /\ UNCHANGED <<records, adding, clock, issued, label, offset, seen, owed>>

(* The reader asks for page after page until one is not full. *)
NextPage ==
    /\ place = "answered"
    /\ Len(answer.page) = PageLimit
    /\ place' = "idle"
    /\ offset' = offset + PageLimit
    /\ answer' = NoAnswer
    /\ UNCHANGED <<records, adding, clock, issued, label, seen, owed>>

ReadAgain(newLabel) ==
    /\ place = "answered"
    /\ Len(answer.page) < PageLimit
    /\ place' = "idle"
    /\ label' = newLabel
    /\ offset' = 0 /\ answer' = NoAnswer
    /\ seen' = {} /\ owed' = {}
    /\ UNCHANGED <<records, adding, clock, issued>>

Next == \/ \E w \in Writers : Store(w) \/ \E l \in Labels : Build(w, l)
        \/ Tick
        \/ Query \/ Count \/ Summary \/ NextPage
        \/ \E l \in Labels \cup {NoFilter} : ReadAgain(l)

Spec == Init /\ [][Next]_vars

-----------------------------------------------------------------------------
(* Properties *)

(* Pages read one after another while records are added and evicted miss   *)
(* none that was there at the first page and is still stored: what arrives *)
(* in between shifts records to later pages, and eviction takes them from  *)
(* the last one.  Newest-first order is what makes offsets safe.           *)
PagingMissesNothing ==
    place = "answered" /\ Len(answer.page) < PageLimit => owed \cap Ids(records) \subseteq seen

(* The three readings of one unfiltered answer fit together although each  *)
(* is of another moment: the page is no longer than the total, the total   *)
(* no larger than the summary's, and that within the bound of the list.    *)
AnswerCoherent ==
    place = "answered" /\ label = NoFilter =>
        /\ offset + Len(answer.page) <= answer.total \/ answer.page = <<>>
        /\ answer.total <= answer.summary
        /\ answer.summary <= MaxRecords

(* "Newest-first" holds up to overlap: a record stands behind one with a    *)
(* later timestamp only if it was already being added when that was stored. *)
NewestUpToOverlap ==
    \A i, j \in DOMAIN records :
        i < j /\ records[i].ts > records[j].ts => records[j].id \in records[i].beside
=============================================================================
