---------------------------- MODULE ElasticSource ----------------------------
(***************************************************************************)
(* fetch_events of src/ai_soc_agent/sources/elastic.py: the documents of a *)
(* time window pulled page by page with from and size, in order of         *)
(* @timestamp, one request per step.  Nothing holds the index still, so    *)
(* documents come and go between the requests.  input.docs is every        *)
(* document there may be; one is [sort |-> its @timestamp, content |-> the *)
(* item in it].                                                            *)
(***************************************************************************)
EXTENDS EventSource, FiniteSets

CONSTANT MaxChanges  \* bound on documents that come or go during a load

ASSUME PagingAssumption ==
    /\ MaxChanges \in Nat
    /\ \A i \in Inputs :
          i.command = "elastic" =>
              /\ i.page_size \in Nat \ {0} /\ i.max_pages \in Nat \ {0}
              /\ i.docs \in Seq({i.docs[n] : n \in DOMAIN i.docs})
              /\ \A n \in DOMAIN i.docs : i.docs[n].sort \in Int

VARIABLES index,     \* the documents that match the query now
          offset,    \* "from" of the next request
          pages,     \* pages fetched
          inserted,  \* history: the documents that came during the load
          removed    \* history: those that went

indexVars == <<index, inserted, removed>>
pullVars == <<indexVars, offset, pages>>

Docs == IF input.command = "elastic" THEN input.docs ELSE <<>>

PullInit ==
    /\ index \in SUBSET DOMAIN Docs
    /\ offset = 0 /\ pages = 0
    /\ inserted = {} /\ removed = {}

-----------------------------------------------------------------------------
(* The index.  Documents with the same @timestamp come in any order, and   *)
(* not the same one each time.                                             *)

Orders ==
    {order \in [1..Cardinality(index) -> index] :
        \A i, j \in DOMAIN order :
            i < j => order[i] # order[j] /\ Docs[order[i]].sort <= Docs[order[j]].sort}

Pull == Reading("elastic")

DocumentComes(doc) ==
    /\ Pull /\ Cardinality(inserted) + Cardinality(removed) < MaxChanges
    /\ doc \notin index \cup removed
    /\ index' = index \cup {doc} /\ inserted' = inserted \cup {doc}
    /\ UNCHANGED <<input, events, phase, offset, pages, removed>>

DocumentGoes(doc) ==
    /\ Pull /\ Cardinality(inserted) + Cardinality(removed) < MaxChanges
    /\ doc \in index
    /\ index' = index \ {doc} /\ removed' = removed \cup {doc}
    /\ UNCHANGED <<input, events, phase, offset, pages, inserted>>

-----------------------------------------------------------------------------
(* A hit *)

(* _event_from_hit: a document with the normalized fields and a timestamp  *)
(* that parses is taken as it is; the rest is parsed as raw text, an sshd  *)
(* line in the current year.                                               *)
EventFromHit(item) ==
    IF item.form = "normalized" /\ item.event.ts # BadTime THEN <<item.event>>
    ELSE ParseRaw(input.source, item, input.now.year)

HitRaises(item) == DateRaises(input.source, item, input.now.year)

-----------------------------------------------------------------------------
(* Requests *)

(* Mutant: the next page starts at the last hit of this one. *)
AdvancedShort(hits) == offset + Len(hits) - 1

Advanced(hits) == offset + Len(hits)

(* Mutant: no bound on the pages. *)
OutcomeUnbounded(hits) ==
    IF Len(hits) < input.page_size THEN "read" ELSE "reading"

(* A page that is not full is the last; a full one that is the last        *)
(* allowed fails the load.                                                 *)
Outcome(hits) ==
    CASE Len(hits) < input.page_size   -> "read"
      [] pages + 1 = input.max_pages   -> "failed"
      [] OTHER                         -> "reading"

FetchPage ==
    /\ Pull
    /\ \E order \in Orders :
         LET hits == SubSeq(order, offset + 1, Min({offset + input.page_size, Len(order)}))
             loaded == [i \in DOMAIN hits |-> Taken(hits[i], EventFromHit(Docs[hits[i]].content))]
         IN /\ \A i \in DOMAIN hits : ~HitRaises(Docs[hits[i]].content)
            /\ events' = events \o FlattenSeq(loaded)
            /\ offset' = Advanced(hits)
            /\ pages' = pages + 1
            /\ phase' = Outcome(hits)
    /\ UNCHANGED <<input, indexVars>>

(* The request fails, its answer is not what it should be, or a date in it *)
(* is not one: what was fetched before is not used.                        *)
RequestFails ==
    /\ Pull
    /\ End("failed") /\ UNCHANGED pullVars

PullEvents == \/ \E doc \in DOMAIN Docs : DocumentComes(doc) \/ DocumentGoes(doc)
              \/ FetchPage
              \/ RequestFails
=============================================================================
