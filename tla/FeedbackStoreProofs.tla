------------------------- MODULE FeedbackStoreProofs -------------------------
(***************************************************************************)
(* Proofs about FeedbackStore for every number of writers and every bound. *)
(***************************************************************************)
EXTENDS FeedbackStore, SubsequencesProofs

BuiltRecord == [id : Nat \ {0}, label : Labels, ts : Nat]
StoredRecord == [id : Nat \ {0}, label : Labels, ts : Nat, beside : SUBSET Nat]

(* A record being added was built before now, and every record stored with *)
(* a later timestamp remembers it.                                         *)
AddingRemembered ==
    \A w \in Writers :
        adding[w] # NoRecord =>
            /\ adding[w].ts <= clock
            /\ \A i \in DOMAIN records :
                  records[i].ts > adding[w].ts => adding[w].id \in records[i].beside

StoreInv ==
    /\ issued \in Nat /\ clock \in Nat
    /\ adding \in [Writers -> BuiltRecord \cup {NoRecord}]
    /\ records \in Seq(StoredRecord)
    /\ \A i \in DOMAIN records : records[i].ts <= clock
    /\ AddingRemembered
    /\ NewestUpToOverlap

-----------------------------------------------------------------------------

(* The bound takes records from the old end and leaves the order alone.    *)
LEMMA TrimmedKeepsOrder ==
    ASSUME NEW S, NEW list \in Seq(S)
    PROVE  /\ Trimmed(list) \in Seq(S)
           /\ \E k \in Nat : \A i \in DOMAIN Trimmed(list) :
                 i \in Nat /\ i + k \in DOMAIN list /\ Trimmed(list)[i] = list[i + k]
<1>1. DOMAIN list = 1..Len(list) /\ Len(list) \in Nat
  OBVIOUS
<1>2. CASE Len(list) > MaxRecords
  <2> DEFINE k == Len(list) - MaxRecords
             cut == SubSeq(list, k + 1, Len(list))
  <2>1. k \in Nat /\ MaxRecords \in Nat
    BY <1>1, <1>2, FeedbackAssumption
  <2>2. Trimmed(list) = cut
    BY <1>2 DEF Trimmed
  <2>3. cut \in Seq(S)
    BY <1>1, <2>1
  <2>4. \A i \in DOMAIN cut : i \in Nat /\ i + k \in DOMAIN list /\ cut[i] = list[i + k]
    BY <1>1, <2>1
  <2> HIDE DEF cut, k
  <2> QED BY <2>1, <2>2, <2>3, <2>4
<1>3. CASE ~(Len(list) > MaxRecords)
  <2>1. Trimmed(list) = list
    BY <1>3 DEF Trimmed
  <2>2. \A i \in DOMAIN list : i \in Nat /\ i + 0 \in DOMAIN list /\ list[i] = list[i + 0]
    BY <1>1
  <2> QED BY <2>1, <2>2
<1> QED BY <1>2, <1>3

LEMMA StampsAreTimes ==
    ASSUME StoreInv
    PROVE  /\ \A i \in DOMAIN records : records[i].ts \in Nat
           /\ \A w \in Writers : adding[w] # NoRecord => adding[w].ts \in Nat
<1>1. records \in Seq(StoredRecord)
  BY DEF StoreInv
<1>2. \A i \in DOMAIN records : records[i] \in StoredRecord
  BY <1>1
<1>3. \A w \in Writers : adding[w] # NoRecord => adding[w] \in BuiltRecord
  BY DEF StoreInv
<1> QED BY <1>2, <1>3 DEF StoredRecord, BuiltRecord

LEMMA StoreKeeps ==
    ASSUME StoreInv, NEW w \in Writers, Store(w)
    PROVE  StoreInv'
<1> DEFINE beside == {adding[v].id : v \in Writers \ {w}}
           r == Beside(w)
           list == Append(records, r)
<1>1. adding[w] \in BuiltRecord /\ beside \in SUBSET Nat
  BY DEF StoreInv, Store, BuiltRecord, NoRecord
<1>2. r \in StoredRecord /\ r.id = adding[w].id /\ r.ts = adding[w].ts /\ r.beside = beside
  BY <1>1 DEF Beside, BuiltRecord, StoredRecord
<1>3. /\ records' = Trimmed(list) /\ adding' = [adding EXCEPT ![w] = NoRecord]
      /\ clock' = clock /\ issued' = issued
  BY DEF Store, Stored
<1>4. /\ r.ts <= clock /\ \A i \in DOMAIN records : records[i].ts > r.ts => r.id \in records[i].beside
  BY <1>2 DEF StoreInv, AddingRemembered, Store
<1>5. \A v \in Writers \ {w} : adding'[v] = adding[v] /\ adding[v].id \in r.beside
  BY <1>2, <1>3 DEF StoreInv
<1>6. adding' \in [Writers -> BuiltRecord \cup {NoRecord}] /\ adding'[w] = NoRecord
  BY <1>3 DEF StoreInv
<1> HIDE DEF r
<1>7. /\ list \in Seq(StoredRecord) /\ Len(list) = Len(records) + 1 /\ DOMAIN list = 1..Len(list)
      /\ \A i \in DOMAIN records : list[i] = records[i]
      /\ list[Len(records) + 1] = r
      /\ DOMAIN records = 1..Len(records) /\ Len(records) \in Nat
  BY <1>2 DEF StoreInv
<1> HIDE DEF list
<1>8. \A i \in DOMAIN list : i \in DOMAIN records \/ i = Len(records) + 1
  BY <1>7
<1>9. \A i \in DOMAIN list : list[i].ts <= clock
  BY <1>4, <1>7, <1>8 DEF StoreInv
<1>10. \A i, j \in DOMAIN list :
          i < j /\ list[i].ts > list[j].ts => list[j].id \in list[i].beside
  <2> SUFFICES ASSUME NEW i \in DOMAIN list, NEW j \in DOMAIN list, i < j, list[i].ts > list[j].ts
               PROVE  list[j].id \in list[i].beside
    OBVIOUS
  <2>1. i \in DOMAIN records
    BY <1>7, <1>8
  <2>2. CASE j \in DOMAIN records
    BY <1>7, <2>1, <2>2 DEF StoreInv, NewestUpToOverlap
  <2>3. CASE j = Len(records) + 1
    BY <1>4, <1>7, <2>1, <2>3
  <2> QED BY <1>8, <2>2, <2>3
<1>11. \A v \in Writers \ {w} : adding[v] # NoRecord =>
          \A i \in DOMAIN list : list[i].ts > adding[v].ts => adding[v].id \in list[i].beside
  BY <1>5, <1>7, <1>8 DEF StoreInv, AddingRemembered
<1>12. PICK k \in Nat : \A i \in DOMAIN records' :
          i \in Nat /\ i + k \in DOMAIN list /\ records'[i] = list[i + k]
  <2>1. \E k \in Nat : \A i \in DOMAIN Trimmed(list) :
           i \in Nat /\ i + k \in DOMAIN list /\ Trimmed(list)[i] = list[i + k]
    BY <1>7, TrimmedKeepsOrder
  <2> QED BY ONLY <1>3, <2>1
<1>13. records' \in Seq(StoredRecord)
  BY <1>3, <1>7, TrimmedKeepsOrder
<1>14. \A i \in DOMAIN records' : records'[i].ts <= clock'
  BY <1>3, <1>9, <1>12
<1>15. AddingRemembered'
  BY <1>3, <1>5, <1>6, <1>11, <1>12 DEF StoreInv, AddingRemembered
<1>16. NewestUpToOverlap'
  <2> SUFFICES ASSUME NEW i \in DOMAIN records', NEW j \in DOMAIN records',
                      i < j, records'[i].ts > records'[j].ts
               PROVE  records'[j].id \in records'[i].beside
    BY DEF NewestUpToOverlap
  <2>1. i + k < j + k /\ i + k \in DOMAIN list /\ j + k \in DOMAIN list
    BY <1>12
  <2> QED BY <1>10, <1>12, <2>1
<1> QED BY <1>3, <1>6, <1>13, <1>14, <1>15, <1>16 DEF StoreInv

(* A record is built with the present, which no stored timestamp exceeds.  *)
LEMMA BuildKeeps ==
    ASSUME StoreInv, NEW w \in Writers, NEW l \in Labels, Build(w, l)
    PROVE  StoreInv'
<1>1. /\ issued' = issued + 1 /\ records' = records /\ clock' = clock
      /\ adding' = [adding EXCEPT ![w] = [id |-> issued', label |-> l, ts |-> clock]]
  BY DEF Build
<1>2. [id |-> issued', label |-> l, ts |-> clock] \in BuiltRecord /\ issued' \in Nat
  BY <1>1 DEF StoreInv, BuiltRecord
<1>3. adding' \in [Writers -> BuiltRecord \cup {NoRecord}]
  BY <1>1, <1>2 DEF StoreInv
<1>4. adding'[w].ts = clock /\ \A v \in Writers \ {w} : adding'[v] = adding[v]
  BY <1>1 DEF StoreInv
<1>5. \A i \in DOMAIN records : records[i].ts \in Nat /\ ~(records[i].ts > clock)
  BY StampsAreTimes DEF StoreInv
<1>6. AddingRemembered'
  <2> SUFFICES ASSUME NEW v \in Writers, adding'[v] # NoRecord
               PROVE  /\ adding'[v].ts <= clock
                      /\ \A i \in DOMAIN records :
                            records[i].ts > adding'[v].ts => adding'[v].id \in records[i].beside
    BY <1>1 DEF AddingRemembered
  <2>1. CASE v = w
    BY <1>4, <1>5, <2>1 DEF StoreInv
  <2>2. CASE v # w
    BY <1>4, <2>2 DEF StoreInv, AddingRemembered
  <2> QED BY <2>1, <2>2
<1>7. NewestUpToOverlap'
  BY <1>1 DEF StoreInv, NewestUpToOverlap
<1> QED BY <1>1, <1>2, <1>3, <1>6, <1>7 DEF StoreInv

LEMMA TickKeeps ==
    ASSUME StoreInv, Tick
    PROVE  StoreInv'
<1>1. clock' = clock + 1 /\ records' = records /\ adding' = adding /\ issued' = issued
  BY DEF Tick
<1>2. /\ \A i \in DOMAIN records : records[i].ts \in Nat
      /\ \A w \in Writers : adding[w] # NoRecord => adding[w].ts \in Nat
  BY StampsAreTimes
<1>3. AddingRemembered' /\ \A i \in DOMAIN records : records[i].ts <= clock'
  BY <1>1, <1>2 DEF StoreInv, AddingRemembered
<1> QED BY <1>1, <1>3 DEF StoreInv, NewestUpToOverlap

LEMMA ReaderKeeps ==
    ASSUME StoreInv, UNCHANGED <<records, adding, clock, issued>>
    PROVE  StoreInv'
  BY DEF StoreInv, AddingRemembered, NewestUpToOverlap

LEMMA StoreInvInductive == StoreInv /\ [Next]_vars => StoreInv'
<1> SUFFICES ASSUME StoreInv, [Next]_vars
             PROVE  StoreInv'
  OBVIOUS
<1>1. ASSUME NEW w \in Writers, Store(w) \/ \E l \in Labels : Build(w, l)
      PROVE  StoreInv'
  BY <1>1, StoreKeeps, BuildKeeps
<1>2. CASE Tick
  BY <1>2, TickKeeps
<1>3. CASE Query \/ Count \/ Summary \/ NextPage \/ \E l \in Labels \cup {NoFilter} : ReadAgain(l)
  BY <1>3, ReaderKeeps DEF Query, Count, Summary, NextPage, ReadAgain
<1>4. CASE UNCHANGED vars
  BY <1>4, ReaderKeeps DEF vars
<1> QED BY <1>1, <1>2, <1>3, <1>4 DEF Next

THEOREM StoreInvariance == Spec => []StoreInv
<1>1. Init => StoreInv
  BY DEF Init, StoreInv, AddingRemembered, NewestUpToOverlap
<1> QED BY <1>1, StoreInvInductive, PTL DEF Spec

(* Whatever the number of requests that overlap, and whatever the bound of *)
(* the list: a record stands behind one with a later timestamp only if it  *)
(* was being added when that one was stored (feedback.py, add).            *)
THEOREM OutOfOrderOnlyByOverlap == Spec => []NewestUpToOverlap
<1>1. StoreInv => NewestUpToOverlap
  BY DEF StoreInv
<1> QED BY <1>1, StoreInvariance, PTL
-----------------------------------------------------------------------------
(* What one reading owes.                                                  *)

(* An id is given to one record: what is still being added is neither      *)
(* stored nor owed.                                                        *)
IdsOnce ==
    /\ \A i, j \in DOMAIN records : records[i].id = records[j].id => i = j
    /\ \A i \in DOMAIN records : records[i].id <= issued
    /\ \A x \in owed : x <= issued
    /\ owed \subseteq Nat
    /\ \A w \in Writers :
          adding[w] # NoRecord =>
              /\ adding[w].id <= issued
              /\ adding[w].id \notin owed
              /\ \A i \in DOMAIN records : records[i].id # adding[w].id
              /\ \A v \in Writers \ {w} : adding[v] # NoRecord => adding[v].id # adding[w].id

(* The matching records the reader sees before record i. *)
NewerMatches(i) == {k \in Matches : k > i}

(* A record that is owed and has not been on a page is behind everything   *)
(* the pages so far have shown.                                            *)
UnseenIsAhead ==
    \A i \in DOMAIN records :
        records[i].id \in owed \ seen =>
            /\ i \in Matches
            /\ \A n \in Nat : n = (IF place = "idle" THEN offset ELSE offset + PageLimit)
                    => Cardinality(NewerMatches(i)) >= n
            /\ place # "idle" => Len(answer.page) = PageLimit

ReaderTypes ==
    /\ place \in {"idle", "queried", "counted", "answered"}
    /\ offset \in Nat
    /\ Len(records) <= MaxRecords
    /\ answer.page \in Seq(StoredRecord)
    /\ Len(answer.page) <= PageLimit
    /\ answer = [page |-> answer.page, total |-> answer.total, summary |-> answer.summary]
    /\ answer.total \in Nat /\ answer.summary \in Nat

(* Without a filter, each reading is at least as long as the one before.   *)
ReadingsGrow ==
    label = NoFilter =>
        /\ place = "queried" =>
              \/ offset + Len(answer.page) <= Len(records)
              \/ answer.page = <<>>
        /\ place \in {"counted", "answered"} =>
              \/ offset + Len(answer.page) <= answer.total
              \/ answer.page = <<>>
        /\ place = "counted" => answer.total <= Len(records)
        /\ place = "answered" => answer.total <= answer.summary /\ answer.summary <= MaxRecords

ReaderInv == ReaderTypes /\ ReadingsGrow /\ IdsOnce /\ UnseenIsAhead

-----------------------------------------------------------------------------
(* What the list and its filtered view look like.                          *)

(* The bound keeps a suffix, and a full one.                               *)
LEMMA TrimmedIsSuffix ==
    ASSUME NEW S, NEW list \in Seq(S)
    PROVE  \E k \in Nat :
              /\ Trimmed(list) \in Seq(S)
              /\ Len(Trimmed(list)) + k = Len(list)
              /\ Len(Trimmed(list)) <= MaxRecords
              /\ k = 0 \/ Len(Trimmed(list)) = MaxRecords
              /\ \A i \in 1..Len(Trimmed(list)) : Trimmed(list)[i] = list[i + k]
<1>1. Len(list) \in Nat /\ MaxRecords \in Nat
  BY FeedbackAssumption
<1>2. CASE Len(list) > MaxRecords
  <2> DEFINE k == Len(list) - MaxRecords
             cut == SubSeq(list, k + 1, Len(list))
  <2>1. k \in Nat /\ MaxRecords + k = Len(list) /\ Trimmed(list) = cut
    BY <1>1, <1>2 DEF Trimmed
  <2>2. cut \in Seq(S) /\ Len(cut) = MaxRecords /\ \A i \in 1..MaxRecords : cut[i] = list[i + k]
    <3> HIDE DEF k
    <3> QED BY <1>1, <2>1
  <2> HIDE DEF cut, k
  <2> QED BY <1>1, <2>1, <2>2
<1>3. CASE ~(Len(list) > MaxRecords)
  BY <1>1, <1>3 DEF Trimmed
<1> QED BY <1>2, <1>3

LEMMA FilterIndices ==
    ASSUME records \in Seq(StoredRecord)
    PROVE  /\ Matches \in SUBSET DOMAIN records /\ Matches \in SUBSET Nat
           /\ IsFiniteSet(Matches) /\ Cardinality(Matches) \in Nat
           /\ Cardinality(Matches) <= Len(records)
           /\ label = NoFilter => Cardinality(Matches) = Len(records)
           /\ \A i \in DOMAIN records : /\ IsFiniteSet(NewerMatches(i))
                                        /\ Cardinality(NewerMatches(i)) \in Nat
<1>1. DOMAIN records = 1..Len(records) /\ Len(records) \in Nat
  OBVIOUS
<1>2. Matches \in SUBSET DOMAIN records /\ Matches \in SUBSET Nat
  BY <1>1 DEF Matches
<1>3. IsFiniteSet(1..Len(records)) /\ Cardinality(1..Len(records)) = Len(records)
  <2>1. 1 \in Int /\ Len(records) \in Int /\ (1 > Len(records) => Len(records) = 0)
    BY <1>1
  <2>2. /\ IsFiniteSet(1..Len(records))
        /\ Cardinality(1..Len(records)) = IF 1 > Len(records) THEN 0 ELSE Len(records) - 1 + 1
    BY <2>1, FS_Interval
  <2> QED BY <2>1, <2>2
<1>4. IsFiniteSet(Matches) /\ Cardinality(Matches) <= Len(records) /\ Cardinality(Matches) \in Nat
  BY <1>1, <1>2, <1>3, FS_Subset, FS_CardinalityType
<1>5. label = NoFilter => Matches = 1..Len(records)
  BY <1>1 DEF Matches
<1>6. \A i \in DOMAIN records : /\ IsFiniteSet(NewerMatches(i))
                                /\ Cardinality(NewerMatches(i)) \in Nat
  <2>1. \A i \in DOMAIN records : NewerMatches(i) \in SUBSET Matches
    BY DEF NewerMatches
  <2> QED BY <1>4, <2>1, FS_Subset, FS_CardinalityType
<1> QED BY <1>2, <1>3, <1>4, <1>5, <1>6

(* The same of the next state. *)
FilterFinite == /\ Matches \in SUBSET Nat /\ IsFiniteSet(Matches)
                /\ \A i \in DOMAIN records : /\ IsFiniteSet(NewerMatches(i))
                                             /\ Cardinality(NewerMatches(i)) \in Nat

LEMMA FilterFiniteNext == (records \in Seq(StoredRecord))' => FilterFinite'
<1>1. records \in Seq(StoredRecord) => FilterFinite
  BY FilterIndices DEF FilterFinite
<1> QED BY <1>1, PTL

(* The matching records newest first: record i comes right after the       *)
(* matching records that are newer.                                        *)
LEMMA NewestFirst ==
    ASSUME records \in Seq(StoredRecord)
    PROVE  /\ Matching \in Seq(StoredRecord)
           /\ Len(Matching) = Cardinality(Matches)
           /\ \A p \in 1..Len(Matching) : \E i \in Matches : Matching[p] = records[i]
           /\ \A i \in Matches :
                 /\ Cardinality(NewerMatches(i)) + 1 \in 1..Len(Matching)
                 /\ Matching[Cardinality(NewerMatches(i)) + 1] = records[i]
<1> DEFINE c == Cardinality(Matches)
           at == AtIndices(records, Matches)
<1>1. /\ Matches \in SUBSET DOMAIN records /\ Matches \in SUBSET Nat
      /\ IsFiniteSet(Matches) /\ c \in Nat
      /\ \A i \in DOMAIN records : /\ IsFiniteSet(NewerMatches(i))
                                   /\ Cardinality(NewerMatches(i)) \in Nat
  BY FilterIndices
<1>2. /\ at \in Seq(StoredRecord) /\ Len(at) = c
      /\ \A n \in 1..c : Nth(Matches, n) \in Matches /\ at[n] = records[Nth(Matches, n)]
      /\ \A i \in Matches : Rank(Matches, i) \in 1..c /\ at[Rank(Matches, i)] = records[i]
  BY <1>1, SubsequenceAtIndices
<1>3. Matching = Reverse(at)
  BY DEF Matching
<1> HIDE DEF at
<1>4. Reverse(at) = [p \in 1..c |-> at[(c - p) + 1]]
  BY <1>2 DEF Reverse
<1>5. Matching \in Seq(StoredRecord) /\ Len(Matching) = c
  <2> HIDE DEF c
  <2>1. \A p \in 1..c : (c - p) + 1 \in 1..Len(at) /\ at[(c - p) + 1] \in StoredRecord
    BY <1>1, <1>2
  <2> QED BY <1>1, <1>3, <1>4, <2>1
<1>6. ASSUME NEW p \in 1..Len(Matching)
      PROVE  \E i \in Matches : Matching[p] = records[i]
  <2> HIDE DEF c
  <2>1. (c - p) + 1 \in 1..c
    BY <1>1, <1>5
  <2>2. Matching[p] = at[(c - p) + 1]
    BY <1>3, <1>4, <1>5
  <2> QED BY <1>2, <2>1, <2>2, ZenonT(30)
<1>7. ASSUME NEW i \in Matches
      PROVE  /\ Cardinality(NewerMatches(i)) + 1 \in 1..c
             /\ Matching[Cardinality(NewerMatches(i)) + 1] = records[i]
  <2> DEFINE older == {k \in Matches : k <= i}
             newer == NewerMatches(i)
  <2>1. Rank(Matches, i) = Cardinality(older)
    BY DEF Rank
  <2>2. older \in SUBSET Matches /\ newer = Matches \ older
    BY <1>1 DEF NewerMatches
  <2>3. Cardinality(newer) = c - Cardinality(Matches \cap older)
    <3> HIDE DEF older, newer
    <3> QED BY <1>1, <2>2, FS_Difference
  <2>4. Matches \cap older = older
    BY <2>2
  <2>5. Cardinality(newer) = c - Rank(Matches, i) /\ Rank(Matches, i) \in 1..c
    BY <1>2, <2>1, <2>3, <2>4
  <2> HIDE DEF c, newer
  <2>6. Cardinality(newer) + 1 \in 1..c /\ (c - (Cardinality(newer) + 1)) + 1 = Rank(Matches, i)
    BY <1>1, <2>5
  <2>7. Matching[Cardinality(newer) + 1] = at[Rank(Matches, i)]
    BY <1>3, <1>4, <2>6
  <2> QED BY <1>2, <2>6, <2>7 DEF newer
<1> QED BY <1>5, <1>6, <1>7

-----------------------------------------------------------------------------
(* Storing a record moves the others back and loses only the oldest.       *)

LEMMA IdsAreNumbers ==
    ASSUME StoreInv
    PROVE  /\ \A i \in DOMAIN records : records[i] \in StoredRecord /\ records[i].id \in Nat
           /\ \A w \in Writers : adding[w] # NoRecord => adding[w].id \in Nat
           /\ DOMAIN records = 1..Len(records) /\ Len(records) \in Nat
<1>1. records \in Seq(StoredRecord)
  BY DEF StoreInv
<1>2. \A i \in DOMAIN records : records[i] \in StoredRecord
  BY <1>1
<1>3. \A w \in Writers : adding[w] # NoRecord => adding[w] \in BuiltRecord
  BY DEF StoreInv
<1> QED BY <1>1, <1>2, <1>3 DEF StoredRecord, BuiltRecord

(* Where each record of the list after a store comes from.                 *)
LEMMA StoreShifts ==
    ASSUME StoreInv, NEW w \in Writers, Store(w)
    PROVE  \E k \in Nat :
              /\ records' \in Seq(StoredRecord)
              /\ Len(records') + k = Len(records) + 1
              /\ Len(records') <= MaxRecords
              /\ k = 0 \/ Len(records') = MaxRecords
              /\ \A i \in 1..Len(records') :
                    \/ i + k \in 1..Len(records) /\ records'[i] = records[i + k]
                    \/ i + k = Len(records) + 1 /\ records'[i].id = adding[w].id
<1> DEFINE r == Beside(w)
           list == Append(records, r)
<1>1. records \in Seq(StoredRecord) /\ Len(records) \in Nat
  BY DEF StoreInv
<1>2. r \in StoredRecord /\ r.id = adding[w].id
  <2>1. adding[w] \in BuiltRecord
    BY DEF StoreInv, Store
  <2>2. {adding[v].id : v \in Writers \ {w}} \in SUBSET Nat
    BY DEF StoreInv, BuiltRecord, NoRecord
  <2> QED BY <2>1, <2>2 DEF Beside, BuiltRecord, StoredRecord
<1>3. records' = Trimmed(list)
  BY DEF Store, Stored
<1> HIDE DEF r
<1>4. /\ list \in Seq(StoredRecord) /\ Len(list) = Len(records) + 1
      /\ \A i \in 1..Len(records) : list[i] = records[i]
      /\ list[Len(records) + 1] = r
  BY <1>1, <1>2
<1> HIDE DEF list
<1>5. PICK k \in Nat :
          /\ Trimmed(list) \in Seq(StoredRecord)
          /\ Len(Trimmed(list)) + k = Len(list)
          /\ Len(Trimmed(list)) <= MaxRecords
          /\ k = 0 \/ Len(Trimmed(list)) = MaxRecords
          /\ \A i \in 1..Len(Trimmed(list)) : Trimmed(list)[i] = list[i + k]
  <2>1. list \in Seq(StoredRecord)
    BY <1>4
  <2> QED BY ONLY <2>1, TrimmedIsSuffix
<1>6. ASSUME NEW i \in 1..Len(records')
      PROVE  \/ i + k \in 1..Len(records) /\ records'[i] = records[i + k]
             \/ i + k = Len(records) + 1 /\ records'[i].id = adding[w].id
  <2>1. Len(records') \in Nat /\ i + k \in 1..(Len(records) + 1) /\ records'[i] = list[i + k]
    BY <1>1, <1>3, <1>4, <1>5
  <2>2. i + k \in 1..Len(records) \/ i + k = Len(records) + 1
    BY <1>1, <2>1
  <2> QED BY <1>2, <1>4, <2>1, <2>2
<1> QED BY <1>3, <1>4, <1>5, <1>6

LEMMA StoreReader ==
    ASSUME StoreInv, ReaderInv, NEW w \in Writers, Store(w)
    PROVE  ReaderInv'
<1>1. PICK k \in Nat :
          /\ records' \in Seq(StoredRecord)
          /\ Len(records') + k = Len(records) + 1
          /\ Len(records') <= MaxRecords
          /\ k = 0 \/ Len(records') = MaxRecords
          /\ \A i \in 1..Len(records') :
                \/ i + k \in 1..Len(records) /\ records'[i] = records[i + k]
                \/ i + k = Len(records) + 1 /\ records'[i].id = adding[w].id
  BY StoreShifts
<1>2. /\ adding[w] # NoRecord /\ adding' = [adding EXCEPT ![w] = NoRecord]
      /\ UNCHANGED <<clock, issued, reader>>
  BY DEF Store
<1>3. /\ \A i \in DOMAIN records : records[i].id \in Nat
      /\ \A v \in Writers : adding[v] # NoRecord => adding[v].id \in Nat
      /\ DOMAIN records = 1..Len(records) /\ Len(records) \in Nat
      /\ DOMAIN records' = 1..Len(records') /\ Len(records') \in Nat
  BY <1>1, IdsAreNumbers
<1>4. adding'[w] = NoRecord /\ \A v \in Writers \ {w} : adding'[v] = adding[v]
  BY <1>2 DEF StoreInv
<1>5. Len(records) <= Len(records')
  BY <1>1, <1>3 DEF ReaderInv, ReaderTypes
<1>6. ReaderTypes'
  BY <1>1, <1>2 DEF ReaderInv, ReaderTypes, reader
<1>7. ReadingsGrow'
  <2>1. offset \in Nat /\ Len(answer.page) \in Nat /\ answer.total \in Nat
    BY DEF ReaderInv, ReaderTypes
  <2>2. UNCHANGED <<place, label, offset, answer>>
    BY <1>2 DEF reader
  <2>3. ReadingsGrow
    BY DEF ReaderInv
  <2> QED BY ONLY <1>3, <1>5, <2>1, <2>2, <2>3 DEF ReadingsGrow
<1>8. IdsOnce'
  <2>1. UNCHANGED <<owed, issued>>
    BY <1>2 DEF reader
  <2>2. ASSUME NEW i \in DOMAIN records'
        PROVE  records'[i].id <= issued
    BY <1>1, <1>2, <1>3 DEF ReaderInv, IdsOnce
  <2>3. ASSUME NEW i \in DOMAIN records', NEW j \in DOMAIN records', records'[i].id = records'[j].id
        PROVE  i = j
    <3>1. CASE i + k = Len(records) + 1 /\ j + k = Len(records) + 1
      BY <1>3, <3>1
    <3>2. CASE i + k \in 1..Len(records) /\ j + k \in 1..Len(records)
      <4>1. records'[i] = records[i + k] /\ records'[j] = records[j + k]
        BY <1>1, <1>3, <3>2
      <4>2. i + k = j + k
        BY <1>3, <2>3, <3>2, <4>1 DEF ReaderInv, IdsOnce
      <4> QED BY <1>3, <4>2
    <3>3. CASE i + k \in 1..Len(records) /\ j + k = Len(records) + 1
      BY <1>1, <1>2, <1>3, <2>3, <3>3 DEF ReaderInv, IdsOnce
    <3>4. CASE j + k \in 1..Len(records) /\ i + k = Len(records) + 1
      BY <1>1, <1>2, <1>3, <2>3, <3>4, SMTT(30) DEF ReaderInv, IdsOnce
    <3> QED BY <1>1, <1>3, <3>1, <3>2, <3>3, <3>4
  <2>4. ASSUME NEW v \in Writers, adding'[v] # NoRecord
        PROVE  /\ adding'[v].id <= issued
               /\ adding'[v].id \notin owed
               /\ \A i \in DOMAIN records' : records'[i].id # adding'[v].id
               /\ \A u \in Writers \ {v} : adding'[u] # NoRecord => adding'[u].id # adding'[v].id
    <3>1. v # w /\ adding'[v] = adding[v]
      BY <1>4, <2>4
    <3>2. \A i \in DOMAIN records' : records'[i].id # adding[v].id
      BY <1>1, <1>2, <1>3, <2>4, <3>1 DEF ReaderInv, IdsOnce
    <3> QED BY <1>4, <2>4, <3>1, <3>2 DEF ReaderInv, IdsOnce
  <2> QED BY <2>1, <2>2, <2>3, <2>4 DEF ReaderInv, IdsOnce
<1>9. UnseenIsAhead'
  <2>1. UNCHANGED <<place, offset, answer, label, owed, seen>>
    BY <1>2 DEF reader
  <2> SUFFICES ASSUME NEW i \in DOMAIN records', records'[i].id \in owed \ seen
               PROVE  /\ i \in Matches'
                      /\ \A n \in Nat : n = (IF place = "idle" THEN offset ELSE offset + PageLimit)
                            => Cardinality(NewerMatches(i)') >= n
                      /\ place # "idle" => Len(answer.page) = PageLimit
    BY <2>1 DEF UnseenIsAhead
  <2>2. i + k \in DOMAIN records /\ records'[i] = records[i + k]
    BY <1>1, <1>2, <1>3 DEF ReaderInv, IdsOnce
  <2>3. /\ i + k \in Matches
        /\ \A n \in Nat : n = (IF place = "idle" THEN offset ELSE offset + PageLimit)
              => Cardinality(NewerMatches(i + k)) >= n
        /\ place # "idle" => Len(answer.page) = PageLimit
    BY <2>2 DEF ReaderInv, UnseenIsAhead
  <2>4. i \in Matches'
    BY <2>1, <2>2, <2>3 DEF Matches
  <2>5. Cardinality(NewerMatches(i)') >= Cardinality(NewerMatches(i + k))
    <3> DEFINE before == NewerMatches(i + k)
               after == NewerMatches(i)'
               back == [x \in before |-> x - k]
    <3>1. ASSUME NEW x \in before
          PROVE  x - k \in after /\ x \in Nat
      <4>1. x \in 1..Len(records) /\ x > i + k /\ x \in Matches
        BY <1>3 DEF NewerMatches, Matches
      <4>2. x - k \in 1..Len(records') /\ x - k > i /\ (x - k) + k = x
        BY <1>1, <1>3, <4>1
      <4>3. records'[x - k] = records[x]
        BY <1>1, <1>3, <4>1, <4>2
      <4>4. x - k \in Matches'
        BY <1>3, <2>1, <4>1, <4>2, <4>3 DEF Matches
      <4> QED BY <4>1, <4>2, <4>4 DEF NewerMatches
    <3>2. /\ IsFiniteSet(after) /\ Cardinality(after) \in Nat
      BY <1>1, FilterFiniteNext DEF FilterFinite
    <3> HIDE DEF before, after
    <3>3. back \in Injection(before, after)
      <4>1. back \in [before -> after]
        BY <3>1
      <4>2. \A x, y \in before : back[x] = back[y] => x = y
        BY <3>1
      <4> HIDE DEF back
      <4> QED BY <4>1, <4>2 DEF Injection, IsInjective
    <3>4. IsFiniteSet(before) /\ Cardinality(before) <= Cardinality(after)
      BY <3>2, <3>3, FS_Injection
    <3>5. Cardinality(before) \in Nat
      BY <3>4, FS_CardinalityType
    <3> QED BY <3>2, <3>4, <3>5 DEF before, after
  <2>6. Cardinality(NewerMatches(i + k)) \in Nat /\ Cardinality(NewerMatches(i)') \in Nat
    <3>1. Cardinality(NewerMatches(i + k)) \in Nat
      BY <2>2, FilterIndices DEF StoreInv
    <3>2. \A j \in DOMAIN records' : Cardinality(NewerMatches(j)') \in Nat
      BY <1>1, FilterFiniteNext DEF FilterFinite
    <3> QED BY <3>1, <3>2
  <2> QED BY <2>3, <2>4, <2>5, <2>6
<1> QED BY <1>6, <1>7, <1>8, <1>9 DEF ReaderInv

-----------------------------------------------------------------------------
(* The other steps of the writers and of the reader.                       *)

(* While the reader and the list stand still, so does what is owed.        *)
LEMMA UnseenFrame ==
    ASSUME UnseenIsAhead, UNCHANGED <<records, reader>>
    PROVE  UnseenIsAhead'
<1>1. Matches' = Matches /\ \A i : NewerMatches(i)' = NewerMatches(i)
  BY DEF Matches, NewerMatches, reader
<1> QED BY <1>1 DEF UnseenIsAhead, reader

LEMMA BuildReader ==
    ASSUME StoreInv, ReaderInv, NEW w \in Writers, NEW l \in Labels, Build(w, l)
    PROVE  ReaderInv'
<1>1. /\ adding[w] = NoRecord /\ issued' = issued + 1 /\ issued \in Nat
      /\ adding' = [adding EXCEPT ![w] = [id |-> issued', label |-> l, ts |-> clock]]
      /\ UNCHANGED <<records, clock, reader>>
  BY DEF Build, StoreInv
<1>2. adding'[w].id = issued + 1 /\ \A v \in Writers \ {w} : adding'[v] = adding[v]
  BY <1>1 DEF StoreInv
<1>3. /\ \A i \in DOMAIN records : records[i].id \in Nat
      /\ \A v \in Writers : adding[v] # NoRecord => adding[v].id \in Nat
  BY IdsAreNumbers
<1>4. ReaderTypes' /\ ReadingsGrow'
  BY <1>1 DEF ReaderInv, ReaderTypes, ReadingsGrow, reader
<1>5. UnseenIsAhead'
  BY <1>1, UnseenFrame DEF ReaderInv
<1>6. IdsOnce'
  <2>1. UNCHANGED <<records, owed>>
    BY <1>1 DEF reader
  <2>2. /\ \A i \in DOMAIN records : records[i].id <= issued'
        /\ \A x \in owed : x <= issued'
    BY <1>1, <1>3 DEF ReaderInv, IdsOnce
  <2>3. ASSUME NEW v \in Writers, adding'[v] # NoRecord
        PROVE  /\ adding'[v].id <= issued'
               /\ adding'[v].id \notin owed
               /\ \A i \in DOMAIN records : records[i].id # adding'[v].id
               /\ \A u \in Writers \ {v} : adding'[u] # NoRecord => adding'[u].id # adding'[v].id
    <3>1. CASE v = w
      BY <1>1, <1>2, <1>3, <3>1 DEF ReaderInv, IdsOnce
    <3>2. CASE v # w
      BY <1>1, <1>2, <1>3, <2>3, <3>2 DEF ReaderInv, IdsOnce
    <3> QED BY <3>1, <3>2
  <2> QED BY <2>1, <2>2, <2>3 DEF ReaderInv, IdsOnce
<1> QED BY <1>4, <1>5, <1>6 DEF ReaderInv

(* What SubSeq cuts out.                                                   *)
LEMMA Slice ==
    ASSUME NEW S, NEW s \in Seq(S), NEW m \in Nat, NEW k \in Nat, m <= k, k <= Len(s)
    PROVE  /\ SubSeq(s, m + 1, k) \in Seq(S)
           /\ Len(SubSeq(s, m + 1, k)) = k - m
           /\ \A q \in 1..(k - m) : SubSeq(s, m + 1, k)[q] = s[m + q]
<1>1. \A q \in 1..(k - m) : m + q \in 1..Len(s) /\ s[m + q] \in S
  OBVIOUS
<1> QED BY <1>1

(* The page shows every owed record that stands within it, so what is      *)
(* still unseen stands behind it.                                          *)
LEMMA QueryReader ==
    ASSUME StoreInv, ReaderInv, Query
    PROVE  ReaderInv'
<1> DEFINE n == Len(Matching)
           last == IF offset + PageLimit < n THEN offset + PageLimit ELSE n
           page == SubSeq(Matching, offset + 1, last)
<1>1. records \in Seq(StoredRecord) /\ offset \in Nat /\ PageLimit \in Nat \ {0} /\ MaxRecords \in Nat
  BY FeedbackAssumption DEF StoreInv, ReaderInv, ReaderTypes
<1>2. /\ Matching \in Seq(StoredRecord)
      /\ n \in Nat
      /\ \A p \in 1..n : \E i \in Matches : Matching[p] = records[i]
      /\ \A i \in Matches : /\ Cardinality(NewerMatches(i)) + 1 \in 1..n
                            /\ Matching[Cardinality(NewerMatches(i)) + 1] = records[i]
  <2>1. Matching \in Seq(StoredRecord)
    BY <1>1, NewestFirst
  <2> QED BY <1>1, <2>1, NewestFirst
<1>3. /\ n <= Len(records) /\ Len(records) \in Nat
      /\ Matches \in SUBSET DOMAIN records
      /\ \A i \in DOMAIN records : Cardinality(NewerMatches(i)) \in Nat
  BY <1>1, NewestFirst, FilterIndices
<1>4. /\ place = "idle" /\ place' = "queried"
      /\ answer' = [answer EXCEPT !.page = page]
      /\ seen' = seen \cup Ids(answer'.page)
      /\ owed' = IF offset = 0 THEN Ids(Matching) ELSE owed
      /\ UNCHANGED <<records, adding, clock, issued, label, offset>>
  BY DEF Query
<1> HIDE DEF n
<1>5. /\ page \in Seq(StoredRecord)
      /\ Len(page) <= PageLimit
      /\ offset + Len(page) <= n \/ page = <<>>
      /\ offset + PageLimit <= n => Len(page) = PageLimit
      /\ \A p \in 1..n : p > offset /\ p <= offset + PageLimit =>
            p - offset \in DOMAIN page /\ page[p - offset] = Matching[p]
  <2>1. \A p \in 1..n : Matching[p] \in StoredRecord
    BY <1>2 DEF n
  <2>2. last \in Nat /\ last <= n /\ last <= offset + PageLimit
    BY <1>1, <1>2
  <2>3. CASE offset + 1 <= last
    <3>1. /\ page \in Seq(StoredRecord) /\ Len(page) = last - offset
          /\ \A q \in 1..(last - offset) : page[q] = Matching[offset + q]
      <4> HIDE DEF last
      <4>1. /\ Matching \in Seq(StoredRecord) /\ offset \in Nat /\ last \in Nat
            /\ offset <= last /\ last <= Len(Matching)
        BY <1>1, <1>2, <2>2, <2>3 DEF n
      <4>2. /\ SubSeq(Matching, offset + 1, last) \in Seq(StoredRecord)
            /\ Len(SubSeq(Matching, offset + 1, last)) = last - offset
            /\ \A q \in 1..(last - offset) :
                  SubSeq(Matching, offset + 1, last)[q] = Matching[offset + q]
        BY ONLY <4>1, Slice
      <4> QED BY <4>2
    <3>2. DOMAIN page = 1..(last - offset)
      <4> HIDE DEF last, page
      <4> QED BY <3>1
    <3> HIDE DEF page
    <3> QED BY <1>1, <1>2, <2>2, <2>3, <3>1, <3>2
  <2>4. CASE ~(offset + 1 <= last)
    <3>1. page = <<>>
      <4> HIDE DEF last
      <4> QED BY <1>1, <2>2, <2>4
    <3>2. ~(offset + PageLimit <= n) /\ n <= offset
      BY <1>1, <1>2, <2>4
    <3> HIDE DEF page
    <3> QED BY <1>1, <1>2, <3>1, <3>2
  <2> QED BY <2>3, <2>4
<1> HIDE DEF page
<1>6. answer'.page = page /\ answer'.total = answer.total /\ answer'.summary = answer.summary
      /\ answer' = [page |-> page, total |-> answer.total, summary |-> answer.summary]
  BY <1>4 DEF ReaderInv, ReaderTypes
<1>7. ReaderTypes'
  BY <1>4, <1>5, <1>6 DEF ReaderInv, ReaderTypes
<1>8. ReadingsGrow'
  <2>1. offset + Len(page) <= Len(records) \/ page = <<>>
    <3>1. Len(page) \in Nat
      BY <1>5
    <3> QED BY <1>1, <1>2, <1>3, <1>5, <3>1
  <2> QED BY <1>4, <1>6, <2>1 DEF ReadingsGrow
<1>9. ASSUME NEW x \in Ids(Matching)
      PROVE  \E i \in Matches : records[i].id = x
  <2>1. PICK p \in DOMAIN Matching : Matching[p].id = x
    BY DEF Ids
  <2>2. p \in 1..n
    BY <1>2, <2>1 DEF n
  <2> QED BY <1>2, <2>1, <2>2
<1>10. /\ \A i \in DOMAIN records : records[i].id \in Nat
       /\ \A w \in Writers : adding[w] # NoRecord => adding[w].id \in Nat
  BY IdsAreNumbers
<1>11. IdsOnce'
  <2>1. /\ owed' \subseteq Nat /\ \A x \in owed' : x <= issued
        /\ \A w \in Writers : adding[w] # NoRecord => adding[w].id \notin owed'
    <3>1. CASE offset = 0
      BY <1>3, <1>4, <1>9, <1>10, <3>1 DEF ReaderInv, IdsOnce
    <3>2. CASE offset # 0
      BY <1>4, <3>2 DEF ReaderInv, IdsOnce
    <3> QED BY <3>1, <3>2
  <2> QED BY <1>4, <2>1 DEF ReaderInv, IdsOnce
<1>12. UnseenIsAhead'
  <2> SUFFICES ASSUME NEW i \in DOMAIN records, records[i].id \in owed' \ seen'
               PROVE  /\ i \in Matches
                      /\ Cardinality(NewerMatches(i)) >= offset + PageLimit
                      /\ Len(page) = PageLimit
    <3>1. Matches' = Matches /\ \A i : NewerMatches(i)' = NewerMatches(i)
      BY <1>4 DEF Matches, NewerMatches
    <3>2. records' = records /\ offset' = offset /\ place' = "queried" /\ answer'.page = page
      BY <1>4, <1>6
    <3> QED BY <3>1, <3>2 DEF UnseenIsAhead
  <2>1. i \in Matches /\ Cardinality(NewerMatches(i)) >= offset
    <3>1. CASE offset = 0
      <4>1. PICK j \in Matches : records[j].id = records[i].id
        BY <1>4, <1>9, <3>1
      <4>2. j = i
        BY <1>3, <4>1 DEF ReaderInv, IdsOnce
      <4> QED BY <1>3, <3>1, <4>2
    <3>2. CASE offset # 0
      <4>1. records[i].id \in owed \ seen
        BY <1>4, <3>2
      <4> QED BY <1>1, <1>4, <4>1 DEF ReaderInv, UnseenIsAhead
    <3> QED BY <3>1, <3>2
  <2> DEFINE p == Cardinality(NewerMatches(i)) + 1
  <2>2. p \in 1..n /\ Matching[p] = records[i] /\ p > offset /\ Cardinality(NewerMatches(i)) \in Nat
    <3>1. Cardinality(NewerMatches(i)) \in Nat
      BY <1>3
    <3>2. p \in 1..n /\ Matching[p] = records[i]
      BY <1>2, <2>1
    <3>3. p > offset
      BY <1>1, <2>1, <3>1
    <3> QED BY <3>1, <3>2, <3>3
  <2>3. ~(p <= offset + PageLimit)
    <3> SUFFICES ASSUME p <= offset + PageLimit PROVE FALSE
      OBVIOUS
    <3> HIDE DEF p
    <3>1. p - offset \in DOMAIN page /\ page[p - offset] = records[i]
      BY <1>5, <2>2
    <3>2. records[i].id \in Ids(page)
      BY <3>1 DEF Ids
    <3> QED BY <1>4, <1>6, <3>2
  <2>4. Cardinality(NewerMatches(i)) >= offset + PageLimit /\ offset + PageLimit <= n
    BY <1>1, <1>2, <2>2, <2>3
  <2> QED BY <1>5, <2>1, <2>4
<1> QED BY <1>7, <1>8, <1>11, <1>12 DEF ReaderInv

LEMMA CountReader ==
    ASSUME StoreInv, ReaderInv, Count
    PROVE  ReaderInv'
<1>1. /\ place = "queried" /\ place' = "counted"
      /\ answer' = [answer EXCEPT !.total = Len(Matching)]
      /\ UNCHANGED <<records, adding, clock, issued, label, offset, seen, owed>>
  BY DEF Count
<1>2. /\ Len(Matching) \in Nat /\ Len(Matching) <= Len(records) /\ Len(records) \in Nat
      /\ label = NoFilter => Len(Matching) = Len(records)
  BY NewestFirst, FilterIndices DEF StoreInv
<1>3. answer' = [page |-> answer.page, total |-> Len(Matching), summary |-> answer.summary]
  BY <1>1 DEF ReaderInv, ReaderTypes
<1>4. ReaderTypes'
  BY <1>1, <1>2, <1>3 DEF ReaderInv, ReaderTypes
<1>5. ReadingsGrow'
  BY <1>1, <1>2, <1>3 DEF ReaderInv, ReadingsGrow
<1>6. IdsOnce'
  BY <1>1 DEF ReaderInv, IdsOnce
<1>7. UnseenIsAhead'
  <2>1. Matches' = Matches /\ \A i : NewerMatches(i)' = NewerMatches(i)
    BY <1>1 DEF Matches, NewerMatches
  <2> QED BY <1>1, <1>3, <2>1 DEF ReaderInv, UnseenIsAhead
<1> QED BY <1>4, <1>5, <1>6, <1>7 DEF ReaderInv

LEMMA SummaryReader ==
    ASSUME StoreInv, ReaderInv, Summary
    PROVE  ReaderInv'
<1>1. /\ place = "counted" /\ place' = "answered"
      /\ answer' = [answer EXCEPT !.summary = Len(records)]
      /\ UNCHANGED <<records, adding, clock, issued, label, offset, seen, owed>>
  BY DEF Summary
<1>2. Len(records) \in Nat
  BY DEF StoreInv
<1>3. answer' = [page |-> answer.page, total |-> answer.total, summary |-> Len(records)]
  BY <1>1 DEF ReaderInv, ReaderTypes
<1>4. ReaderTypes'
  BY <1>1, <1>2, <1>3 DEF ReaderInv, ReaderTypes
<1>5. ReadingsGrow'
  BY <1>1, <1>2, <1>3 DEF ReaderInv, ReadingsGrow, ReaderTypes
<1>6. IdsOnce'
  BY <1>1 DEF ReaderInv, IdsOnce
<1>7. UnseenIsAhead'
  <2>1. Matches' = Matches /\ \A i : NewerMatches(i)' = NewerMatches(i)
    BY <1>1 DEF Matches, NewerMatches
  <2> QED BY <1>1, <1>3, <2>1 DEF ReaderInv, UnseenIsAhead
<1> QED BY <1>4, <1>5, <1>6, <1>7 DEF ReaderInv

(* The next request starts where the pages so far end. *)
LEMMA NextPageReader ==
    ASSUME StoreInv, ReaderInv, NextPage
    PROVE  ReaderInv'
<1>1. /\ place = "answered" /\ place' = "idle"
      /\ offset' = offset + PageLimit /\ answer' = NoAnswer
      /\ UNCHANGED <<records, adding, clock, issued, label, seen, owed>>
  BY DEF NextPage
<1>2. offset' \in Nat
  BY <1>1, FeedbackAssumption DEF ReaderInv, ReaderTypes
<1>3. ReaderTypes' /\ ReadingsGrow'
  BY <1>1, <1>2, FeedbackAssumption DEF ReaderInv, ReaderTypes, ReadingsGrow, NoAnswer
<1>4. IdsOnce'
  BY <1>1 DEF ReaderInv, IdsOnce
<1>5. UnseenIsAhead'
  <2>1. Matches' = Matches /\ \A i : NewerMatches(i)' = NewerMatches(i)
    BY <1>1 DEF Matches, NewerMatches
  <2> QED BY <1>1, <2>1 DEF ReaderInv, UnseenIsAhead
<1> QED BY <1>3, <1>4, <1>5 DEF ReaderInv

LEMMA ReadAgainReader ==
    ASSUME StoreInv, ReaderInv, NEW l \in Labels \cup {NoFilter}, ReadAgain(l)
    PROVE  ReaderInv'
<1>1. /\ place' = "idle" /\ offset' = 0 /\ answer' = NoAnswer /\ owed' = {}
      /\ UNCHANGED <<records, adding, clock, issued>>
  BY DEF ReadAgain
<1>2. ReaderTypes' /\ ReadingsGrow'
  BY <1>1, FeedbackAssumption DEF ReaderInv, ReaderTypes, ReadingsGrow, NoAnswer
<1>3. IdsOnce' /\ UnseenIsAhead'
  BY <1>1 DEF ReaderInv, IdsOnce, UnseenIsAhead
<1> QED BY <1>2, <1>3 DEF ReaderInv

LEMMA ReaderInvInductive == StoreInv /\ ReaderInv /\ [Next]_vars => ReaderInv'
<1> SUFFICES ASSUME StoreInv, ReaderInv, [Next]_vars
             PROVE  ReaderInv'
  OBVIOUS
<1>1. ASSUME NEW w \in Writers, Store(w)
      PROVE  ReaderInv'
  BY <1>1, StoreReader
<1>2. ASSUME NEW w \in Writers, NEW l \in Labels, Build(w, l)
      PROVE  ReaderInv'
  BY <1>2, BuildReader
<1>3. CASE Query \/ Count \/ Summary \/ NextPage
  BY <1>3, QueryReader, CountReader, SummaryReader, NextPageReader
<1>4. ASSUME NEW l \in Labels \cup {NoFilter}, ReadAgain(l)
      PROVE  ReaderInv'
  BY <1>4, ReadAgainReader
<1>5. CASE Tick \/ UNCHANGED vars
  <2>1. UNCHANGED <<records, adding, issued, reader>>
    BY <1>5 DEF Tick, vars
  <2>2. UnseenIsAhead'
    BY <2>1, UnseenFrame DEF ReaderInv
  <2>3. ReaderTypes' /\ ReadingsGrow' /\ IdsOnce'
    BY <2>1 DEF ReaderInv, ReaderTypes, ReadingsGrow, IdsOnce, reader
  <2> QED BY <2>2, <2>3 DEF ReaderInv
<1> QED BY <1>1, <1>2, <1>3, <1>4, <1>5 DEF Next

LEMMA ReaderInvariance == Spec => []ReaderInv
<1>1. Init => ReaderInv
  <2> SUFFICES ASSUME Init PROVE ReaderInv
    OBVIOUS
  <2>1. ReaderTypes /\ ReadingsGrow
    BY FeedbackAssumption DEF Init, ReaderTypes, ReadingsGrow, NoAnswer
  <2>2. IdsOnce /\ UnseenIsAhead
    BY DEF Init, IdsOnce, UnseenIsAhead
  <2> QED BY <2>1, <2>2 DEF ReaderInv
<1> QED BY <1>1, StoreInvariance, ReaderInvInductive, PTL DEF Spec

(* However many records arrive and leave between its requests, a reader    *)
(* that follows the pages to the end has seen every record that was there  *)
(* at its first page and is still stored (feedback.py, query).             *)
THEOREM OffsetPagingMissesNothing == Spec => []PagingMissesNothing
<1>1. StoreInv /\ ReaderInv => PagingMissesNothing
  <2> SUFFICES ASSUME StoreInv, ReaderInv, place = "answered", Len(answer.page) < PageLimit,
                      NEW i \in DOMAIN records, records[i].id \in owed
               PROVE  records[i].id \in seen
    BY DEF PagingMissesNothing, Ids
  <2>1. Len(answer.page) # PageLimit
    BY FeedbackAssumption DEF ReaderInv, ReaderTypes
  <2> QED BY <2>1 DEF ReaderInv, UnseenIsAhead
<1> QED BY <1>1, StoreInvariance, ReaderInvariance, PTL

(* The page, the total and the summary of one answer, each read under a    *)
(* hold of the lock of its own, never contradict each other.               *)
THEOREM ThreeReadingsFit == Spec => []AnswerCoherent
<1>1. ReaderInv => AnswerCoherent
  BY DEF ReaderInv, ReadingsGrow, AnswerCoherent
<1> QED BY <1>1, ReaderInvariance, PTL
=============================================================================
