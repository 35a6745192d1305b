--------------------------- MODULE BatchScanProofs ---------------------------
(***************************************************************************)
(* Proofs about BatchScan for every calendar and every input: the years    *)
(* the reader of an sshd log guesses are off by exactly the late lines,    *)
(* every line of a file is read as often as it should be, and a pull from  *)
(* Elasticsearch misses and repeats no more documents than moved while it  *)
(* went on.  Whatever is loaded reaches the rules validated and, but for   *)
(* the names field mapping takes for empty, under the account its record   *)
(* names.                                                                  *)
(***************************************************************************)
EXTENDS BatchScan, SubsequencesProofs, TLAPS

(* A log file that YearsOffByLateLines speaks of. *)
Guessing == input.command = "file" /\ input.source = "sshd" /\ RecentLog

(* No line with a month has been read, or the last one was line j, and the *)
(* reader is as many years ahead of it as there were late lines.           *)
Undated == /\ previous = 0 /\ year = input.now.year
           /\ \A j \in 1..(at - 1) : ~HasMonth(Lines[j])

LastDated(j) == /\ j < at /\ HasMonth(Lines[j])
                /\ \A k \in (j + 1)..(at - 1) : ~HasMonth(Lines[k])

AheadOf(j) == /\ previous = Lines[j].month /\ previous \in 1..Months
              /\ year = Lines[j].year + Cardinality(LateLines(j))

YearKnown == Undated \/ \E j \in DOMAIN Lines : LastDated(j) /\ AheadOf(j)

Stamp(n) == Time(Lines[n].year + Cardinality(LateLines(n)), Lines[n].month, Lines[n].day)

EventsDated ==
    \A i \in DOMAIN events :
        \A n : events[i].from = n /\ Lines[n].in_months => events[i].event.ts = Stamp(n)

IsSequence(s) == \E S : s \in Seq(S)

YearInv ==
    /\ input \in Inputs
    /\ Guessing =>
        /\ IsSequence(events) /\ EventsDated
        /\ at \in Nat \ {0}
        /\ phase = "reading" => YearKnown

-----------------------------------------------------------------------------
(* One line *)

(* Between two months less than a year apart, the year the reader adds for *)
(* a month that goes back is the true one, and one more if the line is     *)
(* late.                                                                   *)
LEMMA YearStep ==
    ASSUME NEW y1 \in Int, NEW m1 \in 1..Months, NEW y2 \in Int, NEW m2 \in 1..Months,
           (y2 * Months + m2 - 1) - (y1 * Months + m1 - 1) \in (1 - Months)..(Months - 1)
    PROVE  (IF m2 < m1 THEN 1 ELSE 0)
             = (y2 - y1) + (IF y2 * Months + m2 - 1 < y1 * Months + m1 - 1 THEN 1 ELSE 0)
<1> DEFINE d == y2 - y1
<1>1. Months \in Nat \ {0} /\ m1 \in Int /\ m2 \in Int
  BY CalendarAssumption
<1>2. y2 = y1 + d /\ d \in Int
  OBVIOUS
<1>3. y2 * Months = y1 * Months + d * Months
  BY <1>1, <1>2
<1> HIDE DEF d
<1>4. y1 * Months \in Int /\ y2 * Months \in Int /\ d * Months \in Int
  BY <1>1, <1>2
<1>5. d \in {-1, 0, 1}
  <2>1. CASE d >= 2
    <3>1. d * Months >= 2 * Months
      BY <1>1, <1>2, <2>1
    <3> QED BY <1>1, <1>3, <1>4, <3>1
  <2>2. CASE d <= -2
    <3>1. d * Months <= (-2) * Months
      BY <1>1, <1>2, <2>2
    <3> QED BY <1>1, <1>3, <1>4, <3>1
  <2> QED BY <1>2, <2>1, <2>2
<1>6. CASE d = -1
  BY <1>1, <1>2, <1>3, <1>4, <1>6
<1>7. CASE d = 0
  BY <1>1, <1>2, <1>3, <1>4, <1>7
<1>8. CASE d = 1
  BY <1>1, <1>2, <1>3, <1>4, <1>8
<1> QED BY <1>5, <1>6, <1>7, <1>8

(* The lines of the input, as far as the proofs need to know them.         *)
LEMMA SshdLines ==
    ASSUME input \in Inputs, input.command = "file", input.source = "sshd"
    PROVE  /\ DOMAIN Lines = 1..Len(Lines) /\ Len(Lines) \in Nat
           /\ \A n \in DOMAIN Lines :
                 Dated(Lines[n]) => /\ Lines[n].year \in Int
                                    /\ Lines[n].month \in Int /\ Lines[n].day \in Int
                                    /\ Lines[n].in_months \in BOOLEAN
           /\ input.now.year \in Int /\ input.now.month \in Int
<1>1. Lines \in Seq({Lines[n] : n \in DOMAIN Lines})
  BY InputsAssumption DEF Lines
<1> QED BY <1>1, InputsAssumption DEF Lines

LEMMA LateFinite ==
    ASSUME NEW n \in Nat
    PROVE  /\ IsFiniteSet(LateLines(n))
           /\ Cardinality(LateLines(n)) \in Nat
           /\ LateLines(n) \subseteq 1..n
<1>1. LateLines(n) \subseteq 1..n
  BY DEF LateLines
<1>2. IsFiniteSet(1..n)
  BY FS_Interval
<1> QED BY <1>1, <1>2, FS_Subset, FS_CardinalityType

(* Up to the first line with a month no line is late. *)
LEMMA NoneLate ==
    ASSUME NEW n \in Nat, \A j \in 1..(n - 1) : ~HasMonth(Lines[j])
    PROVE  Cardinality(LateLines(n)) = 0
<1>1. ASSUME NEW i \in 1..n, NEW j \in 1..n, Follows(i, j)
      PROVE  FALSE
  <2>1. i \in 1..(n - 1) /\ HasMonth(Lines[i])
    BY <1>1 DEF Follows
  <2> QED BY <2>1
<1>2. LateLines(n) = {}
  BY <1>1 DEF LateLines
<1> QED BY <1>2, FS_EmptySet

(* From one line with a month to the next only the next can be late.       *)
LEMMA NextLate ==
    ASSUME NEW j \in Nat \ {0}, NEW n \in Nat \ {0}, Follows(j, n)
    PROVE  Cardinality(LateLines(n))
             = Cardinality(LateLines(j))
                 + (IF MonthsTo(Lines[n]) < MonthsTo(Lines[j]) THEN 1 ELSE 0)
<1>1. j < n /\ HasMonth(Lines[j]) /\ \A k \in (j + 1)..(n - 1) : ~HasMonth(Lines[k])
  BY DEF Follows
<1>2. ASSUME NEW i \in 1..n, Follows(i, n)
      PROVE  i = j
  <2>1. i < n /\ HasMonth(Lines[i]) /\ \A k \in (i + 1)..(n - 1) : ~HasMonth(Lines[k])
    BY <1>2 DEF Follows
  <2>2. ~(i < j)
    BY <1>1, <2>1
  <2>3. ~(j < i)
    BY <1>1, <2>1
  <2> QED BY <2>2, <2>3
<1>3. LateLines(n) = LateLines(j) \cup (IF MonthsTo(Lines[n]) < MonthsTo(Lines[j]) THEN {n} ELSE {})
  <2>1. ASSUME NEW k \in LateLines(n), k # n
        PROVE  k \in LateLines(j)
    <3>1. PICK i \in 1..n : Follows(i, k) /\ MonthsTo(Lines[k]) < MonthsTo(Lines[i])
      BY <2>1 DEF LateLines
    <3>2. k \in 1..n /\ i < k /\ HasMonth(Lines[k])
      BY <2>1, <3>1 DEF LateLines, Follows
    <3>3. k \in 1..j /\ i \in 1..j
      BY <1>1, <2>1, <3>2
    <3> QED BY <3>1, <3>3 DEF LateLines
  <2>2. n \in LateLines(n) <=> MonthsTo(Lines[n]) < MonthsTo(Lines[j])
    <3>1. j \in 1..n /\ n \in 1..n
      BY <1>1
    <3>2. n \in LateLines(n) <=> \E i \in 1..n : Follows(i, n) /\ MonthsTo(Lines[n]) < MonthsTo(Lines[i])
      BY <3>1 DEF LateLines
    <3> QED BY <1>2, <3>1, <3>2
  <2>3. LateLines(j) \subseteq LateLines(n)
    <3>1. 1..j \subseteq 1..n
      BY <1>1
    <3> QED BY <3>1 DEF LateLines
  <2> QED BY <2>1, <2>2, <2>3
<1>4. n \notin LateLines(j) /\ IsFiniteSet(LateLines(j)) /\ Cardinality(LateLines(j)) \in Nat
  BY <1>1, LateFinite
<1>5. CASE MonthsTo(Lines[n]) < MonthsTo(Lines[j])
  <2>1. LateLines(n) = LateLines(j) \cup {n}
    BY <1>3, <1>5
  <2>2. Cardinality(LateLines(j) \cup {n}) = Cardinality(LateLines(j)) + 1
    BY <1>4, FS_AddElement
  <2> QED BY <1>5, <2>1, <2>2
<1>6. CASE ~(MonthsTo(Lines[n]) < MonthsTo(Lines[j]))
  <2>1. LateLines(n) = LateLines(j)
    BY <1>3, <1>6
  <2> QED BY <1>4, <1>6, <2>1
<1> QED BY <1>5, <1>6

-----------------------------------------------------------------------------
(* Sequences of whatever *)

LEMMA Joined ==
    ASSUME NEW s, NEW t, IsSequence(s), IsSequence(t)
    PROVE  /\ IsSequence(s \o t) /\ Len(s \o t) = Len(s) + Len(t)
           /\ Len(s) \in Nat /\ Len(t) \in Nat
           /\ DOMAIN s = 1..Len(s) /\ DOMAIN t = 1..Len(t)
           /\ DOMAIN (s \o t) = 1..(Len(s) + Len(t))
           /\ \A i \in 1..Len(s) : (s \o t)[i] = s[i]
           /\ \A i \in 1..Len(t) : (s \o t)[Len(s) + i] = t[i]
<1>1. PICK S : s \in Seq(S)
  BY DEF IsSequence
<1>2. PICK T : t \in Seq(T)
  BY DEF IsSequence
<1>3. s \in Seq(S \cup T) /\ t \in Seq(S \cup T)
  BY <1>1, <1>2
<1>4. s \o t \in Seq(S \cup T)
  BY <1>3
<1>5. /\ Len(s \o t) = Len(s) + Len(t)
      /\ Len(s) \in Nat /\ Len(t) \in Nat
      /\ DOMAIN s = 1..Len(s) /\ DOMAIN t = 1..Len(t)
      /\ DOMAIN (s \o t) = 1..(Len(s) + Len(t))
      /\ \A i \in 1..Len(s) : (s \o t)[i] = s[i]
      /\ \A i \in 1..Len(t) : (s \o t)[Len(s) + i] = t[i]
  BY <1>3
<1> QED BY <1>4, <1>5 DEF IsSequence

LEMMA Appended ==
    ASSUME NEW s, NEW t, IsSequence(s), IsSequence(t)
    PROVE  /\ IsSequence(s \o t)
           /\ \A i \in DOMAIN (s \o t) :
                 \/ i \in DOMAIN s /\ (s \o t)[i] = s[i]
                 \/ \E k \in DOMAIN t : (s \o t)[i] = t[k]
<1> DEFINE st == s \o t
<1>1. /\ IsSequence(st)
      /\ Len(s) \in Nat /\ Len(t) \in Nat
      /\ DOMAIN s = 1..Len(s) /\ DOMAIN t = 1..Len(t)
      /\ DOMAIN st = 1..(Len(s) + Len(t))
      /\ \A i \in 1..Len(s) : st[i] = s[i]
      /\ \A i \in 1..Len(t) : st[Len(s) + i] = t[i]
  BY Joined
<1> HIDE DEF st
<1>2. ASSUME NEW i \in DOMAIN st
      PROVE  \/ i \in DOMAIN s /\ st[i] = s[i]
             \/ \E k \in DOMAIN t : st[i] = t[k]
  <2>1. CASE i <= Len(s)
    BY <1>1, <2>1
  <2>2. CASE i > Len(s)
    <3>1. i - Len(s) \in DOMAIN t /\ st[i] = t[i - Len(s)]
      BY <1>1, <2>2
    <3> QED BY <3>1
  <2> QED BY <1>1, <2>1, <2>2
<1> QED BY <1>1, <1>2 DEF st

(* A line of an sshd log gives at most one event, stamped with the year    *)
(* the reader takes it for.                                                *)
LEMMA SshdEvent ==
    ASSUME NEW line, NEW y, NEW n
    PROVE  LET taken == Taken(n, ParseRaw("sshd", line, y))
           IN /\ IsSequence(taken)
              /\ \A k \in DOMAIN taken :
                    /\ taken[k].from = n
                    /\ taken[k].event.ts = Time(y, line.month, line.day)
<1> DEFINE taken == Taken(n, ParseRaw("sshd", line, y))
           record == [ts |-> Time(y, line.month, line.day), actor |-> line.ip,
                      target |-> line.user, source |-> "sshd", action |-> "ssh_login",
                      result |-> IF line.says = "Accepted" THEN "success" ELSE "failure",
                      raw |-> Mentions({line.host, line.user, line.ip}),
                      extra |-> [host |-> line.host]]
<1>1. ParseRaw("sshd", line, y) = IF line.form # "record" THEN <<>> ELSE <<record>>
  BY DEF ParseRaw, ParseSshd
<1>2. CASE line.form # "record"
  <2>1. taken = <<>>
    BY <1>1, <1>2 DEF Taken
  <2>2. taken \in Seq({}) /\ DOMAIN taken = {}
    <3> HIDE DEF taken
    <3> QED BY <2>1
  <2> HIDE DEF taken
  <2>3. IsSequence(taken) /\ \A k \in DOMAIN taken : FALSE
    BY <2>2 DEF IsSequence
  <2> QED BY <2>3 DEF taken
<1>3. CASE line.form = "record"
  <2>1. taken = <<[from |-> n, event |-> record]>>
    <3> HIDE DEF record
    <3> QED BY <1>1, <1>3 DEF Taken
  <2>2. taken \in Seq({[from |-> n, event |-> record]})
    <3> HIDE DEF taken, record
    <3> QED BY <2>1
  <2>3. \A k \in DOMAIN taken : taken[k] = [from |-> n, event |-> record]
    <3> HIDE DEF taken, record
    <3> QED BY <2>1
  <2>4. record.ts = Time(y, line.month, line.day)
    OBVIOUS
  <2> HIDE DEF taken, record
  <2>5. IsSequence(taken)
    BY <2>2 DEF IsSequence
  <2>6. \A k \in DOMAIN taken :
           taken[k].from = n /\ taken[k].event.ts = Time(y, line.month, line.day)
    BY <2>3, <2>4
  <2> QED BY <2>5, <2>6 DEF taken
<1> QED BY <1>2, <1>3

-----------------------------------------------------------------------------
(* The invariant of a file being read *)

LEMMA YearInit == Init => YearInv
<1> SUFFICES ASSUME Init, Guessing
             PROVE  YearInv
  BY DEF YearInv, Init
<1>1. events = <<>> /\ at = 1 /\ previous = 0 /\ year = input.now.year /\ input \in Inputs
  BY DEF Init, FileInit
<1>2. events \in Seq({}) /\ DOMAIN events = {}
  BY <1>1
<1>3. IsSequence(events) /\ EventsDated
  BY <1>2 DEF IsSequence, EventsDated
<1>4. Undated
  BY <1>1 DEF Undated
<1> QED BY <1>1, <1>3, <1>4 DEF YearInv, YearKnown

(* What the input is decides what its late lines are. *)
LEMMA InputKept ==
    ASSUME input' = input
    PROVE  /\ Guessing' = Guessing /\ Lines' = Lines
           /\ \A n : LateLines(n)' = LateLines(n) /\ Stamp(n)' = Stamp(n)
  BY DEF Guessing, RecentLog, LateLines, Follows, Lines, Dated, HasMonth, MonthsTo, Time, Stamp

(* The year the reader takes a line with a month for is the true one, and  *)
(* one more for each late line up to it.                                   *)
LEMMA ResolvedYear ==
    ASSUME input \in Inputs, Guessing, at \in Nat \ {0}, YearKnown, More, HasMonth(Line),
           Exists(Resolved(Line), Line.month, Line.day)
    PROVE  /\ Resolved(Line) = Line.year + Cardinality(LateLines(at))
           /\ Line.month \in 1..Months
<1>1. /\ at \in DOMAIN Lines /\ Lines[at] = Line
      /\ Line.year \in Int /\ Line.month \in 1..Months
  BY SshdLines DEF Guessing, More, Line, Lines, Exists, HasMonth
<1>2. CASE Undated
  <2>1. Cardinality(LateLines(at)) = 0
    BY <1>2, NoneLate DEF Undated
  <2>2. Line.year = IF Line.month > input.now.month THEN input.now.year - 1 ELSE input.now.year
    BY <1>1, <1>2 DEF Guessing, RecentLog, Undated
  <2>3. input.now.year \in Int
    BY SshdLines DEF Guessing
  <2>4. Resolved(Line) = Line.year
    BY <1>2, <2>2 DEF Resolved, Undated
  <2> QED BY <1>1, <2>1, <2>4
<1>3. ASSUME NEW j \in DOMAIN Lines, LastDated(j), AheadOf(j)
      PROVE  Resolved(Line) = Line.year + Cardinality(LateLines(at))
  <2>1. j \in Nat \ {0} /\ j < at /\ Lines[j].year \in Int /\ Lines[j].month \in 1..Months
    BY <1>1, <1>3, SshdLines DEF Guessing, LastDated, AheadOf, HasMonth
  <2>2. Follows(j, at)
    BY <1>1, <1>3 DEF Follows, LastDated
  <2>3. MonthsTo(Lines[at]) - MonthsTo(Lines[j]) \in (1 - Months)..(Months - 1)
    BY <1>1, <2>2 DEF Guessing, RecentLog
  <2>4. (IF Line.month < Lines[j].month THEN 1 ELSE 0)
           = (Line.year - Lines[j].year) + (IF MonthsTo(Line) < MonthsTo(Lines[j]) THEN 1 ELSE 0)
    <3>1. (Line.year * Months + Line.month - 1) - (Lines[j].year * Months + Lines[j].month - 1)
             \in (1 - Months)..(Months - 1)
      BY <1>1, <2>3 DEF MonthsTo
    <3>2. (IF Line.month < Lines[j].month THEN 1 ELSE 0)
             = (Line.year - Lines[j].year)
                 + (IF Line.year * Months + Line.month - 1 < Lines[j].year * Months + Lines[j].month - 1
                    THEN 1 ELSE 0)
      <4>1. PICK y1, m1, y2, m2 : /\ y1 = Lines[j].year /\ m1 = Lines[j].month
                                  /\ y2 = Line.year /\ m2 = Line.month
        OBVIOUS
      <4>2. y1 \in Int /\ m1 \in 1..Months /\ y2 \in Int /\ m2 \in 1..Months
        BY <1>1, <2>1, <4>1
      <4>3. (y2 * Months + m2 - 1) - (y1 * Months + m1 - 1) \in (1 - Months)..(Months - 1)
        BY <3>1, <4>1
      <4>4. (IF m2 < m1 THEN 1 ELSE 0)
               = (y2 - y1) + (IF y2 * Months + m2 - 1 < y1 * Months + m1 - 1 THEN 1 ELSE 0)
        BY <4>2, <4>3, YearStep
      <4> QED BY <4>1, <4>4
    <3> QED BY <3>2 DEF MonthsTo
  <2>5. Cardinality(LateLines(at))
           = Cardinality(LateLines(j)) + (IF MonthsTo(Line) < MonthsTo(Lines[j]) THEN 1 ELSE 0)
    BY <1>1, <2>1, <2>2, NextLate
  <2>6. Cardinality(LateLines(j)) \in Nat
    BY <2>1, LateFinite
  <2>7. Resolved(Line)
           = Lines[j].year + Cardinality(LateLines(j)) + (IF Line.month < Lines[j].month THEN 1 ELSE 0)
    <3>1. previous = Lines[j].month /\ previous # 0 /\ year = Lines[j].year + Cardinality(LateLines(j))
      BY <1>3, <2>1 DEF AheadOf
    <3> QED BY <2>1, <2>6, <3>1 DEF Resolved
  <2>8. Cardinality(LateLines(at)) \in Nat
    BY LateFinite
  <2> DEFINE r == Resolved(Line)
             m == IF Line.month < Lines[j].month THEN 1 ELSE 0
             l == IF MonthsTo(Line) < MonthsTo(Lines[j]) THEN 1 ELSE 0
             cj == Cardinality(LateLines(j))
             ca == Cardinality(LateLines(at))
  <2>9. m \in Int /\ l \in Int
    OBVIOUS
  <2> HIDE DEF r, m, l, cj, ca
  <2>10. r = Lines[j].year + cj + m
    BY <2>7 DEF r, cj, m
  <2>11. m = (Line.year - Lines[j].year) + l
    BY <2>4 DEF m, l
  <2>12. ca = cj + l
    BY <2>5 DEF ca, cj, l
  <2>13. cj \in Int /\ ca \in Int
    BY <2>6, <2>8 DEF cj, ca
  <2>14. r = Line.year + ca
    BY <1>1, <2>1, <2>9, <2>10, <2>11, <2>12, <2>13
  <2> QED BY <2>14 DEF r, ca
<1> QED BY <1>1, <1>2, <1>3 DEF YearKnown

(* Reading a line of an sshd log, dated or not. *)
LEMMA ReadKeeps ==
    ASSUME YearInv, ReadSshdLine, Guessing
    PROVE  YearInv'
<1>1. input' = input /\ input \in Inputs /\ phase = "reading" /\ More /\ at' = at + 1
  BY DEF YearInv, ReadSshdLine, From, Reading, Read
<1>2. IsSequence(events) /\ EventsDated /\ at \in Nat \ {0} /\ YearKnown
  BY <1>1 DEF YearInv
<1>3. Guessing' /\ Lines' = Lines /\ at' \in Nat \ {0}
  BY <1>1, <1>2, InputKept
<1>4. at \in DOMAIN Lines /\ Lines[at] = Line
  BY <1>1, <1>2, SshdLines DEF Guessing, More, Line, Lines
<1>5. CASE HasMonth(Line)
  <2>1. /\ ~DateRaises("sshd", Line, Resolved(Line))
        /\ year' = Resolved(Line) /\ previous' = Line.month
        /\ events' = events \o Taken(at, ParseRaw("sshd", Line, year'))
    BY <1>5 DEF ReadSshdLine, Read, HasMonth
  <2>2. Exists(Resolved(Line), Line.month, Line.day)
    BY <1>5, <2>1 DEF DateRaises, HasMonth, Dated
  <2>3. year' = Line.year + Cardinality(LateLines(at)) /\ Line.month \in 1..Months
    BY <1>1, <1>2, <1>5, <2>1, <2>2, ResolvedYear
  <2>4. PICK n : n = at
    OBVIOUS
  <2>5. n \in DOMAIN Lines /\ Lines[n] = Line /\ Stamp(n) = Time(year', Line.month, Line.day)
    BY <1>4, <2>3, <2>4 DEF Stamp
  <2>6. LET taken == Taken(at, ParseRaw("sshd", Line, year'))
        IN /\ IsSequence(taken)
           /\ \A k \in DOMAIN taken : taken[k].from = n /\ taken[k].event.ts = Stamp(n)
    <3>1. PICK line, y : line = Line /\ y = year'
      OBVIOUS
    <3>2. LET taken == Taken(n, ParseRaw("sshd", line, y))
          IN /\ IsSequence(taken)
             /\ \A k \in DOMAIN taken : taken[k].from = n
                                        /\ taken[k].event.ts = Time(y, line.month, line.day)
      BY SshdEvent
    <3> QED BY <2>4, <2>5, <3>1, <3>2
  <2>7. /\ IsSequence(events')
        /\ \A i \in DOMAIN events' :
              \A l : events'[i].from = l /\ Lines[l].in_months => events'[i].event.ts = Stamp(l)
    <3>1. PICK taken : taken = Taken(at, ParseRaw("sshd", Line, year'))
      OBVIOUS
    <3>2. /\ IsSequence(taken)
          /\ \A k \in DOMAIN taken : taken[k].from = n /\ taken[k].event.ts = Stamp(n)
          /\ events' = events \o taken
      BY <2>1, <2>6, <3>1
    <3>3. /\ IsSequence(events \o taken)
          /\ \A i \in DOMAIN (events \o taken) :
                \/ i \in DOMAIN events /\ (events \o taken)[i] = events[i]
                \/ \E k \in DOMAIN taken : (events \o taken)[i] = taken[k]
      BY <1>2, <3>2, Appended
    <3> QED BY <1>2, <3>2, <3>3 DEF EventsDated
  <2>8. IsSequence(events)' /\ EventsDated'
    <3>1. \A l : Stamp(l)' = Stamp(l)
      BY <1>1, InputKept
    <3> QED BY <1>3, <2>7, <3>1 DEF EventsDated, IsSequence
  <2>9. LastDated(n)'
    BY <1>1, <1>2, <1>3, <1>4, <1>5, <2>4 DEF LastDated, HasMonth, Dated
  <2>10. AheadOf(n)'
    <3>1. LateLines(n)' = LateLines(n) /\ Cardinality(LateLines(at)) = Cardinality(LateLines(n))
      BY <1>1, <2>4, InputKept
    <3> QED BY <1>3, <2>1, <2>3, <2>5, <3>1 DEF AheadOf
  <2>11. YearKnown'
    BY <1>3, <2>5, <2>9, <2>10 DEF YearKnown
  <2> QED BY <1>1, <1>3, <2>8, <2>11 DEF YearInv
<1>6. CASE ~HasMonth(Line)
  <2>1. /\ year' = year /\ previous' = previous
        /\ \/ ~Dated(Line) /\ events' = events \o Taken(at, <<>>)
           \/ Dated(Line) /\ events' = events \o Taken(at, ParseRaw("sshd", Line, year))
    <3>1. CASE ~Dated(Line)
      BY <3>1 DEF ReadSshdLine, Read
    <3>2. CASE Dated(Line)
      <4>1. /\ year' = Resolved(Line) /\ previous' = previous
            /\ events' = events \o Taken(at, ParseRaw("sshd", Line, year'))
        BY <1>6, <3>2 DEF ReadSshdLine, Read
      <4>2. Resolved(Line) = year
        BY <1>6 DEF Resolved
      <4> QED BY <3>2, <4>1, <4>2
    <3> QED BY <3>1, <3>2
  <2>2. ASSUME ~Dated(Line)
        PROVE  IsSequence(events)' /\ EventsDated'
    <3>1. events' = events
      <4>1. Taken(at, <<>>) = <<>>
        BY DEF Taken
      <4> QED BY <1>2, <2>1, <2>2, <4>1 DEF IsSequence
    <3>2. \A l : Stamp(l)' = Stamp(l)
      BY <1>1, InputKept
    <3> QED BY <1>2, <1>3, <3>1, <3>2 DEF EventsDated, IsSequence
  <2>3. ASSUME Dated(Line)
        PROVE  IsSequence(events)' /\ EventsDated'
    <3>1. PICK n, taken : n = at /\ taken = Taken(n, ParseRaw("sshd", Line, year))
      OBVIOUS
    <3>2. IsSequence(taken) /\ \A k \in DOMAIN taken : taken[k].from = n
      <4>1. PICK line, y : line = Line /\ y = year
        OBVIOUS
      <4>2. LET given == Taken(n, ParseRaw("sshd", line, y))
            IN IsSequence(given) /\ \A k \in DOMAIN given : given[k].from = n
        BY SshdEvent
      <4> QED BY <3>1, <4>1, <4>2
    <3>3. events' = events \o taken /\ ~Lines[n].in_months
      BY <1>4, <1>6, <2>1, <2>3, <3>1 DEF HasMonth
    <3>4. /\ IsSequence(events \o taken)
          /\ \A i \in DOMAIN (events \o taken) :
                \/ i \in DOMAIN events /\ (events \o taken)[i] = events[i]
                \/ \E k \in DOMAIN taken : (events \o taken)[i] = taken[k]
      BY <1>2, <3>2, Appended
    <3>5. \A i \in DOMAIN events' :
             \A l : events'[i].from = l /\ Lines[l].in_months => events'[i].event.ts = Stamp(l)
      BY <1>2, <3>2, <3>3, <3>4 DEF EventsDated
    <3>6. \A l : Stamp(l)' = Stamp(l)
      BY <1>1, InputKept
    <3> QED BY <1>3, <3>3, <3>4, <3>5, <3>6 DEF EventsDated, IsSequence
  <2>4. ASSUME Undated
        PROVE  Undated'
    BY <1>1, <1>2, <1>3, <1>4, <1>6, <2>1, <2>4 DEF Undated, HasMonth, Dated
  <2>5. ASSUME NEW j \in DOMAIN Lines, LastDated(j), AheadOf(j)
        PROVE  LastDated(j)' /\ AheadOf(j)'
    <3>1. LateLines(j)' = LateLines(j)
      BY <1>1, InputKept
    <3>2. AheadOf(j)'
      BY <1>3, <2>1, <2>5, <3>1 DEF AheadOf
    <3>3. j \in Nat
      BY <1>1, SshdLines DEF Guessing
    <3>4. LastDated(j)'
      BY <1>1, <1>2, <1>3, <1>4, <1>6, <2>5, <3>3 DEF LastDated, HasMonth, Dated
    <3> QED BY <3>2, <3>4
  <2>6. YearKnown'
    BY <1>2, <1>3, <2>4, <2>5 DEF YearKnown
  <2> QED BY <1>1, <1>3, <2>2, <2>3, <2>6 DEF YearInv
<1> QED BY <1>5, <1>6

(* A step that loads no event from an sshd log leaves the invariant alone. *)
LEMMA OthersKeep ==
    ASSUME YearInv, input' = input,
           Guessing => /\ UNCHANGED <<events, at>>
                       /\ phase' = "reading" => UNCHANGED <<phase, year, previous>>
    PROVE  YearInv'
<1>1. CASE ~Guessing
  BY <1>1, InputKept DEF YearInv
<1>2. CASE Guessing
  <2>1. /\ IsSequence(events) /\ EventsDated /\ at \in Nat \ {0} /\ input \in Inputs
        /\ phase = "reading" => YearKnown
    BY <1>2 DEF YearInv
  <2>2. events' = events /\ at' = at /\ Lines' = Lines /\ \A l : Stamp(l)' = Stamp(l)
    BY <1>2, InputKept
  <2>3. IsSequence(events)' /\ EventsDated'
    BY <2>1, <2>2 DEF EventsDated, IsSequence
  <2>4. ASSUME phase' = "reading"
        PROVE  YearKnown'
    <3>1. phase = "reading" /\ year' = year /\ previous' = previous
      BY <1>2, <2>4
    <3>2. ASSUME Undated
          PROVE  Undated'
      BY <2>2, <3>1, <3>2 DEF Undated, HasMonth, Dated
    <3>3. ASSUME NEW j \in DOMAIN Lines, LastDated(j), AheadOf(j)
          PROVE  LastDated(j)' /\ AheadOf(j)'
      <4>1. LateLines(j)' = LateLines(j)
        BY InputKept
      <4> QED BY <2>2, <3>1, <3>3, <4>1 DEF LastDated, AheadOf, HasMonth, Dated
    <3> QED BY <2>1, <2>2, <3>1, <3>2, <3>3 DEF YearKnown
  <2> QED BY <2>1, <2>2, <2>3, <2>4 DEF YearInv
<1> QED BY <1>1, <1>2

LEMMA YearNext == YearInv /\ [Next]_vars => YearInv'
<1> SUFFICES ASSUME YearInv, [Next]_vars
             PROVE  YearInv'
  OBVIOUS
<1>1. CASE ReadFile
  <2>1. CASE ReadSshdLine
    <3>1. CASE Guessing
      BY <2>1, <3>1, ReadKeeps
    <3>2. CASE ~Guessing
      BY <2>1, <3>2, OthersKeep DEF ReadSshdLine, Read
    <3> QED BY <3>1, <3>2
  <2>2. CASE BadDate
    BY <2>2, OthersKeep DEF BadDate, End, fileVars
  <2>3. CASE ReadNginxLine
    BY <2>3, OthersKeep DEF ReadNginxLine, From, Read, Guessing
  <2>4. CASE StreamRecord
    BY <2>4, OthersKeep DEF StreamRecord, From, Read, Guessing
  <2>5. CASE StreamBreaks
    BY <2>5, OthersKeep DEF StreamBreaks, From, Guessing
  <2>6. CASE RereadLine
    BY <2>6, OthersKeep DEF RereadLine, From, Read, Guessing
  <2>7. CASE LoadOktaDocument
    BY <2>7, OthersKeep DEF LoadOktaDocument, From, Guessing
  <2>8. CASE ReadOktaLine
    BY <2>8, OthersKeep DEF ReadOktaLine, From, Read, Guessing
  <2>9. CASE EndOfFile
    BY <2>9, OthersKeep DEF EndOfFile, End, fileVars
  <2> QED BY <1>1, <2>1, <2>2, <2>3, <2>4, <2>5, <2>6, <2>7, <2>8, <2>9 DEF ReadFile
<1>2. CASE PullEvents /\ UNCHANGED <<fileVars, findings>>
  <2>1. input' = input
    BY <1>2 DEF PullEvents, DocumentComes, DocumentGoes, FetchPage, RequestFails, End
  <2>2. ~Guessing
    BY <1>2 DEF PullEvents, DocumentComes, DocumentGoes, FetchPage, RequestFails, Pull, Reading, Guessing
  <2> QED BY <2>1, <2>2, OthersKeep
<1>3. CASE ReadPayload
  BY <1>3, OthersKeep DEF ReadPayload, Reading, End, Guessing
<1>4. CASE Scan /\ UNCHANGED <<fileVars, pullVars>>
  BY <1>4, OthersKeep DEF Scan, fileVars
<1>5. CASE Done \/ UNCHANGED vars
  BY <1>5, OthersKeep DEF Done, vars, fileVars
<1> QED BY <1>1, <1>2, <1>3, <1>4, <1>5 DEF Next

THEOREM YearInvariance == Spec => []YearInv
  BY YearInit, YearNext, PTL DEF Spec

(* For every calendar and every sshd log: each event whose month is        *)
(* spelled as usual is stamped with its true year, plus one for each line  *)
(* so far that was logged late over the end of a month (parsers.py,        *)
(* _SyslogYear).                                                           *)
THEOREM YearsOffByLateLinesOnly == Spec => []YearsOffByLateLines
<1>1. YearInv => YearsOffByLateLines
  BY DEF YearInv, YearsOffByLateLines, Guessing, EventsDated, Stamp
<1> QED BY <1>1, YearInvariance, PTL

-----------------------------------------------------------------------------
(* What is taken from a list of items *)

(* A parser gives one event or none. *)
LEMMA ParsedOne ==
    ASSUME NEW source \in LogTypes, NEW item, NEW y
    PROVE  \/ ParseRaw(source, item, y) = <<>>
           \/ ParseRaw(source, item, y) = <<ParseRaw(source, item, y)[1]>>
<1>0. \A x : <<x>>[1] = x
  OBVIOUS
<1>1. \A ts : ParseSshd(item, ts) = <<>> \/ \E x : ParseSshd(item, ts) = <<x>>
  BY DEF ParseSshd
<1>2. ParseEvtx(item) = <<>> \/ \E x : ParseEvtx(item) = <<x>>
  BY DEF ParseEvtx
<1>3. ParseNginx(item) = <<>> \/ \E x : ParseNginx(item) = <<x>>
  BY DEF ParseNginx
<1>4. ParseOkta(item) = <<>> \/ \E x : ParseOkta(item) = <<x>>
  BY DEF ParseOkta
<1>5. ParseRaw(source, item, y) = <<>> \/ \E x : ParseRaw(source, item, y) = <<x>>
  BY <1>1, <1>2, <1>3, <1>4 DEF ParseRaw, LogTypes
<1> QED BY <1>0, <1>5

(* One event for each of the items at the indices I, in their order.       *)
EventsOf(list, names, I) ==
    /\ IsFiniteSet(I) /\ IsSequence(list) /\ Len(list) = Cardinality(I)
    /\ \A k \in DOMAIN list : Nth(I, k) \in I /\ list[k].from = names[Nth(I, k)]
    /\ \A k, l \in DOMAIN list : k < l => Nth(I, k) < Nth(I, l)
    /\ \A i \in I : Rank(I, i) \in DOMAIN list /\ list[Rank(I, i)].from = names[i]

(* Parsing the items of a list takes, in order, one event from each that   *)
(* parses.                                                                 *)
LEMMA TakenAll ==
    ASSUME NEW D, NEW names \in Seq(D), NEW parsed,
           \A i \in DOMAIN names : parsed[i] = <<>> \/ parsed[i] = <<parsed[i][1]>>,
           NEW U, NEW loaded \in Seq(U), DOMAIN loaded = DOMAIN names,
           \A i \in DOMAIN names : loaded[i] = Taken(names[i], parsed[i]),
           NEW I \in SUBSET DOMAIN names, \A i \in DOMAIN names : i \in I <=> parsed[i] # <<>>,
           NEW flat, flat = FlattenSeq(loaded)
    PROVE  EventsOf(flat, names, I)
<1> DEFINE head(i) == [from |-> names[i], event |-> parsed[i][1]]
           heads == [i \in DOMAIN names |-> head(i)]
           S == {head(i) : i \in DOMAIN names}
<1>1. DOMAIN names = 1..Len(names) /\ Len(names) \in Nat
  OBVIOUS
<1>2. \A i \in DOMAIN names :
          /\ parsed[i] # <<>> => loaded[i] = <<head(i)>>
          /\ parsed[i] = <<>> => loaded[i] = <<>>
  <2> TAKE i \in DOMAIN names
  <2>1. loaded[i] = Taken(names[i], parsed[i])
    OBVIOUS
  <2>2. \A n : Taken(n, <<>>) = <<>>
    BY DEF Taken
  <2>3. \A n, x : Taken(n, <<x>>) = <<[from |-> n, event |-> x]>>
    BY DEF Taken
  <2> QED BY <2>1, <2>2, <2>3
<1> HIDE DEF head
<1>3. heads \in Seq(S) /\ Len(heads) = Len(names) /\ DOMAIN heads = DOMAIN names
  BY <1>1
<1>4. loaded \in Seq(Seq(S)) /\ Len(loaded) = Len(names) /\ DOMAIN loaded = DOMAIN names
  <2>1. \A i \in DOMAIN names : loaded[i] \in Seq(S)
    <3>1. \A i \in DOMAIN names : head(i) \in S
      OBVIOUS
    <3>2. <<>> \in Seq(S) /\ \A x \in S : <<x>> \in Seq(S)
      OBVIOUS
    <3> HIDE DEF S
    <3> QED BY <1>2, <3>1, <3>2
  <2> HIDE DEF S
  <2> QED BY <1>1, <2>1
<1>5. I = {i \in DOMAIN loaded : loaded[i] # <<>>}
  <2>1. \A i \in DOMAIN names : <<head(i)>> # <<>>
    OBVIOUS
  <2> QED BY <1>2, <1>4, <2>1
<1>6. flat = AtIndices(heads, I)
  <2>1. \A i \in DOMAIN loaded : loaded[i] = <<>> \/ loaded[i] = <<heads[i]>>
    <3>1. \A i \in DOMAIN names : heads[i] = head(i)
      OBVIOUS
    <3> HIDE DEF heads
    <3> QED BY <1>2, <1>4, <3>1
  <2> HIDE DEF heads, S
  <2>2. FlattenSeq(loaded) = AtIndices(heads, {i \in DOMAIN loaded : loaded[i] # <<>>})
    <3>1. PICK T, seqs, hs : T = S /\ seqs = loaded /\ hs = heads
      OBVIOUS
    <3>2. seqs \in Seq(Seq(T)) /\ hs \in Seq(T) /\ Len(hs) = Len(seqs)
      BY <1>3, <1>4, <3>1
    <3>3. \A i \in DOMAIN seqs : seqs[i] = <<>> \/ seqs[i] = <<hs[i]>>
      BY <2>1, <3>1
    <3>4. FlattenSeq(seqs) = AtIndices(hs, {i \in DOMAIN seqs : seqs[i] # <<>>})
      BY <3>2, <3>3, FlattenedSingles
    <3> QED BY <3>1, <3>4
  <2> QED BY <1>5, <2>2, Zenon
<1>7. /\ IsFiniteSet(I) /\ flat \in Seq(S) /\ Len(flat) = Cardinality(I)
      /\ \A k \in DOMAIN flat : Nth(I, k) \in I /\ flat[k] = heads[Nth(I, k)]
      /\ \A k, l \in DOMAIN flat : k < l => Nth(I, k) < Nth(I, l)
      /\ \A i \in I : Rank(I, i) \in DOMAIN flat /\ flat[Rank(I, i)] = heads[i]
  <2>1. I \in SUBSET DOMAIN heads
    BY <1>3
  <2> HIDE DEF heads, S
  <2> DEFINE chosen == AtIndices(heads, I)
  <2>2. IsFiniteSet(I) /\ Len(chosen) = Cardinality(I)
    BY <1>3, <2>1, SubsequenceAtIndices
  <2>3. /\ chosen \in Seq(S)
        /\ \A k \in DOMAIN chosen : Nth(I, k) \in I /\ chosen[k] = heads[Nth(I, k)]
        /\ \A k, l \in DOMAIN chosen : k < l => Nth(I, k) < Nth(I, l)
        /\ \A i \in I : Rank(I, i) \in DOMAIN chosen /\ chosen[Rank(I, i)] = heads[i]
    BY ONLY <1>3, <2>1, Selection DEF chosen
  <2> HIDE DEF chosen
  <2>4. flat = chosen
    BY <1>6, Zenon DEF chosen
  <2> QED BY <2>2, <2>3, <2>4
<1>8. \A i \in I : heads[i].from = names[i]
  BY DEF head
<1>9. IsSequence(flat)
  <2> HIDE DEF S
  <2> QED BY <1>7 DEF IsSequence
<1> HIDE DEF heads
<1>10. /\ \A k \in DOMAIN flat : Nth(I, k) \in I /\ flat[k].from = names[Nth(I, k)]
       /\ \A i \in I : Rank(I, i) \in DOMAIN flat /\ flat[Rank(I, i)].from = names[i]
  BY <1>7, <1>8
<1> QED BY <1>7, <1>9, <1>10 DEF EventsOf

-----------------------------------------------------------------------------
(* One pass over a file.  The events from first to last of a list are      *)
(* those of the lines before line b, in their order.                       *)

Known(b) == {n \in DOMAIN Lines : n < b /\ Recognized(Lines[n])}

Pass(s, first, last, b) ==
    /\ \A i \in first..last : s[i].from \in Known(b)
    /\ \A n \in Known(b) : \E i \in first..last : s[i].from = n
    /\ \A i, j \in first..last : i < j => s[i].from < s[j].from

(* One line more: its event, if it has one, follows those of the pass.     *)
LEMMA OneLine ==
    ASSUME NEW s, IsSequence(s), NEW first \in Nat \ {0}, NEW n \in DOMAIN Lines, n \in Nat,
           DOMAIN Lines \subseteq Nat,
           NEW parsed, parsed = <<>> \/ parsed = <<parsed[1]>>,
           parsed # <<>> <=> Recognized(Lines[n]),
           first <= Len(s) + 1, Pass(s, first, Len(s), n)
    PROVE  LET t == s \o Taken(n, parsed)
           IN /\ IsSequence(t) /\ Len(s) <= Len(t) /\ Pass(t, first, Len(t), n + 1)
              /\ \A i \in 1..Len(s) : t[i] = s[i]
<1> DEFINE taken == Taken(n, parsed)
           t == s \o taken
<1>1. CASE parsed = <<>>
  <2>1. taken = <<>>
    BY <1>1 DEF Taken
  <2>2. t = s
    <3> HIDE DEF taken
    <3> QED BY <2>1 DEF IsSequence
  <2>3. Known(n + 1) = Known(n)
    BY <1>1 DEF Known
  <2>4. Len(s) \in Nat
    BY DEF IsSequence
  <2> HIDE DEF t
  <2> QED BY <2>2, <2>3, <2>4 DEF t, Pass
<1>2. CASE parsed # <<>>
  <2>1. taken = <<[from |-> n, event |-> parsed[1]]>>
    <3>1. \A x : Taken(n, <<x>>) = <<[from |-> n, event |-> x]>>
      BY DEF Taken
    <3> QED BY <1>2, <3>1
  <2>2. IsSequence(taken) /\ Len(taken) = 1 /\ taken[1].from = n
    <3>1. PICK x : x = [from |-> n, event |-> parsed[1]]
      OBVIOUS
    <3>2. <<x>> \in Seq({x}) /\ Len(<<x>>) = 1 /\ <<x>>[1] = x /\ x.from = n
      BY <3>1
    <3> HIDE DEF taken
    <3> QED BY <2>1, <3>1, <3>2 DEF IsSequence
  <2> HIDE DEF taken
  <2>3. /\ IsSequence(t) /\ Len(t) = Len(s) + 1 /\ Len(s) \in Nat
        /\ \A i \in 1..Len(s) : t[i] = s[i]
        /\ t[Len(s) + 1].from = n
    <3>1. /\ IsSequence(t) /\ Len(t) = Len(s) + Len(taken) /\ Len(s) \in Nat
          /\ \A i \in 1..Len(s) : t[i] = s[i]
          /\ \A i \in 1..Len(taken) : t[Len(s) + i] = taken[i]
      BY <2>2, Joined
    <3> HIDE DEF t
    <3>2. t[Len(s) + 1] = taken[1]
      BY <2>2, <3>1
    <3> QED BY <2>2, <3>1, <3>2
  <2> HIDE DEF t
  <2>4. Known(n + 1) = Known(n) \cup {n}
    BY <1>2 DEF Known
  <2>5. Pass(t, first, Len(t), n + 1)
    <3>1. \A i \in first..Len(t) : i = Len(t) \/ (i \in first..Len(s) /\ t[i] = s[i])
      BY <2>3
    <3>2. \A i \in first..Len(s) : i \in first..Len(t) /\ t[i] = s[i] /\ i < Len(t)
      BY <2>3
    <3>3. t[Len(t)].from = n /\ Len(t) \in first..Len(t)
      BY <2>3
    <3>4. \A i \in first..Len(s) : s[i].from < n
      BY DEF Pass, Known
    <3>5. \A i \in first..Len(t) : t[i].from \in Known(n + 1)
      BY <2>4, <3>1, <3>3 DEF Pass
    <3>6. \A m \in Known(n + 1) : \E i \in first..Len(t) : t[i].from = m
      BY <2>4, <3>2, <3>3 DEF Pass
    <3>7. ASSUME NEW i \in first..Len(t), NEW j \in first..Len(t), i < j
          PROVE  t[i].from < t[j].from
      <4>1. i # Len(t)
        BY <2>3, <3>7
      <4>2. i \in first..Len(s) /\ t[i] = s[i]
        BY <3>1, <4>1
      <4>3. CASE j = Len(t)
        BY <3>3, <3>4, <4>2, <4>3
      <4>4. CASE j # Len(t)
        BY <3>1, <3>7, <4>2, <4>4 DEF Pass
      <4> QED BY <4>3, <4>4
    <3> QED BY <3>5, <3>6, <3>7 DEF Pass
  <2> QED BY <2>3, <2>5 DEF t, taken
<1> QED BY <1>1, <1>2

-----------------------------------------------------------------------------
(* The invariant of a file being read: the first k events come of a pass   *)
(* that broke off, and the rest of the pass that goes on.                  *)

Filing == input.command = "file"

Passes(s, again, upto) ==
    \E k, b \in Nat :
        /\ k <= Len(s) /\ (~again => k = 0)
        /\ Pass(s, 1, k, b) /\ Pass(s, k + 1, Len(s), upto)

FileTypes ==
    /\ input \in Inputs /\ IsSequence(events)
    /\ at \in Nat \ {0} /\ rereading \in BOOLEAN

FileInv ==
    Filing =>
        /\ FileTypes
        /\ phase = "reading" =>
              /\ Passes(events, rereading, at)
              /\ input.source = "okta" /\ at # 1 => ~IsBlank /\ ~IsDocument
              /\ input.source # "evtx" => ~rereading
        /\ phase = "read" => IF Dropped THEN events = <<>>
                             ELSE Passes(events, rereading, Len(Lines) + 1)

LEMMA FileLines ==
    ASSUME input \in Inputs, Filing
    PROVE  /\ Len(Lines) \in Nat /\ DOMAIN Lines = 1..Len(Lines)
           /\ input.source \in LogTypes
           /\ input.shape \in {"lines", "document", "cut"}
<1>1. Lines \in Seq({Lines[n] : n \in DOMAIN Lines})
  BY InputsAssumption DEF Filing, Lines
<1> QED BY <1>1, InputsAssumption DEF Filing, Lines

(* Whether a line gives an event does not depend on the year. *)
LEMMA RecognizedLine ==
    ASSUME input \in Inputs, Filing, NEW line, NEW y
    PROVE  /\ Recognized(line) <=> ParseRaw(input.source, line, y) # <<>>
           /\ \/ ParseRaw(input.source, line, y) = <<>>
              \/ ParseRaw(input.source, line, y) = <<ParseRaw(input.source, line, y)[1]>>
<1>1. input.source \in LogTypes
  BY FileLines
<1>2. \/ ParseRaw(input.source, line, y) = <<>>
      \/ ParseRaw(input.source, line, y) = <<ParseRaw(input.source, line, y)[1]>>
  BY <1>1, ParsedOne
<1>3. CASE input.source = "sshd"
  <2>1. \A z : ParseRaw("sshd", line, z) # <<>> <=> line.form = "record"
    <3> TAKE z
    <3>1. \A x : <<x>> # <<>>
      OBVIOUS
    <3>2. ParseRaw("sshd", line, z) = ParseSshd(line, Time(z, line.month, line.day))
      BY DEF ParseRaw
    <3> QED BY <3>1, <3>2 DEF ParseSshd
  <2> QED BY <1>2, <1>3, <2>1 DEF Recognized
<1>4. CASE input.source # "sshd"
  <2>1. ParseRaw(input.source, line, y) = ParseRaw(input.source, line, input.now.year)
    BY <1>1, <1>4 DEF ParseRaw, LogTypes
  <2> QED BY <1>2, <2>1 DEF Recognized
<1> QED BY <1>2, <1>3, <1>4

(* What a line gives is decided by the input. *)
LEMMA LinesKept ==
    ASSUME input' = input
    PROVE  /\ Filing' = Filing /\ Lines' = Lines /\ Dropped' = Dropped
           /\ IsBlank' = IsBlank /\ IsDocument' = IsDocument
           /\ \A b : Known(b)' = Known(b)
  BY DEF Filing, Lines, Dropped, IsBlank, IsDocument, Known, Recognized

(* A pass is over the same events when more are added behind it. *)
LEMMA PassHolds ==
    ASSUME NEW s, NEW t, NEW k \in Nat, NEW n \in Nat, k <= n, \A i \in 1..n : t[i] = s[i],
           NEW b, Pass(s, 1, k, b)
    PROVE  Pass(t, 1, k, b)
<1>1. \A i \in 1..k : t[i] = s[i]
  OBVIOUS
<1> QED BY <1>1 DEF Pass

LEMMA LineRead ==
    ASSUME input \in Inputs, Filing, IsSequence(events), at \in Nat \ {0}, More,
           NEW again, Passes(events, again, at),
           NEW parsed, parsed = <<>> \/ parsed = <<parsed[1]>>,
           parsed # <<>> <=> Recognized(Line)
    PROVE  LET t == events \o Taken(at, parsed)
           IN IsSequence(t) /\ Passes(t, again, at + 1)
<1> DEFINE t == events \o Taken(at, parsed)
<1>1. PICK k, b \in Nat : /\ k <= Len(events) /\ (~again => k = 0)
                          /\ Pass(events, 1, k, b) /\ Pass(events, k + 1, Len(events), at)
  BY DEF Passes
<1>2. at \in DOMAIN Lines /\ DOMAIN Lines \subseteq Nat /\ Line = Lines[at]
  BY FileLines DEF More, Line, Lines
<1>3. Len(events) \in Nat
  BY DEF IsSequence
<1>4. k + 1 \in Nat \ {0} /\ k + 1 <= Len(events) + 1
  BY <1>1, <1>3
<1>5. /\ IsSequence(t) /\ Len(events) <= Len(t) /\ Pass(t, k + 1, Len(t), at + 1)
      /\ \A i \in 1..Len(events) : t[i] = events[i]
  BY <1>1, <1>2, <1>4, OneLine
<1>6. Pass(t, 1, k, b)
  BY <1>1, <1>3, <1>5, PassHolds
<1>7. k <= Len(t)
  <2>1. Len(t) \in Nat
    BY <1>5 DEF IsSequence
  <2> QED BY <1>1, <1>3, <1>5, <2>1
<1> HIDE DEF t
<1>8. IsSequence(t) /\ Passes(t, again, at + 1)
  BY <1>1, <1>5, <1>6, <1>7 DEF Passes
<1> QED BY <1>8 DEF t

LEMMA PassesKept ==
    ASSUME input' = input
    PROVE  \A s, again, upto : Passes(s, again, upto)' <=> Passes(s, again, upto)
<1>1. \A s, first, last, b : Pass(s, first, last, b)' <=> Pass(s, first, last, b)
  <2>1. \A b : Known(b)' = Known(b)
    BY LinesKept
  <2> QED BY <2>1 DEF Pass
<1> QED BY <1>1 DEF Passes

(* A step that reads one line. *)
LEMMA LineKeeps ==
    ASSUME FileInv, Filing, More, NEW parsed, Read(parsed), phase = "reading",
           parsed = <<>> \/ parsed = <<parsed[1]>>,
           parsed # <<>> <=> Recognized(Line),
           input.source = "okta" => ~IsBlank /\ ~IsDocument
    PROVE  FileInv'
<1>1. /\ input' = input /\ phase' = phase /\ rereading' = rereading /\ at' = at + 1
      /\ events' = events \o Taken(at, parsed)
  BY DEF Read
<1>2. /\ FileTypes /\ Passes(events, rereading, at)
      /\ input.source # "evtx" => ~rereading
  BY DEF FileInv
<1>3. IsSequence(events') /\ Passes(events', rereading, at + 1)
  BY <1>1, <1>2, LineRead DEF FileTypes
<1>4. Passes(events, rereading, at)'
  <2>1. \A s, again, upto : Passes(s, again, upto)' <=> Passes(s, again, upto)
    BY <1>1, PassesKept
  <2> QED BY <1>1, <1>3, <2>1
<1>5. FileTypes'
  BY <1>1, <1>2, <1>3 DEF FileTypes, IsSequence
<1>6. IsBlank' = IsBlank /\ IsDocument' = IsDocument
  BY <1>1, LinesKept
<1> QED BY <1>1, <1>2, <1>4, <1>5, <1>6 DEF FileInv

LEMMA FileStart == Init => FileInv
<1> SUFFICES ASSUME Init, Filing
             PROVE  FileInv
  BY DEF FileInv
<1>1. /\ input \in Inputs /\ events = <<>> /\ phase = "reading" /\ at = 1 /\ rereading = FALSE
  BY DEF Init, FileInit
<1>2. events \in Seq({}) /\ Len(events) = 0 /\ 1..0 = {}
  BY <1>1
<1>3. FileTypes
  <2>1. IsSequence(events)
    BY <1>2 DEF IsSequence
  <2>2. rereading \in BOOLEAN
    BY <1>1, Zenon
  <2>3. at \in Nat \ {0}
    BY <1>1
  <2> QED BY <1>1, <2>1, <2>2, <2>3, Zenon DEF FileTypes
<1>4. Known(1) = {}
  <2>1. \A n \in DOMAIN Lines : ~(n < 1)
    BY <1>1, FileLines
  <2> QED BY <2>1 DEF Known
<1>5. Passes(events, rereading, at)
  <2>1. Pass(events, 1, 0, 1) /\ Pass(events, 1, Len(events), 1)
    BY <1>2, <1>4 DEF Pass
  <2>2. 0 \in Nat /\ 1 \in Nat /\ 0 + 1 = 1 /\ 0 <= Len(events)
    BY <1>2
  <2> QED BY <1>1, <2>1, <2>2, Zenon DEF Passes
<1> QED BY <1>1, <1>3, <1>5 DEF FileInv

LEMMA SshdKeeps ==
    ASSUME FileInv, ReadSshdLine
    PROVE  FileInv'
<1>1. /\ Filing /\ phase = "reading" /\ input.source = "sshd" /\ More
  BY DEF ReadSshdLine, From, Reading, Filing
<1>2. input \in Inputs
  BY <1>1 DEF FileInv, FileTypes
<1>3. CASE Dated(Line)
  <2>1. PICK parsed : parsed = ParseRaw("sshd", Line, year') /\ Read(parsed)
    BY <1>3 DEF ReadSshdLine
  <2>2. PICK y : y = year'
    OBVIOUS
  <2>3. /\ Recognized(Line) <=> parsed # <<>>
        /\ parsed = <<>> \/ parsed = <<parsed[1]>>
    BY <1>1, <1>2, <2>1, <2>2, RecognizedLine
  <2> QED BY <1>1, <2>1, <2>3, LineKeeps
<1>4. CASE ~Dated(Line)
  <2>1. PICK parsed : parsed = <<>> /\ Read(parsed)
    BY <1>4 DEF ReadSshdLine
  <2>2. ~Recognized(Line)
    BY <1>1, <1>4 DEF Recognized, ParseRaw, ParseSshd, Dated
  <2> QED BY <1>1, <2>1, <2>2, LineKeeps
<1> QED BY <1>3, <1>4

LEMMA OtherLineKeeps ==
    ASSUME FileInv, ReadNginxLine \/ StreamRecord \/ RereadLine \/ ReadOktaLine
    PROVE  FileInv'
<1>1. /\ Filing /\ phase = "reading" /\ More
      /\ input.source = "okta" => ~IsBlank /\ ~IsDocument
  BY DEF ReadNginxLine, StreamRecord, RereadLine, ReadOktaLine, From, Reading, Filing
<1>2. input \in Inputs
  BY <1>1 DEF FileInv, FileTypes
<1>3. PICK y : y = input.now.year
  OBVIOUS
<1>4. Read(ParseRaw(input.source, Line, y))
  BY DEF ReadNginxLine, StreamRecord, RereadLine, ReadOktaLine, From, ParseRaw
<1>5. PICK parsed : parsed = ParseRaw(input.source, Line, y)
  OBVIOUS
<1>6. /\ Recognized(Line) <=> parsed # <<>>
      /\ parsed = <<>> \/ parsed = <<parsed[1]>>
  BY <1>1, <1>2, <1>5, RecognizedLine
<1>7. Read(parsed)
  BY <1>4, <1>5
<1> QED BY <1>1, <1>6, <1>7, LineKeeps

LEMMA BreakKeeps ==
    ASSUME FileInv, StreamBreaks
    PROVE  FileInv'
<1>1. /\ Filing /\ phase = "reading" /\ input.source = "evtx" /\ rereading = FALSE
      /\ rereading' = TRUE /\ at' = 1
      /\ input' = input /\ events' = events /\ phase' = phase
  BY DEF StreamBreaks, From, Reading, Filing, RereadFrom
<1>2. FileTypes /\ Passes(events, rereading, at)
  BY <1>1 DEF FileInv
<1>3. FileTypes'
  BY <1>1, <1>2 DEF FileTypes, IsSequence
<1>4. Passes(events, TRUE, 1)
  <2>1. /\ Len(events) \in Nat /\ at \in Nat
    BY <1>2 DEF FileTypes, IsSequence
  <2>2. PICK k, b \in Nat : k = 0 /\ Pass(events, k + 1, Len(events), at)
    BY <1>1, <1>2 DEF Passes
  <2>3. Pass(events, 1, Len(events), at)
    <3>1. k + 1 = 1
      BY <2>2
    <3> QED BY <2>2, <3>1
  <2>4. Known(1) = {}
    <3>1. \A n \in DOMAIN Lines : ~(n < 1)
      BY <1>1, <1>2, FileLines DEF FileTypes
    <3> QED BY <3>1 DEF Known
  <2>5. Pass(events, Len(events) + 1, Len(events), 1)
    <3>1. (Len(events) + 1)..Len(events) = {}
      BY <2>1
    <3> QED BY <2>4, <3>1 DEF Pass
  <2>6. Len(events) <= Len(events)
    BY <2>1
  <2> QED BY <2>1, <2>3, <2>5, <2>6 DEF Passes
<1>5. Passes(events, rereading, at)'
  <2>1. \A s, again, upto : Passes(s, again, upto)' <=> Passes(s, again, upto)
    BY <1>1, PassesKept
  <2> QED BY <1>1, <1>4, <2>1
<1> QED BY <1>1, <1>3, <1>5 DEF FileInv

LEMMA DocumentKeeps ==
    ASSUME FileInv, LoadOktaDocument
    PROVE  FileInv'
<1>1. /\ Filing /\ phase = "reading" /\ input.source = "okta" /\ input' = input
      /\ phase' = "read" /\ at' = at /\ rereading' = rereading
      /\ IsBlank \/ IsDocument
  BY DEF LoadOktaDocument, From, Reading, Filing, fileVars
<1>2. FileTypes /\ ~rereading
  BY <1>1 DEF FileInv
<1>3. /\ Len(Lines) \in Nat /\ DOMAIN Lines = 1..Len(Lines)
      /\ input.source \in LogTypes
  BY <1>1, <1>2, FileLines DEF FileTypes
<1> DEFINE torn == IsBlank \/ \E n \in DOMAIN Lines : Lines[n].form = "cut"
           flat == FlattenSeq([n \in DOMAIN Lines |-> Taken(n, ParseOkta(Lines[n]))])
<1>4. events' = IF torn THEN <<>> ELSE flat
  BY DEF LoadOktaDocument
<1>5. CASE torn
  <2>1. events' = <<>> /\ IsSequence(<<>>)
    <3>1. <<>> \in Seq({})
      OBVIOUS
    <3> QED BY <1>4, <1>5, <3>1 DEF IsSequence
  <2>2. Lines # <<>> => Dropped
    <3> SUFFICES ASSUME Lines # <<>>
                 PROVE  Dropped
      OBVIOUS
    <3>1. CASE IsBlank
      BY <1>1, <3>1 DEF Dropped, IsBlank
    <3>2. CASE IsDocument /\ \E n \in DOMAIN Lines : Lines[n].form = "cut"
      BY <1>1, <3>2 DEF Dropped, IsDocument
    <3> QED BY <1>1, <1>5, <3>1, <3>2
  <2>3. ASSUME Lines = <<>>
        PROVE  Passes(<<>>, rereading, Len(Lines) + 1)
    <3>1. \A b : Known(b) = {}
      <4>1. DOMAIN Lines = {}
        BY <2>3
      <4> QED BY <4>1 DEF Known
    <3>2. Len(<<>>) = 0 /\ 1..0 = {} /\ 0 \in Nat /\ 0 <= 0 /\ 0 + 1 = 1
      OBVIOUS
    <3>3. Pass(<<>>, 1, 0, 0) /\ Pass(<<>>, 1, 0, Len(Lines) + 1)
      BY <3>1, <3>2 DEF Pass
    <3> QED BY <3>2, <3>3, Zenon DEF Passes
  <2>4. FileTypes'
    BY <1>1, <1>2, <2>1 DEF FileTypes, IsSequence
  <2>5. IF Dropped' THEN events' = <<>> ELSE Passes(events, rereading, Len(Lines) + 1)'
    <3>1. Dropped' = Dropped /\ Lines' = Lines
      BY <1>1, LinesKept
    <3>2. CASE Lines # <<>>
      BY <2>1, <2>2, <3>1, <3>2
    <3>3. CASE Lines = <<>>
      <4>1. \A s, again, upto : Passes(s, again, upto)' <=> Passes(s, again, upto)
        BY <1>1, PassesKept
      <4> QED BY <1>1, <2>1, <2>3, <3>1, <3>3, <4>1
    <3> QED BY <3>2, <3>3
  <2> QED BY <1>1, <2>4, <2>5 DEF FileInv
<1>6. CASE ~torn
  <2> DEFINE names == [n \in DOMAIN Lines |-> n]
             parsed == [n \in DOMAIN Lines |-> ParseOkta(Lines[n])]
             I == {n \in DOMAIN names : parsed[n] # <<>>}
  <2>1. names \in Seq(Nat) /\ DOMAIN names = DOMAIN Lines /\ \A n \in DOMAIN names : names[n] = n
    BY <1>3
  <2>2. \A n \in DOMAIN Lines : /\ Recognized(Lines[n]) <=> parsed[n] # <<>>
                                /\ parsed[n] = <<>> \/ parsed[n] = <<parsed[n][1]>>
    <3> TAKE n \in DOMAIN Lines
    <3>1. PICK line, y : line = Lines[n] /\ y = input.now.year
      OBVIOUS
    <3>2. ParseRaw(input.source, line, y) = ParseOkta(line)
      BY <1>1 DEF ParseRaw
    <3>3. parsed[n] = ParseOkta(line)
      BY <3>1
    <3> HIDE DEF parsed
    <3> QED BY <1>1, <1>2, <3>1, <3>2, <3>3, RecognizedLine DEF FileTypes
  <2> DEFINE loaded == [n \in DOMAIN Lines |-> Taken(n, ParseOkta(Lines[n]))]
             U == {loaded[n] : n \in DOMAIN Lines}
  <2>3. /\ loaded \in Seq(U) /\ DOMAIN loaded = DOMAIN names
        /\ \A n \in DOMAIN names : loaded[n] = Taken(names[n], parsed[n])
    BY <1>3, <2>1
  <2>4. /\ I \in SUBSET DOMAIN names /\ \A i \in DOMAIN names : i \in I <=> parsed[i] # <<>>
        /\ I = {n \in DOMAIN names : parsed[n] # <<>>}
    OBVIOUS
  <2> HIDE DEF names, parsed, I, loaded, U
  <2>5. /\ IsSequence(flat)
        /\ \A k \in DOMAIN flat : Nth(I, k) \in I /\ flat[k].from = names[Nth(I, k)]
        /\ \A k, l \in DOMAIN flat : k < l => Nth(I, k) < Nth(I, l)
        /\ \A i \in I : Rank(I, i) \in DOMAIN flat /\ flat[Rank(I, i)].from = names[i]
    <3>1. \A n \in DOMAIN names : parsed[n] = <<>> \/ parsed[n] = <<parsed[n][1]>>
      BY <2>1, <2>2
    <3>2. flat = FlattenSeq(loaded)
      BY DEF loaded
    <3> HIDE DEF flat
    <3>3. EventsOf(flat, names, I)
      BY <2>1, <2>3, <2>4, <3>1, <3>2, TakenAll
    <3> QED BY <3>3 DEF EventsOf
  <2> HIDE DEF flat
  <2>6. I = Known(Len(Lines) + 1)
    <3>1. \A n \in DOMAIN Lines : n < Len(Lines) + 1
      BY <1>3
    <3> QED BY <2>1, <2>2, <2>4, <3>1 DEF Known
  <2>7. Len(flat) \in Nat /\ DOMAIN flat = 1..Len(flat)
    BY <2>5 DEF IsSequence
  <2>8. Pass(flat, 1, Len(flat), Len(Lines) + 1)
    <3>1. \A k \in DOMAIN flat : flat[k].from = Nth(I, k) /\ Nth(I, k) \in I
      BY <2>1, <2>4, <2>5
    <3>2. \A n \in I : \E k \in DOMAIN flat : flat[k].from = n
      <4> TAKE n \in I
      <4>1. names[n] = n
        BY <2>1, <2>4
      <4>2. Rank(I, n) \in DOMAIN flat /\ flat[Rank(I, n)].from = names[n]
        BY <2>5
      <4> QED BY <4>1, <4>2, Zenon
    <3>3. \A k, l \in DOMAIN flat : k < l => flat[k].from < flat[l].from
      BY <2>5, <3>1
    <3> QED BY <2>6, <2>7, <3>1, <3>2, <3>3, Zenon DEF Pass
  <2>9. Passes(flat, rereading, Len(Lines) + 1)
    <3>1. Known(0) = {} /\ 1..0 = {}
      <4>1. \A n \in DOMAIN Lines : ~(n < 0)
        BY <1>3
      <4> QED BY <4>1 DEF Known
    <3>2. Pass(flat, 1, 0, 0)
      BY <3>1 DEF Pass
    <3>3. 0 \in Nat /\ 0 + 1 = 1 /\ 0 <= Len(flat)
      BY <2>7
    <3> QED BY <2>8, <3>2, <3>3, Zenon DEF Passes
  <2>10. events' = flat
    BY <1>4, <1>6
  <2>11. ~Dropped
    BY <1>6 DEF Dropped, IsBlank
  <2>12. FileTypes'
    BY <1>1, <1>2, <2>5, <2>10 DEF FileTypes, IsSequence
  <2>13. Passes(events, rereading, Len(Lines) + 1)'
    <3>1. \A s, again, upto : Passes(s, again, upto)' <=> Passes(s, again, upto)
      BY <1>1, PassesKept
    <3> QED BY <1>1, <2>9, <2>10, <3>1, LinesKept
  <2>14. ~Dropped'
    BY <1>1, <2>11, LinesKept
  <2> QED BY <1>1, <2>12, <2>13, <2>14 DEF FileInv
<1> QED BY <1>5, <1>6

LEMMA EndKeeps ==
    ASSUME FileInv, EndOfFile
    PROVE  FileInv'
<1>1. /\ Filing /\ phase = "reading" /\ ~More /\ input' = input /\ events' = events
      /\ phase' = "read" /\ at' = at /\ rereading' = rereading
      /\ input.source = "okta" => ~IsBlank
  BY DEF EndOfFile, Reading, Filing, End, fileVars
<1>2. /\ FileTypes /\ Passes(events, rereading, at)
      /\ input.source = "okta" /\ at # 1 => ~IsBlank /\ ~IsDocument
  BY <1>1 DEF FileInv
<1>3. /\ Len(Lines) \in Nat /\ DOMAIN Lines = 1..Len(Lines) /\ at \in Nat \ {0} /\ at > Len(Lines)
  BY <1>1, <1>2, FileLines DEF FileTypes, More
<1>4. Known(at) = Known(Len(Lines) + 1)
  <2>1. \A n \in DOMAIN Lines : n < at /\ n < Len(Lines) + 1
    BY <1>3
  <2> QED BY <2>1 DEF Known
<1>5. Passes(events, rereading, Len(Lines) + 1)
  BY <1>2, <1>4 DEF Passes, Pass
<1>6. ~Dropped
  <2> SUFFICES ASSUME Dropped
               PROVE  FALSE
    OBVIOUS
  <2>1. input.source = "okta" /\ Lines # <<>> /\ ~IsBlank
    BY <1>1 DEF Dropped
  <2>2. IsDocument
    BY <2>1 DEF Dropped, IsBlank, IsDocument
  <2>3. Len(Lines) # 0
    <3>1. Lines \in Seq({Lines[n] : n \in DOMAIN Lines})
      BY <1>1, <1>2, InputsAssumption DEF FileTypes, Filing, Lines
    <3> QED BY <2>1, <3>1
  <2> QED BY <1>2, <1>3, <2>1, <2>2, <2>3
<1>7. FileTypes'
  BY <1>1, <1>2 DEF FileTypes, IsSequence
<1>8. ~Dropped' /\ Passes(events, rereading, Len(Lines) + 1)'
  <2>1. \A s, again, upto : Passes(s, again, upto)' <=> Passes(s, again, upto)
    BY <1>1, PassesKept
  <2> QED BY <1>1, <1>5, <1>6, <2>1, LinesKept
<1> QED BY <1>1, <1>7, <1>8 DEF FileInv

(* A step that reads nothing of a file. *)
LEMMA FileRests ==
    ASSUME FileInv, input' = input,
           Filing => /\ UNCHANGED <<events, at, rereading>>
                     /\ phase' \in {"reading", "read"} => phase' = phase
    PROVE  FileInv'
<1>1. Filing' = Filing
  BY LinesKept
<1>2. CASE Filing
  <2>1. /\ events' = events /\ at' = at /\ rereading' = rereading
    BY <1>2
  <2>2. FileTypes /\ FileTypes'
    BY <1>2, <2>1 DEF FileInv, FileTypes, IsSequence
  <2>3. /\ Lines' = Lines /\ Dropped' = Dropped /\ IsBlank' = IsBlank /\ IsDocument' = IsDocument
    BY LinesKept
  <2>4. /\ Passes(events, rereading, at)' <=> Passes(events, rereading, at)
        /\ Passes(events, rereading, Len(Lines) + 1)' <=> Passes(events, rereading, Len(Lines) + 1)
    <3>1. \A s, again, upto : Passes(s, again, upto)' <=> Passes(s, again, upto)
      BY PassesKept
    <3> QED BY <2>1, <2>3, <3>1
  <2>5. phase' = "reading" => phase = "reading"
    BY <1>2
  <2>6. phase' = "read" => phase = "read"
    BY <1>2
  <2> QED BY <1>2, <2>1, <2>2, <2>3, <2>4, <2>5, <2>6 DEF FileInv
<1> QED BY <1>1, <1>2 DEF FileInv

LEMMA FileNext == FileInv /\ [Next]_vars => FileInv'
<1> SUFFICES ASSUME FileInv, [Next]_vars
             PROVE  FileInv'
  OBVIOUS
<1>1. CASE ReadFile
  <2>1. CASE ReadSshdLine
    BY <2>1, SshdKeeps
  <2>2. CASE BadDate
    BY <2>2, FileRests DEF BadDate, End, fileVars
  <2>3. CASE ReadNginxLine \/ StreamRecord \/ RereadLine \/ ReadOktaLine
    BY <2>3, OtherLineKeeps
  <2>4. CASE StreamBreaks
    BY <2>4, BreakKeeps
  <2>5. CASE LoadOktaDocument
    BY <2>5, DocumentKeeps
  <2>6. CASE EndOfFile
    BY <2>6, EndKeeps
  <2> QED BY <1>1, <2>1, <2>2, <2>3, <2>4, <2>5, <2>6 DEF ReadFile
<1>2. CASE PullEvents /\ UNCHANGED <<fileVars, findings>>
  <2>1. input' = input
    BY <1>2 DEF PullEvents, DocumentComes, DocumentGoes, FetchPage, RequestFails, End
  <2>2. ~Filing
    BY <1>2 DEF PullEvents, DocumentComes, DocumentGoes, FetchPage, RequestFails, Pull, Reading, Filing
  <2> QED BY <2>1, <2>2, FileRests
<1>3. CASE ReadPayload
  <2>1. input' = input /\ ~Filing
    BY <1>3 DEF ReadPayload, Reading, End, Filing
  <2> QED BY <2>1, FileRests
<1>4. CASE Scan /\ UNCHANGED <<fileVars, pullVars>>
  BY <1>4, FileRests DEF Scan, fileVars
<1>5. CASE Done \/ UNCHANGED vars
  BY <1>5, FileRests DEF Done, vars, fileVars
<1> QED BY <1>1, <1>2, <1>3, <1>4, <1>5 DEF Next

THEOREM FileInvariance == Spec => []FileInv
  BY FileStart, FileNext, PTL DEF Spec

(* A pass holds one event of a line before b that gives one, and no other. *)
LEMMA OnceInPass ==
    ASSUME NEW s, NEW first \in Nat, NEW last \in Nat, NEW b, Pass(s, first, last, b), NEW n \in Nat,
           NEW found, found = {i \in first..last : s[i].from = n}
    PROVE  IsFiniteSet(found) /\ Cardinality(found) = IF n \in Known(b) THEN 1 ELSE 0
<1>1. CASE n \in Known(b)
  <2>1. PICK x \in first..last : s[x].from = n
    BY <1>1 DEF Pass
  <2>2. \A i \in first..last : s[i].from = n => i = x
    <3> TAKE i \in first..last
    <3>1. i < x => s[i].from < s[x].from
      BY DEF Pass
    <3>2. x < i => s[x].from < s[i].from
      BY DEF Pass
    <3>3. ~(n < n)
      OBVIOUS
    <3> QED BY <2>1, <3>1, <3>2, <3>3
  <2>3. found = {x}
    BY <2>1, <2>2
  <2> QED BY <1>1, <2>3, FS_Singleton
<1>2. CASE n \notin Known(b)
  <2>1. found = {}
    BY <1>2 DEF Pass
  <2> QED BY <1>2, <2>1, FS_EmptySet
<1> QED BY <1>1, <1>2

(* For every file: one read to its end has given an event for every line   *)
(* the parser knows and for no other, in the order of the file, and those  *)
(* before the break of an evtx document twice (parsers.py, parse_file).    *)
THEOREM EveryLineReadOnce == Spec => []ReadInFull
<1>1. ASSUME FileInv
      PROVE  ReadInFull
  <2> SUFFICES ASSUME Filing, phase = "read"
               PROVE  /\ \A n \in DOMAIN Lines :
                            Times(n) \in IF Dropped \/ ~Recognized(Lines[n]) THEN {0}
                                         ELSE IF rereading THEN {1, 2} ELSE {1}
                      /\ \A m, n \in DOMAIN Lines : m < n /\ Times(n) = 2 => Times(m) # 1
                      /\ \A i, j \in DOMAIN events :
                            i < j /\ ~rereading => Origins[i] < Origins[j]
    BY DEF ReadInFull, Filing
  <2>1. FileTypes /\ IF Dropped THEN events = <<>> ELSE Passes(events, rereading, Len(Lines) + 1)
    BY <1>1 DEF FileInv
  <2>2. Len(Lines) \in Nat /\ DOMAIN Lines = 1..Len(Lines)
    BY <2>1, FileLines DEF FileTypes
  <2>3. \A i \in DOMAIN events : Origins[i] = events[i].from
    BY DEF Origins
  <2>4. CASE Dropped
    <3>1. DOMAIN events = {}
      BY <2>1, <2>4
    <3>2. \A n : Times(n) = 0
      BY <3>1, FS_EmptySet DEF Times
    <3> QED BY <2>4, <3>1, <3>2
  <2>5. CASE ~Dropped
    <3>1. PICK k, b \in Nat :
             /\ k <= Len(events) /\ (~rereading => k = 0)
             /\ Pass(events, 1, k, b) /\ Pass(events, k + 1, Len(events), Len(Lines) + 1)
      BY <2>1, <2>5 DEF Passes
    <3>2. Len(events) \in Nat /\ DOMAIN events = 1..Len(events)
      BY <2>1 DEF FileTypes, IsSequence
    <3>3. \A n \in DOMAIN Lines : n \in Known(Len(Lines) + 1) <=> Recognized(Lines[n])
      <4>1. \A n \in DOMAIN Lines : n < Len(Lines) + 1
        BY <2>2
      <4> QED BY <4>1 DEF Known
    <3>4. \A n \in DOMAIN Lines : n \in Known(b) <=> Recognized(Lines[n]) /\ n < b
      BY DEF Known
    <3>5. \A n \in DOMAIN Lines :
             Times(n) = IF ~Recognized(Lines[n]) THEN 0 ELSE IF n < b THEN 2 ELSE 1
      <4> TAKE n \in DOMAIN Lines
      <4> DEFINE A == {i \in 1..k : events[i].from = n}
                 B == {i \in (k + 1)..Len(events) : events[i].from = n}
      <4>1. n \in Nat /\ k + 1 \in Nat /\ 1 \in Nat
        BY <2>2
      <4>2. IsFiniteSet(A) /\ Cardinality(A) = IF n \in Known(b) THEN 1 ELSE 0
        <5>1. A = {i \in 1..k : events[i].from = n}
          OBVIOUS
        <5>2. Pass(events, 1, k, b)
          BY <3>1
        <5> HIDE DEF A
        <5> QED BY <4>1, <5>1, <5>2, OnceInPass
      <4>3. IsFiniteSet(B) /\ Cardinality(B) = IF n \in Known(Len(Lines) + 1) THEN 1 ELSE 0
        <5>1. B = {i \in (k + 1)..Len(events) : events[i].from = n}
          OBVIOUS
        <5>2. Pass(events, k + 1, Len(events), Len(Lines) + 1) /\ Len(events) \in Nat
          BY <3>1, <3>2
        <5> HIDE DEF B
        <5> QED BY <4>1, <5>1, <5>2, OnceInPass
      <4>4. Times(n) = Cardinality(A \cup B)
        <5>1. \A i \in 1..Len(events) : i \in 1..k \/ i \in (k + 1)..Len(events)
          BY <3>1, <3>2
        <5>2. \A i : i \in 1..k \/ i \in (k + 1)..Len(events) => i \in 1..Len(events)
          BY <3>1, <3>2
        <5>3. {i \in DOMAIN events : Origins[i] = n} = A \cup B
          BY <2>3, <3>2, <5>1, <5>2
        <5> QED BY <5>3, Zenon DEF Times
      <4>5. A \cap B = {}
        <5>1. \A i \in 1..k : i \notin (k + 1)..Len(events)
          BY <3>1, <3>2
        <5> QED BY <5>1
      <4> HIDE DEF A, B
      <4>6. /\ Cardinality(A \cup B) = Cardinality(A) + Cardinality(B) - Cardinality(A \cap B)
            /\ Cardinality(A \cap B) = 0
        BY <4>2, <4>3, <4>5, FS_Union, FS_EmptySet
      <4> DEFINE ca == Cardinality(A)
                 cb == Cardinality(B)
      <4>7. Times(n) = ca + cb - 0
        BY <4>4, <4>6
      <4>8. /\ ca = IF Recognized(Lines[n]) /\ n < b THEN 1 ELSE 0
            /\ cb = IF Recognized(Lines[n]) THEN 1 ELSE 0
        BY <3>3, <3>4, <4>2, <4>3
      <4> HIDE DEF ca, cb
      <4> QED BY <4>7, <4>8
    <3>6. ~rereading => \A n \in DOMAIN Lines : Recognized(Lines[n]) => ~(n < b)
      <4> SUFFICES ASSUME ~rereading, NEW n \in DOMAIN Lines, Recognized(Lines[n]), n < b
                   PROVE  FALSE
        OBVIOUS
      <4>1. PICK i \in 1..k : TRUE
        BY <3>1, <3>4 DEF Pass
      <4> QED BY <3>1, <4>1
    <3>7. ASSUME NEW m \in DOMAIN Lines, NEW n \in DOMAIN Lines, m < n, Times(n) = 2
          PROVE  Times(m) # 1
      <4>1. n < b
        BY <3>5, <3>7
      <4>2. m < b
        BY <2>2, <3>7, <4>1
      <4> QED BY <3>5, <4>2
    <3>8. ASSUME NEW i \in DOMAIN events, NEW j \in DOMAIN events, i < j, ~rereading
          PROVE  Origins[i] < Origins[j]
      <4>1. Pass(events, 1, Len(events), Len(Lines) + 1)
        <5>1. k = 0 /\ k + 1 = 1
          BY <3>1, <3>8
        <5> QED BY <3>1, <5>1
      <4>2. events[i].from < events[j].from
        BY <3>2, <3>8, <4>1 DEF Pass
      <4> QED BY <2>3, <4>2
    <3>9. \A n \in DOMAIN Lines :
             Times(n) \in IF Dropped \/ ~Recognized(Lines[n]) THEN {0}
                          ELSE IF rereading THEN {1, 2} ELSE {1}
      BY <2>5, <3>5, <3>6
    <3> QED BY <3>7, <3>8, <3>9
  <2> QED BY <2>4, <2>5
<1> QED BY <1>1, FileInvariance, PTL

-----------------------------------------------------------------------------
(* Counting *)

(* One set holds at most one element that another does not.                *)
LEMMA OneMore ==
    ASSUME NEW A, NEW B, NEW C, IsFiniteSet(B), A \subseteq B \cup C,
           \A x, y \in C : x = y
    PROVE  IsFiniteSet(A) /\ Cardinality(A) \in Nat /\ Cardinality(A) <= Cardinality(B) + 1
<1>0. Cardinality(B) \in Nat
  BY FS_CardinalityType
<1>1. CASE C = {}
  <2>1. A \in SUBSET B
    BY <1>1
  <2> QED BY <1>0, <2>1, FS_Subset, FS_CardinalityType
<1>2. CASE C # {}
  <2>1. PICK c \in C : TRUE
    BY <1>2
  <2>2. A \in SUBSET (B \cup {c})
    BY <2>1
  <2>3. IsFiniteSet(B \cup {c}) /\ Cardinality(B \cup {c}) <= Cardinality(B) + 1
    <3> DEFINE more == B \cup {c}
    <3>1. IsFiniteSet(more) /\ Cardinality(more) = IF c \in B THEN Cardinality(B) ELSE Cardinality(B) + 1
      BY FS_AddElement
    <3> HIDE DEF more
    <3>2. Cardinality(more) <= Cardinality(B) + 1
      BY <1>0, <3>1
    <3> QED BY <3>1, <3>2 DEF more
  <2>4. Cardinality(B \cup {c}) \in Nat
    BY <2>3, FS_CardinalityType
  <2>5. IsFiniteSet(A) /\ Cardinality(A) <= Cardinality(B \cup {c}) /\ Cardinality(A) \in Nat
    BY <2>2, <2>3, FS_Subset, FS_CardinalityType
  <2> QED BY <1>0, <2>3, <2>4, <2>5
<1> QED BY <1>1, <1>2

(* Two disjoint parts of a set. *)
LEMMA TwoParts ==
    ASSUME NEW A, NEW B, NEW C, IsFiniteSet(C), A \subseteq C, B \subseteq C, A \cap B = {}
    PROVE  /\ IsFiniteSet(A) /\ IsFiniteSet(B)
           /\ Cardinality(A) \in Nat /\ Cardinality(B) \in Nat /\ Cardinality(C) \in Nat
           /\ Cardinality(A) + Cardinality(B) <= Cardinality(C)
<1>1. IsFiniteSet(A) /\ IsFiniteSet(B) /\ IsFiniteSet(A \cup B)
      /\ Cardinality(A \cup B) <= Cardinality(C)
  <2>1. A \in SUBSET C /\ B \in SUBSET C /\ A \cup B \in SUBSET C
    OBVIOUS
  <2> QED BY <2>1, FS_Subset
<1>2. /\ Cardinality(A \cup B) = Cardinality(A) + Cardinality(B) - Cardinality(A \cap B)
      /\ Cardinality(A \cap B) = 0
  BY <1>1, FS_Union, FS_EmptySet
<1>3. Cardinality(A) \in Nat /\ Cardinality(B) \in Nat /\ Cardinality(C) \in Nat
  BY <1>1, FS_CardinalityType
<1> QED BY <1>1, <1>2, <1>3

-----------------------------------------------------------------------------
(* The order of the documents *)

(* How many documents of a set come no later than one. *)
Before(set, d) == {e \in set : Docs[e].sort <= Docs[d].sort}

PositionIn(set, d) == Cardinality(Before(set, d))

Distinct(set) ==
    /\ set \subseteq DOMAIN Docs /\ IsFiniteSet(set)
    /\ \A d \in DOMAIN Docs : Docs[d].sort \in Int
    /\ \A d, e \in DOMAIN Docs : d # e => Docs[d].sort # Docs[e].sort

LEMMA PositionType ==
    ASSUME NEW set, Distinct(set)
    PROVE  \A d : /\ IsFiniteSet(Before(set, d)) /\ PositionIn(set, d) \in Nat
                  /\ PositionIn(set, d) <= Cardinality(set)
                  /\ Cardinality(set) \in Nat
<1>1. \A d : Before(set, d) \in SUBSET set
  BY DEF Before
<1>2. IsFiniteSet(set)
  BY DEF Distinct
<1> QED BY <1>1, <1>2, FS_Subset, FS_CardinalityType DEF PositionIn

(* No two documents are in one position.                                   *)
LEMMA OnePosition ==
    ASSUME NEW set, Distinct(set), NEW d \in set, NEW e \in set,
           PositionIn(set, d) = PositionIn(set, e)
    PROVE  d = e
<1>1. \A x, y \in set : Docs[x].sort <= Docs[y].sort => Before(set, x) \in SUBSET Before(set, y)
  BY DEF Distinct, Before
<1>2. \A x, y \in set : Docs[x].sort <= Docs[y].sort \/ Docs[y].sort <= Docs[x].sort
  BY DEF Distinct
<1>3. ASSUME NEW x \in set, NEW y \in set, Docs[x].sort <= Docs[y].sort,
             PositionIn(set, x) = PositionIn(set, y)
      PROVE  x = y
  <2>1. Before(set, x) = Before(set, y)
    BY <1>1, <1>3, PositionType, FS_Subset DEF PositionIn
  <2>2. y \in Before(set, x)
    <3>1. y \in Before(set, y)
      BY DEF Before, Distinct
    <3> QED BY <2>1, <3>1
  <2> QED BY <1>3, <2>2 DEF Before, Distinct
<1> QED BY <1>2, <1>3

(* A document that comes, or one that goes, moves no other by more than    *)
(* one position.                                                           *)
LEMMA PositionShift ==
    ASSUME NEW set, NEW doc \in DOMAIN Docs, Distinct(set), doc \notin set
    PROVE  /\ Distinct(set \cup {doc})
           /\ \A d : /\ PositionIn(set, d) <= PositionIn(set \cup {doc}, d)
                     /\ PositionIn(set \cup {doc}, d) <= PositionIn(set, d) + 1
<1>1. Distinct(set \cup {doc})
  BY FS_AddElement DEF Distinct
<1>2. ASSUME NEW d
      PROVE  /\ PositionIn(set, d) <= PositionIn(set \cup {doc}, d)
             /\ PositionIn(set \cup {doc}, d) <= PositionIn(set, d) + 1
  <2>1. /\ Before(set, d) \in SUBSET Before(set \cup {doc}, d)
        /\ Before(set \cup {doc}, d) \subseteq Before(set, d) \cup {doc}
    BY DEF Before
  <2>2. IsFiniteSet(Before(set, d)) /\ IsFiniteSet(Before(set \cup {doc}, d))
    BY <1>1, PositionType
  <2>3. \A x, y \in {doc} : x = y
    OBVIOUS
  <2> QED BY <2>1, <2>2, <2>3, FS_Subset, OneMore DEF PositionIn
<1> QED BY <1>1, <1>2

(* A request's order gives each document its position.                     *)
LEMMA OrderPositions ==
    ASSUME NEW set, Distinct(set), NEW order \in [1..Cardinality(set) -> set],
           \A i, j \in DOMAIN order :
               i < j => order[i] # order[j] /\ Docs[order[i]].sort <= Docs[order[j]].sort
    PROVE  /\ \A i \in DOMAIN order : PositionIn(set, order[i]) = i
           /\ \A d \in set : \E i \in DOMAIN order : order[i] = d
<1> DEFINE n == Cardinality(set)
<1>1. n \in Nat /\ DOMAIN order = 1..n /\ IsFiniteSet(set)
  BY PositionType DEF Distinct
<1>2. \A i, j \in 1..n : order[i] = order[j] => i = j
  <2>1. \A i, j \in 1..n : i # j => i < j \/ j < i
    OBVIOUS
  <2> QED BY <1>1, <2>1
<1>3. \A d \in set : \E i \in 1..n : order[i] = d
  <2>1. order \in Injection(1..n, set)
    BY <1>1, <1>2 DEF Injection, IsInjective
  <2>2. Cardinality(1..n) = Cardinality(set)
    BY <1>1, FirstNumbers
  <2>3. order \in Surjection(1..n, set)
    BY <1>1, <2>1, <2>2, FS_Injection
  <2> QED BY <2>3 DEF Surjection
<1>4. \A i, j \in 1..n : Docs[order[i]].sort <= Docs[order[j]].sort <=> i <= j
  <2> TAKE i, j \in 1..n
  <2>1. order[i] \in DOMAIN Docs /\ order[j] \in DOMAIN Docs
    BY <1>1 DEF Distinct
  <2>2. Docs[order[i]].sort \in Int /\ Docs[order[j]].sort \in Int
    BY <2>1 DEF Distinct
  <2>3. i < j => Docs[order[i]].sort < Docs[order[j]].sort
    BY <1>1, <2>1, <2>2 DEF Distinct
  <2>4. j < i => Docs[order[j]].sort < Docs[order[i]].sort
    BY <1>1, <2>1, <2>2 DEF Distinct
  <2>5. i = j => Docs[order[i]].sort = Docs[order[j]].sort
    OBVIOUS
  <2> QED BY <2>2, <2>3, <2>4, <2>5
<1>5. ASSUME NEW i \in 1..n
      PROVE  PositionIn(set, order[i]) = i
  <2> DEFINE B == Before(set, order[i])
             g == [k \in 1..i |-> order[k]]
  <2>1. i \in Nat /\ \A k \in 1..i : k \in 1..n /\ k <= i
    BY <1>1
  <2>2. g \in [1..i -> B]
    <3>1. \A k \in 1..i : order[k] \in B
      BY <1>1, <1>4, <2>1 DEF Before
    <3> QED BY <3>1
  <2>3. \A d \in B : \E k \in 1..i : g[k] = d
    <3> TAKE d \in B
    <3>1. d \in set /\ Docs[d].sort <= Docs[order[i]].sort
      BY DEF Before
    <3>2. PICK k \in 1..n : order[k] = d
      BY <1>3, <3>1
    <3>3. k \in 1..i
      BY <1>4, <3>1, <3>2
    <3> QED BY <3>2, <3>3
  <2>4. \A k, l \in 1..i : g[k] = g[l] => k = l
    BY <1>2, <2>1
  <2>5. g \in Bijection(1..i, B)
    <3> HIDE DEF g, B
    <3> QED BY <2>2, <2>3, <2>4 DEF Bijection, Injection, IsInjective, Surjection
  <2>6. Cardinality(B) = i
    <3> HIDE DEF g, B
    <3> QED BY <2>1, <2>5, FirstNumbers, FS_Bijection DEF ExistsBijection
  <2> QED BY <2>6 DEF PositionIn
<1> QED BY <1>1, <1>3, <1>5

-----------------------------------------------------------------------------
(* What a page adds to the events *)

LEMMA HitOne ==
    ASSUME input.source \in LogTypes
    PROVE  \A item : EventFromHit(item) = <<>> \/ EventFromHit(item) = <<EventFromHit(item)[1]>>
<1> TAKE item
<1>1. CASE item.form = "normalized" /\ item.event.ts # BadTime
  BY <1>1 DEF EventFromHit
<1>2. CASE ~(item.form = "normalized" /\ item.event.ts # BadTime)
  <2>1. EventFromHit(item) = ParseRaw(input.source, item, input.now.year)
    BY <1>2 DEF EventFromHit
  <2>2. \/ ParseRaw(input.source, item, input.now.year) = <<>>
        \/ ParseRaw(input.source, item, input.now.year)
             = <<ParseRaw(input.source, item, input.now.year)[1]>>
    BY ParsedOne
  <2> QED BY <2>1, <2>2, Zenon
<1> QED BY <1>1, <1>2

(* Distinct hits load as many events as there are wanted documents among   *)
(* them, one from each.                                                    *)
LEMMA PageLoads ==
    ASSUME input.source \in LogTypes, NEW D, NEW hits \in Seq(D),
           \A i, j \in DOMAIN hits : hits[i] = hits[j] => i = j
    PROVE  LET loaded == [i \in DOMAIN hits |-> Taken(hits[i], EventFromHit(Docs[hits[i]].content))]
               flat == FlattenSeq(loaded)
               wanted == {hits[i] : i \in {j \in DOMAIN hits : Wanted(hits[j])}}
           IN /\ IsSequence(flat)
              /\ {flat[k].from : k \in DOMAIN flat} = wanted
              /\ IsFiniteSet(wanted) /\ Len(flat) = Cardinality(wanted)
<1> DEFINE parsed == [i \in DOMAIN hits |-> EventFromHit(Docs[hits[i]].content)]
           loaded == [i \in DOMAIN hits |-> Taken(hits[i], EventFromHit(Docs[hits[i]].content))]
           flat == FlattenSeq(loaded)
           I == {j \in DOMAIN hits : Wanted(hits[j])}
           wanted == {hits[i] : i \in I}
           U == {loaded[i] : i \in DOMAIN hits}
<1>1. /\ loaded \in Seq(U) /\ DOMAIN loaded = DOMAIN hits
      /\ \A i \in DOMAIN hits : loaded[i] = Taken(hits[i], parsed[i])
  OBVIOUS
<1>2. \A i \in DOMAIN hits : /\ i \in I <=> parsed[i] # <<>>
                             /\ parsed[i] = <<>> \/ parsed[i] = <<parsed[i][1]>>
  BY HitOne DEF Wanted
<1>3. I \in SUBSET DOMAIN hits
  OBVIOUS
<1>4. EventsOf(flat, hits, I)
  <2>1. flat = FlattenSeq(loaded)
    OBVIOUS
  <2> HIDE DEF parsed, loaded, flat, I, U
  <2> QED BY <1>1, <1>2, <1>3, <2>1, TakenAll
<1>5. {flat[k].from : k \in DOMAIN flat} = wanted
  <2>1. \A k \in DOMAIN flat : \E i \in I : flat[k].from = hits[i]
    <3> HIDE DEF I, flat
    <3> QED BY <1>4 DEF EventsOf
  <2>2. \A i \in I : \E k \in DOMAIN flat : flat[k].from = hits[i]
    <3> HIDE DEF I, flat
    <3> QED BY <1>4 DEF EventsOf
  <2>3. wanted = {hits[i] : i \in I}
    OBVIOUS
  <2> HIDE DEF I, flat, wanted
  <2> QED BY <2>1, <2>2, <2>3
<1>6. IsFiniteSet(wanted) /\ Cardinality(wanted) = Cardinality(I)
  <2> DEFINE g == [i \in I |-> hits[i]]
  <2>1. \A i, j \in I : g[i] = g[j] => i = j
    OBVIOUS
  <2>2. g \in [I -> wanted] /\ \A d \in wanted : \E i \in I : g[i] = d
    <3> HIDE DEF I
    <3> QED OBVIOUS
  <2>3. g \in Bijection(I, wanted)
    <3> HIDE DEF g, wanted, I
    <3> QED BY <2>1, <2>2 DEF Bijection, Injection, IsInjective, Surjection
  <2> HIDE DEF g, wanted, I, flat
  <2> QED BY <1>4, <2>3, FS_Bijection DEF ExistsBijection, EventsOf
<1>7. IsSequence(flat) /\ Len(flat) = Cardinality(I)
  <2> HIDE DEF flat, I
  <2> QED BY <1>4 DEF EventsOf
<1> HIDE DEF flat, I
<1> QED BY <1>5, <1>6, <1>7 DEF flat, I

-----------------------------------------------------------------------------
(* A page of the request's order *)

LEMMA Stretch ==
    ASSUME NEW S, NEW s \in Seq(S), NEW from \in Nat, NEW last \in Nat, last <= Len(s)
    PROVE  LET t == SubSeq(s, from + 1, last)
               count == IF from < last THEN last - from ELSE 0
           IN /\ t \in Seq(S) /\ Len(t) = count /\ DOMAIN t = 1..count
              /\ \A i \in 1..count : from + i \in 1..Len(s) /\ t[i] = s[from + i]
<1>1. Len(s) \in Nat /\ DOMAIN s = 1..Len(s)
  OBVIOUS
<1>2. CASE from < last
  BY <1>1, <1>2
<1>3. CASE ~(from < last)
  <2>1. SubSeq(s, from + 1, last) = <<>>
    BY <1>1, <1>3
  <2> QED BY <1>3, <2>1
<1> QED BY <1>2, <1>3

LEMMA PageHits ==
    ASSUME NEW set, Distinct(set), NEW order \in [1..Cardinality(set) -> set],
           \A i, j \in DOMAIN order :
               i < j => order[i] # order[j] /\ Docs[order[i]].sort <= Docs[order[j]].sort,
           NEW from \in Nat, NEW size \in Nat \ {0}
    PROVE  LET hits == SubSeq(order, from + 1, Min({from + size, Len(order)}))
           IN /\ hits \in Seq(set) /\ Len(hits) \in Nat
              /\ \A i, j \in DOMAIN hits : hits[i] = hits[j] => i = j
              /\ {hits[i] : i \in DOMAIN hits}
                   = {d \in set : PositionIn(set, d) > from /\ PositionIn(set, d) <= from + Len(hits)}
              /\ Len(hits) < size => \A d \in set : PositionIn(set, d) <= from + Len(hits)
<1> DEFINE n == Cardinality(set)
           last == Min({from + size, Len(order)})
           hits == SubSeq(order, from + 1, last)
           count == IF from < last THEN last - from ELSE 0
<1>1. n \in Nat /\ DOMAIN order = 1..n /\ order \in Seq(set) /\ Len(order) = n
  BY PositionType
<1>2. last = IF from + size <= n THEN from + size ELSE n
  <2> HIDE DEF n
  <2>1. \E x \in {from + size, Len(order)} : \A y \in {from + size, Len(order)} : x <= y
    BY <1>1
  <2>2. last \in {from + size, n} /\ \A y \in {from + size, n} : last <= y
    BY <1>1, <2>1 DEF Min
  <2> QED BY <1>1, <2>2
<1>3. /\ last \in Nat /\ count \in Nat /\ last <= n
      /\ count # 0 => from + count <= n
      /\ count < size => from + count >= n
  <2> HIDE DEF n, last
  <2> QED BY <1>1, <1>2
<1>4. /\ hits \in Seq(set) /\ Len(hits) = count /\ DOMAIN hits = 1..count
      /\ \A i \in 1..count : from + i \in 1..n /\ hits[i] = order[from + i]
  <2> HIDE DEF n, last
  <2>1. last <= Len(order)
    BY <1>1, <1>3
  <2> HIDE DEF hits, count
  <2>2. /\ hits \in Seq(set) /\ Len(hits) = count /\ DOMAIN hits = 1..count
        /\ \A i \in 1..count : from + i \in 1..Len(order) /\ hits[i] = order[from + i]
    BY <1>1, <1>3, <2>1, Stretch, Zenon DEF hits, count
  <2> QED BY <1>1, <2>2
<1> HIDE DEF n, last, count, hits
<1>5. /\ \A i \in 1..n : PositionIn(set, order[i]) = i
      /\ \A d \in set : \E i \in 1..n : order[i] = d
  BY <1>1, OrderPositions
<1>6. \A i \in 1..count : hits[i] \in set /\ PositionIn(set, hits[i]) = from + i
  BY <1>1, <1>4, <1>5
<1>7. \A i, j \in DOMAIN hits : hits[i] = hits[j] => i = j
  <2>1. \A i, j \in 1..count : from + i = from + j => i = j
    BY <1>3
  <2> QED BY <1>4, <1>6, <2>1
<1>8. ASSUME NEW d \in set, PositionIn(set, d) > from, PositionIn(set, d) <= from + count
      PROVE  \E i \in DOMAIN hits : hits[i] = d
  <2>1. PICK k \in 1..n : order[k] = d
    BY <1>5
  <2>2. PositionIn(set, d) = k
    BY <1>5, <2>1
  <2>3. k - from \in 1..count /\ from + (k - from) = k
    BY <1>1, <1>3, <1>8, <2>2
  <2> QED BY <1>4, <2>1, <2>3
<1>9. {hits[i] : i \in DOMAIN hits}
        = {d \in set : PositionIn(set, d) > from /\ PositionIn(set, d) <= from + count}
  <2>1. \A i \in DOMAIN hits : /\ hits[i] \in set
                               /\ PositionIn(set, hits[i]) > from
                               /\ PositionIn(set, hits[i]) <= from + count
    <3>1. \A i \in 1..count : from + i > from /\ from + i <= from + count
      BY <1>3
    <3> QED BY <1>4, <1>6, <3>1
  <2> QED BY <1>8, <2>1
<1>10. count < size => \A d \in set : PositionIn(set, d) <= from + count
  <2>1. \A d \in set : PositionIn(set, d) \in Nat /\ PositionIn(set, d) <= n
    BY PositionType DEF n
  <2> QED BY <1>1, <1>3, <2>1
<1>11. /\ hits \in Seq(set) /\ Len(hits) \in Nat
       /\ \A i, j \in DOMAIN hits : hits[i] = hits[j] => i = j
       /\ {hits[i] : i \in DOMAIN hits}
            = {d \in set : PositionIn(set, d) > from /\ PositionIn(set, d) <= from + Len(hits)}
       /\ Len(hits) < size => \A d \in set : PositionIn(set, d) <= from + Len(hits)
  BY <1>3, <1>4, <1>7, <1>9, <1>10
<1> QED BY <1>11, Zenon DEF hits, last

-----------------------------------------------------------------------------
(* The invariant of a pull.  What is read is put against what the index    *)
(* holds now: a document that was there all along and has not been read    *)
(* though its position has been passed was pushed back by one that went,   *)
(* and one that has been read and will come again was pushed on by one     *)
(* that came.                                                              *)

Pulling == input.command = "elastic" /\ Untied

Sources == {events[i].from : i \in DOMAIN events}

Missed == {d \in index \ inserted : Wanted(d) /\ d \notin Sources /\ PositionIn(index, d) <= offset}

Repeatable == {d \in index \cap Sources : PositionIn(index, d) > offset}

IndexTypes ==
    /\ input \in Inputs /\ Distinct(index)
    /\ removed \subseteq DOMAIN Docs /\ index \cap removed = {}
    /\ inserted \subseteq index \cup removed
    /\ IsSequence(events) /\ Sources \subseteq index \cup removed
    /\ offset \in Nat

PagingInv ==
    Pulling =>
        /\ IndexTypes
        /\ Cardinality(Missed) <= Cardinality(removed)
        /\ Len(events) + Cardinality(Repeatable) <= Cardinality(Sources) + Cardinality(inserted)
        /\ phase = "read" => \A d \in index : PositionIn(index, d) <= offset

LEMMA Documents ==
    ASSUME input \in Inputs, Pulling
    PROVE  /\ IsFiniteSet(DOMAIN Docs) /\ \A set \in SUBSET DOMAIN Docs : Distinct(set)
           /\ input.source \in LogTypes /\ input.page_size \in Nat \ {0}
<1>1. /\ Docs = input.docs /\ Len(Docs) \in Nat /\ DOMAIN Docs = 1..Len(Docs)
      /\ \A d \in DOMAIN Docs : Docs[d].sort \in Int
      /\ input.page_size \in Nat \ {0} /\ input.source \in LogTypes
  <2>1. Docs = input.docs
    BY DEF Pulling, Docs
  <2>2. Docs \in Seq({Docs[n] : n \in DOMAIN Docs})
    BY <2>1, PagingAssumption DEF Pulling
  <2>3. Len(Docs) \in Nat /\ DOMAIN Docs = 1..Len(Docs)
    BY <2>2
  <2>4. \A d \in DOMAIN Docs : Docs[d].sort \in Int
    BY <2>1, PagingAssumption DEF Pulling
  <2>5. input.page_size \in Nat \ {0} /\ input.source \in LogTypes
    BY PagingAssumption, InputsAssumption DEF Pulling
  <2> QED BY <2>1, <2>3, <2>4, <2>5
<1>2. IsFiniteSet(DOMAIN Docs)
  BY <1>1, FirstNumbers
<1>3. \A set \in SUBSET DOMAIN Docs : Distinct(set)
  <2> TAKE set \in SUBSET DOMAIN Docs
  <2>1. IsFiniteSet(set)
    BY <1>2, FS_Subset
  <2> QED BY <1>1, <2>1 DEF Distinct, Pulling, Untied
<1> QED BY <1>1, <1>2, <1>3

LEMMA PullFinite ==
    ASSUME IndexTypes, Pulling
    PROVE  /\ IsFiniteSet(index) /\ IsFiniteSet(inserted) /\ IsFiniteSet(removed)
           /\ IsFiniteSet(Sources) /\ IsFiniteSet(Missed) /\ IsFiniteSet(Repeatable)
           /\ Cardinality(inserted) \in Nat /\ Cardinality(removed) \in Nat
           /\ Cardinality(Sources) \in Nat /\ Cardinality(Missed) \in Nat
           /\ Cardinality(Repeatable) \in Nat /\ Len(events) \in Nat
           /\ \A d : PositionIn(index, d) \in Nat
<1>1. IsFiniteSet(DOMAIN Docs)
  BY Documents DEF IndexTypes
<1>2. {index, inserted, removed, Sources, Missed, Repeatable} \subseteq SUBSET DOMAIN Docs
  BY DEF IndexTypes, Distinct, Missed, Repeatable
<1>3. \A S \in SUBSET DOMAIN Docs : IsFiniteSet(S) /\ Cardinality(S) \in Nat
  BY <1>1, FS_Subset, FS_CardinalityType
<1>4. Len(events) \in Nat
  BY DEF IndexTypes, IsSequence
<1>5. \A d : PositionIn(index, d) \in Nat
  BY PositionType DEF IndexTypes
<1> QED BY <1>2, <1>3, <1>4, <1>5

LEMMA PagingInit == Init => PagingInv
<1> SUFFICES ASSUME Init, Pulling
             PROVE  PagingInv
  BY DEF PagingInv
<1>1. /\ input \in Inputs /\ events = <<>> /\ phase = "reading" /\ offset = 0
      /\ index \in SUBSET DOMAIN Docs /\ inserted = {} /\ removed = {}
  BY DEF Init, PullInit
<1>2. events \in Seq({}) /\ Len(events) = 0 /\ DOMAIN events = {}
  BY <1>1
<1>3. Sources = {} /\ IsSequence(events)
  BY <1>2 DEF Sources, IsSequence
<1>4. IndexTypes
  BY <1>1, <1>3, Documents DEF IndexTypes
<1>5. Missed = {}
  <2>1. \A d \in index : d \in Before(index, d) /\ IsFiniteSet(Before(index, d))
    BY <1>4, PositionType DEF IndexTypes, Distinct, Before
  <2>2. \A d \in index : PositionIn(index, d) \in Nat /\ PositionIn(index, d) # 0
    BY <1>4, <2>1, PullFinite, FS_EmptySet DEF PositionIn
  <2> QED BY <1>1, <2>2 DEF Missed
<1>6. Repeatable = {}
  BY <1>3 DEF Repeatable
<1> QED BY <1>1, <1>2, <1>3, <1>4, <1>5, <1>6, FS_EmptySet DEF PagingInv

(* What the documents are does not change. *)
LEMMA DocumentsKept ==
    ASSUME input' = input
    PROVE  /\ Pulling' = Pulling /\ Docs' = Docs
           /\ \A set, d : PositionIn(set, d)' = PositionIn(set, d)
           /\ \A d : Wanted(d)' = Wanted(d)
           /\ Distinct(index)' <=> Distinct(index')
  BY DEF Pulling, Untied, Docs, PositionIn, Before, Wanted, EventFromHit, Distinct

LEMMA ComesKeeps ==
    ASSUME PagingInv, Pulling, NEW doc \in DOMAIN Docs, DocumentComes(doc)
    PROVE  PagingInv'
<1>1. /\ input' = input /\ events' = events /\ phase' = phase /\ offset' = offset
      /\ removed' = removed /\ index' = index \cup {doc} /\ inserted' = inserted \cup {doc}
      /\ doc \notin index \cup removed /\ phase = "reading"
  BY DEF DocumentComes, Pull, Reading
<1>2. IndexTypes /\ Sources' = Sources
  BY <1>1 DEF PagingInv, Sources
<1>3. doc \notin inserted /\ doc \notin Sources
  BY <1>1, <1>2 DEF IndexTypes
<1>4. /\ Distinct(index \cup {doc})
      /\ \A d : /\ PositionIn(index, d) <= PositionIn(index', d)
                /\ PositionIn(index', d) <= PositionIn(index, d) + 1
                /\ PositionIn(index', d) \in Nat
  <2>1. Distinct(index)
    BY <1>2 DEF IndexTypes
  <2>2. Distinct(index \cup {doc})
    BY <1>1, <2>1, PositionShift
  <2> QED BY <1>1, <2>1, <2>2, PositionShift, PositionType
<1>5. IndexTypes'
  <2>1. Distinct(index)'
    BY <1>1, <1>4, DocumentsKept
  <2> QED BY <1>1, <1>2, <2>1, DocumentsKept DEF IndexTypes, IsSequence
<1>6. Missed' \subseteq Missed
  <2>1. Missed' = {d \in index' \ inserted' :
                      Wanted(d) /\ d \notin Sources /\ PositionIn(index', d) <= offset}
    BY <1>1, <1>2, DocumentsKept DEF Missed
  <2>2. offset \in Nat /\ \A d : PositionIn(index, d) \in Nat
    BY <1>2, PullFinite DEF IndexTypes
  <2>3. ASSUME NEW d \in Missed'
        PROVE  d \in Missed
    <3>1. PositionIn(index, d) <= offset
      BY <1>4, <2>1, <2>2
    <3>2. d \in index \ inserted
      BY <1>1, <2>1
    <3> QED BY <2>1, <3>1, <3>2 DEF Missed
  <2> QED BY <2>3
<1>7. Repeatable' \subseteq Repeatable \cup {d \in index : PositionIn(index, d) = offset}
  <2>1. Repeatable' = {d \in index' \cap Sources : PositionIn(index', d) > offset}
    BY <1>1, <1>2, DocumentsKept DEF Repeatable
  <2>2. offset \in Nat /\ \A d : PositionIn(index, d) \in Nat
    BY <1>2, PullFinite DEF IndexTypes
  <2>3. ASSUME NEW d \in Repeatable'
        PROVE  d \in Repeatable \/ (d \in index /\ PositionIn(index, d) = offset)
    <3>1. d \in index \cap Sources
      BY <1>1, <1>3, <2>1
    <3>2. PositionIn(index, d) >= offset
      BY <1>4, <2>1, <2>2
    <3> QED BY <2>2, <3>1, <3>2 DEF Repeatable
  <2> QED BY <2>3
<1>8. Cardinality(inserted') = Cardinality(inserted) + 1
  BY <1>1, <1>2, <1>3, PullFinite, FS_AddElement
<1>9. Cardinality(Missed') <= Cardinality(Missed) /\ Cardinality(Missed') \in Nat
  BY <1>2, <1>6, PullFinite, FS_Subset, FS_CardinalityType
<1>10. Cardinality(Repeatable') <= Cardinality(Repeatable) + 1 /\ Cardinality(Repeatable') \in Nat
  <2>1. \A x, y \in {d \in index : PositionIn(index, d) = offset} : x = y
    BY <1>2, OnePosition DEF IndexTypes
  <2>2. IsFiniteSet(Repeatable)
    BY <1>2, PullFinite
  <2> QED BY <1>7, <2>1, <2>2, OneMore
<1>11. /\ Cardinality(Missed') <= Cardinality(removed')
       /\ Len(events') + Cardinality(Repeatable') <= Cardinality(Sources') + Cardinality(inserted')
  <2>1. /\ Cardinality(Missed) <= Cardinality(removed)
        /\ Len(events) + Cardinality(Repeatable) <= Cardinality(Sources) + Cardinality(inserted)
    BY DEF PagingInv
  <2>2. /\ Cardinality(Missed) \in Nat /\ Cardinality(removed) \in Nat
        /\ Cardinality(Repeatable) \in Nat /\ Cardinality(Sources) \in Nat
        /\ Cardinality(inserted) \in Nat /\ Len(events) \in Nat
    BY <1>2, PullFinite
  <2>3. removed' = removed /\ events' = events /\ Sources' = Sources
    BY <1>1, <1>2
  <2> QED BY <1>8, <1>9, <1>10, <2>1, <2>2, <2>3
<1> QED BY <1>1, <1>5, <1>11 DEF PagingInv

LEMMA GoesKeeps ==
    ASSUME PagingInv, Pulling, NEW doc \in DOMAIN Docs, DocumentGoes(doc)
    PROVE  PagingInv'
<1>1. /\ input' = input /\ events' = events /\ phase' = phase /\ offset' = offset
      /\ inserted' = inserted /\ index' = index \ {doc} /\ removed' = removed \cup {doc}
      /\ doc \in index /\ phase = "reading"
  BY DEF DocumentGoes, Pull, Reading
<1>2. IndexTypes /\ Sources' = Sources
  BY <1>1 DEF PagingInv, Sources
<1>3. doc \notin removed
  BY <1>1, <1>2 DEF IndexTypes
<1>4. /\ Distinct(index')
      /\ \A d : /\ PositionIn(index', d) <= PositionIn(index, d)
                /\ PositionIn(index, d) <= PositionIn(index', d) + 1
                /\ PositionIn(index', d) \in Nat
  <2>1. Distinct(index')
    BY <1>1, <1>2, Documents DEF IndexTypes, Distinct
  <2>2. index = index' \cup {doc} /\ doc \notin index'
    BY <1>1
  <2>3. \A d : /\ PositionIn(index', d) <= PositionIn(index' \cup {doc}, d)
               /\ PositionIn(index' \cup {doc}, d) <= PositionIn(index', d) + 1
    BY <2>1, <2>2, PositionShift
  <2> QED BY <2>1, <2>2, <2>3, PositionType
<1>5. IndexTypes'
  <2>1. Distinct(index)'
    BY <1>1, <1>4, DocumentsKept
  <2> QED BY <1>1, <1>2, <2>1, DocumentsKept DEF IndexTypes, IsSequence
<1>6. Missed' \subseteq Missed \cup {d \in index : PositionIn(index, d) = offset + 1}
  <2>1. Missed' = {d \in index' \ inserted' :
                      Wanted(d) /\ d \notin Sources /\ PositionIn(index', d) <= offset}
    BY <1>1, <1>2, DocumentsKept DEF Missed
  <2>2. offset \in Nat /\ \A d : PositionIn(index, d) \in Nat
    BY <1>2, PullFinite DEF IndexTypes
  <2>3. ASSUME NEW d \in Missed'
        PROVE  d \in Missed \/ (d \in index /\ PositionIn(index, d) = offset + 1)
    <3>1. PositionIn(index, d) <= offset + 1
      BY <1>4, <2>1, <2>2
    <3>2. d \in index \ inserted
      BY <1>1, <2>1
    <3> QED BY <2>1, <2>2, <3>1, <3>2 DEF Missed
  <2> QED BY <2>3
<1>7. Repeatable' \subseteq Repeatable
  <2>1. Repeatable' = {d \in index' \cap Sources : PositionIn(index', d) > offset}
    BY <1>1, <1>2, DocumentsKept DEF Repeatable
  <2>2. offset \in Nat /\ \A d : PositionIn(index, d) \in Nat
    BY <1>2, PullFinite DEF IndexTypes
  <2>3. ASSUME NEW d \in Repeatable'
        PROVE  d \in Repeatable
    <3>1. d \in index \cap Sources
      BY <1>1, <2>1
    <3>2. PositionIn(index, d) > offset
      BY <1>4, <2>1, <2>2
    <3> QED BY <3>1, <3>2 DEF Repeatable
  <2> QED BY <2>3
<1>8. Cardinality(removed') = Cardinality(removed) + 1
  BY <1>1, <1>2, <1>3, PullFinite, FS_AddElement
<1>9. Cardinality(Missed') <= Cardinality(Missed) + 1 /\ Cardinality(Missed') \in Nat
  <2>1. \A x, y \in {d \in index : PositionIn(index, d) = offset + 1} : x = y
    BY <1>2, OnePosition DEF IndexTypes
  <2>2. IsFiniteSet(Missed)
    BY <1>2, PullFinite
  <2> QED BY <1>6, <2>1, <2>2, OneMore
<1>10. Cardinality(Repeatable') <= Cardinality(Repeatable) /\ Cardinality(Repeatable') \in Nat
  BY <1>2, <1>7, PullFinite, FS_Subset, FS_CardinalityType
<1>11. /\ Cardinality(Missed') <= Cardinality(removed')
       /\ Len(events') + Cardinality(Repeatable') <= Cardinality(Sources') + Cardinality(inserted')
  <2>1. /\ Cardinality(Missed) <= Cardinality(removed)
        /\ Len(events) + Cardinality(Repeatable) <= Cardinality(Sources) + Cardinality(inserted)
    BY DEF PagingInv
  <2>2. /\ Cardinality(Missed) \in Nat /\ Cardinality(removed) \in Nat
        /\ Cardinality(Repeatable) \in Nat /\ Cardinality(Sources) \in Nat
        /\ Cardinality(inserted) \in Nat /\ Len(events) \in Nat
    BY <1>2, PullFinite
  <2>3. inserted' = inserted /\ events' = events /\ Sources' = Sources
    BY <1>1, <1>2
  <2> QED BY <1>8, <1>9, <1>10, <2>1, <2>2, <2>3
<1> QED BY <1>1, <1>5, <1>11 DEF PagingInv

(* A page that gives its documents' events. *)
LEMMA PageRead ==
    ASSUME IndexTypes, Pulling, FetchPage
    PROVE  \E size \in Nat :
              /\ offset' = offset + size
              /\ IsSequence(events')
              /\ LET page == {d \in index : /\ PositionIn(index, d) > offset
                                            /\ PositionIn(index, d) <= offset + size}
                     wanted == {d \in page : Wanted(d)}
                 IN /\ Sources' = Sources \cup wanted
                    /\ IsFiniteSet(wanted) /\ Len(events') = Len(events) + Cardinality(wanted)
              /\ phase' = "read" => \A d \in index : PositionIn(index, d) <= offset + size
<1>1. /\ offset \in Nat /\ IsSequence(events) /\ Distinct(index)
      /\ input.source \in LogTypes /\ input.page_size \in Nat \ {0}
  BY Documents DEF IndexTypes
<1>2. PICK order \in Orders :
        LET hits == SubSeq(order, offset + 1, Min({offset + input.page_size, Len(order)}))
            loaded == [i \in DOMAIN hits |-> Taken(hits[i], EventFromHit(Docs[hits[i]].content))]
        IN /\ events' = events \o FlattenSeq(loaded)
           /\ offset' = Advanced(hits)
           /\ phase' = Outcome(hits)
  BY DEF FetchPage
<1> DEFINE hits == SubSeq(order, offset + 1, Min({offset + input.page_size, Len(order)}))
           loaded == [i \in DOMAIN hits |-> Taken(hits[i], EventFromHit(Docs[hits[i]].content))]
           flat == FlattenSeq(loaded)
           size == Len(hits)
           page == {d \in index : PositionIn(index, d) > offset /\ PositionIn(index, d) <= offset + size}
           wanted == {d \in page : Wanted(d)}
           of == {hits[i] : i \in {j \in DOMAIN hits : Wanted(hits[j])}}
<1>3. /\ order \in [1..Cardinality(index) -> index]
      /\ \A i, j \in DOMAIN order :
            i < j => order[i] # order[j] /\ Docs[order[i]].sort <= Docs[order[j]].sort
  BY <1>2 DEF Orders
<1>4. /\ hits \in Seq(index) /\ size \in Nat
      /\ \A i, j \in DOMAIN hits : hits[i] = hits[j] => i = j
      /\ {hits[i] : i \in DOMAIN hits} = page
      /\ size < input.page_size => \A d \in index : PositionIn(index, d) <= offset + size
  BY <1>1, <1>3, PageHits, Zenon
<1>5. /\ events' = events \o flat /\ offset' = offset + size /\ phase' = Outcome(hits)
  BY <1>2, Zenon DEF Advanced
<1>6. /\ IsSequence(flat) /\ {flat[k].from : k \in DOMAIN flat} = of
      /\ IsFiniteSet(of) /\ Len(flat) = Cardinality(of)
  <2> HIDE DEF hits, page
  <2>1. \A D : \A h \in Seq(D) :
           (\A i, j \in DOMAIN h : h[i] = h[j] => i = j)
           => LET l == [i \in DOMAIN h |-> Taken(h[i], EventFromHit(Docs[h[i]].content))]
                  f == FlattenSeq(l)
                  w == {h[i] : i \in {j \in DOMAIN h : Wanted(h[j])}}
              IN /\ IsSequence(f)
                 /\ {f[k].from : k \in DOMAIN f} = w
                 /\ IsFiniteSet(w) /\ Len(f) = Cardinality(w)
    BY <1>1, PageLoads
  <2> QED BY <1>4, <2>1, Zenon
<1>7. phase' = "read" => \A d \in index : PositionIn(index, d) <= offset + size
  <2>1. phase' = "read" => size < input.page_size
    BY <1>5, Zenon DEF Outcome
  <2> QED BY <1>4, <2>1, Zenon
<1> HIDE DEF hits, flat, size
<1>8. of = wanted
  BY <1>4
<1> HIDE DEF of, page
<1>9. /\ IsSequence(events') /\ Len(events') = Len(events) + Len(flat)
      /\ DOMAIN events = 1..Len(events) /\ DOMAIN flat = 1..Len(flat)
      /\ Len(events) \in Nat /\ Len(flat) \in Nat
      /\ DOMAIN events' = 1..(Len(events) + Len(flat))
      /\ \A i \in 1..Len(events) : events'[i] = events[i]
      /\ \A i \in 1..Len(flat) : events'[Len(events) + i] = flat[i]
  BY <1>1, <1>5, <1>6, Joined
<1>10. Sources' = Sources \cup of
  <2>1. ASSUME NEW i \in DOMAIN events'
        PROVE  events'[i].from \in Sources \cup of
    <3>1. CASE i <= Len(events)
      BY <1>9, <3>1 DEF Sources
    <3>2. CASE i > Len(events)
      <4>1. i - Len(events) \in DOMAIN flat /\ events'[i] = flat[i - Len(events)]
        BY <1>9, <3>2
      <4> QED BY <1>6, <4>1
    <3> QED BY <1>9, <3>1, <3>2
  <2>2. ASSUME NEW i \in DOMAIN events
        PROVE  \E k \in DOMAIN events' : events'[k].from = events[i].from
    BY <1>9
  <2>3. ASSUME NEW i \in DOMAIN flat
        PROVE  \E k \in DOMAIN events' : events'[k].from = flat[i].from
    BY <1>9
  <2> QED BY <1>6, <2>1, <2>2, <2>3 DEF Sources
<1> HIDE DEF wanted
<1>11. /\ Sources' = Sources \cup wanted
       /\ IsFiniteSet(wanted) /\ Len(events') = Len(events) + Cardinality(wanted)
  BY <1>6, <1>8, <1>9, <1>10
<1> QED BY <1>4, <1>5, <1>7, <1>9, <1>11 DEF wanted, page

LEMMA FetchKeeps ==
    ASSUME PagingInv, Pulling, FetchPage
    PROVE  PagingInv'
<1>1. /\ input' = input /\ index' = index /\ inserted' = inserted /\ removed' = removed
  BY DEF FetchPage, indexVars
<1>2. IndexTypes
  BY DEF PagingInv
<1>3. PICK size \in Nat :
         /\ offset' = offset + size
         /\ IsSequence(events')
         /\ LET page == {d \in index : /\ PositionIn(index, d) > offset
                                       /\ PositionIn(index, d) <= offset + size}
                wanted == {d \in page : Wanted(d)}
            IN /\ Sources' = Sources \cup wanted
               /\ IsFiniteSet(wanted) /\ Len(events') = Len(events) + Cardinality(wanted)
         /\ phase' = "read" => \A d \in index : PositionIn(index, d) <= offset + size
  BY <1>2, PageRead
<1> DEFINE page == {d \in index : /\ PositionIn(index, d) > offset
                                  /\ PositionIn(index, d) <= offset + size}
           wanted == {d \in page : Wanted(d)}
<1>4. /\ Sources' = Sources \cup wanted
      /\ IsFiniteSet(wanted) /\ Len(events') = Len(events) + Cardinality(wanted)
      /\ wanted \subseteq index
  BY <1>3
<1>5. offset \in Nat /\ offset' \in Nat /\ \A d : PositionIn(index, d) \in Nat
  BY <1>2, <1>3, PullFinite DEF IndexTypes
<1>6. IndexTypes'
  <2>1. Distinct(index)'
    BY <1>1, <1>2, DocumentsKept DEF IndexTypes
  <2>2. IsSequence(events)'
    BY <1>3 DEF IsSequence
  <2>3. Sources' \subseteq index' \cup removed'
    BY <1>1, <1>2, <1>4 DEF IndexTypes
  <2>4. /\ input' \in Inputs /\ removed' \subseteq (DOMAIN Docs)' /\ index' \cap removed' = {}
        /\ inserted' \subseteq index' \cup removed'
    BY <1>1, <1>2, DocumentsKept DEF IndexTypes
  <2> QED BY <1>5, <2>1, <2>2, <2>3, <2>4 DEF IndexTypes
<1>7. Missed' \subseteq Missed
  <2>1. Missed' = {d \in index \ inserted :
                      Wanted(d) /\ d \notin Sources' /\ PositionIn(index, d) <= offset'}
    BY <1>1, DocumentsKept DEF Missed
  <2>2. ASSUME NEW d \in Missed'
        PROVE  d \in Missed
    <3>1. d \in index \ inserted /\ Wanted(d) /\ d \notin Sources /\ d \notin wanted
      BY <1>4, <2>1
    <3>2. PositionIn(index, d) <= offset + size
      BY <1>3, <2>1
    <3>3. PositionIn(index, d) <= offset
      BY <1>5, <3>1, <3>2
    <3> QED BY <3>1, <3>3 DEF Missed
  <2> QED BY <2>2
<1>8. /\ Repeatable' \subseteq Repeatable /\ Sources \cap wanted \subseteq Repeatable
      /\ Repeatable' \cap (Sources \cap wanted) = {}
  <2>1. Repeatable' = {d \in index \cap Sources' : PositionIn(index, d) > offset'}
    BY <1>1, DocumentsKept DEF Repeatable
  <2>2. \A d \in wanted : PositionIn(index, d) > offset /\ ~(PositionIn(index, d) > offset')
    BY <1>3, <1>5
  <2>3. \A d : PositionIn(index, d) > offset' => PositionIn(index, d) > offset
    BY <1>3, <1>5
  <2> HIDE DEF wanted
  <2> QED BY <1>4, <2>1, <2>2, <2>3 DEF Repeatable
<1> HIDE DEF wanted
<1>9. Cardinality(Missed') <= Cardinality(Missed) /\ Cardinality(Missed') \in Nat
  BY <1>2, <1>7, PullFinite, FS_Subset, FS_CardinalityType
<1>10. Cardinality(Repeatable') + Cardinality(Sources \cap wanted) <= Cardinality(Repeatable)
       /\ Cardinality(Repeatable') \in Nat /\ Cardinality(Sources \cap wanted) \in Nat
  BY <1>2, <1>8, PullFinite, TwoParts
<1>11. /\ Cardinality(Sources') = Cardinality(Sources) + Cardinality(wanted)
                                    - Cardinality(Sources \cap wanted)
       /\ Cardinality(wanted) \in Nat
  BY <1>2, <1>4, PullFinite, FS_Union, FS_CardinalityType
<1>12. /\ Cardinality(Missed') <= Cardinality(removed')
       /\ Len(events') + Cardinality(Repeatable') <= Cardinality(Sources') + Cardinality(inserted')
  <2>1. /\ Cardinality(Missed) <= Cardinality(removed)
        /\ Len(events) + Cardinality(Repeatable) <= Cardinality(Sources) + Cardinality(inserted)
    BY DEF PagingInv
  <2>2. /\ Cardinality(Missed) \in Nat /\ Cardinality(removed) \in Nat
        /\ Cardinality(Repeatable) \in Nat /\ Cardinality(Sources) \in Nat
        /\ Cardinality(inserted) \in Nat /\ Len(events) \in Nat
    BY <1>2, PullFinite
  <2>3. Cardinality(removed') = Cardinality(removed) /\ Cardinality(inserted') = Cardinality(inserted)
    BY <1>1
  <2>4. Cardinality(Missed') <= Cardinality(removed')
    BY <1>9, <2>1, <2>2, <2>3
  <2>5. Len(events') = Len(events) + Cardinality(wanted)
    BY <1>4
  <2>6. Len(events') + Cardinality(Repeatable') <= Cardinality(Sources') + Cardinality(inserted')
    <3>1. PICK r, r1, s, s1, i, i1, l, l1, w, b :
             /\ r = Cardinality(Repeatable) /\ r1 = Cardinality(Repeatable')
             /\ s = Cardinality(Sources) /\ s1 = Cardinality(Sources')
             /\ i = Cardinality(inserted) /\ i1 = Cardinality(inserted')
             /\ l = Len(events) /\ l1 = Len(events') /\ w = Cardinality(wanted)
             /\ b = Cardinality(Sources \cap wanted)
      OBVIOUS
    <3>2. r \in Nat /\ r1 \in Nat /\ s \in Nat /\ i \in Nat /\ l \in Nat /\ w \in Nat /\ b \in Nat
      BY <1>10, <1>11, <2>2, <3>1
    <3>3. r1 + b <= r /\ s1 = s + w - b /\ l + r <= s + i /\ i1 = i /\ l1 = l + w
      BY <1>10, <1>11, <2>1, <2>3, <2>5, <3>1
    <3>4. l1 + r1 <= s1 + i1
      BY <3>2, <3>3
    <3> QED BY <3>1, <3>4
  <2> QED BY <2>4, <2>6
<1>13. phase' = "read" => \A d \in index' : PositionIn(index, d)' <= offset'
  BY <1>1, <1>3, DocumentsKept
<1> QED BY <1>6, <1>12, <1>13 DEF PagingInv

(* A step that neither changes the index nor loads events. *)
LEMMA RestKeeps ==
    ASSUME PagingInv,
           input' = input,
           Pulling => /\ UNCHANGED <<events, pullVars>>
                      /\ phase' = "read" => phase = "read"
    PROVE  PagingInv'
<1> SUFFICES ASSUME Pulling
             PROVE  PagingInv'
  BY DocumentsKept DEF PagingInv
<1>1. /\ events' = events /\ index' = index /\ inserted' = inserted /\ removed' = removed
      /\ offset' = offset
  BY DEF pullVars, indexVars
<1>2. /\ Sources' = Sources /\ Distinct(index)' /\ Docs' = Docs
      /\ \A d : PositionIn(index, d)' = PositionIn(index, d) /\ Wanted(d)' = Wanted(d)
  BY <1>1, DocumentsKept DEF Sources, PagingInv, IndexTypes
<1>3. Missed' = Missed /\ Repeatable' = Repeatable
  BY <1>1, <1>2 DEF Missed, Repeatable
<1>4. IndexTypes'
  BY <1>1, <1>2 DEF PagingInv, IndexTypes, IsSequence
<1> QED BY <1>1, <1>2, <1>3, <1>4 DEF PagingInv

LEMMA PagingNext == PagingInv /\ [Next]_vars => PagingInv'
<1> SUFFICES ASSUME PagingInv, [Next]_vars
             PROVE  PagingInv'
  OBVIOUS
<1>1. CASE ReadFile /\ UNCHANGED <<pullVars, findings>>
  <2>1. input' = input /\ input.command = "file"
    BY <1>1 DEF ReadFile, ReadSshdLine, BadDate, ReadNginxLine, StreamRecord, StreamBreaks, RereadLine,
                LoadOktaDocument, ReadOktaLine, EndOfFile, End, From, Reading, Read
  <2> QED BY <2>1, RestKeeps DEF Pulling
<1>2. CASE PullEvents
  <2>1. Pulling <=> Untied
    BY <1>2 DEF PullEvents, DocumentComes, DocumentGoes, FetchPage, RequestFails, Pull, Reading, Pulling
  <2>2. CASE ~Pulling
    <3>1. input' = input
      BY <1>2 DEF PullEvents, DocumentComes, DocumentGoes, FetchPage, RequestFails, End
    <3> QED BY <2>2, <3>1, RestKeeps
  <2>3. CASE Pulling
    <3>1. ASSUME NEW doc \in DOMAIN Docs, DocumentComes(doc)
          PROVE  PagingInv'
      BY <2>3, <3>1, ComesKeeps
    <3>2. ASSUME NEW doc \in DOMAIN Docs, DocumentGoes(doc)
          PROVE  PagingInv'
      BY <2>3, <3>2, GoesKeeps
    <3>3. CASE FetchPage
      BY <2>3, <3>3, FetchKeeps
    <3>4. CASE RequestFails
      BY <3>4, RestKeeps DEF RequestFails, End
    <3> QED BY <1>2, <3>1, <3>2, <3>3, <3>4 DEF PullEvents
  <2> QED BY <2>2, <2>3
<1>3. CASE ReadPayload
  <2>1. input' = input /\ input.command = "payload"
    BY <1>3 DEF ReadPayload, Reading, End
  <2> QED BY <2>1, RestKeeps DEF Pulling
<1>4. CASE Scan /\ UNCHANGED <<fileVars, pullVars>>
  BY <1>4, RestKeeps DEF Scan
<1>5. CASE Done \/ UNCHANGED vars
  BY <1>5, RestKeeps DEF Done, vars
<1> QED BY <1>1, <1>2, <1>3, <1>4, <1>5 DEF Next

THEOREM PagingInvariance == Spec => []PagingInv
  BY PagingInit, PagingNext, PTL DEF Spec

(* For every index, page size and number of changes: a pull that ends in   *)
(* an answer has missed no more of the documents that were there all along *)
(* than have gone meanwhile, and has read no more of them twice than have  *)
(* come (sources/elastic.py, fetch_events).                                *)
THEOREM PullLosesOnlyWhatMoved == Spec => []PagingLossBounded
<1>1. ASSUME PagingInv
      PROVE  PagingLossBounded
  <2> SUFFICES ASSUME Pulling, phase = "read"
               PROVE  /\ Cardinality({d \in index \ inserted : Wanted(d) /\ Times(d) = 0})
                            <= Cardinality(removed)
                      /\ Len(events) - Cardinality(ToSet(Origins)) <= Cardinality(inserted)
    BY DEF PagingLossBounded, Pulling
  <2>1. IndexTypes
    BY <1>1 DEF PagingInv
  <2>2. ToSet(Origins) = Sources
    BY DEF ToSet, Origins, Sources
  <2>3. \A d : Times(d) = 0 => d \notin Sources
    <3> SUFFICES ASSUME NEW d, d \in Sources, Times(d) = 0
                 PROVE  FALSE
      OBVIOUS
    <3> DEFINE J == {i \in DOMAIN events : Origins[i] = d}
    <3>1. J # {}
      BY DEF Sources, Origins
    <3>2. IsFiniteSet(J)
      <4>1. PICK S : events \in Seq(S)
        BY <2>1 DEF IndexTypes, IsSequence
      <4>2. Len(events) \in Nat /\ DOMAIN events = 1..Len(events)
        BY <4>1
      <4> QED BY <4>2, FirstNumbers, FS_Subset
    <3> HIDE DEF J
    <3>3. Cardinality(J) = 0
      BY DEF Times, J
    <3> QED BY <3>1, <3>2, <3>3, FS_EmptySet
  <2>4. {d \in index \ inserted : Wanted(d) /\ Times(d) = 0} \in SUBSET Missed
    BY <1>1, <2>3 DEF PagingInv, Missed
  <2>5. Cardinality({d \in index \ inserted : Wanted(d) /\ Times(d) = 0}) <= Cardinality(Missed)
        /\ Cardinality({d \in index \ inserted : Wanted(d) /\ Times(d) = 0}) \in Nat
    BY <2>1, <2>4, PullFinite, FS_Subset, FS_CardinalityType
  <2>6. /\ Cardinality(Missed) \in Nat /\ Cardinality(removed) \in Nat
        /\ Cardinality(Repeatable) \in Nat /\ Cardinality(Sources) \in Nat
        /\ Cardinality(inserted) \in Nat /\ Len(events) \in Nat
    BY <2>1, PullFinite
  <2>7. /\ Cardinality(Missed) <= Cardinality(removed)
        /\ Len(events) + Cardinality(Repeatable) <= Cardinality(Sources) + Cardinality(inserted)
    BY <1>1 DEF PagingInv
  <2> QED BY <2>2, <2>5, <2>6, <2>7
<1> QED BY <1>1, PagingInvariance, PTL

-----------------------------------------------------------------------------
(* The dict of an event *)

(* An event with another raw text and extra dict. *)
Carrying(e, raw, extra) ==
    [ts |-> e.ts, actor |-> e.actor, action |-> e.action, target |-> e.target,
     result |-> e.result, source |-> e.source, raw |-> raw, extra |-> extra]

LEMMA ExtraReplaced ==
    ASSUME NEW e, IsEvent(e), NEW x
    PROVE  [e EXCEPT !.extra = x] = Carrying(e, e.raw, x)
BY DEF IsEvent, Carrying

LEMMA RawReplaced ==
    ASSUME NEW e, IsEvent(e), NEW x, NEW raw
    PROVE  [e EXCEPT !.extra = x, !.raw = raw] = Carrying(e, raw, x)
<1>1. PICK c : c = [e EXCEPT !.extra = x]
  OBVIOUS
<1>2. c = Carrying(e, e.raw, x)
  BY <1>1, ExtraReplaced
<1>3. [c EXCEPT !.raw = raw] = Carrying(e, raw, x)
  BY <1>2 DEF Carrying
<1>4. [e EXCEPT !.extra = x, !.raw = raw] = [[e EXCEPT !.extra = x] EXCEPT !.raw = raw]
  OBVIOUS
<1> QED BY <1>1, <1>3, <1>4

LEMMA CarriedEvent ==
    ASSUME NEW e, NEW raw, NEW x, x = [k \in DOMAIN x |-> x[k]]
    PROVE  /\ IsEvent(Carrying(e, raw, x))
           /\ Carrying(e, raw, x).extra = x /\ Carrying(e, raw, x).raw = raw
           /\ Carrying(e, raw, x).ts = e.ts
           /\ Carrying(e, raw, x).actor = e.actor /\ Carrying(e, raw, x).action = e.action
           /\ Carrying(e, raw, x).target = e.target /\ Carrying(e, raw, x).result = e.result
           /\ Carrying(e, raw, x).source = e.source
BY DEF IsEvent, Carrying

(* The first of some keys that is among those given is one of both.        *)
LEMMA FirstKeyGiven ==
    ASSUME NEW S, NEW keys \in Seq(S), NEW given, ToSet(keys) \cap given # {}
    PROVE  FirstKey(keys, given) \in ToSet(keys) \cap given
<1> DEFINE found == {i \in DOMAIN keys : keys[i] \in given}
<1>1. found \in SUBSET Nat /\ found # {}
  BY DEF ToSet
<1>2. Min(found) \in found
  <2> HIDE DEF found
  <2> QED BY <1>1, LeastOf
<1>3. FirstKey(keys, given) = keys[Min(found)]
  BY DEF FirstKey
<1> QED BY <1>2, <1>3 DEF ToSet

LEMMA FirstOfKeys ==
    ASSUME NEW S, NEW keys \in Seq(S), NEW extra, NEW empty, None \in empty
    PROVE  \/ /\ FirstOf(extra, keys, empty) = None
              /\ \A k \in ToSet(keys) : Get(extra, k) \in empty
           \/ \E k \in ToSet(keys) \cap DOMAIN extra :
                 FirstOf(extra, keys, empty) = extra[k] /\ extra[k] \notin empty
<1> DEFINE given == {k \in ToSet(keys) : Get(extra, k) \notin empty}
           first == FirstKey(keys, given)
<1>1. FirstOf(extra, keys, empty) = IF given = {} THEN None ELSE extra[first]
  BY DEF FirstOf
<1>2. CASE given = {}
  BY <1>1, <1>2
<1>3. CASE given # {}
  <2>1. first \in given
    <3> HIDE DEF given
    <3>1. given \subseteq ToSet(keys)
      BY DEF given
    <3> QED BY <1>3, <3>1, FirstKeyGiven
  <2>2. first \in DOMAIN extra /\ extra[first] \notin empty
    BY <2>1 DEF Get
  <2> HIDE DEF first
  <2> QED BY <1>1, <1>3, <2>1, <2>2
<1> QED BY <1>2, <1>3

(* The value found depends on these keys only. *)
LEMMA FirstOfSame ==
    ASSUME NEW S, NEW keys \in Seq(S), NEW x, NEW y, NEW empty, None \in empty,
           \A k \in ToSet(keys) : Get(x, k) = Get(y, k)
    PROVE  FirstOf(x, keys, empty) = FirstOf(y, keys, empty)
<1> DEFINE given == {k \in ToSet(keys) : Get(x, k) \notin empty}
           first == FirstKey(keys, given)
<1>1. given = {k \in ToSet(keys) : Get(y, k) \notin empty}
  OBVIOUS
<1>2. /\ FirstOf(x, keys, empty) = IF given = {} THEN None ELSE x[first]
      /\ FirstOf(y, keys, empty) = IF given = {} THEN None ELSE y[first]
  <2>1. FirstOf(x, keys, empty) = IF given = {} THEN None ELSE x[first]
    BY DEF FirstOf
  <2>2. FirstOf(y, keys, empty) = LET g == {k \in ToSet(keys) : Get(y, k) \notin empty}
                           IN IF g = {} THEN None ELSE y[FirstKey(keys, g)]
    BY DEF FirstOf
  <2> HIDE DEF given
  <2> QED BY <1>1, <2>1, <2>2
<1>3. CASE given = {}
  BY <1>2, <1>3
<1>4. CASE given # {}
  <2>1. first \in ToSet(keys) /\ Get(x, first) \notin empty /\ Get(y, first) \notin empty
    <3>1. first \in given
      <4> HIDE DEF given
      <4>1. given \subseteq ToSet(keys)
        BY DEF given
      <4> QED BY <1>4, <4>1, FirstKeyGiven
    <3> HIDE DEF first
    <3> QED BY <3>1
  <2> HIDE DEF first, given
  <2>2. x[first] = y[first]
    BY <2>1 DEF Get
  <2> QED BY <1>2, <2>2
<1> QED BY <1>3, <1>4

-----------------------------------------------------------------------------
(* The enrichers *)

GeoMarks == {"continent.code", "continent.name", "continent", "geo_status", "geo_version"}

CredentialMarks == ToSet(CredentialKeys) \cup {"credential_status", "credential_version"}

(* Two dicts that differ in these keys only. *)
DifferIn(keys, x, y) ==
    \A k : k \notin keys => /\ k \in DOMAIN x <=> k \in DOMAIN y
                            /\ k \in DOMAIN x => x[k] = y[k]

Dict(x) == x = [k \in DOMAIN x |-> x[k]]

LEMMA KeyTypes ==
    /\ ContinentKeys \in Seq(ToSet(ContinentKeys)) /\ CredentialKeys \in Seq(ToSet(CredentialKeys))
    /\ ToSet(CredentialKeys) = {"credential_fingerprint", "password_fingerprint",
                                "credential_hash", "password_hash"}
    /\ "continent" \in ToSet(ContinentKeys)
<1>1. ContinentKeys \in Seq(ToSet(ContinentKeys)) /\ CredentialKeys \in Seq(ToSet(CredentialKeys))
  <2>1. \A s : \A S : s \in Seq(S) => s \in Seq(ToSet(s))
    BY DEF ToSet
  <2>2. CredentialKeys \in Seq({"credential_fingerprint", "password_fingerprint",
                                "credential_hash", "password_hash"})
    BY DEF CredentialKeys
  <2>3. ContinentKeys \in Seq({"continent.code", "continent.name", "continent", "continent_code",
                               "geo.continent.code", "geo.continent.name", "geo.continent",
                               "geo.continent_code"})
    BY DEF ContinentKeys
  <2> QED BY <2>1, <2>2, <2>3
<1>2. DOMAIN CredentialKeys = 1..4
  BY DEF CredentialKeys
<1>3. ToSet(CredentialKeys) = {CredentialKeys[1], CredentialKeys[2], CredentialKeys[3], CredentialKeys[4]}
  BY <1>2 DEF ToSet
<1>4. 3 \in DOMAIN ContinentKeys /\ ContinentKeys[3] = "continent"
  BY DEF ContinentKeys
<1> QED BY <1>1, <1>3, <1>4 DEF CredentialKeys, ToSet

(* The continent enricher changes none but its own keys, and leaves no     *)
(* continent that has not been validated.                                  *)
LEMMA GeoEnriched ==
    ASSUME NEW e, IsEvent(e)
    PROVE  \E x : /\ EnrichGeo(e) = Carrying(e, e.raw, x) /\ Dict(x)
                  /\ DifferIn(GeoMarks, e.extra, x) /\ Get(x, "geo_version") = GeoVersion
                  /\ Get(e.extra, "geo_version") # GeoVersion
                       => Get(x, "continent") \in {None} \cup {ContinentCode[s] : s \in DOMAIN ContinentCode}
                  /\ Get(e.extra, "geo_version") = GeoVersion => x = e.extra
<1>1. CASE Get(e.extra, "geo_version") = GeoVersion
  <2>1. EnrichGeo(e) = e
    BY <1>1 DEF EnrichGeo
  <2>2. e = Carrying(e, e.raw, e.extra) /\ Dict(e.extra)
    BY DEF IsEvent, Carrying, Dict
  <2> QED BY <1>1, <2>1, <2>2 DEF DifferIn
<1>2. CASE Get(e.extra, "geo_version") # GeoVersion
  <2> DEFINE given == ToSet(ContinentKeys) \cap DOMAIN e.extra
             value == e.extra[FirstKey(ContinentKeys, given)]
             rest == Without(e.extra, {"continent.code", "continent.name", "continent"})
             extra == IF given = {} THEN Over([geo_status |-> "missing"], e.extra)
                      ELSE IF value \in DOMAIN ContinentCode
                      THEN Over([continent |-> ContinentCode[value], geo_status |-> "provided"], rest)
                      ELSE Over([geo_status |-> "invalid"], rest)
             x == Over([geo_version |-> GeoVersion], extra)
  <2>1. EnrichGeo(e) = [e EXCEPT !.extra = x]
    BY <1>2 DEF EnrichGeo
  <2>2. /\ DOMAIN rest = DOMAIN e.extra \ {"continent.code", "continent.name", "continent"}
        /\ \A k \in DOMAIN rest : rest[k] = e.extra[k]
    BY DEF Without
  <2> HIDE DEF rest, value
  <2>3. /\ DifferIn(GeoMarks, e.extra, extra)
        /\ Get(extra, "continent") \in {None} \cup {ContinentCode[s] : s \in DOMAIN ContinentCode}
    <3>1. CASE given = {}
      <4>1. extra = Over([geo_status |-> "missing"], e.extra)
        BY <3>1
      <4>2. "continent" \notin DOMAIN e.extra
        BY <3>1, KeyTypes
      <4> HIDE DEF extra
      <4> QED BY <4>1, <4>2 DEF Over, DifferIn, GeoMarks, Get
    <3>2. CASE given # {} /\ value \in DOMAIN ContinentCode
      <4>1. extra = Over([continent |-> ContinentCode[value], geo_status |-> "provided"], rest)
        BY <3>2
      <4> HIDE DEF extra
      <4>2. DifferIn(GeoMarks, e.extra, extra)
        BY <2>2, <4>1 DEF Over, DifferIn, GeoMarks
      <4>3. "continent" \in DOMAIN extra /\ extra["continent"] = ContinentCode[value]
        BY <4>1 DEF Over
      <4> QED BY <3>2, <4>2, <4>3 DEF Get
    <3>3. CASE given # {} /\ value \notin DOMAIN ContinentCode
      <4>1. extra = Over([geo_status |-> "invalid"], rest)
        BY <3>3
      <4> HIDE DEF extra
      <4> QED BY <2>2, <4>1 DEF Over, DifferIn, GeoMarks, Get
    <3> QED BY <3>1, <3>2, <3>3
  <2> HIDE DEF extra
  <2>4. /\ Dict(x) /\ DifferIn(GeoMarks, e.extra, x) /\ Get(x, "geo_version") = GeoVersion
        /\ Get(x, "continent") = Get(extra, "continent")
    <3>1. Dict(x)
      BY DEF Over, Dict
    <3>2. /\ DOMAIN x = {"geo_version"} \cup DOMAIN extra /\ x["geo_version"] = GeoVersion
          /\ \A k \in DOMAIN extra : k # "geo_version" => x[k] = extra[k]
      BY DEF Over
    <3> HIDE DEF x
    <3> QED BY <2>3, <3>1, <3>2 DEF DifferIn, GeoMarks, Get
  <2> HIDE DEF x
  <2>5. EnrichGeo(e) = Carrying(e, e.raw, x)
    BY <2>1, ExtraReplaced
  <2> QED BY <1>2, <2>3, <2>4, <2>5
<1> QED BY <1>1, <1>2

(* The credential enricher changes none but its own keys, and leaves no    *)
(* credential but a fingerprint in normal form.                            *)
LEMMA CredentialEnriched ==
    ASSUME NEW e, IsEvent(e)
    PROVE  \E x, raw : /\ EnrichCredential(e) = Carrying(e, raw, x) /\ Dict(x)
                       /\ DifferIn(CredentialMarks, e.extra, x) /\ Get(x, "credential_version") = CredentialVersion
                       /\ Get(e.extra, "credential_version") # CredentialVersion
                            => /\ DOMAIN x \cap ToSet(CredentialKeys) \subseteq {"password_fingerprint"}
                               /\ "password_fingerprint" \in DOMAIN x
                                    => x["password_fingerprint"] \in {Fingerprint[s] : s \in DOMAIN Fingerprint}
                       /\ Get(e.extra, "credential_version") = CredentialVersion => x = e.extra
<1>1. CASE Get(e.extra, "credential_version") = CredentialVersion
  <2>1. EnrichCredential(e) = e
    BY <1>1 DEF EnrichCredential
  <2>2. e = Carrying(e, e.raw, e.extra) /\ Dict(e.extra)
    BY DEF IsEvent, Carrying, Dict
  <2> QED BY <1>1, <2>1, <2>2 DEF DifferIn
<1>2. CASE Get(e.extra, "credential_version") # CredentialVersion
  <2> DEFINE given == ToSet(CredentialKeys) \cap DOMAIN e.extra
             read == FirstKey(CredentialKeys, given)
             rest == Without(e.extra, Removed(read))
             value == e.extra[read]
             extra == IF given = {} THEN Over([credential_status |-> "missing"], e.extra)
                      ELSE IF value \in DOMAIN Fingerprint
                      THEN Over([password_fingerprint |-> Fingerprint[value],
                                 credential_status |-> "provided"], rest)
                      ELSE Over([credential_status |-> "invalid"], rest)
             x == Over([credential_version |-> CredentialVersion], extra)
             raw == IF given = {} THEN e.raw ELSE SafeRaw(e)
             keys == ToSet(CredentialKeys)
             valid == {Fingerprint[s] : s \in DOMAIN Fingerprint}
  <2>1. EnrichCredential(e) = [e EXCEPT !.extra = x, !.raw = raw]
    BY <1>2 DEF EnrichCredential
  <2>2. /\ DOMAIN rest = DOMAIN e.extra \ keys
        /\ \A k \in DOMAIN rest : rest[k] = e.extra[k]
    BY DEF Without, Removed
  <2>3. "password_fingerprint" \in keys /\ "credential_status" \notin keys /\ "credential_version" \notin keys
    BY KeyTypes
  <2> HIDE DEF rest, value, read, keys, raw
  <2>4. /\ DifferIn(CredentialMarks, e.extra, extra)
        /\ DOMAIN extra \cap keys \subseteq {"password_fingerprint"}
        /\ "password_fingerprint" \in DOMAIN extra => extra["password_fingerprint"] \in valid
    <3>1. CASE given = {}
      <4>1. extra = Over([credential_status |-> "missing"], e.extra)
        BY <3>1
      <4>2. DOMAIN e.extra \cap keys = {}
        BY <3>1 DEF keys
      <4> HIDE DEF extra
      <4> QED BY <2>3, <4>1, <4>2 DEF Over, DifferIn, CredentialMarks, keys
    <3>2. CASE given # {} /\ value \in DOMAIN Fingerprint
      <4>1. extra = Over([password_fingerprint |-> Fingerprint[value],
                          credential_status |-> "provided"], rest)
        BY <3>2
      <4> HIDE DEF extra
      <4>2. DifferIn(CredentialMarks, e.extra, extra)
        BY <2>2, <2>3, <4>1 DEF Over, DifferIn, CredentialMarks, keys
      <4>3. "password_fingerprint" \in DOMAIN extra /\ extra["password_fingerprint"] = Fingerprint[value]
        BY <4>1 DEF Over
      <4>4. DOMAIN extra \cap keys \subseteq {"password_fingerprint"}
        BY <2>2, <2>3, <4>1 DEF Over
      <4> QED BY <3>2, <4>2, <4>3, <4>4
    <3>3. CASE given # {} /\ value \notin DOMAIN Fingerprint
      <4>1. extra = Over([credential_status |-> "invalid"], rest)
        BY <3>3
      <4> HIDE DEF extra
      <4> QED BY <2>2, <2>3, <4>1 DEF Over, DifferIn, CredentialMarks, keys
    <3> QED BY <3>1, <3>2, <3>3
  <2> HIDE DEF extra, valid
  <2>5. Dict(x)
    BY DEF Over, Dict
  <2>6. /\ DOMAIN x = {"credential_version"} \cup DOMAIN extra
        /\ x["credential_version"] = CredentialVersion
        /\ \A k \in DOMAIN extra : k # "credential_version" => x[k] = extra[k]
    BY DEF Over
  <2> HIDE DEF x
  <2>7. /\ DifferIn(CredentialMarks, e.extra, x) /\ Get(x, "credential_version") = CredentialVersion
        /\ DOMAIN x \cap keys \subseteq {"password_fingerprint"}
        /\ "password_fingerprint" \in DOMAIN x => x["password_fingerprint"] \in valid
    BY <2>3, <2>4, <2>6 DEF DifferIn, CredentialMarks, Get
  <2>8. EnrichCredential(e) = Carrying(e, raw, x)
    BY <2>1, RawReplaced
  <2> QED BY <1>2, <2>5, <2>7, <2>8 DEF keys, valid
<1> QED BY <1>1, <1>2

-----------------------------------------------------------------------------
(* The field mapping *)

DerivedKeys == {"src_ip", "user", "host", "destination_host", "process", "http_method", "application"}

HostKeys == <<"host", "destination_host", "computer">>
ProcessKeys == <<"process", "process_name">>
ApplicationKeys == <<"application", "target_app">>
UserKeys == <<"remote_user", "subject_user">>

LEMMA LookupKeys ==
    /\ HostKeys \in Seq(ToSet(HostKeys)) /\ ProcessKeys \in Seq(ToSet(ProcessKeys))
    /\ ApplicationKeys \in Seq(ToSet(ApplicationKeys)) /\ UserKeys \in Seq(ToSet(UserKeys))
    /\ ToSet(HostKeys) = {"host", "destination_host", "computer"}
    /\ ToSet(ProcessKeys) = {"process", "process_name"}
    /\ ToSet(ApplicationKeys) = {"application", "target_app"}
    /\ ToSet(UserKeys) = {"remote_user", "subject_user"}
<1>1. \A s : \A S : s \in Seq(S) => s \in Seq(ToSet(s))
  BY DEF ToSet
<1>2. \A a, b : <<a, b>> \in Seq({a, b}) /\ ToSet(<<a, b>>) = {a, b}
  <2> TAKE a, b
  <2>1. <<a, b>> \in Seq({a, b}) /\ DOMAIN <<a, b>> = 1..2 /\ <<a, b>>[1] = a /\ <<a, b>>[2] = b
    OBVIOUS
  <2> QED BY <2>1 DEF ToSet
<1>3. \A a, b, c : <<a, b, c>> \in Seq({a, b, c}) /\ ToSet(<<a, b, c>>) = {a, b, c}
  <2> TAKE a, b, c
  <2>1. /\ <<a, b, c>> \in Seq({a, b, c}) /\ DOMAIN <<a, b, c>> = 1..3
        /\ <<a, b, c>>[1] = a /\ <<a, b, c>>[2] = b /\ <<a, b, c>>[3] = c
    OBVIOUS
  <2> QED BY <2>1 DEF ToSet
<1>4. /\ ToSet(HostKeys) = {"host", "destination_host", "computer"}
      /\ ToSet(ProcessKeys) = {"process", "process_name"}
      /\ ToSet(ApplicationKeys) = {"application", "target_app"}
      /\ ToSet(UserKeys) = {"remote_user", "subject_user"}
  BY <1>2, <1>3 DEF HostKeys, ProcessKeys, ApplicationKeys, UserKeys
<1>5. /\ HostKeys \in Seq({"host", "destination_host", "computer"})
      /\ ProcessKeys \in Seq({"process", "process_name"})
      /\ ApplicationKeys \in Seq({"application", "target_app"})
      /\ UserKeys \in Seq({"remote_user", "subject_user"})
  BY <1>2, <1>3 DEF HostKeys, ProcessKeys, ApplicationKeys, UserKeys
<1> QED BY <1>1, <1>4, <1>5

(* What is derived of an event, and when. *)
LEMMA DerivedFields ==
    ASSUME NEW e
    PROVE  LET d == Derived(e)
           IN /\ DOMAIN d \subseteq DerivedKeys
              /\ "src_ip" \in DOMAIN d <=> e.actor \in IPs
              /\ "user" \in DOMAIN d <=> CanonicalUser(e) # None
              /\ "user" \in DOMAIN d => d["user"] = CanonicalUser(e)
              /\ "host" \in DOMAIN d <=> CanonicalHost(e) # None
              /\ "destination_host" \in DOMAIN d <=> CanonicalHost(e) # None
              /\ "process" \in DOMAIN d <=> FirstText(e.extra, ProcessKeys) # None
              /\ "http_method" \in DOMAIN d
                   <=> e.source = "nginx" /\ TextOf(Get(e.extra, "method")) # None
              /\ "application" \in DOMAIN d
                   <=> e.source = "okta" /\ FirstText(e.extra, ApplicationKeys) # None
<1> DEFINE fields == [src_ip           |-> IF e.actor \in IPs THEN e.actor ELSE None,
                      user             |-> CanonicalUser(e),
                      host             |-> CanonicalHost(e),
                      destination_host |-> CanonicalHost(e),
                      process          |-> FirstText(e.extra, ProcessKeys),
                      http_method      |-> IF e.source = "nginx" THEN TextOf(Get(e.extra, "method")) ELSE None,
                      application      |-> IF e.source = "okta"
                                           THEN FirstText(e.extra, ApplicationKeys) ELSE None]
           d == [k \in {k \in DOMAIN fields : fields[k] # None} |-> fields[k]]
<1>1. Derived(e) = d
  BY Zenon DEF Derived, ProcessKeys, ApplicationKeys
<1>2. DOMAIN fields = DerivedKeys
  BY DEF DerivedKeys
<1>3. /\ fields["src_ip"] # None <=> e.actor \in IPs
      /\ fields["user"] = CanonicalUser(e)
      /\ fields["host"] = CanonicalHost(e) /\ fields["destination_host"] = CanonicalHost(e)
      /\ fields["process"] = FirstText(e.extra, ProcessKeys)
      /\ fields["http_method"] # None <=> e.source = "nginx" /\ TextOf(Get(e.extra, "method")) # None
      /\ fields["application"] # None <=> e.source = "okta" /\ FirstText(e.extra, ApplicationKeys) # None
  BY DEF IPs, None
<1> HIDE DEF fields
<1>4. /\ \A k : k \in DOMAIN d <=> k \in DerivedKeys /\ fields[k] # None
      /\ \A k \in DOMAIN d : d[k] = fields[k]
  BY <1>2
<1> HIDE DEF d
<1> QED BY <1>1, <1>3, <1>4 DEF DerivedKeys

(* The mapped dict has what upstream gave and what was derived besides.    *)
MappedDict(e, m) ==
    /\ MapEvent(e) = Carrying(e, e.raw, m) /\ Dict(m)
    /\ DOMAIN m = DOMAIN e.extra \cup DOMAIN Derived(e)
    /\ \A k \in DOMAIN e.extra : m[k] = e.extra[k]
    /\ \A k \in DOMAIN Derived(e) \ DOMAIN e.extra : m[k] = Derived(e)[k]

LEMMA MappedEvent ==
    ASSUME NEW e, IsEvent(e)
    PROVE  \E m : MappedDict(e, m)
<1> DEFINE m == Over(e.extra, Derived(e))
<1>1. MapEvent(e) = Carrying(e, e.raw, m)
  BY ExtraReplaced DEF MapEvent
<1>2. /\ Dict(m) /\ DOMAIN m = DOMAIN e.extra \cup DOMAIN Derived(e)
      /\ \A k \in DOMAIN e.extra : m[k] = e.extra[k]
      /\ \A k \in DOMAIN Derived(e) \ DOMAIN e.extra : m[k] = Derived(e)[k]
  <2>1. Dict(m)
    BY DEF Over, Dict
  <2>2. \A x, y : /\ DOMAIN Over(x, y) = DOMAIN x \cup DOMAIN y
                  /\ \A k \in DOMAIN x : Over(x, y)[k] = x[k]
                  /\ \A k \in DOMAIN y \ DOMAIN x : Over(x, y)[k] = y[k]
    BY DEF Over
  <2> QED BY <2>1, <2>2
<1> QED BY <1>1, <1>2 DEF MappedDict

(* Marks a preparation leaves behind. *)
Marks == GeoMarks \cup CredentialMarks

LEMMA OwnKeys ==
    /\ Marks \cap DerivedKeys = {}
    /\ \A k \in {"computer", "process_name", "target_app", "remote_user", "subject_user", "method"} :
          k \notin Marks \cup DerivedKeys
    /\ GeoMarks \cap CredentialMarks = {}
    /\ ToSet(CredentialKeys) \subseteq CredentialMarks /\ "continent" \in GeoMarks
    /\ "geo_version" \in GeoMarks /\ "credential_version" \in CredentialMarks
BY KeyTypes DEF Marks, GeoMarks, CredentialMarks, DerivedKeys

(* What a prepared event carries: the mapped dict but for the marks, no    *)
(* continent and no credential that has not been validated.                *)
PreparedDict(e, m, raw, x) ==
    /\ Prepared(e) = Carrying(e, raw, x) /\ Dict(x)
    /\ DifferIn(Marks, m, x)
    /\ Get(x, "geo_version") = GeoVersion /\ Get(x, "credential_version") = CredentialVersion
    /\ Get(e.extra, "geo_version") # GeoVersion
         => Get(x, "continent") \in {None} \cup {ContinentCode[s] : s \in DOMAIN ContinentCode}
    /\ Get(e.extra, "credential_version") # CredentialVersion
         => /\ DOMAIN x \cap ToSet(CredentialKeys) \subseteq {"password_fingerprint"}
            /\ "password_fingerprint" \in DOMAIN x
                 => x["password_fingerprint"] \in {Fingerprint[s] : s \in DOMAIN Fingerprint}

LEMMA PreparedEvent ==
    ASSUME NEW e, IsEvent(e), NEW m, MappedDict(e, m)
    PROVE  \E raw, x : PreparedDict(e, m, raw, x)
<1>1. PICK c : c = Carrying(e, e.raw, m)
  OBVIOUS
<1>2. IsEvent(c) /\ c.extra = m /\ c.raw = e.raw
  BY <1>1, CarriedEvent DEF MappedDict, Dict
<1>3. PICK g : /\ EnrichGeo(c) = Carrying(c, e.raw, g) /\ Dict(g)
               /\ DifferIn(GeoMarks, m, g) /\ Get(g, "geo_version") = GeoVersion
               /\ Get(m, "geo_version") # GeoVersion
                    => Get(g, "continent") \in {None} \cup {ContinentCode[s] : s \in DOMAIN ContinentCode}
  BY <1>2, GeoEnriched
<1>4. \A r, x, q, y : Carrying(Carrying(e, r, x), q, y) = Carrying(e, q, y)
  BY DEF Carrying
<1>5. PICK d : d = Carrying(e, e.raw, g)
  OBVIOUS
<1>6. IsEvent(d) /\ d.extra = g /\ EnrichGeo(c) = d
  BY <1>1, <1>3, <1>4, <1>5, CarriedEvent DEF Dict
<1>7. PICK x, raw :
         /\ EnrichCredential(d) = Carrying(d, raw, x) /\ Dict(x)
         /\ DifferIn(CredentialMarks, g, x) /\ Get(x, "credential_version") = CredentialVersion
         /\ Get(g, "credential_version") # CredentialVersion
              => /\ DOMAIN x \cap ToSet(CredentialKeys) \subseteq {"password_fingerprint"}
                 /\ "password_fingerprint" \in DOMAIN x
                      => x["password_fingerprint"] \in {Fingerprint[s] : s \in DOMAIN Fingerprint}
  BY <1>6, CredentialEnriched
<1>8. Prepared(e) = Carrying(e, raw, x)
  <2>1. MapEvent(e) = c
    BY <1>1 DEF MappedDict
  <2>2. EnrichCredential(d) = Carrying(e, raw, x)
    BY <1>4, <1>5, <1>7
  <2> QED BY <1>6, <2>1, <2>2 DEF Prepared
<1>9. DifferIn(Marks, m, x)
  BY <1>3, <1>7 DEF DifferIn, Marks
<1>10. /\ Get(m, "geo_version") = Get(e.extra, "geo_version")
       /\ Get(g, "credential_version") = Get(e.extra, "credential_version")
  <2>1. "geo_version" \notin DerivedKeys /\ "credential_version" \notin DerivedKeys
    BY DEF DerivedKeys
  <2>2. \A k : k \notin DerivedKeys => Get(m, k) = Get(e.extra, k)
    <3>1. DOMAIN Derived(e) \subseteq DerivedKeys
      BY DerivedFields
    <3> QED BY <3>1 DEF MappedDict, Get
  <2>3. "credential_version" \notin GeoMarks
    BY OwnKeys
  <2>4. Get(g, "credential_version") = Get(m, "credential_version")
    BY <1>3, <2>3 DEF DifferIn, Get
  <2> QED BY <2>1, <2>2, <2>4
<1>11. Get(x, "geo_version") = Get(g, "geo_version") /\ Get(x, "continent") = Get(g, "continent")
  <2>1. "geo_version" \notin CredentialMarks /\ "continent" \notin CredentialMarks
    BY OwnKeys
  <2> QED BY <1>7, <2>1 DEF DifferIn, Get
<1>12. PreparedDict(e, m, raw, x)
  BY <1>3, <1>7, <1>8, <1>9, <1>10, <1>11 DEF PreparedDict
<1> QED BY <1>12

(* What has not been derived of an event is not derived of it once         *)
(* prepared: a second pass finds its keys taken.                           *)
LEMMA DerivedAgain ==
    ASSUME NEW e, NEW m, MappedDict(e, m), NEW raw, NEW x, Dict(x), DifferIn(Marks, m, x)
    PROVE  DOMAIN Derived(Carrying(e, raw, x)) \subseteq DOMAIN x
<1> DEFINE p == Carrying(e, raw, x)
<1>1. /\ p.extra = x /\ p.actor = e.actor /\ p.source = e.source /\ p.target = e.target
  BY CarriedEvent DEF Dict
<1> HIDE DEF p
<1>2. \A k : k \notin Marks /\ k \notin DOMAIN x => Get(x, k) = Get(e.extra, k)
  <2> SUFFICES ASSUME NEW k, k \notin Marks, k \notin DOMAIN x
               PROVE  Get(x, k) = Get(e.extra, k)
    OBVIOUS
  <2>1. k \notin DOMAIN m /\ k \notin DOMAIN e.extra
    BY DEF DifferIn, MappedDict
  <2> QED BY <2>1 DEF Get
<1>3. \A k : k \notin Marks /\ k \notin DOMAIN Derived(e) => Get(x, k) = Get(e.extra, k)
  <2> SUFFICES ASSUME NEW k, k \notin Marks, k \notin DOMAIN Derived(e)
               PROVE  Get(x, k) = Get(e.extra, k)
    OBVIOUS
  <2>1. k \in DOMAIN x <=> k \in DOMAIN e.extra
    BY DEF DifferIn, MappedDict
  <2>2. k \in DOMAIN x => x[k] = e.extra[k]
    BY <2>1 DEF DifferIn, MappedDict
  <2> QED BY <2>1, <2>2 DEF Get
<1>4. DOMAIN Derived(e) \subseteq DOMAIN x
  <2>1. DOMAIN Derived(e) \subseteq DerivedKeys /\ DerivedKeys \cap Marks = {}
    BY DerivedFields, OwnKeys
  <2> QED BY <2>1 DEF DifferIn, MappedDict
<1>5. \A k \in {"computer", "process_name", "target_app", "remote_user", "subject_user", "method"} :
         Get(x, k) = Get(e.extra, k)
  <2>1. \A k \in {"computer", "process_name", "target_app", "remote_user", "subject_user", "method"} :
           k \notin Marks /\ k \notin DOMAIN Derived(e)
    BY OwnKeys, DerivedFields
  <2> QED BY <1>3, <2>1
<1>6. \A k \in DerivedKeys : k \notin Marks
  BY OwnKeys
<1>7. ASSUME "user" \notin DOMAIN x
      PROVE  CanonicalUser(p) = None
  <2>1. CanonicalUser(e) = None
    BY <1>4, <1>7, DerivedFields
  <2>2. Get(x, "user") = Get(e.extra, "user")
    BY <1>2, <1>6, <1>7 DEF DerivedKeys
  <2>3. FirstText(x, UserKeys) = FirstText(e.extra, UserKeys)
    BY <1>5, LookupKeys, FirstOfSame DEF FirstText, Empty, Blank
  <2>4. CanonicalUser(p) = CanonicalUser(e)
    <3>1. Get(x, "remote_user") = Get(e.extra, "remote_user")
      BY <1>5
    <3> QED BY <1>1, <2>2, <2>3, <3>1 DEF CanonicalUser, UserKeys
  <2> QED BY <2>1, <2>4
<1>8. ASSUME "host" \notin DOMAIN x \/ "destination_host" \notin DOMAIN x
      PROVE  CanonicalHost(p) = None
  <2>1. CanonicalHost(e) = None
    BY <1>4, <1>8, DerivedFields
  <2>2. "host" \notin DOMAIN Derived(e) /\ "destination_host" \notin DOMAIN Derived(e)
    BY <2>1, DerivedFields
  <2>3. \A k \in ToSet(HostKeys) : Get(x, k) = Get(e.extra, k)
    BY <1>3, <1>5, <1>6, <2>2, LookupKeys DEF DerivedKeys
  <2>4. FirstText(x, HostKeys) = FirstText(e.extra, HostKeys)
    BY <2>3, LookupKeys, FirstOfSame DEF FirstText, Empty, Blank
  <2> QED BY <1>1, <2>1, <2>4 DEF CanonicalHost, HostKeys
<1>9. ASSUME "process" \notin DOMAIN x
      PROVE  FirstText(x, ProcessKeys) = None
  <2>1. FirstText(e.extra, ProcessKeys) = None
    BY <1>4, <1>9, DerivedFields
  <2>2. \A k \in ToSet(ProcessKeys) : Get(x, k) = Get(e.extra, k)
    BY <1>2, <1>5, <1>6, <1>9, LookupKeys DEF DerivedKeys
  <2>3. FirstText(x, ProcessKeys) = FirstText(e.extra, ProcessKeys)
    BY <2>2, LookupKeys, FirstOfSame DEF FirstText, Empty, Blank
  <2> QED BY <2>1, <2>3
<1>10. ASSUME "application" \notin DOMAIN x, e.source = "okta"
       PROVE  FirstText(x, ApplicationKeys) = None
  <2>1. FirstText(e.extra, ApplicationKeys) = None
    BY <1>4, <1>10, DerivedFields
  <2>2. \A k \in ToSet(ApplicationKeys) : Get(x, k) = Get(e.extra, k)
    BY <1>2, <1>5, <1>6, <1>10, LookupKeys DEF DerivedKeys
  <2>3. FirstText(x, ApplicationKeys) = FirstText(e.extra, ApplicationKeys)
    BY <2>2, LookupKeys, FirstOfSame DEF FirstText, Empty, Blank
  <2> QED BY <2>1, <2>3
<1>11. ASSUME "http_method" \notin DOMAIN x, e.source = "nginx"
       PROVE  TextOf(Get(x, "method")) = None
  <2>1. TextOf(Get(e.extra, "method")) = None
    BY <1>4, <1>11, DerivedFields
  <2> QED BY <1>5, <2>1
<1>12. ASSUME "src_ip" \notin DOMAIN x
       PROVE  e.actor \notin IPs
  BY <1>4, <1>12, DerivedFields
<1>13. ASSUME NEW k \in DOMAIN Derived(p)
       PROVE  k \in DOMAIN x
  <2>1. k \in DerivedKeys
    BY DerivedFields
  <2> QED BY <1>1, <1>7, <1>8, <1>9, <1>10, <1>11, <1>12, <1>13, <2>1, DerivedFields DEF DerivedKeys
<1> QED BY <1>13 DEF p

(* A second pass changes nothing. *)
LEMMA PreparedTwice ==
    ASSUME NEW e, IsEvent(e)
    PROVE  Prepared(Prepared(e)) = Prepared(e)
<1>1. PICK m : MappedDict(e, m)
  BY MappedEvent
<1>2. PICK raw, x : PreparedDict(e, m, raw, x)
  BY <1>1, PreparedEvent
<1> DEFINE p == Carrying(e, raw, x)
<1>3. /\ Prepared(e) = p /\ Dict(x) /\ DifferIn(Marks, m, x)
      /\ Get(x, "geo_version") = GeoVersion /\ Get(x, "credential_version") = CredentialVersion
  BY <1>2 DEF PreparedDict
<1>4. IsEvent(p) /\ p.extra = x /\ p.raw = raw
  BY <1>3, CarriedEvent DEF Dict
<1>5. DOMAIN Derived(p) \subseteq DOMAIN x
  BY <1>1, <1>3, DerivedAgain
<1> HIDE DEF p
<1>6. PICK n : MappedDict(p, n)
  BY <1>4, MappedEvent
<1>7. n = x
  <2>1. Dict(n) /\ DOMAIN n = DOMAIN x /\ \A k \in DOMAIN x : n[k] = x[k]
    BY <1>4, <1>5, <1>6 DEF MappedDict
  <2> QED BY <1>3, <2>1 DEF Dict
<1>8. MapEvent(p) = p
  <2>1. MapEvent(p) = Carrying(p, p.raw, x)
    BY <1>6, <1>7 DEF MappedDict
  <2>2. p = Carrying(p, p.raw, x)
    BY <1>4 DEF IsEvent, Carrying
  <2> QED BY <2>1, <2>2
<1>9. EnrichGeo(p) = p /\ EnrichCredential(p) = p
  BY <1>3, <1>4 DEF EnrichGeo, EnrichCredential
<1> QED BY <1>3, <1>8, <1>9 DEF Prepared

(* What the rules see of any event as a continent or a credential.         *)
LEMMA ValidatedEvent ==
    ASSUME NEW e, IsEvent(e)
    PROVE  LET prepared == Prepared(e)
           IN /\ Get(e.extra, "geo_version") # GeoVersion
                   => Flat(prepared).continent \in {None} \cup {ContinentCode[s] : s \in DOMAIN ContinentCode}
              /\ Get(e.extra, "credential_version") # CredentialVersion
                   => /\ Flat(prepared).credential \in {None} \cup {Fingerprint[s] : s \in DOMAIN Fingerprint}
                      /\ DOMAIN prepared.extra \cap ToSet(CredentialKeys) \subseteq {"password_fingerprint"}
<1>1. PICK m : MappedDict(e, m)
  BY MappedEvent
<1>2. PICK raw, x : PreparedDict(e, m, raw, x)
  BY <1>1, PreparedEvent
<1>3. PICK p : p = Prepared(e)
  OBVIOUS
<1>4. p.extra = x
  BY <1>2, <1>3, CarriedEvent DEF PreparedDict, Dict
<1>5. Flat(p).continent = Get(x, "continent") /\ Flat(p).credential = FirstOf(x, CredentialKeys, Blank)
  BY <1>4 DEF Flat
<1>6. ASSUME Get(e.extra, "credential_version") # CredentialVersion
      PROVE  FirstOf(x, CredentialKeys, Blank) \in {None} \cup {Fingerprint[s] : s \in DOMAIN Fingerprint}
  <2>1. /\ DOMAIN x \cap ToSet(CredentialKeys) \subseteq {"password_fingerprint"}
        /\ "password_fingerprint" \in DOMAIN x
             => x["password_fingerprint"] \in {Fingerprint[s] : s \in DOMAIN Fingerprint}
    BY <1>2, <1>6 DEF PreparedDict
  <2>2. \/ FirstOf(x, CredentialKeys, Blank) = None
        \/ \E k \in ToSet(CredentialKeys) \cap DOMAIN x : FirstOf(x, CredentialKeys, Blank) = x[k]
    <3>1. PICK empty : empty = Blank /\ None \in empty
      <4>1. None \in Blank
        BY DEF Blank
      <4> QED BY <4>1
    <3>2. \/ FirstOf(x, CredentialKeys, empty) = None
          \/ \E k \in ToSet(CredentialKeys) \cap DOMAIN x : FirstOf(x, CredentialKeys, empty) = x[k]
      <4>1. PICK keys : keys = CredentialKeys
        OBVIOUS
      <4>2. keys \in Seq(ToSet(keys))
        BY <4>1, KeyTypes
      <4>3. \/ FirstOf(x, keys, empty) = None
            \/ \E k \in ToSet(keys) \cap DOMAIN x :
                  FirstOf(x, keys, empty) = x[k] /\ x[k] \notin empty
        BY <3>1, <4>2, FirstOfKeys
      <4> QED BY <4>1, <4>3
    <3> QED BY <3>1, <3>2
  <2> QED BY <2>1, <2>2
<1>7. /\ Get(e.extra, "geo_version") # GeoVersion
           => Get(x, "continent") \in {None} \cup {ContinentCode[s] : s \in DOMAIN ContinentCode}
      /\ Get(e.extra, "credential_version") # CredentialVersion
           => DOMAIN x \cap ToSet(CredentialKeys) \subseteq {"password_fingerprint"}
  BY <1>2 DEF PreparedDict
<1> QED BY <1>3, <1>4, <1>5, <1>6, <1>7, Zenon

(* The user the mapping decides on, or upstream named, is the one the      *)
(* rules see.                                                              *)
LEMMA UserKept ==
    ASSUME NEW e, IsEvent(e), NEW account, account # None,
           IF "user" \in DOMAIN e.extra THEN e.extra["user"] = account ELSE CanonicalUser(e) = account
    PROVE  Flat(Prepared(e)).user = account
<1>1. PICK m : MappedDict(e, m)
  BY MappedEvent
<1>2. PICK raw, x : PreparedDict(e, m, raw, x)
  BY <1>1, PreparedEvent
<1>3. "user" \in DOMAIN m /\ m["user"] = account
  <2>1. "user" \notin DOMAIN e.extra => "user" \in DOMAIN Derived(e) /\ Derived(e)["user"] = account
    BY DerivedFields
  <2> QED BY <1>1, <2>1 DEF MappedDict
<1>4. "user" \notin Marks
  BY OwnKeys DEF DerivedKeys
<1>5. "user" \in DOMAIN x /\ x["user"] = account
  BY <1>2, <1>3, <1>4 DEF PreparedDict, DifferIn
<1>6. PICK p : p = Prepared(e)
  OBVIOUS
<1>7. p.extra = x
  BY <1>2, <1>6, CarriedEvent DEF PreparedDict, Dict
<1>8. Flat(p).user = Get(x, "user")
  BY <1>7 DEF Flat
<1> QED BY <1>5, <1>6, <1>8 DEF Get

(* If there is none, the rules see what the event itself says.             *)
LEMMA UserLost ==
    ASSUME NEW e, IsEvent(e), "user" \notin DOMAIN e.extra, CanonicalUser(e) = None
    PROVE  LET seen == Flat(Prepared(e))
           IN /\ seen.user = None /\ seen.remote_user = Get(e.extra, "remote_user")
              /\ seen.target = e.target /\ seen.source = e.source
<1>1. PICK m : MappedDict(e, m)
  BY MappedEvent
<1>2. PICK raw, x : PreparedDict(e, m, raw, x)
  BY <1>1, PreparedEvent
<1>3. \A k \in {"user", "remote_user"} : k \notin Marks /\ k \notin DOMAIN Derived(e)
  <2>1. "user" \notin DOMAIN Derived(e) /\ DOMAIN Derived(e) \subseteq DerivedKeys
    BY DerivedFields
  <2>2. /\ "user" \notin Marks /\ "remote_user" \notin Marks /\ "remote_user" \notin DerivedKeys
    BY OwnKeys DEF DerivedKeys
  <2> QED BY <2>1, <2>2
<1>4. \A k \in {"user", "remote_user"} : Get(x, k) = Get(e.extra, k)
  <2>1. \A k \in {"user", "remote_user"} : Get(m, k) = Get(e.extra, k)
    BY <1>1, <1>3 DEF MappedDict, Get
  <2>2. \A k \in {"user", "remote_user"} : Get(x, k) = Get(m, k)
    BY <1>2, <1>3 DEF PreparedDict, DifferIn, Get
  <2> QED BY <2>1, <2>2
<1>5. PICK p : p = Prepared(e)
  OBVIOUS
<1>6. p.extra = x /\ p.target = e.target /\ p.source = e.source
  BY <1>2, <1>5, CarriedEvent DEF PreparedDict, Dict
<1>7. /\ Flat(p).user = Get(x, "user") /\ Flat(p).remote_user = Get(x, "remote_user")
      /\ Flat(p).target = e.target /\ Flat(p).source = e.source
  BY <1>6 DEF Flat
<1>8. Get(e.extra, "user") = None
  BY DEF Get
<1> QED BY <1>4, <1>5, <1>7, <1>8

(* The rules that look at accounts take the user for the account, if the   *)
(* event has one that says something.                                      *)
LEMMA UserIsKey ==
    ASSUME NEW seen, seen.user \notin Blank
    PROVE  AllGoBy(seen.user, seen)
<1>1. /\ ReuseUser(seen) = seen.user /\ SudoUser(seen) = seen.user
      /\ RemoteUser(seen) = seen.user /\ GeoUser(seen) = seen.user
      /\ CrossSourceUser(seen) = seen.user
  BY DEF ReuseUser, SudoUser, RemoteUser, GeoUser, CrossSourceUser, Named, Or, OrMissing, Blank
<1> QED BY <1>1 DEF GroupKey, AllGoBy

(* An event whose account field mapping took for empty. *)
Unnamed(e) ==
    /\ "user" \notin DOMAIN e.extra /\ CanonicalUser(e) = None
    /\ IF input.source = "nginx"
       THEN e.source = "nginx" /\ e.target = "/path" /\ Get(e.extra, "remote_user") = Null
       ELSE e.source \in {"sshd", "windows"} /\ e.target = Null /\ Get(e.extra, "remote_user") = None

LEMMA UnnamedKeys ==
    ASSUME NEW e, IsEvent(e), Unnamed(e)
    PROVE  RulesDisagree(Flat(Prepared(e)))
<1>1. PICK seen : seen = Flat(Prepared(e))
  OBVIOUS
<1>2. /\ seen.user = None /\ seen.remote_user = Get(e.extra, "remote_user")
      /\ seen.target = e.target /\ seen.source = e.source
  BY <1>1, UserLost DEF Unnamed
<1>3. /\ SudoUser(seen) = Named(seen.actor) /\ RemoteUser(seen) \in {None, Named(seen.actor)}
      /\ GeoUser(seen) = Named(seen.target) /\ ReuseUser(seen) = Named(seen.target)
  BY <1>2 DEF SudoUser, RemoteUser, GeoUser, ReuseUser, Named, Or, OrMissing, Blank
<1>4. CASE input.source = "nginx"
  <2>1. seen.target = "/path" /\ seen.remote_user = Null
    BY <1>2, <1>4 DEF Unnamed
  <2>2. Named(seen.target) = "/path" /\ CrossSourceUser(seen) = Null
    BY <1>2, <2>1 DEF CrossSourceUser, Named, Or, Blank, Null, None, Dash
  <2> QED BY <1>1, <1>3, <1>4, <2>2 DEF RulesDisagree
<1>5. CASE input.source # "nginx"
  <2>1. seen.target = Null /\ seen.remote_user = None /\ SourceFamily(seen) # "web"
    BY <1>2, <1>5 DEF Unnamed, SourceFamily
  <2>2. Named(seen.target) = Null /\ CrossSourceUser(seen) = Null
    BY <1>2, <2>1 DEF CrossSourceUser, Named, Or, Blank, Null, None, Dash
  <2> QED BY <1>1, <1>3, <1>5, <2>2 DEF RulesDisagree
<1> QED BY <1>4, <1>5

-----------------------------------------------------------------------------
(* What a parser makes of an item *)

(* An event with a time, whose user is the account the item names, unless  *)
(* field mapping takes that for empty.                                     *)
Faithful(item, e) ==
    /\ IsEvent(e) /\ e.ts \in Nat
    /\ item.form = "record" /\ Account(item) # None
         => IF Account(item) # Null \/ input.source = "okta"
            THEN IF "user" \in DOMAIN e.extra THEN e.extra["user"] = Account(item)
                                              ELSE CanonicalUser(e) = Account(item)
            ELSE Unnamed(e)

LEMMA TimeType ==
    ASSUME NEW y \in Nat, NEW month, NEW day, Exists(y, month, day)
    PROVE  Time(y, month, day) \in Nat
<1>1. /\ Months \in Nat \ {0} /\ Days \in Nat \ {0}
      /\ month \in Int /\ month >= 1 /\ day \in Int /\ day >= 1
  BY CalendarAssumption DEF Exists
<1>2. y * Months \in Nat
  BY <1>1
<1>3. PICK a : a = y * Months + month - 1
  OBVIOUS
<1>4. a \in Nat
  BY <1>1, <1>2, <1>3
<1>5. a * Days \in Nat
  BY <1>1, <1>4
<1>6. Time(y, month, day) = a * Days + day - 1
  BY <1>3 DEF Time
<1> QED BY <1>1, <1>5, <1>6

LEMMA PresentKeys ==
    ASSUME NEW fields, NEW dropped
    PROVE  /\ Dict(Present(fields, dropped))
           /\ \A k : k \in DOMAIN Present(fields, dropped)
                       <=> k \in DOMAIN fields /\ fields[k] \notin dropped
           /\ \A k \in DOMAIN Present(fields, dropped) : Present(fields, dropped)[k] = fields[k]
BY DEF Present, Dict

LEMMA SshdParsed ==
    ASSUME input.source = "sshd", NEW line, NEW y \in Nat, ~DateRaises("sshd", line, y),
           ParseRaw("sshd", line, y) # <<>>
    PROVE  Faithful(line, ParseRaw("sshd", line, y)[1])
<1> DEFINE extra == [host |-> line.host]
           ts == Time(y, line.month, line.day)
           result == IF line.says = "Accepted" THEN "success" ELSE "failure"
           raw == Mentions({line.host, line.user, line.ip})
           e == [ts |-> ts, actor |-> line.ip, target |-> line.user, source |-> "sshd",
                 action |-> "ssh_login", result |-> result, raw |-> raw, extra |-> extra]
<1>1. ParseRaw("sshd", line, y) = IF line.form # "record" THEN <<>> ELSE <<e>>
  BY DEF ParseRaw, ParseSshd
<1>2. line.form = "record" /\ ParseRaw("sshd", line, y)[1] = e
  <2> HIDE DEF e
  <2> QED BY <1>1
<1>3. ts \in Nat
  BY <1>2, TimeType DEF DateRaises
<1>4. Dict(extra) /\ DOMAIN extra = {"host"}
  BY DEF Dict
<1> HIDE DEF extra, ts, result, raw
<1>5. IsEvent(e) /\ e.ts = ts /\ e.target = line.user /\ e.source = "sshd" /\ e.extra = extra
  BY <1>4 DEF IsEvent, Dict
<1> HIDE DEF e
<1>6. CanonicalUser(e) = TextOf(line.user) /\ Get(e.extra, "remote_user") = None
  BY <1>4, <1>5 DEF CanonicalUser, Get, TextOf, Empty, Blank
<1>7. Account(line) # None =>
         /\ Account(line) = line.user
         /\ line.user # Null => CanonicalUser(e) = Account(line)
         /\ line.user = Null => Unnamed(e)
  BY <1>4, <1>5, <1>6 DEF Account, Named, TextOf, Empty, Unnamed
<1> QED BY <1>2, <1>3, <1>4, <1>5, <1>7 DEF Faithful

LEMMA EitherFirst ==
    ASSUME NEW a, a # None
    PROVE  \A b, c : Either(<<a, b, c>>) = a
<1> TAKE b, c
<1> DEFINE values == <<a, b, c>>
           given == {i \in DOMAIN values : values[i] # None}
<1>1. given \in SUBSET Nat /\ 1 \in given /\ values[1] = a /\ \A i \in given : 1 <= i
  OBVIOUS
<1>2. Either(values) = IF given = {} THEN Dash ELSE values[Min(given)]
  BY DEF Either
<1> HIDE DEF values, given
<1>3. Min(given) \in given /\ Min(given) <= 1
  BY <1>1, LeastOf
<1>4. Min(given) = 1
  <2>1. PICK n \in Nat : n = Min(given)
    BY <1>1, <1>3
  <2> QED BY <1>1, <1>3, <2>1
<1>5. Either(values) = a
  BY <1>1, <1>2, <1>4
<1> QED BY <1>5 DEF values

LEMMA EvtxParsed ==
    ASSUME input.source = "evtx", NEW record, IsRaw("evtx", record), ParseEvtx(record) # <<>>
    PROVE  Faithful(record, ParseEvtx(record)[1])
<1> DEFINE fields == [computer |-> record.computer, subject_user |-> record.subject_user,
                      process_name |-> record.process_name]
           extra == Present(fields, Blank)
           actor == Either(<<Named(record.ip), record.subject_user>>)
           target == Either(<<record.target_user, record.server, record.computer>>)
           action == WindowsActions[record.event_id]
           result == WindowsResults[record.event_id]
           raw == Mentions({record.ip, record.subject_user, record.target_user, record.server,
                            record.computer, record.process_name})
           e == [ts |-> record.ts, source |-> "windows", actor |-> actor, target |-> target,
                 action |-> action, result |-> result, raw |-> raw, extra |-> extra]
<1>1. ParseEvtx(record) = IF \/ record.form # "record" \/ record.ts = BadTime
                             \/ record.event_id \notin DOMAIN WindowsResults
                          THEN <<>> ELSE <<e>>
  BY Zenon DEF ParseEvtx
<1>2. Dict(extra) /\ "user" \notin DOMAIN extra /\ "remote_user" \notin DOMAIN extra
  <2>1. "user" \notin DOMAIN fields /\ "remote_user" \notin DOMAIN fields
    OBVIOUS
  <2> HIDE DEF fields
  <2> QED BY <2>1, PresentKeys
<1>3. record.target_user # None => target = record.target_user
  BY EitherFirst
<1> HIDE DEF extra, actor, target, action, result, raw
<1>4. IsEvent(e) /\ e.ts = record.ts /\ e.target = target /\ e.source = "windows" /\ e.extra = extra
  BY <1>2 DEF IsEvent, Dict
<1> HIDE DEF e
<1>5. record.form = "record" /\ record.ts # BadTime /\ ParseEvtx(record)[1] = e
  BY <1>1
<1>6. record.ts \in Nat
  BY <1>5 DEF IsRaw
<1>7. CanonicalUser(e) = TextOf(target) /\ Get(e.extra, "remote_user") = None
  BY <1>2, <1>4 DEF CanonicalUser, Get, TextOf, Empty, Blank
<1>8. Account(record) # None =>
         /\ Account(record) # Null => CanonicalUser(e) = Account(record)
         /\ Account(record) = Null => Unnamed(e)
  BY <1>2, <1>3, <1>4, <1>7 DEF Account, Named, TextOf, Empty, Blank, Unnamed
<1> QED BY <1>2, <1>4, <1>5, <1>6, <1>8 DEF Faithful

LEMMA NginxParsed ==
    ASSUME input.source = "nginx", NEW line, IsRaw("nginx", line), ParseNginx(line) # <<>>
    PROVE  Faithful(line, ParseNginx(line)[1])
<1> DEFINE fields == [remote_user |-> line.user, method |-> line.method]
           extra == Present(fields, Blank)
           action == IF line.method \in {"POST", "PUT", "PATCH"} /\ IsLoginEndpoint(line.path)
                     THEN "web_login" ELSE "http_request"
           result == CASE line.status \in 100..399 -> "success"
                       [] line.status \in 400..599 -> "failure"
                       [] OTHER                    -> "unknown"
           raw == Mentions({line.user, line.method})
           e == [ts |-> line.ts, actor |-> line.ip, target |-> "/path", source |-> "nginx",
                 action |-> action, result |-> result, raw |-> raw, extra |-> extra]
<1>1. ParseNginx(line) = IF line.form # "record" \/ line.ts = BadTime THEN <<>> ELSE <<e>>
  BY Zenon DEF ParseNginx
<1>2. /\ Dict(extra) /\ "user" \notin DOMAIN extra
      /\ line.user \notin Blank => "remote_user" \in DOMAIN extra /\ extra["remote_user"] = line.user
  <2>1. /\ "user" \notin DOMAIN fields /\ "remote_user" \in DOMAIN fields
        /\ fields["remote_user"] = line.user
    OBVIOUS
  <2> HIDE DEF fields
  <2> QED BY <2>1, PresentKeys
<1> HIDE DEF extra, action, result, raw
<1>3. IsEvent(e) /\ e.ts = line.ts /\ e.source = "nginx" /\ e.target = "/path" /\ e.extra = extra
  BY <1>2 DEF IsEvent, Dict
<1> HIDE DEF e
<1>4. line.form = "record" /\ line.ts # BadTime /\ ParseNginx(line)[1] = e
  BY <1>1
<1>5. line.ts \in Nat
  BY <1>4 DEF IsRaw
<1>6. CanonicalUser(e) = TextOf(Get(extra, "remote_user"))
  BY <1>2, <1>3 DEF CanonicalUser, Get, TextOf, Empty, Blank
<1>7. Account(line) # None => Account(line) = line.user /\ Get(extra, "remote_user") = line.user
  BY <1>2 DEF Account, Named, Get
<1>8. Account(line) # None =>
         /\ Account(line) # Null => CanonicalUser(e) = Account(line)
         /\ Account(line) = Null => Unnamed(e)
  BY <1>2, <1>3, <1>6, <1>7 DEF Account, Named, TextOf, Empty, Unnamed
<1> QED BY <1>2, <1>3, <1>4, <1>5, <1>8 DEF Faithful

LEMMA OktaParsed ==
    ASSUME input.source = "okta", NEW record, IsRaw("okta", record), ParseOkta(record) # <<>>
    PROVE  Faithful(record, ParseOkta(record)[1])
<1> DEFINE fields == [user |-> record.user, target_app |-> record.app]
           extra == Present(fields, {None})
           actor == Either(<<record.ip, record.user>>)
           target == IF record.type = "sso" THEN Either(<<record.app, record.user>>)
                                            ELSE Either(<<record.user, record.app>>)
           action == OktaActions[record.type]
           raw == Mentions({record.user, record.app})
           e == [ts |-> record.ts, source |-> "okta", actor |-> actor, target |-> target,
                 action |-> action, result |-> record.outcome, raw |-> raw, extra |-> extra]
<1>1. ParseOkta(record) = IF \/ record.form # "record" \/ record.ts = BadTime
                             \/ record.type \notin DOMAIN OktaActions
                          THEN <<>> ELSE <<e>>
  BY Zenon DEF ParseOkta
<1>2. /\ Dict(extra)
      /\ "user" \in DOMAIN extra => extra["user"] = record.user
      /\ record.user # None => "user" \in DOMAIN extra
  <2>1. "user" \in DOMAIN fields /\ fields["user"] = record.user
    OBVIOUS
  <2> HIDE DEF fields
  <2> QED BY <2>1, PresentKeys
<1> HIDE DEF extra, actor, target, action, raw
<1>3. IsEvent(e) /\ e.ts = record.ts /\ e.extra = extra
  BY <1>2 DEF IsEvent, Dict
<1> HIDE DEF e
<1>4. record.form = "record" /\ record.ts # BadTime /\ ParseOkta(record)[1] = e
  BY <1>1
<1>5. record.ts \in Nat
  BY <1>4 DEF IsRaw
<1>6. Account(record) # None => record.user \notin Blank /\ Account(record) = record.user
  BY DEF Account, Named
<1>7. Account(record) # None => "user" \in DOMAIN e.extra /\ e.extra["user"] = Account(record)
  BY <1>2, <1>3, <1>6 DEF Blank
<1> QED BY <1>3, <1>4, <1>5, <1>7 DEF Faithful

LEMMA RawParsed ==
    ASSUME input.source \in LogTypes, NEW item, IsRaw(input.source, item), NEW y \in Nat,
           ~DateRaises(input.source, item, y), ParseRaw(input.source, item, y) # <<>>
    PROVE  Faithful(item, ParseRaw(input.source, item, y)[1])
<1>1. /\ input.source = "evtx" => ParseRaw(input.source, item, y) = ParseEvtx(item)
      /\ input.source = "nginx" => ParseRaw(input.source, item, y) = ParseNginx(item)
      /\ input.source = "okta" => ParseRaw(input.source, item, y) = ParseOkta(item)
  BY DEF ParseRaw
<1> QED BY <1>1, SshdParsed, EvtxParsed, NginxParsed, OktaParsed DEF LogTypes

-----------------------------------------------------------------------------
(* The invariant of a command: what has been loaded comes of the input.    *)

Sourced(x) == x.from \in Nat \ {0} /\ Faithful(RawItem(x.from), x.event)

AllSourced(s) == IsSequence(s) /\ \A i \in DOMAIN s : Sourced(s[i])

(* One event, or none. *)
Supplies(t) == t = <<>> \/ \E x : t = <<x>> /\ Sourced(x)

Counters ==
    /\ phase \in {"reading", "read", "failed", "scanned"}
    /\ at \in Nat \ {0} /\ rereading \in BOOLEAN
    /\ previous \in 0..Months /\ year \in Int
    /\ year >= input.now.year - 1 /\ (previous = 0 => year = input.now.year)
    /\ offset \in Nat /\ pages \in Nat
    /\ input.command = "elastic" =>
          pages <= input.max_pages /\ (phase = "reading" => pages < input.max_pages)
    /\ index \in SUBSET DOMAIN Docs
    /\ findings # <<>> => phase = "scanned"

ScanInv == input \in Inputs /\ Counters /\ AllSourced(events)

LEMMA InputsType ==
    ASSUME input \in Inputs
    PROVE  /\ input.source \in LogTypes /\ input.now.year \in Nat \ {0} /\ input.now.month \in Int
           /\ Len(Docs) \in Nat /\ DOMAIN Docs = 1..Len(Docs)
           /\ input.command = "elastic" =>
                 /\ input.page_size \in Nat \ {0} /\ input.max_pages \in Nat \ {0}
                 /\ Docs = input.docs
<1>1. input.source \in LogTypes /\ input.now.year \in Nat \ {0} /\ input.now.month \in Int
  <2>1. input.source \in LogTypes /\ input.now.year \in Int /\ input.now.month \in Int
    BY InputsAssumption
  <2>2. input.now.year > 0
    BY ItemsAssumption
  <2> QED BY <2>1, <2>2
<1>2. CASE input.command = "elastic"
  <2>1. Docs = input.docs
    BY <1>2 DEF Docs
  <2>2. Docs \in Seq({Docs[n] : n \in DOMAIN Docs})
    BY <1>2, <2>1, PagingAssumption
  <2>3. Len(Docs) \in Nat /\ DOMAIN Docs = 1..Len(Docs)
    BY <2>2
  <2> QED BY <1>1, <1>2, <2>1, <2>3, PagingAssumption
<1>3. CASE input.command # "elastic"
  <2>1. Docs = <<>>
    BY <1>3 DEF Docs
  <2>2. Len(Docs) \in Nat /\ DOMAIN Docs = 1..Len(Docs)
    BY <2>1
  <2> QED BY <1>1, <1>3, <2>2
<1> QED BY <1>2, <1>3

LEMMA SourceKept ==
    ASSUME input' = input
    PROVE  /\ \A x : Sourced(x)' <=> Sourced(x)
           /\ Docs' = Docs /\ Lines' = Lines
  BY DEF Sourced, Faithful, Unnamed, Account, RawItem, Lines, Docs

LEMMA TakenSupplies ==
    ASSUME NEW n \in Nat \ {0}, NEW parsed, parsed = <<>> \/ parsed = <<parsed[1]>>,
           parsed # <<>> => Faithful(RawItem(n), parsed[1])
    PROVE  Supplies(Taken(n, parsed))
<1>1. Taken(n, <<>>) = <<>> /\ \A x : Taken(n, <<x>>) = <<[from |-> n, event |-> x]>>
  BY DEF Taken
<1>2. CASE parsed = <<>>
  BY <1>1, <1>2 DEF Supplies
<1>3. CASE parsed # <<>>
  <2>1. PICK x : x = [from |-> n, event |-> parsed[1]]
    OBVIOUS
  <2>2. Taken(n, parsed) = <<x>>
    BY <1>1, <1>3, <2>1
  <2>3. Sourced(x)
    BY <1>3, <2>1 DEF Sourced
  <2> QED BY <2>2, <2>3 DEF Supplies
<1> QED BY <1>2, <1>3

LEMMA SuppliesSourced ==
    ASSUME NEW t, Supplies(t)
    PROVE  AllSourced(t)
<1>1. CASE t = <<>>
  <2>1. t \in Seq({}) /\ DOMAIN t = {}
    BY <1>1
  <2> QED BY <2>1 DEF AllSourced, IsSequence
<1>2. CASE \E x : t = <<x>> /\ Sourced(x)
  <2>1. PICK x : t = <<x>> /\ Sourced(x)
    BY <1>2
  <2>2. t \in Seq({x}) /\ \A i \in DOMAIN t : t[i] = x
    BY <2>1
  <2> QED BY <2>1, <2>2 DEF AllSourced, IsSequence
<1> QED BY <1>1, <1>2 DEF Supplies

LEMMA FlatSourced ==
    ASSUME NEW U, NEW loaded \in Seq(U), \A i \in DOMAIN loaded : Supplies(loaded[i])
    PROVE  AllSourced(FlattenSeq(loaded))
<1> DEFINE S == {loaded[i][1] : i \in {j \in DOMAIN loaded : loaded[j] # <<>>}}
<1>1. \A i \in DOMAIN loaded : loaded[i] # <<>> => /\ loaded[i] = <<loaded[i][1]>>
                                                  /\ Sourced(loaded[i][1])
  <2>1. \A x : <<x>>[1] = x
    OBVIOUS
  <2> QED BY <2>1 DEF Supplies
<1>2. \A i \in DOMAIN loaded : loaded[i] \in Seq(S)
  <2>1. <<>> \in Seq(S) /\ \A x \in S : <<x>> \in Seq(S)
    <3> HIDE DEF S
    <3> QED OBVIOUS
  <2>2. \A i \in DOMAIN loaded : loaded[i] # <<>> => loaded[i][1] \in S
    OBVIOUS
  <2> HIDE DEF S
  <2> QED BY <1>1, <2>1, <2>2
<1>3. \A x \in S : Sourced(x)
  BY <1>1
<1> HIDE DEF S
<1>4. loaded \in Seq(Seq(S))
  BY <1>2
<1>5. FlattenSeq(loaded) \in Seq(S)
  BY <1>4, FlattenSeqType
<1>6. \A i \in DOMAIN FlattenSeq(loaded) : FlattenSeq(loaded)[i] \in S
  BY <1>5
<1> QED BY <1>3, <1>5, <1>6 DEF AllSourced, IsSequence

LEMMA JoinedSourced ==
    ASSUME NEW s, NEW t, AllSourced(s), AllSourced(t)
    PROVE  AllSourced(s \o t)
<1>1. /\ IsSequence(s \o t)
      /\ \A i \in DOMAIN (s \o t) :
            \/ i \in DOMAIN s /\ (s \o t)[i] = s[i]
            \/ \E k \in DOMAIN t : (s \o t)[i] = t[k]
  <2>1. IsSequence(s) /\ IsSequence(t)
    BY DEF AllSourced
  <2> QED BY <2>1, Appended
<1> QED BY <1>1 DEF AllSourced

LEMMA NothingSourced == AllSourced(<<>>)
  BY SuppliesSourced DEF Supplies

(* What the calendar lets through of an item of the input is faithful.     *)
LEMMA ItemParsed ==
    ASSUME input \in Inputs, NEW item \in ItemsOf(input), NEW y \in Nat,
           ~DateRaises(input.source, item, y), ParseRaw(input.source, item, y) # <<>>
    PROVE  Faithful(item, ParseRaw(input.source, item, y)[1])
<1>1. IsRaw(input.source, item)
  <2>1. item.form = "record" => IsRaw(input.source, item)
    BY ItemsAssumption
  <2> QED BY <2>1 DEF IsRaw
<1> QED BY <1>1, InputsType, RawParsed

LEMMA ScanInit == Init => ScanInv
<1> SUFFICES ASSUME Init
             PROVE  ScanInv
  OBVIOUS
<1>1. /\ input \in Inputs /\ events = <<>> /\ phase = "reading" /\ findings = <<>>
      /\ at = 1 /\ rereading = FALSE /\ year = input.now.year /\ previous = 0
      /\ index \in SUBSET DOMAIN Docs /\ offset = 0 /\ pages = 0
  BY DEF Init, FileInit, PullInit
<1>2. input.now.year \in Nat /\ (input.command = "elastic" => input.max_pages \in Nat \ {0})
      /\ Months \in Nat
  BY <1>1, InputsType, CalendarAssumption
<1>3. rereading \in BOOLEAN
  BY <1>1, Zenon
<1>4. Counters
  BY <1>1, <1>2, <1>3 DEF Counters
<1> QED BY <1>1, <1>4, NothingSourced DEF ScanInv

(* A step that loads no event and leaves the input alone. *)
LEMMA CommandKept ==
    ASSUME ScanInv, input' = input, AllSourced(events)' \/ events' = events, Counters'
    PROVE  ScanInv'
<1>1. AllSourced(events)'
  <2>1. \A x : Sourced(x)' <=> Sourced(x)
    BY SourceKept
  <2> QED BY <2>1 DEF ScanInv, AllSourced, IsSequence
<1> QED BY <1>1 DEF ScanInv

(* Reading a line of a file, the calendar permitting. *)
LEMMA LineSourced ==
    ASSUME ScanInv, input.command = "file", More, NEW y \in Nat,
           NEW parsed, parsed = <<>> \/ parsed = ParseRaw(input.source, Line, y),
           ~DateRaises(input.source, Line, y), Read(parsed)
    PROVE  AllSourced(events)'
<1>1. /\ input \in Inputs /\ at \in Nat \ {0} /\ AllSourced(events)
      /\ input' = input /\ events' = events \o Taken(at, parsed)
  BY DEF ScanInv, Counters, Read
<1>2. at \in DOMAIN Lines /\ RawItem(at) = Line
  BY <1>1, FileLines DEF More, Filing, Line, Lines, RawItem
<1>3. Line \in ItemsOf(input)
  BY <1>2 DEF ItemsOf, Line, Lines
<1>4. parsed = <<>> \/ parsed = <<parsed[1]>>
  BY <1>1, InputsType, ParsedOne
<1>5. parsed # <<>> => Faithful(RawItem(at), parsed[1])
  BY <1>1, <1>2, <1>3, ItemParsed
<1>6. AllSourced(Taken(at, parsed))
  BY <1>1, <1>4, <1>5, TakenSupplies, SuppliesSourced
<1>7. AllSourced(events \o Taken(at, parsed))
  BY <1>1, <1>6, JoinedSourced
<1>8. \A x : Sourced(x)' <=> Sourced(x)
  BY <1>1, SourceKept
<1> QED BY <1>1, <1>7, <1>8 DEF AllSourced, IsSequence

LEMMA SshdLineKeeps ==
    ASSUME ScanInv, ReadSshdLine, UNCHANGED <<pullVars, findings>>
    PROVE  ScanInv'
<1>1. /\ input.command = "file" /\ input.source = "sshd" /\ phase = "reading" /\ More
      /\ Counters /\ input \in Inputs
  BY DEF ReadSshdLine, From, Reading, ScanInv
<1>2. input' = input /\ at' = at + 1 /\ phase' = phase /\ rereading' = rereading
  BY DEF ReadSshdLine, Read
<1>3. /\ offset' = offset /\ pages' = pages /\ index' = index /\ findings' = findings /\ Docs' = Docs
  BY <1>2, SourceKept DEF pullVars, indexVars
<1>4. input.now.year \in Nat \ {0} /\ input.now.month \in Int /\ Months \in Nat
  BY <1>1, InputsType, CalendarAssumption
<1>5. CASE Dated(Line)
  <2>1. PICK y : y = Resolved(Line)
    OBVIOUS
  <2>2. /\ ~DateRaises("sshd", Line, y) /\ year' = y
        /\ previous' = IF HasMonth(Line) THEN Line.month ELSE previous
        /\ Read(ParseRaw("sshd", Line, y))
    BY <1>5, <2>1 DEF ReadSshdLine
  <2>3. Line.month \in 1..Months
    BY <1>5, <2>2 DEF DateRaises, Dated, Exists
  <2>4. y \in Int /\ y >= input.now.year - 1 /\ previous' \in 0..Months /\ (previous' = 0 => y = input.now.year)
    <3>1. CASE HasMonth(Line)
      <4>1. y = IF previous = 0 /\ Line.month > input.now.month THEN year - 1
                ELSE IF previous # 0 /\ Line.month < previous THEN year + 1 ELSE year
        BY <2>1, <3>1 DEF Resolved
      <4>2. previous' = Line.month /\ Line.month # 0
        BY <2>2, <2>3, <3>1
      <4> QED BY <1>1, <1>4, <2>3, <4>1, <4>2 DEF Counters
    <3>2. CASE ~HasMonth(Line)
      <4>1. y = year /\ previous' = previous
        BY <2>1, <2>2, <3>2 DEF Resolved
      <4> QED BY <1>1, <1>4, <4>1 DEF Counters
    <3> QED BY <3>1, <3>2
  <2>5. y \in Nat
    BY <1>4, <2>4
  <2>6. AllSourced(events)'
    BY <1>1, <2>2, <2>5, LineSourced
  <2>7. Counters'
    BY <1>1, <1>2, <1>3, <1>4, <2>2, <2>4 DEF Counters
  <2> QED BY <1>2, <2>6, <2>7, CommandKept
<1>6. CASE ~Dated(Line)
  <2>1. Read(<<>>) /\ year' = year /\ previous' = previous
    BY <1>6 DEF ReadSshdLine
  <2>2. ~DateRaises("sshd", Line, 0)
    BY <1>6 DEF DateRaises, Dated
  <2>3. AllSourced(events)'
    BY <1>1, <2>1, <2>2, LineSourced
  <2>4. Counters'
    BY <1>1, <1>2, <1>3, <2>1 DEF Counters
  <2> QED BY <1>2, <2>3, <2>4, CommandKept
<1> QED BY <1>5, <1>6

LEMMA PlainLineKeeps ==
    ASSUME ScanInv, ReadNginxLine \/ StreamRecord \/ RereadLine \/ ReadOktaLine,
           UNCHANGED <<pullVars, findings>>
    PROVE  ScanInv'
<1>1. /\ input.command = "file" /\ More /\ Counters /\ input \in Inputs
      /\ ~DateRaises(input.source, Line, 0)
  BY DEF ReadNginxLine, StreamRecord, RereadLine, ReadOktaLine, From, Reading, ScanInv, DateRaises
<1>2. Read(ParseRaw(input.source, Line, 0)) /\ year' = year /\ previous' = previous
  BY DEF ReadNginxLine, StreamRecord, RereadLine, ReadOktaLine, From, ParseRaw
<1>3. input' = input /\ at' = at + 1 /\ phase' = phase /\ rereading' = rereading
  BY <1>2 DEF Read
<1>4. AllSourced(events)'
  BY <1>1, <1>2, LineSourced
<1>5. Docs' = Docs
  BY <1>3, SourceKept
<1>6. Counters'
  BY <1>1, <1>2, <1>3, <1>5 DEF Counters, pullVars, indexVars
<1> QED BY <1>3, <1>4, <1>6, CommandKept

LEMMA OktaDocumentKeeps ==
    ASSUME ScanInv, LoadOktaDocument, UNCHANGED <<pullVars, findings>>
    PROVE  ScanInv'
<1> DEFINE loaded == [n \in DOMAIN Lines |-> Taken(n, ParseOkta(Lines[n]))]
           flat == FlattenSeq(loaded)
           U == {loaded[n] : n \in DOMAIN Lines}
<1>1. /\ input.command = "file" /\ input.source = "okta" /\ phase = "reading"
      /\ Counters /\ input \in Inputs /\ input' = input
      /\ phase' = "read" /\ UNCHANGED fileVars
      /\ events' = <<>> \/ events' = flat
  BY DEF LoadOktaDocument, From, Reading, ScanInv
<1>2. Len(Lines) \in Nat /\ DOMAIN Lines = 1..Len(Lines)
  BY <1>1, FileLines DEF Filing
<1>3. ASSUME NEW n \in DOMAIN Lines
      PROVE  Supplies(Taken(n, ParseOkta(Lines[n])))
  <2>1. n \in Nat \ {0} /\ Lines[n] \in ItemsOf(input) /\ RawItem(n) = Lines[n]
    BY <1>1, <1>2 DEF ItemsOf, Lines, RawItem
  <2>2. PICK item : item = Lines[n]
    OBVIOUS
  <2>3. ParseRaw(input.source, item, 0) = ParseOkta(item) /\ ~DateRaises(input.source, item, 0)
    BY <1>1 DEF ParseRaw, DateRaises
  <2>4. ParseOkta(item) # <<>> => Faithful(RawItem(n), ParseOkta(item)[1])
    BY <1>1, <2>1, <2>2, <2>3, ItemParsed
  <2>5. ParseOkta(item) = <<>> \/ ParseOkta(item) = <<ParseOkta(item)[1]>>
    BY <1>1, <2>3, InputsType, ParsedOne
  <2> QED BY <2>1, <2>2, <2>4, <2>5, TakenSupplies
<1>4. AllSourced(flat)
  <2>1. loaded \in Seq(U) /\ DOMAIN loaded = DOMAIN Lines
    BY <1>2
  <2>2. \A n \in DOMAIN loaded : Supplies(loaded[n])
    BY <1>3
  <2> HIDE DEF loaded, U
  <2> QED BY <2>1, <2>2, FlatSourced
<1> HIDE DEF flat
<1>5. AllSourced(events')
  BY <1>1, <1>4, NothingSourced
<1>6. \A x : Sourced(x)' <=> Sourced(x)
  BY <1>1, SourceKept
<1>7. AllSourced(events)'
  BY <1>5, <1>6 DEF AllSourced, IsSequence
<1>8. Docs' = Docs
  BY <1>1, SourceKept
<1>9. Counters'
  BY <1>1, <1>8 DEF Counters, pullVars, indexVars, fileVars
<1> QED BY <1>1, <1>7, <1>9, CommandKept

LEMMA OtherFileKeeps ==
    ASSUME ScanInv, BadDate \/ StreamBreaks \/ EndOfFile, UNCHANGED <<pullVars, findings>>
    PROVE  ScanInv'
<1>1. Counters /\ input \in Inputs /\ phase = "reading"
  BY DEF ScanInv, BadDate, StreamBreaks, EndOfFile, From, Reading
<1>2. input' = input /\ events' = events
  BY DEF BadDate, StreamBreaks, EndOfFile, End
<1>3. /\ input.command = "file" /\ phase' \in {"reading", "read", "failed"}
      /\ UNCHANGED <<year, previous>>
      /\ UNCHANGED <<at, rereading>> \/ (rereading' = TRUE /\ at' = 1)
  BY <1>1 DEF BadDate, StreamBreaks, EndOfFile, End, From, Reading, RereadFrom, fileVars
<1>4. Docs' = Docs
  BY <1>2, SourceKept
<1>5. rereading' \in BOOLEAN
  BY <1>1, <1>3, Zenon DEF Counters
<1>6. at' \in Nat \ {0} /\ year' = year /\ previous' = previous
  BY <1>1, <1>3 DEF Counters
<1>7. /\ offset' = offset /\ pages' = pages /\ index' = index /\ findings' = findings
  BY DEF pullVars, indexVars
<1>8. Counters'
  BY <1>1, <1>2, <1>3, <1>4, <1>5, <1>6, <1>7 DEF Counters
<1> QED BY <1>2, <1>8, CommandKept

LEMMA PayloadKeeps ==
    ASSUME ScanInv, ReadPayload, UNCHANGED <<fileVars, pullVars, findings>>
    PROVE  ScanInv'
<1>1. /\ input.command = "payload" /\ phase = "reading" /\ Counters /\ input \in Inputs
      /\ input.source \in LogTypes /\ input.now.year \in Nat
  BY InputsType DEF ReadPayload, Reading, ScanInv
<1> DEFINE items == input.items
           loaded == [n \in DOMAIN items |-> Taken(n, EventFromItem(items[n]))]
           flat == FlattenSeq(loaded)
           U == {loaded[n] : n \in DOMAIN items}
<1>2. /\ input' = input /\ phase' \in {"failed", "read"}
      /\ \/ events' = events
         \/ events' = flat /\ \A n \in DOMAIN items : ~ItemRaises(items[n])
  BY DEF ReadPayload, End
<1>3. items \in Seq(ItemsOf(input))
  BY <1>1, ItemsAssumption
<1>4. Len(items) \in Nat /\ DOMAIN items = 1..Len(items)
  BY <1>3
<1>5. ASSUME NEW n \in DOMAIN items, ~ItemRaises(items[n])
      PROVE  Supplies(Taken(n, EventFromItem(items[n])))
  <2>1. PICK item : item = items[n]
    OBVIOUS
  <2>2. n \in Nat \ {0} /\ item \in ItemsOf(input) /\ RawItem(n) = item
    BY <1>1, <1>4, <2>1 DEF ItemsOf, RawItem
  <2>3. CASE item.form = "normalized"
    <3>1. EventFromItem(item) = <<item.event>>
      BY <2>3 DEF EventFromItem
    <3>2. IsEvent(item.event) /\ item.event.ts \in Nat
      BY <1>1, <1>5, <2>1, <2>2, <2>3, ItemsAssumption DEF ItemRaises
    <3>3. Faithful(item, item.event)
      BY <2>3, <3>2 DEF Faithful
    <3>4. \A x : <<x>>[1] = x
      OBVIOUS
    <3> QED BY <2>1, <2>2, <3>1, <3>3, <3>4, TakenSupplies
  <2>4. CASE item.form = "wrapped"
    <3>1. CASE input.source = "okta"
      <4>1. EventFromItem(item) = <<>>
        BY <2>4, <3>1 DEF EventFromItem
      <4> QED BY <2>1, <2>2, <4>1, TakenSupplies
    <3>2. CASE input.source # "okta"
      <4>1. PICK raw, y : raw = item.raw /\ y = input.now.year
        OBVIOUS
      <4>2. EventFromItem(item) = ParseRaw(input.source, raw, y)
        BY <2>4, <3>2, <4>1 DEF EventFromItem
      <4>3. IsRaw(input.source, raw)
        BY <1>1, <2>2, <2>4, <4>1, ItemsAssumption
      <4>4. ~DateRaises(input.source, raw, y)
        BY <1>5, <2>1, <2>4, <4>1 DEF ItemRaises
      <4>5. ParseRaw(input.source, raw, y) # <<>>
              => Faithful(raw, ParseRaw(input.source, raw, y)[1])
        BY <1>1, <4>1, <4>3, <4>4, RawParsed
      <4>6. PICK parsed : parsed = ParseRaw(input.source, raw, y)
        OBVIOUS
      <4>7. parsed # <<>> => Faithful(item, parsed[1])
        BY <2>4, <4>5, <4>6 DEF Faithful
      <4>8. parsed = <<>> \/ parsed = <<parsed[1]>>
        BY <1>1, <4>6, ParsedOne
      <4> QED BY <2>1, <2>2, <4>2, <4>6, <4>7, <4>8, TakenSupplies
    <3> QED BY <3>1, <3>2
  <2>5. CASE item.form \notin {"normalized", "wrapped"}
    <3>1. PICK y : y = input.now.year
      OBVIOUS
    <3>2. EventFromItem(item) = ParseRaw(input.source, item, y)
      BY <2>5, <3>1 DEF EventFromItem
    <3>3. ~DateRaises(input.source, item, y)
      BY <1>5, <2>1, <2>5, <3>1 DEF ItemRaises
    <3>4. PICK parsed : parsed = ParseRaw(input.source, item, y)
      OBVIOUS
    <3>5. parsed # <<>> => Faithful(item, parsed[1])
      BY <1>1, <2>2, <3>1, <3>3, <3>4, ItemParsed
    <3>6. parsed = <<>> \/ parsed = <<parsed[1]>>
      BY <1>1, <3>4, ParsedOne
    <3> QED BY <2>1, <2>2, <3>2, <3>4, <3>5, <3>6, TakenSupplies
  <2> QED BY <2>3, <2>4, <2>5
<1>6. (\A n \in DOMAIN items : ~ItemRaises(items[n])) => AllSourced(flat)
  <2> SUFFICES ASSUME \A n \in DOMAIN items : ~ItemRaises(items[n])
               PROVE  AllSourced(flat)
    OBVIOUS
  <2>1. loaded \in Seq(U) /\ DOMAIN loaded = DOMAIN items
    BY <1>4
  <2>2. \A n \in DOMAIN loaded : Supplies(loaded[n])
    BY <1>5
  <2> HIDE DEF loaded, U
  <2> QED BY <2>1, <2>2, FlatSourced
<1> HIDE DEF flat
<1>7. AllSourced(events')
  BY <1>2, <1>6 DEF ScanInv
<1>8. \A x : Sourced(x)' <=> Sourced(x)
  BY <1>2, SourceKept
<1>9. AllSourced(events)'
  BY <1>7, <1>8 DEF AllSourced, IsSequence
<1>10. Docs' = Docs
  BY <1>2, SourceKept
<1>11. Counters'
  BY <1>1, <1>2, <1>10 DEF Counters, pullVars, indexVars, fileVars
<1> QED BY <1>2, <1>9, <1>11, CommandKept

LEMMA MovesKeep ==
    ASSUME ScanInv, NEW doc \in DOMAIN Docs, DocumentComes(doc) \/ DocumentGoes(doc),
           UNCHANGED <<fileVars, findings>>
    PROVE  ScanInv'
<1>1. /\ Counters /\ input \in Inputs /\ phase = "reading"
      /\ input' = input /\ events' = events /\ phase' = phase
      /\ offset' = offset /\ pages' = pages
      /\ index' \in SUBSET DOMAIN Docs
  BY DEF ScanInv, Counters, DocumentComes, DocumentGoes, Pull, Reading
<1>2. Docs' = Docs
  BY <1>1, SourceKept
<1>3. Counters'
  BY <1>1, <1>2 DEF Counters, fileVars
<1> QED BY <1>1, <1>3, CommandKept

(* A page holds documents of the index. *)
LEMMA HitsIndexed ==
    ASSUME NEW order \in Orders, IsFiniteSet(index), NEW from \in Nat, NEW size \in Nat
    PROVE  SubSeq(order, from + 1, Min({from + size, Len(order)})) \in Seq(index)
<1> DEFINE n == Cardinality(index)
           last == Min({from + size, Len(order)})
<1>1. n \in Nat
  BY FS_CardinalityType
<1>2. order \in Seq(index) /\ Len(order) = n
  <2>1. order \in [1..n -> index]
    BY DEF Orders
  <2> HIDE DEF n
  <2> QED BY <1>1, <2>1
<1>3. last \in {from + size, n}
  <2>1. {from + size, n} \in SUBSET Nat /\ {from + size, n} # {}
    BY <1>1
  <2>2. Min({from + size, n}) \in {from + size, n}
    BY <2>1, LeastOf
  <2> QED BY <1>2, <2>2
<1>4. last \in Nat /\ last <= Len(order)
  <2>1. {from + size, n} \in SUBSET Nat /\ {from + size, n} # {}
    BY <1>1
  <2>2. Min({from + size, n}) <= n
    BY <2>1, LeastOf
  <2> QED BY <1>1, <1>2, <1>3, <2>2
<1> HIDE DEF last, n
<1>5. SubSeq(order, from + 1, last) \in Seq(index)
  BY <1>2, <1>4, Stretch
<1> QED BY <1>5 DEF last

LEMMA PageKeeps ==
    ASSUME ScanInv, FetchPage, UNCHANGED <<fileVars, findings>>
    PROVE  ScanInv'
<1>1. /\ input.command = "elastic" /\ phase = "reading" /\ Counters /\ input \in Inputs
      /\ input.source \in LogTypes /\ input.now.year \in Nat
      /\ input.page_size \in Nat \ {0} /\ input.max_pages \in Nat \ {0}
      /\ Len(Docs) \in Nat /\ DOMAIN Docs = 1..Len(Docs) /\ Docs = input.docs
  BY InputsType DEF FetchPage, Pull, Reading, ScanInv
<1>2. /\ input' = input /\ index' = index /\ AllSourced(events) /\ index \in SUBSET DOMAIN Docs
      /\ offset \in Nat /\ pages \in Nat /\ pages < input.max_pages
  BY <1>1 DEF FetchPage, indexVars, ScanInv, Counters
<1>3. PICK order \in Orders :
        LET hits == SubSeq(order, offset + 1, Min({offset + input.page_size, Len(order)}))
            loaded == [i \in DOMAIN hits |-> Taken(hits[i], EventFromHit(Docs[hits[i]].content))]
        IN /\ \A i \in DOMAIN hits : ~HitRaises(Docs[hits[i]].content)
           /\ events' = events \o FlattenSeq(loaded)
           /\ offset' = Advanced(hits)
           /\ pages' = pages + 1
           /\ phase' = Outcome(hits)
  BY DEF FetchPage
<1> DEFINE hits == SubSeq(order, offset + 1, Min({offset + input.page_size, Len(order)}))
           loaded == [i \in DOMAIN hits |-> Taken(hits[i], EventFromHit(Docs[hits[i]].content))]
           flat == FlattenSeq(loaded)
           U == {loaded[i] : i \in DOMAIN hits}
<1>4. /\ \A i \in DOMAIN hits : ~HitRaises(Docs[hits[i]].content)
      /\ events' = events \o flat /\ offset' = offset + Len(hits) /\ pages' = pages + 1
      /\ phase' = Outcome(hits)
  BY <1>3, Zenon DEF Advanced
<1>5. IsFiniteSet(index)
  <2>1. IsFiniteSet(DOMAIN Docs)
    BY <1>1, FirstNumbers
  <2> QED BY <1>2, <2>1, FS_Subset
<1>6. hits \in Seq(index)
  BY <1>1, <1>2, <1>5, HitsIndexed
<1> HIDE DEF hits
<1>7. Len(hits) \in Nat /\ DOMAIN hits = 1..Len(hits) /\ \A i \in DOMAIN hits : hits[i] \in index
  BY <1>6
<1>8. ASSUME NEW i \in DOMAIN hits
      PROVE  Supplies(Taken(hits[i], EventFromHit(Docs[hits[i]].content)))
  <2>1. PICK d, item, y : d = hits[i] /\ item = Docs[d].content /\ y = input.now.year
    OBVIOUS
  <2>2. d \in Nat \ {0} /\ d \in DOMAIN Docs
    BY <1>1, <1>2, <1>7, <2>1
  <2>3. item \in ItemsOf(input) /\ RawItem(d) = item
    BY <1>1, <2>1, <2>2 DEF ItemsOf, RawItem
  <2>4. ~DateRaises(input.source, item, y)
    BY <1>4, <2>1 DEF HitRaises
  <2>5. PICK parsed : parsed = EventFromHit(item)
    OBVIOUS
  <2>6. parsed = <<>> \/ parsed = <<parsed[1]>>
    BY <1>1, <2>5, HitOne
  <2>7. parsed # <<>> => Faithful(item, parsed[1])
    <3>1. CASE item.form = "normalized" /\ item.event.ts # BadTime
      <4>1. parsed = <<item.event>>
        BY <2>5, <3>1 DEF EventFromHit
      <4>2. parsed[1] = item.event
        BY <4>1
      <4>3. IsEvent(item.event) /\ item.event.ts \in Nat
        BY <1>1, <2>3, <3>1, ItemsAssumption
      <4> QED BY <3>1, <4>2, <4>3 DEF Faithful
    <3>2. CASE ~(item.form = "normalized" /\ item.event.ts # BadTime)
      <4>1. parsed = ParseRaw(input.source, item, y)
        BY <2>1, <2>5, <3>2 DEF EventFromHit
      <4> QED BY <1>1, <2>1, <2>3, <2>4, <4>1, ItemParsed
    <3> QED BY <3>1, <3>2
  <2> QED BY <2>1, <2>2, <2>3, <2>5, <2>6, <2>7, TakenSupplies
<1>9. AllSourced(flat)
  <2>1. loaded \in Seq(U) /\ DOMAIN loaded = DOMAIN hits
    BY <1>7
  <2>2. \A i \in DOMAIN loaded : Supplies(loaded[i])
    BY <1>8
  <2> HIDE DEF loaded, U
  <2> QED BY <2>1, <2>2, FlatSourced
<1> HIDE DEF flat
<1>10. AllSourced(events')
  BY <1>2, <1>4, <1>9, JoinedSourced
<1>11. \A x : Sourced(x)' <=> Sourced(x)
  BY <1>2, SourceKept
<1>12. AllSourced(events)'
  BY <1>10, <1>11 DEF AllSourced, IsSequence
<1>13. Docs' = Docs
  BY <1>2, SourceKept
<1>14. phase' \in {"reading", "read", "failed"} /\ (phase' = "reading" => pages + 1 # input.max_pages)
  BY <1>4 DEF Outcome
<1>15. Counters'
  <2>1. /\ at' = at /\ rereading' = rereading /\ year' = year /\ previous' = previous
        /\ findings' = findings
    BY DEF fileVars
  <2>2. offset' \in Nat /\ pages' \in Nat /\ pages' <= input.max_pages
    BY <1>1, <1>2, <1>4, <1>7
  <2>3. phase' = "reading" => pages' < input.max_pages
    BY <1>1, <1>2, <1>4, <1>14
  <2>4. findings = <<>>
    BY <1>1 DEF Counters
  <2> HIDE DEF flat, loaded, U
  <2> QED BY <1>1, <1>2, <1>13, <1>14, <2>1, <2>2, <2>3, <2>4 DEF Counters
<1> QED BY <1>2, <1>12, <1>15, CommandKept

LEMMA RestOfCommandKeeps ==
    ASSUME ScanInv,
           \/ RequestFails /\ UNCHANGED <<fileVars, findings>>
           \/ Scan /\ UNCHANGED <<fileVars, pullVars>>
           \/ UNCHANGED vars
    PROVE  ScanInv'
<1>1. Counters /\ input \in Inputs
  BY DEF ScanInv
<1>2. input' = input /\ events' = events
  BY DEF RequestFails, End, Scan, vars
<1>3. Docs' = Docs
  BY <1>2, SourceKept
<1>4. CASE RequestFails /\ UNCHANGED <<fileVars, findings>>
  <2>1. phase = "reading" /\ phase' = "failed"
    BY <1>4 DEF RequestFails, End, Pull, Reading
  <2>2. Counters'
    BY <1>1, <1>2, <1>3, <1>4, <2>1 DEF Counters, RequestFails, pullVars, indexVars, fileVars
  <2> QED BY <1>2, <2>2, CommandKept
<1>5. CASE Scan /\ UNCHANGED <<fileVars, pullVars>>
  <2>1. phase = "read" /\ phase' = "scanned"
    BY <1>5 DEF Scan
  <2>2. Counters'
    BY <1>1, <1>2, <1>3, <1>5, <2>1 DEF Counters, pullVars, indexVars, fileVars
  <2> QED BY <1>2, <2>2, CommandKept
<1>6. CASE UNCHANGED vars
  <2>1. Counters'
    BY <1>1, <1>2, <1>3, <1>6 DEF Counters, vars, pullVars, indexVars, fileVars
  <2> QED BY <1>2, <2>1, CommandKept
<1> QED BY <1>4, <1>5, <1>6

LEMMA ScanNext == ScanInv /\ [Next]_vars => ScanInv'
<1> SUFFICES ASSUME ScanInv, [Next]_vars
             PROVE  ScanInv'
  OBVIOUS
<1>1. CASE ReadFile /\ UNCHANGED <<pullVars, findings>>
  BY <1>1, SshdLineKeeps, PlainLineKeeps, OktaDocumentKeeps, OtherFileKeeps DEF ReadFile
<1>2. CASE PullEvents /\ UNCHANGED <<fileVars, findings>>
  <2>1. CASE \E doc \in DOMAIN Docs : DocumentComes(doc) \/ DocumentGoes(doc)
    BY <1>2, <2>1, MovesKeep
  <2>2. CASE FetchPage
    BY <1>2, <2>2, PageKeeps
  <2>3. CASE RequestFails
    BY <1>2, <2>3, RestOfCommandKeeps
  <2> QED BY <1>2, <2>1, <2>2, <2>3 DEF PullEvents
<1>3. CASE ReadPayload /\ UNCHANGED <<fileVars, pullVars, findings>>
  BY <1>3, PayloadKeeps
<1>4. CASE Scan /\ UNCHANGED <<fileVars, pullVars>>
  BY <1>4, RestOfCommandKeeps
<1>5. CASE Done
  BY <1>5, RestOfCommandKeeps DEF Done
<1>6. CASE UNCHANGED vars
  BY <1>6, RestOfCommandKeeps
<1> QED BY <1>1, <1>2, <1>3, <1>4, <1>5, <1>6 DEF Next

(* What has been loaded comes of the input, for any inputs. *)
THEOREM ScanInvariance == Spec => []ScanInv
BY ScanInit, ScanNext, PTL DEF Spec

(* Types of the command, for any inputs. *)
THEOREM ScanTypes == Spec => []TypeOK
<1>1. ScanInv => TypeOK
  BY DEF ScanInv, Counters, AllSourced, Sourced, Faithful, TypeOK
<1> QED BY <1>1, ScanInvariance, PTL

(* Nothing unvalidated reaches the rules of whatever is loaded, unless it  *)
(* came with the enricher's own mark, and a second preparation changes     *)
(* nothing (enrichment.py).                                                *)
THEOREM LoadedIsValidated == Spec => []OnlyValidatedReachRules
<1>1. ASSUME ScanInv, NEW i \in DOMAIN events
      PROVE  LET e == events[i].event
                 prepared == Prepared(e)
             IN /\ Get(e.extra, "geo_version") # GeoVersion
                     => Flat(prepared).continent \in {None} \cup {ContinentCode[s] : s \in DOMAIN ContinentCode}
                /\ Get(e.extra, "credential_version") # CredentialVersion
                     => /\ Flat(prepared).credential \in {None} \cup {Fingerprint[s] : s \in DOMAIN Fingerprint}
                        /\ DOMAIN prepared.extra \cap ToSet(CredentialKeys) \subseteq {"password_fingerprint"}
                /\ Prepared(prepared) = prepared
  <2>1. PICK e : e = events[i].event
    OBVIOUS
  <2>2. IsEvent(e)
    BY <1>1, <2>1 DEF ScanInv, AllSourced, Sourced, Faithful
  <2> QED BY <2>1, <2>2, ValidatedEvent, PreparedTwice
<1>2. ScanInv => OnlyValidatedReachRules
  BY <1>1 DEF OnlyValidatedReachRules
<1> QED BY <1>2, ScanInvariance, PTL

(* The account a record names is the key of every rule that looks at       *)
(* accounts, for any input, and the rules part over one that field mapping *)
(* takes for empty just as AccountIsKey says.                              *)
THEOREM RecordsGoByAccount == Spec => []AccountIsKey
<1>1. ASSUME ScanInv, NEW i \in DOMAIN events
      PROVE  LET item == RawItem(events[i].from)
                 seen == Flat(Prepared(events[i].event))
             IN item.form = "record" /\ Account(item) # None
                   => IF Account(item) # Null \/ input.source = "okta"
                      THEN AllGoBy(Account(item), seen)
                      ELSE RulesDisagree(seen)
  <2>1. PICK e, item, seen : /\ e = events[i].event /\ item = RawItem(events[i].from)
                             /\ seen = Flat(Prepared(e))
    OBVIOUS
  <2>2. Faithful(item, e)
    BY <1>1, <2>1 DEF ScanInv, AllSourced, Sourced
  <2>3. ASSUME item.form = "record", Account(item) # None,
               Account(item) # Null \/ input.source = "okta"
        PROVE  AllGoBy(Account(item), seen)
    <3>1. PICK account : account = Account(item)
      OBVIOUS
    <3>2. account # None /\ account \notin Blank
      BY <2>3, <3>1 DEF Account, Named, Blank
    <3>3. /\ IsEvent(e)
          /\ IF "user" \in DOMAIN e.extra THEN e.extra["user"] = account
                                          ELSE CanonicalUser(e) = account
      BY <2>2, <2>3, <3>1 DEF Faithful
    <3>4. seen.user = account
      BY <2>1, <3>2, <3>3, UserKept
    <3> QED BY <3>1, <3>2, <3>4, UserIsKey
  <2>4. ASSUME item.form = "record", Account(item) # None,
               ~(Account(item) # Null \/ input.source = "okta")
        PROVE  RulesDisagree(seen)
    <3>1. IsEvent(e) /\ Unnamed(e)
      BY <2>2, <2>4 DEF Faithful
    <3> QED BY <2>1, <3>1, UnnamedKeys
  <2> QED BY <2>1, <2>3, <2>4
<1>2. ScanInv => AccountIsKey
  BY <1>1 DEF AccountIsKey
<1> QED BY <1>2, ScanInvariance, PTL

=============================================================================
