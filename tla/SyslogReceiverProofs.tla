------------------------- MODULE SyslogReceiverProofs -------------------------
(***************************************************************************)
(* Proofs about SyslogReceiver for every queue size, every number of       *)
(* callers and every program in which a caller starts at most once.        *)
(***************************************************************************)
EXTENDS SyslogReceiver, FiniteSetTheorems, TLAPS

Item == Message \cup {Stop}

(* The numbers of the messages in a queue.  Waiting is Numbers(queue).     *)
Numbers(q) == {q[i].n : i \in DOMAIN q} \ {0}

(* No message is in a queue twice. *)
Distinct(q) == \A i, j \in DOMAIN q : q[i] # Stop /\ q[i].n = q[j].n => i = j

Handling == {t \in Callers : task[t] = "handling"}

(* What is queued and what is in hand has arrived, each message is in one  *)
(* place, and drain() waits only for what has arrived.                     *)
EachInOnePlace ==
    /\ Distinct(queue)
    /\ Waiting \subseteq 1..counters.received
    /\ \A t \in Handling : hand[t] \in Message /\ hand[t].n \in (1..counters.received) \ Waiting
    /\ \A t, u \in Handling : hand[t].n = hand[u].n => t = u
    /\ \A c \in Callers : promised[c] \subseteq 1..counters.received

(* A caller that has a consumer task will not start another.               *)
StartsOnce ==
    /\ calls \in [Callers -> Seq({"start", "drain", "close"})]
    /\ \A c \in Callers :
        /\ \A i, j \in DOMAIN calls[c] : calls[c][i] = "start" /\ calls[c][j] = "start" => i = j
        /\ task[c] # "none" => \A i \in DOMAIN calls[c] : calls[c][i] # "start"
        /\ pc[c] # "ready" => calls[c] # <<>>
        /\ pc[c] \in {"binding", "bound"} => Head(calls[c]) = "start"

IInv == /\ TypeOK
        /\ StartsOnce
        /\ EachInOnePlace
        /\ UnfinishedIsExact
        /\ EveryDatagramCounted
        /\ DrainWaitsForHandlers

-----------------------------------------------------------------------------
(* Queues *)

LEMMA Items ==
    /\ \A m \in Message : m.n \in 1..MaxDatagrams /\ m # Stop /\ m.kind \in {"event", "noise"}
    /\ Stop.n = 0 /\ Stop.kind = "stop"
    /\ \A n \in 1..MaxDatagrams : \A kind \in {"event", "noise"} :
          [n |-> n, kind |-> kind] \in Message /\ [n |-> n, kind |-> kind].n = n
  BY DEF Message, Stop

LEMMA QueueShape ==
    ASSUME NEW q \in Seq(Item)
    PROVE  /\ DOMAIN q = 1..Len(q) /\ Len(q) \in Nat
           /\ \A i \in DOMAIN q : q[i] \in Item /\ q[i].n \in 0..MaxDatagrams
<1>1. DOMAIN q = 1..Len(q) /\ Len(q) \in Nat /\ \A i \in DOMAIN q : q[i] \in Item
  OBVIOUS
<1>2. \A m \in Item : m.n \in 0..MaxDatagrams
  BY Items, ReceiverAssumption DEF Item
<1> QED BY <1>1, <1>2

LEMMA AppendMessage ==
    ASSUME NEW q \in Seq(Item), Distinct(q), NEW m \in Message, m.n \notin Numbers(q)
    PROVE  /\ Append(q, m) \in Seq(Item) /\ Len(Append(q, m)) = Len(q) + 1
           /\ Distinct(Append(q, m))
           /\ Numbers(Append(q, m)) = Numbers(q) \cup {m.n}
<1> DEFINE a == Append(q, m)
<1>1. /\ DOMAIN q = 1..Len(q) /\ Len(q) \in Nat
      /\ a \in Seq(Item) /\ Len(a) = Len(q) + 1 /\ DOMAIN a = 1..(Len(q) + 1)
      /\ \A i \in DOMAIN q : a[i] = q[i]
      /\ a[Len(q) + 1] = m
  BY DEF Item
<1>2. m.n # 0 /\ m # Stop
  BY Items, ReceiverAssumption
<1> HIDE DEF a
<1>3. \A i \in DOMAIN a : i \in DOMAIN q \/ i = Len(q) + 1
  BY <1>1
<1>4. \A i \in DOMAIN q : q[i].n # m.n
  BY <1>2 DEF Numbers
<1>5. Distinct(a)
  BY <1>1, <1>3, <1>4 DEF Distinct
<1>6. Numbers(a) = Numbers(q) \cup {m.n}
  BY <1>1, <1>2, <1>3 DEF Numbers
<1> QED BY <1>1, <1>5, <1>6 DEF a

LEMMA AppendStop ==
    ASSUME NEW q \in Seq(Item), Distinct(q)
    PROVE  /\ Append(q, Stop) \in Seq(Item) /\ Len(Append(q, Stop)) = Len(q) + 1
           /\ Distinct(Append(q, Stop))
           /\ Numbers(Append(q, Stop)) = Numbers(q)
<1> DEFINE a == Append(q, Stop)
<1>1. /\ DOMAIN q = 1..Len(q) /\ Len(q) \in Nat
      /\ a \in Seq(Item) /\ Len(a) = Len(q) + 1 /\ DOMAIN a = 1..(Len(q) + 1)
      /\ \A i \in DOMAIN q : a[i] = q[i]
      /\ a[Len(q) + 1] = Stop
  BY DEF Item
<1>2. Stop.n = 0
  BY Items
<1> HIDE DEF a
<1>3. \A i \in DOMAIN a : i \in DOMAIN q \/ i = Len(q) + 1
  BY <1>1
<1>4. \A i \in DOMAIN q : q[i] # Stop => q[i].n # 0
  <2>1. \A x \in Item : x # Stop => x.n # 0
    BY Items DEF Item
  <2> QED BY <2>1, QueueShape
<1>5. Distinct(a)
  BY <1>1, <1>2, <1>3, <1>4 DEF Distinct
<1>6. Numbers(a) = Numbers(q)
  BY <1>1, <1>2, <1>3 DEF Numbers
<1> QED BY <1>1, <1>5, <1>6 DEF a

LEMMA TailOfQueue ==
    ASSUME NEW q \in Seq(Item), Distinct(q), q # <<>>
    PROVE  /\ Tail(q) \in Seq(Item) /\ Len(Tail(q)) = Len(q) - 1 /\ Len(q) \in Nat \ {0}
           /\ Distinct(Tail(q)) /\ Head(q) \in Item
           /\ Head(q) = Stop => Numbers(Tail(q)) = Numbers(q)
           /\ Head(q) \in Message => /\ Head(q).n \in Numbers(q)
                                     /\ Numbers(Tail(q)) = Numbers(q) \ {Head(q).n}
<1> DEFINE t == Tail(q)
<1>1. /\ DOMAIN q = 1..Len(q) /\ Len(q) \in Nat \ {0}
      /\ t \in Seq(Item) /\ Len(t) = Len(q) - 1 /\ DOMAIN t = 1..(Len(q) - 1)
      /\ \A i \in DOMAIN t : i + 1 \in DOMAIN q /\ t[i] = q[i + 1]
      /\ Head(q) = q[1] /\ 1 \in DOMAIN q /\ q[1] \in Item
  OBVIOUS
<1> HIDE DEF t
<1>2. \A i \in DOMAIN q : i = 1 \/ (i - 1 \in DOMAIN t /\ q[i] = t[i - 1])
  BY <1>1
<1>3. Distinct(t)
  BY <1>1 DEF Distinct
<1>4. ASSUME Head(q) = Stop
      PROVE  Numbers(t) = Numbers(q)
  <2>1. q[1].n = 0
    BY <1>1, <1>4, Items
  <2> QED BY <1>1, <1>2, <2>1 DEF Numbers
<1>5. ASSUME Head(q) \in Message
      PROVE  Head(q).n \in Numbers(q) /\ Numbers(t) = Numbers(q) \ {Head(q).n}
  <2>1. q[1].n # 0 /\ q[1] # Stop
    BY <1>1, <1>5, Items, ReceiverAssumption
  <2>2. \A i \in DOMAIN t : t[i].n # q[1].n
    BY <1>1, <2>1 DEF Distinct
  <2>3. Numbers(q) = Numbers(t) \cup {q[1].n}
    BY <1>1, <1>2, <2>1 DEF Numbers
  <2>4. q[1].n \notin Numbers(t)
    BY <2>2 DEF Numbers
  <2> QED BY <1>1, <2>3, <2>4
<1> QED BY <1>1, <1>3, <1>4, <1>5 DEF t

-----------------------------------------------------------------------------
(* What the invariant says of the messages *)

LEMMA InHandIs == InHand = {hand[t].n : t \in Handling}
  BY DEF InHand, Handling

LEMMA WaitingIs == Waiting = Numbers(queue)
  BY DEF Waiting, Numbers

LEMMA MessageSets ==
    ASSUME TypeOK, EachInOnePlace
    PROVE  /\ counters.received \in Nat
           /\ Waiting \subseteq 1..counters.received /\ InHand \subseteq 1..counters.received
           /\ IsFiniteSet(Waiting) /\ Cardinality(Waiting) \in Nat
           /\ IsFiniteSet(InHand) /\ Cardinality(InHand) \in Nat
           /\ Waiting \cap InHand = {}
<1>1. counters.received \in Nat
  BY DEF TypeOK, Fields
<1>2. InHand \subseteq 1..counters.received /\ Waiting \subseteq 1..counters.received
  BY InHandIs DEF EachInOnePlace
<1>3. IsFiniteSet(1..counters.received)
  BY <1>1, FS_Interval
<1>4. Waiting \cap InHand = {}
  BY InHandIs DEF EachInOnePlace
<1> QED BY <1>1, <1>2, <1>3, <1>4, FS_Subset, FS_CardinalityType

(* A step of a coroutine that touches no message, or a transport error.    *)
LEMMA MessagesKept ==
    ASSUME IInv, queue' = queue, unfinished' = unfinished, hand' = hand,
           \A t \in Callers : task'[t] = "handling" <=> task[t] = "handling",
           \A f \in Fields \ {"transport_errors"} : counters'[f] = counters[f],
           \A c \in Callers : promised'[c] \subseteq 1..counters.received
    PROVE  /\ EachInOnePlace' /\ UnfinishedIsExact' /\ EveryDatagramCounted'
           /\ Waiting' = Waiting /\ InHand' = InHand
<1>1. Handling' = Handling
  BY DEF Handling
<1>2. Waiting' = Waiting /\ InHand' = InHand
  BY <1>1, InHandIs DEF Waiting, InHand, Handling
<1>3. /\ counters'.received = counters.received /\ counters'.accepted = counters.accepted
      /\ counters'.parse_errors = counters.parse_errors /\ counters'.dropped = counters.dropped
      /\ counters'.oversized = counters.oversized
      /\ counters'.handler_errors = counters.handler_errors
  BY DEF Fields
<1>4. EachInOnePlace'
  BY <1>1, <1>2, <1>3 DEF IInv, EachInOnePlace, Distinct
<1>5. UnfinishedIsExact' /\ EveryDatagramCounted'
  BY <1>2, <1>3 DEF IInv, UnfinishedIsExact, EveryDatagramCounted
<1> QED BY <1>2, <1>4, <1>5

(* drain() is woken only when nothing is left. *)
LEMMA WokenWhenDone ==
    ASSUME IInv, TaskDone, TypeOK', EachInOnePlace', UnfinishedIsExact', promised' = promised,
           Waiting' \cup InHand' \subseteq Waiting \cup InHand
    PROVE  DrainWaitsForHandlers'
<1> SUFFICES ASSUME NEW c \in Callers, pc'[c] = "drained"
             PROVE  promised[c] \cap (Waiting' \cup InHand') = {}
  BY DEF DrainWaitsForHandlers
<1>1. pc'[c] = CASE unfinished = 1 /\ pc[c] = "draining" -> "drained"
                 [] unfinished = 1 /\ pc[c] = "joining"  -> "stopping"
                 [] OTHER -> pc[c]
  BY DEF TaskDone
<1>2. CASE pc[c] = "drained"
  BY <1>2 DEF IInv, DrainWaitsForHandlers
<1>3. CASE unfinished = 1
  <2>1. Len(queue') + Cardinality(InHand') = 0
    BY <1>3 DEF TaskDone, UnfinishedIsExact
  <2>2. /\ queue' \in Seq(Item) /\ Len(queue') \in Nat
        /\ IsFiniteSet(InHand') /\ Cardinality(InHand') \in Nat
    <3>1. (IsFiniteSet(InHand) /\ Cardinality(InHand) \in Nat)'
      BY MessageSets, PTL
    <3> QED BY <3>1 DEF TypeOK, Item
  <2>3. Len(queue') = 0 /\ Cardinality(InHand') = 0
    BY <2>1, <2>2
  <2>4. InHand' = {}
    BY <2>2, <2>3, FS_EmptySet
  <2>5. Waiting' = {}
    BY <2>2, <2>3 DEF Waiting
  <2> QED BY <2>4, <2>5
<1> QED BY <1>1, <1>2, <1>3

-----------------------------------------------------------------------------
(* Calls *)

LEMMA TailHasNoStart ==
    ASSUME NEW list \in Seq({"start", "drain", "close"}), list # <<>>,
           \A i, j \in DOMAIN list : list[i] = "start" /\ list[j] = "start" => i = j
    PROVE  /\ Tail(list) \in Seq({"start", "drain", "close"})
           /\ \A i, j \in DOMAIN Tail(list) : Tail(list)[i] = "start" /\ Tail(list)[j] = "start" => i = j
           /\ Head(list) = "start" => \A i \in DOMAIN Tail(list) : Tail(list)[i] # "start"
           /\ (\A i \in DOMAIN list : list[i] # "start")
                 => \A i \in DOMAIN Tail(list) : Tail(list)[i] # "start"
<1> DEFINE t == Tail(list)
<1>1. /\ t \in Seq({"start", "drain", "close"})
      /\ \A i \in DOMAIN t : i \in Nat \ {0} /\ i + 1 \in DOMAIN list /\ t[i] = list[i + 1]
      /\ Head(list) = list[1] /\ 1 \in DOMAIN list
  OBVIOUS
<1> HIDE DEF t
<1>2. \A i, j \in DOMAIN t : t[i] = "start" /\ t[j] = "start" => i = j
  <2> SUFFICES ASSUME NEW i \in DOMAIN t, NEW j \in DOMAIN t, t[i] = "start", t[j] = "start"
               PROVE  i = j
    OBVIOUS
  <2>1. i + 1 = j + 1 /\ i \in Nat /\ j \in Nat
    BY <1>1
  <2> QED BY <2>1
<1>3. ASSUME Head(list) = "start", NEW i \in DOMAIN t, t[i] = "start"
      PROVE  FALSE
  <2>1. i + 1 = 1 /\ i \in Nat \ {0}
    BY <1>1, <1>3
  <2> QED BY <2>1
<1>4. (\A i \in DOMAIN list : list[i] # "start") => \A i \in DOMAIN t : t[i] # "start"
  BY <1>1
<1> QED BY <1>1, <1>2, <1>3, <1>4 DEF t

LEMMA AtKeepsStarts ==
    ASSUME IInv, NEW c \in Callers, NEW place, At(c, place), task' = task, calls[c] # <<>>,
           place \in {"binding", "bound"} => Head(calls[c]) = "start"
    PROVE  StartsOnce'
  BY DEF IInv, TypeOK, StartsOnce, At

LEMMA RaiseKeepsStarts ==
    ASSUME IInv, NEW c \in Callers, Raise(c), task' = task
    PROVE  StartsOnce'
  BY DEF IInv, TypeOK, StartsOnce, Raise

(* A call that returns is over; if it was start(), c has its task and no   *)
(* start() left.                                                           *)
LEMMA ReturnKeepsStarts ==
    ASSUME IInv, NEW c \in Callers, Return(c), calls[c] # <<>>,
           \/ task' = task
           \/ task' = [task EXCEPT ![c] = "waiting"] /\ Head(calls[c]) = "start"
    PROVE  StartsOnce'
<1>1. calls[c] \in Seq({"start", "drain", "close"})
  BY DEF IInv, StartsOnce
<1>2. /\ \A i, j \in DOMAIN calls[c] : calls[c][i] = "start" /\ calls[c][j] = "start" => i = j
      /\ task[c] # "none" => \A i \in DOMAIN calls[c] : calls[c][i] # "start"
  BY DEF IInv, StartsOnce
<1>3. /\ Tail(calls[c]) \in Seq({"start", "drain", "close"})
      /\ \A i, j \in DOMAIN Tail(calls[c]) :
            Tail(calls[c])[i] = "start" /\ Tail(calls[c])[j] = "start" => i = j
      /\ Head(calls[c]) = "start" \/ task[c] # "none"
            => \A i \in DOMAIN Tail(calls[c]) : Tail(calls[c])[i] # "start"
  BY <1>1, <1>2, TailHasNoStart
<1>4. calls'[c] = Tail(calls[c]) /\ pc'[c] = "ready"
  BY DEF IInv, StartsOnce, TypeOK, Return
<1>5. \A d \in Callers \ {c} : calls'[d] = calls[d] /\ pc'[d] = pc[d] /\ task'[d] = task[d]
  BY DEF IInv, StartsOnce, TypeOK, Return
<1>6. calls' \in [Callers -> Seq({"start", "drain", "close"})]
  BY <1>3 DEF IInv, StartsOnce, Return
<1>7. task'[c] # "none" => Head(calls[c]) = "start" \/ task[c] # "none"
  OBVIOUS
<1> SUFFICES ASSUME NEW d \in Callers
             PROVE  /\ \A i, j \in DOMAIN calls'[d] :
                           calls'[d][i] = "start" /\ calls'[d][j] = "start" => i = j
                    /\ task'[d] # "none" => \A i \in DOMAIN calls'[d] : calls'[d][i] # "start"
                    /\ pc'[d] # "ready" => calls'[d] # <<>>
                    /\ pc'[d] \in {"binding", "bound"} => Head(calls'[d]) = "start"
  BY <1>6 DEF StartsOnce
<1>8. CASE d = c
  <2> DEFINE rest == Tail(calls[c])
  <2>1. calls'[d] = rest /\ pc'[d] = "ready" /\ task'[d] = task'[c]
    BY <1>4, <1>8
  <2>2. /\ \A i, j \in DOMAIN rest : rest[i] = "start" /\ rest[j] = "start" => i = j
        /\ task'[c] # "none" => \A i \in DOMAIN rest : rest[i] # "start"
    BY <1>3, <1>7
  <2> HIDE DEF rest
  <2> QED BY <2>1, <2>2
<1>9. CASE d # c
  <2>1. /\ \A i, j \in DOMAIN calls[d] : calls[d][i] = "start" /\ calls[d][j] = "start" => i = j
        /\ task[d] # "none" => \A i \in DOMAIN calls[d] : calls[d][i] # "start"
        /\ pc[d] # "ready" => calls[d] # <<>>
        /\ pc[d] \in {"binding", "bound"} => Head(calls[d]) = "start"
    BY DEF IInv, StartsOnce
  <2>2. calls'[d] = calls[d] /\ pc'[d] = pc[d] /\ task'[d] = task[d]
    BY <1>5, <1>9
  <2> QED BY <2>1, <2>2
<1> QED BY <1>8, <1>9

(* The consumer starts nothing. *)
LEMMA ConsumerKeepsStarts ==
    ASSUME IInv, calls' = calls,
           \A c \in Callers : /\ task'[c] # "none" => task[c] # "none"
                              /\ pc'[c] # "ready" => pc[c] # "ready"
                              /\ pc'[c] \in {"binding", "bound"} => pc'[c] = pc[c]
    PROVE  StartsOnce'
  BY DEF IInv, StartsOnce

-----------------------------------------------------------------------------
(* Datagrams *)

LEMMA DatagramKeeps ==
    ASSUME IInv, NEW kind \in Kinds, Datagram(kind)
    PROVE  IInv'
<1> DEFINE n == counters.received + 1
           m == [n |-> n, kind |-> kind]
<1>1. /\ counters.received \in Nat /\ n \in 1..MaxDatagrams
      /\ Waiting \subseteq 1..counters.received /\ InHand \subseteq 1..counters.received
      /\ IsFiniteSet(Waiting) /\ Cardinality(Waiting) \in Nat
      /\ Cardinality(InHand) \in Nat
  <2>1. counters.received \in Nat /\ counters.received + 1 <= MaxDatagrams
    BY MessageSets DEF IInv, Datagram
  <2> QED BY <2>1, MessageSets, ReceiverAssumption DEF IInv
<1>2. /\ UNCHANGED <<flags, endpoint, worker, consumer, control, promised>>
      /\ counters' = Counted({"received", Fate(kind)})
  BY DEF Datagram
<1>3. Fate(kind) \in {"dropped", "oversized", "parse_errors", "queued"}
  BY DEF Fate
<1>4. /\ counters' \in [Fields -> Nat] /\ counters'.received = n
      /\ counters'.accepted = counters.accepted
      /\ counters'.handler_errors = counters.handler_errors
      /\ counters'.dropped = counters.dropped + (IF Fate(kind) = "dropped" THEN 1 ELSE 0)
      /\ counters'.oversized = counters.oversized + (IF Fate(kind) = "oversized" THEN 1 ELSE 0)
      /\ counters'.parse_errors = counters.parse_errors + (IF Fate(kind) = "parse_errors" THEN 1 ELSE 0)
  BY <1>2, <1>3, SMTT(30) DEF IInv, TypeOK, Counted, Fields
<1>5. /\ counters.accepted \in Nat /\ counters.handler_errors \in Nat /\ counters.dropped \in Nat
      /\ counters.oversized \in Nat /\ counters.parse_errors \in Nat
  BY DEF IInv, TypeOK, Fields
<1>6. InHand' = InHand /\ Handling' = Handling /\ hand' = hand /\ promised' = promised
  BY <1>2 DEF consumer, InHand, Handling
<1>7. StartsOnce'
  BY <1>2, ConsumerKeepsStarts DEF control, consumer
<1>8. CASE Fate(kind) # "queued"
  <2>1. queue' = queue /\ unfinished' = unfinished /\ Waiting' = Waiting
    BY <1>8 DEF Datagram, queued, Waiting
  <2>2. TypeOK'
    BY <1>2, <1>4, <2>1 DEF IInv, TypeOK, flags, endpoint, consumer, control
  <2>3. EachInOnePlace'
    <3>1. 1..counters.received \subseteq 1..counters'.received
      BY <1>1, <1>4
    <3> QED BY <1>6, <2>1, <3>1 DEF IInv, EachInOnePlace, Distinct
  <2>4. UnfinishedIsExact'
    BY <1>6, <2>1 DEF IInv, UnfinishedIsExact
  <2>5. EveryDatagramCounted'
    <3>1. \/ Fate(kind) = "dropped" \/ Fate(kind) = "oversized" \/ Fate(kind) = "parse_errors"
      BY <1>3, <1>8
    <3> QED BY <1>1, <1>4, <1>5, <1>6, <2>1, <3>1 DEF IInv, EveryDatagramCounted
  <2>6. DrainWaitsForHandlers'
    BY <1>2, <1>6, <2>1 DEF IInv, DrainWaitsForHandlers, control
  <2> QED BY <1>7, <2>2, <2>3, <2>4, <2>5, <2>6 DEF IInv
<1>9. CASE Fate(kind) = "queued"
  <2>1. queue' = Append(queue, m) /\ unfinished' = unfinished + 1
    BY <1>9 DEF Datagram
  <2>2. HasRoom(queue) /\ kind \in {"event", "noise"}
    BY <1>9 DEF Fate, Kinds
  <2>3. m \in Message /\ m.n = n /\ n \notin Waiting
    <3>1. m \in Message /\ m.n = n
      BY <1>1, <2>2, Items
    <3>2. n \notin 1..counters.received
      BY <1>1
    <3> QED BY <1>1, <3>1, <3>2
  <2>4. queue \in Seq(Item) /\ Distinct(queue) /\ Len(queue) \in Nat
    BY DEF IInv, TypeOK, EachInOnePlace, Item
  <2> HIDE DEF m
  <2>5. /\ queue' \in Seq(Item) /\ Len(queue') = Len(queue) + 1
        /\ Distinct(queue') /\ Waiting' = Waiting \cup {n}
    <3>1. Waiting' = Numbers(queue')
      BY DEF Waiting, Numbers
    <3> QED BY <2>1, <2>3, <2>4, <3>1, AppendMessage, WaitingIs
  <2>6. Cardinality(Waiting') = Cardinality(Waiting) + 1
    BY <1>1, <2>3, <2>5, FS_AddElement
  <2>7. TypeOK'
    <3>1. Len(queue') <= QueueSize
      BY <2>2, <2>4, <2>5, ReceiverAssumption DEF HasRoom
    <3>2. unfinished' \in Nat
      BY <2>1 DEF IInv, TypeOK
    <3> QED BY <1>2, <1>4, <2>5, <3>1, <3>2
            DEF IInv, TypeOK, Item, flags, endpoint, consumer, control
  <2>8. EachInOnePlace'
    <3>1. 1..counters'.received = (1..counters.received) \cup {n} /\ n \notin 1..counters.received
      BY <1>1, <1>4
    <3> QED BY <1>6, <2>5, <3>1 DEF IInv, EachInOnePlace
  <2>9. UnfinishedIsExact'
    BY <1>1, <1>6, <2>1, <2>4, <2>5 DEF IInv, UnfinishedIsExact
  <2>10. EveryDatagramCounted'
    BY <1>1, <1>4, <1>5, <1>6, <1>9, <2>6 DEF IInv, EveryDatagramCounted
  <2>11. DrainWaitsForHandlers'
    <3>1. \A c \in Callers : n \notin promised[c]
      BY <1>1 DEF IInv, EachInOnePlace
    <3> QED BY <1>2, <1>6, <2>5, <3>1 DEF IInv, DrainWaitsForHandlers, control
  <2> QED BY <1>7, <2>7, <2>8, <2>9, <2>10, <2>11 DEF IInv
<1> QED BY <1>8, <1>9

-----------------------------------------------------------------------------
(* The consumer *)

(* The item at the head of the queue. *)
LEMMA GetFacts ==
    ASSUME IInv, NEW t \in Callers, NEW kind, Get(t, kind)
    PROVE  /\ queue' = Tail(queue) /\ queue' \in Seq(Item)
           /\ Len(queue) \in Nat \ {0} /\ Len(queue') = Len(queue) - 1 /\ Distinct(queue')
           /\ Head(queue) \in Item /\ Head(queue).kind = kind /\ task[t] = "waiting"
           /\ kind = "stop" => Waiting' = Waiting
           /\ kind # "stop" => /\ Head(queue) \in Message /\ Head(queue).n \in Waiting
                               /\ Waiting' = Waiting \ {Head(queue).n}
                               /\ Cardinality(Waiting') = Cardinality(Waiting) - 1
<1>1. queue' = Tail(queue) /\ queue # <<>> /\ Head(queue).kind = kind /\ task[t] = "waiting"
  BY DEF Get
<1>2. queue \in Seq(Item) /\ Distinct(queue)
  BY DEF IInv, TypeOK, EachInOnePlace, Item
<1>3. /\ Tail(queue) \in Seq(Item) /\ Len(Tail(queue)) = Len(queue) - 1 /\ Len(queue) \in Nat \ {0}
      /\ Distinct(Tail(queue)) /\ Head(queue) \in Item
      /\ Head(queue) = Stop => Numbers(Tail(queue)) = Numbers(queue)
      /\ Head(queue) \in Message => /\ Head(queue).n \in Numbers(queue)
                                     /\ Numbers(Tail(queue)) = Numbers(queue) \ {Head(queue).n}
  BY <1>1, <1>2, TailOfQueue
<1>4. Waiting' = Numbers(Tail(queue))
  BY <1>1 DEF Waiting, Numbers
<1>5. kind = "stop" => Head(queue) = Stop
  BY <1>1, <1>3, Items DEF Item
<1>6. kind # "stop" => Head(queue) \in Message
  BY <1>1, <1>3, Items DEF Item
<1>7. IsFiniteSet(Waiting)
  BY MessageSets DEF IInv
<1>8. ASSUME kind # "stop"
      PROVE  /\ Head(queue).n \in Waiting
             /\ Waiting' = Waiting \ {Head(queue).n}
             /\ Cardinality(Waiting') = Cardinality(Waiting) - 1
  <2>1. Head(queue).n \in Waiting /\ Waiting' = Waiting \ {Head(queue).n}
    BY <1>3, <1>4, <1>6, <1>8, WaitingIs
  <2> QED BY <1>7, <2>1, FS_RemoveElement
<1> QED BY <1>1, <1>3, <1>4, <1>5, <1>6, <1>8, WaitingIs

LEMMA CountersAre ==
    ASSUME IInv
    PROVE  /\ counters \in [Fields -> Nat]
           /\ counters.received \in Nat /\ counters.accepted \in Nat /\ counters.parse_errors \in Nat
           /\ counters.dropped \in Nat /\ counters.oversized \in Nat
           /\ counters.handler_errors \in Nat
  BY DEF IInv, TypeOK, Fields

(* TaskDone wakes coroutines and does nothing else to them. *)
LEMMA TaskDonePlaces ==
    ASSUME IInv, TaskDone
    PROVE  /\ pc' \in [Callers -> {"ready", "binding", "bound", "draining", "drained",
                                   "joining", "stopping", "awaiting"}]
           /\ calls' = calls
           /\ \A c \in Callers : /\ pc'[c] # "ready" => pc[c] # "ready"
                                 /\ pc'[c] \in {"binding", "bound"} => pc'[c] = pc[c]
  BY DEF IInv, TypeOK, TaskDone

LEMMA GetStopKeeps ==
    ASSUME IInv, NEW t \in Callers, GetStop(t)
    PROVE  IInv'
<1>1. /\ Get(t, "stop") /\ TaskDone /\ task' = [task EXCEPT ![t] = "done"]
      /\ UNCHANGED <<flags, endpoint, worker, counters, hand, promised>>
  BY DEF GetStop
<1>2. /\ queue' \in Seq(Item) /\ Len(queue) \in Nat \ {0} /\ Len(queue') = Len(queue) - 1
      /\ Distinct(queue') /\ Waiting' = Waiting /\ task[t] = "waiting"
  BY <1>1, GetFacts
<1>3. /\ \A c \in Callers : task'[c] = "handling" <=> task[c] = "handling"
      /\ \A c \in Callers : task'[c] # "none" => task[c] # "none"
      /\ task' \in [Callers -> {"none", "waiting", "handling", "done"}]
  BY <1>1, <1>2 DEF IInv, TypeOK
<1>4. Handling' = Handling /\ InHand' = InHand
  BY <1>1, <1>3, InHandIs DEF Handling, InHand
<1>5. UnfinishedIsExact' /\ unfinished' \in Nat
  <2>1. /\ unfinished' = unfinished - 1 /\ unfinished = Len(queue) + Cardinality(InHand)
        /\ Cardinality(InHand) \in Nat
    BY <1>1, MessageSets DEF TaskDone, IInv, UnfinishedIsExact
  <2> QED BY <1>2, <1>4, <2>1 DEF UnfinishedIsExact
<1>6. TypeOK'
  BY <1>1, <1>2, <1>3, <1>5, TaskDonePlaces, ReceiverAssumption DEF IInv, TypeOK, Item, flags, endpoint
<1>7. EachInOnePlace'
  BY <1>1, <1>2, <1>4 DEF IInv, EachInOnePlace
<1>8. EveryDatagramCounted'
  BY <1>1, <1>2, <1>4 DEF IInv, EveryDatagramCounted
<1>9. StartsOnce'
  BY <1>1, <1>3, TaskDonePlaces, ConsumerKeepsStarts
<1>10. DrainWaitsForHandlers'
  BY <1>1, <1>2, <1>4, <1>5, <1>6, <1>7, WokenWhenDone
<1> QED BY <1>5, <1>6, <1>7, <1>8, <1>9, <1>10 DEF IInv

LEMMA GetNoiseKeeps ==
    ASSUME IInv, NEW t \in Callers, GetNoise(t)
    PROVE  IInv'
<1>1. /\ Get(t, "noise") /\ TaskDone /\ counters' = Counted({"parse_errors"})
      /\ UNCHANGED <<flags, endpoint, worker, consumer, promised>>
  BY DEF GetNoise
<1>2. /\ queue' \in Seq(Item) /\ Len(queue) \in Nat \ {0} /\ Len(queue') = Len(queue) - 1
      /\ Distinct(queue') /\ Waiting' \subseteq Waiting
      /\ Cardinality(Waiting') = Cardinality(Waiting) - 1
  BY <1>1, GetFacts
<1>3. task' = task /\ hand' = hand /\ Handling' = Handling /\ InHand' = InHand
  BY <1>1 DEF consumer, Handling, InHand
<1>4. /\ counters' \in [Fields -> Nat] /\ counters'.received = counters.received
      /\ counters'.parse_errors = counters.parse_errors + 1
      /\ counters'.accepted = counters.accepted /\ counters'.dropped = counters.dropped
      /\ counters'.oversized = counters.oversized
      /\ counters'.handler_errors = counters.handler_errors
  BY <1>1, CountersAre DEF Counted, Fields
<1>5. UnfinishedIsExact' /\ unfinished' \in Nat
  <2>1. /\ unfinished' = unfinished - 1 /\ unfinished = Len(queue) + Cardinality(InHand)
        /\ Cardinality(InHand) \in Nat
    BY <1>1, MessageSets DEF TaskDone, IInv, UnfinishedIsExact
  <2> QED BY <1>2, <1>3, <2>1 DEF UnfinishedIsExact
<1>6. TypeOK'
  <2>1. Len(queue') <= QueueSize
    BY <1>2, ReceiverAssumption DEF IInv, TypeOK
  <2>2. pc' \in [Callers -> {"ready", "binding", "bound", "draining", "drained",
                            "joining", "stopping", "awaiting"}]
    BY <1>1, TaskDonePlaces
  <2> QED BY <1>1, <1>2, <1>3, <1>4, <1>5, <2>1, <2>2 DEF IInv, TypeOK, Item, flags, endpoint
<1>7. EachInOnePlace'
  BY <1>1, <1>2, <1>3, <1>4 DEF IInv, EachInOnePlace
<1>8. EveryDatagramCounted'
  <2>1. Cardinality(Waiting) \in Nat /\ Cardinality(InHand) \in Nat
    BY MessageSets DEF IInv
  <2>2. EveryDatagramCounted
    BY DEF IInv
  <2> DEFINE total == counters.accepted + counters.parse_errors + counters.dropped
                      + counters.oversized + counters.handler_errors
  <2>3. total \in Nat /\ total' = total + 1
    BY <1>4, CountersAre
  <2>4. counters.received = total + Cardinality(Waiting) + Cardinality(InHand)
    BY <2>2 DEF EveryDatagramCounted
  <2> HIDE DEF total
  <2>5. counters'.received = total' + Cardinality(Waiting') + Cardinality(InHand')
    BY <1>2, <1>3, <1>4, <2>1, <2>3, <2>4
  <2> QED BY <2>5 DEF EveryDatagramCounted, total
<1>9. StartsOnce'
  BY <1>1, <1>3, TaskDonePlaces, ConsumerKeepsStarts
<1>10. DrainWaitsForHandlers'
  BY <1>1, <1>2, <1>3, <1>5, <1>6, <1>7, WokenWhenDone
<1> QED BY <1>5, <1>6, <1>7, <1>8, <1>9, <1>10 DEF IInv

LEMMA GetEventKeeps ==
    ASSUME IInv, NEW t \in Callers, GetEvent(t)
    PROVE  IInv'
<1> DEFINE m == Head(queue)
<1>1. /\ Get(t, "event") /\ task' = [task EXCEPT ![t] = "handling"]
      /\ hand' = [hand EXCEPT ![t] = m]
      /\ UNCHANGED <<unfinished, flags, endpoint, worker, counters, control, promised>>
  BY DEF GetEvent
<1>2. /\ queue' \in Seq(Item) /\ Len(queue) \in Nat \ {0} /\ Len(queue') = Len(queue) - 1
      /\ Distinct(queue') /\ task[t] = "waiting"
      /\ m \in Message /\ m.n \in Waiting /\ Waiting' = Waiting \ {m.n}
      /\ Cardinality(Waiting') = Cardinality(Waiting) - 1
  BY <1>1, GetFacts
<1> HIDE DEF m
<1>3. /\ Handling' = Handling \cup {t} /\ t \notin Handling
      /\ hand'[t] = m /\ \A u \in Handling : hand'[u] = hand[u]
  BY <1>1, <1>2 DEF IInv, TypeOK, Handling
<1>4. InHand' = InHand \cup {m.n}
  <2>1. InHand' = {hand'[u].n : u \in Handling'}
    BY DEF InHand, Handling
  <2> QED BY <1>3, <2>1, InHandIs
<1>5. /\ m.n \notin InHand /\ IsFiniteSet(InHand) /\ Cardinality(InHand) \in Nat
      /\ Cardinality(Waiting) \in Nat
  BY <1>2, MessageSets DEF IInv
<1>6. Cardinality(InHand') = Cardinality(InHand) + 1
  BY <1>4, <1>5, FS_AddElement
<1>7. UnfinishedIsExact'
  BY <1>1, <1>2, <1>5, <1>6 DEF IInv, UnfinishedIsExact
<1>8. TypeOK'
  BY <1>1, <1>2, ReceiverAssumption DEF IInv, TypeOK, Item, flags, endpoint, control
<1>9. EachInOnePlace'
  <2>1. m.n \in (1..counters.received) \ Waiting'
    BY <1>2 DEF IInv, EachInOnePlace
  <2>2. \A u \in Handling : hand[u].n # m.n
    BY <1>2 DEF IInv, EachInOnePlace
  <2>3. Waiting' \subseteq 1..counters'.received
    BY <1>1, <1>2 DEF IInv, EachInOnePlace
  <2>4. \A u \in Handling' : hand'[u] \in Message /\ hand'[u].n \in (1..counters'.received) \ Waiting'
    BY <1>1, <1>2, <1>3, <2>1 DEF IInv, EachInOnePlace
  <2>5. \A u, v \in Handling' : hand'[u].n = hand'[v].n => u = v
    BY <1>3, <2>2 DEF IInv, EachInOnePlace
  <2>6. \A c \in Callers : promised'[c] \subseteq 1..counters'.received
    BY <1>1 DEF IInv, EachInOnePlace
  <2> QED BY <1>2, <2>3, <2>4, <2>5, <2>6 DEF EachInOnePlace
<1>10. EveryDatagramCounted'
  <2>1. EveryDatagramCounted /\ counters' = counters
    BY <1>1 DEF IInv
  <2> DEFINE total == counters.accepted + counters.parse_errors + counters.dropped
                      + counters.oversized + counters.handler_errors
  <2>2. total \in Nat /\ total' = total
    BY <2>1, CountersAre
  <2>3. counters.received = total + Cardinality(Waiting) + Cardinality(InHand)
    BY <2>1 DEF EveryDatagramCounted
  <2> HIDE DEF total
  <2>4. counters'.received = total' + Cardinality(Waiting') + Cardinality(InHand')
    BY <1>2, <1>5, <1>6, <2>1, <2>2, <2>3
  <2> QED BY <2>4 DEF EveryDatagramCounted, total
<1>11. StartsOnce'
  BY <1>1, <1>2, ConsumerKeepsStarts DEF IInv, TypeOK, control
<1>12. DrainWaitsForHandlers'
  <2>1. Waiting' \cup InHand' = Waiting \cup InHand
    BY <1>2, <1>4
  <2> QED BY <1>1, <2>1 DEF IInv, DrainWaitsForHandlers, control
<1> QED BY <1>7, <1>8, <1>9, <1>10, <1>11, <1>12 DEF IInv

LEMMA HandledKeeps ==
    ASSUME IInv, NEW t \in Callers, NEW field \in {"accepted", "handler_errors"}, Handled(t, field)
    PROVE  IInv'
<1>1. /\ task[t] = "handling" /\ task' = [task EXCEPT ![t] = "waiting"]
      /\ hand' = [hand EXCEPT ![t] = Stop] /\ counters' = Counted({field}) /\ TaskDone
      /\ UNCHANGED <<queue, flags, endpoint, worker, promised>>
  BY DEF Handled
<1>2. /\ Handling' = Handling \ {t} /\ t \in Handling
      /\ \A u \in Handling' : hand'[u] = hand[u] /\ u # t
  BY <1>1 DEF IInv, TypeOK, Handling
<1>3. InHand' = InHand \ {hand[t].n} /\ hand[t].n \in InHand
  <2>1. InHand' = {hand'[u].n : u \in Handling'}
    BY DEF InHand, Handling
  <2>2. \A u \in Handling' : hand[u].n # hand[t].n
    BY <1>2 DEF IInv, EachInOnePlace
  <2> QED BY <1>2, <2>1, <2>2, InHandIs
<1>4. IsFiniteSet(InHand) /\ Cardinality(InHand) \in Nat /\ Cardinality(Waiting) \in Nat
  BY MessageSets DEF IInv
<1>5. Cardinality(InHand') = Cardinality(InHand) - 1 /\ Cardinality(InHand') \in Nat
  <2>1. IsFiniteSet(InHand')
    BY <1>3, <1>4, FS_Subset
  <2> QED BY <1>3, <1>4, <2>1, FS_RemoveElement, FS_CardinalityType
<1>6. Waiting' = Waiting /\ Distinct(queue)' /\ queue' = queue
  BY <1>1 DEF Waiting, IInv, EachInOnePlace, Distinct
<1>7. /\ counters' \in [Fields -> Nat] /\ counters'.received = counters.received
      /\ counters'.parse_errors = counters.parse_errors
      /\ counters'.dropped = counters.dropped /\ counters'.oversized = counters.oversized
      /\ counters'.accepted + counters'.handler_errors
             = counters.accepted + counters.handler_errors + 1
      /\ counters'.accepted \in Nat /\ counters'.handler_errors \in Nat
  BY <1>1, CountersAre DEF Counted, Fields
<1>8. UnfinishedIsExact' /\ unfinished' \in Nat
  <2>1. unfinished' = unfinished - 1 /\ Len(queue) \in Nat /\ unfinished = Len(queue) + Cardinality(InHand)
    BY <1>1 DEF TaskDone, IInv, TypeOK, UnfinishedIsExact
  <2> QED BY <1>4, <1>5, <1>6, <2>1 DEF UnfinishedIsExact
<1>9. TypeOK'
  BY <1>1, <1>7, <1>8, TaskDonePlaces DEF IInv, TypeOK, flags, endpoint
<1>10. EachInOnePlace'
  <2>1. EachInOnePlace
    BY DEF IInv
  <2>2. Handling' \subseteq Handling /\ \A u \in Handling' : hand'[u] = hand[u]
    BY <1>2
  <2> QED BY <1>1, <1>6, <1>7, <2>1, <2>2, ZenonT(30) DEF EachInOnePlace
<1>11. EveryDatagramCounted'
  BY <1>4, <1>5, <1>6, <1>7, CountersAre DEF IInv, EveryDatagramCounted
<1>12. StartsOnce'
  BY <1>1, TaskDonePlaces, ConsumerKeepsStarts DEF IInv, TypeOK
<1>13. DrainWaitsForHandlers'
  BY <1>1, <1>3, <1>6, <1>8, <1>9, <1>10, WokenWhenDone
<1> QED BY <1>8, <1>9, <1>10, <1>11, <1>12, <1>13 DEF IInv

-----------------------------------------------------------------------------
(* The coroutines and the transport *)

LEMMA ItsCallsKnown ==
    ASSUME IInv, NEW c \in Callers
    PROVE  /\ calls[c] \in Seq({"start", "drain", "close"})
           /\ pc[c] # "ready" => calls[c] # <<>>
           /\ pc[c] \in {"binding", "bound"} => Head(calls[c]) = "start"
           /\ promised[c] \subseteq 1..counters.received
  BY DEF IInv, StartsOnce, EachInOnePlace

(* What leaves the messages alone keeps the invariant if the caller's own  *)
(* bookkeeping is in order and no one is said to be drained who is not.    *)
LEMMA CoroutineKeeps ==
    ASSUME IInv, TypeOK', StartsOnce',
           queue' = queue, unfinished' = unfinished, hand' = hand,
           \A t \in Callers : task'[t] = "handling" <=> task[t] = "handling",
           \A f \in Fields \ {"transport_errors"} : counters'[f] = counters[f],
           promised' = promised,
           \A c \in Callers : pc'[c] = "drained" => pc[c] = "drained"
    PROVE  IInv'
<1>1. \A c \in Callers : promised'[c] \subseteq 1..counters.received
  BY ItsCallsKnown
<1>2. /\ EachInOnePlace' /\ UnfinishedIsExact' /\ EveryDatagramCounted'
      /\ Waiting' = Waiting /\ InHand' = InHand
  BY <1>1, MessagesKept
<1>3. DrainWaitsForHandlers'
  BY <1>2 DEF IInv, DrainWaitsForHandlers
<1> QED BY <1>2, <1>3 DEF IInv

LEMMA TransportErrorKeeps ==
    ASSUME IInv, TransportError
    PROVE  IInv'
<1>1. /\ counters' = Counted({"transport_errors"})
      /\ UNCHANGED <<queued, flags, endpoint, worker, consumer, control, promised>>
  BY DEF TransportError
<1>2. /\ counters' \in [Fields -> Nat]
      /\ \A f \in Fields \ {"transport_errors"} : counters'[f] = counters[f]
  BY <1>1, CountersAre DEF Counted, Fields
<1>3. TypeOK'
  BY <1>1, <1>2 DEF IInv, TypeOK, queued, flags, endpoint, consumer, control
<1>4. StartsOnce'
  BY <1>1, ConsumerKeepsStarts DEF consumer, control
<1> QED BY <1>1, <1>2, <1>3, <1>4, CoroutineKeeps DEF queued, consumer, control

LEMMA StartKeeps ==
    ASSUME IInv, NEW c \in Callers, Start(c)
    PROVE  IInv'
<1>1. /\ Calling(c, "start") /\ (Raise(c) \/ At(c, "binding"))
      /\ UNCHANGED <<queued, flags, endpoint, worker, counters, consumer, promised>>
  BY DEF Start
<1>2. TypeOK' /\ \A d \in Callers : pc'[d] = "drained" => pc[d] = "drained"
  BY <1>1 DEF IInv, TypeOK, Raise, At, queued, flags, endpoint, consumer
<1>3. StartsOnce'
  <2>1. task' = task /\ calls[c] # <<>> /\ Head(calls[c]) = "start"
    BY <1>1 DEF Calling, consumer
  <2>2. CASE Raise(c)
    BY <2>1, <2>2, RaiseKeepsStarts
  <2>3. CASE At(c, "binding")
    BY <2>1, <2>3, AtKeepsStarts
  <2> QED BY <1>1, <2>2, <2>3
<1> QED BY <1>1, <1>2, <1>3, CoroutineKeeps DEF queued, consumer

LEMMA BindKeeps ==
    ASSUME IInv, NEW c \in Callers, Bind(c) \/ BindFails(c)
    PROVE  IInv'
<1>1. /\ pc[c] = "binding" /\ (At(c, "bound") \/ Raise(c))
      /\ UNCHANGED <<queued, flags, worker, counters, consumer, promised>>
      /\ transport' \in {transport, c} /\ open' \in {open, open \cup {c}}
  BY DEF Bind, BindFails, endpoint
<1>2. TypeOK' /\ \A d \in Callers : pc'[d] = "drained" => pc[d] = "drained"
  BY <1>1 DEF IInv, TypeOK, Raise, At, queued, flags, consumer
<1>3. StartsOnce'
  BY <1>1, ItsCallsKnown, RaiseKeepsStarts, AtKeepsStarts DEF consumer
<1> QED BY <1>1, <1>2, <1>3, CoroutineKeeps DEF queued, consumer

LEMMA StartWorkerKeeps ==
    ASSUME IInv, NEW c \in Callers, StartWorker(c)
    PROVE  IInv'
<1>1. /\ pc[c] = "bound" /\ transport' = c /\ worker' = c
      /\ task' = [task EXCEPT ![c] = "waiting"] /\ Return(c)
      /\ UNCHANGED <<queued, flags, open, counters, hand, promised>>
  BY DEF StartWorker
<1>2. calls[c] # <<>> /\ Head(calls[c]) = "start" /\ task[c] = "none"
  <2>1. calls[c] \in Seq({"start", "drain", "close"}) /\ calls[c] # <<>> /\ Head(calls[c]) = "start"
    BY <1>1, ItsCallsKnown
  <2>2. 1 \in DOMAIN calls[c] /\ calls[c][1] = "start"
    BY <2>1
  <2> QED BY <2>1, <2>2 DEF IInv, StartsOnce
<1>3. TypeOK' /\ \A d \in Callers : pc'[d] = "drained" => pc[d] = "drained"
  BY <1>1 DEF IInv, TypeOK, Return, queued, flags
<1>4. StartsOnce'
  BY <1>1, <1>2, ReturnKeepsStarts
<1>5. \A t \in Callers : task'[t] = "handling" <=> task[t] = "handling"
  BY <1>1, <1>2 DEF IInv, TypeOK
<1> QED BY <1>1, <1>3, <1>4, <1>5, CoroutineKeeps DEF queued

(* drain() that has nothing to wait for is drained at once. *)
LEMMA DrainKeeps ==
    ASSUME IInv, NEW c \in Callers, Drain(c)
    PROVE  IInv'
<1>1. /\ Calling(c, "drain") /\ promised' = [promised EXCEPT ![c] = Waiting \cup InHand]
      /\ At(c, IF unfinished = 0 THEN "drained" ELSE "draining")
      /\ UNCHANGED <<queued, flags, endpoint, worker, counters, consumer>>
  BY DEF Drain
<1>2. /\ Waiting \cup InHand \subseteq 1..counters.received
      /\ counters.received \in Nat
      /\ IsFiniteSet(InHand) /\ Cardinality(InHand) \in Nat
  BY MessageSets DEF IInv
<1>3. Waiting \cup InHand \subseteq 1..MaxDatagrams
  <2>1. \A m \in Item : m.n # 0 => m.n \in 1..MaxDatagrams
    BY Items DEF Item
  <2>2. Waiting \subseteq 1..MaxDatagrams
    BY <2>1, QueueShape DEF IInv, TypeOK, Item, Waiting
  <2>3. InHand \subseteq 1..MaxDatagrams
    BY Items, InHandIs DEF IInv, EachInOnePlace
  <2> QED BY <2>2, <2>3
<1>4. /\ promised' \in [Callers -> SUBSET (1..MaxDatagrams)]
      /\ \A d \in Callers : promised'[d] \subseteq 1..counters.received
      /\ \A d \in Callers \ {c} : promised'[d] = promised[d] /\ pc'[d] = pc[d]
  BY <1>1, <1>2, <1>3, ItsCallsKnown DEF IInv, TypeOK, At
<1>5. TypeOK'
  BY <1>1, <1>4 DEF IInv, TypeOK, At, queued, flags, endpoint, consumer
<1>6. StartsOnce'
  BY <1>1, AtKeepsStarts DEF Calling, consumer
<1>7. /\ EachInOnePlace' /\ UnfinishedIsExact' /\ EveryDatagramCounted'
      /\ Waiting' = Waiting /\ InHand' = InHand
  BY <1>1, <1>4, MessagesKept DEF queued, consumer
<1>8. DrainWaitsForHandlers'
  <2> SUFFICES ASSUME NEW d \in Callers, pc'[d] = "drained"
               PROVE  promised'[d] \cap (Waiting \cup InHand) = {}
    BY <1>7 DEF DrainWaitsForHandlers
  <2>1. CASE d # c
    BY <1>4, <2>1 DEF IInv, DrainWaitsForHandlers
  <2>2. CASE d = c
    <3>1. unfinished = 0
      BY <1>1, <2>2 DEF At, IInv, TypeOK
    <3>2. queue \in Seq(Item) /\ Len(queue) \in Nat /\ Len(queue) + Cardinality(InHand) = 0
      BY <3>1 DEF IInv, UnfinishedIsExact, TypeOK, Item
    <3>3. Len(queue) = 0 /\ Cardinality(InHand) = 0
      BY <1>2, <3>2
    <3>4. InHand = {}
      BY <1>2, <3>3, FS_EmptySet
    <3>5. Waiting = {}
      BY <3>2, <3>3 DEF Waiting
    <3> QED BY <3>4, <3>5
  <2> QED BY <2>1, <2>2
<1> QED BY <1>5, <1>6, <1>7, <1>8 DEF IInv

LEMMA DrainReturnsKeeps ==
    ASSUME IInv, NEW c \in Callers, DrainReturns(c)
    PROVE  IInv'
<1>1. /\ pc[c] = "drained" /\ Return(c)
      /\ UNCHANGED <<queued, flags, endpoint, worker, counters, consumer, promised>>
  BY DEF DrainReturns
<1>2. TypeOK' /\ \A d \in Callers : pc'[d] = "drained" => pc[d] = "drained"
  BY <1>1 DEF IInv, TypeOK, Return, queued, flags, endpoint, consumer
<1>3. StartsOnce'
  BY <1>1, ItsCallsKnown, ReturnKeepsStarts DEF consumer
<1> QED BY <1>1, <1>2, <1>3, CoroutineKeeps DEF queued, consumer

LEMMA CloseKeeps ==
    ASSUME IInv, NEW c \in Callers, Close(c)
    PROVE  IInv'
<1>1. /\ Calling(c, "close") /\ calls[c] # <<>>
      /\ UNCHANGED <<queued, worker, counters, consumer, promised>>
      /\ Return(c) \/ At(c, "stopping") \/ At(c, "joining")
      /\ transport' \in {transport, NoOne} /\ open' \in {open, open \ {transport}}
      /\ accepting' \in BOOLEAN /\ closed' \in BOOLEAN
  BY DEF Close, Calling, IInv, TypeOK, flags, endpoint
<1>2. TypeOK' /\ \A d \in Callers : pc'[d] = "drained" => pc[d] = "drained"
  BY <1>1 DEF IInv, TypeOK, Return, At, queued, consumer
<1>3. StartsOnce'
  BY <1>1, ReturnKeepsStarts, AtKeepsStarts DEF consumer
<1> QED BY <1>1, <1>2, <1>3, CoroutineKeeps DEF queued, consumer

LEMMA CloseReturnsKeeps ==
    ASSUME IInv, NEW c \in Callers, CloseReturns(c)
    PROVE  IInv'
<1>1. /\ pc[c] = "awaiting" /\ worker' = NoOne /\ closed' = TRUE /\ Return(c)
      /\ UNCHANGED <<queued, accepting, endpoint, counters, consumer, promised>>
  BY DEF CloseReturns
<1>2. TypeOK' /\ \A d \in Callers : pc'[d] = "drained" => pc[d] = "drained"
  BY <1>1 DEF IInv, TypeOK, Return, queued, endpoint, consumer
<1>3. StartsOnce'
  BY <1>1, ItsCallsKnown, ReturnKeepsStarts DEF consumer
<1> QED BY <1>1, <1>2, <1>3, CoroutineKeeps DEF queued, consumer

LEMMA PutStopKeeps ==
    ASSUME IInv, NEW c \in Callers, PutStop(c)
    PROVE  IInv'
<1>1. /\ pc[c] = "stopping" /\ HasRoom(queue) /\ queue' = Append(queue, Stop)
      /\ unfinished' = unfinished + 1 /\ (Raise(c) \/ At(c, "awaiting"))
      /\ UNCHANGED <<flags, endpoint, worker, counters, consumer, promised>>
  BY DEF PutStop
<1>2. queue \in Seq(Item) /\ Len(queue) \in Nat /\ Distinct(queue)
  BY DEF IInv, TypeOK, EachInOnePlace, Item
<1>3. /\ queue' \in Seq(Item) /\ Len(queue') = Len(queue) + 1
      /\ Distinct(queue') /\ Waiting' = Waiting
  <2>1. Waiting' = Numbers(queue')
    BY DEF Waiting, Numbers
  <2> QED BY <1>1, <1>2, <2>1, AppendStop, WaitingIs
<1>4. InHand' = InHand /\ Handling' = Handling /\ hand' = hand /\ task' = task
  BY <1>1 DEF consumer, InHand, Handling
<1>5. TypeOK'
  <2>1. Len(queue') <= QueueSize
    BY <1>1, <1>2, <1>3, ReceiverAssumption DEF HasRoom
  <2>2. pc' \in [Callers -> {"ready", "binding", "bound", "draining", "drained",
                            "joining", "stopping", "awaiting"}]
    <3>1. pc' = [pc EXCEPT ![c] = "ready"] \/ pc' = [pc EXCEPT ![c] = "awaiting"]
      BY <1>1 DEF Raise, At
    <3> QED BY <3>1 DEF IInv, TypeOK
  <2>3. unfinished' \in Nat
    BY <1>1 DEF IInv, TypeOK
  <2> QED BY <1>1, <1>3, <2>1, <2>2, <2>3 DEF IInv, TypeOK, Item, flags, endpoint, consumer
<1>6. StartsOnce'
  BY <1>1, <1>4, ItsCallsKnown, RaiseKeepsStarts, AtKeepsStarts
<1>7. EachInOnePlace'
  BY <1>1, <1>3, <1>4 DEF IInv, EachInOnePlace
<1>8. UnfinishedIsExact'
  <2>1. unfinished = Len(queue) + Cardinality(InHand) /\ Cardinality(InHand) \in Nat
    BY MessageSets DEF IInv, UnfinishedIsExact
  <2>2. unfinished' = unfinished + 1 /\ Len(queue') = Len(queue) + 1 /\ InHand' = InHand
    BY <1>1, <1>3, <1>4
  <2>3. unfinished' = Len(queue') + Cardinality(InHand)
    BY <1>2, <2>1, <2>2
  <2> QED BY <2>2, <2>3 DEF UnfinishedIsExact
<1>9. EveryDatagramCounted'
  BY <1>1, <1>3, <1>4 DEF IInv, EveryDatagramCounted
<1>10. DrainWaitsForHandlers'
  <2>1. \A d \in Callers : pc'[d] = "drained" => pc[d] = "drained"
    BY <1>1 DEF IInv, TypeOK, Raise, At
  <2> QED BY <1>1, <1>3, <1>4, <2>1 DEF IInv, DrainWaitsForHandlers
<1> QED BY <1>5, <1>6, <1>7, <1>8, <1>9, <1>10 DEF IInv

-----------------------------------------------------------------------------
(* The theorems *)

(* A caller that starts at most once has at most one "start" on its list.  *)
LEMMA ProgramsStartOnce ==
    ASSUME NEW c \in Callers, NEW i \in DOMAIN Programs[c], NEW j \in DOMAIN Programs[c],
           Programs[c][i] = "start", Programs[c][j] = "start"
    PROVE  i = j
<1> DEFINE S == {k \in DOMAIN Programs[c] : Programs[c][k] = "start"}
<1>1. DOMAIN Programs[c] = 1..Len(Programs[c]) /\ Len(Programs[c]) \in Nat
  BY ReceiverAssumption
<1>2. IsFiniteSet(S) /\ Cardinality(S) <= 1
  <2>1. IsFiniteSet(1..Len(Programs[c]))
    BY <1>1, FS_Interval
  <2>2. S \subseteq 1..Len(Programs[c])
    BY <1>1
  <2>3. Cardinality(S) <= 1
    BY ReceiverAssumption
  <2> HIDE DEF S
  <2> QED BY <2>1, <2>2, <2>3, FS_Subset
<1>3. i \in S /\ j \in S
  OBVIOUS
<1> HIDE DEF S
<1>4. Cardinality(S) \in Nat
  BY <1>2, FS_CardinalityType
<1>5. SUFFICES ASSUME i # j PROVE FALSE
  OBVIOUS
<1>6. Cardinality(S \ {i}) = Cardinality(S) - 1 /\ IsFiniteSet(S \ {i})
  BY <1>2, <1>3, FS_RemoveElement
<1>7. Cardinality((S \ {i}) \ {j}) = Cardinality(S) - 2 /\ IsFiniteSet((S \ {i}) \ {j})
  <2> DEFINE T == S \ {i}
  <2>1. j \in T /\ IsFiniteSet(T) /\ Cardinality(T) = Cardinality(S) - 1
    BY <1>3, <1>5, <1>6
  <2> HIDE DEF T
  <2>2. IsFiniteSet(T \ {j}) /\ Cardinality(T \ {j}) = Cardinality(T) - 1
    BY <2>1, FS_RemoveElement
  <2>3. Cardinality(T \ {j}) = Cardinality(S) - 2
    BY <1>4, <2>1, <2>2
  <2> QED BY <2>2, <2>3 DEF T
<1>8. Cardinality((S \ {i}) \ {j}) \in Nat
  BY <1>7, FS_CardinalityType
<1> QED BY <1>2, <1>4, <1>7, <1>8

LEMMA InitEstablishes == Init => IInv
<1> SUFFICES ASSUME Init PROVE IInv
  OBVIOUS
<1>1. queue = <<>> /\ Handling = {} /\ counters.received = 0
  BY DEF Init, Handling, Fields
<1>2. Waiting = {} /\ InHand = {} /\ Cardinality(Waiting) = 0 /\ Cardinality(InHand) = 0
  <2>1. InHand = {}
    BY <1>1, InHandIs
  <2>2. Waiting = {}
    BY <1>1 DEF Waiting
  <2> QED BY <2>1, <2>2, FS_EmptySet
<1>3. TypeOK
  <2>1. queue \in Seq(Message \cup {Stop}) /\ Len(queue) <= QueueSize /\ unfinished \in Nat
    BY <1>1, ReceiverAssumption DEF Init
  <2>2. counters \in [Fields -> Nat] /\ hand \in [Callers -> Message \cup {Stop}]
    BY DEF Init
  <2>3. /\ task \in [Callers -> {"none", "waiting", "handling", "done"}]
        /\ pc \in [Callers -> {"ready", "binding", "bound", "draining", "drained",
                               "joining", "stopping", "awaiting"}]
        /\ promised \in [Callers -> SUBSET (1..MaxDatagrams)]
    BY DEF Init
  <2>4. /\ accepting \in BOOLEAN /\ closed \in BOOLEAN /\ open \subseteq Callers
        /\ transport \in Callers \cup {NoOne} /\ worker \in Callers \cup {NoOne}
    BY DEF Init
  <2> QED BY <2>1, <2>2, <2>3, <2>4 DEF TypeOK
<1>4. StartsOnce
  BY ReceiverAssumption, ProgramsStartOnce DEF Init, StartsOnce
<1>5. EachInOnePlace
  BY <1>1, <1>2 DEF Init, EachInOnePlace, Distinct
<1>6. UnfinishedIsExact /\ EveryDatagramCounted
  BY <1>2 DEF Init, UnfinishedIsExact, EveryDatagramCounted, Fields
<1>7. DrainWaitsForHandlers
  BY DEF Init, DrainWaitsForHandlers
<1> QED BY <1>3, <1>4, <1>5, <1>6, <1>7 DEF IInv

LEMMA NextKeeps == IInv /\ [Next]_vars => IInv'
<1> SUFFICES ASSUME IInv, [Next]_vars PROVE IInv'
  OBVIOUS
<1>1. ASSUME NEW c \in Callers, LoopStep(c)
      PROVE  IInv'
  BY <1>1, StartKeeps, BindKeeps, StartWorkerKeeps, DrainKeeps, DrainReturnsKeeps, CloseKeeps,
     PutStopKeeps, CloseReturnsKeeps DEF LoopStep
<1>2. ASSUME NEW c \in Callers, BindFails(c)
      PROVE  IInv'
  BY <1>2, BindKeeps
<1>3. ASSUME NEW t \in Callers, TaskStep(t) \/ HandlerRaises(t)
      PROVE  IInv'
  BY <1>3, GetStopKeeps, GetNoiseKeeps, GetEventKeeps, HandledKeeps
     DEF TaskStep, HandlerReturns, HandlerRaises
<1>4. ASSUME NEW kind \in Kinds, Datagram(kind)
      PROVE  IInv'
  BY <1>4, DatagramKeeps
<1>5. CASE TransportError
  BY <1>5, TransportErrorKeeps
<1>6. CASE Idle \/ UNCHANGED vars
  <2>1. UNCHANGED vars
    BY <1>6 DEF Idle
  <2>2. TypeOK'
    BY <2>1 DEF IInv, TypeOK, vars, queued, flags, endpoint, consumer, control
  <2>3. StartsOnce'
    BY <2>1 DEF IInv, StartsOnce, vars, consumer, control
  <2> QED BY <2>1, <2>2, <2>3, CoroutineKeeps DEF vars, queued, consumer, control
<1> QED BY <1>1, <1>2, <1>3, <1>4, <1>5, <1>6 DEF Next

THEOREM Invariance == Spec => []IInv
  BY InitEstablishes, NextKeeps, PTL DEF Spec

(* Types, for every queue size and every list of calls. *)
THEOREM TypeCorrect == Spec => []TypeOK
<1>1. IInv => TypeOK
  BY DEF IInv
<1> QED BY <1>1, Invariance, PTL

(* Every datagram is in exactly one outcome counter, in the queue or in a  *)
(* handler's hands (ingest.py, stats).                                     *)
THEOREM DatagramsAccounted == Spec => []EveryDatagramCounted
<1>1. IInv => EveryDatagramCounted
  BY DEF IInv
<1> QED BY <1>1, Invariance, PTL

(* join() neither returns too early nor waits for nothing, however many    *)
(* consumers and closers there are (ingest.py, _consume and close).        *)
THEOREM JoinExact == Spec => []UnfinishedIsExact
<1>1. IInv => UnfinishedIsExact
  BY DEF IInv
<1> QED BY <1>1, Invariance, PTL

(* drain() returns only once every message that waited when it was called  *)
(* has been handled.                                                       *)
THEOREM DrainComplete == Spec => []DrainWaitsForHandlers
<1>1. IInv => DrainWaitsForHandlers
  BY DEF IInv
<1> QED BY <1>1, Invariance, PTL

-----------------------------------------------------------------------------
(* One coroutine, m, starts and closes the receiver, in whatever order; the *)
(* others only drain it, as in the service and in the tests.               *)

OneService(m) == \A c \in Callers \ {m} : Programs[c] \in Seq({"drain"})

Closing == {"joining", "stopping", "awaiting"}

OthersDrain(m) ==
    \A c \in Callers \ {m} :
        calls[c] \in Seq({"drain"}) /\ pc[c] \in {"ready", "draining", "drained"} /\ task[c] = "none"

(* The socket and the consumer are m's.  What arrives has a consumer; once *)
(* close() has shut the socket the queue only empties, and the sentinel is *)
(* sent when nothing else is left, so it is the last thing taken.          *)
ServiceInv(m) ==
    /\ OthersDrain(m)
    /\ open \subseteq {m} /\ worker \in {m, NoOne}
    /\ open # {} => transport = m
    /\ worker = NoOne => queue = <<>> /\ unfinished = 0 /\ task[m] \in {"none", "done"}
    /\ worker = NoOne /\ ~closed => task[m] = "none"
    /\ worker = NoOne /\ pc[m] # "bound" => open = {}
    /\ worker = m => task[m] # "none" /\ ~closed
    /\ pc[m] \in {"binding", "bound"} => worker = NoOne /\ ~closed
    /\ ~accepting => open = {} /\ (closed \/ pc[m] \in Closing)
    /\ closed => ~accepting
    /\ pc[m] \in Closing => worker = m /\ ~accepting
    /\ pc[m] = "stopping" => unfinished = 0
    /\ pc[m] # "awaiting" => /\ \A i \in DOMAIN queue : queue[i] # Stop
                             /\ worker = m => task[m] # "done"
    /\ pc[m] = "awaiting" => \/ queue = <<Stop>> /\ task[m] = "waiting"
                             \/ queue = <<>> /\ task[m] = "done"

LEMMA OnlyDrainsLeft ==
    ASSUME NEW list \in Seq({"drain"}), list # <<>>
    PROVE  Head(list) = "drain" /\ Tail(list) \in Seq({"drain"})
  OBVIOUS

(* Nothing unfinished means nothing queued and nothing in hand. *)
LEMMA NothingUnfinished ==
    ASSUME IInv, unfinished = 0
    PROVE  queue = <<>> /\ Handling = {}
<1>1. /\ Len(queue) \in Nat /\ IsFiniteSet(InHand) /\ Cardinality(InHand) \in Nat
      /\ Len(queue) + Cardinality(InHand) = 0
  BY MessageSets DEF IInv, TypeOK, UnfinishedIsExact
<1>2. Len(queue) = 0 /\ Cardinality(InHand) = 0
  BY <1>1
<1>3. InHand = {}
  BY <1>1, <1>2, FS_EmptySet
<1>4. Handling = {}
  BY <1>3, InHandIs
<1>5. queue \in Seq(Item)
  BY DEF IInv, TypeOK, Item
<1> QED BY <1>2, <1>4, <1>5

(* What a step leaves alone. *)
LEMMA ServiceFrame ==
    ASSUME NEW m \in Callers, ServiceInv(m), OthersDrain(m)',
           UNCHANGED <<queued, flags, endpoint, worker>>, pc'[m] = pc[m], task'[m] = task[m]
    PROVE  ServiceInv(m)'
  BY DEF ServiceInv, queued, flags, endpoint

(* A caller other than m can only drain. *)
LEMMA PeerStep ==
    ASSUME NEW m \in Callers, ServiceInv(m), IInv, NEW c \in Callers \ {m},
           LoopStep(c) \/ BindFails(c) \/ TaskStep(c) \/ HandlerRaises(c)
    PROVE  ServiceInv(m)'
<1>1. calls[c] \in Seq({"drain"}) /\ pc[c] \in {"ready", "draining", "drained"} /\ task[c] = "none"
  BY DEF ServiceInv, OthersDrain
<1>2. pc[c] # "ready" => calls[c] # <<>>
  BY DEF IInv, StartsOnce
<1>3. Drain(c) \/ DrainReturns(c)
  <2>1. ~Calling(c, "start") /\ ~Calling(c, "close")
    BY <1>1, OnlyDrainsLeft DEF Calling
  <2> QED BY <1>1, <2>1 DEF LoopStep, TaskStep, HandlerRaises, HandlerReturns, Handled, Start, Bind,
             BindFails, StartWorker, Close, PutStop, CloseReturns, GetStop, GetNoise, GetEvent, Get
<1>4. UNCHANGED <<queued, flags, endpoint, worker, consumer>>
  BY <1>3 DEF Drain, DrainReturns
<1>5. /\ pc'[c] \in {"ready", "draining", "drained"} /\ calls'[c] \in Seq({"drain"})
      /\ \A d \in Callers \ {c} : pc'[d] = pc[d] /\ calls'[d] = calls[d]
  <2>1. CASE Drain(c)
    BY <1>1, <2>1 DEF Drain, At, IInv, TypeOK
  <2>2. CASE DrainReturns(c)
    <3>1. Tail(calls[c]) \in Seq({"drain"})
      BY <1>1, <1>2, <2>2, OnlyDrainsLeft DEF DrainReturns
    <3> QED BY <1>1, <2>2, <3>1 DEF DrainReturns, Return, IInv, TypeOK, StartsOnce
  <2> QED BY <1>3, <2>1, <2>2
<1>6. OthersDrain(m)'
  BY <1>1, <1>4, <1>5 DEF ServiceInv, OthersDrain, consumer
<1> QED BY <1>4, <1>5, <1>6, ServiceFrame DEF consumer

(* m begins, or goes on with, its call. *)
LEMMA MasterCalls ==
    ASSUME NEW m \in Callers, ServiceInv(m), IInv,
           Start(m) \/ Bind(m) \/ BindFails(m) \/ StartWorker(m) \/ Drain(m) \/ DrainReturns(m)
    PROVE  ServiceInv(m)'
<1>1. m # NoOne
  BY ReceiverAssumption
<1>2. \A c \in Callers \ {m} : calls'[c] = calls[c] /\ pc'[c] = pc[c] /\ task'[c] = task[c]
  BY DEF Start, Bind, BindFails, StartWorker, Drain, DrainReturns, Raise, Return, At, consumer,
         IInv, TypeOK, StartsOnce
<1>3. OthersDrain(m)'
  BY <1>2 DEF ServiceInv, OthersDrain
<1>4. pc[m] \in {"ready", "binding", "bound", "drained"} /\ UNCHANGED <<queued, flags>>
  BY DEF Start, Bind, BindFails, StartWorker, Drain, DrainReturns, Calling
<1>5. CASE Start(m) \/ Drain(m) \/ DrainReturns(m)
  <2>1. UNCHANGED <<queued, flags, endpoint, worker, consumer>>
    BY <1>5 DEF Start, Drain, DrainReturns
  <2>2. /\ pc[m] \in {"ready", "drained"}
        /\ pc'[m] \in {"ready", "binding", "draining", "drained"}
        /\ pc'[m] = "binding" => worker = NoOne /\ ~closed
    BY <1>5 DEF Start, Drain, DrainReturns, Calling, Raise, Return, At, IInv, TypeOK
  <2> QED BY <1>3, <2>1, <2>2 DEF ServiceInv, Closing, queued, flags, endpoint, consumer
<1>6. CASE Bind(m)
  <2>1. /\ pc[m] = "binding" /\ pc'[m] = "bound" /\ open' = open \cup {m} /\ transport' = m
        /\ UNCHANGED <<worker, task>>
    BY <1>6 DEF Bind, At, IInv, TypeOK, consumer
  <2> QED BY <1>1, <1>3, <1>4, <2>1 DEF ServiceInv, Closing, queued, flags
<1>7. CASE BindFails(m)
  <2>1. pc[m] = "binding" /\ pc'[m] = "ready" /\ UNCHANGED <<worker, task, transport, open>>
    BY <1>7 DEF BindFails, Raise, IInv, TypeOK, consumer, endpoint
  <2> QED BY <1>1, <1>3, <1>4, <2>1 DEF ServiceInv, Closing, queued, flags
<1>8. CASE StartWorker(m)
  <2>1. /\ pc[m] = "bound" /\ pc'[m] = "ready" /\ open' = open /\ transport' = m
        /\ worker' = m /\ task'[m] = "waiting"
    BY <1>8 DEF StartWorker, Return, IInv, TypeOK
  <2> QED BY <1>1, <1>3, <1>4, <2>1 DEF ServiceInv, Closing, queued, flags
<1> QED BY <1>5, <1>6, <1>7, <1>8

LEMMA MasterCloses ==
    ASSUME NEW m \in Callers, ServiceInv(m), IInv, Close(m) \/ PutStop(m) \/ CloseReturns(m)
    PROVE  ServiceInv(m)'
<1>1. m # NoOne
  BY ReceiverAssumption
<1>2. \A c \in Callers \ {m} : calls'[c] = calls[c] /\ pc'[c] = pc[c] /\ task'[c] = task[c]
  BY DEF Close, PutStop, CloseReturns, Raise, Return, At, consumer, IInv, TypeOK, StartsOnce
<1>3. OthersDrain(m)'
  BY <1>2 DEF ServiceInv, OthersDrain
<1>4. task' = task
  BY DEF Close, PutStop, CloseReturns, consumer
<1>5. CASE Close(m)
  <2>1. pc[m] = "ready" /\ UNCHANGED <<queue, unfinished, worker>>
    BY <1>5 DEF Close, Calling, queued
  <2>2. CASE closed
    <3>1. pc'[m] = "ready" /\ UNCHANGED <<flags, endpoint>>
      BY <1>5, <2>2 DEF Close, Return, IInv, TypeOK
    <3> QED BY <1>3, <1>4, <2>1, <3>1, ServiceFrame DEF queued
  <2>3. CASE ~closed
    <3>1. /\ accepting' = FALSE /\ open' = {}
          /\ IF worker = NoOne THEN closed' = TRUE /\ pc'[m] = "ready"
             ELSE /\ closed' = closed /\ pc'[m] \in {"stopping", "joining"}
                  /\ pc'[m] = "stopping" => unfinished = 0
      <4>1. open \ {transport} = {}
        BY DEF ServiceInv
      <4> QED BY <1>5, <2>3, <4>1 DEF Close, Return, At, IInv, TypeOK
    <3> QED BY <1>1, <1>3, <1>4, <2>1, <2>3, <3>1 DEF ServiceInv, Closing
  <2> QED BY <2>2, <2>3
<1>6. CASE PutStop(m)
  <2>1. /\ pc[m] = "stopping" /\ queue' = Append(queue, Stop)
        /\ UNCHANGED <<flags, endpoint, worker>>
    BY <1>6 DEF PutStop
  <2>2. queue = <<>> /\ Handling = {} /\ worker = m
    BY <2>1, NothingUnfinished DEF ServiceInv, Closing
  <2>3. pc'[m] = "awaiting" /\ queue' = <<Stop>>
    BY <1>1, <1>6, <2>1, <2>2 DEF PutStop, At, IInv, TypeOK
  <2>4. task[m] = "waiting"
    BY <2>1, <2>2 DEF ServiceInv, Handling, IInv, TypeOK
  <2> QED BY <1>1, <1>3, <1>4, <2>1, <2>2, <2>3, <2>4 DEF ServiceInv, Closing, flags, endpoint
<1>7. CASE CloseReturns(m)
  <2>1. /\ pc[m] = "awaiting" /\ pc'[m] = "ready" /\ worker' = NoOne /\ closed' = TRUE
        /\ UNCHANGED <<queued, accepting, endpoint>>
        /\ worker # NoOne => task[worker] = "done"
    BY <1>7 DEF CloseReturns, Return, IInv, TypeOK
  <2>2. worker = m /\ ~accepting /\ open = {} /\ task[m] = "done" /\ queue = <<>>
    <3>1. worker = m /\ ~accepting /\ open = {}
      BY <1>1, <2>1 DEF ServiceInv, Closing
    <3>2. task[m] = "done"
      BY <1>1, <2>1, <3>1
    <3> QED BY <2>1, <3>1, <3>2 DEF ServiceInv
  <2>3. unfinished = 0
    <3>1. Handling = {}
      BY <2>2 DEF Handling, ServiceInv, OthersDrain
    <3>2. InHand = {}
      BY <3>1, InHandIs
    <3>3. Cardinality(InHand) = 0 /\ Len(queue) = 0
      BY <2>2, <3>2, FS_EmptySet
    <3> QED BY <3>3 DEF IInv, UnfinishedIsExact
  <2> QED BY <1>1, <1>3, <1>4, <2>1, <2>2, <2>3 DEF ServiceInv, Closing, queued, endpoint
<1> QED BY <1>5, <1>6, <1>7

(* m's consumer takes an item, or its handler is done. *)
LEMMA ConsumerServes ==
    ASSUME NEW m \in Callers, ServiceInv(m), IInv, TaskStep(m) \/ HandlerRaises(m)
    PROVE  ServiceInv(m)'
<1>1. m # NoOne
  BY ReceiverAssumption
<1>2. /\ task[m] \in {"waiting", "handling"} /\ worker = m /\ ~closed
      /\ UNCHANGED <<flags, endpoint, worker>>
      /\ \A c \in Callers \ {m} : task'[c] = task[c]
      /\ task[m] = "waiting" => queue # <<>> /\ queue' = Tail(queue)
      /\ task[m] = "handling" => queue' = queue
  BY DEF TaskStep, HandlerRaises, HandlerReturns, Handled, GetStop, GetNoise, GetEvent, Get, consumer,
         ServiceInv, IInv, TypeOK
<1>3. pc[m] # "stopping" /\ pc[m] \notin {"binding", "bound"}
  BY <1>1, <1>2, NothingUnfinished DEF ServiceInv, Handling
<1>4. queue \in Seq(Item)
  BY DEF IInv, TypeOK, Item
<1>5. pc[m] # "awaiting" => \A i \in DOMAIN queue' : queue'[i] # Stop
  <2>1. CASE task[m] = "waiting"
    <3>1. \A i \in DOMAIN Tail(queue) : i + 1 \in DOMAIN queue /\ Tail(queue)[i] = queue[i + 1]
      BY <1>2, <1>4, <2>1
    <3> QED BY <1>2, <2>1, <3>1 DEF ServiceInv
  <2>2. CASE task[m] = "handling"
    BY <1>2, <2>2 DEF ServiceInv
  <2> QED BY <1>2, <2>1, <2>2
<1>6. CASE GetStop(m)
  <2>1. Head(queue).kind = "stop" /\ TaskDone /\ task'[m] = "done"
    BY <1>6 DEF GetStop, Get, IInv, TypeOK
  <2>2. Head(queue) = Stop /\ Head(queue) = queue[1] /\ 1 \in DOMAIN queue
    <3>1. Get(m, "stop")
      BY <1>6 DEF GetStop
    <3>2. Head(queue) \in Item /\ Len(queue) \in Nat \ {0}
      BY <3>1, GetFacts
    <3> QED BY <1>4, <2>1, <3>2, Items DEF Item
  <2>3. pc[m] = "awaiting" /\ queue = <<Stop>>
    BY <2>2 DEF ServiceInv
  <2>4. queue' = <<>>
    BY <1>6, <2>3 DEF GetStop, Get
  <2>5. pc'[m] = "awaiting"
    BY <2>1, <2>3 DEF TaskDone
  <2>6. OthersDrain(m)'
    BY <1>2, <2>1 DEF ServiceInv, OthersDrain, TaskDone
  <2> QED BY <1>1, <1>2, <2>1, <2>3, <2>4, <2>5, <2>6 DEF ServiceInv, Closing, flags, endpoint
<1>7. CASE GetNoise(m) \/ HandlerReturns(m) \/ HandlerRaises(m)
  <2>1. TaskDone /\ task'[m] \in {"waiting", "handling"}
    BY <1>2, <1>7 DEF GetNoise, HandlerReturns, HandlerRaises, Handled, consumer, IInv, TypeOK
  <2>2. pc[m] # "awaiting"
    <3>1. CASE GetNoise(m)
      <4>1. Head(queue).kind = "noise" /\ queue # <<>>
        BY <3>1 DEF GetNoise, Get
      <4>2. queue # <<Stop>>
        BY <4>1, Items
      <4> QED BY <4>1, <4>2 DEF ServiceInv
    <3>2. CASE HandlerReturns(m) \/ HandlerRaises(m)
      BY <3>2 DEF HandlerReturns, HandlerRaises, Handled, ServiceInv
    <3> QED BY <1>7, <3>1, <3>2
  <2>3. \/ pc'[m] = pc[m]
        \/ pc[m] = "draining" /\ pc'[m] = "drained"
        \/ pc[m] = "joining" /\ pc'[m] = "stopping" /\ unfinished' = 0
    BY <2>1 DEF TaskDone
  <2>4. OthersDrain(m)'
    BY <1>2, <2>1 DEF ServiceInv, OthersDrain, TaskDone
  <2> QED BY <1>1, <1>2, <1>3, <1>5, <2>1, <2>2, <2>3, <2>4 DEF ServiceInv, Closing, flags, endpoint
<1>8. CASE GetEvent(m)
  <2>1. task'[m] = "handling" /\ UNCHANGED <<unfinished, control>> /\ Head(queue).kind = "event"
        /\ queue # <<>>
    BY <1>8 DEF GetEvent, Get, IInv, TypeOK
  <2>2. pc[m] # "awaiting"
    <3>1. queue # <<Stop>>
      BY <2>1, Items
    <3> QED BY <2>1, <3>1 DEF ServiceInv
  <2>3. OthersDrain(m)'
    BY <1>2, <2>1 DEF ServiceInv, OthersDrain, control
  <2> QED BY <1>1, <1>2, <1>3, <1>5, <2>1, <2>2, <2>3 DEF ServiceInv, Closing, flags, endpoint, control
<1> QED BY <1>6, <1>7, <1>8 DEF TaskStep

(* What arrives finds the socket open, so m is not closing. *)
LEMMA ArrivalServed ==
    ASSUME NEW m \in Callers, ServiceInv(m), IInv, NEW kind \in Kinds, Datagram(kind)
    PROVE  ServiceInv(m)'
<1>1. open = {m} /\ pc[m] # "bound" /\ accepting /\ worker = m /\ m # NoOne
  BY ReceiverAssumption DEF Datagram, ServiceInv
<1>2. UNCHANGED <<flags, endpoint, worker, consumer, control>>
  BY DEF Datagram
<1>3. pc[m] \notin Closing \cup {"binding", "bound"}
  BY <1>1 DEF ServiceInv
<1>4. OthersDrain(m)'
  BY <1>2 DEF ServiceInv, OthersDrain, consumer, control
<1>5. \A i \in DOMAIN queue' : queue'[i] # Stop
  <2>1. CASE queue' = queue
    BY <1>3, <2>1 DEF ServiceInv, Closing
  <2>2. CASE queue' # queue
    <3>1. PICK n : queue' = Append(queue, [n |-> n, kind |-> kind]) /\ kind # "stop"
      BY <2>2 DEF Datagram, queued, Kinds
    <3>2. queue \in Seq(Item) /\ [n |-> n, kind |-> kind] # Stop
      BY <3>1, Items DEF IInv, TypeOK, Item
    <3>3. \A i \in DOMAIN queue' : \/ i \in DOMAIN queue /\ queue'[i] = queue[i]
                                   \/ queue'[i] = [n |-> n, kind |-> kind]
      BY <3>1, <3>2
    <3> QED BY <1>3, <3>2, <3>3 DEF ServiceInv, Closing
  <2> QED BY <2>1, <2>2
<1> QED BY <1>1, <1>2, <1>3, <1>4, <1>5 DEF ServiceInv, Closing, flags, endpoint, consumer, control

LEMMA ServiceStep ==
    ASSUME NEW m \in Callers, OneService(m)
    PROVE  /\ Init => ServiceInv(m)
           /\ IInv /\ ServiceInv(m) /\ [Next]_vars => ServiceInv(m)'
<1>1. ASSUME Init
      PROVE  ServiceInv(m)
  <2>1. OthersDrain(m)
    BY <1>1 DEF Init, OneService, OthersDrain
  <2> QED BY <1>1, <2>1, ReceiverAssumption DEF Init, ServiceInv, Closing
<1>2. ASSUME IInv, ServiceInv(m), [Next]_vars
      PROVE  ServiceInv(m)'
  <2>1. ASSUME NEW c \in Callers, LoopStep(c) \/ BindFails(c) \/ TaskStep(c) \/ HandlerRaises(c)
        PROVE  ServiceInv(m)'
    <3>1. CASE c # m
      BY <1>2, <2>1, <3>1, PeerStep
    <3>2. CASE c = m
      BY <1>2, <2>1, <3>2, MasterCalls, MasterCloses, ConsumerServes DEF LoopStep
    <3> QED BY <3>1, <3>2
  <2>2. ASSUME NEW kind \in Kinds, Datagram(kind)
        PROVE  ServiceInv(m)'
    BY <1>2, <2>2, ArrivalServed
  <2>3. CASE TransportError \/ Idle \/ UNCHANGED vars
    <3>1. UNCHANGED <<queued, flags, endpoint, worker, consumer, control>>
      BY <2>3 DEF TransportError, Idle, vars
    <3>2. OthersDrain(m)'
      BY <1>2, <3>1 DEF ServiceInv, OthersDrain, consumer, control
    <3> QED BY <1>2, <3>1, <3>2, ServiceFrame DEF consumer, control
  <2> QED BY <1>2, <2>1, <2>2, <2>3 DEF Next
<1> QED BY <1>1, <1>2

(* Where one coroutine starts and closes the receiver, close() leaves no   *)
(* message, handler, consumer or socket behind, whatever arrives while it  *)
(* runs and whoever drains beside it (ingest.py, close).                   *)
THEOREM CloseComplete ==
    ASSUME NEW m \in Callers, OneService(m)
    PROVE  Spec => []CloseLeavesNothing
<1>1. ServiceInv(m) => CloseLeavesNothing
  BY ReceiverAssumption DEF ServiceInv, CloseLeavesNothing, OthersDrain, InHand
<1>2. Init => ServiceInv(m)
  BY ServiceStep
<1>3. IInv /\ ServiceInv(m) /\ [Next]_vars => ServiceInv(m)'
  BY ServiceStep
<1> QED BY <1>1, <1>2, <1>3, Invariance, PTL DEF Spec

-----------------------------------------------------------------------------
(* Waiting *)

(* join() is waited for only while something is unfinished. *)
JoinHasReason == \A c \in Callers : pc[c] \in {"draining", "joining"} => unfinished # 0

LEMMA JoinReason ==
    /\ Init => JoinHasReason
    /\ IInv /\ JoinHasReason /\ [Next]_vars => JoinHasReason'
<1>1. Init => JoinHasReason
  BY DEF Init, JoinHasReason
<1>2. ASSUME IInv, JoinHasReason, TaskDone
      PROVE  JoinHasReason'
  <2> SUFFICES ASSUME NEW c \in Callers, pc'[c] \in {"draining", "joining"}
               PROVE  unfinished' # 0
    BY DEF JoinHasReason
  <2>1. pc[c] = pc'[c] /\ unfinished # 1
    BY <1>2 DEF TaskDone
  <2>2. unfinished \in Nat /\ unfinished' = unfinished - 1
    BY <1>2 DEF TaskDone, IInv, TypeOK
  <2> QED BY <2>1, <2>2
<1>3. ASSUME IInv, JoinHasReason, NEW c \in Callers, LoopStep(c) \/ BindFails(c)
      PROVE  JoinHasReason'
  <2>1. /\ \A d \in Callers \ {c} : pc'[d] = pc[d]
        /\ pc'[c] \in {"draining", "joining"} => unfinished # 0
    BY <1>3 DEF LoopStep, Start, Bind, BindFails, StartWorker, Drain, DrainReturns, Close, PutStop,
             CloseReturns, At, Return, Raise, IInv, TypeOK
  <2>2. unfinished' = unfinished \/ unfinished' = unfinished + 1
    BY <1>3 DEF LoopStep, Start, Bind, BindFails, StartWorker, Drain, DrainReturns, Close, PutStop,
             CloseReturns, queued
  <2> QED BY <1>3, <2>1, <2>2 DEF JoinHasReason, IInv, TypeOK
<1>4. ASSUME IInv, JoinHasReason, NEW t \in Callers, TaskStep(t) \/ HandlerRaises(t)
      PROVE  JoinHasReason'
  <2>1. TaskDone \/ UNCHANGED <<unfinished, pc>>
    BY <1>4 DEF TaskStep, HandlerRaises, HandlerReturns, Handled, GetStop, GetNoise, GetEvent, control
  <2> QED BY <1>2, <1>4, <2>1 DEF JoinHasReason
<1>5. ASSUME IInv, JoinHasReason, NEW kind \in Kinds, Datagram(kind)
      PROVE  JoinHasReason'
  <2>1. pc' = pc /\ (unfinished' = unfinished \/ unfinished' = unfinished + 1)
    BY <1>5 DEF Datagram, queued, control
  <2> QED BY <1>5, <2>1 DEF JoinHasReason, IInv, TypeOK
<1>6. ASSUME JoinHasReason, TransportError \/ Idle \/ UNCHANGED vars
      PROVE  JoinHasReason'
  BY <1>6 DEF TransportError, Idle, vars, queued, control, JoinHasReason
<1> QED BY <1>1, <1>3, <1>4, <1>5, <1>6 DEF Next

(* What is unfinished has m's consumer, which has not been told to stop    *)
(* before it: the sentinel is behind everything else.                      *)
LEMMA SomeoneAtWork ==
    ASSUME NEW m \in Callers, IInv, ServiceInv(m), JoinHasReason
    PROVE  NobodyWaitsInVain
<1> SUFFICES ASSUME NEW c \in Callers, Blocked(c)
             PROVE  \E t \in Callers : AtWork(t)
  BY DEF NobodyWaitsInVain
<1>1. m # NoOne /\ QueueSize \in Nat \ {0}
  BY ReceiverAssumption
<1>2. CASE pc[c] \in {"draining", "joining"}
  <2>1. unfinished # 0
    BY <1>2 DEF JoinHasReason
  <2>2. CASE Handling # {}
    BY <2>2 DEF Handling, AtWork
  <2>3. CASE Handling = {}
    <3>1. queue # <<>>
      <4> SUFFICES ASSUME queue = <<>> PROVE FALSE
        OBVIOUS
      <4>1. InHand = {}
        BY <2>3, InHandIs
      <4>2. Cardinality(InHand) = 0 /\ Len(queue) = 0
        BY <4>1, FS_EmptySet
      <4> QED BY <2>1, <4>2 DEF IInv, UnfinishedIsExact
    <3>2. task[m] = "waiting"
      BY <1>1, <2>3, <3>1 DEF ServiceInv, Handling, IInv, TypeOK
    <3> QED BY <3>1, <3>2 DEF AtWork
  <2> QED BY <2>2, <2>3
<1>3. CASE pc[c] = "stopping" /\ ~HasRoom(queue)
  <2>1. c = m
    BY <1>3 DEF ServiceInv, OthersDrain
  <2>2. queue = <<>>
    BY <1>3, <2>1, NothingUnfinished DEF ServiceInv
  <2> QED BY <1>1, <1>3, <2>2 DEF HasRoom
<1>4. CASE pc[c] = "awaiting" /\ worker # NoOne /\ task[worker] # "done"
  <2>1. c = m
    BY <1>4 DEF ServiceInv, OthersDrain
  <2>2. worker = m
    BY <1>4 DEF ServiceInv
  <2>3. queue = <<Stop>> /\ task[m] = "waiting"
    BY <1>4, <2>1, <2>2 DEF ServiceInv
  <2> QED BY <2>3 DEF AtWork
<1> QED BY <1>2, <1>3, <1>4 DEF Blocked

(* A drain() or close() that waits has a consumer at work to wake it       *)
(* (ingest.py, drain, close and _consume), where one coroutine starts and  *)
(* closes the receiver, whatever arrives and whoever drains beside it.     *)
THEOREM NoDeadlock ==
    ASSUME NEW m \in Callers, OneService(m)
    PROVE  Spec => []NobodyWaitsInVain
<1>1. IInv /\ ServiceInv(m) /\ JoinHasReason => NobodyWaitsInVain
  BY SomeoneAtWork
<1>2. Init => ServiceInv(m) /\ JoinHasReason
  BY ServiceStep, JoinReason
<1>3. IInv /\ ServiceInv(m) /\ JoinHasReason /\ [Next]_vars => (ServiceInv(m) /\ JoinHasReason)'
  BY ServiceStep, JoinReason
<1> QED BY <1>1, <1>2, <1>3, Invariance, PTL DEF Spec
=============================================================================
