---------------------------- MODULE SyslogReceiver ----------------------------
(***************************************************************************)
(* SyslogUDPReceiver of src/ai_soc_agent/ingest.py: a bounded asyncio queue *)
(* between the datagram callback and one consumer task, and the coroutines *)
(* start, drain and close.                                                 *)
(*                                                                         *)
(* One event loop runs everything, so a step is what happens between two   *)
(* awaits.  Each caller works through its list of calls in Programs.  A    *)
(* caller's name also names the transport and the consumer task that its   *)
(* start() creates.                                                        *)
(***************************************************************************)
EXTENDS Integers, Sequences, FiniteSets, FiniteSetsExt

CONSTANTS Callers,       \* coroutines that use the receiver
          Programs,      \* [Callers -> Seq({"start", "drain", "close"})]
          QueueSize,     \* queue_size
          MaxDatagrams,  \* bound on the datagrams that arrive
          MaxErrors,     \* bound on the transport errors reported
          NoOne          \* the value None of _transport and _worker

ASSUME ReceiverAssumption ==
    /\ Programs \in [Callers -> Seq({"start", "drain", "close"})]
    /\ \A c \in Callers : Cardinality({i \in DOMAIN Programs[c] : Programs[c][i] = "start"}) <= 1
    /\ QueueSize \in Nat \ {0}
    /\ MaxDatagrams \in Nat
    /\ MaxErrors \in Nat
    /\ NoOne \notin Callers

(* A datagram as the parser and the limits see it: an sshd event, a line   *)
(* the parser gives None for or raises on, bytes that are not UTF-8, or    *)
(* more than max_datagram_bytes.                                           *)
Kinds == {"event", "noise", "binary", "huge"}

Stop == [n |-> 0, kind |-> "stop"]
Message == [n : 1..MaxDatagrams, kind : {"event", "noise"}]

Fields == {"received", "accepted", "parse_errors", "dropped", "oversized",
           "handler_errors", "transport_errors"}

VARIABLES queue,       \* _queue
          unfinished,  \* its count of items got or waiting but not task_done
          accepting,   \* _accepting
          closed,      \* _closed
          transport,   \* _transport
          worker,      \* _worker
          counters,    \* _counters
          open,        \* endpoints whose socket is open
          task,        \* state of the consumer task each caller created
          hand,        \* the message each task is handling
          calls,       \* calls[c]: c's remaining calls, the current one first
          pc,          \* where c is inside its current call
          promised     \* history: messages c's drain() must wait for

queued == <<queue, unfinished>>
flags == <<accepting, closed>>
endpoint == <<transport, open>>
consumer == <<task, hand>>
control == <<calls, pc>>
vars == <<queued, flags, endpoint, worker, counters, consumer, control, promised>>

Init == /\ queue = <<>> /\ unfinished = 0
        /\ accepting = TRUE /\ closed = FALSE
        /\ transport = NoOne /\ open = {}
        /\ worker = NoOne
        /\ counters = [f \in Fields |-> 0]
        /\ task = [c \in Callers |-> "none"]
        /\ hand = [c \in Callers |-> Stop]
        /\ calls = Programs
        /\ pc = [c \in Callers |-> "ready"]
        /\ promised = [c \in Callers |-> {}]

Counted(names) == [f \in Fields |-> counters[f] + IF f \in names THEN 1 ELSE 0]

HasRoomForOneMore(q) == Len(q) <= QueueSize   \* mutant
HasRoom(q) == Len(q) < QueueSize

(* Messages that have arrived and are not dealt with.                      *)
Waiting == {queue[i].n : i \in DOMAIN queue} \ {0}
InHand == {hand[t].n : t \in {u \in Callers : task[u] = "handling"}}

-----------------------------------------------------------------------------
(* datagram_received *)

(* Mutant: a full queue is not counted. *)
FateUncounted(kind) ==
    CASE ~accepting       -> "dropped"
      [] kind = "huge"    -> "oversized"
      [] kind = "binary"  -> "parse_errors"
      [] ~HasRoom(queue)  -> "received"
      [] OTHER            -> "queued"

Fate(kind) ==
    IF ~accepting THEN "dropped"
    ELSE CASE kind = "huge"   -> "oversized"
           [] kind = "binary" -> "parse_errors"
           [] OTHER           -> IF HasRoom(queue) THEN "queued" ELSE "dropped"

(* The loop polls the socket only after the coroutine waiting for the      *)
(* endpoint, start(), has resumed.                                         *)
Datagram(kind) ==
    LET n == counters.received + 1
    IN /\ \E c \in open : pc[c] # "bound"
       /\ n <= MaxDatagrams
       /\ counters' = Counted({"received", Fate(kind)})
       /\ IF Fate(kind) = "queued"
          THEN /\ queue' = Append(queue, [n |-> n, kind |-> kind])
               /\ unfinished' = unfinished + 1
          ELSE UNCHANGED queued
       /\ UNCHANGED <<flags, endpoint, worker, consumer, control, promised>>

(* error_received, and connection_lost with an exception. *)
TransportError ==
    /\ open # {}
    /\ counters.transport_errors < MaxErrors
    /\ counters' = Counted({"transport_errors"})
    /\ UNCHANGED <<queued, flags, endpoint, worker, consumer, control, promised>>

-----------------------------------------------------------------------------
(* The consumer task.  It runs from one await to the next: queue.get() and *)
(* the handler's awaitable.                                                *)

(* task_done: join() wakes its waiters when nothing is left unfinished.    *)
TaskDone ==
    /\ unfinished' = unfinished - 1
    /\ pc' = [c \in Callers |->
                CASE unfinished = 1 /\ pc[c] = "draining" -> "drained"
                  [] unfinished = 1 /\ pc[c] = "joining"  -> "stopping"
                  [] OTHER -> pc[c]]
    /\ UNCHANGED calls

Get(t, kind) ==
    /\ task[t] = "waiting"
    /\ queue # <<>>
    /\ Head(queue).kind = kind
    /\ queue' = Tail(queue)

(* Mutant: `continue` on the sentinel. *)
GetStopGoesOn(t) ==
    /\ Get(t, "stop")
    /\ TaskDone
    /\ UNCHANGED <<flags, endpoint, worker, counters, consumer, promised>>

GetStop(t) ==
    /\ Get(t, "stop")
    /\ task' = [task EXCEPT ![t] = "done"]
    /\ TaskDone
    /\ UNCHANGED <<flags, endpoint, worker, counters, hand, promised>>

(* Mutant: `continue` without the finally clause.                          *)
GetNoiseNotDone(t) ==
    /\ Get(t, "noise")
    /\ counters' = Counted({"parse_errors"})
    /\ UNCHANGED <<unfinished, control, flags, endpoint, worker, consumer, promised>>

(* The parser returns None or raises. *)
GetNoise(t) ==
    /\ Get(t, "noise")
    /\ counters' = Counted({"parse_errors"})
    /\ TaskDone
    /\ UNCHANGED <<flags, endpoint, worker, consumer, promised>>

GetEvent(t) ==
    /\ Get(t, "event")
    /\ task' = [task EXCEPT ![t] = "handling"]
    /\ hand' = [hand EXCEPT ![t] = Head(queue)]
    /\ UNCHANGED <<unfinished, flags, endpoint, worker, counters, control, promised>>

(* on_event returns, or raises. *)
Handled(t, field) ==
    /\ task[t] = "handling"
    /\ task' = [task EXCEPT ![t] = "waiting"]
    /\ hand' = [hand EXCEPT ![t] = Stop]
    /\ counters' = Counted({field})
    /\ TaskDone
    /\ UNCHANGED <<queue, flags, endpoint, worker, promised>>

HandlerReturns(t) == Handled(t, "accepted")
HandlerRaises(t) == Handled(t, "handler_errors")

-----------------------------------------------------------------------------
(* The coroutines *)

Calling(c, call) == pc[c] = "ready" /\ calls[c] # <<>> /\ Head(calls[c]) = call

At(c, place) == pc' = [pc EXCEPT ![c] = place] /\ UNCHANGED calls

Return(c) == /\ pc' = [pc EXCEPT ![c] = "ready"]
             /\ calls' = [calls EXCEPT ![c] = Tail(@)]

(* An exception ends the caller. *)
Raise(c) == /\ pc' = [pc EXCEPT ![c] = "ready"]
            /\ calls' = [calls EXCEPT ![c] = <<>>]

(* start: the check, then the await of create_datagram_endpoint.           *)
Start(c) ==
    /\ Calling(c, "start")
    /\ IF worker # NoOne \/ closed THEN Raise(c) ELSE At(c, "binding")
    /\ UNCHANGED <<queued, flags, endpoint, worker, counters, consumer, promised>>

(* The endpoint exists; connection_made stores it before start() resumes.  *)
Bind(c) ==
    /\ pc[c] = "binding"
    /\ open' = open \cup {c}
    /\ transport' = c
    /\ At(c, "bound")
    /\ UNCHANGED <<queued, flags, worker, counters, consumer, promised>>

BindFails(c) ==
    /\ pc[c] = "binding"
    /\ Raise(c)
    /\ UNCHANGED <<queued, flags, endpoint, worker, counters, consumer, promised>>

StartWorker(c) ==
    /\ pc[c] = "bound"
    /\ transport' = c
    /\ worker' = c
    /\ task' = [task EXCEPT ![c] = "waiting"]
    /\ Return(c)
    /\ UNCHANGED <<queued, flags, open, counters, hand, promised>>

(* Mutant: drain() waits only until the queue is empty.                    *)
DrainEmpty(c) ==
    /\ Calling(c, "drain")
    /\ promised' = [promised EXCEPT ![c] = Waiting \cup InHand]
    /\ At(c, IF queue = <<>> THEN "drained" ELSE "draining")
    /\ UNCHANGED <<queued, flags, endpoint, worker, counters, consumer>>

(* drain: queue.join(), which does not wait when nothing is unfinished.    *)
Drain(c) ==
    /\ Calling(c, "drain")
    /\ promised' = [promised EXCEPT ![c] = Waiting \cup InHand]
    /\ At(c, IF unfinished = 0 THEN "drained" ELSE "draining")
    /\ UNCHANGED <<queued, flags, endpoint, worker, counters, consumer>>

DrainReturns(c) ==
    /\ pc[c] = "drained"
    /\ Return(c)
    /\ UNCHANGED <<queued, flags, endpoint, worker, counters, consumer, promised>>

(* close, up to its first await. *)
Close(c) ==
    /\ Calling(c, "close")
    /\ IF closed
       THEN Return(c) /\ UNCHANGED <<flags, endpoint>>
       ELSE /\ accepting' = FALSE
            /\ open' = open \ {transport}
            /\ transport' = NoOne
            /\ IF worker = NoOne
               THEN closed' = TRUE /\ Return(c)
               ELSE /\ At(c, IF unfinished = 0 THEN "stopping" ELSE "joining")
                    /\ UNCHANGED closed
    /\ UNCHANGED <<queued, worker, counters, consumer, promised>>

(* Mutant: the sentinel is not sent. *)
PutNothing(c) ==
    /\ pc[c] = "stopping"
    /\ At(c, "awaiting")
    /\ UNCHANGED <<queued, flags, endpoint, worker, counters, consumer, promised>>

PutStop(c) ==
    /\ pc[c] = "stopping"
    /\ HasRoom(queue)
    /\ queue' = Append(queue, Stop)
    /\ unfinished' = unfinished + 1
    /\ IF worker = NoOne THEN Raise(c) ELSE At(c, "awaiting")
    /\ UNCHANGED <<flags, endpoint, worker, counters, consumer, promised>>

(* Mutant: close() does not await the worker. *)
CloseAtOnce(c) ==
    /\ pc[c] = "awaiting"
    /\ worker' = NoOne
    /\ closed' = TRUE
    /\ Return(c)
    /\ UNCHANGED <<queued, accepting, endpoint, counters, consumer, promised>>

CloseReturns(c) ==
    /\ pc[c] = "awaiting"
    /\ worker # NoOne => task[worker] = "done"
    /\ worker' = NoOne
    /\ closed' = TRUE
    /\ Return(c)
    /\ UNCHANGED <<queued, accepting, endpoint, counters, consumer, promised>>

-----------------------------------------------------------------------------
(* The event loop runs whatever is ready, and handlers return; datagrams   *)
(* and failures are the environment's choice.                              *)
LoopStep(c) ==
    \/ Start(c) \/ Bind(c) \/ StartWorker(c)
    \/ Drain(c) \/ DrainReturns(c)
    \/ Close(c) \/ PutStop(c) \/ CloseReturns(c)

TaskStep(t) == GetStop(t) \/ GetNoise(t) \/ GetEvent(t) \/ HandlerReturns(t)

Idle == /\ \A c \in Callers : pc[c] = "ready" /\ calls[c] = <<>>
        /\ UNCHANGED vars

Next == \/ \E kind \in Kinds : Datagram(kind)
        \/ TransportError
        \/ \E c \in Callers : LoopStep(c) \/ BindFails(c) \/ TaskStep(c) \/ HandlerRaises(c)
        \/ Idle

Fairness == \A c \in Callers : WF_vars(LoopStep(c)) /\ WF_vars(TaskStep(c))

Spec == Init /\ [][Next]_vars /\ Fairness

-----------------------------------------------------------------------------
(* Properties *)

TypeOK ==
    /\ queue \in Seq(Message \cup {Stop})
    /\ Len(queue) <= QueueSize
    /\ unfinished \in Nat
    /\ accepting \in BOOLEAN /\ closed \in BOOLEAN
    /\ transport \in Callers \cup {NoOne} /\ worker \in Callers \cup {NoOne}
    /\ open \subseteq Callers
    /\ counters \in [Fields -> Nat]
    /\ task \in [Callers -> {"none", "waiting", "handling", "done"}]
    /\ hand \in [Callers -> Message \cup {Stop}]
    /\ pc \in [Callers -> {"ready", "binding", "bound", "draining", "drained",
                           "joining", "stopping", "awaiting"}]
    /\ promised \in [Callers -> SUBSET (1..MaxDatagrams)]

(* stats() accounts for every datagram: each one received is in exactly one *)
(* of the outcome counters, in the queue, or being handled.                *)
EveryDatagramCounted ==
    counters.received =
        counters.accepted + counters.parse_errors + counters.dropped
        + counters.oversized + counters.handler_errors
        + Cardinality(Waiting) + Cardinality(InHand)

(* join() is exact: what it counts is what is queued or in a task's hands. *)
(* Otherwise drain() and close() return early, or never.                   *)
UnfinishedIsExact == unfinished = Len(queue) + Cardinality(InHand)

(* When drain() returns, every message that was waiting when it was called *)
(* has been handled.                                                       *)
DrainWaitsForHandlers ==
    \A c \in Callers :
        pc[c] = "drained" => promised[c] \cap (Waiting \cup InHand) = {}

(* Once close() has returned nothing is left behind: no queued message, no *)
(* handler still running, no consumer task, no open socket.  (The service  *)
(* awaits start() before it may close(); a close() that overlapped it      *)
(* would let start() install its consumer on the closed receiver.)         *)
CloseLeavesNothing ==
    closed => /\ queue = <<>> /\ InHand = {} /\ open = {} /\ worker = NoOne
              /\ \A c \in Callers : task[c] \in {"none", "done"}

(* A coroutine that something else must wake (join() in drain() or close(), *)
(* put() on a full queue, the await of the consumer) has a consumer at work *)
(* to wake it: in its handler, or with an item to get.  No two of the      *)
(* awaits in close() and _consume() can wait for each other.               *)
AtWork(t) == task[t] = "handling" \/ (task[t] = "waiting" /\ queue # <<>>)

Blocked(c) ==
    \/ pc[c] \in {"draining", "joining"}
    \/ pc[c] = "stopping" /\ ~HasRoom(queue)
    \/ pc[c] = "awaiting" /\ worker # NoOne /\ task[worker] # "done"

NobodyWaitsInVain ==
    (\E c \in Callers : Blocked(c)) => \E t \in Callers : AtWork(t)

(* Every call of start() and close() returns, or raises, however the       *)
(* datagrams and handlers interleave with it, and so does a drain() once   *)
(* close() has stopped accepting.  Before that nothing says drain() does:  *)
(* join() waits for a moment with nothing unfinished, which datagrams that *)
(* keep coming while a handler awaits need never give it.                  *)
CallsReturn ==
    \A c \in Callers :
        (pc[c] # "ready" /\ (pc[c] = "draining" => ~accepting)) ~> (pc[c] = "ready")
=============================================================================
