---------------------- MODULE SerialBatchEventUploader ----------------------
(***************************************************************************)
(* The uploader behind the remote transports                               *)
(* (cli/transports/SerialBatchEventUploader.ts): a buffer of events, one   *)
(* drain loop that posts them batch by batch, enqueue calls that wait for  *)
(* room and flush calls that wait for an empty buffer.                     *)
(*                                                                         *)
(* A step is what runs between two awaits.  A resolved promise only makes  *)
(* its waiter runnable: the continuation of a blocked enqueue is a step of *)
(* its own, and others may run before it.  Events are numbered as they are *)
(* pushed.  Sizes in bytes are not modelled: with a byte limit a batch may *)
(* end anywhere after its first event.                                     *)
(***************************************************************************)
EXTENDS Naturals, Sequences, SequencesExt, Subsequences

CONSTANTS
  Enqueues,      \* calls of enqueue
  Flushes,       \* calls of flush
  MaxEvents,     \* bound: events of all calls
  MaxBurst,      \* bound: events of one call
  MaxBatchSize, MaxQueueSize,
  MaxConsecutiveFailures, \* 0: retry for ever
  ByteLimit,     \* whether maxBatchBytes is set
  Unsendable     \* events that do not serialize

Event == Nat \ {0}

ASSUME ConstantsAssumption ==
  /\ MaxEvents \in Nat /\ MaxBurst \in Nat
  /\ MaxBatchSize \in Nat \ {0} /\ MaxQueueSize \in Nat \ {0}
  /\ MaxConsecutiveFailures \in Nat
  /\ ByteLimit \in BOOLEAN
  /\ Unsendable \subseteq Event
  /\ Unsendable # {} => ByteLimit  \* otherwise takeBatch does not look

VARIABLES
  pending,   \* the buffer
  batch,     \* what the drain loop took from it and has not settled
  drain,     \* where the drain loop is: "off", "sending", "sleeping"
  failures,  \* local to the drain loop
  dropped,   \* droppedBatches
  closed,
  enqueue,   \* enqueue[c]: the state of the call, and how many events it has
  flush,     \* flush[f]: its state, and what was unsent and dropped when it was called
  accepted,  \* events pushed so far (history)
  delivered  \* acknowledged events, in order (history)

buffer == <<pending, batch>>
vars == <<buffer, drain, failures, dropped, closed, enqueue, flush, accepted, delivered>>

Init ==
  /\ pending = <<>> /\ batch = <<>>
  /\ drain = "off"
  /\ failures = 0
  /\ dropped = 0
  /\ closed = FALSE
  /\ enqueue = [c \in Enqueues |-> [state |-> "new", size |-> 0]]
  /\ flush = [f \in Flushes |-> [state |-> "new", owed |-> {}, dropped |-> 0]]
  /\ accepted = 0
  /\ delivered = <<>>

------------------------------------------------------------------------------
(* takeBatch *)

Sendable(q, last) == {i \in 1..last : q[i] \notin Unsendable}

(* The loop stops before position rest, with n events to send: the batch   *)
(* is full, or the buffer is at its end, or the event at rest does not fit *)
(* in.                                                                     *)
StopsAt(q, rest, n) ==
  \/ n = MaxBatchSize /\ rest - 1 \in Sendable(q, rest - 1)
  \/ n < MaxBatchSize /\ rest = Len(q) + 1
  \/ /\ ByteLimit /\ 0 < n /\ n < MaxBatchSize
     /\ rest \in Sendable(q, Len(q))

(* The batch that is taken from q and what stays: unsendable events are    *)
(* removed as the loop comes to them.                                      *)
TakeBatch(q) ==
  \E rest \in 1..Len(q) + 1, n \in 0..MaxBatchSize :
    /\ StopsAt(q, rest, n)
    /\ \E f \in Embeddings(n, rest - 1) :
         /\ Range(f) = Sendable(q, rest - 1)
         /\ batch' = [k \in 1..n |-> q[f[k]]]
    /\ pending' = SubSeq(q, rest, Len(q))

------------------------------------------------------------------------------
(* Waiters *)

Resolved(calls, from, to) ==
  [c \in DOMAIN calls |-> IF calls[c].state = from
                          THEN [calls[c] EXCEPT !.state = to] ELSE calls[c]]

(* releaseBackpressure *)
Released(calls) == Resolved(calls, "blocked", "woken")

(* The finally of drain.                                                   *)
Stop(q) ==
  /\ drain' = "off" /\ failures' = 0
  /\ pending' = q /\ batch' = <<>>
  /\ flush' = IF q = <<>> THEN Resolved(flush, "waiting", "resolved") ELSE flush

(* The drain loop with q in the buffer, up to its next await. *)
Loop(q, failed) ==
  IF q = <<>> \/ closed THEN Stop(q)
  ELSE /\ TakeBatch(q)
       /\ IF batch' = <<>> THEN Stop(pending')
          ELSE drain' = "sending" /\ failures' = failed /\ UNCHANGED flush

------------------------------------------------------------------------------
(* enqueue *)

(* There is room: the events are pushed and the drain loop runs unless it  *)
(* does already.                                                           *)
Push(c, n) ==
  LET q == pending \o [i \in 1..n |-> accepted + i]
  IN  /\ accepted' = accepted + n
      /\ enqueue' = [enqueue EXCEPT ![c] = [state |-> "returned", size |-> n]]
      /\ IF drain = "off" THEN Loop(q, 0)
         ELSE pending' = q /\ UNCHANGED <<batch, drain, failures, flush>>

(* The body of enqueue from its while on. *)
TryPush(c, n) ==
  \/ closed /\ enqueue' = [enqueue EXCEPT ![c] = [state |-> "returned", size |-> n]]
            /\ UNCHANGED <<buffer, drain, failures, flush, accepted>>
  \/ ~closed /\ Len(pending) + n > MaxQueueSize
     /\ enqueue' = [enqueue EXCEPT ![c] = [state |-> "blocked", size |-> n]]
     /\ UNCHANGED <<buffer, drain, failures, flush, accepted>>
  \/ ~closed /\ Len(pending) + n <= MaxQueueSize /\ Push(c, n)

(* Events that were handed over, also those that still wait for room.      *)
HandedOver == FoldFunction(LAMBDA call, sum : call.size + sum, 0, enqueue)

Enqueue(c) ==
  /\ enqueue[c].state = "new"
  /\ \E n \in 1..MaxBurst : HandedOver + n <= MaxEvents /\ TryPush(c, n)
  /\ UNCHANGED <<dropped, closed, delivered>>

(* Mutant of Resume: if instead of while. *)
ResumeUnchecked(c) ==
  /\ enqueue[c].state = "woken" /\ ~closed
  /\ Push(c, enqueue[c].size)
  /\ UNCHANGED <<dropped, closed, delivered>>

(* A blocked enqueue was resolved: it looks again. *)
Resume(c) ==
  /\ enqueue[c].state = "woken"
  /\ TryPush(c, enqueue[c].size)
  /\ UNCHANGED <<dropped, closed, delivered>>

------------------------------------------------------------------------------
(* drain: the answer to a post *)

SendSucceeds ==
  /\ drain = "sending"
  /\ delivered' = delivered \o batch
  /\ enqueue' = Released(enqueue)
  /\ Loop(pending, 0)
  /\ UNCHANGED <<dropped, closed, accepted>>

GivesUp == MaxConsecutiveFailures > 0 /\ failures + 1 >= MaxConsecutiveFailures

(* Mutant of DropBatch: the blocked enqueues are released after a success only. *)
DropBatchSilently ==
  /\ drain = "sending" /\ GivesUp
  /\ dropped' = dropped + 1
  /\ Loop(pending, 0)
  /\ UNCHANGED <<closed, enqueue, accepted, delivered>>

DropBatch ==
  /\ drain = "sending" /\ GivesUp
  /\ dropped' = dropped + 1
  /\ enqueue' = Released(enqueue)
  /\ Loop(pending, 0)
  /\ UNCHANGED <<closed, accepted, delivered>>

(* Mutant of SendFails: the batch is queued again behind the others. *)
SendFailsToBack ==
  /\ drain = "sending" /\ ~GivesUp
  /\ drain' = "sleeping"
  /\ failures' = failures + 1
  /\ pending' = pending \o batch
  /\ batch' = <<>>
  /\ UNCHANGED <<dropped, closed, enqueue, flush, accepted, delivered>>

(* The batch goes back to the front, also when the uploader was closed.    *)
SendFails ==
  /\ drain = "sending" /\ ~GivesUp
  /\ drain' = "sleeping"
  /\ failures' = IF MaxConsecutiveFailures = 0 THEN 1 ELSE failures + 1
  /\ pending' = batch \o pending
  /\ batch' = <<>>
  /\ UNCHANGED <<dropped, closed, enqueue, flush, accepted, delivered>>

(* The sleep ends by its timer or by close: failures are still counted.    *)
SleepEnds ==
  /\ drain = "sleeping"
  /\ Loop(pending, failures)
  /\ UNCHANGED <<dropped, closed, enqueue, accepted, delivered>>

------------------------------------------------------------------------------
(* flush, close *)

(* Mutant of Flush: a batch on its way is not waited for. *)
FlushPendingOnly(f) ==
  /\ flush[f].state = "new"
  /\ flush' = [flush EXCEPT ![f] =
       [state |-> IF pending = <<>> THEN "resolved" ELSE "waiting",
        owed |-> Range(batch \o pending), dropped |-> dropped]]
  /\ UNCHANGED <<buffer, drain, failures, dropped, closed, enqueue, accepted, delivered>>

(* drain is off while events are pending only after close, and then drain  *)
(* does nothing (NothingLeftBehind).                                       *)
Flush(f) ==
  /\ flush[f].state = "new"
  /\ flush' = [flush EXCEPT ![f] =
       [state |-> IF pending = <<>> /\ drain = "off" THEN "resolved" ELSE "waiting",
        owed |-> Range(batch \o pending), dropped |-> dropped]]
  /\ UNCHANGED <<buffer, drain, failures, dropped, closed, enqueue, accepted, delivered>>

(* Mutant of Close: flush callers are left to the drain loop. *)
CloseEnqueuesOnly ==
  /\ ~closed
  /\ closed' = TRUE
  /\ pending' = <<>>
  /\ enqueue' = Released(enqueue)
  /\ UNCHANGED <<batch, drain, failures, dropped, flush, accepted, delivered>>

Close ==
  /\ ~closed
  /\ closed' = TRUE
  /\ pending' = <<>>
  /\ enqueue' = Released(enqueue)
  /\ flush' = Resolved(flush, "waiting", "resolved")
  /\ UNCHANGED <<batch, drain, failures, dropped, accepted, delivered>>

Answer == SendSucceeds \/ DropBatch \/ SendFails

Next ==
  \/ \E c \in Enqueues : Enqueue(c) \/ Resume(c)
  \/ \E f \in Flushes : Flush(f)
  \/ Answer \/ SleepEnds
  \/ Close

Spec == Init /\ [][Next]_vars

(* A post is answered or times out, timers fire, continuations run.        *)
FairSpec ==
  /\ Spec
  /\ WF_vars(Answer) /\ WF_vars(SleepEnds)
  /\ \A c \in Enqueues : WF_vars(Resume(c))
------------------------------------------------------------------------------
TypeOK ==
  /\ pending \in Seq(Event) /\ batch \in Seq(Event)
  /\ drain \in {"off", "sending", "sleeping"} /\ (batch # <<>> <=> drain = "sending")
  /\ failures \in Nat /\ dropped \in Nat
  /\ MaxConsecutiveFailures > 0 => failures < MaxConsecutiveFailures
  /\ closed \in BOOLEAN
  /\ enqueue \in [Enqueues -> [state: {"new", "blocked", "woken", "returned"},
                               size: 0..MaxBurst]]
  /\ flush \in [Flushes -> [state: {"new", "waiting", "resolved"},
                            owed: SUBSET Event, dropped: Nat]]
  /\ accepted \in Nat
  /\ delivered \in Seq(Event)

(* Order and no loss, through every failure, retry, requeue, drop and      *)
(* close: the uploader implements the ordered event stream, where what the *)
(* loop holds and what is buffered are one queue.                          *)
Stream == INSTANCE EventStream WITH queue <- batch \o pending, open <- ~closed
IsOrderedStream == Stream!Spec

(* Callers compare droppedBatchCount before and after a flush "to detect   *)
(* silent drops": a flush that ends with the count unchanged, and not      *)
(* because of close, has seen every sendable event delivered that was unsent when  *)
(* it was called.                                                          *)
FlushIsHonest ==
  [][\A f \in Flushes :
       (flush[f].state # "resolved" /\ flush'[f].state = "resolved"
          /\ ~closed' /\ dropped' = flush'[f].dropped)
       => flush'[f].owed \ Unsendable \subseteq Range(delivered')]_vars

(* A requeued batch goes over maxQueueSize, but by no more than the batch: *)
(* what was accepted while it was on its way fitted without it.            *)
MemoryBounded == Len(batch \o pending) <= MaxQueueSize + MaxBatchSize

(* The loop that stops leaves nothing behind unless it was closed: no      *)
(* event, and no enqueue that waits for room that is there.                *)
NothingLeftBehind ==
  (drain = "off" /\ ~closed) =>
    pending = <<>> /\ \A c \in Enqueues : enqueue[c].state # "blocked" \/ enqueue[c].size > MaxQueueSize

(* An enqueue that can fit returns, also behind batches that fail, and so  *)
(* does a flush called before close: its batches are sent or dropped, or   *)
(* close resolves it.                                                      *)
WaitersReturn ==
  /\ \A c \in Enqueues :
       (enqueue[c].state = "blocked" /\ enqueue[c].size <= MaxQueueSize)
         ~> enqueue[c].state = "returned"
  /\ \A f \in Flushes :
       (flush[f].state = "waiting" /\ ~closed) ~> flush[f].state = "resolved"

(* close "resolves any blocked [...] flush() callers": no flush hangs,     *)
(* whenever it was called.                                                 *)
FlushesReturn ==
  \A f \in Flushes : flush[f].state = "waiting" ~> flush[f].state = "resolved"
=============================================================================
