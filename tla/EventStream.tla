----------------------------- MODULE EventStream -----------------------------
(***************************************************************************)
(* What an ordered event uploader promises to those who hand it events     *)
(* (cli/transports/SerialBatchEventUploader.ts): the events are delivered  *)
(* in the order in which they were accepted, each acknowledged at most     *)
(* once, and none is lost but by a batch that is given up as a whole, an   *)
(* event that cannot be sent at all, or close.                             *)
(*                                                                         *)
(* Events are numbered as they are accepted.                               *)
(***************************************************************************)
EXTENDS Naturals, Sequences, Subsequences

CONSTANTS
  MaxBurst,     \* bound: events handed over at once
  MaxBatchSize, \* the largest batch
  Unsendable    \* events that cannot be sent

VARIABLES
  accepted,  \* how many events were accepted
  queue,     \* accepted events that are neither delivered nor lost
  delivered, \* acknowledged events, in order
  open

vars == <<accepted, queue, delivered, open>>

Init ==
  /\ accepted = 0
  /\ queue = <<>>
  /\ delivered = <<>>
  /\ open = TRUE

Accept ==
  /\ open
  /\ \E n \in 1..MaxBurst :
       /\ accepted' = accepted + n
       /\ Without(queue', queue \o [i \in 1..n |-> accepted + i], Unsendable)
  /\ UNCHANGED <<delivered, open>>

(* The first n events leave the queue, and perhaps unsendable ones. *)
Serve(n) == Without(queue', SubSeq(queue, n + 1, Len(queue)), Unsendable)

(* A batch is acknowledged. *)
Deliver ==
  /\ \E n \in 1..MaxBatchSize :
       /\ n <= Len(queue)
       /\ delivered' = delivered \o SubSeq(queue, 1, n)
       /\ Serve(n)
  /\ UNCHANGED <<accepted, open>>

(* A batch is given up. *)
GiveUp ==
  /\ \E n \in 1..MaxBatchSize : n <= Len(queue) /\ Serve(n)
  /\ UNCHANGED <<accepted, delivered, open>>

(* The next batch is prepared. *)
Skip ==
  /\ Serve(0)
  /\ UNCHANGED <<accepted, delivered, open>>

(* At most the batch on its way is still delivered after close. *)
Close ==
  /\ open
  /\ open' = FALSE
  /\ \E n \in 0..MaxBatchSize : n <= Len(queue) /\ queue' = SubSeq(queue, 1, n)
  /\ UNCHANGED <<accepted, delivered>>

Next == Accept \/ Deliver \/ GiveUp \/ Skip \/ Close

Spec == Init /\ [][Next]_vars
=============================================================================
