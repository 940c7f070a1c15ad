------------------- MODULE SerialBatchEventUploaderProofs -------------------
(***************************************************************************)
(* Proofs about the uploader, for any numbers of calls, events and         *)
(* failures, any sizes of batches and buffer and any unsendable events.    *)
(* The inductive invariant IInv adds to the types what each part relies    *)
(* on: a batch on its way is not too large and holds sendable events only, *)
(* so one that is queued again can be sent again (RetryIsSound); calls     *)
(* that wait have something to push; and what a flush waits for is still   *)
(* held or was delivered, unless the count of dropped batches tells        *)
(* otherwise (Waits).                                                      *)
(***************************************************************************)
EXTENDS SerialBatchEventUploader, FiniteSetTheorems, TLAPS

USE ConstantsAssumption

------------------------------------------------------------------------------
(* Sequences *)

LEMMA ConcatElements ==
  ASSUME NEW S, NEW s \in Seq(S), NEW t \in Seq(S)
  PROVE  /\ s \o t \in Seq(S) /\ Len(s \o t) = Len(s) + Len(t)
         /\ \A i \in 1..Len(s) : (s \o t)[i] = s[i]
         /\ \A i \in 1..Len(t) : (s \o t)[Len(s) + i] = t[i]
  OBVIOUS

LEMMA RangeOfConcat ==
  ASSUME NEW S, NEW s \in Seq(S), NEW t \in Seq(S)
  PROVE  Range(s \o t) = Range(s) \cup Range(t)
<1>1. \A i \in 1..Len(s) : (s \o t)[i] = s[i]
  OBVIOUS
<1>2. \A i \in 1..Len(t) : (s \o t)[Len(s) + i] = t[i]
  OBVIOUS
<1>3. \A i \in DOMAIN (s \o t) : i \in 1..Len(s) \/ i - Len(s) \in 1..Len(t)
  OBVIOUS
<1>4. \A i \in DOMAIN (s \o t) : (s \o t)[i] \in Range(s) \cup Range(t)
  <2> SUFFICES ASSUME NEW i \in DOMAIN (s \o t)
               PROVE  (s \o t)[i] \in Range(s) \cup Range(t)
    OBVIOUS
  <2>1. CASE i \in 1..Len(s)
    BY <1>1, <2>1 DEF Range
  <2>2. CASE i - Len(s) \in 1..Len(t)
    BY <1>2, <2>2 DEF Range
  <2> QED
    BY <1>3, <2>1, <2>2
<1>5. \A i \in DOMAIN s : s[i] \in Range(s \o t)
  BY <1>1 DEF Range
<1>6. \A i \in DOMAIN t : t[i] \in Range(s \o t)
  BY <1>2 DEF Range
<1> QED
  BY <1>4, <1>5, <1>6 DEF Range

(* There is no room for n positions, in order, among fewer. *)
LEMMA EmbeddingFits ==
  ASSUME NEW n \in Nat, NEW m \in Nat, NEW f \in Embeddings(n, m)
  PROVE  n <= m
<1>1. \A i, j \in 1..n : i # j => f[i] # f[j]
  BY DEF Embeddings
<1>2. f \in Injection(1..n, 1..m)
  BY <1>1 DEF Embeddings, Injection, IsInjective
<1>3. IsFiniteSet(1..n) /\ Cardinality(1..n) = n /\ IsFiniteSet(1..m) /\ Cardinality(1..m) = m
  BY FS_Interval
<1> QED
  BY <1>2, <1>3, FS_Injection

LEMMA WithoutNothing ==
  ASSUME NEW q \in Seq(Event), NEW S
  PROVE  Without(q, q, S)
<1> DEFINE f == [i \in 1..Len(q) |-> i]
<1>1. f \in Embeddings(Len(q), Len(q))
  BY DEF Embeddings
<1>2. \A i \in 1..Len(q) : q[i] = q[f[i]] /\ f[i] = i
  OBVIOUS
<1> QED
  BY <1>1, <1>2 DEF Without

------------------------------------------------------------------------------
(* takeBatch and the drain loop *)

LEMMA TakenBatch ==
  ASSUME NEW q \in Seq(Event), q # <<>>, TakeBatch(q)
  PROVE  /\ batch' \in Seq(Event) /\ pending' \in Seq(Event)
         /\ Len(batch') <= MaxBatchSize
         /\ Len(batch') + Len(pending') <= Len(q)
         /\ \A i \in 1..Len(batch') : batch'[i] \notin Unsendable
         /\ Range(q) \ Unsendable \subseteq Range(batch') \cup Range(pending')
         /\ batch' = <<>> => pending' = <<>>
         /\ q[1] \notin Unsendable => batch' # <<>>
         /\ Without(batch' \o pending', q, Unsendable)
<1>1. PICK rest \in 1..Len(q) + 1, n \in 0..MaxBatchSize :
        /\ StopsAt(q, rest, n)
        /\ \E f \in Embeddings(n, rest - 1) :
             /\ Range(f) = Sendable(q, rest - 1)
             /\ batch' = [k \in 1..n |-> q[f[k]]]
        /\ pending' = SubSeq(q, rest, Len(q))
  BY Zenon DEF TakeBatch
<1>2. PICK f \in Embeddings(n, rest - 1) :
        /\ Range(f) = Sendable(q, rest - 1)
        /\ batch' = [k \in 1..n |-> q[f[k]]]
  BY <1>1
<1>3. n \in Nat /\ rest \in Nat /\ rest - 1 \in Nat /\ Len(q) \in Nat
  OBVIOUS
<1>4. f \in [1..n -> 1..rest - 1] /\ \A i, j \in 1..n : i < j => f[i] < f[j]
  BY DEF Embeddings
<1>5. \A k \in 1..n : q[f[k]] \in Event
  BY <1>3, <1>4
<1>6. batch' \in Seq(Event) /\ Len(batch') = n /\ \A k \in 1..n : batch'[k] = q[f[k]]
  BY <1>2, <1>3, <1>5
<1>7. /\ pending' \in Seq(Event) /\ Len(pending') = Len(q) - rest + 1
      /\ \A k \in 1..Len(q) - rest + 1 : pending'[k] = q[rest + k - 1]
  BY <1>1, <1>3
<1>8. n <= rest - 1
  BY <1>3, EmbeddingFits
<1>9. \A i \in 1..rest - 1 : i \in Sendable(q, rest - 1) <=> \E k \in 1..n : f[k] = i
  BY <1>2, <1>4 DEF Range
<1>10. \A k \in 1..n : batch'[k] \notin Unsendable
  BY <1>2, <1>4, <1>6, <1>9 DEF Sendable
<1>11. batch' = <<>> <=> n = 0
  BY <1>6
<1>12. n = 0 => rest = Len(q) + 1
  BY <1>1, <1>3 DEF StopsAt
<1>13. batch' = <<>> => pending' = <<>>
  BY <1>7, <1>11, <1>12
<1>14. q[1] \notin Unsendable => batch' # <<>>
  <2> SUFFICES ASSUME q[1] \notin Unsendable, n = 0
               PROVE  FALSE
    BY <1>11
  <2>1. 1 \in 1..rest - 1
    BY <1>3, <1>12
  <2> QED
    BY <1>9, <2>1 DEF Sendable
<1>15. ASSUME NEW i \in 1..Len(q), q[i] \notin Unsendable
       PROVE  q[i] \in Range(batch') \cup Range(pending')
  <2>1. CASE i <= rest - 1
    <3>1. PICK k \in 1..n : f[k] = i
      BY <1>9, <1>15, <2>1 DEF Sendable
    <3> QED
      BY <1>6, <3>1 DEF Range
  <2>2. CASE rest <= i
    <3>1. i - rest + 1 \in 1..Len(q) - rest + 1 /\ pending'[i - rest + 1] = q[i]
      BY <1>3, <1>7, <2>2
    <3> QED
      BY <1>7, <3>1 DEF Range
  <2> QED
    BY <1>3, <2>1, <2>2
<1>16. Without(batch' \o pending', q, Unsendable)
  <2> DEFINE g == [k \in 1..n + (Len(q) - rest + 1) |-> IF k <= n THEN f[k] ELSE rest + (k - n) - 1]
             both == batch' \o pending'
  <2>1. /\ Len(both) = n + (Len(q) - rest + 1)
        /\ \A k \in 1..n : both[k] = batch'[k]
        /\ \A k \in 1..Len(q) - rest + 1 : both[n + k] = pending'[k]
    <3> DEFINE s == batch'
               t == pending'
    <3>0. s \in Seq(Event) /\ t \in Seq(Event) /\ both = s \o t
      BY <1>6, <1>7
    <3> HIDE DEF s, t, both
    <3>1. /\ Len(both) = Len(s) + Len(t)
          /\ \A k \in 1..Len(s) : both[k] = s[k]
          /\ \A k \in 1..Len(t) : both[Len(s) + k] = t[k]
      BY <3>0, ConcatElements
    <3> HIDE DEF g
    <3>2. Len(s) = n /\ Len(t) = Len(q) - rest + 1
      BY <1>6, <1>7 DEF s, t
    <3>3. /\ Len(both) = n + (Len(q) - rest + 1)
          /\ \A k \in 1..n : both[k] = s[k]
          /\ \A k \in 1..Len(q) - rest + 1 : both[n + k] = t[k]
      BY <3>1, <3>2
    <3> QED
      BY <3>3 DEF s, t
  <2>2. g \in Embeddings(Len(both), Len(q))
    <3>1. \A k \in 1..Len(both) :
            /\ k <= n => g[k] = f[k] /\ f[k] \in 1..rest - 1
            /\ k > n => g[k] = rest + (k - n) - 1
      <4> HIDE DEF both
      <4> SUFFICES ASSUME NEW k \in 1..Len(both)
                   PROVE  /\ k <= n => g[k] = f[k] /\ f[k] \in 1..rest - 1
                          /\ k > n => g[k] = rest + (k - n) - 1
        OBVIOUS
      <4>1. k \in 1..n + (Len(q) - rest + 1)
        BY <2>1
      <4>2. g[k] = IF k <= n THEN f[k] ELSE rest + (k - n) - 1
        BY <4>1
      <4> HIDE DEF g
      <4> QED
        BY <1>3, <1>4, <4>1, <4>2
    <3>2. DOMAIN g = 1..Len(both) /\ g = [k \in DOMAIN g |-> g[k]]
      BY <2>1
    <3> HIDE DEF g, both
    <3>3. ASSUME NEW k \in 1..Len(both) PROVE g[k] \in 1..Len(q)
      <4>1. k <= n + (Len(q) - rest + 1) /\ 1 <= k /\ k \in Nat
        BY <1>3, <2>1
      <4>2. CASE k <= n
        <5>1. g[k] \in 1..rest - 1
          BY <3>1, <4>2
        <5> QED
          BY <1>3, <5>1
      <4>3. CASE k > n
        <5>1. g[k] = rest + (k - n) - 1
          BY <3>1, <4>3
        <5> QED
          BY <1>3, <4>1, <4>3, <5>1
      <4> QED
        BY <1>3, <4>1, <4>2, <4>3
    <3>4. g \in [1..Len(both) -> 1..Len(q)]
      BY <3>2, <3>3
    <3>5. ASSUME NEW j \in 1..Len(both), NEW k \in 1..Len(both), j < k
          PROVE  g[j] < g[k]
      <4>1. j \in Nat /\ k \in Nat /\ 1 <= j /\ 1 <= k
        BY <1>3, <2>1
      <4>2. CASE k <= n
        <5>1. g[j] = f[j] /\ g[k] = f[k] /\ j \in 1..n /\ k \in 1..n
          BY <1>3, <3>1, <3>5, <4>1, <4>2
        <5> QED
          BY <1>4, <3>5, <5>1
      <4>3. CASE j <= n /\ k > n
        <5>1. g[j] \in 1..rest - 1 /\ g[k] = rest + (k - n) - 1
          BY <3>1, <4>3
        <5> QED
          BY <1>3, <4>1, <4>3, <5>1
      <4>4. CASE j > n
        <5>1. k > n
          BY <1>3, <3>5, <4>1, <4>4
        <5>2. g[j] = rest + (j - n) - 1 /\ g[k] = rest + (k - n) - 1
          BY <3>1, <4>4, <5>1
        <5> QED
          BY <1>3, <3>5, <4>1, <5>2
      <4> QED
        BY <1>3, <4>1, <4>2, <4>3, <4>4
    <3> QED
      BY <3>4, <3>5 DEF Embeddings
  <2>3. ASSUME NEW k \in 1..Len(both) PROVE both[k] = q[g[k]]
    <3>1. CASE k <= n
      BY <1>3, <1>6, <2>1, <3>1
    <3>2. CASE ~(k <= n)
      <4>1. k - n \in 1..Len(q) - rest + 1 /\ n + (k - n) = k
        BY <1>3, <2>1, <3>2
      <4>2. both[k] = pending'[k - n]
        BY <2>1, <4>1
      <4>3. pending'[k - n] = q[rest + (k - n) - 1]
        BY <1>7, <4>1
      <4> QED
        BY <2>1, <3>2, <4>2, <4>3
    <3> QED
      BY <3>1, <3>2
  <2>4. ASSUME NEW i \in 1..Len(q), q[i] \notin Unsendable
        PROVE  \E k \in 1..Len(both) : g[k] = i
    <3>1. CASE i <= rest - 1
      <4>1. PICK k \in 1..n : f[k] = i
        BY <1>9, <2>4, <3>1 DEF Sendable
      <4> QED
        BY <1>3, <2>1, <4>1
    <3>2. CASE rest <= i
      <4>1. n + (i - rest + 1) \in 1..Len(both) /\ g[n + (i - rest + 1)] = i
        BY <1>3, <2>1, <3>2
      <4> QED
        BY <4>1
    <3>3. i <= rest - 1 \/ rest <= i
      BY <1>3
    <3> QED
      BY <3>1, <3>2, <3>3, Zenon
  <2> HIDE DEF g, both
  <2>5. Without(both, q, Unsendable)
    BY <2>2, <2>3, <2>4 DEF Without
  <2> QED
    BY <2>5 DEF both
<1>17. Range(q) \ Unsendable \subseteq Range(batch') \cup Range(pending')
  <2> SUFFICES ASSUME NEW e \in Range(q), e \notin Unsendable
               PROVE  e \in Range(batch') \cup Range(pending')
    OBVIOUS
  <2>1. PICK i \in 1..Len(q) : e = q[i]
    BY DEF Range
  <2> QED
    BY <1>15, <2>1
<1>18. Len(batch') <= MaxBatchSize /\ Len(batch') + Len(pending') <= Len(q)
  BY <1>3, <1>6, <1>7, <1>8
<1> QED
  BY <1>6, <1>7, <1>10, <1>13, <1>14, <1>16, <1>17, <1>18

(* What the drain loop leaves when it comes to its next await with q in    *)
(* the buffer.                                                             *)
LEMMA Looped ==
  ASSUME NEW q \in Seq(Event), NEW failed, Loop(q, failed)
  PROVE  /\ batch' \in Seq(Event) /\ pending' \in Seq(Event)
         /\ \/ drain' = "sending" /\ batch' # <<>> /\ failures' = failed /\ flush' = flush
            \/ drain' = "off" /\ batch' = <<>> /\ failures' = 0
         /\ \/ flush' = flush
            \/ pending' = <<>> /\ flush' = Resolved(flush, "waiting", "resolved")
         /\ Len(batch') <= MaxBatchSize
         /\ Len(batch') + Len(pending') <= Len(q)
         /\ \A i \in 1..Len(batch') : batch'[i] \notin Unsendable
         /\ Range(q) \ Unsendable \subseteq Range(batch') \cup Range(pending')
         /\ closed => drain' = "off" /\ pending' = q
         /\ ~closed /\ drain' = "off" => pending' = <<>>
         /\ ~closed /\ q # <<>> /\ q[1] \notin Unsendable => drain' = "sending"
         /\ Without(batch' \o pending', q, Unsendable)
<1>1. CASE q = <<>> \/ closed
  <2>1. /\ drain' = "off" /\ failures' = 0 /\ pending' = q /\ batch' = <<>>
        /\ flush' = IF q = <<>> THEN Resolved(flush, "waiting", "resolved") ELSE flush
    BY <1>1 DEF Loop, Stop
  <2>2. batch' \in Seq(Event) /\ Len(batch') = 0 /\ batch' \o pending' = q /\ Len(q) \in Nat
    BY <2>1
  <2>3. Without(batch' \o pending', q, Unsendable)
    BY <2>2, WithoutNothing
  <2> QED
    BY <1>1, <2>1, <2>2, <2>3
<1>2. CASE ~(q = <<>> \/ closed)
  <2>1. TakeBatch(q) /\ q # <<>>
    BY <1>2 DEF Loop
  <2>2. CASE batch' = <<>>
    <3>1. /\ drain' = "off" /\ failures' = 0 /\ batch' = <<>>
          /\ flush' = IF pending' = <<>> THEN Resolved(flush, "waiting", "resolved") ELSE flush
      BY <1>2, <2>2 DEF Loop, Stop
    <3> QED
      BY <1>2, <2>1, <2>2, <3>1, TakenBatch
  <2>3. CASE batch' # <<>>
    <3>1. drain' = "sending" /\ failures' = failed /\ flush' = flush
      BY <1>2, <2>3 DEF Loop
    <3> QED
      BY <1>2, <2>1, <2>3, <3>1, TakenBatch
  <2> QED
    BY <2>2, <2>3
<1> QED
  BY <1>1, <1>2

------------------------------------------------------------------------------
(* The invariant *)

Kept == Range(delivered) \cup Range(batch) \cup Range(pending)

(* What was unsent when f was called is kept, unless a batch was given up  *)
(* since or the uploader closed.                                           *)
Waits(f) ==
  flush[f].state # "new" =>
    /\ flush[f].dropped <= dropped
    /\ flush[f].dropped = dropped /\ ~closed => flush[f].owed \ Unsendable \subseteq Kept

BatchIsSound ==
  /\ Len(batch) <= MaxBatchSize
  /\ \A i \in 1..Len(batch) : batch[i] \notin Unsendable

(* A requeued batch makes the next one non-empty. *)
RetryIsSound ==
  drain = "sleeping" /\ ~closed => pending # <<>> /\ pending[1] \notin Unsendable

CallsAreSound ==
  \A c \in Enqueues : enqueue[c].state \in {"blocked", "woken"} => enqueue[c].size > 0

IInv ==
  /\ TypeOK
  /\ Len(batch) + Len(pending) <= MaxQueueSize + MaxBatchSize
  /\ BatchIsSound /\ RetryIsSound /\ CallsAreSound
  /\ NothingLeftBehind
  /\ \A f \in Flushes : Waits(f)

LEMMA InitInv == Init => IInv
<1> SUFFICES ASSUME Init PROVE IInv
  OBVIOUS
<1>1. <<>> \in Seq(Event) /\ Len(<<>>) = 0
  OBVIOUS
<1>2. TypeOK
  <2>1. /\ pending \in Seq(Event) /\ batch \in Seq(Event) /\ delivered \in Seq(Event)
        /\ batch = <<>> /\ drain = "off"
    BY <1>1 DEF Init
  <2>2. enqueue \in [Enqueues -> [state: {"new", "blocked", "woken", "returned"}, size: 0..MaxBurst]]
    BY DEF Init
  <2>3. flush \in [Flushes -> [state: {"new", "waiting", "resolved"}, owed: SUBSET Event, dropped: Nat]]
    BY DEF Init
  <2> QED
    BY <2>1, <2>2, <2>3 DEF Init, TypeOK
<1>3. Len(batch) + Len(pending) <= MaxQueueSize + MaxBatchSize
  BY <1>1 DEF Init
<1> QED
  BY <1>1, <1>2, <1>3 DEF Init, IInv, BatchIsSound, RetryIsSound, CallsAreSound,
     NothingLeftBehind, Waits

(* The calls that are released. *)
LEMMA ReleasedCalls ==
  ASSUME TypeOK
  PROVE  /\ Released(enqueue) \in [Enqueues -> [state: {"new", "blocked", "woken", "returned"},
                                                size: 0..MaxBurst]]
         /\ \A c \in Enqueues :
              /\ Released(enqueue)[c].size = enqueue[c].size
              /\ Released(enqueue)[c].state # "blocked"
              /\ Released(enqueue)[c].state = "woken" => enqueue[c].state \in {"blocked", "woken"}
  BY DEF TypeOK, Released, Resolved

LEMMA ResolvedFlushes ==
  ASSUME TypeOK
  PROVE  /\ Resolved(flush, "waiting", "resolved") \in
              [Flushes -> [state: {"new", "waiting", "resolved"}, owed: SUBSET Event, dropped: Nat]]
         /\ \A f \in Flushes :
              /\ Resolved(flush, "waiting", "resolved")[f].owed = flush[f].owed
              /\ Resolved(flush, "waiting", "resolved")[f].dropped = flush[f].dropped
              /\ flush[f].state = "new" => Resolved(flush, "waiting", "resolved")[f].state = "new"
  BY DEF TypeOK, Resolved

(* What flushes wait for is kept, a batch was given up, or close comes.    *)
LEMMA WaitsKept ==
  ASSUME IInv,
         flush' = flush \/ flush' = Resolved(flush, "waiting", "resolved"),
         closed' = closed \/ closed',
         \/ dropped' = dropped /\ (~closed' => Kept \ Unsendable \subseteq Kept')
         \/ dropped' = dropped + 1
  PROVE  \A f \in Flushes : Waits(f)'
<1> SUFFICES ASSUME NEW f \in Flushes, flush'[f].state # "new"
             PROVE  /\ flush'[f].dropped <= dropped'
                    /\ flush'[f].dropped = dropped' /\ ~closed' =>
                         flush'[f].owed \ Unsendable \subseteq Kept'
  BY DEF Waits
<1>1. /\ flush[f].state # "new"
      /\ flush'[f].owed = flush[f].owed /\ flush'[f].dropped = flush[f].dropped
  <2>1. CASE flush' = flush
    BY <2>1
  <2>2. CASE flush' = Resolved(flush, "waiting", "resolved")
    BY <2>2, ResolvedFlushes DEF IInv
  <2> QED
    BY <2>1, <2>2
<1>2. Waits(f) /\ flush[f].dropped \in Nat /\ dropped \in Nat
  BY DEF IInv, TypeOK
<1> QED
  BY <1>1, <1>2 DEF Waits

(* A step that runs the drain loop. *)
LEMMA LoopInv ==
  ASSUME IInv, NEW q \in Seq(Event), NEW failed \in Nat, Loop(q, failed),
         MaxConsecutiveFailures > 0 => failed < MaxConsecutiveFailures,
         Len(q) <= MaxQueueSize + MaxBatchSize,
         closed' = closed, dropped' \in Nat, accepted' \in Nat, delivered' \in Seq(Event),
         enqueue' \in [Enqueues -> [state: {"new", "blocked", "woken", "returned"},
                                   size: 0..MaxBurst]],
         CallsAreSound',
         drain' = "off" /\ ~closed =>
           \A c \in Enqueues : enqueue'[c].state # "blocked" \/ enqueue'[c].size > MaxQueueSize,
         \/ dropped' = dropped /\ Kept \ Unsendable \subseteq Kept'
         \/ dropped' = dropped + 1
  PROVE  IInv'
<1>1. /\ pending' \in Seq(Event) /\ batch' \in Seq(Event)
      /\ drain' \in {"off", "sending", "sleeping"} /\ (batch' # <<>> <=> drain' = "sending")
      /\ failures' \in Nat
      /\ MaxConsecutiveFailures > 0 => failures' < MaxConsecutiveFailures
  BY Looped
<1>2. flush' = flush \/ flush' = Resolved(flush, "waiting", "resolved")
  BY Looped
<1>3. flush' \in [Flushes -> [state: {"new", "waiting", "resolved"}, owed: SUBSET Event, dropped: Nat]]
  BY <1>2, ResolvedFlushes DEF IInv, TypeOK
<1>4. TypeOK'
  BY <1>1, <1>3 DEF IInv, TypeOK
<1>5. Len(batch') + Len(pending') <= MaxQueueSize + MaxBatchSize
  <2>1. Len(batch') + Len(pending') <= Len(q)
    BY Looped
  <2>2. Len(batch') \in Nat /\ Len(pending') \in Nat /\ Len(q) \in Nat
    BY <1>1
  <2> QED
    BY <2>1, <2>2
<1>6. BatchIsSound'
  BY Looped DEF BatchIsSound
<1>7. RetryIsSound'
  BY Looped DEF RetryIsSound
<1>8. NothingLeftBehind'
  BY Looped DEF NothingLeftBehind
<1> QED
  BY <1>2, <1>4, <1>5, <1>6, <1>7, <1>8, WaitsKept DEF IInv

(* A call looks for room. *)
LEMMA TryPushInv ==
  ASSUME IInv, NEW c \in Enqueues, NEW n \in 1..MaxBurst, TryPush(c, n),
         UNCHANGED <<dropped, closed, delivered>>
  PROVE  IInv'
<1> DEFINE new == [i \in 1..n |-> accepted + i]
           q == pending \o new
<1>1. /\ pending \in Seq(Event) /\ batch \in Seq(Event) /\ accepted \in Nat
      /\ n \in Nat /\ n > 0
  BY DEF IInv, TypeOK
<1>2. new \in Seq(Event) /\ Len(new) = n
  BY <1>1 DEF Event
<1> HIDE DEF new
<1>3. /\ q \in Seq(Event) /\ Len(q) = Len(pending) + n
      /\ \A i \in 1..Len(pending) : q[i] = pending[i]
  BY <1>1, <1>2, ConcatElements
<1>4. Range(q) = Range(pending) \cup Range(new)
  BY <1>1, <1>2, RangeOfConcat
<1> HIDE DEF q
<1>5. \A state \in {"blocked", "returned"} :
        enqueue' = [enqueue EXCEPT ![c] = [state |-> state, size |-> n]] =>
          /\ enqueue' \in [Enqueues -> [state: {"new", "blocked", "woken", "returned"},
                                       size: 0..MaxBurst]]
          /\ CallsAreSound'
          /\ \A d \in Enqueues \ {c} : enqueue'[d] = enqueue[d]
          /\ enqueue'[c].state = state /\ enqueue'[c].size = n
  BY <1>1 DEF IInv, TypeOK, CallsAreSound
<1>6. CASE UNCHANGED <<buffer, drain, failures, flush, accepted>>
  <2>1. PICK state \in {"blocked", "returned"} :
          /\ enqueue' = [enqueue EXCEPT ![c] = [state |-> state, size |-> n]]
          /\ state = "blocked" => Len(pending) + n > MaxQueueSize
    <3>1. CASE Push(c, n)
      BY <1>1, <1>6, <3>1 DEF Push
    <3>2. CASE ~Push(c, n)
      BY <3>2 DEF TryPush
    <3> QED
      BY <3>1, <3>2
  <2>2. TypeOK' /\ CallsAreSound'
    BY <1>5, <1>6, <2>1 DEF IInv, TypeOK, buffer
  <2>3. NothingLeftBehind'
    <3> SUFFICES ASSUME drain = "off", ~closed
                 PROVE  /\ pending = <<>>
                        /\ \A d \in Enqueues : enqueue'[d].state # "blocked" \/ enqueue'[d].size > MaxQueueSize
      BY <1>6 DEF NothingLeftBehind, buffer
    <3>1. pending = <<>> /\ Len(pending) = 0
      BY DEF IInv, NothingLeftBehind
    <3> QED
      BY <1>5, <2>1, <3>1 DEF IInv, NothingLeftBehind
  <2>4. \A f \in Flushes : Waits(f)'
    BY <1>6, WaitsKept DEF Kept, buffer
  <2> QED
    BY <1>6, <2>2, <2>3, <2>4 DEF IInv, BatchIsSound, RetryIsSound, buffer
<1>7. CASE ~closed /\ Len(pending) + n <= MaxQueueSize /\ Push(c, n)
  <2>1. /\ accepted' = accepted + n
        /\ enqueue' = [enqueue EXCEPT ![c] = [state |-> "returned", size |-> n]]
        /\ IF drain = "off" THEN Loop(q, 0)
           ELSE pending' = q /\ UNCHANGED <<batch, drain, failures, flush>>
    BY <1>7 DEF Push, q, new
  <2>2. CASE drain = "off"
    <3>1. batch = <<>> /\ Range(batch) = {}
      BY <2>2 DEF IInv, TypeOK, Range
    <3>2. Kept \ Unsendable \subseteq Kept'
      <4>1. Range(q) \ Unsendable \subseteq Range(batch') \cup Range(pending')
        BY <1>3, <2>1, <2>2, Looped
      <4> QED
        BY <1>4, <3>1, <4>1 DEF Kept
    <3>3. \A d \in Enqueues : enqueue'[d].state # "blocked" \/ enqueue'[d].size > MaxQueueSize
      BY <1>5, <1>7, <2>1, <2>2 DEF IInv, NothingLeftBehind
    <3>4. Len(q) <= MaxQueueSize + MaxBatchSize
      BY <1>1, <1>3, <1>7
    <3>5. accepted' \in Nat /\ dropped' \in Nat /\ delivered' \in Seq(Event)
      BY <1>1, <2>1 DEF IInv, TypeOK
    <3> QED
      BY <1>3, <1>5, <2>1, <2>2, <3>2, <3>3, <3>4, <3>5, LoopInv
  <2>3. CASE drain # "off"
    <3>1. pending' = q /\ UNCHANGED <<batch, drain, failures, flush>>
      BY <2>1, <2>3
    <3>2. TypeOK'
      BY <1>1, <1>3, <1>5, <2>1, <3>1 DEF IInv, TypeOK
    <3>3. Len(batch') + Len(pending') <= MaxQueueSize + MaxBatchSize
      BY <1>1, <1>3, <1>7, <3>1 DEF IInv, BatchIsSound
    <3>4. RetryIsSound'
      <4> SUFFICES ASSUME drain = "sleeping", ~closed
                   PROVE  q # <<>> /\ q[1] \notin Unsendable
        BY <3>1 DEF RetryIsSound
      <4>1. pending # <<>> /\ pending[1] \notin Unsendable
        BY DEF IInv, RetryIsSound
      <4>2. 1 \in 1..Len(pending)
        BY <1>1, <4>1
      <4> QED
        BY <1>1, <1>3, <4>1, <4>2
    <3>5. BatchIsSound' /\ NothingLeftBehind'
      BY <2>3, <3>1 DEF IInv, BatchIsSound, NothingLeftBehind
    <3>6. \A f \in Flushes : Waits(f)'
      BY <1>4, <3>1, WaitsKept DEF Kept
    <3>7. CallsAreSound'
      BY <1>5, <2>1
    <3> QED
      BY <3>2, <3>3, <3>4, <3>5, <3>6, <3>7 DEF IInv
  <2> QED
    BY <2>2, <2>3
<1> QED
  BY <1>6, <1>7 DEF TryPush

(* A new call and one that was woken look for room alike. *)
LEMMA CallsTry ==
  ASSUME IInv, NEW c \in Enqueues, Enqueue(c) \/ Resume(c)
  PROVE  \E n \in 1..MaxBurst : TryPush(c, n)
<1>1. CASE Enqueue(c)
  BY <1>1 DEF Enqueue
<1>2. CASE Resume(c)
  <2>1. enqueue[c].state = "woken" /\ TryPush(c, enqueue[c].size)
    BY <1>2 DEF Resume
  <2>2. enqueue[c].size \in 1..MaxBurst
    BY <2>1 DEF IInv, TypeOK, CallsAreSound
  <2> QED
    BY <2>1, <2>2
<1> QED
  BY <1>1, <1>2

LEMMA EnqueueInv ==
  ASSUME IInv, NEW c \in Enqueues, Enqueue(c) \/ Resume(c)
  PROVE  IInv'
<1>1. UNCHANGED <<dropped, closed, delivered>>
  BY DEF Enqueue, Resume
<1>2. \E n \in 1..MaxBurst : TryPush(c, n)
  BY CallsTry
<1> QED
  BY <1>1, <1>2, TryPushInv

(* The answer to a post, which releases the waiting calls of enqueue. *)
LEMMA AnswerInv ==
  ASSUME IInv, SendSucceeds \/ DropBatch
  PROVE  IInv'
<1>1. /\ drain = "sending" /\ enqueue' = Released(enqueue) /\ Loop(pending, 0)
      /\ UNCHANGED <<closed, accepted>>
      /\ \/ delivered' = delivered \o batch /\ dropped' = dropped
         \/ delivered' = delivered /\ dropped' = dropped + 1
  BY DEF SendSucceeds, DropBatch
<1>2. /\ pending \in Seq(Event) /\ batch \in Seq(Event) /\ delivered \in Seq(Event)
      /\ dropped \in Nat /\ accepted \in Nat
      /\ Len(pending) <= MaxQueueSize + MaxBatchSize
  BY DEF IInv, TypeOK
<1>3. /\ delivered \o batch \in Seq(Event)
      /\ Range(delivered \o batch) = Range(delivered) \cup Range(batch)
  BY <1>2, ConcatElements, RangeOfConcat
<1>4. delivered' \in Seq(Event) /\ dropped' \in Nat
  <2>1. CASE delivered' = delivered \o batch /\ dropped' = dropped
    BY <1>2, <1>3, <2>1
  <2>2. CASE delivered' = delivered /\ dropped' = dropped + 1
    BY <1>2, <2>2
  <2> QED
    BY <1>1, <2>1, <2>2
<1>5. /\ enqueue' \in [Enqueues -> [state: {"new", "blocked", "woken", "returned"}, size: 0..MaxBurst]]
      /\ \A c \in Enqueues : enqueue'[c].state # "blocked"
  BY <1>1, ReleasedCalls DEF IInv
<1>6. CallsAreSound'
  BY <1>1, ReleasedCalls DEF IInv, CallsAreSound
<1>7. \/ dropped' = dropped /\ Kept \ Unsendable \subseteq Kept'
      \/ dropped' = dropped + 1
  <2>1. Range(pending) \ Unsendable \subseteq Range(batch') \cup Range(pending')
    BY <1>1, <1>2, Looped
  <2> QED
    BY <1>1, <1>3, <2>1 DEF Kept
<1>8. MaxConsecutiveFailures > 0 => 0 < MaxConsecutiveFailures
  OBVIOUS
<1> QED
  BY <1>1, <1>2, <1>4, <1>5, <1>6, <1>7, <1>8, LoopInv

LEMMA SendFailsInv ==
  ASSUME IInv, SendFails
  PROVE  IInv'
<1>1. /\ drain = "sending" /\ drain' = "sleeping" /\ pending' = batch \o pending /\ batch' = <<>>
      /\ UNCHANGED <<dropped, closed, enqueue, flush, accepted, delivered>>
  BY DEF SendFails
<1>2. pending \in Seq(Event) /\ batch \in Seq(Event) /\ batch # <<>> /\ failures \in Nat
  BY <1>1 DEF IInv, TypeOK
<1>3. /\ pending' \in Seq(Event) /\ Len(pending') = Len(batch) + Len(pending)
      /\ \A i \in 1..Len(batch) : pending'[i] = batch[i]
      /\ Range(pending') = Range(batch) \cup Range(pending)
  BY <1>1, <1>2, ConcatElements, RangeOfConcat
<1>4. batch' \in Seq(Event) /\ Len(batch') = 0
  BY <1>1
<1>5. failures' \in Nat /\ (MaxConsecutiveFailures > 0 => failures' < MaxConsecutiveFailures)
  BY <1>2 DEF SendFails, GivesUp
<1>6. TypeOK'
  BY <1>1, <1>3, <1>4, <1>5 DEF IInv, TypeOK
<1>7. Len(batch') + Len(pending') <= MaxQueueSize + MaxBatchSize
  BY <1>2, <1>3, <1>4 DEF IInv
<1>8. BatchIsSound'
  BY <1>4 DEF BatchIsSound
<1>9. RetryIsSound'
  <2>1. 1 \in 1..Len(batch) /\ Len(pending') # 0
    BY <1>2, <1>3
  <2>2. pending'[1] \notin Unsendable
    BY <1>3, <2>1 DEF IInv, BatchIsSound
  <2> QED
    BY <2>1, <2>2 DEF RetryIsSound
<1>10. \A f \in Flushes : Waits(f)'
  BY <1>1, <1>3, WaitsKept DEF Kept
<1> QED
  BY <1>1, <1>6, <1>7, <1>8, <1>9, <1>10 DEF IInv, CallsAreSound, NothingLeftBehind

LEMMA SleepEndsInv ==
  ASSUME IInv, SleepEnds
  PROVE  IInv'
<1>1. /\ drain = "sleeping" /\ Loop(pending, failures)
      /\ UNCHANGED <<dropped, closed, enqueue, accepted, delivered>>
  BY DEF SleepEnds
<1>2. /\ pending \in Seq(Event) /\ batch = <<>> /\ failures \in Nat
      /\ MaxConsecutiveFailures > 0 => failures < MaxConsecutiveFailures
  BY <1>1 DEF IInv, TypeOK
<1>3. Len(pending) <= MaxQueueSize + MaxBatchSize
  BY <1>2 DEF IInv
<1>4. Kept \ Unsendable \subseteq Kept'
  <2>1. Range(batch) = {}
    BY <1>2 DEF Range
  <2>2. Range(pending) \ Unsendable \subseteq Range(batch') \cup Range(pending')
    BY <1>1, <1>2, Looped
  <2> QED
    BY <1>1, <2>1, <2>2 DEF Kept
<1>5. drain' = "off" => closed
  BY <1>1, <1>2, Looped DEF IInv, RetryIsSound
<1>6. CallsAreSound'
  BY <1>1 DEF IInv, CallsAreSound
<1>7. /\ dropped' \in Nat /\ accepted' \in Nat /\ delivered' \in Seq(Event)
      /\ enqueue' \in [Enqueues -> [state: {"new", "blocked", "woken", "returned"}, size: 0..MaxBurst]]
  BY <1>1 DEF IInv, TypeOK
<1> QED
  BY <1>1, <1>2, <1>3, <1>4, <1>5, <1>6, <1>7, LoopInv

LEMMA FlushInv ==
  ASSUME IInv, NEW f \in Flushes, Flush(f)
  PROVE  IInv'
<1> DEFINE record == [state |-> IF pending = <<>> /\ drain = "off" THEN "resolved" ELSE "waiting",
                      owed |-> Range(batch \o pending), dropped |-> dropped]
<1>1. /\ flush' = [flush EXCEPT ![f] = record]
      /\ UNCHANGED <<buffer, drain, failures, dropped, closed, enqueue, accepted, delivered>>
  BY DEF Flush
<1>2. /\ Range(batch \o pending) = Range(batch) \cup Range(pending)
      /\ batch \o pending \in Seq(Event) /\ dropped \in Nat
  BY ConcatElements, RangeOfConcat DEF IInv, TypeOK
<1>3. Range(batch \o pending) \subseteq Event
  BY <1>2 DEF Range
<1>4. record \in [state: {"new", "waiting", "resolved"}, owed: SUBSET Event, dropped: Nat]
  BY <1>2, <1>3
<1>5. record.owed \subseteq Kept /\ record.dropped = dropped
  BY <1>2 DEF Kept
<1> HIDE DEF record
<1>6. TypeOK'
  BY <1>1, <1>4 DEF IInv, TypeOK, buffer
<1>7. \A g \in Flushes : Waits(g)'
  <2> SUFFICES ASSUME NEW g \in Flushes PROVE Waits(g)'
    OBVIOUS
  <2>1. Kept' = Kept /\ dropped' = dropped /\ dropped \in Nat /\ closed' = closed
    BY <1>1, <1>2 DEF Kept, buffer
  <2>2. CASE g = f
    <3>1. flush'[g] = record
      BY <1>1, <2>2 DEF IInv, TypeOK
    <3> QED
      BY <1>2, <1>5, <2>1, <3>1 DEF Waits
  <2>3. CASE g # f
    <3>1. flush'[g] = flush[g] /\ Waits(g)
      BY <1>1, <2>3 DEF IInv, TypeOK
    <3> QED
      BY <2>1, <3>1 DEF Waits
  <2> QED
    BY <2>2, <2>3
<1> QED
  BY <1>1, <1>6, <1>7 DEF IInv, BatchIsSound, RetryIsSound, CallsAreSound, NothingLeftBehind, buffer

LEMMA CloseInv ==
  ASSUME IInv, Close
  PROVE  IInv'
<1>1. /\ closed' /\ closed' \in BOOLEAN /\ pending' = <<>> /\ enqueue' = Released(enqueue)
      /\ flush' = Resolved(flush, "waiting", "resolved")
      /\ UNCHANGED <<batch, drain, failures, dropped, accepted, delivered>>
  BY DEF Close
<1>2. pending' \in Seq(Event) /\ Len(pending') = 0
  BY <1>1
<1>3. TypeOK'
  BY <1>1, <1>2, ReleasedCalls, ResolvedFlushes DEF IInv, TypeOK
<1>4. Len(batch') + Len(pending') <= MaxQueueSize + MaxBatchSize
  <2>1. Len(batch) \in Nat /\ Len(pending) \in Nat
    BY DEF IInv, TypeOK
  <2> QED
    BY <1>1, <1>2, <2>1 DEF IInv
<1>5. CallsAreSound'
  BY <1>1, ReleasedCalls DEF IInv, CallsAreSound
<1>6. \A f \in Flushes : Waits(f)'
  BY <1>1, WaitsKept
<1> QED
  BY <1>1, <1>3, <1>4, <1>5, <1>6 DEF IInv, BatchIsSound, RetryIsSound, NothingLeftBehind

LEMMA StepInv == IInv /\ [Next]_vars => IInv'
<1> SUFFICES ASSUME IInv, [Next]_vars PROVE IInv'
  OBVIOUS
<1>1. CASE UNCHANGED vars
  BY <1>1 DEF vars, buffer, IInv, TypeOK, BatchIsSound, RetryIsSound, CallsAreSound,
              NothingLeftBehind, Waits, Kept
<1>2. CASE Next
  BY <1>2, EnqueueInv, AnswerInv, SendFailsInv, SleepEndsInv, FlushInv, CloseInv DEF Next, Answer
<1> QED
  BY <1>1, <1>2

LEMMA Invariance == Spec => []IInv
  BY InitInv, StepInv, PTL DEF Spec

(* A flush is resolved when nothing is left, or by close. *)
LEMMA ResolvedWhenEmpty ==
  ASSUME IInv, [Next]_vars, NEW f \in Flushes,
         flush[f].state # "resolved", flush'[f].state = "resolved", ~closed'
  PROVE  batch' = <<>> /\ pending' = <<>>
<1>1. flush' # flush /\ TypeOK
  BY DEF IInv
<1>2. ASSUME NEW q \in Seq(Event), NEW failed, Loop(q, failed)
      PROVE  batch' = <<>> /\ pending' = <<>>
  BY <1>1, <1>2, Looped
<1>3. pending \in Seq(Event)
  BY <1>1 DEF TypeOK
<1>4. CASE \E c \in Enqueues : Enqueue(c) \/ Resume(c)
  <2>1. PICK c \in Enqueues : Enqueue(c) \/ Resume(c)
    BY <1>4
  <2>2. PICK n \in 1..MaxBurst : TryPush(c, n)
    BY <2>1, CallsTry
  <2>3. Push(c, n)
    BY <1>1, <2>2 DEF TryPush
  <2> DEFINE new == [i \in 1..n |-> accepted + i]
  <2>4. Loop(pending \o new, 0)
    BY <1>1, <2>3 DEF Push
  <2>5. new \in Seq(Event)
    BY <1>1 DEF TypeOK, Event
  <2> HIDE DEF new
  <2>6. pending \o new \in Seq(Event)
    BY <1>3, <2>5, ConcatElements
  <2> QED
    BY <1>2, <2>4, <2>6
<1>5. CASE SendSucceeds \/ DropBatch \/ SleepEnds
  BY <1>2, <1>3, <1>5 DEF SendSucceeds, DropBatch, SleepEnds
<1>6. CASE \E g \in Flushes : Flush(g)
  <2>1. PICK g \in Flushes : Flush(g)
    BY <1>6
  <2>2. g = f /\ pending = <<>> /\ drain = "off"
    BY <1>1, <2>1 DEF Flush, TypeOK
  <2> QED
    BY <1>1, <2>1, <2>2 DEF Flush, TypeOK, buffer
<1>7. CASE SendFails \/ Close \/ UNCHANGED vars
  BY <1>1, <1>7 DEF SendFails, Close, vars
<1> QED
  BY <1>4, <1>5, <1>6, <1>7 DEF Next, Answer

------------------------------------------------------------------------------
(* Theorems *)

(* The buffer, the batch on its way, the drain loop and the calls keep     *)
(* their types, and a batch is on its way exactly while the loop sends.    *)
THEOREM Typing == Spec => []TypeOK
<1>1. IInv => TypeOK
  BY DEF IInv
<1> QED
  BY <1>1, Invariance, PTL

(* However often batches are requeued while others push events, no more    *)
(* than the limit and one batch is ever held.                              *)
THEOREM Memory == Spec => []MemoryBounded
<1>1. IInv => MemoryBounded
  <2> SUFFICES ASSUME IInv PROVE MemoryBounded
    OBVIOUS
  <2>1. Len(batch \o pending) = Len(batch) + Len(pending)
    BY ConcatElements DEF IInv, TypeOK
  <2> QED
    BY <2>1 DEF IInv, MemoryBounded
<1> QED
  BY <1>1, Invariance, PTL

(* An open uploader whose loop is off holds no event and lets no enqueue   *)
(* wait that could go on.                                                  *)
THEOREM Progress == Spec => []NothingLeftBehind
<1>1. IInv => NothingLeftBehind
  BY DEF IInv
<1> QED
  BY <1>1, Invariance, PTL

(* A flush that ends while the uploader is open, with the count of dropped *)
(* batches as it was at its call, has seen delivered what it waited for.   *)
THEOREM Honest == Spec => FlushIsHonest
<1> DEFINE Honestly ==
      \A f \in Flushes :
        (flush[f].state # "resolved" /\ flush'[f].state = "resolved"
           /\ ~closed' /\ dropped' = flush'[f].dropped)
        => flush'[f].owed \ Unsendable \subseteq Range(delivered')
<1>1. IInv /\ [Next]_vars => Honestly
  <2> SUFFICES ASSUME IInv, [Next]_vars, NEW f \in Flushes,
                      flush[f].state # "resolved", flush'[f].state = "resolved",
                      ~closed', dropped' = flush'[f].dropped
               PROVE  flush'[f].owed \ Unsendable \subseteq Range(delivered')
    OBVIOUS
  <2>1. batch' = <<>> /\ pending' = <<>>
    BY ResolvedWhenEmpty
  <2>2. Waits(f)'
    BY StepInv DEF IInv
  <2>3. flush'[f].owed \ Unsendable \subseteq Kept'
    BY <2>2 DEF Waits
  <2>4. Kept' = Range(delivered')
    BY <2>1 DEF Kept, Range
  <2> QED
    BY <2>3, <2>4
<1>2. IInv /\ [Next]_vars => [Honestly]_vars
  BY <1>1
<1> QED
  BY <1>2, Invariance, PTL DEF Spec, FlushIsHonest

------------------------------------------------------------------------------
(* The uploader is an ordered event stream *)

LEMMA SameWithout ==
  ASSUME NEW s, NEW q, NEW S, Without(s, q, S)
  PROVE  Stream!Without(s, q, S)
  BY DEF Without, Stream!Without, Embeddings, Stream!Embeddings

(* What is removed from the end of a queue leaves its beginning.           *)
LEMMA ConcatIsAssociative ==
  ASSUME NEW r \in Seq(Event), NEW s \in Seq(Event), NEW t \in Seq(Event)
  PROVE  (r \o s) \o t = r \o (s \o t)
  OBVIOUS

LEMMA EmptyBefore == ASSUME NEW s \in Seq(Event) PROVE <<>> \o s = s
  OBVIOUS

(* The batch and the buffer behind it, cut after the batch.                *)
LEMMA CutAfterBatch ==
  ASSUME NEW s \in Seq(Event), NEW t \in Seq(Event)
  PROVE  /\ SubSeq(s \o t, Len(s) + 1, Len(s \o t)) = t
         /\ SubSeq(s \o t, 1, Len(s)) = s
  OBVIOUS

LEMMA PushIsAccept ==
  ASSUME IInv, NEW c \in Enqueues, NEW n \in 1..MaxBurst, TryPush(c, n),
         UNCHANGED <<dropped, closed, delivered>>
  PROVE  Stream!Accept \/ UNCHANGED Stream!vars
<1> DEFINE new == [i \in 1..n |-> accepted + i]
<1>1. /\ pending \in Seq(Event) /\ batch \in Seq(Event) /\ new \in Seq(Event)
      /\ pending \o new \in Seq(Event)
  BY ConcatElements DEF IInv, TypeOK, Event
<1>2. CASE UNCHANGED <<buffer, drain, failures, flush, accepted>>
  BY <1>2 DEF Stream!vars, buffer
<1>3. CASE ~closed /\ Push(c, n)
  <2>1. /\ accepted' = accepted + n
        /\ IF drain = "off" THEN Loop(pending \o new, 0)
           ELSE pending' = pending \o new /\ UNCHANGED <<batch, drain, failures, flush>>
    BY <1>3 DEF Push
  <2> HIDE DEF new
  <2>2. (batch \o pending) \o new = batch \o (pending \o new)
    BY <1>1, ConcatIsAssociative
  <2>3. batch \o (pending \o new) \in Seq(Event)
    BY <1>1, ConcatElements
  <2>4. Without(batch' \o pending', (batch \o pending) \o new, Unsendable)
    <3>1. CASE drain = "off"
      <4>1. batch = <<>>
        BY <3>1 DEF IInv, TypeOK
      <4>2. batch \o (pending \o new) = pending \o new
        BY <1>1, <4>1, EmptyBefore
      <4>3. Without(batch' \o pending', pending \o new, Unsendable)
        BY <1>1, <2>1, <3>1, Looped
      <4> QED
        BY <2>2, <4>2, <4>3
    <3>2. CASE drain # "off"
      <4>1. batch' \o pending' = (batch \o pending) \o new
        BY <2>1, <2>2, <3>2
      <4> QED
        BY <2>2, <2>3, <4>1, WithoutNothing
    <3> QED
      BY <3>1, <3>2
  <2>5. Stream!Without((batch \o pending)', (batch \o pending) \o new, Unsendable)
    BY <2>4, SameWithout
  <2> QED
    BY <1>3, <2>1, <2>5 DEF Stream!Accept, new
<1> QED
  BY <1>2, <1>3 DEF TryPush

LEMMA AnswerIsServed ==
  ASSUME IInv, SendSucceeds \/ DropBatch
  PROVE  Stream!Deliver \/ Stream!GiveUp
<1> DEFINE n == Len(batch)
<1>1. /\ pending \in Seq(Event) /\ batch \in Seq(Event) /\ batch # <<>>
      /\ n <= MaxBatchSize
  BY DEF IInv, TypeOK, BatchIsSound, SendSucceeds, DropBatch
<1>2. n \in 1..MaxBatchSize
  BY <1>1
<1>3. n <= Len(batch \o pending)
  BY <1>1, ConcatElements
<1>4. /\ SubSeq(batch \o pending, n + 1, Len(batch \o pending)) = pending
      /\ SubSeq(batch \o pending, 1, n) = batch
  BY <1>1, CutAfterBatch
<1>5. Without(batch' \o pending', pending, Unsendable)
  BY <1>1, Looped DEF SendSucceeds, DropBatch
<1>6. Stream!Without((batch \o pending)', pending, Unsendable)
  BY <1>5, SameWithout
<1> HIDE DEF n
<1>7. Stream!Serve(n)
  BY <1>4, <1>6 DEF Stream!Serve
<1>8. CASE SendSucceeds
  <2>1. /\ delivered' = delivered \o SubSeq(batch \o pending, 1, n)
        /\ UNCHANGED <<accepted, closed>>
    BY <1>4, <1>8 DEF SendSucceeds
  <2> QED
    BY <1>2, <1>3, <1>7, <2>1 DEF Stream!Deliver
<1>9. CASE DropBatch
  <2>1. UNCHANGED <<accepted, delivered, closed>>
    BY <1>9 DEF DropBatch
  <2> QED
    BY <1>2, <1>3, <1>7, <2>1 DEF Stream!GiveUp
<1> QED
  BY <1>8, <1>9

LEMMA RetryIsSkip ==
  ASSUME IInv, SleepEnds
  PROVE  Stream!Skip
<1>1. /\ pending \in Seq(Event) /\ batch = <<>> /\ Loop(pending, failures)
      /\ UNCHANGED <<accepted, delivered, closed>>
  BY DEF IInv, TypeOK, SleepEnds
<1>2. batch \o pending = pending
  BY <1>1, EmptyBefore
<1>3. SubSeq(batch \o pending, 0 + 1, Len(batch \o pending)) = batch \o pending
  BY <1>1, <1>2
<1>4. Without(batch' \o pending', batch \o pending, Unsendable)
  BY <1>1, <1>2, Looped
<1>5. Stream!Without((batch \o pending)', batch \o pending, Unsendable)
  BY <1>4, SameWithout
<1> QED
  BY <1>1, <1>3, <1>5 DEF Stream!Skip, Stream!Serve

LEMMA CloseIsClose ==
  ASSUME IInv, Close
  PROVE  Stream!Close
<1> DEFINE n == Len(batch)
<1>1. /\ pending \in Seq(Event) /\ batch \in Seq(Event) /\ n \in 0..MaxBatchSize
  BY DEF IInv, TypeOK, BatchIsSound
<1>2. /\ ~closed /\ closed' /\ pending' = <<>> /\ batch' = batch
      /\ UNCHANGED <<accepted, delivered>>
  BY DEF Close
<1>3. n <= Len(batch \o pending) /\ SubSeq(batch \o pending, 1, n) = batch
  BY <1>1, ConcatElements, CutAfterBatch
<1>4. batch' \o pending' = batch
  BY <1>1, <1>2
<1> HIDE DEF n
<1> QED
  BY <1>1, <1>2, <1>3, <1>4 DEF Stream!Close

LEMMA StepIsStreamStep == IInv /\ [Next]_vars => [Stream!Next]_Stream!vars
<1> SUFFICES ASSUME IInv, [Next]_vars PROVE Stream!Next \/ UNCHANGED Stream!vars
  OBVIOUS
<1>1. CASE \E c \in Enqueues : Enqueue(c) \/ Resume(c)
  <2>1. PICK c \in Enqueues : Enqueue(c) \/ Resume(c)
    BY <1>1
  <2>2. UNCHANGED <<dropped, closed, delivered>>
    BY <2>1 DEF Enqueue, Resume
  <2>3. PICK n \in 1..MaxBurst : TryPush(c, n)
    BY <2>1, CallsTry
  <2> QED
    BY <2>2, <2>3, PushIsAccept DEF Stream!Next
<1>2. CASE SendSucceeds \/ DropBatch
  BY <1>2, AnswerIsServed DEF Stream!Next
<1>3. CASE SendFails
  <2>1. /\ pending' = batch \o pending /\ batch' = <<>>
        /\ UNCHANGED <<accepted, delivered, closed>>
    BY <1>3 DEF SendFails
  <2>2. batch \o pending \in Seq(Event)
    BY ConcatElements DEF IInv, TypeOK
  <2>3. batch' \o pending' = batch \o pending
    BY <2>1, <2>2, EmptyBefore
  <2> QED
    BY <2>1, <2>3 DEF Stream!vars
<1>4. CASE SleepEnds
  BY <1>4, RetryIsSkip DEF Stream!Next
<1>5. CASE \E f \in Flushes : Flush(f)
  BY <1>5 DEF Flush, Stream!vars, buffer
<1>6. CASE Close
  BY <1>6, CloseIsClose DEF Stream!Next
<1>7. CASE UNCHANGED vars
  BY <1>7 DEF vars, buffer, Stream!vars
<1> QED
  BY <1>1, <1>2, <1>3, <1>4, <1>5, <1>6, <1>7 DEF Next, Answer

(* Every behaviour of the uploader is one of the ordered event stream:     *)
(* events are delivered in the order of their acceptance, and are lost in  *)
(* whole batches, as unsendable ones or by close only.                     *)
THEOREM Refinement == Spec => IsOrderedStream
<1>1. Init => Stream!Init
  <2>1. <<>> \o <<>> = <<>>
    OBVIOUS
  <2> QED
    BY <2>1 DEF Init, Stream!Init
<1> QED
  BY <1>1, StepIsStreamStep, Invariance, PTL DEF Spec, IsOrderedStream, Stream!Spec
=============================================================================
