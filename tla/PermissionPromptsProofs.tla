---------------------- MODULE PermissionPromptsProofs ----------------------
(***************************************************************************)
(* Theorems about a session with prompts (PermissionPrompts), for any      *)
(* number of tools, copies of an answer and crashes, with and without      *)
(* hooks: what it reports (Shown, Idle), its types (Typing), and that each *)
(* tool use gets one result (DecidedOnce).                                 *)
(*                                                                         *)
(* 'running' is reported when pendingRequests is empty: no call waits      *)
(* then, because who waits is in it.  The other way round, a request that  *)
(* is pending belongs to a call that its turn waits for, so that nothing   *)
(* is pending when a turn ends.                                            *)
(***************************************************************************)
EXTENDS PermissionPrompts, FiniteSetTheorems, TLAPS

Open == {"asked", "settled", "running"}

(* A call that waits is found in pendingRequests. *)
WaitingIsPending == \A t \in Tools : call[t] = "asked" => t \in pending

(* A pending request belongs to a call that is under way. *)
PendingIsOpen == \A t \in pending : t \in Tools /\ call[t] \in Open

(* The turn waits for each call that is under way. *)
OpenIsInTurn == \A t \in Tools : call[t] \in Open \union {"checking"} => turn = "prompt"

IdleIsReported == turn = "none" => state = "idle" /\ shown = NoTool

IInv ==
    /\ call \in [Tools -> Phases]
    /\ WaitingIsPending
    /\ PendingIsOpen
    /\ OpenIsInTurn
    /\ PromptIsShown
    /\ IdleIsReported

USE DEF WaitingIsPending, PendingIsOpen, OpenIsInTurn, IdleIsReported, PromptIsShown,
        Open, Phases

-----------------------------------------------------------------------------
LEMMA InitInv == Init => IInv
  BY DEF Init, IInv

(* The turn begins and ends; one that ends has no call under way. *)
LEMMA TurnInv ==
  ASSUME IInv, StartTurn \/ EndTurn \/ StartOrphan \/ FinishOrphan
  PROVE  IInv'
  <1>1. CASE StartTurn
    BY <1>1 DEF IInv, StartTurn, Notify
  <1>2. CASE EndTurn
    BY <1>2 DEF IInv, EndTurn, Drain, Notify
  <1>3. CASE StartOrphan
    BY <1>3 DEF IInv, StartOrphan, Notify
  <1>4. CASE FinishOrphan
    BY <1>4 DEF IInv, FinishOrphan, Drain, Notify
  <1> QED
    BY <1>1, <1>2, <1>3, <1>4

(* A call is made, decided by the rules, or opens a prompt. *)
LEMMA CheckInv ==
  ASSUME IInv, NEW t \in Tools, Check(t) \/ DecideByRule(t) \/ Ask(t)
  PROVE  IInv'
  <1>1. CASE Check(t)
    BY <1>1 DEF IInv, Check
  <1>2. CASE DecideByRule(t)
    BY <1>2 DEF IInv, DecideByRule
  <1>3. CASE Ask(t)
    BY <1>3 DEF IInv, Ask, Notify
  <1> QED
    BY <1>1, <1>2, <1>3

(* A call goes on, or its hook returns: 'running' is reported only when      *)
(* nothing is pending.                                                       *)
LEMMA ResumeInv ==
  ASSUME IInv, NEW t \in Tools,
         Forget(t) \/ Resume(t) \/ HookAllows(t) \/ HookPasses(t) \/ Finish(t)
  PROVE  IInv'
  <1>1. CASE Forget(t)
    BY <1>1 DEF IInv, Forget
  <1>2. CASE Resume(t)
    BY <1>2 DEF IInv, Resume, Finally, Notify
  <1>3. CASE HookAllows(t)
    <2>1. CASE call[t] \in {"asked", "settled"}
      BY <1>3, <2>1 DEF IInv, HookAllows, Finally, Notify
    <2>2. CASE call[t] \notin {"asked", "settled"}
      BY <1>3, <2>2 DEF IInv, HookAllows
    <2> QED
      BY <2>1, <2>2
  <1>4. CASE HookPasses(t)
    BY <1>4 DEF IInv, HookPasses
  <1>5. CASE Finish(t)
    BY <1>5 DEF IInv, Finish
  <1> QED
    BY <1>1, <1>2, <1>3, <1>4, <1>5

(* An answer arrives. *)
LEMMA RespondInv ==
  ASSUME IInv, NEW t \in Tools, Respond(t)
  PROVE  IInv'
  <1>1. CASE Settle(t)
    BY <1>1 DEF IInv, Respond, Settle
  <1>2. CASE Ignore(t)
    BY <1>2 DEF IInv, Respond, Ignore
  <1>3. CASE Enqueue(t)
    BY <1>3 DEF IInv, Respond, Enqueue
  <1> QED
    BY <1>1, <1>2, <1>3 DEF Respond

(* The turn is aborted, the input ends, the process dies, the host answers. *)
LEMMA OutsideInv ==
  ASSUME IInv,
         \/ Abort \/ CloseInput \/ Crash
         \/ \E t \in Tools, copies \in 1..MaxCopies : HostAnswers(t, copies)
  PROVE  IInv'
  <1>1. CASE Abort
    BY <1>1 DEF IInv, Abort
  <1>2. CASE CloseInput
    BY <1>2 DEF IInv, CloseInput
  <1>3. CASE Crash
    BY <1>3 DEF IInv, Crash, Notify
  <1>4. CASE \E t \in Tools, copies \in 1..MaxCopies : HostAnswers(t, copies)
    BY <1>4 DEF IInv, HostAnswers, process
  <1> QED
    BY <1>1, <1>2, <1>3, <1>4

LEMMA NextInv == IInv /\ [Next]_vars => IInv'
  <1> SUFFICES ASSUME IInv, [Next]_vars PROVE IInv'
    OBVIOUS
  <1>1. CASE StartTurn \/ EndTurn \/ StartOrphan \/ FinishOrphan
    BY <1>1, TurnInv
  <1>2. ASSUME NEW t \in Tools, CallStep(t) PROVE IInv'
    BY <1>2, CheckInv, ResumeInv DEF CallStep
  <1>3. ASSUME NEW t \in Tools, Respond(t) PROVE IInv'
    BY <1>3, RespondInv
  <1>4. CASE \/ Abort \/ CloseInput \/ Crash
             \/ \E t \in Tools, copies \in 1..MaxCopies : HostAnswers(t, copies)
    BY <1>4, OutsideInv
  <1>5. CASE UNCHANGED vars
    BY <1>5 DEF IInv, vars, process
  <1> QED
    BY <1>1, <1>2, <1>3, <1>4, <1>5 DEF Next

LEMMA Invariant == Spec => []IInv
  BY InitInv, NextInv, PTL DEF Spec

(* While a prompt waits the session is reported as blocked, whatever its     *)
(* neighbours, their hooks, an abort or the end of the input do.             *)
THEOREM Shown == Spec => []PromptIsShown
  <1>1. IInv => PromptIsShown
    BY DEF IInv
  <1> QED
    BY <1>1, Invariant, PTL

(* Between turns the session is reported as idle, and pendingRequests holds  *)
(* nothing that an answer could still settle.                                *)
THEOREM Idle == Spec => []IdleBetweenTurns
  <1>1. IInv => IdleBetweenTurns
    BY DEF IInv, IdleBetweenTurns
  <1> QED
    BY <1>1, Invariant, PTL
-----------------------------------------------------------------------------
(* Sequences without repetition, and what is tracked as resolved. *)

EachOnce(s) == \A i, j \in 1..Len(s) : s[i] = s[j] => i = j

(* Induction over the naturals, for a set in place of a predicate: a set of  *)
(* counterexamples to it would have no least interval 0..n.                  *)
LEMMA SetInduction ==
  ASSUME NEW T, 0 \in T, \A n \in Nat : n \in T => n + 1 \in T
  PROVE  Nat \subseteq T
  <1> DEFINE Missing == {0..n : n \in Nat \ T}
             Less == StrictSubsetOrdering(Nat)
             Finite == FiniteSubsetsOf(Nat)
  <1>1. IsWellFoundedOn(Less, Finite)
    BY FS_StrictSubsetOrderingWellFounded
  <1>2. Missing \subseteq Finite
    <2>1. \A n \in Nat : 0..n \subseteq Nat /\ IsFiniteSet(0..n)
      BY FS_Interval
    <2> QED
      BY <2>1 DEF FiniteSubsetsOf
  <1>3. ASSUME Missing # {} PROVE FALSE
    <2> HIDE DEF Missing, Less, Finite
    <2>1. PICK x \in Missing : \A y \in Missing : ~ (<<y, x>> \in Less)
      BY <1>1, <1>2, <1>3, WFMin
    <2>2. PICK n \in Nat \ T : x = 0..n
      BY DEF Missing
    <2>3. n # 0 /\ n - 1 \in Nat /\ n = (n - 1) + 1
      BY <2>2
    <2>4. 0..(n - 1) \in Missing
      BY <2>2, <2>3 DEF Missing
    <2>5. /\ 0..(n - 1) \subseteq 0..n /\ 0..n \subseteq Nat
          /\ n \notin 0..(n - 1) /\ n \in 0..n
      BY <2>3
    <2>6. <<0..(n - 1), 0..n>> \in Less
      BY <2>5 DEF Less, StrictSubsetOrdering
    <2> QED
      BY <2>1, <2>2, <2>4, <2>6
  <1>4. ASSUME NEW n \in Nat, n \notin T PROVE FALSE
    <2>1. 0..n \in Missing
      BY <1>4
    <2> QED
      BY <1>3, <2>1
  <1> QED
    BY <1>4

LEMMA AppendFacts ==
  ASSUME NEW X, NEW s \in Seq(X), NEW x \in X
  PROVE  /\ Append(s, x) \in Seq(X)
         /\ Range(Append(s, x)) = Range(s) \cup {x}
         /\ x \notin Range(s) /\ EachOnce(s) => EachOnce(Append(s, x))
  <1> DEFINE t == Append(s, x)
  <1>1. t \in Seq(X) /\ Len(t) = Len(s) + 1 /\ Len(s) \in Nat
    OBVIOUS
  <1>2. DOMAIN t = 1..(Len(s) + 1) /\ DOMAIN s = 1..Len(s)
    BY <1>1
  <1>3. (\A i \in 1..Len(s) : t[i] = s[i]) /\ t[Len(s) + 1] = x
    OBVIOUS
  <1>4. 1..(Len(s) + 1) = 1..Len(s) \cup {Len(s) + 1}
    BY <1>1
  <1> HIDE DEF t
  <1>5. Range(t) = Range(s) \cup {x}
    BY <1>2, <1>3, <1>4 DEF Range
  <1>6. ASSUME x \notin Range(s), EachOnce(s) PROVE EachOnce(t)
    <2>1. \A i \in 1..Len(s) : s[i] # x
      BY <1>2, <1>6 DEF Range
    <2> QED
      BY <1>1, <1>3, <1>4, <1>6, <2>1 DEF EachOnce
  <1> QED
    BY <1>1, <1>5, <1>6 DEF t

LEMMA TailFacts ==
  ASSUME NEW X, NEW s \in Seq(X), s # <<>>
  PROVE  /\ Tail(s) \in Seq(X) /\ Head(s) \in Range(s)
         /\ Range(Tail(s)) \subseteq Range(s)
         /\ EachOnce(s) => EachOnce(Tail(s)) /\ Head(s) \notin Range(Tail(s))
  <1> DEFINE t == Tail(s)
  <1>1. /\ t \in Seq(X) /\ Len(s) \in Nat \ {0} /\ Len(t) = Len(s) - 1
        /\ \A i \in 1..Len(t) : t[i] = s[i + 1]
    OBVIOUS
  <1>2. DOMAIN t = 1..Len(t) /\ DOMAIN s = 1..Len(s) /\ Head(s) = s[1]
    BY <1>1
  <1> HIDE DEF t
  <1>3. \A i \in 1..Len(t) : i + 1 \in 1..Len(s) /\ i + 1 # 1
    BY <1>1
  <1>4. 1 \in 1..Len(s) /\ Len(t) \in Nat
    BY <1>1
  <1>5. Head(s) \in Range(s) /\ Range(t) \subseteq Range(s)
    BY <1>1, <1>2, <1>3, <1>4 DEF Range
  <1>6. ASSUME EachOnce(s) PROVE EachOnce(t) /\ Head(s) \notin Range(t)
    <2>1. EachOnce(t)
      BY <1>1, <1>3, <1>4, <1>6 DEF EachOnce
    <2>2. ASSUME NEW i \in 1..Len(t), t[i] = s[1] PROVE FALSE
      <3>1. s[i + 1] = s[1] /\ i + 1 \in 1..Len(s) /\ i + 1 # 1
        BY <1>1, <1>3, <2>2
      <3> QED
        BY <1>4, <1>6, <3>1 DEF EachOnce
    <2> QED
      BY <1>2, <2>1, <2>2 DEF Range
  <1> QED
    BY <1>1, <1>5, <1>6 DEF t

(* Nothing is evicted when all the tools have room. *)
Roomy == Cardinality(Tools) <= MaxResolved

LEMMA RoomLeft ==
  ASSUME Roomy, NEW s \in Seq(Tools), EachOnce(s), NEW t \in Tools, t \notin Range(s)
  PROVE  Len(s) < MaxResolved
  <1> DEFINE Others == Tools \ {t}
  <1>1. IsFiniteSet(Tools) /\ MaxResolved \in Nat
    BY PromptsAssumption
  <1>2. IsFiniteSet(Others) /\ Cardinality(Others) = Cardinality(Tools) - 1
    BY <1>1, FS_RemoveElement
  <1>3. Cardinality(Tools) \in Nat
    BY <1>1, FS_CardinalityType
  <1>4. PICK n \in Nat : Len(s) = n /\ s \in [1..n -> Others]
    BY DEF Range
  <1>5. IsFiniteSet(1..n) /\ Cardinality(1..n) = n
    <2>1. 1 \in Int /\ n \in Int /\ (1 > n => n = 0)
      OBVIOUS
    <2>2. IsFiniteSet(1..n) /\ Cardinality(1..n) = IF 1 > n THEN 0 ELSE n - 1 + 1
      BY <2>1, FS_Interval
    <2> QED
      BY <2>1, <2>2
  <1> HIDE DEF Others
  <1>6. ASSUME ~(n < MaxResolved) PROVE FALSE
    <2>1. Cardinality(Others) < Cardinality(1..n)
      BY <1>1, <1>2, <1>3, <1>5, <1>6 DEF Roomy
    <2>2. \E i, j \in 1..n : i # j /\ s[i] = s[j]
      BY <1>2, <1>4, <1>5, <2>1, FS_PigeonHole
    <2> QED
      BY <1>4, <2>2 DEF EachOnce
  <1> QED
    BY <1>4, <1>6

(* The resolved tools: bounded, and complete while there is room. *)
Tracked(s) == s \in Seq(Tools) /\ Len(s) <= MaxResolved

LEMMA TrackFacts ==
  ASSUME NEW s, Tracked(s), NEW t \in Tools
  PROVE  /\ Tracked(Track(s, t))
         /\ Roomy /\ EachOnce(s) => /\ EachOnce(Track(s, t))
                                    /\ Range(Track(s, t)) = Range(s) \cup {t}
  <1>1. /\ s \in Seq(Tools) /\ Len(s) \in Nat /\ Len(s) <= MaxResolved
        /\ MaxResolved \in Nat \ {0}
    BY PromptsAssumption DEF Tracked
  <1>2. CASE t \in Range(s)
    BY <1>1, <1>2 DEF Track, Tracked
  <1>3. CASE t \notin Range(s) /\ Len(s) < MaxResolved
    <2>1. Track(s, t) = Append(s, t) /\ Len(Append(s, t)) = Len(s) + 1
      BY <1>1, <1>3 DEF Track
    <2> QED
      BY <1>1, <1>3, <2>1, AppendFacts DEF Tracked
  <1>4. CASE t \notin Range(s) /\ ~(Len(s) < MaxResolved)
    <2>1. Track(s, t) = Tail(Append(s, t))
      BY <1>4 DEF Track
    <2>2. Append(s, t) \in Seq(Tools) /\ Len(Append(s, t)) = Len(s) + 1
      BY <1>1
    <2>3. Tail(Append(s, t)) \in Seq(Tools) /\ Len(Tail(Append(s, t))) = Len(s)
      BY <1>1
    <2>4. ~(Roomy /\ EachOnce(s))
      BY <1>1, <1>4, RoomLeft
    <2> QED
      BY <1>1, <2>1, <2>3, <2>4 DEF Tracked
  <1> QED
    BY <1>2, <1>3, <1>4

(* The recursion of TrackAll, up to position m; it defines a function. *)
Tracks(G, known, ts, m) ==
  G = [n \in 0..m |-> IF n = 0 THEN known ELSE Track(G[n - 1], ts[n])]

LEMMA TracksExists ==
  ASSUME NEW known, NEW ts, NEW L \in Nat
  PROVE  \E G : Tracks(G, known, ts, L)
  <1> DEFINE T == {m \in Nat : \E G : Tracks(G, known, ts, m)}
  <1>1. 0 \in T
    <2>1. Tracks([n \in 0..0 |-> known], known, ts, 0)
      BY DEF Tracks
    <2> QED
      BY <2>1
  <1>2. ASSUME NEW m \in Nat, m \in T PROVE m + 1 \in T
    <2>1. PICK G : Tracks(G, known, ts, m)
      BY <1>2
    <2> DEFINE x == Track(G[m], ts[m + 1])
               H == [n \in 0..(m + 1) |-> IF n = m + 1 THEN x ELSE G[n]]
    <2>2. \A n \in 0..m : H[n] = G[n]
      OBVIOUS
    <2>3. \A n \in 0..m : G[n] = IF n = 0 THEN known ELSE Track(G[n - 1], ts[n])
      <3> HIDE DEF H, x
      <3> QED
        BY <2>1 DEF Tracks
    <2>4. ASSUME NEW n \in 0..(m + 1)
          PROVE  H[n] = IF n = 0 THEN known ELSE Track(H[n - 1], ts[n])
      <3>1. CASE n = m + 1
        <4>1. H[n] = x /\ n - 1 = m /\ m \in 0..m /\ n # 0
          BY <3>1
        <4>2. H[n - 1] = G[m]
          BY <4>1, <2>2
        <4> HIDE DEF H
        <4> QED
          BY <3>1, <4>1, <4>2
      <3>2. CASE n \in 0..m
        <4>1. n # 0 => n - 1 \in 0..m
          BY <3>2
        <4>2. H[n] = G[n] /\ (n # 0 => H[n - 1] = G[n - 1])
          BY <2>2, <3>2, <4>1
        <4> HIDE DEF H
        <4> QED
          BY <2>3, <3>2, <4>2
      <3> QED
        BY <3>1, <3>2
    <2>5. Tracks(H, known, ts, m + 1)
      <3>1. H = [n \in 0..(m + 1) |-> H[n]]
        OBVIOUS
      <3> HIDE DEF H
      <3> QED
        BY <2>4, <3>1 DEF Tracks
    <2> QED
      BY <2>5
  <1>3. Nat \subseteq T
    <2> HIDE DEF T
    <2> QED
      BY <1>1, <1>2, SetInduction
  <1> QED
    BY <1>3

LEMMA TrackAllFacts ==
  ASSUME NEW s, Tracked(s), NEW ts \in Seq(Tools)
  PROVE  /\ Tracked(TrackAll(s, ts))
         /\ Roomy /\ EachOnce(s) => /\ EachOnce(TrackAll(s, ts))
                                    /\ Range(TrackAll(s, ts)) = Range(s) \cup Range(ts)
  <1> DEFINE L == Len(ts)
             F == CHOOSE G : Tracks(G, s, ts, L)
             Upto(n) == {ts[i] : i \in 1..n}
             Good(n) == /\ Tracked(F[n])
                        /\ Roomy /\ EachOnce(s) => /\ EachOnce(F[n])
                                                   /\ Range(F[n]) = Range(s) \cup Upto(n)
             T == {n \in Nat : n <= L => Good(n)}
  <1>1. L \in Nat /\ Tracks(F, s, ts, L)
    BY TracksExists
  <1>2. \A n \in 0..L : F[n] = IF n = 0 THEN s ELSE Track(F[n - 1], ts[n])
    <2> HIDE DEF F, L
    <2> QED
      BY <1>1 DEF Tracks
  <1>3. Good(0)
    <2>1. F[0] = s
      BY <1>1, <1>2
    <2>2. Upto(0) = {}
      OBVIOUS
    <2> HIDE DEF F, Upto
    <2> QED
      BY <2>1, <2>2
  <1>4. ASSUME NEW n \in Nat, n + 1 <= L, Good(n) PROVE Good(n + 1)
    <2>1. n + 1 \in 1..L /\ ts[n + 1] \in Tools
      BY <1>1, <1>4
    <2>2. F[n + 1] = Track(F[n], ts[n + 1])
      <3>1. n + 1 \in 0..L /\ n + 1 # 0 /\ (n + 1) - 1 = n
        BY <2>1, <1>1
      <3> HIDE DEF F, L
      <3> QED
        BY <1>2, <3>1
    <2>3. Upto(n + 1) = Upto(n) \cup {ts[n + 1]}
      <3>1. 1..(n + 1) = 1..n \cup {n + 1}
        OBVIOUS
      <3> QED
        BY <3>1
    <2> HIDE DEF F, Upto, L
    <2>4. Tracked(F[n])
      BY <1>4
    <2>5. Tracked(Track(F[n], ts[n + 1]))
      BY <2>1, <2>4, TrackFacts
    <2>6. ASSUME Roomy, EachOnce(s)
          PROVE  EachOnce(F[n + 1]) /\ Range(F[n + 1]) = Range(s) \cup Upto(n + 1)
      <3>1. EachOnce(F[n]) /\ Range(F[n]) = Range(s) \cup Upto(n)
        BY <1>4, <2>6
      <3>2. /\ EachOnce(Track(F[n], ts[n + 1]))
            /\ Range(Track(F[n], ts[n + 1])) = Range(F[n]) \cup {ts[n + 1]}
        BY <2>1, <2>4, <2>6, <3>1, TrackFacts
      <3> QED
        BY <2>2, <2>3, <3>1, <3>2
    <2> QED
      BY <2>2, <2>5, <2>6
  <1>5. L \in T
    <2> HIDE DEF Good, L
    <2>1. 0 \in T
      BY <1>3
    <2>2. ASSUME NEW n \in Nat, n \in T PROVE n + 1 \in T
      BY <1>1, <1>4, <2>2
    <2> HIDE DEF T
    <2> QED
      BY <1>1, <2>1, <2>2, SetInduction
  <1>6. Good(L)
    <2> HIDE DEF Good, L
    <2> QED
      BY <1>1, <1>5
  <1>7. Upto(L) = Range(ts)
    BY DEF Range
  <1>8. TrackAll(s, ts) = F[L]
    BY DEF TrackAll, Tracks
  <1> HIDE DEF F, L, Upto
  <1> QED
    BY <1>6, <1>7, <1>8

(* An order of a set of tools is a sequence of its members. *)
LEMMA OrderFacts ==
  ASSUME NEW S, S \subseteq Tools, NEW order \in Orders(S)
  PROVE  order \in Seq(Tools) /\ Range(order) = S
  <1>1. Cardinality(S) \in Nat
    BY PromptsAssumption, FS_Subset, FS_CardinalityType
  <1>2. order \in [1..Cardinality(S) -> Tools]
    BY DEF Orders
  <1> QED
    BY <1>1, <1>2 DEF Orders

-----------------------------------------------------------------------------
(* The types.  An orphan that is replayed is the head of the queue.          *)

TypeInv == TypeOK /\ (turn = "orphan" => orphans # <<>>)

LEMMA InitTyped == Init => TypeInv
  <1> SUFFICES ASSUME Init PROVE TypeInv
    OBVIOUS
  <1>1. MaxResolved \in Nat /\ MaxCopies \in Nat /\ MaxCrashes \in Nat
    BY PromptsAssumption
  <1>2. /\ resolved \in Seq(Tools) /\ Len(resolved) <= MaxResolved
        /\ orphans \in Seq(Tools)
    BY <1>1 DEF Init
  <1>3. /\ turn = "none" /\ aborted = FALSE /\ closed = FALSE
        /\ state = "idle" /\ shown = NoTool /\ crashes = 0
        /\ deaf = {} /\ pending = {} /\ handled = {} /\ hooks = {}
        /\ granted = {} /\ sent = {}
    BY DEF Init
  <1>4. /\ call \in [Tools -> Phases] /\ \A t \in Tools : call[t] # "asked"
        /\ winner \in [Tools -> {"none", "host", "hook"}]
        /\ wire \in [Tools -> 0..MaxCopies] /\ results \in [Tools -> Nat]
    BY <1>1 DEF Init
  <1>5. crashes \in 0..MaxCrashes
    BY <1>1, <1>3
  <1>6. TypeOK
    BY <1>2, <1>3, <1>4, <1>5 DEF TypeOK
  <1> QED
    BY <1>3, <1>6 DEF TypeInv

LEMMA TurnTyped ==
  ASSUME TypeInv, StartTurn \/ EndTurn \/ StartOrphan \/ FinishOrphan
  PROVE  TypeInv'
  <1>1. CASE StartTurn
    BY <1>1 DEF TypeInv, TypeOK, StartTurn, Notify
  <1>2. CASE EndTurn
    BY <1>2 DEF TypeInv, TypeOK, EndTurn, Drain, Notify
  <1>3. CASE StartOrphan
    BY <1>3 DEF TypeInv, TypeOK, StartOrphan, Notify
  <1>4. CASE FinishOrphan
    <2>1. orphans \in Seq(Tools) /\ orphans # <<>>
      BY <1>4 DEF TypeInv, TypeOK, FinishOrphan
    <2>2. orphans' \in Seq(Tools)
      BY <1>4, <2>1 DEF FinishOrphan
    <2>3. results' \in [Tools -> Nat]
      <3>1. /\ results \in [Tools -> Nat]
            /\ results' = [results EXCEPT ![Head(orphans)] = @ + 1] \/ results' = results
        BY <1>4 DEF TypeInv, TypeOK, FinishOrphan
      <3> QED
        BY <2>1, <3>1
    <2> QED
      BY <1>4, <2>2, <2>3 DEF TypeInv, TypeOK, FinishOrphan, Drain, Notify
  <1> QED
    BY <1>1, <1>2, <1>3, <1>4

LEMMA CallTyped == ASSUME TypeInv, NEW t \in Tools, CallStep(t) PROVE TypeInv'
  <1>1. CASE Check(t)
    BY <1>1 DEF TypeInv, TypeOK, Check
  <1>2. CASE DecideByRule(t)
    BY <1>2 DEF TypeInv, TypeOK, DecideByRule
  <1>3. CASE Ask(t)
    BY <1>3 DEF TypeInv, TypeOK, Ask, Notify
  <1>4. CASE Forget(t)
    BY <1>4 DEF TypeInv, TypeOK, Forget
  <1>5. CASE Resume(t)
    BY <1>5 DEF TypeInv, TypeOK, Resume, Finally, Notify
  <1>6. CASE HookAllows(t)
    <2>1. Tracked(resolved) /\ Tracked(Track(resolved, t))
      BY TrackFacts DEF TypeInv, TypeOK, Tracked
    <2>2. resolved' \in Seq(Tools) /\ Len(resolved') <= MaxResolved
      BY <1>6, <2>1 DEF HookAllows, Tracked
    <2>3. \A u \in Tools : call'[u] = "asked" => call[u] = "asked"
      BY <1>6 DEF HookAllows, TypeInv, TypeOK
    <2>4. /\ call' \in [Tools -> Phases]
          /\ winner' \in [Tools -> {"none", "host", "hook"}]
          /\ state' \in {"idle", "running", "requires_action"}
          /\ shown' \in Tools \union {NoTool}
      BY <1>6 DEF HookAllows, TypeInv, TypeOK, Finally, Notify
    <2> QED
      BY <1>6, <2>2, <2>3, <2>4 DEF TypeInv, TypeOK, HookAllows
  <1>7. CASE HookPasses(t)
    BY <1>7 DEF TypeInv, TypeOK, HookPasses
  <1>8. CASE Finish(t)
    BY <1>8 DEF TypeInv, TypeOK, Finish
  <1> QED
    BY <1>1, <1>2, <1>3, <1>4, <1>5, <1>6, <1>7, <1>8 DEF CallStep

LEMMA RespondTyped == ASSUME TypeInv, NEW t \in Tools, Respond(t) PROVE TypeInv'
  <1>1. wire' \in [Tools -> 0..MaxCopies]
    BY PromptsAssumption DEF TypeInv, TypeOK, Respond
  <1>2. CASE Settle(t)
    <2>1. Tracked(resolved')
      BY <1>2, TrackFacts DEF TypeInv, TypeOK, Tracked, Settle
    <2>2. \A u \in Tools : call'[u] = "asked" => call[u] = "asked" /\ u # t
      BY <1>2 DEF Settle, TypeInv, TypeOK
    <2>3. call' \in [Tools -> Phases]
      BY <1>2 DEF Settle, TypeInv, TypeOK
    <2> QED
      BY <1>1, <1>2, <2>1, <2>2, <2>3 DEF TypeInv, TypeOK, Respond, Settle, Tracked
  <1>3. CASE Ignore(t)
    BY <1>1, <1>3 DEF TypeInv, TypeOK, Respond, Ignore
  <1>4. CASE Enqueue(t)
    <2>1. orphans' \in Seq(Tools) /\ orphans' # <<>>
      BY <1>4 DEF TypeInv, TypeOK, Enqueue
    <2> QED
      BY <1>1, <1>4, <2>1 DEF TypeInv, TypeOK, Respond, Enqueue
  <1> QED
    BY <1>2, <1>3, <1>4 DEF Respond

LEMMA OutsideTyped ==
  ASSUME TypeInv,
         \/ Abort \/ CloseInput \/ Crash
         \/ \E t \in Tools, copies \in 1..MaxCopies : HostAnswers(t, copies)
  PROVE  TypeInv'
  <1>1. CASE Abort
    <2> DEFINE reached == {t \in Tools : call[t] = "asked"} \ deaf
    <2>1. PICK order \in Orders(reached) : resolved' = TrackAll(resolved, order)
      BY <1>1 DEF Abort
    <2>2. order \in Seq(Tools)
      BY OrderFacts
    <2>3. Tracked(resolved')
      BY <2>1, <2>2, TrackAllFacts DEF TypeInv, TypeOK, Tracked
    <2>4. /\ call' \in [Tools -> Phases]
          /\ \A t \in Tools : call'[t] = "asked" => call[t] = "asked"
      BY <1>1 DEF Abort, TypeInv, TypeOK
    <2> QED
      BY <1>1, <2>3, <2>4 DEF TypeInv, TypeOK, Abort, Tracked
  <1>2. CASE CloseInput
    BY <1>2 DEF TypeInv, TypeOK, CloseInput
  <1>3. CASE Crash
    <2>1. <<>> \in Seq(Tools) /\ Len(<<>>) = 0 /\ MaxResolved \in Nat
      BY PromptsAssumption
    <2>2. crashes' \in 0..MaxCrashes
      BY <1>3, PromptsAssumption DEF TypeInv, TypeOK, Crash
    <2>3. \A t \in Tools : call'[t] = IF call[t] \in {"asked", "settled", "running"}
                                     THEN "lost"
                                     ELSE IF call[t] = "checking" THEN "new" ELSE call[t]
      BY <1>3 DEF Crash
    <2>4. call' = [t \in Tools |-> call'[t]]
      BY <1>3 DEF Crash
    <2>5. call' \in [Tools -> Phases] /\ \A t \in Tools : call'[t] # "asked"
      <3>1. \A t \in Tools : call[t] \in Phases
        BY DEF TypeInv, TypeOK
      <3>2. \A t \in Tools : call'[t] \in Phases \ {"asked"}
        BY <2>3, <3>1
      <3> QED
        BY <2>4, <3>2
    <2> QED
      <3>1. /\ turn' = "none" /\ aborted' = FALSE /\ closed' = FALSE
            /\ deaf' = {} /\ pending' = {} /\ handled' = {} /\ hooks' = {}
            /\ state' = "idle" /\ shown' = NoTool
            /\ UNCHANGED <<granted, winner, sent, wire, results>>
        BY <1>3 DEF Crash, Notify
      <3>2. /\ resolved' \in Seq(Tools) /\ Len(resolved') <= MaxResolved
            /\ orphans' \in Seq(Tools)
        BY <1>3, <2>1 DEF Crash
      <3> QED
        BY <2>2, <2>5, <3>1, <3>2 DEF TypeInv, TypeOK
  <1>4. CASE \E t \in Tools, copies \in 1..MaxCopies : HostAnswers(t, copies)
    <2>1. PICK t \in Tools, copies \in 1..MaxCopies : HostAnswers(t, copies)
      BY <1>4
    <2>2. copies \in 0..MaxCopies
      BY PromptsAssumption
    <2> QED
      BY <2>1, <2>2 DEF TypeInv, TypeOK, HostAnswers, process
  <1> QED
    BY <1>1, <1>2, <1>3, <1>4

LEMMA NextTyped == TypeInv /\ [Next]_vars => TypeInv'
  <1> SUFFICES ASSUME TypeInv, [Next]_vars PROVE TypeInv'
    OBVIOUS
  <1>1. CASE StartTurn \/ EndTurn \/ StartOrphan \/ FinishOrphan
    BY <1>1, TurnTyped
  <1>2. ASSUME NEW t \in Tools, CallStep(t) PROVE TypeInv'
    BY <1>2, CallTyped
  <1>3. ASSUME NEW t \in Tools, Respond(t) PROVE TypeInv'
    BY <1>3, RespondTyped
  <1>4. CASE \/ Abort \/ CloseInput \/ Crash
             \/ \E t \in Tools, copies \in 1..MaxCopies : HostAnswers(t, copies)
    BY <1>4, OutsideTyped
  <1>5. CASE UNCHANGED vars
    BY <1>5 DEF TypeInv, TypeOK, vars, process
  <1> QED
    BY <1>1, <1>2, <1>3, <1>4, <1>5 DEF Next

(* The state has its types; pendingRequests knows who waits for an answer,   *)
(* and resolvedToolUseIds never outgrows its limit, also when one abort      *)
(* settles many prompts.                                                     *)
THEOREM Typing == Spec => []TypeOK
  <1>1. TypeInv => TypeOK
    BY DEF TypeInv
  <1> QED
    BY <1>1, InitTyped, NextTyped, PTL DEF Spec


-----------------------------------------------------------------------------
(* One result.  A call writes its result, or an orphan does: never both,     *)
(* because the answer of a call that has been decided is known as resolved,  *)
(* or was never asked for, or can no longer be read.                         *)

(* An answer that may still arrive finds the tool of a decided call among    *)
(* the resolved ones.                                                        *)
Unanswerable(t) == t \notin sent /\ wire[t] = 0

DecidedIsResolved ==
    \A t \in Tools : call[t] \in {"settled", "running"} /\ ~closed =>
        t \in Range(resolved) \/ Unanswerable(t)

NotAskedYet == \A t \in Tools : call[t] \in {"new", "checking"} => Unanswerable(t)

ResultsAreOfCalls ==
    \A t \in Tools :
        /\ call[t] = "finished" => results[t] = 1
        /\ call[t] \notin {"finished", "lost"} => results[t] = 0
        /\ results[t] <= 1

(* Only a call that a crash has interrupted is replayed, once. *)
OrphansAreLost ==
    /\ \A t \in Range(orphans) : call[t] = "lost" /\ results[t] = 0 /\ t \in handled
    /\ EachOnce(orphans)

OnceInv ==
    /\ DecidedIsResolved
    /\ NotAskedYet
    /\ ResultsAreOfCalls
    /\ OrphansAreLost
    /\ EachOnce(resolved)

LEMMA InitOnce == Init => OnceInv
  <1>1. Range(<<>>) = {} /\ EachOnce(<<>>)
    BY DEF Range, EachOnce
  <1> QED
    BY <1>1 DEF Init, OnceInv, DecidedIsResolved, NotAskedYet, ResultsAreOfCalls,
                OrphansAreLost, Unanswerable

(* What a step must show when it adds to the resolved tools at most. *)
LEMMA OrphansKept ==
  ASSUME TypeInv, OnceInv, UNCHANGED <<orphans, handled, results>>,
         \A t \in Tools : call[t] = "lost" => call'[t] = "lost"
  PROVE  OrphansAreLost'
  <1>1. \A t \in Range(orphans) : t \in Tools
    BY DEF TypeInv, TypeOK, Range
  <1> QED
    BY <1>1 DEF OnceInv, OrphansAreLost

LEMMA TurnOnce ==
  ASSUME TypeInv, OnceInv, StartTurn \/ EndTurn \/ StartOrphan
  PROVE  OnceInv'
  <1>1. UNCHANGED <<call, closed, resolved, handled, orphans, sent, wire, results>>
    BY DEF StartTurn, EndTurn, StartOrphan
  <1> QED
    BY <1>1 DEF OnceInv, DecidedIsResolved, NotAskedYet, ResultsAreOfCalls,
                OrphansAreLost, Unanswerable

(* The result of an orphan is the first one of its tool. *)
LEMMA OrphanOnce == ASSUME TypeInv, OnceInv, FinishOrphan PROVE OnceInv'
  <1> DEFINE t == Head(orphans)
  <1>1. orphans \in Seq(Tools) /\ orphans # <<>>
    BY DEF TypeInv, TypeOK, FinishOrphan
  <1>2. /\ t \in Range(orphans) /\ Range(Tail(orphans)) \subseteq Range(orphans)
        /\ EachOnce(Tail(orphans)) /\ t \notin Range(Tail(orphans))
    BY <1>1, TailFacts DEF OnceInv, OrphansAreLost
  <1>3. t \in Tools
    BY <1>1
  <1>4. call[t] = "lost" /\ results[t] = 0
    BY <1>2 DEF OnceInv, OrphansAreLost
  <1>5. UNCHANGED <<call, closed, resolved, handled, sent, wire>>
    BY DEF FinishOrphan
  <1>6. /\ orphans' = Tail(orphans)
        /\ results' = [results EXCEPT ![t] = results[t] + 1] \/ results' = results
    BY DEF FinishOrphan
  <1>7. results \in [Tools -> Nat]
    BY DEF TypeInv, TypeOK
  <1> HIDE DEF t
  <1>8. results'[t] \in {0, 1} /\ \A u \in Tools \ {t} : results'[u] = results[u]
    BY <1>3, <1>4, <1>6, <1>7
  <1>9. ResultsAreOfCalls'
    BY <1>4, <1>5, <1>8 DEF OnceInv, ResultsAreOfCalls
  <1>10. OrphansAreLost'
    <2>1. \A u \in Range(orphans) : u \in Tools
      BY <1>1 DEF Range
    <2>2. ASSUME NEW u \in Range(orphans)', TRUE
          PROVE  call'[u] = "lost" /\ results'[u] = 0 /\ u \in handled'
      <3>1. u \in Range(orphans) /\ u # t
        BY <1>2, <1>6
      <3> QED
        BY <1>5, <1>8, <2>1, <3>1 DEF OnceInv, OrphansAreLost
    <2> QED
      BY <1>2, <1>6, <2>2 DEF OrphansAreLost
  <1> QED
    BY <1>5, <1>9, <1>10 DEF OnceInv, DecidedIsResolved, NotAskedYet, Unanswerable

(* A call is made, decided by the rules, or opens a prompt. *)
LEMMA CheckOnce ==
  ASSUME TypeInv, OnceInv, NEW t \in Tools, Check(t) \/ DecideByRule(t) \/ Ask(t)
  PROVE  OnceInv'
  <1>1. /\ UNCHANGED <<closed, resolved, handled, orphans, wire, results>>
        /\ call[t] \in {"new", "checking"}
        /\ \A u \in Tools \ {t} : call'[u] = call[u] /\ (u \in sent' <=> u \in sent)
        /\ call'[t] \in {"checking", "asked", "settled", "running"}
        /\ call'[t] # "asked" => sent' = sent
        /\ call'[t] = "settled" => closed
    BY DEF Check, DecideByRule, Ask, TypeInv, TypeOK
  <1>2. OrphansAreLost'
    BY <1>1, OrphansKept
  <1> QED
    BY <1>1, <1>2 DEF OnceInv, DecidedIsResolved, NotAskedYet, ResultsAreOfCalls,
                      Unanswerable

LEMMA ResumeOnce ==
  ASSUME TypeInv, OnceInv, NEW t \in Tools,
         Forget(t) \/ Resume(t) \/ HookPasses(t)
  PROVE  OnceInv'
  <1>1. /\ UNCHANGED <<closed, resolved, handled, orphans, sent, wire, results>>
        /\ \A u \in Tools \ {t} : call'[u] = call[u]
        /\ call'[t] = call[t] \/ (call[t] = "settled" /\ call'[t] = "running")
    BY DEF Forget, Resume, HookPasses, TypeInv, TypeOK
  <1>2. OrphansAreLost'
    BY <1>1, OrphansKept
  <1> QED
    BY <1>1, <1>2 DEF OnceInv, DecidedIsResolved, NotAskedYet, ResultsAreOfCalls,
                      Unanswerable

(* The result of a call is the first one of its tool. *)
LEMMA FinishOnce == ASSUME TypeInv, OnceInv, NEW t \in Tools, Finish(t) PROVE OnceInv'
  <1>1. /\ UNCHANGED <<closed, resolved, handled, orphans, sent, wire>>
        /\ \A u \in Tools \ {t} : call'[u] = call[u] /\ results'[u] = results[u]
        /\ call[t] = "running" /\ call'[t] = "finished"
        /\ results'[t] = results[t] + 1
    BY DEF Finish, TypeInv, TypeOK
  <1>2. results[t] = 0
    BY <1>1 DEF OnceInv, ResultsAreOfCalls
  <1>3. ResultsAreOfCalls'
    BY <1>1, <1>2 DEF OnceInv, ResultsAreOfCalls
  <1>4. OrphansAreLost'
    <2>1. \A u \in Range(orphans) : u \in Tools \ {t}
      BY <1>1 DEF TypeInv, TypeOK, OnceInv, OrphansAreLost, Range
    <2> QED
      BY <1>1, <2>1 DEF OnceInv, OrphansAreLost
  <1> QED
    BY <1>1, <1>3, <1>4 DEF OnceInv, DecidedIsResolved, NotAskedYet, Unanswerable

(* The hook decides: a request that was pending becomes a resolved one. *)
LEMMA HookOnce ==
  ASSUME Roomy, TypeInv, OnceInv, IInv, NEW t \in Tools, HookAllows(t)
  PROVE  OnceInv'
  <1>1. UNCHANGED <<closed, handled, orphans, sent, wire, results>>
    BY DEF HookAllows
  <1>2. CASE call[t] \in {"asked", "settled"}
    <2>1. /\ call'[t] = "running" /\ \A u \in Tools \ {t} : call'[u] = call[u]
          /\ resolved' = IF t \in pending THEN Track(resolved, t) ELSE resolved
      BY <1>2 DEF HookAllows, TypeInv, TypeOK
    <2>2. OrphansAreLost'
      BY <1>1, <1>2, <2>1, OrphansKept
    <2>3. /\ EachOnce(resolved')
          /\ Range(resolved) \subseteq Range(resolved')
          /\ t \in pending => t \in Range(resolved')
      <3>1. Tracked(resolved) /\ EachOnce(resolved)
        BY DEF TypeInv, TypeOK, Tracked, OnceInv
      <3>2. /\ EachOnce(Track(resolved, t))
            /\ Range(Track(resolved, t)) = Range(resolved) \cup {t}
        BY <3>1, TrackFacts
      <3> QED
        BY <2>1, <3>1, <3>2
    <2>4. t \in pending \/ call[t] = "settled"
      BY <1>2 DEF IInv
    <2>5. DecidedIsResolved'
      BY <1>1, <2>1, <2>3, <2>4 DEF OnceInv, DecidedIsResolved, Unanswerable
    <2> QED
      BY <1>1, <1>2, <2>1, <2>2, <2>3, <2>5
      DEF OnceInv, NotAskedYet, ResultsAreOfCalls, Unanswerable
  <1>3. CASE call[t] \notin {"asked", "settled"}
    <2>1. UNCHANGED <<call, resolved>>
      BY <1>3 DEF HookAllows
    <2> QED
      BY <1>1, <2>1 DEF OnceInv, DecidedIsResolved, NotAskedYet, ResultsAreOfCalls,
                        OrphansAreLost, Unanswerable
  <1> QED
    BY <1>2, <1>3

(* An answer arrives: who is settled by it is tracked as resolved, and a     *)
(* tool that is replayed is one of an earlier life of the process.           *)
LEMMA RespondOnce ==
  ASSUME Roomy, TypeInv, OnceInv, IInv, NEW t \in Tools, Respond(t)
  PROVE  OnceInv'
  <1>1. /\ UNCHANGED <<closed, sent, results>> /\ ~closed /\ wire[t] > 0
        /\ \A u \in Tools \ {t} : wire'[u] = wire[u]
        /\ \A u \in Tools : wire[u] = 0 => u # t
    BY DEF Respond, TypeInv, TypeOK
  <1>2. call[t] \notin {"new", "checking"}
    BY <1>1 DEF OnceInv, NotAskedYet, Unanswerable
  <1>3. CASE Settle(t)
    <2>1. /\ UNCHANGED <<handled, orphans>> /\ t \in pending
          /\ resolved' = Track(resolved, t)
          /\ call'[t] = IF call[t] = "asked" THEN "settled" ELSE call[t]
          /\ \A u \in Tools \ {t} : call'[u] = call[u]
      BY <1>3 DEF Settle, TypeInv, TypeOK
    <2>2. EachOnce(resolved') /\ Range(resolved') = Range(resolved) \cup {t}
      <3>1. Tracked(resolved) /\ EachOnce(resolved)
        BY DEF TypeInv, TypeOK, Tracked, OnceInv
      <3> QED
        BY <2>1, <3>1, TrackFacts
    <2>3. OrphansAreLost'
      BY <1>1, <2>1, OrphansKept
    <2>4. DecidedIsResolved'
      BY <1>1, <2>1, <2>2 DEF OnceInv, DecidedIsResolved, Unanswerable
    <2> QED
      BY <1>1, <1>2, <2>1, <2>2, <2>3, <2>4
      DEF OnceInv, NotAskedYet, ResultsAreOfCalls, Unanswerable
  <1>4. CASE Ignore(t)
    <2>1. UNCHANGED <<resolved, call, handled, orphans>>
      BY <1>4 DEF Ignore
    <2> QED
      BY <1>1, <1>2, <2>1 DEF OnceInv, DecidedIsResolved, NotAskedYet, ResultsAreOfCalls,
                              OrphansAreLost, Unanswerable
  <1>5. CASE Enqueue(t)
    <2>1. /\ UNCHANGED <<resolved, call>> /\ t \notin pending /\ t \notin Range(resolved)
          /\ t \notin handled /\ results[t] = 0
          /\ handled' = handled \union {t} /\ orphans' = Append(orphans, t)
      BY <1>5 DEF Enqueue, Unresolved
    <2>2. call[t] = "lost"
      <3>1. call[t] \notin {"settled", "running"}
        BY <1>1, <2>1 DEF OnceInv, DecidedIsResolved, Unanswerable
      <3>2. call[t] # "asked" /\ call[t] \in Phases
        BY <2>1 DEF IInv
      <3>3. call[t] # "finished"
        BY <2>1 DEF OnceInv, ResultsAreOfCalls
      <3> QED
        BY <1>2, <3>1, <3>2, <3>3
    <2>3. t \notin Range(orphans)
      BY <2>1 DEF OnceInv, OrphansAreLost
    <2>4. Range(orphans') = Range(orphans) \cup {t} /\ EachOnce(orphans')
      <3>1. orphans \in Seq(Tools) /\ EachOnce(orphans)
        BY DEF TypeInv, TypeOK, OnceInv, OrphansAreLost
      <3> QED
        BY <2>1, <2>3, <3>1, AppendFacts
    <2>5. OrphansAreLost'
      BY <1>1, <2>1, <2>2, <2>4 DEF OnceInv, OrphansAreLost
    <2> QED
      BY <1>1, <1>2, <2>1, <2>5
      DEF OnceInv, DecidedIsResolved, NotAskedYet, ResultsAreOfCalls, Unanswerable
  <1> QED
    BY <1>3, <1>4, <1>5 DEF Respond

(* An abort tracks each prompt that it settles. *)
LEMMA AbortOnce == ASSUME Roomy, TypeInv, OnceInv, Abort PROVE OnceInv'
  <1> DEFINE reached == {t \in Tools : call[t] = "asked"} \ deaf
  <1>1. PICK order \in Orders(reached) : resolved' = TrackAll(resolved, order)
    BY DEF Abort
  <1>2. /\ UNCHANGED <<closed, handled, orphans, sent, wire, results>>
        /\ \A t \in Tools : call'[t] = IF t \in reached THEN "settled" ELSE call[t]
    BY DEF Abort
  <1>3. order \in Seq(Tools) /\ Range(order) = reached
    BY OrderFacts
  <1>4. \A t \in reached : call[t] = "asked"
    OBVIOUS
  <1> HIDE DEF reached
  <1>5. Tracked(resolved) /\ EachOnce(resolved)
    BY DEF TypeInv, TypeOK, Tracked, OnceInv
  <1>6. EachOnce(resolved') /\ Range(resolved') = Range(resolved) \cup reached
    BY <1>1, <1>3, <1>5, TrackAllFacts
  <1>7. OrphansAreLost'
    BY <1>2, <1>4, OrphansKept
  <1>8. DecidedIsResolved'
    BY <1>2, <1>6 DEF OnceInv, DecidedIsResolved, Unanswerable
  <1> QED
    BY <1>2, <1>4, <1>6, <1>7, <1>8
    DEF OnceInv, NotAskedYet, ResultsAreOfCalls, Unanswerable

(* A closed input brings no answer; the next life knows no request. *)
LEMMA EndOnce == ASSUME TypeInv, OnceInv, CloseInput \/ Crash PROVE OnceInv'
  <1>1. CASE CloseInput
    <2>1. /\ UNCHANGED <<resolved, handled, orphans, sent, wire, results>> /\ closed'
          /\ \A t \in Tools : \/ call'[t] = call[t]
                              \/ call[t] = "asked" /\ call'[t] = "settled"
      BY <1>1 DEF CloseInput
    <2>2. OrphansAreLost'
      BY <2>1, OrphansKept
    <2> QED
      BY <2>1, <2>2 DEF OnceInv, DecidedIsResolved, NotAskedYet, ResultsAreOfCalls,
                        Unanswerable
  <1>2. CASE Crash
    <2>1. /\ UNCHANGED <<sent, wire, results>>
          /\ resolved' = <<>> /\ orphans' = <<>>
      BY <1>2 DEF Crash
    <2>2. \A t \in Tools : call'[t] = IF call[t] \in {"asked", "settled", "running"}
                                      THEN "lost"
                                      ELSE IF call[t] = "checking" THEN "new" ELSE call[t]
      BY <1>2 DEF Crash
    <2>3. EachOnce(resolved') /\ OrphansAreLost'
      BY <2>1 DEF EachOnce, OrphansAreLost, Range
    <2>4. DecidedIsResolved' /\ NotAskedYet'
      BY <2>1, <2>2 DEF OnceInv, DecidedIsResolved, NotAskedYet, Unanswerable
    <2>5. ResultsAreOfCalls'
      BY <2>1, <2>2 DEF OnceInv, ResultsAreOfCalls
    <2> QED
      BY <2>3, <2>4, <2>5 DEF OnceInv
  <1> QED
    BY <1>1, <1>2

LEMMA AnswerOnce ==
  ASSUME TypeInv, OnceInv, NEW t \in Tools, NEW copies \in 1..MaxCopies,
         HostAnswers(t, copies)
  PROVE  OnceInv'
  <1>1. /\ UNCHANGED <<call, closed, resolved, handled, orphans, results>>
        /\ t \in sent /\ sent' = sent \ {t}
        /\ \A u \in Tools \ {t} : wire'[u] = wire[u]
    BY DEF HostAnswers, process, TypeInv, TypeOK
  <1> QED
    BY <1>1 DEF OnceInv, DecidedIsResolved, NotAskedYet, ResultsAreOfCalls,
                OrphansAreLost, Unanswerable

LEMMA NextOnce == Roomy /\ TypeInv /\ IInv /\ OnceInv /\ [Next]_vars => OnceInv'
  <1> SUFFICES ASSUME Roomy, TypeInv, IInv, OnceInv, [Next]_vars PROVE OnceInv'
    OBVIOUS
  <1>1. CASE StartTurn \/ EndTurn \/ StartOrphan
    BY <1>1, TurnOnce
  <1>2. CASE FinishOrphan
    BY <1>2, OrphanOnce
  <1>3. ASSUME NEW t \in Tools, CallStep(t) PROVE OnceInv'
    BY <1>3, CheckOnce, ResumeOnce, HookOnce, FinishOnce DEF CallStep
  <1>4. ASSUME NEW t \in Tools, Respond(t) PROVE OnceInv'
    BY <1>4, RespondOnce
  <1>5. ASSUME NEW t \in Tools, NEW copies \in 1..MaxCopies, HostAnswers(t, copies)
        PROVE  OnceInv'
    BY <1>5, AnswerOnce
  <1>6. CASE Abort
    BY <1>6, AbortOnce
  <1>7. CASE CloseInput \/ Crash
    BY <1>7, EndOnce
  <1>8. CASE UNCHANGED vars
    BY <1>8 DEF vars, process, OnceInv, DecidedIsResolved, NotAskedYet,
                ResultsAreOfCalls, OrphansAreLost, Unanswerable
  <1> QED
    BY <1>1, <1>2, <1>3, <1>4, <1>5, <1>6, <1>7, <1>8 DEF Next

(* A tool use gets one result, however often and late it is answered and     *)
(* however often the process dies, as long as no resolved id is evicted:     *)
(* the tools are no more than MAX_RESOLVED_TOOL_USE_IDS.                     *)
THEOREM DecidedOnce ==
  ASSUME Cardinality(Tools) <= MaxResolved
  PROVE  Spec => []OneResult
  <1>1. Roomy
    BY DEF Roomy
  <1>2. OnceInv => OneResult
    BY DEF OnceInv, ResultsAreOfCalls, OneResult
  <1>3. Init => OnceInv
    BY InitOnce
  <1>4. TypeInv /\ IInv /\ OnceInv /\ [Next]_vars => OnceInv'
    BY <1>1, NextOnce
  <1>5. Spec => [](TypeInv /\ IInv)
    BY InitTyped, NextTyped, InitInv, NextInv, PTL DEF Spec
  <1> QED
    BY <1>2, <1>3, <1>4, <1>5, PTL DEF Spec
=============================================================================
