--------------------------- MODULE TurnGateProofs ---------------------------
(***************************************************************************)
(* Theorems about TurnGate for every number of commands and cancellations, *)
(* every kind of command and every outcome of processing: its state is     *)
(* typed (Typing), the guard is held by somebody who releases it (Guard),  *)
(* until the user cancels there is one chain (OneChain), and no command is *)
(* lost (NoCommandLost).                                                   *)
(***************************************************************************)
EXTENDS TurnGate, FiniteSetTheorems, TLAPS

------------------------------------------------------------------------------
(* Induction over the naturals, for a set in place of a predicate.  It     *)
(* follows from the well-foundedness of the intervals 0..n under inclusion *)
LEMMA SetInduction ==
  ASSUME NEW T, 0 \in T, \A n \in Nat : n \in T => n + 1 \in T
  PROVE  Nat \subseteq T
PROOF
  <1> DEFINE Missing == {0..n : n \in Nat \ T}
             Less == StrictSubsetOrdering(Nat)
             Finite == FiniteSubsetsOf(Nat)
  <1>1. IsWellFoundedOn(Less, Finite)
    BY FS_StrictSubsetOrderingWellFounded
  <1>2. Missing \subseteq Finite
    <2>1. \A n \in Nat : 0..n \subseteq Nat /\ IsFiniteSet(0..n)
      BY FS_Interval
    <2> QED
      BY <2>1 DEF FiniteSubsetsOf
  <1>3. ASSUME Missing # {}
        PROVE  FALSE
    <2> HIDE DEF Missing, Less, Finite
    <2>1. PICK x \in Missing : \A y \in Missing : ~ (<<y, x>> \in Less)
      BY <1>1, <1>2, <1>3, WFMin
    <2>2. PICK n \in Nat \ T : x = 0..n
      BY DEF Missing
    <2>3. n # 0 /\ n - 1 \in Nat /\ n = (n - 1) + 1
      BY <2>2
    <2>4. n - 1 \in Nat \ T
      BY <2>3, <2>2
    <2>5. 0..(n - 1) \in Missing
      BY <2>4 DEF Missing
    <2>6. /\ 0..(n - 1) \subseteq 0..n /\ 0..n \subseteq Nat
          /\ n \notin 0..(n - 1) /\ n \in 0..n
      BY <2>3
    <2>7. <<0..(n - 1), 0..n>> \in Less
      BY <2>6 DEF Less, StrictSubsetOrdering
    <2> QED
      BY <2>1, <2>2, <2>5, <2>7
  <1>4. SUFFICES ASSUME NEW n \in Nat, n \notin T
                 PROVE  FALSE
    OBVIOUS
  <1>5. 0..n \in Missing
    BY <1>4
  <1> QED
    BY <1>3, <1>5

(* The recursion of Kept(s, S), up to position m.                          *)
Filters(G, s, S, m) ==
  G = [n \in 0..m |-> IF n = 0 THEN <<>>
                      ELSE IF s[n] \in S THEN Append(G[n - 1], s[n]) ELSE G[n - 1]]

(* It defines a function.                                                  *)
LEMMA FiltersExists ==
  ASSUME NEW s, NEW S, NEW L \in Nat
  PROVE  \E G : Filters(G, s, S, L)
PROOF
  <1> DEFINE T == {m \in Nat : \E G : Filters(G, s, S, m)}
  <1>1. 0 \in T
    <2>1. Filters([n \in 0..0 |-> <<>>], s, S, 0)
      BY DEF Filters
    <2> QED
      BY <2>1
  <1>2. ASSUME NEW m \in Nat, m \in T
        PROVE  m + 1 \in T
    <2>1. PICK G : Filters(G, s, S, m)
      BY <1>2
    <2> DEFINE x == IF s[m + 1] \in S THEN Append(G[m], s[m + 1]) ELSE G[m]
               H == [n \in 0..(m + 1) |-> IF n = m + 1 THEN x ELSE G[n]]
    <2>2. \A n \in 0..m : H[n] = G[n]
      OBVIOUS
    <2>3. \A n \in 0..m : G[n] = IF n = 0 THEN <<>>
              ELSE IF s[n] \in S THEN Append(G[n - 1], s[n]) ELSE G[n - 1]
      <3> HIDE DEF H, x
      <3> QED
        BY <2>1 DEF Filters
    <2>4. \A n \in 0..(m + 1) : H[n] = IF n = 0 THEN <<>>
              ELSE IF s[n] \in S THEN Append(H[n - 1], s[n]) ELSE H[n - 1]
      <3> SUFFICES ASSUME NEW n \in 0..(m + 1)
                   PROVE  H[n] = IF n = 0 THEN <<>>
              ELSE IF s[n] \in S THEN Append(H[n - 1], s[n]) ELSE H[n - 1]
        OBVIOUS
      <3>1. CASE n = m + 1
        <4>1. H[n] = x /\ n - 1 = m /\ m \in 0..m /\ n # 0
          BY <3>1
        <4>2. H[n - 1] = G[m]
          BY <4>1, <2>2
        <4> HIDE DEF H
        <4> QED
          BY <3>1, <4>1, <4>2
      <3>2. CASE n \in 0..m
        <4>1. n # 0 => n - 1 \in 0..m
          BY <3>2
        <4>2. H[n] = G[n] /\ (n # 0 => H[n - 1] = G[n - 1])
          BY <2>2, <3>2, <4>1
        <4> HIDE DEF H
        <4> QED
          BY <2>3, <3>2, <4>2
      <3> QED
        BY <3>1, <3>2
    <2>5. Filters(H, s, S, m + 1)
      <3>1. H = [n \in 0..(m + 1) |-> H[n]]
        OBVIOUS
      <3> HIDE DEF H
      <3> QED
        BY <2>4, <3>1 DEF Filters
    <2> QED
      BY <2>5
  <1>3. Nat \subseteq T
    <2> HIDE DEF T
    <2> QED
      BY <1>1, <1>2, SetInduction
  <1> QED
    BY <1>3

(* What the sequence operators do to the set of elements.                  *)
LEMMA RangeAppend ==
  ASSUME NEW X, NEW s \in Seq(X), NEW x \in X
  PROVE  /\ Append(s, x) \in Seq(X)
         /\ Range(Append(s, x)) = Range(s) \cup {x}
PROOF
  <1> DEFINE t == Append(s, x)
  <1>1. t \in Seq(X) /\ Len(t) = Len(s) + 1 /\ Len(s) \in Nat
    OBVIOUS
  <1>2. DOMAIN t = 1..(Len(s) + 1) /\ DOMAIN s = 1..Len(s)
    BY <1>1
  <1>3. \A i \in 1..Len(s) : t[i] = s[i]
    OBVIOUS
  <1>4. t[Len(s) + 1] = x
    OBVIOUS
  <1>5. 1..(Len(s) + 1) = 1..Len(s) \cup {Len(s) + 1}
    BY <1>1
  <1> HIDE DEF t
  <1> QED
    BY <1>1, <1>2, <1>3, <1>4, <1>5 DEF Range, t

LEMMA RangeConcat ==
  ASSUME NEW X, NEW s \in Seq(X), NEW t \in Seq(X)
  PROVE  /\ s \o t \in Seq(X)
         /\ Range(s \o t) = Range(s) \cup Range(t)
PROOF
  <1> DEFINE u == s \o t
  <1>1. u \in Seq(X) /\ Len(s) \in Nat /\ Len(t) \in Nat
    OBVIOUS
  <1>2. /\ DOMAIN u = 1..(Len(s) + Len(t))
        /\ DOMAIN s = 1..Len(s) /\ DOMAIN t = 1..Len(t)
    OBVIOUS
  <1>3. \A i \in 1..Len(s) : i \in DOMAIN u /\ u[i] = s[i]
    OBVIOUS
  <1>4. \A i \in 1..Len(t) : Len(s) + i \in DOMAIN u /\ u[Len(s) + i] = t[i]
    OBVIOUS
  <1>5. \A i \in DOMAIN u :
          i \in 1..Len(s) \/ \E j \in 1..Len(t) : i = Len(s) + j
    <2> SUFFICES ASSUME NEW i \in DOMAIN u, i \notin 1..Len(s)
                 PROVE  \E j \in 1..Len(t) : i = Len(s) + j
      OBVIOUS
    <2>1. i - Len(s) \in 1..Len(t) /\ i = Len(s) + (i - Len(s))
      BY <1>1, <1>2
    <2> QED
      BY <2>1
  <1> HIDE DEF u
  <1>6. Range(u) \subseteq Range(s) \cup Range(t)
    <2> SUFFICES ASSUME NEW i \in DOMAIN u
                 PROVE  u[i] \in Range(s) \cup Range(t)
      BY DEF Range
    <2>1. CASE i \in 1..Len(s)
      BY <1>2, <1>3, <2>1 DEF Range
    <2>2. ASSUME NEW j \in 1..Len(t), i = Len(s) + j
          PROVE  u[i] \in Range(t)
      BY <1>2, <1>4, <2>2 DEF Range
    <2> QED
      BY <1>5, <2>1, <2>2
  <1>7. Range(s) \cup Range(t) \subseteq Range(u)
    BY <1>2, <1>3, <1>4 DEF Range
  <1> QED
    BY <1>1, <1>6, <1>7 DEF u

(* Kept(s, S) holds the elements of s that are in S.                       *)
LEMMA KeptFacts ==
  ASSUME NEW X, NEW s \in Seq(X), NEW S
  PROVE  /\ Kept(s, S) \in Seq(X)
         /\ Range(Kept(s, S)) = Range(s) \cap S
PROOF
  <1> DEFINE L == Len(s)
             F == CHOOSE G : Filters(G, s, S, L)
             From(n) == {s[i] : i \in 1..n} \cap S
             T == {n \in Nat : n <= L => F[n] \in Seq(X) /\ Range(F[n]) = From(n)}
  <1>1. L \in Nat /\ Filters(F, s, S, L)
    BY FiltersExists
  <1>2. \A n \in 0..L : F[n] = IF n = 0 THEN <<>>
            ELSE IF s[n] \in S THEN Append(F[n - 1], s[n]) ELSE F[n - 1]
    <2> HIDE DEF F, L
    <2> QED
      BY <1>1 DEF Filters
  <1>3. 0 \in T
    <2>1. F[0] = <<>>
      BY <1>1, <1>2
    <2>2. <<>> \in Seq(X) /\ Range(<<>>) = {}
      BY DEF Range
    <2>3. From(0) = {}
      OBVIOUS
    <2> HIDE DEF F, From
    <2> QED
      BY <2>1, <2>2, <2>3
  <1>4. ASSUME NEW n \in Nat, n \in T
        PROVE  n + 1 \in T
    <2> SUFFICES ASSUME n + 1 <= L
                 PROVE  F[n + 1] \in Seq(X) /\ Range(F[n + 1]) = From(n + 1)
      <3> HIDE DEF F, L, From
      <3> QED
        OBVIOUS
    <2>1. F[n] \in Seq(X) /\ Range(F[n]) = From(n)
      <3> HIDE DEF F, L, From
      <3> QED
        BY <1>1, <1>4
    <2>2. n + 1 \in 1..L /\ s[n + 1] \in X
      BY <1>1
    <2>3. F[n + 1] = IF s[n + 1] \in S THEN Append(F[n], s[n + 1]) ELSE F[n]
      <3>1. n + 1 \in 0..L /\ n + 1 # 0 /\ (n + 1) - 1 = n
        BY <2>2, <1>1
      <3> HIDE DEF F, L
      <3> QED
        BY <1>2, <3>1
    <2>4. From(n + 1) = From(n) \cup ({s[n + 1]} \cap S)
      OBVIOUS
    <2> HIDE DEF F, From, L, T
    <2>5. CASE s[n + 1] \in S
      <3>1. F[n + 1] = Append(F[n], s[n + 1])
        BY <2>3, <2>5
      <3>2. /\ Append(F[n], s[n + 1]) \in Seq(X)
            /\ Range(Append(F[n], s[n + 1])) = Range(F[n]) \cup {s[n + 1]}
        BY <2>1, <2>2, RangeAppend
      <3> QED
        BY <2>1, <2>4, <2>5, <3>1, <3>2
    <2>6. CASE s[n + 1] \notin S
      BY <2>1, <2>3, <2>4, <2>6
    <2> QED
      BY <2>5, <2>6
  <1>5. L \in T
    <2> HIDE DEF T
    <2> QED
      BY <1>1, <1>3, <1>4, SetInduction
  <1>6. F[L] \in Seq(X) /\ Range(F[L]) = From(L)
    <2> HIDE DEF F, L, From
    <2> QED
      BY <1>1, <1>5
  <1>7. From(L) = Range(s) \cap S
    BY DEF Range
  <1>8. Kept(s, S) = F[L]
    BY DEF Kept, Filters
  <1> QED
    BY <1>6, <1>7, <1>8

LEMMA WithoutFacts ==
  ASSUME NEW X, NEW s \in Seq(X), NEW S
  PROVE  /\ Without(s, S) \in Seq(X)
         /\ Range(Without(s, S)) = Range(s) \ S
PROOF
  <1> QED
    BY KeptFacts DEF Without

LEMMA RangeSingleton ==
  ASSUME NEW X, NEW x \in X
  PROVE  <<x>> \in Seq(X) /\ Range(<<x>>) = {x}
PROOF
  <1>1. DOMAIN <<x>> = {1} /\ <<x>>[1] = x
    OBVIOUS
  <1> QED
    BY <1>1 DEF Range

LEMMA RangePut ==
  ASSUME NEW X, NEW s \in Seq(X), NEW x \in X
  PROVE  s \o <<x>> \in Seq(X) /\ Range(s \o <<x>>) = Range(s) \cup {x}
PROOF
  <1> DEFINE t == <<x>>
  <1>1. t \in Seq(X) /\ Range(t) = {x}
    BY RangeSingleton
  <1> HIDE DEF t
  <1>2. s \o t \in Seq(X) /\ Range(s \o t) = Range(s) \cup {x}
    BY <1>1, RangeConcat
  <1> QED
    BY <1>2 DEF t

(* The first element is one of them.                                       *)
LEMMA FirstInRange ==
  ASSUME NEW X, NEW s \in Seq(X), s # <<>>
  PROVE  s[1] \in Range(s)
PROOF
  <1>1. 1 \in DOMAIN s
    OBVIOUS
  <1> QED
    BY <1>1 DEF Range

LEMMA EmptyRange ==
  ASSUME NEW X, NEW s \in Seq(X)
  PROVE  s = <<>> <=> Range(s) = {}
PROOF
  <1>1. s # <<>> => s[1] \in Range(s)
    BY FirstInRange
  <1>2. Range(<<>>) = {}
    BY DEF Range
  <1> QED
    BY <1>1, <1>2

------------------------------------------------------------------------------
(* Types.  The history holds commands that were handed in, so the types    *)
(* need that every command that is queued or worked on was handed in.      *)
ChainType == [pc: {"none", "input", "query"}, entries: Seq(Entry),
              generation: Nat, direct: BOOLEAN, drain: SUBSET Entry]

CmdsIn(S) == {e.cmd : e \in S}

(* What a record of chain c is like when n commands were handed in.        *)
Sound(c, r, n) ==
  /\ r \in ChainType
  /\ r.pc = "none" <=> r.entries = <<>>
  /\ r.drain # {} => r.pc = "query"
  /\ BatchIsUniform(r.entries)
  /\ Cmds(r.entries) \subseteq 1..n /\ CmdsIn(r.drain) \subseteq 1..n
  /\ r.pc # "none" => c \in Cmds(r.entries)

TypeInv ==
  /\ TypeOK
  /\ Cmds(queue) \subseteq 1..handedIn
  /\ \A c \in Commands : Sound(c, chain[c], handedIn)

LEMMA CmdsAre == \A s : Cmds(s) = CmdsIn(Range(s))
  BY DEF Cmds, CmdsIn

LEMMA NoChainSound ==
  ASSUME NEW c, NEW n \in Nat
  PROVE  Sound(c, NoChain, n)
PROOF
  <1>1. Range(<<>>) = {} /\ Len(<<>>) = 0 /\ <<>> \in Seq(Entry)
    BY DEF Range
  <1>2. NoChain \in ChainType
    BY DEF NoChain, ChainType
  <1>3. /\ NoChain.pc = "none" /\ NoChain.entries = <<>> /\ NoChain.drain = {}
    BY DEF NoChain
  <1> HIDE DEF NoChain
  <1> QED
    BY <1>1, <1>2, <1>3 DEF Sound, BatchIsUniform, Cmds, CmdsIn

LEMMA SoundLater ==
  ASSUME NEW c, NEW r, NEW n \in Nat, NEW m \in Nat, n <= m, Sound(c, r, n)
  PROVE  Sound(c, r, m)
PROOF
  <1>1. 1..n \subseteq 1..m
    OBVIOUS
  <1> QED
    BY <1>1 DEF Sound

(* One chain is replaced.                                                  *)
LEMMA ChainsTyped ==
  ASSUME NEW ch \in [Commands -> ChainType], NEW c \in Commands, NEW r,
         NEW n \in Nat, NEW m \in Nat, n <= m,
         \A d \in Commands : Sound(d, ch[d], n), Sound(c, r, m)
  PROVE  /\ [ch EXCEPT ![c] = r] \in [Commands -> ChainType]
         /\ \A d \in Commands : Sound(d, [ch EXCEPT ![c] = r][d], m)
PROOF
  <1>1. r \in ChainType
    BY DEF Sound
  <1>2. \A d \in Commands : Sound(d, ch[d], m)
    BY SoundLater
  <1> QED
    BY <1>1, <1>2

(* A command handed in becomes a queued command.                           *)
LEMMA NewEntry ==
  ASSUME TypeOK, NEW k \in Kind, handedIn < MaxCommands
  PROVE  /\ [cmd |-> handedIn + 1, kind |-> k, copy |-> FALSE] \in Entry
         /\ handedIn + 1 \in Commands /\ handedIn \in Nat
         /\ handedIn + 1 \in 0..MaxCommands
         /\ handedIn + 1 \in 1..(handedIn + 1)
         /\ 1..handedIn \subseteq 1..(handedIn + 1)
PROOF
  <1>1. handedIn \in Nat /\ handedIn + 1 \in 1..MaxCommands /\ MaxCommands \in Nat
    BY ConstantsAssumption DEF TypeOK
  <1>2. /\ handedIn + 1 \in 1..(handedIn + 1)
        /\ 1..handedIn \subseteq 1..(handedIn + 1)
        /\ handedIn + 1 \in 0..MaxCommands
    BY <1>1
  <1> QED
    BY <1>1, <1>2 DEF Entry, Commands

LEMMA KindsAre == \A k \in Typed \cup Posted \cup Incomings \cup {FollowUp} : k \in Kind
PROOF
  <1>1. FollowUp \in Kind
    BY DEF Kind, FollowUp
  <1> QED
    BY <1>1, ConstantsAssumption

LEMMA SetQueueTyped ==
  ASSUME TypeOK, NEW q \in Seq(Entry), SetQueue(q)
  PROVE  /\ queue' = q /\ queue' \in Seq(Entry)
         /\ rendered' \in [active: BOOLEAN, queue: BOOLEAN, jsx: BOOLEAN]
PROOF
  <1> QED
    BY DEF TypeOK, SetQueue

(* The end of a chain leaves q in the queue, and perhaps a new command.    *)
LEMMA LeaveFacts ==
  ASSUME TypeOK, NEW c, NEW q \in Seq(Entry), Leave(c, q)
  PROVE  /\ queue' \in Seq(Entry)
         /\ rendered' \in [active: BOOLEAN, queue: BOOLEAN, jsx: BOOLEAN]
         /\ \/ handedIn' = handedIn /\ Range(queue') = Range(q)
            \/ /\ handedIn < MaxCommands /\ handedIn' = handedIn + 1
               /\ \E e \in Entry : /\ e.cmd = handedIn + 1
                                   /\ Range(queue') = Range(q) \cup {e}
PROOF
  <1>1. CASE SetQueue(q) /\ UNCHANGED handedIn
    BY <1>1, SetQueueTyped
  <1>2. CASE /\ HandIn
             /\ SetQueue(Append(q, [cmd |-> handedIn + 1, kind |-> FollowUp, copy |-> FALSE]))
    <2> DEFINE e == [cmd |-> handedIn + 1, kind |-> FollowUp, copy |-> FALSE]
    <2>1. handedIn < MaxCommands /\ handedIn' = handedIn + 1
      BY <1>2 DEF HandIn
    <2>2. e \in Entry /\ e.cmd = handedIn + 1
      BY <2>1, NewEntry, KindsAre
    <2> HIDE DEF e
    <2>3. Append(q, e) \in Seq(Entry) /\ Range(Append(q, e)) = Range(q) \cup {e}
      BY <2>2, RangeAppend
    <2>4. SetQueue(Append(q, e))
      BY <1>2 DEF e
    <2>5. /\ queue' = Append(q, e) /\ queue' \in Seq(Entry)
          /\ rendered' \in [active: BOOLEAN, queue: BOOLEAN, jsx: BOOLEAN]
      BY <2>3, <2>4, SetQueueTyped
    <2> QED
      BY <2>1, <2>2, <2>3, <2>5
  <1> QED
    BY <1>1, <1>2 DEF Leave

(* The commands of the queue were handed in, before and after a chain ends *)
LEMMA LeaveKnown ==
  ASSUME TypeOK, NEW c, NEW q \in Seq(Entry), Leave(c, q), Cmds(q) \subseteq 1..handedIn
  PROVE  /\ queue' \in Seq(Entry)
         /\ rendered' \in [active: BOOLEAN, queue: BOOLEAN, jsx: BOOLEAN]
         /\ handedIn' \in 0..MaxCommands /\ handedIn \in Nat /\ handedIn' \in Nat
         /\ handedIn <= handedIn' /\ 1..handedIn \subseteq 1..handedIn'
         /\ Cmds(queue') \subseteq 1..handedIn'
PROOF
  <1>1. handedIn \in Nat /\ handedIn \in 0..MaxCommands
    BY ConstantsAssumption DEF TypeOK
  <1>2. queue' \in Seq(Entry) /\ rendered' \in [active: BOOLEAN, queue: BOOLEAN, jsx: BOOLEAN]
    BY LeaveFacts
  <1>3. CASE handedIn' = handedIn /\ Range(queue') = Range(q)
    BY <1>1, <1>2, <1>3 DEF Cmds
  <1>4. ASSUME handedIn < MaxCommands, handedIn' = handedIn + 1,
               NEW e \in Entry, e.cmd = handedIn + 1, Range(queue') = Range(q) \cup {e}
        PROVE  /\ handedIn' \in 0..MaxCommands /\ handedIn' \in Nat
               /\ handedIn <= handedIn' /\ 1..handedIn \subseteq 1..handedIn'
               /\ Cmds(queue') \subseteq 1..handedIn'
    <2>1. /\ handedIn + 1 \in 0..MaxCommands /\ handedIn + 1 \in 1..(handedIn + 1)
          /\ 1..handedIn \subseteq 1..(handedIn + 1)
      BY <1>4, NewEntry, KindsAre
    <2>2. Cmds(queue') = Cmds(q) \cup {handedIn + 1}
      BY <1>4 DEF Cmds
    <2> QED
      BY <1>1, <1>4, <2>1, <2>2
  <1> QED
    BY <1>1, <1>2, <1>3, <1>4, LeaveFacts

LEMMA InitTyped == Init => TypeInv
PROOF
  <1> SUFFICES ASSUME Init
               PROVE  TypeInv
    OBVIOUS
  <1> USE ConstantsAssumption
  <1>1. \A c \in Commands : chain[c] = NoChain
    BY DEF Init
  <1>2. \A c \in Commands : Sound(c, chain[c], 0)
    BY <1>1, NoChainSound
  <1>3. NoChain \in ChainType
    <2>1. <<>> \in Seq(Entry)
      OBVIOUS
    <2> QED
      BY <2>1 DEF NoChain, ChainType
  <1>4. chain \in [Commands -> ChainType]
    BY <1>3 DEF Init
  <1>5. Cmds(queue) \subseteq 1..handedIn
    BY DEF Init, Cmds, Range
  <1>6. TypeOK
    <2>1. /\ status \in {"idle", "dispatching", "running"} /\ generation \in Nat
          /\ queue \in Seq(Entry)
          /\ controller \in {Null} \cup Commands /\ aborted \subseteq Commands
          /\ handedIn \in 0..MaxCommands /\ cancels \in 0..MaxCancels
          /\ settled \subseteq 1..handedIn
      BY DEF Init
    <2>2. jsx \in BOOLEAN
      BY DEF Init
    <2>3. rendered \in [active: BOOLEAN, queue: BOOLEAN, jsx: BOOLEAN]
      BY DEF Init
    <2> QED
      BY <1>2, <1>4, <2>1, <2>2, <2>3 DEF TypeOK, Sound, ChainType
  <1> QED
    BY <1>2, <1>5, <1>6 DEF TypeInv, Init

(* What the next state must show.                                          *)
LEMMA TypedNext ==
  ASSUME status' \in {"idle", "dispatching", "running"}, generation' \in Nat,
         queue' \in Seq(Entry),
         controller' \in {Null} \cup Commands, aborted' \subseteq Commands,
         jsx' \in BOOLEAN, rendered' \in [active: BOOLEAN, queue: BOOLEAN, jsx: BOOLEAN],
         handedIn' \in 0..MaxCommands, cancels' \in 0..MaxCancels,
         settled' \subseteq 1..handedIn',
         Cmds(queue') \subseteq 1..handedIn',
         chain' \in [Commands -> ChainType],
         \A c \in Commands : Sound(c, chain'[c], handedIn')
  PROVE  TypeInv'
PROOF
  <1>1. TypeOK'
    BY DEF TypeOK, Sound, ChainType
  <1> QED
    BY <1>1 DEF TypeInv, Cmds

(* What this state shows.                                                  *)
LEMMA TypedNow ==
  ASSUME TypeInv
  PROVE  /\ TypeOK
         /\ status \in {"idle", "dispatching", "running"} /\ generation \in Nat
         /\ queue \in Seq(Entry)
         /\ controller \in {Null} \cup Commands /\ aborted \subseteq Commands
         /\ jsx \in BOOLEAN /\ rendered \in [active: BOOLEAN, queue: BOOLEAN, jsx: BOOLEAN]
         /\ handedIn \in 0..MaxCommands /\ handedIn \in Nat
         /\ cancels \in 0..MaxCancels
         /\ settled \subseteq 1..handedIn
         /\ Cmds(queue) \subseteq 1..handedIn
         /\ chain \in [Commands -> ChainType]
         /\ \A c \in Commands : Sound(c, chain[c], handedIn)
PROOF
  <1> QED
    BY ConstantsAssumption DEF TypeInv, TypeOK, ChainType

(* A new chain in its input phase.                                         *)
LEMMA ExecuteTyped ==
  ASSUME TypeInv, NEW entries \in Seq(Entry), entries # <<>>, BatchIsUniform(entries),
         NEW hit \in SUBSET Commands, NEW m \in Nat, handedIn <= m, m <= MaxCommands,
         Cmds(entries) \subseteq 1..m,
         Execute(entries, hit)
  PROVE  /\ status' \in {"idle", "dispatching", "running"}
         /\ controller' \in {Null} \cup Commands /\ aborted' \subseteq Commands
         /\ chain' \in [Commands -> ChainType]
         /\ \A c \in Commands : Sound(c, chain'[c], m)
PROOF
  <1> DEFINE c == entries[1].cmd
             r == InputChain(entries)
  <1>1. c \in Cmds(entries) /\ c \in Commands
    <2>1. entries[1] \in Range(entries) /\ entries[1] \in Entry
      BY FirstInRange
    <2> QED
      BY <2>1 DEF Cmds, Entry
  <1>2. /\ r \in ChainType /\ r.pc = "input" /\ r.entries = entries
        /\ r.drain = {}
    BY DEF InputChain, ChainType
  <1> HIDE DEF r
  <1>3. Sound(c, r, m)
    <2> QED
      BY <1>1, <1>2 DEF Sound, CmdsIn
  <1> HIDE DEF c
  <1>4. /\ status' \in {"idle", "dispatching", "running"}
        /\ controller' = c /\ aborted' \subseteq Commands
        /\ chain' = [chain EXCEPT ![c] = r]
    <2>1. /\ controller' = c /\ aborted' = (aborted \cup hit) \ {c}
          /\ chain' = [chain EXCEPT ![c] = r] /\ Reserve
      BY DEF Execute, c, r
    <2> QED
      BY <2>1, TypedNow DEF Reserve
  <1> QED
    BY <1>1, <1>3, <1>4, TypedNow, ChainsTyped

(* A new query.                                                            *)
LEMMA StartTyped ==
  ASSUME TypeInv, NEW c \in Commands, NEW entries \in Seq(Entry), entries # <<>>,
         BatchIsUniform(entries), NEW direct \in BOOLEAN,
         NEW m \in Nat, handedIn <= m,
         Cmds(entries) \subseteq 1..m, c \in Cmds(entries),
         Start(c, entries, direct)
  PROVE  /\ status' \in {"idle", "dispatching", "running"} /\ generation' \in Nat
         /\ settled' \subseteq 1..m
         /\ chain' \in [Commands -> ChainType]
         /\ \A d \in Commands : Sound(d, chain'[d], m)
PROOF
  <1> DEFINE r == [pc |-> "query", entries |-> entries,
                 generation |-> generation + 1, direct |-> direct, drain |-> {}]
  <1>1. /\ r \in ChainType /\ r.pc = "query" /\ r.entries = entries
        /\ r.drain = {}
    BY TypedNow DEF ChainType
  <1>2. chain' = [chain EXCEPT ![c] = r]
    BY DEF Start
  <1> HIDE DEF r
  <1>3. Sound(c, r, m)
    BY <1>1 DEF Sound, CmdsIn
  <1>4. /\ chain' \in [Commands -> ChainType]
        /\ \A d \in Commands : Sound(d, chain'[d], m)
    BY <1>2, <1>3, TypedNow, ChainsTyped
  <1>5. /\ status' \in {"idle", "dispatching", "running"} /\ generation' \in Nat
        /\ settled' \subseteq 1..m
    <2>1. settled \subseteq 1..m
      <3>1. 1..handedIn \subseteq 1..m
        BY TypedNow
      <3> QED
        BY <3>1, TypedNow
    <2>2. /\ status' = "running" /\ generation' = generation + 1
          /\ settled' = settled \cup Cmds(entries)
      BY DEF Start
    <2>3. generation \in Nat
      BY TypedNow
    <2>4. settled' \subseteq 1..m
      BY <2>1, <2>2
    <2> QED
      BY <2>2, <2>3, <2>4
  <1> QED
    BY <1>4, <1>5

(* What the processor takes: commands of the queue, the first of them      *)
(* among them, all of one mode.                                            *)
LEMMA BatchFacts ==
  ASSUME queue \in Seq(Entry), NEW first \in Peek(MainThread)
  PROVE  /\ Batch(first) \in Seq(Entry) /\ Batch(first) # <<>>
         /\ Range(Batch(first)) \subseteq Range(queue)
         /\ Batch(first)[1] \in Range(Batch(first))
         /\ BatchIsUniform(Batch(first))
PROOF
  <1>1. first \in Range(queue) /\ IsMainThread(first)
    BY DEF Peek, MainThread, Range
  <1>2. \A i \in DOMAIN queue : queue[i] \in Entry
    OBVIOUS
  <1>3. first \in Entry
    BY <1>1, <1>2 DEF Range
  <1>4. CASE first.kind.slash \/ first.kind.mode = "bash"
    <2>1. Batch(first) = <<first>>
      BY <1>4 DEF Batch
    <2>2. <<first>> \in Seq(Entry) /\ <<first>> # <<>> /\ Range(<<first>>) = {first}
          /\ Len(<<first>>) = 1 /\ <<first>>[1] = first
      BY <1>3, RangeSingleton
    <2> QED
      BY <1>1, <2>1, <2>2 DEF BatchIsUniform
  <1>5. CASE ~(first.kind.slash \/ first.kind.mode = "bash")
    <2> DEFINE S == {e \in Range(queue) :
                       IsMainThread(e) /\ ~e.kind.slash /\ e.kind.mode = first.kind.mode}
    <2>1. Batch(first) = Kept(queue, S)
      BY <1>5 DEF Batch
    <2>2. first \in S /\ S \subseteq Range(queue)
      BY <1>1, <1>5
    <2>3. \A e \in S : ~e.kind.slash /\ e.kind.mode # "bash" /\ e.kind.mode = first.kind.mode
      BY <1>5
    <2> HIDE DEF S
    <2>4. Batch(first) \in Seq(Entry) /\ Range(Batch(first)) = S
      <3>1. Kept(queue, S) \in Seq(Entry) /\ Range(Kept(queue, S)) = Range(queue) \cap S
        BY KeptFacts
      <3> QED
        BY <2>1, <2>2, <3>1
    <2>5. Batch(first) # <<>>
      BY <2>2, <2>4, EmptyRange
    <2>6. Batch(first)[1] \in S
      BY <2>4, <2>5, FirstInRange
    <2>7. BatchIsUniform(Batch(first))
      <3> SUFFICES ASSUME NEW e \in S
                   PROVE  /\ ~e.kind.slash /\ e.kind.mode # "bash"
                          /\ e.kind.mode = Batch(first)[1].kind.mode
        BY <2>4 DEF BatchIsUniform
      <3> QED
        BY <2>3, <2>6
    <2> QED
      BY <2>2, <2>4, <2>5, <2>6, <2>7
  <1> QED
    BY <1>4, <1>5

LEMMA SubmitTyped ==
  ASSUME TypeInv, jsx' \in BOOLEAN, NEW k \in Typed, Submit(k)
  PROVE TypeInv'
PROOF
  <1> DEFINE e == [cmd |-> handedIn + 1, kind |-> k, copy |-> FALSE]
  <1>1. handedIn < MaxCommands /\ handedIn' = handedIn + 1
    BY DEF Submit, HandIn
  <1>2. /\ e \in Entry /\ e.cmd = handedIn + 1
        /\ handedIn' \in 0..MaxCommands /\ handedIn' \in Nat /\ handedIn <= handedIn'
        /\ handedIn' <= MaxCommands
        /\ handedIn + 1 \in 1..handedIn' /\ 1..handedIn \subseteq 1..handedIn'
    <2>1. handedIn \in Nat /\ MaxCommands \in Nat
      BY TypedNow, ConstantsAssumption
    <2> QED
      BY <1>1, <2>1, NewEntry, KindsAre, TypedNow
  <1> HIDE DEF e
  <1>3. /\ <<e>> \in Seq(Entry) /\ Range(<<e>>) = {e}
        /\ Cmds(<<e>>) \subseteq 1..handedIn' /\ BatchIsUniform(<<e>>) /\ <<e>> # <<>>
    <2>1. <<e>> \in Seq(Entry) /\ Range(<<e>>) = {e} /\ Len(<<e>>) = 1 /\ <<e>> # <<>>
      BY <1>2, RangeSingleton
    <2>2. Cmds(<<e>>) = {handedIn + 1}
      BY <1>2, <2>1 DEF Cmds
    <2> QED
      BY <1>2, <2>1, <2>2 DEF BatchIsUniform
  <1>4. /\ cancels' \in 0..MaxCancels /\ settled' \subseteq 1..handedIn'
    BY <1>2, TypedNow DEF Submit
  <1>5. CASE /\ Put(<<e>>)
             /\ \/ UNCHANGED aborted
                \/ controller # Null /\ aborted' = aborted \cup {controller}
             /\ UNCHANGED <<guard, controller, chain>>
    <2>1. queue \o <<e>> \in Seq(Entry) /\ Range(queue \o <<e>>) = Range(queue) \cup {e}
      BY <1>2, TypedNow, RangePut
    <2>2. /\ queue' = queue \o <<e>> /\ queue' \in Seq(Entry)
          /\ rendered' \in [active: BOOLEAN, queue: BOOLEAN, jsx: BOOLEAN]
      BY <1>5, <2>1, TypedNow, SetQueueTyped DEF Put
    <2>3. Cmds(queue') \subseteq 1..handedIn'
      <3>1. Cmds(queue') = Cmds(queue) \cup {handedIn + 1}
        BY <1>2, <2>1, <2>2 DEF Cmds
      <3> QED
        BY <1>2, <3>1, TypedNow
    <2>4. /\ status' = status /\ generation' = generation /\ controller' = controller
          /\ chain' = chain
      BY <1>5 DEF guard
    <2>5. aborted' \subseteq Commands
      BY <1>5, TypedNow
    <2>6. \A c \in Commands : Sound(c, chain'[c], handedIn')
      BY <1>2, <2>4, TypedNow, SoundLater
    <2> QED
      BY <1>2, <1>4, <2>2, <2>3, <2>4, <2>5, <2>6, TypedNow, TypedNext
  <1>6. CASE Execute(<<e>>, {}) /\ UNCHANGED <<generation, queue, rendered>>
    <2>1. /\ status' \in {"idle", "dispatching", "running"}
          /\ controller' \in {Null} \cup Commands /\ aborted' \subseteq Commands
          /\ chain' \in [Commands -> ChainType]
          /\ \A c \in Commands : Sound(c, chain'[c], handedIn')
      BY <1>2, <1>3, <1>6, ExecuteTyped
    <2>2. Cmds(queue') \subseteq 1..handedIn'
      BY <1>2, <1>6, TypedNow DEF Cmds
    <2> QED
      BY <1>2, <1>4, <1>6, <2>1, <2>2, TypedNow, TypedNext
  <1> QED
    BY <1>5, <1>6 DEF Submit, e

LEMMA PostTyped ==
  ASSUME TypeInv, jsx' \in BOOLEAN, NEW k \in Posted, Post(k)
  PROVE TypeInv'
PROOF
  <1> DEFINE e == [cmd |-> handedIn + 1, kind |-> k, copy |-> FALSE]
  <1>1. handedIn < MaxCommands /\ handedIn' = handedIn + 1
    BY DEF Post, HandIn
  <1>2. /\ e \in Entry /\ e.cmd = handedIn + 1
        /\ handedIn' \in 0..MaxCommands /\ handedIn' \in Nat /\ handedIn <= handedIn'
        /\ handedIn + 1 \in 1..handedIn' /\ 1..handedIn \subseteq 1..handedIn'
    <2>1. handedIn \in Nat
      BY TypedNow
    <2> QED
      BY <1>1, <2>1, NewEntry, KindsAre, TypedNow
  <1>3. Put(<<e>>)
    BY DEF Post
  <1> HIDE DEF e
  <1>4. queue \o <<e>> \in Seq(Entry) /\ Range(queue \o <<e>>) = Range(queue) \cup {e}
    BY <1>2, TypedNow, RangePut
  <1>5. /\ queue' = queue \o <<e>> /\ queue' \in Seq(Entry)
        /\ rendered' \in [active: BOOLEAN, queue: BOOLEAN, jsx: BOOLEAN]
    BY <1>3, <1>4, TypedNow, SetQueueTyped DEF Put
  <1>6. Cmds(queue') \subseteq 1..handedIn'
    <2>1. Cmds(queue') = Cmds(queue) \cup {handedIn + 1}
      BY <1>2, <1>4, <1>5 DEF Cmds
    <2> QED
      BY <1>2, <2>1, TypedNow
  <1>7. /\ status' = status /\ generation' = generation /\ controller' = controller
        /\ chain' = chain /\ aborted' = aborted /\ cancels' = cancels /\ settled' = settled
    BY DEF Post, guard
  <1>8. \A c \in Commands : Sound(c, chain'[c], handedIn')
    BY <1>2, <1>7, TypedNow, SoundLater
  <1>9. settled' \subseteq 1..handedIn'
    BY <1>2, <1>7, TypedNow
  <1> QED
    BY <1>2, <1>5, <1>6, <1>7, <1>8, <1>9, TypedNow, TypedNext

LEMMA IncomingTyped ==
  ASSUME TypeInv, jsx' \in BOOLEAN, NEW k \in Incomings, Incoming(k)
  PROVE TypeInv'
PROOF
  <1> DEFINE e == [cmd |-> handedIn + 1, kind |-> k, copy |-> FALSE]
  <1>1. /\ handedIn < MaxCommands /\ handedIn' = handedIn + 1
        /\ Start(e.cmd, <<e>>, TRUE) /\ controller' = e.cmd
        /\ queue' = queue /\ aborted' = aborted /\ rendered' = rendered /\ cancels' = cancels
    BY DEF Incoming, HandIn
  <1>2. /\ e \in Entry /\ e.cmd = handedIn + 1 /\ handedIn + 1 \in Commands
        /\ handedIn' \in 0..MaxCommands /\ handedIn' \in Nat /\ handedIn <= handedIn'
        /\ handedIn + 1 \in 1..handedIn' /\ 1..handedIn \subseteq 1..handedIn'
    <2>1. handedIn \in Nat
      BY TypedNow
    <2> QED
      BY <1>1, <2>1, NewEntry, KindsAre, TypedNow
  <1> HIDE DEF e
  <1>3. /\ <<e>> \in Seq(Entry) /\ <<e>> # <<>> /\ BatchIsUniform(<<e>>)
        /\ Cmds(<<e>>) \subseteq 1..handedIn' /\ e.cmd \in Cmds(<<e>>)
    <2>1. <<e>> \in Seq(Entry) /\ Range(<<e>>) = {e} /\ Len(<<e>>) = 1 /\ <<e>> # <<>>
      BY <1>2, RangeSingleton
    <2>2. Cmds(<<e>>) = {handedIn + 1}
      BY <1>2, <2>1 DEF Cmds
    <2> QED
      BY <1>2, <2>1, <2>2 DEF BatchIsUniform
  <1>4. /\ status' \in {"idle", "dispatching", "running"} /\ generation' \in Nat
        /\ settled' \subseteq 1..handedIn'
        /\ chain' \in [Commands -> ChainType]
        /\ \A d \in Commands : Sound(d, chain'[d], handedIn')
    BY <1>1, <1>2, <1>3, StartTyped
  <1>5. Cmds(queue') \subseteq 1..handedIn'
    BY <1>1, <1>2, TypedNow DEF Cmds
  <1> QED
    BY <1>1, <1>2, <1>4, <1>5, TypedNow, TypedNext

(* The copies that a chain which loses the race puts into the queue.       *)
CopyOf(e) == [cmd |-> e.cmd, kind |-> FollowUp, copy |-> TRUE]

LEMMA CopiedFacts ==
  ASSUME NEW s \in Seq(Entry)
  PROVE  /\ Copied(s) \in Seq(Entry)
         /\ Range(Copied(s)) = {CopyOf(e) : e \in Range(s)}
         /\ Cmds(Copied(s)) = Cmds(s)
PROOF
  <1>1. /\ DOMAIN Copied(s) = DOMAIN s
        /\ \A i \in DOMAIN s : Copied(s)[i] = CopyOf(s[i])
    BY DEF Copied, CopyOf
  <1>2. \A i \in DOMAIN s : CopyOf(s[i]) \in Entry
    <2> SUFFICES ASSUME NEW i \in DOMAIN s
                 PROVE  CopyOf(s[i]) \in Entry
      OBVIOUS
    <2>1. s[i] \in Entry /\ FollowUp \in Kind
      BY KindsAre
    <2> QED
      BY <2>1 DEF CopyOf, Entry
  <1>3. Copied(s) = [i \in 1..Len(s) |-> CopyOf(s[i])]
    BY DEF Copied, CopyOf
  <1>4. Copied(s) \in Seq(Entry)
    <2> DEFINE f == [i \in 1..Len(s) |-> CopyOf(s[i])]
    <2>1. Len(s) \in Nat /\ DOMAIN s = 1..Len(s)
      OBVIOUS
    <2>2. f \in [1..Len(s) -> Entry]
      BY <1>2, <2>1
    <2>3. f \in Seq(Entry)
      BY <2>1, <2>2
    <2> QED
      BY <1>3, <2>3
  <1>5. Range(Copied(s)) = {CopyOf(e) : e \in Range(s)}
    <2> HIDE DEF CopyOf
    <2> QED
      BY <1>1 DEF Range
  <1>6. \A e : CopyOf(e).cmd = e.cmd
    BY DEF CopyOf
  <1>7. Cmds(Copied(s)) = Cmds(s)
    BY <1>5, <1>6 DEF Cmds
  <1> QED
    BY <1>4, <1>5, <1>7

(* A chain ends.                                                           *)
LEMMA EndedTyped ==
  ASSUME TypeInv, NEW c \in Commands, NEW m \in Nat, handedIn <= m
  PROVE  /\ [chain EXCEPT ![c] = NoChain] \in [Commands -> ChainType]
         /\ \A d \in Commands : Sound(d, [chain EXCEPT ![c] = NoChain][d], m)
         /\ settled \cup Cmds(chain[c].entries) \subseteq 1..m
         /\ settled \subseteq 1..m
PROOF
  <1>1. 1..handedIn \subseteq 1..m
    BY TypedNow
  <1>2. Sound(c, chain[c], handedIn) /\ settled \subseteq 1..handedIn
    BY TypedNow
  <1>3. Cmds(chain[c].entries) \subseteq 1..handedIn
    BY <1>2 DEF Sound
  <1>4. /\ chain \in [Commands -> ChainType] /\ handedIn \in Nat
        /\ \A d \in Commands : Sound(d, chain[d], handedIn)
    BY TypedNow
  <1>5. /\ [chain EXCEPT ![c] = NoChain] \in [Commands -> ChainType]
        /\ \A d \in Commands : Sound(d, [chain EXCEPT ![c] = NoChain][d], m)
    BY <1>4, ChainsTyped, NoChainSound
  <1> QED
    BY <1>1, <1>2, <1>3, <1>5

(* What a chain that loses the race for the gate does to the queue.        *)
RequeueSkipped(c) == {e \in Range(chain[c].entries) : e.kind.meta \/ ~e.kind.text}
Requeued(c) == queue \o Copied(Without(chain[c].entries, RequeueSkipped(c)))

LEMMA RequeueFacts ==
  ASSUME TypeInv, NEW c \in Commands, Requeue(c)
  PROVE  /\ Requeued(c) \in Seq(Entry)
         /\ Range(Requeued(c)) = Range(queue) \cup
              {CopyOf(e) : e \in Range(chain[c].entries) \ RequeueSkipped(c)}
         /\ Cmds(Requeued(c)) \subseteq 1..handedIn
         /\ Leave(c, Requeued(c))
         /\ settled' = settled \cup CmdsIn(RequeueSkipped(c))
         /\ CmdsIn(RequeueSkipped(c)) \subseteq Cmds(chain[c].entries)
         /\ chain' = [chain EXCEPT ![c] = NoChain]
         /\ status' = status /\ generation' = generation /\ controller' = controller
PROOF
  <1> DEFINE es == chain[c].entries
             kept == Without(es, RequeueSkipped(c))
  <1>1. es \in Seq(Entry) /\ Cmds(es) \subseteq 1..handedIn /\ queue \in Seq(Entry)
        /\ Cmds(queue) \subseteq 1..handedIn
    BY TypedNow DEF Sound, ChainType
  <1>2. /\ Leave(c, Requeued(c))
        /\ settled' = settled \cup CmdsIn(RequeueSkipped(c))
        /\ chain' = [chain EXCEPT ![c] = NoChain]
        /\ status' = status /\ generation' = generation /\ controller' = controller
    BY DEF Requeue, Requeued, RequeueSkipped, CmdsIn, guard
  <1> HIDE DEF es
  <1>3. kept \in Seq(Entry) /\ Range(kept) = Range(es) \ RequeueSkipped(c)
    BY <1>1, WithoutFacts
  <1> HIDE DEF kept
  <1>4. /\ Copied(kept) \in Seq(Entry)
        /\ Range(Copied(kept)) = {CopyOf(e) : e \in Range(kept)}
        /\ Cmds(Copied(kept)) = Cmds(kept)
    BY <1>3, CopiedFacts
  <1>5. /\ queue \o Copied(kept) \in Seq(Entry)
        /\ Range(queue \o Copied(kept)) = Range(queue) \cup Range(Copied(kept))
    BY <1>1, <1>4, RangeConcat
  <1>6. Requeued(c) = queue \o Copied(kept)
    BY DEF Requeued, kept, es
  <1>7. Cmds(Requeued(c)) = Cmds(queue) \cup Cmds(kept)
    BY <1>4, <1>5, <1>6 DEF Cmds
  <1>8. Cmds(kept) \subseteq Cmds(es)
    BY <1>3 DEF Cmds
  <1>9. CmdsIn(RequeueSkipped(c)) \subseteq Cmds(es)
    BY DEF Cmds, CmdsIn, RequeueSkipped, es
  <1>10. Range(kept) = Range(chain[c].entries) \ RequeueSkipped(c)
    BY <1>3 DEF es
  <1> QED
    BY <1>1, <1>2, <1>4, <1>5, <1>6, <1>7, <1>8, <1>9, <1>10 DEF es

LEMMA InputDoneTyped ==
  ASSUME TypeInv, jsx' \in BOOLEAN, NEW c \in Commands, InputDone(c)
  PROVE TypeInv'
PROOF
  <1>1. aborted' = aborted /\ cancels' = cancels /\ chain[c].pc = "input"
    BY DEF InputDone
  <1>2. CASE Requeue(c)
    <2>1. /\ Requeued(c) \in Seq(Entry) /\ Cmds(Requeued(c)) \subseteq 1..handedIn
          /\ Leave(c, Requeued(c))
          /\ settled' = settled \cup CmdsIn(RequeueSkipped(c))
          /\ CmdsIn(RequeueSkipped(c)) \subseteq Cmds(chain[c].entries)
          /\ chain' = [chain EXCEPT ![c] = NoChain]
          /\ status' = status /\ generation' = generation /\ controller' = controller
      BY <1>2, RequeueFacts
    <2>2. /\ queue' \in Seq(Entry)
          /\ rendered' \in [active: BOOLEAN, queue: BOOLEAN, jsx: BOOLEAN]
          /\ handedIn' \in 0..MaxCommands /\ handedIn' \in Nat
          /\ handedIn <= handedIn'
          /\ Cmds(queue') \subseteq 1..handedIn'
      BY <2>1, TypedNow, LeaveKnown
    <2>3. /\ chain' \in [Commands -> ChainType]
          /\ \A d \in Commands : Sound(d, chain'[d], handedIn')
          /\ settled \cup Cmds(chain[c].entries) \subseteq 1..handedIn'
      BY <2>1, <2>2, EndedTyped
    <2>4. settled' \subseteq 1..handedIn'
      BY <2>1, <2>3
    <2> QED
      BY <1>1, <2>1, <2>2, <2>3, <2>4, TypedNow, TypedNext
  <1>3. CASE Start(c, chain[c].entries, FALSE) /\ UNCHANGED <<queue, rendered, controller, handedIn>>
    <2>1. /\ chain[c].entries \in Seq(Entry) /\ chain[c].entries # <<>>
          /\ BatchIsUniform(chain[c].entries)
          /\ Cmds(chain[c].entries) \subseteq 1..handedIn
          /\ c \in Cmds(chain[c].entries)
      BY <1>1, TypedNow DEF Sound, ChainType
    <2>2. handedIn \in Nat /\ handedIn <= handedIn
      BY TypedNow
    <2>3. /\ status' \in {"idle", "dispatching", "running"} /\ generation' \in Nat
          /\ settled' \subseteq 1..handedIn
          /\ chain' \in [Commands -> ChainType]
          /\ \A d \in Commands : Sound(d, chain'[d], handedIn)
      BY <1>3, <2>1, <2>2, StartTyped
    <2>4. Cmds(queue') \subseteq 1..handedIn'
      BY <1>3, TypedNow DEF Cmds
    <2> QED
      BY <1>1, <1>3, <2>3, <2>4, TypedNow, TypedNext
  <1>4. CASE /\ Leave(c, queue) /\ Settle(c) /\ controller' = Null
             /\ \/ status' = "idle" /\ generation' = generation + 1
                \/ status' = Unreserved(status) /\ generation' = generation
    <2>1. /\ queue' \in Seq(Entry)
          /\ rendered' \in [active: BOOLEAN, queue: BOOLEAN, jsx: BOOLEAN]
          /\ handedIn' \in 0..MaxCommands /\ handedIn' \in Nat
          /\ handedIn <= handedIn'
          /\ Cmds(queue') \subseteq 1..handedIn'
      BY <1>4, TypedNow, LeaveKnown
    <2>2. /\ chain' \in [Commands -> ChainType]
          /\ \A d \in Commands : Sound(d, chain'[d], handedIn')
          /\ settled' \subseteq 1..handedIn'
      BY <1>4, <2>1, EndedTyped DEF Settle
    <2>3. status' \in {"idle", "dispatching", "running"} /\ generation' \in Nat
      <3>1. status \in {"idle", "dispatching", "running"} /\ generation \in Nat
        BY TypedNow
      <3> QED
        BY <1>4, <3>1 DEF Unreserved
    <2> QED
      BY <1>1, <1>4, <2>1, <2>2, <2>3, TypedNow, TypedNext
  <1>5. CASE /\ status' = Unreserved(status) /\ Settle(c)
             /\ UNCHANGED <<generation, controller, queue, rendered, handedIn>>
    <2>1. handedIn \in Nat /\ handedIn <= handedIn
      BY TypedNow
    <2>2. /\ chain' \in [Commands -> ChainType]
          /\ \A d \in Commands : Sound(d, chain'[d], handedIn)
          /\ settled' \subseteq 1..handedIn
      BY <1>5, <2>1, EndedTyped DEF Settle
    <2>3. status' \in {"idle", "dispatching", "running"}
      BY <1>5, TypedNow DEF Unreserved
    <2>4. Cmds(queue') \subseteq 1..handedIn'
      BY <1>5, TypedNow DEF Cmds
    <2> QED
      BY <1>1, <1>5, <2>2, <2>3, <2>4, TypedNow, TypedNext
  <1> QED
    BY <1>2, <1>3, <1>4, <1>5 DEF InputDone

LEMMA QueryEndTyped ==
  ASSUME TypeInv, jsx' \in BOOLEAN, NEW c \in Commands, QueryEnd(c)
  PROVE TypeInv'
PROOF
  <1>1. /\ Leave(c, queue) /\ chain' = [chain EXCEPT ![c] = NoChain]
        /\ generation' = generation /\ aborted' = aborted /\ cancels' = cancels
        /\ settled' = settled
        /\ controller' \in {controller, Null}
    BY DEF QueryEnd
  <1>2. status' \in {"idle", "dispatching", "running"}
    <2>1. status \in {"idle", "dispatching", "running"}
      BY TypedNow
    <2> QED
      BY <2>1 DEF QueryEnd, Unreserved
  <1>3. /\ queue' \in Seq(Entry)
        /\ rendered' \in [active: BOOLEAN, queue: BOOLEAN, jsx: BOOLEAN]
        /\ handedIn' \in 0..MaxCommands /\ handedIn' \in Nat
        /\ handedIn <= handedIn'
        /\ Cmds(queue') \subseteq 1..handedIn'
    BY <1>1, TypedNow, LeaveKnown
  <1>4. /\ chain' \in [Commands -> ChainType]
        /\ \A d \in Commands : Sound(d, chain'[d], handedIn')
        /\ settled' \subseteq 1..handedIn'
    BY <1>1, <1>3, EndedTyped
  <1> QED
    BY <1>1, <1>2, <1>3, <1>4, TypedNow, TypedNext

(* Only what a drain has found changes.                                    *)
LEMMA DrainTyped ==
  ASSUME TypeInv, NEW c \in Commands, NEW S \in SUBSET Entry,
         S # {} => chain[c].pc = "query", CmdsIn(S) \subseteq 1..handedIn,
         chain' = [chain EXCEPT ![c].drain = S]
  PROVE  /\ chain' \in [Commands -> ChainType]
         /\ \A d \in Commands : Sound(d, chain'[d], handedIn)
PROOF
  <1> DEFINE r == [chain[c] EXCEPT !.drain = S]
  <1>1. chain[c] \in ChainType /\ Sound(c, chain[c], handedIn) /\ handedIn \in Nat
    BY TypedNow
  <1>2. /\ r \in ChainType /\ r.pc = chain[c].pc /\ r.entries = chain[c].entries
        /\ r.drain = S
    BY <1>1 DEF ChainType
  <1>3. chain' = [chain EXCEPT ![c] = r]
    BY TypedNow
  <1> HIDE DEF r
  <1>4. Sound(c, r, handedIn)
    BY <1>1, <1>2 DEF Sound
  <1>5. /\ chain \in [Commands -> ChainType] /\ handedIn <= handedIn
        /\ \A d \in Commands : Sound(d, chain[d], handedIn)
    BY TypedNow
  <1>6. /\ [chain EXCEPT ![c] = r] \in [Commands -> ChainType]
        /\ \A d \in Commands : Sound(d, [chain EXCEPT ![c] = r][d], handedIn)
    BY <1>1, <1>4, <1>5, ChainsTyped
  <1> QED
    BY <1>3, <1>6

(* Commands are taken out of the queue and settled.                        *)
LEMMA TakeOut ==
  ASSUME TypeInv, NEW S, SetQueue(Without(queue, S))
  PROVE  /\ queue' \in Seq(Entry) /\ Range(queue') = Range(queue) \ S
         /\ rendered' \in [active: BOOLEAN, queue: BOOLEAN, jsx: BOOLEAN]
         /\ Cmds(queue') \subseteq 1..handedIn
PROOF
  <1>1. /\ Without(queue, S) \in Seq(Entry)
        /\ Range(Without(queue, S)) = Range(queue) \ S
    BY TypedNow, WithoutFacts
  <1>2. /\ queue' = Without(queue, S) /\ queue' \in Seq(Entry)
        /\ rendered' \in [active: BOOLEAN, queue: BOOLEAN, jsx: BOOLEAN]
    BY <1>1, TypedNow, SetQueueTyped
  <1>3. Cmds(queue') \subseteq Cmds(queue)
    BY <1>1, <1>2 DEF Cmds
  <1> QED
    BY <1>1, <1>2, <1>3, TypedNow

LEMMA QueuedAreEntries ==
  ASSUME TypeInv
  PROVE  /\ \A e \in Range(queue) : e \in Entry
         /\ \A S \in SUBSET Range(queue) : CmdsIn(S) \subseteq 1..handedIn
PROOF
  <1>1. \A i \in DOMAIN queue : queue[i] \in Entry
    BY TypedNow
  <1>2. \A e \in Range(queue) : e \in Entry
    BY <1>1 DEF Range
  <1>3. \A S \in SUBSET Range(queue) : CmdsIn(S) \subseteq Cmds(queue)
    BY DEF Cmds, CmdsIn
  <1> QED
    BY <1>2, <1>3, TypedNow

LEMMA DrainBeginsTyped ==
  ASSUME TypeInv, jsx' \in BOOLEAN, NEW c \in Commands, DrainBegins(c)
  PROVE TypeInv'
PROOF
  <1>1. /\ chain[c].pc = "query"
        /\ queue' = queue /\ controller' = controller /\ aborted' = aborted
        /\ rendered' = rendered /\ handedIn' = handedIn /\ cancels' = cancels
        /\ settled' = settled /\ status' = status /\ generation' = generation
    BY DEF DrainBegins, guard
  <1>2. PICK found \in SUBSET Range(queue) : chain' = [chain EXCEPT ![c].drain = found]
    BY DEF DrainBegins
  <1>3. found \in SUBSET Entry /\ CmdsIn(found) \subseteq 1..handedIn
    BY <1>2, QueuedAreEntries
  <1>4. /\ chain' \in [Commands -> ChainType]
        /\ \A d \in Commands : Sound(d, chain'[d], handedIn)
    BY <1>1, <1>2, <1>3, DrainTyped
  <1>5. Cmds(queue') \subseteq 1..handedIn'
    BY <1>1, TypedNow DEF Cmds
  <1> QED
    BY <1>1, <1>4, <1>5, TypedNow, TypedNext

LEMMA DrainEndsTyped ==
  ASSUME TypeInv, jsx' \in BOOLEAN, NEW c \in Commands, DrainEnds(c)
  PROVE TypeInv'
PROOF
  <1>1. /\ controller' = controller /\ aborted' = aborted
        /\ handedIn' = handedIn /\ cancels' = cancels
        /\ status' = status /\ generation' = generation
        /\ settled' = settled \cup CmdsIn(chain[c].drain)
        /\ chain' = [chain EXCEPT ![c].drain = {}]
        /\ SetQueue(Without(queue, chain[c].drain))
    BY DEF DrainEnds, guard, CmdsIn
  <1>2. /\ queue' \in Seq(Entry) /\ Cmds(queue') \subseteq 1..handedIn
        /\ rendered' \in [active: BOOLEAN, queue: BOOLEAN, jsx: BOOLEAN]
    BY <1>1, TakeOut
  <1>3. CmdsIn({}) = {}
    BY DEF CmdsIn
  <1>4. /\ chain' \in [Commands -> ChainType]
        /\ \A d \in Commands : Sound(d, chain'[d], handedIn)
    BY <1>1, <1>3, DrainTyped
  <1>5. settled' \subseteq 1..handedIn
    <2>1. CmdsIn(chain[c].drain) \subseteq 1..handedIn /\ settled \subseteq 1..handedIn
      BY TypedNow DEF Sound
    <2> QED
      BY <1>1, <2>1
  <1> QED
    BY <1>1, <1>2, <1>4, <1>5, TypedNow, TypedNext

(* The two other ways out of the queue.                                    *)
LEMMA RemovedTyped ==
  ASSUME TypeInv, jsx' \in BOOLEAN, NEW S \in SUBSET Range(queue), SetQueue(Without(queue, S)),
         settled' = settled \cup CmdsIn(S),
         UNCHANGED <<guard, controller, aborted, chain, handedIn, cancels>>
  PROVE  TypeInv'
PROOF
  <1>1. /\ controller' = controller /\ aborted' = aborted /\ chain' = chain
        /\ handedIn' = handedIn /\ cancels' = cancels
        /\ status' = status /\ generation' = generation
    BY DEF guard
  <1>2. /\ queue' \in Seq(Entry) /\ Cmds(queue') \subseteq 1..handedIn
        /\ rendered' \in [active: BOOLEAN, queue: BOOLEAN, jsx: BOOLEAN]
    BY TakeOut
  <1>3. settled' \subseteq 1..handedIn
    BY TypedNow, QueuedAreEntries
  <1> QED
    BY <1>1, <1>2, <1>3, TypedNow, TypedNext

AgentFound == {e \in Range(queue) : ~IsMainThread(e) /\ e.kind.mode = "task-notification"}
Editables == {e \in Range(queue) : IsEditable(e)}

LEMMA AgentDrainsTyped ==
  ASSUME TypeInv, jsx' \in BOOLEAN, AgentDrains
  PROVE TypeInv'
PROOF
  <1>1. /\ SetQueue(Without(queue, AgentFound)) /\ AgentFound \in SUBSET Range(queue)
        /\ settled' = settled \cup CmdsIn(AgentFound)
        /\ UNCHANGED <<guard, controller, aborted, chain, handedIn, cancels>>
    BY DEF AgentDrains, AgentFound, CmdsIn
  <1> QED
    BY <1>1, RemovedTyped

LEMMA PopTyped ==
  ASSUME TypeInv, jsx' \in BOOLEAN, Pop
  PROVE TypeInv'
PROOF
  <1>1. /\ SetQueue(Without(queue, Editables)) /\ Editables \in SUBSET Range(queue)
        /\ settled' = settled \cup CmdsIn(Editables)
        /\ UNCHANGED <<guard, controller, aborted, chain, handedIn, cancels>>
    BY DEF Pop, Editables, CmdsIn
  <1> QED
    BY <1>1, RemovedTyped

LEMMA CancelTyped ==
  ASSUME TypeInv, jsx' \in BOOLEAN, Cancel
  PROVE TypeInv'
PROOF
  <1>1. /\ queue' = queue /\ chain' = chain /\ rendered' = rendered
        /\ handedIn' = handedIn /\ settled' = settled /\ status' = "idle"
        /\ controller' = Null /\ aborted' = aborted \cup {controller}
        /\ controller # Null
        /\ cancels < MaxCancels /\ cancels' = cancels + 1
        /\ generation' \in {generation, generation + 1}
    BY DEF Cancel
  <1>2. cancels' \in 0..MaxCancels
    BY <1>1, TypedNow, ConstantsAssumption
  <1>3. generation' \in Nat /\ aborted' \subseteq Commands
    BY <1>1, TypedNow
  <1>4. Cmds(queue') \subseteq 1..handedIn'
    BY <1>1, TypedNow DEF Cmds
  <1> QED
    BY <1>1, <1>2, <1>3, <1>4, TypedNow, TypedNext

(* A render, and which controllers its effects abort.                      *)
LEMMA RenderSteps ==
  ASSUME TypeInv, Render
  PROVE  /\ UNCHANGED <<generation, handedIn, cancels, settled>>
         /\ \E hit \in SUBSET Commands :
              \/ /\ status = "idle"
                 /\ ProcessQueue(hit)
              \/ /\ rendered' = [active |-> status # "idle", queue |-> TRUE, jsx |-> jsx]
                 /\ aborted' = aborted \cup hit
                 /\ UNCHANGED <<status, queue, controller, chain>>
PROOF
  <1> DEFINE urgent == ~rendered.queue /\ \E e \in Range(queue) : e.kind.priority = 0
             hit == IF urgent THEN {controller} \ {Null} ELSE {}
  <1>1. hit \in SUBSET Commands
    BY TypedNow
  <1>2. /\ UNCHANGED <<generation, handedIn, cancels, settled>>
        /\ \/ /\ status = "idle"
              /\ ProcessQueue(hit)
           \/ /\ rendered' = [active |-> status # "idle", queue |-> TRUE, jsx |-> jsx]
              /\ aborted' = aborted \cup hit
              /\ UNCHANGED <<status, queue, controller, chain>>
    BY DEF Render
  <1> HIDE DEF hit
  <1> QED
    BY <1>1, <1>2

LEMMA ProcessQueueTyped ==
  ASSUME TypeInv, jsx' \in BOOLEAN, NEW hit \in SUBSET Commands, ProcessQueue(hit),
         UNCHANGED <<generation, handedIn, cancels, settled>>
  PROVE  TypeInv'
PROOF
  <1>1. PICK first \in Peek(MainThread) :
          /\ Execute(Batch(first), hit)
          /\ queue' = Without(queue, Range(Batch(first)))
          /\ rendered' = [active |-> FALSE, queue |-> FALSE, jsx |-> FALSE]
    BY DEF ProcessQueue
  <1>2. /\ Batch(first) \in Seq(Entry) /\ Batch(first) # <<>>
        /\ Range(Batch(first)) \subseteq Range(queue)
        /\ BatchIsUniform(Batch(first))
    BY <1>1, TypedNow, BatchFacts
  <1>3. Cmds(Batch(first)) \subseteq 1..handedIn /\ handedIn \in Nat /\ handedIn <= handedIn
        /\ handedIn <= MaxCommands
    BY <1>2, TypedNow, QueuedAreEntries, CmdsAre, ConstantsAssumption
  <1>4. /\ status' \in {"idle", "dispatching", "running"}
        /\ controller' \in {Null} \cup Commands /\ aborted' \subseteq Commands
        /\ chain' \in [Commands -> ChainType]
        /\ \A c \in Commands : Sound(c, chain'[c], handedIn)
    BY <1>1, <1>2, <1>3, ExecuteTyped
  <1>5. queue' \in Seq(Entry) /\ Range(queue') = Range(queue) \ Range(Batch(first))
    BY <1>1, TypedNow, WithoutFacts
  <1>6. Cmds(queue') \subseteq 1..handedIn
    <2>1. Cmds(queue') \subseteq Cmds(queue)
      BY <1>5 DEF Cmds
    <2> QED
      BY <2>1, TypedNow
  <1>7. rendered' \in [active: BOOLEAN, queue: BOOLEAN, jsx: BOOLEAN]
    BY <1>1
  <1> QED
    BY <1>4, <1>5, <1>6, <1>7, TypedNow, TypedNext

LEMMA RenderTyped ==
  ASSUME TypeInv, jsx' \in BOOLEAN, Render
  PROVE TypeInv'
PROOF
  <1>1. PICK hit \in SUBSET Commands :
              \/ /\ status = "idle"
                 /\ ProcessQueue(hit)
              \/ /\ rendered' = [active |-> status # "idle", queue |-> TRUE, jsx |-> jsx]
                 /\ aborted' = aborted \cup hit
                 /\ UNCHANGED <<status, queue, controller, chain>>
    BY RenderSteps
  <1>2. /\ generation' = generation /\ handedIn' = handedIn /\ cancels' = cancels
        /\ settled' = settled
    BY RenderSteps
  <1>3. CASE ProcessQueue(hit)
    BY <1>2, <1>3, ProcessQueueTyped
  <1>4. CASE /\ rendered' = [active |-> status # "idle", queue |-> TRUE, jsx |-> jsx]
             /\ aborted' = aborted \cup hit
             /\ UNCHANGED <<status, queue, controller, chain>>
    <2>1. rendered' \in [active: BOOLEAN, queue: BOOLEAN, jsx: BOOLEAN] /\ aborted' \subseteq Commands
      BY <1>4, TypedNow
    <2>2. Cmds(queue') \subseteq 1..handedIn'
      BY <1>2, <1>4, TypedNow DEF Cmds
    <2> QED
      BY <1>2, <1>4, <2>1, <2>2, TypedNow, TypedNext
  <1> QED
    BY <1>1, <1>3, <1>4

LEMMA NextTyped == TypeInv /\ [Next]_vars => TypeInv'
PROOF
  <1> SUFFICES ASSUME TypeInv, [Next]_vars
               PROVE  TypeInv'
    OBVIOUS
  <1>2. jsx' \in BOOLEAN
    BY TypedNow DEF Next, Submit, Post, Incoming, InputDone, QueryEnd, DrainBegins, DrainEnds,
       AgentDrains, ToggleJsx, Cancel, Pop, Render, vars
  <1>1. CASE UNCHANGED vars
    <2>1. /\ status' = status /\ generation' = generation /\ queue' = queue
          /\ controller' = controller /\ aborted' = aborted /\ chain' = chain
          /\ jsx' = jsx /\ rendered' = rendered /\ handedIn' = handedIn /\ cancels' = cancels
          /\ settled' = settled
      BY <1>1 DEF vars, guard
    <2>2. Cmds(queue') \subseteq 1..handedIn'
      BY <2>1, TypedNow DEF Cmds
    <2> QED
      BY <1>2, <2>1, <2>2, TypedNow, TypedNext
  <1>3. CASE ToggleJsx
    <2>1. /\ status' = status /\ generation' = generation /\ queue' = queue
          /\ controller' = controller /\ aborted' = aborted /\ chain' = chain
          /\ rendered' = rendered /\ handedIn' = handedIn /\ cancels' = cancels
          /\ settled' = settled
      BY <1>3 DEF ToggleJsx, guard
    <2>2. Cmds(queue') \subseteq 1..handedIn'
      BY <2>1, TypedNow DEF Cmds
    <2> QED
      BY <1>2, <2>1, <2>2, TypedNow, TypedNext
  <1> QED
    BY <1>1, <1>2, <1>3, SubmitTyped, PostTyped, IncomingTyped, InputDoneTyped, QueryEndTyped,
       DrainBeginsTyped, DrainEndsTyped, AgentDrainsTyped, CancelTyped, PopTyped,
       RenderTyped DEF Next

(* The state keeps its types, every command that is queued or worked on    *)
(* was handed in, and a batch is of one mode.                              *)
THEOREM Typing == Spec => []TypeOK
PROOF
  <1>1. TypeInv => TypeOK
    BY DEF TypeInv
  <1> QED
    BY <1>1, InitTyped, NextTyped, PTL DEF Spec

------------------------------------------------------------------------------
(* The guard.  Generations are given out once, so a chain's query is the   *)
(* current one if its generation is.                                       *)
Querying(c) == chain[c].pc = "query"

GuardInv ==
  /\ GuardIsHeld
  /\ \A c \in Commands : chain[c].generation <= generation
  /\ \A c \in Commands : Querying(c) <=> chain[c].generation # 0

Current(c) == Querying(c) /\ chain[c].generation = generation

(* What the invariant says, and what the next state must show.             *)
LEMMA GuardNow ==
  ASSUME TypeInv, GuardInv
  PROVE  /\ status \in {"idle", "dispatching", "running"}
         /\ generation \in Nat
         /\ \A c \in Commands : chain[c].generation \in 0..generation
         /\ \A c \in Commands : Querying(c) <=> chain[c].generation # 0
         /\ status = "running" <=> \E c \in Commands : Current(c)
         /\ \A c, d \in Commands :
              Querying(c) /\ chain[c].generation = chain[d].generation => c = d
         /\ status = "dispatching" => \E c \in Commands : chain[c].pc = "input"
PROOF
  <1>1. \A c \in Commands : chain[c].generation \in Nat
    BY TypedNow DEF ChainType
  <1>2. status \in {"idle", "dispatching", "running"} /\ generation \in Nat
    BY TypedNow
  <1>3. \A c \in Commands : chain[c].generation \in 0..generation
    BY <1>1, <1>2 DEF GuardInv
  <1>4. \A c \in Commands : Querying(c) <=> chain[c].generation # 0
    BY DEF GuardInv
  <1>5. \A c \in Commands : Querying(c) => c \in Live
    BY DEF Querying, Live
  <1>6. \A c, d \in Commands :
              Querying(c) /\ chain[c].generation = chain[d].generation => c = d
    BY <1>4, <1>5 DEF GuardInv, GuardIsHeld, Querying
  <1>7. /\ status = "running" <=> \E c \in Commands : Current(c)
        /\ status = "dispatching" => \E c \in Commands : chain[c].pc = "input"
    BY DEF GuardInv, GuardIsHeld, Current, Querying
  <1> QED
    BY <1>2, <1>3, <1>4, <1>6, <1>7

LEMMA GuardNext ==
  ASSUME \A c \in Commands : chain'[c].generation <= generation',
         \A c \in Commands : chain'[c].pc = "query" <=> chain'[c].generation # 0,
         status' = "running" <=> \E c \in Commands :
            chain'[c].pc = "query" /\ chain'[c].generation = generation',
         \A c, d \in Commands :
            chain'[c].pc = "query" /\ chain'[c].generation = chain'[d].generation => c = d,
         status' = "dispatching" => \E c \in Commands : chain'[c].pc = "input"
  PROVE  GuardInv'
PROOF
  <1>1. GuardIsHeld'
    BY DEF GuardIsHeld, Live
  <1> QED
    BY <1>1 DEF GuardInv, Querying

LEMMA GuardSame ==
  ASSUME TypeInv, GuardInv, status' = status, generation' = generation,
         \A c \in Commands : /\ chain'[c].pc = chain[c].pc
                             /\ chain'[c].generation = chain[c].generation
  PROVE  GuardInv'
PROOF
  <1> QED
    BY GuardNow, GuardNext DEF Querying, Current

(* A chain begins when the guard was idle.                                 *)
LEMMA ExecuteGuard ==
  ASSUME TypeInv, GuardInv, status = "idle", NEW entries \in Seq(Entry),
         entries # <<>>, NEW hit, Execute(entries, hit), generation' = generation
  PROVE  GuardInv'
PROOF
  <1> DEFINE c == entries[1].cmd
             r == InputChain(entries)
  <1>1. c \in Commands
    <2>1. entries[1] \in Entry
      BY FirstInRange
    <2> QED
      BY <2>1 DEF Entry
  <1>2. /\ chain' = [chain EXCEPT ![c] = r] /\ status' = "dispatching"
        /\ r.pc = "input" /\ r.generation = 0
    BY DEF Execute, Reserve, InputChain
  <1> HIDE DEF c, r
  <1>3. /\ chain'[c].pc = "input" /\ chain'[c].generation = 0
        /\ \A d \in Commands \ {c} : chain'[d] = chain[d]
    BY <1>1, <1>2, TypedNow
  <1> QED
    BY <1>1, <1>2, <1>3, GuardNow, GuardNext DEF Querying, Current

(* A query begins when no other runs.                                      *)
LEMMA StartGuard ==
  ASSUME TypeInv, GuardInv, status # "running", NEW c \in Commands,
         NEW entries, NEW direct, Start(c, entries, direct)
  PROVE  GuardInv'
PROOF
  <1> DEFINE r == [pc |-> "query", entries |-> entries,
                 generation |-> generation + 1, direct |-> direct, drain |-> {}]
  <1>1. /\ chain' = [chain EXCEPT ![c] = r] /\ status' = "running"
        /\ generation' = generation + 1
        /\ r.pc = "query" /\ r.generation = generation + 1
    BY DEF Start
  <1> HIDE DEF r
  <1>2. /\ chain'[c].pc = "query" /\ chain'[c].generation = generation + 1
        /\ \A d \in Commands \ {c} : chain'[d] = chain[d]
    BY <1>1, TypedNow
  <1>3. \A d \in Commands \ {c} : /\ chain'[d].generation \in 0..generation
                                  /\ chain'[d].pc = "query" <=> chain'[d].generation # 0
    BY <1>2, GuardNow DEF Querying
  <1>4. /\ generation \in Nat
        /\ \A d \in Commands \ {c} : chain'[d].generation # generation + 1
    BY <1>3, GuardNow
  <1>5. \A d \in Commands : chain'[d].generation <= generation'
    BY <1>1, <1>2, <1>3, <1>4
  <1>6. \A d, b \in Commands :
            chain'[d].pc = "query" /\ chain'[d].generation = chain'[b].generation => d = b
    BY <1>2, <1>3, <1>4, GuardNow DEF Querying
  <1> QED
    BY <1>1, <1>2, <1>3, <1>4, <1>5, <1>6, GuardNext

(* A chain ends: the guard was not its own and stays as it is, or it is    *)
(* given up.                                                               *)
LEMMA EndGuard ==
  ASSUME TypeInv, GuardInv, NEW c \in Commands,
         chain' = [chain EXCEPT ![c] = NoChain],
         \/ /\ status' = status /\ generation' = generation
            /\ ~Current(c) /\ (status = "dispatching" => chain[c].pc # "input")
         \/ /\ status # "running" \/ Current(c)
            /\ status' = "idle" /\ generation' \in {generation, generation + 1}
  PROVE  GuardInv'
PROOF
  <1>1. /\ chain'[c].pc = "none" /\ chain'[c].generation = 0
        /\ \A d \in Commands \ {c} : chain'[d] = chain[d]
    BY TypedNow DEF NoChain
  <1>2. \A d \in Commands : /\ chain'[d].generation \in 0..generation
                            /\ chain'[d].pc = "query" <=> chain'[d].generation # 0
    BY <1>1, GuardNow DEF Querying
  <1>3. \A d, b \in Commands :
            chain'[d].pc = "query" /\ chain'[d].generation = chain'[b].generation => d = b
    BY <1>1, <1>2, GuardNow DEF Querying
  <1>4. \A d \in Commands : chain'[d].generation <= generation'
    BY <1>2, GuardNow
  <1>5. CASE /\ status' = status /\ generation' = generation
             /\ ~Current(c) /\ (status = "dispatching" => chain[c].pc # "input")
    <2>1. status' = "dispatching" => \E d \in Commands : chain'[d].pc = "input"
      BY <1>1, <1>5, GuardNow
    <2>2. status' = "running" <=> \E d \in Commands :
            chain'[d].pc = "query" /\ chain'[d].generation = generation'
      BY <1>1, <1>5, GuardNow DEF Current, Querying
    <2> QED
      BY <1>2, <1>3, <1>4, <2>1, <2>2, GuardNext
  <1>6. CASE /\ status # "running" \/ Current(c)
             /\ status' = "idle" /\ generation' \in {generation, generation + 1}
    <2>1. \A d \in Commands \ {c} : ~Current(d)
      BY <1>6, GuardNow DEF Current
    <2>2. \A d \in Commands :
            ~(chain'[d].pc = "query" /\ chain'[d].generation = generation')
      <3> SUFFICES ASSUME NEW d \in Commands \ {c}, chain'[d].pc = "query"
                   PROVE  chain'[d].generation # generation'
        BY <1>1
      <3>1. chain[d].generation # generation /\ chain[d].generation \in 0..generation
            /\ generation \in Nat
        BY <1>1, <2>1, GuardNow DEF Current, Querying
      <3> QED
        BY <1>1, <1>6, <3>1
    <2> QED
      BY <1>2, <1>3, <1>4, <1>6, <2>2, GuardNext
  <1> QED
    BY <1>5, <1>6

LEMMA InitGuard == Init => GuardInv
PROOF
  <1> SUFFICES ASSUME Init
               PROVE  GuardInv
    OBVIOUS
  <1>1. /\ status = "idle" /\ generation = 0
        /\ \A c \in Commands : chain[c].pc = "none" /\ chain[c].generation = 0
    BY DEF Init, NoChain
  <1> QED
    BY <1>1 DEF GuardInv, GuardIsHeld, Querying, Live

LEMMA SubmitGuard ==
  ASSUME TypeInv, GuardInv, NEW k \in Typed, Submit(k) PROVE GuardInv'
PROOF
  <1> DEFINE e == [cmd |-> handedIn + 1, kind |-> k, copy |-> FALSE]
  <1>1. e \in Entry
    BY TypedNow, NewEntry, KindsAre DEF Submit, HandIn
  <1>2. CASE UNCHANGED <<guard, controller, chain>>
    <2>1. status' = status /\ generation' = generation /\ chain' = chain
      BY <1>2 DEF guard
    <2> QED
      BY <2>1, GuardSame
  <1>3. CASE /\ status = "idle" /\ Execute(<<e>>, {})
             /\ UNCHANGED <<generation, queue, rendered>>
    <2> HIDE DEF e
    <2>1. <<e>> \in Seq(Entry) /\ <<e>> # <<>>
      BY <1>1
    <2> QED
      BY <1>3, <2>1, ExecuteGuard
  <1> QED
    BY <1>2, <1>3 DEF Submit

LEMMA IncomingGuard ==
  ASSUME TypeInv, GuardInv, NEW k \in Incomings, Incoming(k) PROVE GuardInv'
PROOF
  <1> DEFINE e == [cmd |-> handedIn + 1, kind |-> k, copy |-> FALSE]
  <1>1. /\ handedIn < MaxCommands /\ status = "idle" /\ Start(e.cmd, <<e>>, TRUE)
    BY DEF Incoming, HandIn
  <1>2. e.cmd \in Commands
    BY <1>1, TypedNow, NewEntry, KindsAre
  <1> HIDE DEF e
  <1> QED
    BY <1>1, <1>2, StartGuard

LEMMA InputDoneGuard ==
  ASSUME TypeInv, GuardInv, NEW c \in Commands, InputDone(c) PROVE GuardInv'
PROOF
  <1>1. chain[c].pc = "input" /\ ~Current(c)
    BY DEF InputDone, Current, Querying
  <1>2. CASE status = "running" /\ Requeue(c)
    <2>1. /\ chain' = [chain EXCEPT ![c] = NoChain]
          /\ status' = status /\ generation' = generation
      BY <1>2 DEF Requeue, guard
    <2> QED
      BY <1>1, <1>2, <2>1, EndGuard
  <1>3. CASE status # "running" /\ Start(c, chain[c].entries, FALSE)
    BY <1>3, StartGuard
  <1>4. CASE /\ status # "running" /\ status' = "idle" /\ generation' = generation + 1
             /\ Settle(c)
    BY <1>4, EndGuard DEF Settle
  <1>5. CASE /\ status' = Unreserved(status) /\ generation' = generation /\ Settle(c)
    <2>1. chain' = [chain EXCEPT ![c] = NoChain]
      BY <1>5 DEF Settle
    <2>2. CASE status = "dispatching"
      BY <1>5, <2>1, <2>2, EndGuard DEF Unreserved
    <2>3. CASE status # "dispatching"
      BY <1>1, <1>5, <2>1, <2>3, EndGuard DEF Unreserved
    <2> QED
      BY <2>2, <2>3
  <1> QED
    BY <1>2, <1>3, <1>4, <1>5 DEF InputDone

LEMMA QueryEndGuard ==
  ASSUME TypeInv, GuardInv, NEW c \in Commands, QueryEnd(c) PROVE GuardInv'
PROOF
  <1> DEFINE current == status = "running" /\ chain[c].generation = generation
             ended == IF current THEN "idle" ELSE status
  <1>1. /\ chain[c].pc = "query" /\ generation' = generation
        /\ chain' = [chain EXCEPT ![c] = NoChain]
        /\ status' = IF chain[c].direct THEN ended ELSE Unreserved(ended)
    BY DEF QueryEnd
  <1>2. current <=> Current(c)
    BY <1>1, GuardNow DEF Current, Querying
  <1>3. CASE current
    <2>1. status' = "idle"
      BY <1>1, <1>3 DEF Unreserved
    <2> QED
      BY <1>1, <1>2, <1>3, <2>1, EndGuard
  <1>4. CASE ~current
    <2>1. CASE status' = status
      BY <1>1, <1>2, <1>4, <2>1, EndGuard
    <2>2. CASE status = "dispatching" /\ status' = "idle"
      BY <1>1, <2>2, EndGuard
    <2> QED
      BY <1>1, <1>4, <2>1, <2>2 DEF Unreserved
  <1> QED
    BY <1>3, <1>4

LEMMA DrainGuard ==
  ASSUME TypeInv, GuardInv, NEW c \in Commands, NEW S,
         chain' = [chain EXCEPT ![c].drain = S],
         status' = status, generation' = generation
  PROVE  GuardInv'
PROOF
  <1>1. \A d \in Commands : /\ chain'[d].pc = chain[d].pc
                            /\ chain'[d].generation = chain[d].generation
    BY TypedNow DEF ChainType
  <1> QED
    BY <1>1, GuardSame

LEMMA CancelGuard == ASSUME TypeInv, GuardInv, Cancel PROVE GuardInv'
PROOF
  <1>1. /\ status' = "idle" /\ chain' = chain
        /\ generation' = IF status = "idle" THEN generation ELSE generation + 1
    BY DEF Cancel
  <1>2. \A c \in Commands : chain'[c].generation <= generation'
    BY <1>1, GuardNow
  <1>3. \A c \in Commands :
            ~(chain'[c].pc = "query" /\ chain'[c].generation = generation')
    BY <1>1, GuardNow DEF Current, Querying
  <1> QED
    BY <1>1, <1>2, <1>3, GuardNow, GuardNext DEF Querying

LEMMA RenderGuard == ASSUME TypeInv, GuardInv, Render PROVE GuardInv'
PROOF
  <1>1. PICK hit \in SUBSET Commands :
              \/ /\ status = "idle"
                 /\ ProcessQueue(hit)
              \/ /\ rendered' = [active |-> status # "idle", queue |-> TRUE, jsx |-> jsx]
                 /\ aborted' = aborted \cup hit
                 /\ UNCHANGED <<status, queue, controller, chain>>
    BY RenderSteps
  <1>2. generation' = generation
    BY RenderSteps
  <1>3. CASE status = "idle" /\ ProcessQueue(hit)
    <2>1. PICK first \in Peek(MainThread) : Execute(Batch(first), hit)
      BY <1>3 DEF ProcessQueue
    <2>2. Batch(first) \in Seq(Entry) /\ Batch(first) # <<>>
      BY TypedNow, BatchFacts
    <2> QED
      BY <1>2, <1>3, <2>1, <2>2, ExecuteGuard
  <1>4. CASE UNCHANGED <<status, queue, controller, chain>>
    BY <1>2, <1>4, GuardSame
  <1> QED
    BY <1>1, <1>3, <1>4

LEMMA NextGuard == TypeInv /\ GuardInv /\ [Next]_vars => GuardInv'
PROOF
  <1> SUFFICES ASSUME TypeInv, GuardInv, [Next]_vars
               PROVE  GuardInv'
    OBVIOUS
  <1>1. ASSUME NEW c \in Commands, DrainBegins(c) \/ DrainEnds(c)
        PROVE  GuardInv'
    <2>1. status' = status /\ generation' = generation
      BY <1>1 DEF DrainBegins, DrainEnds, guard
    <2>2. PICK S : chain' = [chain EXCEPT ![c].drain = S]
      BY <1>1 DEF DrainBegins, DrainEnds
    <2> QED
      BY <2>1, <2>2, DrainGuard
  <1>2. CASE UNCHANGED <<guard, chain>>
    BY <1>2, GuardSame DEF guard
  <1>3. ASSUME NEW k \in Posted, Post(k)
        PROVE  UNCHANGED <<guard, chain>>
    BY <1>3 DEF Post
  <1>4. AgentDrains \/ ToggleJsx \/ Pop \/ UNCHANGED vars => UNCHANGED <<guard, chain>>
    BY DEF AgentDrains, ToggleJsx, Pop, vars
  <1> QED
    BY <1>1, <1>2, <1>3, <1>4, SubmitGuard, IncomingGuard, InputDoneGuard,
       QueryEndGuard, CancelGuard, RenderGuard DEF Next

LEMMA GuardAlways == Spec => [](TypeInv /\ GuardInv)
PROOF
  <1> QED
    BY InitTyped, NextTyped, InitGuard, NextGuard, PTL DEF Spec

(* Whoever holds the guard will release it, whatever was cancelled and     *)
(* however late the finally blocks run: it is running exactly while the    *)
(* query of the current generation runs, and dispatching only while some   *)
(* input is processed.                                                     *)
THEOREM Guard == Spec => []GuardIsHeld
PROOF
  <1>1. GuardInv => GuardIsHeld
    BY DEF GuardInv
  <1> QED
    BY <1>1, GuardAlways, PTL

------------------------------------------------------------------------------
(* One chain at a time, until the user cancels.                            *)
OneInv == cancels = 0 => \A c \in Live : controller = c /\ status # "idle"

LEMMA OneNow ==
  ASSUME TypeInv, GuardInv, OneInv, cancels = 0
  PROVE  /\ \A c \in Live : controller = c /\ status # "idle"
         /\ \A c, d \in Live : c = d
         /\ \A c \in Live : status = "running" => Querying(c)
         /\ status = "idle" => Live = {}
PROOF
  <1>1. \A c \in Live : controller = c /\ status # "idle"
    BY DEF OneInv
  <1>2. \A c, d \in Live : c = d
    BY <1>1
  <1>3. \A c \in Live : status = "running" => Querying(c)
    <2> SUFFICES ASSUME NEW c \in Live, status = "running"
                 PROVE  Querying(c)
      OBVIOUS
    <2>1. PICK d \in Commands : Current(d)
      BY GuardNow
    <2>2. d \in Live
      BY <2>1 DEF Current, Querying, Live
    <2> QED
      BY <1>2, <2>1, <2>2 DEF Current
  <1> QED
    BY <1>1, <1>2, <1>3

(* One chain goes on, and it is the one whose controller is held.          *)
LEMMA OneLeft ==
  ASSUME Live' \subseteq {controller'}, Live' = {} \/ status' # "idle"
  PROVE  OneInv'
PROOF
  <1> QED
    BY DEF OneInv

LEMMA OneSame ==
  ASSUME TypeInv, OneInv, status' = status, controller' = controller, cancels' = cancels,
         \A c \in Commands : chain'[c].pc = chain[c].pc
  PROVE  OneInv'
PROOF
  <1>1. Live' = Live
    BY DEF Live
  <1> QED
    BY <1>1 DEF OneInv

(* Where a chain begins or goes on, and where one ends.                    *)
LEMMA LiveChange ==
  ASSUME TypeInv, NEW c \in Commands, NEW r, chain' = [chain EXCEPT ![c] = r]
  PROVE  /\ Live' \subseteq Live \cup {c}
         /\ r = NoChain => Live' = Live \ {c}
PROOF
  <1>1. /\ chain'[c] = r
        /\ \A d \in Commands \ {c} : chain'[d] = chain[d]
    BY TypedNow
  <1>2. NoChain.pc = "none"
    BY DEF NoChain
  <1> QED
    BY <1>1, <1>2 DEF Live

LEMMA ExecuteOne ==
  ASSUME TypeInv, GuardInv, OneInv, status = "idle", cancels = 0,
         NEW entries \in Seq(Entry), entries # <<>>, NEW hit, Execute(entries, hit)
  PROVE  OneInv'
PROOF
  <1>1. entries[1].cmd \in Commands
    <2>1. entries[1] \in Entry
      BY FirstInRange
    <2> QED
      BY <2>1 DEF Entry
  <1>2. /\ controller' = entries[1].cmd /\ status' = "dispatching"
        /\ chain' = [chain EXCEPT ![entries[1].cmd] = InputChain(entries)]
    BY DEF Execute, Reserve
  <1>3. Live = {}
    BY OneNow
  <1>4. Live' \subseteq {controller'}
    BY <1>1, <1>2, <1>3, LiveChange
  <1> QED
    BY <1>2, <1>4, OneLeft

LEMMA SubmitOne ==
  ASSUME TypeInv, GuardInv, OneInv, cancels = 0, NEW k \in Typed, Submit(k)
  PROVE  OneInv'
PROOF
  <1> DEFINE e == [cmd |-> handedIn + 1, kind |-> k, copy |-> FALSE]
  <1>1. e \in Entry
    BY TypedNow, NewEntry, KindsAre DEF Submit, HandIn
  <1>2. cancels' = cancels
    BY DEF Submit
  <1>3. CASE UNCHANGED <<guard, controller, chain>>
    BY <1>2, <1>3, OneSame DEF guard
  <1>4. CASE status = "idle" /\ Execute(<<e>>, {})
    <2> HIDE DEF e
    <2>1. <<e>> \in Seq(Entry) /\ <<e>> # <<>>
      BY <1>1
    <2> QED
      BY <1>4, <2>1, ExecuteOne
  <1> QED
    BY <1>3, <1>4 DEF Submit

LEMMA IncomingOne ==
  ASSUME TypeInv, GuardInv, OneInv, cancels = 0, NEW k \in Incomings, Incoming(k)
  PROVE  OneInv'
PROOF
  <1> DEFINE e == [cmd |-> handedIn + 1, kind |-> k, copy |-> FALSE]
  <1>1. /\ handedIn < MaxCommands /\ status = "idle" /\ Start(e.cmd, <<e>>, TRUE)
        /\ controller' = e.cmd
    BY DEF Incoming, HandIn
  <1>2. e.cmd \in Commands
    BY <1>1, TypedNow, NewEntry, KindsAre
  <1> HIDE DEF e
  <1>3. /\ status' = "running"
        /\ \E r : chain' = [chain EXCEPT ![e.cmd] = r]
    BY <1>1 DEF Start
  <1>4. Live = {}
    BY <1>1, OneNow
  <1>5. Live' \subseteq {controller'}
    BY <1>1, <1>2, <1>3, <1>4, LiveChange
  <1> QED
    BY <1>3, <1>5, OneLeft

(* Every way in which the one chain ends.                                  *)
LEMMA EndOne ==
  ASSUME TypeInv, GuardInv, OneInv, cancels = 0, NEW c \in Live,
         chain' = [chain EXCEPT ![c] = NoChain]
  PROVE  OneInv'
PROOF
  <1>1. c \in Commands
    BY DEF Live
  <1>2. Live' = {}
    BY <1>1, OneNow, LiveChange
  <1> QED
    BY <1>2, OneLeft

LEMMA InputDoneOne ==
  ASSUME TypeInv, GuardInv, OneInv, cancels = 0, NEW c \in Commands, InputDone(c)
  PROVE  OneInv'
PROOF
  <1>1. c \in Live /\ ~Querying(c)
    BY DEF InputDone, Live, Querying
  <1>2. status # "running"
    BY <1>1, OneNow
  <1>3. CASE Start(c, chain[c].entries, FALSE) /\ controller' = controller
    <2>1. /\ status' = "running"
          /\ \E r : chain' = [chain EXCEPT ![c] = r]
      BY <1>3 DEF Start
    <2>2. Live \subseteq {c} /\ controller = c
      BY <1>1, OneNow
    <2>3. Live' \subseteq {controller'}
      BY <1>3, <2>1, <2>2, LiveChange
    <2> QED
      BY <2>1, <2>3, OneLeft
  <1>4. CASE chain' = [chain EXCEPT ![c] = NoChain]
    BY <1>1, <1>4, EndOne
  <1> QED
    BY <1>2, <1>3, <1>4 DEF InputDone, Requeue, Settle

LEMMA RenderOne ==
  ASSUME TypeInv, GuardInv, OneInv, cancels = 0, Render
  PROVE  OneInv'
PROOF
  <1>1. PICK hit \in SUBSET Commands :
              \/ /\ status = "idle"
                 /\ ProcessQueue(hit)
              \/ /\ rendered' = [active |-> status # "idle", queue |-> TRUE, jsx |-> jsx]
                 /\ aborted' = aborted \cup hit
                 /\ UNCHANGED <<status, queue, controller, chain>>
    BY RenderSteps
  <1>2. cancels' = cancels
    BY RenderSteps
  <1>3. CASE status = "idle" /\ ProcessQueue(hit)
    <2>1. PICK first \in Peek(MainThread) : Execute(Batch(first), hit)
      BY <1>3 DEF ProcessQueue
    <2>2. Batch(first) \in Seq(Entry) /\ Batch(first) # <<>>
      BY TypedNow, BatchFacts
    <2> QED
      BY <1>3, <2>1, <2>2, ExecuteOne
  <1>4. CASE UNCHANGED <<status, queue, controller, chain>>
    BY <1>2, <1>4, OneSame
  <1> QED
    BY <1>1, <1>3, <1>4

LEMMA NextOne == TypeInv /\ GuardInv /\ OneInv /\ [Next]_vars => OneInv'
PROOF
  <1> SUFFICES ASSUME TypeInv, GuardInv, OneInv, [Next]_vars, cancels' = 0
               PROVE  OneInv'
    BY DEF OneInv
  <1>1. CASE Cancel
    <2>1. cancels' = cancels + 1 /\ cancels \in 0..MaxCancels
      BY <1>1, TypedNow DEF Cancel
    <2> QED
      BY <2>1, ConstantsAssumption
  <1>2. ASSUME NEW c \in Commands, DrainBegins(c) \/ DrainEnds(c)
        PROVE  OneInv'
    <2>1. status' = status /\ controller' = controller /\ cancels' = cancels
      BY <1>2 DEF DrainBegins, DrainEnds, guard
    <2>2. PICK S : chain' = [chain EXCEPT ![c].drain = S]
      BY <1>2 DEF DrainBegins, DrainEnds
    <2>3. \A d \in Commands : chain'[d].pc = chain[d].pc
      BY <2>2, TypedNow DEF ChainType
    <2> QED
      BY <2>1, <2>3, OneSame
  <1>3. CASE UNCHANGED <<guard, controller, chain, cancels>>
    BY <1>3, OneSame DEF guard
  <1>4. ASSUME NEW k \in Posted, Post(k)
        PROVE  UNCHANGED <<guard, controller, chain, cancels>>
    BY <1>4 DEF Post
  <1>5. AgentDrains \/ ToggleJsx \/ Pop \/ UNCHANGED vars => UNCHANGED <<guard, controller, chain, cancels>>
    BY DEF AgentDrains, ToggleJsx, Pop, vars
  <1>6. ASSUME NEW k \in Typed, Submit(k)
        PROVE  OneInv'
    <2>1. cancels = 0
      BY <1>6 DEF Submit
    <2> QED
      BY <1>6, <2>1, SubmitOne
  <1>7. ASSUME NEW k \in Incomings, Incoming(k)
        PROVE  OneInv'
    <2>1. cancels = 0
      BY <1>7 DEF Incoming
    <2> QED
      BY <1>7, <2>1, IncomingOne
  <1>8. ASSUME NEW c \in Commands, InputDone(c)
        PROVE  OneInv'
    <2>1. cancels = 0
      BY <1>8 DEF InputDone
    <2> QED
      BY <1>8, <2>1, InputDoneOne
  <1>9. ASSUME NEW c \in Commands, QueryEnd(c)
        PROVE  OneInv'
    <2>1. cancels = 0 /\ c \in Live /\ chain' = [chain EXCEPT ![c] = NoChain]
      BY <1>9 DEF QueryEnd, Live
    <2> QED
      BY <2>1, EndOne
  <1>10. CASE Render
    <2>1. cancels = 0
      BY <1>10 DEF Render
    <2> QED
      BY <1>10, <2>1, RenderOne
  <1> QED
    BY <1>1, <1>2, <1>3, <1>4, <1>5, <1>6, <1>7, <1>8, <1>9, <1>10 DEF Next

LEMMA InitOne == Init => OneInv
PROOF
  <1> QED
    BY DEF Init, OneInv, Live, NoChain

(* "queryGuard guarantees no concurrent executeUserInput call": until the  *)
(* user cancels there is at most one chain, the guard is not idle while it *)
(* works, and the interface holds its controller.                          *)
THEOREM OneChain == Spec => []OneChainUntilCancel
PROOF
  <1>1. OneInv => OneChainUntilCancel
    <2> SUFFICES ASSUME OneInv, cancels = 0
                 PROVE  /\ Cardinality(Live) <= 1
                        /\ \A c \in Live : controller = c /\ status # "idle"
      BY DEF OneChainUntilCancel
    <2>1. \A c \in Live : controller = c /\ status # "idle"
      BY DEF OneInv
    <2>2. Live \in SUBSET {controller}
      BY <2>1
    <2>3. Cardinality(Live) <= Cardinality({controller}) /\ Cardinality({controller}) = 1
      BY <2>2, FS_Singleton, FS_Subset
    <2> QED
      BY <2>1, <2>3
  <1> QED
    BY <1>1, GuardAlways, InitOne, NextOne, PTL DEF Spec

------------------------------------------------------------------------------
(* A command is in one place: in one entry of the queue, or in one chain,  *)
(* unless it is settled, as the commands of a query are.  So a chain never *)
(* takes the place of another one that has the same first command.         *)
Held(c) == Cmds(chain[c].entries)

InOnePlace ==
  /\ \A e, f \in Range(queue) : e.cmd = f.cmd => e = f
  /\ \A c \in Commands : Held(c) \cap Cmds(queue) = {}
  /\ \A c, d \in Commands : c # d => Held(c) \cap Held(d) = {}

Somewhere ==
  \A n \in 1..handedIn :
    n \in settled \/ n \in Cmds(queue) \/ \E c \in Commands : n \in Held(c)

QueriesAreSettled == \A c \in Commands : Querying(c) => Held(c) \subseteq settled

PlaceInv == InOnePlace /\ Somewhere /\ QueriesAreSettled

LEMMA HeldIsKnown ==
  ASSUME TypeInv
  PROVE  /\ \A c \in Commands : Held(c) \subseteq 1..handedIn
         /\ \A c \in Commands : Held(c) # {} => c \in Held(c) /\ c \in Live
         /\ \A c \in Commands : c \notin Held(c) => Held(c) = {}
         /\ handedIn + 1 \notin 1..handedIn
         /\ 1..(handedIn + 1) = 1..handedIn \cup {handedIn + 1}
PROOF
  <1>1. \A c \in Commands : Sound(c, chain[c], handedIn) /\ chain[c].entries \in Seq(Entry)
    BY TypedNow DEF ChainType
  <1>2. Cmds(<<>>) = {}
    BY DEF Cmds, Range
  <1>3. \A c \in Commands : Held(c) # {} => c \in Held(c) /\ c \in Live
    BY <1>1, <1>2 DEF Held, Sound, Live
  <1>4. \A c \in Commands : Held(c) \subseteq 1..handedIn
    BY <1>1 DEF Held, Sound
  <1>5. /\ handedIn + 1 \notin 1..handedIn
        /\ 1..(handedIn + 1) = 1..handedIn \cup {handedIn + 1}
    BY TypedNow
  <1> QED
    BY <1>3, <1>4, <1>5

LEMMA SomewhereSuffices == TypeInv /\ PlaceInv => NothingLost
PROOF
  <1> SUFFICES ASSUME TypeInv, PlaceInv, NEW n \in 1..handedIn,
                      n \notin settled, n \notin Cmds(queue)
               PROVE  \E d \in Live : n \in Cmds(chain[d].entries)
    BY DEF NothingLost
  <1>1. PICK c \in Commands : n \in Held(c)
    BY DEF PlaceInv, Somewhere
  <1>2. c \in Live
    BY <1>1, HeldIsKnown
  <1> QED
    BY <1>1, <1>2 DEF Held

LEMMA InitPlace == Init => PlaceInv
PROOF
  <1> SUFFICES ASSUME Init
               PROVE  PlaceInv
    OBVIOUS
  <1>1. Range(<<>>) = {}
    BY DEF Range
  <1>2. /\ Range(queue) = {} /\ Cmds(queue) = {} /\ handedIn = 0
        /\ \A c \in Commands : Held(c) = {} /\ ~Querying(c)
    BY <1>1 DEF Init, NoChain, Held, Cmds, Querying
  <1> QED
    BY <1>2 DEF PlaceInv, InOnePlace, Somewhere, QueriesAreSettled

(* What the next state must show, in its own words.                        *)
LEMMA PlaceNext ==
  ASSUME \A e, f \in Range(queue') : e.cmd = f.cmd => e = f,
         \A c \in Commands : Cmds(chain'[c].entries) \cap CmdsIn(Range(queue')) = {},
         \A c, d \in Commands : c # d =>
            Cmds(chain'[c].entries) \cap Cmds(chain'[d].entries) = {},
         \A n \in 1..handedIn' : \/ n \in settled' \/ n \in CmdsIn(Range(queue'))
                                \/ \E c \in Commands : n \in Cmds(chain'[c].entries),
         \A c \in Commands : chain'[c].pc = "query" => Cmds(chain'[c].entries) \subseteq settled'
  PROVE  PlaceInv'
PROOF
  <1>1. CmdsIn(Range(queue')) = Cmds(queue)'
    BY DEF Cmds, CmdsIn
  <1>2. \A c \in Commands : Cmds(chain'[c].entries) = Held(c)'
    BY DEF Held, Cmds
  <1>3. InOnePlace'
    BY <1>1, <1>2 DEF InOnePlace
  <1>4. Somewhere'
    BY <1>1, <1>2 DEF Somewhere
  <1>5. QueriesAreSettled'
    BY <1>2 DEF QueriesAreSettled, Querying
  <1> QED
    BY <1>3, <1>4, <1>5 DEF PlaceInv

LEMMA PlaceNow ==
  ASSUME PlaceInv
  PROVE  /\ \A e, f \in Range(queue) : e.cmd = f.cmd => e = f
         /\ \A c \in Commands : Held(c) \cap CmdsIn(Range(queue)) = {}
         /\ \A c, d \in Commands : c # d => Held(c) \cap Held(d) = {}
         /\ \A n \in 1..handedIn : \/ n \in settled \/ n \in CmdsIn(Range(queue))
                                   \/ \E c \in Commands : n \in Held(c)
         /\ \A c \in Commands : chain[c].pc = "query" => Held(c) \subseteq settled
PROOF
  <1> QED
    BY CmdsAre DEF PlaceInv, InOnePlace, Somewhere, QueriesAreSettled, Querying

(* The chains stay as they are, but for what a drain has found.            *)
ChainsStay == \A c \in Commands : /\ chain'[c].entries = chain[c].entries
                                 /\ chain'[c].pc = chain[c].pc

(* Commands leave the queue and are settled.                               *)
LEMMA PlaceOut ==
  ASSUME TypeInv, PlaceInv, NEW S, Range(queue') = Range(queue) \ S,
         settled \subseteq settled', CmdsIn(Range(queue) \cap S) \subseteq settled',
         handedIn' = handedIn, ChainsStay
  PROVE  PlaceInv'
PROOF
  <1>1. \A c \in Commands : Cmds(chain'[c].entries) = Held(c)
    BY DEF ChainsStay, Held
  <1>2. CmdsIn(Range(queue')) \subseteq CmdsIn(Range(queue))
    BY DEF CmdsIn
  <1>3. CmdsIn(Range(queue)) \subseteq CmdsIn(Range(queue')) \cup settled'
    BY DEF CmdsIn
  <1>4. \A n \in 1..handedIn' : \/ n \in settled' \/ n \in CmdsIn(Range(queue'))
                                \/ \E c \in Commands : n \in Cmds(chain'[c].entries)
    <2> SUFFICES ASSUME NEW n \in 1..handedIn
                 PROVE  \/ n \in settled' \/ n \in CmdsIn(Range(queue'))
                        \/ \E c \in Commands : n \in Held(c)
      BY <1>1
    <2>1. \/ n \in settled \/ n \in CmdsIn(Range(queue))
          \/ \E c \in Commands : n \in Held(c)
      BY PlaceNow
    <2> QED
      BY <1>3, <2>1
  <1>5. \A c \in Commands : chain'[c].pc = "query" => Cmds(chain'[c].entries) \subseteq settled'
    BY <1>1, PlaceNow DEF ChainsStay
  <1>6. \A e, f \in Range(queue') : e.cmd = f.cmd => e = f
    BY PlaceNow
  <1>7. \A c \in Commands : Cmds(chain'[c].entries) \cap CmdsIn(Range(queue')) = {}
    <2>1. \A c \in Commands : Held(c) \cap CmdsIn(Range(queue)) = {}
      BY PlaceNow
    <2> QED
      BY <1>1, <1>2, <2>1
  <1>8. \A c, d \in Commands : c # d =>
            Cmds(chain'[c].entries) \cap Cmds(chain'[d].entries) = {}
    BY <1>1, PlaceNow
  <1> QED
    BY <1>4, <1>5, <1>6, <1>7, <1>8, PlaceNext

(* A command that was handed in is queued.                                 *)
LEMMA PlaceIn ==
  ASSUME TypeInv, PlaceInv, NEW e, e.cmd = handedIn + 1, handedIn' = handedIn + 1,
         Range(queue') = Range(queue) \cup {e}, settled' = settled, ChainsStay
  PROVE  PlaceInv'
PROOF
  <1>1. \A c \in Commands : Cmds(chain'[c].entries) = Held(c)
    BY DEF ChainsStay, Held
  <1>2. CmdsIn(Range(queue')) = CmdsIn(Range(queue)) \cup {handedIn + 1}
    BY DEF CmdsIn
  <1>3. CmdsIn(Range(queue)) \subseteq 1..handedIn
    BY TypedNow, CmdsAre
  <1>4. \A f \in Range(queue) : f.cmd # handedIn + 1
    BY <1>3, HeldIsKnown DEF CmdsIn
  <1>5. \A f, g \in Range(queue') : f.cmd = g.cmd => f = g
    BY <1>4, PlaceNow
  <1>6. \A c \in Commands : Cmds(chain'[c].entries) \cap CmdsIn(Range(queue')) = {}
    <2> SUFFICES ASSUME NEW c \in Commands
                 PROVE  Held(c) \cap CmdsIn(Range(queue')) = {}
      BY <1>1
    <2>1. Held(c) \cap CmdsIn(Range(queue)) = {}
      BY PlaceNow
    <2>2. Held(c) \subseteq 1..handedIn /\ handedIn + 1 \notin 1..handedIn
      BY HeldIsKnown
    <2> QED
      BY <1>2, <2>1, <2>2
  <1>7. \A n \in 1..handedIn' : \/ n \in settled' \/ n \in CmdsIn(Range(queue'))
                                \/ \E c \in Commands : n \in Cmds(chain'[c].entries)
    <2> SUFFICES ASSUME NEW n \in 1..(handedIn + 1)
                 PROVE  \/ n \in settled \/ n \in CmdsIn(Range(queue'))
                        \/ \E c \in Commands : n \in Held(c)
      BY <1>1
    <2>1. n \in 1..handedIn \/ n = handedIn + 1
      BY HeldIsKnown
    <2>2. n \in 1..handedIn => \/ n \in settled \/ n \in CmdsIn(Range(queue))
                              \/ \E c \in Commands : n \in Held(c)
      BY PlaceNow
    <2> QED
      BY <1>2, <2>1, <2>2
  <1>8. \A c \in Commands : chain'[c].pc = "query" => Cmds(chain'[c].entries) \subseteq settled'
    BY <1>1, PlaceNow DEF ChainsStay
  <1>9. \A c, d \in Commands : c # d =>
            Cmds(chain'[c].entries) \cap Cmds(chain'[d].entries) = {}
    BY <1>1, PlaceNow
  <1> QED
    BY <1>5, <1>6, <1>7, <1>8, <1>9, PlaceNext

(* A chain c takes over the commands of S from the queue, or is handed a   *)
(* new one; nobody else had its name.                                      *)
LEMMA PlaceBegun ==
  ASSUME TypeInv, PlaceInv, NEW c \in Commands, NEW r, NEW S \in SUBSET Range(queue),
         chain' = [chain EXCEPT ![c] = r],
         Range(queue') = Range(queue) \ S, settled \subseteq settled',
         r.pc = "query" => Cmds(r.entries) \subseteq settled',
         \/ /\ S # {} /\ Cmds(r.entries) = CmdsIn(S) /\ c \in CmdsIn(S)
            /\ handedIn' = handedIn
         \/ /\ S = {} /\ Cmds(r.entries) = {handedIn + 1} /\ c = handedIn + 1
            /\ handedIn' = handedIn + 1
  PROVE  PlaceInv'
PROOF
  <1>1. /\ Cmds(chain'[c].entries) = Cmds(r.entries)
        /\ \A d \in Commands \ {c} : chain'[d] = chain[d]
        /\ \A d \in Commands \ {c} : Cmds(chain'[d].entries) = Held(d)
    BY TypedNow DEF Held
  <1>2. CmdsIn(Range(queue)) \subseteq 1..handedIn
    BY TypedNow, CmdsAre
  <1>3. CmdsIn(S) \subseteq CmdsIn(Range(queue))
    BY DEF CmdsIn
  <1>4. Held(c) = {}
    <2>1. CASE c \in CmdsIn(S)
      <3>1. c \notin Held(c)
        BY <1>3, <2>1, PlaceNow
      <3> QED
        BY <3>1, HeldIsKnown
    <2>2. CASE c = handedIn + 1
      <3>1. Held(c) \subseteq 1..handedIn /\ handedIn + 1 \notin 1..handedIn
        BY HeldIsKnown
      <3>2. c \notin Held(c)
        BY <2>2, <3>1
      <3> QED
        BY <3>2, HeldIsKnown
    <2> QED
      BY <2>1, <2>2
  <1>5. CmdsIn(Range(queue')) \cap CmdsIn(S) = {}
    <2>1. \A e \in Range(queue'), f \in S : e.cmd # f.cmd
      BY PlaceNow
    <2> QED
      BY <2>1 DEF CmdsIn
  <1>6. CmdsIn(Range(queue)) = CmdsIn(Range(queue')) \cup CmdsIn(S)
    BY DEF CmdsIn
  <1>7. /\ \A d \in Commands : Held(d) \cap Cmds(r.entries) = {}
        /\ CmdsIn(Range(queue')) \cap Cmds(r.entries) = {}
    <2>1. CASE Cmds(r.entries) = CmdsIn(S)
      <3>1. \A d \in Commands : Held(d) \cap CmdsIn(Range(queue)) = {}
        BY PlaceNow
      <3> QED
        BY <1>3, <1>5, <2>1, <3>1
    <2>2. CASE Cmds(r.entries) = {handedIn + 1}
      <3>1. /\ \A d \in Commands : Held(d) \subseteq 1..handedIn
            /\ handedIn + 1 \notin 1..handedIn
        BY HeldIsKnown
      <3> QED
        BY <1>2, <1>6, <2>2, <3>1
    <2> QED
      BY <2>1, <2>2
  <1>8. \A d \in Commands : Cmds(chain'[d].entries) \cap CmdsIn(Range(queue')) = {}
    <2>1. \A d \in Commands : Held(d) \cap CmdsIn(Range(queue')) = {}
      BY <1>6, PlaceNow
    <2>2. CmdsIn(Range(queue')) \cap Cmds(r.entries) = {}
      BY <1>7
    <2> QED
      BY <1>1, <2>1, <2>2
  <1>9. \A b, d \in Commands : b # d =>
            Cmds(chain'[b].entries) \cap Cmds(chain'[d].entries) = {}
    <2> SUFFICES ASSUME NEW b \in Commands, NEW d \in Commands, b # d
                 PROVE  Cmds(chain'[b].entries) \cap Cmds(chain'[d].entries) = {}
      OBVIOUS
    <2>1. CASE b # c /\ d # c
      BY <1>1, <2>1, PlaceNow
    <2>2. CASE b = c \/ d = c
      BY <1>1, <1>7, <2>2
    <2> QED
      BY <2>1, <2>2
  <1>10. \A n \in 1..handedIn' : \/ n \in settled' \/ n \in CmdsIn(Range(queue'))
                                \/ \E d \in Commands : n \in Cmds(chain'[d].entries)
    <2> SUFFICES ASSUME NEW n \in 1..handedIn', n \notin settled',
                        n \notin CmdsIn(Range(queue'))
                 PROVE  \E d \in Commands : n \in Cmds(chain'[d].entries)
      OBVIOUS
    <2>1. CASE n \in 1..handedIn
      <3>1. \/ n \in settled \/ n \in CmdsIn(Range(queue))
            \/ \E d \in Commands : n \in Held(d)
        BY <2>1, PlaceNow
      <3>2. CASE n \in CmdsIn(Range(queue))
        <4>1. n \in CmdsIn(S) /\ S # {}
          BY <1>6, <3>2 DEF CmdsIn
        <4> QED
          BY <1>1, <4>1
      <3>3. ASSUME NEW d \in Commands, n \in Held(d)
            PROVE  n \in Cmds(chain'[d].entries)
        BY <1>1, <1>4, <3>3
      <3> QED
        BY <3>1, <3>2, <3>3
    <2>2. CASE n \notin 1..handedIn
      <3>1. n = handedIn + 1 /\ handedIn' = handedIn + 1
        BY <2>2, HeldIsKnown
      <3>2. handedIn + 1 # handedIn
        BY TypedNow
      <3> QED
        BY <1>1, <3>1, <3>2
    <2> QED
      BY <2>1, <2>2
  <1>11. \A d \in Commands : chain'[d].pc = "query" => Cmds(chain'[d].entries) \subseteq settled'
    <2>1. chain'[c] = r
      BY TypedNow
    <2> QED
      BY <1>1, <2>1, PlaceNow
  <1>12. \A e, f \in Range(queue') : e.cmd = f.cmd => e = f
    BY PlaceNow
  <1> QED
    BY <1>8, <1>9, <1>10, <1>11, <1>12, PlaceNext

(* A chain goes on to its query: its commands are in the transcript.       *)
LEMMA PlaceAsked ==
  ASSUME TypeInv, PlaceInv, NEW c \in Commands, NEW r, r.entries = chain[c].entries,
         chain' = [chain EXCEPT ![c] = r], queue' = queue, handedIn' = handedIn,
         settled' = settled \cup Held(c)
  PROVE  PlaceInv'
PROOF
  <1>1. \A d \in Commands : chain'[d].entries = chain[d].entries
    BY TypedNow
  <1>2. \A d \in Commands : Cmds(chain'[d].entries) = Held(d)
    BY <1>1 DEF Held
  <1>3. \A d \in Commands \ {c} : chain'[d] = chain[d]
    BY TypedNow
  <1>4. \A d \in Commands : chain'[d].pc = "query" => Cmds(chain'[d].entries) \subseteq settled'
    BY <1>2, <1>3, PlaceNow
  <1>5. /\ \A d \in Commands : Cmds(chain'[d].entries) \cap CmdsIn(Range(queue')) = {}
        /\ \A b, d \in Commands : b # d =>
            Cmds(chain'[b].entries) \cap Cmds(chain'[d].entries) = {}
        /\ \A e, f \in Range(queue') : e.cmd = f.cmd => e = f
    BY <1>2, PlaceNow
  <1>6. \A n \in 1..handedIn' : \/ n \in settled' \/ n \in CmdsIn(Range(queue'))
                                \/ \E d \in Commands : n \in Cmds(chain'[d].entries)
    <2> SUFFICES ASSUME NEW n \in 1..handedIn
                 PROVE  \/ n \in settled' \/ n \in CmdsIn(Range(queue))
                        \/ \E d \in Commands : n \in Held(d)
      BY <1>2
    <2> QED
      BY PlaceNow
  <1> QED
    BY <1>4, <1>5, <1>6, PlaceNext

(* A chain ends: what it held is settled, or is among the copies that go   *)
(* back into the queue.                                                    *)
LEMMA PlaceEnded ==
  ASSUME TypeInv, PlaceInv, NEW c \in Commands, NEW q \in Seq(Entry), NEW Copies,
         chain' = [chain EXCEPT ![c] = NoChain], Leave(c, q),
         Range(q) = Range(queue) \cup Copies,
         \A e, f \in Copies : e.cmd = f.cmd => e = f,
         CmdsIn(Copies) \subseteq Held(c), Held(c) \subseteq settled' \cup CmdsIn(Copies),
         settled \subseteq settled'
  PROVE  PlaceInv'
PROOF
  <1>1. Cmds(<<>>) = {}
    BY DEF Cmds, Range
  <1>2. /\ chain'[c] = NoChain
        /\ \A d \in Commands \ {c} : chain'[d] = chain[d]
    BY TypedNow
  <1>3. /\ Cmds(chain'[c].entries) = {} /\ chain'[c].pc = "none"
        /\ \A d \in Commands \ {c} : Cmds(chain'[d].entries) = Held(d)
    BY <1>1, <1>2 DEF Held, NoChain
  <1>4. PICK N : /\ Range(queue') = Range(queue) \cup Copies \cup N
                 /\ \/ N = {} /\ handedIn' = handedIn
                    \/ \E e : N = {e} /\ e.cmd = handedIn + 1 /\ handedIn' = handedIn + 1
    <2>1. CASE handedIn' = handedIn /\ Range(queue') = Range(q)
      BY <2>1
    <2>2. CASE /\ handedIn < MaxCommands /\ handedIn' = handedIn + 1
               /\ \E e \in Entry : /\ e.cmd = handedIn + 1
                                   /\ Range(queue') = Range(q) \cup {e}
      BY <2>2
    <2> QED
      BY <2>1, <2>2, TypedNow, LeaveFacts
  <1>5. /\ CmdsIn(N) \subseteq {handedIn + 1}
        /\ \A e, f \in N : e = f
        /\ CmdsIn(Range(queue')) = CmdsIn(Range(queue)) \cup CmdsIn(Copies) \cup CmdsIn(N)
    BY <1>4 DEF CmdsIn
  <1>6. /\ CmdsIn(Range(queue)) \subseteq 1..handedIn
        /\ \A d \in Commands : Held(d) \subseteq 1..handedIn
        /\ handedIn + 1 \notin 1..handedIn
    BY TypedNow, CmdsAre, HeldIsKnown
  <1>7. /\ \A d \in Commands : Held(d) \cap CmdsIn(Range(queue)) = {}
        /\ \A b, d \in Commands : b # d => Held(b) \cap Held(d) = {}
    BY PlaceNow
  <1>8. \A d \in Commands : Cmds(chain'[d].entries) \cap CmdsIn(Range(queue')) = {}
    <2> SUFFICES ASSUME NEW d \in Commands \ {c}
                 PROVE  Held(d) \cap CmdsIn(Range(queue')) = {}
      BY <1>3
    <2>1. Held(d) \cap CmdsIn(Copies) = {}
      BY <1>7
    <2>2. Held(d) \cap CmdsIn(N) = {}
      BY <1>5, <1>6
    <2> QED
      BY <1>5, <1>7, <2>1, <2>2
  <1>9. \A b, d \in Commands : b # d =>
            Cmds(chain'[b].entries) \cap Cmds(chain'[d].entries) = {}
    BY <1>3, <1>7
  <1>10. \A e, f \in Range(queue') : e.cmd = f.cmd => e = f
    <2> SUFFICES ASSUME NEW e \in Range(queue'), NEW f \in Range(queue'), e.cmd = f.cmd
                 PROVE  e = f
      OBVIOUS
    <2>1. \A g \in Range(queue) : g.cmd \in CmdsIn(Range(queue))
      BY DEF CmdsIn
    <2>2. \A g \in Copies : g.cmd \in Held(c) /\ g.cmd \notin CmdsIn(Range(queue))
      BY <1>7 DEF CmdsIn
    <2>3. \A g \in N : /\ g.cmd = handedIn + 1 /\ g.cmd \notin Held(c)
                       /\ g.cmd \notin CmdsIn(Range(queue))
      BY <1>4, <1>6
    <2>4. e \in Range(queue) /\ f \in Range(queue) => e = f
      BY PlaceNow
    <2> QED
      BY <1>4, <1>5, <2>1, <2>2, <2>3, <2>4
  <1>11. \A n \in 1..handedIn' : \/ n \in settled' \/ n \in CmdsIn(Range(queue'))
                                \/ \E d \in Commands : n \in Cmds(chain'[d].entries)
    <2> SUFFICES ASSUME NEW n \in 1..handedIn', n \notin settled',
                        n \notin CmdsIn(Range(queue'))
                 PROVE  \E d \in Commands : n \in Cmds(chain'[d].entries)
      OBVIOUS
    <2>1. n \in 1..handedIn
      <3> SUFFICES ASSUME n \notin 1..handedIn
                   PROVE  FALSE
        OBVIOUS
      <3>1. n = handedIn + 1 /\ handedIn' = handedIn + 1
        BY <1>4, HeldIsKnown
      <3>2. handedIn + 1 # handedIn
        BY TypedNow
      <3>3. n \in CmdsIn(N)
        BY <1>4, <3>1, <3>2 DEF CmdsIn
      <3> QED
        BY <1>5, <3>3
    <2>2. PICK d \in Commands : n \in Held(d)
      BY <1>5, <2>1, PlaceNow
    <2>3. d # c
      BY <1>5, <2>2
    <2> QED
      BY <1>3, <2>2, <2>3
  <1>12. \A d \in Commands : chain'[d].pc = "query" => Cmds(chain'[d].entries) \subseteq settled'
    <2> SUFFICES ASSUME NEW d \in Commands \ {c}, chain[d].pc = "query"
                 PROVE  Held(d) \subseteq settled'
      BY <1>2, <1>3
    <2> QED
      BY PlaceNow
  <1> QED
    BY <1>8, <1>9, <1>10, <1>11, <1>12, PlaceNext

LEMMA SubmitPlace ==
  ASSUME TypeInv, PlaceInv, NEW k \in Typed, Submit(k) PROVE PlaceInv'
PROOF
  <1> DEFINE e == [cmd |-> handedIn + 1, kind |-> k, copy |-> FALSE]
  <1>1. /\ e \in Entry /\ e.cmd = handedIn + 1 /\ handedIn' = handedIn + 1
        /\ settled' = settled /\ handedIn + 1 \in Commands
    BY TypedNow, NewEntry, KindsAre DEF Submit, HandIn
  <1>2. CASE Put(<<e>>) /\ chain' = chain
    <2> HIDE DEF e
    <2>1. queue \o <<e>> \in Seq(Entry) /\ Range(queue \o <<e>>) = Range(queue) \cup {e}
      BY <1>1, TypedNow, RangePut
    <2>2. queue' = queue \o <<e>>
      BY <1>2 DEF Put, SetQueue
    <2>3. ChainsStay
      BY <1>2 DEF ChainsStay
    <2> QED
      BY <1>1, <2>1, <2>2, <2>3, PlaceIn
  <1>3. CASE Execute(<<e>>, {}) /\ queue' = queue
    <2> DEFINE r == InputChain(<<e>>)
    <2>1. chain' = [chain EXCEPT ![handedIn + 1] = r]
      BY <1>3 DEF Execute
    <2>2. Cmds(r.entries) = {handedIn + 1} /\ r.pc = "input"
      <3>1. r.entries = <<e>> /\ r.pc = "input"
        BY DEF InputChain
      <3> HIDE DEF e, r
      <3>2. Range(<<e>>) = {e}
        BY <1>1, RangeSingleton
      <3> QED
        BY <1>1, <3>1, <3>2 DEF Cmds
    <2> HIDE DEF r
    <2>3. CmdsIn({}) = {} /\ Range(queue') = Range(queue) \ {}
      BY <1>3 DEF CmdsIn
    <2> QED
      BY <1>1, <2>1, <2>2, <2>3, PlaceBegun
  <1> QED
    BY <1>2, <1>3 DEF Submit

LEMMA PostPlace ==
  ASSUME TypeInv, PlaceInv, NEW k \in Posted, Post(k) PROVE PlaceInv'
PROOF
  <1> DEFINE e == [cmd |-> handedIn + 1, kind |-> k, copy |-> FALSE]
  <1>1. /\ e \in Entry /\ e.cmd = handedIn + 1 /\ handedIn' = handedIn + 1
        /\ settled' = settled /\ chain' = chain /\ Put(<<e>>)
    BY TypedNow, NewEntry, KindsAre DEF Post, HandIn
  <1> HIDE DEF e
  <1>2. queue \o <<e>> \in Seq(Entry) /\ Range(queue \o <<e>>) = Range(queue) \cup {e}
    BY <1>1, TypedNow, RangePut
  <1>3. queue' = queue \o <<e>>
    BY <1>1 DEF Put, SetQueue
  <1>4. ChainsStay
    BY <1>1 DEF ChainsStay
  <1> QED
    BY <1>1, <1>2, <1>3, <1>4, PlaceIn

LEMMA IncomingPlace ==
  ASSUME TypeInv, PlaceInv, NEW k \in Incomings, Incoming(k) PROVE PlaceInv'
PROOF
  <1> DEFINE e == [cmd |-> handedIn + 1, kind |-> k, copy |-> FALSE]
             r == [pc |-> "query", entries |-> <<e>>,
                   generation |-> generation + 1, direct |-> TRUE, drain |-> {}]
  <1>1. /\ handedIn < MaxCommands /\ handedIn' = handedIn + 1 /\ queue' = queue
        /\ Start(e.cmd, <<e>>, TRUE)
    BY DEF Incoming, HandIn
  <1>2. e \in Entry /\ e.cmd = handedIn + 1 /\ handedIn + 1 \in Commands
    BY <1>1, TypedNow, NewEntry, KindsAre
  <1>3. /\ chain' = [chain EXCEPT ![e.cmd] = r]
        /\ settled' = settled \cup Cmds(<<e>>)
    BY <1>1 DEF Start
  <1>4. r.entries = <<e>>
    OBVIOUS
  <1> HIDE DEF e, r
  <1>5. Cmds(<<e>>) = {handedIn + 1}
    <2>1. Range(<<e>>) = {e}
      BY <1>2, RangeSingleton
    <2> QED
      BY <1>2, <2>1 DEF Cmds
  <1>6. CmdsIn({}) = {} /\ Range(queue') = Range(queue) \ {}
    BY <1>1 DEF CmdsIn
  <1> QED
    BY <1>1, <1>2, <1>3, <1>4, <1>5, <1>6, PlaceBegun

LEMMA InputDonePlace ==
  ASSUME TypeInv, PlaceInv, NEW c \in Commands, InputDone(c) PROVE PlaceInv'
PROOF
  <1>1. CmdsIn({}) = {}
    BY DEF CmdsIn
  <1>2. CASE Requeue(c)
    <2> DEFINE Copies == {CopyOf(e) : e \in Range(chain[c].entries) \ RequeueSkipped(c)}
    <2>1. /\ Requeued(c) \in Seq(Entry) /\ Leave(c, Requeued(c))
          /\ Range(Requeued(c)) = Range(queue) \cup Copies
          /\ settled' = settled \cup CmdsIn(RequeueSkipped(c))
          /\ chain' = [chain EXCEPT ![c] = NoChain]
      BY <1>2, RequeueFacts
    <2>2. \A e : CopyOf(e).cmd = e.cmd
      BY DEF CopyOf
    <2>3. \A e, f \in Copies : e.cmd = f.cmd => e = f
      <3>1. \A e, f : e.cmd = f.cmd => CopyOf(e) = CopyOf(f)
        BY DEF CopyOf
      <3> HIDE DEF CopyOf
      <3> QED
        BY <2>2, <3>1
    <2>4. CmdsIn(Copies) = CmdsIn(Range(chain[c].entries) \ RequeueSkipped(c))
      <3> HIDE DEF CopyOf
      <3> QED
        BY <2>2 DEF CmdsIn
    <2>5. Held(c) = CmdsIn(Range(chain[c].entries))
      BY CmdsAre DEF Held
    <2>6. CmdsIn(Copies) \subseteq Held(c) /\ Held(c) \subseteq settled' \cup CmdsIn(Copies)
      BY <2>1, <2>4, <2>5 DEF CmdsIn
    <2> HIDE DEF Copies
    <2> QED
      BY <2>1, <2>3, <2>6, PlaceEnded
  <1>3. CASE Start(c, chain[c].entries, FALSE) /\ queue' = queue /\ handedIn' = handedIn
    <2> DEFINE r == [pc |-> "query", entries |-> chain[c].entries,
                     generation |-> generation + 1, direct |-> FALSE, drain |-> {}]
    <2>1. /\ chain' = [chain EXCEPT ![c] = r] /\ r.entries = chain[c].entries
          /\ settled' = settled \cup Held(c)
      BY <1>3 DEF Start, Held
    <2> HIDE DEF r
    <2> QED
      BY <1>3, <2>1, PlaceAsked
  <1>4. CASE Leave(c, queue) /\ Settle(c)
    <2>1. chain' = [chain EXCEPT ![c] = NoChain] /\ settled' = settled \cup Held(c)
      BY <1>4 DEF Settle, Held
    <2>2. queue \in Seq(Entry) /\ Range(queue) = Range(queue) \cup {}
      BY TypedNow
    <2> QED
      BY <1>1, <1>4, <2>1, <2>2, PlaceEnded
  <1>5. CASE Settle(c) /\ UNCHANGED <<generation, controller, queue, rendered, handedIn>>
    <2>1. chain' = [chain EXCEPT ![c] = NoChain] /\ settled' = settled \cup Held(c)
      BY <1>5 DEF Settle, Held
    <2>2. queue \in Seq(Entry) /\ Range(queue) = Range(queue) \cup {}
      BY TypedNow
    <2>3. Leave(c, queue)
      BY <1>5 DEF Leave, SetQueue
    <2> QED
      BY <1>1, <2>1, <2>2, <2>3, PlaceEnded
  <1> QED
    BY <1>2, <1>3, <1>4, <1>5 DEF InputDone

LEMMA QueryEndPlace ==
  ASSUME TypeInv, PlaceInv, NEW c \in Commands, QueryEnd(c) PROVE PlaceInv'
PROOF
  <1>1. /\ chain[c].pc = "query" /\ chain' = [chain EXCEPT ![c] = NoChain]
        /\ Leave(c, queue) /\ settled' = settled
    BY DEF QueryEnd
  <1>2. Held(c) \subseteq settled
    BY <1>1, PlaceNow
  <1>3. queue \in Seq(Entry) /\ Range(queue) = Range(queue) \cup {} /\ CmdsIn({}) = {}
    BY TypedNow DEF CmdsIn
  <1> QED
    BY <1>1, <1>2, <1>3, PlaceEnded

LEMMA DrainPlace ==
  ASSUME TypeInv, PlaceInv, NEW c \in Commands, DrainBegins(c) \/ DrainEnds(c)
  PROVE  PlaceInv'
PROOF
  <1>1. PICK S : chain' = [chain EXCEPT ![c].drain = S]
    BY DEF DrainBegins, DrainEnds
  <1>2. ChainsStay
    BY <1>1, TypedNow DEF ChainsStay, ChainType
  <1>3. handedIn' = handedIn
    BY DEF DrainBegins, DrainEnds
  <1>4. CASE DrainBegins(c)
    <2>1. Range(queue') = Range(queue) \ {} /\ settled' = settled
      BY <1>4 DEF DrainBegins
    <2>2. CmdsIn(Range(queue) \cap {}) = {}
      BY DEF CmdsIn
    <2> QED
      BY <1>2, <1>3, <2>1, <2>2, PlaceOut
  <1>5. CASE DrainEnds(c)
    <2>1. /\ SetQueue(Without(queue, chain[c].drain))
          /\ settled' = settled \cup CmdsIn(chain[c].drain)
      BY <1>5 DEF DrainEnds, CmdsIn
    <2>2. Range(queue') = Range(queue) \ chain[c].drain
      BY <2>1, TakeOut
    <2>3. CmdsIn(Range(queue) \cap chain[c].drain) \subseteq settled'
      BY <2>1 DEF CmdsIn
    <2> QED
      BY <1>2, <1>3, <2>1, <2>2, <2>3, PlaceOut
  <1> QED
    BY <1>4, <1>5

LEMMA RemovedPlace ==
  ASSUME TypeInv, PlaceInv, NEW S, SetQueue(Without(queue, S)),
         settled' = settled \cup CmdsIn(S), chain' = chain, handedIn' = handedIn
  PROVE  PlaceInv'
PROOF
  <1>1. Range(queue') = Range(queue) \ S
    BY TakeOut
  <1>2. CmdsIn(Range(queue) \cap S) \subseteq settled'
    BY DEF CmdsIn
  <1>3. ChainsStay
    BY DEF ChainsStay
  <1> QED
    BY <1>1, <1>2, <1>3, PlaceOut

LEMMA RenderPlace == ASSUME TypeInv, PlaceInv, Render PROVE PlaceInv'
PROOF
  <1>1. PICK hit \in SUBSET Commands :
              \/ /\ status = "idle"
                 /\ ProcessQueue(hit)
              \/ /\ rendered' = [active |-> status # "idle", queue |-> TRUE, jsx |-> jsx]
                 /\ aborted' = aborted \cup hit
                 /\ UNCHANGED <<status, queue, controller, chain>>
    BY RenderSteps
  <1>2. settled' = settled /\ handedIn' = handedIn
    BY RenderSteps
  <1>3. CASE ProcessQueue(hit)
    <2>1. PICK first \in Peek(MainThread) :
            /\ Execute(Batch(first), hit)
            /\ queue' = Without(queue, Range(Batch(first)))
      BY <1>3 DEF ProcessQueue
    <2> DEFINE es == Batch(first)
               r == InputChain(es)
               S == Range(es)
    <2>2. /\ es \in Seq(Entry) /\ es # <<>> /\ S \in SUBSET Range(queue)
          /\ es[1] \in S /\ es[1] \in Entry
      BY TypedNow, BatchFacts, QueuedAreEntries
    <2>3. /\ chain' = [chain EXCEPT ![es[1].cmd] = r]
          /\ r.entries = es /\ r.pc = "input"
      BY <2>1 DEF Execute, InputChain
    <2>4. Range(queue') = Range(queue) \ S
      BY <2>1, TypedNow, WithoutFacts
    <2> HIDE DEF es, r
    <2>5. Cmds(r.entries) = CmdsIn(S) /\ es[1].cmd \in CmdsIn(S)
      BY <2>2, <2>3, CmdsAre DEF CmdsIn
    <2>6. es[1].cmd \in Commands
      BY <2>2 DEF Entry
    <2> HIDE DEF S
    <2> QED
      BY <1>2, <2>2, <2>3, <2>4, <2>5, <2>6, PlaceBegun
  <1>4. CASE UNCHANGED <<status, queue, controller, chain>>
    <2>1. Range(queue') = Range(queue) \ {} /\ CmdsIn(Range(queue) \cap {}) = {}
      BY <1>4 DEF CmdsIn
    <2>2. ChainsStay
      BY <1>4 DEF ChainsStay
    <2> QED
      BY <1>2, <2>1, <2>2, PlaceOut
  <1> QED
    BY <1>1, <1>3, <1>4

LEMMA NextPlace == TypeInv /\ PlaceInv /\ [Next]_vars => PlaceInv'
PROOF
  <1> SUFFICES ASSUME TypeInv, PlaceInv, [Next]_vars
               PROVE  PlaceInv'
    OBVIOUS
  <1>1. CASE UNCHANGED <<queue, chain, handedIn, settled>>
    <2>1. Range(queue') = Range(queue) \ {} /\ CmdsIn(Range(queue) \cap {}) = {}
      BY <1>1 DEF CmdsIn
    <2>2. ChainsStay
      BY <1>1 DEF ChainsStay
    <2> QED
      BY <1>1, <2>1, <2>2, PlaceOut
  <1>2. Cancel \/ ToggleJsx \/ UNCHANGED vars => UNCHANGED <<queue, chain, handedIn, settled>>
    BY DEF Cancel, ToggleJsx, vars
  <1>3. CASE AgentDrains
    <2>1. /\ SetQueue(Without(queue, AgentFound)) /\ settled' = settled \cup CmdsIn(AgentFound)
          /\ chain' = chain /\ handedIn' = handedIn
      BY <1>3 DEF AgentDrains, AgentFound, CmdsIn
    <2> QED
      BY <2>1, RemovedPlace
  <1>4. CASE Pop
    <2>1. /\ SetQueue(Without(queue, Editables)) /\ settled' = settled \cup CmdsIn(Editables)
          /\ chain' = chain /\ handedIn' = handedIn
      BY <1>4 DEF Pop, Editables, CmdsIn
    <2> QED
      BY <2>1, RemovedPlace
  <1> QED
    BY <1>1, <1>2, <1>3, <1>4, SubmitPlace, PostPlace, IncomingPlace, InputDonePlace,
       QueryEndPlace, DrainPlace, RenderPlace DEF Next

(* What is handed in is in the queue, with a chain that works on it, or    *)
(* settled: no command falls between the queue, the processor, the drain   *)
(* of a running query and a lost race for the gate.                        *)
THEOREM NoCommandLost == Spec => []NothingLost
PROOF
  <1> QED
    BY InitTyped, NextTyped, InitPlace, NextPlace, SomewhereSuffices, PTL DEF Spec
=============================================================================
