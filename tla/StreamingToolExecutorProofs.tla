--------------------- MODULE StreamingToolExecutorProofs ---------------------
(***************************************************************************)
(* Theorems about StreamingToolExecutor for every number of tools,         *)
(* executors and progress messages and every kind of tool.                 *)
(*   Scheduling: its state is typed, an exclusive tool runs alone and is   *)
(*   not overtaken while it is queued.                                     *)
(*   Results: one tool_result for each tool (OneResult), tools that give   *)
(*   up when they are cancelled (Cancellation), interrupts (Interruption), *)
(*   results that all arrive (Delivery) and that arrive in order           *)
(*   (ResultOrder).                                                        *)
(*   Waking up: no result is slept over (Wakeups).                         *)
(***************************************************************************)
EXTENDS StreamingToolExecutor, TLAPS

PassTable == [Attempts -> [0..MaxTools -> Nat]]

(* A table of counters stays one when an entry is incremented.             *)
LEMMA IncrementTyped ==
  ASSUME NEW S, NEW f \in [S -> Nat], NEW c \in S
  PROVE  [f EXCEPT ![c] = f[c] + 1] \in [S -> Nat]
PROOF
  <1>1. f[c] + 1 \in Nat
    OBVIOUS
  <1> QED
    BY <1>1

(* The table stays a table of counters when a pass is added.               *)
LEMMA AddPassTyped ==
  ASSUME NEW ps \in PassTable, NEW e \in Attempts, NEW c \in 0..MaxTools
  PROVE  [ps EXCEPT ![e][c] = @ + 1] \in PassTable
PROOF
  <1>1. ps[e] \in [0..MaxTools -> Nat]
    BY DEF PassTable
  <1>2. [ps[e] EXCEPT ![c] = @ + 1] \in [0..MaxTools -> Nat]
    BY <1>1, IncrementTyped
  <1> QED
    BY <1>1, <1>2 DEF PassTable

LEMMA FinallyPassTyped ==
  ASSUME NEW ps \in PassTable, NEW e \in Attempts
  PROVE  FinallyPass(ps, e) \in PassTable
PROOF
  <1>1. 0 \in 0..MaxTools
    BY BoundsAssumption
  <1> QED
    BY <1>1, AddPassTyped DEF FinallyPass

(* What a started tool writes is typed when the statuses and the pass      *)
(* table it starts from are.                                               *)
LEMMA StartToolTyped ==
  ASSUME TypeOK,
         NEW st \in [Tools -> Statuses], NEW ps \in PassTable,
         NEW e \in Attempts, NEW j \in Tools,
         StartTool(st, ps, e, j)
  PROVE  /\ status' \in [Tools -> Statuses]
         /\ results' \in [Tools -> Seq(ResultKinds)]
         /\ phase' \in [Tools -> Phases]
         /\ interruptible' \in BOOLEAN
         /\ passes' \in PassTable
PROOF
  <1> DEFINE reason == AbortReason(j)
  <1>1. reason \in {"none"} \cup Synthetic
    BY DEF AbortReason, Synthetic
  <1>2. status' \in [Tools -> Statuses]
    BY DEF StartTool, Statuses
  <1>3. results' \in [Tools -> Seq(ResultKinds)]
    <2>1. <<>> \in Seq(ResultKinds)
      OBVIOUS
    <2>2. reason # "none" => <<reason>> \in Seq(ResultKinds)
      BY <1>1 DEF ResultKinds
    <2>3. results' = [results EXCEPT ![j] = IF reason = "none" THEN <<>> ELSE <<reason>>]
      BY DEF StartTool
    <2> QED
      BY <2>1, <2>2, <2>3 DEF TypeOK
  <1>4. phase' \in [Tools -> Phases]
    BY DEF StartTool, TypeOK, Phases
  <1>5. interruptible' \in BOOLEAN
    BY DEF StartTool, AllCancellable, Has
  <1>6. passes' \in PassTable
    BY FinallyPassTyped DEF StartTool
  <1> QED
    BY <1>2, <1>3, <1>4, <1>5, <1>6

(* So is what a completed tool writes.                                     *)
LEMMA CompleteToolTyped ==
  ASSUME TypeOK,
         NEW i \in Tools, NEW rs \in Seq(ResultKinds),
         CompleteTool(i, rs)
  PROVE  /\ status' \in [Tools -> Statuses]
         /\ results' \in [Tools -> Seq(ResultKinds)]
         /\ phase' \in [Tools -> Phases]
         /\ interruptible' \in BOOLEAN
         /\ passes' \in PassTable
PROOF
  <1>1. status' \in [Tools -> Statuses]
    BY DEF CompleteTool, Statuses, TypeOK
  <1>2. results' \in [Tools -> Seq(ResultKinds)]
    BY DEF CompleteTool, TypeOK
  <1>3. phase' \in [Tools -> Phases]
    BY DEF CompleteTool, TypeOK, Phases
  <1>4. interruptible' \in BOOLEAN
    BY DEF CompleteTool, AllCancellable, Has
  <1>5. passes' \in PassTable
    BY FinallyPassTyped DEF CompleteTool, TypeOK, PassTable
  <1> QED
    BY <1>1, <1>2, <1>3, <1>4, <1>5

(* And what receiving a tool_result writes.                                *)
LEMMA ReceiveTyped ==
  ASSUME TypeOK,
         NEW i \in Tools, NEW r \in {"ok", "error"}, NEW extra \in BOOLEAN,
         Receive(i, r, extra)
  PROVE  /\ status' \in [Tools -> Statuses]
         /\ results' \in [Tools -> Seq(ResultKinds)]
         /\ phase' \in [Tools -> Phases]
         /\ interruptible' \in BOOLEAN
         /\ passes' \in PassTable
         /\ hasErrored' \in [Attempts -> BOOLEAN]
PROOF
  <1>1. <<r>> \in Seq(ResultKinds)
    BY DEF ResultKinds
  <1>2. AbortReason(i) # "none" => <<AbortReason(i)>> \in Seq(ResultKinds)
    BY DEF AbortReason, ResultKinds, Synthetic
  <1>3. hasErrored' \in [Attempts -> BOOLEAN]
    BY DEF Receive, TypeOK
  <1>4. CASE AbortReason(i) # "none"
    <2>1. CompleteTool(i, <<AbortReason(i)>>)
      BY <1>4 DEF Receive
    <2> QED
      BY <2>1, <1>2, <1>3, <1>4, CompleteToolTyped
  <1>5. CASE AbortReason(i) = "none" /\ ~extra
    <2>1. CompleteTool(i, <<r>>)
      BY <1>5 DEF Receive
    <2> QED
      BY <2>1, <1>1, <1>3, CompleteToolTyped
  <1>6. CASE AbortReason(i) = "none" /\ extra
    <2>1. /\ results' = [results EXCEPT ![i] = <<r>>]
          /\ phase' = [phase EXCEPT ![i] = "tail"]
          /\ UNCHANGED <<status, interruptible, passes>>
      BY <1>6 DEF Receive
    <2> QED
      BY <2>1, <1>1, <1>3 DEF TypeOK, Phases, PassTable
  <1> QED
    BY <1>4, <1>5, <1>6

(* The part of TypeOK that starting or completing a tool writes, and the   *)
(* rest of it.                                                             *)
ToolTyped ==
  /\ status \in [Tools -> Statuses]
  /\ results \in [Tools -> Seq(ResultKinds)]
  /\ phase \in [Tools -> Phases]
  /\ interruptible \in BOOLEAN
  /\ passes \in PassTable

TurnTyped ==
  /\ kind \in [Tools -> Kinds]
  /\ uses \in 0..MaxTools
  /\ attempt \in [Tools -> Attempts]
  /\ pending \in [Tools -> Nat]
  /\ ticks \in [Tools -> Nat]
  /\ cur \in Attempts
  /\ hasErrored \in [Attempts -> BOOLEAN]
  /\ aborted \in {"none", "user", "interrupt"}
  /\ pc \in ConsumerPoints
  /\ draining \in BOOLEAN
  /\ at \in 0..MaxTools
  /\ waitSet \subseteq Tools
  /\ emitted \in Seq(Tools)

LEMMA TypeParts == TypeOK <=> ToolTyped /\ TurnTyped
PROOF
  BY DEF TypeOK, ToolTyped, TurnTyped, PassTable

LEMMA TypePartsNext == ToolTyped' /\ TurnTyped' => TypeOK'
PROOF
  BY TypeParts, PTL

(* What is known of the tool a pass starts.                                *)
LEMMA NextStartMember ==
  ASSUME NEW st, NEW e, NEW c, NEW j \in NextStart(st, MembersOf(e), c)
  PROVE  /\ j \in Tools /\ attempt[j] = e /\ j > c /\ st[j] = "queued"
         /\ CanExecute(st, MembersOf(e), j)
         /\ \A m \in Tools : (attempt[m] = e /\ c < m /\ m < j /\ st[m] = "queued")
                                => Safe(m)
PROOF
  BY DEF NextStart, MembersOf

LEMMA ToolsArePassCursors ==
  ASSUME NEW j \in Tools
  PROVE  j \in 0..MaxTools
PROOF
  BY BoundsAssumption DEF Tools

LEMMA InitTyped == Init => TypeOK
PROOF
  <1> SUFFICES ASSUME Init PROVE TypeOK
    OBVIOUS
  <1>1. /\ 1 \in Attempts /\ 0 \in 0..MaxTools
    BY BoundsAssumption DEF Attempts
  <1>2. <<>> \in Seq(ResultKinds) /\ <<>> \in Seq(Tools)
    OBVIOUS
  <1>3. /\ kind \in [Tools -> Kinds] /\ uses \in 0..MaxTools
        /\ attempt \in [Tools -> Attempts] /\ cur \in Attempts
        /\ at \in 0..MaxTools
    BY <1>1 DEF Init
  <1>4. status \in [Tools -> Statuses] /\ phase \in [Tools -> Phases]
    BY DEF Init, Statuses, Phases
  <1>5. results \in [Tools -> Seq(ResultKinds)] /\ emitted \in Seq(Tools)
    BY <1>2 DEF Init
  <1>6. pending \in [Tools -> Nat] /\ ticks \in [Tools -> Nat]
    BY DEF Init
  <1>7. passes \in [Attempts -> [0..MaxTools -> Nat]]
    BY DEF Init
  <1>8. /\ hasErrored \in [Attempts -> BOOLEAN] /\ aborted \in {"none", "user", "interrupt"}
        /\ interruptible \in BOOLEAN /\ pc \in ConsumerPoints
        /\ draining \in BOOLEAN /\ waitSet \subseteq Tools
    BY DEF Init, ConsumerPoints
  <1> QED
    BY <1>3, <1>4, <1>5, <1>6, <1>7, <1>8 DEF TypeOK

(* No step of the query loop breaks the typing.                            *)
LEMMA QueryLoopTyped == TypeOK /\ QueryLoop => TypeOK'
PROOF
  <1> SUFFICES ASSUME TypeOK, QueryLoop PROVE ToolTyped' /\ TurnTyped'
    BY TypePartsNext
  <1>0. ToolTyped /\ TurnTyped
    BY TypeParts
  <1> USE BoundsAssumption
  <1>1. CASE StreamToolUse
    <2>1. ToolTyped'
      BY <1>0, <1>1 DEF StreamToolUse, ToolTyped, toolVars
    <2>2. uses' \in 0..MaxTools
      BY <1>0, <1>1 DEF StreamToolUse, TurnTyped
    <2>3. attempt' \in [Tools -> Attempts]
      BY <1>0, <1>1 DEF StreamToolUse, TurnTyped
    <2> QED
      BY <1>0, <1>1, <2>1, <2>2, <2>3 DEF StreamToolUse, TurnTyped, toolVars, ConsumerPoints
  <1>2. CASE SkipAddTool
    BY <1>0, <1>2 DEF SkipAddTool, ToolTyped, TurnTyped, toolVars, ConsumerPoints
  <1>3. CASE AddUnknownTool
    <2>1. <<"error">> \in Seq(ResultKinds)
      BY DEF ResultKinds
    <2>2. ToolTyped'
      BY <1>0, <1>3, <2>1 DEF AddUnknownTool, ToolTyped, Statuses
    <2>3. TurnTyped'
      BY <1>0, <1>3 DEF AddUnknownTool, TurnTyped, ConsumerPoints
    <2> QED
      BY <2>2, <2>3
  <1>4. CASE AddTool
    <2> DEFINE st == [status EXCEPT ![uses] = "queued"]
               next == NextStart(st, MembersOf(cur), 0)
    <2>1. st \in [Tools -> Statuses]
      BY <1>0 DEF ToolTyped, Statuses
    <2>2. ASSUME status' = st, UNCHANGED <<results, phase, interruptible, passes>>
          PROVE  ToolTyped'
      BY <1>0, <2>1, <2>2 DEF ToolTyped
    <2>3. ASSUME \E j \in next : StartTool(st, [passes EXCEPT ![cur][j] = @ + 1], cur, j)
          PROVE  ToolTyped'
      <3>1. PICK j \in next : StartTool(st, [passes EXCEPT ![cur][j] = @ + 1], cur, j)
        BY <2>3
      <3>2. j \in Tools /\ j \in 0..MaxTools
        BY NextStartMember, ToolsArePassCursors
      <3>3. [passes EXCEPT ![cur][j] = @ + 1] \in PassTable
        BY <1>0, <3>2, AddPassTyped DEF ToolTyped, TurnTyped
      <3>4. cur \in Attempts
        BY <1>0 DEF TurnTyped
      <3> QED
        BY <2>1, <3>1, <3>2, <3>3, <3>4, StartToolTyped DEF ToolTyped
    <2>4. ToolTyped'
      BY <1>4, <2>2, <2>3 DEF AddTool
    <2>5. TurnTyped'
      BY <1>0, <1>4 DEF AddTool, TurnTyped, ConsumerPoints
    <2> QED
      BY <2>4, <2>5
  <1>5. CASE Fallback
    BY <1>0, <1>5 DEF Fallback, ToolTyped, TurnTyped, toolVars, consumerVars, Attempts
  <1>6. CASE StreamEnd
    BY <1>0, <1>6 DEF StreamEnd, ToolTyped, TurnTyped, toolVars, LoopTop, ConsumerPoints
  <1>7. CASE StreamOther
    BY <1>0, <1>7 DEF StreamOther, ToolTyped, TurnTyped, toolVars, ConsumerPoints
  <1> QED
    BY <1>1, <1>2, <1>3, <1>4, <1>5, <1>6, <1>7 DEF QueryLoop

LEMMA NextOfferMember ==
  ASSUME NEW c, NEW i \in NextOffer(c)
  PROVE  i \in Tools /\ i - 1 \in 0..MaxTools /\ i \in 0..MaxTools
PROOF
  BY BoundsAssumption DEF NextOffer, MembersOf, Tools

(* No step of the consumer breaks the typing.                              *)
LEMMA ConsumerTyped == TypeOK /\ Consumer => TypeOK'
PROOF
  <1> SUFFICES ASSUME TypeOK, Consumer PROVE ToolTyped' /\ TurnTyped'
    BY TypePartsNext
  <1>0. ToolTyped /\ TurnTyped
    BY TypeParts
  <1> USE BoundsAssumption
  <1>1. CASE YieldProgress
    <2>1. PICK i \in NextOffer(at) :
            /\ pending[i] > 0
            /\ pending' = [pending EXCEPT ![i] = @ - 1]
            /\ at' = i - 1
      BY <1>1 DEF YieldProgress
    <2>2. i \in Tools /\ at' \in 0..MaxTools
      BY <2>1, NextOfferMember
    <2>3. pending' \in [Tools -> Nat]
      <3>1. pending[i] - 1 \in Nat
        BY <1>0, <2>1, <2>2 DEF TurnTyped
      <3> QED
        BY <1>0, <2>1, <2>2, <3>1 DEF TurnTyped
    <2>4. ToolTyped'
      BY <1>0, <1>1 DEF YieldProgress, ToolTyped
    <2>5. TurnTyped'
      BY <1>0, <1>1, <2>2, <2>3 DEF YieldProgress, TurnTyped, ConsumerPoints
    <2> QED
      BY <2>4, <2>5
  <1>2. CASE YieldResults
    <2>1. PICK i \in NextOffer(at) :
            /\ status' = [status EXCEPT ![i] = "yielded"]
            /\ emitted' = Append(emitted, i)
            /\ at' = i
      BY <1>2 DEF YieldResults
    <2>2. i \in Tools /\ at' \in 0..MaxTools
      BY <2>1, NextOfferMember
    <2>3. ToolTyped'
      BY <1>0, <1>2, <2>1 DEF YieldResults, ToolTyped, Statuses
    <2>4. emitted' \in Seq(Tools)
      BY <1>0, <2>1, <2>2 DEF TurnTyped
    <2>5. TurnTyped'
      BY <1>0, <1>2, <2>2, <2>4 DEF YieldResults, TurnTyped, ConsumerPoints
    <2> QED
      BY <2>3, <2>5
  <1>3. CASE CollectEnd
    BY <1>0, <1>3 DEF CollectEnd, ToolTyped, TurnTyped, toolVars, ConsumerPoints
  <1>4. CASE DrainScan
    <2>1. ASSUME NextStart(status, MembersOf(cur), at) = {},
                 pc' = "collect", at' = 0,
                 UNCHANGED <<status, results, phase, interruptible, passes>>
          PROVE  ToolTyped' /\ pc' \in ConsumerPoints /\ at' \in 0..MaxTools
      BY <1>0, <2>1 DEF ToolTyped, ConsumerPoints
    <2>2. ASSUME NEW j \in NextStart(status, MembersOf(cur), at),
                 StartTool(status, passes, cur, j), at' = j, UNCHANGED pc
          PROVE  ToolTyped' /\ pc' \in ConsumerPoints /\ at' \in 0..MaxTools
      <3>1. j \in Tools /\ j \in 0..MaxTools
        BY NextStartMember, ToolsArePassCursors
      <3>2. /\ cur \in Attempts /\ pc \in ConsumerPoints
            /\ status \in [Tools -> Statuses] /\ passes \in PassTable
        BY <1>0 DEF TurnTyped, ToolTyped
      <3>3. ToolTyped'
        BY <2>2, <3>1, <3>2, StartToolTyped DEF ToolTyped
      <3> QED
        BY <2>2, <3>1, <3>2, <3>3
    <2>3. ToolTyped' /\ pc' \in ConsumerPoints /\ at' \in 0..MaxTools
      BY <1>4, <2>1, <2>2 DEF DrainScan
    <2> QED
      BY <1>0, <1>4, <2>3 DEF DrainScan, TurnTyped
  <1>5. CASE DrainCheck
    BY <1>0, <1>5 DEF DrainCheck, ToolTyped, TurnTyped, toolVars, LoopTop,
                      MembersOf, ConsumerPoints
  <1>6. CASE DrainWake
    BY <1>0, <1>6 DEF DrainWake, ToolTyped, TurnTyped, toolVars, LoopTop, ConsumerPoints
  <1> QED
    BY <1>1, <1>2, <1>3, <1>4, <1>5, <1>6 DEF Consumer

(* Neither does a processQueue call that is resumed.                       *)
LEMMA PassesTyped == TypeOK /\ Passes => TypeOK'
PROOF
  <1> SUFFICES ASSUME TypeOK,
                      NEW e \in Attempts, NEW c \in 0..MaxTools, ResumePass(e, c)
               PROVE  ToolTyped' /\ TurnTyped'
    BY TypePartsNext DEF Passes
  <1>0. ToolTyped /\ TurnTyped
    BY TypeParts
  <1> DEFINE ps == [passes EXCEPT ![e][c] = @ - 1]
  <1>1. ps \in PassTable
    <2>1. passes[e] \in [0..MaxTools -> Nat]
      BY <1>0 DEF ToolTyped, PassTable
    <2>2. passes[e][c] - 1 \in Nat
      <3>1. passes[e][c] \in Nat
        BY <2>1
      <3>2. passes[e][c] > 0
        BY DEF ResumePass
      <3> QED
        BY <3>1, <3>2
    <2>3. [passes[e] EXCEPT ![c] = passes[e][c] - 1] \in [0..MaxTools -> Nat]
      BY <2>1, <2>2
    <2> QED
      BY <1>0, <2>3 DEF ToolTyped, PassTable
  <1>2. ASSUME passes' = ps, UNCHANGED <<status, results, phase, interruptible>>
        PROVE  ToolTyped'
    BY <1>0, <1>1, <1>2 DEF ToolTyped
  <1>3. ASSUME NEW j \in NextStart(status, MembersOf(e), c),
               StartTool(status, [ps EXCEPT ![e][j] = @ + 1], e, j)
        PROVE  ToolTyped'
    <2>1. j \in Tools /\ j \in 0..MaxTools
      BY NextStartMember, ToolsArePassCursors
    <2>2. [ps EXCEPT ![e][j] = @ + 1] \in PassTable
      BY <1>1, <2>1, AddPassTyped
    <2>3. status \in [Tools -> Statuses]
      BY <1>0 DEF ToolTyped
    <2> QED
      BY <1>3, <2>1, <2>2, <2>3, StartToolTyped DEF ToolTyped
  <1>4. ToolTyped'
    BY <1>2, <1>3 DEF ResumePass
  <1>5. TurnTyped'
    BY <1>0 DEF ResumePass, TurnTyped, consumerVars
  <1> QED
    BY <1>4, <1>5

(* Nor does a step of a tool, or of the user.                              *)
LEMMA ToolsTyped ==
  ASSUME TypeOK, NEW i \in Tools,
         ToolStep(i) \/ ToolProgress(i) \/ RejectPermission(i)
  PROVE  TypeOK'
PROOF
  <1> SUFFICES ToolTyped' /\ TurnTyped'
    BY TypePartsNext
  <1>0. ToolTyped /\ TurnTyped
    BY TypeParts
  <1>1. ASSUME NEW r \in {"ok", "error"}, NEW extra \in BOOLEAN, Receive(i, r, extra)
        PROVE  ToolTyped' /\ hasErrored' \in [Attempts -> BOOLEAN]
    BY <1>1, ReceiveTyped DEF ToolTyped
  <1>2. CASE ToolRefused(i)
    <2>1. ToolTyped' /\ hasErrored' \in [Attempts -> BOOLEAN]
      BY <1>1, <1>2 DEF ToolRefused
    <2> QED
      BY <1>0, <1>2, <2>1 DEF ToolRefused, TurnTyped, consumerVars
  <1>3. CASE ToolAnswers(i)
    <2>1. ToolTyped' /\ hasErrored' \in [Attempts -> BOOLEAN]
      BY <1>1, <1>3 DEF ToolAnswers
    <2> QED
      BY <1>0, <1>3, <2>1 DEF ToolAnswers, TurnTyped, consumerVars
  <1>4. CASE ToolTail(i)
    <2> DEFINE rs == IF AbortReason(i) # "none" /\ results[i] # <<"error">>
                       THEN Append(results[i], AbortReason(i)) ELSE results[i]
    <2>1. rs \in Seq(ResultKinds)
      <3>1. results[i] \in Seq(ResultKinds)
        BY <1>0 DEF ToolTyped
      <3>2. AbortReason(i) # "none" => AbortReason(i) \in ResultKinds
        BY DEF AbortReason, ResultKinds, Synthetic
      <3> QED
        BY <3>1, <3>2
    <2>2. CompleteTool(i, rs)
      BY <1>4 DEF ToolTail
    <2>3. ToolTyped'
      BY <2>1, <2>2, CompleteToolTyped DEF ToolTyped
    <2>4. TurnTyped'
      BY <1>0, <1>4 DEF ToolTail, TurnTyped, consumerVars
    <2> QED
      BY <2>3, <2>4
  <1>5. CASE ToolProgress(i)
    <2>1. ticks' \in [Tools -> Nat]
      BY <1>0, <1>5, IncrementTyped DEF ToolProgress, TurnTyped
    <2>2. CASE AbortReason(i) # "none"
      <3>1. CompleteTool(i, <<AbortReason(i)>>) /\ UNCHANGED pending
        BY <1>5, <2>2 DEF ToolProgress
      <3>2. <<AbortReason(i)>> \in Seq(ResultKinds)
        BY <2>2 DEF AbortReason, ResultKinds, Synthetic
      <3>3. ToolTyped'
        BY <3>1, <3>2, CompleteToolTyped DEF ToolTyped
      <3>4. TurnTyped'
        BY <1>0, <1>5, <2>1, <3>1 DEF ToolProgress, TurnTyped, consumerVars
      <3> QED
        BY <3>3, <3>4
    <2>3. CASE AbortReason(i) = "none"
      <3>1. /\ pending' = [pending EXCEPT ![i] = @ + 1]
            /\ UNCHANGED <<status, phase, results, interruptible, passes>>
        BY <1>5, <2>3 DEF ToolProgress
      <3>2. pending' \in [Tools -> Nat]
        BY <1>0, <3>1, IncrementTyped DEF TurnTyped
      <3>3. ToolTyped'
        BY <1>0, <3>1 DEF ToolTyped
      <3>4. TurnTyped'
        BY <1>0, <1>5, <2>1, <3>2 DEF ToolProgress, TurnTyped, consumerVars
      <3> QED
        BY <3>3, <3>4
    <2> QED
      BY <2>2, <2>3
  <1>6. CASE RejectPermission(i)
    BY <1>0, <1>6 DEF RejectPermission, ToolTyped, TurnTyped, toolVars, consumerVars
  <1> QED
    BY <1>2, <1>3, <1>4, <1>5, <1>6 DEF ToolStep

(* TypeOK is inductive: no step of any actor leaves it.                    *)
LEMMA NextTyped == TypeOK /\ [Next]_vars => TypeOK'
PROOF
  <1> SUFFICES ASSUME TypeOK, [Next]_vars PROVE TypeOK'
    OBVIOUS
  <1>1. CASE AbortTurn
    BY <1>1 DEF AbortTurn, TypeOK, toolVars, consumerVars
  <1>2. CASE Finished \/ UNCHANGED vars
    BY <1>2 DEF Finished, TypeOK, vars, toolVars, consumerVars
  <1> QED
    BY <1>1, <1>2, QueryLoopTyped, ConsumerTyped, PassesTyped, ToolsTyped DEF Next

(* In every reachable state, for all constants, the variables have their   *)
(* types.                                                                  *)
THEOREM Typing == Spec => []TypeOK
PROOF
  <1> QED
    BY InitTyped, NextTyped, PTL DEF Spec

------------------------------------------------------------------------------
(***************************************************************************)
(* Scheduling.  ExclusiveAccess needs only that a tool is not streamed     *)
(* twice.  NoOvertaking is not inductive: a processQueue call suspended    *)
(* past a queued exclusive tool could start a later one.  ScheduleInv says *)
(* there is no such call, nor such a cursor of getRemainingResults.        *)
(***************************************************************************)

(* No exclusive tool of e up to c waits, when the statuses are st.         *)
Free(st, e, c) ==
  \A i \in MembersOf(e) : (i <= c /\ st[i] = "queued") => Safe(i)

ExclusiveIn(st) ==
  \A e \in Attempts : \A i, j \in MembersOf(e) :
    (i # j /\ st[i] = "executing" /\ st[j] = "executing") => Safe(i) /\ Safe(j)

OrderedIn(st) ==
  \A e \in Attempts : \A i, j \in MembersOf(e) :
    (i < j /\ st[i] = "queued" /\ ~Safe(i))
      => st[j] \in {"absent", "queued"} \/ ~kind[j].known

StreamedOnly == \A i \in Tools : i > uses => status[i] = "absent"

HeldIsAbsent ==
  pc = "useHeld" => uses > 0 /\ status[uses] = "absent" /\ attempt[uses] = cur

PassesFree ==
  \A e \in Attempts, c \in Tools :
    passes[e][c] > 0 => status[c] # "absent" /\ Free(status, e, c)

CursorFree ==
  /\ pc \in {"drainCheck", "drainWait"} => at = 0
  /\ pc = "drainScan" => Free(status, cur, at)

ScheduleInv ==
  /\ StreamedOnly
  /\ HeldIsAbsent
  /\ PassesFree
  /\ CursorFree
  /\ ExclusiveIn(status)
  /\ OrderedIn(status)

LEMMA ScheduleImplies == ScheduleInv => ExclusiveAccess /\ NoOvertaking
PROOF
  BY DEF ScheduleInv, ExclusiveIn, OrderedIn, ExclusiveAccess, NoOvertaking,
         Executing, Started, MembersOf

(* The pass added by promise.finally is at no tool yet.                    *)
LEMMA FinallyPassElsewhere ==
  ASSUME NEW ps \in PassTable, NEW e \in Attempts
  PROVE  \A d \in Attempts, f \in Tools : FinallyPass(ps, e)[d][f] = ps[d][f]
PROOF
  <1>1. \A d \in Attempts : ps[d] \in [0..MaxTools -> Nat]
    BY DEF PassTable
  <1>2. \A f \in Tools : f \in 0..MaxTools /\ f # 0
    BY ToolsArePassCursors DEF Tools
  <1> QED
    BY <1>1, <1>2 DEF FinallyPass, PassTable

(* Starting a tool chosen by NextStart keeps the schedule, when there is   *)
(* no exclusive tool waiting up to the cursor c it was chosen from.        *)
LEMMA StartKeepsSchedule ==
  ASSUME TypeOK,
         NEW st \in [Tools -> Statuses], NEW ps \in PassTable,
         NEW e \in Attempts, NEW c \in 0..MaxTools,
         NEW j \in NextStart(st, MembersOf(e), c),
         StartTool(st, ps, e, j),
         UNCHANGED <<kind, attempt>>,
         ExclusiveIn(st), OrderedIn(st), Free(st, e, c),
         \A d \in Attempts, f \in Tools :
           (ps[d][f] > 0 /\ ~(d = e /\ f = j)) => st[f] # "absent" /\ Free(st, d, f)
  PROVE  /\ ExclusiveIn(status)' /\ OrderedIn(status)'
         /\ PassesFree' /\ Free(status, e, j)'
         /\ \A i \in Tools : status'[i] = "absent" => st[i] = "absent"
         /\ \A d \in Attempts, f \in 0..MaxTools :
              Free(st, d, f) => Free(status, d, f)'
PROOF
  <1>1. /\ j \in Tools /\ attempt[j] = e /\ j > c /\ st[j] = "queued"
        /\ CanExecute(st, MembersOf(e), j)
        /\ \A m \in Tools : (attempt[m] = e /\ c < m /\ m < j /\ st[m] = "queued")
                               => Safe(m)
    BY NextStartMember
  <1>2. PICK s \in {"executing", "completed"} : status' = [st EXCEPT ![j] = s]
    BY DEF StartTool
  <1>3. /\ status'[j] = s
        /\ \A i \in Tools : i # j => status'[i] = st[i]
    BY <1>1, <1>2
  <1>4. \A d \in Attempts, f \in Tools : passes'[d][f] = ps[d][f]
    <2>1. CASE passes' = ps
      BY <2>1
    <2>2. CASE passes' = FinallyPass(ps, e)
      BY <2>2, FinallyPassElsewhere
    <2> QED
      BY <2>1, <2>2 DEF StartTool
  <1>5. \A d : MembersOf(d)' = MembersOf(d)
    BY DEF MembersOf
  <1>6. \A i \in Tools : Safe(i)' = Safe(i)
    BY DEF Safe
  <1>7. ExclusiveIn(status)'
    <2> SUFFICES ASSUME NEW d \in Attempts, NEW a \in MembersOf(d), NEW b \in MembersOf(d),
                        a # b, status'[a] = "executing", status'[b] = "executing"
                 PROVE  Safe(a) /\ Safe(b)
      BY <1>5, <1>6 DEF ExclusiveIn, MembersOf
    <2>1. CASE a # j /\ b # j
      BY <1>3, <2>1 DEF ExclusiveIn, MembersOf
    <2>2. CASE a = j \/ b = j
      BY <1>1, <1>3, <2>2 DEF CanExecute, MembersOf
    <2> QED
      BY <2>1, <2>2
  <1>8. Free(status, e, j)'
    <2> SUFFICES ASSUME NEW i \in MembersOf(e), i <= j, status'[i] = "queued"
                 PROVE  Safe(i)
      BY <1>5, <1>6 DEF Free, MembersOf
    <2>1. i # j /\ st[i] = "queued" /\ i \in Tools /\ attempt[i] = e
      BY <1>3 DEF MembersOf
    <2> QED
      BY <1>1, <2>1 DEF Free, MembersOf, Tools
  <1>9. OrderedIn(status)'
    <2> SUFFICES ASSUME NEW d \in Attempts, NEW a \in MembersOf(d), NEW b \in MembersOf(d),
                        a < b, status'[a] = "queued", ~Safe(a)
                 PROVE  status'[b] \in {"absent", "queued"} \/ ~kind[b].known
      BY <1>5, <1>6 DEF OrderedIn, MembersOf
    <2>1. a # j /\ st[a] = "queued"
      BY <1>3 DEF MembersOf
    <2>2. CASE b # j
      BY <1>3, <2>1, <2>2 DEF OrderedIn, MembersOf
    <2>3. CASE b = j
      BY <1>1, <1>5, <1>6, <1>8, <2>3 DEF Free, MembersOf, Tools
    <2> QED
      BY <2>2, <2>3
  <1>10. ASSUME NEW d \in Attempts, NEW f \in 0..MaxTools, Free(st, d, f)
         PROVE  Free(status, d, f)'
    BY <1>3, <1>5, <1>6, <1>10 DEF Free, MembersOf
  <1>11. \A i \in Tools : status'[i] = "absent" => st[i] = "absent"
    BY <1>3
  <1>12. PassesFree'
    <2> SUFFICES ASSUME NEW d \in Attempts, NEW f \in Tools, passes'[d][f] > 0
                 PROVE  status'[f] # "absent" /\ Free(status, d, f)'
      BY DEF PassesFree
    <2>1. CASE d = e /\ f = j
      BY <1>3, <1>8, <2>1
    <2>2. CASE ~(d = e /\ f = j)
      BY <1>3, <1>4, <1>10, <2>2, ToolsArePassCursors
    <2> QED
      BY <2>1, <2>2
  <1> QED
    BY <1>7, <1>8, <1>9, <1>10, <1>11, <1>12

(* A step that only completes or yields tools keeps the schedule.          *)
LEMMA SettlingKeepsSchedule ==
  ASSUME TypeOK, ScheduleInv, UNCHANGED <<kind, attempt>>,
         \A i \in Tools : \/ status'[i] = status[i]
                          \/ /\ status[i] \in {"executing", "completed"}
                             /\ status'[i] \in {"completed", "yielded"},
         \A d \in Attempts, f \in Tools : passes'[d][f] > 0 => passes[d][f] > 0
  PROVE  /\ ExclusiveIn(status)' /\ OrderedIn(status)' /\ PassesFree'
         /\ \A i \in Tools : status'[i] = "absent" <=> status[i] = "absent"
         /\ \A d \in Attempts, f \in 0..MaxTools :
              Free(status, d, f) => Free(status, d, f)'
PROOF
  <1>1. \A d : MembersOf(d)' = MembersOf(d)
    BY DEF MembersOf
  <1>2. \A i \in Tools : Safe(i)' = Safe(i)
    BY DEF Safe
  <1>3. ExclusiveIn(status)'
    <2> SUFFICES ASSUME NEW d \in Attempts, NEW a \in MembersOf(d), NEW b \in MembersOf(d),
                        a # b, status'[a] = "executing", status'[b] = "executing"
                 PROVE  Safe(a) /\ Safe(b)
      BY <1>1, <1>2 DEF ExclusiveIn, MembersOf
    <2>1. status[a] = "executing" /\ status[b] = "executing"
      BY DEF MembersOf
    <2> QED
      BY <2>1 DEF ScheduleInv, ExclusiveIn
  <1>4. OrderedIn(status)'
    <2> SUFFICES ASSUME NEW d \in Attempts, NEW a \in MembersOf(d), NEW b \in MembersOf(d),
                        a < b, status'[a] = "queued", ~Safe(a)
                 PROVE  status'[b] \in {"absent", "queued"} \/ ~kind[b].known
      BY <1>1, <1>2 DEF OrderedIn, MembersOf
    <2>1. status[a] = "queued"
      BY DEF MembersOf
    <2>2. status[b] \in {"absent", "queued"} \/ ~kind[b].known
      BY <2>1 DEF ScheduleInv, OrderedIn
    <2> QED
      BY <2>2 DEF MembersOf
  <1>5. ASSUME NEW d \in Attempts, NEW f \in 0..MaxTools, Free(status, d, f)
        PROVE  Free(status, d, f)'
    BY <1>1, <1>2, <1>5 DEF Free, MembersOf
  <1>6. \A i \in Tools : status'[i] = "absent" <=> status[i] = "absent"
    OBVIOUS
  <1>7. PassesFree'
    BY <1>5, <1>6, ToolsArePassCursors DEF PassesFree, ScheduleInv
  <1> QED
    BY <1>3, <1>4, <1>5, <1>6, <1>7

LEMMA InitSchedule == Init => ScheduleInv
PROOF
  <1> SUFFICES ASSUME Init PROVE ScheduleInv
    OBVIOUS
  <1>1. \A i \in Tools : status[i] = "absent"
    BY DEF Init
  <1>2. \A e \in Attempts, c \in Tools : passes[e][c] = 0
    BY ToolsArePassCursors DEF Init
  <1>3. pc = "stream"
    BY DEF Init
  <1> QED
    BY <1>1, <1>2, <1>3 DEF ScheduleInv, StreamedOnly, HeldIsAbsent, PassesFree,
       CursorFree, ExclusiveIn, OrderedIn, MembersOf

(* The query loop keeps the schedule: the tool it adds is the last one.    *)
LEMMA QueryLoopKeepsSchedule == TypeOK /\ ScheduleInv /\ QueryLoop => ScheduleInv'
PROOF
  <1> SUFFICES ASSUME TypeOK, ScheduleInv, QueryLoop PROVE ScheduleInv'
    OBVIOUS
  <1> USE BoundsAssumption
  <1>0. /\ StreamedOnly /\ HeldIsAbsent /\ PassesFree /\ CursorFree
        /\ ExclusiveIn(status) /\ OrderedIn(status)
    BY DEF ScheduleInv
  <1>1. CASE StreamToolUse
    <2>1. /\ uses' = uses + 1 /\ uses' \in Tools /\ pc' = "useHeld"
          /\ attempt' = [attempt EXCEPT ![uses'] = cur]
          /\ UNCHANGED <<kind, status, passes, cur, at>>
      BY <1>1 DEF StreamToolUse, toolVars, TypeOK, Tools
    <2>2. status[uses'] = "absent"
      BY <1>0, <2>1 DEF StreamedOnly, TypeOK
    <2>3. /\ attempt'[uses'] = cur
          /\ \A i \in Tools : i # uses' => attempt'[i] = attempt[i]
      BY <2>1 DEF TypeOK
    <2>4. \A i \in Tools : Safe(i)' = Safe(i)
      BY <2>1 DEF Safe
    <2>5. StreamedOnly' /\ HeldIsAbsent'
      BY <1>0, <2>1, <2>2, <2>3 DEF StreamedOnly, HeldIsAbsent, TypeOK, Tools
    <2>6. ExclusiveIn(status)' /\ OrderedIn(status)'
      BY <1>0, <2>1, <2>2, <2>3, <2>4 DEF ExclusiveIn, OrderedIn, MembersOf
    <2>7. PassesFree'
      BY <1>0, <2>1, <2>2, <2>3, <2>4 DEF PassesFree, Free, MembersOf
    <2>8. CursorFree'
      BY <2>1 DEF CursorFree
    <2> QED
      BY <2>5, <2>6, <2>7, <2>8 DEF ScheduleInv
  <1>2. CASE SkipAddTool
    BY <1>0, <1>2 DEF SkipAddTool, toolVars, ScheduleInv, StreamedOnly, HeldIsAbsent,
       PassesFree, CursorFree, ExclusiveIn, OrderedIn, Free, MembersOf, Safe
  <1>3. CASE AddUnknownTool
    <2>1. /\ uses \in Tools /\ status[uses] = "absent" /\ ~kind[uses].known
          /\ status' = [status EXCEPT ![uses] = "completed"]
          /\ pc' = "collect"
          /\ UNCHANGED <<kind, attempt, uses, passes, cur>>
      BY <1>0, <1>3 DEF AddUnknownTool, HeldIsAbsent, TypeOK, Tools
    <2>2. /\ status'[uses] = "completed"
          /\ \A i \in Tools : i # uses => status'[i] = status[i]
      BY <2>1 DEF TypeOK
    <2>3. \A i \in Tools : Safe(i)' = Safe(i)
      BY <2>1 DEF Safe
    <2>4. StreamedOnly'
      <3>1. uses \in Nat /\ \A i \in Tools : i \in Nat
        BY <2>1 DEF Tools
      <3> QED
        BY <1>0, <2>1, <2>2, <3>1 DEF StreamedOnly
    <2>7. HeldIsAbsent' /\ CursorFree'
      BY <2>1 DEF HeldIsAbsent, CursorFree
    <2>5. ExclusiveIn(status)' /\ OrderedIn(status)'
      BY <1>0, <2>1, <2>2, <2>3 DEF ExclusiveIn, OrderedIn, MembersOf
    <2>6. PassesFree'
      BY <1>0, <2>1, <2>2, <2>3 DEF PassesFree, Free, MembersOf
    <2> QED
      BY <2>4, <2>5, <2>6, <2>7 DEF ScheduleInv
  <1>4. CASE AddTool
    <2> DEFINE st == [status EXCEPT ![uses] = "queued"]
               next == NextStart(st, MembersOf(cur), 0)
    <2>1. /\ uses \in Tools /\ status[uses] = "absent"
          /\ pc' = "collect"
          /\ UNCHANGED <<kind, attempt, uses, cur>>
      BY <1>0, <1>4 DEF AddTool, HeldIsAbsent, TypeOK, Tools
    <2>2. /\ st[uses] = "queued" /\ st \in [Tools -> Statuses]
          /\ \A i \in Tools : i # uses => st[i] = status[i]
      BY <2>1 DEF TypeOK, Statuses
    <2>3. \A i \in Tools : i > uses => status[i] = "absent"
      BY <1>0 DEF StreamedOnly
    <2>4. ExclusiveIn(st)
      BY <1>0, <2>1, <2>2 DEF ExclusiveIn, MembersOf
    <2>5. OrderedIn(st)
      BY <1>0, <2>1, <2>2, <2>3 DEF OrderedIn, MembersOf
    <2>6. ASSUME NEW d \in Attempts, NEW f \in Tools, passes[d][f] > 0
          PROVE  st[f] # "absent" /\ Free(st, d, f)
      <3>1. status[f] # "absent" /\ Free(status, d, f)
        BY <1>0, <2>6 DEF PassesFree
      <3>2. f < uses
        BY <2>1, <2>3, <3>1 DEF Tools
      <3> QED
        BY <2>2, <3>1, <3>2 DEF Free, MembersOf, Tools
    <2>7. HeldIsAbsent' /\ CursorFree'
      BY <2>1 DEF HeldIsAbsent, CursorFree
    <2>8. ASSUME status' = st, UNCHANGED <<results, phase, interruptible, passes>>
          PROVE  ScheduleInv'
      <3>1. \A i \in Tools : Safe(i)' = Safe(i)
        BY <2>1 DEF Safe
      <3>2. ExclusiveIn(status)' /\ OrderedIn(status)'
        BY <2>1, <2>4, <2>5, <2>8, <3>1 DEF ExclusiveIn, OrderedIn, MembersOf
      <3>3. PassesFree'
        BY <2>1, <2>6, <2>8, <3>1 DEF PassesFree, Free, MembersOf
      <3>4. StreamedOnly'
        BY <1>0, <2>1, <2>2, <2>8 DEF StreamedOnly, TypeOK, Tools
      <3> QED
        BY <2>7, <3>2, <3>3, <3>4 DEF ScheduleInv
    <2>9. ASSUME NEW j \in NextStart(st, MembersOf(cur), 0),
                 StartTool(st, [passes EXCEPT ![cur][j] = @ + 1], cur, j)
          PROVE  ScheduleInv'
      <3> DEFINE ps == [passes EXCEPT ![cur][j] = @ + 1]
      <3> HIDE DEF st
      <3>1. j \in Tools /\ st[j] = "queued"
        BY NextStartMember
      <3>7. j \in 0..MaxTools /\ cur \in Attempts /\ 0 \in 0..MaxTools
        BY <3>1, ToolsArePassCursors DEF TypeOK
      <3>2. ps \in PassTable
        BY <3>7, AddPassTyped DEF TypeOK, PassTable
      <3>3. Free(st, cur, 0)
        BY DEF Free, MembersOf, Tools
      <3>4. \A d \in Attempts, f \in Tools :
              (ps[d][f] > 0 /\ ~(d = cur /\ f = j)) => st[f] # "absent" /\ Free(st, d, f)
        BY <2>6, <3>1, <3>7, ToolsArePassCursors DEF TypeOK
      <3>8. StartTool(st, ps, cur, j) /\ UNCHANGED <<kind, attempt>>
        BY <2>1, <2>9
      <3> HIDE DEF ps
      <3>5. /\ ExclusiveIn(status)' /\ OrderedIn(status)' /\ PassesFree'
            /\ \A i \in Tools : status'[i] = "absent" => st[i] = "absent"
        BY <2>2, <2>4, <2>5, <3>2, <3>3, <3>4, <3>7, <3>8, StartKeepsSchedule
      <3>6. StreamedOnly'
        <4> SUFFICES ASSUME NEW i \in Tools, i > uses PROVE status'[i] = "absent"
          BY <2>1 DEF StreamedOnly
        <4>1. st[i] = "absent"
          BY <2>1, <2>2, <2>3 DEF Tools
        <4>2. i # j
          BY <3>1, <4>1
        <4> QED
          BY <2>2, <2>9, <4>1, <4>2 DEF StartTool
      <3> QED
        BY <2>7, <3>5, <3>6 DEF ScheduleInv
    <2> QED
      BY <1>4, <2>8, <2>9 DEF AddTool
  <1>5. CASE Fallback
    BY <1>0, <1>5 DEF Fallback, toolVars, consumerVars, ScheduleInv, StreamedOnly,
       HeldIsAbsent, PassesFree, CursorFree, ExclusiveIn, OrderedIn, Free, MembersOf, Safe
  <1>6. CASE StreamEnd
    <2>1. /\ pc' \in {"drainScan", "done"} /\ at' = 0
          /\ UNCHANGED <<kind, attempt, uses, status, passes, cur>>
      BY <1>6 DEF StreamEnd, LoopTop, toolVars
    <2>2. CursorFree'
      BY <2>1 DEF CursorFree, Free, MembersOf, Tools
    <2> QED
      BY <1>0, <2>1, <2>2 DEF ScheduleInv, StreamedOnly, HeldIsAbsent, PassesFree,
         ExclusiveIn, OrderedIn, Free, MembersOf, Safe
  <1>7. CASE StreamOther
    <2>1. /\ pc' = "collect"
          /\ UNCHANGED <<kind, attempt, uses, status, passes, cur>>
      BY <1>7 DEF StreamOther, toolVars
    <2> QED
      BY <1>0, <2>1 DEF ScheduleInv, StreamedOnly, HeldIsAbsent, PassesFree, CursorFree,
         ExclusiveIn, OrderedIn, Free, MembersOf, Safe
  <1> QED
    BY <1>1, <1>2, <1>3, <1>4, <1>5, <1>6, <1>7 DEF QueryLoop

(* The consumer keeps the schedule: getRemainingResults starts tools as a  *)
(* processQueue call does, and yielding them changes no queued tool.       *)
LEMMA ConsumerKeepsSchedule == TypeOK /\ ScheduleInv /\ Consumer => ScheduleInv'
PROOF
  <1> SUFFICES ASSUME TypeOK, ScheduleInv, Consumer PROVE ScheduleInv'
    OBVIOUS
  <1> USE BoundsAssumption
  <1>0. /\ StreamedOnly /\ HeldIsAbsent /\ PassesFree /\ CursorFree
        /\ ExclusiveIn(status) /\ OrderedIn(status)
    BY DEF ScheduleInv
  <1>a. ASSUME UNCHANGED <<kind, attempt, uses, status, passes, cur>>,
               pc' # "useHeld", CursorFree'
        PROVE  ScheduleInv'
    BY <1>0, <1>a DEF ScheduleInv, StreamedOnly, HeldIsAbsent, PassesFree,
       ExclusiveIn, OrderedIn, Free, MembersOf, Safe
  <1>b. Free(status, cur, 0)
    BY DEF Free, MembersOf, Tools
  <1>c. ASSUME UNCHANGED <<kind, attempt, status, cur>>, at' = 0,
               pc' \in {"drainScan", "drainCheck", "drainWait", "done", "stream"}
        PROVE  CursorFree'
    BY <1>b, <1>c DEF CursorFree, Free, MembersOf, Safe
  <1>1. CASE YieldProgress
    BY <1>a, <1>1 DEF YieldProgress, CursorFree
  <1>2. CASE YieldResults
    <2>1. PICK i \in NextOffer(at) :
            pending[i] = 0 /\ status' = [status EXCEPT ![i] = "yielded"]
      BY <1>2 DEF YieldResults
    <2>2. /\ pc' = "resultHeld"
          /\ UNCHANGED <<kind, attempt, uses, passes, cur>>
      BY <1>2 DEF YieldResults
    <2>3. i \in Tools /\ status[i] = "completed"
      BY <2>1 DEF NextOffer, Offers, MembersOf
    <2>4. \A a \in Tools : \/ status'[a] = status[a]
                           \/ /\ status[a] \in {"executing", "completed"}
                              /\ status'[a] \in {"completed", "yielded"}
      BY <2>1, <2>3 DEF TypeOK
    <2>5. /\ ExclusiveIn(status)' /\ OrderedIn(status)' /\ PassesFree'
          /\ \A a \in Tools : status'[a] = "absent" <=> status[a] = "absent"
      BY <2>2, <2>4, SettlingKeepsSchedule
    <2>6. StreamedOnly'
      BY <1>0, <2>2, <2>5 DEF StreamedOnly
    <2> QED
      BY <2>2, <2>5, <2>6 DEF ScheduleInv, HeldIsAbsent, CursorFree
  <1>3. CASE CollectEnd
    BY <1>a, <1>c, <1>3 DEF CollectEnd, toolVars
  <1>4. CASE DrainScan
    <2>1. /\ pc = "drainScan" /\ Free(status, cur, at)
          /\ UNCHANGED <<kind, attempt, uses, cur>>
      BY <1>0, <1>4 DEF DrainScan, CursorFree
    <2>2. ASSUME pc' = "collect", UNCHANGED <<status, passes>>
          PROVE  ScheduleInv'
      BY <1>a, <2>1, <2>2 DEF CursorFree
    <2>3. ASSUME NEW j \in NextStart(status, MembersOf(cur), at),
                 StartTool(status, passes, cur, j), at' = j, UNCHANGED pc
          PROVE  ScheduleInv'
      <3>1. /\ cur \in Attempts /\ at \in 0..MaxTools
            /\ status \in [Tools -> Statuses] /\ passes \in PassTable
        BY DEF TypeOK, PassTable
      <3>2. \A d \in Attempts, f \in Tools :
              (passes[d][f] > 0 /\ ~(d = cur /\ f = j))
                => status[f] # "absent" /\ Free(status, d, f)
        BY <1>0 DEF PassesFree
      <3>3. /\ ExclusiveIn(status)' /\ OrderedIn(status)' /\ PassesFree'
            /\ Free(status, cur, j)'
            /\ \A i \in Tools : status'[i] = "absent" => status[i] = "absent"
        BY <1>0, <2>1, <2>3, <3>1, <3>2, StartKeepsSchedule
      <3>4. StreamedOnly'
        <4>1. j \in Tools /\ status[j] = "queued"
          BY NextStartMember
        <4>2. \A i \in Tools : i # j => status'[i] = status[i]
          BY <2>3, <4>1, <3>1 DEF StartTool
        <4> QED
          BY <1>0, <2>1, <4>1, <4>2 DEF StreamedOnly
      <3>5. CursorFree' /\ HeldIsAbsent'
        BY <2>1, <2>3, <3>3 DEF CursorFree, HeldIsAbsent, Free, MembersOf, Safe
      <3> QED
        BY <3>3, <3>4, <3>5 DEF ScheduleInv
    <2> QED
      BY <1>4, <2>2, <2>3 DEF DrainScan
  <1>5. CASE DrainCheck
    <2>1. at = 0
      BY <1>0, <1>5 DEF DrainCheck, CursorFree
    <2>2. /\ UNCHANGED <<kind, attempt, uses, status, passes, cur, at>>
          /\ pc' \in {"drainScan", "drainWait", "done"}
      BY <1>5 DEF DrainCheck, LoopTop, toolVars
    <2> QED
      BY <1>a, <1>c, <2>1, <2>2
  <1>6. CASE DrainWake
    <2>1. at = 0
      BY <1>0, <1>6 DEF DrainWake, CursorFree
    <2>2. /\ UNCHANGED <<kind, attempt, uses, status, passes, cur, at>>
          /\ pc' \in {"drainScan", "done"}
      BY <1>6 DEF DrainWake, LoopTop, toolVars
    <2> QED
      BY <1>a, <1>c, <2>1, <2>2
  <1> QED
    BY <1>1, <1>2, <1>3, <1>4, <1>5, <1>6 DEF Consumer

(* So does a processQueue call resumed after an await.                     *)
LEMMA PassesKeepSchedule == TypeOK /\ ScheduleInv /\ Passes => ScheduleInv'
PROOF
  <1> SUFFICES ASSUME TypeOK, ScheduleInv,
                      NEW e \in Attempts, NEW c \in 0..MaxTools, ResumePass(e, c)
               PROVE  ScheduleInv'
    BY DEF Passes
  <1>0. /\ StreamedOnly /\ HeldIsAbsent /\ PassesFree /\ CursorFree
        /\ ExclusiveIn(status) /\ OrderedIn(status)
    BY DEF ScheduleInv
  <1> DEFINE ps == [passes EXCEPT ![e][c] = @ - 1]
  <1>1. /\ passes[e][c] > 0
        /\ UNCHANGED <<kind, attempt, uses, cur, pc, at>>
    BY DEF ResumePass, consumerVars
  <1>2. ps \in PassTable
    <2>1. passes[e] \in [0..MaxTools -> Nat]
      BY DEF TypeOK
    <2>2. passes[e][c] - 1 \in Nat
      <3>1. passes[e][c] \in Nat
        BY <2>1
      <3> QED
        BY <1>1, <3>1
    <2>3. [passes[e] EXCEPT ![c] = passes[e][c] - 1] \in [0..MaxTools -> Nat]
      BY <2>1, <2>2
    <2> QED
      BY <2>3 DEF TypeOK, PassTable
  <1>3. \A d \in Attempts, f \in Tools : ps[d][f] > 0 => passes[d][f] > 0
    <2>1. \A d \in Attempts : passes[d] \in [0..MaxTools -> Nat]
      BY DEF TypeOK
    <2>2. \A f \in Tools : f \in 0..MaxTools
      BY ToolsArePassCursors
    <2> QED
      BY <1>1, <2>1, <2>2 DEF TypeOK
  <1>4. Free(status, e, c)
    <2>1. CASE c = 0
      BY <2>1 DEF Free, MembersOf, Tools
    <2>2. CASE c # 0
      <3>1. c \in Tools
        BY <2>2, BoundsAssumption DEF Tools
      <3> QED
        BY <1>0, <1>1, <3>1 DEF PassesFree
    <2> QED
      BY <2>1, <2>2
  <1>5. ASSUME passes' = ps, UNCHANGED status
        PROVE  ScheduleInv'
    <2>1. PassesFree'
      BY <1>0, <1>1, <1>3, <1>5 DEF PassesFree, Free, MembersOf, Safe
    <2> QED
      BY <1>0, <1>1, <1>5, <2>1 DEF ScheduleInv, StreamedOnly, HeldIsAbsent, CursorFree,
         ExclusiveIn, OrderedIn, Free, MembersOf, Safe
  <1>6. ASSUME NEW j \in NextStart(status, MembersOf(e), c),
               StartTool(status, [ps EXCEPT ![e][j] = @ + 1], e, j)
        PROVE  ScheduleInv'
    <2> DEFINE ps2 == [ps EXCEPT ![e][j] = @ + 1]
    <2>1. j \in Tools /\ status[j] = "queued" /\ attempt[j] = e
      BY NextStartMember
    <2>2. j \in 0..MaxTools /\ status \in [Tools -> Statuses]
      BY <2>1, ToolsArePassCursors DEF TypeOK
    <2>3. ps2 \in PassTable
      BY <1>2, <2>2, AddPassTyped
    <2>4. StartTool(status, ps2, e, j)
      BY <1>6
    <2>5. \A d \in Attempts, f \in Tools :
            (ps2[d][f] > 0 /\ ~(d = e /\ f = j)) => ps[d][f] > 0
      <3> HIDE DEF ps
      <3>1. \A d \in Attempts : ps[d] \in [0..MaxTools -> Nat]
        BY <1>2 DEF PassTable
      <3> QED
        BY <1>2, <2>2, <3>1, ToolsArePassCursors DEF PassTable
    <2>6. \A d \in Attempts, f \in Tools :
            (ps2[d][f] > 0 /\ ~(d = e /\ f = j))
              => status[f] # "absent" /\ Free(status, d, f)
      BY <1>0, <1>3, <2>5 DEF PassesFree
    <2> HIDE DEF ps2
    <2>7. /\ ExclusiveIn(status)' /\ OrderedIn(status)' /\ PassesFree'
          /\ \A d \in Attempts, f \in 0..MaxTools :
               Free(status, d, f) => Free(status, d, f)'
      BY <1>0, <1>1, <1>4, <2>2, <2>3, <2>4, <2>6, StartKeepsSchedule
    <2>8. \A i \in Tools : i # j => status'[i] = status[i]
      BY <2>1, <2>2, <2>4 DEF StartTool
    <2>9. StreamedOnly' /\ HeldIsAbsent'
      <3>1. uses > 0 => uses \in Tools
        BY DEF TypeOK, Tools
      <3> QED
        BY <1>0, <1>1, <2>1, <2>8, <3>1 DEF StreamedOnly, HeldIsAbsent
    <2>10. CursorFree'
      <3>1. cur \in Attempts /\ at \in 0..MaxTools
        BY DEF TypeOK
      <3> QED
        BY <1>0, <1>1, <2>7, <3>1 DEF CursorFree, Free, MembersOf, Safe
    <2> QED
      BY <2>7, <2>9, <2>10 DEF ScheduleInv
  <1> QED
    BY <1>5, <1>6 DEF ResumePass

(* And so does every step of a tool: it changes no status, or completes    *)
(* the tool and schedules another processQueue call.                       *)
LEMMA ToolsKeepSchedule ==
  ASSUME TypeOK, ScheduleInv, NEW i \in Tools,
         ToolStep(i) \/ ToolProgress(i) \/ RejectPermission(i)
  PROVE  ScheduleInv'
PROOF
  <1>0. /\ StreamedOnly /\ HeldIsAbsent /\ PassesFree /\ CursorFree
        /\ ExclusiveIn(status) /\ OrderedIn(status)
    BY DEF ScheduleInv
  <1>1. UNCHANGED <<kind, attempt, uses, cur, pc, at>>
    BY DEF ToolStep, ToolRefused, ToolTail, ToolAnswers, ToolProgress,
           RejectPermission, consumerVars
  <1>2. \/ UNCHANGED <<status, passes>>
        \/ status[i] = "executing" /\ \E rs : CompleteTool(i, rs)
    <2>1. CASE ToolRefused(i) \/ ToolAnswers(i)
      BY <2>1 DEF ToolRefused, ToolAnswers, Receive, Running
    <2>2. CASE ToolTail(i)
      BY <2>2 DEF ToolTail
    <2>3. CASE ToolProgress(i)
      BY <2>3 DEF ToolProgress, Running
    <2>4. CASE RejectPermission(i)
      BY <2>4 DEF RejectPermission, toolVars
    <2> QED
      BY <2>1, <2>2, <2>3, <2>4 DEF ToolStep
  <1> DEFINE
        Settled == \A a \in Tools : \/ status'[a] = status[a]
                                    \/ /\ status[a] \in {"executing", "completed"}
                                       /\ status'[a] \in {"completed", "yielded"}
        NoNewCursor == \A d \in Attempts, f \in Tools :
                         passes'[d][f] > 0 => passes[d][f] > 0
  <1>3. Settled /\ NoNewCursor
    <2>1. CASE UNCHANGED <<status, passes>>
      BY <2>1
    <2>2. ASSUME NEW rs, CompleteTool(i, rs), status[i] = "executing"
          PROVE  Settled /\ NoNewCursor
      <3>1. status' = [status EXCEPT ![i] = "completed"]
        BY <2>2 DEF CompleteTool
      <3>2. /\ passes' = FinallyPass(passes, attempt[i])
            /\ passes \in PassTable /\ attempt[i] \in Attempts
        BY <2>2 DEF CompleteTool, TypeOK, PassTable
      <3>3. \A d \in Attempts, f \in Tools : passes'[d][f] = passes[d][f]
        BY <3>2, FinallyPassElsewhere
      <3>4. \A a \in Tools : a # i => status'[a] = status[a]
        BY <3>1 DEF TypeOK
      <3>5. status'[i] = "completed"
        BY <3>1 DEF TypeOK
      <3>6. Settled
        BY <2>2, <3>4, <3>5
      <3> QED
        BY <3>3, <3>6
    <2> QED
      BY <1>2, <2>1, <2>2
  <1>4. /\ ExclusiveIn(status)' /\ OrderedIn(status)' /\ PassesFree'
        /\ \A a \in Tools : status'[a] = "absent" <=> status[a] = "absent"
        /\ \A d \in Attempts, f \in 0..MaxTools :
             Free(status, d, f) => Free(status, d, f)'
    BY <1>1, <1>3, SettlingKeepsSchedule
  <1>5. StreamedOnly' /\ HeldIsAbsent'
    <2>1. uses > 0 => uses \in Tools
      BY DEF TypeOK, Tools
    <2> QED
      BY <1>0, <1>1, <1>4, <2>1 DEF StreamedOnly, HeldIsAbsent
  <1>6. CursorFree'
    <2>1. cur \in Attempts /\ at \in 0..MaxTools
      BY DEF TypeOK
    <2> QED
      BY <1>0, <1>1, <1>4, <2>1 DEF CursorFree, Free, MembersOf, Safe
  <1> QED
    BY <1>4, <1>5, <1>6 DEF ScheduleInv

LEMMA NextKeepsSchedule == TypeOK /\ ScheduleInv /\ [Next]_vars => ScheduleInv'
PROOF
  <1> SUFFICES ASSUME TypeOK, ScheduleInv, [Next]_vars PROVE ScheduleInv'
    OBVIOUS
  <1>1. CASE AbortTurn \/ Finished \/ UNCHANGED vars
    <2>1. UNCHANGED <<kind, attempt, uses, cur, pc, at, status, passes>>
      BY <1>1 DEF AbortTurn, Finished, vars, toolVars, consumerVars
    <2> QED
      BY <2>1 DEF ScheduleInv, StreamedOnly, HeldIsAbsent, PassesFree, CursorFree,
         ExclusiveIn, OrderedIn, Free, MembersOf, Safe
  <1> QED
    BY <1>1, QueryLoopKeepsSchedule, ConsumerKeepsSchedule, PassesKeepSchedule,
       ToolsKeepSchedule DEF Next

LEMMA ScheduleAlways == Spec => [](TypeOK /\ ScheduleInv)
PROOF
  <1> QED
    BY InitTyped, NextTyped, InitSchedule, NextKeepsSchedule, PTL DEF Spec

(* Whatever tools the model calls, however many executors the turn creates *)
(* and in whatever order promises resume, a tool that is not concurrency   *)
(* safe never executes beside another tool of its executor.                *)
THEOREM Exclusion == Spec => []ExclusiveAccess
PROOF
  <1> QED
    BY ScheduleAlways, ScheduleImplies, PTL

(* And no known tool starts before an exclusive tool received earlier.     *)
THEOREM QueueOrder == Spec => []NoOvertaking
PROOF
  <1> QED
    BY ScheduleAlways, ScheduleImplies, PTL

------------------------------------------------------------------------------
(* One result for each tool.  The danger is the update after a tool_result *)
(* which may bring a synthetic error as well.  It arrives before anything  *)
(* else happens: when a tool answers no other microtask is pending, so     *)
(* until its tail is read nobody can cancel it but its own error, which is *)
(* looked at.                                                              *)

InTail(i) == status[i] = "executing" /\ phase[i] = "tail"

(* The tail of i is all that the microtask queue holds. *)
Alone(i) ==
  /\ Len(results[i]) = 1
  /\ AbortReason(i) = "none" \/ results[i] = <<"error">>
  /\ \A e \in Attempts, c \in 0..MaxTools : passes[e][c] = 0
  /\ \A j \in Tools \ {i} : status[j] = "executing" => phase[j] = "run"
  /\ pc \in {"stream", "useHeld", "resultHeld", "drainWait", "done"}
  /\ pc = "drainWait" => ~Woken

Answered(st, rs) ==
  \A i \in Tools : st[i] \in {"completed", "yielded"} => Len(rs[i]) = 1

ResultsInv ==
  /\ Answered(status, results)
  /\ \A i \in Tools : InTail(i) => Alone(i)

NoTail == \A i \in Tools : ~InTail(i)

LEMMA NoTailSuffices == Answered(status, results) /\ NoTail => ResultsInv
  BY DEF NoTail, ResultsInv

LEMMA NoTailSufficesNext == Answered(status', results') /\ NoTail' => ResultsInv'
  BY DEF NoTail, ResultsInv, Answered

------------------------------------------------------------------------------
(* What starts a tool, and what completes it *)

LEMMA StartAnswered ==
  ASSUME TypeOK, NoTail, NEW st \in [Tools -> Statuses], NEW ps, NEW e, NEW j \in Tools,
         \A i \in Tools : st[i] = "executing" => status[i] = "executing",
         Answered(st, results), StartTool(st, ps, e, j)
  PROVE  ResultsInv'
<1> DEFINE reason == AbortReason(j)
<1>1. status' = [st EXCEPT ![j] = IF reason = "none" THEN "executing" ELSE "completed"]
  BY DEF StartTool
<1>2. results' = [results EXCEPT ![j] = IF reason = "none" THEN <<>> ELSE <<reason>>]
  BY DEF StartTool
<1>3. \E p \in {"none", "refused", "run"} : phase' = [phase EXCEPT ![j] = p]
  BY DEF StartTool
<1> HIDE DEF reason
<1>4. Len(<<reason>>) = 1
  OBVIOUS
<1>5. Answered(status', results')
  BY <1>1, <1>2, <1>4 DEF Answered, TypeOK
<1>6. NoTail'
  BY <1>1, <1>3 DEF NoTail, InTail, TypeOK
<1> QED
  BY <1>5, <1>6, NoTailSufficesNext

(* A tool completes with one result while no other tool is in its tail.    *)
LEMMA CompleteAnswered ==
  ASSUME TypeOK, NEW i \in Tools, \A j \in Tools \ {i} : ~InTail(j),
         Answered(status, results), NEW rs, Len(rs) = 1, CompleteTool(i, rs)
  PROVE  ResultsInv'
<1>1. /\ status' = [status EXCEPT ![i] = "completed"]
      /\ phase' = [phase EXCEPT ![i] = "none"]
      /\ results' = [results EXCEPT ![i] = rs]
  BY DEF CompleteTool
<1>2. Answered(status', results')
  BY <1>1 DEF Answered, TypeOK
<1>3. NoTail'
  BY <1>1 DEF NoTail, InTail, TypeOK
<1> QED
  BY <1>2, <1>3, NoTailSufficesNext

(* Steps that change no result and complete no tool. *)
LEMMA QuietStep ==
  ASSUME TypeOK, ResultsInv, NoTail, UNCHANGED <<phase, results>>,
         \A i \in Tools : \/ status'[i] = status[i]
                          \/ status'[i] = "queued"
                          \/ status'[i] = "yielded" /\ status[i] = "completed"
  PROVE  ResultsInv'
<1>1. Answered(status', results')
  BY DEF ResultsInv, Answered
<1>2. NoTail'
  BY DEF NoTail, InTail
<1> QED
  BY <1>1, <1>2, NoTailSufficesNext

------------------------------------------------------------------------------
(* The steps while no tool is in its tail *)

LEMMA QueryLoopResults ==
  ASSUME TypeOK, ResultsInv, NoTail, QueryLoop
  PROVE  ResultsInv'
<1>1. CASE StreamToolUse \/ StreamOther \/ SkipAddTool \/ Fallback \/ StreamEnd
  BY <1>1, QuietStep DEF StreamToolUse, StreamOther, SkipAddTool, Fallback, StreamEnd, toolVars
<1>2. CASE AddUnknownTool
  <2>1. /\ status' = [status EXCEPT ![uses] = "completed"]
        /\ results' = [results EXCEPT ![uses] = <<"error">>]
        /\ phase' = phase
    BY <1>2 DEF AddUnknownTool
  <2>2. Len(<<"error">>) = 1
    OBVIOUS
  <2>3. Answered(status', results')
    BY <2>1, <2>2 DEF ResultsInv, Answered, TypeOK
  <2>4. NoTail'
    BY <2>1 DEF NoTail, InTail, TypeOK
  <2> QED
    BY <2>3, <2>4, NoTailSufficesNext
<1>3. CASE AddTool
  <2> DEFINE st == [status EXCEPT ![uses] = "queued"]
             next == NextStart(st, MembersOf(cur), 0)
  <2>1. CASE status' = st /\ UNCHANGED <<results, phase>>
    BY <2>1, QuietStep DEF TypeOK
  <2>2. ASSUME NEW j \in next, NEW ps, StartTool(st, ps, cur, j)
        PROVE  ResultsInv'
    <3>1. /\ st \in [Tools -> Statuses] /\ j \in Tools
          /\ \A i \in Tools : st[i] = "executing" => status[i] = "executing"
      BY NextStartMember DEF TypeOK, Statuses
    <3>2. Answered(st, results)
      BY DEF ResultsInv, Answered, TypeOK
    <3> HIDE DEF st
    <3> QED
      BY <2>2, <3>1, <3>2, StartAnswered
  <2> QED
    BY <1>3, <2>1, <2>2 DEF AddTool
<1> QED
  BY <1>1, <1>2, <1>3 DEF QueryLoop

LEMMA ConsumerResults ==
  ASSUME TypeOK, ResultsInv, NoTail, Consumer
  PROVE  ResultsInv'
<1>1. CASE YieldProgress \/ CollectEnd \/ DrainCheck \/ DrainWake
  BY <1>1, QuietStep DEF YieldProgress, CollectEnd, DrainCheck, DrainWake, toolVars
<1>2. CASE YieldResults
  <2>1. PICK i \in NextOffer(at) : pending[i] = 0 /\ status' = [status EXCEPT ![i] = "yielded"]
    BY <1>2 DEF YieldResults
  <2>2. status[i] = "completed"
    BY <2>1 DEF NextOffer, Offers
  <2> QED
    BY <1>2, <2>1, <2>2, QuietStep DEF YieldResults, TypeOK
<1>3. CASE DrainScan
  <2>1. CASE UNCHANGED <<status, results, phase>>
    BY <2>1, QuietStep
  <2>2. ASSUME NEW j \in NextStart(status, MembersOf(cur), at), StartTool(status, passes, cur, j)
        PROVE  ResultsInv'
    BY <2>2, NextStartMember, StartAnswered DEF ResultsInv, TypeOK
  <2> QED
    BY <1>3, <2>1, <2>2 DEF DrainScan
<1> QED
  BY <1>1, <1>2, <1>3 DEF Consumer

LEMMA PassesResults ==
  ASSUME TypeOK, ResultsInv, NoTail, Passes
  PROVE  ResultsInv'
<1>1. PICK e \in Attempts, c \in 0..MaxTools : ResumePass(e, c)
  BY DEF Passes
<1>2. CASE UNCHANGED <<status, results, phase>>
  BY <1>2, QuietStep
<1>3. ASSUME NEW j \in NextStart(status, MembersOf(e), c), NEW ps, StartTool(status, ps, e, j)
      PROVE  ResultsInv'
  BY <1>3, NextStartMember, StartAnswered DEF ResultsInv, TypeOK
<1> QED
  BY <1>1, <1>2, <1>3 DEF ResumePass

(* A tool answers with a message: it is done, or its tail follows, and     *)
(* then the microtask queue holds nothing else.                            *)
LEMMA AnswerResults ==
  ASSUME TypeOK, ResultsInv, NoTail, NEW i \in Tools, ToolAnswers(i)
  PROVE  ResultsInv'
<1>1. PICK r \in {"ok", "error"}, extra \in BOOLEAN : Receive(i, r, extra)
  BY DEF ToolAnswers
<1>2. Len(<<r>>) = 1 /\ Len(<<AbortReason(i)>>) = 1
  OBVIOUS
<1>3. CASE AbortReason(i) # "none"
  BY <1>1, <1>2, <1>3, CompleteAnswered DEF Receive, ResultsInv, NoTail
<1>4. CASE AbortReason(i) = "none" /\ ~extra
  BY <1>1, <1>2, <1>4, CompleteAnswered DEF Receive, ResultsInv, NoTail
<1>5. CASE AbortReason(i) = "none" /\ extra
  <2>1. /\ results' = [results EXCEPT ![i] = <<r>>]
        /\ phase' = [phase EXCEPT ![i] = "tail"]
        /\ UNCHANGED <<status, passes>>
        /\ hasErrored' = IF r = "error" /\ kind[i].bash
                         THEN [hasErrored EXCEPT ![attempt[i]] = TRUE] ELSE hasErrored
    BY <1>1, <1>5 DEF Receive
  <2>2. UNCHANGED <<kind, attempt, pending, cur, aborted, pc, waitSet>>
    BY DEF ToolAnswers, consumerVars
  <2>3. Answered(status', results')
    BY <1>2, <2>1 DEF ResultsInv, Answered, TypeOK
  <2>4. \A j \in Tools \ {i} : ~InTail(j)'
    BY <2>1 DEF NoTail, InTail, TypeOK
  <2>5. Alone(i)'
    <3>1. results'[i] = <<r>>
      BY <2>1 DEF TypeOK
    <3>2. AbortReason(i)' = "none" \/ r = "error"
      BY <1>5, <2>1, <2>2 DEF AbortReason, Discarded
    <3>3. \A e \in Attempts, c \in 0..MaxTools : passes'[e][c] = 0
      BY <2>1 DEF ToolAnswers, MicrotasksDrained
    <3>4. \A j \in Tools \ {i} : status'[j] = "executing" => phase'[j] = "run"
      BY <2>1 DEF ToolAnswers, MicrotasksDrained, TypeOK
    <3>5. /\ pc' \in {"stream", "useHeld", "resultHeld", "drainWait", "done"}
          /\ pc' = "drainWait" => ~Woken'
      BY <2>1, <2>2 DEF ToolAnswers, MicrotasksDrained, Woken, MembersOf
    <3> QED
      BY <1>2, <3>1, <3>2, <3>3, <3>4, <3>5 DEF Alone
  <2> QED
    BY <2>3, <2>4, <2>5 DEF ResultsInv, Answered
<1> QED
  BY <1>3, <1>4, <1>5

LEMMA ToolResults ==
  ASSUME TypeOK, ResultsInv, NoTail, NEW i \in Tools,
         ToolStep(i) \/ ToolProgress(i) \/ RejectPermission(i)
  PROVE  ResultsInv'
<1>1. Len(<<AbortReason(i)>>) = 1 /\ Len(<<"error">>) = 1
  OBVIOUS
<1>2. CASE ToolRefused(i)
  BY <1>1, <1>2, CompleteAnswered DEF ToolRefused, Receive, ResultsInv, NoTail
<1>3. CASE ToolTail(i)
  BY <1>3 DEF ToolTail, NoTail, InTail
<1>4. CASE ToolProgress(i)
  <2>1. CASE CompleteTool(i, <<AbortReason(i)>>)
    BY <1>1, <2>1, CompleteAnswered DEF ResultsInv, NoTail
  <2>2. CASE UNCHANGED <<status, phase, results>>
    BY <2>2, QuietStep
  <2> QED
    BY <1>4, <2>1, <2>2 DEF ToolProgress
<1>5. CASE RejectPermission(i)
  BY <1>5, QuietStep DEF RejectPermission, toolVars
<1> QED
  BY <1>2, <1>3, <1>4, <1>5, AnswerResults DEF ToolStep

------------------------------------------------------------------------------
(* While a tool is in its tail, reading the tail is the only step.         *)
LEMMA TailResults ==
  ASSUME TypeOK, ResultsInv, Next, NEW i \in Tools, InTail(i)
  PROVE  ResultsInv'
<1>1. Alone(i)
  BY DEF ResultsInv
<1>2. ~MicrotasksDrained
  BY DEF MicrotasksDrained, InTail
<1>3. ~QueryLoop /\ ~AbortTurn /\ ~Finished
  BY <1>2 DEF QueryLoop, StreamToolUse, StreamOther, SkipAddTool, AddUnknownTool, AddTool,
              Fallback, StreamEnd, AbortTurn, Finished
<1>4. ~Consumer
  BY <1>1, <1>2 DEF Alone, Consumer, YieldProgress, YieldResults, CollectEnd, Collecting,
                    DrainScan, DrainCheck, DrainWake
<1>5. ~Passes
  <2>1. ASSUME NEW e \in Attempts, NEW c \in 0..MaxTools, ResumePass(e, c) PROVE FALSE
    <3>1. passes[e][c] = 0 /\ passes[e][c] > 0
      BY <1>1, <2>1 DEF Alone, ResumePass
    <3> QED
      BY <3>1
  <2> QED
    BY <2>1 DEF Passes
<1>6. ASSUME NEW j \in Tools, ToolStep(j) \/ ToolProgress(j) \/ RejectPermission(j)
      PROVE  ToolTail(i)
  BY <1>1, <1>2, <1>6 DEF Alone, InTail, ToolStep, ToolRefused, ToolTail, ToolAnswers,
                          ToolProgress, RejectPermission
<1>7. ToolTail(i)
  BY <1>3, <1>4, <1>5, <1>6 DEF Next
<1>8. CompleteTool(i, results[i])
  BY <1>1, <1>7 DEF ToolTail, Alone
<1>9. \A j \in Tools \ {i} : ~InTail(j)
  BY <1>1 DEF Alone, InTail
<1> QED
  BY <1>1, <1>8, <1>9, CompleteAnswered DEF Alone, ResultsInv

LEMMA NextResults == TypeOK /\ ResultsInv /\ [Next]_vars => ResultsInv'
<1> SUFFICES ASSUME TypeOK, ResultsInv, [Next]_vars PROVE ResultsInv'
  OBVIOUS
<1>1. CASE UNCHANGED vars
  BY <1>1 DEF vars, toolVars, consumerVars, ResultsInv, Answered, InTail, Alone, AbortReason,
              Discarded, Woken, MembersOf
<1>2. CASE Next /\ ~NoTail
  BY <1>2, TailResults DEF NoTail
<1>3. CASE Next /\ NoTail
  <2>1. CASE AbortTurn \/ Finished
    BY <1>3, <2>1, QuietStep DEF AbortTurn, Finished, vars, toolVars
  <2> QED
    BY <1>3, <2>1, QueryLoopResults, ConsumerResults, PassesResults, ToolResults DEF Next
<1> QED
  BY <1>1, <1>2, <1>3

LEMMA InitResults == Init => ResultsInv
  BY DEF Init, ResultsInv, Answered, InTail

(* Whatever cancels a tool, and whenever, it ends with one tool_result.    *)
THEOREM OneResult == Spec => []OneResultPerTool
<1>1. Init => ResultsInv
  BY InitResults
<1>2. TypeOK /\ ResultsInv /\ [Next]_vars => ResultsInv'
  BY NextResults
<1>3. ResultsInv => OneResultPerTool
  BY DEF ResultsInv, Answered, OneResultPerTool
<1> QED
  BY <1>1, <1>2, <1>3, Typing, PTL DEF Spec

------------------------------------------------------------------------------
(* What one step does to a tool: lemmas about who starts and completes it  *)

(* The tools a pass may start are those it finds queued.                   *)
LEMMA PassesMoves ==
  ASSUME TypeOK, Passes
  PROVE  \/ UNCHANGED <<status, results, interruptible>>
         \/ \E e \in Attempts, j \in Tools :
              status[j] = "queued" /\ attempt[j] = e /\ \E ps : StartTool(status, ps, e, j)
<1>1. PICK e \in Attempts, c \in 0..MaxTools : ResumePass(e, c)
  BY DEF Passes
<1>2. ASSUME NEW j \in NextStart(status, MembersOf(e), c), NEW ps, StartTool(status, ps, e, j)
      PROVE  j \in Tools /\ status[j] = "queued" /\ attempt[j] = e
  BY NextStartMember
<1> QED
  BY <1>1, <1>2 DEF ResumePass

LEMMA StartMoves ==
  ASSUME TypeOK, NEW st \in [Tools -> Statuses], NEW ps, NEW e, NEW j \in Tools,
         StartTool(st, ps, e, j)
  PROVE  /\ \A i \in Tools \ {j} : status'[i] = st[i] /\ results'[i] = results[i]
         /\ AbortReason(j) = "none" => status'[j] = "executing"
         /\ AbortReason(j) # "none" => status'[j] = "completed" /\ results'[j] = <<AbortReason(j)>>
         /\ interruptible' = AllCancellable(status', e)
  BY DEF StartTool, TypeOK

LEMMA CompleteMoves ==
  ASSUME TypeOK, NEW i \in Tools, NEW rs, CompleteTool(i, rs)
  PROVE  /\ \A j \in Tools \ {i} : status'[j] = status[j] /\ results'[j] = results[j]
         /\ status'[i] = "completed" /\ results'[i] = rs
         /\ interruptible' = AllCancellable(status', attempt[i])
  BY DEF CompleteTool, TypeOK

(* An executing tool goes on, or completes: with a synthetic error if it   *)
(* was cancelled before it had a result.                                   *)
LEMMA ToolMoves ==
  ASSUME TypeOK, ResultsInv, NEW i \in Tools, ToolStep(i) \/ ToolProgress(i)
  PROVE  /\ status[i] = "executing"
         /\ \/ status' = status /\ UNCHANGED interruptible
               /\ \A j \in Tools \ {i} : results'[j] = results[j]
            \/ \E rs : /\ CompleteTool(i, rs)
                       /\ (AbortReason(i) # "none" /\ results[i] = <<>>) => rs = <<AbortReason(i)>>
<1>1. ASSUME NEW r, NEW extra \in BOOLEAN, Receive(i, r, extra)
      PROVE  \/ status' = status /\ UNCHANGED interruptible
                /\ \A j \in Tools \ {i} : results'[j] = results[j]
             \/ \E rs : /\ CompleteTool(i, rs)
                        /\ (AbortReason(i) # "none" /\ results[i] = <<>>) => rs = <<AbortReason(i)>>
  <2>1. CASE AbortReason(i) # "none"
    BY <1>1, <2>1 DEF Receive
  <2>2. CASE AbortReason(i) = "none" /\ extra
    BY <1>1, <2>2 DEF Receive, TypeOK
  <2>3. CASE AbortReason(i) = "none" /\ ~extra
    BY <1>1, <2>3 DEF Receive
  <2> QED
    BY <2>1, <2>2, <2>3
<1>2. CASE ToolRefused(i)
  BY <1>1, <1>2 DEF ToolRefused
<1>3. CASE ToolAnswers(i)
  BY <1>1, <1>3 DEF ToolAnswers, Running
<1>4. CASE ToolTail(i)
  <2>1. results[i] # <<>>
    BY <1>4 DEF ToolTail, ResultsInv, InTail, Alone
  <2> QED
    BY <1>4, <2>1 DEF ToolTail
<1>5. CASE ToolProgress(i)
  <2>1. CASE AbortReason(i) # "none"
    BY <1>5, <2>1 DEF ToolProgress, Running
  <2>2. CASE AbortReason(i) = "none"
    BY <1>5, <2>2 DEF ToolProgress, Running
  <2> QED
    BY <2>1, <2>2
<1> QED
  BY <1>2, <1>3, <1>4, <1>5 DEF ToolStep

------------------------------------------------------------------------------
(* Cancellation *)

Stops(i) ==
  (/\ status[i] \in {"queued", "executing"}
   /\ results[i] = <<>>
   /\ Discarded(attempt[i]) \/ hasErrored[attempt[i]])
  => /\ status'[i] = "executing" => status[i] = "executing"
     /\ status'[i] = "completed" => results'[i] \in {<<s>> : s \in Synthetic}

LEMMA Cancelled ==
  ASSUME NEW i \in Tools, Discarded(attempt[i]) \/ hasErrored[attempt[i]]
  PROVE  AbortReason(i) \in Synthetic /\ AbortReason(i) # "none"
  BY DEF AbortReason, Synthetic

LEMMA StartStops ==
  ASSUME TypeOK, NEW st \in [Tools -> Statuses], NEW ps, NEW e, NEW j \in Tools,
         \A i \in Tools : st[i] = status[i] \/ st[i] = "queued",
         StartTool(st, ps, e, j), NEW i \in Tools
  PROVE  Stops(i)
<1>1. CASE i = j
  <2> SUFFICES ASSUME Discarded(attempt[i]) \/ hasErrored[attempt[i]]
               PROVE  status'[i] = "completed" /\ results'[i] \in {<<s>> : s \in Synthetic}
    BY DEF Stops
  <2>1. AbortReason(j) \in Synthetic /\ AbortReason(j) # "none"
    BY <1>1, Cancelled
  <2>2. status'[j] = "completed" /\ results'[j] = <<AbortReason(j)>>
    BY <2>1, StartMoves
  <2> QED
    BY <1>1, <2>1, <2>2
<1>2. CASE i # j
  BY <1>2, StartMoves DEF Stops
<1> QED
  BY <1>1, <1>2

LEMMA NextStops == TypeOK /\ ScheduleInv /\ ResultsInv /\ [Next]_vars => \A i \in Tools : Stops(i)
<1> SUFFICES ASSUME TypeOK, ScheduleInv, ResultsInv, [Next]_vars, NEW i \in Tools PROVE Stops(i)
  OBVIOUS
<1>1. CASE status' = status
  BY <1>1 DEF Stops
<1>2. CASE QueryLoop /\ status' # status
  <2>1. CASE AddUnknownTool
    <3>1. status[uses] = "absent" /\ status' = [status EXCEPT ![uses] = "completed"]
      BY <2>1 DEF AddUnknownTool, ScheduleInv, HeldIsAbsent
    <3> QED
      BY <3>1 DEF Stops, TypeOK
  <2>2. CASE AddTool
    <3> DEFINE st == [status EXCEPT ![uses] = "queued"]
    <3>1. /\ st \in [Tools -> Statuses]
          /\ \A j \in Tools : st[j] = status[j] \/ st[j] = "queued"
      BY DEF TypeOK, Statuses
    <3>2. CASE status' = st
      BY <3>1, <3>2 DEF Stops
    <3>3. ASSUME NEW j \in NextStart(st, MembersOf(cur), 0), NEW ps, StartTool(st, ps, cur, j)
          PROVE  Stops(i)
      <4>1. j \in Tools
        BY NextStartMember
      <4> HIDE DEF st
      <4> QED
        BY <3>1, <3>3, <4>1, StartStops
    <3> QED
      BY <2>2, <3>2, <3>3 DEF AddTool
  <2> QED
    BY <1>2, <2>1, <2>2 DEF QueryLoop, StreamToolUse, StreamOther, SkipAddTool,
       Fallback, StreamEnd, toolVars
<1>3. CASE Consumer /\ status' # status
  <2>1. CASE YieldResults
    BY <2>1 DEF YieldResults, NextOffer, Stops, TypeOK
  <2>2. CASE DrainScan
    <3>1. PICK j \in NextStart(status, MembersOf(cur), at) : StartTool(status, passes, cur, j)
      BY <1>3, <2>2 DEF DrainScan
    <3> QED
      BY <3>1, NextStartMember, StartStops DEF TypeOK
  <2> QED
    BY <1>3, <2>1, <2>2 DEF Consumer, YieldProgress, CollectEnd, DrainCheck, DrainWake, toolVars
<1>4. CASE Passes /\ status' # status
  <2>1. PICK e \in Attempts, j \in Tools : \E ps : StartTool(status, ps, e, j)
    BY <1>4, PassesMoves
  <2> QED
    BY <2>1, StartStops DEF TypeOK
<1>5. ASSUME NEW j \in Tools, ToolStep(j) \/ ToolProgress(j), status' # status PROVE Stops(i)
  <2>1. PICK rs : /\ CompleteTool(j, rs)
                  /\ (AbortReason(j) # "none" /\ results[j] = <<>>) => rs = <<AbortReason(j)>>
    BY <1>5, ToolMoves
  <2> QED
    BY <2>1, CompleteMoves, Cancelled DEF Stops
<1> QED
  BY <1>1, <1>2, <1>3, <1>4, <1>5
     DEF Next, AbortTurn, Finished, RejectPermission, vars, toolVars

(* After a fallback or a Bash error, a tool without a result never begins  *)
(* to run and ends with a synthetic error, for all interleavings.          *)
THEOREM Cancellation == Spec => CancelledToolsStop
<1>1. Init => ResultsInv
  BY InitResults
<1>2. TypeOK /\ ResultsInv /\ [Next]_vars => ResultsInv'
  BY NextResults
<1>3. TypeOK /\ ScheduleInv /\ ResultsInv /\ [Next]_vars => [\A i \in Tools : Stops(i)]_vars
  BY NextStops
<1>4. [\A i \in Tools : Stops(i)]_vars <=>
        [\A i \in Tools :
           (/\ status[i] \in {"queued", "executing"}
            /\ results[i] = <<>>
            /\ Discarded(attempt[i]) \/ hasErrored[attempt[i]])
           => /\ status'[i] = "executing" => status[i] = "executing"
              /\ status'[i] = "completed" => results'[i] \in {<<s>> : s \in Synthetic}]_vars
  BY DEF Stops
<1> QED
  BY <1>1, <1>2, <1>3, <1>4, Typing, ScheduleAlways, PTL DEF Spec, CancelledToolsStop

------------------------------------------------------------------------------
(* Interruption *)

(* The flag that a submission looks at, in a turn with one executor.       *)
FlagInv == interruptible => \A i \in Tools : status[i] = "executing" => kind[i].cancel

LEMMA OneExecutor ==
  ASSUME MaxAttempts = 1, TypeOK, NEW i \in Tools
  PROVE  attempt[i] = 1 /\ cur = 1
  BY DEF TypeOK, Attempts

LEMMA FlagComputed ==
  ASSUME MaxAttempts = 1, TypeOK, TypeOK', UNCHANGED kind, NEW e, e = 1,
         interruptible' = AllCancellable(status', e), UNCHANGED attempt
  PROVE  FlagInv'
<1>1. \A i \in Tools : attempt[i] = 1
  BY OneExecutor
<1> QED
  BY <1>1 DEF FlagInv, AllCancellable, MembersOf

LEMMA FlagKept ==
  ASSUME FlagInv, UNCHANGED <<kind, interruptible>>,
         \A i \in Tools : status'[i] = "executing" => status[i] = "executing"
  PROVE  FlagInv'
  BY DEF FlagInv

LEMMA NextFlag ==
  ASSUME MaxAttempts = 1, TypeOK, TypeOK', ResultsInv, FlagInv, [Next]_vars
  PROVE  FlagInv'
<1>1. UNCHANGED kind
  BY DEF Next, QueryLoop, StreamToolUse, StreamOther, SkipAddTool, AddUnknownTool, AddTool,
         Fallback, StreamEnd, Consumer, YieldProgress, YieldResults, CollectEnd, DrainScan, DrainCheck, DrainWake,
         Passes, ResumePass, ToolStep, ToolRefused, ToolTail, ToolAnswers, ToolProgress,
         RejectPermission, AbortTurn, Finished, vars
<1>2. ASSUME NEW st \in [Tools -> Statuses], NEW ps, NEW e, NEW j \in Tools, e = 1,
             StartTool(st, ps, e, j), UNCHANGED attempt
      PROVE  FlagInv'
  BY <1>1, <1>2, StartMoves, FlagComputed
<1>3. CASE UNCHANGED <<status, interruptible>>
  BY <1>1, <1>3, FlagKept
<1>4. CASE QueryLoop /\ ~UNCHANGED <<status, interruptible>>
  <2>1. CASE AddUnknownTool
    <3>1. \A i \in Tools : status'[i] = "executing" => status[i] = "executing"
      BY <2>1 DEF AddUnknownTool, TypeOK
    <3> QED
      BY <1>1, <2>1, <3>1, FlagKept DEF AddUnknownTool
  <2>2. CASE AddTool
    <3> DEFINE st == [status EXCEPT ![uses] = "queued"]
    <3>1. st \in [Tools -> Statuses]
          /\ \A i \in Tools : st[i] = "executing" => status[i] = "executing"
      BY DEF TypeOK, Statuses
    <3>2. CASE status' = st /\ UNCHANGED interruptible
      BY <1>1, <3>1, <3>2, FlagKept
    <3>3. ASSUME NEW j \in NextStart(st, MembersOf(cur), 0), NEW ps, StartTool(st, ps, cur, j)
          PROVE  FlagInv'
      <4>1. j \in Tools /\ cur = 1 /\ UNCHANGED attempt
        BY <2>2, NextStartMember, OneExecutor DEF AddTool
      <4> HIDE DEF st
      <4> QED
        BY <1>2, <3>1, <3>3, <4>1
    <3> QED
      BY <2>2, <3>2, <3>3 DEF AddTool
  <2> QED
    BY <1>4, <2>1, <2>2 DEF QueryLoop, StreamToolUse, StreamOther, SkipAddTool,
       Fallback, StreamEnd, toolVars
<1>5. CASE Consumer /\ ~UNCHANGED <<status, interruptible>>
  <2>1. CASE YieldResults
    <3>1. \A i \in Tools : status'[i] = "executing" => status[i] = "executing"
      BY <2>1 DEF YieldResults, TypeOK
    <3> QED
      BY <1>1, <2>1, <3>1, FlagKept DEF YieldResults
  <2>2. CASE DrainScan
    <3>1. PICK j \in NextStart(status, MembersOf(cur), at) : StartTool(status, passes, cur, j)
      BY <1>5, <2>2 DEF DrainScan
    <3>2. j \in Tools /\ cur = 1 /\ UNCHANGED attempt
      BY <2>2, NextStartMember, OneExecutor DEF DrainScan
    <3> QED
      BY <1>2, <3>1, <3>2 DEF TypeOK
  <2> QED
    BY <1>5, <2>1, <2>2 DEF Consumer, YieldProgress, CollectEnd, DrainCheck, DrainWake, toolVars
<1>6. CASE Passes /\ ~UNCHANGED <<status, interruptible>>
  <2>1. PICK e \in Attempts, j \in Tools : attempt[j] = e /\ \E ps : StartTool(status, ps, e, j)
    BY <1>6, PassesMoves
  <2>2. e = 1 /\ UNCHANGED attempt
    BY <1>6, <2>1, OneExecutor DEF Passes, ResumePass
  <2> QED
    BY <1>2, <2>1, <2>2 DEF TypeOK
<1>7. ASSUME NEW i \in Tools, ToolStep(i) \/ ToolProgress(i), ~UNCHANGED <<status, interruptible>>
      PROVE  FlagInv'
  <2>1. PICK rs : CompleteTool(i, rs)
    BY <1>7, ToolMoves
  <2>2. attempt[i] = 1 /\ UNCHANGED attempt
    BY <1>7, OneExecutor DEF ToolStep, ToolRefused, ToolTail, ToolAnswers, ToolProgress
  <2> QED
    BY <1>1, <2>1, <2>2, CompleteMoves, FlagComputed
<1> QED
  BY <1>3, <1>4, <1>5, <1>6, <1>7
     DEF Next, AbortTurn, Finished, RejectPermission, vars, toolVars

(* In a turn without a fallback, and without 'now' messages, a submission  *)
(* interrupts only tools that allow it: the flag is up to date.            *)
THEOREM Interruption ==
  ASSUME MaxAttempts = 1, ~NowMessages PROVE Spec => InterruptSparesBlocking
<1>1. Init => ResultsInv /\ FlagInv
  BY InitResults DEF Init, FlagInv
<1>2. TypeOK /\ ResultsInv /\ [Next]_vars => ResultsInv'
  BY NextResults
<1>3. TypeOK /\ TypeOK' /\ ResultsInv /\ FlagInv /\ [Next]_vars => FlagInv'
  BY NextFlag
<1>4. FlagInv /\ [Next]_vars =>
        [(aborted = "none" /\ aborted' = "interrupt")
           => \A i \in Tools : status[i] = "executing" => kind[i].cancel]_vars
  <2> SUFFICES ASSUME FlagInv, Next, aborted = "none", aborted' = "interrupt"
               PROVE  \A i \in Tools : status[i] = "executing" => kind[i].cancel
    OBVIOUS
  <2>1. AbortTurn
    BY DEF Next, QueryLoop, StreamToolUse, StreamOther, SkipAddTool, AddUnknownTool, AddTool,
         Fallback, StreamEnd, Consumer, YieldProgress, YieldResults, CollectEnd, DrainScan, DrainCheck,
         DrainWake, Passes, ResumePass, ToolStep, ToolRefused, ToolTail, ToolAnswers,
         ToolProgress, RejectPermission, Finished, vars
  <2> QED
    BY <2>1 DEF AbortTurn, FlagInv
<1> QED
  BY <1>1, <1>2, <1>3, <1>4, Typing, PTL DEF Spec, InterruptSparesBlocking

------------------------------------------------------------------------------
(* Delivery *)

Emitted(i) == \E n \in DOMAIN emitted : emitted[n] = i

DeliveryInv ==
  /\ \A i \in Tools : Emitted(i) <=> status[i] = "yielded"
  /\ \A n, m \in DOMAIN emitted : n # m => emitted[n] # emitted[m]
  /\ \A i \in Tools : status[i] = "yielded" => pending[i] = 0
  /\ pc = "done" => ~Unfinished

LEMMA DeliveryImplies == TypeOK /\ DeliveryInv => AllResultsDelivered
  BY DEF TypeOK, DeliveryInv, AllResultsDelivered, Emitted, Unfinished, MembersOf, Statuses

(* Steps that yield nothing. *)
LEMMA DeliveryKept ==
  ASSUME TypeOK, DeliveryInv, UNCHANGED emitted,
         \A i \in Tools : status'[i] = "yielded" <=> status[i] = "yielded",
         \A i \in Tools : status[i] = "yielded" => pending'[i] = pending[i],
         pc' = "done" => ~Unfinished'
  PROVE  DeliveryInv'
  BY DEF DeliveryInv, Emitted

(* Tools that settle after the end of the turn are not the consumer's.     *)
LEMMA SettlingKeepsDelivery ==
  ASSUME TypeOK, DeliveryInv, UNCHANGED <<emitted, pc, cur, attempt>>,
         \A i \in Tools : \/ status'[i] = status[i]
                          \/ /\ status[i] \in {"queued", "executing"}
                             /\ status'[i] \in {"executing", "completed"},
         \A i \in Tools : status[i] = "yielded" => pending'[i] = pending[i]
  PROVE  DeliveryInv'
<1>1. pc' = "done" => ~Unfinished'
  BY DEF DeliveryInv, Unfinished, MembersOf
<1>2. \A i \in Tools : status'[i] = "yielded" <=> status[i] = "yielded"
  OBVIOUS
<1> QED
  BY <1>1, <1>2, DeliveryKept

LEMMA QueryLoopDelivers ==
  ASSUME TypeOK, ScheduleInv, DeliveryInv, QueryLoop
  PROVE  DeliveryInv'
<1>1. CASE StreamToolUse \/ StreamOther \/ SkipAddTool \/ Fallback
  <2>1. UNCHANGED <<status, pending, emitted>> /\ pc' # "done"
    BY <1>1 DEF StreamToolUse, StreamOther, SkipAddTool, Fallback, toolVars, consumerVars
  <2> QED
    BY <2>1, DeliveryKept
<1>2. CASE StreamEnd
  <2>1. UNCHANGED <<status, pending, emitted, cur, attempt>> /\ pc' = LoopTop
    BY <1>2 DEF StreamEnd, toolVars
  <2>2. pc' = "done" => ~Unfinished'
    BY <2>1 DEF LoopTop, Unfinished, MembersOf
  <2> QED
    BY <2>1, <2>2, DeliveryKept
<1>3. CASE AddUnknownTool
  <2>1. status[uses] = "absent" /\ status' = [status EXCEPT ![uses] = "completed"]
    BY <1>3 DEF AddUnknownTool, ScheduleInv, HeldIsAbsent
  <2>2. UNCHANGED <<pending, emitted>> /\ pc' # "done"
    BY <1>3 DEF AddUnknownTool
  <2> QED
    BY <2>1, <2>2, DeliveryKept DEF TypeOK
<1>4. CASE AddTool
  <2> DEFINE st == [status EXCEPT ![uses] = "queued"]
  <2>1. UNCHANGED <<pending, emitted>> /\ pc' # "done" /\ status[uses] = "absent"
    BY <1>4 DEF AddTool, ScheduleInv, HeldIsAbsent
  <2>2. /\ st \in [Tools -> Statuses]
        /\ \A i \in Tools : st[i] = "yielded" <=> status[i] = "yielded"
    BY <2>1 DEF TypeOK, Statuses
  <2>3. CASE status' = st
    BY <2>1, <2>2, <2>3, DeliveryKept
  <2>4. ASSUME NEW j \in NextStart(st, MembersOf(cur), 0), NEW ps, StartTool(st, ps, cur, j)
        PROVE  DeliveryInv'
    <3> HIDE DEF st
    <3>1. j \in Tools /\ st[j] = "queued"
      BY NextStartMember
    <3>2. \A i \in Tools : status'[i] = "yielded" <=> st[i] = "yielded"
      BY <2>2, <2>4, <3>1, StartMoves
    <3> QED
      BY <2>1, <2>2, <3>2, DeliveryKept
  <2> QED
    BY <1>4, <2>3, <2>4 DEF AddTool
<1> QED
  BY <1>1, <1>2, <1>3, <1>4 DEF QueryLoop

LEMMA ConsumerDelivers ==
  ASSUME TypeOK, DeliveryInv, Consumer
  PROVE  DeliveryInv'
<1>1. CASE YieldProgress
  <2>1. PICK i \in NextOffer(at) : pending[i] > 0 /\ pending' = [pending EXCEPT ![i] = @ - 1]
    BY <1>1 DEF YieldProgress
  <2>2. \A j \in Tools : status[j] = "yielded" => pending'[j] = pending[j]
    BY <2>1, NextOfferMember DEF DeliveryInv, TypeOK
  <2>3. UNCHANGED <<status, emitted>> /\ pc' # "done"
    BY <1>1 DEF YieldProgress
  <2> QED
    BY <2>2, <2>3, DeliveryKept
<1>2. CASE YieldResults
  <2>1. PICK i \in NextOffer(at) :
          /\ pending[i] = 0
          /\ status' = [status EXCEPT ![i] = "yielded"]
          /\ emitted' = Append(emitted, i)
    BY <1>2 DEF YieldResults
  <2>2. i \in Tools /\ status[i] = "completed"
    BY <2>1, NextOfferMember DEF NextOffer, Offers
  <2>3. /\ UNCHANGED pending /\ pc' # "done"
        /\ \A j \in Tools : status'[j] = "yielded" <=> (status[j] = "yielded" \/ j = i)
    BY <1>2, <2>1, <2>2 DEF YieldResults, TypeOK
  <2>4. /\ DOMAIN emitted' = 1..(Len(emitted) + 1) /\ DOMAIN emitted = 1..Len(emitted)
        /\ Len(emitted) \in Nat
        /\ \A n \in DOMAIN emitted : emitted'[n] = emitted[n]
        /\ emitted'[Len(emitted) + 1] = i
    BY <2>1, <2>2 DEF TypeOK
  <2>5. \A j \in Tools : Emitted(j)' <=> (Emitted(j) \/ j = i)
    BY <2>4 DEF Emitted
  <2>6. ~Emitted(i)
    BY <2>2 DEF DeliveryInv
  <2>7. \A n, m \in DOMAIN emitted' : n # m => emitted'[n] # emitted'[m]
    BY <2>4, <2>6 DEF DeliveryInv, Emitted
  <2> QED
    BY <2>1, <2>3, <2>5, <2>7 DEF DeliveryInv
<1>3. CASE CollectEnd
  <2>1. UNCHANGED <<status, pending, emitted>> /\ pc' # "done"
    BY <1>3 DEF CollectEnd, toolVars
  <2> QED
    BY <2>1, DeliveryKept
<1>4. CASE DrainScan
  <2>1. UNCHANGED <<pending, emitted>> /\ pc' # "done"
    BY <1>4 DEF DrainScan
  <2>2. \A i \in Tools : status'[i] = "yielded" <=> status[i] = "yielded"
    <3>1. CASE UNCHANGED status
      BY <3>1
    <3>2. ASSUME NEW j \in NextStart(status, MembersOf(cur), at), StartTool(status, passes, cur, j)
          PROVE  \A i \in Tools : status'[i] = "yielded" <=> status[i] = "yielded"
      <4>1. j \in Tools /\ status[j] = "queued"
        BY NextStartMember
      <4>2. /\ \A i \in Tools \ {j} : status'[i] = status[i]
            /\ status'[j] \in {"executing", "completed"}
        BY <3>2, <4>1, StartMoves DEF TypeOK
      <4> QED
        BY <4>1, <4>2
    <3> QED
      BY <1>4, <3>1, <3>2 DEF DrainScan
  <2> QED
    BY <2>1, <2>2, DeliveryKept
<1>5. CASE DrainCheck \/ DrainWake
  <2>1. /\ UNCHANGED <<status, pending, emitted, cur, attempt>>
        /\ pc' = "done" => pc' = LoopTop
    BY <1>5 DEF DrainCheck, DrainWake, toolVars
  <2>2. pc' = "done" => ~Unfinished'
    BY <2>1 DEF LoopTop, Unfinished, MembersOf
  <2> QED
    BY <2>1, <2>2, DeliveryKept
<1> QED
  BY <1>1, <1>2, <1>3, <1>4, <1>5 DEF Consumer

LEMMA PassesDeliver ==
  ASSUME TypeOK, DeliveryInv, Passes
  PROVE  DeliveryInv'
<1>1. UNCHANGED <<pending, emitted, pc, cur, attempt>>
  BY DEF Passes, ResumePass, consumerVars
<1>2. \A i \in Tools : \/ status'[i] = status[i]
                       \/ /\ status[i] \in {"queued", "executing"}
                          /\ status'[i] \in {"executing", "completed"}
  BY PassesMoves, StartMoves DEF TypeOK
<1> QED
  BY <1>1, <1>2, SettlingKeepsDelivery

LEMMA ToolDelivers ==
  ASSUME TypeOK, ResultsInv, DeliveryInv, NEW i \in Tools, ToolStep(i) \/ ToolProgress(i)
  PROVE  DeliveryInv'
<1>1. UNCHANGED <<emitted, pc, cur, attempt>>
  BY DEF ToolStep, ToolRefused, ToolTail, ToolAnswers, ToolProgress, consumerVars
<1>2. status[i] = "executing"
  BY ToolMoves
<1>3. \A j \in Tools : status[j] = "yielded" => pending'[j] = pending[j]
  BY <1>2 DEF ToolStep, ToolRefused, ToolTail, ToolAnswers, ToolProgress, TypeOK
<1>4. \A j \in Tools : \/ status'[j] = status[j]
                       \/ /\ status[j] \in {"queued", "executing"}
                          /\ status'[j] \in {"executing", "completed"}
  BY <1>2, ToolMoves, CompleteMoves
<1> QED
  BY <1>1, <1>3, <1>4, SettlingKeepsDelivery

LEMMA NextDelivers ==
  TypeOK /\ ScheduleInv /\ ResultsInv /\ DeliveryInv /\ [Next]_vars => DeliveryInv'
<1> SUFFICES ASSUME TypeOK, ScheduleInv, ResultsInv, DeliveryInv, [Next]_vars PROVE DeliveryInv'
  OBVIOUS
<1>1. CASE UNCHANGED vars \/ AbortTurn \/ Finished \/ \E i \in Tools : RejectPermission(i)
  <2>1. UNCHANGED <<status, pending, emitted, pc, cur, attempt>>
    BY <1>1 DEF vars, toolVars, consumerVars, AbortTurn, Finished, RejectPermission
  <2> QED
    BY <2>1, SettlingKeepsDelivery
<1> QED
  BY <1>1, QueryLoopDelivers, ConsumerDelivers, PassesDeliver, ToolDelivers DEF Next

LEMMA InitDelivery == Init => DeliveryInv
  BY DEF Init, DeliveryInv, Emitted

(* Each tool of the live executor is yielded once by the end of the turn,  *)
(* and after its last progress message.                                    *)
THEOREM Delivery == Spec => []AllResultsDelivered
<1>1. Init => ResultsInv /\ DeliveryInv
  BY InitResults, InitDelivery
<1>2. TypeOK /\ ResultsInv /\ [Next]_vars => ResultsInv'
  BY NextResults
<1>3. TypeOK /\ ScheduleInv /\ ResultsInv /\ DeliveryInv /\ [Next]_vars => DeliveryInv'
  BY NextDelivers
<1>4. TypeOK /\ DeliveryInv => AllResultsDelivered
  BY DeliveryImplies
<1> QED
  BY <1>1, <1>2, <1>3, <1>4, ScheduleAlways, PTL DEF Spec

------------------------------------------------------------------------------
(* The order of results, in a turn of known tools *)

(* A block that was skipped was skipped after an abort: those after it are *)
(* skipped too.                                                            *)
SkippedLast ==
  /\ \A i \in Tools : (i <= uses /\ status[i] = "absent" /\ ~(pc = "useHeld" /\ i = uses))
                        => aborted # "none"
  /\ \A i, j \in Tools : (i < j /\ status[j] # "absent") => status[i] # "absent"

ProgressOfStarted == \A i \in Tools : pending[i] > 0 => status[i] \notin {"absent", "queued"}

(* The collection leaves no exclusive tool behind it. *)
CollectedBefore(p, c) ==
  p \in {"collect", "resultHeld"} =>
    \A i \in MembersOf(cur) : (i <= c /\ ~Safe(i)) => status[i] = "yielded"

OrderInv ==
  /\ SkippedLast
  /\ ProgressOfStarted
  /\ CollectedBefore(pc, at)
  /\ ExclusiveResultsInOrder

(* Steps that yield nothing and add no tool. *)
LEMMA OrderKept ==
  ASSUME TypeOK, OrderInv, UNCHANGED <<kind, uses, attempt>>,
         \A i \in Tools : status'[i] = "yielded" <=> status[i] = "yielded",
         \A i \in Tools : status'[i] = "absent" <=> status[i] = "absent",
         \A i \in Tools : pending'[i] > 0 => status'[i] \notin {"absent", "queued"},
         aborted # "none" => aborted' # "none",
         pc = "useHeld" => pc' = "useHeld" \/ aborted # "none",
         pc' \in {"collect", "resultHeld"} =>
           cur' = cur /\ (at' = 0 \/ (pc \in {"collect", "resultHeld"} /\ at' = at))
  PROVE  OrderInv'
<1>1. SkippedLast'
  BY DEF OrderInv, SkippedLast
<1>2. ProgressOfStarted'
  BY DEF ProgressOfStarted
<1>3. CollectedBefore(pc, at)'
  <2> SUFFICES ASSUME pc' \in {"collect", "resultHeld"}, NEW i \in Tools, attempt[i] = cur,
                      i <= at', ~Safe(i)
               PROVE  status'[i] = "yielded"
    BY DEF CollectedBefore, MembersOf, Safe
  <2>1. at' # 0
    BY DEF Tools
  <2> QED
    BY <2>1 DEF OrderInv, CollectedBefore, MembersOf
<1>4. ExclusiveResultsInOrder'
  BY DEF OrderInv, ExclusiveResultsInOrder, MembersOf, Safe
<1> QED
  BY <1>1, <1>2, <1>3, <1>4 DEF OrderInv

(* A tool with something to yield, and exclusive tools before it that were *)
(* passed over: they were yielded before.                                  *)
LEMMA PassedOver ==
  ASSUME TypeOK, ScheduleInv, OrderInv, \A k \in Kinds : k.known, Collecting,
         NEW j \in NextOffer(at), NEW i \in MembersOf(cur), i < j, ~Safe(i)
  PROVE  status[i] = "yielded"
<1>1. j \in Tools /\ attempt[j] = cur /\ i \in Tools /\ attempt[i] = cur /\ cur \in Attempts
  BY DEF NextOffer, MembersOf, TypeOK
<1>2. status[j] \notin {"absent", "queued"} /\ kind[j].known
  BY <1>1 DEF NextOffer, Offers, OrderInv, ProgressOfStarted, TypeOK
<1>3. CASE i <= at
  BY <1>3 DEF Collecting, OrderInv, CollectedBefore
<1>4. CASE at < i
  <2>1. ~Offers(i) /\ status[i] # "executing"
    BY <1>4 DEF NextOffer
  <2>2. status[i] # "absent"
    BY <1>1, <1>2 DEF OrderInv, SkippedLast
  <2>3. status[i] # "queued"
    BY <1>1, <1>2 DEF ScheduleInv, OrderedIn, MembersOf
  <2> QED
    BY <1>1, <2>1, <2>2, <2>3 DEF Offers, TypeOK, Statuses
<1> QED
  BY <1>1, <1>3, <1>4 DEF TypeOK, Tools

LEMMA StreamOrder ==
  ASSUME TypeOK, ScheduleInv, OrderInv, StreamToolUse
  PROVE  OrderInv'
<1>1. /\ uses' = uses + 1 /\ uses \in Nat /\ pc = "stream" /\ pc' = "useHeld"
      /\ attempt' = [attempt EXCEPT ![uses'] = cur]
      /\ UNCHANGED <<kind, status, pending, aborted>>
  BY DEF StreamToolUse, toolVars, TypeOK
<1>2. \A i \in Tools : i > uses => status[i] = "absent"
  BY DEF ScheduleInv, StreamedOnly
<1>3. \A i \in Tools : i \in Nat
  BY DEF Tools
<1>4. SkippedLast'
  BY <1>1, <1>3 DEF OrderInv, SkippedLast
<1>5. ProgressOfStarted'
  BY <1>1 DEF OrderInv, ProgressOfStarted
<1>6. ExclusiveResultsInOrder'
  <2> SUFFICES ASSUME NEW i \in Tools, NEW j \in Tools, attempt'[i] = attempt'[j],
                      i < j, ~Safe(i), status[j] = "yielded"
               PROVE  status[i] = "yielded"
    BY <1>1 DEF ExclusiveResultsInOrder, MembersOf, Safe
  <2>1. j <= uses
    BY <1>1, <1>2, <1>3
  <2>2. attempt'[i] = attempt[i] /\ attempt'[j] = attempt[j] /\ attempt[i] \in Attempts
    BY <1>1, <1>3, <2>1 DEF TypeOK
  <2> QED
    BY <2>2 DEF OrderInv, ExclusiveResultsInOrder, MembersOf
<1> QED
  BY <1>1, <1>4, <1>5, <1>6 DEF OrderInv, CollectedBefore

(* A tool is added when no block before it was skipped.                    *)
LEMMA AddOrder ==
  ASSUME TypeOK, ScheduleInv, OrderInv, AddTool
  PROVE  OrderInv'
<1> DEFINE st == [status EXCEPT ![uses] = "queued"]
<1>1. /\ uses \in Tools /\ status[uses] = "absent" /\ pc = "useHeld" /\ aborted = "none"
      /\ UNCHANGED <<kind, uses, attempt, pending, aborted, cur>>
      /\ pc' = "collect" /\ at' = 0
  BY DEF AddTool, ScheduleInv, HeldIsAbsent, TypeOK, Tools
<1>2. st \in [Tools -> Statuses]
  BY DEF TypeOK, Statuses
<1>3. /\ \A i \in Tools \ {uses} : st[i] = status[i]
      /\ st[uses] = "queued"
  BY <1>1 DEF TypeOK
<1>4. /\ \A i \in Tools : st[i] # "queued" => status'[i] = st[i]
      /\ \A i \in Tools : st[i] = "queued" => status'[i] \in {"queued", "executing", "completed"}
  <2>1. CASE status' = st
    BY <2>1
  <2>2. ASSUME NEW j \in NextStart(st, MembersOf(cur), 0), NEW ps, StartTool(st, ps, cur, j)
        PROVE  <1>4!:
    <3> HIDE DEF st
    <3>1. j \in Tools /\ st[j] = "queued"
      BY NextStartMember
    <3>2. /\ \A i \in Tools \ {j} : status'[i] = st[i]
          /\ status'[j] \in {"executing", "completed"}
      BY <1>2, <2>2, <3>1, StartMoves
    <3> QED
      BY <3>1, <3>2
  <2> QED
    BY <2>1, <2>2 DEF AddTool
<1> HIDE DEF st
<1>5. \A i \in Tools : i <= uses => status'[i] # "absent"
  BY <1>1, <1>3, <1>4 DEF OrderInv, SkippedLast
<1>6. \A i \in Tools : i \in Nat /\ i # 0
  BY DEF Tools
<1>7. \A i \in Tools : i > uses => status'[i] = "absent"
  <2> SUFFICES ASSUME NEW i \in Tools, i > uses
               PROVE  status'[i] = "absent"
    OBVIOUS
  <2>1. status[i] = "absent" /\ i # uses
    BY <1>1, <1>6 DEF ScheduleInv, StreamedOnly
  <2>2. st[i] = "absent"
    BY <1>3, <2>1
  <2> QED
    BY <1>4, <2>2
<1>8. SkippedLast'
  BY <1>1, <1>5, <1>6, <1>7 DEF SkippedLast
<1>9. ProgressOfStarted'
  BY <1>1, <1>3, <1>4 DEF OrderInv, ProgressOfStarted
<1>10. CollectedBefore(pc, at)'
  BY <1>1, <1>6 DEF CollectedBefore, MembersOf
<1>11. \A i \in Tools : status'[i] = "yielded" <=> status[i] = "yielded"
  BY <1>1, <1>3, <1>4
<1>12. ExclusiveResultsInOrder'
  BY <1>1, <1>11 DEF OrderInv, ExclusiveResultsInOrder, MembersOf, Safe
<1> QED
  BY <1>8, <1>9, <1>10, <1>12 DEF OrderInv

LEMMA QueryLoopOrder ==
  ASSUME TypeOK, ScheduleInv, OrderInv, \A k \in Kinds : k.known, QueryLoop
  PROVE  OrderInv'
<1>1. CASE SkipAddTool \/ Fallback \/ StreamEnd
  <2>1. /\ UNCHANGED <<kind, uses, attempt, status, pending, aborted>>
        /\ pc = "useHeld" => aborted # "none"
        /\ pc' \notin {"collect", "resultHeld"}
    BY <1>1 DEF SkipAddTool, Fallback, StreamEnd, toolVars, consumerVars, LoopTop
  <2> QED
    BY <2>1, OrderKept DEF OrderInv, ProgressOfStarted
<1>2. ~AddUnknownTool
  <2>1. AddUnknownTool => uses \in Tools
    BY DEF AddUnknownTool, ScheduleInv, HeldIsAbsent, TypeOK, Tools
  <2> QED
    BY <2>1 DEF AddUnknownTool, TypeOK
<1>3. CASE StreamOther
  <2>1. /\ UNCHANGED <<kind, uses, attempt, status, pending, aborted, cur>>
        /\ pc = "stream" /\ pc' = "collect" /\ at' = 0
    BY <1>3 DEF StreamOther, toolVars
  <2> QED
    BY <2>1, OrderKept DEF OrderInv, ProgressOfStarted
<1> QED
  BY <1>1, <1>2, <1>3, StreamOrder, AddOrder DEF QueryLoop

LEMMA ConsumerOrder ==
  ASSUME TypeOK, ScheduleInv, OrderInv, \A k \in Kinds : k.known, Consumer
  PROVE  OrderInv'
<1>1. CASE YieldProgress
  <2>1. PICK i \in NextOffer(at) :
          pending[i] > 0 /\ pending' = [pending EXCEPT ![i] = @ - 1] /\ at' = i - 1
    BY <1>1 DEF YieldProgress
  <2>2. UNCHANGED <<kind, uses, attempt, status, aborted, cur>> /\ Collecting
        /\ pc' = "resultHeld"
    BY <1>1 DEF YieldProgress
  <2>3. i \in Tools /\ i \in Nat /\ \A j \in Tools : j \in Nat
    BY <2>1, NextOfferMember DEF Tools
  <2>4. ProgressOfStarted'
    BY <2>1, <2>2, <2>3 DEF OrderInv, ProgressOfStarted, TypeOK
  <2>5. CollectedBefore(pc, at)'
    <3> SUFFICES ASSUME NEW j \in MembersOf(cur), j <= i - 1, ~Safe(j)
                 PROVE  status[j] = "yielded"
      BY <2>1, <2>2 DEF CollectedBefore, MembersOf, Safe
    <3>1. j < i
      BY <2>3 DEF MembersOf
    <3> QED
      BY <2>1, <2>2, <3>1, PassedOver
  <2>6. SkippedLast' /\ ExclusiveResultsInOrder'
    BY <2>2 DEF OrderInv, SkippedLast, Collecting, ExclusiveResultsInOrder, MembersOf, Safe
  <2> QED
    BY <2>4, <2>5, <2>6 DEF OrderInv
<1>2. CASE YieldResults
  <2>1. PICK i \in NextOffer(at) :
          pending[i] = 0 /\ status' = [status EXCEPT ![i] = "yielded"] /\ at' = i
    BY <1>2 DEF YieldResults
  <2>2. UNCHANGED <<kind, uses, attempt, pending, aborted, cur>> /\ Collecting
        /\ pc' = "resultHeld"
    BY <1>2 DEF YieldResults
  <2>3. /\ i \in Tools /\ status[i] = "completed" /\ attempt[i] = cur
        /\ \A j \in Tools : j \in Nat
    BY <2>1, NextOfferMember DEF NextOffer, Offers, MembersOf, Tools
  <2>4. /\ \A j \in Tools \ {i} : status'[j] = status[j]
        /\ status'[i] = "yielded"
    BY <2>1, <2>3 DEF TypeOK
  <2>5. \A j \in MembersOf(cur) : (j < i /\ ~Safe(j)) => status[j] = "yielded"
    BY <2>1, <2>2, PassedOver
  <2>6. CollectedBefore(pc, at)'
    BY <2>1, <2>2, <2>3, <2>4, <2>5 DEF CollectedBefore, MembersOf, Safe
  <2>7. ExclusiveResultsInOrder'
    <3> SUFFICES ASSUME NEW j \in Tools, NEW k \in Tools, attempt[j] = attempt[k], j < k, ~Safe(j),
                        status'[k] = "yielded"
                 PROVE  status'[j] = "yielded"
      BY <2>2 DEF ExclusiveResultsInOrder, MembersOf, Safe
    <3>1. CASE k = i
      BY <2>3, <2>4, <2>5, <3>1 DEF MembersOf
    <3>2. CASE k # i
      <4>1. attempt[j] \in Attempts /\ status[k] = "yielded"
        BY <2>4, <3>2 DEF TypeOK
      <4> QED
        BY <2>4, <4>1 DEF OrderInv, ExclusiveResultsInOrder, MembersOf
    <3> QED
      BY <3>1, <3>2
  <2>8. SkippedLast' /\ ProgressOfStarted'
    BY <2>2, <2>3, <2>4 DEF OrderInv, SkippedLast, ProgressOfStarted, Collecting
  <2> QED
    BY <2>6, <2>7, <2>8 DEF OrderInv
<1>3. CASE CollectEnd \/ DrainCheck \/ DrainWake
  <2>1. /\ UNCHANGED <<kind, uses, attempt, status, pending, aborted>>
        /\ pc # "useHeld" /\ pc' \notin {"collect", "resultHeld"}
    BY <1>3 DEF CollectEnd, Collecting, DrainCheck, DrainWake, toolVars, LoopTop
  <2> QED
    BY <2>1, OrderKept DEF OrderInv, ProgressOfStarted
<1>4. CASE DrainScan
  <2>1. /\ UNCHANGED <<kind, uses, attempt, pending, aborted, cur>>
        /\ pc = "drainScan" /\ pc' \in {"drainScan", "collect"} /\ (pc' = "collect" => at' = 0)
    BY <1>4 DEF DrainScan
  <2>2. \A i \in Tools : \/ status'[i] = status[i]
                         \/ status[i] = "queued" /\ status'[i] \in {"executing", "completed"}
    <3>1. CASE UNCHANGED status
      BY <3>1
    <3>2. ASSUME NEW j \in NextStart(status, MembersOf(cur), at), StartTool(status, passes, cur, j)
          PROVE  <2>2!:
      <4>1. j \in Tools /\ status[j] = "queued"
        BY NextStartMember
      <4>2. /\ \A i \in Tools \ {j} : status'[i] = status[i]
            /\ status'[j] \in {"executing", "completed"}
        BY <3>2, <4>1, StartMoves DEF TypeOK
      <4> QED
        BY <4>1, <4>2
    <3> QED
      BY <1>4, <3>1, <3>2 DEF DrainScan
  <2> QED
    BY <2>1, <2>2, OrderKept DEF OrderInv, ProgressOfStarted
<1> QED
  BY <1>1, <1>2, <1>3, <1>4 DEF Consumer

LEMMA OthersOrder ==
  ASSUME TypeOK, ResultsInv, OrderInv,
         \/ Passes \/ \E i \in Tools : ToolStep(i) \/ ToolProgress(i) \/ RejectPermission(i)
         \/ AbortTurn \/ Finished \/ UNCHANGED vars
  PROVE  OrderInv'
<1>1. /\ UNCHANGED <<kind, uses, attempt, cur, pc, at>>
      /\ aborted # "none" => aborted' # "none"
  BY DEF Passes, ResumePass, ToolStep, ToolRefused, ToolTail, ToolAnswers, ToolProgress,
         RejectPermission, AbortTurn, Finished, vars, consumerVars
<1>2. \A i \in Tools : \/ status'[i] = status[i]
                       \/ /\ status[i] \in {"queued", "executing"}
                          /\ status'[i] \in {"executing", "completed"}
  <2>1. CASE Passes
    BY <2>1, PassesMoves, StartMoves DEF TypeOK
  <2>2. ASSUME NEW i \in Tools, ToolStep(i) \/ ToolProgress(i)
        PROVE  <1>2!:
    BY <2>2, ToolMoves, CompleteMoves
  <2> QED
    BY <2>1, <2>2 DEF RejectPermission, AbortTurn, Finished, vars, toolVars
<1>3. \A i \in Tools : pending'[i] # pending[i] => status[i] = "executing"
  BY DEF Passes, ResumePass, ToolStep, ToolRefused, ToolTail, ToolAnswers, ToolProgress, Running,
         RejectPermission, AbortTurn, Finished, vars, toolVars, TypeOK
<1>4. \A i \in Tools : pending'[i] > 0 => status'[i] \notin {"absent", "queued"}
  BY <1>2, <1>3 DEF OrderInv, ProgressOfStarted
<1> QED
  BY <1>1, <1>2, <1>4, OrderKept

LEMMA NextOrder ==
  ASSUME \A k \in Kinds : k.known, TypeOK, ScheduleInv, ResultsInv, OrderInv, [Next]_vars
  PROVE  OrderInv'
  BY QueryLoopOrder, ConsumerOrder, OthersOrder DEF Next

LEMMA InitOrder == Init => OrderInv
<1> SUFFICES ASSUME Init PROVE OrderInv
  OBVIOUS
<1>1. \A i \in Tools : ~(i <= 0)
  BY DEF Tools
<1> QED
  BY <1>1 DEF Init, OrderInv, SkippedLast, ProgressOfStarted, CollectedBefore,
              ExclusiveResultsInOrder, MembersOf

(* If every tool of the response is known, exclusive tools are barriers in *)
(* the order of results too, although the collection may be suspended at a *)
(* yield while tools finish.                                               *)
THEOREM ResultOrder ==
  ASSUME \A k \in Kinds : k.known PROVE Spec => []ExclusiveResultsInOrder
<1>1. Init => ResultsInv /\ OrderInv
  BY InitResults, InitOrder
<1>2. TypeOK /\ ResultsInv /\ [Next]_vars => ResultsInv'
  BY NextResults
<1>3. TypeOK /\ ScheduleInv /\ ResultsInv /\ OrderInv /\ [Next]_vars => OrderInv'
  BY NextOrder
<1>4. OrderInv => ExclusiveResultsInOrder
  BY DEF OrderInv
<1> QED
  BY <1>1, <1>2, <1>3, <1>4, ScheduleAlways, PTL DEF Spec

------------------------------------------------------------------------------
(***************************************************************************)
(* Waking up.  getRemainingResults sleeps on the promises of the tools     *)
(* that execute when it looks.  A tool that started later is not among     *)
(* them: the first queued tool must not be able to start meanwhile.        *)
(* QueueInv says that whenever it can, a processQueue call that will start *)
(* it is suspended, and WakeInv that before getRemainingResults looks such *)
(* a call has run, or a completed tool keeps it from sleeping.             *)
(***************************************************************************)

(* No tool of e up to c waits, when the statuses are st. *)
Behind(st, e, c) == \A i \in MembersOf(e) : st[i] = "queued" => c < i

(* The first queued tool of e can execute. *)
Startable(st, e) ==
  \E j \in MembersOf(e) :
    /\ st[j] = "queued" /\ CanExecute(st, MembersOf(e), j)
    /\ \A m \in MembersOf(e) : st[m] = "queued" => j <= m

(* A processQueue call of e is suspended. *)
Called(ps, e) == \E c \in 0..MaxTools : ps[e][c] > 0

PassesBehind == \A e \in Attempts, c \in Tools : passes[e][c] > 0 => Behind(status, e, c)
CursorBehind == \A e \in Attempts : (e = cur /\ pc = "drainScan") => Behind(status, e, at)
Attended ==
  \A e \in Attempts :
    Startable(status, e) => Called(passes, e) \/ (e = cur /\ pc = "drainScan")

QueueInv == PassesBehind /\ CursorBehind /\ Attended

Completed(st, e) == \E i \in MembersOf(e) : st[i] = "completed"

DrainingPoints ==
  /\ draining => pc \notin {"stream", "useHeld"}
  /\ pc \in {"drainScan", "drainCheck", "drainWait"} => draining
Heard(e) ==
  (draining /\ pc \in {"collect", "drainCheck"})
    => ~Startable(status, e) \/ Completed(status, e)
Asleep(e) ==
  pc = "drainWait" =>
    /\ \A i \in waitSet : status[i] \notin {"absent", "queued"}
    /\ \/ Woken
       \/ /\ ~Startable(status, e) /\ ~Completed(status, e)
          /\ \A i \in MembersOf(e) : status[i] = "executing" => i \in waitSet

WakeInv == DrainingPoints /\ \A e \in Attempts : e = cur => Heard(e) /\ Asleep(e)

LEMMA WakeImplies == TypeOK /\ WakeInv => NoLostWakeup
<1> SUFFICES ASSUME TypeOK, WakeInv, pc = "drainWait",
                    NEW i \in MembersOf(cur), Offers(i)
             PROVE  Woken
  BY DEF NoLostWakeup
<1>1. cur \in Attempts
  BY DEF TypeOK
<1>2. Asleep(cur)
  BY <1>1 DEF WakeInv
<1> QED
  BY <1>2 DEF Asleep, Offers, Woken, Completed

(* What can start depends on the tools that wait or execute.               *)
LEMMA SameStartable ==
  ASSUME NEW e, kind' = kind,
         \A i \in Tools : \A s \in {"queued", "executing"} :
           (attempt'[i] = e /\ status'[i] = s) <=> (attempt[i] = e /\ status[i] = s)
  PROVE  Startable(status, e)' <=> Startable(status, e)
<1>1. /\ \A i : i \in MembersOf(e) <=> i \in Tools /\ attempt[i] = e
      /\ \A i : i \in MembersOf(e)' <=> i \in Tools /\ attempt'[i] = e
  BY DEF MembersOf
<1>2. \A i \in Tools : Safe(i)' <=> Safe(i)
  BY DEF Safe
<1>3. ASSUME NEW j \in Tools
      PROVE  CanExecute(status, MembersOf(e), j)' <=> CanExecute(status, MembersOf(e), j)
  BY <1>1, <1>2 DEF CanExecute
<1> QED
  BY <1>1, <1>3 DEF Startable

LEMMA ToolsAreNumbers == \A i \in Tools : i \in Nat /\ i > 0
  BY BoundsAssumption DEF Tools

(* A scan from a point up to which nothing waits starts the first queued   *)
(* tool, if that can execute, and no other.                                *)
LEMMA ScanEnds ==
  ASSUME NEW st, NEW e, NEW c \in 0..MaxTools,
         Behind(st, e, c), NextStart(st, MembersOf(e), c) = {}
  PROVE  ~Startable(st, e)
<1> SUFFICES ASSUME NEW j \in MembersOf(e), st[j] = "queued", CanExecute(st, MembersOf(e), j),
                    \A m \in MembersOf(e) : st[m] = "queued" => j <= m
             PROVE  FALSE
  BY DEF Startable
<1>1. \A m \in MembersOf(e) : m \in Nat
  BY ToolsAreNumbers DEF MembersOf
<1>2. j > c
  BY <1>1 DEF Behind
<1>3. j \in NextStart(st, MembersOf(e), c)
  BY <1>1, <1>2 DEF NextStart
<1> QED
  BY <1>3

LEMMA ScanStarts ==
  ASSUME NEW st, NEW e, NEW c \in 0..MaxTools,
         Behind(st, e, c), NEW j \in NextStart(st, MembersOf(e), c)
  PROVE  /\ j \in Tools /\ attempt[j] = e /\ st[j] = "queued"
         /\ \A m \in MembersOf(e) : st[m] = "queued" => j <= m
         /\ Startable(st, e)
<1>1. /\ j \in MembersOf(e) /\ j > c /\ st[j] = "queued"
      /\ CanExecute(st, MembersOf(e), j)
      /\ \A m \in MembersOf(e) : (c < m /\ m < j /\ st[m] = "queued")
                                   => Safe(m) /\ ~CanExecute(st, MembersOf(e), m)
  BY DEF NextStart
<1>2. \A m \in MembersOf(e) : m \in Nat
  BY ToolsAreNumbers DEF MembersOf
<1>3. ASSUME NEW m \in MembersOf(e), st[m] = "queued", m < j PROVE FALSE
  <2>1. c < m
    BY <1>3 DEF Behind
  <2>2. Safe(m) /\ ~CanExecute(st, MembersOf(e), m)
    BY <1>1, <1>3, <2>1
  <2> QED
    BY <1>1, <2>2 DEF CanExecute
<1>4. \A m \in MembersOf(e) : st[m] = "queued" => j <= m
  BY <1>1, <1>2, <1>3
<1> QED
  BY <1>1, <1>4 DEF Startable, MembersOf

(* What happens to the suspended calls. *)
LEMMA AddCalled ==
  ASSUME NEW ps \in PassTable, NEW e \in Attempts, NEW c \in 0..MaxTools
  PROVE  /\ Called([ps EXCEPT ![e][c] = @ + 1], e)
         /\ \A d \in Attempts : Called(ps, d) => Called([ps EXCEPT ![e][c] = @ + 1], d)
         /\ \A d \in Attempts, f \in 0..MaxTools :
              [ps EXCEPT ![e][c] = @ + 1][d][f] > 0 => ps[d][f] > 0 \/ (d = e /\ f = c)
<1> DEFINE qs == [ps EXCEPT ![e][c] = @ + 1]
<1>1. \A d \in Attempts : ps[d] \in [0..MaxTools -> Nat]
  BY DEF PassTable
<1>2. /\ qs[e][c] = ps[e][c] + 1
      /\ \A d \in Attempts, f \in 0..MaxTools : ~(d = e /\ f = c) => qs[d][f] = ps[d][f]
  BY <1>1 DEF PassTable
<1>3. \A d \in Attempts, f \in 0..MaxTools : ps[d][f] \in Nat
  BY <1>1
<1> HIDE DEF qs
<1>4. Called(qs, e)
  BY <1>2, <1>3 DEF Called
<1>5. \A d \in Attempts : Called(ps, d) => Called(qs, d)
  BY <1>2, <1>3 DEF Called
<1>6. \A d \in Attempts, f \in 0..MaxTools : qs[d][f] > 0 => ps[d][f] > 0 \/ (d = e /\ f = c)
  BY <1>2
<1> QED
  BY <1>4, <1>5, <1>6 DEF qs

LEMMA FinallyCalled ==
  ASSUME NEW ps \in PassTable, NEW e \in Attempts
  PROVE  /\ Called(FinallyPass(ps, e), e)
         /\ \A d \in Attempts : Called(ps, d) => Called(FinallyPass(ps, e), d)
         /\ \A d \in Attempts, f \in Tools : FinallyPass(ps, e)[d][f] > 0 => ps[d][f] > 0
<1>1. 0 \in 0..MaxTools
  BY BoundsAssumption
<1>2. \A f \in Tools : f \in 0..MaxTools /\ f # 0
  BY ToolsArePassCursors DEF Tools
<1> QED
  BY <1>1, <1>2, AddCalled DEF FinallyPass

LEMMA ResumeCalled ==
  ASSUME NEW ps \in PassTable, NEW e \in Attempts, NEW c \in 0..MaxTools, ps[e][c] > 0
  PROVE  /\ [ps EXCEPT ![e][c] = @ - 1] \in PassTable
         /\ \A d \in Attempts \ {e} : Called(ps, d) => Called([ps EXCEPT ![e][c] = @ - 1], d)
         /\ \A d \in Attempts, f \in Tools : [ps EXCEPT ![e][c] = @ - 1][d][f] > 0 => ps[d][f] > 0
<1> DEFINE qs == [ps EXCEPT ![e][c] = @ - 1]
<1>1. \A d \in Attempts : ps[d] \in [0..MaxTools -> Nat]
  BY DEF PassTable
<1>2. ps[e][c] \in Nat /\ ps[e][c] - 1 \in Nat
  <2>1. ps[e][c] \in Nat
    BY <1>1
  <2> QED
    BY <2>1
<1>3. [ps[e] EXCEPT ![c] = ps[e][c] - 1] \in [0..MaxTools -> Nat]
  BY <1>1, <1>2
<1>4. qs \in PassTable
  BY <1>3 DEF PassTable
<1>5. /\ \A d \in Attempts \ {e} : qs[d] = ps[d]
      /\ \A f \in 0..MaxTools : f # c => qs[e][f] = ps[e][f]
  BY <1>1 DEF PassTable
<1>6. \A d \in Attempts, f \in Tools : qs[d][f] > 0 => ps[d][f] > 0
  BY <1>5, ToolsArePassCursors
<1> HIDE DEF qs
<1>7. \A d \in Attempts \ {e} : Called(ps, d) => Called(qs, d)
  BY <1>5 DEF Called
<1> QED
  BY <1>4, <1>6, <1>7 DEF qs

(* Which tools a step takes out of the queue or lets end.                  *)
Settles(i) == status[i] \notin {"queued", "executing"} /\ status'[i] \notin {"queued", "executing"}
Ends(i) == status[i] = "executing" /\ status'[i] = "completed"

(* A step that starts no tool; where a tool ends, a call is suspended.     *)
LEMMA QueueSettles ==
  ASSUME QueueInv, UNCHANGED <<kind, attempt>>,
         \A i \in Tools : \/ status'[i] = status[i]
                          \/ Settles(i)
                          \/ Ends(i) /\ Called(passes', attempt[i]),
         \A d \in Attempts : Called(passes, d) => Called(passes', d),
         \A d \in Attempts, f \in Tools : passes'[d][f] > 0 => passes[d][f] > 0,
         pc = "drainScan" => pc' = "drainScan" /\ UNCHANGED <<cur, at>>,
         pc' = "drainScan" => pc = "drainScan" \/ at' = 0
  PROVE  QueueInv'
<1>1. \A d : MembersOf(d)' = MembersOf(d)
  BY DEF MembersOf
<1>2. ASSUME NEW d \in Attempts, NEW c, Behind(status, d, c) PROVE Behind(status, d, c)'
  BY <1>1, <1>2 DEF Behind, MembersOf, Settles, Ends
<1>3. PassesBehind'
  BY <1>2 DEF QueueInv, PassesBehind
<1>4. CursorBehind'
  <2> SUFFICES ASSUME NEW e \in Attempts, e = cur', pc' = "drainScan"
               PROVE  Behind(status, e, at)'
    BY DEF CursorBehind
  <2>1. CASE pc = "drainScan"
    <3>1. Behind(status, e, at) /\ at' = at
      BY <2>1 DEF QueueInv, CursorBehind
    <3>2. \A i \in MembersOf(e) : status[i] = "queued" => at < i
      BY <3>1 DEF Behind
    <3> QED
      BY <1>1, <3>1, <3>2 DEF Behind, MembersOf, Settles, Ends
  <2>2. CASE at' = 0
    BY <1>1, <2>2, ToolsAreNumbers DEF Behind, MembersOf
  <2> QED
    BY <2>1, <2>2
<1>5. Attended'
  <2> SUFFICES ASSUME NEW e \in Attempts, Startable(status, e)', ~Called(passes', e)
               PROVE  e = cur' /\ pc' = "drainScan"
    BY DEF Attended, Called
  <2>1. \A i \in Tools : attempt[i] = e => status'[i] = status[i] \/ Settles(i)
    OBVIOUS
  <2>2. Startable(status, e)
    BY <2>1, SameStartable DEF Settles
  <2>3. ~Called(passes, e)
    OBVIOUS
  <2> QED
    BY <2>2, <2>3 DEF QueueInv, Attended
<1> QED
  BY <1>3, <1>4, <1>5 DEF QueueInv

(* Starting the tool that a scan from c finds.                             *)
LEMMA StartQueue ==
  ASSUME TypeOK, NEW st \in [Tools -> Statuses], NEW ps \in PassTable,
         NEW e \in Attempts, NEW c \in 0..MaxTools, Behind(st, e, c),
         NEW j \in NextStart(st, MembersOf(e), c), StartTool(st, ps, e, j),
         UNCHANGED <<kind, attempt>>
  PROVE  /\ j \in Tools /\ attempt[j] = e /\ st[j] = "queued"
         /\ status'[j] \in {"executing", "completed"}
         /\ \A i \in Tools \ {j} : status'[i] = st[i]
         /\ Behind(status, e, j)'
         /\ \A d, f : Behind(st, d, f) => Behind(status, d, f)'
         /\ \A d \in Attempts : Called(ps, d) => Called(passes', d)
         /\ \A d \in Attempts, f \in Tools : passes'[d][f] > 0 => ps[d][f] > 0
<1>1. /\ j \in Tools /\ attempt[j] = e /\ st[j] = "queued"
      /\ \A m \in MembersOf(e) : st[m] = "queued" => j <= m
  BY ScanStarts
<1>2. /\ \A i \in Tools \ {j} : status'[i] = st[i]
      /\ status'[j] \in {"executing", "completed"}
  BY <1>1, StartMoves
<1>3. \A d : MembersOf(d)' = MembersOf(d)
  BY DEF MembersOf
<1>4. Behind(status, e, j)'
  <2> SUFFICES ASSUME NEW i \in MembersOf(e), status'[i] = "queued" PROVE j < i
    BY <1>3 DEF Behind
  <2>1. i # j /\ st[i] = "queued"
    BY <1>2 DEF MembersOf
  <2>2. j <= i /\ i \in Nat /\ j \in Nat
    BY <1>1, <2>1, ToolsAreNumbers DEF MembersOf
  <2> QED
    BY <2>1, <2>2
<1>5. ASSUME NEW d, NEW f, Behind(st, d, f) PROVE Behind(status, d, f)'
  BY <1>2, <1>3, <1>5 DEF Behind, MembersOf
<1>6. passes' = ps \/ passes' = FinallyPass(ps, e)
  BY DEF StartTool
<1>7. /\ \A d \in Attempts : Called(ps, d) => Called(passes', d)
      /\ \A d \in Attempts, f \in Tools : passes'[d][f] > 0 => ps[d][f] > 0
  BY <1>6, FinallyCalled
<1> QED
  BY <1>1, <1>2, <1>4, <1>5, <1>7

(* A step of executor e leaves what the others can start alone.            *)
LEMMA OtherStartable ==
  ASSUME NEW e, UNCHANGED <<kind, attempt>>,
         \A i \in Tools : attempt[i] = e => status'[i] = status[i]
  PROVE  Startable(status, e)' <=> Startable(status, e)
  BY SameStartable

(* A resumed call. *)
LEMMA PassesQueue ==
  ASSUME TypeOK, QueueInv, Passes
  PROVE  QueueInv'
<1>0. PICK e \in Attempts, c \in 0..MaxTools : ResumePass(e, c)
  BY DEF Passes
<1> DEFINE ps == [passes EXCEPT ![e][c] = @ - 1]
<1>1. /\ passes[e][c] > 0 /\ passes \in PassTable /\ status \in [Tools -> Statuses]
      /\ UNCHANGED <<kind, attempt, cur, pc, at>>
  BY <1>0 DEF ResumePass, consumerVars, TypeOK, PassTable
<1>2. /\ ps \in PassTable
      /\ \A d \in Attempts \ {e} : Called(passes, d) => Called(ps, d)
      /\ \A d \in Attempts, f \in Tools : ps[d][f] > 0 => passes[d][f] > 0
  BY <1>1, ResumeCalled
<1>3. Behind(status, e, c)
  <2>1. CASE c \in Tools
    BY <1>1, <2>1 DEF QueueInv, PassesBehind
  <2>2. CASE c = 0
    BY <2>2, ToolsAreNumbers DEF Behind, MembersOf
  <2> QED
    BY <2>1, <2>2, BoundsAssumption DEF Tools
<1>4. CASE /\ NextStart(status, MembersOf(e), c) = {}
           /\ passes' = ps /\ status' = status
  <2>1. ~Startable(status, e)
    BY <1>3, <1>4, ScanEnds
  <2>2. \A d : Startable(status, d)' <=> Startable(status, d)
    BY <1>1, <1>4, OtherStartable
  <2>3. \A d, f : Behind(status, d, f)' <=> Behind(status, d, f)
    BY <1>1, <1>4 DEF Behind, MembersOf
  <2> HIDE DEF ps
  <2>4. PassesBehind' /\ CursorBehind'
    BY <1>1, <1>2, <1>4, <2>3 DEF QueueInv, PassesBehind, CursorBehind, Behind, MembersOf
  <2>5. Attended'
    BY <1>1, <1>2, <1>4, <2>1, <2>2 DEF QueueInv, Attended, Called
  <2> QED
    BY <2>4, <2>5 DEF QueueInv
<1>5. ASSUME NEW j \in NextStart(status, MembersOf(e), c),
             StartTool(status, [ps EXCEPT ![e][j] = @ + 1], e, j)
      PROVE  QueueInv'
  <2> DEFINE qs == [ps EXCEPT ![e][j] = @ + 1]
  <2>1. j \in Tools /\ j \in 0..MaxTools
    BY NextStartMember, ToolsArePassCursors
  <2>2. /\ qs \in PassTable /\ Called(qs, e)
        /\ \A d \in Attempts : Called(ps, d) => Called(qs, d)
        /\ \A d \in Attempts, f \in 0..MaxTools : qs[d][f] > 0 => ps[d][f] > 0 \/ (d = e /\ f = j)
    BY <1>2, <2>1, AddCalled, AddPassTyped
  <2>3. StartTool(status, qs, e, j)
    BY <1>5
  <2> HIDE DEF ps, qs
  <2>4. /\ attempt[j] = e
        /\ \A i \in Tools \ {j} : status'[i] = status[i]
        /\ Behind(status, e, j)'
        /\ \A d, f : Behind(status, d, f) => Behind(status, d, f)'
        /\ \A d \in Attempts : Called(qs, d) => Called(passes', d)
        /\ \A d \in Attempts, f \in Tools : passes'[d][f] > 0 => qs[d][f] > 0
    BY <1>1, <1>3, <2>2, <2>3, StartQueue
  <2>5. PassesBehind'
    <3> SUFFICES ASSUME NEW d \in Attempts, NEW f \in Tools, passes'[d][f] > 0
                 PROVE  Behind(status, d, f)'
      BY DEF PassesBehind
    <3>1. passes[d][f] > 0 \/ (d = e /\ f = j)
      BY <1>2, <2>2, <2>4, ToolsArePassCursors
    <3> QED
      BY <2>4, <3>1 DEF QueueInv, PassesBehind
  <2>6. CursorBehind'
    <3> SUFFICES ASSUME NEW d \in Attempts, d = cur, pc = "drainScan"
                 PROVE  Behind(status, d, at)'
      BY <1>1 DEF CursorBehind
    <3>1. Behind(status, d, at)
      BY DEF QueueInv, CursorBehind
    <3>2. \A i \in MembersOf(d) : status'[i] = "queued" => status[i] = "queued"
      BY <2>4, <2>1, StartMoves, <1>1, <2>3 DEF MembersOf
    <3> QED
      BY <1>1, <3>1, <3>2 DEF Behind, MembersOf
  <2>7. Attended'
    <3> SUFFICES ASSUME NEW d \in Attempts, Startable(status, d)'
                 PROVE  Called(passes, d)' \/ (d = cur /\ pc = "drainScan")
      BY <1>1 DEF Attended
    <3>1. CASE d = e
      BY <2>2, <2>4, <3>1 DEF Called
    <3>2. CASE d # e
      <4>1. Startable(status, d)
        BY <1>1, <2>4, <3>2, OtherStartable
      <4>2. Called(passes, d) \/ (d = cur /\ pc = "drainScan")
        BY <4>1 DEF QueueInv, Attended
      <4> QED
        BY <1>2, <2>2, <2>4, <3>2, <4>2 DEF Called
    <3> QED
      BY <3>1, <3>2
  <2> QED
    BY <2>5, <2>6, <2>7 DEF QueueInv
<1> QED
  BY <1>0, <1>4, <1>5 DEF ResumePass

(* A tool changes no status, or ends and lets processQueue be called.      *)
LEMMA ToolEnds ==
  ASSUME TypeOK, NEW i \in Tools, ToolStep(i) \/ ToolProgress(i) \/ RejectPermission(i)
  PROVE  /\ UNCHANGED <<kind, attempt, cur, consumerVars>>
         /\ \A m \in Tools : pending[m] > 0 => pending'[m] > 0
         /\ \/ UNCHANGED <<status, passes>>
            \/ /\ Ends(i) /\ \A m \in Tools \ {i} : status'[m] = status[m]
               /\ passes' = FinallyPass(passes, attempt[i])
<1>1. UNCHANGED <<kind, attempt, cur, consumerVars>>
  BY DEF ToolStep, ToolRefused, ToolTail, ToolAnswers, ToolProgress, RejectPermission,
         consumerVars
<1>2. \A m \in Tools : pending[m] > 0 => pending'[m] > 0
  <2>1. CASE pending' = pending
    BY <2>1
  <2>2. CASE pending' = [pending EXCEPT ![i] = @ + 1]
    BY <2>2 DEF TypeOK
  <2> QED
    BY <2>1, <2>2 DEF ToolStep, ToolRefused, ToolTail, ToolAnswers, ToolProgress,
       RejectPermission, toolVars
<1>3. \/ UNCHANGED <<status, passes>>
      \/ status[i] = "executing" /\ \E rs : CompleteTool(i, rs)
  <2>1. CASE ToolRefused(i) \/ ToolAnswers(i)
    BY <2>1 DEF ToolRefused, ToolAnswers, Receive, Running
  <2>2. CASE ToolTail(i)
    BY <2>2 DEF ToolTail
  <2>3. CASE ToolProgress(i)
    BY <2>3 DEF ToolProgress, Running
  <2>4. CASE RejectPermission(i)
    BY <2>4 DEF RejectPermission, toolVars
  <2> QED
    BY <2>1, <2>2, <2>3, <2>4 DEF ToolStep
<1>4. ASSUME NEW rs, CompleteTool(i, rs), status[i] = "executing"
      PROVE  /\ Ends(i) /\ \A m \in Tools \ {i} : status'[m] = status[m]
             /\ passes' = FinallyPass(passes, attempt[i])
  BY <1>4 DEF CompleteTool, Ends, TypeOK
<1> QED
  BY <1>1, <1>2, <1>3, <1>4

LEMMA ToolsQueue ==
  ASSUME TypeOK, QueueInv, NEW i \in Tools,
         ToolStep(i) \/ ToolProgress(i) \/ RejectPermission(i)
  PROVE  QueueInv'
<1>1. UNCHANGED <<kind, attempt, cur, pc, at>>
  BY ToolEnds DEF consumerVars
<1>2. CASE UNCHANGED <<status, passes>>
  BY <1>1, <1>2, QueueSettles
<1>3. CASE /\ Ends(i) /\ \A m \in Tools \ {i} : status'[m] = status[m]
           /\ passes' = FinallyPass(passes, attempt[i])
  <2>1. passes \in PassTable /\ attempt[i] \in Attempts
    BY DEF TypeOK, PassTable
  <2>2. /\ Called(passes', attempt[i])
        /\ \A d \in Attempts : Called(passes, d) => Called(passes', d)
        /\ \A d \in Attempts, f \in Tools : passes'[d][f] > 0 => passes[d][f] > 0
    BY <1>3, <2>1, FinallyCalled
  <2>3. \A m \in Tools : status'[m] = status[m] \/ (Ends(m) /\ Called(passes', attempt[m]))
    BY <1>3, <2>2
  <2> QED
    BY <1>1, <2>2, <2>3, QueueSettles
<1> QED
  BY <1>2, <1>3, ToolEnds

(* The query loop.  What it adds is the last tool, which is not yet there. *)
LEMMA StreamQueue ==
  ASSUME TypeOK, ScheduleInv, QueueInv, StreamToolUse
  PROVE  QueueInv'
<1>1. /\ uses < MaxTools /\ uses' = uses + 1 /\ attempt' = [attempt EXCEPT ![uses'] = cur]
      /\ UNCHANGED <<kind, status, passes, cur, at>>
      /\ pc = "stream" /\ pc' = "useHeld"
  BY DEF StreamToolUse, toolVars
<1>2. uses' \in Tools /\ status[uses'] = "absent"
  <2>0. uses \in 0..MaxTools /\ MaxTools \in Nat
    BY BoundsAssumption DEF TypeOK
  <2>1. uses' \in Tools /\ uses' > uses
    BY <1>1, <2>0 DEF Tools
  <2> QED
    BY <2>1 DEF ScheduleInv, StreamedOnly
<1>3. \A i \in Tools \ {uses'} : attempt'[i] = attempt[i]
  BY <1>1 DEF TypeOK
<1>4. \A d : Startable(status, d)' <=> Startable(status, d)
  <2> TAKE d
  <2>1. \A i \in Tools : \A s \in {"queued", "executing"} :
          (attempt'[i] = d /\ status'[i] = s) <=> (attempt[i] = d /\ status[i] = s)
    BY <1>1, <1>2, <1>3
  <2> QED
    BY <1>1, <2>1, SameStartable
<1>5. \A d, f : Behind(status, d, f)' <=> Behind(status, d, f)
  BY <1>1, <1>2, <1>3 DEF Behind, MembersOf
<1>6. PassesBehind' /\ CursorBehind'
  BY <1>1, <1>5 DEF QueueInv, PassesBehind, CursorBehind
<1>7. Attended'
  BY <1>1, <1>4 DEF QueueInv, Attended, Called
<1> QED
  BY <1>6, <1>7 DEF QueueInv

LEMMA AddQueue ==
  ASSUME TypeOK, ScheduleInv, QueueInv, AddTool
  PROVE  QueueInv'
<1>0. PICK e \in Attempts : e = cur
  BY DEF TypeOK
<1> DEFINE st == [status EXCEPT ![uses] = "queued"]
<1>1. /\ pc = "useHeld" /\ pc' = "collect" /\ at' = 0
      /\ UNCHANGED <<kind, attempt, cur, uses>>
  BY DEF AddTool
<1>2. /\ uses \in Tools /\ status[uses] = "absent" /\ attempt[uses] = e
      /\ passes \in PassTable
  <2>1. uses > 0 /\ status[uses] = "absent" /\ attempt[uses] = e
    BY <1>0, <1>1 DEF ScheduleInv, HeldIsAbsent
  <2>2. uses \in Tools
    BY <2>1, BoundsAssumption DEF TypeOK, Tools
  <2> QED
    BY <2>1, <2>2 DEF TypeOK, PassTable
<1>3. st \in [Tools -> Statuses] /\ st[uses] = "queued" /\ \A i \in Tools \ {uses} : st[i] = status[i]
  <2>1. status \in [Tools -> Statuses] /\ "queued" \in Statuses
    BY DEF TypeOK, Statuses
  <2> QED
    BY <1>2, <2>1
<1> HIDE DEF st
<1>4. ASSUME NEW d \in Attempts, NEW f \in Tools, passes[d][f] > 0 PROVE Behind(st, d, f)
  <2>1. Behind(status, d, f) /\ status[f] # "absent"
    BY <1>4 DEF QueueInv, PassesBehind, ScheduleInv, PassesFree
  <2>2. ~(f > uses) /\ f # uses
    BY <1>2, <2>1 DEF ScheduleInv, StreamedOnly
  <2>3. f < uses
    BY <1>2, <2>2, ToolsAreNumbers
  <2> QED
    BY <1>3, <2>1, <2>3 DEF Behind, MembersOf
<1>5. Behind(st, e, 0) /\ 0 \in 0..MaxTools
  BY ToolsAreNumbers, BoundsAssumption DEF Behind, MembersOf
<1>6. CursorBehind'
  BY <1>1 DEF CursorBehind
<1>7. ASSUME NEW d \in Attempts, d # e, Startable(status, d)',
             \A i \in Tools : attempt[i] # e => status'[i] = status[i]
      PROVE  Called(passes, d)
  <2>1. Startable(status, d)
    BY <1>1, <1>7, OtherStartable
  <2> QED
    BY <1>0, <1>1, <1>7, <2>1 DEF QueueInv, Attended
<1>8. CASE NextStart(st, MembersOf(e), 0) = {} /\ status' = st /\ passes' = passes
  <2>1. PassesBehind'
    BY <1>1, <1>4, <1>8 DEF PassesBehind, Behind, MembersOf
  <2>2. ~Startable(st, e)
    BY <1>5, <1>8, ScanEnds
  <2>3. ~Startable(status, e)'
    BY <1>1, <1>8, <2>2 DEF Startable, CanExecute, MembersOf, Safe
  <2>4. \A i \in Tools : attempt[i] # e => status'[i] = status[i]
    BY <1>2, <1>3, <1>8
  <2>5. Attended'
    <3> SUFFICES ASSUME NEW d \in Attempts, Startable(status, d)' PROVE Called(passes, d)'
      BY DEF Attended
    <3>1. d # e
      BY <2>3
    <3> QED
      BY <1>7, <1>8, <2>4, <3>1 DEF Called
  <2> QED
    BY <1>6, <2>1, <2>5 DEF QueueInv
<1>9. ASSUME NEW j \in NextStart(st, MembersOf(e), 0),
             StartTool(st, [passes EXCEPT ![e][j] = @ + 1], e, j)
      PROVE  QueueInv'
  <2> DEFINE qs == [passes EXCEPT ![e][j] = @ + 1]
  <2>1. j \in Tools /\ j \in 0..MaxTools
    BY NextStartMember, ToolsArePassCursors
  <2>2. /\ qs \in PassTable /\ Called(qs, e)
        /\ \A d \in Attempts : Called(passes, d) => Called(qs, d)
        /\ \A d \in Attempts, f \in 0..MaxTools :
             qs[d][f] > 0 => passes[d][f] > 0 \/ (d = e /\ f = j)
    <3>1. qs \in PassTable
      BY <1>2, <2>1, AddPassTyped
    <3>2. /\ Called(qs, e)
          /\ \A d \in Attempts : Called(passes, d) => Called(qs, d)
          /\ \A d \in Attempts, f \in 0..MaxTools :
               qs[d][f] > 0 => passes[d][f] > 0 \/ (d = e /\ f = j)
      <4>1. passes \in PassTable /\ e \in Attempts /\ j \in 0..MaxTools
        BY <1>2, <2>1
      <4> QED
        BY <4>1, AddCalled
    <3> QED
      BY <3>1, <3>2
  <2>3. StartTool(st, qs, e, j)
    BY <1>9
  <2> HIDE DEF qs
  <2>4. /\ attempt[j] = e
        /\ \A i \in Tools \ {j} : status'[i] = st[i]
        /\ Behind(status, e, j)'
        /\ \A d, f : Behind(st, d, f) => Behind(status, d, f)'
        /\ \A d \in Attempts : Called(qs, d) => Called(passes', d)
        /\ \A d \in Attempts, f \in Tools : passes'[d][f] > 0 => qs[d][f] > 0
    BY <1>1, <1>3, <1>5, <2>2, <2>3, StartQueue
  <2>5. PassesBehind'
    <3> SUFFICES ASSUME NEW d \in Attempts, NEW f \in Tools, passes'[d][f] > 0
                 PROVE  Behind(status, d, f)'
      BY DEF PassesBehind
    <3>1. passes[d][f] > 0 \/ (d = e /\ f = j)
      BY <2>2, <2>4, ToolsArePassCursors
    <3>2. CASE passes[d][f] > 0
      BY <1>4, <2>4, <3>2
    <3>3. CASE d = e /\ f = j
      BY <2>4, <3>3
    <3> QED
      BY <3>1, <3>2, <3>3
  <2>6. \A i \in Tools : attempt[i] # e => status'[i] = status[i]
    BY <1>2, <1>3, <2>4
  <2>7. Attended'
    <3> SUFFICES ASSUME NEW d \in Attempts, Startable(status, d)' PROVE Called(passes', d)
      BY DEF Attended, Called
    <3>1. CASE d = e
      BY <2>2, <2>4, <3>1
    <3>2. CASE d # e
      BY <1>7, <2>2, <2>4, <2>6, <3>2
    <3> QED
      BY <3>1, <3>2
  <2> QED
    BY <1>6, <2>5, <2>7 DEF QueueInv
<1> QED
  BY <1>0, <1>8, <1>9 DEF AddTool, st

LEMMA QueryLoopQueue ==
  ASSUME TypeOK, ScheduleInv, QueueInv, QueryLoop
  PROVE  QueueInv'
<1>1. CASE SkipAddTool \/ StreamOther \/ StreamEnd \/ Fallback
  <2>1. /\ UNCHANGED <<kind, attempt, status, passes>>
        /\ pc # "drainScan"
        /\ pc' = "drainScan" => at' = 0
    BY <1>1 DEF SkipAddTool, StreamOther, StreamEnd, Fallback, toolVars, consumerVars
  <2> QED
    BY <2>1, QueueSettles
<1>2. CASE AddUnknownTool
  <2>1. /\ UNCHANGED <<kind, attempt, passes>>
        /\ pc = "useHeld" /\ pc' = "collect"
        /\ status' = [status EXCEPT ![uses] = "completed"]
    BY <1>2 DEF AddUnknownTool
  <2>2. uses \in Tools /\ status[uses] = "absent"
    <3>1. uses > 0 /\ status[uses] = "absent"
      BY <2>1 DEF ScheduleInv, HeldIsAbsent
    <3> QED
      BY <3>1, BoundsAssumption DEF TypeOK, Tools
  <2>3. \A i \in Tools : status'[i] = status[i] \/ Settles(i)
    BY <2>1, <2>2 DEF Settles, TypeOK
  <2> QED
    BY <2>1, <2>3, QueueSettles
<1> QED
  BY <1>1, <1>2, StreamQueue, AddQueue DEF QueryLoop

LEMMA ConsumerQueue ==
  ASSUME TypeOK, ScheduleInv, QueueInv, Consumer
  PROVE  QueueInv'
<1>1. CASE YieldProgress \/ CollectEnd \/ DrainCheck \/ DrainWake
  <2>1. UNCHANGED <<kind, attempt, status, passes, cur>> /\ pc # "drainScan"
    BY <1>1 DEF YieldProgress, CollectEnd, DrainCheck, DrainWake, Collecting, toolVars
  <2>2. pc' = "drainScan" => at' = 0
    BY <1>1 DEF YieldProgress, CollectEnd, DrainCheck, DrainWake, ScheduleInv, CursorFree
  <2> QED
    BY <2>1, <2>2, QueueSettles
<1>2. CASE YieldResults
  <2>1. /\ UNCHANGED <<kind, attempt, passes, cur>>
        /\ pc # "drainScan" /\ pc' = "resultHeld"
    BY <1>2 DEF YieldResults, Collecting
  <2>2. PICK i \in NextOffer(at) : pending[i] = 0 /\ status' = [status EXCEPT ![i] = "yielded"]
    BY <1>2 DEF YieldResults
  <2>3. i \in Tools /\ status[i] = "completed"
    BY <2>2, NextOfferMember DEF NextOffer, Offers
  <2>4. \A m \in Tools : status'[m] = status[m] \/ Settles(m)
    BY <2>2, <2>3 DEF Settles, TypeOK
  <2> QED
    BY <2>1, <2>4, QueueSettles
<1>3. CASE DrainScan
  <2>0. PICK e \in Attempts : e = cur
    BY DEF TypeOK
  <2>1. /\ pc = "drainScan" /\ UNCHANGED <<kind, attempt, cur>>
        /\ at \in 0..MaxTools /\ passes \in PassTable /\ status \in [Tools -> Statuses]
    BY <1>3 DEF DrainScan, TypeOK, PassTable
  <2>2. Behind(status, e, at)
    BY <2>0, <2>1 DEF QueueInv, CursorBehind
  <2>3. CASE /\ NextStart(status, MembersOf(e), at) = {}
             /\ pc' = "collect" /\ UNCHANGED <<status, passes>>
    <3>1. ~Startable(status, e)
      BY <2>1, <2>2, <2>3, ScanEnds
    <3>2. \A d : Startable(status, d)' <=> Startable(status, d)
      BY <2>1, <2>3, OtherStartable
    <3>3. PassesBehind' /\ CursorBehind'
      BY <2>1, <2>3 DEF QueueInv, PassesBehind, CursorBehind, Behind, MembersOf
    <3>4. Attended'
      BY <2>0, <2>1, <2>3, <3>1, <3>2 DEF QueueInv, Attended, Called
    <3> QED
      BY <3>3, <3>4 DEF QueueInv
  <2>4. ASSUME NEW j \in NextStart(status, MembersOf(e), at),
               StartTool(status, passes, e, j), at' = j, pc' = pc
        PROVE  QueueInv'
    <3>1. /\ attempt[j] = e
          /\ \A i \in Tools \ {j} : status'[i] = status[i]
          /\ Behind(status, e, j)'
          /\ \A d, f : Behind(status, d, f) => Behind(status, d, f)'
          /\ \A d \in Attempts : Called(passes, d) => Called(passes', d)
          /\ \A d \in Attempts, f \in Tools : passes'[d][f] > 0 => passes[d][f] > 0
      BY <2>1, <2>2, <2>4, StartQueue
    <3>2. PassesBehind'
      BY <3>1 DEF QueueInv, PassesBehind
    <3>3. CursorBehind'
      <4> SUFFICES ASSUME NEW d \in Attempts, d = cur'
                   PROVE  Behind(status, d, at)'
        BY DEF CursorBehind
      <4>1. \A i \in MembersOf(e)' : status'[i] = "queued" => j < i
        BY <3>1 DEF Behind
      <4> QED
        BY <2>0, <2>1, <2>4, <4>1 DEF Behind
    <3>4. Attended'
      <4> SUFFICES ASSUME NEW d \in Attempts, Startable(status, d)'
                   PROVE  Called(passes', d) \/ (d = cur' /\ pc' = "drainScan")
        BY DEF Attended, Called
      <4>1. CASE d = e
        BY <2>0, <2>1, <2>4, <4>1
      <4>2. CASE d # e
        <5>1. Startable(status, d)
          BY <2>1, <3>1, <4>2, OtherStartable
        <5> QED
          BY <2>0, <3>1, <4>2, <5>1 DEF QueueInv, Attended
      <4> QED
        BY <4>1, <4>2
    <3> QED
      BY <3>2, <3>3, <3>4 DEF QueueInv
  <2> QED
    BY <1>3, <2>0, <2>3, <2>4 DEF DrainScan
<1> QED
  BY <1>1, <1>2, <1>3 DEF Consumer

LEMMA InitQueue == Init => QueueInv
<1> SUFFICES ASSUME Init PROVE QueueInv
  OBVIOUS
<1>1. /\ \A i \in Tools : status[i] = "absent"
      /\ \A e \in Attempts, c \in Tools : passes[e][c] = 0
      /\ pc = "stream"
  BY ToolsArePassCursors DEF Init
<1> QED
  BY <1>1 DEF QueueInv, PassesBehind, CursorBehind, Attended, Startable, Behind, MembersOf

LEMMA NextQueue == TypeOK /\ ScheduleInv /\ QueueInv /\ [Next]_vars => QueueInv'
<1> SUFFICES ASSUME TypeOK, ScheduleInv, QueueInv, [Next]_vars PROVE QueueInv'
  OBVIOUS
<1>1. CASE AbortTurn \/ Finished \/ UNCHANGED vars
  <2>1. UNCHANGED <<kind, attempt, cur, pc, at, status, passes>>
    BY <1>1 DEF AbortTurn, Finished, vars, toolVars, consumerVars
  <2> QED
    BY <2>1, QueueSettles
<1> QED
  BY <1>1, QueryLoopQueue, ConsumerQueue, PassesQueue, ToolsQueue DEF Next

------------------------------------------------------------------------------
(* Steps behind the back of the consumer: a tool ends, or a suspended call *)
(* starts one.                                                             *)

Background ==
  \/ Passes
  \/ \E i \in Tools : ToolStep(i) \/ ToolProgress(i) \/ RejectPermission(i)
  \/ AbortTurn \/ Finished \/ UNCHANGED vars

LEMMA BackgroundMoves ==
  ASSUME TypeOK, QueueInv, Background
  PROVE  /\ UNCHANGED <<kind, attempt, cur, consumerVars>>
         /\ \A i \in Tools : pending[i] > 0 => pending'[i] > 0
         /\ \A i \in Tools :
              \/ status'[i] = status[i]
              \/ Ends(i)
              \/ /\ status[i] = "queued" /\ status'[i] \in {"executing", "completed"}
                 /\ Startable(status, attempt[i])
<1>1. CASE Passes
  <2>0. PICK e \in Attempts, c \in 0..MaxTools : ResumePass(e, c)
    BY <1>1 DEF Passes
  <2>1. /\ UNCHANGED <<kind, attempt, cur, consumerVars, pending>>
        /\ passes[e][c] > 0 /\ status \in [Tools -> Statuses]
    BY <2>0 DEF ResumePass, TypeOK
  <2>2. Behind(status, e, c)
    <3>1. CASE c \in Tools
      BY <2>1, <3>1 DEF QueueInv, PassesBehind
    <3>2. CASE c = 0
      BY <3>2, ToolsAreNumbers DEF Behind, MembersOf
    <3> QED
      BY <3>1, <3>2, BoundsAssumption DEF Tools
  <2>3. ASSUME NEW j \in NextStart(status, MembersOf(e), c), NEW ps,
               StartTool(status, ps, e, j)
        PROVE  /\ j \in Tools /\ status[j] = "queued" /\ Startable(status, attempt[j])
               /\ status'[j] \in {"executing", "completed"}
               /\ \A i \in Tools \ {j} : status'[i] = status[i]
    <3>1. j \in Tools /\ attempt[j] = e /\ status[j] = "queued" /\ Startable(status, e)
      BY <2>2, ScanStarts
    <3> QED
      BY <2>1, <2>3, <3>1, StartMoves
  <2> QED
    BY <2>0, <2>1, <2>3 DEF ResumePass
<1>2. ASSUME NEW i \in Tools, ToolStep(i) \/ ToolProgress(i) \/ RejectPermission(i)
      PROVE  /\ UNCHANGED <<kind, attempt, cur, consumerVars>>
             /\ \A m \in Tools : pending[m] > 0 => pending'[m] > 0
             /\ \A m \in Tools : status'[m] = status[m] \/ Ends(m)
  BY <1>2, ToolEnds
<1>3. CASE AbortTurn \/ Finished \/ UNCHANGED vars
  BY <1>3 DEF AbortTurn, Finished, vars, toolVars
<1> QED
  BY <1>1, <1>2, <1>3 DEF Background

(* The consumer's points of view survive them. *)
LEMMA BackgroundWakes ==
  ASSUME TypeOK, QueueInv, WakeInv, Background
  PROVE  WakeInv'
<1>1. /\ UNCHANGED <<kind, attempt, cur, pc, draining, waitSet>>
      /\ \A i \in Tools : pending[i] > 0 => pending'[i] > 0
      /\ \A i \in Tools :
           \/ status'[i] = status[i]
           \/ Ends(i)
           \/ /\ status[i] = "queued" /\ status'[i] \in {"executing", "completed"}
              /\ Startable(status, attempt[i])
  BY BackgroundMoves DEF consumerVars
<1>2. DrainingPoints'
  BY <1>1 DEF WakeInv, DrainingPoints
<1> SUFFICES ASSUME NEW e \in Attempts, e = cur PROVE Heard(e)' /\ Asleep(e)'
  BY <1>1, <1>2 DEF WakeInv
<1>3. Heard(e) /\ Asleep(e)
  BY DEF WakeInv
<1>4. \A i : i \in MembersOf(e)' <=> i \in MembersOf(e)
  BY <1>1 DEF MembersOf
<1>5. ASSUME Completed(status, e) PROVE Completed(status, e)'
  BY <1>1, <1>4, <1>5 DEF Completed, Ends, MembersOf
<1>6. ASSUME ~Startable(status, e), \A i \in MembersOf(e) : ~Ends(i)
      PROVE  /\ \A i \in MembersOf(e) : status'[i] = status[i]
             /\ ~Startable(status, e)'
  <2>1. \A i \in Tools : attempt[i] = e => status'[i] = status[i]
    BY <1>1, <1>6 DEF MembersOf
  <2> QED
    BY <1>1, <1>6, <2>1, OtherStartable DEF MembersOf
<1>7. ASSUME NEW i \in MembersOf(e), Ends(i) PROVE Completed(status, e)'
  BY <1>4, <1>7 DEF Completed, Ends
<1>8. Heard(e)'
  BY <1>1, <1>3, <1>5, <1>6, <1>7 DEF Heard
<1>9. Asleep(e)'
  <2> SUFFICES ASSUME pc = "drainWait"
               PROVE  /\ \A i \in waitSet : status'[i] \notin {"absent", "queued"}
                      /\ \/ Woken'
                         \/ /\ ~Startable(status, e)' /\ ~Completed(status, e)'
                            /\ \A i \in MembersOf(e)' : status'[i] = "executing" => i \in waitSet
    BY <1>1 DEF Asleep
  <2>1. waitSet \subseteq Tools /\ \A i \in waitSet : status[i] \notin {"absent", "queued"}
    BY <1>3 DEF Asleep, TypeOK
  <2>2. \A i \in waitSet : status'[i] \notin {"absent", "queued"}
    BY <1>1, <2>1 DEF Ends
  <2>3. CASE Woken
    <3>1. ASSUME NEW i \in waitSet, status[i] # "executing" PROVE Woken'
      <4>1. status'[i] # "executing"
        BY <1>1, <2>1, <3>1 DEF Ends
      <4> QED
        BY <1>1, <4>1 DEF Woken
    <3>2. ASSUME NEW i \in MembersOf(cur), pending[i] > 0 PROVE Woken'
      <4>1. i \in MembersOf(cur)' /\ pending'[i] > 0
        BY <1>1, <3>2 DEF MembersOf
      <4> QED
        BY <4>1 DEF Woken
    <3>3. Woken'
      BY <2>3, <3>1, <3>2 DEF Woken
    <3> QED
      BY <2>2, <3>3
  <2>4. CASE ~Woken
    <3>1. /\ ~Startable(status, e) /\ ~Completed(status, e)
          /\ \A i \in MembersOf(e) : status[i] = "executing" => i \in waitSet
      BY <1>3, <2>4 DEF Asleep
    <3>2. CASE \A i \in MembersOf(e) : ~Ends(i)
      BY <1>4, <1>6, <2>2, <3>1, <3>2 DEF Completed
    <3>3. ASSUME NEW i \in MembersOf(e), Ends(i) PROVE Woken'
      BY <1>1, <3>1, <3>3 DEF Ends, Woken
    <3> QED
      BY <2>2, <3>2, <3>3
  <2> QED
    BY <2>3, <2>4
<1> QED
  BY <1>8, <1>9

LEMMA ElsewhereWakes ==
  ASSUME pc' \notin {"collect", "drainCheck", "drainWait"} \/ ~draining',
         DrainingPoints'
  PROVE  WakeInv'
<1>1. \A e \in Attempts : Heard(e)' /\ Asleep(e)'
  BY DEF Heard, Asleep, DrainingPoints
<1> QED
  BY <1>1 DEF WakeInv

LEMMA QueryLoopWakes ==
  ASSUME WakeInv, QueryLoop
  PROVE  WakeInv'
<1>1. pc \in {"stream", "useHeld"} /\ ~draining
  BY DEF QueryLoop, StreamToolUse, StreamOther, SkipAddTool, AddUnknownTool, AddTool,
         Fallback, StreamEnd, WakeInv, DrainingPoints
<1>2. \/ draining' = draining /\ pc' \in {"stream", "useHeld", "collect"}
      \/ draining' /\ pc' \in {"drainScan", "done"}
  BY <1>1 DEF QueryLoop, StreamToolUse, StreamOther, SkipAddTool, AddUnknownTool, AddTool,
     Fallback, StreamEnd, LoopTop, consumerVars
<1> QED
  BY <1>1, <1>2, ElsewhereWakes DEF DrainingPoints

LEMMA ConsumerWakes ==
  ASSUME TypeOK, QueueInv, WakeInv, Consumer
  PROVE  WakeInv'
<1>0. PICK e \in Attempts : e = cur
  BY DEF TypeOK
<1>1. /\ UNCHANGED <<kind, attempt, cur, draining>>
      /\ Heard(e) /\ DrainingPoints /\ draining \in BOOLEAN
  BY <1>0 DEF Consumer, YieldProgress, YieldResults, CollectEnd, DrainScan, DrainCheck,
     DrainWake, WakeInv, TypeOK
<1>2. CASE YieldProgress \/ YieldResults \/ DrainWake
  <2>1. /\ pc' \in {"resultHeld", "drainScan", "done"}
        /\ pc' = "drainScan" => draining
    BY <1>1, <1>2 DEF YieldProgress, YieldResults, DrainWake, LoopTop, DrainingPoints
  <2> QED
    BY <1>1, <2>1, ElsewhereWakes DEF DrainingPoints
<1>3. CASE CollectEnd
  <2>1. /\ Collecting /\ pc \in {"collect", "resultHeld"}
        /\ pc' = IF draining THEN "drainCheck" ELSE "stream"
        /\ UNCHANGED <<status, passes>>
    BY <1>3 DEF CollectEnd, Collecting, toolVars
  <2>2. DrainingPoints'
    BY <1>1, <2>1 DEF DrainingPoints
  <2>3. CASE ~draining
    BY <1>1, <2>2, <2>3, ElsewhereWakes
  <2>4. CASE draining
    <3>1. ~Startable(status, e) \/ Completed(status, e)
      <4>1. CASE pc = "collect"
        BY <1>1, <2>4, <4>1 DEF Heard
      <4>2. CASE pc = "resultHeld"
        <5>1. \A c \in 0..MaxTools : passes[e][c] = 0
          BY <2>1, <4>2 DEF Collecting, MicrotasksDrained
        <5>2. ~Called(passes, e)
          BY <5>1 DEF Called
        <5> QED
          BY <4>2, <5>2 DEF QueueInv, Attended
      <4> QED
        BY <2>1, <4>1, <4>2
    <3>2. Startable(status, e)' <=> Startable(status, e)
      BY <1>1, <2>1, OtherStartable
    <3>3. Heard(e)'
      BY <1>1, <2>1, <3>1, <3>2 DEF Heard, Completed, MembersOf
    <3>4. Asleep(e)'
      BY <2>1 DEF Asleep
    <3> QED
      BY <1>0, <1>1, <2>2, <3>3, <3>4 DEF WakeInv
  <2> QED
    BY <2>3, <2>4
<1>4. CASE DrainScan
  <2>1. pc = "drainScan" /\ draining /\ at \in 0..MaxTools
    BY <1>1, <1>4 DEF DrainScan, DrainingPoints, TypeOK
  <2>2. CASE pc' = pc
    BY <1>1, <2>1, <2>2, ElsewhereWakes DEF DrainingPoints
  <2>3. CASE NextStart(status, MembersOf(e), at) = {} /\ pc' = "collect" /\ status' = status
    <3>1. Behind(status, e, at)
      BY <1>0, <2>1 DEF QueueInv, CursorBehind
    <3>2. ~Startable(status, e)
      BY <2>1, <2>3, <3>1, ScanEnds
    <3>3. ~Startable(status, e)'
      BY <1>1, <2>3, <3>2, OtherStartable
    <3>4. Heard(e)' /\ Asleep(e)' /\ DrainingPoints'
      BY <1>1, <2>1, <2>3, <3>3 DEF Heard, Asleep, DrainingPoints
    <3> QED
      BY <1>0, <1>1, <3>4 DEF WakeInv
  <2> QED
    BY <1>0, <1>4, <2>2, <2>3 DEF DrainScan
<1>5. CASE DrainCheck
  <2>1. pc = "drainCheck" /\ draining /\ UNCHANGED <<status, pending>>
    BY <1>1, <1>5 DEF DrainCheck, DrainingPoints, toolVars
  <2>2. CASE pc' = LoopTop
    <3>1. pc' \in {"drainScan", "done"}
      BY <2>2 DEF LoopTop
    <3> QED
      BY <1>1, <2>1, <3>1, ElsewhereWakes DEF DrainingPoints
  <2>3. CASE /\ ~Has(status, cur, "completed") /\ pc' = "drainWait"
             /\ waitSet' = {i \in MembersOf(cur) : status[i] = "executing"}
    <3>1. ~Completed(status, e)
      BY <1>0, <2>3 DEF Has, Completed
    <3>2. ~Startable(status, e)
      BY <1>1, <2>1, <3>1 DEF Heard
    <3>3. ~Startable(status, e)'
      BY <1>1, <2>1, <3>2, OtherStartable
    <3>4. \A i \in waitSet' : status'[i] \notin {"absent", "queued"}
      BY <2>1, <2>3
    <3>5. \A i \in MembersOf(e)' : status'[i] = "executing" => i \in waitSet'
      BY <1>0, <1>1, <2>1, <2>3 DEF MembersOf
    <3>6. ~Completed(status, e)'
      BY <1>1, <2>1, <3>1 DEF Completed, MembersOf
    <3>7. Asleep(e)'
      BY <3>3, <3>4, <3>5, <3>6 DEF Asleep
    <3>8. Heard(e)' /\ DrainingPoints'
      BY <1>1, <2>1, <2>3 DEF Heard, DrainingPoints
    <3> QED
      BY <1>0, <1>1, <3>7, <3>8 DEF WakeInv
  <2> QED
    BY <1>5, <2>2, <2>3 DEF DrainCheck
<1> QED
  BY <1>2, <1>3, <1>4, <1>5 DEF Consumer

LEMMA NextWakes ==
  TypeOK /\ ScheduleInv /\ QueueInv /\ WakeInv /\ [Next]_vars => (QueueInv /\ WakeInv)'
<1> SUFFICES ASSUME TypeOK, ScheduleInv, QueueInv, WakeInv, [Next]_vars
             PROVE  QueueInv' /\ WakeInv'
  OBVIOUS
<1>1. QueueInv'
  BY NextQueue
<1>2. QueryLoop \/ Consumer \/ Background
  BY DEF Next, Background
<1> QED
  BY <1>1, <1>2, QueryLoopWakes, ConsumerWakes, BackgroundWakes

LEMMA InitWakes == Init => WakeInv
  BY DEF Init, WakeInv, DrainingPoints, Heard, Asleep

(* getRemainingResults never sleeps on while a completed tool or a         *)
(* progress message is there to be yielded, although tools start and end   *)
(* behind its back and it waits only for those that executed when it       *)
(* looked.                                                                 *)
THEOREM Wakeups == Spec => []NoLostWakeup
<1>1. Init => QueueInv /\ WakeInv
  BY InitQueue, InitWakes
<1> QED
  BY <1>1, NextWakes, ScheduleAlways, WakeImplies, PTL DEF Spec
=============================================================================
