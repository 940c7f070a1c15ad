------------------------ MODULE StreamingToolExecutor ------------------------
(***************************************************************************)
(* The executor that runs the tool_use blocks of one assistant turn while  *)
(* the response is still streaming (services/tools/StreamingToolExecutor)  *)
(* together with the part of the query loop that feeds it and consumes its *)
(* results (query.ts).                                                     *)
(*                                                                         *)
(* The code is single-threaded JavaScript.  A step of a promise            *)
(* continuation is a microtask; a stream event, a tool's I/O, a key press  *)
(* or the resumption of whoever iterates query() is a macrotask, and a     *)
(* macrotask runs only when no microtask is pending (MicrotasksDrained).   *)
(* Microtasks are interleaved in any order, which is weaker than their     *)
(* FIFO order.                                                             *)
(*                                                                         *)
(* A streaming fallback discards the executor and creates another one, so  *)
(* tools carry the attempt (executor) they were streamed in.               *)
(***************************************************************************)
EXTENDS Naturals, Sequences

CONSTANTS
  MaxTools,      \* bound: tool_use blocks streamed in the turn
  MaxAttempts,   \* bound: executors created in the turn (fallbacks + 1)
  MaxProgress,   \* bound: progress messages of one tool
  Kinds,         \* the tools of the model's response, see KindsAssumption
  NowMessages    \* whether a 'now' priority message may interrupt the turn

Tools == 1..MaxTools
Attempts == 1..MaxAttempts

(* known: findToolByName succeeds.  safe: isConcurrencySafe(input).        *)
(* bash: the tool is Bash, whose error cancels its siblings.               *)
(* cancel: interruptBehavior() is 'cancel'.                                *)
KindRecord == [known: BOOLEAN, safe: BOOLEAN, bash: BOOLEAN, cancel: BOOLEAN]

ASSUME BoundsAssumption ==
  /\ MaxTools \in Nat
  /\ MaxAttempts \in Nat \ {0}
  /\ MaxProgress \in Nat
  /\ NowMessages \in BOOLEAN

ASSUME KindsAssumption ==
  /\ Kinds # {}
  /\ Kinds \subseteq KindRecord
  /\ \A k \in Kinds : ~k.known => k.safe   \* an unknown tool is pushed as safe

Statuses == {"absent", "queued", "executing", "completed", "yielded"}
(* An executing tool: its call is pending, it is refused before any I/O    *)
(* (signal already aborted, invalid input, denied by a permission rule),   *)
(* or its result is in and an attachment follows.                          *)
Phases == {"none", "run", "refused", "tail"}
Synthetic == {"sibling_error", "user_interrupted", "streaming_fallback"}
ResultKinds == {"ok", "error"} \cup Synthetic
(* Where the query loop stands: waiting for the model, suspended at the    *)
(* yield of an assistant message, inside getCompletedResults (running, or  *)
(* suspended at a yield), or at the three points of getRemainingResults.   *)
ConsumerPoints == {"stream", "useHeld", "collect", "resultHeld",
                   "drainScan", "drainCheck", "drainWait", "done"}

VARIABLES
  kind,          \* the response the model is going to stream
  uses,          \* tool_use blocks yielded so far
  attempt,       \* the executor a block belongs to
  status,        \* TrackedTool.status
  phase,         \* progress of the call inside collectResults
  results,       \* the tool_result messages collected for the tool
  pending,       \* TrackedTool.pendingProgress, counted
  ticks,         \* progress messages received
  cur,           \* the live executor; every earlier one is discarded
  hasErrored,    \* per executor
  aborted,       \* signal of toolUseContext.abortController: its reason
  interruptible, \* the flag setHasInterruptibleToolInProgress maintains
  passes,        \* processQueue calls suspended at "await executeTool"
  pc,            \* a ConsumerPoint
  draining,      \* getRemainingResults has been called
  at,            \* cursor of the consumer's own scan or collection
  waitSet,       \* the promises raced in getRemainingResults
  emitted        \* tools whose results were yielded, in order (history)

toolVars == <<status, phase, results, pending, ticks>>
consumerVars == <<pc, draining, at, waitSet, emitted>>
vars == <<kind, uses, attempt, toolVars, cur, hasErrored, aborted,
          interruptible, passes, consumerVars>>

------------------------------------------------------------------------------
(* Reading the state *)

Safe(i) == kind[i].safe
Discarded(e) == e # cur
MembersOf(e) == {i \in Tools : attempt[i] = e}
Has(st, e, s) == \E i \in MembersOf(e) : st[i] = s

(* Mutant of AbortReason: discarded is not looked at. *)
AbortReasonWhenLive(i) ==
  IF hasErrored[attempt[i]] THEN "sibling_error"
  ELSE IF aborted = "user" \/ (aborted = "interrupt" /\ kind[i].cancel)
       THEN "user_interrupted"
  ELSE "none"

(* getAbortReason *)
AbortReason(i) ==
  IF Discarded(attempt[i]) THEN "streaming_fallback"
  ELSE IF hasErrored[attempt[i]] THEN "sibling_error"
  ELSE IF aborted = "user" \/ (aborted = "interrupt" /\ kind[i].cancel)
       THEN "user_interrupted"
  ELSE "none"

(* The signal a tool started now would be handed: child of the sibling     *)
(* controller, itself a child of the query's controller.                   *)
SignalAborted(e) == aborted # "none" \/ hasErrored[e]

(* Mutant of AllCancellable: some executing tool may be cancelled. *)
AnyCancellable(st, e) ==
  \E i \in MembersOf(e) : st[i] = "executing" /\ kind[i].cancel

(* updateInterruptibleState *)
AllCancellable(st, e) ==
  /\ Has(st, e, "executing")
  /\ \A i \in MembersOf(e) : st[i] = "executing" => kind[i].cancel

(* Mutant of CanExecute: a safe tool joins whatever executes. *)
CanExecuteIfSafe(st, ts, i) ==
  Safe(i) \/ \A j \in ts : st[j] # "executing"

(* canExecuteTool, over the tools ts of one executor with statuses st *)
CanExecute(st, ts, i) ==
  \/ \A j \in ts : st[j] # "executing"
  \/ Safe(i) /\ \A j \in ts : st[j] = "executing" => Safe(j)

(* Mutant of NextStart: a tool that cannot execute never ends the pass. *)
NextStartNoBreak(st, ts, c) ==
  {j \in ts :
     /\ j > c
     /\ st[j] = "queued"
     /\ CanExecute(st, ts, j)
     /\ \A m \in ts : (c < m /\ m < j /\ st[m] = "queued")
                         => ~CanExecute(st, ts, m)}

(* The tool a processQueue pass starts next after examining tool c: the    *)
(* first queued tool that can execute, unless a queued exclusive tool that *)
(* cannot execute comes before it and ends the pass.                       *)
NextStart(st, ts, c) ==
  {j \in ts :
     /\ j > c
     /\ st[j] = "queued"
     /\ CanExecute(st, ts, j)
     /\ \A m \in ts : (c < m /\ m < j /\ st[m] = "queued")
                         => Safe(m) /\ ~CanExecute(st, ts, m)}

(* getCompletedResults, after examining tool c: a tool with progress or a  *)
(* completed tool is yielded next, unless an executing exclusive tool      *)
(* comes before it and ends the collection.                                *)
Offers(i) == pending[i] > 0 \/ status[i] = "completed"

(* Mutant of NextOffer: results in any order. *)
AnyOffer(c) == {i \in MembersOf(cur) : i > c /\ Offers(i)}

NextOffer(c) ==
  {i \in MembersOf(cur) :
     /\ i > c
     /\ Offers(i)
     /\ \A m \in MembersOf(cur) : (c < m /\ m < i)
          => ~Offers(m) /\ (status[m] = "executing" => Safe(m))}

Unfinished == \E i \in MembersOf(cur) : status[i] \notin {"absent", "yielded"}

(* The race of getRemainingResults has been won. *)
Woken == \/ \E i \in waitSet : status[i] # "executing"
         \/ \E i \in MembersOf(cur) : pending[i] > 0

MicrotasksDrained ==
  /\ \A e \in Attempts, c \in 0..MaxTools : passes[e][c] = 0
  /\ \A i \in Tools : status[i] = "executing" => phase[i] = "run"
  /\ pc \in {"stream", "useHeld", "resultHeld", "drainWait", "done"}
  /\ pc = "drainWait" => ~Woken

------------------------------------------------------------------------------
(* Effects shared by several actions *)

(* The promise.finally of collectResults calls processQueue again.         *)
FinallyPass(ps, e) == [ps EXCEPT ![e][0] = @ + 1]

(* executeTool(j) up to its first await: a tool whose abort reason is set  *)
(* is completed with a synthetic error and never runs.                     *)
StartTool(st, ps, e, j) ==
  LET reason == AbortReason(j)
      st2 == [st EXCEPT ![j] = IF reason = "none" THEN "executing" ELSE "completed"]
  IN  /\ status' = st2
      /\ results' = [results EXCEPT ![j] = IF reason = "none" THEN <<>> ELSE <<reason>>]
      /\ \E p \in {"none", "refused", "run"} :
           /\ p = "none" <=> reason # "none"
           /\ p = "run" => ~SignalAborted(e)
           /\ phase' = [phase EXCEPT ![j] = p]
      /\ interruptible' = AllCancellable(st2, e)
      /\ passes' = IF reason = "none" THEN ps ELSE FinallyPass(ps, e)

(* The end of collectResults for tool i, with the tool_results rs.         *)
CompleteTool(i, rs) ==
  LET st2 == [status EXCEPT ![i] = "completed"]
  IN  /\ status' = st2
      /\ phase' = [phase EXCEPT ![i] = "none"]
      /\ results' = [results EXCEPT ![i] = rs]
      /\ interruptible' = AllCancellable(st2, attempt[i])
      /\ passes' = FinallyPass(passes, attempt[i])

(* One update of the tool's generator carrying its tool_result: dropped    *)
(* for a synthetic error when the tool was cancelled meanwhile.  A Bash    *)
(* error cancels the siblings.  extra: an attachment follows the result.   *)
Receive(i, r, extra) ==
  LET e == attempt[i] IN
  IF AbortReason(i) # "none"
    THEN CompleteTool(i, <<AbortReason(i)>>) /\ UNCHANGED hasErrored
    ELSE /\ hasErrored' = IF r = "error" /\ kind[i].bash
                          THEN [hasErrored EXCEPT ![e] = TRUE] ELSE hasErrored
         /\ IF extra
              THEN /\ results' = [results EXCEPT ![i] = <<r>>]
                   /\ phase' = [phase EXCEPT ![i] = "tail"]
                   /\ UNCHANGED <<status, interruptible, passes>>
              ELSE CompleteTool(i, <<r>>)

LoopTop == IF Unfinished THEN "drainScan" ELSE "done"

------------------------------------------------------------------------------
Init ==
  /\ kind \in [Tools -> Kinds]
  /\ uses = 0
  /\ attempt = [i \in Tools |-> 1]
  /\ status = [i \in Tools |-> "absent"]
  /\ phase = [i \in Tools |-> "none"]
  /\ results = [i \in Tools |-> <<>>]
  /\ pending = [i \in Tools |-> 0]
  /\ ticks = [i \in Tools |-> 0]
  /\ cur = 1
  /\ hasErrored = [e \in Attempts |-> FALSE]
  /\ aborted = "none"
  /\ interruptible = FALSE
  /\ passes = [e \in Attempts |-> [c \in 0..MaxTools |-> 0]]
  /\ pc = "stream"
  /\ draining = FALSE
  /\ at = 0
  /\ waitSet = {}
  /\ emitted = <<>>

------------------------------------------------------------------------------
(* The query loop (macrotasks: the model's stream and its own consumer) *)

(* An assistant message with a tool_use block arrives; the loop yields it  *)
(* to its consumer and is suspended there.                                 *)
StreamToolUse ==
  /\ MicrotasksDrained
  /\ pc = "stream"
  /\ uses < MaxTools
  /\ uses' = uses + 1
  /\ attempt' = [attempt EXCEPT ![uses'] = cur]
  /\ pc' = "useHeld"
  /\ UNCHANGED <<kind, toolVars, cur, hasErrored, aborted, interruptible,
                 passes, draining, at, waitSet, emitted>>

(* The consumer resumed the loop.  Once the signal is aborted neither      *)
(* addTool nor getCompletedResults is called.                              *)
SkipAddTool ==
  /\ MicrotasksDrained
  /\ pc = "useHeld"
  /\ aborted # "none"
  /\ pc' = "stream"
  /\ UNCHANGED <<kind, uses, attempt, toolVars, cur, hasErrored, aborted,
                 interruptible, passes, draining, at, waitSet, emitted>>

(* addTool: a tool the definitions lack is completed at once with an       *)
(* error; otherwise it is queued and a processQueue pass runs up to its    *)
(* first await.  getCompletedResults follows.                              *)
AddUnknownTool ==
  /\ MicrotasksDrained
  /\ pc = "useHeld" /\ aborted = "none"
  /\ ~kind[uses].known
  /\ status' = [status EXCEPT ![uses] = "completed"]
  /\ results' = [results EXCEPT ![uses] = <<"error">>]
  /\ pc' = "collect"
  /\ at' = 0
  /\ UNCHANGED <<kind, uses, attempt, phase, pending, ticks, cur, hasErrored,
                 aborted, interruptible, passes, draining, waitSet, emitted>>

AddTool ==
  /\ MicrotasksDrained
  /\ pc = "useHeld" /\ aborted = "none"
  /\ kind[uses].known
  /\ LET st == [status EXCEPT ![uses] = "queued"]
         next == NextStart(st, MembersOf(cur), 0)
     IN  \/ /\ next = {}
            /\ status' = st
            /\ UNCHANGED <<results, phase, interruptible, passes>>
         \/ \E j \in next : StartTool(st, [passes EXCEPT ![cur][j] = @ + 1], cur, j)
  /\ pc' = "collect"
  /\ at' = 0
  /\ UNCHANGED <<kind, uses, attempt, pending, ticks, cur, hasErrored,
                 aborted, draining, waitSet, emitted>>

(* A message without tool_use block: getCompletedResults alone, when it has *)
(* something to yield.                                                     *)
StreamOther ==
  /\ MicrotasksDrained
  /\ pc = "stream" /\ aborted = "none"
  /\ NextOffer(0) # {}
  /\ pc' = "collect"
  /\ at' = 0
  /\ UNCHANGED <<kind, uses, attempt, toolVars, cur, hasErrored, aborted,
                 interruptible, passes, draining, waitSet, emitted>>

(* Streaming fallback, or a fallback model: the executor is discarded and  *)
(* replaced.  discard() only sets a flag: no signal is aborted.            *)
Fallback ==
  /\ MicrotasksDrained
  /\ pc = "stream"
  /\ cur < MaxAttempts
  /\ cur' = cur + 1
  /\ UNCHANGED <<kind, uses, attempt, toolVars, hasErrored, aborted,
                 interruptible, passes, consumerVars>>

(* The response is complete, or ended by the abort: getRemainingResults.   *)
StreamEnd ==
  /\ MicrotasksDrained
  /\ pc = "stream"
  /\ draining' = TRUE
  /\ pc' = LoopTop
  /\ at' = 0
  /\ UNCHANGED <<kind, uses, attempt, toolVars, cur, hasErrored, aborted,
                 interruptible, passes, waitSet, emitted>>

------------------------------------------------------------------------------
(* The consumer inside the executor's generators *)

(* getCompletedResults yields a progress message, or the results of a      *)
(* completed tool, and is suspended at the yield.  From "resultHeld" the   *)
(* step is a macrotask.                                                    *)
Collecting == pc = "collect" \/ (pc = "resultHeld" /\ MicrotasksDrained)

YieldProgress ==
  /\ Collecting
  /\ \E i \in NextOffer(at) :
       /\ pending[i] > 0
       /\ pending' = [pending EXCEPT ![i] = @ - 1]
       /\ at' = i - 1
  /\ pc' = "resultHeld"
  /\ UNCHANGED <<kind, uses, attempt, status, phase, results, ticks, cur,
                 hasErrored, aborted, interruptible, passes, draining,
                 waitSet, emitted>>

(* Mutant of YieldResults: the tool is not marked as yielded. *)
YieldResultsUnmarked ==
  /\ Collecting
  /\ \E i \in NextOffer(at) :
       /\ pending[i] = 0
       /\ emitted' = Append(emitted, i)
       /\ at' = i
  /\ pc' = "resultHeld"
  /\ UNCHANGED <<kind, uses, attempt, toolVars, cur, hasErrored, aborted,
                 interruptible, passes, draining, waitSet>>

YieldResults ==
  /\ Collecting
  /\ \E i \in NextOffer(at) :
       /\ pending[i] = 0
       /\ status' = [status EXCEPT ![i] = "yielded"]
       /\ emitted' = Append(emitted, i)
       /\ at' = i
  /\ pc' = "resultHeld"
  /\ UNCHANGED <<kind, uses, attempt, phase, results, pending, ticks, cur,
                 hasErrored, aborted, interruptible, passes, draining, waitSet>>

CollectEnd ==
  /\ Collecting
  /\ NextOffer(at) = {}
  /\ pc' = IF draining THEN "drainCheck" ELSE "stream"
  /\ at' = 0
  /\ UNCHANGED <<kind, uses, attempt, toolVars, cur, hasErrored, aborted,
                 interruptible, passes, draining, waitSet, emitted>>

(* await this.processQueue(), then getCompletedResults.                    *)
DrainScan ==
  /\ pc = "drainScan"
  /\ LET next == NextStart(status, MembersOf(cur), at)
     IN  \/ /\ next = {}
            /\ pc' = "collect"
            /\ at' = 0
            /\ UNCHANGED <<status, results, phase, interruptible, passes>>
         \/ \E j \in next :
              /\ StartTool(status, passes, cur, j)
              /\ at' = j
              /\ UNCHANGED pc
  /\ UNCHANGED <<kind, uses, attempt, pending, ticks, cur, hasErrored,
                 aborted, draining, waitSet, emitted>>

(* Mutant of DrainCheck: hasCompletedResults is not looked at. *)
DrainCheckHasty ==
  /\ pc = "drainCheck"
  /\ IF /\ Has(status, cur, "executing")
        /\ \A i \in MembersOf(cur) : pending[i] = 0
       THEN /\ pc' = "drainWait"
            /\ waitSet' = {i \in MembersOf(cur) : status[i] = "executing"}
       ELSE /\ pc' = LoopTop
            /\ UNCHANGED waitSet
  /\ UNCHANGED <<kind, uses, attempt, toolVars, cur, hasErrored, aborted,
                 interruptible, passes, draining, at, emitted>>

(* Mutant of DrainCheck: the loop never waits for a tool. *)
DrainCheckBusy ==
  /\ pc = "drainCheck"
  /\ pc' = LoopTop
  /\ UNCHANGED <<kind, uses, attempt, toolVars, cur, hasErrored, aborted,
                 interruptible, passes, draining, at, waitSet, emitted>>

(* Wait only if a tool executes, none is completed and no progress pends;  *)
(* otherwise go round the loop without awaiting anything but processQueue. *)
DrainCheck ==
  /\ pc = "drainCheck"
  /\ IF /\ Has(status, cur, "executing")
        /\ ~Has(status, cur, "completed")
        /\ \A i \in MembersOf(cur) : pending[i] = 0
       THEN /\ pc' = "drainWait"
            /\ waitSet' = {i \in MembersOf(cur) : status[i] = "executing"}
       ELSE /\ pc' = LoopTop
            /\ UNCHANGED waitSet
  /\ UNCHANGED <<kind, uses, attempt, toolVars, cur, hasErrored, aborted,
                 interruptible, passes, draining, at, emitted>>

DrainWake ==
  /\ pc = "drainWait"
  /\ Woken
  /\ pc' = LoopTop
  /\ waitSet' = {}
  /\ UNCHANGED <<kind, uses, attempt, toolVars, cur, hasErrored, aborted,
                 interruptible, passes, draining, at, emitted>>

------------------------------------------------------------------------------
(* The executor's own microtasks *)

(* A processQueue pass of executor e goes on after the await at tool c.    *)
ResumePass(e, c) ==
  /\ passes[e][c] > 0
  /\ LET ps == [passes EXCEPT ![e][c] = @ - 1]
         next == NextStart(status, MembersOf(e), c)
     IN  \/ /\ next = {}
            /\ passes' = ps
            /\ UNCHANGED <<status, results, phase, interruptible>>
         \/ \E j \in next : StartTool(status, [ps EXCEPT ![e][j] = @ + 1], e, j)
  /\ UNCHANGED <<kind, uses, attempt, pending, ticks, cur, hasErrored,
                 aborted, consumerVars>>

(* runToolUse answers with an error without leaving the microtask queue.   *)
ToolRefused(i) ==
  /\ status[i] = "executing" /\ phase[i] = "refused"
  /\ Receive(i, "error", FALSE)
  /\ UNCHANGED <<kind, uses, attempt, pending, ticks, cur, aborted, consumerVars>>

(* Mutant of ToolTail: thisToolErrored is not looked at. *)
ToolTailUnguarded(i) ==
  /\ status[i] = "executing" /\ phase[i] = "tail"
  /\ CompleteTool(i, IF AbortReason(i) # "none"
                     THEN Append(results[i], AbortReason(i)) ELSE results[i])
  /\ UNCHANGED <<kind, uses, attempt, pending, ticks, cur, hasErrored,
                 aborted, consumerVars>>

(* The update after the tool_result: a cancelled tool gets a synthetic     *)
(* error here too, unless it produced an error itself (thisToolErrored).   *)
ToolTail(i) ==
  /\ status[i] = "executing" /\ phase[i] = "tail"
  /\ CompleteTool(i, IF AbortReason(i) # "none" /\ results[i] # <<"error">>
                     THEN Append(results[i], AbortReason(i)) ELSE results[i])
  /\ UNCHANGED <<kind, uses, attempt, pending, ticks, cur, hasErrored,
                 aborted, consumerVars>>

------------------------------------------------------------------------------
(* Tools and the user (macrotasks) *)

Running(i) == status[i] = "executing" /\ phase[i] = "run"

ToolAnswers(i) ==
  /\ MicrotasksDrained
  /\ Running(i)
  /\ \E r \in {"ok", "error"}, extra \in BOOLEAN : Receive(i, r, extra)
  /\ UNCHANGED <<kind, uses, attempt, pending, ticks, cur, aborted, consumerVars>>

ToolProgress(i) ==
  /\ MicrotasksDrained
  /\ Running(i)
  /\ ticks[i] < MaxProgress
  /\ ticks' = [ticks EXCEPT ![i] = @ + 1]
  /\ IF AbortReason(i) # "none"
       THEN CompleteTool(i, <<AbortReason(i)>>) /\ UNCHANGED pending
       ELSE /\ pending' = [pending EXCEPT ![i] = @ + 1]
            /\ UNCHANGED <<status, phase, results, interruptible, passes>>
  /\ UNCHANGED <<kind, uses, attempt, cur, hasErrored, aborted, consumerVars>>

(* Rejecting a permission dialog aborts the tool's own controller, which   *)
(* bubbles up to the query's unless the executor is discarded or the       *)
(* signal was aborted already.                                             *)
RejectPermission(i) ==
  /\ MicrotasksDrained
  /\ Running(i)
  /\ ~Discarded(attempt[i]) /\ ~SignalAborted(attempt[i])
  /\ aborted' = "user"
  /\ UNCHANGED <<kind, uses, attempt, toolVars, cur, hasErrored,
                 interruptible, passes, consumerVars>>

(* Escape aborts the turn.  A new message submitted while only cancellable *)
(* tools run, or any message of priority 'now', interrupts it.             *)
AbortTurn ==
  /\ MicrotasksDrained
  /\ pc # "done"
  /\ aborted = "none"
  /\ \/ aborted' = "user"
     \/ (interruptible \/ NowMessages) /\ aborted' = "interrupt"
  /\ UNCHANGED <<kind, uses, attempt, toolVars, cur, hasErrored,
                 interruptible, passes, consumerVars>>

QueryLoop == StreamToolUse \/ StreamOther \/ SkipAddTool \/ AddUnknownTool \/ AddTool
             \/ Fallback \/ StreamEnd
Consumer == YieldProgress \/ YieldResults \/ CollectEnd \/ DrainScan
            \/ DrainCheck \/ DrainWake
ToolStep(i) == ToolRefused(i) \/ ToolTail(i) \/ ToolAnswers(i)
Passes == \E e \in Attempts, c \in 0..MaxTools : ResumePass(e, c)

(* The turn is over and every tool has settled. *)
Finished ==
  /\ pc = "done"
  /\ MicrotasksDrained
  /\ \A i \in Tools : status[i] # "executing"
  /\ UNCHANGED vars

Next ==
  \/ QueryLoop
  \/ Consumer
  \/ Passes
  \/ \E i \in Tools : ToolStep(i) \/ ToolProgress(i) \/ RejectPermission(i)
  \/ AbortTurn
  \/ Finished

Spec == Init /\ [][Next]_vars

(* Every promise continuation runs, the stream ends, whoever iterates      *)
(* query() resumes it, and every tool call ends (tools have timeouts).     *)
Fairness ==
  /\ WF_vars(QueryLoop)
  /\ WF_vars(Consumer)
  /\ WF_vars(Passes)
  /\ \A i \in Tools : WF_vars(ToolStep(i))

FairSpec == Spec /\ Fairness

------------------------------------------------------------------------------
TypeOK ==
  /\ kind \in [Tools -> Kinds]
  /\ uses \in 0..MaxTools
  /\ attempt \in [Tools -> Attempts]
  /\ status \in [Tools -> Statuses]
  /\ phase \in [Tools -> Phases]
  /\ results \in [Tools -> Seq(ResultKinds)]
  /\ pending \in [Tools -> Nat]
  /\ ticks \in [Tools -> Nat]
  /\ cur \in Attempts
  /\ hasErrored \in [Attempts -> BOOLEAN]
  /\ aborted \in {"none", "user", "interrupt"}
  /\ interruptible \in BOOLEAN
  /\ passes \in [Attempts -> [0..MaxTools -> Nat]]
  /\ pc \in ConsumerPoints
  /\ draining \in BOOLEAN
  /\ at \in 0..MaxTools
  /\ waitSet \subseteq Tools
  /\ emitted \in Seq(Tools)
------------------------------------------------------------------------------
(* Safety *)

Executing(e) == {i \in MembersOf(e) : status[i] = "executing"}
Started(i) == status[i] \notin {"absent", "queued"}

(* A tool that is not concurrency safe runs alone among the tools of its   *)
(* executor, whichever of the suspended processQueue calls started it.     *)
ExclusiveAccess ==
  \A e \in Attempts : \A i, j \in Executing(e) : i # j => Safe(i) /\ Safe(j)

(* While an exclusive tool waits in the queue, no tool received after it   *)
(* has been started, although a processQueue call that is past it may be   *)
(* resumed at any time.                                                    *)
NoOvertaking ==
  \A e \in Attempts : \A i, j \in MembersOf(e) :
    (i < j /\ status[i] = "queued" /\ ~Safe(i))
      => ~Started(j) \/ ~kind[j].known

(* A tool that has finished carries exactly one tool_result, synthetic or  *)
(* its own, whatever cancelled it and whenever.                            *)
OneResultPerTool ==
  \A i \in Tools : status[i] \in {"completed", "yielded"} => Len(results[i]) = 1

(* getRemainingResults never sleeps on while a completed tool or a         *)
(* progress message is there to be yielded.                                *)
NoLostWakeup ==
  (pc = "drainWait" /\ \E i \in MembersOf(cur) : Offers(i)) => Woken

(* When the turn ends, every tool given to the live executor has been      *)
(* yielded, no tool was yielded twice and no progress message is left      *)
(* behind in a yielded tool.                                               *)
AllResultsDelivered ==
  /\ pc = "done" => \A i \in MembersOf(cur) :
                      status[i] # "absent" => \E n \in DOMAIN emitted : emitted[n] = i
  /\ \A n, m \in DOMAIN emitted : n # m => emitted[n] # emitted[m]
  /\ \A i \in Tools : status[i] = "yielded" => pending[i] = 0

(* The result of an exclusive tool is emitted before that of any tool      *)
(* received after it.                                                      *)
ExclusiveResultsInOrder ==
  \A e \in Attempts : \A i, j \in MembersOf(e) :
    (i < j /\ ~Safe(i) /\ status[j] = "yielded") => status[i] = "yielded"

------------------------------------------------------------------------------
(* Action properties *)

(* After a fallback or a Bash error, the tools of that executor that have  *)
(* no result yet never begin to run and end with one synthetic error       *)
(* (discard: "Queued tools won't start, and in-progress tools will receive *)
(* synthetic errors").                                                     *)
CancelledToolsStop ==
  [][\A i \in Tools :
       (/\ status[i] \in {"queued", "executing"}
        /\ results[i] = <<>>
        /\ Discarded(attempt[i]) \/ hasErrored[attempt[i]])
       => /\ status'[i] = "executing" => status[i] = "executing"
          /\ status'[i] = "completed" => results'[i] \in {<<s>> : s \in Synthetic}]_vars

(* Submitting a message interrupts the turn only while every executing     *)
(* tool may be cancelled (the comment in getAbortReason: "'block' tools    *)
(* shouldn't reach here (abort isn't fired)").                             *)
InterruptSparesBlocking ==
  [][(aborted = "none" /\ aborted' = "interrupt")
       => \A i \in Tools : status[i] = "executing" => kind[i].cancel]_vars

------------------------------------------------------------------------------
(* Liveness *)

(* The turn ends once the response has: "Wait for remaining tools and      *)
(* yield their results as they complete" (getRemainingResults).            *)
TurnEnds == draining ~> (pc = "done")

------------------------------------------------------------------------------
(* What the comments promise and the code does not do *)

(* "Non-concurrent tools must execute alone (exclusive access)" (class     *)
(* comment), read for the tools of the whole turn.                         *)
ExclusiveAcrossFallback ==
  \A i, j \in Tools :
    (i # j /\ status[i] = "executing" /\ status[j] = "executing") => Safe(i) /\ Safe(j)
=============================================================================
