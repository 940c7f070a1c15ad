-------------------------- MODULE PermissionPrompts --------------------------
(***************************************************************************)
(* Permission prompts of a headless session (cli/structuredIO.ts) and the  *)
(* session state they report (utils/sessionState.ts).                      *)
(*                                                                         *)
(* The tools of a turn ask in parallel.  A prompt races a permission hook, *)
(* the answer of the host (the SDK consumer, or claude.ai by the bridge),  *)
(* the abort of the turn and the end of the input.  An answer may arrive   *)
(* twice, late, or in the next life of the process: one that no request    *)
(* waits for is replayed from the transcript (cli/print.ts, "orphaned      *)
(* permission").                                                           *)
(***************************************************************************)
EXTENDS Integers, Sequences, FiniteSets, Functions

CONSTANTS
    Tools,        \* the tool uses that need a permission
    NoTool,
    WithHooks,    \* whether PermissionRequest hooks are configured
    MaxResolved,  \* MAX_RESOLVED_TOOL_USE_IDS
    MaxCopies,    \* how often the transport delivers an answer
    MaxCrashes    \* how often the process dies and is resumed

ASSUME PromptsAssumption ==
    /\ NoTool \notin Tools /\ IsFiniteSet(Tools)
    /\ WithHooks \in BOOLEAN
    /\ MaxResolved \in Nat \ {0} /\ MaxCopies \in Nat \ {0} /\ MaxCrashes \in Nat

VARIABLES
    turn,      \* what run() is executing: nothing, a prompt, or an orphaned permission
    aborted,   \* the abort signal of the turn
    call,      \* where the canUseTool call of each tool stands
    deaf,      \* prompts that were opened after the abort: their listener never fires
    pending,   \* pendingRequests
    resolved,  \* resolvedToolUseIds, oldest first
    handled,   \* handledOrphanedToolUseIds
    orphans,   \* the orphaned permissions in the command queue
    hooks,     \* tools whose hook still runs
    granted,   \* tools whose hook has added its permission rules
    winner,    \* who decided a call: the host (or an error), or the hook
    state,     \* currentState of sessionState.ts
    shown,     \* external_metadata.pending_action, NoTool when it is null
    closed,    \* inputClosed
    sent,      \* requests the host has been sent and has not answered
    wire,      \* for each tool, the copies of the host's answer on their way
    results,   \* for each tool use, the tool_results in the transcript
    crashes

process == <<turn, aborted, call, deaf, pending, resolved, handled, orphans,
             hooks, winner, state, shown, closed>>
vars == <<process, granted, sent, wire, results, crashes>>

(* A call is not made yet, checks the rules, waits for an answer, has one    *)
(* that its coroutine has not seen, runs the tool (or its refusal), or has   *)
(* written its result.  A call that a crash has interrupted is lost.         *)
Phases == {"new", "checking", "asked", "settled", "running", "finished", "lost"}

Init ==
    /\ turn = "none" /\ aborted = FALSE
    /\ call = [t \in Tools |-> "new"]
    /\ deaf = {} /\ pending = {} /\ resolved = <<>> /\ handled = {}
    /\ orphans = <<>> /\ hooks = {} /\ granted = {}
    /\ winner = [t \in Tools |-> "none"]
    /\ state = "idle" /\ shown = NoTool /\ closed = FALSE
    /\ sent = {} /\ wire = [t \in Tools |-> 0]
    /\ results = [t \in Tools |-> 0]
    /\ crashes = 0

-----------------------------------------------------------------------------
(* Helpers *)

(* notifySessionStateChanged: the pending action is set with the details of  *)
(* a prompt and cleared by the next notification without any.                *)
Notify(s, t) == state' = s /\ shown' = t

(* trackResolvedToolUseId: the oldest is evicted when there are too many.    *)
Track(known, t) ==
    IF t \in Range(known) THEN known
    ELSE IF Len(known) < MaxResolved THEN Append(known, t)
    ELSE Tail(Append(known, t))

(* The same for one tool after the other. *)
TrackAll(known, ts) ==
    LET tracked[n \in 0..Len(ts)] ==
            IF n = 0 THEN known ELSE Track(tracked[n - 1], ts[n])
    IN  tracked[Len(ts)]

(* The orders in which the listeners of a set of tools may have been added. *)
Orders(S) == {order \in [1..Cardinality(S) -> S] : Range(order) = S}

(* Mutant of Finally: the prompts beside this one are not looked at. *)
FinallyRuns(requests) == Notify("running", NoTool)

(* The finally block of canUseTool. *)
Finally(requests) ==
    IF requests = {} THEN Notify("running", NoTool) ELSE UNCHANGED <<state, shown>>

(* findUnresolvedToolUse: the tool was asked for, and has no result. *)
Unresolved(t) == call[t] \notin {"new", "checking"} /\ results[t] = 0

-----------------------------------------------------------------------------
(* The turn *)

(* run() with a prompt. *)
StartTurn ==
    /\ turn = "none" /\ ~closed
    /\ \E t \in Tools : call[t] = "new"
    /\ turn' = "prompt"
    /\ Notify("running", NoTool)
    /\ UNCHANGED <<aborted, call, deaf, pending, resolved, handled, orphans, hooks,
                   granted, winner, closed, sent, wire, results, crashes>>

(* The executor starts a tool; hasPermissionsToUseTool finds the signal clear. *)
Check(t) ==
    /\ turn = "prompt" /\ ~aborted /\ call[t] = "new"
    /\ call' = [call EXCEPT ![t] = "checking"]
    /\ UNCHANGED <<turn, aborted, deaf, pending, resolved, handled, orphans, hooks,
                   granted, winner, state, shown, closed, sent, wire, results, crashes>>

(* The rules decide, or the check fails: nobody is asked. *)
DecideByRule(t) ==
    /\ call[t] = "checking"
    /\ call' = [call EXCEPT ![t] = "running"]
    /\ UNCHANGED <<turn, aborted, deaf, pending, resolved, handled, orphans, hooks,
                   granted, winner, state, shown, closed, sent, wire, results, crashes>>

(* Mutant of Ask: a request is sent although the input has ended. *)
AskClosed(t) ==
    /\ call[t] = "checking"
    /\ call' = [call EXCEPT ![t] = "asked"]
    /\ hooks' = IF WithHooks THEN hooks \union {t} ELSE hooks
    /\ Notify("requires_action", t)
    /\ deaf' = IF aborted THEN deaf \union {t} ELSE deaf
    /\ pending' = pending \union {t} /\ sent' = sent \union {t}
    /\ UNCHANGED <<turn, aborted, resolved, handled, orphans, granted, winner,
                   closed, wire, results, crashes>>

(* The rules say ask: the hook starts, the state is reported, and the        *)
(* request is sent, which fails at once when the input has ended.  The       *)
(* listener is added to a signal that may have fired during the check.       *)
Ask(t) ==
    /\ call[t] = "checking"
    /\ hooks' = IF WithHooks THEN hooks \union {t} ELSE hooks
    /\ Notify("requires_action", t)
    /\ deaf' = IF aborted THEN deaf \union {t} ELSE deaf
    /\ IF closed
       THEN /\ call' = [call EXCEPT ![t] = "settled"]
            /\ UNCHANGED <<pending, sent>>
       ELSE /\ call' = [call EXCEPT ![t] = "asked"]
            /\ pending' = pending \union {t} /\ sent' = sent \union {t}
    /\ UNCHANGED <<turn, aborted, resolved, handled, orphans, granted, winner,
                   closed, wire, results, crashes>>

(* The finally block of sendRequest, after its promise was settled. *)
Forget(t) ==
    /\ t \in pending /\ call[t] # "asked"
    /\ pending' = pending \ {t}
    /\ UNCHANGED <<turn, aborted, call, deaf, resolved, handled, orphans, hooks,
                   granted, winner, state, shown, closed, sent, wire, results, crashes>>

(* canUseTool goes on with the settled request. *)
Resume(t) ==
    /\ call[t] = "settled" /\ t \notin pending
    /\ call' = [call EXCEPT ![t] = "running"]
    /\ winner' = [winner EXCEPT ![t] = "host"]
    /\ Finally(pending)
    /\ UNCHANGED <<turn, aborted, deaf, pending, resolved, handled, orphans, hooks,
                   granted, closed, sent, wire, results, crashes>>

(* The hook allows, with rules to add, which it adds itself.  If its promise *)
(* wins the race the request is aborted, and the finally block runs in the   *)
(* same step, before the request has left pendingRequests.                   *)
HookAllows(t) ==
    /\ t \in hooks
    /\ hooks' = hooks \ {t}
    /\ granted' = granted \union {t}
    /\ IF call[t] \in {"asked", "settled"}
       THEN /\ call' = [call EXCEPT ![t] = "running"]
            /\ winner' = [winner EXCEPT ![t] = "hook"]
            /\ resolved' = IF t \in pending THEN Track(resolved, t) ELSE resolved
            /\ Finally(pending)
       ELSE UNCHANGED <<call, winner, resolved, state, shown>>
    /\ UNCHANGED <<turn, aborted, deaf, pending, handled, orphans, closed, sent,
                   wire, results, crashes>>

(* The hook has no opinion, or fails. *)
HookPasses(t) ==
    /\ t \in hooks
    /\ hooks' = hooks \ {t}
    /\ UNCHANGED <<turn, aborted, call, deaf, pending, resolved, handled, orphans,
                   granted, winner, state, shown, closed, sent, wire, results, crashes>>

(* The tool has run, or was refused: its result is in the transcript. *)
Finish(t) ==
    /\ call[t] = "running" /\ t \notin pending
    /\ call' = [call EXCEPT ![t] = "finished"]
    /\ results' = [results EXCEPT ![t] = @ + 1]
    /\ UNCHANGED <<turn, aborted, deaf, pending, resolved, handled, orphans, hooks,
                   granted, winner, state, shown, closed, sent, wire, crashes>>

(* run() drains its queue before it reports that it is idle: the next        *)
(* orphaned permission is executed without a report.                         *)
Drain(queue) ==
    /\ aborted' = FALSE
    /\ IF queue = <<>>
       THEN turn' = "none" /\ Notify("idle", NoTool)
       ELSE turn' = "orphan" /\ UNCHANGED <<state, shown>>

(* The executor has waited for the calls it started. *)
EndTurn ==
    /\ turn = "prompt"
    /\ \A t \in Tools : call[t] \in {"new", "finished", "lost"}
    /\ Drain(orphans)
    /\ UNCHANGED <<call, deaf, pending, resolved, handled, orphans, hooks, granted,
                   winner, closed, sent, wire, results, crashes>>

(* An orphaned permission is taken from the queue: the tool runs with the    *)
(* decision that came with it, and its result is recorded.                   *)
StartOrphan ==
    /\ turn = "none" /\ orphans # <<>>
    /\ turn' = "orphan"
    /\ Notify("running", NoTool)
    /\ UNCHANGED <<aborted, call, deaf, pending, resolved, handled, orphans, hooks,
                   granted, winner, closed, sent, wire, results, crashes>>

(* A tool that the session does not have any more leaves no result.          *)
FinishOrphan ==
    /\ turn = "orphan"
    /\ \/ results' = [results EXCEPT ![Head(orphans)] = @ + 1]
       \/ UNCHANGED results
    /\ orphans' = Tail(orphans)
    /\ Drain(Tail(orphans))
    /\ UNCHANGED <<call, deaf, pending, resolved, handled, hooks, granted, winner,
                   closed, sent, wire, crashes>>

-----------------------------------------------------------------------------
(* The host and the input *)

(* The host answers a request it was sent, even one it is told to cancel. *)
HostAnswers(t, copies) ==
    /\ t \in sent
    /\ sent' = sent \ {t}
    /\ wire' = [wire EXCEPT ![t] = copies]
    /\ UNCHANGED <<process, granted, results, crashes>>

(* The answer settles a request that waits for it.  If the request was       *)
(* aborted and is not forgotten yet, the second settlement has no effect.    *)
Settle(t) ==
    /\ t \in pending
    /\ resolved' = Track(resolved, t)
    /\ pending' = pending \ {t}
    /\ call' = IF call[t] = "asked" THEN [call EXCEPT ![t] = "settled"] ELSE call
    /\ UNCHANGED <<handled, orphans>>

Ignore(t) ==
    /\ t \notin pending
    /\ t \in Range(resolved) \/ t \in handled \/ ~Unresolved(t)
    /\ UNCHANGED <<resolved, pending, call, handled, orphans>>

(* handleOrphanedPermissionResponse *)
Enqueue(t) ==
    /\ t \notin pending /\ t \notin Range(resolved)
    /\ t \notin handled /\ Unresolved(t)
    /\ handled' = handled \union {t}
    /\ orphans' = Append(orphans, t)
    /\ UNCHANGED <<resolved, pending, call>>

(* processLine with a control_response.  The bridge's injectControlResponse  *)
(* does the first of these, and drops an answer that nothing waits for.      *)
Respond(t) ==
    /\ wire[t] > 0 /\ ~closed
    /\ wire' = [wire EXCEPT ![t] = @ - 1]
    /\ Settle(t) \/ Ignore(t) \/ Enqueue(t)
    /\ UNCHANGED <<turn, aborted, deaf, hooks, granted, winner, state, shown,
                   closed, sent, results, crashes>>

(* Mutant of Abort: the rejected prompts are not tracked as resolved. *)
AbortUntracked ==
    /\ turn # "none" /\ ~aborted
    /\ aborted' = TRUE
    /\ call' = [t \in Tools |-> IF call[t] = "asked" /\ t \notin deaf
                                THEN "settled" ELSE call[t]]
    /\ UNCHANGED <<turn, deaf, pending, resolved, handled, orphans, hooks, granted,
                   winner, state, shown, closed, sent, wire, results, crashes>>

(* The turn is interrupted: each prompt that listens is rejected. *)
Abort ==
    /\ turn # "none" /\ ~aborted
    /\ aborted' = TRUE
    /\ LET reached == {t \in Tools : call[t] = "asked"} \ deaf
       IN  /\ call' = [t \in Tools |-> IF t \in reached THEN "settled" ELSE call[t]]
           /\ \E order \in Orders(reached) : resolved' = TrackAll(resolved, order)
    /\ UNCHANGED <<turn, deaf, pending, handled, orphans, hooks, granted, winner,
                   state, shown, closed, sent, wire, results, crashes>>

(* Mutant of CloseInput: what is pending is dropped, not rejected. *)
CloseInputDrops ==
    /\ ~closed
    /\ closed' = TRUE /\ pending' = {}
    /\ UNCHANGED <<turn, aborted, call, deaf, resolved, handled, orphans, hooks,
                   granted, winner, state, shown, sent, wire, results, crashes>>

(* The input ends: what is pending is rejected. *)
CloseInput ==
    /\ ~closed
    /\ closed' = TRUE
    /\ call' = [t \in Tools |-> IF t \in pending /\ call[t] = "asked"
                                THEN "settled" ELSE call[t]]
    /\ UNCHANGED <<turn, aborted, deaf, pending, resolved, handled, orphans, hooks,
                   granted, winner, state, shown, sent, wire, results, crashes>>

(* The process dies and the session is resumed from its transcript; the new  *)
(* worker clears the state and the pending action of the old one.            *)
Crash ==
    /\ crashes < MaxCrashes
    /\ crashes' = crashes + 1
    /\ turn' = "none" /\ aborted' = FALSE
    /\ call' = [t \in Tools |-> CASE call[t] \in {"asked", "settled", "running"} -> "lost"
                                  [] call[t] = "checking" -> "new"
                                  [] OTHER -> call[t]]
    /\ deaf' = {} /\ pending' = {} /\ resolved' = <<>> /\ handled' = {}
    /\ orphans' = <<>> /\ hooks' = {} /\ closed' = FALSE
    /\ Notify("idle", NoTool)
    /\ UNCHANGED <<granted, winner, sent, wire, results>>

-----------------------------------------------------------------------------
CallStep(t) ==
    \/ Check(t) \/ DecideByRule(t) \/ Ask(t) \/ Forget(t) \/ Resume(t)
    \/ HookAllows(t) \/ HookPasses(t) \/ Finish(t)

Next ==
    \/ StartTurn \/ EndTurn \/ StartOrphan \/ FinishOrphan
    \/ \E t \in Tools : CallStep(t) \/ Respond(t)
    \/ \E t \in Tools, copies \in 1..MaxCopies : HostAnswers(t, copies)
    \/ Abort \/ CloseInput \/ Crash

(* What the process has begun it goes on with; the host answers, and its     *)
(* answers arrive.                                                           *)
Fairness ==
    /\ WF_vars(EndTurn) /\ WF_vars(FinishOrphan)
    /\ \A t \in Tools :
          /\ WF_vars(DecideByRule(t) \/ Ask(t)) /\ WF_vars(Forget(t))
          /\ WF_vars(Resume(t)) /\ WF_vars(Finish(t))
          /\ WF_vars(Respond(t)) /\ WF_vars(HostAnswers(t, 1))

Spec == Init /\ [][Next]_vars
FairSpec == Spec /\ Fairness

-----------------------------------------------------------------------------
(* Properties *)

(* The types of the state; and who waits for an answer can be found in       *)
(* pendingRequests, by the answer and by the end of the input.               *)
TypeOK ==
    /\ turn \in {"none", "prompt", "orphan"} /\ aborted \in BOOLEAN
    /\ call \in [Tools -> Phases]
    /\ \A t \in Tools : call[t] = "asked" => t \in pending
    /\ deaf \subseteq Tools /\ pending \subseteq Tools /\ handled \subseteq Tools
    /\ hooks \subseteq Tools /\ granted \subseteq Tools
    /\ resolved \in Seq(Tools) /\ Len(resolved) <= MaxResolved
    /\ orphans \in Seq(Tools)
    /\ winner \in [Tools -> {"none", "host", "hook"}]
    /\ state \in {"idle", "running", "requires_action"}
    /\ shown \in Tools \union {NoTool}
    /\ closed \in BOOLEAN
    /\ sent \subseteq Tools /\ wire \in [Tools -> 0..MaxCopies] /\ results \in [Tools -> Nat]
    /\ crashes \in 0..MaxCrashes

(* A tool use gets one result: an answer that comes twice, after the hook or *)
(* the abort has settled the prompt, or in a later life of the process, is   *)
(* never both used by the prompt and replayed from the transcript.           *)
OneResult == \A t \in Tools : results[t] <= 1

(* While a prompt waits for the host the session is reported as blocked,     *)
(* whatever becomes of the prompts beside it.                                *)
PromptIsShown ==
    (\E t \in Tools : call[t] = "asked") => state = "requires_action"

(* Between turns the session is reported as idle and nothing is pending.     *)
IdleBetweenTurns ==
    turn = "none" => state = "idle" /\ shown = NoTool /\ pending = {}

(* A turn ends: no prompt is left without an answer when the input closes,   *)
(* the turn is aborted, or an answer and a hook arrive together.             *)
TurnEnds == turn # "none" ~> turn = "none"

(* What the code does not promise after all: each is violated in a run.      *)

(* The session is blocked only as long as a prompt is open: when no request  *)
(* is pending, a call that has its answer is about to report 'running'.      *)
BlockedIsAsked ==
    state = "requires_action" /\ pending = {} => \E t \in Tools : call[t] = "settled"

(* The action that is shown as pending is one that is still asked for.       *)
ShownIsAsked == shown # NoTool => closed \/ call[shown] \in {"asked", "settled"}

(* A hook that loses the race against the host's answer has no effect.       *)
LoserIgnored == \A t \in granted : closed \/ winner[t] # "host"

(* No prompt stays open in a turn that was aborted.                          *)
AbortForwarded == aborted => \A t \in Tools : call[t] # "asked"
=============================================================================
