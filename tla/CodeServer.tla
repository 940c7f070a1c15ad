----------------------------- MODULE CodeServer -----------------------------
(***************************************************************************)
(* A session of gclm-code-server: the bridge that runs every turn in a CLI *)
(* process of its own (execution/localCliExecutionBridge.ts), the rows of  *)
(* the session, its permission requests and its channel events in SQLite,  *)
(* the web API (app/createApp.ts) and the adapter through which Feishu     *)
(* delivers messages (channels/feishu/feishuAdapter.ts).                   *)
(*                                                                         *)
(* Handlers run on one thread and SQLite calls are synchronous, so a step  *)
(* is a handler up to the receipt it awaits, one line of a child's output, *)
(* an 'exit' or 'error' event, or a restart of the server.  A child is     *)
(* external: it is modelled by what the bridge can see of it.  Its 'exit'  *)
(* may come before the last lines of its output.  Sessions share no state, *)
(* so there is one; it exists from the start, as ensureChannelBinding or   *)
(* POST /sessions inserts it.  Text events and what subscribers of the     *)
(* stream make of them are left out.                                       *)
(***************************************************************************)
EXTENDS Naturals, Sequences, SequencesExt

CONSTANTS
  Events,      \* Feishu messages, by event id
  Requests,    \* permission request ids
  Children,    \* bound: processes whose state or output is not forgotten yet
  None,        \* no child; input from the web
  MaxLines,    \* bound: lines of a child that the server has not read
  MaxHandlers, \* bound: deliveries of one event that await their receipt
  MaxRestarts  \* bound: restarts of the server

ASSUME ConstantsAssumption ==
  /\ MaxLines \in Nat /\ MaxHandlers \in Nat /\ MaxRestarts \in Nat
  /\ None \notin Children \cup Events

Results == {"success", "error"}
Lines == [type : {"result"}, subtype : Results]
           \cup [type : {"control_request", "control_cancel_request"}, request_id : Requests]

VARIABLES
  session,       \* its row: status, and whether archived_at is set
  activeProcess, \* activeProcesses.get(session.id)
  started,       \* startedSessions.has(session.id)
  child,         \* child[c]: a CLI process
  conversation,  \* whether the transcript of executionSessionRef exists
  permissions,   \* permissions[r]: the status of its row, "none" without one
  idempotency,   \* idempotency[e]: the status of its row, "none" without one
  handling,      \* handling[e]: deliveries that await their receipt
  restarts,      \* restarts of the server so far
  executions,    \* history, executions[e]: processes that took the prompt of e, up to 2
  cutShort       \* history: a process ended before it took arguments that fitted

history == <<executions, cutShort>>

rows == <<permissions, idempotency>>
vars == <<session, activeProcess, started, child, conversation, rows, handling,
          restarts, history>>

(* state: "starting" until it has taken its arguments, "working" while it  *)
(* runs the turn, "finished" once it wrote its result.  attached: the      *)
(* server that spawned it still listens.  event: the message its prompt is *)
(* from, None when it is from the web.                                     *)
Gone == [state |-> "gone", attached |-> FALSE, resume |-> FALSE, event |-> None,
         lines |-> <<>>]
Started(e) == [state |-> "starting", attached |-> TRUE, resume |-> started, event |-> e,
               lines |-> <<>>]

(* Whether the CLI takes the arguments of c: --session-id must name a new  *)
(* conversation, --resume an existing one.                                 *)
Fitting(c) == child[c].resume = conversation

Alive(c) == child[c].state \notin {"gone", "exited"}
Attached(c) == child[c].attached

Init ==
  /\ session = [status |-> "waiting_input", archived |-> FALSE]
  /\ activeProcess = None /\ started = FALSE
  /\ child = [c \in Children |-> Gone]
  /\ conversation = FALSE
  /\ permissions = [r \in Requests |-> "none"]
  /\ idempotency = [e \in Events |-> "none"]
  /\ handling = [e \in Events |-> 0]
  /\ restarts = 0
  /\ executions = [e \in Events |-> 0] /\ cutShort = FALSE

------------------------------------------------------------------------------
(* The bridge *)

UpdateStatus(status) == session' = [session EXCEPT !.status = status]

(* A child that exited is forgotten when its output is read, and what it   *)
(* was started with once it has left that state.                           *)
SetChild(c, record) ==
  child' = [child EXCEPT ![c] =
    CASE record.state = "exited" /\ record.lines = <<>> -> Gone
      [] record.state = "starting" -> record
      [] OTHER -> [record EXCEPT !.resume = FALSE, !.event = None]]

(* Mutant of Spawn: nobody asks whether a process is active. *)
SpawnUnchecked(c, e) ==
  /\ child[c] = Gone
  /\ UpdateStatus("running")
  /\ activeProcess' = c
  /\ started' = TRUE
  /\ SetChild(c, Started(e))

(* Mutant of Spawn: startedSessions does not learn of the session. *)
SpawnForgets(c, e) ==
  /\ activeProcess = None
  /\ child[c] = Gone
  /\ UpdateStatus("running")
  /\ activeProcess' = c
  /\ UNCHANGED started
  /\ SetChild(c, Started(e))

(* submitInput with the prompt of e, when nothing is executing.  spawn may *)
(* throw (an argument that is too long or holds a zero byte): the row says *)
(* "running" by then.                                                      *)
Spawn(c, e) ==
  /\ activeProcess = None
  /\ child[c] = Gone
  /\ UpdateStatus("running")
  /\ activeProcess' = c
  /\ started' = TRUE
  /\ SetChild(c, Started(e))

SpawnThrows ==
  /\ activeProcess = None
  /\ UpdateStatus("running")
  /\ UNCHANGED <<activeProcess, started, child>>

(* POST /sessions/:id/input and the initialInput of POST /sessions.  It is *)
(* refused, and nothing changes, while a process is active.                *)
WebInput ==
  /\ SpawnThrows \/ \E c \in Children : Spawn(c, None)
  /\ UNCHANGED <<conversation, rows, handling, restarts, history>>

(* finalizeTurn, also of an archived session. *)
FinalizeTurn(status) == UpdateStatus(status)

(* handlePermissionRequest: the insert of a known id fails silently.       *)
HandlePermissionRequest(r) ==
  permissions' = [permissions EXCEPT ![r] = IF @ = "none" THEN "pending" ELSE @]

CancelPermission(r) ==
  permissions' = [permissions EXCEPT ![r] = IF @ = "none" THEN @ ELSE "cancelled"]

HandleStdoutLine(c) ==
  /\ child[c].attached /\ child[c].lines # <<>>
  /\ SetChild(c, [child[c] EXCEPT !.lines = Tail(@)])
  /\ LET line == Head(child[c].lines)
     IN  \/ /\ line.type = "result"
            /\ FinalizeTurn(IF line.subtype = "success" THEN "waiting_input" ELSE "failed")
            /\ UNCHANGED permissions
         \/ /\ line.type = "control_request"
            /\ HandlePermissionRequest(line.request_id)
            /\ UNCHANGED session
         \/ /\ line.type = "control_cancel_request"
            /\ CancelPermission(line.request_id)
            /\ UNCHANGED session
  /\ UNCHANGED <<activeProcess, started, conversation, idempotency, handling, restarts,
                 history>>

(* What 'exit' does besides telling subscribers: the row is not touched,   *)
(* and it is the session's process that is deleted, whichever c is.        *)
ProcessExited(c) == activeProcess' = None

(* A child exits: at the end of its turn, on the SIGTERM of interrupt,     *)
(* because it refuses its arguments, or because it fails.                  *)
Exit(c) ==
  /\ Alive(c)
  /\ SetChild(c, [child[c] EXCEPT !.state = "exited"])
  /\ IF Attached(c) THEN ProcessExited(c) ELSE UNCHANGED activeProcess
  /\ cutShort' = (cutShort \/ (child[c].state = "starting" /\ Fitting(c)))
  /\ UNCHANGED <<session, started, conversation, rows, handling, restarts, executions>>

(* 'error': the process could not be spawned. *)
SpawnError(c) ==
  /\ child[c].state = "starting" /\ Attached(c)
  /\ child' = [child EXCEPT ![c] = Gone]
  /\ activeProcess' = None
  /\ FinalizeTurn("failed")
  /\ cutShort' = (cutShort \/ Fitting(c))
  /\ UNCHANGED <<started, conversation, rows, handling, restarts, executions>>

------------------------------------------------------------------------------
(* The CLI process *)

(* It takes its arguments and puts the prompt into the transcript: only by *)
(* that is a message executed.                                             *)
AcceptArguments(c) ==
  /\ child[c].state = "starting" /\ Fitting(c)
  /\ SetChild(c, [child[c] EXCEPT !.state = "working"])
  /\ conversation' = TRUE
  /\ executions' = [e \in Events |->
       IF e = child[c].event /\ executions[e] < 2 THEN executions[e] + 1 ELSE executions[e]]
  /\ UNCHANGED <<session, activeProcess, started, rows, handling, restarts, cutShort>>

(* The lines of a turn that the server reads.  A conversation that cannot  *)
(* be resumed is answered with a result as well.                           *)
Write(c, line) ==
  /\ Attached(c)
  /\ Len(child[c].lines) < MaxLines
  /\ \/ child[c].state = "working"
     \/ /\ child[c].state = "starting" /\ child[c].resume /\ ~conversation
        /\ line = [type |-> "result", subtype |-> "error"]
  /\ SetChild(c, [child[c] EXCEPT
       !.lines = Append(@, line),
       !.state = IF line.type = "result" THEN "finished" ELSE @])
  /\ UNCHANGED <<session, activeProcess, started, conversation, rows, handling, restarts,
                 history>>

------------------------------------------------------------------------------
(* Feishu: a message is delivered again as long as it was not answered *)

(* Mutant of IsDuplicate: the key of the event is never looked up. *)
IsDuplicateNever(e) == FALSE

IsDuplicate(e) == idempotency[e] = "processed"

(* handleEvent, up to the receipt, which is awaited.  submitInput may      *)
(* throw, because a process is active or because spawn does: the row stays *)
(* at "processing" then, and Feishu gets no answer.                        *)
Deliver(e) ==
  /\ ~IsDuplicate(e)
  /\ idempotency' = [idempotency EXCEPT ![e] = "processing"]
  /\ UNCHANGED <<conversation, permissions, restarts, history>>

DeliverSpawns(e) ==
  /\ Deliver(e)
  /\ handling[e] < MaxHandlers
  /\ \E c \in Children : Spawn(c, e)
  /\ handling' = [handling EXCEPT ![e] = @ + 1]

DeliverFails(e) ==
  /\ Deliver(e)
  /\ \/ SpawnThrows
     \/ activeProcess # None /\ UNCHANGED <<session, activeProcess, started, child>>
  /\ UNCHANGED handling

(* The receipt was sent. *)
Receipt(e) ==
  /\ handling[e] > 0
  /\ handling' = [handling EXCEPT ![e] = @ - 1]
  /\ idempotency' = [idempotency EXCEPT ![e] = "processed"]
  /\ UNCHANGED <<session, activeProcess, started, child, conversation, permissions,
                 restarts, history>>

(* Sending it failed, and handleEvent throws. *)
ReceiptFails(e) ==
  /\ handling[e] > 0
  /\ handling' = [handling EXCEPT ![e] = @ - 1]
  /\ UNCHANGED <<session, activeProcess, started, child, conversation, rows,
                 restarts, history>>

------------------------------------------------------------------------------
(* POST /sessions/:id/archive, which does not ask whether a turn runs. *)
Archive ==
  /\ session' = [status |-> "archived", archived |-> TRUE]
  /\ UNCHANGED <<activeProcess, started, child, conversation, rows, handling,
                 restarts, history>>

(* The server stops and starts again.  Its children may outlive it, but    *)
(* nobody reads their output any more.                                     *)
Restart ==
  /\ restarts < MaxRestarts
  /\ restarts' = restarts + 1
  /\ activeProcess' = None /\ started' = FALSE
  /\ \E survivors \in SUBSET {c \in Children : Alive(c)} :
       child' = [c \in Children |->
         IF c \in survivors
         THEN [child[c] EXCEPT !.attached = FALSE, !.lines = <<>>]
         ELSE Gone]
  /\ handling' = [e \in Events |-> 0]
  /\ UNCHANGED <<session, conversation, rows, history>>

Next ==
  \/ WebInput
  \/ \E c \in Children :
       \/ HandleStdoutLine(c) \/ Exit(c) \/ SpawnError(c)
       \/ AcceptArguments(c)
       \/ \E line \in Lines : Write(c, line)
  \/ \E e \in Events : DeliverSpawns(e) \/ DeliverFails(e) \/ Receipt(e) \/ ReceiptFails(e)
  \/ Archive
  \/ Restart

Spec == Init /\ [][Next]_vars

(* The event loop delivers what a child wrote and its exit; every turn     *)
(* ends; Feishu repeats a message until it is answered, and neither it nor *)
(* spawn fails for ever.                                                   *)
FairSpec ==
  /\ Spec
  /\ \A c \in Children : WF_vars(HandleStdoutLine(c)) /\ WF_vars(Exit(c))
  /\ \A e \in Events : SF_vars(DeliverSpawns(e)) /\ SF_vars(Receipt(e))

------------------------------------------------------------------------------
(* Properties *)

ChildRecord ==
  [state : {"gone", "starting", "working", "finished", "exited"},
   attached : BOOLEAN, resume : BOOLEAN, event : Events \cup {None}, lines : Seq(Lines)]

(* Every variable holds a value of its kind. *)
TypeOK ==
  /\ session \in [status : {"waiting_input", "running", "failed", "archived"},
                  archived : BOOLEAN]
  /\ activeProcess \in Children \cup {None}
  /\ started \in BOOLEAN
  /\ child \in [Children -> ChildRecord]
  /\ conversation \in BOOLEAN
  /\ permissions \in [Requests -> {"none", "pending", "cancelled"}]
  /\ idempotency \in [Events -> {"none", "processing", "processed"}]
  /\ handling \in [Events -> Nat]
  /\ restarts \in Nat
  /\ executions \in [Events -> 0..2] /\ cutShort \in BOOLEAN

(* A process that runs a turn under this server is the one activeProcesses *)
(* holds: interrupt reaches it, and no second turn runs beside it in the   *)
(* same conversation, although the map forgets a process by its session.   *)
OneExecution ==
  \A c \in Children : Attached(c) /\ Alive(c) <=> c = activeProcess

(* Until the server restarts, a turn of a conversation that exists is      *)
(* started with --resume: the CLI refuses --session-id for it.             *)
LaterTurnsResume ==
  [][\A c \in Children :
       /\ child[c] = Gone /\ child'[c].state = "starting"
       /\ conversation /\ restarts = 0
       => child'[c].resume]_vars

(* As long as the server was not restarted and no process ended before it  *)
(* took its arguments, the CLI takes those of every turn: startedSessions  *)
(* and the transcript agree.                                               *)
ArgumentsFit ==
  restarts = 0 /\ ~cutShort =>
    \A c \in Children : child[c].state = "starting" => Fitting(c)

(* A message whose delivery was answered is never started again and never  *)
(* forgotten, whatever deliveries of it are still under way and whether or *)
(* not the server restarts.                                                *)
ProcessedForever ==
  [][\A e \in Events : idempotency[e] = "processed" =>
       /\ idempotency'[e] = "processed"
       /\ \A c \in Children : child[c] = Gone /\ child'[c] # Gone => child'[c].event # e]_vars

(* A message that was recorded is in the end answered, whatever turns of   *)
(* others, failed receipts and restarts come between; and a process takes  *)
(* it as the prompt of its turn.  Only a restart, after which the CLI      *)
(* refuses the conversation, or a process that ends too early excuses the  *)
(* latter: a message is then answered all the same (AnsweredIsExecuted).   *)
EventServed ==
  \A e \in Events :
    idempotency[e] # "none" ~>
      /\ idempotency[e] = "processed"
      /\ executions[e] > 0 \/ restarts > 0 \/ cutShort

------------------------------------------------------------------------------
(* What the design promises and the code does not do *)

(* A message is executed once, however often it is delivered: the record   *)
(* of channel events is there against repeated deliveries.                 *)
EventExecutedOnce == \A e \in Events : executions[e] <= 1

(* A message that was answered is executed.                                *)
AnsweredIsExecuted ==
  \A e \in Events : idempotency[e] = "processed" ~> executions[e] > 0

(* A result is applied to the row before the next turn is started.         *)
ResultOfTheTurn ==
  [][\A c \in Children :
       HandleStdoutLine(c) /\ Head(child[c].lines).type = "result"
       => activeProcess \in {c, None}]_vars
=============================================================================
