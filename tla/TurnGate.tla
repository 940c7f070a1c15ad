------------------------------ MODULE TurnGate ------------------------------
(***************************************************************************)
(* The gate through which every turn of the terminal interface passes: the *)
(* state machine of utils/QueryGuard.ts, the command queue of              *)
(* utils/messageQueueManager.ts, the processor that empties it between     *)
(* turns (utils/queueProcessor.ts, hooks/useQueueProcessor.ts), the chain  *)
(* executeUserInput -> onQuery of utils/handlePromptSubmit.ts and          *)
(* screens/REPL.tsx, the cancel key, and the drain of the queue by a       *)
(* running query (query.ts).                                               *)
(*                                                                         *)
(* A step is what runs between two awaits that wait for something outside  *)
(* (a command, a hook, the model); awaits on resolved promises end before  *)
(* the next key press or render.  React renders and runs the effects of    *)
(* the render in one step.  A command is identified by the order in which  *)
(* it is handed in, and a chain by its first command; a chain's abort      *)
(* controller has the same name.  Only one query of a chain is modelled:   *)
(* what the model and the tools do in it is not.                           *)
(***************************************************************************)
EXTENDS Naturals, Sequences, FiniteSets, SequencesExt

CONSTANTS
  MaxCommands,  \* bound: commands handed in
  MaxCancels,   \* bound: times the user cancels
  Typed,        \* what the user may submit
  Posted,       \* what others may put into the queue
  Incomings,    \* what may be offered to handleIncomingPrompt
  Outcomes      \* what becomes of processing a command: see InputDone

Commands == 1..MaxCommands
Null == 0

(* A queued command.  slash: it begins with '/'; agent: it has an agentId; *)
(* meta: isMeta; text: it is more than images; copy: queued by onQuery     *)
(* from the text of a message.                                             *)
Kind == [mode: {"prompt", "bash", "task-notification"}, slash: BOOLEAN,
         priority: 0..2, agent: BOOLEAN, meta: BOOLEAN, text: BOOLEAN]
Entry == [cmd: Commands, kind: Kind, copy: BOOLEAN]

ASSUME ConstantsAssumption ==
  /\ MaxCommands \in Nat /\ MaxCancels \in Nat
  /\ Typed \cup Posted \cup Incomings \subseteq Kind
  /\ Outcomes \subseteq {"query", "local", "nothing", "throws"}

VARIABLES
  status, generation,  \* QueryGuard
  queue,       \* commandQueue
  controller,  \* the abort controller the interface holds, or Null
  aborted,     \* controllers that were aborted
  chain,       \* chain[c]: where it is, what it executes
  jsx,         \* whether the interface of a local command is shown
  rendered,    \* what the last render saw: whether the guard was active, jsx, whether the queue is unchanged
  handedIn,    \* commands handed in so far
  cancels,     \* times the user cancelled
  settled      \* commands in the transcript, back in the input box, taken by a drain,
               \* refused or skipped (history)

guard == <<status, generation>>
vars == <<guard, queue, controller, aborted, chain, jsx, rendered, handedIn, cancels, settled>>

NoChain == [pc |-> "none", entries |-> <<>>, generation |-> 0, direct |-> FALSE, drain |-> {}]

InputChain(entries) ==
  [pc |-> "input", entries |-> entries, generation |-> 0, direct |-> FALSE, drain |-> {}]

Init ==
  /\ status = "idle" /\ generation = 0
  /\ queue = <<>>
  /\ controller = Null /\ aborted = {}
  /\ chain = [c \in Commands |-> NoChain]
  /\ jsx = FALSE
  /\ rendered = [active |-> FALSE, queue |-> TRUE, jsx |-> FALSE]
  /\ handedIn = 0 /\ cancels = 0
  /\ settled = {}

------------------------------------------------------------------------------
(* The command queue *)

Cmds(entries) == {e.cmd : e \in Range(entries)}

(* Array.filter: the entries of s that are in S, and those that are not.    *)
Kept(s, S) ==
  LET F[n \in 0..Len(s)] ==
        IF n = 0 THEN <<>>
        ELSE IF s[n] \in S THEN Append(F[n - 1], s[n]) ELSE F[n - 1]
  IN  F[Len(s)]

Without(s, S) == Kept(s, Range(s) \ S)

IsMainThread(e) == ~e.kind.agent
IsEditable(e) == e.kind.mode # "task-notification" /\ ~e.kind.meta

(* peek: the first of the highest priority among the entries at the        *)
(* positions allowed, if any.                                              *)
Peek(at) ==
  {queue[i] : i \in {j \in at : \A k \in at :
     \/ queue[j].kind.priority < queue[k].kind.priority
     \/ queue[j].kind.priority = queue[k].kind.priority /\ j <= k}}

MainThread == {i \in DOMAIN queue : IsMainThread(queue[i])}

(* Every write of the queue notifies its subscribers. *)
SetQueue(q) ==
  /\ queue' = q
  /\ rendered' = IF q = queue THEN rendered ELSE [rendered EXCEPT !.queue = FALSE]

Put(entries) == SetQueue(queue \o entries)

------------------------------------------------------------------------------
(* QueryGuard *)

Reserve == status' = IF status = "idle" THEN "dispatching" ELSE status

(* cancelReservation, in a step that leaves the guard at s before it. *)
Unreserved(s) == IF s = "dispatching" THEN "idle" ELSE s

------------------------------------------------------------------------------
(* Mutant of Execute: processUserInput is awaited before the reservation. *)
ExecuteUnreserved(entries, hit) ==
  LET c == entries[1].cmd
  IN  /\ controller' = c
      /\ aborted' = (aborted \cup hit) \ {c}
      /\ chain' = [chain EXCEPT ![c] = InputChain(entries)]
      /\ UNCHANGED status

(* executeUserInput, up to the first await of processUserInput; in the     *)
(* same step the controllers in hit are aborted.                           *)
Execute(entries, hit) ==
  LET c == entries[1].cmd
  IN  /\ controller' = c
      /\ aborted' = (aborted \cup hit) \ {c}
      /\ chain' = [chain EXCEPT ![c] = InputChain(entries)]
      /\ Reserve

HandIn ==
  /\ handedIn < MaxCommands
  /\ handedIn' = handedIn + 1

(* handlePromptSubmit: what is typed during a turn is queued, and          *)
(* interrupts the turn if its tools allow that; so it is while the         *)
(* interface shows something else loading (isExternalLoading).             *)
Submit(k) ==
  LET e == [cmd |-> handedIn + 1, kind |-> k, copy |-> FALSE]
  IN  /\ HandIn
      /\ \/ /\ Put(<<e>>)
            /\ \/ UNCHANGED aborted
               \/ controller # Null /\ aborted' = aborted \cup {controller}
            /\ UNCHANGED <<guard, controller, chain>>
         \/ /\ status = "idle"
            /\ Execute(<<e>>, {})
            /\ UNCHANGED <<generation, queue, rendered>>
      /\ UNCHANGED <<jsx, cancels, settled>>

(* enqueue and enqueuePendingNotification, by tasks, timers and clients.   *)
Post(k) ==
  /\ HandIn
  /\ Put(<<[cmd |-> handedIn + 1, kind |-> k, copy |-> FALSE]>>)
  /\ UNCHANGED <<guard, controller, aborted, chain, jsx, cancels, settled>>

------------------------------------------------------------------------------
(* onQuery *)

(* tryStart succeeds: c runs with a generation of its own.                 *)
Start(c, entries, direct) ==
  /\ status' = "running" /\ generation' = generation + 1
  /\ chain' = [chain EXCEPT ![c] = [pc |-> "query", entries |-> entries,
                 generation |-> generation + 1, direct |-> direct, drain |-> {}]]
  /\ settled' = settled \cup Cmds(entries)

(* The end of executeUserInput, with q in the queue: a slash command may   *)
(* have asked for another input to be submitted (nextInput).               *)
FollowUp ==
  [mode |-> "prompt", slash |-> FALSE, priority |-> 1, agent |-> FALSE, meta |-> FALSE, text |-> TRUE]

Leave(c, q) ==
  \/ SetQueue(q) /\ UNCHANGED handedIn
  \/ /\ chain[c].entries[1].kind.slash
     /\ HandIn
     /\ SetQueue(Append(q, [cmd |-> handedIn + 1, kind |-> FollowUp, copy |-> FALSE]))

(* tryStart fails: the texts that are not meta are queued as prompts, and  *)
(* the others skipped.                                                     *)
Copied(entries) ==
  [i \in DOMAIN entries |->
     [cmd |-> entries[i].cmd, kind |-> FollowUp, copy |-> TRUE]]

Requeue(c) ==
  LET skipped == {e \in Range(chain[c].entries) : e.kind.meta \/ ~e.kind.text}
  IN  /\ Leave(c, queue \o Copied(Without(chain[c].entries, skipped)))
      /\ settled' = settled \cup {e.cmd : e \in skipped}
      /\ chain' = [chain EXCEPT ![c] = NoChain]
      /\ UNCHANGED <<guard, controller>>

(* handleIncomingPrompt: a message of a teammate begins a turn without     *)
(* executeUserInput, unless something typed waits.                         *)
Incoming(k) ==
  LET e == [cmd |-> handedIn + 1, kind |-> k, copy |-> FALSE]
  IN  /\ HandIn
      /\ status = "idle"
      /\ \A i \in DOMAIN queue : queue[i].kind.mode \notin {"prompt", "bash"}
      /\ controller' = e.cmd
      /\ Start(e.cmd, <<e>>, TRUE)
      /\ UNCHANGED <<queue, aborted, jsx, rendered, cancels>>

Settle(c) ==
  /\ chain' = [chain EXCEPT ![c] = NoChain]
  /\ settled' = settled \cup Cmds(chain[c].entries)

(* processUserInput is done: with messages for the model ("query"), with   *)
(* messages but nothing to ask ("local"), without messages, or it threw.   *)
(* The chain goes on whether or not it was cancelled meanwhile.            *)
InputDone(c) ==
  /\ chain[c].pc = "input"
  /\ \E outcome \in Outcomes :
       \/ /\ outcome \in {"query", "local"} /\ status = "running"
          /\ Requeue(c)
       \/ /\ outcome = "query" /\ status # "running"
          /\ Start(c, chain[c].entries, FALSE)
          /\ UNCHANGED <<queue, rendered, controller, handedIn>>
       \/ /\ outcome = "local" /\ status # "running"
          /\ status' = "idle" /\ generation' = generation + 1
          /\ controller' = Null
          /\ Leave(c, queue)
          /\ Settle(c)
       \/ /\ outcome = "nothing"
          /\ status' = Unreserved(status)
          /\ controller' = Null
          /\ Leave(c, queue)
          /\ Settle(c)
          /\ UNCHANGED generation
       \/ /\ outcome = "throws"
          /\ status' = Unreserved(status)
          /\ Settle(c)
          /\ UNCHANGED <<generation, controller, queue, rendered, handedIn>>
  /\ UNCHANGED <<aborted, jsx, cancels>>

(* Mutant of QueryEnd: end does not compare generations. *)
QueryEndAny(c) ==
  LET current == status = "running"
      ended == IF current THEN "idle" ELSE status
  IN  /\ chain[c].pc = "query" /\ chain[c].drain = {}
      /\ status' = IF chain[c].direct THEN ended ELSE Unreserved(ended)
      /\ controller' = IF current THEN Null ELSE controller
      /\ chain' = [chain EXCEPT ![c] = NoChain]
      /\ Leave(c, queue)
      /\ UNCHANGED <<generation, aborted, jsx, cancels, settled>>

(* The query of c ends: the finally of onQuery, and that of                *)
(* executeUserInput unless the turn came without it.                       *)
QueryEnd(c) ==
  LET current == status = "running" /\ chain[c].generation = generation
      ended == IF current THEN "idle" ELSE status
  IN  /\ chain[c].pc = "query" /\ chain[c].drain = {}
      /\ status' = IF chain[c].direct THEN ended ELSE Unreserved(ended)
      /\ controller' = IF current THEN Null ELSE controller
      /\ chain' = [chain EXCEPT ![c] = NoChain]
      /\ Leave(c, queue)
      /\ UNCHANGED <<generation, aborted, jsx, cancels, settled>>

------------------------------------------------------------------------------
(* The drain in mid turn (query.ts): commands are read, turned into        *)
(* attachments, which waits, and then removed by identity.                 *)

Drainable(e, sleepRan) ==
  /\ IsMainThread(e) /\ ~e.kind.slash /\ e.kind.mode # "bash"
  /\ e.kind.priority <= IF sleepRan THEN 2 ELSE 1

DrainBegins(c) ==
  /\ chain[c].pc = "query" /\ chain[c].drain = {} /\ c \notin aborted
  /\ \E sleepRan \in BOOLEAN :
       LET found == {e \in Range(queue) : Drainable(e, sleepRan)}
       IN  found # {} /\ chain' = [chain EXCEPT ![c].drain = found]
  /\ UNCHANGED <<guard, queue, controller, aborted, jsx, rendered, handedIn, cancels, settled>>

(* Mutant of DrainEnds: the queue is read a second time for the removal. *)
DrainEndsRereading(c) ==
  /\ chain[c].drain # {}
  /\ SetQueue(Without(queue, {e \in Range(queue) : Drainable(e, FALSE)}))
  /\ settled' = settled \cup {e.cmd : e \in chain[c].drain}
  /\ chain' = [chain EXCEPT ![c].drain = {}]
  /\ UNCHANGED <<guard, controller, aborted, jsx, handedIn, cancels>>

DrainEnds(c) ==
  /\ chain[c].drain # {}
  /\ SetQueue(Without(queue, chain[c].drain))
  /\ settled' = settled \cup {e.cmd : e \in chain[c].drain}
  /\ chain' = [chain EXCEPT ![c].drain = {}]
  /\ UNCHANGED <<guard, controller, aborted, jsx, handedIn, cancels>>

(* The loop of a subagent takes the notifications addressed to it.         *)
AgentDrains ==
  LET found == {e \in Range(queue) : ~IsMainThread(e) /\ e.kind.mode = "task-notification"}
  IN  /\ found # {}
      /\ SetQueue(Without(queue, found))
      /\ settled' = settled \cup {e.cmd : e \in found}
      /\ UNCHANGED <<guard, controller, aborted, chain, jsx, handedIn, cancels>>

------------------------------------------------------------------------------
(* The user interface *)

(* A local command shows an interface of its own over the prompt, once it  *)
(* is loaded, and takes it away when the user is done with it.             *)
ToggleJsx ==
  /\ jsx' = ~jsx
  /\ UNCHANGED <<guard, queue, controller, aborted, chain, rendered, handedIn, cancels, settled>>

(* Escape with a task to cancel: onCancel. *)
Cancel ==
  /\ ~jsx
  /\ cancels < MaxCancels
  /\ controller # Null /\ controller \notin aborted
  /\ cancels' = cancels + 1
  /\ status' = "idle"
  /\ generation' = IF status = "idle" THEN generation ELSE generation + 1
  /\ aborted' = aborted \cup {controller}
  /\ controller' = Null
  /\ UNCHANGED <<queue, chain, jsx, rendered, handedIn, settled>>

(* Escape with nothing to cancel, or the up arrow: popAllEditable.         *)
Pop ==
  LET editable == {e \in Range(queue) : IsEditable(e)}
  IN  /\ ~jsx
      /\ editable # {}
      /\ SetQueue(Without(queue, editable))
      /\ settled' = settled \cup {e.cmd : e \in editable}
      /\ UNCHANGED <<guard, controller, aborted, chain, jsx, handedIn, cancels>>

(* Mutant of Batch: bash commands are batched like prompts. *)
BatchOfMode(first) ==
  IF first.kind.slash THEN <<first>>
  ELSE Kept(queue, {e \in Range(queue) :
         IsMainThread(e) /\ ~e.kind.slash /\ e.kind.mode = first.kind.mode})

(* processQueueIfReady: a slash or bash command alone, others with all of  *)
(* the same mode, in the order of the queue.                               *)
Batch(first) ==
  IF first.kind.slash \/ first.kind.mode = "bash" THEN <<first>>
  ELSE Kept(queue, {e \in Range(queue) :
         IsMainThread(e) /\ ~e.kind.slash /\ e.kind.mode = first.kind.mode})

(* Mutant of ProcessQueue: it peeks at commands of subagents too. *)
ProcessQueueUnfiltered(hit) ==
  \E first \in Peek(DOMAIN queue) :
    IF Batch(first) = <<>>
    THEN /\ rendered' = [active |-> FALSE, queue |-> TRUE, jsx |-> FALSE]
         /\ UNCHANGED <<status, queue, controller, aborted, chain>>
    ELSE /\ Execute(Batch(first), hit)
         /\ queue' = Without(queue, Range(Batch(first)))
         /\ rendered' = [active |-> FALSE, queue |-> FALSE, jsx |-> FALSE]

ProcessQueue(hit) ==
  \E first \in Peek(MainThread) :
    /\ Execute(Batch(first), hit)
    /\ queue' = Without(queue, Range(Batch(first)))
    /\ rendered' = [active |-> FALSE, queue |-> FALSE, jsx |-> FALSE]

(* A render after the guard, the queue or the interface changed, and its   *)
(* effects: the queue processor, unless a local command has the screen,    *)
(* then the interruption by 'now' commands, which sees the controller of   *)
(* the render.                                                             *)
Render ==
  LET active == status # "idle"
      seen == [active |-> active, queue |-> TRUE, jsx |-> jsx]
      ready == ~active /\ ~jsx /\ Peek(MainThread) # {}
      urgent == ~rendered.queue /\ \E e \in Range(queue) : e.kind.priority = 0
      hit == IF urgent THEN {controller} \ {Null} ELSE {}
  IN  /\ rendered # seen
      /\ \/ /\ ready
            /\ ProcessQueue(hit)
         \/ /\ ~ready
            /\ rendered' = seen
            /\ aborted' = aborted \cup hit
            /\ UNCHANGED <<status, queue, controller, chain>>
      /\ UNCHANGED <<generation, jsx, handedIn, cancels, settled>>

Next ==
  \/ \E k \in Typed : Submit(k)
  \/ \E k \in Posted : Post(k)
  \/ \E k \in Incomings : Incoming(k)
  \/ \E c \in Commands : InputDone(c) \/ QueryEnd(c) \/ DrainBegins(c) \/ DrainEnds(c)
  \/ AgentDrains \/ ToggleJsx \/ Cancel \/ Pop \/ Render

Spec == Init /\ [][Next]_vars

(* Processing and queries end, attachments are made, and React renders     *)
(* what changed.                                                           *)
FairSpec ==
  /\ Spec
  /\ WF_vars(Render)
  /\ \A c \in Commands : WF_vars(InputDone(c)) /\ WF_vars(QueryEnd(c)) /\ WF_vars(DrainEnds(c))
------------------------------------------------------------------------------
(* "Bash commands need per-command error isolation, exit codes, and        *)
(* progress UI", and slash commands are processed one by one.              *)
BatchIsUniform(entries) ==
  Len(entries) > 1 => \A e \in Range(entries) :
    ~e.kind.slash /\ e.kind.mode # "bash" /\ e.kind.mode = entries[1].kind.mode

TypeOK ==
  /\ status \in {"idle", "dispatching", "running"} /\ generation \in Nat
  /\ queue \in Seq(Entry)
  /\ controller \in {Null} \cup Commands /\ aborted \subseteq Commands
  /\ chain \in [Commands -> [pc: {"none", "input", "query"}, entries: Seq(Entry),
                             generation: Nat, direct: BOOLEAN, drain: SUBSET Entry]]
  /\ jsx \in BOOLEAN /\ rendered \in [active: BOOLEAN, queue: BOOLEAN, jsx: BOOLEAN]
  /\ handedIn \in 0..MaxCommands /\ cancels \in 0..MaxCancels
  /\ settled \subseteq 1..handedIn
  /\ \A c \in Commands : /\ chain[c].pc = "none" <=> chain[c].entries = <<>>
                         /\ chain[c].drain # {} => chain[c].pc = "query"
                         /\ BatchIsUniform(chain[c].entries)

Live == {c \in Commands : chain[c].pc # "none"}

(* The guard is held by somebody who will release it, whatever was         *)
(* cancelled: it is running exactly while the query of the current         *)
(* generation runs, and dispatching only while some input is processed.    *)
GuardIsHeld ==
  /\ status = "running" <=> \E c \in Commands :
       chain[c].pc = "query" /\ chain[c].generation = generation
  /\ \A c, d \in Live : (chain[c].pc = "query" /\ chain[c].generation = chain[d].generation) => c = d
  /\ status = "dispatching" => \E c \in Commands : chain[c].pc = "input"

(* What was handed in is in the queue, with a chain that still works on    *)
(* it, or settled: no command falls between the queue, the processor, the  *)
(* drain and a lost race for the gate (which does skip a prompt of images  *)
(* alone).                                                                 *)
NothingLost ==
  \A c \in 1..handedIn :
    \/ c \in settled \/ c \in Cmds(queue)
    \/ \E d \in Live : c \in Cmds(chain[d].entries)

(* "queryGuard guarantees no concurrent executeUserInput call": so it is   *)
(* until the user cancels, and the interface holds the controller of the   *)
(* one chain.                                                              *)
OneChainUntilCancel ==
  cancels = 0 => /\ Cardinality(Live) <= 1
                 /\ \A c \in Live : controller = c /\ status # "idle"

(* A command of the main thread leaves the queue in the end, or a local    *)
(* command has the screen: no subagent's command in front of it, no lost   *)
(* render and no cancelled chain stalls the processor.                     *)
Queued(c) == \E i \in DOMAIN queue : queue[i].cmd = c /\ IsMainThread(queue[i])

QueueServed == \A c \in Commands : Queued(c) ~> ~Queued(c) \/ jsx

(* forceEnd is "used by onCancel where any running query should be         *)
(* terminated": once the guard is idle no query runs that was not aborted. *)
CancelTerminates ==
  status = "idle" => \A c \in Commands : chain[c].pc = "query" => c \in aborted
=============================================================================
