------------------------- MODULE SessionServerProofs -------------------------
(***************************************************************************)
(* Proofs about the session as a server runs it (CodeServer) and shows it  *)
(* (WorkerState), for any number of processes, messages and reports.       *)
(*                                                                         *)
(* The processes of a session: the typing, that the one process that runs  *)
(* a turn is the one the bridge knows, that later turns resume, and that   *)
(* an answered message stays answered.  OneExecution is inductive with the *)
(* typing: a process is forgotten only when it is not alive any more, and  *)
(* the bridge forgets the session's process only when that one exits.      *)
(* That later turns resume needs the history of the bridge: before a       *)
(* restart, whoever has a process, or had one that accepted its arguments, *)
(* is in startedSessions.  And that the CLI takes the arguments of a turn  *)
(* (Fitness) needs that startedSessions holds exactly the sessions that    *)
(* have a transcript or a process about to write one (FitInv).             *)
(*                                                                         *)
(* What is shown of a session: for every session, also one that reports    *)
(* before initialize() has returned, the typing, and that the last report  *)
(* is shown when nothing is left to send, of every settled field: one that *)
(* initialize() can overwrite no more.  For each of them the record, with  *)
(* the patches under way applied to it, agrees with the last report; and   *)
(* currentState is that state, which is why dropping a state that repeats  *)
(* it loses nothing.                                                       *)
(*                                                                         *)
(* For a session whose callers await initialize(): that the server shows a *)
(* moment of it, and never goes back to an earlier one (the refinement of  *)
(* SessionMirror).  The argument is what a patch carries: from every       *)
(* moment between the one that is shown and the last one that went into    *)
(* it, the patch being sent leads to the latter, so that it does not       *)
(* matter how often a PUT that failed was applied.  Patches that meet in   *)
(* the pending slot, or in a retry, carry from the beginning of the first  *)
(* to the end of the second.                                               *)
(***************************************************************************)
EXTENDS CodeServer, WorkerState, FiniteSetTheorems, WellFoundedInduction, TLAPS

------------------------------------------------------------------------------
(* The processes of a session *)

(* startedSessions knows every session that ever had a process. *)
StartedIsKnown ==
  restarts = 0 => started \/ (~conversation /\ \A c \in Children : child[c] = Gone)

ServerInv == TypeOK /\ OneExecution /\ StartedIsKnown

ChildSteps(c) ==
  \/ HandleStdoutLine(c) \/ Exit(c) \/ SpawnError(c)
  \/ AcceptArguments(c)
  \/ \E line \in Lines : Write(c, line)

EventSteps(e) ==
  DeliverSpawns(e) \/ DeliverFails(e) \/ Receipt(e) \/ ReceiptFails(e)

LEMMA GoneIsAChild == Gone \in ChildRecord /\ ~Gone.attached /\ Gone.state = "gone"
  BY DEF Gone, ChildRecord

LEMMA ChildFields ==
  ASSUME NEW r \in ChildRecord
  PROVE  /\ r.state \in {"gone", "starting", "working", "finished", "exited"}
         /\ r.lines \in Seq(Lines) /\ r.attached \in BOOLEAN
  BY DEF ChildRecord

(* What SetChild leaves. *)
LEMMA SetChildIs ==
  ASSUME TypeOK, NEW c \in Children, NEW record \in ChildRecord, SetChild(c, record)
  PROVE  /\ child' \in [Children -> ChildRecord]
         /\ \/ /\ child'[c].state = record.state
               /\ child'[c].attached = record.attached
               /\ child'[c].lines = record.lines
            \/ child'[c] = Gone /\ record.state = "exited"
         /\ record.state = "starting" => child'[c] = record
         /\ \A d \in Children \ {c} : child'[d] = child[d]
<1> DEFINE rest == [record EXCEPT !.resume = FALSE, !.event = None]
<1>1. /\ rest \in ChildRecord /\ rest.state = record.state
      /\ rest.attached = record.attached /\ rest.lines = record.lines
  BY DEF ChildRecord
<1>2. /\ child' = [child EXCEPT ![c] = child'[c]]
      /\ \/ child'[c] = Gone /\ record.state = "exited"
         \/ child'[c] = record /\ record.state = "starting"
         \/ child'[c] = rest /\ record.state # "starting"
  BY DEF TypeOK, SetChild
<1> HIDE DEF rest
<1> QED
  BY <1>1, <1>2, GoneIsAChild DEF TypeOK

LEMMA ServerInit == Init => ServerInv
<1> SUFFICES ASSUME Init PROVE ServerInv
  OBVIOUS
<1>1. TypeOK
  <2>1. child \in [Children -> ChildRecord]
    BY GoneIsAChild DEF Init
  <2>2. /\ permissions \in [Requests -> {"none", "pending", "cancelled"}]
        /\ idempotency \in [Events -> {"none", "processing", "processed"}]
        /\ handling \in [Events -> Nat] /\ executions \in [Events -> 0..2]
    BY DEF Init
  <2> QED
    BY <2>1, <2>2 DEF Init, TypeOK
<1>2. OneExecution
  BY ConstantsAssumption DEF Init, OneExecution, Attached, Alive, Gone
<1>3. StartedIsKnown
  BY DEF Init, StartedIsKnown
<1> QED
  BY <1>1, <1>2, <1>3 DEF ServerInv

------------------------------------------------------------------------------
(* The bridge *)

(* A turn is started, whoever asked for it. *)
LEMMA SpawnInv ==
  ASSUME ServerInv, NEW c \in Children, NEW e \in Events \cup {None}, Spawn(c, e),
         UNCHANGED <<conversation, restarts>>
  PROVE  /\ session' \in [status : {"waiting_input", "running", "failed", "archived"},
                          archived : BOOLEAN]
         /\ activeProcess' \in Children \cup {None} /\ started' \in BOOLEAN
         /\ child' \in [Children -> ChildRecord]
         /\ OneExecution' /\ StartedIsKnown'
<1>1. /\ Started(e) \in ChildRecord /\ Started(e).state = "starting"
      /\ Started(e).attached
  BY DEF ServerInv, TypeOK, ChildRecord, Started
<1>2. /\ child' \in [Children -> ChildRecord]
      /\ child'[c] = Started(e)
      /\ \A d \in Children \ {c} : child'[d] = child[d]
  BY <1>1, SetChildIs DEF Spawn, ServerInv
<1>3. OneExecution'
  BY <1>1, <1>2, ConstantsAssumption DEF Spawn, ServerInv, OneExecution, Attached, Alive
<1>4. StartedIsKnown'
  BY DEF Spawn, StartedIsKnown
<1>5. session' \in [status : {"waiting_input", "running", "failed", "archived"}, archived : BOOLEAN]
  BY DEF Spawn, UpdateStatus, ServerInv, TypeOK
<1> QED
  BY <1>2, <1>3, <1>4, <1>5 DEF Spawn

(* spawn throws: the row is left "running". *)
LEMMA SpawnThrowsInv ==
  ASSUME ServerInv, SpawnThrows, UNCHANGED <<conversation, restarts>>
  PROVE  /\ session' \in [status : {"waiting_input", "running", "failed", "archived"},
                          archived : BOOLEAN]
         /\ OneExecution' /\ StartedIsKnown'
<1>1. session' \in [status : {"waiting_input", "running", "failed", "archived"}, archived : BOOLEAN]
  BY DEF SpawnThrows, UpdateStatus, ServerInv, TypeOK
<1>2. OneExecution' /\ StartedIsKnown'
  BY DEF SpawnThrows, ServerInv, OneExecution, StartedIsKnown, Attached, Alive
<1> QED
  BY <1>1, <1>2

LEMMA WebInputInv == ServerInv /\ WebInput => ServerInv'
<1> SUFFICES ASSUME ServerInv, WebInput PROVE ServerInv'
  OBVIOUS
<1>1. CASE SpawnThrows
  BY <1>1, SpawnThrowsInv DEF WebInput, SpawnThrows, rows, history, ServerInv, TypeOK
<1>2. ASSUME NEW c \in Children, Spawn(c, None) PROVE ServerInv'
  BY <1>2, SpawnInv DEF WebInput, rows, history, ServerInv, TypeOK
<1> QED
  BY <1>1, <1>2 DEF WebInput

LEMMA HandleStdoutLineInv ==
  ASSUME ServerInv, NEW c \in Children, HandleStdoutLine(c)
  PROVE  ServerInv'
<1> DEFINE record == [child[c] EXCEPT !.lines = Tail(@)]
<1>1. record \in ChildRecord /\ record.attached /\ record.state = child[c].state
  <2>1. child[c].lines \in Seq(Lines) /\ child[c].lines # <<>> /\ child[c].attached
    BY ChildFields DEF HandleStdoutLine, ServerInv, TypeOK
  <2>2. Tail(child[c].lines) \in Seq(Lines)
    BY <2>1
  <2> QED
    BY <2>1, <2>2 DEF ServerInv, TypeOK, ChildRecord
<1>2. /\ child' \in [Children -> ChildRecord]
      /\ \/ child'[c].state = record.state /\ child'[c].attached = record.attached
         \/ child'[c] = Gone /\ record.state = "exited"
      /\ \A d \in Children \ {c} : child'[d] = child[d]
  BY <1>1, SetChildIs DEF HandleStdoutLine, ServerInv
<1>3. child[c] # Gone
  BY DEF HandleStdoutLine, Gone
<1>4. TypeOK'
  <2>1. session' \in [status : {"waiting_input", "running", "failed", "archived"}, archived : BOOLEAN]
    BY DEF HandleStdoutLine, FinalizeTurn, UpdateStatus, ServerInv, TypeOK
  <2>2. permissions' \in [Requests -> {"none", "pending", "cancelled"}]
    BY DEF HandleStdoutLine, HandlePermissionRequest, CancelPermission, ServerInv, TypeOK
  <2> QED
    BY <1>2, <2>1, <2>2 DEF HandleStdoutLine, history, ServerInv, TypeOK
<1>5. OneExecution'
  <2>1. child'[c].state = child[c].state \/ (child'[c] = Gone /\ child[c].state = "exited")
    BY <1>1, <1>2
  <2>2. Attached(c)' /\ Alive(c)' <=> Attached(c) /\ Alive(c)
    BY <1>1, <1>2, <2>1, GoneIsAChild DEF Attached, Alive, HandleStdoutLine
  <2> QED
    BY <1>2, <2>2 DEF HandleStdoutLine, ServerInv, OneExecution, Attached, Alive
<1>6. StartedIsKnown'
  BY <1>3 DEF HandleStdoutLine, ServerInv, StartedIsKnown
<1> QED
  BY <1>4, <1>5, <1>6 DEF ServerInv

LEMMA ExitInv ==
  ASSUME ServerInv, NEW c \in Children, Exit(c)
  PROVE  ServerInv'
<1> DEFINE record == [child[c] EXCEPT !.state = "exited"]
<1>1. record \in ChildRecord /\ record.state = "exited"
  BY DEF ServerInv, TypeOK, ChildRecord
<1>2. /\ child' \in [Children -> ChildRecord]
      /\ child'[c].state = "exited" \/ child'[c] = Gone
      /\ \A d \in Children \ {c} : child'[d] = child[d]
  BY <1>1, SetChildIs DEF Exit, ServerInv
<1>3. child[c] # Gone
  BY DEF Exit, Alive, Gone
<1>4. TypeOK'
  BY <1>2 DEF Exit, ProcessExited, rows, ServerInv, TypeOK
<1>5. OneExecution'
  <2>1. ~Alive(c)'
    BY <1>1, <1>2, GoneIsAChild DEF Alive
  <2>2. Attached(c) => activeProcess = c /\ activeProcess' = None
    BY DEF Exit, ProcessExited, ServerInv, OneExecution
  <2>3. ~Attached(c) => activeProcess # c /\ activeProcess' = activeProcess
    BY DEF Exit, ServerInv, OneExecution
  <2>4. \A d \in Children \ {c} : Attached(d)' /\ Alive(d)' <=> d = activeProcess
    BY <1>2 DEF ServerInv, OneExecution, Attached, Alive
  <2> QED
    BY <2>1, <2>2, <2>3, <2>4, ConstantsAssumption DEF OneExecution
<1>6. StartedIsKnown'
  BY <1>3 DEF Exit, ServerInv, StartedIsKnown
<1> QED
  BY <1>4, <1>5, <1>6 DEF ServerInv

LEMMA SpawnErrorInv ==
  ASSUME ServerInv, NEW c \in Children, SpawnError(c)
  PROVE  ServerInv'
<1>1. child[c] # Gone
  BY DEF SpawnError, Gone
<1>2. TypeOK'
  BY GoneIsAChild DEF SpawnError, FinalizeTurn, UpdateStatus, rows, ServerInv, TypeOK
<1>3. OneExecution'
  BY ConstantsAssumption DEF SpawnError, ServerInv, TypeOK, OneExecution, Attached, Alive, Gone
<1>4. StartedIsKnown'
  BY <1>1 DEF SpawnError, ServerInv, StartedIsKnown
<1> QED
  BY <1>2, <1>3, <1>4 DEF ServerInv

------------------------------------------------------------------------------
(* The process of a turn *)

LEMMA AcceptArgumentsInv ==
  ASSUME ServerInv, NEW c \in Children, AcceptArguments(c)
  PROVE  ServerInv'
<1> DEFINE record == [child[c] EXCEPT !.state = "working"]
<1>1. /\ record \in ChildRecord /\ record.state = "working"
      /\ record.attached = child[c].attached
  BY DEF ServerInv, TypeOK, ChildRecord
<1>2. /\ child' \in [Children -> ChildRecord]
      /\ child'[c].state = record.state /\ child'[c].attached = record.attached
      /\ \A d \in Children \ {c} : child'[d] = child[d]
  BY <1>1, SetChildIs DEF AcceptArguments, ServerInv
<1>3. child[c] # Gone
  BY DEF AcceptArguments, Gone
<1>4. TypeOK'
  <2>1. executions' \in [Events -> 0..2]
    BY DEF AcceptArguments, ServerInv, TypeOK
  <2> QED
    BY <1>2, <2>1 DEF AcceptArguments, rows, ServerInv, TypeOK
<1>5. OneExecution'
  BY <1>1, <1>2 DEF AcceptArguments, ServerInv, OneExecution, Attached, Alive
<1>6. StartedIsKnown'
  BY <1>3 DEF AcceptArguments, ServerInv, StartedIsKnown
<1> QED
  BY <1>4, <1>5, <1>6 DEF ServerInv

LEMMA WriteInv ==
  ASSUME ServerInv, NEW c \in Children, NEW line \in Lines, Write(c, line)
  PROVE  ServerInv'
<1> DEFINE after == IF line.type = "result" THEN "finished" ELSE child[c].state
           record == [child[c] EXCEPT !.lines = Append(@, line), !.state = after]
<1>1. child[c].state \in {"starting", "working"}
  BY DEF Write
<1>2. /\ record \in ChildRecord /\ record.state \in {"starting", "working", "finished"}
      /\ record.attached = child[c].attached
  <2>1. child[c].lines \in Seq(Lines) /\ child[c] \in ChildRecord
    BY ChildFields DEF ServerInv, TypeOK
  <2>2. Append(child[c].lines, line) \in Seq(Lines)
    BY <2>1
  <2>3. after \in {"starting", "working", "finished"}
    BY <1>1
  <2> QED
    BY <2>1, <2>2, <2>3 DEF ChildRecord
<1>3. SetChild(c, record)
  BY DEF Write
<1>4. /\ child' \in [Children -> ChildRecord]
      /\ child'[c].state = record.state /\ child'[c].attached = record.attached
      /\ \A d \in Children \ {c} : child'[d] = child[d]
  BY <1>2, <1>3, SetChildIs DEF ServerInv
<1>5. child[c] # Gone
  BY <1>1 DEF Gone
<1>6. TypeOK'
  BY <1>4 DEF Write, rows, history, ServerInv, TypeOK
<1>7. OneExecution'
  BY <1>1, <1>2, <1>4 DEF Write, ServerInv, OneExecution, Attached, Alive
<1>8. StartedIsKnown'
  BY <1>5 DEF Write, ServerInv, StartedIsKnown
<1> QED
  BY <1>6, <1>7, <1>8 DEF ServerInv

------------------------------------------------------------------------------
(* Feishu *)

LEMMA DeliverSpawnsInv ==
  ASSUME ServerInv, NEW e \in Events, DeliverSpawns(e)
  PROVE  ServerInv'
<1>1. PICK c \in Children : Spawn(c, e)
  BY DEF DeliverSpawns
<1>2. /\ idempotency' \in [Events -> {"none", "processing", "processed"}]
      /\ handling' \in [Events -> Nat]
  BY DEF DeliverSpawns, Deliver, ServerInv, TypeOK
<1> QED
  BY <1>1, <1>2, SpawnInv DEF DeliverSpawns, Deliver, history, ServerInv, TypeOK

LEMMA DeliverFailsInv ==
  ASSUME ServerInv, NEW e \in Events, DeliverFails(e)
  PROVE  ServerInv'
<1>1. idempotency' \in [Events -> {"none", "processing", "processed"}]
  BY DEF DeliverFails, Deliver, ServerInv, TypeOK
<1>2. CASE SpawnThrows
  BY <1>1, <1>2, SpawnThrowsInv DEF DeliverFails, Deliver, SpawnThrows, history, ServerInv, TypeOK
<1>3. CASE UNCHANGED <<session, activeProcess, started, child>>
  BY <1>1, <1>3
     DEF DeliverFails, Deliver, history, ServerInv, TypeOK, OneExecution, StartedIsKnown,
         Attached, Alive
<1> QED
  BY <1>2, <1>3 DEF DeliverFails

LEMMA ReceiptInv ==
  ASSUME ServerInv, NEW e \in Events, Receipt(e) \/ ReceiptFails(e)
  PROVE  ServerInv'
<1>1. /\ idempotency' \in [Events -> {"none", "processing", "processed"}]
      /\ handling' \in [Events -> Nat]
  BY DEF Receipt, ReceiptFails, rows, ServerInv, TypeOK
<1> QED
  BY <1>1 DEF Receipt, ReceiptFails, rows, history, ServerInv, TypeOK, OneExecution,
              StartedIsKnown, Attached, Alive

LEMMA ArchiveInv == ServerInv /\ Archive => ServerInv'
  BY DEF Archive, rows, history, ServerInv, TypeOK, OneExecution, StartedIsKnown, Attached, Alive

(* After a restart no process is attached. *)
LEMMA RestartInv == ServerInv /\ Restart => ServerInv'
<1> SUFFICES ASSUME ServerInv, Restart PROVE ServerInv'
  OBVIOUS
<1>1. PICK survivors \in SUBSET {c \in Children : Alive(c)} :
        child' = [c \in Children |->
          IF c \in survivors THEN [child[c] EXCEPT !.attached = FALSE, !.lines = <<>>] ELSE Gone]
  BY DEF Restart
<1>2. \A c \in Children : child'[c] \in ChildRecord /\ ~child'[c].attached
  <2> SUFFICES ASSUME NEW c \in Children PROVE child'[c] \in ChildRecord /\ ~child'[c].attached
    OBVIOUS
  <2>1. CASE c \in survivors
    <3>1. child'[c] = [child[c] EXCEPT !.attached = FALSE, !.lines = <<>>]
      BY <1>1, <2>1
    <3>2. child[c] \in ChildRecord /\ <<>> \in Seq(Lines)
      BY DEF ServerInv, TypeOK
    <3> QED
      BY <3>1, <3>2 DEF ChildRecord
  <2>2. CASE c \notin survivors
    BY <1>1, <2>2, GoneIsAChild
  <2> QED
    BY <2>1, <2>2
<1>3. child' \in [Children -> ChildRecord]
  BY <1>1, <1>2
<1>4. restarts' \in Nat /\ restarts' # 0
  <2>1. restarts \in Nat /\ restarts' = restarts + 1
    BY DEF Restart, ServerInv, TypeOK
  <2> QED
    BY <2>1
<1>5. TypeOK'
  <2>1. handling' \in [Events -> Nat]
    BY DEF Restart
  <2> QED
    BY <1>3, <1>4, <2>1 DEF Restart, rows, history, ServerInv, TypeOK
<1>6. OneExecution'
  BY <1>2, ConstantsAssumption DEF Restart, OneExecution, Attached, Alive
<1>7. StartedIsKnown'
  BY <1>4 DEF StartedIsKnown
<1> QED
  BY <1>5, <1>6, <1>7 DEF ServerInv

LEMMA ServerNext == ServerInv /\ [Next]_vars => ServerInv'
<1> SUFFICES ASSUME ServerInv, [Next]_vars PROVE ServerInv'
  OBVIOUS
<1>1. CASE UNCHANGED vars
  BY <1>1 DEF vars, rows, history, ServerInv, TypeOK, OneExecution, StartedIsKnown, Attached, Alive
<1>2. ASSUME NEW c \in Children, ChildSteps(c) PROVE ServerInv'
  BY <1>2, HandleStdoutLineInv, ExitInv, SpawnErrorInv, AcceptArgumentsInv, WriteInv DEF ChildSteps
<1>3. ASSUME NEW e \in Events, EventSteps(e) PROVE ServerInv'
  BY <1>3, DeliverSpawnsInv, DeliverFailsInv, ReceiptInv DEF EventSteps
<1> QED
  BY <1>1, <1>2, <1>3, WebInputInv, ArchiveInv, RestartInv DEF Next, ChildSteps, EventSteps

LEMMA ServerInvariance == Spec => []ServerInv
  BY ServerInit, ServerNext, PTL DEF Spec

------------------------------------------------------------------------------

(* Only a turn that is started makes a process. *)
LEMMA SpawnStarts ==
  ASSUME ServerInv, NEW d \in Children, NEW e \in Events \cup {None}, Spawn(d, e),
         NEW c \in Children, child[c] = Gone, child'[c] # Gone
  PROVE  child'[c] = Started(e)
<1>1. Started(e) \in ChildRecord /\ Started(e).state = "starting"
  BY DEF ServerInv, TypeOK, ChildRecord, Started
<1> QED
  BY <1>1, SetChildIs DEF Spawn, ServerInv

LEMMA ChildStepsStartNone ==
  ASSUME ServerInv, NEW d \in Children, ChildSteps(d), NEW c \in Children, child[c] = Gone
  PROVE  child'[c] = Gone
<1>1. child[d] # Gone
  <2>1. child[d].attached \/ child[d].state # "gone"
    BY DEF ChildSteps, HandleStdoutLine, Exit, SpawnError, AcceptArguments, Write, Alive
  <2> QED
    BY <2>1, GoneIsAChild
<1>2. child \in [Children -> ChildRecord] /\ d # c
  BY <1>1 DEF ServerInv, TypeOK
<1>3. CASE SpawnError(d)
  BY <1>2, <1>3 DEF SpawnError
<1>4. CASE \E record : SetChild(d, record)
  BY <1>2, <1>4 DEF SetChild
<1> QED
  BY <1>3, <1>4 DEF ChildSteps, HandleStdoutLine, Exit, AcceptArguments, Write

LEMMA RestartStartsNone ==
  ASSUME ServerInv, Restart, NEW c \in Children, child[c] = Gone
  PROVE  child'[c] = Gone
<1>1. ~Alive(c)
  BY GoneIsAChild DEF Alive
<1> QED
  BY <1>1 DEF Restart

(* The rows, the maps of the bridge and its processes keep their types.    *)
THEOREM ServerTyping == Spec => []TypeOK
<1>1. ServerInv => TypeOK
  BY DEF ServerInv
<1> QED
  BY <1>1, ServerInvariance, PTL

(* At most one process per session runs a turn under this server, and it   *)
(* is the one activeProcesses holds, although 'exit' and 'error' delete    *)
(* the entry by session and not by process.                                *)
THEOREM OneProcess == Spec => []OneExecution
<1>1. ServerInv => OneExecution
  BY DEF ServerInv
<1> QED
  BY <1>1, ServerInvariance, PTL

(* A turn started before any restart, in a conversation that exists, is    *)
(* started with --resume: startedSessions is filled in time.               *)
THEOREM Resumption == Spec => LaterTurnsResume
<1> DEFINE Resumes ==
      \A c \in Children :
        /\ child[c] = Gone /\ child'[c].state = "starting"
        /\ conversation /\ restarts = 0
        => child'[c].resume
<1>1. ServerInv /\ [Next]_vars => [Resumes]_vars
  <2> SUFFICES ASSUME ServerInv, Next, NEW c \in Children,
                      child[c] = Gone, child'[c].state = "starting", conversation, restarts = 0
               PROVE  child'[c].resume
    OBVIOUS
  <2>1. started
    BY DEF ServerInv, StartedIsKnown
  <2>2. child' # child
    BY DEF Gone
  <2>3. ASSUME NEW d \in Children, NEW e \in Events \cup {None}, Spawn(d, e)
        PROVE  child'[c].resume
    <3>1. /\ Started(e) \in ChildRecord /\ Started(e).state = "starting"
          /\ Started(e).resume = started
      BY DEF ServerInv, TypeOK, ChildRecord, Started
    <3>2. child'[d] = Started(e) /\ \A f \in Children \ {d} : child'[f] = child[f]
      BY <2>3, <3>1, SetChildIs DEF Spawn, ServerInv
    <3>3. d = c
      BY <3>2, GoneIsAChild
    <3> QED
      BY <2>1, <3>1, <3>2, <3>3
  <2>4. ASSUME NEW d \in Children, ChildSteps(d) PROVE FALSE
    BY <2>4, ChildStepsStartNone, GoneIsAChild
  <2>5. CASE Restart
    BY <2>5, RestartStartsNone, GoneIsAChild
  <2> QED
    BY <2>2, <2>3, <2>4, <2>5
       DEF Next, ChildSteps, WebInput, SpawnThrows, DeliverSpawns, DeliverFails, Receipt,
           ReceiptFails, Archive
<1> QED
  BY <1>1, ServerInvariance, PTL DEF Spec, LaterTurnsResume

(* An answered message is neither forgotten nor started again.             *)
THEOREM AnsweredOnce == Spec => ProcessedForever
<1> DEFINE Again(e) == \E c \in Children : child[c] = Gone /\ child'[c] # Gone /\ child'[c].event = e
           Stays ==
             \A e \in Events : idempotency[e] = "processed" =>
               /\ idempotency'[e] = "processed"
               /\ \A c \in Children : child[c] = Gone /\ child'[c] # Gone => child'[c].event # e
<1>1. ServerInv /\ [Next]_vars => [Stays]_vars
  <2> SUFFICES ASSUME ServerInv, Next, NEW e \in Events, idempotency[e] = "processed"
               PROVE  idempotency'[e] = "processed" /\ ~Again(e)
    OBVIOUS
  <2>1. ASSUME NEW f \in Events, EventSteps(f)
        PROVE  idempotency'[e] = "processed" /\ ~Again(e)
    <3>1. idempotency'[e] = "processed"
      BY <2>1 DEF EventSteps, DeliverSpawns, DeliverFails, Deliver, IsDuplicate, Receipt,
                  ReceiptFails, rows, ServerInv, TypeOK
    <3>2. CASE DeliverSpawns(f)
      <4>1. f # e
        BY <3>2 DEF DeliverSpawns, Deliver, IsDuplicate
      <4>2. PICK d \in Children : Spawn(d, f)
        BY <3>2 DEF DeliverSpawns
      <4>3. ~Again(e)
        <5>1. Started(f).event = f
          BY DEF Started
        <5>2. \A c \in Children : child[c] = Gone /\ child'[c] # Gone => child'[c].event = f
          BY <4>2, <5>1, SpawnStarts
        <5> QED
          BY <4>1, <5>2
      <4> QED
        BY <3>1, <4>3
    <3>3. CASE ~DeliverSpawns(f)
      BY <2>1, <3>1, <3>3 DEF EventSteps, DeliverFails, SpawnThrows, Receipt, ReceiptFails
    <3> QED
      BY <3>2, <3>3
  <2>2. ASSUME NEW d \in Children, ChildSteps(d)
        PROVE  idempotency'[e] = "processed" /\ ~Again(e)
    <3>1. UNCHANGED idempotency
      BY <2>2 DEF ChildSteps, HandleStdoutLine, Exit, SpawnError, AcceptArguments, Write, rows
    <3> QED
      BY <2>2, <3>1, ChildStepsStartNone
  <2>3. CASE WebInput
    <3>1. ASSUME NEW d \in Children, Spawn(d, None) PROVE ~Again(e)
      <4>1. Started(None).event = None
        BY DEF Started
      <4>2. \A c \in Children : child[c] = Gone /\ child'[c] # Gone => child'[c].event = None
        BY <3>1, <4>1, SpawnStarts
      <4> QED
        BY <4>2, ConstantsAssumption
    <3> QED
      BY <2>3, <3>1 DEF WebInput, SpawnThrows, rows
  <2>4. CASE Archive
    BY <2>4 DEF Archive, rows
  <2>5. CASE Restart
    BY <2>5, RestartStartsNone DEF Restart, rows
  <2> QED
    BY <2>1, <2>2, <2>3, <2>4, <2>5 DEF Next, ChildSteps, EventSteps
<1> QED
  BY <1>1, ServerInvariance, PTL DEF Spec, ProcessedForever

(* That the arguments fit: as long as nothing was cut short, the bridge    *)
(* knows the sessions that have a transcript or are about to have one, and *)
(* the process that is about to take its arguments is the session's own.   *)
Starting(c) == child[c].state = "starting"

Undisturbed == restarts = 0 /\ ~cutShort

FitInv ==
  Undisturbed =>
    /\ \A c \in Children : Starting(c) => c = activeProcess /\ Fitting(c)
    /\ started <=> conversation \/ \E c \in Children : Starting(c)

(* A turn is started, whoever asked for it. *)
LEMMA SpawnFits ==
  ASSUME ServerInv, FitInv, NEW d \in Children, NEW e \in Events \cup {None}, Spawn(d, e),
         UNCHANGED <<conversation, restarts, cutShort>>
  PROVE  FitInv'
<1>1. /\ Started(e) \in ChildRecord /\ Started(e).state = "starting"
      /\ Started(e).resume = started
  BY DEF ServerInv, TypeOK, ChildRecord, Started
<1>2. /\ child'[d] = Started(e)
      /\ \A c \in Children \ {d} : child'[c] = child[c]
  BY <1>1, SetChildIs DEF Spawn, ServerInv
<1>3. \A c \in Children : Undisturbed => ~Starting(c)
  BY ConstantsAssumption DEF Spawn, FitInv
<1>4. Undisturbed => (started <=> conversation)
  BY <1>3 DEF FitInv
<1>5. Starting(d)' /\ (Fitting(d)' <=> started = conversation)
  BY <1>1, <1>2 DEF Starting, Fitting
<1>6. \A c \in Children \ {d} : Undisturbed => ~Starting(c)'
  BY <1>2, <1>3 DEF Starting
<1>7. started \in BOOLEAN /\ conversation \in BOOLEAN
  BY DEF ServerInv, TypeOK
<1>8. started' /\ activeProcess' = d /\ (Undisturbed' <=> Undisturbed)
  BY DEF Spawn, Undisturbed
<1> QED
  BY <1>4, <1>5, <1>6, <1>7, <1>8 DEF FitInv

(* Only the process itself takes its arguments. *)
LEMMA ChildStepsFit ==
  ASSUME ServerInv, FitInv, NEW d \in Children, ChildSteps(d)
  PROVE  FitInv'
<1>0. /\ child \in [Children -> ChildRecord] /\ child[d] \in ChildRecord
      /\ started \in BOOLEAN /\ conversation \in BOOLEAN /\ cutShort \in BOOLEAN
      /\ Attached(d) /\ Alive(d) <=> d = activeProcess
  BY DEF ServerInv, TypeOK, OneExecution
<1>1. CASE HandleStdoutLine(d)
  <2> DEFINE record == [child[d] EXCEPT !.lines = Tail(@)]
  <2>1. record \in ChildRecord /\ record.state = child[d].state /\ record.resume = child[d].resume
    <3>1. child[d].lines \in Seq(Lines) /\ child[d].lines # <<>>
      BY <1>0, <1>1, ChildFields DEF HandleStdoutLine
    <3>2. Tail(child[d].lines) \in Seq(Lines)
      BY <3>1
    <3> QED
      BY <1>0, <3>2 DEF ChildRecord
  <2> HIDE DEF record
  <2>2. SetChild(d, record)
    BY <1>1 DEF HandleStdoutLine, record
  <2>3. /\ Starting(d) <=> Starting(d)'
        /\ Starting(d) => child'[d].resume = child[d].resume
        /\ \A c \in Children \ {d} : child'[c] = child[c]
    BY <2>1, <2>2, SetChildIs, GoneIsAChild DEF ServerInv, Starting
  <2> QED
    BY <1>1, <2>3 DEF HandleStdoutLine, history, FitInv, Undisturbed, Starting, Fitting
<1>2. CASE Exit(d)
  <2> DEFINE record == [child[d] EXCEPT !.state = "exited"]
  <2>1. record \in ChildRecord /\ record.state = "exited"
    BY <1>0 DEF ChildRecord
  <2>2. ~Starting(d)' /\ \A c \in Children \ {d} : child'[c] = child[c]
    BY <1>2, <2>1, SetChildIs, GoneIsAChild DEF Exit, ServerInv, Starting
  <2>3. ASSUME Undisturbed' PROVE Undisturbed /\ ~Starting(d)
    BY <1>0, <1>2, <2>3 DEF Exit, FitInv, Undisturbed, Starting
  <2>4. Attached(d) => \A c \in Children : Undisturbed => ~Starting(c) \/ c = d
    BY <1>0, <1>2 DEF Exit, FitInv
  <2> QED
    BY <1>2, <2>2, <2>3, <2>4 DEF Exit, FitInv, Undisturbed, Starting, Fitting
<1>3. CASE SpawnError(d)
  BY <1>0, <1>3 DEF SpawnError, FitInv, Undisturbed, Starting
<1>4. CASE AcceptArguments(d)
  <2> DEFINE record == [child[d] EXCEPT !.state = "working"]
  <2>1. record \in ChildRecord /\ record.state = "working"
    BY <1>0 DEF ChildRecord
  <2>2. ~Starting(d)' /\ \A c \in Children \ {d} : child'[c] = child[c]
    BY <1>4, <2>1, SetChildIs, GoneIsAChild DEF AcceptArguments, ServerInv, Starting
  <2>3. \A c \in Children \ {d} : Undisturbed => ~Starting(c)
    BY <1>4 DEF AcceptArguments, FitInv, Starting
  <2> QED
    BY <1>4, <2>2, <2>3 DEF AcceptArguments, FitInv, Undisturbed, Starting
<1>5. ASSUME NEW line \in Lines, Write(d, line) PROVE FitInv'
  <2> DEFINE after == IF line.type = "result" THEN "finished" ELSE child[d].state
             record == [child[d] EXCEPT !.lines = Append(@, line), !.state = after]
  <2>1. /\ record \in ChildRecord /\ record.state = after
        /\ after \in {"starting", "working", "finished"}
        /\ Undisturbed => ~Starting(d) /\ after # "starting"
    <3>1. child[d].lines \in Seq(Lines) /\ child[d].state \in {"starting", "working"}
      BY <1>0, <1>5, ChildFields DEF Write
    <3>2. Append(child[d].lines, line) \in Seq(Lines) /\ after \in {"starting", "working", "finished"}
      BY <3>1
    <3>3. Undisturbed => child[d].state = "working"
      BY <1>0, <1>5 DEF Write, FitInv, Starting, Fitting
    <3> QED
      BY <1>0, <3>2, <3>3 DEF ChildRecord, Starting
  <2>2. SetChild(d, record)
    BY <1>5 DEF Write
  <2>3. /\ Undisturbed => ~Starting(d) /\ ~Starting(d)'
        /\ \A c \in Children \ {d} : child'[c] = child[c]
    BY <2>1, <2>2, SetChildIs, GoneIsAChild DEF ServerInv, Starting
  <2> QED
    BY <1>5, <2>3 DEF Write, history, FitInv, Undisturbed, Starting, Fitting
<1> QED
  BY <1>1, <1>2, <1>3, <1>4, <1>5 DEF ChildSteps

LEMMA NextFits == ServerInv /\ FitInv /\ [Next]_vars => FitInv'
<1> SUFFICES ASSUME ServerInv, FitInv, [Next]_vars PROVE FitInv'
  OBVIOUS
<1>1. CASE UNCHANGED <<activeProcess, started, child, conversation, restarts, cutShort>>
  BY <1>1 DEF FitInv, Undisturbed, Starting, Fitting
<1>2. CASE WebInput
  BY <1>1, <1>2, SpawnFits DEF WebInput, SpawnThrows, history
<1>3. ASSUME NEW e \in Events, EventSteps(e) PROVE FitInv'
  BY <1>1, <1>3, SpawnFits
     DEF EventSteps, DeliverSpawns, DeliverFails, Deliver, SpawnThrows, Receipt, ReceiptFails,
         history
<1>4. CASE Restart
  <2>1. restarts \in Nat /\ restarts' = restarts + 1
    BY <1>4 DEF Restart, ServerInv, TypeOK
  <2>2. restarts' # 0
    BY <2>1
  <2> QED
    BY <2>2 DEF FitInv, Undisturbed
<1>5. CASE Archive
  BY <1>1, <1>5 DEF Archive, history
<1>6. CASE UNCHANGED vars
  BY <1>1, <1>6 DEF vars, history
<1> QED
  BY <1>2, <1>3, <1>4, <1>5, <1>6, ChildStepsFit DEF Next, ChildSteps, EventSteps

(* Until a restart or an early end of a process, the CLI takes the         *)
(* arguments of every turn: with --resume if and only if there is a        *)
(* conversation, however messages, web input and exits follow each other.  *)
THEOREM Fitness == Spec => []ArgumentsFit
<1>1. Init => FitInv
  BY DEF Init, FitInv, Starting, Gone
<1>2. FitInv => ArgumentsFit
  BY DEF FitInv, ArgumentsFit, Undisturbed, Starting
<1> QED
  BY <1>1, <1>2, NextFits, ServerInvariance, PTL DEF Spec

------------------------------------------------------------------------------
(* What is shown of a session *)

(* Induction over the naturals, for a set in place of a predicate.  It     *)
(* follows from the well-foundedness of the intervals 0..n under inclusion *)
LEMMA SetInduction ==
  ASSUME NEW T, 0 \in T, \A n \in Nat : n \in T => n + 1 \in T
  PROVE  Nat \subseteq T
PROOF
  <1> DEFINE Missing == {0..n : n \in Nat \ T}
             Less == StrictSubsetOrdering(Nat)
             Finite == FiniteSubsetsOf(Nat)
  <1>1. IsWellFoundedOn(Less, Finite)
    BY FS_StrictSubsetOrderingWellFounded
  <1>2. Missing \subseteq Finite
    <2>1. \A n \in Nat : 0..n \subseteq Nat /\ IsFiniteSet(0..n)
      BY FS_Interval
    <2> QED
      BY <2>1 DEF FiniteSubsetsOf
  <1>3. ASSUME Missing # {}
        PROVE  FALSE
    <2> HIDE DEF Missing, Less, Finite
    <2>1. PICK x \in Missing : \A y \in Missing : ~ (<<y, x>> \in Less)
      BY <1>1, <1>2, <1>3, WFMin
    <2>2. PICK n \in Nat \ T : x = 0..n
      BY DEF Missing
    <2>3. n # 0 /\ n - 1 \in Nat /\ n = (n - 1) + 1
      BY <2>2
    <2>4. n - 1 \in Nat \ T
      BY <2>3, <2>2
    <2>5. 0..(n - 1) \in Missing
      BY <2>4 DEF Missing
    <2>6. /\ 0..(n - 1) \subseteq 0..n /\ 0..n \subseteq Nat
          /\ n \notin 0..(n - 1) /\ n \in 0..n
      BY <2>3
    <2>7. <<0..(n - 1), 0..n>> \in Less
      BY <2>6 DEF Less, StrictSubsetOrdering
    <2> QED
      BY <2>1, <2>2, <2>5, <2>7
  <1>4. SUFFICES ASSUME NEW n \in Nat, n \notin T
                 PROVE  FALSE
    OBVIOUS
  <1>5. 0..n \in Missing
    BY <1>4
  <1> QED
    BY <1>3, <1>5

------------------------------------------------------------------------------
(* Merging a sequence of patches *)

(* The recursion of Merged(base, s), up to position m. *)
IsFold(G, base, s, m) ==
  G = [S \in SUBSET (1..m) |->
         IF S = {} THEN base ELSE Coalesce(G[S \ {Max(S)}], s[Max(S)])]

(* Merged is what such a function gives for all the patches. *)
LEMMA MergedIs ==
  ASSUME NEW base, NEW X, NEW s \in Seq(X)
  PROVE  Merged(base, s) = (CHOOSE G : IsFold(G, base, s, Len(s)))[1..Len(s)]
<1>1. DOMAIN s = 1..Len(s)
  OBVIOUS
<1> QED
  BY <1>1 DEF Merged, FoldLeft, MapThenFoldSet, IsFold

(* The last position is the one taken off. *)
LEMMA LastIsMax ==
  ASSUME NEW m \in Nat \ {0}, NEW S \in SUBSET (1..m), m \in S
  PROVE  Max(S) = m
<1>1. \A y \in S : m >= y
  OBVIOUS
<1>2. \A x \in S : (\A y \in S : x >= y) => x = m
  OBVIOUS
<1> QED
  BY <1>1, <1>2 DEF Max

(* It defines a function. *)
LEMMA FoldsExists ==
  ASSUME NEW base, NEW s, NEW L \in Nat
  PROVE  \E G : IsFold(G, base, s, L)
<1> DEFINE T == {m \in Nat : \E G : IsFold(G, base, s, m)}
<1>1. 0 \in T
  <2>1. \A S \in SUBSET (1..0) : S = {}
    OBVIOUS
  <2>2. IsFold([S \in SUBSET (1..0) |-> base], base, s, 0)
    BY <2>1 DEF IsFold
  <2> QED
    BY <2>2
<1>2. ASSUME NEW m \in Nat, m \in T
      PROVE  m + 1 \in T
  <2>1. PICK G : IsFold(G, base, s, m)
    BY <1>2
  <2> DEFINE H == [S \in SUBSET (1..(m + 1)) |->
                     IF m + 1 \in S THEN Coalesce(G[S \ {m + 1}], s[m + 1]) ELSE G[S]]
             Value(F, S) == IF S = {} THEN base ELSE Coalesce(F[S \ {Max(S)}], s[Max(S)])
  <2>2. \A S \in SUBSET (1..m) : G[S] = Value(G, S)
    BY <2>1 DEF IsFold
  <2>3. \A S \in SUBSET (1..m) : S \in SUBSET (1..(m + 1)) /\ m + 1 \notin S /\ H[S] = G[S]
    <3>1. \A S \in SUBSET (1..m) : S \in SUBSET (1..(m + 1)) /\ m + 1 \notin S
      OBVIOUS
    <3> QED
      BY <3>1
  <2>4. ASSUME NEW S \in SUBSET (1..(m + 1))
        PROVE  H[S] = Value(H, S)
    <3>1. CASE m + 1 \in S
      <4>1. Max(S) = m + 1
        BY <3>1, LastIsMax
      <4>2. S \ {m + 1} \in SUBSET (1..m)
        OBVIOUS
      <4>3. H[S \ {m + 1}] = G[S \ {m + 1}]
        BY <2>3, <4>2
      <4>4. H[S] = Coalesce(G[S \ {m + 1}], s[m + 1])
        BY <3>1
      <4> HIDE DEF H
      <4> QED
        BY <3>1, <4>1, <4>3, <4>4
    <3>2. CASE m + 1 \notin S
      <4>1. \A i \in S : i \in 1..m
        BY <3>2
      <4>2. S \in SUBSET (1..m) /\ S \ {Max(S)} \in SUBSET (1..m)
        BY <4>1
      <4>3. H[S] = G[S] /\ H[S \ {Max(S)}] = G[S \ {Max(S)}]
        BY <2>3, <4>2
      <4> HIDE DEF H
      <4> QED
        BY <2>2, <4>2, <4>3
    <3> QED
      BY <3>1, <3>2
  <2>5. H = [S \in SUBSET (1..(m + 1)) |-> H[S]]
    OBVIOUS
  <2>6. IsFold(H, base, s, m + 1)
    <3> HIDE DEF H
    <3> QED
      BY <2>4, <2>5 DEF IsFold
  <2> QED
    BY <2>6
<1>3. Nat \subseteq T
  <2> HIDE DEF T
  <2> QED
    BY <1>1, <1>2, SetInduction
<1> QED
  BY <1>3

FoldTo(G, k) == G[1..k]

(* What it computes for the first k patches. *)
LEMMA FoldsStep ==
  ASSUME NEW base, NEW s, NEW m \in Nat, NEW G, IsFold(G, base, s, m), NEW k \in 0..m
  PROVE  /\ k = 0 => FoldTo(G, k) = base
         /\ \A j : k = j + 1 /\ j \in 0..m => FoldTo(G, k) = Coalesce(FoldTo(G, j), s[k])
<1> USE DEF FoldTo
<1>1. 1..k \in SUBSET (1..m)
  OBVIOUS
<1>2. FoldTo(G, k) = IF 1..k = {} THEN base ELSE Coalesce(G[(1..k) \ {Max(1..k)}], s[Max(1..k)])
  BY <1>1 DEF IsFold
<1>3. CASE k = 0
  <2>1. 1..k = {}
    BY <1>3
  <2> QED
    BY <1>2, <1>3, <2>1
<1>4. CASE k # 0
  <2>1. k \in 1..k /\ k \in Nat \ {0} /\ 1..k # {}
    BY <1>4
  <2>2. Max(1..k) = k
    BY <2>1, LastIsMax
  <2>3. \A j \in 0..m : k = j + 1 => (1..k) \ {k} = 1..j
    OBVIOUS
  <2> QED
    BY <1>2, <1>4, <2>1, <2>2, <2>3
<1> QED
  BY <1>3, <1>4

(* No patch changes nothing, and one more is merged over the others. *)
LEMMA MergedEmpty == ASSUME NEW base PROVE Merged(base, <<>>) = base
<1> DEFINE F == CHOOSE G : IsFold(G, base, <<>>, 0)
<1>1. <<>> \in Seq({}) /\ Len(<<>>) = 0
  OBVIOUS
<1>2. IsFold(F, base, <<>>, 0)
  BY FoldsExists
<1>3. FoldTo(F, 0) = base
  <2> HIDE DEF F
  <2> QED
    BY <1>2, FoldsStep
<1> QED
  BY <1>1, <1>3, MergedIs DEF FoldTo

LEMMA MergedAppend ==
  ASSUME NEW base, NEW X, NEW s \in Seq(X), NEW x \in X
  PROVE  Merged(base, Append(s, x)) = Coalesce(Merged(base, s), x)
<1> DEFINE n == Len(s)
           t == Append(s, x)
           F == CHOOSE G : IsFold(G, base, s, n)
           H == CHOOSE G : IsFold(G, base, t, n + 1)
           T == {k \in Nat : k <= n => FoldTo(F, k) = FoldTo(H, k)}
<1>1. n \in Nat /\ n + 1 \in Nat /\ t \in Seq(X) /\ Len(t) = n + 1
  OBVIOUS
<1>2. t[n + 1] = x /\ \A k \in 1..n : t[k] = s[k]
  OBVIOUS
<1>3. IsFold(F, base, s, n)
  BY <1>1, FoldsExists
<1>4. IsFold(H, base, t, n + 1)
  BY <1>1, FoldsExists
<1>5. Merged(base, s) = FoldTo(F, n)
  BY MergedIs DEF FoldTo
<1>6. Merged(base, t) = FoldTo(H, n + 1)
  BY <1>1, MergedIs DEF FoldTo
<1> HIDE DEF n, t, F, H
<1>7. 0 \in T
  <2>1. FoldTo(F, 0) = base /\ FoldTo(H, 0) = base
    BY <1>1, <1>3, <1>4, FoldsStep
  <2> QED
    BY <2>1
<1>8. ASSUME NEW k \in Nat, k \in T
      PROVE  k + 1 \in T
  <2> SUFFICES ASSUME k + 1 <= n
               PROVE  FoldTo(F, k + 1) = FoldTo(H, k + 1)
    OBVIOUS
  <2>1. /\ k + 1 \in 0..n /\ k + 1 \in 0..(n + 1) /\ k + 1 \in 1..n
        /\ k \in 0..n /\ k \in 0..(n + 1) /\ k <= n
    BY <1>1
  <2>2. FoldTo(F, k + 1) = Coalesce(FoldTo(F, k), s[k + 1])
    BY <1>1, <1>3, <2>1, FoldsStep
  <2>3. FoldTo(H, k + 1) = Coalesce(FoldTo(H, k), t[k + 1])
    BY <1>1, <1>4, <2>1, FoldsStep
  <2>4. FoldTo(F, k) = FoldTo(H, k)
    BY <1>8, <2>1
  <2> QED
    BY <1>2, <2>1, <2>2, <2>3, <2>4
<1>9. FoldTo(F, n) = FoldTo(H, n)
  <2>1. Nat \subseteq T
    <3> HIDE DEF T
    <3> QED
      BY <1>7, <1>8, SetInduction
  <2> QED
    BY <1>1, <2>1
<1>10. FoldTo(H, n + 1) = Coalesce(FoldTo(H, n), t[n + 1])
  <2>1. n + 1 \in 0..(n + 1) /\ n \in 0..(n + 1)
    BY <1>1
  <2> QED
    BY <1>1, <1>4, <2>1, FoldsStep
<1> QED
  BY <1>2, <1>5, <1>6, <1>9, <1>10 DEF t

(* The merge of the first k patches. *)
Upto(base, s, k) == Merged(base, SubSeq(s, 1, k))

(* The merge of none, and of all of them. *)
LEMMA UptoEnds ==
  ASSUME NEW base, NEW X, NEW s \in Seq(X)
  PROVE  Upto(base, s, 0) = base /\ Upto(base, s, Len(s)) = Merged(base, s)
<1>1. SubSeq(s, 1, 0) = <<>> /\ SubSeq(s, 1, Len(s)) = s
  OBVIOUS
<1> QED
  BY <1>1, MergedEmpty DEF Upto

(* One more patch is merged over the ones before it. *)
LEMMA UptoStep ==
  ASSUME NEW base, NEW X, NEW s \in Seq(X), NEW k \in Nat, k < Len(s)
  PROVE  /\ k + 1 \in 1..Len(s) /\ s[k + 1] \in X
         /\ Upto(base, s, k + 1) = Coalesce(Upto(base, s, k), s[k + 1])
<1> DEFINE t == SubSeq(s, 1, k)
<1>1. t \in Seq(X) /\ k + 1 \in 1..Len(s) /\ s[k + 1] \in X
  OBVIOUS
<1>2. SubSeq(s, 1, k + 1) = Append(t, s[k + 1])
  OBVIOUS
<1> HIDE DEF t
<1>3. Merged(base, Append(t, s[k + 1])) = Coalesce(Merged(base, t), s[k + 1])
  BY <1>1, MergedAppend
<1> QED
  BY <1>1, <1>2, <1>3 DEF Upto, t

(* What is merged from the beginning of a sequence does not change as it     *)
(* grows.                                                                    *)
LEMMA UptoPrefix ==
  ASSUME NEW base, NEW X, NEW s \in Seq(X), NEW t \in Seq(X), NEW k \in 0..Len(s)
  PROVE  Upto(base, s \o t, k) = Upto(base, s, k)
<1>1. SubSeq(s \o t, 1, k) = SubSeq(s, 1, k)
  OBVIOUS
<1> QED
  BY <1>1 DEF Upto

(* And what is merged from its end is merged over it. *)
LEMMA UptoSuffix ==
  ASSUME NEW base, NEW X, NEW s \in Seq(X), NEW t \in Seq(X),
         NEW k \in Nat, k < Len(t)
  PROVE  /\ Len(s) + k + 1 \in 1..Len(s \o t) /\ k + 1 \in 1..Len(t) /\ t[k + 1] \in X
         /\ Upto(base, s \o t, Len(s) + k + 1)
              = Coalesce(Upto(base, s \o t, Len(s) + k), t[k + 1])
<1> DEFINE u == s \o t
           j == Len(s) + k
<1>1. /\ u \in Seq(X) /\ j \in Nat /\ j < Len(u) /\ j + 1 = Len(s) + k + 1
      /\ k + 1 \in 1..Len(t) /\ t[k + 1] \in X /\ u[j + 1] = t[k + 1]
  <2>1. u \in Seq(X) /\ Len(u) = Len(s) + Len(t)
    OBVIOUS
  <2>2. \A i \in 1..Len(t) : u[Len(s) + i] = t[i]
    OBVIOUS
  <2>3. Len(s) \in Nat /\ Len(t) \in Nat /\ k \in Nat /\ k + 1 \in 1..Len(t)
    OBVIOUS
  <2>4. j + 1 = Len(s) + (k + 1) /\ j \in Nat /\ j < Len(u)
    BY <2>1, <2>3
  <2> QED
    BY <2>1, <2>2, <2>3, <2>4
<1> HIDE DEF u, j
<1>2. j + 1 \in 1..Len(u) /\ Upto(base, u, j + 1) = Coalesce(Upto(base, u, j), u[j + 1])
  BY <1>1, UptoStep
<1> QED
  BY <1>1, <1>2 DEF u, j

(* Induction over the positions of a sequence. *)
LEMMA PositionInduction ==
  ASSUME NEW L \in Nat, NEW T, 0 \in T, \A k \in Nat : k < L /\ k \in T => k + 1 \in T
  PROVE  \A k \in 0..L : k \in T
<1> DEFINE U == {k \in Nat : k <= L => k \in T}
<1>1. 0 \in U
  OBVIOUS
<1>2. \A k \in Nat : k \in U => k + 1 \in U
  OBVIOUS
<1>3. Nat \subseteq U
  <2> HIDE DEF U
  <2> QED
    BY <1>1, <1>2, SetInduction
<1> QED
  BY <1>3

------------------------------------------------------------------------------
(* Patches and records *)

Values == Statuses \union Models \union {Nothing, "progress"}

IsRecord(r) == r = [f \in Fields |-> r[f]]

(* A patch is a function from some of the fields to values. *)
LEMMA PatchIs ==
  ASSUME NEW p
  PROVE  p \in Patches <=> /\ p = [f \in DOMAIN p |-> p[f]]
                           /\ DOMAIN p \subseteq Fields
                           /\ \A f \in DOMAIN p : p[f] \in Values
<1>1. ASSUME p \in Patches
      PROVE  /\ p = [f \in DOMAIN p |-> p[f]]
             /\ DOMAIN p \subseteq Fields
             /\ \A f \in DOMAIN p : p[f] \in Values
  <2>1. PICK F \in SUBSET Fields : p \in [F -> Values]
    BY <1>1 DEF Patches, Values
  <2> QED
    BY <2>1
<1>2. ASSUME p = [f \in DOMAIN p |-> p[f]], DOMAIN p \subseteq Fields,
             \A f \in DOMAIN p : p[f] \in Values
      PROVE  p \in Patches
  <2>1. p \in [DOMAIN p -> Values]
    BY <1>2
  <2> QED
    BY <1>2, <2>1 DEF Patches, Values
<1> QED
  BY <1>1, <1>2

(* The empty patch has no field. *)
LEMMA EmptyIs == Empty \in Patches /\ DOMAIN Empty = {}
<1>1. DOMAIN Empty = {} /\ Empty = [f \in DOMAIN Empty |-> Empty[f]]
  BY DEF Empty
<1> QED
  BY <1>1, PatchIs

(* Every other patch has one. *)
LEMMA NotEmptyIs ==
  ASSUME NEW p \in Patches
  PROVE  p # Empty <=> DOMAIN p # {}
<1>1. p = [f \in DOMAIN p |-> p[f]]
  BY PatchIs
<1>2. DOMAIN p = {} => p = Empty
  BY <1>1 DEF Empty
<1> QED
  BY <1>2, EmptyIs

(* What coalescing leaves of the two patches. *)
LEMMA CoalesceIs ==
  ASSUME NEW base, NEW overlay
  PROVE  LET c == Coalesce(base, overlay)
         IN  /\ DOMAIN c = DOMAIN base \union DOMAIN overlay
             /\ c = [f \in DOMAIN c |-> c[f]]
             /\ \A f \in DOMAIN overlay : c[f] = overlay[f]
             /\ \A f \in DOMAIN base \ DOMAIN overlay : c[f] = base[f]
  BY DEF Coalesce

(* Patches are coalesced to patches. *)
LEMMA CoalescePatches ==
  ASSUME NEW p \in Patches, NEW q \in Patches
  PROVE  Coalesce(p, q) \in Patches /\ (p # Empty \/ q # Empty => Coalesce(p, q) # Empty)
<1> DEFINE c == Coalesce(p, q)
<1>1. /\ DOMAIN c = DOMAIN p \union DOMAIN q
      /\ c = [f \in DOMAIN c |-> c[f]]
      /\ \A f \in DOMAIN q : c[f] = q[f]
      /\ \A f \in DOMAIN p \ DOMAIN q : c[f] = p[f]
  BY CoalesceIs
<1>2. /\ DOMAIN p \subseteq Fields /\ DOMAIN q \subseteq Fields
      /\ \A f \in DOMAIN p : p[f] \in Values
      /\ \A f \in DOMAIN q : q[f] \in Values
  BY PatchIs
<1>3. \A f \in DOMAIN c : c[f] \in Values
  BY <1>1, <1>2
<1> HIDE DEF c
<1>4. c \in Patches
  BY <1>1, <1>2, <1>3, PatchIs
<1> QED
  BY <1>1, <1>4, NotEmptyIs DEF c

(* So is a sequence of them. *)
LEMMA MergedPatches ==
  ASSUME NEW p \in Patches, NEW s \in Seq(Patches)
  PROVE  Merged(p, s) \in Patches
<1> DEFINE T == {k \in 0..Len(s) : Upto(p, s, k) \in Patches}
<1>1. 0 \in T
  <2>1. Upto(p, s, 0) = p
    BY UptoEnds
  <2>2. Len(s) \in Nat /\ 0 \in 0..Len(s)
    OBVIOUS
  <2> QED
    BY <2>1, <2>2
<1>2. ASSUME NEW k \in Nat, k < Len(s), k \in T
      PROVE  k + 1 \in T
  <2>1. /\ k + 1 \in 1..Len(s) /\ s[k + 1] \in Patches
        /\ Upto(p, s, k + 1) = Coalesce(Upto(p, s, k), s[k + 1])
    BY <1>2, UptoStep
  <2> QED
    BY <1>2, <2>1, CoalescePatches
<1>3. Len(s) \in T
  <2>1. Len(s) \in Nat /\ Len(s) \in 0..Len(s)
    OBVIOUS
  <2> HIDE DEF T
  <2> QED
    BY <1>1, <1>2, <2>1, PositionInduction
<1> QED
  BY <1>3, UptoEnds

(* A patch that is applied to a record changes its own fields. *)
LEMMA CoalesceRecord ==
  ASSUME NEW r, IsRecord(r), NEW p \in Patches
  PROVE  /\ IsRecord(Coalesce(r, p))
         /\ \A f \in DOMAIN p : Coalesce(r, p)[f] = p[f]
         /\ \A f \in Fields \ DOMAIN p : Coalesce(r, p)[f] = r[f]
<1>1. DOMAIN r = Fields
  BY DEF IsRecord
<1>2. DOMAIN p \subseteq Fields
  BY PatchIs
<1> QED
  BY <1>1, <1>2 DEF Coalesce, IsRecord

(* Records are equal when their fields are. *)
LEMMA SameRecord ==
  ASSUME NEW r, NEW t, IsRecord(r), IsRecord(t), \A f \in Fields : r[f] = t[f]
  PROVE  r = t
  BY DEF IsRecord

(* The record starts with all the fields. *)
LEMMA StaleIsRecord == IsRecord(Stale)
  BY DEF Stale, IsRecord

------------------------------------------------------------------------------
(* Moments, and the patches that carry from one to another *)

(* The record after the first k reports of R. *)
Moment(R, k) == Upto(Stale, R, k)

(* The patch takes the record from each moment between a and b to b. *)
Carries(R, patch, a, b) == \A k \in a..b : Coalesce(Moment(R, k), patch) = Moment(R, b)

(* Every moment is a record. *)
LEMMA MomentIsRecord ==
  ASSUME NEW R \in Seq(Patches), NEW k \in 0..Len(R)
  PROVE  IsRecord(Moment(R, k))
<1> DEFINE T == {j \in 0..Len(R) : IsRecord(Moment(R, j))}
<1>1. 0 \in T
  <2>1. Moment(R, 0) = Stale
    BY UptoEnds DEF Moment
  <2>2. 0 \in 0..Len(R)
    OBVIOUS
  <2> QED
    BY <2>1, <2>2, StaleIsRecord
<1>2. ASSUME NEW j \in Nat, j < Len(R), j \in T
      PROVE  j + 1 \in T
  <2>1. /\ j + 1 \in 1..Len(R) /\ R[j + 1] \in Patches
        /\ Moment(R, j + 1) = Coalesce(Moment(R, j), R[j + 1])
    BY <1>2, UptoStep DEF Moment
  <2> QED
    BY <1>2, <2>1, CoalesceRecord
<1>3. k \in T
  <2>1. Len(R) \in Nat
    OBVIOUS
  <2> HIDE DEF T
  <2> QED
    BY <1>1, <1>2, <2>1, PositionInduction
<1> QED
  BY <1>3

(* The empty patch stays at a moment. *)
LEMMA CarriesNothing ==
  ASSUME NEW R \in Seq(Patches), NEW a \in 0..Len(R)
  PROVE  Carries(R, Empty, a, a)
<1>1. IsRecord(Moment(R, a))
  BY MomentIsRecord
<1>2. Coalesce(Moment(R, a), Empty) = Moment(R, a)
  <2>1. /\ IsRecord(Coalesce(Moment(R, a), Empty))
        /\ \A f \in Fields : Coalesce(Moment(R, a), Empty)[f] = Moment(R, a)[f]
    BY <1>1, EmptyIs, CoalesceRecord
  <2> QED
    BY <1>1, <2>1, SameRecord
<1> QED
  BY <1>2 DEF Carries

(* Two patches, one after the other. *)
LEMMA CarriesBoth ==
  ASSUME NEW R \in Seq(Patches), NEW a \in Nat, NEW b \in Nat, NEW c \in 0..Len(R),
         a <= b, b <= c, NEW p \in Patches, NEW q \in Patches,
         Carries(R, p, a, b), Carries(R, q, b, c)
  PROVE  Carries(R, Coalesce(p, q), a, c)
<1> SUFFICES ASSUME NEW k \in a..c
             PROVE  Coalesce(Moment(R, k), Coalesce(p, q)) = Moment(R, c)
  BY DEF Carries
<1> DEFINE r == Moment(R, k)
           rb == Moment(R, b)
           rc == Moment(R, c)
           pq == Coalesce(p, q)
<1>1. IsRecord(r) /\ IsRecord(rb) /\ IsRecord(rc)
  <2>1. k \in 0..Len(R) /\ b \in 0..Len(R)
    OBVIOUS
  <2> QED
    BY <2>1, MomentIsRecord
<1>2. Coalesce(rb, p) = rb /\ Coalesce(rb, q) = rc
  <2>1. b \in a..b /\ b \in b..c
    OBVIOUS
  <2> QED
    BY <2>1 DEF Carries
<1>3. \/ Coalesce(r, p) = rb
      \/ Coalesce(r, q) = rc
  <2>1. k \in a..b \/ k \in b..c
    OBVIOUS
  <2> QED
    BY <2>1 DEF Carries
<1>4. /\ pq \in Patches /\ DOMAIN pq = DOMAIN p \union DOMAIN q
      /\ \A f \in DOMAIN q : pq[f] = q[f]
      /\ \A f \in DOMAIN p \ DOMAIN q : pq[f] = p[f]
  <2>1. pq \in Patches
    BY CoalescePatches
  <2>2. /\ DOMAIN pq = DOMAIN p \union DOMAIN q
        /\ \A f \in DOMAIN q : pq[f] = q[f]
        /\ \A f \in DOMAIN p \ DOMAIN q : pq[f] = p[f]
    BY DEF Coalesce
  <2> QED
    BY <2>1, <2>2
<1>5. DOMAIN p \subseteq Fields /\ DOMAIN q \subseteq Fields
  BY PatchIs
<1> HIDE DEF r, rb, rc, pq
<1>6. /\ IsRecord(Coalesce(r, pq))
      /\ \A f \in DOMAIN pq : Coalesce(r, pq)[f] = pq[f]
      /\ \A f \in Fields \ DOMAIN pq : Coalesce(r, pq)[f] = r[f]
  BY <1>1, <1>4, CoalesceRecord
<1>7. /\ \A f \in DOMAIN p : rb[f] = p[f]
      /\ \A f \in DOMAIN q : rc[f] = q[f]
      /\ \A f \in Fields \ DOMAIN q : rc[f] = rb[f]
  BY <1>1, <1>2, CoalesceRecord
<1>8. \A f \in Fields \ (DOMAIN p \union DOMAIN q) : r[f] = rc[f]
  <2>1. CASE Coalesce(r, p) = rb
    <3>1. \A f \in Fields \ DOMAIN p : rb[f] = r[f]
      BY <1>1, <2>1, CoalesceRecord
    <3> QED
      BY <1>7, <3>1
  <2>2. CASE Coalesce(r, q) = rc
    BY <1>1, <2>2, CoalesceRecord
  <2> QED
    BY <1>3, <2>1, <2>2
<1>9. \A f \in Fields : Coalesce(r, pq)[f] = rc[f]
  BY <1>4, <1>5, <1>6, <1>7, <1>8
<1> QED
  BY <1>1, <1>6, <1>9, SameRecord DEF r, rc, pq

(* A report carries the record over one moment. *)
LEMMA ReportCarries ==
  ASSUME NEW R \in Seq(Patches), NEW k \in Nat, k < Len(R)
  PROVE  R[k + 1] \in Patches /\ Carries(R, R[k + 1], k, k + 1)
<1> DEFINE p == R[k + 1]
           r == Moment(R, k)
           t == Moment(R, k + 1)
<1>1. k + 1 \in 1..Len(R) /\ p \in Patches /\ t = Coalesce(r, p)
  BY UptoStep DEF Moment
<1>2. IsRecord(r) /\ IsRecord(t)
  <2>1. k \in 0..Len(R) /\ k + 1 \in 0..Len(R)
    OBVIOUS
  <2> QED
    BY <2>1, MomentIsRecord
<1> HIDE DEF p, r, t
<1>3. Coalesce(t, p) = t
  <2>1. \A f \in DOMAIN p : t[f] = p[f]
    BY <1>1, <1>2, CoalesceRecord
  <2>2. /\ IsRecord(Coalesce(t, p))
        /\ \A f \in DOMAIN p : Coalesce(t, p)[f] = p[f]
        /\ \A f \in Fields \ DOMAIN p : Coalesce(t, p)[f] = t[f]
    BY <1>1, <1>2, CoalesceRecord
  <2> QED
    BY <1>2, <2>1, <2>2, SameRecord
<1>4. \A j \in k..(k + 1) : j = k \/ j = k + 1
  OBVIOUS
<1> QED
  BY <1>1, <1>3, <1>4 DEF Carries, p, r, t

(* What a patch does to earlier moments does not change as reports come in. *)
LEMMA CarriesPrefix ==
  ASSUME NEW R \in Seq(Patches), NEW S \in Seq(Patches), NEW p, NEW a \in Nat,
         NEW b \in 0..Len(R), Carries(R, p, a, b)
  PROVE  Carries(R \o S, p, a, b)
<1>1. \A k \in 0..Len(R) : Moment(R \o S, k) = Moment(R, k)
  BY UptoPrefix DEF Moment
<1>2. \A k \in a..b : k \in 0..Len(R)
  OBVIOUS
<1> QED
  BY <1>1, <1>2 DEF Carries

(* The pending patch with everything that is enqueued after it. *)
LEMMA CarriesAll ==
  ASSUME NEW R \in Seq(Patches), NEW S \in Seq(Patches), NEW p \in Patches,
         NEW a \in 0..Len(R), Carries(R, p, a, Len(R))
  PROVE  /\ Merged(p, S) \in Patches
         /\ Carries(R \o S, Merged(p, S), a, Len(R \o S))
<1> DEFINE U == R \o S
           T == {k \in 0..Len(S) : /\ Upto(p, S, k) \in Patches
                                   /\ Carries(U, Upto(p, S, k), a, Len(R) + k)}
<1>0. /\ U \in Seq(Patches) /\ Len(U) = Len(R) + Len(S)
      /\ Len(R) \in Nat /\ Len(S) \in Nat /\ a \in Nat /\ a <= Len(R)
  OBVIOUS
<1>1. 0 \in T
  <2>1. Upto(p, S, 0) = p
    BY UptoEnds
  <2>2. Carries(U, p, a, Len(R))
    BY <1>0, CarriesPrefix
  <2>3. Len(R) + 0 = Len(R) /\ 0 \in 0..Len(S)
    BY <1>0
  <2> HIDE DEF U
  <2> QED
    BY <2>1, <2>2, <2>3
<1>2. ASSUME NEW k \in Nat, k < Len(S), k \in T
      PROVE  k + 1 \in T
  <2> DEFINE b == Len(R) + k
             x == S[k + 1]
  <2>1. /\ k + 1 \in 1..Len(S) /\ x \in Patches
        /\ Upto(p, S, k + 1) = Coalesce(Upto(p, S, k), x)
    BY <1>2, UptoStep
  <2>2. U[b + 1] = x
    <3>1. \A i \in 1..Len(S) : U[Len(R) + i] = S[i]
      OBVIOUS
    <3>2. b + 1 = Len(R) + (k + 1)
      BY <1>0
    <3> QED
      BY <2>1, <3>1, <3>2
  <2>3. /\ b \in Nat /\ b < Len(U) /\ a <= b /\ b <= b + 1 /\ b + 1 \in 0..Len(U)
        /\ b + 1 = Len(R) + (k + 1)
    BY <1>0, <1>2
  <2>4. Upto(p, S, k) \in Patches /\ Carries(U, Upto(p, S, k), a, b)
    BY <1>2
  <2> HIDE DEF U, b, x, T
  <2>5. Carries(U, x, b, b + 1)
    BY <1>0, <2>2, <2>3, ReportCarries
  <2>6. Carries(U, Coalesce(Upto(p, S, k), x), a, b + 1)
    BY <1>0, <2>1, <2>3, <2>4, <2>5, CarriesBoth
  <2>7. Coalesce(Upto(p, S, k), x) \in Patches
    BY <2>1, <2>4, CoalescePatches
  <2>8. k + 1 \in 0..Len(S)
    BY <2>1, <1>0
  <2> QED
    BY <2>1, <2>3, <2>6, <2>7, <2>8 DEF T
<1>3. Len(S) \in T
  <2> HIDE DEF T, U
  <2>1. Len(S) \in 0..Len(S)
    BY <1>0
  <2> QED
    BY <1>0, <1>1, <1>2, <2>1, PositionInduction
<1>4. Upto(p, S, Len(S)) = Merged(p, S)
  BY UptoEnds
<1> QED
  BY <1>0, <1>3, <1>4

------------------------------------------------------------------------------
(* The invariant *)

(* The session reports patches, and what is shown is a moment of it. *)
History ==
    /\ reports \in Seq(Patches)
    /\ shown \in Nat /\ carried \in Nat
    /\ shown <= carried /\ carried <= Len(reports)
    /\ server = Moment(reports, shown)

(* The patch being sent leads to the moment after the last one it carries. *)
Sending == upload # "quiet" => Carries(reports, payload, shown, carried)

(* And the pending one from there to the present, which the server shows     *)
(* when nothing is under way.                                                *)
Waiting ==
    init = "done" /\ ~closed =>
      /\ Carries(reports, pending, carried, Len(reports))
      /\ upload = "quiet" => shown = carried

(* currentState is the state that was reported last. *)
Known == init = "done" => Moment(reports, Len(reports))["worker_status"] = current

(* Before initialize() has returned nothing else is reported. *)
Early ==
    init # "done" =>
      /\ reports = <<InitPatch>> /\ upload = "quiet" /\ carried = 1
      /\ init = "sent" => shown = 0
      /\ init = "applied" => shown = 1
      /\ init = "failed" => closed

MirrorInv == History /\ Sending /\ Waiting /\ Known /\ Early

------------------------------------------------------------------------------
(* What the session reports *)

First(status) == [f \in {"worker_status"} |-> status]

Rest(status) ==
    (CASE status \in Details -> <<[f \in {"pending_action"} |-> status]>>
       [] hasPendingAction /\ ~(status \in Details) ->
            <<[f \in {"pending_action"} |-> Nothing]>>
       [] OTHER -> <<>>)
    \o (IF status = "idle" THEN <<[f \in {"task_summary"} |-> Nothing]>> ELSE <<>>)

(* notifySessionStateChanged, with what it reports by name. *)
LEMMA NotifyStateIs ==
  ASSUME NEW status, NotifyState(status)
  PROVE  /\ MayReport(<<First(status)>> \o Rest(status))
         /\ current' = status /\ hasPendingAction' = (status \in Details)
         /\ reports' = (reports \o <<First(status)>>) \o Rest(status)
         /\ LET sent == IF status = current /\ status \notin Details
                        THEN Rest(status) ELSE <<First(status)>> \o Rest(status)
            IN  EnqueueAll(sent) /\ Settle(sent)
         /\ UNCHANGED <<awaits, init, closed, server, shown>>
  BY DEF NotifyState, First, Rest

(* Patches that are not empty, and leave the fields in F alone. *)
Report(p, F) == p \in Patches /\ p # Empty /\ DOMAIN p \cap F = {}

(* A patch of one field is a report. *)
LEMMA OneField ==
  ASSUME NEW g \in Fields, NEW v \in Values, NEW F, g \notin F
  PROVE  Report([f \in {g} |-> v], F)
<1> DEFINE p == [f \in {g} |-> v]
<1>1. DOMAIN p = {g} /\ p = [f \in DOMAIN p |-> p[f]] /\ \A f \in DOMAIN p : p[f] \in Values
  OBVIOUS
<1> HIDE DEF p
<1>2. p \in Patches
  BY <1>1, PatchIs
<1> QED
  BY <1>1, <1>2, NotEmptyIs DEF Report, p

(* The patch of reportState. *)
LEMMA FirstIs ==
  ASSUME NEW status \in Statuses
  PROVE  Report(First(status), {}) /\ DOMAIN First(status) = {"worker_status"}
                                   /\ First(status)["worker_status"] = status
<1> DEFINE none == {}
<1>1. "worker_status" \in Fields /\ "worker_status" \notin none /\ status \in Values
  BY DEF Fields, Values
<1> HIDE DEF none
<1>2. Report([f \in {"worker_status"} |-> status], none)
  BY <1>1, OneField
<1> QED
  BY <1>2 DEF First, none

Reports(F) == {p \in Patches : Report(p, F)}

(* One report in a sequence. *)
LEMMA OneReport ==
  ASSUME NEW F, NEW p, Report(p, F)
  PROVE  <<p>> \in Seq(Reports(F))
<1>1. p \in Reports(F)
  BY DEF Reports, Report
<1> QED
  BY <1>1

(* The metadata that goes with a state leaves the state alone. *)
LEMMA RestIs ==
  ASSUME NEW status \in Statuses
  PROVE  Rest(status) \in Seq(Reports({"worker_status"}))
<1> DEFINE W == {"worker_status"}
           action(v) == [f \in {"pending_action"} |-> v]
           summary == [f \in {"task_summary"} |-> Nothing]
           s == CASE status \in Details -> <<action(status)>>
                  [] hasPendingAction /\ ~(status \in Details) -> <<action(Nothing)>>
                  [] OTHER -> <<>>
           t == IF status = "idle" THEN <<summary>> ELSE <<>>
<1>1. \A v \in Values : <<action(v)>> \in Seq(Reports(W))
  <2>1. "pending_action" \in Fields /\ "pending_action" \notin W
    BY DEF Fields
  <2> QED
    BY <2>1, OneField, OneReport
<1>2. <<summary>> \in Seq(Reports(W))
  <2>1. "task_summary" \in Fields /\ "task_summary" \notin W /\ Nothing \in Values
    BY DEF Fields, Values
  <2> QED
    BY <2>1, OneField, OneReport
<1>3. status \in Values /\ Nothing \in Values /\ <<>> \in Seq(Reports(W))
  BY DEF Values
<1> HIDE DEF action, summary
<1>4. s \in Seq(Reports(W)) /\ t \in Seq(Reports(W))
  <2> HIDE DEF W
  <2> QED
    BY <1>1, <1>2, <1>3
<1>5. Rest(status) = s \o t
  BY DEF Rest, action, summary
<1> HIDE DEF s, t, W
<1>6. s \o t \in Seq(Reports(W))
  BY <1>4
<1> QED
  BY <1>5, <1>6 DEF W

(* So does reportMetadata. *)
LEMMA MetadataIs ==
  ASSUME NEW patch \in Metadata
  PROVE  Report(patch, {"worker_status"})
<1>1. CASE patch \in [{"model"} -> Models]
  <2>1. patch = [f \in {"model"} |-> patch["model"]] /\ patch["model"] \in Values
    BY <1>1 DEF Values
  <2>2. "model" \in Fields /\ "model" \notin {"worker_status"}
    BY DEF Fields
  <2> QED
    BY <2>1, <2>2, OneField
<1>2. CASE patch \in [{"task_summary"} -> {"progress"}]
  <2>1. patch = [f \in {"task_summary"} |-> "progress"] /\ "progress" \in Values
    BY <1>2 DEF Values
  <2>2. "task_summary" \in Fields /\ "task_summary" \notin {"worker_status"}
    BY DEF Fields
  <2> QED
    BY <2>1, <2>2, OneField
<1> QED
  BY <1>1, <1>2 DEF Metadata

(* Sequences of reports are sequences of patches. *)
LEMMA ReportsArePatches ==
  ASSUME NEW F, NEW S \in Seq(Reports(F))
  PROVE  S \in Seq(Patches) /\ \A i \in 1..Len(S) : Report(S[i], F)
<1>1. \A p \in Reports(F) : p \in Patches /\ Report(p, F)
  BY DEF Reports
<1> QED
  BY <1>1

(* Reports of other fields leave a field of the record as it was. *)
LEMMA FieldStays ==
  ASSUME NEW R \in Seq(Patches), NEW g \in Fields, NEW S \in Seq(Reports({g}))
  PROVE  Moment(R \o S, Len(R \o S))[g] = Moment(R, Len(R))[g]
<1> DEFINE U == R \o S
           T == {k \in 0..Len(S) : Moment(U, Len(R) + k)[g] = Moment(R, Len(R))[g]}
<1>0. /\ S \in Seq(Patches) /\ U \in Seq(Patches) /\ Len(U) = Len(R) + Len(S)
      /\ Len(R) \in Nat /\ Len(S) \in Nat
  <2>1. S \in Seq(Patches)
    BY ReportsArePatches
  <2> QED
    BY <2>1
<1>1. 0 \in T
  <2>1. Len(R) \in 0..Len(R) /\ Len(R) + 0 = Len(R) /\ 0 \in 0..Len(S)
    BY <1>0
  <2>2. Moment(U, Len(R)) = Moment(R, Len(R))
    BY <1>0, <2>1, UptoPrefix DEF Moment
  <2> HIDE DEF U
  <2> QED
    BY <2>1, <2>2
<1>2. ASSUME NEW k \in Nat, k < Len(S), k \in T
      PROVE  k + 1 \in T
  <2> DEFINE r == Moment(U, Len(R) + k)
             p == S[k + 1]
  <2>1. /\ k + 1 \in 1..Len(S) /\ k + 1 \in 0..Len(S)
        /\ Moment(U, Len(R) + k + 1) = Coalesce(r, p)
    BY <1>0, <1>2, UptoSuffix DEF Moment
  <2>2. p \in Patches /\ g \notin DOMAIN p
    BY <2>1, ReportsArePatches DEF Report
  <2>3. IsRecord(r)
    <3>1. Len(R) + k \in 0..Len(U)
      BY <1>0, <1>2
    <3> QED
      BY <1>0, <3>1, MomentIsRecord
  <2>4. Len(R) + k + 1 = Len(R) + (k + 1)
    BY <1>0
  <2>5. r[g] = Moment(R, Len(R))[g]
    BY <1>2
  <2> HIDE DEF r, p, U
  <2>6. Coalesce(r, p)[g] = r[g]
    BY <2>2, <2>3, CoalesceRecord
  <2> QED
    BY <2>1, <2>4, <2>5, <2>6
<1>3. Len(S) \in T
  <2> HIDE DEF T
  <2>1. Len(S) \in 0..Len(S)
    BY <1>0
  <2> QED
    BY <1>0, <1>1, <1>2, <2>1, PositionInduction
<1> QED
  BY <1>0, <1>3

------------------------------------------------------------------------------
(* What enqueue does to it *)

(* Facts on sequences that the provers find only alone. *)
LEMMA ConcatAssoc ==
  ASSUME NEW X, NEW r \in Seq(X), NEW s \in Seq(X), NEW t \in Seq(X)
  PROVE  (r \o s) \o t = r \o (s \o t)
  OBVIOUS

LEMMA ConcatIs ==
  ASSUME NEW X, NEW r \in Seq(X), NEW s \in Seq(X)
  PROVE  /\ r \o s \in Seq(X) /\ Len(r \o s) = Len(r) + Len(s)
         /\ Len(r) \in Nat /\ Len(s) \in Nat
  OBVIOUS

LEMMA ConcatItems ==
  ASSUME NEW X, NEW r \in Seq(X), NEW s \in Seq(X)
  PROVE  \A i \in 1..Len(s) : (r \o s)[Len(r) + i] = s[i]
  OBVIOUS

(* What enqueue leaves is typed. *)
LEMMA EnqueueTyped ==
  ASSUME WorkerTypeOK, NEW F, NEW S \in Seq(Reports(F)), EnqueueAll(S), UNCHANGED closed
  PROVE  /\ pending' \in Patches /\ payload' \in Patches
         /\ upload' \in {"quiet", "sending", "sleeping"}
         /\ upload' = "quiet" <=> payload' = Empty
         /\ closed' \/ upload' = "quiet" => pending' = Empty
<1>1. S \in Seq(Patches) /\ \A i \in 1..Len(S) : Report(S[i], F)
  BY ReportsArePatches
<1>2. CASE closed \/ S = <<>>
  BY <1>2 DEF EnqueueAll, WorkerTypeOK
<1>3. CASE ~closed /\ S # <<>> /\ upload = "quiet"
  <2>1. /\ upload' = "sending" /\ payload' = Head(S) /\ pending' = Merged(Empty, Tail(S))
    BY <1>3 DEF EnqueueAll
  <2>2. Head(S) \in Patches /\ Head(S) # Empty
    <3>1. Head(S) = S[1] /\ 1 \in 1..Len(S)
      BY <1>1, <1>3
    <3> QED
      BY <1>1, <3>1 DEF Report
  <2>3. Tail(S) \in Seq(Patches)
    BY <1>1, <1>3
  <2>4. Merged(Empty, Tail(S)) \in Patches
    BY <2>3, EmptyIs, MergedPatches
  <2> QED
    BY <1>3, <2>1, <2>2, <2>4 DEF WorkerTypeOK
<1>4. CASE ~closed /\ S # <<>> /\ upload # "quiet"
  <2>1. pending' = Merged(pending, S) /\ UNCHANGED <<payload, upload>>
    BY <1>4 DEF EnqueueAll
  <2>2. Merged(pending, S) \in Patches
    BY <1>1, MergedPatches DEF WorkerTypeOK
  <2> QED
    BY <1>4, <2>1, <2>2 DEF WorkerTypeOK
<1> QED
  BY <1>2, <1>3, <1>4

(* Reports that are enqueued: R is what was reported before them.            *)
LEMMA EnqueueMoves ==
  ASSUME WorkerTypeOK, NEW F, NEW S \in Seq(Reports(F)), NEW R \in Seq(Patches),
         shown \in Nat, carried \in Nat, shown <= carried, carried <= Len(R),
         server = Moment(R, shown),
         upload # "quiet" => Carries(R, payload, shown, carried),
         ~closed => /\ Carries(R, pending, carried, Len(R))
                    /\ upload = "quiet" => shown = carried,
         reports' = R \o S, EnqueueAll(S), UNCHANGED <<awaits, init, closed, server, shown>>
  PROVE  History' /\ Sending' /\ Waiting'
<1>0. /\ S \in Seq(Patches) /\ \A i \in 1..Len(S) : Report(S[i], F)
      /\ R \o S \in Seq(Patches) /\ Len(R \o S) = Len(R) + Len(S)
      /\ Len(R) \in Nat /\ Len(S) \in Nat /\ shown \in 0..Len(R) /\ carried \in 0..Len(R)
  <2>1. S \in Seq(Patches) /\ \A i \in 1..Len(S) : Report(S[i], F)
    BY ReportsArePatches
  <2> QED
    BY <2>1
<1>1. pending \in Patches /\ payload \in Patches
  BY DEF WorkerTypeOK
<1>2. server' = Moment(R \o S, shown)
  BY <1>0, UptoPrefix DEF Moment
<1>3. upload # "quiet" => Carries(R \o S, payload, shown, carried)
  BY <1>0, CarriesPrefix
<1>4. CASE closed \/ S = <<>>
  <2>1. UNCHANGED <<pending, payload, upload, carried>>
    BY <1>4 DEF EnqueueAll
  <2>2. S = <<>> => R \o S = R
    OBVIOUS
  <2>3. History' /\ Sending'
    BY <1>0, <1>2, <1>3, <2>1 DEF History, Sending
  <2>4. Waiting'
    BY <1>4, <2>1, <2>2 DEF Waiting
  <2> QED
    BY <2>3, <2>4
<1>5. CASE ~closed /\ S # <<>> /\ upload = "quiet"
  <2> DEFINE x == Head(S)
             one == <<x>>
             rest == Tail(S)
             Q == R \o one
  <2>1. /\ upload' = "sending" /\ payload' = x /\ pending' = Merged(Empty, rest)
        /\ carried' = Len(reports') - Len(rest)
    BY <1>5 DEF EnqueueAll
  <2>2. /\ x \in Patches /\ one \in Seq(Patches) /\ rest \in Seq(Patches)
        /\ Q \in Seq(Patches) /\ Len(Q) = Len(R) + 1 /\ S = one \o rest
        /\ Q[Len(R) + 1] = x
    <3>1. x \in Patches /\ rest \in Seq(Patches)
      BY <1>0, <1>5
    <3>2. S = one \o rest
      BY <1>0, <1>5
    <3> QED
      BY <1>0, <3>1, <3>2
  <2>3. Q \o rest = R \o S
    <3> HIDE DEF one, rest
    <3>1. (R \o one) \o rest = R \o (one \o rest)
      BY <2>2, ConcatAssoc
    <3> QED
      BY <2>2, <3>1
  <2> HIDE DEF x, one, rest, Q
  <2>4. /\ Q \o rest \in Seq(Patches) /\ Len(Q \o rest) = Len(Q) + Len(rest)
        /\ Len(rest) \in Nat /\ Len(Q) \in Nat
    BY <2>2, ConcatIs
  <2>5. carried' = Len(Q)
    BY <2>1, <2>3, <2>4
  <2>6. Carries(R, Empty, shown, Len(R))
    BY <1>5 DEF WorkerTypeOK
  <2>7. Carries(Q, Empty, shown, Len(R))
    BY <1>0, <2>2, <2>6, CarriesPrefix DEF Q
  <2>8. Carries(Q, x, Len(R), Len(R) + 1)
    <3>1. Len(R) < Len(Q)
      BY <1>0, <2>2
    <3> QED
      BY <1>0, <2>2, <3>1, ReportCarries
  <2>9. Coalesce(Empty, x) = x
    <3>1. x = [f \in DOMAIN x |-> x[f]]
      BY <2>2, PatchIs
    <3> QED
      BY <3>1, EmptyIs DEF Coalesce
  <2>10. Carries(Q, x, shown, Len(Q))
    <3>1. /\ shown <= Len(R) /\ Len(R) <= Len(R) + 1 /\ Len(R) + 1 \in 0..Len(Q)
      BY <1>0, <2>2
    <3>2. Carries(Q, Coalesce(Empty, x), shown, Len(R) + 1)
      BY <1>0, <2>2, <2>7, <2>8, <3>1, EmptyIs, CarriesBoth
    <3> QED
      BY <2>2, <2>9, <3>2
  <2>11. Carries(Q \o rest, x, shown, Len(Q))
    <3>1. Len(Q) \in 0..Len(Q)
      BY <2>4
    <3> QED
      BY <1>0, <2>2, <2>10, <3>1, CarriesPrefix
  <2>12. Carries(Q \o rest, Merged(Empty, rest), Len(Q), Len(Q \o rest))
    <3>1. Len(Q) \in 0..Len(Q)
      BY <2>4
    <3>2. Carries(Q, Empty, Len(Q), Len(Q))
      BY <2>2, <3>1, CarriesNothing
    <3> QED
      BY <2>2, <3>1, <3>2, EmptyIs, CarriesAll
  <2>13. /\ shown <= carried' /\ carried' <= Len(R \o S) /\ carried' \in Nat
    BY <1>0, <2>2, <2>3, <2>4, <2>5
  <2>14. History'
    BY <1>0, <1>2, <2>13 DEF History
  <2>15. Sending'
    BY <2>1, <2>3, <2>5, <2>11 DEF Sending
  <2>16. Waiting'
    BY <2>1, <2>3, <2>5, <2>12 DEF Waiting
  <2> QED
    BY <2>14, <2>15, <2>16
<1>6. CASE ~closed /\ S # <<>> /\ upload # "quiet"
  <2>1. pending' = Merged(pending, S) /\ UNCHANGED <<payload, upload, carried>>
    BY <1>6 DEF EnqueueAll
  <2>2. Carries(R \o S, Merged(pending, S), carried, Len(R \o S))
    BY <1>0, <1>1, <1>6, CarriesAll
  <2>3. History' /\ Sending'
    BY <1>0, <1>2, <1>3, <2>1 DEF History, Sending
  <2>4. Waiting'
    BY <1>6, <2>1, <2>2 DEF Waiting
  <2> QED
    BY <2>3, <2>4
<1> QED
  BY <1>4, <1>5, <1>6

(* A report that repeats the state adds a moment that is like the last one.  *)
LEMMA Repetition ==
  ASSUME WorkerTypeOK, MirrorInv, init = "done", NEW status \in Statuses, status = current
  PROVE  LET R == reports \o <<First(status)>>
         IN  /\ R \in Seq(Patches) /\ carried <= Len(R) /\ server = Moment(R, shown)
             /\ upload # "quiet" => Carries(R, payload, shown, carried)
             /\ ~closed => Carries(R, pending, carried, Len(R))
<1> DEFINE x == First(status)
           one == <<x>>
           R == reports \o one
           n == Len(reports)
<1>1. /\ x \in Patches /\ DOMAIN x = {"worker_status"} /\ x["worker_status"] = status
  BY FirstIs DEF Report
<1>2. /\ reports \in Seq(Patches) /\ one \in Seq(Patches) /\ R \in Seq(Patches)
      /\ n \in Nat /\ Len(R) = n + 1 /\ n \in 0..n /\ R[n + 1] = x
      /\ shown \in 0..n /\ carried \in 0..n
  BY <1>1 DEF MirrorInv, History
<1> HIDE DEF x, one
<1>3. \A k \in 0..n : Moment(R, k) = Moment(reports, k)
  BY <1>2, UptoPrefix DEF Moment
<1>4. Moment(R, n + 1) = Moment(R, n)
  <2> DEFINE r == Moment(reports, n)
  <2>1. Moment(R, n + 1) = Coalesce(r, x)
    <3>1. n < Len(R)
      BY <1>2
    <3>2. Upto(Stale, R, n + 1) = Coalesce(Upto(Stale, R, n), R[n + 1])
      BY <1>2, <3>1, UptoStep
    <3> QED
      BY <1>2, <1>3, <3>2 DEF Moment
  <2>2. IsRecord(r)
    BY <1>2, MomentIsRecord
  <2>3. r["worker_status"] = status
    BY DEF MirrorInv, Known
  <2> HIDE DEF r
  <2>4. /\ IsRecord(Coalesce(r, x))
        /\ \A f \in DOMAIN x : Coalesce(r, x)[f] = x[f]
        /\ \A f \in Fields \ DOMAIN x : Coalesce(r, x)[f] = r[f]
    BY <1>1, <2>2, CoalesceRecord
  <2>5. \A f \in Fields : Coalesce(r, x)[f] = r[f]
    BY <1>1, <2>3, <2>4
  <2>6. Coalesce(r, x) = r
    BY <2>2, <2>4, <2>5, SameRecord
  <2> QED
    BY <1>2, <1>3, <2>1, <2>6 DEF r
<1>5. server = Moment(R, shown)
  BY <1>2, <1>3 DEF MirrorInv, History
<1>6. upload # "quiet" => Carries(R, payload, shown, carried)
  BY <1>2, CarriesPrefix DEF MirrorInv, Sending
<1>7. ~closed => Carries(R, pending, carried, Len(R))
  <2> SUFFICES ASSUME ~closed, NEW k \in carried..Len(R)
               PROVE  Coalesce(Moment(R, k), pending) = Moment(R, Len(R))
    BY DEF Carries
  <2>1. Carries(R, pending, carried, n)
    BY <1>2, CarriesPrefix DEF MirrorInv, Waiting
  <2>2. k \in carried..n \/ k = n + 1
    BY <1>2
  <2>3. n \in carried..n
    BY <1>2
  <2> HIDE DEF R, n
  <2> QED
    BY <1>2, <1>4, <2>1, <2>2, <2>3 DEF Carries
<1> QED
  BY <1>2, <1>5, <1>6, <1>7 DEF x, one

------------------------------------------------------------------------------
(* The typing *)

(* The typing, with that of the history. *)
Typed == WorkerTypeOK /\ reports \in Seq(Patches)

(* The patch of initialize(). *)
LEMMA InitPatchIs ==
  /\ InitPatch \in Patches
  /\ DOMAIN InitPatch = {"worker_status", "pending_action", "task_summary"}
  /\ InitPatch["worker_status"] = "idle"
<1>1. /\ DOMAIN InitPatch = {"worker_status", "pending_action", "task_summary"}
      /\ InitPatch["worker_status"] = "idle"
      /\ InitPatch = [f \in DOMAIN InitPatch |-> InitPatch[f]]
      /\ \A f \in DOMAIN InitPatch : InitPatch[f] \in {"idle", Nothing}
  BY DEF InitPatch
<1>2. "idle" \in Values /\ Nothing \in Values
  BY DEF Values, Statuses
<1>3. DOMAIN InitPatch \subseteq Fields
  BY <1>1 DEF Fields
<1>4. InitPatch \in Patches
  BY <1>1, <1>2, <1>3, PatchIs
<1> QED
  BY <1>1, <1>4

(* A sequence over a set is one over a larger set. *)
LEMMA WiderSeq ==
  ASSUME NEW A, NEW B, A \subseteq B, NEW s \in Seq(A)
  PROVE  s \in Seq(B)
  OBVIOUS

(* Whatever the fields they leave alone, reports are reports. *)
LEMMA AnyReports ==
  ASSUME NEW F, NEW S \in Seq(Reports(F))
  PROVE  S \in Seq(Reports({}))
<1>1. Reports(F) \subseteq Reports({})
  BY DEF Reports, Report
<1> QED
  BY <1>1, WiderSeq

(* What notifySessionStateChanged reports, and what of it is enqueued. *)
LEMMA NotifyStateReports ==
  ASSUME NEW status \in Statuses
  PROVE  /\ <<First(status)>> \in Seq(Reports({}))
         /\ Rest(status) \in Seq(Reports({"worker_status"}))
         /\ Rest(status) \in Seq(Reports({}))
         /\ <<First(status)>> \o Rest(status) \in Seq(Reports({}))
<1> DEFINE one == <<First(status)>>
           rest == Rest(status)
           none == {}
<1>1. Report(First(status), none)
  BY FirstIs
<1>2. rest \in Seq(Reports({"worker_status"}))
  BY RestIs
<1> HIDE DEF rest, none
<1>3. one \in Seq(Reports(none))
  BY <1>1, OneReport
<1>4. rest \in Seq(Reports(none))
  BY <1>2, AnyReports DEF none
<1> HIDE DEF one
<1>5. one \o rest \in Seq(Reports(none))
  BY <1>3, <1>4, ConcatIs
<1> QED
  BY <1>2, <1>3, <1>4, <1>5 DEF one, rest, none

(* Typed holds at first and after every step. *)
LEMMA InitTyped == WorkerInit => Typed
<1> SUFFICES ASSUME WorkerInit PROVE Typed
  OBVIOUS
<1>1. reports \in Seq(Patches) /\ Len(reports) = 1 /\ 1 <= MaxReports
  <2>1. reports = <<InitPatch>>
    BY DEF WorkerInit
  <2>2. <<InitPatch>> \in Seq(Patches) /\ Len(<<InitPatch>>) = 1
    BY InitPatchIs
  <2>3. 1 <= MaxReports
    BY WorkerStateAssumption
  <2> QED
    BY <2>1, <2>2, <2>3
<1>2. DOMAIN server = Fields
  BY DEF WorkerInit, Stale
<1> QED
  BY <1>1, <1>2, EmptyIs DEF WorkerInit, Typed, WorkerTypeOK

LEMMA SettleTyped ==
  ASSUME Typed, NEW S \in Seq(Patches), Settle(S)
  PROVE  settled' \in SUBSET Fields
<1>1. \A i \in DOMAIN S : DOMAIN S[i] \subseteq Fields
  BY PatchIs
<1> QED
  BY <1>1 DEF Settle, Typed, WorkerTypeOK

LEMMA NotifyStateTyped ==
  ASSUME Typed, NEW status \in Statuses, NotifyState(status)
  PROVE  Typed'
<1> DEFINE one == <<First(status)>>
           rest == Rest(status)
           S == IF status = current /\ status \notin Details THEN rest ELSE one \o rest
<1>1. /\ MayReport(one \o rest) /\ current' = status
      /\ hasPendingAction' = (status \in Details)
      /\ reports' = (reports \o one) \o rest /\ EnqueueAll(S) /\ Settle(S)
      /\ UNCHANGED <<awaits, init, closed, server, shown>>
  BY NotifyStateIs
<1>2. /\ one \in Seq(Reports({})) /\ rest \in Seq(Reports({}))
      /\ one \o rest \in Seq(Reports({}))
  BY NotifyStateReports
<1> HIDE DEF one, rest
<1>3. S \in Seq(Reports({}))
  BY <1>2
<1>4. one \in Seq(Patches) /\ rest \in Seq(Patches)
  BY <1>2, ReportsArePatches
<1>5. reports' \in Seq(Patches) /\ Len(reports') <= MaxReports
  <2>1. /\ reports \o one \in Seq(Patches) /\ one \o rest \in Seq(Patches)
        /\ Len(reports \o one) = Len(reports) + Len(one)
        /\ Len(one \o rest) = Len(one) + Len(rest)
        /\ Len(reports) \in Nat /\ Len(one) \in Nat /\ Len(rest) \in Nat
    BY <1>4, ConcatIs DEF Typed
  <2>2. reports' \in Seq(Patches) /\ Len(reports') = Len(reports \o one) + Len(rest)
    BY <1>1, <1>4, <2>1, ConcatIs
  <2>3. Len(reports) + Len(one \o rest) <= MaxReports
    BY <1>1 DEF MayReport
  <2> QED
    BY <2>1, <2>2, <2>3
<1> HIDE DEF S
<1>6. /\ pending' \in Patches /\ payload' \in Patches
      /\ upload' \in {"quiet", "sending", "sleeping"}
      /\ upload' = "quiet" <=> payload' = Empty
      /\ closed' \/ upload' = "quiet" => pending' = Empty
  BY <1>1, <1>3, EnqueueTyped DEF Typed
<1>7. (status \in Details) \in BOOLEAN
  OBVIOUS
<1>8. settled' \in SUBSET Fields
  BY <1>1, <1>3, ReportsArePatches, SettleTyped
<1> QED
  BY <1>1, <1>5, <1>6, <1>7, <1>8 DEF Typed, WorkerTypeOK

LEMMA NotifyMetadataTyped ==
  ASSUME Typed, NEW patch \in Metadata, NotifyMetadata(patch)
  PROVE  Typed'
<1> DEFINE S == <<patch>>
           W == {"worker_status"}
<1>1. Report(patch, W)
  BY MetadataIs
<1> HIDE DEF W
<1>2. S \in Seq(Reports(W)) /\ S \in Seq(Patches) /\ patch \in Patches
  <2>1. S \in Seq(Reports(W))
    BY <1>1, OneReport
  <2> QED
    BY <1>1, <2>1, ReportsArePatches DEF Report
<1>3. reports' \in Seq(Patches) /\ Len(reports') <= MaxReports
  <2>1. reports' = Append(reports, patch) /\ Len(reports) + Len(S) <= MaxReports
    BY DEF NotifyMetadata, MayReport
  <2>2. Len(S) = 1
    OBVIOUS
  <2> HIDE DEF S
  <2> QED
    BY <1>2, <2>1, <2>2 DEF Typed
<1>4. /\ EnqueueAll(S) /\ Settle(S)
      /\ UNCHANGED <<awaits, hasPendingAction, init, current, closed, server, shown>>
  BY DEF NotifyMetadata
<1> HIDE DEF S
<1>5. /\ pending' \in Patches /\ payload' \in Patches
      /\ upload' \in {"quiet", "sending", "sleeping"}
      /\ upload' = "quiet" <=> payload' = Empty
      /\ closed' \/ upload' = "quiet" => pending' = Empty
  BY <1>2, <1>4, EnqueueTyped DEF Typed
<1>6. settled' \in SUBSET Fields
  BY <1>2, <1>4, SettleTyped
<1> QED
  BY <1>3, <1>4, <1>5, <1>6 DEF Typed, WorkerTypeOK

(* The fields of the record are those of a session, whatever is applied. *)
LEMMA ApplyTyped ==
  ASSUME Typed, NEW p \in Patches
  PROVE  DOMAIN Coalesce(server, p) = Fields
<1>1. DOMAIN server = Fields /\ DOMAIN p \subseteq Fields
  BY PatchIs DEF Typed, WorkerTypeOK
<1> QED
  BY <1>1 DEF Coalesce

LEMMA UploaderTyped == Typed /\ (PutSucceeds \/ PutFails \/ Wake) => Typed'
<1> SUFFICES ASSUME Typed, PutSucceeds \/ PutFails \/ Wake
             PROVE  Typed'
  OBVIOUS
<1> USE DEF Typed, WorkerTypeOK
<1>0. DOMAIN Coalesce(server, payload) = Fields /\ Empty \in Patches
  BY ApplyTyped, EmptyIs
<1>1. CASE PutSucceeds
  BY <1>0, <1>1 DEF PutSucceeds, Apply, Drain
<1>2. CASE PutFails
  BY <1>0, <1>2 DEF PutFails, Apply
<1>3. CASE Wake
  <2>1. /\ Coalesce(payload, pending) \in Patches
        /\ payload # Empty => Coalesce(payload, pending) # Empty
    BY CoalescePatches
  <2> QED
    BY <1>0, <1>3, <2>1 DEF Wake
<1> QED
  BY <1>1, <1>2, <1>3

LEMMA NextTyped == Typed /\ [WorkerNext]_workerVars => Typed'
<1> SUFFICES ASSUME Typed, [WorkerNext]_workerVars
             PROVE  Typed'
  OBVIOUS
<1>1. CASE Close
  BY <1>1, EmptyIs DEF Close, Typed, WorkerTypeOK
<1>2. CASE InitApplied
  <2>1. DOMAIN Coalesce(server, InitPatch) = Fields
    BY InitPatchIs, ApplyTyped
  <2> QED
    BY <1>2, <2>1 DEF InitApplied, Typed, WorkerTypeOK
<1>3. CASE InitReturns
  <2>1. "idle" \in Statuses
    BY DEF Statuses
  <2> QED
    BY <1>3, <2>1 DEF InitReturns, Typed, WorkerTypeOK
<1>4. CASE InitFails
  BY <1>4, EmptyIs DEF InitFails, Typed, WorkerTypeOK
<1>5. CASE UNCHANGED workerVars
  BY <1>5 DEF workerVars, Typed, WorkerTypeOK
<1> QED
  BY <1>1, <1>2, <1>3, <1>4, <1>5, NotifyStateTyped, NotifyMetadataTyped, UploaderTyped
     DEF WorkerNext

LEMMA Types == WorkerSpec => []Typed
  BY InitTyped, NextTyped, PTL DEF WorkerSpec

------------------------------------------------------------------------------
(* The steps *)

WorkerInv == WorkerTypeOK /\ MirrorInv

(* The invariant holds at first. *)
LEMMA InitMirrors == WorkerInit => WorkerInv
<1> SUFFICES ASSUME WorkerInit PROVE WorkerInv
  OBVIOUS
<1>1. Typed
  BY InitTyped
<1>2. Stale = Moment(reports, 0)
  BY <1>1, UptoEnds DEF Typed, Moment
<1>3. Len(reports) = 1
  BY DEF WorkerInit
<1>4. History
  BY <1>1, <1>2, <1>3 DEF WorkerInit, History, Typed
<1> QED
  BY <1>1, <1>4 DEF WorkerInit, Typed, WorkerInv, MirrorInv, Sending, Waiting, Known, Early

(* The last report of a field is what the last moment shows of it. *)
LEMMA LastReport ==
  ASSUME NEW R \in Seq(Patches), NEW p \in Patches, NEW f \in DOMAIN p
  PROVE  Moment(R \o <<p>>, Len(R \o <<p>>))[f] = p[f]
<1> DEFINE one == <<p>>
           U == R \o one
           n == Len(R)
<1>1. one \in Seq(Patches) /\ Len(one) = 1 /\ one[1] = p
  OBVIOUS
<1> HIDE DEF one
<1>2. U \in Seq(Patches) /\ Len(U) = n + 1 /\ n \in Nat /\ U[n + 1] = p
  <2>1. U \in Seq(Patches) /\ Len(U) = n + 1 /\ n \in Nat
    BY <1>1, ConcatIs
  <2>2. \A i \in 1..Len(one) : U[n + i] = one[i]
    BY <1>1, ConcatItems
  <2> QED
    BY <1>1, <2>1, <2>2
<1> HIDE DEF U, n
<1>3. Moment(U, n + 1) = Coalesce(Moment(U, n), p)
  <2>1. n < Len(U)
    BY <1>2
  <2>2. Upto(Stale, U, n + 1) = Coalesce(Upto(Stale, U, n), U[n + 1])
    BY <1>2, <2>1, UptoStep
  <2> QED
    BY <1>2, <2>2 DEF Moment
<1>4. IsRecord(Moment(U, n))
  <2>1. n \in 0..Len(U)
    BY <1>2
  <2> QED
    BY <1>2, <2>1, MomentIsRecord
<1>5. Coalesce(Moment(U, n), p)[f] = p[f]
  BY <1>4, CoalesceRecord
<1> QED
  BY <1>2, <1>3, <1>5 DEF U, one

(* A state is reported: the case in which reportState drops it is Repetition. *)
LEMMA NotifyStateMirrors ==
  ASSUME WorkerInv, init = "done", NEW status \in Statuses, NotifyState(status)
  PROVE  MirrorInv'
<1> DEFINE x == First(status)
           one == <<x>>
           rest == Rest(status)
           W == {"worker_status"}
           none == {}
           Q == reports \o one
<1>1. /\ current' = status /\ reports' = Q \o rest
      /\ EnqueueAll(IF status = current /\ status \notin Details THEN rest ELSE one \o rest)
      /\ UNCHANGED <<awaits, init, closed, server, shown>>
  BY NotifyStateIs
<1>2. /\ x \in Patches /\ "worker_status" \in DOMAIN x /\ x["worker_status"] = status
      /\ "worker_status" \in Fields
  BY FirstIs DEF Report, Fields
<1>3. rest \in Seq(Reports(W)) /\ one \o rest \in Seq(Reports(none))
  BY NotifyStateReports
<1> HIDE DEF x, rest, none
<1>4. one \in Seq(Patches) /\ rest \in Seq(Patches) /\ reports \in Seq(Patches)
  BY <1>2, <1>3, ReportsArePatches DEF WorkerInv, MirrorInv, History
<1>5. Moment(Q, Len(Q))["worker_status"] = status
  BY <1>2, <1>4, LastReport
<1> HIDE DEF one, W
<1>6. Q \in Seq(Patches) /\ Q \o rest = reports \o (one \o rest)
  BY <1>4, ConcatIs, ConcatAssoc
<1> HIDE DEF Q
<1>7. Known'
  <2>1. Moment(Q \o rest, Len(Q \o rest))["worker_status"] = Moment(Q, Len(Q))["worker_status"]
    BY <1>2, <1>3, <1>6, FieldStays DEF W
  <2> QED
    BY <1>1, <1>5, <2>1 DEF Known
<1>8. Early'
  BY <1>1 DEF Early
<1>9. /\ shown \in Nat /\ carried \in Nat /\ shown <= carried /\ carried <= Len(reports)
      /\ server = Moment(reports, shown)
      /\ upload # "quiet" => Carries(reports, payload, shown, carried)
      /\ ~closed => /\ Carries(reports, pending, carried, Len(reports))
                    /\ upload = "quiet" => shown = carried
  BY DEF WorkerInv, MirrorInv, History, Sending, Waiting
<1>10. CASE status = current /\ status \notin Details
  <2>1. EnqueueAll(rest)
    BY <1>1, <1>10
  <2>2. /\ carried <= Len(Q) /\ server = Moment(Q, shown)
        /\ upload # "quiet" => Carries(Q, payload, shown, carried)
        /\ ~closed => Carries(Q, pending, carried, Len(Q))
    BY <1>10, Repetition DEF WorkerInv, Q, one, x
  <2>3. History' /\ Sending' /\ Waiting'
    BY <1>1, <1>3, <1>6, <1>9, <2>1, <2>2, EnqueueMoves DEF WorkerInv
  <2> QED
    BY <1>7, <1>8, <2>3 DEF MirrorInv
<1>11. CASE ~(status = current /\ status \notin Details)
  <2>1. EnqueueAll(one \o rest)
    BY <1>1, <1>11
  <2>2. reports' = reports \o (one \o rest)
    BY <1>1, <1>6
  <2>3. History' /\ Sending' /\ Waiting'
    BY <1>1, <1>3, <1>4, <1>9, <2>1, <2>2, EnqueueMoves DEF WorkerInv
  <2> QED
    BY <1>7, <1>8, <2>3 DEF MirrorInv
<1> QED
  BY <1>10, <1>11

(* Metadata is reported. *)
LEMMA NotifyMetadataMirrors ==
  ASSUME WorkerInv, init = "done", NEW patch \in Metadata, NotifyMetadata(patch)
  PROVE  MirrorInv'
<1> DEFINE S == <<patch>>
           W == {"worker_status"}
<1>1. /\ reports' = reports \o S /\ EnqueueAll(S)
      /\ UNCHANGED <<awaits, hasPendingAction, init, current, closed, server, shown>>
  <2>1. reports \o S = Append(reports, patch)
    BY DEF WorkerInv, MirrorInv, History
  <2> QED
    BY <2>1 DEF NotifyMetadata
<1>2. Report(patch, W)
  BY MetadataIs
<1>3. "worker_status" \in Fields
  BY DEF Fields
<1> HIDE DEF W
<1>4. S \in Seq(Reports(W))
  BY <1>2, OneReport
<1> HIDE DEF S
<1>5. /\ shown \in Nat /\ carried \in Nat /\ shown <= carried /\ carried <= Len(reports)
      /\ server = Moment(reports, shown) /\ reports \in Seq(Patches)
      /\ upload # "quiet" => Carries(reports, payload, shown, carried)
      /\ ~closed => /\ Carries(reports, pending, carried, Len(reports))
                    /\ upload = "quiet" => shown = carried
  BY DEF WorkerInv, MirrorInv, History, Sending, Waiting
<1>6. History' /\ Sending' /\ Waiting'
  BY <1>1, <1>4, <1>5, EnqueueMoves DEF WorkerInv
<1>7. Known'
  <2>1. Moment(reports \o S, Len(reports \o S))["worker_status"]
          = Moment(reports, Len(reports))["worker_status"]
    BY <1>3, <1>4, <1>5, FieldStays DEF W
  <2> QED
    BY <1>1, <2>1 DEF WorkerInv, MirrorInv, Known
<1>8. Early'
  BY <1>1 DEF Early
<1> QED
  BY <1>6, <1>7, <1>8 DEF MirrorInv

(* A client that closes keeps what it has been sending. *)
LEMMA CloseMirrors == WorkerInv /\ Close => MirrorInv'
  BY DEF Close, WorkerInv, MirrorInv, History, Sending, Waiting, Known, Early

LEMMA InitFailsMirrors == WorkerInv /\ InitFails => MirrorInv'
  BY DEF InitFails, WorkerInv, MirrorInv, History, Sending, Waiting, Known, Early

(* initialize() sends the first report. *)
LEMMA FirstMoment ==
  ASSUME WorkerInv, reports = <<InitPatch>>
  PROVE  /\ Len(reports) = 1 /\ reports \in Seq(Patches)
         /\ Moment(reports, 0) = Stale
         /\ Moment(reports, 1) = Coalesce(Stale, InitPatch)
         /\ Moment(reports, 1)["worker_status"] = "idle"
<1>1. Len(reports) = 1 /\ reports[0 + 1] = InitPatch /\ reports \in Seq(Patches)
  BY DEF WorkerInv, MirrorInv, History
<1>2. Moment(reports, 0) = Stale
  BY <1>1, UptoEnds DEF Moment
<1>3. Moment(reports, 1) = Coalesce(Stale, InitPatch)
  <2>1. 0 \in Nat /\ 0 < Len(reports) /\ 0 + 1 = 1
    BY <1>1
  <2>2. Upto(Stale, reports, 0 + 1) = Coalesce(Upto(Stale, reports, 0), reports[0 + 1])
    BY <1>1, <2>1, UptoStep
  <2> QED
    BY <1>1, <1>2, <2>1, <2>2 DEF Moment
<1>4. Coalesce(Stale, InitPatch)["worker_status"] = "idle"
  BY InitPatchIs, StaleIsRecord, CoalesceRecord
<1> QED
  BY <1>1, <1>2, <1>3, <1>4

(* The PUT of initialize() is applied, and its answer arrives. *)
LEMMA InitAppliedMirrors == WorkerInv /\ InitApplied => MirrorInv'
<1> SUFFICES ASSUME WorkerInv, InitApplied PROVE MirrorInv'
  OBVIOUS
<1>1. /\ reports = <<InitPatch>> /\ upload = "quiet" /\ carried = 1 /\ shown = 0
      /\ server = Moment(reports, 0)
  BY DEF InitApplied, WorkerInv, MirrorInv, History, Early
<1>2. History'
  BY <1>1, FirstMoment DEF InitApplied, History
<1>3. Sending' /\ Waiting' /\ Known' /\ Early'
  BY <1>1 DEF InitApplied, Sending, Waiting, Known, Early
<1> QED
  BY <1>2, <1>3 DEF MirrorInv

LEMMA InitReturnsMirrors == WorkerInv /\ InitReturns => MirrorInv'
<1> SUFFICES ASSUME WorkerInv, InitReturns PROVE MirrorInv'
  OBVIOUS
<1>1. /\ reports = <<InitPatch>> /\ upload = "quiet" /\ carried = 1 /\ shown = 1
      /\ pending = Empty
  BY DEF InitReturns, WorkerInv, MirrorInv, Early, WorkerTypeOK
<1>2. History' /\ Sending' /\ Early'
  BY <1>1 DEF InitReturns, WorkerInv, MirrorInv, History, Sending, Early
<1>3. Known'
  BY <1>1, FirstMoment DEF InitReturns, Known
<1>4. Waiting'
  <2>1. Carries(reports, Empty, 1, 1)
    <3>1. 1 \in 0..Len(reports)
      BY <1>1, FirstMoment
    <3> QED
      BY <1>1, <3>1, FirstMoment, CarriesNothing
  <2> QED
    BY <1>1, <2>1, FirstMoment DEF InitReturns, Waiting
<1> QED
  BY <1>2, <1>3, <1>4 DEF MirrorInv

(* While a PUT is under way, initialize() has returned. *)
LEMMA WhileSending ==
  ASSUME WorkerInv, upload # "quiet"
  PROVE  /\ init = "done" /\ payload \in Patches /\ pending \in Patches
         /\ reports \in Seq(Patches) /\ Len(reports) \in Nat
         /\ shown \in Nat /\ carried \in Nat
         /\ shown <= carried /\ carried <= Len(reports)
         /\ Carries(reports, payload, shown, carried)
         /\ ~closed => Carries(reports, pending, carried, Len(reports))
         /\ Carries(reports, Empty, Len(reports), Len(reports))
<1>1. /\ init = "done" /\ payload \in Patches /\ pending \in Patches
      /\ reports \in Seq(Patches) /\ shown \in Nat /\ carried \in Nat
      /\ shown <= carried /\ carried <= Len(reports)
      /\ Carries(reports, payload, shown, carried)
      /\ ~closed => Carries(reports, pending, carried, Len(reports))
  BY DEF WorkerInv, WorkerTypeOK, MirrorInv, History, Sending, Waiting, Early
<1>2. Len(reports) \in Nat /\ Len(reports) \in 0..Len(reports)
  BY <1>1
<1> QED
  BY <1>1, <1>2, CarriesNothing

(* The server applies the patch. *)
LEMMA ApplyMoves ==
  ASSUME WorkerInv, upload # "quiet", Apply
  PROVE  shown' = carried /\ server' = Moment(reports, carried)
<1>1. shown \in shown..carried
  BY WhileSending
<1>2. server = Moment(reports, shown)
  BY DEF WorkerInv, MirrorInv, History
<1> QED
  BY <1>1, <1>2, WhileSending DEF Apply, Carries

(* A PUT succeeds, and the pending patch is sent. *)
LEMMA PutSucceedsMirrors == WorkerInv /\ PutSucceeds => MirrorInv'
<1> SUFFICES ASSUME WorkerInv, PutSucceeds PROVE MirrorInv'
  OBVIOUS
<1> DEFINE n == Len(reports)
<1>0. /\ upload # "quiet" /\ Apply /\ Drain
      /\ UNCHANGED <<hasPendingAction, init, current, closed, reports>>
  BY DEF PutSucceeds
<1>1. shown' = carried /\ server' = Moment(reports, carried)
  BY <1>0, ApplyMoves
<1>2. /\ init = "done" /\ reports \in Seq(Patches) /\ n \in Nat /\ carried \in Nat
      /\ carried <= n /\ Carries(reports, Empty, n, n)
      /\ ~closed => Carries(reports, pending, carried, n)
  BY <1>0, WhileSending
<1>3. Known' /\ Early'
  BY <1>0, <1>2 DEF WorkerInv, MirrorInv, Known, Early
<1>4. CASE pending # Empty /\ ~closed
  <2>1. upload' = "sending" /\ payload' = pending /\ pending' = Empty /\ carried' = n
    BY <1>0, <1>4 DEF Drain
  <2> HIDE DEF n
  <2>2. History'
    BY <1>0, <1>1, <1>2, <2>1 DEF History, n
  <2>3. Sending'
    BY <1>0, <1>1, <1>2, <1>4, <2>1 DEF Sending
  <2>4. Waiting'
    BY <1>0, <1>2, <2>1 DEF Waiting, n
  <2> QED
    BY <1>3, <2>2, <2>3, <2>4 DEF MirrorInv
<1>5. CASE ~(pending # Empty /\ ~closed)
  <2>1. upload' = "quiet" /\ UNCHANGED <<pending, carried>>
    BY <1>0, <1>5 DEF Drain
  <2> QED
    BY <1>0, <1>1, <1>2, <1>3, <2>1 DEF MirrorInv, History, Sending, Waiting
<1> QED
  BY <1>4, <1>5

(* A PUT fails, and was applied or not. *)
LEMMA PutFailsMirrors == WorkerInv /\ PutFails => MirrorInv'
<1> SUFFICES ASSUME WorkerInv, PutFails PROVE MirrorInv'
  OBVIOUS
<1>0. /\ upload # "quiet" /\ upload' = "sleeping" /\ (Apply \/ UNCHANGED <<server, shown>>)
      /\ UNCHANGED <<hasPendingAction, init, current, pending, payload, closed, reports,
                     carried>>
  BY DEF PutFails
<1>1. Waiting' /\ Known' /\ Early'
  BY <1>0, WhileSending DEF WorkerInv, MirrorInv, Waiting, Known, Early
<1>2. CASE Apply
  <2>1. shown' = carried /\ server' = Moment(reports, carried)
    BY <1>0, <1>2, ApplyMoves
  <2>2. Carries(reports, payload, carried, carried)
    <3>1. \A k \in carried..carried : k \in shown..carried
      BY <1>0, WhileSending
    <3> QED
      BY <1>0, <3>1, WhileSending DEF Carries
  <2>3. History' /\ Sending'
    BY <1>0, <2>1, <2>2, WhileSending DEF History, Sending
  <2> QED
    BY <1>1, <2>3 DEF MirrorInv
<1>3. CASE UNCHANGED <<server, shown>>
  BY <1>0, <1>1, <1>3 DEF WorkerInv, MirrorInv, History, Sending
<1> QED
  BY <1>0, <1>2, <1>3

(* A retry absorbs the pending patch. *)
LEMMA WakeMirrors == WorkerInv /\ Wake => MirrorInv'
<1> SUFFICES ASSUME WorkerInv, Wake PROVE MirrorInv'
  OBVIOUS
<1> DEFINE n == Len(reports)
<1>0. /\ upload # "quiet"
      /\ UNCHANGED <<hasPendingAction, init, current, closed, server, reports, shown>>
  BY DEF Wake
<1>1. Known' /\ Early'
  BY <1>0, WhileSending DEF WorkerInv, MirrorInv, Known, Early
<1>2. CASE closed
  <2>1. upload' = "quiet" /\ UNCHANGED <<pending, carried>>
    BY <1>2 DEF Wake
  <2> QED
    BY <1>0, <1>1, <1>2, <2>1 DEF WorkerInv, MirrorInv, History, Sending, Waiting
<1>3. CASE ~closed
  <2>1. /\ upload' = "sending" /\ payload' = Coalesce(payload, pending)
        /\ pending' = Empty /\ carried' = n
    BY <1>3 DEF Wake
  <2>2. /\ reports \in Seq(Patches) /\ n \in Nat /\ n \in 0..n /\ shown <= n /\ shown \in Nat
        /\ Carries(reports, Empty, n, n)
    BY <1>0, WhileSending
  <2>3. Carries(reports, Coalesce(payload, pending), shown, n)
    BY <1>0, <1>3, <2>2, WhileSending, CarriesBoth
  <2> HIDE DEF n
  <2>4. History'
    BY <1>0, <2>1, <2>2 DEF WorkerInv, MirrorInv, History, n
  <2>5. Sending' /\ Waiting'
    BY <1>0, <2>1, <2>2, <2>3 DEF Sending, Waiting, n
  <2> QED
    BY <1>1, <2>4, <2>5 DEF MirrorInv
<1> QED
  BY <1>2, <1>3

(* A session that waits for initialize() reports when it has returned. *)
LEMMA StepMirrors ==
  ASSUME awaits, WorkerInv, [WorkerNext]_workerVars
  PROVE  MirrorInv'
<1>1. ASSUME NEW status \in Statuses, NotifyState(status) PROVE MirrorInv'
  <2>1. init = "done"
    BY <1>1 DEF NotifyState, MayReport
  <2> QED
    BY <1>1, <2>1, NotifyStateMirrors
<1>2. ASSUME NEW patch \in Metadata, NotifyMetadata(patch) PROVE MirrorInv'
  <2>1. init = "done"
    BY <1>2 DEF NotifyMetadata, MayReport
  <2> QED
    BY <1>2, <2>1, NotifyMetadataMirrors
<1>3. CASE UNCHANGED workerVars
  <2>1. History' /\ Sending'
    BY <1>3 DEF workerVars, WorkerInv, MirrorInv, History, Sending
  <2>2. Waiting'
    BY <1>3 DEF workerVars, WorkerInv, MirrorInv, Waiting
  <2>3. Known'
    BY <1>3 DEF workerVars, WorkerInv, MirrorInv, Known
  <2>4. Early'
    BY <1>3 DEF workerVars, WorkerInv, MirrorInv, Early
  <2> QED
    BY <2>1, <2>2, <2>3, <2>4 DEF MirrorInv
<1>4. CASE Close \/ InitApplied \/ InitReturns \/ InitFails
  BY <1>4, CloseMirrors, InitAppliedMirrors, InitReturnsMirrors, InitFailsMirrors
<1>5. CASE PutSucceeds \/ PutFails \/ Wake
  BY <1>5, PutSucceedsMirrors, PutFailsMirrors, WakeMirrors
<1> QED
  BY <1>1, <1>2, <1>3, <1>4, <1>5 DEF WorkerNext

(* Whether it waits does not change. *)
LEMMA StillAwaits == [WorkerNext]_workerVars => awaits' = awaits
  BY DEF WorkerNext, NotifyState, NotifyMetadata, Close, InitApplied, InitReturns, InitFails,
         PutSucceeds, PutFails, Wake, workerVars

(* The invariant is kept. *)
LEMMA NextMirrors == awaits /\ WorkerInv /\ [WorkerNext]_workerVars => WorkerInv'
<1> SUFFICES ASSUME awaits, WorkerInv, [WorkerNext]_workerVars PROVE WorkerInv'
  OBVIOUS
<1>1. Typed
  BY DEF WorkerInv, MirrorInv, History, Typed
<1>2. WorkerTypeOK'
  BY <1>1, NextTyped DEF Typed
<1> QED
  BY <1>2, StepMirrors DEF WorkerInv

(* It holds in every state. *)
LEMMA Mirroring == WorkerSpec => [](awaits => WorkerInv)
<1>1. WorkerInit => (awaits => WorkerInv)
  BY InitMirrors
<1>2. (awaits => WorkerInv) /\ [WorkerNext]_workerVars => (awaits => WorkerInv)'
  BY NextMirrors, StillAwaits
<1> QED
  BY <1>1, <1>2, PTL DEF WorkerSpec

------------------------------------------------------------------------------
(* The mirror *)

(* The mirror reads the same patches in the same way. *)
LEMMA MirrorMergedIs ==
  ASSUME NEW base, NEW X, NEW s \in Seq(X)
  PROVE  Mirror!Merged(base, s) = Merged(base, s)
<1>1. DOMAIN s = 1..Len(s)
  OBVIOUS
<1>2. \A b, o : Mirror!Coalesce(b, o) = Coalesce(b, o)
  BY DEF Mirror!Coalesce, Coalesce
<1>3. \A S : Mirror!Max(S) = Max(S)
  BY DEF Mirror!Max, Max
<1>4. Mirror!Merged(base, s) = (CHOOSE G : IsFold(G, base, s, Len(s)))[1..Len(s)]
  BY <1>1, <1>2, <1>3 DEF Mirror!Merged, Mirror!FoldLeft, Mirror!MapThenFoldSet, IsFold
<1> QED
  BY <1>4, MergedIs

(* What has been reported stays. *)
LEMMA MirrorPrefix ==
  ASSUME NEW X, NEW s \in Seq(X), NEW t \in Seq(X)
  PROVE  Mirror!IsPrefix(s, s \o t)
  BY DEF Mirror!IsPrefix

(* What a step does to the history, as the mirror sees it. *)
Reporting ==
  UNCHANGED <<server, shown>> /\ \E S \in Seq(Patches) : reports' = reports \o S

Showing == UNCHANGED reports /\ shown' \in shown..Len(reports)

(* The session reports, and the server does not change. *)
LEMMA NotifyingReports ==
  ASSUME Typed,
         \/ \E status \in Statuses : NotifyState(status)
         \/ \E patch \in Metadata : NotifyMetadata(patch)
  PROVE  Reporting
<1>1. ASSUME NEW status \in Statuses, NotifyState(status) PROVE Reporting
  <2> DEFINE one == <<First(status)>>
             rest == Rest(status)
             none == {}
  <2>1. reports' = (reports \o one) \o rest /\ UNCHANGED <<server, shown>>
    BY <1>1, NotifyStateIs
  <2>2. one \in Seq(Reports(none)) /\ rest \in Seq(Reports(none))
    BY NotifyStateReports
  <2> HIDE DEF one, rest, none
  <2>3. one \in Seq(Patches) /\ rest \in Seq(Patches) /\ reports \in Seq(Patches)
    BY <2>2, ReportsArePatches DEF Typed
  <2>4. one \o rest \in Seq(Patches) /\ reports' = reports \o (one \o rest)
    BY <2>1, <2>3, ConcatIs, ConcatAssoc
  <2> QED
    BY <2>1, <2>4 DEF Reporting
<1>2. ASSUME NEW patch \in Metadata, NotifyMetadata(patch) PROVE Reporting
  <2>1. patch \in Patches
    BY MetadataIs DEF Report
  <2>2. <<patch>> \in Seq(Patches) /\ Append(reports, patch) = reports \o <<patch>>
    BY <2>1 DEF Typed
  <2> QED
    BY <1>2, <2>2 DEF NotifyMetadata, Reporting
<1> QED
  BY <1>1, <1>2

(* A step that does neither reports nothing. *)
LEMMA NothingReported == ASSUME Typed, UNCHANGED <<reports, server, shown>> PROVE Reporting
<1>1. <<>> \in Seq(Patches) /\ reports = reports \o <<>>
  BY DEF Typed
<1> QED
  BY <1>1 DEF Reporting

(* A PUT that is applied shows a later moment. *)
LEMMA ApplyShows ==
  ASSUME WorkerInv, upload # "quiet", Apply, UNCHANGED reports
  PROVE  Showing
  BY ApplyMoves, WhileSending DEF Showing

(* Every step does one of the two. *)
LEMMA StepReportsOrShows ==
  ASSUME WorkerInv, WorkerNext
  PROVE  Reporting \/ Showing
<1>0. Typed
  BY DEF WorkerInv, MirrorInv, History, Typed
<1>1. CASE Close \/ InitReturns \/ InitFails \/ Wake
  BY <1>0, <1>1, NothingReported DEF Close, InitReturns, InitFails, Wake
<1>2. CASE InitApplied
  <2>1. shown = 0 /\ Len(reports) = 1
    BY <1>2, FirstMoment DEF InitApplied, WorkerInv, MirrorInv, Early
  <2> QED
    BY <1>2, <2>1 DEF InitApplied, Showing
<1>3. CASE PutSucceeds
  BY <1>3, ApplyShows DEF PutSucceeds
<1>4. CASE PutFails
  BY <1>0, <1>4, ApplyShows, NothingReported DEF PutFails
<1> QED
  BY <1>0, <1>1, <1>2, <1>3, <1>4, NotifyingReports DEF WorkerNext

(* Which is a step of the mirror. *)
LEMMA MirrorStep ==
  ASSUME awaits, awaits', WorkerInv, WorkerInv', Reporting \/ Showing
  PROVE  Mirror!Next
<1>1. CASE Reporting
  <2>1. PICK S \in Seq(Patches) : reports' = reports \o S
    BY <1>1 DEF Reporting
  <2>2. Mirror!IsPrefix(reports, reports')
    BY <2>1, MirrorPrefix DEF WorkerInv, MirrorInv, History
  <2> QED
    BY <1>1, <2>2 DEF Reporting, Mirror!Next, Mirror!Report
<1>2. CASE Showing
  <2>1. /\ reports \in Seq(Patches) /\ shown' \in shown..Len(reports)
        /\ UNCHANGED reports /\ server' = Moment(reports, shown')
    BY <1>2 DEF Showing, WorkerInv, MirrorInv, History
  <2>2. SubSeq(reports, 1, shown') \in Seq(Patches)
    <3>1. shown \in Nat /\ Len(reports) \in Nat
      BY <2>1 DEF WorkerInv, MirrorInv, History
    <3> QED
      BY <2>1, <3>1
  <2>3. server' = Mirror!Merged(Stale, SubSeq(reports, 1, shown'))
    BY <2>1, <2>2, MirrorMergedIs DEF Moment, Upto
  <2> QED
    BY <2>1, <2>3 DEF Mirror!Next, Mirror!Show
<1> QED
  BY <1>1, <1>2

(* Of a session that does not wait the mirror shows nothing: its steps     *)
(* report, or are none of the mirror's.                                  *)
LEMMA StepUnawaited ==
  ASSUME Typed, ~awaits, ~awaits', WorkerNext
  PROVE  [Mirror!Next]_Mirror!vars
<1>1. CASE UNCHANGED reports
  BY <1>1 DEF Mirror!vars
<1>2. CASE Reporting
  <2>1. PICK S \in Seq(Patches) : reports' = reports \o S
    BY <1>2 DEF Reporting
  <2>2. Mirror!IsPrefix(reports, reports')
    BY <2>1, MirrorPrefix DEF Typed
  <2> QED
    BY <2>2 DEF Mirror!Next, Mirror!Report
<1> QED
  BY <1>1, <1>2, NotifyingReports
     DEF WorkerNext, Close, InitApplied, InitReturns, InitFails, PutSucceeds, PutFails, Wake

------------------------------------------------------------------------------
(* The settled fields *)

(* Patches can be merged in two parts, and to a patch before a record. *)
LEMMA MergedConcat ==
  ASSUME NEW base, NEW X, NEW s \in Seq(X), NEW t \in Seq(X)
  PROVE  Merged(base, s \o t) = Merged(Merged(base, s), t)
<1> DEFINE b == Merged(base, s)
           u == s \o t
           T == {k \in 0..Len(t) : Upto(base, u, Len(s) + k) = Upto(b, t, k)}
<1>0. u \in Seq(X) /\ Len(u) = Len(s) + Len(t) /\ Len(s) \in Nat /\ Len(t) \in Nat
  BY ConcatIs
<1>1. 0 \in T
  <2>1. Len(s) \in 0..Len(s) /\ Len(s) + 0 = Len(s) /\ 0 \in 0..Len(t)
    BY <1>0
  <2>2. Upto(base, u, Len(s)) = Upto(base, s, Len(s))
    BY <2>1, UptoPrefix
  <2>3. Upto(base, s, Len(s)) = b /\ Upto(b, t, 0) = b
    BY UptoEnds
  <2> HIDE DEF b, u
  <2> QED
    BY <2>1, <2>2, <2>3
<1>2. ASSUME NEW k \in Nat, k < Len(t), k \in T
      PROVE  k + 1 \in T
  <2>1. /\ k + 1 \in 1..Len(t)
        /\ Upto(base, u, Len(s) + k + 1) = Coalesce(Upto(base, u, Len(s) + k), t[k + 1])
    BY <1>2, UptoSuffix
  <2>2. Upto(b, t, k + 1) = Coalesce(Upto(b, t, k), t[k + 1])
    BY <1>2, UptoStep
  <2>3. Len(s) + k + 1 = Len(s) + (k + 1) /\ k + 1 \in 0..Len(t)
    BY <1>0, <2>1
  <2> HIDE DEF b, u
  <2> QED
    BY <1>2, <2>1, <2>2, <2>3
<1>3. Len(t) \in T
  <2> HIDE DEF T
  <2>1. Len(t) \in 0..Len(t)
    BY <1>0
  <2> QED
    BY <1>0, <1>1, <1>2, <2>1, PositionInduction
<1>4. Upto(base, u, Len(u)) = Merged(base, u) /\ Upto(b, t, Len(t)) = Merged(b, t)
  BY <1>0, UptoEnds
<1> QED
  BY <1>0, <1>3, <1>4

LEMMA MergedOne == ASSUME NEW base, NEW p PROVE Merged(base, <<p>>) = Coalesce(base, p)
<1> DEFINE X == {p}
           none == <<>>
<1>1. none \in Seq(X) /\ p \in X /\ Append(none, p) = <<p>>
  OBVIOUS
<1>2. Merged(base, Append(none, p)) = Coalesce(Merged(base, none), p)
  BY <1>1, MergedAppend
<1>3. Merged(base, none) = base
  BY MergedEmpty
<1> QED
  BY <1>1, <1>2, <1>3

LEMMA UptoRecord ==
  ASSUME NEW r, IsRecord(r), NEW s \in Seq(Patches), NEW k \in 0..Len(s)
  PROVE  IsRecord(Upto(r, s, k))
<1> DEFINE T == {j \in 0..Len(s) : IsRecord(Upto(r, s, j))}
<1>0. Len(s) \in Nat
  OBVIOUS
<1>1. 0 \in T
  <2>1. Upto(r, s, 0) = r
    BY UptoEnds
  <2>2. 0 \in 0..Len(s)
    BY <1>0
  <2> QED
    BY <2>1, <2>2
<1>2. ASSUME NEW j \in Nat, j < Len(s), j \in T
      PROVE  j + 1 \in T
  <2>1. /\ j + 1 \in 1..Len(s) /\ s[j + 1] \in Patches
        /\ Upto(r, s, j + 1) = Coalesce(Upto(r, s, j), s[j + 1])
    BY <1>2, UptoStep
  <2> QED
    BY <1>2, <2>1, CoalesceRecord
<1> HIDE DEF T
<1>3. k \in T
  BY <1>0, <1>1, <1>2, PositionInduction
<1> QED
  BY <1>3 DEF T

LEMMA MergedRecord ==
  ASSUME NEW r, IsRecord(r), NEW s \in Seq(Patches)
  PROVE  IsRecord(Merged(r, s))
<1>1. Len(s) \in 0..Len(s)
  OBVIOUS
<1> QED
  BY <1>1, UptoRecord, UptoEnds

LEMMA CoalesceAssoc ==
  ASSUME NEW r, IsRecord(r), NEW p \in Patches, NEW q \in Patches
  PROVE  Coalesce(r, Coalesce(p, q)) = Coalesce(Coalesce(r, p), q)
<1> DEFINE pq == Coalesce(p, q)
           rp == Coalesce(r, p)
<1>1. /\ pq \in Patches /\ DOMAIN pq = DOMAIN p \union DOMAIN q
      /\ \A f \in DOMAIN q : pq[f] = q[f]
      /\ \A f \in DOMAIN p \ DOMAIN q : pq[f] = p[f]
  <2>1. pq \in Patches
    BY CoalescePatches
  <2>2. /\ DOMAIN pq = DOMAIN p \union DOMAIN q
        /\ \A f \in DOMAIN q : pq[f] = q[f]
        /\ \A f \in DOMAIN p \ DOMAIN q : pq[f] = p[f]
    BY DEF Coalesce
  <2> QED
    BY <2>1, <2>2
<1>2. /\ IsRecord(rp)
      /\ \A f \in DOMAIN p : rp[f] = p[f]
      /\ \A f \in Fields \ DOMAIN p : rp[f] = r[f]
  BY CoalesceRecord
<1> HIDE DEF pq, rp
<1>3. /\ IsRecord(Coalesce(r, pq))
      /\ \A f \in DOMAIN pq : Coalesce(r, pq)[f] = pq[f]
      /\ \A f \in Fields \ DOMAIN pq : Coalesce(r, pq)[f] = r[f]
  BY <1>1, CoalesceRecord
<1>4. /\ IsRecord(Coalesce(rp, q))
      /\ \A f \in DOMAIN q : Coalesce(rp, q)[f] = q[f]
      /\ \A f \in Fields \ DOMAIN q : Coalesce(rp, q)[f] = rp[f]
  BY <1>2, CoalesceRecord
<1>5. \A f \in Fields : Coalesce(r, pq)[f] = Coalesce(rp, q)[f]
  BY <1>1, <1>2, <1>3, <1>4
<1> QED
  BY <1>3, <1>4, <1>5, SameRecord DEF pq, rp

LEMMA CoalesceMerged ==
  ASSUME NEW r, IsRecord(r), NEW p \in Patches, NEW s \in Seq(Patches)
  PROVE  Coalesce(r, Merged(p, s)) = Merged(Coalesce(r, p), s)
<1> DEFINE b == Coalesce(r, p)
           T == {k \in 0..Len(s) : /\ Upto(p, s, k) \in Patches
                                   /\ Coalesce(r, Upto(p, s, k)) = Upto(b, s, k)}
<1>0. Len(s) \in Nat
  OBVIOUS
<1>1. 0 \in T
  <2>1. Upto(p, s, 0) = p /\ Upto(b, s, 0) = b
    BY UptoEnds
  <2>2. 0 \in 0..Len(s)
    BY <1>0
  <2> QED
    BY <2>1, <2>2
<1>2. ASSUME NEW k \in Nat, k < Len(s), k \in T
      PROVE  k + 1 \in T
  <2> DEFINE q == Upto(p, s, k)
             x == s[k + 1]
  <2>1. /\ k + 1 \in 1..Len(s) /\ x \in Patches
        /\ Upto(p, s, k + 1) = Coalesce(q, x)
    BY <1>2, UptoStep
  <2>2. Upto(b, s, k + 1) = Coalesce(Upto(b, s, k), x)
    BY <1>2, UptoStep
  <2>3. q \in Patches /\ Coalesce(r, q) = Upto(b, s, k)
    BY <1>2
  <2> HIDE DEF b, q, x
  <2>4. Coalesce(q, x) \in Patches /\ Coalesce(r, Coalesce(q, x)) = Coalesce(Coalesce(r, q), x)
    BY <2>1, <2>3, CoalescePatches, CoalesceAssoc
  <2>5. k + 1 \in 0..Len(s)
    BY <1>0, <2>1
  <2> QED
    BY <2>1, <2>2, <2>3, <2>4, <2>5
<1>3. Len(s) \in T
  <2> HIDE DEF T
  <2>1. Len(s) \in 0..Len(s)
    BY <1>0
  <2> QED
    BY <1>0, <1>1, <1>2, <2>1, PositionInduction
<1>4. Upto(p, s, Len(s)) = Merged(p, s) /\ Upto(b, s, Len(s)) = Merged(b, s)
  BY UptoEnds
<1> QED
  BY <1>3, <1>4

(* Two records in which a field is the same still agree in it after the    *)
(* same patches; and they agree in every field that one of them sets.      *)
LEMMA MergedField ==
  ASSUME NEW r, NEW t, IsRecord(r), IsRecord(t), NEW f \in Fields, NEW s \in Seq(Patches),
         r[f] = t[f] \/ \E i \in 1..Len(s) : f \in DOMAIN s[i]
  PROVE  Merged(r, s)[f] = Merged(t, s)[f]
<1> DEFINE Sets(k) == \E i \in 1..k : f \in DOMAIN s[i]
           T == {k \in 0..Len(s) : r[f] = t[f] \/ Sets(k) => Upto(r, s, k)[f] = Upto(t, s, k)[f]}
<1>0. Len(s) \in Nat
  OBVIOUS
<1>1. 0 \in T
  <2>1. Upto(r, s, 0) = r /\ Upto(t, s, 0) = t
    BY UptoEnds
  <2>2. 0 \in 0..Len(s) /\ ~Sets(0)
    BY <1>0
  <2> QED
    BY <2>1, <2>2
<1>2. ASSUME NEW k \in Nat, k < Len(s), k \in T
      PROVE  k + 1 \in T
  <2> DEFINE x == s[k + 1]
             rk == Upto(r, s, k)
             tk == Upto(t, s, k)
  <2>1. /\ k + 1 \in 1..Len(s) /\ x \in Patches /\ k + 1 \in 0..Len(s) /\ k \in 0..Len(s)
        /\ Upto(r, s, k + 1) = Coalesce(rk, x) /\ Upto(t, s, k + 1) = Coalesce(tk, x)
    <3>1. /\ k + 1 \in 1..Len(s) /\ x \in Patches
          /\ Upto(r, s, k + 1) = Coalesce(rk, x)
      BY <1>2, UptoStep
    <3>2. Upto(t, s, k + 1) = Coalesce(tk, x)
      BY <1>2, UptoStep
    <3> QED
      BY <1>0, <1>2, <3>1, <3>2
  <2>2. IsRecord(rk) /\ IsRecord(tk)
    BY <2>1, UptoRecord
  <2>3. Sets(k + 1) => Sets(k) \/ f \in DOMAIN x
    <3>1. \A i \in 1..(k + 1) : i \in 1..k \/ i = k + 1
      OBVIOUS
    <3> QED
      BY <3>1
  <2>4. r[f] = t[f] \/ Sets(k) => rk[f] = tk[f]
    BY <1>2
  <2> HIDE DEF x, rk, tk, Sets
  <2>5. CASE f \in DOMAIN x
    <3>1. Coalesce(rk, x)[f] = x[f] /\ Coalesce(tk, x)[f] = x[f]
      BY <2>1, <2>2, <2>5, CoalesceRecord
    <3> QED
      BY <2>1, <3>1
  <2>6. CASE f \notin DOMAIN x
    <3>1. Coalesce(rk, x)[f] = rk[f] /\ Coalesce(tk, x)[f] = tk[f]
      BY <2>1, <2>2, <2>6, CoalesceRecord
    <3> QED
      BY <2>1, <2>3, <2>4, <2>6, <3>1
  <2> QED
    BY <2>5, <2>6
<1>3. Len(s) \in T
  <2> HIDE DEF T
  <2>1. Len(s) \in 0..Len(s)
    BY <1>0
  <2> QED
    BY <1>0, <1>1, <1>2, <2>1, PositionInduction
<1>4. Upto(r, s, Len(s)) = Merged(r, s) /\ Upto(t, s, Len(s)) = Merged(t, s)
  BY UptoEnds
<1> QED
  BY <1>3, <1>4

(* The record once all that is under way has been applied, and the last    *)
(* reports of the session.                                                 *)
Arriving == Coalesce(Coalesce(server, payload), pending)
Reported == Merged(Stale, reports)

(* Before anything but the patch of initialize() is reported. *)
Untouched ==
  Len(reports) = 1 =>
    /\ reports = <<InitPatch>> /\ upload = "quiet"
    /\ init = "sent" => server = Stale
    /\ init = "applied" => server = Coalesce(Stale, InitPatch)

(* A state is settled only when currentState is the last one reported. *)
StatusKnown ==
  "worker_status" \in settled => init = "done" /\ Reported["worker_status"] = current

SettledInv ==
  /\ Typed /\ IsRecord(server) /\ reports # <<>>
  /\ Untouched /\ StatusKnown
  /\ init # "done" => settled = Fields \ DOMAIN InitPatch
  /\ ~closed => \A f \in settled : Arriving[f] = Reported[f]

(* The empty patch leaves a record as it is, and a patch applied twice is    *)
(* as good as once.                                                          *)
LEMMA CoalesceEmpty ==
  ASSUME NEW r, IsRecord(r)
  PROVE  Coalesce(r, Empty) = r
<1>1. /\ IsRecord(Coalesce(r, Empty))
      /\ \A f \in Fields : Coalesce(r, Empty)[f] = r[f]
  BY EmptyIs, CoalesceRecord
<1> QED
  BY <1>1, SameRecord

LEMMA CoalesceTwice ==
  ASSUME NEW r, IsRecord(r), NEW p \in Patches
  PROVE  Coalesce(Coalesce(r, p), p) = Coalesce(r, p)
<1> DEFINE t == Coalesce(r, p)
<1>1. IsRecord(t) /\ \A f \in DOMAIN p : t[f] = p[f]
  BY CoalesceRecord
<1> HIDE DEF t
<1>2. /\ IsRecord(Coalesce(t, p))
      /\ \A f \in DOMAIN p : Coalesce(t, p)[f] = p[f]
      /\ \A f \in Fields \ DOMAIN p : Coalesce(t, p)[f] = t[f]
  BY <1>1, CoalesceRecord
<1>3. Coalesce(t, p) = t
  BY <1>1, <1>2, SameRecord
<1> QED
  BY <1>3 DEF t

LEMMA CoalesceField ==
  ASSUME NEW r, NEW t, IsRecord(r), IsRecord(t), NEW p \in Patches,
         NEW f \in Fields, r[f] = t[f]
  PROVE  Coalesce(r, p)[f] = Coalesce(t, p)[f]
<1>1. CASE f \in DOMAIN p
  <2>1. Coalesce(r, p)[f] = p[f] /\ Coalesce(t, p)[f] = p[f]
    BY <1>1, CoalesceRecord
  <2> QED
    BY <2>1
<1>2. CASE f \notin DOMAIN p
  <2>1. Coalesce(r, p)[f] = r[f] /\ Coalesce(t, p)[f] = t[f]
    BY <1>2, CoalesceRecord
  <2> QED
    BY <2>1
<1> QED
  BY <1>1, <1>2

(* The patches that are there, and what arrives when there are none. *)
LEMMA PatchesUnderWay ==
  ASSUME Typed, IsRecord(server)
  PROVE  /\ payload \in Patches /\ pending \in Patches
         /\ IsRecord(Coalesce(server, payload)) /\ IsRecord(Arriving)
         /\ upload = "quiet" => payload = Empty /\ pending = Empty /\ Arriving = server
<1>1. /\ payload \in Patches /\ pending \in Patches
      /\ upload = "quiet" => payload = Empty /\ pending = Empty
  BY DEF Typed, WorkerTypeOK
<1>2. IsRecord(Coalesce(server, payload))
  BY <1>1, CoalesceRecord
<1>3. IsRecord(Arriving)
  BY <1>1, <1>2, CoalesceRecord DEF Arriving
<1>4. Coalesce(server, Empty) = server
  BY CoalesceEmpty
<1> QED
  BY <1>1, <1>2, <1>3, <1>4 DEF Arriving

(* What is enqueued arrives after everything else. *)
LEMMA EnqueueArrives ==
  ASSUME Typed, IsRecord(server), ~closed, NEW S \in Seq(Patches), EnqueueAll(S),
         UNCHANGED server
  PROVE  Arriving' = Merged(Arriving, S)
<1>1. /\ payload \in Patches /\ pending \in Patches /\ IsRecord(Coalesce(server, payload))
      /\ upload = "quiet" => Arriving = server
  BY PatchesUnderWay
<1>2. CASE S = <<>>
  <2>1. UNCHANGED <<payload, pending>>
    BY <1>2 DEF EnqueueAll
  <2>2. Arriving' = Arriving
    BY <2>1 DEF Arriving
  <2> QED
    BY <1>2, <2>2, MergedEmpty
<1>3. CASE S # <<>> /\ upload = "quiet"
  <2> DEFINE x == Head(S)
             one == <<x>>
             rest == Tail(S)
             t == Coalesce(server, x)
  <2>1. payload' = x /\ pending' = Merged(Empty, rest)
    BY <1>3 DEF EnqueueAll
  <2>2. x \in Patches /\ one \in Seq(Patches) /\ rest \in Seq(Patches) /\ S = one \o rest
    <3>1. x \in Patches /\ rest \in Seq(Patches)
      BY <1>3
    <3>2. S = one \o rest
      BY <1>3
    <3> QED
      BY <3>1, <3>2
  <2>3. Arriving' = Coalesce(t, Merged(Empty, rest))
    BY <2>1 DEF Arriving
  <2>4. Merged(server, one) = t
    BY MergedOne
  <2> HIDE DEF x, one, rest
  <2>5. IsRecord(t)
    BY <2>2, CoalesceRecord
  <2> HIDE DEF t
  <2>6. Coalesce(t, Merged(Empty, rest)) = Merged(Coalesce(t, Empty), rest)
    BY <2>2, <2>5, EmptyIs, CoalesceMerged
  <2>7. Coalesce(t, Empty) = t
    BY <2>5, CoalesceEmpty
  <2>8. Merged(server, one \o rest) = Merged(Merged(server, one), rest)
    BY <2>2, MergedConcat
  <2> QED
    BY <1>1, <1>3, <2>2, <2>3, <2>4, <2>6, <2>7, <2>8
<1>4. CASE S # <<>> /\ upload # "quiet"
  <2>1. pending' = Merged(pending, S) /\ payload' = payload
    BY <1>4 DEF EnqueueAll
  <2> DEFINE t == Coalesce(server, payload)
  <2>2. Arriving' = Coalesce(t, Merged(pending, S)) /\ Arriving = Coalesce(t, pending)
    BY <2>1 DEF Arriving
  <2>3. IsRecord(t)
    BY <1>1
  <2> HIDE DEF t
  <2>4. Coalesce(t, Merged(pending, S)) = Merged(Coalesce(t, pending), S)
    BY <1>1, <2>3, CoalesceMerged
  <2> QED
    BY <2>2, <2>4
<1> QED
  BY <1>2, <1>3, <1>4

(* Reports keep the settled fields, and settle those they send: R is what    *)
(* was reported before the patches that are enqueued.                        *)
LEMMA ReportSettles ==
  ASSUME SettledInv, NEW R \in Seq(Patches), NEW S \in Seq(Patches),
         reports' = R \o S, EnqueueAll(S), Settle(S), UNCHANGED <<init, closed, server>>,
         \A f \in settled : Merged(Stale, R)[f] = Reported[f]
  PROVE  /\ IsRecord(server')
         /\ init' # "done" => settled' = Fields \ DOMAIN InitPatch
         /\ ~closed' => \A f \in settled' : Arriving'[f] = Reported'[f]
<1>1. IsRecord(server') /\ (init' # "done" => settled' = Fields \ DOMAIN InitPatch)
  BY DEF SettledInv, Settle
<1>2. ASSUME ~closed', NEW f \in settled'
      PROVE  Arriving'[f] = Reported'[f]
  <2> DEFINE t == Merged(Stale, R)
  <2>1. ~closed /\ f \in Fields
    BY <1>2, SettleTyped DEF SettledInv
  <2>2. Arriving' = Merged(Arriving, S) /\ IsRecord(Arriving)
    BY <2>1, EnqueueArrives, PatchesUnderWay DEF SettledInv
  <2>3. Reported' = Merged(t, S)
    BY MergedConcat DEF Reported
  <2>4. IsRecord(t)
    BY StaleIsRecord, MergedRecord
  <2>5. Arriving[f] = t[f] \/ \E i \in 1..Len(S) : f \in DOMAIN S[i]
    <3>1. f \in settled \/ \E i \in DOMAIN S : f \in DOMAIN S[i]
      BY <1>2 DEF Settle
    <3>2. DOMAIN S = 1..Len(S)
      OBVIOUS
    <3>3. f \in settled => Arriving[f] = t[f]
      BY <2>1 DEF SettledInv
    <3> QED
      BY <3>1, <3>2, <3>3
  <2> HIDE DEF t
  <2> QED
    BY <2>1, <2>2, <2>3, <2>4, <2>5, MergedField
<1> QED
  BY <1>1, <1>2

(* The moments of a session end in the last reports. *)
LEMMA ReportedIs ==
  ASSUME NEW R \in Seq(Patches)
  PROVE  Merged(Stale, R) = Moment(R, Len(R)) /\ IsRecord(Merged(Stale, R))
<1>1. Merged(Stale, R) = Moment(R, Len(R))
  BY UptoEnds DEF Moment
<1>2. IsRecord(Merged(Stale, R))
  BY StaleIsRecord, MergedRecord
<1> QED
  BY <1>1, <1>2

(* A state is reported: one that is dropped is the last reported state, if   *)
(* the state is settled.                                                     *)
LEMMA NotifyStateSettles ==
  ASSUME SettledInv, NEW status \in Statuses, NotifyState(status)
  PROVE  SettledInv'
<1> DEFINE x == First(status)
           one == <<x>>
           rest == Rest(status)
           W == {"worker_status"}
           none == {}
           sent == IF status = current /\ status \notin Details THEN rest ELSE one \o rest
           Q == reports \o one
<1>1. /\ current' = status /\ reports' = Q \o rest
      /\ EnqueueAll(sent) /\ Settle(sent)
      /\ UNCHANGED <<init, closed, server>>
  BY NotifyStateIs
<1>2. /\ x \in Patches /\ DOMAIN x = {"worker_status"} /\ x["worker_status"] = status
      /\ "worker_status" \in Fields
  BY FirstIs DEF Report, Fields
<1>3. rest \in Seq(Reports(W)) /\ one \o rest \in Seq(Reports(none))
  BY NotifyStateReports
<1>4. Typed'
  BY NotifyStateTyped DEF SettledInv
<1> HIDE DEF x, rest, none
<1>5. one \in Seq(Patches) /\ rest \in Seq(Patches) /\ reports \in Seq(Patches)
  BY <1>2, <1>3, ReportsArePatches DEF SettledInv, Typed
<1>6. Merged(Stale, one) = Coalesce(Stale, x) /\ Merged(Reported, one) = Coalesce(Reported, x)
  BY MergedOne
<1>7. Moment(Q, Len(Q))["worker_status"] = status
  BY <1>2, <1>5, LastReport
<1>8. Len(one) = 1
  OBVIOUS
<1> HIDE DEF one, W
<1>9. /\ Q \in Seq(Patches) /\ Q \o rest = reports \o (one \o rest)
      /\ Len(Q) = Len(reports) + 1 /\ Len(Q \o rest) = Len(Q) + Len(rest)
      /\ Len(reports) \in Nat /\ Len(rest) \in Nat /\ one \o rest \in Seq(Patches)
  <2>1. Q \in Seq(Patches) /\ Len(Q) = Len(reports) + 1 /\ Len(reports) \in Nat
    BY <1>5, <1>8, ConcatIs
  <2> HIDE DEF Q
  <2>2. Len(Q \o rest) = Len(Q) + Len(rest) /\ Len(rest) \in Nat /\ one \o rest \in Seq(Patches)
    BY <1>5, <2>1, ConcatIs
  <2>3. Q \o rest = reports \o (one \o rest)
    BY <1>5, ConcatAssoc DEF Q
  <2> QED
    BY <2>1, <2>2, <2>3
<1>10. IsRecord(Reported) /\ Merged(Stale, Q) = Coalesce(Reported, x)
  <2>1. Merged(Stale, Q) = Merged(Reported, one)
    BY <1>5, MergedConcat DEF Reported
  <2> QED
    BY <1>5, <1>6, <2>1, ReportedIs DEF Reported
<1> HIDE DEF Q
<1>11. Reported'["worker_status"] = status
  <2>1. reports' \in Seq(Patches)
    BY <1>4 DEF Typed
  <2>2. Reported' = Moment(reports', Len(reports'))
    BY <2>1, ReportedIs DEF Reported
  <2>3. Moment(Q \o rest, Len(Q \o rest))["worker_status"] = Moment(Q, Len(Q))["worker_status"]
    BY <1>2, <1>3, <1>9, FieldStays DEF W
  <2> QED
    BY <1>1, <1>7, <2>2, <2>3
<1>12. StatusKnown'
  <2>1. init # "done" => "worker_status" \notin settled'
    BY <1>1, InitPatchIs DEF SettledInv, Settle
  <2> QED
    BY <1>1, <1>11, <2>1 DEF StatusKnown
<1>13. Untouched' /\ reports' # <<>>
  <2>1. Len(reports) # 0
    BY <1>5 DEF SettledInv
  <2>2. Len(reports') > 1
    BY <1>1, <1>9, <2>1
  <2>3. Len(<<>>) = 0
    OBVIOUS
  <2>4. reports' # <<>>
    BY <2>2, <2>3
  <2>5. Len(reports') # 1
    BY <1>1, <1>9, <2>1
  <2> QED
    BY <2>4, <2>5 DEF Untouched
<1>14. /\ IsRecord(server')
       /\ init' # "done" => settled' = Fields \ DOMAIN InitPatch
       /\ ~closed' => \A f \in settled' : Arriving'[f] = Reported'[f]
  <2>1. CASE status = current /\ status \notin Details
    <3>1. EnqueueAll(rest) /\ Settle(rest)
      BY <1>1, <2>1
    <3>2. ASSUME NEW f \in settled
          PROVE  Merged(Stale, Q)[f] = Reported[f]
      <4>1. f \in Fields
        BY DEF SettledInv, Typed, WorkerTypeOK
      <4>2. f = "worker_status" => Reported[f] = x[f]
        BY <1>2, <2>1, <3>2 DEF SettledInv, StatusKnown
      <4>3. f \in DOMAIN x => Coalesce(Reported, x)[f] = x[f]
        BY <1>2, <1>10, CoalesceRecord
      <4>4. f \notin DOMAIN x => Coalesce(Reported, x)[f] = Reported[f]
        BY <1>2, <1>10, <4>1, CoalesceRecord
      <4> QED
        BY <1>2, <1>10, <4>2, <4>3, <4>4
    <3> QED
      BY <1>1, <1>5, <1>9, <3>1, <3>2, ReportSettles
  <2>2. CASE ~(status = current /\ status \notin Details)
    <3>1. EnqueueAll(one \o rest) /\ Settle(one \o rest)
      BY <1>1, <2>2
    <3>2. reports' = reports \o (one \o rest)
      BY <1>1, <1>9
    <3>3. \A f \in settled : Merged(Stale, reports)[f] = Reported[f]
      BY DEF Reported
    <3> QED
      BY <1>1, <1>5, <1>9, <3>1, <3>2, <3>3, ReportSettles
  <2> QED
    BY <2>1, <2>2
<1> QED
  BY <1>4, <1>12, <1>13, <1>14 DEF SettledInv

(* Metadata is reported. *)
LEMMA NotifyMetadataSettles ==
  ASSUME SettledInv, NEW patch \in Metadata, NotifyMetadata(patch)
  PROVE  SettledInv'
<1> DEFINE one == <<patch>>
           W == {"worker_status"}
<1>1. Report(patch, W)
  BY MetadataIs
<1>2. /\ EnqueueAll(one) /\ Settle(one) /\ UNCHANGED <<init, closed, server, current>>
      /\ reports' = Append(reports, patch)
  BY DEF NotifyMetadata
<1>3. Typed'
  BY NotifyMetadataTyped DEF SettledInv
<1>4. reports \in Seq(Patches) /\ patch \in Patches /\ "worker_status" \notin DOMAIN patch
  BY <1>1 DEF SettledInv, Typed, Report
<1> HIDE DEF W
<1>5. one \in Seq(Reports(W)) /\ one \in Seq(Patches)
  <2>1. one \in Seq(Reports(W))
    BY <1>1, OneReport
  <2> QED
    BY <2>1, ReportsArePatches
<1>6. Append(reports, patch) = reports \o one /\ Len(one) = 1
  BY <1>4
<1>7. "worker_status" \in settled' => "worker_status" \in settled
  <2>1. \A i \in DOMAIN one : one[i] = patch
    OBVIOUS
  <2> HIDE DEF one
  <2> QED
    BY <1>2, <1>4, <2>1 DEF Settle
<1> HIDE DEF one
<1>8. Len(reports \o one) = Len(reports) + 1 /\ Len(reports) \in Nat
  BY <1>4, <1>5, <1>6, ConcatIs
<1>9. Reported'["worker_status"] = Reported["worker_status"]
  <2>1. "worker_status" \in Fields
    BY DEF Fields
  <2>2. Moment(reports \o one, Len(reports \o one))["worker_status"]
          = Moment(reports, Len(reports))["worker_status"]
    BY <1>4, <1>5, <2>1, FieldStays DEF W
  <2>3. reports \o one \in Seq(Patches)
    BY <1>4, <1>5, ConcatIs
  <2> QED
    BY <1>2, <1>4, <1>6, <2>2, <2>3, ReportedIs DEF Reported
<1>10. StatusKnown'
  BY <1>2, <1>7, <1>9 DEF SettledInv, StatusKnown
<1>11. Untouched' /\ reports' # <<>>
  <2>1. Len(reports) # 0
    BY <1>4 DEF SettledInv
  <2>2. Len(reports') # 1 /\ Len(reports') # 0
    BY <1>2, <1>6, <1>8, <2>1
  <2>3. Len(<<>>) = 0
    OBVIOUS
  <2> QED
    BY <2>2, <2>3 DEF Untouched
<1>12. /\ IsRecord(server')
       /\ init' # "done" => settled' = Fields \ DOMAIN InitPatch
       /\ ~closed' => \A f \in settled' : Arriving'[f] = Reported'[f]
  <2>1. reports' = reports \o one
    BY <1>2, <1>6
  <2>2. \A f \in settled : Merged(Stale, reports)[f] = Reported[f]
    BY DEF Reported
  <2> QED
    BY <1>2, <1>4, <1>5, <2>1, <2>2, ReportSettles
<1> QED
  BY <1>3, <1>10, <1>11, <1>12 DEF SettledInv

(* The PUT of initialize() is applied: it sets no settled field. *)
LEMMA InitAppliedSettles == SettledInv /\ InitApplied => SettledInv'
<1> SUFFICES ASSUME SettledInv, InitApplied PROVE SettledInv'
  OBVIOUS
<1> DEFINE t == Coalesce(server, InitPatch)
<1>1. /\ init = "sent" /\ init' = "applied" /\ server' = t
      /\ UNCHANGED <<current, pending, payload, upload, closed, reports, settled>>
  BY DEF InitApplied
<1>2. Typed'
  BY NextTyped DEF SettledInv, WorkerNext
<1>3. IsRecord(t) /\ \A f \in Fields \ DOMAIN InitPatch : t[f] = server[f]
  BY InitPatchIs, CoalesceRecord DEF SettledInv
<1>4. settled = Fields \ DOMAIN InitPatch /\ "worker_status" \notin settled
  BY <1>1, InitPatchIs DEF SettledInv
<1>5. StatusKnown'
  BY <1>1, <1>4 DEF StatusKnown
<1>6. Untouched'
  BY <1>1 DEF SettledInv, Untouched
<1> HIDE DEF t
<1>7. ASSUME ~closed', NEW f \in settled'
      PROVE  Arriving'[f] = Reported'[f]
  <2>1. f \in Fields /\ t[f] = server[f] /\ payload \in Patches /\ pending \in Patches
    BY <1>1, <1>3, <1>4, <1>7, PatchesUnderWay DEF SettledInv
  <2> DEFINE a == Coalesce(server, payload)
             b == Coalesce(t, payload)
  <2>2. a[f] = b[f] /\ IsRecord(a) /\ IsRecord(b)
    BY <1>3, <2>1, CoalesceField, CoalesceRecord DEF SettledInv
  <2>3. Arriving = Coalesce(a, pending) /\ Arriving' = Coalesce(b, pending)
    BY <1>1 DEF Arriving
  <2> HIDE DEF a, b
  <2>4. Coalesce(a, pending)[f] = Coalesce(b, pending)[f]
    BY <2>1, <2>2, CoalesceField
  <2>5. Arriving[f] = Reported[f] /\ Reported' = Reported
    BY <1>1, <1>7 DEF SettledInv, Reported
  <2> QED
    BY <2>3, <2>4, <2>5
<1> QED
  BY <1>1, <1>2, <1>3, <1>4, <1>5, <1>6, <1>7 DEF SettledInv

(* Its answer settles every field when nothing else has been reported. *)
LEMMA InitReturnsSettles == SettledInv /\ InitReturns => SettledInv'
<1> SUFFICES ASSUME SettledInv, InitReturns PROVE SettledInv'
  OBVIOUS
<1>1. /\ init = "applied" /\ init' = "done" /\ current' = "idle"
      /\ settled' = IF Len(reports) = 1 THEN Fields ELSE settled
      /\ UNCHANGED <<pending, payload, upload, closed, server, reports>>
  BY DEF InitReturns
<1>2. Typed'
  BY NextTyped DEF SettledInv, WorkerNext
<1>3. Arriving' = Arriving /\ Reported' = Reported
  BY <1>1 DEF Arriving, Reported
<1>4. Untouched'
  BY <1>1 DEF SettledInv, Untouched
<1>5. CASE Len(reports) = 1
  <2>1. reports = <<InitPatch>> /\ upload = "quiet" /\ server = Coalesce(Stale, InitPatch)
    BY <1>1, <1>5 DEF SettledInv, Untouched
  <2>2. Arriving = server
    BY <2>1, PatchesUnderWay DEF SettledInv
  <2>3. Reported = server
    BY <2>1, MergedOne DEF Reported
  <2>4. Reported["worker_status"] = "idle"
    BY <2>1, <2>3, InitPatchIs, StaleIsRecord, CoalesceRecord
  <2>5. StatusKnown'
    BY <1>1, <1>3, <2>4 DEF StatusKnown
  <2> QED
    BY <1>1, <1>2, <1>3, <1>4, <2>2, <2>3, <2>5 DEF SettledInv
<1>6. CASE Len(reports) # 1
  <2>1. settled' = settled /\ "worker_status" \notin settled
    BY <1>1, <1>6, InitPatchIs DEF SettledInv
  <2>2. StatusKnown'
    BY <2>1 DEF StatusKnown
  <2> QED
    BY <1>1, <1>2, <1>3, <1>4, <2>1, <2>2 DEF SettledInv
<1> QED
  BY <1>5, <1>6

(* The uploader moves patches on, and loses none of them. *)
LEMMA UploaderSettles == SettledInv /\ (PutSucceeds \/ PutFails \/ Wake) => SettledInv'
<1> SUFFICES ASSUME SettledInv, PutSucceeds \/ PutFails \/ Wake
             PROVE  SettledInv'
  OBVIOUS
<1> DEFINE t == Coalesce(server, payload)
<1>1. /\ payload \in Patches /\ pending \in Patches /\ IsRecord(t) /\ IsRecord(server)
      /\ Arriving = Coalesce(t, pending)
  BY PatchesUnderWay DEF SettledInv, Arriving
<1>2. Typed' /\ UNCHANGED <<init, current, closed, reports, settled>> /\ upload # "quiet"
  BY UploaderTyped DEF SettledInv, PutSucceeds, PutFails, Wake
<1>3. Untouched' /\ StatusKnown' /\ Reported' = Reported
  BY <1>2 DEF SettledInv, Untouched, StatusKnown, Reported
<1>4. Coalesce(t, payload) = t /\ Coalesce(t, Empty) = t
  BY <1>1, CoalesceTwice, CoalesceEmpty DEF SettledInv
<1>5. ASSUME IsRecord(server'), ~closed => Arriving' = Arriving
      PROVE  SettledInv'
  BY <1>2, <1>3, <1>5 DEF SettledInv
<1>6. IsRecord(Coalesce(t, pending))
  BY <1>1, CoalesceRecord
<1>7. Coalesce(Coalesce(t, pending), Empty) = Coalesce(t, pending)
  BY <1>6, CoalesceEmpty
<1>8. CASE PutSucceeds
  <2>1. server' = t /\ Drain
    BY <1>8 DEF PutSucceeds, Apply
  <2> HIDE DEF t
  <2>2. CASE pending # Empty /\ ~closed
    <3>1. payload' = pending /\ pending' = Empty
      BY <2>1, <2>2 DEF Drain
    <3>2. Arriving' = Coalesce(Coalesce(t, pending), Empty)
      BY <2>1, <3>1 DEF Arriving
    <3> QED
      BY <1>1, <1>5, <1>7, <2>1, <3>2
  <2>3. CASE ~(pending # Empty /\ ~closed)
    <3>1. payload' = Empty /\ pending' = pending
      BY <2>1, <2>3 DEF Drain
    <3>2. Arriving' = Coalesce(Coalesce(t, Empty), pending)
      BY <2>1, <3>1 DEF Arriving
    <3> QED
      BY <1>1, <1>4, <1>5, <2>1, <3>2
  <2> QED
    BY <2>2, <2>3
<1>9. CASE PutFails
  <2>1. UNCHANGED <<payload, pending>> /\ (server' = t \/ server' = server)
    BY <1>9 DEF PutFails, Apply
  <2>2. CASE server' = t
    <3>1. Arriving' = Coalesce(Coalesce(t, payload), pending)
      BY <2>1, <2>2 DEF Arriving
    <3> QED
      BY <1>1, <1>4, <1>5, <2>2, <3>1
  <2>3. CASE server' = server
    <3>1. Arriving' = Arriving
      BY <2>1, <2>3 DEF Arriving
    <3> QED
      BY <1>1, <1>5, <2>3, <3>1
  <2> QED
    BY <2>1, <2>2, <2>3
<1>10. CASE Wake
  <2>1. server' = server
    BY <1>10 DEF Wake
  <2>2. ASSUME ~closed PROVE Arriving' = Arriving
    <3>1. payload' = Coalesce(payload, pending) /\ pending' = Empty
      BY <1>10, <2>2 DEF Wake
    <3>2. Arriving' = Coalesce(Coalesce(server, Coalesce(payload, pending)), Empty)
      BY <2>1, <3>1 DEF Arriving
    <3>3. Coalesce(server, Coalesce(payload, pending)) = Coalesce(t, pending)
      BY <1>1, CoalesceAssoc
    <3> QED
      BY <1>1, <1>7, <3>2, <3>3
  <2> QED
    BY <1>1, <1>5, <2>1, <2>2
<1> QED
  BY <1>8, <1>9, <1>10

LEMMA InitSettles == WorkerInit => SettledInv
<1> SUFFICES ASSUME WorkerInit PROVE SettledInv
  OBVIOUS
<1>1. Typed /\ IsRecord(server)
  BY InitTyped, StaleIsRecord DEF WorkerInit
<1>2. reports = <<InitPatch>> /\ server = Stale /\ init = "sent" /\ upload = "quiet"
      /\ settled = Fields \ DOMAIN InitPatch
  BY DEF WorkerInit
<1>3. reports # <<>> /\ "worker_status" \notin settled
  BY <1>2, InitPatchIs
<1>4. Untouched /\ StatusKnown
  BY <1>2, <1>3 DEF Untouched, StatusKnown
<1>5. Arriving = Stale /\ Reported = Coalesce(Stale, InitPatch)
  BY <1>1, <1>2, PatchesUnderWay, MergedOne DEF Reported
<1>6. \A f \in settled : Arriving[f] = Reported[f]
  BY <1>2, <1>5, StaleIsRecord, InitPatchIs, CoalesceRecord
<1> QED
  BY <1>1, <1>2, <1>3, <1>4, <1>6 DEF SettledInv

LEMMA NextSettles == SettledInv /\ [WorkerNext]_workerVars => SettledInv'
<1> SUFFICES ASSUME SettledInv, [WorkerNext]_workerVars
             PROVE  SettledInv'
  OBVIOUS
<1>1. Typed'
  BY NextTyped DEF SettledInv
<1>2. CASE Close
  BY <1>1, <1>2 DEF Close, SettledInv, Untouched, StatusKnown, Reported
<1>3. CASE InitFails
  <2>1. /\ closed' /\ init # "done" /\ init' = "failed"
        /\ UNCHANGED <<current, upload, server, reports, settled>>
    BY <1>3 DEF InitFails
  <2>2. "worker_status" \notin settled'
    BY <2>1, InitPatchIs DEF SettledInv
  <2>3. Untouched' /\ StatusKnown'
    BY <2>1, <2>2 DEF SettledInv, Untouched, StatusKnown
  <2> QED
    BY <1>1, <2>1, <2>3 DEF SettledInv
<1>4. CASE UNCHANGED workerVars
  BY <1>1, <1>4 DEF workerVars, SettledInv, Untouched, StatusKnown, Reported, Arriving
<1> QED
  BY <1>2, <1>3, <1>4, NotifyStateSettles, NotifyMetadataSettles, InitAppliedSettles,
     InitReturnsSettles, UploaderSettles DEF WorkerNext

LEMMA Settling == WorkerSpec => []SettledInv
  BY InitSettles, NextSettles, PTL DEF WorkerSpec

------------------------------------------------------------------------------
(* Theorems *)

(* The client, its uploader and the record keep their types, for every       *)
(* session: a patch is being sent exactly while sendWithRetry runs, and one  *)
(* is pending only while it runs and the client is open.                     *)
THEOREM WorkerTyping == WorkerSpec => []WorkerTypeOK
<1>1. Typed => WorkerTypeOK
  BY DEF Typed
<1> QED
  BY <1>1, Types, PTL

(* Of a session that waits for initialize() the server shows a moment:       *)
(* coalescing, absorption and retries neither reorder nor mix its patches.   *)
THEOREM Moments == WorkerSpec => []ShowsAMoment
<1>1. (awaits => WorkerInv) => ShowsAMoment
  <2> SUFFICES ASSUME awaits, WorkerInv PROVE ShowsAMoment
    BY DEF ShowsAMoment
  <2>1. shown \in 0..Len(reports) /\ server = Merged(Stale, SubSeq(reports, 1, shown))
    BY DEF WorkerInv, MirrorInv, History, Moment, Upto
  <2> QED
    BY <2>1 DEF ShowsAMoment
<1> QED
  BY <1>1, Mirroring, PTL

(* With nothing left to send it shows the last one: neither the dropping of  *)
(* a repeated state nor the pending slot loses a report, of a session that   *)
(* awaits initialize() and of one that does not.  A state that is dropped    *)
(* equals currentState, and currentState is the last reported state wherever *)
(* the state is settled.                                                     *)
THEOREM Quiet == WorkerSpec => []QuietIsCurrent
<1>1. SettledInv => QuietIsCurrent
  <2> SUFFICES ASSUME SettledInv, init = "done", upload = "quiet", ~closed, NEW f \in settled
               PROVE  server[f] = Merged(Stale, reports)[f]
    BY DEF QuietIsCurrent, Agrees
  <2>1. Arriving = server
    BY PatchesUnderWay DEF SettledInv
  <2> QED
    BY <2>1 DEF SettledInv, Reported
<1> QED
  BY <1>1, Settling, PTL

(* What it shows of such a session never goes back: no retry of a PUT that   *)
(* had been applied, and no patch that absorbed another, shows an earlier    *)
(* moment again.                                                             *)
THEOREM Refinement == WorkerSpec => IsSessionMirror
<1>1. WorkerInit => Mirror!Init
  BY DEF WorkerInit, Mirror!Init
<1>2. /\ Typed /\ (awaits => WorkerInv) /\ (awaits => WorkerInv)'
      /\ [WorkerNext]_workerVars
      => [Mirror!Next]_Mirror!vars
  <2>1. ASSUME awaits, awaits', WorkerInv, WorkerInv', WorkerNext PROVE Mirror!Next
    BY <2>1, StepReportsOrShows, MirrorStep
  <2>2. ASSUME Typed, ~awaits, ~awaits', WorkerNext PROVE [Mirror!Next]_Mirror!vars
    BY <2>2, StepUnawaited
  <2>3. UNCHANGED workerVars => UNCHANGED Mirror!vars
    BY DEF workerVars, Mirror!vars
  <2> QED
    BY <2>1, <2>2, <2>3, StillAwaits
<1> QED
  BY <1>1, <1>2, Types, Mirroring, PTL DEF WorkerSpec, IsSessionMirror, Mirror!Spec
==============================================================================
