--------------------------- MODULE TaskListProofs ---------------------------
(***************************************************************************)
(* Proofs about TaskList, for any number of callers, agents, ids, calls    *)
(* and crashes.                                                            *)
(*                                                                         *)
(* A caller between its read and its write holds the lock of the task it   *)
(* updates, whichever way it came there: through updateTask, or through    *)
(* claimTask, which took the lock itself.  Deletions take no lock, but     *)
(* they leave what a torn or missing file held alone.  createTask takes    *)
(* only the list's lock, but what it writes is a new task.                 *)
(*                                                                         *)
(* Claims: so a claim is never overwritten, for a new task has no owner.   *)
(*                                                                         *)
(* Typing: whatever the callers do.                                        *)
(*                                                                         *)
(* Unique: as long as no call deletes a task, ids are fresh, also to the   *)
(* calls that are still working on tasks that a reset removed.             *)
(*                                                                         *)
(* AtomicUpdates: therefore updateTask never merges into stale content as  *)
(* long as tasks are not both created and deleted.                         *)
(***************************************************************************)
EXTENDS TaskList, FiniteSetTheorems, TLAPS

Frame == {"pc", "agent", "id", "read", "todo", "batch", "high", "seen", "calls"}
Claiming == {"claimRead", "claimList"}
Updating == {"updateRead", "updateWrite", "updateEnd"}
Writing == {"updateWrite", "updateEnd"}

Shape ==
  /\ DOMAIN caller = Callers
  /\ \A p \in Callers : DOMAIN caller[p] = Frame
  /\ taskLock \in [Ids -> Callers \cup {None}]
  /\ DOMAIN task = Ids
  /\ files \subseteq Ids

Target(p) == Head(caller[p].todo).id

(* Who works on a task holds its lock. *)
Holds(p) ==
  /\ caller[p].pc \in Claiming => caller[p].id \in Ids /\ taskLock[caller[p].id] = p
  /\ caller[p].pc \in Updating => Target(p) \in Ids /\ taskLock[Target(p)] = p

(* Who is about to write has read what is there, unless it was created anew. *)
Fresh(p) == caller[p].pc \in Writing => task[Target(p)] \in {caller[p].read, NewTask}

IInv == Shape /\ \A p \in Callers : Holds(p) /\ Fresh(p)

------------------------------------------------------------------------------
(* A step of p leaves the others' frames alone. *)
Moves(p) ==
  /\ DOMAIN caller' = Callers
  /\ \A q \in Callers \ {p} : caller'[q] = caller[q]
  /\ DOMAIN caller'[p] = Frame

(* A step of p takes no lock from the others, and writes under its own or  *)
(* a new task.                                                             *)
Respects(p) ==
  /\ taskLock' \in [Ids -> Callers \cup {None}]
  /\ \A i \in Ids : taskLock[i] \in Callers \ {p} => taskLock'[i] = taskLock[i]
  /\ DOMAIN task' = Ids
  /\ \A i \in Ids : taskLock[i] # p => task'[i] \in {task[i], NewTask}

(* What every step of p does. *)
Steps(p) == IInv' /\ Moves(p) /\ Respects(p)

LEMMA StepInv ==
  ASSUME IInv, NEW p \in Callers, Moves(p), Respects(p),
         files' \subseteq Ids, Holds(p)', Fresh(p)'
  PROVE  Steps(p)
<1>1. Shape'
  BY DEF IInv, Shape, Moves, Respects
<1>2. ASSUME NEW q \in Callers \ {p} PROVE Holds(q)' /\ Fresh(q)'
  <2>1. caller'[q] = caller[q] /\ Target(q)' = Target(q)
    BY DEF Moves, Target
  <2>2. Holds(q) /\ Fresh(q)
    BY DEF IInv
  <2>3. Holds(q)'
    BY <2>1, <2>2 DEF Holds, Respects
  <2>4. Fresh(q)'
    BY <2>1, <2>2 DEF Holds, Fresh, Respects, Updating, Writing
  <2> QED
    BY <2>3, <2>4
<1> QED
  BY <1>1, <1>2 DEF IInv, Steps

(* Steps to a point where p works on no task.                              *)
LEMMA IdleInv ==
  ASSUME IInv, NEW p \in Callers, Moves(p), Respects(p), files' \subseteq Ids,
         caller'[p].pc \notin Claiming \cup Updating
  PROVE  Steps(p)
<1>1. Holds(p)' /\ Fresh(p)'
  BY DEF Holds, Fresh, Updating, Writing
<1> QED
  BY <1>1, StepInv

LEMMA GotoMoves ==
  ASSUME IInv, NEW p \in Callers, NEW point, Goto(p, point)
  PROVE  /\ Moves(p) /\ caller'[p].pc = point
         /\ \A f \in Frame \ {"pc"} : caller'[p][f] = caller[p][f]
  BY DEF Goto, Moves, IInv, Shape, Frame

LEMMA ReturnMoves ==
  ASSUME IInv, NEW p \in Callers, Return(p)
  PROVE  /\ Moves(p) /\ caller'[p].pc = "idle"
         /\ taskLock' \in [Ids -> Callers \cup {None}]
         /\ \A i \in Ids : taskLock[i] \in Callers \ {p} => taskLock'[i] = taskLock[i]
<1>1. Moves(p) /\ caller'[p].pc = "idle"
  BY DEF Return, Moves, IInv, Shape, Frame
<1>2. taskLock' = [i \in Ids |-> IF taskLock[i] = p THEN None ELSE taskLock[i]]
  BY DEF Return
<1> QED
  BY <1>1, <1>2 DEF IInv, Shape

LEMMA ReturnInv ==
  ASSUME IInv, NEW p \in Callers, Return(p), UNCHANGED disk
  PROVE  Steps(p)
<1>1. Respects(p) /\ files' \subseteq Ids
  BY ReturnMoves DEF Respects, disk, IInv, Shape
<1> QED
  BY <1>1, ReturnMoves, IdleInv DEF Claiming, Updating

LEMMA InitInv == Init => IInv
<1> SUFFICES ASSUME Init PROVE IInv
  OBVIOUS
<1>1. PICK agent \in [Callers -> Agents] :
        caller = [p \in Callers |->
                   [pc |-> "idle", agent |-> agent[p], id |-> 1, read |-> NewTask,
                    todo |-> <<>>, batch |-> {}, high |-> 0, seen |-> {}, calls |-> 0]]
  BY DEF Init
<1>2. Shape
  BY <1>1, ConstantsAssumption DEF Init, Shape, Frame
<1>3. \A p \in Callers : Holds(p) /\ Fresh(p)
  BY <1>1 DEF Holds, Fresh, Claiming, Updating, Writing
<1> QED
  BY <1>2, <1>3 DEF IInv

------------------------------------------------------------------------------
(* The steps *)

LEMMA CallsInv ==
  ASSUME IInv, NEW p \in Callers, Calls(p)
  PROVE  Steps(p)
<1>1. /\ UNCHANGED <<disk, locks>>
      /\ \E point \in {"createLock", "resetLock", "resetCheck", "deleteScan", "claimLock", "busyLock",
                        "updateCheck"} :
           \E i, todo : Started(p, point, i, todo)
  BY DEF Calls, CallCreate, CallReset, CallHideTimer, CallDelete, CallClaim, CallUpdate,
         CallStart, CallBlock, CallUnassign, Begin
<1>2. PICK point \in {"createLock", "resetLock", "resetCheck", "deleteScan", "claimLock", "busyLock",
                        "updateCheck"} :
        \E i, todo : Started(p, point, i, todo)
  BY <1>1
<1>3. Moves(p) /\ caller'[p].pc = point
  BY <1>2 DEF Started, Moves, IInv, Shape, Frame
<1>4. Respects(p) /\ files' \subseteq Ids
  BY <1>1 DEF Respects, disk, locks, IInv, Shape
<1> QED
  BY <1>2, <1>3, <1>4, IdleInv DEF Claiming, Updating

(* Steps that only move on, or also change files, marks and the list lock. *)
LEMMA MovingInv ==
  ASSUME IInv, NEW p \in Callers,
         NEW point, point \notin Claiming \cup Updating,
         Moves(p), caller'[p].pc = point, files' \subseteq Ids, UNCHANGED <<task, taskLock>>
  PROVE  Steps(p)
<1>1. Respects(p)
  BY DEF Respects, IInv, Shape
<1> QED
  BY <1>1, IdleInv

LEMMA LockListInv ==
  ASSUME IInv, NEW p \in Callers, LockList(p)
  PROVE  Steps(p)
<1>1. PICK point \in {"createScan", "resetScan", "busyRead"} : Goto(p, point)
  BY DEF LockList
<1> QED
  BY <1>1, GotoMoves, MovingInv
     DEF LockList, disk, IInv, Shape, Claiming, Updating

LEMMA LockTaskInv ==
  ASSUME IInv, NEW p \in Callers, LockTask(p)
  PROVE  Steps(p)
<1>1. PICK i \in WaitsForTask(p) :
        /\ i \in files /\ taskLock[i] = None
        /\ taskLock' = [taskLock EXCEPT ![i] = p]
  BY DEF LockTask
<1>2. i \in Ids /\ taskLock'[i] = p
  BY <1>1 DEF IInv, Shape
<1>3. Respects(p) /\ files' \subseteq Ids
  BY <1>1, ConstantsAssumption DEF LockTask, Respects, disk, IInv, Shape
<1>4. CASE At(p, "claimLock")
  <2>1. i = caller[p].id
    BY <1>1, <1>4 DEF WaitsForTask
  <2>2. Goto(p, "claimRead")
    BY <1>4 DEF LockTask
  <2>3. /\ Moves(p) /\ caller'[p].pc = "claimRead" /\ caller'[p].id = i
    BY <2>1, <2>2, GotoMoves DEF Frame
  <2>4. Holds(p)' /\ Fresh(p)'
    BY <1>2, <2>3 DEF Holds, Fresh, Updating, Writing
  <2> QED
    BY <1>3, <2>3, <2>4, StepInv
<1>5. CASE ~At(p, "claimLock")
  <2>1. i = Target(p)
    BY <1>1, <1>5 DEF WaitsForTask, Target
  <2>2. Goto(p, "updateRead")
    BY <1>5 DEF LockTask
  <2>3. /\ Moves(p) /\ caller'[p].pc = "updateRead" /\ Target(p)' = i
    BY <2>1, <2>2, GotoMoves DEF Frame, Target
  <2>4. Holds(p)' /\ Fresh(p)'
    BY <1>2, <2>3 DEF Holds, Fresh, Claiming, Writing
  <2> QED
    BY <1>3, <2>3, <2>4, StepInv
<1> QED
  BY <1>4, <1>5

LEMMA LockFailsInv ==
  ASSUME IInv, NEW p \in Callers, LockFails(p)
  PROVE  Steps(p)
  BY ReturnInv DEF LockFails

LEMMA ResetInv ==
  ASSUME IInv, NEW p \in Callers,
         ResetCheck(p) \/ ResetScan(p) \/ ResetMark(p) \/ ResetList(p)
  PROVE  Steps(p)
<1>1. CASE Return(p) /\ UNCHANGED disk
  BY <1>1, ReturnInv
<1>2. CASE UNCHANGED <<disk, locks>> /\ Moves(p)
             /\ \E point \in {"resetLock", "resetMark", "resetList", "markWrite", "resetUnlink"} :
                  caller'[p].pc = point
  BY <1>2, MovingInv DEF disk, locks, IInv, Shape, Claiming, Updating
<1>3. CASE ResetCheck(p)
  BY <1>1, <1>2, <1>3, GotoMoves DEF ResetCheck, locks
<1>4. CASE ResetScan(p)
  <2>1. Moves(p) /\ caller'[p].pc \in {"resetMark", "resetList"}
    BY <1>4 DEF ResetScan, Moves, IInv, Shape, Frame
  <2> QED
    BY <1>2, <1>4, <2>1 DEF ResetScan
<1>5. CASE ResetMark(p)
  BY <1>2, <1>5, GotoMoves DEF ResetMark
<1>6. CASE ResetList(p)
  <2>1. Moves(p) /\ caller'[p].pc = "resetUnlink"
    BY <1>6 DEF ResetList, Moves, IInv, Shape, Frame
  <2> QED
    BY <1>2, <1>6, <2>1 DEF ResetList
<1> QED
  BY <1>3, <1>4, <1>5, <1>6

LEMMA UnlinkInv ==
  ASSUME IInv, NEW p \in Callers, ResetUnlink(p) \/ DeleteUnlink(p)
  PROVE  Steps(p)
<1>1. CASE Return(p) /\ UNCHANGED disk
  BY <1>1, ReturnInv
<1>2. ASSUME NEW i \in Ids, Unlink(i), UNCHANGED locks, Moves(p),
             caller'[p].pc \in {"resetUnlink", "deleteRefs"}
      PROVE  Steps(p)
  BY <1>2, MovingInv DEF Unlink, locks, IInv, Shape, Claiming, Updating
<1>3. CASE ResetUnlink(p)
  <2>1. ASSUME NEW i \in caller[p].batch, Unlink(i), UNCHANGED locks,
               caller' = [caller EXCEPT ![p].batch = @ \ {i}]
        PROVE  Steps(p)
    <3>1. Moves(p) /\ caller'[p].pc = "resetUnlink"
      BY <1>3, <2>1 DEF ResetUnlink, At, Moves, IInv, Shape, Frame
    <3> QED
      BY <2>1, <3>1, MovingInv DEF Unlink, locks, IInv, Shape, Claiming, Updating
  <2> QED
    BY <1>1, <1>3, <2>1 DEF ResetUnlink
<1>4. CASE DeleteUnlink(p)
  BY <1>1, <1>2, <1>4, GotoMoves DEF DeleteUnlink, IInv, Shape
<1> QED
  BY <1>3, <1>4

LEMMA MarkInv ==
  ASSUME IInv, NEW p \in Callers, MarkWrite(p) \/ MarkEnd(p)
  PROVE  Steps(p)
<1>1. PICK point \in {"markEnd", "resetList", "deleteUnlink"} : Goto(p, point)
  BY DEF MarkWrite, MarkEnd
<1> QED
  BY <1>1, GotoMoves, MovingInv
     DEF MarkWrite, MarkEnd, locks, IInv, Shape, Claiming, Updating

LEMMA DeleteInv ==
  ASSUME IInv, NEW p \in Callers, DeleteScan(p) \/ DeleteRefs(p)
  PROVE  Steps(p)
<1>1. CASE DeleteScan(p)
  <2>1. Moves(p) /\ caller'[p].pc \in {"markWrite", "deleteUnlink"}
    BY <1>1 DEF DeleteScan, Moves, IInv, Shape, Frame
  <2> QED
    BY <1>1, <2>1, MovingInv
       DEF DeleteScan, disk, locks, IInv, Shape, Claiming, Updating
<1>2. CASE DeleteRefs(p)
  <2>1. \E todo : caller' = [caller EXCEPT ![p].pc = "updateCheck", ![p].todo = todo]
    BY <1>2 DEF DeleteRefs
  <2>2. Moves(p) /\ caller'[p].pc = "updateCheck"
    BY <2>1 DEF Moves, IInv, Shape, Frame
  <2> QED
    BY <1>2, <2>2, MovingInv
       DEF DeleteRefs, disk, locks, IInv, Shape, Claiming, Updating
<1> QED
  BY <1>1, <1>2

(* claimTask holds the lock of the task from its first read on.            *)
LEMMA ClaimInv ==
  ASSUME IInv, NEW p \in Callers, ClaimRead(p) \/ ClaimList(p)
  PROVE  Steps(p)
<1>1. CASE Return(p) /\ UNCHANGED disk
  BY <1>1, ReturnInv
<1>2. caller[p].id \in Ids /\ taskLock[caller[p].id] = p
  BY DEF ClaimRead, ClaimList, At, IInv, Holds, Claiming
<1>3. ASSUME UNCHANGED <<disk, locks>> PROVE Respects(p) /\ files' \subseteq Ids
  BY <1>3 DEF Respects, disk, locks, IInv, Shape
<1>4. CASE /\ caller' = [caller EXCEPT ![p].read = task[caller[p].id], ![p].pc = "claimList"]
           /\ UNCHANGED <<disk, locks>>
  <2>1. Moves(p) /\ caller'[p].pc = "claimList" /\ caller'[p].id = caller[p].id
    BY <1>4 DEF Moves, IInv, Shape, Frame
  <2>2. Holds(p)' /\ Fresh(p)'
    BY <1>2, <1>4, <2>1 DEF Holds, Fresh, Updating, Writing, locks
  <2> QED
    BY <1>3, <1>4, <2>1, <2>2, StepInv
<1>5. CASE /\ caller' = [caller EXCEPT ![p].pc = "updateRead",
                 ![p].todo = <<Update(caller[p].id, [owner |-> caller[p].agent])>>]
           /\ UNCHANGED <<disk, locks>>
  <2>1. /\ Moves(p) /\ caller'[p].pc = "updateRead"
        /\ caller'[p].todo = <<Update(caller[p].id, [owner |-> caller[p].agent])>>
    BY <1>5 DEF Moves, IInv, Shape, Frame
  <2>2. Target(p)' = caller[p].id
    BY <2>1 DEF Target, Update
  <2>3. Holds(p)' /\ Fresh(p)'
    BY <1>2, <1>5, <2>1, <2>2 DEF Holds, Fresh, Claiming, Writing, locks
  <2> QED
    BY <1>3, <1>5, <2>1, <2>3, StepInv
<1> QED
  BY <1>1, <1>4, <1>5 DEF ClaimRead, ClaimList

LEMMA BusyReadInv ==
  ASSUME IInv, NEW p \in Callers, BusyRead(p)
  PROVE  Steps(p)
<1>1. CASE Return(p)
  BY <1>1, ReturnInv DEF BusyRead
<1>2. ASSUME NEW todo, caller' = [caller EXCEPT ![p].pc = "updateCheck", ![p].todo = todo],
             UNCHANGED locks
      PROVE  Steps(p)
  <2>1. Moves(p) /\ caller'[p].pc = "updateCheck"
    BY <1>2 DEF Moves, IInv, Shape, Frame
  <2> QED
    BY <1>2, <2>1, MovingInv
       DEF BusyRead, disk, locks, IInv, Shape, Claiming, Updating
<1> QED
  BY <1>1, <1>2 DEF BusyRead

LEMMA UpdateCheckInv ==
  ASSUME IInv, NEW p \in Callers, UpdateCheck(p)
  PROVE  Steps(p)
<1>1. CASE Return(p)
  BY <1>1, ReturnInv DEF UpdateCheck
<1>2. CASE UNCHANGED locks /\ \/ caller' = [caller EXCEPT ![p].pc = "updateLock"]
                              \/ caller' = [caller EXCEPT ![p].todo = Tail(@)]
  <2>1. Moves(p) /\ caller'[p].pc \in {"updateLock", "updateCheck"}
    BY <1>2 DEF UpdateCheck, At, Moves, IInv, Shape, Frame
  <2> QED
    BY <1>2, <2>1, MovingInv
       DEF UpdateCheck, disk, locks, IInv, Shape, Claiming, Updating
<1> QED
  BY <1>1, <1>2 DEF UpdateCheck

(* The end of an update gives up the lock under which it wrote.            *)
LEMMA UpdatedMoves ==
  ASSUME IInv, NEW p \in Callers, caller[p].pc \in Updating, Updated(p, Target(p))
  PROVE  /\ Moves(p) /\ caller'[p].pc = "updateCheck"
         /\ taskLock' \in [Ids -> Callers \cup {None}]
         /\ \A i \in Ids : taskLock[i] \in Callers \ {p} => taskLock'[i] = taskLock[i]
<1>1. Target(p) \in Ids /\ taskLock[Target(p)] = p
  BY DEF IInv, Holds
<1>2. Moves(p) /\ caller'[p].pc = "updateCheck"
  BY DEF Updated, Moves, IInv, Shape, Frame
<1> QED
  BY <1>1, <1>2 DEF Updated, IInv, Shape

LEMMA UpdateReadInv ==
  ASSUME IInv, NEW p \in Callers, UpdateRead(p)
  PROVE  Steps(p)
<1>1. caller[p].pc = "updateRead" /\ Target(p) \in Ids /\ taskLock[Target(p)] = p
  BY DEF UpdateRead, At, IInv, Holds, Updating
<1>2. CASE Updated(p, Target(p))
  <2>1. Respects(p) /\ files' \subseteq Ids
    BY <1>1, <1>2, UpdatedMoves DEF UpdateRead, Respects, disk, IInv, Shape, Updating
  <2> QED
    BY <1>1, <1>2, <2>1, UpdatedMoves, IdleInv DEF Claiming, Updating
<1>3. CASE /\ caller' = [caller EXCEPT ![p].read = task[Target(p)], ![p].pc = "updateWrite"]
           /\ UNCHANGED locks
  <2>1. /\ Moves(p) /\ caller'[p].pc = "updateWrite" /\ caller'[p].todo = caller[p].todo
        /\ caller'[p].read = task[Target(p)]
    BY <1>3 DEF Moves, IInv, Shape, Frame
  <2>2. Respects(p) /\ files' \subseteq Ids
    BY <1>3 DEF UpdateRead, Respects, disk, locks, IInv, Shape
  <2>3. Target(p)' = Target(p)
    BY <2>1 DEF Target
  <2>4. Holds(p)' /\ Fresh(p)'
    BY <1>1, <1>3, <2>1, <2>3 DEF UpdateRead, Holds, Fresh, Claiming, disk, locks
  <2> QED
    BY <2>1, <2>2, <2>4, StepInv
<1> QED
  BY <1>2, <1>3 DEF UpdateRead, Target

LEMMA UpdateWriteInv ==
  ASSUME IInv, NEW p \in Callers, UpdateWrite(p)
  PROVE  Steps(p)
<1>1. /\ Target(p) \in Ids /\ taskLock[Target(p)] = p
      /\ task[Target(p)] \in {caller[p].read, NewTask}
  BY DEF UpdateWrite, At, IInv, Holds, Fresh, Updating, Writing
<1>2. /\ Moves(p) /\ caller'[p].pc = "updateEnd" /\ caller'[p].todo = caller[p].todo
      /\ caller'[p].read = caller[p].read
  BY GotoMoves DEF UpdateWrite, Frame
<1>3. Respects(p) /\ files' \subseteq Ids
  BY <1>1 DEF UpdateWrite, Target, Respects, locks, IInv, Shape
<1>4. Target(p)' = Target(p)
  BY <1>2 DEF Target
<1>5. Holds(p)' /\ Fresh(p)'
  BY <1>1, <1>2, <1>4 DEF UpdateWrite, Holds, Fresh, Claiming, locks
<1> QED
  BY <1>2, <1>3, <1>5, StepInv

LEMMA UpdateEndInv ==
  ASSUME IInv, NEW p \in Callers, UpdateEnd(p)
  PROVE  Steps(p)
<1>1. caller[p].pc \in Updating /\ Target(p) \in Ids /\ taskLock[Target(p)] = p
  BY DEF UpdateEnd, At, IInv, Holds, Updating
<1>2. Updated(p, Target(p))
  BY DEF UpdateEnd, Target
<1>3. DOMAIN task' = Ids /\ \A i \in Ids : taskLock[i] # p => task'[i] = task[i]
  BY <1>1 DEF UpdateEnd, Target, IInv, Shape
<1>4. Respects(p) /\ files' \subseteq Ids
  BY <1>1, <1>2, <1>3, UpdatedMoves DEF UpdateEnd, Respects, IInv, Shape
<1> QED
  BY <1>1, <1>2, <1>4, UpdatedMoves, IdleInv DEF Claiming, Updating

LEMMA CrashInv ==
  ASSUME IInv, NEW p \in Callers, Crash(p)
  PROVE  Steps(p)
  BY GotoMoves, MovingInv DEF Crash, disk, locks, IInv, Shape, Claiming, Updating

LEMMA LockStaleInv ==
  ASSUME IInv, NEW p \in Callers, LockStale(p)
  PROVE  Steps(p)
<1>1. taskLock' = [i \in Ids |-> IF taskLock[i] = p THEN None ELSE taskLock[i]]
  BY DEF LockStale
<1>2. Respects(p) /\ files' \subseteq Ids
  BY <1>1 DEF LockStale, Respects, disk, IInv, Shape
<1>3. Moves(p) /\ caller'[p].pc = "crashed"
  BY DEF LockStale, At, Moves, IInv, Shape
<1> QED
  BY <1>2, <1>3, IdleInv DEF Claiming, Updating

LEMMA ScanFrame ==
  ASSUME NEW p \in Callers, DOMAIN caller = Callers, DOMAIN caller[p] = Frame, CreateScan(p)
  PROVE  /\ DOMAIN caller' = Callers /\ DOMAIN caller'[p] = Frame
         /\ \A q \in Callers \ {p} : caller'[q] = caller[q]
         /\ caller'[p].pc \in {"createScan", "createWrite"}
         /\ caller'[p].todo = caller[p].todo
<1>1. PICK source \in {"files", "mark"} \ caller[p].seen :
        caller' = [caller EXCEPT
          ![p].high = Max({@, IF source = "files" THEN HighestFile ELSE MarkRead}),
          ![p].seen = @ \cup {source},
          ![p].pc = IF caller[p].seen = {} THEN "createScan" ELSE "createWrite"]
  BY DEF CreateScan
<1> DEFINE high == Max({caller[p].high, IF source = "files" THEN HighestFile ELSE MarkRead})
           seen == caller[p].seen \cup {source}
<1>2. caller' = [caller EXCEPT ![p].high = high, ![p].seen = seen,
           ![p].pc = IF caller[p].seen = {} THEN "createScan" ELSE "createWrite"]
  BY <1>1
<1> HIDE DEF high, seen
<1> QED
  BY <1>2 DEF Frame

(* createTask takes no task's lock, but what it writes is a new task.      *)
LEMMA CreateInv ==
  ASSUME IInv, NEW p \in Callers,
         CreateScan(p) \/ CreateWrite(p) \/ CreateEnd(p) \/ OutOfIds(p)
  PROVE  Steps(p)
<1>1. CASE OutOfIds(p)
  BY <1>1, ReturnInv DEF OutOfIds
<1>2. CASE CreateScan(p)
  <2>1. Moves(p) /\ caller'[p].pc \in {"createScan", "createWrite"}
    BY <1>2, ScanFrame DEF Moves, IInv, Shape, Frame
  <2> QED
    BY <1>2, <2>1, MovingInv DEF CreateScan, disk, locks, IInv, Shape, Claiming, Updating
<1>3. CASE CreateWrite(p)
  <2>1. Moves(p) /\ caller'[p].pc = "createEnd"
    BY <1>3 DEF CreateWrite, Moves, IInv, Shape, Frame
  <2> QED
    BY <1>3, <2>1, MovingInv DEF CreateWrite, locks, IInv, Shape, Claiming, Updating
<1>4. CASE CreateEnd(p)
  <2>1. DOMAIN task' = Ids /\ \A i \in Ids : task'[i] \in {task[i], NewTask}
    BY <1>4 DEF CreateEnd, IInv, Shape
  <2>2. Respects(p) /\ files' \subseteq Ids
    BY <1>4, <2>1, ReturnMoves DEF CreateEnd, Respects, IInv, Shape
  <2> QED
    BY <1>4, <2>2, ReturnMoves, IdleInv DEF CreateEnd, Claiming, Updating
<1> QED
  BY <1>1, <1>2, <1>3, <1>4

LEMMA StepsInv ==
  ASSUME IInv, NEW p \in Callers, Calls(p) \/ Step(p) \/ Crash(p) \/ LockStale(p)
  PROVE  Steps(p)
  BY CallsInv, LockListInv, LockTaskInv, LockFailsInv, CreateInv, ResetInv, UnlinkInv, MarkInv,
     DeleteInv, ClaimInv, BusyReadInv, UpdateCheckInv, UpdateReadInv, UpdateWriteInv,
     UpdateEndInv, CrashInv, LockStaleInv
     DEF Step

LEMMA NextInv == IInv /\ [Next]_vars => IInv'
<1> SUFFICES ASSUME IInv, [Next]_vars PROVE IInv'
  OBVIOUS
<1>1. CASE UNCHANGED vars
  BY <1>1 DEF vars, disk, locks, IInv, Shape, Holds, Fresh, Target
<1> QED
  BY <1>1, StepsInv DEF Next, Quiet, Steps

-----------------------------------------------------------------------------
(***************************************************************************)
(* Claims are exclusive (TaskList), for any number of callers, agents and  *)
(* tasks: among agents that claim with claimTask, create tasks, update     *)
(* other fields, unassign, block, delete and reset, an owner is replaced   *)
(* by nobody.                                                              *)
(*                                                                         *)
(* An update that is still to be made leaves the owner alone or removes    *)
(* it, except the one that ends a claim; and as long as a claim is under   *)
(* way, the task it found unowned is locked and stays unowned.             *)
(***************************************************************************)

Gentle(update) == "owner" \notin DOMAIN update.change \/ update.change.owner = None

GentleTodo(todo) == \E S : todo \in Seq(S) /\ \A update \in S : Gentle(update)

(* The task of p's claim belongs to nobody else. *)
Unclaimed(p) == task[caller[p].id].owner \in {None, caller[p].agent}

Ending(p) ==
  /\ caller[p].pc \in Updating
  /\ caller[p].todo = <<Update(caller[p].id, [owner |-> caller[p].agent])>>
  /\ Unclaimed(p)

Owning(p) ==
  /\ caller[p].pc \notin {"busyLock", "busyRead"}
  /\ caller[p].pc # "crashed" => GentleTodo(caller[p].todo) \/ Ending(p)
  /\ caller[p].pc = "claimList" => Unclaimed(p)
  /\ caller[p].pc \in Updating \cup {"updateLock"} => caller[p].todo # <<>>

OInv == IInv /\ \A p \in Callers : Owning(p)

(* The operations that claim, if at all, under the task's lock, and change *)
(* no owner otherwise.                                                     *)
GentleAgents ==
  /\ Operations \subseteq {"create", "claim", "update", "unassign", "delete", "block", "reset",
                      "hideTimer"}
  /\ \A change \in Changes : "owner" \notin DOMAIN change

------------------------------------------------------------------------------

LEMMA GentleSeq ==
  ASSUME NEW S, \A update \in S : Gentle(update), NEW todo \in Seq(S)
  PROVE  GentleTodo(todo)
  BY Zenon DEF GentleTodo

LEMMA EmptyTodo == GentleTodo(<<>>)
<1> DEFINE S == {}
<1>1. <<>> \in Seq(S) /\ \A update \in S : Gentle(update)
  OBVIOUS
<1> HIDE DEF S
<1> QED
  BY <1>1, GentleSeq

(* The others' claims are not disturbed. *)
LEMMA OwningInv ==
  ASSUME OInv, NEW p \in Callers, Steps(p), Owning(p)'
  PROVE  OInv'
<1>1. ASSUME NEW q \in Callers \ {p} PROVE Owning(q)'
  <2>1. caller'[q] = caller[q]
    BY DEF Steps, Moves
  <2>2. Owning(q) /\ Holds(q)
    BY DEF OInv, IInv
  <2>3. ASSUME caller[q].id \in Ids, taskLock[caller[q].id] = q, Unclaimed(q)
        PROVE  Unclaimed(q)'
    BY <2>1, <2>3 DEF Unclaimed, Steps, Respects, NewTask
  <2>4. ASSUME Ending(q) PROVE Ending(q)'
    <3>1. Target(q) = caller[q].id
      BY <2>4 DEF Ending, Target, Update
    <3>2. Unclaimed(q)'
      BY <2>2, <2>3, <2>4, <3>1 DEF Ending, Holds
    <3> QED
      BY <2>1, <2>4, <3>2 DEF Ending
  <2>5. caller[q].pc = "claimList" => Unclaimed(q)'
    BY <2>2, <2>3 DEF Owning, Holds, Claiming
  <2> QED
    BY <2>1, <2>2, <2>4, <2>5 DEF Owning
<1> QED
  BY <1>1 DEF OInv, Steps

(* Steps to a point where no update is under way. *)
LEMMA RestInv ==
  ASSUME OInv, NEW p \in Callers, Steps(p),
         caller'[p].pc \notin Updating \cup {"updateLock", "claimList", "busyLock", "busyRead"},
         caller'[p].pc # "crashed" => GentleTodo(caller'[p].todo)
  PROVE  OInv'
<1>1. Owning(p)'
  BY DEF Owning
<1> QED
  BY <1>1, OwningInv

(* The other updates of a call that does not end a claim. *)
LEMMA KeptTodo ==
  ASSUME OInv, NEW p \in Callers, caller[p].pc \notin Updating \cup {"crashed"}
  PROVE  GentleTodo(caller[p].todo)
  BY DEF OInv, Owning, Ending

LEMMA TailTodo ==
  ASSUME NEW todo, todo # <<>>, GentleTodo(todo)
  PROVE  GentleTodo(Tail(todo)) /\ Gentle(Head(todo))
<1>1. PICK S : todo \in Seq(S) /\ \A update \in S : Gentle(update)
  BY DEF GentleTodo
<1>2. Tail(todo) \in Seq(S) /\ Head(todo) \in S
  BY <1>1
<1> QED
  BY <1>1, <1>2 DEF GentleTodo

(* Steps that end a call. *)
LEMMA ReturnOwning ==
  ASSUME OInv, NEW p \in Callers, Steps(p), Return(p)
  PROVE  OInv'
<1>1. caller'[p].pc = "idle" /\ caller'[p].todo = <<>>
  BY DEF Return, OInv, IInv, Shape, Frame
<1> QED
  BY <1>1, EmptyTodo, RestInv DEF Updating

(* Steps that only move on. *)
LEMMA GotoOwning ==
  ASSUME OInv, NEW p \in Callers, Steps(p), caller[p].pc \notin Updating \cup {"crashed"},
         caller'[p].todo = caller[p].todo,
         caller'[p].pc \notin Updating \cup {"updateLock", "claimList", "busyLock", "busyRead"}
  PROVE  OInv'
  BY KeptTodo, RestInv

------------------------------------------------------------------------------
(* Calls begin *)

(* A call that begins changes no owner, unless it claims the task, which   *)
(* is decided under the lock only.                                         *)
LEMMA StartedOwning ==
  ASSUME OInv, NEW p \in Callers, Steps(p),
         NEW point \in {"createLock", "resetLock", "resetCheck", "deleteScan", "claimLock",
                        "updateCheck"},
         NEW i, NEW todo, Started(p, point, i, todo), GentleTodo(todo)
  PROVE  OInv'
<1>1. caller'[p].pc = point /\ caller'[p].todo = todo
  BY DEF Started, OInv, IInv, Shape, Frame
<1> QED
  BY <1>1, RestInv DEF Updating

LEMMA PairGentle ==
  ASSUME NEW u, NEW v, Gentle(u), Gentle(v), NEW todo \in Seq({u, v})
  PROVE  GentleTodo(todo)
<1> DEFINE S == {u, v}
<1>1. todo \in Seq(S) /\ \A update \in S : Gentle(update)
  OBVIOUS
<1> HIDE DEF S
<1> QED
  BY <1>1, GentleSeq

LEMMA OneGentle ==
  ASSUME NEW update, Gentle(update)
  PROVE  GentleTodo(<<update>>)
<1>1. <<update>> \in Seq({update, update})
  OBVIOUS
<1> QED
  BY <1>1, PairGentle

(* One update for each of finitely many tasks.                             *)
LEMMA EachGentle ==
  ASSUME NEW S \in SUBSET Ids, NEW order \in [1..Cardinality(S) -> S], NEW todo,
         DOMAIN todo = DOMAIN order, todo = [n \in DOMAIN order |-> todo[n]],
         \A n \in DOMAIN order : Gentle(todo[n])
  PROVE  GentleTodo(todo)
<1>0. 1 \in Int /\ MaxId \in Int
  BY ConstantsAssumption
<1>1. IsFiniteSet(Ids)
  BY <1>0, FS_Interval, Zenon DEF Ids
<1>2. Cardinality(S) \in Nat
  BY <1>1, FS_Subset, FS_CardinalityType
<1> DEFINE N == Cardinality(S)
           updates == {todo[n] : n \in 1..N}
<1>3. DOMAIN order = 1..N
  OBVIOUS
<1>4. \A update \in updates : Gentle(update)
  BY <1>3
<1>5. todo \in [1..N -> updates]
  BY <1>3
<1> HIDE DEF updates, N
<1>6. todo \in Seq(updates)
  BY <1>2, <1>5 DEF N
<1> QED
  BY <1>4, <1>6, GentleSeq

LEMMA CallsOwning ==
  ASSUME OInv, GentleAgents, NEW p \in Callers, Steps(p), Calls(p)
  PROVE  OInv'
<1>1. "start" \notin Operations /\ "busyClaim" \notin Operations
  BY DEF GentleAgents
<1>2. CASE \/ CallCreate(p) \/ CallReset(p) \/ CallHideTimer(p)
           \/ \E i \in files : CallDelete(p, i) \/ CallClaim(p, i)
  BY <1>1, <1>2, EmptyTodo, StartedOwning
     DEF CallCreate, CallReset, CallHideTimer, CallDelete, CallClaim, Begin
<1>3. ASSUME NEW i \in files, CallUpdate(p, i) PROVE OInv'
  <2>1. PICK change \in Changes : Started(p, "updateCheck", i, <<Update(i, change)>>)
    BY <1>3 DEF CallUpdate
  <2>2. Gentle(Update(i, change))
    BY DEF GentleAgents, Gentle, Update
  <2> QED
    BY <2>1, <2>2, OneGentle, StartedOwning
<1>4. ASSUME NEW i \in files, NEW j \in files, CallBlock(p, i, j) PROVE OInv'
  <2> DEFINE u == Update(i, [blocks |-> task[i].blocks \cup {j}])
             v == Update(j, [blockedBy |-> task[j].blockedBy \cup {i}])
  <2>1. Gentle(u) /\ Gentle(v)
    BY DEF Gentle, Update
  <2>2. \E todo \in {<<>> \o <<>>, <<u>> \o <<>>, <<>> \o <<v>>, <<u>> \o <<v>>} :
           Started(p, "updateCheck", i, todo)
    BY <1>4 DEF CallBlock
  <2> HIDE DEF u, v
  <2>3. PICK todo \in {<<>> \o <<>>, <<u>> \o <<>>, <<>> \o <<v>>, <<u>> \o <<v>>} :
           Started(p, "updateCheck", i, todo)
    BY <2>2
  <2>4. <<>> \in Seq({u, v}) /\ <<u>> \in Seq({u, v}) /\ <<v>> \in Seq({u, v})
    OBVIOUS
  <2>5. todo \in Seq({u, v})
    <3> DEFINE S == {u, v}
    <3> HIDE DEF S
    <3>1. ASSUME NEW s \in Seq(S), NEW t \in Seq(S) PROVE s \o t \in Seq(S)
      OBVIOUS
    <3>2. <<>> \in Seq(S) /\ <<u>> \in Seq(S) /\ <<v>> \in Seq(S)
      BY <2>4 DEF S
    <3> QED
      BY <2>3, <3>1, <3>2, Zenon DEF S
  <2> QED
    BY <2>1, <2>3, <2>5, PairGentle, StartedOwning
<1>5. ASSUME NEW a \in Agents, CallUnassign(p, a) PROVE OInv'
  <2> DEFINE mine == {i \in ListTasks : Open(i) /\ task[i].owner = a}
  <2>1. PICK order \in [1..Cardinality(mine) -> mine] :
          Started(p, "updateCheck", 1,
                  [n \in DOMAIN order |->
                     Update(order[n], [owner |-> None, status |-> "pending"])])
    BY <1>5 DEF CallUnassign
  <2>2. mine \in SUBSET Ids
    BY DEF ListTasks
  <2> HIDE DEF mine
  <2> DEFINE todo == [n \in DOMAIN order |->
                       Update(order[n], [owner |-> None, status |-> "pending"])]
  <2>3. \A n \in DOMAIN order : Gentle(todo[n])
    BY DEF Gentle, Update
  <2>4. DOMAIN todo = DOMAIN order /\ todo = [n \in DOMAIN order |-> todo[n]]
    OBVIOUS
  <2>5. Started(p, "updateCheck", 1, todo)
    BY <2>1
  <2> HIDE DEF todo
  <2>6. GentleTodo(todo)
    BY <2>2, <2>3, <2>4, EachGentle
  <2> QED
    BY <2>5, <2>6, StartedOwning
<1>6. ~ \E i \in files : CallStart(p, i)
  BY <1>1 DEF CallStart, Begin
<1> QED
  BY <1>2, <1>3, <1>4, <1>5, <1>6 DEF Calls

------------------------------------------------------------------------------
(* The steps *)

(* Steps that neither update a task nor are about to. *)
LEMMA OtherStepsOwning ==
  ASSUME OInv, NEW p \in Callers, Steps(p),
         \/ LockList(p) \/ LockFails(p)
         \/ CreateScan(p) \/ CreateWrite(p) \/ CreateEnd(p) \/ OutOfIds(p)
         \/ ResetCheck(p) \/ ResetScan(p) \/ ResetMark(p) \/ ResetList(p) \/ ResetUnlink(p)
         \/ MarkWrite(p) \/ MarkEnd(p) \/ DeleteScan(p) \/ DeleteUnlink(p)
  PROVE  OInv'
<1>1. CASE Return(p)
  BY <1>1, ReturnOwning
<1>2. CASE ~Return(p)
  <2>1. caller[p].pc \notin Updating \cup {"crashed", "busyLock"}
    <3>1. caller[p].pc # "busyLock"
      BY DEF OInv, Owning
    <3> QED
      BY <1>2, <3>1 DEF LockList, LockFails, CreateScan, CreateWrite, CreateEnd, OutOfIds,
         ResetCheck, ResetScan, ResetMark, ResetList, ResetUnlink, MarkWrite, MarkEnd,
         DeleteScan, DeleteUnlink, At, Updating
  <2>2. /\ caller'[p].todo = caller[p].todo
        /\ caller'[p].pc \notin Updating \cup {"updateLock", "claimList", "busyLock", "busyRead"}
    <3>1. CASE CreateScan(p)
      BY <3>1, ScanFrame DEF Updating, OInv, IInv, Shape, Frame
    <3>2. CASE CreateWrite(p) \/ CreateEnd(p) \/ OutOfIds(p)
      BY <1>2, <3>2 DEF CreateWrite, CreateEnd, OutOfIds, Updating, OInv, IInv, Shape, Frame
    <3>3. CASE ~ CreateScan(p) /\ ~ (CreateWrite(p) \/ CreateEnd(p) \/ OutOfIds(p))
      BY <1>2, <2>1, <3>3 DEF LockList, LockFails, ResetCheck, ResetScan, ResetMark, ResetList,
         ResetUnlink, MarkWrite, MarkEnd, DeleteScan, DeleteUnlink, At, Goto, Updating,
         OInv, IInv, Shape, Frame
    <3> QED
      BY <3>1, <3>2, <3>3
  <2> QED
    BY <2>1, <2>2, GotoOwning
<1> QED
  BY <1>1, <1>2

LEMMA DeleteRefsOwning ==
  ASSUME OInv, NEW p \in Callers, Steps(p), DeleteRefs(p)
  PROVE  OInv'
<1> DEFINE holders == {j \in ListTasks : caller[p].id \in task[j].blocks \cup task[j].blockedBy}
<1>1. PICK order \in [1..Cardinality(holders) -> holders] :
        caller' = [caller EXCEPT ![p].pc = "updateCheck",
          ![p].todo = [n \in DOMAIN order |->
             Update(order[n], [blocks |-> task[order[n]].blocks \ {caller[p].id},
                               blockedBy |-> task[order[n]].blockedBy \ {caller[p].id}])]]
  BY DEF DeleteRefs
<1>2. holders \in SUBSET Ids
  BY DEF ListTasks
<1> HIDE DEF holders
<1> DEFINE todo == [n \in DOMAIN order |->
             Update(order[n], [blocks |-> task[order[n]].blocks \ {caller[p].id},
                               blockedBy |-> task[order[n]].blockedBy \ {caller[p].id}])]
<1>3. \A n \in DOMAIN order : Gentle(todo[n])
  BY DEF Gentle, Update
<1>4. DOMAIN todo = DOMAIN order /\ todo = [n \in DOMAIN order |-> todo[n]]
  OBVIOUS
<1>5. caller' = [caller EXCEPT ![p].pc = "updateCheck", ![p].todo = todo]
  BY <1>1
<1> HIDE DEF todo
<1>6. caller'[p].pc = "updateCheck" /\ caller'[p].todo = todo
  BY <1>5 DEF OInv, IInv, Shape, Frame
<1>7. GentleTodo(todo)
  BY <1>2, <1>3, <1>4, EachGentle
<1> QED
  BY <1>6, <1>7, RestInv DEF Updating

LEMMA LockTaskOwning ==
  ASSUME OInv, NEW p \in Callers, Steps(p), LockTask(p)
  PROVE  OInv'
<1>1. CASE At(p, "claimLock")
  <2>1. caller'[p].pc = "claimRead" /\ caller'[p].todo = caller[p].todo
    BY <1>1, GotoMoves DEF LockTask, OInv, Frame
  <2> QED
    BY <1>1, <2>1, GotoOwning DEF At, Updating
<1>2. CASE ~At(p, "claimLock")
  <2>1. At(p, "updateLock")
    BY <1>2 DEF LockTask, WaitsForTask
  <2>2. caller'[p].pc = "updateRead" /\ caller'[p].todo = caller[p].todo
    BY <1>2, GotoMoves DEF LockTask, OInv, Frame
  <2>3. GentleTodo(caller[p].todo) /\ caller[p].todo # <<>>
    BY <2>1, KeptTodo DEF At, Updating, OInv, Owning
  <2>4. Owning(p)'
    BY <2>2, <2>3 DEF Owning
  <2> QED
    BY <2>4, OwningInv
<1> QED
  BY <1>1, <1>2

(* The claim sees under the lock that the task is nobody else's. *)
LEMMA ClaimOwning ==
  ASSUME OInv, NEW p \in Callers, Steps(p), ClaimRead(p) \/ ClaimList(p)
  PROVE  OInv'
<1>1. CASE Return(p)
  BY <1>1, ReturnOwning
<1>2. GentleTodo(caller[p].todo)
  BY KeptTodo DEF ClaimRead, ClaimList, At, Updating
<1>3. CASE ClaimRead(p) /\ ~Return(p)
  <2>1. /\ caller'[p].pc = "claimList" /\ caller'[p].todo = caller[p].todo
        /\ caller'[p].id = caller[p].id /\ caller'[p].agent = caller[p].agent
    BY <1>3 DEF ClaimRead, OInv, IInv, Shape, Frame
  <2>2. task[caller[p].id].owner \in {None, caller[p].agent} /\ task' = task
    BY <1>3 DEF ClaimRead, Claimable, disk
  <2>3. Unclaimed(p)'
    BY <2>1, <2>2 DEF Unclaimed
  <2>4. Owning(p)'
    BY <1>2, <2>1, <2>3 DEF Owning, Updating
  <2> QED
    BY <2>4, OwningInv
<1>4. CASE ClaimList(p) /\ ~Return(p)
  <2>1. /\ caller'[p].pc = "updateRead"
        /\ caller'[p].todo = <<Update(caller[p].id, [owner |-> caller[p].agent])>>
        /\ caller'[p].id = caller[p].id /\ caller'[p].agent = caller[p].agent
    BY <1>4 DEF ClaimList, OInv, IInv, Shape, Frame
  <2>2. Unclaimed(p) /\ task' = task
    BY <1>4 DEF ClaimList, At, OInv, Owning, disk
  <2>3. Ending(p)'
    BY <2>1, <2>2 DEF Ending, Unclaimed, Updating
  <2>4. Owning(p)'
    BY <2>1, <2>3 DEF Owning
  <2> QED
    BY <2>4, OwningInv
<1> QED
  BY <1>1, <1>3, <1>4

LEMMA UpdateCheckOwning ==
  ASSUME OInv, NEW p \in Callers, Steps(p), UpdateCheck(p)
  PROVE  OInv'
<1>1. CASE Return(p)
  BY <1>1, ReturnOwning
<1>2. GentleTodo(caller[p].todo)
  BY KeptTodo DEF UpdateCheck, At, Updating
<1>3. CASE ~Return(p) /\ caller' = [caller EXCEPT ![p].pc = "updateLock"]
  <2>1. caller'[p].pc = "updateLock" /\ caller'[p].todo = caller[p].todo
        /\ caller[p].todo # <<>>
    BY <1>3 DEF UpdateCheck, OInv, IInv, Shape, Frame
  <2>2. Owning(p)'
    BY <1>2, <2>1 DEF Owning
  <2> QED
    BY <2>2, OwningInv
<1>4. CASE ~Return(p) /\ caller' = [caller EXCEPT ![p].todo = Tail(@)]
  <2>1. caller'[p].pc = "updateCheck" /\ caller'[p].todo = Tail(caller[p].todo)
        /\ caller[p].todo # <<>>
    BY <1>4 DEF UpdateCheck, At, OInv, IInv, Shape, Frame
  <2>2. GentleTodo(caller'[p].todo)
    BY <1>2, <2>1, TailTodo
  <2> QED
    BY <2>1, <2>2, RestInv DEF Updating
<1> QED
  BY <1>1, <1>3, <1>4 DEF UpdateCheck

LEMMA UpdatedOwning ==
  ASSUME OInv, NEW p \in Callers, Steps(p), caller[p].pc \in Updating, Updated(p, Target(p))
  PROVE  OInv'
<1>1. caller'[p].pc = "updateCheck" /\ caller'[p].todo = Tail(caller[p].todo)
  BY DEF Updated, OInv, IInv, Shape, Frame
<1>2. caller[p].todo # <<>> /\ (GentleTodo(caller[p].todo) \/ Ending(p))
  BY DEF OInv, Owning, Updating
<1>3. GentleTodo(caller'[p].todo)
  <2>1. CASE GentleTodo(caller[p].todo)
    BY <1>1, <1>2, <2>1, TailTodo
  <2>2. CASE Ending(p)
    <3>1. Tail(caller[p].todo) = <<>>
      BY <2>2 DEF Ending
    <3> QED
      BY <1>1, <3>1, EmptyTodo
  <2> QED
    BY <1>2, <2>1, <2>2
<1> QED
  BY <1>1, <1>3, RestInv DEF Updating

LEMMA UpdateOwning ==
  ASSUME OInv, NEW p \in Callers, Steps(p), UpdateRead(p) \/ UpdateWrite(p) \/ UpdateEnd(p)
  PROVE  OInv'
<1>1. caller[p].pc \in Updating
  BY DEF UpdateRead, UpdateWrite, UpdateEnd, At, Updating
<1>2. CASE Updated(p, Target(p))
  BY <1>1, <1>2, UpdatedOwning
<1>3. CASE ~Updated(p, Target(p))
  <2>1. /\ caller'[p].pc \in Updating /\ caller'[p].todo = caller[p].todo
        /\ caller'[p].id = caller[p].id /\ caller'[p].agent = caller[p].agent
        /\ task' = task
    BY <1>3 DEF UpdateRead, UpdateWrite, UpdateEnd, Target, Goto, disk, Updating,
       OInv, IInv, Shape, Frame
  <2>2. Owning(p)
    BY DEF OInv
  <2>3. Ending(p) => Ending(p)'
    BY <2>1 DEF Ending, Unclaimed
  <2>4. Owning(p)'
    BY <1>1, <2>1, <2>2, <2>3 DEF Owning, Updating
  <2> QED
    BY <2>4, OwningInv
<1> QED
  BY <1>2, <1>3

LEMMA CrashOwning ==
  ASSUME OInv, NEW p \in Callers, Steps(p), Crash(p) \/ LockStale(p)
  PROVE  OInv'
<1>1. caller'[p].pc = "crashed"
  BY GotoMoves DEF Crash, LockStale, At, OInv
<1> QED
  BY <1>1, RestInv DEF Updating

------------------------------------------------------------------------------
(* The end of an update was merged into what the file holds, unless that   *)
(* was created meanwhile and has no owner: it keeps the owner, removes it, *)
(* or ends a claim.                                                        *)
LEMMA OwnersKept ==
  ASSUME OInv, NEW p \in Callers, UpdateEnd(p), NEW i \in Ids, task[i].owner # None
  PROVE  task'[i].owner \in {task[i].owner, None}
<1>1. caller[p].pc = "updateEnd"
  BY DEF UpdateEnd, At
<1>2. CASE task'[i] = task[i]
  BY <1>2
<1>3. CASE task'[i] # task[i]
  <2> DEFINE next == Head(caller[p].todo)
  <2>1. i = Target(p) /\ task'[i] = Merge(caller[p].read, next.change)
    BY <1>3 DEF UpdateEnd, Target, OInv, IInv, Shape
  <2>2. caller[p].read = task[i]
    BY <1>1, <2>1 DEF OInv, IInv, Fresh, Writing, NewTask
  <2>3. task'[i].owner = IF "owner" \in DOMAIN next.change THEN next.change.owner ELSE task[i].owner
    BY <2>1, <2>2 DEF Merge, Fields
  <2>4. CASE GentleTodo(caller[p].todo)
    <3>1. caller[p].todo # <<>>
      BY <1>1 DEF OInv, Owning, Updating
    <3>2. Gentle(next)
      BY <2>4, <3>1, TailTodo
    <3> QED
      BY <2>3, <3>2 DEF Gentle
  <2>5. CASE Ending(p)
    <3>1. next = Update(caller[p].id, [owner |-> caller[p].agent]) /\ Unclaimed(p)
      BY <2>5 DEF Ending
    <3>2. i = caller[p].id /\ next.change.owner = caller[p].agent
          /\ "owner" \in DOMAIN next.change
      BY <2>1, <3>1 DEF Target, Update
    <3> QED
      BY <2>3, <3>1, <3>2 DEF Unclaimed
  <2> QED
    BY <1>1, <2>4, <2>5 DEF OInv, Owning
<1> QED
  BY <1>2, <1>3

LEMMA NextOwning == GentleAgents /\ OInv /\ [Next]_vars => OInv'
<1> SUFFICES ASSUME GentleAgents, OInv, [Next]_vars PROVE OInv'
  OBVIOUS
<1>1. CASE UNCHANGED vars
  BY <1>1 DEF vars, disk, locks, OInv, IInv, Shape, Holds, Fresh, Target, Owning, Ending, Unclaimed
<1>2. IInv
  BY DEF OInv
<1>3. ASSUME NEW p \in Callers, Calls(p) PROVE OInv'
  BY <1>2, <1>3, StepsInv, CallsOwning
<1>4. ASSUME NEW p \in Callers, Crash(p) \/ LockStale(p) PROVE OInv'
  BY <1>2, <1>4, StepsInv, CrashOwning
<1>5. ASSUME NEW p \in Callers, Step(p) PROVE OInv'
  <2>1. ~ BusyRead(p)
    BY DEF BusyRead, At, OInv, Owning
  <2>2. Steps(p)
    BY <1>2, <1>5, StepsInv
  <2> QED
    BY <1>5, <2>1, <2>2, OtherStepsOwning, DeleteRefsOwning, LockTaskOwning, ClaimOwning,
       UpdateCheckOwning, UpdateOwning
       DEF Step
<1> QED
  BY <1>1, <1>3, <1>4, <1>5 DEF Next, Quiet

LEMMA InitOwning == Init => OInv
<1> SUFFICES ASSUME Init PROVE OInv
  OBVIOUS
<1>1. PICK agent \in [Callers -> Agents] :
        caller = [p \in Callers |->
                   [pc |-> "idle", agent |-> agent[p], id |-> 1, read |-> NewTask,
                    todo |-> <<>>, batch |-> {}, high |-> 0, seen |-> {}, calls |-> 0]]
  BY DEF Init
<1>2. \A p \in Callers : caller[p].pc = "idle" /\ caller[p].todo = <<>>
  BY <1>1
<1> QED
  BY <1>2, InitInv, EmptyTodo DEF OInv, Owning, Updating

(* What no other step of a call does. *)
LEMMA TaskKept ==
  ASSUME [Next]_vars, \A p \in Callers : ~UpdateEnd(p) /\ ~CreateEnd(p)
  PROVE  task' = task
<1>1. ASSUME NEW p \in Callers, Calls(p) PROVE task' = task
  BY <1>1 DEF disk, Calls, Begin, CallCreate, CallReset, CallHideTimer, CallDelete, CallClaim,
     CallUpdate, CallStart, CallBlock, CallUnassign
<1>2. ASSUME NEW p \in Callers, Step(p) PROVE task' = task
  <2>1. \/ LockList(p) \/ LockTask(p) \/ LockFails(p)
        \/ CreateScan(p) \/ CreateWrite(p) \/ OutOfIds(p)
        \/ MarkWrite(p) \/ MarkEnd(p)
        \/ DeleteScan(p) \/ DeleteRefs(p)
        \/ ClaimRead(p) \/ ClaimList(p) \/ BusyRead(p)
        \/ UpdateCheck(p) \/ UpdateRead(p) \/ UpdateWrite(p)
        => task' = task
    BY DEF disk, LockList, LockTask, LockFails, CreateScan, CreateWrite, OutOfIds, MarkWrite,
       MarkEnd, DeleteScan, DeleteRefs, ClaimRead, ClaimList, BusyRead, UpdateCheck, UpdateRead,
       UpdateWrite
  <2>2. \/ ResetCheck(p) \/ ResetScan(p) \/ ResetMark(p) \/ ResetList(p) \/ ResetUnlink(p)
        \/ DeleteUnlink(p)
        => task' = task
    BY DEF disk, ResetCheck, ResetScan, ResetMark, ResetList, ResetUnlink, Unlink, DeleteUnlink
  <2> QED
    BY <1>2, <2>1, <2>2 DEF Step
<1> QED
  BY <1>1, <1>2 DEF Next, Quiet, vars, disk, Crash, LockStale

(* A new task has no owner. *)
LEMMA NewOwner ==
  ASSUME OInv, NEW p \in Callers, CreateEnd(p), NEW i \in Ids
  PROVE  task'[i].owner \in {task[i].owner, None}
<1>1. task'[i] \in {task[i], NewTask}
  BY DEF CreateEnd, OInv, IInv, Shape
<1> QED
  BY <1>1 DEF NewTask

(* Whatever claims, creations, updates, deletions and deaths interleave,   *)
(* no agent loses a task to another one before it is released.             *)
THEOREM Claims == ASSUME GentleAgents PROVE Spec => ClaimExclusive
<1>1. Init => OInv
  BY InitOwning
<1>2. OInv /\ [Next]_vars => OInv'
  BY NextOwning
<1>3. OInv /\ [Next]_vars =>
        [\A i \in Ids : task[i].owner # None => task'[i].owner \in {task[i].owner, None}]_vars
  BY OwnersKept, NewOwner, TaskKept
<1> QED
  BY <1>1, <1>2, <1>3, PTL DEF Spec, ClaimExclusive
------------------------------------------------------------------------------
(* A change that fits a new task fits every task. *)
Fits(change) == Merge(NewTask, change) \in Tasks

LEMMA MergeTyped ==
  ASSUME NEW t \in Tasks, NEW change, Fits(change)
  PROVE  Merge(t, change) \in Tasks
<1> DEFINE m == Merge(t, change)
           n == Merge(NewTask, change)
<1>1. \A f \in Fields : m[f] = IF f \in DOMAIN change THEN n[f] ELSE t[f]
  BY DEF Merge
<1>2. m = [f \in Fields |-> m[f]]
  BY DEF Merge
<1>3. n \in Tasks
  BY DEF Fits
<1> HIDE DEF m, n
<1>4. /\ m["status"] \in Statuses /\ m["owner"] \in Agents \cup {None}
      /\ m["blocks"] \in SUBSET Ids /\ m["blockedBy"] \in SUBSET Ids
  BY <1>1, <1>3 DEF Tasks, Fields
<1> QED
  BY <1>2, <1>4 DEF Tasks, Fields, m

LEMMA ChangeFits ==
  /\ \A i, j \in Ids, t \in Tasks :
       /\ Fits([blocks |-> t.blocks \cup {j}])
       /\ Fits([blockedBy |-> t.blockedBy \cup {i}])
       /\ Fits([blocks |-> t.blocks \ {i}, blockedBy |-> t.blockedBy \ {i}])
  /\ \A a \in Agents \cup {None}, s \in Statuses :
       Fits([status |-> s, owner |-> a]) /\ Fits([owner |-> a, status |-> s]) /\ Fits([owner |-> a])
  /\ \A s \in Statuses : Fits([status |-> s])
  BY DEF Fits, Merge, Tasks, NewTask, Fields, Statuses

(* Induction over the naturals, for a set in place of a predicate: a set of  *)
(* counterexamples to it would have no least interval 0..n.                  *)
LEMMA SetInduction ==
  ASSUME NEW T, 0 \in T, \A n \in Nat : n \in T => n + 1 \in T
  PROVE  Nat \subseteq T
<1> DEFINE Missing == {0..n : n \in Nat \ T}
           Less == StrictSubsetOrdering(Nat)
           Finite == FiniteSubsetsOf(Nat)
<1>1. IsWellFoundedOn(Less, Finite)
  BY FS_StrictSubsetOrderingWellFounded
<1>2. Missing \subseteq Finite
  <2>1. \A n \in Nat : 0..n \subseteq Nat /\ IsFiniteSet(0..n)
    BY FS_Interval
  <2> QED
    BY <2>1 DEF FiniteSubsetsOf
<1>3. ASSUME Missing # {} PROVE FALSE
  <2> HIDE DEF Missing, Less, Finite
  <2>1. PICK x \in Missing : \A y \in Missing : ~ (<<y, x>> \in Less)
    BY <1>1, <1>2, <1>3, WFMin
  <2>2. PICK n \in Nat \ T : x = 0..n
    BY DEF Missing
  <2>3. n # 0 /\ n - 1 \in Nat /\ n = (n - 1) + 1
    BY <2>2
  <2>4. 0..(n - 1) \in Missing
    BY <2>2, <2>3 DEF Missing
  <2>5. /\ 0..(n - 1) \subseteq 0..n /\ 0..n \subseteq Nat
        /\ n \notin 0..(n - 1) /\ n \in 0..n
    BY <2>3
  <2>6. <<0..(n - 1), 0..n>> \in Less
    BY <2>5 DEF Less, StrictSubsetOrdering
  <2> QED
    BY <2>1, <2>2, <2>4, <2>6
<1>4. ASSUME NEW n \in Nat, n \notin T PROVE FALSE
  <2>1. 0..n \in Missing
    BY <1>4
  <2> QED
    BY <1>3, <2>1
<1> QED
  BY <1>4

(* The largest of bounded numbers. *)
LEMMA MaxExists ==
  ASSUME NEW n \in Nat, NEW S \in SUBSET (0..n), S # {}
  PROVE  Max(S) \in S /\ \A x \in S : x <= Max(S)
<1> DEFINE HasMax(R) == \E x \in R : \A y \in R : x >= y
           T == {m \in Nat : \A R \in SUBSET (0..m) : R # {} => HasMax(R)}
<1>1. 0 \in T
  <2>1. ASSUME NEW R \in SUBSET (0..0), R # {} PROVE HasMax(R)
    <3>1. 0..0 = {0}
      OBVIOUS
    <3>2. 0 \in R /\ \A y \in R : y = 0
      BY <2>1, <3>1
    <3> QED
      BY <3>2
  <2> QED
    BY <2>1
<1>2. ASSUME NEW m \in Nat, m \in T PROVE m + 1 \in T
  <2>1. ASSUME NEW R \in SUBSET (0..(m + 1)), R # {} PROVE HasMax(R)
    <3>1. CASE m + 1 \in R
      <4>1. \A y \in R : m + 1 >= y
        OBVIOUS
      <4> QED
        BY <3>1, <4>1
    <3>2. CASE m + 1 \notin R
      <4>1. R \in SUBSET (0..m)
        BY <3>2
      <4> QED
        BY <1>2, <2>1, <4>1
    <3> QED
      BY <3>1, <3>2
  <2> HIDE DEF HasMax
  <2> QED
    BY <2>1
<1>3. n \in T
  <2> HIDE DEF T
  <2> QED
    BY <1>1, <1>2, SetInduction
<1>4. \E x \in S : \A y \in S : x >= y
  BY <1>3
<1>5. Max(S) \in S /\ \A y \in S : Max(S) >= y
  BY <1>4 DEF Max
<1>6. \A y \in S : y \in Int
  OBVIOUS
<1> QED
  BY <1>5, <1>6

LEMMA HighestOf ==
  ASSUME NEW F \in SUBSET Ids
  PROVE  /\ Max(F \cup {0}) \in 0..MaxId
         /\ \A i \in F : i <= Max(F \cup {0})
         /\ Max(F \cup {0}) # 0 => Max(F \cup {0}) \in F
<1> DEFINE S == F \cup {0}
<1>1. MaxId \in Nat /\ S \in SUBSET (0..MaxId) /\ S # {}
  BY ConstantsAssumption DEF Ids
<1> HIDE DEF S
<1>2. Max(S) \in S /\ \A x \in S : x <= Max(S)
  BY <1>1, MaxExists
<1> QED
  BY <1>1, <1>2 DEF S

LEMMA HigherFacts ==
  ASSUME NEW x \in 0..MaxId, NEW y \in 0..MaxId
  PROVE  Max({x, y}) \in 0..MaxId /\ x <= Max({x, y}) /\ y <= Max({x, y})
<1> DEFINE S == {x, y}
<1>1. MaxId \in Nat /\ S \in SUBSET (0..MaxId) /\ S # {}
  BY ConstantsAssumption
<1>2. x \in S /\ y \in S
  OBVIOUS
<1> HIDE DEF S
<1>3. Max(S) \in S /\ \A z \in S : z <= Max(S)
  BY <1>1, MaxExists
<1> QED
  BY <1>1, <1>2, <1>3 DEF S

------------------------------------------------------------------------------
(* The types.  The updates that a call has left to make change tasks to    *)
(* tasks; and one that it is making is there.                              *)

TodoTyped(todo) ==
  \E S : todo \in Seq(S) /\ \A update \in S : update.id \in Ids /\ Fits(update.change)

Updates == {"updateLock", "updateRead", "updateWrite", "updateEnd"}

FrameOK(f) ==
  /\ DOMAIN f = Frame
  /\ f.pc \in Points /\ f.agent \in Agents /\ f.id \in Ids /\ f.read \in Tasks
  /\ f.batch \subseteq Ids /\ f.high \in 0..MaxId
  /\ f.seen \subseteq {"files", "mark"} /\ f.calls \in 0..MaxCalls
  /\ TodoTyped(f.todo)
  /\ f.pc \in Updates => f.todo # <<>>

Frames == DOMAIN caller = Callers /\ \A p \in Callers : FrameOK(caller[p])

DiskTyped ==
  /\ files \subseteq Ids
  /\ writer \in [Ids -> Callers \cup {None}]
  /\ task \in [Ids -> Tasks]
  /\ mark \in 0..MaxId
  /\ markWriter \in Callers \cup {None}

LocksTyped ==
  /\ listLock \in Callers \cup {None}
  /\ taskLock \in [Ids -> Callers \cup {None}]

CountersTyped == allocated \in [Ids -> Nat] /\ crashes \in 0..MaxCrashes

TypeInv == Frames /\ DiskTyped /\ LocksTyped /\ CountersTyped

LEMMA TodoFacts ==
  ASSUME NEW todo, TodoTyped(todo)
  PROVE  /\ \A n \in DOMAIN todo : todo[n].id \in Ids /\ Fits(todo[n].change)
         /\ todo # <<>> => /\ Head(todo).id \in Ids /\ Fits(Head(todo).change)
                           /\ TodoTyped(Tail(todo))
<1>1. PICK S : todo \in Seq(S) /\ \A update \in S : update.id \in Ids /\ Fits(update.change)
  BY DEF TodoTyped
<1>2. \A n \in DOMAIN todo : todo[n] \in S
  BY <1>1
<1>3. ASSUME todo # <<>> PROVE Head(todo) \in S /\ Tail(todo) \in Seq(S)
  BY <1>1, <1>3
<1>4. todo # <<>> => TodoTyped(Tail(todo))
  BY <1>1, <1>3, Zenon DEF TodoTyped
<1> QED
  BY <1>1, <1>2, <1>3, <1>4

LEMMA TypingSuffices == TypeInv => TypeOK
<1> SUFFICES ASSUME TypeInv PROVE TypeOK
  OBVIOUS
<1>1. ASSUME NEW p \in Callers, NEW n \in DOMAIN caller[p].todo
      PROVE  /\ caller[p].todo[n].id \in Ids
             /\ Merge(NewTask, caller[p].todo[n].change) \in Tasks
  <2>1. TodoTyped(caller[p].todo)
    BY DEF TypeInv, Frames, FrameOK
  <2> QED
    BY <2>1, TodoFacts DEF Fits
<1> QED
  BY <1>1 DEF TypeInv, Frames, FrameOK, DiskTyped, LocksTyped, CountersTyped, TypeOK

LEMMA SeqTyped ==
  ASSUME NEW S, \A update \in S : update.id \in Ids /\ Fits(update.change),
         NEW todo \in Seq(S)
  PROVE  TodoTyped(todo)
  BY Zenon DEF TodoTyped

LEMMA EmptyTyped == TodoTyped(<<>>)
<1> DEFINE S == {}
<1>1. <<>> \in Seq(S) /\ \A update \in S : update.id \in Ids /\ Fits(update.change)
  OBVIOUS
<1> HIDE DEF S
<1> QED
  BY <1>1, SeqTyped

LEMMA PairTyped ==
  ASSUME NEW i \in Ids, NEW j \in Ids, NEW c, NEW d, Fits(c), Fits(d),
         NEW todo \in Seq({Update(i, c), Update(j, d)})
  PROVE  TodoTyped(todo)
<1> DEFINE S == {Update(i, c), Update(j, d)}
<1>1. todo \in Seq(S) /\ \A update \in S : update.id \in Ids /\ Fits(update.change)
  BY DEF Update
<1> HIDE DEF S
<1> QED
  BY <1>1, SeqTyped

LEMMA OneTyped ==
  ASSUME NEW i \in Ids, NEW c, Fits(c)
  PROVE  TodoTyped(<<Update(i, c)>>) /\ <<Update(i, c)>> # <<>>
<1>1. <<Update(i, c)>> \in Seq({Update(i, c), Update(i, c)})
  OBVIOUS
<1>2. TodoTyped(<<Update(i, c)>>)
  BY <1>1, PairTyped
<1> QED
  BY <1>2

(* One update for each of finitely many tasks.                             *)
LEMMA EachTyped ==
  ASSUME NEW S \in SUBSET Ids, NEW order \in [1..Cardinality(S) -> S], NEW todo,
         DOMAIN todo = DOMAIN order, todo = [n \in DOMAIN order |-> todo[n]],
         \A n \in DOMAIN order : todo[n].id \in Ids /\ Fits(todo[n].change)
  PROVE  TodoTyped(todo)
<1>0. 1 \in Int /\ MaxId \in Int
  BY ConstantsAssumption
<1>1. IsFiniteSet(Ids)
  BY <1>0, FS_Interval, Zenon DEF Ids
<1>2. Cardinality(S) \in Nat
  BY <1>1, FS_Subset, FS_CardinalityType
<1> DEFINE N == Cardinality(S)
           updates == {todo[n] : n \in 1..N}
<1>3. DOMAIN order = 1..N
  OBVIOUS
<1>4. \A update \in updates : update.id \in Ids /\ Fits(update.change)
  BY <1>3
<1>5. todo \in [1..N -> updates]
  BY <1>3
<1> HIDE DEF updates, N
<1>6. todo \in Seq(updates)
  BY <1>2, <1>5 DEF N
<1> QED
  BY <1>4, <1>6, SeqTyped

(* Only the frame of p changes. *)
LEMMA FrameStep ==
  ASSUME TypeInv, NEW p \in Callers, DOMAIN caller' = Callers,
         \A q \in Callers \ {p} : caller'[q] = caller[q], FrameOK(caller'[p])
  PROVE  Frames'
  BY DEF TypeInv, Frames

LEMMA GotoTyped ==
  ASSUME TypeInv, NEW p \in Callers, NEW point \in Points, Goto(p, point),
         point \in Updates => caller[p].todo # <<>>
  PROVE  Frames'
<1>1. FrameOK(caller[p]) /\ DOMAIN caller = Callers
  BY DEF TypeInv, Frames
<1>2. /\ DOMAIN caller' = Callers
      /\ \A q \in Callers \ {p} : caller'[q] = caller[q]
      /\ DOMAIN caller'[p] = Frame /\ caller'[p].pc = point
      /\ \A f \in Frame \ {"pc"} : caller'[p][f] = caller[p][f]
  BY <1>1 DEF Goto, FrameOK, Frame
<1>3. FrameOK(caller'[p])
  BY <1>1, <1>2 DEF FrameOK, Frame
<1> QED
  BY <1>2, <1>3, FrameStep

LEMMA ReturnTyped ==
  ASSUME TypeInv, NEW p \in Callers, Return(p)
  PROVE  Frames' /\ LocksTyped'
<1>1. FrameOK(caller[p]) /\ DOMAIN caller = Callers
  BY DEF TypeInv, Frames
<1>2. /\ DOMAIN caller' = Callers
      /\ \A q \in Callers \ {p} : caller'[q] = caller[q]
      /\ DOMAIN caller'[p] = Frame
      /\ caller'[p].pc = "idle" /\ caller'[p].todo = <<>> /\ caller'[p].batch = {}
      /\ caller'[p].seen = {} /\ caller'[p].high = 0 /\ caller'[p].read = NewTask
      /\ \A f \in {"agent", "id", "calls"} : caller'[p][f] = caller[p][f]
  BY <1>1 DEF Return, FrameOK, Frame
<1>3. NewTask \in Tasks /\ MaxId \in Nat /\ 0 \in 0..MaxId
  BY ConstantsAssumption DEF NewTask, Tasks, Statuses
<1>4. FrameOK(caller'[p])
  BY <1>1, <1>2, <1>3, EmptyTyped DEF FrameOK, Frame, Points, Updates
<1>5. LocksTyped'
  BY DEF Return, TypeInv, LocksTyped
<1> QED
  BY <1>2, <1>4, <1>5, FrameStep

LEMMA InitTyped == Init => TypeInv
<1> SUFFICES ASSUME Init PROVE TypeInv
  OBVIOUS
<1>1. PICK agent \in [Callers -> Agents] :
        caller = [p \in Callers |->
                   [pc |-> "idle", agent |-> agent[p], id |-> 1, read |-> NewTask,
                    todo |-> <<>>, batch |-> {}, high |-> 0, seen |-> {}, calls |-> 0]]
  BY DEF Init
<1>2. /\ MaxId \in Nat \ {0} /\ MaxCalls \in Nat /\ MaxCrashes \in Nat
      /\ DOMAIN InitialTasks \subseteq Ids
      /\ \A i \in DOMAIN InitialTasks : InitialTasks[i] \in Tasks
  BY ConstantsAssumption
<1>3. NewTask \in Tasks
  BY DEF NewTask, Tasks, Statuses
<1>4. 1 \in Ids /\ 0 \in 0..MaxId /\ 0 \in 0..MaxCalls /\ 0 \in 0..MaxCrashes
  BY <1>2 DEF Ids
<1>5. ASSUME NEW p \in Callers PROVE FrameOK(caller[p])
  <2> DEFINE f == caller[p]
  <2>1. /\ DOMAIN f = Frame
        /\ f.pc = "idle" /\ f.agent = agent[p] /\ f.id = 1 /\ f.read = NewTask
        /\ f.todo = <<>> /\ f.batch = {} /\ f.high = 0 /\ f.seen = {} /\ f.calls = 0
    BY <1>1 DEF Frame
  <2> HIDE DEF f
  <2>2. FrameOK(f)
    BY <1>3, <1>4, <2>1, EmptyTyped DEF FrameOK, Points, Updates
  <2> QED
    BY <2>2 DEF f
<1>6. Frames
  BY <1>1, <1>5 DEF Frames
<1>7. DiskTyped /\ LocksTyped /\ CountersTyped
  BY <1>2, <1>3, <1>4 DEF Init, DiskTyped, LocksTyped, CountersTyped
<1> QED
  BY <1>6, <1>7 DEF TypeInv

(* Calls begin. *)
LEMMA StartedTyped ==
  ASSUME TypeInv, NEW p \in Callers, NEW operation, Begin(p, operation),
         NEW point \in Points \ Updates, NEW i \in Ids, NEW todo, TodoTyped(todo),
         Started(p, point, i, todo)
  PROVE  TypeInv'
<1>1. FrameOK(caller[p]) /\ DOMAIN caller = Callers
  BY DEF TypeInv, Frames
<1>2. /\ DOMAIN caller' = Callers
      /\ \A q \in Callers \ {p} : caller'[q] = caller[q]
      /\ DOMAIN caller'[p] = Frame
      /\ caller'[p].pc = point /\ caller'[p].id = i /\ caller'[p].todo = todo
      /\ caller'[p].calls = caller[p].calls + 1
      /\ \A f \in {"agent", "read", "batch", "high", "seen"} : caller'[p][f] = caller[p][f]
  BY <1>1 DEF Started, FrameOK, Frame
<1>3. caller[p].calls + 1 \in 0..MaxCalls
  BY <1>1, ConstantsAssumption DEF Begin, FrameOK
<1>4. FrameOK(caller'[p])
  BY <1>1, <1>2, <1>3 DEF FrameOK
<1>5. Frames'
  BY <1>2, <1>4, FrameStep
<1> QED
  BY <1>5 DEF Begin, disk, locks, TypeInv, DiskTyped, LocksTyped, CountersTyped

LEMMA CallsTyped == ASSUME TypeInv, NEW p \in Callers, Calls(p) PROVE TypeInv'
<1>1. files \subseteq Ids /\ task \in [Ids -> Tasks] /\ 1 \in Ids
  BY ConstantsAssumption DEF TypeInv, DiskTyped, Ids
<1>2. /\ {"createLock", "resetLock", "resetCheck", "deleteScan", "claimLock", "busyLock",
          "updateCheck"} \subseteq Points \ Updates
      /\ \A i \in Ids : task[i].owner \in Agents \cup {None}
  BY <1>1 DEF Points, Updates, Tasks
<1>3. CASE CallCreate(p) \/ CallReset(p) \/ CallHideTimer(p)
  BY <1>1, <1>2, <1>3, EmptyTyped, StartedTyped DEF CallCreate, CallReset, CallHideTimer
<1>4. ASSUME NEW i \in files, CallDelete(p, i) \/ CallClaim(p, i) PROVE TypeInv'
  BY <1>1, <1>2, <1>4, EmptyTyped, StartedTyped DEF CallDelete, CallClaim
<1>5. ASSUME NEW i \in files, CallUpdate(p, i) PROVE TypeInv'
  <2>1. PICK change \in Changes : Started(p, "updateCheck", i, <<Update(i, change)>>)
    BY <1>5 DEF CallUpdate
  <2>2. Fits(change) /\ i \in Ids
    BY <1>1, ConstantsAssumption DEF Fits
  <2>3. TodoTyped(<<Update(i, change)>>) /\ Begin(p, "update")
    BY <1>5, <2>2, OneTyped DEF CallUpdate
  <2> QED
    BY <1>2, <2>1, <2>2, <2>3, StartedTyped
<1>6. ASSUME NEW i \in files, CallStart(p, i) PROVE TypeInv'
  <2> DEFINE change == IF task[i].owner # None THEN [status |-> "in_progress"]
                       ELSE IF task[i].status = "in_progress" THEN [owner |-> caller[p].agent]
                       ELSE [status |-> "in_progress", owner |-> caller[p].agent]
  <2>1. Started(p, "updateCheck", i, <<Update(i, change)>>) /\ Begin(p, "start")
    BY <1>6 DEF CallStart
  <2>2. i \in Ids /\ caller[p].agent \in Agents /\ "in_progress" \in Statuses
    BY <1>1 DEF TypeInv, Frames, FrameOK, Statuses
  <2>3. /\ Fits([status |-> "in_progress"]) /\ Fits([owner |-> caller[p].agent])
        /\ Fits([status |-> "in_progress", owner |-> caller[p].agent])
    BY <2>2, ChangeFits
  <2>4. Fits(change)
    BY <2>3
  <2> HIDE DEF change
  <2>5. TodoTyped(<<Update(i, change)>>)
    BY <2>2, <2>4, OneTyped
  <2> QED
    BY <1>2, <2>1, <2>2, <2>5, StartedTyped
<1>7. ASSUME NEW i \in files, NEW j \in files, CallBlock(p, i, j) PROVE TypeInv'
  <2> DEFINE c == [blocks |-> task[i].blocks \cup {j}]
             d == [blockedBy |-> task[j].blockedBy \cup {i}]
             u == Update(i, c)
             v == Update(j, d)
  <2>1. i \in Ids /\ j \in Ids /\ Fits(c) /\ Fits(d)
    BY <1>1, ChangeFits
  <2>2. /\ \E todo \in {<<>> \o <<>>, <<u>> \o <<>>, <<>> \o <<v>>, <<u>> \o <<v>>} :
             Started(p, "updateCheck", i, todo)
        /\ Begin(p, "block")
    BY <1>7 DEF CallBlock
  <2> HIDE DEF u, v
  <2>3. PICK todo \in {<<>> \o <<>>, <<u>> \o <<>>, <<>> \o <<v>>, <<u>> \o <<v>>} :
           Started(p, "updateCheck", i, todo)
    BY <2>2
  <2>4. <<>> \in Seq({u, v}) /\ <<u>> \in Seq({u, v}) /\ <<v>> \in Seq({u, v})
    OBVIOUS
  <2>5. todo \in Seq({u, v})
    <3> DEFINE S == {u, v}
    <3> HIDE DEF S
    <3>1. ASSUME NEW s \in Seq(S), NEW t \in Seq(S) PROVE s \o t \in Seq(S)
      OBVIOUS
    <3>2. <<>> \in Seq(S) /\ <<u>> \in Seq(S) /\ <<v>> \in Seq(S)
      BY <2>4 DEF S
    <3> QED
      BY <2>3, <3>1, <3>2, Zenon DEF S
  <2>6. TodoTyped(todo)
    <3> HIDE DEF c, d
    <3>1. todo \in Seq({Update(i, c), Update(j, d)})
      BY <2>5 DEF u, v
    <3> QED
      BY <2>1, <3>1, PairTyped
  <2> QED
    BY <1>2, <2>1, <2>2, <2>3, <2>6, StartedTyped
<1>8. ASSUME NEW a \in Agents, CallUnassign(p, a) PROVE TypeInv'
  <2> DEFINE mine == {i \in ListTasks : Open(i) /\ task[i].owner = a}
             c == [owner |-> None, status |-> "pending"]
  <2>1. PICK order \in [1..Cardinality(mine) -> mine] :
          Started(p, "updateCheck", 1, [n \in DOMAIN order |-> Update(order[n], c)])
    BY <1>8 DEF CallUnassign
  <2>2. mine \in SUBSET Ids /\ Begin(p, "unassign")
    BY <1>8 DEF ListTasks, CallUnassign
  <2> HIDE DEF mine
  <2>3. Fits(c)
    <3>1. "pending" \in Statuses
      BY DEF Statuses
    <3> QED
      BY <3>1, ChangeFits
  <2> HIDE DEF c
  <2> DEFINE todo == [n \in DOMAIN order |-> Update(order[n], c)]
  <2>4. \A n \in DOMAIN order : todo[n].id \in Ids /\ Fits(todo[n].change)
    BY <2>2, <2>3 DEF Update
  <2>5. DOMAIN todo = DOMAIN order /\ todo = [n \in DOMAIN order |-> todo[n]]
    OBVIOUS
  <2>6. Started(p, "updateCheck", 1, todo)
    BY <2>1
  <2> HIDE DEF todo
  <2>7. TodoTyped(todo)
    BY <2>2, <2>4, <2>5, EachTyped
  <2> QED
    BY <1>1, <1>2, <2>2, <2>6, <2>7, StartedTyped
<1> QED
  BY <1>3, <1>4, <1>5, <1>6, <1>7, <1>8 DEF Calls

(* What a call leaves alone. *)
LEMMA RestTyped ==
  ASSUME TypeInv, Frames', UNCHANGED <<allocated, crashes>>
  PROVE  /\ DiskTyped' /\ LocksTyped' => TypeInv'
         /\ UNCHANGED disk /\ LocksTyped' => TypeInv'
         /\ UNCHANGED <<disk, locks>> => TypeInv'
         /\ UNCHANGED locks /\ DiskTyped' => TypeInv'
  BY DEF disk, locks, TypeInv, DiskTyped, LocksTyped, CountersTyped

LEMMA ReturnSteps ==
  ASSUME TypeInv, NEW p \in Callers, Return(p), UNCHANGED <<allocated, crashes>>
  PROVE  /\ UNCHANGED disk => TypeInv'
         /\ DiskTyped' => TypeInv'
  BY ReturnTyped, RestTyped

LEMMA GotoSteps ==
  ASSUME TypeInv, NEW p \in Callers, NEW point \in Points \ Updates, Goto(p, point),
         UNCHANGED <<allocated, crashes>>
  PROVE  /\ UNCHANGED <<disk, locks>> => TypeInv'
         /\ UNCHANGED disk /\ LocksTyped' => TypeInv'
         /\ UNCHANGED locks /\ DiskTyped' => TypeInv'
  BY GotoTyped, RestTyped

LEMMA LockingTyped ==
  ASSUME TypeInv, NEW p \in Callers,
         LockList(p) \/ LockTask(p) \/ LockFails(p) \/ Crash(p) \/ LockStale(p)
  PROVE  TypeInv'
<1>1. CASE LockList(p)
  <2>1. PICK point \in {"createScan", "resetScan", "busyRead"} : Goto(p, point)
    BY <1>1 DEF LockList
  <2>2. point \in Points \ Updates
    BY DEF Points, Updates
  <2>3. LocksTyped' /\ UNCHANGED <<disk, allocated, crashes>>
    BY <1>1 DEF LockList, TypeInv, LocksTyped
  <2> QED
    BY <2>1, <2>2, <2>3, GotoSteps
<1>2. CASE LockTask(p)
  <2>1. /\ LocksTyped' /\ UNCHANGED <<disk, allocated, crashes>>
        /\ Goto(p, IF At(p, "claimLock") THEN "claimRead" ELSE "updateRead")
        /\ At(p, "claimLock") \/ At(p, "updateLock")
    BY <1>2 DEF LockTask, TypeInv, LocksTyped, WaitsForTask
  <2>2. CASE At(p, "claimLock")
    <3>1. Goto(p, "claimRead") /\ "claimRead" \in Points \ Updates
      BY <2>1, <2>2 DEF Points, Updates
    <3> QED
      BY <2>1, <3>1, GotoSteps
  <2>3. CASE ~At(p, "claimLock")
    <3>1. Goto(p, "updateRead") /\ "updateRead" \in Points /\ caller[p].todo # <<>>
      BY <2>1, <2>3 DEF Points, Updates, TypeInv, Frames, FrameOK, At
    <3> QED
      BY <2>1, <3>1, GotoTyped, RestTyped
  <2> QED
    BY <2>2, <2>3
<1>3. CASE LockFails(p)
  BY <1>3, ReturnSteps DEF LockFails
<1>4. CASE Crash(p)
  <2>1. Goto(p, "crashed") /\ "crashed" \in Points /\ "crashed" \notin Updates
    BY <1>4 DEF Crash, Points, Updates
  <2>2. Frames'
    BY <2>1, GotoTyped
  <2>3. CountersTyped' /\ UNCHANGED <<disk, locks>>
    BY <1>4, ConstantsAssumption DEF Crash, TypeInv, CountersTyped
  <2> QED
    BY <2>2, <2>3 DEF TypeInv, DiskTyped, LocksTyped, disk, locks
<1>5. CASE LockStale(p)
  <2>1. LocksTyped' /\ UNCHANGED <<disk, caller, allocated, crashes>>
    BY <1>5 DEF LockStale, TypeInv, LocksTyped
  <2> QED
    BY <2>1 DEF TypeInv, Frames, DiskTyped, CountersTyped, disk
<1> QED
  BY <1>1, <1>2, <1>3, <1>4, <1>5

LEMMA MarkTyped == TypeInv => HighestFile \in 0..MaxId /\ MarkRead \in 0..MaxId
<1> SUFFICES ASSUME TypeInv PROVE HighestFile \in 0..MaxId /\ MarkRead \in 0..MaxId
  OBVIOUS
<1>1. HighestFile \in 0..MaxId
  BY HighestOf DEF TypeInv, DiskTyped, HighestFile
<1>2. MarkRead \in 0..MaxId
  BY ConstantsAssumption DEF TypeInv, DiskTyped, MarkRead
<1> QED
  BY <1>1, <1>2

LEMMA CreatingTyped ==
  ASSUME TypeInv, NEW p \in Callers,
         CreateScan(p) \/ CreateWrite(p) \/ CreateEnd(p) \/ OutOfIds(p)
  PROVE  TypeInv'
<1>0. FrameOK(caller[p]) /\ DOMAIN caller = Callers
  BY DEF TypeInv, Frames
<1>1. CASE CreateScan(p)
  <2>1. PICK source \in {"files", "mark"} :
          caller' = [caller EXCEPT
             ![p].high = Max({@, IF source = "files" THEN HighestFile ELSE MarkRead}),
             ![p].seen = @ \cup {source},
             ![p].pc = IF caller[p].seen = {} THEN "createScan" ELSE "createWrite"]
    BY <1>1 DEF CreateScan
  <2> DEFINE found == IF source = "files" THEN HighestFile ELSE MarkRead
             high == Max({caller[p].high, found})
  <2>2. high \in 0..MaxId
    <3>1. found \in 0..MaxId /\ caller[p].high \in 0..MaxId
      BY <1>0, MarkTyped DEF FrameOK
    <3> HIDE DEF found
    <3> QED
      BY <3>1, HigherFacts
  <2>3. /\ DOMAIN caller' = Callers
        /\ \A q \in Callers \ {p} : caller'[q] = caller[q]
        /\ DOMAIN caller'[p] = Frame
        /\ caller'[p].high = high /\ caller'[p].seen = caller[p].seen \cup {source}
        /\ caller'[p].pc \in {"createScan", "createWrite"}
        /\ \A f \in {"agent", "id", "read", "todo", "batch", "calls"} :
              caller'[p][f] = caller[p][f]
    BY <1>0, <2>1 DEF FrameOK, Frame
  <2> HIDE DEF high
  <2>4. FrameOK(caller'[p])
    BY <1>0, <2>2, <2>3 DEF FrameOK, Points, Updates
  <2> QED
    BY <1>1, <2>3, <2>4, FrameStep, RestTyped DEF CreateScan
<1>2. CASE CreateWrite(p)
  <2> DEFINE i == caller[p].high + 1
  <2>1. /\ i \in Ids /\ files' = files \cup {i} /\ writer' = [writer EXCEPT ![i] = p]
        /\ caller' = [caller EXCEPT ![p].pc = "createEnd", ![p].id = i]
        /\ UNCHANGED <<task, mark, markWriter, locks, allocated, crashes>>
    BY <1>2 DEF CreateWrite
  <2> HIDE DEF i
  <2>2. /\ DOMAIN caller' = Callers
        /\ \A q \in Callers \ {p} : caller'[q] = caller[q]
        /\ DOMAIN caller'[p] = Frame
        /\ caller'[p].pc = "createEnd" /\ caller'[p].id = i
        /\ \A f \in Frame \ {"pc", "id"} : caller'[p][f] = caller[p][f]
    BY <1>0, <2>1 DEF FrameOK, Frame
  <2>3. FrameOK(caller'[p])
    BY <1>0, <2>1, <2>2 DEF FrameOK, Frame, Points, Updates
  <2>4. DiskTyped'
    BY <2>1 DEF TypeInv, DiskTyped
  <2> QED
    BY <2>1, <2>2, <2>3, <2>4, FrameStep, RestTyped
<1>3. CASE CreateEnd(p)
  <2>1. NewTask \in Tasks
    BY DEF NewTask, Tasks, Statuses
  <2>2. DiskTyped'
    BY <1>3, <2>1 DEF CreateEnd, TypeInv, DiskTyped
  <2>3. Frames' /\ LocksTyped'
    BY <1>3, ReturnTyped DEF CreateEnd
  <2>4. CountersTyped'
    <3>1. /\ allocated' = [allocated EXCEPT ![caller[p].id] = allocated[caller[p].id] + 1]
          /\ UNCHANGED crashes /\ caller[p].id \in Ids
      BY <1>0, <1>3 DEF CreateEnd, FrameOK
    <3> QED
      BY <3>1 DEF TypeInv, CountersTyped
  <2> QED
    BY <2>2, <2>3, <2>4 DEF TypeInv
<1>4. CASE OutOfIds(p)
  BY <1>4, ReturnSteps DEF OutOfIds
<1> QED
  BY <1>1, <1>2, <1>3, <1>4

LEMMA ResetTyped ==
  ASSUME TypeInv, NEW p \in Callers,
         \/ ResetCheck(p) \/ ResetScan(p) \/ ResetMark(p) \/ ResetList(p) \/ ResetUnlink(p)
         \/ MarkWrite(p) \/ MarkEnd(p)
  PROVE  TypeInv'
<1>0. FrameOK(caller[p]) /\ DOMAIN caller = Callers
  BY DEF TypeInv, Frames
<1>1. {"resetLock", "resetMark", "resetList", "resetUnlink", "markWrite", "markEnd",
       "deleteUnlink"} \subseteq Points \ Updates
  BY DEF Points, Updates
<1>2. CASE ResetCheck(p)
  <2>1. CASE Return(p)
    BY <1>2, <2>1, ReturnSteps DEF ResetCheck
  <2>2. CASE Goto(p, "resetLock") /\ UNCHANGED locks
    BY <1>1, <1>2, <2>2, GotoSteps DEF ResetCheck
  <2> QED
    BY <1>2, <2>1, <2>2 DEF ResetCheck
<1>3. CASE ResetScan(p)
  <2>1. /\ DOMAIN caller' = Callers
        /\ \A q \in Callers \ {p} : caller'[q] = caller[q]
        /\ DOMAIN caller'[p] = Frame
        /\ caller'[p].high = HighestFile /\ caller'[p].pc \in {"resetMark", "resetList"}
        /\ \A f \in Frame \ {"pc", "high"} : caller'[p][f] = caller[p][f]
    BY <1>0, <1>3 DEF ResetScan, FrameOK, Frame
  <2>2. FrameOK(caller'[p])
    BY <1>0, <1>1, <2>1, MarkTyped DEF FrameOK, Frame
  <2> QED
    BY <1>3, <2>1, <2>2, FrameStep, RestTyped DEF ResetScan
<1>4. CASE ResetMark(p)
  <2>1. PICK point \in {"markWrite", "resetList"} : Goto(p, point)
    BY <1>4 DEF ResetMark
  <2> QED
    BY <1>1, <1>4, <2>1, GotoSteps DEF ResetMark
<1>5. CASE ResetList(p)
  <2>1. /\ DOMAIN caller' = Callers
        /\ \A q \in Callers \ {p} : caller'[q] = caller[q]
        /\ DOMAIN caller'[p] = Frame
        /\ caller'[p].batch = files /\ caller'[p].pc = "resetUnlink"
        /\ \A f \in Frame \ {"pc", "batch"} : caller'[p][f] = caller[p][f]
    BY <1>0, <1>5 DEF ResetList, FrameOK, Frame
  <2>2. FrameOK(caller'[p])
    BY <1>0, <1>1, <2>1 DEF FrameOK, Frame, TypeInv, DiskTyped
  <2> QED
    BY <1>5, <2>1, <2>2, FrameStep, RestTyped DEF ResetList
<1>6. CASE ResetUnlink(p)
  <2>1. CASE Return(p) /\ UNCHANGED disk
    BY <1>6, <2>1, ReturnSteps DEF ResetUnlink
  <2>2. ASSUME NEW i \in caller[p].batch, Unlink(i), UNCHANGED locks,
               caller' = [caller EXCEPT ![p].batch = @ \ {i}]
        PROVE  TypeInv'
    <3>1. /\ DOMAIN caller' = Callers
          /\ \A q \in Callers \ {p} : caller'[q] = caller[q]
          /\ DOMAIN caller'[p] = Frame
          /\ caller'[p].batch = caller[p].batch \ {i}
          /\ \A f \in Frame \ {"batch"} : caller'[p][f] = caller[p][f]
      BY <1>0, <2>2 DEF FrameOK, Frame
    <3>2. FrameOK(caller'[p])
      BY <1>0, <3>1 DEF FrameOK, Frame
    <3>3. DiskTyped'
      BY <2>2 DEF Unlink, TypeInv, DiskTyped
    <3> QED
      BY <1>6, <2>2, <3>1, <3>2, <3>3, FrameStep, RestTyped DEF ResetUnlink
  <2> QED
    BY <1>6, <2>1, <2>2 DEF ResetUnlink
<1>7. CASE MarkWrite(p)
  <2>1. DiskTyped'
    BY <1>7 DEF MarkWrite, TypeInv, DiskTyped
  <2> QED
    BY <1>1, <1>7, <2>1, GotoSteps DEF MarkWrite
<1>8. CASE MarkEnd(p)
  <2>1. DiskTyped'
    BY <1>0, <1>8 DEF MarkEnd, FrameOK, TypeInv, DiskTyped
  <2>2. PICK point \in {"resetList", "deleteUnlink"} : Goto(p, point)
    BY <1>8 DEF MarkEnd
  <2> QED
    BY <1>1, <1>8, <2>1, <2>2, GotoSteps DEF MarkEnd
<1> QED
  BY <1>2, <1>3, <1>4, <1>5, <1>6, <1>7, <1>8

LEMMA DeleteTyped ==
  ASSUME TypeInv, NEW p \in Callers, DeleteScan(p) \/ DeleteUnlink(p) \/ DeleteRefs(p)
  PROVE  TypeInv'
<1>0. FrameOK(caller[p]) /\ DOMAIN caller = Callers /\ task \in [Ids -> Tasks]
  BY DEF TypeInv, Frames, DiskTyped
<1>1. CASE DeleteScan(p)
  <2>1. /\ DOMAIN caller' = Callers
        /\ \A q \in Callers \ {p} : caller'[q] = caller[q]
        /\ DOMAIN caller'[p] = Frame
        /\ caller'[p].high = caller[p].id /\ caller'[p].pc \in {"markWrite", "deleteUnlink"}
        /\ \A f \in Frame \ {"pc", "high"} : caller'[p][f] = caller[p][f]
    BY <1>0, <1>1 DEF DeleteScan, FrameOK, Frame
  <2>2. caller[p].id \in 0..MaxId
    BY <1>0, ConstantsAssumption DEF FrameOK, Ids
  <2>3. FrameOK(caller'[p])
    BY <1>0, <2>1, <2>2 DEF FrameOK, Frame, Points, Updates
  <2> QED
    BY <1>1, <2>1, <2>3, FrameStep, RestTyped DEF DeleteScan
<1>2. CASE DeleteUnlink(p)
  <2>1. CASE Return(p) /\ UNCHANGED disk
    BY <1>2, <2>1, ReturnSteps DEF DeleteUnlink
  <2>2. CASE Unlink(caller[p].id) /\ Goto(p, "deleteRefs") /\ UNCHANGED locks
    <3>1. DiskTyped'
      BY <2>2 DEF Unlink, TypeInv, DiskTyped
    <3>2. "deleteRefs" \in Points \ Updates
      BY DEF Points, Updates
    <3> QED
      BY <1>2, <2>2, <3>1, <3>2, GotoSteps DEF DeleteUnlink
  <2> QED
    BY <1>2, <2>1, <2>2 DEF DeleteUnlink
<1>3. CASE DeleteRefs(p)
  <2> DEFINE i == caller[p].id
             holders == {j \in ListTasks : i \in task[j].blocks \cup task[j].blockedBy}
             Less(j) == [blocks |-> task[j].blocks \ {i}, blockedBy |-> task[j].blockedBy \ {i}]
  <2>1. PICK order \in [1..Cardinality(holders) -> holders] :
          caller' = [caller EXCEPT ![p].pc = "updateCheck",
                ![p].todo = [n \in DOMAIN order |-> Update(order[n], Less(order[n]))]]
    BY <1>3 DEF DeleteRefs
  <2> DEFINE todo == [n \in DOMAIN order |-> Update(order[n], Less(order[n]))]
  <2>2. /\ DOMAIN caller' = Callers
        /\ \A q \in Callers \ {p} : caller'[q] = caller[q]
        /\ DOMAIN caller'[p] = Frame
        /\ caller'[p].todo = todo /\ caller'[p].pc = "updateCheck"
        /\ \A f \in Frame \ {"pc", "todo"} : caller'[p][f] = caller[p][f]
    <3> HIDE DEF todo
    <3> QED
      BY <1>0, <2>1 DEF FrameOK, Frame, todo
  <2>3. holders \in SUBSET Ids /\ i \in Ids
    BY <1>0 DEF ListTasks, FrameOK
  <2>4. \A j \in Ids : Fits(Less(j))
    BY <1>0, <2>3, ChangeFits
  <2> HIDE DEF holders, Less
  <2>5. \A n \in DOMAIN order : todo[n].id \in Ids /\ Fits(todo[n].change)
    BY <2>3, <2>4 DEF Update
  <2>6. DOMAIN todo = DOMAIN order /\ todo = [n \in DOMAIN order |-> todo[n]]
    OBVIOUS
  <2> HIDE DEF todo
  <2>7. TodoTyped(todo)
    BY <2>3, <2>5, <2>6, EachTyped
  <2>8. FrameOK(caller'[p])
    BY <1>0, <2>2, <2>7 DEF FrameOK, Frame, Points, Updates
  <2> QED
    BY <1>3, <2>2, <2>8, FrameStep, RestTyped DEF DeleteRefs
<1> QED
  BY <1>1, <1>2, <1>3

LEMMA ClaimTyped ==
  ASSUME TypeInv, NEW p \in Callers, ClaimRead(p) \/ ClaimList(p) \/ BusyRead(p)
  PROVE  TypeInv'
<1>0. /\ FrameOK(caller[p]) /\ DOMAIN caller = Callers /\ task \in [Ids -> Tasks]
      /\ caller[p].id \in Ids /\ caller[p].agent \in Agents \cup {None}
  BY DEF TypeInv, Frames, FrameOK, DiskTyped
<1> DEFINE c == [owner |-> caller[p].agent]
           todo == <<Update(caller[p].id, c)>>
<1>1. TodoTyped(todo) /\ todo # <<>>
  <2>1. "pending" \in Statuses
    BY DEF Statuses
  <2>2. Fits(c)
    BY <1>0, <2>1, ChangeFits
  <2> HIDE DEF c
  <2> QED
    BY <1>0, <2>2, OneTyped
<1> HIDE DEF todo
<1>2. CASE Return(p)
  <2>1. UNCHANGED <<disk, allocated, crashes>>
    BY DEF ClaimRead, ClaimList, BusyRead
  <2> QED
    BY <1>2, <2>1, ReturnSteps
<1>3. CASE ClaimRead(p) /\ ~Return(p)
  <2>1. /\ DOMAIN caller' = Callers
        /\ \A q \in Callers \ {p} : caller'[q] = caller[q]
        /\ DOMAIN caller'[p] = Frame
        /\ caller'[p].read = task[caller[p].id] /\ caller'[p].pc = "claimList"
        /\ \A f \in Frame \ {"pc", "read"} : caller'[p][f] = caller[p][f]
    BY <1>0, <1>3 DEF ClaimRead, FrameOK, Frame
  <2>2. FrameOK(caller'[p])
    BY <1>0, <2>1 DEF FrameOK, Frame, Points, Updates
  <2> QED
    BY <1>3, <2>1, <2>2, FrameStep, RestTyped DEF ClaimRead
<1>4. CASE (ClaimList(p) \/ BusyRead(p)) /\ ~Return(p)
  <2>1. /\ \E point \in {"updateRead", "updateCheck"} :
             caller' = [caller EXCEPT ![p].pc = point, ![p].todo = todo]
        /\ UNCHANGED <<disk, locks, allocated, crashes>>
    BY <1>4 DEF ClaimList, BusyRead, todo
  <2>2. /\ DOMAIN caller' = Callers
        /\ \A q \in Callers \ {p} : caller'[q] = caller[q]
        /\ DOMAIN caller'[p] = Frame
        /\ caller'[p].pc \in {"updateRead", "updateCheck"} /\ caller'[p].todo = todo
        /\ \A f \in Frame \ {"pc", "todo"} : caller'[p][f] = caller[p][f]
    BY <1>0, <2>1 DEF FrameOK, Frame
  <2>3. FrameOK(caller'[p])
    BY <1>0, <1>1, <2>2 DEF FrameOK, Frame, Points, Updates
  <2> QED
    BY <2>1, <2>2, <2>3, FrameStep, RestTyped
<1> QED
  BY <1>2, <1>3, <1>4

(* The end of one update. *)
LEMMA UpdatedTyped ==
  ASSUME TypeInv, NEW p \in Callers, caller[p].pc \in Updates, NEW i \in Ids, Updated(p, i)
  PROVE  Frames' /\ LocksTyped'
<1>0. FrameOK(caller[p]) /\ DOMAIN caller = Callers
  BY DEF TypeInv, Frames
<1>1. TodoTyped(Tail(caller[p].todo))
  BY <1>0, TodoFacts DEF FrameOK
<1>2. /\ DOMAIN caller' = Callers
      /\ \A q \in Callers \ {p} : caller'[q] = caller[q]
      /\ DOMAIN caller'[p] = Frame
      /\ caller'[p].pc = "updateCheck" /\ caller'[p].todo = Tail(caller[p].todo)
      /\ \A f \in Frame \ {"pc", "todo"} : caller'[p][f] = caller[p][f]
  BY <1>0 DEF Updated, FrameOK, Frame
<1>3. FrameOK(caller'[p])
  BY <1>0, <1>1, <1>2 DEF FrameOK, Frame, Points, Updates
<1> QED
  BY <1>2, <1>3, FrameStep DEF Updated, TypeInv, LocksTyped

LEMMA UpdateTyped ==
  ASSUME TypeInv, NEW p \in Callers,
         UpdateCheck(p) \/ UpdateRead(p) \/ UpdateWrite(p) \/ UpdateEnd(p)
  PROVE  TypeInv'
<1> DEFINE todo == caller[p].todo
           i == Head(todo).id
<1>0. /\ FrameOK(caller[p]) /\ DOMAIN caller = Callers /\ task \in [Ids -> Tasks]
      /\ todo # <<>> => i \in Ids /\ Fits(Head(todo).change) /\ TodoTyped(Tail(todo))
  BY TodoFacts DEF TypeInv, Frames, FrameOK, DiskTyped
<1>1. caller[p].pc \in Updates => todo # <<>>
  BY <1>0 DEF FrameOK
<1>2. CASE UpdateCheck(p)
  <2>1. CASE Return(p)
    BY <1>2, <2>1, ReturnSteps DEF UpdateCheck
  <2>2. CASE todo # <<>> /\ Readable(i)
    <3>1. Goto(p, "updateLock") /\ UNCHANGED <<disk, locks, allocated, crashes>>
      BY <1>2, <2>2 DEF UpdateCheck, Goto
    <3>2. "updateLock" \in Points
      BY DEF Points
    <3> QED
      BY <2>2, <3>1, <3>2, GotoTyped, RestTyped
  <2>3. CASE todo # <<>> /\ ~Readable(i)
    <3>1. /\ DOMAIN caller' = Callers
          /\ \A q \in Callers \ {p} : caller'[q] = caller[q]
          /\ DOMAIN caller'[p] = Frame
          /\ caller'[p].todo = Tail(todo) /\ caller'[p].pc = "updateCheck"
          /\ \A f \in Frame \ {"pc", "todo"} : caller'[p][f] = caller[p][f]
      BY <1>0, <1>2, <2>3 DEF UpdateCheck, At, FrameOK, Frame
    <3>2. FrameOK(caller'[p])
      BY <1>0, <2>3, <3>1 DEF FrameOK, Frame, Points, Updates
    <3>3. UNCHANGED <<disk, locks, allocated, crashes>>
      BY <1>2, <2>3 DEF UpdateCheck
    <3> QED
      BY <3>1, <3>2, <3>3, FrameStep, RestTyped
  <2> QED
    BY <1>2, <2>1, <2>2, <2>3 DEF UpdateCheck
<1>3. CASE UpdateRead(p)
  <2>0. caller[p].pc \in Updates /\ todo # <<>> /\ i \in Ids
    BY <1>0, <1>1, <1>3 DEF UpdateRead, At, Updates
  <2>1. CASE Readable(i)
    <3>1. /\ DOMAIN caller' = Callers
          /\ \A q \in Callers \ {p} : caller'[q] = caller[q]
          /\ DOMAIN caller'[p] = Frame
          /\ caller'[p].read = task[i] /\ caller'[p].pc = "updateWrite"
          /\ \A f \in Frame \ {"pc", "read"} : caller'[p][f] = caller[p][f]
      BY <1>0, <1>3, <2>1 DEF UpdateRead, FrameOK, Frame
    <3>2. FrameOK(caller'[p])
      BY <1>0, <2>0, <3>1 DEF FrameOK, Frame, Points
    <3>3. UNCHANGED <<disk, locks, allocated, crashes>>
      BY <1>3, <2>1 DEF UpdateRead
    <3> QED
      BY <3>1, <3>2, <3>3, FrameStep, RestTyped
  <2>2. CASE ~Readable(i)
    <3>1. Updated(p, i) /\ UNCHANGED <<disk, allocated, crashes>>
      BY <1>3, <2>2 DEF UpdateRead
    <3> QED
      BY <2>0, <3>1, UpdatedTyped, RestTyped
  <2> QED
    BY <2>1, <2>2
<1>4. CASE UpdateWrite(p)
  <2>0. todo # <<>> /\ i \in Ids
    BY <1>0, <1>1, <1>4 DEF UpdateWrite, At, Updates
  <2>1. DiskTyped'
    <3>1. /\ files' = files \cup {i} /\ writer' = [writer EXCEPT ![i] = p]
          /\ UNCHANGED <<task, mark, markWriter>>
      BY <1>4 DEF UpdateWrite
    <3> HIDE DEF i
    <3> QED
      BY <2>0, <3>1 DEF TypeInv, DiskTyped
  <2>2. "updateEnd" \in Points /\ Goto(p, "updateEnd")
        /\ UNCHANGED <<locks, allocated, crashes>>
    BY <1>4 DEF UpdateWrite, Points
  <2> QED
    BY <2>0, <2>1, <2>2, GotoTyped, RestTyped
<1>5. CASE UpdateEnd(p)
  <2>0. caller[p].pc \in Updates /\ todo # <<>> /\ i \in Ids
    BY <1>0, <1>1, <1>5 DEF UpdateEnd, At, Updates
  <2> DEFINE merged == Merge(caller[p].read, Head(todo).change)
  <2>1. merged \in Tasks
    BY <1>0, <2>0, MergeTyped DEF FrameOK
  <2>2. /\ \/ task' = [task EXCEPT ![i] = merged] /\ writer' = [writer EXCEPT ![i] = None]
           \/ UNCHANGED <<task, writer>>
        /\ Updated(p, i)
        /\ UNCHANGED <<files, mark, markWriter, allocated, crashes>>
    BY <1>5 DEF UpdateEnd
  <2> HIDE DEF merged
  <2>3. DiskTyped'
    <3> HIDE DEF i
    <3> QED
      BY <2>0, <2>1, <2>2 DEF TypeInv, DiskTyped
  <2>4. Frames' /\ LocksTyped'
    BY <2>0, <2>2, UpdatedTyped
  <2> QED
    BY <2>2, <2>3, <2>4, RestTyped
<1> QED
  BY <1>2, <1>3, <1>4, <1>5

LEMMA NextTyped == TypeInv /\ [Next]_vars => TypeInv'
<1> SUFFICES ASSUME TypeInv, [Next]_vars PROVE TypeInv'
  OBVIOUS
<1>1. ASSUME NEW p \in Callers, Calls(p) PROVE TypeInv'
  BY <1>1, CallsTyped
<1>2. ASSUME NEW p \in Callers, Step(p) \/ Crash(p) \/ LockStale(p) PROVE TypeInv'
  BY <1>2, LockingTyped, CreatingTyped, ResetTyped, DeleteTyped, ClaimTyped, UpdateTyped
  DEF Step
<1>3. CASE UNCHANGED vars
  BY <1>3 DEF vars, disk, locks, TypeInv, Frames, DiskTyped, LocksTyped, CountersTyped
<1> QED
  BY <1>1, <1>2, <1>3 DEF Next, Quiet

(* The disk, the locks and the calls keep their types, whatever calls,       *)
(* crashes and lost locks come together: a task that is merged from what     *)
(* was read and what was asked for is a task.                                *)
THEOREM Typing == Spec => []TypeOK
<1> QED
  BY InitTyped, NextTyped, TypingSuffices, PTL DEF Spec

------------------------------------------------------------------------------
(* Ids are unique as long as nothing is deleted.  Whoever holds the lock on  *)
(* the list creates a task or resets the list; an id that is known, because  *)
(* it was given out, has a file or is in the hands of a call, is not above   *)
(* the highest file or not above the mark, and a reset unlinks only what the *)
(* mark covers.                                                              *)

UnderListLock ==
  {"createScan", "createWrite", "createEnd", "resetScan", "resetMark", "markWrite", "markEnd",
   "resetList", "resetUnlink"}
Deleting == {"deleteScan", "deleteUnlink", "deleteRefs"}

(* The ids that p works on, or will. *)
Aiming == {"claimLock", "claimRead", "claimList", "busyLock", "busyRead"}
Works(p) ==
  {caller[p].todo[n].id : n \in DOMAIN caller[p].todo}
    \cup (IF caller[p].pc \in Aiming THEN {caller[p].id} ELSE {})

Known(i) == allocated[i] > 0 \/ i \in files \/ \E p \in Callers : i \in Works(p)
NoneLearnt == \A i \in Ids : Known(i)' => Known(i)

Recorded == \A i \in Ids : Known(i) => i <= HighestFile \/ i <= MarkRead

(* findHighestTaskId: what is not read yet still covers what was not found.  *)
Found(p) ==
  \A i \in Ids : Known(i) =>
    \/ i <= caller[p].high
    \/ "files" \notin caller[p].seen /\ i <= HighestFile
    \/ "mark" \notin caller[p].seen /\ i <= MarkRead

Creation(p) ==
  /\ caller[p].pc \notin {"createScan", "createWrite", "createEnd", "crashed"} =>
       caller[p].seen = {}
  /\ caller[p].pc = "createWrite" => caller[p].seen = {"files", "mark"}
  /\ caller[p].pc \in {"createScan", "createWrite"} => Found(p)
  /\ caller[p].pc = "createEnd" => caller[p].id \in files /\ allocated[caller[p].id] = 0

Resetting(p) ==
  /\ caller[p].pc \in {"resetMark", "markWrite", "markEnd"} => caller[p].high \in files
  /\ caller[p].pc = "resetMark" =>
       \A i \in Ids : Known(i) => i <= caller[p].high \/ i <= MarkRead
  /\ caller[p].pc \in {"markWrite", "markEnd"} =>
       \A i \in Ids : Known(i) => i <= caller[p].high
  /\ caller[p].pc \in {"resetList", "resetUnlink"} => \A i \in Ids : Known(i) => i <= MarkRead

Locking(p) ==
  /\ caller[p].pc \notin Deleting
  /\ caller[p].pc \in UnderListLock => listLock = p

Orderly(p) == Creation(p) /\ Resetting(p) /\ Locking(p)

UniqueInv == UniqueIds /\ Recorded /\ \A p \in Callers : Orderly(p)

(* The numbers that are compared. *)
LEMMA Heights ==
  ASSUME TypeInv
  PROVE  /\ MaxId \in Nat /\ Ids = 1..MaxId
         /\ HighestFile \in 0..MaxId /\ MarkRead \in 0..MaxId
         /\ \A i \in files : i <= HighestFile
         /\ HighestFile # 0 => HighestFile \in files
         /\ \A i \in Ids : allocated[i] \in Nat
         /\ \A p \in Callers : caller[p].high \in 0..MaxId
<1>1. MaxId \in Nat /\ Ids = 1..MaxId
  BY ConstantsAssumption DEF Ids
<1>2. /\ HighestFile \in 0..MaxId
      /\ \A i \in files : i <= HighestFile
      /\ HighestFile # 0 => HighestFile \in files
  BY HighestOf DEF HighestFile, TypeInv, DiskTyped
<1>3. MarkRead \in 0..MaxId
  BY <1>1 DEF MarkRead, TypeInv, DiskTyped
<1>4. /\ \A i \in Ids : allocated[i] \in Nat
      /\ \A p \in Callers : caller[p].high \in 0..MaxId
  BY DEF TypeInv, Frames, FrameOK, CountersTyped
<1> QED
  BY <1>1, <1>2, <1>3, <1>4

(* The highest file is no lower when files are added. *)
LEMMA HighestGrows ==
  ASSUME TypeInv, files \subseteq files', files' \subseteq Ids
  PROVE  /\ HighestFile \in 0..MaxId /\ HighestFile' \in 0..MaxId
         /\ HighestFile <= HighestFile'
         /\ \A i \in files' : i <= HighestFile'
<1>1. /\ HighestFile \in 0..MaxId /\ HighestFile' \in 0..MaxId
      /\ HighestFile # 0 => HighestFile \in files
      /\ \A i \in files' : i <= HighestFile'
  BY HighestOf DEF HighestFile, TypeInv, DiskTyped
<1> QED
  BY <1>1, ConstantsAssumption

(* A step of p makes no id known, if what it works on and the files it makes *)
(* are known already.                                                        *)
LEMMA KnownKept ==
  ASSUME TypeInv, NEW p \in Callers, \A q \in Callers \ {p} : caller'[q] = caller[q],
         UNCHANGED allocated, \A i \in files' : Known(i), \A i \in Works(p)' : Known(i)
  PROVE  NoneLearnt
<1> SUFFICES ASSUME NEW i \in Ids, Known(i)' PROVE Known(i)
  BY DEF NoneLearnt
<1>1. CASE allocated'[i] > 0 \/ i \in files'
  BY <1>1 DEF Known
<1>2. ASSUME NEW q \in Callers, i \in Works(q)' PROVE Known(i)
  <2>1. CASE q = p
    BY <1>2, <2>1
  <2>2. CASE q # p
    <3>1. Works(q)' = Works(q)
      BY <2>2 DEF Works
    <3> QED
      BY <1>2, <3>1 DEF Known
  <2> QED
    BY <2>1, <2>2
<1> QED
  BY <1>1, <1>2 DEF Known

LEMMA WorksKept ==
  ASSUME TypeInv, NEW p \in Callers, \A q \in Callers \ {p} : caller'[q] = caller[q],
         UNCHANGED allocated, files' \subseteq files,
         caller'[p].todo = caller[p].todo \/ caller'[p].todo = <<>>,
         caller'[p].pc \in Aiming => caller[p].pc \in Aiming /\ caller'[p].id = caller[p].id
  PROVE  NoneLearnt
<1>1. \A i \in Works(p)' : i \in Works(p)
  BY DEF Works
<1>2. \A i \in Works(p)' : Known(i)
  BY <1>1 DEF Known
<1>3. \A i \in files' : Known(i)
  BY DEF Known
<1> QED
  BY <1>2, <1>3, KnownKept

(* Steps of p that change neither the mark nor what is known. *)
LEMMA OthersOrderly ==
  ASSUME TypeInv, UniqueInv, NEW p \in Callers, NEW q \in Callers \ {p},
         caller'[q] = caller[q], listLock = q => listLock' = q,
         \/ listLock = p
         \/ /\ UNCHANGED <<allocated, mark, markWriter>> /\ NoneLearnt
            /\ files \subseteq files' /\ files' \subseteq Ids
  PROVE  Orderly(q)'
<1>1. Orderly(q)
  BY DEF UniqueInv
<1>2. Locking(q)'
  BY <1>1 DEF Orderly, Locking
<1>3. CASE caller[q].pc \notin UnderListLock
  BY <1>1, <1>2, <1>3 DEF Orderly, Creation, Resetting, UnderListLock
<1>4. CASE caller[q].pc \in UnderListLock
  <2>1. listLock # p
    BY <1>1, <1>4 DEF Orderly, Locking
  <2>2. /\ UNCHANGED <<allocated, mark, markWriter>> /\ NoneLearnt
        /\ files \subseteq files' /\ files' \subseteq Ids
    BY <2>1
  <2>3. MarkRead' = MarkRead /\ HighestFile <= HighestFile'
    BY <2>2, HighestGrows DEF MarkRead
  <2>4. \A i \in Ids : Known(i)' => Known(i)
    BY <2>2 DEF NoneLearnt
  <2>5. HighestFile \in Int /\ HighestFile' \in Int /\ Ids \subseteq Int
    BY <2>2, HighestGrows, Heights
  <2>6. ASSUME Found(q) PROVE Found(q)'
    <3> SUFFICES ASSUME NEW i \in Ids, Known(i)'
                 PROVE  \/ i <= caller[q].high
                        \/ "files" \notin caller[q].seen /\ i <= HighestFile'
                        \/ "mark" \notin caller[q].seen /\ i <= MarkRead'
      BY DEF Found
    <3>1. \/ i <= caller[q].high
          \/ "files" \notin caller[q].seen /\ i <= HighestFile
          \/ "mark" \notin caller[q].seen /\ i <= MarkRead
      BY <2>4, <2>6 DEF Found
    <3>2. i <= HighestFile => i <= HighestFile'
      BY <2>3, <2>5
    <3> QED
      BY <2>3, <3>1, <3>2
  <2>7. Creation(q)'
    BY <1>1, <2>2, <2>6 DEF Orderly, Creation
  <2>8. Resetting(q)'
    BY <1>1, <2>2, <2>3, <2>4 DEF Orderly, Resetting
  <2> QED
    BY <1>2, <2>7, <2>8 DEF Orderly
<1> QED
  BY <1>3, <1>4

LEMMA KeepsUnique ==
  ASSUME TypeInv, UniqueInv, NEW p \in Callers,
         \A q \in Callers \ {p} : caller'[q] = caller[q],
         \A q \in Callers \ {p} : listLock = q => listLock' = q,
         UNCHANGED <<allocated, mark, markWriter>>, NoneLearnt,
         files \subseteq files', files' \subseteq Ids,
         Orderly(p)'
  PROVE  UniqueInv'
<1>1. MarkRead' = MarkRead /\ HighestFile <= HighestFile'
  BY HighestGrows DEF MarkRead
<1>2. HighestFile \in Int /\ HighestFile' \in Int /\ Ids \subseteq Int
  BY HighestGrows, Heights
<1>3. UniqueIds' /\ Recorded'
  BY <1>1, <1>2 DEF UniqueInv, UniqueIds, Recorded, NoneLearnt
<1>4. \A q \in Callers \ {p} : Orderly(q)'
  BY OthersOrderly
<1> QED
  BY <1>3, <1>4 DEF UniqueInv

(* Steps to a point outside the lock. *)
LEMMA PlainUnique ==
  ASSUME TypeInv, UniqueInv, NEW p \in Callers,
         \A q \in Callers \ {p} : caller'[q] = caller[q],
         \A q \in Callers \ {p} : listLock = q => listLock' = q,
         UNCHANGED <<allocated, mark, markWriter>>, NoneLearnt,
         files \subseteq files', files' \subseteq Ids,
         caller'[p].pc \notin UnderListLock \cup Deleting,
         caller'[p].seen = {} \/ caller'[p].pc = "crashed"
  PROVE  UniqueInv'
<1>1. Orderly(p)'
  BY DEF Orderly, Creation, Resetting, Locking, UnderListLock
<1> QED
  BY <1>1, KeepsUnique


LEMMA ReturnUnique ==
  ASSUME TypeInv, UniqueInv, NEW p \in Callers, Return(p),
         UNCHANGED <<allocated, mark, markWriter, files>>
  PROVE  UniqueInv'
<1>1. FrameOK(caller[p]) /\ DOMAIN caller = Callers /\ files' \subseteq Ids
  BY DEF TypeInv, Frames, DiskTyped
<1>2. /\ \A q \in Callers \ {p} : caller'[q] = caller[q]
      /\ caller'[p].pc = "idle" /\ caller'[p].seen = {} /\ caller'[p].todo = <<>>
  BY <1>1 DEF Return, FrameOK, Frame
<1>3. \A q \in Callers \ {p} : listLock = q => listLock' = q
  BY DEF Return
<1>4. NoneLearnt
  BY <1>2, WorksKept DEF Aiming
<1> QED
  BY <1>1, <1>2, <1>3, <1>4, PlainUnique DEF UnderListLock, Deleting

(* From outside the scan for the highest id to another point outside it.   *)
LEMMA PointUnique ==
  ASSUME TypeInv, UniqueInv, NEW p \in Callers,
         \A q \in Callers \ {p} : caller'[q] = caller[q],
         caller'[p].seen = caller[p].seen,
         \A q \in Callers \ {p} : listLock = q => listLock' = q,
         UNCHANGED <<allocated, mark, markWriter>>, NoneLearnt,
         files \subseteq files', files' \subseteq Ids,
         caller[p].pc \notin {"createScan", "createWrite", "createEnd", "crashed"},
         caller'[p].pc \notin UnderListLock \cup Deleting
  PROVE  UniqueInv'
<1>1. caller[p].seen = {}
  BY DEF UniqueInv, Orderly, Creation
<1> QED
  BY <1>1, PlainUnique

LEMMA GotoFrame ==
  ASSUME TypeInv, NEW p \in Callers, NEW point, Goto(p, point)
  PROVE  /\ \A q \in Callers \ {p} : caller'[q] = caller[q]
         /\ caller'[p].pc = point
         /\ \A f \in Frame \ {"pc"} : caller'[p][f] = caller[p][f]
         /\ caller'[p].seen = caller[p].seen /\ caller'[p].high = caller[p].high
         /\ caller'[p].id = caller[p].id /\ caller'[p].todo = caller[p].todo
<1>1. FrameOK(caller[p]) /\ DOMAIN caller = Callers
  BY DEF TypeInv, Frames
<1> QED
  BY <1>1 DEF Goto, FrameOK, Frame

LEMMA BeginUnique ==
  ASSUME TypeInv, UniqueInv, NEW p \in Callers, NEW op, Begin(p, op),
         NEW point \in Points, NEW i, NEW todo, Started(p, point, i, todo),
         point \notin UnderListLock \cup Deleting,
         point \in Aiming => Known(i), \A n \in DOMAIN todo : Known(todo[n].id)
  PROVE  UniqueInv'
<1>1. FrameOK(caller[p]) /\ DOMAIN caller = Callers
  BY DEF TypeInv, Frames
<1>2. /\ \A q \in Callers \ {p} : caller'[q] = caller[q]
      /\ caller'[p].pc = point /\ caller'[p].seen = caller[p].seen
      /\ caller'[p].id = i /\ caller'[p].todo = todo
  BY <1>1 DEF Started, FrameOK, Frame
<1>3. /\ caller[p].pc = "idle" /\ listLock' = listLock
      /\ UNCHANGED <<allocated, mark, markWriter, files>>
  BY DEF Begin, At, disk, locks
<1>4. files' \subseteq Ids /\ files \subseteq files'
  BY <1>3 DEF TypeInv, DiskTyped
<1>5. \A j \in Works(p)' : Known(j)
  BY <1>2 DEF Works
<1>6. \A j \in files' : Known(j)
  BY <1>3 DEF Known
<1>7. NoneLearnt
  BY <1>2, <1>3, <1>5, <1>6, KnownKept
<1> QED
  BY <1>2, <1>3, <1>4, <1>7, PointUnique

(* Calls begin. *)
LEMMA CallsUnique ==
  ASSUME "delete" \notin Operations, TypeInv, UniqueInv, NEW p \in Callers, Calls(p)
  PROVE  UniqueInv'
<1>1. /\ {"createLock", "resetLock", "resetCheck", "claimLock", "busyLock", "updateCheck"}
           \subseteq Points
      /\ {"createLock", "resetLock", "resetCheck", "claimLock", "busyLock", "updateCheck"}
           \cap (UnderListLock \cup Deleting) = {}
  BY DEF Points, UnderListLock, Deleting
<1>2. \A i \in files : Known(i)
  BY DEF Known
<1>3. /\ DOMAIN <<>> = {}
      /\ \A u : DOMAIN <<u>> = {1} /\ <<u>>[1] = u
  OBVIOUS
<1>4. CASE CallCreate(p) \/ CallReset(p) \/ CallHideTimer(p)
  BY <1>1, <1>3, <1>4, BeginUnique DEF CallCreate, CallReset, CallHideTimer, Aiming
<1>5. ASSUME NEW i \in files, CallDelete(p, i) PROVE FALSE
  BY <1>5 DEF CallDelete, Begin
<1>6. ASSUME NEW i \in files, CallClaim(p, i) PROVE UniqueInv'
  BY <1>1, <1>2, <1>3, <1>6, BeginUnique DEF CallClaim
<1>7. ASSUME NEW i \in files, NEW op, Begin(p, op), NEW change,
             Started(p, "updateCheck", i, <<Update(i, change)>>)
      PROVE  UniqueInv'
  <2>1. \A n \in DOMAIN <<Update(i, change)>> : Known(<<Update(i, change)>>[n].id)
    BY <1>2 DEF Update
  <2> QED
    BY <1>1, <1>2, <1>7, <2>1, BeginUnique
<1>8. ASSUME NEW i \in files, CallUpdate(p, i) \/ CallStart(p, i) PROVE UniqueInv'
  BY <1>7, <1>8 DEF CallUpdate, CallStart
<1>9. ASSUME NEW i \in files, NEW j \in files, CallBlock(p, i, j) PROVE UniqueInv'
  <2> DEFINE u == Update(i, [blocks |-> task[i].blocks \cup {j}])
             v == Update(j, [blockedBy |-> task[j].blockedBy \cup {i}])
  <2>1. Known(u.id) /\ Known(v.id)
    BY <1>2 DEF Update
  <2>2. \E todo \in {<<>> \o <<>>, <<u>> \o <<>>, <<>> \o <<v>>, <<u>> \o <<v>>} :
           Started(p, "updateCheck", i, todo)
    BY <1>9 DEF CallBlock
  <2> HIDE DEF u, v
  <2>3. PICK todo \in {<<>> \o <<>>, <<u>> \o <<>>, <<>> \o <<v>>, <<u>> \o <<v>>} :
           Started(p, "updateCheck", i, todo)
    BY <2>2
  <2>4. \A n \in DOMAIN todo : todo[n] \in {u, v}
    BY <2>3
  <2>5. Begin(p, "block")
    BY <1>9 DEF CallBlock
  <2> QED
    BY <1>1, <1>2, <2>1, <2>3, <2>4, <2>5, BeginUnique
<1>10. ASSUME NEW a \in Agents, CallUnassign(p, a) PROVE UniqueInv'
  <2> DEFINE mine == {i \in ListTasks : Open(i) /\ task[i].owner = a}
  <2>1. PICK order \in [1..Cardinality(mine) -> mine] :
          Started(p, "updateCheck", 1,
                  [n \in DOMAIN order |->
                     Update(order[n], [owner |-> None, status |-> "pending"])])
    BY <1>10 DEF CallUnassign
  <2> DEFINE todo == [n \in DOMAIN order |->
                       Update(order[n], [owner |-> None, status |-> "pending"])]
  <2>2. mine \subseteq files
    BY DEF ListTasks, Readable
  <2> HIDE DEF mine
  <2>3. \A n \in DOMAIN todo : Known(todo[n].id)
    BY <1>2, <2>2 DEF Update
  <2>4. Begin(p, "unassign") /\ Started(p, "updateCheck", 1, todo)
    BY <1>10, <2>1 DEF CallUnassign
  <2> HIDE DEF todo
  <2> QED
    BY <1>1, <2>3, <2>4, BeginUnique DEF Aiming
<1> QED
  BY <1>4, <1>5, <1>6, <1>8, <1>9, <1>10 DEF Calls

(* Taking and giving up locks. *)
LEMMA LockListUnique ==
  ASSUME TypeInv, UniqueInv, NEW p \in Callers, LockList(p)
  PROVE  UniqueInv'
<1>1. /\ listLock = None /\ listLock' = p /\ p # None
      /\ UNCHANGED <<files, allocated, mark, markWriter>>
  BY ConstantsAssumption DEF LockList, disk
<1>2. /\ files \subseteq files' /\ files' \subseteq Ids
      /\ \A q \in Callers \ {p} : listLock = q => listLock' = q
  BY <1>1, ConstantsAssumption DEF TypeInv, DiskTyped
<1>3. PICK point \in {"createScan", "resetScan", "busyRead"} :
        /\ Goto(p, point)
        /\ caller[p].pc \in {"createLock", "resetLock", "busyLock"}
        /\ point = "busyRead" => caller[p].pc = "busyLock"
  BY DEF LockList, At
<1>4. /\ \A q \in Callers \ {p} : caller'[q] = caller[q]
      /\ caller'[p].pc = point
      /\ caller'[p].seen = caller[p].seen /\ caller'[p].high = caller[p].high
      /\ caller'[p].id = caller[p].id /\ caller'[p].todo = caller[p].todo
  BY <1>3, GotoFrame
<1>5. caller[p].seen = {} /\ Recorded
  BY <1>3 DEF UniqueInv, Orderly, Creation
<1>6. NoneLearnt
  BY <1>1, <1>3, <1>4, WorksKept DEF Aiming
<1>7. Found(p)'
  BY <1>1, <1>4, <1>5, <1>6 DEF Found, Recorded, NoneLearnt, HighestFile, MarkRead
<1>8. Orderly(p)'
  BY <1>1, <1>3, <1>4, <1>5, <1>7
     DEF Orderly, Creation, Resetting, Locking, UnderListLock, Deleting
<1> QED
  BY <1>1, <1>2, <1>4, <1>6, <1>8, KeepsUnique

LEMMA LockUnique ==
  ASSUME TypeInv, UniqueInv, NEW p \in Callers,
         LockTask(p) \/ LockFails(p) \/ Crash(p) \/ LockStale(p)
  PROVE  UniqueInv'
<1>1. UNCHANGED <<files, allocated, mark, markWriter>>
  BY DEF LockTask, LockFails, Crash, LockStale, disk
<1>2. files' \subseteq Ids /\ files \subseteq files'
  BY <1>1 DEF TypeInv, DiskTyped
<1>3. CASE LockTask(p)
  <2>1. caller[p].pc \in {"claimLock", "updateLock"}
    BY <1>3 DEF LockTask, WaitsForTask, At
  <2>2. PICK point \in {"claimRead", "updateRead"} :
          Goto(p, point) /\ (point = "claimRead" => caller[p].pc = "claimLock")
    BY <1>3 DEF LockTask, At
  <2>3. listLock' = listLock
    BY <1>3 DEF LockTask
  <2>4. /\ \A q \in Callers \ {p} : caller'[q] = caller[q]
        /\ caller'[p].pc = point /\ caller'[p].seen = caller[p].seen
        /\ caller'[p].id = caller[p].id /\ caller'[p].todo = caller[p].todo
    BY <2>2, GotoFrame
  <2>5. NoneLearnt
    BY <1>1, <2>2, <2>4, WorksKept DEF Aiming
  <2> QED
    BY <1>1, <1>2, <2>1, <2>2, <2>3, <2>4, <2>5, PointUnique DEF UnderListLock, Deleting
<1>4. CASE LockFails(p)
  BY <1>1, <1>4, ReturnUnique DEF LockFails
<1>5. CASE Crash(p)
  <2>1. Goto(p, "crashed") /\ listLock' = listLock
    BY <1>5 DEF Crash, locks
  <2>2. /\ \A q \in Callers \ {p} : caller'[q] = caller[q]
        /\ caller'[p].pc = "crashed" /\ caller'[p].todo = caller[p].todo
    BY <2>1, GotoFrame
  <2>3. NoneLearnt
    BY <1>1, <2>2, WorksKept DEF Aiming
  <2> QED
    BY <1>1, <1>2, <2>1, <2>2, <2>3, PlainUnique DEF UnderListLock, Deleting
<1>6. CASE LockStale(p)
  <2>1. caller' = caller /\ caller'[p].pc = "crashed"
    BY <1>6 DEF LockStale, At
  <2>2. \A q \in Callers \ {p} : listLock = q => listLock' = q
    BY <1>6 DEF LockStale
  <2>3. NoneLearnt
    BY <1>1, <2>1, WorksKept DEF Aiming
  <2> QED
    BY <1>1, <1>2, <2>1, <2>2, <2>3, PlainUnique DEF UnderListLock, Deleting
<1> QED
  BY <1>3, <1>4, <1>5, <1>6

(* createTask: the scan reads the files and the mark, in either order.     *)
LEMMA CreateScanUnique ==
  ASSUME TypeInv, UniqueInv, NEW p \in Callers, CreateScan(p)
  PROVE  UniqueInv'
<1>1. /\ UNCHANGED <<files, allocated, mark, markWriter, listLock>>
      /\ caller[p].pc = "createScan"
  BY DEF CreateScan, disk, locks, At
<1>2. files \subseteq files' /\ files' \subseteq Ids
  BY <1>1 DEF TypeInv, DiskTyped
<1>3. FrameOK(caller[p]) /\ DOMAIN caller = Callers
  BY DEF TypeInv, Frames
<1>4. PICK source \in {"files", "mark"} \ caller[p].seen :
        caller' = [caller EXCEPT
          ![p].high = Max({@, IF source = "files" THEN HighestFile ELSE MarkRead}),
          ![p].seen = @ \cup {source},
          ![p].pc = IF caller[p].seen = {} THEN "createScan" ELSE "createWrite"]
  BY DEF CreateScan
<1> DEFINE found == IF source = "files" THEN HighestFile ELSE MarkRead
<1>5. /\ \A q \in Callers \ {p} : caller'[q] = caller[q]
      /\ caller'[p].high = Max({caller[p].high, found})
      /\ caller'[p].seen = caller[p].seen \cup {source}
      /\ caller'[p].pc = IF caller[p].seen = {} THEN "createScan" ELSE "createWrite"
      /\ caller'[p].todo = caller[p].todo
  BY <1>3, <1>4 DEF FrameOK, Frame
<1>6. NoneLearnt
  BY <1>1, <1>5, WorksKept DEF Aiming
<1>7. found \in 0..MaxId /\ caller[p].high \in 0..MaxId
  BY Heights
<1>8. /\ caller'[p].high \in 0..MaxId
      /\ caller[p].high <= caller'[p].high /\ found <= caller'[p].high
  <2> HIDE DEF found
  <2> QED
    BY <1>5, <1>7, HigherFacts
<1>9. Found(p)'
  <2> SUFFICES ASSUME NEW i \in Ids, Known(i)'
               PROVE  \/ i <= caller'[p].high
                      \/ "files" \notin caller'[p].seen /\ i <= HighestFile'
                      \/ "mark" \notin caller'[p].seen /\ i <= MarkRead'
    BY DEF Found
  <2>1. Known(i) /\ HighestFile' = HighestFile /\ MarkRead' = MarkRead
    BY <1>1, <1>6 DEF NoneLearnt, HighestFile, MarkRead
  <2>2. \/ i <= caller[p].high
        \/ "files" \notin caller[p].seen /\ i <= HighestFile
        \/ "mark" \notin caller[p].seen /\ i <= MarkRead
    BY <1>1, <2>1 DEF UniqueInv, Orderly, Creation, Found
  <2>3. CASE i <= caller[p].high \/ i <= found
    <3> HIDE DEF found
    <3> QED
      BY <1>7, <1>8, <2>3, Heights
  <2>4. CASE ~ (i <= found)
    BY <1>5, <2>1, <2>2, <2>3, <2>4
  <2> QED
    BY <2>3, <2>4
<1>10. Creation(p)'
  <2>1. caller'[p].pc = "createWrite" => caller'[p].seen = {"files", "mark"}
    BY <1>3, <1>5 DEF FrameOK
  <2> QED
    BY <1>5, <1>9, <2>1 DEF Creation
<1>11. Resetting(p)' /\ Locking(p)'
  BY <1>1, <1>5 DEF UniqueInv, Orderly, Resetting, Locking, UnderListLock, Deleting
<1> QED
  BY <1>1, <1>2, <1>5, <1>10, <1>11, <1>6, KeepsUnique DEF Orderly

(* Steps under the lock that change what is known, the mark or the files.    *)
LEMMA HolderUnique ==
  ASSUME TypeInv, UniqueInv, NEW p \in Callers, listLock = p,
         \A q \in Callers \ {p} : caller'[q] = caller[q],
         UniqueIds', Recorded', Orderly(p)'
  PROVE  UniqueInv'
<1>1. \A q \in Callers \ {p} : (listLock = q => listLock' = q)
  OBVIOUS
<1>2. \A q \in Callers \ {p} : Orderly(q)'
  BY <1>1, OthersOrderly
<1> QED
  BY <1>2 DEF UniqueInv

(* The next id is above everything that is known.                          *)
LEMMA CreateWriteUnique ==
  ASSUME TypeInv, UniqueInv, NEW p \in Callers, CreateWrite(p)
  PROVE  UniqueInv' /\ ~ Known(caller[p].high + 1)
<1> DEFINE i == caller[p].high + 1
<1>1. /\ caller[p].pc = "createWrite" /\ i \in Ids /\ files' = files \cup {i}
      /\ caller' = [caller EXCEPT ![p].pc = "createEnd", ![p].id = i]
      /\ UNCHANGED <<allocated, mark, markWriter, listLock>>
  BY DEF CreateWrite, At, locks
<1>2. FrameOK(caller[p]) /\ DOMAIN caller = Callers
  BY DEF TypeInv, Frames
<1>3. /\ \A q \in Callers \ {p} : caller'[q] = caller[q]
      /\ caller'[p].pc = "createEnd" /\ caller'[p].id = i
      /\ caller'[p].todo = caller[p].todo
  BY <1>1, <1>2 DEF FrameOK, Frame
<1>4. files \subseteq files' /\ files' \subseteq Ids /\ i \in files'
  BY <1>1 DEF TypeInv, DiskTyped
<1>5. listLock = p /\ \A j \in Ids : Known(j) => j <= caller[p].high
  BY <1>1 DEF UniqueInv, Orderly, Creation, Found, Locking, UnderListLock
<1>6. allocated[i] = 0 /\ ~ Known(i)
  BY <1>1, <1>5, Heights DEF Known
<1> HIDE DEF i
<1>7. ASSUME NEW j \in Ids, Known(j)', j # i PROVE Known(j)
  <2>1. \A q \in Callers : j \in Works(q)' => j \in Works(q)
    BY <1>3 DEF Works, Aiming
  <2> QED
    BY <1>1, <1>7, <2>1 DEF Known
<1>8. MarkRead' = MarkRead /\ HighestFile <= HighestFile' /\ i <= HighestFile'
  BY <1>1, <1>4, HighestGrows DEF MarkRead
<1>9. HighestFile \in Int /\ HighestFile' \in Int /\ Ids \subseteq Int
  BY <1>4, HighestGrows, Heights
<1>10. UniqueIds' /\ Recorded'
  BY <1>1, <1>7, <1>8, <1>9 DEF UniqueInv, UniqueIds, Recorded
<1>11. Orderly(p)'
  BY <1>1, <1>3, <1>4, <1>6
     DEF UniqueInv, Orderly, Creation, Resetting, Locking, UnderListLock, Deleting
<1> QED
  BY <1>3, <1>5, <1>6, <1>10, <1>11, HolderUnique DEF i

LEMMA CreateEndUnique ==
  ASSUME TypeInv, UniqueInv, NEW p \in Callers, CreateEnd(p)
  PROVE  UniqueInv'
<1> DEFINE i == caller[p].id
<1>1. /\ caller[p].pc = "createEnd" /\ Return(p)
      /\ allocated' = [allocated EXCEPT ![i] = allocated[i] + 1]
      /\ UNCHANGED <<files, mark, markWriter>>
  BY DEF CreateEnd, At
<1>2. /\ FrameOK(caller[p]) /\ DOMAIN caller = Callers
      /\ allocated \in [Ids -> Nat] /\ files \subseteq Ids
  BY DEF TypeInv, Frames, CountersTyped, DiskTyped
<1>3. /\ \A q \in Callers \ {p} : caller'[q] = caller[q]
      /\ caller'[p].pc = "idle" /\ caller'[p].seen = {} /\ caller'[p].todo = <<>>
  BY <1>1, <1>2 DEF Return, FrameOK, Frame
<1>4. i \in files /\ allocated[i] = 0 /\ listLock = p
  BY <1>1 DEF UniqueInv, Orderly, Creation, Locking, UnderListLock
<1> HIDE DEF i
<1>5. allocated'[i] = 1 /\ \A j \in Ids \ {i} : allocated'[j] = allocated[j]
  BY <1>1, <1>2, <1>4
<1>6. UniqueIds'
  BY <1>5 DEF UniqueInv, UniqueIds
<1>7. HighestFile' = HighestFile /\ MarkRead' = MarkRead
  BY <1>1 DEF HighestFile, MarkRead
<1>8. Recorded'
  <2> SUFFICES ASSUME NEW j \in Ids, Known(j)' PROVE Known(j)
    BY <1>7 DEF UniqueInv, Recorded
  <2>1. CASE j = i
    BY <1>4, <2>1 DEF Known
  <2>2. CASE j # i
    <3>1. \A q \in Callers : j \in Works(q)' => j \in Works(q)
      BY <1>3 DEF Works, Aiming
    <3> QED
      BY <1>1, <1>5, <2>2, <3>1 DEF Known
  <2> QED
    BY <2>1, <2>2
<1>9. Orderly(p)'
  BY <1>3 DEF Orderly, Creation, Resetting, Locking, UnderListLock, Deleting
<1> QED
  BY <1>3, <1>4, <1>6, <1>8, <1>9, HolderUnique

(* resetTaskList: the highest file is found, and kept in the mark if the   *)
(* mark is lower.                                                          *)
LEMMA ResetScanUnique ==
  ASSUME TypeInv, UniqueInv, NEW p \in Callers, ResetScan(p)
  PROVE  UniqueInv'
<1>1. /\ UNCHANGED <<files, allocated, mark, markWriter, listLock>>
      /\ caller[p].pc = "resetScan"
      /\ caller' = [caller EXCEPT ![p].high = HighestFile,
           ![p].pc = IF HighestFile > 0 THEN "resetMark" ELSE "resetList"]
  BY DEF ResetScan, disk, locks, At
<1>2. FrameOK(caller[p]) /\ DOMAIN caller = Callers /\ files' \subseteq Ids
  BY <1>1 DEF TypeInv, Frames, DiskTyped
<1>3. /\ \A q \in Callers \ {p} : caller'[q] = caller[q]
      /\ caller'[p].high = HighestFile /\ caller'[p].seen = caller[p].seen
      /\ caller'[p].pc = IF HighestFile > 0 THEN "resetMark" ELSE "resetList"
      /\ caller'[p].todo = caller[p].todo
  BY <1>1, <1>2 DEF FrameOK, Frame
<1>4. NoneLearnt
  <2>1. caller'[p].pc \notin Aiming
    BY <1>3 DEF Aiming
  <2> QED
    BY <1>1, <1>3, <2>1, WorksKept
<1>5. \A i \in Ids : Known(i)' => i <= HighestFile \/ i <= MarkRead'
  BY <1>1, <1>4 DEF UniqueInv, Recorded, NoneLearnt, HighestFile, MarkRead
<1>6. /\ HighestFile > 0 => HighestFile \in files'
      /\ ~ (HighestFile > 0) => \A i \in Ids : ~ (i <= HighestFile)
  BY <1>1, Heights
<1>7. Resetting(p)'
  BY <1>3, <1>5, <1>6 DEF Resetting
<1>8. caller'[p].pc \in {"resetMark", "resetList"} /\ caller'[p].seen = {}
  BY <1>1, <1>3 DEF UniqueInv, Orderly, Creation
<1>9. Creation(p)'
  BY <1>8 DEF Creation
<1>10. Locking(p)'
  BY <1>1, <1>8 DEF UniqueInv, Orderly, Locking, UnderListLock, Deleting
<1> QED
  BY <1>1, <1>2, <1>3, <1>7, <1>9, <1>10, <1>4, KeepsUnique DEF Orderly

LEMMA ResetMarkUnique ==
  ASSUME TypeInv, UniqueInv, NEW p \in Callers, ResetMark(p)
  PROVE  UniqueInv'
<1> DEFINE point == IF caller[p].high > MarkRead THEN "markWrite" ELSE "resetList"
<1>1. /\ UNCHANGED <<files, allocated, mark, markWriter, listLock>>
      /\ caller[p].pc = "resetMark" /\ Goto(p, point)
  BY DEF ResetMark, disk, locks, At
<1>2. files' \subseteq Ids
  BY <1>1 DEF TypeInv, DiskTyped
<1>3. /\ \A q \in Callers \ {p} : caller'[q] = caller[q]
      /\ caller'[p].pc = point /\ caller'[p].high = caller[p].high
      /\ caller'[p].seen = caller[p].seen /\ caller'[p].todo = caller[p].todo
  <2> HIDE DEF point
  <2> QED
    BY <1>1, GotoFrame
<1>4. /\ caller[p].high \in files
      /\ \A i \in Ids : Known(i) => i <= caller[p].high \/ i <= MarkRead
  BY <1>1 DEF UniqueInv, Orderly, Resetting
<1>5. NoneLearnt
  BY <1>1, <1>3, WorksKept DEF Aiming
<1>6. IF caller[p].high > MarkRead
        THEN \A i \in Ids : Known(i)' => i <= caller[p].high
        ELSE \A i \in Ids : Known(i)' => i <= MarkRead
  BY <1>4, <1>5, Heights DEF NoneLearnt
<1>7. MarkRead' = MarkRead
  BY <1>1 DEF MarkRead
<1>8. Resetting(p)'
  BY <1>1, <1>3, <1>4, <1>6, <1>7 DEF Resetting
<1>9. Creation(p)'
  BY <1>1, <1>3 DEF UniqueInv, Orderly, Creation
<1>10. caller'[p].pc \in {"markWrite", "resetList"}
  BY <1>3
<1>11. Locking(p)'
  BY <1>1, <1>10 DEF UniqueInv, Orderly, Locking, UnderListLock, Deleting
<1> QED
  BY <1>1, <1>2, <1>3, <1>5, <1>8, <1>9, <1>11, KeepsUnique DEF Orderly

(* The file of the highest id is there while the mark is written.          *)
LEMMA MarkWriteUnique ==
  ASSUME TypeInv, UniqueInv, NEW p \in Callers, MarkWrite(p)
  PROVE  UniqueInv'
<1>1. /\ caller[p].pc = "markWrite" /\ Goto(p, "markEnd")
      /\ UNCHANGED <<files, allocated, listLock>>
  BY DEF MarkWrite, At, locks
<1>2. /\ \A q \in Callers \ {p} : caller'[q] = caller[q]
      /\ caller'[p].pc = "markEnd" /\ caller'[p].high = caller[p].high
      /\ caller'[p].seen = caller[p].seen /\ caller'[p].todo = caller[p].todo
  BY <1>1, GotoFrame
<1>3. /\ listLock = p /\ caller[p].high \in files
      /\ \A i \in Ids : Known(i) => i <= caller[p].high
  BY <1>1 DEF UniqueInv, Orderly, Resetting, Locking, UnderListLock
<1>4. \A i \in Ids : Known(i)' => i <= caller[p].high
  BY <1>1, <1>2, <1>3, WorksKept DEF NoneLearnt, Aiming
<1>5. caller[p].high <= HighestFile /\ HighestFile' = HighestFile
  BY <1>1, <1>3, Heights DEF HighestFile
<1>6. Recorded'
  BY <1>4, <1>5, Heights DEF Recorded
<1>7. UniqueIds'
  BY <1>1 DEF UniqueInv, UniqueIds
<1>8. Orderly(p)'
  BY <1>1, <1>2, <1>3, <1>4
     DEF UniqueInv, Orderly, Creation, Resetting, Locking, UnderListLock, Deleting
<1> QED
  BY <1>2, <1>3, <1>6, <1>7, <1>8, HolderUnique

LEMMA MarkEndUnique ==
  ASSUME TypeInv, UniqueInv, NEW p \in Callers, MarkEnd(p)
  PROVE  UniqueInv'
<1>1. /\ caller[p].pc = "markEnd" /\ mark' = caller[p].high /\ markWriter' = None
      /\ Goto(p, IF listLock = p THEN "resetList" ELSE "deleteUnlink")
      /\ UNCHANGED <<files, allocated, listLock>>
  BY DEF MarkEnd, At, locks
<1>2. /\ listLock = p
      /\ \A i \in Ids : Known(i) => i <= caller[p].high
  BY <1>1 DEF UniqueInv, Orderly, Resetting, Locking, UnderListLock
<1>3. /\ \A q \in Callers \ {p} : caller'[q] = caller[q]
      /\ caller'[p].pc = "resetList" /\ caller'[p].seen = caller[p].seen
      /\ caller'[p].todo = caller[p].todo
  BY <1>1, <1>2, GotoFrame
<1>4. MarkRead' = caller[p].high
  BY <1>1 DEF MarkRead
<1>5. \A i \in Ids : Known(i)' => i <= MarkRead'
  BY <1>1, <1>2, <1>3, <1>4, WorksKept DEF NoneLearnt, Aiming
<1>6. Recorded'
  BY <1>5 DEF Recorded
<1>7. UniqueIds'
  BY <1>1 DEF UniqueInv, UniqueIds
<1>8. Orderly(p)'
  BY <1>1, <1>2, <1>3, <1>5
     DEF UniqueInv, Orderly, Creation, Resetting, Locking, UnderListLock, Deleting
<1> QED
  BY <1>2, <1>3, <1>6, <1>7, <1>8, HolderUnique

LEMMA ResetListUnique ==
  ASSUME TypeInv, UniqueInv, NEW p \in Callers, ResetList(p)
  PROVE  UniqueInv'
<1>1. /\ UNCHANGED <<files, allocated, mark, markWriter, listLock>>
      /\ caller[p].pc = "resetList"
      /\ caller' = [caller EXCEPT ![p].batch = files, ![p].pc = "resetUnlink"]
  BY DEF ResetList, disk, locks, At
<1>2. FrameOK(caller[p]) /\ DOMAIN caller = Callers /\ files' \subseteq Ids
  BY <1>1 DEF TypeInv, Frames, DiskTyped
<1>3. /\ \A q \in Callers \ {p} : caller'[q] = caller[q]
      /\ caller'[p].pc = "resetUnlink" /\ caller'[p].seen = caller[p].seen
      /\ caller'[p].todo = caller[p].todo
  BY <1>1, <1>2 DEF FrameOK, Frame
<1>4. NoneLearnt
  BY <1>1, <1>3, WorksKept DEF Aiming
<1>5. \A i \in Ids : Known(i)' => i <= MarkRead'
  BY <1>1, <1>4 DEF UniqueInv, Orderly, Resetting, NoneLearnt, MarkRead
<1>6. Orderly(p)'
  BY <1>1, <1>3, <1>5
     DEF UniqueInv, Orderly, Creation, Resetting, Locking, UnderListLock, Deleting
<1> QED
  BY <1>1, <1>2, <1>3, <1>4, <1>6, KeepsUnique

(* What is unlinked is covered by the mark.                                *)
LEMMA ResetUnlinkUnique ==
  ASSUME TypeInv, UniqueInv, NEW p \in Callers, ResetUnlink(p)
  PROVE  UniqueInv'
<1>1. caller[p].pc = "resetUnlink" /\ UNCHANGED allocated
  BY DEF ResetUnlink, At
<1>2. listLock = p /\ \A i \in Ids : Known(i) => i <= MarkRead
  BY <1>1 DEF UniqueInv, Orderly, Resetting, Locking, UnderListLock
<1>3. CASE Return(p) /\ UNCHANGED disk
  BY <1>1, <1>3, ReturnUnique DEF disk
<1>4. CASE \E i \in caller[p].batch :
             /\ Unlink(i)
             /\ caller' = [caller EXCEPT ![p].batch = @ \ {i}]
             /\ UNCHANGED locks
  <2>1. PICK i \in caller[p].batch :
          /\ UNCHANGED <<mark, markWriter, listLock>> /\ files' \subseteq files
          /\ caller' = [caller EXCEPT ![p].batch = @ \ {i}]
    BY <1>4 DEF Unlink, locks
  <2>2. FrameOK(caller[p]) /\ DOMAIN caller = Callers
    BY DEF TypeInv, Frames
  <2>3. /\ \A q \in Callers \ {p} : caller'[q] = caller[q]
        /\ caller'[p].pc = "resetUnlink" /\ caller'[p].seen = caller[p].seen
        /\ caller'[p].todo = caller[p].todo
    BY <1>1, <2>1, <2>2 DEF FrameOK, Frame
  <2>4. \A j \in Ids : Known(j)' => j <= MarkRead'
    BY <1>1, <1>2, <2>1, <2>3, WorksKept DEF NoneLearnt, MarkRead, Aiming
  <2>5. Recorded'
    BY <2>4 DEF Recorded
  <2>6. UniqueIds'
    BY <1>1 DEF UniqueInv, UniqueIds
  <2>7. Orderly(p)'
    BY <1>1, <1>2, <2>1, <2>3, <2>4
       DEF UniqueInv, Orderly, Creation, Resetting, Locking, UnderListLock, Deleting
  <2> QED
    BY <1>2, <2>3, <2>5, <2>6, <2>7, HolderUnique
<1> QED
  BY <1>3, <1>4 DEF ResetUnlink

LEMMA ResetCheckUnique ==
  ASSUME TypeInv, UniqueInv, NEW p \in Callers, ResetCheck(p)
  PROVE  UniqueInv'
<1>1. caller[p].pc = "resetCheck" /\ UNCHANGED <<files, allocated, mark, markWriter>>
  BY DEF ResetCheck, At, disk
<1>2. files' \subseteq Ids
  BY <1>1 DEF TypeInv, DiskTyped
<1>3. CASE Return(p)
  BY <1>1, <1>3, ReturnUnique
<1>4. CASE Goto(p, "resetLock") /\ UNCHANGED locks
  <2>1. /\ \A q \in Callers \ {p} : caller'[q] = caller[q]
        /\ caller'[p].pc = "resetLock" /\ caller'[p].seen = caller[p].seen
        /\ listLock' = listLock /\ caller'[p].todo = caller[p].todo
    BY <1>4, GotoFrame DEF locks
  <2>2. NoneLearnt
    BY <1>1, <2>1, WorksKept DEF Aiming
  <2> QED
    BY <1>1, <1>2, <2>1, <2>2, PointUnique DEF UnderListLock, Deleting
<1> QED
  BY <1>3, <1>4 DEF ResetCheck

(* Claims and updates do not touch the mark, and files stay.               *)
LEMMA ClaimsUnique ==
  ASSUME TypeInv, UniqueInv, NEW p \in Callers,
         ClaimRead(p) \/ ClaimList(p) \/ BusyRead(p)
  PROVE  UniqueInv'
<1>1. /\ caller[p].pc \in {"claimRead", "claimList", "busyRead"}
      /\ UNCHANGED <<files, allocated, mark, markWriter>>
  BY DEF ClaimRead, ClaimList, BusyRead, At, disk
<1>2. FrameOK(caller[p]) /\ DOMAIN caller = Callers /\ files' \subseteq Ids
  BY <1>1 DEF TypeInv, Frames, DiskTyped
<1>3. CASE Return(p)
  BY <1>1, <1>3, ReturnUnique
<1>4. ASSUME ~ Return(p)
      PROVE  /\ \A q \in Callers \ {p} : caller'[q] = caller[q]
             /\ caller'[p].pc \in {"claimList", "updateRead", "updateCheck"}
             /\ caller'[p].seen = caller[p].seen /\ caller'[p].id = caller[p].id
             /\ \/ caller'[p].todo = caller[p].todo
                \/ \E change : caller'[p].todo = <<Update(caller[p].id, change)>>
             /\ listLock' = listLock
  <2>1. CASE ClaimRead(p)
    BY <1>2, <1>4, <2>1 DEF ClaimRead, locks, FrameOK, Frame
  <2>2. CASE ClaimList(p)
    BY <1>2, <1>4, <2>2 DEF ClaimList, locks, FrameOK, Frame
  <2>3. CASE BusyRead(p)
    BY <1>2, <1>4, <2>3 DEF BusyRead, locks, FrameOK, Frame
  <2> QED
    BY <2>1, <2>2, <2>3
<1>5. ASSUME ~ Return(p) PROVE NoneLearnt
  <2>1. \A i \in Works(p) : Known(i)
    BY DEF Known
  <2>2. caller[p].id \in Works(p)
    BY <1>1 DEF Works, Aiming
  <2>3. \A i \in Works(p)' : i \in Works(p)
    <3>1. CASE caller'[p].todo = caller[p].todo
      BY <1>4, <1>5, <2>2, <3>1 DEF Works
    <3>2. ASSUME NEW change, caller'[p].todo = <<Update(caller[p].id, change)>>
          PROVE  \A i \in Works(p)' : i \in Works(p)
      <4>1. \A n \in DOMAIN caller'[p].todo : caller'[p].todo[n].id = caller[p].id
        BY <3>2 DEF Update
      <4> QED
        BY <1>4, <1>5, <2>2, <4>1 DEF Works
    <3> QED
      BY <1>4, <1>5, <3>1, <3>2
  <2>4. (\A i \in files' : Known(i)) /\ (\A i \in Works(p)' : Known(i))
    BY <1>1, <2>1, <2>3 DEF Known
  <2> QED
    BY <1>1, <1>4, <1>5, <2>4, KnownKept
<1> QED
  BY <1>1, <1>2, <1>3, <1>4, <1>5, PointUnique DEF UnderListLock, Deleting

LEMMA TodoParts ==
  ASSUME NEW todo, TodoTyped(todo), todo # <<>>
  PROVE  /\ \E m \in DOMAIN todo : todo[m] = Head(todo)
         /\ \A n \in DOMAIN Tail(todo) : \E m \in DOMAIN todo : todo[m] = Tail(todo)[n]
<1>1. PICK S : todo \in Seq(S)
  BY DEF TodoTyped
<1>2. Head(todo) = todo[1] /\ 1 \in DOMAIN todo
  BY <1>1
<1>3. ASSUME NEW n \in DOMAIN Tail(todo)
      PROVE  n + 1 \in DOMAIN todo /\ todo[n + 1] = Tail(todo)[n]
  BY <1>1, <1>3
<1> QED
  BY <1>2, <1>3

LEMMA UpdatesUnique ==
  ASSUME TypeInv, UniqueInv, NEW p \in Callers,
         UpdateCheck(p) \/ UpdateRead(p) \/ UpdateWrite(p) \/ UpdateEnd(p)
  PROVE  UniqueInv'
<1> DEFINE todo == caller[p].todo
<1>1. /\ caller[p].pc \in {"updateCheck", "updateRead", "updateWrite", "updateEnd"}
      /\ UNCHANGED <<allocated, mark, markWriter>>
  BY DEF UpdateCheck, UpdateRead, UpdateWrite, UpdateEnd, At, disk
<1>2. FrameOK(caller[p]) /\ DOMAIN caller = Callers /\ files \subseteq Ids
  BY DEF TypeInv, Frames, DiskTyped
<1>3. CASE UpdateCheck(p) /\ Return(p)
  BY <1>1, <1>3, ReturnUnique DEF UpdateCheck, disk
<1>4. ASSUME ~ (UpdateCheck(p) /\ Return(p))
      PROVE  /\ \A q \in Callers \ {p} : caller'[q] = caller[q]
             /\ caller'[p].pc \in Updates \cup {"updateCheck"}
             /\ caller'[p].seen = caller[p].seen
             /\ caller'[p].todo = todo \/ (todo # <<>> /\ caller'[p].todo = Tail(todo))
             /\ listLock' = listLock
  <2>1. CASE UpdateCheck(p)
    BY <1>2, <1>4, <2>1 DEF UpdateCheck, At, locks, FrameOK, Frame, Updates
  <2>2. CASE UpdateRead(p)
    BY <1>2, <2>2 DEF UpdateRead, Updated, At, locks, FrameOK, Frame, Updates
  <2>3. CASE UpdateWrite(p)
    <3>1. Goto(p, "updateEnd") /\ listLock' = listLock
      BY <2>3 DEF UpdateWrite, locks
    <3> QED
      BY <3>1, GotoFrame DEF Updates
  <2>4. CASE UpdateEnd(p)
    BY <1>2, <2>4 DEF UpdateEnd, Updated, At, FrameOK, Frame, Updates
  <2> QED
    BY <2>1, <2>2, <2>3, <2>4
<1>5. \/ files' = files
      \/ todo # <<>> /\ files' = files \cup {Head(todo).id}
  BY <1>2 DEF UpdateCheck, UpdateRead, UpdateWrite, UpdateEnd, At, disk, FrameOK, Updates
<1>6. TodoTyped(todo)
  BY <1>2 DEF FrameOK
<1> HIDE DEF todo
<1>7. files \subseteq files' /\ files' \subseteq Ids
  BY <1>2, <1>5, <1>6, TodoFacts
<1>8. ASSUME ~ (UpdateCheck(p) /\ Return(p)) PROVE NoneLearnt
  <2>1. \A n \in DOMAIN todo : Known(todo[n].id)
    BY DEF Known, Works, todo
  <2>2. \A i \in files' : Known(i)
    BY <1>5, <1>6, <2>1, TodoParts DEF Known
  <2>3. \A n \in DOMAIN caller'[p].todo : Known(caller'[p].todo[n].id)
    <3>1. ASSUME todo # <<>>, NEW n \in DOMAIN Tail(todo) PROVE Known(Tail(todo)[n].id)
      <4>1. PICK m \in DOMAIN todo : todo[m] = Tail(todo)[n]
        BY <1>6, <3>1, TodoParts
      <4> QED
        BY <2>1, <4>1
    <3> QED
      BY <1>4, <1>8, <2>1, <3>1
  <2>4. \A i \in Works(p)' : Known(i)
    BY <1>4, <1>8, <2>3 DEF Works, Aiming, Updates
  <2> QED
    BY <1>1, <1>4, <1>8, <2>2, <2>4, KnownKept
<1> QED
  BY <1>1, <1>3, <1>4, <1>7, <1>8, PointUnique DEF UnderListLock, Deleting, Updates

LEMMA NextUnique ==
  ASSUME "delete" \notin Operations, TypeInv, UniqueInv, [Next]_vars
  PROVE  UniqueInv'
<1>1. ASSUME NEW p \in Callers, Step(p) PROVE UniqueInv'
  <2>1. CASE OutOfIds(p)
    BY <2>1, ReturnUnique DEF OutOfIds, disk
  <2>2. CASE DeleteScan(p) \/ DeleteUnlink(p) \/ DeleteRefs(p)
    <3>1. caller[p].pc \in Deleting
      BY <2>2 DEF DeleteScan, DeleteUnlink, DeleteRefs, At, Deleting
    <3> QED
      BY <3>1 DEF UniqueInv, Orderly, Locking
  <2> QED
    BY <1>1, <2>1, <2>2, LockListUnique, LockUnique, CreateScanUnique, CreateWriteUnique,
       CreateEndUnique, ResetCheckUnique, ResetScanUnique, ResetMarkUnique, ResetListUnique,
       ResetUnlinkUnique, MarkWriteUnique, MarkEndUnique, ClaimsUnique, UpdatesUnique
       DEF Step
<1>2. ASSUME NEW p \in Callers, Crash(p) \/ LockStale(p) PROVE UniqueInv'
  BY <1>2, LockUnique
<1>3. CASE UNCHANGED vars
  <2>1. UNCHANGED <<caller, files, mark, markWriter, listLock, allocated>>
    BY <1>3 DEF vars, disk, locks
  <2>2. HighestFile' = HighestFile /\ MarkRead' = MarkRead
    BY <2>1 DEF HighestFile, MarkRead
  <2>3. \A i \in Ids : Known(i)' <=> Known(i)
    BY <2>1 DEF Known, Works
  <2>4. UniqueIds' /\ Recorded'
    BY <2>1, <2>2, <2>3 DEF UniqueInv, UniqueIds, Recorded
  <2>5. ASSUME NEW p \in Callers PROVE Orderly(p)'
    <3>1. Orderly(p)
      BY DEF UniqueInv
    <3>2. Creation(p)'
      BY <2>1, <2>2, <2>3, <3>1 DEF Orderly, Creation, Found
    <3>3. Resetting(p)'
      BY <2>1, <2>2, <2>3, <3>1 DEF Orderly, Resetting
    <3>4. Locking(p)'
      BY <2>1, <3>1 DEF Orderly, Locking
    <3> QED
      BY <3>2, <3>3, <3>4 DEF Orderly
  <2> QED
    BY <2>4, <2>5 DEF UniqueInv
<1> QED
  BY <1>1, <1>2, <1>3, CallsUnique DEF Next, Quiet

LEMMA InitUnique == Init => UniqueInv
<1> SUFFICES ASSUME Init PROVE UniqueInv
  OBVIOUS
<1>1. /\ files \subseteq Ids /\ allocated = [i \in Ids |-> IF i \in files THEN 1 ELSE 0]
      /\ \A p \in Callers : caller[p].pc = "idle" /\ caller[p].seen = {} /\ caller[p].todo = <<>>
  BY ConstantsAssumption DEF Init
<1>2. \A i \in files : i <= HighestFile
  BY <1>1, HighestOf DEF HighestFile
<1>3. UniqueIds /\ Recorded
  <2>1. \A i \in Ids : Known(i) => i \in files
    BY <1>1 DEF Known, Works, Aiming
  <2> QED
    BY <1>1, <1>2, <2>1 DEF UniqueIds, Recorded
<1>4. \A p \in Callers : Orderly(p)
  BY <1>1 DEF Orderly, Creation, Resetting, Locking, UnderListLock, Deleting
<1> QED
  BY <1>3, <1>4 DEF UniqueInv

(* "Creates a new task with a unique ID": no id is given to two tasks,     *)
(* whatever creations and resets (clearing a list, hiding a finished one), *)
(* claims, updates and crashes interleave, as long as no caller deletes a  *)
(* task: deleteTask takes no lock on the list.                             *)
THEOREM Unique ==
  ASSUME "delete" \notin Operations
  PROVE  Spec => []UniqueIds
<1>1. Init => TypeInv /\ UniqueInv
  BY InitTyped, InitUnique
<1>2. TypeInv /\ UniqueInv /\ [Next]_vars => (TypeInv /\ UniqueInv)'
  BY NextTyped, NextUnique
<1>3. UniqueInv => UniqueIds
  BY DEF UniqueInv
<1> QED
  BY <1>1, <1>2, <1>3, PTL DEF Spec

------------------------------------------------------------------------------
(* Updates are atomic as long as tasks are only created, or only deleted:    *)
(* then a task that is being created is in nobody else's hands.              *)

Creating == {"createLock", "createScan", "createWrite", "createEnd"}

(* Who is about to write has read what is there. *)
Exact(p) == caller[p].pc \in Writing => task[Target(p)] = caller[p].read

(* Who fills a new file is the only one to write it. *)
Sole(p) ==
  caller[p].pc = "createEnd" =>
    /\ writer[caller[p].id] = p
    /\ \A q \in Callers : caller[q].pc \in Writing => Target(q) # caller[p].id

AInv ==
  /\ TypeInv /\ IInv
  /\ \A p \in Callers : Exact(p) /\ Sole(p)
  /\ IF "create" \in Operations THEN UniqueInv
     ELSE \A p \in Callers : caller[p].pc \notin Creating

Moving(p) == Calls(p) \/ Step(p) \/ Crash(p) \/ LockStale(p)

(* The steps that touch a task's file.                                       *)
Touching(p) ==
  \/ CreateWrite(p) \/ CreateEnd(p) \/ ResetUnlink(p) \/ DeleteUnlink(p)
  \/ UpdateWrite(p) \/ UpdateEnd(p)

LEMMA Untouched ==
  ASSUME NEW p \in Callers, Moving(p), ~ Touching(p)
  PROVE  UNCHANGED <<task, writer>>
<1>1. Calls(p) => UNCHANGED <<task, writer>>
  BY DEF disk, Calls, Begin, CallCreate, CallReset, CallHideTimer, CallDelete, CallClaim,
     CallUpdate, CallStart, CallBlock, CallUnassign
<1>2. \/ LockList(p) \/ LockTask(p) \/ LockFails(p) \/ CreateScan(p) \/ OutOfIds(p)
      \/ ResetCheck(p) \/ ResetScan(p) \/ ResetMark(p) \/ ResetList(p)
      \/ MarkWrite(p) \/ MarkEnd(p) \/ DeleteScan(p) \/ DeleteRefs(p)
      => UNCHANGED <<task, writer>>
  BY DEF disk, LockList, LockTask, LockFails, CreateScan, OutOfIds, ResetCheck, ResetScan,
     ResetMark, ResetList, MarkWrite, MarkEnd, DeleteScan, DeleteRefs
<1>3. \/ ClaimRead(p) \/ ClaimList(p) \/ BusyRead(p) \/ UpdateCheck(p) \/ UpdateRead(p)
      \/ Crash(p) \/ LockStale(p)
      => UNCHANGED <<task, writer>>
  BY DEF disk, ClaimRead, ClaimList, BusyRead, UpdateCheck, UpdateRead, Crash, LockStale
<1> QED
  BY <1>1, <1>2, <1>3 DEF Moving, Touching, Step

(* Which steps lead to a write. *)
LEMMA NewPoint ==
  ASSUME IInv, NEW p \in Callers, Moving(p)
  PROVE  /\ caller'[p].pc \in Writing => UpdateRead(p) \/ UpdateWrite(p)
         /\ caller'[p].pc = "createEnd" => CreateWrite(p)
<1> DEFINE Others == {"createLock", "createScan", "createWrite", "idle", "resetCheck",
                      "resetLock", "resetScan", "resetMark", "resetList", "resetUnlink",
                      "deleteScan", "markWrite", "markEnd", "deleteUnlink", "deleteRefs",
                      "claimLock", "claimRead", "claimList", "busyLock", "busyRead",
                      "updateCheck", "updateLock", "updateRead", "crashed"}
<1>1. DOMAIN caller = Callers /\ DOMAIN caller[p] = Frame
  BY DEF IInv, Shape
<1>2. ASSUME NEW point \in Others, Goto(p, point) PROVE caller'[p].pc \in Others
  BY <1>1, <1>2 DEF Goto, Frame
<1>3. ASSUME Return(p) PROVE caller'[p].pc \in Others
  BY <1>1, <1>3 DEF Return, Frame
<1>4. ASSUME NEW point \in Others, NEW i, NEW todo, Started(p, point, i, todo)
      PROVE  caller'[p].pc \in Others
  BY <1>1, <1>4 DEF Started, Frame
<1>5. ASSUME Calls(p) PROVE caller'[p].pc \in Others
  BY <1>4, <1>5 DEF Calls, CallCreate, CallReset, CallHideTimer, CallDelete, CallClaim,
     CallUpdate, CallStart, CallBlock, CallUnassign
<1>6. ASSUME LockList(p) \/ LockTask(p) \/ LockFails(p) \/ OutOfIds(p) \/ ResetCheck(p)
             \/ ResetMark(p) \/ MarkWrite(p) \/ MarkEnd(p) \/ DeleteUnlink(p) \/ Crash(p)
             \/ CreateEnd(p)
      PROVE  caller'[p].pc \in Others
  BY <1>2, <1>3, <1>6 DEF LockList, LockTask, LockFails, OutOfIds, ResetCheck, ResetMark,
     MarkWrite, MarkEnd, DeleteUnlink, Crash, CreateEnd
<1>7. ASSUME CreateScan(p) \/ ResetScan(p) \/ ResetList(p) \/ DeleteScan(p) \/ DeleteRefs(p)
             \/ LockStale(p)
      PROVE  caller'[p].pc \in Others
  <2>1. CASE CreateScan(p) \/ ResetScan(p) \/ ResetList(p) \/ DeleteScan(p)
    BY <1>1, <2>1, ScanFrame DEF ResetScan, ResetList, DeleteScan, Frame
  <2>2. CASE DeleteRefs(p)
    <3>1. \E todo : caller' = [caller EXCEPT ![p].pc = "updateCheck", ![p].todo = todo]
      BY <2>2 DEF DeleteRefs
    <3> QED
      BY <1>1, <3>1 DEF Frame
  <2>3. CASE LockStale(p)
    BY <2>3 DEF LockStale, At
  <2> QED
    BY <1>7, <2>1, <2>2, <2>3
<1>8. ASSUME ResetUnlink(p) \/ ClaimRead(p) \/ ClaimList(p) \/ BusyRead(p)
      PROVE  caller'[p].pc \in Others
  BY <1>1, <1>3, <1>8 DEF ResetUnlink, ClaimRead, ClaimList, BusyRead, At, Frame
<1>9. ASSUME UpdateCheck(p) \/ UpdateEnd(p)
      PROVE  caller'[p].pc \in Others
  BY <1>1, <1>3, <1>9 DEF UpdateCheck, UpdateEnd, Updated, At, Frame
<1>10. \A point \in Others : point \notin Writing /\ point # "createEnd"
  BY DEF Writing
<1>11. UpdateRead(p) \/ UpdateWrite(p) => caller'[p].pc # "createEnd"
  BY <1>1 DEF UpdateRead, UpdateWrite, Updated, Goto, Frame
<1>12. CreateWrite(p) => caller'[p].pc \notin Writing
  BY <1>1 DEF CreateWrite, Frame, Writing
<1> HIDE DEF Others
<1> QED
  BY <1>5, <1>6, <1>7, <1>8, <1>9, <1>10, <1>11, <1>12 DEF Moving, Step

(* A new file is in nobody's hands. *)
LEMMA NewFile ==
  ASSUME AInv, NEW p \in Callers, CreateWrite(p), NEW q \in Callers, caller[q].pc \in Writing
  PROVE  Target(q) # caller[p].high + 1
<1>1. UniqueInv
  BY DEF AInv, CreateWrite, At, Creating
<1>2. ~ Known(caller[p].high + 1)
  BY <1>1, CreateWriteUnique DEF AInv
<1>3. TodoTyped(caller[q].todo) /\ caller[q].todo # <<>>
  BY DEF AInv, TypeInv, Frames, FrameOK, Writing, Updates
<1>4. Target(q) \in Works(q)
  BY <1>3, TodoParts DEF Target, Works
<1> QED
  BY <1>2, <1>4 DEF Known

(* What the others are about to write stays what they read.                  *)
LEMMA OthersExact ==
  ASSUME AInv, NEW p \in Callers, Moving(p), NEW q \in Callers \ {p}, caller[q].pc \in Writing
  PROVE  task'[Target(q)] = task[Target(q)]
<1>1. /\ Target(q) \in Ids /\ taskLock[Target(q)] = q
      /\ DOMAIN task = Ids
  BY DEF AInv, IInv, Shape, Holds, Writing, Updating
<1>2. CASE UpdateEnd(p)
  <2>1. taskLock[Target(p)] = p
    BY <1>2 DEF UpdateEnd, At, AInv, IInv, Holds, Updating
  <2> QED
    BY <1>1, <1>2, <2>1 DEF UpdateEnd, Target
<1>3. CASE CreateEnd(p)
  <2>1. Target(q) # caller[p].id
    BY <1>3 DEF CreateEnd, At, AInv, Sole
  <2> QED
    BY <1>1, <1>3, <2>1 DEF CreateEnd
<1>4. CASE ~ UpdateEnd(p) /\ ~ CreateEnd(p)
  BY <1>4, Untouched DEF Touching, CreateWrite, ResetUnlink, DeleteUnlink, UpdateWrite, Unlink, disk
<1> QED
  BY <1>2, <1>3, <1>4

LEMMA ExactInv ==
  ASSUME AInv, NEW p \in Callers, Moving(p), Steps(p)
  PROVE  \A q \in Callers : Exact(q)'
<1>1. ASSUME NEW q \in Callers \ {p} PROVE Exact(q)'
  <2>1. caller'[q] = caller[q] /\ Target(q)' = Target(q)
    BY DEF Steps, Moves, Target
  <2> QED
    BY <2>1, OthersExact DEF AInv, Exact
<1>2. Exact(p)'
  <2>1. DOMAIN caller = Callers /\ DOMAIN caller[p] = Frame
    BY DEF AInv, IInv, Shape
  <2>2. CASE UpdateRead(p)
    BY <2>1, <2>2 DEF UpdateRead, Updated, Exact, Target, Writing, Frame, disk
  <2>3. CASE UpdateWrite(p)
    <3>1. /\ caller[p].pc \in Writing /\ task' = task
          /\ caller'[p].todo = caller[p].todo /\ caller'[p].read = caller[p].read
      BY <2>1, <2>3 DEF UpdateWrite, At, Goto, Writing, Frame
    <3> QED
      BY <3>1 DEF AInv, Exact, Target
  <2>4. CASE ~ UpdateRead(p) /\ ~ UpdateWrite(p)
    BY <2>4, NewPoint DEF AInv, Exact
  <2> QED
    BY <2>2, <2>3, <2>4
<1> QED
  BY <1>1, <1>2

(* Nobody else touches the file that q creates.                              *)
LEMMA OthersSole ==
  ASSUME AInv, NEW p \in Callers, Moving(p), NEW q \in Callers \ {p}, caller[q].pc = "createEnd"
  PROVE  writer'[caller[q].id] = q
<1>1. /\ UniqueInv /\ listLock = q /\ writer[caller[q].id] = q
      /\ DOMAIN writer = Ids /\ caller[q].id \in Ids
  BY DEF AInv, Creating, Sole, UniqueInv, Orderly, Locking, UnderListLock,
     TypeInv, DiskTyped, Frames, FrameOK
<1>2. caller[p].pc \notin UnderListLock \cup Deleting
  BY <1>1 DEF UniqueInv, Orderly, Locking
<1>3. ~ CreateWrite(p) /\ ~ CreateEnd(p) /\ ~ ResetUnlink(p) /\ ~ DeleteUnlink(p)
  BY <1>2 DEF CreateWrite, CreateEnd, ResetUnlink, DeleteUnlink, At, UnderListLock, Deleting
<1>4. CASE UpdateWrite(p) \/ UpdateEnd(p)
  <2>1. Target(p) # caller[q].id
    BY <1>4 DEF UpdateWrite, UpdateEnd, At, Writing, AInv, Sole
  <2> QED
    BY <1>1, <1>4, <2>1 DEF UpdateWrite, UpdateEnd, Target
<1>5. CASE ~ UpdateWrite(p) /\ ~ UpdateEnd(p)
  BY <1>1, <1>3, <1>5, Untouched DEF Touching
<1> QED
  BY <1>4, <1>5

LEMMA SoleInv ==
  ASSUME AInv, NEW p \in Callers, Moving(p), Steps(p)
  PROVE  \A q \in Callers : Sole(q)'
<1>1. DOMAIN caller = Callers /\ DOMAIN caller[p] = Frame
  BY DEF AInv, IInv, Shape
<1>2. \A q \in Callers \ {p} : caller'[q] = caller[q] /\ Target(q)' = Target(q)
  BY DEF Steps, Moves, Target
<1>3. ASSUME NEW q \in Callers \ {p}, caller[q].pc = "createEnd" PROVE Sole(q)'
  <2>1. writer'[caller[q].id] = q /\ writer[caller[q].id] = q
    BY <1>3, OthersSole DEF AInv, Sole
  <2>2. \A r \in Callers \ {p} : caller'[r].pc \in Writing => Target(r)' # caller[q].id
    BY <1>2, <1>3 DEF AInv, Sole
  <2>3. ASSUME caller'[p].pc \in Writing PROVE Target(p)' # caller[q].id
    <3>1. CASE UpdateRead(p)
      <4>1. Readable(Target(p)) /\ Target(p)' = Target(p)
        BY <1>1, <2>3, <3>1 DEF UpdateRead, Updated, Target, Writing, Frame
      <4> QED
        BY <2>1, <4>1, ConstantsAssumption DEF Readable
    <3>2. CASE UpdateWrite(p)
      <4>1. caller[p].pc \in Writing /\ Target(p)' = Target(p)
        BY <1>1, <3>2 DEF UpdateWrite, At, Goto, Target, Writing, Frame
      <4> QED
        BY <1>3, <4>1 DEF AInv, Sole
    <3> QED
      BY <2>3, <3>1, <3>2, NewPoint DEF AInv
  <2> QED
    BY <1>2, <2>1, <2>2, <2>3 DEF Sole
<1>4. Sole(p)'
  <2> SUFFICES ASSUME caller'[p].pc = "createEnd" PROVE Sole(p)'
    BY DEF Sole
  <2>1. CreateWrite(p)
    BY NewPoint DEF AInv
  <2> DEFINE i == caller[p].high + 1
  <2>2. i \in Ids /\ caller'[p].id = i /\ writer' = [writer EXCEPT ![i] = p]
    BY <1>1, <2>1 DEF CreateWrite, Frame
  <2>3. writer'[i] = p
    BY <2>2 DEF AInv, TypeInv, DiskTyped
  <2>4. \A r \in Callers \ {p} : caller'[r].pc \in Writing => Target(r)' # i
    BY <1>2, <2>1, NewFile
  <2> HIDE DEF i
  <2> QED
    BY <2>2, <2>3, <2>4 DEF Sole, Writing
<1> QED
  BY <1>2, <1>3, <1>4 DEF Sole

(* As long as nothing is created. *)
LEMMA NoCreation ==
  ASSUME "create" \notin Operations, IInv, NEW p \in Callers, Moving(p),
         caller[p].pc \notin Creating
  PROVE  caller'[p].pc \notin Creating
<1>1. DOMAIN caller = Callers /\ DOMAIN caller[p] = Frame
  BY DEF IInv, Shape
<1>2. ASSUME NEW point, Goto(p, point) PROVE caller'[p].pc = point
  BY <1>1, <1>2 DEF Goto, Frame
<1>3. ASSUME Return(p) PROVE caller'[p].pc = "idle"
  BY <1>1, <1>3 DEF Return, Frame
<1>4. ASSUME NEW point, NEW i, NEW todo, Started(p, point, i, todo)
      PROVE  caller'[p].pc = point
  BY <1>1, <1>4 DEF Started, Frame
<1>5. ASSUME Calls(p) PROVE caller'[p].pc \notin Creating
  <2>1. ~ CallCreate(p)
    BY DEF CallCreate, Begin
  <2> QED
    BY <1>4, <1>5, <2>1 DEF Calls, CallReset, CallHideTimer, CallDelete, CallClaim,
       CallUpdate, CallStart, CallBlock, CallUnassign, Creating
<1>6. ASSUME LockList(p) \/ LockTask(p) \/ LockFails(p) \/ OutOfIds(p) \/ ResetCheck(p)
             \/ ResetMark(p) \/ MarkWrite(p) \/ MarkEnd(p) \/ DeleteUnlink(p) \/ Crash(p)
             \/ CreateEnd(p) \/ UpdateWrite(p)
      PROVE  caller'[p].pc \notin Creating
  BY <1>2, <1>3, <1>6 DEF LockList, LockTask, LockFails, OutOfIds, ResetCheck, ResetMark,
     MarkWrite, MarkEnd, DeleteUnlink, Crash, CreateEnd, UpdateWrite, At, Creating
<1>7. ASSUME ResetScan(p) \/ ResetList(p) \/ DeleteScan(p) \/ DeleteRefs(p) \/ LockStale(p)
      PROVE  caller'[p].pc \notin Creating
  <2>1. CASE ResetScan(p) \/ ResetList(p) \/ DeleteScan(p)
    BY <1>1, <2>1 DEF ResetScan, ResetList, DeleteScan, Frame, Creating
  <2>2. CASE DeleteRefs(p)
    <3>1. \E todo : caller' = [caller EXCEPT ![p].pc = "updateCheck", ![p].todo = todo]
      BY <2>2 DEF DeleteRefs
    <3> QED
      BY <1>1, <3>1 DEF Frame, Creating
  <2>3. CASE LockStale(p)
    BY <2>3 DEF LockStale
  <2> QED
    BY <1>7, <2>1, <2>2, <2>3
<1>8. ASSUME ResetUnlink(p) \/ ClaimRead(p) \/ ClaimList(p) \/ BusyRead(p)
      PROVE  caller'[p].pc \notin Creating
  BY <1>1, <1>3, <1>8 DEF ResetUnlink, ClaimRead, ClaimList, BusyRead, At, Frame, Creating
<1>9. ASSUME UpdateCheck(p) \/ UpdateRead(p) \/ UpdateEnd(p)
      PROVE  caller'[p].pc \notin Creating
  BY <1>1, <1>3, <1>9 DEF UpdateCheck, UpdateRead, UpdateEnd, Updated, At, Frame, Creating
<1>10. ~ CreateScan(p) /\ ~ CreateWrite(p)
  BY DEF CreateScan, CreateWrite, At, Creating
<1> QED
  BY <1>5, <1>6, <1>7, <1>8, <1>9, <1>10 DEF Moving, Step

LEMMA NextAtomic ==
  ASSUME "create" \notin Operations \/ "delete" \notin Operations, AInv, [Next]_vars
  PROVE  AInv'
<1>1. TypeInv' /\ IInv'
  BY NextTyped, NextInv DEF AInv
<1>2. CASE UNCHANGED vars
  <2>1. UNCHANGED <<caller, task, writer>>
    BY <1>2 DEF vars, disk
  <2>2. \A p \in Callers : Exact(p)' /\ Sole(p)'
    BY <2>1 DEF AInv, Exact, Sole, Target
  <2>3. IF "create" \in Operations THEN UniqueInv'
        ELSE \A p \in Callers : caller'[p].pc \notin Creating
    BY <2>1, NextUnique DEF AInv
  <2> QED
    BY <1>1, <2>2, <2>3 DEF AInv
<1>3. ASSUME NEW p \in Callers, Moving(p) PROVE AInv'
  <2>1. Steps(p)
    BY <1>3, StepsInv DEF Moving, AInv
  <2>2. \A q \in Callers : Exact(q)' /\ Sole(q)'
    BY <1>3, <2>1, ExactInv, SoleInv
  <2>3. ASSUME "create" \notin Operations, NEW q \in Callers
        PROVE  caller'[q].pc \notin Creating
    <3>1. caller[q].pc \notin Creating
      BY <2>3 DEF AInv
    <3>2. CASE q = p
      BY <1>3, <2>3, <3>1, <3>2, NoCreation DEF AInv
    <3>3. CASE q # p
      BY <2>1, <3>1, <3>3 DEF Steps, Moves
    <3> QED
      BY <3>2, <3>3
  <2>4. "create" \in Operations => UniqueInv'
    BY NextUnique DEF AInv
  <2> QED
    BY <1>1, <2>2, <2>3, <2>4 DEF AInv
<1> QED
  BY <1>2, <1>3 DEF Next, Moving, Quiet

LEMMA InitAtomic == Init => AInv
<1> SUFFICES ASSUME Init PROVE AInv
  OBVIOUS
<1>1. \A p \in Callers : caller[p].pc = "idle"
  BY DEF Init
<1>2. TypeInv /\ IInv /\ UniqueInv
  BY InitTyped, InitInv, InitUnique
<1>3. \A p \in Callers : Exact(p) /\ Sole(p) /\ caller[p].pc \notin Creating
  BY <1>1 DEF Exact, Sole, Writing, Creating
<1> QED
  BY <1>2, <1>3 DEF AInv

(* Agents that create or delete tasks, claim, update, unassign, block and  *)
(* reset, and die at any point, never write a task they merged from stale  *)
(* content.  Where tasks are both created and deleted an id may be given   *)
(* out twice, and a creation may overwrite an update.                      *)
THEOREM AtomicUpdates ==
  ASSUME "create" \notin Operations \/ "delete" \notin Operations
  PROVE  Spec => []NoLostUpdate
<1>1. Init => AInv
  BY InitAtomic
<1>2. AInv /\ [Next]_vars => AInv'
  BY NextAtomic
<1>3. AInv => NoLostUpdate
  BY DEF AInv, Exact, Writing, Target, NoLostUpdate, At
<1> QED
  BY <1>1, <1>2, <1>3, PTL DEF Spec
=============================================================================
