------------------------------ MODULE TaskList ------------------------------
(***************************************************************************)
(* The task list that the agents of a swarm share through the file system  *)
(* (utils/tasks.ts): one file per task, a high water mark file, a lock on  *)
(* the list and one lock per task file.                                    *)
(*                                                                         *)
(* A caller is one call in progress: calls of several processes, and the   *)
(* concurrent tool calls of one process, interleave between any two file   *)
(* operations.  writeFile truncates the file and fills it later, so a      *)
(* reader without the lock may find it torn.  A listing (readdir and the   *)
(* readFiles it starts together) is one step.                              *)
(***************************************************************************)
EXTENDS Naturals, Sequences, FiniteSets, FiniteSetsExt

CONSTANTS
  Callers,       \* concurrent calls
  Agents,        \* names that may own a task
  None,          \* no owner, no holder
  MaxId,         \* bound: largest task id
  MaxCalls,      \* bound: calls made by one caller
  MaxCrashes,    \* bound: callers killed in mid call
  GivesUp,       \* whether lockfile.lock may run out of retries
  InitialTasks,  \* the tasks earlier calls left: a function from ids
  Operations,    \* the operations the callers use
  Changes        \* what the callers of updateTask may ask for

Ids == 1..MaxId
Statuses == {"pending", "in_progress", "completed"}
Tasks == [status: Statuses, owner: Agents \cup {None},
          blocks: SUBSET Ids, blockedBy: SUBSET Ids]
Fields == {"status", "owner", "blocks", "blockedBy"}
NewTask == [status |-> "pending", owner |-> None, blocks |-> {}, blockedBy |-> {}]

(* A change gives some of the fields of a task. *)
Merge(t, change) == [f \in Fields |-> IF f \in DOMAIN change THEN change[f] ELSE t[f]]

ASSUME ConstantsAssumption ==
  /\ None \notin Agents /\ None \notin Callers
  /\ MaxId \in Nat \ {0} /\ MaxCalls \in Nat /\ MaxCrashes \in Nat
  /\ GivesUp \in BOOLEAN
  /\ DOMAIN InitialTasks \subseteq Ids
  /\ \A i \in DOMAIN InitialTasks : InitialTasks[i] \in Tasks
  /\ \A c \in Changes : DOMAIN c \subseteq Fields /\ Merge(NewTask, c) \in Tasks

VARIABLES
  files,      \* ids whose task file exists
  writer,     \* writer[i]: the caller between truncating file i and filling it
  task,       \* task[i]: what file i holds, or held before it was truncated
  mark,       \* .highwatermark
  markWriter, \* the caller in the middle of writing it
  listLock,   \* holder of the lock on .lock
  taskLock,   \* taskLock[i]: holder of the lock on file i
  caller,     \* the state of each call, a frame
  allocated,  \* how often createTask returned each id (history)
  crashes

disk == <<files, writer, task, mark, markWriter>>
locks == <<listLock, taskLock>>
vars == <<disk, locks, caller, allocated, crashes>>

(* A frame.  pc: the next step.  agent: on whose behalf.  id: the task of the call.  *)
(* read: the task as last read.  todo: the updateTask calls left to make.  *)
(* batch: ids to unlink.  high: highest id found.  seen: which of the two  *)
(* reads of findHighestTaskId are done.                                    *)
Points == {"idle", "createLock", "createScan", "createWrite", "createEnd",
           "resetCheck", "resetLock", "resetScan", "resetMark", "resetList", "resetUnlink",
           "deleteScan", "markWrite", "markEnd", "deleteUnlink", "deleteRefs",
           "claimLock", "claimRead", "claimList", "busyLock", "busyRead",
           "updateCheck", "updateLock", "updateRead", "updateWrite", "updateEnd",
           "crashed"}

------------------------------------------------------------------------------
(* Reading the disk *)

(* getTask returns a task: the file exists and parses. *)
Readable(i) == i \in files /\ writer[i] = None
ListTasks == {i \in Ids : Readable(i)}
HighestFile == Max(files \cup {0})
MarkRead == IF markWriter = None THEN mark ELSE 0
Open(i) == task[i].status # "completed"
OpenBlockers(t) == {b \in t.blockedBy : b \in ListTasks /\ Open(b)}

At(p, point) == caller[p].pc = point
Goto(p, point) == caller' = [caller EXCEPT ![p].pc = point]

(* The call returns or throws: finally releases what it holds. *)
Return(p) ==
  /\ caller' = [caller EXCEPT ![p].pc = "idle", ![p].todo = <<>>, ![p].batch = {},
                              ![p].seen = {}, ![p].high = 0, ![p].read = NewTask]
  /\ listLock' = IF listLock = p THEN None ELSE listLock
  /\ taskLock' = [i \in Ids |-> IF taskLock[i] = p THEN None ELSE taskLock[i]]

Update(i, change) == [id |-> i, change |-> change]

------------------------------------------------------------------------------
Init ==
  /\ files = DOMAIN InitialTasks
  /\ writer = [i \in Ids |-> None]
  /\ task = [i \in Ids |-> IF i \in files THEN InitialTasks[i] ELSE NewTask]
  /\ mark = 0
  /\ markWriter = None
  /\ listLock = None
  /\ taskLock = [i \in Ids |-> None]
  /\ \E agent \in [Callers -> Agents] :
       caller = [p \in Callers |->
                   [pc |-> "idle", agent |-> agent[p], id |-> 1, read |-> NewTask,
                    todo |-> <<>>, batch |-> {}, high |-> 0, seen |-> {}, calls |-> 0]]
  /\ allocated = [i \in Ids |-> IF i \in files THEN 1 ELSE 0]
  /\ crashes = 0

------------------------------------------------------------------------------
(* Calls begin *)

Begin(p, operation) ==
  /\ At(p, "idle")
  /\ caller[p].calls < MaxCalls
  /\ operation \in Operations
  /\ UNCHANGED <<disk, locks, allocated, crashes>>

Started(p, point, i, todo) ==
  caller' = [caller EXCEPT ![p].pc = point, ![p].id = i, ![p].todo = todo,
                           ![p].calls = @ + 1]

CallCreate(p) == Begin(p, "create") /\ Started(p, "createLock", 1, <<>>)
CallReset(p) == Begin(p, "reset") /\ Started(p, "resetLock", 1, <<>>)
CallHideTimer(p) == Begin(p, "hideTimer") /\ Started(p, "resetCheck", 1, <<>>)
CallDelete(p, i) == Begin(p, "delete") /\ Started(p, "deleteScan", i, <<>>)

(* claimTask and claimTaskWithBusyCheck: the task exists before the lock.  *)
CallClaim(p, i) ==
  /\ Readable(i)
  /\ \/ Begin(p, "claim") /\ Started(p, "claimLock", i, <<>>)
     \/ Begin(p, "busyClaim") /\ Started(p, "busyLock", i, <<>>)

CallUpdate(p, i) ==
  /\ Begin(p, "update")
  /\ \E change \in Changes : Started(p, "updateCheck", i, <<Update(i, change)>>)

(* TaskUpdateTool with status in_progress: the owner is set too when the   *)
(* task it has just read has none.                                         *)
CallStart(p, i) ==
  /\ Begin(p, "start")
  /\ Readable(i)
  /\ task[i].status # "in_progress" \/ task[i].owner = None
  /\ Started(p, "updateCheck", i,
       <<Update(i, IF task[i].owner # None THEN [status |-> "in_progress"]
                   ELSE IF task[i].status = "in_progress" THEN [owner |-> caller[p].agent]
                   ELSE [status |-> "in_progress", owner |-> caller[p].agent])>>)

(* blockTask reads both tasks, then updates each from what it read.        *)
CallBlock(p, i, j) ==
  /\ Begin(p, "block")
  /\ i # j /\ Readable(i) /\ Readable(j)
  /\ LET half(k, has, change) == IF has THEN <<>> ELSE <<Update(k, change)>>
     IN  Started(p, "updateCheck", i,
           half(i, j \in task[i].blocks, [blocks |-> task[i].blocks \cup {j}])
           \o half(j, i \in task[j].blockedBy, [blockedBy |-> task[j].blockedBy \cup {i}]))

(* Mutant of CallUnassign: the status is "open", as old task files had it. *)
CallUnassignOpen(p, a) ==
  /\ Begin(p, "unassign")
  /\ \E i \in ListTasks :
       /\ Open(i) /\ task[i].owner = a
       /\ Started(p, "updateCheck", 1, <<Update(i, [owner |-> None, status |-> "open"])>>)

(* unassignTeammateTasks lists the open tasks of the teammate and updates  *)
(* them one after the other, whatever became of them meanwhile.            *)
CallUnassign(p, a) ==
  /\ Begin(p, "unassign")
  /\ LET mine == {i \in ListTasks : Open(i) /\ task[i].owner = a}
     IN  \E order \in [1..Cardinality(mine) -> mine] :
           /\ \A i \in mine : \E n \in DOMAIN order : order[n] = i
           /\ Started(p, "updateCheck", 1,
                [n \in DOMAIN order |->
                   Update(order[n], [owner |-> None, status |-> "pending"])])

------------------------------------------------------------------------------
(* Locks *)

LockList(p) ==
  /\ listLock = None
  /\ \/ At(p, "createLock") /\ Goto(p, "createScan")
     \/ At(p, "resetLock") /\ Goto(p, "resetScan")
     \/ At(p, "busyLock") /\ Goto(p, "busyRead")
  /\ listLock' = p
  /\ UNCHANGED <<disk, taskLock, allocated, crashes>>

WaitsForTask(p) ==
  IF At(p, "claimLock") THEN {caller[p].id}
  ELSE IF At(p, "updateLock") THEN {Head(caller[p].todo).id} ELSE {}

LockTask(p) ==
  /\ \E i \in WaitsForTask(p) :
       /\ i \in files /\ taskLock[i] = None
       /\ taskLock' = [taskLock EXCEPT ![i] = p]
  /\ Goto(p, IF At(p, "claimLock") THEN "claimRead" ELSE "updateRead")
  /\ UNCHANGED <<disk, listLock, allocated, crashes>>

(* lock() throws: the file is gone, or the retries ran out.                *)
LockFails(p) ==
  /\ \/ \E i \in WaitsForTask(p) : i \notin files \/ (GivesUp /\ taskLock[i] # None)
     \/ /\ GivesUp /\ listLock # None
        /\ At(p, "createLock") \/ At(p, "resetLock") \/ At(p, "busyLock")
  /\ Return(p)
  /\ UNCHANGED <<disk, allocated, crashes>>

------------------------------------------------------------------------------
(* createTask *)

(* findHighestTaskId starts both reads together; either may come first.    *)
CreateScan(p) ==
  /\ At(p, "createScan")
  /\ \E source \in {"files", "mark"} \ caller[p].seen :
       LET found == IF source = "files" THEN HighestFile ELSE MarkRead
       IN  caller' = [caller EXCEPT
             ![p].high = Max({@, found}),
             ![p].seen = @ \cup {source},
             ![p].pc = IF caller[p].seen = {} THEN "createScan" ELSE "createWrite"]
  /\ UNCHANGED <<disk, locks, allocated, crashes>>

CreateWrite(p) ==
  /\ At(p, "createWrite")
  /\ LET i == caller[p].high + 1
     IN  /\ i \in Ids
         /\ files' = files \cup {i}
         /\ writer' = [writer EXCEPT ![i] = p]
         /\ caller' = [caller EXCEPT ![p].pc = "createEnd", ![p].id = i]
  /\ UNCHANGED <<task, mark, markWriter, locks, allocated, crashes>>

CreateEnd(p) ==
  /\ At(p, "createEnd")
  /\ LET i == caller[p].id
     IN  /\ IF writer[i] = p
              THEN /\ task' = [task EXCEPT ![i] = NewTask]
                   /\ writer' = [writer EXCEPT ![i] = None]
              ELSE UNCHANGED <<task, writer>>
         /\ allocated' = [allocated EXCEPT ![i] = @ + 1]
  /\ Return(p)
  /\ UNCHANGED <<files, mark, markWriter, crashes>>

(* The bound on ids: such a call has no effect in the model. *)
OutOfIds(p) ==
  /\ At(p, "createWrite")
  /\ caller[p].high + 1 \notin Ids
  /\ Return(p)
  /\ UNCHANGED <<disk, allocated, crashes>>

------------------------------------------------------------------------------
(* The high water mark, deleteTask, resetTaskList *)

(* resetTaskList under the list lock: the highest id of a file is kept in  *)
(* the mark, then the files are listed again and unlinked.                 *)
ResetScan(p) ==
  /\ At(p, "resetScan")
  /\ caller' = [caller EXCEPT ![p].high = HighestFile,
       ![p].pc = IF HighestFile > 0 THEN "resetMark" ELSE "resetList"]
  /\ UNCHANGED <<disk, locks, allocated, crashes>>

(* Mutant of ResetMark: the mark is left as it is. *)
ResetMarkSkipped(p) ==
  /\ At(p, "resetMark")
  /\ Goto(p, "resetList")
  /\ UNCHANGED <<disk, locks, allocated, crashes>>

ResetMark(p) ==
  /\ At(p, "resetMark")
  /\ Goto(p, IF caller[p].high > MarkRead THEN "markWrite" ELSE "resetList")
  /\ UNCHANGED <<disk, locks, allocated, crashes>>

ResetList(p) ==
  /\ At(p, "resetList")
  /\ caller' = [caller EXCEPT ![p].batch = files, ![p].pc = "resetUnlink"]
  /\ UNCHANGED <<disk, locks, allocated, crashes>>

(* deleteTask takes no lock. *)
DeleteScan(p) ==
  /\ At(p, "deleteScan")
  /\ caller' = [caller EXCEPT ![p].high = caller[p].id,
       ![p].pc = IF caller[p].id > MarkRead THEN "markWrite" ELSE "deleteUnlink"]
  /\ UNCHANGED <<disk, locks, allocated, crashes>>

MarkWrite(p) ==
  /\ At(p, "markWrite")
  /\ markWriter' = p
  /\ Goto(p, "markEnd")
  /\ UNCHANGED <<files, writer, task, mark, locks, allocated, crashes>>

MarkEnd(p) ==
  /\ At(p, "markEnd")
  /\ mark' = caller[p].high
  /\ markWriter' = None
  /\ Goto(p, IF listLock = p THEN "resetList" ELSE "deleteUnlink")
  /\ UNCHANGED <<files, writer, task, locks, allocated, crashes>>

Unlink(i) ==
  /\ files' = files \ {i}
  /\ writer' = [writer EXCEPT ![i] = None]
  /\ UNCHANGED <<task, mark, markWriter>>

ResetUnlink(p) ==
  /\ At(p, "resetUnlink")
  /\ \/ \E i \in caller[p].batch :
          /\ Unlink(i)
          /\ caller' = [caller EXCEPT ![p].batch = @ \ {i}]
          /\ UNCHANGED locks
     \/ caller[p].batch = {} /\ Return(p) /\ UNCHANGED disk
  /\ UNCHANGED <<allocated, crashes>>

DeleteUnlink(p) ==
  /\ At(p, "deleteUnlink")
  /\ IF caller[p].id \in files
       THEN Unlink(caller[p].id) /\ Goto(p, "deleteRefs") /\ UNCHANGED locks
       ELSE Return(p) /\ UNCHANGED disk
  /\ UNCHANGED <<allocated, crashes>>

(* References to the deleted task are removed from the tasks as listed.    *)
DeleteRefs(p) ==
  /\ At(p, "deleteRefs")
  /\ LET i == caller[p].id
         holders == {j \in ListTasks : i \in task[j].blocks \cup task[j].blockedBy}
     IN  \E order \in [1..Cardinality(holders) -> holders] :
           /\ \A j \in holders : \E n \in DOMAIN order : order[n] = j
           /\ caller' = [caller EXCEPT ![p].pc = "updateCheck",
                ![p].todo = [n \in DOMAIN order |->
                   Update(order[n], [blocks |-> task[order[n]].blocks \ {i},
                                     blockedBy |-> task[order[n]].blockedBy \ {i}])]]
  /\ UNCHANGED <<disk, locks, allocated, crashes>>

(* The timer that hides a finished list clears it if, as listed, every     *)
(* task is still completed.                                                *)
ResetCheck(p) ==
  /\ At(p, "resetCheck")
  /\ IF ListTasks # {} /\ \A i \in ListTasks : ~Open(i)
       THEN Goto(p, "resetLock") /\ UNCHANGED locks
       ELSE Return(p)
  /\ UNCHANGED <<disk, allocated, crashes>>

------------------------------------------------------------------------------
(* claimTask *)

Claimable(t, a) == t.owner \in {None, a} /\ t.status # "completed"

(* Mutant of ClaimRead: what was read before the lock decides. *)
ClaimReadTrusting(p) ==
  /\ At(p, "claimRead")
  /\ caller' = [caller EXCEPT ![p].read = task[caller[p].id], ![p].pc = "claimList"]
  /\ UNCHANGED <<disk, locks, allocated, crashes>>

ClaimRead(p) ==
  /\ At(p, "claimRead")
  /\ IF Readable(caller[p].id) /\ Claimable(task[caller[p].id], caller[p].agent)
       THEN /\ caller' = [caller EXCEPT ![p].read = task[caller[p].id],
                                        ![p].pc = "claimList"]
            /\ UNCHANGED locks
       ELSE Return(p)
  /\ UNCHANGED <<disk, allocated, crashes>>

(* Holding the task's lock, the claim goes on in updateTaskUnsafe. *)
ClaimList(p) ==
  /\ At(p, "claimList")
  /\ IF OpenBlockers(caller[p].read) = {}
       THEN /\ caller' = [caller EXCEPT ![p].pc = "updateRead",
                 ![p].todo = <<Update(caller[p].id, [owner |-> caller[p].agent])>>]
            /\ UNCHANGED locks
       ELSE Return(p)
  /\ UNCHANGED <<disk, allocated, crashes>>

(* With the busy check everything is decided from one listing under the    *)
(* list lock, and the claim goes on in updateTask.                         *)
BusyRead(p) ==
  /\ At(p, "busyRead")
  /\ LET i == caller[p].id
         a == caller[p].agent
     IN  IF /\ Readable(i) /\ Claimable(task[i], a)
            /\ OpenBlockers(task[i]) = {}
            /\ \A j \in ListTasks \ {i} : Open(j) => task[j].owner # a
           THEN /\ caller' = [caller EXCEPT ![p].pc = "updateCheck",
                                 ![p].todo = <<Update(i, [owner |-> a])>>]
                /\ UNCHANGED locks
           ELSE Return(p)
  /\ UNCHANGED <<disk, allocated, crashes>>

------------------------------------------------------------------------------
(* updateTask, for each pending update of the call *)

(* Mutant of UpdateCheck: updateTaskUnsafe is called without the lock. *)
UpdateCheckUnlocked(p) ==
  /\ At(p, "updateCheck")
  /\ IF caller[p].todo = <<>> THEN Return(p)
     ELSE Goto(p, "updateRead") /\ UNCHANGED locks
  /\ UNCHANGED <<disk, allocated, crashes>>

(* Mutant of UpdateCheck: a task that is not there is looked for again.    *)
UpdateCheckRetrying(p) ==
  /\ At(p, "updateCheck")
  /\ LET todo == caller[p].todo
     IN  IF todo = <<>> THEN Return(p)
         ELSE Goto(p, IF Readable(Head(todo).id) THEN "updateLock" ELSE "updateCheck")
              /\ UNCHANGED locks
  /\ UNCHANGED <<disk, allocated, crashes>>

UpdateCheck(p) ==
  /\ At(p, "updateCheck")
  /\ LET todo == caller[p].todo
     IN  IF todo = <<>> THEN Return(p)
         ELSE /\ caller' = IF Readable(Head(todo).id)
                           THEN [caller EXCEPT ![p].pc = "updateLock"]
                           ELSE [caller EXCEPT ![p].todo = Tail(@)]
              /\ UNCHANGED locks
  /\ UNCHANGED <<disk, allocated, crashes>>

(* The end of one update: its lock is released and the next one begins.    *)
Updated(p, i) ==
  /\ taskLock' = [taskLock EXCEPT ![i] = None]
  /\ caller' = [caller EXCEPT ![p].pc = "updateCheck", ![p].todo = Tail(@)]
  /\ UNCHANGED listLock

(* updateTaskUnsafe: read, merge, write. *)
UpdateRead(p) ==
  /\ At(p, "updateRead")
  /\ LET i == Head(caller[p].todo).id
     IN  IF Readable(i)
           THEN /\ caller' = [caller EXCEPT ![p].read = task[i], ![p].pc = "updateWrite"]
                /\ UNCHANGED locks
           ELSE Updated(p, i)
  /\ UNCHANGED <<disk, allocated, crashes>>

UpdateWrite(p) ==
  /\ At(p, "updateWrite")
  /\ LET i == Head(caller[p].todo).id
     IN  /\ files' = files \cup {i}
         /\ writer' = [writer EXCEPT ![i] = p]
  /\ Goto(p, "updateEnd")
  /\ UNCHANGED <<task, mark, markWriter, locks, allocated, crashes>>

UpdateEnd(p) ==
  /\ At(p, "updateEnd")
  /\ LET next == Head(caller[p].todo)
     IN  /\ IF writer[next.id] = p
              THEN /\ task' = [task EXCEPT ![next.id] = Merge(caller[p].read, next.change)]
                   /\ writer' = [writer EXCEPT ![next.id] = None]
              ELSE UNCHANGED <<task, writer>>
         /\ Updated(p, next.id)
  /\ UNCHANGED <<files, mark, markWriter, allocated, crashes>>

------------------------------------------------------------------------------
(* A process is killed: its locks stay until they are stale. *)
Crash(p) ==
  /\ crashes < MaxCrashes
  /\ ~At(p, "idle") /\ ~At(p, "crashed")
  /\ crashes' = crashes + 1
  /\ Goto(p, "crashed")
  /\ UNCHANGED <<disk, locks, allocated>>

LockStale(p) ==
  /\ At(p, "crashed")
  /\ listLock = p \/ \E i \in Ids : taskLock[i] = p
  /\ listLock' = IF listLock = p THEN None ELSE listLock
  /\ taskLock' = [i \in Ids |-> IF taskLock[i] = p THEN None ELSE taskLock[i]]
  /\ UNCHANGED <<disk, caller, allocated, crashes>>

Calls(p) ==
  \/ CallCreate(p) \/ CallReset(p) \/ CallHideTimer(p)
  \/ \E i \in files : CallDelete(p, i) \/ CallClaim(p, i) \/ CallUpdate(p, i) \/ CallStart(p, i)
  \/ \E i, j \in files : CallBlock(p, i, j)
  \/ \E a \in Agents : CallUnassign(p, a)

Step(p) ==
  \/ LockList(p) \/ LockTask(p) \/ LockFails(p)
  \/ CreateScan(p) \/ CreateWrite(p) \/ CreateEnd(p) \/ OutOfIds(p)
  \/ ResetCheck(p) \/ ResetScan(p) \/ ResetMark(p) \/ ResetList(p) \/ ResetUnlink(p)
  \/ MarkWrite(p) \/ MarkEnd(p)
  \/ DeleteScan(p) \/ DeleteUnlink(p) \/ DeleteRefs(p)
  \/ ClaimRead(p) \/ ClaimList(p) \/ BusyRead(p)
  \/ UpdateCheck(p) \/ UpdateRead(p) \/ UpdateWrite(p) \/ UpdateEnd(p)

(* No call is in progress: the agents may never make another one. *)
AllQuiet == \A p \in Callers : At(p, "idle") \/ At(p, "crashed")
Quiet == AllQuiet /\ UNCHANGED vars

Next == \/ \E p \in Callers : Calls(p) \/ Step(p) \/ Crash(p) \/ LockStale(p)
        \/ Quiet

Spec == Init /\ [][Next]_vars

(* File operations end, so a call that can go on does; proper-lockfile     *)
(* takes over the lock of a process that no longer refreshes it.           *)
FairSpec == Spec /\ \A p \in Callers : WF_vars(Step(p)) /\ WF_vars(LockStale(p))
------------------------------------------------------------------------------
TypeOK ==
  /\ files \subseteq Ids
  /\ writer \in [Ids -> Callers \cup {None}]
  /\ task \in [Ids -> Tasks]
  /\ mark \in 0..MaxId
  /\ markWriter \in Callers \cup {None}
  /\ listLock \in Callers \cup {None}
  /\ taskLock \in [Ids -> Callers \cup {None}]
  /\ DOMAIN caller = Callers
  /\ \A p \in Callers :
       /\ caller[p].pc \in Points /\ caller[p].agent \in Agents
       /\ caller[p].id \in Ids /\ caller[p].read \in Tasks
       /\ caller[p].batch \subseteq Ids /\ caller[p].high \in 0..MaxId
       /\ caller[p].seen \subseteq {"files", "mark"} /\ caller[p].calls \in 0..MaxCalls
       /\ \A n \in DOMAIN caller[p].todo :
            /\ caller[p].todo[n].id \in Ids
            /\ Merge(NewTask, caller[p].todo[n].change) \in Tasks
  /\ allocated \in [Ids -> Nat]
  /\ crashes \in 0..MaxCrashes

(* Read-modify-write: what an update is about to write was merged into     *)
(* what the file holds now, whoever else updates or claims the task.       *)
NoLostUpdate ==
  \A p \in Callers :
    (At(p, "updateWrite") \/ At(p, "updateEnd")) =>
      LET i == Head(caller[p].todo).id
      IN  i \in files => task[i] = caller[p].read

(* A task that an agent claimed never passes to another agent, unless it   *)
(* was released first, whatever claims race for it ("Attempts to claim a   *)
(* task for an agent with file locking to prevent race conditions").       *)
ClaimExclusive ==
  [][\A i \in Ids : task[i].owner # None => task'[i].owner \in {task[i].owner, None}]_vars

(* "Creates a new task with a unique ID": no id is given to two tasks,     *)
(* also not after the first was deleted ("prevent ID reuse").              *)
UniqueIds == \A i \in Ids : allocated[i] <= 1

(* Every call returns, unless its process is killed: no order of lock      *)
(* acquisitions leaves callers waiting on one another, or on a dead one.   *)
CallsReturn == \A p \in Callers : ~At(p, "idle") ~> (At(p, "idle") \/ At(p, "crashed"))

------------------------------------------------------------------------------
(* What the comments promise and the code does not do *)

(* "task IDs this task blocks", "task IDs that block this task"            *)
(* (TaskSchema): the two ends of a dependency agree when no call is in     *)
(* progress.                                                               *)
EdgesAgree ==
  AllQuiet => \A i, j \in files : j \in task[i].blocks <=> i \in task[j].blockedBy
=============================================================================
