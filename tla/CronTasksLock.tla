--------------------------- MODULE CronTasksLock ----------------------------
(***************************************************************************)
(* The lease that elects the session whose scheduler fires the tasks of    *)
(* .claude/scheduled_tasks.json (utils/cronTasksLock.ts), as the scheduler *)
(* takes, probes and releases it (utils/cronScheduler.ts).                 *)
(*                                                                         *)
(* Every call on the file is a step of its own: sessions are processes.    *)
(* writeFile opens the file, which creates or empties it, and then writes, *)
(* so others can find it empty, and what it writes is lost when the file   *)
(* was unlinked meanwhile.  A session may die at any point and be resumed  *)
(* by a process of its own.  Attempts of one session do not overlap: they  *)
(* are five seconds apart.  Errors of the file system are left out, but    *)
(* for a missing directory, and so is the reuse of a process id.           *)
(***************************************************************************)
EXTENDS Naturals, FiniteSets

CONSTANTS
  Sessions,     \* session ids
  None,         \* no session
  Hidden,       \* sessions whose process the others cannot probe: it is another user's
                \* (EPERM), or the first of a container (process id 1)
  MaxProcesses  \* bound: processes per session

ASSUME ConstantsAssumption ==
  /\ IsFiniteSet(Sessions) /\ None \notin Sessions
  /\ Hidden \subseteq Sessions
  /\ MaxProcesses \in Nat

VARIABLES
  directory,\* whether the directory of the lock file exists
  lock,     \* the lock file: its inode, 0 when there is no file, and the lock it holds
  pid,      \* pid[s]: number of the last process of s
  running,  \* sessions whose process is alive
  stopped,  \* sessions whose scheduler was stopped
  isOwner,  \* sessions whose scheduler takes itself for the owner
  pc,       \* pc[s]: the step of tryAcquireSchedulerLock or releaseSchedulerLock to come
  handle,   \* handle[s]: the inode that s has open for writing, or 0
  robbed    \* whether a lock of a running process was removed or overwritten (history)

process == <<pid, running, stopped>>
vars == <<directory, lock, process, isOwner, pc, handle, robbed>>

(* Enough for a new file not to have the number of one that is still open. *)
Inodes == 1..Cardinality(Sessions) + 1

NoLock == [session |-> None, pid |-> 0]  \* an empty or corrupt file
NoFile == [inode |-> 0, holds |-> NoLock]

Init ==
  /\ directory \in BOOLEAN
  /\ lock = NoFile
  /\ pid = [s \in Sessions |-> 0]
  /\ running = {} /\ stopped = {} /\ isOwner = {}
  /\ pc = [s \in Sessions |-> "idle"]
  /\ handle = [s \in Sessions |-> 0]
  /\ robbed = FALSE

Goto(s, step) == pc' = [pc EXCEPT ![s] = step]

(* Whoever the file belongs to, while its process runs: the session whose  *)
(* lock it holds, or those that opened it to write theirs.                 *)
Belongs(s) ==
  /\ s \in running
  /\ \/ lock.holds = [session |-> s, pid |-> pid[s]]
     \/ handle[s] # 0 /\ handle[s] = lock.inode

Robs(s) == robbed' = (robbed \/ \E t \in Sessions \ {s} : Belongs(t))

------------------------------------------------------------------------------
(* tryAcquireSchedulerLock *)

(* The result reaches the scheduler: one that was stopped gives it back.   *)
Acquired(s) ==
  IF s \in stopped
  THEN Goto(s, "release") /\ UNCHANGED isOwner
  ELSE Goto(s, "idle") /\ isOwner' = isOwner \cup {s}

NotAcquired(s) == Goto(s, "idle") /\ UNCHANGED isOwner

(* tryCreateExclusive opens the file, if there is none. *)
Open(s, inode) ==
  /\ lock' = [inode |-> inode, holds |-> NoLock]
  /\ handle' = [handle EXCEPT ![s] = inode]
  /\ Goto(s, "write")

FreshInodes == Inodes \ ({lock.inode} \cup {handle[t] : t \in Sessions})

(* Mutant of TryCreateExclusive: flag 'w' instead of 'wx'. *)
TryCreate(s) ==
  /\ pc[s] \in {"create", "createAgain"} /\ directory
  /\ \/ /\ lock = NoFile
        /\ \E inode \in FreshInodes :
             /\ \A other \in FreshInodes : inode <= other
             /\ Open(s, inode)
     \/ lock # NoFile /\ Open(s, lock.inode)
  /\ UNCHANGED <<directory, process, isOwner, robbed>>

TryCreateExclusive(s) ==
  /\ pc[s] \in {"create", "createAgain"} /\ directory
  /\ \/ /\ lock = NoFile
        /\ \E inode \in FreshInodes :
             /\ \A other \in FreshInodes : inode <= other
             /\ Open(s, inode)
        /\ UNCHANGED isOwner
     \/ /\ lock # NoFile /\ pc[s] = "create"
        /\ Goto(s, "read")
        /\ UNCHANGED <<lock, isOwner, handle>>
     \/ /\ lock # NoFile /\ pc[s] = "createAgain"
        /\ NotAcquired(s)
        /\ UNCHANGED <<lock, handle>>
  /\ UNCHANGED <<directory, process, robbed>>

(* ENOENT: the directory is made, and the creation tried once more. *)
MakeDirectory(s) ==
  /\ \/ /\ pc[s] = "create" /\ ~directory
        /\ Goto(s, "mkdir")
        /\ UNCHANGED directory
     \/ /\ pc[s] = "mkdir"
        /\ directory' = TRUE
        /\ Goto(s, "create")
  /\ UNCHANGED <<lock, process, isOwner, handle, robbed>>

(* The second half of a writeFile. *)
Write(s) ==
  /\ pc[s] = "write"
  /\ lock' = IF lock.inode = handle[s]
             THEN [lock EXCEPT !.holds = [session |-> s, pid |-> pid[s]]]
             ELSE lock
  /\ handle' = [handle EXCEPT ![s] = 0]
  /\ Acquired(s)
  /\ UNCHANGED <<directory, process, robbed>>

(* isProcessRunning(existing.pid): a signal reaches the process.  One that *)
(* is not to be signalled counts as not running, and an empty lock belongs *)
(* to no process.                                                          *)
IsProcessRunning(holds) ==
  \E s \in running \ Hidden : holds = [session |-> s, pid |-> pid[s]]

(* Mutant of ReadLock: a corrupt lock blocks, like one that is held. *)
ReadLockBlocked(s) ==
  /\ pc[s] = "read"
  /\ \/ /\ lock.holds.session = s
        /\ Goto(s, "overwrite") /\ UNCHANGED isOwner
     \/ /\ lock.holds.session # s
        /\ lock.holds = NoLock \/ IsProcessRunning(lock.holds)
        /\ NotAcquired(s)
     \/ /\ lock.holds.session \notin {s, None} /\ ~IsProcessRunning(lock.holds)
        /\ Goto(s, "unlink") /\ UNCHANGED isOwner
  /\ UNCHANGED <<directory, lock, process, handle, robbed>>

(* readLock, and what is made of it: the lock of an earlier process of the *)
(* session is overwritten, that of another live process respected, and     *)
(* anything else unlinked.  A session does not find a lock of the process  *)
(* it is: it would be the owner already.                                   *)
ReadLock(s) ==
  /\ pc[s] = "read"
  /\ \/ /\ lock.holds.session = s
        /\ IF lock.holds.pid = pid[s]
           THEN Acquired(s)
           ELSE Goto(s, "overwrite") /\ UNCHANGED isOwner
     \/ /\ lock.holds.session # s /\ IsProcessRunning(lock.holds)
        /\ NotAcquired(s)
     \/ /\ lock.holds.session # s /\ ~IsProcessRunning(lock.holds)
        /\ Goto(s, "unlink") /\ UNCHANGED isOwner
  /\ UNCHANGED <<directory, lock, process, handle, robbed>>

(* The lock of the earlier process is overwritten: whatever is there now.  *)
Overwrite(s) ==
  /\ pc[s] = "overwrite"
  /\ \/ /\ lock # NoFile
        /\ Open(s, lock.inode)
        /\ Robs(s)
     \/ /\ lock = NoFile
        /\ \E inode \in FreshInodes :
             /\ \A other \in FreshInodes : inode <= other
             /\ Open(s, inode)
        /\ UNCHANGED robbed
  /\ UNCHANGED <<directory, process, isOwner>>

(* The lock that was found stale is unlinked: whatever is there now.       *)
Unlink(s) ==
  /\ pc[s] = "unlink"
  /\ lock' = NoFile
  /\ Robs(s)
  /\ Goto(s, "createAgain")
  /\ UNCHANGED <<directory, process, isOwner, handle>>

------------------------------------------------------------------------------
(* releaseSchedulerLock *)

ReleaseRead(s) ==
  /\ pc[s] = "release"
  /\ Goto(s, IF lock.holds.session = s THEN "releaseUnlink" ELSE "idle")
  /\ UNCHANGED <<directory, lock, process, isOwner, handle, robbed>>

ReleaseUnlink(s) ==
  /\ pc[s] = "releaseUnlink"
  /\ lock' = NoFile
  /\ Robs(s)
  /\ Goto(s, "idle")
  /\ UNCHANGED <<directory, process, isOwner, handle>>

------------------------------------------------------------------------------
(* The scheduler *)

(* A process starts its scheduler, for a new session or a resumed one.     *)
Start(s) ==
  /\ s \notin running /\ pid[s] < MaxProcesses
  /\ running' = running \cup {s}
  /\ pid' = [pid EXCEPT ![s] = @ + 1]
  /\ Goto(s, "create")
  /\ UNCHANGED <<directory, lock, stopped, isOwner, handle, robbed>>

Probing(s) == s \in running \ (stopped \cup isOwner)

(* The timer of a session that does not own the lock. *)
Probe(s) ==
  /\ Probing(s) /\ pc[s] = "idle"
  /\ Goto(s, "create")
  /\ UNCHANGED <<directory, lock, process, isOwner, handle, robbed>>

(* stop, or the cleanup at the end of the process. *)
Stop(s) ==
  /\ s \in running \ stopped
  /\ stopped' = stopped \cup {s}
  /\ isOwner' = isOwner \ {s}
  /\ IF s \in isOwner THEN Goto(s, "release") ELSE UNCHANGED pc
  /\ UNCHANGED <<directory, lock, pid, running, handle, robbed>>

(* The process is gone, whatever it was doing. *)
Die(s) ==
  /\ s \in running
  /\ running' = running \ {s}
  /\ stopped' = stopped \ {s}
  /\ isOwner' = isOwner \ {s}
  /\ handle' = [handle EXCEPT ![s] = 0]
  /\ Goto(s, "idle")
  /\ UNCHANGED <<directory, lock, pid, robbed>>

Step(s) ==
  \/ TryCreateExclusive(s) \/ MakeDirectory(s)
  \/ Write(s) \/ ReadLock(s) \/ Overwrite(s) \/ Unlink(s)
  \/ ReleaseRead(s) \/ ReleaseUnlink(s)
  \/ Probe(s)

Next == \E s \in Sessions : Step(s) \/ Start(s) \/ Stop(s) \/ Die(s)

Spec == Init /\ [][Next]_vars

(* Calls on the file return, and the timer goes off. *)
FairSpec == Spec /\ \A s \in Sessions : WF_vars(Step(s))

------------------------------------------------------------------------------
(* Properties *)

Locks == [session : Sessions \cup {None}, pid : 0..MaxProcesses]

(* Every variable holds a value of its kind. *)
TypeOK ==
  /\ directory \in BOOLEAN
  /\ lock \in [inode : Inodes \cup {0}, holds : Locks]
  /\ pid \in [Sessions -> 0..MaxProcesses]
  /\ running \subseteq Sessions /\ stopped \subseteq running
  /\ isOwner \subseteq running \ stopped
  /\ pc \in [Sessions -> {"idle", "create", "mkdir", "write", "read", "overwrite", "unlink",
                          "createAgain", "release", "releaseUnlink"}]
  /\ handle \in [Sessions -> Inodes \cup {0}]
  /\ robbed \in BOOLEAN

(* Two schedulers fire the tasks of one project only if one of them was    *)
(* robbed: its file was unlinked or overwritten, on the strength of an     *)
(* earlier look at it, while its process was running.                      *)
OneOwnerUnlessRobbed ==
  ~robbed => \A s, t \in isOwner : s = t

(* As long as a session probes, the project gets an owner: an owner that   *)
(* died, at whatever point, blocks nobody ("If the owner dies (PID no      *)
(* longer running), a passive session takes over").                        *)
SomeoneOwns == \A s \in Sessions : Probing(s) ~> isOwner # {} \/ ~Probing(s)

(* "If two sessions race to recover a stale lock, only one create          *)
(* succeeds."                                                              *)
OneOwner == \A s, t \in isOwner : s = t

(* "we won't steal a live lock" (isProcessRunning, of another user's       *)
(* processes): nobody sets out to unlink the lock of a process that is     *)
(* running when the lock is read.                                          *)
LiveLocksStay ==
  [][\A s, t \in Sessions :
       pc[s] = "read" /\ pc'[s] = "unlink" /\ t \in running
         => lock.holds # [session |-> t, pid |-> pid[t]]]_vars
=============================================================================
