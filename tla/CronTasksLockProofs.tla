------------------------ MODULE CronTasksLockProofs -------------------------
(***************************************************************************)
(* Proofs about CronTasksLock, for every number of sessions and processes: *)
(* its typing, and that two owners presuppose a robbed one.                *)
(*                                                                         *)
(* As long as nobody was robbed, the lock file is where every claim on it  *)
(* can be seen: an owner's lock is in the file, and a session that is      *)
(* writing its lock has the file open, empty, and to itself.  So there is  *)
(* one claim at most.                                                      *)
(***************************************************************************)
EXTENDS CronTasksLock, FiniteSetTheorems, TLAPS

(* A step is under way only in a live process, and an owner makes none; a  *)
(* file has an inode.                                                      *)
Control ==
  /\ lock # NoFile => lock.inode # 0
  /\ \A s \in Sessions :
       /\ pc[s] # "idle" => s \in running
       /\ s \in isOwner => pc[s] = "idle"
       /\ pc[s] = "write" => handle[s] # 0

Claims ==
  ~robbed =>
    /\ \A s \in isOwner : lock.holds = [session |-> s, pid |-> pid[s]]
    /\ \A s \in Sessions :
         pc[s] = "write" => lock.inode = handle[s] /\ lock.holds = NoLock
    /\ \A s, t \in Sessions : pc[s] = "write" /\ pc[t] = "write" => s = t

IInv == TypeOK /\ Control /\ Claims

LEMMA InodesArePositive == \A inode \in Inodes : inode # 0
<1>1. Cardinality(Sessions) \in Nat
  BY FS_CardinalityType, ConstantsAssumption
<1> QED
  BY <1>1 DEF Inodes

LEMMA NoFileIsALock == NoFile \in [inode : Inodes \cup {0}, holds : Locks] /\ NoLock \in Locks
  BY ConstantsAssumption DEF NoFile, NoLock, Locks

(* The initial state. *)
LEMMA InitInv == Init => IInv
<1> SUFFICES ASSUME Init PROVE IInv
  OBVIOUS
<1>1. TypeOK
  <2>1. 0 \in 0..MaxProcesses
    BY ConstantsAssumption
  <2>2. pid \in [Sessions -> 0..MaxProcesses]
    BY <2>1 DEF Init
  <2>3. lock \in [inode : Inodes \cup {0}, holds : Locks]
    BY NoFileIsALock DEF Init
  <2> QED
    BY <2>2, <2>3 DEF Init, TypeOK
<1>2. Control
  BY DEF Init, Control
<1>3. Claims
  BY DEF Init, Claims
<1> QED
  BY <1>1, <1>2, <1>3 DEF IInv

------------------------------------------------------------------------------
(* Opening the file: created when there is none, or emptied. *)
LEMMA OpenInv ==
  ASSUME IInv, directory' \in BOOLEAN, NEW s \in Sessions, s \in running, NEW inode \in Inodes,
         pc[s] \notin {"idle", "write"},
         Open(s, inode), UNCHANGED <<process, isOwner>>,
         robbed' \in BOOLEAN, robbed => robbed',
         ~robbed' => \A t \in Sessions \ {s} : ~Belongs(t)
  PROVE  IInv'
<1> USE DEF Open, Goto, process
<1>1. TypeOK'
  BY NoFileIsALock DEF IInv, TypeOK
<1>2. Control'
  BY InodesArePositive DEF IInv, TypeOK, Control
<1>3. Claims'
  <2> SUFFICES ASSUME ~robbed' PROVE Claims'
    BY DEF Claims
  <2>1. ~robbed
    OBVIOUS
  <2>2. \A t \in isOwner : FALSE
    BY <2>1 DEF IInv, TypeOK, Control, Claims, Belongs
  <2>3. \A t \in Sessions \ {s} : pc[t] # "write"
    BY <2>1 DEF IInv, TypeOK, Control, Claims, Belongs
  <2>4. \A t \in Sessions : pc'[t] = "write" => t = s
    BY <2>3 DEF IInv, TypeOK
  <2>5. lock'.inode = handle'[s] /\ lock'.holds = NoLock
    BY DEF IInv, TypeOK
  <2> QED
    BY <2>2, <2>4, <2>5 DEF Claims
<1> QED
  BY <1>1, <1>2, <1>3 DEF IInv

(* The result of an attempt, when the file agrees with it.                 *)
LEMMA AcquiredInv ==
  ASSUME IInv, directory' \in BOOLEAN, NEW s \in Sessions, s \in running, Acquired(s), pc[s] # "idle",
         UNCHANGED <<process, robbed>>, lock' \in [inode : Inodes \cup {0}, holds : Locks],
         lock' # NoFile => lock'.inode # 0,
         handle' \in [Sessions -> Inodes \cup {0}],
         \A t \in Sessions \ {s} : handle'[t] = handle[t],
         ~robbed => /\ lock'.holds = [session |-> s, pid |-> pid[s]]
                    /\ \A t \in Sessions \ {s} : t \notin isOwner /\ pc[t] # "write"
  PROVE  IInv'
<1> USE DEF Acquired, Goto, process
<1>1. TypeOK'
  BY DEF IInv, TypeOK, Control
<1>2. Control'
  BY DEF IInv, TypeOK, Control
<1>3. Claims'
  BY DEF IInv, TypeOK, Control, Claims
<1> QED
  BY <1>1, <1>2, <1>3 DEF IInv

(* A step that leaves every claim alone: it changes at most where s is,    *)
(* between two calls, and who is stopped.                                  *)
LEMMA QuietInv ==
  ASSUME IInv, directory' \in BOOLEAN, NEW s \in Sessions,
         NEW step \in {"idle", "create", "mkdir", "read", "overwrite", "unlink",
           "createAgain", "release", "releaseUnlink"},
         pc[s] # "write", Goto(s, step), s \in isOwner' => step = "idle",
         isOwner' \subseteq isOwner,
         running' \subseteq Sessions, running \subseteq running',
         step # "idle" => s \in running',
         stopped' \subseteq running', isOwner' \subseteq running' \ stopped',
         pid' \in [Sessions -> 0..MaxProcesses], \A t \in isOwner' : pid'[t] = pid[t],
         UNCHANGED <<lock, handle, robbed>>
  PROVE  IInv'
<1> USE DEF Goto
<1>1. TypeOK'
  BY DEF IInv, TypeOK
<1>2. Control'
  BY DEF IInv, TypeOK, Control
<1>3. Claims'
  <2> SUFFICES ASSUME ~robbed PROVE Claims'
    BY DEF Claims
  <2>1. \A t \in isOwner' : lock'.holds = [session |-> t, pid |-> pid'[t]]
    BY DEF IInv, Claims
  <2>2. \A t \in Sessions : pc'[t] = "write" => pc[t] = "write"
    BY DEF IInv, TypeOK
  <2> QED
    BY <2>1, <2>2 DEF IInv, Claims
<1> QED
  BY <1>1, <1>2, <1>3 DEF IInv

(* The file is unlinked by a session that has no claim on it.              *)
LEMMA RemovedInv ==
  ASSUME IInv, directory' \in BOOLEAN, NEW s \in Sessions, s \in running, NEW step \in {"idle", "createAgain"},
         pc[s] \in {"unlink", "releaseUnlink"}, lock' = NoFile, Robs(s), Goto(s, step),
         UNCHANGED <<process, isOwner, handle>>
  PROVE  IInv'
<1> USE DEF Goto, process
<1>1. TypeOK'
  BY NoFileIsALock DEF IInv, TypeOK, Robs
<1>2. Control'
  BY DEF IInv, TypeOK, Control
<1>3. Claims'
  <2> SUFFICES ASSUME ~robbed' PROVE Claims'
    BY DEF Claims
  <2>1. ~robbed /\ \A t \in Sessions \ {s} : ~Belongs(t)
    BY DEF Robs
  <2>2. \A t \in isOwner : FALSE
    BY <2>1 DEF IInv, TypeOK, Control, Claims, Belongs
  <2>3. \A t \in Sessions : pc[t] # "write"
    BY <2>1 DEF IInv, TypeOK, Control, Claims, Belongs
  <2>4. \A t \in Sessions : pc'[t] # "write"
    BY <2>3 DEF IInv, TypeOK
  <2> QED
    BY <2>2, <2>4 DEF Claims
<1> QED
  BY <1>1, <1>2, <1>3 DEF IInv

------------------------------------------------------------------------------
(* The steps *)

LEMMA TryCreateExclusiveInv ==
  ASSUME IInv, NEW s \in Sessions, TryCreateExclusive(s)
  PROVE  IInv'
<1>1. s \in running
  BY DEF IInv, Control, TryCreateExclusive
<1>2. CASE /\ lock = NoFile
           /\ \E inode \in FreshInodes : Open(s, inode)
           /\ UNCHANGED isOwner
  <2>1. PICK inode \in FreshInodes : Open(s, inode)
    BY <1>2
  <2>2. inode \in Inodes
    BY <2>1 DEF FreshInodes
  <2>3. \A t \in Sessions : ~Belongs(t)
    BY <1>2, ConstantsAssumption DEF Belongs, NoFile, NoLock
  <2> QED
    BY <1>1, <1>2, <2>1, <2>2, <2>3, OpenInv DEF TryCreateExclusive, IInv, TypeOK
<1>3. CASE \E step \in {"idle", "read"} : Goto(s, step) /\ UNCHANGED <<lock, isOwner, handle>>
  <2>1. PICK step \in {"idle", "read"} : Goto(s, step) /\ UNCHANGED <<lock, isOwner, handle>>
    BY <1>3
  <2>2. s \notin isOwner
    BY DEF IInv, Control, TryCreateExclusive
  <2> QED
    BY <1>1, <2>1, <2>2, QuietInv DEF TryCreateExclusive, process, IInv, TypeOK
<1> QED
  BY <1>2, <1>3 DEF TryCreateExclusive, NotAcquired

LEMMA MakeDirectoryInv ==
  ASSUME IInv, NEW s \in Sessions, MakeDirectory(s)
  PROVE  IInv'
<1>1. s \in running /\ s \notin isOwner /\ pc[s] # "write"
  BY DEF IInv, Control, MakeDirectory
<1>2. PICK step \in {"create", "mkdir"} : Goto(s, step)
  BY DEF MakeDirectory
<1>3. directory' \in BOOLEAN
  BY DEF MakeDirectory, IInv, TypeOK
<1> QED
  BY <1>1, <1>2, <1>3, QuietInv DEF MakeDirectory, process, IInv, TypeOK

LEMMA WriteInv ==
  ASSUME IInv, NEW s \in Sessions, Write(s)
  PROVE  IInv'
<1>1. s \in running /\ pc[s] # "idle"
  BY DEF IInv, Control, Write
<1>2. [session |-> s, pid |-> pid[s]] \in Locks
  BY DEF IInv, TypeOK, Locks
<1>3. lock' \in [inode : Inodes \cup {0}, holds : Locks]
  BY <1>2 DEF IInv, TypeOK, Write
<1>4. lock' # NoFile => lock'.inode # 0
  BY DEF IInv, TypeOK, Control, Write
<1>5. handle' \in [Sessions -> Inodes \cup {0}] /\ \A t \in Sessions \ {s} : handle'[t] = handle[t]
  BY DEF IInv, TypeOK, Write
<1>6. ASSUME ~robbed
      PROVE  /\ lock'.holds = [session |-> s, pid |-> pid[s]]
             /\ \A t \in Sessions \ {s} : t \notin isOwner /\ pc[t] # "write"
  <2>1. lock.inode = handle[s] /\ lock.holds = NoLock
    BY <1>6 DEF IInv, Claims, Write
  <2>2. lock'.holds = [session |-> s, pid |-> pid[s]]
    BY <2>1 DEF IInv, TypeOK, Write
  <2>3. \A t \in isOwner : t \in Sessions /\ lock.holds.session = t
    BY <1>6 DEF IInv, TypeOK, Claims
  <2>4. \A t \in Sessions : t \notin isOwner
    BY <2>1, <2>3, ConstantsAssumption DEF NoLock
  <2> QED
    BY <1>6, <2>2, <2>4 DEF IInv, Claims, Write
<1> QED
  BY <1>1, <1>3, <1>4, <1>5, <1>6, AcquiredInv DEF Write, IInv, TypeOK

LEMMA ReadLockInv ==
  ASSUME IInv, NEW s \in Sessions, ReadLock(s)
  PROVE  IInv'
<1>1. s \in running /\ s \notin isOwner /\ pc[s] = "read"
  BY DEF IInv, Control, ReadLock
<1>2. CASE lock.holds = [session |-> s, pid |-> pid[s]] /\ Acquired(s)
  <2>1. ASSUME ~robbed
        PROVE  \A t \in Sessions \ {s} : t \notin isOwner /\ pc[t] # "write"
    <3>1. \A t \in isOwner : t \in Sessions /\ lock.holds.session = t
      BY <2>1 DEF IInv, TypeOK, Claims
    <3>2. \A t \in Sessions : pc[t] = "write" => lock.holds.session = None
      BY <2>1 DEF IInv, Claims, NoLock
    <3> QED
      BY <1>2, <3>1, <3>2, ConstantsAssumption
  <2> QED
    BY <1>1, <1>2, <2>1, AcquiredInv DEF ReadLock, IInv, TypeOK, Control
<1>3. CASE \E step \in {"idle", "overwrite", "unlink"} : Goto(s, step) /\ UNCHANGED isOwner
  <2>1. PICK step \in {"idle", "overwrite", "unlink"} : Goto(s, step) /\ UNCHANGED isOwner
    BY <1>3
  <2> QED
    BY <1>1, <2>1, QuietInv DEF ReadLock, process, IInv, TypeOK
<1>4. lock.holds.session = s /\ lock.holds.pid = pid[s]
        => lock.holds = [session |-> s, pid |-> pid[s]]
  BY DEF IInv, TypeOK, Locks
<1> QED
  BY <1>2, <1>3, <1>4 DEF ReadLock, NotAcquired

LEMMA OverwriteInv ==
  ASSUME IInv, NEW s \in Sessions, Overwrite(s)
  PROVE  IInv'
<1>1. s \in running /\ pc[s] = "overwrite"
  BY DEF IInv, Control, Overwrite
<1>2. CASE lock # NoFile /\ Open(s, lock.inode) /\ Robs(s)
  <2>1. lock.inode \in Inodes
    <3>1. lock.inode # 0
      BY <1>2 DEF IInv, Control
    <3> QED
      BY <3>1 DEF IInv, TypeOK
  <2> QED
    BY <1>1, <1>2, <2>1, OpenInv DEF Overwrite, Robs, IInv, TypeOK
<1>3. CASE lock = NoFile /\ (\E inode \in FreshInodes : Open(s, inode)) /\ UNCHANGED robbed
  <2>1. PICK inode \in FreshInodes : Open(s, inode)
    BY <1>3
  <2>2. inode \in Inodes
    BY <2>1 DEF FreshInodes
  <2>3. \A t \in Sessions : ~Belongs(t)
    BY <1>3, ConstantsAssumption DEF Belongs, NoFile, NoLock
  <2> QED
    BY <1>1, <1>3, <2>1, <2>2, <2>3, OpenInv DEF Overwrite, IInv, TypeOK
<1> QED
  BY <1>2, <1>3 DEF Overwrite

LEMMA UnlinkInv ==
  ASSUME IInv, NEW s \in Sessions, Unlink(s) \/ ReleaseUnlink(s)
  PROVE  IInv'
<1>1. s \in running
  BY DEF IInv, Control, Unlink, ReleaseUnlink
<1> QED
  BY <1>1, RemovedInv DEF Unlink, ReleaseUnlink, IInv, TypeOK

LEMMA ReleaseReadInv ==
  ASSUME IInv, NEW s \in Sessions, ReleaseRead(s)
  PROVE  IInv'
<1>1. s \in running /\ s \notin isOwner
  BY DEF IInv, Control, ReleaseRead
<1>2. PICK step \in {"releaseUnlink", "idle"} : Goto(s, step)
  BY DEF ReleaseRead
<1> QED
  BY <1>1, <1>2, QuietInv DEF ReleaseRead, process, IInv, TypeOK

LEMMA StartInv ==
  ASSUME IInv, NEW s \in Sessions, Start(s)
  PROVE  IInv'
<1>1. s \notin isOwner /\ pc[s] # "write"
  BY DEF IInv, TypeOK, Control, Start
<1>2. pid' \in [Sessions -> 0..MaxProcesses] /\ \A t \in isOwner' : pid'[t] = pid[t]
  BY <1>1, ConstantsAssumption DEF IInv, TypeOK, Start
<1> QED
  BY <1>1, <1>2, QuietInv DEF Start, IInv, TypeOK

LEMMA ProbeInv ==
  ASSUME IInv, NEW s \in Sessions, Probe(s)
  PROVE  IInv'
  BY QuietInv DEF Probe, Probing, process, IInv, TypeOK

LEMMA StopInv ==
  ASSUME IInv, NEW s \in Sessions, Stop(s)
  PROVE  IInv'
<1>1. CASE s \in isOwner
  <2>1. pc[s] # "write" /\ Goto(s, "release")
    BY <1>1 DEF IInv, Control, Stop
  <2> QED
    BY <2>1, QuietInv DEF Stop, IInv, TypeOK
<1>2. CASE s \notin isOwner
  <2>1. UNCHANGED <<directory, lock, pid, running, isOwner, pc, handle, robbed>>
    BY <1>2 DEF Stop
  <2>2. TypeOK'
    BY <1>2, <2>1 DEF IInv, TypeOK, Stop
  <2> QED
    BY <2>1, <2>2 DEF IInv, Control, Claims
<1> QED
  BY <1>1, <1>2

LEMMA DieInv ==
  ASSUME IInv, NEW s \in Sessions, Die(s)
  PROVE  IInv'
<1> USE DEF Die, Goto
<1>1. TypeOK'
  BY DEF IInv, TypeOK
<1>2. Control'
  BY DEF IInv, TypeOK, Control
<1>3. Claims'
  BY DEF IInv, TypeOK, Claims
<1> QED
  BY <1>1, <1>2, <1>3 DEF IInv

LEMMA NextInv == IInv /\ [Next]_vars => IInv'
<1> SUFFICES ASSUME IInv, [Next]_vars PROVE IInv'
  OBVIOUS
<1>1. CASE UNCHANGED vars
  BY <1>1 DEF IInv, TypeOK, Control, Claims, vars, process
<1>2. ASSUME NEW s \in Sessions, Step(s) \/ Start(s) \/ Stop(s) \/ Die(s)
      PROVE  IInv'
  BY <1>2, TryCreateExclusiveInv, MakeDirectoryInv, WriteInv, ReadLockInv, OverwriteInv, UnlinkInv,
     ReleaseReadInv, StartInv, ProbeInv, StopInv, DieInv DEF Step
<1> QED
  BY <1>1, <1>2 DEF Next

------------------------------------------------------------------------------

LEMMA Invariance == Spec => []IInv
  BY InitInv, NextInv, PTL DEF Spec

(* Every variable of the lease keeps its type. *)
THEOREM Typing == Spec => []TypeOK
<1>1. IInv => TypeOK
  BY DEF IInv
<1> QED
  BY <1>1, Invariance, PTL

(* Two sessions own the schedule only if one of them was robbed of the     *)
(* lock: tryCreateExclusive, the writes, the releases and any number of    *)
(* deaths and resumptions never make two owners by themselves; only the    *)
(* unlink and the overwrite that trust an earlier read can.                *)
THEOREM Exclusion == Spec => []OneOwnerUnlessRobbed
<1>1. IInv => OneOwnerUnlessRobbed
  BY DEF IInv, TypeOK, Claims, OneOwnerUnlessRobbed
<1> QED
  BY <1>1, Invariance, PTL
=============================================================================
