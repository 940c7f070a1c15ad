--------------------------- MODULE TeammateMailbox ---------------------------
(***************************************************************************)
(* The inbox of one agent of a team: a file that its teammates append to   *)
(* and that it polls itself (utils/teammateMailbox.ts).  The agent is an   *)
(* interactive session (hooks/useInboxPoller.ts), a team lead without      *)
(* terminal (cli/print.ts) or a teammate inside the lead's process         *)
(* (utils/swarm/inProcessRunner.ts); in its turns all of them look for     *)
(* messages to attach (utils/attachments.ts).                              *)
(*                                                                         *)
(* Every call on the file is a step: teammates are processes.  writeFile   *)
(* empties the file and then fills it.  A file that is empty or garbled    *)
(* reads as an inbox without messages, and is modelled as one.  A message  *)
(* is sent once, and is identified with the call of writeToMailbox that    *)
(* sends it.  What the agent has taken in hand counts as delivered: the    *)
(* queue of messages that wait for the end of a turn is not modelled.      *)
(***************************************************************************)
EXTENDS Naturals, Sequences, FiniteSets, SequencesExt

CONSTANTS
  Messages,   \* messages, and the calls that send them
  Marks,      \* bound: calls under way that mark messages as read
  Kind,       \* Kind[m]: who sent m, and whether it is a structured protocol message
  None,       \* nobody holds the lock
  Dead,       \* a process that is gone holds it
  Readers,    \* what the agent may be
  GivesUp,    \* whether the retries for the lock run out
  MaxCrashes  \* bound: processes that die

ASSUME ConstantsAssumption ==
  /\ IsFiniteSet(Messages)
  /\ Messages \cap Marks = {} /\ {None, Dead} \cap (Messages \cup Marks) = {} /\ None # Dead
  /\ Kind \in [Messages -> [structured: BOOLEAN, shutdown: BOOLEAN, lead: BOOLEAN]]
  /\ \A m \in Messages : Kind[m].shutdown => Kind[m].structured
  /\ Readers \subseteq {"session", "headless", "teammate"}
  /\ GivesUp \in BOOLEAN /\ MaxCrashes \in Nat

VARIABLES
  exists,     \* whether the file was created
  inbox,      \* what readMailbox returns: messages with their read flags
  lock,       \* the holder of inbox.lock
  call,       \* call[c]: where a call is; op: what a mark is to mark
  reader,     \* what the agent is
  delivered,  \* messages the agent has read to handle them (history)
  written,    \* messages whose writeToMailbox has written them (history)
  clobbered,  \* whether messages were lost from the file (history)
  crashes     \* processes that died so far

file == <<exists, inbox, lock>>
vars == <<file, call, reader, delivered, written, clobbered, crashes>>

Calls == Messages \cup Marks

Idle == [pc |-> "idle", op |-> "send", at |-> 0, content |-> <<>>]

Init ==
  /\ exists = FALSE /\ inbox = <<>>
  /\ lock = None
  /\ call = [c \in Calls |-> Idle]
  /\ reader \in Readers
  /\ delivered = {} /\ written = {}
  /\ clobbered = FALSE /\ crashes = 0

Goto(c, pc) == call' = [call EXCEPT ![c].pc = pc]

(* A call of writeToMailbox that is over is not made again; one that marks *)
(* is forgotten.                                                           *)
Return(c) ==
  call' = [call EXCEPT ![c] = IF c \in Messages THEN [Idle EXCEPT !.pc = "done"] ELSE Idle]

------------------------------------------------------------------------------
(* writeToMailbox, up to the lock *)

(* writeFile(inboxPath, '[]', 'wx') opens the file, if there is none.      *)
Send(m) ==
  /\ call[m].pc = "idle"
  /\ exists' = TRUE
  /\ Goto(m, IF exists THEN "lock" ELSE "initialize")
  /\ UNCHANGED <<inbox, lock, reader, delivered, written, clobbered, crashes>>

(* Its second half: '[]' is written over the beginning of whatever the     *)
(* file holds now.                                                         *)
Initialize(m) ==
  /\ call[m].pc = "initialize"
  /\ inbox' = <<>>
  /\ clobbered' = (clobbered \/ inbox # <<>>)
  /\ Goto(m, "lock")
  /\ UNCHANGED <<exists, lock, reader, delivered, written, crashes>>

(* The creation fails, or the write: the error is logged and nothing else. *)
SendFails(m) ==
  /\ call[m].pc \in {"idle", "initialize"}
  /\ Return(m)
  /\ UNCHANGED <<file, reader, delivered, written, clobbered, crashes>>

------------------------------------------------------------------------------
(* The critical section of writeToMailbox and of the calls that mark *)

Unread(i) == i \in DOMAIN inbox /\ ~inbox[i].read

(* Mutant of ToMark: attachments mark what they have not read too. *)
ToMarkAll(k) == IF call[k].op = "index" THEN {call[k].at} \cap DOMAIN inbox ELSE DOMAIN inbox

(* The positions a mark changes. *)
ToMark(k) ==
  CASE call[k].op = "all" -> DOMAIN inbox
    [] call[k].op = "plain" -> {i \in DOMAIN inbox : ~Kind[inbox[i].msg].structured}
    [] OTHER -> {call[k].at} \cap DOMAIN inbox

Marked(at) == [i \in DOMAIN inbox |-> IF i \in at THEN [inbox[i] EXCEPT !.read = TRUE] ELSE inbox[i]]

NewContent(c) ==
  IF c \in Messages THEN Append(inbox, [msg |-> c, read |-> FALSE]) ELSE Marked(ToMark(c))

(* markMessageAsReadByIndex does not write a message that is read already, *)
(* and none of the marks an empty inbox.                                   *)
NothingToWrite(c) ==
  /\ c \in Marks
  /\ \/ inbox = <<>>
     \/ (call[c].op = "index" /\ ~Unread(call[c].at))

(* Mutant of LockAndRead: the lock is not waited for. *)
LockAndReadAtOnce(c) ==
  /\ call[c].pc = "lock"
  /\ lock' = c
  /\ call' = [call EXCEPT ![c].pc = "truncate", ![c].content = NewContent(c)]
  /\ UNCHANGED <<exists, inbox, reader, delivered, written, clobbered, crashes>>

(* The lock is taken, the file read again and the new content made. *)
LockAndRead(c) ==
  /\ call[c].pc = "lock" /\ lock = None
  /\ \/ /\ NothingToWrite(c)
        /\ Return(c)
        /\ UNCHANGED lock
     \/ /\ ~NothingToWrite(c)
        /\ lock' = c
        /\ call' = [call EXCEPT ![c].pc = "truncate", ![c].content = NewContent(c)]
  /\ UNCHANGED <<exists, inbox, reader, delivered, written, clobbered, crashes>>

(* The retries run out: the error is logged and nothing else. *)
LockFails(c) ==
  /\ GivesUp
  /\ call[c].pc = "lock" /\ lock # None
  /\ Return(c)
  /\ UNCHANGED <<file, reader, delivered, written, clobbered, crashes>>

Truncate(c) ==
  /\ call[c].pc = "truncate"
  /\ inbox' = <<>>
  /\ Goto(c, "fill")
  /\ UNCHANGED <<exists, lock, reader, delivered, written, clobbered, crashes>>

(* Mutant of Fill: a mark returns with the lock. *)
FillKeepsLock(c) ==
  /\ call[c].pc = "fill"
  /\ inbox' = call[c].content
  /\ lock' = IF c \in Marks THEN c ELSE None
  /\ Return(c)
  /\ written' = written \cup ({c} \cap Messages)
  /\ UNCHANGED <<exists, reader, delivered, clobbered, crashes>>

(* The file is filled and the lock released. *)
Fill(c) ==
  /\ call[c].pc = "fill"
  /\ inbox' = call[c].content
  /\ lock' = None
  /\ Return(c)
  /\ written' = written \cup ({c} \cap Messages)
  /\ UNCHANGED <<exists, reader, delivered, clobbered, crashes>>

Advance(c) == LockAndRead(c) \/ LockFails(c) \/ Truncate(c) \/ Fill(c)

------------------------------------------------------------------------------
(* The agent *)

Waiting == \E k \in Marks : call[k].pc # "idle"

(* What is found is taken in hand, and a mark is called. *)
Take(k, found, op, at) ==
  /\ call[k].pc = "idle"
  /\ found # {}
  /\ delivered' = delivered \cup {inbox[i].msg : i \in found}
  /\ call' = [call EXCEPT ![k] = [Idle EXCEPT !.pc = "lock", !.op = op, !.at = at]]
  /\ UNCHANGED <<file, reader, written, clobbered, crashes>>

(* The poll of a session, which does not await its mark, and of a lead     *)
(* without terminal, which does, and handles only then what it has read.   *)
Poll(k) ==
  /\ reader = "session" \/ (reader = "headless" /\ ~Waiting)
  /\ Take(k, {i \in DOMAIN inbox : Unread(i)}, "all", 0)

(* getTeammateMailboxAttachments, once at a time: what is structured stays *)
(* for the handlers.                                                       *)
Attach(k) ==
  /\ \A l \in Marks : call[l].pc # "idle" => reader = "session" /\ call[l].op # "plain"
  /\ Take(k, {i \in DOMAIN inbox : Unread(i) /\ ~Kind[inbox[i].msg].structured}, "plain", 0)

(* waitForNextPromptOrShutdown: a request to shut down goes first, then    *)
(* what the lead sent, then the oldest.                                    *)
Rank(i) ==
  IF Kind[inbox[i].msg].shutdown THEN 0 ELSE IF Kind[inbox[i].msg].lead THEN 1 ELSE 2

WaitForNext(k) ==
  /\ reader = "teammate" /\ ~Waiting
  /\ \E i \in DOMAIN inbox :
       /\ Unread(i)
       /\ \A j \in DOMAIN inbox : Unread(j) =>
            Rank(i) < Rank(j) \/ (Rank(i) = Rank(j) /\ i <= j)
       /\ Take(k, {i}, "index", i)

------------------------------------------------------------------------------
(* Processes die *)

(* What the dead held of the lock, and what they were rewriting. *)
Die(dead) ==
  /\ crashes < MaxCrashes
  /\ crashes' = crashes + 1
  /\ lock' = IF lock \in dead THEN Dead ELSE lock
  /\ call' = [c \in Calls |->
       IF c \notin dead THEN call[c] ELSE IF c \in Messages THEN [Idle EXCEPT !.pc = "done"] ELSE Idle]
  /\ clobbered' = (clobbered \/ \E c \in dead :
                       call[c].pc = "fill" /\ call[c].content # <<[msg |-> c, read |-> FALSE]>>)
  /\ UNCHANGED <<exists, inbox, reader, delivered, written>>

SenderDies(m) == call[m].pc \notin {"idle", "done"} /\ Die({m})

(* The agent is started again, and looks into its inbox as before. *)
ReaderDies == Waiting /\ Die(Marks)

(* proper-lockfile takes over a lock that is no longer refreshed. *)
LockStale ==
  /\ lock = Dead
  /\ lock' = None
  /\ UNCHANGED <<exists, inbox, call, reader, delivered, written, clobbered, crashes>>

Next ==
  \/ \E m \in Messages : Send(m) \/ Initialize(m) \/ SendFails(m) \/ SenderDies(m)
  \/ \E c \in Calls : Advance(c)
  \/ \E k \in Marks : Poll(k) \/ Attach(k) \/ WaitForNext(k)
  \/ ReaderDies \/ LockStale

Spec == Init /\ [][Next]_vars

(* Calls on the file return, a lock that is free is taken by the next      *)
(* retry, stale locks are found, and the agent polls.  Nobody has to send  *)
(* a message, to start a turn or to die.                                   *)
FairSpec ==
  /\ Spec
  /\ \A m \in Messages : WF_vars(Initialize(m))
  /\ \A c \in Calls : WF_vars(Advance(c))
  /\ WF_vars(\E k \in Marks : Poll(k) \/ WaitForNext(k))
  /\ WF_vars(LockStale)

------------------------------------------------------------------------------
(* Properties *)

Entries == [msg: Messages, read: BOOLEAN]
CallStates == [pc: {"idle", "initialize", "lock", "truncate", "fill", "done"},
               op: {"send", "all", "plain", "index"}, at: Nat, content: Seq(Entries)]

(* The variables have their types, and who rewrites the file holds its lock. *)
TypeOK ==
  /\ exists \in BOOLEAN /\ inbox \in Seq(Entries)
  /\ lock \in Calls \cup {None, Dead}
  /\ call \in [Calls -> CallStates]
  /\ reader \in Readers
  /\ delivered \subseteq Messages /\ written \subseteq Messages
  /\ clobbered \in BOOLEAN /\ crashes \in 0..MaxCrashes
  /\ \A c \in Calls : call[c].pc \in {"truncate", "fill"} => lock = c

(* What the file holds, or will hold when it is filled. *)
Content == IF lock \in Calls /\ call[lock].pc = "fill" THEN call[lock].content ELSE inbox

StandsOnce(m, messages) ==
  \E i \in DOMAIN messages : \A j \in DOMAIN messages : messages[j].msg = m <=> j = i

(* A message that writeToMailbox has written stays in the inbox, and       *)
(* stands there once, however the other writers and the marks of the agent *)
(* come between ("file locking to prevent race conditions"), unless a late *)
(* creation or a death in the middle of a rewrite has emptied the file.    *)
WrittenStay == ~clobbered => \A m \in written : StandsOnce(m, Content)

Handled(entry) ==
  (entry.read /\ Kind[entry.msg].structured) => entry.msg \in delivered

(* A teammate in the lead's process never marks a protocol message as read *)
(* that it has not taken in hand: the position it has read without the     *)
(* lock still is that of its message when it marks, and attachments leave  *)
(* protocol messages alone ("must be left unread").                        *)
ProtocolIsHandled ==
  (reader = "teammate" /\ ~clobbered) => \A i \in DOMAIN Content : Handled(Content[i])

(* A message that was written is marked as read in the end, although the   *)
(* agent may find the file half-written, its marks may give up and the     *)
(* holder of the lock may die.                                             *)
EachIsRead ==
  \A m \in Messages :
    m \in written ~> clobbered \/ \E i \in DOMAIN inbox : inbox[i] = [msg |-> m, read |-> TRUE]

(* "Mark messages as read only after they have been successfully delivered *)
(* or reliably queued": what is marked as read was taken in hand.  False   *)
(* of the marks that do not name what they mark.                           *)
NoneSkipped ==
  ~clobbered => \A i \in DOMAIN Content : Content[i].read => Content[i].msg \in delivered
=============================================================================
