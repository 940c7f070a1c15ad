----------------------- MODULE TeammateMailboxProofs ------------------------
(***************************************************************************)
(* Proofs about TeammateMailbox, for all numbers of messages and marks:    *)
(* its typing, that concurrent rewrites lose no message that was written,  *)
(* and that a teammate marks no protocol message it has not taken in hand. *)
(*                                                                         *)
(* As long as nothing emptied the file, who rewrites it holds the lock and *)
(* writes back every message at its position, the new one behind: a        *)
(* position that was read without the lock stays that of its message.      *)
(***************************************************************************)
EXTENDS TeammateMailbox, SequenceTheorems, TLAPS

Rewrites(c) == call[c].pc \in {"truncate", "fill"}

(* A call that has written is over; attachments alone mark by a criterion  *)
(* for a teammate; a file in the middle of a rewrite is empty; a rewrite   *)
(* brings in nothing but the message of its own call.                      *)
CallIsSound(c) ==
  /\ c \in written => call[c].pc = "done"
  /\ c \in Marks => /\ call[c].pc = "lock" => call[c].op # "send"
                    /\ reader = "teammate" => call[c].op # "all"
  /\ call[c].pc = "fill" => inbox = <<>>
  /\ Rewrites(c) =>
       \A i \in DOMAIN call[c].content : call[c].content[i].msg \in written \cup {c}

(* Nothing is found in the file that was not written. *)
Control ==
  /\ delivered \subseteq written
  /\ \A i \in DOMAIN inbox : inbox[i].msg \in written
  /\ \A c \in Calls : CallIsSound(c)

(* As long as nothing emptied the file, what was written is in it, or will *)
(* be when it is filled.                                                   *)
KeptBy(c) ==
  Rewrites(c) => \A m \in written \cup ({c} \cap Messages) : StandsOnce(m, call[c].content)

Kept ==
  ~clobbered =>
    /\ (\A c \in Calls : call[c].pc # "fill") => \A m \in written : StandsOnce(m, inbox)
    /\ \A c \in Calls : KeptBy(c)

(* For a teammate, what stands at a position that is to be marked was      *)
(* taken in hand, before and after the rewrites that come first.           *)
Found(i, messages) == i \in DOMAIN messages /\ messages[i].msg \in delivered

HandledBy(c) ==
  Rewrites(c) => \A i \in DOMAIN call[c].content : Handled(call[c].content[i])

AlignedBy(c) ==
  call[c].pc = "truncate" =>
    \A i \in DOMAIN inbox : i \in DOMAIN call[c].content /\ call[c].content[i].msg = inbox[i].msg

FoundBy(k) ==
  (k \in Marks /\ call[k].pc = "lock" /\ call[k].op = "index") =>
    /\ (\A c \in Calls : call[c].pc # "fill") => Found(call[k].at, inbox)
    /\ \A c \in Calls : Rewrites(c) => Found(call[k].at, call[c].content)

Positions ==
  (reader = "teammate" /\ ~clobbered) =>
    /\ \A i \in DOMAIN inbox : Handled(inbox[i])
    /\ \A c \in Calls : HandledBy(c) /\ AlignedBy(c) /\ FoundBy(c)

IInv == TypeOK /\ Control /\ Kept /\ Positions

LEMMA InitInv == Init => IInv
<1> SUFFICES ASSUME Init PROVE IInv
  OBVIOUS
<1>1. <<>> \in Seq(Entries) /\ DOMAIN <<>> = {}
  OBVIOUS
<1>2. TypeOK
  <2>1. Idle \in CallStates
    BY <1>1 DEF Idle, CallStates
  <2>2. call \in [Calls -> CallStates]
    BY <2>1 DEF Init
  <2>3. \A c \in Calls : call[c].pc = "idle"
    BY DEF Init, Idle
  <2>4. crashes \in 0..MaxCrashes
    BY ConstantsAssumption DEF Init
  <2> QED
    BY <1>1, <2>2, <2>3, <2>4 DEF Init, TypeOK
<1>3. \A c \in Calls : call[c] = Idle
  BY DEF Init
<1>4. Control
  BY <1>1, <1>3 DEF Init, Control, CallIsSound, Idle, Rewrites
<1>5. Kept
  BY <1>3 DEF Init, Kept, KeptBy, Idle, Rewrites
<1>6. Positions
  BY <1>1, <1>3 DEF Init, Positions, HandledBy, AlignedBy, FoundBy, Idle, Rewrites
<1> QED
  BY <1>2, <1>4, <1>5, <1>6 DEF IInv

------------------------------------------------------------------------------
(* The new content *)

(* Marking changes read flags only. *)
LEMMA MarkedEntries ==
  ASSUME inbox \in Seq(Entries), NEW at
  PROVE  /\ Marked(at) \in Seq(Entries)
         /\ DOMAIN Marked(at) = DOMAIN inbox
         /\ \A i \in DOMAIN inbox : Marked(at)[i].msg = inbox[i].msg
         /\ \A i \in DOMAIN inbox \ at : Marked(at)[i] = inbox[i]
<1>1. DOMAIN inbox = 1..Len(inbox) /\ Len(inbox) \in Nat
  OBVIOUS
<1>2. \A i \in DOMAIN inbox : inbox[i] \in Entries
  OBVIOUS
<1>3. \A i \in DOMAIN inbox : [inbox[i] EXCEPT !.read = TRUE] \in Entries
  BY <1>2 DEF Entries
<1>4. Marked(at) \in [1..Len(inbox) -> Entries]
  BY <1>1, <1>2, <1>3 DEF Marked
<1>5. Marked(at) \in Seq(Entries)
  BY <1>1, <1>4, SeqDef
<1> QED
  BY <1>2, <1>5 DEF Marked, Entries

(* What is written back: every message where it was, and a new one behind. *)
LEMMA ContentExtends ==
  ASSUME TypeOK, NEW c \in Calls
  PROVE  /\ NewContent(c) \in Seq(Entries)
         /\ DOMAIN inbox \subseteq DOMAIN NewContent(c)
         /\ \A i \in DOMAIN inbox : NewContent(c)[i].msg = inbox[i].msg
         /\ c \in Marks => DOMAIN NewContent(c) = DOMAIN inbox
         /\ c \in Messages =>
              /\ DOMAIN NewContent(c) = DOMAIN inbox \cup {Len(inbox) + 1}
              /\ \A i \in DOMAIN inbox : NewContent(c)[i] = inbox[i]
              /\ NewContent(c)[Len(inbox) + 1] = [msg |-> c, read |-> FALSE]
<1>1. inbox \in Seq(Entries)
  BY DEF TypeOK
<1>2. CASE c \in Messages
  <2>1. NewContent(c) = Append(inbox, [msg |-> c, read |-> FALSE])
    BY <1>2 DEF NewContent
  <2>2. [msg |-> c, read |-> FALSE] \in Entries
    BY <1>2 DEF Entries
  <2>3. c \notin Marks
    BY <1>2, ConstantsAssumption
  <2> QED
    BY <1>1, <1>2, <2>1, <2>2, <2>3
<1>3. CASE c \in Marks
  <2>1. c \notin Messages
    BY <1>3, ConstantsAssumption
  <2>2. NewContent(c) = Marked(ToMark(c))
    BY <2>1 DEF NewContent
  <2> QED
    BY <1>1, <2>1, <2>2, MarkedEntries
<1> QED
  BY <1>2, <1>3 DEF Calls

LEMMA ContentIsWritten ==
  ASSUME TypeOK, Control, NEW c \in Calls
  PROVE  \A i \in DOMAIN NewContent(c) : NewContent(c)[i].msg \in written \cup {c}
<1>1. \A i \in DOMAIN inbox : NewContent(c)[i].msg \in written
  BY ContentExtends DEF Control
<1>2. CASE c \in Messages
  <2>1. /\ DOMAIN NewContent(c) = DOMAIN inbox \cup {Len(inbox) + 1}
        /\ NewContent(c)[Len(inbox) + 1] = [msg |-> c, read |-> FALSE]
    BY <1>2, ContentExtends
  <2>2. NewContent(c)[Len(inbox) + 1].msg = c
    BY <2>1
  <2> QED
    BY <1>1, <2>1, <2>2
<1>3. CASE c \in Marks
  <2>1. DOMAIN NewContent(c) = DOMAIN inbox
    BY <1>3, ContentExtends
  <2> QED
    BY <1>1, <2>1
<1> QED
  BY <1>2, <1>3 DEF Calls

(* No message is lost or doubled by the new content. *)
LEMMA ContentKeeps ==
  ASSUME TypeOK, Control, NEW c \in Calls, call[c].pc # "done",
         \A m \in written : StandsOnce(m, inbox)
  PROVE  \A m \in written \cup ({c} \cap Messages) : StandsOnce(m, NewContent(c))
<1>1. c \notin written
  BY DEF Control, CallIsSound
<1>2. CASE c \in Marks
  <2>1. {c} \cap Messages = {}
    BY <1>2, ConstantsAssumption
  <2>2. /\ DOMAIN NewContent(c) = DOMAIN inbox
        /\ \A i \in DOMAIN inbox : NewContent(c)[i].msg = inbox[i].msg
    BY <1>2, ContentExtends
  <2>3. \A m : StandsOnce(m, inbox) => StandsOnce(m, NewContent(c))
    BY <2>2 DEF StandsOnce
  <2> QED
    BY <2>1, <2>3
<1>3. CASE c \in Messages
  <2> DEFINE last == Len(inbox) + 1
  <2>1. /\ DOMAIN NewContent(c) = DOMAIN inbox \cup {last}
        /\ \A i \in DOMAIN inbox : NewContent(c)[i].msg = inbox[i].msg
        /\ NewContent(c)[last] = [msg |-> c, read |-> FALSE]
    BY <1>3, ContentExtends
  <2>2. last \notin DOMAIN inbox
    BY DEF TypeOK
  <2>3. StandsOnce(c, NewContent(c))
    <3>1. \A i \in DOMAIN inbox : inbox[i].msg # c
      BY <1>1 DEF Control
    <3>2. NewContent(c)[last].msg = c
      BY <2>1
    <3>3. \A j \in DOMAIN NewContent(c) : NewContent(c)[j].msg = c <=> j = last
      BY <2>1, <2>2, <3>1, <3>2
    <3> QED
      BY <2>1, <3>3 DEF StandsOnce
  <2>4. ASSUME NEW m \in written
        PROVE  StandsOnce(m, NewContent(c))
    <3>1. PICK i \in DOMAIN inbox : \A j \in DOMAIN inbox : inbox[j].msg = m <=> j = i
      BY DEF StandsOnce
    <3>2. m # c /\ NewContent(c)[last].msg = c
      BY <1>1, <2>1
    <3>3. \A j \in DOMAIN NewContent(c) : NewContent(c)[j].msg = m <=> j = i
      BY <2>1, <2>2, <3>1, <3>2
    <3> QED
      BY <2>1, <3>3 DEF StandsOnce
  <2> QED
    BY <2>3, <2>4
<1> QED
  BY <1>2, <1>3 DEF Calls

(* A teammate marks what it has in hand, or what is no protocol message. *)
LEMMA ContentIsHandled ==
  ASSUME TypeOK, Control, NEW c \in Calls, call[c].pc = "lock",
         reader = "teammate",
         \A i \in DOMAIN inbox : Handled(inbox[i]),
         (c \in Marks /\ call[c].op = "index") => Found(call[c].at, inbox)
  PROVE  \A i \in DOMAIN NewContent(c) : Handled(NewContent(c)[i])
<1>1. CASE c \in Messages
  <2>1. Handled([msg |-> c, read |-> FALSE])
    BY DEF Handled
  <2> QED
    BY <1>1, <2>1, ContentExtends
<1>2. CASE c \in Marks
  <2>1. NewContent(c) = Marked(ToMark(c))
    BY <1>2, ConstantsAssumption DEF NewContent
  <2>2. \A i \in ToMark(c) :
          i \in DOMAIN inbox => (Kind[inbox[i].msg].structured => inbox[i].msg \in delivered)
    <3>1. CASE call[c].op = "plain"
      BY <3>1 DEF ToMark
    <3>2. CASE call[c].op = "index"
      BY <1>2, <3>2 DEF ToMark, Found
    <3> QED
      BY <1>2, <3>1, <3>2 DEF Control, CallIsSound, TypeOK, CallStates
  <2> QED
    BY <2>1, <2>2, MarkedEntries DEF TypeOK, Handled
<1> QED
  BY <1>1, <1>2 DEF Calls

------------------------------------------------------------------------------
(* Typing *)

LEMMA CallsKeepTheirType ==
  ASSUME TypeOK, NEW c \in Calls
  PROVE  /\ Idle \in CallStates /\ [Idle EXCEPT !.pc = "done"] \in CallStates
         /\ \A pc \in {"initialize", "lock", "truncate", "fill", "done"} :
              [call[c] EXCEPT !.pc = pc] \in CallStates
<1>1. <<>> \in Seq(Entries)
  OBVIOUS
<1> QED
  BY <1>1 DEF TypeOK, CallStates, Idle

(* The agent takes in hand what it has found, and marks the same, or by a  *)
(* criterion.                                                              *)
LEMMA AgentTakes ==
  ASSUME TypeOK, NEW k \in Marks, Poll(k) \/ Attach(k) \/ WaitForNext(k)
  PROVE  \E found \in SUBSET DOMAIN inbox, op \in {"all", "plain", "index"}, at \in Nat :
           /\ Take(k, found, op, at)
           /\ op = "index" => found = {at}
           /\ op = "all" => reader # "teammate"
<1>1. CASE Poll(k)
  <2> DEFINE unread == {i \in DOMAIN inbox : Unread(i)}
  <2>1. Take(k, unread, "all", 0) /\ reader # "teammate"
    BY <1>1 DEF Poll
  <2>2. unread \in SUBSET DOMAIN inbox
    OBVIOUS
  <2> HIDE DEF unread
  <2> QED
    BY <2>1, <2>2
<1>2. CASE Attach(k)
  <2> DEFINE plain == {i \in DOMAIN inbox : Unread(i) /\ ~Kind[inbox[i].msg].structured}
  <2>1. Take(k, plain, "plain", 0)
    BY <1>2 DEF Attach
  <2>2. plain \in SUBSET DOMAIN inbox
    OBVIOUS
  <2> HIDE DEF plain
  <2> QED
    BY <2>1, <2>2
<1>3. CASE WaitForNext(k)
  <2>1. PICK i \in DOMAIN inbox : Take(k, {i}, "index", i)
    BY <1>3 DEF WaitForNext
  <2>2. i \in Nat /\ {i} \in SUBSET DOMAIN inbox
    BY DEF TypeOK
  <2> QED
    BY <2>1, <2>2
<1> QED
  BY <1>1, <1>2, <1>3

LEMMA TypingStep == TypeOK /\ [Next]_vars => TypeOK'
<1> SUFFICES ASSUME TypeOK, [Next]_vars PROVE TypeOK'
  OBVIOUS
<1> USE DEF TypeOK
<1>0. <<>> \in Seq(Entries) /\ DOMAIN call = Calls
  OBVIOUS
<1>1. ASSUME NEW m \in Messages, Send(m) PROVE TypeOK'
  <2>1. m \in Calls
    BY DEF Calls
  <2>2. call' \in [Calls -> CallStates]
    BY <1>1, <2>1, CallsKeepTheirType DEF Send, Goto
  <2>3. \A c \in Calls : call'[c].pc \in {"truncate", "fill"} => lock = c
    BY <1>1, <2>1 DEF Send, Goto, CallStates
  <2> QED
    BY <1>1, <2>2, <2>3 DEF Send
<1>2. ASSUME NEW m \in Messages, Initialize(m) PROVE TypeOK'
  <2>1. m \in Calls
    BY DEF Calls
  <2>2. call' \in [Calls -> CallStates]
    BY <1>2, <2>1, CallsKeepTheirType DEF Initialize, Goto
  <2>3. \A c \in Calls : call'[c].pc \in {"truncate", "fill"} => lock = c
    BY <1>2, <2>1 DEF Initialize, Goto, CallStates
  <2> QED
    BY <1>0, <1>2, <2>2, <2>3 DEF Initialize
<1>3. ASSUME NEW c \in Calls, Return(c)
      PROVE  /\ call' \in [Calls -> CallStates]
             /\ call'[c].pc \in {"idle", "done"}
             /\ \A d \in Calls \ {c} : call'[d] = call[d]
  BY <1>3, CallsKeepTheirType DEF Return, Idle
<1>4. ASSUME NEW c \in Calls, LockAndRead(c) PROVE TypeOK'
  <2>1. CASE NothingToWrite(c)
    BY <1>3, <1>4, <2>1 DEF LockAndRead
  <2>2. CASE ~NothingToWrite(c)
    <3>1. NewContent(c) \in Seq(Entries)
      BY ContentExtends
    <3>2. [call[c] EXCEPT !.pc = "truncate", !.content = NewContent(c)] \in CallStates
      BY <3>1 DEF CallStates
    <3>3. call' \in [Calls -> CallStates]
      BY <1>4, <2>2, <3>2 DEF LockAndRead
    <3>4. \A d \in Calls : call'[d].pc \in {"truncate", "fill"} => lock' = d
      BY <1>4, <2>2, ConstantsAssumption DEF LockAndRead, Calls
    <3> QED
      BY <1>4, <2>2, <3>3, <3>4 DEF LockAndRead
  <2> QED
    BY <2>1, <2>2
<1>5. ASSUME NEW c \in Calls, LockFails(c) PROVE TypeOK'
  BY <1>3, <1>5 DEF LockFails, file
<1>6. ASSUME NEW c \in Calls, Truncate(c) PROVE TypeOK'
  <2>1. call' \in [Calls -> CallStates]
    BY <1>6, CallsKeepTheirType DEF Truncate, Goto
  <2>2. \A d \in Calls : call'[d].pc \in {"truncate", "fill"} => lock = d
    BY <1>6 DEF Truncate, Goto
  <2> QED
    BY <1>0, <1>6, <2>1, <2>2 DEF Truncate
<1>7. ASSUME NEW c \in Calls, Fill(c) PROVE TypeOK'
  <2>1. call[c].content \in Seq(Entries)
    BY DEF CallStates
  <2>2. \A d \in Calls : call'[d].pc \notin {"truncate", "fill"}
    BY <1>3, <1>7 DEF Fill
  <2> QED
    BY <1>3, <1>7, <2>1, <2>2 DEF Fill
<1>8. ASSUME NEW k \in Marks, Poll(k) \/ Attach(k) \/ WaitForNext(k) PROVE TypeOK'
  <2>1. k \in Calls
    BY DEF Calls
  <2>2. PICK found \in SUBSET DOMAIN inbox, op \in {"all", "plain", "index"}, at \in Nat :
          Take(k, found, op, at)
    BY <1>8, AgentTakes
  <2>3. [Idle EXCEPT !.pc = "lock", !.op = op, !.at = at] \in CallStates
    BY <1>0 DEF Idle, CallStates
  <2>4. call' \in [Calls -> CallStates]
    BY <2>2, <2>3 DEF Take
  <2>5. \A c \in Calls : call'[c].pc \in {"truncate", "fill"} => lock = c
    BY <2>1, <2>2 DEF Take, Idle
  <2>6. {inbox[i].msg : i \in found} \subseteq Messages
    <3>1. \A i \in DOMAIN inbox : inbox[i] \in Entries
      OBVIOUS
    <3> QED
      BY <3>1 DEF Entries
  <2> QED
    BY <2>2, <2>4, <2>5, <2>6 DEF Take, file
<1>12. ASSUME NEW dead \in SUBSET Calls, Die(dead) PROVE TypeOK'
  <2>1. call' \in [Calls -> CallStates]
    BY <1>12, CallsKeepTheirType DEF Die
  <2>2. \A c \in Calls : call'[c].pc \in {"truncate", "fill"} => c \notin dead /\ call'[c] = call[c]
    BY <1>12 DEF Die, Idle
  <2>3. \A c \in Calls : call'[c].pc \in {"truncate", "fill"} => lock' = c
    BY <1>12, <2>2 DEF Die
  <2>4. crashes' \in 0..MaxCrashes
    BY <1>12, ConstantsAssumption DEF Die
  <2>5. clobbered' \in BOOLEAN
    BY <1>12 DEF Die
  <2>6. lock' \in Calls \cup {None, Dead}
    BY <1>12 DEF Die
  <2> QED
    BY <1>12, <2>1, <2>3, <2>4, <2>5, <2>6 DEF Die
<1>13. ASSUME NEW m \in Messages, SenderDies(m) PROVE TypeOK'
  BY <1>12, <1>13 DEF SenderDies, Calls
<1>14. CASE ReaderDies
  BY <1>12, <1>14 DEF ReaderDies, Calls
<1>15. CASE LockStale
  BY <1>15, ConstantsAssumption DEF LockStale, Calls
<1>16. CASE UNCHANGED vars
  BY <1>16 DEF vars, file
<1>17. ASSUME NEW m \in Messages, SendFails(m) PROVE TypeOK'
  BY <1>3, <1>17 DEF SendFails, file, Calls
<1> QED
  BY <1>1, <1>2, <1>4, <1>5, <1>6, <1>7, <1>8, <1>13, <1>14, <1>15, <1>16, <1>17
  DEF Next, Advance

(* The variables have their types in every state, and a file that is       *)
(* being rewritten is locked by who rewrites it.                           *)
THEOREM Typing == Spec => []TypeOK
<1>1. Init => TypeOK
  BY InitInv DEF IInv
<1> QED
  BY <1>1, TypingStep, PTL DEF Spec

------------------------------------------------------------------------------
(* What steps do to the calls *)

LEMMA Returned ==
  ASSUME TypeOK, NEW c \in Calls, Return(c)
  PROVE  /\ call'[c].pc \in {"idle", "done"} /\ call'[c].op = "send"
         /\ c \in Messages => call'[c].pc = "done"
         /\ \A d \in Calls \ {c} : call'[d] = call[d]
  BY DEF Return, Idle, TypeOK

LEMMA Gone ==
  ASSUME TypeOK, NEW c \in Calls, NEW pc, Goto(c, pc)
  PROVE  /\ call'[c] = [call[c] EXCEPT !.pc = pc]
         /\ call'[c].pc = pc /\ call'[c].op = call[c].op
         /\ call'[c].at = call[c].at /\ call'[c].content = call[c].content
         /\ \A d \in Calls \ {c} : call'[d] = call[d]
  BY DEF Goto, TypeOK, CallStates

LEMMA Locked ==
  ASSUME TypeOK, NEW c \in Calls, LockAndRead(c), ~NothingToWrite(c)
  PROVE  /\ call'[c].pc = "truncate" /\ call'[c].op = call[c].op
         /\ call'[c].at = call[c].at /\ call'[c].content = NewContent(c)
         /\ \A d \in Calls \ {c} : call'[d] = call[d]
  BY DEF LockAndRead, TypeOK, CallStates

LEMMA Taken ==
  ASSUME TypeOK, NEW k \in Marks, NEW found, NEW op, NEW at, Take(k, found, op, at)
  PROVE  /\ k \in Calls /\ call[k].pc = "idle"
         /\ call'[k].pc = "lock" /\ call'[k].op = op /\ call'[k].at = at
         /\ \A d \in Calls \ {k} : call'[d] = call[d]
  BY DEF Take, Idle, TypeOK, Calls

LEMMA Buried ==
  ASSUME TypeOK, NEW dead \in SUBSET Calls, Die(dead)
  PROVE  /\ \A c \in dead : /\ call'[c].pc \in {"idle", "done"} /\ call'[c].op = "send"
                            /\ c \in Messages => call'[c].pc = "done"
         /\ \A c \in Calls \ dead : call'[c] = call[c]
  BY DEF Die, Idle, TypeOK

(* One call at a time rewrites the file, and none when it takes the lock. *)
LEMMA OneRewrites ==
  ASSUME TypeOK
  PROVE  /\ \A c, d \in Calls : Rewrites(c) /\ Rewrites(d) => c = d
         /\ lock \in {None, Dead} => \A c \in Calls : ~Rewrites(c)
  BY ConstantsAssumption DEF TypeOK, Rewrites, Calls

(* A death in the middle of a rewrite loses nothing if nothing was written *)
(* before.                                                                 *)
LEMMA NothingBuried ==
  ASSUME TypeOK, Control, Kept, NEW dead \in SUBSET Calls, Die(dead), ~clobbered',
         NEW c \in dead, call[c].pc = "fill"
  PROVE  written = {}
<1>1. ~clobbered /\ call[c].content = <<[msg |-> c, read |-> FALSE]>>
  BY DEF Die
<1>2. DOMAIN call[c].content = {1} /\ call[c].content[1].msg = c
  BY <1>1
<1>3. \A m \in written : StandsOnce(m, call[c].content)
  BY <1>1 DEF Kept, KeptBy, Rewrites
<1>4. \A m \in written : m = c
  BY <1>2, <1>3 DEF StandsOnce
<1> QED
  BY <1>4 DEF Control, CallIsSound, TypeOK

------------------------------------------------------------------------------
(* The inductive invariant *)

LEMMA ControlStep == TypeOK /\ Control /\ [Next]_vars => Control'
<1> SUFFICES ASSUME TypeOK, Control, [Next]_vars PROVE Control'
  OBVIOUS
<1>0. Messages \cap Marks = {} /\ Calls = Messages \cup Marks
  BY ConstantsAssumption DEF Calls
<1>1. \A c \in Calls : CallIsSound(c)
  BY DEF Control
<1>2. ASSUME NEW c \in Calls, call'[c] = call[c], reader' = reader,
             written \subseteq written', c \in written' => c \in written,
             call[c].pc = "fill" => inbox' = inbox
      PROVE  CallIsSound(c)'
  BY <1>1, <1>2 DEF CallIsSound, Rewrites
<1>3. ASSUME NEW c \in Calls, call[c].pc # "done",
             \A d \in Calls \ {c} : call'[d] = call[d],
             UNCHANGED <<inbox, delivered, written, reader>>, CallIsSound(c)'
      PROVE  Control'
  BY <1>2, <1>3 DEF Control
<1>4. ASSUME NEW m \in Messages, Send(m) PROVE Control'
  <2>1. PICK pc \in {"lock", "initialize"} : Goto(m, pc)
    BY <1>4 DEF Send
  <2>2. m \in Calls /\ m \notin Marks /\ call[m].pc = "idle"
    BY <1>0, <1>4 DEF Send
  <2>3. CallIsSound(m)'
    BY <1>1, <1>4, <2>1, <2>2, Gone DEF Send, CallIsSound, Rewrites
  <2> QED
    BY <1>3, <1>4, <2>1, <2>2, <2>3, Gone DEF Send
<1>5. ASSUME NEW m \in Messages, Initialize(m) PROVE Control'
  <2>1. Goto(m, "lock") /\ call[m].pc = "initialize"
    BY <1>5 DEF Initialize
  <2>2. m \in Calls /\ m \notin Marks
    BY <1>0
  <2>3. CallIsSound(m)'
    BY <1>1, <1>5, <2>1, <2>2, Gone DEF Initialize, CallIsSound, Rewrites
  <2>4. ASSUME NEW d \in Calls \ {m} PROVE CallIsSound(d)'
    <3>1. call'[d] = call[d]
      BY <2>1, <2>2, Gone
    <3> QED
      BY <1>1, <1>5, <3>1 DEF Initialize, CallIsSound, Rewrites
  <2> QED
    BY <1>5, <2>3, <2>4 DEF Initialize, Control
<1>6. ASSUME NEW c \in Calls, Return(c), call[c].pc # "done",
             UNCHANGED <<inbox, delivered, written, reader>>
      PROVE  Control'
  <2>1. CallIsSound(c)'
    BY <1>0, <1>1, <1>6, Returned DEF CallIsSound, Rewrites
  <2> QED
    BY <1>3, <1>6, <2>1, Returned
<1>7. ASSUME NEW c \in Calls, LockAndRead(c) PROVE Control'
  <2>1. call[c].pc = "lock" /\ UNCHANGED <<inbox, delivered, written, reader>>
    BY <1>7 DEF LockAndRead
  <2>2. CASE NothingToWrite(c)
    BY <1>6, <1>7, <2>1, <2>2 DEF LockAndRead
  <2>3. CASE ~NothingToWrite(c)
    <3>1. \A i \in DOMAIN NewContent(c) : NewContent(c)[i].msg \in written \cup {c}
      BY ContentIsWritten
    <3>2. CallIsSound(c)'
      BY <1>1, <1>7, <2>1, <2>3, <3>1, Locked DEF CallIsSound, Rewrites
    <3> QED
      BY <1>3, <1>7, <2>1, <2>3, <3>2, Locked
  <2> QED
    BY <2>2, <2>3
<1>8. ASSUME NEW c \in Calls, LockFails(c) PROVE Control'
  BY <1>6, <1>8 DEF LockFails, file
<1>9. ASSUME NEW c \in Calls, Truncate(c) PROVE Control'
  <2>1. Goto(c, "fill") /\ call[c].pc = "truncate"
    BY <1>9 DEF Truncate
  <2>2. CallIsSound(c)'
    <3>1. /\ call'[c].pc = "fill" /\ call'[c].op = call[c].op
          /\ call'[c].content = call[c].content
      BY <2>1, Gone
    <3>2. c \notin written /\ \A i \in DOMAIN call[c].content :
                                call[c].content[i].msg \in written \cup {c}
      BY <1>1, <2>1 DEF CallIsSound, Rewrites
    <3>3. inbox' = <<>> /\ written' = written /\ reader' = reader
      BY <1>9 DEF Truncate
    <3> QED
      BY <1>1, <3>1, <3>2, <3>3 DEF CallIsSound
  <2>3. ASSUME NEW d \in Calls \ {c} PROVE CallIsSound(d)'
    <3>1. call'[d] = call[d]
      BY <2>1, Gone
    <3> QED
      BY <1>1, <1>9, <3>1 DEF Truncate, CallIsSound, Rewrites
  <2> QED
    BY <1>9, <2>2, <2>3 DEF Truncate, Control
<1>10. ASSUME NEW c \in Calls, Fill(c) PROVE Control'
  <2>1. Return(c) /\ call[c].pc = "fill" /\ inbox' = call[c].content
        /\ written' = written \cup ({c} \cap Messages) /\ UNCHANGED <<delivered, reader>>
    BY <1>10 DEF Fill
  <2>2. \A i \in DOMAIN inbox' : inbox'[i].msg \in written'
    <3>1. \A i \in DOMAIN call[c].content : call[c].content[i] \in Entries
      BY DEF TypeOK, CallStates
    <3>2. \A i \in DOMAIN call[c].content :
            call[c].content[i].msg \in Messages /\ call[c].content[i].msg \in written \cup {c}
      BY <1>1, <2>1, <3>1 DEF Entries, CallIsSound, Rewrites
    <3> QED
      BY <2>1, <3>2
  <2>3. CallIsSound(c)'
    <3>1. c \in written' => c \in Messages
      BY <2>1 DEF TypeOK
    <3>2. /\ call'[c].pc \in {"idle", "done"} /\ call'[c].op = "send"
          /\ c \in Messages => call'[c].pc = "done"
      BY <2>1, Returned
    <3>3. ~Rewrites(c)' /\ call'[c].pc \notin {"lock", "fill"} /\ call'[c].op # "all"
      BY <3>2 DEF Rewrites
    <3> QED
      BY <3>1, <3>2, <3>3 DEF CallIsSound
  <2>4. ASSUME NEW d \in Calls \ {c} PROVE CallIsSound(d)'
    <3>1. call'[d] = call[d] /\ ~Rewrites(d)
      BY <2>1, Returned, OneRewrites DEF Rewrites
    <3> QED
      BY <1>2, <2>1, <3>1 DEF Rewrites
  <2> QED
    BY <2>1, <2>2, <2>3, <2>4 DEF Control
<1>11. ASSUME NEW k \in Marks, Poll(k) \/ Attach(k) \/ WaitForNext(k) PROVE Control'
  <2>1. PICK found \in SUBSET DOMAIN inbox, op \in {"all", "plain", "index"}, at \in Nat :
          Take(k, found, op, at) /\ (op = "all" => reader # "teammate")
    BY <1>11, AgentTakes
  <2>2. delivered' \subseteq written' /\ UNCHANGED <<inbox, reader, written>>
    BY <2>1 DEF Take, Control, file
  <2>3. k \in Calls /\ k \notin written
    BY <1>0 DEF TypeOK
  <2>4. CallIsSound(k)'
    BY <2>1, <2>2, <2>3, Taken DEF CallIsSound, Rewrites
  <2>5. \A d \in Calls \ {k} : CallIsSound(d)'
    BY <1>2, <2>1, <2>2, Taken
  <2> QED
    BY <2>2, <2>4, <2>5 DEF Control
<1>12. ASSUME NEW dead \in SUBSET Calls, Die(dead) PROVE Control'
  <2>1. UNCHANGED <<inbox, delivered, written, reader>>
    BY <1>12 DEF Die
  <2>2. \A c \in dead : CallIsSound(c)'
    BY <1>0, <1>12, <2>1, Buried DEF CallIsSound, Rewrites, TypeOK
  <2>3. \A c \in Calls \ dead : CallIsSound(c)'
    BY <1>2, <1>12, <2>1, Buried
  <2> QED
    BY <2>1, <2>2, <2>3 DEF Control
<1>13. ASSUME NEW m \in Messages, SenderDies(m) PROVE Control'
  BY <1>12, <1>13 DEF SenderDies, Calls
<1>14. CASE ReaderDies
  BY <1>12, <1>14 DEF ReaderDies, Calls
<1>15. CASE LockStale
  BY <1>2, <1>15 DEF LockStale, Control
<1>16. CASE UNCHANGED vars
  BY <1>2, <1>16 DEF vars, file, Control
<1>17. ASSUME NEW m \in Messages, SendFails(m) PROVE Control'
  BY <1>6, <1>17 DEF SendFails, file, Calls
<1> QED
  BY <1>4, <1>5, <1>7, <1>8, <1>9, <1>10, <1>11, <1>13, <1>14, <1>15, <1>16, <1>17
  DEF Next, Advance

LEMMA KeptStep == TypeOK /\ Control /\ Kept /\ [Next]_vars => Kept'
<1> SUFFICES ASSUME TypeOK, Control, Kept, [Next]_vars, ~clobbered' PROVE Kept'
  BY DEF Kept
<1>0. Messages \subseteq Calls /\ Marks \subseteq Calls
  BY DEF Calls
<1>1. ASSUME ~clobbered, UNCHANGED <<inbox, written>>,
             \A c \in Calls :
               call'[c] = call[c] \/ (call[c].pc # "fill" /\ call'[c].pc \notin {"truncate", "fill"})
      PROVE  Kept'
  <2>1. \A c \in Calls : KeptBy(c)'
    BY <1>1 DEF Kept, KeptBy, Rewrites
  <2>2. (\A c \in Calls : call'[c].pc # "fill") => \A c \in Calls : call[c].pc # "fill"
    BY <1>1
  <2>3. (\A c \in Calls : call'[c].pc # "fill") => \A m \in written' : StandsOnce(m, inbox)'
    BY <1>1, <2>2 DEF Kept, StandsOnce
  <2> QED
    BY <2>1, <2>3 DEF Kept
<1>2. ASSUME NEW m \in Messages, Send(m) PROVE Kept'
  <2>1. PICK pc \in {"lock", "initialize"} : Goto(m, pc)
    BY <1>2 DEF Send
  <2>2. m \in Calls /\ call[m].pc = "idle" /\ ~clobbered /\ UNCHANGED <<inbox, written>>
    BY <1>0, <1>2 DEF Send
  <2>3. /\ call'[m].pc \notin {"truncate", "fill"}
        /\ \A d \in Calls \ {m} : call'[d] = call[d]
    BY <2>1, <2>2, Gone
  <2> QED
    BY <1>1, <2>2, <2>3
<1>3. ASSUME NEW m \in Messages, Initialize(m) PROVE Kept'
  <2>1. Goto(m, "lock") /\ call[m].pc = "initialize" /\ ~clobbered /\ UNCHANGED <<inbox, written>>
    BY <1>3 DEF Initialize
  <2>2. /\ m \in Calls /\ call'[m].pc = "lock"
        /\ \A d \in Calls \ {m} : call'[d] = call[d]
    BY <1>0, <2>1, Gone
  <2> QED
    BY <1>1, <2>1, <2>2
<1>4. ASSUME NEW c \in Calls, Return(c), call[c].pc # "fill", UNCHANGED <<inbox, written, clobbered>>
      PROVE  Kept'
  BY <1>1, <1>4, Returned
<1>5. ASSUME NEW c \in Calls, LockAndRead(c) PROVE Kept'
  <2>1. call[c].pc = "lock" /\ lock = None /\ UNCHANGED <<inbox, written, clobbered>>
    BY <1>5 DEF LockAndRead
  <2>2. CASE NothingToWrite(c)
    BY <1>4, <1>5, <2>1, <2>2 DEF LockAndRead
  <2>3. CASE ~NothingToWrite(c)
    <3>1. \A d \in Calls : ~Rewrites(d)
      BY <2>1, OneRewrites
    <3>2. \A m \in written : StandsOnce(m, inbox)
      BY <2>1, <3>1 DEF Kept, Rewrites
    <3>3. \A m \in written \cup ({c} \cap Messages) : StandsOnce(m, NewContent(c))
      BY <2>1, <3>2, ContentKeeps
    <3>4. KeptBy(c)'
      BY <1>5, <2>1, <2>3, <3>3, Locked DEF KeptBy, StandsOnce
    <3>5. \A d \in Calls \ {c} : KeptBy(d)'
      BY <1>5, <2>3, <3>1, Locked DEF KeptBy, Rewrites
    <3>6. \A m \in written' : StandsOnce(m, inbox)'
      BY <2>1, <3>2 DEF StandsOnce
    <3> QED
      BY <3>4, <3>5, <3>6 DEF Kept
  <2> QED
    BY <2>2, <2>3
<1>6. ASSUME NEW c \in Calls, LockFails(c) PROVE Kept'
  BY <1>4, <1>6 DEF LockFails, file
<1>7. ASSUME NEW c \in Calls, Truncate(c) PROVE Kept'
  <2>1. Goto(c, "fill") /\ call[c].pc = "truncate" /\ UNCHANGED <<written, clobbered>>
    BY <1>7 DEF Truncate
  <2>2. ASSUME NEW d \in Calls PROVE KeptBy(d)'
    <3>1. call'[d].content = call[d].content /\ (Rewrites(d)' => Rewrites(d))
      BY <2>1, Gone DEF Rewrites
    <3>2. KeptBy(d)
      BY <2>1 DEF Kept
    <3> QED
      BY <2>1, <3>1, <3>2 DEF KeptBy, StandsOnce
  <2>3. call'[c].pc = "fill"
    BY <2>1, Gone
  <2> QED
    BY <2>2, <2>3 DEF Kept
<1>8. ASSUME NEW c \in Calls, Fill(c) PROVE Kept'
  <2>1. Return(c) /\ call[c].pc = "fill" /\ inbox' = call[c].content
        /\ written' = written \cup ({c} \cap Messages) /\ UNCHANGED clobbered
    BY <1>8 DEF Fill
  <2>2. \A m \in written' : StandsOnce(m, inbox)'
    BY <2>1 DEF Kept, KeptBy, Rewrites, StandsOnce
  <2>3. \A d \in Calls : ~Rewrites(d)'
    BY <2>1, Returned, OneRewrites DEF Rewrites
  <2> QED
    BY <2>2, <2>3 DEF Kept, KeptBy
<1>9. ASSUME NEW k \in Marks, Poll(k) \/ Attach(k) \/ WaitForNext(k) PROVE Kept'
  <2>1. PICK found \in SUBSET DOMAIN inbox, op \in {"all", "plain", "index"}, at \in Nat :
          Take(k, found, op, at)
    BY <1>9, AgentTakes
  <2>2. UNCHANGED <<inbox, written, clobbered>>
    BY <2>1 DEF Take, file
  <2> QED
    BY <1>1, <2>1, <2>2, Taken
<1>10. ASSUME NEW dead \in SUBSET Calls, Die(dead) PROVE Kept'
  <2>1. ~clobbered /\ UNCHANGED <<inbox, written>>
    BY <1>10 DEF Die
  <2>2. CASE \E c \in dead : call[c].pc = "fill"
    <3>1. written' = {}
      BY <1>10, <2>1, <2>2, NothingBuried
    <3>2. \A c \in dead : KeptBy(c)'
      BY <1>10, Buried DEF KeptBy, Rewrites
    <3>3. \A c \in Calls \ dead : KeptBy(c)'
      BY <1>10, <2>1, Buried DEF Kept, KeptBy, Rewrites, StandsOnce
    <3> QED
      BY <3>1, <3>2, <3>3 DEF Kept
  <2>3. CASE \A c \in dead : call[c].pc # "fill"
    BY <1>1, <1>10, <2>1, <2>3, Buried
  <2> QED
    BY <2>2, <2>3
<1>11. ASSUME NEW m \in Messages, SenderDies(m) PROVE Kept'
  BY <1>0, <1>10, <1>11 DEF SenderDies
<1>12. CASE ReaderDies
  BY <1>0, <1>10, <1>12 DEF ReaderDies
<1>13. CASE LockStale
  BY <1>1, <1>13 DEF LockStale
<1>14. CASE UNCHANGED vars
  BY <1>1, <1>14 DEF vars, file
<1>15. ASSUME NEW m \in Messages, SendFails(m) PROVE Kept'
  BY <1>4, <1>15 DEF SendFails, file, Calls
<1> QED
  BY <1>2, <1>3, <1>5, <1>6, <1>7, <1>8, <1>9, <1>11, <1>12, <1>13, <1>14, <1>15
  DEF Next, Advance

LEMMA PositionsStep ==
  TypeOK /\ Control /\ Kept /\ Positions /\ [Next]_vars => Positions'
<1> SUFFICES ASSUME TypeOK, Control, Kept, Positions, [Next]_vars,
                    reader' = "teammate", ~clobbered'
             PROVE  Positions'
  BY DEF Positions
<1>0. Messages \subseteq Calls /\ Marks \subseteq Calls /\ Messages \cap Marks = {}
  BY ConstantsAssumption DEF Calls
<1>1. \A e : delivered \subseteq delivered' /\ Handled(e) => Handled(e)'
  BY DEF Handled
<1>2. \A i, s : delivered \subseteq delivered' /\ Found(i, s) => Found(i, s)'
  BY DEF Found
<1>3. ASSUME reader = "teammate", ~clobbered, inbox' = inbox, delivered \subseteq delivered',
             \A c \in Calls :
               \/ call'[c] = call[c]
               \/ /\ call[c].pc # "fill" /\ call'[c].pc \notin {"truncate", "fill"}
                  /\ FoundBy(c)'
      PROVE  Positions'
  <2>1. \A i \in DOMAIN inbox' : Handled(inbox[i])'
    BY <1>1, <1>3 DEF Positions
  <2>2. ASSUME NEW c \in Calls PROVE HandledBy(c)' /\ AlignedBy(c)'
    <3>1. HandledBy(c) /\ AlignedBy(c)
      BY <1>3 DEF Positions
    <3> QED
      BY <1>1, <1>3, <3>1 DEF HandledBy, AlignedBy, Rewrites, Handled
  <2>3. ASSUME NEW k \in Calls PROVE FoundBy(k)'
    <3>1. CASE call'[k] = call[k]
      <4>1. (\A c \in Calls : call'[c].pc # "fill") => \A c \in Calls : call[c].pc # "fill"
        BY <1>3
      <4>2. \A c \in Calls : Rewrites(c)' => Rewrites(c) /\ call'[c] = call[c]
        BY <1>3 DEF Rewrites
      <4>3. FoundBy(k)
        BY <1>3 DEF Positions
      <4> QED
        BY <1>3, <3>1, <4>1, <4>2, <4>3 DEF FoundBy, Found
    <3>2. CASE call'[k] # call[k]
      BY <1>3, <3>2
    <3> QED
      BY <3>1, <3>2
  <2> QED
    BY <2>1, <2>2, <2>3 DEF Positions, Handled
<1>4. ASSUME NEW m \in Messages, Send(m) PROVE Positions'
  <2>1. PICK pc \in {"lock", "initialize"} : Goto(m, pc)
    BY <1>4 DEF Send
  <2>2. m \in Calls /\ call[m].pc = "idle" /\ UNCHANGED <<inbox, delivered, reader, clobbered>>
    BY <1>0, <1>4 DEF Send
  <2>3. /\ call'[m].pc \notin {"truncate", "fill"}
        /\ \A d \in Calls \ {m} : call'[d] = call[d]
    BY <2>1, <2>2, Gone
  <2>4. FoundBy(m)'
    BY <1>0 DEF FoundBy
  <2> QED
    BY <1>3, <2>2, <2>3, <2>4
<1>5. ASSUME NEW m \in Messages, Initialize(m) PROVE Positions'
  <2>1. /\ Goto(m, "lock") /\ call[m].pc = "initialize"
        /\ ~clobbered /\ UNCHANGED <<inbox, delivered, reader>>
    BY <1>5 DEF Initialize
  <2>2. /\ m \in Calls /\ call'[m].pc = "lock"
        /\ \A d \in Calls \ {m} : call'[d] = call[d]
    BY <1>0, <2>1, Gone
  <2>3. FoundBy(m)'
    BY <1>0 DEF FoundBy
  <2> QED
    BY <1>3, <2>1, <2>2, <2>3
<1>6. ASSUME NEW c \in Calls, Return(c), call[c].pc # "fill",
             UNCHANGED <<inbox, delivered, reader, clobbered>>
      PROVE  Positions'
  <2>1. call'[c].pc \in {"idle", "done"} /\ \A d \in Calls \ {c} : call'[d] = call[d]
    BY <1>6, Returned
  <2>2. FoundBy(c)'
    BY <2>1 DEF FoundBy
  <2> QED
    BY <1>3, <1>6, <2>1, <2>2
<1>7. ASSUME NEW c \in Calls, LockAndRead(c) PROVE Positions'
  <2>1. call[c].pc = "lock" /\ lock = None /\ UNCHANGED <<inbox, delivered, reader, clobbered>>
    BY <1>7 DEF LockAndRead
  <2>2. CASE NothingToWrite(c)
    BY <1>6, <1>7, <2>1, <2>2 DEF LockAndRead
  <2>3. CASE ~NothingToWrite(c)
    <3>1. \A d \in Calls : ~Rewrites(d)
      BY <2>1, OneRewrites
    <3>2. \A k \in Marks : call[k].pc = "lock" /\ call[k].op = "index" => Found(call[k].at, inbox)
      BY <1>0, <2>1, <3>1 DEF Positions, FoundBy, Rewrites
    <3>3. \A i \in DOMAIN inbox : Handled(inbox[i])
      BY <2>1 DEF Positions
    <3>4. \A i \in DOMAIN NewContent(c) : Handled(NewContent(c)[i])
      BY <2>1, <3>2, <3>3, ContentIsHandled
    <3>5. /\ call'[c].pc = "truncate" /\ call'[c].content = NewContent(c)
          /\ \A d \in Calls \ {c} : call'[d] = call[d] /\ ~Rewrites(d)'
      BY <1>7, <2>3, <3>1, Locked DEF Rewrites
    <3>6. HandledBy(c)' /\ AlignedBy(c)' /\ FoundBy(c)'
      BY <2>1, <3>4, <3>5, ContentExtends DEF HandledBy, AlignedBy, FoundBy, Handled
    <3>7. ASSUME NEW d \in Calls \ {c} PROVE HandledBy(d)' /\ AlignedBy(d)'
      BY <3>5 DEF HandledBy, AlignedBy, Rewrites
    <3>8. ASSUME NEW d \in Calls \ {c} PROVE FoundBy(d)'
      <4>1. \A i : Found(i, inbox) => Found(i, NewContent(c))
        BY ContentExtends DEF Found
      <4> QED
        BY <2>1, <3>2, <3>5, <4>1 DEF FoundBy, Found
    <3>9. \A i \in DOMAIN inbox' : Handled(inbox[i])'
      BY <2>1, <3>3 DEF Handled
    <3> QED
      BY <3>6, <3>7, <3>8, <3>9 DEF Positions, Handled
  <2> QED
    BY <2>2, <2>3
<1>8. ASSUME NEW c \in Calls, LockFails(c) PROVE Positions'
  BY <1>6, <1>8 DEF LockFails, file
<1>9. ASSUME NEW c \in Calls, Truncate(c) PROVE Positions'
  <2>1. /\ Goto(c, "fill") /\ call[c].pc = "truncate" /\ inbox' = <<>>
        /\ UNCHANGED <<delivered, reader, clobbered>>
    BY <1>9 DEF Truncate
  <2>2. call'[c].pc = "fill" /\ call'[c].content = call[c].content
        /\ \A d \in Calls \ {c} : call'[d] = call[d] /\ ~Rewrites(d)
    BY <2>1, Gone, OneRewrites DEF Rewrites
  <2>3. HandledBy(c)' /\ AlignedBy(c)' /\ FoundBy(c)'
    <3>1. \A i \in DOMAIN call[c].content : Handled(call[c].content[i])
      BY <2>1 DEF Positions, HandledBy, Rewrites
    <3> QED
      BY <2>1, <2>2, <3>1 DEF HandledBy, AlignedBy, FoundBy, Handled
  <2>4. ASSUME NEW d \in Calls \ {c} PROVE HandledBy(d)' /\ AlignedBy(d)'
    BY <2>2 DEF HandledBy, AlignedBy, Rewrites
  <2>5. ASSUME NEW d \in Calls \ {c} PROVE FoundBy(d)'
    <3>1. FoundBy(d)
      BY <2>1 DEF Positions
    <3>2. d \in Marks /\ call[d].pc = "lock" /\ call[d].op = "index" =>
            Found(call[d].at, call[c].content)
      BY <2>1, <3>1 DEF FoundBy, Rewrites
    <3> QED
      BY <2>1, <2>2, <3>2 DEF FoundBy, Found, Rewrites
  <2> QED
    BY <2>1, <2>3, <2>4, <2>5 DEF Positions
<1>10. ASSUME NEW c \in Calls, Fill(c) PROVE Positions'
  <2>1. /\ Return(c) /\ call[c].pc = "fill" /\ inbox' = call[c].content
        /\ UNCHANGED <<delivered, reader, clobbered>>
    BY <1>10 DEF Fill
  <2>2. /\ call'[c].pc \in {"idle", "done"}
        /\ \A d \in Calls \ {c} : call'[d] = call[d] /\ ~Rewrites(d)
    BY <2>1, Returned, OneRewrites DEF Rewrites
  <2>3. \A i \in DOMAIN inbox' : Handled(inbox[i])'
    <3>1. \A i \in DOMAIN call[c].content : Handled(call[c].content[i])
      BY <2>1 DEF Positions, HandledBy, Rewrites
    <3> QED
      BY <2>1, <3>1 DEF Handled
  <2>4. ASSUME NEW d \in Calls PROVE HandledBy(d)' /\ AlignedBy(d)' /\ ~Rewrites(d)'
    BY <2>2 DEF HandledBy, AlignedBy, Rewrites
  <2>5. ASSUME NEW d \in Calls PROVE FoundBy(d)'
    <3>1. CASE d = c
      BY <2>2, <3>1 DEF FoundBy
    <3>2. CASE d # c
      <4>1. FoundBy(d)
        BY <2>1 DEF Positions
      <4>2. d \in Marks /\ call[d].pc = "lock" /\ call[d].op = "index" =>
              Found(call[d].at, call[c].content)
        BY <2>1, <4>1 DEF FoundBy, Rewrites
      <4> QED
        BY <2>1, <2>2, <2>4, <3>2, <4>2 DEF FoundBy, Found
    <3> QED
      BY <3>1, <3>2
  <2> QED
    BY <2>3, <2>4, <2>5 DEF Positions
<1>11. ASSUME NEW k \in Marks, Poll(k) \/ Attach(k) \/ WaitForNext(k) PROVE Positions'
  <2>1. PICK found \in SUBSET DOMAIN inbox, op \in {"all", "plain", "index"}, at \in Nat :
          Take(k, found, op, at) /\ (op = "index" => found = {at})
    BY <1>11, AgentTakes
  <2>2. /\ UNCHANGED <<inbox, reader, clobbered>>
        /\ delivered' = delivered \cup {inbox[i].msg : i \in found}
    BY <2>1 DEF Take, file
  <2>3. /\ k \in Calls /\ call[k].pc = "idle"
        /\ call'[k].pc = "lock" /\ call'[k].op = op /\ call'[k].at = at
        /\ \A d \in Calls \ {k} : call'[d] = call[d]
    BY <2>1, Taken
  <2>4. ASSUME op = "index" PROVE FoundBy(k)'
    <3>1. at \in DOMAIN inbox /\ inbox[at].msg \in delivered'
      BY <2>1, <2>2, <2>4
    <3>2. ASSUME NEW c \in Calls, Rewrites(c) PROVE at \in DOMAIN call[c].content /\ call[c].content[at].msg = inbox[at].msg
      <4>1. inbox # <<>>
        BY <3>1
      <4>2. call[c].pc = "truncate"
        BY <3>2, <4>1 DEF Control, CallIsSound, Rewrites
      <4> QED
        BY <2>2, <3>1, <4>2 DEF Positions, AlignedBy
    <3>3. \A c \in Calls : Rewrites(c)' => Rewrites(c) /\ call'[c] = call[c]
      BY <2>3 DEF Rewrites
    <3> QED
      BY <2>2, <2>3, <3>1, <3>2, <3>3 DEF FoundBy, Found
  <2>5. FoundBy(k)'
    BY <2>3, <2>4 DEF FoundBy
  <2> QED
    BY <1>3, <2>2, <2>3, <2>5
<1>12. ASSUME NEW dead \in SUBSET Calls, Die(dead) PROVE Positions'
  <2>1. ~clobbered /\ UNCHANGED <<inbox, delivered, written, reader>>
    BY <1>12 DEF Die
  <2>2. /\ \A c \in dead : call'[c].pc \in {"idle", "done"}
        /\ \A c \in Calls \ dead : call'[c] = call[c]
    BY <1>12, Buried
  <2>3. \A c \in dead : FoundBy(c)'
    BY <2>2 DEF FoundBy
  <2>4. CASE \A c \in dead : call[c].pc # "fill"
    BY <1>3, <2>1, <2>2, <2>3, <2>4
  <2>5. CASE \E c \in dead : call[c].pc = "fill"
    <3>1. PICK c \in dead : call[c].pc = "fill"
      BY <2>5
    <3>2. written = {} /\ delivered = {}
      BY <1>12, <3>1, NothingBuried DEF Control
    <3>3. \A d \in Calls \ dead : ~Rewrites(d)
      BY <3>1, OneRewrites DEF Rewrites
    <3>4. ASSUME NEW d \in Calls PROVE HandledBy(d)' /\ AlignedBy(d)'
      BY <2>2, <3>3 DEF HandledBy, AlignedBy, Rewrites
    <3>5. ASSUME NEW d \in Calls \ dead PROVE FoundBy(d)'
      <4>1. FoundBy(d)
        BY <2>1 DEF Positions
      <4>2. ~(d \in Marks /\ call[d].pc = "lock" /\ call[d].op = "index")
        BY <3>1, <3>2, <4>1 DEF FoundBy, Found, Rewrites
      <4> QED
        BY <2>2, <4>2 DEF FoundBy
    <3>6. \A i \in DOMAIN inbox' : Handled(inbox[i])'
      BY <2>1 DEF Positions, Handled
    <3> QED
      BY <2>3, <3>4, <3>5, <3>6 DEF Positions, Handled
  <2> QED
    BY <2>4, <2>5
<1>13. ASSUME NEW m \in Messages, SenderDies(m) PROVE Positions'
  BY <1>0, <1>12, <1>13 DEF SenderDies
<1>14. CASE ReaderDies
  BY <1>0, <1>12, <1>14 DEF ReaderDies
<1>15. CASE LockStale
  BY <1>3, <1>15 DEF LockStale
<1>16. CASE UNCHANGED vars
  BY <1>3, <1>16 DEF vars, file
<1>17. ASSUME NEW m \in Messages, SendFails(m) PROVE Positions'
  BY <1>6, <1>17 DEF SendFails, file, Calls
<1> QED
  BY <1>4, <1>5, <1>7, <1>8, <1>9, <1>10, <1>11, <1>13, <1>14, <1>15, <1>16, <1>17
  DEF Next, Advance

LEMMA Inductive == Spec => []IInv
<1>1. IInv /\ [Next]_vars => IInv'
  BY TypingStep, ControlStep, KeptStep, PositionsStep DEF IInv
<1> QED
  BY <1>1, InitInv, PTL DEF Spec

------------------------------------------------------------------------------
(* No message that was written is lost to a concurrent rewrite, whoever    *)
(* sends and marks, gives up or dies.                                      *)
THEOREM NoLoss == Spec => []WrittenStay
<1>1. IInv => WrittenStay
  <2> SUFFICES ASSUME IInv, ~clobbered PROVE \A m \in written : StandsOnce(m, Content)
    BY DEF WrittenStay
  <2>1. CASE lock \in Calls /\ call[lock].pc = "fill"
    <3>1. KeptBy(lock) /\ Rewrites(lock)
      BY <2>1 DEF IInv, Kept, Rewrites
    <3> QED
      BY <2>1, <3>1 DEF Content, KeptBy
  <2>2. CASE ~(lock \in Calls /\ call[lock].pc = "fill")
    <3>1. \A c \in Calls : call[c].pc # "fill"
      BY <2>2 DEF IInv, TypeOK
    <3> QED
      BY <2>2, <3>1 DEF Content, IInv, Kept
  <2> QED
    BY <2>1, <2>2
<1> QED
  BY <1>1, Inductive, PTL

(* A teammate in the lead's process marks no protocol message as read that *)
(* it has not taken in hand, although it reads without the lock and then   *)
(* marks by position.                                                      *)
THEOREM NoneMistaken == Spec => []ProtocolIsHandled
<1>1. IInv => ProtocolIsHandled
  <2> SUFFICES ASSUME IInv, reader = "teammate", ~clobbered
               PROVE  \A i \in DOMAIN Content : Handled(Content[i])
    BY DEF ProtocolIsHandled
  <2>1. CASE lock \in Calls /\ call[lock].pc = "fill"
    <3>1. HandledBy(lock) /\ Rewrites(lock)
      BY <2>1 DEF IInv, Positions, Rewrites
    <3> QED
      BY <2>1, <3>1 DEF Content, HandledBy
  <2>2. CASE ~(lock \in Calls /\ call[lock].pc = "fill")
    BY <2>2 DEF Content, IInv, Positions
  <2> QED
    BY <2>1, <2>2
<1> QED
  BY <1>1, Inductive, PTL
=============================================================================
