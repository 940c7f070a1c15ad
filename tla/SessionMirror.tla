---------------------------- MODULE SessionMirror ----------------------------
(***************************************************************************)
(* What the worker state uploader promises to those who watch a session    *)
(* (cli/transports/WorkerStateUploader.ts): the record they see is the     *)
(* merge of what the session has reported up to some moment, and it only   *)
(* moves on to later moments.  Moments may be skipped, but the patches are *)
(* neither reordered nor mixed, and no retry of an old one takes the       *)
(* record back.                                                            *)
(***************************************************************************)
EXTENDS Naturals, Sequences, SequencesExt, Coalescing

CONSTANTS Base  \* the record before the first report

VARIABLES
    reports,  \* what the session has reported, in order
    record,   \* what is shown
    moment    \* how many of the reports it shows

vars == <<reports, record, moment>>

Init == moment = 0 /\ record = Base

Report ==
    /\ IsPrefix(reports, reports')
    /\ UNCHANGED <<record, moment>>

Show ==
    /\ \E n \in moment..Len(reports) :
         moment' = n /\ record' = Merged(Base, SubSeq(reports, 1, n))
    /\ UNCHANGED reports

Next == Report \/ Show

Spec == Init /\ [][Next]_vars
=============================================================================
