----------------------------- MODULE WorkerState -----------------------------
(***************************************************************************)
(* The state of a session as its server shows it: the notifications of     *)
(* utils/sessionState.ts, the deduplication of CCRClient.reportState, and  *)
(* the coalescing uploader of PUT /worker                                  *)
(* (cli/transports/WorkerStateUploader.ts).                                *)
(*                                                                         *)
(* The fields of external_metadata stand beside worker_status, for         *)
(* coalescing and the server's RFC 7396 merge work on each of them.        *)
(* The specification is WorkerSpec, so that CodeServer can be extended     *)
(* beside it.                                                              *)
(***************************************************************************)
EXTENDS Integers, Sequences, SequencesExt, Coalescing

CONSTANTS
    Details,      \* what a prompt asks (RequiresActionDetails)
    Models,       \* values of the model, a field of the metadata
    Nothing,      \* null
    MaxReports    \* how many patches are reported: a bound of the model

ASSUME WorkerStateAssumption ==
    /\ Nothing \notin Details \union Models
    /\ MaxReports \in Nat \ {0}

Fields == {"worker_status", "pending_action", "task_summary", "model"}
Statuses == {"idle", "running"} \union Details  \* details: 'requires_action'
Empty == [f \in {} |-> Nothing]

(* The server's record when the worker starts: what a crashed one has left. *)
Stale == [f \in Fields |-> "stale"]

VARIABLES
    awaits,           \* whether the session waits for initialize() to report
    hasPendingAction, \* of sessionState.ts
    init,             \* initialize(): its PUT is sent, applied, has returned or failed
    current,          \* CCRClient.currentState
    pending,          \* the pending patch, empty when there is none
    payload,          \* the patch of sendWithRetry, with what it has absorbed
    upload,           \* sendWithRetry does not run, waits for the answer, or sleeps
    closed,
    server,           \* the record of the server
    reports,          \* history: the session's patches, in the order of its calls
    carried,          \* history: how many of the reports have gone into a PUT
    shown,            \* history: how many of them the server shows
    settled           \* history: fields that initialize() can overwrite no more

workerVars == <<awaits, hasPendingAction, init, current, pending, payload, upload,
                closed, server, reports, carried, shown, settled>>

InitPatch == [f \in {"worker_status", "pending_action", "task_summary"} |->
                IF f = "worker_status" THEN "idle" ELSE Nothing]

(* The worker is constructed and initialize() has sent its PUT.  print.ts    *)
(* awaits its return for a session that it resumes; for others RemoteIO goes *)
(* on at once.                                                               *)
WorkerInit ==
    /\ awaits \in BOOLEAN
    /\ hasPendingAction = FALSE
    /\ init = "sent" /\ current = Nothing
    /\ pending = Empty /\ payload = Empty /\ upload = "quiet"
    /\ closed = FALSE
    /\ server = Stale
    /\ reports = <<InitPatch>> /\ carried = 1 /\ shown = 0
    /\ settled = Fields \ DOMAIN InitPatch

-----------------------------------------------------------------------------
(* Helpers *)

(* Mutant of EnqueueAll: a patch replaces the pending one. *)
EnqueueReplaces(patches) ==
    IF closed \/ patches = <<>>
    THEN UNCHANGED <<pending, payload, upload, carried>>
    ELSE IF upload = "quiet"
    THEN /\ upload' = "sending" /\ payload' = Head(patches)
         /\ pending' = Merged(Empty, Tail(patches))
         /\ carried' = Len(reports') - Len(Tail(patches))
    ELSE pending' = Merged(Empty, patches) /\ UNCHANGED <<payload, upload, carried>>

(* enqueue, called for each patch in one go, which are the last reports: the *)
(* first one is sent when nothing is in flight, the others coalesce behind   *)
(* it.                                                                       *)
EnqueueAll(patches) ==
    IF closed \/ patches = <<>>
    THEN UNCHANGED <<pending, payload, upload, carried>>
    ELSE IF upload = "quiet"
    THEN /\ upload' = "sending" /\ payload' = Head(patches)
         /\ pending' = Merged(Empty, Tail(patches))
         /\ carried' = Len(reports') - Len(Tail(patches))
    ELSE /\ pending' = Merged(pending, patches)
         /\ UNCHANGED <<payload, upload, carried>>

(* What the patches that are sent after initialize() has returned settle.    *)
Settle(patches) ==
    settled' = IF init = "done"
               THEN settled \union UNION {DOMAIN patches[i] : i \in DOMAIN patches}
               ELSE settled

(* Whether the session may report. *)
MayReport(patches) ==
    /\ awaits => init = "done"
    /\ Len(reports) + Len(patches) <= MaxReports

-----------------------------------------------------------------------------
(* The session *)

(* notifySessionStateChanged(status): reportState, which drops a state that  *)
(* has not changed and has no details, then the metadata that goes with it.  *)
NotifyState(status) ==
    LET blocked == status \in Details
        first  == [f \in {"worker_status"} |-> status]
        action == CASE blocked -> <<[f \in {"pending_action"} |-> status]>>
                    [] hasPendingAction /\ ~blocked ->
                         <<[f \in {"pending_action"} |-> Nothing]>>
                    [] OTHER -> <<>>
        rest   == action \o (IF status = "idle"
                             THEN <<[f \in {"task_summary"} |-> Nothing]>> ELSE <<>>)
        same   == status = current /\ ~blocked
        sent   == IF same THEN rest ELSE <<first>> \o rest
    IN  /\ MayReport(<<first>> \o rest)
        /\ current' = status
        /\ hasPendingAction' = blocked
        /\ reports' = reports \o <<first>> \o rest
        /\ EnqueueAll(sent) /\ Settle(sent)
        /\ UNCHANGED <<awaits, init, closed, server, shown>>

(* reportMetadata, for the model and for the progress of a turn. *)
NotifyMetadata(patch) ==
    /\ MayReport(<<patch>>)
    /\ reports' = Append(reports, patch)
    /\ EnqueueAll(<<patch>>) /\ Settle(<<patch>>)
    /\ UNCHANGED <<awaits, hasPendingAction, init, current, closed, server, shown>>

Metadata == [{"model"} -> Models] \union [{"task_summary"} -> {"progress"}]

(* close(): what is pending is dropped. *)
Close ==
    /\ ~closed
    /\ closed' = TRUE /\ pending' = Empty
    /\ UNCHANGED <<awaits, hasPendingAction, init, current, payload, upload, server,
                   reports, carried, shown, settled>>

-----------------------------------------------------------------------------
(* initialize() *)

InitApplied ==
    /\ init = "sent"
    /\ init' = "applied" /\ server' = Coalesce(server, InitPatch) /\ shown' = 1
    /\ UNCHANGED <<awaits, hasPendingAction, current, pending, payload, upload, closed,
                   reports, carried, settled>>

(* The answer arrives: this.currentState = 'idle', which is what the server  *)
(* shows unless something else has been reported in the meantime.            *)
InitReturns ==
    /\ init = "applied"
    /\ init' = "done" /\ current' = "idle"
    /\ settled' = IF Len(reports) = 1 THEN Fields ELSE settled
    /\ UNCHANGED <<awaits, hasPendingAction, pending, payload, upload, closed, server,
                   reports, carried, shown>>

(* The PUT fails, or its answer does not come: initialize() throws, and its  *)
(* callers close the client.                                                 *)
InitFails ==
    /\ init \in {"sent", "applied"}
    /\ init' = "failed" /\ closed' = TRUE /\ pending' = Empty
    /\ UNCHANGED <<awaits, hasPendingAction, current, payload, upload, server, reports,
                   carried, shown, settled>>

-----------------------------------------------------------------------------
(* The uploader *)

(* The server applies the patch of a PUT. *)
Apply == server' = Coalesce(server, payload) /\ shown' = carried

(* Mutant of Drain: what came in during the PUT waits for the next enqueue. *)
DrainOnce == upload' = "quiet" /\ payload' = Empty /\ UNCHANGED <<pending, carried>>

(* drain, when sendWithRetry has returned. *)
Drain ==
    IF pending # Empty /\ ~closed
    THEN /\ upload' = "sending" /\ payload' = pending /\ pending' = Empty
         /\ carried' = Len(reports)
    ELSE upload' = "quiet" /\ payload' = Empty /\ UNCHANGED <<pending, carried>>

PutSucceeds ==
    /\ upload = "sending"
    /\ Apply /\ Drain
    /\ UNCHANGED <<awaits, hasPendingAction, init, current, closed, reports, settled>>

(* The PUT fails, or times out; the server may have applied it. *)
PutFails ==
    /\ upload = "sending"
    /\ upload' = "sleeping"
    /\ Apply \/ UNCHANGED <<server, shown>>
    /\ UNCHANGED <<awaits, hasPendingAction, init, current, pending, payload, closed,
                   reports, carried, settled>>

(* Mutant of Wake: the failed patch is merged over what came in after it. *)
WakeOldWins ==
    /\ upload = "sleeping"
    /\ IF closed
       THEN upload' = "quiet" /\ payload' = Empty /\ UNCHANGED <<pending, carried>>
       ELSE /\ upload' = "sending"
            /\ payload' = Coalesce(pending, payload) /\ pending' = Empty
            /\ carried' = Len(reports)
    /\ UNCHANGED <<awaits, hasPendingAction, init, current, closed, server, reports, shown,
                   settled>>

(* After the delay the patches that have come in between are absorbed; a     *)
(* client that is closed sends nothing more.                                 *)
Wake ==
    /\ upload = "sleeping"
    /\ IF closed
       THEN upload' = "quiet" /\ payload' = Empty /\ UNCHANGED <<pending, carried>>
       ELSE /\ upload' = "sending"
            /\ payload' = Coalesce(payload, pending) /\ pending' = Empty
            /\ carried' = Len(reports)
    /\ UNCHANGED <<awaits, hasPendingAction, init, current, closed, server, reports, shown,
                   settled>>

WorkerNext ==
    \/ \E status \in Statuses : NotifyState(status)
    \/ \E patch \in Metadata : NotifyMetadata(patch)
    \/ Close \/ InitApplied \/ InitReturns \/ InitFails
    \/ PutSucceeds \/ PutFails \/ Wake

(* Timers fire, and a PUT that is tried again and again succeeds. *)
Fairness ==
    /\ SF_workerVars(PutSucceeds) /\ WF_workerVars(Wake)
    /\ WF_workerVars(InitApplied) /\ WF_workerVars(InitReturns)

WorkerSpec == WorkerInit /\ [][WorkerNext]_workerVars
WorkerFairSpec == WorkerSpec /\ Fairness

-----------------------------------------------------------------------------
(* Properties *)

Patches == UNION {[F -> Statuses \union Models \union {Nothing, "progress"}] :
                    F \in SUBSET Fields}

(* Types; a patch is being sent exactly while sendWithRetry runs, and one is *)
(* pending only while it runs and the client is open.                        *)
WorkerTypeOK ==
    /\ awaits \in BOOLEAN /\ hasPendingAction \in BOOLEAN /\ closed \in BOOLEAN
    /\ init \in {"sent", "applied", "done", "failed"}
    /\ current \in Statuses \union {Nothing}
    /\ pending \in Patches /\ payload \in Patches
    /\ upload \in {"quiet", "sending", "sleeping"}
    /\ upload = "quiet" <=> payload = Empty
    /\ closed \/ upload = "quiet" => pending = Empty
    /\ DOMAIN server = Fields
    /\ Len(reports) <= MaxReports
    /\ settled \in SUBSET Fields

(* What the server shows of a session that waits for initialize() is what it *)
(* has reported at some moment: patches are neither reordered nor mixed by   *)
(* coalescing, absorption and retries, whether or not the failed ones were   *)
(* applied.                                                                  *)
ShowsAMoment ==
    awaits => \E n \in 0..Len(reports) : server = Merged(Stale, SubSeq(reports, 1, n))

(* And it only moves on: the record implements the mirror of a session,      *)
(* which no retry, whether or not its first attempt was applied, and no      *)
(* absorbed patch takes back to an earlier moment.  A session that does not  *)
(* wait has none.                                                            *)
Mirror == INSTANCE SessionMirror WITH
            Base <- Stale,
            record <- IF awaits THEN server ELSE Stale,
            moment <- IF awaits THEN shown ELSE 0
IsSessionMirror == Mirror!Spec

(* The record agrees with the last report of every settled field. *)
Agrees == \A f \in settled : server[f] = Merged(Stale, reports)[f]

(* When nothing is left to send the server shows, in every field, the last   *)
(* report of the session, whether or not it waits for initialize(): none is  *)
(* lost in the deduplication, the pending slot or a retry.  Excepted is only *)
(* a field that was reported before initialize() returned and that the       *)
(* client has not sent since: initialize() may have overwritten it.          *)
QuietIsCurrent == init = "done" /\ upload = "quiet" /\ ~closed => Agrees

(* What is reported is shown in the end, with the same exception, however    *)
(* often a PUT fails.                                                        *)
ShownInTheEnd == <>[](closed \/ (init = "done" /\ Agrees))

-----------------------------------------------------------------------------
(* What the design promises and the code does not do *)

(* The exception is not needed for a session that waits for initialize(),    *)
(* where every field is settled; for others it is.                           *)
QuietIsComplete ==
    init = "done" /\ upload = "quiet" /\ ~closed => server = Merged(Stale, reports)
=============================================================================
