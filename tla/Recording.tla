----------------------------- MODULE Recording -----------------------------
(***************************************************************************)
(* The recording of one call: the provider's egress, the object it         *)
(* uploads, the coordination keys in Valkey (calls/egress.py), the         *)
(* attempt's recording_status and its playback fault in Postgres.          *)
(*                                                                         *)
(* Seven actors meet here: the runtime's bundle fetch starts the egress,   *)
(* the provider's webhook says how it ended, the handlers that end the     *)
(* call reconcile what the webhook has already said, the sweeper settles   *)
(* what nobody reported, an hourly job settles what the sweeper lost, an   *)
(* operator re-drives a fault, and an erasure or a service cutoff takes    *)
(* the object away.  Every Valkey command, provider call, object store     *)
(* call and transaction is one step.  Calls share none of this state, so   *)
(* the module has one call.  No deadline is modelled: a sweep may run at   *)
(* any time after it is scheduled, which includes its 600 s.               *)
(***************************************************************************)
EXTENDS Integers

CONSTANTS
    Egresses,      \* one per bundle fetch that may start an egress
    Paths,         \* which of the paths that end a call are taken
    Fates,         \* the dispositions with which the call may end
    Mishaps,       \* what may go wrong, see MishapsAssumption
    EraseLive,     \* an erasure may be requested before the attempt has ended
    Redrives       \* an operator may re-drive the fault

Unclaimed == 0
Starting == -1

ASSUME EgressesAssumption == Egresses \subseteq Nat \ {0}

\* "crash": a handler dies between two steps, and its caller may not retry;
\* "timeout": the provider starts an egress although the caller sees an error;
\* "early": an egress ends before the fetch that started it has recorded it;
\* "late": a sweep settles a recording, 600 s after the attempt's end, while its
\* session is not yet terminal, a handler is at work on it, or its egress is
\* running or not yet heard;
\* "rollback": an erasure fails after it has deleted the object.
ASSUME MishapsAssumption ==
    /\ Mishaps \subseteq {"crash", "timeout", "early", "late", "rollback"}
    /\ Paths \subseteq {"callback", "sweeper", "suspension"}
    /\ Fates \subseteq {"complete", "void", "never"}
    /\ {EraseLive, Redrives} \subseteq BOOLEAN

VARIABLES
    session,       \* the state field of call:session:*
    indexed,       \* the call is in call:recordings
    claim,         \* call:egress:*
    outcome,       \* call:egress-outcome:*
    attempt,       \* attempt.status
    rec,           \* attempt.recording_status
    keyed,         \* attempt.recording_object_key is not null
    fault,         \* the playback_asset fault of the attempt
    erasure,       \* the subject's erasure request and its execution
    doomed,        \* the execution collected the object's key
    object,        \* the recording exists in the object store
    egress, event, \* the provider's egresses and the egress_ended they cause
    fetch, hook,   \* handlers: bundle fetches and webhooks, one per egress
    end, fate,     \* handlers that end the call, and the end they decided
    heard,         \* the outcome the completion callback has read
    sweep,         \* the sweeper's loop over due recordings
    drive, seen    \* the operator's re-drive, and whether it saw the object

valkeyVars   == <<session, indexed, claim, outcome>>
rowVars      == <<attempt, rec, keyed, fault>>
erasureVars  == <<erasure, doomed>>
providerVars == <<object, egress, event>>
localVars    == <<fate, heard, seen>>
dbVars       == <<rowVars, erasureVars>>
vars == <<valkeyVars, dbVars, providerVars, localVars, fetch, hook, end, sweep, drive>>

ValkeyType ==
    /\ session \in {"pending", "established", "terminal"}
    /\ indexed \in BOOLEAN
    /\ claim \in Egresses \cup {Unclaimed, Starting}
    /\ outcome \in {"none", "available", "unavailable"}

RowType ==
    /\ attempt \in {"in_progress", "completed", "interrupted", "deleted"}
    /\ rec \in {"none", "pending", "available", "unavailable", "erased"}
    /\ keyed \in BOOLEAN
    /\ fault \in {"none", "open", "resolved"}
    /\ erasure \in {"none", "requested", "locked", "emptied", "verified", "executed"}
    /\ doomed \in BOOLEAN

ProviderType ==
    /\ object \in BOOLEAN
    /\ egress \in [Egresses -> {"none", "running", "complete", "failed"}]
    /\ event \in [Egresses -> {"none", "sent", "done"}]

HandlerType ==
    /\ fetch \in [Egresses -> {"idle", "read", "established", "claimed",
                               "asked", "done"}]
    /\ hook \in [Egresses -> {"idle", "matched", "set", "delete", "resolve"}]
    /\ end \in [Paths -> {"idle", "txn", "purge", "mark", "index", "outcome",
                          "reconcile", "delete", "resolve"}]
    /\ fate \in [Paths -> {"none", "complete", "void", "never"}]
    /\ heard \in {"none", "available", "unavailable"}
    /\ sweep \in {"idle", "txn", "delete"}
    /\ drive \in {"idle", "checked"}
    /\ seen \in BOOLEAN

TypeOK == ValkeyType /\ RowType /\ ProviderType /\ HandlerType

Init ==
    /\ session = "pending" /\ indexed = FALSE
    /\ claim = Unclaimed /\ outcome = "none"
    /\ attempt = "in_progress" /\ rec = "none" /\ keyed = FALSE /\ fault = "none"
    /\ erasure = "none" /\ doomed = FALSE
    /\ object = FALSE
    /\ egress = [e \in Egresses |-> "none"]
    /\ event = [e \in Egresses |-> "none"]
    /\ fetch = [e \in Egresses |-> "idle"]
    /\ hook = [e \in Egresses |-> "idle"]
    /\ end = [p \in Paths |-> "idle"]
    /\ fate = [p \in Paths |-> "none"]
    /\ heard = "none" /\ sweep = "idle"
    /\ drive = "idle" /\ seen = FALSE

-----------------------------------------------------------------------------
(* Postgres.  An erasure holds the attempt's row from app_execute_erasure   *)
(* until its transaction ends; a statement that updates the row waits.      *)

RowFree == erasure \notin {"locked", "emptied", "verified"}

\* reconcile_recording: only a pending recording is settled, and the first
\* report wins.  A row that is not pending is not waited for.
Reconcile(available) ==
    IF rec = "pending"
    THEN /\ RowFree
         /\ rec' = IF available THEN "available" ELSE "unavailable"
         /\ fault' = IF available THEN fault ELSE "open"
    ELSE UNCHANGED <<rec, fault>>

\* complete: T-2 is fenced by an erasure request, replays change nothing.
Complete ==
    /\ IF attempt = "in_progress" /\ erasure = "none"
       THEN attempt' = "completed" /\ rec' = "pending" /\ keyed' = TRUE
       ELSE UNCHANGED <<attempt, rec, keyed>>
    /\ UNCHANGED fault

\* interrupt: T-6 voids the attempt, or deletes the row of a call that never
\* established.  A cutoff settles the recording in the same transaction, which
\* matters when the attempt has completed: one it voids has none pending.
Interrupt(d, cutoff) ==
    /\ IF attempt = "in_progress"
       THEN RowFree /\ attempt' = IF d = "never" THEN "deleted" ELSE "interrupted"
       ELSE UNCHANGED attempt
    /\ IF cutoff /\ d = "void" THEN Reconcile(FALSE) ELSE UNCHANGED <<rec, fault>>
    /\ UNCHANGED keyed

\* A handler takes one step; the others stay where they are.
FetchGoes(e, from, to) ==
    fetch[e] = from /\ fetch' = [fetch EXCEPT ![e] = to] /\ UNCHANGED <<hook, end, sweep, drive>>
HookGoes(e, from, to) ==
    hook[e] = from /\ hook' = [hook EXCEPT ![e] = to] /\ UNCHANGED <<fetch, end, sweep, drive>>
EndGoes(p, from, to) ==
    end[p] = from /\ end' = [end EXCEPT ![p] = to] /\ UNCHANGED <<fetch, hook, sweep, drive>>
SweepGoes(from, to) ==
    sweep = from /\ sweep' = to /\ UNCHANGED <<fetch, hook, end, drive>>
DriveGoes(from, to) ==
    drive = from /\ drive' = to /\ UNCHANGED <<fetch, hook, end, sweep>>
NobodyGoes == UNCHANGED <<fetch, hook, end, sweep, drive>>

\* The transaction found the row pending: its update counted one row.
Reconciled == rec = "pending"

-----------------------------------------------------------------------------
(* The bundle fetch starts the egress: runtime_bundle.                      *)

FetchRead(e) ==
    /\ FetchGoes(e, "idle", "read")
    /\ session = "pending"
    /\ UNCHANGED <<valkeyVars, dbVars, providerVars, localVars>>

\* The lease admits no fetch after the call's end; the call plane's module has
\* the fetch that overtakes it.
FetchEstablish(e) ==
    /\ FetchGoes(e, "read", "established")
    /\ session # "terminal" /\ session' = "established"
    /\ UNCHANGED <<indexed, claim, outcome, dbVars, providerVars, localVars>>

\* A bug the properties reject: the claim is written without NX.
FetchClaim_NoNX(e) ==
    /\ FetchGoes(e, "established", "claimed")
    /\ claim' = Starting
    /\ UNCHANGED <<session, indexed, outcome, dbVars, providerVars, localVars>>

\* claim_start: SET NX.  A fetch that loses returns the bundle and starts none.
FetchClaim(e) ==
    /\ IF claim = Unclaimed
       THEN FetchGoes(e, "established", "claimed") /\ claim' = Starting
       ELSE FetchGoes(e, "established", "done") /\ UNCHANGED claim
    /\ UNCHANGED <<session, indexed, outcome, dbVars, providerVars, localVars>>

EgressStarts(e) ==
    /\ FetchGoes(e, "claimed", "asked")
    /\ egress' = [egress EXCEPT ![e] = "running"]
    /\ UNCHANGED <<valkeyVars, dbVars, object, event, localVars>>

FetchRecords(e) ==
    /\ FetchGoes(e, "asked", "done")
    /\ claim' = e
    /\ UNCHANGED <<session, indexed, outcome, dbVars, providerVars, localVars>>

\* release_start, when the provider refused or its answer was lost.
FetchReleases(e) ==
    /\ \/ FetchGoes(e, "claimed", "done")
       \/ FetchGoes(e, "asked", "done") /\ "timeout" \in Mishaps
    /\ claim' = IF claim = Starting THEN Unclaimed ELSE claim
    /\ UNCHANGED <<session, indexed, outcome, dbVars, providerVars, localVars>>

FetchDies(e) ==
    /\ "crash" \in Mishaps
    /\ \E from \in {"read", "established", "claimed", "asked"} : FetchGoes(e, from, "done")
    /\ UNCHANGED <<valkeyVars, dbVars, providerVars, localVars>>

\* The provider: an egress that completes has uploaded the object first.
EgressEnds(e) ==
    /\ egress[e] = "running"
    /\ fetch[e] = "asked" => "early" \in Mishaps
    /\ \/ egress' = [egress EXCEPT ![e] = "complete"] /\ object' = TRUE
       \/ egress' = [egress EXCEPT ![e] = "failed"] /\ UNCHANGED object
    /\ event' = [event EXCEPT ![e] = "sent"]
    /\ NobodyGoes
    /\ UNCHANGED <<valkeyVars, dbVars, localVars>>

\* A webhook is delivered again after an answer the provider has not seen.
EventAgain(e) ==
    /\ event[e] = "done" /\ hook[e] = "idle"
    /\ event' = [event EXCEPT ![e] = "sent"]
    /\ NobodyGoes
    /\ UNCHANGED <<valkeyVars, dbVars, object, egress, localVars>>

-----------------------------------------------------------------------------
(* egress_ended: livekit_webhook.                                           *)

\* The handler takes an event whose egress is the recorded one, and drops the
\* others with a 204.
HookTakes(e, recorded) ==
    /\ event[e] = "sent"
    /\ IF recorded
       THEN HookGoes(e, "idle", "matched") /\ UNCHANGED event
       ELSE HookGoes(e, "idle", "idle") /\ event' = [event EXCEPT ![e] = "done"]
    /\ UNCHANGED <<valkeyVars, dbVars, object, egress, localVars>>

HookMatch(e) == HookTakes(e, claim = e)

HookSet(e) ==
    /\ HookGoes(e, "matched", "set")
    /\ outcome' = IF egress[e] = "complete" THEN "available" ELSE "unavailable"
    /\ UNCHANGED <<session, indexed, claim, dbVars, providerVars, localVars>>

\* The webhook's transaction; an upload nobody wants is deleted after it.
HookReconciles(e, orphan) ==
    /\ Reconcile(egress[e] = "complete")
    /\ IF Reconciled THEN HookGoes(e, "set", "resolve") /\ UNCHANGED event
       ELSE IF egress[e] = "complete" /\ orphan
       THEN HookGoes(e, "set", "delete") /\ UNCHANGED event
       ELSE HookGoes(e, "set", "idle") /\ event' = [event EXCEPT ![e] = "done"]
    /\ UNCHANGED <<valkeyVars, attempt, keyed, erasureVars, object, egress, localVars>>

\* A bug the properties reject: every upload that reconciles nothing is unwanted.
HookTransaction_Orphans(e) == HookReconciles(e, TRUE)

HookTransaction(e) == HookReconciles(e, attempt = "interrupted" \/ rec = "erased")

HookDelete(e) ==
    /\ HookGoes(e, "delete", "resolve")
    /\ object' = FALSE
    /\ UNCHANGED <<valkeyVars, dbVars, egress, event, localVars>>

HookResolve(e) ==
    /\ HookGoes(e, "resolve", "idle")
    /\ indexed' = FALSE
    /\ event' = [event EXCEPT ![e] = "done"]
    /\ UNCHANGED <<session, claim, outcome, dbVars, object, egress, localVars>>

\* The answer is an error: the provider delivers again, or has given up.
HookDies(e) ==
    /\ "crash" \in Mishaps
    /\ hook[e] # "idle" /\ HookGoes(e, hook[e], "idle")
    /\ event' \in {event, [event EXCEPT ![e] = "done"]}
    /\ UNCHANGED <<valkeyVars, dbVars, object, egress, localVars>>

-----------------------------------------------------------------------------
(* The end of the call: runtime_completion and runtime_interruption         *)
(* ("callback"), the sweep and room_finished, which void what is still open *)
(* ("sweeper"), and _terminate_one ("suspension"), which a service cutoff   *)
(* runs after it has stopped the room's egress.                             *)

EndRead(p) ==
    /\ EndGoes(p, "idle", "txn")
    /\ session # "terminal"
    /\ \E d \in Fates :
         /\ p = "callback" => session = "established"
         /\ p # "callback" => d = IF session = "pending" THEN "never" ELSE "void"
         /\ fate' = [fate EXCEPT ![p] = d]
    /\ p = "suspension" => \A e \in Egresses : egress[e] # "running"
    /\ UNCHANGED <<valkeyVars, dbVars, providerVars, heard, seen>>

EndTransaction(p) ==
    /\ EndGoes(p, "txn", IF p = "suspension" THEN "purge" ELSE "mark")
    /\ IF fate[p] = "complete" THEN Complete ELSE Interrupt(fate[p], p = "suspension")
    /\ UNCHANGED <<valkeyVars, erasureVars, providerVars, localVars>>

EndPurge(p) ==
    /\ EndGoes(p, "purge", "mark")
    /\ object' = FALSE
    /\ UNCHANGED <<valkeyVars, dbVars, egress, event, localVars>>

EndMark(p) ==
    /\ EndGoes(p, "mark", "index")
    /\ session' = "terminal"
    /\ UNCHANGED <<indexed, claim, outcome, dbVars, providerVars, localVars>>

EndIndex(p) ==
    /\ EndGoes(p, "index", IF fate[p] = "complete" THEN "outcome" ELSE "idle")
    /\ indexed' = TRUE
    /\ UNCHANGED <<session, claim, outcome, dbVars, providerVars, localVars>>

\* A webhook may have spoken before the attempt was completed.
EndOutcome(p) ==
    /\ EndGoes(p, "outcome", IF outcome = "none" THEN "idle" ELSE "reconcile")
    /\ heard' = outcome
    /\ UNCHANGED <<valkeyVars, dbVars, providerVars, fate, seen>>

EndReconcile(p) ==
    /\ Reconcile(heard = "available")
    /\ EndGoes(p, "reconcile", IF Reconciled THEN "resolve"
                               ELSE IF heard = "available" /\ rec = "erased" THEN "delete"
                               ELSE "idle")
    /\ UNCHANGED <<valkeyVars, attempt, keyed, erasureVars, providerVars, localVars>>

EndDelete(p) ==
    /\ EndGoes(p, "delete", "resolve")
    /\ object' = FALSE
    /\ UNCHANGED <<valkeyVars, dbVars, egress, event, localVars>>

EndResolve(p) ==
    /\ EndGoes(p, "resolve", "idle")
    /\ indexed' = FALSE
    /\ UNCHANGED <<session, claim, outcome, dbVars, providerVars, localVars>>

EndDies(p) ==
    /\ "crash" \in Mishaps
    /\ end[p] # "idle" /\ EndGoes(p, end[p], "idle")
    /\ UNCHANGED <<valkeyVars, dbVars, providerVars, localVars>>

-----------------------------------------------------------------------------
(* What settles a recording nobody reported.                                *)

Awaited ==
    \/ session # "terminal"
    \/ \E p \in Paths : end[p] # "idle"
    \/ \E e \in Egresses : \/ fetch[e] \in {"established", "claimed", "asked"}
                           \/ egress[e] = "running" \/ event[e] = "sent"

SweepDue == Awaited => "late" \in Mishaps

\* due_recordings removes the entry before the call is handled.
SweepPop ==
    /\ SweepGoes("idle", "txn")
    /\ indexed /\ SweepDue
    /\ indexed' = FALSE
    /\ UNCHANGED <<session, claim, outcome, dbVars, providerVars, localVars>>

\* A bug the properties reject: void attempts are reconciled, nothing is deleted.
SweepTransaction_NoOrphans ==
    /\ SweepGoes("txn", "idle") /\ Reconcile(FALSE)
    /\ UNCHANGED <<valkeyVars, attempt, keyed, erasureVars, providerVars, localVars>>

SweepTransaction ==
    /\ IF attempt = "interrupted"
       THEN SweepGoes("txn", "delete") /\ UNCHANGED <<rec, fault>>
       ELSE SweepGoes("txn", "idle") /\ Reconcile(FALSE)
    /\ UNCHANGED <<valkeyVars, attempt, keyed, erasureVars, providerVars, localVars>>

SweepDelete ==
    /\ SweepGoes("delete", "idle")
    /\ object' = FALSE
    /\ UNCHANGED <<valkeyVars, dbVars, egress, event, localVars>>

SweepDies ==
    /\ "crash" \in Mishaps
    /\ sweep # "idle" /\ SweepGoes(sweep, "idle")
    /\ UNCHANGED <<valkeyVars, dbVars, providerVars, localVars>>

\* app_stale_pending_recordings skips a locked row.
StaleRecording(known, surfaced) ==
    /\ rec = "pending" /\ RowFree /\ SweepDue /\ known
    /\ rec' = "unavailable"
    /\ fault' = IF surfaced THEN "open" ELSE fault
    /\ NobodyGoes
    /\ UNCHANGED <<valkeyVars, attempt, keyed, erasureVars, providerVars, localVars>>

\* Bugs the properties reject: the hourly job opens no fault, or looks only at
\* calls the sweeper still knows.
StaleSweep_Silent == StaleRecording(TRUE, FALSE)
StaleSweep_Indexed == StaleRecording(indexed, TRUE)

StaleSweep == StaleRecording(TRUE, TRUE)

\* resolve_fault: the object is looked for before the transaction begins.
DriveCheck ==
    /\ Redrives /\ fault = "open"
    /\ DriveGoes("idle", "checked")
    /\ seen' = object
    /\ UNCHANGED <<valkeyVars, dbVars, providerVars, fate, heard>>

\* app_redrive_playback_fault overwrites whatever status the row has.
DriveCommit ==
    /\ DriveGoes("checked", "idle") /\ RowFree
    /\ rec' = IF seen THEN "available" ELSE "unavailable"
    /\ fault' = "resolved"
    /\ UNCHANGED <<valkeyVars, attempt, keyed, erasureVars, providerVars, localVars>>

-----------------------------------------------------------------------------
(* Erasure of the subject: create_erasure_request, execute_erasure.         *)

EraseGoes(from, to) ==
    /\ erasure = from /\ erasure' = to
    /\ NobodyGoes /\ UNCHANGED <<valkeyVars, attempt, fault, egress, event, localVars>>

EraseRequest ==
    /\ EraseGoes("none", "requested")
    /\ EraseLive \/ attempt # "in_progress"
    /\ UNCHANGED <<rec, keyed, doomed, object>>

\* app_execute_erasure collects the keys and holds the rows.
EraseCollect ==
    /\ EraseGoes("requested", "locked")
    /\ doomed' = keyed
    /\ UNCHANGED <<rec, keyed, object>>

EraseObject ==
    /\ EraseGoes("locked", "emptied")
    /\ object' = IF doomed THEN FALSE ELSE object
    /\ UNCHANGED <<rec, keyed, doomed>>

\* "erasure object remains": the transaction fails, and the job is tried again.
EraseVerify ==
    /\ EraseGoes("emptied", IF doomed /\ object THEN "requested" ELSE "verified")
    /\ UNCHANGED <<rec, keyed, doomed, object>>

EraseCommit ==
    /\ EraseGoes("verified", "executed")
    /\ IF attempt = "deleted"
       THEN UNCHANGED <<rec, keyed>>
       ELSE rec' = "erased" /\ keyed' = FALSE
    /\ UNCHANGED <<doomed, object>>

\* Another failure of the transaction; the object does not come back.
EraseRollback ==
    /\ "rollback" \in Mishaps /\ ~RowFree
    /\ EraseGoes(erasure, "requested")
    /\ UNCHANGED <<rec, keyed, doomed, object>>

-----------------------------------------------------------------------------
FetchStep(e) ==
    \/ FetchRead(e) \/ FetchEstablish(e) \/ FetchClaim(e) \/ EgressStarts(e)
    \/ FetchRecords(e) \/ FetchReleases(e)

HookStep(e) ==
    HookMatch(e) \/ HookSet(e) \/ HookTransaction(e) \/ HookDelete(e) \/ HookResolve(e)

EndStep(p) ==
    \/ EndTransaction(p) \/ EndPurge(p) \/ EndMark(p) \/ EndIndex(p)
    \/ EndOutcome(p) \/ EndReconcile(p) \/ EndDelete(p) \/ EndResolve(p)

SweepStep == SweepPop \/ SweepTransaction \/ SweepDelete

EraseStep == EraseCollect \/ EraseObject \/ EraseVerify \/ EraseCommit

Next ==
    \/ \E e \in Egresses :
         \/ FetchStep(e) \/ FetchDies(e) \/ EgressEnds(e) \/ EventAgain(e)
         \/ HookStep(e) \/ HookDies(e)
    \/ \E p \in Paths : EndRead(p) \/ EndStep(p) \/ EndDies(p)
    \/ SweepStep \/ SweepDies \/ StaleSweep
    \/ DriveCheck \/ DriveCommit
    \/ EraseRequest \/ EraseStep \/ EraseRollback

\* The hourly job and an execution that holds the row go on; nothing else has to.
Fairness == WF_vars(StaleSweep) /\ WF_vars(EraseStep)

Spec == Init /\ [][Next]_vars
FairSpec == Spec /\ Fairness

-----------------------------------------------------------------------------
(* Properties.                                                              *)

HandlersIdle ==
    /\ \A e \in Egresses : hook[e] = "idle" /\ fetch[e] \in {"idle", "read", "done"}
    /\ \A p \in Paths : end[p] = "idle"
    /\ sweep = "idle"

\* The call is over, its egresses have ended and were heard, the sweep has been.
Settled ==
    /\ session = "terminal" /\ ~indexed /\ HandlersIdle
    /\ \A e \in Egresses : egress[e] # "running" /\ event[e] # "sent"
    /\ erasure \in {"none", "executed"}

\* A recording that is shown as available can be played: no webhook, sweep,
\* re-drive or end of the call deletes the object of an available recording.  The
\* exception is an erasure that has deleted it and whose transaction is still open.
AvailablePlays ==
    rec = "available" /\ keyed => object \/ erasure \in {"emptied", "verified"}

\* An unavailable recording has been surfaced to operations, whichever of
\* reconcile_recording, the hourly job and a re-drive made it so.
UnavailableSurfaced == rec = "unavailable" => fault # "none"

\* Whichever of egress_ended and the completion comes first, the other one applies
\* the outcome (set_outcome before the webhook's transaction, the completion before
\* it reads the outcome): no sweep is needed to leave the pending state.
ConfirmedIsSettled ==
    attempt = "completed" /\ outcome # "none" /\ HandlersIdle /\ session = "terminal"
        => rec # "pending"

CutOff == "suspension" \in Paths /\ fate["suspension"] # "none"

\* A void or erased attempt leaves no audio behind: the webhook, the completion,
\* the sweep and the erasure between them delete what the egress uploads.  A cutoff
\* settles a recording before its egress has ended, like the sweep that comes early:
\* an erasure may then overtake the upload.
NothingLeftBehind ==
    Settled /\ (attempt \in {"interrupted", "deleted"} \/ (erasure = "executed" /\ ~CutOff))
        => ~object

\* Once everything is done, a recording that exists is not shown as unavailable: its
\* egress_ended was matched and applied.  A cutoff makes unavailable what it is about
\* to delete.
EndedIsApplied ==
    Settled /\ attempt = "completed" /\ object /\ ~CutOff => rec # "unavailable"

\* Both: the outcome of the egress reaches the row, whichever of its webhook, the
\* completion and the sweep comes last.
OutcomeApplied == ConfirmedIsSettled /\ EndedIsApplied

\* A pending recording does not stay pending, whatever died or was lost: the hourly
\* job finds it in the database (app_stale_pending_recordings).
PendingResolves == rec = "pending" ~> rec # "pending"
=============================================================================
