------------------------------ MODULE Restore ------------------------------
(***************************************************************************)
(* What becomes of the lifecycle when the application database is lost and *)
(* restored from a backup.  The history and the erasure ledger are kept    *)
(* elsewhere and survive; restore_reconcile, behind an isolation barrier,  *)
(* replays what the backup lacks, finishes a purge that was under way,     *)
(* erases again what was erased and reconciles the object store.           *)
(*                                                                         *)
(* A behaviour is one of two: the live system of Lifecycle, or one that    *)
(* meets a disaster.  In the latter one process works at a time: what a    *)
(* disaster finds is a backup and a history, and the fence keeps these     *)
(* apart by at most one decision, whoever works beside it.                 *)
(***************************************************************************)
EXTENDS Lifecycle

CONSTANTS
    Disasters,  \* how many disasters a behaviour meets: a subset of {0, 1}
    LostKinds,  \* the commands operators give before a disaster
    LostSubjects,  \* ... and what their restrictions are for
    Reruns      \* bound of restore commands that die and are run again

ASSUME RestoreAssumption ==
    /\ Disasters \subseteq {0, 1} /\ Reruns \in Nat
    /\ LostKinds \subseteq Kinds /\ LostSubjects \subseteq Subjects

VARIABLES
    saved,    \* the backup
    restore,  \* the restore command: stage, next event, the verified events
    head,     \* the decision the stored head names
    objects   \* the store's objects: of a purge's batches, of erasure subjects

restoreVars == <<saved, restore, head, objects>>
allVars == <<vars, restoreVars>>

Restorer == Sweep  \* its transactions are a process's, and it is alone

Database == [org |-> org, period |-> period, ops |-> ops, holds |-> holds, requests |-> requests,
             run |-> run, steps |-> steps, rows |-> rows, todo |-> todo, orphans |-> orphans]

Events(ids) == [i \in ids |-> ops[i].data]
Accepted == {log[n] : n \in 1..Len(log)}

RestoreInit ==
    /\ Init
    /\ saved = None /\ head = 0 /\ objects = {}
    /\ \E n \in Disasters :
         restore = [at |-> "live", disasters |-> n, reruns |-> 0, n |-> 1,
                    events |-> Events({})]

Stage_(at) == restore.at = at
GoTo(at) == restore' = [restore EXCEPT !.at = at]
Hold == GoTo("held")  \* RestoreUnverified, or any other failure: isolation stays

-----------------------------------------------------------------------------
(* The disaster. *)

Backup ==
    /\ Stage_("live") /\ restore.disasters > 0 /\ saved = None
    /\ saved' = Database
    /\ UNCHANGED <<vars, restore, head, objects>>

(* Every process dies.  The object store comes back from before any batch   *)
(* or erasure; the head may be as old as the backup, when its last receipt  *)
(* is complete.                                                             *)
Disaster ==
    /\ Stage_("live") /\ saved # None
    /\ org' = saved.org /\ period' = saved.period /\ ops' = saved.ops
    /\ holds' = saved.holds /\ requests' = saved.requests
    /\ run' = saved.run /\ steps' = saved.steps /\ rows' = saved.rows
    /\ todo' = saved.todo /\ orphans' = saved.orphans
    /\ objects' = (1..Batches) \cup armed
    /\ head' \in {Len(log)} \cup (IF Verified THEN {saved.org.seq} ELSE {})
    /\ proc' = [p \in Processes |-> Idle] /\ call' = FALSE
    /\ restore' = [restore EXCEPT !.at = "history", !.disasters = 0, !.events = Events(Accepted)]
    /\ UNCHANGED <<clock, armed, log, receipts, mishaps, saved>>

(* The command dies, or is run again. *)
Rerun ==
    /\ restore.at \notin {"live", "done", "held"}
    /\ restore.reruns < Reruns
    /\ restore' = [restore EXCEPT !.at = "history", !.n = 1, !.reruns = @ + 1]
    /\ proc' = [p \in Processes |-> Idle]
    /\ UNCHANGED <<clock, orgVars, ops, armed, rows, history, call, jobVars, mishaps,
                   saved, head, objects>>

-----------------------------------------------------------------------------
(* The history: the receipt a crash left out, then a head that is behind.   *)

RepairInterruptedReceipt ==
    /\ Stage_("history")
    /\ receipts' = IF head = Len(log) THEN Len(log) ELSE receipts
    /\ GoTo("head")
    /\ UNCHANGED <<clock, orgVars, ops, armed, rows, log, call, jobVars, proc, mishaps,
                   saved, head, objects>>

ReconstructHead ==
    /\ Stage_("head")
    /\ head' = receipts
    /\ GoTo("events")
    /\ UNCHANGED <<vars, saved, objects>>

-----------------------------------------------------------------------------
(* replay_organization *)

Event == log[restore.n]
Replayed == restore.n > Len(log)

(* Mutant: the fence that only the backup knows is left standing. *)
Fenced_Standing == ops

(* A pending operation the history does not have is rejected. *)
Fenced == [i \in DOMAIN ops |-> IF i \in Pending THEN [ops[i] EXCEPT !.status = "rejected"]
                                ELSE ops[i]]

(* What the backup shows of an event must agree with it; the operation that *)
(* stands for one it lacks is staged again, with the event's own data.      *)
EnsureOperation ==
    /\ Stage_("events") /\ ~Replayed
    /\ LET n == restore.n
           d == restore.events[Event] IN
       IF org.status = "gone" \/ org.seq >= n
       THEN /\ restore' = IF Event \in DOMAIN ops /\ ops[Event].status = "applied"
                          THEN [restore EXCEPT !.n = n + 1] ELSE [restore EXCEPT !.at = "held"]
            /\ UNCHANGED ops
       ELSE IF Event \in DOMAIN ops
       THEN /\ IF ops[Event] = Row(d, "pending", n - 1) THEN GoTo("markers") ELSE Hold
            /\ UNCHANGED ops
       ELSE /\ ops' = With(Fenced, Event, Row(d, "pending", n - 1))
            /\ GoTo("markers")
    /\ UNCHANGED <<clock, orgVars, armed, rows, history, call, jobVars, proc, mishaps,
                   saved, head, objects>>

(* app_verify_erasure: what is left of a subject, while its row exists. *)
NeedsReplay(r) == requests[r].status # "executed" /\ Batches \in rows

Marked == armed \cap DOMAIN requests
Unerased == {r \in Marked : NeedsReplay(r)}

(* ensure_replay_pending *)
Reopened == [r \in DOMAIN requests |->
    IF r \in Marked /\ requests[r].status # "executed"
    THEN [requests[r] EXCEPT !.status = "pending"] ELSE requests[r]]

(* Before a purge is claimed, authorized or completed, the markers.  An     *)
(* erasure asks, as its worker does, that no decision be pending: the one   *)
(* that was just staged is.                                                 *)
MarkersBeforePurge ==
    /\ Stage_("markers")
    /\ IF restore.events[Event].action \in {"claim", "authorize_destructive_step", "complete"}
       THEN /\ requests' = Reopened
            /\ IF Unerased # {} THEN Hold ELSE GoTo("project")
       ELSE UNCHANGED requests /\ GoTo("project")
    /\ UNCHANGED <<clock, org, period, ops, holds, armed, run, steps, rows, history, call, jobVars,
                   proc, mishaps, saved, head, objects>>

BatchOf(d) == IF d.action \in {"authorize_destructive_step", "complete_destructive_step"}
              THEN Event[2] ELSE Batches + 1
Replayer == [Idle EXCEPT !.pc = "apply", !.op = Event, !.data = restore.events[Event],
                         !.batch = BatchOf(restore.events[Event])]

(* _apply_simple *)
ApplySimple ==
    /\ Stage_("project")
    /\ restore.events[Event].action \notin
          {"authorize_destructive_step", "complete_destructive_step", "complete"}
    /\ proc' = [proc EXCEPT ![Restorer] = Replayer]
    /\ GoTo("applying")
    /\ UNCHANGED <<clock, orgVars, ops, armed, rows, history, call, jobVars, mishaps,
                   saved, head, objects>>

(* reconcile_completed_purge_objects: the batches whose completion the      *)
(* database shows.                                                          *)
CompletedBatches ==
    {log[n][2] : n \in {m \in 1..org.seq : restore.events[log[m]].action = "complete_destructive_step"}}

(* _replay_purge_event: the run is taken up under the event's epoch; a      *)
(* completed batch is deleted again; the end wants everything gone.         *)
ReplayPurgeEvent ==
    /\ Stage_("project")
    /\ LET d == restore.events[Event]
           b == BatchOf(d)
           epoch == IF d.action = "authorize_destructive_step" THEN Event[3] ELSE run.epoch IN
       /\ d.action \in {"authorize_destructive_step", "complete_destructive_step", "complete"}
       /\ IF \/ run.status \in {"none", "completed"} \/ epoch < run.epoch
             \/ d.action = "complete_destructive_step" /\ steps[b] = "none"
             \/ d.action = "complete" /\ rows \cup ((objects \cap (1..Batches)) \ CompletedBatches) # {}
          THEN Hold /\ UNCHANGED <<run, steps, rows, objects, proc>>
          ELSE /\ run' = [run EXCEPT !.status = "running", !.epoch = epoch]
               /\ steps' = IF epoch = run.epoch THEN steps ELSE [x \in DOMAIN steps |-> "none"]
               /\ rows' = IF d.action = "complete_destructive_step" THEN rows \ {b} ELSE rows
               /\ objects' = IF d.action = "complete_destructive_step" THEN objects \ {b}
                             ELSE IF d.action = "complete" THEN objects \ CompletedBatches
                             ELSE objects
               /\ proc' = [proc EXCEPT ![Restorer] = Replayer]
               /\ GoTo("applying")
    /\ UNCHANGED <<clock, org, period, ops, holds, requests, armed, history, call, jobVars, mishaps,
                   saved, head>>

(* The apply functions of the live system, with their conditions. *)
Project ==
    /\ Stage_("applying") /\ At(Restorer, "apply") /\ Applies(Restorer)
    /\ UNCHANGED restoreVars

Projected ==
    /\ Stage_("applying") /\ At(Restorer, "idle")
    /\ IF org.seq = restore.n
       THEN restore' = [restore EXCEPT !.at = "events", !.n = @ + 1] ELSE Hold
    /\ UNCHANGED <<vars, saved, head, objects>>

Erased(done) == [r \in DOMAIN requests |->
    IF r \in done THEN [requests[r] EXCEPT !.status = "executed"] ELSE requests[r]]

(* The markers once more, and what replay must have produced. *)
ReplayMarkers ==
    /\ Stage_("events") /\ Replayed
    /\ IF Unerased # {} /\ Pending # {}
       THEN Hold /\ UNCHANGED <<requests, objects>>
       ELSE /\ requests' = [r \in DOMAIN requests |->
                              IF r \in Unerased THEN Erased(Unerased)[r] ELSE Reopened[r]]
            /\ objects' = objects \ Unerased
            /\ IF \A n \in 1..Len(log) :
                    LET d == restore.events[log[n]] IN
                    d.action = "create_restriction" /\ d.kind # "none" => d.held \in DOMAIN requests
               THEN GoTo("run") ELSE Hold
    /\ UNCHANGED <<clock, org, period, ops, holds, armed, run, steps, rows, history, call, jobVars,
                   proc, mishaps, saved, head>>

-----------------------------------------------------------------------------
(* A purge that was under way is executed to its end, as its worker would.  *)

ResumeRun ==
    /\ Stage_("run")
    /\ IF run.status \in {"none", "completed"} THEN GoTo("fence") /\ UNCHANGED <<proc, objects>>
       ELSE IF run.status = "needs_attention" THEN Hold /\ UNCHANGED <<proc, objects>>
       ELSE /\ run.status = "running" \/ run.epoch < MaxEpoch
            /\ objects' = objects \ CompletedBatches
            /\ proc' = [proc EXCEPT ![Purger] = [Worker(run.episode) EXCEPT !.pc = "inventory"]]
            /\ GoTo("purging")
    /\ UNCHANGED <<clock, orgVars, ops, armed, rows, history, call, jobVars, mishaps,
                   saved, head>>

(* The command executes the run to its end; its decisions join the history. *)
(* A batch's objects are deleted with its rows.                             *)
ExecuteRun ==
    /\ Stage_("purging") /\ ~At(Purger, "idle")
    /\ Advance(Purger) \/ Purges
    /\ restore' = [restore EXCEPT !.events = [i \in Accepted' |->
                      IF i \in DOMAIN restore.events THEN restore.events[i] ELSE ops[i].data]]
    /\ objects' = IF At(Purger, "execute") THEN objects \ {proc[Purger].batch} ELSE objects
    /\ head' = Len(log')
    /\ UNCHANGED saved

RunEnds ==
    /\ Stage_("purging") /\ At(Purger, "idle")
    /\ IF run.status = "completed" THEN GoTo("fence") ELSE Hold
    /\ UNCHANGED <<vars, saved, head, objects>>

NoFence ==
    /\ Stage_("fence")
    /\ IF Pending # {} THEN Hold ELSE GoTo("rest")
    /\ UNCHANGED <<vars, saved, head, objects>>

-----------------------------------------------------------------------------
(* The remaining markers, and the objects. *)

Purged == Len(log) > 0 /\ restore.events[log[Len(log)]].action = "complete"

ReplayRemainingMarkers ==
    /\ Stage_("rest")
    /\ IF Purged /\ Unerased # {} THEN Hold /\ UNCHANGED <<requests, objects>>
       ELSE /\ requests' = [r \in DOMAIN requests |->
                              IF r \in Unerased THEN Erased(Unerased)[r] ELSE Reopened[r]]
            /\ objects' = objects \ Unerased
            /\ GoTo("objects")
    /\ UNCHANGED <<clock, org, period, ops, holds, armed, run, steps, rows, history, call, jobVars,
                   proc, mishaps, saved, head>>

(* app_object_inventory: the objects the database refers to. *)
Referenced == rows \cup {r \in Marked : requests[r].status # "executed"}

(* Mutant: only what the database lacks is repaired. *)
Reconciled_Missing == objects

(* reconcile_objects deletes what nothing refers to; a reference to nothing *)
(* is marked as missing.                                                    *)
Reconciled == objects \cap Referenced

(* ... and _record_purge_overlap *)
ReconcileObjects ==
    /\ Stage_("objects")
    /\ objects' = Reconciled
    /\ requests' = IF Purged THEN Erased(Marked) ELSE requests
    /\ GoTo("done")
    /\ UNCHANGED <<clock, org, period, ops, holds, armed, run, steps, rows, history, call, jobVars,
                   proc, mishaps, saved, head>>

-----------------------------------------------------------------------------
(* The live system, alone or with one process at a time. *)

Alone == restore.disasters > 0 =>
    /\ Cardinality({p \in Processes : proc'[p] # Idle}) <= 1
    /\ mishaps' = mishaps \/ Pending # {}  \* a death leaves a fence or nothing
    /\ ~call'
    /\ \A p \in Handlers : /\ proc'[p].data.action \in LostKinds \cup {"none"}
                           /\ proc'[p].data.kind \in LostSubjects \cup {"none"}

Live == /\ Stage_("live") /\ Next /\ Alone
        /\ UNCHANGED restoreVars

Replays == \/ EnsureOperation \/ MarkersBeforePurge \/ ApplySimple \/ ReplayPurgeEvent
           \/ Project \/ Projected \/ ReplayMarkers

RestoreNext ==
    \/ Live \/ Backup \/ Disaster \/ Rerun
    \/ RepairInterruptedReceipt \/ ReconstructHead \/ Replays
    \/ ResumeRun \/ ExecuteRun \/ RunEnds \/ NoFence
    \/ ReplayRemainingMarkers \/ ReconcileObjects

RestoreSpec == RestoreInit /\ [][RestoreNext]_allVars

-----------------------------------------------------------------------------
(* Properties. *)

(* The lifecycle implements its abstract history: decisions are accepted    *)
(* one at a time, only when admissible - none authorizes deletion while     *)
(* anything is held - and each is projected exactly once, in order; once    *)
(* again after a rollback.                                                  *)
History == INSTANCE LifecycleHistory WITH
    decided <- [n \in 1..Len(log) |-> IF log[n] \in DOMAIN restore.events
                                      THEN restore.events[log[n]] ELSE ops[log[n]].data],
    projected <- org.seq,
    service <- [status |-> org.status, episode |-> org.episode, ends |-> org.ends,
                eligible |-> org.eligible, held |-> {r \in DOMAIN holds : holds[r] = "active"}]

ImplementsHistory == History!HistorySpec

(* The fence, also while a restore rebuilds it. *)
FenceHolds == OneFence /\ (Stage_("live") => HistoryAhead)

(* A restore that succeeds leaves the organization where the history has    *)
(* it, no fence, and nothing that was purged or erased: neither rows nor    *)
(* objects, however old the backup, the head and the object store are.  And *)
(* a purge that it takes up finds none of its objects left at its end, as   *)
(* _verify_cleanup asks, though the store came back with all of them.       *)
RestoreIsComplete ==
    /\ (Stage_("purging") /\ At(Purger, "execute") /\ proc[Purger].batch > Batches)
          => objects \cap (1..Batches) = {}
    /\ Stage_("done") =>
        /\ org.seq = Len(log) /\ head = Len(log) /\ Verified /\ Pending = {}
        /\ \A n \in 1..Len(log) : log[n] \in DOMAIN ops /\ ops[log[n]].status = "applied"
        /\ \A r \in armed : requests[r].status = "executed" /\ r \notin objects
        /\ \A n \in 1..Len(log) :
              restore.events[log[n]].action = "complete_destructive_step"
                  => log[n][2] \notin rows \cup objects

(* The decisions the backup lacks. *)
Lost == {n \in 1..Len(log) : n > saved.org.seq}
LostData == {restore.events[log[n]] : n \in Lost}
SavedPending == {i \in DOMAIN saved.ops : saved.ops[i].status = "pending"}

WorkerMade == {"failed", "ready", "executed"}

(* What keeps a restored organization isolated: a fence the history knows   *)
(* nothing of, or of which it has another form (a start whose cutoff came   *)
(* after the backup); a status of a request that its worker made; a         *)
(* cancellation whose term has ended since; a purge that is held up.        *)
Excused ==
    \/ SavedPending # {} /\ Lost = {}
    \/ \E i \in SavedPending : InLog(i) /\ saved.ops[i].data # restore.events[i]
    \/ \E d \in LostData : d.was \in WorkerMade
    \/ \E d \in LostData : /\ d.action \in {"set_subject_request_state", "release_restriction"}
                            /\ d.held \in DOMAIN saved.requests
                            /\ saved.requests[d.held].status \in WorkerMade
    \/ \E d \in LostData : d.action = "cancel" /\ clock >= d.ends
    \/ run.status = "needs_attention" \/ (run.status # "none" /\ Blocked)

(* An erasure that is to be repeated before the purge's next event. *)
MarkerFirst == \E d \in LostData : d.action = "claim" /\ armed # {}

(* A restore that does not succeed has met one of these. *)
HeldForAReason == Stage_("held") => Excused \/ MarkerFirst

(* docs/restore-reconciliation.md: the command "reconstructs rollback-lost  *)
(* lifecycle decisions, resumes authorized purge work, replays armed        *)
(* erasure markers".                                                        *)
ErasuresAreReplayed == Stage_("held") => Excused
=============================================================================
