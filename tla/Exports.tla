------------------------------- MODULE Exports ------------------------------
(***************************************************************************)
(* What operators hand out: the bundles of one person's data.  A request   *)
(* is a row, its bundle an object under a key fixed by the request, and    *)
(* the two are kept in step by three jobs, each a transaction around calls *)
(* of the object store: the export that builds a bundle, the erasure of    *)
(* the person, and the daily sweep of bundles past their seven days.       *)
(*                                                                         *)
(* A worker is at one statement or one call at a time.  What it has        *)
(* written shows when it commits; what it has put or deleted shows at      *)
(* once.  An operator's decision is one step here: Lifecycle has the steps *)
(* between its preparation and its application.                            *)
(***************************************************************************)
LOCAL INSTANCE FiniteSets

CONSTANTS
    ExportIds,  \* bound: requests for an export of the person
    Workers     \* workers of these lanes

VARIABLES
    export,     \* export_request: [status, key, due]
    erasure,    \* erasure_request of the person, and whether its marker is armed
    bundles,    \* exports/<id>.zip
    run,        \* what each worker is at
    cut         \* the observer's: bundles that a transaction touched and did not commit

exportVars == <<export, erasure, bundles, run, cut>>

(* due: expires_at has passed. *)
Unasked == [status |-> "none", key |-> FALSE, due |-> FALSE]
NoRun == [job |-> "none", at |-> "idle", subject |-> FALSE, rows |-> {}, keys |-> {}, gone |-> {}]

ExportsInit ==
    /\ export = [e \in ExportIds |-> Unasked]
    /\ erasure = [status |-> "none", armed |-> FALSE]
    /\ bundles = {} /\ cut = {}
    /\ run = [w \in Workers |-> NoRun]

Asked == {e \in ExportIds : export[e].status # "none"}
Keyed == {e \in ExportIds : export[e].key}
Due == {e \in Keyed : export[e].due}

RowsFree(rows, w) == \A v \in Workers \ {w} : run[v].rows \cap rows = {}
Free(rows) == \A w \in Workers : run[w].rows \cap rows = {}
Running(job) == \E w \in Workers : run[w].job = job /\ run[w].at # "exhausted"

InRun(w, job, at) == run[w].job = job /\ run[w].at = at
Step(w, at) == run' = [run EXCEPT ![w].at = at]
Release(w) == run' = [run EXCEPT ![w] = NoRun]

-----------------------------------------------------------------------------
(* Operators *)

AskExport(e) ==
    /\ export[e].status = "none"
    /\ export' = [export EXCEPT ![e].status = "pending"]
    /\ UNCHANGED <<erasure, bundles, run, cut>>

AskErasure ==
    /\ erasure.status = "none"
    /\ erasure' = [erasure EXCEPT !.status = "pending"]
    /\ UNCHANGED <<export, bundles, run, cut>>

(* withdrawn stands for rejected too; nothing sets processing. *)
AllowedState(kind, old, new) ==
    CASE new = "awaiting_input" -> old \in {"pending", "failed"}
      [] new = "pending" -> old \in {"awaiting_input", "failed"}
      [] new = "delivered" -> kind = "export" /\ old = "ready"
      [] new = "withdrawn" -> \/ old \in {"pending", "awaiting_input", "failed"}
                              \/ kind = "export" /\ old = "ready"
States == {"awaiting_input", "pending", "delivered", "withdrawn"}

(* A bundle is not withdrawn while its row bears its key. *)
SetExport(e, new) ==
    /\ Free({e}) /\ AllowedState("export", export[e].status, new)
    /\ (export[e].status = "ready" /\ new = "withdrawn") => ~export[e].key
    /\ export' = [export EXCEPT ![e].status = new]
    /\ UNCHANGED <<erasure, bundles, run, cut>>

SetErasure(new) ==
    /\ ~Running("erase") /\ AllowedState("erasure", erasure.status, new)
    /\ new = "withdrawn" => ~erasure.armed
    /\ erasure' = [erasure EXCEPT !.status = new]
    /\ UNCHANGED <<export, bundles, run, cut>>

Elapse(e) ==
    /\ e \in Keyed \ Due
    /\ export' = [export EXCEPT ![e].due = TRUE]
    /\ UNCHANGED <<erasure, bundles, run, cut>>

-----------------------------------------------------------------------------
(* execute_export *)

ExecuteExport(w, e) ==
    /\ run[w] = NoRun /\ export[e].status = "pending" /\ Free({e})
    /\ run' = [run EXCEPT ![w] = [NoRun EXCEPT !.job = "export", !.at = "locked", !.rows = {e}]]
    /\ UNCHANGED <<export, erasure, bundles, cut>>

SubjectFree(w) == \A v \in Workers \ {w} : ~run[v].subject

(* Mutant: an export does not take the lock of the person. *)
LockSubject_Erasure(w) ==
    /\ run[w].at = "locked"
    /\ run[w].job = "export" \/ SubjectFree(w)
    /\ run' = [run EXCEPT ![w].at = "subject", ![w].subject = run[w].job # "export"]
    /\ UNCHANGED <<export, erasure, bundles, cut>>

(* The advisory lock of the person, held to the end of the transaction.    *)
(* An export takes it behind its row and an erasure before that row: of    *)
(* two that wait for each other PostgreSQL ends one, by Abort.             *)
LockSubject(w) ==
    /\ run[w].at = "locked" /\ SubjectFree(w)
    /\ run' = [run EXCEPT ![w].at = "subject", ![w].subject = TRUE]
    /\ UNCHANGED <<export, erasure, bundles, cut>>

FailedExport(e) == [export[e] EXCEPT !.status = "failed", !.key = FALSE, !.due = FALSE]

(* Any erasure that was ever asked for, one that was withdrawn too. *)
CheckErased(w) ==
    /\ InRun(w, "export", "subject")
    /\ IF erasure.status = "none" THEN Step(w, "clear") /\ UNCHANGED export
       ELSE /\ export' = [e \in ExportIds |-> IF e \in run[w].rows THEN FailedExport(e)
                                              ELSE export[e]]
            /\ Release(w)
    /\ UNCHANGED <<erasure, bundles, cut>>

(* The inventory, the objects it names and the bundle of both. *)
PutBundle(w) ==
    /\ InRun(w, "export", "clear")
    /\ bundles' = bundles \cup run[w].rows
    /\ Step(w, "put")
    /\ UNCHANGED <<export, erasure, cut>>

CommitExport(w) ==
    /\ InRun(w, "export", "put")
    /\ export' = [e \in ExportIds |->
                    IF e \in run[w].rows THEN [status |-> "ready", key |-> TRUE, due |-> FALSE]
                    ELSE export[e]]
    /\ cut' = cut \ run[w].rows
    /\ Release(w)
    /\ UNCHANGED <<erasure, bundles>>

-----------------------------------------------------------------------------
(* execute_erasure *)

ArmErasure(w) ==
    /\ run[w] = NoRun /\ erasure.status = "pending" /\ ~Running("erase")
    /\ erasure' = [erasure EXCEPT !.armed = TRUE]
    /\ run' = [run EXCEPT ![w] = [NoRun EXCEPT !.job = "erase", !.at = "locked"]]
    /\ UNCHANGED <<export, bundles, cut>>

CollectKeys(w) ==
    /\ InRun(w, "erase", "subject")
    /\ run' = [run EXCEPT ![w].at = "collected", ![w].keys = Keyed]
    /\ UNCHANGED <<export, erasure, bundles, cut>>

EraseRows(w) ==
    /\ InRun(w, "erase", "collected") /\ RowsFree(Asked, w)
    /\ run' = [run EXCEPT ![w].at = "deleting", ![w].rows = Asked]
    /\ UNCHANGED <<export, erasure, bundles, cut>>

(* An object that is gone already is deleted as well as any. *)
DeleteBundle(w, e) ==
    /\ run[w].at = "deleting" /\ e \in run[w].keys \ run[w].gone
    /\ bundles' = bundles \ {e}
    /\ run' = [run EXCEPT ![w].gone = @ \cup {e}]
    /\ UNCHANGED <<export, erasure, cut>>

CommitErasure(w) ==
    /\ InRun(w, "erase", "deleting") /\ run[w].gone = run[w].keys
    /\ erasure' = [erasure EXCEPT !.status = "executed"]
    /\ export' = [e \in ExportIds |-> IF e \in run[w].rows THEN FailedExport(e) ELSE export[e]]
    /\ cut' = cut \ run[w].keys
    /\ Release(w)
    /\ UNCHANGED bundles

-----------------------------------------------------------------------------
(* The sweep of RC-8: once a day, so that one is under way at a time.  Both *)
(* its statements compare with the one instant the task began at.          *)

SweepKeys(w) ==
    /\ run[w] = NoRun /\ ~Running("sweep") /\ Due # {}
    /\ run' = [run EXCEPT ![w] = [NoRun EXCEPT !.job = "sweep", !.at = "read", !.keys = Due]]
    /\ UNCHANGED <<export, erasure, bundles, cut>>

SweepRows(w) ==
    /\ InRun(w, "sweep", "read")
    /\ LET rows == Due \cap run[w].keys IN
        /\ RowsFree(rows, w)
        /\ run' = [run EXCEPT ![w].at = "deleting", ![w].rows = rows]
    /\ UNCHANGED <<export, erasure, bundles, cut>>

CommitSweep(w) ==
    /\ InRun(w, "sweep", "deleting") /\ run[w].gone = run[w].keys
    /\ export' = [e \in ExportIds |->
                    IF e \in run[w].rows
                    THEN [status |-> IF export[e].status = "ready" THEN "failed"
                                     ELSE export[e].status,
                          key |-> FALSE, due |-> FALSE]
                    ELSE export[e]]
    /\ cut' = cut \ run[w].keys
    /\ Release(w)
    /\ UNCHANGED <<erasure, bundles>>

-----------------------------------------------------------------------------
(* Failures *)

(* The store, the database or the worker fails, or a deadlock is broken:   *)
(* the transaction is gone, and with the last attempt the job.             *)
Abort(w) ==
    /\ run[w].at \notin {"idle", "exhausted"}
    /\ cut' = cut \cup run[w].gone \cup (IF run[w].at = "put" THEN run[w].rows ELSE {})
    /\ \/ Release(w)
       \/ /\ run[w].job # "sweep"
          /\ run' = [run EXCEPT ![w] = [NoRun EXCEPT !.job = run[w].job, !.at = "exhausted",
                        !.keys = IF run[w].job = "export" THEN run[w].rows ELSE {}]]
    /\ UNCHANGED <<export, erasure, bundles>>

(* fail_export and fail_erasure, in a transaction of their own. *)
Exhausted(w) ==
    /\ run[w].at = "exhausted" /\ Free(run[w].keys)
    /\ export' = [e \in ExportIds |->
                    IF e \in run[w].keys /\ export[e].status = "pending" THEN FailedExport(e)
                    ELSE export[e]]
    /\ IF run[w].job = "erase"
       THEN ~Running("erase") /\ erasure' = [erasure EXCEPT !.status =
                                                IF @ = "pending" THEN "failed" ELSE @]
       ELSE UNCHANGED erasure
    /\ Release(w)
    /\ UNCHANGED <<bundles, cut>>

ExportsStep ==
    \/ AskErasure
    \/ \E e \in ExportIds : AskExport(e) \/ Elapse(e)
    \/ \E new \in States : SetErasure(new) \/ \E e \in ExportIds : SetExport(e, new)
    \/ \E w \in Workers :
        \/ LockSubject(w)
        \/ CheckErased(w) \/ PutBundle(w) \/ CommitExport(w)
        \/ ArmErasure(w) \/ CollectKeys(w) \/ EraseRows(w) \/ CommitErasure(w)
        \/ SweepKeys(w) \/ SweepRows(w) \/ CommitSweep(w)
        \/ Abort(w) \/ Exhausted(w)
        \/ \E e \in ExportIds : ExecuteExport(w, e) \/ DeleteBundle(w, e)

-----------------------------------------------------------------------------
Underway(e) == \E w \in Workers : e \in run[w].rows \cup run[w].keys

(* But for those that a failed transaction left as they were, the store    *)
(* holds the bundles whose rows say so and no other, however exports, the  *)
(* erasure and the sweep overlap: what an executed erasure or a sweep      *)
(* removed stays removed, and what is offered is there (subject_rights.py, *)
(* execute_export and execute_erasure).                                    *)
BundlesAgree ==
    \A e \in ExportIds : e \notin cut /\ ~Underway(e) => (e \in bundles <=> export[e].key)

(* What the contract says of an erasure (02-async-internal-contracts,      *)
(* "Erasure reaches the object store").  It does not hold: a bundle that   *)
(* was put by a run that failed has no row that names it.                  *)
ErasedKeepsNoBundle == erasure.status = "executed" => bundles \subseteq Keyed
=============================================================================
