--------------------------- MODULE AttemptLedger ---------------------------
(***************************************************************************)
(* What the call plane promises to keep in Postgres, whatever happens to   *)
(* leases, sessions, slots, handlers and messages: an attempt is admitted  *)
(* once against the allowance or the plan of its subject, and ends once,   *)
(* in one transaction that has every effect of that end.                   *)
(*                                                                         *)
(* The transactions are T-1 (calls/admission.py), T-2 (calls/completion.py) *)
(* and T-6 (calls/interruption.py), and the replacement of an assignment   *)
(* (modules/training/assignment.py).  CallPlane implements this module.    *)
(***************************************************************************)
EXTENDS Integers, FiniteSets

CONSTANTS
    Reps,            \* accounts that take metered attempts
    Candidates,      \* token-bound hiring candidates
    Calls,           \* the calls that may become attempts
    NoOne,
    Allowed,         \* attempts_allowed of a rep's assignment
    MaxGrants,       \* bound: how often a manager grants the assignment
    LastStage        \* a candidate's plan has the stages 1 .. LastStage

ASSUME LedgerAssumption ==
    /\ Reps \cap Candidates = {}
    /\ NoOne \notin Reps \cup Candidates
    /\ IsFiniteSet(Calls)
    /\ Allowed \in Nat /\ MaxGrants \in Nat /\ LastStage \in Nat \ {0}

Stages == 1 .. LastStage

VARIABLES
    attempt,             \* attempt.status; "none" before T-1, "deleted" after FR-LIV-016
    who, at,             \* attempt.rep_account_id or candidate_id, assessment_stage_id
    used, grant,         \* assignment_recipient.attempts_used, how often it was replaced
    grantOf,             \* the grant an attempt was charged to
    gradeJobs,           \* grade_attempt jobs enqueued for an attempt
    closed, reportJobs   \* candidate.completed_at, render_report jobs enqueued

vars == <<attempt, who, at, used, grant, grantOf, gradeJobs, closed, reportJobs>>

Ends == {"completed", "interrupted", "deleted"}

TypeOK ==
    /\ attempt \in [Calls -> {"none", "in_progress"} \cup Ends]
    /\ who \in [Calls -> Reps \cup Candidates \cup {NoOne}]
    /\ at \in [Calls -> Stages \cup {0}]
    /\ used \in [Reps -> 0 .. Allowed]
    /\ grant \in [Reps -> 0 .. MaxGrants]
    /\ grantOf \in [Calls -> 0 .. MaxGrants]
    /\ gradeJobs \in [Calls -> Nat]
    /\ closed \in [Candidates -> BOOLEAN]
    /\ reportJobs \in [Candidates -> Nat]

Init ==
    /\ attempt = [c \in Calls |-> "none"]
    /\ who = [c \in Calls |-> NoOne]
    /\ at = [c \in Calls |-> 0]
    /\ used = [p \in Reps |-> 0]
    /\ grant = [p \in Reps |-> 0]
    /\ grantOf = [c \in Calls |-> 0]
    /\ gradeJobs = [c \in Calls |-> 0]
    /\ closed = [p \in Candidates |-> FALSE]
    /\ reportJobs = [p \in Candidates |-> 0]

\* The attempts of p at stage s that have the status, in the table att.
Having(att, p, s, status) == {c \in Calls : who[c] = p /\ at[c] = s /\ att[c] = status}

\* A stage is closed once it is completed or twice interrupted.
StageClosed(att, p, s) ==
    \/ Having(att, p, s, "completed") # {}
    \/ Cardinality(Having(att, p, s, "interrupted")) >= 2

PlanClosed(att, p) == \A s \in Stages : StageClosed(att, p, s)

AdmitRep(c, p) ==
    /\ attempt[c] = "none"
    /\ used[p] < Allowed
    /\ attempt' = [attempt EXCEPT ![c] = "in_progress"]
    /\ who' = [who EXCEPT ![c] = p]
    /\ used' = [used EXCEPT ![p] = @ + 1]
    /\ grantOf' = [grantOf EXCEPT ![c] = grant[p]]
    /\ UNCHANGED <<at, grant, gradeJobs, closed, reportJobs>>

AdmitCandidate(c, p, s) ==
    /\ attempt[c] = "none"
    /\ ~closed[p]
    /\ ~StageClosed(attempt, p, s)
    /\ \A r \in 1 .. s - 1 : StageClosed(attempt, p, r)
    /\ attempt' = [attempt EXCEPT ![c] = "in_progress"]
    /\ who' = [who EXCEPT ![c] = p]
    /\ at' = [at EXCEPT ![c] = s]
    /\ UNCHANGED <<used, grant, grantOf, gradeJobs, closed, reportJobs>>

\* A completed attempt stays charged, any other gives its charge back.
Refund(c, end) ==
    IF who[c] \in Reps /\ end # "completed" /\ used[who[c]] > 0
    THEN used' = [used EXCEPT ![who[c]] = @ - 1]
    ELSE UNCHANGED used

\* The end that closes the last open stage closes the plan, and reports it.
ClosePlan(c, end, att) ==
    IF /\ who[c] \in Candidates /\ end # "deleted"
       /\ ~closed[who[c]] /\ PlanClosed(att, who[c])
    THEN /\ closed' = [closed EXCEPT ![who[c]] = TRUE]
         /\ reportJobs' = [reportJobs EXCEPT ![who[c]] = @ + 1]
    ELSE UNCHANGED <<closed, reportJobs>>

End(c, end) ==
    /\ attempt[c] = "in_progress"
    /\ attempt' = [attempt EXCEPT ![c] = end]
    /\ gradeJobs' = [gradeJobs EXCEPT ![c] = IF end = "completed" THEN @ + 1 ELSE @]
    /\ Refund(c, end)
    /\ ClosePlan(c, end, attempt')
    /\ UNCHANGED <<who, at, grant, grantOf>>

Reassign(p) ==
    /\ grant[p] < MaxGrants
    /\ grant' = [grant EXCEPT ![p] = @ + 1]
    /\ used' = [used EXCEPT ![p] = 0]
    /\ UNCHANGED <<attempt, who, at, grantOf, gradeJobs, closed, reportJobs>>

Next ==
    \/ \E c \in Calls, p \in Reps : AdmitRep(c, p)
    \/ \E c \in Calls, p \in Candidates, s \in Stages : AdmitCandidate(c, p, s)
    \/ \E c \in Calls, end \in Ends : End(c, end)
    \/ \E p \in Reps : Reassign(p)

Spec == Init /\ [][Next]_vars

-----------------------------------------------------------------------------
(* Properties *)

\* The attempts of a rep that took, and did not give back, one of the grant.
Charged(p) == {c \in Calls : /\ who[c] = p
                             /\ attempt[c] \in {"in_progress", "completed"}
                             /\ grantOf[c] = grant[p]}

\* Admission charges an attempt and its end gives it back at most once, however
\* many callbacks, sweeps, webhooks and cancels report that end: a rep is never
\* charged for an attempt that is void or gone (_CONSUME_ALLOWANCE,
\* _REVERSE_ALLOWANCE).
NeverOvercharged == \A p \in Reps : used[p] <= Cardinality(Charged(p))

\* And while the manager does not replace the assignment, a rep is not given
\* back more than was charged either.
AllowanceExact == \A p \in Reps : used[p] = Cardinality(Charged(p))

\* The grading job is enqueued once, by the transaction that completes the
\* attempt, though callbacks repeat and race the sweep (complete, T-2).
GradedExactlyOnce ==
    \A c \in Calls : gradeJobs[c] = IF attempt[c] = "completed" THEN 1 ELSE 0

\* Whichever of the racing paths wins, the others leave its verdict alone.
DispositionIsFinal ==
    [][\A c \in Calls : attempt[c] \in Ends => attempt'[c] = attempt[c]]_vars

\* No stage of a plan is attempted before every earlier one is completed or
\* twice interrupted (_STAGE_STATE).
StagesInOrder ==
    \A c \in Calls :
        attempt[c] \in {"in_progress", "completed", "interrupted"}
        /\ who[c] \in Candidates
            => \A s \in 1 .. at[c] - 1 : StageClosed(attempt, who[c], s)

\* A plan whose stages are all closed has been closed by the transaction that
\* closed its last stage, which enqueued the report once: no order of
\* completions and interruptions leaves a finished candidate without it.
PlanClosedOnce ==
    \A p \in Candidates :
        /\ closed[p] <=> PlanClosed(attempt, p)
        /\ reportJobs[p] = IF closed[p] THEN 1 ELSE 0
=============================================================================
