----------------------------- MODULE WorkPlane -----------------------------
(***************************************************************************)
(* The work plane: the jobs that an attempt's end, a manager or an operator *)
(* enqueues with their transaction, the executor that runs them at least   *)
(* once (platform/queue), and what they write: grades, report PDFs and     *)
(* mail.  Three things run against them: decisions about the organization  *)
(* (lifecycle operations and the end of the service term), the erasure of  *)
(* a subject, and the manager's own requests about the report.             *)
(*                                                                         *)
(* A handler's transaction holds the organization's row FOR SHARE and, if  *)
(* its lane has a subject, that subject's advisory lock until it ends.     *)
(***************************************************************************)
EXTENDS AttemptLedger

CONSTANTS
    Redrives,      \* bound: jobs per call or candidate beyond the first
    MaxAttempts,   \* max_attempts of the lanes' specifications
    Notify,        \* notify_on_completion of the position
    Policies,      \* what its report_policy may be
    Mishaps,       \* what else may happen: see WorkAssumption
    MaxMishaps     \* bound: how often, in all

(* "death": a worker dies.  "ack": the acknowledgement of a commit is lost. *)
(* "exhaustion": a terminal action fails.  "decision": a lifecycle operation, *)
(* or the end of the term.  "erasure" of a subject.  "patch" of the policy.  *)
ASSUME WorkAssumption ==
    /\ Redrives \in Nat /\ MaxAttempts \in Nat
    /\ Notify \in BOOLEAN
    /\ Policies \subseteq {"after_finish", "rejected_only", "withhold"}
    /\ Mishaps \subseteq {"death", "ack", "exhaustion", "decision", "erasure", "patch"}
    /\ MaxMishaps \in Nat

Subjects == Reps \cup Candidates

GradeJobs == {"grade"} \X Calls \X (0 .. Redrives)
RenderJobs == {"render"} \X Candidates \X (0 .. Redrives)
MailJobs == {"E3", "E4", "E5"} \X Candidates \X {0}
Jobs == GradeJobs \cup RenderJobs \cup MailJobs

VARIABLES
    grade,       \* attempt.status beyond "completed"; a scorecard iff "graded"
    fault,       \* an open grading_failure in ops_fault
    report,      \* candidate_report.pdf_status
    pdf,         \* the calls shown by the PDF in the bucket
    decision,    \* candidate.decision
    listed,      \* in shortlist_candidate
    policy,      \* position.report_policy
    mail,        \* email_send.status
    job, tries,  \* procrastinate_jobs: progress and attempts
    serving,     \* the organization is active and inside its service term
    deciding,    \* the pending org_lifecycle_operation
    mishaps,     \* how many have happened
    erasure      \* "asked" once erasure_request has the subject, then "executed"

rows == <<grade, fault, report, pdf, decision, listed, policy, mail>>
queue == <<job, tries>>
gate == <<serving, deciding, erasure>>
org == <<gate, mishaps>>
workVars == <<vars, rows, queue, org>>

JobStates == {"none", "todo", "running", "put", "exhausting",
              "done", "dropped", "dead"}

RowsTypeOK ==
    /\ grade \in [Calls -> {"none", "pending", "graded"}]
    /\ fault \in [Calls -> BOOLEAN]
    /\ report \in [Candidates -> {"absent", "pending", "available", "failed", "erased"}]
    /\ pdf \in [Candidates -> SUBSET Calls]
    /\ decision \in [Candidates -> {"none", "approved", "rejected"}]
    /\ listed \in [Candidates -> BOOLEAN]
    /\ policy \in Policies
    /\ mail \in [MailJobs -> {"none", "queued", "sent", "failed"}]

QueueTypeOK ==
    /\ job \in [Jobs -> JobStates]
    /\ tries \in [Jobs -> 0 .. MaxAttempts]

OrgTypeOK ==
    /\ serving \in BOOLEAN
    /\ deciding \in {"nothing", "term"} \cup Subjects
    /\ erasure \in [Subjects -> {"none", "asked", "executed"}]
    /\ mishaps \in 0 .. MaxMishaps

WorkTypeOK == TypeOK /\ RowsTypeOK /\ QueueTypeOK /\ OrgTypeOK

WorkInit ==
    /\ Init
    /\ grade = [c \in Calls |-> "none"]
    /\ fault = [c \in Calls |-> FALSE]
    /\ report = [p \in Candidates |-> "absent"]
    /\ pdf = [p \in Candidates |-> {}]
    /\ decision = [p \in Candidates |-> "none"]
    /\ listed = [p \in Candidates |-> FALSE]
    /\ policy \in Policies
    /\ mail = [j \in MailJobs |-> "none"]
    /\ job = [j \in Jobs |-> "none"]
    /\ tries = [j \in Jobs |-> 0]
    /\ serving = TRUE
    /\ deciding = "nothing"
    /\ erasure = [p \in Subjects |-> "none"]
    /\ mishaps = 0

-----------------------------------------------------------------------------
(* What transactions look at first *)

\* Mutant: a pending operation does not suspend the organization's work.
Admitted_TermOnly == serving

\* app_org_service_access: the gate of ordinary jobs and of account and
\* candidate requests.
Admitted == serving /\ deciding = "nothing"

\* The job's transaction is open.
Open(j) == job[j] \in {"running", "put"}

Subject(j) == IF j \in GradeJobs THEN who[j[2]] ELSE j[2]

\* A shortlist's mail has no subject (_subject_identities).
HasSubject(j) == j[1] # "E4"

\* Mutant: a lock of the session, which a dead worker's connection keeps.
LockFree_OfSession(p) ==
    \A j \in Jobs : (Open(j) \/ job[j] = "dead") /\ HasSubject(j) => Subject(j) # p

LockFree(p) == \A j \in Jobs : Open(j) /\ HasSubject(j) => Subject(j) # p

Fenced(j) == HasSubject(j) /\ erasure[Subject(j)] # "none"

GradedOf(p) == {c \in Calls : who[c] = p /\ grade[c] = "graded"}

\* The handler's early return: its effect is there already, or has no target.
Nothing(j) ==
    \/ j \in GradeJobs /\ (attempt[j[2]] # "completed" \/ grade[j[2]] = "graded")
    \/ j \in RenderJobs /\ report[j[2]] = "absent"
    \/ j \in MailJobs /\ mail[j] # "queued"

\* The provider can be asked: there is a card to render, a PDF to attach.
Ready(j) ==
    CASE j[1] = "grade" -> TRUE
      [] j[1] = "render" -> GradedOf(j[2]) # {}
      [] j[1] = "E3" -> report[j[2]] = "available" /\ pdf[j[2]] # {}
      [] j[1] = "E4" -> pdf[j[2]] # {}
      [] j[1] = "E5" -> TRUE

-----------------------------------------------------------------------------
(* The queue *)

\* The jobs of new are inserted, by a transaction that is no job's.
Enqueue(new) ==
    /\ job' = [j \in Jobs |-> IF j \in new THEN "todo" ELSE job[j]]
    /\ tries' = [j \in Jobs |-> IF j \in new THEN 0 ELSE tries[j]]

\* Job i goes on to state s, and its transaction inserts the jobs of new.
Move(i, s, new) ==
    /\ job' = [j \in Jobs |-> IF j = i THEN s ELSE IF j \in new THEN "todo" ELSE job[j]]
    /\ tries' = [j \in Jobs |->
                    CASE j = i /\ s \in {"done", "dropped", "dead"} -> 0
                      [] j = i /\ s = "todo" /\ job[i] # "exhausting" -> tries[i] + 1
                      [] j # i /\ j \in new -> 0
                      [] OTHER -> tries[j]]

\* A free row for one more job of the kind; the bound of the model.
Spare(j) == j[3] # 0 /\ job[j] \in {"none", "done"}

\* LaneRetryStrategy, and a failure that no retry can help.
Retry(j) ==
    IF tries[j] >= MaxAttempts \/ (j[1] = "E3" /\ report[j[2]] # "available")
    THEN "exhausting" ELSE "todo"

Mishap(m) ==
    /\ m \in Mishaps /\ mishaps < MaxMishaps
    /\ mishaps' = mishaps + 1

\* Job j commits and inserts the jobs of new; or commits, and the worker that
\* misses the acknowledgement sees a failure.
Commit(j, failed, new) ==
    \/ Move(j, "done", new) /\ UNCHANGED mishaps
    \/ Mishap("ack") /\ Move(j, failed, new)

\* JobExecutor up to the handler's first provider call.
Take(j) ==
    /\ job[j] = "todo"
    /\ \/ ~Admitted /\ Move(j, "dropped", {})
       \/ /\ Admitted
          /\ HasSubject(j) => LockFree(Subject(j))
          /\ Move(j, IF Fenced(j) \/ Nothing(j) THEN "done" ELSE "running", {})
    /\ UNCHANGED <<vars, rows, org>>

\* The term ends under the handler: its transaction is rolled back, and the
\* job counts as done.
Suspended(j) ==
    /\ Open(j) /\ ~Admitted
    /\ Move(j, "dropped", {})
    /\ UNCHANGED <<vars, rows, org>>

Fail(j) ==
    /\ Open(j)
    /\ Move(j, Retry(j), {})
    /\ UNCHANGED <<vars, rows, org>>

\* The row stays "doing", which nothing takes up again.
Die(j) ==
    /\ Mishap("death")
    /\ Open(j) \/ job[j] = "exhausting"
    /\ Move(j, "dead", {})
    /\ UNCHANGED <<vars, rows, gate>>

-----------------------------------------------------------------------------
(* The lanes *)

\* T-3, with the evaluator's answer.
CommitGrade(j) ==
    /\ j \in GradeJobs /\ job[j] = "running" /\ Admitted
    /\ grade' = [grade EXCEPT ![j[2]] = "graded"]
    /\ Commit(j, Retry(j), {})
    /\ UNCHANGED <<vars, fault, report, pdf, decision, listed, policy, mail, gate>>

\* The PDF is in the bucket before the row says so, and whatever it says.
PutPdf(j) ==
    /\ j \in RenderJobs /\ job[j] = "running" /\ Ready(j)
    /\ pdf' = [pdf EXCEPT ![j[2]] = GradedOf(j[2])]
    /\ Move(j, "put", {})
    /\ UNCHANGED <<vars, grade, fault, report, decision, listed, policy, mail, org>>

\* queue_eligible_candidate_report, for the report and decision of p as the
\* transaction leaves them: the mail it creates.
Eligible(p, rep, dec) ==
    {j \in MailJobs :
        /\ j[1] = "E3" /\ j[2] = p /\ mail[j] = "none"
        /\ rep = "available"
        /\ \/ policy = "after_finish" /\ closed[p]
           \/ policy = "rejected_only" /\ dec = "rejected"}

CreateMail(new) == mail' = [j \in MailJobs |-> IF j \in new THEN "queued" ELSE mail[j]]

\* store_rendered_report, while the row is still pending.
CommitRender(j) ==
    LET p == j[2]
        new == IF report[p] = "pending" THEN Eligible(p, "available", decision[p]) ELSE {}
    IN  /\ j \in RenderJobs /\ job[j] = "put" /\ Admitted
        /\ report' = [report EXCEPT ![p] = IF @ = "pending" THEN "available" ELSE @]
        /\ CreateMail(new)
        /\ Commit(j, Retry(j), new)
        /\ UNCHANGED <<vars, grade, fault, pdf, decision, listed, policy, gate>>

\* The provider has accepted the message.
Send(j) ==
    /\ j \in MailJobs /\ job[j] = "running" /\ Ready(j)
    /\ Move(j, "put", {})
    /\ UNCHANGED <<vars, rows, org>>

CommitMail(j) ==
    /\ j \in MailJobs /\ job[j] = "put" /\ Admitted
    /\ mail' = [mail EXCEPT ![j] = "sent"]
    /\ Commit(j, Retry(j), {})
    /\ UNCHANGED <<vars, grade, fault, report, pdf, decision, listed, policy, gate>>

\* Mutant: the fault is opened by an operator's query, not here.
GradingExhausted_Silent(c) ==
    /\ grade' = [grade EXCEPT ![c] = IF attempt[c] = "completed" /\ @ = "none"
                                     THEN "pending" ELSE @]
    /\ UNCHANGED fault

\* mark_grading_exhausted: a graded attempt keeps its grade, and has a fault.
GradingExhausted(c) ==
    /\ grade' = [grade EXCEPT ![c] = IF attempt[c] = "completed" /\ @ = "none"
                                     THEN "pending" ELSE @]
    /\ fault' = [fault EXCEPT ![c] = TRUE]

\* Mutant: the row need not be pending.
RenderFailed_Any(p) == report' = [report EXCEPT ![p] = "failed"]

RenderFailed(p) ==
    report' = [report EXCEPT ![p] = IF @ = "pending" THEN "failed" ELSE @]

MailFailed(j) == mail' = [mail EXCEPT ![j] = IF @ = "queued" THEN "failed" ELSE @]

OnExhausted(j) ==
    \/ /\ j \in GradeJobs /\ GradingExhausted(j[2])
       /\ UNCHANGED <<report, mail>>
    \/ /\ j \in RenderJobs /\ RenderFailed(j[2])
       /\ UNCHANGED <<grade, fault, mail>>
    \/ /\ j \in MailJobs /\ MailFailed(j)
       /\ UNCHANGED <<grade, fault, report>>

\* _run_exhaustion: a transaction of its own, with the gate but no fence.
Exhaust(j) ==
    /\ job[j] = "exhausting"
    /\ \/ /\ ~Admitted
          /\ Move(j, "dropped", {})
          /\ UNCHANGED <<grade, fault, report, mail, mishaps>>
       \/ /\ Admitted
          /\ OnExhausted(j)
          /\ Commit(j, "todo", {})
    /\ UNCHANGED <<vars, pdf, decision, listed, policy, gate>>

\* ExhaustionActionFailure: the whole job is tried again.
ExhaustFails(j) ==
    /\ job[j] = "exhausting"
    /\ Mishap("exhaustion")
    /\ Move(j, "todo", {})
    /\ UNCHANGED <<vars, rows, gate>>

-----------------------------------------------------------------------------
(* Transactions that enqueue *)

\* The jobs of an attempt's end: what the ledger counts.
Submitted ==
    {j \in Jobs :
        /\ j[3] = 0
        /\ \/ j \in GradeJobs /\ gradeJobs'[j[2]] > gradeJobs[j[2]]
           \/ j \in RenderJobs /\ reportJobs'[j[2]] > reportJobs[j[2]]
           \/ Notify /\ j \in MailJobs /\ j[1] = "E5" /\ reportJobs'[j[2]] > reportJobs[j[2]]}

Call(c) ==
    /\ Admitted
    /\ \/ \E p \in Reps : AdmitRep(c, p) /\ LockFree(p) /\ erasure[p] = "none"
       \/ \E p \in Candidates, s \in Stages :
              AdmitCandidate(c, p, s) /\ LockFree(p) /\ erasure[p] = "none"
    /\ UNCHANGED <<rows, queue, org>>

\* T-2 and T-6; neither asks whether the organization is served.
EndCall(c, end) ==
    /\ End(c, end)
    /\ end = "completed" => LockFree(who[c]) /\ erasure[who[c]] = "none"
    /\ Enqueue(Submitted)
    /\ CreateMail(Submitted)
    /\ UNCHANGED <<grade, fault, report, pdf, decision, listed, policy, org>>

Assign(p) == Admitted /\ Reassign(p) /\ UNCHANGED <<rows, queue, org>>

\* POST /candidates/{id}/report/render claims a report that is not under way.
RequestRender(p) ==
    /\ Admitted
    /\ report[p] \in {"absent", "failed"}
    /\ report' = [report EXCEPT ![p] = "pending"]
    /\ \E j \in RenderJobs : j[2] = p /\ Spare(j) /\ Enqueue({j})
    /\ UNCHANGED <<vars, grade, fault, pdf, decision, listed, policy, mail, org>>

\* PUT /candidates/{id}/decision; trg_decision_freeze refuses what a racing
\* shortlist has made stale.
Decide(p, verdict) ==
    LET new == Eligible(p, report[p], verdict)
    IN  /\ Admitted
        /\ GradedOf(p) # {} /\ ~listed[p]
        /\ decision' = [decision EXCEPT ![p] = verdict]
        /\ CreateMail(new)
        /\ Enqueue(new)
        /\ UNCHANGED <<vars, grade, fault, report, pdf, listed, policy, org>>

\* POST /positions/{id}/shortlists, a shortlist of one.
SendShortlist(p) ==
    LET new == {j \in MailJobs : j[1] = "E4" /\ j[2] = p}
    IN  /\ Admitted
        /\ decision[p] = "approved" /\ report[p] = "available" /\ ~listed[p]
        /\ listed' = [listed EXCEPT ![p] = TRUE]
        /\ CreateMail(new)
        /\ Enqueue(new)
        /\ UNCHANGED <<vars, grade, fault, report, pdf, decision, policy, org>>

PatchPolicy(to) ==
    /\ Admitted /\ policy # to
    /\ Mishap("patch")
    /\ policy' = to
    /\ UNCHANGED <<vars, grade, fault, report, pdf, decision, listed, mail, queue, gate>>

\* An operator re-drives the grading, whatever the organization's state.
ResolveFault(c) ==
    /\ fault[c]
    /\ fault' = [fault EXCEPT ![c] = FALSE]
    /\ \E j \in GradeJobs : j[2] = c /\ Spare(j) /\ Enqueue({j})
    /\ UNCHANGED <<vars, grade, report, pdf, decision, listed, policy, mail, org>>

-----------------------------------------------------------------------------
(* Decisions about the organization and its subjects *)

\* prepare locks the organization's row FOR UPDATE: it waits for every open
\* job, and whatever comes after sees the pending operation.
Prepare(x) ==
    /\ deciding = "nothing"
    /\ \A j \in Jobs : ~Open(j)
    /\ \/ x = "term" /\ Mishap("decision")
       \/ x \in Subjects /\ erasure[x] = "none" /\ Mishap("erasure")
    /\ deciding' = x
    /\ UNCHANGED <<vars, rows, queue, serving, erasure>>

Reject ==
    /\ deciding # "nothing"
    /\ deciding' = "nothing"
    /\ UNCHANGED <<vars, rows, queue, serving, erasure, mishaps>>

\* The independent history has accepted the operation: it is projected.
Apply ==
    /\ deciding # "nothing"
    /\ deciding' = "nothing"
    /\ \/ /\ deciding = "term"
          /\ serving' \in BOOLEAN
          /\ UNCHANGED erasure
       \/ /\ deciding \in Subjects
          /\ erasure' = [erasure EXCEPT ![deciding] = "asked"]
          /\ UNCHANGED serving
    /\ UNCHANGED <<vars, rows, queue, mishaps>>

\* clock_timestamp() passes service_ends_at.
TermEnds ==
    /\ Mishap("decision")
    /\ serving
    /\ serving' = FALSE
    /\ UNCHANGED <<vars, rows, queue, deciding, erasure>>

\* execute_erasure: the rows are blanked, and the object goes whose key they
\* held.
Erase(p) ==
    /\ erasure[p] = "asked" /\ deciding = "nothing" /\ LockFree(p)
    /\ erasure' = [erasure EXCEPT ![p] = "executed"]
    /\ report' = [k \in Candidates |-> IF k = p /\ report[k] # "absent" THEN "erased"
                                       ELSE report[k]]
    /\ pdf' = [k \in Candidates |-> IF k = p /\ report[k] = "available" THEN {} ELSE pdf[k]]
    /\ UNCHANGED <<vars, grade, fault, decision, listed, policy, mail, queue, serving, deciding, mishaps>>

-----------------------------------------------------------------------------
Run(j) ==
    \/ Suspended(j) \/ Fail(j)
    \/ CommitGrade(j)
    \/ PutPdf(j) \/ CommitRender(j)
    \/ Send(j) \/ CommitMail(j)

WorkNext ==
    \/ \E c \in Calls : Call(c) \/ ResolveFault(c)
    \/ \E c \in Calls, end \in Ends : EndCall(c, end)
    \/ \E p \in Reps : Assign(p)
    \/ \E p \in Candidates : RequestRender(p) \/ SendShortlist(p)
    \/ \E p \in Candidates, v \in {"approved", "rejected"} : Decide(p, v)
    \/ \E to \in Policies : PatchPolicy(to)
    \/ \E j \in Jobs : Take(j) \/ Run(j) \/ Die(j) \/ Exhaust(j) \/ ExhaustFails(j)
    \/ \E x \in Subjects \cup {"term"} : Prepare(x)
    \/ Reject \/ Apply \/ TermEnds
    \/ \E p \in Subjects : Erase(p)

WorkSpec == WorkInit /\ [][WorkNext]_workVars

\* A job that can be taken again and again is taken (workers poll, and waiters
\* for a lock are served in order); a handler ends (providers have timeouts).
WorkFairness ==
    \A j \in Jobs : SF_workVars(Take(j)) /\ WF_workVars(Run(j) \/ Exhaust(j))

FairWorkSpec == WorkSpec /\ WorkFairness

-----------------------------------------------------------------------------
(* Properties *)

Erasing(c) == who[c] \in Subjects /\ erasure[who[c]] # "none"

\* A row that may still run, or that shows an operator that it never will.
Alive(j) == job[j] \notin {"none", "done"}

GradesOwed ==
    \A c \in Calls : attempt[c] = "completed" =>
        \/ grade[c] = "graded" \/ fault[c] \/ Erasing(c)
        \/ \E j \in GradeJobs : j[2] = c /\ Alive(j)

ReportsOwed ==
    \A p \in Candidates : report[p] = "pending" =>
        erasure[p] # "none" \/ \E j \in RenderJobs : j[2] = p /\ Alive(j)

MailOwed ==
    \A j \in MailJobs : mail[j] = "queued" => Alive(j) \/ Fenced(j)

\* No order of failures, lost acknowledgements, exhaustions, re-drives and
\* repeated jobs makes the queue forget an effect that is owed: a completed
\* attempt is graded, shows a fault, or has a job; so has a pending report, and
\* a queued mail.  The exceptions are a subject under erasure, and the rows
\* that a suspended organization or a dead worker has left (Forgotten).
NothingForgotten == GradesOwed /\ ReportsOwed /\ MailOwed

\* What was sent stands: a candidate on a shortlist stays approved, and the PDF
\* that was attached, or is about to be, stays available until an erasure,
\* though renders, requests, exhaustions and decisions go on around it.
SentStands ==
    \A p \in Candidates :
        /\ listed[p] => decision[p] = "approved"
        /\ listed[p] \/ (\E j \in MailJobs : j[1] = "E3" /\ j[2] = p /\ mail[j] # "none")
              => report[p] \in {"available", "erased"}
        /\ report[p] = "available" => pdf[p] # {}

\* What the two need to be inductive, and FenceHolds: an attempt has a subject;
\* only a completed attempt is graded; no job is open while an operation is
\* pending or its subject is fenced; a render job that has put has a PDF; an
\* open mail job has its row.
CallsOwned == \A c \in Calls : attempt[c] # "none" => who[c] \in Subjects

GradedAfterCompletion ==
    /\ \A j \in GradeJobs : job[j] # "none" => attempt[j[2]] = "completed"
    /\ \A c \in Calls : fault[c] \/ grade[c] # "none" => attempt[c] = "completed"

FenceClear ==
    \A j \in Jobs : Open(j) => deciding = "nothing" /\ ~Fenced(j)

PutIsThere == \A j \in RenderJobs : job[j] = "put" => pdf[j[2]] # {}

MailIsThere == \A j \in MailJobs : Open(j) => mail[j] # "none"

WorkInv ==
    /\ WorkTypeOK
    /\ CallsOwned
    /\ GradedAfterCompletion
    /\ FenceClear
    /\ PutIsThere
    /\ MailIsThere
    /\ NothingForgotten
    /\ SentStands

\* A grade is final: no exhaustion of an older or a repeated job takes it back
\* (_PENDING).
GradedForGood ==
    [][\A c \in Calls : grade[c] = "graded" => grade'[c] = "graded"]_workVars

\* Once a subject's erasure is accepted, no job that was queued, running or
\* being retried makes anything of that subject any more, nor mails it, though
\* the request takes no lock that a job holds (erasure_fence.py).
FenceHolds ==
    [][/\ \A c \in Calls : grade'[c] = "graded" /\ grade[c] # "graded"
                               => ~Erasing(c)
       /\ \A p \in Candidates : erasure[p] # "none" => pdf'[p] \subseteq pdf[p]
       /\ \A j \in MailJobs : HasSubject(j) /\ mail'[j] = "sent" /\ mail[j] # "sent"
                               => erasure[j[2]] = "none"]_workVars

\* Nor does a completed attempt wait for ever, whatever fails: it is graded or
\* shown to the operators; a pending report is rendered or fails; a queued mail
\* is sent or fails.
Forgotten(j) == job[j] \in {"dropped", "dead"}

GradingSettles ==
    \A c \in Calls :
        attempt[c] = "completed" ~>
            \/ grade[c] = "graded" \/ fault[c] \/ Erasing(c)
            \/ \E j \in GradeJobs : j[2] = c /\ Forgotten(j)

DeliverySettles ==
    /\ \A p \in Candidates :
        report[p] = "pending" ~>
            report[p] # "pending" \/ erasure[p] # "none"
            \/ \E j \in RenderJobs : j[2] = p /\ Forgotten(j)
    /\ \A j \in MailJobs :
        mail[j] = "queued" ~> mail[j] # "queued" \/ Forgotten(j) \/ Fenced(j)

WorkSettles == GradingSettles /\ DeliverySettles

-----------------------------------------------------------------------------
(* What the documents say and the code does not do *)

\* FR-SCR-009: a completed call is never lost to a grading fault.  A job that
\* meets a pending lifecycle operation counts as done.
NeverLost ==
    \A c \in Calls : attempt[c] = "completed" =>
        \/ grade[c] = "graded" \/ fault[c] \/ Erasing(c)
        \/ \E j \in GradeJobs : j[2] = c /\ Alive(j) /\ ~Forgotten(j)

\* api/02: the completion enqueues the report's rendering.  The job returns
\* early unless a manager has asked for the report before.
CompletionRenders ==
    \A j \in RenderJobs : j[3] = 0 /\ job[j] = "done" => report[j[2]] # "absent"

\* FR-HIR-012: the PDF mirrors the report's content.
PdfMirrorsReport ==
    \A p \in Candidates :
        report[p] = "available" /\ closed[p]
        /\ (\A c \in Calls : who[c] = p /\ attempt[c] = "completed" => grade[c] = "graded")
        /\ (\A j \in RenderJobs : j[2] = p => ~Alive(j))
            => pdf[p] = GradedOf(p)
=============================================================================
