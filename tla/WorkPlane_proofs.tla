-------------------------- MODULE WorkPlane_proofs --------------------------
(***************************************************************************)
(* What holds of the work plane for any calls, candidates, retry budgets   *)
(* and number of mishaps.                                                  *)
(***************************************************************************)
EXTENDS WorkPlane, AttemptLedger_proofs

-----------------------------------------------------------------------------
(* Jobs *)

\* A job is about a call or a candidate; the lanes do not overlap.
LEMMA JobShape ==
    /\ \A j \in GradeJobs : j[1] = "grade" /\ j[2] \in Calls
    /\ \A j \in RenderJobs : j[1] = "render" /\ j[2] \in Candidates
    /\ \A j \in MailJobs : j[1] \in {"E3", "E4", "E5"} /\ j[2] \in Candidates
    /\ \A c \in Calls : <<"grade", c, 0>> \in GradeJobs
    /\ \A p \in Candidates : <<"render", p, 0>> \in RenderJobs
    /\ GradeJobs \subseteq Jobs /\ RenderJobs \subseteq Jobs /\ MailJobs \subseteq Jobs
    /\ Jobs = GradeJobs \cup RenderJobs \cup MailJobs
BY WorkAssumption DEF GradeJobs, RenderJobs, MailJobs, Jobs

LEMMA Lanes ==
    ASSUME NEW j
    PROVE  /\ j \in GradeJobs => j \notin RenderJobs /\ j \notin MailJobs
           /\ j \in RenderJobs => j \notin MailJobs
BY JobShape

\* What a job's step does to the rows of the queue.
LEMMA MoveQueue ==
    ASSUME QueueTypeOK, NEW i \in Jobs, NEW s \in JobStates, NEW new, Move(i, s, new),
           s = "todo" /\ job[i] # "exhausting" => tries[i] < MaxAttempts
    PROVE  /\ job' \in [Jobs -> JobStates]
           /\ tries' \in [Jobs -> 0 .. MaxAttempts]
           /\ job'[i] = s
           /\ \A j \in Jobs : j # i => job'[j] = IF j \in new THEN "todo" ELSE job[j]
<1>1. job' = [j \in Jobs |-> IF j = i THEN s ELSE IF j \in new THEN "todo" ELSE job[j]]
    BY DEF Move
<1>2. job' \in [Jobs -> JobStates]
    BY <1>1 DEF QueueTypeOK, JobStates
<1>3. ASSUME NEW j \in Jobs
      PROVE  (CASE j = i /\ s \in {"done", "dropped", "dead"} -> 0
                [] j = i /\ s = "todo" /\ job[i] # "exhausting" -> tries[i] + 1
                [] j # i /\ j \in new -> 0
                [] OTHER -> tries[j]) \in 0 .. MaxAttempts
    BY WorkAssumption DEF QueueTypeOK
<1>4. tries' \in [Jobs -> 0 .. MaxAttempts]
    BY <1>3 DEF Move
<1> QED
    BY <1>1, <1>2, <1>4

LEMMA EnqueueQueue ==
    ASSUME QueueTypeOK, NEW new, Enqueue(new)
    PROVE  /\ job' \in [Jobs -> JobStates]
           /\ tries' \in [Jobs -> 0 .. MaxAttempts]
           /\ \A j \in Jobs : job'[j] = IF j \in new THEN "todo" ELSE job[j]
BY WorkAssumption DEF QueueTypeOK, JobStates, Enqueue

\* A failed job is tried again only while its budget lasts.
LEMMA RetryBudget ==
    ASSUME QueueTypeOK, NEW j \in Jobs
    PROVE  /\ Retry(j) \in {"todo", "exhausting"}
           /\ Retry(j) = "todo" => tries[j] < MaxAttempts
BY WorkAssumption DEF QueueTypeOK, Retry

LEMMA CommitQueue ==
    ASSUME QueueTypeOK, OrgTypeOK, NEW i \in Jobs, NEW failed \in {"todo", "exhausting"}, NEW new,
           Commit(i, failed, new),
           failed = "todo" /\ job[i] # "exhausting" => tries[i] < MaxAttempts
    PROVE  /\ job' \in [Jobs -> JobStates]
           /\ tries' \in [Jobs -> 0 .. MaxAttempts]
           /\ mishaps' \in 0 .. MaxMishaps
           /\ job'[i] \in {"done", failed}
           /\ \A j \in Jobs : j # i => job'[j] = IF j \in new THEN "todo" ELSE job[j]
<1>1. CASE Move(i, "done", new) /\ UNCHANGED mishaps
    BY <1>1, MoveQueue DEF OrgTypeOK, JobStates
<1>2. CASE Mishap("ack") /\ Move(i, failed, new)
  <2>1. mishaps' \in 0 .. MaxMishaps
      BY <1>2, WorkAssumption DEF OrgTypeOK, Mishap
  <2> QED
      BY <1>2, <2>1, MoveQueue DEF JobStates
<1> QED
    BY <1>1, <1>2 DEF Commit

LEMMA MishapCounts ==
    ASSUME OrgTypeOK, NEW m, Mishap(m)
    PROVE  mishaps' \in 0 .. MaxMishaps
BY WorkAssumption DEF OrgTypeOK, Mishap

-----------------------------------------------------------------------------
(* The ledger inside the work plane *)

\* Every transaction of the work plane is one of the ledger's, or leaves the
\* attempts alone.
LEMMA LedgerStep == [WorkNext]_workVars => [Next]_vars
<1> SUFFICES ASSUME [WorkNext]_workVars PROVE [Next]_vars
    OBVIOUS
<1>1. ASSUME NEW c \in Calls, Call(c) PROVE Next
    BY <1>1 DEF Call, Next
<1>2. ASSUME NEW c \in Calls, NEW end \in Ends, EndCall(c, end) PROVE Next
    BY <1>2 DEF EndCall, Next
<1>3. ASSUME NEW p \in Reps, Assign(p) PROVE Next
    BY <1>3 DEF Assign, Next
<1>4. ASSUME NEW j \in Jobs, Take(j) \/ Run(j) \/ Die(j) \/ Exhaust(j) \/ ExhaustFails(j)
      PROVE  UNCHANGED vars
    BY <1>4
    DEF Take, Run, Suspended, Fail, CommitGrade, PutPdf, CommitRender, Send, CommitMail,
        Die, Exhaust, ExhaustFails
<1>5. ASSUME \/ \E c \in Calls : ResolveFault(c)
             \/ \E p \in Candidates : RequestRender(p) \/ SendShortlist(p)
             \/ \E p \in Candidates, v \in {"approved", "rejected"} : Decide(p, v)
             \/ \E to \in Policies : PatchPolicy(to)
             \/ \E x \in Subjects \cup {"term"} : Prepare(x)
             \/ Reject \/ Apply \/ TermEnds
             \/ \E p \in Subjects : Erase(p)
             \/ UNCHANGED workVars
      PROVE  UNCHANGED vars
    BY <1>5
    DEF ResolveFault, RequestRender, SendShortlist, Decide, PatchPolicy, Prepare, Reject,
        Apply, TermEnds, Erase, workVars
<1> QED
    BY <1>1, <1>2, <1>3, <1>4, <1>5 DEF WorkNext

\* What is proved of the ledger holds of the work plane.
THEOREM LedgerKept == WorkSpec => Spec
<1>1. WorkInit => Init
    BY DEF WorkInit
<1> QED
    BY <1>1, LedgerStep, PTL DEF WorkSpec, Spec

-----------------------------------------------------------------------------
(* Types *)

LEMMA SameType ==
    /\ RowsTypeOK /\ UNCHANGED rows => RowsTypeOK'
    /\ OrgTypeOK /\ UNCHANGED gate /\ mishaps' \in 0 .. MaxMishaps => OrgTypeOK'
    /\ OrgTypeOK /\ UNCHANGED org => OrgTypeOK'
BY DEF RowsTypeOK, OrgTypeOK, rows, org, gate

\* A step of a job that only moves its row.
LEMMA MoveType ==
    ASSUME WorkTypeOK, NEW j \in Jobs,
           Take(j) \/ Suspended(j) \/ Fail(j) \/ Die(j) \/ Send(j) \/ ExhaustFails(j)
    PROVE  RowsTypeOK' /\ QueueTypeOK' /\ OrgTypeOK'
<1> USE DEF WorkTypeOK
<1>1. RowsTypeOK'
    BY SameType DEF Take, Suspended, Fail, Die, Send, ExhaustFails
<1>2. OrgTypeOK'
    BY SameType, MishapCounts DEF Take, Suspended, Fail, Die, Send, ExhaustFails, org
<1>3. QueueTypeOK'
  <2>1. CASE Fail(j)
      BY <2>1, MoveQueue, RetryBudget DEF Fail, QueueTypeOK, JobStates
  <2>2. CASE Take(j)
      BY <2>2, MoveQueue DEF Take, QueueTypeOK, JobStates
  <2>3. CASE Suspended(j) \/ Die(j) \/ Send(j) \/ ExhaustFails(j)
      BY <2>3, MoveQueue DEF Suspended, Die, Send, ExhaustFails, QueueTypeOK, JobStates
  <2> QED
      BY <2>1, <2>2, <2>3
<1> QED
    BY <1>1, <1>2, <1>3

\* The effects of the three lanes.
LEMMA EffectType ==
    ASSUME WorkTypeOK, NEW j \in Jobs,
           CommitGrade(j) \/ PutPdf(j) \/ CommitRender(j) \/ CommitMail(j)
    PROVE  RowsTypeOK' /\ QueueTypeOK' /\ OrgTypeOK'
<1> USE DEF WorkTypeOK
<1>1. CASE PutPdf(j)
  <2>1. j[2] \in Candidates /\ GradedOf(j[2]) \subseteq Calls
      BY <1>1, JobShape DEF PutPdf, GradedOf
  <2>2. RowsTypeOK'
      BY <1>1, <2>1 DEF PutPdf, RowsTypeOK
  <2> QED
      BY <1>1, <2>2, SameType, MoveQueue DEF PutPdf, QueueTypeOK, JobStates
<1>2. CASE CommitGrade(j)
  <2>1. RowsTypeOK'
      BY <1>2, JobShape DEF CommitGrade, RowsTypeOK
  <2>2. QueueTypeOK' /\ mishaps' \in 0 .. MaxMishaps
      BY <1>2, CommitQueue, RetryBudget DEF CommitGrade, QueueTypeOK
  <2> QED
      BY <1>2, <2>1, <2>2, SameType DEF CommitGrade
<1>3. CASE CommitRender(j)
  <2>1. RowsTypeOK'
      BY <1>3, JobShape DEF CommitRender, CreateMail, RowsTypeOK
  <2>2. QueueTypeOK' /\ mishaps' \in 0 .. MaxMishaps
      BY <1>3, CommitQueue, RetryBudget DEF CommitRender, QueueTypeOK
  <2> QED
      BY <1>3, <2>1, <2>2, SameType DEF CommitRender
<1>4. CASE CommitMail(j)
  <2>1. RowsTypeOK'
      BY <1>4, JobShape DEF CommitMail, RowsTypeOK
  <2>2. QueueTypeOK' /\ mishaps' \in 0 .. MaxMishaps
      BY <1>4, CommitQueue, RetryBudget DEF CommitMail, QueueTypeOK
  <2> QED
      BY <1>4, <2>1, <2>2, SameType DEF CommitMail
<1> QED
    BY <1>1, <1>2, <1>3, <1>4

LEMMA ExhaustType ==
    ASSUME WorkTypeOK, NEW j \in Jobs, Exhaust(j)
    PROVE  RowsTypeOK' /\ QueueTypeOK' /\ OrgTypeOK'
<1> USE DEF WorkTypeOK
<1>1. CASE Move(j, "dropped", {}) /\ UNCHANGED <<grade, fault, report, mail, mishaps>>
    BY <1>1, MoveQueue, SameType
    DEF Exhaust, QueueTypeOK, JobStates, rows, org
<1>2. CASE OnExhausted(j) /\ Commit(j, "todo", {})
  <2>1. ASSUME j \in GradeJobs /\ GradingExhausted(j[2]) /\ UNCHANGED <<report, mail>>
        PROVE  RowsTypeOK'
    <3>1. grade' \in [Calls -> {"none", "pending", "graded"}]
        BY <2>1, JobShape DEF GradingExhausted, RowsTypeOK
    <3>2. fault' \in [Calls -> BOOLEAN]
        BY <2>1, Zenon DEF GradingExhausted, RowsTypeOK
    <3> QED
        BY <2>1, <3>1, <3>2 DEF Exhaust, RowsTypeOK
  <2>2. ASSUME j \in RenderJobs /\ RenderFailed(j[2]) /\ UNCHANGED <<grade, fault, mail>>
        PROVE  RowsTypeOK'
      BY <2>2, JobShape DEF Exhaust, RenderFailed, RowsTypeOK
  <2>3. ASSUME j \in MailJobs /\ MailFailed(j) /\ UNCHANGED <<grade, fault, report>>
        PROVE  RowsTypeOK'
      BY <2>3, JobShape DEF Exhaust, MailFailed, RowsTypeOK
  <2>4. RowsTypeOK'
      BY <1>2, <2>1, <2>2, <2>3 DEF OnExhausted
  <2>5. QueueTypeOK' /\ mishaps' \in 0 .. MaxMishaps
      BY <1>2, CommitQueue DEF Exhaust, QueueTypeOK
  <2> QED
      BY <2>4, <2>5, SameType DEF Exhaust
<1> QED
    BY <1>1, <1>2 DEF Exhaust

\* The transactions of calls and requests.
LEMMA RequestType ==
    ASSUME WorkTypeOK,
           \/ \E c \in Calls : Call(c) \/ ResolveFault(c)
           \/ \E c \in Calls, end \in Ends : EndCall(c, end)
           \/ \E p \in Reps : Assign(p)
           \/ \E p \in Candidates : RequestRender(p) \/ SendShortlist(p)
           \/ \E p \in Candidates, v \in {"approved", "rejected"} : Decide(p, v)
           \/ \E to \in Policies : PatchPolicy(to)
    PROVE  RowsTypeOK' /\ QueueTypeOK' /\ OrgTypeOK'
<1> USE DEF WorkTypeOK
<1>1. ASSUME NEW c \in Calls, Call(c) PROVE RowsTypeOK' /\ QueueTypeOK' /\ OrgTypeOK'
    BY <1>1, SameType DEF Call, queue, QueueTypeOK
<1>2. ASSUME NEW c \in Calls, ResolveFault(c) PROVE RowsTypeOK' /\ QueueTypeOK' /\ OrgTypeOK'
  <2>1. fault' \in [Calls -> BOOLEAN]
      BY <1>2, Zenon DEF ResolveFault, RowsTypeOK
  <2> QED
      BY <1>2, <2>1, SameType, EnqueueQueue DEF ResolveFault, RowsTypeOK, QueueTypeOK
<1>3. ASSUME NEW c \in Calls, NEW end \in Ends, EndCall(c, end)
      PROVE  RowsTypeOK' /\ QueueTypeOK' /\ OrgTypeOK'
    BY <1>3, SameType, EnqueueQueue DEF EndCall, CreateMail, RowsTypeOK, QueueTypeOK
<1>4. ASSUME NEW p \in Reps, Assign(p) PROVE RowsTypeOK' /\ QueueTypeOK' /\ OrgTypeOK'
    BY <1>4, SameType DEF Assign, queue, QueueTypeOK
<1>5. ASSUME NEW p \in Candidates, RequestRender(p)
      PROVE  RowsTypeOK' /\ QueueTypeOK' /\ OrgTypeOK'
    BY <1>5, SameType, EnqueueQueue DEF RequestRender, RowsTypeOK, QueueTypeOK
<1>6. ASSUME NEW p \in Candidates, SendShortlist(p)
      PROVE  RowsTypeOK' /\ QueueTypeOK' /\ OrgTypeOK'
  <2>1. listed' \in [Candidates -> BOOLEAN]
      BY <1>6, Zenon DEF SendShortlist, RowsTypeOK
  <2> QED
      BY <1>6, <2>1, SameType, EnqueueQueue
      DEF SendShortlist, CreateMail, RowsTypeOK, QueueTypeOK
<1>7. ASSUME NEW p \in Candidates, NEW v \in {"approved", "rejected"}, Decide(p, v)
      PROVE  RowsTypeOK' /\ QueueTypeOK' /\ OrgTypeOK'
    BY <1>7, SameType, EnqueueQueue DEF Decide, CreateMail, RowsTypeOK, QueueTypeOK
<1>8. ASSUME NEW to \in Policies, PatchPolicy(to)
      PROVE  RowsTypeOK' /\ QueueTypeOK' /\ OrgTypeOK'
    BY <1>8, SameType, MishapCounts DEF PatchPolicy, queue, RowsTypeOK, QueueTypeOK
<1> QED
    BY <1>1, <1>2, <1>3, <1>4, <1>5, <1>6, <1>7, <1>8

\* The decisions.
LEMMA DecisionType ==
    ASSUME WorkTypeOK,
           \/ \E x \in Subjects \cup {"term"} : Prepare(x)
           \/ Reject \/ Apply \/ TermEnds
           \/ \E p \in Subjects : Erase(p)
    PROVE  RowsTypeOK' /\ QueueTypeOK' /\ OrgTypeOK'
<1> USE DEF WorkTypeOK
<1>1. ASSUME NEW x \in Subjects \cup {"term"}, Prepare(x)
      PROVE  RowsTypeOK' /\ QueueTypeOK' /\ OrgTypeOK'
    BY <1>1, SameType, MishapCounts DEF Prepare, queue, OrgTypeOK, QueueTypeOK
<1>2. CASE Reject
    BY <1>2, SameType DEF Reject, queue, OrgTypeOK, QueueTypeOK
<1>3. CASE Apply
    BY <1>3, SameType DEF Apply, queue, OrgTypeOK, QueueTypeOK
<1>4. CASE TermEnds
    BY <1>4, SameType, MishapCounts DEF TermEnds, queue, OrgTypeOK, QueueTypeOK
<1>5. ASSUME NEW p \in Subjects, Erase(p) PROVE RowsTypeOK' /\ QueueTypeOK' /\ OrgTypeOK'
  <2>1. RowsTypeOK'
      BY <1>5 DEF Erase, RowsTypeOK
  <2>2. OrgTypeOK'
      BY <1>5 DEF Erase, OrgTypeOK
  <2> QED
      BY <1>5, <2>1, <2>2 DEF Erase, queue, QueueTypeOK
<1> QED
    BY <1>1, <1>2, <1>3, <1>4, <1>5

LEMMA WorkTypeStep == WorkTypeOK /\ [WorkNext]_workVars => WorkTypeOK'
<1> SUFFICES ASSUME WorkTypeOK, [WorkNext]_workVars
             PROVE  TypeOK' /\ RowsTypeOK' /\ QueueTypeOK' /\ OrgTypeOK'
    BY DEF WorkTypeOK
<1>1. TypeOK'
    BY LedgerStep, TypeInvariant DEF WorkTypeOK
<1>2. ASSUME NEW j \in Jobs, Take(j) \/ Run(j) \/ Die(j) \/ Exhaust(j) \/ ExhaustFails(j)
      PROVE  RowsTypeOK' /\ QueueTypeOK' /\ OrgTypeOK'
    BY <1>2, MoveType, EffectType, ExhaustType DEF Run
<1>3. CASE UNCHANGED workVars
    BY <1>1, <1>3, SameType DEF WorkTypeOK, QueueTypeOK, workVars, queue
<1> QED
    BY <1>1, <1>2, <1>3, RequestType, DecisionType DEF WorkNext

LEMMA WorkTypeAtFirst == WorkInit => WorkTypeOK
<1> SUFFICES ASSUME WorkInit PROVE TypeOK /\ RowsTypeOK /\ QueueTypeOK /\ OrgTypeOK
    BY DEF WorkTypeOK
<1>1. TypeOK
    BY LedgerAssumption DEF WorkInit, Init, TypeOK, Ends
<1>2. RowsTypeOK
    BY DEF WorkInit, RowsTypeOK
<1>3. QueueTypeOK
    BY WorkAssumption DEF WorkInit, QueueTypeOK, JobStates
<1>4. OrgTypeOK
    BY WorkAssumption DEF WorkInit, OrgTypeOK
<1> QED
    BY <1>1, <1>2, <1>3, <1>4

\* The work plane is well typed in every reachable state: no job is tried more
\* often than its lane allows, whatever fails.
THEOREM WorkType == WorkSpec => []WorkTypeOK
BY WorkTypeAtFirst, WorkTypeStep, PTL DEF WorkSpec

-----------------------------------------------------------------------------
(* What a step leaves alone *)

\* The steps of WorkNext, sorted by what they touch.
LEMMA StepKinds ==
    ASSUME [WorkNext]_workVars
    PROVE  \/ \E j \in Jobs : Take(j) \/ Run(j) \/ Die(j) \/ Exhaust(j) \/ ExhaustFails(j)
           \/ \E c \in Calls : Call(c) \/ ResolveFault(c)
           \/ \E c \in Calls, end \in Ends : EndCall(c, end)
           \/ \E p \in Reps : Assign(p)
           \/ \E p \in Candidates : RequestRender(p) \/ SendShortlist(p)
           \/ \E p \in Candidates, v \in {"approved", "rejected"} : Decide(p, v)
           \/ \E to \in Policies : PatchPolicy(to)
           \/ \E x \in Subjects \cup {"term"} : Prepare(x)
           \/ Reject \/ Apply \/ TermEnds
           \/ \E p \in Subjects : Erase(p)
           \/ UNCHANGED workVars
BY DEF WorkNext

\* An attempt that is completed stays so, with its subject.
LEMMA CompletedStays ==
    ASSUME WorkTypeOK, [WorkNext]_workVars, NEW c \in Calls, attempt[c] # "none"
    PROVE  /\ who'[c] = who[c]
           /\ attempt'[c] # "none"
           /\ attempt[c] = "completed" => attempt'[c] = "completed"
BY LedgerStep
DEF WorkTypeOK, TypeOK, Next, AdmitRep, AdmitCandidate, End, Reassign, vars, Ends

\* Only the completion completes.
LEMMA Completes ==
    ASSUME WorkTypeOK, [WorkNext]_workVars, NEW c \in Calls,
           attempt[c] # "completed", attempt'[c] = "completed"
    PROVE  EndCall(c, "completed")
<1> USE DEF WorkTypeOK
<1>1. ASSUME NEW d \in Calls, Call(d) PROVE FALSE
    BY <1>1 DEF Call, AdmitRep, AdmitCandidate, TypeOK
<1>2. ASSUME NEW d \in Calls, NEW end \in Ends, EndCall(d, end)
      PROVE  d = c /\ end = "completed"
    BY <1>2 DEF EndCall, End, TypeOK, Ends
<1>3. ASSUME NEW p \in Reps, Assign(p) PROVE FALSE
    BY <1>3 DEF Assign, Reassign
<1>4. ASSUME UNCHANGED vars PROVE FALSE
    BY <1>4 DEF vars
<1>5. ASSUME NEW j \in Jobs, Take(j) \/ Run(j) \/ Die(j) \/ Exhaust(j) \/ ExhaustFails(j)
      PROVE  UNCHANGED vars
    BY <1>5
    DEF Take, Run, Suspended, Fail, CommitGrade, PutPdf, CommitRender, Send, CommitMail,
        Die, Exhaust, ExhaustFails
<1> QED
    BY <1>1, <1>2, <1>3, <1>4, <1>5, StepKinds
    DEF ResolveFault, RequestRender, SendShortlist, Decide, PatchPolicy, Prepare, Reject,
        Apply, TermEnds, Erase, workVars

\* An erasure that is asked for is never taken back.
LEMMA ErasureStays ==
    ASSUME WorkTypeOK, [WorkNext]_workVars, NEW p \in Subjects, erasure[p] # "none"
    PROVE  erasure'[p] # "none"
<1> USE DEF WorkTypeOK, OrgTypeOK
<1>1. ASSUME NEW j \in Jobs, Take(j) \/ Run(j) \/ Die(j) \/ Exhaust(j) \/ ExhaustFails(j)
      PROVE  UNCHANGED erasure
    BY <1>1
    DEF Take, Run, Suspended, Fail, CommitGrade, PutPdf, CommitRender, Send, CommitMail,
        Die, Exhaust, ExhaustFails, org, gate
<1>2. CASE Apply
    BY <1>2 DEF Apply
<1>3. ASSUME NEW q \in Subjects, Erase(q) PROVE erasure'[p] # "none"
    BY <1>3 DEF Erase
<1> QED
    BY <1>1, <1>2, <1>3, StepKinds
    DEF Call, ResolveFault, EndCall, Assign, RequestRender, SendShortlist, Decide,
        PatchPolicy, Prepare, Reject, TermEnds, workVars, org, gate

\* No step takes a grade back.
LEMMA GradeStays ==
    ASSUME WorkTypeOK, [WorkNext]_workVars, NEW c \in Calls, grade[c] = "graded"
    PROVE  grade'[c] = "graded"
<1> USE DEF WorkTypeOK, RowsTypeOK
<1>1. ASSUME NEW j \in Jobs, Take(j) \/ Run(j) \/ Die(j) \/ ExhaustFails(j)
      PROVE  grade'[c] = "graded"
    BY <1>1, JobShape
    DEF Take, Run, Suspended, Fail, CommitGrade, PutPdf, CommitRender, Send, CommitMail,
        Die, ExhaustFails, rows
<1>2. ASSUME NEW j \in Jobs, Exhaust(j) PROVE grade'[c] = "graded"
    BY <1>2, JobShape DEF Exhaust, OnExhausted, GradingExhausted
<1> QED
    BY <1>1, <1>2, StepKinds
    DEF Call, ResolveFault, EndCall, Assign, RequestRender, SendShortlist, Decide,
        PatchPolicy, Prepare, Reject, Apply, TermEnds, Erase, workVars, rows

\* Grades are final, whatever runs again.
THEOREM GradesAreFinal == WorkSpec => GradedForGood
<1>1. ASSUME WorkTypeOK, [WorkNext]_workVars
      PROVE  [\A c \in Calls : grade[c] = "graded" => grade'[c] = "graded"]_workVars
    BY <1>1, GradeStays
<1> QED
    BY <1>1, WorkType, PTL DEF WorkSpec, GradedForGood

-----------------------------------------------------------------------------
(* How jobs begin and end *)

\* Whoever is not a job's worker inserts jobs or leaves the queue alone.
LEMMA QueueKinds ==
    ASSUME [WorkNext]_workVars
    PROVE  \/ \E j \in Jobs : Take(j) \/ Run(j) \/ Die(j) \/ Exhaust(j) \/ ExhaustFails(j)
           \/ \E new : Enqueue(new)
           \/ UNCHANGED job
<1>1. ASSUME \/ \E c \in Calls : ResolveFault(c)
             \/ \E c \in Calls, end \in Ends : EndCall(c, end)
             \/ \E p \in Candidates : RequestRender(p) \/ SendShortlist(p)
             \/ \E p \in Candidates, v \in {"approved", "rejected"} : Decide(p, v)
      PROVE  \E new : Enqueue(new)
    BY <1>1 DEF ResolveFault, EndCall, RequestRender, SendShortlist, Decide
<1>2. ASSUME \/ \E c \in Calls : Call(c)
             \/ \E p \in Reps : Assign(p)
             \/ \E to \in Policies : PatchPolicy(to)
             \/ \E x \in Subjects \cup {"term"} : Prepare(x)
             \/ Reject \/ Apply \/ TermEnds
             \/ \E p \in Subjects : Erase(p)
             \/ UNCHANGED workVars
      PROVE  UNCHANGED job
    BY <1>2
    DEF Call, Assign, PatchPolicy, Prepare, Reject, Apply, TermEnds, Erase, workVars, queue
<1> QED
    BY <1>1, <1>2, StepKinds

\* A row of the queue comes to its end only where its work is done or moot.
LEMMA JobEnds ==
    ASSUME WorkTypeOK, [WorkNext]_workVars, NEW j \in Jobs, Alive(j), ~Alive(j)'
    PROVE  \/ Take(j) /\ (Fenced(j) \/ Nothing(j))
           \/ CommitGrade(j) \/ CommitRender(j) \/ CommitMail(j)
           \/ Exhaust(j) /\ OnExhausted(j)
<1> USE DEF WorkTypeOK
<1>1. ASSUME NEW new, Enqueue(new) PROVE FALSE
    BY <1>1, EnqueueQueue DEF Alive
<1>2. ASSUME UNCHANGED job PROVE FALSE
    BY <1>2 DEF Alive
<1>3. ASSUME NEW i \in Jobs, NEW s \in JobStates \ {"none", "done"}, Move(i, s, {})
      PROVE  FALSE
    BY <1>3 DEF Move, Alive, QueueTypeOK
<1>4. ASSUME NEW i \in Jobs, Take(i) PROVE i = j /\ (Fenced(j) \/ Nothing(j))
  <2>1. PICK s \in {"dropped", "running", "done"} :
            Move(i, s, {}) /\ (s = "done" => Fenced(i) \/ Nothing(i))
      BY <1>4 DEF Take
  <2>2. s = "done"
      BY <2>1, <1>3 DEF JobStates
  <2>3. i = j
      BY <2>1 DEF Move, Alive, QueueTypeOK
  <2> QED
      BY <2>1, <2>2, <2>3
<1>5. ASSUME NEW i \in Jobs,
             Suspended(i) \/ Fail(i) \/ PutPdf(i) \/ Send(i) \/ Die(i) \/ ExhaustFails(i)
      PROVE  FALSE
    BY <1>3, <1>5, RetryBudget
    DEF Suspended, Fail, PutPdf, Send, Die, ExhaustFails, JobStates
<1>6. ASSUME NEW i \in Jobs, NEW failed \in {"todo", "exhausting"}, NEW new,
             Commit(i, failed, new)
      PROVE  i = j
    BY <1>6 DEF Commit, Move, Alive, QueueTypeOK
<1>7. ASSUME NEW i \in Jobs, CommitGrade(i) \/ CommitRender(i) \/ CommitMail(i)
      PROVE  i = j
    BY <1>6, <1>7, RetryBudget DEF CommitGrade, CommitRender, CommitMail
<1>8. ASSUME NEW i \in Jobs, Exhaust(i) PROVE i = j /\ OnExhausted(i)
  <2>1. \/ Move(i, "dropped", {})
        \/ OnExhausted(i) /\ Commit(i, "todo", {})
      BY <1>8 DEF Exhaust
  <2> QED
      BY <2>1, <1>3, <1>6 DEF JobStates
<1> QED
    BY <1>1, <1>2, <1>4, <1>5, <1>7, <1>8, QueueKinds DEF Run

\* A transaction is opened only by Take, from a job that nothing fences, while
\* the organization's work is admitted.
LEMMA JobOpens ==
    ASSUME WorkTypeOK, [WorkNext]_workVars, NEW j \in Jobs, Open(j)', ~Open(j)
    PROVE  Take(j) /\ Admitted /\ ~Fenced(j) /\ ~Nothing(j)
<1> USE DEF WorkTypeOK
<1>1. ASSUME NEW new, Enqueue(new) PROVE FALSE
    BY <1>1, EnqueueQueue DEF Open
<1>2. ASSUME UNCHANGED job PROVE FALSE
    BY <1>2 DEF Open
<1>3. ASSUME NEW i \in Jobs, NEW s \in JobStates \ {"running", "put"}, NEW new, Move(i, s, new)
      PROVE  FALSE
    BY <1>3 DEF Move, Open, QueueTypeOK
<1>4. ASSUME NEW i \in Jobs, Take(i) PROVE i = j /\ Admitted /\ ~Fenced(j) /\ ~Nothing(j)
  <2>1. \/ Move(i, "dropped", {}) \/ Move(i, "done", {})
        \/ Move(i, "running", {}) /\ Admitted /\ ~Fenced(i) /\ ~Nothing(i)
      BY <1>4 DEF Take
  <2>2. Move(i, "running", {}) /\ Admitted /\ ~Fenced(i) /\ ~Nothing(i)
      BY <2>1, <1>3 DEF JobStates
  <2>3. i = j
      BY <2>2 DEF Move, Open, QueueTypeOK
  <2> QED
      BY <2>2, <2>3
<1>5. ASSUME NEW i \in Jobs, Suspended(i) \/ Fail(i) \/ Die(i) \/ ExhaustFails(i)
      PROVE  FALSE
    BY <1>3, <1>5, RetryBudget DEF Suspended, Fail, Die, ExhaustFails, JobStates
<1>6. ASSUME NEW i \in Jobs, PutPdf(i) \/ Send(i) PROVE FALSE
    BY <1>6 DEF PutPdf, Send, Move, Open, QueueTypeOK
<1>7. ASSUME NEW i \in Jobs, NEW failed \in {"todo", "exhausting"}, NEW new,
             Commit(i, failed, new)
      PROVE  FALSE
    BY <1>7, <1>3 DEF Commit, JobStates
<1>8. ASSUME NEW i \in Jobs,
             CommitGrade(i) \/ CommitRender(i) \/ CommitMail(i) \/ Exhaust(i)
      PROVE  FALSE
  <2>1. \/ \E failed \in {"todo", "exhausting"} : \E new : Commit(i, failed, new)
        \/ Move(i, "dropped", {})
      BY <1>8, RetryBudget DEF CommitGrade, CommitRender, CommitMail, Exhaust
  <2> QED
      BY <2>1, <1>3, <1>7 DEF JobStates
<1> QED
    BY <1>1, <1>2, <1>4, <1>5, <1>6, <1>8, QueueKinds DEF Run

-----------------------------------------------------------------------------
(* The invariant *)

LEMMA OwnedStep ==
    ASSUME WorkTypeOK, CallsOwned, [WorkNext]_workVars
    PROVE  CallsOwned'
BY LedgerStep
DEF WorkTypeOK, TypeOK, CallsOwned, Subjects, Next, AdmitRep, AdmitCandidate, End, Reassign,
    vars

\* A job that is new is one that a transaction enqueues.
LEMMA GradeJobBegins ==
    ASSUME WorkTypeOK, [WorkNext]_workVars, NEW j \in GradeJobs, job[j] = "none",
           job'[j] # "none"
    PROVE  \/ EndCall(j[2], "completed")
           \/ ResolveFault(j[2])
<1> USE DEF WorkTypeOK
<1>1. j \in Jobs /\ j[2] \in Calls /\ j \notin RenderJobs /\ j \notin MailJobs
    BY JobShape, Lanes
<1>2. ASSUME NEW i \in Jobs, NEW s, NEW new, Move(i, s, new) PROVE i = j \/ j \in new
    BY <1>1, <1>2 DEF Move
<1>3. ASSUME NEW i \in Jobs, Take(i) \/ Run(i) \/ Die(i) \/ Exhaust(i) \/ ExhaustFails(i)
      PROVE  FALSE
  <2>1. job[i] # "none"
      BY <1>3
      DEF Take, Run, Suspended, Fail, CommitGrade, PutPdf, CommitRender, Send, CommitMail,
          Die, Exhaust, ExhaustFails, Open
  <2>2. \E s, new : Move(i, s, new) /\ new \subseteq MailJobs
      BY <1>3
      DEF Take, Run, Suspended, Fail, CommitGrade, PutPdf, CommitRender, Send, CommitMail,
          Die, Exhaust, ExhaustFails, Commit, Eligible
  <2> QED
      BY <1>1, <1>2, <2>1, <2>2
<1>4. ASSUME NEW c \in Calls, NEW end \in Ends, EndCall(c, end)
      PROVE  c = j[2] /\ end = "completed"
  <2>1. j \in Submitted
      BY <1>1, <1>4 DEF EndCall, Enqueue
  <2>2. gradeJobs'[j[2]] > gradeJobs[j[2]]
      BY <2>1, <1>1 DEF Submitted
  <2> QED
      BY <1>1, <1>4, <2>2 DEF EndCall, End, TypeOK
<1>5. ASSUME NEW c \in Calls, ResolveFault(c) PROVE c = j[2]
    BY <1>1, <1>5 DEF ResolveFault, Enqueue
<1>6. ASSUME NEW p \in Candidates, RequestRender(p) \/ SendShortlist(p) PROVE FALSE
    BY <1>1, <1>6 DEF RequestRender, SendShortlist, Enqueue
<1>7. ASSUME NEW p \in Candidates, NEW v \in {"approved", "rejected"}, Decide(p, v)
      PROVE  FALSE
    BY <1>1, <1>7 DEF Decide, Enqueue, Eligible
<1> QED
    BY <1>1, <1>3, <1>4, <1>5, <1>6, <1>7, StepKinds
    DEF Call, Assign, PatchPolicy, Prepare, Reject, Apply, TermEnds, Erase, workVars, queue

\* A fault or a grade is the work of a grading job.
LEMMA GradeBegins ==
    ASSUME WorkTypeOK, [WorkNext]_workVars, NEW c \in Calls,
           ~(fault[c] \/ grade[c] # "none"), (fault[c] \/ grade[c] # "none")'
    PROVE  \E j \in GradeJobs : j[2] = c /\ job[j] # "none"
<1> USE DEF WorkTypeOK, RowsTypeOK
<1>1. ASSUME NEW j \in Jobs, CommitGrade(j) PROVE j \in GradeJobs /\ j[2] = c /\ job[j] # "none"
    BY <1>1 DEF CommitGrade
<1>2. ASSUME NEW j \in Jobs, Exhaust(j) PROVE j \in GradeJobs /\ j[2] = c /\ job[j] # "none"
    BY <1>2 DEF Exhaust, OnExhausted, GradingExhausted
<1>3. ASSUME NEW j \in Jobs,
             \/ Take(j) \/ Suspended(j) \/ Fail(j) \/ PutPdf(j) \/ CommitRender(j)
             \/ Send(j) \/ CommitMail(j) \/ Die(j) \/ ExhaustFails(j)
      PROVE  UNCHANGED <<fault, grade>>
    BY <1>3
    DEF Take, Suspended, Fail, PutPdf, CommitRender, Send, CommitMail, Die, ExhaustFails, rows
<1>4. ASSUME NEW d \in Calls, ResolveFault(d) PROVE FALSE
    BY <1>4 DEF ResolveFault
<1> QED
    BY <1>1, <1>2, <1>3, <1>4, StepKinds
    DEF Run, Call, EndCall, Assign, RequestRender, SendShortlist, Decide, PatchPolicy,
        Prepare, Reject, Apply, TermEnds, Erase, workVars, rows

LEMMA GradedStep ==
    ASSUME WorkTypeOK, GradedAfterCompletion, [WorkNext]_workVars
    PROVE  GradedAfterCompletion'
<1>1. ASSUME NEW j \in GradeJobs, job'[j] # "none" PROVE attempt'[j[2]] = "completed"
  <2>1. j[2] \in Calls /\ (attempt[j[2]] = "completed" => attempt'[j[2]] = "completed")
      BY JobShape, CompletedStays
  <2>2. CASE job[j] # "none"
      BY <2>1, <2>2 DEF GradedAfterCompletion
  <2>3. CASE EndCall(j[2], "completed")
      BY <2>1, <2>3 DEF EndCall, End, WorkTypeOK, TypeOK
  <2>4. CASE ResolveFault(j[2])
      BY <2>1, <2>4 DEF ResolveFault, GradedAfterCompletion
  <2> QED
      BY <1>1, <2>2, <2>3, <2>4, GradeJobBegins
<1>2. ASSUME NEW c \in Calls, (fault[c] \/ grade[c] # "none")'
      PROVE  attempt'[c] = "completed"
  <2>1. attempt[c] = "completed"
      BY <1>2, GradeBegins DEF GradedAfterCompletion
  <2> QED
      BY <2>1, CompletedStays
<1> QED
    BY <1>1, <1>2 DEF GradedAfterCompletion

\* The subject of a job stays the same while the job is there.
LEMMA SubjectStays ==
    ASSUME WorkTypeOK, CallsOwned, GradedAfterCompletion, [WorkNext]_workVars,
           NEW j \in Jobs, job[j] # "none"
    PROVE  Subject(j)' = Subject(j) /\ Subject(j) \in Subjects
<1>1. CASE j \in GradeJobs
    BY <1>1, JobShape, CompletedStays DEF Subject, GradedAfterCompletion, CallsOwned
<1>2. CASE j \notin GradeJobs
    BY <1>2, JobShape DEF Subject, Subjects
<1> QED
    BY <1>1, <1>2

\* An operation is prepared, and applied, while no transaction of a job is open.
LEMMA FenceStep ==
    ASSUME WorkTypeOK, CallsOwned, GradedAfterCompletion, FenceClear, [WorkNext]_workVars
    PROVE  FenceClear'
<1> SUFFICES ASSUME NEW j \in Jobs, Open(j)'
             PROVE  deciding' = "nothing" /\ ~Fenced(j)'
    BY DEF FenceClear
<1> USE DEF WorkTypeOK
<1>1. job[j] # "none" /\ deciding = "nothing" /\ ~Fenced(j)
  <2>1. CASE Open(j)
      BY <2>1 DEF Open, FenceClear
  <2>2. CASE ~Open(j)
      BY <2>2, JobOpens DEF Take, Admitted
  <2> QED
      BY <2>1, <2>2
<1>2. Subject(j)' = Subject(j) /\ HasSubject(j)' = HasSubject(j)
    BY <1>1, SubjectStays DEF HasSubject
<1>3. CASE Open(j)
  <2>1. ASSUME NEW x \in Subjects \cup {"term"}, Prepare(x) PROVE FALSE
      BY <2>1, <1>3 DEF Prepare
  <2>2. ~Apply /\ ~Reject
      BY <1>1 DEF Apply, Reject
  <2>3. ASSUME NEW p \in Subjects, Erase(p) PROVE erasure[p] = "asked" /\ erasure' = [erasure EXCEPT ![p] = "executed"] /\ UNCHANGED deciding
      BY <2>3 DEF Erase
  <2>4. deciding' = "nothing" /\ \A p \in Subjects : erasure[p] = "none" => erasure'[p] = "none"
      BY <1>1, <2>1, <2>2, <2>3, StepKinds
      DEF OrgTypeOK, Take, Run, Suspended, Fail, CommitGrade, PutPdf, CommitRender, Send,
          CommitMail, Die, Exhaust, ExhaustFails, Call, ResolveFault, EndCall, Assign,
          RequestRender, SendShortlist, Decide, PatchPolicy, TermEnds, workVars, org, gate
  <2>5. Subject(j) \in Subjects
      BY <1>1, SubjectStays
  <2> QED
      BY <1>1, <1>2, <2>4, <2>5 DEF Fenced
<1>4. CASE ~Open(j)
  <2>1. UNCHANGED org
      BY <1>4, JobOpens DEF Take
  <2> QED
      BY <1>1, <1>2, <2>1 DEF Fenced, org, gate
<1> QED
    BY <1>3, <1>4

\* What becomes of a candidate's PDF, and how a job comes to have put.
LEMMA PdfKinds ==
    ASSUME WorkTypeOK, [WorkNext]_workVars, NEW p \in Candidates
    PROVE  \/ pdf'[p] = pdf[p]
           \/ \E j \in RenderJobs : j[2] = p /\ PutPdf(j)
           \/ Erase(p) /\ pdf'[p] = {}
<1> USE DEF WorkTypeOK, RowsTypeOK
<1>1. ASSUME NEW j \in Jobs, PutPdf(j), pdf'[p] # pdf[p] PROVE j \in RenderJobs /\ j[2] = p
    BY <1>1 DEF PutPdf
<1>2. ASSUME NEW j \in Jobs,
             \/ Take(j) \/ Suspended(j) \/ Fail(j) \/ CommitGrade(j) \/ CommitRender(j)
             \/ Send(j) \/ CommitMail(j) \/ Die(j) \/ Exhaust(j) \/ ExhaustFails(j)
      PROVE  UNCHANGED pdf
    BY <1>2
    DEF Take, Suspended, Fail, CommitGrade, CommitRender, Send, CommitMail, Die, Exhaust,
        ExhaustFails, rows
<1>3. ASSUME NEW q \in Subjects, Erase(q), pdf'[p] # pdf[p] PROVE q = p /\ pdf'[p] = {}
    BY <1>3 DEF Erase
<1> QED
    BY <1>1, <1>2, <1>3, StepKinds
    DEF Run, Call, ResolveFault, EndCall, Assign, RequestRender, SendShortlist, Decide,
        PatchPolicy, Prepare, Reject, Apply, TermEnds, workVars, rows

LEMMA JobPuts ==
    ASSUME WorkTypeOK, [WorkNext]_workVars, NEW j \in RenderJobs, job[j] # "put",
           job'[j] = "put"
    PROVE  PutPdf(j)
<1> USE DEF WorkTypeOK
<1>1. j \in Jobs /\ j \notin MailJobs
    BY JobShape, Lanes
<1>2. ASSUME NEW new, Enqueue(new) PROVE FALSE
    BY <1>1, <1>2, EnqueueQueue
<1>3. ASSUME NEW i \in Jobs, NEW s \in JobStates \ {"put"}, NEW new, Move(i, s, new)
      PROVE  FALSE
    BY <1>1, <1>3 DEF Move, QueueTypeOK
<1>4. ASSUME NEW i \in Jobs, PutPdf(i) \/ Send(i) PROVE i = j /\ PutPdf(i)
    BY <1>1, <1>4 DEF PutPdf, Send, Move, QueueTypeOK
<1>5. ASSUME NEW i \in Jobs,
             Take(i) \/ Suspended(i) \/ Fail(i) \/ Die(i) \/ ExhaustFails(i)
      PROVE  FALSE
    BY <1>3, <1>5, RetryBudget DEF Take, Suspended, Fail, Die, ExhaustFails, JobStates
<1>6. ASSUME NEW i \in Jobs,
             CommitGrade(i) \/ CommitRender(i) \/ CommitMail(i) \/ Exhaust(i)
      PROVE  FALSE
  <2>1. \/ \E failed \in {"todo", "exhausting"} : \E new : Commit(i, failed, new)
        \/ Move(i, "dropped", {})
      BY <1>6, RetryBudget DEF CommitGrade, CommitRender, CommitMail, Exhaust
  <2>2. \E s \in JobStates \ {"put"} : \E new : Move(i, s, new)
      BY <2>1 DEF Commit, JobStates
  <2> QED
      BY <2>2, <1>3
<1>7. UNCHANGED job => FALSE
    BY <1>1
<1> QED
    BY <1>2, <1>4, <1>5, <1>6, <1>7, QueueKinds DEF Run

\* The object that a render job has put is not deleted before the job commits.
LEMMA PutStep ==
    ASSUME WorkTypeOK, PutIsThere, [WorkNext]_workVars
    PROVE  PutIsThere'
<1> SUFFICES ASSUME NEW j \in RenderJobs, job'[j] = "put" PROVE pdf'[j[2]] # {}
    BY DEF PutIsThere
<1>1. j \in Jobs /\ j[2] \in Candidates /\ j[1] = "render" /\ j \notin GradeJobs
    BY JobShape, Lanes
<1>2. ASSUME NEW i \in RenderJobs, i[2] = j[2], PutPdf(i) PROVE pdf'[j[2]] # {}
    BY <1>1, <1>2, JobShape DEF PutPdf, Ready, WorkTypeOK, RowsTypeOK
<1>3. CASE job[j] # "put"
    BY <1>2, <1>3, JobPuts
<1>4. CASE job[j] = "put"
  <2>1. ~LockFree(j[2])
      BY <1>1, <1>4 DEF LockFree, Open, HasSubject, Subject
  <2>2. ~Erase(j[2])
      BY <2>1 DEF Erase
  <2> QED
      BY <1>1, <1>2, <1>4, <2>2, PdfKinds DEF PutIsThere
<1> QED
    BY <1>3, <1>4

\* What becomes of a report's row.
LEMMA ReportKinds ==
    ASSUME WorkTypeOK, [WorkNext]_workVars, NEW p \in Candidates, report'[p] # report[p]
    PROVE  \/ RequestRender(p)
           \/ \E j \in RenderJobs : /\ j[2] = p /\ report[p] = "pending"
                                    /\ \/ CommitRender(j) /\ report'[p] = "available"
                                       \/ Exhaust(j) /\ report'[p] = "failed"
           \/ Erase(p) /\ report'[p] = "erased"
<1> USE DEF WorkTypeOK, RowsTypeOK
<1>1. ASSUME NEW j \in Jobs, CommitRender(j)
      PROVE  j \in RenderJobs /\ j[2] = p /\ report[p] = "pending" /\ report'[p] = "available"
    BY <1>1 DEF CommitRender
<1>2. ASSUME NEW j \in Jobs, Exhaust(j)
      PROVE  j \in RenderJobs /\ j[2] = p /\ report[p] = "pending" /\ report'[p] = "failed"
    BY <1>2 DEF Exhaust, OnExhausted, RenderFailed
<1>3. ASSUME NEW j \in Jobs,
             \/ Take(j) \/ Suspended(j) \/ Fail(j) \/ CommitGrade(j) \/ PutPdf(j)
             \/ Send(j) \/ CommitMail(j) \/ Die(j) \/ ExhaustFails(j)
      PROVE  FALSE
    BY <1>3
    DEF Take, Suspended, Fail, CommitGrade, PutPdf, Send, CommitMail, Die, ExhaustFails, rows
<1>4. ASSUME NEW q \in Candidates, RequestRender(q) PROVE q = p
    BY <1>4 DEF RequestRender
<1>5. ASSUME NEW q \in Subjects, Erase(q) PROVE q = p /\ report'[p] = "erased"
    BY <1>5 DEF Erase
<1> QED
    BY <1>1, <1>2, <1>3, <1>4, <1>5, StepKinds
    DEF Run, Call, ResolveFault, EndCall, Assign, SendShortlist, Decide, PatchPolicy,
        Prepare, Reject, Apply, TermEnds, workVars, rows

\* A mail is queued with its job, by a transaction for which it is due.
LEMMA MailKinds ==
    ASSUME WorkTypeOK, [WorkNext]_workVars, NEW j \in MailJobs, mail'[j] # mail[j]
    PROVE  \/ mail'[j] = "queued" /\ job'[j] = "todo"
                /\ \/ j[1] = "E3" /\ report'[j[2]] = "available"
                   \/ j[1] # "E3"
           \/ CommitMail(j) /\ mail'[j] = "sent"
           \/ Exhaust(j) /\ mail[j] = "queued" /\ mail'[j] = "failed"
<1> USE DEF WorkTypeOK, RowsTypeOK
<1> DEFINE Queued == /\ mail'[j] = "queued" /\ job'[j] = "todo"
                     /\ \/ j[1] = "E3" /\ report'[j[2]] = "available"
                        \/ j[1] # "E3"
<1>1. j \in Jobs /\ j[2] \in Candidates /\ j \notin GradeJobs /\ j \notin RenderJobs
    BY JobShape, Lanes
<1>2. ASSUME NEW new, CreateMail(new) PROVE j \in new /\ mail'[j] = "queued"
    BY <1>2 DEF CreateMail
<1>3. ASSUME NEW i \in Jobs, CommitRender(i) PROVE Queued
  <2> DEFINE new == IF report[i[2]] = "pending"
                    THEN Eligible(i[2], "available", decision[i[2]]) ELSE {}
  <2>1. CreateMail(new) /\ Commit(i, Retry(i), new) /\ i \in RenderJobs
      BY <1>3 DEF CommitRender
  <2>2. j \in new /\ mail'[j] = "queued"
      BY <1>2, <2>1
  <2>3. j[1] = "E3" /\ j[2] = i[2] /\ report[j[2]] = "pending"
      BY <2>2 DEF Eligible
  <2>4. report'[j[2]] = "available"
      BY <1>1, <1>3, <2>3 DEF CommitRender
  <2>5. job'[j] = "todo"
      BY <1>1, <2>1, <2>2, CommitQueue, RetryBudget
  <2> QED
      BY <2>2, <2>3, <2>4, <2>5
<1>4. ASSUME NEW i \in Jobs, CommitMail(i) PROVE i = j /\ mail'[j] = "sent"
    BY <1>4 DEF CommitMail
<1>5. ASSUME NEW i \in Jobs, Exhaust(i)
      PROVE  i = j /\ mail[j] = "queued" /\ mail'[j] = "failed"
    BY <1>5 DEF Exhaust, OnExhausted, MailFailed
<1>6. ASSUME NEW i \in Jobs,
             \/ Take(i) \/ Suspended(i) \/ Fail(i) \/ CommitGrade(i) \/ PutPdf(i)
             \/ Send(i) \/ Die(i) \/ ExhaustFails(i)
      PROVE  FALSE
    BY <1>6
    DEF Take, Suspended, Fail, CommitGrade, PutPdf, Send, Die, ExhaustFails, rows
<1>7. ASSUME NEW c \in Calls, NEW end \in Ends, EndCall(c, end) PROVE Queued
  <2>1. j \in Submitted /\ mail'[j] = "queued"
      BY <1>2, <1>7 DEF EndCall
  <2>2. j[1] = "E5"
      BY <1>1, <2>1 DEF Submitted
  <2>3. job'[j] = "todo"
      BY <1>1, <1>7, <2>1 DEF EndCall, Enqueue
  <2> QED
      BY <2>1, <2>2, <2>3
<1>8. ASSUME NEW p \in Candidates, NEW v \in {"approved", "rejected"}, Decide(p, v)
      PROVE  Queued
  <2>1. j \in Eligible(p, report[p], v) /\ mail'[j] = "queued"
      BY <1>2, <1>8 DEF Decide
  <2>2. job'[j] = "todo" /\ UNCHANGED report
      BY <1>1, <1>8, <2>1 DEF Decide, Enqueue
  <2> QED
      BY <2>1, <2>2 DEF Eligible
<1>9. ASSUME NEW p \in Candidates, SendShortlist(p) PROVE Queued
  <2> DEFINE new == {i \in MailJobs : i[1] = "E4" /\ i[2] = p}
  <2>1. CreateMail(new) /\ Enqueue(new)
      BY <1>9 DEF SendShortlist
  <2>2. j \in new /\ mail'[j] = "queued"
      BY <1>2, <2>1
  <2>3. job'[j] = "todo"
      BY <1>1, <2>1, <2>2 DEF Enqueue
  <2> QED
      BY <2>2, <2>3
<1> QED
    BY <1>3, <1>4, <1>5, <1>6, <1>7, <1>8, <1>9, StepKinds
    DEF Run, Call, ResolveFault, Assign, RequestRender, PatchPolicy, Prepare, Reject, Apply,
        TermEnds, Erase, workVars, rows

\* A completed attempt keeps its job until the job has graded it, or shown the
\* fault, or met the fence.
LEMMA GradesOwedStep ==
    ASSUME WorkTypeOK, CallsOwned, GradesOwed, [WorkNext]_workVars
    PROVE  GradesOwed'
<1> SUFFICES ASSUME NEW c \in Calls, attempt'[c] = "completed"
             PROVE  \/ grade'[c] = "graded" \/ fault'[c] \/ Erasing(c)'
                    \/ \E j \in GradeJobs : j[2] = c /\ Alive(j)'
    BY DEF GradesOwed
<1>1. CASE attempt[c] # "completed"
  <2>1. EndCall(c, "completed")
      BY <1>1, Completes
  <2>2. <<"grade", c, 0>> \in GradeJobs /\ <<"grade", c, 0>> \in Jobs
      BY JobShape
  <2>3. <<"grade", c, 0>> \in Submitted
    <3>1. gradeJobs'[c] > gradeJobs[c]
        BY <2>1 DEF EndCall, End, WorkTypeOK, TypeOK
    <3> QED
        BY <2>2, <3>1 DEF Submitted
  <2>4. job'[<<"grade", c, 0>>] = "todo"
      BY <2>1, <2>2, <2>3 DEF EndCall, Enqueue
  <2> QED
      BY <2>2, <2>4 DEF Alive
<1>2. CASE attempt[c] = "completed"
  <2>1. CASE grade[c] = "graded"
      BY <2>1, GradeStays
  <2>2. CASE fault[c]
    <3>1. CASE fault'[c]
        BY <3>1
    <3>2. CASE ~fault'[c]
      <4>1. ASSUME NEW j \in Jobs, Take(j) \/ Run(j) \/ Die(j) \/ Exhaust(j) \/ ExhaustFails(j)
            PROVE  fault'[c]
          BY <2>2, <4>1, JobShape
          DEF Take, Run, Suspended, Fail, CommitGrade, PutPdf, CommitRender, Send, CommitMail,
              Die, Exhaust, ExhaustFails, OnExhausted, GradingExhausted, rows,
              WorkTypeOK, RowsTypeOK
      <4>2. ASSUME NEW d \in Calls, ResolveFault(d) PROVE d = c
          BY <2>2, <3>2, <4>2 DEF ResolveFault, WorkTypeOK, RowsTypeOK
      <4>3. ResolveFault(c)
          BY <2>2, <3>2, <4>1, <4>2, StepKinds
          DEF Call, EndCall, Assign, RequestRender, SendShortlist, Decide, PatchPolicy,
              Prepare, Reject, Apply, TermEnds, Erase, workVars, rows
      <4>4. PICK j \in GradeJobs : j[2] = c /\ Enqueue({j})
          BY <4>3 DEF ResolveFault
      <4> QED
          BY <4>4, JobShape DEF Enqueue, Alive
    <3> QED
        BY <3>1, <3>2
  <2>3. CASE Erasing(c)
      BY <1>2, <2>3, CompletedStays, ErasureStays DEF Erasing
  <2>4. ASSUME NEW j \in GradeJobs, j[2] = c, Alive(j), ~Alive(j)'
        PROVE  grade'[c] = "graded" \/ fault'[c] \/ Erasing(c)'
    <3>1. j \in Jobs /\ j \notin RenderJobs /\ j \notin MailJobs
        BY JobShape, Lanes
    <3>2. CASE Take(j) /\ Fenced(j)
      <4>1. Erasing(c)
          BY <1>2, <2>4, <3>2 DEF Fenced, Subject, Erasing, CallsOwned
      <4> QED
          BY <1>2, <4>1, CompletedStays, ErasureStays DEF Erasing
    <3>3. CASE Take(j) /\ Nothing(j)
      <4>1. grade[c] = "graded"
          BY <1>2, <2>4, <3>1, <3>3 DEF Nothing
      <4> QED
          BY <4>1, GradeStays
    <3>4. CASE CommitGrade(j)
        BY <2>4, <3>4 DEF CommitGrade, WorkTypeOK, RowsTypeOK
    <3>5. CASE Exhaust(j) /\ OnExhausted(j)
        BY <2>4, <3>1, <3>5 DEF OnExhausted, GradingExhausted, WorkTypeOK, RowsTypeOK
    <3>6. ~CommitRender(j) /\ ~CommitMail(j)
        BY <3>1 DEF CommitRender, CommitMail
    <3> QED
        BY <2>4, <3>1, <3>2, <3>3, <3>4, <3>5, <3>6, JobEnds
  <2> QED
      BY <1>2, <2>1, <2>2, <2>3, <2>4 DEF GradesOwed
<1> QED
    BY <1>1, <1>2

\* So does a pending report.
LEMMA ReportsOwedStep ==
    ASSUME WorkTypeOK, ReportsOwed, [WorkNext]_workVars
    PROVE  ReportsOwed'
<1> SUFFICES ASSUME NEW p \in Candidates, report'[p] = "pending"
             PROVE  erasure'[p] # "none" \/ \E j \in RenderJobs : j[2] = p /\ Alive(j)'
    BY DEF ReportsOwed
<1>1. CASE report[p] # "pending"
  <2>1. RequestRender(p)
      BY <1>1, ReportKinds
  <2>2. PICK j \in RenderJobs : j[2] = p /\ Enqueue({j})
      BY <2>1 DEF RequestRender
  <2> QED
      BY <2>2, JobShape DEF Enqueue, Alive
<1>2. CASE report[p] = "pending"
  <2>1. CASE erasure[p] # "none"
      BY <2>1, ErasureStays DEF Subjects
  <2>2. ASSUME NEW j \in RenderJobs, j[2] = p, Alive(j), ~Alive(j)'
        PROVE  erasure'[p] # "none"
    <3>1. j \in Jobs /\ j \notin GradeJobs /\ j \notin MailJobs
        BY JobShape, Lanes
    <3>2. CASE Take(j) /\ Fenced(j)
        BY <2>2, <3>1, <3>2, ErasureStays DEF Fenced, Subject, Subjects
    <3>3. ~(Take(j) /\ Nothing(j)) /\ ~CommitGrade(j) /\ ~CommitMail(j)
        BY <1>2, <2>2, <3>1 DEF Nothing, CommitGrade, CommitMail
    <3>4. ~CommitRender(j) /\ ~(Exhaust(j) /\ OnExhausted(j))
        BY <1>2, <2>2, <3>1
        DEF CommitRender, OnExhausted, RenderFailed, WorkTypeOK, RowsTypeOK
    <3> QED
        BY <2>2, <3>1, <3>2, <3>3, <3>4, JobEnds
  <2> QED
      BY <1>2, <2>1, <2>2 DEF ReportsOwed
<1> QED
    BY <1>1, <1>2

\* And a queued mail.
LEMMA MailOwedStep ==
    ASSUME WorkTypeOK, MailOwed, [WorkNext]_workVars
    PROVE  MailOwed'
<1> SUFFICES ASSUME NEW j \in MailJobs, mail'[j] = "queued" PROVE Alive(j)' \/ Fenced(j)'
    BY DEF MailOwed
<1>1. j \in Jobs /\ j[2] \in Subjects /\ j \notin GradeJobs /\ j \notin RenderJobs
    BY JobShape, Lanes DEF Subjects
<1>2. CASE mail[j] # "queued"
    BY <1>2, MailKinds DEF Alive
<1>3. CASE mail[j] = "queued"
  <2>1. Fenced(j) => Fenced(j)'
      BY <1>1, ErasureStays DEF Fenced, HasSubject, Subject
  <2>2. ASSUME Alive(j), ~Alive(j)' PROVE Fenced(j)
    <3>1. ~(Take(j) /\ Nothing(j)) /\ ~CommitGrade(j) /\ ~CommitRender(j)
        BY <1>1, <1>3 DEF Nothing, CommitGrade, CommitRender
    <3>2. ~CommitMail(j) /\ ~(Exhaust(j) /\ OnExhausted(j))
        BY <1>1, <1>3 DEF CommitMail, OnExhausted, MailFailed, WorkTypeOK, RowsTypeOK
    <3> QED
        BY <1>1, <2>2, <3>1, <3>2, JobEnds
  <2> QED
      BY <1>3, <2>1, <2>2 DEF MailOwed
<1> QED
    BY <1>2, <1>3

\* A mail job is opened for a queued mail, and no mail is unmade.
LEMMA MailStep ==
    ASSUME WorkTypeOK, MailIsThere, [WorkNext]_workVars
    PROVE  MailIsThere'
<1> SUFFICES ASSUME NEW j \in MailJobs, Open(j)' PROVE mail'[j] # "none"
    BY DEF MailIsThere
<1>1. j \in Jobs /\ j \notin GradeJobs /\ j \notin RenderJobs
    BY JobShape, Lanes
<1>2. mail[j] # "none"
  <2>1. CASE Open(j)
      BY <2>1 DEF MailIsThere
  <2>2. CASE ~Open(j)
      BY <1>1, <2>2, JobOpens DEF Nothing
  <2> QED
      BY <2>1, <2>2
<1> QED
    BY <1>2, MailKinds

\* What was sent stands, through any step.
LEMMA SentStep ==
    ASSUME WorkTypeOK, PutIsThere, MailIsThere, SentStands, [WorkNext]_workVars
    PROVE  SentStands'
<1> SUFFICES ASSUME NEW p \in Candidates
             PROVE  /\ listed'[p] => decision'[p] = "approved"
                    /\ listed'[p] \/ (\E j \in MailJobs :
                                         j[1] = "E3" /\ j[2] = p /\ mail'[j] # "none")
                          => report'[p] \in {"available", "erased"}
                    /\ report'[p] = "available" => pdf'[p] # {}
    BY DEF SentStands
<1> USE DEF WorkTypeOK, RowsTypeOK
<1>1. ASSUME NEW j \in Jobs, Take(j) \/ Run(j) \/ Die(j) \/ Exhaust(j) \/ ExhaustFails(j)
      PROVE  UNCHANGED <<listed, decision>>
    BY <1>1
    DEF Take, Run, Suspended, Fail, CommitGrade, PutPdf, CommitRender, Send, CommitMail,
        Die, Exhaust, ExhaustFails, rows
<1>2. ASSUME NEW q \in Candidates, NEW v \in {"approved", "rejected"}, Decide(q, v)
      PROVE  UNCHANGED listed /\ (listed[p] => decision'[p] = decision[p])
    BY <1>2 DEF Decide
<1>3. ASSUME NEW q \in Candidates, SendShortlist(q)
      PROVE  /\ decision' = decision /\ report' = report
             /\ listed'[p] => listed[p] \/ (decision[p] = "approved" /\ report[p] = "available")
  <2>1. CASE q = p
      BY <1>3, <2>1 DEF SendShortlist
  <2>2. CASE q # p
    <3>1. listed' = [listed EXCEPT ![q] = TRUE] /\ listed \in [Candidates -> BOOLEAN]
        BY <1>3 DEF SendShortlist
    <3>2. listed'[p] = listed[p]
        BY <2>2, <3>1, Zenon
    <3>3. decision' = decision /\ report' = report
        BY <1>3 DEF SendShortlist
    <3> QED
        BY <3>2, <3>3, Zenon
  <2> QED
      BY <2>1, <2>2
<1>4. \/ UNCHANGED listed /\ (listed[p] => decision'[p] = decision[p])
      \/ /\ decision' = decision /\ report' = report
         /\ listed'[p] => listed[p] \/ (decision[p] = "approved" /\ report[p] = "available")
    BY <1>1, <1>2, <1>3, StepKinds
    DEF Call, ResolveFault, EndCall, Assign, RequestRender, PatchPolicy, Prepare, Reject,
        Apply, TermEnds, Erase, workVars, rows
<1>5. listed'[p] => decision'[p] = "approved"
    BY <1>4 DEF SentStands
<1>6. report[p] \in {"available", "erased"} => report'[p] \in {"available", "erased"}
    BY ReportKinds DEF RequestRender
<1>7. listed'[p] => report'[p] \in {"available", "erased"}
    BY <1>4, <1>6 DEF SentStands
<1>8. ASSUME NEW j \in MailJobs, j[1] = "E3", j[2] = p, mail'[j] # "none"
      PROVE  report'[p] \in {"available", "erased"}
  <2>1. CASE mail[j] # "none"
      BY <1>6, <1>8, <2>1 DEF SentStands
  <2>2. CASE mail[j] = "none"
    <3>1. ~CommitMail(j)
        BY <2>2 DEF CommitMail, MailIsThere, Open
    <3> QED
        BY <1>8, <2>2, <3>1, MailKinds
  <2> QED
      BY <2>1, <2>2
<1>9. ASSUME report'[p] = "available" PROVE pdf'[p] # {}
  <2>1. pdf[p] # {}
    <3>1. CASE report[p] = "available"
        BY <3>1 DEF SentStands
    <3>2. ASSUME NEW j \in RenderJobs, j[2] = p, CommitRender(j) PROVE pdf[p] # {}
        BY <3>2 DEF CommitRender, PutIsThere
    <3> QED
        BY <1>9, <3>1, <3>2, ReportKinds DEF RequestRender
  <2>2. ASSUME NEW j \in RenderJobs, j[2] = p, PutPdf(j) PROVE pdf'[p] # {}
      BY <2>2, JobShape DEF PutPdf, Ready
  <2>3. ~Erase(p) \/ pdf'[p] # {}
      BY <1>9, <2>1 DEF Erase
  <2> QED
      BY <2>1, <2>2, <2>3, PdfKinds
<1> QED
    BY <1>5, <1>7, <1>8, <1>9

LEMMA WorkInvStep == WorkInv /\ [WorkNext]_workVars => WorkInv'
BY WorkTypeStep, OwnedStep, GradedStep, FenceStep, PutStep, MailStep, GradesOwedStep,
   ReportsOwedStep, MailOwedStep, SentStep
DEF WorkInv, NothingForgotten

LEMMA WorkInvAtFirst == WorkInit => WorkInv
<1> SUFFICES ASSUME WorkInit PROVE WorkInv
    OBVIOUS
<1>1. WorkTypeOK
    BY WorkTypeAtFirst
<1>2. CallsOwned /\ GradedAfterCompletion
    BY JobShape DEF WorkInit, Init, CallsOwned, GradedAfterCompletion
<1>3. FenceClear /\ PutIsThere /\ MailIsThere
    BY JobShape DEF WorkInit, FenceClear, PutIsThere, MailIsThere, Open
<1>4. NothingForgotten
    BY DEF WorkInit, Init, NothingForgotten, GradesOwed, ReportsOwed, MailOwed
<1>5. SentStands
    BY DEF WorkInit, SentStands
<1> QED
    BY <1>1, <1>2, <1>3, <1>4, <1>5 DEF WorkInv

LEMMA WorkInvHolds == WorkSpec => []WorkInv
BY WorkInvAtFirst, WorkInvStep, PTL DEF WorkSpec

\* No failure, lost acknowledgement, exhaustion, re-drive or repetition, however
\* many there are, makes the queue forget a grade, a report or a mail that is
\* owed (platform/queue, grading/exhaustion).
THEOREM NothingIsForgotten == WorkSpec => []NothingForgotten
<1>1. WorkInv => NothingForgotten
    BY DEF WorkInv
<1> QED
    BY <1>1, WorkInvHolds, PTL

\* A shortlisted candidate stays approved, and a PDF that was attached or is
\* about to be stays available until an erasure.
THEOREM WhatIsSentStands == WorkSpec => []SentStands
<1>1. WorkInv => SentStands
    BY DEF WorkInv
<1> QED
    BY <1>1, WorkInvHolds, PTL

\* Once an erasure is accepted, no job grades, renders or mails for its subject,
\* whatever was queued, open or to be retried (erasure_fence.py).
THEOREM FenceIsKept == WorkSpec => FenceHolds
<1>1. ASSUME WorkInv, [WorkNext]_workVars
      PROVE  [/\ \A c \in Calls : grade'[c] = "graded" /\ grade[c] # "graded"
                                      => ~Erasing(c)
              /\ \A p \in Candidates : erasure[p] # "none" => pdf'[p] \subseteq pdf[p]
              /\ \A j \in MailJobs : HasSubject(j) /\ mail'[j] = "sent" /\ mail[j] # "sent"
                                      => erasure[j[2]] = "none"]_workVars
  <2> USE <1>1 DEF WorkInv
  <2>1. ASSUME NEW c \in Calls, grade'[c] = "graded", grade[c] # "graded"
        PROVE  ~Erasing(c)
    <3>1. PICK j \in GradeJobs : j[2] = c /\ job[j] = "running"
      <4>1. ASSUME NEW j \in Jobs, CommitGrade(j)
            PROVE  j \in GradeJobs /\ j[2] = c /\ job[j] = "running"
          BY <2>1, <4>1 DEF CommitGrade, WorkTypeOK, RowsTypeOK
      <4>2. ASSUME NEW j \in Jobs, Exhaust(j) PROVE FALSE
          BY <2>1, <4>2
          DEF Exhaust, OnExhausted, GradingExhausted, WorkTypeOK, RowsTypeOK
      <4>3. ASSUME NEW j \in Jobs,
                   \/ Take(j) \/ Suspended(j) \/ Fail(j) \/ PutPdf(j) \/ CommitRender(j)
                   \/ Send(j) \/ CommitMail(j) \/ Die(j) \/ ExhaustFails(j)
            PROVE  FALSE
          BY <2>1, <4>3
          DEF Take, Suspended, Fail, PutPdf, CommitRender, Send, CommitMail, Die,
              ExhaustFails, rows
      <4> QED
          BY <2>1, <4>1, <4>2, <4>3, StepKinds
          DEF Run, Call, ResolveFault, EndCall, Assign, RequestRender, SendShortlist, Decide,
              PatchPolicy, Prepare, Reject, Apply, TermEnds, Erase, workVars, rows
    <3> QED
        BY <3>1, JobShape DEF FenceClear, Open, Fenced, HasSubject, Subject, Erasing
  <2>2. ASSUME NEW p \in Candidates, erasure[p] # "none" PROVE pdf'[p] \subseteq pdf[p]
    <3>1. ASSUME NEW j \in RenderJobs, j[2] = p, PutPdf(j) PROVE FALSE
        BY <2>2, <3>1, JobShape, Lanes
        DEF PutPdf, FenceClear, Open, Fenced, HasSubject, Subject
    <3> QED
        BY <3>1, PdfKinds
  <2>3. ASSUME NEW j \in MailJobs, HasSubject(j), mail'[j] = "sent", mail[j] # "sent"
        PROVE  erasure[j[2]] = "none"
    <3>1. CommitMail(j)
        BY <2>3, MailKinds
    <3> QED
        BY <2>3, <3>1, JobShape, Lanes DEF CommitMail, FenceClear, Open, Fenced, Subject
  <2> QED
      BY <2>1, <2>2, <2>3
<1> QED
    BY <1>1, WorkInvHolds, PTL DEF WorkSpec, FenceHolds
=============================================================================
