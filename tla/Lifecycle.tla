----------------------------- MODULE Lifecycle -----------------------------
(***************************************************************************)
(* The lifecycle of one organization: service terms, offboarding, deletion *)
(* restrictions, subject requests and the purge, all decided through one   *)
(* protocol.  A decision is first a pending operation in the database, the *)
(* fence that suspends ordinary work; then an event of an independent      *)
(* history (event, conditional head, receipt); then its projection.        *)
(*                                                                         *)
(* Operators' requests, the hourly sweep of terms and the purge worker run *)
(* the protocol concurrently; any of them can die between two steps.       *)
(***************************************************************************)
EXTENDS Integers, Sequences, FiniteSets

CONSTANTS
    Setups,       \* how far the organization is at first: "fresh", "term", "episode"
    Commands,     \* the Lifecycle-Operation-Ids operators send
    Handlers,     \* requests to the ops API that run at the same time
    Sweep,        \* the hourly task transition_due_org_terms
    Purger,       \* the worker that runs execute_org_purge
    Kinds,        \* the commands operators may give
    Subjects,     \* what a restriction is for: "none", an "erasure", an "export"
    None,
    Ends,         \* the instants a confirmed term may end
    Periods,      \* retention periods
    Horizon,      \* bound of the clock
    Batches,      \* the ordinary batches of the purge's inventory
    MaxFailures,  \* failed runs after which a purge needs attention: 5 in the code
    MaxEpoch,     \* bound of a purge run's execution epochs
    Mishaps       \* bound of deaths, outages and exhausted retries

Processes == Handlers \cup {Sweep, Purger}
Genesis == <<"genesis">>
Start == <<"start">>  \* the operations an organization in an episode comes with
Held == <<"held">>
TermActions == {"confirm_term", "renew_term"}

ASSUME LifecycleAssumption ==
    /\ Sweep \notin Handlers /\ Purger \notin Handlers /\ Sweep # Purger
    /\ Setups \subseteq {"fresh", "term", "episode"}
    /\ Horizon \in Nat /\ Ends \subseteq 1..Horizon
    /\ Periods \subseteq Nat \ {0}
    /\ Batches \in Nat /\ MaxFailures \in Nat \ {0} /\ MaxEpoch \in Nat \ {0} /\ Mishaps \in Nat
    /\ None \notin Commands

VARIABLES
    clock,
    org,       \* the row of org: status, lifecycle_sequence, term, episode, deadline
    period,    \* org_retention_policy.period_value
    ops,       \* org_lifecycle_operation: id -> [status, expected, data]
    holds,     \* org_deletion_restriction: id -> "active" or "released"
    requests,  \* erasure_request and export_request: id -> [kind, status, queued]
    armed,     \* the erasure requests with a marker in the erasure ledger
    run,       \* the row of org_purge_run
    steps,     \* org_purge_step of the current epoch: batch -> status
    rows,      \* the batches whose rows and objects still exist
    log,       \* history: the chain of the head, as operation ids
    receipts,  \* history: how many receipts both copies hold
    call,      \* is a call of the organization established?
    todo,      \* queued execute_org_purge jobs, by episode
    orphans,   \* jobs in doing whose worker died
    proc,      \* each process: pc, operation, command data, head it read, batch
    mishaps

orgVars == <<org, period, holds, requests, run, steps>>
history == <<log, receipts>>
jobVars == <<todo, orphans>>
vars == <<clock, org, period, ops, holds, requests, armed, run, steps, rows, log, receipts,
          call, todo, orphans, proc, mishaps>>

-----------------------------------------------------------------------------
(* State. *)

Blank == [action |-> "none", episode |-> None, ends |-> 0, eligible |-> 0, period |-> 0,
          held |-> None, kind |-> "none", to |-> "none", was |-> "none"]
Idle == [pc |-> "idle", op |-> None, data |-> Blank, seen |-> 0, batch |-> 0, episode |-> None]
NoTerm == [status |-> "active", seq |-> 0, term |-> None, ends |-> 0, episode |-> None,
           byOps |-> FALSE, eligible |-> 0]
NoRun == [status |-> "none", episode |-> None, epoch |-> 0, failures |-> 0]

Pending == {i \in DOMAIN ops : ops[i].status = "pending"}
InLog(i) == \E n \in 1..Len(log) : log[n] = i

(* verified_head: the chain of events and one receipt per event in both copies. *)
Verified == receipts = Len(log)

(* Mutant: a pending decision does not suspend ordinary work. *)
Access_Unfenced == org.status = "active" /\ (org.term = None \/ clock < org.ends)

(* app_org_service_access *)
Access == /\ org.status = "active" /\ Pending = {}
          /\ org.term = None \/ clock < org.ends

TermEnds == ops[org.term].data.ends
TermPeriod == ops[org.term].data.period

Unresolved(r) == requests[r].status \in
    IF requests[r].kind = "erasure" THEN {"pending", "awaiting_input", "failed"}
                                    ELSE {"pending", "awaiting_input", "failed", "ready"}

(* _claim_blocker *)
Blocked == \/ \E r \in DOMAIN holds : holds[r] = "active"
           \/ \E r \in DOMAIN requests : Unresolved(r)

Row(d, status, seq) == [status |-> status, expected |-> seq, data |-> d]
With(f, id, value) == [i \in DOMAIN f \cup {id} |-> IF i = id THEN value ELSE f[i]]

(* An organization without a term; one in its first term; one that          *)
(* operators took to offboarding and then put a hold on, a plain one or an  *)
(* export request whose job is queued (its past has used up the mishaps).   *)
Fresh == /\ org = NoTerm /\ log = <<>> /\ ops = [i \in {} |-> Row(Blank, "applied", 0)]
         /\ holds = [r \in {} |-> "active"] /\ requests = [r \in {} |-> [kind |-> "none"]]

Confirmed(end, p) == [Blank EXCEPT !.action = "confirm_term", !.ends = end, !.period = p]

InTerm ==
    \E end \in Ends, p \in Periods :
        /\ org = [NoTerm EXCEPT !.seq = 1, !.term = Genesis, !.ends = end]
        /\ ops = [i \in {Genesis} |-> Row(Confirmed(end, p), "applied", 0)]
        /\ log = <<Genesis>>
        /\ holds = [r \in {} |-> "active"] /\ requests = [r \in {} |-> [kind |-> "none"]]

InEpisode ==
    \E end \in Ends, p \in Periods, k \in {"none", "export"} :
        LET start == [Blank EXCEPT !.action = "start", !.episode = Start, !.eligible = p,
                                   !.period = p]
            hold  == [Blank EXCEPT !.action = "create_restriction", !.episode = Start,
                                   !.held = Held, !.kind = k]
            d     == [i \in {Genesis, Start, Held} |->
                         CASE i = Genesis -> Confirmed(end, p) [] i = Start -> start
                           [] i = Held -> hold]
        IN /\ log = <<Genesis, Start, Held>>
           /\ ops = [i \in DOMAIN d |-> Row(d[i], "applied",
                                            CHOOSE n \in 0..2 : log[n + 1] = i)]
           /\ org = [NoTerm EXCEPT !.status = "offboarding", !.seq = 3, !.term = Genesis,
                                   !.episode = Start, !.byOps = TRUE, !.eligible = p]
           /\ holds = [r \in {Held} |-> "active"]
           /\ requests = [r \in IF k = "none" THEN {} ELSE {Held} |->
                             [kind |-> k, status |-> "pending", queued |-> TRUE]]

Init ==
    /\ clock = 0
    /\ \/ "fresh" \in Setups /\ Fresh
       \/ "term" \in Setups /\ InTerm
       \/ "episode" \in Setups /\ InEpisode
    /\ period \in Periods
    /\ armed = {}
    /\ run = NoRun /\ steps = [b \in 1..(Batches + 1) |-> "none"] /\ rows = 1..Batches
    /\ receipts = Len(log)
    /\ call = FALSE /\ todo = {} /\ orphans = {}
    /\ proc = [p \in Processes |-> Idle]
    /\ mishaps = IF log = <<Genesis, Start, Held>> THEN Mishaps ELSE 0

-----------------------------------------------------------------------------
(* Time and ordinary calls. *)

Tick == /\ clock < Horizon /\ clock' = clock + 1
        /\ UNCHANGED <<orgVars, ops, armed, rows, history, call, jobVars, proc, mishaps>>

StartCall == /\ ~call /\ Access
             /\ call' = TRUE
             /\ UNCHANGED <<clock, orgVars, ops, armed, rows, history, jobVars, proc, mishaps>>

EndCall == /\ call /\ call' = FALSE
           /\ UNCHANGED <<clock, orgVars, ops, armed, rows, history, jobVars, proc, mishaps>>

-----------------------------------------------------------------------------
(* Entry points. *)

At(p, pc) == proc[p].pc = pc
Goto(p, pc) == proc' = [proc EXCEPT ![p].pc = pc]
Done(p) == proc' = [proc EXCEPT ![p] = Idle]

(* A step that fails: a request and the sweep end; the purge job records    *)
(* the failure once its run exists.                                        *)
Raise(p) == proc' = [proc EXCEPT ![p] = IF p = Purger /\ proc[p].data.action # "claim"
                                        THEN [@ EXCEPT !.pc = "failing"] ELSE Idle]

(* What each endpoint of the ops API can be asked. *)
TermCommands == {[Blank EXCEPT !.action = "renew_term", !.ends = end, !.period = q] :
                     end \in Ends, q \in Periods \cup {0}}
StartCommands == {[Blank EXCEPT !.action = "start"]}
CancelCommands == {[Blank EXCEPT !.action = "cancel"]}
DeadlineCommands == {[Blank EXCEPT !.action = "extend"]}
PolicyCommands == {[Blank EXCEPT !.action = "policy_revision", !.period = q] : q \in Periods}
RestrictionCommands == {[Blank EXCEPT !.action = "create_restriction"] : k \in Subjects \cap {"none"}}
                       \cup {[Blank EXCEPT !.action = "release_restriction", !.held = r] :
                                r \in DOMAIN holds}
SubjectCommands == {[Blank EXCEPT !.action = "create_restriction", !.kind = k] :
                        k \in Subjects \ {"none"}}
StateCommands == {[Blank EXCEPT !.action = "set_subject_request_state", !.held = r, !.to = s] :
                      r \in DOMAIN requests,
                      s \in {"pending", "awaiting_input", "delivered", "closed"}}

Proposals == TermCommands \cup StartCommands \cup CancelCommands \cup DeadlineCommands
             \cup PolicyCommands \cup RestrictionCommands \cup SubjectCommands \cup StateCommands

(* An operator's request: the handler reads the verified head.  A command   *)
(* whose expected sequence is not that head is refused with no effect; the  *)
(* ones sent here name it, and the episode the organization is in.  A       *)
(* Lifecycle-Operation-Id is repeated with the same command while it has no *)
(* outcome; afterwards a repetition only reads it.                          *)
Submit(p, c) ==
    /\ p \in Handlers /\ At(p, "idle") /\ Verified
    /\ c \in DOMAIN ops => ops[c].status = "pending"
    /\ \E d \in IF c \in DOMAIN ops THEN {ops[c].data} ELSE {x \in Proposals : x.action \in Kinds} :
          proc' = [proc EXCEPT ![p] = [Idle EXCEPT !.pc = "prepare", !.op = c, !.seen = Len(log),
                                                   !.data = d]]
    /\ UNCHANGED <<clock, orgVars, ops, armed, rows, history, call, jobVars, mishaps>>

(* transition_due finds a term that has ended. *)
FindDue ==
    /\ At(Sweep, "idle") /\ Verified
    /\ org.status = "active" /\ org.term # None /\ org.ends <= clock
    /\ proc' = [proc EXCEPT ![Sweep] =
          [Idle EXCEPT !.pc = "due", !.seen = Len(log),
                       !.data = [Blank EXCEPT !.action = "expire_term"]]]
    /\ UNCHANGED <<clock, orgVars, ops, armed, rows, history, call, jobVars, mishaps>>

(* ... and, before that, an organization with a pending operation of one of *)
(* the actions app_pending_org_term_operations lists.                       *)
Discovered == TermActions \cup {"expire_term", "create_restriction", "policy_revision", "extend",
                                "set_subject_request_state", "release_restriction"}

FindPending ==
    /\ At(Sweep, "idle") /\ \E i \in Pending : ops[i].data.action \in Discovered
    /\ Goto(Sweep, "found")
    /\ UNCHANGED <<clock, orgVars, ops, armed, rows, history, call, jobVars, mishaps>>

(* Mutant: what was accepted already is taken for done. *)
RecoverOne_NewOnly ==
    /\ At(Sweep, "found")
    /\ IF Verified /\ \E i \in Pending : ~InLog(i)
       THEN \E i \in Pending :
              proc' = [proc EXCEPT ![Sweep] = [Idle EXCEPT !.op = i, !.data = ops[i].data,
                                                           !.pc = "quiesce"]]
       ELSE Done(Sweep)
    /\ UNCHANGED <<clock, orgVars, ops, armed, rows, history, call, jobVars, mishaps>>

(* recover_one takes the operation that is pending by then, whatever it is. *)
RecoverOne ==
    /\ At(Sweep, "found")
    /\ IF Verified /\ \E i \in Pending : ops[i].data.action \in Discovered \cup {"start", "cancel"}
       THEN \E i \in Pending :
              proc' = [proc EXCEPT ![Sweep] =
                 [Idle EXCEPT !.op = i, !.data = ops[i].data,
                              !.pc = IF InLog(i) THEN "apply"
                                     ELSE IF ops[i].data.action \in {"expire_term", "start"}
                                     THEN "quiesce" ELSE "append"]]
       ELSE Done(Sweep)
    /\ UNCHANGED <<clock, orgVars, ops, armed, rows, history, call, jobVars, mishaps>>

-----------------------------------------------------------------------------
(* Staging a decision: one transaction under the lock of the org row.       *)

(* Mutant: the pending operation is not asked for. *)
Free_Unfenced(p) == org.status # "gone" /\ org.seq = proc[p].seen

(* What every prepare function asks, in the same order. *)
Free(p) == org.status # "gone" /\ org.seq = proc[p].seen /\ Pending = {}

MayTerm(d) == /\ org.status \in {"active", "offboarding"}
              /\ (org.term # None /\ org.status = "active" /\ clock < org.ends) => d.ends > org.ends
MayStart == org.status = "active" /\ org.term # None /\ clock < org.ends
MayCancel == org.status = "offboarding" /\ org.byOps /\ clock < TermEnds
MayRevise == org.status # "purging"
MayExtend == org.status = "offboarding"
(* Mutant: the end of the first term decides. *)
MayExpire_First == org.status = "active" /\ org.term = Genesis /\ TermEnds <= clock

MayExpire == org.status = "active" /\ org.term # None /\ TermEnds <= clock
MayRestrict == org.status \in {"offboarding", "purging"}
MayAccept == Batches \in rows  \* app_subject_request_valid: the subject's row still exists
MayRelease(r) == /\ holds[r] = "active"
                 /\ r \in DOMAIN requests =>
                       requests[r].status \in {"executed", "delivered", "closed"}

(* Mutant: an erasure can be closed whatever its ledger says. *)
MaySet_Armed(r, to) ==
    /\ holds[r] = "active"
    /\ \/ to = "awaiting_input" /\ requests[r].status \in {"pending", "failed"}
       \/ to = "pending" /\ requests[r].status \in {"awaiting_input", "failed"}
       \/ to = "delivered" /\ requests[r].kind = "export" /\ requests[r].status = "ready"
       \/ to = "closed" /\ requests[r].status \in {"pending", "awaiting_input", "failed"}

(* subject_states._allowed, with the refusals for an armed erasure. *)
MaySet(r, to) ==
    /\ holds[r] = "active"
    /\ \/ to = "awaiting_input" /\ requests[r].status \in {"pending", "failed"}
       \/ to = "pending" /\ requests[r].status \in {"awaiting_input", "failed"}
       \/ to = "delivered" /\ requests[r].kind = "export" /\ requests[r].status = "ready"
       \/ to = "closed" /\ requests[r].status \in {"pending", "awaiting_input", "failed"}
                        /\ r \notin armed

(* Mutant: the deadline is left to the discovery, which ran earlier. *)
MayClaim_Discovered(e) == org.status = "offboarding" /\ org.episode = e /\ ~Blocked

MayClaim(e) == /\ org.status = "offboarding" /\ org.episode = e
               /\ org.eligible <= clock /\ ~Blocked
OfRun == org.status = "purging" /\ org.episode = run.episode
MayAuthorize == OfRun /\ run.status = "running" /\ ~Blocked
MayComplete(b) == OfRun /\ steps[b] \in {"authorized", "failed"}
MayFinish == /\ OfRun /\ run.status = "running" /\ ~Blocked
             /\ steps[Batches + 1] = "authorized"
             /\ \A b \in 1..Batches : steps[b] \in {"none", "completed"}

Admits(p) ==
    LET d == proc[p].data IN
    /\ Free(p)
    /\ CASE d.action \in TermActions -> MayTerm(d)
         [] d.action = "start" -> MayStart
         [] d.action = "cancel" -> MayCancel
         [] d.action = "policy_revision" -> MayRevise
         [] d.action = "extend" -> MayExtend
         [] d.action = "create_restriction" -> IF d.kind = "none" THEN MayRestrict ELSE MayAccept
         [] d.action = "release_restriction" -> MayRelease(d.held)
         [] d.action = "set_subject_request_state" -> MaySet(d.held, d.to)
         [] d.action = "claim" -> MayClaim(d.episode)
         [] d.action = "authorize_destructive_step" -> MayAuthorize
         [] d.action = "complete_destructive_step" -> MayComplete(proc[p].batch)
         [] d.action = "complete" -> MayFinish

Drains == {"start", "expire_term", "claim"}
Stage(p, d) == /\ ops' = With(ops, proc[p].op, Row(d, "pending", proc[p].seen))
               /\ Goto(p, IF d.action \in Drains THEN "quiesce" ELSE "append")
               /\ UNCHANGED <<clock, orgVars, armed, rows, history, call, jobVars, mishaps>>

New(p, actions) == /\ At(p, "prepare") /\ proc[p].op \notin DOMAIN ops
                   /\ proc[p].data.action \in actions

(* prepare_term: the policy in force is copied into the term. *)
PrepareTerm(p) ==
    /\ New(p, TermActions) /\ Admits(p)
    /\ LET d == proc[p].data IN
       Stage(p, [d EXCEPT !.action = IF org.term = None THEN "confirm_term" ELSE "renew_term",
                          !.period = IF d.period = 0 THEN period ELSE d.period,
                          !.to = IF d.period = 0 THEN "none" ELSE "revision"])

(* prepare_start_offboarding: the cutoff is fixed after the calls have ended. *)
PrepareStart(p) ==
    /\ New(p, {"start"}) /\ Admits(p)
    /\ Stage(p, [proc[p].data EXCEPT !.episode = proc[p].op, !.period = TermPeriod])

PrepareCancel(p) ==
    /\ New(p, {"cancel"}) /\ Admits(p)
    /\ Stage(p, [proc[p].data EXCEPT !.episode = org.episode, !.ends = TermEnds])

PreparePolicy(p) == New(p, {"policy_revision"}) /\ Admits(p) /\ Stage(p, proc[p].data)

(* prepare_deadline_extension: strictly later, here by one. *)
PrepareExtension(p) ==
    /\ New(p, {"extend"}) /\ Admits(p)
    /\ Stage(p, [proc[p].data EXCEPT !.episode = org.episode, !.eligible = org.eligible + 1])

(* prepare_expiry: the operation, the hold and the deadline follow from the *)
(* term in force by then, not from the clock.                               *)
PrepareExpiry ==
    /\ At(Sweep, "due")
    /\ LET id == <<"expire", org.term>>
           d  == [proc[Sweep].data EXCEPT !.episode = id, !.ends = TermEnds,
                                          !.eligible = TermEnds + TermPeriod] IN
       IF MayExpire /\ IF id \in DOMAIN ops THEN ops[id].status # "applied" ELSE Free(Sweep)
       THEN /\ ops' = IF id \in DOMAIN ops THEN ops
                      ELSE With(ops, id, Row(d, "pending", proc[Sweep].seen))
            /\ proc' = [proc EXCEPT ![Sweep].pc = "quiesce", ![Sweep].op = id]
       ELSE Done(Sweep) /\ UNCHANGED ops
    /\ UNCHANGED <<clock, orgVars, armed, rows, history, call, jobVars, mishaps>>

(* restrictions.prepare_create and subject_requests.prepare *)
PrepareRestriction(p) ==
    /\ New(p, {"create_restriction"}) /\ Admits(p)
    /\ Stage(p, [proc[p].data EXCEPT !.episode = org.episode, !.held = proc[p].op])

PrepareRelease(p) == New(p, {"release_restriction"}) /\ Admits(p) /\ Stage(p, proc[p].data)

(* subject_states.prepare: a terminal state releases the restriction too. *)
PrepareState(p) ==
    /\ New(p, {"set_subject_request_state"}) /\ Admits(p)
    /\ LET d == proc[p].data IN
       Stage(p, [d EXCEPT !.was = requests[d.held].status, !.kind = requests[d.held].kind,
                          !.action = IF d.to \in {"closed", "delivered"}
                                     THEN "release_restriction" ELSE @])

(* The decisions of a run are of its episode. *)
PreparePurge(p) ==
    /\ New(p, {"claim", "authorize_destructive_step", "complete_destructive_step", "complete"})
    /\ Admits(p)
    /\ LET d == proc[p].data IN
       Stage(p, IF d.action = "claim" THEN d ELSE [d EXCEPT !.episode = run.episode])

Refuse(p) == /\ At(p, "prepare") /\ proc[p].op \notin DOMAIN ops /\ ~Admits(p)
             /\ Raise(p)
             /\ UNCHANGED <<clock, orgVars, ops, armed, rows, history, call, jobVars, mishaps>>

(* The operation exists: it is refused when rejected, and otherwise driven  *)
(* to its end once more.                                                    *)
Repeat(p) ==
    /\ At(p, "prepare") /\ proc[p].op \in DOMAIN ops
    /\ LET o == ops[proc[p].op] IN
       IF o.status = "rejected" \/ (o.status = "applied" /\ o.data.action \in {"start", "expire_term"})
       THEN Done(p)
       ELSE Goto(p, IF o.status = "applied" /\ o.data.action = "claim" THEN "apply"
                    ELSE IF o.data.action \in Drains THEN "quiesce" ELSE "append")
    /\ UNCHANGED <<clock, orgVars, ops, armed, rows, history, call, jobVars, mishaps>>

(* quiesce_org_calls: every established call is ended, and none remains. *)
Quiesce(p) ==
    /\ At(p, "quiesce")
    /\ call' = FALSE
    /\ Goto(p, IF ops[proc[p].op].data.action = "start" THEN "finalize" ELSE "append")
    /\ UNCHANGED <<clock, orgVars, ops, armed, rows, history, jobVars, mishaps>>

(* finalize_start_offboarding: the cutoff, once; or the term's end has won. *)
Finalize(p) ==
    /\ At(p, "finalize")
    /\ LET id == proc[p].op
           o  == ops[id] IN
       \/ /\ o.status = "pending" /\ o.data.eligible > 0 /\ Goto(p, "append")
          /\ UNCHANGED ops
       \/ /\ o.status = "pending" /\ o.data.eligible = 0 /\ clock < TermEnds
          /\ ops' = [ops EXCEPT ![id].data.ends = clock,
                                ![id].data.eligible = clock + o.data.period]
          /\ Goto(p, "append")
       \/ /\ o.status = "pending" /\ o.data.eligible = 0 /\ clock >= TermEnds
          /\ ops' = [ops EXCEPT ![id].status = "rejected"]
          /\ Done(p)
       \/ o.status # "pending" /\ Done(p) /\ UNCHANGED ops
    /\ UNCHANGED <<clock, orgVars, armed, rows, history, call, jobVars, mishaps>>

-----------------------------------------------------------------------------
(* LifecycleHistory.append: event, head and receipt are separate writes to  *)
(* an object store.  The event comes first, under the operation's id, and   *)
(* nothing reads it before the head names it; so it has no state here.      *)

(* The verified head decides: already accepted, conflict, or a new event.   *)
(* A conflict rejects the operation, or raises in the purge worker.         *)
BeginAppend(p) ==
    /\ At(p, "append")
    /\ LET id == proc[p].op IN
       IF ~Verified THEN Raise(p) /\ UNCHANGED ops
       ELSE IF InLog(id) THEN Goto(p, "apply") /\ UNCHANGED ops
       ELSE IF Len(log) = ops[id].expected
       THEN /\ proc' = [proc EXCEPT ![p].pc = "head", ![p].seen = Len(log)]
            /\ UNCHANGED ops
       ELSE /\ ops' = IF p # Purger /\ ops[id].status = "pending"
                      THEN [ops EXCEPT ![id].status = "rejected"] ELSE ops
            /\ Raise(p)
    /\ UNCHANGED <<clock, orgVars, armed, rows, history, call, jobVars, mishaps>>

(* Mutant: the head is written without the condition on its ETag. *)
PutHead_Unconditional(p) ==
    /\ At(p, "head")
    /\ log' = Append(log, proc[p].op) /\ Goto(p, "receipt")
    /\ UNCHANGED <<clock, orgVars, ops, armed, rows, receipts, call, jobVars, mishaps>>

(* The head moves only from the ETag that was read; a caller that lost asks *)
(* whether its operation was accepted.                                      *)
PutHead(p) ==
    /\ At(p, "head")
    /\ IF Len(log) = proc[p].seen
       THEN log' = Append(log, proc[p].op) /\ Goto(p, "receipt")
       ELSE UNCHANGED log /\ IF Verified /\ InLog(proc[p].op) THEN Goto(p, "apply") ELSE Raise(p)
    /\ UNCHANGED <<clock, orgVars, ops, armed, rows, receipts, call, jobVars, mishaps>>

(* The receipt in both copies, and the verification of the whole. *)
PutReceipt(p) ==
    /\ At(p, "receipt")
    /\ receipts' = Len(log) /\ Goto(p, "apply")
    /\ UNCHANGED <<clock, orgVars, ops, armed, rows, log, call, jobVars, mishaps>>

-----------------------------------------------------------------------------
(* Projecting an accepted decision: one transaction under the same lock.    *)

Applicable(p) ==
    LET id == proc[p].op
        d  == ops[id].data IN
    /\ org.status # "gone" /\ org.seq = ops[id].expected
    /\ CASE d.action \in TermActions \cup {"policy_revision"} -> TRUE
         [] d.action = "start" -> org.status = "active"
         [] d.action = "expire_term" -> org.status = "active" /\ id = <<"expire", org.term>>
         [] d.action = "cancel" -> /\ org.status = "offboarding" /\ org.episode = d.episode
                                   /\ org.byOps /\ clock < TermEnds
         [] d.action = "extend" -> /\ org.status = "offboarding" /\ org.episode = d.episode
                                   /\ org.eligible = d.eligible - 1
         [] d.action = "create_restriction" -> org.episode = d.episode
         [] d.action \in {"release_restriction", "set_subject_request_state"} ->
                /\ holds[d.held] = "active"
                /\ d.kind # "none" => requests[d.held].status = d.was
         [] d.action = "claim" -> /\ org.status = "offboarding" /\ org.episode = d.episode
                                  /\ ~Blocked
         [] d.action = "authorize_destructive_step" ->
                org.status = "purging" /\ org.episode = run.episode /\ run.epoch = id[3]
         [] d.action = "complete_destructive_step" -> run.epoch = id[3]
         [] d.action = "complete" -> org.episode = run.episode /\ ~Blocked

(* What the caller does once the decision is projected. *)
After(p) ==
    IF p # Purger THEN Done(p)
    ELSE LET a == proc[p].data.action IN
         IF a = "complete" THEN Done(p)
         ELSE Goto(p, CASE a = "claim" -> "inventory"
                        [] a = "authorize_destructive_step" -> "execute"
                        [] a = "complete_destructive_step" -> "progress")

Projects(p, actions) ==
    /\ At(p, "apply") /\ ops[proc[p].op].status = "pending"
    /\ ops[proc[p].op].data.action \in actions /\ Applicable(p)
    /\ ops' = [ops EXCEPT ![proc[p].op].status = "applied"]
    /\ After(p)
    /\ UNCHANGED <<clock, armed, rows, history, call, jobVars, mishaps>>

Sequenced == [org EXCEPT !.seq = @ + 1]
Data(p) == ops[proc[p].op].data

(* apply_term and apply_org_service_term: a renewal ends the offboarding. *)
ApplyTerm(p) ==
    /\ Projects(p, TermActions)
    /\ org' = [Sequenced EXCEPT !.status = "active", !.term = proc[p].op, !.ends = Data(p).ends,
                                !.episode = None, !.byOps = FALSE, !.eligible = 0]
    /\ period' = IF Data(p).to = "revision" THEN Data(p).period ELSE period
    /\ UNCHANGED <<holds, requests, run, steps>>

ApplyExpiry(p) ==
    /\ Projects(p, {"expire_term"})
    /\ org' = [Sequenced EXCEPT !.status = "offboarding", !.episode = Data(p).episode,
                                !.byOps = FALSE, !.eligible = Data(p).eligible]
    /\ UNCHANGED <<period, holds, requests, run, steps>>

ApplyStart(p) ==
    /\ Projects(p, {"start"})
    /\ org' = [Sequenced EXCEPT !.status = "offboarding", !.ends = Data(p).ends,
                                !.episode = Data(p).episode, !.byOps = TRUE,
                                !.eligible = Data(p).eligible]
    /\ UNCHANGED <<period, holds, requests, run, steps>>

ApplyCancel(p) ==
    /\ Projects(p, {"cancel"})
    /\ org' = [Sequenced EXCEPT !.status = "active", !.ends = TermEnds, !.episode = None,
                                !.byOps = FALSE, !.eligible = 0]
    /\ UNCHANGED <<period, holds, requests, run, steps>>

ApplyPolicy(p) ==
    /\ Projects(p, {"policy_revision"})
    /\ period' = Data(p).period /\ org' = Sequenced
    /\ UNCHANGED <<holds, requests, run, steps>>

ApplyExtension(p) ==
    /\ Projects(p, {"extend"})
    /\ org' = [Sequenced EXCEPT !.eligible = Data(p).eligible]
    /\ UNCHANGED <<period, holds, requests, run, steps>>

(* restrictions.apply and subject_requests.apply: the request and its job   *)
(* come with the restriction.                                               *)
ApplyRestriction(p) ==
    /\ Projects(p, {"create_restriction"})
    /\ holds' = With(holds, proc[p].op, "active")
    /\ requests' = IF Data(p).kind = "none" THEN requests
                   ELSE With(requests, proc[p].op,
                             [kind |-> Data(p).kind, status |-> "pending", queued |-> TRUE])
    /\ org' = Sequenced
    /\ UNCHANGED <<period, run, steps>>

ApplyRelease(p) ==
    /\ Projects(p, {"release_restriction"}) /\ Data(p).kind = "none"
    /\ holds' = [holds EXCEPT ![Data(p).held] = "released"] /\ org' = Sequenced
    /\ UNCHANGED <<period, requests, run, steps>>

(* subject_states.apply *)
ApplyState(p) ==
    /\ Projects(p, {"release_restriction", "set_subject_request_state"}) /\ Data(p).kind # "none"
    /\ LET d == Data(p) IN
       /\ requests' = [requests EXCEPT ![d.held].status = d.to,
                                       ![d.held].queued = @ \/ d.to = "pending"]
       /\ holds' = IF d.action = "release_restriction"
                   THEN [holds EXCEPT ![d.held] = "released"] ELSE holds
    /\ org' = Sequenced
    /\ UNCHANGED <<period, run, steps>>

ApplyClaim(p) ==
    /\ Projects(p, {"claim"})
    /\ org' = [Sequenced EXCEPT !.status = "purging"]
    /\ run' = [NoRun EXCEPT !.status = "pending", !.episode = Data(p).episode]
    /\ UNCHANGED <<period, holds, requests, steps>>

ApplyAuthorization(p) ==
    /\ Projects(p, {"authorize_destructive_step"})
    /\ steps' = [steps EXCEPT ![proc[p].batch] = "authorized"] /\ org' = Sequenced
    /\ UNCHANGED <<period, holds, requests, run>>

ApplyCompletion(p) ==
    /\ Projects(p, {"complete_destructive_step"})
    /\ steps' = [steps EXCEPT ![proc[p].batch] = "completed"] /\ org' = Sequenced
    /\ UNCHANGED <<period, holds, requests, run>>

(* apply_final_completion: deleting the row of org is the projection. *)
ApplyFinal(p) ==
    /\ Projects(p, {"complete"})
    /\ steps' = [steps EXCEPT ![Batches + 1] = "completed"]
    /\ run' = [run EXCEPT !.status = "completed"]
    /\ org' = [Sequenced EXCEPT !.status = "gone"]
    /\ UNCHANGED <<period, holds, requests>>

(* The decision is already projected, by this caller earlier or by another. *)
AlreadyApplied(p) ==
    /\ At(p, "apply") /\ ops[proc[p].op].status = "applied" /\ After(p)
    /\ UNCHANGED <<clock, orgVars, ops, armed, rows, history, call, jobVars, mishaps>>

(* An accepted decision that cannot be projected leaves its fence standing. *)
Stale(p) ==
    /\ At(p, "apply") /\ ops[proc[p].op].status = "pending" /\ ~Applicable(p)
    /\ Raise(p)
    /\ UNCHANGED <<clock, orgVars, ops, armed, rows, history, call, jobVars, mishaps>>

-----------------------------------------------------------------------------
(* The purge. *)

(* _queue: one job per episode in todo or doing, a dead worker's included. *)
Queue(e) == /\ e \notin todo \cup orphans \cup {proc[Purger].episode}
            /\ todo' = todo \cup {e}
            /\ UNCHANGED <<clock, orgVars, ops, armed, rows, history, call, orphans, proc, mishaps>>

(* discover, with app_due_org_purges *)
Discover == /\ org.status = "offboarding" /\ org.eligible <= clock
            /\ \A r \in DOMAIN holds : holds[r] # "active"
            /\ Pending = {}
            /\ Queue(org.episode)

(* recover *)
Recover == /\ run.status \in {"pending", "running", "retry_pending", "paused_restriction"}
           /\ Queue(run.episode)

Worker(e) == [Idle EXCEPT !.episode = e, !.batch = 1, !.seen = Len(log)]

(* execute_episode: claim the episode, or resume its run. *)
TakeJob(e) ==
    /\ At(Purger, "idle") /\ e \in todo
    /\ run.episode = e => run.epoch < MaxEpoch
    /\ todo' = todo \ {e}
    /\ proc' = [proc EXCEPT ![Purger] =
          IF run.episode = e THEN [Worker(e) EXCEPT !.pc = "inventory"]
          ELSE IF Verified
          THEN [Worker(e) EXCEPT !.pc = "prepare", !.op = <<"claim", e>>,
                                 !.data = [Blank EXCEPT !.action = "claim", !.episode = e]]
          ELSE Idle]
    /\ UNCHANGED <<clock, orgVars, ops, armed, rows, history, call, orphans, mishaps>>

(* _inventory_run: a new epoch unless the run was left running. *)
Inventory ==
    /\ At(Purger, "inventory")
    /\ \/ /\ \/ run.status = "pending"
             \/ run.status \in {"retry_pending", "paused_restriction"} /\ ~Blocked
          /\ run' = [run EXCEPT !.status = "running", !.epoch = @ + 1]
          /\ steps' = [b \in DOMAIN steps |-> "none"]
          /\ Goto(Purger, "next")
       \/ run.status = "running" /\ Goto(Purger, "next") /\ UNCHANGED <<run, steps>>
       \/ /\ run.status \in {"retry_pending", "paused_restriction"} /\ Blocked
          /\ Done(Purger) /\ UNCHANGED <<run, steps>>
    /\ UNCHANGED <<clock, org, period, ops, holds, requests, armed, rows, history, call, jobVars,
                   mishaps>>

Begin(op, action) ==
    proc' = [proc EXCEPT ![Purger].pc = "prepare", ![Purger].op = op, ![Purger].seen = Len(log),
                         ![Purger].data = [Blank EXCEPT !.action = action, !.episode = run.episode]]

(* authorize_step; before the last batch _verify_cleanup must find nothing. *)
Authorize ==
    /\ At(Purger, "next")
    /\ LET b == proc[Purger].batch IN
       IF Verified /\ run.status = "running" /\ (b = Batches + 1 => rows = {})
       THEN Begin(<<"authorize", b, run.epoch>>, "authorize_destructive_step")
       ELSE Goto(Purger, "failing")
    /\ UNCHANGED <<clock, orgVars, ops, armed, rows, history, call, jobVars, mishaps>>

(* execute_step and app_execute_org_purge_batch: the epoch is the fence, an *)
(* accepted authorization runs even when a restriction came after it.  The  *)
(* org row waits for the final decision.  complete_step and complete_run    *)
(* then read the verified head again.                                       *)
Execute ==
    /\ At(Purger, "execute")
    /\ LET b == proc[Purger].batch IN
       \/ /\ b <= Batches /\ steps[b] \in {"authorized", "failed"}
          /\ run.status \in {"running", "retry_pending", "paused_restriction"}
          /\ rows' = rows \ {b}
          /\ IF Verified THEN Begin(<<"complete", b, run.epoch>>, "complete_destructive_step")
                         ELSE Goto(Purger, "failing")
       \/ /\ b <= Batches /\ steps[b] = "completed"
          /\ proc' = [proc EXCEPT ![Purger].pc = "next", ![Purger].batch = b + 1]
          /\ UNCHANGED rows
       \/ /\ b = Batches + 1 /\ UNCHANGED rows
          /\ IF Verified THEN Begin(<<"final", run.episode>>, "complete")
                         ELSE Goto(Purger, "failing")
    /\ UNCHANGED <<clock, orgVars, ops, armed, history, call, jobVars, mishaps>>

(* record_progress *)
Progress ==
    /\ At(Purger, "progress")
    /\ run' = [run EXCEPT !.failures = 0]
    /\ proc' = [proc EXCEPT ![Purger].pc = "next", ![Purger].batch = @ + 1]
    /\ UNCHANGED <<clock, org, period, ops, holds, requests, armed, steps, rows, history, call,
                   jobVars, mishaps>>

(* record_failure; `late` when the last progress is a day old. *)
RecordFailure(late) ==
    /\ At(Purger, "failing")
    /\ run' = IF run.status = "completed" THEN run
              ELSE IF Blocked THEN [run EXCEPT !.status = "paused_restriction"]
              ELSE [run EXCEPT !.failures = @ + 1,
                               !.status = IF late \/ run.failures + 1 >= MaxFailures
                                          THEN "needs_attention" ELSE "retry_pending"]
    /\ steps' = LET b == proc[Purger].batch IN
                IF proc[Purger].data.action = "complete_destructive_step"
                   /\ steps[b] # "completed"
                THEN [steps EXCEPT ![b] = "failed"] ELSE steps
    /\ Done(Purger)
    /\ UNCHANGED <<clock, org, period, ops, holds, requests, armed, rows, history, call, jobVars,
                   mishaps>>

-----------------------------------------------------------------------------
(* The workers of subject requests: one transaction that holds the row.     *)

RunRequest(r) ==
    /\ requests[r].queued /\ requests[r].status = "pending" /\ Pending = {}
    /\ requests' = [requests EXCEPT ![r].queued = FALSE,
                      ![r].status = IF @ = "pending" /\ requests[r].kind = "erasure"
                                    THEN "executed" ELSE "ready"]
    /\ armed' = IF requests[r].kind = "erasure" THEN armed \cup {r} ELSE armed
    /\ UNCHANGED <<clock, org, period, ops, holds, run, steps, rows, history, call, jobVars, proc,
                   mishaps>>

(* The marker is durable before the rows are erased: a failure in between   *)
(* rolls the transaction back and keeps the marker.                         *)
ArmThenFail(r) ==
    /\ mishaps < Mishaps /\ mishaps' = mishaps + 1
    /\ requests[r].queued /\ requests[r].status = "pending" /\ Pending = {}
    /\ requests[r].kind = "erasure" /\ armed' = armed \cup {r}
    /\ UNCHANGED <<clock, orgVars, ops, rows, history, call, jobVars, proc>>

(* fail_erasure and fail_export, after the last of five attempts within a   *)
(* minute; a pending decision fails every attempt and is not asked here.    *)
ExhaustRequest(r) ==
    /\ mishaps < Mishaps /\ mishaps' = mishaps + 1
    /\ requests[r].queued /\ requests[r].status = "pending"
    /\ requests' = [requests EXCEPT ![r].queued = FALSE, ![r].status = "failed"]
    /\ UNCHANGED <<clock, org, period, ops, holds, armed, run, steps, rows, history, call, jobVars,
                   proc>>

(* A job that finds its request closed or waiting ends. *)
DropRequest(r) ==
    /\ requests[r].queued /\ requests[r].status # "pending"
    /\ requests' = [requests EXCEPT ![r].queued = FALSE]
    /\ UNCHANGED <<clock, org, period, ops, holds, armed, run, steps, rows, history, call, jobVars,
                   proc, mishaps>>

-----------------------------------------------------------------------------
(* Mishaps: a process dies or a call of it fails, between any two steps.    *)

Die(p) ==
    /\ mishaps < Mishaps /\ mishaps' = mishaps + 1
    /\ ~At(p, "idle")
    /\ \/ p # Purger /\ Done(p) /\ UNCHANGED orphans
       \/ p = Purger /\ ~At(p, "failing") /\ Raise(p) /\ UNCHANGED orphans
       \/ p = Purger /\ Done(p) /\ UNCHANGED orphans  \* record_failure fails too
       \/ p = Purger /\ Done(p) /\ orphans' = orphans \cup {proc[p].episode}
    /\ UNCHANGED <<clock, orgVars, ops, armed, rows, history, call, todo>>

-----------------------------------------------------------------------------

Stages(p) == \/ PrepareTerm(p) \/ PrepareStart(p) \/ PrepareCancel(p) \/ PreparePolicy(p)
             \/ PrepareExtension(p) \/ PrepareRestriction(p)
             \/ PrepareRelease(p) \/ PrepareState(p) \/ PreparePurge(p)
             \/ Refuse(p) \/ Repeat(p) \/ Quiesce(p) \/ Finalize(p)
Appends(p) == BeginAppend(p) \/ PutHead(p) \/ PutReceipt(p)
Applies(p) == \/ ApplyTerm(p) \/ ApplyExpiry(p) \/ ApplyStart(p) \/ ApplyCancel(p)
              \/ ApplyPolicy(p) \/ ApplyExtension(p) \/ ApplyRestriction(p) \/ ApplyRelease(p)
              \/ ApplyState(p) \/ ApplyClaim(p) \/ ApplyAuthorization(p) \/ ApplyCompletion(p)
              \/ ApplyFinal(p) \/ AlreadyApplied(p) \/ Stale(p)
Purges == \/ Inventory \/ Authorize \/ Execute \/ Progress
          \/ \E late \in BOOLEAN : RecordFailure(late)
Advance(p) == Stages(p) \/ Appends(p) \/ Applies(p) \/ (p = Sweep /\ PrepareExpiry)

Next ==
    \/ Tick \/ StartCall \/ EndCall
    \/ \E p \in Handlers, c \in Commands : Submit(p, c)
    \/ FindDue \/ FindPending \/ RecoverOne
    \/ \E p \in Processes : Advance(p) \/ Die(p)
    \/ Discover \/ Recover \/ Purges
    \/ \E e \in todo : TakeJob(e)
    \/ \E r \in DOMAIN requests : RunRequest(r) \/ ArmThenFail(r) \/ ExhaustRequest(r)
                                  \/ DropRequest(r)

Spec == Init /\ [][Next]_vars

(* A request that was taken is worked on, the hourly and quarter-hourly     *)
(* tasks come back, and each pass of the sweep makes both of its scans.     *)
FairSpec ==
    /\ Spec
    /\ \A p \in Processes : WF_vars(Advance(p))
    /\ WF_vars(RecoverOne) /\ SF_vars(FindDue) /\ SF_vars(FindPending)
    /\ WF_vars(Discover) /\ WF_vars(Recover) /\ WF_vars(Purges)
    /\ WF_vars(\E e \in todo : TakeJob(e))
    /\ WF_vars(Tick)

-----------------------------------------------------------------------------
(* Properties. *)

Actions == TermActions \cup Drains \cup
           {"cancel", "extend", "policy_revision", "create_restriction", "release_restriction",
            "set_subject_request_state", "authorize_destructive_step",
            "complete_destructive_step", "complete"}

(* Type correctness of the rows, the history and the processes. *)
LifecycleTypeOK ==
    /\ clock \in 0..Horizon /\ mishaps \in 0..Mishaps /\ call \in BOOLEAN
    /\ org.status \in {"active", "offboarding", "purging", "gone"} /\ org.seq \in Nat
    /\ org.term = None \/ org.term \in DOMAIN ops
    /\ \A i \in DOMAIN ops : /\ ops[i].status \in {"pending", "applied", "rejected"}
                             /\ ops[i].expected \in Nat /\ ops[i].data.action \in Actions
    /\ \A r \in DOMAIN holds : holds[r] \in {"active", "released"}
    /\ DOMAIN requests \subseteq DOMAIN holds /\ armed \subseteq DOMAIN requests
    /\ \A r \in DOMAIN requests :
          requests[r].status \in {"pending", "awaiting_input", "failed", "executed", "ready",
                                  "delivered", "closed"}
    /\ run.status \in {"none", "pending", "running", "retry_pending", "paused_restriction",
                       "needs_attention", "completed"}
    /\ run.epoch \in 0..MaxEpoch /\ rows \subseteq 1..Batches
    /\ \A n \in 1..Len(log) : log[n] \in DOMAIN ops
    /\ receipts \in Nat

(* The fence: at most one operation is pending, and it expects the sequence *)
(* the database shows ...                                                   *)
OneFence ==
    /\ Cardinality(Pending) <= 1
    /\ \A i \in Pending : ops[i].expected = org.seq

(* ... and the history is at most that one decision ahead.  Together they   *)
(* are why the conflicts append and the apply functions prepare for do not  *)
(* arise, whoever runs the protocol and wherever a process dies.            *)
HistoryAhead ==
    /\ \/ Len(log) = org.seq
       \/ Len(log) = org.seq + 1 /\ log[Len(log)] \in Pending
    /\ receipts \in {Len(log) - 1, Len(log)}

(* Service is over when its end is decided: once the organization has left  *)
(* "active" no call is established, although a call can start until the     *)
(* fence is up and the history is asked only after the calls were ended.    *)
NoCallOutlivesService == org.status # "active" => ~call

(* An erasure whose marker is in the ledger is never rejected or withdrawn: *)
(* a restore would erase the subject whatever the request says.             *)
ArmedNeverClosed == \A r \in armed \cap DOMAIN requests : requests[r].status # "closed"

(* Data are purged only after the deadline the last accepted decision gave. *)
PurgeNeverEarly == org.status \in {"purging", "gone"} => org.eligible <= clock

(* The organization's row goes only when no restriction is active and every *)
(* subject request is answered.                                             *)
GoneOwesNothing == org.status = "gone" => /\ \A r \in DOMAIN holds : holds[r] = "released"
                                          /\ \A r \in DOMAIN requests : ~Unresolved(r)

(* Both: an extended deadline, a new restriction or a new request is in     *)
(* time until the purge starts or ends (purge.py).                          *)
PurgeIsDue == PurgeNeverEarly /\ GoneOwesNothing

(* The pending operations nothing picks up again, or that cannot be applied *)
(* any more: the sweep does not list start, cancel and the purge's own, and *)
(* a worker's failure overtakes a request's state.                          *)
Forgotten == \E i \in Pending :
    \/ ops[i].data.action \notin Discovered
    \/ ops[i].data.kind # "none" /\ ops[i].data.held \in DOMAIN requests
         /\ requests[ops[i].data.held].status # ops[i].data.was

(* A decision that was staged is settled, although the request that staged  *)
(* it died: the sweep takes it to its end.                                  *)
DecisionsSettle == (Pending # {}) ~> (Pending = {} \/ Forgotten \/ ~Verified)

(* A term that has ended is taken to offboarding. *)
Due == org.status = "active" /\ org.term # None /\ org.ends <= clock
DueTermsTransition == Due ~> (~Due \/ Forgotten \/ ~Verified)

(* An eligible episode that nothing holds is purged, or an operator is told. *)
Eligible == org.status \in {"offboarding", "purging"} /\ org.eligible <= clock
EligibleIsPurged ==
    Eligible ~> \/ ~Eligible \/ Blocked \/ run.status = "needs_attention"
                \/ orphans # {} \/ Forgotten \/ ~Verified

(* Both: the two deadlines of an organization are acted upon. *)
DeadlinesAreMet == DueTermsTransition /\ EligibleIsPurged

(* The async contract says of the hourly scan that "the expired term        *)
(* remains discoverable" when a scan is missed.                             *)
ExpiredTermsTransition == Due ~> (~Due \/ ~Verified)

=============================================================================
