----------------------------- MODULE CallPlane -----------------------------
(***************************************************************************)
(* The life of a call, from POST /calls to its terminal disposition.       *)
(*                                                                         *)
(* Valkey holds what is volatile: one lease per participant                *)
(* (calls/lease.py), the capacity slots and the session registry with its  *)
(* recovery index (calls/registry.py).  Postgres holds what is durable: the *)
(* attempt row, the assignment allowance, the candidate's plan and the     *)
(* queued jobs.  Every Valkey command is one step and every transaction    *)
(* commits in one step, so the handlers of the API, of the agent seam, of  *)
(* the provider webhook and of the sweeper interleave between commands.    *)
(*                                                                         *)
(* Deadlines are countdowns: Tick ages every one of them by one unit, a    *)
(* key whose countdown ends has expired, an index entry whose countdown    *)
(* ended is due.                                                           *)
(***************************************************************************)
EXTENDS Integers, FiniteSets

CONSTANTS
    Reps,            \* accounts that take metered attempts
    Candidates,      \* token-bound hiring candidates
    Calls,           \* the call ids this behaviour may mint
    Slots,           \* the capacity slots, one per admitted call
    NoCall, NoSlot, NoOne,
    Allowed,         \* attempts_allowed of a rep's assignment
    MaxGrants,       \* bound: how often a manager grants the assignment
    LastStage,       \* a candidate's plan has the stages 1 .. LastStage
    JoinSecs,        \* recovery deadline of a PENDING session
    MaxCallSecs,     \* the longest call the runtime conducts
    RecoverSecs,     \* recovery deadline of an ESTABLISHED session
    LeaseSecs,       \* time to live of a lease
    SlotSecs,        \* time to live of a capacity slot
    Modes,           \* which of "attempt" and "test" calls are placed
    Paths,           \* which of the paths that end a call are taken
    OrderlyClients,  \* a client cancels only a granted call it has not joined
    Prompt,          \* the handlers that start in time and take no time
    CrashSites,      \* the handlers that may die between two of their steps
    AckLost          \* a commit may succeed although its caller sees an error

ASSUME ParticipantsAssumption ==
    /\ Reps \cap Candidates = {}
    /\ NoOne \notin Reps \cup Candidates
    /\ NoCall \notin Calls
    /\ NoSlot \notin Slots
    /\ IsFiniteSet(Calls)

ASSUME LimitsAssumption ==
    /\ Allowed \in Nat
    /\ MaxGrants \in Nat
    /\ LastStage \in Nat \ {0}

ASSUME DeadlinesAssumption ==
    /\ {JoinSecs, MaxCallSecs, RecoverSecs, LeaseSecs, SlotSecs} \subseteq Nat \ {0}
    /\ MaxCallSecs < RecoverSecs     \* 900 s against 930 s
    /\ JoinSecs <= RecoverSecs       \* 60 s against 930 s
    /\ RecoverSecs <= LeaseSecs      \* call_lease_seconds is at least 930
    /\ LeaseSecs <= SlotSecs         \* and at most 1800, a slot lives 7200 s

ASSUME SwitchesAssumption ==
    /\ Modes \subseteq {"attempt", "test"}
    /\ Paths \subseteq {"callback", "sweeper", "webhook", "cancel"}
    /\ {OrderlyClients, AckLost} \subseteq BOOLEAN
    /\ Prompt \cup CrashSites \subseteq {"request", "bundle", "cancel", "callback",
                                         "webhook", "sweeper"}

Participants == Reps \cup Candidates
Stages == 1 .. LastStage
NotIndexed == -1

VARIABLES
    leaseOf, leaseLeft,          \* call:participant:*
    slotOwner, slotLeft,         \* call:capacity:*
    session,                     \* call:session:* , only its state field
    recoverIn,                   \* call:recovery, as time left
    owner, mode, stage, slotOf,  \* immutable fields of a request and its session
    attempt, restart, grantOf,   \* the attempt row of a call
    used, grant,                 \* assignment_recipient of a rep
    closed, reportJobs,          \* candidate.completed_at and its effects
    gradeJobs,                   \* GRADE_ATTEMPT jobs enqueued for a call
    req,                         \* request_call, one handler per call
    bundle,                      \* the runtime's bundle fetch
    fin, doing,                  \* the three handlers that end a call
    cancel, cancelling,          \* cancel_pending_call, one per participant
    runtime, liveLeft, verdict   \* the external agent runtime

leaseVars   == <<leaseOf, leaseLeft>>
slotVars    == <<slotOwner, slotLeft>>
sessionVars == <<session, recoverIn>>
valkeyVars  == <<leaseVars, slotVars, sessionVars>>
callVars    == <<owner, mode, stage, slotOf>>
ledgerVars  == <<attempt, grantOf, used, grant, gradeJobs>>
planVars    == <<restart, closed, reportJobs>>
dbVars      == <<ledgerVars, planVars>>
finVars     == <<fin, doing>>
cancelVars  == <<cancel, cancelling>>
runtimeVars == <<runtime, liveLeft, verdict>>
handlerVars == <<req, bundle, finVars, cancelVars, runtimeVars>>
vars == <<valkeyVars, callVars, dbVars, handlerVars>>

Finishers == {"callback", "sweeper", "webhook"}
Dispositions == {"complete", "void", "never"}

\* Program counters.  "undo..." is the compensation of a failed request.
InTxn == {"admitted", "put", "indexed", "renewing", "renewed"}
Undoing == {"undo", "undoIndex", "undoSlot", "undoSlotDel", "undoLease"}
RequestPC == {"idle", "leased", "slotted", "granted", "refused", "dead"}
             \cup InTxn \cup Undoing
BundlePC == {"idle", "read", "renewing", "leased", "set", "indexed"}
FinishPC == {"idle", "listed", "lease?", "txn", "lease", "slot", "slotDel",
             "mark", "unindex"}
CancelPC == {"idle", "read", "txn", "slot", "slotDel", "lease", "orphan",
             "delete", "unindex"}

LeaseType ==
    /\ leaseOf \in [Participants -> Calls \cup {NoCall}]
    /\ leaseLeft \in [Participants -> 0 .. LeaseSecs]

SlotType ==
    /\ slotOwner \in [Slots -> Calls \cup {NoCall}]
    /\ slotLeft \in [Slots -> 0 .. SlotSecs]

SessionType ==
    /\ session \in [Calls -> {"none", "PENDING", "ESTABLISHED", "TERMINAL"}]
    /\ recoverIn \in [Calls -> {NotIndexed} \cup (0 .. RecoverSecs)]

RequestType ==
    /\ owner \in [Calls -> Participants \cup {NoOne}]
    /\ mode \in [Calls -> {"attempt", "test"}]
    /\ stage \in [Calls -> Stages \cup {0}]
    /\ slotOf \in [Calls -> Slots \cup {NoSlot}]
    /\ req \in [Calls -> RequestPC]

RowType ==
    /\ attempt \in [Calls -> {"none", "in_progress", "completed",
                              "interrupted", "deleted"}]
    /\ restart \in [Calls -> BOOLEAN]
    /\ grantOf \in [Calls -> 0 .. MaxGrants]
    /\ used \in [Reps -> 0 .. Allowed]
    /\ grant \in [Reps -> 0 .. MaxGrants]
    /\ closed \in [Candidates -> BOOLEAN]
    /\ reportJobs \in [Candidates -> Nat]
    /\ gradeJobs \in [Calls -> Nat]

HandlerType ==
    /\ bundle \in [Calls -> BundlePC]
    /\ fin \in [Finishers -> [Calls -> FinishPC]]
    /\ doing \in [Finishers -> [Calls -> Dispositions]]
    /\ cancel \in [Participants -> CancelPC]
    /\ cancelling \in [Participants -> Calls \cup {NoCall}]

RuntimeType ==
    /\ runtime \in [Calls -> {"idle", "live", "over"}]
    /\ liveLeft \in [Calls -> 0 .. MaxCallSecs]
    /\ verdict \in [Calls -> Dispositions \cup {"none"}]

TypeOK ==
    /\ LeaseType /\ SlotType /\ SessionType
    /\ RequestType /\ RowType /\ HandlerType /\ RuntimeType

Init ==
    /\ leaseOf = [p \in Participants |-> NoCall]
    /\ leaseLeft = [p \in Participants |-> 0]
    /\ slotOwner = [s \in Slots |-> NoCall]
    /\ slotLeft = [s \in Slots |-> 0]
    /\ session = [c \in Calls |-> "none"]
    /\ recoverIn = [c \in Calls |-> NotIndexed]
    /\ owner = [c \in Calls |-> NoOne]
    /\ mode = [c \in Calls |-> "attempt"]
    /\ stage = [c \in Calls |-> 0]
    /\ slotOf = [c \in Calls |-> NoSlot]
    /\ attempt = [c \in Calls |-> "none"]
    /\ restart = [c \in Calls |-> FALSE]
    /\ grantOf = [c \in Calls |-> 0]
    /\ used = [p \in Reps |-> 0]
    /\ grant = [p \in Reps |-> 0]
    /\ closed = [p \in Candidates |-> FALSE]
    /\ reportJobs = [p \in Candidates |-> 0]
    /\ gradeJobs = [c \in Calls |-> 0]
    /\ req = [c \in Calls |-> "idle"]
    /\ bundle = [c \in Calls |-> "idle"]
    /\ fin = [f \in Finishers |-> [c \in Calls |-> "idle"]]
    /\ doing = [f \in Finishers |-> [c \in Calls |-> "void"]]
    /\ cancel = [p \in Participants |-> "idle"]
    /\ cancelling = [p \in Participants |-> NoCall]
    /\ runtime = [c \in Calls |-> "idle"]
    /\ liveLeft = [c \in Calls |-> 0]
    /\ verdict = [c \in Calls |-> "none"]

-----------------------------------------------------------------------------
(* Valkey commands *)

\* SET key NX EX, and the unconditional SET EX that ends renew().
WriteLease(p, c) ==
    /\ leaseOf' = [leaseOf EXCEPT ![p] = c]
    /\ leaseLeft' = [leaseLeft EXCEPT ![p] = LeaseSecs]

\* Mutant: release() deletes the key without looking whose it is.
ReleaseLease_Any(p, c) ==
    /\ leaseOf' = [leaseOf EXCEPT ![p] = NoCall]
    /\ leaseLeft' = [leaseLeft EXCEPT ![p] = 0]

\* WATCH, GET, MULTI, DEL: one atomic compare-and-delete.
ReleaseLease(p, c) ==
    IF leaseOf[p] = c
    THEN /\ leaseOf' = [leaseOf EXCEPT ![p] = NoCall]
         /\ leaseLeft' = [leaseLeft EXCEPT ![p] = 0]
    ELSE UNCHANGED leaseVars

\* The GET of CapacitySlots.release; its DEL is a step of its own.
OwnsSlot(c) == slotOf[c] # NoSlot /\ slotOwner[slotOf[c]] = c

DeleteSlot(c) ==
    /\ slotOwner' = [slotOwner EXCEPT ![slotOf[c]] = NoCall]
    /\ slotLeft' = [slotLeft EXCEPT ![slotOf[c]] = 0]

WriteSession(c, state) == session' = [session EXCEPT ![c] = state]
Index(c, secs) == recoverIn' = [recoverIn EXCEPT ![c] = secs]
Unindex(c) == recoverIn' = [recoverIn EXCEPT ![c] = NotIndexed]

-----------------------------------------------------------------------------
(* Postgres: row locks and the transactions T-1, T-2 and T-6 *)

\* An open admission holds the subject's advisory lock together with the
\* recipient row (rep) or the candidate row until it commits or rolls back.
SubjectLocked(p) ==
    \E c \in Calls : owner[c] = p /\ mode[c] = "attempt" /\ req[c] \in InTxn

Metered(p) == {c \in Calls : owner[c] = p /\ mode[c] = "attempt"}

StageDone(att, p, s) ==
    \E c \in Metered(p) : stage[c] = s /\ att[c] = "completed"
Interruptions(att, p, s) ==
    Cardinality({c \in Metered(p) : stage[c] = s /\ att[c] = "interrupted"})

StageClosed(att, p, s) ==
    StageDone(att, p, s) \/ Interruptions(att, p, s) >= 2
PlanClosed(att, p) == \A s \in Stages : StageClosed(att, p, s)

\* The stage admission lets through: the first one that is still open.
NextStage(p, s) ==
    /\ ~StageClosed(attempt, p, s)
    /\ \A r \in 1 .. s - 1 : StageClosed(attempt, p, r)

\* Mutant: the open stages are counted before the attempt's row is flipped.
Advance_Stale(p, att) ==
    IF p \in Candidates /\ PlanClosed(attempt, p) /\ ~closed[p]
    THEN /\ closed' = [closed EXCEPT ![p] = TRUE]
         /\ reportJobs' = [reportJobs EXCEPT ![p] = @ + 1]
    ELSE UNCHANGED <<closed, reportJobs>>

\* advance_candidate_if_closed: stamps completed_at once and enqueues the report.
Advance(p, att) ==
    IF p \in Candidates /\ PlanClosed(att, p) /\ ~closed[p]
    THEN /\ closed' = [closed EXCEPT ![p] = TRUE]
         /\ reportJobs' = [reportJobs EXCEPT ![p] = @ + 1]
    ELSE UNCHANGED <<closed, reportJobs>>

\* T-1: the row becomes visible, with the allowance it consumed, at commit.
CommitAdmission(c) ==
    LET p == owner[c] IN
    /\ attempt' = [attempt EXCEPT ![c] = "in_progress"]
    /\ IF p \in Reps
       THEN /\ used' = [used EXCEPT ![p] = @ + 1]
            /\ grantOf' = [grantOf EXCEPT ![c] = grant[p]]
       ELSE UNCHANGED <<used, grantOf>>
    /\ UNCHANGED <<grant, gradeJobs, planVars>>

\* Mutant: no reversal.
Reversed_Never(n) == n

\* greatest(attempts_used - 1, 0)
Reversed(n) == IF n > 0 THEN n - 1 ELSE 0

\* T-6: a call that never was leaves no row, any other leaves a void one.
Interrupt(c, disposition, closesPlan) ==
    LET p == owner[c]
        left == IF disposition = "never" THEN "deleted" ELSE "interrupted"
        att == [attempt EXCEPT ![c] = left]
        closes == closesPlan /\ disposition # "never"
    IN  IF attempt[c] = "in_progress"
        THEN /\ p \in Reps \/ closes => ~SubjectLocked(p)
             /\ attempt' = att
             /\ IF p \in Reps
                THEN used' = [used EXCEPT ![p] = Reversed(@)]
                ELSE UNCHANGED used
             /\ IF closes THEN Advance(p, att) ELSE UNCHANGED <<closed, reportJobs>>
             /\ UNCHANGED <<grant, grantOf, gradeJobs, restart>>
        ELSE UNCHANGED dbVars

\* Mutant: the row is flipped whatever its status is.
Complete_NoClaim(c) ==
    /\ attempt[c] \notin {"none", "deleted"} /\ ~SubjectLocked(owner[c])
    /\ attempt' = [attempt EXCEPT ![c] = "completed"]
    /\ gradeJobs' = [gradeJobs EXCEPT ![c] = @ + 1]
    /\ Advance(owner[c], [attempt EXCEPT ![c] = "completed"])
    /\ UNCHANGED <<used, grant, grantOf, restart>>

\* T-2: claim the row, flip it, close the plan, enqueue the grading job.
Complete(c) ==
    LET p == owner[c]
        att == [attempt EXCEPT ![c] = "completed"]
    IN  /\ attempt[c] \notin {"none", "deleted"} => ~SubjectLocked(p)
        /\ IF attempt[c] = "in_progress"
           THEN /\ attempt' = att
                /\ gradeJobs' = [gradeJobs EXCEPT ![c] = @ + 1]
                /\ Advance(p, att)
                /\ UNCHANGED <<used, grant, grantOf, restart>>
           ELSE UNCHANGED dbVars

\* put_assignment replaces the recipient row: a fresh allowance.
Reassign(p) ==
    /\ grant[p] < MaxGrants
    /\ ~SubjectLocked(p)
    /\ grant' = [grant EXCEPT ![p] = @ + 1]
    /\ used' = [used EXCEPT ![p] = 0]
    /\ UNCHANGED <<attempt, grantOf, gradeJobs, planVars, valkeyVars, callVars,
                   handlerVars>>

-----------------------------------------------------------------------------
(* request_call *)

GoReq(c, from, to) == req[c] = from /\ req' = [req EXCEPT ![c] = to]
SameExceptReq == UNCHANGED <<callVars, dbVars, bundle, finVars, cancelVars,
                             runtimeVars>>

\* SET NX on the participant's key; a taken key is the 409 of a second tab.
RequestLease(c, p, m, s) ==
    /\ GoReq(c, "idle", "leased")
    /\ leaseOf[p] = NoCall
    /\ m = "test" => p \in Reps
    /\ IF p \in Candidates THEN s \in Stages ELSE s = 0
    /\ WriteLease(p, c)
    /\ owner' = [owner EXCEPT ![c] = p]
    /\ mode' = [mode EXCEPT ![c] = m]
    /\ stage' = [stage EXCEPT ![c] = s]
    /\ UNCHANGED <<slotOf, slotVars, sessionVars, dbVars, bundle, finVars,
                   cancelVars, runtimeVars>>

\* SET NX on any of the capacity keys.
RequestSlot(c, s) ==
    /\ GoReq(c, "leased", "slotted")
    /\ slotOwner[s] = NoCall
    /\ slotOwner' = [slotOwner EXCEPT ![s] = c]
    /\ slotLeft' = [slotLeft EXCEPT ![s] = SlotSecs]
    /\ slotOf' = [slotOf EXCEPT ![c] = s]
    /\ UNCHANGED <<owner, mode, stage, leaseVars, sessionVars, dbVars, bundle,
                   finVars, cancelVars, runtimeVars>>

\* No slot is free: 503, with the lease to give back.
RequestNoSlot(c) ==
    /\ GoReq(c, "leased", "undo")
    /\ \A s \in Slots : slotOwner[s] # NoCall
    /\ UNCHANGED valkeyVars /\ SameExceptReq

\* Mutant: a rep's allowance is not looked at.
RequestAdmit_NoAllowance(c) ==
    LET p == owner[c] IN
    /\ GoReq(c, "slotted", "admitted")
    /\ IF mode[c] = "test"
       THEN UNCHANGED restart
       ELSE /\ ~SubjectLocked(p)
            /\ p \in Candidates => ~closed[p] /\ NextStage(p, stage[c])
            /\ restart' = [restart EXCEPT ![c] =
                              p \in Candidates /\ Interruptions(attempt, p, stage[c]) = 1]
    /\ UNCHANGED <<valkeyVars, callVars, ledgerVars, closed, reportJobs, bundle,
                   finVars, cancelVars, runtimeVars>>

\* The checks of T-1 pass under the subject's locks.  A test call has none.
RequestAdmit(c) ==
    LET p == owner[c] IN
    /\ GoReq(c, "slotted", "admitted")
    /\ IF mode[c] = "test"
       THEN UNCHANGED restart
       ELSE /\ ~SubjectLocked(p)
            /\ p \in Reps => used[p] < Allowed
            /\ p \in Candidates => ~closed[p] /\ NextStage(p, stage[c])
            /\ restart' = [restart EXCEPT ![c] =
                              p \in Candidates /\ Interruptions(attempt, p, stage[c]) = 1]
    /\ UNCHANGED <<valkeyVars, callVars, ledgerVars, closed, reportJobs, bundle,
                   finVars, cancelVars, runtimeVars>>

RequestPut(c) ==
    /\ GoReq(c, "admitted", "put")
    /\ WriteSession(c, "PENDING")
    /\ UNCHANGED <<leaseVars, slotVars, recoverIn>> /\ SameExceptReq

\* Mutant: put() stores the session and forgets the recovery index.
RequestIndex_Never(c) ==
    /\ GoReq(c, "put", "indexed")
    /\ UNCHANGED valkeyVars /\ SameExceptReq

RequestIndex(c) ==
    /\ GoReq(c, "put", "indexed")
    /\ Index(c, JoinSecs)
    /\ UNCHANGED <<leaseVars, slotVars, session>> /\ SameExceptReq

\* The GET of renew; request_call ignores the FALSE of a lease it has lost.
RequestReadLease(c) ==
    /\ \/ GoReq(c, "indexed", "renewing") /\ leaseOf[owner[c]] = c
       \/ GoReq(c, "indexed", "renewed") /\ leaseOf[owner[c]] # c
    /\ UNCHANGED valkeyVars /\ SameExceptReq

RequestRenew(c) ==
    /\ GoReq(c, "renewing", "renewed")
    /\ WriteLease(owner[c], c)
    /\ UNCHANGED <<slotVars, sessionVars>> /\ SameExceptReq

Commits(c) ==
    IF mode[c] = "attempt" THEN CommitAdmission(c) ELSE UNCHANGED dbVars

RequestCommit(c) ==
    /\ GoReq(c, "renewed", "granted")
    /\ Commits(c)
    /\ UNCHANGED <<valkeyVars, callVars, bundle, finVars, cancelVars, runtimeVars>>

\* The commit happened, its acknowledgement did not arrive.
RequestCommitUnseen(c) ==
    /\ AckLost
    /\ GoReq(c, "renewed", "undo")
    /\ Commits(c)
    /\ UNCHANGED <<valkeyVars, callVars, bundle, finVars, cancelVars, runtimeVars>>

\* Any refusal or error after the lease: the transaction rolls back.
RequestFails(c) ==
    /\ \E from \in {"slotted"} \cup InTxn : GoReq(c, from, "undo")
    /\ UNCHANGED valkeyVars /\ SameExceptReq

UndoDelete(c) ==
    /\ GoReq(c, "undo", "undoIndex")
    /\ WriteSession(c, "none")
    /\ UNCHANGED <<leaseVars, slotVars, recoverIn>> /\ SameExceptReq

UndoIndex(c) ==
    /\ GoReq(c, "undoIndex", "undoSlot")
    /\ Unindex(c)
    /\ UNCHANGED <<leaseVars, slotVars, session>> /\ SameExceptReq

UndoReadSlot(c) ==
    /\ \/ GoReq(c, "undoSlot", "undoSlotDel") /\ OwnsSlot(c)
       \/ GoReq(c, "undoSlot", "undoLease") /\ ~OwnsSlot(c)
    /\ UNCHANGED valkeyVars /\ SameExceptReq

UndoDeleteSlot(c) ==
    /\ GoReq(c, "undoSlotDel", "undoLease")
    /\ DeleteSlot(c)
    /\ UNCHANGED <<leaseVars, sessionVars>> /\ SameExceptReq

UndoLease(c) ==
    /\ GoReq(c, "undoLease", "refused")
    /\ ReleaseLease(owner[c], c)
    /\ UNCHANGED <<slotVars, sessionVars>> /\ SameExceptReq

\* The process dies; Postgres rolls an open transaction back.
RequestDies(c) ==
    /\ "request" \in CrashSites
    /\ \E from \in {"leased", "slotted"} \cup InTxn \cup Undoing :
           GoReq(c, from, "dead")
    /\ UNCHANGED valkeyVars /\ SameExceptReq

-----------------------------------------------------------------------------
(* runtime_bundle, the agent's fetch that opens the conversation *)

GoBundle(c, from, to) == bundle[c] = from /\ bundle' = [bundle EXCEPT ![c] = to]
SameExceptBundle == UNCHANGED <<callVars, dbVars, req, finVars, cancelVars>>

Conduct(c) ==
    /\ runtime' = [runtime EXCEPT ![c] = "live"]
    /\ liveLeft' = [liveLeft EXCEPT ![c] = MaxCallSecs]
    /\ UNCHANGED verdict

CancelInFlight(c) ==
    \E p \in Participants : cancel[p] # "idle" /\ cancelling[p] = c

\* The agent is dispatched by the participant's join, with the granted token.
AgentAsks(c) ==
    /\ req[c] = "granted"
    /\ runtime[c] = "idle"
    /\ OrderlyClients => ~CancelInFlight(c)

BundleRead(c) ==
    /\ AgentAsks(c)
    /\ session[c] = "PENDING"
    /\ "bundle" \in Prompt => recoverIn[c] > 0
    /\ GoBundle(c, "idle", "read")
    /\ UNCHANGED <<valkeyVars, runtimeVars>> /\ SameExceptBundle

\* A call that is already established only gets its bundle again.
BundleAgain(c) ==
    /\ AgentAsks(c)
    /\ session[c] = "ESTABLISHED"
    /\ "bundle" \in Prompt => recoverIn[c] > MaxCallSecs
    /\ bundle[c] = "idle"
    /\ Conduct(c)
    /\ UNCHANGED <<valkeyVars, bundle>> /\ SameExceptBundle

\* The GET of CallLeaseStore.mark_established; a lost lease is a 404.
BundleReadLease(c) ==
    /\ \/ GoBundle(c, "read", "renewing") /\ leaseOf[owner[c]] = c
       \/ GoBundle(c, "read", "idle") /\ leaseOf[owner[c]] # c
    /\ UNCHANGED <<valkeyVars, runtimeVars>> /\ SameExceptBundle

BundleRenew(c) ==
    /\ GoBundle(c, "renewing", "leased")
    /\ WriteLease(owner[c], c)
    /\ UNCHANGED <<slotVars, sessionVars, runtimeVars>> /\ SameExceptBundle

\* CallRegistry.mark_established: an unconditional SET, then a ZADD.
BundleEstablish(c) ==
    /\ GoBundle(c, "leased", "set")
    /\ WriteSession(c, "ESTABLISHED")
    /\ UNCHANGED <<leaseVars, slotVars, recoverIn, runtimeVars>> /\ SameExceptBundle

\* Mutant: the join deadline stays.
BundleIndex_JoinSecs(c) ==
    /\ GoBundle(c, "set", "indexed")
    /\ Index(c, JoinSecs)
    /\ UNCHANGED <<leaseVars, slotVars, session, runtimeVars>> /\ SameExceptBundle

BundleIndex(c) ==
    /\ GoBundle(c, "set", "indexed")
    /\ Index(c, RecoverSecs)
    /\ UNCHANGED <<leaseVars, slotVars, session, runtimeVars>> /\ SameExceptBundle

BundleReturn(c) ==
    /\ GoBundle(c, "indexed", "idle")
    /\ IF runtime[c] = "idle" THEN Conduct(c) ELSE UNCHANGED runtimeVars
    /\ UNCHANGED valkeyVars /\ SameExceptBundle

BundleDies(c) ==
    /\ "bundle" \in CrashSites
    /\ \E from \in BundlePC \ {"idle"} : GoBundle(c, from, "idle")
    /\ UNCHANGED <<valkeyVars, runtimeVars>> /\ SameExceptBundle

-----------------------------------------------------------------------------
(* The agent runtime, seen through the two callbacks it sends *)

SameExceptRuntime == UNCHANGED <<valkeyVars, callVars, dbVars, req, bundle,
                                 finVars, cancelVars>>

\* The conversation ends and the runtime classifies it, once and for all.
RuntimeReports(c, d) ==
    /\ runtime[c] = "live"
    /\ runtime' = [runtime EXCEPT ![c] = "over"]
    /\ verdict' = [verdict EXCEPT ![c] = d]
    /\ UNCHANGED liveLeft /\ SameExceptRuntime

\* The instance is lost, and with it whatever it would have reported.
RuntimeLost(c) ==
    /\ runtime[c] = "live"
    /\ runtime' = [runtime EXCEPT ![c] = "over"]
    /\ UNCHANGED <<liveLeft, verdict>> /\ SameExceptRuntime

-----------------------------------------------------------------------------
(* The three paths that end a call: the runtime's callback, the sweeper and *)
(* the room_finished webhook.  Each decides on the session it read first.  *)

GoFin(f, c, from, to) ==
    /\ fin[f][c] = from
    /\ fin' = [fin EXCEPT ![f][c] = to]
SameExceptFin == UNCHANGED <<callVars, req, bundle, cancelVars, runtimeVars>>

Live(c) == session[c] \in {"PENDING", "ESTABLISHED"}

\* What a path that was not told infers from the session's state.
Inferred(c) == IF session[c] = "PENDING" THEN "never" ELSE "void"

Decide(f, c, disposition) == doing' = [doing EXCEPT ![f][c] = disposition]

Decided(f, c) == doing' = [doing EXCEPT ![f][c] = "void"]

\* A test call has no row; _finish follows at once.
AfterRead(c) == IF mode[c] = "attempt" THEN "txn" ELSE "lease"

\* Delivered, and delivered again, until the session is gone or TERMINAL.
Undelivered(c) == runtime[c] = "over" /\ verdict[c] # "none" /\ Live(c)

CallbackRead(c) ==
    /\ "callback" \in Paths
    /\ Undelivered(c)
    /\ GoFin("callback", c, "idle", AfterRead(c))
    /\ Decide("callback", c, verdict[c])
    /\ UNCHANGED <<valkeyVars, dbVars>> /\ SameExceptFin

\* ZRANGEBYSCORE: the index entry is due.  TERMINAL calls are skipped.
Overdue(c) == recoverIn[c] = 0 /\ session[c] # "TERMINAL"

SweepList(c) ==
    /\ "sweeper" \in Paths
    /\ Overdue(c)
    /\ GoFin("sweeper", c, "idle", "listed")
    /\ UNCHANGED <<valkeyVars, dbVars, doing>> /\ SameExceptFin

\* The GET that follows: the index entry of a deleted session is dropped.
SweepRead(c) ==
    \/ /\ session[c] = "none"
       /\ GoFin("sweeper", c, "listed", "idle")
       /\ Unindex(c)
       /\ UNCHANGED <<leaseVars, slotVars, session, dbVars, doing>> /\ SameExceptFin
    \/ /\ session[c] = "TERMINAL"
       /\ GoFin("sweeper", c, "listed", "idle")
       /\ UNCHANGED <<valkeyVars, dbVars, doing>> /\ SameExceptFin
    \/ /\ Live(c)
       /\ GoFin("sweeper", c, "listed", AfterRead(c))
       /\ Decide("sweeper", c, Inferred(c))
       /\ UNCHANGED <<valkeyVars, dbVars>> /\ SameExceptFin

\* LiveKit may close the room at any time and repeat the event.
WebhookRead(c) ==
    /\ "webhook" \in Paths
    /\ req[c] = "granted"
    /\ session[c] # "none"
    /\ mode[c] = "attempt"
    /\ GoFin("webhook", c, "idle", "lease?")
    /\ Decide("webhook", c, Inferred(c))
    /\ UNCHANGED <<valkeyVars, dbVars>> /\ SameExceptFin

\* Mutant: room_finished is believed although the lease is held.
WebhookReadLease_Ignored(c) ==
    /\ GoFin("webhook", c, "lease?", "txn")
    /\ UNCHANGED <<doing, valkeyVars, dbVars>> /\ SameExceptFin

\* Whoever holds the participant's lease vouches for the call.
WebhookReadLease(c) ==
    /\ \/ /\ GoFin("webhook", c, "lease?", "txn")
          /\ leaseOf[owner[c]] = NoCall
          /\ UNCHANGED doing
       \/ /\ GoFin("webhook", c, "lease?", "idle")
          /\ leaseOf[owner[c]] # NoCall
          /\ Decided("webhook", c)
    /\ UNCHANGED <<valkeyVars, dbVars>> /\ SameExceptFin

\* The webhook goes on only if it changed the row, and frees no lease.
AfterTxn(f, c) ==
    IF f # "webhook" THEN "lease"
    ELSE IF attempt[c] = "in_progress" THEN "slot" ELSE "idle"

FinTransaction(f, c) ==
    /\ GoFin(f, c, "txn", AfterTxn(f, c))
    /\ IF doing[f][c] = "complete"
       THEN Complete(c)
       ELSE Interrupt(c, doing[f][c], TRUE)
    /\ Decided(f, c)
    /\ UNCHANGED valkeyVars /\ SameExceptFin

FinLease(f, c) ==
    /\ GoFin(f, c, "lease", "slot")
    /\ ReleaseLease(owner[c], c)
    /\ UNCHANGED <<slotVars, sessionVars, dbVars, doing>> /\ SameExceptFin

FinReadSlot(f, c) ==
    /\ \/ GoFin(f, c, "slot", "slotDel") /\ OwnsSlot(c)
       \/ GoFin(f, c, "slot", "mark") /\ ~OwnsSlot(c)
    /\ UNCHANGED <<valkeyVars, dbVars, doing>> /\ SameExceptFin

FinDeleteSlot(f, c) ==
    /\ GoFin(f, c, "slotDel", "mark")
    /\ DeleteSlot(c)
    /\ UNCHANGED <<leaseVars, sessionVars, dbVars, doing>> /\ SameExceptFin

\* mark_terminal: an unconditional SET, then a ZREM.
FinMark(f, c) ==
    /\ GoFin(f, c, "mark", "unindex")
    /\ WriteSession(c, "TERMINAL")
    /\ UNCHANGED <<leaseVars, slotVars, recoverIn, dbVars, doing>> /\ SameExceptFin

FinUnindex(f, c) ==
    /\ GoFin(f, c, "unindex", "idle")
    /\ Unindex(c)
    /\ UNCHANGED <<leaseVars, slotVars, session, dbVars, doing>> /\ SameExceptFin

FinDies(f, c) ==
    /\ f \in CrashSites
    /\ \E from \in FinishPC \ {"idle"} : GoFin(f, c, from, "idle")
    /\ Decided(f, c)
    /\ UNCHANGED <<valkeyVars, dbVars>> /\ SameExceptFin

-----------------------------------------------------------------------------
(* cancel_pending_call *)

GoCancel(p, from, to) == cancel[p] = from /\ cancel' = [cancel EXCEPT ![p] = to]
CancelOver(p) == cancelling' = [cancelling EXCEPT ![p] = NoCall]
SameExceptCancel == UNCHANGED <<callVars, req, bundle, finVars, runtimeVars>>

CancelRead(p) ==
    LET c == leaseOf[p] IN
    /\ "cancel" \in Paths
    /\ c # NoCall
    /\ OrderlyClients => req[c] = "granted" /\ bundle[c] = "idle"
                         /\ runtime[c] = "idle"
    /\ "cancel" \in Prompt => recoverIn[c] # 0
    /\ GoCancel(p, "idle", "read")
    /\ cancelling' = [cancelling EXCEPT ![p] = c]
    /\ UNCHANGED <<valkeyVars, dbVars>> /\ SameExceptCancel

\* No session: the lease goes.  ESTABLISHED: 409.  Else the call is undone.
CancelReadSession(p) ==
    LET c == cancelling[p]
        undo == IF mode[c] = "attempt" THEN "txn" ELSE "slot"
    IN
    /\ \/ /\ GoCancel(p, "read", "orphan") /\ session[c] = "none"
          /\ UNCHANGED cancelling
       \/ /\ GoCancel(p, "read", undo) /\ session[c] \in {"PENDING", "TERMINAL"}
          /\ UNCHANGED cancelling
       \/ /\ GoCancel(p, "read", "idle") /\ session[c] = "ESTABLISHED"
          /\ CancelOver(p)
    /\ UNCHANGED <<valkeyVars, dbVars>> /\ SameExceptCancel

CancelTransaction(p) ==
    /\ GoCancel(p, "txn", "slot")
    /\ Interrupt(cancelling[p], "never", FALSE)
    /\ UNCHANGED <<valkeyVars, cancelling>> /\ SameExceptCancel

CancelReadSlot(p) ==
    /\ \/ GoCancel(p, "slot", "slotDel") /\ OwnsSlot(cancelling[p])
       \/ GoCancel(p, "slot", "lease") /\ ~OwnsSlot(cancelling[p])
    /\ UNCHANGED <<valkeyVars, dbVars, cancelling>> /\ SameExceptCancel

CancelDeleteSlot(p) ==
    /\ GoCancel(p, "slotDel", "lease")
    /\ DeleteSlot(cancelling[p])
    /\ UNCHANGED <<leaseVars, sessionVars, dbVars, cancelling>> /\ SameExceptCancel

CancelLease(p) ==
    /\ \/ GoCancel(p, "lease", "delete") /\ UNCHANGED cancelling
       \/ GoCancel(p, "orphan", "idle") /\ CancelOver(p)
    /\ ReleaseLease(p, cancelling[p])
    /\ UNCHANGED <<slotVars, sessionVars, dbVars>> /\ SameExceptCancel

CancelDelete(p) ==
    /\ GoCancel(p, "delete", "unindex")
    /\ WriteSession(cancelling[p], "none")
    /\ UNCHANGED <<leaseVars, slotVars, recoverIn, dbVars, cancelling>>
    /\ SameExceptCancel

CancelUnindex(p) ==
    /\ GoCancel(p, "unindex", "idle")
    /\ Unindex(cancelling[p]) /\ CancelOver(p)
    /\ UNCHANGED <<leaseVars, slotVars, session, dbVars>> /\ SameExceptCancel

CancelDies(p) ==
    /\ "cancel" \in CrashSites
    /\ \E from \in CancelPC \ {"idle"} : GoCancel(p, from, "idle")
    /\ CancelOver(p)
    /\ UNCHANGED <<valkeyVars, dbVars>> /\ SameExceptCancel

-----------------------------------------------------------------------------
(* Time *)

Requesting(c) == req[c] \notin {"idle", "granted", "refused", "dead"}

\* A prompt handler is not in flight when time passes; a prompt callback has
\* reached the API by then, a prompt sweeper has nothing left to list.
InTime(h) ==
    CASE h = "request" -> \A c \in Calls : ~Requesting(c)
      [] h = "bundle" -> \A c \in Calls : bundle[c] = "idle"
      [] h = "cancel" -> \A p \in Participants : cancel[p] = "idle"
      [] h = "webhook" -> \A c \in Calls : fin[h][c] = "idle"
      [] h = "sweeper" -> \A c \in Calls : fin[h][c] = "idle" /\ ~Overdue(c)
      [] h = "callback" -> \A c \in Calls : fin[h][c] = "idle" /\ ~Undelivered(c)

Older(n) == IF n > 0 THEN n - 1 ELSE n

Tick ==
    /\ \/ \E p \in Participants : leaseLeft[p] > 0
       \/ \E s \in Slots : slotLeft[s] > 0
       \/ \E c \in Calls : recoverIn[c] > 0
    /\ \A c \in Calls : runtime[c] = "live" => liveLeft[c] > 0
    /\ \A h \in Prompt : InTime(h)
    /\ leaseLeft' = [p \in Participants |-> Older(leaseLeft[p])]
    /\ leaseOf' = [p \in Participants |->
                      IF leaseLeft[p] <= 1 THEN NoCall ELSE leaseOf[p]]
    /\ slotLeft' = [s \in Slots |-> Older(slotLeft[s])]
    /\ slotOwner' = [s \in Slots |->
                        IF slotLeft[s] <= 1 THEN NoCall ELSE slotOwner[s]]
    /\ recoverIn' = [c \in Calls |-> Older(recoverIn[c])]
    /\ liveLeft' = [c \in Calls |->
                       IF runtime[c] = "live" THEN Older(liveLeft[c]) ELSE 0]
    /\ UNCHANGED <<session, callVars, dbVars, req, bundle, finVars, cancelVars,
                   runtime, verdict>>

-----------------------------------------------------------------------------
(* The specification *)

Request(c) ==
    \/ \E p \in Participants, m \in Modes, s \in Stages \cup {0} :
           RequestLease(c, p, m, s)
    \/ \E s \in Slots : RequestSlot(c, s)
    \/ RequestNoSlot(c) \/ RequestAdmit(c) \/ RequestPut(c) \/ RequestIndex(c)
    \/ RequestReadLease(c) \/ RequestRenew(c) \/ RequestCommit(c)
    \/ RequestCommitUnseen(c) \/ RequestFails(c)
    \/ UndoDelete(c) \/ UndoIndex(c) \/ UndoReadSlot(c) \/ UndoDeleteSlot(c)
    \/ UndoLease(c) \/ RequestDies(c)

Bundle(c) ==
    \/ BundleRead(c) \/ BundleAgain(c) \/ BundleReadLease(c) \/ BundleRenew(c)
    \/ BundleEstablish(c) \/ BundleIndex(c) \/ BundleReturn(c) \/ BundleDies(c)

Runtime(c) == RuntimeLost(c) \/ \E d \in Dispositions : RuntimeReports(c, d)

Finish(f, c) ==
    \/ FinTransaction(f, c) \/ FinLease(f, c) \/ FinReadSlot(f, c)
    \/ FinDeleteSlot(f, c) \/ FinMark(f, c) \/ FinUnindex(f, c) \/ FinDies(f, c)

Callback(c) == CallbackRead(c) \/ Finish("callback", c)
Sweep(c) == SweepList(c) \/ SweepRead(c) \/ Finish("sweeper", c)
Webhook(c) == WebhookRead(c) \/ WebhookReadLease(c) \/ Finish("webhook", c)

Cancel(p) ==
    \/ CancelRead(p) \/ CancelReadSession(p) \/ CancelTransaction(p)
    \/ CancelReadSlot(p) \/ CancelDeleteSlot(p) \/ CancelLease(p)
    \/ CancelDelete(p) \/ CancelUnindex(p) \/ CancelDies(p)

Next ==
    \/ Tick
    \/ \E c \in Calls : Request(c) \/ Bundle(c) \/ Runtime(c) \/ Callback(c)
                          \/ Sweep(c) \/ Webhook(c)
    \/ \E p \in Participants : Cancel(p)
    \/ \E p \in Reps : Reassign(p)

Spec == Init /\ [][Next]_vars

\* A handler that has started goes on, the sweeper keeps sweeping, a call ends
\* and time passes.  Nobody has to place, join or cancel a call, no callback
\* and no webhook has to arrive.
RequestGoesOn(c) == req[c] # "idle" /\ Request(c)
CallbackGoesOn(c) == fin["callback"][c] # "idle" /\ Callback(c)
WebhookGoesOn(c) == fin["webhook"][c] # "idle" /\ Webhook(c)
BundleGoesOn(c) == bundle[c] # "idle" /\ Bundle(c)
CancelGoesOn(p) == cancel[p] # "idle" /\ Cancel(p)

Fairness ==
    /\ SF_vars(Tick)
    /\ \A c \in Calls :
          /\ WF_vars(RequestGoesOn(c)) /\ WF_vars(BundleGoesOn(c))
          /\ WF_vars(Runtime(c)) /\ WF_vars(Sweep(c))
          /\ WF_vars(CallbackGoesOn(c)) /\ WF_vars(WebhookGoesOn(c))
    /\ \A p \in Participants : WF_vars(CancelGoesOn(p))

FairSpec == Spec /\ Fairness

-----------------------------------------------------------------------------
(* The ledger, whatever clients, clocks and crashes do *)

\* A request becomes an attempt of its participant when T-1 commits.
Ledger == INSTANCE AttemptLedger WITH
    who <- [c \in Calls |-> IF attempt[c] = "none" THEN NoOne ELSE owner[c]],
    at <- [c \in Calls |-> IF attempt[c] = "none" THEN 0 ELSE stage[c]]

\* Every step of every handler is one of the ledger's transactions or leaves the
\* ledger alone: each end of an attempt happens once, with all of its effects,
\* however the callback, the sweeper, the webhook and the cancel interleave.
ImplementsLedger == Ledger!Spec

\* An open admission of an attempt: its checks have passed, it has not committed.
Admitting(c) == mode[c] = "attempt" /\ req[c] \in InTxn

\* What an admission checked still holds when it commits, whatever ends of other
\* calls of the same subject come in between: that is what the subject's locks
\* are for (_LOCK_CANDIDATE and the row lock of _CONSUME_ALLOWANCE).
AdmissionStands ==
    /\ \A c \in Calls, p \in Reps :
           Admitting(c) /\ owner[c] = p => used[p] < Allowed
    /\ \A c \in Calls, p \in Candidates, s \in Stages :
           Admitting(c) /\ owner[c] = p /\ stage[c] = s => ~closed[p] /\ NextStage(p, s)

\* The rest of the inductive invariant: one admission at a time for a subject,
\* an attempt only after its commit, a cancel always of some call.
OneAdmission ==
    \A c, d \in Calls : Admitting(c) /\ Admitting(d) /\ owner[c] = owner[d] => c = d

Identified ==
    \A c \in Calls : req[c] # "idle" =>
        /\ owner[c] \in Participants
        /\ owner[c] \in Reps => stage[c] = 0
        /\ owner[c] \in Candidates => stage[c] \in Stages

AttemptAfterCommit ==
    \A c \in Calls : attempt[c] # "none" =>
        /\ mode[c] = "attempt"
        /\ req[c] \notin {"idle", "leased", "slotted"} \cup InTxn

CancelOfCall == \A p \in Participants : cancel[p] # "idle" => cancelling[p] \in Calls

LedgerInv ==
    /\ TypeOK
    /\ AdmissionStands
    /\ OneAdmission
    /\ Identified
    /\ AttemptAfterCommit
    /\ CancelOfCall

\* Admission charges an attempt and its end gives it back once: the counter is
\* exact after any mixture of undone, cancelled, void and repeated requests, as
\* long as the deadlines are met or the assignment is not replaced (attempts_used).
AllowanceExact == Ledger!AllowanceExact

\* A plan whose stages are all closed has been closed, and its report enqueued
\* once, by the transaction that closed its last stage (_LAST_OPEN_STAGE).
PlanClosedOnce == Ledger!PlanClosedOnce

\* However often the runtime's callback, the sweep and the webhook report the
\* end of a call, a completed attempt has one grading job and any other none.
GradedExactlyOnce == Ledger!GradedExactlyOnce

-----------------------------------------------------------------------------
(* Properties of the calls, while clients are orderly and deadlines are met *)

LiveCalls == {c \in Calls : runtime[c] = "live"}

\* FR-LIV-005: a participant has one live call.
OneLiveCall == \A c, d \in LiveCalls : owner[c] = owner[d] => c = d

\* A call that is being conducted keeps everything it stands on: its session,
\* the lease of its participant, its capacity slot (so that there are never
\* more calls than slots) and its attempt.  Nobody ends it early.
LiveCallStands ==
    \A c \in LiveCalls :
        /\ session[c] = "ESTABLISHED"
        /\ leaseOf[owner[c]] = c
        /\ OwnsSlot(c)
        /\ mode[c] = "attempt" => attempt[c] = "in_progress"

\* What the runtime saw is what the row says once the session has ended.
VerdictStands ==
    \A c \in Calls :
        session[c] = "TERMINAL" /\ mode[c] = "attempt" /\ verdict[c] # "none"
            => attempt[c] = CASE verdict[c] = "complete" -> "completed"
                              [] verdict[c] = "void" -> "interrupted"
                              [] verdict[c] = "never" -> "deleted"

\* No attempt is stranded in_progress: whatever is lost, the sweep ends it.
EveryAttemptEnds ==
    \A c \in Calls : attempt[c] = "in_progress" ~> attempt[c] # "in_progress"

\* And no established session is left to hold its participant and its slot, at
\* whatever command its handlers stopped.
EveryConversationEnds ==
    \A c \in Calls : session[c] = "ESTABLISHED" ~> session[c] # "ESTABLISHED"

\* Both: the recovery index finds whatever a handler left behind (sweep.py).
EveryCallEnds == EveryAttemptEnds /\ EveryConversationEnds

-----------------------------------------------------------------------------
(* What the documents say and the code does not do, once handlers may stall    *)
(* (README, section 5).                                                        *)

\* 13-live-call.spec.md, FR-LIV-013: a completed call is submitted for grading.
CompletedIsGraded ==
    \A c \in Calls :
        session[c] = "TERMINAL" /\ mode[c] = "attempt" /\ verdict[c] = "complete"
            => gradeJobs[c] > 0

\* 03-error-catalog.api.md: admission is refused at the concurrency limit.
WithinCapacity == Cardinality(LiveCalls) <= Cardinality(Slots)
=============================================================================
