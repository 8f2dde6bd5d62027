--------------------------- MODULE Restore_proofs ---------------------------
(***************************************************************************)
(* Theorems about the lifecycle of an organization, for any number of      *)
(* commands, handlers, requests and batches, and about the restore.        *)
(***************************************************************************)
EXTENDS Restore, FiniteSetTheorems, SequenceTheorems, TLAPS

-----------------------------------------------------------------------------
(* Rows: what the invariants ask of the shape of the state. *)

OrgFields == {"status", "seq", "term", "ends", "episode", "byOps", "eligible"}
DataFields == {"action", "episode", "ends", "eligible", "period", "held", "kind", "to", "was"}
OpFields == {"status", "expected", "data"}
RequestFields == {"kind", "status", "queued"}
ProcFields == {"pc", "op", "data", "seen", "batch", "episode"}

IsData(d) == /\ d = [f \in DataFields |-> d[f]]
             /\ d.eligible \in Nat /\ d.period \in Nat
IsOp(o) == /\ o = [f \in OpFields |-> o[f]]
           /\ o.status \in {"pending", "applied", "rejected"}
           /\ o.expected \in Nat /\ IsData(o.data)
IsRequest(q) == q = [f \in RequestFields |-> q[f]] /\ q.kind # "none"
IsProc(x) == /\ x = [f \in ProcFields |-> x[f]]
             /\ x.seen \in Nat /\ IsData(x.data)

OrgRow == /\ org = [f \in OrgFields |-> org[f]]
          /\ org.seq \in Nat /\ org.eligible \in Nat
OpsRows == ops = [i \in DOMAIN ops |-> ops[i]] /\ \A i \in DOMAIN ops : IsOp(ops[i])
HoldRows == /\ holds = [r \in DOMAIN holds |-> holds[r]]
            /\ \A r \in DOMAIN holds : holds[r] \in {"active", "released"}
RequestRows == /\ requests = [r \in DOMAIN requests |-> requests[r]]
               /\ \A r \in DOMAIN requests : IsRequest(requests[r])
ProcRows == /\ proc = [p \in Processes |-> proc[p]]
            /\ \A p \in Processes : IsProc(proc[p])

Rows == /\ clock \in Nat /\ period \in Nat /\ period > 0 /\ receipts \in Nat
        /\ OrgRow /\ OpsRows /\ HoldRows /\ RequestRows
        /\ log \in Seq(DOMAIN ops)

-----------------------------------------------------------------------------
(* The inductive invariant. *)

Service == {"start", "expire_term"}  \* the decisions that end service
Decided == {"append", "head", "receipt", "apply"}
Driving == {"quiesce", "finalize"} \cup Decided
PurgeActions == {"claim", "authorize_destructive_step", "complete_destructive_step", "complete"}

\* One decision at a time, for the sequence the database shows.
OneDecision == /\ \A i, j \in Pending : i = j
               /\ \A i \in Pending : ops[i].expected = org.seq

\* The history is the chain of the applied decisions, and of a pending one.
Chain ==
    /\ \A n \in 1..Len(log) : ops[log[n]].expected = n - 1
    /\ \A n \in 1..Len(log) : n <= org.seq => ops[log[n]].status = "applied"
    /\ \A n \in 1..Len(log) : LET d == ops[log[n]].data IN d.action = "start" => d.eligible > 0
    /\ \A i \in DOMAIN ops : ops[i].status = "applied" => InLog(i)

\* Only a start that came after the end of its term is rejected.
Rejections == \A i \in DOMAIN ops : ops[i].status = "rejected" =>
                  ops[i].data.action = "start" /\ ops[i].data.eligible = 0

\* What is so of the data of every operation ...
Lasting(d) ==
    /\ d.action \in TermActions \cup {"start", "policy_revision"} => d.period > 0
    /\ d.action \in TermActions => d.ends \in Nat
    /\ d.to = "revision" => d.action \in TermActions
    /\ d.action \in {"release_restriction", "set_subject_request_state"} /\ d.kind # "none"
          => d.was # "closed"
    /\ d.to = "closed" => d.action = "release_restriction" /\ d.kind # "none"

\* ... and of a pending one.
Fits(d) ==
    /\ d.to = "closed" => d.held \in DOMAIN requests /\ d.held \notin armed
    /\ d.action = "claim" => org.eligible <= clock
    /\ d.action = "complete" => org.status = "purging"

Decisions == /\ \A i \in DOMAIN ops : Lasting(ops[i].data)
             /\ \A i \in Pending : Fits(ops[i].data)
             /\ org.term # None =>
                   org.term \in DOMAIN ops /\ ops[org.term].data.action \in TermActions

\* No call is left once the decision that ends service was drained.
Drained == /\ org.status # "active" => ~call
           /\ \A i \in Pending : InLog(i) /\ ops[i].data.action \in Service => ~call

\* A request that was closed stays so, and its erasure is not armed.
Closures ==
    /\ ArmedNeverClosed
    /\ \A n \in 1..Len(log) : LET d == ops[log[n]].data IN d.to = "closed" => d.held \notin armed
    /\ \A n \in 1..Len(log) : LET d == ops[log[n]].data IN n <= org.seq /\ d.to = "closed" =>
          d.held \in DOMAIN requests /\ requests[d.held].status = "closed"
    /\ \A r \in DOMAIN requests : r \in DOMAIN ops /\ ops[r].status = "applied"

Shared == /\ Rows /\ OneDecision /\ Chain /\ HistoryAhead /\ Rejections /\ Decisions
          /\ Drained /\ Closures /\ PurgeIsDue

\* What a process is about to propose.
Proposed(d) ==
    /\ d.to = "closed" => d.action = "set_subject_request_state" /\ d.held \in DOMAIN requests
    /\ d.to # "revision"
    /\ d.action = "policy_revision" => d.period > 0
    /\ d.action \in TermActions => d.ends \in Nat
    /\ d.action = "release_restriction" => d.kind = "none"

\* What a process at each step knows.
Knows(x) ==
    /\ x.pc \in Driving => x.op \in DOMAIN ops
    /\ x.pc \in Decided => /\ ops[x.op].status # "rejected"
                           /\ ops[x.op].data.action = "start" => ops[x.op].data.eligible > 0
    /\ x.pc \in {"receipt", "apply"} => InLog(x.op)
    /\ x.pc = "head" => /\ x.seen = ops[x.op].expected /\ x.seen <= Len(log)
                        /\ x.seen = Len(log) => Verified
    /\ x.pc = "finalize" => ops[x.op].data.action = "start"
    /\ x.pc \in {"finalize"} \cup Decided /\ x.op \in Pending
          /\ ops[x.op].data.action \in Service => ~call
    /\ x.pc = "prepare" /\ x.op \notin DOMAIN ops => Proposed(x.data)
    /\ x.pc = "due" => x.data.action = "expire_term" /\ Proposed(x.data)

\* The purge worker proposes the purge's decisions.
Purging == proc[Purger].pc \in {"prepare"} \cup Driving => proc[Purger].data.action \in PurgeActions

Processing == ProcRows /\ (\A p \in Processes : Knows(proc[p])) /\ Purging

IInv == Shared /\ Processing

-----------------------------------------------------------------------------
(* What a step may do to the shared state. *)

Kept == UNCHANGED <<org, period, ops, holds, requests, armed, log, receipts>>

Calm == Kept /\ clock' \in Nat /\ clock' >= clock /\ (call' => call)

Calling == Kept /\ UNCHANGED clock /\ Access

Staging(i, d) ==
    /\ Pending = {} /\ i \notin DOMAIN ops
    /\ IsData(d) /\ Lasting(d) /\ Fits(d)
    /\ ops' = With(ops, i, Row(d, "pending", org.seq))
    /\ UNCHANGED <<clock, org, period, holds, requests, armed, log, receipts, call>>

\* A row of ops changes: o becomes of i.
Rewrites(i, o) == /\ i \in Pending /\ IsOp(o) /\ o.expected = ops[i].expected
                  /\ ops' = [j \in DOMAIN ops |-> IF j = i THEN o ELSE ops[j]]

Late(i) == ops[i].data.action = "start" /\ ops[i].data.eligible = 0

Cutting(i, o) ==
    /\ Rewrites(i, o) /\ Late(i) /\ o.status = "pending"
    /\ o.data.eligible > 0 /\ o.data.action = "start"
    /\ o.data.to = ops[i].data.to /\ o.data.period = ops[i].data.period
    /\ UNCHANGED <<clock, org, period, holds, requests, armed, log, receipts, call>>

Rejecting(i, o) ==
    /\ Rewrites(i, o) /\ Late(i) /\ o.status = "rejected" /\ o.data = ops[i].data
    /\ UNCHANGED <<clock, org, period, holds, requests, armed, log, receipts, call>>

Appending(i) ==
    /\ i \in Pending /\ ~InLog(i) /\ Len(log) = org.seq /\ Verified
    /\ ops[i].data.action = "start" => ops[i].data.eligible > 0
    /\ ops[i].data.action \in Service => ~call
    /\ log' = Append(log, i)
    /\ UNCHANGED <<clock, org, period, ops, holds, requests, armed, receipts, call>>

Receipting == /\ receipts' = Len(log)
              /\ UNCHANGED <<clock, org, period, ops, holds, requests, armed, log, call>>

\* The projection of decision i, as far as the invariants go.
Turning(i) ==
    LET d == ops[i].data IN
    /\ OrgRow' /\ org'.seq = org.seq + 1
    /\ org'.term = org.term \/ (org'.term = i /\ d.action \in TermActions)
    /\ period' = period
          \/ (period' = d.period /\ (d.action = "policy_revision" \/ d.to = "revision"))
    /\ org'.status # "active" => org.status # "active" \/ d.action \in Service \cup {"complete"}
    /\ org'.status \in {"purging", "gone"} =>
          /\ org'.eligible = org.eligible
          /\ org.status = "purging" \/ d.action \in {"claim", "complete"}
    /\ org'.status = "gone" => ~Blocked'
    /\ HoldRows' /\ RequestRows'
    /\ DOMAIN requests \subseteq DOMAIN requests'
    /\ DOMAIN requests' \subseteq DOMAIN requests \cup {i}
    /\ d.to = "closed" /\ d.held \in DOMAIN requests => requests'[d.held].status = "closed"
    /\ \A r \in DOMAIN requests : requests[r].status = "closed" => requests'[r].status = "closed"
    /\ \A r \in DOMAIN requests' : requests'[r].status = "closed" =>
          \/ r \in DOMAIN requests /\ requests[r].status = "closed"
          \/ d.to = "closed" /\ r = d.held

Projecting(i, o) ==
    /\ Rewrites(i, o) /\ InLog(i) /\ o.status = "applied" /\ o.data = ops[i].data
    /\ UNCHANGED <<clock, armed, log, receipts, call>>
    /\ org.status # "gone" /\ Turning(i)

\* A worker of a subject request.
Working ==
    /\ UNCHANGED <<clock, org, period, ops, holds, log, receipts, call>>
    /\ RequestRows' /\ DOMAIN requests' = DOMAIN requests
    /\ \A r \in DOMAIN requests : requests'[r].status = "closed" <=> requests[r].status = "closed"
    /\ \A r \in DOMAIN requests : Unresolved(r)' => Unresolved(r)
    /\ \/ armed' = armed
       \/ \E r \in DOMAIN requests : /\ armed' = armed \cup {r} /\ Pending = {}
                                     /\ requests'[r].status # "closed"

Effect == \/ Calm \/ Calling
          \/ \E i, d : Staging(i, d)
          \/ \E i, o : Cutting(i, o) \/ Rejecting(i, o) \/ Projecting(i, o)
          \/ \E i : Appending(i)
          \/ Receipting \/ Working

-----------------------------------------------------------------------------
(* Rows. *)

\* A new row joins the others.
LEMMA Joined ==
    ASSUME NEW i, NEW o, OpsRows, IsOp(o), ops' = With(ops, i, o)
    PROVE  /\ OpsRows' /\ DOMAIN ops' = DOMAIN ops \cup {i} /\ ops'[i] = o
           /\ \A j \in DOMAIN ops : j # i => ops'[j] = ops[j]
BY DEF OpsRows, With

LEMMA RowFields ==
    ASSUME NEW d, IsData(d), NEW s \in {"pending", "applied", "rejected"}, NEW n \in Nat
    PROVE  /\ IsOp(Row(d, s, n)) /\ Row(d, s, n).status = s /\ Row(d, s, n).expected = n
           /\ Row(d, s, n).data = d
BY DEF IsOp, OpFields, Row

\* A row that is rewritten leaves the others and stays in its place.
LEMMA Rewritten ==
    ASSUME NEW i, NEW o, OpsRows, Rewrites(i, o)
    PROVE  /\ OpsRows' /\ DOMAIN ops' = DOMAIN ops /\ i \in DOMAIN ops /\ ops[i].status = "pending"
           /\ ops'[i] = o /\ o.expected = ops[i].expected
           /\ \A j \in DOMAIN ops : j # i => ops'[j] = ops[j]
BY DEF OpsRows, Rewrites, Pending

\* The history grows by one decision.
LEMMA Appended ==
    ASSUME NEW D, NEW l \in Seq(D), NEW i \in D
    PROVE  /\ Append(l, i) \in Seq(D) /\ Len(Append(l, i)) = Len(l) + 1 /\ Len(l) \in Nat
           /\ Append(l, i)[Len(l) + 1] = i
           /\ \A n \in 1..Len(l) : Append(l, i)[n] = l[n] /\ l[n] \in D
OBVIOUS

\* Whatever is in the history is an operation.
LEMMA LoggedAreOperations ==
    ASSUME Rows
    PROVE  /\ Len(log) \in Nat /\ \A n \in 1..Len(log) : log[n] \in DOMAIN ops
           /\ \A i : InLog(i) => i \in DOMAIN ops
BY DEF Rows, InLog

-----------------------------------------------------------------------------
(* Every kind of step keeps the shared part of the invariant. *)

LEMMA CalmKeeps == ASSUME Shared, Calm PROVE Shared'
<1>1. Rows'
    BY DEF Shared, Rows, Calm, Kept, OrgRow, OpsRows, HoldRows, RequestRows
<1>2. OneDecision' /\ Chain' /\ Rejections'
    BY DEF Shared, Calm, Kept, OneDecision, Pending, Chain, Rejections, InLog
<1>3. HistoryAhead' /\ Closures'
    BY DEF Shared, Calm, Kept, HistoryAhead, Pending, Closures, ArmedNeverClosed
<1>4. PurgeIsDue'
    BY DEF Shared, Calm, Kept, PurgeIsDue, PurgeNeverEarly, GoneOwesNothing, Unresolved, Rows,
           OrgRow
<1>5. Decisions'
    BY DEF Shared, Calm, Kept, Decisions, Pending, Fits, Rows, OrgRow
<1>6. Drained'
    BY DEF Shared, Calm, Kept, Drained, Pending, InLog
<1> QED
    BY <1>1, <1>2, <1>3, <1>4, <1>5, <1>6 DEF Shared

LEMMA CallingKeeps == ASSUME Shared, Calling PROVE Shared'
<1>1. Rows'
    BY DEF Shared, Rows, Calling, Kept, OrgRow, OpsRows, HoldRows, RequestRows
<1>2. OneDecision' /\ Chain' /\ Rejections'
    BY DEF Shared, Calling, Kept, OneDecision, Pending, Chain, Rejections, InLog
<1>3. HistoryAhead' /\ Closures'
    BY DEF Shared, Calling, Kept, HistoryAhead, Pending, Closures, ArmedNeverClosed
<1>4. PurgeIsDue'
    BY DEF Shared, Calling, Kept, PurgeIsDue, PurgeNeverEarly, GoneOwesNothing, Unresolved
<1>5. Decisions'
    BY DEF Shared, Calling, Kept, Decisions, Pending, Fits
<1>6. Drained'
    BY DEF Shared, Calling, Kept, Drained, Pending, InLog, Access
<1> QED
    BY <1>1, <1>2, <1>3, <1>4, <1>5, <1>6 DEF Shared

LEMMA ReceiptingKeeps == ASSUME Shared, Receipting PROVE Shared'
<1>0. Len(log) \in Nat
    BY LoggedAreOperations DEF Shared
<1>1. Rows'
    BY <1>0 DEF Shared, Rows, Receipting, OrgRow, OpsRows, HoldRows, RequestRows
<1>2. OneDecision' /\ Chain' /\ Rejections'
    BY DEF Shared, Receipting, OneDecision, Pending, Chain, Rejections, InLog
<1>3. HistoryAhead' /\ Closures'
    BY DEF Shared, Receipting, HistoryAhead, Pending, Closures, ArmedNeverClosed
<1>4. PurgeIsDue'
    BY DEF Shared, Receipting, PurgeIsDue, PurgeNeverEarly, GoneOwesNothing, Unresolved
<1>5. Decisions'
    BY DEF Shared, Receipting, Decisions, Pending, Fits
<1>6. Drained'
    BY DEF Shared, Receipting, Drained, Pending, InLog
<1> QED
    BY <1>1, <1>2, <1>3, <1>4, <1>5, <1>6 DEF Shared

LEMMA WorkingKeeps == ASSUME Shared, Working PROVE Shared'
<1>1. Rows'
    BY DEF Shared, Rows, Working, OrgRow, OpsRows, HoldRows
<1>2. OneDecision' /\ Chain' /\ Rejections'
    BY DEF Shared, Working, OneDecision, Pending, Chain, Rejections, InLog
<1>3. HistoryAhead'
    BY DEF Shared, Working, HistoryAhead, Pending
<1>4. PurgeIsDue'
    BY DEF Shared, Working, PurgeIsDue, PurgeNeverEarly, GoneOwesNothing
<1>5. Decisions'
    BY DEF Shared, Working, Decisions, Pending, Fits
<1>6. Drained'
    BY DEF Shared, Working, Drained, Pending, InLog
<1>7. Closures'
    <2>1. armed' = armed \/ \E r \in DOMAIN requests :
              /\ armed' = armed \cup {r} /\ Len(log) <= org.seq
              /\ requests'[r].status # "closed" /\ requests[r].status # "closed"
        BY DEF Shared, Working, HistoryAhead
    <2>2. ArmedNeverClosed'
        BY <2>1 DEF Shared, Working, Closures, ArmedNeverClosed
    <2>3. \A n \in 1..Len(log) : ops[log[n]].data.to = "closed" =>
              ops[log[n]].data.held \notin armed'
        <3>1. CASE armed' = armed
            BY <3>1 DEF Shared, Closures
        <3>2. CASE Len(log) <= org.seq
            <4>1. \A n \in 1..Len(log) : n <= org.seq
                BY <3>2, LoggedAreOperations DEF Shared, Rows, OrgRow
            <4>2. \A n \in 1..Len(log) : ops[log[n]].data.to = "closed" =>
                      /\ requests[ops[log[n]].data.held].status = "closed"
                      /\ ops[log[n]].data.held \notin armed
                BY <4>1 DEF Shared, Closures
            <4> QED
                BY <2>1, <4>2
        <3> QED
            BY <2>1, <3>1, <3>2
    <2> QED
        BY <2>2, <2>3 DEF Shared, Working, Closures
<1> QED
    BY <1>1, <1>2, <1>3, <1>4, <1>5, <1>6, <1>7 DEF Shared

LEMMA StagingKeeps == ASSUME Shared, NEW i, NEW d, Staging(i, d) PROVE Shared'
<1> DEFINE o == Row(d, "pending", org.seq)
<1>0. IsOp(o) /\ o.status = "pending" /\ o.expected = org.seq /\ o.data = d
    BY RowFields DEF Shared, Rows, OrgRow, Staging
<1> HIDE DEF o
<1>1. /\ OpsRows' /\ DOMAIN ops' = DOMAIN ops \cup {i} /\ ops'[i] = o /\ i \notin DOMAIN ops
      /\ \A j \in DOMAIN ops : ops'[j] = ops[j] /\ ops[j].status # "pending"
    BY <1>0, Joined DEF Shared, Rows, Staging, Pending, o
<1>2. Pending' = {i}
    BY <1>0, <1>1 DEF Pending
<1>3. /\ Len(log) \in Nat
      /\ \A n \in 1..Len(log) : log[n] \in DOMAIN ops /\ ops'[log[n]] = ops[log[n]]
      /\ log' = log
    BY <1>1, LoggedAreOperations DEF Shared, Staging
<1>4. Rows'
    BY <1>1, <1>3 DEF Shared, Rows, Staging, OrgRow, HoldRows, RequestRows
<1>5. OneDecision'
    BY <1>0, <1>1, <1>2 DEF Staging, OneDecision
<1>6. Chain'
    <2>1. /\ org' = org /\ ops'[i].status = "pending"
          /\ \A n \in 1..Len(log) : log'[n] = log[n] /\ ops'[log'[n]] = ops[log[n]]
        BY <1>0, <1>1, <1>3 DEF Staging
    <2>2. \A j \in DOMAIN ops' : ops'[j].status = "applied" =>
              \E n \in 1..Len(log) : log[n] = j
        BY <1>1, <2>1 DEF Shared, Chain, InLog
    <2> QED
        BY <1>3, <2>1, <2>2, SMTT(30) DEF Shared, Chain, InLog
<1>7. HistoryAhead'
    BY <1>3 DEF Shared, Staging, HistoryAhead
<1>8. Rejections'
    BY <1>0, <1>1 DEF Shared, Rejections
<1>9. Decisions'
    <2>1. \A j \in DOMAIN ops' : Lasting(ops'[j].data)
        BY <1>0, <1>1 DEF Shared, Staging, Decisions
    <2>2. Fits(d)'
        BY DEF Staging, Fits
    <2> QED
        BY <1>0, <1>1, <1>2, <2>1, <2>2 DEF Shared, Staging, Decisions
<1>10. Drained'
    BY <1>1, <1>2, <1>3 DEF Shared, Staging, Drained, InLog
<1>11. Closures'
    BY <1>1, <1>3 DEF Shared, Staging, Closures, ArmedNeverClosed
<1>12. PurgeIsDue'
    BY DEF Shared, Staging, PurgeIsDue, PurgeNeverEarly, GoneOwesNothing, Unresolved
<1> QED
    BY <1>4, <1>5, <1>6, <1>7, <1>8, <1>9, <1>10, <1>11, <1>12 DEF Shared

LEMMA AppendingKeeps == ASSUME Shared, NEW i, Appending(i) PROVE Shared'
<1>1. /\ log' \in Seq(DOMAIN ops) /\ Len(log') = Len(log) + 1 /\ Len(log) \in Nat
      /\ log'[Len(log) + 1] = i /\ i \in DOMAIN ops
      /\ \A n \in 1..Len(log) : log'[n] = log[n] /\ log[n] \in DOMAIN ops
    BY Appended DEF Shared, Rows, Appending, Pending
<1>2. Rows'
    BY <1>1 DEF Shared, Rows, Appending, OrgRow, OpsRows, HoldRows, RequestRows
<1>3. OneDecision' /\ Rejections' /\ Pending' = Pending
    BY DEF Shared, Appending, OneDecision, Rejections, Pending
<1>4. Chain'
    <2>1. \A j : InLog(j) => InLog(j)'
        BY <1>1 DEF InLog
    <2> QED
        BY <1>1, <2>1, SMTT(30) DEF Shared, Rows, OrgRow, Appending, Chain, OneDecision
<1>5. HistoryAhead'
    BY <1>1, <1>3 DEF Shared, Rows, Appending, HistoryAhead, Verified
<1>6. Decisions' /\ PurgeIsDue'
    BY DEF Shared, Appending, Decisions, Fits, Pending, PurgeIsDue, PurgeNeverEarly,
           GoneOwesNothing, Unresolved
<1>7. Drained'
    BY <1>3 DEF Shared, Appending, Drained, OneDecision
<1>8. Closures'
    <2>1. ops[i].data.to = "closed" => ops[i].data.held \notin armed
        BY DEF Shared, Appending, Decisions, Fits
    <2>2. \A n \in 1..Len(log') : n = Len(log) + 1 \/ n \in 1..Len(log)
        BY <1>1
    <2>3. \A n \in 1..Len(log') : ops[log'[n]].data.to = "closed" =>
              ops[log'[n]].data.held \notin armed
        BY <1>1, <2>1, <2>2 DEF Shared, Closures
    <2>4. \A n \in 1..Len(log') : n <= org.seq => n \in 1..Len(log)
        BY <1>1, <2>2 DEF Appending, Shared, Rows, OrgRow
    <2> QED
        BY <1>1, <2>3, <2>4 DEF Shared, Appending, Closures, ArmedNeverClosed
<1> QED
    BY <1>2, <1>3, <1>4, <1>5, <1>6, <1>7, <1>8 DEF Shared

LEMMA CuttingKeeps == ASSUME Shared, NEW i, NEW o, Cutting(i, o) PROVE Shared'
<1>1. /\ OpsRows' /\ DOMAIN ops' = DOMAIN ops /\ i \in DOMAIN ops /\ ops[i].status = "pending"
      /\ ops'[i] = o /\ o.expected = ops[i].expected
      /\ \A j \in DOMAIN ops : j # i => ops'[j] = ops[j]
    BY Rewritten DEF Shared, Rows, Cutting
<1>2. Pending' = Pending
    BY <1>1 DEF Cutting, Pending
<1>3. Rows'
    BY <1>1 DEF Shared, Rows, Cutting, OrgRow, HoldRows, RequestRows
<1>4. OneDecision' /\ HistoryAhead' /\ Rejections'
    <2>1. OneDecision'
        <3>1. org' = org /\ \A j \in Pending : ops'[j].expected = ops[j].expected
            BY <1>1 DEF Cutting, Pending
        <3> QED
            BY <1>2, <3>1 DEF Shared, OneDecision
    <2>2. HistoryAhead'
        BY <1>2 DEF Shared, Cutting, HistoryAhead
    <2>3. Rejections'
        BY <1>1 DEF Shared, Cutting, Rejections
    <2> QED
        BY <2>1, <2>2, <2>3
<1>5. Chain'
    <2>1. /\ log' = log /\ org' = org
          /\ \A n \in 1..Len(log) : log[n] \in DOMAIN ops
        BY LoggedAreOperations DEF Shared, Cutting
    <2>2. \A n \in 1..Len(log) : ops'[log[n]].expected = ops[log[n]].expected
        BY <1>1, <2>1
    <2>3. \A j \in DOMAIN ops : ops'[j].status = ops[j].status
        BY <1>1 DEF Cutting
    <2>4. \A j \in DOMAIN ops :
              ops'[j].data.action = "start" =>
                  \/ ops'[j].data.eligible > 0
                  \/ ops[j].data.action = "start" /\ ops'[j] = ops[j]
        BY <1>1 DEF Cutting
    <2>5. \A n \in 1..Len(log) : ops'[log[n]].expected = n - 1
        BY <2>2 DEF Shared, Chain
    <2>6. \A n \in 1..Len(log) : n <= org.seq => ops'[log[n]].status = "applied"
        BY <2>1, <2>3 DEF Shared, Chain
    <2>7. \A n \in 1..Len(log) :
              LET d == ops'[log[n]].data IN d.action = "start" => d.eligible > 0
        BY <2>1, <2>4 DEF Shared, Chain
    <2>8. \A j \in DOMAIN ops' : ops'[j].status = "applied" => InLog(j)
        BY <1>1, <2>3 DEF Shared, Chain
    <2> QED
        BY <2>1, <2>5, <2>6, <2>7, <2>8 DEF Chain, InLog
<1>6. Decisions'
    <2>1. \A j \in DOMAIN ops : Lasting(ops'[j].data)
        BY <1>1 DEF Shared, Cutting, Late, Decisions, Lasting, TermActions
    <2>2. (\A j \in Pending : Fits(ops[j].data))'
        BY <1>1 DEF Shared, Cutting, Late, Decisions, Fits, Lasting, Pending
    <2> QED
        BY <1>1, <1>2, <2>1, <2>2 DEF Shared, Cutting, Late, Decisions
<1>7. Drained'
    <2>1. \A j \in Pending : ops'[j].data.action = ops[j].data.action
        BY <1>1 DEF Cutting, Late, Pending
    <2> QED
        BY <1>2, <2>1 DEF Shared, Cutting, Drained, InLog
<1>8. Closures'
    BY <1>1, LoggedAreOperations
    DEF Shared, Cutting, Late, Decisions, Lasting, Closures, ArmedNeverClosed
<1>9. PurgeIsDue'
    BY DEF Shared, Cutting, PurgeIsDue, PurgeNeverEarly, GoneOwesNothing, Unresolved
<1> QED
    BY <1>3, <1>4, <1>5, <1>6, <1>7, <1>8, <1>9 DEF Shared

LEMMA RejectingKeeps == ASSUME Shared, NEW i, NEW o, Rejecting(i, o) PROVE Shared'
<1>1. /\ OpsRows' /\ DOMAIN ops' = DOMAIN ops /\ i \in DOMAIN ops /\ ops[i].status = "pending"
      /\ ops'[i] = o /\ o.expected = ops[i].expected
      /\ \A j \in DOMAIN ops : j # i => ops'[j] = ops[j]
    BY Rewritten DEF Shared, Rows, Rejecting
<1>2. Pending' = Pending \ {i}
    BY <1>1 DEF Rejecting, Pending
<1>3. Rows'
    BY <1>1 DEF Shared, Rows, Rejecting, OrgRow, HoldRows, RequestRows
<1>4. OneDecision' /\ Rejections'
    <2>1. OneDecision'
        BY <1>1, <1>2 DEF Shared, Rejecting, OneDecision, Pending
    <2>2. Rejections'
        BY <1>1 DEF Shared, Rejecting, Late, Rejections
    <2> QED
        BY <2>1, <2>2
<1>5. \A n \in 1..Len(log) : log[n] # i /\ ops'[log[n]] = ops[log[n]]
    BY <1>1, LoggedAreOperations DEF Shared, Rejecting, Late, Chain
<1>6. Chain'
    BY <1>1, <1>5, LoggedAreOperations DEF Shared, Rejecting, Chain, InLog
<1>7. HistoryAhead'
    BY <1>2, <1>5, LoggedAreOperations DEF Shared, Rows, OrgRow, Rejecting, HistoryAhead
<1>8. Decisions'
    <2>1. \A j \in DOMAIN ops : Lasting(ops'[j].data)
        BY <1>1 DEF Shared, Rejecting, Decisions
    <2>2. (\A j \in Pending : Fits(ops[j].data))'
        BY <1>1, <1>2 DEF Shared, Rejecting, Decisions, Fits, Pending
    <2> QED
        BY <1>1, <2>1, <2>2 DEF Shared, Rejecting, Decisions
<1>9. Drained'
    <2>1. \A j \in Pending' : ops'[j] = ops[j] /\ j \in Pending
        BY <1>1, <1>2 DEF Pending
    <2> QED
        BY <2>1 DEF Shared, Rejecting, Drained, InLog
<1>10. Closures'
    BY <1>1, <1>5 DEF Shared, Rejecting, Closures, ArmedNeverClosed
<1>11. PurgeIsDue'
    BY DEF Shared, Rejecting, PurgeIsDue, PurgeNeverEarly, GoneOwesNothing, Unresolved
<1> QED
    BY <1>3, <1>4, <1>6, <1>7, <1>8, <1>9, <1>10, <1>11 DEF Shared

LEMMA ProjectingKeeps == ASSUME Shared, NEW i, NEW o, Projecting(i, o) PROVE Shared'
<1>1. /\ OpsRows' /\ DOMAIN ops' = DOMAIN ops /\ i \in DOMAIN ops /\ ops[i].status = "pending"
      /\ ops'[i] = o /\ o.expected = ops[i].expected
      /\ \A j \in DOMAIN ops : j # i => ops'[j] = ops[j]
    BY Rewritten DEF Shared, Rows, Projecting, Turning
<1>2. i \in Pending /\ Pending' = {}
    BY <1>1 DEF Shared, OneDecision, Projecting, Turning, Pending
<1>3. Rows'
    <2>1. period' \in Nat /\ period' > 0
        BY <1>1 DEF Shared, Rows, Projecting, Turning, OpsRows, IsOp, IsData, Decisions, Lasting
    <2> QED
        BY <1>1, <2>1 DEF Shared, Rows, Projecting, Turning
<1>4. OneDecision' /\ Rejections'
    BY <1>1, <1>2 DEF Shared, Projecting, Turning, OneDecision, Rejections
<1>5. /\ Len(log) = org.seq + 1 /\ log[Len(log)] = i /\ org.seq \in Nat
      /\ \A n \in 1..Len(log) : n <= org.seq => log[n] # i
    <2>1. PICK n \in 1..Len(log) : log[n] = i
        BY DEF Projecting, Turning, InLog
    <2>2. Len(log) \in Nat /\ org.seq \in Nat /\ ~(n <= org.seq)
        BY <1>1, <2>1, LoggedAreOperations DEF Shared, Rows, OrgRow, Chain
    <2>3. Len(log) = org.seq + 1 /\ log[Len(log)] \in Pending
        BY <2>2 DEF Shared, HistoryAhead
    <2> QED
        BY <1>1, <1>2, <2>2, <2>3 DEF Shared, OneDecision, Chain
<1>6. Chain'
    <2>1. log' = log /\ org'.seq = Len(log) /\ \A j : InLog(j)' <=> InLog(j)
        BY <1>5 DEF Projecting, Turning, InLog
    <2>2. \A n \in 1..Len(log) : log[n] \in DOMAIN ops /\ Len(log) \in Nat
        BY LoggedAreOperations DEF Shared
    <2>3. \A n \in 1..Len(log) :
              /\ ops'[log[n]].expected = n - 1
              /\ ops'[log[n]].data = ops[log[n]].data
        BY <1>1, <2>2 DEF Shared, Projecting, Turning, Chain
    <2>4. \A n \in 1..Len(log) : ops'[log[n]].status = "applied"
        BY <1>1, <1>5, <2>2 DEF Shared, Projecting, Turning, Chain
    <2>5. \A j \in DOMAIN ops' : ops'[j].status = "applied" => InLog(j)
        BY <1>1 DEF Shared, Projecting, Turning, Chain
    <2> QED
        BY <2>1, <2>3, <2>4, <2>5 DEF Shared, Chain
<1>7. HistoryAhead'
    BY <1>5 DEF Shared, Projecting, Turning, HistoryAhead
<1>8. Decisions'
    BY <1>1, <1>2 DEF Shared, Projecting, Turning, Decisions
<1>9. Drained'
    BY <1>1, <1>2, <1>5 DEF Shared, Projecting, Turning, Drained, Decisions, Fits
<1>10. Closures'
    <2>1. Fits(ops[i].data) /\ ArmedNeverClosed /\ armed' = armed /\ log' = log
        BY <1>2 DEF Shared, Decisions, Projecting, Turning, Closures
    <2>2. ArmedNeverClosed'
        BY <2>1 DEF Projecting, Turning, ArmedNeverClosed, Fits
    <2>3. \A n \in 1..Len(log) : ops'[log[n]].data = ops[log[n]].data
        BY <1>1, LoggedAreOperations DEF Shared, Projecting, Turning
    <2>4. \A n \in 1..Len(log) : n <= org'.seq /\ ops[log[n]].data.to = "closed" =>
              /\ ops[log[n]].data.held \in DOMAIN requests
              /\ requests'[ops[log[n]].data.held].status = "closed"
        <3> SUFFICES ASSUME NEW n \in 1..Len(log), n <= org'.seq, ops[log[n]].data.to = "closed"
                     PROVE  /\ ops[log[n]].data.held \in DOMAIN requests
                            /\ requests'[ops[log[n]].data.held].status = "closed"
            OBVIOUS
        <3>1. CASE n <= org.seq
            BY <3>1 DEF Shared, Closures, Projecting, Turning
        <3>2. CASE n = org.seq + 1
            BY <1>5, <2>1, <3>2 DEF Projecting, Turning, Fits
        <3> QED
            BY <1>5, <3>1, <3>2 DEF Projecting, Turning
    <2>5. \A r \in DOMAIN requests' : r \in DOMAIN ops' /\ ops'[r].status = "applied"
        BY <1>1 DEF Shared, Closures, Projecting, Turning
    <2> QED
        BY <2>1, <2>2, <2>3, <2>4, <2>5 DEF Shared, Closures, Projecting, Turning
<1>11. PurgeIsDue'
    <2>1. PurgeNeverEarly'
        BY <1>2 DEF Shared, Projecting, Turning, PurgeIsDue, PurgeNeverEarly, Decisions, Fits
    <2>2. GoneOwesNothing'
        BY DEF Projecting, Turning, HoldRows, GoneOwesNothing, Blocked
    <2> QED
        BY <2>1, <2>2 DEF PurgeIsDue
<1> QED
    BY <1>3, <1>4, <1>6, <1>7, <1>8, <1>9, <1>10, <1>11 DEF Shared

\* Whatever a step does, the shared part of the invariant holds after it.
LEMMA EffectKeeps == ASSUME Shared, Effect PROVE Shared'
BY CalmKeeps, CallingKeeps, StagingKeeps, CuttingKeeps, RejectingKeeps, ProjectingKeeps,
   AppendingKeeps, ReceiptingKeeps, WorkingKeeps
DEF Effect

-----------------------------------------------------------------------------
(* What the processes know survives the steps of the others. *)

LEMMA KnowledgeLasts == ASSUME Shared, Effect, NEW x, Knows(x) PROVE Knows(x)'
<1>1. CASE Calm
    BY <1>1 DEF Calm, Kept, Knows, InLog, Pending, Verified, Proposed
<1>2. CASE Calling
    BY <1>2 DEF Calling, Kept, Access, Knows, InLog, Pending, Verified, Proposed
<1>3. CASE Working
    BY <1>3 DEF Working, Knows, InLog, Pending, Verified, Proposed
<1>4. CASE Receipting
    BY <1>4 DEF Receipting, Knows, InLog, Pending, Verified, Proposed
<1>5. ASSUME NEW i, NEW d, Staging(i, d) PROVE Knows(x)'
    <2>1. /\ DOMAIN ops' = DOMAIN ops \cup {i} /\ \A j \in DOMAIN ops : ops'[j] = ops[j]
          /\ UNCHANGED <<log, receipts, call, requests>>
        BY <1>5 DEF Staging, With
    <2>2. \A j : InLog(j)' <=> InLog(j)
        BY <2>1 DEF InLog
    <2>3. \A j \in DOMAIN ops : j \in Pending' => j \in Pending
        BY <2>1 DEF Pending
    <2> QED
        BY <2>1, <2>2, <2>3 DEF Knows, Verified, Proposed, Driving, Decided
<1>6. ASSUME NEW i, Appending(i) PROVE Knows(x)'
    <2>1. /\ Len(log) \in Nat /\ Len(log') = Len(log) + 1
          /\ \A n \in 1..Len(log) : log'[n] = log[n]
        BY <1>6, Appended DEF Shared, Rows, Appending, Pending
    <2>2. \A j : InLog(j) => InLog(j)'
        BY <2>1 DEF InLog
    <2>3. x.pc = "head" => x.seen <= Len(log') /\ x.seen # Len(log')
        <3>1. x.pc = "head" => x.seen = ops[x.op].expected /\ ops[x.op].expected \in Nat
            BY DEF Knows, Driving, Decided, Shared, Rows, OpsRows, IsOp
        <3> QED
            BY <2>1, <3>1 DEF Knows
    <2> QED
        BY <1>6, <2>2, <2>3 DEF Appending, Knows, Pending, Proposed
<1>7. ASSUME NEW i, NEW o, Cutting(i, o) PROVE Knows(x)'
    <2>1. /\ DOMAIN ops' = DOMAIN ops /\ i \in DOMAIN ops /\ ops[i].status = "pending"
          /\ ops'[i] = o /\ o.expected = ops[i].expected
          /\ \A j \in DOMAIN ops : j # i => ops'[j] = ops[j]
        BY <1>7, Rewritten DEF Shared, Rows, Cutting
    <2>2. \A j \in DOMAIN ops : /\ ops'[j].expected = ops[j].expected
                                /\ ops'[j].status = ops[j].status
                                /\ ops'[j].data.action = ops[j].data.action
                                /\ ops[j].data.eligible > 0 => ops'[j].data.eligible > 0
        BY <1>7, <2>1 DEF Cutting, Late
    <2>3. UNCHANGED <<log, receipts, call, requests>> /\ \A j : InLog(j)' <=> InLog(j)
        BY <1>7 DEF Cutting, InLog
    <2> QED
        BY <2>1, <2>2, <2>3 DEF Knows, Verified, Proposed, Driving, Decided, Pending
<1>8. ASSUME NEW i, NEW o, Rejecting(i, o) PROVE Knows(x)'
    <2>1. /\ DOMAIN ops' = DOMAIN ops /\ i \in DOMAIN ops /\ ops[i].status = "pending"
          /\ ops'[i] = o /\ o.expected = ops[i].expected
          /\ \A j \in DOMAIN ops : j # i => ops'[j] = ops[j]
        BY <1>8, Rewritten DEF Shared, Rows, Rejecting
    <2>2. x.pc \in Decided => x.op # i
        BY <1>8 DEF Rejecting, Late, Knows
    <2>3. \A j \in DOMAIN ops : /\ ops'[j].expected = ops[j].expected
                                /\ ops'[j].data = ops[j].data
                                /\ j # i => ops'[j].status = ops[j].status
                                /\ ops'[j].status = "pending" => ops[j].status = "pending"
        BY <1>8, <2>1 DEF Rejecting
    <2>4. UNCHANGED <<log, receipts, call, requests>> /\ \A j : InLog(j)' <=> InLog(j)
        BY <1>8 DEF Rejecting, InLog
    <2> QED
        BY <2>1, <2>2, <2>3, <2>4 DEF Knows, Verified, Proposed, Driving, Decided, Pending
<1>9. ASSUME NEW i, NEW o, Projecting(i, o) PROVE Knows(x)'
    <2>1. /\ DOMAIN ops' = DOMAIN ops /\ i \in DOMAIN ops /\ ops[i].status = "pending"
          /\ ops'[i] = o /\ o.expected = ops[i].expected
          /\ \A j \in DOMAIN ops : j # i => ops'[j] = ops[j]
        BY <1>9, Rewritten DEF Shared, Rows, Projecting, Turning
    <2>2. \A j \in DOMAIN ops : /\ ops'[j].expected = ops[j].expected
                                /\ ops'[j].data = ops[j].data
                                /\ ops[j].status # "rejected" => ops'[j].status # "rejected"
                                /\ ops'[j].status = "pending" => ops[j].status = "pending"
        BY <1>9, <2>1 DEF Projecting, Turning
    <2>3. /\ UNCHANGED <<log, receipts, call>> /\ \A j : InLog(j)' <=> InLog(j)
          /\ DOMAIN requests \subseteq DOMAIN requests'
        BY <1>9 DEF Projecting, Turning, InLog
    <2> QED
        BY <2>1, <2>2, <2>3 DEF Knows, Verified, Proposed, Driving, Decided, Pending
<1> QED
    BY <1>1, <1>2, <1>3, <1>4, <1>5, <1>6, <1>7, <1>8, <1>9 DEF Effect

-----------------------------------------------------------------------------
(* Where a process goes. *)

Landed(p, x) == IsProc(x) /\ proc' = [proc EXCEPT ![p] = x]

Resting == {"idle", "found", "inventory", "next", "execute", "progress", "failing"}

LEMMA Constants == /\ Sweep \in Processes /\ Purger \in Processes /\ Sweep # Purger
                   /\ \A p \in Handlers : p \in Processes /\ p # Purger /\ p # Sweep
BY LifecycleAssumption DEF LifecycleAssumption, Processes

LEMMA BlankData == IsData(Blank)
BY DEF IsData, DataFields, Blank

LEMMA IdleProc == IsProc(Idle) /\ Idle.pc = "idle"
BY BlankData DEF IsProc, ProcFields, Idle

\* A step of process p keeps the invariant when p knows what it should after it.
LEMMA Lands ==
    ASSUME IInv, Effect, NEW p \in Processes, NEW x, Landed(p, x), Knows(x)',
           p = Purger /\ x.pc \in {"prepare"} \cup Driving => x.data.action \in PurgeActions
    PROVE  IInv'
<1>1. /\ ProcRows' /\ proc'[p] = x
      /\ \A q \in Processes : q # p => proc'[q] = proc[q]
    BY DEF IInv, Processing, ProcRows, Landed
<1>2. \A q \in Processes : Knows(proc[q])'
    <2> SUFFICES ASSUME NEW q \in Processes PROVE Knows(proc[q])'
        OBVIOUS
    <2>1. PICK y : y = proc[q]
        OBVIOUS
    <2>2. Knows(y)
        BY <2>1 DEF IInv, Processing
    <2>3. Knows(y)'
        BY <2>2, KnowledgeLasts DEF IInv
    <2>4. CASE q # p
        <3>1. proc'[q] = y
            BY <1>1, <2>1, <2>4
        <3> QED
            BY <2>3, <3>1 DEF Knows, Proposed
    <2>5. CASE q = p
        BY <1>1, <2>5 DEF Knows, Proposed
    <2> QED
        BY <2>4, <2>5
<1>3. Purging'
    BY <1>1, Constants DEF IInv, Processing, Purging
<1> QED
    BY <1>1, <1>2, <1>3, EffectKeeps DEF IInv, Processing

LEMMA Rests ==
    ASSUME IInv, Effect, NEW p \in Processes, NEW x, Landed(p, x), x.pc \in Resting
    PROVE  IInv'
<1>1. Knows(x)' /\ x.pc \notin {"prepare"} \cup Driving
    BY DEF Knows, Driving, Decided, Resting
<1> QED
    BY <1>1, Lands

LEMMA Stands == ASSUME IInv, Effect, UNCHANGED proc PROVE IInv'
<1>1. ASSUME NEW q \in Processes PROVE Knows(proc[q])'
    <2>1. PICK y : y = proc[q]
        OBVIOUS
    <2>2. Knows(y)'
        BY <2>1, KnowledgeLasts DEF IInv, Processing
    <2>3. proc'[q] = y
        BY <2>1
    <2> QED
        BY <2>2, <2>3 DEF Knows, Proposed
<1> QED
    BY <1>1, EffectKeeps DEF IInv, Processing, ProcRows, Purging

LEMMA Going ==
    ASSUME ProcRows, NEW p \in Processes, NEW pc, Goto(p, pc)
    PROVE  \E x : /\ Landed(p, x) /\ x.pc = pc /\ x.op = proc[p].op /\ x.data = proc[p].data
                  /\ x.seen = proc[p].seen
<1> DEFINE x == [proc[p] EXCEPT !.pc = pc]
<1>1. /\ IsProc(x) /\ x.pc = pc /\ x.op = proc[p].op /\ x.data = proc[p].data
      /\ x.seen = proc[p].seen
    BY DEF ProcRows, IsProc, ProcFields
<1>2. proc' = [proc EXCEPT ![p] = x]
    BY DEF Goto, ProcRows
<1> QED
    BY <1>1, <1>2 DEF Landed

LEMMA Finishing ==
    ASSUME NEW p \in Processes, Done(p)
    PROVE  \E x : Landed(p, x) /\ x.pc \in Resting
BY IdleProc DEF Done, Landed, Resting

LEMMA Raising ==
    ASSUME ProcRows, NEW p \in Processes, Raise(p)
    PROVE  \E x : Landed(p, x) /\ x.pc \in Resting
<1>1. CASE p = Purger /\ proc[p].data.action # "claim"
    <2>1. Goto(p, "failing")
        BY <1>1 DEF Raise, Goto
    <2> QED
        BY <2>1, Going DEF Resting
<1>2. CASE ~(p = Purger /\ proc[p].data.action # "claim")
    BY <1>2, Finishing DEF Raise, Done
<1> QED
    BY <1>1, <1>2

LEMMA Following ==
    ASSUME Processing, NEW p \in Processes, At(p, "apply"), After(p)
    PROVE  \E x : Landed(p, x) /\ x.pc \in Resting
<1> DEFINE a == proc[p].data.action
<1>1. CASE p # Purger \/ a = "complete"
    BY <1>1, Finishing DEF After
<1>2. CASE p = Purger /\ a = "claim"
    BY <1>2, Going DEF After, Processing, Resting
<1>3. CASE p = Purger /\ a = "authorize_destructive_step"
    BY <1>3, Going DEF After, Processing, Resting
<1>4. CASE p = Purger /\ a = "complete_destructive_step"
    BY <1>4, Going DEF After, Processing, Resting
<1>5. p = Purger => a \in PurgeActions
    BY DEF Processing, Purging, At, Driving, Decided
<1> QED
    BY <1>1, <1>2, <1>3, <1>4, <1>5 DEF PurgeActions

\* A step that leaves the shared state alone.
LEMMA CalmRest ==
    ASSUME IInv, Calm, NEW p \in Processes, Done(p) \/ Raise(p) \/ (At(p, "apply") /\ After(p))
                                            \/ \E pc \in Resting : Goto(p, pc)
    PROVE  IInv'
<1>1. \E x : Landed(p, x) /\ x.pc \in Resting
    BY Finishing, Raising, Following, Going DEF IInv, Processing
<1> QED
    BY <1>1, Rests DEF Effect

-----------------------------------------------------------------------------
(* The clock, calls, and the workers of subject requests. *)

LEMMA TickKeeps == ASSUME IInv, Tick PROVE IInv'
<1>1. Calm
    BY DEF IInv, Shared, Rows, Tick, Calm, Kept, orgVars, history
<1> QED
    BY <1>1, Stands DEF Effect, Tick

LEMMA StartCallKeeps == ASSUME IInv, StartCall PROVE IInv'
BY Stands DEF Effect, StartCall, Calling, Kept, orgVars, history

LEMMA EndCallKeeps == ASSUME IInv, EndCall PROVE IInv'
<1>1. Calm
    BY DEF IInv, Shared, Rows, EndCall, Calm, Kept, orgVars, history
<1> QED
    BY <1>1, Stands DEF Effect, EndCall

LEMMA RunRequestKeeps == ASSUME IInv, NEW r \in DOMAIN requests, RunRequest(r) PROVE IInv'
<1>1. requests[r].status = "pending" /\ Pending = {} /\ UNCHANGED proc
    BY DEF RunRequest
<1>2. PICK st : /\ st \in {"executed", "ready"} /\ requests[r].kind = "erasure" => st = "executed"
                /\ requests' = [requests EXCEPT ![r].queued = FALSE, ![r].status = st]
    BY <1>1 DEF RunRequest, IInv, Shared, Rows, RequestRows, IsRequest, RequestFields
<1>3. /\ requests' = [q \in DOMAIN requests |-> requests'[q]] /\ DOMAIN requests' = DOMAIN requests
      /\ requests'[r].status = st /\ requests'[r].kind = requests[r].kind /\ IsRequest(requests'[r])
      /\ \A q \in DOMAIN requests : q # r => requests'[q] = requests[q]
    <2> DEFINE f == requests
               g == requests'
    <2>1. f = [q \in DOMAIN f |-> f[q]] /\ (\A q \in DOMAIN f : IsRequest(f[q])) /\ r \in DOMAIN f
        BY DEF IInv, Shared, Rows, RequestRows
    <2>2. g = [f EXCEPT ![r].queued = FALSE, ![r].status = st]
        BY <1>2
    <2>3. PICK row : row = [f[r] EXCEPT !.queued = FALSE, !.status = st]
        OBVIOUS
    <2> HIDE DEF f, g
    <2>4. IsRequest(row) /\ row.kind = f[r].kind /\ row.status = st
        BY <2>1, <2>3 DEF IsRequest, RequestFields
    <2>5. g = [f EXCEPT ![r] = row]
        BY <2>1, <2>2, <2>3
    <2>6. /\ g = [q \in DOMAIN f |-> g[q]] /\ DOMAIN g = DOMAIN f
          /\ g[r].status = st /\ g[r].kind = f[r].kind /\ IsRequest(g[r])
          /\ \A q \in DOMAIN f : q # r => g[q] = f[q]
        BY <2>1, <2>4, <2>5
    <2> QED
        BY <2>6 DEF f, g
<1>4. Working
    <2>1. RequestRows'
        BY <1>3 DEF IInv, Shared, Rows, RequestRows
    <2>2. \A q \in DOMAIN requests : Unresolved(q)' => Unresolved(q)
        BY <1>1, <1>2, <1>3 DEF Unresolved
    <2> QED
        BY <1>1, <1>2, <1>3, <2>1, <2>2 DEF RunRequest, Working, history
<1> QED
    BY <1>1, <1>4, Stands DEF Effect

LEMMA ArmThenFailKeeps == ASSUME IInv, NEW r \in DOMAIN requests, ArmThenFail(r) PROVE IInv'
<1>1. Working
    BY DEF IInv, Shared, Rows, RequestRows, ArmThenFail, Working, orgVars, history, Unresolved
<1> QED
    BY <1>1, Stands DEF Effect, ArmThenFail

LEMMA ExhaustRequestKeeps == ASSUME IInv, NEW r \in DOMAIN requests, ExhaustRequest(r) PROVE IInv'
<1>1. /\ requests' = [q \in DOMAIN requests |-> requests'[q]] /\ DOMAIN requests' = DOMAIN requests
      /\ requests'[r].status = "failed" /\ requests'[r].kind = requests[r].kind
      /\ IsRequest(requests'[r])
      /\ \A q \in DOMAIN requests : q # r => requests'[q] = requests[q]
    <2> DEFINE f == requests
               g == requests'
    <2>1. f = [q \in DOMAIN f |-> f[q]] /\ (\A q \in DOMAIN f : IsRequest(f[q])) /\ r \in DOMAIN f
        BY DEF IInv, Shared, Rows, RequestRows
    <2>2. g = [f EXCEPT ![r].queued = FALSE, ![r].status = "failed"]
        BY DEF ExhaustRequest
    <2>3. PICK row : row = [f[r] EXCEPT !.queued = FALSE, !.status = "failed"]
        OBVIOUS
    <2> HIDE DEF f, g
    <2>4. IsRequest(row) /\ row.kind = f[r].kind /\ row.status = "failed"
        BY <2>1, <2>3 DEF IsRequest, RequestFields
    <2>5. g = [f EXCEPT ![r] = row]
        BY <2>1, <2>2, <2>3
    <2>6. /\ g = [q \in DOMAIN f |-> g[q]] /\ DOMAIN g = DOMAIN f
          /\ g[r].status = "failed" /\ g[r].kind = f[r].kind /\ IsRequest(g[r])
          /\ \A q \in DOMAIN f : q # r => g[q] = f[q]
        BY <2>1, <2>4, <2>5
    <2> QED
        BY <2>6 DEF f, g
<1>2. Working
    <2>1. RequestRows'
        BY <1>1 DEF IInv, Shared, Rows, RequestRows
    <2>2. \A q \in DOMAIN requests : Unresolved(q)' => Unresolved(q)
        BY <1>1 DEF ExhaustRequest, Unresolved
    <2> QED
        BY <1>1, <2>1, <2>2 DEF ExhaustRequest, Working, history
<1> QED
    BY <1>2, Stands DEF Effect, ExhaustRequest

LEMMA DropRequestKeeps == ASSUME IInv, NEW r \in DOMAIN requests, DropRequest(r) PROVE IInv'
<1>1. PICK row : row = [requests[r] EXCEPT !.queued = FALSE]
    OBVIOUS
<1>2. /\ row.status = requests[r].status /\ row.kind = requests[r].kind /\ IsRequest(row)
      /\ requests' = [requests EXCEPT ![r] = row]
    BY <1>1, ZenonT(30) DEF DropRequest, IInv, Shared, Rows, RequestRows, IsRequest, RequestFields
<1>3. Working
    <2>1. RequestRows' /\ DOMAIN requests' = DOMAIN requests
        BY <1>2 DEF IInv, Shared, Rows, RequestRows
    <2>2. \A q \in DOMAIN requests : /\ requests'[q].status = requests[q].status
                                     /\ requests'[q].kind = requests[q].kind
        BY <1>2
    <2> QED
        BY <2>1, <2>2 DEF DropRequest, Working, Unresolved, history
<1> QED
    BY <1>3, Stands DEF Effect, DropRequest

-----------------------------------------------------------------------------
(* Entry points. *)

Renewal(end, q) == [Blank EXCEPT !.action = "renew_term", !.ends = end, !.period = q]
StateChange(r, s) ==
    [Blank EXCEPT !.action = "set_subject_request_state", !.held = r, !.to = s]
States == {"pending", "awaiting_input", "delivered", "closed"}

LEMMA ProposedByTwo ==
    /\ TermCommands = {Renewal(end, q) : end \in Ends, q \in Periods \cup {0}}
    /\ StateCommands = {StateChange(r, s) : r \in DOMAIN requests, s \in States}
<1>1. TermCommands = {Renewal(end, q) : end \in Ends, q \in Periods \cup {0}}
    BY DEF TermCommands, Renewal
<1>2. StateCommands = {StateChange(r, s) : r \in DOMAIN requests, s \in States}
    BY DEF StateCommands, StateChange, States
<1> QED
    BY <1>1, <1>2

LEMMA ProposalsFit == ASSUME IInv, NEW d \in Proposals PROVE IsData(d) /\ Proposed(d)
<1>1. CASE d \in TermCommands
    <2>1. PICK end \in Ends, q \in Periods \cup {0} : d = Renewal(end, q)
        BY <1>1, ProposedByTwo
    <2>2. end \in Nat /\ q \in Nat
        BY LifecycleAssumption DEF LifecycleAssumption
    <2> QED
        BY <2>1, <2>2 DEF Renewal, IsData, DataFields, Proposed, Blank, TermActions
<1>2. CASE d \in StartCommands \cup CancelCommands \cup DeadlineCommands
    BY <1>2 DEF IsData, DataFields, Proposed, Blank, StartCommands, CancelCommands,
                DeadlineCommands, TermActions
<1>3. CASE d \in PolicyCommands
    <2>1. PICK q \in Periods : d = [Blank EXCEPT !.action = "policy_revision", !.period = q]
        BY <1>3 DEF PolicyCommands
    <2>2. q \in Nat /\ q > 0
        BY LifecycleAssumption DEF LifecycleAssumption
    <2> QED
        BY <2>1, <2>2 DEF IsData, DataFields, Proposed, Blank, TermActions
<1>4. CASE d \in RestrictionCommands
    <2>1. \/ d = [Blank EXCEPT !.action = "create_restriction"]
          \/ \E r \in DOMAIN holds : d = [Blank EXCEPT !.action = "release_restriction", !.held = r]
        BY <1>4 DEF RestrictionCommands
    <2>2. CASE d = [Blank EXCEPT !.action = "create_restriction"]
        BY <2>2 DEF IsData, DataFields, Proposed, Blank, TermActions
    <2>3. ASSUME NEW r, d = [Blank EXCEPT !.action = "release_restriction", !.held = r]
          PROVE  IsData(d) /\ Proposed(d)
        BY <2>3 DEF IsData, DataFields, Proposed, Blank, TermActions
    <2> QED
        BY <2>1, <2>2, <2>3
<1>5. CASE d \in SubjectCommands
    <2>1. PICK k \in Subjects : d = [Blank EXCEPT !.action = "create_restriction", !.kind = k]
        BY <1>5 DEF SubjectCommands
    <2> QED
        BY <2>1 DEF IsData, DataFields, Proposed, Blank, TermActions
<1>6. CASE d \in StateCommands
    <2>1. PICK r \in DOMAIN requests, to \in States : d = StateChange(r, to)
        BY <1>6, ProposedByTwo
    <2> QED
        BY <2>1 DEF StateChange, States, IsData, DataFields, Proposed, Blank, TermActions
<1> QED
    BY <1>1, <1>2, <1>3, <1>4, <1>5, <1>6 DEF Proposals

LEMMA SubmitKeeps == ASSUME IInv, NEW p \in Handlers, NEW c, Submit(p, c) PROVE IInv'
<1>1. PICK d : /\ d \in IF c \in DOMAIN ops THEN {ops[c].data}
                        ELSE {y \in Proposals : y.action \in Kinds}
               /\ proc' = [proc EXCEPT ![p] = [Idle EXCEPT !.pc = "prepare", !.op = c, !.seen = Len(log),
                                                           !.data = d]]
    BY DEF Submit
<1>2. IsData(d) /\ (c \notin DOMAIN ops => Proposed(d))
    BY <1>1, ProposalsFit DEF IInv, Shared, Rows, OpsRows, IsOp
<1>3. PICK x : x = [Idle EXCEPT !.pc = "prepare", !.op = c, !.seen = Len(log), !.data = d]
    OBVIOUS
<1>4. IsProc(x) /\ x.pc = "prepare" /\ x.op = c /\ x.data = d
    BY <1>2, <1>3, LoggedAreOperations DEF IInv, Shared, IsProc, ProcFields, Idle
<1>5. Calm
    BY DEF IInv, Shared, Rows, Submit, Calm, Kept, orgVars, history
<1>6. Knows(x)'
    BY <1>2, <1>4, <1>5 DEF Knows, Driving, Decided, Calm, Kept, Proposed
<1> QED
    BY <1>1, <1>3, <1>4, <1>5, <1>6, Constants, Lands DEF Effect, Landed

LEMMA FindDueKeeps == ASSUME IInv, FindDue PROVE IInv'
<1>1. PICK d : d = [Blank EXCEPT !.action = "expire_term"]
    OBVIOUS
<1>2. IsData(d) /\ d.action = "expire_term" /\ Proposed(d)
    BY <1>1 DEF IsData, DataFields, Blank, Proposed, TermActions
<1>3. PICK x : x = [Idle EXCEPT !.pc = "due", !.seen = Len(log), !.data = d]
    OBVIOUS
<1>4. IsProc(x) /\ x.pc = "due" /\ x.data = d /\ proc' = [proc EXCEPT ![Sweep] = x]
    BY <1>1, <1>2, <1>3, LoggedAreOperations DEF FindDue, IInv, Shared, IsProc, ProcFields, Idle
<1>5. Calm
    BY DEF IInv, Shared, Rows, FindDue, Calm, Kept, orgVars, history
<1>6. Knows(x)'
    BY <1>2, <1>4, <1>5 DEF Knows, Driving, Decided, Calm, Kept, Proposed
<1> QED
    BY <1>4, <1>5, <1>6, Constants, Lands DEF Effect, Landed

LEMMA FindPendingKeeps == ASSUME IInv, FindPending PROVE IInv'
<1>1. Calm /\ Goto(Sweep, "found")
    BY DEF IInv, Shared, Rows, FindPending, Calm, Kept, orgVars, history
<1> QED
    BY <1>1, Constants, CalmRest DEF Resting

LEMMA RecoverOneKeeps == ASSUME IInv, RecoverOne PROVE IInv'
<1>1. Calm
    <2>1. UNCHANGED <<clock, orgVars, ops, armed, rows, history, call, jobVars, mishaps>>
        BY DEF RecoverOne
    <2> QED
        BY <2>1 DEF IInv, Shared, Rows, Calm, Kept, orgVars, history
<1>2. CASE Done(Sweep)
    BY <1>1, <1>2, Constants, CalmRest
<1>3. CASE ~Done(Sweep)
    <2>1. PICK i \in Pending :
              proc' = [proc EXCEPT ![Sweep] =
                 [Idle EXCEPT !.op = i, !.data = ops[i].data,
                              !.pc = IF InLog(i) THEN "apply"
                                     ELSE IF ops[i].data.action \in {"expire_term", "start"}
                                     THEN "quiesce" ELSE "append"]]
        BY <1>3 DEF RecoverOne
    <2>2. PICK pc : pc = IF InLog(i) THEN "apply"
                         ELSE IF ops[i].data.action \in {"expire_term", "start"}
                         THEN "quiesce" ELSE "append"
        OBVIOUS
    <2>3. PICK x : x = [Idle EXCEPT !.op = i, !.data = ops[i].data, !.pc = pc]
        OBVIOUS
    <2>4. i \in DOMAIN ops /\ ops[i].status = "pending" /\ IsData(ops[i].data)
        BY DEF IInv, Shared, Rows, OpsRows, IsOp, Pending
    <2>5. IsProc(x) /\ x.pc = pc /\ x.op = i
        BY <2>3, <2>4 DEF IsProc, ProcFields, Idle
    <2>6. Knows(x)
        <3>1. CASE InLog(i)
            <4>1. ops[i].data.action = "start" => ops[i].data.eligible > 0
                BY <3>1 DEF IInv, Shared, Chain, InLog
            <4>2. ops[i].data.action \in Service => ~call
                BY <3>1 DEF IInv, Shared, Drained
            <4> QED
                BY <2>2, <2>4, <2>5, <3>1, <4>1, <4>2 DEF Knows, Driving, Decided
        <3>2. CASE ~InLog(i)
            BY <2>2, <2>4, <2>5, <3>2 DEF Knows, Driving, Decided, Service
        <3> QED
            BY <3>1, <3>2
    <2>7. Knows(x)'
        BY <1>1, <2>6, KnowledgeLasts DEF IInv, Effect
    <2> QED
        BY <1>1, <2>1, <2>2, <2>3, <2>5, <2>7, Constants, Lands DEF Effect, Landed
<1> QED
    BY <1>2, <1>3

-----------------------------------------------------------------------------
(* Staging. *)

LEMMA StageKeeps ==
    ASSUME IInv, NEW p \in Processes, NEW A, New(p, A), Free(p), NEW d, Stage(p, d),
           IsData(d), Lasting(d), Fits(d)
    PROVE  IInv'
<1> DEFINE i == proc[p].op
           pc == IF d.action \in Drains THEN "quiesce" ELSE "append"
<1>1. /\ i \notin DOMAIN ops /\ ProcRows /\ org.seq = proc[p].seen /\ Pending = {}
      /\ At(p, "prepare")
    BY DEF New, Free, IInv, Processing
<1>2. PICK x : Landed(p, x) /\ x.pc = pc /\ x.op = i /\ x.data = proc[p].data
    BY <1>1, Going DEF Stage
<1>3. Staging(i, d)
    BY <1>1 DEF Stage, Staging, orgVars, history
<1>4. /\ ops'[i] = Row(d, "pending", org.seq) /\ i \in DOMAIN ops'
      /\ Row(d, "pending", org.seq).data = d
      /\ Row(d, "pending", org.seq).status = "pending"
    <2> DEFINE o == Row(d, "pending", org.seq)
    <2>1. IsOp(o) /\ o.data = d /\ o.status = "pending"
        BY RowFields DEF IInv, Shared, Rows, OrgRow
    <2>2. OpsRows /\ ops' = With(ops, i, o)
        BY <1>3 DEF Staging, IInv, Shared, Rows
    <2> HIDE DEF o
    <2>3. DOMAIN ops' = DOMAIN ops \cup {i} /\ ops'[i] = o
        BY <2>1, <2>2, Joined
    <2> QED
        BY <2>1, <2>3 DEF o
<1>5. Knows(x)'
    BY <1>2, <1>4 DEF Knows, Driving, Decided, Service, Drains
<1>6. p = Purger => x.data.action \in PurgeActions
    BY <1>1, <1>2 DEF IInv, Processing, Purging, At
<1> QED
    BY <1>2, <1>3, <1>5, <1>6, Lands DEF Effect

\* What is known of a proposal when its decision is staged.
LEMMA AtPrepare ==
    ASSUME IInv, NEW p \in Processes, NEW A, New(p, A), Admits(p)
    PROVE  /\ Free(p) /\ IsData(proc[p].data) /\ Proposed(proc[p].data)
           /\ proc[p].data.action \in A
BY DEF IInv, Processing, ProcRows, IsProc, New, At, Knows, Admits

\* The term in force.
LEMMA TermInForce ==
    ASSUME IInv, org.term # None
    PROVE  /\ TermPeriod \in Nat /\ TermPeriod > 0 /\ TermEnds \in Nat
           /\ IsData(ops[org.term].data)
BY DEF IInv, Shared, Rows, OpsRows, IsOp, IsData, Decisions, Lasting, TermPeriod, TermEnds

LEMMA PrepareTermKeeps == ASSUME IInv, NEW p \in Processes, PrepareTerm(p) PROVE IInv'
<1>1. Admits(p) /\ New(p, TermActions)
    BY DEF PrepareTerm
<1>2. PICK e : e = proc[p].data
    OBVIOUS
<1>3. PICK d : d = [e EXCEPT !.action = IF org.term = None THEN "confirm_term" ELSE "renew_term",
                             !.period = IF e.period = 0 THEN period ELSE e.period,
                             !.to = IF e.period = 0 THEN "none" ELSE "revision"]
    OBVIOUS
<1>4. Stage(p, d)
    BY <1>2, <1>3 DEF PrepareTerm
<1>5. IsData(e) /\ Proposed(e) /\ Free(p) /\ e.action \in TermActions
    BY <1>1, <1>2, AtPrepare
<1>6. /\ IsData(d) /\ d.action \in TermActions /\ d.period > 0 /\ d.ends = e.ends
      /\ d.to \in {"none", "revision"}
    <2>1. PICK a, q, t : /\ a = IF org.term = None THEN "confirm_term" ELSE "renew_term"
                         /\ q = IF e.period = 0 THEN period ELSE e.period
                         /\ t = IF e.period = 0 THEN "none" ELSE "revision"
        OBVIOUS
    <2>2. a \in TermActions /\ q \in Nat /\ q > 0 /\ t \in {"none", "revision"}
        BY <1>5, <2>1 DEF IsData, TermActions, IInv, Shared, Rows
    <2>3. d = [e EXCEPT !.action = a, !.period = q, !.to = t]
        BY <1>3, <2>1
    <2> QED
        BY <1>5, <2>2, <2>3 DEF IsData, DataFields
<1>7. Lasting(d) /\ Fits(d)
    BY <1>5, <1>6 DEF Lasting, Fits, Proposed, TermActions
<1> QED
    BY <1>1, <1>4, <1>5, <1>6, <1>7, StageKeeps

LEMMA PrepareStartKeeps == ASSUME IInv, NEW p \in Processes, PrepareStart(p) PROVE IInv'
<1>1. Admits(p) /\ New(p, {"start"})
    BY DEF PrepareStart
<1>2. PICK e : e = proc[p].data
    OBVIOUS
<1>3. PICK d : d = [e EXCEPT !.episode = proc[p].op, !.period = TermPeriod]
    OBVIOUS
<1>4. Stage(p, d)
    BY <1>2, <1>3 DEF PrepareStart
<1>5. IsData(e) /\ Proposed(e) /\ Free(p) /\ e.action = "start"
    BY <1>1, <1>2, AtPrepare
<1>6. TermPeriod \in Nat /\ TermPeriod > 0
    <2>1. MayStart
        BY <1>1, <1>2, <1>5 DEF Admits, TermActions
    <2> QED
        BY <2>1, TermInForce DEF MayStart
<1>7. IsData(d) /\ d.action = "start" /\ d.period > 0 /\ d.to = e.to
    BY <1>3, <1>5, <1>6 DEF IsData, DataFields
<1>8. Lasting(d) /\ Fits(d)
    BY <1>5, <1>7 DEF Lasting, Fits, Proposed, TermActions
<1> QED
    BY <1>1, <1>4, <1>5, <1>7, <1>8, StageKeeps

LEMMA PrepareCancelKeeps == ASSUME IInv, NEW p \in Processes, PrepareCancel(p) PROVE IInv'
<1>1. Admits(p) /\ New(p, {"cancel"})
    BY DEF PrepareCancel
<1>2. PICK e : e = proc[p].data
    OBVIOUS
<1>3. PICK d : d = [e EXCEPT !.episode = org.episode, !.ends = TermEnds]
    OBVIOUS
<1>4. Stage(p, d)
    BY <1>2, <1>3 DEF PrepareCancel
<1>5. IsData(e) /\ Proposed(e) /\ Free(p) /\ e.action = "cancel"
    BY <1>1, <1>2, AtPrepare
<1>6. IsData(d) /\ d.action = "cancel" /\ d.to = e.to
    BY <1>3, <1>5 DEF IsData, DataFields
<1>7. Lasting(d) /\ Fits(d)
    BY <1>5, <1>6 DEF Lasting, Fits, Proposed, TermActions
<1> QED
    BY <1>1, <1>4, <1>5, <1>6, <1>7, StageKeeps

LEMMA PreparePolicyKeeps == ASSUME IInv, NEW p \in Processes, PreparePolicy(p) PROVE IInv'
<1>1. Admits(p) /\ New(p, {"policy_revision"}) /\ Stage(p, proc[p].data)
    BY DEF PreparePolicy
<1>2. PICK d : d = proc[p].data
    OBVIOUS
<1>3. IsData(d) /\ Proposed(d) /\ Free(p) /\ d.action = "policy_revision"
    BY <1>1, <1>2, AtPrepare
<1>4. Lasting(d) /\ Fits(d)
    BY <1>3 DEF Lasting, Fits, Proposed, TermActions
<1> QED
    BY <1>1, <1>2, <1>3, <1>4, StageKeeps

LEMMA PrepareExtensionKeeps == ASSUME IInv, NEW p \in Processes, PrepareExtension(p) PROVE IInv'
<1>1. Admits(p) /\ New(p, {"extend"})
    BY DEF PrepareExtension
<1>2. PICK e : e = proc[p].data
    OBVIOUS
<1>3. PICK d : d = [e EXCEPT !.episode = org.episode, !.eligible = org.eligible + 1]
    OBVIOUS
<1>4. Stage(p, d)
    BY <1>2, <1>3 DEF PrepareExtension
<1>5. IsData(e) /\ Proposed(e) /\ Free(p) /\ e.action = "extend"
    BY <1>1, <1>2, AtPrepare
<1>6. IsData(d) /\ d.action = "extend" /\ d.to = e.to
    <2>0. org.eligible + 1 \in Nat
        BY DEF IInv, Shared, Rows, OrgRow
    <2>1. PICK n \in Nat : n = org.eligible + 1
        BY <2>0
    <2> QED
        BY <1>3, <1>5, <2>1 DEF IsData, DataFields
<1>7. Lasting(d) /\ Fits(d)
    BY <1>5, <1>6 DEF Lasting, Fits, Proposed, TermActions
<1> QED
    BY <1>1, <1>4, <1>5, <1>6, <1>7, StageKeeps

LEMMA PrepareRestrictionKeeps == ASSUME IInv, NEW p \in Processes, PrepareRestriction(p) PROVE IInv'
<1>1. Admits(p) /\ New(p, {"create_restriction"})
    BY DEF PrepareRestriction
<1>2. PICK e : e = proc[p].data
    OBVIOUS
<1>3. PICK d : d = [e EXCEPT !.episode = org.episode, !.held = proc[p].op]
    OBVIOUS
<1>4. Stage(p, d)
    BY <1>2, <1>3 DEF PrepareRestriction
<1>5. IsData(e) /\ Proposed(e) /\ Free(p) /\ e.action = "create_restriction"
    BY <1>1, <1>2, AtPrepare
<1>6. IsData(d) /\ d.action = "create_restriction" /\ d.to = e.to
    BY <1>3, <1>5 DEF IsData, DataFields
<1>7. Lasting(d) /\ Fits(d)
    BY <1>5, <1>6 DEF Lasting, Fits, Proposed, TermActions
<1> QED
    BY <1>1, <1>4, <1>5, <1>6, <1>7, StageKeeps

LEMMA PrepareReleaseKeeps == ASSUME IInv, NEW p \in Processes, PrepareRelease(p) PROVE IInv'
<1>1. Admits(p) /\ New(p, {"release_restriction"}) /\ Stage(p, proc[p].data)
    BY DEF PrepareRelease
<1>2. PICK d : d = proc[p].data
    OBVIOUS
<1>3. IsData(d) /\ Proposed(d) /\ Free(p) /\ d.action = "release_restriction"
    BY <1>1, <1>2, AtPrepare
<1>4. Lasting(d) /\ Fits(d)
    BY <1>3 DEF Lasting, Fits, Proposed, TermActions
<1> QED
    BY <1>1, <1>2, <1>3, <1>4, StageKeeps

LEMMA PrepareStateKeeps == ASSUME IInv, NEW p \in Processes, PrepareState(p) PROVE IInv'
<1>1. Admits(p) /\ New(p, {"set_subject_request_state"})
    BY DEF PrepareState
<1>2. PICK e : e = proc[p].data
    OBVIOUS
<1>3. PICK d : d = [e EXCEPT !.was = requests[e.held].status, !.kind = requests[e.held].kind,
                             !.action = IF e.to \in {"closed", "delivered"}
                                        THEN "release_restriction" ELSE @]
    OBVIOUS
<1>4. Stage(p, d)
    BY <1>2, <1>3 DEF PrepareState
<1>5. IsData(e) /\ Proposed(e) /\ Free(p) /\ e.action = "set_subject_request_state"
    BY <1>1, <1>2, AtPrepare
<1>6. MaySet(e.held, e.to)
    BY <1>1, <1>2, <1>5 DEF Admits, TermActions
<1>7. /\ IsData(d) /\ d.was = requests[e.held].status /\ d.kind = requests[e.held].kind
      /\ d.to = e.to /\ d.held = e.held
      /\ d.action = IF e.to \in {"closed", "delivered"} THEN "release_restriction"
                    ELSE "set_subject_request_state"
    BY <1>3, <1>5 DEF IsData, DataFields
<1>8. d.was # "closed" /\ (d.to = "closed" => d.held \notin armed)
    BY <1>6, <1>7 DEF MaySet
<1>9. d.to = "closed" => d.held \in DOMAIN requests /\ d.kind # "none"
    BY <1>5, <1>7 DEF Proposed, IInv, Shared, Rows, RequestRows, IsRequest
<1>10. Lasting(d) /\ Fits(d)
    BY <1>5, <1>7, <1>8, <1>9 DEF Lasting, Fits, Proposed, TermActions
<1> QED
    BY <1>1, <1>4, <1>5, <1>7, <1>10, StageKeeps

\* The data of the purge's own decisions: a claim's, or the run's episode.
LEMMA PurgeData ==
    ASSUME NEW e, IsData(e), NEW d,
           d = IF e.action = "claim" THEN e ELSE [e EXCEPT !.episode = run.episode]
    PROVE  /\ IsData(d) /\ d.action = e.action /\ d.to = e.to /\ d.held = e.held
           /\ d.period = e.period /\ d.ends = e.ends /\ d.kind = e.kind
           /\ d.episode = IF e.action = "claim" THEN e.episode ELSE run.episode
BY DEF IsData, DataFields

LEMMA PreparePurgeKeeps == ASSUME IInv, NEW p \in Processes, PreparePurge(p) PROVE IInv'
<1>1. Admits(p) /\ New(p, PurgeActions)
    BY DEF PreparePurge, PurgeActions
<1>2. PICK e : e = proc[p].data
    OBVIOUS
<1>3. PICK d : d = IF e.action = "claim" THEN e ELSE [e EXCEPT !.episode = run.episode]
    OBVIOUS
<1>4. Stage(p, d)
    BY <1>2, <1>3 DEF PreparePurge
<1>5. IsData(e) /\ Proposed(e) /\ Free(p) /\ e.action \in PurgeActions
    BY <1>1, <1>2, AtPrepare
<1>6. IsData(d) /\ d.action = e.action /\ d.to = e.to
    BY <1>3, <1>5, PurgeData
<1>7. d.action = "claim" => MayClaim(e.episode)
    BY <1>1, <1>2, <1>6 DEF Admits, TermActions
<1>8. d.action = "complete" => MayFinish
    BY <1>1, <1>2, <1>6 DEF Admits, TermActions
<1>9. Lasting(d)
    BY <1>5, <1>6 DEF Lasting, Proposed, TermActions, PurgeActions
<1>10. Fits(d)
    BY <1>5, <1>6, <1>7, <1>8 DEF Fits, Proposed, PurgeActions, MayClaim, MayFinish, OfRun
<1> QED
    BY <1>1, <1>4, <1>5, <1>6, <1>9, <1>10, StageKeeps

LEMMA PrepareExpiryKeeps == ASSUME IInv, PrepareExpiry PROVE IInv'
<1> DEFINE id == <<"expire", org.term>>
<1>1. At(Sweep, "due") /\ ProcRows
    BY DEF PrepareExpiry, IInv, Processing
<1>2. PICK e : e = proc[Sweep].data
    OBVIOUS
<1>3. e.action = "expire_term" /\ Proposed(e) /\ IsData(e)
    BY <1>1, <1>2, Constants DEF IInv, Processing, ProcRows, IsProc, At, Knows
<1>4. PICK d : d = [e EXCEPT !.episode = id, !.ends = TermEnds, !.eligible = TermEnds + TermPeriod]
    OBVIOUS
<1> DEFINE ok == MayExpire /\ IF id \in DOMAIN ops THEN ops[id].status # "applied" ELSE Free(Sweep)
<1>5. CASE ~ok
    <2>1. Done(Sweep) /\ Calm
        BY <1>5 DEF PrepareExpiry, IInv, Shared, Rows, Calm, Kept, orgVars, history
    <2> QED
        BY <2>1, Constants, CalmRest
<1>6. CASE ok
    <2>0. MayExpire
        BY <1>6
    <2>1. IsData(d) /\ Lasting(d) /\ Fits(d)
        <3>1. TermPeriod \in Nat /\ TermEnds \in Nat
            BY <2>0, TermInForce DEF MayExpire
        <3>2. IsData(d) /\ d.action = "expire_term" /\ d.to = e.to
            <4>1. PICK n \in Nat : n = TermEnds + TermPeriod
                BY <3>1
            <4> QED
                BY <1>3, <1>4, <4>1 DEF IsData, DataFields
        <3> QED
            BY <1>3, <3>2 DEF Lasting, Fits, Proposed, TermActions
    <2>2. PICK x : x = [proc[Sweep] EXCEPT !.pc = "quiesce", !.op = id]
        OBVIOUS
    <2>3. Landed(Sweep, x) /\ x.pc = "quiesce" /\ x.op = id
        <3>1. proc' = [proc EXCEPT ![Sweep].pc = "quiesce", ![Sweep].op = id]
            BY <1>6 DEF PrepareExpiry
        <3>2. IsProc(proc[Sweep])
            BY <1>1, Constants DEF ProcRows
        <3>3. IsProc(x) /\ x.pc = "quiesce" /\ x.op = id
            BY <2>2, <3>2 DEF IsProc, ProcFields
        <3>4. proc' = [proc EXCEPT ![Sweep] = x]
            BY <1>1, <2>2, <3>1, Constants DEF ProcRows
        <3> QED
            BY <3>3, <3>4 DEF Landed
    <2>4. CASE id \in DOMAIN ops
        <3>1. Calm
            BY <1>6, <2>4 DEF PrepareExpiry, IInv, Shared, Rows, Calm, Kept, orgVars, history
        <3>2. Knows(x)'
            BY <2>3, <2>4, <3>1 DEF Knows, Driving, Decided, Calm, Kept
        <3> QED
            BY <2>3, <3>1, <3>2, Constants, Lands DEF Effect
    <2>5. CASE id \notin DOMAIN ops
        <3>1. Staging(id, d)
            <4>1. Free(Sweep) /\ ops' = With(ops, id, Row(d, "pending", proc[Sweep].seen))
                BY <1>2, <1>4, <1>6, <2>5 DEF PrepareExpiry
            <4> QED
                BY <2>1, <2>5, <4>1 DEF PrepareExpiry, Free, Staging, orgVars, history
        <3>2. id \in DOMAIN ops'
            BY <3>1 DEF Staging, With
        <3>3. Knows(x)'
            BY <2>3, <3>2 DEF Knows, Driving, Decided
        <3> QED
            BY <2>3, <3>1, <3>3, Constants, Lands DEF Effect
    <2> QED
        BY <2>4, <2>5
<1> QED
    BY <1>5, <1>6

LEMMA RefuseKeeps == ASSUME IInv, NEW p \in Processes, Refuse(p) PROVE IInv'
<1>1. Calm /\ Raise(p)
    BY DEF IInv, Shared, Rows, Refuse, Calm, Kept, orgVars, history
<1> QED
    BY <1>1, CalmRest

LEMMA RepeatKeeps == ASSUME IInv, NEW p \in Processes, Repeat(p) PROVE IInv'
<1>1. Calm
    BY DEF IInv, Shared, Rows, Repeat, Calm, Kept, orgVars, history
<1>2. PICK o : o = ops[proc[p].op]
    OBVIOUS
<1> DEFINE over == \/ o.status = "rejected"
                   \/ o.status = "applied" /\ o.data.action \in {"start", "expire_term"}
           pc == IF o.status = "applied" /\ o.data.action = "claim" THEN "apply"
                 ELSE IF o.data.action \in Drains THEN "quiesce" ELSE "append"
<1>3. CASE over
    BY <1>1, <1>2, <1>3, CalmRest DEF Repeat
<1>4. CASE ~over
    <2>1. Goto(p, pc) /\ ProcRows /\ proc[p].op \in DOMAIN ops /\ At(p, "prepare")
        BY <1>2, <1>4 DEF Repeat, IInv, Processing
    <2>2. PICK x : Landed(p, x) /\ x.pc = pc /\ x.op = proc[p].op /\ x.data = proc[p].data
        BY <2>1, Going
    <2>3. pc = "apply" => InLog(x.op) /\ x.op \notin Pending
        BY <1>2, <2>1, <2>2 DEF IInv, Shared, Chain, Drains, Pending
    <2>4. pc \in {"apply", "append"} => o.data.action \notin Service /\ o.status # "rejected"
        BY <1>4 DEF Service, Drains
    <2>5. Knows(x)
        BY <1>2, <2>1, <2>2, <2>3, <2>4 DEF Knows, Driving, Decided, Service
    <2>6. Knows(x)'
        BY <1>1, <2>5, KnowledgeLasts DEF IInv, Effect
    <2>7. p = Purger => x.data.action \in PurgeActions
        BY <2>1, <2>2 DEF IInv, Processing, Purging, At
    <2> QED
        BY <1>1, <2>2, <2>6, <2>7, Lands DEF Effect
<1> QED
    BY <1>3, <1>4

LEMMA QuiesceKeeps == ASSUME IInv, NEW p \in Processes, Quiesce(p) PROVE IInv'
<1> DEFINE pc == IF ops[proc[p].op].data.action = "start" THEN "finalize" ELSE "append"
<1>1. Calm /\ ~call' /\ Goto(p, pc) /\ At(p, "quiesce")
    BY DEF IInv, Shared, Rows, Quiesce, Calm, Kept, orgVars, history
<1>2. PICK x : Landed(p, x) /\ x.pc = pc /\ x.op = proc[p].op /\ x.data = proc[p].data
    BY <1>1, Going DEF IInv, Processing
<1>3. x.op \in DOMAIN ops
    BY <1>1, <1>2 DEF IInv, Processing, Knows, At, Driving
<1>4. pc = "append" => ops[x.op].status # "rejected"
    BY <1>2, <1>3 DEF IInv, Shared, Rejections
<1>5. Knows(x)'
    BY <1>1, <1>2, <1>3, <1>4 DEF Knows, Driving, Decided, Service, Calm, Kept
<1>6. p = Purger => x.data.action \in PurgeActions
    BY <1>1, <1>2 DEF IInv, Processing, Purging, At, Driving
<1> QED
    BY <1>1, <1>2, <1>5, <1>6, Lands DEF Effect

LEMMA FinalizeKeeps == ASSUME IInv, NEW p \in Processes, Finalize(p) PROVE IInv'
<1>1. PICK i, o : i = proc[p].op /\ o = ops[i]
    OBVIOUS
<1>2. /\ At(p, "finalize") /\ i \in DOMAIN ops /\ o.data.action = "start" /\ ProcRows /\ IsOp(o)
      /\ i \in Pending => ~call
      /\ OpsRows /\ clock \in Nat
    BY <1>1 DEF Finalize, IInv, Shared, Rows, OpsRows, Processing, At, Knows, Driving, Service
<1>3. UNCHANGED <<clock, orgVars, armed, rows, history, call, jobVars, mishaps>>
    BY DEF Finalize
<1>4. ASSUME o.status = "pending", Goto(p, "append"), Effect,
             i \in DOMAIN ops', ops'[i].status = "pending", ops'[i].data.eligible > 0
      PROVE  IInv'
    <2>1. PICK x : Landed(p, x) /\ x.pc = "append" /\ x.op = i /\ x.data = proc[p].data
        BY <1>1, <1>2, <1>4, Going
    <2>2. Knows(x)'
        BY <1>1, <1>2, <1>3, <1>4, <2>1 DEF Knows, Driving, Decided, Pending
    <2>3. p = Purger => x.data.action \in PurgeActions
        BY <1>2, <2>1 DEF IInv, Processing, Purging, At, Driving
    <2> QED
        BY <1>4, <2>1, <2>2, <2>3, Lands
<1>5. CASE o.status = "pending" /\ o.data.eligible > 0 /\ Goto(p, "append") /\ UNCHANGED ops
    <2>1. Calm
        BY <1>3, <1>5 DEF IInv, Shared, Rows, Calm, Kept, orgVars, history
    <2> QED
        BY <1>1, <1>2, <1>4, <1>5, <2>1 DEF Effect
<1>6. CASE /\ o.status = "pending" /\ o.data.eligible = 0
           /\ ops' = [ops EXCEPT ![i].data.ends = clock,
                                 ![i].data.eligible = clock + o.data.period]
           /\ Goto(p, "append")
    <2>1. PICK n \in Nat : n = clock + o.data.period /\ n > 0
        <3>1. o.data.period \in Nat /\ o.data.period > 0
            BY <1>1, <1>2 DEF IInv, Shared, Decisions, Lasting, IsOp, IsData
        <3>2. clock + o.data.period \in Nat /\ clock + o.data.period > 0
            BY <1>2, <3>1
        <3> QED
            BY <3>2
    <2>2. PICK d : d = [o.data EXCEPT !.ends = clock, !.eligible = n]
        OBVIOUS
    <2>3. /\ IsData(d) /\ d.eligible = n /\ d.action = "start" /\ d.to = o.data.to
          /\ d.period = o.data.period
        BY <1>2, <2>1, <2>2 DEF IsOp, IsData, DataFields
    <2>4. PICK q : q = [o EXCEPT !.data = d]
        OBVIOUS
    <2>5. IsOp(q) /\ q.data = d /\ q.status = "pending" /\ q.expected = o.expected
        BY <1>2, <1>6, <2>3, <2>4 DEF IsOp, OpFields
    <2>6. ops' = [j \in DOMAIN ops |-> IF j = i THEN q ELSE ops[j]]
        <3>1. ops' = [ops EXCEPT ![i].data.ends = clock, ![i].data.eligible = n]
            BY <1>6, <2>1
        <3>2. DOMAIN ops' = DOMAIN ops /\ ops' = [j \in DOMAIN ops |-> ops'[j]]
            BY <1>2, <3>1 DEF OpsRows
        <3>3. \A j \in DOMAIN ops : j # i => ops'[j] = ops[j]
            BY <1>2, <3>1 DEF OpsRows
        <3>4. ops'[i] = [[o EXCEPT !.data = [o.data EXCEPT !.ends = clock]]
                            EXCEPT !.data = [[o.data EXCEPT !.ends = clock] EXCEPT !.eligible = n]]
            BY <1>1, <1>2, <3>1 DEF OpsRows, IsOp, OpFields
        <3>5. ops'[i] = q
            BY <1>2, <2>2, <2>4, <3>4 DEF IsOp, OpFields
        <3> QED
            BY <3>2, <3>3, <3>5
    <2>7. Cutting(i, q)
        BY <1>1, <1>2, <1>3, <1>6, <2>1, <2>3, <2>5, <2>6
        DEF Cutting, Rewrites, Late, Pending, orgVars, history
    <2>8. i \in DOMAIN ops' /\ ops'[i] = q
        BY <1>2, <2>6
    <2> QED
        BY <1>4, <1>6, <2>1, <2>3, <2>5, <2>7, <2>8 DEF Effect
<1>7. CASE /\ o.status = "pending" /\ o.data.eligible = 0
           /\ ops' = [ops EXCEPT ![i].status = "rejected"] /\ Done(p)
    <2>1. PICK q : q = [o EXCEPT !.status = "rejected"]
        OBVIOUS
    <2>2. IsOp(q) /\ q.data = o.data /\ q.status = "rejected" /\ q.expected = o.expected
        BY <1>2, <2>1 DEF IsOp, OpFields
    <2>3. ops' = [j \in DOMAIN ops |-> IF j = i THEN q ELSE ops[j]]
        BY <1>1, <1>2, <1>7, <2>1 DEF OpsRows
    <2>4. Rejecting(i, q)
        BY <1>1, <1>2, <1>3, <1>7, <2>2, <2>3
        DEF Rejecting, Rewrites, Late, Pending, orgVars, history
    <2> QED
        BY <1>7, <2>4, Finishing, Rests DEF Effect
<1>8. CASE Done(p) /\ UNCHANGED ops
    <2>1. Calm
        BY <1>3, <1>8 DEF IInv, Shared, Rows, Calm, Kept, orgVars, history
    <2> QED
        BY <1>8, <2>1, CalmRest
<1> QED
    BY <1>1, <1>5, <1>6, <1>7, <1>8 DEF Finalize

-----------------------------------------------------------------------------
(* Appending. *)

\* An operation that is driven and not yet in the history is the pending one, and
\* the head is where it expects it.
LEMMA BeforeAppend ==
    ASSUME Shared, NEW i \in DOMAIN ops, ops[i].status # "rejected", ~InLog(i)
    PROVE  i \in Pending /\ ops[i].expected = org.seq /\ Len(log) = org.seq /\ org.seq \in Nat
<1>1. i \in Pending
    BY DEF Shared, Chain, Rows, OpsRows, IsOp, Pending
<1>2. Len(log) \in Nat /\ org.seq \in Nat
    BY LoggedAreOperations DEF Shared, Rows, OrgRow
<1>3. Len(log) # org.seq + 1
    <2> SUFFICES ASSUME Len(log) = org.seq + 1 PROVE FALSE
        OBVIOUS
    <2>1. log[Len(log)] = i /\ Len(log) \in 1..Len(log)
        BY <1>1, <1>2 DEF Shared, HistoryAhead, OneDecision
    <2> QED
        BY <2>1 DEF InLog
<1> QED
    BY <1>1, <1>2, <1>3 DEF Shared, HistoryAhead, OneDecision

LEMMA BeginAppendKeeps == ASSUME IInv, NEW p \in Processes, BeginAppend(p) PROVE IInv'
<1>1. PICK i : i = proc[p].op
    OBVIOUS
<1>2. /\ At(p, "append") /\ i \in DOMAIN ops /\ ops[i].status # "rejected" /\ ProcRows
      /\ Knows(proc[p]) /\ IsProc(proc[p]) /\ proc[p].pc = "append"
    BY <1>1 DEF BeginAppend, IInv, Processing, ProcRows, At, Knows, Driving, Decided
<1>3. UNCHANGED <<clock, orgVars, armed, rows, history, call, jobVars, mishaps>>
    BY DEF BeginAppend
<1>4. UNCHANGED ops => Calm
    BY <1>3 DEF IInv, Shared, Rows, Calm, Kept, orgVars, history
<1>5. p = Purger => proc[p].data.action \in PurgeActions
    BY <1>2 DEF IInv, Processing, Purging, Driving, Decided
<1>6. CASE ~Verified
    BY <1>4, <1>6, CalmRest DEF BeginAppend
<1>7. CASE Verified /\ InLog(i)
    <2>1. Calm /\ Goto(p, "apply")
        BY <1>1, <1>4, <1>7 DEF BeginAppend
    <2>2. PICK x : Landed(p, x) /\ x.pc = "apply" /\ x.op = i /\ x.data = proc[p].data
        BY <1>1, <1>2, <2>1, Going
    <2>3. Knows(x)
        BY <1>1, <1>2, <1>7, <2>2 DEF Knows, Driving, Decided
    <2>4. Knows(x)'
        BY <2>1, <2>3, KnowledgeLasts DEF IInv, Effect
    <2> QED
        BY <1>5, <2>1, <2>2, <2>4, Lands DEF Effect
<1>8. CASE Verified /\ ~InLog(i)
    <2>1. i \in Pending /\ ops[i].expected = org.seq /\ Len(log) = org.seq /\ org.seq \in Nat
        BY <1>2, <1>8, BeforeAppend DEF IInv
    <2>2. /\ UNCHANGED ops
          /\ proc' = [proc EXCEPT ![p].pc = "head", ![p].seen = Len(log)]
        BY <1>1, <1>8, <2>1 DEF BeginAppend
    <2>3. PICK x : x = [proc[p] EXCEPT !.pc = "head", !.seen = Len(log)]
        OBVIOUS
    <2>4. /\ IsProc(x) /\ x.pc = "head" /\ x.op = i /\ x.seen = Len(log) /\ x.data = proc[p].data
          /\ proc' = [proc EXCEPT ![p] = x]
        <3>1. IsProc(x) /\ x.pc = "head" /\ x.op = i /\ x.seen = Len(log) /\ x.data = proc[p].data
            BY <1>1, <1>2, <2>1, <2>3 DEF IsProc, ProcFields
        <3>2. proc' = [proc EXCEPT ![p] = x]
            BY <1>2, <2>2, <2>3 DEF ProcRows
        <3> QED
            BY <3>1, <3>2
    <2>5. Knows(x)
        BY <1>1, <1>2, <1>8, <2>1, <2>4 DEF Knows, Driving, Decided
    <2>6. Knows(x)'
        BY <1>4, <2>2, <2>5, KnowledgeLasts DEF IInv, Effect
    <2> QED
        BY <1>4, <1>5, <2>2, <2>4, <2>6, Lands DEF Effect, Landed
<1> QED
    BY <1>6, <1>7, <1>8

LEMMA PutHeadKeeps == ASSUME IInv, NEW p \in Processes, PutHead(p) PROVE IInv'
<1>1. PICK i : i = proc[p].op
    OBVIOUS
<1>2. /\ At(p, "head") /\ i \in DOMAIN ops /\ ops[i].status # "rejected" /\ ProcRows
      /\ proc[p].seen = ops[i].expected /\ (proc[p].seen = Len(log) => Verified)
      /\ Knows(proc[p]) /\ IsProc(proc[p]) /\ proc[p].pc = "head"
    BY <1>1 DEF PutHead, IInv, Processing, ProcRows, At, Knows, Driving, Decided
<1>3. UNCHANGED <<clock, orgVars, ops, armed, rows, receipts, call, jobVars, mishaps>>
    BY DEF PutHead
<1>4. p = Purger => proc[p].data.action \in PurgeActions
    BY <1>2 DEF IInv, Processing, Purging, Driving, Decided
<1>5. CASE Len(log) = proc[p].seen
    <2>1. ~InLog(i)
        <3> SUFFICES ASSUME InLog(i) PROVE FALSE
            OBVIOUS
        <3>1. PICK n \in 1..Len(log) : log[n] = i
            BY DEF InLog
        <3>2. ops[i].expected = n - 1 /\ Len(log) \in Nat
            BY <3>1, LoggedAreOperations DEF IInv, Shared, Chain
        <3> QED
            BY <1>2, <1>5, <3>2
    <2>2. i \in Pending /\ Len(log) = org.seq
        BY <1>2, <2>1, BeforeAppend DEF IInv
    <2>3. Appending(i)
        BY <1>1, <1>2, <1>3, <1>5, <2>1, <2>2
        DEF PutHead, Appending, Knows, Decided, orgVars
    <2>4. PICK x : Landed(p, x) /\ x.pc = "receipt" /\ x.op = i /\ x.data = proc[p].data
        BY <1>1, <1>2, <1>5, Going DEF PutHead
    <2>5. InLog(i)'
        <3>1. Len(log') = Len(log) + 1 /\ log'[Len(log) + 1] = i /\ Len(log) \in Nat
            BY <1>2, <2>3, Appended DEF Appending, IInv, Shared, Rows
        <3> QED
            BY <3>1 DEF InLog
    <2>6. Knows(x)'
        BY <1>1, <1>2, <1>3, <2>4, <2>5 DEF Knows, Driving, Decided, Pending
    <2> QED
        BY <1>4, <2>3, <2>4, <2>6, Lands DEF Effect
<1>6. CASE Len(log) # proc[p].seen
    <2>1. Calm
        BY <1>3, <1>6 DEF PutHead, IInv, Shared, Rows, Calm, Kept, orgVars
    <2>2. CASE Verified /\ InLog(i)
        <3>1. PICK x : Landed(p, x) /\ x.pc = "apply" /\ x.op = i /\ x.data = proc[p].data
            BY <1>1, <1>2, <1>6, <2>2, Going DEF PutHead
        <3>2. Knows(x)
            BY <1>1, <1>2, <2>2, <3>1 DEF Knows, Driving, Decided
        <3>3. Knows(x)'
            BY <2>1, <3>2, KnowledgeLasts DEF IInv, Effect
        <3> QED
            BY <1>4, <2>1, <3>1, <3>3, Lands DEF Effect
    <2>3. CASE ~(Verified /\ InLog(i))
        BY <1>1, <1>6, <2>1, <2>3, CalmRest DEF PutHead
    <2> QED
        BY <2>2, <2>3
<1> QED
    BY <1>5, <1>6

LEMMA PutReceiptKeeps == ASSUME IInv, NEW p \in Processes, PutReceipt(p) PROVE IInv'
<1>1. Receipting /\ Goto(p, "apply") /\ At(p, "receipt")
    BY DEF PutReceipt, Receipting, orgVars
<1>2. PICK x : Landed(p, x) /\ x.pc = "apply" /\ x.op = proc[p].op /\ x.data = proc[p].data
    BY <1>1, Going DEF IInv, Processing
<1>3. Knows(x)
    BY <1>1, <1>2 DEF IInv, Processing, Knows, At, Driving, Decided
<1>4. Knows(x)'
    BY <1>1, <1>3, KnowledgeLasts DEF IInv, Effect
<1>5. p = Purger => x.data.action \in PurgeActions
    BY <1>1, <1>2 DEF IInv, Processing, Purging, At, Driving, Decided
<1> QED
    BY <1>1, <1>2, <1>4, <1>5, Lands DEF Effect

-----------------------------------------------------------------------------
(* Projecting. *)

LEMMA ProjectsKeeps ==
    ASSUME IInv, NEW p \in Processes, NEW A, Projects(p, A), Turning(proc[p].op)
    PROVE  IInv'
<1>1. PICK i, o : i = proc[p].op /\ o = [ops[i] EXCEPT !.status = "applied"]
    OBVIOUS
<1>2. /\ At(p, "apply") /\ i \in DOMAIN ops /\ ops[i].status = "pending" /\ InLog(i)
      /\ OpsRows /\ IsOp(ops[i])
    BY <1>1 DEF Projects, IInv, Shared, Rows, OpsRows, Processing, At, Knows, Driving, Decided
<1>3. IsOp(o) /\ o.status = "applied" /\ o.data = ops[i].data /\ o.expected = ops[i].expected
    BY <1>1, <1>2 DEF IsOp, OpFields
<1>4. ops' = [j \in DOMAIN ops |-> IF j = i THEN o ELSE ops[j]]
    <2>1. ops' = [ops EXCEPT ![i].status = "applied"]
        BY <1>1 DEF Projects
    <2> QED
        BY <1>1, <1>2, <2>1 DEF OpsRows
<1>5. org.status # "gone"
    BY DEF Projects, Applicable
<1>6. Projecting(i, o)
    BY <1>1, <1>2, <1>3, <1>4, <1>5 DEF Projects, Projecting, Rewrites, Pending, history
<1>7. PICK x : Landed(p, x) /\ x.pc \in Resting
    BY <1>2, Following DEF Projects, IInv, Processing
<1> QED
    BY <1>6, <1>7, Rests DEF Effect

\* What is known of an operation when it is projected.
LEMMA AtProjection ==
    ASSUME IInv, NEW p \in Processes, NEW A, Projects(p, A)
    PROVE  LET d == ops[proc[p].op].data IN
           /\ d.action \in A /\ IsData(d) /\ Lasting(d) /\ Fits(d)
           /\ Applicable(p) /\ Data(p) = d /\ proc[p].op \in DOMAIN ops
           /\ ops[proc[p].op].status = "pending"
BY DEF Projects, IInv, Shared, Rows, OpsRows, IsOp, Decisions, Pending, Processing, At, Knows,
       Driving, Decided, Data

\* The row of org takes its next sequence.
LEMMA SequencedRow ==
    ASSUME OrgRow
    PROVE  /\ Sequenced = [f \in OrgFields |-> Sequenced[f]] /\ Sequenced.seq = org.seq + 1
           /\ Sequenced.seq \in Nat
           /\ Sequenced.status = org.status /\ Sequenced.term = org.term
           /\ Sequenced.ends = org.ends
           /\ Sequenced.episode = org.episode /\ Sequenced.byOps = org.byOps
           /\ Sequenced.eligible = org.eligible
BY DEF OrgRow, OrgFields, Sequenced

\* A decision that leaves the rows of holds and requests.
LEMMA TurnsOrg ==
    ASSUME IInv, NEW i, IsData(ops[i].data), Lasting(ops[i].data), Fits(ops[i].data),
           UNCHANGED <<holds, requests>>, OrgRow', org'.seq = org.seq + 1,
           org'.term = org.term \/ (org'.term = i /\ ops[i].data.action \in TermActions),
           \/ period' = period
           \/ /\ period' = ops[i].data.period
              /\ ops[i].data.action = "policy_revision" \/ ops[i].data.to = "revision",
           org'.status # "active" => \/ org.status # "active"
                                     \/ ops[i].data.action \in Service \cup {"complete"},
           org'.status \in {"purging", "gone"} =>
              /\ org'.eligible = org.eligible
              /\ org.status = "purging" \/ ops[i].data.action \in {"claim", "complete"},
           org'.status = "gone" => ~Blocked,
           ops[i].data.action \in TermActions \cup Drains
              \cup {"cancel", "policy_revision", "extend", "authorize_destructive_step",
                    "complete_destructive_step", "complete"}
    PROVE  Turning(i)
<1>1. HoldRows' /\ RequestRows' /\ (Blocked' <=> Blocked)
    BY DEF IInv, Shared, Rows, HoldRows, RequestRows, Blocked, Unresolved
<1>2. ops[i].data.to # "closed"
    BY DEF Lasting, TermActions, Drains
<1> QED
    BY <1>1, <1>2 DEF Turning

LEMMA ApplyTermKeeps == ASSUME IInv, NEW p \in Processes, ApplyTerm(p) PROVE IInv'
<1>1. PICK i, d : i = proc[p].op /\ d = ops[i].data
    OBVIOUS
<1>2. Projects(p, TermActions)
    BY DEF ApplyTerm
<1>3. IsData(d) /\ Lasting(d) /\ Fits(d) /\ d.action \in TermActions /\ Data(p) = d
    BY <1>1, <1>2, AtProjection
<1>4. org' = [Sequenced EXCEPT !.status = "active", !.term = i, !.ends = d.ends, !.episode = None,
                               !.byOps = FALSE, !.eligible = 0]
    BY <1>1, <1>3 DEF ApplyTerm
<1>5. OrgRow' /\ org'.seq = org.seq + 1 /\ org'.status = "active" /\ org'.term = i
    <2>1. PICK s : s = Sequenced
        OBVIOUS
    <2>2. s = [f \in OrgFields |-> s[f]] /\ s.seq \in Nat /\ s.seq = org.seq + 1
        BY <2>1, SequencedRow DEF IInv, Shared, Rows
    <2> QED
        BY <1>4, <2>1, <2>2 DEF OrgRow, OrgFields
<1>6. Turning(i)
    BY <1>1, <1>3, <1>5, TurnsOrg DEF ApplyTerm
<1> QED
    BY <1>1, <1>2, <1>6, ProjectsKeeps

LEMMA ApplyExpiryKeeps == ASSUME IInv, NEW p \in Processes, ApplyExpiry(p) PROVE IInv'
<1>1. PICK i, d : i = proc[p].op /\ d = ops[i].data
    OBVIOUS
<1>2. Projects(p, {"expire_term"})
    BY DEF ApplyExpiry
<1>3. IsData(d) /\ Lasting(d) /\ Fits(d) /\ d.action = "expire_term" /\ Data(p) = d
    BY <1>1, <1>2, AtProjection
<1>4. org' = [Sequenced EXCEPT !.status = "offboarding", !.episode = d.episode,
                               !.byOps = FALSE, !.eligible = d.eligible]
    BY <1>1, <1>3 DEF ApplyExpiry
<1>5. OrgRow' /\ org'.seq = org.seq + 1 /\ org'.status = "offboarding" /\ org'.term = org.term
    <2>1. PICK s : s = Sequenced
        OBVIOUS
    <2>2. /\ s = [f \in OrgFields |-> s[f]] /\ s.seq \in Nat /\ s.seq = org.seq + 1
          /\ s.term = org.term
        BY <2>1, SequencedRow DEF IInv, Shared, Rows
    <2> QED
        BY <1>3, <1>4, <2>1, <2>2 DEF OrgRow, OrgFields, IsData
<1>6. Turning(i)
    BY <1>1, <1>3, <1>5, TurnsOrg DEF ApplyExpiry, Drains, Service
<1> QED
    BY <1>1, <1>2, <1>6, ProjectsKeeps

LEMMA ApplyStartKeeps == ASSUME IInv, NEW p \in Processes, ApplyStart(p) PROVE IInv'
<1>1. PICK i, d : i = proc[p].op /\ d = ops[i].data
    OBVIOUS
<1>2. Projects(p, {"start"})
    BY DEF ApplyStart
<1>3. IsData(d) /\ Lasting(d) /\ Fits(d) /\ d.action = "start" /\ Data(p) = d
    BY <1>1, <1>2, AtProjection
<1>4. org' = [Sequenced EXCEPT !.status = "offboarding", !.ends = d.ends, !.episode = d.episode,
                               !.byOps = TRUE, !.eligible = d.eligible]
    BY <1>1, <1>3 DEF ApplyStart
<1>5. OrgRow' /\ org'.seq = org.seq + 1 /\ org'.status = "offboarding" /\ org'.term = org.term
    <2>1. PICK s : s = Sequenced
        OBVIOUS
    <2>2. /\ s = [f \in OrgFields |-> s[f]] /\ s.seq \in Nat /\ s.seq = org.seq + 1
          /\ s.term = org.term
        BY <2>1, SequencedRow DEF IInv, Shared, Rows
    <2> QED
        BY <1>3, <1>4, <2>1, <2>2 DEF OrgRow, OrgFields, IsData
<1>6. Turning(i)
    BY <1>1, <1>3, <1>5, TurnsOrg DEF ApplyStart, Drains, Service
<1> QED
    BY <1>1, <1>2, <1>6, ProjectsKeeps

LEMMA ApplyCancelKeeps == ASSUME IInv, NEW p \in Processes, ApplyCancel(p) PROVE IInv'
<1>1. PICK i, d : i = proc[p].op /\ d = ops[i].data
    OBVIOUS
<1>2. Projects(p, {"cancel"})
    BY DEF ApplyCancel
<1>3. IsData(d) /\ Lasting(d) /\ Fits(d) /\ d.action = "cancel"
    BY <1>1, <1>2, AtProjection
<1>4. org' = [Sequenced EXCEPT !.status = "active", !.ends = TermEnds, !.episode = None,
                               !.byOps = FALSE, !.eligible = 0]
    BY DEF ApplyCancel
<1>5. OrgRow' /\ org'.seq = org.seq + 1 /\ org'.status = "active" /\ org'.term = org.term
    <2>1. PICK s : s = Sequenced
        OBVIOUS
    <2>2. /\ s = [f \in OrgFields |-> s[f]] /\ s.seq \in Nat /\ s.seq = org.seq + 1
          /\ s.term = org.term
        BY <2>1, SequencedRow DEF IInv, Shared, Rows
    <2> QED
        BY <1>4, <2>1, <2>2 DEF OrgRow, OrgFields
<1>6. Turning(i)
    BY <1>1, <1>3, <1>5, TurnsOrg DEF ApplyCancel
<1> QED
    BY <1>1, <1>2, <1>6, ProjectsKeeps

LEMMA ApplyPolicyKeeps == ASSUME IInv, NEW p \in Processes, ApplyPolicy(p) PROVE IInv'
<1>1. PICK i, d : i = proc[p].op /\ d = ops[i].data
    OBVIOUS
<1>2. Projects(p, {"policy_revision"})
    BY DEF ApplyPolicy
<1>3. IsData(d) /\ Lasting(d) /\ Fits(d) /\ d.action = "policy_revision" /\ Data(p) = d
    BY <1>1, <1>2, AtProjection
<1>4. /\ OrgRow' /\ org'.seq = org.seq + 1 /\ org'.status = org.status /\ org'.term = org.term
      /\ org'.eligible = org.eligible
    BY SequencedRow DEF ApplyPolicy, OrgRow, IInv, Shared, Rows
<1>5. org.status # "gone"
    BY <1>2 DEF Projects, Applicable
<1>6. Turning(i)
    BY <1>1, <1>3, <1>4, <1>5, TurnsOrg DEF ApplyPolicy, IInv, Shared, PurgeIsDue
<1> QED
    BY <1>1, <1>2, <1>6, ProjectsKeeps

LEMMA ApplyExtensionKeeps == ASSUME IInv, NEW p \in Processes, ApplyExtension(p) PROVE IInv'
<1>1. PICK i, d : i = proc[p].op /\ d = ops[i].data
    OBVIOUS
<1>2. Projects(p, {"extend"})
    BY DEF ApplyExtension
<1>3. IsData(d) /\ Lasting(d) /\ Fits(d) /\ d.action = "extend" /\ Data(p) = d
    BY <1>1, <1>2, AtProjection
<1>4. org' = [Sequenced EXCEPT !.eligible = d.eligible]
    BY <1>3 DEF ApplyExtension
<1>5. org.status = "offboarding"
    BY <1>1, <1>2, <1>3 DEF Projects, Applicable, TermActions
<1>6. OrgRow' /\ org'.seq = org.seq + 1 /\ org'.status = "offboarding" /\ org'.term = org.term
    <2>1. PICK s : s = Sequenced
        OBVIOUS
    <2>2. /\ s = [f \in OrgFields |-> s[f]] /\ s.seq \in Nat /\ s.seq = org.seq + 1
          /\ s.term = org.term /\ s.status = org.status
        BY <2>1, SequencedRow DEF IInv, Shared, Rows
    <2> QED
        BY <1>3, <1>4, <1>5, <2>1, <2>2 DEF OrgRow, OrgFields, IsData
<1>7. Turning(i)
    BY <1>1, <1>3, <1>5, <1>6, TurnsOrg DEF ApplyExtension
<1> QED
    BY <1>1, <1>2, <1>7, ProjectsKeeps

\* The row of org, when a decision only takes its place in the sequence.
LEMMA OnlySequenced ==
    ASSUME IInv, org' = Sequenced
    PROVE  /\ OrgRow' /\ org'.seq = org.seq + 1 /\ org'.status = org.status
           /\ org'.term = org.term /\ org'.eligible = org.eligible
BY SequencedRow DEF OrgRow, IInv, Shared, Rows

LEMMA ApplyRestrictionKeeps == ASSUME IInv, NEW p \in Processes, ApplyRestriction(p) PROVE IInv'
<1>1. PICK i, d : i = proc[p].op /\ d = ops[i].data
    OBVIOUS
<1>2. Projects(p, {"create_restriction"})
    BY DEF ApplyRestriction
<1>3. /\ IsData(d) /\ Lasting(d) /\ Fits(d) /\ d.action = "create_restriction" /\ Data(p) = d
      /\ ops[i].status = "pending"
    BY <1>1, <1>2, AtProjection
<1>4. /\ OrgRow' /\ org'.seq = org.seq + 1 /\ org'.status = org.status
      /\ org'.term = org.term /\ org'.eligible = org.eligible
    BY OnlySequenced DEF ApplyRestriction
<1>5. org.status # "gone" /\ d.to # "closed" /\ i \notin DOMAIN requests
    BY <1>2, <1>3 DEF Projects, Applicable, Lasting, IInv, Shared, Closures
<1>6. HoldRows'
    BY <1>1 DEF ApplyRestriction, With, HoldRows, IInv, Shared, Rows
<1>7. PICK q : q = [kind |-> d.kind, status |-> "pending", queued |-> TRUE]
    OBVIOUS
<1>8. \/ requests' = requests
      \/ d.kind # "none" /\ requests' = With(requests, i, q)
    BY <1>1, <1>3, <1>7 DEF ApplyRestriction
<1>9. d.kind # "none" => IsRequest(q) /\ q.status # "closed"
    BY <1>7 DEF IsRequest, RequestFields
<1>10. /\ RequestRows' /\ DOMAIN requests \subseteq DOMAIN requests'
       /\ DOMAIN requests' \subseteq DOMAIN requests \cup {i}
       /\ \A r \in DOMAIN requests : requests'[r] = requests[r]
       /\ i \in DOMAIN requests' => requests'[i].status # "closed"
    BY <1>5, <1>8, <1>9 DEF RequestRows, With, IInv, Shared, Rows
<1>11. Turning(i)
    BY <1>1, <1>4, <1>5, <1>6, <1>10 DEF Turning, ApplyRestriction
<1> QED
    BY <1>1, <1>2, <1>11, ProjectsKeeps

LEMMA ApplyReleaseKeeps == ASSUME IInv, NEW p \in Processes, ApplyRelease(p) PROVE IInv'
<1>1. PICK i, d : i = proc[p].op /\ d = ops[i].data
    OBVIOUS
<1>2. Projects(p, {"release_restriction"})
    BY DEF ApplyRelease
<1>3. /\ IsData(d) /\ Lasting(d) /\ Fits(d) /\ d.action = "release_restriction" /\ Data(p) = d
    BY <1>1, <1>2, AtProjection
<1>4. /\ OrgRow' /\ org'.seq = org.seq + 1 /\ org'.status = org.status
      /\ org'.term = org.term /\ org'.eligible = org.eligible
    BY OnlySequenced DEF ApplyRelease
<1>5. org.status # "gone" /\ d.to # "closed"
    BY <1>2, <1>3 DEF Projects, Applicable, Lasting, ApplyRelease
<1>6. HoldRows' /\ RequestRows'
    BY DEF ApplyRelease, HoldRows, RequestRows, IInv, Shared, Rows
<1>7. Turning(i)
    BY <1>1, <1>4, <1>5, <1>6 DEF Turning, ApplyRelease
<1> QED
    BY <1>1, <1>2, <1>7, ProjectsKeeps

LEMMA ApplyStateKeeps == ASSUME IInv, NEW p \in Processes, ApplyState(p) PROVE IInv'
<1>1. PICK i, d : i = proc[p].op /\ d = ops[i].data
    OBVIOUS
<1>2. Projects(p, {"release_restriction", "set_subject_request_state"})
    BY DEF ApplyState
<1>3. /\ IsData(d) /\ Lasting(d) /\ Fits(d) /\ Data(p) = d /\ Applicable(p)
      /\ d.action \in {"release_restriction", "set_subject_request_state"}
    BY <1>1, <1>2, AtProjection
<1>4. /\ OrgRow' /\ org'.seq = org.seq + 1 /\ org'.status = org.status
      /\ org'.term = org.term /\ org'.eligible = org.eligible
    BY OnlySequenced DEF ApplyState
<1>5. org.status # "gone" /\ d.kind # "none" /\ requests[d.held].status = d.was
    BY <1>1, <1>3 DEF Applicable, ApplyState, TermActions
<1>6. HoldRows'
    BY <1>3 DEF ApplyState, HoldRows, IInv, Shared, Rows
<1>7. PICK b : b = (requests[d.held].queued \/ d.to = "pending")
    OBVIOUS
<1>8. PICK q : q = [requests[d.held] EXCEPT !.status = d.to, !.queued = b]
    OBVIOUS
<1>9. RequestRows
    BY DEF IInv, Shared, Rows
<1>10. CASE d.held \in DOMAIN requests
    <2>1. IsRequest(q) /\ q.status = d.to
        BY <1>8, <1>9, <1>10, ZenonT(30) DEF IsRequest, RequestFields, RequestRows
    <2>2. requests' = [requests EXCEPT ![d.held].status = d.to,
                                       ![d.held].queued = @ \/ d.to = "pending"]
        BY <1>3 DEF ApplyState
    <2>3. requests' = [requests EXCEPT ![d.held] = q]
        BY <1>7, <1>8, <1>9, <1>10, <2>2 DEF RequestRows, IsRequest, RequestFields
    <2>4. /\ RequestRows' /\ DOMAIN requests' = DOMAIN requests /\ requests'[d.held].status = d.to
          /\ \A r \in DOMAIN requests : r # d.held => requests'[r] = requests[r]
        BY <1>9, <1>10, <2>1, <2>3 DEF RequestRows
    <2>5. d.was # "closed"
        BY <1>3, <1>5 DEF Lasting
    <2>6. period' = period /\ d.action \notin Service \cup {"claim", "complete"}
        BY <1>3 DEF ApplyState, Service
    <2>7. d.held \in DOMAIN requests
        BY <1>10
    <2>8. d.to = "closed" => requests'[d.held].status = "closed"
        BY <2>4
    <2>9. \A r \in DOMAIN requests : requests[r].status = "closed" => requests'[r].status = "closed"
        BY <1>5, <2>4, <2>5
    <2>10. \A r \in DOMAIN requests' : requests'[r].status = "closed" =>
               \/ r \in DOMAIN requests /\ requests[r].status = "closed"
               \/ d.to = "closed" /\ r = d.held
        BY <2>4
    <2>11. /\ DOMAIN requests \subseteq DOMAIN requests'
           /\ DOMAIN requests' \subseteq DOMAIN requests \cup {i}
        BY <2>4
    <2>12. Turning(i)
        BY <1>1, <1>4, <1>5, <1>6, <2>4, <2>6, <2>8, <2>9, <2>10, <2>11 DEF Turning
    <2> QED
        BY <1>1, <1>2, <2>12, ProjectsKeeps
<1>11. CASE d.held \notin DOMAIN requests
    <2>1. requests' = requests
        BY <1>3, <1>9, <1>11 DEF ApplyState, RequestRows
    <2>2. d.to # "closed" /\ RequestRows'
        BY <1>3, <1>9, <1>11, <2>1 DEF Fits, RequestRows
    <2> QED
        BY <1>1, <1>2, <1>4, <1>5, <1>6, <2>1, <2>2, ProjectsKeeps, ZenonT(30)
        DEF Turning, ApplyState
<1> QED
    BY <1>10, <1>11

LEMMA ApplyClaimKeeps == ASSUME IInv, NEW p \in Processes, ApplyClaim(p) PROVE IInv'
<1>1. PICK i, d : i = proc[p].op /\ d = ops[i].data
    OBVIOUS
<1>2. Projects(p, {"claim"})
    BY DEF ApplyClaim
<1>3. IsData(d) /\ Lasting(d) /\ Fits(d) /\ d.action = "claim" /\ Data(p) = d
    BY <1>1, <1>2, AtProjection
<1>4. org' = [Sequenced EXCEPT !.status = "purging"]
    BY DEF ApplyClaim
<1>5. org.status = "offboarding"
    BY <1>1, <1>2, <1>3 DEF Projects, Applicable, TermActions
<1>6. /\ OrgRow' /\ org'.seq = org.seq + 1 /\ org'.status = "purging" /\ org'.term = org.term
      /\ org'.eligible = org.eligible
    <2>1. PICK s : s = Sequenced
        OBVIOUS
    <2>2. /\ s = [f \in OrgFields |-> s[f]] /\ s.seq \in Nat /\ s.seq = org.seq + 1
          /\ s.term = org.term /\ s.eligible = org.eligible
        BY <2>1, SequencedRow DEF IInv, Shared, Rows
    <2> QED
        BY <1>4, <2>1, <2>2 DEF OrgRow, OrgFields, IInv, Shared, Rows
<1>7. Turning(i)
    BY <1>1, <1>3, <1>5, <1>6, TurnsOrg DEF ApplyClaim, Drains
<1> QED
    BY <1>1, <1>2, <1>7, ProjectsKeeps

LEMMA ApplyAuthorizationKeeps == ASSUME IInv, NEW p \in Processes, ApplyAuthorization(p) PROVE IInv'
<1>1. PICK i, d : i = proc[p].op /\ d = ops[i].data
    OBVIOUS
<1>2. Projects(p, {"authorize_destructive_step"})
    BY DEF ApplyAuthorization
<1>3. IsData(d) /\ Lasting(d) /\ Fits(d) /\ d.action = "authorize_destructive_step"
    BY <1>1, <1>2, AtProjection
<1>4. /\ OrgRow' /\ org'.seq = org.seq + 1 /\ org'.status = org.status
      /\ org'.term = org.term /\ org'.eligible = org.eligible
    BY OnlySequenced DEF ApplyAuthorization
<1>5. org.status # "gone"
    BY <1>2 DEF Projects, Applicable
<1>6. Turning(i)
    BY <1>1, <1>3, <1>4, <1>5, TurnsOrg DEF ApplyAuthorization
<1> QED
    BY <1>1, <1>2, <1>6, ProjectsKeeps

LEMMA ApplyCompletionKeeps == ASSUME IInv, NEW p \in Processes, ApplyCompletion(p) PROVE IInv'
<1>1. PICK i, d : i = proc[p].op /\ d = ops[i].data
    OBVIOUS
<1>2. Projects(p, {"complete_destructive_step"})
    BY DEF ApplyCompletion
<1>3. IsData(d) /\ Lasting(d) /\ Fits(d) /\ d.action = "complete_destructive_step"
    BY <1>1, <1>2, AtProjection
<1>4. /\ OrgRow' /\ org'.seq = org.seq + 1 /\ org'.status = org.status
      /\ org'.term = org.term /\ org'.eligible = org.eligible
    BY OnlySequenced DEF ApplyCompletion
<1>5. org.status # "gone"
    BY <1>2 DEF Projects, Applicable
<1>6. Turning(i)
    BY <1>1, <1>3, <1>4, <1>5, TurnsOrg DEF ApplyCompletion
<1> QED
    BY <1>1, <1>2, <1>6, ProjectsKeeps

LEMMA ApplyFinalKeeps == ASSUME IInv, NEW p \in Processes, ApplyFinal(p) PROVE IInv'
<1>1. PICK i, d : i = proc[p].op /\ d = ops[i].data
    OBVIOUS
<1>2. Projects(p, {"complete"})
    BY DEF ApplyFinal
<1>3. IsData(d) /\ Lasting(d) /\ Fits(d) /\ d.action = "complete"
    BY <1>1, <1>2, AtProjection
<1>4. org' = [Sequenced EXCEPT !.status = "gone"]
    BY DEF ApplyFinal
<1>5. ~Blocked
    BY <1>1, <1>2, <1>3 DEF Projects, Applicable, TermActions
<1>6. /\ OrgRow' /\ org'.seq = org.seq + 1 /\ org'.status = "gone" /\ org'.term = org.term
      /\ org'.eligible = org.eligible
    <2>1. PICK s : s = Sequenced
        OBVIOUS
    <2>2. /\ s = [f \in OrgFields |-> s[f]] /\ s.seq \in Nat /\ s.seq = org.seq + 1
          /\ s.term = org.term /\ s.eligible = org.eligible
        BY <2>1, SequencedRow DEF IInv, Shared, Rows
    <2> QED
        BY <1>4, <2>1, <2>2 DEF OrgRow, OrgFields, IInv, Shared, Rows
<1>7. Turning(i)
    BY <1>1, <1>3, <1>5, <1>6, TurnsOrg DEF ApplyFinal
<1> QED
    BY <1>1, <1>2, <1>7, ProjectsKeeps

LEMMA AlreadyAppliedKeeps == ASSUME IInv, NEW p \in Processes, AlreadyApplied(p) PROVE IInv'
<1>1. Calm /\ At(p, "apply") /\ After(p)
    BY DEF IInv, Shared, Rows, AlreadyApplied, Calm, Kept, orgVars, history
<1> QED
    BY <1>1, CalmRest

LEMMA StaleKeeps == ASSUME IInv, NEW p \in Processes, Stale(p) PROVE IInv'
<1>1. Calm /\ Raise(p)
    BY DEF IInv, Shared, Rows, Stale, Calm, Kept, orgVars, history
<1> QED
    BY <1>1, CalmRest

-----------------------------------------------------------------------------
(* The purge, and mishaps. *)

LEMMA QueueKeeps == ASSUME IInv, NEW e, Queue(e) PROVE IInv'
<1>1. Calm /\ UNCHANGED proc
    BY DEF IInv, Shared, Rows, Queue, Calm, Kept, orgVars, history
<1> QED
    BY <1>1, Stands DEF Effect

\* The purge worker begins a decision.
LEMMA WorkerKeeps ==
    ASSUME IInv, Calm, NEW x, Landed(Purger, x), x.pc \in {"prepare"} \cup Resting,
           x.data.action \in PurgeActions \/ x.pc \in Resting, Proposed(x.data) \/ x.pc \in Resting
    PROVE  IInv'
<1>1. CASE x.pc \in Resting
    BY <1>1, Constants, Rests DEF Effect
<1>2. CASE x.pc = "prepare" /\ x.pc \notin Resting
    <2>1. Knows(x)'
        BY <1>2 DEF Knows, Driving, Decided, Proposed, Calm, Kept
    <2> QED
        BY <1>2, <2>1, Constants, Lands DEF Effect
<1> QED
    BY <1>1, <1>2

LEMMA PurgeProposal ==
    ASSUME NEW a \in PurgeActions, NEW e, NEW d, d = [Blank EXCEPT !.action = a, !.episode = e]
    PROVE  IsData(d) /\ d.action = a /\ Proposed(d)
BY DEF IsData, DataFields, Blank, Proposed, TermActions, PurgeActions

LEMMA TakeJobKeeps == ASSUME IInv, NEW e \in todo, TakeJob(e) PROVE IInv'
<1>1. Calm
    BY DEF IInv, Shared, Rows, TakeJob, Calm, Kept, orgVars, history
<1>2. PICK w : w = Worker(e)
    OBVIOUS
<1>3. IsProc(w)
    BY <1>2, LoggedAreOperations, BlankData DEF IInv, Shared, Worker, IsProc, ProcFields, Idle
<1>4. PICK d : d = [Blank EXCEPT !.action = "claim", !.episode = e]
    OBVIOUS
<1>5. IsData(d) /\ d.action \in PurgeActions /\ Proposed(d)
    BY <1>4, PurgeProposal DEF PurgeActions
<1>6. PICK x : x = IF run.episode = e THEN [w EXCEPT !.pc = "inventory"]
                   ELSE IF Verified
                   THEN [w EXCEPT !.pc = "prepare", !.op = <<"claim", e>>, !.data = d]
                   ELSE Idle
    OBVIOUS
<1>7. proc' = [proc EXCEPT ![Purger] = x]
    BY <1>2, <1>4, <1>6 DEF TakeJob
<1>8. /\ IsProc(x) /\ x.pc \in {"prepare"} \cup Resting
      /\ x.pc = "prepare" => x.data = d
    <2>1. CASE x = [w EXCEPT !.pc = "inventory"]
        BY <1>3, <2>1 DEF IsProc, ProcFields, Resting
    <2>2. CASE x = [w EXCEPT !.pc = "prepare", !.op = <<"claim", e>>, !.data = d]
        BY <1>3, <1>5, <2>2 DEF IsProc, ProcFields, Resting
    <2>3. CASE x = Idle
        BY <2>3, IdleProc DEF Resting
    <2> QED
        BY <1>6, <2>1, <2>2, <2>3
<1> QED
    BY <1>1, <1>5, <1>7, <1>8, WorkerKeeps DEF Landed

LEMMA BeginKeeps ==
    ASSUME IInv, Calm, NEW op, NEW a \in PurgeActions, Begin(op, a)
    PROVE  IInv'
<1>1. PICK d : d = [Blank EXCEPT !.action = a, !.episode = run.episode]
    OBVIOUS
<1>2. IsData(d) /\ d.action = a /\ Proposed(d)
    BY <1>1, PurgeProposal
<1>3. PICK x : x = [proc[Purger] EXCEPT !.pc = "prepare", !.op = op, !.seen = Len(log), !.data = d]
    OBVIOUS
<1>4. IsProc(proc[Purger]) /\ ProcRows
    BY Constants DEF IInv, Processing, ProcRows
<1>5. IsProc(x) /\ x.pc = "prepare" /\ x.data = d
    BY <1>2, <1>3, <1>4, LoggedAreOperations DEF IInv, Shared, IsProc, ProcFields
<1>6. proc' = [proc EXCEPT ![Purger].pc = "prepare", ![Purger].op = op, ![Purger].seen = Len(log),
                           ![Purger].data = d]
    BY <1>1 DEF Begin
<1>7. proc' = [proc EXCEPT ![Purger] = x]
    BY <1>3, <1>4, <1>6, Constants DEF ProcRows
<1> QED
    BY <1>2, <1>5, <1>7, WorkerKeeps DEF Landed

LEMMA InventoryKeeps == ASSUME IInv, Inventory PROVE IInv'
<1>1. Calm
    BY DEF IInv, Shared, Rows, Inventory, Calm, Kept, history
<1>2. Goto(Purger, "next") \/ Done(Purger)
    BY DEF Inventory
<1> QED
    BY <1>1, <1>2, Constants, CalmRest DEF Resting

LEMMA AuthorizeKeeps == ASSUME IInv, Authorize PROVE IInv'
<1>1. Calm
    BY DEF IInv, Shared, Rows, Authorize, Calm, Kept, orgVars, history
<1>2. \/ Goto(Purger, "failing")
      \/ \E op : Begin(op, "authorize_destructive_step")
    BY DEF Authorize
<1> QED
    BY <1>1, <1>2, Constants, CalmRest, BeginKeeps DEF Resting, PurgeActions

LEMMA ExecuteKeeps == ASSUME IInv, Execute PROVE IInv'
<1>1. Calm
    BY DEF IInv, Shared, Rows, Execute, Calm, Kept, orgVars, history
<1>2. PICK b : b = proc[Purger].batch
    OBVIOUS
<1>3. \/ Goto(Purger, "failing")
      \/ \E op, a : a \in PurgeActions /\ Begin(op, a)
      \/ proc' = [proc EXCEPT ![Purger].pc = "next", ![Purger].batch = b + 1]
    BY <1>2 DEF Execute, PurgeActions
<1>4. CASE proc' = [proc EXCEPT ![Purger].pc = "next", ![Purger].batch = b + 1]
    <2>1. PICK x, n : n = b + 1 /\ x = [proc[Purger] EXCEPT !.pc = "next", !.batch = n]
        OBVIOUS
    <2>2. ProcRows /\ IsProc(proc[Purger])
        BY Constants DEF IInv, Processing, ProcRows
    <2>3. IsProc(x) /\ x.pc = "next"
        BY <2>1, <2>2 DEF IsProc, ProcFields
    <2>4. proc' = [proc EXCEPT ![Purger] = x]
        BY <1>4, <2>1, <2>2, Constants DEF ProcRows
    <2> QED
        BY <1>1, <2>3, <2>4, WorkerKeeps DEF Landed, Resting
<1> QED
    BY <1>1, <1>3, <1>4, Constants, CalmRest, BeginKeeps DEF Resting

LEMMA ProgressKeeps == ASSUME IInv, Progress PROVE IInv'
<1>1. Calm
    BY DEF IInv, Shared, Rows, Progress, Calm, Kept, orgVars, history
<1>2. PICK x, n : /\ n = proc[Purger].batch + 1
                  /\ x = [proc[Purger] EXCEPT !.pc = "next", !.batch = n]
    OBVIOUS
<1>3. ProcRows /\ IsProc(proc[Purger])
    BY Constants DEF IInv, Processing, ProcRows
<1>4. IsProc(x) /\ x.pc = "next"
    BY <1>2, <1>3 DEF IsProc, ProcFields
<1>5. proc' = [proc EXCEPT ![Purger].pc = "next", ![Purger].batch = n]
    BY <1>2 DEF Progress
<1>6. proc' = [proc EXCEPT ![Purger] = x]
    BY <1>2, <1>3, <1>5, Constants DEF ProcRows
<1> QED
    BY <1>1, <1>4, <1>6, WorkerKeeps DEF Landed, Resting

LEMMA RecordFailureKeeps == ASSUME IInv, NEW late \in BOOLEAN, RecordFailure(late) PROVE IInv'
<1>1. Calm /\ Done(Purger)
    BY DEF IInv, Shared, Rows, RecordFailure, Calm, Kept, history
<1> QED
    BY <1>1, Constants, CalmRest

LEMMA DieKeeps == ASSUME IInv, NEW p \in Processes, Die(p) PROVE IInv'
<1>1. Calm /\ (Done(p) \/ Raise(p))
    BY DEF IInv, Shared, Rows, Die, Calm, Kept, orgVars, history
<1> QED
    BY <1>1, CalmRest

-----------------------------------------------------------------------------
(* The initial states. *)

LEMMA Names == Genesis # Start /\ Genesis # Held /\ Start # Held
<1>1. Genesis[1] = "genesis" /\ Start[1] = "start" /\ Held[1] = "held"
    BY DEF Genesis, Start, Held
<1> QED
    BY <1>1

LEMMA ConfirmedData ==
    ASSUME NEW end \in Ends, NEW q \in Periods
    PROVE  /\ IsData(Confirmed(end, q)) /\ Lasting(Confirmed(end, q))
           /\ Confirmed(end, q).action = "confirm_term" /\ Confirmed(end, q).to = "none"
<1>1. end \in Nat /\ q \in Nat /\ q > 0
    BY LifecycleAssumption DEF LifecycleAssumption
<1>2. PICK c : c = Confirmed(end, q)
    OBVIOUS
<1>3. /\ c = [f \in DataFields |-> c[f]] /\ c.action = "confirm_term" /\ c.to = "none"
      /\ c.eligible = 0 /\ c.period = q /\ c.ends = end
    BY <1>2 DEF DataFields, Confirmed, Blank
<1> QED
    BY <1>1, <1>2, <1>3 DEF IsData, Lasting, TermActions

\* What the setups have in common.
LEMMA StartsWith ==
    ASSUME Init, OrgRow, OpsRows, HoldRows, RequestRows, log \in Seq(DOMAIN ops),
           org.seq = Len(log), org.status \in {"active", "offboarding"},
           \A i \in DOMAIN ops : ops[i].status = "applied" /\ InLog(i) /\ Lasting(ops[i].data)
                                 /\ ops[i].data.to = "none",
           \A n \in 1..Len(log) : /\ ops[log[n]].expected = n - 1
                                  /\ ops[log[n]].data.action = "start" =>
                                        ops[log[n]].data.eligible > 0,
           org.term # None => org.term \in DOMAIN ops /\ ops[org.term].data.action \in TermActions,
           \A r \in DOMAIN requests : r \in DOMAIN ops /\ requests[r].status = "pending"
    PROVE  IInv
<1>1. /\ clock = 0 /\ period \in Nat /\ period > 0 /\ receipts = Len(log) /\ receipts \in Nat
      /\ armed = {} /\ call = FALSE /\ proc = [p \in Processes |-> Idle] /\ Pending = {}
    BY LifecycleAssumption DEF LifecycleAssumption, Init, Pending
<1>2. Rows /\ OneDecision /\ HistoryAhead /\ Drained
    BY <1>1 DEF Rows, OneDecision, HistoryAhead, Drained
<1>3. Chain /\ Rejections /\ Closures
    BY <1>1, <1>2, LoggedAreOperations DEF Chain, Rejections, Closures, ArmedNeverClosed
<1>4. Decisions
    BY <1>1 DEF Decisions
<1>5. PurgeIsDue
    BY DEF PurgeIsDue, PurgeNeverEarly, GoneOwesNothing
<1>6. Processing
    BY <1>1, IdleProc, Constants DEF Processing, ProcRows, Knows, Purging, Driving, Decided
<1> QED
    BY <1>2, <1>3, <1>4, <1>5, <1>6 DEF IInv, Shared

LEMMA FreshStarts == ASSUME Init, Fresh PROVE IInv
<1>1. org = NoTerm /\ log = <<>> /\ DOMAIN ops = {} /\ DOMAIN holds = {} /\ DOMAIN requests = {}
    BY DEF Fresh
<1>2. OrgRow /\ org.seq = 0 /\ org.status = "active" /\ org.term = None
    BY <1>1 DEF OrgRow, OrgFields, NoTerm
<1>3. OpsRows /\ HoldRows /\ RequestRows
    BY <1>1 DEF Fresh, OpsRows, HoldRows, RequestRows
<1>4. log \in Seq(DOMAIN ops) /\ Len(log) = 0
    BY <1>1
<1> QED
    BY <1>1, <1>2, <1>3, <1>4, StartsWith

LEMMA InTermStarts == ASSUME Init, InTerm PROVE IInv
<1>1. PICK end \in Ends, q \in Periods :
        /\ org = [NoTerm EXCEPT !.seq = 1, !.term = Genesis, !.ends = end]
        /\ ops = [i \in {Genesis} |-> Row(Confirmed(end, q), "applied", 0)]
        /\ log = <<Genesis>>
        /\ DOMAIN holds = {} /\ holds = [r \in {} |-> "active"]
        /\ DOMAIN requests = {} /\ requests = [r \in {} |-> [kind |-> "none"]]
    BY DEF InTerm
<1>2. OrgRow /\ org.seq = 1 /\ org.status = "active" /\ org.term = Genesis
    BY <1>1 DEF OrgRow, OrgFields, NoTerm
<1>3. /\ DOMAIN ops = {Genesis} /\ ops[Genesis].status = "applied" /\ ops[Genesis].expected = 0
      /\ ops[Genesis].data = Confirmed(end, q) /\ OpsRows
    BY <1>1, ConfirmedData, RowFields DEF OpsRows
<1>4. HoldRows /\ RequestRows
    BY <1>1 DEF HoldRows, RequestRows
<1>5. log \in Seq(DOMAIN ops) /\ Len(log) = 1 /\ log[1] = Genesis
    BY <1>1, <1>3
<1>6. InLog(Genesis)
    BY <1>5 DEF InLog
<1>7. \A n \in 1..Len(log) : n = 1
    BY <1>5
<1>8. Confirmed(end, q).action \in TermActions
    BY ConfirmedData DEF TermActions
<1> QED
    BY <1>1, <1>2, <1>3, <1>4, <1>5, <1>6, <1>7, <1>8, ConfirmedData, StartsWith

LEMMA InEpisodeStarts == ASSUME Init, InEpisode PROVE IInv
<1> DEFINE begun(q) == [Blank EXCEPT !.action = "start", !.episode = Start, !.eligible = q,
                                     !.period = q]
           hold(k) == [Blank EXCEPT !.action = "create_restriction", !.episode = Start,
                                    !.held = Held, !.kind = k]
           data(end, q, k) == [i \in {Genesis, Start, Held} |->
                                  CASE i = Genesis -> Confirmed(end, q) [] i = Start -> begun(q)
                                    [] i = Held -> hold(k)]
           place(i) == CHOOSE n \in 0..2 : log[n + 1] = i
<1>1. PICK end \in Ends, q \in Periods, k \in {"none", "export"} :
        /\ log = <<Genesis, Start, Held>>
        /\ ops = [i \in DOMAIN data(end, q, k) |-> Row(data(end, q, k)[i], "applied", place(i))]
        /\ org = [NoTerm EXCEPT !.status = "offboarding", !.seq = 3, !.term = Genesis,
                                !.episode = Start, !.byOps = TRUE, !.eligible = q]
        /\ holds = [r \in {Held} |-> "active"]
        /\ requests = [r \in IF k = "none" THEN {} ELSE {Held} |->
                          [kind |-> k, status |-> "pending", queued |-> TRUE]]
    BY DEF InEpisode
<1>2. q \in Nat /\ q > 0
    BY LifecycleAssumption DEF LifecycleAssumption
<1>3. /\ Len(log) = 3 /\ log[1] = Genesis /\ log[2] = Start /\ log[3] = Held
    BY <1>1
<1>4. \A n \in 1..Len(log) : n = 1 \/ n = 2 \/ n = 3
    BY <1>3
<1>5. place(Genesis) = 0 /\ place(Start) = 1 /\ place(Held) = 2
    <2>1. ASSUME NEW i, NEW m \in 0..2, \A n \in 0..2 : log[n + 1] = i <=> n = m
          PROVE  place(i) = m
        BY <2>1
    <2>2. \A n \in 0..2 : n = 0 \/ n = 1 \/ n = 2
        OBVIOUS
    <2>3. /\ \A n \in 0..2 : log[n + 1] = Genesis <=> n = 0
          /\ \A n \in 0..2 : log[n + 1] = Start <=> n = 1
          /\ \A n \in 0..2 : log[n + 1] = Held <=> n = 2
        BY <1>3, <2>2, Names
    <2> HIDE DEF place
    <2> QED
        BY <2>1, <2>3
<1>6. /\ data(end, q, k)[Genesis] = Confirmed(end, q) /\ data(end, q, k)[Start] = begun(q)
      /\ data(end, q, k)[Held] = hold(k) /\ DOMAIN data(end, q, k) = {Genesis, Start, Held}
    BY Names
<1> HIDE DEF data, place
<1>7. /\ DOMAIN ops = {Genesis, Start, Held}
      /\ ops[Genesis] = Row(Confirmed(end, q), "applied", 0)
      /\ ops[Start] = Row(begun(q), "applied", 1)
      /\ ops[Held] = Row(hold(k), "applied", 2)
    BY <1>1, <1>5, <1>6
<1>8. /\ IsData(begun(q)) /\ Lasting(begun(q)) /\ begun(q).action = "start"
      /\ begun(q).eligible > 0 /\ begun(q).to = "none"
    BY <1>2, BlankData DEF IsData, DataFields, Lasting, Blank, TermActions
<1>9. /\ IsData(hold(k)) /\ Lasting(hold(k)) /\ hold(k).action = "create_restriction"
      /\ hold(k).to = "none"
    BY BlankData DEF IsData, DataFields, Lasting, Blank, TermActions
<1> HIDE DEF begun, hold
<1>10. /\ IsOp(ops[Genesis]) /\ ops[Genesis].status = "applied" /\ ops[Genesis].expected = 0
       /\ ops[Genesis].data = Confirmed(end, q)
    BY <1>7, ConfirmedData, RowFields
<1>11. /\ IsOp(ops[Start]) /\ ops[Start].status = "applied" /\ ops[Start].expected = 1
       /\ ops[Start].data = begun(q)
    BY <1>7, <1>8, RowFields
<1>12. /\ IsOp(ops[Held]) /\ ops[Held].status = "applied" /\ ops[Held].expected = 2
       /\ ops[Held].data = hold(k)
    BY <1>7, <1>9, RowFields
<1>13. OpsRows
    BY <1>1, <1>7, <1>10, <1>11, <1>12 DEF OpsRows
<1>14. OrgRow /\ org.seq = 3 /\ org.status = "offboarding" /\ org.term = Genesis
    BY <1>1, <1>2 DEF OrgRow, OrgFields, NoTerm
<1>15. HoldRows /\ RequestRows
    BY <1>1 DEF HoldRows, RequestRows, IsRequest, RequestFields
<1>16. log \in Seq(DOMAIN ops)
    BY <1>1, <1>7
<1>17. \A i \in DOMAIN ops : InLog(i)
    BY <1>3, <1>7 DEF InLog
<1>18. \A i \in DOMAIN ops : /\ ops[i].status = "applied" /\ InLog(i) /\ Lasting(ops[i].data)
                             /\ ops[i].data.to = "none"
    BY <1>7, <1>8, <1>9, <1>10, <1>11, <1>12, <1>17, ConfirmedData
<1>19. \A n \in 1..Len(log) :
           /\ ops[log[n]].expected = n - 1
           /\ ops[log[n]].data.action = "start" => ops[log[n]].data.eligible > 0
    BY <1>3, <1>4, <1>8, <1>9, <1>10, <1>11, <1>12, ConfirmedData
<1>20. org.term \in DOMAIN ops /\ ops[org.term].data.action \in TermActions
    BY <1>7, <1>10, <1>14, ConfirmedData DEF TermActions
<1>21. \A r \in DOMAIN requests : r \in DOMAIN ops /\ requests[r].status = "pending"
    BY <1>1, <1>7
<1> QED
    BY <1>3, <1>13, <1>14, <1>15, <1>16, <1>18, <1>19, <1>20, <1>21, StartsWith

LEMMA Starting == Init => IInv
BY FreshStarts, InTermStarts, InEpisodeStarts DEF Init

-----------------------------------------------------------------------------
(* Every step. *)

LEMMA AdvanceKeeps == ASSUME IInv, NEW p \in Processes, Advance(p) PROVE IInv'
<1>1. CASE Stages(p)
    BY <1>1, PrepareTermKeeps, PrepareStartKeeps, PrepareCancelKeeps, PreparePolicyKeeps,
       PrepareExtensionKeeps, PrepareRestrictionKeeps, PrepareReleaseKeeps, PrepareStateKeeps,
       PreparePurgeKeeps, RefuseKeeps, RepeatKeeps, QuiesceKeeps, FinalizeKeeps DEF Stages
<1>2. CASE Appends(p)
    BY <1>2, BeginAppendKeeps, PutHeadKeeps, PutReceiptKeeps DEF Appends
<1>3. CASE Applies(p)
    BY <1>3, ApplyTermKeeps, ApplyExpiryKeeps, ApplyStartKeeps, ApplyCancelKeeps,
       ApplyPolicyKeeps, ApplyExtensionKeeps, ApplyRestrictionKeeps, ApplyReleaseKeeps,
       ApplyStateKeeps, ApplyClaimKeeps, ApplyAuthorizationKeeps, ApplyCompletionKeeps,
       ApplyFinalKeeps, AlreadyAppliedKeeps, StaleKeeps DEF Applies
<1>4. CASE PrepareExpiry
    BY <1>4, PrepareExpiryKeeps
<1> QED
    BY <1>1, <1>2, <1>3, <1>4 DEF Advance

LEMMA PurgesKeeps == ASSUME IInv, Purges PROVE IInv'
BY InventoryKeeps, AuthorizeKeeps, ExecuteKeeps, ProgressKeeps, RecordFailureKeeps DEF Purges

LEMMA QueuesKeeps == ASSUME IInv, Discover \/ Recover PROVE IInv'
BY QueueKeeps DEF Discover, Recover

LEMMA StutterKeeps == ASSUME IInv, UNCHANGED vars PROVE IInv'
<1>1. Effect /\ UNCHANGED proc
    BY DEF IInv, Shared, Rows, Effect, Calm, Kept, vars
<1> QED
    BY <1>1, Stands

LEMMA NextKeeps == ASSUME IInv, Next PROVE IInv'
<1>1. CASE Tick \/ StartCall \/ EndCall
    BY <1>1, TickKeeps, StartCallKeeps, EndCallKeeps
<1>2. CASE \E p \in Handlers, c \in Commands : Submit(p, c)
    BY <1>2, SubmitKeeps
<1>3. CASE FindDue \/ FindPending \/ RecoverOne
    BY <1>3, FindDueKeeps, FindPendingKeeps, RecoverOneKeeps
<1>4. CASE \E p \in Processes : Advance(p) \/ Die(p)
    BY <1>4, AdvanceKeeps, DieKeeps
<1>5. CASE Discover \/ Recover \/ Purges
    BY <1>5, QueuesKeeps, PurgesKeeps
<1>6. CASE \E e \in todo : TakeJob(e)
    BY <1>6, TakeJobKeeps
<1>7. CASE \E r \in DOMAIN requests : RunRequest(r) \/ ArmThenFail(r) \/ ExhaustRequest(r)
                                      \/ DropRequest(r)
    BY <1>7, RunRequestKeeps, ArmThenFailKeeps, ExhaustRequestKeeps, DropRequestKeeps
<1> QED
    BY <1>1, <1>2, <1>3, <1>4, <1>5, <1>6, <1>7 DEF Next

(* The inductive invariant holds of the live lifecycle. *)
THEOREM LiveInvariant == Spec => []IInv
<1>1. IInv /\ [Next]_vars => IInv'
    BY NextKeeps, StutterKeeps
<1> QED
    BY <1>1, Starting, PTL DEF Spec

(* Data are purged only after the deadline that the last accepted decision  *)
(* gave, and the organization's row goes only when nothing is owed.         *)
THEOREM DataOutliveTheirDeadline == Spec => []PurgeIsDue
<1>1. IInv => PurgeIsDue
    BY DEF IInv, Shared
<1> QED
    BY <1>1, LiveInvariant, PTL

-----------------------------------------------------------------------------
(* The restore: what is so of the database while it is rebuilt.             *)

RestoreFields == {"at", "disasters", "reruns", "n", "events"}

\* A decision that closes a request is not of an armed erasure.
Unarmed(d) == d.to = "closed" => d.held \notin armed

OrgShape == org = [f \in OrgFields |-> org[f]] /\ org.seq \in Nat

Rebuilt == /\ clock \in Nat /\ OrgShape /\ OpsRows /\ RequestRows /\ OneDecision /\ ~call
           /\ ArmedNeverClosed /\ \A i \in DOMAIN ops : Unarmed(ops[i].data)

Workers == /\ ProcRows /\ Purging /\ proc[Purger].data.to = "none"
           /\ \A p \in Processes : proc[p].pc \in Driving => proc[p].op \in DOMAIN ops

\* The events that were verified.
Verifications ==
    /\ log \in Seq(DOMAIN restore.events)
    /\ \A i \in DOMAIN restore.events : IsData(restore.events[i]) /\ Unarmed(restore.events[i])

\* Where the replay is.
Replaying ==
    /\ restore.at = "events" => org.status = "gone" \/ org.seq >= restore.n - 1
    /\ restore.at \in {"markers", "project"} => restore.n <= Len(log) /\ Event \in DOMAIN ops

Recovering == Rebuilt /\ Workers /\ Verifications /\ Replaying

\* What the backup shows is so, or was.
Backed ==
    /\ saved.org = [f \in OrgFields |-> saved.org[f]] /\ saved.org.seq \in Nat
    /\ saved.ops = [i \in DOMAIN saved.ops |-> saved.ops[i]]
    /\ \A i \in DOMAIN saved.ops : IsOp(saved.ops[i])
    /\ saved.requests = [r \in DOMAIN saved.requests |-> saved.requests[r]]
    /\ \A r \in DOMAIN saved.requests : IsRequest(saved.requests[r])
    /\ \A i, j \in SavedPending : i = j
    /\ \A i \in SavedPending : saved.ops[i].expected = saved.org.seq
    /\ \A r \in DOMAIN saved.requests : saved.requests[r].status = "closed" =>
          r \in DOMAIN requests /\ requests[r].status = "closed"
    /\ \A i \in DOMAIN saved.ops : /\ i \in DOMAIN ops /\ ops[i].data.to = saved.ops[i].data.to
                                   /\ ops[i].data.held = saved.ops[i].data.held

RInv == /\ restore = [f \in RestoreFields |-> restore[f]] /\ restore.n \in Nat /\ restore.n > 0
        /\ restore.at \in {"live", "history", "head"} => restore.n = 1
        /\ restore.at = "live" => IInv /\ (saved # None => Backed)
        /\ restore.at # "live" => Recovering

-----------------------------------------------------------------------------
(* Steps of the database while it is rebuilt.                               *)

\* Nothing that Rebuilt speaks of changes but requests, and these to nothing closed.
Reopens == /\ UNCHANGED <<clock, org, ops, armed, call>>
           /\ RequestRows'
           /\ \A r \in DOMAIN requests' : requests'[r].status = "closed" =>
                 r \in DOMAIN requests /\ requests[r].status = "closed"

LEMMA ReopensRebuilds == ASSUME Rebuilt, Reopens PROVE Rebuilt'
BY DEF Rebuilt, Reopens, OrgShape, OpsRows, OneDecision, Pending, ArmedNeverClosed, Unarmed

\* Calls may only end.
Ending == UNCHANGED <<clock, org, ops, requests, armed>> /\ (call' => call)

LEMMA EndingRebuilds == ASSUME Rebuilt, Ending PROVE Rebuilt'
BY DEF Rebuilt, Ending, OrgShape, OpsRows, RequestRows, OneDecision, Pending, ArmedNeverClosed,
       Unarmed

\* A decision is staged.
LEMMA StagingRebuilds ==
    ASSUME Rebuilt, NEW i, NEW o, Pending = {}, IsOp(o), Unarmed(o.data), o.expected = org.seq,
           ops' = With(ops, i, o), UNCHANGED <<clock, org, requests, armed, call>>
    PROVE  Rebuilt' /\ DOMAIN ops \subseteq DOMAIN ops'
<1>1. /\ OpsRows' /\ DOMAIN ops' = DOMAIN ops \cup {i} /\ ops'[i] = o
      /\ \A j \in DOMAIN ops : j # i => ops'[j] = ops[j]
    BY Joined DEF Rebuilt
<1>2. \A j \in Pending' : j = i
    BY <1>1 DEF Pending
<1>3. OneDecision'
    BY <1>1, <1>2 DEF OneDecision
<1>4. ArmedNeverClosed' /\ RequestRows' /\ OrgShape'
    BY DEF Rebuilt, ArmedNeverClosed, RequestRows, OrgShape
<1>5. (\A j \in DOMAIN ops : Unarmed(ops[j].data))'
    BY <1>1 DEF Rebuilt, Unarmed
<1> QED
    BY <1>1, <1>3, <1>4, <1>5 DEF Rebuilt

\* A pending one is rewritten, in its place.
LEMMA RewritingRebuilds ==
    ASSUME Rebuilt, NEW i, NEW o, Rewrites(i, o), Unarmed(o.data),
           UNCHANGED <<clock, org, requests, armed, call>>
    PROVE  Rebuilt' /\ DOMAIN ops \subseteq DOMAIN ops'
<1>1. /\ OpsRows' /\ DOMAIN ops' = DOMAIN ops /\ i \in DOMAIN ops /\ ops[i].status = "pending"
      /\ ops'[i] = o /\ o.expected = ops[i].expected
      /\ \A j \in DOMAIN ops : j # i => ops'[j] = ops[j]
    BY Rewritten DEF Rebuilt
<1>2. Pending' \subseteq Pending /\ \A j \in Pending : ops'[j].expected = ops[j].expected
    BY <1>1 DEF Pending
<1>3. OneDecision'
    BY <1>2 DEF OneDecision, Rebuilt
<1>4. ArmedNeverClosed' /\ RequestRows' /\ OrgShape'
    BY DEF Rebuilt, ArmedNeverClosed, RequestRows, OrgShape
<1>5. (\A j \in DOMAIN ops : Unarmed(ops[j].data))'
    BY <1>1 DEF Rebuilt, Unarmed
<1> QED
    BY <1>1, <1>3, <1>4, <1>5 DEF Rebuilt

\* The pending one is projected.
LEMMA ProjectingRebuilds ==
    ASSUME Rebuilt, NEW i, NEW o, Rewrites(i, o), o.status = "applied", o.data = ops[i].data,
           UNCHANGED <<clock, armed, call>>, OrgShape', RequestRows',
           \A r \in DOMAIN requests' : requests'[r].status = "closed" =>
              \/ r \in DOMAIN requests /\ requests[r].status = "closed"
              \/ o.data.to = "closed" /\ r = o.data.held
    PROVE  Rebuilt' /\ DOMAIN ops \subseteq DOMAIN ops'
<1>1. /\ OpsRows' /\ DOMAIN ops' = DOMAIN ops /\ i \in DOMAIN ops /\ ops[i].status = "pending"
      /\ ops'[i] = o /\ o.expected = ops[i].expected
      /\ \A j \in DOMAIN ops : j # i => ops'[j] = ops[j]
    BY Rewritten DEF Rebuilt
<1>2. Pending' = {}
    BY <1>1 DEF Pending, Rebuilt, OneDecision
<1>3. OneDecision'
    BY <1>2 DEF OneDecision
<1>4. ArmedNeverClosed'
    <2>1. Unarmed(o.data)
        BY <1>1 DEF Rebuilt
    <2> QED
        BY <2>1 DEF Rebuilt, ArmedNeverClosed, Unarmed
<1>5. (\A j \in DOMAIN ops : Unarmed(ops[j].data))'
    BY <1>1 DEF Rebuilt, Unarmed
<1> QED
    BY <1>1, <1>3, <1>4, <1>5 DEF Rebuilt

-----------------------------------------------------------------------------
(* Where a process goes meanwhile. *)

LEMMA WorkersLand ==
    ASSUME Workers, NEW p \in Processes, NEW x, Landed(p, x), DOMAIN ops \subseteq DOMAIN ops',
           x.pc \in Driving => x.op \in DOMAIN ops',
           p = Purger => /\ x.data.to = "none"
                         /\ x.pc \in {"prepare"} \cup Driving => x.data.action \in PurgeActions
    PROVE  Workers'
<1>1. /\ ProcRows' /\ proc'[p] = x /\ \A q \in Processes : q # p => proc'[q] = proc[q]
    BY DEF Workers, ProcRows, Landed
<1> QED
    BY <1>1, Constants DEF Workers, Purging

LEMMA WorkersStand ==
    ASSUME Workers, UNCHANGED proc, DOMAIN ops \subseteq DOMAIN ops'
    PROVE  Workers'
BY DEF Workers, ProcRows, Purging

LEMMA WorkersGo ==
    ASSUME Workers, NEW p \in Processes, NEW pc, Goto(p, pc), DOMAIN ops \subseteq DOMAIN ops',
           pc \in Driving => proc[p].op \in DOMAIN ops,
           pc \in {"prepare"} \cup Driving => At(p, "prepare") \/ proc[p].pc \in Driving
    PROVE  Workers'
<1>1. PICK x : Landed(p, x) /\ x.pc = pc /\ x.op = proc[p].op /\ x.data = proc[p].data
    BY Going DEF Workers
<1> QED
    BY <1>1, WorkersLand DEF Workers, Purging, At

LEMMA WorkersEnd ==
    ASSUME Workers, NEW p \in Processes, Done(p) \/ Raise(p), DOMAIN ops \subseteq DOMAIN ops'
    PROVE  Workers'
<1>1. CASE Done(p)
    BY <1>1, IdleProc, WorkersLand DEF Done, Landed, Idle, Blank, Driving, Decided
<1>2. CASE p = Purger /\ proc[p].data.action # "claim" /\ Raise(p)
    <2>1. Goto(p, "failing")
        BY <1>2 DEF Raise, Goto
    <2> QED
        BY <2>1, WorkersGo DEF Driving, Decided
<1>3. CASE ~(p = Purger /\ proc[p].data.action # "claim") /\ Raise(p)
    <2>1. Done(p)
        BY <1>3 DEF Raise, Done
    <2> QED
        BY <1>1, <2>1
<1> QED
    BY <1>1, <1>2, <1>3

LEMMA WorkersFollow ==
    ASSUME Workers, NEW p \in Processes, At(p, "apply"), After(p), DOMAIN ops \subseteq DOMAIN ops'
    PROVE  Workers'
<1> DEFINE a == proc[p].data.action
<1>1. p = Purger => a \in PurgeActions
    BY DEF Workers, Purging, At, Driving, Decided
<1>2. CASE p # Purger \/ a = "complete"
    BY <1>2, WorkersEnd DEF After
<1>3. CASE p = Purger /\ a = "claim"
    BY <1>3, WorkersGo DEF After, Driving, Decided
<1>4. CASE p = Purger /\ a = "authorize_destructive_step"
    BY <1>4, WorkersGo DEF After, Driving, Decided
<1>5. CASE p = Purger /\ a = "complete_destructive_step"
    BY <1>5, WorkersGo DEF After, Driving, Decided
<1> QED
    BY <1>1, <1>2, <1>3, <1>4, <1>5 DEF PurgeActions

LEMMA WorkersBegin ==
    ASSUME Workers, Len(log) \in Nat, NEW op, NEW a \in PurgeActions, Begin(op, a), UNCHANGED ops
    PROVE  Workers'
<1>1. PICK d : d = [Blank EXCEPT !.action = a, !.episode = run.episode]
    OBVIOUS
<1>2. IsData(d) /\ d.action = a /\ d.to = "none"
    BY <1>1 DEF IsData, DataFields, Blank
<1>3. PICK x : x = [proc[Purger] EXCEPT !.pc = "prepare", !.op = op, !.seen = Len(log), !.data = d]
    OBVIOUS
<1>4. IsProc(proc[Purger]) /\ ProcRows
    BY Constants DEF Workers, ProcRows
<1>5. IsProc(x) /\ x.pc = "prepare" /\ x.data = d
    BY <1>2, <1>3, <1>4 DEF IsProc, ProcFields
<1>6. proc' = [proc EXCEPT ![Purger].pc = "prepare", ![Purger].op = op, ![Purger].seen = Len(log),
                           ![Purger].data = d]
    BY <1>1 DEF Begin
<1>7. proc' = [proc EXCEPT ![Purger] = x]
    BY <1>3, <1>4, <1>6, Constants DEF ProcRows
<1> QED
    BY <1>2, <1>5, <1>7, Constants, WorkersLand DEF Landed, Driving, Decided

-----------------------------------------------------------------------------
(* The projections. *)

LEMMA ProjectsRebuilds ==
    ASSUME Rebuilt, Workers, NEW p \in Processes, NEW A, Projects(p, A), OrgShape', RequestRows',
           \A r \in DOMAIN requests' : requests'[r].status = "closed" =>
              \/ r \in DOMAIN requests /\ requests[r].status = "closed"
              \/ Data(p).to = "closed" /\ r = Data(p).held
    PROVE  Rebuilt' /\ Workers'
<1>1. PICK i, o : i = proc[p].op /\ o = [ops[i] EXCEPT !.status = "applied"]
    OBVIOUS
<1>2. At(p, "apply") /\ i \in DOMAIN ops /\ ops[i].status = "pending" /\ OpsRows /\ IsOp(ops[i])
    BY <1>1 DEF Projects, Rebuilt, OpsRows, Workers, At, Driving, Decided
<1>3. IsOp(o) /\ o.status = "applied" /\ o.data = ops[i].data /\ o.expected = ops[i].expected
    BY <1>1, <1>2 DEF IsOp, OpFields
<1>4. ops' = [j \in DOMAIN ops |-> IF j = i THEN o ELSE ops[j]]
    <2>1. ops' = [ops EXCEPT ![i].status = "applied"]
        BY <1>1 DEF Projects
    <2> QED
        BY <1>1, <1>2, <2>1 DEF OpsRows
<1>5. Rewrites(i, o)
    BY <1>2, <1>3, <1>4 DEF Rewrites, Pending
<1>6. o.data = Data(p)
    BY <1>1, <1>3 DEF Data
<1>7. Rebuilt' /\ DOMAIN ops \subseteq DOMAIN ops'
    BY <1>3, <1>5, <1>6, ProjectingRebuilds DEF Projects
<1> QED
    BY <1>2, <1>7, WorkersFollow DEF Projects

LEMMA ShapedOrg ==
    ASSUME OrgShape
    PROVE  Sequenced = [f \in OrgFields |-> Sequenced[f]] /\ Sequenced.seq \in Nat
BY DEF OrgShape, OrgFields, Sequenced

\* The requests of a decision that is none of theirs.
LEMMA SameRequests ==
    ASSUME Rebuilt, UNCHANGED requests
    PROVE  /\ RequestRows'
           /\ \A r \in DOMAIN requests' : requests'[r].status = "closed" =>
                 r \in DOMAIN requests /\ requests[r].status = "closed"
BY DEF Rebuilt, RequestRows

LEMMA AppliesToOrg ==
    ASSUME Rebuilt, Workers, NEW p \in Processes,
           \/ ApplyTerm(p) \/ ApplyExpiry(p) \/ ApplyStart(p) \/ ApplyCancel(p) \/ ApplyPolicy(p)
           \/ ApplyExtension(p) \/ ApplyRelease(p) \/ ApplyClaim(p) \/ ApplyAuthorization(p)
           \/ ApplyCompletion(p) \/ ApplyFinal(p)
    PROVE  Rebuilt' /\ Workers'
<1>1. PICK s : s = Sequenced
    OBVIOUS
<1>2. s = [f \in OrgFields |-> s[f]] /\ s.seq \in Nat
    BY <1>1, ShapedOrg DEF Rebuilt
<1>3. CASE ApplyTerm(p)
    <2>1. OrgShape'
        BY <1>1, <1>2, <1>3 DEF ApplyTerm, OrgShape, OrgFields
    <2> QED
        BY <1>3, <2>1, SameRequests, ProjectsRebuilds DEF ApplyTerm
<1>4. CASE ApplyExpiry(p)
    <2>1. OrgShape'
        BY <1>1, <1>2, <1>4 DEF ApplyExpiry, OrgShape, OrgFields
    <2> QED
        BY <1>4, <2>1, SameRequests, ProjectsRebuilds DEF ApplyExpiry
<1>5. CASE ApplyStart(p)
    <2>1. OrgShape'
        BY <1>1, <1>2, <1>5 DEF ApplyStart, OrgShape, OrgFields
    <2> QED
        BY <1>5, <2>1, SameRequests, ProjectsRebuilds DEF ApplyStart
<1>6. CASE ApplyCancel(p)
    <2>1. OrgShape'
        BY <1>1, <1>2, <1>6 DEF ApplyCancel, OrgShape, OrgFields
    <2> QED
        BY <1>6, <2>1, SameRequests, ProjectsRebuilds DEF ApplyCancel
<1>7. CASE ApplyPolicy(p)
    <2>1. OrgShape'
        BY <1>1, <1>2, <1>7 DEF ApplyPolicy, OrgShape
    <2> QED
        BY <1>7, <2>1, SameRequests, ProjectsRebuilds DEF ApplyPolicy
<1>8. CASE ApplyExtension(p)
    <2>1. OrgShape'
        BY <1>1, <1>2, <1>8 DEF ApplyExtension, OrgShape, OrgFields
    <2> QED
        BY <1>8, <2>1, SameRequests, ProjectsRebuilds DEF ApplyExtension
<1>9. CASE ApplyRelease(p)
    <2>1. OrgShape'
        BY <1>1, <1>2, <1>9 DEF ApplyRelease, OrgShape
    <2> QED
        BY <1>9, <2>1, SameRequests, ProjectsRebuilds DEF ApplyRelease
<1>10. CASE ApplyClaim(p)
    <2>1. OrgShape'
        BY <1>1, <1>2, <1>10 DEF ApplyClaim, OrgShape, OrgFields
    <2> QED
        BY <1>10, <2>1, SameRequests, ProjectsRebuilds DEF ApplyClaim
<1>11. CASE ApplyAuthorization(p)
    <2>1. OrgShape'
        BY <1>1, <1>2, <1>11 DEF ApplyAuthorization, OrgShape
    <2> QED
        BY <1>11, <2>1, SameRequests, ProjectsRebuilds DEF ApplyAuthorization
<1>12. CASE ApplyCompletion(p)
    <2>1. OrgShape'
        BY <1>1, <1>2, <1>12 DEF ApplyCompletion, OrgShape
    <2> QED
        BY <1>12, <2>1, SameRequests, ProjectsRebuilds DEF ApplyCompletion
<1>13. CASE ApplyFinal(p)
    <2>1. OrgShape'
        BY <1>1, <1>2, <1>13 DEF ApplyFinal, OrgShape, OrgFields
    <2> QED
        BY <1>13, <2>1, SameRequests, ProjectsRebuilds DEF ApplyFinal
<1> QED
    BY <1>3, <1>4, <1>5, <1>6, <1>7, <1>8, <1>9, <1>10, <1>11, <1>12, <1>13

LEMMA RestrictionRebuilds ==
    ASSUME Rebuilt, Workers, NEW p \in Processes, ApplyRestriction(p)
    PROVE  Rebuilt' /\ Workers'
<1>1. PICK i, q : /\ i = proc[p].op
                  /\ q = [kind |-> Data(p).kind, status |-> "pending", queued |-> TRUE]
    OBVIOUS
<1>2. requests' = requests \/ (Data(p).kind # "none" /\ requests' = With(requests, i, q))
    BY <1>1 DEF ApplyRestriction
<1>3. Data(p).kind # "none" => IsRequest(q) /\ q.status # "closed"
    BY <1>1 DEF IsRequest, RequestFields
<1>4. /\ RequestRows'
      /\ \A r \in DOMAIN requests' : requests'[r].status = "closed" =>
            r \in DOMAIN requests /\ requests[r].status = "closed"
    BY <1>2, <1>3 DEF RequestRows, With, Rebuilt
<1>5. OrgShape'
    BY ShapedOrg DEF ApplyRestriction, OrgShape, Rebuilt
<1> QED
    BY <1>4, <1>5, ProjectsRebuilds DEF ApplyRestriction

LEMMA StateRebuilds ==
    ASSUME Rebuilt, Workers, NEW p \in Processes, ApplyState(p)
    PROVE  Rebuilt' /\ Workers'
<1>1. PICK d : d = Data(p)
    OBVIOUS
<1>2. PICK b : b = (requests[d.held].queued \/ d.to = "pending")
    OBVIOUS
<1>3. PICK q : q = [requests[d.held] EXCEPT !.status = d.to, !.queued = b]
    OBVIOUS
<1>4. RequestRows
    BY DEF Rebuilt
<1>5. requests' = [requests EXCEPT ![d.held].status = d.to,
                                   ![d.held].queued = @ \/ d.to = "pending"]
    BY <1>1 DEF ApplyState
<1>6. d.held \in DOMAIN requests => /\ IsRequest(q) /\ q.status = d.to
                                     /\ requests' = [requests EXCEPT ![d.held] = q]
    <2> HAVE d.held \in DOMAIN requests
    <2>1. IsRequest(q) /\ q.status = d.to
        BY <1>3, <1>4, ZenonT(30) DEF IsRequest, RequestFields, RequestRows
    <2>2. requests' = [requests EXCEPT ![d.held] = q]
        BY <1>2, <1>3, <1>4, <1>5 DEF RequestRows, IsRequest, RequestFields
    <2> QED
        BY <2>1, <2>2
<1>7. d.held \notin DOMAIN requests => requests' = requests
    BY <1>4, <1>5 DEF RequestRows
<1>8. /\ RequestRows'
      /\ \A r \in DOMAIN requests' : requests'[r].status = "closed" =>
            \/ r \in DOMAIN requests /\ requests[r].status = "closed"
            \/ d.to = "closed" /\ r = d.held
    BY <1>4, <1>6, <1>7 DEF RequestRows
<1>9. OrgShape'
    BY ShapedOrg DEF ApplyState, OrgShape, Rebuilt
<1> QED
    BY <1>1, <1>8, <1>9, ProjectsRebuilds DEF ApplyState

LEMMA AppliesRebuilds ==
    ASSUME Rebuilt, Workers, NEW p \in Processes, Applies(p)
    PROVE  Rebuilt' /\ Workers'
<1>1. CASE AlreadyApplied(p)
    BY <1>1, WorkersFollow, EndingRebuilds DEF AlreadyApplied, Ending, orgVars
<1>2. CASE Stale(p)
    BY <1>2, WorkersEnd, EndingRebuilds DEF Stale, Ending, orgVars
<1> QED
    BY <1>1, <1>2, AppliesToOrg, RestrictionRebuilds, StateRebuilds DEF Applies

-----------------------------------------------------------------------------
(* The purge worker's other steps. *)

LEMMA PurgeStaged ==
    ASSUME Rebuilt, Workers, PreparePurge(Purger)
    PROVE  Rebuilt' /\ Workers'
<1>1. PICK x, e : x = proc[Purger] /\ e = x.data
    OBVIOUS
<1>2. PICK d : d = IF e.action = "claim" THEN e ELSE [e EXCEPT !.episode = run.episode]
    OBVIOUS
<1>3. PICK o : o = Row(d, "pending", x.seen)
    OBVIOUS
<1>4. IsProc(x) /\ IsData(d) /\ d.to = "none" /\ x.pc = "prepare" /\ ProcRows
    <2>1. IsProc(x) /\ e.to = "none" /\ x.pc = "prepare" /\ ProcRows
        BY <1>1, Constants DEF Workers, ProcRows, PreparePurge, New, At
    <2> QED
        BY <1>1, <1>2, <2>1, PurgeData DEF IsProc
<1>5. IsOp(o) /\ o.data = d /\ o.expected = x.seen
    BY <1>3, <1>4, RowFields DEF IsProc
<1>6. /\ ops' = With(ops, x.op, o) /\ Pending = {} /\ x.seen = org.seq
      /\ UNCHANGED <<clock, org, requests, armed, call>>
    BY <1>1, <1>2, <1>3 DEF PreparePurge, Stage, Admits, Free, orgVars
<1>7. Rebuilt' /\ DOMAIN ops \subseteq DOMAIN ops' /\ x.op \in DOMAIN ops'
    <2>1. Rebuilt' /\ DOMAIN ops \subseteq DOMAIN ops'
        BY <1>4, <1>5, <1>6, StagingRebuilds DEF Unarmed
    <2>2. x.op \in DOMAIN ops'
        BY <1>6 DEF With
    <2> QED
        BY <2>1, <2>2
<1>8. PICK pc \in {"quiesce", "append"} : Goto(Purger, pc)
    BY DEF PreparePurge, Stage
<1>9. PICK y : Landed(Purger, y) /\ y.op = x.op /\ y.data = e
    BY <1>1, <1>4, <1>8, Constants, Going
<1>10. e.action \in PurgeActions /\ e.to = "none"
    BY <1>1, <1>4, Constants DEF Workers, Purging
<1> QED
    BY <1>7, <1>9, <1>10, Constants, WorkersLand

LEMMA StagesRebuild ==
    ASSUME Rebuilt, Workers, Stages(Purger)
    PROVE  Rebuilt' /\ Workers'
<1>1. PICK x : x = proc[Purger]
    OBVIOUS
<1>2. /\ IsProc(x) /\ Purger \in Processes
      /\ x.pc \in Driving => x.op \in DOMAIN ops
      /\ x.pc = "prepare" => x.data.action \in PurgeActions
    BY <1>1, Constants DEF Workers, ProcRows, Purging
<1>3. ASSUME NEW A, A \cap PurgeActions = {} PROVE ~New(Purger, A)
    BY <1>1, <1>2, <1>3 DEF New, At
<1>4. ~(\/ PrepareTerm(Purger) \/ PrepareStart(Purger) \/ PrepareCancel(Purger)
        \/ PreparePolicy(Purger) \/ PrepareExtension(Purger) \/ PrepareRestriction(Purger)
        \/ PrepareRelease(Purger) \/ PrepareState(Purger))
    BY <1>3 DEF PrepareTerm, PrepareStart, PrepareCancel, PreparePolicy, PrepareExtension,
                PrepareRestriction, PrepareRelease, PrepareState, PurgeActions, TermActions
<1>5. CASE Refuse(Purger)
    BY <1>2, <1>5, WorkersEnd, EndingRebuilds DEF Refuse, Ending, orgVars
<1>6. CASE Repeat(Purger)
    <2>1. At(Purger, "prepare") /\ x.op \in DOMAIN ops /\ Ending /\ UNCHANGED ops
        BY <1>1, <1>6 DEF Repeat, Ending, orgVars
    <2>2. Done(Purger) \/ \E pc \in {"apply", "quiesce", "append"} : Goto(Purger, pc)
        BY <1>6 DEF Repeat
    <2> QED
        BY <1>1, <1>2, <2>1, <2>2, WorkersEnd, WorkersGo, EndingRebuilds
<1>7. CASE Quiesce(Purger)
    <2>1. At(Purger, "quiesce") /\ Ending /\ UNCHANGED ops
        BY <1>7 DEF Quiesce, Ending, orgVars
    <2>2. \E pc \in {"finalize", "append"} : Goto(Purger, pc)
        BY <1>7 DEF Quiesce
    <2> QED
        BY <1>1, <1>2, <2>1, <2>2, WorkersGo, EndingRebuilds DEF At, Driving, Decided
<1>8. CASE Finalize(Purger)
    <2>1. PICK i, o : i = x.op /\ o = ops[i]
        OBVIOUS
    <2>2. /\ x.pc = "finalize" /\ i \in DOMAIN ops /\ IsOp(o) /\ OpsRows
          /\ o.data.period \in Nat /\ clock \in Nat
        BY <1>1, <1>2, <1>8, <2>1
        DEF Finalize, At, Driving, Rebuilt, OpsRows, IsOp, IsData
    <2>3. UNCHANGED <<clock, org, requests, armed, call>>
        BY <1>8 DEF Finalize, orgVars
    <2>4. Unarmed(o.data)
        BY <2>1, <2>2 DEF Rebuilt
    <2>5. PICK m : m = clock + o.data.period
        OBVIOUS
    <2>6. \/ UNCHANGED ops
          \/ i \in Pending /\ ops' = [ops EXCEPT ![i].data.ends = clock, ![i].data.eligible = m]
          \/ i \in Pending /\ ops' = [ops EXCEPT ![i].status = "rejected"]
        BY <1>1, <1>8, <2>1, <2>2, <2>5 DEF Finalize, Pending
    <2>7. Done(Purger) \/ Goto(Purger, "append")
        BY <1>8 DEF Finalize
    <2>8. UNCHANGED ops => Rebuilt'
        BY <2>3, EndingRebuilds DEF Ending
    <2>9. ASSUME i \in Pending, ops' = [ops EXCEPT ![i].status = "rejected"]
          PROVE  Rebuilt'
        <3>1. PICK y : y = [o EXCEPT !.status = "rejected"]
            OBVIOUS
        <3>2. IsOp(y) /\ y.data = o.data /\ y.expected = o.expected
            BY <2>2, <3>1 DEF IsOp, OpFields
        <3>3. ops' = [j \in DOMAIN ops |-> IF j = i THEN y ELSE ops[j]]
            BY <2>1, <2>2, <2>9, <3>1 DEF OpsRows
        <3>4. Rewrites(i, y)
            BY <2>1, <2>9, <3>2, <3>3 DEF Rewrites
        <3> QED
            BY <2>3, <2>4, <3>2, <3>4, RewritingRebuilds
    <2>10. ASSUME i \in Pending,
                  ops' = [ops EXCEPT ![i].data.ends = clock, ![i].data.eligible = m]
           PROVE  Rebuilt'
        <3>1. PICK e : e = [o.data EXCEPT !.ends = clock, !.eligible = m]
            OBVIOUS
        <3>2. IsData(e) /\ e.to = o.data.to /\ e.held = o.data.held
            <4>1. IsData(o.data) /\ m \in Nat
                BY <2>2, <2>5 DEF IsOp
            <4> QED
                BY <3>1, <4>1 DEF IsData, DataFields
        <3>3. PICK y : y = [o EXCEPT !.data = e]
            OBVIOUS
        <3>4. IsOp(y) /\ y.data = e /\ y.expected = o.expected
            BY <2>2, <3>2, <3>3 DEF IsOp, OpFields
        <3>5. ops' = [ops EXCEPT ![i] = y]
            BY <2>1, <2>2, <2>10, <3>1, <3>3 DEF OpsRows, IsOp, OpFields
        <3>6. Rewrites(i, y)
            BY <2>1, <2>2, <2>10, <3>4, <3>5, ZenonT(30) DEF Rewrites, OpsRows
        <3> QED
            BY <2>3, <2>4, <3>2, <3>4, <3>6, RewritingRebuilds DEF Unarmed
    <2>11. Rebuilt' /\ DOMAIN ops \subseteq DOMAIN ops'
        <3>1. DOMAIN ops' = DOMAIN ops
            BY <2>6
        <3> QED
            BY <2>6, <2>8, <2>9, <2>10, <3>1
    <2> QED
        BY <1>1, <1>2, <2>1, <2>2, <2>7, <2>11, WorkersEnd, WorkersGo DEF At, Driving, Decided
<1> QED
    BY <1>4, <1>5, <1>6, <1>7, <1>8, PurgeStaged DEF Stages

LEMMA AppendsRebuild ==
    ASSUME Rebuilt, Workers, Len(log) \in Nat, Appends(Purger)
    PROVE  Rebuilt' /\ Workers'
<1>1. PICK x : x = proc[Purger]
    OBVIOUS
<1>2. /\ IsProc(x) /\ Purger \in Processes /\ ProcRows /\ x.data.to = "none"
      /\ x.pc \in Driving => x.op \in DOMAIN ops /\ x.data.action \in PurgeActions
    BY <1>1, Constants DEF Workers, ProcRows, Purging
<1>3. Ending /\ UNCHANGED ops
    BY DEF Appends, BeginAppend, PutHead, PutReceipt, Ending, orgVars
<1>4. x.pc \in {"append", "head", "receipt"}
    BY <1>1 DEF Appends, BeginAppend, PutHead, PutReceipt, At
<1>5. CASE proc' = [proc EXCEPT ![Purger].pc = "head", ![Purger].seen = Len(log)]
    <2>1. PICK y : y = [x EXCEPT !.pc = "head", !.seen = Len(log)]
        OBVIOUS
    <2>2. IsProc(y) /\ y.op = x.op /\ y.data = x.data
        BY <1>2, <2>1 DEF IsProc, ProcFields
    <2>3. proc' = [proc EXCEPT ![Purger] = y]
        BY <1>1, <1>2, <1>5, <2>1 DEF ProcRows
    <2> QED
        BY <1>2, <1>3, <1>4, <2>2, <2>3, WorkersLand, EndingRebuilds DEF Landed, Driving, Decided
<1>6. \/ Raise(Purger) \/ \E pc \in {"apply", "receipt"} : Goto(Purger, pc)
      \/ proc' = [proc EXCEPT ![Purger].pc = "head", ![Purger].seen = Len(log)]
    BY DEF Appends, BeginAppend, PutHead, PutReceipt
<1> QED
    BY <1>1, <1>2, <1>3, <1>4, <1>5, <1>6, WorkersEnd, WorkersGo, EndingRebuilds
    DEF Driving, Decided

LEMMA PurgesRebuild ==
    ASSUME Rebuilt, Workers, Len(log) \in Nat, Purges
    PROVE  Rebuilt' /\ Workers'
<1>1. Ending /\ UNCHANGED ops
    <2>1. (Inventory \/ Authorize \/ Progress) => Ending /\ UNCHANGED ops
        BY DEF Inventory, Authorize, Progress, Ending, orgVars
    <2>2. Execute => Ending /\ UNCHANGED ops
        BY DEF Execute, Ending, orgVars
    <2>3. (\E late \in BOOLEAN : RecordFailure(late)) => Ending /\ UNCHANGED ops
        BY DEF RecordFailure, Ending
    <2> QED
        BY <2>1, <2>2, <2>3 DEF Purges
<1>2. PICK x, b : x = proc[Purger] /\ b = x.batch + 1
    OBVIOUS
<1>3. IsProc(x) /\ ProcRows /\ Purger \in Processes /\ x.data.to = "none"
    BY <1>2, Constants DEF Workers, ProcRows
<1>4. \/ Done(Purger) \/ Goto(Purger, "next") \/ Goto(Purger, "failing")
      \/ \E op, a : a \in PurgeActions /\ Begin(op, a)
      \/ proc' = [proc EXCEPT ![Purger].pc = "next", ![Purger].batch = b]
    BY <1>2 DEF Purges, Inventory, Authorize, Execute, Progress, RecordFailure, PurgeActions
<1>5. CASE proc' = [proc EXCEPT ![Purger].pc = "next", ![Purger].batch = b]
    <2>1. PICK y : y = [x EXCEPT !.pc = "next", !.batch = b]
        OBVIOUS
    <2>2. IsProc(y) /\ y.pc = "next" /\ y.data = x.data
        BY <1>3, <2>1 DEF IsProc, ProcFields
    <2>3. proc' = [proc EXCEPT ![Purger] = y]
        BY <1>2, <1>3, <1>5, <2>1 DEF ProcRows
    <2> QED
        BY <1>1, <1>3, <2>2, <2>3, WorkersLand, EndingRebuilds DEF Landed, Driving, Decided
<1> QED
    BY <1>1, <1>3, <1>4, <1>5, WorkersEnd, WorkersGo, WorkersBegin, EndingRebuilds
    DEF Driving, Decided

-----------------------------------------------------------------------------
(* What a backup shows stays so while the system lives.                     *)

RequestsLast == \A r \in DOMAIN requests : requests[r].status = "closed" =>
                    r \in DOMAIN requests' /\ requests'[r].status = "closed"
OpsLast == \A i \in DOMAIN ops : /\ i \in DOMAIN ops' /\ ops'[i].data.to = ops[i].data.to
                                 /\ ops'[i].data.held = ops[i].data.held

LEMMA StatusLast ==
    ASSUME OpsRows, NEW i, NEW s, ops' = [ops EXCEPT ![i].status = s]
    PROVE  OpsLast
<1>1. ASSUME NEW j \in DOMAIN ops
      PROVE  j \in DOMAIN ops' /\ ops'[j].data = ops[j].data
    <2>1. CASE j = i
        <3>1. PICK o : o = [ops[j] EXCEPT !.status = s]
            OBVIOUS
        <3>2. o.data = ops[j].data
            BY <3>1 DEF OpsRows, IsOp, OpFields
        <3>3. ops'[j] = o
            BY <2>1, <3>1
        <3> QED
            BY <3>2, <3>3
    <2>2. CASE j # i
        BY <2>2
    <2> QED
        BY <2>1, <2>2
<1> QED
    BY <1>1 DEF OpsLast

LEMMA StagesLast == ASSUME IInv, NEW p \in Processes, Stages(p) PROVE RequestsLast /\ OpsLast
<1>1. OpsRows
    BY DEF IInv, Shared, Rows
<1>2. CASE \E A, d : New(p, A) /\ Stage(p, d)
    BY <1>1, <1>2 DEF New, Stage, With, orgVars, RequestsLast, OpsLast, OpsRows
<1>3. CASE Refuse(p) \/ Repeat(p) \/ Quiesce(p)
    BY <1>3 DEF Refuse, Repeat, Quiesce, orgVars, RequestsLast, OpsLast
<1>4. CASE Finalize(p)
    <2>1. PICK i, e, m : /\ i = proc[p].op /\ e = ops[i].data /\ m = clock + e.period
        OBVIOUS
    <2>2. \/ UNCHANGED ops
          \/ ops' = [ops EXCEPT ![i].data.ends = clock, ![i].data.eligible = m]
          \/ ops' = [ops EXCEPT ![i].status = "rejected"]
        BY <1>4, <2>1 DEF Finalize
    <2>3. UNCHANGED requests
        BY <1>4 DEF Finalize, orgVars
    <2>4. ASSUME ops' = [ops EXCEPT ![i].data.ends = clock, ![i].data.eligible = m]
          PROVE  OpsLast
        <3>1. i \notin DOMAIN ops => ops' = ops
            BY <1>1, <2>4 DEF OpsRows
        <3>2. PICK d : d = [e EXCEPT !.ends = clock, !.eligible = m]
            OBVIOUS
        <3>3. i \in DOMAIN ops => IsOp(ops[i]) /\ d.to = e.to /\ d.held = e.held
            BY <1>1, <2>1, <3>2 DEF OpsRows, IsOp, IsData, DataFields
        <3>4. PICK o : o = [ops[i] EXCEPT !.data = d]
            OBVIOUS
        <3>5. i \in DOMAIN ops => o.data = d
            BY <3>3, <3>4 DEF IsOp, OpFields
        <3>6. i \in DOMAIN ops => ops' = [ops EXCEPT ![i] = o]
            BY <1>1, <2>1, <2>4, <3>2, <3>3, <3>4 DEF OpsRows, IsOp, OpFields
        <3> QED
            BY <2>1, <3>1, <3>3, <3>5, <3>6 DEF OpsLast
    <2> QED
        BY <1>1, <2>2, <2>3, <2>4, StatusLast DEF RequestsLast, OpsLast
<1>5. CASE \/ PrepareTerm(p) \/ PrepareStart(p) \/ PrepareCancel(p) \/ PreparePolicy(p)
           \/ PrepareExtension(p) \/ PrepareRestriction(p) \/ PrepareRelease(p)
           \/ PrepareState(p) \/ PreparePurge(p)
    BY <1>2, <1>5 DEF PrepareTerm, PrepareStart, PrepareCancel, PreparePolicy, PrepareExtension,
                      PrepareRestriction, PrepareRelease, PrepareState, PreparePurge
<1> QED
    BY <1>3, <1>4, <1>5 DEF Stages

LEMMA AppliesLast == ASSUME IInv, NEW p \in Processes, Applies(p) PROVE RequestsLast /\ OpsLast
<1>1. OpsRows /\ RequestRows
    BY DEF IInv, Shared, Rows
<1>2. ASSUME NEW A, Projects(p, A) PROVE OpsLast
    <2>1. PICK i : i = proc[p].op
        OBVIOUS
    <2>2. ops' = [ops EXCEPT ![i].status = "applied"]
        BY <1>2, <2>1 DEF Projects
    <2> QED
        BY <1>1, <2>2, StatusLast
<1>3. CASE AlreadyApplied(p) \/ Stale(p)
    BY <1>3 DEF AlreadyApplied, Stale, orgVars, RequestsLast, OpsLast
<1>4. CASE \/ ApplyTerm(p) \/ ApplyExpiry(p) \/ ApplyStart(p) \/ ApplyCancel(p) \/ ApplyPolicy(p)
           \/ ApplyExtension(p) \/ ApplyRelease(p) \/ ApplyClaim(p) \/ ApplyAuthorization(p)
           \/ ApplyCompletion(p) \/ ApplyFinal(p)
    <2>1. \E A : Projects(p, A)
        BY <1>4 DEF ApplyTerm, ApplyExpiry, ApplyStart, ApplyCancel, ApplyPolicy, ApplyExtension,
                    ApplyRelease, ApplyClaim, ApplyAuthorization, ApplyCompletion, ApplyFinal
    <2>2. UNCHANGED requests
        BY <1>4 DEF ApplyTerm, ApplyExpiry, ApplyStart, ApplyCancel, ApplyPolicy, ApplyExtension,
                    ApplyRelease, ApplyClaim, ApplyAuthorization, ApplyCompletion, ApplyFinal
    <2> QED
        BY <1>2, <2>1, <2>2 DEF RequestsLast
<1>5. CASE ApplyRestriction(p)
    <2>1. proc[p].op \notin DOMAIN requests
        BY <1>5, AtProjection DEF ApplyRestriction, IInv, Shared, Closures
    <2>2. RequestsLast
        BY <1>1, <1>5, <2>1 DEF ApplyRestriction, With, RequestsLast, RequestRows
    <2> QED
        BY <1>2, <1>5, <2>2 DEF ApplyRestriction
<1>6. CASE ApplyState(p)
    <2>1. PICK d : d = Data(p)
        OBVIOUS
    <2>2. PICK A : Projects(p, A) /\ A = {"release_restriction", "set_subject_request_state"}
        BY <1>6 DEF ApplyState
    <2>3. d.kind # "none" /\ Lasting(d) /\ d.action \in A /\ Applicable(p)
          /\ ops[proc[p].op].data = d
        BY <1>6, <2>1, <2>2, AtProjection DEF ApplyState, Data
    <2>4. requests[d.held].status = d.was
        BY <2>2, <2>3 DEF Applicable, TermActions
    <2>5. requests[d.held].status # "closed"
        BY <2>2, <2>3, <2>4 DEF Lasting
    <2>6. requests' = [requests EXCEPT ![d.held].status = d.to,
                                       ![d.held].queued = @ \/ d.to = "pending"]
        BY <1>6, <2>1 DEF ApplyState
    <2>7. RequestsLast
        BY <1>1, <2>5, <2>6 DEF RequestsLast, RequestRows
    <2> QED
        BY <1>2, <2>2, <2>7
<1> QED
    BY <1>3, <1>4, <1>5, <1>6 DEF Applies

LEMMA AdvanceLasts == ASSUME IInv, NEW p \in Processes, Advance(p) PROVE RequestsLast /\ OpsLast
<1>1. OpsRows
    BY DEF IInv, Shared, Rows
<1>2. CASE Appends(p)
    <2>1. UNCHANGED requests
        BY <1>2 DEF Appends, BeginAppend, PutHead, PutReceipt, orgVars
    <2>2. PICK i : i = proc[p].op
        OBVIOUS
    <2>3. UNCHANGED ops \/ ops' = [ops EXCEPT ![i].status = "rejected"]
        BY <1>2, <2>2 DEF Appends, BeginAppend, PutHead, PutReceipt
    <2> QED
        BY <1>1, <2>1, <2>3, StatusLast DEF RequestsLast, OpsLast
<1>3. CASE PrepareExpiry
    <2>1. UNCHANGED requests
        BY <1>3 DEF PrepareExpiry, orgVars
    <2>2. UNCHANGED ops \/ \E i, o : i \notin DOMAIN ops /\ ops' = With(ops, i, o)
        BY <1>3 DEF PrepareExpiry
    <2> QED
        BY <1>1, <2>1, <2>2 DEF RequestsLast, OpsLast, With, OpsRows
<1> QED
    BY <1>2, <1>3, StagesLast, AppliesLast DEF Advance

LEMMA NextLasts == ASSUME IInv, Next PROVE RequestsLast /\ OpsLast
<1>1. RequestRows
    BY DEF IInv, Shared, Rows
<1>2. CASE Tick \/ StartCall \/ EndCall
    BY <1>2 DEF Tick, StartCall, EndCall, orgVars, RequestsLast, OpsLast
<1>3. CASE \E p \in Handlers, c \in Commands : Submit(p, c)
    BY <1>3 DEF Submit, orgVars, RequestsLast, OpsLast
<1>4. CASE FindDue \/ FindPending \/ RecoverOne
    BY <1>4 DEF FindDue, FindPending, RecoverOne, orgVars, RequestsLast, OpsLast
<1>5. CASE \E p \in Processes : Advance(p)
    BY <1>5, AdvanceLasts
<1>6. CASE \E p \in Processes : Die(p)
    BY <1>6 DEF Die, orgVars, RequestsLast, OpsLast
<1>7. CASE Discover \/ Recover
    BY <1>7 DEF Discover, Recover, Queue, orgVars, RequestsLast, OpsLast
<1>8. CASE Purges
    <2>1. CASE Inventory \/ Authorize \/ Progress
        BY <2>1 DEF Inventory, Authorize, Progress, orgVars, RequestsLast, OpsLast
    <2>2. CASE Execute
        BY <2>2 DEF Execute, orgVars, RequestsLast, OpsLast
    <2>3. CASE \E late \in BOOLEAN : RecordFailure(late)
        BY <2>3 DEF RecordFailure, RequestsLast, OpsLast
    <2> QED
        BY <1>8, <2>1, <2>2, <2>3 DEF Purges
<1>9. CASE \E e \in todo : TakeJob(e)
    BY <1>9 DEF TakeJob, orgVars, RequestsLast, OpsLast
<1>10. CASE \E r \in DOMAIN requests : RunRequest(r) \/ ArmThenFail(r) \/ ExhaustRequest(r)
                                       \/ DropRequest(r)
    <2>1. PICK r \in DOMAIN requests : RunRequest(r) \/ ArmThenFail(r) \/ ExhaustRequest(r)
                                       \/ DropRequest(r)
        BY <1>10
    <2>2. UNCHANGED ops
        BY <2>1 DEF RunRequest, ArmThenFail, ExhaustRequest, DropRequest
    <2>3. CASE RunRequest(r)
        BY <1>1, <2>2, <2>3 DEF RunRequest, RequestsLast, OpsLast, RequestRows
    <2>4. CASE ArmThenFail(r)
        BY <2>2, <2>4 DEF ArmThenFail, orgVars, RequestsLast, OpsLast
    <2>5. CASE ExhaustRequest(r)
        BY <1>1, <2>2, <2>5 DEF ExhaustRequest, RequestsLast, OpsLast, RequestRows
    <2>6. CASE DropRequest(r)
        <3>1. PICK q : q = [requests[r] EXCEPT !.queued = FALSE]
            OBVIOUS
        <3>2. q.status = requests[r].status
            BY <1>1, <3>1 DEF RequestRows, IsRequest, RequestFields
        <3>3. requests' = [requests EXCEPT ![r] = q]
            BY <1>1, <2>6, <3>1 DEF DropRequest, RequestRows
        <3> QED
            BY <1>1, <2>2, <3>2, <3>3 DEF RequestsLast, OpsLast, RequestRows
    <2> QED
        BY <2>1, <2>3, <2>4, <2>5, <2>6
<1> QED
    BY <1>2, <1>3, <1>4, <1>5, <1>6, <1>7, <1>8, <1>9, <1>10 DEF Next

-----------------------------------------------------------------------------
(* The restore command. *)

RestoreRow == restore = [f \in RestoreFields |-> restore[f]] /\ restore.n \in Nat /\ restore.n > 0

LEMMA GoesTo ==
    ASSUME RestoreRow, NEW a, GoTo(a)
    PROVE  /\ RestoreRow' /\ restore'.at = a /\ restore'.n = restore.n
           /\ restore'.events = restore.events
BY DEF RestoreRow, RestoreFields, GoTo

\* A step of the command that keeps the history and the events.
LEMMA CommandSteps ==
    ASSUME RInv, restore.at # "live", NEW a, GoTo(a), Rebuilt', Workers', Replaying',
           UNCHANGED <<log, armed>>, a # "live",
           a \in {"history", "head"} => restore.at \in {"history", "head"}
    PROVE  RInv'
<1>1. RestoreRow
    BY DEF RInv, RestoreRow
<1>2. /\ RestoreRow' /\ restore'.at = a /\ restore'.n = restore.n
      /\ restore'.events = restore.events
    BY <1>1, GoesTo
<1>3. Verifications'
    BY <1>2 DEF RInv, Recovering, Verifications, Unarmed
<1> QED
    BY <1>2, <1>3 DEF RInv, Recovering, RestoreRow

\* ... and leaves the replay.
Leaving == {"run", "purging", "fence", "rest", "objects", "done", "held", "applying"}

LEMMA CommandLeaves ==
    ASSUME RInv, restore.at # "live", NEW a \in Leaving, GoTo(a), Rebuilt', Workers',
           UNCHANGED <<log, armed>>
    PROVE  RInv'
<1>1. restore'.at = a
    BY GoesTo DEF RInv, RestoreRow
<1>2. Replaying'
    BY <1>1 DEF Replaying, Leaving
<1> QED
    BY <1>2, CommandSteps DEF Leaving

LEMMA SameRebuilt ==
    ASSUME RInv, restore.at # "live", UNCHANGED <<clock, org, ops, requests, armed, call>>
    PROVE  Rebuilt'
BY EndingRebuilds DEF RInv, Recovering, Ending

LEMMA SameWorkers ==
    ASSUME RInv, restore.at # "live", UNCHANGED <<ops, proc>>
    PROVE  Workers'
BY WorkersStand DEF RInv, Recovering

\* What the markers do to the requests.
LEMMA RequestsReopen ==
    ASSUME Rebuilt, UNCHANGED <<clock, org, ops, armed, call>>, NEW f,
           requests' = [r \in DOMAIN requests |-> f[r]],
           \A r \in DOMAIN requests :
              f[r] \in {requests[r], [requests[r] EXCEPT !.status = "pending"],
                        [requests[r] EXCEPT !.status = "executed"]}
    PROVE  Rebuilt'
<1>1. RequestRows
    BY DEF Rebuilt
<1>2. ASSUME NEW r \in DOMAIN requests
      PROVE  IsRequest(f[r]) /\ (f[r].status = "closed" => requests[r].status = "closed")
    <2>1. PICK q : q = requests[r] /\ IsRequest(q)
        BY <1>1 DEF RequestRows
    <2>2. ASSUME NEW s \in {"pending", "executed"}, NEW x, x = [q EXCEPT !.status = s]
          PROVE  IsRequest(x) /\ x.status # "closed"
        BY <2>1, <2>2 DEF IsRequest, RequestFields
    <2> QED
        BY <2>1, <2>2
<1>3. Reopens
    BY <1>2 DEF Reopens, RequestRows
<1> QED
    BY <1>3, ReopensRebuilds

LEMMA RerunKeeps == ASSUME RInv, Rerun PROVE RInv'
<1>1. RestoreRow /\ restore.at # "live" /\ Recovering
    BY DEF RInv, RestoreRow, Rerun
<1>2. /\ RestoreRow' /\ restore'.at = "history" /\ restore'.n = 1
      /\ restore'.events = restore.events
    <2>1. PICK m : m = restore.reruns + 1
        OBVIOUS
    <2>2. restore' = [restore EXCEPT !.at = "history", !.n = 1, !.reruns = m]
        BY <2>1 DEF Rerun
    <2>3. restore = [f \in RestoreFields |-> restore[f]]
        BY <1>1 DEF RestoreRow
    <2>4. /\ restore' = [f \in RestoreFields |-> restore'[f]] /\ restore'.at = "history"
          /\ restore'.n = 1 /\ restore'.events = restore.events
        BY <2>2, <2>3 DEF RestoreFields
    <2> QED
        BY <2>4 DEF RestoreRow
<1>3. Rebuilt' /\ UNCHANGED <<ops, log, armed>>
    BY <1>1, SameRebuilt DEF Rerun, orgVars, history
<1>4. Workers'
    <2>1. proc' = [p \in Processes |-> Idle]
        BY DEF Rerun
    <2> QED
        BY <2>1, IdleProc, Constants
        DEF Workers, ProcRows, Purging, Idle, Blank, Driving, Decided
<1>5. Verifications' /\ Replaying'
    BY <1>1, <1>2, <1>3 DEF Recovering, Verifications, Unarmed, Replaying
<1> QED
    BY <1>2, <1>3, <1>4, <1>5 DEF RInv, Recovering, RestoreRow

LEMMA HistoryRepaired == ASSUME RInv, RepairInterruptedReceipt \/ ReconstructHead PROVE RInv'
<1>1. RestoreRow /\ restore.at \in {"history", "head"} /\ Recovering /\ restore.n = 1
    BY DEF RInv, RestoreRow, RepairInterruptedReceipt, ReconstructHead, Stage_
<1>2. UNCHANGED <<clock, org, ops, requests, armed, call, proc, log>>
    BY DEF RepairInterruptedReceipt, ReconstructHead, vars, orgVars
<1>3. Rebuilt' /\ Workers'
    BY <1>1, <1>2, SameRebuilt, SameWorkers
<1>4. PICK a \in {"head", "events"} : GoTo(a)
    BY DEF RepairInterruptedReceipt, ReconstructHead
<1>5. restore'.at = a /\ restore'.n = 1
    BY <1>1, <1>4, GoesTo
<1>6. Replaying'
    BY <1>1, <1>2, <1>5 DEF Replaying, Recovering, Rebuilt, OrgShape
<1> QED
    BY <1>1, <1>2, <1>3, <1>4, <1>6, CommandSteps

\* The event that is replayed was verified.
LEMMA EventVerified ==
    ASSUME RInv, restore.at # "live", restore.n <= Len(log)
    PROVE  /\ Event \in DOMAIN restore.events /\ IsData(restore.events[Event])
           /\ Unarmed(restore.events[Event])
<1>1. PICK D, l, n : D = DOMAIN restore.events /\ l = log /\ n = restore.n
    OBVIOUS
<1>2. l \in Seq(D) /\ n \in 1..Len(l)
    BY <1>1 DEF RInv, Recovering, Verifications
<1>3. l[n] \in D
    BY <1>2
<1> QED
    BY <1>1, <1>3 DEF RInv, Recovering, Verifications, Event

LEMMA NextEvent ==
    ASSUME RestoreRow, restore' = [restore EXCEPT !.n = restore.n + 1]
    PROVE  /\ RestoreRow' /\ restore'.at = restore.at /\ restore'.n = restore.n + 1
           /\ restore'.events = restore.events
<1>1. PICK m : m = restore.n + 1 /\ m \in Nat /\ m > 0
    BY DEF RestoreRow
<1>2. restore' = [restore EXCEPT !.n = m]
    BY <1>1
<1> QED
    BY <1>1, <1>2 DEF RestoreRow, RestoreFields

LEMMA EnsureOperationKeeps == ASSUME RInv, EnsureOperation PROVE RInv'
<1>1. RestoreRow /\ restore.at = "events" /\ Recovering /\ restore.n <= Len(log)
    <2>1. RestoreRow /\ restore.at = "events" /\ Recovering /\ ~(restore.n > Len(log))
        BY DEF RInv, RestoreRow, EnsureOperation, Stage_, Replayed
    <2>2. Len(log) \in Nat
        BY <2>1 DEF Recovering, Verifications
    <2> QED
        BY <2>1, <2>2 DEF RestoreRow
<1>2. PICK n, i, d : n = restore.n /\ i = Event /\ d = restore.events[i]
    OBVIOUS
<1>3. IsData(d) /\ Unarmed(d) /\ n \in Nat /\ n > 0 /\ org.seq \in Nat
    BY <1>1, <1>2, EventVerified DEF RestoreRow, Recovering, Rebuilt, OrgShape
<1>4. UNCHANGED <<clock, org, requests, armed, call, log, proc>>
    BY DEF EnsureOperation, orgVars, history
<1>5. CASE (org.status = "gone" \/ org.seq >= n) /\ UNCHANGED ops
                /\ restore' = [restore EXCEPT !.n = n + 1]
    <2>1. /\ RestoreRow' /\ restore'.at = "events" /\ restore'.n = n + 1
          /\ restore'.events = restore.events
        BY <1>1, <1>2, <1>5, NextEvent
    <2>2. Rebuilt' /\ Workers'
        BY <1>1, <1>4, <1>5, SameRebuilt, SameWorkers
    <2>3. Verifications' /\ Replaying'
        BY <1>1, <1>3, <1>4, <1>5, <2>1 DEF Recovering, Verifications, Unarmed, Replaying
    <2> QED
        BY <2>1, <2>2, <2>3 DEF RInv, Recovering, RestoreRow
<1>6. CASE Hold /\ UNCHANGED ops
    <2>1. Rebuilt' /\ Workers'
        BY <1>1, <1>4, <1>6, SameRebuilt, SameWorkers
    <2> QED
        BY <1>1, <1>4, <1>6, <2>1, CommandLeaves DEF Hold, Leaving
<1>7. CASE GoTo("markers") /\ i \in DOMAIN ops /\ UNCHANGED ops
    <2>1. Rebuilt' /\ Workers'
        BY <1>1, <1>4, <1>7, SameRebuilt, SameWorkers
    <2>2. restore'.at = "markers" /\ restore'.n = restore.n
        BY <1>1, <1>7, GoesTo
    <2>3. Replaying'
        BY <1>1, <1>2, <1>4, <1>7, <2>2 DEF Replaying, Event
    <2> QED
        BY <1>1, <1>4, <1>7, <2>1, <2>3, CommandSteps
<1>8. CASE /\ ~(org.status = "gone" \/ org.seq >= n) /\ i \notin DOMAIN ops /\ GoTo("markers")
           /\ ops' = With(Fenced, i, Row(d, "pending", n - 1))
    <2>1. org.seq = n - 1
        BY <1>1, <1>2, <1>3, <1>8 DEF Recovering, Replaying
    <2>2. PICK o : o = Row(d, "pending", n - 1)
        OBVIOUS
    <2>3. IsOp(o) /\ o.status = "pending" /\ o.expected = org.seq /\ o.data = d
        BY <1>3, <2>1, <2>2, RowFields
    <2>4. PICK g : g = Fenced
        OBVIOUS
    <2>5. /\ g = [j \in DOMAIN ops |-> g[j]]
          /\ \A j \in DOMAIN ops : /\ IsOp(g[j]) /\ g[j].status # "pending"
                                   /\ g[j].data = ops[j].data
        <3>1. OpsRows
            BY <1>1 DEF Recovering, Rebuilt
        <3>2. g = [j \in DOMAIN ops |-> IF j \in Pending THEN [ops[j] EXCEPT !.status = "rejected"]
                                        ELSE ops[j]]
            BY <2>4 DEF Fenced
        <3>3. ASSUME NEW x, IsOp(x), NEW y, y = [x EXCEPT !.status = "rejected"]
              PROVE  IsOp(y) /\ y.status = "rejected" /\ y.data = x.data
            BY <3>3 DEF IsOp, OpFields
        <3> QED
            BY <3>1, <3>2, <3>3 DEF OpsRows, Pending
    <2>6. /\ ops' = [j \in DOMAIN ops \cup {i} |-> IF j = i THEN o ELSE g[j]]
        BY <1>8, <2>2, <2>4, <2>5 DEF With
    <2>7. /\ OpsRows' /\ DOMAIN ops' = DOMAIN ops \cup {i} /\ ops'[i] = o
          /\ \A j \in DOMAIN ops : j # i => ops'[j] = g[j]
        BY <2>3, <2>5, <2>6 DEF OpsRows
    <2>8. OneDecision'
        BY <1>4, <2>3, <2>5, <2>7 DEF OneDecision, Pending
    <2>9. (\A j \in DOMAIN ops : Unarmed(ops[j].data))'
        BY <1>1, <1>3, <1>4, <2>3, <2>5, <2>7 DEF Recovering, Rebuilt, Unarmed
    <2>10. Rebuilt'
        BY <1>1, <1>4, <2>7, <2>8, <2>9
        DEF Recovering, Rebuilt, OrgShape, RequestRows, ArmedNeverClosed
    <2>11. Workers'
        BY <1>1, <1>4, <2>7, WorkersStand DEF Recovering
    <2>12. restore'.at = "markers" /\ restore'.n = restore.n
        BY <1>1, <1>8, GoesTo
    <2>13. Replaying'
        BY <1>1, <1>2, <1>4, <2>7, <2>12 DEF Replaying, Event
    <2> QED
        BY <1>1, <1>4, <1>8, <2>10, <2>11, <2>13, CommandSteps
<1>9. \/ (org.status = "gone" \/ org.seq >= n) /\ UNCHANGED ops
              /\ restore' = [restore EXCEPT !.n = n + 1]
      \/ Hold /\ UNCHANGED ops
      \/ GoTo("markers") /\ i \in DOMAIN ops /\ UNCHANGED ops
      \/ /\ ~(org.status = "gone" \/ org.seq >= n) /\ i \notin DOMAIN ops /\ GoTo("markers")
         /\ ops' = With(Fenced, i, Row(d, "pending", n - 1))
    BY <1>2 DEF EnsureOperation, Hold, GoTo
<1> QED
    BY <1>5, <1>6, <1>7, <1>8, <1>9

LEMMA MarkersBeforePurgeKeeps == ASSUME RInv, MarkersBeforePurge PROVE RInv'
<1>1. RestoreRow /\ restore.at = "markers" /\ Recovering
    BY DEF RInv, RestoreRow, MarkersBeforePurge, Stage_
<1>2. UNCHANGED <<clock, org, ops, armed, call, log, proc>>
    BY DEF MarkersBeforePurge, history
<1>3. PICK f : f = Reopened
    OBVIOUS
<1>4. \A r \in DOMAIN requests :
          f[r] \in {requests[r], [requests[r] EXCEPT !.status = "pending"]}
    BY <1>3 DEF Reopened
<1>5. UNCHANGED requests \/ requests' = [r \in DOMAIN requests |-> f[r]]
    BY <1>3 DEF MarkersBeforePurge, Reopened
<1>6. Rebuilt'
    <2>1. CASE UNCHANGED requests
        BY <1>1, <1>2, <2>1, SameRebuilt
    <2>2. CASE requests' = [r \in DOMAIN requests |-> f[r]]
        BY <1>1, <1>2, <1>4, <2>2, RequestsReopen DEF Recovering
    <2> QED
        BY <1>5, <2>1, <2>2
<1>7. Workers'
    BY <1>1, <1>2, SameWorkers
<1>8. GoTo("project") \/ GoTo("held")
    BY DEF MarkersBeforePurge, Hold
<1>9. CASE GoTo("project")
    <2>1. restore'.at = "project" /\ restore'.n = restore.n
        BY <1>1, <1>9, GoesTo
    <2>2. Replaying'
        BY <1>1, <1>2, <2>1 DEF Recovering, Replaying, Event
    <2> QED
        BY <1>1, <1>2, <1>6, <1>7, <1>9, <2>2, CommandSteps
<1>10. CASE GoTo("held")
    BY <1>1, <1>2, <1>6, <1>7, <1>10, CommandLeaves DEF Leaving
<1> QED
    BY <1>8, <1>9, <1>10

\* The event is handed to an apply function.
LEMMA ReplayerLands ==
    ASSUME RInv, restore.at = "project", UNCHANGED ops, proc' = [proc EXCEPT ![Restorer] = Replayer]
    PROVE  Workers'
<1>1. PICK x, d : x = Replayer /\ d = restore.events[Event]
    OBVIOUS
<1>2. Recovering /\ IsData(d) /\ Event \in DOMAIN ops
    BY <1>1, EventVerified DEF RInv, Recovering, Replaying
<1>3. IsProc(x) /\ x.op = Event
    BY <1>1, <1>2 DEF Replayer, Idle, IsProc, ProcFields
<1> QED
    BY <1>1, <1>2, <1>3, Constants, WorkersLand DEF Landed, Restorer, Recovering

LEMMA ApplySimpleKeeps == ASSUME RInv, ApplySimple PROVE RInv'
<1>1. restore.at = "project" /\ GoTo("applying")
      /\ UNCHANGED <<clock, org, ops, requests, armed, call, log>>
    BY DEF ApplySimple, Stage_, orgVars, history
<1>2. Workers'
    BY <1>1, ReplayerLands DEF ApplySimple
<1> QED
    BY <1>1, <1>2, SameRebuilt, CommandLeaves DEF Leaving

LEMMA ReplayPurgeEventKeeps == ASSUME RInv, ReplayPurgeEvent PROVE RInv'
<1>1. /\ restore.at = "project"
      /\ UNCHANGED <<clock, org, ops, requests, armed, call, log>>
    BY DEF ReplayPurgeEvent, Stage_, history
<1>2. \/ GoTo("held") /\ UNCHANGED proc
      \/ GoTo("applying") /\ proc' = [proc EXCEPT ![Restorer] = Replayer]
    BY DEF ReplayPurgeEvent, Hold
<1>3. Workers'
    BY <1>1, <1>2, ReplayerLands, SameWorkers
<1> QED
    BY <1>1, <1>2, <1>3, SameRebuilt, CommandLeaves DEF Leaving

LEMMA ProjectKeeps == ASSUME RInv, Project PROVE RInv'
<1>1. /\ restore.at = "applying" /\ Applies(Restorer) /\ UNCHANGED restore
      /\ Recovering /\ RestoreRow
    BY DEF Project, Stage_, restoreVars, RInv, RestoreRow
<1>2. UNCHANGED <<log, armed>>
    BY <1>1 DEF Applies, ApplyTerm, ApplyExpiry, ApplyStart, ApplyCancel, ApplyPolicy,
                ApplyExtension, ApplyRestriction, ApplyRelease, ApplyState, ApplyClaim,
                ApplyAuthorization, ApplyCompletion, ApplyFinal, AlreadyApplied, Stale, Projects,
                history
<1>3. Rebuilt' /\ Workers'
    BY <1>1, AppliesRebuilds, Constants DEF Restorer, Recovering
<1>4. Verifications' /\ Replaying'
    BY <1>1, <1>2 DEF Recovering, Verifications, Unarmed, Replaying
<1> QED
    BY <1>1, <1>3, <1>4 DEF RInv, Recovering

LEMMA ProjectedKeeps == ASSUME RInv, Projected PROVE RInv'
<1>1. /\ restore.at = "applying" /\ Recovering /\ RestoreRow
      /\ UNCHANGED <<clock, org, ops, requests, armed, call, log, proc>>
    BY DEF Projected, Stage_, RInv, RestoreRow, vars
<1>2. Rebuilt' /\ Workers'
    BY <1>1, SameRebuilt, SameWorkers
<1>3. CASE GoTo("held")
    BY <1>1, <1>2, <1>3, CommandLeaves DEF Leaving
<1>4. CASE org.seq = restore.n /\ restore' = [restore EXCEPT !.at = "events", !.n = @ + 1]
    <2>1. PICK k, m : k = restore.n /\ k \in Nat /\ m = k + 1 /\ m \in Nat /\ m > 0
        BY <1>1, SMTT(30) DEF RestoreRow
    <2>2. restore' = [restore EXCEPT !.at = "events", !.n = m]
        BY <1>4, <2>1
    <2>3. /\ RestoreRow' /\ restore'.at = "events" /\ restore'.n = m
          /\ restore'.events = restore.events
        BY <1>1, <2>1, <2>2 DEF RestoreRow, RestoreFields
    <2>4. Verifications'
        BY <1>1, <2>3 DEF Recovering, Verifications, Unarmed
    <2>5. org'.seq >= restore'.n - 1
        <3>1. org'.seq = k
            BY <1>1, <1>4, <2>1
        <3>2. k >= m - 1
            BY <2>1
        <3> QED
            BY <2>3, <3>1, <3>2
    <2>6. Replaying'
        BY <2>3, <2>5 DEF Replaying
    <2> QED
        BY <1>2, <2>3, <2>4, <2>6 DEF RInv, Recovering, RestoreRow
<1> QED
    BY <1>3, <1>4 DEF Projected, Hold

\* The markers are replayed: what is rewritten is pending or executed.
LEMMA MarkersReplayed ==
    ASSUME Rebuilt, UNCHANGED <<clock, org, ops, armed, call>>,
           \/ UNCHANGED requests
           \/ requests' = [r \in DOMAIN requests |->
                             IF r \in Unerased THEN Erased(Unerased)[r] ELSE Reopened[r]]
           \/ requests' = Erased(Marked)
    PROVE  Rebuilt'
<1>1. CASE UNCHANGED requests
    BY <1>1, EndingRebuilds DEF Ending
<1>2. ASSUME NEW f, f = Reopened \/ \E done : f = Erased(done), NEW r \in DOMAIN requests
      PROVE  f[r] \in {requests[r], [requests[r] EXCEPT !.status = "pending"],
                       [requests[r] EXCEPT !.status = "executed"]}
    BY <1>2 DEF Reopened, Erased
<1>3. CASE requests' = Erased(Marked)
    <2>1. PICK f : f = Erased(Marked)
        OBVIOUS
    <2>2. requests' = [r \in DOMAIN requests |-> f[r]]
        BY <1>3, <2>1 DEF Erased
    <2> QED
        BY <1>2, <2>1, <2>2, RequestsReopen
<1>4. CASE requests' = [r \in DOMAIN requests |->
                          IF r \in Unerased THEN Erased(Unerased)[r] ELSE Reopened[r]]
    <2>1. PICK g, h, U : g = Erased(Unerased) /\ h = Reopened /\ U = Unerased
        OBVIOUS
    <2>2. PICK f : f = [r \in DOMAIN requests |-> IF r \in U THEN g[r] ELSE h[r]]
        OBVIOUS
    <2>3. requests' = [r \in DOMAIN requests |-> f[r]]
        BY <1>4, <2>1, <2>2
    <2>4. ASSUME NEW r \in DOMAIN requests
          PROVE  f[r] \in {requests[r], [requests[r] EXCEPT !.status = "pending"],
                           [requests[r] EXCEPT !.status = "executed"]}
        BY <1>2, <2>1, <2>2
    <2> QED
        BY <2>3, <2>4, RequestsReopen
<1> QED
    BY <1>1, <1>3, <1>4

LEMMA MarkersKeep ==
    ASSUME RInv, ReplayMarkers \/ ReplayRemainingMarkers \/ ReconcileObjects
    PROVE  RInv'
<1>1. restore.at # "live" /\ Recovering
    BY DEF ReplayMarkers, ReplayRemainingMarkers, ReconcileObjects, Stage_, RInv
<1>2. UNCHANGED <<clock, org, ops, armed, call, log, proc>>
    BY DEF ReplayMarkers, ReplayRemainingMarkers, ReconcileObjects, history
<1>3. \/ UNCHANGED requests
      \/ requests' = [r \in DOMAIN requests |->
                        IF r \in Unerased THEN Erased(Unerased)[r] ELSE Reopened[r]]
      \/ requests' = Erased(Marked)
    BY DEF ReplayMarkers, ReplayRemainingMarkers, ReconcileObjects
<1>4. PICK a \in Leaving : GoTo(a)
    BY DEF ReplayMarkers, ReplayRemainingMarkers, ReconcileObjects, Hold, Leaving
<1>5. Rebuilt' /\ Workers'
    BY <1>1, <1>2, <1>3, MarkersReplayed, SameWorkers DEF Recovering
<1> QED
    BY <1>1, <1>2, <1>4, <1>5, CommandLeaves

LEMMA ResumeRunKeeps == ASSUME RInv, ResumeRun PROVE RInv'
<1>1. restore.at # "live" /\ Recovering
    BY DEF ResumeRun, Stage_, RInv
<1>2. UNCHANGED <<clock, org, ops, requests, armed, call, log>>
    BY DEF ResumeRun, orgVars, history
<1>3. PICK a \in Leaving : GoTo(a)
    BY DEF ResumeRun, Hold, Leaving
<1>4. \/ UNCHANGED proc
      \/ proc' = [proc EXCEPT ![Purger] = [Worker(run.episode) EXCEPT !.pc = "inventory"]]
    BY DEF ResumeRun
<1>5. CASE proc' = [proc EXCEPT ![Purger] = [Worker(run.episode) EXCEPT !.pc = "inventory"]]
    <2>1. PICK w, k : w = Worker(run.episode) /\ k = Len(log)
        OBVIOUS
    <2>2. IsProc(w) /\ w.data = Blank
        <3>1. k \in Nat
            BY <1>1, <2>1 DEF Recovering, Verifications
        <3>2. w = [Idle EXCEPT !.episode = run.episode, !.batch = 1, !.seen = k]
            BY <2>1 DEF Worker
        <3> QED
            BY <3>1, <3>2, BlankData DEF IsProc, ProcFields, Idle
    <2>3. PICK x : x = [w EXCEPT !.pc = "inventory"]
        OBVIOUS
    <2>4. IsProc(x) /\ x.pc = "inventory" /\ x.data.to = "none"
        BY <2>2, <2>3 DEF IsProc, ProcFields, Blank
    <2>5. proc' = [proc EXCEPT ![Purger] = x]
        BY <1>5, <2>1, <2>3
    <2>6. Workers'
        BY <1>1, <1>2, <2>4, <2>5, Constants, WorkersLand DEF Landed, Recovering, Driving, Decided
    <2> QED
        BY <1>1, <1>2, <1>3, <2>6, SameRebuilt, CommandLeaves
<1> QED
    BY <1>1, <1>2, <1>3, <1>4, <1>5, SameRebuilt, SameWorkers, CommandLeaves

LEMMA CommandEnds == ASSUME RInv, RunEnds \/ NoFence PROVE RInv'
<1>1. /\ restore.at # "live"
      /\ UNCHANGED <<clock, org, ops, requests, armed, call, log, proc>>
    BY DEF RunEnds, NoFence, Stage_, vars
<1>2. PICK a \in Leaving : GoTo(a)
    BY DEF RunEnds, NoFence, Hold, Leaving
<1> QED
    BY <1>1, <1>2, SameRebuilt, SameWorkers, CommandLeaves

\* The history grows by the decision whose head was written.
LEMMA GrownBy ==
    ASSUME NEW D, NEW l \in Seq(D), NEW k, NEW m, m = Append(l, k) \/ m = l,
           NEW S, S = {m[n] : n \in 1..Len(m)}
    PROVE  m \in Seq(S) /\ (m = l => S \subseteq D) /\ S \subseteq D \cup {k}
<1>1. m \in Seq(D \cup {k})
    OBVIOUS
<1>2. \A n \in 1..Len(m) : m[n] \in S
    OBVIOUS
<1>3. Len(m) \in Nat /\ m = [n \in 1..Len(m) |-> m[n]]
    BY <1>1
<1>4. m \in Seq(S)
    <2>1. PICK k2 : k2 = Len(m) /\ k2 \in Nat
        BY <1>3
    <2>2. m \in [1..k2 -> S]
        BY <1>2, <1>3, <2>1
    <2> QED
        BY <2>1, <2>2, SeqDef
<1>5. \A n \in 1..Len(m) : m[n] \in D \cup {k}
    BY <1>1
<1> QED
    BY <1>4, <1>5

LEMMA ExecuteRunKeeps == ASSUME RInv, ExecuteRun PROVE RInv'
<1>1. restore.at = "purging" /\ Recovering /\ RestoreRow
    BY DEF ExecuteRun, Stage_, RInv, RestoreRow
<1>2. Len(log) \in Nat
    BY <1>1 DEF Recovering, Verifications
<1>3. Stages(Purger) \/ Appends(Purger) \/ Applies(Purger) \/ Purges
    BY Constants DEF ExecuteRun, Advance
<1>4. Rebuilt' /\ Workers'
    BY <1>1, <1>2, <1>3, Constants, StagesRebuild, AppendsRebuild, AppliesRebuilds, PurgesRebuild
    DEF Recovering
<1>5. PICK k, E : k = proc[Purger].op /\ E = restore.events
    OBVIOUS
<1>6. UNCHANGED armed /\ (log' = log \/ (log' = Append(log, k) /\ k \in DOMAIN ops))
    <2>1. CASE Stages(Purger)
        BY <2>1 DEF Stages, PrepareTerm, PrepareStart, PrepareCancel, PreparePolicy,
                    PrepareExtension, PrepareRestriction, PrepareRelease, PrepareState,
                    PreparePurge, Stage, Refuse, Repeat, Quiesce, Finalize, history
    <2>2. CASE Appends(Purger)
        BY <1>1, <1>5, <2>2, Constants
        DEF Appends, BeginAppend, PutHead, PutReceipt, At, history, Recovering, Workers, Driving,
            Decided
    <2>3. CASE Applies(Purger)
        BY <2>3 DEF Applies, ApplyTerm, ApplyExpiry, ApplyStart, ApplyCancel, ApplyPolicy,
                    ApplyExtension, ApplyRestriction, ApplyRelease, ApplyState, ApplyClaim,
                    ApplyAuthorization, ApplyCompletion, ApplyFinal, AlreadyApplied, Stale,
                    Projects, history
    <2>4. CASE Purges
        <3>1. CASE Inventory \/ Authorize \/ Progress
            BY <3>1 DEF Inventory, Authorize, Progress, history
        <3>2. CASE Execute
            BY <3>2 DEF Execute, history
        <3>3. CASE \E late \in BOOLEAN : RecordFailure(late)
            BY <3>3 DEF RecordFailure, history
        <3> QED
            BY <2>4, <3>1, <3>2, <3>3 DEF Purges
    <2> QED
        BY <1>3, <2>1, <2>2, <2>3, <2>4
<1>7. PICK S, e : /\ S = Accepted'
                  /\ e = [i \in S |-> IF i \in DOMAIN E THEN E[i] ELSE ops[i].data]
    OBVIOUS
<1>8. restore' = [restore EXCEPT !.events = e]
    BY <1>5, <1>7 DEF ExecuteRun
<1>9. RestoreRow' /\ restore'.at = "purging" /\ restore'.events = e
    BY <1>1, <1>8 DEF RestoreRow, RestoreFields
<1>10. S = {log'[n] : n \in 1..Len(log')}
    BY <1>7 DEF Accepted
<1>11. log \in Seq(DOMAIN E)
    BY <1>1, <1>5 DEF Recovering, Verifications
<1>12. /\ log' \in Seq(S)
       /\ \A i \in S : i \in DOMAIN E \/ i \in DOMAIN ops
    BY <1>6, <1>10, <1>11, GrownBy
<1>13. \A i \in DOMAIN E : IsData(E[i]) /\ Unarmed(E[i])
    BY <1>1, <1>5 DEF Recovering, Verifications
<1>14. \A i \in DOMAIN ops : IsData(ops[i].data) /\ Unarmed(ops[i].data)
    BY <1>1 DEF Recovering, Rebuilt, OpsRows, IsOp
<1>15. \A i \in S : IsData(e[i]) /\ Unarmed(e[i])
    BY <1>7, <1>12, <1>13, <1>14
<1>16. Verifications'
    BY <1>6, <1>7, <1>9, <1>12, <1>15 DEF Verifications, Unarmed
<1>17. Replaying'
    BY <1>9 DEF Replaying
<1> QED
    BY <1>4, <1>9, <1>16, <1>17 DEF RInv, Recovering, RestoreRow

-----------------------------------------------------------------------------
(* The live system, the backup and the disaster. *)

\* In the live system no operation closes a request whose erasure is armed.
LEMMA LiveUnarmed == ASSUME IInv, NEW i \in DOMAIN ops PROVE Unarmed(ops[i].data)
<1>1. Lasting(ops[i].data) /\ IsOp(ops[i])
    BY DEF IInv, Shared, Decisions, Rows, OpsRows
<1>2. CASE ops[i].status = "pending"
    BY <1>2 DEF IInv, Shared, Decisions, Pending, Fits, Unarmed
<1>3. CASE ops[i].status = "applied"
    BY <1>3 DEF IInv, Shared, Chain, Closures, InLog, Unarmed
<1>4. CASE ops[i].status = "rejected"
    BY <1>1, <1>4 DEF IInv, Shared, Rejections, Lasting, Unarmed
<1> QED
    BY <1>1, <1>2, <1>3, <1>4 DEF IsOp

LEMMA BackedLasts ==
    ASSUME Backed, RequestsLast, OpsLast, UNCHANGED saved
    PROVE  Backed'
<1>1. ASSUME NEW i \in DOMAIN saved.ops
      PROVE  /\ i \in DOMAIN ops' /\ ops'[i].data.to = saved.ops[i].data.to
             /\ ops'[i].data.held = saved.ops[i].data.held
    BY DEF Backed, OpsLast
<1>2. ASSUME NEW r \in DOMAIN saved.requests, saved.requests[r].status = "closed"
      PROVE  r \in DOMAIN requests' /\ requests'[r].status = "closed"
    BY <1>2 DEF Backed, RequestsLast
<1> QED
    BY <1>1, <1>2 DEF Backed, SavedPending

LEMMA LiveKeeps == ASSUME RInv, Live PROVE RInv'
<1>1. restore.at = "live" /\ IInv /\ Next /\ UNCHANGED <<restore, saved>>
    BY DEF RInv, Live, Stage_, restoreVars
<1>2. IInv' /\ RequestsLast /\ OpsLast
    BY <1>1, NextKeeps, NextLasts
<1> QED
    BY <1>1, <1>2, BackedLasts DEF RInv

LEMMA BackupKeeps == ASSUME RInv, Backup PROVE RInv'
<1>1. restore.at = "live" /\ IInv /\ UNCHANGED <<restore, vars>> /\ saved' = Database
    BY DEF RInv, Backup, Stage_
<1>2. IInv'
    BY <1>1, StutterKeeps
<1>3. saved'.org = org /\ saved'.ops = ops /\ saved'.requests = requests
    BY <1>1 DEF Database
<1>4. OrgRow /\ OpsRows /\ RequestRows /\ OneDecision
    BY <1>1 DEF IInv, Shared, Rows
<1>5. UNCHANGED <<org, ops, requests>>
    BY <1>1 DEF vars
<1>6. SavedPending' = Pending
    BY <1>3 DEF SavedPending, Pending
<1>7. Backed'
    BY <1>3, <1>4, <1>5, <1>6 DEF Backed, OrgRow, OpsRows, RequestRows, OneDecision, Pending
<1> QED
    BY <1>1, <1>2, <1>7 DEF RInv

LEMMA DisasterKeeps == ASSUME RInv, Disaster PROVE RInv'
<1>1. restore.at = "live" /\ IInv /\ Backed /\ RestoreRow /\ restore.n = 1
    BY DEF RInv, RestoreRow, Disaster, Stage_
<1>2. /\ org' = saved.org /\ ops' = saved.ops /\ requests' = saved.requests
      /\ proc' = [p \in Processes |-> Idle] /\ call' = FALSE /\ UNCHANGED <<clock, armed, log>>
    BY DEF Disaster
<1>3. PICK e : e = Events(Accepted)
    OBVIOUS
<1>4. restore' = [restore EXCEPT !.at = "history", !.disasters = 0, !.events = e]
    BY <1>3 DEF Disaster
<1>5. RestoreRow' /\ restore'.at = "history" /\ restore'.n = 1 /\ restore'.events = e
    BY <1>1, <1>4 DEF RestoreRow, RestoreFields
<1>6. Pending' = SavedPending
    BY <1>2 DEF Pending, SavedPending
<1>7. /\ OrgShape' /\ OpsRows' /\ RequestRows' /\ OneDecision'
    BY <1>1, <1>2, <1>6 DEF Backed, OrgShape, OpsRows, RequestRows, OneDecision, SavedPending
<1>8. ArmedNeverClosed'
    BY <1>1, <1>2 DEF Backed, ArmedNeverClosed, IInv, Shared, Closures
<1>9. (\A i \in DOMAIN ops : Unarmed(ops[i].data))'
    BY <1>1, <1>2, LiveUnarmed DEF Backed, Unarmed
<1>10. Rebuilt'
    BY <1>1, <1>2, <1>7, <1>8, <1>9 DEF Rebuilt, IInv, Shared, Rows
<1>11. Workers'
    BY <1>2, IdleProc, Constants DEF Workers, ProcRows, Purging, Idle, Blank, Driving, Decided
<1>12. /\ DOMAIN e = Accepted /\ \A i \in Accepted : e[i] = ops[i].data
    BY <1>3 DEF Events
<1>13. log \in Seq(Accepted) /\ Accepted \subseteq DOMAIN ops
    BY <1>1, GrownBy DEF Accepted, IInv, Shared, Rows
<1>14. \A i \in DOMAIN e : IsData(e[i]) /\ Unarmed(e[i])
    BY <1>1, <1>12, <1>13, LiveUnarmed DEF IInv, Shared, Rows, OpsRows, IsOp
<1>15. Verifications' /\ Replaying'
    BY <1>2, <1>5, <1>12, <1>13, <1>14 DEF Verifications, Unarmed, Replaying
<1> QED
    BY <1>5, <1>10, <1>11, <1>15 DEF RInv, Recovering, RestoreRow

LEMMA RestoreStutters == ASSUME RInv, UNCHANGED allVars PROVE RInv'
<1>1. UNCHANGED <<restore, saved, vars>> /\ UNCHANGED <<log, armed, ops, org, requests>>
    BY DEF allVars, restoreVars, vars
<1>2. CASE restore.at = "live"
    <2>1. IInv'
        BY <1>1, <1>2, StutterKeeps DEF RInv
    <2>2. RequestsLast /\ OpsLast
        BY <1>1 DEF RequestsLast, OpsLast
    <2> QED
        BY <1>1, <1>2, <2>1, <2>2, BackedLasts DEF RInv
<1>3. CASE restore.at # "live"
    <2>1. Rebuilt' /\ Workers'
        BY <1>1, <1>3, SameRebuilt, SameWorkers DEF vars
    <2>2. Verifications' /\ Replaying'
        BY <1>1, <1>3 DEF RInv, Recovering, Verifications, Unarmed, Replaying, Event
    <2> QED
        BY <1>1, <1>3, <2>1, <2>2 DEF RInv, Recovering
<1> QED
    BY <1>2, <1>3

LEMMA RestoreStarts == RestoreInit => RInv
<1> SUFFICES ASSUME RestoreInit PROVE RInv
    OBVIOUS
<1>1. IInv /\ saved = None
    BY Starting DEF RestoreInit
<1>2. PICK n, e : /\ restore = [at |-> "live", disasters |-> n, reruns |-> 0, n |-> 1, events |-> e]
    BY DEF RestoreInit
<1> QED
    BY <1>1, <1>2 DEF RInv, RestoreFields

LEMMA RestoreKeeps == RInv /\ [RestoreNext]_allVars => RInv'
BY LiveKeeps, BackupKeeps, DisasterKeeps, RerunKeeps, HistoryRepaired, EnsureOperationKeeps,
   MarkersBeforePurgeKeeps, ApplySimpleKeeps, ReplayPurgeEventKeeps, ProjectKeeps, ProjectedKeeps,
   MarkersKeep, ResumeRunKeeps, ExecuteRunKeeps, CommandEnds, RestoreStutters
DEF RestoreNext, Replays

(* The invariant of both: the live one while the system lives, and that of  *)
(* the rebuilt database from the disaster on.                               *)
THEOREM RestoreInvariant == RestoreSpec => []RInv
BY RestoreStarts, RestoreKeeps, PTL DEF RestoreSpec

LEMMA AtMostOne == ASSUME \A i, j \in Pending : i = j PROVE Cardinality(Pending) <= 1
<1>1. CASE Pending = {}
    BY <1>1, FS_EmptySet
<1>2. CASE Pending # {}
    <2>1. PICK i : Pending = {i}
        BY <1>2
    <2>2. Cardinality({i}) = 1
        BY FS_Singleton
    <2>3. Cardinality(Pending) = 1
        BY ONLY <2>1, <2>2, Zenon
    <2> QED
        BY <2>3
<1> QED
    BY <1>1, <1>2

(* The fence: whoever runs the protocol, wherever processes die, and also   *)
(* while a restore rebuilds the database, at most one decision is pending,  *)
(* for the sequence the database shows; and while the system lives the      *)
(* history is at most that one decision ahead.                              *)
THEOREM TheFenceHolds == RestoreSpec => []FenceHolds
<1>1. RInv => FenceHolds
    <2> SUFFICES ASSUME RInv PROVE FenceHolds
        OBVIOUS
    <2>1. OneDecision
        BY DEF RInv, Recovering, Rebuilt, IInv, Shared
    <2>2. OneFence
        BY <2>1, AtMostOne DEF OneDecision, OneFence
    <2>3. Stage_("live") => HistoryAhead
        BY DEF RInv, IInv, Shared, Stage_
    <2> QED
        BY <2>2, <2>3 DEF FenceHolds
<1> QED
    BY <1>1, RestoreInvariant, PTL

(* Service is over when its end is decided: once the organization has left  *)
(* "active" no call is established, neither by a call that started before   *)
(* the fence nor by a database that came back from before the decision.     *)
THEOREM ServiceEndsWithItsDecision == RestoreSpec => []NoCallOutlivesService
<1>1. RInv => NoCallOutlivesService
    BY DEF RInv, Recovering, Rebuilt, IInv, Shared, Drained, NoCallOutlivesService
<1> QED
    BY <1>1, RestoreInvariant, PTL

(* An erasure whose marker is in the ledger is never closed: neither by an  *)
(* operator's decision that was made before, nor by its projection after a  *)
(* restore, nor by a backup older than the marker.                          *)
THEOREM ErasuresStand == RestoreSpec => []ArmedNeverClosed
<1>1. RInv => ArmedNeverClosed
    BY DEF RInv, Recovering, Rebuilt, IInv, Shared, Closures
<1> QED
    BY <1>1, RestoreInvariant, PTL
=============================================================================
