------------------------------- MODULE Hiring -------------------------------
(***************************************************************************)
(* What a manager does with published drills: assignments of the team,     *)
(* and positions, whose assessment freezes at the first invite and whose   *)
(* candidates are decided on and shortlisted.  The three batch requests    *)
(* carry an Idempotency-Key.                                               *)
(*                                                                         *)
(* Calls, grading and the rendering of reports are CallPlane's and         *)
(* WorkPlane's: here a candidate progresses.                               *)
(***************************************************************************)
EXTENDS Authoring

CONSTANTS
    Positions, Candidates,
    Keys,     \* Idempotency-Keys of an endpoint
    Overlap   \* whether an archive runs while an invite does

ASSUME HiringAssumption ==
    /\ None \notin Positions \cup Candidates
    /\ Overlap \in BOOLEAN

VARIABLES
    assigned,   \* drills with an assignment row
    position,   \* position rows with their stages; None before creation
    candidate,  \* candidate rows; None before they are entered
    listed,     \* candidates with a shortlist_candidate row
    replay,     \* idempotency_record
    ran         \* history: how often each key's request took effect

hiring == <<assigned, position, candidate, listed, replay, ran>>

Endpoints == {"candidates", "invites", "shortlists"}
Closed(p) == position[p].status = "closed"
Of(p) == {k \in Candidates : candidate[k] # None /\ candidate[k].position = p}
Existing == {p \in Positions : position[p] # None}

----------------------------------------------------------------------------
(* Idempotency-Key.  Under the key's advisory lock, a live record of the   *)
(* same body is answered from, one of another body is refused: neither     *)
(* changes anything.                                                       *)

Unknown(e, i) == replay[<<e, i>>] # None => replay[<<e, i>>].expired

(* Mutant: the request takes effect and leaves no record.                  *)
StoreResponse_Never(e, i, body) == UNCHANGED replay

(* The response is stored in the transaction of its work.  The key is      *)
(* the table's primary key and nothing deletes an expired record: where    *)
(* there is one, the insert fails and the work is undone.                  *)
StoreResponse(e, i, body) ==
    /\ replay[<<e, i>>] = None
    /\ replay' = [replay EXCEPT ![<<e, i>>] = [body |-> body, expired |-> FALSE]]

BeginKeyed(r, e, i, names, body) ==
    /\ Unknown(e, i)
    /\ Begin(r, names \cup {<<e, i>>}, [op |-> e, key |-> i, body |-> body])
    /\ UNCHANGED <<team, knowledge, generation, hiring>>

CommitKeyed(r, e) ==
    /\ txn[r].op = e
    /\ StoreResponse(e, txn[r].key, txn[r].body)
    /\ ran' = [ran EXCEPT ![<<e, txn[r].key>>] = @ + 1]
    /\ End(r)

(* 24 hours pass. *)
KeyExpires(e, i) ==
    /\ ~Unknown(e, i)
    /\ replay' = [replay EXCEPT ![<<e, i>>].expired = TRUE]
    /\ UNCHANGED <<team, knowledge, generation, txn, locks,
                   assigned, position, candidate, listed, ran>>

----------------------------------------------------------------------------
(* Drills that are in use. *)

Published(ds) == \A d \in ds : drill[d] # None /\ drill[d].status = "published"

(* Mutant: the status is read without a lock.                              *)
AssignmentLocks_None(d) == {}

AssignmentLocks(d) == {d}

BeginAssign(r, d) ==
    /\ Published({d})
    /\ Begin(r, AssignmentLocks(d), [op |-> "assign", drill |-> d])
    /\ UNCHANGED <<team, knowledge, generation, hiring>>

CommitAssign(r) ==
    /\ txn[r].op = "assign"
    /\ assigned' = assigned \cup {txn[r].drill}
    /\ End(r)
    /\ UNCHANGED <<team, knowledge, generation, position, candidate, listed, replay, ran>>

Busy(op) == \E r \in Requests : txn[r].op = op

(* The stages are deleted, and the trigger that guards them asked, before  *)
(* the transaction commits: no lock of the position is taken.              *)
BeginArchive(r, d) ==
    /\ Published({d})
    /\ Overlap \/ ~Busy("invites")
    /\ Begin(r, {d}, [op |-> "archive", drill |-> d,
                      from |-> {p \in Existing : ~position[p].frozen
                                                 /\ d \in position[p].stages}])
    /\ UNCHANGED <<team, knowledge, generation, hiring>>

CommitArchive(r) ==
    /\ txn[r].op = "archive"
    /\ LET d == txn[r].drill IN
         /\ position' = [p \in Positions |->
               IF p \in txn[r].from THEN [position[p] EXCEPT !.stages = @ \ {d}]
               ELSE position[p]]
         /\ assigned' = assigned \ {d}
         /\ drill' = [drill EXCEPT ![d].status = "archived"]
    /\ End(r)
    /\ UNCHANGED <<team, knowledge, jobs, deaths, candidate, listed, replay, ran>>

----------------------------------------------------------------------------
(* Positions. *)

CreatePosition(p) ==
    /\ p \in team.positions \ Existing
    /\ position' = [position EXCEPT ![p] = [status |-> "draft", stages |-> {}, frozen |-> FALSE]]
    /\ UNCHANGED <<team, knowledge, generation, txn, locks,
                   assigned, candidate, listed, replay, ran>>

(* Mutant: the position is read without a lock.                            *)
AssessmentLocks_DrillsOnly(p, ds) == ds

(* replace_assessment: the drills first, as an archive does, then the      *)
(* position, as an invite does.                                            *)
AssessmentLocks(p, ds) == ds \cup {p}

BeginAssessment(r, p, ds) ==
    /\ p \in Existing /\ ds # {}
    /\ ~Closed(p) /\ ~position[p].frozen
    /\ Published(ds)
    /\ Begin(r, AssessmentLocks(p, ds), [op |-> "assessment", position |-> p, stages |-> ds])
    /\ UNCHANGED <<team, knowledge, generation, hiring>>

CommitAssessment(r) ==
    /\ txn[r].op = "assessment"
    /\ position' = [position EXCEPT ![txn[r].position].stages = txn[r].stages,
                                    ![txn[r].position].status = "active"]
    /\ End(r)
    /\ UNCHANGED <<team, knowledge, generation, assigned, candidate, listed, replay, ran>>

(* A draft position is answered as a closed one is, and stays open.        *)
ClosePosition(p) ==
    /\ p \in Existing
    /\ Free({p})
    /\ position[p].status = "active"
    /\ position' = [position EXCEPT ![p].status = "closed"]
    /\ candidate' = [k \in Candidates |->
          IF k \in Of(p) THEN [candidate[k] EXCEPT !.tokens = 0] ELSE candidate[k]]
    /\ UNCHANGED <<team, knowledge, generation, txn, locks, assigned, listed, replay, ran>>

----------------------------------------------------------------------------
(* Candidates. *)

(* The status is read without a lock: a close may commit before the rows   *)
(* do.                                                                     *)
BeginCandidates(r, i, p, ks) ==
    /\ p \in Existing /\ ~Closed(p)
    /\ ks # {} /\ \A k \in ks : candidate[k] = None
    /\ BeginKeyed(r, "candidates", i, {}, [position |-> p, who |-> ks])

CommitCandidates(r) ==
    /\ CommitKeyed(r, "candidates")
    /\ LET body == txn[r].body IN
         /\ Free({body.position})
         /\ \A k \in body.who : candidate[k] = None
         /\ candidate' = [k \in Candidates |->
               IF k \in body.who
               THEN [position |-> body.position, progress |-> "none", tokens |-> 0,
                     invites |-> 0, decision |-> "none"]
               ELSE candidate[k]]
    /\ UNCHANGED <<team, knowledge, generation, assigned, position, listed>>

(* send_invites, which a resend is too. *)
InviteLocks(p) == {p}
Invitable(p, ks) == ks \subseteq {k \in Of(p) : candidate[k].progress = "none"}

BeginInvites(r, i, p, ks) ==
    /\ p \in Existing /\ ~Closed(p)
    /\ position[p].stages # {}
    /\ ks # {} /\ Invitable(p, ks)
    /\ \A k \in ks : candidate[k].invites < team.invites
    /\ Overlap \/ ~Busy("archive")
    /\ BeginKeyed(r, "invites", i, InviteLocks(p), [position |-> p, who |-> ks])

CommitInvites(r) ==
    /\ CommitKeyed(r, "invites")
    /\ LET body == txn[r].body IN
         /\ position' = [position EXCEPT ![body.position].frozen = TRUE]
         /\ candidate' = [k \in Candidates |->
               IF k \in body.who
               THEN [candidate[k] EXCEPT !.tokens = @ + 1, !.invites = @ + 1]
               ELSE candidate[k]]
    /\ UNCHANGED <<team, knowledge, generation, assigned, listed>>

(* The candidate takes the assessment, it is graded, its report rendered.  *)
Stage == [none |-> "completed", completed |-> "graded", graded |-> "rendered"]
Progress(k) ==
    /\ candidate[k] # None /\ candidate[k].invites > 0
    /\ candidate[k].progress \in DOMAIN Stage
    /\ Free({k})
    /\ candidate' = [candidate EXCEPT ![k].progress = Stage[@]]
    /\ UNCHANGED <<team, knowledge, generation, txn, locks,
                   assigned, position, listed, replay, ran>>

(* decide: whether the candidate is listed is read as the update starts,   *)
(* which then waits for the row.                                           *)
BeginDecide(r, k, decision) ==
    /\ candidate[k] # None /\ candidate[k].progress \in {"graded", "rendered"}
    /\ k \notin listed
    /\ Begin(r, {}, [op |-> "decide", candidate |-> k, decision |-> decision])
    /\ UNCHANGED <<team, knowledge, generation, hiring>>

(* trg_decision_freeze reads anew. *)
Decidable(k, decision) == candidate[k].decision = decision \/ k \notin listed

CommitDecide(r) ==
    /\ txn[r].op = "decide"
    /\ LET k == txn[r].candidate IN
         /\ Free({k})
         /\ Decidable(k, txn[r].decision)
         /\ candidate' = [candidate EXCEPT ![k].decision = txn[r].decision]
    /\ End(r)
    /\ UNCHANGED <<team, knowledge, generation, assigned, position, listed, replay, ran>>

Listable(p, ks) == ks \subseteq {k \in Of(p) : /\ candidate[k].decision = "approved"
                                               /\ candidate[k].progress = "rendered"}

BeginShortlist(r, i, p, ks) ==
    /\ p \in Existing
    /\ ks # {} /\ Listable(p, ks)
    /\ BeginKeyed(r, "shortlists", i, {p} \cup ks, [position |-> p, who |-> ks])

CommitShortlist(r) ==
    /\ CommitKeyed(r, "shortlists")
    /\ listed' = listed \cup txn[r].body.who
    /\ UNCHANGED <<team, knowledge, generation, assigned, position, candidate>>

----------------------------------------------------------------------------
HiringInit ==
    /\ assigned = {} /\ listed = {}
    /\ position = [p \in Positions |-> None]
    /\ candidate = [k \in Candidates |-> None]
    /\ replay = [k \in Endpoints \X Keys |-> None]
    /\ ran = [k \in Endpoints \X Keys |-> 0]

DrillUse ==
    \E r \in Requests : \/ CommitAssign(r) \/ CommitArchive(r)
                        \/ \E d \in Drills : BeginAssign(r, d) \/ BeginArchive(r, d)

PositionStep ==
    \/ \E p \in Positions : CreatePosition(p) \/ ClosePosition(p)
    \/ \E r \in Requests :
         \/ CommitAssessment(r)
         \/ \E p \in Positions, ds \in SUBSET Drills : BeginAssessment(r, p, ds)

CandidateStep ==
    \/ \E k \in Candidates : Progress(k)
    \/ \E e \in Endpoints, i \in Keys : KeyExpires(e, i)
    \/ \E r \in Requests :
         \/ CommitCandidates(r) \/ CommitInvites(r) \/ CommitDecide(r) \/ CommitShortlist(r)
         \/ \E k \in Candidates, decision \in {"approved", "rejected"} :
              BeginDecide(r, k, decision)
         \/ \E i \in team.keys, p \in team.positions, ks \in SUBSET team.candidates :
              \/ BeginCandidates(r, i, p, ks) \/ BeginInvites(r, i, p, ks)
              \/ BeginShortlist(r, i, p, ks)

HiringStep == DrillUse \/ PositionStep \/ CandidateStep
=============================================================================
