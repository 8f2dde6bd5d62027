-------------------------------- MODULE Team --------------------------------
(***************************************************************************)
(* A manager's authoring and hiring together.  They meet in the drill: a   *)
(* draft becomes usable when it is published, an archive withdraws it from *)
(* what has not started.  A behaviour starts from one set-up of Teams: the *)
(* documents, drills, positions and candidates the team may have, and the  *)
(* drills it has published before; and, as bounds, the keys it uses, the    *)
(* invites of a candidate and the generation requests of a drill.          *)
(***************************************************************************)
EXTENDS Training

ASSUME TeamAssumption ==
    \A t \in Teams : /\ t.documents \subseteq Documents
                     /\ t.drills \subseteq Drills /\ t.given \subseteq t.drills
                     /\ t.positions \subseteq Positions /\ t.candidates \subseteq Candidates
                     /\ t.keys \subseteq Keys
                     /\ t.movers \subseteq t.reps /\ t.reps \subseteq Reps
                     /\ {t.invites, t.generations, t.attempts, t.months, t.requests} \subseteq Nat

(* Attempts a team's reps may have made before.                            *)
Past(t) == [rep : t.reps, drill : AllDrills, team : {"ours"}, month : Int,
            status : {"open", "graded", "interrupted"}, score : Nat]

ASSUME PastAssumption == \A t \in Teams : t.histories \subseteq Seq(Past(t))

vars == <<team, knowledge, generation, txn, locks, hiring, training>>

Init == AuthoringInit /\ HiringInit /\ TrainingInit

TeamStep == \/ AuthoringStep /\ UNCHANGED <<hiring, records>>
            \/ HiringStep /\ UNCHANGED records
            \/ \E r \in Requests : Rollback(r) /\ UNCHANGED <<hiring, records>>
            \/ TrainingStep /\ UNCHANGED <<team, knowledge, generation, txn, locks, hiring>>

Next == TeamStep /\ Noted

Spec == Init /\ [][Next]_vars

----------------------------------------------------------------------------
Vectors == UNION {[ds -> 1..MaxVersion] : ds \in SUBSET Documents}
Scenarios == [inputs : 0..MaxInputs, grounding : Vectors \cup {None}]
States == {"none", "running", "succeeded", "failed"}
UploadStates == {"none", "received", "checked", "extracted", "failed"}
Weights == {"none", "balanced", "unbalanced"}

(* The rows the schema allows.                                             *)
Drafts == [number : 1..MaxDrafts, based : 0..MaxVersion, from : 0..MaxUploads]
DocumentRows == [version : 0..MaxVersion, live : 0..MaxDrafts, draft : Drafts \cup {None},
                 drafts : 0..MaxDrafts]
DrillRows == [status : {"draft", "published", "archived"}, inputs : 0..MaxInputs,
              grounding : Vectors \cup {None}, key : Vectors \cup {None},
              scenario : Scenarios \cup {None}, scenarioState : States,
              rubric : Scenarios \cup {None}, rubricState : States, weights : Weights,
              request : Nat, requests : Nat]
JobRows == [kind : {"scenario", "rubric"}, drill : Drills, request : Nat,
            basis : Scenarios \cup {None}]
PositionRows == [status : {"draft", "active", "closed"}, stages : SUBSET Drills,
                 frozen : BOOLEAN]
CandidateRows == [position : Positions, progress : {"none", "completed", "graded", "rendered"},
                  tokens : Nat, invites : Nat, decision : {"none", "approved", "rejected"}]
Bodies == [position : Positions, who : SUBSET Candidates]
Records == [body : Bodies, expired : BOOLEAN]

(* A row that is there is not the one that is not.                         *)
ASSUME RowsAssumption ==
    /\ None \notin DocumentRows /\ None \notin DrillRows /\ None \notin PositionRows
    /\ None \notin CandidateRows /\ None \notin Records

(* Nor is a figure that is there.                                          *)
ASSUME FigureAssumption == None \notin Int

KnowledgeType ==
    /\ document \in [Documents -> DocumentRows \cup {None}]
    /\ uploads \in [Documents -> [1..MaxUploads -> UploadStates]]
    /\ \A d \in Documents \ Created, u \in 1..MaxUploads : uploads[d][u] = "none"
    /\ review # None => review.document \in Created

GenerationType ==
    /\ drill \in [Drills -> DrillRows \cup {None}]
    /\ jobs \subseteq JobRows /\ deaths \in 0..Deaths
    /\ \A j \in jobs : drill[j.drill] # None

HiringType ==
    /\ assigned \subseteq Drills /\ listed \subseteq Candidates
    /\ position \in [Positions -> PositionRows \cup {None}]
    /\ candidate \in [Candidates -> CandidateRows \cup {None}]
    /\ replay \in [Endpoints \X Keys -> Records \cup {None}]
    /\ ran \in [Endpoints \X Keys -> Nat]

LockType ==
    /\ DOMAIN txn = Requests /\ DOMAIN locks = Requests
    /\ \A r, s \in Requests : r # s => locks[r] \cap locks[s] = {}

(* Every row is one the schema allows, a review is of a document that is   *)
(* there, and a lock is held by one transaction.                           *)
TeamTypeOK == team \in Teams /\ KnowledgeType /\ GenerationType /\ HiringType /\ LockType

(* What was frozen belongs together (freeze.py, FR-DRL-014): the scenario  *)
(* of a published drill was written from its inputs and from its answer    *)
(* key, and its rubric from that scenario, whatever was regenerated,       *)
(* edited or called off on the way.                                        *)
PublishedCoherent ==
    \A d \in Drills : drill[d] # None /\ drill[d].status # "draft" =>
        /\ drill[d].scenario = [inputs |-> drill[d].inputs, grounding |-> drill[d].key]
        /\ drill[d].rubric = drill[d].scenario
        /\ drill[d].weights = "balanced"

(* A drill is published with the facts that are live at that moment        *)
(* (freeze.py, FR-KNW-007), a document's first publication included, which *)
(* no row lock holds back.                                                 *)
AnswerKeyCurrent ==
    [][\A d \in Drills :
         drill[d] # None /\ drill[d].key = None /\ drill'[d] # None /\ drill'[d].key # None
            => drill'[d].key = Vector']_vars

(* An archived drill is withdrawn from all that has not started            *)
(* (drills/service.py): no assignment and no assessment still open to      *)
(* change names it.                                                        *)
NothingArchivedIsOffered ==
    \A d \in Drills : drill[d] # None /\ drill[d].status = "archived" =>
        /\ d \notin assigned
        /\ \A p \in Existing : ~position[p].frozen => d \notin position[p].stages

(* No invite outlives its position (shortlist.py T-8, FR-HIR-015).         *)
ClosedRevokes ==
    \A p \in Existing : Closed(p) => \A k \in Of(p) : candidate[k].tokens = 0

(* What was withdrawn is offered nowhere: NothingArchivedIsOffered and      *)
(* ClosedRevokes, against an assignment, an assessment or an invite that   *)
(* is on its way.                                                          *)
WithdrawnIsGone == NothingArchivedIsOffered /\ ClosedRevokes

(* Every candidate of a position faces the assessment the first was        *)
(* invited to (invites.py, FR-HIR-005).                                    *)
FrozenStands ==
    [][\A p \in Existing : position[p].frozen =>
         position'[p].frozen /\ position'[p].stages = position[p].stages]_vars

(* A decision that was sent to HR is not revised (shortlist.py,            *)
(* FR-HIR-013).                                                            *)
SentDecisionsStand == \A k \in listed : candidate[k].decision = "approved"

(* What the world outside has seen stands: the assessment of an invited    *)
(* candidate (FrozenStands) and the decisions HR has in hand               *)
(* (SentDecisionsStand).                                                   *)
CommitmentsStand == FrozenStands /\ []SentDecisionsStand

(* A batch request takes effect once, however often its client repeats it  *)
(* and however long after (idempotency.py).                                *)
OncePerKey == \A key \in DOMAIN ran : ran[key] <= 1

(* Dashboard, roster and deep dive tell one story (training/service.py,    *)
(* _ROSTER): the reps rated and the tiers counted on the first are rows of *)
(* the second, whatever became of the reps, and a row's count is the sum   *)
(* of the third's; who leads is never in the half that lags.               *)
RosterAgrees ==
    \A t \in {rep[r].team : r \in team.reps} :
        LET board == Dashboard(t, month)
            roster == Roster(t, month)
            With(tier) == {r \in DOMAIN roster : roster[r].tier = tier}
            rated == {r \in DOMAIN roster : roster[r].rating # None}
        IN  /\ board.rated = Cardinality(rated)
            /\ board.top = Cardinality(With("top"))
            /\ board.coaching = Cardinality(With("needs_coaching"))
            /\ board.suppressed => With("none") = DOMAIN roster
            /\ \A r \in DOMAIN roster :
                 LET dive == DeepDive(t, r, month) IN
                 /\ roster[r].counted = FoldFunction(+, 0, dive.counts)
                 /\ roster[r].rating = dive.standing.rating
            /\ With("top") \cap BottomHalf(Tiers(ManagerScope(t), month)) = {}
            /\ Cohorts(t, month).bottom_half \subseteq rated

(* An attempt has one number: a rep's history of the drill and the         *)
(* manager's deep dive count alike (training/service.py,                   *)
(* _DEEP_DIVE_ATTEMPTS), across months and interrupted calls.              *)
NumbersAgree ==
    \A r \in team.reps :
        LET dive == DeepDive(rep[r].team, r, month) IN
        \A i \in DOMAIN dive.numbers :
            LET history == DrillHistory(r, attempts[i].drill) IN
            history # NotFound => history.numbers[i] = dive.numbers[i]

Shown ==
    [reps |-> [r \in team.reps |-> ProgressHome(r)],
     lifetimes |-> [r \in team.reps |-> Profile(r).lifetime],
     teams |-> [t \in Managers |-> <<Dashboard(t, month), Roster(t, month), Cohorts(t, month)>>],
     drills |-> [d \in Drills |-> <<CatalogRow("ours", d), TeamDrillStats("ours", d)>>]]

(* Private practice counts towards no rating and no figure of a manager    *)
(* (FR-TRP-010, v01_counted_pool.sql), whoever's it is and however graded. *)
PracticeCountsNowhere ==
    [][/\ attempts' # attempts
       /\ UNCHANGED <<drill, rep, month>>
       /\ \A i \in DOMAIN attempts' : \/ Private(attempts'[i].drill)
                                       \/ (i \in DOMAIN attempts /\ attempts'[i] = attempts[i])
       => Shown' = Shown]_vars

(* The drill's rollup, its leaderboard and its row in the catalog count    *)
(* the same reps and the same attempts (v07 and v08), also of reps who     *)
(* left the team or joined it.                                             *)
LeaderboardAgrees ==
    \A t \in Managers, d \in {attempts[i].drill : i \in DOMAIN attempts} :
        LET stats == TeamDrillStats(t, d)
            graded == [r \in DOMAIN stats.leaderboard |-> stats.leaderboard[r].graded]
        IN  stats # NotFound =>
              /\ stats.rollup.practiced = Cardinality(DOMAIN stats.leaderboard)
              /\ stats.rollup.total = FoldFunction(+, 0, graded)
              /\ stats.rollup.total = CatalogRow(t, d).total

(* Every surface tells the same story of the same attempts: RosterAgrees,  *)
(* NumbersAgree and LeaderboardAgrees (training/service.py), of reps who   *)
(* stayed, left and moved, across months.                                  *)
StoriesAgree == RosterAgrees /\ NumbersAgree /\ LeaderboardAgrees

(* A walk through a list that ended has served every row that stayed where *)
(* it was exactly once, whatever moved meanwhile and whatever ties         *)
(* (training/service.py, the cursors); and the catalog, whose rows only    *)
(* move ahead, serves none twice.                                          *)
WalkExact ==
    LET Times(d) == Cardinality({n \in DOMAIN walk.served : walk.served[n] = d}) IN
    /\ walk.state = "ended" => \A d \in steady : Times(d) = 1
    /\ walk.reader = Manager => \A d \in AllDrills : Times(d) <= 1

----------------------------------------------------------------------------
(* What the documents say and the code does not hold; see the README.      *)

(* FR-KNW-006: the facts that go live are the reviewed ones.               *)
ReviewedGoesLive ==
    [][\A d \in Created : document'[d].live # document[d].live =>
         document'[d].live = review.draft]_vars

(* Nobody is invited to an empty assessment (invites.py, FR-HIR-004).      *)
InvitedHaveStages == \A p \in Existing : position[p].frozen => position[p].stages # {}

(* A closed position takes no candidate (hiring/service.py).               *)
ClosedIsClosed ==
    [][\A k \in Candidates : candidate[k] = None /\ candidate'[k] # None
          => ~Closed(candidate'[k].position)]_vars

(* A rep and the rep's manager read the same numbers, reframed             *)
(* (FR-TRP-002).                                                           *)
OneTruth ==
    \A r \in team.reps :
        ProgressHome(r) = DeepDive(rep[r].team, r, month).standing
=============================================================================
