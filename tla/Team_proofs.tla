---------------------------- MODULE Team_proofs ----------------------------
(***************************************************************************)
(* What a manager's overlapping requests may not do to each other, for any *)
(* number of documents, drills, positions, candidates, keys and open       *)
(* transactions.                                                           *)
(*                                                                         *)
(* The argument is one of locks.  What a transaction has checked under the *)
(* locks it holds (Granted) no step of another takes away; so at its       *)
(* commit it still holds, and the commit keeps what is said of the rows.   *)
(* On that rest OncePerKey, AnswerKeyCurrent, PublishedCoherent,           *)
(* WithdrawnIsGone and CommitmentsStand.                                   *)
(*                                                                         *)
(* Of a team's views (Training): a walk through a list serves each row     *)
(* once (WalkExact); the figures agree, since each is a sum over attempts  *)
(* that belong to the team their rep is in (Practised, StoriesAgree); and  *)
(* none is drawn from an account's practice (PracticeCountsNowhere).       *)
(***************************************************************************)
EXTENDS Team, FiniteSetTheorems, SequenceTheorems, WellFoundedInduction, TLAPS

Ready(d) ==
    /\ IsDraft(d) /\ drill[d].weights = "balanced"
    /\ drill[d].scenarioState = "succeeded" /\ drill[d].rubricState = "succeeded"
    /\ drill[d].grounding = Vector

Publishing(r) ==
    txn[r].op = "publish" =>
        /\ txn[r].drill \in Drills \cap locks[r] /\ Team \in locks[r]
        /\ Ready(txn[r].drill)

Assigning(r) ==
    txn[r].op = "assign" =>
        txn[r].drill \in Drills \cap locks[r] /\ Published({txn[r].drill})

\* Where the drill is offered when the archive begins, it is offered no more
\* elsewhere; an archive that meets no invite meets no freeze.
Archiving(r) ==
    txn[r].op = "archive" =>
        /\ txn[r].drill \in Drills \cap locks[r] /\ Published({txn[r].drill})
        /\ txn[r].from \subseteq Existing
        /\ \A p \in Existing :
             ~position[p].frozen /\ txn[r].drill \in position[p].stages => p \in txn[r].from
        /\ ~Overlap => /\ ~Busy("invites")
                       /\ \A p \in txn[r].from : ~position[p].frozen

Composed(r) ==
    txn[r].op = "assessment" =>
        /\ txn[r].position \in Existing \cap locks[r]
        /\ ~Closed(txn[r].position) /\ ~position[txn[r].position].frozen
        /\ txn[r].stages \subseteq Drills \cap locks[r] /\ Published(txn[r].stages)

Keyed(r) ==
    txn[r].op \in Endpoints =>
        /\ txn[r].key \in Keys /\ txn[r].body \in Bodies
        /\ txn[r].body.position \in Existing

Sending(r) ==
    txn[r].op = "invites" =>
        /\ txn[r].body.position \in locks[r] /\ ~Closed(txn[r].body.position)
        /\ txn[r].body.who \subseteq Of(txn[r].body.position)

Approved(k) == candidate[k] # None /\ candidate[k].decision = "approved"

Listing(r) ==
    txn[r].op = "shortlists" =>
        txn[r].body.who \subseteq locks[r] /\ \A k \in txn[r].body.who : Approved(k)

Deciding(r) ==
    txn[r].op = "decide" =>
        /\ txn[r].candidate \in Candidates /\ candidate[txn[r].candidate] # None
        /\ txn[r].decision \in {"approved", "rejected"}

\* What an open transaction has checked still holds.
Granted(r) ==
    /\ Publishing(r) /\ Assigning(r) /\ Archiving(r) /\ Composed(r)
    /\ Keyed(r) /\ Sending(r) /\ Listing(r) /\ Deciding(r)

\* A manager works on a draft.
DraftStep(d) ==
    \/ CreateDrill(d) \/ ReplaceInputs(d) \/ RequestScenario(d)
    \/ RequestRubric(d) \/ TuneWeights(d) \/ DeleteDimension(d)

TeamInv == TeamTypeOK /\ \A r \in Requests : Granted(r)

-----------------------------------------------------------------------------
(* Lemmas about the locks.                                                  *)

\* A transaction begins alone: its locks were free and are its own.
LEMMA Begins ==
    ASSUME DOMAIN txn = Requests, DOMAIN locks = Requests,
           \A q, s \in Requests : q # s => locks[q] \cap locks[s] = {},
           NEW r \in Requests, NEW names, NEW record, Begin(r, names, record)
    PROVE  /\ txn[r] = Idle /\ txn'[r] = record /\ locks'[r] = names
           /\ DOMAIN txn' = Requests /\ DOMAIN locks' = Requests
           /\ \A q \in Requests \ {r} :
                txn'[q] = txn[q] /\ locks'[q] = locks[q] /\ locks[q] \cap names = {}
           /\ \A q, s \in Requests : q # s => locks'[q] \cap locks'[s] = {}
    BY DEF Begin, Free

\* One that ends leaves the others theirs.
LEMMA Ends ==
    ASSUME DOMAIN txn = Requests, DOMAIN locks = Requests,
           \A q, s \in Requests : q # s => locks[q] \cap locks[s] = {},
           NEW r \in Requests, End(r)
    PROVE  /\ txn'[r] = Idle /\ locks'[r] = {}
           /\ DOMAIN txn' = Requests /\ DOMAIN locks' = Requests
           /\ \A q \in Requests \ {r} : txn'[q] = txn[q] /\ locks'[q] = locks[q]
           /\ \A q, s \in Requests : q # s => locks'[q] \cap locks'[s] = {}
    BY DEF End

-----------------------------------------------------------------------------
(* Types.                                                                   *)

\* The facts of a document that is live are versioned.
LEMMA VectorType ==
    ASSUME TeamTypeOK
    PROVE  Vector \in Vectors
<1>1. Live \in SUBSET Documents
    BY DEF Live, Created
<1>2. \A d \in Live : document[d].version \in 1..MaxVersion
    BY AuthoringAssumption DEF TeamTypeOK, KnowledgeType, Live, Created, DocumentRows
<1>3. Vector \in [Live -> 1..MaxVersion]
    BY <1>2 DEF Vector
<1> QED
    BY <1>1, <1>3 DEF Vectors

\* A draft is put, or taken away, and the document stays.
LEMMA PutsDraft ==
    ASSUME TeamTypeOK, NEW d \in Created, NEW source \in 0..MaxUploads, PutDraft(d, source)
    PROVE  document' \in [Documents -> DocumentRows \cup {None}] /\ Created' = Created
<1> USE AuthoringAssumption, RowsAssumption DEF TeamTypeOK, KnowledgeType, Created
<1> DEFINE row == [document[d] EXCEPT !.draft = Draft(d, source), !.drafts = @ + 1]
<1>1. document[d] \in DocumentRows /\ document[d].drafts < MaxDrafts
    BY DEF PutDraft
<1>2. Draft(d, source) \in Drafts
    BY <1>1 DEF Draft, Drafts, DocumentRows
<1>3. row \in DocumentRows
  <2>1. \A y \in DocumentRows, x \in Drafts, n \in 0..MaxDrafts :
           [y EXCEPT !.draft = x, !.drafts = n] \in DocumentRows
    BY DEF DocumentRows
  <2>2. document[d].drafts + 1 \in 0..MaxDrafts
    BY <1>1 DEF DocumentRows
  <2> QED
    BY <1>1, <1>2, <2>1, <2>2
<1>4. document' = [document EXCEPT ![d] = row]
    BY DEF PutDraft
<1> QED
    BY <1>3, <1>4

\* Every step on documents keeps their types.
LEMMA KnowledgeTypes ==
    ASSUME TeamTypeOK, KnowledgeStep
    PROVE  KnowledgeType'
<1> USE AuthoringAssumption, RowsAssumption
    DEF TeamTypeOK, KnowledgeType, DocumentRows, UploadStates, Created, knowledge, generation
<1>1. ASSUME PublishFacts  PROVE KnowledgeType'
  <2> DEFINE d == review.document
  <2>1. /\ d \in Created /\ document[d] \in DocumentRows
        /\ document[d].draft \in Drafts /\ document[d].version < MaxVersion
    BY <1>1 DEF PublishFacts
  <2>2. Promoted(d) \in DocumentRows
    <3>1. \A y \in DocumentRows, v \in 0..MaxVersion, n \in 0..MaxDrafts :
             [y EXCEPT !.version = v, !.live = n, !.draft = None] \in DocumentRows
      BY DEF DocumentRows
    <3>2. document[d].version + 1 \in 0..MaxVersion
      BY <2>1, SMTT(30) DEF DocumentRows
    <3>3. document[d].draft.number \in 0..MaxDrafts
      BY <2>1, SMTT(30) DEF Drafts
    <3> QED
      BY <2>1, <3>1, <3>2, <3>3 DEF Promoted
  <2>3. document' = [document EXCEPT ![d] = Promoted(d)] /\ review' = None /\ uploads' = uploads
    BY <1>1 DEF PublishFacts
  <2> QED
    BY <2>1, <2>2, <2>3
<1>2. ASSUME NEW d \in Documents, CreateDocument(d)  PROVE KnowledgeType'
    BY <1>2 DEF CreateDocument, NewDocument
<1>3. ASSUME NEW d \in Documents, ReplaceManualDraft(d)  PROVE KnowledgeType'
  <2>1. d \in Created /\ 0 \in 0..MaxUploads /\ PutDraft(d, 0)
    BY <1>3 DEF ReplaceManualDraft
  <2>2. document' \in [Documents -> DocumentRows \cup {None}] /\ Created' = Created
    BY <2>1, PutsDraft
  <2> QED
    BY <1>3, <2>2 DEF ReplaceManualDraft
<1>4. ASSUME NEW d \in Documents, BeginUpload(d)  PROVE KnowledgeType'
  <2> DEFINE row == [document[d] EXCEPT !.draft = None]
  <2>1. document[d] \in DocumentRows
    BY <1>4 DEF BeginUpload
  <2>2. row \in DocumentRows
    BY <2>1
  <2>3. document' = [document EXCEPT ![d] = row] /\ review' = review
    BY <1>4 DEF BeginUpload
  <2>4. PICK u \in 1..MaxUploads : uploads' = [uploads EXCEPT ![d][u] = "received"]
    BY <1>4 DEF BeginUpload
  <2>5. d \in Created
    BY <1>4 DEF BeginUpload
  <2>6. Created' = Created
    BY <2>2, <2>3, <2>5
  <2> QED
    BY <2>2, <2>3, <2>4, <2>5, <2>6
<1>5. ASSUME NEW d \in Documents, GetReview(d)  PROVE KnowledgeType'
    BY <1>5 DEF GetReview
<1>6. ASSUME NEW d \in Documents, NEW u \in 1..MaxUploads, CheckLatest(d, u)  PROVE KnowledgeType'
    BY <1>6 DEF CheckLatest
<1>7. ASSUME NEW d \in Documents, NEW u \in 1..MaxUploads, ApplyExtractedFacts(d, u)
      PROVE  KnowledgeType'
  <2>1. d \in Created /\ u \in 0..MaxUploads /\ PutDraft(d, u)
    BY <1>7 DEF ApplyExtractedFacts
  <2>2. document' \in [Documents -> DocumentRows \cup {None}] /\ Created' = Created
    BY <2>1, PutsDraft
  <2> QED
    BY <1>7, <2>2 DEF ApplyExtractedFacts
<1>8. ASSUME NEW d \in Documents, NEW u \in 1..MaxUploads, RetryExtraction(d, u)
      PROVE  KnowledgeType'
    BY <1>8 DEF RetryExtraction
<1>9. ASSUME NEW d \in Documents, NEW u \in 1..MaxUploads, MarkExtractionFailed(d, u)
      PROVE  KnowledgeType'
    BY <1>9 DEF MarkExtractionFailed
<1> HIDE DEF KnowledgeType
<1> QED
    BY <1>1, <1>2, <1>3, <1>4, <1>5, <1>6, <1>7, <1>8, <1>9 DEF KnowledgeStep

\* Every step of a generation keeps the types of drills and jobs.
LEMMA JobTypes ==
    ASSUME TeamTypeOK, JobStep
    PROVE  GenerationType'
<1> USE AuthoringAssumption, RowsAssumption
    DEF TeamTypeOK, GenerationType, DrillRows, JobRows, Scenarios, States, Weights, knowledge
<1>1. ASSUME NEW j \in jobs, GenerationBasis(j)  PROVE GenerationType'
    BY <1>1 DEF GenerationBasis
<1>2. ASSUME NEW j \in jobs, ApplyScenario(j)  PROVE GenerationType'
    BY <1>2 DEF ApplyScenario, IsDraft, Matches
<1>3. ASSUME NEW j \in jobs, ApplyRubric(j)  PROVE GenerationType'
    BY <1>3, SMTT(30) DEF ApplyRubric, IsDraft, Matches
<1>4. ASSUME NEW j \in jobs, MarkGenerationFailed(j)  PROVE GenerationType'
    BY <1>4 DEF MarkGenerationFailed, Matches
<1>5. ASSUME NEW j \in jobs, GenerationDies(j)  PROVE GenerationType'
    BY <1>5 DEF GenerationDies
<1> HIDE DEF GenerationType
<1> QED
    BY <1>1, <1>2, <1>3, <1>4, <1>5 DEF JobStep

\* A new drill is a row, whatever is then changed of it.
LEMMA NewDrillType ==
    NewDrill \in DrillRows
    BY AuthoringAssumption DEF NewDrill, DrillRows, States, Weights

\* So does every step of a manager on a draft.
LEMMA DraftTypes ==
    ASSUME TeamTypeOK, NEW d \in Drills, DraftStep(d)
    PROVE  GenerationType'
<1> USE AuthoringAssumption, RowsAssumption, VectorType
    DEF TeamTypeOK, GenerationType, DrillRows, JobRows, Scenarios, States, Weights, knowledge
<1>1. CASE CreateDrill(d)
    BY <1>1 DEF CreateDrill, NewDrill
<1>2. CASE ReplaceInputs(d)
  <2> DEFINE row == [NewDrill EXCEPT !.inputs = drill[d].inputs + 1, !.requests = drill[d].requests]
  <2>1. drill[d] \in DrillRows /\ drill[d].inputs < MaxInputs
    BY <1>2 DEF ReplaceInputs, IsDraft
  <2>2. row \in DrillRows
    <3>1. \A y \in DrillRows, i \in 0..MaxInputs, n \in Nat :
             [y EXCEPT !.inputs = i, !.requests = n] \in DrillRows
      BY DEF DrillRows
    <3>2. drill[d].inputs + 1 \in 0..MaxInputs /\ drill[d].requests \in Nat
      BY <2>1 DEF DrillRows
    <3> QED
      BY <3>1, <3>2, NewDrillType
  <2>3. drill' = [drill EXCEPT ![d] = row] /\ UNCHANGED <<jobs, deaths>>
    BY <1>2 DEF ReplaceInputs
  <2> QED
    BY <2>2, <2>3
<1>3. CASE RequestScenario(d)
  <2>1. drill[d] \in DrillRows
    BY <1>3 DEF RequestScenario, IsDraft
  <2>2. ForScenario(d) \in DrillRows
    <3>1. \A y \in DrillRows, i \in 0..MaxInputs, v \in Vectors, n, m \in Nat :
             [y EXCEPT !.inputs = i, !.grounding = v, !.scenarioState = "running",
                       !.request = n, !.requests = m] \in DrillRows
      BY ZenonT(30) DEF DrillRows, States
    <3>2. drill[d].inputs \in 0..MaxInputs /\ drill[d].requests + 1 \in Nat
      BY <2>1 DEF DrillRows
    <3> QED
      BY <3>1, <3>2, NewDrillType, VectorType, ZenonT(30) DEF ForScenario
  <2>3. Job("scenario", d) \in JobRows
    BY <2>1 DEF Job
  <2>4. /\ drill' = [drill EXCEPT ![d] = ForScenario(d)]
        /\ jobs' = jobs \cup {Job("scenario", d)} /\ deaths' = deaths
    BY <1>3 DEF RequestScenario
  <2>5. drill' \in [Drills -> DrillRows \cup {None}]
    BY <2>2, <2>4
  <2>6. jobs' \subseteq JobRows /\ \A j \in jobs' : j \in jobs \/ j.drill = d
    BY <2>3, <2>4 DEF Job
  <2> QED
    BY <2>2, <2>4, <2>5, <2>6
<1>4. CASE RequestRubric(d)
    BY <1>4 DEF RequestRubric, IsDraft, Job
<1>5. CASE TuneWeights(d)
    BY <1>5 DEF TuneWeights, IsDraft
<1>6. CASE DeleteDimension(d)
  <2>1. drill[d] \in DrillRows /\ UNCHANGED <<jobs, deaths>>
    BY <1>6 DEF DeleteDimension, IsDraft
  <2>2. PICK w \in Weights :
           drill' = [drill EXCEPT ![d].weights = w, ![d].rubric = IF w = "none" THEN None ELSE @]
    BY <1>6 DEF DeleteDimension
  <2>3. \A y \in DrillRows, s \in Scenarios \cup {None} :
           [y EXCEPT !.weights = w, !.rubric = s] \in DrillRows
    OBVIOUS
  <2> DEFINE rubric == IF w = "none" THEN None ELSE drill[d].rubric
  <2>4. rubric \in Scenarios \cup {None}
    BY <2>1
  <2>5. drill' = [drill EXCEPT ![d] = [drill[d] EXCEPT !.weights = w, !.rubric = rubric]]
    BY <2>1, <2>2
  <2> HIDE DEF rubric
  <2>6. [drill[d] EXCEPT !.weights = w, !.rubric = rubric] \in DrillRows
    BY <2>1, <2>3, <2>4, ZenonT(30)
  <2> QED
    BY <2>1, <2>5, <2>6
<1> QED
    BY <1>1, <1>2, <1>3, <1>4, <1>5, <1>6 DEF DraftStep

\* A request that takes effect leaves the record of its key.
LEMMA Stores ==
    ASSUME TeamTypeOK, NEW r \in Requests, Keyed(r), NEW e \in Endpoints, CommitKeyed(r, e)
    PROVE  /\ txn[r].key \in Keys /\ txn[r].body \in Bodies
           /\ replay[<<e, txn[r].key>>] = None
           /\ replay' = [replay EXCEPT ![<<e, txn[r].key>>] =
                                       [body |-> txn[r].body, expired |-> FALSE]]
           /\ replay' \in [Endpoints \X Keys -> Records \cup {None}]
           /\ ran' = [ran EXCEPT ![<<e, txn[r].key>>] = @ + 1]
           /\ ran' \in [Endpoints \X Keys -> Nat]
<1>1. txn[r].key \in Keys /\ txn[r].body \in Bodies
    BY DEF CommitKeyed, Keyed
<1>2. [body |-> txn[r].body, expired |-> FALSE] \in Records
    BY <1>1 DEF Records
<1>3. /\ replay[<<e, txn[r].key>>] = None
      /\ replay' = [replay EXCEPT ![<<e, txn[r].key>>] = [body |-> txn[r].body, expired |-> FALSE]]
      /\ ran' = [ran EXCEPT ![<<e, txn[r].key>>] = @ + 1]
    BY DEF CommitKeyed, StoreResponse
<1>4. ran[<<e, txn[r].key>>] + 1 \in Nat
    BY <1>1 DEF TeamTypeOK, HiringType
<1> QED
    BY <1>1, <1>2, <1>3, <1>4 DEF TeamTypeOK, HiringType

\* Every step of hiring keeps the types.
LEMMA HiringTypes ==
    ASSUME TeamInv, HiringStep
    PROVE  HiringType'
<1> USE RowsAssumption
    DEF TeamInv, TeamTypeOK, HiringType, PositionRows, CandidateRows, Existing, hiring
<1>1. ASSUME NEW r \in Requests, CommitAssign(r)  PROVE HiringType'
    BY <1>1 DEF CommitAssign, Granted, Assigning
<1>2. ASSUME NEW r \in Requests, CommitArchive(r)  PROVE HiringType'
  <2>1. txn[r].drill \in Drills /\ txn[r].from \subseteq Existing
    BY <1>2 DEF CommitArchive, Granted, Archiving
  <2>2. /\ position' = [p \in Positions |->
               IF p \in txn[r].from THEN [position[p] EXCEPT !.stages = @ \ {txn[r].drill}]
               ELSE position[p]]
        /\ assigned' = assigned \ {txn[r].drill} /\ UNCHANGED <<candidate, listed, replay, ran>>
    BY <1>2 DEF CommitArchive
  <2>3. \A p \in Existing :
           [position[p] EXCEPT !.stages = @ \ {txn[r].drill}] \in PositionRows
    OBVIOUS
  <2> QED
    BY <2>1, <2>2, <2>3
<1>3. ASSUME NEW r \in Requests, NEW d \in Drills, BeginAssign(r, d) \/ BeginArchive(r, d)
      PROVE HiringType'
    BY <1>3 DEF BeginAssign, BeginArchive
<1>4. ASSUME NEW p \in Positions, CreatePosition(p)  PROVE HiringType'
    BY <1>4 DEF CreatePosition
<1>5. ASSUME NEW p \in Positions, ClosePosition(p)  PROVE HiringType'
    BY <1>5, ZenonT(30) DEF ClosePosition, Of
<1>6. ASSUME NEW r \in Requests, CommitAssessment(r)  PROVE HiringType'
  <2>1. txn[r].position \in Existing /\ txn[r].stages \subseteq Drills
    BY <1>6 DEF CommitAssessment, Granted, Composed
  <2> QED
    BY <1>6, <2>1 DEF CommitAssessment
<1>7. ASSUME NEW r \in Requests, NEW p \in Positions, NEW ds \in SUBSET Drills,
             BeginAssessment(r, p, ds)
      PROVE HiringType'
    BY <1>7 DEF BeginAssessment
<1>8. ASSUME NEW k \in Candidates, Progress(k)  PROVE HiringType'
  <2>1. Stage[candidate[k].progress] \in {"completed", "graded", "rendered"}
    BY <1>8 DEF Progress, Stage
  <2> QED
    BY <1>8, <2>1 DEF Progress
<1>9. ASSUME NEW e \in Endpoints, NEW i \in Keys, KeyExpires(e, i)  PROVE HiringType'
    BY <1>9 DEF KeyExpires, Unknown, Records
<1>10. ASSUME NEW r \in Requests, CommitCandidates(r)  PROVE HiringType'
  <2>1. "candidates" \in Endpoints /\ CommitKeyed(r, "candidates") /\ Keyed(r)
    BY <1>10 DEF CommitCandidates, Endpoints, Granted
  <2>2. txn[r].body.position \in Positions
    BY <2>1, Stores DEF Bodies
  <2>3. candidate' \in [Candidates -> CandidateRows \cup {None}]
    BY <1>10, <2>2 DEF CommitCandidates
  <2> QED
    BY <1>10, <2>1, <2>3, Stores DEF CommitCandidates
<1>11. ASSUME NEW r \in Requests, CommitInvites(r)  PROVE HiringType'
  <2>1. "invites" \in Endpoints /\ CommitKeyed(r, "invites") /\ Keyed(r) /\ Sending(r)
    BY <1>11 DEF CommitInvites, Endpoints, Granted
  <2>2. /\ txn[r].body.position \in Existing
        /\ txn[r].body.who \subseteq Of(txn[r].body.position)
    BY <2>1 DEF CommitKeyed, Keyed, Sending
  <2>3. position' \in [Positions -> PositionRows \cup {None}]
    BY <1>11, <2>2, ZenonT(30) DEF CommitInvites
  <2>4. \A k \in Of(txn[r].body.position) :
           [candidate[k] EXCEPT !.tokens = @ + 1, !.invites = @ + 1] \in CandidateRows
    <3>1. \A y \in CandidateRows, m, n \in Nat :
             [y EXCEPT !.tokens = m, !.invites = n] \in CandidateRows
      OBVIOUS
    <3>2. \A k \in Of(txn[r].body.position) :
             /\ candidate[k] \in CandidateRows
             /\ candidate[k].tokens + 1 \in Nat /\ candidate[k].invites + 1 \in Nat
      BY DEF Of
    <3> QED
      BY <3>1, <3>2
  <2>5. candidate' \in [Candidates -> CandidateRows \cup {None}]
    BY <1>11, <2>2, <2>4 DEF CommitInvites
  <2> QED
    BY <1>11, <2>1, <2>3, <2>5, Stores DEF CommitInvites
<1>12. ASSUME NEW r \in Requests, CommitDecide(r)  PROVE HiringType'
  <2>1. /\ txn[r].candidate \in Candidates /\ candidate[txn[r].candidate] # None
        /\ txn[r].decision \in {"approved", "rejected"}
    BY <1>12 DEF CommitDecide, Granted, Deciding
  <2> QED
    BY <1>12, <2>1 DEF CommitDecide
<1>13. ASSUME NEW r \in Requests, CommitShortlist(r)  PROVE HiringType'
  <2>1. "shortlists" \in Endpoints /\ CommitKeyed(r, "shortlists") /\ Keyed(r)
    BY <1>13 DEF CommitShortlist, Endpoints, Granted
  <2>2. txn[r].body.who \subseteq Candidates
    BY <2>1, Stores DEF Bodies
  <2> QED
    BY <1>13, <2>1, <2>2, Stores DEF CommitShortlist
<1>14. ASSUME NEW r \in Requests,
              NEW k \in Candidates, NEW decision \in {"approved", "rejected"},
              BeginDecide(r, k, decision)
       PROVE HiringType'
    BY <1>14 DEF BeginDecide
<1>15. ASSUME NEW r \in Requests,
              NEW i \in team.keys, NEW p \in team.positions, NEW ks \in SUBSET team.candidates,
              \/ BeginCandidates(r, i, p, ks) \/ BeginInvites(r, i, p, ks)
              \/ BeginShortlist(r, i, p, ks)
       PROVE HiringType'
    BY <1>15 DEF BeginCandidates, BeginInvites, BeginShortlist, BeginKeyed
<1> HIDE DEF HiringType, TeamInv
<1> QED
    BY <1>1, <1>2, <1>3, <1>4, <1>5, <1>6, <1>7, <1>8, <1>9, <1>10, <1>11, <1>12,
       <1>13, <1>14, <1>15
    DEF HiringStep, DrillUse, PositionStep, CandidateStep

\* What the steps on documents, of jobs, on drafts and of hiring leave alone.
LEMMA KnowledgeFrame ==
    ASSUME KnowledgeStep
    PROVE  UNCHANGED <<team, generation, txn, locks>>
    BY DEF KnowledgeStep, PublishFacts, CreateDocument, ReplaceManualDraft, BeginUpload,
           GetReview, CheckLatest, ApplyExtractedFacts, RetryExtraction, MarkExtractionFailed

LEMMA JobFrame ==
    ASSUME JobStep
    PROVE  UNCHANGED <<team, knowledge, txn, locks>>
    BY DEF JobStep, GenerationBasis, ApplyScenario, ApplyRubric, MarkGenerationFailed,
           GenerationDies

LEMMA DraftFrame ==
    ASSUME NEW d \in Drills, DraftStep(d)
    PROVE  UNCHANGED <<team, knowledge, txn, locks>>
    BY DEF DraftStep, CreateDrill, ReplaceInputs, RequestScenario, RequestRubric, TuneWeights,
           DeleteDimension

LEMMA PublishFrame ==
    ASSUME NEW r \in Requests, CommitPublish(r) \/ \E d \in Drills : BeginPublish(r, d)
    PROVE  UNCHANGED <<team, knowledge>>
    BY DEF CommitPublish, BeginPublish

LEMMA HiringFrame ==
    ASSUME HiringStep
    PROVE  /\ UNCHANGED <<team, knowledge>>
           /\ UNCHANGED generation \/ \E r \in Requests : CommitArchive(r)
<1>1. ASSUME DrillUse \/ PositionStep
      PROVE  /\ UNCHANGED <<team, knowledge>>
             /\ UNCHANGED generation \/ \E r \in Requests : CommitArchive(r)
    BY <1>1 DEF DrillUse, CommitAssign, CommitArchive, BeginAssign, BeginArchive,
                PositionStep, CreatePosition, ClosePosition, CommitAssessment, BeginAssessment
<1>2. ASSUME NEW r \in Requests,
             \/ CommitCandidates(r) \/ CommitInvites(r) \/ CommitDecide(r) \/ CommitShortlist(r)
      PROVE  UNCHANGED <<team, knowledge, generation>>
    BY <1>2 DEF CommitCandidates, CommitInvites, CommitDecide, CommitShortlist
<1>3. ASSUME NEW r \in Requests,
             NEW i \in team.keys, NEW p \in team.positions, NEW ks \in SUBSET team.candidates,
             \/ BeginCandidates(r, i, p, ks) \/ BeginInvites(r, i, p, ks)
             \/ BeginShortlist(r, i, p, ks)
      PROVE  UNCHANGED <<team, knowledge, generation>>
    BY <1>3 DEF BeginCandidates, BeginInvites, BeginShortlist, BeginKeyed
<1>4. ASSUME \/ \E k \in Candidates : Progress(k)
             \/ \E e \in Endpoints, i \in Keys : KeyExpires(e, i)
             \/ \E r \in Requests, k \in Candidates, decision \in {"approved", "rejected"} :
                  BeginDecide(r, k, decision)
      PROVE  UNCHANGED <<team, knowledge, generation>>
    BY <1>4 DEF Progress, KeyExpires, BeginDecide
<1> QED
    BY <1>1, <1>2, <1>3, <1>4 DEF HiringStep, CandidateStep

\* The locks of a step: those of one that begins, or ends, or all as they were.
LEMMA LockStep ==
    ASSUME TeamTypeOK, TeamStep
    PROVE  /\ LockType'
           /\ \/ UNCHANGED <<txn, locks>>
              \/ \E r \in Requests :
                   /\ txn[r] = Idle \/ txn'[r] = Idle
                   /\ \A q \in Requests \ {r} :
                        /\ txn'[q] = txn[q] /\ locks'[q] = locks[q]
                        /\ txn[r] = Idle => locks[q] \cap locks'[r] = {}
<1> USE DEF TeamTypeOK, LockType
<1> DEFINE Moves(r) ==
             /\ LockType'
             /\ txn[r] = Idle \/ txn'[r] = Idle
             /\ \A q \in Requests \ {r} :
                  /\ txn'[q] = txn[q] /\ locks'[q] = locks[q]
                  /\ txn[r] = Idle => locks[q] \cap locks'[r] = {}
<1>1. ASSUME NEW r \in Requests, NEW names, NEW record, Begin(r, names, record)
      PROVE  Moves(r)
    BY <1>1, Begins
<1>2. ASSUME NEW r \in Requests, End(r)  PROVE Moves(r)
    BY <1>2, Ends
<1> HIDE DEF Moves
<1>3. ASSUME AuthoringStep
      PROVE  UNCHANGED <<txn, locks>> \/ \E r \in Requests : Moves(r)
  <2>1. ASSUME KnowledgeStep \/ JobStep  PROVE UNCHANGED <<txn, locks>>
    BY <2>1, KnowledgeFrame, JobFrame
  <2>2. ASSUME NEW d \in Drills, DraftStep(d)  PROVE UNCHANGED <<txn, locks>>
    BY <2>2, DraftFrame
  <2>3. ASSUME NEW r \in Requests, CommitPublish(r)  PROVE Moves(r)
    BY <2>3, <1>2 DEF CommitPublish
  <2>4. ASSUME NEW r \in Requests, NEW d \in Drills, BeginPublish(r, d)  PROVE Moves(r)
    BY <2>4, <1>1 DEF BeginPublish
  <2> QED
    BY <1>3, <2>1, <2>2, <2>3, <2>4 DEF AuthoringStep, DrillStep, DraftStep
<1>4. ASSUME HiringStep
      PROVE  UNCHANGED <<txn, locks>> \/ \E r \in Requests : Moves(r)
  <2>1. ASSUME NEW r \in Requests, \/ CommitAssign(r) \/ CommitArchive(r) \/ CommitAssessment(r)
                                   \/ CommitDecide(r)
        PROVE  Moves(r)
    BY <2>1, <1>2 DEF CommitAssign, CommitArchive, CommitAssessment, CommitDecide
  <2>2. ASSUME NEW r \in Requests, CommitCandidates(r) \/ CommitInvites(r) \/ CommitShortlist(r)
        PROVE  Moves(r)
    BY <2>2, <1>2 DEF CommitCandidates, CommitInvites, CommitShortlist, CommitKeyed
  <2>3. ASSUME NEW r \in Requests, NEW d \in Drills, BeginAssign(r, d) \/ BeginArchive(r, d)
        PROVE  Moves(r)
    BY <2>3, <1>1 DEF BeginAssign, BeginArchive
  <2>4. ASSUME NEW r \in Requests, NEW p \in Positions, NEW ds \in SUBSET Drills,
               BeginAssessment(r, p, ds)
        PROVE  Moves(r)
    BY <2>4, <1>1 DEF BeginAssessment
  <2>5. ASSUME NEW r \in Requests, NEW k \in Candidates,
               NEW decision \in {"approved", "rejected"}, BeginDecide(r, k, decision)
        PROVE  Moves(r)
    BY <2>5, <1>1 DEF BeginDecide
  <2>6. ASSUME NEW r \in Requests,
               NEW i \in team.keys, NEW p \in team.positions, NEW ks \in SUBSET team.candidates,
               \/ BeginCandidates(r, i, p, ks) \/ BeginInvites(r, i, p, ks)
               \/ BeginShortlist(r, i, p, ks)
        PROVE  Moves(r)
    BY <2>6, <1>1 DEF BeginCandidates, BeginInvites, BeginShortlist, BeginKeyed
  <2>7. ASSUME \/ \E p \in Positions : CreatePosition(p) \/ ClosePosition(p)
               \/ \E k \in Candidates : Progress(k)
               \/ \E e \in Endpoints, i \in Keys : KeyExpires(e, i)
        PROVE  UNCHANGED <<txn, locks>>
    BY <2>7 DEF CreatePosition, ClosePosition, Progress, KeyExpires
  <2> QED
    BY <1>4, <2>1, <2>2, <2>3, <2>4, <2>5, <2>6, <2>7
    DEF HiringStep, DrillUse, PositionStep, CandidateStep
<1>5. ASSUME NEW r \in Requests, Rollback(r)  PROVE Moves(r)
    BY <1>5, <1>2 DEF Rollback
<1>6. UNCHANGED <<txn, locks>> \/ \E r \in Requests : Moves(r)
    BY <1>3, <1>4, <1>5 DEF TeamStep
<1> QED
    BY <1>6 DEF Moves

\* Every step keeps the types.
LEMMA TypesStep ==
    ASSUME TeamInv, TeamStep
    PROVE  TeamTypeOK'
<1> USE DEF TeamInv
<1>1. ASSUME AuthoringStep, UNCHANGED hiring
      PROVE  KnowledgeType' /\ GenerationType' /\ HiringType'
  <2>1. HiringType'
    BY <1>1 DEF TeamTypeOK, HiringType, hiring
  <2>2. ASSUME KnowledgeStep  PROVE KnowledgeType' /\ GenerationType'
    BY <2>2, KnowledgeFrame, KnowledgeTypes
    DEF TeamTypeOK, GenerationType, generation
  <2>3. ASSUME UNCHANGED knowledge  PROVE KnowledgeType'
    BY <2>3 DEF TeamTypeOK, KnowledgeType, knowledge, Created
  <2>4. ASSUME JobStep  PROVE KnowledgeType' /\ GenerationType'
    BY <2>3, <2>4, JobFrame, JobTypes
  <2>5. ASSUME NEW d \in Drills, DraftStep(d)  PROVE KnowledgeType' /\ GenerationType'
    BY <2>3, <2>5, DraftFrame, DraftTypes
  <2>6. ASSUME NEW r \in Requests, CommitPublish(r)  PROVE KnowledgeType' /\ GenerationType'
    <3>1. /\ txn[r].drill \in Drills /\ drill[txn[r].drill] \in DrillRows
      BY <2>6 DEF CommitPublish, Granted, Publishing, Ready, IsDraft, TeamTypeOK, GenerationType
    <3>2. /\ drill' = [drill EXCEPT ![txn[r].drill].status = "published",
                                    ![txn[r].drill].key = drill[txn[r].drill].grounding,
                                    ![txn[r].drill].grounding = None]
          /\ UNCHANGED <<knowledge, jobs, deaths>>
      BY <2>6 DEF CommitPublish
    <3>3. \A y \in DrillRows, v \in Vectors \cup {None} :
             [y EXCEPT !.status = "published", !.key = v, !.grounding = None] \in DrillRows
      BY DEF DrillRows
    <3>4. drill[txn[r].drill].grounding \in Vectors \cup {None}
      BY <3>1 DEF DrillRows
    <3> DEFINE row == [drill[txn[r].drill] EXCEPT
                         !.status = "published", !.key = drill[txn[r].drill].grounding,
                         !.grounding = None]
    <3>5. row \in DrillRows
      BY <3>1, <3>3, <3>4
    <3>6. drill' = [drill EXCEPT ![txn[r].drill] = row]
      BY <3>1, <3>2 DEF TeamTypeOK, GenerationType
    <3> HIDE DEF row
    <3>7. GenerationType'
      BY <3>1, <3>2, <3>5, <3>6, RowsAssumption DEF TeamTypeOK, GenerationType, JobRows
    <3> QED
      BY <2>3, <3>2, <3>7
  <2>7. ASSUME NEW r \in Requests, NEW d \in Drills, BeginPublish(r, d)
        PROVE  KnowledgeType' /\ GenerationType'
    BY <2>3, <2>7 DEF BeginPublish, TeamTypeOK, GenerationType, generation
  <2> QED
    BY <1>1, <2>1, <2>2, <2>4, <2>5, <2>6, <2>7 DEF AuthoringStep, DrillStep, DraftStep
<1>2. ASSUME HiringStep
      PROVE  KnowledgeType' /\ GenerationType' /\ HiringType'
  <2>1. HiringType'
    BY <1>2, HiringTypes
  <2>2. UNCHANGED knowledge
    BY <1>2, HiringFrame
  <2>3. KnowledgeType'
    BY <2>2 DEF TeamTypeOK, KnowledgeType, knowledge, Created
  <2>4. ASSUME NEW r \in Requests, CommitArchive(r)  PROVE GenerationType'
    <3>1. txn[r].drill \in Drills /\ drill[txn[r].drill] \in DrillRows
      BY <2>4 DEF CommitArchive, Granted, Archiving, Published, TeamTypeOK, GenerationType
    <3>2. drill' = [drill EXCEPT ![txn[r].drill].status = "archived"] /\ UNCHANGED <<jobs, deaths>>
      BY <2>4 DEF CommitArchive
    <3> QED
      BY <3>1, <3>2, RowsAssumption DEF TeamTypeOK, GenerationType, DrillRows
  <2>5. UNCHANGED generation \/ \E r \in Requests : CommitArchive(r)
    BY <1>2, HiringFrame
  <2> QED
    BY <2>1, <2>3, <2>4, <2>5 DEF TeamTypeOK, GenerationType, generation
<1>3. ASSUME UNCHANGED <<knowledge, generation, hiring>>
      PROVE  KnowledgeType' /\ GenerationType' /\ HiringType'
    BY <1>3 DEF TeamTypeOK, KnowledgeType, GenerationType, HiringType, knowledge, generation,
                hiring, Created
<1>4. KnowledgeType' /\ GenerationType' /\ HiringType'
    BY <1>1, <1>2, <1>3 DEF TeamStep, Rollback, TrainingStep
<1>5. team' = team
    BY KnowledgeFrame, JobFrame, DraftFrame, PublishFrame, HiringFrame
    DEF TeamStep, AuthoringStep, DrillStep, DraftStep, Rollback
<1> QED
    BY <1>4, <1>5, LockStep DEF TeamTypeOK

-----------------------------------------------------------------------------
(* What a transaction that goes on holds a lock of stays as it was.         *)

\* r goes on: the step is another's.
GoesOn(r) == r \in Requests /\ txn[r] # Idle /\ txn'[r] = txn[r]

\* Another transaction's locks are other rows.
LEMMA Apart ==
    ASSUME TeamTypeOK, NEW r, GoesOn(r), NEW q \in Requests, End(q)
    PROVE  q # r /\ locks[q] \cap locks[r] = {}
    BY Ends DEF TeamTypeOK, LockType, GoesOn

\* A drill that is locked.
LEMMA DrillStands ==
    ASSUME TeamInv, TeamStep, NEW r, GoesOn(r), NEW d \in Drills \cap locks[r], drill[d] # None
    PROVE  drill'[d] = drill[d]
<1> USE DEF TeamInv, GoesOn
<1>0. DOMAIN drill = Drills
    BY DEF TeamTypeOK, GenerationType
<1>1. CASE UNCHANGED generation
    BY <1>1 DEF generation
<1>2. CASE JobStep
    BY <1>0, <1>2, SMTT(30) DEF JobStep, GenerationBasis, ApplyScenario, ApplyRubric,
                                MarkGenerationFailed, GenerationDies, Free
<1>3. ASSUME NEW e \in Drills, DraftStep(e)  PROVE drill'[d] = drill[d]
    BY <1>0, <1>3 DEF DraftStep, CreateDrill, ReplaceInputs, RequestScenario, RequestRubric,
                      TuneWeights, DeleteDimension, Free
<1>4. ASSUME NEW q \in Requests, CommitPublish(q)  PROVE drill'[d] = drill[d]
  <2>1. txn[q].drill \in locks[q] /\ End(q)
    BY <1>4 DEF CommitPublish, Granted, Publishing
  <2>2. txn[q].drill # d
    BY <2>1, Apart
  <2> QED
    BY <1>0, <1>4, <2>2 DEF CommitPublish
<1>5. ASSUME NEW q \in Requests, CommitArchive(q)  PROVE drill'[d] = drill[d]
  <2>1. txn[q].drill \in locks[q] /\ End(q)
    BY <1>5 DEF CommitArchive, Granted, Archiving
  <2>2. txn[q].drill # d
    BY <2>1, Apart
  <2> QED
    BY <1>0, <1>5, <2>2 DEF CommitArchive
<1>6. CASE AuthoringStep
  <2>1. ASSUME NEW q \in Requests, NEW e \in Drills, BeginPublish(q, e)
        PROVE  UNCHANGED generation
    BY <2>1 DEF BeginPublish
  <2> QED
    BY <1>1, <1>2, <1>3, <1>4, <1>6, <2>1, KnowledgeFrame
    DEF AuthoringStep, DrillStep, DraftStep
<1> QED
    BY <1>1, <1>5, <1>6, HiringFrame DEF TeamStep, Rollback

\* What is live, while the team is locked.
LEMMA VectorStands ==
    ASSUME TeamInv, TeamStep, NEW r, GoesOn(r), Team \in locks[r]
    PROVE  Live' = Live /\ Vector' = Vector
<1> USE DEF TeamInv, GoesOn, Live, Vector, Created
<1>1. CASE UNCHANGED document
    BY <1>1
<1>2. ASSUME \A d \in Documents : /\ document'[d] = None <=> document[d] = None
                                  /\ document[d] # None =>
                                       document'[d].version = document[d].version
      PROVE  Live' = Live /\ Vector' = Vector
  <2>1. Live' = Live
    BY <1>2
  <2>2. \A d \in Live : document'[d].version = document[d].version
    BY <1>2
  <2> QED
    BY <2>1, <2>2
<1>3. CASE KnowledgeStep
  <2>1. ~PublishFacts /\ \A d \in Documents : ~CreateDocument(d)
    BY DEF PublishFacts, CreateDocument, Free
  <2> USE RowsAssumption DEF TeamTypeOK, KnowledgeType, DocumentRows
  <2>2. ASSUME NEW d \in Created, NEW source \in 0..MaxUploads, PutDraft(d, source)
        PROVE  Live' = Live /\ Vector' = Vector
    <3>1. document'[d] = [document[d] EXCEPT !.draft = Draft(d, source), !.drafts = @ + 1]
      BY <2>2 DEF PutDraft
    <3>2. document[d] \in DocumentRows
      OBVIOUS
    <3>3. document'[d] # None /\ document'[d].version = document[d].version
      <4>1. \A x, n : \A y \in DocumentRows :
               [y EXCEPT !.draft = x, !.drafts = n].version = y.version
        OBVIOUS
      <4>2. document'[d] # None
        BY <2>2, PutsDraft
      <4> QED
        BY <3>1, <3>2, <4>1, <4>2
    <3>4. \A e \in Documents \ {d} : document'[e] = document[e]
      BY <2>2 DEF PutDraft
    <3> QED
      BY <1>2, <3>3, <3>4
  <2>3. ASSUME NEW d \in Documents, BeginUpload(d)
        PROVE  Live' = Live /\ Vector' = Vector
    <3>1. /\ document[d] \in DocumentRows
          /\ document' = [document EXCEPT ![d] = [document[d] EXCEPT !.draft = None]]
      BY <2>3 DEF BeginUpload
    <3>2. /\ [document[d] EXCEPT !.draft = None] \in DocumentRows
          /\ [document[d] EXCEPT !.draft = None].version = document[d].version
      BY <3>1
    <3> QED
      BY <1>2, <3>1, <3>2
  <2>4. ASSUME NEW d \in Documents, ReplaceManualDraft(d)
        PROVE  Live' = Live /\ Vector' = Vector
    BY <2>2, <2>4, AuthoringAssumption DEF ReplaceManualDraft
  <2>5. ASSUME NEW d \in Documents, NEW u \in 1..MaxUploads, ApplyExtractedFacts(d, u)
        PROVE  Live' = Live /\ Vector' = Vector
    <3>1. \E e \in 1..MaxUploads : uploads[d][e] # "none"
      BY <2>5 DEF ApplyExtractedFacts
    <3>2. d \in Created
      BY <3>1
    <3> QED
      BY <2>2, <2>5, <3>2 DEF ApplyExtractedFacts
  <2>6. ASSUME NEW d \in Documents, \/ GetReview(d)
                                    \/ \E u \in 1..MaxUploads :
                                         \/ CheckLatest(d, u) \/ RetryExtraction(d, u)
                                         \/ MarkExtractionFailed(d, u)
        PROVE  UNCHANGED document
    BY <2>6 DEF GetReview, CheckLatest, RetryExtraction, MarkExtractionFailed
  <2> HIDE DEF TeamTypeOK, KnowledgeType, Live, Vector
  <2> QED
    BY <1>1, <1>3, <2>1, <2>3, <2>4, <2>5, <2>6 DEF KnowledgeStep
<1> HIDE DEF Live, Vector
<1>4. CASE AuthoringStep
  <2>1. UNCHANGED knowledge \/ KnowledgeStep
    BY <1>4, JobFrame, DraftFrame, PublishFrame DEF AuthoringStep, DrillStep, DraftStep
  <2> QED
    BY <1>1, <1>3, <2>1 DEF knowledge
<1> QED
    BY <1>1, <1>4, HiringFrame DEF TeamStep, Rollback, knowledge

\* The steps that write positions, and those that write candidates.
LEMMA PositionFrame ==
    ASSUME TeamStep
    PROVE  \/ UNCHANGED position
           \/ \E p \in Positions : CreatePosition(p) \/ ClosePosition(p)
           \/ \E r \in Requests : CommitAssessment(r) \/ CommitInvites(r) \/ CommitArchive(r)
<1>1. ASSUME UNCHANGED hiring  PROVE UNCHANGED position
    BY <1>1 DEF hiring
<1>2. ASSUME NEW r \in Requests,
             \/ CommitAssign(r) \/ CommitCandidates(r) \/ CommitDecide(r) \/ CommitShortlist(r)
      PROVE  UNCHANGED position
    BY <1>2 DEF CommitAssign, CommitCandidates, CommitDecide, CommitShortlist
<1>3. ASSUME NEW k \in Candidates, Progress(k)  PROVE UNCHANGED position
    BY <1>3 DEF Progress
<1>4. ASSUME NEW e \in Endpoints, NEW i \in Keys, KeyExpires(e, i)  PROVE UNCHANGED position
    BY <1>4 DEF KeyExpires
<1>5. ASSUME NEW r \in Requests, NEW d \in Drills, BeginAssign(r, d) \/ BeginArchive(r, d)
      PROVE  UNCHANGED hiring
    BY <1>5 DEF BeginAssign, BeginArchive
<1>6. ASSUME NEW r \in Requests, NEW p \in Positions, NEW ds \in SUBSET Drills,
             BeginAssessment(r, p, ds)
      PROVE  UNCHANGED hiring
    BY <1>6 DEF BeginAssessment
<1>7. ASSUME NEW r \in Requests, NEW k \in Candidates,
             NEW decision \in {"approved", "rejected"}, BeginDecide(r, k, decision)
      PROVE  UNCHANGED hiring
    BY <1>7 DEF BeginDecide
<1>8. ASSUME NEW r \in Requests,
             NEW i \in team.keys, NEW p \in team.positions, NEW ks \in SUBSET team.candidates,
             \/ BeginCandidates(r, i, p, ks) \/ BeginInvites(r, i, p, ks)
             \/ BeginShortlist(r, i, p, ks)
      PROVE  UNCHANGED hiring
    BY <1>8 DEF BeginCandidates, BeginInvites, BeginShortlist, BeginKeyed
<1> QED
    BY <1>1, <1>2, <1>3, <1>4, <1>5, <1>6, <1>7, <1>8
    DEF TeamStep, TrainingStep, HiringStep, DrillUse, PositionStep, CandidateStep

LEMMA CandidateFrame ==
    ASSUME TeamStep
    PROVE  \/ UNCHANGED candidate
           \/ \E p \in Positions : ClosePosition(p)
           \/ \E k \in Candidates : Progress(k)
           \/ \E r \in Requests : CommitCandidates(r) \/ CommitInvites(r) \/ CommitDecide(r)
<1>1. ASSUME UNCHANGED hiring  PROVE UNCHANGED candidate
    BY <1>1 DEF hiring
<1>2. ASSUME NEW r \in Requests,
             \/ CommitAssign(r) \/ CommitArchive(r) \/ CommitAssessment(r) \/ CommitShortlist(r)
      PROVE  UNCHANGED candidate
    BY <1>2 DEF CommitAssign, CommitArchive, CommitAssessment, CommitShortlist
<1>3. ASSUME NEW p \in Positions, CreatePosition(p)  PROVE UNCHANGED candidate
    BY <1>3 DEF CreatePosition
<1>4. ASSUME NEW e \in Endpoints, NEW i \in Keys, KeyExpires(e, i)  PROVE UNCHANGED candidate
    BY <1>4 DEF KeyExpires
<1>5. ASSUME NEW r \in Requests, NEW d \in Drills, BeginAssign(r, d) \/ BeginArchive(r, d)
      PROVE  UNCHANGED hiring
    BY <1>5 DEF BeginAssign, BeginArchive
<1>6. ASSUME NEW r \in Requests, NEW p \in Positions, NEW ds \in SUBSET Drills,
             BeginAssessment(r, p, ds)
      PROVE  UNCHANGED hiring
    BY <1>6 DEF BeginAssessment
<1>7. ASSUME NEW r \in Requests, NEW k \in Candidates,
             NEW decision \in {"approved", "rejected"}, BeginDecide(r, k, decision)
      PROVE  UNCHANGED hiring
    BY <1>7 DEF BeginDecide
<1>8. ASSUME NEW r \in Requests,
             NEW i \in team.keys, NEW p \in team.positions, NEW ks \in SUBSET team.candidates,
             \/ BeginCandidates(r, i, p, ks) \/ BeginInvites(r, i, p, ks)
             \/ BeginShortlist(r, i, p, ks)
      PROVE  UNCHANGED hiring
    BY <1>8 DEF BeginCandidates, BeginInvites, BeginShortlist, BeginKeyed
<1> QED
    BY <1>1, <1>2, <1>3, <1>4, <1>5, <1>6, <1>7, <1>8
    DEF TeamStep, TrainingStep, HiringStep, DrillUse, PositionStep, CandidateStep

\* What a position has promised, and the status of one that is locked.
Promised(p) ==
    /\ p \in Existing'
    /\ position[p].frozen => position'[p].frozen
    /\ ~position[p].frozen /\ position'[p].frozen => Busy("invites")
    /\ \A r : GoesOn(r) /\ p \in locks[r] =>
         position'[p].status = position[p].status /\ position'[p].frozen = position[p].frozen

LEMMA PositionStands ==
    ASSUME TeamInv, TeamStep, NEW p \in Existing
    PROVE  Promised(p)
<1>0. /\ p \in Positions /\ position[p] \in PositionRows
      /\ DOMAIN position = Positions
      /\ None \notin PositionRows
    BY RowsAssumption DEF Existing, TeamInv, TeamTypeOK, HiringType
<1>1. ASSUME position'[p] = position[p]  PROVE Promised(p)
    BY <1>0, <1>1 DEF Promised, Existing
<1>2. ASSUME NEW s, NEW ds, position'[p] = [position[p] EXCEPT !.status = s, !.stages = ds],
             s \in {"draft", "active", "closed"}, ds \subseteq Drills,
             \A r : GoesOn(r) /\ p \in locks[r] => s = position[p].status
      PROVE  Promised(p)
  <2>1. \A y \in PositionRows : /\ [y EXCEPT !.status = s, !.stages = ds] \in PositionRows
                                /\ [y EXCEPT !.status = s, !.stages = ds].status = s
                                /\ [y EXCEPT !.status = s, !.stages = ds].frozen = y.frozen
    BY <1>2 DEF PositionRows
  <2> QED
    BY <1>0, <1>2, <2>1 DEF Promised, Existing
<1>3. ASSUME NEW q \in Positions, CreatePosition(q)  PROVE position'[p] = position[p]
    BY <1>0, <1>3 DEF CreatePosition, Existing
<1>4. ASSUME NEW q \in Positions, ClosePosition(q)  PROVE Promised(p)
  <2>1. CASE p # q
    BY <1>0, <1>1, <1>4, <2>1 DEF ClosePosition
  <2>2. CASE p = q
    <3>1. position'[p] = [position[p] EXCEPT !.status = "closed", !.stages = position[p].stages]
      BY <1>0, <1>4, <2>2 DEF ClosePosition, PositionRows
    <3>2. \A r : GoesOn(r) => p \notin locks[r]
      BY <1>4, <2>2 DEF ClosePosition, Free, GoesOn
    <3>3. position[p].stages \subseteq Drills
      BY <1>0 DEF PositionRows
    <3> QED
      BY <1>2, <3>1, <3>2, <3>3
  <2> QED
    BY <2>1, <2>2
<1>5. ASSUME NEW q \in Requests, CommitAssessment(q)  PROVE Promised(p)
  <2>1. /\ End(q) /\ txn[q].position \in locks[q] /\ txn[q].stages \subseteq Drills
    BY <1>5 DEF CommitAssessment, TeamInv, Granted, Composed
  <2>2. CASE p # txn[q].position
    BY <1>0, <1>1, <1>5, <2>2 DEF CommitAssessment
  <2>3. CASE p = txn[q].position
    <3>1. position'[p] = [position[p] EXCEPT !.status = "active", !.stages = txn[q].stages]
      BY <1>0, <1>5, <2>3 DEF CommitAssessment, PositionRows
    <3>2. \A r : GoesOn(r) => p \notin locks[r]
      BY <2>1, <2>3, Apart DEF TeamInv
    <3> QED
      BY <1>2, <2>1, <3>1, <3>2
  <2> QED
    BY <2>2, <2>3
<1>6. ASSUME NEW q \in Requests, CommitInvites(q)  PROVE Promised(p)
  <2>1. /\ End(q) /\ txn[q].op = "invites" /\ txn[q].body.position \in locks[q]
    BY <1>6 DEF CommitInvites, CommitKeyed, TeamInv, Granted, Sending
  <2>2. CASE p # txn[q].body.position
    BY <1>0, <1>1, <1>6, <2>2 DEF CommitInvites
  <2>3. CASE p = txn[q].body.position
    <3>1. position'[p] = [position[p] EXCEPT !.frozen = TRUE]
      BY <1>0, <1>6, <2>3 DEF CommitInvites
    <3>2. \A r : GoesOn(r) => p \notin locks[r]
      BY <2>1, <2>3, Apart DEF TeamInv
    <3>3. position'[p] \in PositionRows /\ position'[p].frozen = TRUE
      BY <1>0, <3>1 DEF PositionRows
    <3>4. Busy("invites")
      BY <2>1 DEF Busy
    <3> QED
      BY <1>0, <3>2, <3>3, <3>4 DEF Promised, Existing
  <2> QED
    BY <2>2, <2>3
<1>7. ASSUME NEW q \in Requests, CommitArchive(q)  PROVE Promised(p)
  <2>1. CASE p \notin txn[q].from
    BY <1>0, <1>1, <1>7, <2>1 DEF CommitArchive
  <2>2. CASE p \in txn[q].from
    <3>1. position'[p] = [position[p] EXCEPT !.status = position[p].status,
                                             !.stages = position[p].stages \ {txn[q].drill}]
      BY <1>0, <1>7, <2>2 DEF CommitArchive, PositionRows
    <3>2. /\ position[p].status \in {"draft", "active", "closed"}
          /\ position[p].stages \ {txn[q].drill} \subseteq Drills
      BY <1>0 DEF PositionRows
    <3> QED
      BY <1>2, <3>1, <3>2
  <2> QED
    BY <2>1, <2>2
<1>8. CASE UNCHANGED position
    BY <1>1, <1>8
<1> QED
    BY <1>1, <1>3, <1>4, <1>5, <1>6, <1>7, <1>8, PositionFrame

\* Nobody puts a drill that is locked into an assessment.
LEMMA StagesStand ==
    ASSUME TeamInv, TeamStep, NEW r, GoesOn(r), NEW d \in Drills \cap locks[r],
           NEW p \in Existing', d \in position'[p].stages
    PROVE  p \in Existing /\ d \in position[p].stages
<1>0. /\ p \in Positions /\ DOMAIN position = Positions /\ None \notin PositionRows
      /\ \A q \in Existing : position[q] \in PositionRows
      /\ position'[p] # None
  <2>1. TeamTypeOK'
    BY TypesStep
  <2> QED
    BY RowsAssumption DEF Existing, TeamInv, TeamTypeOK, HiringType
<1>1. ASSUME position'[p] = position[p]  PROVE p \in Existing /\ d \in position[p].stages
    BY <1>0, <1>1 DEF Existing
<1>2. ASSUME NEW q \in Positions, CreatePosition(q)  PROVE position'[p] = position[p]
    BY <1>0, <1>2 DEF CreatePosition
<1>3. ASSUME NEW q \in Positions, ClosePosition(q)
      PROVE  p \in Existing /\ d \in position[p].stages
  <2>1. CASE p = q
    BY <1>0, <1>3, <2>1 DEF ClosePosition, PositionRows
  <2> QED
    BY <1>0, <1>1, <1>3, <2>1 DEF ClosePosition
<1>4. ASSUME NEW q \in Requests, CommitAssessment(q)
      PROVE  p \in Existing /\ d \in position[p].stages
  <2>1. /\ End(q) /\ txn[q].position \in Existing /\ txn[q].stages \subseteq locks[q]
    BY <1>4 DEF CommitAssessment, TeamInv, Granted, Composed
  <2>2. CASE p = txn[q].position
    <3>1. d \in txn[q].stages
      BY <1>0, <1>4, <2>1, <2>2 DEF CommitAssessment, PositionRows
    <3> QED
      BY <2>1, <3>1, Apart DEF TeamInv
  <2> QED
    BY <1>0, <1>1, <1>4, <2>2 DEF CommitAssessment
<1>5. ASSUME NEW q \in Requests, CommitInvites(q)
      PROVE  p \in Existing /\ d \in position[p].stages
  <2>1. txn[q].body.position \in Existing
    BY <1>5 DEF CommitInvites, CommitKeyed, TeamInv, Granted, Keyed, Endpoints
  <2>2. CASE p = txn[q].body.position
    BY <1>0, <1>5, <2>1, <2>2 DEF CommitInvites, PositionRows
  <2> QED
    BY <1>0, <1>1, <1>5, <2>2 DEF CommitInvites
<1>6. ASSUME NEW q \in Requests, CommitArchive(q)
      PROVE  p \in Existing /\ d \in position[p].stages
  <2>1. txn[q].from \subseteq Existing
    BY <1>6 DEF CommitArchive, TeamInv, Granted, Archiving
  <2>2. CASE p \in txn[q].from
    BY <1>0, <1>6, <2>1, <2>2 DEF CommitArchive, PositionRows
  <2> QED
    BY <1>0, <1>1, <1>6, <2>2 DEF CommitArchive
<1>7. CASE UNCHANGED position
    BY <1>1, <1>7
<1> QED
    BY <1>1, <1>2, <1>3, <1>4, <1>5, <1>6, <1>7, PositionFrame

\* A candidate stays in its position, and the decision on one that is locked.
LEMMA CandidateStands ==
    ASSUME TeamInv, TeamStep, NEW k \in Candidates, candidate[k] # None
    PROVE  /\ candidate'[k] # None /\ candidate'[k].position = candidate[k].position
           /\ \A r : GoesOn(r) /\ k \in locks[r] =>
                candidate'[k].decision = candidate[k].decision
<1> DEFINE Stands == /\ candidate'[k] # None
                     /\ candidate'[k].position = candidate[k].position
                     /\ \A r : GoesOn(r) /\ k \in locks[r] =>
                          candidate'[k].decision = candidate[k].decision
<1>0. /\ candidate[k] \in CandidateRows /\ DOMAIN candidate = Candidates
      /\ None \notin CandidateRows
    BY RowsAssumption DEF TeamInv, TeamTypeOK, HiringType
<1>1. ASSUME candidate'[k] = candidate[k]  PROVE Stands
    BY <1>0, <1>1
<1>t. candidate' \in [Candidates -> CandidateRows \cup {None}]
  <2>1. TeamTypeOK'
    BY TypesStep
  <2> QED
    BY <2>1 DEF TeamTypeOK, HiringType
<1>2. ASSUME NEW n, NEW m, candidate'[k] = [candidate[k] EXCEPT !.tokens = n, !.invites = m],
             n \in Nat, m \in Nat
      PROVE  Stands
  <2>1. \A y \in CandidateRows :
          /\ [y EXCEPT !.tokens = n, !.invites = m] \in CandidateRows
          /\ [y EXCEPT !.tokens = n, !.invites = m].position = y.position
          /\ [y EXCEPT !.tokens = n, !.invites = m].decision = y.decision
    BY <1>2 DEF CandidateRows
  <2> QED
    BY <1>0, <1>2, <2>1
<1>3. ASSUME NEW q \in Positions, ClosePosition(q)  PROVE Stands
  <2>1. \/ candidate'[k] = candidate[k]
        \/ candidate'[k] = [candidate[k] EXCEPT !.tokens = 0]
    BY <1>3 DEF ClosePosition
  <2>2. /\ candidate[k].invites \in Nat
        /\ [candidate[k] EXCEPT !.tokens = 0] =
             [candidate[k] EXCEPT !.tokens = 0, !.invites = candidate[k].invites]
    BY <1>0 DEF CandidateRows
  <2> HIDE DEF Stands
  <2> QED
    BY <1>1, <1>2, <2>1, <2>2
<1>4. ASSUME NEW j \in Candidates, Progress(j)  PROVE Stands
  <2>1. CASE j = k
    <3>1. Stage[candidate[k].progress] \in {"completed", "graded", "rendered"}
      BY <1>4, <2>1 DEF Progress, Stage
    <3>2. candidate'[k] = [candidate[k] EXCEPT !.progress = Stage[candidate[k].progress]]
      BY <1>0, <1>4, <2>1 DEF Progress
    <3> QED
      BY <1>0, <3>1, <3>2 DEF CandidateRows
  <2> QED
    BY <1>0, <1>1, <1>4, <2>1 DEF Progress
<1>5. ASSUME NEW q \in Requests, CommitCandidates(q)  PROVE candidate'[k] = candidate[k]
    BY <1>5 DEF CommitCandidates
<1>6. ASSUME NEW q \in Requests, CommitInvites(q)  PROVE Stands
  <2>1. \/ candidate'[k] = candidate[k]
        \/ candidate'[k] = [candidate[k] EXCEPT !.tokens = candidate[k].tokens + 1,
                                                !.invites = candidate[k].invites + 1]
    BY <1>6 DEF CommitInvites
  <2>2. candidate[k].tokens + 1 \in Nat /\ candidate[k].invites + 1 \in Nat
    BY <1>0 DEF CandidateRows
  <2> HIDE DEF Stands
  <2> QED
    BY <1>1, <1>2, <2>1, <2>2
<1>7. ASSUME NEW q \in Requests, CommitDecide(q)  PROVE Stands
  <2>1. /\ txn[q].decision \in {"approved", "rejected"}
    BY <1>7 DEF CommitDecide, TeamInv, Granted, Deciding
  <2>2. CASE k = txn[q].candidate
    <3>1. candidate'[k] = [candidate[k] EXCEPT !.decision = txn[q].decision]
      BY <1>0, <1>7, <2>2 DEF CommitDecide
    <3>2. \A r : GoesOn(r) => k \notin locks[r]
      BY <1>7, <2>2 DEF CommitDecide, Free, GoesOn
    <3>3. candidate'[k] \in CandidateRows /\ candidate'[k].position = candidate[k].position
      BY <1>0, <2>1, <3>1 DEF CandidateRows
    <3> QED
      BY <1>0, <3>2, <3>3
  <2> QED
    BY <1>0, <1>1, <1>7, <2>2 DEF CommitDecide
<1>8. CASE UNCHANGED candidate
    BY <1>1, <1>8
<1> HIDE DEF Stands
<1>9. Stands
    BY <1>1, <1>3, <1>4, <1>5, <1>6, <1>7, <1>8, CandidateFrame
<1> QED
    BY <1>9 DEF Stands

-----------------------------------------------------------------------------
(* What a transaction has checked holds until it ends.                      *)

\* A request of one of the three batches begins.
BeginsKeyed(r, i, p, ks) ==
    BeginCandidates(r, i, p, ks) \/ BeginInvites(r, i, p, ks) \/ BeginShortlist(r, i, p, ks)

\* What a step does to the open transactions.
LEMMA TxnStep ==
    ASSUME TeamStep
    PROVE  \/ UNCHANGED txn
           \/ \E r \in Requests : End(r)
           \/ \E r \in Requests, d \in Drills :
                BeginPublish(r, d) \/ BeginAssign(r, d) \/ BeginArchive(r, d)
           \/ \E r \in Requests, p \in Positions, ds \in SUBSET Drills : BeginAssessment(r, p, ds)
           \/ \E r \in Requests, k \in Candidates, decision \in {"approved", "rejected"} :
                BeginDecide(r, k, decision)
           \/ \E r \in Requests, i \in team.keys, p \in team.positions,
                 ks \in SUBSET team.candidates : BeginsKeyed(r, i, p, ks)
<1>1. ASSUME NEW r \in Requests,
             \/ CommitPublish(r) \/ CommitAssign(r) \/ CommitArchive(r) \/ CommitAssessment(r)
             \/ CommitDecide(r) \/ CommitCandidates(r) \/ CommitInvites(r) \/ CommitShortlist(r)
             \/ Rollback(r)
      PROVE  End(r)
    BY <1>1 DEF CommitPublish, CommitAssign, CommitArchive, CommitAssessment, CommitDecide,
                CommitCandidates, CommitInvites, CommitShortlist, CommitKeyed, Rollback
<1>2. ASSUME \/ \E p \in Positions : CreatePosition(p) \/ ClosePosition(p)
             \/ \E k \in Candidates : Progress(k)
             \/ \E e \in Endpoints, i \in Keys : KeyExpires(e, i)
      PROVE  UNCHANGED txn
    BY <1>2 DEF CreatePosition, ClosePosition, Progress, KeyExpires
<1>3. CASE AuthoringStep
    BY <1>1, <1>3, KnowledgeFrame, JobFrame, DraftFrame DEF AuthoringStep, DrillStep, DraftStep
<1>4. CASE DrillUse
    BY <1>1, <1>4 DEF DrillUse
<1>5. CASE PositionStep
    BY <1>1, <1>2, <1>5 DEF PositionStep
<1>6. CASE CandidateStep
    BY <1>1, <1>2, <1>6 DEF CandidateStep, BeginsKeyed
<1> QED
    BY <1>1, <1>3, <1>4, <1>5, <1>6 DEF TeamStep, HiringStep

LEMMA StaysGranted ==
    ASSUME TeamInv, TeamStep, NEW r, GoesOn(r)
    PROVE  Granted(r)'
<1>1. r \in Requests /\ txn'[r] = txn[r] /\ txn[r] # Idle
    BY DEF GoesOn
<1>2. Granted(r)
    BY <1>1 DEF TeamInv
<1>3. locks'[r] = locks[r]
  <2>1. \/ UNCHANGED locks
        \/ \E q \in Requests :
             /\ txn[q] = Idle \/ txn'[q] = Idle
             /\ \A s \in Requests \ {q} : locks'[s] = locks[s]
    BY LockStep DEF TeamInv
  <2> QED
    BY <1>1, <2>1
<1>4. \A d \in Drills \cap locks[r] : drill[d] # None => drill'[d] = drill[d]
    BY DrillStands
<1>5. Team \in locks[r] => Vector' = Vector
    BY VectorStands
<1>6. \A p \in Existing : Promised(p)
    BY PositionStands
<1>7. \A p \in Existing :
         /\ p \in Existing'
         /\ p \in locks[r] => /\ position'[p].status = position[p].status
                              /\ position'[p].frozen = position[p].frozen
    BY <1>6 DEF Promised
<1>8. \A d \in Drills \cap locks[r], p \in Existing' :
         d \in position'[p].stages => p \in Existing /\ d \in position[p].stages
    BY StagesStand
<1>9. \A k \in Candidates : candidate[k] # None =>
         /\ candidate'[k] # None /\ candidate'[k].position = candidate[k].position
         /\ k \in locks[r] => candidate'[k].decision = candidate[k].decision
    BY CandidateStands
<1>10. Publishing(r)'
    BY <1>1, <1>2, <1>3, <1>4, <1>5 DEF Granted, Publishing, Ready, IsDraft
<1>11. Assigning(r)'
    BY <1>1, <1>2, <1>3, <1>4 DEF Granted, Assigning, Published
<1>12. Archiving(r)'
  <2> SUFFICES ASSUME txn[r].op = "archive"  PROVE Archiving(r)'
    BY <1>1 DEF Archiving
  <2>1. Archiving(r)
    BY <1>2 DEF Granted
  <2>2. /\ txn[r].drill \in Drills \cap locks'[r]
        /\ \A d \in {txn[r].drill} : drill'[d] # None /\ drill'[d].status = "published"
    BY <1>3, <1>4, <2>1 DEF Archiving, Published
  <2>3. txn[r].from \subseteq Existing'
    BY <1>7, <2>1 DEF Archiving
  <2>4. \A p \in Existing' : ~position'[p].frozen /\ txn[r].drill \in position'[p].stages
           => p \in txn[r].from
    <3> SUFFICES ASSUME NEW p \in Existing', ~position'[p].frozen,
                        txn[r].drill \in position'[p].stages
                 PROVE  p \in txn[r].from
      OBVIOUS
    <3>1. p \in Existing /\ txn[r].drill \in position[p].stages
      BY <1>8, <2>1 DEF Archiving
    <3>2. ~position[p].frozen
      BY <1>6, <3>1 DEF Promised
    <3> QED
      BY <2>1, <3>1, <3>2 DEF Archiving
  <2>5. ASSUME ~Overlap  PROVE ~Busy("invites")'
    <3>1. Busy("archive") /\ ~Busy("invites")
      BY <1>1, <2>1, <2>5 DEF Archiving, Busy
    <3>2. ASSUME NEW q \in Requests, txn'[q] # txn[q]  PROVE txn'[q].op # "invites"
      <4>1. ASSUME NEW s \in Requests, NEW names, NEW record, Begin(s, names, record),
                   record.op # "invites"
            PROVE  txn'[q].op # "invites"
        BY <3>2, <4>1, Begins DEF TeamInv, TeamTypeOK, LockType
      <4>2. ASSUME NEW s \in Requests, End(s)  PROVE txn'[q].op # "invites"
        BY <3>2, <4>2, Ends DEF TeamInv, TeamTypeOK, LockType, Idle
      <4>3. ASSUME NEW s \in Requests, NEW i \in team.keys, NEW p \in team.positions,
                   NEW ks \in SUBSET team.candidates, BeginsKeyed(s, i, p, ks)
            PROVE  txn'[q].op # "invites"
        <5>1. ~BeginInvites(s, i, p, ks)
          BY <2>5, <3>1 DEF BeginInvites
        <5>2. \E names, record : Begin(s, names, record) /\ record.op # "invites"
          BY <4>3, <5>1 DEF BeginsKeyed, BeginCandidates, BeginShortlist, BeginKeyed
        <5> QED
          BY <3>2, <4>1, <5>2
      <4>4. ASSUME NEW s \in Requests, NEW d \in Drills,
                   BeginPublish(s, d) \/ BeginAssign(s, d) \/ BeginArchive(s, d)
            PROVE  txn'[q].op # "invites"
        <5>1. \E names, record : Begin(s, names, record) /\ record.op # "invites"
          BY <4>4 DEF BeginPublish, BeginAssign, BeginArchive
        <5> QED
          BY <3>2, <4>1, <5>1
      <4>5. ASSUME NEW s \in Requests, NEW p \in Positions, NEW ds \in SUBSET Drills,
                   BeginAssessment(s, p, ds)
            PROVE  txn'[q].op # "invites"
        <5>1. \E names, record : Begin(s, names, record) /\ record.op # "invites"
          BY <4>5 DEF BeginAssessment
        <5> QED
          BY <3>2, <4>1, <5>1
      <4>6. ASSUME NEW s \in Requests, NEW k \in Candidates,
                   NEW decision \in {"approved", "rejected"}, BeginDecide(s, k, decision)
            PROVE  txn'[q].op # "invites"
        <5>1. \E names, record : Begin(s, names, record) /\ record.op # "invites"
          BY <4>6 DEF BeginDecide
        <5> QED
          BY <3>2, <4>1, <5>1
      <4> QED
        BY <3>2, <4>2, <4>3, <4>4, <4>5, <4>6, TxnStep
    <3> QED
      BY <3>1, <3>2 DEF Busy
  <2>6. ASSUME ~Overlap, NEW p \in txn[r].from  PROVE ~position'[p].frozen
    BY <1>6, <2>1, <2>6 DEF Archiving, Promised
  <2> QED
    BY <1>1, <2>2, <2>3, <2>4, <2>5, <2>6 DEF Archiving, Published
<1>13. Composed(r)'
    BY <1>1, <1>2, <1>3, <1>4, <1>7 DEF Granted, Composed, Closed, Published
<1>14. Keyed(r)'
    BY <1>1, <1>2, <1>7 DEF Granted, Keyed
<1>15. Sending(r)'
    BY <1>1, <1>2, <1>3, <1>7, <1>9 DEF Granted, Sending, Keyed, Closed, Of, Endpoints
<1>16. Listing(r)'
    BY <1>1, <1>2, <1>3, <1>9 DEF Granted, Listing, Keyed, Approved, Endpoints, Bodies
<1>17. Deciding(r)'
    BY <1>1, <1>2, <1>9 DEF Granted, Deciding
<1> QED
    BY <1>10, <1>11, <1>12, <1>13, <1>14, <1>15, <1>16, <1>17 DEF Granted

\* A transaction begins with what it says it has checked.
LEMMA BeginsGranted ==
    ASSUME TeamInv, TeamStep, NEW r \in Requests, txn[r] = Idle, txn'[r] # Idle
    PROVE  Granted(r)'
<1> USE DEF TeamInv
<1>1. ASSUME NEW q \in Requests, NEW names, NEW record, Begin(q, names, record)
      PROVE  q = r
    BY <1>1, Begins DEF TeamTypeOK, LockType
<1>2. ASSUME NEW names, NEW record, Begin(r, names, record)
      PROVE  txn'[r] = record /\ locks'[r] = names
    BY <1>2, Begins DEF TeamTypeOK, LockType
<1>3. ASSUME NEW d \in Drills, BeginPublish(r, d)  PROVE Granted(r)'
  <2>1. /\ txn'[r] = [op |-> "publish", drill |-> d] /\ locks'[r] = PublishLocks(d)
        /\ UNCHANGED <<drill, document>>
    BY <1>2, <1>3 DEF BeginPublish, knowledge, generation
  <2>2. Vector' = Vector
    BY <2>1 DEF Vector, Live, Created
  <2>3. /\ txn'[r].drill \in Drills \cap locks'[r] /\ Team \in locks'[r]
        /\ Ready(txn[r].drill)'
    BY <1>3, <2>1, <2>2 DEF BeginPublish, PublishLocks, Ready, IsDraft
  <2> QED
    BY <2>1, <2>3 DEF Granted, Publishing, Assigning, Archiving, Composed, Keyed, Sending,
                      Listing, Deciding, Endpoints
<1>4. ASSUME NEW d \in Drills, BeginAssign(r, d)  PROVE Granted(r)'
  <2>1. /\ txn'[r] = [op |-> "assign", drill |-> d] /\ locks'[r] = {d} /\ UNCHANGED drill
    BY <1>2, <1>4 DEF BeginAssign, AssignmentLocks, generation
  <2> QED
    BY <1>4, <2>1 DEF BeginAssign, Published, Granted, Publishing, Assigning, Archiving,
                      Composed, Keyed, Sending, Listing, Deciding, Endpoints
<1>5. ASSUME NEW d \in Drills, BeginArchive(r, d)  PROVE Granted(r)'
  <2> DEFINE from == {p \in Existing : ~position[p].frozen /\ d \in position[p].stages}
  <2>1. /\ txn'[r] = [op |-> "archive", drill |-> d, from |-> from] /\ locks'[r] = {d}
        /\ UNCHANGED <<drill, position>>
    BY <1>2, <1>5 DEF BeginArchive, generation, hiring
  <2>2. ~Overlap => ~Busy("invites")'
    BY <1>5, <2>1, Begins DEF BeginArchive, Busy, TeamTypeOK, LockType
  <2>3. Archiving(r)'
    BY <1>5, <2>1, <2>2 DEF BeginArchive, Archiving, Published, Existing
  <2> QED
    BY <2>1, <2>3 DEF Granted, Publishing, Assigning, Composed, Keyed, Sending, Listing,
                      Deciding, Endpoints
<1>6. ASSUME NEW p \in Positions, NEW ds \in SUBSET Drills, BeginAssessment(r, p, ds)
      PROVE  Granted(r)'
  <2>1. /\ txn'[r] = [op |-> "assessment", position |-> p, stages |-> ds]
        /\ locks'[r] = ds \cup {p} /\ UNCHANGED <<drill, position>>
    BY <1>2, <1>6 DEF BeginAssessment, AssessmentLocks, generation, hiring
  <2>2. Composed(r)'
    BY <1>6, <2>1 DEF BeginAssessment, Composed, Published, Closed, Existing
  <2> QED
    BY <2>1, <2>2 DEF Granted, Publishing, Assigning, Archiving, Keyed, Sending, Listing,
                      Deciding, Endpoints
<1>7. ASSUME NEW k \in Candidates, NEW decision \in {"approved", "rejected"},
             BeginDecide(r, k, decision)
      PROVE  Granted(r)'
  <2>1. /\ txn'[r] = [op |-> "decide", candidate |-> k, decision |-> decision]
        /\ UNCHANGED candidate
    BY <1>2, <1>7 DEF BeginDecide, hiring
  <2> QED
    BY <1>7, <2>1 DEF BeginDecide, Granted, Publishing, Assigning, Archiving, Composed, Keyed,
                      Sending, Listing, Deciding, Endpoints
<1>8. ASSUME NEW e \in Endpoints, NEW i \in team.keys, NEW names, NEW p \in Existing,
             NEW ks \in SUBSET team.candidates,
             BeginKeyed(r, e, i, names, [position |-> p, who |-> ks]),
             e = "invites" => p \in names /\ ~Closed(p) /\ ks \subseteq Of(p),
             e = "shortlists" => ks \subseteq names /\ \A k \in ks : Approved(k)
      PROVE  Granted(r)'
  <2> DEFINE body == [position |-> p, who |-> ks]
  <2>1. /\ txn'[r] = [op |-> e, key |-> i, body |-> body]
        /\ locks'[r] = names \cup {<<e, i>>} /\ UNCHANGED <<position, candidate>>
    BY <1>2, <1>8 DEF BeginKeyed, hiring
  <2>2. i \in Keys /\ body \in Bodies
    BY <1>8, TeamAssumption DEF TeamTypeOK, Existing, Bodies
  <2>3. Keyed(r)' /\ Sending(r)' /\ Listing(r)'
    BY <1>8, <2>1, <2>2 DEF Keyed, Sending, Listing, Existing, Closed, Of, Approved
  <2> QED
    BY <2>1, <2>3 DEF Granted, Publishing, Assigning, Archiving, Composed, Deciding, Endpoints
<1>9. ASSUME NEW i \in team.keys, NEW p \in team.positions, NEW ks \in SUBSET team.candidates,
             BeginsKeyed(r, i, p, ks)
      PROVE  Granted(r)'
  <2>1. CASE BeginCandidates(r, i, p, ks)
    BY <1>8, <2>1 DEF BeginCandidates, Endpoints
  <2>2. CASE BeginInvites(r, i, p, ks)
    BY <1>8, <2>2 DEF BeginInvites, InviteLocks, Invitable, Endpoints
  <2>3. CASE BeginShortlist(r, i, p, ks)
    <3>1. \A k \in ks : Approved(k)
      BY <2>3 DEF BeginShortlist, Listable, Of, Approved
    <3> QED
      BY <1>8, <2>3, <3>1 DEF BeginShortlist, Endpoints
  <2> QED
    BY <1>9, <2>1, <2>2, <2>3 DEF BeginsKeyed
<1>10. ASSUME NEW q \in Requests, End(q)  PROVE FALSE
    BY <1>10, Ends DEF TeamTypeOK, LockType
<1>11. ASSUME NEW q \in Requests, NEW d \in Drills,
              BeginPublish(q, d) \/ BeginAssign(q, d) \/ BeginArchive(q, d)
       PROVE  Granted(r)'
  <2>1. q = r
    BY <1>1, <1>11 DEF BeginPublish, BeginAssign, BeginArchive
  <2> QED
    BY <1>3, <1>4, <1>5, <1>11, <2>1
<1>12. ASSUME NEW q \in Requests, NEW p \in Positions, NEW ds \in SUBSET Drills,
              BeginAssessment(q, p, ds)
       PROVE  Granted(r)'
  <2>1. q = r
    BY <1>1, <1>12 DEF BeginAssessment
  <2> QED
    BY <1>6, <1>12, <2>1
<1>13. ASSUME NEW q \in Requests, NEW k \in Candidates,
              NEW decision \in {"approved", "rejected"}, BeginDecide(q, k, decision)
       PROVE  Granted(r)'
  <2>1. q = r
    BY <1>1, <1>13 DEF BeginDecide
  <2> QED
    BY <1>7, <1>13, <2>1
<1>14. ASSUME NEW q \in Requests, NEW i \in team.keys, NEW p \in team.positions,
              NEW ks \in SUBSET team.candidates, BeginsKeyed(q, i, p, ks)
       PROVE  Granted(r)'
  <2>1. q = r
    BY <1>1, <1>14 DEF BeginsKeyed, BeginCandidates, BeginInvites, BeginShortlist, BeginKeyed
  <2> QED
    BY <1>9, <1>14, <2>1
<1> QED
    BY <1>10, <1>11, <1>12, <1>13, <1>14, TxnStep

\* Every step keeps the types and what the open transactions have checked.
LEMMA TeamInvStep ==
    ASSUME TeamInv, [Next]_vars
    PROVE  TeamInv'
<1>1. CASE TeamStep
  <2>1. TeamTypeOK'
    BY <1>1, TypesStep
  <2>2. ASSUME NEW r \in Requests  PROVE Granted(r)'
    <3>1. CASE txn'[r] = Idle
      BY <3>1 DEF Idle, Granted, Publishing, Assigning, Archiving, Composed, Keyed, Sending,
                  Listing, Deciding, Endpoints
    <3>2. CASE txn'[r] # Idle /\ txn[r] = Idle
      BY <1>1, <3>2, BeginsGranted
    <3>3. CASE txn[r] # Idle /\ txn'[r] # Idle
      <4>1. txn'[r] = txn[r]
        <5>1. \/ UNCHANGED txn
              \/ \E q \in Requests : /\ txn[q] = Idle \/ txn'[q] = Idle
                                     /\ \A s \in Requests \ {q} : txn'[s] = txn[s]
          BY <1>1, LockStep DEF TeamInv
        <5> QED
          BY <3>3, <5>1
      <4> QED
        BY <1>1, <3>3, <4>1, StaysGranted DEF GoesOn
    <3> QED
      BY <3>1, <3>2, <3>3
  <2> QED
    BY <2>1, <2>2 DEF TeamInv
<1>2. CASE UNCHANGED vars
    BY <1>2
    DEF vars, knowledge, generation, hiring, TeamInv, TeamTypeOK, KnowledgeType,
        GenerationType, HiringType, LockType, Created, Existing, Granted, Publishing, Ready,
        IsDraft, Vector, Live, Assigning, Archiving, Published, Busy, Composed, Closed, Keyed,
        Sending, Of, Listing, Approved, Deciding
<1> QED
    BY <1>1, <1>2 DEF Next

\* A drill published before is a row.
LEMMA GivenType ==
    Given \in DrillRows
<1>1. <<>> \in Vectors
  <2>1. <<>> \in [{} -> 1..MaxVersion]
    OBVIOUS
  <2>2. {} \in SUBSET Documents
    OBVIOUS
  <2> QED
    BY <2>1, <2>2 DEF Vectors
<1> DEFINE scenario == [inputs |-> 0, grounding |-> <<>>]
<1>2. scenario \in Scenarios
    BY <1>1, AuthoringAssumption DEF Scenarios
<1>3. \A y \in DrillRows, s \in Scenarios, v \in Vectors :
         [y EXCEPT !.status = "published", !.scenario = s, !.rubric = s,
                   !.scenarioState = "succeeded", !.rubricState = "succeeded",
                   !.weights = "balanced", !.key = v] \in DrillRows
    BY ZenonT(30) DEF DrillRows, States, Weights
<1> QED
    BY <1>1, <1>2, <1>3, NewDrillType DEF Given

LEMMA TeamInvInit ==
    ASSUME Init
    PROVE  TeamInv
<1> USE RowsAssumption, AuthoringAssumption, TeamAssumption DEF Init, AuthoringInit, HiringInit
<1>1. KnowledgeType
    BY DEF KnowledgeType, UploadStates, Created
<1>2. GenerationType
    BY GivenType DEF GenerationType
<1>3. HiringType
    BY DEF HiringType
<1>4. LockType
    BY DEF LockType
<1>5. \A r \in Requests : Granted(r)
    BY DEF Idle, Granted, Publishing, Assigning, Archiving, Composed, Keyed, Sending,
           Listing, Deciding, Endpoints
<1> QED
    BY <1>1, <1>2, <1>3, <1>4, <1>5 DEF TeamInv, TeamTypeOK

\* What the open transactions of a team have checked holds until they end,
\* and every row is one the schema allows.
THEOREM Invariant == Spec => []TeamInv
<1> QED
    BY TeamInvInit, TeamInvStep, PTL DEF Spec

\* The rows of documents, drills, positions and candidates, their locks and
\* the records of the keys are what the schema allows (TeamTypeOK).
THEOREM TeamTypes == Spec => []TeamTypeOK
<1>1. TeamInv => TeamTypeOK
    BY DEF TeamInv
<1> QED
    BY <1>1, Invariant, PTL

-----------------------------------------------------------------------------
(* A key takes effect once.                                                 *)

\* A key without a record has not taken effect: the record and the effect are
\* of one transaction.
RecordedOnce ==
    \A key \in Endpoints \X Keys : ran[key] <= 1 /\ (replay[key] = None => ran[key] = 0)

LEMMA RecordedStep ==
    ASSUME TeamInv, RecordedOnce, [Next]_vars
    PROVE  RecordedOnce'
<1> USE DEF RecordedOnce
<1>1. ASSUME UNCHANGED <<replay, ran>>  PROVE RecordedOnce'
    BY <1>1
<1>2. ASSUME NEW r \in Requests, NEW e \in Endpoints, CommitKeyed(r, e)  PROVE RecordedOnce'
  <2> DEFINE record == [body |-> txn[r].body, expired |-> FALSE]
  <2>1. Keyed(r)
    BY <1>2 DEF TeamInv, Granted
  <2>2. /\ replay[<<e, txn[r].key>>] = None
        /\ replay' = [replay EXCEPT ![<<e, txn[r].key>>] = record]
        /\ ran' = [ran EXCEPT ![<<e, txn[r].key>>] = @ + 1]
        /\ txn[r].key \in Keys /\ txn[r].body \in Bodies
    BY <1>2, <2>1, Stores DEF TeamInv
  <2>3. \A b \in Bodies : [body |-> b, expired |-> FALSE] \in Records
    BY DEF Records
  <2>4. record # None
    BY <2>2, <2>3, RowsAssumption
  <2> QED
    BY <2>2, <2>4 DEF TeamInv, TeamTypeOK, HiringType
<1>3. ASSUME NEW e \in Endpoints, NEW i \in Keys, KeyExpires(e, i)  PROVE RecordedOnce'
  <2>1. /\ replay[<<e, i>>] \in Records /\ ran' = ran
        /\ replay' = [replay EXCEPT ![<<e, i>>] = [replay[<<e, i>>] EXCEPT !.expired = TRUE]]
    BY <1>3 DEF KeyExpires, Unknown, TeamInv, TeamTypeOK, HiringType
  <2>2. replay'[<<e, i>>] \in Records
    BY <2>1 DEF Records, TeamInv, TeamTypeOK, HiringType
  <2> QED
    BY <2>1, <2>2, RowsAssumption DEF TeamInv, TeamTypeOK, HiringType
<1> HIDE DEF RecordedOnce
<1>4. CASE DrillUse \/ PositionStep
    BY <1>1, <1>4
    DEF DrillUse, CommitAssign, CommitArchive, BeginAssign, BeginArchive, hiring,
        PositionStep, CreatePosition, ClosePosition, CommitAssessment, BeginAssessment
<1>5. CASE CandidateStep
  <2>1. ASSUME NEW r \in Requests, CommitCandidates(r) \/ CommitInvites(r) \/ CommitShortlist(r)
        PROVE  RecordedOnce'
    BY <1>2, <2>1 DEF CommitCandidates, CommitInvites, CommitShortlist, Endpoints
  <2>2. ASSUME NEW r \in Requests,
               \/ CommitDecide(r)
               \/ \E k \in Candidates, decision \in {"approved", "rejected"} :
                    BeginDecide(r, k, decision)
        PROVE  UNCHANGED <<replay, ran>>
    BY <2>2 DEF CommitDecide, BeginDecide, hiring
  <2>3. ASSUME NEW r \in Requests,
               NEW i \in team.keys, NEW p \in team.positions, NEW ks \in SUBSET team.candidates,
               \/ BeginCandidates(r, i, p, ks) \/ BeginInvites(r, i, p, ks)
               \/ BeginShortlist(r, i, p, ks)
        PROVE  UNCHANGED <<replay, ran>>
    BY <2>3 DEF BeginCandidates, BeginInvites, BeginShortlist, BeginKeyed, hiring
  <2>4. ASSUME NEW k \in Candidates, Progress(k)  PROVE UNCHANGED <<replay, ran>>
    BY <2>4 DEF Progress
  <2> QED
    BY <1>1, <1>3, <1>5, <2>1, <2>2, <2>3, <2>4 DEF CandidateStep
<1> QED
    BY <1>1, <1>4, <1>5 DEF Next, TeamStep, HiringStep, TrainingStep, hiring, vars

\* A batch of candidates, invites or a shortlist takes effect at most once for
\* each key, whatever is repeated, overlaps, is rolled back or comes after the
\* record has expired (idempotency.py).
THEOREM KeyedOnce == Spec => []OncePerKey
<1>1. Init => RecordedOnce
    BY DEF Init, HiringInit, RecordedOnce
<1>2. TeamInv /\ RecordedOnce /\ [Next]_vars => RecordedOnce'
    BY RecordedStep
<1>3. TeamInv /\ RecordedOnce => OncePerKey
    BY DEF RecordedOnce, OncePerKey, TeamInv, TeamTypeOK, HiringType
<1> QED
    BY <1>1, <1>2, <1>3, Invariant, PTL DEF Spec

-----------------------------------------------------------------------------
(* The answer key of a drill.                                               *)

\* The steps that write drills and their jobs.
LEMMA DrillFrame ==
    ASSUME TeamStep
    PROVE  \/ UNCHANGED generation
           \/ JobStep
           \/ \E d \in Drills : DraftStep(d)
           \/ \E r \in Requests : CommitPublish(r) \/ CommitArchive(r)
<1>1. ASSUME NEW r \in Requests, NEW d \in Drills, BeginPublish(r, d)
      PROVE  UNCHANGED generation
    BY <1>1 DEF BeginPublish
<1> QED
    BY <1>1, KnowledgeFrame, HiringFrame
    DEF TeamStep, Rollback, AuthoringStep, DrillStep, DraftStep

LEMMA KeyStep ==
    ASSUME TeamInv, [Next]_vars, NEW d \in Drills, drill[d] # None, drill[d].key = None,
           drill'[d] # None, drill'[d].key # None
    PROVE  drill'[d].key = Vector'
<1>1. drill' # drill /\ TeamStep
    BY DEF Next, vars, generation
<1>2. DOMAIN drill = Drills /\ drill[d] \in DrillRows
    BY DEF TeamInv, TeamTypeOK, GenerationType
<1>3. ~JobStep
  <2>1. ASSUME NEW j \in jobs, GenerationBasis(j) \/ GenerationDies(j)  PROVE FALSE
    BY <1>1, <2>1 DEF GenerationBasis, GenerationDies
  <2>2. ASSUME NEW j \in jobs, ApplyScenario(j)  PROVE FALSE
    BY <1>2, <2>2 DEF ApplyScenario, DrillRows
  <2>3. ASSUME NEW j \in jobs, ApplyRubric(j)  PROVE FALSE
    BY <1>2, <2>3 DEF ApplyRubric, DrillRows
  <2>4. ASSUME NEW j \in jobs, MarkGenerationFailed(j)  PROVE FALSE
    BY <1>2, <2>4 DEF MarkGenerationFailed, DrillRows
  <2> QED
    BY <2>1, <2>2, <2>3, <2>4 DEF JobStep
<1>4. ASSUME NEW e \in Drills, DraftStep(e)  PROVE FALSE
  <2>1. CASE CreateDrill(e)
    BY <1>2, <2>1 DEF CreateDrill
  <2>2. CASE ReplaceInputs(e)
    BY <1>2, <2>2 DEF ReplaceInputs, NewDrill
  <2>3. CASE RequestScenario(e)
    BY <1>2, <2>3 DEF RequestScenario, ForScenario, NewDrill
  <2>4. CASE RequestRubric(e)
    BY <1>2, <2>4 DEF RequestRubric, DrillRows
  <2>5. CASE TuneWeights(e) \/ DeleteDimension(e)
    BY <1>2, <2>5 DEF TuneWeights, DeleteDimension, DrillRows
  <2> QED
    BY <1>4, <2>1, <2>2, <2>3, <2>4, <2>5 DEF DraftStep
<1>5. ASSUME NEW r \in Requests, CommitArchive(r)  PROVE FALSE
    BY <1>2, <1>5 DEF CommitArchive, DrillRows
<1>6. ASSUME NEW r \in Requests, CommitPublish(r)  PROVE drill'[d].key = Vector'
  <2>1. txn[r].drill \in Drills /\ drill[txn[r].drill].grounding = Vector
    BY <1>6 DEF CommitPublish, TeamInv, Granted, Publishing, Ready
  <2>2. drill'[d].key = drill[d].grounding /\ txn[r].drill = d
    BY <1>2, <1>6 DEF CommitPublish, DrillRows
  <2>3. Vector' = Vector
    BY <1>6 DEF CommitPublish, knowledge, Vector, Live, Created
  <2> QED
    BY <2>1, <2>2, <2>3
<1> QED
    BY <1>1, <1>3, <1>4, <1>5, <1>6, DrillFrame DEF generation

\* A drill is published with the facts that are live at that moment: no
\* publication of facts, a document's first included, comes between the check
\* of publish_drill and its commit (freeze.py).
THEOREM PublishedWithLiveFacts == Spec => AnswerKeyCurrent
<1>1. TeamInv /\ [Next]_vars =>
        [\A d \in Drills :
           drill[d] # None /\ drill[d].key = None /\ drill'[d] # None /\ drill'[d].key # None
             => drill'[d].key = Vector']_vars
    BY KeyStep
<1> QED
    BY <1>1, Invariant, PTL DEF Spec, AnswerKeyCurrent

-----------------------------------------------------------------------------
(* What is withdrawn, and what stands.                                      *)

\* What may still be assigned or practised is published: an assignment names
\* nothing else, an assessment that may change neither.
OffersPublished ==
    /\ assigned \subseteq {d \in Drills : Published({d})}
    /\ \A p \in Existing : position[p].frozen \/ Published(position[p].stages)

\* A published drill stays so until it is archived.
LEMMA PublishedStays ==
    ASSUME TeamInv, TeamStep, NEW d \in Drills, Published({d}),
           \A r \in Requests : CommitArchive(r) => txn[r].drill # d
    PROVE  Published({d})'
<1> USE DEF Published
<1>1. DOMAIN drill = Drills /\ drill[d] \in DrillRows /\ None \notin DrillRows
    BY RowsAssumption DEF TeamInv, TeamTypeOK, GenerationType
<1>2. ASSUME drill'[d] = drill[d]  PROVE Published({d})'
    BY <1>2
<1>3. CASE JobStep
  <2>1. ASSUME NEW j \in jobs, MarkGenerationFailed(j)  PROVE Published({d})'
    <3>1. \A y \in DrillRows, s \in States, n \in Nat :
            /\ [y EXCEPT !.scenarioState = s, !.request = n] \in DrillRows
            /\ [y EXCEPT !.scenarioState = s, !.request = n].status = y.status
            /\ [y EXCEPT !.rubricState = s, !.request = n] \in DrillRows
            /\ [y EXCEPT !.rubricState = s, !.request = n].status = y.status
      BY ZenonT(30) DEF DrillRows
    <3>3. "failed" \in States /\ 0 \in Nat
      BY DEF States
    <3>2. \/ drill'[d] = drill[d]
          \/ drill'[d] = [drill[d] EXCEPT !.scenarioState = "failed", !.request = 0]
          \/ drill'[d] = [drill[d] EXCEPT !.rubricState = "failed", !.request = 0]
      BY <1>1, <2>1 DEF MarkGenerationFailed
    <3>4. drill[d] \in DrillRows /\ drill[d].status = "published"
      BY <1>1
    <3> DEFINE scenarioless == [drill[d] EXCEPT !.scenarioState = "failed", !.request = 0]
               rubricless == [drill[d] EXCEPT !.rubricState = "failed", !.request = 0]
    <3>5. /\ scenarioless \in DrillRows /\ scenarioless.status = drill[d].status
          /\ rubricless \in DrillRows /\ rubricless.status = drill[d].status
      BY <3>1, <3>3, <3>4
    <3>6. drill'[d] \in {drill[d], scenarioless, rubricless}
      BY <3>2
    <3> HIDE DEF scenarioless, rubricless
    <3> QED
      BY <1>1, <3>4, <3>5, <3>6
  <2>2. ASSUME NEW j \in jobs, \/ GenerationBasis(j) \/ ApplyScenario(j) \/ ApplyRubric(j)
                               \/ GenerationDies(j)
        PROVE  drill'[d] = drill[d]
    BY <1>1, <2>2 DEF GenerationBasis, ApplyScenario, ApplyRubric, IsDraft, GenerationDies
  <2> QED
    BY <1>2, <1>3, <2>1, <2>2 DEF JobStep
<1>4. ASSUME NEW e \in Drills, DraftStep(e)  PROVE drill'[d] = drill[d]
    BY <1>1, <1>4 DEF DraftStep, CreateDrill, ReplaceInputs, RequestScenario, RequestRubric,
                      TuneWeights, DeleteDimension, IsDraft
<1>5. ASSUME NEW r \in Requests, CommitPublish(r)  PROVE drill'[d] = drill[d]
    BY <1>1, <1>5 DEF CommitPublish, TeamInv, Granted, Publishing, Ready, IsDraft
<1>6. ASSUME NEW r \in Requests, CommitArchive(r)  PROVE drill'[d] = drill[d]
    BY <1>1, <1>6 DEF CommitArchive
<1> HIDE DEF Published
<1> QED
    BY <1>2, <1>3, <1>4, <1>5, <1>6, DrillFrame DEF generation

\* One that is archived is withdrawn where it was offered.
LEMMA ArchiveWithdraws ==
    ASSUME TeamInv, OffersPublished, NEW r \in Requests, CommitArchive(r), TeamStep
    PROVE  OffersPublished'
<1> DEFINE x == txn[r].drill
<1>1. /\ x \in Drills /\ txn[r].from \subseteq Existing
      /\ \A p \in Existing : ~position[p].frozen /\ x \in position[p].stages => p \in txn[r].from
    BY DEF CommitArchive, TeamInv, Granted, Archiving
<1>2. \A q \in Requests : CommitArchive(q) => q = r
  <2>1. \A q \in Requests : CommitArchive(q) => txn[q] # Idle /\ txn'[q] = Idle
    BY Ends DEF CommitArchive, Idle, TeamInv, TeamTypeOK, LockType
  <2>2. \A q \in Requests \ {r} : txn'[q] = txn[q]
    BY Ends DEF CommitArchive, TeamInv, TeamTypeOK, LockType
  <2> QED
    BY <2>1, <2>2
<1>3. \A d \in Drills \ {x} : Published({d}) => Published({d})'
    BY <1>2, PublishedStays
<1>4. assigned' = assigned \ {x}
    BY DEF CommitArchive
<1>5. ASSUME NEW p \in Existing'  PROVE position'[p].frozen \/ Published(position[p].stages)'
  <2>1. /\ p \in Existing /\ position[p] \in PositionRows
        /\ position'[p] = IF p \in txn[r].from
                          THEN [position[p] EXCEPT !.stages = @ \ {x}] ELSE position[p]
    BY <1>1 DEF CommitArchive, Existing, TeamInv, TeamTypeOK, HiringType
  <2>2. position'[p].frozen = position[p].frozen
    BY <2>1 DEF PositionRows
  <2>3. ASSUME ~position[p].frozen
        PROVE  position'[p].stages \subseteq position[p].stages \ {x}
    BY <1>1, <2>1, <2>3 DEF PositionRows
  <2>4. ASSUME ~position[p].frozen  PROVE Published(position[p].stages)'
    <3>1. \A d \in position[p].stages : d \in Drills /\ Published({d})
      BY <2>1, <2>4 DEF OffersPublished, Published, PositionRows
    <3> QED
      BY <1>3, <2>3, <2>4, <3>1 DEF Published
  <2> QED
    BY <2>2, <2>4
<1> QED
    BY <1>3, <1>4, <1>5 DEF OffersPublished

LEMMA OffersStep ==
    ASSUME TeamInv, OffersPublished, [Next]_vars
    PROVE  OffersPublished'
<1>1. CASE UNCHANGED vars
    BY <1>1 DEF OffersPublished, Published, Existing, vars, generation, hiring
<1>2. ASSUME NEW r \in Requests, CommitArchive(r), TeamStep  PROVE OffersPublished'
    BY <1>2, ArchiveWithdraws
<1>3. CASE TeamStep /\ \A r \in Requests : ~CommitArchive(r)
  <2> USE <1>3
  <2>1. \A d \in Drills : Published({d}) => Published({d})'
    BY PublishedStays
  <2>2. \A ds \in SUBSET Drills : Published(ds) => Published(ds)'
    <3>1. \A ds \in SUBSET Drills : Published(ds) <=> \A d \in ds : Published({d})
      BY DEF Published
    <3>2. \A ds \in SUBSET Drills : Published(ds)' <=> \A d \in ds : Published({d})'
      BY DEF Published
    <3> QED
      BY <2>1, <3>1, <3>2
  <2>3. assigned' \subseteq {d \in Drills : Published({d})'}
    <3>1. ASSUME UNCHANGED assigned  PROVE assigned' \subseteq {d \in Drills : Published({d})'}
      BY <2>1, <3>1 DEF OffersPublished
    <3>2. ASSUME NEW r \in Requests, CommitAssign(r)
          PROVE  assigned' \subseteq {d \in Drills : Published({d})'}
      BY <2>1, <3>2 DEF OffersPublished, CommitAssign, TeamInv, Granted, Assigning
    <3>3. ASSUME NEW r \in Requests, NEW d \in Drills, BeginAssign(r, d) \/ BeginArchive(r, d)
          PROVE  UNCHANGED assigned
      BY <3>3 DEF BeginAssign, BeginArchive, hiring
    <3>4. CASE PositionStep
      BY <3>1, <3>4 DEF PositionStep, CreatePosition, ClosePosition, CommitAssessment,
                        BeginAssessment, hiring
    <3>5. CASE CandidateStep
      <4>1. ASSUME NEW r \in Requests, \/ CommitCandidates(r) \/ CommitInvites(r)
                                       \/ CommitDecide(r) \/ CommitShortlist(r)
            PROVE  UNCHANGED assigned
        BY <4>1 DEF CommitCandidates, CommitInvites, CommitDecide, CommitShortlist
      <4>2. ASSUME NEW k \in Candidates, Progress(k)  PROVE UNCHANGED assigned
        BY <4>2 DEF Progress
      <4>3. ASSUME NEW e \in Endpoints, NEW i \in Keys, KeyExpires(e, i)
            PROVE  UNCHANGED assigned
        BY <4>3 DEF KeyExpires
      <4>4. ASSUME NEW r \in Requests, NEW k \in Candidates,
                   NEW decision \in {"approved", "rejected"}, BeginDecide(r, k, decision)
            PROVE  UNCHANGED assigned
        BY <4>4 DEF BeginDecide, hiring
      <4>5. ASSUME NEW r \in Requests, NEW i \in team.keys, NEW p \in team.positions,
                   NEW ks \in SUBSET team.candidates, BeginsKeyed(r, i, p, ks)
            PROVE  UNCHANGED assigned
        BY <4>5 DEF BeginsKeyed, BeginCandidates, BeginInvites, BeginShortlist, BeginKeyed, hiring
      <4> QED
        BY <3>1, <3>5, <4>1, <4>2, <4>3, <4>4, <4>5 DEF CandidateStep, BeginsKeyed
    <3> QED
      BY <3>1, <3>2, <3>3, <3>4, <3>5
      DEF TeamStep, TrainingStep, HiringStep, DrillUse, hiring
  <2>4. ASSUME NEW p \in Existing'  PROVE position'[p].frozen \/ Published(position[p].stages)'
    <3>0. /\ p \in Positions /\ position'[p] # None /\ DOMAIN position = Positions
          /\ p \in Existing => position[p] \in PositionRows
      <4>1. p \in Positions
        BY DEF Existing
      <4> QED
        BY <4>1 DEF Existing, TeamInv, TeamTypeOK, HiringType
    <3>1. ASSUME position'[p] = position[p]
          PROVE  position'[p].frozen \/ Published(position[p].stages)'
      <4>1. p \in Existing /\ position[p].stages \in SUBSET Drills
        BY <3>0, <3>1 DEF Existing, PositionRows
      <4> QED
        BY <2>2, <3>1, <4>1 DEF OffersPublished
    <3>2. ASSUME NEW q \in Positions, CreatePosition(q), q = p
          PROVE  position'[p].frozen \/ Published(position[p].stages)'
      BY <3>0, <3>2 DEF CreatePosition, Published
    <3>3. ASSUME NEW q \in Positions, ClosePosition(q), q = p
          PROVE  position'[p].frozen \/ Published(position[p].stages)'
      <4>1. /\ p \in Existing /\ position'[p] = [position[p] EXCEPT !.status = "closed"]
        BY <3>0, <3>3 DEF ClosePosition
      <4>2. /\ position'[p].frozen = position[p].frozen
            /\ position'[p].stages = position[p].stages
            /\ position[p].stages \in SUBSET Drills
        BY <3>0, <4>1 DEF PositionRows
      <4> QED
        BY <2>2, <4>1, <4>2 DEF OffersPublished
    <3>4. ASSUME NEW r \in Requests, CommitAssessment(r), txn[r].position = p
          PROVE  position'[p].frozen \/ Published(position[p].stages)'
      <4>1. p \in Existing /\ txn[r].stages \in SUBSET Drills /\ Published(txn[r].stages)
        BY <3>4 DEF CommitAssessment, TeamInv, Granted, Composed
      <4>2. position'[p].stages = txn[r].stages
        BY <3>0, <3>4, <4>1 DEF CommitAssessment, PositionRows
      <4> QED
        BY <2>2, <4>1, <4>2
    <3>5. ASSUME NEW r \in Requests, CommitInvites(r), txn[r].body.position = p
          PROVE  position'[p].frozen
      <4>1. p \in Existing
        BY <3>5 DEF CommitInvites, CommitKeyed, TeamInv, Granted, Keyed, Endpoints
      <4> QED
        BY <3>0, <3>5, <4>1 DEF CommitInvites, PositionRows
    <3>6. \/ position'[p] = position[p]
          \/ CreatePosition(p) \/ ClosePosition(p)
          \/ \E r \in Requests : \/ CommitAssessment(r) /\ txn[r].position = p
                                 \/ CommitInvites(r) /\ txn[r].body.position = p
      BY <3>0, PositionFrame DEF CreatePosition, ClosePosition, CommitAssessment, CommitInvites
    <3> QED
      BY <3>0, <3>1, <3>2, <3>3, <3>4, <3>5, <3>6
  <2> QED
    BY <2>3, <2>4 DEF OffersPublished
<1> QED
    BY <1>1, <1>2, <1>3 DEF Next

\* A closed position takes no invite back: a close and an invite lock it both.
LEMMA RevokesStep ==
    ASSUME TeamInv, ClosedRevokes, [Next]_vars
    PROVE  ClosedRevokes'
<1>1. CASE UNCHANGED vars
    BY <1>1 DEF ClosedRevokes, Closed, Of, Existing, vars, hiring
<1>2. ASSUME TeamStep, NEW p \in Existing', Closed(p)', NEW k \in Of(p)'
      PROVE  candidate'[k].tokens = 0
  <2>0. /\ p \in Positions /\ k \in Candidates /\ candidate'[k] # None
        /\ candidate'[k].position = p /\ position'[p] # None /\ position'[p].status = "closed"
    BY <1>2 DEF Existing, Of, Closed
  <2>1. /\ DOMAIN position = Positions /\ DOMAIN candidate = Candidates
        /\ p \in Existing => position[p] \in PositionRows
        /\ candidate[k] # None => candidate[k] \in CandidateRows
        /\ candidate'[k] \in CandidateRows
    <3>1. TeamTypeOK'
      BY <1>2, TypesStep
    <3> QED
      BY <2>0, <3>1 DEF Existing, TeamInv, TeamTypeOK, HiringType
  <2>2. \/ \E q \in Requests : CommitCandidates(q)
        \/ /\ candidate[k] # None /\ candidate[k].position = p
    <3>1. candidate[k] # None \/ \E q \in Requests : CommitCandidates(q)
      <4>1. ASSUME NEW q \in Positions, ClosePosition(q), candidate[k] = None  PROVE FALSE
        BY <2>0, <4>1 DEF ClosePosition, Of
      <4>2. ASSUME NEW j \in Candidates, Progress(j), candidate[k] = None  PROVE FALSE
        BY <2>0, <2>1, <4>2 DEF Progress
      <4>3. ASSUME NEW q \in Requests, CommitInvites(q), candidate[k] = None  PROVE FALSE
        BY <2>0, <4>3 DEF CommitInvites, CommitKeyed, TeamInv, Granted, Sending, Of
      <4>4. ASSUME NEW q \in Requests, CommitDecide(q), candidate[k] = None  PROVE FALSE
        BY <2>0, <2>1, <4>4 DEF CommitDecide, TeamInv, Granted, Deciding
      <4> QED
        BY <1>2, <2>0, <4>1, <4>2, <4>3, <4>4, CandidateFrame
    <3> QED
      BY <1>2, <2>0, <3>1, CandidateStands
  <2>3. ASSUME NEW q \in Requests, CommitCandidates(q)  PROVE candidate'[k].tokens = 0
    <3>1. position' = position
      BY <2>3 DEF CommitCandidates
    <3>2. CASE k \in txn[q].body.who
      BY <2>0, <2>3, <3>2 DEF CommitCandidates
    <3>3. CASE k \notin txn[q].body.who
      <4>1. candidate'[k] = candidate[k]
        BY <2>0, <2>3, <3>3 DEF CommitCandidates
      <4> QED
        BY <2>0, <3>1, <4>1 DEF ClosedRevokes, Closed, Of, Existing
    <3> QED
      BY <3>2, <3>3
  <2>4. ASSUME candidate[k] # None, candidate[k].position = p,
               p \in Existing, position[p].status = "closed"
        PROVE  candidate'[k].tokens = 0
    <3>1. candidate[k].tokens = 0
      BY <2>0, <2>4 DEF ClosedRevokes, Closed, Of
    <3>2. ASSUME NEW q \in Requests, CommitInvites(q)  PROVE candidate'[k] = candidate[k]
      BY <2>0, <2>4, <3>2 DEF CommitInvites, CommitKeyed, TeamInv, Granted, Sending, Of, Closed
    <3>3. ASSUME NEW q \in Positions, ClosePosition(q)  PROVE candidate'[k].tokens = 0
      BY <2>0, <2>1, <3>1, <3>3 DEF ClosePosition, CandidateRows
    <3>4. ASSUME NEW j \in Candidates, Progress(j)  PROVE candidate'[k].tokens = 0
      BY <2>0, <2>1, <2>4, <3>1, <3>4 DEF Progress, CandidateRows
    <3>5. ASSUME NEW q \in Requests, CommitDecide(q)  PROVE candidate'[k].tokens = 0
      BY <2>0, <2>1, <2>4, <3>1, <3>5 DEF CommitDecide, CandidateRows
    <3> QED
      BY <1>2, <2>3, <3>1, <3>2, <3>3, <3>4, <3>5, CandidateFrame
  <2>5. ASSUME candidate[k] # None, candidate[k].position = p,
               ~(p \in Existing /\ position[p].status = "closed")
        PROVE  candidate'[k].tokens = 0
    <3>1. ASSUME NEW q \in Positions, ClosePosition(q), q = p  PROVE candidate'[k].tokens = 0
      BY <2>0, <2>1, <2>5, <3>1 DEF ClosePosition, Of, CandidateRows
    <3>2. ASSUME NEW q \in Positions, CreatePosition(q), q = p  PROVE FALSE
      BY <2>0, <2>1, <3>2 DEF CreatePosition
    <3>3. ASSUME NEW q \in Requests, CommitAssessment(q), txn[q].position = p  PROVE FALSE
      <4>1. p \in Existing
        BY <3>3 DEF CommitAssessment, TeamInv, Granted, Composed
      <4> QED
        BY <2>0, <2>1, <3>3, <4>1 DEF CommitAssessment, PositionRows
    <3>4. ASSUME NEW q \in Requests, CommitInvites(q)  PROVE FALSE
      <4>1. txn[q].body.position \in Existing
        BY <3>4 DEF CommitInvites, CommitKeyed, TeamInv, Granted, Keyed, Endpoints
      <4>2. position'[p] = position[p] \/ p \in Existing
        BY <2>0, <2>1, <3>4, <4>1 DEF CommitInvites
      <4>3. p \in Existing
        BY <2>0, <4>2 DEF Existing
      <4> QED
        BY <2>0, <2>1, <2>5, <3>4, <4>3 DEF CommitInvites, PositionRows
    <3>5. ASSUME NEW q \in Requests, CommitArchive(q)  PROVE FALSE
      <4>1. txn[q].from \subseteq Existing
        BY <3>5 DEF CommitArchive, TeamInv, Granted, Archiving
      <4>2. p \in Existing
        BY <2>0, <2>1, <3>5, <4>1 DEF CommitArchive, Existing
      <4> QED
        BY <2>0, <2>1, <2>5, <3>5, <4>2 DEF CommitArchive, PositionRows
    <3>6. ASSUME position'[p] = position[p]  PROVE FALSE
      BY <2>0, <2>5, <3>6 DEF Existing
    <3>7. \/ position'[p] = position[p]
          \/ CreatePosition(p) \/ ClosePosition(p)
          \/ \E q \in Requests : \/ CommitAssessment(q) /\ txn[q].position = p
                                 \/ CommitInvites(q) \/ CommitArchive(q)
      BY <1>2, <2>0, <2>1, PositionFrame DEF CreatePosition, ClosePosition, CommitAssessment
    <3> QED
      BY <2>0, <3>1, <3>2, <3>3, <3>4, <3>5, <3>6, <3>7
  <2> QED
    BY <2>2, <2>3, <2>4, <2>5
<1> QED
    BY <1>1, <1>2 DEF Next, ClosedRevokes

\* An archived drill is named by no assignment and by no assessment that may
\* still change, an invite by no closed position (drills/service.py,
\* shortlist.py), though an archive, a close and what offers them overlap.
THEOREM WithdrawnStaysGone == Spec => []WithdrawnIsGone
<1>1. Init => OffersPublished /\ ClosedRevokes
    BY DEF Init, HiringInit, OffersPublished, ClosedRevokes, Existing
<1>2. TeamInv /\ OffersPublished /\ ClosedRevokes /\ [Next]_vars
        => OffersPublished' /\ ClosedRevokes'
    BY OffersStep, RevokesStep
<1>3. OffersPublished => NothingArchivedIsOffered
    BY DEF OffersPublished, NothingArchivedIsOffered, Published
<1> QED
    BY <1>1, <1>2, <1>3, Invariant, PTL DEF Spec, WithdrawnIsGone

-----------------------------------------------------------------------------
(* What the world outside has seen.                                         *)

\* An assessment that is frozen stays as it is: it is composed only before,
\* and an archive that no invite overlaps withdraws from none that freezes.
LEMMA FrozenStep ==
    ASSUME ~Overlap, TeamInv, [Next]_vars, NEW p \in Existing, position[p].frozen
    PROVE  position'[p].frozen /\ position'[p].stages = position[p].stages
<1>1. CASE UNCHANGED vars
    BY <1>1 DEF vars, hiring
<1>2. CASE TeamStep
  <2>0. /\ p \in Positions /\ DOMAIN position = Positions /\ position[p] \in PositionRows
    BY DEF Existing, TeamInv, TeamTypeOK, HiringType
  <2>1. position'[p].frozen
    BY <1>2, PositionStands DEF Promised
  <2>2. ASSUME NEW q \in Positions, CreatePosition(q) \/ ClosePosition(q)
        PROVE  position'[p].stages = position[p].stages
    BY <2>0, <2>2 DEF CreatePosition, ClosePosition, Existing, PositionRows
  <2>3. ASSUME NEW r \in Requests, CommitAssessment(r)
        PROVE  position'[p].stages = position[p].stages
    BY <2>0, <2>3 DEF CommitAssessment, TeamInv, Granted, Composed
  <2>4. ASSUME NEW r \in Requests, CommitArchive(r)
        PROVE  position'[p].stages = position[p].stages
    BY <2>0, <2>4 DEF CommitArchive, TeamInv, Granted, Archiving
  <2>5. ASSUME NEW r \in Requests, CommitInvites(r)
        PROVE  position'[p].stages = position[p].stages
    BY <2>0, <2>5 DEF CommitInvites, PositionRows
  <2> QED
    BY <1>2, <2>1, <2>2, <2>3, <2>4, <2>5, PositionFrame
<1> QED
    BY <1>1, <1>2 DEF Next

\* What is listed is approved: a shortlist locks the candidates whose decision
\* it reads, and a decision reads the shortlist anew when it has the row.
ListedApproved == \A k \in listed : Approved(k)

LEMMA ListedStep ==
    ASSUME TeamInv, ListedApproved, [Next]_vars
    PROVE  ListedApproved'
<1>1. CASE UNCHANGED vars
    BY <1>1 DEF ListedApproved, Approved, vars, hiring
<1>2. CASE TeamStep
  <2> USE DEF Approved
  <2>0. /\ listed \subseteq Candidates /\ DOMAIN candidate = Candidates
        /\ \A k \in Candidates : candidate[k] # None => candidate[k] \in CandidateRows
    BY DEF TeamInv, TeamTypeOK, HiringType
  <2>1. ASSUME NEW k \in Candidates, Approved(k), k \in listed  PROVE Approved(k)'
    <3>1. candidate'[k] # None
      BY <1>2, <2>1, CandidateStands
    <3>2. ASSUME NEW p \in Positions, ClosePosition(p)
          PROVE  candidate'[k].decision = candidate[k].decision
      BY <2>0, <2>1, <3>2 DEF ClosePosition, CandidateRows
    <3>3. ASSUME NEW j \in Candidates, Progress(j)
          PROVE  candidate'[k].decision = candidate[k].decision
      BY <2>0, <2>1, <3>3 DEF Progress, CandidateRows
    <3>4. ASSUME NEW r \in Requests, CommitCandidates(r)
          PROVE  candidate'[k].decision = candidate[k].decision
      BY <2>0, <2>1, <3>4 DEF CommitCandidates
    <3>5. ASSUME NEW r \in Requests, CommitInvites(r)
          PROVE  candidate'[k].decision = candidate[k].decision
      BY <2>0, <2>1, <3>5 DEF CommitInvites, CandidateRows
    <3>6. ASSUME NEW r \in Requests, CommitDecide(r)
          PROVE  candidate'[k].decision = candidate[k].decision
      BY <2>0, <2>1, <3>6 DEF CommitDecide, Decidable, CandidateRows
    <3> QED
      BY <1>2, <2>1, <3>1, <3>2, <3>3, <3>4, <3>5, <3>6, CandidateFrame
  <2>2. ASSUME NEW r \in Requests, CommitShortlist(r)  PROVE ListedApproved'
    <3>1. \A k \in txn[r].body.who : Approved(k)
      BY <2>2 DEF CommitShortlist, CommitKeyed, TeamInv, Granted, Listing
    <3> QED
      BY <2>2, <3>1 DEF CommitShortlist, ListedApproved
  <2>3. UNCHANGED listed \/ \E r \in Requests : CommitShortlist(r)
    <3>1. ASSUME NEW r \in Requests, \/ CommitCandidates(r) \/ CommitInvites(r)
                                     \/ CommitDecide(r)
          PROVE  UNCHANGED listed
      BY <3>1 DEF CommitCandidates, CommitInvites, CommitDecide
    <3>2. ASSUME NEW k \in Candidates, Progress(k)  PROVE UNCHANGED listed
      BY <3>2 DEF Progress
    <3>3. ASSUME NEW e \in Endpoints, NEW i \in Keys, KeyExpires(e, i)
          PROVE  UNCHANGED listed
      BY <3>3 DEF KeyExpires
    <3>4. ASSUME NEW r \in Requests, NEW k \in Candidates,
                 NEW decision \in {"approved", "rejected"}, BeginDecide(r, k, decision)
          PROVE  UNCHANGED listed
      BY <3>4 DEF BeginDecide, hiring
    <3>5. ASSUME NEW r \in Requests, NEW i \in team.keys, NEW p \in team.positions,
                 NEW ks \in SUBSET team.candidates, BeginsKeyed(r, i, p, ks)
          PROVE  UNCHANGED listed
      BY <3>5 DEF BeginsKeyed, BeginCandidates, BeginInvites, BeginShortlist, BeginKeyed, hiring
    <3>6. CASE DrillUse \/ PositionStep
      BY <3>6 DEF DrillUse, CommitAssign, CommitArchive, BeginAssign, BeginArchive, hiring,
                  PositionStep, CreatePosition, ClosePosition, CommitAssessment, BeginAssessment
    <3>7. CASE CandidateStep
      BY <3>1, <3>2, <3>3, <3>4, <3>5, <3>7 DEF CandidateStep, BeginsKeyed
    <3> QED
      BY <1>2, <3>6, <3>7 DEF TeamStep, TrainingStep, HiringStep, hiring
  <2> QED
    BY <2>0, <2>1, <2>2, <2>3 DEF ListedApproved
<1> QED
    BY <1>1, <1>2 DEF Next

\* The decisions HR has in hand stand (shortlist.py, trg_decision_freeze),
\* though a decision asked for before the shortlist comes after it.
THEOREM DecisionsStand == Spec => []SentDecisionsStand
<1>1. Init => ListedApproved
    BY DEF Init, HiringInit, ListedApproved
<1>2. TeamInv /\ ListedApproved /\ [Next]_vars => ListedApproved'
    BY ListedStep
<1>3. ListedApproved => SentDecisionsStand
    BY DEF ListedApproved, Approved, SentDecisionsStand
<1> QED
    BY <1>1, <1>2, <1>3, Invariant, PTL DEF Spec

\* So does the assessment of an invited candidate (invites.py), where no
\* archive overlaps an invite: FrozenStep says why it must not.
THEOREM Committed ==
    ASSUME ~Overlap
    PROVE  Spec => CommitmentsStand
<1>1. TeamInv /\ [Next]_vars =>
        [\A p \in Existing : position[p].frozen =>
           position'[p].frozen /\ position'[p].stages = position[p].stages]_vars
    BY FrozenStep
<1> QED
    BY <1>1, Invariant, DecisionsStand, PTL DEF Spec, CommitmentsStand, FrozenStands

-----------------------------------------------------------------------------
(* What was frozen belongs together.                                        *)

\* A drill row.  A draft's finished scenario is of its inputs and its grounding,
\* and its rubric, once it has weights, of its scenario; a new request, which
\* only a draft with neither generation running gets, starts from nothing.
Coherent(y) ==
    /\ y.request <= y.requests
    /\ y.status = "draft" =>
         /\ y.scenario # None => y.scenarioState = "succeeded"
         /\ y.scenarioState = "succeeded" =>
              y.scenario = [inputs |-> y.inputs, grounding |-> y.grounding]
         /\ y.weights # "none" => y.scenarioState # "running" /\ y.rubric = y.scenario
         /\ y.rubricState = "running" => y.scenarioState = "succeeded"
    /\ y.status # "draft" =>
         /\ y.scenario = [inputs |-> y.inputs, grounding |-> y.key]
         /\ y.rubric = y.scenario /\ y.weights = "balanced"
         /\ y.scenarioState # "running" /\ y.rubricState # "running"

\* The row awaits the job's result, which was made from what the row has.
Awaits(y, j) ==
    /\ y.request = j.request
    /\ "running" = IF j.kind = "scenario" THEN y.scenarioState ELSE y.rubricState

Basis(y, j) ==
    IF j.kind = "rubric" THEN y.scenario ELSE [inputs |-> y.inputs, grounding |-> y.grounding]

Timely(y, j) ==
    /\ j.request \in 1..y.requests
    /\ j.basis # None /\ Awaits(y, j) => j.basis = Basis(y, j)

CoherentInv ==
    /\ \A d \in Drills : drill[d] # None => Coherent(drill[d])
    /\ \A j \in jobs : Timely(drill[j.drill], j)

\* y becomes z, and no job's result comes untimely by it.
Becomes(y, z) == Coherent(z) /\ \A j \in JobRows : Timely(y, j) => Timely(z, j)

LEMMA Requested ==
    ASSUME NEW y \in DrillRows, Coherent(y), y.status = "draft"
    PROVE  /\ \A i \in 0..MaxInputs :
                Becomes(y, [NewDrill EXCEPT !.inputs = i, !.requests = y.requests])
           /\ \A v \in Vectors :
                Becomes(y, [NewDrill EXCEPT !.inputs = y.inputs, !.grounding = v,
                                            !.scenarioState = "running",
                                            !.request = y.requests + 1,
                                            !.requests = y.requests + 1])
           /\ y.scenario # None /\ y.scenarioState # "running" =>
                Becomes(y, [y EXCEPT !.rubricState = "running", !.rubric = None,
                                     !.weights = "none", !.request = y.requests + 1,
                                     !.requests = y.requests + 1])
<1> USE DEF DrillRows, JobRows, Becomes, Coherent, Timely, Awaits, Basis
<1>1. ASSUME NEW i \in 0..MaxInputs
      PROVE  Becomes(y, [NewDrill EXCEPT !.inputs = i, !.requests = y.requests])
    BY DEF NewDrill
<1>2. ASSUME NEW v \in Vectors
      PROVE  Becomes(y, [NewDrill EXCEPT !.inputs = y.inputs, !.grounding = v,
                                         !.scenarioState = "running",
                                         !.request = y.requests + 1,
                                         !.requests = y.requests + 1])
    BY DEF NewDrill
<1>3. ASSUME y.scenario # None, y.scenarioState # "running"
      PROVE  Becomes(y, [y EXCEPT !.rubricState = "running", !.rubric = None,
                                  !.weights = "none", !.request = y.requests + 1,
                                  !.requests = y.requests + 1])
    BY <1>3
<1> QED
    BY <1>1, <1>2, <1>3

LEMMA Finished ==
    ASSUME NEW y \in DrillRows, Coherent(y), NEW j \in JobRows, Timely(y, j), Awaits(y, j)
    PROVE  /\ y.status = "draft" /\ j.kind = "scenario" /\ j.basis # None =>
                Becomes(y, [y EXCEPT !.scenario = j.basis, !.scenarioState = "succeeded",
                                     !.request = 0])
           /\ y.status = "draft" /\ j.kind = "rubric" /\ j.basis # None =>
                \A w \in Weights :
                  Becomes(y, [y EXCEPT !.rubric = j.basis, !.rubricState = "succeeded",
                                       !.weights = w, !.request = 0])
           /\ j.kind = "scenario" =>
                Becomes(y, [y EXCEPT !.scenarioState = "failed", !.request = 0])
           /\ j.kind = "rubric" =>
                Becomes(y, [y EXCEPT !.rubricState = "failed", !.request = 0])
<1> USE DEF DrillRows, JobRows, Becomes, Coherent, Timely, Awaits, Basis
<1>1. ASSUME y.status = "draft", j.kind = "scenario", j.basis # None
      PROVE  Becomes(y, [y EXCEPT !.scenario = j.basis, !.scenarioState = "succeeded",
                                  !.request = 0])
    BY <1>1
<1>2. ASSUME y.status = "draft", j.kind = "rubric", j.basis # None, NEW w \in Weights
      PROVE  Becomes(y, [y EXCEPT !.rubric = j.basis, !.rubricState = "succeeded",
                                  !.weights = w, !.request = 0])
    BY <1>2
<1>3. ASSUME j.kind = "scenario"
      PROVE  Becomes(y, [y EXCEPT !.scenarioState = "failed", !.request = 0])
    BY <1>3
<1>4. ASSUME j.kind = "rubric"
      PROVE  Becomes(y, [y EXCEPT !.rubricState = "failed", !.request = 0])
    BY <1>4
<1> QED
    BY <1>1, <1>2, <1>3, <1>4

LEMMA Edited ==
    ASSUME NEW y \in DrillRows, Coherent(y)
    PROVE  /\ y.status = "draft" /\ y.weights # "none" =>
                /\ \A w \in Weights : Becomes(y, [y EXCEPT !.weights = w])
                /\ \A w \in Weights :
                     Becomes(y, [y EXCEPT !.weights = w,
                                          !.rubric = IF w = "none" THEN None ELSE @])
           /\ /\ y.status = "draft" /\ y.weights = "balanced"
              /\ y.scenarioState = "succeeded" /\ y.rubricState = "succeeded"
              => Becomes(y, [y EXCEPT !.status = "published", !.key = y.grounding,
                                      !.grounding = None])
           /\ y.status # "draft" => Becomes(y, [y EXCEPT !.status = "archived"])
<1> USE DEF DrillRows, JobRows, Becomes, Coherent, Timely, Awaits, Basis
<1>1. ASSUME y.status = "draft", y.weights # "none", NEW w \in Weights
      PROVE  Becomes(y, [y EXCEPT !.weights = w])
    BY <1>1
<1>2. ASSUME y.status = "draft", y.weights # "none", NEW w \in Weights
      PROVE  Becomes(y, [y EXCEPT !.weights = w, !.rubric = IF w = "none" THEN None ELSE @])
  <2>1. CASE w = "none"
    BY <1>2, <2>1
  <2>2. CASE w # "none"
    BY <1>2, <2>2
  <2> QED
    BY <2>1, <2>2
<1>3. ASSUME y.status = "draft", y.weights = "balanced",
             y.scenarioState = "succeeded", y.rubricState = "succeeded"
      PROVE  Becomes(y, [y EXCEPT !.status = "published", !.key = y.grounding,
                                  !.grounding = None])
    BY <1>3
<1>4. ASSUME y.status # "draft"  PROVE Becomes(y, [y EXCEPT !.status = "archived"])
    BY <1>4
<1> QED
    BY <1>1, <1>2, <1>3, <1>4

\* Every step on a drill leaves it coherent and its jobs timely.
LEMMA DrillCoheres ==
    ASSUME TeamInv, CoherentInv, NEW d \in Drills, drill[d] # None, NEW z, Becomes(drill[d], z),
           drill' = [drill EXCEPT ![d] = z],
           \A j \in jobs' : j \in jobs \/ Timely(drill'[j.drill], j)
    PROVE  CoherentInv'
<1>1. DOMAIN drill = Drills /\ jobs \subseteq JobRows /\ \A j \in jobs : j.drill \in Drills
    BY DEF TeamInv, TeamTypeOK, GenerationType, JobRows
<1>2. ASSUME NEW j \in jobs  PROVE Timely(drill'[j.drill], j)
    BY <1>1 DEF CoherentInv, Becomes
<1>3. ASSUME NEW e \in Drills, drill'[e] # None  PROVE Coherent(drill'[e])
    BY <1>1, <1>3 DEF CoherentInv, Becomes
<1> QED
    BY <1>2, <1>3 DEF CoherentInv

LEMMA CoherentStep ==
    ASSUME TeamInv, CoherentInv, [Next]_vars
    PROVE  CoherentInv'
<1>0. /\ DOMAIN drill = Drills /\ jobs \subseteq JobRows
      /\ \A j \in jobs : j.drill \in Drills /\ drill[j.drill] # None
      /\ \A d \in Drills : drill[d] # None => drill[d] \in DrillRows /\ Coherent(drill[d])
      /\ \A j \in jobs : Timely(drill[j.drill], j)
    BY DEF TeamInv, TeamTypeOK, GenerationType, JobRows, CoherentInv
<1>1. CASE UNCHANGED generation
    BY <1>1 DEF CoherentInv, generation
<1>2. ASSUME NEW j \in jobs, GenerationBasis(j)  PROVE CoherentInv'
  <2> DEFINE i == [j EXCEPT !.basis = Basis(drill[j.drill], j)]
  <2>1. jobs' \subseteq jobs \cup {i} /\ drill' = drill
    BY <1>2 DEF GenerationBasis, Basis
  <2>2. Timely(drill[j.drill], i) /\ i.drill = j.drill
    <3>1. j \in JobRows /\ Timely(drill[j.drill], j)
      BY <1>0
    <3>2. i.request = j.request /\ i.kind = j.kind /\ i.drill = j.drill
          /\ i.basis = Basis(drill[j.drill], j)
      BY <3>1 DEF JobRows
    <3>3. Basis(drill[j.drill], i) = Basis(drill[j.drill], j)
      BY <3>2 DEF Basis
    <3> QED
      BY <3>1, <3>2, <3>3 DEF Timely
  <2> HIDE DEF i
  <2> QED
    BY <2>1, <2>2 DEF CoherentInv
<1>3. ASSUME NEW j \in jobs, \/ ApplyScenario(j) \/ ApplyRubric(j) \/ MarkGenerationFailed(j)
      PROVE  CoherentInv'
  <2> DEFINE d == j.drill
             y == drill[d]
  <2>1. /\ j \in JobRows /\ d \in Drills /\ y \in DrillRows /\ Coherent(y) /\ Timely(y, j)
        /\ y # None /\ jobs' \subseteq jobs
    BY <1>0, <1>3 DEF ApplyScenario, ApplyRubric, MarkGenerationFailed
  <2>2. Matches(j) <=> Awaits(y, j)
    BY DEF Matches, Awaits
  <2>3. ASSUME drill' = drill  PROVE CoherentInv'
    BY <2>1, <2>3 DEF CoherentInv
  <2>4. ASSUME NEW z, drill' = [drill EXCEPT ![d] = z], Becomes(y, z)  PROVE CoherentInv'
    BY <2>1, <2>4, DrillCoheres
  <2>5. CASE ApplyScenario(j)
    <3>1. \/ drill' = drill
          \/ /\ y.status = "draft" /\ Awaits(y, j) /\ j.kind = "scenario" /\ j.basis # None
             /\ drill' = [drill EXCEPT ![d] = [y EXCEPT !.scenario = j.basis,
                                                        !.scenarioState = "succeeded",
                                                        !.request = 0]]
      BY <1>0, <2>2, <2>5 DEF ApplyScenario, IsDraft
    <3> QED
      BY <2>1, <2>3, <2>4, <3>1, Finished
  <2>6. CASE ApplyRubric(j)
    <3>1. \/ drill' = drill
          \/ /\ y.status = "draft" /\ Awaits(y, j) /\ j.kind = "rubric" /\ j.basis # None
             /\ \E w \in Weights :
                  drill' = [drill EXCEPT ![d] = [y EXCEPT !.rubric = j.basis,
                                                          !.rubricState = "succeeded",
                                                          !.weights = w, !.request = 0]]
      BY <1>0, <2>2, <2>6, ZenonT(30) DEF ApplyRubric, IsDraft, Weights
    <3> QED
      BY <2>1, <2>3, <2>4, <3>1, Finished, ZenonT(30)
  <2>7. CASE MarkGenerationFailed(j)
    <3>1. \/ drill' = drill
          \/ /\ Awaits(y, j) /\ j.kind = "scenario"
             /\ drill' = [drill EXCEPT ![d] = [y EXCEPT !.scenarioState = "failed",
                                                        !.request = 0]]
          \/ /\ Awaits(y, j) /\ j.kind = "rubric"
             /\ drill' = [drill EXCEPT ![d] = [y EXCEPT !.rubricState = "failed",
                                                        !.request = 0]]
      BY <1>0, <2>1, <2>2, <2>7 DEF MarkGenerationFailed, JobRows
    <3> QED
      BY <2>1, <2>3, <2>4, <3>1, Finished
  <2> QED
    BY <1>3, <2>5, <2>6, <2>7
<1>4. ASSUME NEW j \in jobs, GenerationDies(j)  PROVE CoherentInv'
    BY <1>4 DEF GenerationDies, CoherentInv
<1>5. ASSUME NEW d \in Drills, DraftStep(d)  PROVE CoherentInv'
  <2> DEFINE y == drill[d]
  <2>1. CASE CreateDrill(d)
    <3>1. Coherent(NewDrill)
      BY DEF Coherent, NewDrill
    <3>2. drill[d] = None /\ drill' = [drill EXCEPT ![d] = NewDrill] /\ jobs' = jobs
      BY <2>1 DEF CreateDrill
    <3>3. \A j \in jobs : j.drill # d
      BY <1>0, <3>2
    <3> QED
      BY <1>0, <3>1, <3>2, <3>3 DEF CoherentInv
  <2>2. ASSUME ~CreateDrill(d)
        PROVE  /\ y # None /\ y.status = "draft" /\ y \in DrillRows /\ Coherent(y)
    BY <1>0, <1>5, <2>2 DEF DraftStep, ReplaceInputs, RequestScenario, RequestRubric,
                            TuneWeights, DeleteDimension, IsDraft
  <2>3. ASSUME NEW z, drill' = [drill EXCEPT ![d] = z], Becomes(y, z), ~CreateDrill(d),
               \A j \in jobs' : j \in jobs \/ (Timely(z, j) /\ j.drill = d)
        PROVE  CoherentInv'
    <3>1. drill'[d] = z
      BY <1>0, <2>3
    <3> QED
      BY <2>2, <2>3, <3>1, DrillCoheres
  <2>4. CASE ReplaceInputs(d) /\ ~CreateDrill(d)
    <3>1. /\ drill' = [drill EXCEPT ![d] = [NewDrill EXCEPT !.inputs = y.inputs + 1,
                                                            !.requests = y.requests]]
          /\ jobs' = jobs /\ y.inputs < MaxInputs
      BY <2>4 DEF ReplaceInputs
    <3>2. y.inputs + 1 \in 0..MaxInputs
      BY <2>2, <2>4, <3>1, AuthoringAssumption DEF DrillRows
    <3> QED
      BY <2>2, <2>3, <2>4, <3>1, <3>2, Requested
  <2>5. CASE RequestScenario(d) /\ ~CreateDrill(d)
    <3>1. drill' = [drill EXCEPT ![d] = ForScenario(d)] /\ jobs' = jobs \cup {Job("scenario", d)}
      BY <2>5 DEF RequestScenario
    <3>2. Becomes(y, ForScenario(d))
      BY <2>2, <2>5, VectorType, Requested DEF ForScenario, TeamInv
    <3>3. ForScenario(d).requests = y.requests + 1 /\ y.requests \in Nat
      BY <2>2, <2>5 DEF ForScenario, NewDrill, DrillRows
    <3>4. Timely(ForScenario(d), Job("scenario", d)) /\ Job("scenario", d).drill = d
      BY <3>3 DEF Timely, Job
    <3> QED
      BY <2>3, <2>5, <3>1, <3>2, <3>4
  <2>6. CASE RequestRubric(d) /\ ~CreateDrill(d)
    <3> DEFINE z == [y EXCEPT !.rubricState = "running", !.rubric = None, !.weights = "none",
                              !.request = y.requests + 1, !.requests = y.requests + 1]
    <3>1. drill' = [drill EXCEPT ![d] = z] /\ jobs' = jobs \cup {Job("rubric", d)}
      BY <1>0, <2>2, <2>6 DEF RequestRubric, DrillRows
    <3>2. Becomes(y, z)
      BY <2>2, <2>6, Requested DEF RequestRubric, Running
    <3>3. z.requests = y.requests + 1 /\ y.requests \in Nat
      BY <2>2, <2>6 DEF DrillRows
    <3> HIDE DEF z
    <3>4. Timely(z, Job("rubric", d)) /\ Job("rubric", d).drill = d
      BY <3>3 DEF Timely, Job
    <3> QED
      BY <2>3, <2>6, <3>1, <3>2, <3>4
  <2>7. CASE TuneWeights(d) /\ ~CreateDrill(d)
    <3>1. /\ jobs' = jobs /\ y.weights # "none"
          /\ \E w \in Weights : drill' = [drill EXCEPT ![d] = [y EXCEPT !.weights = w]]
      BY <1>0, <2>7 DEF TuneWeights, Weights
    <3> QED
      BY <2>2, <2>3, <2>7, <3>1, Edited
  <2>8. CASE DeleteDimension(d) /\ ~CreateDrill(d)
    <3>1. /\ jobs' = jobs /\ y.weights # "none"
          /\ \E w \in Weights :
               drill' = [drill EXCEPT ![d] = [y EXCEPT
                           !.weights = w, !.rubric = IF w = "none" THEN None ELSE @]]
      BY <1>0, <2>8 DEF DeleteDimension, Weights
    <3> QED
      BY <2>2, <2>3, <2>8, <3>1, Edited
  <2> QED
    BY <1>5, <2>1, <2>4, <2>5, <2>6, <2>7, <2>8 DEF DraftStep
<1>6. ASSUME NEW r \in Requests, CommitPublish(r)  PROVE CoherentInv'
  <2> DEFINE d == txn[r].drill
  <2>1. /\ d \in Drills /\ drill[d] # None /\ drill[d].status = "draft"
        /\ drill[d].weights = "balanced"
        /\ drill[d].scenarioState = "succeeded" /\ drill[d].rubricState = "succeeded"
    BY <1>6 DEF CommitPublish, TeamInv, Granted, Publishing, Ready, IsDraft
  <2>2. /\ drill' = [drill EXCEPT ![d] = [drill[d] EXCEPT !.status = "published",
                                           !.key = drill[d].grounding, !.grounding = None]]
        /\ jobs' = jobs
    BY <1>0, <1>6, <2>1 DEF CommitPublish
  <2>3. Becomes(drill[d], [drill[d] EXCEPT !.status = "published",
                                           !.key = drill[d].grounding, !.grounding = None])
    BY <1>0, <2>1, Edited
  <2> QED
    BY <2>1, <2>2, <2>3, DrillCoheres
<1>7. ASSUME NEW r \in Requests, CommitArchive(r)  PROVE CoherentInv'
  <2> DEFINE d == txn[r].drill
  <2>1. d \in Drills /\ drill[d] # None /\ drill[d].status # "draft"
    BY <1>7 DEF CommitArchive, TeamInv, Granted, Archiving, Published
  <2>2. drill' = [drill EXCEPT ![d] = [drill[d] EXCEPT !.status = "archived"]] /\ jobs' = jobs
    BY <1>0, <1>7, <2>1 DEF CommitArchive
  <2>3. Becomes(drill[d], [drill[d] EXCEPT !.status = "archived"])
    BY <1>0, <2>1, Edited
  <2> QED
    BY <2>1, <2>2, <2>3, DrillCoheres
<1>8. CASE TeamStep
    BY <1>1, <1>2, <1>3, <1>4, <1>5, <1>6, <1>7, <1>8, DrillFrame DEF JobStep
<1> QED
    BY <1>1, <1>8 DEF Next, vars

\* The scenario of a drill that is published or archived was written from its
\* inputs and its answer key, its rubric from that scenario, whatever was
\* requested again, called off, edited or came late (freeze.py).
THEOREM FrozenBelongsTogether == Spec => []PublishedCoherent
<1>1. Init => CoherentInv
  <2>1. Coherent(Given)
    BY DEF Coherent, Given, NewDrill
  <2> QED
    BY <2>1 DEF Init, AuthoringInit, CoherentInv
<1>2. TeamInv /\ CoherentInv /\ [Next]_vars => CoherentInv'
    BY CoherentStep
<1>3. CoherentInv => PublishedCoherent
    BY DEF CoherentInv, Coherent, PublishedCoherent
<1> QED
    BY <1>1, <1>2, <1>3, Invariant, PTL DEF Spec

-----------------------------------------------------------------------------
(* The least of some numbers, and of a finite set. *)

LEMMA LeastNumber ==
    ASSUME NEW T \in SUBSET Nat, T # {}
    PROVE  \E x \in T : \A y \in T : x <= y
<1> DEFINE R == OpToRel(<, Nat)
<1>1. IsWellFoundedOn(R, Nat)
  BY NatLessThanWellFounded
<1>2. \A x, y \in Nat : y < x => <<y, x>> \in R
  BY DEF OpToRel
<1> HIDE DEF R
<1>3. PICK x \in T : \A y \in T : ~(<<y, x>> \in R)
  BY <1>1, WFMin
<1>4. ASSUME NEW y \in T  PROVE x <= y
  <2>1. x \in Nat /\ y \in Nat
    OBVIOUS
  <2>2. <<y, x>> \notin R
    BY <1>3
  <2>3. ~(y < x)
    BY <1>2, <2>1, <2>2
  <2> QED
    BY <2>1, <2>3
<1> QED
  BY <1>4

\* A finite set that is ordered, strictly, has an element with none before it.
LEMMA LeastElement ==
    ASSUME NEW S, IsFiniteSet(S), S # {}, NEW R,
           \A x \in S : <<x, x>> \notin R,
           \A x, y, z \in S : <<x, y>> \in R /\ <<y, z>> \in R => <<x, z>> \in R
    PROVE  \E x \in S : \A y \in S : <<y, x>> \notin R
<1>1. PICK Under : Under = [x \in S |-> {y \in S : <<y, x>> \in R}]
  OBVIOUS
<1>2. \A x \in S : /\ Under[x] \subseteq S /\ IsFiniteSet(Under[x])
                   /\ Cardinality(Under[x]) \in Nat
  <2> SUFFICES ASSUME NEW x \in S
               PROVE  /\ Under[x] \subseteq S /\ IsFiniteSet(Under[x])
                      /\ Cardinality(Under[x]) \in Nat
    OBVIOUS
  <2>1. Under[x] \subseteq S
    BY <1>1
  <2> QED
    BY <2>1, FS_Subset, FS_CardinalityType
<1>3. PICK T : T = {Cardinality(Under[x]) : x \in S}
  OBVIOUS
<1>4. T \in SUBSET Nat /\ T # {}
  BY <1>2, <1>3
<1>5. PICK n \in T : \A m \in T : n <= m
  BY <1>4, LeastNumber
<1>6. PICK x \in S : n = Cardinality(Under[x])
  BY <1>3
<1>7. ASSUME NEW y \in S, <<y, x>> \in R  PROVE FALSE
  <2>1. Under[y] \subseteq Under[x] /\ y \in Under[x] /\ y \notin Under[y]
    BY <1>1, <1>7
  <2>2. Cardinality(Under[y]) <= Cardinality(Under[x])
        /\ Cardinality(Under[y]) # Cardinality(Under[x])
    BY <1>2, <2>1, FS_Subset
  <2>3. Cardinality(Under[y]) \in T
    BY <1>3
  <2>4. n <= Cardinality(Under[y])
    BY <1>5, <2>3
  <2>5. Cardinality(Under[x]) \in Nat /\ Cardinality(Under[y]) \in Nat
    BY <1>2
  <2> QED
    BY <1>6, <2>2, <2>4, <2>5
<1> QED
  BY <1>7

-----------------------------------------------------------------------------
(* Walks through a list. *)

WalkFields == {"state", "reader", "filter", "at", "served"}
IsWalk(w) == /\ w = [f \in WalkFields |-> w[f]]
             /\ w.at \in Int \X Int /\ w.served \in Seq(AllDrills)

Ahead(w, d) == Before(w.at, Key(w, d))
Never(w, d) == \A n \in DOMAIN w.served : w.served[n] # d
Once(w, d) == \E n \in DOMAIN w.served : \A m \in DOMAIN w.served : w.served[m] = d <=> m = n

\* Of what has not moved (S) the walk has served what is behind its place,
\* once, and nothing that is ahead; a manager's rows only move to the front.
Walking(w, S) ==
    /\ IsWalk(w) /\ S \subseteq AllDrills
    /\ w.state = "open" => \A d \in S : /\ d \in Rows(w)
                                        /\ IF Ahead(w, d) THEN Never(w, d) ELSE Once(w, d)
    /\ w.state = "ended" => \A d \in S : Once(w, d)
    /\ w.reader = Manager =>
         /\ \A m, n \in DOMAIN w.served : w.served[m] = w.served[n] => m = n
         /\ w.state = "open" => \A n \in DOMAIN w.served : ~Ahead(w, w.served[n])

WalkInv == stamp \in [AllDrills -> Nat] /\ Walking(walk, steady)

\* Ids are keys of a table, and tables are finite.
RowsAreRows == /\ \A d, e \in AllDrills : Id[d] = Id[e] => d = e
               /\ IsFiniteSet(AllDrills)

LEMMA KeyType ==
    ASSUME stamp \in [AllDrills -> Nat], NEW w, NEW d \in AllDrills
    PROVE  /\ Key(w, d) = <<Key(w, d)[1], Key(w, d)[2]>>
           /\ Key(w, d)[1] \in Int /\ Key(w, d)[2] \in Int
           /\ Key(w, d)[2] = (IF w.reader = Manager THEN -Id[d] ELSE Id[d])
<1>1. Id[d] \in Nat /\ stamp[d] \in Nat
  BY TrainingAssumption
<1> QED
  BY <1>1 DEF Key, Bucket

LEMMA RowsType == ASSUME NEW w PROVE Rows(w) \subseteq AllDrills
BY DEF Rows, CatalogRows, LibraryRows

LEMMA Orders ==
    ASSUME NEW k, NEW l, NEW j, k \in Int \X Int, l \in Int \X Int, j \in Int \X Int
    PROVE  /\ ~Before(k, k)
           /\ Before(k, l) /\ Before(l, j) => Before(k, j)
           /\ ~Before(k, l) /\ Before(k, j) => Before(l, j)
           /\ k[2] # l[2] /\ ~Before(k, l) => Before(l, k)
BY DEF Before

\* The next row of a page.
LEMMA NextRow ==
    ASSUME RowsAreRows, stamp \in [AllDrills -> Nat], NEW w,
           NEW ahead \in SUBSET AllDrills, ahead # {}
    PROVE  \E e \in ahead : \A f \in ahead \ {e} : ~Before(Key(w, f), Key(w, e))
<1> DEFINE R == {p \in ahead \X ahead : Before(Key(w, p[1]), Key(w, p[2]))}
<1>1. \A d \in ahead : Key(w, d) \in Int \X Int
  BY KeyType
<1>2. \A x, y \in ahead : <<x, y>> \in R <=> Before(Key(w, x), Key(w, y))
  OBVIOUS
<1>3. IsFiniteSet(ahead)
  BY FS_Subset DEF RowsAreRows
<1> HIDE DEF R
<1>4. \A x \in ahead : <<x, x>> \notin R
  BY <1>1, <1>2, Orders
<1>5. \A x, y, z \in ahead : <<x, y>> \in R /\ <<y, z>> \in R => <<x, z>> \in R
  BY <1>1, <1>2, Orders
<1>6. PICK e \in ahead : \A f \in ahead : <<f, e>> \notin R
  BY <1>3, <1>4, <1>5, LeastElement
<1> QED
  BY <1>2, <1>6

\* A page: what is ahead of it was not served, what is behind it was.
LEMMA TurnServes ==
    ASSUME RowsAreRows, stamp \in [AllDrills -> Nat],
           NEW w, IsWalk(w), NEW S \in SUBSET Rows(w), NEW ahead \in SUBSET Rows(w),
           \A d \in S : IF d \in ahead THEN Never(w, d) ELSE Once(w, d),
           \A d \in S \ ahead, e \in ahead : Before(Key(w, d), Key(w, e)),
           w.reader = Manager =>
             /\ \A m, n \in DOMAIN w.served : w.served[m] = w.served[n] => m = n
             /\ \A n \in DOMAIN w.served, e \in ahead : Before(Key(w, w.served[n]), Key(w, e)),
           NEW v, v = Turn(w, ahead)
    PROVE  Walking(v, S) /\ v.state \in {"open", "ended"}
<1>1. S \subseteq AllDrills /\ ahead \subseteq AllDrills
  BY RowsType
<1>2. CASE ahead = {}
  <2>1. v = [w EXCEPT !.state = "ended"]
    BY <1>2 DEF Turn
  <2>2. /\ v = [f \in WalkFields |-> v[f]] /\ v.at = w.at /\ v.served = w.served
        /\ v.state = "ended" /\ v.reader = w.reader
    BY <2>1 DEF IsWalk, WalkFields
  <2>3. \A d \in S : Once(v, d)
    BY <1>2, <2>2 DEF Once
  <2>4. IsWalk(v)
    BY <2>2 DEF IsWalk
  <2>5. v.reader = Manager =>
          \A m, n \in DOMAIN v.served : v.served[m] = v.served[n] => m = n
    BY <2>2
  <2> QED
    BY <1>1, <2>2, <2>3, <2>4, <2>5 DEF Walking
<1>3. CASE ahead # {}
  <2>1. PICK e : /\ e \in ahead /\ \A f \in ahead \ {e} : ~Before(Key(w, f), Key(w, e))
                 /\ v = [w EXCEPT !.state = IF ahead = {e} THEN "ended" ELSE "open",
                                  !.at = Key(w, e), !.served = Append(@, e)]
    <3> DEFINE d == CHOOSE e \in ahead : \A f \in ahead \ {e} : ~Before(Key(w, f), Key(w, e))
    <3>1. d \in ahead /\ \A f \in ahead \ {d} : ~Before(Key(w, f), Key(w, d))
      BY <1>1, <1>3, NextRow
    <3>2. v = [w EXCEPT !.state = IF ahead = {d} THEN "ended" ELSE "open",
                        !.at = Key(w, d), !.served = Append(@, d)]
      BY <1>3 DEF Turn
    <3> HIDE DEF d
    <3> QED
      BY <3>1, <3>2
  <2>2. /\ v = [f \in WalkFields |-> v[f]] /\ v.at = Key(w, e) /\ v.served = Append(w.served, e)
        /\ v.state = (IF ahead = {e} THEN "ended" ELSE "open") /\ v.reader = w.reader
        /\ v.filter = w.filter
    BY <2>1 DEF IsWalk, WalkFields
  <2>3. PICK k : /\ e \in AllDrills /\ v.served \in Seq(AllDrills)
                 /\ \A n \in DOMAIN w.served : w.served[n] \in AllDrills
                 /\ k \notin DOMAIN w.served /\ DOMAIN v.served = DOMAIN w.served \cup {k}
                 /\ \A n \in DOMAIN w.served : v.served[n] = w.served[n]
                 /\ v.served[k] = e
    <3>1. w.served \in Seq(AllDrills) /\ e \in AllDrills
      BY <1>1, <2>1 DEF IsWalk
    <3>2. PICK x, y, k : x = w.served /\ y = v.served /\ k = Len(x) + 1
      OBVIOUS
    <3>3. x \in Seq(AllDrills) /\ y = Append(x, e)
      BY <2>2, <3>1, <3>2
    <3>4. Len(x) \in Nat /\ DOMAIN x = 1..Len(x) /\ DOMAIN y = 1..(Len(x) + 1)
      BY <3>1, <3>3
    <3>5. k \notin DOMAIN x /\ DOMAIN y = DOMAIN x \cup {k}
      BY <3>2, <3>4
    <3>6. y \in Seq(AllDrills) /\ \A n \in DOMAIN x : y[n] = x[n] /\ x[n] \in AllDrills
      BY <3>1, <3>3
    <3>7. y[k] = e
      BY <3>1, <3>2, <3>3
    <3> QED
      BY <3>1, <3>2, <3>5, <3>6, <3>7
  <2>4. \A d \in AllDrills : Key(w, d) \in Int \X Int /\ Key(v, d) = Key(w, d)
    BY <2>2, KeyType DEF Key
  <2>5. IsWalk(v) /\ Rows(v) = Rows(w)
    BY <2>2, <2>3, <2>4 DEF IsWalk, Rows
  <2>6. \A d \in ahead \ {e} : Before(Key(w, e), Key(w, d))
    <3> SUFFICES ASSUME NEW d \in ahead \ {e}  PROVE Before(Key(w, e), Key(w, d))
      OBVIOUS
    <3>1. Key(w, d)[2] # Key(w, e)[2]
      <4>1. Id[d] \in Nat /\ Id[e] \in Nat /\ Id[d] # Id[e]
        BY <1>1, <2>1, TrainingAssumption DEF RowsAreRows
      <4> QED
        BY <1>1, <2>1, <4>1, KeyType
    <3> QED
      BY <1>1, <2>1, <2>4, <3>1, Orders
  <2>7. ASSUME NEW d \in AllDrills, d # e
        PROVE  (Never(w, d) => Never(v, d)) /\ (Once(w, d) => Once(v, d))
    <3>1. ASSUME Never(w, d)  PROVE Never(v, d)
      BY <2>3, <2>7, <3>1 DEF Never
    <3>2. ASSUME Once(w, d)  PROVE Once(v, d)
      <4>1. PICK n \in DOMAIN w.served : \A m \in DOMAIN w.served : w.served[m] = d <=> m = n
        BY <3>2 DEF Once
      <4>2. n \in DOMAIN v.served /\ \A m \in DOMAIN v.served : v.served[m] = d <=> m = n
        BY <2>3, <2>7, <4>1
      <4> QED
        BY <4>2 DEF Once
    <3> QED
      BY <3>1, <3>2
  <2>8. ASSUME Never(w, e)  PROVE Once(v, e)
    <3>1. k \in DOMAIN v.served /\ \A m \in DOMAIN v.served : v.served[m] = e <=> m = k
      BY <2>3, <2>8 DEF Never
    <3> QED
      BY <3>1 DEF Once
  <2>9. ASSUME NEW d \in S
        PROVE  /\ IF Ahead(v, d) THEN Never(v, d) ELSE Once(v, d)
               /\ ahead = {e} => Once(v, d)
    <3>1. CASE d = e
      <4>1. Never(w, e) /\ ~Before(Key(w, e), Key(w, e))
        BY <2>1, <2>3, <2>4, <3>1, Orders
      <4> QED
        BY <2>2, <2>3, <2>4, <2>8, <3>1, <4>1 DEF Ahead
    <3>2. CASE d \in ahead \ {e}
      BY <1>1, <2>2, <2>4, <2>6, <2>7, <3>2 DEF Ahead
    <3>3. CASE d \notin ahead
      <4>1. d # e /\ Before(Key(w, d), Key(w, e)) /\ Once(w, d)
        BY <2>1, <3>3
      <4>2. ~Before(Key(w, e), Key(w, d))
        BY <1>1, <2>1, <2>4, <4>1, Orders
      <4> QED
        BY <1>1, <2>2, <2>4, <2>7, <4>1, <4>2 DEF Ahead
    <3> QED
      BY <3>1, <3>2, <3>3
  <2>10. ASSUME v.reader = Manager
         PROVE  /\ \A m, n \in DOMAIN v.served : v.served[m] = v.served[n] => m = n
                /\ \A n \in DOMAIN v.served : ~Ahead(v, v.served[n])
    <3>1. \A n \in DOMAIN w.served :
             w.served[n] \in AllDrills /\ Before(Key(w, w.served[n]), Key(w, e))
      BY <2>1, <2>2, <2>3, <2>10
    <3>2. \A n \in DOMAIN w.served : w.served[n] # e /\ ~Before(Key(w, e), Key(w, w.served[n]))
      BY <2>3, <2>4, <3>1, Orders
    <3>3. ~Before(Key(w, e), Key(w, e))
      BY <2>3, <2>4, Orders
    <3>4. \A m, n \in DOMAIN v.served : v.served[m] = v.served[n] => m = n
      <4>1. \A m, n \in DOMAIN w.served : w.served[m] = w.served[n] => m = n
        BY <2>2, <2>10
      <4> QED
        BY <2>3, <3>2, <4>1
    <3>5. ASSUME NEW n \in DOMAIN v.served  PROVE ~Ahead(v, v.served[n])
      <4>1. v.served[n] \in AllDrills /\ ~Before(Key(w, e), Key(w, v.served[n]))
        BY <2>3, <3>1, <3>2, <3>3
      <4> QED
        BY <2>2, <2>4, <4>1 DEF Ahead
    <3> QED
      BY <3>4, <3>5
  <2> QED
    BY <1>1, <2>2, <2>5, <2>9, <2>10 DEF Walking
<1> QED
  BY <1>2, <1>3

-----------------------------------------------------------------------------
\* A row's place depends on these.
LEMMA SameRows ==
    ASSUME UNCHANGED <<drill, stamp, assigned, attempts, rep>>, NEW w
    PROVE  Rows(w)' = Rows(w) /\ \A d \in AllDrills : Key(w, d)' = Key(w, d)
BY DEF Rows, CatalogRows, LibraryRows, Home, Status, Key, Bucket, OnDrill

\* Stamps grow.
LEMMA StampStep ==
    ASSUME RowsAreRows, stamp \in [AllDrills -> Nat], Noted
    PROVE  /\ stamp' \in [AllDrills -> Nat]
           /\ \A d \in AllDrills : stamp[d] <= stamp'[d]
           /\ UNCHANGED drill => UNCHANGED stamp
<1>1. PICK m, T : m = Max(T) /\ T = {stamp[e] : e \in AllDrills}
  OBVIOUS
<1>2. AllDrills # {} => m \in Nat /\ \A d \in AllDrills : stamp[d] <= m
  <2> SUFFICES ASSUME AllDrills # {}  PROVE m \in Nat /\ \A d \in AllDrills : stamp[d] <= m
    OBVIOUS
  <2>1. T # {} /\ T \subseteq Nat
    BY <1>1
  <2>2. PICK R : R = {p \in AllDrills \X AllDrills : stamp[p[2]] < stamp[p[1]]}
    OBVIOUS
  <2>3. \A d, e \in AllDrills : <<d, e>> \in R <=> stamp[e] < stamp[d]
    BY <2>2
  <2>4. \A d \in AllDrills : stamp[d] \in Nat
    OBVIOUS
  <2>5. /\ \A d \in AllDrills : <<d, d>> \notin R
        /\ \A c, d, e \in AllDrills : <<c, d>> \in R /\ <<d, e>> \in R => <<c, e>> \in R
    BY <2>3, <2>4
  <2>6. PICK d \in AllDrills : \A e \in AllDrills : <<e, d>> \notin R
    BY <2>5, LeastElement DEF RowsAreRows
  <2>7. stamp[d] \in T /\ \A y \in T : stamp[d] >= y
    <3> SUFFICES ASSUME NEW e \in AllDrills  PROVE stamp[d] >= stamp[e]
      BY <1>1
    <3>1. ~(stamp[d] < stamp[e])
      BY <2>3, <2>6
    <3> QED
      BY <2>4, <3>1
  <2>8. m \in T /\ \A y \in T : m >= y
    BY <1>1, <2>7 DEF Max
  <2> QED
    BY <1>1, <2>1, <2>8
<1>3. \/ stamp' = stamp
      \/ stamp' = [d \in AllDrills |-> IF d \in Drills /\ drill'[d] # drill[d]
                                       THEN m + 1 ELSE stamp[d]]
  BY <1>1 DEF Noted
<1>4. CASE AllDrills = {}
  BY <1>3, <1>4
<1>5. CASE AllDrills # {}
  BY <1>2, <1>3, <1>5
<1> QED
  BY <1>4, <1>5

\* What moves a catalog's rows moves them to the front.
LEMMA OnlyForward ==
    ASSUME stamp \in [AllDrills -> Nat], stamp' \in [AllDrills -> Nat],
           \A d \in AllDrills : stamp[d] <= stamp'[d],
           NEW w, IsWalk(w), w.reader = Manager, NEW d \in AllDrills, ~Ahead(w, d)
    PROVE  ~Ahead(w, d)'
<1>1. Key(w, d) = <<-stamp[d], -Id[d]>> /\ Key(w, d)' = <<-stamp'[d], -Id[d]>>
  BY DEF Key
<1>2. /\ stamp[d] \in Nat /\ stamp'[d] \in Nat /\ Id[d] \in Nat /\ stamp[d] <= stamp'[d]
      /\ w.at[1] \in Int /\ w.at[2] \in Int
  BY TrainingAssumption DEF IsWalk
<1>3. ~Before(w.at, <<-stamp[d], -Id[d]>>)
  BY <1>1 DEF Ahead
<1>4. ~Before(w.at, <<-stamp'[d], -Id[d]>>)
  BY <1>2, <1>3 DEF Before
<1> QED
  BY <1>1, <1>4 DEF Ahead

\* While the reader does nothing.
LEMMA RowsMove ==
    ASSUME RowsAreRows, WalkInv, Noted, UNCHANGED walk
    PROVE  WalkInv'
<1>1. /\ stamp \in [AllDrills -> Nat] /\ stamp' \in [AllDrills -> Nat]
      /\ \A d \in AllDrills : stamp[d] <= stamp'[d]
  BY StampStep DEF WalkInv
<1>2. PICK w, S, T : w = walk /\ S = steady /\ T = steady'
  OBVIOUS
<1>3. Walking(w, S)
  BY <1>2 DEF WalkInv
<1>4. T = IF w.state = "open" THEN {d \in S : d \in Rows(w)' /\ Key(w, d)' = Key(w, d)} ELSE S
  <2>1. (walk = NoWalk /\ walk' # NoWalk) = FALSE
    OBVIOUS
  <2>2. steady' = IF walk.state # "open" THEN steady
                  ELSE {d \in steady : d \in Rows(walk)' /\ Key(walk, d)' = Key(walk, d)}
    BY <2>1 DEF Noted
  <2>3. Rows(walk)' = Rows(w)' /\ \A d : Key(walk, d)' = Key(w, d)'
    BY <1>2 DEF Rows, CatalogRows, LibraryRows, Home, Status, Key, Bucket, OnDrill
  <2> QED
    BY <1>2, <2>2, <2>3
<1>5. ASSUME w.state = "open", NEW d \in T
      PROVE  d \in Rows(w)' /\ IF Ahead(w, d)' THEN Never(w, d) ELSE Once(w, d)
  <2>1. d \in S /\ d \in Rows(w)' /\ Key(w, d)' = Key(w, d)
    BY <1>4, <1>5
  <2>2. Ahead(w, d)' = Ahead(w, d)
    BY <2>1 DEF Ahead
  <2> QED
    BY <1>3, <1>5, <2>1, <2>2 DEF Walking
<1>6. ASSUME w.reader = Manager, w.state = "open", NEW n \in DOMAIN w.served
      PROVE  ~Ahead(w, w.served[n])'
  <2>1. IsWalk(w) /\ w.served[n] \in AllDrills /\ ~Ahead(w, w.served[n])
    <3>1. IsWalk(w) /\ ~Ahead(w, w.served[n])
      BY <1>3, <1>6 DEF Walking
    <3>2. w.served \in Seq(AllDrills)
      BY <3>1 DEF IsWalk
    <3> QED
      BY <1>6, <3>1, <3>2
  <2>2. PICK d : d = w.served[n]
    OBVIOUS
  <2> QED
    BY <1>1, <1>6, <2>1, <2>2, OnlyForward
<1>7. Walking(w, T)'
  <2>1. T \subseteq S
    BY <1>4
  <2> QED
    BY <1>3, <1>4, <1>5, <1>6, <2>1 DEF Walking
<1> QED
  BY <1>1, <1>2, <1>7 DEF WalkInv

\* The reader opens the list, or goes on.
LEMMA ReaderStep ==
    ASSUME RowsAreRows, WalkInv, Noted, ListStep, UNCHANGED <<drill, assigned>>
    PROVE  WalkInv'
<1>1. stamp \in [AllDrills -> Nat] /\ UNCHANGED <<stamp, attempts, rep>>
  BY StampStep DEF WalkInv, ListStep, OpenList, NextPage
<1>2. PICK w, S, v, T : w = walk /\ S = steady /\ v = walk' /\ T = steady'
  OBVIOUS
<1>3. Walking(w, S)
  BY <1>2 DEF WalkInv
<1>4. /\ Rows(w)' = Rows(w) /\ Rows(v)' = Rows(v)
      /\ \A d \in AllDrills : Key(w, d)' = Key(w, d) /\ Key(v, d)' = Key(v, d)
  BY <1>1, SameRows
<1>5. Walking(v, T) => WalkInv'
  <2>1. ASSUME Walking(v, T)  PROVE Walking(v, T)'
    <3>1. \A d \in AllDrills : Ahead(v, d)' = Ahead(v, d)
      BY <1>4 DEF Ahead
    <3>2. \A n \in DOMAIN v.served : v.served[n] \in AllDrills
      BY <2>1 DEF Walking, IsWalk
    <3> QED
      BY <1>4, <2>1, <3>1, <3>2 DEF Walking
  <2> QED
    BY <1>1, <1>2, <2>1 DEF WalkInv
<1>6. ASSUME NEW reader, NEW filter, OpenList(reader, filter)  PROVE Walking(v, T)
  <2>1. PICK u : u = [NoWalk EXCEPT !.reader = reader, !.filter = filter]
    OBVIOUS
  <2>2. /\ u = [f \in WalkFields |-> u[f]] /\ u.at = <<0, 0>> /\ u.served = <<>>
        /\ u.reader = reader /\ u.filter = filter
    BY <2>1 DEF NoWalk, WalkFields
  <2>3. w = NoWalk /\ v = Turn(u, Rows(u))
    BY <1>2, <1>6, <2>1 DEF OpenList
  <2>4. IsWalk(u) /\ DOMAIN u.served = {}
    <3>1. <<0, 0>> \in Int \X Int /\ <<>> \in Seq(AllDrills) /\ DOMAIN <<>> = {}
      OBVIOUS
    <3> QED
      BY <2>2, <3>1 DEF IsWalk
  <2>5. \A d \in Rows(u) : Never(u, d)
    BY <2>4 DEF Never
  <2>6. Walking(v, Rows(u)) /\ v.state \in {"open", "ended"}
    BY <1>1, <2>3, <2>4, <2>5, TurnServes
  <2>7. v # NoWalk
    BY <2>6 DEF NoWalk
  <2>8. T = Rows(v)
    BY <1>2, <2>3, <2>7 DEF Noted, Rows
  <2>9. v.reader = u.reader /\ v.filter = u.filter
    BY <2>2, <2>3 DEF Turn, WalkFields
  <2>10. Rows(v) = Rows(u)
    BY <2>9 DEF Rows
  <2> QED
    BY <2>6, <2>8, <2>10
<1>7. ASSUME NEW filter, NextPage(filter)  PROVE Walking(v, T)
  <2>1. w.state = "open" /\ w # NoWalk
    BY <1>2, <1>7 DEF NextPage, NoWalk
  <2>2. T \subseteq S
    BY <1>2, <2>1 DEF Noted
  <2>3. CASE filter # w.filter
    <3>1. v = [w EXCEPT !.state = "refused"]
      BY <1>2, <1>7, <2>3 DEF NextPage
    <3>2. /\ v = [f \in WalkFields |-> v[f]] /\ v.at = w.at /\ v.served = w.served
          /\ v.state = "refused" /\ v.reader = w.reader
      BY <1>3, <3>1 DEF Walking, IsWalk, WalkFields
    <3>3. IsWalk(v)
      BY <1>3, <3>2 DEF Walking, IsWalk
    <3> QED
      BY <1>3, <2>2, <3>2, <3>3 DEF Walking
  <2>4. CASE filter = w.filter
    <3>1. PICK ahead : ahead = {d \in Rows(w) : Ahead(w, d)}
      OBVIOUS
    <3>2. v = Turn(w, ahead)
      BY <1>2, <1>7, <2>4, <3>1 DEF NextPage, Ahead
    <3>3. /\ IsWalk(w) /\ T \in SUBSET Rows(w) /\ ahead \in SUBSET Rows(w)
          /\ \A d \in T : IF d \in ahead THEN Never(w, d) ELSE Once(w, d)
      BY <1>3, <2>1, <2>2, <3>1 DEF Walking
    <3>4. \A d \in AllDrills : Key(w, d) \in Int \X Int
      BY <1>1, KeyType
    <3>5. \A d \in AllDrills, e \in ahead : ~Ahead(w, d) => Before(Key(w, d), Key(w, e))
      BY <3>1, <3>3, <3>4, RowsType, Orders DEF Ahead, IsWalk
    <3>6. \A d \in T \ ahead, e \in ahead : Before(Key(w, d), Key(w, e))
      BY <3>1, <3>3, <3>5, RowsType
    <3>7. w.reader = Manager =>
             /\ \A m, n \in DOMAIN w.served : w.served[m] = w.served[n] => m = n
             /\ \A n \in DOMAIN w.served, e \in ahead : Before(Key(w, w.served[n]), Key(w, e))
      <4>1. \A n \in DOMAIN w.served : w.served[n] \in AllDrills
        BY <3>3 DEF IsWalk
      <4> QED
        BY <1>3, <2>1, <3>5, <4>1 DEF Walking
    <3> QED
      BY <1>1, <3>2, <3>3, <3>6, <3>7, TurnServes
  <2> QED
    BY <2>3, <2>4
<1> QED
  BY <1>5, <1>6, <1>7 DEF ListStep

LEMMA WalkStep == ASSUME RowsAreRows, WalkInv, [Next]_vars PROVE WalkInv'
<1>1. CASE UNCHANGED vars
  <2>1. UNCHANGED <<drill, stamp, assigned, attempts, rep, walk, steady>>
    BY <1>1 DEF vars, training, records, generation, hiring
  <2>2. PICK w, S : w = walk /\ S = steady
    OBVIOUS
  <2>3. Rows(w)' = Rows(w) /\ \A d \in AllDrills : Key(w, d)' = Key(w, d)
    BY <2>1, SameRows
  <2>4. Walking(w, S)
    BY <2>2 DEF WalkInv
  <2>5. \A d \in AllDrills : Ahead(w, d)' = Ahead(w, d)
    BY <2>3 DEF Ahead
  <2>6. \A n \in DOMAIN w.served : w.served[n] \in AllDrills
    BY <2>4 DEF Walking, IsWalk
  <2>7. Walking(w, S)'
    BY <2>3, <2>4, <2>5, <2>6 DEF Walking
  <2> QED
    BY <2>1, <2>2, <2>7 DEF WalkInv
<1>2. CASE Next /\ UNCHANGED walk
  BY <1>2, RowsMove DEF Next
<1>3. CASE Next /\ ListStep /\ UNCHANGED <<drill, assigned>>
  BY <1>3, ReaderStep DEF Next
<1>4. Next => UNCHANGED walk \/ (ListStep /\ UNCHANGED <<drill, assigned>>)
  <2>1. RepStep => UNCHANGED walk
    BY DEF RepStep, Admit, Grade, Interrupt, ChangeTeam, Deactivate, NextMonth
  <2> QED
    BY <2>1 DEF Next, TeamStep, TrainingStep, records, generation, hiring
<1> QED
  BY <1>1, <1>2, <1>3, <1>4

(* Whoever follows a list to its end is served every row that stayed where  *)
(* it was, once, whatever else moves meanwhile; and a manager's catalog     *)
(* serves none twice (training/service.py, the cursors).  Tables are finite *)
(* and ids are their keys.                                                  *)
THEOREM WalksAreExact == ASSUME RowsAreRows PROVE Spec => []WalkExact
<1>1. Init => WalkInv
  <2> SUFFICES ASSUME stamp = [d \in AllDrills |-> 0], walk = NoWalk, steady = {}
               PROVE  WalkInv
    BY DEF Init, TrainingInit
  <2>1. /\ NoWalk = [f \in WalkFields |-> NoWalk[f]] /\ NoWalk.state = "none"
        /\ NoWalk.at = <<0, 0>> /\ NoWalk.served = <<>>
    BY DEF NoWalk, WalkFields
  <2>2. IsWalk(NoWalk) /\ DOMAIN NoWalk.served = {}
    <3>1. <<0, 0>> \in Int \X Int /\ <<>> \in Seq(AllDrills) /\ DOMAIN <<>> = {}
      OBVIOUS
    <3> QED
      BY <2>1, <3>1 DEF IsWalk
  <2> QED
    BY <2>1, <2>2 DEF WalkInv, Walking
<1>2. WalkInv /\ [Next]_vars => WalkInv'
  BY WalkStep
<1>3. WalkInv => WalkExact
  <2> SUFFICES ASSUME WalkInv  PROVE WalkExact
    OBVIOUS
  <2>1. PICK w : w = walk
    OBVIOUS
  <2>2. Walking(w, steady)
    BY <2>1 DEF WalkInv
  <2>3. ASSUME NEW d, Once(w, d)  PROVE Cardinality({n \in DOMAIN w.served : w.served[n] = d}) = 1
    <3>1. PICK n : {m \in DOMAIN w.served : w.served[m] = d} = {n}
      BY <2>3 DEF Once
    <3> QED
      BY <3>1, FS_Singleton
  <2>4. ASSUME NEW d, \A m, n \in DOMAIN w.served : w.served[m] = w.served[n] => m = n
        PROVE  Cardinality({n \in DOMAIN w.served : w.served[n] = d}) <= 1
    <3>1. PICK D : D = {n \in DOMAIN w.served : w.served[n] = d}
      OBVIOUS
    <3>2. CASE D = {}
      BY <3>1, <3>2, FS_EmptySet
    <3>3. CASE D # {}
      <4>1. PICK n : D = {n}
        BY <2>4, <3>1, <3>3
      <4> QED
        BY <3>1, <4>1, FS_Singleton
    <3> QED
      BY <3>2, <3>3
  <2>5. w.state = "ended" => \A d \in steady : Once(w, d)
    BY <2>2 DEF Walking
  <2>6. w.reader = Manager =>
          \A m, n \in DOMAIN w.served : w.served[m] = w.served[n] => m = n
    BY <2>2 DEF Walking
  <2>7. w.state = "ended" =>
          \A d \in steady : Cardinality({n \in DOMAIN w.served : w.served[n] = d}) = 1
    BY <2>3, <2>5
  <2>8. w.reader = Manager =>
          \A d \in AllDrills : Cardinality({n \in DOMAIN w.served : w.served[n] = d}) <= 1
    BY <2>4, <2>6
  <2> QED
    BY <2>1, <2>7, <2>8, Zenon DEF WalkExact
<1> QED
  BY <1>1, <1>2, <1>3, PTL DEF Spec

-----------------------------------------------------------------------------
(* Sums. *)

\* How a fold over R goes, one element at a time.
Folds(R, f, h) ==
    h = [s \in SUBSET R |-> IF s = {} THEN 0
                            ELSE f[CHOOSE x \in s : TRUE] + h[s \ {CHOOSE x \in s : TRUE}]]
Total(f, R) == (CHOOSE h : Folds(R, f, h))[R]

LEMMA OneFold ==
    ASSUME NEW R, IsFiniteSet(R), NEW f, NEW g, NEW h, Folds(R, f, g), Folds(R, f, h)
    PROVE  g = h
<1>1. PICK D : D = {s \in SUBSET R : g[s] # h[s]}
  OBVIOUS
<1>2. ASSUME D # {}  PROVE FALSE
  <2>1. PICK T : T = {Cardinality(s) : s \in D}
    OBVIOUS
  <2>2. \A s \in D : IsFiniteSet(s) /\ Cardinality(s) \in Nat
    BY <1>1, FS_Subset, FS_CardinalityType
  <2>3. T \in SUBSET Nat /\ T # {}
    BY <1>2, <2>1, <2>2
  <2>4. PICK n \in T : \A m \in T : n <= m
    BY <2>3, LeastNumber
  <2>5. PICK s \in D : n = Cardinality(s)
    BY <2>1
  <2>6. s \in SUBSET R /\ g[s] # h[s]
    BY <1>1
  <2>7. s # {}
    <3>1. {} \in SUBSET R /\ g[{}] = 0 /\ h[{}] = 0
      BY DEF Folds
    <3> QED
      BY <2>6, <3>1
  <2>8. PICK x : x = CHOOSE y \in s : TRUE
    OBVIOUS
  <2>9. x \in s
    BY <2>7, <2>8
  <2>10. PICK r : r = s \ {x}
    OBVIOUS
  <2>11. /\ g[s] = f[x] + g[r] /\ h[s] = f[x] + h[r]
    BY <2>6, <2>7, <2>8, <2>10 DEF Folds
  <2>12. r \in D
    BY <1>1, <2>6, <2>10, <2>11
  <2>13. Cardinality(r) = Cardinality(s) - 1
    BY <2>2, <2>9, <2>10, FS_RemoveElement
  <2>14. Cardinality(r) \in T /\ Cardinality(s) \in Nat
    BY <2>1, <2>2, <2>12
  <2>15. n <= Cardinality(r)
    BY <2>4, <2>14
  <2> QED
    BY <2>5, <2>13, <2>14, <2>15
<1>3. \A s \in SUBSET R : g[s] = h[s]
  BY <1>1, <1>2
<1>4. /\ g = [s \in SUBSET R |-> g[s]] /\ h = [s \in SUBSET R |-> h[s]]
  BY DEF Folds
<1> QED
  BY <1>3, <1>4

\* The total of the sizes of sets that share nothing is the size of them all.
LEMMA PartsTotal ==
    ASSUME NEW R, IsFiniteSet(R), NEW T, NEW f,
           \A r \in R : IsFiniteSet(T[r]) /\ f[r] = Cardinality(T[r]),
           \A q, r \in R : q # r => T[q] \cap T[r] = {},
           NEW V, \A x : x \in V <=> \E r \in R : x \in T[r]
    PROVE  Total(f, R) = Cardinality(V) /\ IsFiniteSet(V)
<1>1. PICK U : U = [s \in SUBSET R |-> UNION {T[r] : r \in s}]
  OBVIOUS
<1>2. PICK g : g = [s \in SUBSET R |-> Cardinality(U[s])]
  OBVIOUS
<1>3. PICK D : D = {s \in SUBSET R : ~IsFiniteSet(U[s])}
  OBVIOUS
<1>4. ASSUME NEW s \in SUBSET R, NEW x \in s
      PROVE  /\ s \ {x} \in SUBSET R /\ U[s] = U[s \ {x}] \cup T[x]
             /\ U[s \ {x}] \cap T[x] = {} /\ IsFiniteSet(T[x])
  BY <1>1
<1>5. ASSUME NEW s \in SUBSET R  PROVE IsFiniteSet(U[s])
  <2>1. ASSUME D # {}  PROVE FALSE
    <3>1. PICK N : N = {Cardinality(q) : q \in D}
      OBVIOUS
    <3>2. \A q \in D : IsFiniteSet(q) /\ Cardinality(q) \in Nat
      BY <1>3, FS_Subset, FS_CardinalityType
    <3>3. N \in SUBSET Nat /\ N # {}
      BY <2>1, <3>1, <3>2
    <3>4. PICK n \in N : \A m \in N : n <= m
      BY <3>3, LeastNumber
    <3>5. PICK q \in D : n = Cardinality(q)
      BY <3>1
    <3>6. q \in SUBSET R /\ ~IsFiniteSet(U[q])
      BY <1>3
    <3>7. q # {}
      <4>1. U[{}] = {}
        BY <1>1
      <4> QED
        BY <3>6, <4>1, FS_EmptySet
    <3>8. PICK x : x \in q
      BY <3>7
    <3>9. PICK p : p = q \ {x}
      OBVIOUS
    <3>10. p \in SUBSET R /\ U[q] = U[p] \cup T[x] /\ IsFiniteSet(T[x])
      BY <1>4, <3>6, <3>8, <3>9
    <3>11. ~IsFiniteSet(U[p])
      <4> SUFFICES ASSUME IsFiniteSet(U[p])  PROVE FALSE
        OBVIOUS
      <4>1. PICK A, B : A = U[p] /\ B = T[x]
        OBVIOUS
      <4>2. IsFiniteSet(A \cup B)
        BY <3>10, <4>1, FS_Union
      <4> QED
        BY <3>6, <3>10, <4>1, <4>2
    <3>12. p \in D
      BY <1>3, <3>10, <3>11
    <3>13. Cardinality(p) = Cardinality(q) - 1
      BY <3>2, <3>8, <3>9, FS_RemoveElement
    <3>14. Cardinality(p) \in N /\ Cardinality(q) \in Nat
      BY <3>1, <3>2, <3>12
    <3>15. n <= Cardinality(p)
      BY <3>4, <3>14
    <3> QED
      BY <3>5, <3>13, <3>14, <3>15
  <2> QED
    BY <1>3, <2>1
<1>6. ASSUME NEW s \in SUBSET R, s # {}, NEW x, x = CHOOSE y \in s : TRUE
      PROVE  g[s] = f[x] + g[s \ {x}]
  <2>1. x \in s
    BY <1>6
  <2>2. PICK r : r = s \ {x}
    OBVIOUS
  <2>3. /\ r \in SUBSET R /\ U[s] = U[r] \cup T[x] /\ U[r] \cap T[x] = {}
    BY <1>4, <2>1, <2>2
  <2>4. IsFiniteSet(T[x]) /\ IsFiniteSet(U[r]) /\ f[x] = Cardinality(T[x])
    BY <1>5, <2>1, <2>3
  <2>5. Cardinality(U[r] \cap T[x]) = 0
    BY <2>3, FS_EmptySet
  <2>6. Cardinality(U[s]) = Cardinality(U[r]) + Cardinality(T[x])
    <3>1. /\ Cardinality(U[r] \cup T[x])
                = Cardinality(U[r]) + Cardinality(T[x]) - Cardinality(U[r] \cap T[x])
      BY <2>4, FS_Union
    <3>2. Cardinality(U[r]) \in Nat /\ Cardinality(T[x]) \in Nat
      BY <2>4, FS_CardinalityType
    <3> QED
      BY <2>3, <2>5, <3>1, <3>2
  <2>7. g[s] = Cardinality(U[s]) /\ g[r] = Cardinality(U[r])
    BY <1>2, <2>3
  <2>8. Cardinality(U[r]) \in Nat /\ Cardinality(T[x]) \in Nat
    BY <2>4, FS_CardinalityType
  <2> QED
    BY <2>2, <2>4, <2>6, <2>7, <2>8
<1>7. g[{}] = 0
  <2>1. U[{}] = {} /\ {} \in SUBSET R
    BY <1>1
  <2> QED
    BY <1>2, <2>1, FS_EmptySet
<1>8. Folds(R, f, g)
  <2>1. ASSUME NEW s \in SUBSET R
        PROVE  g[s] = IF s = {} THEN 0
                      ELSE f[CHOOSE x \in s : TRUE] + g[s \ {CHOOSE x \in s : TRUE}]
    <3>1. CASE s = {}
      BY <1>7, <3>1
    <3>2. CASE s # {}
      <4>1. PICK x : x = CHOOSE y \in s : TRUE
        OBVIOUS
      <4>2. g[s] = f[x] + g[s \ {x}]
        BY <1>6, <3>2, <4>1
      <4> QED
        BY <3>2, <4>1, <4>2
    <3> QED
      BY <3>1, <3>2
  <2> QED
    BY <1>2, <2>1 DEF Folds
<1>9. PICK h : h = CHOOSE e : Folds(R, f, e)
  OBVIOUS
<1>10. Folds(R, f, h)
  BY <1>8, <1>9, Zenon
<1>11. h = g
  BY <1>8, <1>10, OneFold
<1>12. Total(f, R) = Cardinality(U[R])
  BY <1>2, <1>9, <1>11 DEF Total
<1>13. U[R] = V
  BY <1>1
<1> QED
  BY <1>5, <1>12, <1>13

LEMMA TotalOf == ASSUME NEW f PROVE FoldFunction(+, 0, f) = Total(f, DOMAIN f)
BY Zenon DEF FoldFunction, FoldFunctionOnSet, MapThenFoldSet, Total, Folds

LEMMA SumOf ==
    ASSUME NEW S, NEW f
    PROVE  /\ (\A i \in S : f[i] = attempts[i].score) => Sum(S) = Total(f, S)
           /\ (\A i \in S : f[i] = attempts'[i].score) => Sum(S)' = Total(f, S)
<1> DEFINE F(h) == [s \in SUBSET S |-> IF s = {} THEN 0 ELSE f[CHOOSE x \in s : TRUE]
                                                        + h[s \ {CHOOSE x \in s : TRUE}]]
           A(h) == [s \in SUBSET S |-> IF s = {} THEN 0 ELSE attempts[CHOOSE x \in s : TRUE].score
                                                        + h[s \ {CHOOSE x \in s : TRUE}]]
           B(h) == [s \in SUBSET S |-> IF s = {} THEN 0 ELSE attempts'[CHOOSE x \in s : TRUE].score
                                                        + h[s \ {CHOOSE x \in s : TRUE}]]
<1>1. \A s \in SUBSET S : s # {} => (CHOOSE x \in s : TRUE) \in S
  <2> SUFFICES ASSUME NEW s \in SUBSET S, s # {}  PROVE (CHOOSE x \in s : TRUE) \in S
    OBVIOUS
  <2>1. (CHOOSE x \in s : TRUE) \in s
    OBVIOUS
  <2> QED
    BY <2>1
<1>2. ASSUME \A i \in S : f[i] = attempts[i].score, NEW h  PROVE A(h) = F(h)
  BY <1>1, <1>2
<1>3. ASSUME \A i \in S : f[i] = attempts'[i].score, NEW h  PROVE B(h) = F(h)
  BY <1>1, <1>3
<1>4. /\ Sum(S) = (CHOOSE h : h = A(h))[S] /\ Sum(S)' = (CHOOSE h : h = B(h))[S]
      /\ Total(f, S) = (CHOOSE h : h = F(h))[S]
  BY Zenon DEF Sum, MapThenSumSet, MapThenFoldSet, Total, Folds
<1> HIDE DEF F, A, B
<1>5. ASSUME \A i \in S : f[i] = attempts[i].score  PROVE Sum(S) = Total(f, S)
  <2>1. \A h : (h = A(h)) <=> (h = F(h))
    BY <1>2, <1>5
  <2>2. (CHOOSE h : h = A(h)) = (CHOOSE h : h = F(h))
    BY <2>1, Zenon
  <2> QED
    BY <1>4, <2>2
<1>6. ASSUME \A i \in S : f[i] = attempts'[i].score  PROVE Sum(S)' = Total(f, S)
  <2>1. \A h : (h = B(h)) <=> (h = F(h))
    BY <1>3, <1>6
  <2>2. (CHOOSE h : h = B(h)) = (CHOOSE h : h = F(h))
    BY <2>1, Zenon
  <2> QED
    BY <1>4, <2>2
<1> QED
  BY <1>5, <1>6

-----------------------------------------------------------------------------
(* Attempts. *)

AttemptRows ==
    [rep : team.reps, drill : AllDrills, team : Managers, month : Int,
     status : {"open", "graded", "interrupted"}, score : Nat]

\* A rep's attempts are of the team the rep is in.
Practised ==
    /\ team \in Teams /\ month \in Int
    /\ attempts \in Seq(AttemptRows)
    /\ rep \in [team.reps -> [team : Managers, status : {"active", "deactivated"}]]
    /\ \A i \in DOMAIN attempts : attempts[i].team = rep[attempts[i].rep].team

LEMMA TeamStands == ASSUME Next PROVE team' = team
BY KnowledgeFrame, JobFrame, DraftFrame, PublishFrame, HiringFrame
DEF Next, TeamStep, AuthoringStep, DrillStep, DraftStep, Rollback

\* One attempt's row is changed, or added.
LEMMA AttemptStep ==
    ASSUME Practised, RepStep, UNCHANGED team
    PROVE  Practised'
<1>1. PICK R, n : R = AttemptRows /\ n = Len(attempts)
  OBVIOUS
<1>2. R = AttemptRows'
  BY <1>1 DEF AttemptRows
<1>3. /\ attempts \in Seq(R) /\ n \in Nat /\ DOMAIN attempts = 1..n
      /\ \A i \in 1..n : attempts[i] \in R /\ attempts[i].team = rep[attempts[i].rep].team
  BY <1>1 DEF Practised
<1>4. \A a \in R : /\ a.rep \in team.reps /\ a.team \in Managers
                   /\ \A x \in {"graded", "interrupted"}, y \in Nat :
                        /\ [a EXCEPT !.status = x, !.score = y] \in R
                        /\ [a EXCEPT !.status = x] \in R
                   /\ \A t \in Managers : [a EXCEPT !.team = t] \in R
  BY <1>1 DEF AttemptRows
<1>5. ASSUME UNCHANGED <<rep, month>>, NEW s \in Seq(R), attempts' = s,
             \A i \in DOMAIN s : s[i].team = rep[s[i].rep].team
      PROVE  Practised'
  BY <1>2, <1>5 DEF Practised
<1>6. ASSUME NEW i \in DOMAIN attempts, NEW a, a \in R, a.rep = attempts[i].rep,
             a.team = attempts[i].team, attempts' = [attempts EXCEPT ![i] = a],
             UNCHANGED <<rep, month>>
      PROVE  Practised'
  <2>1. PICK s : s = [attempts EXCEPT ![i] = a]
    OBVIOUS
  <2>2. /\ s \in Seq(R) /\ DOMAIN s = 1..n
        /\ \A j \in 1..n : s[j] = IF j = i THEN a ELSE attempts[j]
    BY <1>3, <1>6, <2>1
  <2>3. \A j \in 1..n : s[j].team = rep[s[j].rep].team
    BY <1>3, <1>6, <2>2
  <2> QED
    BY <1>5, <1>6, <2>1, <2>2, <2>3
<1>7. ASSUME NEW r \in team.reps, NEW d \in AllDrills, Admit(r, d)  PROVE Practised'
  <2>1. PICK a : a = [rep |-> r, drill |-> d, team |-> rep[r].team, month |-> month,
                      status |-> "open", score |-> 0]
    OBVIOUS
  <2>2. a \in R /\ a.rep = r /\ a.team = rep[r].team
    BY <1>1, <2>1 DEF AttemptRows, Practised
  <2>3. PICK s : s = Append(attempts, a)
    OBVIOUS
  <2>4. /\ s \in Seq(R) /\ DOMAIN s = 1..(n + 1) /\ s[n + 1] = a
        /\ \A i \in 1..n : s[i] = attempts[i]
    BY <1>1, <1>3, <2>2, <2>3
  <2>5. \A i \in DOMAIN s : i = n + 1 \/ i \in 1..n
    BY <1>3, <2>4
  <2>6. \A i \in DOMAIN s : s[i].team = rep[s[i].rep].team
    BY <1>3, <2>2, <2>4, <2>5
  <2> QED
    BY <1>5, <1>7, <2>1, <2>3, <2>4, <2>6 DEF Admit
<1>8. ASSUME NEW i \in DOMAIN attempts, NEW x \in Scores, Grade(i, x)  PROVE Practised'
  <2>1. PICK a : a = [attempts[i] EXCEPT !.status = "graded", !.score = x]
    OBVIOUS
  <2>2. attempts[i] \in R /\ x \in Nat
    BY <1>3, TrainingAssumption
  <2>3. a \in R /\ a.rep = attempts[i].rep /\ a.team = attempts[i].team
    BY <1>1, <1>4, <2>1, <2>2 DEF AttemptRows
  <2>4. attempts' = [attempts EXCEPT ![i] = a]
    BY <1>8, <2>1 DEF Grade
  <2> QED
    BY <1>6, <1>8, <2>3, <2>4 DEF Grade
<1>9. ASSUME NEW i \in DOMAIN attempts, Interrupt(i)  PROVE Practised'
  <2>1. PICK a : a = [attempts[i] EXCEPT !.status = "interrupted"]
    OBVIOUS
  <2>2. attempts[i] \in R
    BY <1>3
  <2>3. a \in R /\ a.rep = attempts[i].rep /\ a.team = attempts[i].team
    BY <1>1, <1>4, <2>1, <2>2 DEF AttemptRows
  <2>4. attempts' = [attempts EXCEPT ![i] = a]
    BY <1>9, <2>1 DEF Interrupt
  <2> QED
    BY <1>6, <1>9, <2>3, <2>4 DEF Interrupt
<1>10. team.movers \subseteq team.reps
  BY TeamAssumption DEF Practised
<1>11. ASSUME NEW r \in team.reps, NEW t \in Managers, ChangeTeam(r, t)  PROVE Practised'
  <2>1. PICK s : s = [i \in DOMAIN attempts |->
                        IF attempts[i].rep = r THEN [attempts[i] EXCEPT !.team = t]
                        ELSE attempts[i]]
    OBVIOUS
  <2>2. \A i \in 1..n : s[i] \in R
    BY <1>3, <1>4, <2>1
  <2>3. s \in Seq(R) /\ DOMAIN s = 1..n
    BY <1>3, <2>1, <2>2
  <2>4. /\ rep' = [rep EXCEPT ![r].team = t] /\ attempts' = s /\ UNCHANGED month
    BY <1>11, <2>1 DEF ChangeTeam
  <2>5. /\ rep' \in [team.reps -> [team : Managers, status : {"active", "deactivated"}]]
        /\ rep'[r].team = t /\ \A q \in team.reps : q # r => rep'[q] = rep[q]
    BY <2>4 DEF Practised
  <2>6. ASSUME NEW i \in 1..n  PROVE s[i].team = rep'[s[i].rep].team
    <3>1. /\ attempts[i] \in R /\ attempts[i].rep \in team.reps
          /\ attempts[i].team = rep[attempts[i].rep].team
      BY <1>3, <1>4
    <3>2. CASE attempts[i].rep = r
      <4>1. s[i] = [attempts[i] EXCEPT !.team = t]
        BY <1>3, <2>1, <3>2
      <4>2. s[i].rep = r /\ s[i].team = t
        BY <1>1, <3>1, <3>2, <4>1 DEF AttemptRows
      <4> QED
        BY <2>5, <4>2
    <3>3. CASE attempts[i].rep # r
      <4>1. s[i] = attempts[i]
        BY <1>3, <2>1, <3>3
      <4> QED
        BY <2>5, <3>1, <3>3, <4>1
    <3> QED
      BY <3>2, <3>3
  <2> QED
    BY <1>2, <2>3, <2>4, <2>5, <2>6 DEF Practised
<1>12. ASSUME NEW r \in team.reps, Deactivate(r)  PROVE Practised'
  <2>1. rep' = [rep EXCEPT ![r].status = "deactivated"] /\ UNCHANGED <<attempts, month>>
    BY <1>12 DEF Deactivate
  <2>2. /\ rep' \in [team.reps -> [team : Managers, status : {"active", "deactivated"}]]
        /\ \A q \in team.reps : rep'[q].team = rep[q].team
    BY <2>1 DEF Practised
  <2>3. \A i \in 1..n : attempts[i].rep \in team.reps
    BY <1>3, <1>4
  <2> QED
    BY <1>2, <1>3, <2>1, <2>2, <2>3 DEF Practised
<1>13. ASSUME NextMonth  PROVE Practised'
  BY <1>2, <1>13 DEF NextMonth, Practised, AttemptRows
<1> QED
  BY <1>7, <1>8, <1>9, <1>10, <1>11, <1>12, <1>13 DEF RepStep

LEMMA PractisedStep == ASSUME Practised, [Next]_vars PROVE Practised'
<1>1. CASE UNCHANGED <<team, attempts, rep, month>>
  BY <1>1 DEF Practised, AttemptRows
<1>2. CASE Next /\ RepStep
  BY <1>2, AttemptStep, TeamStands
<1>3. UNCHANGED vars => UNCHANGED <<team, attempts, rep, month>>
  BY DEF vars, training, records
<1>4. ListStep => UNCHANGED <<attempts, rep, month>>
  BY DEF ListStep, OpenList, NextPage
<1>5. Next => UNCHANGED <<team, attempts, rep, month>> \/ RepStep
  BY <1>4, TeamStands DEF Next, TeamStep, TrainingStep, records
<1> QED
  BY <1>1, <1>2, <1>3, <1>5

LEMMA PractisedInit == ASSUME Init PROVE Practised
<1>1. /\ team \in Teams /\ month = 1 /\ attempts \in team.histories
      /\ rep = [r \in team.reps |-> [team |-> "ours", status |-> "active"]]
  BY DEF Init, AuthoringInit, TrainingInit
<1>2. attempts \in Seq(Past(team))
  BY <1>1, PastAssumption
<1>3. \A a \in Past(team) : a \in AttemptRows /\ a.rep \in team.reps /\ a.team = "ours"
  BY DEF Past, AttemptRows, Managers
<1>4. attempts \in Seq(AttemptRows) /\ \A i \in DOMAIN attempts : attempts[i] \in Past(team)
  <2>1. PICK P, R, s : P = Past(team) /\ R = AttemptRows /\ s = attempts
    OBVIOUS
  <2>2. s \in Seq(P) /\ \A a \in P : a \in R
    BY <1>2, <1>3, <2>1
  <2>3. s \in Seq(R) /\ \A i \in DOMAIN s : s[i] \in P
    BY <2>2
  <2> QED
    BY <2>1, <2>3
<1> QED
  BY <1>1, <1>3, <1>4 DEF Practised, Managers

-----------------------------------------------------------------------------
(* Figures. *)

\* A figure is a number; of nothing there is none.
LEMMA MeanIsFigure ==
    ASSUME Practised, NEW S \in SUBSET DOMAIN attempts, S # {}
    PROVE  IsFiniteSet(S) /\ Mean(S) \in Int
<1>1. PICK n : n = Len(attempts)
  OBVIOUS
<1>2. n \in Nat /\ DOMAIN attempts = 1..n /\ \A i \in 1..n : attempts[i].score \in Nat
  <2>1. attempts \in Seq(AttemptRows)
    BY DEF Practised
  <2>2. \A a \in AttemptRows : a.score \in Nat
    BY DEF AttemptRows
  <2>3. PICK R : R = AttemptRows
    OBVIOUS
  <2>4. n \in Nat /\ DOMAIN attempts = 1..n /\ \A i \in 1..n : attempts[i] \in R
    BY <1>1, <2>1, <2>3
  <2> QED
    BY <2>2, <2>3, <2>4
<1>3. IsFiniteSet(S)
  BY <1>2, FS_Interval, FS_Subset
<1>4. PICK f : f = [i \in S |-> attempts[i].score]
  OBVIOUS
<1>5. PICK T : T = [i \in S |-> {i} \X (1..f[i])]
  OBVIOUS
<1>6. \A i \in S : f[i] \in Nat /\ f[i] = attempts[i].score
  BY <1>2, <1>4
<1>7. ASSUME NEW i \in S  PROVE IsFiniteSet(T[i]) /\ f[i] = Cardinality(T[i])
  <2>1. PICK A, B : A = {i} /\ B = 1..f[i]
    OBVIOUS
  <2>2. IsFiniteSet(A) /\ Cardinality(A) = 1
    BY <2>1, FS_Singleton
  <2>3. f[i] \in Nat
    BY <1>6
  <2>4. IsFiniteSet(B) /\ Cardinality(B) = f[i]
    BY <2>1, <2>3, FS_Interval
  <2>5. IsFiniteSet(A \X B) /\ Cardinality(A \X B) = Cardinality(A) * Cardinality(B)
    BY <2>2, <2>4, FS_Product
  <2>6. T[i] = A \X B
    BY <1>5, <2>1
  <2> QED
    BY <2>2, <2>3, <2>4, <2>5, <2>6
<1>8. \A q, r \in S : q # r => T[q] \cap T[r] = {}
  <2> SUFFICES ASSUME NEW q \in S, NEW r \in S, q # r, NEW x, x \in T[q], x \in T[r]
               PROVE  FALSE
    OBVIOUS
  <2>1. x[1] \in {q} /\ x[1] \in {r}
    BY <1>5
  <2> QED
    BY <2>1
<1>9. Total(f, S) \in Nat
  <2>1. PICK V : V = UNION {T[i] : i \in S}
    OBVIOUS
  <2>2. \A x : x \in V <=> \E i \in S : x \in T[i]
    BY <2>1
  <2>3. Total(f, S) = Cardinality(V) /\ IsFiniteSet(V)
    BY <1>3, <1>7, <1>8, <2>2, PartsTotal
  <2> QED
    BY <2>3, FS_CardinalityType
<1>10. Sum(S) \in Nat
  <2>1. Sum(S) = Total(f, S)
    BY <1>6, SumOf
  <2> QED
    BY <1>9, <2>1
<1>11. Cardinality(S) \in Nat /\ Cardinality(S) # 0
  BY <1>3, FS_CardinalityType, FS_EmptySet
<1>12. ASSUME NEW x \in Nat, NEW k \in Nat, k # 0  PROVE Round(x, k) \in Int
  <2>1. 2 * x + k \in Int /\ 2 * k \in Int /\ 2 * k > 0
    BY <1>12
  <2>2. \A a \in Int, b \in Int : b > 0 => a \div b \in Int
    OBVIOUS
  <2>3. (2 * x + k) \div (2 * k) \in Int
    BY <2>1, <2>2
  <2>4. x >= 0
    BY <1>12
  <2> QED
    BY <2>3, <2>4 DEF Round
<1> QED
  BY <1>3, <1>10, <1>11, <1>12 DEF Mean

LEMMA MeanIsThere ==
    ASSUME Practised, NEW S \in SUBSET DOMAIN attempts
    PROVE  Mean(S) = None <=> S = {}
<1>1. CASE S = {}
  BY <1>1 DEF Mean
<1>2. CASE S # {}
  BY <1>2, MeanIsFigure, FigureAssumption
<1> QED
  BY <1>1, <1>2

\* What a manager's figures rest on: graded attempts of the team's reps.
LEMMA CountedOfTeam ==
    ASSUME Practised, NEW t
    PROVE  /\ Counted(ManagerScope(t)) \subseteq DOMAIN attempts
           /\ \A i \in Counted(ManagerScope(t)) :
                /\ attempts[i].rep \in OnRoster(t)
                /\ attempts[i].drill \in AllDrills
<1>1. PICK R, s : R = AttemptRows /\ s = attempts
  OBVIOUS
<1>2. s \in Seq(R) /\ \A i \in DOMAIN s : s[i] \in R
  <2>1. s \in Seq(R)
    BY <1>1 DEF Practised
  <2> QED
    BY <2>1
<1>3. \A i \in DOMAIN attempts : /\ attempts[i].rep \in team.reps
                                 /\ attempts[i].drill \in AllDrills
                                 /\ attempts[i].team = rep[attempts[i].rep].team
  BY <1>1, <1>2 DEF AttemptRows, Practised
<1>4. \A r \in team.reps : r # 0
  BY TeamAssumption, TrainingAssumption DEF Practised
<1>5. ASSUME NEW i \in Counted(ManagerScope(t))
      PROVE  i \in DOMAIN attempts /\ attempts[i].rep \in OnRoster(t)
  <2>1. i \in DOMAIN attempts /\ ReadsAttempt(ManagerScope(t), attempts[i])
    BY <1>5 DEF Counted
  <2>2. attempts[i].team = t
    BY <1>3, <1>4, <2>1 DEF ReadsAttempt, ManagerScope, Manager
  <2> QED
    BY <1>3, <2>1, <2>2 DEF OnRoster
<1> QED
  BY <1>3, <1>5

\* A team's pools of a month.
PoolsStand(t, P) ==
    /\ DOMAIN P = team.reps
    /\ \A r \in team.reps :
         /\ P[r] \in SUBSET DOMAIN attempts /\ IsFiniteSet(P[r])
         /\ \A i \in P[r] : attempts[i].drill \in AllDrills /\ attempts[i].rep = r
         /\ P[r] # {} => r \in OnRoster(t)
    /\ \A D \in SUBSET team.reps : (\A r \in D : P[r] # {}) => IsFiniteSet(D)

LEMMA PoolsOf ==
    ASSUME Practised, NEW t, NEW m, NEW P, P = Pools(ManagerScope(t), m)
    PROVE  PoolsStand(t, P)
<1>1. PICK C : C = Counted(ManagerScope(t))
  OBVIOUS
<1>2. P = [r \in team.reps |-> {i \in C : attempts[i].rep = r /\ attempts[i].month = m}]
  BY <1>1, Zenon DEF Pools
<1>3. /\ C \subseteq DOMAIN attempts
      /\ \A i \in C : attempts[i].rep \in OnRoster(t) /\ attempts[i].drill \in AllDrills
  BY <1>1, CountedOfTeam
<1>4. IsFiniteSet(DOMAIN attempts)
  <2>1. PICK s, R : s = attempts /\ R = AttemptRows
    OBVIOUS
  <2>2. s \in Seq(R)
    BY <2>1 DEF Practised
  <2>3. DOMAIN s = 1..Len(s) /\ Len(s) \in Nat
    BY <2>2
  <2> QED
    BY <2>1, <2>3, FS_Interval
<1>5. PICK Those : Those = {r \in team.reps : P[r] # {}}
  OBVIOUS
<1>6. IsFiniteSet(Those)
  <2>1. PICK D : D = {i \in C : attempts[i].month = m}
    OBVIOUS
  <2>2. IsFiniteSet(D)
    BY <1>3, <1>4, <2>1, FS_Subset
  <2>3. PICK f : f = [i \in D |-> attempts[i].rep]
    OBVIOUS
  <2>4. \A i \in D : f[i] \in Those
    <3> SUFFICES ASSUME NEW i \in D  PROVE f[i] \in Those
      OBVIOUS
    <3>1. i \in C /\ f[i] = attempts[i].rep /\ f[i] \in team.reps
      BY <1>3, <2>1, <2>3 DEF OnRoster
    <3>2. i \in P[f[i]]
      BY <1>2, <2>1, <3>1
    <3> QED
      BY <1>5, <3>1, <3>2
  <2>5. \A r \in Those : \E i \in D : f[i] = r
    BY <1>2, <1>5, <2>1, <2>3
  <2>6. f \in Surjection(D, Those)
    BY <2>3, <2>4, <2>5 DEF Surjection
  <2> QED
    BY <2>2, <2>6, FS_Surjection
<1>7. ASSUME NEW r \in team.reps
      PROVE  /\ P[r] \in SUBSET DOMAIN attempts /\ IsFiniteSet(P[r])
             /\ \A i \in P[r] : attempts[i].drill \in AllDrills /\ attempts[i].rep = r
             /\ P[r] # {} => r \in OnRoster(t)
  <2>1. P[r] = {i \in C : attempts[i].rep = r /\ attempts[i].month = m}
    BY <1>2
  <2>2. P[r] \in SUBSET DOMAIN attempts
    BY <1>3, <2>1
  <2> QED
    BY <1>3, <1>4, <2>1, <2>2, FS_Subset
<1>8. DOMAIN P = team.reps
  BY <1>2
<1>9. ASSUME NEW D \in SUBSET team.reps, \A r \in D : P[r] # {}  PROVE IsFiniteSet(D)
  <2>1. D \in SUBSET Those
    BY <1>5, <1>9
  <2> QED
    BY <1>6, <2>1, FS_Subset
<1> QED
  BY <1>7, <1>8, <1>9, Zenon DEF PoolsStand

\* A ranking, from what it is made of.
Rated(s, m) == {r \in team.reps : Pools(s, m)[r] # {}}
Rating(s, m) == [r \in Rated(s, m) |-> Mean(Pools(s, m)[r])]
Ranking(P, rated, rating) ==
    LET rank == [r \in rated |-> Cardinality(
                    {q \in rated : rating[q] > rating[r] \/ (rating[q] = rating[r] /\ q <= r)})]
    IN  [r \in rated |-> [rating |-> rating[r], rank |-> rank[r], pool |-> P[r],
                          tier |-> TierAt(rank[r], Cardinality(rated))]]

LEMMA TiersAre ==
    ASSUME NEW s, NEW m
    PROVE  /\ Tiers(s, m) = Ranking(Pools(s, m), Rated(s, m), Rating(s, m))
           /\ Tiers(s, m)' = Ranking(Pools(s, m)', Rated(s, m)', Rating(s, m)')
BY Zenon DEF Tiers, Ranking, Rated, Rating

RankingStands(t, P, view) ==
    /\ DOMAIN view = {r \in team.reps : P[r] # {}}
    /\ DOMAIN view \subseteq OnRoster(t) /\ Cardinality(DOMAIN view) \in Nat
    /\ \A r \in DOMAIN view :
         /\ view[r].rating = Mean(P[r]) /\ view[r].rating \in Int
         /\ view[r].pool = P[r] /\ view[r].rank \in Nat
         /\ view[r].tier = TierAt(view[r].rank, Cardinality(DOMAIN view))

LEMMA TiersOf ==
    ASSUME Practised, NEW t, NEW m, NEW P, P = Pools(ManagerScope(t), m),
           NEW view, view = Tiers(ManagerScope(t), m)
    PROVE  RankingStands(t, P, view)
<1>1. PICK s : s = ManagerScope(t)
  OBVIOUS
<1>2. PICK rated : rated = Rated(s, m)
  OBVIOUS
<1>3. PICK rating : rating = Rating(s, m)
  OBVIOUS
<1>4. PICK rank : rank = [r \in rated |-> Cardinality(
                    {q \in rated : rating[q] > rating[r] \/ (rating[q] = rating[r] /\ q <= r)})]
  OBVIOUS
<1>5. /\ rated \in SUBSET team.reps /\ \A r \in team.reps : r \in rated <=> P[r] # {}
      /\ rating = [r \in rated |-> Mean(P[r])]
  BY <1>1, <1>2, <1>3 DEF Rated, Rating
<1>6. view = [r \in rated |-> [rating |-> rating[r], rank |-> rank[r], pool |-> P[r],
                               tier |-> TierAt(rank[r], Cardinality(rated))]]
  <2>1. view = Ranking(P, rated, rating)
    BY <1>1, <1>2, <1>3, TiersAre
  <2>2. Ranking(P, rated, rating)
          = [r \in rated |-> [rating |-> rating[r], rank |-> rank[r], pool |-> P[r],
                              tier |-> TierAt(rank[r], Cardinality(rated))]]
    BY <1>4, Zenon DEF Ranking
  <2> QED
    BY <2>1, <2>2, Zenon
<1>7. /\ \A r \in team.reps : P[r] \in SUBSET DOMAIN attempts /\ (P[r] # {} => r \in OnRoster(t))
      /\ IsFiniteSet(rated)
  <2>1. PoolsStand(t, P)
    BY PoolsOf
  <2> QED
    BY <1>5, <2>1 DEF PoolsStand
<1>8. ASSUME NEW r \in rated  PROVE rating[r] = Mean(P[r]) /\ rating[r] \in Int /\ rank[r] \in Nat
  <2>1. P[r] \in SUBSET DOMAIN attempts /\ P[r] # {}
    BY <1>5, <1>7
  <2>2. PICK Q : Q = {q \in rated : rating[q] > rating[r] \/ (rating[q] = rating[r] /\ q <= r)}
    OBVIOUS
  <2>3. Cardinality(Q) \in Nat
    BY <1>7, <2>2, FS_Subset, FS_CardinalityType
  <2> QED
    BY <1>4, <1>5, <2>1, <2>2, <2>3, MeanIsFigure
<1>9. DOMAIN view = rated /\ rated \subseteq OnRoster(t) /\ Cardinality(rated) \in Nat
  BY <1>5, <1>6, <1>7, FS_CardinalityType
<1>10. \A r \in rated : /\ view[r].rating = rating[r] /\ view[r].rank = rank[r]
                        /\ view[r].pool = P[r]
                        /\ view[r].tier = TierAt(rank[r], Cardinality(rated))
  BY <1>6
<1>11. \A r \in rated : /\ view[r].rating = Mean(P[r]) /\ view[r].rating \in Int
                        /\ view[r].pool = P[r] /\ view[r].rank \in Nat
                        /\ view[r].tier = TierAt(view[r].rank, Cardinality(rated))
  BY <1>8, <1>10
<1>12. rated = {r \in team.reps : P[r] # {}}
  BY <1>5
<1> QED
  BY <1>9, <1>11, <1>12, Zenon DEF RankingStands

\* Nobody leads and lags.
LEMMA FirstFifth == \A n \in Nat : n >= 5 => Fifth(n) <= (n + 1) \div 2
<1> SUFFICES ASSUME NEW n \in Nat, n >= 5  PROVE Fifth(n) <= (n + 1) \div 2
  OBVIOUS
<1>1. PICK k, h : k = (2 * n + 5) \div 10 /\ h = (n + 1) \div 2
  OBVIOUS
<1>2. k \in Int /\ 10 * k <= 2 * n + 5
  BY <1>1
<1>3. h \in Int /\ 2 * h > n - 1
  BY <1>1
<1>4. 2 * h >= n
  BY <1>3
<1>5. k <= h /\ 1 <= h
  BY <1>2, <1>3, <1>4
<1> QED
  BY <1>1, <1>5 DEF Fifth

LEMMA NoneLeadsAndLags ==
    ASSUME NEW rank \in Nat, NEW n \in Nat, TierAt(rank, n) = "top"
    PROVE  ~InBottomHalf(rank, n)
<1>1. n >= 5 /\ rank <= Fifth(n)
  BY DEF TierAt, TIERING_MINIMUM
<1>2. PICK k, h : k = Fifth(n) /\ h = (n + 1) \div 2
  OBVIOUS
<1>3. k \in Int /\ h \in Int
  BY <1>2 DEF Fifth
<1>4. rank <= k /\ k <= h
  BY <1>1, <1>2, FirstFifth
<1>5. ~(rank > h)
  BY <1>3, <1>4
<1> QED
  BY <1>2, <1>5 DEF InBottomHalf

\* A pool's attempts are each of one call type.
LEMMA TypesOfPool ==
    ASSUME NEW S, IsFiniteSet(S), \A i \in S : attempts[i].drill \in AllDrills
    PROVE  Cardinality(S)
             = FoldFunction(+, 0, [k \in Types |-> Cardinality(OfType(S, k))])
<1>1. PICK T, f : /\ T = [k \in Types |-> OfType(S, k)]
                  /\ f = [k \in Types |-> Cardinality(OfType(S, k))]
  OBVIOUS
<1>2. \A k \in Types : T[k] = OfType(S, k) /\ T[k] \in SUBSET S /\ f[k] = Cardinality(T[k])
  BY <1>1 DEF OfType
<1>3. \A k \in Types : IsFiniteSet(T[k])
  BY <1>2, FS_Subset
<1>4. \A j, k \in Types : j # k => T[j] \cap T[k] = {}
  BY <1>2 DEF OfType
<1>5. \A i : i \in S <=> \E k \in Types : i \in T[k]
  <2>1. \A i \in S : TypeOf[attempts[i].drill] \in Types
    BY TrainingAssumption DEF Types
  <2>2. \A i \in S : i \in T[TypeOf[attempts[i].drill]]
    BY <1>2, <2>1 DEF OfType
  <2> QED
    BY <1>2, <2>1, <2>2
<1>6. IsFiniteSet(Types)
  <2>1. PICK a \in Int, b \in Int : a = 1 /\ b = 4
    OBVIOUS
  <2>2. IsFiniteSet(a..b)
    BY FS_Interval, Zenon
  <2> QED
    BY <2>1, <2>2 DEF Types
<1>7. Total(f, Types) = Cardinality(S)
  BY <1>2, <1>3, <1>4, <1>5, <1>6, PartsTotal
<1>8. FoldFunction(+, 0, f) = Total(f, DOMAIN f)
  BY Zenon DEF FoldFunction, FoldFunctionOnSet, MapThenFoldSet, Total, Folds
<1>9. DOMAIN f = Types
  BY <1>1
<1>10. FoldFunction(+, 0, f) = Cardinality(S)
  BY <1>7, <1>8, <1>9, Zenon
<1> QED
  BY <1>1, <1>10, Zenon

-----------------------------------------------------------------------------
(* The surfaces agree. *)

LEMMA RosterHolds == ASSUME Practised PROVE RosterAgrees
<1> SUFFICES ASSUME NEW t \in {rep[r].team : r \in team.reps}
             PROVE  LET board == Dashboard(t, month)
                        roster == Roster(t, month)
                        With(tier) == {r \in DOMAIN roster : roster[r].tier = tier}
                        rated == {r \in DOMAIN roster : roster[r].rating # None}
                    IN  /\ board.rated = Cardinality(rated)
                        /\ board.top = Cardinality(With("top"))
                        /\ board.coaching = Cardinality(With("needs_coaching"))
                        /\ board.suppressed => With("none") = DOMAIN roster
                        /\ \A r \in DOMAIN roster :
                             LET dive == DeepDive(t, r, month) IN
                             /\ roster[r].counted = FoldFunction(+, 0, dive.counts)
                             /\ roster[r].rating = dive.standing.rating
                        /\ With("top") \cap BottomHalf(Tiers(ManagerScope(t), month)) = {}
                        /\ Cohorts(t, month).bottom_half \subseteq rated
  BY Zenon DEF RosterAgrees
<1>1. PICK view : view = Tiers(ManagerScope(t), month)
  OBVIOUS
<1>2. PICK P : P = Pools(ManagerScope(t), month)
  OBVIOUS
<1>3. PICK n : n = Cardinality(DOMAIN view)
  OBVIOUS
<1>4. PICK roster : roster = Roster(t, month)
  OBVIOUS
<1>5. PICK board : board = Dashboard(t, month)
  OBVIOUS
<1>6. PoolsStand(t, P)
  BY <1>2, PoolsOf
<1>7. /\ DOMAIN view = {r \in team.reps : P[r] # {}}
      /\ DOMAIN view \subseteq OnRoster(t) /\ n \in Nat
      /\ \A r \in DOMAIN view :
           /\ view[r].rating = Mean(P[r]) /\ view[r].rating \in Int
           /\ view[r].pool = P[r] /\ view[r].rank \in Nat
           /\ view[r].tier = TierAt(view[r].rank, n)
  <2>1. RankingStands(t, P, view)
    BY <1>1, <1>2, TiersOf
  <2> QED
    BY <1>3, <2>1 DEF RankingStands
<1>8. OnRoster(t) \subseteq team.reps /\ \A r \in OnRoster(t) : rep[r].team = t
  BY DEF OnRoster
<1>9. /\ DOMAIN roster = OnRoster(t)
      /\ \A r \in OnRoster(t) :
           /\ roster[r].tier = IF r \in DOMAIN view THEN view[r].tier ELSE "none"
           /\ roster[r].rating = IF r \in DOMAIN view THEN view[r].rating ELSE None
           /\ roster[r].counted = IF r \in DOMAIN view THEN Cardinality(view[r].pool) ELSE 0
  BY <1>1, <1>4 DEF Roster
<1>10. /\ board.rated = n /\ board.suppressed = (n < TIERING_MINIMUM)
       /\ board.top = Cardinality(In(view, "top"))
       /\ board.coaching = Cardinality(In(view, "needs_coaching"))
  BY <1>1, <1>3, <1>5 DEF Dashboard
<1>11. board.rated = Cardinality({r \in DOMAIN roster : roster[r].rating # None})
  <2>1. \A r \in DOMAIN view : view[r].rating # None
    BY <1>7, FigureAssumption
  <2>2. {r \in DOMAIN roster : roster[r].rating # None} = DOMAIN view
    BY <1>7, <1>9, <2>1
  <2> QED
    BY <1>3, <1>10, <2>2
<1>12. ASSUME NEW tier \in {"top", "needs_coaching"}
       PROVE  {r \in DOMAIN roster : roster[r].tier = tier} = In(view, tier)
  BY <1>7, <1>9 DEF In
<1>13. board.suppressed => {r \in DOMAIN roster : roster[r].tier = "none"} = DOMAIN roster
  <2> SUFFICES ASSUME n < TIERING_MINIMUM, NEW r \in DOMAIN roster
               PROVE  roster[r].tier = "none"
    BY <1>10
  <2>1. CASE r \in DOMAIN view
    BY <1>7, <1>9, <2>1 DEF TierAt
  <2>2. CASE r \notin DOMAIN view
    BY <1>9, <2>2
  <2> QED
    BY <2>1, <2>2
<1>14. ASSUME NEW r \in DOMAIN roster
       PROVE  /\ roster[r].counted = FoldFunction(+, 0, DeepDive(t, r, month).counts)
              /\ roster[r].rating = DeepDive(t, r, month).standing.rating
  <2>1. r \in OnRoster(t) /\ r \in team.reps /\ rep[r].team = t
    BY <1>8, <1>9
  <2>2. PICK S : S = P[r]
    OBVIOUS
  <2>3. /\ IsFiniteSet(S) /\ \A i \in S : attempts[i].drill \in AllDrills
    BY <1>6, <2>1, <2>2 DEF PoolsStand
  <2>4. PICK f : f = [k \in Types |-> Cardinality(OfType(S, k))]
    OBVIOUS
  <2>5. DeepDive(t, r, month).counts = f
    BY <1>2, <2>1, <2>2, <2>4 DEF DeepDive
  <2>6. DeepDive(t, r, month).standing.rating = Mean(S)
    BY <1>2, <2>1, <2>2 DEF DeepDive, Standing
  <2>7. Cardinality(S) = FoldFunction(+, 0, f)
    BY <2>3, <2>4, TypesOfPool, Zenon
  <2>8. roster[r].counted = Cardinality(S) /\ roster[r].rating = Mean(S)
    <3>1. CASE r \in DOMAIN view
      BY <1>7, <1>9, <2>1, <2>2, <3>1
    <3>2. CASE r \notin DOMAIN view
      <4>1. S = {}
        BY <1>7, <2>1, <2>2, <3>2
      <4> QED
        BY <1>9, <2>1, <3>2, <4>1, FS_EmptySet DEF Mean
    <3> QED
      BY <3>1, <3>2
  <2>9. FoldFunction(+, 0, DeepDive(t, r, month).counts) = FoldFunction(+, 0, f)
    BY <2>5, Zenon
  <2> QED
    BY <2>6, <2>7, <2>8, <2>9, Zenon
<1>15. In(view, "top") \cap BottomHalf(view) = {}
  <2>1. \A r \in DOMAIN view : view[r].tier = "top" => ~InBottomHalf(view[r].rank, n)
    BY <1>7, NoneLeadsAndLags
  <2> QED
    BY <1>3, <2>1 DEF In, BottomHalf
<1>16. Cohorts(t, month).bottom_half \subseteq {r \in DOMAIN roster : roster[r].rating # None}
  <2>1. Cohorts(t, month).bottom_half \subseteq BottomHalf(view)
    BY <1>1 DEF Cohorts
  <2>2. BottomHalf(view) \subseteq DOMAIN view
    BY DEF BottomHalf
  <2>3. \A r \in DOMAIN view : view[r].rating # None
    BY <1>7, FigureAssumption
  <2>4. \A r \in DOMAIN view : r \in DOMAIN roster /\ roster[r].rating = view[r].rating
    BY <1>7, <1>9
  <2> QED
    BY <2>1, <2>2, <2>3, <2>4
<1>17. /\ board.top = Cardinality({r \in DOMAIN roster : roster[r].tier = "top"})
       /\ board.coaching = Cardinality({r \in DOMAIN roster : roster[r].tier = "needs_coaching"})
       /\ {r \in DOMAIN roster : roster[r].tier = "top"} \cap BottomHalf(view) = {}
  BY <1>10, <1>12, <1>15
<1> QED
  BY <1>1, <1>4, <1>5, <1>11, <1>13, <1>14, <1>16, <1>17, Zenon

LEMMA NumbersHold == ASSUME Practised PROVE NumbersAgree
<1> SUFFICES ASSUME NEW r \in team.reps,
                    NEW i \in DOMAIN DeepDive(rep[r].team, r, month).numbers,
                    DrillHistory(r, attempts[i].drill) # NotFound
             PROVE  DrillHistory(r, attempts[i].drill).numbers[i]
                      = DeepDive(rep[r].team, r, month).numbers[i]
  BY Zenon DEF NumbersAgree
<1>1. PICK t, d, S, D : /\ t = rep[r].team /\ d = attempts[i].drill
                        /\ S = Pools(ManagerScope(t), month)[r] /\ D = OnDrill(r, d)
  OBVIOUS
<1>2. DeepDive(t, r, month).numbers = [j \in S |-> Numbered(t, r, month, j)]
  BY <1>1 DEF DeepDive
<1>3. i \in S /\ DeepDive(t, r, month).numbers[i] = Numbered(t, r, month, i)
  BY <1>1, <1>2
<1>4. S \in SUBSET DOMAIN attempts /\ \A j \in S : attempts[j].rep = r
  <2>1. PICK P : P = Pools(ManagerScope(t), month)
    OBVIOUS
  <2>2. PoolsStand(t, P)
    BY <2>1, PoolsOf
  <2> QED
    BY <1>1, <2>1, <2>2 DEF PoolsStand
<1>5. i \in D
  BY <1>1, <1>3, <1>4 DEF OnDrill
<1>6. DrillHistory(r, d).numbers[i] = NumberIn(D, i)
  <2>1. ReadsDrill(RepScope(r), d)
    BY <1>1 DEF DrillHistory
  <2>2. DrillHistory(r, d).numbers = [j \in D |-> NumberIn(D, j)]
    BY <1>1, <2>1 DEF DrillHistory
  <2> QED
    BY <1>5, <2>2
<1>7. {j \in D : attempts[j].team = t} = D
  BY <1>1 DEF OnDrill, Practised
<1>8. Numbered(t, r, month, i) = NumberIn(D, i)
  BY <1>1, <1>7 DEF Numbered
<1> QED
  BY <1>1, <1>3, <1>6, <1>8

LEMMA LeaderboardHolds == ASSUME Practised PROVE LeaderboardAgrees
<1> SUFFICES ASSUME NEW t \in Managers, NEW d, TeamDrillStats(t, d) # NotFound
             PROVE  LET stats == TeamDrillStats(t, d)
                        graded == [r \in DOMAIN stats.leaderboard |-> stats.leaderboard[r].graded]
                    IN  /\ stats.rollup.practiced = Cardinality(DOMAIN stats.leaderboard)
                        /\ stats.rollup.total = FoldFunction(+, 0, graded)
                        /\ stats.rollup.total = CatalogRow(t, d).total
  BY Zenon DEF LeaderboardAgrees
<1>1. PICK stats, s, E : /\ stats = TeamDrillStats(t, d) /\ s = ManagerScope(t)
                         /\ E = Readable(t, d)
  OBVIOUS
<1>2. PICK those : those = {r \in team.reps : rep[r].team = t /\ Taken(s, r, d) # {}}
  OBVIOUS
<1>3. stats = [rollup |-> Rollup(t, d), leaderboard |-> Leaderboard(t, d)]
  BY <1>1 DEF TeamDrillStats
<1>4. /\ stats.rollup.practiced = Cardinality({attempts[i].rep : i \in E})
      /\ stats.rollup.total = Cardinality(E)
      /\ CatalogRow(t, d).total = Cardinality(E)
  BY <1>1, <1>3 DEF Rollup, CatalogRow
<1>5. /\ DOMAIN stats.leaderboard = those
      /\ \A r \in those : stats.leaderboard[r].graded = Cardinality(Taken(s, r, d))
  BY <1>1, <1>2, <1>3 DEF Leaderboard
<1>6. PICK R, a : R = AttemptRows /\ a = attempts
  OBVIOUS
<1>7. IsFiniteSet(DOMAIN attempts) /\ \A i \in DOMAIN attempts : attempts[i] \in R
  <2>1. a \in Seq(R)
    BY <1>6 DEF Practised
  <2>2. DOMAIN a = 1..Len(a) /\ Len(a) \in Nat /\ \A i \in DOMAIN a : a[i] \in R
    BY <2>1
  <2> QED
    BY <1>6, <2>2, FS_Interval
<1>8. \A i \in DOMAIN attempts : /\ attempts[i].rep \in team.reps
                                 /\ attempts[i].team = rep[attempts[i].rep].team
  BY <1>6, <1>7 DEF AttemptRows, Practised
<1>9. \A r \in team.reps : r # 0
  BY TeamAssumption, TrainingAssumption DEF Practised
<1>10. E \in SUBSET DOMAIN attempts /\ \A i \in E : rep[attempts[i].rep].team = t
  <2>1. \A i \in E : i \in DOMAIN attempts /\ ReadsAttempt(ManagerScope(t), attempts[i])
    BY <1>1 DEF Readable
  <2> QED
    BY <1>8, <1>9, <2>1 DEF ReadsAttempt, ManagerScope, Manager
<1>11. \A r : Taken(s, r, d) = {i \in E : attempts[i].rep = r}
  BY <1>1 DEF Taken, Readable
<1>12. \A i \in E : attempts[i].rep \in those /\ i \in Taken(s, attempts[i].rep, d)
  BY <1>2, <1>8, <1>10, <1>11
<1>13. {attempts[i].rep : i \in E} = those
  BY <1>2, <1>11, <1>12
<1>14. IsFiniteSet(E)
  BY <1>7, <1>10, FS_Subset
<1>15. IsFiniteSet(those)
  <2>1. PICK f : f = [i \in E |-> attempts[i].rep]
    OBVIOUS
  <2>2. \A r \in those : \E i \in E : f[i] = r
    BY <1>13, <2>1
  <2>3. f \in Surjection(E, those)
    BY <1>12, <2>1, <2>2 DEF Surjection
  <2> QED
    BY <1>14, <2>3, FS_Surjection
<1>16. PICK T, f : /\ T = [r \in those |-> Taken(s, r, d)]
                   /\ f = [r \in those |-> Cardinality(Taken(s, r, d))]
  OBVIOUS
<1>17. \A r \in those : IsFiniteSet(T[r]) /\ f[r] = Cardinality(T[r])
  <2>1. \A r \in those : T[r] \in SUBSET E /\ f[r] = Cardinality(T[r])
    BY <1>11, <1>16
  <2> QED
    BY <1>14, <2>1, FS_Subset
<1>18. \A q, r \in those : q # r => T[q] \cap T[r] = {}
  BY <1>11, <1>16
<1>19. \A i : i \in E <=> \E r \in those : i \in T[r]
  BY <1>11, <1>12, <1>16
<1>20. Total(f, those) = Cardinality(E)
  BY <1>15, <1>17, <1>18, <1>19, PartsTotal
<1>21. FoldFunction(+, 0, f) = Total(f, DOMAIN f)
  BY Zenon DEF FoldFunction, FoldFunctionOnSet, MapThenFoldSet, Total, Folds
<1>22. DOMAIN f = those
  BY <1>16
<1>23. FoldFunction(+, 0, f) = Cardinality(E)
  BY <1>20, <1>21, <1>22, Zenon
<1>24. [r \in DOMAIN stats.leaderboard |-> stats.leaderboard[r].graded] = f
  BY <1>5, <1>16
<1>25. FoldFunction(+, 0, [r \in DOMAIN stats.leaderboard |-> stats.leaderboard[r].graded])
         = Cardinality(E)
  BY <1>23, <1>24, Zenon
<1>26. stats.rollup.practiced = Cardinality(DOMAIN stats.leaderboard)
  BY <1>4, <1>5, <1>13
<1> QED
  BY <1>1, <1>4, <1>25, <1>26, Zenon

(* Every surface tells the same story: whatever reps, drills and attempts  *)
(* there are, and whoever changed teams, left or had a call interrupted,   *)
(* dashboard, roster, deep dive, histories, leaderboards and catalog are   *)
(* sums of the same attempts (training/service.py).                        *)
THEOREM StoriesStand == Spec => []StoriesAgree
<1>1. Init => Practised
  BY PractisedInit
<1>2. Practised /\ [Next]_vars => Practised'
  BY PractisedStep
<1>3. Practised => StoriesAgree
  BY RosterHolds, NumbersHold, LeaderboardHolds DEF StoriesAgree
<1> QED
  BY <1>1, <1>2, <1>3, PTL DEF Spec

-----------------------------------------------------------------------------
(* Private practice. *)

Public == {i \in DOMAIN attempts : ~Private(attempts[i].drill)}

\* A step after which all but private practice is as it was.
PracticeOnly ==
    /\ UNCHANGED <<team, drill, rep, month>>
    /\ Public' = Public /\ \A i \in Public : attempts'[i] = attempts[i]

\* The attempts of an account's practice stay practice.
LEMMA DrillsKept ==
    ASSUME Practised, RepStep
    PROVE  \A i \in DOMAIN attempts :
             i \in DOMAIN attempts' /\ attempts'[i].drill = attempts[i].drill
<1>1. PICK a, R : a = attempts /\ R = AttemptRows
  OBVIOUS
<1>2. a \in Seq(R)
  BY <1>1 DEF Practised
<1>3. PICK n : n = Len(a)
  OBVIOUS
<1>4. n \in Nat /\ DOMAIN a = 1..n /\ \A i \in 1..n : a[i] \in R
  BY <1>2, <1>3
<1>5. \A i \in 1..n : \E q \in team.reps, d \in AllDrills, t \in Managers, m \in Int,
                        x \in {"open", "graded", "interrupted"}, y \in Nat :
        a[i] = [rep |-> q, drill |-> d, team |-> t, month |-> m, status |-> x, score |-> y]
  BY <1>1, <1>4 DEF AttemptRows
<1>6. ASSUME NEW r, NEW d, Admit(r, d), NEW i \in 1..n
      PROVE  i \in DOMAIN attempts' /\ attempts'[i].drill = a[i].drill
  <2>1. PICK e : attempts' = Append(a, e)
    BY <1>1, <1>6 DEF Admit
  <2>2. PICK b : b = Append(a, e)
    OBVIOUS
  <2>3. DOMAIN b = 1..(n + 1) /\ b[i] = a[i]
    BY <1>2, <1>3, <1>4, <2>2
  <2> QED
    BY <1>4, <2>1, <2>2, <2>3
<1>7. ASSUME NEW j \in DOMAIN attempts, Interrupt(j) \/ \E x \in Scores : Grade(j, x),
             NEW i \in 1..n
      PROVE  i \in DOMAIN attempts' /\ attempts'[i].drill = a[i].drill
  <2>1. \A x : [a[j] EXCEPT !.status = "interrupted"].drill = a[j].drill
                /\ [a[j] EXCEPT !.status = "graded", !.score = x].drill = a[j].drill
    <3>1. \E q \in team.reps, d \in AllDrills, t \in Managers, m \in Int,
             x \in {"open", "graded", "interrupted"}, y \in Nat :
            a[j] = [rep |-> q, drill |-> d, team |-> t, month |-> m, status |-> x, score |-> y]
      BY <1>1, <1>4, <1>5
    <3> QED
      BY <3>1
  <2>2. PICK e : attempts' = [a EXCEPT ![j] = e] /\ e.drill = a[j].drill
    <3>1. CASE Interrupt(j)
      <4>1. PICK e : e = [a[j] EXCEPT !.status = "interrupted"]
        OBVIOUS
      <4>2. attempts' = [a EXCEPT ![j] = e]
        BY <1>1, <3>1, <4>1 DEF Interrupt
      <4> QED
        BY <2>1, <4>1, <4>2
    <3>2. ASSUME NEW x, Grade(j, x)
          PROVE  \E e : attempts' = [a EXCEPT ![j] = e] /\ e.drill = a[j].drill
      <4>1. PICK e : e = [a[j] EXCEPT !.status = "graded", !.score = x]
        OBVIOUS
      <4>2. attempts' = [a EXCEPT ![j] = e]
        BY <1>1, <3>2, <4>1 DEF Grade
      <4> QED
        BY <2>1, <4>1, <4>2
    <3> QED
      BY <1>7, <3>1, <3>2
  <2>3. DOMAIN attempts' = 1..n /\ attempts'[i] = IF i = j THEN e ELSE a[i]
    BY <1>4, <2>2
  <2> QED
    BY <2>2, <2>3
<1>8. ASSUME NEW r, NEW t, ChangeTeam(r, t), NEW i \in 1..n
      PROVE  i \in DOMAIN attempts' /\ attempts'[i].drill = a[i].drill
  <2>1. attempts' = [j \in DOMAIN a |-> IF a[j].rep = r THEN [a[j] EXCEPT !.team = t] ELSE a[j]]
    BY <1>1, <1>8 DEF ChangeTeam
  <2> QED
    BY <1>4, <1>5, <2>1
<1>9. \A r : Deactivate(r) => attempts' = a
  BY <1>1 DEF Deactivate
<1>10. NextMonth => attempts' = a
  BY <1>1 DEF NextMonth
<1> QED
  BY <1>1, <1>4, <1>6, <1>7, <1>8, <1>9, <1>10 DEF RepStep

LEMMA PracticeOnlyStep ==
    ASSUME Practised, [Next]_vars, attempts' # attempts, UNCHANGED <<drill, rep, month>>,
           \A i \in DOMAIN attempts' :
             \/ Private(attempts'[i].drill)
             \/ (i \in DOMAIN attempts /\ attempts'[i] = attempts[i])
    PROVE  PracticeOnly
<1>1. Next
  BY DEF vars, training, records
<1>2. UNCHANGED team
  BY <1>1, TeamStands
<1>3. RepStep
  BY <1>1 DEF Next, TeamStep, TrainingStep, ListStep, OpenList, NextPage, records
<1>4. \A i \in DOMAIN attempts : i \in DOMAIN attempts' /\ attempts'[i].drill = attempts[i].drill
  BY <1>3, DrillsKept
<1>5. \A i : i \in Public' <=> i \in Public
  BY <1>4 DEF Public
<1>6. \A i \in Public : attempts'[i] = attempts[i]
  BY <1>4 DEF Public
<1> QED
  BY <1>2, <1>5, <1>6 DEF PracticeOnly

LEMMA ReadsAlike ==
    ASSUME PracticeOnly, NEW s, NEW d
    PROVE  ReadsDrill(s, d)' <=> ReadsDrill(s, d)
BY DEF PracticeOnly, ReadsDrill, Status, Home, Private

LEMMA CountedAlike ==
    ASSUME PracticeOnly, NEW s
    PROVE  Counted(s) \in SUBSET Public /\ Counted(s)' = Counted(s)
<1>1. \A i : i \in Counted(s) <=>
        /\ i \in Public /\ attempts[i].status = "graded"
        /\ ReadsAttempt(s, attempts[i]) /\ ReadsDrill(s, attempts[i].drill)
  BY DEF Counted, Public, Graded
<1>2. \A i : i \in Counted(s)' <=>
        /\ i \in Public' /\ attempts'[i].status = "graded"
        /\ ReadsAttempt(s, attempts'[i]) /\ ReadsDrill(s, attempts[i].drill)'
  BY DEF Counted, Public, Graded, ReadsAttempt, Private
<1>3. \A i \in Public : attempts'[i] = attempts[i]
  BY DEF PracticeOnly
<1>4. Public' = Public
  BY DEF PracticeOnly
<1>5. ASSUME NEW i  PROVE i \in Counted(s)' <=> i \in Counted(s)
  <2>1. CASE i \notin Public
    BY <1>1, <1>2, <1>4, <2>1
  <2>2. CASE i \in Public
    <3>1. PICK a : a = attempts[i]
      OBVIOUS
    <3>2. attempts'[i] = a
      BY <1>3, <2>2, <3>1
    <3>3. ReadsDrill(s, a.drill)' <=> ReadsDrill(s, a.drill)
      BY ReadsAlike
    <3> QED
      BY <1>1, <1>2, <1>4, <2>2, <3>1, <3>2, <3>3
  <2> QED
    BY <2>1, <2>2
<1> QED
  BY <1>1, <1>5

LEMMA MeanAlike ==
    ASSUME PracticeOnly, NEW S \in SUBSET Public
    PROVE  Sum(S)' = Sum(S) /\ Mean(S)' = Mean(S)
<1>1. PICK f : f = [i \in S |-> attempts[i].score]
  OBVIOUS
<1>2. \A i \in S : f[i] = attempts[i].score /\ f[i] = attempts'[i].score
  BY <1>1 DEF PracticeOnly
<1>3. Sum(S)' = Sum(S)
  BY <1>2, SumOf
<1> QED
  BY <1>3 DEF Mean

LEMMA PoolsAlike ==
    ASSUME PracticeOnly, NEW s, NEW m
    PROVE  /\ Pools(s, m)' = Pools(s, m)
           /\ \A r \in team.reps : Pools(s, m)[r] \in SUBSET Public
<1>1. PICK C : C = Counted(s)
  OBVIOUS
<1>2. C \in SUBSET Public /\ C = Counted(s)'
  BY <1>1, CountedAlike
<1>3. Pools(s, m) = [r \in team.reps |-> {i \in C : attempts[i].rep = r /\ attempts[i].month = m}]
  BY <1>1, Zenon DEF Pools
<1>4. Pools(s, m)' = [r \in team.reps |->
                        {i \in C : attempts'[i].rep = r /\ attempts'[i].month = m}]
  <2>1. Pools(s, m)' = [r \in team'.reps |->
                          {i \in C : attempts'[i].rep = r /\ attempts'[i].month = m}]
    BY <1>2, Zenon DEF Pools
  <2> QED
    BY <2>1 DEF PracticeOnly
<1>5. \A i \in C : attempts'[i] = attempts[i]
  BY <1>2 DEF PracticeOnly
<1>6. \A r : {i \in C : attempts'[i].rep = r /\ attempts'[i].month = m}
               = {i \in C : attempts[i].rep = r /\ attempts[i].month = m}
  BY <1>5
<1> QED
  BY <1>2, <1>3, <1>4, <1>6

LEMMA TypesAlike ==
    ASSUME PracticeOnly, NEW S \in SUBSET Public, NEW k
    PROVE  /\ OfType(S, k)' = OfType(S, k) /\ OfType(S, k) \in SUBSET Public
           /\ Mean(OfType(S, k))' = Mean(OfType(S, k))
<1>1. PICK D : D = OfType(S, k)
  OBVIOUS
<1>2. D \in SUBSET Public /\ D = OfType(S, k)'
  BY <1>1 DEF OfType, PracticeOnly
<1>3. Mean(D)' = Mean(D)
  BY <1>2, MeanAlike
<1> QED
  BY <1>1, <1>2, <1>3

LEMMA StandingAlike ==
    ASSUME PracticeOnly, NEW s, NEW m, NEW r \in team.reps
    PROVE  Standing(s, r, m)' = Standing(s, r, m)
<1>1. PICK S, T : S = Pools(s, m)[r] /\ T = Pools(s, m - 1)[r]
  OBVIOUS
<1>2. /\ S = Pools(s, m)'[r] /\ T = Pools(s, m - 1)'[r]
      /\ S \in SUBSET Public /\ T \in SUBSET Public
  BY <1>1, PoolsAlike
<1>3. Standing(s, r, m) = [rating |-> Mean(S), types |-> [k \in Types |-> Mean(OfType(S, k))],
                           trend |-> Less(Mean(S), Mean(T))]
  BY <1>1 DEF Standing
<1>4. Standing(s, r, m)' = [rating |-> Mean(S)', types |-> [k \in Types |-> Mean(OfType(S, k))'],
                            trend |-> Less(Mean(S)', Mean(T)')]
  BY <1>2 DEF Standing, Types, Less
<1>5. Mean(S)' = Mean(S) /\ Mean(T)' = Mean(T)
  BY <1>2, MeanAlike
<1>6. \A k \in Types : Mean(OfType(S, k))' = Mean(OfType(S, k))
  BY <1>2, TypesAlike
<1> QED
  BY <1>3, <1>4, <1>5, <1>6

LEMMA TiersAlike ==
    ASSUME PracticeOnly, NEW s, NEW m
    PROVE  /\ Tiers(s, m)' = Tiers(s, m)
           /\ \A r \in DOMAIN Tiers(s, m) : Tiers(s, m)[r].pool \in SUBSET Public
<1>1. PICK P : P = Pools(s, m)
  OBVIOUS
<1>2. P = Pools(s, m)' /\ \A r \in team.reps : P[r] \in SUBSET Public
  BY <1>1, PoolsAlike
<1>3. PICK rated : rated = Rated(s, m)
  OBVIOUS
<1>4. rated = Rated(s, m)' /\ \A r \in rated : P[r] \in SUBSET Public
  BY <1>1, <1>2, <1>3 DEF Rated, PracticeOnly
<1>5. \A r \in rated : Mean(P[r])' = Mean(P[r])
  BY <1>4, MeanAlike
<1>6. PICK rating : rating = Rating(s, m)
  OBVIOUS
<1>7. rating = [r \in rated |-> Mean(P[r])]
  BY <1>1, <1>3, <1>6 DEF Rating
<1>8. Rating(s, m)' = [r \in rated |-> Mean(P[r])']
  BY <1>2, <1>4 DEF Rating
<1>9. rating = Rating(s, m)'
  BY <1>5, <1>7, <1>8
<1>10. /\ Tiers(s, m) = Ranking(P, rated, rating)
       /\ Tiers(s, m)' = Ranking(P, rated, rating)
  BY <1>1, <1>2, <1>3, <1>4, <1>6, <1>9, TiersAre
<1>11. PICK view : view = Ranking(P, rated, rating)
  OBVIOUS
<1>12. DOMAIN view = rated /\ \A r \in rated : view[r].pool = P[r]
  BY <1>11 DEF Ranking
<1> QED
  BY <1>4, <1>10, <1>11, <1>12

Pooled(view, rs) == UNION {view[r].pool : r \in rs}
GapOf(T, B, x, y) ==
    IF {} \in {T, B} THEN None
    ELSE Round(x * Cardinality(B) - y * Cardinality(T), Cardinality(T) * Cardinality(B))

LEMMA GapIs ==
    ASSUME NEW view, NEW k, NEW T, NEW B, NEW x, NEW y, NEW X, NEW Y,
           X = Pooled(view, In(view, "top")), Y = Pooled(view, BottomHalf(view))
    PROVE  /\ T = OfType(X, k) /\ B = OfType(Y, k) /\ x = Sum(T) /\ y = Sum(B)
             => Gap(view, k) = GapOf(T, B, x, y)
           /\ T = OfType(X, k)' /\ B = OfType(Y, k)' /\ x = Sum(T)' /\ y = Sum(B)'
             => Gap(view, k)' = GapOf(T, B, x, y)
BY Zenon DEF Gap, Pooled, GapOf

LEMMA GapAlike ==
    ASSUME PracticeOnly, NEW view, \A r \in DOMAIN view : view[r].pool \in SUBSET Public, NEW k
    PROVE  Gap(view, k)' = Gap(view, k)
<1>1. PICK X, Y : X = Pooled(view, In(view, "top")) /\ Y = Pooled(view, BottomHalf(view))
  OBVIOUS
<1>2. X \in SUBSET Public /\ Y \in SUBSET Public
  BY <1>1 DEF In, BottomHalf, Pooled
<1>3. PICK T, B : T = OfType(X, k) /\ B = OfType(Y, k)
  OBVIOUS
<1>4. T = OfType(X, k)' /\ B = OfType(Y, k)' /\ T \in SUBSET Public /\ B \in SUBSET Public
  BY <1>2, <1>3, TypesAlike
<1>5. PICK x, y : x = Sum(T) /\ y = Sum(B)
  OBVIOUS
<1>6. x = Sum(T)' /\ y = Sum(B)'
  BY <1>4, <1>5, MeanAlike
<1>7. Gap(view, k) = GapOf(T, B, x, y)
  BY <1>1, <1>3, <1>5, GapIs
<1>8. Gap(view, k)' = GapOf(T, B, x, y)
  BY <1>1, <1>4, <1>6, GapIs
<1> QED
  BY <1>7, <1>8

LEMMA DashboardAlike ==
    ASSUME PracticeOnly, NEW t, NEW m
    PROVE  Dashboard(t, m)' = Dashboard(t, m)
<1>1. PICK s : s = ManagerScope(t)
  OBVIOUS
<1>2. PICK view, before : view = Tiers(s, m) /\ before = Tiers(s, m - 1)
  OBVIOUS
<1>3. /\ view = Tiers(s, m)' /\ before = Tiers(s, m - 1)'
      /\ \A r \in DOMAIN view : view[r].pool \in SUBSET Public
  BY <1>2, TiersAlike
<1>4. PICK avg, del : avg = TeamAverage(view) /\ del = Less(TeamAverage(view), TeamAverage(before))
  OBVIOUS
<1>5. Dashboard(t, m) =
        [average |-> avg, delta |-> del, rated |-> Cardinality(DOMAIN view),
         suppressed |-> Cardinality(DOMAIN view) < TIERING_MINIMUM,
         top |-> Cardinality(In(view, "top")),
         coaching |-> Cardinality(In(view, "needs_coaching")),
         gaps |-> [k \in Types |-> <<Gap(view, k), Severity(Gap(view, k))>>]]
  BY <1>1, <1>2, <1>4, Zenon DEF Dashboard
<1>6. Dashboard(t, m)' =
        [average |-> avg, delta |-> del, rated |-> Cardinality(DOMAIN view),
         suppressed |-> Cardinality(DOMAIN view) < TIERING_MINIMUM,
         top |-> Cardinality(In(view, "top")),
         coaching |-> Cardinality(In(view, "needs_coaching")),
         gaps |-> [k \in Types |-> <<Gap(view, k)', Severity(Gap(view, k)')>>]]
  BY <1>1, <1>3, <1>4, Zenon DEF Dashboard
<1>7. \A k \in Types : Gap(view, k)' = Gap(view, k)
  BY <1>3, GapAlike
<1>8. [k \in Types |-> <<Gap(view, k)', Severity(Gap(view, k)')>>]
        = [k \in Types |-> <<Gap(view, k), Severity(Gap(view, k))>>]
  BY <1>7
<1> QED
  BY <1>5, <1>6, <1>8, Zenon

LEMMA RosterAlike ==
    ASSUME PracticeOnly, NEW t, NEW m
    PROVE  Roster(t, m)' = Roster(t, m)
<1>1. PICK s, view : s = ManagerScope(t) /\ view = Tiers(s, m)
  OBVIOUS
<1>2. view = Tiers(s, m)'
  BY <1>1, TiersAlike
<1>3. PICK crew : crew = OnRoster(t)
  OBVIOUS
<1>4. crew = OnRoster(t)' /\ crew \subseteq team.reps
  BY <1>3 DEF OnRoster, PracticeOnly
<1>5. \A r \in crew : Standing(s, r, m)' = Standing(s, r, m)
  BY <1>4, StandingAlike
<1>6. PICK F, G : F = [r \in crew |-> Standing(s, r, m)] /\ G = [r \in crew |-> Standing(s, r, m)']
  OBVIOUS
<1>7. F = G
  BY <1>5, <1>6
<1>8. Roster(t, m) = [r \in crew |->
          [tier |-> IF r \in DOMAIN view THEN view[r].tier ELSE "none",
           rating |-> IF r \in DOMAIN view THEN view[r].rating ELSE None,
           counted |-> IF r \in DOMAIN view THEN Cardinality(view[r].pool) ELSE 0,
           strongest |-> Strongest(Standing(s, r, m).types),
           weakest |-> Weakest(Standing(s, r, m).types)]]
  BY <1>1, <1>3, Zenon DEF Roster
<1>9. Roster(t, m)' = [r \in crew |->
          [tier |-> IF r \in DOMAIN view THEN view[r].tier ELSE "none",
           rating |-> IF r \in DOMAIN view THEN view[r].rating ELSE None,
           counted |-> IF r \in DOMAIN view THEN Cardinality(view[r].pool) ELSE 0,
           strongest |-> Strongest(Standing(s, r, m)'.types),
           weakest |-> Weakest(Standing(s, r, m)'.types)]]
  BY <1>1, <1>2, <1>4, Zenon DEF Roster
<1> QED
  BY <1>5, <1>8, <1>9

LEMMA CohortsAlike ==
    ASSUME PracticeOnly, NEW t, NEW m
    PROVE  Cohorts(t, m)' = Cohorts(t, m)
<1>1. PICK s, view : s = ManagerScope(t) /\ view = Tiers(s, m)
  OBVIOUS
<1>2. view = Tiers(s, m)'
  BY <1>1, TiersAlike
<1>3. PICK active : active = {r \in OnRoster(t) : rep[r].status = "active"}
  OBVIOUS
<1>4. active = {r \in OnRoster(t)' : rep'[r].status = "active"}
  BY <1>3 DEF OnRoster, PracticeOnly
<1>5. PICK c : c =
        [bottom_half |-> BottomHalf(view) \cap active,
         rating_below_6 |-> {r \in DOMAIN view \cap active : view[r].rating < 60},
         fewer_than_5_attempts |->
             {r \in active : r \in DOMAIN view => Cardinality(view[r].pool) < 5},
         newest_joiners |-> {r \in active : Cardinality({q \in active : q > r}) < 5}]
  OBVIOUS
<1>6. Cohorts(t, m) = c
  BY <1>1, <1>3, <1>5, Zenon DEF Cohorts
<1>7. Cohorts(t, m)' = c
  BY <1>1, <1>2, <1>4, <1>5, Zenon DEF Cohorts
<1> QED
  BY <1>6, <1>7

LEMMA ReadableAlike ==
    ASSUME PracticeOnly, NEW t, NEW d, ~Private(d)
    PROVE  Readable(t, d) \in SUBSET Public /\ Readable(t, d)' = Readable(t, d)
<1>1. PICK s : s = ManagerScope(t)
  OBVIOUS
<1>2. \A i : i \in Readable(t, d) <=>
        /\ i \in Public /\ attempts[i].status = "graded" /\ attempts[i].drill = d
        /\ ReadsAttempt(s, attempts[i])
  BY <1>1 DEF Readable, Public, Graded
<1>3. \A i : i \in Readable(t, d)' <=>
        /\ i \in Public' /\ attempts'[i].status = "graded" /\ attempts'[i].drill = d
        /\ ReadsAttempt(s, attempts'[i])
  BY <1>1 DEF Readable, Public, Graded, ReadsAttempt, ManagerScope, Private, Manager
<1>4. Public' = Public /\ \A i \in Public : attempts'[i] = attempts[i]
  BY DEF PracticeOnly
<1>5. \A i : i \in Readable(t, d)' <=> i \in Readable(t, d)
  BY <1>2, <1>3, <1>4
<1> QED
  BY <1>2, <1>5

LEMMA TakenAlike ==
    ASSUME PracticeOnly, NEW s, NEW r, NEW d, ~Private(d)
    PROVE  Taken(s, r, d) \in SUBSET Public /\ Taken(s, r, d)' = Taken(s, r, d)
<1>2. \A i : i \in Taken(s, r, d) <=>
        /\ i \in Public /\ attempts[i].status = "graded" /\ attempts[i].drill = d
        /\ attempts[i].rep = r /\ ReadsAttempt(s, attempts[i])
  BY DEF Taken, Public, Graded
<1>3. \A i : i \in Taken(s, r, d)' <=>
        /\ i \in Public' /\ attempts'[i].status = "graded" /\ attempts'[i].drill = d
        /\ attempts'[i].rep = r /\ ReadsAttempt(s, attempts'[i])
  BY DEF Taken, Public, Graded, ReadsAttempt, Private
<1>4. Public' = Public /\ \A i \in Public : attempts'[i] = attempts[i]
  BY DEF PracticeOnly
<1>5. \A i : i \in Taken(s, r, d)' <=> i \in Taken(s, r, d)
  BY <1>2, <1>3, <1>4
<1> QED
  BY <1>2, <1>5

LEMMA BestAlike ==
    ASSUME PracticeOnly, NEW S \in SUBSET Public
    PROVE  Best(S)' = Best(S)
<1>1. {attempts'[i].score : i \in S} = {attempts[i].score : i \in S}
  BY DEF PracticeOnly
<1>2. PICK X : X = {attempts[i].score : i \in S}
  OBVIOUS
<1>3. Best(S) = Max(X) /\ Best(S)' = Max(X)
  BY <1>1, <1>2 DEF Best, Max
<1> QED
  BY <1>3

LEMMA CatalogAlike ==
    ASSUME PracticeOnly, NEW t, NEW d, ~Private(d)
    PROVE  CatalogRow(t, d)' = CatalogRow(t, d)
<1>1. PICK E : E = Readable(t, d)
  OBVIOUS
<1>2. E \in SUBSET Public /\ E = Readable(t, d)'
  BY <1>1, ReadableAlike
<1>3. Mean(E)' = Mean(E)
  BY <1>2, MeanAlike
<1>4. CatalogRow(t, d) = [average |-> Mean(E), total |-> Cardinality(E)]
  BY <1>1 DEF CatalogRow
<1>5. CatalogRow(t, d)' = [average |-> Mean(E)', total |-> Cardinality(E)]
  BY <1>2, Zenon DEF CatalogRow
<1> QED
  BY <1>3, <1>4, <1>5

LEMMA RollupAlike ==
    ASSUME PracticeOnly, NEW t, NEW d, ~Private(d)
    PROVE  Rollup(t, d)' = Rollup(t, d)
<1>1. PICK E : E = Readable(t, d)
  OBVIOUS
<1>2. E \in SUBSET Public /\ E = Readable(t, d)'
  BY <1>1, ReadableAlike
<1>3. Mean(E)' = Mean(E)
  BY <1>2, MeanAlike
<1>4. PICK X, Y : /\ X = {attempts[i].rep : i \in E}
                  /\ Y = {r \in OnRoster(t) : rep[r].status = "active"}
  OBVIOUS
<1>5. /\ X = {attempts'[i].rep : i \in E}
      /\ Y = {r \in OnRoster(t)' : rep'[r].status = "active"}
  BY <1>2, <1>4 DEF PracticeOnly, OnRoster
<1>6. Rollup(t, d) = [average |-> Mean(E), practiced |-> Cardinality(X),
                      eligible |-> Cardinality(Y), total |-> Cardinality(E)]
  BY <1>1, <1>4, Zenon DEF Rollup
<1>7. Rollup(t, d)' = [average |-> Mean(E)', practiced |-> Cardinality(X),
                       eligible |-> Cardinality(Y), total |-> Cardinality(E)]
  BY <1>2, <1>5, Zenon DEF Rollup
<1> QED
  BY <1>3, <1>6, <1>7

LEMMA LeaderboardAlike ==
    ASSUME PracticeOnly, NEW t, NEW d, ~Private(d)
    PROVE  Leaderboard(t, d)' = Leaderboard(t, d)
<1>1. PICK s : s = ManagerScope(t)
  OBVIOUS
<1>2. PICK those : those = {r \in team.reps : rep[r].team = t /\ Taken(s, r, d) # {}}
  OBVIOUS
<1>3. \A r : Taken(s, r, d) \in SUBSET Public /\ Taken(s, r, d)' = Taken(s, r, d)
  BY TakenAlike
<1>4. those = {r \in team'.reps : rep'[r].team = t /\ Taken(s, r, d)' # {}}
  BY <1>2, <1>3 DEF PracticeOnly
<1>5. \A r : Best(Taken(s, r, d))' = Best(Taken(s, r, d))
  <2> SUFFICES ASSUME NEW r  PROVE Best(Taken(s, r, d))' = Best(Taken(s, r, d))
    OBVIOUS
  <2>1. PICK S : S = Taken(s, r, d)
    OBVIOUS
  <2>2. S \in SUBSET Public /\ S = Taken(s, r, d)'
    BY <1>3, <2>1
  <2>3. Best(S)' = Best(S)
    BY <2>2, BestAlike
  <2> QED
    BY <2>1, <2>2, <2>3
<1>6. Leaderboard(t, d) =
        [r \in those |-> [best |-> Best(Taken(s, r, d)), latest |-> Max(Taken(s, r, d)),
                          graded |-> Cardinality(Taken(s, r, d))]]
  BY <1>1, <1>2, Zenon DEF Leaderboard
<1>7. Leaderboard(t, d)' =
        [r \in those |-> [best |-> Best(Taken(s, r, d))', latest |-> Max(Taken(s, r, d)'),
                          graded |-> Cardinality(Taken(s, r, d)')]]
  BY <1>1, <1>4, Zenon DEF Leaderboard, Max
<1> QED
  BY <1>3, <1>5, <1>6, <1>7

LEMMA StatsAlike ==
    ASSUME PracticeOnly, NEW t, NEW d, ~Private(d)
    PROVE  TeamDrillStats(t, d)' = TeamDrillStats(t, d)
<1>1. Rollup(t, d)' = Rollup(t, d) /\ Leaderboard(t, d)' = Leaderboard(t, d)
  BY RollupAlike, LeaderboardAlike
<1>2. Status(d)' = Status(d) /\ Home(d)' = Home(d)
  BY DEF Status, Home, PracticeOnly
<1> QED
  BY <1>1, <1>2 DEF TeamDrillStats, Private, Home

LEMMA RepAlike ==
    ASSUME PracticeOnly, NEW r \in team.reps
    PROVE  ProgressHome(r)' = ProgressHome(r) /\ Profile(r).lifetime' = Profile(r).lifetime
<1>1. PICK s, m : s = RepScope(r) /\ m = month
  OBVIOUS
<1>2. s = RepScope(r)' /\ m = month'
  BY <1>1 DEF RepScope, PracticeOnly
<1>3. Standing(s, r, m)' = Standing(s, r, m)
  BY StandingAlike
<1>4. ProgressHome(r) = Standing(s, r, m) /\ ProgressHome(r)' = Standing(s, r, m)'
  BY <1>1, <1>2 DEF ProgressHome
<1>5. PICK C : C = Counted(s)
  OBVIOUS
<1>6. C \in SUBSET Public /\ C = Counted(s)'
  BY <1>5, CountedAlike
<1>7. Mean(C)' = Mean(C)
  BY <1>6, MeanAlike
<1>8. Profile(r).lifetime = Mean(C)
  BY <1>1, <1>5 DEF Profile
<1>9. Profile(r).lifetime' = Mean(C)'
  BY <1>2, <1>6 DEF Profile
<1> QED
  BY <1>3, <1>4, <1>7, <1>8, <1>9

LEMMA ShownAlike == ASSUME PracticeOnly PROVE Shown' = Shown
<1>1. \A r \in team.reps :
        ProgressHome(r)' = ProgressHome(r) /\ Profile(r).lifetime' = Profile(r).lifetime
  BY RepAlike
<1>2. \A t \in Managers :
        <<Dashboard(t, month), Roster(t, month), Cohorts(t, month)>>'
          = <<Dashboard(t, month), Roster(t, month), Cohorts(t, month)>>
  <2> SUFFICES ASSUME NEW t \in Managers
               PROVE  /\ Dashboard(t, month)' = Dashboard(t, month)
                      /\ Roster(t, month)' = Roster(t, month)
                      /\ Cohorts(t, month)' = Cohorts(t, month)
    OBVIOUS
  <2>1. PICK m : m = month
    OBVIOUS
  <2>2. m = month'
    BY <2>1 DEF PracticeOnly
  <2>3. /\ Dashboard(t, m)' = Dashboard(t, m) /\ Roster(t, m)' = Roster(t, m)
        /\ Cohorts(t, m)' = Cohorts(t, m)
    BY DashboardAlike, RosterAlike, CohortsAlike
  <2> QED
    BY <2>1, <2>2, <2>3
<1>3. \A d \in Drills : /\ CatalogRow("ours", d)' = CatalogRow("ours", d)
                        /\ TeamDrillStats("ours", d)' = TeamDrillStats("ours", d)
  <2>1. \A d \in Drills : ~Private(d)
    BY TrainingAssumption DEF Private
  <2> QED
    BY <2>1, CatalogAlike, StatsAlike
<1>4. team'.reps = team.reps
  BY DEF PracticeOnly
<1>5. /\ [r \in team.reps |-> ProgressHome(r)]' = [r \in team.reps |-> ProgressHome(r)]
      /\ [r \in team.reps |-> Profile(r).lifetime]' = [r \in team.reps |-> Profile(r).lifetime]
  BY <1>1, <1>4
<1>6. [t \in Managers |-> <<Dashboard(t, month), Roster(t, month), Cohorts(t, month)>>]'
        = [t \in Managers |-> <<Dashboard(t, month), Roster(t, month), Cohorts(t, month)>>]
  BY <1>2 DEF Managers
<1>7. [d \in Drills |-> <<CatalogRow("ours", d), TeamDrillStats("ours", d)>>]'
        = [d \in Drills |-> <<CatalogRow("ours", d), TeamDrillStats("ours", d)>>]
  BY <1>3
<1> QED
  BY <1>5, <1>6, <1>7, Zenon DEF Shown

(* A step that changes no attempt but of private practice changes no       *)
(* rating, tier, average, count or leaderboard, whatever reps, drills and  *)
(* histories there are (FR-TRP-010, v01_counted_pool.sql).                 *)
THEOREM PracticeIsPrivate == Spec => PracticeCountsNowhere
<1>1. Init => Practised
  BY PractisedInit
<1>2. Practised /\ [Next]_vars => Practised'
  BY PractisedStep
<1>3. Practised /\ [Next]_vars =>
        (/\ attempts' # attempts
         /\ UNCHANGED <<drill, rep, month>>
         /\ \A i \in DOMAIN attempts' : \/ Private(attempts'[i].drill)
                                         \/ (i \in DOMAIN attempts /\ attempts'[i] = attempts[i])
         => Shown' = Shown)
  BY PracticeOnlyStep, ShownAlike
<1> QED
  BY <1>1, <1>2, <1>3, PTL DEF Spec, PracticeCountsNowhere
=============================================================================
