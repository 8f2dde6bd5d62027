----------------------------- MODULE Authoring -----------------------------
(***************************************************************************)
(* What a team's manager writes: product documents, whose facts go live    *)
(* through a review, and drills, generated by workers from a snapshot of   *)
(* those facts and frozen when they are published.                         *)
(*                                                                         *)
(* A transaction that reads, waits and then writes is two steps, with the  *)
(* locks of Postgres held in between; a transaction whose reads are all    *)
(* made under the lock it writes under is one.                             *)
(***************************************************************************)
EXTENDS Naturals, FiniteSets

CONSTANTS
    Documents, Drills,
    Requests,        \* transactions of managers that overlap
    None,
    DocumentCap,
    Teams,           \* what a team is set up with, see Team
    MaxVersion,      \* bound: publications of a document
    MaxDrafts,       \* bound: drafts of a document
    MaxUploads,      \* bound: uploads to a document
    MaxInputs,       \* bound: changes of a drill's inputs
    Deaths           \* bound: jobs whose worker dies

ASSUME AuthoringAssumption ==
    /\ None \notin Documents \cup Drills
    /\ {DocumentCap, MaxVersion, MaxDrafts, MaxUploads, MaxInputs, Deaths} \subseteq Nat

VARIABLES
    team,      \* the set-up this behaviour starts from
    document,  \* product_document with its fact sets; None before it is created
    uploads,   \* document_upload rows of each document, by their order
    review,    \* the review a manager looks at
    drill,     \* drill rows, with their rubric
    jobs,      \* generation jobs
    deaths,    \* workers that died
    txn,       \* what each open transaction of a manager has read
    locks      \* the rows, and advisory keys, it holds

knowledge == <<document, uploads, review>>
generation == <<drill, jobs, deaths>>

----------------------------------------------------------------------------
(* Locks and transactions. *)

Idle == [op |-> "idle"]
Team == <<"team", None>>  \* the advisory lock of the team
Free(names) == \A r \in Requests : locks[r] \cap names = {}

Begin(r, names, record) ==
    /\ txn[r] = Idle
    /\ Cardinality({q \in Requests : txn[q] # Idle}) < team.requests
    /\ Free(names)
    /\ locks' = [locks EXCEPT ![r] = names]
    /\ txn' = [txn EXCEPT ![r] = record]

End(r) ==
    /\ txn' = [txn EXCEPT ![r] = Idle]
    /\ locks' = [locks EXCEPT ![r] = {}]

(* The request is cancelled, or refused after its reads: all is undone.    *)
Rollback(r) == /\ txn[r] # Idle
               /\ End(r)
               /\ UNCHANGED <<team, knowledge, generation>>

----------------------------------------------------------------------------
(* Documents.  A draft is named by its number: each replacement is a new   *)
(* fact_set row.  from is the upload it was extracted from, 0 if written.  *)

Created == {d \in Documents : document[d] # None}
NewDocument == [version |-> 0, live |-> 0, draft |-> None, drafts |-> 0]
Draft(d, source) == [number |-> document[d].drafts + 1, based |-> document[d].version,
                     from |-> source]

CreateDocument(d) ==
    /\ d \in team.documents \ Created
    /\ Free({Team})
    /\ Cardinality(Created) < DocumentCap
    /\ document' = [document EXCEPT ![d] = NewDocument]
    /\ UNCHANGED <<team, uploads, review, generation, txn, locks>>

(* The draft there was is deleted, whoever wrote it.                       *)
PutDraft(d, source) ==
    /\ document[d].drafts < MaxDrafts
    /\ document' = [document EXCEPT ![d].draft = Draft(d, source),
                                    ![d].drafts = @ + 1]

ReplaceManualDraft(d) ==
    /\ d \in Created
    /\ Free({d})
    /\ PutDraft(d, 0)
    /\ UNCHANGED <<team, uploads, review, generation, txn, locks>>

(* The object is stored before; only this makes the upload exist.          *)
BeginUpload(d) ==
    /\ d \in Created
    /\ Free({d})
    /\ \E u \in 1..MaxUploads :
         /\ uploads[d][u] = "none" /\ \A w \in 1..(u - 1) : uploads[d][w] # "none"
         /\ uploads' = [uploads EXCEPT ![d][u] = "received"]
    /\ document' = [document EXCEPT ![d].draft = None]
    /\ UNCHANGED <<team, review, generation, txn, locks>>

LatestUpload(d, u) == \A w \in 1..MaxUploads : w > u => uploads[d][w] = "none"

(* The worker's transaction claims the row, which nobody sees before it    *)
(* commits, calls the provider and asks whether its upload is the latest:  *)
(* all before it locks the document.  "checked" is that point.             *)
CheckLatest(d, u) ==
    /\ uploads[d][u] = "received"
    /\ uploads' = [uploads EXCEPT ![d][u] =
                      IF LatestUpload(d, u) THEN "checked" ELSE "extracted"]
    /\ UNCHANGED <<team, document, review, generation, txn, locks>>

ApplyExtractedFacts(d, u) ==
    /\ uploads[d][u] = "checked"
    /\ Free({d})
    /\ PutDraft(d, u)
    /\ uploads' = [uploads EXCEPT ![d][u] = "extracted"]
    /\ UNCHANGED <<team, review, generation, txn, locks>>

(* The transaction fails, with it the claim, and the job is tried again.   *)
RetryExtraction(d, u) ==
    /\ uploads[d][u] = "checked"
    /\ uploads' = [uploads EXCEPT ![d][u] = "received"]
    /\ UNCHANGED <<team, document, review, generation, txn, locks>>

(* Retries are exhausted, or the provider found no facts.                  *)
MarkExtractionFailed(d, u) ==
    /\ uploads[d][u] \in {"received", "checked"}
    /\ uploads' = [uploads EXCEPT ![d][u] = "failed"]
    /\ UNCHANGED <<team, document, review, generation, txn, locks>>

(* The diff in front of a manager: no lock outlives it.                    *)
GetReview(d) ==
    /\ d \in Created /\ document[d].draft # None
    /\ review' = [document |-> d, version |-> document[d].version,
                  draft |-> document[d].draft.number]
    /\ UNCHANGED <<team, document, uploads, generation, txn, locks>>

(* The live set is deleted, the draft becomes it.                          *)
Promoted(d) == [document[d] EXCEPT !.version = @ + 1, !.live = document[d].draft.number,
                                   !.draft = None]

(* publish_facts: the request carries the version of its review and        *)
(* nothing else of it.                                                     *)
PublishFacts ==
    /\ review # None
    /\ LET d == review.document IN
         /\ Free({Team, d})
         /\ document[d].draft # None
         /\ document[d].version = review.version
         /\ document[d].version < MaxVersion
         /\ document' = [document EXCEPT ![d] = Promoted(d)]
    /\ review' = None
    /\ UNCHANGED <<team, uploads, generation, txn, locks>>

----------------------------------------------------------------------------
(* Drills.  A scenario is named by the inputs and the grounding it was     *)
(* written from, a rubric by its scenario.                                 *)

Live == {d \in Created : document[d].version > 0}
Vector == [d \in Live |-> document[d].version]

NewDrill == [status |-> "draft", inputs |-> 0, grounding |-> None, scenario |-> None,
             scenarioState |-> "none", rubric |-> None, weights |-> "none",
             rubricState |-> "none", request |-> 0, requests |-> 0, key |-> None]

(* A drill published before the behaviour starts, from no document.        *)
Given == LET scenario == [inputs |-> 0, grounding |-> <<>>] IN
    [NewDrill EXCEPT !.status = "published", !.scenario = scenario, !.rubric = scenario,
                     !.scenarioState = "succeeded", !.rubricState = "succeeded",
                     !.weights = "balanced", !.key = <<>>]

IsDraft(d) == drill[d] # None /\ drill[d].status = "draft"
Running(d) == "running" \in {drill[d].scenarioState, drill[d].rubricState}

CreateDrill(d) ==
    /\ d \in team.drills /\ drill[d] = None
    /\ drill' = [drill EXCEPT ![d] = NewDrill]
    /\ UNCHANGED <<team, knowledge, jobs, deaths, txn, locks>>

(* Both generations are called off: their results find no request.         *)
ReplaceInputs(d) ==
    /\ IsDraft(d)
    /\ Free({d})
    /\ drill[d].inputs < MaxInputs
    /\ drill' = [drill EXCEPT ![d] =
          [NewDrill EXCEPT !.inputs = drill[d].inputs + 1, !.requests = drill[d].requests]]
    /\ UNCHANGED <<team, knowledge, jobs, deaths, txn, locks>>

Job(kind, d) == [kind |-> kind, drill |-> d, request |-> drill[d].requests + 1,
                 basis |-> None]

(* What a new scenario request leaves of the drill it is for.              *)
ForScenario(d) ==
    [NewDrill EXCEPT !.inputs = drill[d].inputs, !.grounding = Vector,
                     !.scenarioState = "running",
                     !.request = drill[d].requests + 1, !.requests = drill[d].requests + 1]

RequestScenario(d) ==
    /\ IsDraft(d)
    /\ Free({Team, d})
    /\ ~Running(d)
    /\ drill[d].requests < team.generations
    /\ drill' = [drill EXCEPT ![d] = ForScenario(d)]
    /\ jobs' = jobs \cup {Job("scenario", d)}
    /\ UNCHANGED <<team, knowledge, deaths, txn, locks>>

RequestRubric(d) ==
    /\ IsDraft(d)
    /\ Free({d})
    /\ ~Running(d)
    /\ drill[d].scenario # None /\ drill[d].grounding # None
    /\ drill[d].requests < team.generations
    /\ drill' = [drill EXCEPT ![d].rubricState = "running", ![d].rubric = None,
                              ![d].weights = "none", ![d].request = drill[d].requests + 1,
                              ![d].requests = @ + 1]
    /\ jobs' = jobs \cup {Job("rubric", d)}
    /\ UNCHANGED <<team, knowledge, deaths, txn, locks>>

(* Mutant: a result is for whatever generation runs.                       *)
Matches_AnyRequest(j) ==
    "running" = IF j.kind = "scenario" THEN drill[j.drill].scenarioState
                ELSE drill[j.drill].rubricState

(* At most one of the two generations of a drill runs, so one request      *)
(* stands for the two columns.                                             *)
Matches(j) ==
    /\ drill[j.drill].request = j.request
    /\ "running" = IF j.kind = "scenario" THEN drill[j.drill].scenarioState
                   ELSE drill[j.drill].rubricState

(* A job whose request was called off reads nothing and ends.              *)
GenerationBasis(j) ==
    /\ j.basis = None
    /\ jobs' = (jobs \ {j}) \cup
          (IF Matches(j)
           THEN {[j EXCEPT !.basis = IF j.kind = "rubric" THEN drill[j.drill].scenario
                    ELSE [inputs |-> drill[j.drill].inputs,
                          grounding |-> drill[j.drill].grounding]]}
           ELSE {})
    /\ UNCHANGED <<team, knowledge, drill, deaths, txn, locks>>

ApplyScenario(j) ==
    /\ j.kind = "scenario" /\ j.basis # None
    /\ Free({j.drill})
    /\ drill' = IF IsDraft(j.drill) /\ Matches(j)
                THEN [drill EXCEPT ![j.drill].scenario = j.basis,
                                   ![j.drill].scenarioState = "succeeded",
                                   ![j.drill].request = 0]
                ELSE drill
    /\ jobs' = jobs \ {j}
    /\ UNCHANGED <<team, knowledge, deaths, txn, locks>>

(* The provider's weights need not sum to 100.                             *)
ApplyRubric(j) ==
    /\ j.kind = "rubric" /\ j.basis # None
    /\ Free({j.drill})
    /\ \E weights \in {"balanced", "unbalanced"} :
         drill' = IF IsDraft(j.drill) /\ Matches(j)
                  THEN [drill EXCEPT ![j.drill].rubric = j.basis,
                                     ![j.drill].rubricState = "succeeded",
                                     ![j.drill].weights = weights,
                                     ![j.drill].request = 0]
                  ELSE drill
    /\ jobs' = jobs \ {j}
    /\ UNCHANGED <<team, knowledge, deaths, txn, locks>>

(* Retries are exhausted. *)
MarkGenerationFailed(j) ==
    /\ Free({j.drill})
    /\ drill' = IF ~Matches(j) THEN drill
                ELSE IF j.kind = "scenario"
                THEN [drill EXCEPT ![j.drill].scenarioState = "failed", ![j.drill].request = 0]
                ELSE [drill EXCEPT ![j.drill].rubricState = "failed", ![j.drill].request = 0]
    /\ jobs' = jobs \ {j}
    /\ UNCHANGED <<team, knowledge, deaths, txn, locks>>

(* Nothing takes up the row of a worker that died: the request stays       *)
(* running until the inputs are replaced.                                  *)
GenerationDies(j) ==
    /\ deaths < Deaths
    /\ jobs' = jobs \ {j}
    /\ deaths' = deaths + 1
    /\ UNCHANGED <<team, knowledge, drill, txn, locks>>

(* Weights are set one by one: the sum may be anything meanwhile.          *)
TuneWeights(d) ==
    /\ IsDraft(d) /\ drill[d].weights # "none"
    /\ Free({d})
    /\ \E weights \in {"balanced", "unbalanced"} \ {drill[d].weights} :
         drill' = [drill EXCEPT ![d].weights = weights]
    /\ UNCHANGED <<team, knowledge, jobs, deaths, txn, locks>>

DeleteDimension(d) ==
    /\ IsDraft(d) /\ drill[d].weights # "none"
    /\ Free({d})
    /\ \E weights \in {"balanced", "unbalanced", "none"} :
         drill' = [drill EXCEPT ![d].weights = weights,
                                ![d].rubric = IF weights = "none" THEN None ELSE @]
    /\ UNCHANGED <<team, knowledge, jobs, deaths, txn, locks>>

(* Mutant: the rows are locked and the team is not.                        *)
PublishLocks_RowsOnly(d) == {d} \cup Live

(* publish_drill: the locks, then the checks.  The documents that are live *)
(* are share-locked too, which says nothing of one that goes live next.    *)
PublishLocks(d) == {Team, d} \cup Live

BeginPublish(r, d) ==
    /\ IsDraft(d)
    /\ drill[d].weights = "balanced"
    /\ drill[d].scenarioState = "succeeded" /\ drill[d].rubricState = "succeeded"
    /\ drill[d].scenario # None /\ drill[d].grounding = Vector
    /\ Begin(r, PublishLocks(d), [op |-> "publish", drill |-> d])
    /\ UNCHANGED <<team, knowledge, generation>>

CommitPublish(r) ==
    /\ txn[r].op = "publish"
    /\ drill' = [drill EXCEPT ![txn[r].drill].status = "published",
                              ![txn[r].drill].key = drill[txn[r].drill].grounding,
                              ![txn[r].drill].grounding = None]
    /\ End(r)
    /\ UNCHANGED <<team, knowledge, jobs, deaths>>

----------------------------------------------------------------------------
AuthoringInit ==
    /\ team \in Teams
    /\ document = [d \in Documents |-> None]
    /\ uploads = [d \in Documents |-> [u \in 1..MaxUploads |-> "none"]]
    /\ review = None
    /\ drill = [d \in Drills |-> IF d \in team.given THEN Given ELSE None]
    /\ jobs = {} /\ deaths = 0
    /\ txn = [r \in Requests |-> Idle] /\ locks = [r \in Requests |-> {}]

KnowledgeStep ==
    \/ PublishFacts
    \/ \E d \in Documents :
         \/ CreateDocument(d) \/ ReplaceManualDraft(d) \/ BeginUpload(d) \/ GetReview(d)
         \/ \E u \in 1..MaxUploads : \/ CheckLatest(d, u) \/ ApplyExtractedFacts(d, u)
                                     \/ RetryExtraction(d, u) \/ MarkExtractionFailed(d, u)

JobStep ==
    \E j \in jobs : \/ GenerationBasis(j) \/ ApplyScenario(j) \/ ApplyRubric(j)
                    \/ MarkGenerationFailed(j) \/ GenerationDies(j)

DrillStep ==
    \/ \E d \in Drills : \/ CreateDrill(d) \/ ReplaceInputs(d) \/ RequestScenario(d)
                         \/ RequestRubric(d) \/ TuneWeights(d) \/ DeleteDimension(d)
    \/ \E r \in Requests : CommitPublish(r) \/ \E d \in Drills : BeginPublish(r, d)

AuthoringStep == KnowledgeStep \/ JobStep \/ DrillStep
=============================================================================
