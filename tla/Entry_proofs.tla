---------------------------- MODULE Entry_proofs ----------------------------
(* Theorems about the ways in, for any number of callers, workers, attempts *)
(* and exports.                                                            *)
EXTENDS Entry, Sequences, FiniteSetTheorems, WellFoundedInduction, TLAPS

-----------------------------------------------------------------------------
(* The circuit. *)

Calling(p) == call[p].at = "calling"

(* Types of the circuit and of the calls. *)
CircuitType ==
    /\ circuit \in [failures : Nat, since : {Closed} \cup 0..RecoveryTicks, probe : BOOLEAN]
    /\ call \in [Callers -> [at : {"idle", "ready", "calling"}, attempts : Nat, age : Nat,
                             probe : BOOLEAN]]

(* Why a probe is alone: a call that is under way began before the circuit *)
(* was opened, and is older than that; and no call lasts until the probe.  *)
CircuitInv ==
    /\ \A p \in Callers : Calling(p) => call[p].age <= CallTicks
    /\ ~CircuitOpen => ~circuit.probe
    /\ (CircuitOpen /\ ~circuit.probe) =>
          \A p \in Callers : Calling(p) => circuit.since <= call[p].age
    /\ circuit.probe => /\ Recovered
                        /\ \E p \in Callers : /\ Calling(p) /\ call[p].probe
                                              /\ \A q \in Callers : Calling(q) => q = p

LEMMA LimitNumbers ==
    /\ Threshold \in Nat \ {0} /\ CallTicks \in Nat \ {0} /\ RecoveryTicks \in Nat
    /\ CallTicks < RecoveryTicks
  BY LimitsAssumption

LEMMA CircuitTypeHolds == EntrySpec => []CircuitType
<1>1. EntryInit => CircuitType
  BY LimitNumbers DEF EntryInit, LimitsInit, CircuitType, NoCall, Closed
<1>2. CircuitType /\ [EntryNext]_entryVars => CircuitType'
  <2> SUFFICES ASSUME CircuitType, [EntryNext]_entryVars PROVE CircuitType'
    OBVIOUS
  <2>1. CASE UNCHANGED circuitVars
    BY <2>1 DEF CircuitType, circuitVars
  <2>2. CASE CircuitStep
    <3>1. ASSUME NEW p \in Callers, Start(p) PROVE CircuitType'
      BY <3>1 DEF Start, CircuitType, NoCall
    <3>2. ASSUME NEW p \in Callers, BeforeCall(p) PROVE CircuitType'
      <4>1. CASE CircuitOpen /\ MayProbe
        <5> DEFINE r == [at |-> "calling", attempts |-> call[p].attempts + 1, age |-> 0,
                         probe |-> TRUE]
        <5>1. call[p] \in [at : {"idle", "ready", "calling"}, attempts : Nat, age : Nat,
                           probe : BOOLEAN]
          BY DEF CircuitType
        <5>2. circuit' \in [failures : Nat, since : {Closed} \cup 0..RecoveryTicks,
                            probe : BOOLEAN]
          BY <3>2, <4>1 DEF BeforeCall, CircuitType
        <5>3. call' \in [Callers -> [at : {"idle", "ready", "calling"}, attempts : Nat,
                                     age : Nat, probe : BOOLEAN]]
          <6>1. call' = [call EXCEPT ![p] = r]
            BY <3>2, <4>1, <5>1 DEF BeforeCall, CircuitType
          <6>2. r \in [at : {"idle", "ready", "calling"}, attempts : Nat, age : Nat,
                       probe : BOOLEAN]
            BY <5>1
          <6> HIDE DEF r
          <6> QED BY <6>1, <6>2 DEF CircuitType
        <5> QED BY <5>2, <5>3 DEF CircuitType
      <4>3. CASE CircuitOpen /\ ~MayProbe
        <5>1. call' = [call EXCEPT ![p] = NoCall] /\ UNCHANGED circuit
          BY <3>2, <4>3 DEF BeforeCall
        <5> QED BY <5>1 DEF CircuitType, NoCall
      <4>2. CASE ~CircuitOpen
        BY <3>2, <4>2 DEF BeforeCall, CircuitType, NoCall
      <4> QED BY <4>1, <4>2, <4>3
    <3>3. ASSUME NEW p \in Callers, NEW o \in Outcomes, Answer(p, o) PROVE CircuitType'
      <4>1. call' \in [Callers -> [at : {"idle", "ready", "calling"}, attempts : Nat,
                                   age : Nat, probe : BOOLEAN]]
        BY <3>3 DEF Answer, CircuitType, NoCall
      <4>2. circuit' \in [failures : Nat, since : {Closed} \cup 0..RecoveryTicks,
                          probe : BOOLEAN]
        <5>1. CASE o = "value"
          <6>1. Succeeded
            BY <3>3, <5>1 DEF Answer
          <6> QED BY <6>1 DEF Succeeded
        <5>2. CASE o = "failure"
          <6>1. Lower(circuit.failures + 1, Threshold) \in Nat
            BY LimitNumbers DEF CircuitType, Lower
          <6>2. Failed
            BY <3>3, <5>2 DEF Answer
          <6> QED BY <6>1, <6>2, LimitNumbers DEF Failed, CircuitType
        <5>3. CASE o = "rejected"
          BY <3>3, <5>3 DEF Answer, CircuitType
        <5> QED BY <5>1, <5>2, <5>3, LimitsAssumption
      <4> QED BY <4>1, <4>2 DEF CircuitType
    <3>4. CASE CircuitTick
      BY <3>4, LimitNumbers DEF CircuitTick, CircuitType, Closed
    <3> QED BY <2>2, <3>1, <3>2, <3>3, <3>4 DEF CircuitStep
  <2> QED BY <2>1, <2>2 DEF EntryNext, entryVars, limitVars
<1> QED BY <1>1, <1>2, PTL DEF EntrySpec

(* Unless a rejection, which no caller that runs asks for, may leave the    *)
(* probe's flag standing.                                                  *)
LEMMA CircuitInvHolds ==
    ASSUME "rejected" \notin Outcomes PROVE EntrySpec => []CircuitInv
<1>1. EntryInit => CircuitInv
  BY DEF EntryInit, LimitsInit, CircuitInv, NoCall, Closed, Calling, CircuitOpen
<1>2. CircuitType /\ CircuitInv /\ [EntryNext]_entryVars => CircuitInv'
  <2> SUFFICES ASSUME CircuitType, CircuitInv, [EntryNext]_entryVars PROVE CircuitInv'
    OBVIOUS
  <2> USE DEF Calling, CircuitOpen, Recovered
  <2>1. CASE UNCHANGED circuitVars
    BY <2>1 DEF CircuitInv, circuitVars
  <2>2. CASE CircuitStep
    <3>1. ASSUME NEW p \in Callers, Start(p) PROVE CircuitInv'
      BY <3>1 DEF Start, CircuitType, CircuitInv, NoCall
    <3>2. ASSUME NEW p \in Callers, BeforeCall(p) PROVE CircuitInv'
      <4>1. CASE ~CircuitOpen
        BY <3>2, <4>1, LimitNumbers DEF BeforeCall, CircuitType, CircuitInv, Closed
      <4>2. CASE CircuitOpen /\ ~MayProbe
        BY <3>2, <4>2, LimitNumbers DEF BeforeCall, CircuitType, CircuitInv, NoCall
      <4>3. CASE CircuitOpen /\ MayProbe
        <5>1. \A q \in Callers : ~Calling(q)
          BY <4>3, LimitNumbers DEF MayProbe, CircuitInv, CircuitType
        <5>2. /\ Calling(p)' /\ call'[p].probe /\ call'[p].age = 0
              /\ \A q \in Callers : Calling(q)' => q = p
              /\ circuit'.probe /\ circuit'.since = circuit.since
          BY <3>2, <4>3, <5>1 DEF BeforeCall, CircuitType
        <5> QED BY <4>3, <5>2, LimitNumbers DEF CircuitInv, MayProbe
      <4> QED BY <4>1, <4>2, <4>3
    <3>3. ASSUME NEW p \in Callers, NEW o \in Outcomes, Answer(p, o) PROVE CircuitInv'
      <4>1. o \in {"value", "failure"}
        BY LimitsAssumption
      <4>2. /\ \A q \in Callers : Calling(q)' => Calling(q) /\ call'[q].age = call[q].age
            /\ ~circuit'.probe
        <5>1. \A q \in Callers : Calling(q)' => Calling(q) /\ call'[q].age = call[q].age
          BY <3>3 DEF Answer, CircuitType, NoCall
        <5>2. CASE o = "value"
          BY <3>3, <5>1, <5>2 DEF Answer, Succeeded
        <5>3. CASE o = "failure"
          BY <3>3, <5>1, <5>3 DEF Answer, Failed
        <5> QED BY <4>1, <5>2, <5>3
      <4>3. circuit'.since \in {Closed, 0, circuit.since}
        <5>2. CASE o = "value"
          BY <3>3, <5>2 DEF Answer, Succeeded
        <5>3. CASE o = "failure"
          BY <3>3, <5>3 DEF Answer, Failed
        <5> QED BY <4>1, <5>2, <5>3
      <4>4. ASSUME NEW q \in Callers, Calling(q)', circuit'.since # Closed
            PROVE  circuit'.since <= call'[q].age
        <5>1. Calling(p) /\ ~Calling(p)'
          BY <3>3 DEF Answer, CircuitType, NoCall
        <5>2. q # p /\ Calling(q) /\ call'[q].age = call[q].age /\ call[q].age \in Nat
          BY <4>2, <4>4, <5>1 DEF CircuitType
        <5>3. ~circuit.probe
          BY <5>1, <5>2 DEF CircuitInv
        <5>4. circuit.since # Closed => circuit.since <= call[q].age
          BY <5>2, <5>3 DEF CircuitInv
        <5> QED BY <4>3, <4>4, <5>2, <5>4
      <4>5. \A q \in Callers : Calling(q)' => call'[q].age <= CallTicks
        BY <4>2 DEF CircuitInv
      <4> QED BY <4>2, <4>4, <4>5 DEF CircuitInv
    <3>4. CASE CircuitTick
      <4>1. \A q \in Callers :
              /\ Calling(q)' <=> Calling(q)
              /\ call'[q].probe = call[q].probe
              /\ Calling(q) => call[q].age < CallTicks /\ call'[q].age = call[q].age + 1
        BY <3>4 DEF CircuitTick, CircuitType
      <4>2. /\ circuit'.probe = circuit.probe
            /\ circuit'.since = IF circuit.since \in {Closed, RecoveryTicks}
                               THEN circuit.since ELSE circuit.since + 1
        BY <3>4 DEF CircuitTick, CircuitType
      <4>3. circuit.since \in {Closed} \cup 0..RecoveryTicks /\ Closed \notin 0..RecoveryTicks
        BY DEF CircuitType, Closed
      <4>4. \A q \in Callers : call[q].age \in Nat
        BY DEF CircuitType
      <4>5. \A q \in Callers : Calling(q)' => call'[q].age <= CallTicks
        BY <4>1, <4>4, LimitNumbers
      <4>6. (circuit'.since # Closed /\ ~circuit'.probe) =>
              \A q \in Callers : Calling(q)' => circuit'.since <= call'[q].age
        BY <4>1, <4>2, <4>3, <4>4, LimitNumbers DEF CircuitInv, Closed
      <4>7. circuit'.probe => circuit'.since # Closed /\ Recovered'
        BY <4>2, <4>3, LimitNumbers DEF CircuitInv
      <4>8. circuit'.probe => \E q \in Callers :
              /\ Calling(q)' /\ call'[q].probe /\ \A z \in Callers : Calling(z)' => z = q
        BY <4>1, <4>2 DEF CircuitInv
      <4> QED BY <4>5, <4>6, <4>7, <4>8 DEF CircuitInv
    <3> QED BY <2>2, <3>1, <3>2, <3>3, <3>4 DEF CircuitStep
  <2> QED BY <2>1, <2>2 DEF EntryNext, entryVars, limitVars
<1> QED BY <1>1, <1>2, CircuitTypeHolds, PTL DEF EntrySpec

(* ProbeIsOne (Limits): no call is tried beside the probe, and its flag is   *)
(* lowered with it.                                                        *)
THEOREM OneProbe ==
    ASSUME "rejected" \notin Outcomes PROVE EntrySpec => []ProbeIsOne
<1>1. CircuitType /\ CircuitInv => ProbeIsOne
  <2> SUFFICES ASSUME CircuitType, CircuitInv, CircuitOpen PROVE
        LET calling == {p \in Callers : call[p].at = "calling"} IN
          /\ circuit.probe => \E p \in calling : call[p].probe
          /\ Recovered => Cardinality(calling) <= 1
    BY DEF ProbeIsOne
  <2> DEFINE calling == {p \in Callers : call[p].at = "calling"}
  <2>1. CASE circuit.probe
    <3>1. PICK p \in Callers : /\ Calling(p) /\ call[p].probe
                               /\ \A q \in Callers : Calling(q) => q = p
      BY <2>1 DEF CircuitInv
    <3>2. calling = {p}
      BY <3>1 DEF Calling
    <3>3. Cardinality(calling) = 1
      BY <3>2, FS_Singleton
    <3>4. p \in calling /\ call[p].probe
      BY <3>1 DEF Calling
    <3>5. Cardinality(calling) <= 1
      BY <3>3
    <3> HIDE DEF calling
    <3>6. \E q \in calling : call[q].probe
      BY <3>4, Zenon
    <3> QED BY <3>5, <3>6, Zenon DEF calling
  <2>2. CASE ~circuit.probe
    <3>1. Recovered => calling = {}
      BY <2>2, LimitNumbers DEF CircuitInv, CircuitType, Recovered, Calling
    <3> QED BY <2>2, <3>1, FS_EmptySet
  <2> QED BY <2>1, <2>2
<1> QED BY <1>1, CircuitTypeHolds, CircuitInvHolds, PTL

-----------------------------------------------------------------------------
(* The bundles. *)

ExportStates == {"none", "pending", "awaiting_input", "ready", "delivered", "failed", "withdrawn"}
Jobs == {"none", "export", "erase", "sweep"}
Places == {"idle", "locked", "subject", "clear", "put", "collected", "read", "deleting",
           "exhausted"}
RunType == [job : Jobs, at : Places, subject : BOOLEAN, rows : SUBSET ExportIds,
            keys : SUBSET ExportIds, gone : SUBSET ExportIds]

(* Types of the rows, the store and the workers' runs. *)
ExportsType ==
    /\ export \in [ExportIds -> [status : ExportStates, key : BOOLEAN, due : BOOLEAN]]
    /\ erasure \in [status : ExportStates \cup {"executed"}, armed : BOOLEAN]
    /\ bundles \in SUBSET ExportIds /\ cut \in SUBSET ExportIds
    /\ run \in [Workers -> RunType]

Does(w, job, places) == run[w].job = job /\ run[w].at \in places
Puts(w, e) == Does(w, "export", {"put"}) /\ e \in run[w].rows

(* A row bears a key while its bundle is offered. *)
KeysOffered == \A e \in ExportIds : export[e].key => export[e].status \in {"ready", "delivered"}

(* Where the run of each job holds what. *)
RestShape(w) ==
    /\ Does(w, "none", {"idle"}) /\ ~run[w].subject
    /\ run[w].rows = {} /\ run[w].keys = {} /\ run[w].gone = {}
ExportShape(w) ==
    /\ Does(w, "export", {"locked", "subject", "clear", "put", "exhausted"})
    /\ run[w].gone = {} /\ (run[w].keys = {} \/ run[w].at = "exhausted")
    /\ run[w].at \in {"subject", "clear", "put"} => run[w].subject
EraseShape(w) ==
    /\ Does(w, "erase", {"locked", "subject", "collected", "deleting", "exhausted"})
    /\ run[w].at # "deleting" => run[w].rows = {} /\ run[w].gone = {}
    /\ run[w].at \notin {"collected", "deleting"} => run[w].keys = {}
    /\ run[w].at \in {"subject", "collected", "deleting"} => run[w].subject
SweepShape(w) ==
    /\ Does(w, "sweep", {"read", "deleting"}) /\ run[w].rows \subseteq run[w].keys
    /\ run[w].at = "read" => run[w].rows = {} /\ run[w].gone = {}
Shaped ==
    \A w \in Workers :
        /\ RestShape(w) \/ ExportShape(w) \/ EraseShape(w) \/ SweepShape(w)
        /\ run[w].at = "exhausted" => run[w].rows = {} /\ run[w].gone = {} /\ ~run[w].subject
        /\ run[w].gone \subseteq run[w].keys

(* Two transactions share neither the person's lock nor a row, and there is *)
(* one sweep.                                                              *)
Apart ==
    \A v, w \in Workers : v # w =>
        /\ ~(run[v].subject /\ run[w].subject)
        /\ ~(run[v].job = "sweep" /\ run[w].job = "sweep")
        /\ run[v].rows \cap run[w].rows = {}

(* An export works on a pending row. *)
OnPending ==
    \A w \in Workers : run[w].job = "export" =>
        \A e \in run[w].rows : export[e].status = "pending"

(* An erasure that has collected its keys has all of them, and their rows.  *)
Collected ==
    \A w \in Workers : run[w].job = "erase" =>
        /\ erasure.status # "none"
        /\ run[w].at \in {"collected", "deleting"} =>
              Keyed \subseteq run[w].keys /\ run[w].keys \subseteq Asked
        /\ run[w].at = "deleting" => run[w].keys \subseteq run[w].rows

(* A key the sweep has read is still due, or the erasure took it, and then  *)
(* no export will put that bundle again.                                   *)
TakenOver(e) ==
    /\ ~export[e].key /\ erasure.status # "none"
    /\ \A v \in Workers : ~(Does(v, "export", {"clear", "put"}) /\ e \in run[v].rows)
Swept ==
    \A w \in Workers : run[w].job = "sweep" =>
        \A e \in run[w].keys :
            /\ e \in Due \/ TakenOver(e)
            /\ (run[w].at = "deleting" /\ e \notin run[w].rows) => TakenOver(e)

(* What was put is there, what was deleted is not, until the transaction    *)
(* ends; and what no transaction works on is there when its row says so.   *)
Stored ==
    /\ \A w \in Workers : run[w].gone \cap bundles = {}
    /\ \A w \in Workers, e \in ExportIds : Puts(w, e) => e \in bundles
    /\ \A e \in ExportIds :
          (e \notin cut /\ \A w \in Workers : e \notin run[w].gone /\ ~Puts(w, e))
              => (e \in bundles <=> export[e].key)

ExportsInv == KeysOffered /\ Shaped /\ Apart /\ OnPending /\ Collected /\ Swept /\ Stored

-----------------------------------------------------------------------------
(* What a step makes of a run, and what a failure makes of a row. *)
LEMMA RunBecomes ==
    ASSUME NEW w \in Workers, NEW r \in RunType, run \in [Workers -> RunType],
           run' = [run EXCEPT ![w] = r]
    PROVE  /\ run' \in [Workers -> RunType] /\ run'[w] = r
           /\ \A v \in Workers \ {w} : run'[v] = run[v]
  OBVIOUS

LEMMA NoRunFields ==
    /\ NoRun \in RunType /\ NoRun.job = "none" /\ NoRun.at = "idle" /\ ~NoRun.subject
    /\ NoRun.rows = {} /\ NoRun.keys = {} /\ NoRun.gone = {}
  BY DEF NoRun, RunType, Jobs, Places

LEMMA FailedFields ==
    ASSUME ExportsType, NEW e \in ExportIds
    PROVE  /\ FailedExport(e) \in [status : ExportStates, key : BOOLEAN, due : BOOLEAN]
           /\ FailedExport(e).status = "failed" /\ ~FailedExport(e).key /\ ~FailedExport(e).due
<1>1. export[e] \in [status : ExportStates, key : BOOLEAN, due : BOOLEAN]
  BY DEF ExportsType
<1> QED BY <1>1 DEF FailedExport, ExportStates

USE DEF Does, Puts, Keyed, Asked, Due, Free, RowsFree, SubjectFree, Running, Step,
        Release, InRun

LEMMA LockSubjectKeeps ==
    ASSUME NEW w \in Workers, ExportsType, ExportsInv, LockSubject(w)
    PROVE  ExportsType' /\ ExportsInv'
<1> DEFINE r == [run[w] EXCEPT !.at = "subject", !.subject = TRUE]
<1> USE DEF ExportsInv
<1>1. run' = [run EXCEPT ![w] = r]
  BY DEF LockSubject
<1>2. /\ run \in [Workers -> RunType] /\ run[w] \in RunType
      /\ \A v \in Workers : run[v].rows \cup run[v].keys \subseteq ExportIds
  BY DEF ExportsType, RunType
<1>3. /\ r \in RunType
      /\ r.job = run[w].job /\ r.at = "subject" /\ r.subject
      /\ r.rows = run[w].rows /\ r.keys = run[w].keys /\ r.gone = run[w].gone
  BY <1>2, NoRunFields DEF LockSubject, ExportsType, RunType, Jobs, Places
<1>4. /\ run' \in [Workers -> RunType]
      /\ run'[w].job = run[w].job /\ run'[w].at = "subject" /\ run'[w].subject
      /\ run'[w].rows = run[w].rows /\ run'[w].keys = run[w].keys /\ run'[w].gone = run[w].gone
      /\ \A v \in Workers \ {w} : run'[v] = run[v]
  <2> HIDE DEF r
  <2> QED BY <1>1, <1>2, <1>3, RunBecomes
<1> HIDE DEF r
<1>5. ExportsType'
  BY <1>2, <1>4 DEF LockSubject, ExportsType, ExportStates, RunType
<1>6. KeysOffered'
  BY <1>2, <1>4 DEF LockSubject, KeysOffered
<1>7. Shaped'
  BY <1>2, <1>4 DEF LockSubject, Shaped, RestShape, ExportShape, EraseShape, SweepShape
<1>8. Apart'
  BY <1>2, <1>4 DEF LockSubject, Apart
<1>9. OnPending'
  BY <1>2, <1>4 DEF LockSubject, OnPending
<1>10. Collected'
  BY <1>2, <1>4 DEF LockSubject, Collected
<1>11. Swept'
  BY <1>2, <1>4 DEF LockSubject, Swept, TakenOver
<1>12. Stored'
  BY <1>2, <1>4 DEF LockSubject, Stored
<1> QED BY <1>5, <1>6, <1>7, <1>8, <1>9, <1>10, <1>11, <1>12

LEMMA CheckErasedClearKeeps ==
    ASSUME NEW w \in Workers, erasure.status = "none", ExportsType, ExportsInv, CheckErased(w)
    PROVE  ExportsType' /\ ExportsInv'
<1> DEFINE r == [run[w] EXCEPT !.at = "clear"]
<1> USE DEF ExportsInv
<1>1. run' = [run EXCEPT ![w] = r]
  BY DEF CheckErased
<1>2. /\ run \in [Workers -> RunType] /\ run[w] \in RunType
      /\ \A v \in Workers : run[v].rows \cup run[v].keys \subseteq ExportIds
  BY DEF ExportsType, RunType
<1>3. /\ r \in RunType
      /\ r.job = run[w].job /\ r.at = "clear" /\ r.subject = run[w].subject
      /\ r.rows = run[w].rows /\ r.keys = run[w].keys /\ r.gone = run[w].gone
  BY <1>2, NoRunFields DEF CheckErased, ExportsType, RunType, Jobs, Places
<1>4. /\ run' \in [Workers -> RunType]
      /\ run'[w].job = run[w].job /\ run'[w].at = "clear" /\ run'[w].subject = run[w].subject
      /\ run'[w].rows = run[w].rows /\ run'[w].keys = run[w].keys /\ run'[w].gone = run[w].gone
      /\ \A v \in Workers \ {w} : run'[v] = run[v]
  <2> HIDE DEF r
  <2> QED BY <1>1, <1>2, <1>3, RunBecomes
<1> HIDE DEF r
<1>5. ExportsType'
  BY <1>2, <1>4 DEF CheckErased, ExportsType, ExportStates, RunType
<1>6. KeysOffered'
  BY <1>2, <1>4 DEF CheckErased, KeysOffered
<1>7. Shaped'
  BY <1>2, <1>4 DEF CheckErased, Shaped, RestShape, ExportShape, EraseShape, SweepShape
<1>8. Apart'
  BY <1>2, <1>4 DEF CheckErased, Apart
<1>9. OnPending'
  BY <1>2, <1>4 DEF CheckErased, OnPending
<1>10. Collected'
  BY <1>2, <1>4 DEF CheckErased, Collected
<1>11. Swept'
  BY <1>2, <1>4 DEF CheckErased, Swept, TakenOver
<1>12. Stored'
  BY <1>2, <1>4 DEF CheckErased, Stored
<1> QED BY <1>5, <1>6, <1>7, <1>8, <1>9, <1>10, <1>11, <1>12

LEMMA CheckErasedFailsKeeps ==
    ASSUME NEW w \in Workers, erasure.status # "none", ExportsType, ExportsInv, CheckErased(w)
    PROVE  ExportsType' /\ ExportsInv'
<1> USE DEF ExportsInv
<1>1. run' = [run EXCEPT ![w] = NoRun]
  BY DEF CheckErased
<1>2. /\ run \in [Workers -> RunType] /\ run[w] \in RunType
      /\ \A v \in Workers : run[v].rows \cup run[v].keys \subseteq ExportIds
  BY DEF ExportsType, RunType
<1>4. /\ run' \in [Workers -> RunType]
      /\ run'[w].job = "none" /\ run'[w].at = "idle" /\ ~run'[w].subject
      /\ run'[w].rows = {} /\ run'[w].keys = {} /\ run'[w].gone = {}
      /\ \A v \in Workers \ {w} : run'[v] = run[v]
  BY <1>1, <1>2, NoRunFields, RunBecomes
<1>0. \A e \in ExportIds :
        IF e \in run[w].rows
        THEN /\ export'[e].status = "failed"
             /\ ~export'[e].key /\ ~export'[e].due
        ELSE export'[e] = export[e]
  BY FailedFields DEF CheckErased
<1>5. ExportsType'
  BY <1>2, <1>4, FailedFields DEF CheckErased, ExportsType, ExportStates, RunType
<1>6. KeysOffered'
  BY <1>0, <1>2, <1>4 DEF CheckErased, KeysOffered
<1>7. Shaped'
  BY <1>0, <1>2, <1>4
  DEF CheckErased, Shaped, RestShape, ExportShape, EraseShape, SweepShape
<1>8. Apart'
  BY <1>0, <1>2, <1>4 DEF CheckErased, Apart
<1>9. OnPending'
  BY <1>0, <1>2, <1>4
  DEF CheckErased, OnPending, Shaped, RestShape, ExportShape, EraseShape, SweepShape,
      Apart
<1>10. Collected'
  BY <1>0, <1>2, <1>4 DEF CheckErased, Collected
<1>11. Swept'
  BY <1>0, <1>2, <1>4
  DEF CheckErased, Swept, TakenOver, Shaped, RestShape, ExportShape, EraseShape,
      SweepShape, Apart
<1>13. run[w].gone = {} /\ run[w].at # "put" /\ UNCHANGED <<bundles, cut>>
  BY DEF CheckErased, Shaped, RestShape, ExportShape, EraseShape, SweepShape
<1>14. ASSUME NEW e \in ExportIds PROVE export'[e].key <=> export[e].key
  <2>1. CASE e \in run[w].rows
    <3>1. ~export'[e].key
      BY <1>0, <2>1
    <3>2. export[e].status = "pending"
      BY <2>1 DEF CheckErased, OnPending
    <3>3. ~export[e].key
      BY <3>2 DEF KeysOffered
    <3> QED BY <3>1, <3>3
  <2>2. CASE e \notin run[w].rows
    BY <1>0, <2>2
  <2> QED BY <2>1, <2>2
<1>12. Stored'
  BY <1>4, <1>13, <1>14 DEF Stored
<1> QED BY <1>5, <1>6, <1>7, <1>8, <1>9, <1>10, <1>11, <1>12

LEMMA PutBundleKeeps ==
    ASSUME NEW w \in Workers, ExportsType, ExportsInv, PutBundle(w)
    PROVE  ExportsType' /\ ExportsInv'
<1> DEFINE r == [run[w] EXCEPT !.at = "put"]
<1> USE DEF ExportsInv
<1>1. run' = [run EXCEPT ![w] = r]
  BY DEF PutBundle
<1>2. /\ run \in [Workers -> RunType] /\ run[w] \in RunType
      /\ \A v \in Workers : run[v].rows \cup run[v].keys \subseteq ExportIds
  BY DEF ExportsType, RunType
<1>3. /\ r \in RunType
      /\ r.job = run[w].job /\ r.at = "put" /\ r.subject = run[w].subject
      /\ r.rows = run[w].rows /\ r.keys = run[w].keys /\ r.gone = run[w].gone
  BY <1>2, NoRunFields DEF PutBundle, ExportsType, RunType, Jobs, Places
<1>4. /\ run' \in [Workers -> RunType]
      /\ run'[w].job = run[w].job /\ run'[w].at = "put" /\ run'[w].subject = run[w].subject
      /\ run'[w].rows = run[w].rows /\ run'[w].keys = run[w].keys /\ run'[w].gone = run[w].gone
      /\ \A v \in Workers \ {w} : run'[v] = run[v]
  <2> HIDE DEF r
  <2> QED BY <1>1, <1>2, <1>3, RunBecomes
<1> HIDE DEF r
<1>5. ExportsType'
  BY <1>2, <1>4 DEF PutBundle, ExportsType, ExportStates, RunType
<1>6. KeysOffered'
  BY <1>2, <1>4 DEF PutBundle, KeysOffered
<1>7. Shaped'
  BY <1>2, <1>4 DEF PutBundle, Shaped, RestShape, ExportShape, EraseShape, SweepShape
<1>8. Apart'
  BY <1>2, <1>4 DEF PutBundle, Apart
<1>9. OnPending'
  BY <1>2, <1>4 DEF PutBundle, OnPending
<1>10. Collected'
  BY <1>2, <1>4 DEF PutBundle, Collected
<1>11. Swept'
  BY <1>2, <1>4 DEF PutBundle, Swept, TakenOver
<1>12. Stored'
  BY <1>2, <1>4
  DEF PutBundle, Stored, Shaped, RestShape, ExportShape, EraseShape, SweepShape, Apart,
      Collected, Swept, TakenOver
<1> QED BY <1>5, <1>6, <1>7, <1>8, <1>9, <1>10, <1>11, <1>12

LEMMA CommitExportKeeps ==
    ASSUME NEW w \in Workers, ExportsType, ExportsInv, CommitExport(w)
    PROVE  ExportsType' /\ ExportsInv'
<1> USE DEF ExportsInv
<1>1. run' = [run EXCEPT ![w] = NoRun]
  BY DEF CommitExport
<1>2. /\ run \in [Workers -> RunType] /\ run[w] \in RunType
      /\ \A v \in Workers : run[v].rows \cup run[v].keys \subseteq ExportIds
  BY DEF ExportsType, RunType
<1>4. /\ run' \in [Workers -> RunType]
      /\ run'[w].job = "none" /\ run'[w].at = "idle" /\ ~run'[w].subject
      /\ run'[w].rows = {} /\ run'[w].keys = {} /\ run'[w].gone = {}
      /\ \A v \in Workers \ {w} : run'[v] = run[v]
  BY <1>1, <1>2, NoRunFields, RunBecomes
<1>0. \A e \in ExportIds :
        IF e \in run[w].rows
        THEN /\ export'[e].status = "ready"
             /\ export'[e].key /\ ~export'[e].due
        ELSE export'[e] = export[e]
  BY DEF CommitExport
<1>5. ExportsType'
  BY <1>2, <1>4 DEF CommitExport, ExportsType, ExportStates, RunType
<1>6. KeysOffered'
  BY <1>0, <1>2, <1>4 DEF CommitExport, KeysOffered
<1>7. Shaped'
  BY <1>0, <1>2, <1>4
  DEF CommitExport, Shaped, RestShape, ExportShape, EraseShape, SweepShape
<1>8. Apart'
  BY <1>0, <1>2, <1>4 DEF CommitExport, Apart
<1>9. OnPending'
  BY <1>0, <1>2, <1>4
  DEF CommitExport, OnPending, Shaped, RestShape, ExportShape, EraseShape, SweepShape,
      Apart
<1>10. Collected'
  BY <1>0, <1>2, <1>4
  DEF CommitExport, Collected, Shaped, RestShape, ExportShape, EraseShape, SweepShape,
      Apart
<1>11. Swept'
  BY <1>0, <1>2, <1>4
  DEF CommitExport, Swept, TakenOver, Shaped, RestShape, ExportShape, EraseShape,
      SweepShape, OnPending, KeysOffered
<1>12. Stored'
  BY <1>0, <1>2, <1>4
  DEF CommitExport, Stored, Shaped, RestShape, ExportShape, EraseShape, SweepShape
<1> QED BY <1>5, <1>6, <1>7, <1>8, <1>9, <1>10, <1>11, <1>12

LEMMA ArmErasureKeeps ==
    ASSUME NEW w \in Workers, ExportsType, ExportsInv, ArmErasure(w)
    PROVE  ExportsType' /\ ExportsInv'
<1> DEFINE r == [NoRun EXCEPT !.job = "erase", !.at = "locked"]
<1> USE DEF ExportsInv
<1>1. run' = [run EXCEPT ![w] = r]
  BY DEF ArmErasure
<1>2. /\ run \in [Workers -> RunType] /\ run[w] \in RunType
      /\ \A v \in Workers : run[v].rows \cup run[v].keys \subseteq ExportIds
  BY DEF ExportsType, RunType
<1>3. /\ r \in RunType
      /\ r.job = "erase" /\ r.at = "locked" /\ ~r.subject
      /\ r.rows = {} /\ r.keys = {} /\ r.gone = {}
  BY <1>2, NoRunFields DEF ArmErasure, ExportsType, RunType, Jobs, Places
<1>4. /\ run' \in [Workers -> RunType]
      /\ run'[w].job = "erase" /\ run'[w].at = "locked" /\ ~run'[w].subject
      /\ run'[w].rows = {} /\ run'[w].keys = {} /\ run'[w].gone = {}
      /\ \A v \in Workers \ {w} : run'[v] = run[v]
  <2> HIDE DEF r
  <2> QED BY <1>1, <1>2, <1>3, RunBecomes
<1> HIDE DEF r
<1>5. ExportsType'
  BY <1>2, <1>4 DEF ArmErasure, ExportsType, ExportStates, RunType
<1>6. KeysOffered'
  BY <1>2, <1>4 DEF ArmErasure, KeysOffered
<1>7. Shaped'
  BY <1>2, <1>4 DEF ArmErasure, Shaped, RestShape, ExportShape, EraseShape, SweepShape
<1>8. Apart'
  BY <1>2, <1>4 DEF ArmErasure, Apart
<1>9. OnPending'
  BY <1>2, <1>4 DEF ArmErasure, OnPending
<1>10. Collected'
  BY <1>2, <1>4 DEF ArmErasure, Collected
<1>11. Swept'
  BY <1>2, <1>4 DEF ArmErasure, Swept, TakenOver
<1>12. Stored'
  BY <1>2, <1>4 DEF ArmErasure, Stored
<1> QED BY <1>5, <1>6, <1>7, <1>8, <1>9, <1>10, <1>11, <1>12

LEMMA CollectKeysKeeps ==
    ASSUME NEW w \in Workers, ExportsType, ExportsInv, CollectKeys(w)
    PROVE  ExportsType' /\ ExportsInv'
<1> DEFINE r == [run[w] EXCEPT !.at = "collected", !.keys = Keyed]
<1> USE DEF ExportsInv
<1>1. run' = [run EXCEPT ![w] = r]
  BY DEF CollectKeys
<1>2. /\ run \in [Workers -> RunType] /\ run[w] \in RunType
      /\ \A v \in Workers : run[v].rows \cup run[v].keys \subseteq ExportIds
  BY DEF ExportsType, RunType
<1>3. /\ r \in RunType
      /\ r.job = run[w].job /\ r.at = "collected" /\ r.subject = run[w].subject
      /\ r.rows = run[w].rows /\ r.keys = Keyed /\ r.gone = run[w].gone
  BY <1>2, NoRunFields DEF CollectKeys, ExportsType, RunType, Jobs, Places
<1>4. /\ run' \in [Workers -> RunType]
      /\ run'[w].job = run[w].job /\ run'[w].at = "collected"
      /\ run'[w].subject = run[w].subject
      /\ run'[w].rows = run[w].rows /\ run'[w].keys = Keyed /\ run'[w].gone = run[w].gone
      /\ \A v \in Workers \ {w} : run'[v] = run[v]
  <2> HIDE DEF r
  <2> QED BY <1>1, <1>2, <1>3, RunBecomes
<1> HIDE DEF r
<1>5. ExportsType'
  BY <1>2, <1>4 DEF CollectKeys, ExportsType, ExportStates, RunType
<1>6. KeysOffered'
  BY <1>2, <1>4 DEF CollectKeys, KeysOffered
<1>7. Shaped'
  BY <1>2, <1>4 DEF CollectKeys, Shaped, RestShape, ExportShape, EraseShape, SweepShape
<1>8. Apart'
  BY <1>2, <1>4 DEF CollectKeys, Apart
<1>9. OnPending'
  BY <1>2, <1>4 DEF CollectKeys, OnPending
<1>10. Collected'
  BY <1>2, <1>4
  DEF CollectKeys, Collected, Shaped, RestShape, ExportShape, EraseShape, SweepShape,
      OnPending, KeysOffered
<1>11. Swept'
  BY <1>2, <1>4 DEF CollectKeys, Swept, TakenOver
<1>12. Stored'
  BY <1>2, <1>4 DEF CollectKeys, Stored
<1> QED BY <1>5, <1>6, <1>7, <1>8, <1>9, <1>10, <1>11, <1>12

LEMMA EraseRowsKeeps ==
    ASSUME NEW w \in Workers, ExportsType, ExportsInv, EraseRows(w)
    PROVE  ExportsType' /\ ExportsInv'
<1> DEFINE r == [run[w] EXCEPT !.at = "deleting", !.rows = Asked]
<1> USE DEF ExportsInv
<1>1. run' = [run EXCEPT ![w] = r]
  BY DEF EraseRows
<1>2. /\ run \in [Workers -> RunType] /\ run[w] \in RunType
      /\ \A v \in Workers : run[v].rows \cup run[v].keys \subseteq ExportIds
  BY DEF ExportsType, RunType
<1>3. /\ r \in RunType
      /\ r.job = run[w].job /\ r.at = "deleting" /\ r.subject = run[w].subject
      /\ r.rows = Asked /\ r.keys = run[w].keys /\ r.gone = run[w].gone
  BY <1>2, NoRunFields DEF EraseRows, ExportsType, RunType, Jobs, Places
<1>4. /\ run' \in [Workers -> RunType]
      /\ run'[w].job = run[w].job /\ run'[w].at = "deleting" /\ run'[w].subject = run[w].subject
      /\ run'[w].rows = Asked /\ run'[w].keys = run[w].keys /\ run'[w].gone = run[w].gone
      /\ \A v \in Workers \ {w} : run'[v] = run[v]
  <2> HIDE DEF r
  <2> QED BY <1>1, <1>2, <1>3, RunBecomes
<1> HIDE DEF r
<1>5. ExportsType'
  BY <1>2, <1>4 DEF EraseRows, ExportsType, ExportStates, RunType
<1>6. KeysOffered'
  BY <1>2, <1>4 DEF EraseRows, KeysOffered
<1>7. Shaped'
  BY <1>2, <1>4 DEF EraseRows, Shaped, RestShape, ExportShape, EraseShape, SweepShape
<1>8. Apart'
  BY <1>2, <1>4 DEF EraseRows, Apart
<1>9. OnPending'
  BY <1>2, <1>4 DEF EraseRows, OnPending
<1>10. Collected'
  BY <1>2, <1>4 DEF EraseRows, Collected
<1>11. Swept'
  BY <1>2, <1>4 DEF EraseRows, Swept, TakenOver
<1>12. Stored'
  BY <1>2, <1>4 DEF EraseRows, Stored
<1> QED BY <1>5, <1>6, <1>7, <1>8, <1>9, <1>10, <1>11, <1>12

LEMMA CommitErasureKeeps ==
    ASSUME NEW w \in Workers, ExportsType, ExportsInv, CommitErasure(w)
    PROVE  ExportsType' /\ ExportsInv'
<1> USE DEF ExportsInv
<1>1. run' = [run EXCEPT ![w] = NoRun]
  BY DEF CommitErasure
<1>2. /\ run \in [Workers -> RunType] /\ run[w] \in RunType
      /\ \A v \in Workers : run[v].rows \cup run[v].keys \subseteq ExportIds
  BY DEF ExportsType, RunType
<1>4. /\ run' \in [Workers -> RunType]
      /\ run'[w].job = "none" /\ run'[w].at = "idle" /\ ~run'[w].subject
      /\ run'[w].rows = {} /\ run'[w].keys = {} /\ run'[w].gone = {}
      /\ \A v \in Workers \ {w} : run'[v] = run[v]
  BY <1>1, <1>2, NoRunFields, RunBecomes
<1>0. \A e \in ExportIds :
        IF e \in run[w].rows
        THEN /\ export'[e].status = "failed"
             /\ ~export'[e].key /\ ~export'[e].due
        ELSE export'[e] = export[e]
  BY FailedFields DEF CommitErasure
<1>5. ExportsType'
  BY <1>2, <1>4, FailedFields DEF CommitErasure, ExportsType, ExportStates, RunType
<1>6. KeysOffered'
  BY <1>0, <1>2, <1>4 DEF CommitErasure, KeysOffered
<1>7. Shaped'
  BY <1>0, <1>2, <1>4
  DEF CommitErasure, Shaped, RestShape, ExportShape, EraseShape, SweepShape
<1>8. Apart'
  BY <1>0, <1>2, <1>4 DEF CommitErasure, Apart
<1>9. OnPending'
  BY <1>0, <1>2, <1>4
  DEF CommitErasure, OnPending, Shaped, RestShape, ExportShape, EraseShape, SweepShape,
      Apart
<1>10. Collected'
  BY <1>0, <1>2, <1>4 DEF CommitErasure, Collected
<1>11. Swept'
  BY <1>0, <1>2, <1>4
  DEF CommitErasure, Swept, TakenOver, Shaped, RestShape, ExportShape, EraseShape,
      SweepShape, Apart
<1>12. Stored'
  BY <1>0, <1>2, <1>4
  DEF CommitErasure, Stored, Shaped, RestShape, ExportShape, EraseShape, SweepShape,
      OnPending, Collected, ExportsType, ExportStates
<1> QED BY <1>5, <1>6, <1>7, <1>8, <1>9, <1>10, <1>11, <1>12

LEMMA SweepKeysKeeps ==
    ASSUME NEW w \in Workers, ExportsType, ExportsInv, SweepKeys(w)
    PROVE  ExportsType' /\ ExportsInv'
<1> DEFINE r == [NoRun EXCEPT !.job = "sweep", !.at = "read", !.keys = Due]
<1> USE DEF ExportsInv
<1>1. run' = [run EXCEPT ![w] = r]
  BY DEF SweepKeys
<1>2. /\ run \in [Workers -> RunType] /\ run[w] \in RunType
      /\ \A v \in Workers : run[v].rows \cup run[v].keys \subseteq ExportIds
  BY DEF ExportsType, RunType
<1>3. /\ r \in RunType
      /\ r.job = "sweep" /\ r.at = "read" /\ ~r.subject
      /\ r.rows = {} /\ r.keys = Due /\ r.gone = {}
  BY <1>2, NoRunFields DEF SweepKeys, ExportsType, RunType, Jobs, Places
<1>4. /\ run' \in [Workers -> RunType]
      /\ run'[w].job = "sweep" /\ run'[w].at = "read" /\ ~run'[w].subject
      /\ run'[w].rows = {} /\ run'[w].keys = Due /\ run'[w].gone = {}
      /\ \A v \in Workers \ {w} : run'[v] = run[v]
  <2> HIDE DEF r
  <2> QED BY <1>1, <1>2, <1>3, RunBecomes
<1> HIDE DEF r
<1>5. ExportsType'
  BY <1>2, <1>4 DEF SweepKeys, ExportsType, ExportStates, RunType
<1>6. KeysOffered'
  BY <1>2, <1>4 DEF SweepKeys, KeysOffered
<1>7. Shaped'
  BY <1>2, <1>4 DEF SweepKeys, Shaped, RestShape, ExportShape, EraseShape, SweepShape
<1>8. Apart'
  BY <1>2, <1>4
  DEF SweepKeys, Apart, Shaped, RestShape, ExportShape, EraseShape, SweepShape
<1>9. OnPending'
  BY <1>2, <1>4 DEF SweepKeys, OnPending
<1>10. Collected'
  BY <1>2, <1>4 DEF SweepKeys, Collected
<1>11. Swept'
  BY <1>2, <1>4 DEF SweepKeys, Swept, TakenOver
<1>12. Stored'
  BY <1>2, <1>4 DEF SweepKeys, Stored
<1> QED BY <1>5, <1>6, <1>7, <1>8, <1>9, <1>10, <1>11, <1>12

LEMMA SweepRowsKeeps ==
    ASSUME NEW w \in Workers, ExportsType, ExportsInv, SweepRows(w)
    PROVE  ExportsType' /\ ExportsInv'
<1> DEFINE r == [run[w] EXCEPT !.at = "deleting", !.rows = Due \cap run[w].keys]
<1> USE DEF ExportsInv
<1>1. run' = [run EXCEPT ![w] = r]
  BY DEF SweepRows
<1>2. /\ run \in [Workers -> RunType] /\ run[w] \in RunType
      /\ \A v \in Workers : run[v].rows \cup run[v].keys \subseteq ExportIds
  BY DEF ExportsType, RunType
<1>3. /\ r \in RunType
      /\ r.job = run[w].job /\ r.at = "deleting" /\ r.subject = run[w].subject
      /\ r.rows = Due \cap run[w].keys /\ r.keys = run[w].keys /\ r.gone = run[w].gone
  BY <1>2, NoRunFields DEF SweepRows, ExportsType, RunType, Jobs, Places
<1>4. /\ run' \in [Workers -> RunType]
      /\ run'[w].job = run[w].job /\ run'[w].at = "deleting" /\ run'[w].subject = run[w].subject
      /\ run'[w].rows = Due \cap run[w].keys /\ run'[w].keys = run[w].keys
      /\ run'[w].gone = run[w].gone
      /\ \A v \in Workers \ {w} : run'[v] = run[v]
  <2> HIDE DEF r
  <2> QED BY <1>1, <1>2, <1>3, RunBecomes
<1> HIDE DEF r
<1>5. ExportsType'
  BY <1>2, <1>4 DEF SweepRows, ExportsType, ExportStates, RunType
<1>6. KeysOffered'
  BY <1>2, <1>4 DEF SweepRows, KeysOffered
<1>7. Shaped'
  BY <1>2, <1>4 DEF SweepRows, Shaped, RestShape, ExportShape, EraseShape, SweepShape
<1>8. Apart'
  BY <1>2, <1>4 DEF SweepRows, Apart
<1>9. OnPending'
  BY <1>2, <1>4 DEF SweepRows, OnPending
<1>10. Collected'
  BY <1>2, <1>4 DEF SweepRows, Collected
<1>11. Swept'
  BY <1>2, <1>4 DEF SweepRows, Swept, TakenOver
<1>12. Stored'
  BY <1>2, <1>4 DEF SweepRows, Stored
<1> QED BY <1>5, <1>6, <1>7, <1>8, <1>9, <1>10, <1>11, <1>12

LEMMA CommitSweepKeeps ==
    ASSUME NEW w \in Workers, ExportsType, ExportsInv, CommitSweep(w)
    PROVE  ExportsType' /\ ExportsInv'
<1> USE DEF ExportsInv
<1>1. run' = [run EXCEPT ![w] = NoRun]
  BY DEF CommitSweep
<1>2. /\ run \in [Workers -> RunType] /\ run[w] \in RunType
      /\ \A v \in Workers : run[v].rows \cup run[v].keys \subseteq ExportIds
  BY DEF ExportsType, RunType
<1>4. /\ run' \in [Workers -> RunType]
      /\ run'[w].job = "none" /\ run'[w].at = "idle" /\ ~run'[w].subject
      /\ run'[w].rows = {} /\ run'[w].keys = {} /\ run'[w].gone = {}
      /\ \A v \in Workers \ {w} : run'[v] = run[v]
  BY <1>1, <1>2, NoRunFields, RunBecomes
<1>0. \A e \in ExportIds :
        IF e \in run[w].rows
        THEN /\ export'[e].status =
                  (IF export[e].status = "ready" THEN "failed" ELSE export[e].status)
             /\ ~export'[e].key /\ ~export'[e].due
        ELSE export'[e] = export[e]
  BY DEF CommitSweep
<1>5. ExportsType'
  BY <1>2, <1>4 DEF CommitSweep, ExportsType, ExportStates, RunType
<1>6. KeysOffered'
  BY <1>0, <1>2, <1>4 DEF CommitSweep, KeysOffered
<1>7. Shaped'
  BY <1>0, <1>2, <1>4
  DEF CommitSweep, Shaped, RestShape, ExportShape, EraseShape, SweepShape
<1>8. Apart'
  BY <1>0, <1>2, <1>4 DEF CommitSweep, Apart
<1>9. OnPending'
  BY <1>0, <1>2, <1>4 DEF CommitSweep, OnPending
<1>10. Collected'
  BY <1>0, <1>2, <1>4 DEF CommitSweep, Collected
<1>11. Swept'
  BY <1>0, <1>2, <1>4
  DEF CommitSweep, Swept, TakenOver, Shaped, RestShape, ExportShape, EraseShape,
      SweepShape, Apart
<1>12. Stored'
  BY <1>0, <1>2, <1>4
  DEF CommitSweep, Stored, Shaped, RestShape, ExportShape, EraseShape, SweepShape,
      OnPending, Swept, TakenOver
<1> QED BY <1>5, <1>6, <1>7, <1>8, <1>9, <1>10, <1>11, <1>12

LEMMA AbortRetriedKeeps ==
    ASSUME NEW w \in Workers, run'[w] = NoRun, ExportsType, ExportsInv, Abort(w)
    PROVE  ExportsType' /\ ExportsInv'
<1> USE DEF ExportsInv
<1>1. run' = [run EXCEPT ![w] = NoRun]
  BY DEF Abort
<1>2. /\ run \in [Workers -> RunType] /\ run[w] \in RunType
      /\ \A v \in Workers : run[v].rows \cup run[v].keys \subseteq ExportIds
  BY DEF ExportsType, RunType
<1>4. /\ run' \in [Workers -> RunType]
      /\ run'[w].job = "none" /\ run'[w].at = "idle" /\ ~run'[w].subject
      /\ run'[w].rows = {} /\ run'[w].keys = {} /\ run'[w].gone = {}
      /\ \A v \in Workers \ {w} : run'[v] = run[v]
  BY <1>1, <1>2, NoRunFields, RunBecomes
<1>5. ExportsType'
  BY <1>2, <1>4 DEF Abort, ExportsType, ExportStates, RunType
<1>6. KeysOffered'
  BY <1>2, <1>4 DEF Abort, KeysOffered
<1>7. Shaped'
  BY <1>2, <1>4 DEF Abort, Shaped, RestShape, ExportShape, EraseShape, SweepShape
<1>8. Apart'
  BY <1>2, <1>4 DEF Abort, Apart
<1>9. OnPending'
  BY <1>2, <1>4 DEF Abort, OnPending
<1>10. Collected'
  BY <1>2, <1>4 DEF Abort, Collected
<1>11. Swept'
  BY <1>2, <1>4 DEF Abort, Swept, TakenOver
<1>12. Stored'
  BY <1>2, <1>4 DEF Abort, Stored
<1> QED BY <1>5, <1>6, <1>7, <1>8, <1>9, <1>10, <1>11, <1>12

LEMMA AbortSpentKeeps ==
    ASSUME NEW w \in Workers, run'[w] # NoRun, ExportsType, ExportsInv, Abort(w)
    PROVE  ExportsType' /\ ExportsInv'
<1> DEFINE r == [NoRun EXCEPT !.job = run[w].job, !.at = "exhausted",
                            !.keys = (IF run[w].job = "export" THEN run[w].rows ELSE {})]
<1> USE DEF ExportsInv
<1>1. run' = [run EXCEPT ![w] = r]
  BY DEF Abort
<1>2. /\ run \in [Workers -> RunType] /\ run[w] \in RunType
      /\ \A v \in Workers : run[v].rows \cup run[v].keys \subseteq ExportIds
  BY DEF ExportsType, RunType
<1>3. /\ r \in RunType
      /\ r.job = run[w].job /\ r.at = "exhausted" /\ ~r.subject
      /\ r.rows = {} /\ r.keys = (IF run[w].job = "export" THEN run[w].rows ELSE {}) /\ r.gone = {}
  BY <1>2, NoRunFields DEF Abort, ExportsType, RunType, Jobs, Places
<1>4. /\ run' \in [Workers -> RunType]
      /\ run'[w].job = run[w].job /\ run'[w].at = "exhausted" /\ ~run'[w].subject
      /\ run'[w].rows = {}
      /\ run'[w].keys = (IF run[w].job = "export" THEN run[w].rows ELSE {})
      /\ run'[w].gone = {}
      /\ \A v \in Workers \ {w} : run'[v] = run[v]
  <2> HIDE DEF r
  <2> QED BY <1>1, <1>2, <1>3, RunBecomes
<1> HIDE DEF r
<1>5. ExportsType'
  BY <1>2, <1>4 DEF Abort, ExportsType, ExportStates, RunType
<1>6. KeysOffered'
  BY <1>2, <1>4 DEF Abort, KeysOffered
<1>7. Shaped'
  BY <1>2, <1>4 DEF Abort, Shaped, RestShape, ExportShape, EraseShape, SweepShape
<1>8. Apart'
  BY <1>2, <1>4 DEF Abort, Apart
<1>9. OnPending'
  BY <1>2, <1>4 DEF Abort, OnPending
<1>10. Collected'
  BY <1>2, <1>4 DEF Abort, Collected
<1>11. Swept'
  BY <1>2, <1>4 DEF Abort, Swept, TakenOver
<1>12. Stored'
  BY <1>2, <1>4 DEF Abort, Stored
<1> QED BY <1>5, <1>6, <1>7, <1>8, <1>9, <1>10, <1>11, <1>12

LEMMA ExhaustedKeeps ==
    ASSUME NEW w \in Workers, ExportsType, ExportsInv, Exhausted(w)
    PROVE  ExportsType' /\ ExportsInv'
<1> USE DEF ExportsInv
<1>1. run' = [run EXCEPT ![w] = NoRun]
  BY DEF Exhausted
<1>2. /\ run \in [Workers -> RunType] /\ run[w] \in RunType
      /\ \A v \in Workers : run[v].rows \cup run[v].keys \subseteq ExportIds
  BY DEF ExportsType, RunType
<1>4. /\ run' \in [Workers -> RunType]
      /\ run'[w].job = "none" /\ run'[w].at = "idle" /\ ~run'[w].subject
      /\ run'[w].rows = {} /\ run'[w].keys = {} /\ run'[w].gone = {}
      /\ \A v \in Workers \ {w} : run'[v] = run[v]
  BY <1>1, <1>2, NoRunFields, RunBecomes
<1>0. \A e \in ExportIds :
        IF e \in run[w].keys /\ export[e].status = "pending"
        THEN /\ export'[e].status = "failed"
             /\ ~export'[e].key /\ ~export'[e].due
        ELSE export'[e] = export[e]
  BY FailedFields DEF Exhausted
<1>5. ExportsType'
  BY <1>2, <1>4, FailedFields DEF Exhausted, ExportsType, ExportStates, RunType
<1>6. KeysOffered'
  BY <1>0, <1>2, <1>4 DEF Exhausted, KeysOffered
<1>7. Shaped'
  BY <1>0, <1>2, <1>4
  DEF Exhausted, Shaped, RestShape, ExportShape, EraseShape, SweepShape
<1>8. Apart'
  BY <1>0, <1>2, <1>4 DEF Exhausted, Apart
<1>9. OnPending'
  BY <1>0, <1>2, <1>4 DEF Exhausted, OnPending
<1>10. Collected'
  BY <1>0, <1>2, <1>4 DEF Exhausted, Collected, ExportsType, ExportStates
<1>11. Swept'
  BY <1>0, <1>2, <1>4
  DEF Exhausted, Swept, TakenOver, ExportsType, ExportStates, Apart, KeysOffered
<1>12. Stored'
  BY <1>0, <1>2, <1>4
  DEF Exhausted, Stored, Shaped, RestShape, ExportShape, EraseShape, SweepShape,
      OnPending, KeysOffered
<1> QED BY <1>5, <1>6, <1>7, <1>8, <1>9, <1>10, <1>11, <1>12

LEMMA ExecuteExportKeeps ==
    ASSUME NEW w \in Workers, NEW e \in ExportIds, ExportsType, ExportsInv, ExecuteExport(w, e)
    PROVE  ExportsType' /\ ExportsInv'
<1> DEFINE r == [NoRun EXCEPT !.job = "export", !.at = "locked", !.rows = {e}]
<1> USE DEF ExportsInv
<1>1. run' = [run EXCEPT ![w] = r]
  BY DEF ExecuteExport
<1>2. /\ run \in [Workers -> RunType] /\ run[w] \in RunType
      /\ \A v \in Workers : run[v].rows \cup run[v].keys \subseteq ExportIds
  BY DEF ExportsType, RunType
<1>3. /\ r \in RunType
      /\ r.job = "export" /\ r.at = "locked" /\ ~r.subject
      /\ r.rows = {e} /\ r.keys = {} /\ r.gone = {}
  BY <1>2, NoRunFields DEF ExecuteExport, ExportsType, RunType, Jobs, Places
<1>4. /\ run' \in [Workers -> RunType]
      /\ run'[w].job = "export" /\ run'[w].at = "locked" /\ ~run'[w].subject
      /\ run'[w].rows = {e} /\ run'[w].keys = {} /\ run'[w].gone = {}
      /\ \A v \in Workers \ {w} : run'[v] = run[v]
  <2> HIDE DEF r
  <2> QED BY <1>1, <1>2, <1>3, RunBecomes
<1> HIDE DEF r
<1>5. ExportsType'
  BY <1>2, <1>4 DEF ExecuteExport, ExportsType, ExportStates, RunType
<1>6. KeysOffered'
  BY <1>2, <1>4 DEF ExecuteExport, KeysOffered
<1>7. Shaped'
  BY <1>2, <1>4
  DEF ExecuteExport, Shaped, RestShape, ExportShape, EraseShape, SweepShape
<1>8. Apart'
  BY <1>2, <1>4 DEF ExecuteExport, Apart
<1>9. OnPending'
  BY <1>2, <1>4 DEF ExecuteExport, OnPending
<1>10. Collected'
  BY <1>2, <1>4 DEF ExecuteExport, Collected
<1>11. Swept'
  BY <1>2, <1>4 DEF ExecuteExport, Swept, TakenOver
<1>12. Stored'
  BY <1>2, <1>4
  DEF ExecuteExport, Stored, Shaped, RestShape, ExportShape, EraseShape, SweepShape
<1> QED BY <1>5, <1>6, <1>7, <1>8, <1>9, <1>10, <1>11, <1>12

LEMMA DeleteBundleKeeps ==
    ASSUME NEW w \in Workers, NEW e \in ExportIds, ExportsType, ExportsInv, DeleteBundle(w, e)
    PROVE  ExportsType' /\ ExportsInv'
<1> DEFINE r == [run[w] EXCEPT !.gone = run[w].gone \cup {e}]
<1> USE DEF ExportsInv
<1>1. run' = [run EXCEPT ![w] = r]
  BY DEF DeleteBundle
<1>2. /\ run \in [Workers -> RunType] /\ run[w] \in RunType
      /\ \A v \in Workers : run[v].rows \cup run[v].keys \subseteq ExportIds
  BY DEF ExportsType, RunType
<1>3. /\ r \in RunType
      /\ r.job = run[w].job /\ r.at = run[w].at /\ r.subject = run[w].subject
      /\ r.rows = run[w].rows /\ r.keys = run[w].keys /\ r.gone = run[w].gone \cup {e}
  BY <1>2, NoRunFields DEF DeleteBundle, ExportsType, RunType, Jobs, Places
<1>4. /\ run' \in [Workers -> RunType]
      /\ run'[w].job = run[w].job /\ run'[w].at = run[w].at /\ run'[w].subject = run[w].subject
      /\ run'[w].rows = run[w].rows /\ run'[w].keys = run[w].keys
      /\ run'[w].gone = run[w].gone \cup {e}
      /\ \A v \in Workers \ {w} : run'[v] = run[v]
  <2> HIDE DEF r
  <2> QED BY <1>1, <1>2, <1>3, RunBecomes
<1> HIDE DEF r
<1>5. ExportsType'
  BY <1>2, <1>4 DEF DeleteBundle, ExportsType, ExportStates, RunType
<1>6. KeysOffered'
  BY <1>2, <1>4 DEF DeleteBundle, KeysOffered
<1>7. Shaped'
  BY <1>2, <1>4 DEF DeleteBundle, Shaped, RestShape, ExportShape, EraseShape, SweepShape
<1>8. Apart'
  BY <1>2, <1>4 DEF DeleteBundle, Apart
<1>9. OnPending'
  BY <1>2, <1>4 DEF DeleteBundle, OnPending
<1>10. Collected'
  BY <1>2, <1>4 DEF DeleteBundle, Collected
<1>11. Swept'
  BY <1>2, <1>4 DEF DeleteBundle, Swept, TakenOver
<1>12. Stored'
  BY <1>2, <1>4
  DEF DeleteBundle, Stored, Shaped, RestShape, ExportShape, EraseShape, SweepShape,
      Apart, Collected, Swept, TakenOver
<1> QED BY <1>5, <1>6, <1>7, <1>8, <1>9, <1>10, <1>11, <1>12

LEMMA AskErasureKeeps ==
    ASSUME ExportsType, ExportsInv, AskErasure
    PROVE  ExportsType' /\ ExportsInv'
<1> USE DEF ExportsInv
<1>1. UNCHANGED <<export, bundles, cut>>
  BY DEF AskErasure
<1>2. \A v \in Workers : run[v].rows \cup run[v].keys \subseteq ExportIds
  BY DEF ExportsType, RunType
<1>5. ExportsType'
  BY DEF AskErasure, ExportsType, ExportStates
<1>6. KeysOffered'
  BY <1>1, <1>2 DEF AskErasure, KeysOffered
<1>7. Shaped'
  BY <1>1, <1>2 DEF AskErasure, Shaped, RestShape, ExportShape, EraseShape, SweepShape
<1>8. Apart'
  BY <1>1, <1>2 DEF AskErasure, Apart
<1>9. OnPending'
  BY <1>1, <1>2 DEF AskErasure, OnPending
<1>10. Collected'
  BY <1>1, <1>2 DEF AskErasure, Collected
<1>11. Swept'
  BY <1>1, <1>2 DEF AskErasure, Swept, TakenOver
<1>12. Stored'
  BY <1>1, <1>2 DEF AskErasure, Stored
<1> QED BY <1>5, <1>6, <1>7, <1>8, <1>9, <1>10, <1>11, <1>12

LEMMA AskExportKeeps ==
    ASSUME NEW e \in ExportIds, ExportsType, ExportsInv, AskExport(e)
    PROVE  ExportsType' /\ ExportsInv'
<1> USE DEF ExportsInv
<1>1. /\ \A d \in ExportIds \ {e} : export'[d] = export[d]
      /\ export'[e].status = "pending" /\ (export'[e].key <=> export[e].key)
      /\ (export'[e].due <=> export[e].due)
  BY DEF AskExport, ExportsType
<1>2. \A v \in Workers : run[v].rows \cup run[v].keys \subseteq ExportIds
  BY DEF ExportsType, RunType
<1>5. ExportsType'
  BY DEF AskExport, ExportsType, ExportStates
<1>6. KeysOffered'
  BY <1>1, <1>2 DEF AskExport, KeysOffered
<1>7. Shaped'
  BY <1>1, <1>2 DEF AskExport, Shaped, RestShape, ExportShape, EraseShape, SweepShape
<1>8. Apart'
  BY <1>1, <1>2 DEF AskExport, Apart
<1>9. OnPending'
  BY <1>1, <1>2 DEF AskExport, OnPending
<1>10. Collected'
  BY <1>1, <1>2 DEF AskExport, Collected
<1>11. Swept'
  BY <1>1, <1>2 DEF AskExport, Swept, TakenOver
<1>12. Stored'
  BY <1>1, <1>2 DEF AskExport, Stored
<1> QED BY <1>5, <1>6, <1>7, <1>8, <1>9, <1>10, <1>11, <1>12

LEMMA ElapseKeeps ==
    ASSUME NEW e \in ExportIds, ExportsType, ExportsInv, Elapse(e)
    PROVE  ExportsType' /\ ExportsInv'
<1> USE DEF ExportsInv
<1>1. /\ \A d \in ExportIds \ {e} : export'[d] = export[d]
      /\ export'[e].status = export[e].status /\ (export'[e].key <=> export[e].key)
      /\ export'[e].due
  BY DEF Elapse, ExportsType
<1>2. \A v \in Workers : run[v].rows \cup run[v].keys \subseteq ExportIds
  BY DEF ExportsType, RunType
<1>5. ExportsType'
  BY DEF Elapse, ExportsType, ExportStates
<1>6. KeysOffered'
  BY <1>1, <1>2 DEF Elapse, KeysOffered
<1>7. Shaped'
  BY <1>1, <1>2 DEF Elapse, Shaped, RestShape, ExportShape, EraseShape, SweepShape
<1>8. Apart'
  BY <1>1, <1>2 DEF Elapse, Apart
<1>9. OnPending'
  BY <1>1, <1>2 DEF Elapse, OnPending
<1>10. Collected'
  BY <1>1, <1>2 DEF Elapse, Collected
<1>11. Swept'
  BY <1>1, <1>2 DEF Elapse, Swept, TakenOver
<1>12. Stored'
  BY <1>1, <1>2 DEF Elapse, Stored
<1> QED BY <1>5, <1>6, <1>7, <1>8, <1>9, <1>10, <1>11, <1>12

LEMMA SetErasureKeeps ==
    ASSUME NEW new \in States, ExportsType, ExportsInv, SetErasure(new)
    PROVE  ExportsType' /\ ExportsInv'
<1> USE DEF ExportsInv
<1>1. UNCHANGED <<export, bundles, cut>>
  BY DEF SetErasure
<1>2. \A v \in Workers : run[v].rows \cup run[v].keys \subseteq ExportIds
  BY DEF ExportsType, RunType
<1>5. ExportsType'
  BY DEF SetErasure, ExportsType, ExportStates, AllowedState, States
<1>6. KeysOffered'
  BY <1>1, <1>2 DEF SetErasure, AllowedState, States, KeysOffered
<1>7. Shaped'
  BY <1>1, <1>2
  DEF SetErasure, AllowedState, States, Shaped, RestShape, ExportShape, EraseShape,
      SweepShape
<1>8. Apart'
  BY <1>1, <1>2 DEF SetErasure, AllowedState, States, Apart
<1>9. OnPending'
  BY <1>1, <1>2 DEF SetErasure, AllowedState, States, OnPending
<1>10. Collected'
  BY <1>1, <1>2 DEF SetErasure, AllowedState, States, Collected
<1>11. Swept'
  BY <1>1, <1>2 DEF SetErasure, AllowedState, States, Swept, TakenOver
<1>12. Stored'
  BY <1>1, <1>2 DEF SetErasure, AllowedState, States, Stored
<1> QED BY <1>5, <1>6, <1>7, <1>8, <1>9, <1>10, <1>11, <1>12

LEMMA SetExportKeeps ==
    ASSUME NEW e \in ExportIds, NEW new \in States, ExportsType, ExportsInv, SetExport(e, new)
    PROVE  ExportsType' /\ ExportsInv'
<1> USE DEF ExportsInv
<1>1. /\ \A d \in ExportIds \ {e} : export'[d] = export[d]
      /\ export'[e].status = new /\ (export'[e].key <=> export[e].key)
      /\ (export'[e].due <=> export[e].due)
  BY DEF SetExport, ExportsType
<1>2. \A v \in Workers : run[v].rows \cup run[v].keys \subseteq ExportIds
  BY DEF ExportsType, RunType
<1>5. ExportsType'
  BY DEF SetExport, ExportsType, ExportStates, AllowedState, States
<1>6. KeysOffered'
  BY <1>1, <1>2 DEF SetExport, AllowedState, States, KeysOffered
<1>7. Shaped'
  BY <1>1, <1>2
  DEF SetExport, AllowedState, States, Shaped, RestShape, ExportShape, EraseShape,
      SweepShape
<1>8. Apart'
  BY <1>1, <1>2 DEF SetExport, AllowedState, States, Apart
<1>9. OnPending'
  BY <1>1, <1>2 DEF SetExport, AllowedState, States, OnPending
<1>10. Collected'
  BY <1>1, <1>2 DEF SetExport, AllowedState, States, Collected
<1>11. Swept'
  BY <1>1, <1>2 DEF SetExport, AllowedState, States, Swept, TakenOver
<1>12. Stored'
  BY <1>1, <1>2 DEF SetExport, AllowedState, States, Stored
<1> QED BY <1>5, <1>6, <1>7, <1>8, <1>9, <1>10, <1>11, <1>12

LEMMA BundlesInvHolds == EntrySpec => [](ExportsType /\ ExportsInv)
<1>1. EntryInit => ExportsType /\ ExportsInv
  BY DEF EntryInit, ExportsInit, Unasked, NoRun, ExportsType, ExportsInv, RunType,
     Jobs, Places, ExportStates, KeysOffered, Shaped, RestShape, ExportShape,
     EraseShape, SweepShape, Apart, OnPending, Collected, Swept, TakenOver, Stored
<1>2. ExportsType /\ ExportsInv /\ [EntryNext]_entryVars => (ExportsType /\ ExportsInv)'
  <2> SUFFICES ASSUME ExportsType, ExportsInv, [EntryNext]_entryVars
               PROVE  ExportsType' /\ ExportsInv'
    OBVIOUS
  <2>1. CASE UNCHANGED exportVars
    <3>1. UNCHANGED <<export, erasure, bundles, run, cut>>
      BY <2>1 DEF exportVars
    <3>2. ExportsType'
      BY <3>1 DEF ExportsType
    <3>3. ExportsInv'
      BY <3>1
      DEF ExportsInv, KeysOffered, Shaped, RestShape, ExportShape, EraseShape,
          SweepShape, Apart, OnPending, Collected, Swept, TakenOver, Stored
    <3> QED BY <3>2, <3>3
  <2>2. CASE ExportsStep
    <3>1. ASSUME NEW e \in ExportIds, AskExport(e) \/ Elapse(e)
          PROVE  ExportsType' /\ ExportsInv'
      BY <3>1, AskExportKeeps, ElapseKeeps
    <3>2. ASSUME NEW new \in States, SetErasure(new) \/ \E e \in ExportIds : SetExport(e, new)
          PROVE  ExportsType' /\ ExportsInv'
      BY <3>2, SetErasureKeeps, SetExportKeeps
    <3>3. ASSUME NEW w \in Workers, CheckErased(w) \/ Abort(w)
          PROVE  ExportsType' /\ ExportsInv'
      BY <3>3, CheckErasedClearKeeps, CheckErasedFailsKeeps, AbortRetriedKeeps,
         AbortSpentKeeps
    <3>4. ASSUME NEW w \in Workers,
                 \/ LockSubject(w) \/ PutBundle(w) \/ CommitExport(w) \/ ArmErasure(w)
                 \/ CollectKeys(w) \/ EraseRows(w) \/ CommitErasure(w)
                 \/ SweepKeys(w) \/ SweepRows(w) \/ CommitSweep(w) \/ Exhausted(w)
          PROVE  ExportsType' /\ ExportsInv'
      BY <3>4, LockSubjectKeeps, PutBundleKeeps, CommitExportKeeps, ArmErasureKeeps,
         CollectKeysKeeps, EraseRowsKeeps, CommitErasureKeeps, SweepKeysKeeps,
         SweepRowsKeeps, CommitSweepKeeps, ExhaustedKeeps
    <3>5. ASSUME NEW w \in Workers, NEW e \in ExportIds, ExecuteExport(w, e) \/ DeleteBundle(w, e)
          PROVE  ExportsType' /\ ExportsInv'
      BY <3>5, ExecuteExportKeeps, DeleteBundleKeeps
    <3> QED BY <2>2, <3>1, <3>2, <3>3, <3>4, <3>5, AskErasureKeeps DEF ExportsStep
  <2> QED BY <2>1, <2>2 DEF EntryNext, entryVars
<1> QED BY <1>1, <1>2, PTL DEF EntrySpec

(* BundlesAgree (Exports): whatever exports, the erasure, the sweep and the *)
(* failures of any of them do to each other, the store holds the bundles   *)
(* whose rows say so, but for those that a failed transaction touched.     *)
THEOREM BundlesKept == EntrySpec => []BundlesAgree
<1>1. ExportsType /\ ExportsInv => BundlesAgree
  BY DEF ExportsInv, KeysOffered, Shaped, RestShape, ExportShape, EraseShape,
     SweepShape, Apart, OnPending, Collected, Swept, TakenOver, Stored, BundlesAgree,
     Underway
<1> QED BY <1>1, BundlesInvHolds, PTL

HIDE DEF Does, Puts, Keyed, Asked, Due, Free, RowsFree, SubjectFree, Running, Step,
         Release, InRun

-----------------------------------------------------------------------------
(* One-time codes. *)

DeskType ==
    /\ staff \subseteq Staff /\ clock \in Nat
    /\ claimed \subseteq [who : Staff, code : Int, until : Int]
    /\ DOMAIN desk = Desks /\ DOMAIN ticket = Keys /\ DOMAIN proof = Keys
    /\ \A p \in Desks : desk[p].at # "idle" => desk[p].who \in Staff
    /\ \A p \in Desks : desk[p].at \in {"matched", "claimed"} =>
         /\ desk[p].opened \in Int /\ desk[p].code \in Int
    /\ \A p \in Desks : desk[p].at \in {"read", "slid", "resolved"} => desk[p].key \in Minted
    /\ \A k \in Keys : ticket[k] # Nobody => ticket[k] \in Staff /\ k \in Minted
    /\ voided \subseteq Minted

\* A code spent is a code claimed, whose session is open or is about to be.
Opens(p, o, code) == On(p, "claimed") /\ desk[p].who = o /\ desk[p].code = code
Spent(o, code) ==
    (\E k \in Minted : proof[k] = <<o, code>>) \/ \E p \in Desks : Opens(p, o, code)

Alone(p) ==
    \A q \in Desks : On(q, "claimed") /\ desk[q].who = desk[p].who /\ desk[q].code = desk[p].code
                     => q = p
Unopened(p) == \A k \in Minted : proof[k] # <<desk[p].who, desk[p].code>>

\* A code that was spent is marked until no sign-in that it matched can claim it.
CodesInv ==
    /\ \A p \in Desks : On(p, "matched") =>
         /\ desk[p].opened <= clock /\ clock <= desk[p].opened + StallSteps
         /\ Matching(desk[p].code, desk[p].opened)
    /\ \A m \in claimed : m.until >= m.code - 1 + ReplaySteps
    /\ \A o \in Staff, code \in Int :
         Spent(o, code) => Live(o, code) \/ clock > code + 1 + StallSteps
    /\ OneCodeOneSession
    /\ \A p \in Desks : On(p, "claimed") => Alone(p) /\ Unopened(p)

\* The steps of sign-ins and of sessions.
SignStep == CodeStep \/ TicketStep

LEMMA DeskTypes ==
    ASSUME DeskType, SignStep
    PROVE  DeskType'
<1> USE OperatorsAssumption DEF DeskType, Minted, AtRest, On, Rest
<1>1. ASSUME NEW p \in Desks, NEW o \in Staff, NEW code \in 0..Steps + 1,
             AuthenticateOps(p, o, code)
      PROVE  DeskType'
    BY <1>1 DEF AuthenticateOps
<1>2. ASSUME NEW p \in Desks, Claim(p)  PROVE DeskType'
  <2>1. /\ desk[p].who \in Staff /\ desk[p].code \in Int /\ Until \in Int
        /\ desk[p].at = "matched"
    BY <1>2 DEF Claim, Until
  <2>2. CASE Live(desk[p].who, desk[p].code)
    BY <1>2, <2>2 DEF Claim
  <2>3. CASE ~Live(desk[p].who, desk[p].code)
    <3>1. /\ claimed' = claimed \cup {[who |-> desk[p].who, code |-> desk[p].code,
                                       until |-> Until]}
          /\ desk' = [desk EXCEPT ![p].at = "claimed", ![p].opened = 0]
          /\ UNCHANGED <<staff, clock, ticket, voided, proof>>
      BY <1>2, <2>3 DEF Claim
    <3>2. claimed' \subseteq [who : Staff, code : Int, until : Int]
      BY <2>1, <3>1
    <3> QED
      BY <2>1, <3>1, <3>2
  <2> QED
    BY <2>2, <2>3
<1>3. ASSUME NEW p \in Desks, NEW k \in Keys, OpenOps(p, k)  PROVE DeskType'
  <2>1. desk[p].who \in Staff /\ desk[p].code \in Int
    BY <1>3 DEF OpenOps
  <2>2. <<desk[p].who, desk[p].code>> # Nobody
    BY <2>1
  <2> QED
    BY <1>3, <2>1, <2>2 DEF OpenOps
<1>4. ASSUME NEW o \in Staff, DisableOperator(o)  PROVE DeskType'
    BY <1>4 DEF DisableOperator
<1>5. CASE NextStep
    BY <1>5 DEF NextStep
<1>6. ASSUME NEW p \in Desks, NEW k \in Keys, ResolveOps(p, k)  PROVE DeskType'
  <2>1. CASE k \in voided
    BY <1>6, <2>1 DEF ResolveOps
  <2>2. CASE k \notin voided
    <3>1. /\ ticket[k] \in Staff /\ k \in Minted
          /\ desk' = [desk EXCEPT ![p] = [AtRest EXCEPT !.at = "read", !.who = ticket[k],
                                                        !.key = k]]
          /\ UNCHANGED <<staff, clock, claimed, ticket, voided, proof>>
      BY <1>6, <2>2 DEF ResolveOps
    <3>2. /\ \A q \in Desks \ {p} : desk'[q] = desk[q]
          /\ desk'[p].at = "read" /\ desk'[p].who = ticket[k] /\ desk'[p].key = k
      BY <3>1
    <3>3. DOMAIN desk' = Desks
      BY <3>1
    <3> QED
      BY <3>1, <3>2, <3>3
  <2> QED
    BY <2>1, <2>2
<1>7. ASSUME NEW p \in Desks, SlideOps(p)  PROVE DeskType'
    BY <1>7 DEF SlideOps
<1>8. ASSUME NEW p \in Desks, CheckOps(p)  PROVE DeskType'
  <2>1. CASE desk[p].key \in voided
    BY <1>8, <2>1 DEF CheckOps
  <2>2. CASE desk[p].key \notin voided
    <3>1. /\ desk' = [desk EXCEPT ![p].at = "resolved"] /\ desk[p].at = "slid"
          /\ UNCHANGED <<staff, clock, claimed, ticket, voided, proof>>
      BY <1>8, <2>2 DEF CheckOps
    <3> QED
      BY <3>1
  <2> QED
    BY <2>1, <2>2
<1>9. ASSUME NEW p \in Desks, CurrentOps(p)  PROVE DeskType'
    BY <1>9 DEF CurrentOps, Void
<1>10. ASSUME NEW p \in Desks, SignOutOps(p)  PROVE DeskType'
    BY <1>10 DEF SignOutOps, Void
<1>11. ASSUME NEW k \in Keys, ExpireOps(k)  PROVE DeskType'
    BY <1>11 DEF ExpireOps
<1> HIDE DEF DeskType
<1> QED
    BY <1>1, <1>2, <1>3, <1>4, <1>5, <1>6, <1>7, <1>8, <1>9, <1>10, <1>11
    DEF SignStep, CodeStep, TicketStep, SignInStep

LEMMA CodesStep ==
    ASSUME StallSteps + 2 < ReplaySteps, DeskType, CodesInv, SignStep
    PROVE  CodesInv'
<1> USE OperatorsAssumption DEF DeskType, On
<1>1. ASSUME NEW p \in Desks, NEW o \in Staff, NEW code \in 0..Steps + 1,
             AuthenticateOps(p, o, code)
      PROVE  CodesInv'
  <2>1. /\ desk[p].at = "idle" /\ Matching(code, clock)
        /\ desk' = [desk EXCEPT ![p] = [AtRest EXCEPT !.at = "matched", !.who = o,
                                                      !.opened = clock, !.code = code]]
        /\ UNCHANGED <<claimed, clock, proof>>
    BY <1>1 DEF AuthenticateOps
  <2>2. \A q \in Desks : /\ On(q, "claimed")' <=> On(q, "claimed")
                         /\ On(q, "claimed") => desk'[q] = desk[q]
    BY <2>1 DEF AtRest
  <2>3. \A x, c : Spent(x, c)' <=> Spent(x, c)
    BY <2>1, <2>2 DEF Spent, Opens, Minted
  <2>4. \A q \in Desks : On(q, "matched")' =>
          /\ desk'[q].opened <= clock' /\ clock' <= desk'[q].opened + StallSteps
          /\ Matching(desk'[q].code, desk'[q].opened)
    BY <2>1 DEF CodesInv, AtRest, Matching
  <2> QED
    BY <2>1, <2>2, <2>3, <2>4
    DEF CodesInv, OneCodeOneSession, Minted, Live, Alone, Unopened
<1>2. ASSUME UNCHANGED <<clock, claimed, proof>>,
             \A q \in Desks : On(q, "matched")' \/ On(q, "claimed")' => desk'[q] = desk[q]
      PROVE  CodesInv'
  <2>1. \A x, c : Spent(x, c)' => Spent(x, c)
    BY <1>2 DEF Spent, Opens, Minted
  <2> QED
    BY <1>2, <2>1 DEF CodesInv, OneCodeOneSession, Minted, Live, Alone, Unopened
<1>3. ASSUME NEW p \in Desks, Claim(p)  PROVE CodesInv'
  <2> DEFINE o == desk[p].who
             c == desk[p].code
  <2>1. /\ desk[p].at = "matched" /\ o \in Staff /\ c \in Int
        /\ clock >= c - 1 /\ clock <= c + 1 + StallSteps
    BY <1>3 DEF Claim, CodesInv, Matching
  <2>2. CASE Live(o, c)
    <3>1. desk' = [desk EXCEPT ![p] = AtRest] /\ UNCHANGED <<clock, claimed, proof>>
      BY <1>3, <2>2 DEF Claim, Rest
    <3>2. \A q \in Desks : On(q, "matched")' \/ On(q, "claimed")' => desk'[q] = desk[q]
      BY <3>1 DEF AtRest
    <3> QED
      BY <1>2, <3>1, <3>2
  <2>3. CASE ~Live(o, c)
    <3>1. /\ desk' = [desk EXCEPT ![p].at = "claimed", ![p].opened = 0]
          /\ claimed' = claimed \cup {[who |-> o, code |-> c, until |-> Until]}
          /\ UNCHANGED <<clock, proof>>
      BY <1>3, <2>3 DEF Claim
    <3>2. ~Spent(o, c)
      BY <2>1, <2>3 DEF CodesInv
    <3>3. desk'[p].at = "claimed" /\ desk'[p].who = o /\ desk'[p].code = c
      BY <3>1
    <3>4. \A q \in Desks \ {p} : desk'[q] = desk[q]
      BY <3>1
    <3>5. \A q \in Desks : \A x, y : Opens(q, x, y)' <=> Opens(q, x, y) \/ (q = p /\ x = o /\ y = c)
      BY <2>1, <3>3, <3>4 DEF Opens
    <3>6. \A x, y : Spent(x, y)' => Spent(x, y) \/ (x = o /\ y = c)
      BY <3>1, <3>5 DEF Spent, Minted
    <3> DEFINE marker == [who |-> o, code |-> c, until |-> Until]
    <3>71. marker \in claimed' /\ marker.who = o /\ marker.code = c /\ claimed \subseteq claimed'
      BY <3>1
    <3> HIDE DEF marker
    <3>7. /\ \E m \in claimed' : m.who = o /\ m.code = c
          /\ \A x, y : Live(x, y) => \E m \in claimed' : m.who = x /\ m.code = y
      BY <3>71 DEF Live
    <3>8. \A m \in claimed' : m.until >= m.code - 1 + ReplaySteps
      BY <2>1, <3>1 DEF CodesInv, Until
    <3>9. \A q \in Desks : On(q, "matched")' =>
            /\ desk'[q].opened <= clock' /\ clock' <= desk'[q].opened + StallSteps
            /\ Matching(desk'[q].code, desk'[q].opened)
      BY <3>1, <3>3, <3>4 DEF CodesInv
    <3>10. OneCodeOneSession'
      BY <3>1 DEF CodesInv, OneCodeOneSession, Minted
    <3>11. ASSUME NEW q \in Desks, On(q, "claimed")'
           PROVE  Alone(q)' /\ Unopened(q)'
      <4>1. CASE q = p
        <5>1. \A r \in Desks : ~Opens(r, o, c)
          BY <3>2 DEF Spent
        <5>2. \A k \in Minted : proof[k] # <<o, c>>
          BY <3>2 DEF Spent
        <5>3. Minted' = Minted /\ proof' = proof
          BY <3>1 DEF Minted
        <5>4. desk'[q].who = o /\ desk'[q].code = c
          BY <3>3, <4>1
        <5> QED
          BY <3>3, <3>4, <4>1, <5>1, <5>2, <5>3, <5>4 DEF Alone, Unopened, Opens
      <4>2. CASE q # p
        <5>1. desk'[q] = desk[q] /\ On(q, "claimed")
          BY <3>4, <3>11, <4>2
        <5>2. ~(desk[q].who = o /\ desk[q].code = c)
          BY <3>2, <5>1 DEF Spent, Opens
        <5>3. Minted' = Minted /\ proof' = proof
          BY <3>1 DEF Minted
        <5>4. Alone(q) /\ Unopened(q)
          BY <5>1 DEF CodesInv
        <5> QED
          BY <3>3, <3>4, <5>1, <5>2, <5>3, <5>4 DEF Alone, Unopened
      <4> QED
        BY <4>1, <4>2
    <3>12. \A x \in Staff, y \in Int :
             Spent(x, y)' => \/ \E m \in claimed' : m.who = x /\ m.code = y
                             \/ clock' > y + 1 + StallSteps
      BY <3>1, <3>6, <3>7 DEF CodesInv
    <3> QED
      BY <3>8, <3>9, <3>10, <3>11, <3>12 DEF CodesInv, Live
  <2> QED
    BY <2>2, <2>3
<1>4. ASSUME NEW p \in Desks, NEW k \in Keys, OpenOps(p, k)  PROVE CodesInv'
  <2> DEFINE o == desk[p].who
             c == desk[p].code
  <2>1. /\ desk[p].at = "claimed" /\ k \notin Minted /\ desk' = [desk EXCEPT ![p] = AtRest]
        /\ UNCHANGED <<clock, claimed>>
    BY <1>4 DEF OpenOps, Rest
  <2>2. CASE o \notin staff
    <3>1. proof' = proof
      BY <1>4, <2>2 DEF OpenOps
    <3>2. \A q \in Desks : On(q, "matched")' \/ On(q, "claimed")' => desk'[q] = desk[q]
      BY <2>1 DEF AtRest
    <3> QED
      BY <1>2, <2>1, <3>1, <3>2
  <2>3. CASE o \in staff
    <3>1. proof' = [proof EXCEPT ![k] = <<o, c>>]
      BY <1>4, <2>3 DEF OpenOps
    <3>2. \A q \in Desks : \A x, y : Opens(q, x, y)' <=> q # p /\ Opens(q, x, y)
      BY <2>1 DEF Opens, AtRest
    <3>3. Minted' \subseteq Minted \cup {k} /\ \A l \in Minted' \ {k} : proof'[l] = proof[l]
      BY <3>1 DEF Minted
    <3>4. \A x, y : Spent(x, y)' => Spent(x, y)
      <4> TAKE x, y
      <4>1. CASE \E q \in Desks : Opens(q, x, y)'
        BY <3>2, <4>1 DEF Spent
      <4>2. ASSUME NEW l \in Minted', proof'[l] = <<x, y>>  PROVE Spent(x, y)
        <5>1. CASE l = k
          <6>1. x = o /\ y = c
            BY <3>1, <4>2, <5>1
          <6>2. Opens(p, x, y)
            BY <2>1, <6>1 DEF Opens
          <6> QED
            BY <6>2 DEF Spent
        <5>2. CASE l # k
          BY <3>3, <4>2, <5>2 DEF Spent
        <5> QED
          BY <5>1, <5>2
      <4> QED
        BY <4>1, <4>2 DEF Spent
    <3>5. \A l \in Minted : proof[l] # <<o, c>>
      BY <2>1 DEF CodesInv, Unopened
    <3>6. OneCodeOneSession'
      BY <3>1, <3>3, <3>5 DEF CodesInv, OneCodeOneSession
    <3>7. ASSUME NEW q \in Desks, On(q, "claimed")'
          PROVE  Alone(q)' /\ Unopened(q)'
      <4>1. q # p /\ desk'[q] = desk[q] /\ On(q, "claimed")
        BY <2>1, <3>7 DEF AtRest
      <4>2. <<desk[q].who, desk[q].code>> # <<o, c>>
        BY <2>1, <4>1 DEF CodesInv, Alone
      <4>3. Alone(q) /\ Unopened(q)
        BY <4>1 DEF CodesInv
      <4>4. \A l \in Minted' : proof'[l] # <<desk[q].who, desk[q].code>>
        BY <3>1, <3>3, <4>2, <4>3 DEF Unopened
      <4>5. \A r \in Desks : On(r, "claimed")' => On(r, "claimed") /\ desk'[r] = desk[r]
        BY <2>1 DEF AtRest
      <4> QED
        BY <4>1, <4>3, <4>4, <4>5 DEF Alone, Unopened
    <3>8. \A q \in Desks : On(q, "matched")' => desk'[q] = desk[q]
      BY <2>1 DEF AtRest
    <3>9. \A q \in Desks : On(q, "matched")' =>
            /\ desk'[q].opened <= clock' /\ clock' <= desk'[q].opened + StallSteps
            /\ Matching(desk'[q].code, desk'[q].opened)
      BY <2>1, <3>8 DEF CodesInv
    <3>10. \A x \in Staff, y \in Int :
             Spent(x, y)' => Live(x, y) \/ clock > y + 1 + StallSteps
      BY <3>4 DEF CodesInv
    <3>11. \A x \in Staff, y \in Int :
             Spent(x, y)' => Live(x, y)' \/ clock' > y + 1 + StallSteps
      BY <2>1, <3>10 DEF Live
    <3>12. \A m \in claimed' : m.until >= m.code - 1 + ReplaySteps
      BY <2>1 DEF CodesInv
    <3> QED
      BY <3>6, <3>7, <3>9, <3>11, <3>12 DEF CodesInv
  <2> QED
    BY <2>2, <2>3
<1>5. CASE NextStep
  <2>1. /\ clock' = clock + 1 /\ claimed' = {m \in claimed : clock' < m.until}
        /\ \A p \in Desks : On(p, "matched") => clock < desk[p].opened + StallSteps
        /\ UNCHANGED <<proof, desk>>
    BY <1>5 DEF NextStep
  <2>2. \A q \in Desks : \A x, y : Opens(q, x, y)' <=> Opens(q, x, y)
    BY <2>1 DEF Opens
  <2>3. Minted' = Minted
    BY <2>1 DEF Minted
  <2>4. ASSUME NEW x \in Staff, NEW y \in Int, Spent(x, y)
        PROVE  Live(x, y)' \/ clock' > y + 1 + StallSteps
    <3>1. CASE clock > y + 1 + StallSteps
      BY <2>1, <3>1
    <3>2. ASSUME NEW m \in claimed, m.who = x, m.code = y, ~(clock' < m.until)
          PROVE  clock' > y + 1 + StallSteps
      BY <2>1, <3>2 DEF CodesInv
    <3> QED
      BY <2>1, <2>4, <3>1, <3>2 DEF CodesInv, Live
  <2>5. \A x, y : Spent(x, y)' <=> Spent(x, y)
    BY <2>1, <2>2, <2>3 DEF Spent
  <2>6. \A q \in Desks : On(q, "matched")' =>
          /\ desk'[q].opened <= clock' /\ clock' <= desk'[q].opened + StallSteps
          /\ Matching(desk'[q].code, desk'[q].opened)
    BY <2>1 DEF CodesInv
  <2> QED
    BY <2>1, <2>2, <2>3, <2>4, <2>5, <2>6
    DEF CodesInv, OneCodeOneSession, Alone, Unopened
<1>6. ASSUME NEW p \in Desks, \/ SlideOps(p) \/ CheckOps(p) \/ CurrentOps(p) \/ SignOutOps(p)
                              \/ \E k \in Keys : ResolveOps(p, k)
      PROVE  CodesInv'
  <2>1. UNCHANGED <<clock, claimed, proof>>
    BY <1>6 DEF SlideOps, CheckOps, CurrentOps, SignOutOps, ResolveOps
  <2>2. /\ \A q \in Desks \ {p} : desk'[q] = desk[q]
        /\ desk'[p].at \notin {"matched", "claimed"}
    <3>1. CASE SlideOps(p)
      BY <3>1 DEF SlideOps
    <3>2. CASE CheckOps(p)
      <4>1. CASE desk[p].key \in voided
        BY <3>2, <4>1 DEF CheckOps, Rest, AtRest
      <4>2. CASE desk[p].key \notin voided
        <5>1. desk' = [desk EXCEPT ![p].at = "resolved"]
          BY <3>2, <4>2 DEF CheckOps
        <5> QED
          BY <5>1
      <4> QED
        BY <4>1, <4>2
    <3>3. CASE CurrentOps(p)
      BY <3>3 DEF CurrentOps, Rest, AtRest
    <3>4. CASE SignOutOps(p)
      BY <3>4 DEF SignOutOps, Rest, AtRest
    <3>5. ASSUME NEW k \in Keys, ResolveOps(p, k)
          PROVE  /\ \A q \in Desks \ {p} : desk'[q] = desk[q]
                 /\ desk'[p].at \notin {"matched", "claimed"}
      <4>1. CASE k \in voided
        BY <3>5, <4>1 DEF ResolveOps
      <4>2. CASE k \notin voided
        <5> DEFINE row == [AtRest EXCEPT !.at = "read", !.who = ticket[k], !.key = k]
        <5>1. row.at = "read"
          BY DEF AtRest
        <5> HIDE DEF row
        <5>2. desk' = [desk EXCEPT ![p] = row] /\ p \in DOMAIN desk
          BY <3>5, <4>2 DEF ResolveOps, row
        <5> QED
          BY <5>1, <5>2
      <4> QED
        BY <4>1, <4>2
    <3> QED
      BY <1>6, <3>1, <3>2, <3>3, <3>4, <3>5
  <2>3. \A q \in Desks : On(q, "matched")' \/ On(q, "claimed")' => desk'[q] = desk[q]
    BY <2>2
  <2> QED
    BY <1>2, <2>1, <2>3
<1>7. ASSUME NEW o \in Staff, DisableOperator(o)  PROVE CodesInv'
    BY <1>2, <1>7 DEF DisableOperator
<1>8. ASSUME NEW k \in Keys, ExpireOps(k)  PROVE CodesInv'
    BY <1>2, <1>8 DEF ExpireOps
<1> HIDE DEF DeskType
<1> QED
    BY <1>1, <1>3, <1>4, <1>5, <1>6, <1>7, <1>8
    DEF SignStep, CodeStep, TicketStep, SignInStep

\* Types and the argument, of every execution: no other surface moves them.
LEMMA CodesHold ==
    ASSUME StallSteps + 2 < ReplaySteps
    PROVE  EntrySpec => [](DeskType /\ CodesInv)
<1>1. EntryInit => DeskType /\ CodesInv
  <2> SUFFICES ASSUME OperatorsInit  PROVE DeskType /\ CodesInv
    BY DEF EntryInit
  <2>1. /\ staff = Staff /\ clock = 1 /\ claimed = {} /\ voided = {}
        /\ ticket = [k \in Keys |-> Nobody] /\ proof = [k \in Keys |-> Nobody]
        /\ desk = [p \in Desks |-> AtRest]
    BY DEF OperatorsInit
  <2>2. Minted = {} /\ \A p \in Desks : desk[p].at = "idle"
    BY <2>1 DEF Minted, AtRest
  <2>3. DeskType
    BY <2>1, <2>2 DEF DeskType
  <2> QED
    BY <2>1, <2>2, <2>3 DEF CodesInv, Spent, Opens, On, OneCodeOneSession
<1>2. DeskType /\ CodesInv /\ [EntryNext]_entryVars => (DeskType /\ CodesInv)'
  <2> SUFFICES ASSUME DeskType, CodesInv, [EntryNext]_entryVars
               PROVE  DeskType' /\ CodesInv'
    OBVIOUS
  <2>1. CASE SignStep
    BY <2>1, DeskTypes, CodesStep
  <2>2. CASE UNCHANGED signVars
    BY <2>2
    DEF signVars, DeskType, CodesInv, Spent, Opens, On, OneCodeOneSession, Minted,
                Live, Alone, Unopened, Matching
  <2>3. SignStep \/ UNCHANGED signVars
    BY DEF EntryNext, entryVars, operatorVars, SignStep
  <2> QED
    BY <2>1, <2>2, <2>3
<1> QED
  BY <1>1, <1>2, PTL DEF EntrySpec

(* A one-time code opens one session, for any number of sign-ins at a time, *)
(* if a sign-in claims its code soon enough that the marker of the code     *)
(* outlives every sign-in that it matched.                                  *)
THEOREM CodesOpenOne ==
    ASSUME StallSteps + 2 < ReplaySteps
    PROVE  EntrySpec => []OneCodeOneSession
<1>1. CodesInv => OneCodeOneSession
  BY DEF CodesInv
<1> QED
  BY <1>1, CodesHold, PTL

\* Nothing is left of a session of an operator that was ended.
LEMMA VoidedStep ==
    ASSUME DeskType, VoidedLeavesNothing, SignStep
    PROVE  VoidedLeavesNothing'
<1> USE OperatorsAssumption DEF DeskType, On, Rest
<1> USE DEF VoidedLeavesNothing
<1>1. ASSUME UNCHANGED voided,
             \A k \in Keys : ticket'[k] # Nobody => ticket'[k] = ticket[k],
             \A p \in Desks : desk[p].at = "slid" => desk'[p] = desk[p]
      PROVE  VoidedLeavesNothing'
  BY <1>1 DEF Minted
<1>2. ASSUME NEW p \in Desks, NEW o \in Staff, NEW code \in 0..Steps + 1,
             AuthenticateOps(p, o, code)
      PROVE  VoidedLeavesNothing'
  BY <1>1, <1>2 DEF AuthenticateOps
<1>3. ASSUME NEW p \in Desks, Claim(p)  PROVE VoidedLeavesNothing'
  BY <1>1, <1>3 DEF Claim
<1>4. ASSUME NEW p \in Desks, NEW k \in Keys, OpenOps(p, k)  PROVE VoidedLeavesNothing'
  <2>1. k \notin voided /\ \A l \in Keys \ {k} : ticket'[l] = ticket[l]
    BY <1>4 DEF OpenOps
  <2> QED
    BY <1>4, <2>1 DEF OpenOps, Minted
<1>5. ASSUME NEW p \in Desks, NEW k \in Keys, ResolveOps(p, k)  PROVE VoidedLeavesNothing'
  BY <1>1, <1>5 DEF ResolveOps
<1>6. ASSUME NEW p \in Desks, SlideOps(p)  PROVE VoidedLeavesNothing'
  <2>1. /\ desk'[p].key = desk[p].key /\ desk'[p].at = "slid"
        /\ \A q \in Desks \ {p} : desk'[q] = desk[q]
        /\ \A k \in Keys \ {desk[p].key} : ticket'[k] = ticket[k]
        /\ voided' = voided /\ p \in Desks
    BY <1>6 DEF SlideOps
  <2> QED
    BY <1>6, <2>1 DEF SlideOps, Minted
<1>7. ASSUME NEW p \in Desks, CheckOps(p)  PROVE VoidedLeavesNothing'
  <2>1. desk[p].key \in Keys /\ desk[p].at = "slid" /\ voided' = voided
    BY <1>7 DEF CheckOps, Minted
  <2>2. \A q \in Desks \ {p} : desk'[q] = desk[q]
    BY <1>7 DEF CheckOps
  <2>3. \A k \in Keys : ticket'[k] # Nobody => ticket'[k] = ticket[k]
    BY <1>7 DEF CheckOps
  <2>4. desk[p].key \in voided => ticket'[desk[p].key] = Nobody
    BY <1>7, <2>1 DEF CheckOps
  <2> QED
    BY <2>1, <2>2, <2>3, <2>4 DEF Minted
<1>8. ASSUME NEW p \in Desks, CurrentOps(p) \/ SignOutOps(p)  PROVE VoidedLeavesNothing'
  <2>1. /\ desk[p].at = "resolved" /\ desk[p].key \in Keys
        /\ \A q \in Desks \ {p} : desk'[q] = desk[q]
    BY <1>8 DEF CurrentOps, SignOutOps, Minted
  <2>2. CASE UNCHANGED <<ticket, voided>>
    BY <2>1, <2>2 DEF Minted
  <2>3. CASE Void(desk[p].key)
    BY <2>1, <2>3 DEF Minted, Void
  <2> QED
    BY <1>8, <2>2, <2>3 DEF CurrentOps, SignOutOps
<1>9. ASSUME NEW o \in Staff, DisableOperator(o)  PROVE VoidedLeavesNothing'
  BY <1>1, <1>9 DEF DisableOperator
<1>10. ASSUME NEW k \in Keys, ExpireOps(k)  PROVE VoidedLeavesNothing'
  BY <1>1, <1>10 DEF ExpireOps
<1>11. CASE NextStep
  BY <1>1, <1>11 DEF NextStep
<1> HIDE DEF DeskType, VoidedLeavesNothing
<1> QED
  BY <1>2, <1>3, <1>4, <1>5, <1>6, <1>7, <1>8, <1>9, <1>10, <1>11
  DEF SignStep, CodeStep, TicketStep, SignInStep

\* The same of every execution.
LEMMA VoidedHolds == EntrySpec => []VoidedLeavesNothing
<1>1. EntryInit => DeskType /\ VoidedLeavesNothing
  <2> SUFFICES ASSUME OperatorsInit  PROVE DeskType /\ VoidedLeavesNothing
    BY DEF EntryInit
  <2>1. /\ staff = Staff /\ clock = 1 /\ claimed = {} /\ voided = {}
        /\ ticket = [k \in Keys |-> Nobody] /\ proof = [k \in Keys |-> Nobody]
        /\ desk = [p \in Desks |-> AtRest]
    BY DEF OperatorsInit
  <2>2. Minted = {} /\ \A p \in Desks : desk[p].at = "idle"
    BY <2>1 DEF Minted, AtRest
  <2> QED
    BY <2>1, <2>2 DEF DeskType, VoidedLeavesNothing
<1>2. DeskType /\ VoidedLeavesNothing /\ [EntryNext]_entryVars
      => (DeskType /\ VoidedLeavesNothing)'
  <2> SUFFICES ASSUME DeskType, VoidedLeavesNothing, [EntryNext]_entryVars
               PROVE  DeskType' /\ VoidedLeavesNothing'
    OBVIOUS
  <2>1. CASE SignStep
    BY <2>1, DeskTypes, VoidedStep
  <2>2. CASE UNCHANGED signVars
    BY <2>2 DEF signVars, DeskType, VoidedLeavesNothing, On, Minted
  <2>3. SignStep \/ UNCHANGED signVars
    BY DEF EntryNext, entryVars, operatorVars, SignStep
  <2> QED
    BY <2>1, <2>2, <2>3
<1> QED
  BY <1>1, <1>2, PTL DEF EntrySpec

-----------------------------------------------------------------------------
(* Sessions of accounts. *)

SessionRows == [account : Accounts, gate : Gates, epoch : Nat,
                credential : Credentials, secret : Nat]
Moments == {"idle", "verified", "captured", "loaded", "written", "read", "slid", "resolved",
           "drop", "admitted", "exited", "rotating", "rotated", "due", "bumped", "listed",
           "checked"}
RequestSet == [at : Moments, account : Accounts \cup {NoOne}, cookie : Cookies \cup {NoOne},
                gate : Gates, epoch : Nat, credential : Credentials, secret : Nat,
                seen : SessionRows \cup {NoSession}, keys : SUBSET Cookies,
                team : Managers \cup {NoOne}]
AccountRows == [status : {"absent", "active", "deactivated"}, credential : Credentials,
                secret : Nat,
                team : Managers \cup {NoOne}]

\* Types, but for the bounds of the instances.
StoreType ==
    /\ account \in [Accounts -> AccountRows]
    /\ record \in [Cookies -> SessionRows \cup {NoSession}]
    /\ epoch \in [Accounts -> Nat]
    /\ req \in [Requests -> RequestSet]
    /\ minted \subseteq Cookies /\ held \subseteq minted /\ revoked \subseteq minted

\* What a session, or a request on its way to one, says of its account: while its
\* epoch is the present one, and no revocation is due, the account is active and
\* its password's reset the one of the session.
Fresh(a, e, s) ==
    /\ e <= epoch[a]
    /\ e = epoch[a] /\ Revoking(a) = {} => Active(a) /\ s = account[a].secret

Seeing == {"read", "slid", "resolved", "drop", "admitted", "exited", "rotating"}
Sees(p) == req[p].at \in Seeing

RequestOK(p) ==
    LET r == req[p] IN
    /\ r.at # "idle" => r.account \in Accounts
    /\ r.at = "captured" => r.epoch <= epoch[r.account]
    /\ r.at \in {"loaded", "written"} => Fresh(r.account, r.epoch, r.secret)
    /\ r.at \in {"written", "rotated"} \cup Seeing => r.cookie \in minted
    /\ r.at \in Seeing => /\ r.seen \in SessionRows /\ r.seen.account = r.account
                          /\ Fresh(r.account, r.seen.epoch, r.seen.secret)
    /\ r.at \in {"exited", "rotating"} => Fresh(r.account, r.seen.epoch, r.secret)

RecordOK(c) ==
    record[c] # NoSession =>
        c \in minted /\ Fresh(record[c].account, record[c].epoch, record[c].secret)

\* A cookie's record is deleted or written back, and never another.
SameRecord ==
    \A p \in Requests : Sees(p) =>
        /\ record[req[p].cookie] # NoSession => record[req[p].cookie] = req[p].seen
        /\ \A q \in Requests : Sees(q) /\ req[q].cookie = req[p].cookie => req[q].seen = req[p].seen

SessionsInv ==
    /\ \A p \in Requests : RequestOK(p)
    /\ \A c \in Cookies : RecordOK(c)
    /\ SameRecord
    /\ RevokedLeavesNothing

LEMMA Nobodies ==
    /\ NoOne \notin Accounts /\ NoOne \notin Cookies
    /\ NoSession \notin SessionRows
    /\ Idle \in RequestSet /\ Idle.at = "idle" /\ Idle.account = NoOne
    /\ Managers \subseteq Accounts /\ Reps \subseteq Accounts
  <1>1. NoOne \notin Accounts /\ NoOne \notin Cookies
    BY IdentityAssumption DEF Accounts
  <1>2. NoSession \notin SessionRows
    BY <1>1 DEF NoSession, SessionRows
  <1>3. Idle.at = "idle" /\ Idle.account = NoOne
    BY DEF Idle
  <1>4. Idle \in RequestSet
    <2>1. /\ NoOne \in Accounts \cup {NoOne} /\ NoOne \in Cookies \cup {NoOne}
          /\ "none" \in Gates /\ "initial" \in Credentials
          /\ NoSession \in SessionRows \cup {NoSession}
          /\ {} \in SUBSET Cookies /\ NoOne \in Managers \cup {NoOne}
          /\ "idle" \in Moments
      BY DEF Gates, Credentials, Moments
    <2> QED
      BY <2>1 DEF Idle, RequestSet
  <1>5. Managers \subseteq Accounts /\ Reps \subseteq Accounts
    BY DEF Accounts
  <1> QED
    BY <1>1, <1>2, <1>3, <1>4, <1>5

LEMMA AccountFields ==
    ASSUME NEW y \in AccountRows
    PROVE  /\ \A v \in {"absent", "active", "deactivated"} :
               /\ [y EXCEPT !.status = v] \in AccountRows
                                /\ [y EXCEPT !.status = v].status = v
                                /\ [y EXCEPT !.status = v].secret = y.secret
           /\ \A v \in Credentials : /\ [y EXCEPT !.credential = v] \in AccountRows
                                     /\ [y EXCEPT !.credential = v].status = y.status
                                     /\ [y EXCEPT !.credential = v].secret = y.secret
           /\ \A v \in Nat : /\ [y EXCEPT !.secret = v] \in AccountRows
                             /\ [y EXCEPT !.secret = v].status = y.status
                             /\ [y EXCEPT !.secret = v].secret = v
           /\ \A v \in Managers : /\ [y EXCEPT !.team = v] \in AccountRows
                                  /\ [y EXCEPT !.team = v].status = y.status
                                  /\ [y EXCEPT !.team = v].secret = y.secret
  BY DEF AccountRows

\* An account's rows under the transactions that write them.
LEMMA RowsKept ==
    ASSUME NEW a \in Accounts, account \in [Accounts -> AccountRows],
           NEW y \in AccountRows, account' = [account EXCEPT ![a] = y]
    PROVE  /\ account' \in [Accounts -> AccountRows] /\ account'[a] = y
           /\ \A b \in Accounts \ {a} : account'[b] = account[b]
  OBVIOUS

\* Evidence stays good: what makes an account's sessions stale makes a
\* revocation due in the same step, and the revocation moves the epoch on.
LEMMA QuietKeeps ==
    ASSUME UNCHANGED epoch, \A b \in Accounts : /\ Active(b) => Active(b)'
                                                /\ Active(b) => account'[b].secret = account[b].secret,
           \A p \in Requests : req[p].at = "due" => req'[p] = req[p],
           NEW a \in Accounts, NEW e, NEW s, Fresh(a, e, s)
    PROVE  Fresh(a, e, s)'
<1>1. Revoking(a)' = {} => Revoking(a) = {}
  BY DEF Revoking
<1> QED
  BY <1>1 DEF Fresh

LEMMA DueKeeps ==
    ASSUME UNCHANGED epoch, NEW b \in Accounts, NEW p \in Requests,
           req'[p].at = "due", req'[p].account = b,
           \A q \in Requests : req[q].at = "due" => req'[q] = req[q],
           \A c \in Accounts \ {b} : account'[c] = account[c],
           NEW a \in Accounts, NEW e, NEW s, Fresh(a, e, s)
    PROVE  Fresh(a, e, s)'
<1>1. Revoking(a)' = {} => Revoking(a) = {}
  BY DEF Revoking
<1>2. CASE a = b
  <2>1. p \in Revoking(a)'
    BY <1>2 DEF Revoking
  <2> QED
    BY <2>1 DEF Fresh
<1>3. CASE a # b
  BY <1>1, <1>3 DEF Fresh, Active
<1> QED
  BY <1>2, <1>3

LEMMA BumpKeeps ==
    ASSUME NEW p \in Requests, BumpEpoch(p), StoreType, req[p].account \in Accounts,
           NEW a \in Accounts, NEW e \in Nat, NEW s, Fresh(a, e, s)
    PROVE  Fresh(a, e, s)'
<1>1. /\ epoch' = [epoch EXCEPT ![req[p].account] = @ + 1] /\ account' = account
      /\ req' = [req EXCEPT ![p].at = "bumped"]
  BY DEF BumpEpoch, Become, rows
<1>2. CASE a = req[p].account
  <2>1. epoch'[a] = epoch[a] + 1 /\ epoch[a] \in Nat
    BY <1>1, <1>2 DEF StoreType
  <2> QED
    BY <2>1 DEF Fresh
<1>3. CASE a # req[p].account
  <2>1. epoch'[a] = epoch[a]
    BY <1>1, <1>3 DEF StoreType
  <2>2. \A q \in Revoking(a) : q # p
    BY <1>3 DEF Revoking
  <2>3. \A q \in Requests \ {p} : req'[q] = req[q]
    BY <1>1 DEF StoreType
  <2>4. Revoking(a)' = {} => Revoking(a) = {}
    BY <2>2, <2>3 DEF Revoking
  <2> QED
    BY <1>1, <2>1, <2>4 DEF Fresh, Active
<1> QED
  BY <1>2, <1>3

\* What a step that moves one request, and that deletes records or none, has to show.
LEMMA Moves ==
    ASSUME StoreType, SessionsInv,
           account' \in [Accounts -> AccountRows], epoch' \in [Accounts -> Nat],
           \A a \in Accounts : epoch[a] <= epoch'[a],
           \A a \in Accounts : \A e, s \in Nat : Fresh(a, e, s) => Fresh(a, e, s)',
           minted' = minted, held' \subseteq minted, revoked \subseteq revoked',
           revoked' \subseteq minted,
           record' \in [Cookies -> SessionRows \cup {NoSession}],
           \A c \in Cookies : record'[c] \in {NoSession, record[c]},
           \A c \in revoked' \ revoked : record'[c] = NoSession,
           NEW p \in Requests, NEW r \in RequestSet, req' = [req EXCEPT ![p] = r],
           req[p].at = "slid" => \/ req[p].cookie \notin revoked
                                 \/ record'[req[p].cookie] = NoSession,
           r.at \in Seeing => \/ Sees(p) /\ r.cookie = req[p].cookie /\ r.seen = req[p].seen
                              \/ r.seen # NoSession /\ record[r.cookie] = r.seen,
           RequestOK(p)'
    PROVE  StoreType' /\ SessionsInv'
<1>1. /\ req' \in [Requests -> RequestSet] /\ req'[p] = r
      /\ \A q \in Requests \ {p} : req'[q] = req[q]
  BY DEF StoreType
<1>2. StoreType'
  BY <1>1 DEF StoreType
<1>3. ASSUME NEW q \in Requests \ {p}  PROVE RequestOK(q)'
  <2>1. RequestOK(q) /\ req'[q] = req[q] /\ req[q] \in RequestSet
    BY <1>1 DEF SessionsInv, StoreType
  <2>2. req[q].epoch \in Nat /\ req[q].secret \in Nat
    BY <2>1 DEF RequestSet
  <2>3. req[q].seen \in SessionRows => req[q].seen.epoch \in Nat /\ req[q].seen.secret \in Nat
    BY DEF SessionRows
  <2>4. req[q].at = "captured" => req[q].epoch <= epoch'[req[q].account]
    BY <2>1, <2>2, epoch \in [Accounts -> Nat] DEF RequestOK, StoreType
  <2>5. req[q].at # "idle" => req[q].account \in Accounts
    BY <2>1 DEF RequestOK
  <2>6. req[q].at \in {"loaded", "written"} => Fresh(req[q].account, req[q].epoch, req[q].secret)'
    BY <2>1, <2>2, <2>5 DEF RequestOK
  <2>7. req[q].at \in Seeing => Fresh(req[q].account, req[q].seen.epoch, req[q].seen.secret)'
    BY <2>1, <2>3, <2>5 DEF RequestOK, Seeing
  <2>8. req[q].at \in {"exited", "rotating"} =>
          Fresh(req[q].account, req[q].seen.epoch, req[q].secret)'
    BY <2>1, <2>2, <2>3, <2>5 DEF RequestOK, Seeing
  <2> QED
    BY <2>1, <2>4, <2>5, <2>6, <2>7, <2>8 DEF RequestOK
<1>4. \A q \in Requests : RequestOK(q)'
  BY <1>3
<1>5. ASSUME NEW c \in Cookies  PROVE RecordOK(c)'
  <2>1. CASE record'[c] = NoSession
    BY <2>1 DEF RecordOK
  <2>2. CASE record'[c] # NoSession
    <3>1. record'[c] = record[c] /\ record[c] # NoSession /\ RecordOK(c)
      BY <2>2 DEF SessionsInv
    <3>2. record[c].account \in Accounts /\ record[c].epoch \in Nat /\ record[c].secret \in Nat
      BY <3>1 DEF StoreType, SessionRows
    <3> QED
      BY <3>1, <3>2 DEF RecordOK
  <2> QED
    BY <2>1, <2>2
<1>6. SameRecord'
  <2> SUFFICES ASSUME NEW q \in Requests, Sees(q)'
               PROVE  /\ record'[req'[q].cookie] # NoSession =>
                           record'[req'[q].cookie] = req'[q].seen
                      /\ \A x \in Requests : Sees(x)' /\ req'[x].cookie = req'[q].cookie
                                                => req'[x].seen = req'[q].seen
    BY DEF SameRecord
  <2> DEFINE Kept(x) == /\ Sees(x) /\ req'[x].cookie = req[x].cookie /\ req'[x].seen = req[x].seen
             Copied(x) == req'[x].seen # NoSession /\ record[req'[x].cookie] = req'[x].seen
  <2>1. \A x \in Requests : Sees(x)' => Kept(x) \/ Copied(x)
    BY <1>1 DEF Sees
  <2>2. \A x \in Requests : Sees(x)' => req'[x].cookie \in Cookies
    BY <1>4, <1>2 DEF RequestOK, Sees, Seeing, StoreType
  <2>3. \A x \in Requests : Sees(x) =>
          /\ record[req[x].cookie] # NoSession => record[req[x].cookie] = req[x].seen
          /\ \A y \in Requests : Sees(y) /\ req[y].cookie = req[x].cookie
                                   => req[y].seen = req[x].seen
    BY DEF SessionsInv, SameRecord
  <2> HIDE DEF Kept, Copied
  <2>4. record'[req'[q].cookie] # NoSession => record'[req'[q].cookie] = req'[q].seen
    BY <2>1, <2>2, <2>3 DEF Kept, Copied
  <2>5. ASSUME NEW x \in Requests, Sees(x)', req'[x].cookie = req'[q].cookie
        PROVE  req'[x].seen = req'[q].seen
    BY <2>1, <2>3, <2>5 DEF Kept, Copied
  <2> QED
    BY <2>4, <2>5
<1>7. RevokedLeavesNothing'
  <2> SUFFICES ASSUME NEW c \in revoked', record'[c] # NoSession
               PROVE  \E q \in Requests : req'[q].cookie = c /\ req'[q].at = "slid"
    BY DEF RevokedLeavesNothing
  <2>1. c \in Cookies /\ c \in revoked /\ record[c] # NoSession
    BY DEF StoreType
  <2>2. PICK q \in Requests : req[q].cookie = c /\ req[q].at = "slid"
    BY <2>1 DEF SessionsInv, RevokedLeavesNothing
  <2>3. q # p
    BY <2>1, <2>2
  <2> QED
    BY <1>1, <2>2, <2>3
<1> QED
  BY <1>2, <1>4, <1>5, <1>6, <1>7 DEF SessionsInv

\* A step that moves no request.
LEMMA Deletes ==
    ASSUME StoreType, SessionsInv, UNCHANGED <<account, epoch, minted, held, req>>,
           revoked \subseteq revoked', revoked' \subseteq minted,
           record' \in [Cookies -> SessionRows \cup {NoSession}],
           \A c \in Cookies : record'[c] \in {NoSession, record[c]},
           \A c \in revoked' \ revoked : record'[c] = NoSession
    PROVE  StoreType' /\ SessionsInv'
<1>1. \A a, e, s : Fresh(a, e, s)' <=> Fresh(a, e, s)
  BY DEF Fresh, Active, Revoking
<1>2. \A p \in Requests : RequestOK(p)'
  BY <1>1 DEF SessionsInv, RequestOK
<1>3. \A c \in Cookies : RecordOK(c)'
  BY <1>1 DEF SessionsInv, RecordOK
<1>4. SameRecord'
  <2>1. \A p \in Requests : Sees(p) => req[p].cookie \in Cookies
    BY DEF SessionsInv, RequestOK, Sees, Seeing, StoreType
  <2> QED
    BY <2>1 DEF SessionsInv, SameRecord, Sees
<1>5. RevokedLeavesNothing'
  BY DEF SessionsInv, RevokedLeavesNothing, StoreType
<1> QED
  BY <1>2, <1>3, <1>4, <1>5 DEF SessionsInv, StoreType

\* The row of a request under the updates of the steps.
LEMMA RequestFields ==
    ASSUME NEW y \in RequestSet
    PROVE  /\ \A v \in Moments : [y EXCEPT !.at = v] \in RequestSet
           /\ \A v \in Gates : [y EXCEPT !.gate = v] \in RequestSet
           /\ \A v \in Cookies : [y EXCEPT !.cookie = v] \in RequestSet
           /\ \A v \in Nat : [y EXCEPT !.epoch = v] \in RequestSet
           /\ \A v \in Credentials : [y EXCEPT !.credential = v] \in RequestSet
           /\ \A v \in Nat : [y EXCEPT !.secret = v] \in RequestSet
           /\ \A v \in SessionRows : [y EXCEPT !.seen = v] \in RequestSet
           /\ \A v \in SUBSET Cookies : [y EXCEPT !.keys = v] \in RequestSet
           /\ \A v \in Accounts : [y EXCEPT !.account = v] \in RequestSet
           /\ \A v \in Managers : [y EXCEPT !.team = v] \in RequestSet
  BY DEF RequestSet

LEMMA RequestDomain ==
    ASSUME NEW y \in RequestSet
    PROVE  DOMAIN y = {"at", "account", "cookie", "gate", "epoch", "credential", "secret",
                       "seen", "keys", "team"}
  BY DEF RequestSet

\* A step that leaves the accounts and the epochs alone, and no revocation of them done.
LEMMA Quietly ==
    ASSUME StoreType, SessionsInv, UNCHANGED <<account, epoch, minted>>,
           held' \subseteq minted, revoked \subseteq revoked', revoked' \subseteq minted,
           record' \in [Cookies -> SessionRows \cup {NoSession}],
           \A c \in Cookies : record'[c] \in {NoSession, record[c]},
           \A c \in revoked' \ revoked : record'[c] = NoSession,
           NEW p \in Requests, NEW r \in RequestSet, req' = [req EXCEPT ![p] = r],
           req[p].at # "due",
           req[p].at = "slid" => \/ req[p].cookie \notin revoked
                                 \/ record'[req[p].cookie] = NoSession,
           r.at \in Seeing => \/ Sees(p) /\ r.cookie = req[p].cookie /\ r.seen = req[p].seen
                              \/ r.seen # NoSession /\ record[r.cookie] = r.seen,
           RequestOK(p)'
    PROVE  StoreType' /\ SessionsInv'
<1>1. \A q \in Requests : req[q].at = "due" => req'[q] = req[q]
  BY DEF StoreType
<1>2. ASSUME NEW a \in Accounts, NEW e \in Nat, NEW s \in Nat, Fresh(a, e, s)
      PROVE  Fresh(a, e, s)'
  BY <1>1, <1>2, QuietKeeps DEF Active
<1>3. \A a \in Accounts : epoch[a] <= epoch'[a]
  BY DEF StoreType
<1>4. account' \in [Accounts -> AccountRows] /\ epoch' \in [Accounts -> Nat]
  BY DEF StoreType
<1> QED
  BY <1>2, <1>3, <1>4, Moves

\* A step that ends a request's work.
LEMMA Settles ==
    ASSUME StoreType, SessionsInv, UNCHANGED <<account, epoch, minted>>,
           held' \subseteq minted, revoked \subseteq revoked', revoked' \subseteq minted,
           record' \in [Cookies -> SessionRows \cup {NoSession}],
           \A c \in Cookies : record'[c] \in {NoSession, record[c]},
           \A c \in revoked' \ revoked : record'[c] = NoSession,
           NEW p \in Requests, Done(p), req[p].at # "due",
           req[p].at = "slid" => \/ req[p].cookie \notin revoked
                                 \/ record'[req[p].cookie] = NoSession
    PROVE  StoreType' /\ SessionsInv'
<1>1. req' = [req EXCEPT ![p] = Idle] /\ Idle \in RequestSet /\ Idle.at = "idle"
  BY Nobodies DEF Done
<1>2. req'[p] = Idle
  BY <1>1 DEF StoreType
<1>3. RequestOK(p)'
  BY <1>1, <1>2 DEF RequestOK, Seeing
<1>4. Idle.at \notin Seeing
  BY <1>1 DEF Seeing
<1> HIDE DEF Seeing, Sees
<1> QED
  BY <1>1, <1>3, <1>4, Quietly

\* A step that moves a request and nothing else of the store.
LEMMA Turns ==
    ASSUME StoreType, SessionsInv, UNCHANGED <<account, record, revoked, epoch, minted, held>>,
           NEW p \in Requests, NEW r \in RequestSet, req' = [req EXCEPT ![p] = r],
           req[p].at # "due",
           req[p].at = "slid" => req[p].cookie \notin revoked,
           r.at \in Seeing => \/ Sees(p) /\ r.cookie = req[p].cookie /\ r.seen = req[p].seen
                              \/ r.seen # NoSession /\ record[r.cookie] = r.seen,
           RequestOK(p)'
    PROVE  StoreType' /\ SessionsInv'
<1>1. /\ held' \subseteq minted /\ revoked \subseteq revoked' /\ revoked' \subseteq minted
      /\ record' \in [Cookies -> SessionRows \cup {NoSession}]
      /\ \A c \in Cookies : record'[c] \in {NoSession, record[c]}
      /\ \A c \in revoked' \ revoked : record'[c] = NoSession
  BY DEF StoreType
<1> QED
  BY <1>1, Quietly

LEMMA AuthenticateKeeps ==
    ASSUME StoreType, SessionsInv, NEW p \in Requests, NEW a \in Accounts, Authenticate(p, a)
    PROVE  StoreType' /\ SessionsInv'
<1> DEFINE credential == account[a].credential
           secret == account[a].secret
           gate == IF account[a].credential = "initial" THEN "first_sign_in" ELSE "none"
           r == [[[[[Idle EXCEPT !.at = "verified"] EXCEPT !.account = a]
                    EXCEPT !.credential = credential] EXCEPT !.secret = secret]
                    EXCEPT !.gate = gate]
<1>1. /\ req[p].at = "idle" /\ req' = [req EXCEPT ![p] = r]
      /\ UNCHANGED <<account, record, revoked, epoch, minted, held>>
  BY DEF Authenticate, Is, rows, store
<1>2. credential \in Credentials /\ secret \in Nat /\ gate \in Gates
  BY DEF StoreType, AccountRows, Gates
<1> HIDE DEF credential, secret, gate
<1>3. r \in RequestSet
  BY <1>2, Nobodies, RequestFields DEF Moments
<1>4. r.at = "verified" /\ r.account = a
  BY Nobodies, RequestDomain
<1> HIDE DEF r
<1>5. req'[p] = r
  BY <1>1 DEF StoreType
<1>6. RequestOK(p)' /\ r.at \notin Seeing
  BY <1>4, <1>5 DEF RequestOK, Seeing
<1> QED
  BY <1>1, <1>3, <1>6, Turns

LEMMA CaptureEpochKeeps ==
    ASSUME StoreType, SessionsInv, NEW p \in Requests, CaptureEpoch(p)
    PROVE  StoreType' /\ SessionsInv'
<1> DEFINE y == req[p]
           e == epoch[req[p].account]
           r == [[y EXCEPT !.at = "captured"] EXCEPT !.epoch = e]
<1>1. /\ y.at = "verified" /\ y \in RequestSet /\ y.account \in Accounts /\ e \in Nat
      /\ UNCHANGED <<account, record, revoked, epoch, minted, held>>
      /\ req' = [req EXCEPT ![p].at = "captured", ![p].epoch = e]
  BY DEF CaptureEpoch, Is, StoreType, SessionsInv, RequestOK, rows, store
<1>2. r \in RequestSet
  BY <1>1, RequestFields DEF Moments
<1>3. r.at = "captured" /\ r.account = y.account /\ r.epoch = e
  BY <1>1, RequestDomain
<1>4. req' = [req EXCEPT ![p] = r]
  BY <1>1
<1>5. req'[p] = r
  BY <1>2, <1>4 DEF StoreType
<1>6. e = epoch[y.account] /\ y = req[p]
  OBVIOUS
<1> HIDE DEF y, e, r
<1>7. RequestOK(p)' /\ r.at \notin Seeing
  BY <1>1, <1>3, <1>5, <1>6 DEF RequestOK, Seeing
<1> QED
  BY <1>1, <1>2, <1>4, <1>6, <1>7, Turns

LEMMA LoadPrincipalKeeps ==
    ASSUME StoreType, SessionsInv, NEW p \in Requests, LoadPrincipal(p)
    PROVE  StoreType' /\ SessionsInv'
<1> DEFINE y == req[p]
           a == req[p].account
           g == IF y.gate = "first_sign_in" THEN y.gate ELSE FirstGate(a)
           r == [[y EXCEPT !.at = "loaded"] EXCEPT !.gate = g]
<1>1. /\ y.at = "captured" /\ y \in RequestSet /\ a \in Accounts /\ y.epoch <= epoch[a]
      /\ UNCHANGED <<account, record, revoked, epoch, minted, held>>
  BY DEF LoadPrincipal, Is, StoreType, SessionsInv, RequestOK, rows, store
<1>2. CASE Active(a) /\ Password(account[a]) = Password(req[p])
  <2>1. req' = [req EXCEPT ![p] = r] /\ y.secret = account[a].secret
    BY <1>1, <1>2 DEF LoadPrincipal, Password
  <2>2. g \in Gates
    BY <1>1 DEF Gates, FirstGate, First, RequestSet
  <2>3. Fresh(a, y.epoch, y.secret)
    BY <1>1, <1>2, <2>1 DEF Fresh
  <2>4. y = req[p] /\ a = y.account
    OBVIOUS
  <2> HIDE DEF g
  <2>5. r \in RequestSet
    BY <1>1, <2>2, RequestFields DEF Moments
  <2>6. r.at = "loaded" /\ r.account = y.account /\ r.epoch = y.epoch /\ r.secret = y.secret
    BY <1>1, RequestDomain
  <2> HIDE DEF r
  <2>7. req'[p] = r
    BY <2>1 DEF StoreType
  <2>8. Revoking(a)' = Revoking(a)
    <3>1. \A q \in Requests \ {p} : req'[q] = req[q]
      BY <2>1 DEF StoreType
    <3> QED
      BY <1>1, <2>6, <2>7, <3>1 DEF Revoking
  <2>9. Fresh(a, y.epoch, y.secret)'
    BY <1>1, <2>3, <2>8, <2>6, <2>7 DEF Fresh, Active
  <2>10. RequestOK(p)' /\ r.at \notin Seeing
    BY <1>1, <2>6, <2>7, <2>9 DEF RequestOK, Seeing
  <2> QED
    BY <1>1, <2>1, <2>5, <2>10, Turns
<1>3. CASE ~(Active(a) /\ Password(account[a]) = Password(req[p]))
  <2>1. Done(p)
    BY <1>3 DEF LoadPrincipal
  <2> QED
    BY <1>1, <2>1, Settles DEF StoreType
<1> QED
  BY <1>2, <1>3

\* What a session is deleted by, and what the delete leaves.
LEMMA Deleted ==
    ASSUME StoreType, NEW c, record' = [record EXCEPT ![c] = NoSession]
    PROVE  /\ record' \in [Cookies -> SessionRows \cup {NoSession}]
           /\ \A d \in Cookies : record'[d] \in {NoSession, record[d]}
           /\ c \in Cookies => record'[c] = NoSession
  BY DEF StoreType

LEMMA Untouched ==
    ASSUME StoreType, UNCHANGED <<record, revoked, held>>
    PROVE  /\ record' \in [Cookies -> SessionRows \cup {NoSession}]
           /\ \A d \in Cookies : record'[d] \in {NoSession, record[d]}
           /\ revoked \subseteq revoked' /\ revoked' \subseteq minted /\ held' \subseteq minted
           /\ \A d \in revoked' \ revoked : record'[d] = NoSession
  BY DEF StoreType

LEMMA ChecksKeep ==
    ASSUME StoreType, SessionsInv, NEW p \in Requests, CreateCheck(p) \/ RotateCheck(p)
    PROVE  StoreType' /\ SessionsInv'
<1>1. /\ UNCHANGED <<account, epoch, minted, revoked>> /\ Done(p)
      /\ req[p].at \in {"written", "rotated"} /\ req[p].cookie \in minted
      /\ \/ record' = [record EXCEPT ![req[p].cookie] = NoSession] /\ held' = held
         \/ record' = record /\ held' = held \cup {req[p].cookie}
  BY DEF CreateCheck, RotateCheck, Is, rows, SessionsInv, RequestOK
<1>2. held' \subseteq minted /\ revoked \subseteq revoked' /\ revoked' \subseteq minted
  BY <1>1 DEF StoreType
<1>3. /\ record' \in [Cookies -> SessionRows \cup {NoSession}]
      /\ \A c \in Cookies : record'[c] \in {NoSession, record[c]}
  BY <1>1, Deleted DEF StoreType
<1> QED
  BY <1>1, <1>2, <1>3, Settles

LEMMA ResolveReadKeeps ==
    ASSUME StoreType, SessionsInv, NEW p \in Requests, NEW c \in Cookies, ResolveRead(p, c)
    PROVE  StoreType' /\ SessionsInv'
<1> DEFINE s == record[c]
<1>1. /\ req[p].at = "idle" /\ s # NoSession /\ s \in SessionRows /\ s.account \in Accounts
      /\ UNCHANGED <<account, epoch, minted, held, revoked>>
      /\ RecordOK(c)
  BY DEF ResolveRead, Is, rows, StoreType, SessionRows, SessionsInv
<1>2. CASE c \in revoked \/ s.epoch # epoch[s.account]
  <2>1. record' = [record EXCEPT ![c] = NoSession] /\ req' = req
    BY <1>1, <1>2 DEF ResolveRead, Removed
  <2> QED
    BY <1>1, <2>1, Deleted, Deletes DEF StoreType
<1>3. CASE ~(c \in revoked \/ s.epoch # epoch[s.account])
  <2> DEFINE r == [[[[Idle EXCEPT !.at = "read"] EXCEPT !.cookie = c]
                     EXCEPT !.account = s.account] EXCEPT !.seen = s]
  <2>1. req' = [req EXCEPT ![p] = r] /\ record' = record
    BY <1>1, <1>3 DEF ResolveRead
  <2>2. s = record[c] /\ c \in minted /\ Fresh(s.account, s.epoch, s.secret)
    BY <1>1 DEF RecordOK
  <2>3. s.epoch \in Nat /\ s.secret \in Nat
    BY <1>1 DEF SessionRows
  <2> HIDE DEF s
  <2>4. r \in RequestSet
    BY <1>1, Nobodies, RequestFields DEF Moments
  <2>5. r.at = "read" /\ r.cookie = c /\ r.account = s.account /\ r.seen = s
    BY Nobodies, RequestDomain
  <2> HIDE DEF r
  <2>6. req'[p] = r /\ \A q \in Requests \ {p} : req'[q] = req[q]
    BY <2>1 DEF StoreType
  <2>7. \A q \in Requests : req[q].at = "due" => req'[q] = req[q]
    BY <1>1, <2>6
  <2>8. ASSUME NEW a \in Accounts, NEW e \in Nat, NEW x \in Nat, Fresh(a, e, x)
        PROVE  Fresh(a, e, x)'
    BY <1>1, <2>7, <2>8, QuietKeeps DEF Active
  <2>9. RequestOK(p)'
    <3> DEFINE a == s.account
               e == s.epoch
               x == s.secret
    <3>1. PICK a0 \in Accounts, e0 \in Nat, x0 \in Nat :
             /\ a0 = s.account /\ e0 = s.epoch /\ x0 = s.secret
      BY <1>1, <2>3
    <3>2. Fresh(a0, e0, x0)'
      BY <2>2, <2>8, <3>1
    <3>3. /\ req'[p].at = "read" /\ req'[p].cookie \in minted' /\ req'[p].account = a0
          /\ req'[p].seen \in SessionRows /\ req'[p].seen.account = a0
          /\ req'[p].seen.epoch = e0 /\ req'[p].seen.secret = x0
      BY <1>1, <2>2, <2>5, <2>6, <3>1
    <3> QED
      BY <3>2, <3>3 DEF RequestOK, Seeing
  <2> QED
    BY <1>1, <2>1, <2>2, <2>4, <2>5, <2>9, Turns
<1> QED
  BY <1>2, <1>3

\* A request that has read its session goes on with it.
LEMMA GoesOn ==
    ASSUME StoreType, SessionsInv, UNCHANGED <<account, record, revoked, epoch, minted, held>>,
           NEW p \in Requests, NEW r \in RequestSet, req' = [req EXCEPT ![p] = r],
           Sees(p), r.at \in {"resolved", "drop", "admitted"},
           r.account = req[p].account, r.cookie = req[p].cookie, r.seen = req[p].seen,
           req[p].at = "slid" => req[p].cookie \notin revoked
    PROVE  StoreType' /\ SessionsInv'
<1> DEFINE y == req[p]
<1>1. y.at # "due" /\ y.cookie \in minted
  BY DEF Sees, Seeing, SessionsInv, RequestOK
<1>2. req'[p] = r /\ \A q \in Requests \ {p} : req'[q] = req[q]
  BY DEF StoreType
<1>3. \A q \in Requests : req[q].at = "due" => req'[q] = req[q]
  BY <1>1, <1>2
<1>4. ASSUME NEW a \in Accounts, NEW e \in Nat, NEW x \in Nat, Fresh(a, e, x)
      PROVE  Fresh(a, e, x)'
  BY <1>3, <1>4, QuietKeeps DEF Active
<1>5. RequestOK(p)'
  <2>1. /\ y.account \in Accounts /\ y.seen \in SessionRows /\ y.seen.account = y.account
        /\ Fresh(y.account, y.seen.epoch, y.seen.secret)
    BY DEF SessionsInv, RequestOK, Sees, Seeing
  <2>2. PICK a0 \in Accounts, e0 \in Nat, x0 \in Nat :
           /\ a0 = y.account /\ e0 = y.seen.epoch /\ x0 = y.seen.secret
    BY <2>1 DEF SessionRows
  <2>3. Fresh(a0, e0, x0)'
    BY <1>4, <2>1, <2>2
  <2>4. /\ req'[p].at \in {"resolved", "drop", "admitted"}
        /\ req'[p].cookie \in minted' /\ req'[p].account = a0
        /\ req'[p].seen \in SessionRows /\ req'[p].seen.account = a0
        /\ req'[p].seen.epoch = e0 /\ req'[p].seen.secret = x0
    BY <1>1, <1>2, <2>1, <2>2
  <2> QED
    BY <2>3, <2>4 DEF RequestOK, Seeing
<1>6. y = req[p]
  OBVIOUS
<1> HIDE DEF y
<1> QED
  BY <1>1, <1>5, <1>6, Turns

LEMMA ResolveCheckKeeps ==
    ASSUME StoreType, SessionsInv, NEW p \in Requests, ResolveCheck(p)
    PROVE  StoreType' /\ SessionsInv'
<1> DEFINE c == req[p].cookie
           y == req[p]
           r == [y EXCEPT !.at = "resolved"]
<1>1. /\ y.at = "slid" /\ y \in RequestSet /\ c \in minted /\ c \in Cookies
      /\ UNCHANGED <<account, epoch, minted, held, revoked>>
  BY DEF ResolveCheck, Is, rows, StoreType, SessionsInv, RequestOK, Seeing
<1>2. CASE Done(p) /\ record' = [record EXCEPT ![c] = NoSession]
  <2>1. revoked \subseteq revoked' /\ revoked' \subseteq minted /\ held' \subseteq minted
    BY <1>1 DEF StoreType
  <2> QED
    BY <1>1, <1>2, <2>1, Deleted, Settles
<1>3. CASE c \notin revoked /\ Become(p, "resolved") /\ record' = record
  <2>1. req' = [req EXCEPT ![p] = r]
    BY <1>3 DEF Become
  <2>2. r \in RequestSet
    BY <1>1, RequestFields DEF Moments
  <2>3. /\ r.at = "resolved" /\ r.account = y.account /\ r.cookie = y.cookie
        /\ r.seen = y.seen
    BY <1>1, RequestDomain
  <2>4. Sees(p) /\ y = req[p]
    BY <1>1 DEF Sees, Seeing
  <2> HIDE DEF r
  <2> QED
    BY <1>1, <1>3, <2>1, <2>2, <2>3, <2>4, GoesOn
<1> QED
  BY <1>2, <1>3 DEF ResolveCheck

LEMMA CurrentSessionKeeps ==
    ASSUME StoreType, SessionsInv, NEW p \in Requests, CurrentSession(p)
    PROVE  StoreType' /\ SessionsInv'
<1> DEFINE y == req[p]
           g == FirstGate(req[p].account)
<1>1. /\ y.at = "resolved" /\ y \in RequestSet
      /\ UNCHANGED <<account, record, epoch, minted, held, revoked>>
  BY DEF CurrentSession, Is, rows, store, StoreType
<1>2. Sees(p) /\ y = req[p]
  BY <1>1 DEF Sees, Seeing
<1>3. g \in Gates
  BY DEF Gates, FirstGate, First
<1>4. CASE req' = [req EXCEPT ![p].at = "admitted", ![p].gate = g]
  <2> HIDE DEF g
  <2> DEFINE r == [[y EXCEPT !.at = "admitted"] EXCEPT !.gate = g]
  <2>1. req' = [req EXCEPT ![p] = r]
    BY <1>4
  <2>2. r \in RequestSet
    BY <1>1, <1>3, RequestFields DEF Moments
  <2>3. /\ r.at = "admitted" /\ r.account = y.account /\ r.cookie = y.cookie
        /\ r.seen = y.seen
    BY <1>1, RequestDomain
  <2> HIDE DEF r
  <2> QED
    BY <1>1, <1>2, <2>1, <2>2, <2>3, GoesOn
<1>5. CASE Become(p, "drop")
  <2> DEFINE r == [y EXCEPT !.at = "drop"]
  <2>1. req' = [req EXCEPT ![p] = r]
    BY <1>5 DEF Become
  <2>2. r \in RequestSet
    BY <1>1, RequestFields DEF Moments
  <2>3. /\ r.at = "drop" /\ r.account = y.account /\ r.cookie = y.cookie
        /\ r.seen = y.seen
    BY <1>1, RequestDomain
  <2> HIDE DEF r
  <2> QED
    BY <1>1, <1>2, <2>1, <2>2, <2>3, GoesOn
<1> QED
  BY <1>4, <1>5 DEF CurrentSession

LEMMA DropKeeps ==
    ASSUME StoreType, SessionsInv, NEW p \in Requests, Drop(p)
    PROVE  StoreType' /\ SessionsInv'
<1> DEFINE c == req[p].cookie
<1>1. /\ req[p].at = "drop" /\ c \in minted /\ c \in Cookies
      /\ UNCHANGED <<account, epoch, minted, held>> /\ Done(p)
      /\ revoked' = revoked \cup {c} /\ record' = [record EXCEPT ![c] = NoSession]
  BY DEF Drop, Revoke, Is, rows, StoreType, SessionsInv, RequestOK, Seeing
<1>2. /\ revoked \subseteq revoked' /\ revoked' \subseteq minted /\ held' \subseteq minted
      /\ \A d \in revoked' \ revoked : d = c
  BY <1>1 DEF StoreType
<1> QED
  BY <1>1, <1>2, Deleted, Settles

LEMMA SettledKeeps ==
    ASSUME StoreType, SessionsInv, NEW p \in Requests,
           Serve(p) \/ Refused(p) \/ (ListSessions(p) /\ Done(p)) \/ DeleteSessions(p)
    PROVE  StoreType' /\ SessionsInv'
<1>1. /\ UNCHANGED <<account, epoch, minted, held, revoked>> /\ Done(p)
      /\ req[p].at \in {"admitted", "bumped", "listed"}
      /\ \/ record' = record
         \/ record' = [c \in Cookies |-> IF c \in req[p].keys THEN NoSession ELSE record[c]]
  BY DEF Serve, Refused, ListSessions, DeleteSessions, Is, rows, store
<1>2. /\ record' \in [Cookies -> SessionRows \cup {NoSession}]
      /\ \A c \in Cookies : record'[c] \in {NoSession, record[c]}
  <2>1. CASE record' = record
    BY <2>1 DEF StoreType
  <2>2. CASE record' = [c \in Cookies |-> IF c \in req[p].keys THEN NoSession ELSE record[c]]
    BY <2>2 DEF StoreType
  <2> QED
    BY <1>1, <2>1, <2>2
<1>3. revoked \subseteq revoked' /\ revoked' \subseteq minted /\ held' \subseteq minted
  BY <1>1 DEF StoreType
<1> QED
  BY <1>1, <1>2, <1>3, Settles

LEMMA OutsideKeeps ==
    ASSUME StoreType, SessionsInv,
           \/ \E c \in Cookies : SignOut(c)
           \/ \E m, n \in Managers : TransferPosition(m, n)
           \/ \E a \in Accounts : IssueReset(a)
           \/ \E k \in Kinds : Publish(k)
           \/ Expire
    PROVE  StoreType' /\ SessionsInv'
<1>1. ASSUME NEW c \in Cookies, SignOut(c)  PROVE StoreType' /\ SessionsInv'
  <2>1. /\ UNCHANGED <<account, epoch, minted, held, req>> /\ c \in held
        /\ revoked' = revoked \cup {c} /\ record' = [record EXCEPT ![c] = NoSession]
    BY <1>1 DEF SignOut, Revoke, rows
  <2>2. /\ revoked \subseteq revoked' /\ revoked' \subseteq minted
        /\ \A d \in revoked' \ revoked : d = c
    BY <2>1 DEF StoreType
  <2> QED
    BY <2>1, <2>2, Deleted, Deletes
<1>2. CASE UNCHANGED <<account, epoch, minted, held, req, record, revoked>>
  BY <1>2, Untouched, Deletes
<1>3. ASSUME NEW c \in Cookies, record' = [record EXCEPT ![c] = NoSession],
             UNCHANGED <<account, epoch, minted, held, req, revoked>>
      PROVE  StoreType' /\ SessionsInv'
  BY <1>3, Deleted, Deletes DEF StoreType
<1> QED
  BY <1>1, <1>2, <1>3 DEF TransferPosition, IssueReset, Publish, Expire, store

\* What a step that writes accounts or epochs has to show.
LEMMA Commits ==
    ASSUME StoreType, SessionsInv, UNCHANGED <<record, revoked, minted, held>>,
           account' \in [Accounts -> AccountRows], epoch' \in [Accounts -> Nat],
           \A a \in Accounts : epoch[a] <= epoch'[a],
           \A a \in Accounts : \A e, s \in Nat : Fresh(a, e, s) => Fresh(a, e, s)',
           NEW p \in Requests, NEW r \in RequestSet, req' = [req EXCEPT ![p] = r],
           req[p].at # "slid",
           r.at \in Seeing => Sees(p) /\ r.cookie = req[p].cookie /\ r.seen = req[p].seen,
           RequestOK(p)'
    PROVE  StoreType' /\ SessionsInv'
<1>1. /\ record' \in [Cookies -> SessionRows \cup {NoSession}]
      /\ \A d \in Cookies : record'[d] \in {NoSession, record[d]}
      /\ revoked \subseteq revoked' /\ revoked' \subseteq minted /\ held' \subseteq minted
      /\ \A d \in revoked' \ revoked : record'[d] = NoSession
  BY Untouched
<1> HIDE DEF Seeing, Sees
<1> QED
  BY <1>1, Moves

\* What commits, and revokes next.
LEMMA ThenRevokeKeeps ==
    ASSUME StoreType, SessionsInv, NEW p \in Requests, NEW a \in Accounts, ThenRevoke(p, a),
           NEW y \in AccountRows, account' = [account EXCEPT ![a] = y]
    PROVE  StoreType' /\ SessionsInv'
<1> DEFINE r == [[Idle EXCEPT !.at = "due"] EXCEPT !.account = a]
<1>1. /\ req[p].at = "idle" /\ req' = [req EXCEPT ![p] = r]
      /\ UNCHANGED <<record, revoked, epoch, minted, held>>
  BY DEF ThenRevoke, Is, store
<1>2. r \in RequestSet
  BY Nobodies, RequestFields DEF Moments
<1>3. r.at = "due" /\ r.account = a
  BY Nobodies, RequestDomain
<1> HIDE DEF r
<1>4. req'[p] = r /\ \A q \in Requests \ {p} : req'[q] = req[q]
  BY <1>1 DEF StoreType
<1>5. /\ account' \in [Accounts -> AccountRows]
      /\ \A b \in Accounts \ {a} : account'[b] = account[b]
  BY RowsKept DEF StoreType
<1>6. \A q \in Requests : req[q].at = "due" => req'[q] = req[q]
  BY <1>1, <1>4
<1>7. ASSUME NEW b \in Accounts, NEW e \in Nat, NEW s \in Nat, Fresh(b, e, s)
      PROVE  Fresh(b, e, s)'
  BY <1>1, <1>3, <1>4, <1>5, <1>6, <1>7, DueKeeps
<1>8. RequestOK(p)' /\ r.at \notin Seeing
  BY <1>3, <1>4 DEF RequestOK, Seeing
<1>9. epoch' \in [Accounts -> Nat] /\ \A b \in Accounts : epoch[b] <= epoch'[b]
  BY <1>1 DEF StoreType
<1> QED
  BY <1>1, <1>2, <1>5, <1>7, <1>8, <1>9, Commits

LEMMA CommandsKeep ==
    ASSUME StoreType, SessionsInv, NEW p \in Requests,
           \/ \E a \in Accounts : Deactivate(p, a) \/ ConsumeReset(p, a)
           \/ \E r \in Reps : \E m \in Managers : ChangeTeam(p, r, m)
    PROVE  StoreType' /\ SessionsInv'
<1>1. ASSUME NEW a \in Accounts, Deactivate(p, a)  PROVE StoreType' /\ SessionsInv'
  <2>1. /\ ThenRevoke(p, a) /\ account[a] \in AccountRows
        /\ account' = [account EXCEPT ![a] = [account[a] EXCEPT !.status = "deactivated"]]
    BY <1>1 DEF Deactivate, StoreType
  <2>2. [account[a] EXCEPT !.status = "deactivated"] \in AccountRows
    BY <2>1, AccountFields
  <2> QED
    BY <2>1, <2>2, ThenRevokeKeeps
<1>2. ASSUME NEW a \in Accounts, ConsumeReset(p, a)  PROVE StoreType' /\ SessionsInv'
  <2>1. /\ ThenRevoke(p, a) /\ account[a] \in AccountRows /\ account[a].secret + 1 \in Nat
        /\ account' = [account EXCEPT ![a] = [account[a] EXCEPT
                                                !.secret = account[a].secret + 1]]
    BY <1>2 DEF ConsumeReset, StoreType, AccountRows
  <2>2. [account[a] EXCEPT !.secret = account[a].secret + 1] \in AccountRows
    BY <2>1, AccountFields
  <2> QED
    BY <2>1, <2>2, ThenRevokeKeeps
<1>3. ASSUME NEW r \in Reps, NEW m \in Managers, ChangeTeam(p, r, m)
      PROVE  StoreType' /\ SessionsInv'
  <2>1. /\ ThenRevoke(p, r) /\ account[r] \in AccountRows /\ r \in Accounts
        /\ account' = [account EXCEPT ![r] = [account[r] EXCEPT !.team = m]]
    BY <1>3, Nobodies DEF ChangeTeam, StoreType
  <2>2. [account[r] EXCEPT !.team = m] \in AccountRows
    BY <2>1, AccountFields
  <2> QED
    BY <2>1, <2>2, ThenRevokeKeeps
<1> QED
  BY <1>1, <1>2, <1>3

LEMMA BumpEpochKeeps ==
    ASSUME StoreType, SessionsInv, NEW p \in Requests, BumpEpoch(p)
    PROVE  StoreType' /\ SessionsInv'
<1> DEFINE y == req[p]
           r == [y EXCEPT !.at = "bumped"]
<1>1. /\ y.at = "due" /\ y.account \in Accounts /\ y \in RequestSet
      /\ UNCHANGED <<account, record, revoked, minted, held>>
      /\ epoch' = [epoch EXCEPT ![y.account] = @ + 1] /\ req' = [req EXCEPT ![p] = r]
  BY DEF BumpEpoch, Is, Become, rows, StoreType, SessionsInv, RequestOK
<1>2. ASSUME NEW b \in Accounts, NEW e \in Nat, NEW s \in Nat, Fresh(b, e, s)
      PROVE  Fresh(b, e, s)'
  BY <1>1, <1>2, BumpKeeps
<1>3. /\ account' \in [Accounts -> AccountRows] /\ epoch' \in [Accounts -> Nat]
      /\ \A b \in Accounts : epoch[b] <= epoch'[b]
  BY <1>1 DEF StoreType
<1>4. r \in RequestSet
  BY <1>1, RequestFields DEF Moments
<1>5. r.at = "bumped" /\ r.account = y.account
  BY <1>1, RequestDomain
<1>6. y = req[p]
  OBVIOUS
<1> HIDE DEF r, y
<1>7. req'[p] = r
  BY <1>1 DEF StoreType
<1>8. RequestOK(p)' /\ r.at \notin Seeing
  BY <1>1, <1>5, <1>7 DEF RequestOK, Seeing
<1> QED
  BY <1>1, <1>2, <1>3, <1>4, <1>6, <1>8, Commits

LEMMA ProvisionKeeps ==
    ASSUME StoreType, SessionsInv, NEW p \in Requests,
           \/ ProvisionInsert(p)
           \/ \E r \in Reps : \E m \in Managers : ProvisionCheck(p, r, m)
    PROVE  StoreType' /\ SessionsInv'
<1>1. ASSUME NEW b \in Reps, NEW m \in Managers, ProvisionCheck(p, b, m)
      PROVE  StoreType' /\ SessionsInv'
  <2> DEFINE r == [[[Idle EXCEPT !.at = "checked"] EXCEPT !.account = b] EXCEPT !.team = m]
  <2>1. /\ req[p].at = "idle" /\ req' = [req EXCEPT ![p] = r]
        /\ UNCHANGED <<account, record, revoked, epoch, minted, held>>
    BY <1>1 DEF ProvisionCheck, Is, rows, store
  <2>2. r \in RequestSet
    BY Nobodies, RequestFields DEF Moments
  <2>3. r.at = "checked" /\ r.account = b /\ b \in Accounts
    BY Nobodies, RequestDomain
  <2> HIDE DEF r
  <2>4. req'[p] = r
    BY <2>1 DEF StoreType
  <2>5. RequestOK(p)' /\ r.at \notin Seeing
    BY <2>3, <2>4 DEF RequestOK, Seeing
  <2> QED
    BY <2>1, <2>2, <2>5, Turns
<1>2. CASE ProvisionInsert(p)
  <2> DEFINE b == req[p].account
  <2>1. /\ req[p].at = "checked" /\ b \in Accounts /\ Done(p)
        /\ UNCHANGED <<record, revoked, epoch, minted, held>>
    BY <1>2 DEF ProvisionInsert, Is, store, SessionsInv, RequestOK
  <2>2. CASE account[b].status # "absent"
    <3>1. account' = account
      BY <1>2, <2>2 DEF ProvisionInsert
    <3> QED
      BY <2>1, <3>1, Settles, Untouched
  <2>3. CASE account[b].status = "absent"
    <3> DEFINE y == NewAccount(req[p].team)
    <3>1. account' = [account EXCEPT ![b] = y]
      BY <1>2, <2>3 DEF ProvisionInsert
    <3>2. y \in AccountRows
      BY DEF NewAccount, AccountRows, StoreType, RequestSet, Credentials
    <3> HIDE DEF y
    <3>3. /\ account' \in [Accounts -> AccountRows]
          /\ \A c \in Accounts \ {b} : account'[c] = account[c]
      BY <2>1, <3>1, <3>2, RowsKept DEF StoreType
    <3>4. /\ req' = [req EXCEPT ![p] = Idle] /\ Idle \in RequestSet /\ Idle.at = "idle"
      BY <2>1, Nobodies DEF Done
    <3>5. req'[p] = Idle /\ \A q \in Requests \ {p} : req'[q] = req[q]
      BY <3>4 DEF StoreType
    <3>6. \A q \in Requests : req[q].at = "due" => req'[q] = req[q]
      BY <2>1, <3>5
    <3>7. \A c \in Accounts : /\ Active(c) => Active(c)'
                              /\ Active(c) => account'[c].secret = account[c].secret
      BY <2>3, <3>3 DEF Active
    <3>8. ASSUME NEW c \in Accounts, NEW e \in Nat, NEW s \in Nat, Fresh(c, e, s)
          PROVE  Fresh(c, e, s)'
      BY <2>1, <3>6, <3>7, <3>8, QuietKeeps
    <3>9. RequestOK(p)' /\ Idle.at \notin Seeing
      BY <3>4, <3>5 DEF RequestOK, Seeing
    <3>10. epoch' \in [Accounts -> Nat] /\ \A c \in Accounts : epoch[c] <= epoch'[c]
      BY <2>1 DEF StoreType
    <3> QED
      BY <2>1, <3>3, <3>4, <3>8, <3>9, <3>10, Commits
  <2> QED
    BY <2>2, <2>3
<1> QED
  BY <1>1, <1>2

LEMMA ExitGateKeeps ==
    ASSUME StoreType, SessionsInv, NEW p \in Requests, NEW ks \in SUBSET Kinds,
           NEW z, ExitGate(p, ks, z),
           z = account[req[p].account] \/ z = SetCredential(account[req[p].account])
    PROVE  StoreType' /\ SessionsInv'
<1> DEFINE y == req[p]
           a == req[p].account
           g == First(PendingOf(z.credential, With(a, ks)))
           k == IF z = account[a] THEN y.seen.credential ELSE "set"
           s == IF z = account[a] THEN y.seen.secret ELSE z.secret
           r == [[[[y EXCEPT !.at = "exited"] EXCEPT !.gate = g] EXCEPT !.credential = k]
                 EXCEPT !.secret = s]
<1>1. /\ y.at = "admitted" /\ Active(a) /\ y \in RequestSet /\ RequestOK(p) /\ a \in Accounts
      /\ UNCHANGED <<record, revoked, epoch, minted, held>>
      /\ account' = [account EXCEPT ![a] = z] /\ req' = [req EXCEPT ![p] = r]
  BY DEF ExitGate, Is, StoreType, SessionsInv, RequestOK, store
<1>2. /\ z \in AccountRows /\ z.status = account[a].status /\ z.secret = account[a].secret
      /\ account[a] \in AccountRows
  <2>1. account[a] \in AccountRows
    BY <1>1 DEF StoreType
  <2>2. "set" \in Credentials
    BY DEF Credentials
  <2>3. CASE z = account[a]
    BY <2>1, <2>3
  <2>4. CASE z = SetCredential(account[a])
    BY <2>1, <2>2, <2>4, AccountFields DEF SetCredential
  <2> QED
    BY <2>1, <2>3, <2>4
<1>3. /\ y.seen \in SessionRows /\ y.seen.account = y.account /\ y.cookie \in minted
      /\ Fresh(y.account, y.seen.epoch, y.seen.secret)
  BY <1>1 DEF RequestOK, Seeing
<1>4. /\ y.seen.epoch \in Nat /\ y.seen.secret \in Nat /\ y.seen.credential \in Credentials
      /\ z.secret \in Nat
  BY <1>2, <1>3 DEF SessionRows, AccountRows
<1>5. Fresh(a, y.seen.epoch, s)
  BY <1>1, <1>2, <1>3 DEF Fresh
<1>6. g \in Gates /\ k \in Credentials /\ s \in Nat
  BY <1>4 DEF Gates, First, Credentials
<1>7. y = req[p] /\ a = y.account
  OBVIOUS
<1> HIDE DEF g, k, s, y, a
<1>8. r \in RequestSet
  BY <1>1, <1>6, RequestFields DEF Moments
<1>9. /\ r.at = "exited" /\ r.account = y.account /\ r.cookie = y.cookie /\ r.seen = y.seen
      /\ r.secret = s
  BY <1>1, RequestDomain
<1> HIDE DEF r
<1>10. req'[p] = r /\ \A q \in Requests \ {p} : req'[q] = req[q]
  BY <1>1, <1>7 DEF StoreType
<1>11. /\ account' \in [Accounts -> AccountRows] /\ account'[a] = z
       /\ \A c \in Accounts \ {a} : account'[c] = account[c]
  BY <1>1, <1>2, RowsKept DEF StoreType
<1>12. \A q \in Requests : req[q].at = "due" => req'[q] = req[q]
  BY <1>1, <1>7, <1>10
<1>13. \A c \in Accounts : /\ Active(c) => Active(c)'
                           /\ Active(c) => account'[c].secret = account[c].secret
  BY <1>2, <1>11 DEF Active
<1>14. ASSUME NEW c \in Accounts, NEW e \in Nat, NEW x \in Nat, Fresh(c, e, x)
       PROVE  Fresh(c, e, x)'
  BY <1>1, <1>12, <1>13, <1>14, QuietKeeps
<1>15. RequestOK(p)'
  <2>1. PICK a0 \in Accounts, e0 \in Nat, x0 \in Nat, s0 \in Nat :
           a0 = a /\ e0 = y.seen.epoch /\ x0 = y.seen.secret /\ s0 = s
    BY <1>1, <1>4, <1>6
  <2>2. Fresh(a0, e0, x0)' /\ Fresh(a0, e0, s0)'
    BY <1>3, <1>5, <1>7, <1>14, <2>1
  <2>3. /\ req'[p].at = "exited" /\ req'[p].cookie \in minted' /\ req'[p].account = a0
        /\ req'[p].seen \in SessionRows /\ req'[p].seen.account = a0
        /\ req'[p].seen.epoch = e0 /\ req'[p].seen.secret = x0 /\ req'[p].secret = s0
    BY <1>1, <1>3, <1>7, <1>9, <1>10, <2>1
  <2> QED
    BY <2>2, <2>3 DEF RequestOK, Seeing
<1>16. epoch' \in [Accounts -> Nat] /\ \A c \in Accounts : epoch[c] <= epoch'[c]
  BY <1>1 DEF StoreType
<1>17. Sees(p) /\ req[p].at # "slid"
  BY <1>1, <1>7 DEF Sees, Seeing
<1> QED
  BY <1>1, <1>7, <1>8, <1>9, <1>11, <1>14, <1>15, <1>16, <1>17, Commits

LEMMA GatesKeep ==
    ASSUME StoreType, SessionsInv, NEW p \in Requests,
           CompleteFirstSignIn(p) \/ \E ks \in SUBSET Kinds : RecordAcceptances(p, ks)
    PROVE  StoreType' /\ SessionsInv'
<1>1. CASE CompleteFirstSignIn(p)
  <2>1. ExitGate(p, Kinds, SetCredential(account[req[p].account]))
    BY <1>1 DEF CompleteFirstSignIn
  <2> QED
    BY <2>1, ExitGateKeeps
<1>2. ASSUME NEW ks \in SUBSET Kinds, RecordAcceptances(p, ks)
      PROVE  StoreType' /\ SessionsInv'
  <2>1. ExitGate(p, ks, account[req[p].account])
    BY <1>2 DEF RecordAcceptances
  <2> QED
    BY <2>1, ExitGateKeeps
<1> QED
  BY <1>1, <1>2

LEMMA ListSessionsKeeps ==
    ASSUME StoreType, SessionsInv, NEW p \in Requests, ListSessions(p),
           index[req[p].account] \in SUBSET Cookies
    PROVE  StoreType' /\ SessionsInv'
<1> DEFINE y == req[p]
           r == [[y EXCEPT !.at = "listed"] EXCEPT !.keys = index[y.account]]
<1>1. /\ y.at = "bumped" /\ y \in RequestSet /\ y.account \in Accounts
      /\ UNCHANGED <<account, record, revoked, epoch, minted, held>>
  BY DEF ListSessions, Is, rows, store, StoreType, SessionsInv, RequestOK
<1>2. CASE Done(p)
  BY <1>2, SettledKeeps
<1>3. CASE ~Done(p)
  <2>1. req' = [req EXCEPT ![p] = r]
    BY <1>3 DEF ListSessions
  <2>2. r \in RequestSet
    BY <1>1, RequestFields DEF Moments
  <2>3. r.at = "listed" /\ r.account = y.account
    BY <1>1, RequestDomain
  <2>4. y = req[p]
    OBVIOUS
  <2> HIDE DEF r, y
  <2>5. req'[p] = r
    BY <2>1 DEF StoreType
  <2>6. RequestOK(p)' /\ r.at \notin Seeing
    BY <1>1, <2>3, <2>5 DEF RequestOK, Seeing
  <2> QED
    BY <1>1, <2>1, <2>2, <2>4, <2>6, Turns
<1> QED
  BY <1>2, <1>3

\* The members of an index are ids of sessions.
LEMMA IndexTyped ==
    ASSUME StoreType, SessionsInv, index \in [Accounts -> SUBSET Cookies], Next
    PROVE  index' \in [Accounts -> SUBSET Cookies]
<1>1. CASE UNCHANGED index
  BY <1>1
<1>2. ASSUME NEW a, NEW c, index' = [index EXCEPT ![a] = @ \ {c}]
      PROVE  index' \in [Accounts -> SUBSET Cookies]
  BY <1>2
<1>3. ASSUME NEW a, NEW c \in Cookies, NEW d, index' = [index EXCEPT ![a] = (@ \cup {c}) \ {d}]
      PROVE  index' \in [Accounts -> SUBSET Cookies]
  BY <1>3
<1>4. ASSUME NEW p \in Requests,
             \/ CaptureEpoch(p) \/ LoadPrincipal(p) \/ ResolveSlide(p) \/ CurrentSession(p)
             \/ Serve(p) \/ CompleteFirstSignIn(p) \/ Refused(p) \/ BumpEpoch(p)
             \/ ListSessions(p) \/ ProvisionInsert(p)
      PROVE  index' \in [Accounts -> SUBSET Cookies]
  BY <1>1, <1>4 DEF CaptureEpoch, LoadPrincipal, ResolveSlide, CurrentSession, Serve,
     CompleteFirstSignIn, ExitGate, Refused, BumpEpoch, ListSessions, ProvisionInsert, store
<1>5. ASSUME NEW p \in Requests,
             CreateCheck(p) \/ ResolveCheck(p) \/ RotateRead(p) \/ RotateCheck(p) \/ Drop(p)
      PROVE  index' \in [Accounts -> SUBSET Cookies]
  BY <1>1, <1>2, <1>5
  DEF CreateCheck, ResolveCheck, RotateRead, RotateCheck, Drop, Removed, Revoke
<1>6. ASSUME NEW p \in Requests, DeleteSessions(p)
      PROVE  index' \in [Accounts -> SUBSET Cookies]
  BY <1>6 DEF DeleteSessions
<1>7. ASSUME NEW p \in Requests, NEW c \in Cookies,
             ResolveRead(p, c) \/ CreateWrite(p, c) \/ RotateWrite(p, c)
      PROVE  index' \in [Accounts -> SUBSET Cookies]
  <2>1. CASE ResolveRead(p, c)
    BY <1>1, <1>2, <2>1 DEF ResolveRead, Removed
  <2>2. CASE CreateWrite(p, c)
    BY <2>2 DEF CreateWrite
  <2>3. CASE RotateWrite(p, c)
    BY <1>3, <2>3 DEF RotateWrite
  <2> QED
    BY <1>7, <2>1, <2>2, <2>3
<1>8. ASSUME NEW p \in Requests,
             \/ \E a \in Accounts : Authenticate(p, a) \/ Deactivate(p, a) \/ ConsumeReset(p, a)
             \/ \E ks \in SUBSET Kinds : RecordAcceptances(p, ks)
             \/ \E r \in Reps : \E m \in Managers : ChangeTeam(p, r, m) \/ ProvisionCheck(p, r, m)
      PROVE  index' \in [Accounts -> SUBSET Cookies]
  BY <1>1, <1>8
  DEF Authenticate, Deactivate, ConsumeReset, RecordAcceptances, ExitGate, ChangeTeam,
     ProvisionCheck, ThenRevoke, store
<1>9. ASSUME NEW c \in Cookies, SignOut(c)
      PROVE  index' \in [Accounts -> SUBSET Cookies]
  BY <1>1, <1>2, <1>9 DEF SignOut, Revoke
<1>10. CASE \/ \E m, n \in Managers : TransferPosition(m, n)
            \/ \E a \in Accounts : IssueReset(a)
            \/ \E k \in Kinds : Publish(k)
            \/ Expire
  BY <1>1, <1>10 DEF TransferPosition, IssueReset, Publish, Expire, store
<1> QED
  BY <1>4, <1>5, <1>6, <1>7, <1>8, <1>9, <1>10 DEF Next, SessionStep

LEMMA RotateReadKeeps ==
    ASSUME StoreType, SessionsInv, NEW p \in Requests, RotateRead(p)
    PROVE  StoreType' /\ SessionsInv'
<1> DEFINE y == req[p]
           c == req[p].cookie
           s == record[c]
           r == [[y EXCEPT !.at = "rotating"] EXCEPT !.seen = s]
<1>1. /\ y.at = "exited" /\ y \in RequestSet /\ RequestOK(p) /\ c \in minted /\ c \in Cookies
      /\ y.account \in Accounts
      /\ UNCHANGED <<account, epoch, minted, held, revoked>>
  BY DEF RotateRead, Is, rows, StoreType, SessionsInv, RequestOK, Seeing
<1>2. CASE Done(p) /\ (record' = record \/ record' = [record EXCEPT ![c] = NoSession])
  <2>1. revoked \subseteq revoked' /\ revoked' \subseteq minted /\ held' \subseteq minted
    BY <1>1 DEF StoreType
  <2>2. /\ record' \in [Cookies -> SessionRows \cup {NoSession}]
        /\ \A d \in Cookies : record'[d] \in {NoSession, record[d]}
    BY <1>2, Deleted DEF StoreType
  <2> QED
    BY <1>1, <1>2, <2>1, <2>2, Settles
<1>3. CASE /\ s # NoSession /\ record' = record
           /\ req' = [req EXCEPT ![p].at = "rotating", ![p].seen = s]
  <2>1. y.seen = s
    <3>1. Sees(p)
      BY <1>1 DEF Sees, Seeing
    <3> QED
      BY <1>3, <3>1 DEF SessionsInv, SameRecord
  <2>2. /\ s \in SessionRows /\ s.account = y.account
        /\ Fresh(y.account, s.epoch, s.secret) /\ Fresh(y.account, s.epoch, y.secret)
    BY <1>1, <2>1 DEF RequestOK, Seeing
  <2>3. s.epoch \in Nat /\ s.secret \in Nat /\ y.secret \in Nat
    BY <1>1, <2>2 DEF SessionRows, RequestSet
  <2>4. req' = [req EXCEPT ![p] = r]
    BY <1>3
  <2>5. r \in RequestSet
    BY <1>1, <2>2, RequestFields DEF Moments
  <2>6. /\ r.at = "rotating" /\ r.account = y.account /\ r.cookie = y.cookie /\ r.seen = y.seen
        /\ r.secret = y.secret
    BY <1>1, <2>1, RequestDomain
  <2>7. y = req[p]
    OBVIOUS
  <2> HIDE DEF r, y, s
  <2>8. req'[p] = r /\ \A q \in Requests \ {p} : req'[q] = req[q]
    BY <2>4 DEF StoreType
  <2>9. \A q \in Requests : req[q].at = "due" => req'[q] = req[q]
    BY <1>1, <2>7, <2>8
  <2>10. ASSUME NEW b \in Accounts, NEW e \in Nat, NEW x \in Nat, Fresh(b, e, x)
         PROVE  Fresh(b, e, x)'
    BY <1>1, <2>9, <2>10, QuietKeeps DEF Active
  <2>11. RequestOK(p)'
    <3>1. PICK a0 \in Accounts, e0 \in Nat, x0 \in Nat, s0 \in Nat :
             a0 = y.account /\ e0 = s.epoch /\ x0 = s.secret /\ s0 = y.secret
      BY <1>1, <2>3
    <3>2. Fresh(a0, e0, x0)' /\ Fresh(a0, e0, s0)'
      BY <2>2, <2>10, <3>1
    <3>3. /\ req'[p].at = "rotating" /\ req'[p].cookie \in minted' /\ req'[p].account = a0
          /\ req'[p].seen \in SessionRows /\ req'[p].seen.account = a0
          /\ req'[p].seen.epoch = e0 /\ req'[p].seen.secret = x0 /\ req'[p].secret = s0
      BY <1>1, <2>1, <2>2, <2>6, <2>7, <2>8, <3>1
    <3> QED
      BY <3>2, <3>3 DEF RequestOK, Seeing
  <2>12. Sees(p)
    BY <1>1, <2>7 DEF Sees, Seeing
  <2> QED
    BY <1>1, <1>3, <2>4, <2>5, <2>6, <2>7, <2>11, <2>12, Turns
<1> QED
  BY <1>2, <1>3 DEF RotateRead, Removed

\* What a step that writes a session's record has to show: a new one, or one that
\* the request has read and writes back.
LEMMA Writes ==
    ASSUME StoreType, SessionsInv, UNCHANGED <<account, epoch, held>>,
           NEW p \in Requests, NEW r \in RequestSet, req' = [req EXCEPT ![p] = r],
           req[p].at \notin {"due", "slid"},
           NEW n \in Cookies, NEW s \in SessionRows,
           record' \in [Cookies -> SessionRows \cup {NoSession}], record'[n] = s,
           \A c \in Cookies \ {n} : record'[c] \in {NoSession, record[c]},
           Fresh(s.account, s.epoch, s.secret),
           n \in minted', minted \subseteq minted', minted' \subseteq Cookies,
           revoked \subseteq revoked', revoked' \subseteq minted',
           \A c \in revoked' \ revoked : record'[c] = NoSession,
           \/ n \notin minted /\ r.at \notin Seeing
           \/ /\ Sees(p) /\ r.at = "slid" /\ req[p].cookie = n /\ r.cookie = n
              /\ req[p].seen = s /\ r.seen = s,
           RequestOK(p)'
    PROVE  StoreType' /\ SessionsInv'
<1>1. /\ req' \in [Requests -> RequestSet] /\ req'[p] = r
      /\ \A q \in Requests \ {p} : req'[q] = req[q]
  BY DEF StoreType
<1>2. StoreType'
  BY <1>1 DEF StoreType
<1>3. \A q \in Requests : req[q].at = "due" => req'[q] = req[q]
  BY <1>1
<1>4. ASSUME NEW a \in Accounts, NEW e \in Nat, NEW x \in Nat, Fresh(a, e, x)
      PROVE  Fresh(a, e, x)'
  BY <1>3, <1>4, QuietKeeps DEF Active
<1>5. ASSUME NEW q \in Requests \ {p}  PROVE RequestOK(q)'
  <2>1. RequestOK(q) /\ req'[q] = req[q] /\ req[q] \in RequestSet
    BY <1>1 DEF SessionsInv, StoreType
  <2>2. req[q].epoch \in Nat /\ req[q].secret \in Nat
    BY <2>1 DEF RequestSet
  <2>3. req[q].seen \in SessionRows => req[q].seen.epoch \in Nat /\ req[q].seen.secret \in Nat
    BY DEF SessionRows
  <2>4. req[q].at # "idle" => req[q].account \in Accounts
    BY <2>1 DEF RequestOK
  <2>5. req[q].at \in {"loaded", "written"} => Fresh(req[q].account, req[q].epoch, req[q].secret)'
    BY <1>4, <2>1, <2>2, <2>4 DEF RequestOK
  <2>6. req[q].at \in Seeing => Fresh(req[q].account, req[q].seen.epoch, req[q].seen.secret)'
    BY <1>4, <2>1, <2>3, <2>4 DEF RequestOK, Seeing
  <2>7. req[q].at \in {"exited", "rotating"} =>
          Fresh(req[q].account, req[q].seen.epoch, req[q].secret)'
    BY <1>4, <2>1, <2>2, <2>3, <2>4 DEF RequestOK, Seeing
  <2> QED
    BY <2>1, <2>4, <2>5, <2>6, <2>7 DEF RequestOK
<1>6. \A q \in Requests : RequestOK(q)'
  BY <1>5
<1>7. ASSUME NEW c \in Cookies  PROVE RecordOK(c)'
  <2>1. CASE c = n
    <3>1. s.account \in Accounts /\ s.epoch \in Nat /\ s.secret \in Nat
      BY DEF SessionRows
    <3> QED
      BY <1>4, <2>1, <3>1 DEF RecordOK
  <2>2. CASE c # n /\ record'[c] = NoSession
    BY <2>2 DEF RecordOK
  <2>3. CASE c # n /\ record'[c] # NoSession
    <3>1. record'[c] = record[c] /\ record[c] # NoSession /\ RecordOK(c)
      BY <2>3 DEF SessionsInv
    <3>2. record[c].account \in Accounts /\ record[c].epoch \in Nat /\ record[c].secret \in Nat
      BY <3>1 DEF StoreType, SessionRows
    <3> QED
      BY <1>4, <3>1, <3>2 DEF RecordOK
  <2> QED
    BY <2>1, <2>2, <2>3
<1>8. SameRecord'
  <2>1. \A x \in Requests : Sees(x) => req[x].cookie \in minted /\ req[x].cookie \in Cookies
    BY DEF SessionsInv, RequestOK, Sees, StoreType
  <2>2. \A x \in Requests : Sees(x)' =>
           Sees(x) /\ req'[x].cookie = req[x].cookie /\ req'[x].seen = req[x].seen
    BY <1>1 DEF Sees
  <2>3. \A x \in Requests : Sees(x) =>
          /\ record[req[x].cookie] # NoSession => record[req[x].cookie] = req[x].seen
          /\ \A y \in Requests : Sees(y) /\ req[y].cookie = req[x].cookie
                                   => req[y].seen = req[x].seen
    BY DEF SessionsInv, SameRecord
  <2>4. \A x \in Requests : Sees(x) /\ req[x].cookie = n => req[x].seen = s
    BY <2>1, <2>3
  <2>5. \A x \in Requests : Sees(x)' /\ record'[req'[x].cookie] # NoSession
                              => record'[req'[x].cookie] = req'[x].seen
    BY <2>1, <2>2, <2>3, <2>4
  <2>6. \A x, y \in Requests : Sees(x)' /\ Sees(y)' /\ req'[y].cookie = req'[x].cookie
                                 => req'[y].seen = req'[x].seen
    BY <2>2, <2>3
  <2> QED
    BY <2>5, <2>6 DEF SameRecord
<1>9. RevokedLeavesNothing'
  <2> SUFFICES ASSUME NEW c \in revoked', record'[c] # NoSession
               PROVE  \E q \in Requests : req'[q].cookie = c /\ req'[q].at = "slid"
    BY DEF RevokedLeavesNothing
  <2>1. c \in Cookies /\ c \in revoked /\ c \in minted
    BY DEF StoreType
  <2>2. CASE c = n
    BY <1>1, <2>1, <2>2
  <2>3. CASE c # n
    <3>1. PICK q \in Requests : req[q].cookie = c /\ req[q].at = "slid"
      BY <2>1, <2>3 DEF SessionsInv, RevokedLeavesNothing
    <3> QED
      BY <1>1, <3>1
  <2> QED
    BY <2>2, <2>3
<1> QED
  BY <1>2, <1>6, <1>7, <1>8, <1>9 DEF SessionsInv

LEMMA ResolveSlideKeeps ==
    ASSUME StoreType, SessionsInv, NEW p \in Requests, ResolveSlide(p)
    PROVE  StoreType' /\ SessionsInv'
<1> DEFINE y == req[p]
           s == req[p].seen
           r == [y EXCEPT !.at = "slid"]
<1>1. /\ y.at = "read" /\ y \in RequestSet /\ RequestOK(p) /\ y.cookie \in Cookies
      /\ UNCHANGED <<account, epoch, minted, held, revoked>>
      /\ record' = [record EXCEPT ![y.cookie] = s] /\ req' = [req EXCEPT ![p] = r]
  BY DEF ResolveSlide, Become, Is, rows, StoreType, SessionsInv, RequestOK, Seeing
<1>2. /\ s \in SessionRows /\ s.account = y.account /\ y.account \in Accounts
      /\ Fresh(y.account, s.epoch, s.secret) /\ y.cookie \in minted
  BY <1>1 DEF RequestOK, Seeing
<1>3. r \in RequestSet
  BY <1>1, RequestFields DEF Moments
<1>4. r.at = "slid" /\ r.account = y.account /\ r.cookie = y.cookie /\ r.seen = s
  BY <1>1, RequestDomain
<1>5. s.epoch \in Nat /\ s.secret \in Nat
  BY <1>2 DEF SessionRows
<1>6. y = req[p] /\ s = y.seen
  OBVIOUS
<1> HIDE DEF r, s, y
<1>7. req'[p] = r /\ \A q \in Requests \ {p} : req'[q] = req[q]
  BY <1>1 DEF StoreType
<1>8. \A q \in Requests : req[q].at = "due" => req'[q] = req[q]
  BY <1>1, <1>6, <1>7
<1>9. ASSUME NEW b \in Accounts, NEW e \in Nat, NEW x \in Nat, Fresh(b, e, x)
      PROVE  Fresh(b, e, x)'
  BY <1>1, <1>8, <1>9, QuietKeeps DEF Active
<1>10. RequestOK(p)'
  <2>1. PICK a0 \in Accounts, e0 \in Nat, x0 \in Nat :
           a0 = y.account /\ e0 = s.epoch /\ x0 = s.secret
    BY <1>2, <1>5
  <2>2. Fresh(a0, e0, x0)'
    BY <1>2, <1>9, <2>1
  <2>3. /\ req'[p].at = "slid" /\ req'[p].cookie \in minted' /\ req'[p].account = a0
        /\ req'[p].seen \in SessionRows /\ req'[p].seen.account = a0
        /\ req'[p].seen.epoch = e0 /\ req'[p].seen.secret = x0
    BY <1>1, <1>2, <1>4, <1>7, <2>1
  <2> QED
    BY <2>2, <2>3 DEF RequestOK, Seeing
<1>11. /\ record' \in [Cookies -> SessionRows \cup {NoSession}] /\ record'[y.cookie] = s
       /\ \A c \in Cookies \ {y.cookie} : record'[c] \in {NoSession, record[c]}
  BY <1>1, <1>2 DEF StoreType
<1>12. Sees(p) /\ req[p].at \notin {"due", "slid"}
  BY <1>1, <1>6 DEF Sees, Seeing
<1>13. /\ revoked \subseteq revoked' /\ revoked' \subseteq minted' /\ y.cookie \in minted'
       /\ minted \subseteq minted' /\ minted' \subseteq Cookies
       /\ \A c \in revoked' \ revoked : record'[c] = NoSession
       /\ Fresh(s.account, s.epoch, s.secret)
  BY <1>1, <1>2 DEF StoreType
<1> HIDE DEF Sees, Seeing
<1> QED
  BY <1>1, <1>2, <1>3, <1>4, <1>6, <1>10, <1>11, <1>12, <1>13, Writes, ZenonT(30)

LEMMA CreateWriteKeeps ==
    ASSUME StoreType, SessionsInv, NEW p \in Requests, NEW c \in Cookies, CreateWrite(p, c)
    PROVE  StoreType' /\ SessionsInv'
<1> DEFINE y == req[p]
           s == [account |-> y.account, gate |-> y.gate, epoch |-> y.epoch,
                 credential |-> y.credential, secret |-> y.secret]
           r == [[y EXCEPT !.at = "written"] EXCEPT !.cookie = c]
<1>1. /\ y.at = "loaded" /\ y \in RequestSet /\ y.account \in Accounts /\ c \notin minted
      /\ Fresh(y.account, y.epoch, y.secret)
      /\ UNCHANGED <<account, epoch, held, revoked>> /\ minted' = minted \cup {c}
      /\ record' = [record EXCEPT ![c] = s] /\ req' = [req EXCEPT ![p] = r]
  BY DEF CreateWrite, Is, rows, StoreType, SessionsInv, RequestOK
<1>2. /\ s \in SessionRows /\ s.account = y.account /\ s.epoch = y.epoch /\ s.secret = y.secret
      /\ y.epoch \in Nat /\ y.secret \in Nat
  BY <1>1 DEF SessionRows, RequestSet
<1>3. r \in RequestSet
  BY <1>1, RequestFields DEF Moments
<1>4. /\ r.at = "written" /\ r.account = y.account /\ r.cookie = c
      /\ r.epoch = y.epoch /\ r.secret = y.secret
  BY <1>1, RequestDomain
<1>5. y = req[p]
  OBVIOUS
<1> HIDE DEF r, s, y
<1>6. req'[p] = r /\ \A q \in Requests \ {p} : req'[q] = req[q]
  BY <1>1 DEF StoreType
<1>7. \A q \in Requests : req[q].at = "due" => req'[q] = req[q]
  BY <1>1, <1>5, <1>6
<1>8. ASSUME NEW b \in Accounts, NEW e \in Nat, NEW x \in Nat, Fresh(b, e, x)
      PROVE  Fresh(b, e, x)'
  BY <1>1, <1>7, <1>8, QuietKeeps DEF Active
<1>9. RequestOK(p)'
  <2>1. PICK a0 \in Accounts, e0 \in Nat, x0 \in Nat :
           a0 = y.account /\ e0 = y.epoch /\ x0 = y.secret
    BY <1>1, <1>2
  <2>2. Fresh(a0, e0, x0)'
    BY <1>1, <1>8, <2>1
  <2>3. /\ req'[p].at = "written" /\ req'[p].cookie \in minted' /\ req'[p].account = a0
        /\ req'[p].epoch = e0 /\ req'[p].secret = x0
    BY <1>1, <1>4, <1>6, <2>1
  <2> QED
    BY <2>2, <2>3 DEF RequestOK, Seeing
<1>10. /\ record' \in [Cookies -> SessionRows \cup {NoSession}] /\ record'[c] = s
       /\ \A d \in Cookies \ {c} : record'[d] \in {NoSession, record[d]}
  BY <1>1, <1>2 DEF StoreType
<1>11. /\ revoked \subseteq revoked' /\ revoked' \subseteq minted' /\ c \in minted'
       /\ minted \subseteq minted' /\ minted' \subseteq Cookies
       /\ \A d \in revoked' \ revoked : record'[d] = NoSession
       /\ Fresh(s.account, s.epoch, s.secret)
  BY <1>1, <1>2 DEF StoreType
<1>12. r.at \notin Seeing /\ req[p].at \notin {"due", "slid"}
  BY <1>1, <1>4, <1>5 DEF Seeing
<1> HIDE DEF Sees, Seeing
<1> QED
  BY <1>1, <1>2, <1>3, <1>5, <1>9, <1>10, <1>11, <1>12, Writes

LEMMA RotateWriteKeeps ==
    ASSUME StoreType, SessionsInv, NEW p \in Requests, NEW n \in Cookies, RotateWrite(p, n)
    PROVE  StoreType' /\ SessionsInv'
<1> DEFINE y == req[p]
           c == req[p].cookie
           s == [[[y.seen EXCEPT !.gate = y.gate] EXCEPT !.credential = y.credential]
                 EXCEPT !.secret = y.secret]
           r == [[y EXCEPT !.at = "rotated"] EXCEPT !.cookie = n]
<1>1. /\ y.at = "rotating" /\ y \in RequestSet /\ RequestOK(p) /\ n \notin minted
      /\ UNCHANGED <<account, epoch, held>> /\ minted' = minted \cup {n}
      /\ record' = [record EXCEPT ![n] = s, ![c] = NoSession]
      /\ revoked' = revoked \cup {c} /\ req' = [req EXCEPT ![p] = r]
  BY DEF RotateWrite, Is, rows, StoreType, SessionsInv
<1>2. /\ y.seen \in SessionRows /\ y.seen.account = y.account /\ y.account \in Accounts
      /\ Fresh(y.account, y.seen.epoch, y.secret) /\ c \in minted
      /\ Fresh(y.account, y.seen.epoch, y.seen.secret)
  BY <1>1 DEF RequestOK, Seeing
<1>3. y.gate \in Gates /\ y.credential \in Credentials /\ y.secret \in Nat /\ y.seen.epoch \in Nat
  BY <1>1, <1>2 DEF RequestSet, SessionRows
<1>4. s \in SessionRows /\ s.account = y.account /\ s.epoch = y.seen.epoch /\ s.secret = y.secret
  BY <1>2, <1>3 DEF SessionRows
<1>5. r \in RequestSet
  BY <1>1, RequestFields DEF Moments
<1>6. r.at = "rotated" /\ r.account = y.account /\ r.cookie = n
  BY <1>1, RequestDomain
<1>7. y = req[p]
  OBVIOUS
<1> HIDE DEF r, s, y, c
<1>8. req'[p] = r
  BY <1>1 DEF StoreType
<1>9. RequestOK(p)'
  BY <1>1, <1>2, <1>6, <1>8 DEF RequestOK, Seeing
<1>10. c # n /\ c \in Cookies
  BY <1>1, <1>2 DEF StoreType
<1>11. /\ record' \in [Cookies -> SessionRows \cup {NoSession}] /\ record'[n] = s
       /\ record'[c] = NoSession
       /\ \A d \in Cookies \ {n} : record'[d] \in {NoSession, record[d]}
  BY <1>1, <1>4, <1>10 DEF StoreType
<1>12. /\ revoked \subseteq revoked' /\ revoked' \subseteq minted' /\ n \in minted'
       /\ minted \subseteq minted' /\ minted' \subseteq Cookies
       /\ \A d \in revoked' \ revoked : record'[d] = NoSession
       /\ Fresh(s.account, s.epoch, s.secret)
  BY <1>1, <1>2, <1>4, <1>11 DEF StoreType
<1>13. r.at \notin Seeing /\ req[p].at \notin {"due", "slid"}
  BY <1>1, <1>6, <1>7 DEF Seeing
<1> HIDE DEF Sees, Seeing
<1> QED
  BY <1>1, <1>4, <1>5, <1>7, <1>9, <1>11, <1>12, <1>13, Writes

LEMMA SessionsStep ==
    ASSUME StoreType, SessionsInv, index \in [Accounts -> SUBSET Cookies], Next
    PROVE  StoreType' /\ SessionsInv'
<1>1. ASSUME NEW p \in Requests, SessionStep(p)  PROVE StoreType' /\ SessionsInv'
  <2>1. ASSUME ListSessions(p)  PROVE StoreType' /\ SessionsInv'
    <3>1. index[req[p].account] \in SUBSET Cookies
      BY <2>1 DEF ListSessions, Is, SessionsInv, RequestOK
    <3> QED
      BY <2>1, <3>1, ListSessionsKeeps
  <2> QED
    BY <1>1, <2>1, CaptureEpochKeeps, LoadPrincipalKeeps, ChecksKeep, ResolveSlideKeeps,
       ResolveCheckKeeps, CurrentSessionKeeps, DropKeeps, SettledKeeps, GatesKeep, RotateReadKeeps,
       BumpEpochKeeps, ProvisionKeeps
    DEF SessionStep
<1>2. ASSUME NEW p \in Requests, NEW a \in Accounts,
             Authenticate(p, a) \/ Deactivate(p, a) \/ ConsumeReset(p, a)
      PROVE  StoreType' /\ SessionsInv'
  BY <1>2, AuthenticateKeeps, CommandsKeep
<1>3. ASSUME NEW p \in Requests, NEW c \in Cookies,
             ResolveRead(p, c) \/ CreateWrite(p, c) \/ RotateWrite(p, c)
      PROVE  StoreType' /\ SessionsInv'
  BY <1>3, ResolveReadKeeps, CreateWriteKeeps, RotateWriteKeeps
<1>4. ASSUME NEW p \in Requests, NEW ks \in SUBSET Kinds, RecordAcceptances(p, ks)
      PROVE  StoreType' /\ SessionsInv'
  BY <1>4, GatesKeep
<1>5. ASSUME NEW p \in Requests, NEW r \in Reps, NEW m \in Managers,
             ChangeTeam(p, r, m) \/ ProvisionCheck(p, r, m)
      PROVE  StoreType' /\ SessionsInv'
  BY <1>5, CommandsKeep, ProvisionKeeps
<1> QED
  BY <1>1, <1>2, <1>3, <1>4, <1>5, OutsideKeeps DEF Next

LEMMA SessionsBegin ==
    ASSUME Init
    PROVE  StoreType /\ SessionsInv /\ index \in [Accounts -> SUBSET Cookies]
<1>1. account \in [Accounts -> AccountRows]
  <2>1. \A a \in Accounts :
          [status |-> IF a \in Managers THEN "active" ELSE "absent", credential |-> "initial",
           secret |-> 0, team |-> IF a \in Managers THEN a ELSE NoOne] \in AccountRows
    BY DEF AccountRows, Credentials
  <2> QED
    BY <2>1 DEF Init
<1>2. /\ req = [p \in Requests |-> Idle] /\ record = [c \in Cookies |-> NoSession]
      /\ revoked = {} /\ minted = {} /\ held = {}
      /\ index = [a \in Accounts |-> {}] /\ epoch = [a \in Accounts |-> 0]
  BY DEF Init
<1>3. StoreType
  BY <1>1, <1>2, Nobodies DEF StoreType
<1>4. \A p \in Requests : req[p].at = "idle"
  BY <1>2, Nobodies
<1>5. \A p \in Requests : RequestOK(p) /\ ~Sees(p)
  BY <1>4 DEF RequestOK, Sees, Seeing
<1> QED
  BY <1>2, <1>3, <1>5 DEF SessionsInv, RecordOK, SameRecord, RevokedLeavesNothing

\* The same of every execution: no other surface moves accounts or sessions.
LEMMA SessionsHold ==
    EntrySpec => [](StoreType /\ SessionsInv /\ index \in [Accounts -> SUBSET Cookies])
<1> DEFINE Inv == StoreType /\ SessionsInv /\ index \in [Accounts -> SUBSET Cookies]
<1>1. EntryInit => Inv
  BY SessionsBegin DEF EntryInit
<1>2. Inv /\ [EntryNext]_entryVars => Inv'
  <2> SUFFICES ASSUME Inv, [EntryNext]_entryVars  PROVE Inv'
    OBVIOUS
  <2>1. CASE Next
    BY <2>1, SessionsStep, IndexTyped
  <2>2. CASE UNCHANGED vars
    <3>1. UNCHANGED <<account, record, revoked, index, epoch, minted, held, req>>
      BY <2>2 DEF vars, rows, store
    <3>2. StoreType' /\ SessionsInv'
      BY <3>1, Untouched, Deletes
    <3> QED
      BY <3>1, <3>2
  <2>3. Next \/ UNCHANGED vars
    BY DEF EntryNext, entryVars
  <2> QED
    BY <2>1, <2>2, <2>3
<1> QED
  BY <1>1, <1>2, PTL DEF EntrySpec

LEMMA StaleEnd ==
    ASSUME StoreType, SessionsInv
    PROVE  StaleSessionsEnd
<1> SUFFICES ASSUME NEW c \in held, Resolves(c), Revoking(record[c].account) = {}
             PROVE  /\ Active(record[c].account)
                    /\ record[c].secret = account[record[c].account].secret
  BY DEF StaleSessionsEnd
<1>1. c \in Cookies /\ RecordOK(c)
  BY DEF StoreType, SessionsInv
<1> QED
  BY <1>1 DEF RecordOK, Resolves, Fresh

(* A session that was ended stays ended, for any number of accounts,       *)
(* operators, cookies and requests, whatever they overtake.                *)
THEOREM EndedForGood == EntrySpec => []EndedStaysEnded
<1>1. StoreType /\ SessionsInv => StaleSessionsEnd /\ RevokedLeavesNothing
  BY StaleEnd DEF SessionsInv
<1>2. (StoreType /\ SessionsInv /\ index \in [Accounts -> SUBSET Cookies])
        /\ VoidedLeavesNothing => EndedStaysEnded
  BY <1>1 DEF EndedStaysEnded
<1> QED
  BY <1>2, SessionsHold, VoidedHolds, PTL

-----------------------------------------------------------------------------
(* Lists. *)

\* A set of numbers has a least element.
LEMMA LeastNumber ==
    ASSUME NEW T \in SUBSET Nat, T # {}
    PROVE  \E x \in T : \A y \in T : x <= y
<1> DEFINE R == OpToRel(<, Nat)
<1>1. IsWellFoundedOn(R, Nat)
  BY NatLessThanWellFounded
<1>2. \A x, y \in Nat : y < x => <<y, x>> \in R
  BY DEF OpToRel
<1> HIDE DEF R
<1>3. PICK x \in T : \A y \in T : ~(<<y, x>> \in R)
  BY <1>1, WFMin
<1>4. ASSUME NEW y \in T  PROVE x <= y
  <2>1. x \in Nat /\ y \in Nat
    OBVIOUS
  <2>2. <<y, x>> \notin R
    BY <1>3
  <2>3. ~(y < x)
    BY <1>2, <2>1, <2>2
  <2> QED
    BY <2>1, <2>3
<1> QED
  BY <1>4

Instants == 1..2
LogRows == [at : Instants, org : {"ours", "theirs"}, status : {"open", "resolved"}]
EveryList == {"audit", "requests", "faults"}
Walks == [state : {"none", "open", "ended", "refused"}, list : {"none"} \cup EveryList,
          filter : {"all", "ours", "open"}, at : Int \X Int, served : Seq(Nat), owed : SUBSET Nat]

\* The order of a list, of rows that are there.
Before(list, i, j) == Behind(SortKey(list, i), SortKey(list, j))
Served(w, i) == \E n \in DOMAIN w.served : w.served[n] = i
LastOf(w) == w.served[Len(w.served)]

\* A walk has served rows in the list's order, stands at the last of them, and has
\* the others that are owed before it.
WalkOK(w) ==
    /\ w \in Walks
    /\ \A n \in DOMAIN w.served : w.served[n] \in DOMAIN log
    /\ \A m, n \in DOMAIN w.served : m < n => Before(w.list, w.served[m], w.served[n])
    /\ w.state = "open" => /\ w.served # <<>> /\ w.at = SortKey(w.list, LastOf(w))
                           /\ \A i \in w.owed : Served(w, i) \/ Before(w.list, LastOf(w), i)
    /\ w.state \in {"open", "ended"} => /\ w.list \in EveryList
                                        /\ w.filter \in FiltersOf(w.list)
                                        /\ w.owed \subseteq RowsOf(w.list, w.filter)
    /\ w.state = "ended" => \A i \in w.owed : Served(w, i)

ListsInv == log \in Seq(LogRows) /\ WalkOK(browse)

\* A row's place in a list, as a number.
PlaceOf(list, i) ==
    IF list = "faults" THEN IF log[i].at = 2 THEN Len(log) + i ELSE i
    ELSE IF log[i].at = 1 THEN Len(log) + Len(log) - i ELSE Len(log) - i

LEMMA PlacesOrder ==
    ASSUME log \in Seq(LogRows), NEW list, NEW i \in DOMAIN log, NEW j \in DOMAIN log
    PROVE  /\ PlaceOf(list, i) \in Nat
           /\ Before(list, i, j) <=> PlaceOf(list, i) < PlaceOf(list, j)
           /\ PlaceOf(list, i) = PlaceOf(list, j) => i = j
<1>1. /\ i \in 1..Len(log) /\ j \in 1..Len(log) /\ Len(log) \in Nat
      /\ log[i].at \in {1, 2} /\ log[j].at \in {1, 2}
  <2>1. log[i] \in LogRows /\ log[j] \in LogRows /\ i \in 1..Len(log) /\ j \in 1..Len(log)
    OBVIOUS
  <2> QED
    BY <2>1 DEF LogRows, Instants
<1>2. CASE list = "faults"
  BY <1>1, <1>2 DEF PlaceOf, Before, Behind, SortKey
<1>3. CASE list # "faults"
  <2>1. SortKey(list, i) = <<-log[i].at, -i>> /\ SortKey(list, j) = <<-log[j].at, -j>>
    BY <1>3 DEF SortKey
  <2>2. Before(list, i, j) <=> \/ -log[i].at < -log[j].at
                               \/ -log[i].at = -log[j].at /\ -i < -j
    BY <2>1 DEF Before, Behind
  <2>3. \A a, b \in Int : (-a < -b <=> b < a) /\ (-a = -b <=> a = b)
    OBVIOUS
  <2>4. /\ i \in Int /\ j \in Int /\ log[i].at \in Int /\ log[j].at \in Int
    BY <1>1
  <2>5. Before(list, i, j) <=> \/ log[j].at < log[i].at
                               \/ log[i].at = log[j].at /\ j < i
    BY <2>2, <2>3, <2>4
  <2> QED
    BY <1>1, <1>3, <2>5 DEF PlaceOf
<1> QED
  BY <1>2, <1>3

\* Of rows that are there, one comes first.
LEMMA OneIsFirst ==
    ASSUME log \in Seq(LogRows), NEW list, NEW ahead \in SUBSET DOMAIN log, ahead # {}
    PROVE  \E j \in ahead : \A k \in ahead \ {j} :
             ~Behind(SortKey(list, k), SortKey(list, j))
<1> DEFINE T == {PlaceOf(list, k) : k \in ahead}
<1>1. T \in SUBSET Nat /\ T # {}
  BY PlacesOrder
<1>2. PICK x \in T : \A y \in T : x <= y
  <2> HIDE DEF T
  <2> QED
    BY <1>1, LeastNumber
<1>3. PICK j \in ahead : x = PlaceOf(list, j)
  BY <1>2
<1>4. ASSUME NEW k \in ahead \ {j}  PROVE ~Before(list, k, j)
  <2>1. PlaceOf(list, k) \in Nat /\ PlaceOf(list, j) \in Nat
    BY PlacesOrder
  <2>2. PlaceOf(list, j) <= PlaceOf(list, k)
    BY <1>2, <1>3
  <2>3. ~(PlaceOf(list, k) < PlaceOf(list, j))
    BY <2>1, <2>2
  <2> QED
    BY <2>3, PlacesOrder
<1> QED
  BY <1>4 DEF Before

\* What a page does to a walk.
LEMMA TurnsAPage ==
    ASSUME log \in Seq(LogRows), NEW w \in Walks, NEW ahead \in SUBSET DOMAIN log,
           w.list \in EveryList, w.filter \in FiltersOf(w.list),
           w.owed \subseteq RowsOf(w.list, w.filter),
           \A n \in DOMAIN w.served : w.served[n] \in DOMAIN log,
           \A m, n \in DOMAIN w.served : m < n => Before(w.list, w.served[m], w.served[n]),
           \A n \in DOMAIN w.served : \A i \in ahead : Before(w.list, w.served[n], i),
           \A i \in w.owed : Served(w, i) \/ i \in ahead
    PROVE  WalkOK(Turned(w, ahead))
<1>1. CASE ahead = {}
  <2> DEFINE v == [w EXCEPT !.state = "ended"]
  <2>1. Turned(w, ahead) = v
    BY <1>1 DEF Turned
  <2>2. /\ v \in Walks /\ v.state = "ended" /\ v.list = w.list /\ v.filter = w.filter
        /\ v.served = w.served /\ v.owed = w.owed
    BY DEF Walks
  <2> HIDE DEF v
  <2>3. WalkOK(v)
    BY <1>1, <2>2 DEF WalkOK, Served
  <2> QED
    BY <2>1, <2>3
<1>2. CASE ahead # {}
  <2> DEFINE i == CHOOSE j \in ahead :
                    \A k \in ahead \ {j} : ~Behind(SortKey(w.list, k), SortKey(w.list, j))
             state == IF ahead = {i} THEN "ended" ELSE "open"
             v == [w EXCEPT !.state = state, !.at = SortKey(w.list, i), !.served = Append(@, i)]
  <2>1. Turned(w, ahead) = v
    BY <1>2 DEF Turned
  <2>2. i \in ahead /\ \A k \in ahead \ {i} : ~Before(w.list, k, i)
    <3>1. \E j \in ahead : \A k \in ahead \ {j} : ~Behind(SortKey(w.list, k), SortKey(w.list, j))
      BY <1>2, OneIsFirst
    <3> QED
      BY <3>1 DEF Before
  <2>3. state \in {"open", "ended"} /\ (state = "ended" => ahead = {i})
    OBVIOUS
  <2> HIDE DEF i, state
  <2>4. i \in DOMAIN log /\ i \in Nat /\ SortKey(w.list, i) \in Int \X Int
    <3>1. i \in 1..Len(log) /\ log[i] \in LogRows
      BY <2>2
    <3>2. log[i].at \in Int
      BY <3>1 DEF LogRows, Instants
    <3> QED
      BY <3>1, <3>2 DEF SortKey
  <2>5. w.served \in Seq(Nat)
    BY DEF Walks
  <2>6. /\ Append(w.served, i) \in Seq(Nat)
        /\ Len(Append(w.served, i)) = Len(w.served) + 1 /\ Len(w.served) \in Nat
        /\ DOMAIN w.served = 1..Len(w.served)
        /\ DOMAIN Append(w.served, i) = 1..Len(w.served) + 1
        /\ Append(w.served, i)[Len(w.served) + 1] = i
        /\ \A n \in 1..Len(w.served) : Append(w.served, i)[n] = w.served[n]
    BY <2>4, <2>5
  <2>7. /\ v \in Walks /\ v.state = state /\ v.list = w.list /\ v.filter = w.filter
        /\ v.at = SortKey(w.list, i) /\ v.served = Append(w.served, i) /\ v.owed = w.owed
    BY <2>3, <2>4, <2>6 DEF Walks
  <2> HIDE DEF v
  <2>8. \A n \in DOMAIN v.served : v.served[n] \in DOMAIN log
    BY <2>4, <2>6, <2>7
  <2>9. \A m, n \in DOMAIN v.served : m < n => Before(v.list, v.served[m], v.served[n])
    <3> SUFFICES ASSUME NEW m \in DOMAIN v.served, NEW n \in DOMAIN v.served, m < n
                 PROVE  Before(w.list, v.served[m], v.served[n])
      BY <2>7
    <3>1. m \in DOMAIN w.served /\ v.served[m] = w.served[m]
      BY <2>6, <2>7
    <3>2. CASE n = Len(w.served) + 1
      BY <2>2, <2>6, <2>7, <3>1, <3>2
    <3>3. CASE n # Len(w.served) + 1
      BY <2>6, <2>7, <3>1, <3>3, SMTT(30)
    <3> QED
      BY <3>2, <3>3
  <2>10. \A k \in ahead : k = i \/ Before(w.list, i, k)
    <3> SUFFICES ASSUME NEW k \in ahead, k # i  PROVE Before(w.list, i, k)
      OBVIOUS
    <3>1. ~Before(w.list, k, i)
      BY <2>2
    <3>2. PlaceOf(w.list, i) \in Nat /\ PlaceOf(w.list, k) \in Nat
      BY <2>4, PlacesOrder
    <3>3. ~(PlaceOf(w.list, k) < PlaceOf(w.list, i)) /\ PlaceOf(w.list, k) # PlaceOf(w.list, i)
      BY <2>4, <3>1, PlacesOrder
    <3>4. PlaceOf(w.list, i) < PlaceOf(w.list, k)
      BY <3>2, <3>3
    <3> QED
      BY <2>4, <3>4, PlacesOrder
  <2>11. Served(v, i) /\ \A k : Served(w, k) => Served(v, k)
    BY <2>6, <2>7 DEF Served
  <2>12. \A k \in v.owed : Served(v, k) \/ (k \in ahead /\ k # i)
    BY <2>7, <2>11
  <2>13. v.state = "open" => /\ v.served # <<>> /\ v.at = SortKey(v.list, LastOf(v))
                             /\ \A k \in v.owed : Served(v, k) \/ Before(v.list, LastOf(v), k)
    <3>1. LastOf(v) = i /\ v.served # <<>>
      <4>1. Len(v.served) = Len(w.served) + 1
        BY <2>6, <2>7
      <4>2. LastOf(v) = i
        BY <2>6, <2>7, <4>1 DEF LastOf
      <4>3. Len(v.served) # Len(<<>>)
        BY <2>6, <4>1
      <4> QED
        BY <4>2, <4>3
    <3> QED
      BY <2>7, <2>10, <2>12, <3>1
  <2>14. v.state = "ended" => \A k \in v.owed : Served(v, k)
    BY <2>3, <2>7, <2>12
  <2>15. WalkOK(v)
    BY <2>7, <2>8, <2>9, <2>13, <2>14 DEF WalkOK
  <2> QED
    BY <2>1, <2>15
<1> QED
  BY <1>1, <1>2

\* A row keeps its place in the order as rows are written, and resolved.
LEMMA LogGrows ==
    ASSUME log \in Seq(LogRows), log' \in Seq(LogRows), DOMAIN log \subseteq DOMAIN log',
           \A i \in DOMAIN log : log'[i].at = log[i].at /\ log'[i].org = log[i].org,
           browse' \in Walks, WalkOK(browse),
           browse'.state = browse.state, browse'.list = browse.list,
           browse'.filter = browse.filter, browse'.at = browse.at,
           browse'.served = browse.served, browse'.owed \subseteq browse.owed,
           browse.state \in {"open", "ended"} /\ browse.list = "faults" /\ browse.filter = "open" =>
              \A i \in browse'.owed : log'[i].status = log[i].status
    PROVE  WalkOK(browse)'
<1>1. \A i \in DOMAIN log : SortKey(browse.list, i)' = SortKey(browse.list, i)
  BY DEF SortKey
<1>2. \A n \in DOMAIN browse.served : browse.served[n] \in DOMAIN log
  BY DEF WalkOK
<1>3. \A n \in DOMAIN browse'.served : browse'.served[n] \in DOMAIN log'
  BY <1>2
<1>4. \A m, n \in DOMAIN browse'.served :
         m < n => Before(browse.list, browse.served[m], browse.served[n])'
  BY <1>1, <1>2 DEF WalkOK, Before
<1>5. browse.state \in {"open", "ended"} =>
        /\ browse.list \in EveryList /\ browse.filter \in FiltersOf(browse.list)
        /\ browse.owed \subseteq RowsOf(browse.list, browse.filter)
        /\ browse.owed \subseteq DOMAIN log
  BY DEF WalkOK, RowsOf, AuditRows, RequestRows, FaultRows, EveryList
<1>6. browse'.state \in {"open", "ended"} =>
           browse'.owed \subseteq RowsOf(browse.list, browse.filter)'
  <2> SUFFICES ASSUME browse'.state \in {"open", "ended"}, NEW i \in browse'.owed
               PROVE  i \in RowsOf(browse.list, browse.filter)'
    OBVIOUS
  <2>1. i \in DOMAIN log /\ i \in DOMAIN log' /\ i \in RowsOf(browse.list, browse.filter)
    BY <1>5
  <2>2. CASE browse.list = "audit"
    BY <2>1, <2>2 DEF RowsOf, AuditRows
  <2>3. CASE browse.list = "requests"
    BY <2>1, <2>3 DEF RowsOf, RequestRows
  <2>4. CASE browse.list = "faults"
    <3>1. browse.filter \in {"all", "open"}
      BY <1>5, <2>4 DEF FiltersOf
    <3> QED
      BY <2>1, <2>4, <3>1 DEF RowsOf, FaultRows
  <2> QED
    BY <1>5, <2>2, <2>3, <2>4 DEF EveryList
<1>7. browse'.state = "ended" => \A i \in browse'.owed : Served(browse, i)'
  BY DEF WalkOK, Served
<1>8. ASSUME browse'.state = "open"
      PROVE  /\ browse'.served # <<>> /\ browse'.at = SortKey(browse.list, LastOf(browse))'
             /\ \A i \in browse'.owed :
                   Served(browse, i)' \/ Before(browse.list, LastOf(browse), i)'
  <2>1. /\ browse.served # <<>> /\ browse.at = SortKey(browse.list, LastOf(browse))
        /\ \A i \in browse.owed : Served(browse, i) \/ Before(browse.list, LastOf(browse), i)
    BY <1>8 DEF WalkOK
  <2>2. LastOf(browse)' = LastOf(browse) /\ LastOf(browse) \in DOMAIN log
    <3>1. browse.served \in Seq(Nat) /\ browse.served # <<>>
      BY <2>1 DEF WalkOK, Walks
    <3>2. Len(browse.served) \in DOMAIN browse.served
      BY <3>1
    <3> QED
      BY <1>2, <3>2 DEF LastOf
  <2>3. \A i \in browse'.owed : i \in DOMAIN log
    BY <1>5, <1>8
  <2>4. \A i \in browse'.owed : Before(browse.list, LastOf(browse), i)' <=>
                                  Before(browse.list, LastOf(browse), i)
    BY <1>1, <2>2, <2>3 DEF Before
  <2>5. \A i \in browse'.owed : Served(browse, i)' <=> Served(browse, i)
    BY DEF Served
  <2> QED
    BY <1>1, <2>1, <2>2, <2>4, <2>5
<1> QED
  BY <1>3, <1>4, <1>5, <1>6, <1>7, <1>8 DEF WalkOK

\* A page writes nothing.
LEMMA SameLog ==
    ASSUME log' = log, NEW v, browse' = v, WalkOK(v)
    PROVE  WalkOK(browse)'
<1>1. /\ \A list, i, j : Before(list, i, j)' <=> Before(list, i, j)
      /\ \A list, i : SortKey(list, i)' = SortKey(list, i)
      /\ \A list, filter : RowsOf(list, filter)' = RowsOf(list, filter)
  BY DEF Before, SortKey, RowsOf, AuditRows, RequestRows, FaultRows
<1> QED
  BY <1>1 DEF WalkOK, Served, LastOf

LEMMA ListsStep ==
    ASSUME ListsInv, DeskStep
    PROVE  ListsInv'
<1> USE OperatorsAssumption
<1>1. log \in Seq(LogRows) /\ WalkOK(browse) /\ browse \in Walks
  BY DEF ListsInv, WalkOK
<1>2. ASSUME NEW at \in 1..2, Write(at)  PROVE ListsInv'
  <2>1. PICK org \in {"ours", "theirs"} :
           log' = Append(log, [at |-> at, org |-> org, status |-> "open"])
    BY <1>2 DEF Write, Begun
  <2> DEFINE row == [at |-> at, org |-> org, status |-> "open"]
  <2>2. row \in LogRows
    BY DEF LogRows, Instants
  <2>3. log' = Append(log, row) /\ browse' = browse
    BY <1>2, <2>1 DEF Write
  <2> HIDE DEF row
  <2>4. /\ log' \in Seq(LogRows) /\ DOMAIN log \subseteq DOMAIN log'
        /\ \A i \in DOMAIN log : log'[i] = log[i]
    BY <1>1, <2>2, <2>3
  <2>5. WalkOK(browse)'
    <3>1. \A i \in DOMAIN log : log'[i].at = log[i].at /\ log'[i].org = log[i].org
      BY <2>4
    <3>2. browse.state \in {"open", "ended"} /\ browse.list = "faults" /\ browse.filter = "open" =>
              \A i \in browse'.owed : log'[i].status = log[i].status
      BY <1>1, <2>3, <2>4 DEF WalkOK, RowsOf, FaultRows
    <3> QED
      BY <1>1, <2>3, <2>4, <3>1, <3>2, LogGrows
  <2> QED
    BY <2>4, <2>5 DEF ListsInv
<1>3. ASSUME NEW i \in 1..Entries, ResolveFault(i)  PROVE ListsInv'
  <2> DEFINE row == [log[i] EXCEPT !.status = "resolved"]
             less == [browse EXCEPT !.owed = browse.owed \ {i}]
  <2>1. /\ i \in DOMAIN log /\ log' = [log EXCEPT ![i] = row] /\ browse.list = "faults"
        /\ browse' = IF browse.filter = "all" THEN browse ELSE less
    BY <1>3 DEF ResolveFault
  <2>2. log[i] \in LogRows
    BY <1>1, <2>1
  <2>3. row \in LogRows /\ row.at = log[i].at /\ row.org = log[i].org
    BY <2>2 DEF LogRows
  <2>4. /\ less \in Walks /\ less.owed = browse.owed \ {i} /\ less.state = browse.state
        /\ less.list = browse.list /\ less.filter = browse.filter /\ less.at = browse.at
        /\ less.served = browse.served
    BY <1>1 DEF Walks
  <2> HIDE DEF row, less
  <2>5. /\ log' \in Seq(LogRows) /\ DOMAIN log' = DOMAIN log
        /\ \A j \in DOMAIN log \ {i} : log'[j] = log[j]
        /\ log'[i] = row
    BY <1>1, <2>1, <2>3
  <2>6. \A j \in DOMAIN log : log'[j].at = log[j].at /\ log'[j].org = log[j].org
    BY <2>3, <2>5
  <2>7. WalkOK(browse)'
    <3>1. CASE browse.filter = "all"
      BY <1>1, <2>1, <2>5, <2>6, <3>1, LogGrows
    <3>2. CASE browse.filter # "all"
      <4>1. browse' = less
        BY <2>1, <3>2
      <4>2. browse.state \in {"open", "ended"} => browse.owed \subseteq DOMAIN log
        BY <1>1, <2>1 DEF WalkOK, RowsOf, FaultRows
      <4>3. browse.state \in {"open", "ended"} =>
               \A j \in less.owed : log'[j].status = log[j].status
        BY <2>4, <2>5, <4>2
      <4> QED
        BY <1>1, <2>4, <2>5, <2>6, <4>1, <4>3, LogGrows
    <3> QED
      BY <3>1, <3>2
  <2> QED
    BY <2>5, <2>7 DEF ListsInv
<1>4. ASSUME NEW list \in Lists, NEW filter \in {"all", "ours", "open"},
             filter \in FiltersOf(list), Open(list, filter)
      PROVE  ListsInv'
  <2> DEFINE there == RowsOf(list, filter)
             w == [[[NoBrowse EXCEPT !.list = list] EXCEPT !.filter = filter]
                   EXCEPT !.owed = there]
  <2>1. browse' = Turned(w, there) /\ log' = log
    BY <1>4 DEF Open
  <2>2. list \in EveryList
    BY DEF EveryList
  <2>3. /\ there = RowsOf(list, filter) /\ there \in SUBSET DOMAIN log
        /\ there \in SUBSET Nat
    <3>1. DOMAIN log \subseteq Nat
      BY <1>1
    <3> QED
      BY <2>2, <3>1 DEF RowsOf, AuditRows, RequestRows, FaultRows, EveryList
  <2> HIDE DEF there
  <2>4. /\ w \in Walks /\ w.list = list /\ w.filter = filter /\ w.owed = there
        /\ w.served = <<>>
    <3>1. <<>> \in Seq(Nat) /\ <<0, 0>> \in Int \X Int
      OBVIOUS
    <3> QED
      BY <2>2, <2>3, <3>1 DEF NoBrowse, Walks
  <2> HIDE DEF w
  <2>5. WalkOK(Turned(w, there))
    BY <1>1, <1>4, <2>2, <2>3, <2>4, TurnsAPage DEF Served
  <2> QED
    BY <1>1, <2>1, <2>5, SameLog DEF ListsInv
<1>5. ASSUME NEW filter \in {"all", "ours", "open"}, Onward(filter)  PROVE ListsInv'
  <2>1. browse.state = "open" /\ log' = log
    BY <1>5 DEF Onward
  <2>2. CASE filter # browse.filter
    <3> DEFINE v == [browse EXCEPT !.state = "refused"]
    <3>1. browse' = v
      BY <1>5, <2>2 DEF Onward
    <3>2. /\ v \in Walks /\ v.state = "refused" /\ v.list = browse.list
          /\ v.served = browse.served
      BY <1>1 DEF Walks
    <3> HIDE DEF v
    <3>3. WalkOK(v)
      BY <1>1, <3>2 DEF WalkOK
    <3> QED
      BY <1>1, <2>1, <3>1, <3>3, SameLog DEF ListsInv
  <2>3. CASE filter = browse.filter
    <3> DEFINE ahead == {i \in RowsOf(browse.list, filter) :
                           Behind(browse.at, SortKey(browse.list, i))}
    <3>1. browse' = Turned(browse, ahead)
      BY <1>5, <2>3 DEF Onward
    <3>2. /\ browse.list \in EveryList /\ browse.filter \in FiltersOf(browse.list)
          /\ browse.owed \subseteq RowsOf(browse.list, browse.filter)
          /\ browse.served # <<>> /\ browse.at = SortKey(browse.list, LastOf(browse))
          /\ \A n \in DOMAIN browse.served : browse.served[n] \in DOMAIN log
          /\ \A m, n \in DOMAIN browse.served :
                m < n => Before(browse.list, browse.served[m], browse.served[n])
          /\ \A i \in browse.owed : Served(browse, i) \/ Before(browse.list, LastOf(browse), i)
      BY <1>1, <2>1 DEF WalkOK
    <3>3. RowsOf(browse.list, filter) \subseteq DOMAIN log
      BY <3>2 DEF RowsOf, AuditRows, RequestRows, FaultRows, EveryList
    <3>4. /\ ahead \in SUBSET DOMAIN log
          /\ \A i \in ahead : Before(browse.list, LastOf(browse), i)
          /\ \A i \in RowsOf(browse.list, filter) :
                Before(browse.list, LastOf(browse), i) => i \in ahead
      BY <3>2, <3>3 DEF Before
    <3> HIDE DEF ahead
    <3>5. /\ Len(browse.served) \in DOMAIN browse.served /\ Len(browse.served) \in Nat
          /\ DOMAIN browse.served = 1..Len(browse.served)
      <4>1. browse.served \in Seq(Nat) /\ browse.served # <<>>
        BY <1>1, <3>2 DEF Walks
      <4> QED
        BY <4>1
    <3>6. \A n \in DOMAIN browse.served : \A i \in ahead :
             Before(browse.list, browse.served[n], i)
      <4> SUFFICES ASSUME NEW n \in DOMAIN browse.served, NEW i \in ahead
                   PROVE  Before(browse.list, browse.served[n], i)
        OBVIOUS
      <4>1. Before(browse.list, LastOf(browse), i)
        BY <3>4
      <4>2. CASE n = Len(browse.served)
        BY <4>1, <4>2 DEF LastOf
      <4>3. CASE n # Len(browse.served)
        <5> DEFINE a == browse.served[n]
                   b == LastOf(browse)
        <5>1. Before(browse.list, a, b)
          BY <3>2, <3>5, <4>3 DEF LastOf
        <5>2. a \in DOMAIN log /\ b \in DOMAIN log /\ i \in DOMAIN log
          BY <3>2, <3>4, <3>5 DEF LastOf
        <5> HIDE DEF a, b
        <5>3. /\ PlaceOf(browse.list, a) < PlaceOf(browse.list, b)
              /\ PlaceOf(browse.list, b) < PlaceOf(browse.list, i)
          BY <1>1, <4>1, <5>1, <5>2, PlacesOrder DEF b
        <5>4. /\ PlaceOf(browse.list, a) \in Nat /\ PlaceOf(browse.list, b) \in Nat
              /\ PlaceOf(browse.list, i) \in Nat
          BY <1>1, <5>2, PlacesOrder
        <5>5. PlaceOf(browse.list, a) < PlaceOf(browse.list, i)
          BY <5>3, <5>4
        <5>6. Before(browse.list, a, i)
          BY <1>1, <5>2, <5>5, PlacesOrder
        <5> QED
          BY <5>6 DEF a
      <4> QED
        BY <4>2, <4>3
    <3>7. \A i \in browse.owed : Served(browse, i) \/ i \in ahead
      BY <2>3, <3>2, <3>4
    <3>8. WalkOK(Turned(browse, ahead))
      BY <1>1, <3>2, <3>4, <3>6, <3>7, TurnsAPage
    <3> QED
      BY <1>1, <2>1, <3>1, <3>8, SameLog DEF ListsInv
  <2> QED
    BY <2>2, <2>3
<1> QED
  BY <1>2, <1>3, <1>4, <1>5 DEF DeskStep

LEMMA ListsHold == EntrySpec => []ListsInv
<1>1. EntryInit => ListsInv
  <2> SUFFICES ASSUME log = <<>>, browse = NoBrowse  PROVE ListsInv
    BY DEF EntryInit, OperatorsInit
  <2>1. /\ NoBrowse \in Walks /\ NoBrowse.state = "none" /\ NoBrowse.served = <<>>
    BY DEF NoBrowse, Walks
  <2>2. WalkOK(NoBrowse)
    BY <2>1 DEF WalkOK
  <2> QED
    BY <2>2 DEF ListsInv
<1>2. ListsInv /\ [EntryNext]_entryVars => ListsInv'
  <2> SUFFICES ASSUME ListsInv, [EntryNext]_entryVars  PROVE ListsInv'
    OBVIOUS
  <2>1. CASE DeskStep
    BY <2>1, ListsStep
  <2>2. CASE UNCHANGED deskVars
    BY <2>2, SameLog DEF deskVars, ListsInv
  <2>3. DeskStep \/ UNCHANGED deskVars
    BY DEF EntryNext, entryVars, operatorVars
  <2> QED
    BY <2>1, <2>2, <2>3
<1> QED
  BY <1>1, <1>2, PTL DEF EntrySpec

(* Whoever follows the cursors of a list sees every row that was there when *)
(* they began and has stayed, and none twice, for any number of rows.       *)
THEOREM ListsAreExact == EntrySpec => []ListsExact
<1>1. ListsInv => ListsExact
  <2> SUFFICES ASSUME ListsInv  PROVE ListsExact
    OBVIOUS
  <2>1. /\ log \in Seq(LogRows) /\ browse \in Walks
        /\ \A n \in DOMAIN browse.served : browse.served[n] \in DOMAIN log
        /\ \A m, n \in DOMAIN browse.served :
              m < n => Before(browse.list, browse.served[m], browse.served[n])
    BY DEF ListsInv, WalkOK
  <2>2. DOMAIN browse.served \subseteq Nat
    <3>1. browse.served \in Seq(Nat)
      BY <2>1 DEF Walks
    <3> QED
      BY <3>1
  <2>3. ASSUME NEW m \in DOMAIN browse.served, NEW n \in DOMAIN browse.served, m < n
        PROVE  browse.served[m] # browse.served[n]
    <3> DEFINE a == browse.served[m]
               b == browse.served[n]
    <3>1. a \in DOMAIN log /\ b \in DOMAIN log /\ Before(browse.list, a, b)
      BY <2>1, <2>3
    <3> HIDE DEF a, b
    <3>2. /\ PlaceOf(browse.list, a) < PlaceOf(browse.list, b)
          /\ PlaceOf(browse.list, a) \in Nat /\ PlaceOf(browse.list, b) \in Nat
      BY <2>1, <3>1, PlacesOrder
    <3>3. a # b
      BY <3>2
    <3> QED
      BY <3>3 DEF a, b
  <2>4. \A i, j \in DOMAIN browse.served : i # j => browse.served[i] # browse.served[j]
    <3> TAKE i, j \in DOMAIN browse.served
    <3> HAVE i # j
    <3>1. i < j \/ j < i
      BY <2>2
    <3> QED
      BY <2>3, <3>1
  <2>5. browse.state = "ended" =>
          browse.owed \subseteq {browse.served[i] : i \in DOMAIN browse.served}
    BY DEF ListsInv, WalkOK, Served
  <2> QED
    BY <2>4, <2>5 DEF ListsExact
<1> QED
  BY <1>1, ListsHold, PTL

-----------------------------------------------------------------------------
(* Limits: windows and holds. *)

\* A table of the first doublings.
Doubles(g, m) == g \in [0..m -> Nat \ {0}]
                 /\ \A n \in 0..m : g[n] = IF n = 0 THEN 1 ELSE 2 * g[n - 1]

LEMMA Doublings == Doubled \in [0..MaxHold -> Nat \ {0}]
<1>0. MaxHold \in Nat
  BY LimitsAssumption
<1>1. PICK T : T = {m \in Nat : ~\E g : Doubles(g, m)}
  OBVIOUS
<1>2. T = {}
  <2> SUFFICES ASSUME T # {}  PROVE FALSE
    OBVIOUS
  <2>1. PICK m \in T : \A k \in T : m <= k
    BY <1>1, LeastNumber
  <2>2. m \in Nat /\ ~\E g : Doubles(g, m)
    BY <1>1, <2>1
  <2>3. CASE m = 0
    <3>1. PICK g : g = [n \in 0..0 |-> 1]
      OBVIOUS
    <3>2. Doubles(g, 0)
      BY <3>1 DEF Doubles
    <3> QED
      BY <2>2, <2>3, <3>2
  <2>4. CASE m # 0
    <3>1. m - 1 \in Nat /\ m - 1 \notin T
      BY <2>1, <2>2, <2>4
    <3>2. PICK g : Doubles(g, m - 1)
      BY <1>1, <3>1
    <3>3. PICK h : h = [n \in 0..m |-> IF n = m THEN 2 * g[m - 1] ELSE g[n]]
      OBVIOUS
    <3>4. g[m - 1] \in Nat \ {0} /\ \A n \in 0..(m - 1) : g[n] \in Nat \ {0}
      BY <2>2, <3>1, <3>2 DEF Doubles
    <3>5. h \in [0..m -> Nat \ {0}]
      BY <2>2, <3>3, <3>4
    <3>6. ASSUME NEW n \in 0..m  PROVE h[n] = IF n = 0 THEN 1 ELSE 2 * h[n - 1]
      <4>1. CASE n = m
        BY <2>2, <2>4, <3>3, <4>1
      <4>2. CASE n # m
        <5>1. n \in 0..(m - 1) /\ (n # 0 => n - 1 \in 0..m /\ n - 1 # m)
          BY <2>2, <4>2
        <5>2. g[n] = IF n = 0 THEN 1 ELSE 2 * g[n - 1]
          BY <3>2, <5>1 DEF Doubles
        <5> QED
          BY <3>3, <4>2, <5>1, <5>2
      <4> QED
        BY <4>1, <4>2
    <3>7. Doubles(h, m)
      BY <3>5, <3>6 DEF Doubles
    <3> QED
      BY <2>2, <3>7
  <2> QED
    BY <2>3, <2>4
<1>3. PICK g : Doubles(g, MaxHold)
  BY <1>0, <1>1, <1>2
<1>4. g = [n \in 0..MaxHold |-> IF n = 0 THEN 1 ELSE 2 * g[n - 1]]
  BY <1>3 DEF Doubles
<1>5. Doubled = [n \in 0..MaxHold |-> IF n = 0 THEN 1 ELSE 2 * Doubled[n - 1]]
  BY <1>4, Zenon DEF Doubled
<1>6. \A n \in 0..MaxHold : Doubled[n] = IF n = 0 THEN 1 ELSE 2 * Doubled[n - 1]
  BY <1>5
<1>7. PICK D : D = {n \in 0..MaxHold : Doubled[n] # g[n]}
  OBVIOUS
<1>8. D = {}
  <2> SUFFICES ASSUME D # {}  PROVE FALSE
    OBVIOUS
  <2>1. D \in SUBSET Nat
    BY <1>7
  <2>2. PICK n \in D : \A k \in D : n <= k
    BY <2>1, LeastNumber
  <2>3. n \in 0..MaxHold /\ Doubled[n] # g[n]
    BY <1>7, <2>2
  <2>4. n # 0
    BY <1>3, <1>6, <2>3 DEF Doubles
  <2>5. n - 1 \in 0..MaxHold /\ n - 1 \notin D
    BY <1>0, <2>1, <2>2, <2>3, <2>4
  <2>6. Doubled[n - 1] = g[n - 1]
    BY <1>7, <2>5
  <2> QED
    BY <1>3, <1>6, <2>3, <2>4, <2>6 DEF Doubles
<1> QED
  BY <1>3, <1>5, <1>7, <1>8 DEF Doubles

CounterFields == {"n", "ttl", "age"}
TryFields == {"at", "left", "over", "failures"}
Plain == Buckets \ {"hold", "failures"}  \* what a door hits
Trying == {p \in Clients : try[p].at \in {"verifying", "wrong", "hold"}}

CounterType ==
    /\ counter = [b \in Buckets |-> counter[b]]
    /\ \A b \in Buckets :
          /\ counter[b] = [f \in CounterFields |-> counter[b][f]]
          /\ counter[b].n \in Nat /\ counter[b].ttl \in Nat /\ counter[b].age \in Nat
    /\ counter["failures"].n <= CapOf("failures")

TryType ==
    /\ try = [p \in Clients |-> try[p]]
    /\ \A p \in Clients :
          /\ try[p] = [f \in TryFields |-> try[p][f]]
          /\ try[p].left \in Seq(Plain)
          /\ try[p].at = "hold" =>
                /\ try[p].failures \in Nat
                /\ try[p].failures >= AttemptsOf["failures"]
                /\ try[p].failures <= CapOf("failures")

\* The requests a hold has overtaken may still renew it, each of them once.
HoldEnds ==
    counter["hold"] # Absent =>
        /\ counter["hold"].ttl > 0
        /\ counter["hold"].age + counter["hold"].ttl + MaxHold * Cardinality(Trying)
              <= MaxHold * Cardinality(Clients)

WindowsInv ==
    /\ CounterType /\ TryType /\ HoldEnds
    /\ \A b \in Buckets \ {"hold"} : counter[b] # Absent =>
          counter[b].ttl > 0 /\ counter[b].age + counter[b].ttl <= WindowOf[b]

LEMMA ThrottleNumbers ==
    /\ BaseHold \in Nat \ {0} /\ MaxHold \in Nat \ {0}
    /\ \A b \in Buckets : AttemptsOf[b] \in Nat /\ WindowOf[b] \in Nat \ {0} /\ CapOf(b) \in Nat
    /\ CapOf("failures") = AttemptsOf["failures"] + MaxHold
    /\ {"hold", "failures", "source"} \subseteq Buckets
BY LimitsAssumption DEF Buckets, CapOf

LEMMA Products ==
    /\ \A a, b, m \in Nat : a <= b => m * a <= m * b
    /\ \A a, m \in Nat : m * (a + 1) = m * a + m /\ m * a \in Nat
    /\ \A a, b \in Nat \ {0} : a * b \in Nat \ {0}
<1>1. ASSUME NEW a \in Nat, NEW b \in Nat, NEW m \in Nat, a <= b  PROVE m * a <= m * b
  <2>1. PICK c \in Nat : b = a + c
    <3>1. b - a \in Nat /\ b = a + (b - a)
      BY <1>1
    <3> QED
      BY <3>1
  <2>2. m * b = m * a + m * c /\ m * c >= 0
    BY <2>1
  <2> QED
    BY <2>2
<1>2. \A a, m \in Nat : m * (a + 1) = m * a + m /\ m * a \in Nat
  OBVIOUS
<1>3. \A a, b \in Nat \ {0} : a * b \in Nat \ {0}
  OBVIOUS
<1> QED
  BY <1>1, <1>2, <1>3

LEMMA HoldIsBounded ==
    ASSUME NEW f \in Nat, f >= AttemptsOf["failures"], f <= CapOf("failures")
    PROVE  HoldFor(f) \in 1..MaxHold
<1>1. f - AttemptsOf["failures"] \in 0..MaxHold
  BY ThrottleNumbers
<1>2. PICK x : x = Doubled[f - AttemptsOf["failures"]]
  OBVIOUS
<1>3. x \in Nat \ {0}
  BY <1>1, <1>2, Doublings
<1>4. PICK y : y = BaseHold * x
  OBVIOUS
<1>5. y \in Nat \ {0}
  BY <1>3, <1>4, ThrottleNumbers, Products
<1>6. HoldFor(f) = IF MaxHold < y THEN MaxHold ELSE y
  BY <1>2, <1>4 DEF HoldFor, Lower
<1> QED
  BY <1>5, <1>6, ThrottleNumbers

LEMMA Doors == ASSUME NEW door \in DoorNames PROVE HitsOf(door) \in Seq(Plain)
<1>1. \A x, y \in Plain : <<x>> \in Seq(Plain) /\ <<x, y>> \in Seq(Plain)
  OBVIOUS
<1>2. {"source", "reset_identifier", "reset_source", "complete_source", "gate", "ops_source",
       "request"} \subseteq Plain
  BY DEF Plain, Buckets
<1>3. \/ \E x \in Plain : HitsOf(door) = <<x>>
      \/ \E x, y \in Plain : HitsOf(door) = <<x, y>>
  BY <1>2 DEF DoorNames, HitsOf, GuardSignIn, GuardResetRequest, GuardResetCompletion,
              GuardGate, GuardOps, GuardRequest
<1> QED
  BY <1>1, <1>3

\* A counter that is counted keeps its end.
LEMMA CountedKeeps ==
    ASSUME WindowsInv, NEW b \in Buckets \ {"hold"},
           counter' = [counter EXCEPT ![b] = Counted(b)]
    PROVE  /\ CounterType' /\ counter'["hold"] = counter["hold"]
           /\ \A c \in Buckets \ {"hold"} : counter'[c] # Absent =>
                 counter'[c].ttl > 0 /\ counter'[c].age + counter'[c].ttl <= WindowOf[c]
           /\ b = "failures" => counter'[b].n = Counted(b).n
<1>1. PICK x, y : x = counter[b] /\ y = Counted(b)
  OBVIOUS
<1>2. y = [n |-> Lower(x.n + 1, CapOf(b)),
           ttl |-> IF x = Absent THEN WindowOf[b] ELSE x.ttl, age |-> x.age]
  BY <1>1 DEF Counted
<1>3. /\ x = [f \in CounterFields |-> x[f]] /\ x.n \in Nat /\ x.ttl \in Nat /\ x.age \in Nat
      /\ x # Absent => x.ttl > 0 /\ x.age + x.ttl <= WindowOf[b]
  BY <1>1 DEF WindowsInv, CounterType
<1>4. WindowOf[b] \in Nat \ {0} /\ CapOf(b) \in Nat
  BY ThrottleNumbers
<1>5. /\ y = [f \in CounterFields |-> y[f]] /\ y.n \in Nat /\ y.n <= CapOf(b)
      /\ y.ttl \in Nat /\ y.age \in Nat /\ y.ttl > 0 /\ y.age + y.ttl <= WindowOf[b]
  <2>1. y = [f \in CounterFields |-> y[f]] /\ y.age = x.age
    BY <1>2 DEF CounterFields
  <2>2. y.n \in Nat /\ y.n <= CapOf(b)
    BY <1>2, <1>3, <1>4 DEF Lower
  <2>3. CASE x = Absent
    BY <1>2, <1>4, <2>1, <2>2, <2>3 DEF Absent
  <2>4. CASE x # Absent
    BY <1>2, <1>3, <2>1, <2>2, <2>4
  <2> QED
    BY <2>3, <2>4
<1>6. /\ counter' = [c \in Buckets |-> counter'[c]] /\ counter'[b] = y
      /\ \A c \in Buckets \ {b} : counter'[c] = counter[c]
  BY <1>1 DEF WindowsInv, CounterType
<1>7. CounterType'
  <2>1. counter'["failures"].n <= CapOf("failures")
    BY <1>5, <1>6, ThrottleNumbers DEF WindowsInv, CounterType
  <2>2. ASSUME NEW c \in Buckets
        PROVE  /\ counter'[c] = [f \in CounterFields |-> counter'[c][f]]
               /\ counter'[c].n \in Nat /\ counter'[c].ttl \in Nat /\ counter'[c].age \in Nat
    <3>1. CASE c = b
      BY <1>5, <1>6, <3>1
    <3>2. CASE c # b
      BY <1>6, <3>2 DEF WindowsInv, CounterType
    <3> QED
      BY <3>1, <3>2
  <2> QED
    BY <1>6, <2>1, <2>2 DEF CounterType
<1>8. counter'["hold"] = counter["hold"]
  BY <1>6, ThrottleNumbers
<1>9. ASSUME NEW c \in Buckets \ {"hold"}, counter'[c] # Absent
      PROVE  counter'[c].ttl > 0 /\ counter'[c].age + counter'[c].ttl <= WindowOf[c]
  <2>1. CASE c = b
    BY <1>5, <1>6, <2>1
  <2>2. CASE c # b
    BY <1>6, <1>9, <2>2 DEF WindowsInv
  <2> QED
    BY <2>1, <2>2
<1> QED
  BY <1>1, <1>6, <1>7, <1>8, <1>9

\* A client's step that begins no verification leaves a hold its bound.
LEMMA TryKeeps ==
    ASSUME IsFiniteSet(Clients), TryType, NEW p \in Clients, NEW t,
           try' = [try EXCEPT ![p] = t],
           t = [f \in TryFields |-> t[f]], t.left \in Seq(Plain),
           t.at = "hold" => /\ t.failures \in Nat /\ t.failures >= AttemptsOf["failures"]
                            /\ t.failures <= CapOf("failures")
    PROVE  /\ TryType'
           /\ Cardinality(Trying) \in Nat /\ Cardinality(Trying') \in Nat
           /\ Cardinality(Clients) \in Nat /\ Cardinality(Trying') <= Cardinality(Clients)
           /\ t.at \notin {"verifying", "wrong", "hold"} \/ p \in Trying =>
                 Cardinality(Trying') <= Cardinality(Trying)
           /\ t.at \notin {"verifying", "wrong", "hold"} /\ p \in Trying =>
                 Cardinality(Trying) = Cardinality(Trying') + 1
<1>1. /\ try' = [q \in Clients |-> try'[q]] /\ try'[p] = t
      /\ \A q \in Clients \ {p} : try'[q] = try[q]
  BY DEF TryType
<1>2. TryType'
  <2>1. ASSUME NEW q \in Clients
        PROVE  /\ try'[q] = [f \in TryFields |-> try'[q][f]]
               /\ try'[q].left \in Seq(Plain)
               /\ try'[q].at = "hold" =>
                     /\ try'[q].failures \in Nat
                     /\ try'[q].failures >= AttemptsOf["failures"]
                     /\ try'[q].failures <= CapOf("failures")
    <3>1. CASE q = p
      BY <1>1, <3>1
    <3>2. CASE q # p
      BY <1>1, <3>2 DEF TryType
    <3> QED
      BY <3>1, <3>2
  <2> QED
    BY <1>1, <2>1 DEF TryType
<1>3. PICK A, B : A = Trying /\ B = Trying'
  OBVIOUS
<1>4. A \subseteq Clients /\ B \subseteq Clients
  BY <1>3 DEF Trying
<1>5. /\ IsFiniteSet(A) /\ IsFiniteSet(B) /\ Cardinality(A) \in Nat /\ Cardinality(B) \in Nat
      /\ Cardinality(Clients) \in Nat /\ Cardinality(B) <= Cardinality(Clients)
  BY <1>4, FS_Subset, FS_CardinalityType
<1>6. ASSUME t.at \notin {"verifying", "wrong", "hold"} \/ p \in A
      PROVE  Cardinality(B) <= Cardinality(A)
  <2>1. B \subseteq A
    BY <1>1, <1>3, <1>6 DEF Trying
  <2> QED
    BY <1>5, <2>1, FS_Subset
<1>7. ASSUME t.at \notin {"verifying", "wrong", "hold"}, p \in A
      PROVE  Cardinality(A) = Cardinality(B) + 1
  <2>1. A = B \cup {p} /\ p \notin B
    BY <1>1, <1>3, <1>4, <1>7 DEF Trying
  <2> QED
    BY <1>5, <2>1, FS_AddElement
<1> QED
  BY <1>2, <1>3, <1>5, <1>6, <1>7

\* A hold that stands, with no more requests that may renew it.
LEMMA StandingHold ==
    ASSUME HoldEnds, CounterType, counter'["hold"] = counter["hold"],
           Cardinality(Trying) \in Nat, Cardinality(Trying') \in Nat,
           Cardinality(Trying') <= Cardinality(Trying), Cardinality(Clients) \in Nat
    PROVE  HoldEnds'
<1>1. PICK a, b, c, x : /\ a = Cardinality(Trying') /\ b = Cardinality(Trying)
                        /\ c = MaxHold * Cardinality(Clients) /\ x = counter["hold"]
  OBVIOUS
<1>2. MaxHold * a <= MaxHold * b /\ MaxHold * a \in Nat /\ MaxHold * b \in Nat /\ c \in Nat
  BY <1>1, Products, ThrottleNumbers
<1>3. ASSUME x # Absent  PROVE x.ttl > 0 /\ x.age + x.ttl + MaxHold * a <= c
  <2>1. x.ttl > 0 /\ x.age + x.ttl + MaxHold * b <= c
    BY <1>1, <1>3 DEF HoldEnds
  <2>2. x.ttl \in Nat /\ x.age \in Nat
    BY <1>1, ThrottleNumbers DEF CounterType
  <2> QED
    BY <1>2, <2>1, <2>2
<1> QED
  BY <1>1, <1>3 DEF HoldEnds

\* A request that leaves the counters alone, and begins no verification under a hold.
LEMMA ClientStep ==
    ASSUME IsFiniteSet(Clients), WindowsInv, UNCHANGED counter, NEW p \in Clients, NEW t,
           try' = [try EXCEPT ![p] = t],
           t = [f \in TryFields |-> t[f]], t.left \in Seq(Plain),
           t.at = "hold" => /\ t.failures \in Nat /\ t.failures >= AttemptsOf["failures"]
                            /\ t.failures <= CapOf("failures"),
           \/ counter["hold"] = Absent
           \/ t.at \notin {"verifying", "wrong", "hold"}
           \/ p \in Trying
    PROVE  WindowsInv'
<1>1. /\ TryType' /\ Cardinality(Trying) \in Nat /\ Cardinality(Trying') \in Nat
      /\ Cardinality(Clients) \in Nat
      /\ t.at \notin {"verifying", "wrong", "hold"} \/ p \in Trying =>
            Cardinality(Trying') <= Cardinality(Trying)
  BY TryKeeps DEF WindowsInv
<1>2. HoldEnds'
  <2>1. CASE counter["hold"] = Absent
    BY <2>1 DEF HoldEnds
  <2>2. CASE t.at \notin {"verifying", "wrong", "hold"} \/ p \in Trying
    BY <1>1, <2>2, StandingHold DEF WindowsInv
  <2> QED
    BY <2>1, <2>2
<1> QED
  BY <1>1, <1>2 DEF WindowsInv, CounterType

\* One that counts an attempt.
LEMMA CountStep ==
    ASSUME IsFiniteSet(Clients), WindowsInv, NEW b \in Buckets \ {"hold"},
           counter' = [counter EXCEPT ![b] = Counted(b)], NEW p \in Clients, NEW t,
           try' = [try EXCEPT ![p] = t],
           t = [f \in TryFields |-> t[f]], t.left \in Seq(Plain),
           t.at = "hold" => /\ t.failures \in Nat /\ t.failures >= AttemptsOf["failures"]
                            /\ t.failures <= CapOf("failures"),
           t.at \notin {"verifying", "wrong", "hold"} \/ p \in Trying
    PROVE  WindowsInv'
<1>1. /\ TryType' /\ Cardinality(Trying) \in Nat /\ Cardinality(Trying') \in Nat
      /\ Cardinality(Clients) \in Nat /\ Cardinality(Trying') <= Cardinality(Trying)
  BY TryKeeps DEF WindowsInv
<1>2. /\ CounterType' /\ counter'["hold"] = counter["hold"]
      /\ \A c \in Buckets \ {"hold"} : counter'[c] # Absent =>
            counter'[c].ttl > 0 /\ counter'[c].age + counter'[c].ttl <= WindowOf[c]
  BY CountedKeeps
<1>3. HoldEnds'
  BY <1>1, <1>2, StandingHold DEF WindowsInv
<1> QED
  BY <1>1, <1>2, <1>3 DEF WindowsInv

LEMMA RenewsHold ==
    ASSUME IsFiniteSet(Clients), WindowsInv, NEW p \in Clients, SetHold(p)
    PROVE  WindowsInv'
<1>1. PICK x, y : x = counter["hold"] /\ y = counter'["hold"]
  OBVIOUS
<1>2. HoldFor(try[p].failures) \in 1..MaxHold /\ p \in Trying
  BY HoldIsBounded DEF SetHold, WindowsInv, TryType, Trying
<1>3. /\ x = [f \in CounterFields |-> x[f]] /\ x.n \in Nat /\ x.ttl \in Nat /\ x.age \in Nat
      /\ "hold" \in Buckets /\ MaxHold \in Nat \ {0}
  BY <1>1, ThrottleNumbers DEF WindowsInv, CounterType
<1>4. /\ counter' = [b \in Buckets |-> counter'[b]]
      /\ \A b \in Buckets \ {"hold"} : counter'[b] = counter[b]
      /\ y = [x EXCEPT !.n = 1, !.ttl = HoldFor(try[p].failures)]
  BY <1>1, <1>3 DEF SetHold, WindowsInv, CounterType
<1>5. /\ y = [f \in CounterFields |-> y[f]] /\ y.n \in Nat /\ y.ttl \in 1..MaxHold
      /\ y.age = x.age
  BY <1>2, <1>3, <1>4 DEF CounterFields
<1>6. CounterType'
  <2>1. ASSUME NEW b \in Buckets
        PROVE  /\ counter'[b] = [f \in CounterFields |-> counter'[b][f]]
               /\ counter'[b].n \in Nat /\ counter'[b].ttl \in Nat /\ counter'[b].age \in Nat
    <3>1. CASE b = "hold"
      <4>1. counter'[b] = y
        BY <1>1, <3>1
      <4>2. y.ttl \in Nat /\ y.age \in Nat
        BY <1>3, <1>5
      <4> QED
        BY <1>5, <4>1, <4>2
    <3>2. CASE b # "hold"
      <4>1. b \in Buckets \ {"hold"} /\ counter'[b] = counter[b]
        BY <1>4, <3>2
      <4> QED
        BY <4>1 DEF WindowsInv, CounterType
    <3> QED
      BY <3>1, <3>2
  <2>2. counter'["failures"].n <= CapOf("failures")
    BY <1>4, ThrottleNumbers DEF WindowsInv, CounterType
  <2> QED
    BY <1>4, <2>1, <2>2 DEF CounterType
<1>7. PICK t : t = NotTrying
  OBVIOUS
<1>8. /\ try' = [try EXCEPT ![p] = t] /\ t = [f \in TryFields |-> t[f]]
      /\ t.left = <<>> /\ t.at = "idle"
  BY <1>7 DEF SetHold, NotTrying, TryFields
<1>9. t.left \in Seq(Plain) /\ t.at \notin {"verifying", "wrong", "hold"}
  <2>1. <<>> \in Seq(Plain)
    OBVIOUS
  <2> QED
    BY <1>8, <2>1
<1>10. /\ TryType' /\ Cardinality(Trying) \in Nat /\ Cardinality(Trying') \in Nat
       /\ Cardinality(Clients) \in Nat /\ Cardinality(Trying') <= Cardinality(Clients)
       /\ Cardinality(Trying) = Cardinality(Trying') + 1
  BY <1>2, <1>8, <1>9, TryKeeps DEF WindowsInv
<1>11. PICK a, b, c : /\ a = Cardinality(Trying') /\ b = Cardinality(Trying)
                      /\ c = Cardinality(Clients)
  OBVIOUS
<1>12. b <= c
  <2>1. Trying \subseteq Clients
    BY DEF Trying
  <2> QED
    BY <1>11, <2>1, FS_Subset
<1>13. /\ MaxHold * b = MaxHold * a + MaxHold /\ MaxHold * b <= MaxHold * c
       /\ MaxHold * a \in Nat /\ MaxHold * b \in Nat /\ MaxHold * c \in Nat
  BY <1>3, <1>10, <1>11, <1>12, Products
<1>14. y.age + y.ttl + MaxHold * a <= MaxHold * c
  <2>1. CASE x = Absent
    <3>1. y.age = 0
      BY <1>5, <2>1 DEF Absent
    <3> QED
      BY <1>3, <1>5, <1>13, <3>1
  <2>2. CASE x # Absent
    <3>1. x.ttl > 0 /\ x.age + x.ttl + MaxHold * b <= MaxHold * c
      BY <1>1, <1>11, <2>2 DEF WindowsInv, HoldEnds
    <3> QED
      BY <1>3, <1>5, <1>13, <3>1
  <2> QED
    BY <2>1, <2>2
<1>15. HoldEnds'
  BY <1>1, <1>5, <1>11, <1>14 DEF HoldEnds
<1> QED
  BY <1>4, <1>6, <1>10, <1>15 DEF WindowsInv

\* One that clears some counters.
LEMMA ClearStep ==
    ASSUME IsFiniteSet(Clients), WindowsInv, NEW Gone \in SUBSET Buckets,
           counter' = [b \in Buckets |-> IF b \in Gone THEN Absent ELSE counter[b]],
           NEW p \in Clients, NEW t, try' = [try EXCEPT ![p] = t],
           t = [f \in TryFields |-> t[f]], t.left \in Seq(Plain),
           t.at \notin {"verifying", "wrong", "hold"}
    PROVE  WindowsInv'
<1>1. /\ TryType' /\ Cardinality(Trying) \in Nat /\ Cardinality(Trying') \in Nat
      /\ Cardinality(Clients) \in Nat /\ Cardinality(Trying') <= Cardinality(Trying)
  BY TryKeeps DEF WindowsInv
<1>2. CounterType'
  <2>1. ASSUME NEW b \in Buckets
        PROVE  /\ counter'[b] = [f \in CounterFields |-> counter'[b][f]]
               /\ counter'[b].n \in Nat /\ counter'[b].ttl \in Nat /\ counter'[b].age \in Nat
    BY DEF WindowsInv, CounterType, CounterFields, Absent
  <2>2. counter'["failures"].n <= CapOf("failures")
    BY ThrottleNumbers DEF WindowsInv, CounterType, Absent
  <2> QED
    BY <2>1, <2>2 DEF CounterType
<1>3. HoldEnds'
  <2>1. CASE "hold" \in Gone
    BY <2>1 DEF HoldEnds
  <2>2. CASE "hold" \notin Gone
    <3>1. counter'["hold"] = counter["hold"]
      BY <2>2, ThrottleNumbers
    <3> QED
      BY <1>1, <3>1, StandingHold DEF WindowsInv
  <2> QED
    BY <2>1, <2>2
<1> QED
  BY <1>1, <1>2, <1>3 DEF WindowsInv

LEMMA TickStep == ASSUME WindowsInv, ThrottleTick PROVE WindowsInv'
<1>1. ASSUME NEW b \in Buckets
      PROVE  /\ counter'[b] = [f \in CounterFields |-> counter'[b][f]]
             /\ counter'[b].n \in Nat /\ counter'[b].ttl \in Nat /\ counter'[b].age \in Nat
             /\ counter'[b].n <= counter[b].n
             /\ counter'[b] # Absent =>
                  /\ counter[b] # Absent /\ counter'[b].ttl > 0
                  /\ counter'[b].age + counter'[b].ttl = counter[b].age + counter[b].ttl
  <2>1. PICK x, y : x = counter[b] /\ y = counter'[b]
    OBVIOUS
  <2>2. /\ x = [f \in CounterFields |-> x[f]] /\ x.n \in Nat /\ x.ttl \in Nat /\ x.age \in Nat
    BY <2>1 DEF WindowsInv, CounterType
  <2>3. y = IF x.ttl <= 1 THEN Absent ELSE [x EXCEPT !.ttl = x.ttl - 1, !.age = x.age + 1]
    BY <2>1 DEF ThrottleTick
  <2>4. CASE x.ttl <= 1
    <3>1. y = Absent
      BY <2>3, <2>4
    <3>2. /\ y = [f \in CounterFields |-> y[f]] /\ y.n = 0 /\ y.ttl = 0 /\ y.age = 0
      BY <3>1 DEF Absent, CounterFields
    <3> QED
      BY <2>1, <2>2, <3>1, <3>2
  <2>5. CASE ~(x.ttl <= 1)
    <3>1. /\ y = [f \in CounterFields |-> y[f]] /\ y.n = x.n /\ y.ttl = x.ttl - 1
          /\ y.age = x.age + 1
      BY <2>2, <2>3, <2>5 DEF CounterFields
    <3>2. x # Absent
      BY <2>2, <2>5 DEF Absent
    <3> QED
      BY <2>1, <2>2, <2>5, <3>1, <3>2
  <2> QED
    BY <2>4, <2>5
<1>2. CounterType'
  <2>1. counter' = [b \in Buckets |-> counter'[b]]
    BY DEF ThrottleTick
  <2>2. PICK m, n, c : /\ m = counter["failures"].n /\ n = counter'["failures"].n
                       /\ c = CapOf("failures")
    OBVIOUS
  <2>3. "failures" \in Buckets /\ c \in Nat
    BY <2>2, ThrottleNumbers
  <2>4. n <= m /\ n \in Nat
    BY <1>1, <2>2, <2>3
  <2>5. m \in Nat /\ m <= c
    BY <2>2, <2>3 DEF WindowsInv, CounterType
  <2>6. n <= c
    BY <2>3, <2>4, <2>5
  <2> QED
    BY <1>1, <2>1, <2>2, <2>6 DEF CounterType
<1>3. UNCHANGED try /\ Trying' = Trying
  BY DEF ThrottleTick, Trying
<1>4. TryType'
  BY <1>3 DEF WindowsInv, TryType
<1>5. HoldEnds'
  <2>1. "hold" \in Buckets
    BY ThrottleNumbers
  <2> QED
    BY <1>1, <1>3, <2>1 DEF WindowsInv, HoldEnds
<1> QED
  BY <1>1, <1>2, <1>4, <1>5 DEF WindowsInv

LEMMA ThrottleKeeps ==
    ASSUME IsFiniteSet(Clients), WindowsInv, NEW door \in DoorNames, ThrottleStep(door)
    PROVE  WindowsInv'
<1>2. ASSUME NEW p \in Clients
      PROVE  /\ try[p] = [f \in TryFields |-> try[p][f]] /\ try[p].left \in Seq(Plain)
             /\ try[p].at = "hold" =>
                  /\ try[p].failures \in Nat /\ try[p].failures >= AttemptsOf["failures"]
                  /\ try[p].failures <= CapOf("failures")
  BY DEF WindowsInv, TryType
<1>3. /\ NotTrying = [f \in TryFields |-> NotTrying[f]]
      /\ NotTrying.at = "idle" /\ NotTrying.left = <<>> /\ NotTrying.left \in Seq(Plain)
  <2>1. <<>> \in Seq(Plain)
    OBVIOUS
  <2> QED
    BY <2>1 DEF NotTrying, TryFields
<1>4. ASSUME NEW p \in Clients, NEW a, NEW t, t = [NotTrying EXCEPT !.at = a]
      PROVE  t = [f \in TryFields |-> t[f]] /\ t.left \in Seq(Plain) /\ t.at = a
  BY <1>3, <1>4 DEF TryFields
<1>6. ASSUME NEW p \in Clients, Arrive(p, door)  PROVE WindowsInv'
  <2>1. PICK t : t = [NotTrying EXCEPT !.at = door, !.left = HitsOf(door)]
    OBVIOUS
  <2>2. t = [f \in TryFields |-> t[f]] /\ t.left \in Seq(Plain) /\ t.at = door
    BY <1>3, <2>1, Doors DEF TryFields
  <2>3. door \notin {"verifying", "wrong", "hold"}
    BY DEF DoorNames
  <2> QED
    BY <1>6, <2>1, <2>2, <2>3, ClientStep DEF Arrive
<1>7. ASSUME NEW p \in Clients, Hit(p)  PROVE WindowsInv'
  <2>1. PICK b, t : /\ b = Head(try[p].left)
                    /\ t = [try[p] EXCEPT !.left = Tail(try[p].left),
                                          !.over = try[p].over \/ ~Within(b)]
    OBVIOUS
  <2>2. /\ try[p].left # <<>> /\ counter' = [counter EXCEPT ![b] = Counted(b)]
        /\ try' = [try EXCEPT ![p] = t]
    BY <1>7, <2>1 DEF Hit
  <2>3. b \in Plain /\ Tail(try[p].left) \in Seq(Plain)
    <3>1. PICK s : s = try[p].left
      OBVIOUS
    <3>2. s \in Seq(Plain) /\ s # <<>>
      BY <1>2, <2>2, <3>1
    <3>3. Head(s) \in Plain /\ Tail(s) \in Seq(Plain)
      BY <3>2
    <3> QED
      BY <2>1, <3>1, <3>3
  <2>4. /\ t = [f \in TryFields |-> t[f]] /\ t.left \in Seq(Plain)
        /\ t.at = try[p].at /\ t.failures = try[p].failures
    BY <1>2, <2>1, <2>3 DEF TryFields
  <2>5. b \in Buckets \ {"hold"}
    BY <2>3 DEF Plain
  <2>6. t.at \notin {"verifying", "wrong", "hold"} \/ p \in Trying
    BY <2>4 DEF Trying
  <2> QED
    BY <1>2, <2>2, <2>4, <2>5, <2>6, CountStep
<1>8. ASSUME NEW p \in Clients, UNCHANGED counter, try' = [try EXCEPT ![p] = NotTrying]
      PROVE  WindowsInv'
  <2>1. NotTrying.at \notin {"verifying", "wrong", "hold"} /\ NotTrying.at # "hold"
    BY <1>3
  <2> QED
    BY <1>3, <1>8, <2>1, ClientStep
<1>9. ASSUME NEW p \in Clients, Verify(p)  PROVE WindowsInv'
  <2>1. CASE MayVerify(p)
    <3>1. PICK t : t = [NotTrying EXCEPT !.at = "verifying"]
      OBVIOUS
    <3>2. t = [f \in TryFields |-> t[f]] /\ t.left \in Seq(Plain) /\ t.at = "verifying"
      BY <1>4, <3>1
    <3>3. counter["hold"] = Absent
      BY <2>1 DEF MayVerify, Held
    <3> QED
      BY <1>9, <2>1, <3>1, <3>2, <3>3, ClientStep DEF Verify
  <2>2. CASE ~MayVerify(p)
    BY <1>8, <1>9, <2>2 DEF Verify
  <2> QED
    BY <2>1, <2>2
<1>10. ASSUME NEW p \in Clients, NEW outcome \in {"wrong", "right", "lost"}, Verified(p, outcome)
       PROVE  WindowsInv'
  <2>1. CASE outcome = "lost"
    BY <1>8, <1>10, <2>1 DEF Verified
  <2>2. CASE outcome \in {"wrong", "right"}
    <3>1. PICK t : t = [try[p] EXCEPT !.at = outcome]
      OBVIOUS
    <3>2. /\ t = [f \in TryFields |-> t[f]] /\ t.left \in Seq(Plain) /\ t.at = outcome
      BY <1>2, <3>1 DEF TryFields
    <3>3. UNCHANGED counter /\ try' = [try EXCEPT ![p] = t]
      BY <1>10, <2>2, <3>1 DEF Verified
    <3>4. p \in Trying /\ outcome # "hold"
      BY <1>10, <2>2 DEF Verified, Trying
    <3> QED
      BY <3>2, <3>3, <3>4, ClientStep
  <2> QED
    BY <2>1, <2>2
<1>11. ASSUME NEW p \in Clients, RecordFailure(p)  PROVE WindowsInv'
  <2>1. PICK n : n = Counted("failures").n
    OBVIOUS
  <2>2. "failures" \in Buckets \ {"hold"} /\ p \in Trying
        /\ counter' = [counter EXCEPT !["failures"] = Counted("failures")]
    BY <1>11, ThrottleNumbers DEF RecordFailure, Trying
  <2>3. n \in Nat /\ n <= CapOf("failures")
    <3>1. counter["failures"].n \in Nat /\ CapOf("failures") \in Nat
      BY <2>2, ThrottleNumbers DEF WindowsInv, CounterType
    <3>2. n = Lower(counter["failures"].n + 1, CapOf("failures"))
      BY <2>1 DEF Counted
    <3> QED
      BY <3>1, <3>2 DEF Lower
  <2>4. CASE n < AttemptsOf["failures"]
    <3>1. try' = [try EXCEPT ![p] = NotTrying]
      BY <1>11, <2>1, <2>4 DEF RecordFailure
    <3>2. NotTrying.at # "hold"
      BY <1>3
    <3> QED
      BY <1>3, <2>2, <3>1, <3>2, CountStep
  <2>5. CASE ~(n < AttemptsOf["failures"])
    <3>1. PICK t : t = [try[p] EXCEPT !.at = "hold", !.failures = n]
      OBVIOUS
    <3>2. t = [f \in TryFields |-> t[f]] /\ t.left \in Seq(Plain) /\ t.failures = n
      BY <1>2, <3>1 DEF TryFields
    <3>3. try' = [try EXCEPT ![p] = t]
      BY <1>11, <2>1, <2>5, <3>1 DEF RecordFailure
    <3>4. n >= AttemptsOf["failures"]
      BY <2>2, <2>3, <2>5, ThrottleNumbers
    <3> QED
      BY <2>2, <2>3, <3>2, <3>3, <3>4, CountStep
  <2> QED
    BY <2>4, <2>5
<1>12. ASSUME NEW p \in Clients, SetHold(p)  PROVE WindowsInv'
  BY <1>12, RenewsHold
<1>13. ASSUME NEW p \in Clients, ClearFailures(p)  PROVE WindowsInv'
  <2>1. PICK t : t = [try[p] EXCEPT !.at = "cleared"]
    OBVIOUS
  <2>2. t = [f \in TryFields |-> t[f]] /\ t.left \in Seq(Plain) /\ t.at = "cleared"
    BY <1>2, <2>1 DEF TryFields
  <2>3. {"failures", "hold"} \in SUBSET Buckets
    BY ThrottleNumbers
  <2>4. /\ counter' = [b \in Buckets |-> IF b \in {"failures", "hold"} THEN Absent ELSE counter[b]]
        /\ try' = [try EXCEPT ![p] = t]
    BY <1>13, <2>1, <2>3 DEF ClearFailures, WindowsInv, CounterType
  <2> QED
    BY <2>2, <2>3, <2>4, ClearStep
<1>14. ASSUME NEW p \in Clients, ClearSource(p)  PROVE WindowsInv'
  <2>1. {"source"} \in SUBSET Buckets
    BY ThrottleNumbers
  <2>2. /\ counter' = [b \in Buckets |-> IF b \in {"source"} THEN Absent ELSE counter[b]]
        /\ try' = [try EXCEPT ![p] = NotTrying]
    BY <1>14, <2>1 DEF ClearSource, WindowsInv, CounterType
  <2> QED
    BY <1>3, <2>1, <2>2, ClearStep
<1>15. ASSUME NEW p \in Clients, Pass(p)  PROVE WindowsInv'
  BY <1>8, <1>15 DEF Pass
<1> QED
  BY <1>6, <1>7, <1>9, <1>10, <1>11, <1>12, <1>13, <1>14, <1>15, TickStep DEF ThrottleStep

(* WindowsEnd (Limits): a window ends where its first attempt put its end,  *)
(* and a hold with the last of the requests it overtook, however requests  *)
(* and failures interleave; for finitely many requests at a time.          *)
THEOREM HoldsEnd == ASSUME IsFiniteSet(Clients) PROVE EntrySpec => []WindowsEnd
<1>1. EntryInit => WindowsInv
  <2> SUFFICES ASSUME counter = [b \in Buckets |-> Absent], try = [p \in Clients |-> NotTrying]
               PROVE  WindowsInv
    BY DEF EntryInit, LimitsInit
  <2>1. <<>> \in Seq(Plain)
    OBVIOUS
  <2>2. TryType
    BY <2>1 DEF TryType, NotTrying, TryFields
  <2>3. CounterType
    BY ThrottleNumbers DEF CounterType, Absent, CounterFields
  <2>4. \A b \in Buckets : counter[b] = Absent
    OBVIOUS
  <2> QED
    BY <2>2, <2>3, <2>4, ThrottleNumbers DEF WindowsInv, HoldEnds
<1>2. WindowsInv /\ [EntryNext]_entryVars => WindowsInv'
  <2> SUFFICES ASSUME WindowsInv, [EntryNext]_entryVars  PROVE WindowsInv'
    OBVIOUS
  <2>1. CASE UNCHANGED throttleVars
    BY <2>1 DEF throttleVars, WindowsInv, CounterType, TryType, HoldEnds, Trying
  <2>2. ASSUME surface \in DoorNames, ThrottleStep(surface)  PROVE WindowsInv'
    BY <2>2, ThrottleKeeps
  <2>3. UNCHANGED throttleVars \/ (surface \in DoorNames /\ ThrottleStep(surface))
    BY DEF EntryNext, entryVars, limitVars
  <2> QED
    BY <2>1, <2>2, <2>3
<1>3. WindowsInv => WindowsEnd
  <2> SUFFICES ASSUME WindowsInv, NEW b \in Buckets, counter[b] # Absent
               PROVE  /\ counter[b].ttl > 0
                      /\ counter[b].age + counter[b].ttl <=
                           IF b = "hold" THEN MaxHold * Cardinality(Clients) ELSE WindowOf[b]
    BY DEF WindowsEnd
  <2>1. CASE b # "hold"
    BY <2>1 DEF WindowsInv
  <2>2. CASE b = "hold"
    <3>1. PICK m, c : m = MaxHold * Cardinality(Trying) /\ c = MaxHold * Cardinality(Clients)
      OBVIOUS
    <3>2. Cardinality(Trying) \in Nat /\ Cardinality(Clients) \in Nat
      <4>1. Trying \subseteq Clients
        BY DEF Trying
      <4> QED
        BY <4>1, FS_Subset, FS_CardinalityType
    <3>3. m \in Nat /\ c \in Nat
      BY <3>1, <3>2, ThrottleNumbers, Products
    <3>4. counter[b].ttl > 0 /\ counter[b].age + counter[b].ttl + m <= c
      BY <2>2, <3>1 DEF WindowsInv, HoldEnds
    <3>5. counter[b].ttl \in Nat /\ counter[b].age \in Nat
      BY DEF WindowsInv, CounterType
    <3> QED
      BY <2>2, <3>1, <3>3, <3>4, <3>5
  <2> QED
    BY <2>1, <2>2
<1> QED
  BY <1>1, <1>2, <1>3, PTL DEF EntrySpec
=============================================================================
