------------------------ MODULE AttemptLedger_proofs ------------------------
(***************************************************************************)
(* The properties of AttemptLedger, proved for all values of its constants. *)
(***************************************************************************)
EXTENDS AttemptLedger, FiniteSetTheorems, TLAPS

-----------------------------------------------------------------------------
(* Types *)

\* A refund never takes the counter below zero (greatest(attempts_used - 1, 0)).
LEMMA RefundType ==
    ASSUME TypeOK, NEW c \in Calls, NEW end \in Ends, Refund(c, end)
    PROVE  used' \in [Reps -> 0 .. Allowed]
BY LedgerAssumption DEF TypeOK, Refund

\* A plan is closed at most once more.
LEMMA ClosePlanType ==
    ASSUME TypeOK, NEW c \in Calls, NEW end \in Ends, ClosePlan(c, end, attempt')
    PROVE  /\ closed' \in [Candidates -> BOOLEAN]
           /\ reportJobs' \in [Candidates -> Nat]
<1> DEFINE closes == /\ who[c] \in Candidates /\ end # "deleted"
                     /\ ~closed[who[c]] /\ PlanClosed(attempt', who[c])
<1>1. CASE closes
  <2>1. /\ who[c] \in Candidates
        /\ closed' = [closed EXCEPT ![who[c]] = TRUE]
        /\ reportJobs' = [reportJobs EXCEPT ![who[c]] = @ + 1]
      BY <1>1 DEF ClosePlan
  <2>2. closed' \in [Candidates -> BOOLEAN]
      BY <2>1, Zenon DEF TypeOK
  <2>3. reportJobs' \in [Candidates -> Nat]
      BY <2>1 DEF TypeOK
  <2> QED
      BY <2>2, <2>3
<1>2. CASE ~closes
    BY <1>2 DEF ClosePlan, TypeOK
<1> QED
    BY <1>1, <1>2

\* Every transaction keeps the types: in particular T-1 never charges a rep
\* beyond the allowance and T-6 never below zero.
LEMMA TypeInvariant == TypeOK /\ [Next]_vars => TypeOK'
<1> SUFFICES ASSUME TypeOK, [Next]_vars PROVE TypeOK'
    OBVIOUS
<1>1. ASSUME NEW c \in Calls, NEW p \in Reps, AdmitRep(c, p) PROVE TypeOK'
    BY <1>1, LedgerAssumption DEF TypeOK, AdmitRep
<1>2. ASSUME NEW c \in Calls, NEW p \in Candidates, NEW s \in Stages,
             AdmitCandidate(c, p, s)
      PROVE  TypeOK'
    BY <1>2 DEF TypeOK, AdmitCandidate
<1>3. ASSUME NEW c \in Calls, NEW end \in Ends, End(c, end) PROVE TypeOK'
  <2>1. used' \in [Reps -> 0 .. Allowed]
      BY <1>3, RefundType DEF End
  <2>2. closed' \in [Candidates -> BOOLEAN] /\ reportJobs' \in [Candidates -> Nat]
      BY <1>3, ClosePlanType DEF End
  <2>3. attempt' \in [Calls -> {"none", "in_progress"} \cup Ends]
      BY <1>3 DEF End, TypeOK
  <2>4. gradeJobs' \in [Calls -> Nat]
      BY <1>3 DEF End, TypeOK
  <2> QED
      BY <1>3, <2>1, <2>2, <2>3, <2>4 DEF End, TypeOK
<1>4. ASSUME NEW p \in Reps, Reassign(p) PROVE TypeOK'
    BY <1>4, LedgerAssumption DEF TypeOK, Reassign
<1>5. CASE UNCHANGED vars
    BY <1>5 DEF TypeOK, vars
<1> QED
    BY <1>1, <1>2, <1>3, <1>4, <1>5 DEF Next

\* The ledger is well typed in every reachable state.
THEOREM LedgerType == Spec => []TypeOK
<1>1. Init => TypeOK
    BY LedgerAssumption DEF Init, TypeOK, Ends
<1> QED
    BY <1>1, TypeInvariant, PTL DEF Spec

-----------------------------------------------------------------------------
(* One grading job for each completed attempt, one end for each attempt *)

\* An attempt is completed in the transaction that enqueues its grading job.
THEOREM GradedOnce == Spec => []GradedExactlyOnce
<1>1. Init => GradedExactlyOnce
    BY DEF Init, GradedExactlyOnce
<1>2. ASSUME TypeOK, GradedExactlyOnce, [Next]_vars PROVE GradedExactlyOnce'
  <2>1. ASSUME NEW c \in Calls, NEW p \in Reps, AdmitRep(c, p)
        PROVE  GradedExactlyOnce'
      BY <1>2, <2>1 DEF TypeOK, AdmitRep, GradedExactlyOnce
  <2>2. ASSUME NEW c \in Calls, NEW p \in Candidates, NEW s \in Stages,
               AdmitCandidate(c, p, s)
        PROVE  GradedExactlyOnce'
      BY <1>2, <2>2 DEF TypeOK, AdmitCandidate, GradedExactlyOnce
  <2>3. ASSUME NEW c \in Calls, NEW end \in Ends, End(c, end)
        PROVE  GradedExactlyOnce'
      BY <1>2, <2>3 DEF TypeOK, End, Ends, GradedExactlyOnce
  <2>4. ASSUME NEW p \in Reps, Reassign(p) PROVE GradedExactlyOnce'
      BY <1>2, <2>4 DEF TypeOK, Reassign, GradedExactlyOnce
  <2>5. CASE UNCHANGED vars
      BY <1>2, <2>5 DEF vars, GradedExactlyOnce
  <2> QED
      BY <1>2, <2>1, <2>2, <2>3, <2>4, <2>5 DEF Next
<1> QED
    BY <1>1, <1>2, LedgerType, PTL DEF Spec

\* Every transaction leaves an attempt that has ended as it is.
THEOREM EndIsFinal == Spec => DispositionIsFinal
<1>1. ASSUME TypeOK, [Next]_vars
      PROVE  [\A c \in Calls : attempt[c] \in Ends => attempt'[c] = attempt[c]]_vars
  <2>1. ASSUME NEW d \in Calls, attempt[d] \in Ends
        PROVE  attempt'[d] = attempt[d]
      BY <1>1, <2>1
      DEF TypeOK, Next, AdmitRep, AdmitCandidate, End, Reassign, vars, Ends
  <2> QED
      BY <2>1
<1> QED
    BY <1>1, LedgerType, PTL DEF Spec, DispositionIsFinal

-----------------------------------------------------------------------------
(* The allowance *)

\* Charges are counted over finitely many calls.
LEMMA ChargedFinite ==
    ASSUME NEW p
    PROVE  IsFiniteSet(Charged(p)) /\ Cardinality(Charged(p)) \in Nat
<1>1. Charged(p) \subseteq Calls
    BY DEF Charged
<1> QED
    BY <1>1, FS_Subset, FS_CardinalityType, LedgerAssumption

\* T-1 adds to the charge of its rep what it adds to the counter.
LEMMA AdmissionCharges ==
    ASSUME TypeOK, NeverOvercharged, NEW c \in Calls, NEW q \in Reps, AdmitRep(c, q)
    PROVE  NeverOvercharged'
<1> SUFFICES ASSUME NEW p \in Reps PROVE used'[p] <= Cardinality(Charged(p)')
    BY DEF NeverOvercharged
<1>1. used[p] <= Cardinality(Charged(p))
    BY DEF NeverOvercharged
<1>2. CASE p = q
  <2>1. Charged(p)' = Charged(p) \cup {c} /\ c \notin Charged(p)
      BY <1>2 DEF TypeOK, AdmitRep, Charged
  <2>2. Cardinality(Charged(p)') = Cardinality(Charged(p)) + 1
      BY <2>1, ChargedFinite, FS_AddElement
  <2>3. used'[p] = used[p] + 1
      BY <1>2 DEF TypeOK, AdmitRep
  <2> QED
      BY <1>1, <2>2, <2>3, ChargedFinite DEF TypeOK
<1>3. CASE p # q
  <2>1. Charged(p)' = Charged(p)
      BY <1>3 DEF TypeOK, AdmitRep, Charged
  <2>2. used'[p] = used[p]
      BY <1>3 DEF TypeOK, AdmitRep
  <2> QED
      BY <1>1, <2>1, <2>2
<1> QED
    BY <1>2, <1>3

\* T-2 and T-6 take from the counter at least what they take from the charge.
LEMMA EndRefunds ==
    ASSUME TypeOK, NeverOvercharged, NEW c \in Calls, NEW end \in Ends, End(c, end)
    PROVE  NeverOvercharged'
<1> SUFFICES ASSUME NEW p \in Reps PROVE used'[p] <= Cardinality(Charged(p)')
    BY DEF NeverOvercharged
<1>1. used[p] <= Cardinality(Charged(p)) /\ used[p] \in Nat
    BY DEF NeverOvercharged, TypeOK
<1>2. CASE who[c] = p /\ end # "completed"
  <2>1. Charged(p)' = Charged(p) \ {c}
      BY <1>2 DEF TypeOK, End, Charged, Ends
  <2>2. used'[p] = IF used[p] > 0 THEN used[p] - 1 ELSE used[p]
      BY <1>2 DEF TypeOK, End, Refund
  <2>3. Cardinality(Charged(p)') \in Nat
      BY <2>1, ChargedFinite, FS_RemoveElement, FS_CardinalityType
  <2>4. Cardinality(Charged(p)') >= Cardinality(Charged(p)) - 1
    <3>1. CASE c \in Charged(p)
      <4>1. Cardinality(Charged(p) \ {c}) = Cardinality(Charged(p)) - 1
          BY <3>1, ChargedFinite, FS_RemoveElement
      <4> QED
          BY <2>1, <4>1, ChargedFinite
    <3>2. CASE c \notin Charged(p)
      <4>1. Charged(p)' = Charged(p)
          BY <2>1, <3>2
      <4> QED
          BY <4>1, ChargedFinite
    <3> QED
        BY <3>1, <3>2
  <2> QED
      BY <1>1, <2>2, <2>3, <2>4, ChargedFinite
<1>3. CASE ~(who[c] = p /\ end # "completed")
  <2>1. Charged(p)' = Charged(p)
      BY <1>3 DEF TypeOK, End, Charged, Ends
  <2>2. used'[p] = used[p]
      BY <1>3 DEF TypeOK, End, Refund
  <2> QED
      BY <1>1, <2>1, <2>2
<1> QED
    BY <1>2, <1>3

\* A rep is never charged for an attempt that is void, deleted or superseded.
THEOREM AllowanceSafe == Spec => []NeverOvercharged
<1>1. Init => NeverOvercharged
  <2> SUFFICES ASSUME Init, NEW p \in Reps PROVE used[p] <= Cardinality(Charged(p))
      BY DEF NeverOvercharged
  <2> QED
      BY ChargedFinite DEF Init
<1>2. ASSUME TypeOK, NeverOvercharged, [Next]_vars PROVE NeverOvercharged'
  <2>1. ASSUME NEW c \in Calls, NEW p \in Reps, AdmitRep(c, p)
        PROVE  NeverOvercharged'
      BY <1>2, <2>1, AdmissionCharges
  <2>2. ASSUME NEW c \in Calls, NEW q \in Candidates, NEW s \in Stages,
               AdmitCandidate(c, q, s)
        PROVE  NeverOvercharged'
    <3>1. ASSUME NEW p \in Reps PROVE Charged(p)' = Charged(p)
        BY <1>2, <2>2, <3>1, LedgerAssumption DEF TypeOK, AdmitCandidate, Charged
    <3> QED
        BY <1>2, <2>2, <3>1 DEF AdmitCandidate, NeverOvercharged
  <2>3. ASSUME NEW c \in Calls, NEW end \in Ends, End(c, end)
        PROVE  NeverOvercharged'
      BY <1>2, <2>3, EndRefunds
  <2>4. ASSUME NEW q \in Reps, Reassign(q) PROVE NeverOvercharged'
    <3> SUFFICES ASSUME NEW p \in Reps PROVE used'[p] <= Cardinality(Charged(p)')
        BY DEF NeverOvercharged
    <3>1. CASE p = q
      <4>1. used'[p] = 0
          BY <1>2, <2>4, <3>1 DEF TypeOK, Reassign
      <4>2. Charged(p)' \subseteq Calls
          BY DEF Charged
      <4>3. Cardinality(Charged(p)') \in Nat
          BY <4>2, FS_Subset, FS_CardinalityType, LedgerAssumption
      <4> QED
          BY <4>1, <4>3
    <3>2. CASE p # q
      <4>1. Charged(p)' = Charged(p)
          BY <1>2, <2>4, <3>2 DEF TypeOK, Reassign, Charged
      <4>2. used'[p] = used[p]
          BY <1>2, <2>4, <3>2 DEF TypeOK, Reassign
      <4> QED
          BY <1>2, <4>1, <4>2 DEF NeverOvercharged
    <3> QED
        BY <3>1, <3>2
  <2>5. CASE UNCHANGED vars
    <3>1. ASSUME NEW p \in Reps PROVE Charged(p)' = Charged(p)
        BY <2>5 DEF vars, Charged
    <3> QED
        BY <1>2, <2>5, <3>1 DEF vars, NeverOvercharged
  <2> QED
      BY <1>2, <2>1, <2>2, <2>3, <2>4, <2>5 DEF Next
<1> QED
    BY <1>1, <1>2, LedgerType, PTL DEF Spec

\* An attempt is charged to the grant of its day, so never to a later one.
ChargedToPast == \A c \in Calls : attempt[c] # "none" /\ who[c] \in Reps
                                      => grantOf[c] <= grant[who[c]]

LEMMA ChargedToPastStep == TypeOK /\ ChargedToPast /\ [Next]_vars => ChargedToPast'
<1> SUFFICES ASSUME TypeOK, ChargedToPast, [Next]_vars, NEW d \in Calls,
                    attempt'[d] # "none", who'[d] \in Reps
             PROVE  grantOf'[d] <= grant'[who'[d]]
  BY DEF ChargedToPast
<1>1. CASE \E c \in Calls, p \in Reps : AdmitRep(c, p)
  BY <1>1 DEF TypeOK, ChargedToPast, AdmitRep
<1>2. CASE \E c \in Calls, p \in Candidates, s \in Stages : AdmitCandidate(c, p, s)
  BY <1>2, LedgerAssumption DEF TypeOK, ChargedToPast, AdmitCandidate
<1>3. CASE \E c \in Calls, end \in Ends : End(c, end)
  BY <1>3 DEF TypeOK, ChargedToPast, End
<1>4. CASE \E p \in Reps : Reassign(p)
  BY <1>4 DEF TypeOK, ChargedToPast, Reassign
<1>5. CASE UNCHANGED vars
  BY <1>5 DEF ChargedToPast, vars
<1> QED BY <1>1, <1>2, <1>3, <1>4, <1>5 DEF Next

\* An end that gives a charge back is of the grant that has it, or finds none.
RefundsItsGrant ==
    \A c \in Calls :
        attempt[c] = "in_progress" /\ who[c] \in Reps
        /\ attempt'[c] \in {"interrupted", "deleted"}
            => grantOf[c] = grant[who[c]] \/ used[who[c]] = 0

LEMMA AdmissionExact ==
    ASSUME TypeOK, AllowanceExact, NEW c \in Calls, NEW q \in Reps, AdmitRep(c, q)
    PROVE  AllowanceExact'
<1> SUFFICES ASSUME NEW p \in Reps PROVE used'[p] = Cardinality(Charged(p)')
  BY DEF AllowanceExact
<1>1. used[p] = Cardinality(Charged(p))
  BY DEF AllowanceExact
<1>2. CASE p = q
  <2>1. Charged(p)' = Charged(p) \cup {c} /\ c \notin Charged(p)
    BY <1>2 DEF TypeOK, AdmitRep, Charged
  <2>2. used'[p] = used[p] + 1
    BY <1>2 DEF TypeOK, AdmitRep
  <2> QED BY <1>1, <2>1, <2>2, ChargedFinite, FS_AddElement
<1>3. CASE p # q
  BY <1>1, <1>3 DEF TypeOK, AdmitRep, Charged
<1> QED BY <1>2, <1>3

LEMMA EndExact ==
    ASSUME TypeOK, AllowanceExact, RefundsItsGrant, NEW c \in Calls, NEW end \in Ends, End(c, end)
    PROVE  AllowanceExact'
<1> SUFFICES ASSUME NEW p \in Reps PROVE used'[p] = Cardinality(Charged(p)')
  BY DEF AllowanceExact
<1>1. used[p] = Cardinality(Charged(p)) /\ used[p] \in Nat
  BY DEF AllowanceExact, TypeOK
<1>2. used'[p] = IF who[c] = p /\ end # "completed" /\ used[p] > 0 THEN used[p] - 1 ELSE used[p]
  BY DEF TypeOK, End, Refund
<1>3. CASE who[c] = p /\ end # "completed" /\ grantOf[c] = grant[p]
  <2>1. Charged(p)' = Charged(p) \ {c} /\ c \in Charged(p)
    BY <1>3 DEF TypeOK, End, Charged, Ends
  <2>2. Cardinality(Charged(p)') = Cardinality(Charged(p)) - 1
    BY <2>1, ChargedFinite, FS_RemoveElement
  <2>3. Cardinality(Charged(p)') \in Nat
    BY <2>1, ChargedFinite, FS_RemoveElement, FS_CardinalityType
  <2> QED BY <1>1, <1>2, <1>3, <2>2, <2>3
<1>4. CASE who[c] = p /\ end # "completed" /\ grantOf[c] # grant[p]
  <2>1. used[p] = 0
    BY <1>4 DEF RefundsItsGrant, End, Ends, TypeOK
  <2>2. Charged(p)' = Charged(p)
    BY <1>4 DEF TypeOK, End, Charged, Ends
  <2>3. used'[p] = used[p]
    BY <1>2, <2>1
  <2> QED BY <1>1, <2>2, <2>3
<1>5. CASE ~(who[c] = p /\ end # "completed")
  <2>1. Charged(p)' = Charged(p)
    BY <1>5 DEF TypeOK, End, Charged, Ends
  <2> QED BY <1>1, <1>2, <1>5, <2>1
<1> QED BY <1>3, <1>4, <1>5

\* The counter is exact for as long as no charge of an earlier grant comes back.
LEMMA ExactStep ==
    TypeOK /\ ChargedToPast /\ AllowanceExact /\ RefundsItsGrant /\ [Next]_vars
        => AllowanceExact'
<1> SUFFICES ASSUME TypeOK, ChargedToPast, AllowanceExact, RefundsItsGrant, [Next]_vars
             PROVE  AllowanceExact'
  OBVIOUS
<1>1. CASE \E c \in Calls, p \in Reps : AdmitRep(c, p)
  BY <1>1, AdmissionExact
<1>2. CASE \E c \in Calls, p \in Candidates, s \in Stages : AdmitCandidate(c, p, s)
  <2>1. \A p \in Reps : Charged(p)' = Charged(p)
    BY <1>2, LedgerAssumption DEF TypeOK, AdmitCandidate, Charged
  <2> QED BY <1>2, <2>1 DEF AdmitCandidate, AllowanceExact
<1>3. CASE \E c \in Calls, end \in Ends : End(c, end)
  BY <1>3, EndExact
<1>4. CASE \E p \in Reps : Reassign(p)
  <2> PICK q \in Reps : Reassign(q)
    BY <1>4
  <2>1. ASSUME NEW p \in Reps, p # q PROVE used'[p] = Cardinality(Charged(p)')
    BY <2>1 DEF TypeOK, Reassign, Charged, AllowanceExact
  <2>2. Charged(q)' = {}
    BY DEF TypeOK, Reassign, Charged, ChargedToPast
  <2>3. used'[q] = 0
    BY DEF TypeOK, Reassign
  <2>4. used'[q] = Cardinality(Charged(q)')
    BY <2>2, <2>3, FS_EmptySet
  <2> QED BY <2>1, <2>4 DEF AllowanceExact
<1>5. CASE UNCHANGED vars
  BY <1>5 DEF vars, Charged, AllowanceExact
<1> QED BY <1>1, <1>2, <1>3, <1>4, <1>5 DEF Next

LEMMA ExactAtFirst == Init => AllowanceExact /\ ChargedToPast
<1> SUFFICES ASSUME Init PROVE AllowanceExact /\ ChargedToPast
  OBVIOUS
<1>1. \A p \in Reps : Charged(p) = {} /\ used[p] = 0
  BY DEF Init, Charged
<1> QED BY <1>1, FS_EmptySet DEF Init, AllowanceExact, ChargedToPast

-----------------------------------------------------------------------------
(* The plan of a candidate *)

Closers == {"completed", "interrupted"}

\* What is completed or interrupted stays so, and stays its subject's.
LEMMA HavingGrows ==
    ASSUME TypeOK, [Next]_vars, NEW p, NEW s, NEW status \in Closers
    PROVE  Having(attempt, p, s, status) \subseteq Having(attempt, p, s, status)'
<1> SUFFICES ASSUME NEW d \in Having(attempt, p, s, status)
             PROVE  d \in Having(attempt, p, s, status)'
    OBVIOUS
<1>1. d \in Calls /\ who[d] = p /\ at[d] = s /\ attempt[d] = status
    BY DEF Having
<1>2. attempt[d] \in Closers
    BY <1>1
<1>3. attempt'[d] = attempt[d] /\ who'[d] = who[d] /\ at'[d] = at[d]
    BY <1>1, <1>2
    DEF Closers, TypeOK, Next, AdmitRep, AdmitCandidate, End, Reassign, vars, Ends
<1> QED
    BY <1>1, <1>3 DEF Having

\* So are the completed and the interrupted attempts of a stage.
LEMMA HavingFinite ==
    ASSUME NEW p, NEW s, NEW status
    PROVE  /\ IsFiniteSet(Having(attempt, p, s, status))
           /\ IsFiniteSet(Having(attempt, p, s, status)')
           /\ Cardinality(Having(attempt, p, s, status)) \in Nat
           /\ Cardinality(Having(attempt, p, s, status)') \in Nat
<1>1. /\ Having(attempt, p, s, status) \subseteq Calls
      /\ Having(attempt, p, s, status)' \subseteq Calls
    BY DEF Having
<1> QED
    BY <1>1, FS_Subset, FS_CardinalityType, LedgerAssumption

\* A closed stage does not open again.
LEMMA StageStaysClosed ==
    ASSUME TypeOK, [Next]_vars, NEW p, NEW s, StageClosed(attempt, p, s)
    PROVE  StageClosed(attempt, p, s)'
<1>1. CASE Having(attempt, p, s, "completed") # {}
    BY <1>1, HavingGrows DEF StageClosed, Closers
<1>2. CASE Cardinality(Having(attempt, p, s, "interrupted")) >= 2
  <2> DEFINE before == Having(attempt, p, s, "interrupted")
             after == Having(attempt, p, s, "interrupted")'
  <2>1. before \subseteq after
      BY HavingGrows DEF Closers
  <2>2. /\ IsFiniteSet(after)
        /\ Cardinality(before) \in Nat /\ Cardinality(after) \in Nat
      BY HavingFinite
  <2> HIDE DEF before, after
  <2>3. Cardinality(before) <= Cardinality(after)
      BY <2>1, <2>2, FS_Subset
  <2>4. Cardinality(after) >= 2
      BY <1>2, <2>2, <2>3 DEF before
  <2> QED
      BY <2>4 DEF after, StageClosed
<1> QED
    BY <1>1, <1>2 DEF StageClosed

\* A transaction that completes and interrupts nothing closes no stage.
LEMMA StageSame ==
    ASSUME NEW p, NEW s,
           \A status \in Closers :
               Having(attempt, p, s, status)' = Having(attempt, p, s, status)
    PROVE  StageClosed(attempt, p, s)' <=> StageClosed(attempt, p, s)
BY DEF StageClosed, Closers

\* A stage is reached only when every earlier one is closed.
THEOREM StagesReachedInOrder == Spec => []StagesInOrder
<1>1. Init => StagesInOrder
    BY DEF Init, StagesInOrder
<1>2. ASSUME TypeOK, StagesInOrder, [Next]_vars PROVE StagesInOrder'
  <2> SUFFICES ASSUME NEW d \in Calls,
                      attempt'[d] \in {"in_progress", "completed", "interrupted"},
                      who'[d] \in Candidates, NEW r \in 1 .. at'[d] - 1
               PROVE  StageClosed(attempt, who[d], r)'
      BY DEF StagesInOrder
  <2>1. CASE attempt[d] # "none"
    <3>1. /\ attempt[d] \in {"in_progress", "completed", "interrupted"}
          /\ who'[d] = who[d] /\ at'[d] = at[d]
        BY <1>2, <2>1
        DEF TypeOK, Next, AdmitRep, AdmitCandidate, End, Reassign, vars, Ends
    <3>2. StageClosed(attempt, who[d], r)
        BY <1>2, <3>1 DEF StagesInOrder
    <3>3. PICK p : p = who[d]
        OBVIOUS
    <3>4. StageClosed(attempt, p, r)'
        BY <1>2, <3>2, <3>3, StageStaysClosed
    <3>5. p = who'[d]
        BY <3>1, <3>3
    <3> QED
        BY <3>4, <3>5
  <2>2. CASE attempt[d] = "none"
    <3>1. PICK p \in Candidates, s \in Stages : AdmitCandidate(d, p, s)
        BY <1>2, <2>2, LedgerAssumption
        DEF TypeOK, Next, AdmitRep, AdmitCandidate, End, Reassign, vars, Ends
    <3>2. who'[d] = p /\ at'[d] = s
        BY <1>2, <3>1 DEF TypeOK, AdmitCandidate
    <3>3. StageClosed(attempt, p, r)
        BY <3>1, <3>2 DEF AdmitCandidate
    <3>4. StageClosed(attempt, p, r)'
        BY <1>2, <3>3, StageStaysClosed
    <3> QED
        BY <3>2, <3>4
  <2> QED
      BY <2>1, <2>2
<1> QED
    BY <1>1, <1>2, LedgerType, PTL DEF Spec

\* A plan has a stage, and no stage is closed before an attempt (_STAGE_STATE).
LEMMA PlanOpenAtFirst == Init => PlanClosedOnce
<1> SUFFICES ASSUME Init, NEW p \in Candidates
             PROVE  /\ closed[p] <=> PlanClosed(attempt, p)
                    /\ reportJobs[p] = IF closed[p] THEN 1 ELSE 0
    BY DEF PlanClosedOnce
<1>1. ~closed[p] /\ reportJobs[p] = 0
    BY DEF Init
<1>2. 1 \in Stages
    BY LedgerAssumption DEF Stages
<1>3. \A status \in Closers : Having(attempt, p, 1, status) = {}
    BY DEF Having, Init, Closers
<1>4. ~StageClosed(attempt, p, 1)
    BY <1>3, FS_EmptySet DEF StageClosed, Closers
<1> QED
    BY <1>1, <1>2, <1>4 DEF PlanClosed

\* A transaction that touches neither the closing attempts nor the plan.
LEMMA PlanUntouched ==
    ASSUME PlanClosedOnce, UNCHANGED <<closed, reportJobs>>,
           \A p \in Candidates, s \in Stages, status \in Closers :
               Having(attempt, p, s, status)' = Having(attempt, p, s, status)
    PROVE  PlanClosedOnce'
<1> SUFFICES ASSUME NEW p \in Candidates
             PROVE  /\ closed'[p] <=> PlanClosed(attempt, p)'
                    /\ reportJobs'[p] = IF closed'[p] THEN 1 ELSE 0
    BY DEF PlanClosedOnce
<1>1. \A s \in Stages : StageClosed(attempt, p, s)' <=> StageClosed(attempt, p, s)
    BY StageSame
<1>2. PlanClosed(attempt, p)' <=> PlanClosed(attempt, p)
    BY <1>1 DEF PlanClosed
<1> QED
    BY <1>2 DEF PlanClosedOnce

\* T-2 and T-6 look at the plan they have just changed.
LEMMA EndClosesPlan ==
    ASSUME TypeOK, PlanClosedOnce, NEW c \in Calls, NEW end \in Closers, End(c, end)
    PROVE  PlanClosedOnce'
<1> SUFFICES ASSUME NEW p \in Candidates
             PROVE  /\ closed'[p] <=> PlanClosed(attempt, p)'
                    /\ reportJobs'[p] = IF closed'[p] THEN 1 ELSE 0
    BY DEF PlanClosedOnce
<1>1. /\ closed[p] <=> PlanClosed(attempt, p)
      /\ reportJobs[p] = IF closed[p] THEN 1 ELSE 0
      /\ closed[p] \in BOOLEAN
    BY DEF PlanClosedOnce, TypeOK
<1>2. end \in Ends /\ end # "deleted"
    BY DEF Closers, Ends
<1>3. [Next]_vars
    BY <1>2 DEF Next
<1>4. PlanClosed(attempt, p) => PlanClosed(attempt, p)'
    BY <1>3, StageStaysClosed DEF PlanClosed
<1>5. ClosePlan(c, end, attempt') /\ who' = who /\ at' = at
    BY DEF End
<1>6. CASE who[c] = p
  <2>1. PlanClosed(attempt', p) <=> PlanClosed(attempt, p)'
      BY <1>5 DEF PlanClosed, StageClosed, Having
  <2>2. CASE ~closed[p] /\ PlanClosed(attempt', p)
    <3>1. /\ closed' = [closed EXCEPT ![p] = TRUE]
          /\ reportJobs' = [reportJobs EXCEPT ![p] = @ + 1]
        BY <1>2, <1>5, <1>6, <2>2 DEF ClosePlan
    <3>2. closed'[p] /\ reportJobs'[p] = reportJobs[p] + 1
        BY <3>1 DEF TypeOK
    <3> QED
        BY <1>1, <2>1, <2>2, <3>2
  <2>3. CASE ~(~closed[p] /\ PlanClosed(attempt', p))
    <3>1. closed' = closed /\ reportJobs' = reportJobs
        BY <1>5, <1>6, <2>3 DEF ClosePlan
    <3> QED
        BY <1>1, <1>4, <2>1, <2>3, <3>1
  <2> QED
      BY <2>2, <2>3
<1>7. CASE who[c] # p
  <2>1. \A s \in Stages, status \in Closers :
            Having(attempt, p, s, status)' = Having(attempt, p, s, status)
      BY <1>7 DEF End, Having, TypeOK
  <2>2. \A s \in Stages : StageClosed(attempt, p, s)' <=> StageClosed(attempt, p, s)
      BY <2>1, StageSame
  <2>3. PlanClosed(attempt, p)' <=> PlanClosed(attempt, p)
      BY <2>2 DEF PlanClosed
  <2>4. closed'[p] = closed[p] /\ reportJobs'[p] = reportJobs[p]
      BY <1>5, <1>7 DEF ClosePlan, TypeOK
  <2> QED
      BY <1>1, <2>3, <2>4
<1> QED
    BY <1>6, <1>7

\* A candidate whose stages are all closed is complete and has one report job.
THEOREM PlanReported == Spec => []PlanClosedOnce
<1>1. ASSUME TypeOK, PlanClosedOnce, [Next]_vars PROVE PlanClosedOnce'
  <2>1. ASSUME NEW c \in Calls, NEW q \in Reps, AdmitRep(c, q)
        PROVE  PlanClosedOnce'
    <3>1. \A p \in Candidates, s \in Stages, status \in Closers :
              Having(attempt, p, s, status)' = Having(attempt, p, s, status)
        BY <1>1, <2>1 DEF TypeOK, AdmitRep, Having, Closers
    <3> QED
        BY <1>1, <2>1, <3>1, PlanUntouched DEF AdmitRep
  <2>2. ASSUME NEW c \in Calls, NEW q \in Candidates, NEW r \in Stages,
               AdmitCandidate(c, q, r)
        PROVE  PlanClosedOnce'
    <3>1. \A p \in Candidates, s \in Stages, status \in Closers :
              Having(attempt, p, s, status)' = Having(attempt, p, s, status)
        BY <1>1, <2>2 DEF TypeOK, AdmitCandidate, Having, Closers
    <3> QED
        BY <1>1, <2>2, <3>1, PlanUntouched DEF AdmitCandidate
  <2>3. ASSUME NEW c \in Calls, NEW end \in Closers, End(c, end)
        PROVE  PlanClosedOnce'
      BY <1>1, <2>3, EndClosesPlan
  <2>4. ASSUME NEW c \in Calls, End(c, "deleted") PROVE PlanClosedOnce'
    <3>1. \A p \in Candidates, s \in Stages, status \in Closers :
              Having(attempt, p, s, status)' = Having(attempt, p, s, status)
        BY <1>1, <2>4 DEF TypeOK, End, Having, Closers
    <3>2. UNCHANGED <<closed, reportJobs>>
        BY <2>4 DEF End, ClosePlan
    <3> QED
        BY <1>1, <3>1, <3>2, PlanUntouched
  <2>5. ASSUME NEW q \in Reps, Reassign(q) PROVE PlanClosedOnce'
    <3>1. \A p \in Candidates, s \in Stages, status \in Closers :
              Having(attempt, p, s, status)' = Having(attempt, p, s, status)
        BY <2>5 DEF Reassign, Having
    <3> QED
        BY <1>1, <2>5, <3>1, PlanUntouched DEF Reassign
  <2>6. CASE UNCHANGED vars
    <3>1. \A p \in Candidates, s \in Stages, status \in Closers :
              Having(attempt, p, s, status)' = Having(attempt, p, s, status)
        BY <2>6 DEF vars, Having
    <3> QED
        BY <1>1, <2>6, <3>1, PlanUntouched DEF vars
  <2>7. Ends = Closers \cup {"deleted"}
      BY DEF Ends, Closers
  <2> QED
      BY <1>1, <2>1, <2>2, <2>3, <2>4, <2>5, <2>6, <2>7 DEF Next
<1> QED
    BY <1>1, PlanOpenAtFirst, LedgerType, PTL DEF Spec
=============================================================================
