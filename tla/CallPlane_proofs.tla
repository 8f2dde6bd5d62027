-------------------------- MODULE CallPlane_proofs --------------------------
(***************************************************************************)
(* What is proved of CallPlane for all values of the constants.  First the *)
(* invariant that makes T-1, T-2 and T-6 transactions of AttemptLedger;    *)
(* then, while deadlines are met and clients are orderly, that a call that *)
(* is being conducted keeps all it stands on, a participant has one of     *)
(* them, the runtime's verdict is what the row says, and the allowance is  *)
(* exact.                                                                  *)
(***************************************************************************)
EXTENDS CallPlane, FiniteSetTheorems, TLAPS

USE DEF vars, valkeyVars, leaseVars, slotVars, sessionVars, callVars, ledgerVars,
        planVars, dbVars, finVars, cancelVars, runtimeVars, handlerVars

\* A request that may still become an attempt.
Early == {"idle", "leased", "slotted"} \cup InTxn

ValkeyType == LeaseType /\ SlotType /\ SessionType

\* A step that leaves the ledger alone and neither places nor admits a call.
Bystander ==
    /\ UNCHANGED <<owner, mode, stage, ledgerVars, closed, reportJobs>>
    /\ \A c \in Calls :
          /\ req[c] \notin InTxn => req'[c] \notin InTxn
          /\ req[c] \notin Early => req'[c] \notin Early
          /\ req[c] = "idle" => req'[c] = "idle"

-----------------------------------------------------------------------------
(* Types, and the steps that leave the ledger alone *)

\* A step of request_call between its lease and its commit or its refusal.
LEMMA RequestFrame ==
    ASSUME LedgerInv, ValkeyType', NEW c \in Calls, NEW from, NEW to \in RequestPC,
           GoReq(c, from, to), SameExceptReq, from # "idle",
           from \in InTxn \/ to \notin InTxn,
           from \in Early \/ to \notin Early
    PROVE  TypeOK' /\ Bystander /\ CancelOfCall'
<1>1. TypeOK /\ CancelOfCall
    BY DEF LedgerInv
<1>2. TypeOK'
    BY <1>1 DEF TypeOK, ValkeyType, RequestType, RowType, HandlerType, RuntimeType,
                GoReq, SameExceptReq
<1>3. Bystander
    BY <1>1 DEF TypeOK, RequestType, Bystander, GoReq, SameExceptReq
<1>4. CancelOfCall'
    BY <1>1 DEF CancelOfCall, SameExceptReq
<1> QED
    BY <1>2, <1>3, <1>4

\* A step of any other handler that writes no row.
LEMMA HandlerFrame ==
    ASSUME LedgerInv, ValkeyType', HandlerType', RuntimeType', CancelOfCall',
           UNCHANGED <<callVars, dbVars, req>>
    PROVE  TypeOK' /\ Bystander /\ CancelOfCall'
<1>1. TypeOK
    BY DEF LedgerInv
<1>2. TypeOK'
    BY <1>1 DEF TypeOK, ValkeyType, RequestType, RowType
<1>3. Bystander
    BY DEF Bystander
<1> QED
    BY <1>2, <1>3

\* The deadlines are positive, and none is longer than the key it is written to.
LEMMA Deadlines ==
    /\ JoinSecs \in 0 .. RecoverSecs /\ RecoverSecs \in Nat
    /\ MaxCallSecs \in Nat /\ LeaseSecs \in Nat /\ SlotSecs \in Nat
BY DeadlinesAssumption

\* An update keeps the type of a function, inside and outside of its domain.
LEMMA ExceptType ==
    ASSUME NEW S, NEW T, NEW f \in [S -> T], NEW x, NEW y \in T
    PROVE  [f EXCEPT ![x] = y] \in [S -> T]
OBVIOUS

\* Each command on Valkey keeps the types of the keys it touches.
LEMMA ValkeyCommands ==
    ASSUME TypeOK
    PROVE  /\ UNCHANGED leaseVars => LeaseType'
           /\ UNCHANGED slotVars => SlotType'
           /\ UNCHANGED sessionVars => SessionType'
           /\ \A p, c : c \in Calls /\ WriteLease(p, c) => LeaseType'
           /\ \A p, c : ReleaseLease(p, c) => LeaseType'
           /\ \A c : DeleteSlot(c) => SlotType'
<1>1. LeaseType /\ SlotType /\ SessionType
    BY DEF TypeOK
<1>2. ASSUME UNCHANGED leaseVars PROVE LeaseType'
    BY <1>1, <1>2 DEF LeaseType
<1>3. ASSUME UNCHANGED slotVars PROVE SlotType'
    BY <1>1, <1>3 DEF SlotType
<1>4. ASSUME UNCHANGED sessionVars PROVE SessionType'
    BY <1>1, <1>4 DEF SessionType
<1>5. ASSUME NEW p, NEW c \in Calls, WriteLease(p, c) PROVE LeaseType'
    BY <1>1, <1>5, Deadlines, ExceptType DEF LeaseType, WriteLease
<1>6. ASSUME NEW p, NEW c, ReleaseLease(p, c) PROVE LeaseType'
    BY <1>1, <1>6, Deadlines, ExceptType DEF LeaseType, ReleaseLease
<1>7. ASSUME NEW c, DeleteSlot(c) PROVE SlotType'
    BY <1>1, <1>7, Deadlines, ExceptType DEF SlotType, DeleteSlot
<1> QED
    BY <1>2, <1>3, <1>4, <1>5, <1>6, <1>7

\* A call that starts is live for as long as a call may last.
LEMMA Conducted ==
    ASSUME RuntimeType, NEW c \in Calls, Conduct(c)
    PROVE  RuntimeType'
BY Deadlines DEF RuntimeType, Conduct

\* Most steps of request_call concern its lease, its slot and its session.
LEMMA RequestStep ==
    ASSUME LedgerInv, NEW c \in Calls,
           \/ RequestNoSlot(c) \/ RequestPut(c) \/ RequestIndex(c)
           \/ RequestReadLease(c) \/ RequestRenew(c) \/ RequestFails(c)
           \/ UndoDelete(c) \/ UndoIndex(c) \/ UndoReadSlot(c) \/ UndoDeleteSlot(c)
           \/ UndoLease(c) \/ RequestDies(c)
    PROVE  TypeOK' /\ Bystander /\ CancelOfCall'
<1>1. TypeOK /\ CancelOfCall /\ Identified
    BY DEF LedgerInv
<1>2. CASE RequestNoSlot(c)
  <2>1. ValkeyType'
      BY <1>1, <1>2, ValkeyCommands DEF ValkeyType, RequestNoSlot
  <2> QED
      BY <1>2, <2>1, RequestFrame
      DEF RequestNoSlot, RequestPC, InTxn, Undoing, Early
<1>3. CASE RequestPut(c)
  <2>1. ValkeyType'
      BY <1>1, <1>3, Deadlines, ValkeyCommands
      DEF TypeOK, ValkeyType, SessionType, RequestPut, WriteSession
  <2> QED
      BY <1>3, <2>1, RequestFrame
      DEF RequestPut, RequestPC, InTxn, Undoing, Early
<1>4. CASE RequestIndex(c)
  <2>1. ValkeyType'
      BY <1>1, <1>4, Deadlines, ValkeyCommands
      DEF TypeOK, ValkeyType, SessionType, RequestIndex, Index
  <2> QED
      BY <1>4, <2>1, RequestFrame
      DEF RequestIndex, RequestPC, InTxn, Undoing, Early
<1>5. CASE RequestReadLease(c)
  <2>1. ValkeyType'
      BY <1>1, <1>5, ValkeyCommands DEF ValkeyType, RequestReadLease
  <2> QED
      BY <1>5, <2>1, RequestFrame
      DEF RequestReadLease, RequestPC, InTxn, Undoing, Early
<1>6. CASE RequestRenew(c)
  <2>1. ValkeyType'
      BY <1>1, <1>6, ValkeyCommands DEF ValkeyType, RequestRenew
  <2> QED
      BY <1>6, <2>1, RequestFrame
      DEF RequestRenew, RequestPC, InTxn, Undoing, Early
<1>7. CASE RequestFails(c)
  <2>1. ValkeyType'
      BY <1>1, <1>7, ValkeyCommands DEF ValkeyType, RequestFails
  <2> QED
      BY <1>7, <2>1, RequestFrame
      DEF RequestFails, RequestPC, InTxn, Undoing, Early
<1>8. CASE UndoDelete(c)
  <2>1. ValkeyType'
      BY <1>1, <1>8, Deadlines, ValkeyCommands
      DEF TypeOK, ValkeyType, SessionType, UndoDelete, WriteSession
  <2> QED
      BY <1>8, <2>1, RequestFrame
      DEF UndoDelete, RequestPC, InTxn, Undoing, Early
<1>9. CASE UndoIndex(c)
  <2>1. ValkeyType'
      BY <1>1, <1>9, Deadlines, ValkeyCommands
      DEF TypeOK, ValkeyType, SessionType, UndoIndex, Unindex
  <2> QED
      BY <1>9, <2>1, RequestFrame
      DEF UndoIndex, RequestPC, InTxn, Undoing, Early
<1>10. CASE UndoReadSlot(c)
  <2>1. ValkeyType'
      BY <1>1, <1>10, ValkeyCommands DEF ValkeyType, UndoReadSlot
  <2> QED
      BY <1>10, <2>1, RequestFrame
      DEF UndoReadSlot, RequestPC, InTxn, Undoing, Early
<1>11. CASE UndoDeleteSlot(c)
  <2>1. ValkeyType'
      BY <1>1, <1>11, ValkeyCommands DEF ValkeyType, UndoDeleteSlot
  <2> QED
      BY <1>11, <2>1, RequestFrame
      DEF UndoDeleteSlot, RequestPC, InTxn, Undoing, Early
<1>12. CASE UndoLease(c)
  <2>1. ValkeyType'
      BY <1>1, <1>12, ValkeyCommands DEF ValkeyType, UndoLease
  <2> QED
      BY <1>12, <2>1, RequestFrame
      DEF UndoLease, RequestPC, InTxn, Undoing, Early
<1>13. CASE RequestDies(c)
  <2>1. ValkeyType'
      BY <1>1, <1>13, ValkeyCommands DEF ValkeyType, RequestDies
  <2> QED
      BY <1>13, <2>1, RequestFrame
      DEF RequestDies, RequestPC, InTxn, Undoing, Early
<1> QED
    BY <1>2, <1>3, <1>4, <1>5, <1>6, <1>7, <1>8, <1>9, <1>10, <1>11, <1>12, <1>13

\* The agent's fetch and the agent itself write no row.
LEMMA BundleStep ==
    ASSUME LedgerInv, NEW c \in Calls, Bundle(c) \/ Runtime(c)
    PROVE  TypeOK' /\ Bystander /\ CancelOfCall'
<1>1. TypeOK /\ CancelOfCall /\ Identified
    BY DEF LedgerInv
<1>2. CASE BundleRead(c)
  <2>1. ValkeyType'
      BY <1>1, <1>2, ValkeyCommands DEF ValkeyType, BundleRead
  <2>2. HandlerType' /\ RuntimeType' /\ CancelOfCall'
      BY <1>1, <1>2
      DEF TypeOK, HandlerType, RuntimeType, CancelOfCall, BundleRead, GoBundle,
          BundlePC, Dispositions, SameExceptBundle
  <2>3. UNCHANGED <<callVars, dbVars, req>>
      BY <1>2 DEF BundleRead, GoBundle, SameExceptBundle
  <2> QED
      BY <2>1, <2>2, <2>3, HandlerFrame
<1>3. CASE BundleAgain(c)
  <2>1. ValkeyType'
      BY <1>1, <1>3, ValkeyCommands DEF ValkeyType, BundleAgain
  <2>2. HandlerType' /\ RuntimeType' /\ CancelOfCall'
      BY <1>1, <1>3, Conducted
      DEF TypeOK, HandlerType, RuntimeType, CancelOfCall, BundleAgain, GoBundle,
          BundlePC, Dispositions, SameExceptBundle
  <2>3. UNCHANGED <<callVars, dbVars, req>>
      BY <1>3 DEF BundleAgain, GoBundle, SameExceptBundle
  <2> QED
      BY <2>1, <2>2, <2>3, HandlerFrame
<1>4. CASE BundleReadLease(c)
  <2>1. ValkeyType'
      BY <1>1, <1>4, ValkeyCommands DEF ValkeyType, BundleReadLease
  <2>2. HandlerType' /\ RuntimeType' /\ CancelOfCall'
      BY <1>1, <1>4
      DEF TypeOK, HandlerType, RuntimeType, CancelOfCall, BundleReadLease, GoBundle,
          BundlePC, Dispositions, SameExceptBundle
  <2>3. UNCHANGED <<callVars, dbVars, req>>
      BY <1>4 DEF BundleReadLease, GoBundle, SameExceptBundle
  <2> QED
      BY <2>1, <2>2, <2>3, HandlerFrame
<1>5. CASE BundleRenew(c)
  <2>1. ValkeyType'
      BY <1>1, <1>5, ValkeyCommands DEF ValkeyType, BundleRenew
  <2>2. HandlerType' /\ RuntimeType' /\ CancelOfCall'
      BY <1>1, <1>5
      DEF TypeOK, HandlerType, RuntimeType, CancelOfCall, BundleRenew, GoBundle,
          BundlePC, Dispositions, SameExceptBundle
  <2>3. UNCHANGED <<callVars, dbVars, req>>
      BY <1>5 DEF BundleRenew, GoBundle, SameExceptBundle
  <2> QED
      BY <2>1, <2>2, <2>3, HandlerFrame
<1>6. CASE BundleEstablish(c)
  <2>1. ValkeyType'
      BY <1>1, <1>6, Deadlines, ValkeyCommands
      DEF TypeOK, ValkeyType, SessionType, BundleEstablish, WriteSession
  <2>2. HandlerType' /\ RuntimeType' /\ CancelOfCall'
      BY <1>1, <1>6
      DEF TypeOK, HandlerType, RuntimeType, CancelOfCall, BundleEstablish, GoBundle,
          BundlePC, Dispositions, SameExceptBundle
  <2>3. UNCHANGED <<callVars, dbVars, req>>
      BY <1>6 DEF BundleEstablish, GoBundle, SameExceptBundle
  <2> QED
      BY <2>1, <2>2, <2>3, HandlerFrame
<1>7. CASE BundleIndex(c)
  <2>1. ValkeyType'
      BY <1>1, <1>7, Deadlines, ValkeyCommands
      DEF TypeOK, ValkeyType, SessionType, BundleIndex, Index
  <2>2. HandlerType' /\ RuntimeType' /\ CancelOfCall'
      BY <1>1, <1>7
      DEF TypeOK, HandlerType, RuntimeType, CancelOfCall, BundleIndex, GoBundle,
          BundlePC, Dispositions, SameExceptBundle
  <2>3. UNCHANGED <<callVars, dbVars, req>>
      BY <1>7 DEF BundleIndex, GoBundle, SameExceptBundle
  <2> QED
      BY <2>1, <2>2, <2>3, HandlerFrame
<1>8. CASE BundleReturn(c)
  <2>1. ValkeyType'
      BY <1>1, <1>8, ValkeyCommands DEF ValkeyType, BundleReturn
  <2>2. HandlerType' /\ RuntimeType' /\ CancelOfCall'
      BY <1>1, <1>8, Conducted
      DEF TypeOK, HandlerType, RuntimeType, CancelOfCall, BundleReturn, GoBundle,
          BundlePC, Dispositions, SameExceptBundle
  <2>3. UNCHANGED <<callVars, dbVars, req>>
      BY <1>8 DEF BundleReturn, GoBundle, SameExceptBundle
  <2> QED
      BY <2>1, <2>2, <2>3, HandlerFrame
<1>9. CASE BundleDies(c)
  <2>1. ValkeyType'
      BY <1>1, <1>9, ValkeyCommands DEF ValkeyType, BundleDies
  <2>2. HandlerType' /\ RuntimeType' /\ CancelOfCall'
      BY <1>1, <1>9
      DEF TypeOK, HandlerType, RuntimeType, CancelOfCall, BundleDies, GoBundle,
          BundlePC, Dispositions, SameExceptBundle
  <2>3. UNCHANGED <<callVars, dbVars, req>>
      BY <1>9 DEF BundleDies, GoBundle, SameExceptBundle
  <2> QED
      BY <2>1, <2>2, <2>3, HandlerFrame
<1>10. CASE RuntimeLost(c)
  <2>1. ValkeyType'
      BY <1>1, <1>10, ValkeyCommands DEF ValkeyType, RuntimeLost, SameExceptRuntime
  <2>2. HandlerType' /\ RuntimeType' /\ CancelOfCall'
      BY <1>1, <1>10
      DEF TypeOK, HandlerType, RuntimeType, CancelOfCall, RuntimeLost,
          SameExceptRuntime
  <2>3. UNCHANGED <<callVars, dbVars, req>>
      BY <1>10 DEF RuntimeLost, SameExceptRuntime
  <2> QED
      BY <2>1, <2>2, <2>3, HandlerFrame
<1>11. ASSUME NEW d \in Dispositions, RuntimeReports(c, d)
      PROVE  TypeOK' /\ Bystander /\ CancelOfCall'
  <2>1. ValkeyType'
      BY <1>1, <1>11, ValkeyCommands DEF ValkeyType, RuntimeReports,
                                         SameExceptRuntime
  <2>2. HandlerType' /\ RuntimeType' /\ CancelOfCall'
      BY <1>1, <1>11
      DEF TypeOK, HandlerType, RuntimeType, CancelOfCall, RuntimeReports,
          SameExceptRuntime
  <2>3. UNCHANGED <<callVars, dbVars, req>>
      BY <1>11 DEF RuntimeReports, SameExceptRuntime
  <2> QED
      BY <2>1, <2>2, <2>3, HandlerFrame
<1> QED
    BY <1>2, <1>3, <1>4, <1>5, <1>6, <1>7, <1>8, <1>9, <1>10, <1>11 DEF Bundle,
                                                                        Runtime

\* A path that ends a call first reads what it decides on.
LEMMA ReadStep ==
    ASSUME LedgerInv, NEW c \in Calls,
           \/ CallbackRead(c) \/ SweepList(c) \/ SweepRead(c)
           \/ WebhookRead(c) \/ WebhookReadLease(c)
    PROVE  TypeOK' /\ Bystander /\ CancelOfCall'
<1>1. TypeOK /\ CancelOfCall /\ Identified
    BY DEF LedgerInv
<1>2. CASE CallbackRead(c)
  <2>1. ValkeyType'
      BY <1>1, <1>2, ValkeyCommands DEF ValkeyType, CallbackRead
  <2>2. HandlerType' /\ RuntimeType' /\ CancelOfCall'
      BY <1>1, <1>2
      DEF TypeOK, HandlerType, RuntimeType, CancelOfCall, CallbackRead, Finishers,
          FinishPC, Dispositions, GoFin, SameExceptFin, Undelivered, AfterRead,
          Decide
  <2>3. UNCHANGED <<callVars, dbVars, req>>
      BY <1>2 DEF CallbackRead, GoFin, SameExceptFin
  <2> QED
      BY <2>1, <2>2, <2>3, HandlerFrame
<1>3. CASE SweepList(c)
  <2>1. ValkeyType'
      BY <1>1, <1>3, ValkeyCommands DEF ValkeyType, SweepList
  <2>2. HandlerType' /\ RuntimeType' /\ CancelOfCall'
      BY <1>1, <1>3
      DEF TypeOK, HandlerType, RuntimeType, CancelOfCall, SweepList, Finishers,
          FinishPC, Dispositions, GoFin, SameExceptFin
  <2>3. UNCHANGED <<callVars, dbVars, req>>
      BY <1>3 DEF SweepList, GoFin, SameExceptFin
  <2> QED
      BY <2>1, <2>2, <2>3, HandlerFrame
<1>4. CASE SweepRead(c)
  <2>1. ValkeyType'
      BY <1>1, <1>4, Deadlines, ValkeyCommands
      DEF TypeOK, ValkeyType, SessionType, SweepRead, Unindex
  <2>2. HandlerType' /\ RuntimeType' /\ CancelOfCall'
      BY <1>1, <1>4, SMTT(30)
      DEF TypeOK, HandlerType, RuntimeType, CancelOfCall, SweepRead, Finishers,
          FinishPC, Dispositions, GoFin, SameExceptFin, AfterRead, Decide, Inferred
  <2>3. UNCHANGED <<callVars, dbVars, req>>
      BY <1>4 DEF SweepRead, GoFin, SameExceptFin
  <2> QED
      BY <2>1, <2>2, <2>3, HandlerFrame
<1>5. CASE WebhookRead(c)
  <2>1. ValkeyType'
      BY <1>1, <1>5, ValkeyCommands DEF ValkeyType, WebhookRead
  <2>2. HandlerType' /\ RuntimeType' /\ CancelOfCall'
      BY <1>1, <1>5
      DEF TypeOK, HandlerType, RuntimeType, CancelOfCall, WebhookRead, Finishers,
          FinishPC, Dispositions, GoFin, SameExceptFin, Decide, Inferred
  <2>3. UNCHANGED <<callVars, dbVars, req>>
      BY <1>5 DEF WebhookRead, GoFin, SameExceptFin
  <2> QED
      BY <2>1, <2>2, <2>3, HandlerFrame
<1>6. CASE WebhookReadLease(c)
  <2>1. ValkeyType'
      BY <1>1, <1>6, ValkeyCommands DEF ValkeyType, WebhookReadLease
  <2>2. HandlerType' /\ RuntimeType' /\ CancelOfCall'
      BY <1>1, <1>6
      DEF TypeOK, HandlerType, RuntimeType, CancelOfCall, WebhookReadLease,
          Finishers, FinishPC, Dispositions, GoFin, SameExceptFin, Decided
  <2>3. UNCHANGED <<callVars, dbVars, req>>
      BY <1>6 DEF WebhookReadLease, GoFin, SameExceptFin
  <2> QED
      BY <2>1, <2>2, <2>3, HandlerFrame
<1> QED
    BY <1>2, <1>3, <1>4, <1>5, <1>6

\* And after its transaction it clears what the call held.
LEMMA FinishStep ==
    ASSUME LedgerInv, NEW c \in Calls,
           NEW f \in Finishers,
           \/ FinLease(f, c) \/ FinReadSlot(f, c) \/ FinDeleteSlot(f, c)
           \/ FinMark(f, c) \/ FinUnindex(f, c) \/ FinDies(f, c)
    PROVE  TypeOK' /\ Bystander /\ CancelOfCall'
<1>1. TypeOK /\ CancelOfCall /\ Identified
    BY DEF LedgerInv
<1>2. CASE FinLease(f, c)
  <2>1. ValkeyType'
      BY <1>1, <1>2, ValkeyCommands DEF ValkeyType, FinLease
  <2>2. HandlerType' /\ RuntimeType' /\ CancelOfCall'
      BY <1>1, <1>2
      DEF TypeOK, HandlerType, RuntimeType, CancelOfCall, FinLease, Finishers,
          FinishPC, Dispositions, GoFin, SameExceptFin
  <2>3. UNCHANGED <<callVars, dbVars, req>>
      BY <1>2 DEF FinLease, GoFin, SameExceptFin
  <2> QED
      BY <2>1, <2>2, <2>3, HandlerFrame
<1>3. CASE FinReadSlot(f, c)
  <2>1. ValkeyType'
      BY <1>1, <1>3, ValkeyCommands DEF ValkeyType, FinReadSlot
  <2>2. HandlerType' /\ RuntimeType' /\ CancelOfCall'
      BY <1>1, <1>3
      DEF TypeOK, HandlerType, RuntimeType, CancelOfCall, FinReadSlot, Finishers,
          FinishPC, Dispositions, GoFin, SameExceptFin
  <2>3. UNCHANGED <<callVars, dbVars, req>>
      BY <1>3 DEF FinReadSlot, GoFin, SameExceptFin
  <2> QED
      BY <2>1, <2>2, <2>3, HandlerFrame
<1>4. CASE FinDeleteSlot(f, c)
  <2>1. ValkeyType'
      BY <1>1, <1>4, ValkeyCommands DEF ValkeyType, FinDeleteSlot
  <2>2. HandlerType' /\ RuntimeType' /\ CancelOfCall'
      BY <1>1, <1>4
      DEF TypeOK, HandlerType, RuntimeType, CancelOfCall, FinDeleteSlot, Finishers,
          FinishPC, Dispositions, GoFin, SameExceptFin
  <2>3. UNCHANGED <<callVars, dbVars, req>>
      BY <1>4 DEF FinDeleteSlot, GoFin, SameExceptFin
  <2> QED
      BY <2>1, <2>2, <2>3, HandlerFrame
<1>5. CASE FinMark(f, c)
  <2>1. ValkeyType'
      BY <1>1, <1>5, Deadlines, ValkeyCommands
      DEF TypeOK, ValkeyType, SessionType, FinMark, WriteSession
  <2>2. HandlerType' /\ RuntimeType' /\ CancelOfCall'
      BY <1>1, <1>5
      DEF TypeOK, HandlerType, RuntimeType, CancelOfCall, FinMark, Finishers,
          FinishPC, Dispositions, GoFin, SameExceptFin
  <2>3. UNCHANGED <<callVars, dbVars, req>>
      BY <1>5 DEF FinMark, GoFin, SameExceptFin
  <2> QED
      BY <2>1, <2>2, <2>3, HandlerFrame
<1>6. CASE FinUnindex(f, c)
  <2>1. ValkeyType'
      BY <1>1, <1>6, Deadlines, ValkeyCommands
      DEF TypeOK, ValkeyType, SessionType, FinUnindex, Unindex
  <2>2. HandlerType' /\ RuntimeType' /\ CancelOfCall'
      BY <1>1, <1>6
      DEF TypeOK, HandlerType, RuntimeType, CancelOfCall, FinUnindex, Finishers,
          FinishPC, Dispositions, GoFin, SameExceptFin
  <2>3. UNCHANGED <<callVars, dbVars, req>>
      BY <1>6 DEF FinUnindex, GoFin, SameExceptFin
  <2> QED
      BY <2>1, <2>2, <2>3, HandlerFrame
<1>7. CASE FinDies(f, c)
  <2>1. ValkeyType'
      BY <1>1, <1>7, ValkeyCommands DEF ValkeyType, FinDies
  <2>2. HandlerType' /\ RuntimeType' /\ CancelOfCall'
      BY <1>1, <1>7
      DEF TypeOK, HandlerType, RuntimeType, CancelOfCall, FinDies, Finishers,
          FinishPC, Dispositions, GoFin, SameExceptFin, Decided
  <2>3. UNCHANGED <<callVars, dbVars, req>>
      BY <1>7 DEF FinDies, GoFin, SameExceptFin
  <2> QED
      BY <2>1, <2>2, <2>3, HandlerFrame
<1> QED
    BY <1>2, <1>3, <1>4, <1>5, <1>6, <1>7

\* So does cancel_pending_call.
LEMMA CancelStep ==
    ASSUME LedgerInv, NEW p \in Participants,
           \/ CancelRead(p) \/ CancelReadSession(p) \/ CancelReadSlot(p)
           \/ CancelDeleteSlot(p) \/ CancelLease(p) \/ CancelDelete(p)
           \/ CancelUnindex(p) \/ CancelDies(p)
    PROVE  TypeOK' /\ Bystander /\ CancelOfCall'
<1>1. TypeOK /\ CancelOfCall /\ Identified
    BY DEF LedgerInv
<1>2. CASE CancelRead(p)
  <2>1. ValkeyType'
      BY <1>1, <1>2, ValkeyCommands DEF ValkeyType, CancelRead
  <2>2. HandlerType' /\ RuntimeType' /\ CancelOfCall'
      BY <1>1, <1>2
      DEF TypeOK, HandlerType, RuntimeType, CancelOfCall, CancelRead, LeaseType,
          CancelPC, GoCancel, CancelOver, SameExceptCancel
  <2>3. UNCHANGED <<callVars, dbVars, req>>
      BY <1>2 DEF CancelRead, GoCancel, SameExceptCancel
  <2> QED
      BY <2>1, <2>2, <2>3, HandlerFrame
<1>3. CASE CancelReadSession(p)
  <2>1. ValkeyType'
      BY <1>1, <1>3, ValkeyCommands DEF ValkeyType, CancelReadSession
  <2>2. HandlerType' /\ RuntimeType' /\ CancelOfCall'
      BY <1>1, <1>3
      DEF TypeOK, HandlerType, RuntimeType, CancelOfCall, CancelReadSession,
          CancelPC, GoCancel, CancelOver, SameExceptCancel
  <2>3. UNCHANGED <<callVars, dbVars, req>>
      BY <1>3 DEF CancelReadSession, GoCancel, SameExceptCancel
  <2> QED
      BY <2>1, <2>2, <2>3, HandlerFrame
<1>4. CASE CancelReadSlot(p)
  <2>1. ValkeyType'
      BY <1>1, <1>4, ValkeyCommands DEF ValkeyType, CancelReadSlot
  <2>2. HandlerType' /\ RuntimeType' /\ CancelOfCall'
      BY <1>1, <1>4
      DEF TypeOK, HandlerType, RuntimeType, CancelOfCall, CancelReadSlot, CancelPC,
          GoCancel, CancelOver, SameExceptCancel
  <2>3. UNCHANGED <<callVars, dbVars, req>>
      BY <1>4 DEF CancelReadSlot, GoCancel, SameExceptCancel
  <2> QED
      BY <2>1, <2>2, <2>3, HandlerFrame
<1>5. CASE CancelDeleteSlot(p)
  <2>1. ValkeyType'
      BY <1>1, <1>5, ValkeyCommands DEF ValkeyType, CancelDeleteSlot
  <2>2. HandlerType' /\ RuntimeType' /\ CancelOfCall'
      BY <1>1, <1>5
      DEF TypeOK, HandlerType, RuntimeType, CancelOfCall, CancelDeleteSlot,
          CancelPC, GoCancel, CancelOver, SameExceptCancel
  <2>3. UNCHANGED <<callVars, dbVars, req>>
      BY <1>5 DEF CancelDeleteSlot, GoCancel, SameExceptCancel
  <2> QED
      BY <2>1, <2>2, <2>3, HandlerFrame
<1>6. CASE CancelLease(p)
  <2>1. ValkeyType'
      BY <1>1, <1>6, ValkeyCommands DEF ValkeyType, CancelLease
  <2>2. HandlerType' /\ RuntimeType' /\ CancelOfCall'
      BY <1>1, <1>6
      DEF TypeOK, HandlerType, RuntimeType, CancelOfCall, CancelLease, CancelPC,
          GoCancel, CancelOver, SameExceptCancel
  <2>3. UNCHANGED <<callVars, dbVars, req>>
      BY <1>6 DEF CancelLease, GoCancel, SameExceptCancel
  <2> QED
      BY <2>1, <2>2, <2>3, HandlerFrame
<1>7. CASE CancelDelete(p)
  <2>1. ValkeyType'
      BY <1>1, <1>7, Deadlines, ValkeyCommands
      DEF TypeOK, ValkeyType, SessionType, CancelDelete, WriteSession
  <2>2. HandlerType' /\ RuntimeType' /\ CancelOfCall'
      BY <1>1, <1>7
      DEF TypeOK, HandlerType, RuntimeType, CancelOfCall, CancelDelete, CancelPC,
          GoCancel, CancelOver, SameExceptCancel
  <2>3. UNCHANGED <<callVars, dbVars, req>>
      BY <1>7 DEF CancelDelete, GoCancel, SameExceptCancel
  <2> QED
      BY <2>1, <2>2, <2>3, HandlerFrame
<1>8. CASE CancelUnindex(p)
  <2>1. ValkeyType'
      BY <1>1, <1>8, Deadlines, ValkeyCommands
      DEF TypeOK, ValkeyType, SessionType, CancelUnindex, Unindex
  <2>2. HandlerType' /\ RuntimeType' /\ CancelOfCall'
      BY <1>1, <1>8
      DEF TypeOK, HandlerType, RuntimeType, CancelOfCall, CancelUnindex, CancelPC,
          GoCancel, CancelOver, SameExceptCancel
  <2>3. UNCHANGED <<callVars, dbVars, req>>
      BY <1>8 DEF CancelUnindex, GoCancel, SameExceptCancel
  <2> QED
      BY <2>1, <2>2, <2>3, HandlerFrame
<1>9. CASE CancelDies(p)
  <2>1. ValkeyType'
      BY <1>1, <1>9, ValkeyCommands DEF ValkeyType, CancelDies
  <2>2. HandlerType' /\ RuntimeType' /\ CancelOfCall'
      BY <1>1, <1>9
      DEF TypeOK, HandlerType, RuntimeType, CancelOfCall, CancelDies, CancelPC,
          GoCancel, CancelOver, SameExceptCancel
  <2>3. UNCHANGED <<callVars, dbVars, req>>
      BY <1>9 DEF CancelDies, GoCancel, SameExceptCancel
  <2> QED
      BY <2>1, <2>2, <2>3, HandlerFrame
<1> QED
    BY <1>2, <1>3, <1>4, <1>5, <1>6, <1>7, <1>8, <1>9

\* Leases, slots and deadlines run out, rows do not.
LEMMA TimeStep ==
    ASSUME LedgerInv, Tick \/ UNCHANGED vars
    PROVE  TypeOK' /\ Bystander /\ CancelOfCall'
<1>1. TypeOK /\ CancelOfCall
    BY DEF LedgerInv
<1>2. ValkeyType' /\ HandlerType' /\ RuntimeType' /\ CancelOfCall'
  <2>1. CASE Tick
    <3>1. LeaseType'
        BY <1>1, <2>1, Deadlines DEF TypeOK, LeaseType, Tick, Older
    <3>2. SlotType'
        BY <1>1, <2>1, Deadlines DEF TypeOK, SlotType, Tick, Older
    <3>3. SessionType'
        BY <1>1, <2>1, Deadlines DEF TypeOK, SessionType, Tick, Older, NotIndexed
    <3>4. HandlerType' /\ RuntimeType' /\ CancelOfCall'
        BY <1>1, <2>1, Deadlines
        DEF TypeOK, HandlerType, RuntimeType, CancelOfCall, Tick, Older
    <3> QED
        BY <3>1, <3>2, <3>3, <3>4 DEF ValkeyType
  <2>2. CASE UNCHANGED vars
      BY <1>1, <2>2 DEF ValkeyType, TypeOK, LeaseType, SlotType, SessionType,
                        HandlerType,
                        RuntimeType, CancelOfCall
  <2> QED
      BY <2>1, <2>2
<1>3. UNCHANGED <<callVars, dbVars, req>>
    BY DEF Tick
<1> QED
    BY <1>2, <1>3, HandlerFrame

-----------------------------------------------------------------------------
(* The invariant *)

\* Taking a slot is no different, but for the slot it writes down.
LEMMA SlotStep ==
    ASSUME LedgerInv, NEW c \in Calls, NEW s \in Slots, RequestSlot(c, s)
    PROVE  TypeOK' /\ Bystander /\ CancelOfCall'
<1>1. TypeOK /\ CancelOfCall
    BY DEF LedgerInv
<1>2. LeaseType' /\ SessionType'
    BY <1>1, ValkeyCommands DEF RequestSlot
<1>3. SlotType'
    BY <1>1, Deadlines DEF TypeOK, SlotType, RequestSlot
<1>4. RequestType' /\ RowType' /\ HandlerType' /\ RuntimeType'
    BY <1>1 DEF TypeOK, RequestType, RowType, HandlerType, RuntimeType, RequestSlot, GoReq,
                RequestPC
<1>5. Bystander
    BY <1>1 DEF TypeOK, RequestType, Bystander, RequestSlot, GoReq, InTxn, Early
<1>6. CancelOfCall'
    BY <1>1 DEF CancelOfCall, RequestSlot
<1> QED
    BY <1>2, <1>3, <1>4, <1>5, <1>6 DEF TypeOK

Closers == {"completed", "interrupted"}

\* A step that closes none of the attempts of p.
Kept(p) ==
    \A d \in Calls : \/ attempt[d] \notin Closers /\ attempt'[d] \notin Closers
                     \/ owner[d] # p /\ owner'[d] # p
                     \/ /\ owner'[d] = owner[d] /\ mode'[d] = mode[d]
                        /\ stage'[d] = stage[d] /\ attempt'[d] = attempt[d]

\* The stages of a plan are as open as its completed and void attempts say.
LEMMA StagesKept ==
    ASSUME NEW p, Kept(p)
    PROVE  \A s : NextStage(p, s)' <=> NextStage(p, s)
<1> DEFINE At(s, status) == {d \in Metered(p) : stage[d] = s /\ attempt[d] = status}
<1>1. ASSUME NEW s, NEW status \in Closers PROVE At(s, status)' = At(s, status)
    BY <1>1 DEF Kept, Metered, Closers
<1>2. ASSUME NEW s PROVE StageClosed(attempt, p, s)' <=> StageClosed(attempt, p, s)
  <2>1. StageDone(attempt, p, s) <=> At(s, "completed") # {}
      BY DEF StageDone
  <2>2. StageDone(attempt, p, s)' <=> At(s, "completed")' # {}
      BY DEF StageDone
  <2>3. Interruptions(attempt, p, s)' = Interruptions(attempt, p, s)
      BY <1>1 DEF Interruptions, Closers
  <2>4. At(s, "completed")' = At(s, "completed")
      BY <1>1 DEF Closers
  <2> HIDE DEF At
  <2> QED
      BY <2>1, <2>2, <2>3, <2>4 DEF StageClosed
<1> QED
    BY <1>2 DEF NextStage

\* What a bystander does, no admission and no attempt notices.
LEMMA BystanderSafe ==
    ASSUME LedgerInv, TypeOK', Bystander, CancelOfCall'
    PROVE  LedgerInv' /\ UNCHANGED Ledger!vars
<1>1. \A d \in Calls : Admitting(d)' => Admitting(d)
    BY DEF Bystander, Admitting
<1>2. AdmissionStands'
  <2>1. \A p, s : NextStage(p, s)' <=> NextStage(p, s)
      BY StagesKept DEF Bystander, Kept
  <2> QED
      BY <1>1, <2>1 DEF LedgerInv, AdmissionStands, Bystander
<1>3. OneAdmission'
    BY <1>1 DEF LedgerInv, OneAdmission, Bystander
<1>4. Identified'
    BY DEF LedgerInv, Identified, Bystander
<1>5. AttemptAfterCommit'
    BY DEF LedgerInv, AttemptAfterCommit, Bystander, Early
<1>6. UNCHANGED Ledger!vars
    BY DEF Bystander, Ledger!vars
<1> QED
    BY <1>2, <1>3, <1>4, <1>5, <1>6 DEF LedgerInv

\* POST /calls names the participant, the kind and the stage of a call.
LEMMA LeaseStep ==
    ASSUME LedgerInv, NEW c \in Calls, NEW p \in Participants, NEW m \in Modes,
           NEW s \in Stages \cup {0}, RequestLease(c, p, m, s)
    PROVE  LedgerInv' /\ UNCHANGED Ledger!vars
<1> USE DEF LedgerInv
<1>1. TypeOK'
  <2>1. ValkeyType'
      BY ValkeyCommands DEF RequestLease, ValkeyType
  <2>2. m \in {"attempt", "test"}
      BY SwitchesAssumption
  <2>3. RequestType'
      BY <2>2 DEF TypeOK, RequestType, RequestLease, GoReq, RequestPC
  <2>4. RowType' /\ HandlerType' /\ RuntimeType'
      BY DEF TypeOK, RowType, HandlerType, RuntimeType, RequestLease
  <2> QED
      BY <2>1, <2>3, <2>4 DEF TypeOK, ValkeyType
<1>2. attempt[c] = "none"
    BY DEF RequestLease, GoReq, AttemptAfterCommit
<1>3. \A d \in Calls : Admitting(d)' => Admitting(d) /\ d # c
    BY DEF TypeOK, RequestType, RequestLease, GoReq, Admitting, InTxn
<1>4. \A d \in Calls : d # c => /\ owner'[d] = owner[d] /\ mode'[d] = mode[d]
                                /\ stage'[d] = stage[d] /\ req'[d] = req[d]
    BY DEF TypeOK, RequestType, RequestLease, GoReq
<1>5. AdmissionStands'
  <2>1. \A q, r : NextStage(q, r)' <=> NextStage(q, r)
      BY <1>2, <1>4, StagesKept DEF RequestLease, Kept, Closers
  <2> QED
      BY <1>3, <1>4, <2>1 DEF AdmissionStands, RequestLease
<1>6. OneAdmission'
    BY <1>3, <1>4 DEF OneAdmission
<1>7. Identified'
  <2>1. owner'[c] = p /\ stage'[c] = s
      BY DEF TypeOK, RequestType, RequestLease
  <2>2. (p \in Candidates => s \in Stages) /\ (p \in Reps => s = 0)
      BY ParticipantsAssumption DEF RequestLease
  <2> QED
      BY <1>4, <2>1, <2>2 DEF Identified
<1>8. AttemptAfterCommit'
    BY <1>2, <1>4 DEF AttemptAfterCommit, RequestLease
<1>9. CancelOfCall'
    BY DEF CancelOfCall, RequestLease
<1>10. UNCHANGED Ledger!vars
    BY <1>2, <1>4 DEF RequestLease, Ledger!vars
<1> QED
    BY <1>1, <1>5, <1>6, <1>7, <1>8, <1>9, <1>10

\* T-1 takes the subject's lock and finds room for the attempt.
LEMMA AdmitStep ==
    ASSUME LedgerInv, NEW c \in Calls, RequestAdmit(c)
    PROVE  LedgerInv' /\ UNCHANGED Ledger!vars
<1> USE DEF LedgerInv
<1>1. TypeOK'
  <2>1. ValkeyType'
      BY ValkeyCommands DEF RequestAdmit, ValkeyType
  <2>2. RequestType'
      BY DEF TypeOK, RequestType, RequestAdmit, GoReq, RequestPC, InTxn
  <2>3. RowType'
      BY DEF TypeOK, RowType, RequestAdmit
  <2>4. HandlerType' /\ RuntimeType'
      BY DEF TypeOK, HandlerType, RuntimeType, RequestAdmit
  <2> QED
      BY <2>1, <2>2, <2>3, <2>4 DEF TypeOK, ValkeyType
<1>2. \A d \in Calls : Admitting(d)' => Admitting(d) \/ d = c
    BY DEF TypeOK, RequestType, RequestAdmit, GoReq, Admitting
<1>3. UNCHANGED <<owner, mode, stage, attempt, used, closed>>
    BY DEF RequestAdmit
<1>4. /\ owner[c] \in Participants
      /\ mode[c] = "attempt" => ~SubjectLocked(owner[c])
    BY DEF Identified, RequestAdmit, GoReq
<1>5. AdmissionStands'
  <2>1. \A p, s : NextStage(p, s)' <=> NextStage(p, s)
      BY <1>3, StagesKept DEF Kept
  <2>2. mode[c] = "attempt" =>
          /\ owner[c] \in Reps => used[owner[c]] < Allowed
          /\ owner[c] \in Candidates => ~closed[owner[c]] /\ NextStage(owner[c], stage[c])
      BY DEF RequestAdmit
  <2> QED
      BY <1>2, <1>3, <2>1, <2>2 DEF AdmissionStands, Admitting
<1>6. OneAdmission'
    BY <1>2, <1>3, <1>4 DEF OneAdmission, Admitting, SubjectLocked
<1>7. Identified'
    BY <1>3 DEF TypeOK, RequestType, Identified, RequestAdmit, GoReq
<1>8. AttemptAfterCommit'
    BY <1>3 DEF TypeOK, RequestType, AttemptAfterCommit, RequestAdmit, GoReq, InTxn
<1>9. CancelOfCall'
    BY DEF CancelOfCall, RequestAdmit
<1>10. UNCHANGED Ledger!vars
    BY DEF RequestAdmit, Ledger!vars
<1> QED
    BY <1>1, <1>5, <1>6, <1>7, <1>8, <1>9, <1>10

-----------------------------------------------------------------------------
(* The transactions *)

\* The instance counts as this module does.
LEMMA SameCardinality == ASSUME NEW S PROVE Ledger!Cardinality(S) = Cardinality(S)
BY DEF Cardinality, Ledger!Cardinality

\* The ledger sees the same stages closed as the code's query counts.
LEMMA LedgerStages ==
    ASSUME LedgerInv, NEW att, \A d \in Calls : att[d] \in Closers => attempt[d] # "none",
           NEW p \in Candidates
    PROVE  /\ \A s \in Stages : Ledger!StageClosed(att, p, s) <=> StageClosed(att, p, s)
           /\ Ledger!PlanClosed(att, p) <=> PlanClosed(att, p)
<1>1. ASSUME NEW s \in Stages, NEW status \in Closers
      PROVE  Ledger!Having(att, p, s, status)
               = {d \in Metered(p) : stage[d] = s /\ att[d] = status}
    BY <1>1, ParticipantsAssumption
    DEF LedgerInv, AttemptAfterCommit, Ledger!Having, Metered
<1>2. ASSUME NEW s \in Stages
      PROVE  Ledger!StageClosed(att, p, s) <=> StageClosed(att, p, s)
  <2>1. Ledger!Having(att, p, s, "completed") # {} <=> StageDone(att, p, s)
      BY <1>1 DEF StageDone, Closers
  <2>2. Ledger!Cardinality(Ledger!Having(att, p, s, "interrupted"))
          = Interruptions(att, p, s)
      BY <1>1, SameCardinality DEF Interruptions, Closers
  <2> QED
      BY <2>1, <2>2 DEF StageClosed, Ledger!StageClosed
<1>3. Ledger!PlanClosed(att, p) <=> PlanClosed(att, p)
    BY <1>2 DEF PlanClosed, Ledger!PlanClosed, Stages, Ledger!Stages
<1> QED
    BY <1>2, <1>3

\* The commit of T-1, whether or not its caller hears of it.
LEMMA CommitStep ==
    ASSUME LedgerInv, NEW c \in Calls, RequestCommit(c) \/ RequestCommitUnseen(c)
    PROVE  LedgerInv' /\ [Ledger!Next]_(Ledger!vars)
<1> USE DEF LedgerInv
<1>1. PICK to \in {"granted", "undo"} :
          /\ GoReq(c, "renewed", to) /\ Commits(c)
          /\ UNCHANGED <<valkeyVars, callVars, bundle, finVars, cancelVars, runtimeVars>>
    BY DEF RequestCommit, RequestCommitUnseen
<1>2. /\ owner[c] \in Participants /\ attempt[c] = "none"
      /\ owner[c] \in Reps => stage[c] = 0
      /\ owner[c] \in Candidates => stage[c] \in Stages
    BY <1>1 DEF Identified, AttemptAfterCommit, GoReq, InTxn
<1>3. mode[c] = "attempt" =>
          /\ owner[c] \in Reps => used[owner[c]] < Allowed
          /\ owner[c] \in Candidates => ~closed[owner[c]] /\ NextStage(owner[c], stage[c])
    BY <1>1, <1>2 DEF AdmissionStands, Admitting, GoReq, InTxn
<1>4. /\ \A d \in Calls : d # c => attempt'[d] = attempt[d] /\ req'[d] = req[d]
      /\ attempt'[c] \in {"none", "in_progress"}
      /\ req'[c] = to
    BY <1>1, <1>2 DEF TypeOK, RequestType, RowType, GoReq, Commits, CommitAdmission
<1>5. TypeOK'
  <2>1. ValkeyType'
      BY <1>1, ValkeyCommands DEF ValkeyType
  <2>2. RequestType'
      BY <1>1 DEF TypeOK, RequestType, GoReq, RequestPC, Undoing
  <2>3. RowType'
    <3>1. CASE mode[c] = "attempt" /\ owner[c] \in Reps
        BY <1>1, <1>3, <3>1, LimitsAssumption DEF TypeOK, RowType, Commits, CommitAdmission
    <3>2. CASE ~(mode[c] = "attempt" /\ owner[c] \in Reps)
        BY <1>1, <3>2 DEF TypeOK, RowType, Commits, CommitAdmission
    <3> QED
        BY <3>1, <3>2
  <2>4. HandlerType' /\ RuntimeType'
      BY <1>1 DEF TypeOK, HandlerType, RuntimeType
  <2> QED
      BY <2>1, <2>2, <2>3, <2>4 DEF TypeOK, ValkeyType
<1>6. \A d \in Calls : Admitting(d)' => Admitting(d) /\ d # c
    BY <1>1, <1>4 DEF Admitting, InTxn
<1>7. AdmissionStands'
  <2>1. \A p, s : NextStage(p, s)' <=> NextStage(p, s)
      BY <1>1, <1>2, <1>4, StagesKept DEF Kept, Closers
  <2>2. closed' = closed
      BY <1>1 DEF Commits, CommitAdmission
  <2>3. ASSUME NEW d \in Calls, Admitting(d)', NEW p \in Reps, owner[d] = p
        PROVE  used'[p] = used[p]
    <3>1. mode[c] = "attempt" => owner[c] # p
        BY <1>1, <1>6, <2>3 DEF OneAdmission, Admitting, GoReq, InTxn
    <3> QED
        BY <1>1, <3>1 DEF TypeOK, RowType, Commits, CommitAdmission
  <2> QED
      BY <1>1, <1>6, <2>1, <2>2, <2>3 DEF AdmissionStands
<1>8. OneAdmission'
    BY <1>1, <1>6 DEF OneAdmission
<1>9. Identified'
    BY <1>1, <1>4 DEF Identified, GoReq
<1>10. AttemptAfterCommit'
  <2>1. attempt'[c] # "none" => mode[c] = "attempt"
      BY <1>1, <1>2 DEF Commits
  <2> QED
      BY <1>1, <1>4, <2>1 DEF AttemptAfterCommit, InTxn
<1>11. CancelOfCall'
    BY <1>1 DEF CancelOfCall
<1>12. [Ledger!Next]_(Ledger!vars)
  <2>1. ASSUME NEW p \in Reps, owner[c] = p, mode[c] = "attempt"
        PROVE  Ledger!Next
    <3>1. Ledger!AdmitRep(c, p)
        BY <1>1, <1>2, <1>3, <2>1
        DEF TypeOK, RequestType, RowType, Commits, CommitAdmission, Ledger!AdmitRep
    <3> QED
        BY <3>1 DEF Ledger!Next
  <2>2. ASSUME NEW p \in Candidates, NEW s \in Stages, owner[c] = p, stage[c] = s,
               mode[c] = "attempt"
        PROVE  Ledger!Next
    <3>1. \A d \in Calls : attempt[d] \in Closers => attempt[d] # "none"
        BY DEF Closers
    <3>2. \A r \in Stages : Ledger!StageClosed(attempt, p, r)
                              <=> StageClosed(attempt, p, r)
        BY <3>1, LedgerStages
    <3>3. \A r \in 1 .. s - 1 : r \in Stages
        BY LimitsAssumption DEF Stages
    <3>4. ~closed[p] /\ NextStage(p, s)
        BY <1>3, <2>2
    <3>5. Ledger!AdmitCandidate(c, p, s)
        BY <1>1, <1>2, <2>2, <3>2, <3>3, <3>4, ParticipantsAssumption
        DEF TypeOK, RequestType, RowType, NextStage, Commits, CommitAdmission,
            Ledger!AdmitCandidate
    <3> QED
        BY <3>5 DEF Ledger!Next, Stages, Ledger!Stages
  <2>3. CASE mode[c] # "attempt"
      BY <1>1, <2>3 DEF Commits, Ledger!vars
  <2> QED
      BY <1>2, <2>1, <2>2, <2>3 DEF Participants
<1> QED
    BY <1>5, <1>7, <1>8, <1>9, <1>10, <1>11, <1>12

\* T-2 and T-6: each end of an attempt, and what it may not do under the
\* eyes of an admission.
EndOf(c, end) ==
    LET p == owner[c] IN
    /\ attempt[c] = "in_progress"
    /\ p \in Reps \/ end # "deleted" => ~SubjectLocked(p)
    /\ attempt' = [attempt EXCEPT ![c] = end]
    /\ gradeJobs' = [gradeJobs EXCEPT ![c] = IF end = "completed" THEN @ + 1 ELSE @]
    /\ IF p \in Reps /\ end # "completed"
       THEN used' = [used EXCEPT ![p] = Reversed(@)]
       ELSE UNCHANGED used
    /\ IF end # "deleted"
       THEN Advance(p, [attempt EXCEPT ![c] = end])
       ELSE UNCHANGED <<closed, reportJobs>>
    /\ UNCHANGED <<grant, grantOf, restart>>

\* Both transactions have this form, or find nothing left to do.
LEMMA EndForm ==
    ASSUME TypeOK, NEW c \in Calls, NEW d \in Dispositions, NEW closes \in BOOLEAN,
           Interrupt(c, d, closes) \/ Complete(c), closes \/ d = "never"
    PROVE  UNCHANGED dbVars \/ \E end \in Ledger!Ends : EndOf(c, end)
<1>1. CASE attempt[c] # "in_progress"
    BY <1>1 DEF Interrupt, Complete
<1>2. CASE attempt[c] = "in_progress" /\ Complete(c)
    BY <1>2 DEF TypeOK, RowType, Complete, EndOf, Ledger!Ends
<1>3. CASE attempt[c] = "in_progress" /\ Interrupt(c, d, closes)
  <2>1. [gradeJobs EXCEPT ![c] = gradeJobs[c]] = gradeJobs
      BY DEF TypeOK, RowType
  <2>2. CASE d = "never"
    <3>1. EndOf(c, "deleted")
        BY <1>3, <2>1, <2>2 DEF Interrupt, EndOf
    <3> QED
        BY <3>1 DEF Ledger!Ends
  <2>3. CASE d # "never"
    <3>1. EndOf(c, "interrupted")
        BY <1>3, <2>1, <2>3 DEF Interrupt, EndOf
    <3> QED
        BY <3>1 DEF Ledger!Ends
  <2> QED
      BY <2>2, <2>3
<1> QED
    BY <1>1, <1>2, <1>3

\* The plan is stamped and reported once more at most.
LEMMA AdvanceType ==
    ASSUME RowType, NEW p, NEW att, Advance(p, att)
    PROVE  /\ closed' \in [Candidates -> BOOLEAN] /\ reportJobs' \in [Candidates -> Nat]
           /\ \A q \in Candidates : q # p => closed'[q] = closed[q]
<1>1. CASE UNCHANGED <<closed, reportJobs>>
    BY <1>1 DEF RowType
<1>2. CASE /\ p \in Candidates
           /\ closed' = [closed EXCEPT ![p] = TRUE]
           /\ reportJobs' = [reportJobs EXCEPT ![p] = @ + 1]
  <2>1. /\ closed' \in [Candidates -> BOOLEAN]
        /\ \A q \in Candidates : q # p => closed'[q] = closed[q]
      BY <1>2, Zenon DEF RowType
  <2>2. reportJobs' \in [Candidates -> Nat]
      BY <1>2 DEF RowType
  <2> QED
      BY <2>1, <2>2
<1> QED
    BY <1>1, <1>2 DEF Advance

\* An end of an attempt, by T-2 or T-6, is an End of the ledger and leaves the
\* open admissions of other calls what they have checked.
LEMMA EndStep ==
    ASSUME LedgerInv, NEW c \in Calls, NEW end \in Ledger!Ends, EndOf(c, end),
           UNCHANGED <<callVars, req>>, ValkeyType', HandlerType', RuntimeType',
           CancelOfCall'
    PROVE  LedgerInv' /\ [Ledger!Next]_(Ledger!vars)
<1> USE DEF LedgerInv
<1>1. PICK p : p = owner[c]
    OBVIOUS
<1>2. PICK att : att = [attempt EXCEPT ![c] = end]
    OBVIOUS
<1>3. /\ p \in Participants /\ mode[c] = "attempt" /\ attempt[c] = "in_progress"
      /\ attempt' = att /\ end \notin {"none", "in_progress"}
      /\ att[c] = end /\ \A d \in Calls : d # c => att[d] = attempt[d]
    BY <1>1, <1>2 DEF TypeOK, RowType, EndOf, AttemptAfterCommit, Identified, Ledger!Ends
<1>4. TypeOK'
  <2>1. closed' \in [Candidates -> BOOLEAN] /\ reportJobs' \in [Candidates -> Nat]
      BY AdvanceType DEF TypeOK, RowType, EndOf
  <2>2. used' \in [Reps -> 0 .. Allowed]
      BY LimitsAssumption DEF TypeOK, RowType, EndOf, Reversed
  <2>3. RowType'
      BY <2>1, <2>2 DEF TypeOK, RowType, EndOf, Ledger!Ends
  <2>4. RequestType'
      BY DEF TypeOK, RequestType
  <2> QED
      BY <2>3, <2>4 DEF TypeOK, ValkeyType
<1>5. AdmissionStands'
  <2>1. ASSUME NEW q, SubjectLocked(q)
        PROVE  /\ \A s : NextStage(q, s)' <=> NextStage(q, s)
               /\ q \in Reps => used'[q] = used[q]
               /\ q \in Candidates => closed'[q] = closed[q]
    <3>1. Kept(q)
        BY <1>1, <1>3, <2>1 DEF EndOf, Kept, Closers, Ledger!Ends
    <3>2. q \in Reps => used'[q] = used[q]
        BY <1>1, <2>1 DEF TypeOK, RowType, EndOf
    <3>3. q \in Candidates => closed'[q] = closed[q]
      <4>1. CASE end = "deleted"
          BY <4>1 DEF EndOf
      <4>2. CASE end # "deleted"
        <5>1. q # p
            BY <1>1, <2>1, <4>2 DEF EndOf
        <5>2. Advance(p, att)
            BY <1>1, <1>2, <4>2 DEF EndOf
        <5> QED
            BY <5>1, <5>2, AdvanceType DEF TypeOK
      <4> QED
          BY <4>1, <4>2
    <3> QED
        BY <3>1, <3>2, <3>3, StagesKept
  <2>2. \A d \in Calls : Admitting(d)' => Admitting(d) /\ SubjectLocked(owner[d])
      BY DEF Admitting, SubjectLocked
  <2> QED
      BY <2>1, <2>2 DEF AdmissionStands
<1>6. OneAdmission'
    BY DEF OneAdmission, Admitting
<1>7. Identified'
    BY DEF Identified
<1>8. AttemptAfterCommit'
    BY <1>3 DEF AttemptAfterCommit
<1>9. Ledger!End(c, end)
  <2> DEFINE who == [d \in Calls |-> IF attempt[d] = "none" THEN NoOne ELSE owner[d]]
             at == [d \in Calls |-> IF attempt[d] = "none" THEN 0 ELSE stage[d]]
  <2>1. who[c] = p /\ who' = who /\ at' = at
      BY <1>1, <1>3
  <2>2. /\ attempt' = [attempt EXCEPT ![c] = end]
        /\ gradeJobs' = [gradeJobs EXCEPT ![c] = IF end = "completed" THEN @ + 1 ELSE @]
        /\ UNCHANGED <<grant, grantOf>>
      BY DEF EndOf
  <2>3. Ledger!Refund(c, end)
    <3>1. CASE p \in Reps /\ end # "completed"
      <4>1. used' = [used EXCEPT ![p] = Reversed(@)] /\ used[p] \in Nat
          BY <1>1, <3>1 DEF EndOf, TypeOK, RowType
      <4>2. CASE used[p] > 0
          BY <2>1, <3>1, <4>1, <4>2 DEF Reversed, Ledger!Refund
      <4>3. CASE ~(used[p] > 0)
        <5>1. used' = used
            BY <4>1, <4>3 DEF Reversed, TypeOK, RowType
        <5> QED
            BY <2>1, <4>3, <5>1 DEF Ledger!Refund
      <4> QED
          BY <4>2, <4>3
    <3>2. CASE ~(p \in Reps /\ end # "completed")
        BY <1>1, <2>1, <3>2 DEF EndOf, Ledger!Refund
    <3> QED
        BY <3>1, <3>2
  <2>4. Ledger!ClosePlan(c, end, att)
    <3>1. p \in Candidates => (Ledger!PlanClosed(att, p) <=> PlanClosed(att, p))
        BY <1>3, LedgerStages DEF Closers
    <3>2. CASE end = "deleted"
        BY <3>2 DEF EndOf, Ledger!ClosePlan
    <3>3. CASE end # "deleted"
      <4>1. Advance(p, att)
          BY <1>1, <1>2, <3>3 DEF EndOf
      <4> QED
          BY <2>1, <3>1, <3>3, <4>1 DEF Advance, Ledger!ClosePlan
    <3> QED
        BY <3>2, <3>3
  <2>5. Ledger!ClosePlan(c, end, attempt')
      BY <1>3, <2>4 DEF Ledger!ClosePlan
  <2> QED
      BY <1>3, <2>1, <2>2, <2>3, <2>5 DEF Ledger!End
<1>10. Ledger!Next
    BY <1>9 DEF Ledger!Next
<1> QED
    BY <1>4, <1>5, <1>6, <1>7, <1>8, <1>10

\* The transaction of the callback, of the sweeper and of the webhook.
LEMMA FinTransactionStep ==
    ASSUME LedgerInv, NEW f \in Finishers, NEW c \in Calls, FinTransaction(f, c)
    PROVE  LedgerInv' /\ [Ledger!Next]_(Ledger!vars)
<1>1. TypeOK /\ CancelOfCall
    BY DEF LedgerInv
<1>2. ValkeyType'
    BY <1>1, ValkeyCommands DEF FinTransaction, ValkeyType
<1>3. HandlerType' /\ RuntimeType' /\ CancelOfCall'
    BY <1>1 DEF TypeOK, HandlerType, RuntimeType, CancelOfCall, FinTransaction, GoFin,
                AfterTxn, Decided, FinishPC, Dispositions, SameExceptFin
<1>4. UNCHANGED <<callVars, req>>
    BY DEF FinTransaction, SameExceptFin
<1>5. doing[f][c] \in Dispositions
    BY <1>1 DEF TypeOK, HandlerType
<1>6. PICK d \in Dispositions : d = doing[f][c]
    BY <1>5
<1>7. Complete(c) \/ Interrupt(c, d, TRUE)
    BY <1>6 DEF FinTransaction
<1>8. UNCHANGED dbVars \/ \E end \in Ledger!Ends : EndOf(c, end)
    BY <1>1, <1>7, EndForm
<1>9. CASE UNCHANGED dbVars
    BY <1>2, <1>3, <1>4, <1>9, HandlerFrame, BystanderSafe
<1>10. CASE \E end \in Ledger!Ends : EndOf(c, end)
    BY <1>2, <1>3, <1>4, <1>10, EndStep
<1> QED
    BY <1>8, <1>9, <1>10

\* The transaction of DELETE /calls/current.
LEMMA CancelTransactionStep ==
    ASSUME LedgerInv, NEW p \in Participants, CancelTransaction(p)
    PROVE  LedgerInv' /\ [Ledger!Next]_(Ledger!vars)
<1>1. TypeOK /\ CancelOfCall
    BY DEF LedgerInv
<1>2. ValkeyType'
    BY <1>1, ValkeyCommands DEF CancelTransaction, ValkeyType, SameExceptCancel
<1>3. HandlerType' /\ RuntimeType' /\ CancelOfCall'
    BY <1>1 DEF TypeOK, HandlerType, RuntimeType, CancelOfCall, CancelTransaction,
                GoCancel, CancelPC, SameExceptCancel
<1>4. UNCHANGED <<callVars, req>>
    BY DEF CancelTransaction, SameExceptCancel
<1>5. PICK c \in Calls : c = cancelling[p]
    BY <1>1 DEF CancelOfCall, CancelTransaction, GoCancel
<1>6. Interrupt(c, "never", FALSE)
    BY <1>5 DEF CancelTransaction
<1>7. UNCHANGED dbVars \/ \E end \in Ledger!Ends : EndOf(c, end)
    BY <1>1, <1>6, EndForm DEF Dispositions
<1>8. CASE UNCHANGED dbVars
    BY <1>2, <1>3, <1>4, <1>8, HandlerFrame, BystanderSafe
<1>9. CASE \E end \in Ledger!Ends : EndOf(c, end)
    BY <1>2, <1>3, <1>4, <1>9, EndStep
<1> QED
    BY <1>7, <1>8, <1>9

\* A fresh recipient row waits for the admission that holds the old one.
LEMMA ReassignStep ==
    ASSUME LedgerInv, NEW p \in Reps, Reassign(p)
    PROVE  LedgerInv' /\ [Ledger!Next]_(Ledger!vars)
<1> USE DEF LedgerInv
<1>1. TypeOK'
  <2>1. ValkeyType'
      BY ValkeyCommands DEF Reassign, ValkeyType
  <2>2. RequestType' /\ HandlerType' /\ RuntimeType'
      BY DEF TypeOK, RequestType, HandlerType, RuntimeType, Reassign
  <2>3. RowType'
      BY LimitsAssumption DEF TypeOK, RowType, Reassign
  <2> QED
      BY <2>1, <2>2, <2>3 DEF TypeOK, ValkeyType
<1>2. AdmissionStands'
  <2>1. \A q, s : NextStage(q, s)' <=> NextStage(q, s)
      BY StagesKept DEF Reassign, Kept
  <2>2. \A c \in Calls : Admitting(c)' => Admitting(c) /\ owner[c] # p
      BY DEF Reassign, Admitting, SubjectLocked
  <2>3. \A q \in Reps : q # p => used'[q] = used[q]
      BY DEF TypeOK, RowType, Reassign
  <2> QED
      BY <2>1, <2>2, <2>3 DEF AdmissionStands, Reassign
<1>3. OneAdmission' /\ Identified' /\ AttemptAfterCommit' /\ CancelOfCall'
    BY DEF OneAdmission, Admitting, Identified, AttemptAfterCommit, CancelOfCall, Reassign
<1>4. Ledger!Reassign(p)
    BY DEF Reassign, Ledger!Reassign
<1> QED
    BY <1>1, <1>2, <1>3, <1>4 DEF Ledger!Next

-----------------------------------------------------------------------------
(* The theorems *)

\* At first there is no call: nothing is admitted, charged or ended.
LEMMA InitSafe == Init => LedgerInv /\ Ledger!Init
<1> SUFFICES ASSUME Init PROVE LedgerInv /\ Ledger!Init
    OBVIOUS
<1>1. LeaseType /\ SlotType /\ SessionType
    BY Deadlines DEF Init, LeaseType, SlotType, SessionType, NotIndexed
<1>2. RequestType /\ RowType
    BY LimitsAssumption DEF Init, RequestType, RowType, RequestPC
<1>3. HandlerType /\ RuntimeType
    BY Deadlines DEF Init, HandlerType, RuntimeType, BundlePC, FinishPC, CancelPC,
                     Dispositions
<1>4. AdmissionStands /\ OneAdmission /\ Identified /\ AttemptAfterCommit /\ CancelOfCall
    BY DEF Init, AdmissionStands, OneAdmission, Admitting, InTxn, Identified,
           AttemptAfterCommit, CancelOfCall
<1>5. Ledger!Init
    BY DEF Init, Ledger!Init
<1> QED
    BY <1>1, <1>2, <1>3, <1>4, <1>5 DEF LedgerInv, TypeOK

\* Every step of every handler keeps the invariant, and is a transaction of the
\* ledger or none of its business.
LEMMA Step == LedgerInv /\ [Next]_vars => LedgerInv' /\ [Ledger!Next]_(Ledger!vars)
<1> SUFFICES ASSUME LedgerInv, [Next]_vars
             PROVE  LedgerInv' /\ [Ledger!Next]_(Ledger!vars)
    OBVIOUS
<1>1. ASSUME NEW c \in Calls, Request(c)
      PROVE  LedgerInv' /\ [Ledger!Next]_(Ledger!vars)
    BY <1>1, RequestStep, SlotStep, BystanderSafe, LeaseStep, AdmitStep, CommitStep
    DEF Request
<1>2. ASSUME NEW c \in Calls, Bundle(c) \/ Runtime(c)
      PROVE  LedgerInv' /\ [Ledger!Next]_(Ledger!vars)
    BY <1>2, BundleStep, BystanderSafe
<1>3. ASSUME NEW c \in Calls, Callback(c) \/ Sweep(c) \/ Webhook(c)
      PROVE  LedgerInv' /\ [Ledger!Next]_(Ledger!vars)
  <2>1. ASSUME NEW f \in Finishers, Finish(f, c)
        PROVE  LedgerInv' /\ [Ledger!Next]_(Ledger!vars)
      BY <2>1, FinishStep, FinTransactionStep, BystanderSafe DEF Finish
  <2> QED
      BY <1>3, <2>1, ReadStep, BystanderSafe DEF Callback, Sweep, Webhook, Finishers
<1>4. ASSUME NEW p \in Participants, Cancel(p)
      PROVE  LedgerInv' /\ [Ledger!Next]_(Ledger!vars)
    BY <1>4, CancelStep, CancelTransactionStep, BystanderSafe DEF Cancel
<1>5. ASSUME NEW p \in Reps, Reassign(p)
      PROVE  LedgerInv' /\ [Ledger!Next]_(Ledger!vars)
    BY <1>5, ReassignStep
<1>6. CASE Tick \/ UNCHANGED vars
    BY <1>6, TimeStep, BystanderSafe
<1> QED
    BY <1>1, <1>2, <1>3, <1>4, <1>5, <1>6, Zenon DEF Next

\* The inductive invariant.
THEOREM Invariant == Spec => []LedgerInv
BY InitSafe, Step, PTL DEF Spec

\* The call plane is well typed; T-1 never charges beyond the allowance.
THEOREM CallPlaneType == Spec => []TypeOK
<1>1. LedgerInv => TypeOK
    BY DEF LedgerInv
<1> QED
    BY <1>1, Invariant, PTL

\* What an admission checked holds until it commits.
THEOREM AdmissionHolds == Spec => []AdmissionStands
<1>1. LedgerInv => AdmissionStands
    BY DEF LedgerInv
<1> QED
    BY <1>1, Invariant, PTL

\* Each end of an attempt is one transaction of the ledger, whatever handlers,
\* clocks and crashes do to leases, slots and sessions.
THEOREM LedgerImplemented == Spec => ImplementsLedger
BY InitSafe, Step, Invariant, PTL DEF Spec, ImplementsLedger, Ledger!Spec

-----------------------------------------------------------------------------
(* Calls in time *)

(* What the theorems assume of time and of clients: the switches of the runs  *)
(* calls and crashes, a lease that outlives every deadline of its call (960 s *)
(* against 930 s; at 930 s, which config.py allows too, it may end with it),  *)
(* and a slot that outlives the longest way from its SET NX to that deadline  *)
(* (7200 s against 60 s and 930 s).                                           *)
Handlers == {"request", "bundle", "cancel", "callback", "webhook", "sweeper"}
InTimeAssumption ==
    /\ OrderlyClients /\ Handlers \subseteq Prompt /\ "cancel" \notin CrashSites
    /\ RecoverSecs < LeaseSecs
    /\ JoinSecs + RecoverSecs <= SlotSecs

\* What a call has of its lease, of its slot and of the cancel that undoes it.
Lease(c) == IF owner[c] \in Participants /\ leaseOf[owner[c]] = c
            THEN leaseLeft[owner[c]] ELSE 0
Slot(c) == IF OwnsSlot(c) THEN slotLeft[slotOf[c]] ELSE 0
CancelOf(c) == IF owner[c] \in Participants /\ cancelling[owner[c]] = c
               THEN cancel[owner[c]] ELSE "idle"

\* A key belongs to a call of the participant, or to the call that has the slot.
KeysOwned ==
    /\ \A p \in Participants : leaseOf[p] # NoCall =>
          leaseLeft[p] > 0 /\ owner[leaseOf[p]] = p /\ req[leaseOf[p]] # "idle"
    /\ \A s \in Slots : slotOwner[s] # NoCall =>
          slotLeft[s] > 0 /\ slotOf[slotOwner[s]] = s
    /\ \A c \in Calls : req[c] \in {"idle", "leased"} => slotOf[c] = NoSlot
CancelOwned ==
    \A p \in Participants : cancel[p] # "idle" =>
        owner[cancelling[p]] = p /\ req[cancelling[p]] = "granted"

\* A request has its call for itself, and all of it happens at one instant.
RequestLocal(c) ==
    /\ req[c] # "granted" =>
          /\ bundle[c] = "idle" /\ runtime[c] = "idle" /\ CancelOf(c) = "idle"
          /\ fin["callback"][c] = "idle" /\ fin["webhook"][c] = "idle"
    /\ req[c] \in {"idle", "leased", "slotted", "admitted", "put", "undoSlot",
                   "undoSlotDel", "undoLease", "refused"} => recoverIn[c] = NotIndexed
    /\ req[c] \in {"undo", "undoIndex"} => recoverIn[c] \in {NotIndexed, JoinSecs}
    /\ req[c] \in {"indexed", "renewing", "renewed"} => recoverIn[c] = JoinSecs
    /\ req[c] \in InTxn \ {"admitted"} => session[c] = "PENDING"
    /\ req[c] \in (Undoing \ {"undo"}) \cup {"refused"} => session[c] = "none"
    /\ Requesting(c) => Lease(c) = LeaseSecs
    /\ req[c] \in {"slotted"} \cup InTxn => Slot(c) = SlotSecs
    /\ req[c] = "undoSlotDel" => Slot(c) > 0

\* So has a fetch of the bundle.
BundleLocal(c) ==
    bundle[c] # "idle" =>
        /\ runtime[c] = "idle" /\ recoverIn[c] > 0 /\ CancelOf(c) = "idle"
        /\ session[c] = IF bundle[c] \in {"set", "indexed"} THEN "ESTABLISHED" ELSE "PENDING"
        /\ bundle[c] \in {"leased", "set"} => Lease(c) = LeaseSecs
        /\ bundle[c] = "indexed" => recoverIn[c] = RecoverSecs

\* The deadline is behind the conversation, and behind the verdict's delivery.
RuntimeLocal(c) ==
    /\ runtime[c] # "idle" =>
          /\ bundle[c] = "idle" /\ CancelOf(c) = "idle"
          /\ session[c] \in {"ESTABLISHED", "TERMINAL"}
    /\ runtime[c] = "live" => recoverIn[c] > liveLeft[c] /\ session[c] = "ESTABLISHED"
    /\ verdict[c] # "none" =>
          runtime[c] = "over" /\ (recoverIn[c] > 0 \/ session[c] = "TERMINAL")

\* The callback ends a call whose verdict is known, the sweep one that is due.
Finishing(f, c) ==
    /\ fin[f][c] = "txn" => Live(c)
    /\ fin[f][c] \in {"lease", "slot", "slotDel", "mark", "unindex"}
          => attempt[c] # "in_progress"
    /\ fin[f][c] \in {"slot", "slotDel", "mark", "unindex"} => Lease(c) = 0
    /\ fin[f][c] = "slotDel" => Slot(c) > 0
    /\ fin[f][c] = "unindex" => session[c] = "TERMINAL"
FinishLocal(c) ==
    /\ Finishing("callback", c) /\ Finishing("sweeper", c)
    /\ fin["callback"][c] # "idle" => verdict[c] # "none"
    /\ fin["callback"][c] = "txn" => doing["callback"][c] = verdict[c]
    /\ fin["sweeper"][c] # "idle" => recoverIn[c] = 0 /\ verdict[c] = "none"

\* The webhook comes too late to end anything.
WebhookLocal(c) ==
    /\ fin["webhook"][c] \in {"idle", "lease?", "txn"}
    /\ fin["webhook"][c] = "txn" => attempt[c] # "in_progress"

CancelLocal(c) ==
    CancelOf(c) # "idle" =>
        /\ recoverIn[c] # 0 /\ CancelOf(c) # "orphan"
        /\ CancelOf(c) \in {"read", "txn"} => Live(c)
        /\ CancelOf(c) \notin {"read", "txn"} => attempt[c] # "in_progress"
        /\ CancelOf(c) = "slotDel" => Slot(c) > 0
        /\ CancelOf(c) \in {"delete", "unindex"} => Lease(c) = 0

\* A granted call that nothing has begun to end has all that it stands on, for
\* at least as long as its deadline is away.
Intact(c) ==
    /\ req[c] = "granted" /\ recoverIn[c] > 0 /\ verdict[c] = "none"
    /\ CancelOf(c) \in {"idle", "read"}
Stands(c) ==
    /\ Live(c) /\ Lease(c) > recoverIn[c] /\ Slot(c) >= recoverIn[c]
    /\ session[c] = "PENDING" \/ bundle[c] = "set" =>
          Slot(c) >= recoverIn[c] + RecoverSecs
    /\ mode[c] = "attempt" => attempt[c] = "in_progress"
StandLocal(c) ==
    /\ Intact(c) => Stands(c)
    /\ req[c] = "granted" /\ (Lease(c) > 0 \/ attempt[c] = "in_progress") => Live(c)
    /\ attempt[c] = "in_progress" /\ Live(c) => Lease(c) > recoverIn[c] /\ recoverIn[c] >= 0

\* A verdict is applied, or the callback that brings it has not committed.
OutcomeOf ==
    [v \in Dispositions |-> IF v = "complete" THEN "completed"
                            ELSE IF v = "void" THEN "interrupted" ELSE "deleted"]
VerdictLocal(c) ==
    verdict[c] # "none" /\ mode[c] = "attempt" =>
        \/ attempt[c] = OutcomeOf[verdict[c]]
        \/ attempt[c] = "in_progress" /\ Live(c) /\ fin["callback"][c] \in {"idle", "txn"}

CallInv(c) ==
    /\ RequestLocal(c) /\ BundleLocal(c) /\ RuntimeLocal(c) /\ FinishLocal(c)
    /\ WebhookLocal(c) /\ CancelLocal(c) /\ StandLocal(c) /\ VerdictLocal(c)
LiveInv == KeysOwned /\ CancelOwned /\ \A c \in Calls : CallInv(c)

\* An attempt of an earlier grant that can still be ended is the only one.
StaleUnused ==
    \A c \in Calls :
        attempt[c] = "in_progress" /\ owner[c] \in Reps /\ Lease(c) > 0
          /\ grantOf[c] # grant[owner[c]] => used[owner[c]] = 0

-----------------------------------------------------------------------------
(* What a call has, and what the commands on Valkey make of it *)

\* All that the invariant of a call depends on.
Shown(c) == <<req[c], bundle[c], runtime[c], liveLeft[c], verdict[c], session[c],
              recoverIn[c], mode[c], attempt[c], fin["callback"][c], fin["sweeper"][c],
              fin["webhook"][c], doing["callback"][c], Lease(c), Slot(c), CancelOf(c)>>

CallType(c) ==
    /\ req[c] \in RequestPC /\ bundle[c] \in BundlePC
    /\ runtime[c] \in {"idle", "live", "over"} /\ liveLeft[c] \in 0 .. MaxCallSecs
    /\ verdict[c] \in Dispositions \cup {"none"}
    /\ session[c] \in {"none", "PENDING", "ESTABLISHED", "TERMINAL"}
    /\ recoverIn[c] \in {NotIndexed} \cup (0 .. RecoverSecs)
    /\ mode[c] \in {"attempt", "test"}
    /\ attempt[c] \in {"none", "in_progress", "completed", "interrupted", "deleted"}
    /\ \A f \in Finishers : fin[f][c] \in FinishPC
    /\ doing["callback"][c] \in Dispositions
    /\ Lease(c) \in 0 .. LeaseSecs /\ Slot(c) \in 0 .. SlotSecs /\ CancelOf(c) \in CancelPC

LEMMA CallTypes == ASSUME TypeOK, NEW c \in Calls PROVE CallType(c)
<1>1. Lease(c) \in 0 .. LeaseSecs
  BY DeadlinesAssumption DEF TypeOK, LeaseType, Lease
<1>2. Slot(c) \in 0 .. SlotSecs
  <2>1. OwnsSlot(c) => slotOf[c] \in Slots
    BY DEF TypeOK, RequestType, OwnsSlot
  <2> QED BY <2>1, DeadlinesAssumption DEF TypeOK, SlotType, Slot
<1>3. CancelOf(c) \in CancelPC
  BY DEF TypeOK, HandlerType, CancelOf, CancelPC
<1>4. \A f \in Finishers : fin[f][c] \in FinishPC /\ doing[f][c] \in Dispositions
  BY DEF TypeOK, HandlerType
<1>5. req[c] \in RequestPC /\ mode[c] \in {"attempt", "test"}
  BY DEF TypeOK, RequestType
<1> QED
  BY <1>1, <1>2, <1>3, <1>4, <1>5
  DEF CallType, TypeOK, SessionType, RowType, HandlerType, RuntimeType, Finishers

\* The countdowns of a call say whether it holds its keys.
LEMMA Held ==
    ASSUME TypeOK, KeysOwned, NEW c \in Calls, owner[c] \in Participants
    PROVE  /\ leaseOf[owner[c]] = c <=> Lease(c) > 0
           /\ OwnsSlot(c) <=> Slot(c) > 0
<1>1. Lease(c) = IF leaseOf[owner[c]] = c THEN leaseLeft[owner[c]] ELSE 0
  BY DEF Lease
<1>2. leaseOf[owner[c]] = c => leaseLeft[owner[c]] > 0
  BY ParticipantsAssumption DEF KeysOwned
<1>3. OwnsSlot(c) => slotLeft[slotOf[c]] > 0
  <2>1. OwnsSlot(c) => slotOf[c] \in Slots
    BY DEF TypeOK, RequestType, OwnsSlot
  <2> QED BY <2>1, ParticipantsAssumption DEF KeysOwned, OwnsSlot
<1> QED BY <1>1, <1>2, <1>3 DEF Slot

\* A call has a cancel in flight or not.
LEMMA Cancelled ==
    ASSUME TypeOK, CancelOwned, NEW c \in Calls
    PROVE  /\ CancelInFlight(c) <=> CancelOf(c) # "idle"
           /\ \A p \in Participants : cancel[p] # "idle" /\ cancelling[p] = c
                 => owner[c] = p /\ CancelOf(c) = cancel[p]
BY DEF CancelInFlight, CancelOwned, CancelOf

\* Keys, owners and cancels that a step leaves alone.
LEMMA LeaseKept ==
    ASSUME UNCHANGED <<leaseVars, owner>> PROVE \A c \in Calls : Lease(c)' = Lease(c)
BY DEF Lease
LEMMA SlotKept ==
    ASSUME UNCHANGED <<slotVars, slotOf>> PROVE \A c \in Calls : Slot(c)' = Slot(c)
BY DEF Slot, OwnsSlot
LEMMA CancelKept ==
    ASSUME UNCHANGED <<cancelVars, owner>> PROVE \A c \in Calls : CancelOf(c)' = CancelOf(c)
BY DEF CancelOf

\* SET of a participant's key, by the call that has it or finds it free.
LEMMA LeaseWritten ==
    ASSUME TypeOK, KeysOwned, NEW c \in Calls, NEW p \in Participants, WriteLease(p, c),
           leaseOf[p] \in {NoCall, c}, owner' = [owner EXCEPT ![c] = p]
    PROVE  /\ Lease(c)' = LeaseSecs
           /\ \A d \in Calls \ {c} : Lease(d)' = Lease(d)
<1>1. Lease(c)' = LeaseSecs
  BY DEF TypeOK, LeaseType, RequestType, WriteLease, Lease
<1>2. ASSUME NEW d \in Calls \ {c} PROVE Lease(d)' = Lease(d)
  BY <1>2, ParticipantsAssumption DEF TypeOK, LeaseType, RequestType, WriteLease, Lease
<1> QED BY <1>1, <1>2

\* The compare-and-delete of it.
LEMMA LeaseReleased ==
    ASSUME TypeOK, NEW c \in Calls, owner[c] \in Participants, ReleaseLease(owner[c], c),
           owner' = owner
    PROVE  /\ Lease(c)' = 0
           /\ \A d \in Calls \ {c} : Lease(d)' = Lease(d)
<1>1. Lease(c)' = 0
  BY ParticipantsAssumption DEF TypeOK, LeaseType, RequestType, ReleaseLease, Lease
<1>2. ASSUME NEW d \in Calls \ {c} PROVE Lease(d)' = Lease(d)
  BY <1>2, ParticipantsAssumption
  DEF TypeOK, LeaseType, RequestType, ReleaseLease, Lease
<1> QED BY <1>1, <1>2

\* The DEL of a slot by the call that has it.
LEMMA SlotDeleted ==
    ASSUME TypeOK, KeysOwned, NEW c \in Calls, owner[c] \in Participants, Slot(c) > 0,
           DeleteSlot(c), slotOf' = slotOf
    PROVE  /\ Slot(c)' = 0
           /\ \A d \in Calls \ {c} : Slot(d)' = Slot(d)
<1>1. slotOf[c] \in Slots /\ slotOwner[slotOf[c]] = c
  BY Held DEF OwnsSlot, TypeOK, RequestType
<1>2. ~OwnsSlot(c)'
  BY <1>1, ParticipantsAssumption DEF TypeOK, SlotType, DeleteSlot, OwnsSlot
<1>3. ASSUME NEW d \in Calls \ {c} PROVE Slot(d)' = Slot(d)
  <2>1. OwnsSlot(d) => slotOf[d] \in Slots
    BY DEF TypeOK, RequestType, OwnsSlot
  <2>2. OwnsSlot(d)' <=> OwnsSlot(d)
    BY <1>1, <1>3, <2>1, ParticipantsAssumption
    DEF TypeOK, SlotType, RequestType, DeleteSlot, OwnsSlot
  <2>3. OwnsSlot(d) => slotLeft'[slotOf[d]] = slotLeft[slotOf[d]]
    BY <1>1, <1>3, <2>1 DEF TypeOK, SlotType, DeleteSlot, OwnsSlot
  <2> QED BY <2>2, <2>3 DEF Slot
<1> QED BY <1>2, <1>3 DEF Slot

\* A handler that ends calls moves with one call.
LEMMA Finishes ==
    ASSUME TypeOK, NEW f \in Finishers, NEW c \in Calls, NEW from, NEW to, GoFin(f, c, from, to)
    PROVE  /\ fin[f][c] = from /\ fin'[f][c] = to
           /\ \A g \in Finishers, d \in Calls : g # f \/ d # c => fin'[g][d] = fin[g][d]
BY DEF TypeOK, HandlerType, GoFin

LEMMA Decides ==
    ASSUME TypeOK, NEW f \in Finishers, NEW c \in Calls, NEW r,
           doing' = [doing EXCEPT ![f][c] = r]
    PROVE  /\ doing'[f][c] = r
           /\ \A g \in Finishers, d \in Calls : g # f \/ d # c => doing'[g][d] = doing[g][d]
BY DEF TypeOK, HandlerType

\* A cancel moves with one call.
LEMMA CancelMoves ==
    ASSUME TypeOK, CancelOwned, NEW p \in Participants, NEW c \in Calls, owner' = owner,
           owner[c] = p, cancel[p] # "idle" => cancelling[p] = c,
           cancel'[p] = "idle" \/ cancelling'[p] = c,
           \A x \in Participants \ {p} : cancel'[x] = cancel[x] /\ cancelling'[x] = cancelling[x]
    PROVE  /\ CancelOf(c)' = cancel'[p]
           /\ \A d \in Calls \ {c} : CancelOf(d)' = CancelOf(d)
<1>1. CancelOf(c)' = cancel'[p]
  BY DEF CancelOf
<1>2. ASSUME NEW d \in Calls \ {c} PROVE CancelOf(d)' = CancelOf(d)
  BY <1>2 DEF CancelOf
<1> QED BY <1>1, <1>2

-----------------------------------------------------------------------------
(* The steps that concern one call *)

(* An attempt begins and ends while its call holds the lease of its participant, *)
(* and a call does not get the lease back.                                       *)
Backed(c) ==
    /\ attempt[c] = "none" /\ attempt'[c] = "in_progress" => Lease(c)' > 0
    /\ attempt[c] = "in_progress" =>
          /\ Lease(c)' > 0 => Lease(c) > 0
          /\ attempt'[c] \in {"interrupted", "deleted"} => Lease(c) > 0
AllBacked == \A c \in Calls : Backed(c)

LEMMA Untouched ==
    ASSUME NEW d \in Calls, CallInv(d), Shown(d)' = Shown(d)
    PROVE  CallInv(d)' /\ Backed(d)
BY DEF Backed, Shown, CallInv, RequestLocal, BundleLocal, RuntimeLocal, FinishLocal,
   Finishing,
       WebhookLocal, CancelLocal, StandLocal, Intact, Stands, VerdictLocal, Live, Requesting

LEMMA OneCallMoves ==
    ASSUME NEW c \in Calls, LiveInv, KeysOwned', CancelOwned', CallInv(c)', Backed(c),
           \A d \in Calls \ {c} : Shown(d)' = Shown(d)
    PROVE  LiveInv' /\ AllBacked
BY Untouched DEF LiveInv, AllBacked

LEMMA Given ==
    ASSUME LedgerInv, LiveInv, NEW c \in Calls
    PROVE  /\ TypeOK /\ KeysOwned /\ CancelOwned /\ CancelOfCall /\ CallInv(c) /\ CallType(c)
           /\ req[c] # "idle" => owner[c] \in Participants
           /\ attempt[c] # "none" =>
                 mode[c] = "attempt" /\ req[c] \notin {"idle", "leased", "slotted"} \cup InTxn
BY CallTypes DEF LedgerInv, LiveInv, Identified, AttemptAfterCommit

\* Keys and cancels stay owned where they are left alone.
LEMMA KeysKept ==
    ASSUME TypeOK, KeysOwned, UNCHANGED <<leaseVars, slotVars, owner, slotOf>>,
           \A d \in Calls : /\ req[d] # "idle" => req'[d] # "idle"
                            /\ req'[d] \in {"idle", "leased"} => req[d] \in {"idle", "leased"}
    PROVE  KeysOwned'
BY DEF TypeOK, LeaseType, KeysOwned

LEMMA CancelsKept ==
    ASSUME TypeOK, CancelOwned, CancelOfCall, UNCHANGED <<cancelVars, owner>>,
           \A d \in Calls : req[d] = "granted" => req'[d] = "granted"
    PROVE  CancelOwned'
BY DEF CancelOwned, CancelOfCall

\* Where no key and no cancel moves, only the rows and the handlers of c do.
Alone(c) ==
    /\ KeysOwned' /\ CancelOwned'
    /\ \A d \in Calls : Lease(d)' = Lease(d) /\ Slot(d)' = Slot(d) /\ CancelOf(d)' = CancelOf(d)

LEMMA NoKeyMoves ==
    ASSUME LedgerInv, LiveInv, NEW c \in Calls,
           UNCHANGED <<leaseVars, slotVars, cancelVars, owner, slotOf>>,
           \A d \in Calls \ {c} : req'[d] = req[d],
           req'[c] # req[c] => req[c] \notin {"idle", "granted"} /\ req'[c] \notin {"idle", "leased"}
    PROVE  Alone(c)
<1>1. KeysOwned'
  BY Given, KeysKept
<1>2. CancelOwned'
  BY Given, CancelsKept
<1> QED BY <1>1, <1>2, LeaseKept, SlotKept, CancelKept DEF Alone

LEMMA RequestLeaseLive ==
    ASSUME InTimeAssumption, LedgerInv, LiveInv, NEW c \in Calls, NEW p \in Participants,
           NEW m \in Modes, NEW s \in Stages \cup {0}, RequestLease(c, p, m, s)
    PROVE  LiveInv' /\ AllBacked
<1>1. /\ req[c] = "idle" /\ mode'[c] = m /\ req'[c] = "leased"
      /\ \A d \in Calls \ {c} : req'[d] = req[d]
      /\ UNCHANGED <<bundle, runtime, liveLeft, verdict, session, recoverIn, attempt,
                     cancelVars, finVars, slotVars, slotOf>>
  BY Given DEF RequestLease, GoReq, TypeOK, RequestType
<1>2. Lease(c)' = LeaseSecs /\ \A d \in Calls \ {c} : Lease(d)' = Lease(d)
  BY <1>1, Given, LeaseWritten DEF RequestLease, GoReq, SameExceptReq
<1>3. Slot(c)' = Slot(c) /\ \A d \in Calls \ {c} : Slot(d)' = Slot(d)
  BY <1>1, SlotKept
<1>4. CancelOf(c)' = CancelOf(c) /\ \A d \in Calls \ {c} : CancelOf(d)' = CancelOf(d)
  BY <1>1, Given DEF RequestLease, CancelOf, CancelOwned
<1>5. \A d \in Calls \ {c} : Shown(d)' = Shown(d)
  BY <1>1, <1>2, <1>3, <1>4 DEF RequestLease, Shown
<1>6. KeysOwned'
  BY <1>1, Given, DeadlinesAssumption
  DEF RequestLease, WriteLease, KeysOwned, TypeOK, LeaseType, RequestType
<1>7. CancelOwned'
  BY Given DEF RequestLease, GoReq, CancelOwned
<1>8. CallInv(c)' /\ Backed(c)
  BY <1>1, <1>2, <1>3, <1>4, Given, DeadlinesAssumption
  DEF Backed, CallInv, RequestLocal, BundleLocal, RuntimeLocal, FinishLocal, Finishing,
      WebhookLocal, CancelLocal, StandLocal, Intact, VerdictLocal, InTxn, Undoing,
      Dispositions, NotIndexed, CallType, Finishers, InTimeAssumption, Handlers
<1> QED BY <1>5, <1>6, <1>7, <1>8, OneCallMoves

LEMMA RequestSlotLive ==
    ASSUME InTimeAssumption, LedgerInv, LiveInv, NEW c \in Calls, NEW s \in Slots,
           RequestSlot(c, s)
    PROVE  LiveInv' /\ AllBacked
<1>1. /\ req[c] = "leased" /\ req'[c] = "slotted"
      /\ \A d \in Calls \ {c} : req'[d] = req[d]
      /\ UNCHANGED <<bundle, runtime, liveLeft, verdict, session, recoverIn, mode,
                     attempt, owner, cancelVars, finVars, leaseVars>>
  BY Given DEF RequestSlot, GoReq, TypeOK, RequestType
<1>2. Lease(c)' = Lease(c) /\ \A d \in Calls \ {c} : Lease(d)' = Lease(d)
  BY <1>1, LeaseKept
<1>3. Slot(c)' = SlotSecs /\ \A d \in Calls \ {c} : Slot(d)' = Slot(d)
  BY Given, ParticipantsAssumption
  DEF RequestSlot, Slot, OwnsSlot, TypeOK, SlotType, RequestType
<1>4. CancelOf(c)' = CancelOf(c) /\ \A d \in Calls \ {c} : CancelOf(d)' = CancelOf(d)
  BY <1>1, CancelKept
<1>5. \A d \in Calls \ {c} : Shown(d)' = Shown(d)
  BY <1>1, <1>2, <1>3, <1>4 DEF Shown
<1>6. KeysOwned'
  BY <1>1, Given, ParticipantsAssumption, DeadlinesAssumption
  DEF RequestSlot, KeysOwned, TypeOK, LeaseType, SlotType, RequestType
<1>7. CancelOwned'
  BY <1>1, Given, CancelsKept
<1>8. CallInv(c)' /\ Backed(c)
  BY <1>1, <1>2, <1>3, <1>4, Given, DeadlinesAssumption
  DEF Backed, CallInv, RequestLocal, BundleLocal, RuntimeLocal, FinishLocal, Finishing,
      WebhookLocal, CancelLocal, StandLocal, Intact, VerdictLocal, Requesting, InTxn,
      Undoing, Dispositions, NotIndexed, CallType, Finishers, InTimeAssumption, Handlers
<1> QED BY <1>5, <1>6, <1>7, <1>8, OneCallMoves

LEMMA RequestNoSlotLive ==
    ASSUME InTimeAssumption, LedgerInv, LiveInv, NEW c \in Calls, RequestNoSlot(c)
    PROVE  LiveInv' /\ AllBacked
<1>1. /\ req[c] = "leased" /\ req'[c] = "undo"
      /\ \A d \in Calls \ {c} : req'[d] = req[d]
      /\ UNCHANGED <<bundle, runtime, liveLeft, verdict, session, recoverIn, mode,
                     attempt, owner, cancelVars, finVars, leaseVars, slotVars, slotOf>>
  BY Given DEF RequestNoSlot, GoReq, SameExceptReq, TypeOK, RequestType
<1>2. Alone(c)
  BY <1>1, NoKeyMoves
<1>3. \A d \in Calls \ {c} : Shown(d)' = Shown(d)
  BY <1>1, <1>2 DEF Alone, Shown
<1>4. CallInv(c)' /\ Backed(c)
  BY <1>1, <1>2, Given, DeadlinesAssumption
  DEF Alone, Backed, CallInv, RequestLocal, BundleLocal, RuntimeLocal, FinishLocal,
      Finishing, WebhookLocal, CancelLocal, StandLocal, Intact, VerdictLocal,
      Requesting, InTxn, Undoing, Dispositions, NotIndexed, CallType, Finishers,
      InTimeAssumption, Handlers
<1> QED BY <1>2, <1>3, <1>4, OneCallMoves DEF Alone

LEMMA RequestAdmitLive ==
    ASSUME InTimeAssumption, LedgerInv, LiveInv, NEW c \in Calls, RequestAdmit(c)
    PROVE  LiveInv' /\ AllBacked
<1>1. /\ req[c] = "slotted" /\ req'[c] = "admitted"
      /\ \A d \in Calls \ {c} : req'[d] = req[d]
      /\ UNCHANGED <<bundle, runtime, liveLeft, verdict, session, recoverIn, mode,
                     attempt, owner, cancelVars, finVars, leaseVars, slotVars, slotOf>>
  BY Given DEF RequestAdmit, GoReq, TypeOK, RequestType
<1>2. Alone(c)
  BY <1>1, NoKeyMoves
<1>3. \A d \in Calls \ {c} : Shown(d)' = Shown(d)
  BY <1>1, <1>2 DEF Alone, Shown
<1>4. CallInv(c)' /\ Backed(c)
  BY <1>1, <1>2, Given, DeadlinesAssumption
  DEF Alone, Backed, CallInv, RequestLocal, BundleLocal, RuntimeLocal, FinishLocal,
      Finishing, WebhookLocal, CancelLocal, StandLocal, Intact, VerdictLocal,
      Requesting, Undoing, Dispositions, NotIndexed, CallType, Finishers,
      InTimeAssumption, Handlers
<1> QED BY <1>2, <1>3, <1>4, OneCallMoves DEF Alone

LEMMA RequestPutLive ==
    ASSUME InTimeAssumption, LedgerInv, LiveInv, NEW c \in Calls, RequestPut(c)
    PROVE  LiveInv' /\ AllBacked
<1>1. /\ req[c] = "admitted" /\ session'[c] = "PENDING" /\ req'[c] = "put"
      /\ \A d \in Calls \ {c} : req'[d] = req[d]
      /\ UNCHANGED <<bundle, runtime, liveLeft, verdict, recoverIn, mode, attempt,
                     owner, cancelVars, finVars, leaseVars, slotVars, slotOf>>
  BY Given
  DEF RequestPut, GoReq, SameExceptReq, WriteSession, TypeOK, RequestType, SessionType
<1>2. Alone(c)
  BY <1>1, NoKeyMoves
<1>3. \A d \in Calls \ {c} : Shown(d)' = Shown(d)
  BY <1>1, <1>2 DEF Alone, RequestPut, WriteSession, Shown
<1>4. CallInv(c)' /\ Backed(c)
  BY <1>1, <1>2, Given, DeadlinesAssumption
  DEF Alone, Backed, CallInv, RequestLocal, BundleLocal, RuntimeLocal, FinishLocal,
      Finishing, WebhookLocal, CancelLocal, StandLocal, Intact, VerdictLocal,
      Requesting, InTxn, Undoing, Dispositions, NotIndexed, CallType, Finishers,
      InTimeAssumption, Handlers
<1> QED BY <1>2, <1>3, <1>4, OneCallMoves DEF Alone

LEMMA RequestIndexLive ==
    ASSUME InTimeAssumption, LedgerInv, LiveInv, NEW c \in Calls, RequestIndex(c)
    PROVE  LiveInv' /\ AllBacked
<1>1. /\ req[c] = "put" /\ recoverIn'[c] = JoinSecs /\ req'[c] = "indexed"
      /\ \A d \in Calls \ {c} : req'[d] = req[d]
      /\ UNCHANGED <<bundle, runtime, liveLeft, verdict, session, mode, attempt, owner,
                     cancelVars, finVars, leaseVars, slotVars, slotOf>>
  BY Given
  DEF RequestIndex, GoReq, SameExceptReq, Index, TypeOK, RequestType, SessionType
<1>2. Alone(c)
  BY <1>1, NoKeyMoves
<1>3. \A d \in Calls \ {c} : Shown(d)' = Shown(d)
  BY <1>1, <1>2 DEF Alone, RequestIndex, Index, Shown
<1>4. CallInv(c)' /\ Backed(c)
  BY <1>1, <1>2, Given, DeadlinesAssumption
  DEF Alone, Backed, CallInv, RequestLocal, BundleLocal, RuntimeLocal, FinishLocal,
      Finishing, WebhookLocal, CancelLocal, StandLocal, Intact, VerdictLocal,
      Requesting, InTxn, Undoing, Dispositions, NotIndexed, CallType, Finishers,
      InTimeAssumption, Handlers
<1> QED BY <1>2, <1>3, <1>4, OneCallMoves DEF Alone

LEMMA RequestReadLeaseLive ==
    ASSUME InTimeAssumption, LedgerInv, LiveInv, NEW c \in Calls, RequestReadLease(c)
    PROVE  LiveInv' /\ AllBacked
<1>1. /\ req[c] = "indexed" /\ req'[c] \in {"renewing", "renewed"}
      /\ \A d \in Calls \ {c} : req'[d] = req[d]
      /\ UNCHANGED <<bundle, runtime, liveLeft, verdict, session, recoverIn, mode,
                     attempt, owner, cancelVars, finVars, leaseVars, slotVars, slotOf>>
  BY Given DEF RequestReadLease, GoReq, SameExceptReq, TypeOK, RequestType
<1>2. Alone(c)
  BY <1>1, NoKeyMoves
<1>3. \A d \in Calls \ {c} : Shown(d)' = Shown(d)
  BY <1>1, <1>2 DEF Alone, Shown
<1>4. CallInv(c)' /\ Backed(c)
  BY <1>1, <1>2, Given, DeadlinesAssumption
  DEF Alone, Backed, CallInv, RequestLocal, BundleLocal, RuntimeLocal, FinishLocal,
      Finishing, WebhookLocal, CancelLocal, StandLocal, Intact, VerdictLocal,
      Requesting, InTxn, Undoing, Dispositions, NotIndexed, CallType, Finishers,
      InTimeAssumption, Handlers
<1> QED BY <1>2, <1>3, <1>4, OneCallMoves DEF Alone

LEMMA RequestRenewLive ==
    ASSUME InTimeAssumption, LedgerInv, LiveInv, NEW c \in Calls, RequestRenew(c)
    PROVE  LiveInv' /\ AllBacked
<1>0. leaseOf[owner[c]] = c
  BY Given, Held, DeadlinesAssumption
  DEF RequestRenew, GoReq, CallInv, RequestLocal, Requesting
<1>1. /\ req[c] = "renewing" /\ req'[c] = "renewed"
      /\ \A d \in Calls \ {c} : req'[d] = req[d]
      /\ UNCHANGED <<bundle, runtime, liveLeft, verdict, session, recoverIn, mode,
                     attempt, owner, cancelVars, finVars, slotVars, slotOf>>
  BY Given DEF RequestRenew, GoReq, SameExceptReq, TypeOK, RequestType
<1>2. Lease(c)' = LeaseSecs /\ \A d \in Calls \ {c} : Lease(d)' = Lease(d)
  BY <1>0, <1>1, Given, LeaseWritten DEF RequestRenew, TypeOK, RequestType
<1>3. Slot(c)' = Slot(c) /\ \A d \in Calls \ {c} : Slot(d)' = Slot(d)
  BY <1>1, SlotKept
<1>4. CancelOf(c)' = CancelOf(c) /\ \A d \in Calls \ {c} : CancelOf(d)' = CancelOf(d)
  BY <1>1, CancelKept
<1>5. \A d \in Calls \ {c} : Shown(d)' = Shown(d)
  BY <1>1, <1>2, <1>3, <1>4 DEF Shown
<1>6. KeysOwned'
  BY <1>1, Given, DeadlinesAssumption
  DEF RequestRenew, WriteLease, KeysOwned, TypeOK, LeaseType
<1>7. CancelOwned'
  BY <1>1, Given, CancelsKept
<1>8. CallInv(c)' /\ Backed(c)
  BY <1>0, <1>1, <1>2, <1>3, <1>4, Given, DeadlinesAssumption
  DEF Backed, CallInv, RequestLocal, BundleLocal, RuntimeLocal, FinishLocal, Finishing,
      WebhookLocal, CancelLocal, StandLocal, Intact, VerdictLocal, InTxn, Undoing,
      Dispositions, NotIndexed, CallType, Finishers, InTimeAssumption, Handlers
<1> QED BY <1>5, <1>6, <1>7, <1>8, OneCallMoves

LEMMA RequestCommitLive ==
    ASSUME InTimeAssumption, LedgerInv, LiveInv, NEW c \in Calls, RequestCommit(c)
    PROVE  LiveInv' /\ AllBacked
<1>1. /\ req[c] = "renewed"
         /\ attempt'[c] = (IF mode[c] = "attempt" THEN "in_progress" ELSE attempt[c])
         /\ req'[c] = "granted"
      /\ \A d \in Calls \ {c} : req'[d] = req[d]
      /\ UNCHANGED <<bundle, runtime, liveLeft, verdict, session, recoverIn, mode,
                     owner, cancelVars, finVars, leaseVars, slotVars, slotOf>>
  BY Given
  DEF RequestCommit, GoReq, Commits, CommitAdmission, TypeOK, RequestType, RowType
<1>2. Alone(c)
  BY <1>1, NoKeyMoves
<1>3. \A d \in Calls \ {c} : Shown(d)' = Shown(d)
  BY <1>1, <1>2, Given
  DEF Alone, RequestCommit, Commits, CommitAdmission, Shown, TypeOK, RowType
<1>4. CallInv(c)' /\ Backed(c)
  BY <1>1, <1>2, Given, DeadlinesAssumption
  DEF Alone, Backed, CallInv, RequestLocal, BundleLocal, RuntimeLocal, FinishLocal,
      Finishing, WebhookLocal, CancelLocal, StandLocal, Stands, VerdictLocal, Live,
      Requesting, InTxn, Undoing, Dispositions, NotIndexed, CallType, Finishers,
      InTimeAssumption, Handlers
<1> QED BY <1>2, <1>3, <1>4, OneCallMoves DEF Alone

LEMMA RequestCommitUnseenLive ==
    ASSUME InTimeAssumption, LedgerInv, LiveInv, NEW c \in Calls, RequestCommitUnseen(c)
    PROVE  LiveInv' /\ AllBacked
<1>1. /\ req[c] = "renewed"
         /\ attempt'[c] = (IF mode[c] = "attempt" THEN "in_progress" ELSE attempt[c])
         /\ req'[c] = "undo"
      /\ \A d \in Calls \ {c} : req'[d] = req[d]
      /\ UNCHANGED <<bundle, runtime, liveLeft, verdict, session, recoverIn, mode,
                     owner, cancelVars, finVars, leaseVars, slotVars, slotOf>>
  BY Given
  DEF RequestCommitUnseen, GoReq, Commits, CommitAdmission, TypeOK, RequestType, RowType
<1>2. Alone(c)
  BY <1>1, NoKeyMoves
<1>3. \A d \in Calls \ {c} : Shown(d)' = Shown(d)
  BY <1>1, <1>2, Given
  DEF Alone, RequestCommitUnseen, Commits, CommitAdmission, Shown, TypeOK, RowType
<1>4. CallInv(c)' /\ Backed(c)
  BY <1>1, <1>2, Given, DeadlinesAssumption
  DEF Alone, Backed, CallInv, RequestLocal, BundleLocal, RuntimeLocal, FinishLocal,
      Finishing, WebhookLocal, CancelLocal, StandLocal, Stands, VerdictLocal, Live,
      Requesting, InTxn, Undoing, Dispositions, NotIndexed, CallType, Finishers,
      InTimeAssumption, Handlers
<1> QED BY <1>2, <1>3, <1>4, OneCallMoves DEF Alone

LEMMA RequestFailsLive ==
    ASSUME InTimeAssumption, LedgerInv, LiveInv, NEW c \in Calls, RequestFails(c)
    PROVE  LiveInv' /\ AllBacked
<1>0. /\ req[c] \in {"slotted"} \cup InTxn
      /\ req' = [req EXCEPT ![c] = "undo"]
  BY DEF RequestFails, GoReq
<1>1. /\ req[c] \in {"slotted"} \cup InTxn /\ req'[c] = "undo"
      /\ \A d \in Calls \ {c} : req'[d] = req[d]
      /\ UNCHANGED <<bundle, runtime, liveLeft, verdict, session, recoverIn, mode,
                     attempt, owner, cancelVars, finVars, leaseVars, slotVars, slotOf>>
  BY <1>0, Given DEF RequestFails, SameExceptReq, TypeOK, RequestType
<1>2. Alone(c)
  BY <1>1, NoKeyMoves DEF InTxn
<1>3. \A d \in Calls \ {c} : Shown(d)' = Shown(d)
  BY <1>1, <1>2 DEF Alone, Shown
<1>4. CallInv(c)' /\ Backed(c)
  BY <1>0, <1>1, <1>2, Given, DeadlinesAssumption
  DEF Alone, Backed, CallInv, RequestLocal, BundleLocal, RuntimeLocal, FinishLocal,
      Finishing, WebhookLocal, CancelLocal, StandLocal, Intact, VerdictLocal,
      Requesting, InTxn, Undoing, Dispositions, NotIndexed, CallType, Finishers,
      InTimeAssumption, Handlers
<1> QED BY <1>2, <1>3, <1>4, OneCallMoves DEF Alone

LEMMA UndoDeleteLive ==
    ASSUME InTimeAssumption, LedgerInv, LiveInv, NEW c \in Calls, UndoDelete(c)
    PROVE  LiveInv' /\ AllBacked
<1>1. /\ req[c] = "undo" /\ session'[c] = "none" /\ req'[c] = "undoIndex"
      /\ \A d \in Calls \ {c} : req'[d] = req[d]
      /\ UNCHANGED <<bundle, runtime, liveLeft, verdict, recoverIn, mode, attempt,
                     owner, cancelVars, finVars, leaseVars, slotVars, slotOf>>
  BY Given
  DEF UndoDelete, GoReq, SameExceptReq, WriteSession, TypeOK, RequestType, SessionType
<1>2. Alone(c)
  BY <1>1, NoKeyMoves
<1>3. \A d \in Calls \ {c} : Shown(d)' = Shown(d)
  BY <1>1, <1>2 DEF Alone, UndoDelete, WriteSession, Shown
<1>4. CallInv(c)' /\ Backed(c)
  BY <1>1, <1>2, Given, DeadlinesAssumption
  DEF Alone, Backed, CallInv, RequestLocal, BundleLocal, RuntimeLocal, FinishLocal,
      Finishing, WebhookLocal, CancelLocal, StandLocal, Intact, VerdictLocal, Live,
      Requesting, InTxn, Undoing, Dispositions, NotIndexed, CallType, Finishers,
      InTimeAssumption, Handlers
<1> QED BY <1>2, <1>3, <1>4, OneCallMoves DEF Alone

LEMMA UndoIndexLive ==
    ASSUME InTimeAssumption, LedgerInv, LiveInv, NEW c \in Calls, UndoIndex(c)
    PROVE  LiveInv' /\ AllBacked
<1>1. /\ req[c] = "undoIndex" /\ recoverIn'[c] = NotIndexed /\ req'[c] = "undoSlot"
      /\ \A d \in Calls \ {c} : req'[d] = req[d]
      /\ UNCHANGED <<bundle, runtime, liveLeft, verdict, session, mode, attempt, owner,
                     cancelVars, finVars, leaseVars, slotVars, slotOf>>
  BY Given
  DEF UndoIndex, GoReq, SameExceptReq, Unindex, TypeOK, RequestType, SessionType
<1>2. Alone(c)
  BY <1>1, NoKeyMoves
<1>3. \A d \in Calls \ {c} : Shown(d)' = Shown(d)
  BY <1>1, <1>2 DEF Alone, UndoIndex, Unindex, Shown
<1>4. CallInv(c)' /\ Backed(c)
  BY <1>1, <1>2, Given, DeadlinesAssumption
  DEF Alone, Backed, CallInv, RequestLocal, BundleLocal, RuntimeLocal, FinishLocal,
      Finishing, WebhookLocal, CancelLocal, StandLocal, Intact, VerdictLocal, Live,
      Requesting, InTxn, Undoing, Dispositions, NotIndexed, CallType, Finishers,
      InTimeAssumption, Handlers
<1> QED BY <1>2, <1>3, <1>4, OneCallMoves DEF Alone

LEMMA UndoReadSlotLive ==
    ASSUME InTimeAssumption, LedgerInv, LiveInv, NEW c \in Calls, UndoReadSlot(c)
    PROVE  LiveInv' /\ AllBacked
<1>0. req'[c] = "undoSlotDel" => Slot(c) > 0
  BY Given, Held DEF UndoReadSlot, GoReq, TypeOK, RequestType
<1>1. /\ req[c] = "undoSlot" /\ req'[c] \in {"undoSlotDel", "undoLease"}
      /\ \A d \in Calls \ {c} : req'[d] = req[d]
      /\ UNCHANGED <<bundle, runtime, liveLeft, verdict, session, recoverIn, mode,
                     attempt, owner, cancelVars, finVars, leaseVars, slotVars, slotOf>>
  BY Given DEF UndoReadSlot, GoReq, SameExceptReq, TypeOK, RequestType
<1>2. Alone(c)
  BY <1>1, NoKeyMoves
<1>3. \A d \in Calls \ {c} : Shown(d)' = Shown(d)
  BY <1>1, <1>2 DEF Alone, Shown
<1>4. CallInv(c)' /\ Backed(c)
  BY <1>0, <1>1, <1>2, Given, DeadlinesAssumption
  DEF Alone, Backed, CallInv, RequestLocal, BundleLocal, RuntimeLocal, FinishLocal,
      Finishing, WebhookLocal, CancelLocal, StandLocal, Intact, VerdictLocal, Live,
      Requesting, InTxn, Undoing, Dispositions, NotIndexed, CallType, Finishers,
      InTimeAssumption, Handlers
<1> QED BY <1>2, <1>3, <1>4, OneCallMoves DEF Alone

LEMMA UndoDeleteSlotLive ==
    ASSUME InTimeAssumption, LedgerInv, LiveInv, NEW c \in Calls, UndoDeleteSlot(c)
    PROVE  LiveInv' /\ AllBacked
<1>0. Slot(c) > 0
  BY Given DEF UndoDeleteSlot, GoReq, CallInv, RequestLocal
<1>1. /\ req[c] = "undoSlotDel" /\ req'[c] = "undoLease"
      /\ \A d \in Calls \ {c} : req'[d] = req[d]
      /\ UNCHANGED <<bundle, runtime, liveLeft, verdict, session, recoverIn, mode,
                     attempt, owner, cancelVars, finVars, leaseVars, slotOf>>
  BY Given DEF UndoDeleteSlot, GoReq, SameExceptReq, TypeOK, RequestType
<1>2. Lease(c)' = Lease(c) /\ \A d \in Calls \ {c} : Lease(d)' = Lease(d)
  BY <1>1, LeaseKept
<1>3. Slot(c)' = 0 /\ \A d \in Calls \ {c} : Slot(d)' = Slot(d)
  BY <1>0, <1>1, Given, SlotDeleted DEF UndoDeleteSlot
<1>4. CancelOf(c)' = CancelOf(c) /\ \A d \in Calls \ {c} : CancelOf(d)' = CancelOf(d)
  BY <1>1, CancelKept
<1>5. \A d \in Calls \ {c} : Shown(d)' = Shown(d)
  BY <1>1, <1>2, <1>3, <1>4 DEF Shown
<1>6. KeysOwned'
  BY <1>1, Given, Held, ParticipantsAssumption, DeadlinesAssumption
  DEF UndoDeleteSlot, DeleteSlot, KeysOwned, TypeOK, LeaseType, SlotType
<1>7. CancelOwned'
  BY <1>1, Given, CancelsKept
<1>8. CallInv(c)' /\ Backed(c)
  BY <1>0, <1>1, <1>2, <1>3, <1>4, Given, DeadlinesAssumption
  DEF Backed, CallInv, RequestLocal, BundleLocal, RuntimeLocal, FinishLocal, Finishing,
      WebhookLocal, CancelLocal, StandLocal, Intact, VerdictLocal, Live, Requesting,
      InTxn, Undoing, Dispositions, NotIndexed, CallType, Finishers, InTimeAssumption,
      Handlers
<1> QED BY <1>5, <1>6, <1>7, <1>8, OneCallMoves

LEMMA UndoLeaseLive ==
    ASSUME InTimeAssumption, LedgerInv, LiveInv, NEW c \in Calls, UndoLease(c)
    PROVE  LiveInv' /\ AllBacked
<1>1. /\ req[c] = "undoLease" /\ req'[c] = "refused"
      /\ \A d \in Calls \ {c} : req'[d] = req[d]
      /\ UNCHANGED <<bundle, runtime, liveLeft, verdict, session, recoverIn, mode,
                     attempt, owner, cancelVars, finVars, slotVars, slotOf>>
  BY Given DEF UndoLease, GoReq, SameExceptReq, TypeOK, RequestType
<1>2. Lease(c)' = 0 /\ \A d \in Calls \ {c} : Lease(d)' = Lease(d)
  BY <1>1, Given, LeaseReleased DEF UndoLease
<1>3. Slot(c)' = Slot(c) /\ \A d \in Calls \ {c} : Slot(d)' = Slot(d)
  BY <1>1, SlotKept
<1>4. CancelOf(c)' = CancelOf(c) /\ \A d \in Calls \ {c} : CancelOf(d)' = CancelOf(d)
  BY <1>1, CancelKept
<1>5. \A d \in Calls \ {c} : Shown(d)' = Shown(d)
  BY <1>1, <1>2, <1>3, <1>4 DEF Shown
<1>6. KeysOwned'
  BY <1>1, Given, ParticipantsAssumption, DeadlinesAssumption
  DEF UndoLease, ReleaseLease, KeysOwned, TypeOK, LeaseType
<1>7. CancelOwned'
  BY <1>1, Given, CancelsKept
<1>8. CallInv(c)' /\ Backed(c)
  BY <1>1, <1>2, <1>3, <1>4, Given, DeadlinesAssumption
  DEF Backed, CallInv, RequestLocal, BundleLocal, RuntimeLocal, FinishLocal, Finishing,
      WebhookLocal, CancelLocal, StandLocal, Intact, VerdictLocal, Live, Requesting,
      InTxn, Undoing, Dispositions, NotIndexed, CallType, Finishers, InTimeAssumption,
      Handlers
<1> QED BY <1>5, <1>6, <1>7, <1>8, OneCallMoves

LEMMA RequestDiesLive ==
    ASSUME InTimeAssumption, LedgerInv, LiveInv, NEW c \in Calls, RequestDies(c)
    PROVE  LiveInv' /\ AllBacked
<1>0. /\ req[c] \in {"leased", "slotted"} \cup InTxn \cup Undoing
      /\ req' = [req EXCEPT ![c] = "dead"]
  BY DEF RequestDies, GoReq
<1>1. /\ req[c] \in {"leased", "slotted"} \cup InTxn \cup Undoing /\ req'[c] = "dead"
      /\ \A d \in Calls \ {c} : req'[d] = req[d]
      /\ UNCHANGED <<bundle, runtime, liveLeft, verdict, session, recoverIn, mode,
                     attempt, owner, cancelVars, finVars, leaseVars, slotVars, slotOf>>
  BY <1>0, Given DEF RequestDies, SameExceptReq, TypeOK, RequestType
<1>2. Alone(c)
  BY <1>1, NoKeyMoves DEF InTxn, Undoing
<1>3. \A d \in Calls \ {c} : Shown(d)' = Shown(d)
  BY <1>1, <1>2 DEF Alone, Shown
<1>4. CallInv(c)' /\ Backed(c)
  BY <1>0, <1>1, <1>2, Given, DeadlinesAssumption
  DEF Alone, Backed, CallInv, RequestLocal, BundleLocal, RuntimeLocal, FinishLocal,
      Finishing, WebhookLocal, CancelLocal, StandLocal, Intact, VerdictLocal, Live,
      Requesting, InTxn, Undoing, Dispositions, NotIndexed, CallType, Finishers,
      InTimeAssumption, Handlers
<1> QED BY <1>2, <1>3, <1>4, OneCallMoves DEF Alone

LEMMA BundleReadLive ==
    ASSUME InTimeAssumption, LedgerInv, LiveInv, NEW c \in Calls, BundleRead(c)
    PROVE  LiveInv' /\ AllBacked
<1>0. /\ req[c] = "granted" /\ runtime[c] = "idle" /\ session[c] = "PENDING"
      /\ recoverIn[c] > 0 /\ CancelOf(c) = "idle"
  BY Given, Cancelled DEF BundleRead, AgentAsks, InTimeAssumption, Handlers
<1>1. /\ bundle[c] = "idle" /\ bundle'[c] = "read"
      /\ UNCHANGED <<req, runtime, liveLeft, verdict, session, recoverIn, mode,
                     attempt, owner, cancelVars, finVars, leaseVars, slotVars, slotOf>>
  BY Given DEF BundleRead, GoBundle, SameExceptBundle, TypeOK, HandlerType
<1>2. Alone(c)
  BY <1>1, NoKeyMoves
<1>3. \A d \in Calls \ {c} : Shown(d)' = Shown(d)
  BY <1>1, <1>2 DEF Alone, BundleRead, GoBundle, Shown
<1>4. CallInv(c)' /\ Backed(c)
  BY <1>0, <1>1, <1>2, Given, DeadlinesAssumption
  DEF Alone, Backed, CallInv, RequestLocal, BundleLocal, RuntimeLocal, FinishLocal,
      Finishing, WebhookLocal, CancelLocal, StandLocal, Intact, Stands, VerdictLocal,
      Live, Requesting, Undoing, Dispositions, NotIndexed, CallType, Finishers,
      InTimeAssumption, Handlers
<1> QED BY <1>2, <1>3, <1>4, OneCallMoves DEF Alone

LEMMA BundleAgainLive ==
    ASSUME InTimeAssumption, LedgerInv, LiveInv, NEW c \in Calls, BundleAgain(c)
    PROVE  LiveInv' /\ AllBacked
<1>0. /\ req[c] = "granted" /\ runtime[c] = "idle" /\ session[c] = "ESTABLISHED"
      /\ recoverIn[c] > MaxCallSecs /\ CancelOf(c) = "idle"
  BY Given, Cancelled DEF BundleAgain, AgentAsks, InTimeAssumption, Handlers
<1>1. /\ bundle[c] = "idle" /\ runtime'[c] = "live" /\ liveLeft'[c] = MaxCallSecs
      /\ UNCHANGED <<req, bundle, verdict, session, recoverIn, mode, attempt, owner,
                     cancelVars, finVars, leaseVars, slotVars, slotOf>>
  BY Given DEF BundleAgain, SameExceptBundle, Conduct, TypeOK, RuntimeType
<1>2. Alone(c)
  BY <1>1, NoKeyMoves
<1>3. \A d \in Calls \ {c} : Shown(d)' = Shown(d)
  BY <1>1, <1>2, Given DEF Alone, BundleAgain, Conduct, Shown
<1>4. CallInv(c)' /\ Backed(c)
  BY <1>0, <1>1, <1>2, Given, DeadlinesAssumption
  DEF Alone, Backed, CallInv, RequestLocal, BundleLocal, RuntimeLocal, FinishLocal,
      Finishing, WebhookLocal, CancelLocal, StandLocal, Intact, Stands, VerdictLocal,
      Live, Requesting, Undoing, Dispositions, NotIndexed, CallType, Finishers,
      InTimeAssumption, Handlers
<1> QED BY <1>2, <1>3, <1>4, OneCallMoves DEF Alone

LEMMA BundleReadLeaseLive ==
    ASSUME InTimeAssumption, LedgerInv, LiveInv, NEW c \in Calls, BundleReadLease(c)
    PROVE  LiveInv' /\ AllBacked
<1>1. /\ bundle[c] = "read" /\ bundle'[c] \in {"renewing", "idle"}
      /\ UNCHANGED <<req, runtime, liveLeft, verdict, session, recoverIn, mode,
                     attempt, owner, cancelVars, finVars, leaseVars, slotVars, slotOf>>
  BY Given DEF BundleReadLease, GoBundle, SameExceptBundle, TypeOK, HandlerType
<1>2. Alone(c)
  BY <1>1, NoKeyMoves
<1>3. \A d \in Calls \ {c} : Shown(d)' = Shown(d)
  BY <1>1, <1>2, Given DEF Alone, BundleReadLease, GoBundle, Shown, TypeOK, HandlerType
<1>4. CallInv(c)' /\ Backed(c)
  BY <1>1, <1>2, Given, DeadlinesAssumption
  DEF Alone, Backed, CallInv, RequestLocal, BundleLocal, RuntimeLocal, FinishLocal,
      Finishing, WebhookLocal, CancelLocal, StandLocal, Intact, Stands, VerdictLocal,
      Live, Requesting, Undoing, Dispositions, NotIndexed, CallType, Finishers,
      InTimeAssumption, Handlers
<1> QED BY <1>2, <1>3, <1>4, OneCallMoves DEF Alone

LEMMA BundleRenewLive ==
    ASSUME InTimeAssumption, LedgerInv, LiveInv, NEW c \in Calls, BundleRenew(c)
    PROVE  LiveInv' /\ AllBacked
<1>0. leaseOf[owner[c]] = c /\ req[c] = "granted"
  BY Given, Held
  DEF BundleRenew, GoBundle, CallInv, BundleLocal, RequestLocal, RuntimeLocal,
      StandLocal, Intact, Stands, CallType, NotIndexed
<1>1. /\ bundle[c] = "renewing" /\ bundle'[c] = "leased"
      /\ UNCHANGED <<req, runtime, liveLeft, verdict, session, recoverIn, mode,
                     attempt, owner, cancelVars, finVars, slotVars, slotOf>>
  BY Given DEF BundleRenew, GoBundle, SameExceptBundle, TypeOK, HandlerType
<1>2. Lease(c)' = LeaseSecs /\ \A d \in Calls \ {c} : Lease(d)' = Lease(d)
  BY <1>0, <1>1, Given, LeaseWritten DEF BundleRenew, TypeOK, RequestType
<1>3. Slot(c)' = Slot(c) /\ \A d \in Calls \ {c} : Slot(d)' = Slot(d)
  BY <1>1, SlotKept
<1>4. CancelOf(c)' = CancelOf(c) /\ \A d \in Calls \ {c} : CancelOf(d)' = CancelOf(d)
  BY <1>1, CancelKept
<1>5. \A d \in Calls \ {c} : Shown(d)' = Shown(d)
  BY <1>1, <1>2, <1>3, <1>4 DEF BundleRenew, GoBundle, Shown
<1>6. KeysOwned'
  BY <1>0, <1>1, Given, DeadlinesAssumption DEF BundleRenew, WriteLease, KeysOwned
<1>7. CancelOwned'
  BY <1>1, Given, CancelsKept
<1>8. CallInv(c)' /\ Backed(c)
  BY <1>0, <1>1, <1>2, <1>3, <1>4, Given, DeadlinesAssumption
  DEF Backed, CallInv, RequestLocal, BundleLocal, RuntimeLocal, FinishLocal, Finishing,
      WebhookLocal, CancelLocal, StandLocal, Intact, Stands, VerdictLocal, Live,
      Dispositions, NotIndexed, CallType, Finishers, InTimeAssumption, Handlers
<1> QED BY <1>5, <1>6, <1>7, <1>8, OneCallMoves

LEMMA BundleEstablishLive ==
    ASSUME InTimeAssumption, LedgerInv, LiveInv, NEW c \in Calls, BundleEstablish(c)
    PROVE  LiveInv' /\ AllBacked
<1>1. /\ bundle[c] = "leased" /\ session'[c] = "ESTABLISHED" /\ bundle'[c] = "set"
      /\ UNCHANGED <<req, runtime, liveLeft, verdict, recoverIn, mode, attempt, owner,
                     cancelVars, finVars, leaseVars, slotVars, slotOf>>
  BY Given
  DEF BundleEstablish, GoBundle, SameExceptBundle, WriteSession, TypeOK, HandlerType,
      SessionType
<1>2. Alone(c)
  BY <1>1, NoKeyMoves
<1>3. \A d \in Calls \ {c} : Shown(d)' = Shown(d)
  BY <1>1, <1>2 DEF Alone, BundleEstablish, GoBundle, WriteSession, Shown
<1>4. CallInv(c)' /\ Backed(c)
  BY <1>1, <1>2, Given, DeadlinesAssumption
  DEF Alone, Backed, CallInv, RequestLocal, BundleLocal, RuntimeLocal, FinishLocal,
      Finishing, WebhookLocal, CancelLocal, StandLocal, Intact, Stands, VerdictLocal,
      Live, InTxn, Undoing, Dispositions, NotIndexed, CallType, Finishers,
      InTimeAssumption, Handlers
<1> QED BY <1>2, <1>3, <1>4, OneCallMoves DEF Alone

LEMMA BundleIndexLive ==
    ASSUME InTimeAssumption, LedgerInv, LiveInv, NEW c \in Calls, BundleIndex(c)
    PROVE  LiveInv' /\ AllBacked
<1>1. /\ bundle[c] = "set" /\ recoverIn'[c] = RecoverSecs /\ bundle'[c] = "indexed"
      /\ UNCHANGED <<req, runtime, liveLeft, verdict, session, mode, attempt, owner,
                     cancelVars, finVars, leaseVars, slotVars, slotOf>>
  BY Given
  DEF BundleIndex, GoBundle, SameExceptBundle, Index, TypeOK, HandlerType, SessionType
<1>2. Alone(c)
  BY <1>1, NoKeyMoves
<1>3. \A d \in Calls \ {c} : Shown(d)' = Shown(d)
  BY <1>1, <1>2 DEF Alone, BundleIndex, GoBundle, Index, Shown
<1>4. CallInv(c)' /\ Backed(c)
  BY <1>1, <1>2, Given, DeadlinesAssumption
  DEF Alone, Backed, CallInv, RequestLocal, BundleLocal, RuntimeLocal, FinishLocal,
      Finishing, WebhookLocal, CancelLocal, StandLocal, Intact, Stands, VerdictLocal,
      Live, Undoing, Dispositions, NotIndexed, CallType, Finishers, InTimeAssumption,
      Handlers
<1> QED BY <1>2, <1>3, <1>4, OneCallMoves DEF Alone

LEMMA BundleReturnLive ==
    ASSUME InTimeAssumption, LedgerInv, LiveInv, NEW c \in Calls, BundleReturn(c)
    PROVE  LiveInv' /\ AllBacked
<1>0. runtime[c] = "idle"
  BY Given DEF BundleReturn, GoBundle, CallInv, BundleLocal
<1>1. /\ bundle[c] = "indexed" /\ runtime'[c] = "live" /\ liveLeft'[c] = MaxCallSecs
         /\ bundle'[c] = "idle"
      /\ UNCHANGED <<req, verdict, session, recoverIn, mode, attempt, owner,
                     cancelVars, finVars, leaseVars, slotVars, slotOf>>
  BY <1>0, Given
  DEF BundleReturn, GoBundle, SameExceptBundle, Conduct, TypeOK, HandlerType,
      RuntimeType
<1>2. Alone(c)
  BY <1>1, NoKeyMoves
<1>3. \A d \in Calls \ {c} : Shown(d)' = Shown(d)
  BY <1>1, <1>2, Given
  DEF Alone, BundleReturn, GoBundle, Conduct, Shown, TypeOK, RuntimeType
<1>4. CallInv(c)' /\ Backed(c)
  BY <1>0, <1>1, <1>2, Given, DeadlinesAssumption
  DEF Alone, Backed, CallInv, RequestLocal, BundleLocal, RuntimeLocal, FinishLocal,
      Finishing, WebhookLocal, CancelLocal, StandLocal, Intact, Stands, VerdictLocal,
      Live, Requesting, Undoing, Dispositions, NotIndexed, CallType, Finishers,
      InTimeAssumption, Handlers
<1> QED BY <1>2, <1>3, <1>4, OneCallMoves DEF Alone

LEMMA BundleDiesLive ==
    ASSUME InTimeAssumption, LedgerInv, LiveInv, NEW c \in Calls, BundleDies(c)
    PROVE  LiveInv' /\ AllBacked
<1>1. /\ bundle[c] # "idle" /\ bundle'[c] = "idle"
      /\ UNCHANGED <<req, runtime, liveLeft, verdict, session, recoverIn, mode,
                     attempt, owner, cancelVars, finVars, leaseVars, slotVars, slotOf>>
  BY Given DEF BundleDies, GoBundle, SameExceptBundle, TypeOK, HandlerType
<1>2. Alone(c)
  BY <1>1, NoKeyMoves
<1>3. \A d \in Calls \ {c} : Shown(d)' = Shown(d)
  BY <1>1, <1>2 DEF Alone, BundleDies, GoBundle, Shown
<1>4. CallInv(c)' /\ Backed(c)
  BY <1>1, <1>2, Given, DeadlinesAssumption
  DEF Alone, Backed, CallInv, RequestLocal, BundleLocal, RuntimeLocal, FinishLocal,
      Finishing, WebhookLocal, CancelLocal, StandLocal, Intact, Stands, VerdictLocal,
      Live, Requesting, Undoing, Dispositions, NotIndexed, CallType, Finishers,
      InTimeAssumption, Handlers
<1> QED BY <1>2, <1>3, <1>4, OneCallMoves DEF Alone

LEMMA RuntimeReportsLive ==
    ASSUME InTimeAssumption, LedgerInv, LiveInv, NEW c \in Calls, NEW d \in Dispositions,
           RuntimeReports(c, d)
    PROVE  LiveInv' /\ AllBacked
<1>1. /\ runtime[c] = "live" /\ runtime'[c] = "over" /\ verdict'[c] = d
      /\ UNCHANGED <<req, bundle, liveLeft, session, recoverIn, mode, attempt, owner,
                     cancelVars, finVars, leaseVars, slotVars, slotOf>>
  BY Given DEF RuntimeReports, SameExceptRuntime, TypeOK, RuntimeType
<1>2. Alone(c)
  BY <1>1, NoKeyMoves
<1>3. \A x \in Calls \ {c} : Shown(x)' = Shown(x)
  BY <1>1, <1>2 DEF Alone, RuntimeReports, Shown
<1>4. CallInv(c)' /\ Backed(c)
  BY <1>1, <1>2, Given, DeadlinesAssumption
  DEF Alone, Backed, CallInv, RequestLocal, BundleLocal, RuntimeLocal, FinishLocal,
      Finishing, WebhookLocal, CancelLocal, StandLocal, Intact, Stands, VerdictLocal,
      Live, Requesting, Undoing, Dispositions, NotIndexed, CallType, Finishers,
      InTimeAssumption, Handlers
<1> QED BY <1>2, <1>3, <1>4, OneCallMoves DEF Alone

LEMMA RuntimeLostLive ==
    ASSUME InTimeAssumption, LedgerInv, LiveInv, NEW c \in Calls, RuntimeLost(c)
    PROVE  LiveInv' /\ AllBacked
<1>1. /\ runtime[c] = "live" /\ runtime'[c] = "over"
      /\ UNCHANGED <<req, bundle, liveLeft, verdict, session, recoverIn, mode, attempt,
                     owner, cancelVars, finVars, leaseVars, slotVars, slotOf>>
  BY Given DEF RuntimeLost, SameExceptRuntime, TypeOK, RuntimeType
<1>2. Alone(c)
  BY <1>1, NoKeyMoves
<1>3. \A d \in Calls \ {c} : Shown(d)' = Shown(d)
  BY <1>1, <1>2 DEF Alone, RuntimeLost, Shown
<1>4. CallInv(c)' /\ Backed(c)
  BY <1>1, <1>2, Given, DeadlinesAssumption
  DEF Alone, Backed, CallInv, RequestLocal, BundleLocal, RuntimeLocal, FinishLocal,
      Finishing, WebhookLocal, CancelLocal, StandLocal, Intact, Stands, VerdictLocal,
      Live, Requesting, Undoing, Dispositions, NotIndexed, CallType, Finishers,
      InTimeAssumption, Handlers
<1> QED BY <1>2, <1>3, <1>4, OneCallMoves DEF Alone

LEMMA CallbackReadLive ==
    ASSUME InTimeAssumption, LedgerInv, LiveInv, NEW c \in Calls, CallbackRead(c)
    PROVE  LiveInv' /\ AllBacked
<1>0. runtime[c] = "over" /\ verdict[c] # "none" /\ Live(c)
  BY DEF CallbackRead, Undelivered
<1>1. /\ fin["callback"][c] = "idle" /\ fin'["callback"][c] = AfterRead(c)
      /\ \A g \in Finishers, d \in Calls : g # "callback" \/ d # c => fin'[g][d] = fin[g][d]
      /\ doing'["callback"][c] = verdict[c]
      /\ \A g \in Finishers, d \in Calls : g # "callback" \/ d # c => doing'[g][d] = doing[g][d]
      /\ UNCHANGED <<req, bundle, runtime, liveLeft, verdict, session, recoverIn, mode,
                     attempt, owner, cancelVars, leaseVars, slotVars, slotOf>>
  BY Given, Finishes
  DEF CallbackRead, SameExceptFin, Decide, TypeOK, HandlerType, Finishers
<1>2. Alone(c)
  BY <1>1, NoKeyMoves
<1>3. \A d \in Calls \ {c} : Shown(d)' = Shown(d)
  BY <1>1, <1>2, Given DEF Alone, Shown, Finishers
<1>4. CallInv(c)' /\ Backed(c)
  BY <1>0, <1>1, <1>2, Given, DeadlinesAssumption
  DEF Alone, Backed, CallInv, RequestLocal, BundleLocal, RuntimeLocal, FinishLocal,
      Finishing, WebhookLocal, CancelLocal, StandLocal, Intact, VerdictLocal, Live,
      Requesting, Undoing, Dispositions, NotIndexed, CallType, AfterRead, Finishers,
      InTimeAssumption, Handlers
<1> QED BY <1>2, <1>3, <1>4, OneCallMoves DEF Alone

LEMMA SweepListLive ==
    ASSUME InTimeAssumption, LedgerInv, LiveInv, NEW c \in Calls, SweepList(c)
    PROVE  LiveInv' /\ AllBacked
<1>0. recoverIn[c] = 0 /\ session[c] # "TERMINAL"
  BY DEF SweepList, Overdue
<1>1. /\ fin["sweeper"][c] = "idle" /\ fin'["sweeper"][c] = "listed"
      /\ \A g \in Finishers, d \in Calls : g # "sweeper" \/ d # c => fin'[g][d] = fin[g][d]
      /\ UNCHANGED <<req, bundle, runtime, liveLeft, verdict, session, recoverIn, mode,
                     attempt, owner, doing, cancelVars, leaseVars, slotVars, slotOf>>
  BY Given, Finishes DEF SweepList, SameExceptFin, Finishers
<1>2. Alone(c)
  BY <1>1, NoKeyMoves
<1>3. \A d \in Calls \ {c} : Shown(d)' = Shown(d)
  BY <1>1, <1>2 DEF Alone, Shown, Finishers
<1>4. CallInv(c)' /\ Backed(c)
  BY <1>0, <1>1, <1>2, Given, DeadlinesAssumption
  DEF Alone, Backed, CallInv, RequestLocal, BundleLocal, RuntimeLocal, FinishLocal,
      Finishing, WebhookLocal, CancelLocal, StandLocal, Intact, VerdictLocal, Live,
      Requesting, Undoing, Dispositions, NotIndexed, CallType, Finishers,
      InTimeAssumption, Handlers
<1> QED BY <1>2, <1>3, <1>4, OneCallMoves DEF Alone

LEMMA SweepReadNoneLive ==
    ASSUME InTimeAssumption, LedgerInv, LiveInv, NEW c \in Calls, session[c] = "none",
           SweepRead(c)
    PROVE  LiveInv' /\ AllBacked
<1>1. /\ fin["sweeper"][c] = "listed" /\ fin'["sweeper"][c] = "idle"
      /\ \A g \in Finishers, d \in Calls : g # "sweeper" \/ d # c => fin'[g][d] = fin[g][d]
      /\ recoverIn'[c] = NotIndexed
      /\ UNCHANGED <<req, bundle, runtime, liveLeft, verdict, session, mode, attempt,
                     owner, doing, cancelVars, leaseVars, slotVars, slotOf>>
  BY Given, Finishes
  DEF SweepRead, SameExceptFin, Unindex, Live, TypeOK, SessionType, Finishers
<1>2. Alone(c)
  BY <1>1, NoKeyMoves
<1>3. \A d \in Calls \ {c} : Shown(d)' = Shown(d)
  BY <1>1, <1>2, Given
  DEF Alone, SweepRead, Unindex, Shown, TypeOK, SessionType, Finishers
<1>4. CallInv(c)' /\ Backed(c)
  BY <1>1, <1>2, Given, DeadlinesAssumption
  DEF Alone, Backed, CallInv, RequestLocal, BundleLocal, RuntimeLocal, FinishLocal,
      Finishing, WebhookLocal, CancelLocal, StandLocal, Intact, VerdictLocal, Live,
      Requesting, Undoing, Dispositions, NotIndexed, CallType, Finishers,
      InTimeAssumption, Handlers
<1> QED BY <1>2, <1>3, <1>4, OneCallMoves DEF Alone

LEMMA SweepReadTerminalLive ==
    ASSUME InTimeAssumption, LedgerInv, LiveInv, NEW c \in Calls, session[c] = "TERMINAL",
           SweepRead(c)
    PROVE  LiveInv' /\ AllBacked
<1>1. /\ fin["sweeper"][c] = "listed" /\ fin'["sweeper"][c] = "idle"
      /\ \A g \in Finishers, d \in Calls : g # "sweeper" \/ d # c => fin'[g][d] = fin[g][d]
      /\ UNCHANGED <<req, bundle, runtime, liveLeft, verdict, session, recoverIn, mode,
                     attempt, owner, doing, cancelVars, leaseVars, slotVars, slotOf>>
  BY Given, Finishes DEF SweepRead, SameExceptFin, Live, Finishers
<1>2. Alone(c)
  BY <1>1, NoKeyMoves
<1>3. \A d \in Calls \ {c} : Shown(d)' = Shown(d)
  BY <1>1, <1>2 DEF Alone, Shown, Finishers
<1>4. CallInv(c)' /\ Backed(c)
  BY <1>1, <1>2, Given, DeadlinesAssumption
  DEF Alone, Backed, CallInv, RequestLocal, BundleLocal, RuntimeLocal, FinishLocal,
      Finishing, WebhookLocal, CancelLocal, StandLocal, Intact, VerdictLocal, Live,
      Requesting, Undoing, Dispositions, NotIndexed, CallType, Finishers,
      InTimeAssumption, Handlers
<1> QED BY <1>2, <1>3, <1>4, OneCallMoves DEF Alone

LEMMA SweepReadLiveLive ==
    ASSUME InTimeAssumption, LedgerInv, LiveInv, NEW c \in Calls, session[c] \in {"PENDING",
           "ESTABLISHED"}, SweepRead(c)
    PROVE  LiveInv' /\ AllBacked
<1>0. GoFin("sweeper", c, "listed", AfterRead(c)) /\ Decide("sweeper", c, Inferred(c))
  BY DEF SweepRead, Live
<1>1. /\ fin["sweeper"][c] = "listed" /\ fin'["sweeper"][c] = AfterRead(c)
      /\ \A g \in Finishers, d \in Calls : g # "sweeper" \/ d # c => fin'[g][d] = fin[g][d]
      /\ doing'["sweeper"][c] = Inferred(c)
      /\ \A g \in Finishers, d \in Calls : g # "sweeper" \/ d # c => doing'[g][d] = doing[g][d]
      /\ UNCHANGED <<req, bundle, runtime, liveLeft, verdict, session, recoverIn, mode,
                     attempt, owner, cancelVars, leaseVars, slotVars, slotOf>>
  BY Given, Finishes
  DEF SweepRead, SameExceptFin, Decide, TypeOK, HandlerType, Finishers
<1>2. Alone(c)
  BY <1>1, NoKeyMoves
<1>3. \A d \in Calls \ {c} : Shown(d)' = Shown(d)
  BY <1>1, <1>2, Given DEF Alone, Shown, Finishers
<1>4. CallInv(c)' /\ Backed(c)
  BY <1>0, <1>1, <1>2, Given, DeadlinesAssumption
  DEF Alone, Backed, CallInv, RequestLocal, BundleLocal, RuntimeLocal, FinishLocal,
      Finishing, WebhookLocal, CancelLocal, StandLocal, Intact, VerdictLocal, Live,
      Requesting, Undoing, Dispositions, NotIndexed, CallType, AfterRead, Finishers,
      InTimeAssumption, Handlers
<1> QED BY <1>2, <1>3, <1>4, OneCallMoves DEF Alone

LEMMA WebhookReadLive ==
    ASSUME InTimeAssumption, LedgerInv, LiveInv, NEW c \in Calls, WebhookRead(c)
    PROVE  LiveInv' /\ AllBacked
<1>0. req[c] = "granted"
  BY Given DEF WebhookRead
<1>1. /\ fin["webhook"][c] = "idle" /\ fin'["webhook"][c] = "lease?"
      /\ \A g \in Finishers, d \in Calls : g # "webhook" \/ d # c => fin'[g][d] = fin[g][d]
      /\ doing'["webhook"][c] = Inferred(c)
      /\ \A g \in Finishers, d \in Calls : g # "webhook" \/ d # c => doing'[g][d] = doing[g][d]
      /\ UNCHANGED <<req, bundle, runtime, liveLeft, verdict, session, recoverIn, mode,
                     attempt, owner, cancelVars, leaseVars, slotVars, slotOf>>
  BY Given, Finishes
  DEF WebhookRead, SameExceptFin, Decide, TypeOK, HandlerType, Finishers
<1>2. Alone(c)
  BY <1>1, NoKeyMoves
<1>3. \A d \in Calls \ {c} : Shown(d)' = Shown(d)
  BY <1>1, <1>2 DEF Alone, Shown, Finishers
<1>4. CallInv(c)' /\ Backed(c)
  BY <1>0, <1>1, <1>2, Given, DeadlinesAssumption
  DEF Alone, Backed, CallInv, RequestLocal, BundleLocal, RuntimeLocal, FinishLocal,
      Finishing, WebhookLocal, CancelLocal, StandLocal, Intact, Stands, VerdictLocal,
      Live, Requesting, Undoing, Dispositions, NotIndexed, CallType, Finishers,
      InTimeAssumption, Handlers
<1> QED BY <1>2, <1>3, <1>4, OneCallMoves DEF Alone

LEMMA WebhookReadFreeLive ==
    ASSUME InTimeAssumption, LedgerInv, LiveInv, NEW c \in Calls, leaseOf[owner[c]] = NoCall,
           WebhookReadLease(c)
    PROVE  LiveInv' /\ AllBacked
<1>0. req[c] = "granted" /\ Lease(c) = 0
  BY Given, Held, ParticipantsAssumption
  DEF WebhookReadLease, GoFin, CallInv, RequestLocal, CallType
<1>1. /\ fin["webhook"][c] = "lease?" /\ fin'["webhook"][c] = "txn"
      /\ \A g \in Finishers, d \in Calls : g # "webhook" \/ d # c => fin'[g][d] = fin[g][d]
      /\ UNCHANGED <<req, bundle, runtime, liveLeft, verdict, session, recoverIn, mode,
                     attempt, owner, doing, cancelVars, leaseVars, slotVars, slotOf>>
  BY Given, Finishes DEF WebhookReadLease, SameExceptFin, Finishers
<1>2. Alone(c)
  BY <1>1, NoKeyMoves
<1>3. \A d \in Calls \ {c} : Shown(d)' = Shown(d)
  BY <1>1, <1>2 DEF Alone, Shown, Finishers
<1>4. CallInv(c)' /\ Backed(c)
  BY <1>0, <1>1, <1>2, Given, DeadlinesAssumption
  DEF Alone, Backed, CallInv, RequestLocal, BundleLocal, RuntimeLocal, FinishLocal,
      Finishing, WebhookLocal, CancelLocal, StandLocal, Intact, Stands, VerdictLocal,
      Live, Requesting, Undoing, Dispositions, NotIndexed, CallType, Finishers,
      InTimeAssumption, Handlers
<1> QED BY <1>2, <1>3, <1>4, OneCallMoves DEF Alone

LEMMA WebhookReadHeldLive ==
    ASSUME InTimeAssumption, LedgerInv, LiveInv, NEW c \in Calls, leaseOf[owner[c]] # NoCall,
           WebhookReadLease(c)
    PROVE  LiveInv' /\ AllBacked
<1>0. GoFin("webhook", c, "lease?", "idle") /\ Decided("webhook", c)
  BY Given DEF WebhookReadLease
<1>1. /\ fin["webhook"][c] = "lease?" /\ fin'["webhook"][c] = "idle"
      /\ \A g \in Finishers, d \in Calls : g # "webhook" \/ d # c => fin'[g][d] = fin[g][d]
      /\ doing'["webhook"][c] = "void"
      /\ \A g \in Finishers, d \in Calls : g # "webhook" \/ d # c => doing'[g][d] = doing[g][d]
      /\ UNCHANGED <<req, bundle, runtime, liveLeft, verdict, session, recoverIn, mode,
                     attempt, owner, cancelVars, leaseVars, slotVars, slotOf>>
  BY Given, Finishes
  DEF WebhookReadLease, SameExceptFin, Decided, TypeOK, HandlerType, Finishers
<1>2. Alone(c)
  BY <1>1, NoKeyMoves
<1>3. \A d \in Calls \ {c} : Shown(d)' = Shown(d)
  BY <1>1, <1>2 DEF Alone, Shown, Finishers
<1>4. CallInv(c)' /\ Backed(c)
  BY <1>0, <1>1, <1>2, Given, DeadlinesAssumption
  DEF Alone, Backed, CallInv, RequestLocal, BundleLocal, RuntimeLocal, FinishLocal,
      Finishing, WebhookLocal, CancelLocal, StandLocal, Intact, Stands, VerdictLocal,
      Live, Requesting, Undoing, Dispositions, NotIndexed, CallType, Finishers,
      InTimeAssumption, Handlers
<1> QED BY <1>2, <1>3, <1>4, OneCallMoves DEF Alone

LEMMA FinTransactionLive ==
    ASSUME InTimeAssumption, LedgerInv, LiveInv, NEW c \in Calls, NEW f \in Finishers,
           FinTransaction(f, c)
    PROVE  LiveInv' /\ AllBacked
<1>1. /\ fin[f][c] = "txn" /\ fin'[f][c] = AfterTxn(f, c)
      /\ \A g \in Finishers, d \in Calls : g # f \/ d # c => fin'[g][d] = fin[g][d]
      /\ doing'[f][c] = "void"
      /\ \A g \in Finishers, d \in Calls : g # f \/ d # c => doing'[g][d] = doing[g][d]
      /\ attempt'[c] = (IF attempt[c] = "in_progress" THEN OutcomeOf[doing[f][c]] ELSE attempt[c])
      /\ UNCHANGED <<req, bundle, runtime, liveLeft, verdict, session, recoverIn, mode,
                     owner, cancelVars, leaseVars, slotVars, slotOf>>
  BY Given, Finishes
  DEF FinTransaction, SameExceptFin, Decided, Complete, Interrupt, OutcomeOf,
      Dispositions, TypeOK, HandlerType, RowType
<1>2. Alone(c)
  BY <1>1, NoKeyMoves
<1>3. \A d \in Calls \ {c} : Shown(d)' = Shown(d)
  BY <1>1, <1>2, Given
  DEF Alone, FinTransaction, Complete, Interrupt, Shown, TypeOK, RowType, Finishers
<1>4. CallInv(c)' /\ Backed(c)
  <2>1. attempt'[c] \in {attempt[c], "completed", "interrupted", "deleted"}
           /\ attempt'[c] # "in_progress"
    <3>1. doing[f][c] \in Dispositions
      BY Given DEF TypeOK, HandlerType
    <3> QED BY <1>1, <3>1 DEF OutcomeOf
  <2>2. CASE f = "callback"
    BY <1>1, <1>2, Given, DeadlinesAssumption, <2>1, <2>2
    DEF Alone, Backed, CallInv, RequestLocal, BundleLocal, RuntimeLocal, FinishLocal,
        Finishing, WebhookLocal, CancelLocal, StandLocal, Intact, VerdictLocal, Live,
        Requesting, Undoing, Dispositions, NotIndexed, CallType, AfterTxn, OutcomeOf,
        Finishers, InTimeAssumption, Handlers
  <2>3. CASE f = "sweeper"
    BY <1>1, <1>2, Given, DeadlinesAssumption, <2>1, <2>3
    DEF Alone, Backed, CallInv, RequestLocal, BundleLocal, RuntimeLocal, FinishLocal,
        Finishing, WebhookLocal, CancelLocal, StandLocal, Intact, VerdictLocal, Live,
        Requesting, Undoing, Dispositions, NotIndexed, CallType, AfterTxn, OutcomeOf,
        Finishers, InTimeAssumption, Handlers
  <2>4. CASE f = "webhook"
    BY <1>1, <1>2, Given, DeadlinesAssumption, <2>1, <2>4
    DEF Alone, Backed, CallInv, RequestLocal, BundleLocal, RuntimeLocal, FinishLocal,
        Finishing, WebhookLocal, CancelLocal, StandLocal, Intact, Stands, VerdictLocal,
        Live, Requesting, Undoing, Dispositions, NotIndexed, CallType, AfterTxn,
        OutcomeOf, Finishers, InTimeAssumption, Handlers
  <2> QED BY <2>2, <2>3, <2>4 DEF Finishers
<1> QED BY <1>2, <1>3, <1>4, OneCallMoves DEF Alone

LEMMA FinLeaseLive ==
    ASSUME InTimeAssumption, LedgerInv, LiveInv, NEW c \in Calls, NEW f \in Finishers,
           FinLease(f, c)
    PROVE  LiveInv' /\ AllBacked
<1>a. fin[f][c] = "lease"
  BY Given, Finishes DEF FinLease
<1>0. f \in {"callback", "sweeper"} /\ req[c] # "idle"
  BY <1>a, Given
  DEF CallInv, WebhookLocal, FinishLocal, RequestLocal, Finishers, NotIndexed
<1>1. /\ fin[f][c] = "lease" /\ fin'[f][c] = "slot"
      /\ \A g \in Finishers, d \in Calls : g # f \/ d # c => fin'[g][d] = fin[g][d]
      /\ UNCHANGED <<req, bundle, runtime, liveLeft, verdict, session, recoverIn, mode,
                     attempt, owner, doing, cancelVars, slotVars, slotOf>>
  BY Given, Finishes DEF FinLease, SameExceptFin
<1>2. Lease(c)' = 0 /\ \A d \in Calls \ {c} : Lease(d)' = Lease(d)
  BY <1>0, <1>1, Given, LeaseReleased DEF FinLease
<1>3. Slot(c)' = Slot(c) /\ \A d \in Calls \ {c} : Slot(d)' = Slot(d)
  BY <1>1, SlotKept
<1>4. CancelOf(c)' = CancelOf(c) /\ \A d \in Calls \ {c} : CancelOf(d)' = CancelOf(d)
  BY <1>1, CancelKept
<1>5. \A d \in Calls \ {c} : Shown(d)' = Shown(d)
  BY <1>1, <1>2, <1>3, <1>4 DEF Shown, Finishers
<1>6. KeysOwned'
  BY <1>1, Given DEF FinLease, ReleaseLease, KeysOwned, TypeOK, LeaseType
<1>7. CancelOwned'
  BY <1>1, Given, CancelsKept
<1>8. CallInv(c)' /\ Backed(c)
  BY <1>0, <1>1, <1>2, <1>3, <1>4, Given, DeadlinesAssumption
  DEF Backed, CallInv, RequestLocal, BundleLocal, RuntimeLocal, FinishLocal, Finishing,
      WebhookLocal, CancelLocal, StandLocal, Intact, VerdictLocal, Requesting,
      RequestPC, InTxn, Undoing, Dispositions, NotIndexed, CallType, Finishers,
      InTimeAssumption, Handlers
<1> QED BY <1>5, <1>6, <1>7, <1>8, OneCallMoves

LEMMA FinReadSlotLive ==
    ASSUME InTimeAssumption, LedgerInv, LiveInv, NEW c \in Calls, NEW f \in Finishers,
           FinReadSlot(f, c)
    PROVE  LiveInv' /\ AllBacked
<1>a. fin[f][c] = "slot"
  BY Given, Finishes DEF FinReadSlot
<1>0. f \in {"callback", "sweeper"} /\ req[c] # "idle"
  BY <1>a, Given
  DEF CallInv, WebhookLocal, FinishLocal, RequestLocal, Finishers, NotIndexed
<1>b. fin'[f][c] = "slotDel" => Slot(c) > 0
  BY <1>0, Given, Held, Finishes DEF FinReadSlot
<1>1. /\ fin[f][c] = "slot" /\ fin'[f][c] \in {"slotDel", "mark"}
      /\ \A g \in Finishers, d \in Calls : g # f \/ d # c => fin'[g][d] = fin[g][d]
      /\ UNCHANGED <<req, bundle, runtime, liveLeft, verdict, session, recoverIn, mode,
                     attempt, owner, doing, cancelVars, leaseVars, slotVars, slotOf>>
  BY Given, Finishes DEF FinReadSlot, SameExceptFin, Finishers
<1>2. Alone(c)
  BY <1>1, NoKeyMoves
<1>3. \A d \in Calls \ {c} : Shown(d)' = Shown(d)
  BY <1>1, <1>2 DEF Alone, Shown, Finishers
<1>4. CallInv(c)' /\ Backed(c)
  BY <1>0, <1>b, <1>1, <1>2, Given, DeadlinesAssumption
  DEF Alone, Backed, CallInv, RequestLocal, BundleLocal, RuntimeLocal, FinishLocal,
      Finishing, WebhookLocal, CancelLocal, StandLocal, Intact, VerdictLocal,
      Requesting, Undoing, Dispositions, NotIndexed, CallType, Finishers,
      InTimeAssumption, Handlers
<1> QED BY <1>2, <1>3, <1>4, OneCallMoves DEF Alone

LEMMA FinDeleteSlotLive ==
    ASSUME InTimeAssumption, LedgerInv, LiveInv, NEW c \in Calls, NEW f \in Finishers,
           FinDeleteSlot(f, c)
    PROVE  LiveInv' /\ AllBacked
<1>a. fin[f][c] = "slotDel"
  BY Given, Finishes DEF FinDeleteSlot
<1>0. f \in {"callback", "sweeper"} /\ req[c] # "idle" /\ Slot(c) > 0
  BY <1>a, Given
  DEF CallInv, WebhookLocal, FinishLocal, RequestLocal, Finishing, Finishers, NotIndexed
<1>1. /\ fin[f][c] = "slotDel" /\ fin'[f][c] = "mark"
      /\ \A g \in Finishers, d \in Calls : g # f \/ d # c => fin'[g][d] = fin[g][d]
      /\ UNCHANGED <<req, bundle, runtime, liveLeft, verdict, session, recoverIn, mode,
                     attempt, owner, doing, cancelVars, leaseVars, slotOf>>
  BY Given, Finishes DEF FinDeleteSlot, SameExceptFin
<1>2. Lease(c)' = Lease(c) /\ \A d \in Calls \ {c} : Lease(d)' = Lease(d)
  BY <1>1, LeaseKept
<1>3. Slot(c)' = 0 /\ \A d \in Calls \ {c} : Slot(d)' = Slot(d)
  BY <1>0, <1>1, Given, SlotDeleted DEF FinDeleteSlot
<1>4. CancelOf(c)' = CancelOf(c) /\ \A d \in Calls \ {c} : CancelOf(d)' = CancelOf(d)
  BY <1>1, CancelKept
<1>5. \A d \in Calls \ {c} : Shown(d)' = Shown(d)
  BY <1>1, <1>2, <1>3, <1>4 DEF Shown, Finishers
<1>6. KeysOwned'
  BY <1>1, Given, ParticipantsAssumption, DeadlinesAssumption
  DEF FinDeleteSlot, DeleteSlot, KeysOwned, TypeOK, SlotType
<1>7. CancelOwned'
  BY <1>1, Given, CancelsKept
<1>8. CallInv(c)' /\ Backed(c)
  BY <1>0, <1>1, <1>2, <1>3, <1>4, Given, DeadlinesAssumption
  DEF Backed, CallInv, RequestLocal, BundleLocal, RuntimeLocal, FinishLocal, Finishing,
      WebhookLocal, CancelLocal, StandLocal, Intact, VerdictLocal, Requesting, InTxn,
      Dispositions, NotIndexed, CallType, Finishers, InTimeAssumption, Handlers
<1> QED BY <1>5, <1>6, <1>7, <1>8, OneCallMoves

LEMMA FinMarkLive ==
    ASSUME InTimeAssumption, LedgerInv, LiveInv, NEW c \in Calls, NEW f \in Finishers,
           FinMark(f, c)
    PROVE  LiveInv' /\ AllBacked
<1>a. fin[f][c] = "mark"
  BY Given, Finishes DEF FinMark
<1>0. f \in {"callback", "sweeper"} /\ req[c] # "idle"
  BY <1>a, Given
  DEF CallInv, WebhookLocal, FinishLocal, RequestLocal, Finishers, NotIndexed
<1>1. /\ fin[f][c] = "mark" /\ fin'[f][c] = "unindex"
      /\ \A g \in Finishers, d \in Calls : g # f \/ d # c => fin'[g][d] = fin[g][d]
      /\ session'[c] = "TERMINAL"
      /\ UNCHANGED <<req, bundle, runtime, liveLeft, verdict, recoverIn, mode, attempt,
                     owner, doing, cancelVars, leaseVars, slotVars, slotOf>>
  BY Given, Finishes
  DEF FinMark, SameExceptFin, WriteSession, TypeOK, SessionType, Finishers
<1>2. Alone(c)
  BY <1>1, NoKeyMoves
<1>3. \A d \in Calls \ {c} : Shown(d)' = Shown(d)
  BY <1>1, <1>2 DEF Alone, FinMark, WriteSession, Shown, Finishers
<1>4. CallInv(c)' /\ Backed(c)
  BY <1>0, <1>1, <1>2, Given, DeadlinesAssumption
  DEF Alone, Backed, CallInv, RequestLocal, BundleLocal, RuntimeLocal, FinishLocal,
      Finishing, WebhookLocal, CancelLocal, StandLocal, Intact, VerdictLocal,
      Requesting, InTxn, Undoing, Dispositions, NotIndexed, CallType, Finishers,
      InTimeAssumption, Handlers
<1> QED BY <1>2, <1>3, <1>4, OneCallMoves DEF Alone

LEMMA FinUnindexLive ==
    ASSUME InTimeAssumption, LedgerInv, LiveInv, NEW c \in Calls, NEW f \in Finishers,
           FinUnindex(f, c)
    PROVE  LiveInv' /\ AllBacked
<1>a. fin[f][c] = "unindex"
  BY Given, Finishes DEF FinUnindex
<1>0. f \in {"callback", "sweeper"} /\ req[c] # "idle"
  BY <1>a, Given
  DEF CallInv, WebhookLocal, FinishLocal, RequestLocal, Finishers, NotIndexed
<1>1. /\ fin[f][c] = "unindex" /\ fin'[f][c] = "idle"
      /\ \A g \in Finishers, d \in Calls : g # f \/ d # c => fin'[g][d] = fin[g][d]
      /\ recoverIn'[c] = NotIndexed
      /\ UNCHANGED <<req, bundle, runtime, liveLeft, verdict, session, mode, attempt,
                     owner, doing, cancelVars, leaseVars, slotVars, slotOf>>
  BY Given, Finishes
  DEF FinUnindex, SameExceptFin, Unindex, TypeOK, SessionType, Finishers
<1>2. Alone(c)
  BY <1>1, NoKeyMoves
<1>3. \A d \in Calls \ {c} : Shown(d)' = Shown(d)
  BY <1>1, <1>2 DEF Alone, FinUnindex, Unindex, Shown, Finishers
<1>4. CallInv(c)' /\ Backed(c)
  BY <1>0, <1>1, <1>2, Given, DeadlinesAssumption
  DEF Alone, Backed, CallInv, RequestLocal, BundleLocal, RuntimeLocal, FinishLocal,
      Finishing, WebhookLocal, CancelLocal, StandLocal, Intact, VerdictLocal,
      Requesting, Undoing, Dispositions, NotIndexed, CallType, Finishers,
      InTimeAssumption, Handlers
<1> QED BY <1>2, <1>3, <1>4, OneCallMoves DEF Alone

LEMMA FinDiesLive ==
    ASSUME InTimeAssumption, LedgerInv, LiveInv, NEW c \in Calls, NEW f \in Finishers,
           FinDies(f, c)
    PROVE  LiveInv' /\ AllBacked
<1>1. /\ fin[f][c] # "idle" /\ fin'[f][c] = "idle"
      /\ \A g \in Finishers, d \in Calls : g # f \/ d # c => fin'[g][d] = fin[g][d]
      /\ doing'[f][c] = "void"
      /\ \A g \in Finishers, d \in Calls : g # f \/ d # c => doing'[g][d] = doing[g][d]
      /\ UNCHANGED <<req, bundle, runtime, liveLeft, verdict, session, recoverIn, mode,
                     attempt, owner, cancelVars, leaseVars, slotVars, slotOf>>
  BY Given, Finishes DEF FinDies, SameExceptFin, Decided, TypeOK, HandlerType
<1>2. Alone(c)
  BY <1>1, NoKeyMoves
<1>3. \A d \in Calls \ {c} : Shown(d)' = Shown(d)
  BY <1>1, <1>2 DEF Alone, Shown, Finishers
<1>4. CallInv(c)' /\ Backed(c)
  BY <1>1, <1>2, Given, DeadlinesAssumption
  DEF Alone, Backed, CallInv, RequestLocal, BundleLocal, RuntimeLocal, FinishLocal,
      Finishing, WebhookLocal, CancelLocal, StandLocal, Intact, Stands, VerdictLocal,
      Live, Requesting, Undoing, Dispositions, NotIndexed, CallType, Finishers,
      InTimeAssumption, Handlers
<1> QED BY <1>2, <1>3, <1>4, OneCallMoves DEF Alone

LEMMA CancelReadPendingLive ==
    ASSUME InTimeAssumption, LedgerInv, LiveInv, NEW c \in Calls, NEW p \in Participants,
           session[c] = "PENDING", c = cancelling[p], CancelReadSession(p)
    PROVE  LiveInv' /\ AllBacked
<1>0. /\ owner[c] = p /\ req[c] = "granted" /\ cancel[p] = "read" /\ CancelOf(c) = "read"
  BY Given, Cancelled DEF CancelReadSession, GoCancel, CancelOwned
<1>1. /\ cancel'[p] = (IF mode[c] = "attempt" THEN "txn" ELSE "slot") /\ cancelling'[p] = c
      /\ owner' = owner /\ \A x \in Participants \ {p} : cancel'[x] = cancel[x]
         /\ cancelling'[x] = cancelling[x]
      /\ UNCHANGED <<req, bundle, runtime, liveLeft, verdict, session, recoverIn, mode,
                     attempt, owner, finVars, leaseVars, slotVars, slotOf>>
  BY Given DEF CancelReadSession, GoCancel, SameExceptCancel, TypeOK, HandlerType
<1>2. Lease(c)' = Lease(c) /\ \A d \in Calls \ {c} : Lease(d)' = Lease(d)
  BY <1>1, LeaseKept
<1>3. Slot(c)' = Slot(c) /\ \A d \in Calls \ {c} : Slot(d)' = Slot(d)
  BY <1>1, SlotKept
<1>4. CancelOf(c)' = (IF mode[c] = "attempt" THEN "txn" ELSE "slot")
         /\ \A d \in Calls \ {c} : CancelOf(d)' = CancelOf(d)
  BY <1>0, <1>1, Given, CancelMoves
<1>5. \A d \in Calls \ {c} : Shown(d)' = Shown(d)
  BY <1>1, <1>2, <1>3, <1>4 DEF Shown
<1>6. KeysOwned'
  BY <1>1, Given, KeysKept
<1>7. CancelOwned'
  BY <1>0, <1>1, Given DEF CancelOwned
<1>8. CallInv(c)' /\ Backed(c)
  BY <1>0, <1>1, <1>2, <1>3, <1>4, Given, DeadlinesAssumption
  DEF Backed, CallInv, RequestLocal, BundleLocal, RuntimeLocal, FinishLocal, Finishing,
      WebhookLocal, CancelLocal, StandLocal, Intact, VerdictLocal, Live, Requesting,
      Dispositions, NotIndexed, CallType, Finishers, InTimeAssumption, Handlers
<1> QED BY <1>5, <1>6, <1>7, <1>8, OneCallMoves

LEMMA CancelReadJoinedLive ==
    ASSUME InTimeAssumption, LedgerInv, LiveInv, NEW c \in Calls, NEW p \in Participants,
           session[c] = "ESTABLISHED", c = cancelling[p], CancelReadSession(p)
    PROVE  LiveInv' /\ AllBacked
<1>0. /\ owner[c] = p /\ req[c] = "granted" /\ cancel[p] = "read" /\ CancelOf(c) = "read"
  BY Given, Cancelled DEF CancelReadSession, GoCancel, CancelOwned
<1>1. /\ cancel'[p] = "idle"
      /\ owner' = owner /\ \A x \in Participants \ {p} : cancel'[x] = cancel[x]
         /\ cancelling'[x] = cancelling[x]
      /\ UNCHANGED <<req, bundle, runtime, liveLeft, verdict, session, recoverIn, mode,
                     attempt, owner, finVars, leaseVars, slotVars, slotOf>>
  BY Given
  DEF CancelReadSession, GoCancel, CancelOver, SameExceptCancel, TypeOK, HandlerType
<1>2. Lease(c)' = Lease(c) /\ \A d \in Calls \ {c} : Lease(d)' = Lease(d)
  BY <1>1, LeaseKept
<1>3. Slot(c)' = Slot(c) /\ \A d \in Calls \ {c} : Slot(d)' = Slot(d)
  BY <1>1, SlotKept
<1>4. CancelOf(c)' = "idle" /\ \A d \in Calls \ {c} : CancelOf(d)' = CancelOf(d)
  BY <1>0, <1>1, Given, CancelMoves
<1>5. \A d \in Calls \ {c} : Shown(d)' = Shown(d)
  BY <1>1, <1>2, <1>3, <1>4 DEF Shown
<1>6. KeysOwned'
  BY <1>1, Given, KeysKept
<1>7. CancelOwned'
  BY <1>1, Given DEF CancelOwned
<1>8. CallInv(c)' /\ Backed(c)
  BY <1>0, <1>1, <1>2, <1>3, <1>4, Given, DeadlinesAssumption
  DEF Backed, CallInv, RequestLocal, BundleLocal, RuntimeLocal, FinishLocal, Finishing,
      WebhookLocal, CancelLocal, StandLocal, Intact, Stands, VerdictLocal, Live,
      Requesting, Dispositions, NotIndexed, CallType, Finishers, InTimeAssumption,
      Handlers
<1> QED BY <1>5, <1>6, <1>7, <1>8, OneCallMoves

LEMMA CancelTransactionLive ==
    ASSUME InTimeAssumption, LedgerInv, LiveInv, NEW c \in Calls, NEW p \in Participants,
           c = cancelling[p], CancelTransaction(p)
    PROVE  LiveInv' /\ AllBacked
<1>0. /\ owner[c] = p /\ req[c] = "granted" /\ cancel[p] = "txn" /\ CancelOf(c) = "txn"
  BY Given, Cancelled DEF CancelTransaction, GoCancel, CancelOwned
<1>1. /\ attempt'[c] = (IF attempt[c] = "in_progress" THEN "deleted" ELSE attempt[c])
      /\ cancel'[p] = "slot" /\ cancelling'[p] = c
      /\ owner' = owner /\ \A x \in Participants \ {p} : cancel'[x] = cancel[x]
         /\ cancelling'[x] = cancelling[x]
      /\ UNCHANGED <<req, bundle, runtime, liveLeft, verdict, session, recoverIn, mode,
                     owner, finVars, leaseVars, slotVars, slotOf>>
  BY Given
  DEF CancelTransaction, GoCancel, SameExceptCancel, Interrupt, TypeOK, HandlerType,
      RowType
<1>2. Lease(c)' = Lease(c) /\ \A d \in Calls \ {c} : Lease(d)' = Lease(d)
  BY <1>1, LeaseKept
<1>3. Slot(c)' = Slot(c) /\ \A d \in Calls \ {c} : Slot(d)' = Slot(d)
  BY <1>1, SlotKept
<1>4. CancelOf(c)' = "slot" /\ \A d \in Calls \ {c} : CancelOf(d)' = CancelOf(d)
  BY <1>0, <1>1, Given, CancelMoves
<1>5. \A d \in Calls \ {c} : Shown(d)' = Shown(d)
  BY <1>1, <1>2, <1>3, <1>4, Given
  DEF CancelTransaction, Interrupt, Shown, TypeOK, RowType
<1>6. KeysOwned'
  BY <1>1, Given, KeysKept
<1>7. CancelOwned'
  BY <1>0, <1>1, Given DEF CancelOwned
<1>8. CallInv(c)' /\ Backed(c)
  BY <1>0, <1>1, <1>2, <1>3, <1>4, Given, DeadlinesAssumption
  DEF Backed, CallInv, RequestLocal, BundleLocal, RuntimeLocal, FinishLocal, Finishing,
      WebhookLocal, CancelLocal, StandLocal, Intact, VerdictLocal, Live, Requesting,
      Dispositions, NotIndexed, CallType, Finishers, InTimeAssumption, Handlers
<1> QED BY <1>5, <1>6, <1>7, <1>8, OneCallMoves

LEMMA CancelFindsSlotLive ==
    ASSUME InTimeAssumption, LedgerInv, LiveInv, NEW c \in Calls, NEW p \in Participants,
           OwnsSlot(c), c = cancelling[p], CancelReadSlot(p)
    PROVE  LiveInv' /\ AllBacked
<1>0. /\ owner[c] = p /\ req[c] = "granted" /\ cancel[p] = "slot" /\ CancelOf(c) = "slot"
         /\ Slot(c) > 0
  BY Given, Cancelled, Held DEF CancelReadSlot, GoCancel, CancelOwned
<1>1. /\ cancel'[p] = "slotDel" /\ cancelling'[p] = c
      /\ owner' = owner /\ \A x \in Participants \ {p} : cancel'[x] = cancel[x]
         /\ cancelling'[x] = cancelling[x]
      /\ UNCHANGED <<req, bundle, runtime, liveLeft, verdict, session, recoverIn, mode,
                     attempt, owner, finVars, leaseVars, slotVars, slotOf>>
  BY Given DEF CancelReadSlot, GoCancel, SameExceptCancel, TypeOK, HandlerType
<1>2. Lease(c)' = Lease(c) /\ \A d \in Calls \ {c} : Lease(d)' = Lease(d)
  BY <1>1, LeaseKept
<1>3. Slot(c)' = Slot(c) /\ \A d \in Calls \ {c} : Slot(d)' = Slot(d)
  BY <1>1, SlotKept
<1>4. CancelOf(c)' = "slotDel" /\ \A d \in Calls \ {c} : CancelOf(d)' = CancelOf(d)
  BY <1>0, <1>1, Given, CancelMoves
<1>5. \A d \in Calls \ {c} : Shown(d)' = Shown(d)
  BY <1>1, <1>2, <1>3, <1>4 DEF Shown
<1>6. KeysOwned'
  BY <1>1, Given, KeysKept
<1>7. CancelOwned'
  BY <1>0, <1>1, Given DEF CancelOwned
<1>8. CallInv(c)' /\ Backed(c)
  BY <1>0, <1>1, <1>2, <1>3, <1>4, Given, DeadlinesAssumption
  DEF Backed, CallInv, RequestLocal, BundleLocal, RuntimeLocal, FinishLocal, Finishing,
      WebhookLocal, CancelLocal, StandLocal, Intact, VerdictLocal, Live, Requesting,
      Dispositions, NotIndexed, CallType, Finishers, InTimeAssumption, Handlers
<1> QED BY <1>5, <1>6, <1>7, <1>8, OneCallMoves

LEMMA CancelFindsNoSlotLive ==
    ASSUME InTimeAssumption, LedgerInv, LiveInv, NEW c \in Calls, NEW p \in Participants,
           ~OwnsSlot(c), c = cancelling[p], CancelReadSlot(p)
    PROVE  LiveInv' /\ AllBacked
<1>0. /\ owner[c] = p /\ req[c] = "granted" /\ cancel[p] = "slot" /\ CancelOf(c) = "slot"
  BY Given, Cancelled DEF CancelReadSlot, GoCancel, CancelOwned
<1>1. /\ cancel'[p] = "lease" /\ cancelling'[p] = c
      /\ owner' = owner /\ \A x \in Participants \ {p} : cancel'[x] = cancel[x]
         /\ cancelling'[x] = cancelling[x]
      /\ UNCHANGED <<req, bundle, runtime, liveLeft, verdict, session, recoverIn, mode,
                     attempt, owner, finVars, leaseVars, slotVars, slotOf>>
  BY Given DEF CancelReadSlot, GoCancel, SameExceptCancel, TypeOK, HandlerType
<1>2. Lease(c)' = Lease(c) /\ \A d \in Calls \ {c} : Lease(d)' = Lease(d)
  BY <1>1, LeaseKept
<1>3. Slot(c)' = Slot(c) /\ \A d \in Calls \ {c} : Slot(d)' = Slot(d)
  BY <1>1, SlotKept
<1>4. CancelOf(c)' = "lease" /\ \A d \in Calls \ {c} : CancelOf(d)' = CancelOf(d)
  BY <1>0, <1>1, Given, CancelMoves
<1>5. \A d \in Calls \ {c} : Shown(d)' = Shown(d)
  BY <1>1, <1>2, <1>3, <1>4 DEF Shown
<1>6. KeysOwned'
  BY <1>1, Given, KeysKept
<1>7. CancelOwned'
  BY <1>0, <1>1, Given DEF CancelOwned
<1>8. CallInv(c)' /\ Backed(c)
  BY <1>0, <1>1, <1>2, <1>3, <1>4, Given, DeadlinesAssumption
  DEF Backed, CallInv, RequestLocal, BundleLocal, RuntimeLocal, FinishLocal, Finishing,
      WebhookLocal, CancelLocal, StandLocal, Intact, VerdictLocal, Live, Requesting,
      Dispositions, NotIndexed, CallType, Finishers, InTimeAssumption, Handlers
<1> QED BY <1>5, <1>6, <1>7, <1>8, OneCallMoves

LEMMA CancelDeleteSlotLive ==
    ASSUME InTimeAssumption, LedgerInv, LiveInv, NEW c \in Calls, NEW p \in Participants,
           c = cancelling[p], CancelDeleteSlot(p)
    PROVE  LiveInv' /\ AllBacked
<1>0. /\ owner[c] = p /\ req[c] = "granted" /\ cancel[p] = "slotDel"
         /\ CancelOf(c) = "slotDel" /\ Slot(c) > 0
  BY Given, Cancelled DEF CancelDeleteSlot, GoCancel, CancelOwned, CallInv, CancelLocal
<1>1. /\ cancel'[p] = "lease" /\ cancelling'[p] = c
      /\ owner' = owner /\ \A x \in Participants \ {p} : cancel'[x] = cancel[x]
         /\ cancelling'[x] = cancelling[x]
      /\ UNCHANGED <<req, bundle, runtime, liveLeft, verdict, session, recoverIn, mode,
                     attempt, owner, finVars, leaseVars, slotOf>>
  BY Given DEF CancelDeleteSlot, GoCancel, SameExceptCancel, TypeOK, HandlerType
<1>2. Lease(c)' = Lease(c) /\ \A d \in Calls \ {c} : Lease(d)' = Lease(d)
  BY <1>1, LeaseKept
<1>3. Slot(c)' = 0 /\ \A d \in Calls \ {c} : Slot(d)' = Slot(d)
  BY <1>0, <1>1, Given, SlotDeleted DEF CancelDeleteSlot
<1>4. CancelOf(c)' = "lease" /\ \A d \in Calls \ {c} : CancelOf(d)' = CancelOf(d)
  BY <1>0, <1>1, Given, CancelMoves
<1>5. \A d \in Calls \ {c} : Shown(d)' = Shown(d)
  BY <1>1, <1>2, <1>3, <1>4 DEF Shown
<1>6. KeysOwned'
  BY <1>1, Given, DeadlinesAssumption
  DEF CancelDeleteSlot, DeleteSlot, KeysOwned, TypeOK, SlotType
<1>7. CancelOwned'
  BY <1>0, <1>1, Given DEF CancelOwned
<1>8. CallInv(c)' /\ Backed(c)
  BY <1>0, <1>1, <1>2, <1>3, <1>4, Given, DeadlinesAssumption
  DEF Backed, CallInv, RequestLocal, BundleLocal, RuntimeLocal, FinishLocal, Finishing,
      WebhookLocal, CancelLocal, StandLocal, Intact, VerdictLocal, Live, Requesting,
      InTxn, Dispositions, NotIndexed, CallType, Finishers, InTimeAssumption, Handlers
<1> QED BY <1>5, <1>6, <1>7, <1>8, OneCallMoves

LEMMA CancelLeaseLive ==
    ASSUME InTimeAssumption, LedgerInv, LiveInv, NEW c \in Calls, NEW p \in Participants,
           cancel[p] = "lease", c = cancelling[p], CancelLease(p)
    PROVE  LiveInv' /\ AllBacked
<1>0. /\ owner[c] = p /\ req[c] = "granted" /\ cancel[p] = "lease" /\ CancelOf(c) = "lease"
  BY Given, Cancelled DEF CancelOwned
<1>1. /\ cancel'[p] = "delete" /\ cancelling'[p] = c
      /\ owner' = owner /\ \A x \in Participants \ {p} : cancel'[x] = cancel[x]
         /\ cancelling'[x] = cancelling[x]
      /\ UNCHANGED <<req, bundle, runtime, liveLeft, verdict, session, recoverIn, mode,
                     attempt, owner, finVars, slotVars, slotOf>>
  BY Given DEF CancelLease, GoCancel, SameExceptCancel, TypeOK, HandlerType
<1>2. Lease(c)' = 0 /\ \A d \in Calls \ {c} : Lease(d)' = Lease(d)
  BY <1>0, <1>1, Given, LeaseReleased DEF CancelLease
<1>3. Slot(c)' = Slot(c) /\ \A d \in Calls \ {c} : Slot(d)' = Slot(d)
  BY <1>1, SlotKept
<1>4. CancelOf(c)' = "delete" /\ \A d \in Calls \ {c} : CancelOf(d)' = CancelOf(d)
  BY <1>0, <1>1, Given, CancelMoves
<1>5. \A d \in Calls \ {c} : Shown(d)' = Shown(d)
  BY <1>1, <1>2, <1>3, <1>4 DEF Shown
<1>6. KeysOwned'
  BY <1>1, Given, Held, ParticipantsAssumption, DeadlinesAssumption
  DEF CancelLease, ReleaseLease, KeysOwned, TypeOK, LeaseType
<1>7. CancelOwned'
  BY <1>1, Given DEF CancelOwned
<1>8. CallInv(c)' /\ Backed(c)
  BY <1>0, <1>1, <1>2, <1>3, <1>4, Given, DeadlinesAssumption
  DEF Backed, CallInv, RequestLocal, BundleLocal, RuntimeLocal, FinishLocal, Finishing,
      WebhookLocal, CancelLocal, StandLocal, Intact, VerdictLocal, Requesting,
      Dispositions, NotIndexed, CallType, Finishers, InTimeAssumption, Handlers
<1> QED BY <1>5, <1>6, <1>7, <1>8, OneCallMoves

LEMMA CancelDeleteLive ==
    ASSUME InTimeAssumption, LedgerInv, LiveInv, NEW c \in Calls, NEW p \in Participants,
           c = cancelling[p], CancelDelete(p)
    PROVE  LiveInv' /\ AllBacked
<1>0. /\ owner[c] = p /\ req[c] = "granted" /\ cancel[p] = "delete" /\ CancelOf(c) = "delete"
  BY Given, Cancelled DEF CancelDelete, GoCancel, CancelOwned
<1>1. /\ session'[c] = "none"
      /\ cancel'[p] = "unindex" /\ cancelling'[p] = c
      /\ owner' = owner /\ \A x \in Participants \ {p} : cancel'[x] = cancel[x]
         /\ cancelling'[x] = cancelling[x]
      /\ UNCHANGED <<req, bundle, runtime, liveLeft, verdict, recoverIn, mode, attempt,
                     owner, finVars, leaseVars, slotVars, slotOf>>
  BY Given
  DEF CancelDelete, GoCancel, SameExceptCancel, WriteSession, TypeOK, HandlerType,
      SessionType
<1>2. Lease(c)' = Lease(c) /\ \A d \in Calls \ {c} : Lease(d)' = Lease(d)
  BY <1>1, LeaseKept
<1>3. Slot(c)' = Slot(c) /\ \A d \in Calls \ {c} : Slot(d)' = Slot(d)
  BY <1>1, SlotKept
<1>4. CancelOf(c)' = "unindex" /\ \A d \in Calls \ {c} : CancelOf(d)' = CancelOf(d)
  BY <1>0, <1>1, Given, CancelMoves
<1>5. \A d \in Calls \ {c} : Shown(d)' = Shown(d)
  BY <1>1, <1>2, <1>3, <1>4, Given DEF CancelDelete, WriteSession, Shown
<1>6. KeysOwned'
  BY <1>1, Given, KeysKept
<1>7. CancelOwned'
  BY <1>0, <1>1, Given DEF CancelOwned
<1>8. CallInv(c)' /\ Backed(c)
  BY <1>0, <1>1, <1>2, <1>3, <1>4, Given, DeadlinesAssumption
  DEF Backed, CallInv, RequestLocal, BundleLocal, RuntimeLocal, FinishLocal, Finishing,
      WebhookLocal, CancelLocal, StandLocal, Intact, VerdictLocal, Requesting, InTxn,
      Dispositions, NotIndexed, CallType, Finishers, InTimeAssumption, Handlers
<1> QED BY <1>5, <1>6, <1>7, <1>8, OneCallMoves

LEMMA CancelUnindexLive ==
    ASSUME InTimeAssumption, LedgerInv, LiveInv, NEW c \in Calls, NEW p \in Participants,
           c = cancelling[p], CancelUnindex(p)
    PROVE  LiveInv' /\ AllBacked
<1>0. /\ owner[c] = p /\ req[c] = "granted" /\ cancel[p] = "unindex" /\ CancelOf(c) = "unindex"
  BY Given, Cancelled DEF CancelUnindex, GoCancel, CancelOwned
<1>1. /\ recoverIn'[c] = NotIndexed
      /\ cancel'[p] = "idle"
      /\ owner' = owner /\ \A x \in Participants \ {p} : cancel'[x] = cancel[x]
         /\ cancelling'[x] = cancelling[x]
      /\ UNCHANGED <<req, bundle, runtime, liveLeft, verdict, session, mode, attempt,
                     owner, finVars, leaseVars, slotVars, slotOf>>
  BY Given
  DEF CancelUnindex, GoCancel, CancelOver, SameExceptCancel, Unindex, TypeOK,
      HandlerType, SessionType
<1>2. Lease(c)' = Lease(c) /\ \A d \in Calls \ {c} : Lease(d)' = Lease(d)
  BY <1>1, LeaseKept
<1>3. Slot(c)' = Slot(c) /\ \A d \in Calls \ {c} : Slot(d)' = Slot(d)
  BY <1>1, SlotKept
<1>4. CancelOf(c)' = "idle" /\ \A d \in Calls \ {c} : CancelOf(d)' = CancelOf(d)
  BY <1>0, <1>1, Given, CancelMoves
<1>5. \A d \in Calls \ {c} : Shown(d)' = Shown(d)
  BY <1>1, <1>2, <1>3, <1>4, Given DEF CancelUnindex, Unindex, Shown
<1>6. KeysOwned'
  BY <1>1, Given, KeysKept
<1>7. CancelOwned'
  BY <1>1, Given DEF CancelOwned
<1>8. CallInv(c)' /\ Backed(c)
  BY <1>0, <1>1, <1>2, <1>3, <1>4, Given, DeadlinesAssumption
  DEF Backed, CallInv, RequestLocal, BundleLocal, RuntimeLocal, FinishLocal, Finishing,
      WebhookLocal, CancelLocal, StandLocal, Intact, VerdictLocal, Requesting,
      Dispositions, NotIndexed, CallType, Finishers, InTimeAssumption, Handlers
<1> QED BY <1>5, <1>6, <1>7, <1>8, OneCallMoves

LEMMA CancelReadLive ==
    ASSUME InTimeAssumption, LedgerInv, LiveInv, NEW c \in Calls, NEW p \in Participants,
           c = leaseOf[p], CancelRead(p)
    PROVE  LiveInv' /\ AllBacked
<1>0. /\ owner[c] = p /\ req[c] = "granted" /\ bundle[c] = "idle" /\ runtime[c] = "idle"
      /\ recoverIn[c] # 0 /\ cancel[p] = "idle" /\ CancelOf(c) = "idle" /\ Lease(c) > 0
  BY Given, Held
  DEF CancelRead, GoCancel, KeysOwned, InTimeAssumption, Handlers, CancelOf
<1>1. /\ cancel'[p] = "read" /\ cancelling'[p] = c
      /\ owner' = owner /\ \A x \in Participants \ {p} : cancel'[x] = cancel[x]
         /\ cancelling'[x] = cancelling[x]
      /\ UNCHANGED <<req, bundle, runtime, liveLeft, verdict, session, recoverIn, mode,
                     attempt, owner, finVars, leaseVars, slotVars, slotOf>>
  BY Given DEF CancelRead, GoCancel, SameExceptCancel, TypeOK, HandlerType
<1>2. Lease(c)' = Lease(c) /\ \A d \in Calls \ {c} : Lease(d)' = Lease(d)
  BY <1>1, LeaseKept
<1>3. Slot(c)' = Slot(c) /\ \A d \in Calls \ {c} : Slot(d)' = Slot(d)
  BY <1>1, SlotKept
<1>4. CancelOf(c)' = "read" /\ \A d \in Calls \ {c} : CancelOf(d)' = CancelOf(d)
  BY <1>0, <1>1, Given, CancelMoves
<1>5. \A d \in Calls \ {c} : Shown(d)' = Shown(d)
  BY <1>1, <1>2, <1>3, <1>4 DEF Shown
<1>6. KeysOwned'
  BY <1>1, Given, KeysKept
<1>7. CancelOwned'
  BY <1>0, <1>1, Given DEF CancelOwned
<1>8. CallInv(c)' /\ Backed(c)
  BY <1>0, <1>1, <1>2, <1>3, <1>4, Given, DeadlinesAssumption
  DEF Backed, CallInv, RequestLocal, BundleLocal, RuntimeLocal, FinishLocal, Finishing,
      WebhookLocal, CancelLocal, StandLocal, Intact, Stands, VerdictLocal, Live,
      Requesting, Dispositions, NotIndexed, CallType, Finishers, InTimeAssumption,
      Handlers
<1> QED BY <1>5, <1>6, <1>7, <1>8, OneCallMoves

-----------------------------------------------------------------------------
(* Time, and the rest of Next *)

\* When time passes, every handler is done, nothing is due and nothing is owed.
LEMMA Quiet ==
    ASSUME InTimeAssumption, LedgerInv, LiveInv, Tick, NEW c \in Calls
    PROVE  /\ ~Requesting(c) /\ bundle[c] = "idle" /\ ~Overdue(c) /\ ~Undelivered(c)
           /\ CancelOf(c) = "idle" /\ \A f \in Finishers : fin[f][c] = "idle"
<1>1. \A h \in Handlers : InTime(h)
  BY DEF InTimeAssumption, Tick
<1>2. InTime("request") /\ InTime("bundle") /\ InTime("cancel") /\ InTime("webhook")
      /\ InTime("sweeper") /\ InTime("callback")
  BY <1>1 DEF Handlers
<1>3. ~Requesting(c) /\ bundle[c] = "idle" /\ fin["webhook"][c] = "idle"
  BY <1>2 DEF InTime
<1>4. fin["sweeper"][c] = "idle" /\ ~Overdue(c)
  BY <1>2 DEF InTime
<1>5. fin["callback"][c] = "idle" /\ ~Undelivered(c)
  BY <1>2 DEF InTime
<1>6. CancelOf(c) = "idle"
  BY <1>2 DEF InTime, CancelOf
<1> QED BY <1>3, <1>4, <1>5, <1>6 DEF Finishers

LEMMA TickLive ==
    ASSUME InTimeAssumption, LedgerInv, LiveInv, Tick
    PROVE  LiveInv' /\ AllBacked
<1>1. TypeOK /\ KeysOwned /\ CancelOwned
  BY DEF LedgerInv, LiveInv
<1>2. ASSUME NEW c \in Calls PROVE Lease(c)' = Older(Lease(c))
  BY <1>1 DEF Tick, Lease, Older, TypeOK, LeaseType
<1>3. ASSUME NEW c \in Calls PROVE Slot(c)' = Older(Slot(c))
  <2>1. OwnsSlot(c) => slotOf[c] \in Slots
    BY <1>1 DEF TypeOK, RequestType, OwnsSlot
  <2> QED BY <1>1 DEF Tick, Slot, OwnsSlot, Older, TypeOK, SlotType, RequestType
<1>4. ASSUME NEW c \in Calls PROVE CancelOf(c)' = CancelOf(c)
  BY CancelKept DEF Tick
<1>5. KeysOwned'
  BY <1>1 DEF Tick, KeysOwned, Older, TypeOK, LeaseType, SlotType
<1>6. CancelOwned'
  BY <1>1 DEF Tick, CancelOwned
<1>7. ASSUME NEW c \in Calls PROVE CallInv(c)' /\ Backed(c)
  <2>1. /\ recoverIn'[c] = Older(recoverIn[c])
        /\ runtime[c] = "live" => liveLeft[c] > 0 /\ liveLeft'[c] = Older(liveLeft[c])
        /\ UNCHANGED <<req, bundle, runtime, verdict, session, mode, attempt, fin,
                       doing>>
    BY DEF Tick
  <2>2. Lease(c) \in Nat /\ CancelOf(c)' = "idle"
    BY <1>4, Given, Quiet DEF CallType
  <2> QED
    BY <1>2, <1>3, <2>1, <2>2, Given, Quiet, DeadlinesAssumption
    DEF Backed, CallInv, RequestLocal, BundleLocal, RuntimeLocal, FinishLocal,
        Finishing, WebhookLocal, CancelLocal, StandLocal, Intact, Stands, VerdictLocal,
        Live, Requesting, InTxn, Dispositions, NotIndexed, CallType, Finishers, Older,
        Overdue, Undelivered
<1> QED BY <1>5, <1>6, <1>7 DEF LiveInv, AllBacked

LEMMA ReassignLive ==
    ASSUME LedgerInv, LiveInv, NEW p \in Reps, Reassign(p)
    PROVE  LiveInv' /\ AllBacked
<1>1. \A c \in Calls : Shown(c)' = Shown(c)
  BY LeaseKept, SlotKept, CancelKept DEF Reassign, Shown
<1>2. KeysOwned' /\ CancelOwned'
  BY KeysKept, CancelsKept DEF Reassign, LiveInv, LedgerInv
<1> QED BY <1>1, <1>2, Untouched DEF LiveInv, AllBacked

LEMMA IdleLive ==
    ASSUME LedgerInv, LiveInv, UNCHANGED vars
    PROVE  LiveInv' /\ AllBacked
<1>1. \A c \in Calls : Shown(c)' = Shown(c)
  BY LeaseKept, SlotKept, CancelKept DEF Shown
<1>2. KeysOwned' /\ CancelOwned'
  BY KeysKept, CancelsKept DEF LiveInv, LedgerInv
<1> QED BY <1>1, <1>2, Untouched DEF LiveInv, AllBacked

LEMMA LiveAtFirst == Init => LiveInv
<1> SUFFICES ASSUME Init PROVE LiveInv
  OBVIOUS
<1>1. \A c \in Calls : Lease(c) = 0 /\ Slot(c) = 0 /\ CancelOf(c) = "idle"
  BY DEF Init, Lease, Slot, OwnsSlot, CancelOf
<1>2. KeysOwned /\ CancelOwned
  BY DEF Init, KeysOwned, CancelOwned
<1>3. ASSUME NEW c \in Calls PROVE CallInv(c)
  BY <1>1
  DEF Init, CallInv, RequestLocal, BundleLocal, RuntimeLocal, FinishLocal, Finishing,
      WebhookLocal, CancelLocal, StandLocal, Intact, VerdictLocal, Requesting, InTxn,
      Undoing, Dispositions, NotIndexed, CallType, Finishers
<1> QED BY <1>2, <1>3 DEF LiveInv

LEMMA RequestsLive ==
    ASSUME InTimeAssumption, LedgerInv, LiveInv, NEW c \in Calls, Request(c)
    PROVE  LiveInv' /\ AllBacked
BY RequestLeaseLive, RequestSlotLive, RequestNoSlotLive, RequestAdmitLive,
   RequestPutLive, RequestIndexLive, RequestReadLeaseLive, RequestRenewLive,
   RequestCommitLive, RequestCommitUnseenLive, RequestFailsLive, UndoDeleteLive,
   UndoIndexLive, UndoReadSlotLive, UndoDeleteSlotLive, UndoLeaseLive, RequestDiesLive
DEF Request

LEMMA BundlesLive ==
    ASSUME InTimeAssumption, LedgerInv, LiveInv, NEW c \in Calls, Bundle(c) \/ Runtime(c)
    PROVE  LiveInv' /\ AllBacked
BY BundleReadLive, BundleAgainLive, BundleReadLeaseLive, BundleRenewLive,
   BundleEstablishLive, BundleIndexLive, BundleReturnLive, BundleDiesLive,
   RuntimeReportsLive, RuntimeLostLive
DEF Bundle, Runtime

LEMMA FinishesLive ==
    ASSUME InTimeAssumption, LedgerInv, LiveInv, NEW c \in Calls,
           Callback(c) \/ Sweep(c) \/ Webhook(c)
    PROVE  LiveInv' /\ AllBacked
<1>1. ASSUME NEW f \in Finishers, Finish(f, c) PROVE LiveInv' /\ AllBacked
  BY <1>1, FinTransactionLive, FinLeaseLive, FinReadSlotLive, FinDeleteSlotLive,
     FinMarkLive, FinUnindexLive, FinDiesLive
  DEF Finish
<1>2. CASE SweepRead(c)
  BY <1>2, SweepReadNoneLive, SweepReadTerminalLive, SweepReadLiveLive
  DEF SweepRead, Live
<1>3. CASE WebhookReadLease(c)
  BY <1>3, WebhookReadFreeLive, WebhookReadHeldLive
<1> QED
  BY <1>1, <1>2, <1>3, CallbackReadLive, SweepListLive, WebhookReadLive
  DEF Callback, Sweep, Webhook, Finishers

LEMMA CancelsLive ==
    ASSUME InTimeAssumption, LedgerInv, LiveInv, NEW p \in Participants, Cancel(p)
    PROVE  LiveInv' /\ AllBacked
<1>1. cancel[p] # "idle" => /\ cancelling[p] \in Calls /\ CallInv(cancelling[p])
                            /\ CancelOf(cancelling[p]) = cancel[p]
  BY Given, Cancelled DEF LedgerInv, CancelOfCall
<1>2. CASE CancelRead(p)
  <2>1. leaseOf[p] \in Calls
    BY <1>2 DEF CancelRead, LedgerInv, TypeOK, LeaseType
  <2> QED BY <1>2, <2>1, CancelReadLive
<1>3. CASE CancelReadSession(p)
  <2>1. session[cancelling[p]] \in {"PENDING", "ESTABLISHED"}
    BY <1>1, <1>3 DEF CancelReadSession, GoCancel, CallInv, CancelLocal, Live
  <2> QED BY <1>1, <1>3, <2>1, CancelReadPendingLive, CancelReadJoinedLive
    DEF CancelReadSession, GoCancel
<1>4. CASE CancelTransaction(p)
  BY <1>1, <1>4, CancelTransactionLive DEF CancelTransaction, GoCancel
<1>5. CASE CancelReadSlot(p)
  BY <1>1, <1>5, CancelFindsSlotLive, CancelFindsNoSlotLive DEF CancelReadSlot, GoCancel
<1>6. CASE CancelDeleteSlot(p)
  BY <1>1, <1>6, CancelDeleteSlotLive DEF CancelDeleteSlot, GoCancel
<1>7. CASE CancelLease(p)
  <2>1. cancel[p] = "lease"
    BY <1>1, <1>7 DEF CancelLease, GoCancel, CallInv, CancelLocal
  <2> QED BY <1>1, <1>7, <2>1, CancelLeaseLive
<1>8. CASE CancelDelete(p)
  BY <1>1, <1>8, CancelDeleteLive DEF CancelDelete, GoCancel
<1>9. CASE CancelUnindex(p)
  BY <1>1, <1>9, CancelUnindexLive DEF CancelUnindex, GoCancel
<1>10. ~CancelDies(p)
  BY DEF CancelDies, InTimeAssumption
<1> QED
  BY <1>2, <1>3, <1>4, <1>5, <1>6, <1>7, <1>8, <1>9, <1>10 DEF Cancel

LEMMA LiveStep ==
    ASSUME InTimeAssumption, LedgerInv, LiveInv, [Next]_vars
    PROVE  LiveInv' /\ AllBacked
<1>1. CASE Next
  BY <1>1, TickLive, RequestsLive, BundlesLive, FinishesLive, CancelsLive, ReassignLive
  DEF Next
<1>2. CASE UNCHANGED vars
  BY <1>2, IdleLive
<1> QED BY <1>1, <1>2

-----------------------------------------------------------------------------
(* What follows *)

LEMMA LiveInvariant ==
    ASSUME InTimeAssumption
    PROVE  Spec => []LiveInv
<1>1. LedgerInv /\ LiveInv /\ [Next]_vars => LiveInv'
  BY LiveStep
<1> QED BY <1>1, LiveAtFirst, Invariant, PTL DEF Spec

\* A call that is being conducted stands: its session is established, its
\* participant's lease and its capacity slot are its own, its attempt is in
\* progress.  No cancel, sweep, webhook or expiry ends it early.
THEOREM LiveCallsStand ==
    ASSUME InTimeAssumption
    PROVE  Spec => []LiveCallStands
<1>1. LedgerInv /\ LiveInv => LiveCallStands
  <2> SUFFICES ASSUME LedgerInv, LiveInv, NEW c \in Calls, runtime[c] = "live"
               PROVE  /\ session[c] = "ESTABLISHED" /\ leaseOf[owner[c]] = c /\ OwnsSlot(c)
                      /\ mode[c] = "attempt" => attempt[c] = "in_progress"
    BY DEF LiveCallStands, LiveCalls
  <2>1. Intact(c) /\ session[c] = "ESTABLISHED" /\ recoverIn[c] > 0
    BY Given DEF CallInv, CallType, RequestLocal, RuntimeLocal, Intact, NotIndexed
  <2>2. Stands(c)
    BY <2>1, Given DEF CallInv, StandLocal
  <2>3. Lease(c) > 0 /\ Slot(c) > 0
    BY <2>1, <2>2, Given DEF Stands, CallType, NotIndexed
  <2> QED BY <2>1, <2>2, <2>3, Given, Held DEF Stands, Intact
<1> QED BY <1>1, LiveInvariant, Invariant, PTL

\* FR-LIV-005: a participant has one live call, since two would hold one lease.
THEOREM OneCallIsLive ==
    ASSUME InTimeAssumption
    PROVE  Spec => []OneLiveCall
<1>1. LiveCallStands => OneLiveCall
  BY DEF LiveCallStands, OneLiveCall
<1> QED BY <1>1, LiveCallsStand, PTL

\* The row says what the runtime saw: whatever ends an established session, it
\* is not the sweep or the webhook that decides about a call with a verdict.
THEOREM VerdictIsKept ==
    ASSUME InTimeAssumption
    PROVE  Spec => []VerdictStands
<1>1. LedgerInv /\ LiveInv => VerdictStands
  <2> SUFFICES ASSUME LedgerInv, LiveInv, NEW c \in Calls, session[c] = "TERMINAL",
                      mode[c] = "attempt", verdict[c] # "none"
               PROVE  attempt[c] = CASE verdict[c] = "complete" -> "completed"
                                     [] verdict[c] = "void" -> "interrupted"
                                     [] verdict[c] = "never" -> "deleted"
    BY DEF VerdictStands
  <2>1. attempt[c] = OutcomeOf[verdict[c]] /\ verdict[c] \in Dispositions
    BY Given DEF CallInv, VerdictLocal, Live, CallType
  <2> QED BY <2>1 DEF OutcomeOf, Dispositions
<1> QED BY <1>1, LiveInvariant, Invariant, PTL

-----------------------------------------------------------------------------
(* What AttemptLedger_proofs proves of the ledger holds of the call plane,  *)
(* because the call plane implements the ledger.                            *)

\* The ledger once more, with the theorems about it.
Proved == INSTANCE AttemptLedger_proofs WITH
    who <- [c \in Calls |-> IF attempt[c] = "none" THEN NoOne ELSE owner[c]],
    at <- [c \in Calls |-> IF attempt[c] = "none" THEN 0 ELSE stage[c]]

\* The constants of the call plane satisfy the ledger's assumption.
LEMMA LedgerConstants == Proved!LedgerAssumption
BY ParticipantsAssumption, LimitsAssumption
DEF Proved!LedgerAssumption, IsFiniteSet, Proved!IsFiniteSet

USE DEF Ledger!Cardinality, Proved!Cardinality, Ledger!Having, Proved!Having,
        Ledger!Stages, Proved!Stages, Ledger!Ends, Proved!Ends

\* Both instances have the same steps.
LEMMA SameSteps ==
    /\ Ledger!Init => Proved!Init
    /\ [Ledger!Next]_(Ledger!vars) => [Proved!Next]_(Proved!vars)
<1>1. Ledger!Init => Proved!Init
    BY Zenon DEF Ledger!Init, Proved!Init
<1>2. Ledger!Next => Proved!Next
    BY Zenon
    DEF Ledger!Next, Ledger!AdmitRep, Ledger!AdmitCandidate, Ledger!End, Ledger!Reassign,
        Ledger!Refund, Ledger!ClosePlan, Ledger!PlanClosed, Ledger!StageClosed,
        Proved!Next, Proved!AdmitRep, Proved!AdmitCandidate, Proved!End, Proved!Reassign,
        Proved!Refund, Proved!ClosePlan, Proved!PlanClosed, Proved!StageClosed
<1>3. UNCHANGED Ledger!vars => UNCHANGED Proved!vars
    BY Zenon DEF Ledger!vars, Proved!vars
<1> QED
    BY <1>1, <1>2, <1>3

\* The call plane implements the second instance, too.
LEMMA ProvedImplemented == Spec => Proved!Spec
<1>1. Ledger!Spec => Proved!Spec
    BY SameSteps, PTL DEF Ledger!Spec, Proved!Spec
<1> QED
    BY <1>1, LedgerImplemented DEF ImplementsLedger

\* A plan whose stages are all closed is closed and has one report job, however
\* callbacks, sweeps and webhooks interleave with each other and with admissions.
THEOREM PlanIsReported == Spec => []PlanClosedOnce
<1>1. Proved!Spec => []Proved!PlanClosedOnce
    BY Proved!PlanReported, LedgerConstants
<1>2. Proved!PlanClosedOnce => PlanClosedOnce
    BY Zenon
    DEF PlanClosedOnce, Ledger!PlanClosedOnce, Ledger!PlanClosed, Ledger!StageClosed,
        Proved!PlanClosedOnce, Proved!PlanClosed, Proved!StageClosed
<1> QED
    BY <1>1, <1>2, ProvedImplemented, PTL

\* An attempt is completed by the transaction that enqueues its one grading job,
\* though callbacks repeat and race the sweep.
THEOREM GradedOnceByCalls == Spec => []GradedExactlyOnce
<1>1. Proved!Spec => []Proved!GradedExactlyOnce
    BY Proved!GradedOnce, LedgerConstants
<1>2. Proved!GradedExactlyOnce => GradedExactlyOnce
    BY Zenon DEF GradedExactlyOnce, Ledger!GradedExactlyOnce, Proved!GradedExactlyOnce
<1> QED
    BY <1>1, <1>2, ProvedImplemented, PTL

\* A rep is never charged for an attempt that was undone, is void or was deleted.
THEOREM NeverOverchargedByCalls == Spec => []Ledger!NeverOvercharged
<1>1. Proved!Spec => []Proved!NeverOvercharged
    BY Proved!AllowanceSafe, LedgerConstants
<1>2. Proved!NeverOvercharged => Ledger!NeverOvercharged
    BY Zenon DEF Ledger!NeverOvercharged, Ledger!Charged, Proved!NeverOvercharged,
                 Proved!Charged
<1> QED
    BY <1>1, <1>2, ProvedImplemented, PTL

HIDE DEF Ledger!Cardinality, Proved!Cardinality, Ledger!Having, Proved!Having,
         Ledger!Stages, Proved!Stages, Ledger!Ends, Proved!Ends

-----------------------------------------------------------------------------
(* The allowance *)

\* Who holds the lease of a participant is alone with it.
LEMMA OneHolder ==
    ASSUME TypeOK, KeysOwned, NEW c \in Calls, NEW d \in Calls, owner[c] = owner[d],
           Lease(c) > 0, Lease(d) > 0
    PROVE  c = d
BY DEF Lease

\* A charge of an earlier grant can come back only to a counter that is zero.
LEMMA StaleStep ==
    ASSUME LedgerInv', LiveInv', StaleUnused, AllBacked, TypeOK,
           [Ledger!Next]_(Ledger!vars)
    PROVE  StaleUnused'
<1> SUFFICES ASSUME NEW d \in Calls, attempt'[d] = "in_progress", owner'[d] \in Reps,
                    Lease(d)' > 0, grantOf'[d] # grant'[owner'[d]]
             PROVE  used'[owner'[d]] = 0
  BY DEF StaleUnused
<1> DEFINE who == [c \in Calls |-> IF attempt[c] = "none" THEN NoOne ELSE owner[c]]
<1>1. ASSUME attempt[d] = "in_progress", owner'[d] = owner[d], grantOf'[d] = grantOf[d],
             grant'[owner[d]] = grant[owner[d]]
      PROVE  used[owner[d]] = 0
  BY <1>1 DEF StaleUnused, AllBacked, Backed
<1>2. who'[d] = owner'[d] /\ (attempt[d] # "none" => who[d] = owner[d])
  OBVIOUS
<1>3. ASSUME NEW c \in Calls, NEW p \in Reps, Ledger!AdmitRep(c, p)
      PROVE  used'[owner'[d]] = 0
  <2>1. /\ attempt[c] = "none" /\ attempt'[c] = "in_progress" /\ who'[c] = p
        /\ grantOf'[c] = grant[p] /\ grant' = grant
        /\ d # c => /\ attempt[d] = "in_progress" /\ who'[d] = who[d]
                    /\ grantOf'[d] = grantOf[d]
        /\ \A x \in Reps : x # p => used'[x] = used[x]
    BY <1>3 DEF Ledger!AdmitRep, TypeOK, RowType
  <2>2. owner'[c] = p
    BY <2>1
  <2>3. d # c
    BY <2>1, <2>2
  <2>4. Lease(c)' > 0
    BY <2>1 DEF AllBacked, Backed
  <2>5. owner'[d] # p
    BY <2>2, <2>3, <2>4 DEF Lease
  <2> QED BY <1>1, <2>1, <2>5
<1>4. ASSUME NEW c \in Calls, NEW p \in Candidates, NEW s \in Ledger!Stages,
             Ledger!AdmitCandidate(c, p, s)
      PROVE  used'[owner'[d]] = 0
  <2>1. /\ who'[c] = p /\ attempt'[c] = "in_progress" /\ UNCHANGED <<grant, grantOf, used>>
        /\ d # c => attempt[d] = "in_progress" /\ who'[d] = who[d]
    BY <1>4 DEF Ledger!AdmitCandidate, TypeOK, RowType
  <2>2. d # c
    BY <2>1, ParticipantsAssumption
  <2> QED BY <1>1, <2>1, <2>2
<1>5. ASSUME NEW c \in Calls, NEW end \in Ledger!Ends, Ledger!End(c, end)
      PROVE  used'[owner'[d]] = 0
  <2>1. /\ attempt'[c] \in Ledger!Ends /\ UNCHANGED <<grant, grantOf>> /\ who' = who
        /\ d # c => attempt[d] = "in_progress"
        /\ \A x \in Reps : used[x] = 0 => used'[x] = 0
    BY <1>5 DEF Ledger!End, Ledger!Refund, TypeOK, RowType
  <2>2. d # c
    BY <2>1 DEF Ledger!Ends
  <2> QED BY <1>1, <2>1, <2>2
<1>6. ASSUME NEW p \in Reps, Ledger!Reassign(p)
      PROVE  used'[owner'[d]] = 0
  <2>1. /\ used'[p] = 0 /\ UNCHANGED <<attempt, grantOf>> /\ who' = who
        /\ \A x \in Reps : x # p => used'[x] = used[x] /\ grant'[x] = grant[x]
    BY <1>6 DEF Ledger!Reassign, TypeOK, RowType
  <2> QED BY <1>1, <2>1
<1>7. CASE UNCHANGED Ledger!vars
  BY <1>1, <1>7 DEF Ledger!vars
<1> QED BY <1>3, <1>4, <1>5, <1>6, <1>7 DEF Ledger!Next

LEMMA ExactByCalls ==
    ASSUME InTimeAssumption, LedgerInv, LiveInv, StaleUnused, [Next]_vars,
           Proved!TypeOK, Proved!ChargedToPast, Proved!AllowanceExact
    PROVE  LiveInv' /\ StaleUnused' /\ Proved!ChargedToPast' /\ Proved!AllowanceExact'
<1>1. LedgerInv' /\ [Ledger!Next]_(Ledger!vars)
  BY Step
<1>2. LiveInv' /\ AllBacked
  BY LiveStep
<1>3. StaleUnused'
  BY <1>1, <1>2, StaleStep DEF LedgerInv
<1>4. [Proved!Next]_(Proved!vars)
  BY <1>1, SameSteps
<1>5. Proved!ChargedToPast'
  BY <1>4, LedgerConstants, Proved!ChargedToPastStep
<1>6. Proved!RefundsItsGrant
  <2> DEFINE who == [c \in Calls |-> IF attempt[c] = "none" THEN NoOne ELSE owner[c]]
  <2>1. ASSUME NEW c \in Calls, attempt[c] = "in_progress", who[c] \in Reps,
               attempt'[c] \in {"interrupted", "deleted"}
        PROVE  grantOf[c] = grant[who[c]] \/ used[who[c]] = 0
    BY <1>2, <2>1 DEF AllBacked, Backed, StaleUnused
  <2> QED BY <2>1, Zenon DEF Proved!RefundsItsGrant
<1>7. Proved!AllowanceExact'
  BY <1>4, <1>6, LedgerConstants, Proved!ExactStep
<1> QED BY <1>2, <1>3, <1>5, <1>7

\* A rep is charged for exactly the attempts of the grant that are in progress or
\* completed, however requests are undone, cancelled, swept and reported twice,
\* and whenever the manager replaces the assignment.
THEOREM AllowanceIsExact ==
    ASSUME InTimeAssumption
    PROVE  Spec => []AllowanceExact
<1>1. Spec => []Proved!TypeOK
  BY ProvedImplemented, Proved!LedgerType, LedgerConstants, PTL
<1>2. Init => StaleUnused /\ Proved!ChargedToPast /\ Proved!AllowanceExact
  <2>1. Init => StaleUnused
    BY DEF Init, StaleUnused
  <2>2. Init => Proved!Init
    BY InitSafe, SameSteps
  <2> QED BY <2>1, <2>2, LedgerConstants, Proved!ExactAtFirst
<1>3. LedgerInv /\ Proved!TypeOK /\ [Next]_vars
         /\ (LiveInv /\ StaleUnused /\ Proved!ChargedToPast /\ Proved!AllowanceExact)
      => (LiveInv /\ StaleUnused /\ Proved!ChargedToPast /\ Proved!AllowanceExact)'
  BY ExactByCalls
<1>4. Proved!AllowanceExact => AllowanceExact
  BY Zenon
  DEF AllowanceExact, Ledger!AllowanceExact, Ledger!Charged, Proved!AllowanceExact,
               Proved!Charged, Ledger!Cardinality, Proved!Cardinality
<1> QED BY <1>1, <1>2, <1>3, <1>4, LiveAtFirst, Invariant, PTL DEF Spec
=============================================================================
