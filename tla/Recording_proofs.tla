-------------------------- MODULE Recording_proofs --------------------------
(***************************************************************************)
(* Recording is typed, and a recording that is shown as available can be   *)
(* played, for any number of egresses and whatever handlers die, unless a  *)
(* cutoff purges the object or an erasure fails half-way.                  *)
(***************************************************************************)
EXTENDS Recording, TLAPS

USE DEF vars, valkeyVars, rowVars, erasureVars, providerVars, localVars, dbVars

\* An egress has uploaded the object.
Uploaded == \E e \in Egresses : egress[e] = "complete"

\* An erasure has deleted the object, or is about to commit.
Emptied == erasure \in {"emptied", "verified"}

\* The attempt can still be completed.
Open == attempt = "in_progress" /\ erasure = "none"

\* An egress is started by its fetch.
StartInv ==
    \A e \in Egresses :
        fetch[e] \in {"idle", "read", "established", "claimed"} => egress[e] = "none"

\* The object's key is set by the completion alone and cleared by the erasure; only
\* a completed attempt has a fault to re-drive.
KeyInv ==
    /\ keyed => attempt = "completed"
    /\ rec = "pending" => keyed
    /\ rec = "erased" => ~keyed /\ erasure = "executed"
    /\ fault # "none" \/ drive = "checked" => attempt = "completed"

\* An outcome that is available was heard of an egress that has uploaded.
HeardInv ==
    /\ outcome = "available" => Uploaded
    /\ heard = "available" => Uploaded

\* A handler that is about to delete an orphan works on an attempt that has no
\* recording and will get none.
DeleteInv ==
    /\ \A e \in Egresses : hook[e] = "delete" => ~keyed /\ ~Open
    /\ \A p \in Paths : end[p] = "delete" => ~keyed /\ ~Open
    /\ \A p \in Paths : end[p] # "purge"
    /\ sweep = "delete" => ~keyed /\ ~Open

\* While a recording is wanted, what was uploaded is there.
ObjectInv ==
    /\ Uploaded /\ (rec = "pending" \/ Open) => object \/ Emptied
    /\ drive = "checked" /\ seen /\ keyed => object \/ Emptied
    /\ AvailablePlays

RecordingInv == StartInv /\ KeyInv /\ HeardInv /\ DeleteInv /\ ObjectInv

\* Every step of every actor keeps the types.
LEMMA TypeStep ==
    ASSUME TypeOK, [Next]_vars
    PROVE  TypeOK'
<1> USE EgressesAssumption
    DEF TypeOK, ValkeyType, RowType, ProviderType, HandlerType
<1>1. ASSUME NEW e \in Egresses, FetchRead(e)  PROVE TypeOK'
    BY <1>1 DEF FetchRead, FetchGoes
<1>2. ASSUME NEW e \in Egresses, FetchEstablish(e)  PROVE TypeOK'
    BY <1>2 DEF FetchEstablish, FetchGoes
<1>3. ASSUME NEW e \in Egresses, FetchClaim(e)  PROVE TypeOK'
    BY <1>3 DEF FetchClaim, FetchGoes, Starting
<1>4. ASSUME NEW e \in Egresses, EgressStarts(e)  PROVE TypeOK'
    BY <1>4 DEF EgressStarts, FetchGoes
<1>5. ASSUME NEW e \in Egresses, FetchRecords(e)  PROVE TypeOK'
    BY <1>5 DEF FetchRecords, FetchGoes
<1>6. ASSUME NEW e \in Egresses, FetchReleases(e)  PROVE TypeOK'
    BY <1>6 DEF FetchReleases, FetchGoes, Starting, Unclaimed
<1>7. ASSUME NEW e \in Egresses, FetchDies(e)  PROVE TypeOK'
    BY <1>7 DEF FetchDies, FetchGoes
<1>8. ASSUME NEW e \in Egresses, EgressEnds(e)  PROVE TypeOK'
  <2>1. object' \in BOOLEAN
    BY <1>8 DEF EgressEnds, NobodyGoes
  <2> QED
    BY <1>8, <2>1 DEF EgressEnds, NobodyGoes
<1>9. ASSUME NEW e \in Egresses, EventAgain(e)  PROVE TypeOK'
    BY <1>9 DEF EventAgain, NobodyGoes
<1>10. ASSUME NEW e \in Egresses, HookMatch(e)  PROVE TypeOK'
    BY <1>10 DEF HookMatch, HookGoes, HookTakes
<1>11. ASSUME NEW e \in Egresses, HookSet(e)  PROVE TypeOK'
    BY <1>11 DEF HookSet, HookGoes
<1>12. ASSUME NEW e \in Egresses, HookTransaction(e)  PROVE TypeOK'
    BY <1>12 DEF HookTransaction, HookGoes, HookReconciles, Reconcile, Reconciled, RowFree
<1>13. ASSUME NEW e \in Egresses, HookDelete(e)  PROVE TypeOK'
  <2>1. object' \in BOOLEAN
    BY <1>13 DEF HookDelete, HookGoes
  <2> QED
    BY <1>13, <2>1 DEF HookDelete, HookGoes
<1>14. ASSUME NEW e \in Egresses, HookResolve(e)  PROVE TypeOK'
  <2>1. indexed' \in BOOLEAN
    BY <1>14 DEF HookResolve, HookGoes
  <2> QED
    BY <1>14, <2>1 DEF HookResolve, HookGoes
<1>15. ASSUME NEW e \in Egresses, HookDies(e)  PROVE TypeOK'
    BY <1>15 DEF HookDies, HookGoes
<1>16. ASSUME NEW p \in Paths, EndRead(p)  PROVE TypeOK'
    BY <1>16, MishapsAssumption DEF EndRead, EndGoes
<1>17. ASSUME NEW p \in Paths, EndTransaction(p)  PROVE TypeOK'
  <2>1. keyed' \in BOOLEAN
    BY <1>17 DEF EndTransaction, EndGoes, Complete, Interrupt, Reconcile, RowFree
  <2> QED
    BY <1>17, <2>1 DEF EndTransaction, EndGoes, Complete, Interrupt, Reconcile, RowFree
<1>18. ASSUME NEW p \in Paths, EndPurge(p)  PROVE TypeOK'
  <2>1. object' \in BOOLEAN
    BY <1>18 DEF EndPurge, EndGoes
  <2> QED
    BY <1>18, <2>1 DEF EndPurge, EndGoes
<1>19. ASSUME NEW p \in Paths, EndMark(p)  PROVE TypeOK'
    BY <1>19 DEF EndMark, EndGoes
<1>20. ASSUME NEW p \in Paths, EndIndex(p)  PROVE TypeOK'
  <2>1. indexed' \in BOOLEAN
    BY <1>20 DEF EndIndex, EndGoes
  <2> QED
    BY <1>20, <2>1 DEF EndIndex, EndGoes
<1>21. ASSUME NEW p \in Paths, EndOutcome(p)  PROVE TypeOK'
    BY <1>21 DEF EndOutcome, EndGoes
<1>22. ASSUME NEW p \in Paths, EndReconcile(p)  PROVE TypeOK'
    BY <1>22 DEF EndReconcile, EndGoes, Reconcile, Reconciled, RowFree
<1>23. ASSUME NEW p \in Paths, EndDelete(p)  PROVE TypeOK'
  <2>1. object' \in BOOLEAN
    BY <1>23 DEF EndDelete, EndGoes
  <2> QED
    BY <1>23, <2>1 DEF EndDelete, EndGoes
<1>24. ASSUME NEW p \in Paths, EndResolve(p)  PROVE TypeOK'
  <2>1. indexed' \in BOOLEAN
    BY <1>24 DEF EndResolve, EndGoes
  <2> QED
    BY <1>24, <2>1 DEF EndResolve, EndGoes
<1>25. ASSUME NEW p \in Paths, EndDies(p)  PROVE TypeOK'
    BY <1>25 DEF EndDies, EndGoes
<1>26. ASSUME SweepPop  PROVE TypeOK'
  <2>1. indexed' \in BOOLEAN
    BY <1>26 DEF SweepPop, SweepGoes
  <2> QED
    BY <1>26, <2>1 DEF SweepPop, SweepGoes
<1>27. ASSUME SweepTransaction  PROVE TypeOK'
    BY <1>27 DEF SweepTransaction, SweepGoes, Reconcile, RowFree
<1>28. ASSUME SweepDelete  PROVE TypeOK'
  <2>1. object' \in BOOLEAN
    BY <1>28 DEF SweepDelete, SweepGoes
  <2> QED
    BY <1>28, <2>1 DEF SweepDelete, SweepGoes
<1>29. ASSUME SweepDies  PROVE TypeOK'
    BY <1>29 DEF SweepDies, SweepGoes
<1>30. ASSUME StaleSweep  PROVE TypeOK'
    BY <1>30 DEF StaleSweep, NobodyGoes, StaleRecording, RowFree
<1>31. ASSUME DriveCheck  PROVE TypeOK'
  <2>1. seen' \in BOOLEAN
    BY <1>31 DEF DriveCheck, DriveGoes
  <2> QED
    BY <1>31, <2>1 DEF DriveCheck, DriveGoes
<1>32. ASSUME DriveCommit  PROVE TypeOK'
    BY <1>32 DEF DriveCommit, DriveGoes, RowFree
<1>33. ASSUME EraseRequest  PROVE TypeOK'
    BY <1>33 DEF EraseRequest, EraseGoes, NobodyGoes
<1>34. ASSUME EraseCollect  PROVE TypeOK'
  <2>1. doomed' \in BOOLEAN
    BY <1>34 DEF EraseCollect, EraseGoes, NobodyGoes
  <2> QED
    BY <1>34, <2>1 DEF EraseCollect, EraseGoes, NobodyGoes
<1>35. ASSUME EraseObject  PROVE TypeOK'
  <2>1. object' \in BOOLEAN
    <3>1. CASE doomed
      BY <1>35, <3>1 DEF EraseObject
    <3>2. CASE ~doomed
      BY <1>35, <3>2 DEF EraseObject
    <3> QED
      BY <3>1, <3>2
  <2>2. /\ erasure' = "emptied" /\ NobodyGoes
        /\ UNCHANGED <<valkeyVars, rowVars, doomed, egress, event, localVars>>
    BY <1>35 DEF EraseObject, EraseGoes
  <2> QED
    BY <2>1, <2>2 DEF NobodyGoes
<1>36. ASSUME EraseVerify  PROVE TypeOK'
    BY <1>36 DEF EraseVerify, EraseGoes, NobodyGoes
<1>37. ASSUME EraseCommit  PROVE TypeOK'
  <2>1. keyed' \in BOOLEAN
    BY <1>37 DEF EraseCommit, EraseGoes, NobodyGoes
  <2> QED
    BY <1>37, <2>1 DEF EraseCommit, EraseGoes, NobodyGoes
<1>38. ASSUME EraseRollback  PROVE TypeOK'
    BY <1>38 DEF EraseRollback, EraseGoes, NobodyGoes, RowFree
<1>39. ASSUME UNCHANGED vars  PROVE TypeOK'
    BY <1>39
<1> HIDE DEF TypeOK
<1> QED
    BY <1>1, <1>2, <1>3, <1>4, <1>5, <1>6, <1>7, <1>8, <1>9, <1>10, <1>11, <1>12,
       <1>13, <1>14, <1>15, <1>16, <1>17, <1>18, <1>19, <1>20, <1>21, <1>22, <1>23,
       <1>24, <1>25, <1>26, <1>27, <1>28, <1>29, <1>30, <1>31, <1>32, <1>33, <1>34,
       <1>35, <1>36, <1>37, <1>38, <1>39
    DEF Next, FetchStep, HookStep, EndStep, SweepStep, EraseStep

\* Every step keeps the invariant: the deletions touch no wanted object, and what
\* makes a recording available has seen it uploaded.
LEMMA RecordingStep ==
    ASSUME TypeOK, TypeOK', RecordingInv,
           "suspension" \notin Paths, "rollback" \notin Mishaps, [Next]_vars
    PROVE  RecordingInv'
<1> USE EgressesAssumption
    DEF TypeOK, ValkeyType, RowType, ProviderType, HandlerType,
        RecordingInv, StartInv, KeyInv, HeardInv, DeleteInv, ObjectInv, AvailablePlays,
        Uploaded, Emptied, Open
<1>1. ASSUME NEW e \in Egresses, FetchRead(e)  PROVE RecordingInv'
    BY <1>1 DEF FetchRead, FetchGoes
<1>2. ASSUME NEW e \in Egresses, FetchEstablish(e)  PROVE RecordingInv'
    BY <1>2 DEF FetchEstablish, FetchGoes
<1>3. ASSUME NEW e \in Egresses, FetchClaim(e)  PROVE RecordingInv'
    BY <1>3 DEF FetchClaim, FetchGoes, Starting
<1>4. ASSUME NEW e \in Egresses, EgressStarts(e)  PROVE RecordingInv'
    BY <1>4 DEF EgressStarts, FetchGoes
<1>5. ASSUME NEW e \in Egresses, FetchRecords(e)  PROVE RecordingInv'
    BY <1>5 DEF FetchRecords, FetchGoes
<1>6. ASSUME NEW e \in Egresses, FetchReleases(e)  PROVE RecordingInv'
    BY <1>6 DEF FetchReleases, FetchGoes, Starting, Unclaimed
<1>7. ASSUME NEW e \in Egresses, FetchDies(e)  PROVE RecordingInv'
    BY <1>7 DEF FetchDies, FetchGoes
<1>8. ASSUME NEW e \in Egresses, EgressEnds(e)  PROVE RecordingInv'
    BY <1>8 DEF EgressEnds, NobodyGoes
<1>9. ASSUME NEW e \in Egresses, EventAgain(e)  PROVE RecordingInv'
    BY <1>9 DEF EventAgain, NobodyGoes
<1>10. ASSUME NEW e \in Egresses, HookMatch(e)  PROVE RecordingInv'
    BY <1>10 DEF HookMatch, HookGoes, HookTakes
<1>11. ASSUME NEW e \in Egresses, HookSet(e)  PROVE RecordingInv'
    BY <1>11 DEF HookSet, HookGoes
<1>12. ASSUME NEW e \in Egresses, HookTransaction(e)  PROVE RecordingInv'
    BY <1>12 DEF HookTransaction, HookGoes, HookReconciles, Reconcile, Reconciled, RowFree
<1>13. ASSUME NEW e \in Egresses, HookDelete(e)  PROVE RecordingInv'
    BY <1>13 DEF HookDelete, HookGoes
<1>14. ASSUME NEW e \in Egresses, HookResolve(e)  PROVE RecordingInv'
    BY <1>14 DEF HookResolve, HookGoes
<1>15. ASSUME NEW e \in Egresses, HookDies(e)  PROVE RecordingInv'
    BY <1>15 DEF HookDies, HookGoes
<1>16. ASSUME NEW p \in Paths, EndRead(p)  PROVE RecordingInv'
    BY <1>16 DEF EndRead, EndGoes
<1>17. ASSUME NEW p \in Paths, EndTransaction(p)  PROVE RecordingInv'
  <2>1. p # "suspension"
    OBVIOUS
  <2>2. /\ end' = [end EXCEPT ![p] = "mark"]
        /\ UNCHANGED <<fetch, hook, sweep, drive, erasure, object, egress, outcome, heard, seen>>
    BY <1>17, <2>1 DEF EndTransaction, EndGoes
  <2>3. CASE Complete
    <3>1. CASE attempt = "in_progress" /\ erasure = "none"
      <4>1. attempt' = "completed" /\ rec' = "pending" /\ keyed' = TRUE
        BY <2>3, <3>1 DEF Complete
      <4>2. sweep # "delete" /\ \A e \in Egresses : hook[e] # "delete"
        BY <3>1
      <4>3. \A q \in Paths : end'[q] \notin {"delete", "purge"}
        BY <2>2, <3>1
      <4>4. DeleteInv'
        BY <2>2, <4>2, <4>3
      <4>5. StartInv' /\ KeyInv' /\ HeardInv'
        BY <2>2, <4>1
      <4>6. ObjectInv'
        BY <2>2, <3>1, <4>1
      <4> QED
        BY <4>4, <4>5, <4>6
    <3>2. CASE ~ (attempt = "in_progress" /\ erasure = "none")
      BY <2>2, <2>3, <3>2 DEF Complete
    <3> QED
      BY <3>1, <3>2
  <2>4. CASE Interrupt(fate[p], FALSE)
    BY <2>2, <2>4 DEF Interrupt
  <2> QED
    BY <1>17, <2>1, <2>3, <2>4 DEF EndTransaction
<1>18. ASSUME NEW p \in Paths, EndPurge(p)  PROVE RecordingInv'
    BY <1>18 DEF EndPurge, EndGoes
<1>19. ASSUME NEW p \in Paths, EndMark(p)  PROVE RecordingInv'
    BY <1>19 DEF EndMark, EndGoes
<1>20. ASSUME NEW p \in Paths, EndIndex(p)  PROVE RecordingInv'
    BY <1>20 DEF EndIndex, EndGoes
<1>21. ASSUME NEW p \in Paths, EndOutcome(p)  PROVE RecordingInv'
    BY <1>21 DEF EndOutcome, EndGoes
<1>22. ASSUME NEW p \in Paths, EndReconcile(p)  PROVE RecordingInv'
    BY <1>22 DEF EndReconcile, EndGoes, Reconcile, Reconciled, RowFree
<1>23. ASSUME NEW p \in Paths, EndDelete(p)  PROVE RecordingInv'
    BY <1>23 DEF EndDelete, EndGoes
<1>24. ASSUME NEW p \in Paths, EndResolve(p)  PROVE RecordingInv'
    BY <1>24 DEF EndResolve, EndGoes
<1>25. ASSUME NEW p \in Paths, EndDies(p)  PROVE RecordingInv'
    BY <1>25 DEF EndDies, EndGoes
<1>26. ASSUME SweepPop  PROVE RecordingInv'
    BY <1>26 DEF SweepPop, SweepGoes
<1>27. ASSUME SweepTransaction  PROVE RecordingInv'
    BY <1>27 DEF SweepTransaction, SweepGoes, Reconcile, RowFree
<1>28. ASSUME SweepDelete  PROVE RecordingInv'
    BY <1>28 DEF SweepDelete, SweepGoes
<1>29. ASSUME SweepDies  PROVE RecordingInv'
    BY <1>29 DEF SweepDies, SweepGoes
<1>30. ASSUME StaleSweep  PROVE RecordingInv'
    BY <1>30 DEF StaleSweep, NobodyGoes, StaleRecording, RowFree
<1>31. ASSUME DriveCheck  PROVE RecordingInv'
    BY <1>31 DEF DriveCheck, DriveGoes
<1>32. ASSUME DriveCommit  PROVE RecordingInv'
    BY <1>32 DEF DriveCommit, DriveGoes, RowFree
<1>33. ASSUME EraseRequest  PROVE RecordingInv'
    BY <1>33 DEF EraseRequest, EraseGoes, NobodyGoes
<1>34. ASSUME EraseCollect  PROVE RecordingInv'
    BY <1>34 DEF EraseCollect, EraseGoes, NobodyGoes
<1>35. ASSUME EraseObject  PROVE RecordingInv'
    BY <1>35 DEF EraseObject, EraseGoes, NobodyGoes
<1>36. ASSUME EraseVerify  PROVE RecordingInv'
    BY <1>36 DEF EraseVerify, EraseGoes, NobodyGoes
<1>37. ASSUME EraseCommit  PROVE RecordingInv'
    BY <1>37 DEF EraseCommit, EraseGoes, NobodyGoes
<1>38. ASSUME EraseRollback  PROVE RecordingInv'
    BY <1>38 DEF EraseRollback, EraseGoes, NobodyGoes, RowFree
<1>39. ASSUME UNCHANGED vars  PROVE RecordingInv'
    BY <1>39
<1> HIDE DEF TypeOK, RecordingInv
<1> QED
    BY <1>1, <1>2, <1>3, <1>4, <1>5, <1>6, <1>7, <1>8, <1>9, <1>10, <1>11, <1>12,
       <1>13, <1>14, <1>15, <1>16, <1>17, <1>18, <1>19, <1>20, <1>21, <1>22, <1>23,
       <1>24, <1>25, <1>26, <1>27, <1>28, <1>29, <1>30, <1>31, <1>32, <1>33, <1>34,
       <1>35, <1>36, <1>37, <1>38, <1>39
    DEF Next, FetchStep, HookStep, EndStep, SweepStep, EraseStep


\* Types: every key, row, object and handler of Recording stays within its type.
THEOREM RecordingType == Spec => []TypeOK
<1>1. ASSUME Init  PROVE TypeOK
  <2>1. {indexed, keyed, doomed, object, seen} \subseteq BOOLEAN
    BY <1>1, Zenon DEF Init
  <2> QED
    BY <1>1, <2>1, EgressesAssumption
    DEF Init, TypeOK, ValkeyType, RowType, ProviderType, HandlerType, Unclaimed, Starting
<1>2. TypeOK /\ [Next]_vars => TypeOK'
    BY TypeStep
<1> QED
    BY <1>1, <1>2, PTL DEF Spec

\* A recording that is shown as available can be played, whichever of the
\* webhook, the completion, the sweeps, a re-drive and the erasure interleave and
\* whichever of them die, as long as no cutoff purges the object and no erasure
\* fails after it has deleted it.
THEOREM RecordingPlays ==
    ASSUME "suspension" \notin Paths, "rollback" \notin Mishaps
    PROVE  Spec => []AvailablePlays
<1>1. Init => RecordingInv
    BY DEF Init, RecordingInv, StartInv, KeyInv, HeardInv, DeleteInv, ObjectInv,
           AvailablePlays, Uploaded
<1>2. TypeOK /\ TypeOK' /\ RecordingInv /\ [Next]_vars => RecordingInv'
    BY RecordingStep
<1>3. RecordingInv => AvailablePlays
    BY DEF RecordingInv, ObjectInv
<1> QED
    BY <1>1, <1>2, <1>3, RecordingType, PTL DEF Spec

\* An unavailable recording has been surfaced as a fault, for every interleaving
\* and with every mishap: each of the three writers of that state opens or resolves
\* the fault in the same transaction.
THEOREM RecordingSurfaced == Spec => []UnavailableSurfaced
<1>1. Init => UnavailableSurfaced
    BY DEF Init, UnavailableSurfaced
<1>2. UnavailableSurfaced /\ [Next]_vars => UnavailableSurfaced'
  <2> SUFFICES ASSUME UnavailableSurfaced, [Next]_vars  PROVE UnavailableSurfaced'
    OBVIOUS
  <2> USE DEF UnavailableSurfaced
  <2>1. \/ UNCHANGED <<rec, fault>>
        \/ Reconcile(TRUE) \/ Reconcile(FALSE)
        \/ Complete \/ StaleSweep \/ DriveCommit \/ EraseCommit
    <3>1. ASSUME NEW e \in Egresses, FetchStep(e)  PROVE UNCHANGED <<rec, fault>>
      BY <3>1 DEF FetchStep, FetchRead, FetchEstablish, FetchClaim, EgressStarts,
                  FetchRecords, FetchReleases
    <3>2. ASSUME NEW e \in Egresses, FetchDies(e) \/ EgressEnds(e) \/ EventAgain(e) \/ HookDies(e)
          PROVE UNCHANGED <<rec, fault>>
      BY <3>2 DEF FetchDies, EgressEnds, EventAgain, HookDies
    <3>3. ASSUME NEW e \in Egresses, HookStep(e)
          PROVE \/ UNCHANGED <<rec, fault>>
                \/ Reconcile(TRUE) \/ Reconcile(FALSE)
      BY <3>3 DEF HookStep, HookMatch, HookTakes, HookSet, HookTransaction, HookReconciles,
                  HookDelete, HookResolve, Reconcile
    <3>4. ASSUME NEW p \in Paths, EndRead(p) \/ EndDies(p)  PROVE UNCHANGED <<rec, fault>>
      BY <3>4 DEF EndRead, EndDies
    <3>5. ASSUME NEW p \in Paths, EndStep(p)
          PROVE \/ UNCHANGED <<rec, fault>>
                \/ Reconcile(TRUE) \/ Reconcile(FALSE) \/ Complete
      BY <3>5 DEF EndStep, EndTransaction, EndPurge, EndMark, EndIndex, EndOutcome,
                  EndReconcile, EndDelete, EndResolve, Interrupt, Reconcile
    <3>6. ASSUME SweepStep \/ SweepDies
          PROVE UNCHANGED <<rec, fault>> \/ Reconcile(FALSE)
      BY <3>6 DEF SweepStep, SweepPop, SweepTransaction, SweepDelete, SweepDies
    <3>7. ASSUME DriveCheck \/ EraseRequest \/ EraseRollback \/ EraseStep
          PROVE UNCHANGED <<rec, fault>> \/ EraseCommit
      BY <3>7 DEF DriveCheck, EraseRequest, EraseRollback, EraseStep, EraseCollect,
                  EraseObject, EraseVerify, EraseGoes
    <3>8. ASSUME UNCHANGED vars  PROVE UNCHANGED <<rec, fault>>
      BY <3>8
    <3> QED
      BY <3>1, <3>2, <3>3, <3>4, <3>5, <3>6, <3>7, <3>8 DEF Next
  <2>2. CASE UNCHANGED <<rec, fault>>
    BY <2>2
  <2>3. CASE Reconcile(TRUE) \/ Reconcile(FALSE)
    BY <2>3 DEF Reconcile
  <2>4. CASE Complete
    BY <2>4 DEF Complete
  <2>5. CASE StaleSweep \/ DriveCommit
    BY <2>5 DEF StaleSweep, StaleRecording, DriveCommit
  <2>6. CASE EraseCommit
    BY <2>6 DEF EraseCommit, EraseGoes
  <2> QED
    BY <2>1, <2>2, <2>3, <2>4, <2>5, <2>6
<1> QED
    BY <1>1, <1>2, PTL DEF Spec
-----------------------------------------------------------------------------
(* What a call leaves behind once everything is done.  No handler dies, the *)
(* provider's answers arrive, no sweep comes early, every call established  *)
(* and nothing is erased while it runs: without any one of these            *)
(* assumptions TLC has a counterexample.  The transaction of an erasure may *)
(* still fail at any point, and a cutoff may come at any time.              *)

Undisturbed ==
    /\ Mishaps \subseteq {"rollback"} /\ "never" \notin Fates
    /\ ~EraseLive /\ ~Redrives

Going(e) == fetch[e] \in {"claimed", "asked"}
Finished == \E e \in Egresses : egress[e] \in {"complete", "failed"}
Gone == ~object /\ Finished

\* Nothing of the call runs any more, and no egress will start.
Over ==
    /\ session = "terminal"
    /\ \A p \in Paths : end[p] = "idle"
    /\ \A e \in Egresses :
         fetch[e] \notin {"established", "claimed", "asked"} /\ egress[e] # "running"

\* The claim admits one egress, which is recorded before it ends.
ClaimInv ==
    /\ \A e \in Egresses : Going(e) => claim = Starting
    /\ \A e, f \in Egresses : Going(e) /\ Going(f) => e = f
    /\ \A e \in Egresses : egress[e] # "none" => fetch[e] = "asked" \/ (fetch[e] = "done" /\ claim = e)
    /\ \A e \in Egresses : fetch[e] = "asked" => egress[e] = "running"

\* An event is sent by the egress that ended, a webhook handles one that was sent.
EventInv ==
    /\ \A e \in Egresses :
         /\ event[e] # "none" <=> egress[e] \in {"complete", "failed"}
         /\ hook[e] # "idle" => event[e] = "sent"
    /\ object => \E e \in Egresses : egress[e] = "complete"

\* The outcome in Valkey, and the one the completion has read, is the egress's.
OutcomeInv ==
    /\ "available" \in {outcome, heard} => \E e \in Egresses : egress[e] = "complete"
    /\ "unavailable" \in {outcome, heard} => \E e \in Egresses : egress[e] = "failed"
    /\ \A e \in Egresses :
         event[e] = "done" \/ hook[e] \in {"set", "delete", "resolve"} => outcome # "none"

\* How far a handler that ends the call has come, and what it has left behind.
EndInv ==
    /\ \A p \in Paths :
         /\ fate[p] # "never"
         /\ end[p] # "idle" => fate[p] # "none"
         /\ fate[p] = "complete" => p = "callback"
         /\ end[p] \in {"outcome", "reconcile", "delete", "resolve"} => fate[p] = "complete"
         /\ end[p] \notin {"idle", "txn"} => attempt # "in_progress"
         /\ end[p] = "reconcile" => heard # "none"
    /\ session = "terminal" => attempt # "in_progress"

\* The row: its recording is pending, settled or erased once it is completed, and the
\* erasure collects the key of every recording it will mark as erased.
RowInv ==
    /\ drive = "idle"
    /\ attempt # "deleted"
    /\ erasure # "none" => attempt # "in_progress"
    /\ attempt = "in_progress" => rec = "none"
    /\ rec = "pending" => attempt = "completed"
    /\ attempt = "completed" => rec # "none"
    /\ rec = "erased" <=> erasure = "executed"
    /\ attempt = "completed" /\ erasure # "executed" => keyed
    /\ attempt = "completed" /\ erasure \in {"locked", "emptied", "verified"} => doomed

\* What a handler that removes the call from the index has settled or deleted.
ResolveInv ==
    /\ \A e \in Egresses :
         /\ hook[e] = "delete" => egress[e] = "complete"
         /\ hook[e] = "resolve" => attempt = "completed" \/ Gone
    /\ \A p \in Paths :
         /\ end[p] = "delete" => Finished
         /\ end[p] = "resolve" => attempt = "completed" \/ Gone

\* The sweep works on a call that is over; what it makes unavailable is not there.
SweepInv ==
    /\ sweep # "idle" => Over
    /\ sweep = "txn" /\ rec = "pending" => ~object
    /\ sweep = "delete" => attempt = "interrupted"

\* A void attempt is still to be indexed or swept, or its upload is gone for good.
VoidInv ==
    attempt = "interrupted" =>
        \/ \E p \in Paths : end[p] \in {"purge", "mark", "index"}
        \/ indexed \/ sweep # "idle"
        \/ ~object /\ (Over \/ Finished)

\* What was uploaded after the erasure had looked is still to be deleted by the
\* webhook: the row was pending, so its transaction waits for the erasure.
ErasedInv ==
    erasure \in {"verified", "executed"} /\ object /\ attempt = "completed" /\ ~CutOff =>
        /\ rec \in {"pending", "erased"}
        /\ \E e \in Egresses : /\ egress[e] = "complete" /\ event[e] = "sent"
                               /\ hook[e] # "resolve"

\* A recording is settled after its egress has ended, or when none will start.
SettledInv ==
    attempt = "completed" /\ rec \in {"available", "unavailable"} /\ ~CutOff =>
        /\ Over \/ Finished
        /\ rec = "unavailable" => ~object

\* A recording whose outcome is known is pending only while somebody applies it.
ConfirmInv ==
    rec = "pending" /\ outcome # "none" =>
        \/ \E e \in Egresses : hook[e] = "set"
        \/ \E p \in Paths : /\ fate[p] = "complete"
                            /\ end[p] \in {"mark", "index", "outcome", "reconcile"}

SettlesInv ==
    /\ ClaimInv /\ EventInv /\ OutcomeInv /\ EndInv /\ RowInv /\ ResolveInv
    /\ SweepInv /\ VoidInv /\ ErasedInv /\ SettledInv /\ ConfirmInv

\* Every step of every actor keeps what a call will leave behind.
LEMMA SettlesStep ==
    ASSUME TypeOK, TypeOK', SettlesInv, Undisturbed, [Next]_vars
    PROVE  SettlesInv'
<1> USE EgressesAssumption, MishapsAssumption
    DEF TypeOK, ValkeyType, RowType, ProviderType, HandlerType, Undisturbed,
        SettlesInv, ClaimInv, EventInv, OutcomeInv, EndInv, RowInv, ResolveInv,
        SweepInv, VoidInv, ErasedInv, SettledInv, ConfirmInv,
        Going, Finished, Gone, Over, CutOff, Starting, Unclaimed
<1>1. ASSUME NEW e \in Egresses, FetchRead(e)  PROVE SettlesInv'
    BY <1>1 DEF FetchRead, FetchGoes
<1>2. ASSUME NEW e \in Egresses, FetchEstablish(e)  PROVE SettlesInv'
    BY <1>2 DEF FetchEstablish, FetchGoes
<1>3. ASSUME NEW e \in Egresses, FetchClaim(e)  PROVE SettlesInv'
    BY <1>3 DEF FetchClaim, FetchGoes
<1>4. ASSUME NEW e \in Egresses, EgressStarts(e)  PROVE SettlesInv'
    BY <1>4 DEF EgressStarts, FetchGoes
<1>5. ASSUME NEW e \in Egresses, FetchRecords(e)  PROVE SettlesInv'
    BY <1>5 DEF FetchRecords, FetchGoes
<1>6. ASSUME NEW e \in Egresses, FetchReleases(e)  PROVE SettlesInv'
    BY <1>6 DEF FetchReleases, FetchGoes
<1>7. ASSUME NEW e \in Egresses, FetchDies(e)  PROVE SettlesInv'
    BY <1>7 DEF FetchDies, FetchGoes
<1>8. ASSUME NEW e \in Egresses, EgressEnds(e)  PROVE SettlesInv'
    BY <1>8 DEF EgressEnds, NobodyGoes
<1>9. ASSUME NEW e \in Egresses, EventAgain(e)  PROVE SettlesInv'
    BY <1>9 DEF EventAgain, NobodyGoes
<1>10. ASSUME NEW e \in Egresses, HookMatch(e)  PROVE SettlesInv'
    BY <1>10 DEF HookMatch, HookGoes, HookTakes
<1>11. ASSUME NEW e \in Egresses, HookSet(e)  PROVE SettlesInv'
    BY <1>11 DEF HookSet, HookGoes
<1>12. ASSUME NEW e \in Egresses, HookTransaction(e)  PROVE SettlesInv'
    BY <1>12 DEF HookTransaction, HookGoes, HookReconciles, Reconcile, Reconciled, RowFree
<1>13. ASSUME NEW e \in Egresses, HookDelete(e)  PROVE SettlesInv'
    BY <1>13 DEF HookDelete, HookGoes
<1>14. ASSUME NEW e \in Egresses, HookResolve(e)  PROVE SettlesInv'
    BY <1>14 DEF HookResolve, HookGoes
<1>15. ASSUME NEW e \in Egresses, HookDies(e)  PROVE SettlesInv'
    BY <1>15 DEF HookDies, HookGoes
<1>16. ASSUME NEW p \in Paths, EndRead(p)  PROVE SettlesInv'
    BY <1>16 DEF EndRead, EndGoes
<1>17. ASSUME NEW p \in Paths, EndTransaction(p)  PROVE SettlesInv'
    BY <1>17 DEF EndTransaction, EndGoes, Complete, Interrupt, Reconcile, RowFree
<1>18. ASSUME NEW p \in Paths, EndPurge(p)  PROVE SettlesInv'
    BY <1>18 DEF EndPurge, EndGoes
<1>19. ASSUME NEW p \in Paths, EndMark(p)  PROVE SettlesInv'
    BY <1>19 DEF EndMark, EndGoes
<1>20. ASSUME NEW p \in Paths, EndIndex(p)  PROVE SettlesInv'
    BY <1>20 DEF EndIndex, EndGoes
<1>21. ASSUME NEW p \in Paths, EndOutcome(p)  PROVE SettlesInv'
    BY <1>21 DEF EndOutcome, EndGoes
<1>22. ASSUME NEW p \in Paths, EndReconcile(p)  PROVE SettlesInv'
    BY <1>22 DEF EndReconcile, EndGoes, Reconcile, Reconciled, RowFree
<1>23. ASSUME NEW p \in Paths, EndDelete(p)  PROVE SettlesInv'
    BY <1>23 DEF EndDelete, EndGoes
<1>24. ASSUME NEW p \in Paths, EndResolve(p)  PROVE SettlesInv'
    BY <1>24 DEF EndResolve, EndGoes
<1>25. ASSUME NEW p \in Paths, EndDies(p)  PROVE SettlesInv'
    BY <1>25 DEF EndDies, EndGoes
<1>26. ASSUME SweepPop  PROVE SettlesInv'
    BY <1>26 DEF SweepPop, SweepGoes, SweepDue, Awaited
<1>27. ASSUME SweepTransaction  PROVE SettlesInv'
    BY <1>27 DEF SweepTransaction, SweepGoes, Reconcile, RowFree
<1>28. ASSUME SweepDelete  PROVE SettlesInv'
    BY <1>28 DEF SweepDelete, SweepGoes
<1>29. ASSUME SweepDies  PROVE SettlesInv'
    BY <1>29 DEF SweepDies, SweepGoes
<1>30. ASSUME StaleSweep  PROVE SettlesInv'
    BY <1>30 DEF StaleSweep, NobodyGoes, StaleRecording, RowFree, SweepDue, Awaited
<1>31. ASSUME DriveCheck  PROVE SettlesInv'
    BY <1>31 DEF DriveCheck, DriveGoes
<1>32. ASSUME DriveCommit  PROVE SettlesInv'
    BY <1>32 DEF DriveCommit, DriveGoes, RowFree
<1>33. ASSUME EraseRequest  PROVE SettlesInv'
    BY <1>33 DEF EraseRequest, EraseGoes, NobodyGoes
<1>34. ASSUME EraseCollect  PROVE SettlesInv'
    BY <1>34 DEF EraseCollect, EraseGoes, NobodyGoes
<1>35. ASSUME EraseObject  PROVE SettlesInv'
    BY <1>35 DEF EraseObject, EraseGoes, NobodyGoes
<1>36. ASSUME EraseVerify  PROVE SettlesInv'
    BY <1>36 DEF EraseVerify, EraseGoes, NobodyGoes
<1>37. ASSUME EraseCommit  PROVE SettlesInv'
    BY <1>37 DEF EraseCommit, EraseGoes, NobodyGoes
<1>38. ASSUME EraseRollback  PROVE SettlesInv'
    BY <1>38 DEF EraseRollback, EraseGoes, NobodyGoes, RowFree
<1>39. ASSUME UNCHANGED vars  PROVE SettlesInv'
    BY <1>39
<1> HIDE DEF TypeOK, SettlesInv
<1> QED
    BY <1>1, <1>2, <1>3, <1>4, <1>5, <1>6, <1>7, <1>8, <1>9, <1>10, <1>11, <1>12, <1>13, <1>14, <1>15, <1>16, <1>17, <1>18, <1>19, <1>20, <1>21, <1>22, <1>23, <1>24, <1>25, <1>26, <1>27, <1>28, <1>29, <1>30, <1>31, <1>32, <1>33, <1>34, <1>35, <1>36, <1>37, <1>38, <1>39
    DEF Next, FetchStep, HookStep, EndStep, SweepStep, EraseStep

\* In every reachable state of an undisturbed recording.
LEMMA Settling ==
    ASSUME Undisturbed
    PROVE  Spec => []SettlesInv
<1>1. Init => SettlesInv
    BY EgressesAssumption
    DEF Init, SettlesInv, ClaimInv, EventInv, OutcomeInv, EndInv, RowInv, ResolveInv,
        SweepInv, VoidInv, ErasedInv, SettledInv, ConfirmInv, Going
<1>2. TypeOK /\ TypeOK' /\ SettlesInv /\ [Next]_vars => SettlesInv'
    BY SettlesStep
<1> QED
    BY <1>1, <1>2, RecordingType, PTL DEF Spec

\* A void or erased attempt leaves no audio behind, whichever of the webhook, the
\* completion, the sweeps, the erasure and a cutoff comes first, and however often
\* the provider delivers its event, for any number of bundle fetches.
THEOREM NothingIsLeft ==
    ASSUME Undisturbed
    PROVE  Spec => []NothingLeftBehind
<1>1. TypeOK /\ SettlesInv => NothingLeftBehind
  <2> SUFFICES ASSUME TypeOK, SettlesInv, Settled,
                      \/ attempt \in {"interrupted", "deleted"}
                      \/ erasure = "executed" /\ ~CutOff
               PROVE  ~object
    BY DEF NothingLeftBehind
  <2>1. CASE attempt = "interrupted"
    BY <2>1 DEF SettlesInv, VoidInv, Settled, HandlersIdle
  <2>2. CASE erasure = "executed" /\ ~CutOff /\ attempt = "completed"
    BY <2>2 DEF SettlesInv, ErasedInv, Settled
  <2> QED
    BY <2>1, <2>2 DEF TypeOK, RowType, SettlesInv, RowInv, EndInv, Settled
<1> QED
    BY <1>1, RecordingType, Settling, PTL

\* The outcome of the egress reaches the row, whichever of its webhook, the
\* completion and the sweep comes last, for any number of bundle fetches.
THEOREM OutcomeIsApplied ==
    ASSUME Undisturbed
    PROVE  Spec => []OutcomeApplied
<1>1. SettlesInv => ConfirmedIsSettled
    BY DEF SettlesInv, ConfirmInv, ConfirmedIsSettled, HandlersIdle
<1>2. SettlesInv => EndedIsApplied
    BY DEF SettlesInv, SettledInv, EndedIsApplied
<1> QED
    BY <1>1, <1>2, Settling, PTL DEF OutcomeApplied
=============================================================================
