---------------------------- MODULE MCCallPlane ----------------------------
(* Instances of CallPlane for TLC. *)
EXTENDS CallPlane, TLC

CONSTANTS r1, r2, k1, c1, c2, c3, s1, s2

OneRep == {r1}
TwoReps == {r1, r2}
OneCandidate == {k1}
NoCandidates == {}
NoReps == {}
TwoCalls == {c1, c2}
ThreeCalls == {c1, c2, c3}
OneCall == {c1}
OneSlot == {s1}
TwoSlots == {s1, s2}
Attempts == {"attempt"}
AllModes == {"attempt", "test"}
CallbackAndSweeper == {"callback", "sweeper"}
SweeperAndCancel == {"sweeper", "cancel"}
NoCrash == {}
AnyCrash == {"request", "bundle", "cancel", "callback", "webhook", "sweeper"}
AllPaths == {"callback", "sweeper", "webhook", "cancel"}
Everyone == AnyCrash
RequestsAndBundles == {"request", "bundle"}
AllButBundles == Everyone \ {"bundle", "sweeper"}
AllButCancels == Everyone \ {"cancel"}
CancelSurvives == AnyCrash \ {"cancel"}
SweeperSurvives == AnyCrash \ {"sweeper"}

CallsAlike == Permutations(Calls)
=============================================================================
