----------------------------- MODULE MCRestore -----------------------------
(* Instances of Restore for TLC: one organization, two commands. *)
EXTENDS Restore, TLC

Symmetric == Permutations(Commands)

ServiceKinds == {"start", "cancel", "create_restriction", "release_restriction",
                 "set_subject_request_state"}
PurgeKinds == {"start", "create_restriction", "release_restriction"}
HoldOrErasure == {"none", "erasure"}
JustErasure == {"erasure"}
FirstSetups == {"fresh", "term"}
OneEnd == {1}
OnePeriod == {1}
=============================================================================
