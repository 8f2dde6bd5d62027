---------------------------- MODULE MCLifecycle ----------------------------
(* An instance of Lifecycle for TLC: one organization, one command. *)
EXTENDS Lifecycle

AllKinds == {"start", "cancel", "create_restriction", "release_restriction",
             "set_subject_request_state", "renew_term", "extend", "policy_revision"}
JustExport == {"export"}
AllSetups == {"fresh", "term", "episode"}
OneEnd == {1}
OnePeriod == {1}
=============================================================================
