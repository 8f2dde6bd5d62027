---------------------------- MODULE MCRecording ----------------------------
(* Instances of Recording for TLC. *)
EXTENDS Recording

OneEgressOnly == {1}
TwoEgresses == {1, 2}
CallbackAndSweeper == {"callback", "sweeper"}
AllPaths == {"callback", "sweeper", "suspension"}
CompleteOrVoid == {"complete", "void"}
AnyFate == {"complete", "void", "never"}
NoMishap == {}
Rollback == {"rollback"}
AllButRollback == {"crash", "timeout", "early", "late"}
=============================================================================
