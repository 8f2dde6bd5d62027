---------------------------- MODULE MCWorkPlane ----------------------------
(* Instances of WorkPlane for TLC. *)
EXTENDS WorkPlane

CONSTANTS r1, k1, c1, c2

Nobody == {}
OneRep == {r1}
OneCandidate == {k1}
OneCall == {c1}
TwoCalls == {c1, c2}

AllPolicies == {"after_finish", "rejected_only", "withhold"}
DefaultPolicy == {"rejected_only"}

AllMishaps == {"death", "ack", "exhaustion", "decision", "erasure", "patch"}
NoErasure == {"death", "exhaustion", "decision"}
Decisions == {"decision"}
=============================================================================
