----------------------------- MODULE MCIdentity -----------------------------
(* Instances of Entry for TLC. *)
EXTENDS Entry, TLC

CONSTANTS m1, r1, c1, c2, p1, p2, p3, o1, k1, k2, e1, e2, w1, w2

OneManager == {m1}
OneRep == {r1}
TwoCookies == {c1, c2}
TwoRequests == {p1, p2}
ThreeRequests == {p1, p2, p3}
OneOperator == {o1}
TwoKeys == {k1, k2}
TwoExports == {e1, e2}
TwoWorkers == {w1, w2}

EverySurface == DoorNames \cup {"sessions", "circuit", "codes", "operators", "lists", "exports"}
EveryList == {"audit", "requests", "faults"}

FewAttempts == [b \in Buckets |-> IF b = "source" THEN 3 ELSE 2]
ShortWindows == [b \in Buckets |-> 4]
AsWired == {"value", "failure"}

Alike == Permutations(Cookies) \cup Permutations(Requests)
=============================================================================
