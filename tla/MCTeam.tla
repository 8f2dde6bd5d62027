------------------------------- MODULE MCTeam -------------------------------
(* Instances of Team for TLC. *)
EXTENDS Team, TLC

CONSTANTS a1, a2, d1, d2, d3, f1, s1, p1, k1, k2, q1, q2

TwoDocuments == {a1, a2}
TwoRequests == {q1, q2}
Alike == Permutations(TwoDocuments) \cup Permutations(TwoRequests)

Nothing == [documents |-> {}, drills |-> {}, given |-> {}, positions |-> {},
            candidates |-> {}, keys |-> {}, invites |-> 0, generations |-> 2,
            requests |-> 2, reps |-> {}, movers |-> {}, attempts |-> 0, months |-> 1, histories |-> {<<>>}, readers |-> {}]

Author == s1 :> 1
CallTypes == d1 :> 1 @@ d2 :> 2 @@ d3 :> 1 @@ f1 :> 1 @@ s1 :> 1
Ids == d1 :> 2 @@ d2 :> 3 @@ d3 :> 1 @@ f1 :> 4 @@ s1 :> 5

(* A team that writes its first drill, from one document or from two; one  *)
(* that hires; one that changes and archives what it has published; one    *)
(* that publishes for its position; one that practises; one large enough   *)
(* to be ranked; and one whose lists are read while they change.           *)
Writing == [Nothing EXCEPT !.documents = {a1}, !.drills = {d1}, !.generations = 3]
Grounding == [Nothing EXCEPT !.documents = {a1, a2}, !.drills = {d1}, !.requests = 1]
Inviting == [Nothing EXCEPT !.drills = {d1}, !.given = {d1}, !.positions = {p1},
                            !.candidates = {k1}, !.keys = {1, 2}, !.invites = 2]
Assessing == [Inviting EXCEPT !.drills = {d1, d2}, !.given = {d1, d2}, !.keys = {1},
                              !.invites = 1]
Composing == [Nothing EXCEPT !.drills = {d1, d2}, !.given = {d1}, !.positions = {p1}]
Practising == [Nothing EXCEPT !.given = {d1}, !.drills = {d1}, !.reps = {1, 2},
                              !.movers = {1}, !.attempts = 2, !.months = 2, !.requests = 1]
Call(r, d, m, score) == [rep |-> r, drill |-> d, team |-> "ours", month |-> m,
                         status |-> "graded", score |-> score]
Ranks == {[r \in 1..5 |-> Call(r, IF r = 3 THEN d2 ELSE d1, 1, f[r])] : f \in [1..5 -> {55, 80}]}
Ranked == [Nothing EXCEPT !.given = {d1, d2}, !.drills = {d1, d2}, !.reps = 1..5,
                          !.movers = {2, 3}, !.histories = Ranks, !.requests = 0]
Cataloguing == [Nothing EXCEPT !.given = {d1, d2, d3}, !.drills = {d1, d2, d3},
                               !.requests = 1, !.readers = {Manager}]
Browsing == [Nothing EXCEPT !.given = {d1, d2}, !.drills = {d1, d2}, !.reps = {1},
                            !.attempts = 1, !.requests = 1, !.readers = {1}]
AllTeams == {Writing, Grounding, Inviting, Assessing, Composing, Practising, Ranked,
             Cataloguing, Browsing}
=============================================================================
