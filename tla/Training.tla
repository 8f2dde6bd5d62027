------------------------------ MODULE Training ------------------------------
(***************************************************************************)
(* What reps practise, and what is shown of it: to the rep, the month's    *)
(* rating and the history of each drill; to the manager, the dashboard,    *)
(* the roster, a rep's deep dive, the drill's statistics.  Nothing of it   *)
(* is stored: each surface derives its numbers from attempts and           *)
(* scorecards, through views that show a reader only the rows the row      *)
(* policies let that reader see.  A rep may change teams, and takes the    *)
(* attempts along; a drill stays with the team that wrote it.              *)
(*                                                                         *)
(* Scores are in tenths.  Lists longer than a page are walked by cursor    *)
(* while the rows move.                                                    *)
(***************************************************************************)
EXTENDS Hiring, Integers, Sequences, FiniteSetsExt

CONSTANTS
    Reps,       \* accounts by their id, which orders them
    Foreign,    \* published drills of another team
    Practice,   \* the author of each self-authored drill
    TypeOf,     \* the call type of each drill, by its place in CALL_TYPES
    Id,         \* drills by their id
    Scores      \* what a scorecard may say

Private(d) == d \in DOMAIN Practice
AllDrills == Drills \cup Foreign \cup DOMAIN Practice

ASSUME TrainingAssumption ==
    /\ Reps \subseteq Nat \ {0}
    /\ Foreign \cap Drills = {} /\ DOMAIN Practice \cap (Drills \cup Foreign) = {}
    /\ Practice \in [DOMAIN Practice -> Reps]
    /\ TypeOf \in [AllDrills -> 1..4] /\ Id \in [AllDrills -> Nat]
    /\ Scores \subseteq Nat

VARIABLES
    rep,       \* the account rows of reps
    attempts,  \* attempt rows in the order they started, with their scorecards
    month,     \* the current month of the org's calendar
    stamp,     \* drill.updated_at
    walk,      \* a reader's way through a list, page by page
    steady     \* history: rows of that list that have not changed since it began

NoWalk == [state |-> "none", reader |-> None, filter |-> None, at |-> <<0, 0>>, served |-> <<>>]
records == <<rep, attempts, month, walk>>
training == <<records, stamp, steady>>

Manager == 0
Managers == {"ours", "theirs"}  \* a team is its manager
Home(d) == IF d \in Foreign THEN "theirs" ELSE "ours"
Status(d) == IF d \notin Drills THEN "published"
             ELSE IF drill[d] = None THEN "none" ELSE drill[d].status

-----------------------------------------------------------------------------
(* What a reader may see: the scope a session carries, the row policies. *)

RepScope(r) == [role |-> "rep", account |-> r, team |-> rep[r].team]
ManagerScope(t) == [role |-> "manager", account |-> Manager, team |-> t]

ReadsDrill(s, d) ==
    \/ Private(d) /\ Practice[d] = s.account
    \/ /\ ~Private(d) /\ Status(d) # "none" /\ Home(d) = s.team
       /\ s.role = "rep" => Status(d) = "published"

ReadsAttempt(s, a) ==
    \/ a.rep = s.account
    \/ s.role = "manager" /\ a.team = s.team /\ ~Private(a.drill)

-----------------------------------------------------------------------------
(* The derivations, V-1 to V-8. *)

Graded(i) == attempts[i].status = "graded"

(* Mutant: the view counts private practice. *)
Counted_Practice(s) ==
    {i \in DOMAIN attempts : Graded(i) /\ ReadsAttempt(s, attempts[i])
                                       /\ ReadsDrill(s, attempts[i].drill)}

(* The counted pool, as the reader sees it.  *)
Counted(s) ==
    {i \in DOMAIN attempts : /\ Graded(i) /\ ~Private(attempts[i].drill)
                             /\ ReadsAttempt(s, attempts[i])
                             /\ ReadsDrill(s, attempts[i].drill)}

Sum(S) == MapThenSumSet(LAMBDA i : attempts[i].score, S)
Round(x, n) == IF x >= 0 THEN (2 * x + n) \div (2 * n) ELSE -((n - 2 * x) \div (2 * n))
Mean(S) == IF S = {} THEN None ELSE Round(Sum(S), Cardinality(S))

(* V-2's groups: each rep's pool of a month. *)
Pools(s, m) ==
    LET C == Counted(s) IN
    [r \in team.reps |-> {i \in C : attempts[i].rep = r /\ attempts[i].month = m}]
OfType(S, k) == {i \in S : TypeOf[attempts[i].drill] = k}

Less(x, y) == IF None \in {x, y} THEN None ELSE x - y

(* V-3: what V-2 says of a rep, with the trend. *)
Types == 1..4
Standing(s, r, m) ==
    LET pool == Pools(s, m)[r] IN
    [rating |-> Mean(pool), types |-> [k \in Types |-> Mean(OfType(pool, k))],
     trend |-> Less(Mean(pool), Mean(Pools(s, m - 1)[r]))]

TIERING_MINIMUM == 5
Fifth(n) == LET k == (2 * n + 5) \div 10 IN IF k > 1 THEN k ELSE 1
InBottomHalf(rank, n) == n >= TIERING_MINIMUM /\ rank > (n + 1) \div 2

TierAt(rank, n) ==
    IF n < TIERING_MINIMUM THEN "none"
    ELSE IF rank <= Fifth(n) THEN "top"
    ELSE IF rank > n - Fifth(n) THEN "needs_coaching" ELSE "mid"

(* V-4: the rated reps, best first, then by id. *)
Tiers(s, m) ==
    LET pool == Pools(s, m)
        rated == {r \in team.reps : pool[r] # {}}
        rating == [r \in rated |-> Mean(pool[r])]
        rank == [r \in rated |-> Cardinality(
                    {q \in rated : rating[q] > rating[r] \/ (rating[q] = rating[r] /\ q <= r)})]
    IN  [r \in rated |-> [rating |-> rating[r], rank |-> rank[r], pool |-> pool[r],
                          tier |-> TierAt(rank[r], Cardinality(rated))]]

In(view, tier) == {r \in DOMAIN view : view[r].tier = tier}
BottomHalf(view) == {r \in DOMAIN view : InBottomHalf(view[r].rank, Cardinality(DOMAIN view))}

(* V-5. *)
TeamAverage(view) ==
    IF DOMAIN view = {} THEN None
    ELSE Round(MapThenSumSet(LAMBDA r : view[r].rating, DOMAIN view), Cardinality(DOMAIN view))

(* V-6: per call type, the top reps' mean less the bottom half's. *)
Gap(view, k) ==
    LET All(rs) == OfType(UNION {view[r].pool : r \in rs}, k)
        T == All(In(view, "top"))
        B == All(BottomHalf(view))
    IN  IF {} \in {T, B} THEN None
        ELSE Round(Sum(T) * Cardinality(B) - Sum(B) * Cardinality(T), Cardinality(T) * Cardinality(B))

Severity(gap) == IF gap = None THEN "none"
                 ELSE IF gap >= 20 THEN "high" ELSE IF gap >= 10 THEN "moderate" ELSE "none"

(* A participant's own statistics on a drill count practice too. *)
Taken(s, r, d) ==
    {i \in DOMAIN attempts : /\ Graded(i) /\ attempts[i].rep = r /\ attempts[i].drill = d
                             /\ ReadsAttempt(s, attempts[i])}
Best(S) == Max({attempts[i].score : i \in S})

-----------------------------------------------------------------------------
(* The rep's surfaces. *)

ProgressHome(r) == Standing(RepScope(r), r, month)

Profile(r) ==
    [completed |-> Cardinality({i \in DOMAIN attempts : Graded(i) /\ attempts[i].rep = r}),
     lifetime |-> Mean(Counted(RepScope(r)))]

(* An attempt's number counts every attempt of the rep on the drill. *)
NumberIn(S, i) == Cardinality({j \in S : j <= i})
OnDrill(r, d) == {i \in DOMAIN attempts : attempts[i].rep = r /\ attempts[i].drill = d}

NotFound == None

DrillHistory(r, d) ==
    IF ~ReadsDrill(RepScope(r), d) THEN NotFound
    ELSE LET S == Taken(RepScope(r), r, d) IN
         [stats |-> IF S = {} THEN None
                    ELSE [best |-> Best(S), latest |-> attempts[Max(S)].score,
                          average |-> Mean(S), graded |-> Cardinality(S),
                          trend |-> attempts[Max(S)].score - attempts[Min(S)].score],
          numbers |-> [i \in OnDrill(r, d) |-> NumberIn(OnDrill(r, d), i)]]

-----------------------------------------------------------------------------
(* The manager's surfaces.  *)

Dashboard(t, m) ==
    LET view == Tiers(ManagerScope(t), m)
        before == Tiers(ManagerScope(t), m - 1)
    IN  [average |-> TeamAverage(view), delta |-> Less(TeamAverage(view), TeamAverage(before)),
         rated |-> Cardinality(DOMAIN view),
         suppressed |-> Cardinality(DOMAIN view) < TIERING_MINIMUM,
         top |-> Cardinality(In(view, "top")),
         coaching |-> Cardinality(In(view, "needs_coaching")),
         gaps |-> [k \in Types |-> <<Gap(view, k), Severity(Gap(view, k))>>]]

(* Mutant: reps who are no longer active are left out. *)
OnRoster_Active(t) == {r \in team.reps : rep[r].team = t /\ rep[r].status = "active"}

(* Every rep of the team, whatever their status.  *)
OnRoster(t) == {r \in team.reps : rep[r].team = t}

Strongest(f) == LET K == {k \in Types : f[k] # None} IN
    IF K = {} THEN None ELSE CHOOSE k \in K : \A j \in K : f[j] < f[k] \/ (f[j] = f[k] /\ k <= j)
Weakest(f) == LET K == {k \in Types : f[k] # None} IN
    IF K = {} THEN None ELSE CHOOSE k \in K : \A j \in K : f[j] > f[k] \/ (f[j] = f[k] /\ k <= j)

Roster(t, m) ==
    LET s == ManagerScope(t)
        view == Tiers(s, m)
    IN  [r \in OnRoster(t) |->
           LET types == Standing(s, r, m).types
               rated == r \in DOMAIN view
           IN  [tier |-> IF rated THEN view[r].tier ELSE "none",
                rating |-> IF rated THEN view[r].rating ELSE None,
                counted |-> IF rated THEN Cardinality(view[r].pool) ELSE 0,
                strongest |-> Strongest(types), weakest |-> Weakest(types)]]

(* Over all months, counted or not. *)
Numbered(t, r, m, i) ==
    NumberIn({j \in OnDrill(r, attempts[i].drill) : attempts[j].team = t}, i)

DeepDive(t, r, m) ==
    IF rep[r].team # t THEN NotFound
    ELSE LET pool == Pools(ManagerScope(t), m)[r] IN
         [standing |-> Standing(ManagerScope(t), r, m),
          counts |-> [k \in Types |-> Cardinality(OfType(pool, k))],
          numbers |-> [i \in pool |-> Numbered(t, r, m, i)]]

(* The graded attempts on a drill that its manager reads. *)
Readable(t, d) ==
    {i \in DOMAIN attempts : /\ Graded(i) /\ attempts[i].drill = d
                             /\ ReadsAttempt(ManagerScope(t), attempts[i])}

CatalogRow(t, d) == [average |-> Mean(Readable(t, d)), total |-> Cardinality(Readable(t, d))]

Rollup(t, d) ==
    [average |-> Mean(Readable(t, d)),
     practiced |-> Cardinality({attempts[i].rep : i \in Readable(t, d)}),
     eligible |-> Cardinality({r \in OnRoster(t) : rep[r].status = "active"}),
     total |-> Cardinality(Readable(t, d))]

(* Each rep's best, with the latest attempt to replay. *)
Leaderboard(t, d) ==
    LET s == ManagerScope(t)
        Ranked == {r \in team.reps : rep[r].team = t /\ Taken(s, r, d) # {}}
    IN  [r \in Ranked |-> [best |-> Best(Taken(s, r, d)), latest |-> Max(Taken(s, r, d)),
                           graded |-> Cardinality(Taken(s, r, d))]]

TeamDrillStats(t, d) ==
    IF Private(d) \/ Home(d) # t \/ Status(d) # "published" THEN NotFound
    ELSE [rollup |-> Rollup(t, d), leaderboard |-> Leaderboard(t, d)]

(* Quick picks of active reps for an assignment. *)
Cohorts(t, m) ==
    LET view == Tiers(ManagerScope(t), m)
        active == {r \in OnRoster(t) : rep[r].status = "active"}
    IN  [bottom_half |-> BottomHalf(view) \cap active,
         rating_below_6 |-> {r \in DOMAIN view \cap active : view[r].rating < 60},
         fewer_than_5_attempts |->
             {r \in active : r \in DOMAIN view => Cardinality(view[r].pool) < 5},
         newest_joiners |-> {r \in active : Cardinality({q \in active : q > r}) < 5}]

-----------------------------------------------------------------------------
(* What happens to a rep. *)

TrainingInit ==
    /\ rep = [r \in team.reps |-> [team |-> "ours", status |-> "active"]]
    /\ attempts \in team.histories
    /\ month = 1
    /\ stamp = [d \in AllDrills |-> 0]
    /\ walk = NoWalk /\ steady = {}

(* A call is admitted on a drill the rep may practise; what else it takes  *)
(* is the call plane's.                                                    *)
Admit(r, d) ==
    /\ rep[r].status = "active"
    /\ ReadsDrill(RepScope(r), d)
    /\ Len(attempts) < team.attempts
    /\ attempts' = Append(attempts, [rep |-> r, drill |-> d, team |-> rep[r].team,
                                     month |-> month, status |-> "open", score |-> 0])
    /\ UNCHANGED <<rep, month, walk>>

Grade(i, score) ==
    /\ attempts[i].status = "open"
    /\ attempts' = [attempts EXCEPT ![i].status = "graded", ![i].score = score]
    /\ UNCHANGED <<rep, month, walk>>

Interrupt(i) ==
    /\ attempts[i].status = "open"
    /\ attempts' = [attempts EXCEPT ![i].status = "interrupted"]
    /\ UNCHANGED <<rep, month, walk>>

(* app_change_team: the foreign keys take the rep's attempts along. *)
ChangeTeam(r, t) ==
    /\ rep[r].status = "active" /\ rep[r].team # t
    /\ rep' = [rep EXCEPT ![r].team = t]
    /\ attempts' = [i \in DOMAIN attempts |->
                       IF attempts[i].rep = r THEN [attempts[i] EXCEPT !.team = t]
                       ELSE attempts[i]]
    /\ UNCHANGED <<month, walk>>

Deactivate(r) ==
    /\ rep[r].status = "active"
    /\ rep' = [rep EXCEPT ![r].status = "deactivated"]
    /\ UNCHANGED <<attempts, month, walk>>

NextMonth ==
    /\ month < team.months
    /\ month' = month + 1
    /\ UNCHANGED <<rep, attempts, walk>>

-----------------------------------------------------------------------------
(* Lists.  A page is one statement; its cursor holds the key of the last   *)
(* row and what the list was asked for.  Pages hold one row.               *)

CatalogRows(filter) ==
    {d \in AllDrills : /\ ~Private(d) /\ Home(d) = "ours" /\ Status(d) # "none"
                       /\ filter \in {"all", Status(d)}}

LibraryRows(r) ==
    {d \in AllDrills : IF Private(d) THEN Practice[d] = r
                       ELSE Home(d) = rep[r].team /\ Status(d) = "published"}

(* recommended: what is assigned, then what was never tried, then the rest.*)
Bucket(r, d) == IF d \in assigned THEN 0 ELSE IF OnDrill(r, d) = {} THEN 1 ELSE 2

(* Due dates tie, and the publication dates of drills published together.  *)
Key(w, d) == IF w.reader = Manager THEN <<-stamp[d], -Id[d]>>
             ELSE <<Bucket(w.reader, d), Id[d]>>
Rows(w) == IF w.reader = Manager THEN CatalogRows(w.filter) ELSE LibraryRows(w.reader)

(* Mutant: the id breaks no tie. *)
Before_Untied(k, l) == k[1] < l[1]

Before(k, l) == k[1] < l[1] \/ (k[1] = l[1] /\ k[2] < l[2])

(* The next row, and the walk after it: it ends with a page that has no    *)
(* row behind it.                                                          *)
Turn(w, ahead) ==
    IF ahead = {} THEN [w EXCEPT !.state = "ended"]
    ELSE LET d == CHOOSE e \in ahead : \A f \in ahead \ {e} : ~Before(Key(w, f), Key(w, e))
         IN  [w EXCEPT !.state = IF ahead = {d} THEN "ended" ELSE "open",
                       !.at = Key(w, d), !.served = Append(@, d)]

OpenList(reader, filter) ==
    /\ walk = NoWalk
    /\ LET w == [NoWalk EXCEPT !.reader = reader, !.filter = filter] IN walk' = Turn(w, Rows(w))
    /\ UNCHANGED <<rep, attempts, month>>

(* A cursor of another filter, or another sort, is refused.  *)
NextPage(filter) ==
    /\ walk.state = "open"
    /\ walk' = IF filter # walk.filter THEN [walk EXCEPT !.state = "refused"]
               ELSE Turn(walk, {d \in Rows(walk) : Before(walk.at, Key(walk, d))})
    /\ UNCHANGED <<rep, attempts, month>>

(* What the database and an observer note of every step. *)
Noted ==
    /\ stamp' = IF Manager \notin team.readers THEN stamp
                ELSE [d \in AllDrills |->
                        IF d \in Drills /\ drill'[d] # drill[d]
                        THEN Max({stamp[e] : e \in AllDrills}) + 1 ELSE stamp[d]]
    /\ steady' = IF walk = NoWalk /\ walk' # NoWalk THEN Rows(walk')
                 ELSE IF walk.state # "open" THEN steady
                 ELSE {d \in steady : d \in Rows(walk)' /\ Key(walk, d)' = Key(walk, d)}

RepStep ==
    \/ \E r \in team.reps, d \in AllDrills : Admit(r, d)
    \/ \E r \in team.movers : Deactivate(r) \/ \E t \in Managers : ChangeTeam(r, t)
    \/ \E i \in DOMAIN attempts : Interrupt(i) \/ \E score \in Scores : Grade(i, score)
    \/ NextMonth

Filters == {"all", "published", "recommended"}
ListStep ==
    \/ \E reader \in team.readers :
         IF reader = Manager THEN \E f \in {"all", "published"} : OpenList(reader, f)
         ELSE OpenList(reader, "recommended")
    \/ \E f \in Filters : NextPage(f)

TrainingStep == RepStep \/ ListStep
=============================================================================
