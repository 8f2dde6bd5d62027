------------------------------- MODULE Limits -------------------------------
(***************************************************************************)
(* What the program lets through, and when it lets through again: the      *)
(* attempt counters in Valkey, and the circuit a process keeps around each *)
(* dependency.                                                             *)
(*                                                                         *)
(* A counter is a key with a time to live; each pipeline and each command  *)
(* of Valkey is a step, and any number of requests stand between two of    *)
(* them.  A bucket has one subject: its counters share nothing with those  *)
(* of another.  Time passes in ticks.                                      *)
(***************************************************************************)
LOCAL INSTANCE Integers
LOCAL INSTANCE FiniteSets
LOCAL INSTANCE Sequences

CONSTANTS
    Clients,        \* requests at a door at a time
    Callers,        \* logical calls of a dependency at a time
    AttemptsOf,     \* allowed in a window, by bucket
    WindowOf,       \* ticks of a window, by bucket
    BaseHold,       \* ticks of the first hold
    MaxHold,        \* ticks of the longest
    Outcomes,       \* what a call of a dependency may come to
    MaxAttempts,    \* attempts of a logical call
    Threshold,      \* failures that open the circuit
    CallTicks,      \* timeout of one attempt
    RecoveryTicks   \* from the last failure to the probe

Buckets == {"source", "failures", "hold", "reset_identifier", "reset_source",
            "complete_source", "gate", "ops_source", "request"}

(* The circuit is sound for a timeout below the recovery interval: 5 and 30 *)
(* seconds as shipped.                                                      *)
ASSUME LimitsAssumption ==
    /\ AttemptsOf \in [Buckets -> Nat] /\ WindowOf \in [Buckets -> Nat \ {0}]
    /\ BaseHold \in Nat \ {0} /\ MaxHold \in Nat /\ BaseHold <= MaxHold
    /\ Outcomes \subseteq {"value", "failure", "rejected"}
    /\ MaxAttempts \in Nat \ {0} /\ Threshold \in Nat \ {0}
    /\ CallTicks \in Nat \ {0} /\ RecoveryTicks \in Nat /\ CallTicks < RecoveryTicks

VARIABLES
    counter,    \* throttle:<bucket>:<subject>
    try,        \* the requests at a door
    circuit,    \* the breaker of one dependency
    call        \* the logical calls of that dependency

throttleVars == <<counter, try>>
circuitVars == <<circuit, call>>
limitVars == <<throttleVars, circuitVars>>

(* age is the observer's: ticks since the key was last absent. *)
Absent == [n |-> 0, ttl |-> 0, age |-> 0]

(* Values a counter is told apart by: one above what is allowed, and for   *)
(* failures those up to the longest hold.                                  *)
CapOf(b) == AttemptsOf[b] + IF b = "failures" THEN MaxHold ELSE 1

NotTrying == [at |-> "idle", left |-> <<>>, over |-> FALSE, failures |-> 0]
Closed == -1
NoCall == [at |-> "idle", attempts |-> 0, age |-> 0, probe |-> FALSE]

LimitsInit ==
    /\ counter = [b \in Buckets |-> Absent]
    /\ try = [p \in Clients |-> NotTrying]
    /\ circuit = [failures |-> 0, since |-> Closed, probe |-> FALSE]
    /\ call = [p \in Callers |-> NoCall]

-----------------------------------------------------------------------------
(* Throttle *)

Lower(x, y) == IF x < y THEN x ELSE y

(* Mutant: the expiry is set again by every hit. *)
Counted_Sliding(b) ==
    [n |-> Lower(counter[b].n + 1, CapOf(b)), ttl |-> WindowOf[b], age |-> counter[b].age]

(* INCR, and EXPIRE NX in the same MULTI. *)
Counted(b) ==
    [n |-> Lower(counter[b].n + 1, CapOf(b)),
     ttl |-> IF counter[b] = Absent THEN WindowOf[b] ELSE counter[b].ttl,
     age |-> counter[b].age]
Within(b) == Counted(b).n <= AttemptsOf[b]

(* 2**exponent, as far as failures are told apart. *)
Doubled[n \in 0..MaxHold] == IF n = 0 THEN 1 ELSE 2 * Doubled[n - 1]
HoldFor(failures) == Lower(MaxHold, BaseHold * Doubled[failures - AttemptsOf["failures"]])
Held == counter["hold"] # Absent

(* The counters a door hits, in their order, before it does any work. *)
GuardSignIn == <<"source">>
GuardResetRequest == <<"reset_identifier", "reset_source">>
GuardResetCompletion == <<"complete_source">>
GuardGate == <<"gate">>
GuardOps == <<"ops_source">>
GuardRequest == <<"request">>
DoorNames == {"sign_in", "reset_request", "reset_completion", "gate", "ops", "request"}
HitsOf(door) == CASE door = "sign_in" -> GuardSignIn
                  [] door = "reset_request" -> GuardResetRequest
                  [] door = "reset_completion" -> GuardResetCompletion
                  [] door = "gate" -> GuardGate
                  [] door = "ops" -> GuardOps
                  [] door = "request" -> GuardRequest

Arrive(p, door) ==
    /\ try[p].at = "idle"
    /\ try' = [try EXCEPT ![p] = [NotTrying EXCEPT !.at = door, !.left = HitsOf(door)]]
    /\ UNCHANGED counter

(* Every counter of a door is hit, one that is over its limit or not. *)
Hit(p) ==
    LET b == Head(try[p].left) IN
    /\ try[p].left # <<>>
    /\ counter' = [counter EXCEPT ![b] = Counted(b)]
    /\ try' = [try EXCEPT ![p].left = Tail(@), ![p].over = @ \/ ~Within(b)]

(* Behind the counters: 429, or the work of the door.  The limit of all   *)
(* requests lets them through when Valkey fails.                           *)
Pass(p) ==
    /\ try[p].at \in DoorNames \ {"sign_in"}
    /\ try[p].left = <<>> \/ try[p].at = "request"
    /\ try' = [try EXCEPT ![p] = NotTrying]
    /\ UNCHANGED counter

(* A request over its source's limit, or that finds the identifier held,   *)
(* is refused before the password is hashed.                               *)
MayVerify(p) == ~try[p].over /\ ~Held

Verify(p) ==
    /\ try[p].at = "sign_in" /\ try[p].left = <<>>
    /\ try' = [try EXCEPT ![p] = IF MayVerify(p) THEN [NotTrying EXCEPT !.at = "verifying"]
                                 ELSE NotTrying]
    /\ UNCHANGED counter

(* A sign-in that fails after its password was right is no failure here.   *)
Verified(p, outcome) ==
    /\ try[p].at = "verifying"
    /\ try' = [try EXCEPT ![p] = CASE outcome = "wrong" -> [@ EXCEPT !.at = "wrong"]
                                   [] outcome = "right" -> [@ EXCEPT !.at = "right"]
                                   [] outcome = "lost" -> NotTrying]
    /\ UNCHANGED counter

RecordFailure(p) ==
    LET n == Counted("failures").n IN
    /\ try[p].at = "wrong"
    /\ counter' = [counter EXCEPT !["failures"] = Counted("failures")]
    /\ try' = [try EXCEPT ![p] = IF n < AttemptsOf["failures"] THEN NotTrying
                                 ELSE [@ EXCEPT !.at = "hold", !.failures = n]]

(* SET EX: whatever hold stands is replaced. *)
SetHold(p) ==
    /\ try[p].at = "hold"
    /\ counter' = [counter EXCEPT !["hold"].n = 1, !["hold"].ttl = HoldFor(try[p].failures)]
    /\ try' = [try EXCEPT ![p] = NotTrying]

ClearFailures(p) ==
    /\ try[p].at = "right"
    /\ counter' = [counter EXCEPT !["failures"] = Absent, !["hold"] = Absent]
    /\ try' = [try EXCEPT ![p].at = "cleared"]

ClearSource(p) ==
    /\ try[p].at = "cleared"
    /\ counter' = [counter EXCEPT !["source"] = Absent]
    /\ try' = [try EXCEPT ![p] = NotTrying]

(* A tick of the keys: those at their end are gone. *)
ThrottleTick ==
    /\ counter' = [b \in Buckets |->
                     IF counter[b].ttl <= 1 THEN Absent
                     ELSE [counter[b] EXCEPT !.ttl = @ - 1, !.age = @ + 1]]
    /\ UNCHANGED try

ThrottleStep(door) ==
    \/ \E p \in Clients :
        \/ Arrive(p, door)
        \/ Hit(p) \/ Pass(p) \/ Verify(p)
        \/ \E outcome \in {"wrong", "right", "lost"} : Verified(p, outcome)
        \/ RecordFailure(p) \/ SetHold(p) \/ ClearFailures(p) \/ ClearSource(p)
    \/ ThrottleTick

-----------------------------------------------------------------------------
(* Circuit *)

CircuitOpen == circuit.since # Closed
Recovered == circuit.since = RecoveryTicks

Start(p) ==
    /\ call[p].at = "idle"
    /\ call' = [call EXCEPT ![p] = [NoCall EXCEPT !.at = "ready"]]
    /\ UNCHANGED circuit

(* Closed, any call; open, none until the recovery interval has passed,    *)
(* then one.                                                               *)
MayProbe == Recovered /\ ~circuit.probe

BeforeCall(p) ==
    /\ call[p].at = "ready"
    /\ IF CircuitOpen => MayProbe
       THEN /\ call' = [call EXCEPT ![p].at = "calling", ![p].attempts = @ + 1,
                                    ![p].age = 0, ![p].probe = CircuitOpen]
            /\ circuit' = [circuit EXCEPT !.probe = @ \/ CircuitOpen]
       ELSE /\ call' = [call EXCEPT ![p] = NoCall]
            /\ UNCHANGED circuit

Succeeded == circuit' = [failures |-> 0, since |-> Closed, probe |-> FALSE]

(* Mutant: the flag of the probe is left standing. *)
Failed_Flagged ==
    LET n == Lower(circuit.failures + 1, Threshold) IN
    circuit' = [circuit EXCEPT !.failures = n, !.since = IF n = Threshold THEN 0 ELSE @]

Failed ==
    LET n == Lower(circuit.failures + 1, Threshold) IN
    circuit' = [failures |-> n, since |-> IF n = Threshold THEN 0 ELSE circuit.since,
                probe |-> FALSE]

(* A timeout is a failure; a rejection, which no caller that runs asks for, *)
(* is neither a failure nor a success.                                      *)
Answer(p, outcome) ==
    /\ call[p].at = "calling"
    /\ call' = [call EXCEPT ![p] =
                  IF outcome = "failure" /\ @.attempts < MaxAttempts
                  THEN [@ EXCEPT !.at = "ready", !.probe = FALSE, !.age = 0] ELSE NoCall]
    /\ CASE outcome = "value" -> Succeeded
         [] outcome = "failure" -> Failed
         [] outcome = "rejected" -> UNCHANGED circuit

CircuitTick ==
    /\ \A p \in Callers : call[p].at = "calling" => call[p].age < CallTicks
    /\ call' = [p \in Callers |->
                  IF call[p].at = "calling" THEN [call[p] EXCEPT !.age = @ + 1] ELSE call[p]]
    /\ circuit' = [circuit EXCEPT !.since = IF @ \in {Closed, RecoveryTicks} THEN @ ELSE @ + 1]

CircuitStep ==
    \/ \E p \in Callers :
        \/ Start(p) \/ BeforeCall(p)
        \/ \E outcome \in Outcomes : Answer(p, outcome)
    \/ CircuitTick

-----------------------------------------------------------------------------
(* However the attempts go on, a window ends where its first attempt put   *)
(* its end (throttle.py, "the TTL is set once"); and a hold, which only a  *)
(* request that was let through may set or renew, ends with the last of    *)
(* those it overtook: backoff, never lockout.                              *)
WindowsEnd ==
    \A b \in Buckets : counter[b] # Absent =>
        /\ counter[b].ttl > 0
        /\ counter[b].age + counter[b].ttl <=
             IF b = "hold" THEN MaxHold * Cardinality(Clients) ELSE WindowOf[b]

(* While the circuit is open its probe's flag stands for one call that is  *)
(* under way, so that it is lowered again; and when the interval has passed *)
(* no other call is under way (resilience.py, CircuitBreaker).             *)
ProbeIsOne ==
    LET calling == {p \in Callers : call[p].at = "calling"} IN
    CircuitOpen =>
        /\ circuit.probe => \E p \in calling : call[p].probe
        /\ Recovered => Cardinality(calling) <= 1
=============================================================================
