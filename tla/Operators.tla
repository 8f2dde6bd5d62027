----------------------------- MODULE Operators ------------------------------
(***************************************************************************)
(* The operators' surface: a sign-in by password and one-time code, the    *)
(* sessions it opens, what operators do under them with its audit, and the *)
(* lists they page through.                                                *)
(*                                                                         *)
(* Time is counted in steps of the one-time codes.  Nothing in the program *)
(* calls revoke_all of these sessions, so the revocation epoch never       *)
(* moves and is left out: the owner's SQL disables an operator, and every  *)
(* request reads the account again.                                        *)
(***************************************************************************)
LOCAL INSTANCE Integers
LOCAL INSTANCE FiniteSets
LOCAL INSTANCE Sequences

CONSTANTS
    Desks,          \* requests of the operators' surface at a time
    Staff,          \* operators
    Keys,           \* session ids: a bound on those minted
    Nobody,
    Steps,          \* bound: steps of the clock
    ReplaySteps,    \* life of a claimed code's marker: 120 of 30 seconds
    StallSteps,     \* steps a sign-in may be under way before it claims
    Entries,        \* bound: rows written of a list
    Lists           \* the lists that are walked

ASSUME OperatorsAssumption ==
    /\ Nobody \notin Staff \cup Keys /\ Nobody \notin Staff \X Int
    /\ Steps \in Nat /\ ReplaySteps \in Nat /\ StallSteps \in Nat /\ Entries \in Nat
    /\ Lists \subseteq {"audit", "requests", "faults"}

VARIABLES
    staff,      \* operators' accounts that are active
    clock,      \* the current step
    claimed,    \* ops:totp:accepted:<operator>:<step>, until when
    ticket,     \* ops-session:<id>
    voided,     \* ops-session-revoked:<id>
    proof,      \* of each id minted, the operator and the code's step
    desk,       \* the requests
    log,        \* the rows of the list that is walked
    browse      \* the walk

signVars == <<staff, clock, claimed, ticket, voided, proof, desk>>
deskVars == <<log, browse>>
operatorVars == <<signVars, deskVars>>

AtRest == [at |-> "idle", who |-> Nobody, key |-> Nobody, opened |-> 0, code |-> 0]
NoBrowse == [state |-> "none", list |-> "none", filter |-> "all", at |-> <<0, 0>>,
             served |-> <<>>, owed |-> {}]

OperatorsInit ==
    /\ staff = Staff /\ clock = 1 /\ claimed = {}
    /\ ticket = [k \in Keys |-> Nobody] /\ voided = {}
    /\ proof = [k \in Keys |-> Nobody]
    /\ desk = [p \in Desks |-> AtRest]
    /\ log = <<>> /\ browse = NoBrowse

On(p, at) == desk[p].at = at
Rest(p) == desk' = [desk EXCEPT ![p] = AtRest]
Minted == {k \in Keys : proof[k] # Nobody}

-----------------------------------------------------------------------------
(* POST /ops/session *)

(* The code of the current step, or of one beside it. *)
Matching(code, at) == code \in {at - 1, at, at + 1}

(* A right password and a code that matches the instant the request began; *)
(* anything else changes nothing.                                          *)
AuthenticateOps(p, o, code) ==
    /\ On(p, "idle") /\ o \in staff /\ Matching(code, clock)
    /\ desk' = [desk EXCEPT ![p] = [AtRest EXCEPT !.at = "matched", !.who = o,
                                                  !.opened = clock, !.code = code]]
    /\ UNCHANGED <<staff, clock, claimed, ticket, voided, proof>>

Live(o, code) == \E m \in claimed : m.who = o /\ m.code = code

(* Mutant: the marker lives as long as the step. *)
Until_Step == clock + 1
Until == clock + ReplaySteps

(* SET NX EX: the first to claim the code goes on. *)
Claim(p) ==
    LET o == desk[p].who
        code == desk[p].code
    IN  /\ On(p, "matched")
        /\ IF Live(o, code) THEN Rest(p) /\ UNCHANGED claimed
           ELSE /\ desk' = [desk EXCEPT ![p].at = "claimed", ![p].opened = 0]
                /\ claimed' = claimed \cup {[who |-> o, code |-> code, until |-> Until]}
        /\ UNCHANGED <<staff, clock, ticket, voided, proof>>

(* The account again, in its own scope, and then the session. *)
OpenOps(p, k) ==
    /\ On(p, "claimed") /\ k \in Keys \ Minted
    /\ IF desk[p].who \in staff
       THEN /\ ticket' = [ticket EXCEPT ![k] = desk[p].who]
            /\ proof' = [proof EXCEPT ![k] = <<desk[p].who, desk[p].code>>]
       ELSE UNCHANGED <<ticket, proof>>
    /\ Rest(p)
    /\ UNCHANGED <<staff, clock, claimed, voided>>

-----------------------------------------------------------------------------
(* Any request with the operators' cookie *)

ResolveOps(p, k) ==
    /\ On(p, "idle") /\ ticket[k] # Nobody
    /\ IF k \in voided
       THEN ticket' = [ticket EXCEPT ![k] = Nobody] /\ UNCHANGED desk
       ELSE /\ desk' = [desk EXCEPT ![p] = [AtRest EXCEPT !.at = "read", !.who = ticket[k],
                                                          !.key = k]]
            /\ UNCHANGED ticket
    /\ UNCHANGED <<staff, clock, claimed, voided, proof>>

(* The idle clock slides by writing the record that was read, deleted or not. *)
SlideOps(p) ==
    /\ On(p, "read")
    /\ ticket' = [ticket EXCEPT ![desk[p].key] = desk[p].who]
    /\ desk' = [desk EXCEPT ![p].at = "slid"]
    /\ UNCHANGED <<staff, clock, claimed, voided, proof>>

CheckOps(p) ==
    /\ On(p, "slid")
    /\ IF desk[p].key \in voided
       THEN ticket' = [ticket EXCEPT ![desk[p].key] = Nobody] /\ Rest(p)
       ELSE desk' = [desk EXCEPT ![p].at = "resolved"] /\ UNCHANGED ticket
    /\ UNCHANGED <<staff, clock, claimed, voided, proof>>

Void(k) ==
    /\ voided' = voided \cup {k}
    /\ ticket' = [ticket EXCEPT ![k] = Nobody]

(* An operator who was disabled loses the session with the request. *)
CurrentOps(p) ==
    /\ On(p, "resolved")
    /\ IF desk[p].who \in staff THEN UNCHANGED <<ticket, voided>> ELSE Void(desk[p].key)
    /\ Rest(p)
    /\ UNCHANGED <<staff, clock, claimed, proof>>

(* DELETE /ops/session, at the end of a request that was let in. *)
SignOutOps(p) ==
    /\ On(p, "resolved") /\ desk[p].who \in staff
    /\ Void(desk[p].key) /\ Rest(p)
    /\ UNCHANGED <<staff, clock, claimed, proof>>

DisableOperator(o) ==
    /\ o \in staff /\ staff' = staff \ {o}
    /\ UNCHANGED <<clock, claimed, ticket, voided, proof, desk>>

ExpireOps(k) ==
    /\ ticket[k] # Nobody
    /\ ticket' = [ticket EXCEPT ![k] = Nobody]
    /\ UNCHANGED <<staff, clock, claimed, voided, proof, desk>>

(* A sign-in stalls for the bounded call that unseals its seed, no longer. *)
NextStep ==
    /\ clock < Steps
    /\ \A p \in Desks : On(p, "matched") => clock < desk[p].opened + StallSteps
    /\ clock' = clock + 1
    /\ claimed' = {m \in claimed : clock' < m.until}
    /\ UNCHANGED <<staff, ticket, voided, proof, desk>>

SignInStep ==
    \/ \E p \in Desks :
        \/ \E o \in Staff, code \in 0..Steps + 1 : AuthenticateOps(p, o, code)
        \/ Claim(p)
        \/ \E k \in Keys : OpenOps(p, k)
    \/ \E o \in Staff : DisableOperator(o)

(* Codes tell the time; sessions do not, and codes ask for no session. *)
CodeStep == SignInStep \/ NextStep

TicketStep ==
    \/ SignInStep
    \/ \E p \in Desks :
        \/ SlideOps(p) \/ CheckOps(p) \/ CurrentOps(p) \/ SignOutOps(p)
        \/ \E k \in Keys : ResolveOps(p, k)
    \/ \E k \in Keys : ExpireOps(k)

-----------------------------------------------------------------------------
(* Lists.  A row bears the instant its transaction began, which others may *)
(* share and overtake; a page is one statement and holds one row.          *)

(* Commands of operators, each with its audit; faults opened by workers.   *)
Begun(row) == log' = Append(log, row)
Write(at) ==
    /\ Len(log) < Entries
    /\ \E org \in {"ours", "theirs"} :
         Begun([at |-> at, org |-> org, status |-> "open"])
    /\ UNCHANGED browse

(* A fault is resolved once, under its row's lock. *)
ResolveFault(i) ==
    /\ browse.list = "faults" /\ i \in DOMAIN log /\ log[i].status = "open"
    /\ log' = [log EXCEPT ![i].status = "resolved"]
    /\ browse' = IF browse.filter = "all" THEN browse ELSE [browse EXCEPT !.owed = @ \ {i}]

AuditRows(filter) == {i \in DOMAIN log : filter \in {"all", log[i].org}}
RequestRows == DOMAIN log
FaultRows(filter) == {i \in DOMAIN log : filter \in {"all", log[i].status}}
RowsOf(list, filter) == CASE list = "audit" -> AuditRows(filter)
                          [] list = "requests" -> RequestRows
                          [] list = "faults" -> FaultRows(filter)
FiltersOf(list) == CASE list = "audit" -> {"all", "ours"}
                     [] list = "requests" -> {"all"}
                     [] list = "faults" -> {"all", "open"}

(* Newest first; the faults, oldest first. *)
SortKey(list, i) == IF list = "faults" THEN <<log[i].at, i>> ELSE <<-log[i].at, -i>>

(* Mutant: the id breaks no tie. *)
Behind_Untied(k, l) == k[1] < l[1]
Behind(k, l) == k[1] < l[1] \/ (k[1] = l[1] /\ k[2] < l[2])

Turned(w, ahead) ==
    IF ahead = {} THEN [w EXCEPT !.state = "ended"]
    ELSE LET i == CHOOSE j \in ahead :
                    \A k \in ahead \ {j} : ~Behind(SortKey(w.list, k), SortKey(w.list, j))
         IN  [w EXCEPT !.state = IF ahead = {i} THEN "ended" ELSE "open",
                       !.at = SortKey(w.list, i), !.served = Append(@, i)]

(* owed is the observer's: the rows that were there and have stayed. *)
Open(list, filter) ==
    /\ browse = NoBrowse
    /\ LET rows == RowsOf(list, filter)
           w == [NoBrowse EXCEPT !.list = list, !.filter = filter, !.owed = rows]
       IN  browse' = Turned(w, rows)
    /\ UNCHANGED log

(* A cursor of another filter is refused; those of requests bear none. *)
Onward(filter) ==
    /\ browse.state = "open"
    /\ browse' =
         IF filter # browse.filter THEN [browse EXCEPT !.state = "refused"]
         ELSE Turned(browse, {i \in RowsOf(browse.list, filter) :
                                Behind(browse.at, SortKey(browse.list, i))})
    /\ UNCHANGED log

DeskStep ==
    \/ \E at \in 1..2 : Write(at)
    \/ \E i \in 1..Entries : ResolveFault(i)
    \/ \E list \in Lists, filter \in {"all", "ours", "open"} :
         filter \in FiltersOf(list) /\ Open(list, filter)
    \/ \E filter \in {"all", "ours", "open"} : Onward(filter)

-----------------------------------------------------------------------------
(* A one-time code opens one session, however long after the request that  *)
(* used it the other began, and however their steps interleave (totp.py,   *)
(* "concurrent requests cannot turn one code into two sessions").          *)
OneCodeOneSession == \A k, l \in Minted : proof[k] = proof[l] => k = l

(* A request that slides an operator's session while it is being signed    *)
(* out leaves nothing of it when it has been answered.                     *)
VoidedLeavesNothing ==
    \A k \in voided :
        ticket[k] # Nobody => \E p \in Desks : desk[p].key = k /\ On(p, "slid")

(* Whoever follows the cursors of a list to its end has seen every row     *)
(* that was there when they began and has not left the filter since, and   *)
(* none twice, whatever was written meanwhile.                             *)
ListsExact ==
    /\ \A i, j \in DOMAIN browse.served : i # j => browse.served[i] # browse.served[j]
    /\ browse.state = "ended" =>
         browse.owed \subseteq {browse.served[i] : i \in DOMAIN browse.served}
=============================================================================
