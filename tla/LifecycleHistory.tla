-------------------------- MODULE LifecycleHistory --------------------------
(***************************************************************************)
(* What the lifecycle of an organization promises, without its protocol: a *)
(* sequence of decisions kept outside the application database, and the    *)
(* database's projection of it.  One decision is accepted at a time, only  *)
(* when the projection shows all the earlier ones, and only when the rules *)
(* of offboarding admit it; the projection then takes exactly that step.   *)
(*                                                                         *)
(* SEC-043 of the repository asks that decisions "remain verifiable after  *)
(* application-database rollback": the projection is a function of the     *)
(* accepted prefix, which is what Project states.                          *)
(***************************************************************************)
EXTENDS Naturals, Sequences

CONSTANT None  \* no episode

VARIABLES
    decided,    \* the accepted decisions, in order: action, episode, ends, eligible, held
    projected,  \* how many of them the database shows
    service     \* what it shows

historyVars == <<decided, projected, service>>

-----------------------------------------------------------------------------

Unstarted == [status |-> "active", episode |-> None, ends |-> 0, eligible |-> 0, held |-> {}]

(* What one decision does to the organization. *)
Effect(s, e) ==
    CASE e.action \in {"confirm_term", "renew_term"} ->
             [s EXCEPT !.status = "active", !.episode = None, !.ends = e.ends, !.eligible = 0]
      [] e.action \in {"expire_term", "start"} ->
             [s EXCEPT !.status = "offboarding", !.episode = e.episode, !.ends = e.ends,
                       !.eligible = e.eligible]
      [] e.action = "cancel" ->
             [s EXCEPT !.status = "active", !.episode = None, !.ends = e.ends, !.eligible = 0]
      [] e.action = "extend" -> [s EXCEPT !.eligible = e.eligible]
      [] e.action = "create_restriction" -> [s EXCEPT !.held = @ \cup {e.held}]
      [] e.action = "release_restriction" -> [s EXCEPT !.held = @ \ {e.held}]
      [] e.action = "claim" -> [s EXCEPT !.status = "purging"]
      [] e.action = "complete" -> [s EXCEPT !.status = "gone"]
      [] OTHER -> s

(* When a decision may be accepted.  A purge is claimed, and each of its    *)
(* batches and its end authorized, only while nothing is held; once it is   *)
(* claimed no other decision moves the organization.                        *)
Admissible(s, e) ==
    CASE e.action \in {"confirm_term", "renew_term"} -> s.status \in {"active", "offboarding"}
      [] e.action \in {"expire_term", "start"} -> s.status = "active"
      [] e.action = "cancel" -> s.status = "offboarding" /\ e.episode = s.episode
      [] e.action = "extend" ->
             s.status = "offboarding" /\ e.episode = s.episode /\ e.eligible > s.eligible
      [] e.action = "policy_revision" -> s.status \in {"active", "offboarding"}
      [] e.action = "create_restriction" -> s.status # "gone" /\ e.held \notin s.held
      [] e.action = "release_restriction" -> s.status # "gone" /\ e.held \in s.held
      [] e.action = "claim" -> s.status = "offboarding" /\ e.episode = s.episode /\ s.held = {}
      [] e.action \in {"authorize_destructive_step", "complete"} ->
             s.status = "purging" /\ e.episode = s.episode /\ s.held = {}
      [] e.action = "complete_destructive_step" -> s.status = "purging"
      [] OTHER -> s.status # "gone"

-----------------------------------------------------------------------------

(* An organization without a term, or one whose first term is projected. *)
HistoryInit ==
    /\ decided = <<>> \/ (Len(decided) = 1 /\ decided[1].action = "confirm_term")
    /\ projected = Len(decided)
    /\ service = IF decided = <<>> THEN Unstarted ELSE Effect(Unstarted, decided[1])

Accept ==
    /\ projected = Len(decided) /\ Len(decided') = Len(decided) + 1
    /\ \A n \in 1..Len(decided) : decided'[n] = decided[n]
    /\ Admissible(service, decided'[Len(decided')])
    /\ UNCHANGED <<projected, service>>

Project ==
    /\ projected < Len(decided)
    /\ projected' = projected + 1
    /\ service' = Effect(service, decided[projected + 1])
    /\ UNCHANGED decided

(* The database is restored from a backup: it shows fewer decisions, as it  *)
(* did when it showed that many.                                            *)
Rollback ==
    LET shown[n \in 0..projected] ==
            IF n = 0 THEN Unstarted ELSE Effect(shown[n - 1], decided[n])
    IN  /\ \E n \in 0..projected : projected' = n /\ service' = shown[n]
        /\ UNCHANGED decided

HistoryNext == Accept \/ Project \/ Rollback

HistorySpec == HistoryInit /\ [][HistoryNext]_historyVars

=============================================================================
