------------------------------- MODULE Entry --------------------------------
(***************************************************************************)
(* The ways in: accounts and their sessions (Identity), the operators'     *)
(* surface (Operators) and what they hand out (Exports), the limits in     *)
(* front of both and the circuits behind them (Limits).  They share no     *)
(* state, and a limit decides only whether a request begins; an execution  *)
(* watches one of them.                                                    *)
(***************************************************************************)
EXTENDS Identity, Limits, Operators, Exports

CONSTANT Surfaces   \* the ways in that an execution may watch

VARIABLE surface

entryVars == <<vars, limitVars, operatorVars, exportVars, surface>>

EntryInit ==
    /\ Init /\ LimitsInit /\ OperatorsInit /\ ExportsInit
    /\ surface \in Surfaces

EntryNext ==
    /\ UNCHANGED surface
    /\ \/ /\ surface = "sessions" /\ Next
          /\ UNCHANGED <<limitVars, operatorVars, exportVars>>
       \/ /\ surface = "circuit" /\ CircuitStep
          /\ UNCHANGED <<vars, throttleVars, operatorVars, exportVars>>
       \/ /\ surface \in DoorNames /\ ThrottleStep(surface)
          /\ UNCHANGED <<vars, circuitVars, operatorVars, exportVars>>
       \/ /\ \/ surface = "codes" /\ CodeStep
             \/ surface = "operators" /\ TicketStep
          /\ UNCHANGED <<vars, limitVars, deskVars, exportVars>>
       \/ /\ surface = "lists" /\ DeskStep
          /\ UNCHANGED <<vars, limitVars, signVars, exportVars>>
       \/ /\ surface = "exports" /\ ExportsStep
          /\ UNCHANGED <<vars, limitVars, operatorVars>>

EntrySpec == EntryInit /\ [][EntryNext]_entryVars
-----------------------------------------------------------------------------
(* A session that was ended stays ended, of an account or of an operator:   *)
(* what was signed out, rotated or dropped is not written back             *)
(* (RevokedLeavesNothing, VoidedLeavesNothing; sessions.py, the last check *)
(* of both resolves), and one of before a reset or a deactivation passes   *)
(* no later request (StaleSessionsEnd).                                    *)
EndedStaysEnded == RevokedLeavesNothing /\ VoidedLeavesNothing /\ StaleSessionsEnd
=============================================================================
