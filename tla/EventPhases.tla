---------------------------- MODULE EventPhases ----------------------------
(***************************************************************************)
(* The order in which an event's prize is reserved, goes live and leaves   *)
(* the contract: the part of PrizeEscrow that core-go relies on when it    *)
(* mirrors an event in its database.                                       *)
(***************************************************************************)
CONSTANT EventIds

VARIABLE phase  \* where each event stands

PhaseInit == phase = [e \in EventIds |-> "none"]

PhaseStep(e, from, to) ==
  /\ phase[e] = from
  /\ phase' = [phase EXCEPT ![e] = to]

Advance(e) ==
  \/ PhaseStep(e, "none", "reserved")
  \/ PhaseStep(e, "reserved", "live")
  \/ PhaseStep(e, "reserved", "returned")
  \/ PhaseStep(e, "live", "paid")

PhaseSpec == PhaseInit /\ [][\E e \in EventIds : Advance(e)]_phase
=============================================================================
