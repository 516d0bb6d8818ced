---------------------------- MODULE PrizeEscrow ----------------------------
(***************************************************************************)
(* What the escrow contract promises about a prize, with its entry points, *)
(* roles, tokens and clock left out: money an organizer reserves for an    *)
(* event can shrink or come back only before the event is live; a live     *)
(* prize never changes until it leaves whole, once, and going live costs   *)
(* the organizer a bounded fee that is not part of the prize.              *)
(***************************************************************************)
EXTENDS Integers, EventPhases

CONSTANTS Organizers, None, BPS, MAX_FEE_BPS

VARIABLES
  free,   \* each organizer's unreserved money
  owner,  \* the organizer of each event
  prize   \* the money set aside for each event

vars == <<free, owner, prize, phase>>

Init ==
  /\ free = [a \in Organizers |-> 0]
  /\ owner = [e \in EventIds |-> None]
  /\ prize = [e \in EventIds |-> 0]
  /\ PhaseInit

\* Only organizer a's free money changes, and it stays a natural number.
FreeOnly(a) ==
  /\ free' = [free EXCEPT ![a] = free'[a]]
  /\ free'[a] >= 0

\* Deposits, withdrawals, compensations.
Move(a) ==
  /\ FreeOnly(a)
  /\ UNCHANGED <<owner, prize, phase>>

Reserve(a, e) ==
  /\ PhaseStep(e, "none", "reserved")
  /\ owner' = [owner EXCEPT ![e] = a]
  /\ prize' = [prize EXCEPT ![e] = prize'[e]]
  /\ prize'[e] > 0
  /\ FreeOnly(a)
  /\ free'[a] = free[a] - prize'[e]

\* Take a part of the prize back; the rest stays reserved.
Shrink(e) ==
  /\ phase[e] = "reserved"
  /\ prize' = [prize EXCEPT ![e] = prize'[e]]
  /\ prize'[e] \in 0..(prize[e] - 1)
  /\ free' = [free EXCEPT ![owner[e]] = @ + prize[e] - prize'[e]]
  /\ UNCHANGED <<owner, phase>>

Return(e) ==
  /\ PhaseStep(e, "reserved", "returned")
  /\ prize' = [prize EXCEPT ![e] = 0]
  /\ free' = [free EXCEPT ![owner[e]] = @ + prize[e]]
  /\ UNCHANGED owner

GoLive(e) ==
  /\ PhaseStep(e, "reserved", "live")
  /\ FreeOnly(owner[e])
  /\ free'[owner[e]] <= free[owner[e]]
  /\ (free[owner[e]] - free'[owner[e]]) * BPS <= prize[e] * MAX_FEE_BPS
  /\ UNCHANGED <<owner, prize>>

PayOut(e) ==
  /\ PhaseStep(e, "live", "paid")
  /\ prize' = [prize EXCEPT ![e] = 0]
  /\ UNCHANGED <<free, owner>>

Next ==
  \/ \E a \in Organizers : Move(a)
  \/ \E e \in EventIds :
       \/ \E a \in Organizers : Reserve(a, e)
       \/ Shrink(e)
       \/ Return(e)
       \/ GoLive(e)
       \/ PayOut(e)

Spec == Init /\ [][Next]_vars
=============================================================================
