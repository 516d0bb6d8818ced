---------------------------- MODULE EventMirror ----------------------------
(***************************************************************************)
(* What core-go promises about its record of an event, with its requests,  *)
(* op_log rows and transactions left out: the record follows the contract  *)
(* and never runs ahead of it.  It names an on-chain event once, when that *)
(* event exists; it shows LIVE only when the prize is locked, and prizes   *)
(* as released only when the contract has paid; then it never changes.     *)
(***************************************************************************)
EXTENDS EventPhases

CONSTANTS Winners, None

VARIABLES
  status,    \* the event's status in the database
  escrowId,  \* the on-chain event it names
  released,  \* the winners its prizes are shown as released to
  payouts    \* the winners its payout rows name

record == <<status, escrowId, released, payouts>>
vars == <<record, phase>>

Init ==
  /\ PhaseInit
  /\ status = "DRAFT"
  /\ escrowId = None /\ released = None /\ payouts = None

Turn(from, to) == status = from /\ status' = to

Reserved ==
  /\ Turn("DRAFT", "CREATED")
  /\ escrowId' \in {e \in EventIds : phase[e] # "none"}
  /\ UNCHANGED <<released, payouts>>

WentLive ==
  /\ Turn("CREATED", "LIVE")
  /\ phase[escrowId] \in {"live", "paid"}
  /\ UNCHANGED <<escrowId, released, payouts>>

JudgingOpened ==
  /\ Turn("LIVE", "JUDGING")
  /\ UNCHANGED <<escrowId, released, payouts>>

Paid ==
  /\ Turn("JUDGING", "COMPLETED")
  /\ phase[escrowId] = "paid"
  /\ payouts' \in Winners /\ released' = payouts'
  /\ UNCHANGED escrowId

Next ==
  \/ (\E e \in EventIds : Advance(e)) /\ UNCHANGED record
  \/ (Reserved \/ WentLive \/ JudgingOpened \/ Paid) /\ UNCHANGED phase

Spec == Init /\ [][Next]_vars
=============================================================================
