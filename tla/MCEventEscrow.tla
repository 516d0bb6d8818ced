--------------------------- MODULE MCEventEscrow ---------------------------
(***************************************************************************)
(* Small instances of the escrow contract for TLC.                         *)
(***************************************************************************)
EXTENDS EventEscrow

CONSTANTS o1, o2, j1, r1, g1, w1, self

MCAddress == {o1, o2, j1, r1, g1, w1, self}

\* Payment lists of up to two entries, over amounts that include the ones a
\* caller gets wrong: zero amounts and lists one entry too long.
PaymentsTo(addrs, amounts, n) ==
  UNION {[1..k -> [address : addrs, amount : amounts]] : k \in 0..n}

\* Ordinary lists to one winner, and to the contract's own address.
OneWinnerLists == PaymentsTo({w1}, 0..2, 1)
SelfLists == PaymentsTo({w1, self}, 1..3, 1)
PairLists == PaymentsTo({w1}, 0..2, 2) \cup PaymentsTo({w1, o1}, 1..1, 3)

\* A contract whose governance is set up and then left alone: the state after
\* initialize_emergency_admin, initialize_default_resolver, initialize_treasury.
ConfiguredInit ==
  /\ EscrowInit
  /\ emergencyAdmin = g1
  /\ defaultResolver = r1
  /\ treasury = g1
  /\ paused = FALSE
  /\ adminPaused = [a \in Organizers |-> FALSE]
  /\ whitelistEnabled = FALSE
  /\ allowedToken = [t \in Tokens |-> FALSE]
  /\ feeBps = DEFAULT_FEE_BPS

ConfiguredSpec == ConfiguredInit /\ [][Next]_vars
=============================================================================
