----------------------- MODULE EventRefinementProofs -----------------------
(***************************************************************************)
(* The escrow contract implements PrizeEscrow: for every set of organizers *)
(* and events and every fee schedule, each call is one step of the promise *)
(* or none.                                                                *)
(***************************************************************************)
EXTENDS EventEscrowProofs

-----------------------------------------------------------------------------
(* The state PrizeEscrow sees.                                             *)

FreeMoney == [a \in Organizers |-> wallet[a].balance]
Owners == [e \in EventIds |-> event[e].admin]
Prizes == [e \in EventIds |-> IF event[e].state \in Reserved THEN event[e].reward ELSE 0]
Phases == [e \in EventIds |-> Phase(event[e].state)]

\* A call that writes organizer a's wallet alone moves a's free money alone.
LEMMA OneWallet ==
  ASSUME TypeOK', NEW a \in Organizers,
         \A b \in Organizers \ {a} : wallet'[b] = wallet[b]
  PROVE  /\ FreeMoney' = [FreeMoney EXCEPT ![a] = wallet'[a].balance]
         /\ wallet'[a].balance \in Nat
BY DEF FreeMoney, TypeOK, AdminWallet

\* A call that writes event e alone changes what is seen of e alone.
LEMMA OneEvent ==
  ASSUME NEW e \in EventIds, NEW st, NEW n,
         event'[e].state = st, event'[e].reward = n,
         \A f \in EventIds \ {e} : event'[f] = event[f]
  PROVE  /\ Owners' = [Owners EXCEPT ![e] = event'[e].admin]
         /\ Prizes' = [Prizes EXCEPT ![e] = IF st \in Reserved THEN n ELSE 0]
         /\ Phases' = [Phases EXCEPT ![e] = Phase(st)]
<1>1. Owners' = [Owners EXCEPT ![e] = event'[e].admin]
  BY DEF Owners
<1>2. Prizes' = [Prizes EXCEPT ![e] = IF st \in Reserved THEN n ELSE 0]
  BY DEF Prizes, Reserved, PreLaunch
<1>3. Phases' = [Phases EXCEPT ![e] = Phase(st)]
  BY DEF Phases, Phase, PreLaunch
<1> QED
  BY <1>1, <1>2, <1>3

\* What is seen of one event.
LEMMA SeenAt ==
  ASSUME NEW e \in EventIds
  PROVE  /\ Owners[e] = event[e].admin
         /\ Prizes[e] = IF event[e].state \in Reserved THEN event[e].reward ELSE 0
         /\ Phases[e] = Phase(event[e].state)
BY DEF Owners, Prizes, Phases

\* The five phases.
LEMMA PhaseNames ==
  /\ Phase("Absent") = "none"
  /\ \A st \in PreLaunch : Phase(st) = "reserved"
  /\ Phase("InProgress") = "live"
  /\ Phase("Ended") = "paid"
  /\ Phase("Cancelled") = "returned" /\ Phase("Compensated") = "returned"
BY DEF Phase, PreLaunch

\* A call after which no event looks different.
LEMMA SameEvents ==
  ASSUME event' = event
  PROVE  Owners' = Owners /\ Prizes' = Prizes /\ Phases' = Phases
BY DEF Owners, Prizes, Phases, Phase, Reserved, PreLaunch

\* Nothing is seen of a call that writes neither wallets nor events.
LEMMA Unseen ==
  ASSUME UNCHANGED <<wallet, event>>
  PROVE  UNCHANGED Promise!vars
<1>1. FreeMoney' = FreeMoney
  BY DEF FreeMoney
<1> QED
  BY <1>1, SameEvents DEF Promise!vars, FreeMoney, Owners, Prizes, Phases

-----------------------------------------------------------------------------
(* The steps of the promise, in terms of what is seen.                     *)

\* Only organizer a's free money changes, to a natural number.
LEMMA FreeOnlySeen ==
  ASSUME NEW a \in Organizers, NEW n \in Nat,
         FreeMoney' = [FreeMoney EXCEPT ![a] = n]
  PROVE  Promise!FreeOnly(a) /\ FreeMoney'[a] = n
<1>1. FreeMoney'[a] = n
  BY DEF FreeMoney
<1>2. FreeMoney' = [FreeMoney EXCEPT ![a] = FreeMoney'[a]]
  BY <1>1, Zenon
<1>3. FreeMoney'[a] >= 0
  BY <1>1
<1> QED
  BY <1>1, <1>2, <1>3 DEF Promise!FreeOnly, FreeMoney

\* Money moves in or out of a wallet and nothing else changes.
LEMMA MoveSeen ==
  ASSUME NEW a \in Organizers, NEW n \in Nat,
         FreeMoney' = [FreeMoney EXCEPT ![a] = n],
         Owners' = Owners, Prizes' = Prizes, Phases' = Phases
  PROVE  Promise!Next
<1>1. Promise!FreeOnly(a)
  BY FreeOnlySeen
<1>2. Promise!Move(a)
  BY <1>1 DEF Promise!Move, Owners, Prizes, Phases
<1> QED
  BY <1>2 DEF Promise!Next

\* A new event reserves a positive part of the free money.
LEMMA ReserveSeen ==
  ASSUME NEW a \in Organizers, NEW e \in EventIds, NEW n \in Nat, NEW m \in Nat,
         m > 0, FreeMoney[a] = n + m, Phases[e] = "none",
         FreeMoney' = [FreeMoney EXCEPT ![a] = n],
         Owners' = [Owners EXCEPT ![e] = a],
         Prizes' = [Prizes EXCEPT ![e] = m],
         Phases' = [Phases EXCEPT ![e] = "reserved"]
  PROVE  Promise!Next
<1>1. Promise!FreeOnly(a) /\ FreeMoney'[a] = n
  BY FreeOnlySeen
<1>2. Prizes'[e] = m
  BY DEF Prizes
<1>3. Prizes' = [Prizes EXCEPT ![e] = Prizes'[e]]
  BY <1>2, Zenon
<1>6. Prizes'[e] > 0 /\ FreeMoney'[a] = FreeMoney[a] - Prizes'[e]
  BY <1>1, <1>2
<1>4. Promise!PhaseStep(e, "none", "reserved")
  BY DEF Promise!PhaseStep, Phases
<1>5. Promise!Reserve(a, e)
  BY <1>1, <1>3, <1>4, <1>6 DEF Promise!Reserve, FreeMoney, Owners, Prizes, Phases
<1> QED
  BY <1>5 DEF Promise!Next

\* A reserved prize shrinks, and the difference is free again.
LEMMA ShrinkSeen ==
  ASSUME NEW a \in Organizers, NEW e \in EventIds, NEW n \in Nat, NEW m \in Nat,
         Owners[e] = a, Phases[e] = "reserved", Prizes[e] \in Nat, n < Prizes[e],
         FreeMoney[a] \in Nat, m = FreeMoney[a] + Prizes[e] - n,
         FreeMoney' = [FreeMoney EXCEPT ![a] = m],
         Owners' = Owners, Prizes' = [Prizes EXCEPT ![e] = n], Phases' = Phases
  PROVE  Promise!Next
<1>1. Prizes'[e] = n
  BY DEF Prizes
<1>2. Prizes' = [Prizes EXCEPT ![e] = Prizes'[e]]
  BY <1>1, Zenon
<1>3. Prizes'[e] \in 0..(Prizes[e] - 1)
  BY <1>1
<1>4. FreeMoney' = [FreeMoney EXCEPT ![Owners[e]] = @ + Prizes[e] - Prizes'[e]]
  BY <1>1, Zenon
<1>5. Promise!Shrink(e)
  BY <1>2, <1>3, <1>4 DEF Promise!Shrink, FreeMoney, Owners, Prizes, Phases
<1> QED
  BY <1>5 DEF Promise!Next

\* A reserved prize goes back whole.
LEMMA ReturnSeen ==
  ASSUME NEW a \in Organizers, NEW e \in EventIds,
         Owners[e] = a, Phases[e] = "reserved",
         FreeMoney' = [FreeMoney EXCEPT ![a] = FreeMoney[a] + Prizes[e]],
         Owners' = Owners, Prizes' = [Prizes EXCEPT ![e] = 0],
         Phases' = [Phases EXCEPT ![e] = "returned"]
  PROVE  Promise!Next
<1>1. Promise!PhaseStep(e, "reserved", "returned")
  BY DEF Promise!PhaseStep, Phases
<1>2. FreeMoney' = [FreeMoney EXCEPT ![Owners[e]] = @ + Prizes[e]]
  OBVIOUS
<1>3. Promise!Return(e)
  BY <1>1, <1>2 DEF Promise!Return, FreeMoney, Owners, Prizes
<1> QED
  BY <1>3 DEF Promise!Next

\* An event goes live for a bounded fee.
LEMMA GoLiveSeen ==
  ASSUME NEW a \in Organizers, NEW e \in EventIds, NEW n \in Nat,
         Owners[e] = a, Phases[e] = "reserved", n <= FreeMoney[a],
         (FreeMoney[a] - n) * BPS <= Prizes[e] * MAX_FEE_BPS,
         FreeMoney' = [FreeMoney EXCEPT ![a] = n],
         Owners' = Owners, Prizes' = Prizes,
         Phases' = [Phases EXCEPT ![e] = "live"]
  PROVE  Promise!Next
<1>1. Promise!PhaseStep(e, "reserved", "live")
  BY DEF Promise!PhaseStep, Phases
<1>2. FreeMoney'[a] = n
  BY FreeOnlySeen
<1>3. /\ FreeMoney' = [FreeMoney EXCEPT ![Owners[e]] = FreeMoney'[Owners[e]]]
      /\ FreeMoney'[Owners[e]] >= 0
      /\ FreeMoney'[Owners[e]] <= FreeMoney[Owners[e]]
      /\ (FreeMoney[Owners[e]] - FreeMoney'[Owners[e]]) * BPS <= Prizes[e] * MAX_FEE_BPS
  <2>1. FreeMoney' = [FreeMoney EXCEPT ![Owners[e]] = FreeMoney'[Owners[e]]]
    BY <1>2, Zenon
  <2>4. FreeMoney'[Owners[e]] >= 0
    BY <1>2
  <2>2. FreeMoney'[Owners[e]] <= FreeMoney[Owners[e]]
    BY <1>2, Zenon
  <2>3. (FreeMoney[Owners[e]] - FreeMoney'[Owners[e]]) * BPS <= Prizes[e] * MAX_FEE_BPS
    BY <1>2, Zenon
  <2> QED
    BY <2>1, <2>2, <2>3, <2>4
<1>4. Promise!GoLive(e)
  BY <1>1, <1>3 DEF Promise!GoLive, Promise!FreeOnly, FreeMoney, Owners, Prizes
<1> QED
  BY <1>4 DEF Promise!Next

\* A live prize leaves whole.
LEMMA PayOutSeen ==
  ASSUME NEW e \in EventIds, Phases[e] = "live",
         FreeMoney' = FreeMoney, Owners' = Owners,
         Prizes' = [Prizes EXCEPT ![e] = 0],
         Phases' = [Phases EXCEPT ![e] = "paid"]
  PROVE  Promise!Next
<1>1. Promise!PhaseStep(e, "live", "paid")
  BY DEF Promise!PhaseStep, Phases
<1>2. Promise!PayOut(e)
  BY <1>1 DEF Promise!PayOut, FreeMoney, Owners, Prizes
<1> QED
  BY <1>2 DEF Promise!Next

-----------------------------------------------------------------------------
(* Each call is a step of the promise.                                     *)

\* Writing the balance of one wallet.
LEMMA BalanceSeen ==
  ASSUME TypeOK, NEW a \in Organizers, NEW n \in Nat,
         wallet' = [wallet EXCEPT ![a].balance = n]
  PROVE  FreeMoney' = [FreeMoney EXCEPT ![a] = n]
<1>1. /\ wallet'[a].balance = n
      /\ \A b \in Organizers \ {a} : wallet'[b] = wallet[b]
  BY SetBalance DEF TypeOK
<1>2. \A b \in Organizers :
        wallet'[b].balance = IF b = a THEN n ELSE wallet[b].balance
  BY <1>1
<1> QED
  BY <1>2 DEF FreeMoney

\* A call that writes one event and keeps its organizer.
LEMMA SameOwner ==
  ASSUME NEW e \in EventIds, event'[e].admin = event[e].admin,
         \A f \in EventIds \ {e} : event'[f] = event[f]
  PROVE  Owners' = Owners
BY DEF Owners

\* A call that writes one event and keeps what is reserved for it.
LEMMA SamePrize ==
  ASSUME NEW e \in EventIds,
         \A f \in EventIds \ {e} : event'[f] = event[f],
         event'[e].reward = event[e].reward,
         event'[e].state \in Reserved <=> event[e].state \in Reserved
  PROVE  Prizes' = Prizes
BY DEF Prizes, Reserved, PreLaunch

\* A call that writes one event and keeps its phase.
LEMMA SamePhase ==
  ASSUME NEW e \in EventIds,
         \A f \in EventIds \ {e} : event'[f] = event[f],
         Phase(event'[e].state) = Phase(event[e].state)
  PROVE  Phases' = Phases
BY DEF Phases, Phase, PreLaunch

\* Deposits and withdrawals are moves.
LEMMA WalletCallSeen ==
  ASSUME TypeOK, TypeOK', NEW a \in Organizers,
         \/ \E t \in Tokens, n \in CallAmounts : deposit_funds(a, t, n)
         \/ \E n \in CallAmounts : withdraw_funds(a, n)
  PROVE  Promise!Next
<1>1. event' = event /\ \A b \in Organizers \ {a} : wallet'[b] = wallet[b]
  BY DEF deposit_funds, withdraw_funds, TypeOK
<1> QED
  BY <1>1, OneWallet, SameEvents, MoveSeen

\* A compensation is a move: the cancelled event's money was free already.
LEMMA CompensationSeen ==
  ASSUME TypeOK, TypeOK', NEW a \in Organizers, NEW e \in EventIds,
         NEW w \in PaymentLists, release_compensation(a, e, w)
  PROVE  Promise!Next
<1>1. \A b \in Organizers \ {a} : wallet'[b] = wallet[b]
  BY DEF release_compensation, TypeOK
<1>2. /\ event[e].state = "Cancelled"
      /\ event' = [event EXCEPT ![e].state = "Compensated"]
  BY DEF release_compensation
<1>3. /\ event'[e].state = "Compensated"
      /\ event'[e].admin = event[e].admin
      /\ event'[e].reward = event[e].reward
      /\ \A f \in EventIds \ {e} : event'[f] = event[f]
  BY <1>2, SetState, StateNames DEF TypeOK
<1>4. Owners' = Owners
  BY <1>3, SameOwner
<1>5. Prizes' = Prizes
  BY <1>2, <1>3, SamePrize DEF Reserved, PreLaunch
<1>6. Phases' = Phases
  BY <1>2, <1>3, SamePhase, PhaseNames
<1> QED
  BY <1>1, <1>4, <1>5, <1>6, OneWallet, MoveSeen

\* Creating an event reserves its prize.
LEMMA CreationSeen ==
  ASSUME TypeOK, NEW a \in Organizers, NEW j \in Judges,
         NEW r \in Resolvers \cup {None}, NEW t \in Tokens, NEW n \in CallAmounts,
         NEW e \in EventIds, NEW d \in 0..MaxTime,
         create_event(a, j, r, t, n, e, d)
  PROVE  Promise!Next
<1>1. n \in Nat /\ n > 0 /\ wallet[a].balance \in Nat /\ n <= wallet[a].balance
  <2>1. wallet[a] \in AdminWallet
    BY DEF TypeOK
  <2>2. wallet[a].balance \in Nat
    BY <2>1 DEF AdminWallet
  <2>3. n > 0 /\ n <= wallet[a].balance /\ n \in Int
    BY EscrowAssumption DEF create_event
  <2> QED
    BY <2>2, <2>3
<1>2. PICK rest \in Nat : wallet[a].balance = rest + n
  <2>1. wallet[a].balance - n \in Nat /\ wallet[a].balance = (wallet[a].balance - n) + n
    BY <1>1
  <2> QED
    BY <2>1
<1>3. wallet' = [wallet EXCEPT ![a].balance = rest]
  <2>1. wallet[a].balance - n = rest
    BY <1>1, <1>2
  <2>2. wallet' = [wallet EXCEPT ![a].balance = wallet[a].balance - n]
    BY DEF create_event
  <2> QED
    BY <2>1, <2>2, Zenon
<1>4. FreeMoney' = [FreeMoney EXCEPT ![a] = rest] /\ FreeMoney[a] = rest + n
  BY <1>2, <1>3, BalanceSeen DEF FreeMoney
<1>5. /\ event'[e].state = "Created" /\ event'[e].reward = n /\ event'[e].admin = a
      /\ \A f \in EventIds \ {e} : event'[f] = event[f]
      /\ event[e].state = "Absent"
  BY DEF create_event, TypeOK
<1>6. /\ Owners' = [Owners EXCEPT ![e] = a]
      /\ Prizes' = [Prizes EXCEPT ![e] = n]
      /\ Phases' = [Phases EXCEPT ![e] = "reserved"]
  BY <1>5, OneEvent, PhaseNames DEF Reserved, PreLaunch
<1>7. Phases[e] = "none"
  BY <1>5, SeenAt, PhaseNames
<1> QED
  BY <1>1, <1>4, <1>6, <1>7, ReserveSeen

\* Announcing an event is not seen.
LEMMA AnnouncementSeen ==
  ASSUME TypeOK, NEW a \in Organizers, NEW e \in EventIds,
         set_event_waiting_for_start(a, e)
  PROVE  UNCHANGED Promise!vars
<1>1. /\ event[e].state = "Created" /\ wallet' = wallet
      /\ event' = [event EXCEPT ![e].state = "WaitingForStart"]
  BY DEF set_event_waiting_for_start
<1>2. /\ event'[e].state = "WaitingForStart"
      /\ event'[e].admin = event[e].admin
      /\ event'[e].reward = event[e].reward
      /\ \A f \in EventIds \ {e} : event'[f] = event[f]
  BY <1>1, SetState, StateNames DEF TypeOK
<1>3. Owners' = Owners
  BY <1>2, SameOwner
<1>4. Prizes' = Prizes
  BY <1>1, <1>2, SamePrize DEF Reserved, PreLaunch
<1>5. Phases' = Phases
  BY <1>1, <1>2, SamePhase, PhaseNames DEF PreLaunch
<1>6. FreeMoney' = FreeMoney
  BY <1>1 DEF FreeMoney
<1> QED
  BY <1>3, <1>4, <1>5, <1>6 DEF Promise!vars, FreeMoney, Owners, Prizes, Phases

\* The fee is at most the ceiling's share of the prize.
LEMMA FeeBound ==
  ASSUME NEW n \in Nat, feeBps \in 0..MAX_FEE_BPS
  PROVE  /\ GoLiveFee(n) \in Nat
         /\ GoLiveFee(n) * BPS <= n * MAX_FEE_BPS
<1>1. feeBps \in Nat /\ MAX_FEE_BPS \in Nat /\ BPS \in Nat \ {0} /\ feeBps <= MAX_FEE_BPS
  BY FeeAssumption
<1>2. n * feeBps \in Nat /\ n * MAX_FEE_BPS \in Nat
  BY <1>1
<1>3. n * feeBps <= n * MAX_FEE_BPS
  <2>1. PICK k \in Nat : MAX_FEE_BPS = feeBps + k
    <3>1. MAX_FEE_BPS - feeBps \in Nat /\ MAX_FEE_BPS = feeBps + (MAX_FEE_BPS - feeBps)
      BY <1>1
    <3> QED
      BY <3>1
  <2>2. n * MAX_FEE_BPS = n * feeBps + n * k /\ n * k \in Nat
    BY <1>1, <2>1
  <2> QED
    BY <1>2, <2>2
<1>4. ASSUME NEW x \in Nat, NEW b \in Nat \ {0}
      PROVE  x \div b \in Nat /\ (x \div b) * b <= x
  <2>1. x \div b \in Nat
    BY <1>4
  <2>2. x = b * (x \div b) + (x % b) /\ x % b \in Nat
    BY <1>4
  <2>3. (x \div b) * b = b * (x \div b) /\ (x \div b) * b \in Nat
    BY <1>4, <2>1
  <2> QED
    BY <2>1, <2>2, <2>3
<1>5. GoLiveFee(n) \in Nat /\ GoLiveFee(n) * BPS <= n * feeBps
  BY <1>1, <1>2, <1>4 DEF GoLiveFee
<1>6. GoLiveFee(n) * BPS \in Nat
  BY <1>1, <1>5
<1> QED
  BY <1>2, <1>3, <1>5, <1>6

\* Going live charges a bounded fee and keeps the prize.
LEMMA LaunchSeen ==
  ASSUME TypeOK, NEW a \in Organizers, NEW e \in EventIds, NEW jd \in 0..MaxTime,
         set_event_in_progress(a, e, jd)
  PROVE  Promise!Next
<1> DEFINE fee == GoLiveFee(event[e].reward)
<1>1. /\ wallet[a] \in AdminWallet /\ event[e] \in Event
      /\ feeBps \in 0..MAX_FEE_BPS /\ BPS \in Nat /\ MAX_FEE_BPS \in Nat
  BY FeeAssumption DEF TypeOK, GovTypeOK
<1>2. wallet[a].balance \in Nat /\ event[e].reward \in Nat
  BY <1>1 DEF AdminWallet, Event
<1>3. fee \in Nat /\ fee * BPS <= event[e].reward * MAX_FEE_BPS
  BY <1>1, <1>2, FeeBound
<1>4. /\ event[e].admin = a /\ event[e].state \in PreLaunch
      /\ ChargeFee(a, event[e].token, fee)
      /\ event' = [event EXCEPT ![e].state = "InProgress", ![e].judging_deadline = jd]
  BY DEF set_event_in_progress
<1>5. /\ event'[e].state = "InProgress"
      /\ event'[e].admin = event[e].admin
      /\ event'[e].reward = event[e].reward
      /\ \A f \in EventIds \ {e} : event'[f] = event[f]
  <2>1. jd \in Nat
    BY EscrowAssumption
  <2> QED
    BY <1>4, <2>1, SetLive DEF TypeOK
<1>6. /\ Owners' = Owners /\ Prizes' = Prizes
      /\ Phases' = [Phases EXCEPT ![e] = "live"]
  <2>1. Owners' = Owners
    BY <1>5, SameOwner
  <2>2. Prizes' = Prizes
    BY <1>4, <1>5, SamePrize DEF Reserved
  <2>3. Phases' = [Phases EXCEPT ![e] = "live"]
    BY <1>5, OneEvent, PhaseNames
  <2> QED
    BY <2>1, <2>2, <2>3
<1>7. Owners[e] = a /\ Phases[e] = "reserved" /\ Prizes[e] = event[e].reward
  BY <1>4, SeenAt, PhaseNames DEF Reserved
<1>8. FreeMoney[a] = wallet[a].balance
  BY DEF FreeMoney
<1> HIDE DEF fee
<1>9. CASE wallet' = wallet
  <2>1. FreeMoney' = [FreeMoney EXCEPT ![a] = wallet[a].balance]
    BY <1>9 DEF FreeMoney
  <2>2. (FreeMoney[a] - wallet[a].balance) * BPS <= Prizes[e] * MAX_FEE_BPS
    <3>1. (FreeMoney[a] - wallet[a].balance) * BPS = 0
      BY <1>1, <1>2, <1>8
    <3>2. Prizes[e] * MAX_FEE_BPS \in Nat
      BY <1>1, <1>2, <1>7
    <3> QED
      BY <3>1, <3>2
  <2> QED
    <3>1. wallet[a].balance <= FreeMoney[a]
      BY <1>2, <1>8
    <3> QED
      BY <1>2, <1>6, <1>7, <2>1, <2>2, <3>1, GoLiveSeen
<1>10. CASE /\ wallet[a].balance >= fee
            /\ wallet' = [wallet EXCEPT ![a].balance = @ - fee]
  <2> DEFINE rest == wallet[a].balance - fee
  <2>1. rest \in Nat /\ rest <= wallet[a].balance /\ wallet[a].balance - rest = fee
    BY <1>2, <1>3, <1>10
  <2>2. wallet' = [wallet EXCEPT ![a].balance = rest]
    BY <1>10
  <2> HIDE DEF rest
  <2>3. FreeMoney' = [FreeMoney EXCEPT ![a] = rest]
    BY <2>1, <2>2, BalanceSeen
  <2>4. (FreeMoney[a] - rest) * BPS <= Prizes[e] * MAX_FEE_BPS
    BY <1>3, <1>7, <1>8, <2>1
  <2> QED
    BY <1>6, <1>7, <1>8, <2>1, <2>3, <2>4, GoLiveSeen
<1> QED
  BY <1>4, <1>9, <1>10 DEF ChargeFee

\* A refund adds to one organizer's free money.
LEMMA RefundSeen ==
  ASSUME TypeOK, NEW a \in Organizers, NEW n \in Nat, RefundTo(a, n)
  PROVE  /\ FreeMoney[a] \in Nat
         /\ FreeMoney' = [FreeMoney EXCEPT ![a] = FreeMoney[a] + n]
<1>1. wallet[a] \in AdminWallet
  BY DEF TypeOK
<1>2. wallet[a].balance \in Nat /\ FreeMoney[a] = wallet[a].balance
  BY <1>1 DEF AdminWallet, FreeMoney
<1>3. wallet' = [wallet EXCEPT ![a].balance = wallet[a].balance + n]
  BY DEF RefundTo
<1>4. wallet[a].balance + n \in Nat
  BY <1>2
<1>5. FreeMoney' = [FreeMoney EXCEPT ![a] = wallet[a].balance + n]
  BY <1>3, <1>4, BalanceSeen
<1> QED
  BY <1>2, <1>5, Zenon

\* Cancelling and expiring return the prize.
LEMMA CancellationSeen ==
  ASSUME TypeOK, NEW a \in Organizers, NEW e \in EventIds,
         event[e].admin = a, event[e].state \in PreLaunch,
         event' = [event EXCEPT ![e].state = "Cancelled"],
         RefundTo(a, event[e].reward)
  PROVE  Promise!Next
<1>1. event[e] \in Event
  BY DEF TypeOK
<1>2. event[e].reward \in Nat
  BY <1>1 DEF Event
<1>3. /\ event'[e].state = "Cancelled"
      /\ event'[e].admin = event[e].admin
      /\ event'[e].reward = event[e].reward
      /\ \A f \in EventIds \ {e} : event'[f] = event[f]
  BY SetState, StateNames DEF TypeOK
<1>4. Owners' = Owners
  BY <1>3, SameOwner
<1>5. /\ Prizes' = [Prizes EXCEPT ![e] = 0]
      /\ Phases' = [Phases EXCEPT ![e] = "returned"]
  BY <1>3, OneEvent, PhaseNames DEF Reserved, PreLaunch
<1>6. Owners[e] = a /\ Phases[e] = "reserved" /\ Prizes[e] = event[e].reward
  BY SeenAt, PhaseNames DEF Reserved
<1>7. FreeMoney' = [FreeMoney EXCEPT ![a] = FreeMoney[a] + Prizes[e]]
  BY <1>2, <1>6, RefundSeen
<1> QED
  BY <1>4, <1>5, <1>6, <1>7, ReturnSeen

\* An emergency withdrawal takes back a part of the prize.
LEMMA EmergencySeen ==
  ASSUME TypeOK, NEW a \in Organizers, NEW r \in Resolvers, NEW e \in EventIds,
         NEW n \in CallAmounts, emergency_withdraw(a, r, e, n)
  PROVE  Promise!Next
<1> DEFINE left == event[e].reward - n
<1>1. event[e] \in Event
  BY DEF TypeOK
<1>2. event[e].reward \in Nat
  BY <1>1 DEF Event
<1>3. /\ n > 0 /\ n <= event[e].reward /\ n \in Int
      /\ event[e].admin = a /\ event[e].state \in PreLaunch
      /\ event' = [event EXCEPT ![e].reward = event[e].reward - n]
      /\ RefundTo(a, n)
  BY EscrowAssumption DEF emergency_withdraw
<1>4. n \in Nat /\ left \in Nat /\ left < event[e].reward
      /\ event[e].reward - left = n
  BY <1>2, <1>3
<1>5. /\ event'[e].state = event[e].state
      /\ event'[e].admin = event[e].admin
      /\ event'[e].reward = left
      /\ \A f \in EventIds \ {e} : event'[f] = event[f]
  BY <1>3, <1>4, SetReward DEF TypeOK
<1> HIDE DEF left
<1>6. Owners' = Owners
  BY <1>5, SameOwner
<1>7. Prizes' = [Prizes EXCEPT ![e] = left]
  BY <1>3, <1>5, OneEvent DEF Reserved
<1>8. Phases' = Phases
  BY <1>5, SamePhase
<1>9. Owners[e] = a /\ Phases[e] = "reserved" /\ Prizes[e] = event[e].reward
  BY <1>3, SeenAt, PhaseNames DEF Reserved
<1>10. FreeMoney[a] \in Nat /\ FreeMoney' = [FreeMoney EXCEPT ![a] = FreeMoney[a] + n]
  BY <1>3, <1>4, RefundSeen
<1>11. FreeMoney[a] + n \in Nat /\ FreeMoney[a] + n = FreeMoney[a] + Prizes[e] - left
  BY <1>2, <1>4, <1>9, <1>10
<1> QED
  BY <1>2, <1>4, <1>6, <1>7, <1>8, <1>9, <1>10, <1>11, ShrinkSeen

\* A release and a dispute's resolution pay the live prize out.
LEMMA PayoutSeen ==
  ASSUME TypeOK, PayoutNext
  PROVE  Promise!Next
<1>1. PICK e \in EventIds, w \in PaymentLists :
        event[e].state = "InProgress" /\ PayWinners(e, w)
  BY DEF PayoutNext, release_reward, resolve_dispute
<1>2. wallet' = wallet /\ event' = [event EXCEPT ![e].state = "Ended"]
  BY <1>1 DEF PayWinners
<1>3. /\ event'[e].state = "Ended"
      /\ event'[e].admin = event[e].admin
      /\ event'[e].reward = event[e].reward
      /\ \A f \in EventIds \ {e} : event'[f] = event[f]
  BY <1>2, SetState, StateNames DEF TypeOK
<1>4. Owners' = Owners
  BY <1>3, SameOwner
<1>5. /\ Prizes' = [Prizes EXCEPT ![e] = 0]
      /\ Phases' = [Phases EXCEPT ![e] = "paid"]
  BY <1>3, OneEvent, PhaseNames DEF Reserved, PreLaunch
<1>6. Phases[e] = "live"
  BY <1>1, SeenAt, PhaseNames
<1>7. FreeMoney' = FreeMoney
  BY <1>2 DEF FreeMoney
<1> QED
  BY <1>4, <1>5, <1>6, <1>7, PayOutSeen

-----------------------------------------------------------------------------
\* A freshly deployed contract holds nothing, as the promise begins.
LEMMA InitSeen == Init => Promise!Init
<1> SUFFICES ASSUME Init PROVE Promise!Init
  OBVIOUS
<1>1. /\ \A a \in Organizers : wallet[a].balance = 0
      /\ \A e \in EventIds : /\ event[e].admin = None
                             /\ event[e].state = "Absent"
  BY DEF Init, EscrowInit, NoWallet, NoEvent
<1>2. /\ FreeMoney = [a \in Organizers |-> 0]
      /\ Owners = [e \in EventIds |-> None]
  BY <1>1 DEF FreeMoney, Owners
<1>3. Prizes = [e \in EventIds |-> 0]
  BY <1>1 DEF Prizes, Reserved, PreLaunch
<1>4. Phases = [e \in EventIds |-> "none"]
  BY <1>1 DEF Phases, Phase, PreLaunch
<1> QED
  BY <1>2, <1>3, <1>4 DEF Promise!Init, Promise!PhaseInit, FreeMoney, Owners, Prizes, Phases

\* Every call is a step of the promise or is not seen.
LEMMA StepSeen ==
  ASSUME TypeOK, TypeOK', RefundsMatchWallet, [Next]_vars
  PROVE  [Promise!Next]_(Promise!vars)
<1>1. ASSUME NEW a \in Organizers, OrganizerNext(a)
      PROVE  Promise!Next \/ UNCHANGED Promise!vars
  <2>1. ASSUME NEW e \in EventIds, set_event_cancelled(a, e)
        PROVE  Promise!Next
    BY <2>1, CancellationSeen DEF set_event_cancelled
  <2> QED
    BY <1>1, <2>1, WalletCallSeen, CreationSeen, AnnouncementSeen, LaunchSeen,
       EmergencySeen, CompensationSeen DEF OrganizerNext
<1>2. ASSUME NEW e \in EventIds, expire_event(e)
      PROVE  Promise!Next
  <2>1. /\ event[e].state \in PreLaunch
        /\ event' = [event EXCEPT ![e].state = "Cancelled"]
        /\ RefundTo(event[e].admin, event[e].reward)
    BY <1>2 DEF expire_event
  <2>2. event[e].admin \in Organizers
    BY <2>1 DEF RefundsMatchWallet, PreLaunch
  <2> QED
    BY <2>1, <2>2, CancellationSeen
<1>3. CASE UNCHANGED <<wallet, event>>
  BY <1>3, Unseen
<1> QED
  BY <1>1, <1>2, <1>3, PayoutSeen
  DEF Next, Environment, Tick, DirectTransfer, Governance, vars, escrowVars

\* Every behaviour of the contract, seen as free money, prizes and phases, is
\* one PrizeEscrow allows: reserved money comes back only before the event is
\* live, a live prize leaves whole, once, and the go-live fee is bounded.
THEOREM PromiseKept == Spec => KeepsPromise
<1>1. Init => Promise!Init
  BY InitSeen
<1>2. TypeOK /\ TypeOK' /\ RefundsMatchWallet /\ [Next]_vars
        => [Promise!Next]_(Promise!vars)
  BY StepSeen
<1>3. Spec => []TypeOK /\ []RefundsMatchWallet
  BY TypeCorrect, RefundsMatch
<1> QED
  BY <1>1, <1>2, <1>3, PTL DEF Spec, KeepsPromise, Promise!Spec

\* A step of the promise moves at most one event, to its next phase.
LEMMA PromisedAdvance ==
  ASSUME [Promise!Next]_(Promise!vars)
  PROVE  (\E e \in EventIds : Promise!Advance(e)) \/ Phases' = Phases
<1>1. CASE UNCHANGED Promise!vars
  BY <1>1 DEF Promise!vars, Phases
<1>2. ASSUME NEW a \in Organizers, Promise!Move(a)
      PROVE  Phases' = Phases
  BY <1>2 DEF Promise!Move, Phases
<1>3. ASSUME NEW e \in EventIds,
             \/ \E a \in Organizers : Promise!Reserve(a, e)
             \/ Promise!Return(e)
             \/ Promise!GoLive(e)
             \/ Promise!PayOut(e)
      PROVE  Promise!Advance(e)
  BY <1>3, Zenon DEF Promise!Reserve, Promise!Return, Promise!GoLive,
     Promise!PayOut, Promise!Advance
<1>4. ASSUME NEW e \in EventIds, Promise!Shrink(e)
      PROVE  Phases' = Phases
  BY <1>4 DEF Promise!Shrink, Phases
<1> QED
  BY <1>1, <1>2, <1>3, <1>4 DEF Promise!Next

\* Each event of the contract is reserved, goes live or is returned, and is paid,
\* in this order and one event at a time: the calls of EventEscrow keep the
\* order of phases that core-go's record follows (CoreService's
\* FollowsContract).
THEOREM PhasesInOrder == Spec => Promise!PhaseSpec
<1>1. Promise!Init => Promise!PhaseInit
  BY DEF Promise!Init
<1>2. [Promise!Next]_(Promise!vars)
        => [\E e \in EventIds : Promise!Advance(e)]_Phases
  BY PromisedAdvance
<1>3. Spec => Promise!Spec
  BY PromiseKept DEF KeepsPromise
<1> QED
  BY <1>1, <1>2, <1>3, PTL DEF Promise!Spec, Promise!PhaseSpec, Phases
=============================================================================
