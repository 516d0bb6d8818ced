------------------------- MODULE EventEscrowProofs -------------------------
(***************************************************************************)
(* Proofs about the escrow contract for every set of organizers, tokens,   *)
(* events and callers, every supply, fee schedule and winner cap.          *)
(***************************************************************************)
EXTENDS EventEscrow, AmountsProofs, SequenceTheorems

USE AddressAssumption, FeeAssumption, EscrowAssumption

\* The fee is a natural number.
LEMMA FeeType ==
  ASSUME NEW n \in Nat, feeBps \in Nat
  PROVE  GoLiveFee(n) \in Nat
<1>1. n * feeBps \in Nat
  OBVIOUS
<1> QED
  BY <1>1 DEF GoLiveFee

\* A list of positive payments has a total, and no recipient gets more of it.
LEMMA PaymentTotals ==
  ASSUME NEW w \in PaymentLists, AllPositive(w)
  PROVE  /\ Total(AmountsOf(w)) \in Nat
         /\ \A x \in Address : /\ Total(AmountsTo(w, x)) \in Nat
                               /\ Total(AmountsTo(w, x)) <= Total(AmountsOf(w))
<1>1. w \in Seq(Payment)
  OBVIOUS
<1>2. IsFiniteSet(DOMAIN w)
  BY <1>1, FS_Interval
<1>3. \A i \in DOMAIN w : w[i].amount \in Nat
  <2>1. \A i \in DOMAIN w : w[i] \in Payment
    BY <1>1
  <2>2. \A i \in DOMAIN w : w[i].amount \in Int /\ w[i].amount > 0
    BY <2>1 DEF AllPositive, Payment
  <2> QED
    BY <2>2
<1>4. AmountsOf(w) \in [DOMAIN w -> Nat]
  BY <1>3 DEF AmountsOf
<1>5. ASSUME NEW x \in Address
      PROVE  /\ AmountsTo(w, x) \in [DOMAIN w -> Nat]
             /\ \A i \in DOMAIN w : AmountsTo(w, x)[i] <= AmountsOf(w)[i]
  BY <1>3 DEF AmountsTo, AmountsOf
<1>6. ASSUME NEW x \in Address
      PROVE  /\ Total(AmountsTo(w, x)) \in Nat
             /\ Total(AmountsTo(w, x)) <= Total(AmountsOf(w))
  BY <1>2, <1>4, <1>5, TotalType, TotalMonotone
<1> QED
  BY <1>2, <1>4, <1>6, TotalType

\* What the token contract does to the balances in one transfer.
LEMMA TransferEffect ==
  ASSUME balance \in [Tokens -> [Address -> Nat]], NEW t \in Tokens,
         NEW from \in Address, NEW to \in Address, NEW n \in Nat,
         Transfer(t, from, to, n)
  PROVE  /\ balance' \in [Tokens -> [Address -> Nat]]
         /\ \A s \in Tokens \ {t} : balance'[s] = balance[s]
         /\ from # to => /\ balance'[t][from] = balance[t][from] - n
                         /\ balance'[t][to] = balance[t][to] + n
         /\ from = to => balance'[t][from] = balance[t][from]
BY DEF Transfer

\* A transfer out to any address, of a token that may not even exist (then the
\* update has no effect), keeps balances natural.
LEMMA FeeTransferType ==
  ASSUME balance \in [Tokens -> [Address -> Nat]], NEW t,
         NEW to \in Address, NEW n \in Nat, Transfer(t, Self, to, n)
  PROVE  balance' \in [Tokens -> [Address -> Nat]]
<1>1. CASE t \in Tokens
  BY <1>1, TransferEffect
<1>2. CASE t \notin Tokens
  BY <1>2 DEF Transfer
<1> QED
  BY <1>1, <1>2

\* What the loop of transfers does to the balances: the contract loses at most
\* the total of the list.
LEMMA TransferAllEffect ==
  ASSUME balance \in [Tokens -> [Address -> Nat]], NEW t \in Tokens,
         NEW w \in PaymentLists, AllPositive(w), TransferAll(t, w)
  PROVE  /\ balance' \in [Tokens -> [Address -> Nat]]
         /\ \A s \in Tokens \ {t} : balance'[s] = balance[s]
         /\ balance'[t][Self] >= balance[t][Self] - Total(AmountsOf(w))
<1> DEFINE all == Total(AmountsOf(w))
           to == [x \in Address |-> Total(AmountsTo(w, x))]
           row == [x \in Address |->
                     balance[t][x] - (IF x = Self THEN all ELSE 0) + to[x]]
<1>1. all \in Nat /\ to \in [Address -> Nat]
  BY PaymentTotals
<1>2. balance[t][Self] >= all /\ balance' = [balance EXCEPT ![t] = row]
  BY DEF TransferAll
<1>3. row \in [Address -> Nat] /\ row[Self] >= balance[t][Self] - all
  <2> HIDE DEF all, to
  <2> QED
    BY <1>1, <1>2
<1> HIDE DEF row
<1> QED
  BY <1>2, <1>3

-----------------------------------------------------------------------------
(* Type correctness.                                                       *)

\* Every governance entry point keeps the governance types.
LEMMA GovernanceType == GovTypeOK /\ GovNext => GovTypeOK'
BY DEF GovTypeOK, GovNext, IsEmergencyAdmin, initialize_emergency_admin,
       initialize_default_resolver, initialize_treasury, set_paused,
       set_admin_paused, set_token_whitelist_enabled, set_token_allowed,
       set_fee_bps

\* A step that leaves the governance state alone keeps its types.
LEMMA GovUnchangedType == GovTypeOK /\ UNCHANGED govVars => GovTypeOK'
BY DEF GovTypeOK, govVars

\* The state names an event can be given.
LEMMA StateNames ==
  /\ PreLaunch \cup Terminal \cup {"InProgress"} \subseteq EventState
  /\ {"WaitingForStart", "Cancelled", "Compensated", "Ended"} \subseteq EventState
BY DEF EventState, Reserved, PreLaunch, Terminal

\* Changing a field of an event record.
LEMMA EventFields ==
  ASSUME NEW r \in Event, NEW st \in EventState, NEW n \in Nat
  PROVE  /\ [r EXCEPT !.state = st] \in Event
         /\ [r EXCEPT !.reward = n] \in Event
         /\ [r EXCEPT !.state = st, !.judging_deadline = n] \in Event
<1>1. [r EXCEPT !.state = st] \in Event
  BY DEF Event
<1>2. [r EXCEPT !.reward = n] \in Event
  BY DEF Event
<1>3. [r EXCEPT !.state = st, !.judging_deadline = n] \in Event
  BY DEF Event
<1> QED
  BY <1>1, <1>2, <1>3

\* Writing one wallet's balance, and one field of one event.
LEMMA SetBalance ==
  ASSUME wallet \in [Organizers -> AdminWallet], NEW a \in Organizers,
         NEW n \in Nat, wallet' = [wallet EXCEPT ![a].balance = n]
  PROVE  /\ wallet' \in [Organizers -> AdminWallet]
         /\ wallet'[a].token = wallet[a].token
         /\ wallet'[a].balance = n
         /\ \A b \in Organizers \ {a} : wallet'[b] = wallet[b]
<1>1. [wallet[a] EXCEPT !.balance = n] \in AdminWallet
  BY DEF AdminWallet
<1> QED
  BY <1>1 DEF AdminWallet

\* Writing the state of one event changes that field only.
LEMMA SetState ==
  ASSUME event \in [EventIds -> Event], NEW e \in EventIds,
         NEW st \in EventState, event' = [event EXCEPT ![e].state = st]
  PROVE  /\ event' \in [EventIds -> Event]
         /\ event'[e] = [event[e] EXCEPT !.state = st]
         /\ \A f \in EventIds \ {e} : event'[f] = event[f]
         /\ event'[e].admin = event[e].admin
         /\ event'[e].token = event[e].token
         /\ event'[e].reward = event[e].reward
         /\ event'[e].state = st
<1>1. [event[e] EXCEPT !.state = st] \in Event
  BY EventFields
<1>2. /\ event' \in [EventIds -> Event]
      /\ event'[e] = [event[e] EXCEPT !.state = st]
      /\ \A f \in EventIds \ {e} : event'[f] = event[f]
  BY <1>1
<1>3. /\ event'[e].admin = event[e].admin
      /\ event'[e].token = event[e].token
      /\ event'[e].reward = event[e].reward
      /\ event'[e].state = st
  <2>1. event[e] \in Event
    OBVIOUS
  <2> QED
    BY <1>2, <2>1 DEF Event
<1> QED
  BY <1>2, <1>3

\* Writing the prize of one event changes that field only.
LEMMA SetReward ==
  ASSUME event \in [EventIds -> Event], NEW e \in EventIds,
         NEW n \in Nat, event' = [event EXCEPT ![e].reward = n]
  PROVE  /\ event' \in [EventIds -> Event]
         /\ event'[e] = [event[e] EXCEPT !.reward = n]
         /\ \A f \in EventIds \ {e} : event'[f] = event[f]
         /\ event'[e].admin = event[e].admin
         /\ event'[e].token = event[e].token
         /\ event'[e].reward = n
         /\ event'[e].state = event[e].state
<1>1. [event[e] EXCEPT !.reward = n] \in Event
  BY EventFields, StateNames
<1>2. /\ event' \in [EventIds -> Event]
      /\ event'[e] = [event[e] EXCEPT !.reward = n]
      /\ \A f \in EventIds \ {e} : event'[f] = event[f]
  BY <1>1
<1>3. /\ event'[e].admin = event[e].admin
      /\ event'[e].token = event[e].token
      /\ event'[e].reward = n
      /\ event'[e].state = event[e].state
  <2>1. event[e] \in Event
    OBVIOUS
  <2> QED
    BY <1>2, <2>1 DEF Event
<1> QED
  BY <1>2, <1>3

\* Going live writes the state and the judging deadline of one event only.
LEMMA SetLive ==
  ASSUME event \in [EventIds -> Event], NEW e \in EventIds, NEW jd \in Nat,
         event' = [event EXCEPT ![e].state = "InProgress",
                                ![e].judging_deadline = jd]
  PROVE  /\ event' \in [EventIds -> Event]
         /\ event'[e] = [event[e] EXCEPT !.state = "InProgress",
                                         !.judging_deadline = jd]
         /\ \A f \in EventIds \ {e} : event'[f] = event[f]
         /\ event'[e].admin = event[e].admin
         /\ event'[e].token = event[e].token
         /\ event'[e].reward = event[e].reward
         /\ event'[e].state = "InProgress"
<1>1. [event[e] EXCEPT !.state = "InProgress", !.judging_deadline = jd] \in Event
  BY EventFields, StateNames
<1>2. /\ event' \in [EventIds -> Event]
      /\ event'[e] = [event[e] EXCEPT !.state = "InProgress", !.judging_deadline = jd]
      /\ \A f \in EventIds \ {e} : event'[f] = event[f]
  BY <1>1
<1>3. /\ event'[e].admin = event[e].admin
      /\ event'[e].token = event[e].token
      /\ event'[e].reward = event[e].reward
      /\ event'[e].state = "InProgress"
  <2>1. event[e] \in Event
    OBVIOUS
  <2> QED
    BY <1>2, <2>1 DEF Event
<1> QED
  BY <1>2, <1>3

\* Refunding keeps wallets well formed.
LEMMA RefundType ==
  ASSUME wallet \in [Organizers -> AdminWallet], NEW a, NEW n \in Nat,
         RefundTo(a, n)
  PROVE  wallet' \in [Organizers -> AdminWallet]
<1>1. CASE a \in Organizers
  <2>1. wallet[a].balance + n \in Nat
    BY <1>1 DEF AdminWallet
  <2> QED
    BY <1>1, <2>1, SetBalance DEF RefundTo
<1>2. CASE a \notin Organizers
  BY <1>2 DEF RefundTo
<1> QED
  BY <1>1, <1>2

\* A freshly deployed contract is well typed.
LEMMA InitType == Init => TypeOK
<1> SUFFICES ASSUME Init PROVE TypeOK
  OBVIOUS
<1>1. GovTypeOK
  BY DEF Init, GovInit, GovTypeOK
<1>2. wallet \in [Organizers -> AdminWallet]
  BY DEF Init, EscrowInit, NoWallet, AdminWallet
<1>3. event \in [EventIds -> Event]
  BY DEF Init, EscrowInit, NoEvent, Event, EventState
<1>4. index \in [Organizers -> Seq(EventIds)]
  BY DEF Init, EscrowInit
<1>5. balance \in [Tokens -> [Address -> Nat]] /\ now \in Nat
  BY DEF Init, EscrowInit
<1> QED
  BY <1>1, <1>2, <1>3, <1>4, <1>5 DEF TypeOK

\* Every entry point of an organizer keeps the types.
LEMMA OrganizerType ==
  ASSUME TypeOK, NEW a \in Organizers, OrganizerNext(a)
  PROVE  TypeOK'
<1> USE DEF TypeOK
<1>1. ASSUME NEW t \in Tokens, NEW n \in CallAmounts, deposit_funds(a, t, n)
      PROVE  TypeOK'
  <2>1. n \in Nat /\ Transfer(t, a, Self, n)
    BY <1>1 DEF deposit_funds
  <2>2. balance' \in [Tokens -> [Address -> Nat]]
    BY <2>1, TransferEffect
  <2>3. wallet' \in [Organizers -> AdminWallet]
    BY <1>1, <2>1 DEF deposit_funds, get_balance, AdminWallet
  <2> QED
    BY <1>1, <2>2, <2>3, GovUnchangedType DEF deposit_funds
<1>2. ASSUME NEW n \in CallAmounts, withdraw_funds(a, n)
      PROVE  TypeOK'
  <2>1. n \in Nat /\ Transfer(wallet[a].token, Self, a, n)
    BY <1>2 DEF withdraw_funds
  <2>2. wallet[a].token \in Tokens
    BY <1>2 DEF withdraw_funds, HasWallet, AdminWallet
  <2>3. balance' \in [Tokens -> [Address -> Nat]]
    BY <2>1, <2>2, TransferEffect
  <2>4. wallet' \in [Organizers -> AdminWallet]
    <3>1. wallet[a].balance - n \in Nat
      BY <1>2, <2>1 DEF withdraw_funds, AdminWallet
    <3> QED
      BY <1>2, <3>1, SetBalance DEF withdraw_funds
  <2> QED
    BY <1>2, <2>3, <2>4, GovUnchangedType DEF withdraw_funds
<1>3. ASSUME NEW j \in Judges, NEW r \in Resolvers \cup {None}, NEW t \in Tokens,
             NEW n \in CallAmounts, NEW e \in EventIds, NEW d \in 0..MaxTime,
             create_event(a, j, r, t, n, e, d)
      PROVE  TypeOK'
  <2>1. n \in Nat
    BY <1>3 DEF create_event
  <2>2. wallet' \in [Organizers -> AdminWallet]
    <3>1. wallet[a].balance - n \in Nat
      BY <1>3, <2>1, SMTT(30) DEF create_event, AdminWallet
    <3> QED
      BY <1>3, <3>1, SetBalance DEF create_event
  <2>3. ResolverFor(r) \in Address
    BY <1>3 DEF create_event, ResolverFor, GovTypeOK
  <2>4. event' \in [EventIds -> Event]
    BY <1>3, <2>1, <2>3 DEF create_event, Event, EventState, Reserved, PreLaunch
  <2>5. index' \in [Organizers -> Seq(EventIds)]
    BY <1>3 DEF create_event
  <2> QED
    BY <1>3, <2>2, <2>4, <2>5, GovUnchangedType DEF create_event
<1>4. ASSUME NEW e \in EventIds, set_event_waiting_for_start(a, e)
      PROVE  TypeOK'
  <2>1. event' \in [EventIds -> Event]
    BY <1>4, StateNames, SetState DEF set_event_waiting_for_start
  <2> QED
    BY <1>4, <2>1, GovUnchangedType DEF set_event_waiting_for_start
<1>5. ASSUME NEW e \in EventIds, NEW jd \in 0..MaxTime,
             set_event_in_progress(a, e, jd)
      PROVE  TypeOK'
  <2> DEFINE fee == GoLiveFee(event[e].reward)
  <2>1. fee \in Nat
    <3>1. event[e].reward \in Nat /\ feeBps \in Nat
      BY DEF Event, GovTypeOK
    <3> QED
      BY <3>1, FeeType
  <2>2. event' \in [EventIds -> Event]
    <3>1. jd \in Nat
      OBVIOUS
    <3>2. event' = [event EXCEPT ![e].state = "InProgress",
                                 ![e].judging_deadline = jd]
      BY <1>5 DEF set_event_in_progress
    <3> QED
      BY <3>1, <3>2, SetLive
  <2>3. ChargeFee(a, event[e].token, fee)
    BY <1>5 DEF set_event_in_progress
  <2>4. CASE fee = 0
    <3>1. UNCHANGED <<wallet, balance>>
      BY <2>3, <2>4 DEF ChargeFee
    <3> QED
      BY <1>5, <2>2, <3>1, GovUnchangedType DEF set_event_in_progress
  <2>5. CASE fee > 0
    <3> HIDE DEF fee
    <3>1. /\ treasury # None
          /\ wallet[a].balance >= fee
          /\ wallet' = [wallet EXCEPT ![a].balance = @ - fee]
          /\ Transfer(event[e].token, Self, treasury, fee)
      BY <2>1, <2>3, <2>5 DEF ChargeFee
    <3>2. wallet' \in [Organizers -> AdminWallet]
      <4>1. wallet[a].balance - fee \in Nat
        BY <2>1, <3>1 DEF AdminWallet
      <4> QED
        BY <3>1, <4>1, SetBalance
    <3>3. balance' \in [Tokens -> [Address -> Nat]]
      BY <2>1, <3>1, FeeTransferType DEF GovTypeOK
    <3> QED
      BY <1>5, <2>2, <3>2, <3>3, GovUnchangedType DEF set_event_in_progress
  <2> QED
    BY <2>1, <2>4, <2>5
<1>6. ASSUME NEW e \in EventIds, set_event_cancelled(a, e)
      PROVE  TypeOK'
  <2>1. event' \in [EventIds -> Event]
    BY <1>6, StateNames, SetState DEF set_event_cancelled
  <2>2. event[e].reward \in Nat /\ RefundTo(a, event[e].reward)
    BY <1>6 DEF set_event_cancelled, Event
  <2>3. wallet' \in [Organizers -> AdminWallet]
    BY <2>2, RefundType
  <2> QED
    BY <1>6, <2>1, <2>3, GovUnchangedType DEF set_event_cancelled
<1>7. ASSUME NEW e \in EventIds, NEW r \in Resolvers, NEW n \in CallAmounts,
             emergency_withdraw(a, r, e, n)
      PROVE  TypeOK'
  <2>1. n \in Nat /\ RefundTo(a, n)
    BY <1>7 DEF emergency_withdraw
  <2>2. event' \in [EventIds -> Event]
    <3>1. event[e].reward - n \in Nat
      BY <1>7, <2>1 DEF emergency_withdraw, Event
    <3> QED
      BY <1>7, <3>1, SetReward DEF emergency_withdraw
  <2>3. wallet' \in [Organizers -> AdminWallet]
    BY <2>1, RefundType
  <2> QED
    BY <1>7, <2>2, <2>3, GovUnchangedType DEF emergency_withdraw
<1>8. ASSUME NEW e \in EventIds, NEW w \in PaymentLists,
             release_compensation(a, e, w)
      PROVE  TypeOK'
  <2>1. Total(AmountsOf(w)) \in Nat
    BY <1>8, PaymentTotals DEF release_compensation
  <2>2. wallet' \in [Organizers -> AdminWallet]
    <3>1. wallet[a].balance - Total(AmountsOf(w)) \in Nat
      BY <1>8, <2>1 DEF release_compensation, AdminWallet
    <3> QED
      BY <1>8, <3>1, SetBalance DEF release_compensation
  <2>3. wallet[a].token \in Tokens
    BY <1>8 DEF release_compensation, HasWallet, AdminWallet
  <2>4. balance' \in [Tokens -> [Address -> Nat]]
    BY <1>8, <2>3, TransferAllEffect DEF release_compensation
  <2>5. event' \in [EventIds -> Event]
    BY <1>8, StateNames, SetState DEF release_compensation
  <2> QED
    BY <1>8, <2>2, <2>4, <2>5, GovUnchangedType DEF release_compensation
<1> QED
  BY <1>1, <1>2, <1>3, <1>4, <1>5, <1>6, <1>7, <1>8 DEF OrganizerNext

\* Both ways a live event pays out keep the types.
LEMMA PayoutType ==
  ASSUME TypeOK, PayoutNext
  PROVE  TypeOK'
<1> USE DEF TypeOK
<1>1. PICK e \in EventIds, w \in PaymentLists :
        event[e].state = "InProgress" /\ PayWinners(e, w)
  BY DEF PayoutNext, release_reward, resolve_dispute
<1>2. event' \in [EventIds -> Event]
  BY <1>1, StateNames, SetState DEF PayWinners
<1>3. AllPositive(w) /\ TransferAll(event[e].token, w)
  BY <1>1 DEF PayWinners, ValidWinners
<1>4. balance' \in [Tokens -> [Address -> Nat]]
  <2>1. CASE event[e].token \in Tokens
    BY <1>3, <2>1, TransferAllEffect
  <2>2. CASE event[e].token \notin Tokens
    BY <1>3, <2>2 DEF TransferAll
  <2> QED
    BY <2>1, <2>2
<1> QED
  BY <1>1, <1>2, <1>4, GovUnchangedType DEF PayWinners

\* Expiry, time and tokens sent in directly keep the types.
LEMMA EnvironmentType ==
  ASSUME TypeOK, Environment
  PROVE  TypeOK'
<1> USE DEF TypeOK
<1>1. ASSUME NEW e \in EventIds, expire_event(e)
      PROVE  TypeOK'
  <2>1. event' \in [EventIds -> Event]
    BY <1>1, StateNames, SetState DEF expire_event
  <2>2. event[e].reward \in Nat /\ RefundTo(event[e].admin, event[e].reward)
    BY <1>1 DEF expire_event, Event
  <2>3. wallet' \in [Organizers -> AdminWallet]
    BY <2>2, RefundType
  <2> QED
    BY <1>1, <2>1, <2>3, GovUnchangedType DEF expire_event
<1>2. ASSUME NEW a \in Organizers, NEW t \in Tokens, NEW n \in CallAmounts,
             DirectTransfer(a, t, n)
      PROVE  TypeOK'
  <2>1. n \in Nat /\ Transfer(t, a, Self, n)
    BY <1>2 DEF DirectTransfer
  <2>2. balance' \in [Tokens -> [Address -> Nat]]
    BY <2>1, TransferEffect
  <2> QED
    BY <1>2, <2>2, GovUnchangedType DEF DirectTransfer
<1>3. CASE Tick
  BY <1>3, GovUnchangedType DEF Tick
<1> QED
  BY <1>1, <1>2, <1>3 DEF Environment

\* Every step of the contract keeps the types.
LEMMA StepType == TypeOK /\ [Next]_vars => TypeOK'
<1> SUFFICES ASSUME TypeOK, [Next]_vars PROVE TypeOK'
  OBVIOUS
<1>1. CASE Governance
  BY <1>1, GovernanceType DEF Governance, escrowVars, TypeOK
<1>2. ASSUME NEW a \in Organizers, OrganizerNext(a)
      PROVE  TypeOK'
  BY <1>2, OrganizerType
<1>3. CASE PayoutNext
  BY <1>3, PayoutType
<1>4. CASE Environment
  BY <1>4, EnvironmentType
<1>5. CASE UNCHANGED vars
  BY <1>5, GovUnchangedType DEF vars, escrowVars, TypeOK
<1> QED
  BY <1>1, <1>2, <1>3, <1>4, <1>5 DEF Next

\* No sequence of calls leaves a malformed store: balances, prizes and token
\* holdings stay natural numbers (no subtraction of the contract or of the token
\* goes below zero), the fee rate stays under its ceiling.
THEOREM TypeCorrect == Spec => []TypeOK
<1>1. Init => TypeOK
  BY InitType
<1>2. TypeOK /\ [Next]_vars => TypeOK'
  BY StepType
<1> QED
  BY <1>1, <1>2, PTL DEF Spec

-----------------------------------------------------------------------------
(* Solvency.  What a wallet and an event contribute to the liabilities in  *)
(* token t, and how the totals move when one of each changes.              *)

WalletOwed(w, t) == IF w.token = t THEN w.balance ELSE 0

EventOwed(v, t) == IF v.token = t /\ v.state \in Reserved THEN v.reward ELSE 0

\* What is owed to each wallet and each event is a natural number.
LEMMA OwedNat ==
  ASSUME TypeOK, NEW t
  PROVE  /\ FreeOf(t) \in [Organizers -> Nat]
         /\ ReservedOf(t) \in [EventIds -> Nat]
<1>1. /\ \A a \in Organizers : wallet[a].balance \in Nat
      /\ \A e \in EventIds : event[e].reward \in Nat
  BY DEF TypeOK, AdminWallet, Event
<1> QED
  BY <1>1 DEF FreeOf, ReservedOf

\* The same after a step.
LEMMA PrimedOwedNat ==
  ASSUME TypeOK', NEW t
  PROVE  /\ FreeOf(t)' \in [Organizers -> Nat]
         /\ ReservedOf(t)' \in [EventIds -> Nat]
<1>1. /\ \A a \in Organizers : wallet'[a].balance \in Nat
      /\ \A e \in EventIds : event'[e].reward \in Nat
  BY DEF TypeOK, AdminWallet, Event
<1> QED
  BY <1>1 DEF FreeOf, ReservedOf

\* What is owed to one wallet or one event is an integer.
LEMMA OwedInt ==
  ASSUME TypeOK, TypeOK', NEW t
  PROVE  /\ \A a \in Organizers : /\ WalletOwed(wallet[a], t) \in Int
                                  /\ WalletOwed(wallet'[a], t) \in Int
         /\ \A e \in EventIds : /\ EventOwed(event[e], t) \in Int
                                /\ EventOwed(event'[e], t) \in Int
<1>1. /\ \A a \in Organizers : wallet[a].balance \in Nat /\ wallet'[a].balance \in Nat
      /\ \A e \in EventIds : event[e].reward \in Nat /\ event'[e].reward \in Nat
  BY DEF TypeOK, AdminWallet, Event
<1> QED
  BY <1>1 DEF WalletOwed, EventOwed

\* Writing one wallet moves the sum of the free balances by as much as that wallet.
LEMMA FreeDelta ==
  ASSUME TypeOK, TypeOK', NEW t, NEW a \in Organizers,
         \A b \in Organizers \ {a} : wallet'[b] = wallet[b]
  PROVE  /\ Total(FreeOf(t)) \in Nat
         /\ Total(FreeOf(t)') \in Nat
         /\ Total(FreeOf(t)') - Total(FreeOf(t)) =
              WalletOwed(wallet'[a], t) - WalletOwed(wallet[a], t)
<1>1. FreeOf(t) \in [Organizers -> Nat] /\ FreeOf(t)' \in [Organizers -> Nat]
  BY OwedNat, PrimedOwedNat
<1>2. \A b \in Organizers \ {a} : FreeOf(t)'[b] = FreeOf(t)[b]
  BY DEF FreeOf
<1>3. /\ FreeOf(t)[a] = WalletOwed(wallet[a], t)
      /\ FreeOf(t)'[a] = WalletOwed(wallet'[a], t)
  BY DEF FreeOf, WalletOwed
<1>4. Total(FreeOf(t)) \in Nat /\ Total(FreeOf(t)') \in Nat
  BY <1>1, FiniteAssumption, TotalType
<1>5. Total(FreeOf(t)') - Total(FreeOf(t)) = FreeOf(t)'[a] - FreeOf(t)[a]
  BY <1>1, <1>2, FiniteAssumption, TotalChange
<1> QED
  BY <1>3, <1>4, <1>5

\* Writing one event moves the sum of the reserves by as much as that event.
LEMMA ReservedDelta ==
  ASSUME TypeOK, TypeOK', NEW t, NEW e \in EventIds,
         \A f \in EventIds \ {e} : event'[f] = event[f]
  PROVE  /\ Total(ReservedOf(t)) \in Nat
         /\ Total(ReservedOf(t)') \in Nat
         /\ Total(ReservedOf(t)') - Total(ReservedOf(t)) =
              EventOwed(event'[e], t) - EventOwed(event[e], t)
<1>1. ReservedOf(t) \in [EventIds -> Nat] /\ ReservedOf(t)' \in [EventIds -> Nat]
  BY OwedNat, PrimedOwedNat
<1>2. \A f \in EventIds \ {e} : ReservedOf(t)'[f] = ReservedOf(t)[f]
  BY DEF ReservedOf
<1>3. /\ ReservedOf(t)[e] = EventOwed(event[e], t)
      /\ ReservedOf(t)'[e] = EventOwed(event'[e], t)
  BY DEF ReservedOf, EventOwed
<1>4. Total(ReservedOf(t)) \in Nat /\ Total(ReservedOf(t)') \in Nat
  BY <1>1, FiniteAssumption, TotalType
<1>5. Total(ReservedOf(t)') - Total(ReservedOf(t)) = ReservedOf(t)'[e] - ReservedOf(t)[e]
  BY <1>1, <1>2, FiniteAssumption, TotalChange
<1> QED
  BY <1>3, <1>4, <1>5

\* Unchanged wallets and events are owed the same sums.
LEMMA SameOwed ==
  ASSUME TypeOK, NEW t
  PROVE  /\ Total(FreeOf(t)) \in Nat
         /\ Total(ReservedOf(t)) \in Nat
         /\ wallet' = wallet => Total(FreeOf(t)') = Total(FreeOf(t))
         /\ event' = event => Total(ReservedOf(t)') = Total(ReservedOf(t))
<1>1. Total(FreeOf(t)) \in Nat /\ Total(ReservedOf(t)) \in Nat
  BY OwedNat, FiniteAssumption, TotalType
<1>2. wallet' = wallet => FreeOf(t)' = FreeOf(t)
  BY DEF FreeOf
<1>3. event' = event => ReservedOf(t)' = ReservedOf(t)
  BY DEF ReservedOf
<1> QED
  BY <1>1, <1>2, <1>3

\* The arithmetic of a step: holdings b cover free money f and reserves r.
LEMMA HoldingsCover ==
  ASSUME NEW b \in Int, NEW b2 \in Int, NEW f \in Int, NEW f2 \in Int,
         NEW r \in Int, NEW r2 \in Int,
         b >= f + r, b2 - b >= (f2 - f) + (r2 - r)
  PROVE  b2 >= f2 + r2
OBVIOUS

\* A step that changes at most one wallet and one event keeps the contract
\* solvent when its holdings move at least as much as what it owes.
LEMMA SolventStep ==
  ASSUME TypeOK, TypeOK', Solvency, NEW a \in Organizers, NEW e \in EventIds,
         \A b \in Organizers \ {a} : wallet'[b] = wallet[b],
         \A f \in EventIds \ {e} : event'[f] = event[f],
         \A t \in Tokens :
           balance'[t][Self] - balance[t][Self] >=
             (WalletOwed(wallet'[a], t) - WalletOwed(wallet[a], t)) +
             (EventOwed(event'[e], t) - EventOwed(event[e], t))
  PROVE  Solvency'
<1> SUFFICES ASSUME NEW t \in Tokens
             PROVE  balance'[t][Self] >= Total(FreeOf(t)') + Total(ReservedOf(t)')
  BY DEF Solvency, Liabilities
<1>1. /\ balance[t][Self] \in Nat /\ balance'[t][Self] \in Nat
      /\ balance[t][Self] >= Total(FreeOf(t)) + Total(ReservedOf(t))
  BY DEF TypeOK, Solvency, Liabilities
<1>2. /\ WalletOwed(wallet[a], t) \in Int /\ WalletOwed(wallet'[a], t) \in Int
      /\ EventOwed(event[e], t) \in Int /\ EventOwed(event'[e], t) \in Int
  BY OwedInt
<1>3. /\ Total(FreeOf(t)) \in Nat /\ Total(FreeOf(t)') \in Nat
      /\ Total(FreeOf(t)') - Total(FreeOf(t)) =
           WalletOwed(wallet'[a], t) - WalletOwed(wallet[a], t)
  BY FreeDelta
<1>4. /\ Total(ReservedOf(t)) \in Nat /\ Total(ReservedOf(t)') \in Nat
      /\ Total(ReservedOf(t)') - Total(ReservedOf(t)) =
           EventOwed(event'[e], t) - EventOwed(event[e], t)
  BY ReservedDelta
<1>5. balance'[t][Self] - balance[t][Self] >=
        (WalletOwed(wallet'[a], t) - WalletOwed(wallet[a], t)) +
        (EventOwed(event'[e], t) - EventOwed(event[e], t))
  OBVIOUS
<1>6. balance'[t][Self] - balance[t][Self] >=
        (Total(FreeOf(t)') - Total(FreeOf(t))) +
        (Total(ReservedOf(t)') - Total(ReservedOf(t)))
  BY <1>1, <1>2, <1>3, <1>4, <1>5
<1> QED
  BY <1>1, <1>3, <1>4, <1>6, HoldingsCover

\* The same when no event changes.
LEMMA SolventWalletStep ==
  ASSUME TypeOK, TypeOK', Solvency, NEW a \in Organizers, event' = event,
         \A b \in Organizers \ {a} : wallet'[b] = wallet[b],
         \A t \in Tokens :
           balance'[t][Self] - balance[t][Self] >=
             WalletOwed(wallet'[a], t) - WalletOwed(wallet[a], t)
  PROVE  Solvency'
<1> SUFFICES ASSUME NEW t \in Tokens
             PROVE  balance'[t][Self] >= Total(FreeOf(t)') + Total(ReservedOf(t)')
  BY DEF Solvency, Liabilities
<1>1. /\ balance[t][Self] \in Nat /\ balance'[t][Self] \in Nat
      /\ balance[t][Self] >= Total(FreeOf(t)) + Total(ReservedOf(t))
  BY DEF TypeOK, Solvency, Liabilities
<1>2. WalletOwed(wallet[a], t) \in Int /\ WalletOwed(wallet'[a], t) \in Int
  BY OwedInt
<1>3. /\ Total(FreeOf(t)) \in Nat /\ Total(FreeOf(t)') \in Nat
      /\ Total(FreeOf(t)') - Total(FreeOf(t)) =
           WalletOwed(wallet'[a], t) - WalletOwed(wallet[a], t)
  BY FreeDelta
<1>4. Total(ReservedOf(t)) \in Nat /\ Total(ReservedOf(t)') = Total(ReservedOf(t))
  BY SameOwed
<1>5. balance'[t][Self] - balance[t][Self] >=
        WalletOwed(wallet'[a], t) - WalletOwed(wallet[a], t)
  OBVIOUS
<1>6. balance'[t][Self] - balance[t][Self] >=
        (Total(FreeOf(t)') - Total(FreeOf(t))) +
        (Total(ReservedOf(t)') - Total(ReservedOf(t)))
  BY <1>1, <1>2, <1>3, <1>4, <1>5
<1> QED
  BY <1>1, <1>3, <1>4, <1>6, HoldingsCover

\* The same when no wallet changes.
LEMMA SolventEventStep ==
  ASSUME TypeOK, TypeOK', Solvency, NEW e \in EventIds, wallet' = wallet,
         \A f \in EventIds \ {e} : event'[f] = event[f],
         \A t \in Tokens :
           balance'[t][Self] - balance[t][Self] >=
             EventOwed(event'[e], t) - EventOwed(event[e], t)
  PROVE  Solvency'
<1> SUFFICES ASSUME NEW t \in Tokens
             PROVE  balance'[t][Self] >= Total(FreeOf(t)') + Total(ReservedOf(t)')
  BY DEF Solvency, Liabilities
<1>1. /\ balance[t][Self] \in Nat /\ balance'[t][Self] \in Nat
      /\ balance[t][Self] >= Total(FreeOf(t)) + Total(ReservedOf(t))
  BY DEF TypeOK, Solvency, Liabilities
<1>2. EventOwed(event[e], t) \in Int /\ EventOwed(event'[e], t) \in Int
  BY OwedInt
<1>3. /\ Total(ReservedOf(t)) \in Nat /\ Total(ReservedOf(t)') \in Nat
      /\ Total(ReservedOf(t)') - Total(ReservedOf(t)) =
           EventOwed(event'[e], t) - EventOwed(event[e], t)
  BY ReservedDelta
<1>4. Total(FreeOf(t)) \in Nat /\ Total(FreeOf(t)') = Total(FreeOf(t))
  BY SameOwed
<1>5. balance'[t][Self] - balance[t][Self] >=
        EventOwed(event'[e], t) - EventOwed(event[e], t)
  OBVIOUS
<1>6. balance'[t][Self] - balance[t][Self] >=
        (Total(FreeOf(t)') - Total(FreeOf(t))) +
        (Total(ReservedOf(t)') - Total(ReservedOf(t)))
  BY <1>1, <1>2, <1>3, <1>4, <1>5
<1> QED
  BY <1>1, <1>3, <1>4, <1>6, HoldingsCover

\* The same when neither changes.
LEMMA SolventBalanceStep ==
  ASSUME TypeOK, TypeOK', Solvency, wallet' = wallet, event' = event,
         \A t \in Tokens : balance'[t][Self] >= balance[t][Self]
  PROVE  Solvency'
<1> SUFFICES ASSUME NEW t \in Tokens
             PROVE  balance'[t][Self] >= Total(FreeOf(t)') + Total(ReservedOf(t)')
  BY DEF Solvency, Liabilities
<1>1. /\ balance[t][Self] \in Nat /\ balance'[t][Self] \in Nat
      /\ balance[t][Self] >= Total(FreeOf(t)) + Total(ReservedOf(t))
      /\ balance'[t][Self] >= balance[t][Self]
  BY DEF TypeOK, Solvency, Liabilities
<1>2. /\ Total(FreeOf(t)) \in Nat /\ Total(FreeOf(t)') = Total(FreeOf(t))
      /\ Total(ReservedOf(t)) \in Nat
      /\ Total(ReservedOf(t)') = Total(ReservedOf(t))
  BY SameOwed
<1> QED
  BY <1>1, <1>2

-----------------------------------------------------------------------------
(* Events and wallets agree on the token.                                  *)

\* A step that renames no event's organizer or token, creates no event and
\* keeps every wallet's token keeps them matched.
LEMMA MatchKept ==
  ASSUME RefundsMatchWallet,
         \A a \in Organizers : wallet'[a].token = wallet[a].token,
         \A e \in EventIds : /\ event'[e].admin = event[e].admin
                             /\ event'[e].token = event[e].token
                             /\ event[e].state = "Absent" => event'[e].state = "Absent"
  PROVE  RefundsMatchWallet'
BY DEF RefundsMatchWallet

\* Ending, cancelling, compensating, or announcing an event is such a step.
LEMMA StateStepMatch ==
  ASSUME TypeOK, RefundsMatchWallet, NEW e \in EventIds, NEW st \in EventState,
         event[e].state # "Absent",
         event' = [event EXCEPT ![e].state = st],
         \A a \in Organizers : wallet'[a].token = wallet[a].token
  PROVE  RefundsMatchWallet'
<1>1. /\ event'[e].admin = event[e].admin /\ event'[e].token = event[e].token
      /\ \A f \in EventIds \ {e} : event'[f] = event[f]
  BY SetState DEF TypeOK
<1> QED
  BY <1>1, MatchKept

\* Refunds and charges leave every wallet's token alone.
LEMMA BalanceStepTokens ==
  ASSUME TypeOK, NEW a \in Organizers, NEW n \in Nat,
         wallet' = [wallet EXCEPT ![a].balance = n]
  PROVE  \A b \in Organizers : wallet'[b].token = wallet[b].token
BY SetBalance DEF TypeOK

\* A refund leaves every wallet's token alone.
LEMMA RefundTokens ==
  ASSUME TypeOK, NEW a, NEW n \in Nat, RefundTo(a, n)
  PROVE  \A b \in Organizers : wallet'[b].token = wallet[b].token
<1>1. CASE a \in Organizers
  <2>1. wallet[a].balance + n \in Nat
    BY <1>1 DEF TypeOK, AdminWallet
  <2> QED
    BY <1>1, <2>1, BalanceStepTokens DEF RefundTo
<1>2. CASE a \notin Organizers
  BY <1>2 DEF RefundTo, TypeOK
<1> QED
  BY <1>1, <1>2

\* Every entry point of an organizer keeps prizes and wallets in one token.
LEMMA OrganizerMatch ==
  ASSUME TypeOK, RefundsMatchWallet, NEW a \in Organizers, OrganizerNext(a)
  PROVE  RefundsMatchWallet'
<1>0. wallet[a].balance \in Nat
  BY DEF TypeOK, AdminWallet
<1>1. ASSUME NEW t \in Tokens, NEW n \in CallAmounts, deposit_funds(a, t, n)
      PROVE  RefundsMatchWallet'
  <2>1. /\ wallet[a].token \in {None, t}
        /\ wallet'[a].token = t
        /\ \A b \in Organizers \ {a} : wallet'[b] = wallet[b]
        /\ event' = event
    BY <1>1 DEF deposit_funds, TypeOK
  <2> QED
    BY <2>1 DEF RefundsMatchWallet
<1>2. ASSUME NEW n \in CallAmounts, withdraw_funds(a, n)
      PROVE  RefundsMatchWallet'
  <2>1. wallet[a].balance - n \in Nat
    BY <1>0, <1>2 DEF withdraw_funds
  <2>2. \A b \in Organizers : wallet'[b].token = wallet[b].token
    BY <1>2, <2>1, BalanceStepTokens DEF withdraw_funds
  <2> QED
    BY <1>2, <2>2, MatchKept DEF withdraw_funds
<1>3. ASSUME NEW j \in Judges, NEW r \in Resolvers \cup {None}, NEW t \in Tokens,
             NEW n \in CallAmounts, NEW e \in EventIds, NEW d \in 0..MaxTime,
             create_event(a, j, r, t, n, e, d)
      PROVE  RefundsMatchWallet'
  <2>1. wallet[a].balance - n \in Nat
    BY <1>0, <1>3 DEF create_event
  <2>2. \A b \in Organizers : wallet'[b].token = wallet[b].token
    BY <1>3, <2>1, BalanceStepTokens DEF create_event
  <2>3. /\ event'[e].admin = a /\ event'[e].token = t /\ wallet[a].token = t
        /\ \A f \in EventIds \ {e} : event'[f] = event[f]
    BY <1>3 DEF create_event, TypeOK
  <2> QED
    BY <2>2, <2>3 DEF RefundsMatchWallet
<1>4. ASSUME NEW e \in EventIds, set_event_waiting_for_start(a, e)
      PROVE  RefundsMatchWallet'
  BY <1>4, StateNames, StateStepMatch DEF set_event_waiting_for_start
<1>5. ASSUME NEW e \in EventIds, NEW jd \in 0..MaxTime,
             set_event_in_progress(a, e, jd)
      PROVE  RefundsMatchWallet'
  <2> DEFINE fee == GoLiveFee(event[e].reward)
  <2>1. fee \in Nat
    <3>1. event[e].reward \in Nat /\ feeBps \in Nat
      BY DEF TypeOK, Event, GovTypeOK
    <3> QED
      BY <3>1, FeeType
  <2>2. \A b \in Organizers : wallet'[b].token = wallet[b].token
    <3>1. ChargeFee(a, event[e].token, fee)
      BY <1>5 DEF set_event_in_progress
    <3> HIDE DEF fee
    <3>2. \/ wallet' = wallet
          \/ /\ wallet[a].balance - fee \in Nat
             /\ wallet' = [wallet EXCEPT ![a].balance = @ - fee]
      BY <1>0, <2>1, <3>1, SMTT(30) DEF ChargeFee
    <3> QED
      BY <3>2, BalanceStepTokens
  <2>3. jd \in Nat /\ event[e] \in Event /\ event[e].state # "Absent"
    BY <1>5 DEF TypeOK, set_event_in_progress, PreLaunch
  <2>4. /\ event'[e].admin = event[e].admin /\ event'[e].token = event[e].token
        /\ \A f \in EventIds \ {e} : event'[f] = event[f]
    BY <1>5, <2>3, SetLive DEF set_event_in_progress, TypeOK
  <2> QED
    BY <2>2, <2>3, <2>4, MatchKept
<1>6. ASSUME NEW e \in EventIds, set_event_cancelled(a, e)
      PROVE  RefundsMatchWallet'
  <2>1. event[e].reward \in Nat
    BY DEF TypeOK, Event
  <2>2. \A b \in Organizers : wallet'[b].token = wallet[b].token
    BY <1>6, <2>1, RefundTokens DEF set_event_cancelled
  <2> QED
    BY <1>6, <2>2, StateNames, StateStepMatch DEF set_event_cancelled, PreLaunch
<1>7. ASSUME NEW e \in EventIds, NEW r \in Resolvers, NEW n \in CallAmounts,
             emergency_withdraw(a, r, e, n)
      PROVE  RefundsMatchWallet'
  <2>1. n \in Nat /\ event[e] \in Event /\ event[e].reward - n \in Nat
    BY <1>7 DEF emergency_withdraw, TypeOK, Event
  <2>2. \A b \in Organizers : wallet'[b].token = wallet[b].token
    BY <1>7, <2>1, RefundTokens DEF emergency_withdraw
  <2>3. /\ event'[e].admin = event[e].admin /\ event'[e].token = event[e].token
        /\ event'[e].state = event[e].state
        /\ \A f \in EventIds \ {e} : event'[f] = event[f]
    BY <1>7, <2>1, SetReward DEF emergency_withdraw, TypeOK
  <2> QED
    BY <2>2, <2>3, MatchKept
<1>8. ASSUME NEW e \in EventIds, NEW w \in PaymentLists,
             release_compensation(a, e, w)
      PROVE  RefundsMatchWallet'
  <2>1. Total(AmountsOf(w)) \in Nat
    BY <1>8, PaymentTotals DEF release_compensation
  <2>2. wallet[a].balance - Total(AmountsOf(w)) \in Nat
    BY <1>0, <1>8, <2>1 DEF release_compensation
  <2>3. \A b \in Organizers : wallet'[b].token = wallet[b].token
    BY <1>8, <2>2, BalanceStepTokens DEF release_compensation
  <2> QED
    BY <1>8, <2>3, StateNames, StateStepMatch DEF release_compensation
<1> QED
  BY <1>1, <1>2, <1>3, <1>4, <1>5, <1>6, <1>7, <1>8 DEF OrganizerNext

\* Every step of the contract keeps prizes and wallets in one token.
LEMMA StepMatch == TypeOK /\ RefundsMatchWallet /\ [Next]_vars => RefundsMatchWallet'
<1> SUFFICES ASSUME TypeOK, RefundsMatchWallet, [Next]_vars
             PROVE  RefundsMatchWallet'
  OBVIOUS
<1>1. ASSUME NEW a \in Organizers, OrganizerNext(a)
      PROVE  RefundsMatchWallet'
  BY <1>1, OrganizerMatch
<1>2. CASE PayoutNext
  <2>1. PICK e \in EventIds, w \in PaymentLists :
          event[e].state = "InProgress" /\ PayWinners(e, w)
    BY <1>2 DEF PayoutNext, release_reward, resolve_dispute
  <2> QED
    BY <2>1, StateNames, StateStepMatch DEF PayWinners
<1>3. ASSUME NEW e \in EventIds, expire_event(e)
      PROVE  RefundsMatchWallet'
  <2>1. event[e].reward \in Nat
    BY DEF TypeOK, Event
  <2>2. \A b \in Organizers : wallet'[b].token = wallet[b].token
    BY <1>3, <2>1, RefundTokens DEF expire_event
  <2> QED
    BY <1>3, <2>2, StateNames, StateStepMatch DEF expire_event, PreLaunch
<1>4. CASE wallet' = wallet /\ event' = event
  BY <1>4, MatchKept
<1> QED
  BY <1>1, <1>2, <1>3, <1>4
  DEF Next, Environment, DirectTransfer, Tick, Governance, vars, escrowVars

-----------------------------------------------------------------------------
(* Every step keeps the contract solvent.                                  *)

\* A refund of n from event e to its organizer moves n from reserved to free.
LEMMA RefundSolvent ==
  ASSUME TypeOK, TypeOK', RefundsMatchWallet, Solvency, NEW e \in EventIds,
         event[e].state \in PreLaunch, NEW n \in Nat,
         RefundTo(event[e].admin, n), balance' = balance,
         \A f \in EventIds \ {e} : event'[f] = event[f],
         event'[e].token = event[e].token,
         \A t \in Tokens : event[e].token = t =>
            EventOwed(event'[e], t) = event[e].reward - n
  PROVE  Solvency'
<1>0. PICK a \in Organizers : a = event[e].admin
  BY DEF RefundsMatchWallet, PreLaunch
<1>1. event[e].token \in Tokens /\ wallet[a].token = event[e].token
  BY <1>0 DEF RefundsMatchWallet, PreLaunch
<1>2. wallet[a].balance \in Nat /\ event[e].reward \in Nat
  BY <1>1 DEF TypeOK, AdminWallet, Event
<1>3. /\ wallet'[a].token = wallet[a].token
      /\ wallet'[a].balance = wallet[a].balance + n
      /\ \A b \in Organizers \ {a} : wallet'[b] = wallet[b]
  <2>1. wallet[a].balance + n \in Nat
    BY <1>2
  <2> QED
    BY <1>0, <2>1, SetBalance DEF RefundTo, TypeOK
<1>4. ASSUME NEW t \in Tokens
      PROVE  balance'[t][Self] - balance[t][Self] >=
               (WalletOwed(wallet'[a], t) - WalletOwed(wallet[a], t)) +
               (EventOwed(event'[e], t) - EventOwed(event[e], t))
  <2>1. balance[t][Self] \in Nat /\ balance'[t][Self] = balance[t][Self]
    BY DEF TypeOK
  <2>2. CASE t = event[e].token
    <3>1. /\ WalletOwed(wallet'[a], t) = wallet[a].balance + n
          /\ WalletOwed(wallet[a], t) = wallet[a].balance
      BY <1>1, <1>3, <2>2 DEF WalletOwed
    <3>2. /\ EventOwed(event'[e], t) = event[e].reward - n
          /\ EventOwed(event[e], t) = event[e].reward
      BY <2>2 DEF EventOwed, Reserved
    <3>3. (wallet[a].balance + n) - wallet[a].balance
            + ((event[e].reward - n) - event[e].reward) = 0
      BY <1>2, SMTT(30)
    <3> QED
      BY <2>1, <3>1, <3>2, <3>3
  <2>3. CASE t # event[e].token
    <3>1. /\ WalletOwed(wallet'[a], t) = 0 /\ WalletOwed(wallet[a], t) = 0
          /\ EventOwed(event'[e], t) = 0 /\ EventOwed(event[e], t) = 0
      BY <1>1, <1>3, <2>3 DEF WalletOwed, EventOwed
    <3> QED
      BY <2>1, <3>1
  <2> QED
    BY <2>2, <2>3
<1> QED
  BY <1>1, <1>3, <1>4, SolventStep

\* Cancelling or expiring refunds the whole prize.
LEMMA CancelSolvent ==
  ASSUME TypeOK, TypeOK', RefundsMatchWallet, Solvency, NEW e \in EventIds,
         event[e].state \in PreLaunch,
         event' = [event EXCEPT ![e].state = "Cancelled"],
         RefundTo(event[e].admin, event[e].reward), balance' = balance
  PROVE  Solvency'
<1>1. /\ event'[e].token = event[e].token /\ event'[e].state = "Cancelled"
      /\ \A f \in EventIds \ {e} : event'[f] = event[f]
  BY SetState, StateNames DEF TypeOK
<1>2. event[e].reward \in Nat
  BY DEF TypeOK, Event
<1>3. \A t \in Tokens : EventOwed(event'[e], t) = event[e].reward - event[e].reward
  BY <1>1, <1>2 DEF EventOwed, Reserved, PreLaunch
<1> QED
  BY <1>1, <1>2, <1>3, RefundSolvent

\* A payout pays the whole prize of a live event, which is then not owed.
LEMMA PayoutSolvent ==
  ASSUME TypeOK, TypeOK', RefundsMatchWallet, Solvency, PayoutNext
  PROVE  Solvency'
<1>1. PICK e \in EventIds, w \in PaymentLists :
        event[e].state = "InProgress" /\ PayWinners(e, w)
  BY DEF PayoutNext, release_reward, resolve_dispute
<1>2. event[e].token \in Tokens /\ event[e].reward \in Nat
  BY <1>1 DEF RefundsMatchWallet, TypeOK, Event
<1>3. /\ event'[e].token = event[e].token /\ event'[e].state = "Ended"
      /\ \A f \in EventIds \ {e} : event'[f] = event[f]
  BY <1>1, SetState, StateNames DEF TypeOK, PayWinners
<1>4. /\ \A s \in Tokens \ {event[e].token} : balance'[s] = balance[s]
      /\ balance'[event[e].token][Self] >=
           balance[event[e].token][Self] - event[e].reward
  BY <1>1, <1>2, TransferAllEffect DEF TypeOK, PayWinners, ValidWinners
<1>5. ASSUME NEW t \in Tokens
      PROVE  balance'[t][Self] - balance[t][Self] >=
               EventOwed(event'[e], t) - EventOwed(event[e], t)
  <2>1. balance[t][Self] \in Nat /\ balance'[t][Self] \in Nat
    BY DEF TypeOK
  <2>2. EventOwed(event'[e], t) = 0
    BY <1>3 DEF EventOwed, Reserved, PreLaunch
  <2>3. CASE t = event[e].token
    <3>1. EventOwed(event[e], t) = event[e].reward
      BY <1>1, <2>3 DEF EventOwed, Reserved
    <3> QED
      BY <1>2, <1>4, <2>1, <2>2, <2>3, <3>1
  <2>4. CASE t # event[e].token
    <3>1. EventOwed(event[e], t) = 0
      BY <2>4 DEF EventOwed
    <3> QED
      BY <1>4, <2>1, <2>2, <2>4, <3>1
  <2> QED
    BY <2>3, <2>4
<1>6. wallet' = wallet
  BY <1>1 DEF PayWinners
<1> QED
  BY <1>3, <1>5, <1>6, SolventEventStep

\* A charge of n to a wallet pays for at most n leaving the contract in the
\* wallet's token.
LEMMA ChargeCovers ==
  ASSUME TypeOK, TypeOK', NEW a \in Organizers, NEW n \in Nat, NEW tok \in Tokens,
         wallet[a].token = tok, wallet[a].balance >= n,
         wallet' = [wallet EXCEPT ![a].balance = @ - n],
         \A s \in Tokens \ {tok} : balance'[s] = balance[s],
         balance'[tok][Self] >= balance[tok][Self] - n
  PROVE  /\ \A b \in Organizers \ {a} : wallet'[b] = wallet[b]
         /\ \A t \in Tokens :
              balance'[t][Self] - balance[t][Self] >=
                WalletOwed(wallet'[a], t) - WalletOwed(wallet[a], t)
<1>1. wallet[a].balance \in Nat /\ wallet[a].balance - n \in Nat
  BY DEF TypeOK, AdminWallet
<1>2. /\ wallet'[a].token = tok
      /\ wallet'[a].balance = wallet[a].balance - n
      /\ \A b \in Organizers \ {a} : wallet'[b] = wallet[b]
  BY <1>1, SetBalance DEF TypeOK
<1>3. ASSUME NEW t \in Tokens
      PROVE  balance'[t][Self] - balance[t][Self] >=
               WalletOwed(wallet'[a], t) - WalletOwed(wallet[a], t)
  <2>1. balance[t][Self] \in Nat /\ balance'[t][Self] \in Nat
    BY DEF TypeOK
  <2>2. CASE t = tok
    <3>1. /\ WalletOwed(wallet'[a], t) = wallet[a].balance - n
          /\ WalletOwed(wallet[a], t) = wallet[a].balance
      BY <1>2, <2>2 DEF WalletOwed
    <3>2. balance'[t][Self] >= balance[t][Self] - n
      BY <2>2
    <3>3. (wallet[a].balance - n) - wallet[a].balance = -n
      BY <1>1, SMTT(30)
    <3> QED
      BY <2>1, <3>1, <3>2, <3>3, SMTT(30)
  <2>3. CASE t # tok
    <3>1. WalletOwed(wallet'[a], t) = 0 /\ WalletOwed(wallet[a], t) = 0
      BY <1>2, <2>3 DEF WalletOwed
    <3> QED
      BY <2>1, <2>3, <3>1
  <2> QED
    BY <2>2, <2>3
<1> QED
  BY <1>2, <1>3

\* Changing the state of an event that is not reserved before and after, or the
\* state within the reserved ones, changes nothing that is owed.
LEMMA OwedKept ==
  ASSUME TypeOK, TypeOK', NEW e \in EventIds,
         event'[e].token = event[e].token, event'[e].reward = event[e].reward,
         event'[e].state \in Reserved <=> event[e].state \in Reserved
  PROVE  \A t \in Tokens : EventOwed(event'[e], t) - EventOwed(event[e], t) = 0
<1>1. \A t \in Tokens : /\ EventOwed(event'[e], t) = EventOwed(event[e], t)
                        /\ EventOwed(event[e], t) \in Int
  BY OwedInt DEF EventOwed
<1> QED
  BY <1>1

\* A charge together with an event whose debt stays the same.
LEMMA ChargeAndKeep ==
  ASSUME TypeOK, TypeOK', NEW a \in Organizers, NEW e \in EventIds,
         \A t \in Tokens : balance'[t][Self] - balance[t][Self] >=
                            WalletOwed(wallet'[a], t) - WalletOwed(wallet[a], t),
         \A t \in Tokens : EventOwed(event'[e], t) - EventOwed(event[e], t) = 0
  PROVE  \A t \in Tokens :
           balance'[t][Self] - balance[t][Self] >=
             (WalletOwed(wallet'[a], t) - WalletOwed(wallet[a], t)) +
             (EventOwed(event'[e], t) - EventOwed(event[e], t))
<1> SUFFICES ASSUME NEW t \in Tokens
             PROVE  balance'[t][Self] - balance[t][Self] >=
                      (WalletOwed(wallet'[a], t) - WalletOwed(wallet[a], t)) +
                      (EventOwed(event'[e], t) - EventOwed(event[e], t))
  OBVIOUS
<1>1. /\ WalletOwed(wallet[a], t) \in Int /\ WalletOwed(wallet'[a], t) \in Int
      /\ EventOwed(event'[e], t) - EventOwed(event[e], t) = 0
      /\ balance'[t][Self] - balance[t][Self] >=
           WalletOwed(wallet'[a], t) - WalletOwed(wallet[a], t)
  BY OwedInt
<1> QED
  BY <1>1

\* A deposit brings in as much as it credits, in the wallet's token.
LEMMA DepositSolvent ==
  ASSUME TypeOK, TypeOK', Solvency, NEW a \in Organizers, NEW tok \in Tokens,
         NEW n \in CallAmounts, deposit_funds(a, tok, n)
  PROVE  Solvency'
<1>1. n \in Nat /\ wallet[a].token \in {None, tok} /\ event' = event
  BY DEF deposit_funds
<1>2. /\ wallet'[a].token = tok
      /\ wallet'[a].balance = get_balance(a) + n
      /\ \A b \in Organizers \ {a} : wallet'[b] = wallet[b]
  BY DEF deposit_funds, TypeOK
<1>3. /\ \A s \in Tokens \ {tok} : balance'[s] = balance[s]
      /\ balance'[tok][Self] = balance[tok][Self] + n
  BY <1>1, TransferEffect DEF deposit_funds, TypeOK
<1>4. wallet[a].balance \in Nat
  BY DEF TypeOK, AdminWallet
<1>5. ASSUME NEW t \in Tokens
      PROVE  balance'[t][Self] - balance[t][Self] >=
               WalletOwed(wallet'[a], t) - WalletOwed(wallet[a], t)
  <2>1. balance[t][Self] \in Nat /\ balance'[t][Self] \in Nat
    BY DEF TypeOK
  <2>2. CASE t = tok /\ wallet[a].token = tok
    <3>1. /\ WalletOwed(wallet'[a], t) = wallet[a].balance + n
          /\ WalletOwed(wallet[a], t) = wallet[a].balance
      BY <1>2, <2>2 DEF WalletOwed, get_balance, HasWallet
    <3> QED
      BY <1>1, <1>3, <1>4, <2>1, <2>2, <3>1
  <2>3. CASE t = tok /\ wallet[a].token = None
    <3>1. WalletOwed(wallet'[a], t) = 0 + n /\ WalletOwed(wallet[a], t) = 0
      BY <1>2, <2>3 DEF WalletOwed, get_balance, HasWallet
    <3> QED
      BY <1>1, <1>3, <2>1, <2>3, <3>1
  <2>4. CASE t # tok
    <3>1. WalletOwed(wallet'[a], t) = 0 /\ WalletOwed(wallet[a], t) = 0
      BY <1>1, <1>2, <2>4 DEF WalletOwed
    <3> QED
      BY <1>3, <2>1, <2>4, <3>1
  <2> QED
    BY <1>1, <2>2, <2>3, <2>4
<1> QED
  BY <1>1, <1>2, <1>5, SolventWalletStep

\* Every entry point of an organizer keeps the contract solvent.
LEMMA OrganizerSolvent ==
  ASSUME TypeOK, TypeOK', RefundsMatchWallet, Solvency,
         NEW a \in Organizers, OrganizerNext(a)
  PROVE  Solvency'
<1>1. ASSUME NEW t \in Tokens, NEW n \in CallAmounts, deposit_funds(a, t, n)
      PROVE  Solvency'
  BY <1>1, DepositSolvent
<1>2. ASSUME NEW n \in CallAmounts, withdraw_funds(a, n)
      PROVE  Solvency'
  <2>1. n \in Nat /\ wallet[a].token \in Tokens /\ a # Self /\ event' = event
    BY <1>2 DEF withdraw_funds, HasWallet, TypeOK, AdminWallet
  <2>2. /\ \A s \in Tokens \ {wallet[a].token} : balance'[s] = balance[s]
        /\ balance'[wallet[a].token][Self] = balance[wallet[a].token][Self] - n
    BY <1>2, <2>1, TransferEffect, SMTT(30) DEF withdraw_funds, TypeOK
  <2>3. balance'[wallet[a].token][Self] >= balance[wallet[a].token][Self] - n
    BY <2>1, <2>2 DEF TypeOK
  <2> QED
    <3>1. /\ \A b \in Organizers \ {a} : wallet'[b] = wallet[b]
          /\ \A t \in Tokens :
               balance'[t][Self] - balance[t][Self] >=
                 WalletOwed(wallet'[a], t) - WalletOwed(wallet[a], t)
      BY <1>2, <2>1, <2>2, <2>3, ChargeCovers DEF withdraw_funds
    <3> QED
      BY <2>1, <3>1, SolventWalletStep
<1>3. ASSUME NEW j \in Judges, NEW r \in Resolvers \cup {None}, NEW tok \in Tokens,
             NEW n \in CallAmounts, NEW e \in EventIds, NEW d \in 0..MaxTime,
             create_event(a, j, r, tok, n, e, d)
      PROVE  Solvency'
  <2>1. /\ n \in Nat /\ wallet[a].token = tok /\ event[e].state = "Absent"
        /\ wallet[a].balance \in Nat /\ wallet[a].balance - n \in Nat
        /\ balance' = balance
    BY <1>3, SMTT(30) DEF create_event, TypeOK, AdminWallet
  <2>2. /\ wallet'[a].token = tok
        /\ wallet'[a].balance = wallet[a].balance - n
        /\ \A b \in Organizers \ {a} : wallet'[b] = wallet[b]
    BY <1>3, <2>1, SetBalance DEF create_event, TypeOK
  <2>3. /\ event'[e].token = tok /\ event'[e].reward = n
        /\ event'[e].state = "Created"
        /\ \A f \in EventIds \ {e} : event'[f] = event[f]
    BY <1>3 DEF create_event, TypeOK
  <2>4. ASSUME NEW t \in Tokens
        PROVE  balance'[t][Self] - balance[t][Self] >=
                 (WalletOwed(wallet'[a], t) - WalletOwed(wallet[a], t)) +
                 (EventOwed(event'[e], t) - EventOwed(event[e], t))
    <3>1. balance[t][Self] \in Nat /\ balance'[t][Self] = balance[t][Self]
      BY <2>1 DEF TypeOK
    <3>2. EventOwed(event[e], t) = 0
      BY <2>1 DEF EventOwed, Reserved, PreLaunch
    <3>3. CASE t = tok
      <4>1. /\ WalletOwed(wallet'[a], t) = wallet[a].balance - n
            /\ WalletOwed(wallet[a], t) = wallet[a].balance
            /\ EventOwed(event'[e], t) = n
        BY <2>1, <2>2, <2>3, <3>3 DEF WalletOwed, EventOwed, Reserved, PreLaunch
      <4> QED
        BY <2>1, <3>1, <3>2, <4>1
    <3>4. CASE t # tok
      <4>1. /\ WalletOwed(wallet'[a], t) = 0 /\ WalletOwed(wallet[a], t) = 0
            /\ EventOwed(event'[e], t) = 0
        BY <2>1, <2>2, <2>3, <3>4 DEF WalletOwed, EventOwed
      <4> QED
        BY <3>1, <3>2, <4>1
    <3> QED
      BY <3>3, <3>4
  <2> QED
    BY <2>2, <2>3, <2>4, SolventStep
<1>4. ASSUME NEW e \in EventIds, set_event_waiting_for_start(a, e)
      PROVE  Solvency'
  <2>1. /\ event'[e].token = event[e].token /\ event'[e].reward = event[e].reward
        /\ event'[e].state = "WaitingForStart" /\ event[e].state = "Created"
        /\ \A f \in EventIds \ {e} : event'[f] = event[f]
    BY <1>4, SetState, StateNames DEF set_event_waiting_for_start, TypeOK
  <2>2. \A t \in Tokens : EventOwed(event'[e], t) - EventOwed(event[e], t) = 0
    BY <2>1, OwedKept DEF Reserved, PreLaunch
  <2>3. wallet' = wallet /\ balance' = balance
    BY <1>4 DEF set_event_waiting_for_start
  <2>4. \A t \in Tokens : balance'[t][Self] - balance[t][Self] >=
                           EventOwed(event'[e], t) - EventOwed(event[e], t)
    BY <2>2, <2>3 DEF TypeOK
  <2> QED
    BY <2>1, <2>3, <2>4, SolventEventStep
<1>5. ASSUME NEW e \in EventIds, NEW jd \in 0..MaxTime,
             set_event_in_progress(a, e, jd)
      PROVE  Solvency'
  <2>1. /\ event'[e].token = event[e].token /\ event'[e].reward = event[e].reward
        /\ event'[e].state = "InProgress" /\ event[e].state \in PreLaunch
        /\ \A f \in EventIds \ {e} : event'[f] = event[f]
    <3>1. jd \in Nat
      OBVIOUS
    <3> QED
      BY <1>5, <3>1, SetLive DEF set_event_in_progress, TypeOK
  <2>2. \A t \in Tokens : EventOwed(event'[e], t) - EventOwed(event[e], t) = 0
    BY <2>1, OwedKept DEF Reserved
  <2> DEFINE fee == GoLiveFee(event[e].reward)
  <2>3. fee \in Nat
    <3>1. event[e].reward \in Nat /\ feeBps \in Nat
      BY DEF TypeOK, Event, GovTypeOK
    <3> QED
      BY <3>1, FeeType
  <2>4. ChargeFee(a, event[e].token, fee)
    BY <1>5 DEF set_event_in_progress
  <2>5. event[e].token \in Tokens /\ wallet[a].token = event[e].token
    BY <1>5, <2>1 DEF set_event_in_progress, RefundsMatchWallet, PreLaunch
  <2> HIDE DEF fee
  <2>6. CASE wallet' = wallet /\ balance' = balance
    <3>1. \A t \in Tokens : balance'[t][Self] - balance[t][Self] >=
                             EventOwed(event'[e], t) - EventOwed(event[e], t)
      BY <2>2, <2>6 DEF TypeOK
    <3> QED
      BY <2>1, <2>6, <3>1, SolventEventStep
  <2>7. CASE /\ treasury # None
             /\ wallet[a].balance >= fee
             /\ wallet' = [wallet EXCEPT ![a].balance = @ - fee]
             /\ Transfer(event[e].token, Self, treasury, fee)
    <3>1. treasury \in Address
      BY <2>7 DEF TypeOK, GovTypeOK
    <3>2. /\ \A s \in Tokens \ {event[e].token} : balance'[s] = balance[s]
          /\ \/ balance'[event[e].token][Self] = balance[event[e].token][Self] - fee
             \/ balance'[event[e].token][Self] = balance[event[e].token][Self]
      <4>1. balance \in [Tokens -> [Address -> Nat]]
        BY DEF TypeOK
      <4>2. PICK tok \in Tokens : tok = event[e].token
        BY <2>5
      <4>3. Transfer(tok, Self, treasury, fee)
        BY <2>7, <4>2
      <4>4. /\ \A s \in Tokens \ {tok} : balance'[s] = balance[s]
            /\ Self # treasury => balance'[tok][Self] = balance[tok][Self] - fee
            /\ Self = treasury => balance'[tok][Self] = balance[tok][Self]
        BY <2>3, <3>1, <4>1, <4>3, TransferEffect
      <4> QED
        BY <4>2, <4>4
    <3>3. balance'[event[e].token][Self] >= balance[event[e].token][Self] - fee
      BY <2>3, <2>5, <3>2 DEF TypeOK
    <3>4. /\ \A b \in Organizers \ {a} : wallet'[b] = wallet[b]
          /\ \A t \in Tokens :
               balance'[t][Self] - balance[t][Self] >=
                 WalletOwed(wallet'[a], t) - WalletOwed(wallet[a], t)
      BY <2>3, <2>5, <2>7, <3>2, <3>3, ChargeCovers
    <3>5. \A t \in Tokens :
            balance'[t][Self] - balance[t][Self] >=
              (WalletOwed(wallet'[a], t) - WalletOwed(wallet[a], t)) +
              (EventOwed(event'[e], t) - EventOwed(event[e], t))
      BY <2>2, <3>4, ChargeAndKeep
    <3> QED
      BY <2>1, <3>4, <3>5, SolventStep
  <2> QED
    BY <2>3, <2>4, <2>6, <2>7 DEF ChargeFee
<1>6. ASSUME NEW e \in EventIds, set_event_cancelled(a, e)
      PROVE  Solvency'
  BY <1>6, CancelSolvent DEF set_event_cancelled
<1>7. ASSUME NEW e \in EventIds, NEW r \in Resolvers, NEW n \in CallAmounts,
             emergency_withdraw(a, r, e, n)
      PROVE  Solvency'
  <2>1. /\ n \in Nat /\ event[e].reward - n \in Nat /\ balance' = balance
        /\ event[e].state \in PreLaunch /\ RefundTo(event[e].admin, n)
    BY <1>7, SMTT(30) DEF emergency_withdraw, TypeOK, Event
  <2>2. /\ event'[e].token = event[e].token
        /\ event'[e].reward = event[e].reward - n
        /\ event'[e].state = event[e].state
        /\ \A f \in EventIds \ {e} : event'[f] = event[f]
    BY <1>7, <2>1, SetReward DEF emergency_withdraw, TypeOK
  <2>3. \A t \in Tokens : event[e].token = t =>
                            EventOwed(event'[e], t) = event[e].reward - n
    BY <2>1, <2>2 DEF EventOwed, Reserved
  <2> QED
    BY <2>1, <2>2, <2>3, RefundSolvent
<1>8. ASSUME NEW e \in EventIds, NEW w \in PaymentLists,
             release_compensation(a, e, w)
      PROVE  Solvency'
  <2>1. /\ event'[e].token = event[e].token /\ event'[e].reward = event[e].reward
        /\ event'[e].state = "Compensated" /\ event[e].state = "Cancelled"
        /\ \A f \in EventIds \ {e} : event'[f] = event[f]
    BY <1>8, SetState, StateNames DEF release_compensation, TypeOK
  <2>2. \A t \in Tokens : EventOwed(event'[e], t) - EventOwed(event[e], t) = 0
    BY <2>1, OwedKept DEF Reserved, PreLaunch
  <2>3. Total(AmountsOf(w)) \in Nat /\ wallet[a].token \in Tokens
    BY <1>8, PaymentTotals DEF release_compensation, HasWallet, TypeOK, AdminWallet
  <2>4. /\ \A s \in Tokens \ {wallet[a].token} : balance'[s] = balance[s]
        /\ balance'[wallet[a].token][Self] >=
             balance[wallet[a].token][Self] - Total(AmountsOf(w))
    BY <1>8, <2>3, TransferAllEffect DEF release_compensation, TypeOK
  <2>5. /\ \A b \in Organizers \ {a} : wallet'[b] = wallet[b]
        /\ \A t \in Tokens :
             balance'[t][Self] - balance[t][Self] >=
               WalletOwed(wallet'[a], t) - WalletOwed(wallet[a], t)
    BY <1>8, <2>3, <2>4, ChargeCovers DEF release_compensation
  <2>6. \A t \in Tokens :
          balance'[t][Self] - balance[t][Self] >=
            (WalletOwed(wallet'[a], t) - WalletOwed(wallet[a], t)) +
            (EventOwed(event'[e], t) - EventOwed(event[e], t))
    BY <2>2, <2>5, ChargeAndKeep
  <2> QED
    BY <2>1, <2>5, <2>6, SolventStep
<1> QED
  BY <1>1, <1>2, <1>3, <1>4, <1>5, <1>6, <1>7, <1>8 DEF OrganizerNext

\* Every step of the contract keeps it solvent.
LEMMA StepSolvent ==
  TypeOK /\ TypeOK' /\ RefundsMatchWallet /\ Solvency /\ [Next]_vars => Solvency'
<1> SUFFICES ASSUME TypeOK, TypeOK', RefundsMatchWallet, Solvency, [Next]_vars
             PROVE  Solvency'
  OBVIOUS
<1>1. ASSUME NEW a \in Organizers, OrganizerNext(a)
      PROVE  Solvency'
  BY <1>1, OrganizerSolvent
<1>2. CASE PayoutNext
  BY <1>2, PayoutSolvent
<1>3. ASSUME NEW e \in EventIds, expire_event(e)
      PROVE  Solvency'
  BY <1>3, CancelSolvent DEF expire_event
<1>4. ASSUME NEW a \in Organizers, NEW tok \in Tokens, NEW n \in CallAmounts,
             DirectTransfer(a, tok, n)
      PROVE  Solvency'
  <2>1. n \in Nat /\ wallet' = wallet /\ event' = event
    BY <1>4 DEF DirectTransfer
  <2>2. /\ \A s \in Tokens \ {tok} : balance'[s] = balance[s]
        /\ balance'[tok][Self] = balance[tok][Self] + n
    BY <1>4, <2>1, TransferEffect DEF DirectTransfer, TypeOK
  <2>3. ASSUME NEW t \in Tokens
        PROVE  balance'[t][Self] >= balance[t][Self]
    <3>1. balance[t][Self] \in Nat
      BY DEF TypeOK
    <3> QED
      BY <2>1, <2>2, <3>1
  <2> QED
    BY <2>1, <2>3, SolventBalanceStep
<1>5. CASE wallet' = wallet /\ event' = event /\ balance' = balance
  <2>1. \A t \in Tokens : balance'[t][Self] >= balance[t][Self]
    BY <1>5 DEF TypeOK
  <2> QED
    BY <1>5, <2>1, SolventBalanceStep
<1> QED
  BY <1>1, <1>2, <1>3, <1>4, <1>5
  DEF Next, Environment, Tick, Governance, vars, escrowVars

\* At deployment nothing is stored, so nothing is owed and nothing can mismatch.
LEMMA InitMatch == Init => RefundsMatchWallet
<1> SUFFICES ASSUME Init PROVE RefundsMatchWallet
  OBVIOUS
<1>1. \A e \in EventIds : event[e].state = "Absent"
  BY DEF Init, EscrowInit, NoEvent
<1> QED
  BY <1>1 DEF RefundsMatchWallet

\* At deployment the contract owes nothing in any token.
LEMMA InitSolvent == Init => Solvency
<1> SUFFICES ASSUME Init, NEW t \in Tokens PROVE balance[t][Self] >= Liabilities(t)
  BY DEF Solvency
<1>1. TypeOK
  BY InitType
<1>2. \A a \in Organizers : FreeOf(t)[a] = 0
  BY DEF Init, EscrowInit, NoWallet, FreeOf
<1>3. \A e \in EventIds : ReservedOf(t)[e] = 0
  BY DEF Init, EscrowInit, NoEvent, ReservedOf
<1>4. FreeOf(t) \in [Organizers -> Nat] /\ ReservedOf(t) \in [EventIds -> Nat]
  BY <1>1, OwedNat
<1>5. Total(FreeOf(t)) = 0 /\ Total(ReservedOf(t)) = 0
  BY <1>2, <1>3, <1>4, TotalZero
<1>6. balance[t][Self] \in Nat
  BY <1>1 DEF TypeOK
<1> QED
  BY <1>5, <1>6 DEF Liabilities

\* The prize of every stored event is in the token of its organizer's wallet, so
\* the refunds of set_event_cancelled, expire_event and emergency_withdraw
\* always credit the money that was reserved.
THEOREM RefundsMatch == Spec => []RefundsMatchWallet
<1>1. Init => TypeOK /\ RefundsMatchWallet
  BY InitType, InitMatch
<1>2. TypeOK /\ RefundsMatchWallet /\ [Next]_vars => TypeOK' /\ RefundsMatchWallet'
  BY StepType, StepMatch
<1> QED
  BY <1>1, <1>2, PTL DEF Spec

\* The contract never owes more of a token than it holds, for every number of
\* organizers, tokens and events and every list of payments.  The inductive
\* invariant adds RefundsMatchWallet: without it a refund could credit a wallet
\* in a token the contract did not reserve.
THEOREM Solvent == Spec => []Solvency
<1>1. Init => TypeOK /\ RefundsMatchWallet /\ Solvency
  BY InitType, InitMatch, InitSolvent
<1>2. TypeOK /\ RefundsMatchWallet /\ Solvency /\ [Next]_vars
        => TypeOK' /\ RefundsMatchWallet' /\ Solvency'
  BY StepType, StepMatch, StepSolvent
<1> QED
  BY <1>1, <1>2, PTL DEF Spec

-----------------------------------------------------------------------------
(* What a step may do to one event.                                        *)

\* An event record whose only change is its state.
LEMMA StateOnly ==
  ASSUME event \in [EventIds -> Event], NEW e \in EventIds, NEW s,
         event' = [event EXCEPT ![e].state = s]
  PROVE  /\ event'[e] = [event[e] EXCEPT !.state = s]
         /\ \A f \in EventIds \ {e} : event'[f] = event[f]
OBVIOUS

\* What any single step does to an event f: nothing, or a move out of a
\* pre-launch or absent state, or one of the two moves that finish it.
EventMove(f) ==
  \/ event'[f] = event[f]
  \/ event[f].state \in PreLaunch \cup {"Absent"}
  \/ /\ event[f].state = "InProgress"
     /\ event'[f] = [event[f] EXCEPT !.state = "Ended"]
     /\ wallet' = wallet
  \/ /\ event[f].state = "Cancelled"
     /\ event'[f] = [event[f] EXCEPT !.state = "Compensated"]

\* Every step of the contract makes an EventMove of every event.
LEMMA StepMoves ==
  ASSUME TypeOK, [Next]_vars, NEW f \in EventIds
  PROVE  EventMove(f)
<1>1. ASSUME NEW a \in Organizers, OrganizerNext(a)
      PROVE  EventMove(f)
  <2>1. CASE event' = event
    BY <2>1 DEF EventMove
  <2>2. ASSUME NEW e \in EventIds, event[e].state \in PreLaunch \cup {"Absent"},
               \A g \in EventIds \ {e} : event'[g] = event[g]
        PROVE  EventMove(f)
    BY <2>2 DEF EventMove
  <2>3. ASSUME NEW e \in EventIds, NEW w \in PaymentLists,
               release_compensation(a, e, w)
        PROVE  EventMove(f)
    BY <2>3, StateOnly DEF release_compensation, EventMove, TypeOK
  <2>4. ASSUME NEW e \in EventIds,
               \/ set_event_waiting_for_start(a, e)
               \/ \E jd \in 0..MaxTime : set_event_in_progress(a, e, jd)
               \/ set_event_cancelled(a, e)
               \/ \E r \in Resolvers, n \in CallAmounts :
                    emergency_withdraw(a, r, e, n)
        PROVE  EventMove(f)
    <3>1. event[e].state \in PreLaunch \cup {"Absent"}
      BY <2>4 DEF set_event_waiting_for_start, set_event_in_progress,
                  set_event_cancelled, emergency_withdraw, PreLaunch
    <3>2. \A g \in EventIds \ {e} : event'[g] = event[g]
      BY <2>4 DEF set_event_waiting_for_start, set_event_in_progress,
                  set_event_cancelled, emergency_withdraw, TypeOK
    <3> QED
      BY <2>2, <3>1, <3>2
  <2>5. ASSUME NEW j \in Judges, NEW r \in Resolvers \cup {None}, NEW t \in Tokens,
               NEW n \in CallAmounts, NEW e \in EventIds, NEW d \in 0..MaxTime,
               create_event(a, j, r, t, n, e, d)
        PROVE  EventMove(f)
    <3>1. /\ event[e].state \in PreLaunch \cup {"Absent"}
          /\ \A g \in EventIds \ {e} : event'[g] = event[g]
      BY <2>5 DEF create_event, TypeOK
    <3> QED
      BY <2>2, <3>1
  <2>6. ASSUME \/ \E t \in Tokens, n \in CallAmounts : deposit_funds(a, t, n)
               \/ \E n \in CallAmounts : withdraw_funds(a, n)
        PROVE  event' = event
    BY <2>6 DEF deposit_funds, withdraw_funds
  <2> QED
    BY <1>1, <2>1, <2>3, <2>4, <2>5, <2>6 DEF OrganizerNext
<1>2. CASE PayoutNext
  <2>1. PICK e \in EventIds, w \in PaymentLists :
          event[e].state = "InProgress" /\ PayWinners(e, w)
    BY <1>2 DEF PayoutNext, release_reward, resolve_dispute
  <2>2. /\ event'[e] = [event[e] EXCEPT !.state = "Ended"]
        /\ \A g \in EventIds \ {e} : event'[g] = event[g]
        /\ wallet' = wallet
    BY <2>1, StateOnly DEF PayWinners, TypeOK
  <2> QED
    BY <2>1, <2>2 DEF EventMove
<1>3. ASSUME NEW e \in EventIds, expire_event(e)
      PROVE  EventMove(f)
  BY <1>3, StateOnly DEF expire_event, EventMove, TypeOK
<1>4. CASE event' = event
  BY <1>4 DEF EventMove
<1> QED
  BY <1>1, <1>2, <1>3, <1>4
  DEF Next, Environment, Tick, DirectTransfer, Governance, vars, escrowVars

\* Once an event is live nobody changes its prize, judge, resolver or deadline,
\* and the step that ends it leaves every free balance alone (ADR-006: live
\* money goes to winners only).
THEOREM LiveLocked == Spec => LiveFundsLocked
<1>1. TypeOK /\ [Next]_vars =>
        \A e \in EventIds :
          event[e].state = "InProgress" =>
            \/ event'[e] = event[e]
            \/ /\ event'[e] = [event[e] EXCEPT !.state = "Ended"]
               /\ wallet' = wallet
  BY StepMoves DEF EventMove, PreLaunch
<1> QED
  BY <1>1, TypeCorrect, PTL DEF Spec, LiveFundsLocked

\* Ended and Compensated are final, and a cancelled event is compensated at most
\* once: no second release_reward, resolve_dispute or release_compensation.
THEOREM FinishedFinal == Spec => FinishedStaysFinished
<1>1. TypeOK /\ [Next]_vars =>
        \A e \in EventIds :
          event[e].state \in Terminal =>
            \/ event'[e] = event[e]
            \/ /\ event[e].state = "Cancelled"
               /\ event'[e] = [event[e] EXCEPT !.state = "Compensated"]
  BY StepMoves DEF EventMove, PreLaunch, Terminal
<1> QED
  BY <1>1, TypeCorrect, PTL DEF Spec, FinishedStaysFinished

----------------------------------------------------------------------------
(* The way out of a live event. LiveEventHasExit says so with ENABLED, which *)
(* is for TLC; here are the guards of resolve_dispute, one by one.           *)

\* The shortest list of winners: the whole prize to one address, or, once
\* emergency withdrawals have taken it all, nobody.
WholePrize(e, x) ==
  IF event[e].reward = 0 THEN <<>> ELSE <<[address |-> x, amount |-> event[e].reward]>>

\* Every guard of resolve_dispute holds for that list, whoever is to have it.
PrizeIsPayable ==
  \A e \in EventIds :
    /\ event[e].state = "InProgress"
    /\ now >= event[e].judging_deadline
    /\ NotPaused(event[e].admin)
    => /\ event[e].judging_deadline # 0 /\ event[e].resolver \in Address
       /\ \A x \in Address :
            /\ WholePrize(e, x) \in Seq(Payment)
            /\ ValidWinners(WholePrize(e, x), event[e].reward)
            /\ balance[event[e].token][Self] >= Total(AmountsOf(WholePrize(e, x)))

\* A live event has a deadline for its judge.
LiveHasDeadline ==
  \A e \in EventIds : event[e].state = "InProgress" => event[e].judging_deadline # 0

\* An event was created with a resolver.
HasResolver == \A e \in EventIds : event[e].state # "Absent" => event[e].resolver \in Address

LEMMA StepResolver == TypeOK /\ HasResolver /\ [Next]_vars => HasResolver'
<1> SUFFICES ASSUME TypeOK, HasResolver, [Next]_vars, NEW f \in EventIds,
                    event'[f].state # "Absent"
             PROVE  event'[f].resolver \in Address
  BY DEF HasResolver
<1> USE DEF TypeOK
<1>1. ASSUME event'[f].resolver = event[f].resolver, event[f].state # "Absent"
      PROVE  event'[f].resolver \in Address
  BY <1>1 DEF HasResolver
<1>2. CASE event'[f] = event[f]
  BY <1>1, <1>2
<1>3. ASSUME NEW a \in Organizers, OrganizerNext(a)
      PROVE  event'[f].resolver \in Address
  <2>1. ASSUME NEW j \in Judges, NEW r \in Resolvers \cup {None}, NEW t \in Tokens,
               NEW n \in CallAmounts, NEW e \in EventIds, NEW d \in 0..MaxTime,
               create_event(a, j, r, t, n, e, d)
        PROVE  event'[f].resolver \in Address
    <3>1. ResolverFor(r) \in Address
      BY <2>1, AddressAssumption DEF create_event, ResolverFor, GovTypeOK
    <3>2. CASE f = e
      BY <2>1, <3>1, <3>2 DEF create_event
    <3>3. CASE f # e
      BY <1>2, <2>1, <3>3 DEF create_event
    <3> QED
      BY <3>2, <3>3
  <2>2. ASSUME \/ \E t \in Tokens, n \in CallAmounts : deposit_funds(a, t, n)
               \/ \E n \in CallAmounts : withdraw_funds(a, n)
        PROVE  event'[f] = event[f]
    BY <2>2 DEF deposit_funds, withdraw_funds
  <2>3. ASSUME NEW e \in EventIds,
               \/ set_event_waiting_for_start(a, e)
               \/ \E jd \in 0..MaxTime : set_event_in_progress(a, e, jd)
               \/ set_event_cancelled(a, e)
               \/ \E r \in Resolvers, n \in CallAmounts : emergency_withdraw(a, r, e, n)
               \/ \E w \in PaymentLists : release_compensation(a, e, w)
        PROVE  event'[f].resolver \in Address
    <3>1. event[e].state # "Absent"
      BY <2>3 DEF set_event_waiting_for_start, set_event_in_progress, set_event_cancelled,
                  emergency_withdraw, release_compensation, PreLaunch
    <3>2. f # e => event'[f] = event[f]
      BY <2>3 DEF set_event_waiting_for_start, set_event_in_progress, set_event_cancelled,
                  emergency_withdraw, release_compensation
    <3>3. event'[e].resolver = event[e].resolver
      <4>1. CASE \E jd \in 0..MaxTime : set_event_in_progress(a, e, jd)
        BY <4>1 DEF set_event_in_progress
      <4>2. CASE \E r \in Resolvers, n \in CallAmounts : emergency_withdraw(a, r, e, n)
        BY <4>2 DEF emergency_withdraw
      <4>3. CASE set_event_waiting_for_start(a, e) \/ set_event_cancelled(a, e)
                   \/ \E w \in PaymentLists : release_compensation(a, e, w)
        <5>1. PICK s \in EventState : event' = [event EXCEPT ![e].state = s]
          BY <4>3, StateNames
          DEF set_event_waiting_for_start, set_event_cancelled, release_compensation
        <5> QED
          BY <5>1
      <4> QED
        BY <2>3, <4>1, <4>2, <4>3
    <3> QED
      BY <1>1, <1>2, <3>1, <3>2, <3>3
  <2> QED
    BY <1>2, <1>3, <2>1, <2>2, <2>3 DEF OrganizerNext
<1>4. ASSUME PayoutNext \/ Environment \/ Governance \/ UNCHANGED vars
      PROVE  event'[f].resolver \in Address
  <2>1. ASSUME NEW e \in EventIds, NEW w \in PaymentLists,
               event[e].state = "InProgress", PayWinners(e, w)
        PROVE  event'[f].resolver \in Address
    BY <1>1, <2>1 DEF PayWinners
  <2>2. ASSUME NEW e \in EventIds, expire_event(e)
        PROVE  event'[f].resolver \in Address
    <3>1. event[e].state # "Absent" /\ event'[f].resolver = event[f].resolver
      BY <2>2 DEF expire_event, PreLaunch
    <3>2. f # e => event'[f] = event[f]
      BY <2>2 DEF expire_event
    <3> QED
      BY <1>1, <1>2, <3>1, <3>2
  <2> QED
    BY <1>2, <1>4, <2>1, <2>2
    DEF PayoutNext, release_reward, resolve_dispute, Environment, Tick, DirectTransfer,
        Governance, vars, escrowVars
<1> QED
  BY <1>3, <1>4 DEF Next

LEMMA StepDeadline == TypeOK /\ LiveHasDeadline /\ [Next]_vars => LiveHasDeadline'
<1> SUFFICES ASSUME TypeOK, LiveHasDeadline, [Next]_vars,
                    NEW f \in EventIds, event'[f].state = "InProgress"
             PROVE  event'[f].judging_deadline # 0
  BY DEF LiveHasDeadline
<1> USE DEF TypeOK
<1>1. CASE event[f].state = "InProgress"
  <2>1. event'[f] = event[f] \/ event'[f] = [event[f] EXCEPT !.state = "Ended"]
    BY <1>1, StepMoves DEF EventMove, PreLaunch
  <2>2. event'[f] # [event[f] EXCEPT !.state = "Ended"]
    BY DEF Event
  <2> QED
    BY <1>1, <2>1, <2>2 DEF LiveHasDeadline
<1>2. ASSUME NEW a \in Organizers, OrganizerNext(a), event[f].state # "InProgress"
      PROVE  event'[f].judging_deadline # 0
  <2>1. ASSUME NEW e \in EventIds, NEW jd \in 0..MaxTime, set_event_in_progress(a, e, jd)
        PROVE  event'[f].judging_deadline # 0
    <3>1. f = e
      BY <1>2, <2>1 DEF set_event_in_progress
    <3>2. event'[e].judging_deadline = jd
      BY <2>1 DEF set_event_in_progress, Event
    <3> QED
      BY <2>1, <3>1, <3>2 DEF set_event_in_progress
  <2>2. ASSUME \/ \E t \in Tokens, n \in CallAmounts : deposit_funds(a, t, n)
               \/ \E n \in CallAmounts : withdraw_funds(a, n)
        PROVE  FALSE
    BY <1>2, <2>2 DEF deposit_funds, withdraw_funds
  <2>3. ASSUME NEW j \in Judges, NEW r \in Resolvers \cup {None}, NEW t \in Tokens,
               NEW n \in CallAmounts, NEW e \in EventIds, NEW d \in 0..MaxTime,
               create_event(a, j, r, t, n, e, d)
        PROVE  FALSE
    BY <1>2, <2>3 DEF create_event
  <2>4. ASSUME NEW e \in EventIds,
               \/ set_event_waiting_for_start(a, e)
               \/ set_event_cancelled(a, e)
               \/ \E w \in PaymentLists : release_compensation(a, e, w)
        PROVE  FALSE
    <3>1. PICK s \in EventState \ {"InProgress"} : event' = [event EXCEPT ![e].state = s]
      BY <2>4, StateNames
      DEF set_event_waiting_for_start, set_event_cancelled, release_compensation
    <3> QED
      BY <1>2, <3>1
  <2>5. ASSUME NEW e \in EventIds, NEW r \in Resolvers, NEW n \in CallAmounts,
               emergency_withdraw(a, r, e, n)
        PROVE  FALSE
    BY <1>2, <2>5 DEF emergency_withdraw
  <2> QED
    BY <1>2, <2>1, <2>2, <2>3, <2>4, <2>5 DEF OrganizerNext
<1>3. ASSUME event[f].state # "InProgress", PayoutNext \/ Environment \/ Governance \/ UNCHANGED vars
      PROVE  FALSE
  <2>1. ASSUME NEW e \in EventIds, NEW w \in PaymentLists, PayWinners(e, w)
        PROVE  FALSE
    BY <1>3, <2>1 DEF PayWinners
  <2>2. ASSUME NEW e \in EventIds, expire_event(e)
        PROVE  FALSE
    BY <1>3, <2>2 DEF expire_event
  <2>3. event' # event
    BY <1>3
  <2> QED
    BY <1>3, <2>1, <2>2, <2>3
    DEF PayoutNext, release_reward, resolve_dispute, Environment, Tick, DirectTransfer,
        Governance, vars, escrowVars
<1> QED
  BY <1>1, <1>2, <1>3 DEF Next

\* One payment adds up to its amount, none to nothing.
LEMMA WholePrizeTotal ==
  ASSUME TypeOK, MAX_WINNERS >= 1, NEW e \in EventIds, NEW x \in Address
  PROVE  /\ WholePrize(e, x) \in Seq(Payment)
         /\ ValidWinners(WholePrize(e, x), event[e].reward)
         /\ Total(AmountsOf(WholePrize(e, x))) = event[e].reward
<1> DEFINE w == WholePrize(e, x)
<1>1. event[e].reward \in Nat
  BY DEF TypeOK, Event
<1>2. w \in Seq(Payment)
  <2>1. [address |-> x, amount |-> event[e].reward] \in Payment
    BY <1>1 DEF Payment
  <2>2. <<>> \in Seq(Payment) /\ <<[address |-> x, amount |-> event[e].reward]>> \in Seq(Payment)
    BY <2>1
  <2> QED
    BY <2>2 DEF WholePrize
<1>3. Len(w) <= MAX_WINNERS /\ AllPositive(w)
  BY <1>1, EscrowAssumption DEF WholePrize, AllPositive
<1>4. Total(AmountsOf(w)) = event[e].reward
  <2>1. CASE event[e].reward = 0
    <3>1. AmountsOf(w) \in [{} -> Nat]
      BY <2>1 DEF WholePrize, AmountsOf
    <3> QED
      BY <2>1, <3>1, FS_EmptySet, TotalZero
  <2>2. CASE event[e].reward # 0
    <3> DEFINE g == AmountsOf(w)
               z == [i \in {1} |-> 0]
    <3>1. g \in [{1} -> Nat] /\ g[1] = event[e].reward
      BY <1>1, <2>2 DEF WholePrize, AmountsOf
    <3>2. z \in [{1} -> Nat] /\ z[1] = 0
      OBVIOUS
    <3>3. IsFiniteSet({1})
      BY FS_Singleton
    <3> HIDE DEF g, z
    <3>4. Total(z) = 0
      BY <3>2, <3>3, TotalZero
    <3>5. Total(g) - Total(z) = g[1] - z[1]
      BY <3>1, <3>2, <3>3, TotalChange
    <3>6. Total(g) \in Nat
      BY <3>1, <3>3, TotalType
    <3> QED
      BY <1>1, <3>1, <3>2, <3>4, <3>5, <3>6 DEF g
  <2> QED
    BY <2>1, <2>2
<1> QED
  BY <1>2, <1>3, <1>4 DEF ValidWinners

\* The contract holds the prize of every live event.
LEMMA PrizeIsHeld ==
  ASSUME TypeOK, RefundsMatchWallet, Solvency,
         NEW e \in EventIds, event[e].state = "InProgress"
  PROVE  balance[event[e].token][Self] >= event[e].reward
<1>1. PICK t \in Tokens : t = event[e].token
  BY DEF RefundsMatchWallet
<1>2. FreeOf(t) \in [Organizers -> Nat] /\ ReservedOf(t) \in [EventIds -> Nat]
  BY OwedNat
<1>3. Total(FreeOf(t)) \in Nat /\ Total(ReservedOf(t)) \in Nat
  BY <1>2, FiniteAssumption, TotalType
<1>4. ReservedOf(t)[e] <= Total(ReservedOf(t))
  BY <1>2, FiniteAssumption, TotalEntry
<1>5. ReservedOf(t)[e] = event[e].reward
  BY <1>1 DEF ReservedOf, Reserved
<1>6. balance[t][Self] >= Total(FreeOf(t)) + Total(ReservedOf(t))
  BY <1>1 DEF Solvency, Liabilities
<1>7. event[e].reward \in Nat /\ balance[t][Self] \in Nat
  BY <1>1, AddressAssumption DEF TypeOK, Event
<1>8. balance[t][Self] >= event[e].reward
  BY <1>3, <1>4, <1>5, <1>6, <1>7
<1> QED
  BY <1>1, <1>8

\* Money in a live event is never stuck: once the judge's deadline has passed, and
\* unless the organizer is paused, nothing in resolve_dispute refuses the
\* resolver's call that pays the whole prize to an address of their choice.
THEOREM PrizeStaysPayable == MAX_WINNERS >= 1 => (Spec => []PrizeIsPayable)
<1> SUFFICES ASSUME MAX_WINNERS >= 1 PROVE Spec => []PrizeIsPayable
  OBVIOUS
<1>1. Init => LiveHasDeadline /\ HasResolver
  BY DEF Init, EscrowInit, NoEvent, LiveHasDeadline, HasResolver
<1>2. TypeOK /\ RefundsMatchWallet /\ Solvency /\ LiveHasDeadline /\ HasResolver
        => PrizeIsPayable
  <2> SUFFICES ASSUME TypeOK, RefundsMatchWallet, Solvency, LiveHasDeadline, HasResolver,
                      NEW e \in EventIds, event[e].state = "InProgress"
               PROVE  /\ event[e].judging_deadline # 0 /\ event[e].resolver \in Address
                      /\ \A x \in Address :
                           /\ WholePrize(e, x) \in Seq(Payment)
                           /\ ValidWinners(WholePrize(e, x), event[e].reward)
                           /\ balance[event[e].token][Self] >= Total(AmountsOf(WholePrize(e, x)))
    BY DEF PrizeIsPayable
  <2>1. balance[event[e].token][Self] >= event[e].reward
    BY PrizeIsHeld
  <2> QED
    BY <2>1, WholePrizeTotal DEF LiveHasDeadline, HasResolver
<1> QED
  BY <1>1, <1>2, StepDeadline, StepResolver, TypeCorrect, RefundsMatch, Solvent, PTL DEF Spec

----------------------------------------------------------------------------
(* The listing: DataKey::EventsCount and EventIndex name exactly the          *)
(* organizer's events, and the pages of get_events_by_admin_page are slices. *)

\* An id nobody created has no organizer.
AbsentUnowned ==
  \A e \in EventIds : event[e].state = "Absent" => event[e].admin = None

\* No event changes hands or disappears, and the listing stays.
OwnersKept ==
  /\ index' = index
  /\ \A e \in EventIds :
       /\ event'[e].admin = event[e].admin
       /\ event'[e].state = "Absent" => event[e].state = "Absent"

\* A fresh id is given to an organizer and listed last.
OwnerAdded(a, e) ==
  /\ event[e].state = "Absent"
  /\ index' = [index EXCEPT ![a] = Append(@, e)]
  /\ event'[e].admin = a
  /\ event'[e].state = "Created"
  /\ \A f \in EventIds \ {e} : event'[f] = event[f]

\* A step that only moves one event's state keeps owners.
LEMMA StateKeepsOwners ==
  ASSUME event \in [EventIds -> Event], NEW e \in EventIds, NEW s,
         event' = [event EXCEPT ![e].state = s], s # "Absent", index' = index
  PROVE  OwnersKept
BY StateOnly DEF OwnersKept

\* Every step keeps the owners, but create_event adds one.
LEMMA StepOwners ==
  ASSUME TypeOK, [Next]_vars
  PROVE  OwnersKept \/ \E a \in Organizers, e \in EventIds : OwnerAdded(a, e)
<1>1. ASSUME NEW a \in Organizers, OrganizerNext(a)
      PROVE  OwnersKept \/ \E e \in EventIds : OwnerAdded(a, e)
  <2>1. CASE event' = event /\ index' = index
    BY <2>1 DEF OwnersKept
  <2>2. ASSUME \/ \E t \in Tokens, n \in CallAmounts : deposit_funds(a, t, n)
               \/ \E n \in CallAmounts : withdraw_funds(a, n)
        PROVE  event' = event /\ index' = index
    BY <2>2 DEF deposit_funds, withdraw_funds
  <2>3. ASSUME NEW j \in Judges, NEW r \in Resolvers \cup {None}, NEW t \in Tokens,
               NEW n \in CallAmounts, NEW e \in EventIds, NEW d \in 0..MaxTime,
               create_event(a, j, r, t, n, e, d)
        PROVE  OwnerAdded(a, e)
    BY <2>3 DEF create_event, OwnerAdded, TypeOK
  <2>4. ASSUME NEW e \in EventIds, set_event_waiting_for_start(a, e)
        PROVE  OwnersKept
    BY <2>4, StateKeepsOwners DEF set_event_waiting_for_start, TypeOK
  <2>5. ASSUME NEW e \in EventIds, NEW jd \in 0..MaxTime,
               set_event_in_progress(a, e, jd)
        PROVE  OwnersKept
    <3>1. /\ event[e].state \in PreLaunch /\ index' = index
          /\ event' = [event EXCEPT ![e].state = "InProgress", ![e].judging_deadline = jd]
      BY <2>5 DEF set_event_in_progress
    <3>2. event'[e].admin = event[e].admin /\ event'[e].state = "InProgress"
      BY <3>1 DEF TypeOK, Event
    <3>3. ASSUME NEW f \in EventIds
          PROVE  event'[f].admin = event[f].admin /\ event'[f].state \in {"InProgress", event[f].state}
      BY <3>1, <3>2 DEF TypeOK
    <3> QED
      BY <3>1, <3>3 DEF OwnersKept
  <2>6. ASSUME NEW e \in EventIds, set_event_cancelled(a, e)
        PROVE  OwnersKept
    BY <2>6 DEF set_event_cancelled, OwnersKept, TypeOK, Event
  <2>7. ASSUME NEW e \in EventIds, NEW r \in Resolvers, NEW n \in CallAmounts,
               emergency_withdraw(a, r, e, n)
        PROVE  OwnersKept
    BY <2>7, ZenonT(40) DEF emergency_withdraw, OwnersKept, TypeOK, Event
  <2>8. ASSUME NEW e \in EventIds, NEW w \in PaymentLists,
               release_compensation(a, e, w)
        PROVE  OwnersKept
    BY <2>8, StateKeepsOwners DEF release_compensation, TypeOK
  <2> QED
    BY <1>1, <2>1, <2>2, <2>3, <2>4, <2>5, <2>6, <2>7, <2>8 DEF OrganizerNext
<1>2. CASE PayoutNext
  <2>1. PICK e \in EventIds, w \in PaymentLists : PayWinners(e, w)
    BY <1>2 DEF PayoutNext, release_reward, resolve_dispute
  <2> QED
    BY <2>1, StateKeepsOwners DEF PayWinners, TypeOK
<1>3. ASSUME NEW e \in EventIds, expire_event(e)
      PROVE  OwnersKept
  BY <1>3 DEF expire_event, OwnersKept, TypeOK, Event
<1>4. CASE event' = event /\ index' = index
  BY <1>4 DEF OwnersKept
<1> QED
  BY <1>1, <1>2, <1>3, <1>4
  DEF Next, Environment, Tick, DirectTransfer, Governance, vars, escrowVars

LEMMA IndexStep ==
  TypeOK /\ AbsentUnowned /\ IndexExact /\ [Next]_vars
    => AbsentUnowned' /\ IndexExact'
<1> SUFFICES ASSUME TypeOK, AbsentUnowned, IndexExact, [Next]_vars
             PROVE  AbsentUnowned' /\ IndexExact'
  OBVIOUS
<1>1. CASE OwnersKept
  BY <1>1 DEF OwnersKept, AbsentUnowned, IndexExact
<1>2. ASSUME NEW a \in Organizers, NEW e \in EventIds, OwnerAdded(a, e)
      PROVE  AbsentUnowned' /\ IndexExact'
  <2>1. AbsentUnowned'
    BY <1>2 DEF OwnerAdded, AbsentUnowned
  <2>2. \A b \in Organizers : event[e].admin # b
    BY <1>2, AddressAssumption DEF OwnerAdded, AbsentUnowned
  <2>3. ASSUME NEW b \in Organizers
        PROVE  /\ {index'[b][i] : i \in DOMAIN index'[b]} =
                    {f \in EventIds : event'[f].admin = b}
               /\ \A i, k \in DOMAIN index'[b] :
                    index'[b][i] = index'[b][k] => i = k
    <3> DEFINE list == index[b]
    <3>1. /\ list \in Seq(EventIds)
          /\ {list[i] : i \in DOMAIN list} = {f \in EventIds : event[f].admin = b}
          /\ \A i, k \in DOMAIN list : list[i] = list[k] => i = k
      BY DEF TypeOK, IndexExact
    <3>2. CASE b # a
      <4>1. index'[b] = list
        BY <1>2, <3>2 DEF OwnerAdded, TypeOK
      <4>2. {f \in EventIds : event'[f].admin = b} =
              {f \in EventIds : event[f].admin = b}
        BY <1>2, <2>2, <3>2 DEF OwnerAdded
      <4> QED
        BY <3>1, <4>1, <4>2
    <3>3. CASE b = a
      <4>1. index'[b] = Append(list, e)
        BY <1>2, <3>3 DEF OwnerAdded, TypeOK
      <4>2. {f \in EventIds : event'[f].admin = b} =
              {f \in EventIds : event[f].admin = b} \cup {e}
        BY <1>2, <3>3 DEF OwnerAdded
      <4>3. \A i \in DOMAIN list : list[i] # e
        BY <2>2, <3>1
      <4> DEFINE longer == Append(list, e)
      <4>4. /\ DOMAIN longer = DOMAIN list \cup {Len(list) + 1}
            /\ Len(list) + 1 \notin DOMAIN list
            /\ \A i \in DOMAIN list : longer[i] = list[i]
            /\ longer[Len(list) + 1] = e
        BY <3>1
      <4> HIDE DEF longer, list
      <4>5. {longer[i] : i \in DOMAIN longer} = {list[i] : i \in DOMAIN list} \cup {e}
        BY <4>4
      <4>6. \A i, k \in DOMAIN longer : longer[i] = longer[k] => i = k
        BY <3>1, <4>3, <4>4
      <4>7. index'[b] = longer
        BY <4>1 DEF longer
      <4>8. {index'[b][i] : i \in DOMAIN index'[b]} = {f \in EventIds : event'[f].admin = b}
        BY <3>1, <4>2, <4>5, <4>7
      <4>9. \A i, k \in DOMAIN index'[b] : index'[b][i] = index'[b][k] => i = k
        BY <4>6, <4>7
      <4> QED
        BY <4>8, <4>9
    <3> QED
      BY <3>2, <3>3
  <2> QED
    BY <2>1, <2>3 DEF IndexExact
<1> QED
  BY <1>1, <1>2, StepOwners

LEMMA InitIndex == Init => AbsentUnowned /\ IndexExact
<1> SUFFICES ASSUME Init PROVE AbsentUnowned /\ IndexExact
  OBVIOUS
<1>1. \A e \in EventIds : event[e].admin = None
  BY DEF Init, EscrowInit, NoEvent
<1>2. \A a \in Organizers : index[a] = <<>>
  BY DEF Init, EscrowInit
<1>3. \A a \in Organizers : {e \in EventIds : event[e].admin = a} = {}
  BY <1>1, AddressAssumption
<1> QED
  BY <1>1, <1>2, <1>3 DEF AbsentUnowned, IndexExact

\* Whatever organizers create, cancel and end in whatever order, the entries of
\* an organizer's listing are that organizer's events, each once.
THEOREM IndexIsExact == Spec => []IndexExact
<1>1. Init => TypeOK /\ AbsentUnowned /\ IndexExact
  BY InitType, InitIndex
<1>2. TypeOK /\ AbsentUnowned /\ IndexExact /\ [Next]_vars
        => (TypeOK /\ AbsentUnowned /\ IndexExact)'
  BY StepType, IndexStep
<1> QED
  BY <1>1, <1>2, PTL DEF Spec

\* What get_events_by_admin_page owes its caller.
SliceOf(list, offset, limit, page) ==
  /\ \A i \in DOMAIN list :
       i > offset /\ i <= offset + limit =>
         i - offset \in DOMAIN page /\ page[i - offset] = list[i]
  /\ Len(page) <= limit
  /\ offset + Len(page) <= Len(list) \/ page = <<>>

\* The page get_events_by_admin_page cuts is the slice asked for, also where
\* offset + limit saturates at the largest u32, as long as a count is a u32.
LEMMA PageCut ==
  ASSUME NEW list \in Seq(EventIds), Len(list) <= MAX_U32,
         NEW offset \in 0..MAX_U32, NEW limit \in 0..MAX_U32,
         NEW end \in Nat,
         end = IF SaturatingAdd(offset, limit) < Len(list)
               THEN SaturatingAdd(offset, limit) ELSE Len(list),
         NEW page, page = SubSeq(list, offset + 1, end)
  PROVE  SliceOf(list, offset, limit, page)
<1> USE DEF SliceOf
<1>1. end <= Len(list) /\ end <= offset + limit
  BY DEF SaturatingAdd
<1>2. CASE end <= offset
  <2>1. page = <<>>
    BY <1>2, SubSeqEmpty
  <2>2. \A i \in DOMAIN list : i <= offset + limit => i <= end
    BY DEF SaturatingAdd
  <2> QED
    BY <1>2, <2>1, <2>2
<1>3. CASE offset < end
  <2>1. \A i \in (offset + 1)..end : list[i] \in EventIds
    BY <1>1
  <2>2. /\ page \in Seq(EventIds)
        /\ Len(page) = end - offset
        /\ \A i \in 1..(end - offset) : page[i] = list[offset + i]
    <3>1. /\ page \in Seq(EventIds)
          /\ Len(page) = IF offset + 1 <= end THEN end - (offset + 1) + 1 ELSE 0
          /\ \A i \in 1..(end - (offset + 1) + 1) : page[i] = list[offset + 1 + i - 1]
      BY <2>1, SubSeqProperties
    <3> QED
      BY <1>3, <3>1
  <2>3. \A i \in DOMAIN list : i <= offset + limit => i <= end
    BY DEF SaturatingAdd
  <2>4. ASSUME NEW i \in DOMAIN list, i > offset, i <= offset + limit
        PROVE  i - offset \in DOMAIN page /\ page[i - offset] = list[i]
    <3>1. i \in Int /\ i - offset \in 1..(end - offset)
      BY <2>3, <2>4, SMTT(30)
    <3>2. i - offset \in 1..Len(page) /\ 1..Len(page) = DOMAIN page
      BY <2>2, <3>1
    <3>3. PICK j \in 1..(end - offset) : j = i - offset
      BY <3>1
    <3>4. page[j] = list[offset + j]
      BY <2>2, Zenon
    <3>5. offset + j = i
      BY <3>1, <3>3
    <3> QED
      BY <3>2, <3>3, <3>4, <3>5, Zenon
  <2> QED
    BY <1>1, <1>3, <2>2, <2>4, SMTT(30)
<1> QED
  BY <1>2, <1>3, SMTT(30)

\* An organizer has at most as many events as there are ids.
LEMMA IndexLength ==
  ASSUME TypeOK, IndexExact, NEW a \in Organizers
  PROVE  Len(index[a]) <= Cardinality(EventIds)
<1> DEFINE list == index[a]
<1>1. /\ list \in Seq(EventIds)
      /\ \A i, k \in DOMAIN list : list[i] = list[k] => i = k
  BY DEF TypeOK, IndexExact
<1> HIDE DEF list
<1>2. /\ list \in [1..Len(list) -> EventIds]
      /\ Len(list) \in Nat
  BY <1>1
<1>3. IsFiniteSet(1..Len(list)) /\ Cardinality(1..Len(list)) = Len(list)
  <2>1. PICK n \in Nat : n = Len(list)
    BY <1>2
  <2>2. IsFiniteSet(1..n) /\ Cardinality(1..n) = IF 1 > n THEN 0 ELSE n - 1 + 1
    BY FS_Interval
  <2> QED
    BY <2>1, <2>2
<1>4. Cardinality(EventIds) \in Nat
  BY FiniteAssumption, FS_CardinalityType
<1>5. ~(Cardinality(EventIds) < Len(list))
  BY <1>1, <1>2, <1>3, FiniteAssumption, FS_PigeonHole
<1> QED
  BY <1>2, <1>4, <1>5 DEF list

LEMMA PagesCut ==
  ASSUME TypeOK, IndexExact, Cardinality(EventIds) <= MAX_U32
  PROVE  PageIsSlice
<1> SUFFICES ASSUME NEW a \in Organizers,
                    NEW offset \in 0..MAX_U32, NEW limit \in 0..MAX_U32
             PROVE  LET page == get_events_by_admin_page(a, offset, limit)
                    IN  /\ \A i \in DOMAIN index[a] :
                             i > offset /\ i <= offset + limit =>
                               /\ i - offset \in DOMAIN page
                               /\ page[i - offset] = index[a][i]
                        /\ Len(page) <= limit
                        /\ offset + Len(page) <= Len(index[a]) \/ page = <<>>
  BY DEF PageIsSlice
<1>1. index[a] \in Seq(EventIds) /\ Len(index[a]) \in Nat
  BY DEF TypeOK
<1>2. Cardinality(EventIds) \in Nat
  BY FiniteAssumption, FS_CardinalityType
<1>3. Len(index[a]) <= MAX_U32
  BY <1>1, <1>2, IndexLength, EscrowAssumption
<1> DEFINE requested == SaturatingAdd(offset, limit)
           end == IF requested < Len(index[a]) THEN requested ELSE Len(index[a])
           page == get_events_by_admin_page(a, offset, limit)
<1>4. end \in Nat
  BY <1>1, EscrowAssumption DEF SaturatingAdd
<1>5. page = SubSeq(index[a], offset + 1, end)
  BY DEF get_events_by_admin_page
<1>6. end = IF SaturatingAdd(offset, limit) < Len(index[a])
            THEN SaturatingAdd(offset, limit) ELSE Len(index[a])
  OBVIOUS
<1> HIDE DEF requested, end, page
<1>7. SliceOf(index[a], offset, limit, page)
  BY <1>1, <1>3, <1>4, <1>5, <1>6, PageCut
<1> QED
  BY <1>7 DEF page, SliceOf

\* With no more events than a u32 counts, every page is the slice asked for:
\* saturating the sum of offset and limit never drops or repeats an event.
THEOREM PagesAreSlices ==
  ASSUME Cardinality(EventIds) <= MAX_U32
  PROVE  Spec => []PageIsSlice
<1>1. Init => TypeOK /\ AbsentUnowned /\ IndexExact
  BY InitType, InitIndex
<1>2. TypeOK /\ AbsentUnowned /\ IndexExact /\ [Next]_vars
        => (TypeOK /\ AbsentUnowned /\ IndexExact)'
  BY StepType, IndexStep
<1>3. TypeOK /\ IndexExact => PageIsSlice
  BY PagesCut
<1> QED
  BY <1>1, <1>2, <1>3, PTL DEF Spec

----------------------------------------------------------------------------
(* The pause: set_paused and set_admin_paused hold everything an organizer    *)
(* has in the contract, whoever calls what meanwhile.                        *)

\* What a pause allows to happen to organizer a's money and events.
Held(a) ==
  /\ wallet'[a].balance >= wallet[a].balance
  /\ \A e \in EventIds :
       event[e].admin = a =>
         \/ event'[e] = event[e]
         \/ /\ event[e].state \in PreLaunch
            /\ event'[e] = [event[e] EXCEPT !.state = "Cancelled"]

\* Another organizer's call does not touch a's wallet, nor any event but its
\* own or one that nobody has created.
LEMMA OthersCalls ==
  ASSUME TypeOK, AbsentUnowned, NEW a \in Organizers, NEW b \in Organizers,
         a # b, OrganizerNext(b)
  PROVE  /\ wallet'[a] = wallet[a]
         /\ \A f \in EventIds : event[f].admin = a => event'[f] = event[f]
<1>1. ASSUME \/ \E t \in Tokens, n \in CallAmounts : deposit_funds(b, t, n)
             \/ \E n \in CallAmounts : withdraw_funds(b, n)
      PROVE  wallet'[a] = wallet[a] /\ event' = event
  BY <1>1 DEF deposit_funds, withdraw_funds, TypeOK
<1>2. ASSUME NEW j \in Judges, NEW r \in Resolvers \cup {None}, NEW t \in Tokens,
             NEW n \in CallAmounts, NEW e \in EventIds, NEW d \in 0..MaxTime,
             create_event(b, j, r, t, n, e, d)
      PROVE  /\ wallet'[a] = wallet[a]
             /\ \A f \in EventIds : event[f].admin = a => event'[f] = event[f]
  <2>1. /\ wallet'[a] = wallet[a]
        /\ event[e].state = "Absent"
        /\ \A f \in EventIds \ {e} : event'[f] = event[f]
    BY <1>2 DEF create_event, TypeOK
  <2>2. event[e].admin # a
    BY <2>1, AddressAssumption DEF AbsentUnowned
  <2> QED
    BY <2>1, <2>2
<1>3. ASSUME NEW e \in EventIds,
             \/ set_event_waiting_for_start(b, e)
             \/ \E jd \in 0..MaxTime : set_event_in_progress(b, e, jd)
             \/ set_event_cancelled(b, e)
             \/ \E r \in Resolvers, n \in CallAmounts : emergency_withdraw(b, r, e, n)
             \/ \E w \in PaymentLists : release_compensation(b, e, w)
      PROVE  /\ wallet'[a] = wallet[a]
             /\ \A f \in EventIds : event[f].admin = a => event'[f] = event[f]
  <2>1. event[e].admin = b
    BY <1>3 DEF set_event_waiting_for_start, set_event_in_progress,
                set_event_cancelled, emergency_withdraw, release_compensation
  <2>2. \A f \in EventIds \ {e} : event'[f] = event[f]
    BY <1>3 DEF set_event_waiting_for_start, set_event_in_progress,
                set_event_cancelled, emergency_withdraw, release_compensation, TypeOK
  <2>3. wallet'[a] = wallet[a]
    BY <1>3 DEF set_event_waiting_for_start, set_event_in_progress, ChargeFee,
                set_event_cancelled, emergency_withdraw, release_compensation,
                RefundTo, TypeOK
  <2> QED
    BY <2>1, <2>2, <2>3
<1> QED
  BY <1>1, <1>2, <1>3 DEF OrganizerNext

\* A paused organizer's own calls are refused.
LEMMA PausedCalls ==
  ASSUME NEW a \in Organizers, ~NotPaused(a)
  PROVE  ~OrganizerNext(a)
BY ZenonT(40) DEF OrganizerNext, deposit_funds, withdraw_funds, create_event,
       set_event_waiting_for_start, set_event_in_progress, set_event_cancelled,
       emergency_withdraw, release_compensation

\* Anyone may expire a paused organizer's event; the prize comes to the wallet.
LEMMA ExpiryHeld ==
  ASSUME TypeOK, NEW a \in Organizers, NEW e \in EventIds, expire_event(e)
  PROVE  Held(a)
<1>1. wallet[a] \in AdminWallet /\ event[e] \in Event
  BY DEF TypeOK
<1>2. wallet[a].balance \in Nat /\ event[e].reward \in Nat
  BY <1>1 DEF AdminWallet, Event
<1>3. /\ event[e].state \in PreLaunch
      /\ event' = [event EXCEPT ![e].state = "Cancelled"]
      /\ wallet' = [wallet EXCEPT ![event[e].admin].balance = @ + event[e].reward]
  BY DEF expire_event, RefundTo
<1>4. /\ event'[e] = [event[e] EXCEPT !.state = "Cancelled"]
      /\ \A f \in EventIds \ {e} : event'[f] = event[f]
  BY <1>3, StateOnly DEF TypeOK
<1>5. wallet'[a].balance >= wallet[a].balance
  <2>1. CASE event[e].admin = a
    <3>1. wallet[a].balance + event[e].reward \in Nat
      BY <1>2
    <3>2. wallet' = [wallet EXCEPT ![a].balance = wallet[a].balance + event[e].reward]
      BY <1>3, <2>1
    <3>3. wallet'[a].balance = wallet[a].balance + event[e].reward
      BY <3>1, <3>2, SetBalance DEF TypeOK
    <3> QED
      BY <1>2, <3>3
  <2>2. CASE event[e].admin # a
    <3>1. wallet'[a] = wallet[a]
      BY <1>3, <2>2 DEF TypeOK
    <3> QED
      BY <1>2, <3>1
  <2> QED
    BY <2>1, <2>2
<1> QED
  BY <1>3, <1>4, <1>5 DEF Held

\* No step moves a paused organizer's money.
LEMMA StepHeld ==
  ASSUME TypeOK, AbsentUnowned, [Next]_vars, NEW a \in Organizers, ~NotPaused(a)
  PROVE  Held(a)
<1>1. wallet[a] \in AdminWallet
  BY DEF TypeOK
<1>2. wallet[a].balance \in Nat
  BY <1>1 DEF AdminWallet
<1>3. ASSUME wallet'[a] = wallet[a],
             \A f \in EventIds : event[f].admin = a => event'[f] = event[f]
      PROVE  Held(a)
  BY <1>2, <1>3 DEF Held
<1>4. ASSUME NEW b \in Organizers, OrganizerNext(b)
      PROVE  Held(a)
  BY <1>3, <1>4, OthersCalls, PausedCalls
<1>5. CASE PayoutNext
  <2>1. PICK e \in EventIds, w \in PaymentLists : PayWinners(e, w)
    BY <1>5 DEF PayoutNext, release_reward, resolve_dispute
  <2>2. /\ wallet' = wallet
        /\ \A f \in EventIds \ {e} : event'[f] = event[f]
        /\ NotPaused(event[e].admin)
    BY <2>1 DEF PayWinners, TypeOK
  <2>3. event[e].admin # a
    BY <2>2
  <2> QED
    BY <1>3, <2>2, <2>3
<1>6. CASE UNCHANGED <<wallet, event>>
  BY <1>3, <1>6
<1> QED
  BY <1>4, <1>5, <1>6, ExpiryHeld
  DEF Next, Environment, Tick, DirectTransfer, Governance, vars, escrowVars

\* While an organizer is paused, alone or with everybody, no call of anyone
\* lowers the free balance or moves an event, except that an unlaunched event
\* may expire back to the free balance.  The invariant says that an id nobody
\* created has no organizer: without it another organizer's create_event could
\* take one over.
THEOREM PauseHolds == Spec => PausedFundsStay
<1>1. Init => TypeOK /\ AbsentUnowned /\ IndexExact
  BY InitType, InitIndex
<1>2. TypeOK /\ AbsentUnowned /\ IndexExact /\ [Next]_vars
        => (TypeOK /\ AbsentUnowned /\ IndexExact)'
  BY StepType, IndexStep
<1>3. TypeOK /\ AbsentUnowned /\ [Next]_vars =>
        \A a \in Organizers :
          ~NotPaused(a) =>
            /\ wallet'[a].balance >= wallet[a].balance
            /\ \A e \in EventIds :
                 event[e].admin = a =>
                   \/ event'[e] = event[e]
                   \/ /\ event[e].state \in PreLaunch
                      /\ event'[e] = [event[e] EXCEPT !.state = "Cancelled"]
  BY StepHeld DEF Held
<1> QED
  BY <1>1, <1>2, <1>3, PTL DEF Spec, PausedFundsStay
=============================================================================
