---------------------------- MODULE EventEscrow ----------------------------
(***************************************************************************)
(* The event-escrow contract: wallet.rs, lifecycle.rs and rewards.rs on    *)
(* top of the governance state.                                            *)
(*                                                                         *)
(* One action per entry point.  A panicking call reverts, so every         *)
(* assertion, `expect` and failing token transfer is a guard.  The ledger  *)
(* serialises calls: the interleavings of organizers, judges, resolvers,   *)
(* governors and bystanders are the interleavings of these actions.        *)
(*                                                                         *)
(* Abstractions.  An Option<u64> deadline is a natural number with 0 for   *)
(* None: the code only stores deadlines later than the ledger's time.  A   *)
(* storage key that is absent is a record with the token None (wallets) or *)
(* the state "Absent" (events).  `Winner.place` is dropped: the contract   *)
(* never reads it.  Amounts do not overflow i128: the build panics on      *)
(* overflow, and no balance exceeds a token's supply.                      *)
(***************************************************************************)
EXTENDS EscrowGovernance, Amounts, Sequences

CONSTANTS
  Judges,           \* addresses that may be named judge
  EventIds,         \* the BytesN<16> identifiers in play
  CallAmounts,      \* the i128 amounts callers pass
  PaymentLists,     \* the winner / participant lists callers pass
  MAX_U32,          \* largest u32, 2^32 - 1 in the code
  MAX_WINNERS,      \* longest winner list of one release, 25 in the code
  Supply,           \* what each organizer owns of each token at the start
  MaxTime           \* bound on the ledger's time

Payment == [address : Address, amount : Int]

ASSUME EscrowAssumption ==
  /\ Judges \subseteq Address
  /\ None \notin EventIds
  /\ CallAmounts \subseteq Int
  /\ PaymentLists \subseteq Seq(Payment)
  /\ MAX_U32 \in Nat
  /\ MAX_WINNERS \in Nat
  /\ Supply \in Nat
  /\ MaxTime \in Nat

\* Finitely many organizers and event ids ever appear.
ASSUME FiniteAssumption ==
  IsFiniteSet(Organizers) /\ IsFiniteSet(EventIds)

VARIABLES
  wallet,   \* DataKey::Wallet(admin): token and free balance
  event,    \* DataKey::Event(id)
  index,    \* DataKey::EventsCount and EventIndex: an admin's ids in order
  balance,  \* the token contracts' balances of every address
  now       \* env.ledger().timestamp()

escrowVars == <<wallet, event, index, balance, now>>
vars == <<govVars, escrowVars>>

PreLaunch == {"Created", "WaitingForStart"}
Reserved == PreLaunch \cup {"InProgress"}
Terminal == {"Ended", "Cancelled", "Compensated"}
EventState == Reserved \cup Terminal \cup {"Absent"}

AdminWallet == [token : Tokens \cup {None}, balance : Nat]
Event == [admin : Organizers \cup {None}, judge : Address \cup {None},
          token : Tokens \cup {None}, resolver : Address \cup {None},
          reward : Nat, state : EventState,
          deadline : Nat, judging_deadline : Nat]

NoWallet == [token |-> None, balance |-> 0]
NoEvent == [admin |-> None, judge |-> None, token |-> None, resolver |-> None,
            reward |-> 0, state |-> "Absent",
            deadline |-> 0, judging_deadline |-> 0]

TypeOK ==
  /\ GovTypeOK
  /\ wallet \in [Organizers -> AdminWallet]
  /\ event \in [EventIds -> Event]
  /\ index \in [Organizers -> Seq(EventIds)]
  /\ balance \in [Tokens -> [Address -> Nat]]
  /\ now \in Nat

EscrowInit ==
  /\ wallet = [a \in Organizers |-> NoWallet]
  /\ event = [e \in EventIds |-> NoEvent]
  /\ index = [a \in Organizers |-> <<>>]
  /\ balance = [t \in Tokens |-> [x \in Address |->
                                    IF x \in Organizers THEN Supply ELSE 0]]
  /\ now = 0

Init == GovInit /\ EscrowInit

-----------------------------------------------------------------------------
(* The token contract (external) and the lists of payments.                *)

\* TokenClient::transfer; it fails unless the sender owns n.
Transfer(t, from, to, n) ==
  /\ balance[t][from] >= n
  /\ balance' = [balance EXCEPT ![t] = [x \in Address |->
                   @[x] - (IF x = from THEN n ELSE 0)
                        + (IF x = to THEN n ELSE 0)]]

AmountsOf(w) == [i \in DOMAIN w |-> w[i].amount]
AmountsTo(w, x) ==
  [i \in DOMAIN w |-> IF w[i].address = x THEN w[i].amount ELSE 0]

AllPositive(w) == \A i \in DOMAIN w : w[i].amount > 0

\* The loop of transfers out of the contract, one per payment.  A payment may
\* name any address, the contract's own included.
TransferAll(t, w) ==
  /\ balance[t][Self] >= Total(AmountsOf(w))
  /\ balance' = [balance EXCEPT ![t] = [x \in Address |->
                   @[x] - (IF x = Self THEN Total(AmountsOf(w)) ELSE 0)
                        + Total(AmountsTo(w, x))]]

\* Mutant: an empty winner list is refused.
ValidWinners_NonEmpty(w, reward) ==
  /\ Len(w) \in 1..MAX_WINNERS
  /\ AllPositive(w)
  /\ Total(AmountsOf(w)) = reward

\* validate_and_sum_winners
ValidWinners(w, reward) ==
  /\ Len(w) <= MAX_WINNERS
  /\ AllPositive(w)
  /\ Total(AmountsOf(w)) = reward

-----------------------------------------------------------------------------
(* wallet.rs                                                               *)

HasWallet(a) == wallet[a].token # None

get_balance(a) == IF HasWallet(a) THEN wallet[a].balance ELSE 0

\* Mutant: an empty wallet may change its token.
deposit_funds_SwitchesToken(a, t, n) ==
  /\ NotPaused(a)
  /\ TokenAllowed(t)
  /\ n > 0
  /\ wallet[a].token \in {None, t} \/ wallet[a].balance = 0
  /\ Transfer(t, a, Self, n)
  /\ wallet' = [wallet EXCEPT ![a] =
                  [token |-> t, balance |-> get_balance(a) + n]]
  /\ UNCHANGED <<govVars, event, index, now>>

\* The first deposit fixes the wallet's token for good.
deposit_funds(a, t, n) ==
  /\ NotPaused(a)
  /\ TokenAllowed(t)
  /\ n > 0
  /\ wallet[a].token \in {None, t}
  /\ Transfer(t, a, Self, n)
  /\ wallet' = [wallet EXCEPT ![a] =
                  [token |-> t, balance |-> get_balance(a) + n]]
  /\ UNCHANGED <<govVars, event, index, now>>

\* Mutant: the free balance is not checked.
withdraw_funds_Overdrawn(a, n) ==
  /\ NotPaused(a)
  /\ n > 0
  /\ HasWallet(a)
  /\ wallet' = [wallet EXCEPT ![a].balance = @ - n]
  /\ Transfer(wallet[a].token, Self, a, n)
  /\ UNCHANGED <<govVars, event, index, now>>

withdraw_funds(a, n) ==
  /\ NotPaused(a)
  /\ n > 0
  /\ HasWallet(a)
  /\ wallet[a].balance >= n
  /\ wallet' = [wallet EXCEPT ![a].balance = @ - n]
  /\ Transfer(wallet[a].token, Self, a, n)
  /\ UNCHANGED <<govVars, event, index, now>>

-----------------------------------------------------------------------------
(* lifecycle.rs                                                            *)

\* The resolver an event gets: the named one, or Astrea's default.
ResolverFor(r) == IF r = None THEN defaultResolver ELSE r

\* Mutant: an id in use is not refused.
create_event_Overwrites(a, j, r, t, n, e, d) ==
  /\ NotPaused(a)
  /\ TokenAllowed(t)
  /\ n > 0
  /\ d # 0 => d > now
  /\ HasWallet(a)
  /\ wallet[a].token = t
  /\ wallet[a].balance >= n
  /\ ResolverFor(r) # None
  /\ wallet' = [wallet EXCEPT ![a].balance = @ - n]
  /\ event' = [event EXCEPT ![e] =
                 [admin |-> a, judge |-> j, token |-> t,
                  resolver |-> ResolverFor(r), reward |-> n,
                  state |-> "Created", deadline |-> d,
                  judging_deadline |-> 0]]
  /\ index' = [index EXCEPT ![a] = Append(@, e)]
  /\ UNCHANGED <<govVars, balance, now>>

\* create_event (d = 0) and create_event_with_deadline (d > 0).
create_event(a, j, r, t, n, e, d) ==
  /\ NotPaused(a)
  /\ TokenAllowed(t)
  /\ n > 0
  /\ d # 0 => d > now
  /\ event[e].state = "Absent"
  /\ HasWallet(a)
  /\ wallet[a].token = t
  /\ wallet[a].balance >= n
  /\ ResolverFor(r) # None
  /\ wallet' = [wallet EXCEPT ![a].balance = @ - n]
  /\ event' = [event EXCEPT ![e] =
                 [admin |-> a, judge |-> j, token |-> t,
                  resolver |-> ResolverFor(r), reward |-> n,
                  state |-> "Created", deadline |-> d,
                  judging_deadline |-> 0]]
  /\ index' = [index EXCEPT ![a] = Append(@, e)]
  /\ UNCHANGED <<govVars, balance, now>>

\* Give a reserved prize back to its organizer's free balance.
RefundTo(a, n) ==
  /\ HasWallet(a)
  /\ wallet' = [wallet EXCEPT ![a].balance = @ + n]

\* Anyone may expire an unlaunched event whose deadline has passed; this is
\* the one entry point that moves money and is not behind the pause.
expire_event(e) ==
  /\ event[e].state \in PreLaunch
  /\ event[e].deadline # 0
  /\ now >= event[e].deadline
  /\ event' = [event EXCEPT ![e].state = "Cancelled"]
  /\ RefundTo(event[e].admin, event[e].reward)
  /\ UNCHANGED <<govVars, index, balance, now>>

set_event_waiting_for_start(a, e) ==
  /\ NotPaused(a)
  /\ event[e].admin = a
  /\ event[e].state = "Created"
  /\ event' = [event EXCEPT ![e].state = "WaitingForStart"]
  /\ UNCHANGED <<govVars, wallet, index, balance, now>>

\* The go-live fee comes out of the free balance, never out of the prize; a
\* positive fee with no treasury configured fails.
ChargeFee(a, t, fee) ==
  \/ fee <= 0 /\ UNCHANGED <<wallet, balance>>
  \/ /\ fee > 0
     /\ treasury # None
     /\ HasWallet(a)
     /\ wallet[a].balance >= fee
     /\ wallet' = [wallet EXCEPT ![a].balance = @ - fee]
     /\ Transfer(t, Self, treasury, fee)

set_event_in_progress(a, e, jd) ==
  /\ NotPaused(a)
  /\ event[e].admin = a
  /\ event[e].state \in PreLaunch
  /\ jd > now
  /\ ChargeFee(a, event[e].token, GoLiveFee(event[e].reward))
  /\ event' = [event EXCEPT ![e].state = "InProgress",
                            ![e].judging_deadline = jd]
  /\ UNCHANGED <<govVars, index, now>>

\* Mutant: a live event may be cancelled.
set_event_cancelled_Live(a, e) ==
  /\ NotPaused(a)
  /\ event[e].admin = a
  /\ event[e].state \in Reserved
  /\ event' = [event EXCEPT ![e].state = "Cancelled"]
  /\ RefundTo(a, event[e].reward)
  /\ UNCHANGED <<govVars, index, balance, now>>

\* Mutant: the prize is not given back.
set_event_cancelled_NoRefund(a, e) ==
  /\ NotPaused(a)
  /\ event[e].admin = a
  /\ event[e].state \in PreLaunch
  /\ event' = [event EXCEPT ![e].state = "Cancelled"]
  /\ UNCHANGED <<govVars, wallet, index, balance, now>>

set_event_cancelled(a, e) ==
  /\ NotPaused(a)
  /\ event[e].admin = a
  /\ event[e].state \in PreLaunch
  /\ event' = [event EXCEPT ![e].state = "Cancelled"]
  /\ RefundTo(a, event[e].reward)
  /\ UNCHANGED <<govVars, index, balance, now>>

\* Signed by the organizer and by the event's resolver.  The event stays as it
\* is, with a smaller prize.
emergency_withdraw(a, r, e, n) ==
  /\ NotPaused(a)
  /\ n > 0
  /\ event[e].admin = a
  /\ event[e].resolver = r
  /\ event[e].state \in PreLaunch
  /\ n <= event[e].reward
  /\ event' = [event EXCEPT ![e].reward = @ - n]
  /\ RefundTo(a, n)
  /\ UNCHANGED <<govVars, index, balance, now>>

\* Mutant: u32 addition wraps.
SaturatingAdd_Wraps(x, y) == (x + y) % (MAX_U32 + 1)

SaturatingAdd(x, y) == IF x + y > MAX_U32 THEN MAX_U32 ELSE x + y

\* The entries from offset up to offset + limit, clamped to the stored count.
get_events_by_admin_page(a, offset, limit) ==
  LET count == Len(index[a])
      requested == SaturatingAdd(offset, limit)
      end == IF requested < count THEN requested ELSE count
  IN  SubSeq(index[a], offset + 1, end)

-----------------------------------------------------------------------------
(* rewards.rs                                                              *)

\* Mutant: any finished event may be compensated.
release_compensation_AnyEnd(a, e, w) ==
  /\ NotPaused(a)
  /\ event[e].admin = a
  /\ event[e].state \in Terminal
  /\ w # <<>>
  /\ AllPositive(w)
  /\ HasWallet(a)
  /\ wallet[a].balance >= Total(AmountsOf(w))
  /\ wallet' = [wallet EXCEPT ![a].balance = @ - Total(AmountsOf(w))]
  /\ TransferAll(wallet[a].token, w)
  /\ event' = [event EXCEPT ![e].state = "Compensated"]
  /\ UNCHANGED <<govVars, index, now>>

\* Pay participants of a cancelled event out of the free balance.
release_compensation(a, e, w) ==
  /\ NotPaused(a)
  /\ event[e].admin = a
  /\ event[e].state = "Cancelled"
  /\ w # <<>>
  /\ AllPositive(w)
  /\ HasWallet(a)
  /\ wallet[a].balance >= Total(AmountsOf(w))
  /\ wallet' = [wallet EXCEPT ![a].balance = @ - Total(AmountsOf(w))]
  /\ TransferAll(wallet[a].token, w)
  /\ event' = [event EXCEPT ![e].state = "Compensated"]
  /\ UNCHANGED <<govVars, index, now>>

\* Mutant: the event is not ended.
PayWinners_KeepsState(e, w) ==
  /\ NotPaused(event[e].admin)
  /\ ValidWinners(w, event[e].reward)
  /\ TransferAll(event[e].token, w)
  /\ UNCHANGED <<govVars, event, wallet, index, now>>

\* Mutant: the pause is not checked.
PayWinners_WhilePaused(e, w) ==
  /\ ValidWinners(w, event[e].reward)
  /\ event' = [event EXCEPT ![e].state = "Ended"]
  /\ TransferAll(event[e].token, w)
  /\ UNCHANGED <<govVars, wallet, index, now>>

\* The end of both ways a live event pays out.
PayWinners(e, w) ==
  /\ NotPaused(event[e].admin)
  /\ ValidWinners(w, event[e].reward)
  /\ event' = [event EXCEPT ![e].state = "Ended"]
  /\ TransferAll(event[e].token, w)
  /\ UNCHANGED <<govVars, wallet, index, now>>

release_reward(j, e, w) ==
  /\ event[e].judge = j
  /\ event[e].state = "InProgress"
  /\ PayWinners(e, w)

resolve_dispute(r, e, w) ==
  /\ event[e].resolver = r
  /\ event[e].state = "InProgress"
  /\ event[e].judging_deadline # 0
  /\ now >= event[e].judging_deadline
  /\ PayWinners(e, w)

-----------------------------------------------------------------------------
(* The environment: ledger time, and tokens sent to the contract without   *)
(* calling it.                                                             *)

Tick ==
  /\ now < MaxTime
  /\ now' = now + 1
  /\ UNCHANGED <<govVars, wallet, event, index, balance>>

DirectTransfer(a, t, n) ==
  /\ n > 0
  /\ Transfer(t, a, Self, n)
  /\ UNCHANGED <<govVars, wallet, event, index, now>>

-----------------------------------------------------------------------------
Governance == GovNext /\ UNCHANGED escrowVars

OrganizerNext(a) ==
  \/ \E t \in Tokens, n \in CallAmounts : deposit_funds(a, t, n)
  \/ \E n \in CallAmounts : withdraw_funds(a, n)
  \/ \E j \in Judges, r \in Resolvers \cup {None}, t \in Tokens,
        n \in CallAmounts, e \in EventIds, d \in 0..MaxTime :
       create_event(a, j, r, t, n, e, d)
  \/ \E e \in EventIds :
       \/ set_event_waiting_for_start(a, e)
       \/ \E jd \in 0..MaxTime : set_event_in_progress(a, e, jd)
       \/ set_event_cancelled(a, e)
       \/ \E r \in Resolvers, n \in CallAmounts : emergency_withdraw(a, r, e, n)
       \/ \E w \in PaymentLists : release_compensation(a, e, w)

PayoutNext ==
  \E e \in EventIds, w \in PaymentLists :
    \/ \E j \in Judges : release_reward(j, e, w)
    \/ \E r \in Resolvers : resolve_dispute(r, e, w)

Environment ==
  \/ \E e \in EventIds : expire_event(e)
  \/ \E a \in Organizers, t \in Tokens, n \in CallAmounts : DirectTransfer(a, t, n)
  \/ Tick

Next ==
  \/ Governance
  \/ \E a \in Organizers : OrganizerNext(a)
  \/ PayoutNext
  \/ Environment

Spec == Init /\ [][Next]_vars

-----------------------------------------------------------------------------
(* What the contract owes, per token.                                      *)

FreeOf(t) ==
  [a \in Organizers |-> IF wallet[a].token = t THEN wallet[a].balance ELSE 0]

ReservedOf(t) ==
  [e \in EventIds |-> IF event[e].token = t /\ event[e].state \in Reserved
                      THEN event[e].reward ELSE 0]

Liabilities(t) == Total(FreeOf(t)) + Total(ReservedOf(t))

\* The contract always holds enough of every token to pay all free balances and
\* all prizes still reserved at once: no order of deposits, refunds, fees,
\* releases and compensations (which reserve, release and refund the same
\* stored `reward`) pays one unit twice, or in another token than it came in.
Solvency == \A t \in Tokens : balance[t][Self] >= Liabilities(t)

\* The prize of every unfinished event is in the token of its organizer's
\* wallet, so the refunds of set_event_cancelled, expire_event and
\* emergency_withdraw, which credit that wallet without looking at tokens,
\* credit what was reserved and never hit "Admin has no wallet registered".
RefundsMatchWallet ==
  \A e \in EventIds :
    event[e].state # "Absent" => /\ event[e].admin \in Organizers
                                /\ event[e].token \in Tokens
                                /\ wallet[event[e].admin].token = event[e].token

\* A live event is never stuck: once its judging deadline has passed and unless
\* its organizer is paused, resolve_dispute succeeds for its resolver with some
\* list of winners, whatever happened before (emergency withdrawals included).
LiveEventHasExit ==
  \A e \in EventIds :
    /\ event[e].state = "InProgress"
    /\ now >= event[e].judging_deadline
    /\ NotPaused(event[e].admin)
    => ENABLED (\E w \in PaymentLists : resolve_dispute(event[e].resolver, e, w))

\* EventIndex(admin, 0 .. EventsCount-1) lists exactly the admin's events, each
\* once: two organizers creating in any order never share or lose an entry.
IndexExact ==
  \A a \in Organizers :
    /\ {index[a][i] : i \in DOMAIN index[a]} =
         {e \in EventIds : event[e].admin = a}
    /\ \A i, k \in DOMAIN index[a] : index[a][i] = index[a][k] => i = k

\* A page is the slice of the listing that was asked for, also when
\* offset + limit does not fit a u32: a caller walking the pages sees every
\* event once.
PageIsSlice ==
  \A a \in Organizers, offset, limit \in 0..MAX_U32 :
    LET page == get_events_by_admin_page(a, offset, limit)
    IN  /\ \A i \in DOMAIN index[a] :
             i > offset /\ i <= offset + limit =>
               /\ i - offset \in DOMAIN page
               /\ page[i - offset] = index[a][i]
        /\ Len(page) <= limit
        /\ offset + Len(page) <= Len(index[a]) \/ page = <<>>

\* Once an event is live, no step changes its prize, judge, resolver or judging
\* deadline, and the only step that moves it ends it and leaves every free
\* balance alone: an organizer never gets live money back (ADR-006).
LiveFundsLocked ==
  [][\A e \in EventIds :
       event[e].state = "InProgress" =>
         \/ event'[e] = event[e]
         \/ /\ event'[e] = [event[e] EXCEPT !.state = "Ended"]
            /\ wallet' = wallet]_vars

\* A finished event stays finished: Ended and Compensated never change, and a
\* cancelled event can only be compensated, once.
FinishedStaysFinished ==
  [][\A e \in EventIds :
       event[e].state \in Terminal =>
         \/ event'[e] = event[e]
         \/ /\ event[e].state = "Cancelled"
            /\ event'[e] = [event[e] EXCEPT !.state = "Compensated"]]_vars

\* While an organizer is paused, alone or with everybody, nothing of theirs
\* leaves: the free balance does not fall and no event of theirs moves, except
\* that anyone may still expire an unlaunched event back to the free balance.
PausedFundsStay ==
  [][\A a \in Organizers :
       ~NotPaused(a) =>
         /\ wallet'[a].balance >= wallet[a].balance
         /\ \A e \in EventIds :
              event[e].admin = a =>
                \/ event'[e] = event[e]
                \/ /\ event[e].state \in PreLaunch
                   /\ event'[e] = [event[e] EXCEPT !.state = "Cancelled"]]_vars

-----------------------------------------------------------------------------
(* The contract implements PrizeEscrow.                                    *)

Phase(st) ==
  CASE st = "Absent" -> "none"
    [] st \in PreLaunch -> "reserved"
    [] st = "InProgress" -> "live"
    [] st = "Ended" -> "paid"
    [] OTHER -> "returned"

Promise == INSTANCE PrizeEscrow WITH
  free <- [a \in Organizers |-> wallet[a].balance],
  owner <- [e \in EventIds |-> event[e].admin],
  prize <- [e \in EventIds |-> IF event[e].state \in Reserved
                               THEN event[e].reward ELSE 0],
  phase <- [e \in EventIds |-> Phase(event[e].state)]

\* Every behaviour of the contract, seen as free money, prizes and phases, is
\* one PrizeEscrow allows.
KeepsPromise == Promise!Spec
=============================================================================
