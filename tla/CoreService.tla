---------------------------- MODULE CoreService ----------------------------
(***************************************************************************)
(* core-go's build/submit handlers for one event, against Postgres and the *)
(* Stellar network.                                                        *)
(*                                                                         *)
(* An operation (create_event, set_event_in_progress, release_reward) is   *)
(* built, signed by a wallet outside the service, and submitted.  Each has *)
(* one op_log row per event.  Requests run concurrently; every handler is  *)
(* cut where another request, the network or the contract can move: before *)
(* and after each RPC call and each database transaction.                  *)
(*                                                                         *)
(* Abstractions.  A host function is its operation, on-chain event id and  *)
(* winners (the winner list AllocateWinners computed); the judging         *)
(* deadline never changes after the event is stored, so it does not tell   *)
(* two builds apart.  The contract (EventEscrow) is seen as the state and  *)
(* the winners of each on-chain event.  A handler's read of the event row  *)
(* is taken together with the simulation (build) or the read of the op_log *)
(* row (submit): PendingMatchesStatus and the second check of the status   *)
(* inside Save*Build make the order of the two reads invisible.            *)
(***************************************************************************)
EXTENDS Naturals, FiniteSets

CONSTANTS
  Requests,    \* request goroutines
  EscrowIds,   \* random BytesN<16> ids NewEventID may return
  Winners,     \* allocations a judge may ask for
  MaxSeq,      \* bound on the transactions each account gets included
  None

Kinds == {"create", "start", "release"}
EventStatus == {"DRAFT", "CREATED", "LIVE", "JUDGING", "COMPLETED"}
Accounts == {"organizer", "judge"}

\* The event status each operation is built and submitted in.
Needs == [create |-> "DRAFT", start |-> "CREATED", release |-> "JUDGING"]

\* The wallet that signs and sources each operation.
Source(k) == IF k = "release" THEN "judge" ELSE "organizer"

HostFunction == [kind : Kinds, id : EscrowIds, winners : Winners \cup {None}]
Tx == [host : HostFunction, seq : 1..MaxSeq]
Payout == [winners : Winners, tx : Tx]
OpRow == [status : {"none", "PENDING", "SUCCEEDED", "FAILED"},
          host : HostFunction \cup {None}]

ASSUME ServiceAssumption ==
  /\ None \notin EscrowIds \cup Winners \cup Payout
  /\ MaxSeq \in Nat

VARIABLES
  status,     \* events.status
  escrowId,   \* events.escrowEventId
  op,         \* op_log row of each operation
  prizes,     \* prizes.status and winnerTeamId, all of an event's prizes
  payout,     \* payouts rows: the winners they name and the tx they cite
  req,        \* what each request is doing
  built,      \* transactions /build returned; a wallet may sign any of them
  seq,        \* sequence number of each source account on the ledger
  pool,       \* transactions the network accepted and has not included
  expired,    \* transactions whose time bounds have passed
  ledger,     \* included transactions and whether they succeeded
  chain       \* the contract's events

dbVars == <<status, escrowId, op, prizes, payout>>
netVars == <<seq, pool, expired, ledger, chain>>
vars == <<dbVars, req, built, netVars>>

Idle == [pc |-> "idle"]

\* A handler holds the host function until it has built a transaction.
RequestState ==
  {Idle} \cup [pc : {"sequence"}, host : HostFunction]
         \cup [pc : {"save", "send", "poll", "succeed", "fail"}, tx : Tx]

TypeOK ==
  /\ status \in EventStatus
  /\ escrowId \in EscrowIds \cup {None}
  /\ op \in [Kinds -> OpRow]
  /\ prizes \in [status : {"UNASSIGNED", "ASSIGNED", "RELEASED"},
                 winners : Winners \cup {None}]
  /\ payout \in Payout \cup {None}
  /\ req \in [Requests -> RequestState]
  /\ built \subseteq Tx
  /\ seq \in [Accounts -> 0..MaxSeq]
  /\ pool \subseteq Tx
  /\ expired \subseteq Tx
  /\ ledger \subseteq [tx : Tx, ok : BOOLEAN]
  /\ chain \in [EscrowIds ->
                  [state : {"Absent", "Created", "InProgress", "Ended", "Cancelled"},
                   winners : Winners \cup {None}]]

Init ==
  /\ status = "DRAFT"
  /\ escrowId = None
  /\ op = [k \in Kinds |-> [status |-> "none", host |-> None]]
  /\ prizes = [status |-> "UNASSIGNED", winners |-> None]
  /\ payout = None
  /\ req = [r \in Requests |-> Idle]
  /\ built = {}
  /\ seq = [a \in Accounts |-> 0]
  /\ pool = {}
  /\ expired = {}
  /\ ledger = {}
  /\ chain = [i \in EscrowIds |-> [state |-> "Absent", winners |-> None]]

-----------------------------------------------------------------------------
(* The contract, seen from here.                                           *)

\* Does the contract accept the call in its current state?
Accepts(h) ==
  chain[h.id].state =
    CASE h.kind = "create" -> "Absent"
      [] h.kind = "start" -> "Created"
      [] h.kind = "release" -> "InProgress"

create_event(h) == chain' = [chain EXCEPT ![h.id].state = "Created"]

set_event_in_progress(h) == chain' = [chain EXCEPT ![h.id].state = "InProgress"]

release_reward(h) ==
  chain' = [chain EXCEPT ![h.id] = [state |-> "Ended", winners |-> h.winners]]

Execute(h) ==
  \/ h.kind = "create" /\ create_event(h)
  \/ h.kind = "start" /\ set_event_in_progress(h)
  \/ h.kind = "release" /\ release_reward(h)

-----------------------------------------------------------------------------
(* /build                                                                  *)

\* An id is fresh when no earlier build drew it.
Fresh(i) ==
  /\ \A t \in built : t.host.id # i
  /\ \A r \in Requests :
       /\ req[r].pc = "sequence" => req[r].host.id # i
       /\ req[r].pc = "save" => req[r].tx.host.id # i

\* What each handler asks the contract to do: create_event with a fresh id, the
\* others on the event's stored id.
CreateCalls ==
  {[kind |-> "create", id |-> i, winners |-> None] : i \in {j \in EscrowIds : Fresh(j)}}

StartCalls == {[kind |-> "start", id |-> escrowId, winners |-> None]}

ReleaseCalls == {[kind |-> "release", id |-> escrowId, winners |-> w] : w \in Winners}

\* check*Preconditions: the event's status, and its on-chain id there or not.
Precondition(k) ==
  /\ status = Needs[k]
  /\ (escrowId = None) = (k = "create")

\* Preconditions and simulation: a failing simulation answers 502 and stores
\* nothing.
Simulate(r, k) ==
  /\ req[r] = Idle
  /\ Precondition(k)
  /\ \E h \in CreateCalls \cup StartCalls \cup ReleaseCalls :
       /\ h.kind = k
       /\ Accepts(h)
       /\ req' = [req EXCEPT ![r] = [pc |-> "sequence", host |-> h]]
  /\ UNCHANGED <<dbVars, built, netVars>>

\* BuildUnsigned reloads the account after simulating.
LoadSequence(r) ==
  /\ req[r].pc = "sequence"
  /\ LET h == req[r].host
         next == seq[Source(h.kind)] + 1
     IN  /\ next <= MaxSeq
         /\ req' = [req EXCEPT ![r] =
                      [pc |-> "save", tx |-> [host |-> h, seq |-> next]]]
  /\ UNCHANGED <<dbVars, built, netVars>>

\* Mutant: the event is not checked again.
MaySave_NoRecheck(k) ==
  /\ op[k].status # "SUCCEEDED"

\* Save*Build is one transaction.  It refuses a succeeded row and checks the
\* event again before it puts the build into the row.
MaySave(k) ==
  /\ op[k].status # "SUCCEEDED"
  /\ Precondition(k)

\* Mutant: neither the row nor the event is checked again.
SaveRow_NoRecheck(t) ==
  op' = [op EXCEPT ![t.host.kind] = [status |-> "PENDING", host |-> t.host]]

SaveRow(t) ==
  /\ MaySave(t.host.kind)
  /\ op' = [op EXCEPT ![t.host.kind] = [status |-> "PENDING", host |-> t.host]]

\* SaveCreateBuild and SaveStartBuild write nothing but the row.
SaveOrganizerBuild(t) ==
  /\ t.host.kind \in {"create", "start"}
  /\ SaveRow(t)
  /\ UNCHANGED prizes

\* A release build assigns the prizes as well.
SaveReleaseBuild(t) ==
  /\ t.host.kind = "release"
  /\ SaveRow(t)
  /\ prizes' = [status |-> "ASSIGNED", winners |-> t.host.winners]

SaveBuild(r) ==
  /\ req[r].pc = "save"
  /\ LET t == req[r].tx
     IN  \/ /\ SaveOrganizerBuild(t) \/ SaveReleaseBuild(t)
            /\ built' = built \cup {t}
         \/ ~MaySave(t.host.kind) /\ UNCHANGED <<op, prizes, built>>
  /\ req' = [req EXCEPT ![r] = Idle]
  /\ UNCHANGED <<status, escrowId, payout, netVars>>

-----------------------------------------------------------------------------
(* /submit                                                                 *)

\* verifySignedEnvelope: the signed transaction carries the host function of the
\* row as it is now.
EnvelopeMatches(t) == op[t.host.kind].host = t.host

\* Preconditions and Load*Op: only a PENDING row is submitted.
Submittable(k) == Precondition(k) /\ op[k].status = "PENDING"

Verify(r, t) ==
  /\ req[r] = Idle
  /\ Submittable(t.host.kind)
  /\ EnvelopeMatches(t)
  /\ req' = [req EXCEPT ![r] = [pc |-> "send", tx |-> t]]
  /\ UNCHANGED <<dbVars, built, netVars>>

\* stellar-core refuses a transaction whose sequence number has been used
\* (txBAD_SEQ), its own earlier inclusion included, or whose time is over.
Usable(t) == t.seq = seq[Source(t.host.kind)] + 1 /\ t \notin expired

Goto(r, pc) == req' = [req EXCEPT ![r].pc = pc]

\* sendTransaction: ERROR fails the operation; any other answer (PENDING,
\* DUPLICATE, or TRY_AGAIN_LATER with nothing accepted) goes on to poll.
Send(r) ==
  /\ req[r].pc = "send"
  /\ LET t == req[r].tx
     IN  \/ ~Usable(t) /\ Goto(r, "fail") /\ UNCHANGED pool
         \/ Usable(t) /\ pool' = pool \cup {t} /\ Goto(r, "poll")
         \/ Goto(r, "poll") /\ UNCHANGED pool
  /\ UNCHANGED <<dbVars, built, seq, expired, ledger, chain>>

\* Mutant: a timeout counts as confirmation.
Poll_TimeoutSucceeds(r) ==
  /\ req[r].pc = "poll"
  /\ LET t == req[r].tx
     IN  \/ [tx |-> t, ok |-> TRUE] \in ledger /\ Goto(r, "succeed")
         \/ [tx |-> t, ok |-> FALSE] \in ledger /\ Goto(r, "fail")
         \/ /\ \A l \in ledger : l.tx # t
            /\ Goto(r, "succeed")
  /\ UNCHANGED <<dbVars, built, netVars>>

\* getTransaction, last poll: the transaction's result, or a timeout that leaves
\* the row PENDING and answers 202.
Poll(r) ==
  /\ req[r].pc = "poll"
  /\ LET t == req[r].tx
     IN  \/ [tx |-> t, ok |-> TRUE] \in ledger /\ Goto(r, "succeed")
         \/ [tx |-> t, ok |-> FALSE] \in ledger /\ Goto(r, "fail")
         \/ /\ \A l \in ledger : l.tx # t
            /\ req' = [req EXCEPT ![r] = Idle]
  /\ UNCHANGED <<dbVars, built, netVars>>

\* Mark*Succeeded.  Create and start confirm the row only if it still holds the
\* build this request verified; release takes whatever build is in the row.
Confirms(t) ==
  LET row == op[t.host.kind]
  IN  /\ row.status = "PENDING"
      /\ CASE t.host.kind = "create" -> row.host.id = t.host.id /\ status = "DRAFT"
           [] t.host.kind = "start" -> row.host = t.host /\ status = "CREATED"
           [] t.host.kind = "release" -> TRUE

MarkCreateSucceeded(t) ==
  /\ status' = "CREATED"
  /\ escrowId' = t.host.id
  /\ UNCHANGED <<prizes, payout>>

MarkStartSucceeded(t) ==
  /\ status' = "LIVE"
  /\ UNCHANGED <<escrowId, prizes, payout>>

\* Mutant: payouts are written from the request's own winners.
MarkReleaseSucceeded_FromRequest(t) ==
  /\ prizes' = [prizes EXCEPT !.status = "RELEASED"]
  /\ payout' = [winners |-> t.host.winners, tx |-> t]
  /\ status' = "COMPLETED"
  /\ UNCHANGED escrowId

\* The payouts are written from the row's payload and cite the transaction.
MarkReleaseSucceeded(t) ==
  /\ prizes' = [prizes EXCEPT !.status = "RELEASED"]
  /\ payout' = [winners |-> op["release"].host.winners, tx |-> t]
  /\ status' = "COMPLETED"
  /\ UNCHANGED escrowId

MarkSucceeded(r) ==
  /\ req[r].pc = "succeed"
  /\ LET t == req[r].tx
         k == t.host.kind
     IN  \/ /\ Confirms(t)
            /\ op' = [op EXCEPT ![k].status = "SUCCEEDED"]
            /\ \/ k = "create" /\ MarkCreateSucceeded(t)
               \/ k = "start" /\ MarkStartSucceeded(t)
               \/ k = "release" /\ MarkReleaseSucceeded(t)
         \/ ~Confirms(t) /\ UNCHANGED dbVars
  /\ req' = [req EXCEPT ![r] = Idle]
  /\ UNCHANGED <<built, netVars>>

\* Mark*Failed updates the row whatever it holds.
MarkFailed(r) ==
  /\ req[r].pc = "fail"
  /\ op' = [op EXCEPT ![req[r].tx.host.kind].status = "FAILED"]
  /\ req' = [req EXCEPT ![r] = Idle]
  /\ UNCHANGED <<status, escrowId, prizes, payout, built, netVars>>

\* The request ends without another write: the process dies, an RPC call
\* errors, or the database aborts its transaction (500, row as it was).
Abandon(r) ==
  /\ req[r] # Idle
  /\ req' = [req EXCEPT ![r] = Idle]
  /\ UNCHANGED <<dbVars, built, netVars>>

-----------------------------------------------------------------------------
(* The web app, the network and the other users of the contract.           *)

\* Mutant: judging may open before go-live.
startJudging_Early ==
  /\ status \in {"CREATED", "LIVE"}
  /\ status' = "JUDGING"
  /\ UNCHANGED <<escrowId, op, prizes, payout, req, built, netVars>>

\* The organizer opens judging.
startJudging ==
  /\ status = "LIVE"
  /\ status' = "JUDGING"
  /\ UNCHANGED <<escrowId, op, prizes, payout, req, built, netVars>>

\* A ledger closes with t.  The call may fail for reasons not seen here (a
\* pause, a short balance, a closed trustline).
Include(t) ==
  /\ t \in pool
  /\ Usable(t)
  /\ seq' = [seq EXCEPT ![Source(t.host.kind)] = t.seq]
  /\ pool' = {u \in pool : \/ Source(u.host.kind) # Source(t.host.kind)
                           \/ u.seq # t.seq}
  /\ \/ /\ Accepts(t.host)
        /\ Execute(t.host)
        /\ ledger' = ledger \cup {[tx |-> t, ok |-> TRUE]}
     \/ /\ ledger' = ledger \cup {[tx |-> t, ok |-> FALSE]}
        /\ UNCHANGED chain
  /\ UNCHANGED <<dbVars, req, built, expired>>

\* A transaction outlives the time bounds buildTx gave it.
Expire(t) ==
  /\ Usable(t)
  /\ expired' = expired \cup {t}
  /\ pool' = pool \ {t}
  /\ UNCHANGED <<dbVars, req, built, seq, ledger, chain>>

\* resolve_dispute, set_event_cancelled and expire_event, called past core-go.
CallDirectly(i) ==
  /\ \/ /\ chain[i].state = "InProgress"
        /\ \E w \in Winners :
             chain' = [chain EXCEPT ![i] = [state |-> "Ended", winners |-> w]]
     \/ /\ chain[i].state = "Created"
        /\ chain' = [chain EXCEPT ![i].state = "Cancelled"]
  /\ UNCHANGED <<dbVars, req, built, seq, pool, expired, ledger>>

\* A request that has started runs on by itself.
Continue(r) ==
  \/ LoadSequence(r)
  \/ SaveBuild(r)
  \/ Send(r)
  \/ Poll(r)
  \/ MarkSucceeded(r)
  \/ MarkFailed(r)

Handler(r) ==
  \/ \E k \in Kinds : Simulate(r, k)
  \/ \E t \in built : Verify(r, t)
  \/ Continue(r)
  \/ Abandon(r)

Next ==
  \/ \E r \in Requests : Handler(r)
  \/ startJudging
  \/ \E t \in pool : Include(t)
  \/ \E t \in built : Expire(t)
  \/ \E i \in EscrowIds : CallDirectly(i)

Spec == Init /\ [][Next]_vars

\* Goroutines are scheduled and ledgers close; nobody has to call or to retry.
Fairness ==
  /\ \A r \in Requests : WF_vars(Continue(r))
  /\ WF_vars(\E t \in pool : Include(t))

FairSpec == Spec /\ Fairness

-----------------------------------------------------------------------------
(* What holds whatever the interleaving.                                   *)

\* A PENDING row only exists while the event is in the status its operation
\* needs: a build saved late never reopens an operation whose event moved on.
PendingMatchesStatus ==
  \A k \in Kinds :
    op[k].status = "PENDING" =>
      status = Needs[k] /\ (escrowId = None) = (k = "create")

\* The on-chain id stored for an event is one that create_event really created,
\* also when a rebuild with a fresh id replaced the row while an earlier
\* transaction was in flight.
RecordedEventExists ==
  escrowId # None => chain[escrowId].state # "Absent"

\* LIVE is never shown before the contract has locked the prize.
LiveIsOnChain ==
  status \in {"LIVE", "JUDGING", "COMPLETED"} =>
    chain[escrowId].state \in {"InProgress", "Ended"}

\* Payout rows exist only for a release of this event that the ledger confirmed,
\* and agree with the prizes shown as released.
PayoutsConfirmed ==
  payout # None =>
    /\ [tx |-> payout.tx, ok |-> TRUE] \in ledger
    /\ payout.tx.host.id = escrowId
    /\ chain[escrowId].state = "Ended"
    /\ prizes = [status |-> "RELEASED", winners |-> payout.winners]

\* What becomes of an event's prize, in the contract's own terms.
Phase(st) ==
  CASE st = "Absent" -> "none"
    [] st = "Created" -> "reserved"
    [] st = "InProgress" -> "live"
    [] st = "Ended" -> "paid"
    [] st = "Cancelled" -> "returned"

Mirror == INSTANCE EventMirror WITH
  EventIds <- EscrowIds,
  phase <- [i \in EscrowIds |-> Phase(chain[i].state)],
  released <- IF prizes.status = "RELEASED" THEN prizes.winners ELSE None,
  payouts <- IF payout = None THEN None ELSE payout.winners

\* Whatever requests, ledgers and retries do, the database's record of the event
\* moves as EventMirror allows: one stage at a time, never ahead of the
\* contract, and not at all once its prizes are released.
FollowsContract == Mirror!Spec

-----------------------------------------------------------------------------
(* What the repository's documents say and the code does not keep.         *)

\* The payout rows name the winners the contract paid: "No money-related state
\* is marked final without an on-chain confirmation."
PayoutsNamePaidWinners ==
  payout # None => payout.winners = chain[escrowId].winners

\* A FAILED release never entered the ledger or failed there.
FailedReleaseNotPaid ==
  op["release"].status = "FAILED" =>
    \A l \in ledger : l.tx.host = op["release"].host => ~l.ok

\* "Partial failures (tx confirmed, DB write failed) are healed by
\* reconciliation": a release the ledger confirmed ends up COMPLETED.
PaidIsMirrored ==
  (\E l \in ledger : l.tx.host.kind = "release" /\ l.ok) ~> (status = "COMPLETED")
=============================================================================
