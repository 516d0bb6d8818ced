------------------------- MODULE CoreServiceProofs -------------------------
(***************************************************************************)
(* Proofs about core-go's build/submit handlers for any number of          *)
(* concurrent requests, on-chain ids and allocations.                      *)
(***************************************************************************)
EXTENDS CoreService, TLAPS

USE ServiceAssumption

\* The call acts on the stored event, and a release names winners.
Belongs(h) ==
  /\ h.kind # "create" => h.id = escrowId
  /\ h.kind = "release" => h.winners \in Winners

\* Every call a handler holds, or a wallet may sign, belongs to the event.
CallsBelong ==
  /\ \A r \in Requests :
       IF req[r].pc = "sequence" THEN Belongs(req[r].host)
       ELSE req[r].pc # "idle" => Belongs(req[r].tx.host)
  /\ \A t \in built : Belongs(t.host)

\* A PENDING row holds a call of its own kind, and a release row the winners
\* the prizes are assigned to.
RowsBelong ==
  /\ \A k \in Kinds :
       op[k].status = "PENDING" =>
         op[k].host \in HostFunction /\ op[k].host.kind = k /\ Belongs(op[k].host)
  /\ op["release"].status = "PENDING" =>
       prizes.winners = op["release"].host.winners

\* What a call the ledger confirmed left behind on chain, for good.
EffectsLast ==
  \A l \in ledger :
    l.ok =>
      LET s == chain[l.tx.host.id].state
      IN  /\ s # "Absent"
          /\ l.tx.host.kind = "start" => s \in {"InProgress", "Ended"}
          /\ l.tx.host.kind = "release" => s = "Ended"

\* A request marks an operation as succeeded only after the ledger confirmed it.
SuccessIsConfirmed ==
  \A r \in Requests :
    req[r].pc = "succeed" => [tx |-> req[r].tx, ok |-> TRUE] \in ledger

\* An event that went live has its on-chain id, one that paid or shows released
\* prizes is completed.
StatusBacked ==
  /\ status \in {"LIVE", "JUDGING", "COMPLETED"} => escrowId \in EscrowIds
  /\ payout # None => status = "COMPLETED"
  /\ prizes.status = "RELEASED" => status = "COMPLETED"

\* The inductive invariant.
Inv ==
  /\ TypeOK
  /\ CallsBelong
  /\ RowsBelong
  /\ EffectsLast
  /\ SuccessIsConfirmed
  /\ StatusBacked
  /\ PendingMatchesStatus
  /\ RecordedEventExists
  /\ LiveIsOnChain
  /\ PayoutsConfirmed

\* What each stage of a request carries.
LEMMA RequestCarries ==
  ASSUME NEW q \in RequestState
  PROVE  /\ q.pc = "sequence" => q.host \in HostFunction
         /\ q.pc \in {"save", "send", "poll", "succeed", "fail"} => q.tx \in Tx
         /\ q.pc # "idle" /\ q.pc # "sequence" =>
              q \in [pc : {"save", "send", "poll", "succeed", "fail"}, tx : Tx]
         /\ q.pc = "idle" <=> q = Idle
<1>1. CASE q = Idle
  BY <1>1 DEF Idle
<1>2. CASE q \in [pc : {"sequence"}, host : HostFunction]
  BY <1>2 DEF Idle
<1>3. CASE q \in [pc : {"save", "send", "poll", "succeed", "fail"}, tx : Tx]
  BY <1>3 DEF Idle
<1> QED
  BY <1>1, <1>2, <1>3 DEF RequestState

\* A transaction is a call and a sequence number.
LEMMA TxParts ==
  ASSUME NEW t \in Tx
  PROVE  /\ t.host \in HostFunction
         /\ t.host.kind \in Kinds
         /\ t.host.id \in EscrowIds
         /\ t.seq \in 1..MaxSeq
BY DEF Tx, HostFunction

LEMMA InitInv == Init => Inv
<1> SUFFICES ASSUME Init PROVE Inv
  OBVIOUS
<1>1. TypeOK
  BY DEF Init, TypeOK, EventStatus, OpRow, RequestState, Accounts
<1>2. CallsBelong
  BY DEF Init, CallsBelong, Idle
<1>3. SuccessIsConfirmed
  BY DEF Init, SuccessIsConfirmed, Idle
<1>4. RowsBelong /\ EffectsLast /\ StatusBacked /\ PendingMatchesStatus
  BY DEF Init, RowsBelong, EffectsLast, StatusBacked, PendingMatchesStatus, Kinds
<1> QED
  BY <1>1, <1>2, <1>3, <1>4 DEF Init, Inv, RecordedEventExists, LiveIsOnChain,
     PayoutsConfirmed

\* A step that only moves request r, and offers transactions to the network, keeps the invariant when the request's new
\* state is backed.
LEMMA RequestStep ==
  ASSUME Inv, NEW r \in Requests, NEW q \in RequestState,
         req' = [req EXCEPT ![r] = q],
         IF q.pc = "sequence" THEN Belongs(q.host)
         ELSE q.pc # "idle" => Belongs(q.tx.host),
         q.pc = "succeed" => [tx |-> q.tx, ok |-> TRUE] \in ledger,
         UNCHANGED <<dbVars, built, seq, expired, ledger, chain>>,
         pool' \subseteq Tx
  PROVE  Inv'
<1>1. TypeOK'
  BY DEF Inv, TypeOK, dbVars
<1>2. CallsBelong'
  BY DEF Inv, TypeOK, CallsBelong, Belongs, dbVars
<1>3. SuccessIsConfirmed'
  BY DEF Inv, TypeOK, SuccessIsConfirmed
<1> QED
  BY <1>1, <1>2, <1>3 DEF Inv, RowsBelong, Belongs, EffectsLast,
     StatusBacked, PendingMatchesStatus, RecordedEventExists, LiveIsOnChain,
     PayoutsConfirmed, dbVars

\* A request may always give up.
LEMMA IdleStep ==
  ASSUME Inv, NEW r \in Requests, req' = [req EXCEPT ![r] = Idle],
         UNCHANGED <<dbVars, built, netVars>>
  PROVE  Inv'
<1>1. Idle \in RequestState /\ Idle.pc = "idle"
  BY DEF Idle, RequestState
<1>2. pool' \subseteq Tx /\ UNCHANGED <<seq, expired, ledger, chain>>
  BY DEF netVars, Inv, TypeOK
<1> QED
  BY <1>1, <1>2, RequestStep

\* A verified transaction carries its request from one stage to the next.
LEMMA GotoStep ==
  ASSUME Inv, NEW r \in Requests, NEW pc \in {"poll", "succeed", "fail"},
         req[r].pc \in {"send", "poll"}, Goto(r, pc),
         pc = "succeed" => [tx |-> req[r].tx, ok |-> TRUE] \in ledger,
         UNCHANGED <<dbVars, built, seq, expired, ledger, chain>>,
         pool' \subseteq Tx
  PROVE  Inv'
<1>1. req[r] \in [pc : {"save", "send", "poll", "succeed", "fail"}, tx : Tx]
  BY RequestCarries DEF Inv, TypeOK
<1> DEFINE q == [pc |-> pc, tx |-> req[r].tx]
<1>2. req' = [req EXCEPT ![r] = q]
  <2>1. req[r] = [pc |-> req[r].pc, tx |-> req[r].tx]
    BY <1>1
  <2>2. [req[r] EXCEPT !.pc = pc] = q
    BY <2>1
  <2> QED
    BY <2>2 DEF Goto, Inv, TypeOK
<1>3. q \in RequestState
  BY <1>1 DEF RequestState
<1>4. Belongs(q.tx.host)
  BY DEF Inv, CallsBelong
<1> HIDE DEF q
<1>5. q.pc = pc /\ q.tx = req[r].tx
  BY DEF q
<1> QED
  BY <1>2, <1>3, <1>4, <1>5, RequestStep

LEMMA SimulateInv ==
  ASSUME Inv, NEW r \in Requests, NEW k \in Kinds, Simulate(r, k)
  PROVE  Inv'
<1>1. PICK h \in CreateCalls \cup StartCalls \cup ReleaseCalls :
        /\ h.kind = k
        /\ req' = [req EXCEPT ![r] = [pc |-> "sequence", host |-> h]]
  BY DEF Simulate
<1>2. h \in HostFunction /\ Belongs(h)
  <2>1. escrowId \in EscrowIds \/ k = "create"
    BY DEF Simulate, Precondition, Inv, TypeOK
  <2>2. CASE h \in CreateCalls
    BY <2>2 DEF CreateCalls, HostFunction, Kinds, Belongs
  <2>3. CASE h \in StartCalls
    BY <1>1, <2>1, <2>3 DEF StartCalls, HostFunction, Kinds, Belongs
  <2>4. CASE h \in ReleaseCalls
    BY <1>1, <2>1, <2>4 DEF ReleaseCalls, HostFunction, Kinds, Belongs
  <2> QED
    BY <2>2, <2>3, <2>4
<1> DEFINE q == [pc |-> "sequence", host |-> h]
<1>3. q \in RequestState /\ q.pc = "sequence" /\ q.host = h
  BY <1>2 DEF RequestState
<1>4. /\ UNCHANGED <<dbVars, built, seq, expired, ledger, chain>>
      /\ pool' \subseteq Tx
  BY DEF Simulate, netVars, Inv, TypeOK
<1> HIDE DEF q
<1>5. req' = [req EXCEPT ![r] = q]
  BY <1>1 DEF q
<1> QED
  BY <1>2, <1>3, <1>4, <1>5, RequestStep

LEMMA LoadSequenceInv ==
  ASSUME Inv, NEW r \in Requests, LoadSequence(r)
  PROVE  Inv'
<1> DEFINE h == req[r].host
           next == seq[Source(h.kind)] + 1
           q == [pc |-> "save", tx |-> [host |-> h, seq |-> next]]
<1>1. h \in HostFunction /\ Belongs(h)
  BY RequestCarries DEF LoadSequence, Inv, TypeOK, CallsBelong
<1>2. next \in 1..MaxSeq /\ req' = [req EXCEPT ![r] = q]
  BY <1>1 DEF LoadSequence, Inv, TypeOK, Source, Accounts
<1>3. q \in RequestState /\ q.pc = "save" /\ q.tx.host = h
  BY <1>1, <1>2 DEF RequestState, Tx
<1>4. /\ UNCHANGED <<dbVars, built, seq, expired, ledger, chain>>
      /\ pool' \subseteq Tx
  BY DEF LoadSequence, netVars, Inv, TypeOK
<1> HIDE DEF q
<1> QED
  BY <1>1, <1>2, <1>3, <1>4, RequestStep

LEMMA VerifyInv ==
  ASSUME Inv, NEW r \in Requests, NEW t \in built, Verify(r, t)
  PROVE  Inv'
<1> DEFINE q == [pc |-> "send", tx |-> t]
<1>1. q \in RequestState /\ q.pc = "send" /\ q.tx = t
  BY DEF RequestState, Inv, TypeOK
<1>2. Belongs(t.host)
  BY DEF Inv, CallsBelong
<1>3. /\ req' = [req EXCEPT ![r] = q]
      /\ UNCHANGED <<dbVars, built, seq, expired, ledger, chain>>
      /\ pool' \subseteq Tx
  BY DEF Verify, netVars, Inv, TypeOK
<1> HIDE DEF q
<1> QED
  BY <1>1, <1>2, <1>3, RequestStep

LEMMA PollInv ==
  ASSUME Inv, NEW r \in Requests, Poll(r)
  PROVE  Inv'
<1>1. /\ req[r].pc = "poll"
      /\ UNCHANGED <<dbVars, built, seq, expired, ledger, chain>>
      /\ pool' \subseteq Tx
  BY DEF Poll, netVars, Inv, TypeOK
<1>2. CASE [tx |-> req[r].tx, ok |-> TRUE] \in ledger /\ Goto(r, "succeed")
  BY <1>1, <1>2, GotoStep
<1>3. CASE Goto(r, "fail")
  BY <1>1, <1>3, GotoStep
<1>4. CASE req' = [req EXCEPT ![r] = Idle]
  BY <1>4, IdleStep DEF Poll
<1> QED
  BY <1>2, <1>3, <1>4 DEF Poll

LEMMA AbandonInv ==
  ASSUME Inv, NEW r \in Requests, Abandon(r)
  PROVE  Inv'
BY IdleStep DEF Abandon

LEMMA SendInv ==
  ASSUME Inv, NEW r \in Requests, Send(r)
  PROVE  Inv'
<1> DEFINE t == req[r].tx
<1>1. /\ req[r].pc = "send"
      /\ UNCHANGED <<dbVars, built, seq, expired, ledger, chain>>
      /\ \/ pool' = pool \cup {t}
         \/ UNCHANGED pool
      /\ Goto(r, "poll") \/ Goto(r, "fail")
  BY DEF Send
<1>2. pool' \subseteq Tx
  BY <1>1, RequestCarries DEF Inv, TypeOK
<1> QED
  BY <1>1, <1>2, GotoStep

\* Saving a build puts a call into its row while the event is in the row's
\* status; only release builds touch the prizes, and no payout exists then.
LEMMA SaveBuildInv ==
  ASSUME Inv, NEW r \in Requests, SaveBuild(r)
  PROVE  Inv'
<1> DEFINE t == req[r].tx
           k == t.host.kind
<1>1. t \in Tx /\ Belongs(t.host)
  BY RequestCarries DEF SaveBuild, Inv, TypeOK, CallsBelong
<1>2. CASE UNCHANGED <<op, prizes, built>>
  BY <1>2, IdleStep DEF SaveBuild, dbVars
<1>3. CASE SaveOrganizerBuild(t) \/ SaveReleaseBuild(t)
  <2>1. /\ op' = [op EXCEPT ![k] = [status |-> "PENDING", host |-> t.host]]
        /\ MaySave(k)
        /\ \/ k # "release" /\ UNCHANGED prizes
           \/ /\ k = "release"
              /\ prizes' = [status |-> "ASSIGNED", winners |-> t.host.winners]
    BY <1>3 DEF SaveOrganizerBuild, SaveReleaseBuild, SaveRow
  <2>2. /\ req' = [req EXCEPT ![r] = Idle]
        /\ built' \subseteq built \cup {t}
        /\ UNCHANGED <<status, escrowId, payout, netVars>>
    BY DEF SaveBuild
  <2>3. k \in Kinds /\ t.host \in HostFunction
    BY <1>1, TxParts
  <2>4. status = Needs[k] /\ (escrowId = None) = (k = "create")
    BY <2>1 DEF MaySave, Precondition
  <2>5. TypeOK'
    <3>1. op' \in [Kinds -> OpRow]
      BY <2>1, <2>3 DEF Inv, TypeOK, OpRow
    <3>2. req' \in [Requests -> RequestState]
      BY <2>2 DEF Inv, TypeOK, RequestState
    <3>3. prizes' \in [status : {"UNASSIGNED", "ASSIGNED", "RELEASED"},
                       winners : Winners \cup {None}]
      BY <2>1, <2>3 DEF Inv, TypeOK, HostFunction
    <3>4. built' \subseteq Tx
      BY <1>1, <2>2 DEF Inv, TypeOK
    <3> QED
      BY <2>2, <3>1, <3>2, <3>3, <3>4 DEF Inv, TypeOK, netVars
  <2>6. CallsBelong'
    BY <1>1, <2>2 DEF Inv, TypeOK, CallsBelong, Belongs, Idle
  <2>7. RowsBelong'
    <3>1. \A l \in Kinds :
            op'[l] = IF l = k THEN [status |-> "PENDING", host |-> t.host] ELSE op[l]
      BY <2>1, <2>3 DEF Inv, TypeOK
    <3>2. \A l \in Kinds : op'[l].status = "PENDING" =>
            op'[l].host \in HostFunction /\ op'[l].host.kind = l /\ Belongs(op'[l].host)
      BY <1>1, <2>3, <3>1 DEF Inv, RowsBelong
    <3>3. \A l \in Kinds : Belongs(op'[l].host) => Belongs(op[l].host)'
      BY <2>2 DEF Belongs
    <3>4. op'["release"].status = "PENDING" => prizes'.winners = op'["release"].host.winners
      BY <2>1, <2>3, <3>1 DEF Inv, RowsBelong, Kinds
    <3> QED
      BY <3>2, <3>3, <3>4 DEF RowsBelong
  <2>8. SuccessIsConfirmed'
    BY <2>2 DEF Inv, TypeOK, SuccessIsConfirmed, Idle, netVars
  <2>9. PendingMatchesStatus'
    BY <2>1, <2>2, <2>3, <2>4 DEF Inv, TypeOK, PendingMatchesStatus
  <2>10. PayoutsConfirmed'
    <3>1. k = "release" => payout = None
      BY <2>4 DEF Inv, StatusBacked, Needs
    <3> QED
      BY <2>1, <2>2, <3>1 DEF Inv, PayoutsConfirmed, netVars
  <2>11. StatusBacked'
    BY <2>1, <2>2 DEF Inv, StatusBacked
  <2> QED
    BY <2>2, <2>5, <2>6, <2>7, <2>8, <2>9, <2>10, <2>11 DEF Inv, EffectsLast,
       RecordedEventExists, LiveIsOnChain, netVars
<1> QED
  BY <1>2, <1>3 DEF SaveBuild

\* A failure only changes the status of a row.
LEMMA MarkFailedInv ==
  ASSUME Inv, NEW r \in Requests, MarkFailed(r)
  PROVE  Inv'
<1> DEFINE k == req[r].tx.host.kind
<1>1. k \in Kinds
  BY RequestCarries, TxParts DEF MarkFailed, Inv, TypeOK
<1>2. /\ op' = [op EXCEPT ![k].status = "FAILED"]
      /\ req' = [req EXCEPT ![r] = Idle]
      /\ UNCHANGED <<status, escrowId, prizes, payout, built, netVars>>
  BY DEF MarkFailed
<1>3. TypeOK'
  <2>1. op' \in [Kinds -> OpRow]
    BY <1>1, <1>2 DEF Inv, TypeOK, OpRow
  <2>2. req' \in [Requests -> RequestState]
    BY <1>2 DEF Inv, TypeOK, RequestState
  <2> QED
    BY <1>2, <2>1, <2>2 DEF Inv, TypeOK, netVars
<1>4. CallsBelong'
  BY <1>2 DEF Inv, TypeOK, CallsBelong, Belongs, Idle
<1>5. \A j \in Kinds : op'[j].status = "PENDING" => op'[j] = op[j]
  BY <1>1, <1>2 DEF Inv, TypeOK, OpRow
<1>6. RowsBelong'
  BY <1>2, <1>5 DEF Inv, RowsBelong, Belongs, Kinds
<1>7. SuccessIsConfirmed'
  BY <1>2 DEF Inv, TypeOK, SuccessIsConfirmed, Idle, netVars
<1>8. PendingMatchesStatus'
  BY <1>2, <1>5 DEF Inv, PendingMatchesStatus
<1> QED
  BY <1>2, <1>3, <1>4, <1>6, <1>7, <1>8 DEF Inv, EffectsLast, StatusBacked,
     RecordedEventExists, LiveIsOnChain, PayoutsConfirmed, netVars

\* No row is PENDING while the event is LIVE.
LEMMA StartJudgingInv == Inv /\ startJudging => Inv'
<1> SUFFICES ASSUME Inv, startJudging PROVE Inv'
  OBVIOUS
<1>1. /\ status = "LIVE" /\ status' = "JUDGING"
      /\ UNCHANGED <<escrowId, op, prizes, payout, req, built, netVars>>
  BY DEF startJudging
<1>2. \A k \in Kinds : op[k].status # "PENDING"
  BY <1>1 DEF Inv, PendingMatchesStatus, Needs, Kinds
<1>3. payout = None /\ escrowId \in EscrowIds
  BY <1>1 DEF Inv, StatusBacked
<1>4. TypeOK'
  BY <1>1 DEF Inv, TypeOK, EventStatus, netVars
<1>5. CallsBelong' /\ RowsBelong' /\ PendingMatchesStatus'
  BY <1>1, <1>2 DEF Inv, CallsBelong, RowsBelong, Belongs, PendingMatchesStatus,
     Kinds
<1>6. LiveIsOnChain'
  BY <1>1 DEF Inv, LiveIsOnChain, netVars
<1> QED
  BY <1>1, <1>3, <1>4, <1>5, <1>6 DEF Inv, EffectsLast, SuccessIsConfirmed,
     StatusBacked, RecordedEventExists, PayoutsConfirmed, netVars

\* Which rows are PENDING after a request confirmed operation k.
LEMMA ConfirmedRow ==
  ASSUME Inv, NEW r \in Requests, req[r].pc = "succeed",
         Confirms(req[r].tx),
         op' = [op EXCEPT ![req[r].tx.host.kind].status = "SUCCEEDED"]
  PROVE  LET t == req[r].tx
             k == t.host.kind
         IN  /\ k \in Kinds
             /\ t \in Tx
             /\ Belongs(t.host)
             /\ [tx |-> t, ok |-> TRUE] \in ledger
             /\ op[k].status = "PENDING"
             /\ status = Needs[k]
             /\ (escrowId = None) = (k = "create")
             /\ op' \in [Kinds -> OpRow]
             /\ \A j \in Kinds : op'[j].status # "PENDING"
<1> DEFINE t == req[r].tx
           k == t.host.kind
<1>1. t \in Tx /\ k \in Kinds
  BY RequestCarries, TxParts DEF Inv, TypeOK
<1>2. op[k].status = "PENDING"
  BY DEF Confirms
<1>3. status = Needs[k] /\ (escrowId = None) = (k = "create")
  BY <1>1, <1>2 DEF Inv, PendingMatchesStatus
<1>4. op' \in [Kinds -> OpRow]
  BY <1>1 DEF Inv, TypeOK, OpRow
<1>5. \A j \in Kinds : op[j].status = "PENDING" => j = k
  BY <1>1, <1>3 DEF Inv, PendingMatchesStatus, Needs, Kinds
<1>6. \A j \in Kinds : op'[j].status # "PENDING"
  BY <1>1, <1>5 DEF Inv, TypeOK, OpRow
<1> QED
  BY <1>1, <1>2, <1>3, <1>4, <1>6 DEF Inv, CallsBelong, SuccessIsConfirmed

LEMMA MarkSucceededInv ==
  ASSUME Inv, NEW r \in Requests, MarkSucceeded(r)
  PROVE  Inv'
<1> DEFINE t == req[r].tx
           k == t.host.kind
<1>1. /\ req[r].pc = "succeed"
      /\ req' = [req EXCEPT ![r] = Idle]
      /\ UNCHANGED <<built, netVars>>
  BY DEF MarkSucceeded
<1>2. CASE UNCHANGED dbVars
  BY <1>1, <1>2, IdleStep
<1>3. CASE /\ Confirms(t)
           /\ op' = [op EXCEPT ![k].status = "SUCCEEDED"]
           /\ \/ k = "create" /\ MarkCreateSucceeded(t)
              \/ k = "start" /\ MarkStartSucceeded(t)
              \/ k = "release" /\ MarkReleaseSucceeded(t)
  <2>1. /\ t \in Tx
        /\ Belongs(t.host)
        /\ [tx |-> t, ok |-> TRUE] \in ledger
        /\ op[k].status = "PENDING"
        /\ status = Needs[k]
        /\ (escrowId = None) = (k = "create")
        /\ op' \in [Kinds -> OpRow]
        /\ \A j \in Kinds : op'[j].status # "PENDING"
    BY <1>1, <1>3, ConfirmedRow
  <2>2. t.host \in HostFunction /\ t.host.id \in EscrowIds
    BY <2>1, TxParts
  <2>3. req' \in [Requests -> RequestState]
    BY <1>1 DEF Inv, TypeOK, RequestState
  <2>4. RowsBelong' /\ PendingMatchesStatus'
    BY <2>1 DEF RowsBelong, PendingMatchesStatus, Kinds
  <2>5. SuccessIsConfirmed'
    BY <1>1 DEF Inv, TypeOK, SuccessIsConfirmed, Idle, netVars
  <2>6. EffectsLast'
    BY <1>1 DEF Inv, EffectsLast, netVars
  <2>7. LET s == chain[t.host.id].state
        IN  /\ s # "Absent"
            /\ k = "start" => s \in {"InProgress", "Ended"}
            /\ k = "release" => s = "Ended"
    BY <2>1 DEF Inv, EffectsLast
  <2>8. CASE k = "create" /\ MarkCreateSucceeded(t)
    <3>1. /\ status = "DRAFT" /\ status' = "CREATED"
          /\ escrowId = None /\ escrowId' = t.host.id
          /\ UNCHANGED <<prizes, payout>>
      BY <2>1, <2>8 DEF MarkCreateSucceeded, Needs
    <3>2. TypeOK'
      BY <1>1, <2>1, <2>2, <2>3, <3>1 DEF Inv, TypeOK, EventStatus, netVars
    <3>3. payout = None
      BY <3>1 DEF Inv, StatusBacked
    <3>4. \A h \in HostFunction : Belongs(h) => Belongs(h)'
      BY <3>1 DEF Belongs, HostFunction
    <3>5. CallsBelong'
      <4>1. \A q \in Requests :
              IF req[q].pc = "sequence" THEN req[q].host \in HostFunction
              ELSE req[q].pc # "idle" => req[q].tx.host \in HostFunction
        BY RequestCarries, TxParts DEF Inv, TypeOK
      <4>2. \A u \in built : u.host \in HostFunction
        BY TxParts DEF Inv, TypeOK
      <4> QED
        BY <1>1, <3>4, <4>1, <4>2 DEF Inv, TypeOK, CallsBelong, Idle
    <3> QED
      BY <1>1, <2>3, <2>4, <2>5, <2>6, <2>7, <3>1, <3>2, <3>3, <3>5
         DEF Inv, StatusBacked, RecordedEventExists, LiveIsOnChain,
             PayoutsConfirmed, netVars
  <2>9. CASE k = "start" /\ MarkStartSucceeded(t)
    <3>1. /\ status = "CREATED" /\ status' = "LIVE"
          /\ escrowId # None /\ escrowId = t.host.id
          /\ UNCHANGED <<escrowId, prizes, payout>>
      BY <2>1, <2>9 DEF MarkStartSucceeded, Needs, Belongs
    <3>2. TypeOK'
      BY <1>1, <2>1, <2>3, <3>1 DEF Inv, TypeOK, EventStatus, netVars
    <3>3. payout = None
      BY <3>1 DEF Inv, StatusBacked
    <3>4. CallsBelong'
      BY <1>1, <3>1 DEF Inv, TypeOK, CallsBelong, Belongs, Idle
    <3> QED
      BY <1>1, <2>2, <2>3, <2>4, <2>5, <2>6, <2>7, <2>9, <3>1, <3>2, <3>3, <3>4
         DEF Inv, StatusBacked, RecordedEventExists, LiveIsOnChain,
             PayoutsConfirmed, netVars
  <2>10. CASE k = "release" /\ MarkReleaseSucceeded(t)
    <3>1. /\ status' = "COMPLETED"
          /\ escrowId # None /\ escrowId = t.host.id
          /\ prizes' = [prizes EXCEPT !.status = "RELEASED"]
          /\ payout' = [winners |-> op["release"].host.winners, tx |-> t]
          /\ UNCHANGED escrowId
      BY <2>1, <2>10 DEF MarkReleaseSucceeded, Belongs
    <3>2. /\ op["release"].host.winners \in Winners
          /\ prizes.winners = op["release"].host.winners
      BY <2>1, <2>10 DEF Inv, RowsBelong, Belongs, Kinds
    <3>3. TypeOK'
      BY <1>1, <2>1, <2>3, <3>1, <3>2 DEF Inv, TypeOK, EventStatus, Payout, netVars
    <3>4. CallsBelong'
      BY <1>1, <3>1 DEF Inv, TypeOK, CallsBelong, Belongs, Idle
    <3>5. PayoutsConfirmed'
      BY <1>1, <2>1, <2>7, <2>10, <3>1, <3>2 DEF Inv, TypeOK, PayoutsConfirmed,
         netVars
    <3> QED
      BY <1>1, <2>2, <2>3, <2>4, <2>5, <2>6, <2>7, <2>10, <3>1, <3>3, <3>4, <3>5
         DEF Inv, StatusBacked, RecordedEventExists, LiveIsOnChain, netVars
  <2> QED
    BY <1>3, <2>8, <2>9, <2>10
<1> QED
  BY <1>2, <1>3 DEF MarkSucceeded

\* A step of the network or of another caller keeps the invariant when no
\* on-chain event is undone, and every newly confirmed call had its effect.
LEMMA ChainStep ==
  ASSUME Inv, TypeOK', UNCHANGED <<dbVars, req, built>>,
         ledger \subseteq ledger',
         \A i \in EscrowIds :
           /\ chain[i].state # "Absent" => chain'[i].state # "Absent"
           /\ chain[i].state \in {"InProgress", "Ended"} =>
                chain'[i].state \in {"InProgress", "Ended"}
           /\ chain[i].state = "Ended" => chain'[i].state = "Ended",
         \A l \in ledger' \ ledger : l.ok =>
           LET s == chain'[l.tx.host.id].state
           IN  /\ s # "Absent"
               /\ l.tx.host.kind = "start" => s \in {"InProgress", "Ended"}
               /\ l.tx.host.kind = "release" => s = "Ended"
  PROVE  Inv'
<1>1. CallsBelong' /\ RowsBelong' /\ StatusBacked' /\ PendingMatchesStatus'
  BY DEF Inv, CallsBelong, RowsBelong, Belongs, StatusBacked,
     PendingMatchesStatus, dbVars
<1>2. SuccessIsConfirmed'
  BY DEF Inv, SuccessIsConfirmed
<1>3. EffectsLast'
  <2>1. \A l \in ledger : l.tx.host.id \in EscrowIds
    BY TxParts DEF Inv, TypeOK
  <2> QED
    BY <2>1 DEF Inv, EffectsLast
<1>4. escrowId # None => escrowId \in EscrowIds
  BY DEF Inv, TypeOK
<1>5. RecordedEventExists'
  BY <1>4 DEF Inv, RecordedEventExists, dbVars
<1>6. LiveIsOnChain'
  BY DEF Inv, LiveIsOnChain, StatusBacked, dbVars
<1>7. PayoutsConfirmed'
  BY DEF Inv, PayoutsConfirmed, StatusBacked, dbVars
<1> QED
  BY <1>1, <1>2, <1>3, <1>5, <1>6, <1>7 DEF Inv

LEMMA IncludeInv ==
  ASSUME Inv, NEW t \in pool, Include(t)
  PROVE  Inv'
<1> DEFINE h == t.host
<1>1. /\ UNCHANGED <<dbVars, req, built, expired>>
      /\ seq' = [seq EXCEPT ![Source(h.kind)] = t.seq]
      /\ pool' \subseteq pool
  BY DEF Include
<1>2. t \in Tx /\ h.kind \in Kinds /\ h.id \in EscrowIds /\ h \in HostFunction
      /\ t.seq \in 1..MaxSeq
  BY TxParts DEF Inv, TypeOK
<1>3. seq' \in [Accounts -> 0..MaxSeq]
  <2>1. t.seq \in 0..MaxSeq
    BY <1>2
  <2> QED
    BY <1>1, <2>1 DEF Inv, TypeOK
<1>4. [tx |-> t, ok |-> TRUE] \in [tx : Tx, ok : BOOLEAN]
      /\ [tx |-> t, ok |-> FALSE] \in [tx : Tx, ok : BOOLEAN]
  BY <1>2
<1>5. CASE ledger' = ledger \cup {[tx |-> t, ok |-> FALSE]} /\ UNCHANGED chain
  <2>1. TypeOK'
    BY <1>1, <1>3, <1>4, <1>5 DEF Inv, TypeOK, dbVars
  <2> QED
    BY <1>1, <1>5, <2>1, ChainStep
<1>6. CASE /\ Accepts(h)
           /\ Execute(h)
           /\ ledger' = ledger \cup {[tx |-> t, ok |-> TRUE]}
  <2> DEFINE new == chain'[h.id]
  <2>1. /\ chain' = [chain EXCEPT ![h.id] = new]
        /\ new \in [state : {"Created", "InProgress", "Ended"},
                    winners : Winners \cup {None}]
        /\ h.kind = "create" => /\ chain[h.id].state = "Absent"
                                /\ new.state = "Created"
        /\ h.kind = "start" => /\ chain[h.id].state = "Created"
                               /\ new.state = "InProgress"
        /\ h.kind = "release" => /\ chain[h.id].state = "InProgress"
                                 /\ new.state = "Ended"
    BY <1>2, <1>6 DEF Inv, TypeOK, Accepts, Execute, create_event,
       set_event_in_progress, release_reward, HostFunction
  <2> HIDE DEF new
  <2>2. TypeOK'
    <3>1. chain' \in [EscrowIds ->
                        [state : {"Absent", "Created", "InProgress", "Ended",
                                  "Cancelled"},
                         winners : Winners \cup {None}]]
      BY <1>2, <2>1 DEF Inv, TypeOK
    <3>2. ledger' \subseteq [tx : Tx, ok : BOOLEAN]
      BY <1>4, <1>6 DEF Inv, TypeOK
    <3> QED
      BY <1>1, <1>3, <3>1, <3>2 DEF Inv, TypeOK, dbVars
  <2>3. h.kind \in {"create", "start", "release"}
    BY <1>2 DEF Kinds
  <2>4. \A i \in EscrowIds :
          /\ chain[i].state # "Absent" => chain'[i].state # "Absent"
          /\ chain[i].state \in {"InProgress", "Ended"} =>
               chain'[i].state \in {"InProgress", "Ended"}
          /\ chain[i].state = "Ended" => chain'[i].state = "Ended"
    BY <2>1, <2>3 DEF Inv, TypeOK
  <2>5. chain'[h.id] = new
    BY <1>2, <2>1 DEF Inv, TypeOK
  <2> QED
    BY <1>1, <1>6, <2>1, <2>2, <2>3, <2>4, <2>5, ChainStep
<1> QED
  BY <1>6, <1>5 DEF Include

LEMMA ExpireInv ==
  ASSUME Inv, NEW t \in built, Expire(t)
  PROVE  Inv'
<1>1. UNCHANGED <<dbVars, req, built, seq, ledger, chain>>
  BY DEF Expire
<1>2. TypeOK'
  BY <1>1 DEF Expire, Inv, TypeOK, dbVars
<1> QED
  BY <1>1, <1>2, ChainStep

LEMMA CallDirectlyInv ==
  ASSUME Inv, NEW i \in EscrowIds, CallDirectly(i)
  PROVE  Inv'
<1>1. UNCHANGED <<dbVars, req, built, seq, pool, expired, ledger>>
  BY DEF CallDirectly
<1> DEFINE new == chain'[i]
<1>2. /\ chain' = [chain EXCEPT ![i] = new]
      /\ new \in [state : {"Ended", "Cancelled"}, winners : Winners \cup {None}]
      /\ \/ chain[i].state = "InProgress" /\ new.state = "Ended"
         \/ chain[i].state = "Created" /\ new.state = "Cancelled"
  BY DEF CallDirectly, Inv, TypeOK
<1> HIDE DEF new
<1>3. TypeOK'
  <2>1. chain' \in [EscrowIds ->
                      [state : {"Absent", "Created", "InProgress", "Ended",
                                "Cancelled"},
                       winners : Winners \cup {None}]]
    BY <1>2 DEF Inv, TypeOK
  <2> QED
    BY <1>1, <2>1 DEF Inv, TypeOK, dbVars
<1> QED
  BY <1>1, <1>2, <1>3, ChainStep DEF Inv, TypeOK

LEMMA NextInv == Inv /\ [Next]_vars => Inv'
<1> SUFFICES ASSUME Inv, [Next]_vars PROVE Inv'
  OBVIOUS
<1>1. ASSUME NEW r \in Requests, Handler(r) PROVE Inv'
  BY <1>1, SimulateInv, VerifyInv, LoadSequenceInv, SaveBuildInv, SendInv,
     PollInv, MarkSucceededInv, MarkFailedInv, AbandonInv DEF Handler, Continue
<1>2. CASE UNCHANGED vars
  BY <1>2, ZenonT(40) DEF vars, dbVars, netVars, Inv, TypeOK, CallsBelong, RowsBelong,
     Belongs, EffectsLast, SuccessIsConfirmed, StatusBacked,
     PendingMatchesStatus, RecordedEventExists, LiveIsOnChain, PayoutsConfirmed
<1> QED
  BY <1>1, <1>2, StartJudgingInv, IncludeInv, ExpireInv, CallDirectlyInv DEF Next

\* The invariant holds in every reachable state, however requests, ledgers and
\* other callers interleave.
THEOREM InvHolds == Spec => []Inv
BY InitInv, NextInv, PTL DEF Spec

\* Rows, requests, transactions and ledger keep their types.
THEOREM ServiceTypes == Spec => []TypeOK
<1>1. Inv => TypeOK
  BY DEF Inv
<1> QED
  BY <1>1, InvHolds, PTL

\* A PENDING op_log row, the one Submit accepts, only exists while its event is
\* in the status the operation is built in.
THEOREM PendingRowsAreCurrent == Spec => []PendingMatchesStatus
<1>1. Inv => PendingMatchesStatus
  BY DEF Inv
<1> QED
  BY <1>1, InvHolds, PTL

\* The id MarkCreateSucceeded stores is one create_event created on chain.
THEOREM StoredIdsExist == Spec => []RecordedEventExists
<1>1. Inv => RecordedEventExists
  BY DEF Inv
<1> QED
  BY <1>1, InvHolds, PTL

\* An event shown as LIVE, or later, has its prize locked, or paid, on chain.
THEOREM LiveEventsAreLocked == Spec => []LiveIsOnChain
<1>1. Inv => LiveIsOnChain
  BY DEF Inv
<1> QED
  BY <1>1, InvHolds, PTL

\* MarkReleaseSucceeded writes payouts only for a confirmed release of this
\* event, in agreement with the prizes.
THEOREM PayoutsAreBacked == Spec => []PayoutsConfirmed
<1>1. Inv => PayoutsConfirmed
  BY DEF Inv
<1> QED
  BY <1>1, InvHolds, PTL

-----------------------------------------------------------------------------
(* The database's record implements EventMirror.                           *)

ChainPhases == [i \in EscrowIds |-> Phase(chain[i].state)]
Released == IF prizes.status = "RELEASED" THEN prizes.winners ELSE None
Payouts == IF payout = None THEN None ELSE payout.winners

\* The five phases.
LEMMA PhaseNames ==
  /\ Phase("Absent") = "none" /\ Phase("Created") = "reserved"
  /\ Phase("InProgress") = "live" /\ Phase("Ended") = "paid"
  /\ Phase("Cancelled") = "returned"
BY DEF Phase

\* A step that writes neither the record nor the chain is not seen.
LEMMA UnseenStep ==
  ASSUME UNCHANGED <<status, escrowId, prizes, payout, chain>>
  PROVE  UNCHANGED Mirror!vars
BY Zenon DEF Mirror!vars, Mirror!record

\* A step that moves event i on chain, and nothing in the database.
LEMMA AdvanceSeen ==
  ASSUME NEW i \in EscrowIds, NEW new, chain' = [chain EXCEPT ![i] = new],
         chain \in [EscrowIds -> [state : {"Absent", "Created", "InProgress",
                                           "Ended", "Cancelled"},
                                  winners : Winners \cup {None}]],
         \/ chain[i].state = "Absent" /\ new.state = "Created"
         \/ chain[i].state = "Created" /\ new.state \in {"InProgress", "Cancelled"}
         \/ chain[i].state = "InProgress" /\ new.state = "Ended",
         UNCHANGED <<status, escrowId, prizes, payout>>
  PROVE  Mirror!Next
<1>1. ChainPhases[i] = Phase(chain[i].state)
  BY DEF ChainPhases
<1>2. ChainPhases' = [ChainPhases EXCEPT ![i] = Phase(new.state)]
  BY DEF ChainPhases, Phase
<1>3. Mirror!Advance(i)
  BY <1>1, <1>2, PhaseNames DEF Mirror!Advance, Mirror!PhaseStep, ChainPhases
<1>4. UNCHANGED Mirror!record
  BY Zenon DEF Mirror!record
<1> QED
  BY <1>3, <1>4 DEF Mirror!Next

LEMMA InitSeen == Init => Mirror!Init
<1> SUFFICES ASSUME Init PROVE Mirror!Init
  OBVIOUS
<1>1. ChainPhases = [i \in EscrowIds |-> "none"]
  BY PhaseNames DEF Init, ChainPhases
<1>2. Mirror!PhaseInit
  BY <1>1 DEF Mirror!PhaseInit, ChainPhases
<1> QED
  BY <1>2 DEF Init, Mirror!Init

LEMMA IncludeSeen ==
  ASSUME Inv, NEW t \in pool, Include(t)
  PROVE  Mirror!Next \/ UNCHANGED Mirror!vars
<1> DEFINE h == t.host
<1>1. UNCHANGED <<status, escrowId, prizes, payout>>
  BY DEF Include, dbVars
<1>2. CASE UNCHANGED chain
  BY <1>1, <1>2, UnseenStep
<1>3. CASE Accepts(h) /\ Execute(h)
  <2>1. h \in HostFunction /\ h.id \in EscrowIds
    BY TxParts DEF Inv, TypeOK
  <2>2. \E new :
          /\ chain' = [chain EXCEPT ![h.id] = new]
          /\ \/ chain[h.id].state = "Absent" /\ new.state = "Created"
             \/ chain[h.id].state = "Created" /\ new.state = "InProgress"
             \/ chain[h.id].state = "InProgress" /\ new.state = "Ended"
    <3>1. CASE h.kind = "create" /\ create_event(h)
      <4>1. chain[h.id].state = "Absent"
        BY <1>3, <3>1 DEF Accepts
      <4> WITNESS [chain[h.id] EXCEPT !.state = "Created"]
      <4> QED
        BY <2>1, <3>1, <4>1 DEF create_event, Inv, TypeOK
    <3>2. CASE h.kind = "start" /\ set_event_in_progress(h)
      <4>1. chain[h.id].state = "Created"
        BY <1>3, <3>2 DEF Accepts
      <4> WITNESS [chain[h.id] EXCEPT !.state = "InProgress"]
      <4> QED
        BY <2>1, <3>2, <4>1 DEF set_event_in_progress, Inv, TypeOK
    <3>3. CASE h.kind = "release" /\ release_reward(h)
      <4>1. chain[h.id].state = "InProgress"
        BY <1>3, <3>3 DEF Accepts
      <4> WITNESS [state |-> "Ended", winners |-> h.winners]
      <4> QED
        BY <2>1, <3>3, <4>1 DEF release_reward
    <3> QED
      BY <1>3, <3>1, <3>2, <3>3 DEF Execute
  <2>3. chain \in [EscrowIds -> [state : {"Absent", "Created", "InProgress", "Ended", "Cancelled"},
                                 winners : Winners \cup {None}]]
    BY DEF Inv, TypeOK
  <2> HIDE DEF h
  <2> QED
    BY <1>1, <2>1, <2>2, <2>3, AdvanceSeen
<1> QED
  BY <1>2, <1>3 DEF Include

LEMMA CallDirectlySeen ==
  ASSUME Inv, NEW i \in EscrowIds, CallDirectly(i)
  PROVE  Mirror!Next
<1>1. UNCHANGED <<status, escrowId, prizes, payout>>
  BY DEF CallDirectly, dbVars
<1>2. \E new :
        /\ chain' = [chain EXCEPT ![i] = new]
        /\ \/ chain[i].state = "InProgress" /\ new.state = "Ended"
           \/ chain[i].state = "Created" /\ new.state = "Cancelled"
  <2>1. CASE /\ chain[i].state = "InProgress"
             /\ \E w \in Winners :
                  chain' = [chain EXCEPT ![i] = [state |-> "Ended", winners |-> w]]
    <3>1. PICK w \in Winners :
            chain' = [chain EXCEPT ![i] = [state |-> "Ended", winners |-> w]]
      BY <2>1
    <3> WITNESS [state |-> "Ended", winners |-> w]
    <3> QED
      BY <2>1, <3>1
  <2>2. CASE /\ chain[i].state = "Created"
             /\ chain' = [chain EXCEPT ![i].state = "Cancelled"]
    <3> WITNESS [chain[i] EXCEPT !.state = "Cancelled"]
    <3> QED
      BY <2>2 DEF Inv, TypeOK
  <2> QED
    BY <2>1, <2>2 DEF CallDirectly
<1> QED
  BY <1>1, <1>2, AdvanceSeen DEF Inv, TypeOK

\* Opening judging is a turn of the record alone.
LEMMA StartJudgingSeen ==
  ASSUME startJudging
  PROVE  Mirror!Next
<1>1. /\ status = "LIVE" /\ status' = "JUDGING"
      /\ UNCHANGED <<escrowId, prizes, payout, chain>>
  BY DEF startJudging, netVars
<1>2. Mirror!JudgingOpened
  BY <1>1, Zenon DEF Mirror!JudgingOpened, Mirror!Turn
<1>3. UNCHANGED ChainPhases
  BY <1>1, Zenon DEF ChainPhases
<1> QED
  BY <1>2, <1>3 DEF Mirror!Next, ChainPhases

\* A build is saved after the prizes were released only if the row is refused:
\* what is shown as released stays.
LEMMA SaveBuildSeen ==
  ASSUME Inv, NEW r \in Requests, SaveBuild(r)
  PROVE  UNCHANGED Mirror!vars
<1> DEFINE t == req[r].tx
<1>1. UNCHANGED <<status, escrowId, payout, chain>>
  BY DEF SaveBuild, netVars
<1>2. Released' = Released
  <2>1. CASE UNCHANGED prizes
    BY <2>1, Zenon DEF Released
  <2>2. CASE SaveReleaseBuild(t)
    <3>1. prizes' = [status |-> "ASSIGNED", winners |-> t.host.winners]
          /\ status = "JUDGING"
      BY <2>2 DEF SaveReleaseBuild, SaveRow, MaySave, Precondition, Needs
    <3>2. prizes.status # "RELEASED"
      BY <3>1 DEF Inv, StatusBacked
    <3> QED
      BY <3>1, <3>2 DEF Released
  <2> QED
    BY <2>1, <2>2 DEF SaveBuild, SaveOrganizerBuild
<1>3. Payouts' = Payouts /\ ChainPhases' = ChainPhases
  BY <1>1, Zenon DEF Payouts, ChainPhases
<1> QED
  BY <1>1, <1>2, <1>3 DEF Mirror!vars, Mirror!record, Released, Payouts, ChainPhases

\* A confirmed operation turns the record one stage on, and the contract is
\* there already.
LEMMA MarkSucceededSeen ==
  ASSUME Inv, NEW r \in Requests, MarkSucceeded(r)
  PROVE  Mirror!Next \/ UNCHANGED Mirror!vars
<1> DEFINE t == req[r].tx
           k == t.host.kind
<1>1. req[r].pc = "succeed" /\ UNCHANGED chain
  BY DEF MarkSucceeded, netVars
<1>2. CASE UNCHANGED dbVars
  BY <1>1, <1>2, UnseenStep DEF dbVars
<1>3. CASE /\ Confirms(t)
           /\ op' = [op EXCEPT ![k].status = "SUCCEEDED"]
           /\ \/ k = "create" /\ MarkCreateSucceeded(t)
              \/ k = "start" /\ MarkStartSucceeded(t)
              \/ k = "release" /\ MarkReleaseSucceeded(t)
  <2>1. /\ t \in Tx /\ Belongs(t.host)
        /\ [tx |-> t, ok |-> TRUE] \in ledger
        /\ op[k].status = "PENDING" /\ status = Needs[k]
        /\ (escrowId = None) = (k = "create")
    BY <1>1, <1>3, ConfirmedRow
  <2>2. t.host.id \in EscrowIds
    BY <2>1, TxParts
  <2>3. LET s == chain[t.host.id].state
        IN  /\ s # "Absent"
            /\ k = "start" => s \in {"InProgress", "Ended"}
            /\ k = "release" => s = "Ended"
    BY <2>1 DEF Inv, EffectsLast
  <2>4. /\ ChainPhases[t.host.id] # "none"
        /\ k = "start" => ChainPhases[t.host.id] \in {"live", "paid"}
        /\ k = "release" => ChainPhases[t.host.id] = "paid"
    <3>1. ChainPhases[t.host.id] = Phase(chain[t.host.id].state)
      BY <2>2 DEF ChainPhases
    <3>2. chain[t.host.id].state \in
            {"Absent", "Created", "InProgress", "Ended", "Cancelled"}
      BY <2>2 DEF Inv, TypeOK
    <3> QED
      BY <2>3, <3>1, <3>2, PhaseNames
  <2>5. UNCHANGED ChainPhases
    BY <1>1, Zenon DEF ChainPhases
  <2>6. status # "COMPLETED"
    BY <2>1, TxParts DEF Needs, Kinds
  <2>7. Released = None /\ Payouts = None
    BY <2>6 DEF Released, Payouts, Inv, StatusBacked
  <2>8. CASE k = "create" /\ MarkCreateSucceeded(t)
    <3>1. status = "DRAFT" /\ status' = "CREATED" /\ escrowId' = t.host.id
          /\ UNCHANGED <<prizes, payout>>
      BY <2>1, <2>8 DEF MarkCreateSucceeded, Needs
    <3>2. UNCHANGED <<Released, Payouts>>
      BY <3>1, Zenon DEF Released, Payouts
    <3>3. Mirror!Reserved
      BY <2>2, <2>4, <3>1, <3>2
         DEF Mirror!Reserved, Mirror!Turn, ChainPhases, Released, Payouts
    <3> QED
      BY <2>5, <3>3 DEF Mirror!Next, ChainPhases
  <2>9. CASE k = "start" /\ MarkStartSucceeded(t)
    <3>1. status = "CREATED" /\ status' = "LIVE" /\ escrowId = t.host.id
          /\ UNCHANGED <<escrowId, prizes, payout>>
      BY <2>1, <2>9 DEF MarkStartSucceeded, Needs, Belongs
    <3>2. UNCHANGED <<Released, Payouts>>
      BY <3>1, Zenon DEF Released, Payouts
    <3>3. Mirror!WentLive
      BY <2>4, <2>9, <3>1, <3>2
         DEF Mirror!WentLive, Mirror!Turn, ChainPhases, Released, Payouts
    <3> QED
      BY <2>5, <3>3 DEF Mirror!Next, ChainPhases
  <2>10. CASE k = "release" /\ MarkReleaseSucceeded(t)
    <3>1. /\ status = "JUDGING" /\ status' = "COMPLETED"
          /\ escrowId = t.host.id /\ UNCHANGED escrowId
          /\ prizes' = [prizes EXCEPT !.status = "RELEASED"]
          /\ payout' = [winners |-> op["release"].host.winners, tx |-> t]
      BY <2>1, <2>10 DEF MarkReleaseSucceeded, Needs, Belongs
    <3>2. /\ op["release"].host.winners \in Winners
          /\ prizes.winners = op["release"].host.winners
      BY <2>1, <2>10 DEF Inv, RowsBelong, Belongs, Kinds
    <3>3. payout' # None
      BY <2>1, <3>1, <3>2 DEF Payout
    <3>4. Payouts' \in Winners /\ Released' = Payouts'
      BY <3>1, <3>2, <3>3 DEF Payouts, Released, Inv, TypeOK
    <3>5. Mirror!Paid
      BY <2>4, <2>10, <3>1, <3>4
         DEF Mirror!Paid, Mirror!Turn, ChainPhases, Released, Payouts
    <3> QED
      BY <2>5, <3>5 DEF Mirror!Next, ChainPhases
  <2> QED
    BY <1>3, <2>8, <2>9, <2>10
<1> QED
  BY <1>2, <1>3 DEF MarkSucceeded

LEMMA NextSeen ==
  Inv /\ Inv' /\ [Next]_vars => [Mirror!Next]_(Mirror!vars)
<1> SUFFICES ASSUME Inv, [Next]_vars
             PROVE  Mirror!Next \/ UNCHANGED Mirror!vars
  OBVIOUS
<1>1. ASSUME NEW r \in Requests, Handler(r)
      PROVE  Mirror!Next \/ UNCHANGED Mirror!vars
  <2>1. CASE SaveBuild(r)
    BY <2>1, SaveBuildSeen
  <2>2. CASE MarkSucceeded(r)
    BY <2>2, MarkSucceededSeen
  <2>3. CASE UNCHANGED <<status, escrowId, prizes, payout, chain>>
    BY <2>3, UnseenStep
  <2> QED
    BY <1>1, <2>1, <2>2, <2>3 DEF Handler, Continue, Simulate, LoadSequence,
       Verify, Send, Poll, MarkFailed, Abandon, dbVars, netVars
<1>2. CASE \E t \in built : Expire(t)
  BY <1>2, UnseenStep DEF Expire, dbVars
<1>3. CASE UNCHANGED vars
  BY <1>3, UnseenStep DEF vars, dbVars, netVars
<1> QED
  BY <1>1, <1>2, <1>3, StartJudgingSeen, IncludeSeen, CallDirectlySeen DEF Next

\* Whatever the requests and the network do, the database's record of the event
\* follows the contract as EventMirror says: Mark*Succeeded and startJudging
\* move it one stage at a time, never ahead of the chain, and released prizes
\* and payouts are written once.
THEOREM RecordFollowsContract == Spec => FollowsContract
BY InitSeen, InvHolds, NextSeen, PTL DEF Spec, FollowsContract, Mirror!Spec

=============================================================================
