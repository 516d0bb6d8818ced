---------------------------- MODULE DepositFlow ----------------------------
(***************************************************************************)
(* Topping up an organizer's escrow balance: the deposit step of a page    *)
(* (deposit-step.tsx, sign-step.tsx), its server actions, core-go's        *)
(* deposit build and submit, the op_log row and the ledger.                *)
(*                                                                         *)
(* Every build is an op of its own with a fresh sequence number. Amounts   *)
(* are units of the token. A handler goes on when the browser no longer    *)
(* waits for it, so that a second submit of one op may overlap it. Bounds: *)
(* Ops limits the builds, Requests the submits served at a time.           *)
(***************************************************************************)
EXTENDS Amounts

CONSTANTS
  Ops,       \* op ids (newOpID)
  Requests,  \* submits being served
  Amounts,   \* amounts typed into the form
  MaxDeposit,\* maxDepositStroops
  Required,  \* what the page needs on the balance
  Start,     \* balance when the page is opened
  None

VARIABLES
  op,        \* op_log: [Ops -> row or None]
  thread,    \* handleDepositSubmit of each request
  seq,       \* last used sequence number of the organizer's account
  sent,      \* transactions the network holds
  tried,     \* transactions in the ledger
  credited,  \* those of them that succeeded
  balance,   \* get_balance
  spent,     \* what was taken from the balance elsewhere
  shown,     \* balance on the page
  built, phase, pendingHash,  \* state of DepositStep and its SignStep
  prompts,   \* ops whose wallet prompt is open
  awaited    \* submits the page waits for

core == <<op, thread>>
ledger == <<tried, credited>>
chain == <<seq, sent, ledger, balance, spent>>
step == <<built, phase, pendingHash>>
vars == <<core, chain, shown, step, prompts, awaited>>

Idle == [pc |-> "idle", op |-> None]
Row == [status : {"PENDING", "SUCCEEDED", "FAILED"}, amount : Nat, seq : Nat]

DepositAssumption ==
  /\ Amounts \subseteq Nat /\ {Required, Start, MaxDeposit} \subseteq Nat
  /\ None \notin Row \cup Ops

TypeOK ==
  /\ op \in [Ops -> Row \cup {None}]
  /\ thread \in [Requests -> [pc : {"idle", "send", "poll", "mark"}, op : Ops \cup {None}]]
  /\ credited \subseteq tried
  /\ \A o \in sent \cup tried \cup prompts : op[o] # None
  /\ awaited \subseteq {r \in Requests : thread[r] # Idle}
  /\ {seq, balance, spent, shown} \subseteq Nat
  /\ {built, pendingHash} \subseteq Ops \cup {None}
  /\ phase \in {"idle", "signing", "submitting", "failed"}
  /\ (shown >= Required \/ built = None) => phase = "idle"

Init ==
  /\ op = [o \in Ops |-> None] /\ thread = [r \in Requests |-> Idle]
  /\ seq = 0 /\ sent = {} /\ tried = {} /\ credited = {} /\ balance = Start /\ spent = 0
  /\ shown = Start /\ built = None /\ phase = "idle" /\ pendingHash = None
  /\ prompts = {} /\ awaited = {}

----------------------------------------------------------------------------
(* The page. *)

\* DepositStep is on the page while the balance shown is short.
Mounted == shown < Required

Fresh == built' = None /\ phase' = "idle" /\ pendingHash' = None

\* amountOk: a deposit covers the shortfall.
AmountOk(a) == a >= Required - shown

\* The form with the amount is there and its button works.
MayStart(a) == Mounted /\ built = None /\ pendingHash = None /\ AmountOk(a)

\* start() and handleDepositBuild: the row is inserted even if the answer is lost.
BuildDeposit(o, a) ==
  /\ MayStart(a) /\ a > 0 /\ a <= MaxDeposit /\ op[o] = None
  /\ op' = [op EXCEPT ![o] = [status |-> "PENDING", amount |-> a, seq |-> seq + 1]]
  /\ built' \in {None, o} /\ phase' = "idle" /\ pendingHash' = None
  /\ UNCHANGED <<thread, chain, shown, prompts, awaited>>

\* "Change amount": the prompt of the wallet stays open.
Discard ==
  /\ Mounted /\ built # None /\ pendingHash = None
  /\ Fresh
  /\ UNCHANGED <<core, chain, shown, prompts, awaited>>

Sign ==
  /\ Mounted /\ built # None /\ pendingHash = None /\ phase \in {"idle", "failed"}
  /\ phase' = "signing" /\ prompts' = prompts \cup {built}
  /\ UNCHANGED <<core, chain, shown, built, pendingHash, awaited>>

\* Mutant: the phase is set on whatever step is there now.
PhaseOf_Stale(o, p) == phase' = p

\* setPhase of the SignStep that opened the prompt, if it is still there.
PhaseOf(o, p) == phase' = IF built = o /\ Mounted THEN p ELSE phase

WalletRejects(o) ==
  /\ o \in prompts
  /\ prompts' = prompts \ {o} /\ PhaseOf(o, "failed")
  /\ UNCHANGED <<core, chain, shown, built, pendingHash, awaited>>

\* The signed envelope goes to submitDeposit with the op it was built for;
\* the handler refuses an op that is not PENDING, and nothing but that.
WalletSigns(o, r) ==
  /\ o \in prompts /\ thread[r] = Idle
  /\ prompts' = prompts \ {o}
  /\ IF op[o].status = "PENDING"
     THEN /\ thread' = [thread EXCEPT ![r] = [pc |-> "send", op |-> o]]
          /\ awaited' = awaited \cup {r} /\ PhaseOf(o, "submitting")
     ELSE UNCHANGED <<thread, awaited>> /\ PhaseOf(o, "failed")
  /\ UNCHANGED <<op, chain, shown, built, pendingHash>>

\* onDeposited: the page reads /balance.
Refreshed == balance

\* The parent re-renders with a balance: a covered shortfall unmounts the step.
Show(b, builtThen, phaseThen, hashThen) ==
  /\ shown' = b
  /\ IF b >= Required THEN Fresh
     ELSE built' = builtThen /\ phase' = phaseThen /\ pendingHash' = hashThen

\* onSigned after the answer of submitDeposit. A success clears whatever is
\* built by then; the read of the balance may fail.
Answer(r, kind) ==
  /\ awaited' = awaited \ {r}
  /\ IF r \notin awaited THEN UNCHANGED <<shown, step>>
     ELSE CASE kind = "succeeded" ->
                 \E b \in {shown, Refreshed} : Show(b, None, "idle", pendingHash)
            [] kind = "pending" ->
                 /\ pendingHash' = IF Mounted THEN thread[r].op ELSE None
                 /\ UNCHANGED <<shown, built, phase>>
            [] kind = "error" ->
                 PhaseOf(thread[r].op, "failed") /\ UNCHANGED <<shown, built, pendingHash>>

\* The answer is lost on the way (CoreGoTransportError, a closed tab).
LoseAnswer(r) ==
  /\ r \in awaited
  /\ Answer(r, "error")
  /\ UNCHANGED <<core, chain, prompts>>

\* "Check again" after a 202.
Check ==
  /\ Mounted /\ pendingHash # None
  /\ Show(balance, built, phase, pendingHash)
  /\ UNCHANGED <<core, chain, prompts, awaited>>

Reload ==
  /\ shown' = balance /\ Fresh /\ prompts' = {} /\ awaited' = {}
  /\ UNCHANGED <<core, chain>>

----------------------------------------------------------------------------
(* core-go. *)

\* Mutant: the sequence number is read again at submission.
Usable_Renewed(o) == TRUE

Usable(o) == op[o].seq = seq + 1

Goto(r, pc) == thread' = [thread EXCEPT ![r].pc = pc] /\ UNCHANGED <<op, shown, step, awaited>>
Done(r, kind) == thread' = [thread EXCEPT ![r] = Idle] /\ Answer(r, kind)

\* MarkDepositFailed updates the row whatever its status.
Fails(r) == op' = [op EXCEPT ![thread[r].op].status = "FAILED"] /\ Done(r, "error")

\* sendTransaction: taken; known from an earlier submit; refused (bad
\* sequence number, time bounds), which fails the op also when that earlier
\* submit is in the ledger; or the call itself errs, before or after it was taken.
Send(r) ==
  LET o == thread[r].op
      taken == IF Usable(o) THEN sent \cup {o} ELSE sent
  IN  /\ thread[r].pc = "send"
      /\ \/ (Usable(o) \/ o \in tried) /\ sent' = taken /\ Goto(r, "poll")
         \/ sent' = sent /\ Fails(r)
         \/ sent' \in {sent, taken} /\ op' = op /\ Done(r, "error")
      /\ UNCHANGED <<seq, ledger, balance, spent, prompts>>

\* Mutant: a transaction in the ledger is taken for one that succeeded.
PollDone_Tried(o) == o \in tried

PollDone(o) == o \in credited

\* pollForConfirmation: confirmed; failed on chain; timed out (202, the op
\* stays PENDING); or the RPC errs.
Poll(r) ==
  LET o == thread[r].op IN
  /\ thread[r].pc = "poll"
  /\ \/ PollDone(o) /\ Goto(r, "mark")
     \/ o \in tried \ credited /\ Fails(r)
     \/ o \notin tried /\ op' = op /\ Done(r, "pending")
     \/ op' = op /\ Done(r, "error")
  /\ UNCHANGED <<chain, prompts>>

\* MarkDepositSucceeded: only a PENDING row.
MarkDepositSucceeded(r) ==
  LET o == thread[r].op IN
  /\ thread[r].pc = "mark"
  /\ IF op[o].status = "PENDING"
     THEN op' = [op EXCEPT ![o].status = "SUCCEEDED"] /\ Done(r, "succeeded")
     ELSE op' = op /\ Done(r, "error")
  /\ UNCHANGED <<chain, prompts>>

\* The ledger closes: deposit_funds runs, or fails (the wallet's tokens have
\* gone elsewhere). Either way the sequence number is used.
Include(o) ==
  /\ o \in sent /\ Usable(o)
  /\ tried' = tried \cup {o} /\ seq' = seq + 1 /\ sent' = sent \ {o}
  /\ \/ credited' = credited \cup {o} /\ balance' = balance + op[o].amount
     \/ UNCHANGED <<credited, balance>>
  /\ UNCHANGED <<core, spent, shown, step, prompts, awaited>>

\* The time bounds of a transaction pass, or it is dropped.
Expire(o) ==
  /\ o \in sent /\ sent' = sent \ {o}
  /\ UNCHANGED <<core, seq, ledger, balance, spent, shown, step, prompts, awaited>>

\* The balance is reserved or withdrawn elsewhere, by another transaction.
Spend ==
  /\ balance > 0 /\ seq < Cardinality(Ops)
  /\ spent' = spent + balance /\ balance' = 0 /\ seq' = seq + 1
  /\ UNCHANGED <<core, sent, ledger, shown, step, prompts, awaited>>

Next ==
  \/ \E o \in Ops, a \in Amounts : BuildDeposit(o, a)
  \/ \E o \in Ops : WalletRejects(o) \/ Include(o) \/ Expire(o)
  \/ \E o \in Ops, r \in Requests : WalletSigns(o, r)
  \/ \E r \in Requests : LoseAnswer(r) \/ Send(r) \/ Poll(r) \/ MarkDepositSucceeded(r)
  \/ Discard \/ Sign \/ Check \/ Reload \/ Spend

Spec == Init /\ [][Next]_vars

----------------------------------------------------------------------------
\* A deposit is recorded as succeeded only when the ledger credited it: a
\* failed transaction, a timeout, a lost answer, a second submit of the same
\* signature or a discarded build never make it so (wallet.go, submit.go).
SucceededIsCredited ==
  \A o \in Ops : op[o] # None /\ op[o].status = "SUCCEEDED" => o \in credited

\* A signature sent twice, or retried after a timeout, credits once: what is on
\* the balance and what left it is what there was and what the credited
\* deposits add up to.
CreditedOnce == balance + spent = Start + Total([o \in credited |-> op[o].amount])

=============================================================================
