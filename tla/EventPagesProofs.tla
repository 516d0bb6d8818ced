-------------------------- MODULE EventPagesProofs --------------------------
(***************************************************************************)
(* What holds of one event's pages and handlers for every value of the     *)
(* constants: the deposit, the judge's release, the funding and go-live    *)
(* screens, the operation log, the teams and the public pages.             *)
(* Each part has an inductive invariant of its own: what a handler read    *)
(* before it waited, and still holds when it acts on it.                   *)
(***************************************************************************)
EXTENDS EventDraftProofs

(***************************************************************************)
(* The deposit panel.                                                      *)
(***************************************************************************)

\* A submit being served is for a row that was written.
ThreadsRecorded ==
  \A r \in Requests : thread[r] # Deposit!Idle => thread[r].op \in Ops /\ op[thread[r].op] # None

\* The build on the page was recorded before it was answered.
BuiltRecorded == depositBuilt # None => op[depositBuilt] # None

\* Wallet, page, network and ledger know builds and submits only.
BuildsOnly == depositPrompts \cup sent \cup landed \subseteq Ops /\ depositAwaited \subseteq Requests

\* A transaction the ledger holds has used up its sequence number, also when it
\* failed: it cannot be included again, so a deposit is credited once.
IncludedUsed ==
  /\ credited \subseteq landed /\ IsFiniteSet(credited)
  /\ \A o \in landed : op[o].seq <= depositSeq

\* A submit that is about to record success saw the deposit succeed.
MarkedCredited == \A r \in Requests : thread[r].pc = "mark" => thread[r].op \in credited

\* The inductive invariant.
DepositInv ==
  /\ Deposit!TypeOK
  /\ ThreadsRecorded
  /\ BuiltRecorded
  /\ BuildsOnly
  /\ IncludedUsed
  /\ MarkedCredited
  /\ Deposit!SucceededIsCredited
  /\ Deposit!CreditedOnce

\* What the ledger credited, deposit by deposit.
Credits == [o \in credited |-> op[o].amount]

\* The sum that DepositFlow means is the one that AmountsProofs is about.
LEMMA SameTotal == \A f : Deposit!Total(f) = Total(f)
<1> TAKE f
<1>1. Deposit!Units(f) = Units(f)
  <2>1. \A x : Deposit!UnitsOf(f, x) = UnitsOf(f, x)
    BY DEF Deposit!UnitsOf, UnitsOf
  <2> QED
    BY <2>1 DEF Deposit!Units, Units
<1>2. \A S : Deposit!Cardinality(S) = Cardinality(S)
  BY Zenon DEF Deposit!Cardinality, Cardinality
<1> QED
  BY <1>1, <1>2 DEF Deposit!Total, Total

LEMMA DepositInitInv == ASSUME Deposit!DepositAssumption PROVE Deposit!Init => DepositInv
<1> SUFFICES ASSUME Deposit!Init PROVE DepositInv
  OBVIOUS
<1>1. Deposit!TypeOK
  BY DEF Deposit!Init, Deposit!Idle, Deposit!TypeOK, Deposit!DepositAssumption
<1>2. Total(Credits) = 0
  <2>1. Credits \in [{} -> Nat] /\ \A o \in {} : Credits[o] = 0
    BY DEF Credits, Deposit!Init
  <2> QED
    BY <2>1, TotalZero
<1>3. IsFiniteSet(credited)
  BY FS_EmptySet DEF Deposit!Init
<1>4. Deposit!CreditedOnce
  BY <1>2, SameTotal DEF Deposit!CreditedOnce, Credits, Deposit!Init, Deposit!DepositAssumption
<1>5. Deposit!SucceededIsCredited
  BY DEF Deposit!Init, Deposit!SucceededIsCredited
<1> QED
  BY <1>1, <1>3, <1>4, <1>5
  DEF DepositInv, Deposit!Init, Deposit!Idle, ThreadsRecorded, BuiltRecorded, BuildsOnly,
      IncludedUsed, MarkedCredited

----------------------------------------------------------------------------
(* The page. *)

\* What the page holds is of the right kind, and a step that is not on the
\* page, or shows the form, waits for nothing.
PageOK ==
  /\ shownBalance \in Nat
  /\ {depositBuilt, pendingHash} \subseteq Ops \cup {None}
  /\ phase \in {"idle", "signing", "submitting", "failed"}
  /\ (shownBalance >= Required \/ depositBuilt = None) => phase = "idle"

\* An answer leaves the page as it should be, whatever is built by then.
LEMMA AnswerPage ==
  ASSUME Deposit!DepositAssumption, PageOK, balance \in Nat, NEW r \in Requests,
         thread[r].op \in Ops,
         NEW kind \in {"succeeded", "pending", "error"}, Deposit!Answer(r, kind)
  PROVE  /\ PageOK'
         /\ depositAwaited' = depositAwaited \ {r}
         /\ depositBuilt' \in {None, depositBuilt}
<1> USE DEF Deposit!Answer, PageOK, Deposit!DepositAssumption
<1>1. CASE r \notin depositAwaited
  BY <1>1 DEF Deposit!step
<1>2. CASE r \in depositAwaited /\ kind = "succeeded"
  BY <1>2 DEF Deposit!Show, Deposit!Fresh, Deposit!Refreshed
<1>3. CASE r \in depositAwaited /\ kind = "pending"
  BY <1>3
<1>4. CASE r \in depositAwaited /\ kind = "error"
  BY <1>4 DEF Deposit!PhaseOf, Deposit!Mounted
<1> QED
  BY <1>1, <1>2, <1>3, <1>4

\* Prompts are for builds that were on the page, waits for submits being
\* served, and only a build that was recorded comes to the page.
PageStays ==
  /\ PageOK'
  /\ depositPrompts' \subseteq depositPrompts \cup ({depositBuilt} \ {None})
  /\ depositAwaited' \subseteq {r \in Requests : thread'[r] # Deposit!Idle}
  /\ depositBuilt' \in {None, depositBuilt} \/ (depositBuilt' \in Ops /\ op'[depositBuilt'] # None)

\* A submit being served: its op, and what it may turn into.
LEMMA ThreadOp ==
  ASSUME DepositInv, NEW r \in Requests, thread[r].pc # "idle"
  PROVE  /\ thread[r] # Deposit!Idle
         /\ thread[r].op \in Ops /\ op[thread[r].op] # None
BY DEF DepositInv, ThreadsRecorded, Deposit!Idle

\* What a handler does to its thread and the page: it goes on, or it answers.
LEMMA ThreadMoves ==
  ASSUME Deposit!DepositAssumption, DepositInv, NEW r \in Requests, thread[r].pc # "idle",
         depositPrompts' = depositPrompts,
         \/ \E pc \in {"send", "poll", "mark"} : Deposit!Goto(r, pc)
         \/ \E kind \in {"succeeded", "pending", "error"} : Deposit!Done(r, kind)
  PROVE  PageStays
<1>1. /\ PageOK /\ balance \in Nat
      /\ thread \in [Requests -> [pc : {"idle", "send", "poll", "mark"}, op : Ops \cup {None}]]
      /\ depositAwaited \subseteq {q \in Requests : thread[q] # Deposit!Idle}
  BY DEF DepositInv, Deposit!TypeOK, PageOK
<1>2. thread[r].op \in Ops
  BY ThreadOp
<1>3. ASSUME NEW pc \in {"send", "poll", "mark"}, Deposit!Goto(r, pc)
      PROVE  PageStays
  <2>1. \A q \in Requests : thread[q] # Deposit!Idle => thread'[q] # Deposit!Idle
    BY <1>1, <1>3 DEF Deposit!Goto, Deposit!Idle
  <2> QED
    BY <1>1, <1>3, <2>1 DEF Deposit!Goto, Deposit!step, PageOK, PageStays
<1>4. ASSUME NEW kind \in {"succeeded", "pending", "error"}, Deposit!Done(r, kind)
      PROVE  PageStays
  <2>1. /\ PageOK' /\ depositAwaited' = depositAwaited \ {r}
        /\ depositBuilt' \in {None, depositBuilt}
    BY <1>1, <1>2, <1>4, AnswerPage DEF Deposit!Done
  <2>2. \A q \in Requests : q # r => thread'[q] = thread[q]
    BY <1>1, <1>4 DEF Deposit!Done
  <2> QED
    BY <1>1, <2>1, <2>2 DEF PageStays
<1> QED
  BY <1>3, <1>4

LEMMA PageStep ==
  ASSUME Deposit!DepositAssumption, DepositInv, [Deposit!Next]_(Deposit!vars)
  PROVE  PageStays
<1> USE DEF Deposit!DepositAssumption, PageOK, PageStays
<1>1. /\ PageOK /\ balance \in Nat /\ op \in [Ops -> Deposit!Row \cup {None}]
      /\ thread \in [Requests -> [pc : {"idle", "send", "poll", "mark"}, op : Ops \cup {None}]]
      /\ depositAwaited \subseteq {q \in Requests : thread[q] # Deposit!Idle}
  BY DEF DepositInv, Deposit!TypeOK
<1>2. CASE UNCHANGED <<thread, shownBalance, Deposit!step, depositPrompts, depositAwaited>>
  BY <1>1, <1>2 DEF Deposit!step
<1>3. ASSUME NEW o \in Ops, NEW a \in DepositAmounts, Deposit!BuildDeposit(o, a)
      PROVE  PageStays
  <2>1. depositSeq \in Nat /\ a \in Nat
    <3>1. depositSeq \in Nat
      BY DEF DepositInv, Deposit!TypeOK
    <3>2. DepositAmounts \subseteq Nat
      OBVIOUS
    <3> QED
      BY <3>1, <3>2
  <2>2. [status |-> "PENDING", amount |-> a, seq |-> depositSeq + 1] \in Deposit!Row
    BY <2>1 DEF Deposit!Row
  <2>3. op'[o] # None
    BY <1>1, <1>3, <2>2 DEF Deposit!BuildDeposit
  <2> QED
    BY <1>1, <1>3, <2>3 DEF Deposit!BuildDeposit
<1>4. ASSUME NEW o \in Ops, Deposit!WalletRejects(o)
      PROVE  PageStays
  BY <1>1, <1>4 DEF Deposit!WalletRejects, Deposit!PhaseOf, Deposit!Mounted, Deposit!core
<1>5. ASSUME NEW o \in Ops, NEW r \in Requests, Deposit!WalletSigns(o, r)
      PROVE  PageStays
  <2>1. CASE op[o].status = "PENDING"
    <3>1. /\ thread' = [thread EXCEPT ![r] = [pc |-> "send", op |-> o]]
          /\ depositAwaited' = depositAwaited \cup {r}
      BY <1>5, <2>1 DEF Deposit!WalletSigns
    <3>2. depositAwaited' \subseteq {q \in Requests : thread'[q] # Deposit!Idle}
      BY <1>1, <3>1 DEF Deposit!Idle
    <3> QED
      BY <1>1, <1>5, <2>1, <3>2 DEF Deposit!WalletSigns, Deposit!PhaseOf, Deposit!Mounted
  <2>2. CASE op[o].status # "PENDING"
    BY <1>1, <1>5, <2>2 DEF Deposit!WalletSigns, Deposit!PhaseOf, Deposit!Mounted
  <2> QED
    BY <2>1, <2>2
<1>6. ASSUME NEW r \in Requests, Deposit!LoseAnswer(r)
      PROVE  PageStays
  <2>1. thread[r].op \in Ops
    BY <1>1, <1>6 DEF Deposit!LoseAnswer, DepositInv, ThreadsRecorded
  <2>2. /\ PageOK' /\ depositAwaited' = depositAwaited \ {r}
        /\ depositBuilt' \in {None, depositBuilt}
    BY <1>1, <1>6, <2>1, AnswerPage DEF Deposit!LoseAnswer
  <2> QED
    BY <1>1, <1>6, <2>2 DEF Deposit!LoseAnswer, Deposit!core
<1>7. ASSUME NEW r \in Requests, Deposit!Send(r) \/ Deposit!Poll(r) \/ Deposit!MarkDepositSucceeded(r)
      PROVE  PageStays
  <2>1. thread[r].pc # "idle" /\ depositPrompts' = depositPrompts
    BY <1>7 DEF Deposit!Send, Deposit!Poll, Deposit!MarkDepositSucceeded
  <2>2. \/ \E pc \in {"send", "poll", "mark"} : Deposit!Goto(r, pc)
        \/ \E kind \in {"succeeded", "pending", "error"} : Deposit!Done(r, kind)
    BY <1>7 DEF Deposit!Send, Deposit!Poll, Deposit!MarkDepositSucceeded, Deposit!Fails
  <2> HIDE DEF PageStays
  <2> QED
    BY <2>1, <2>2, ThreadMoves
<1>8. CASE Deposit!Discard \/ Deposit!Sign \/ Deposit!Check \/ Deposit!Reload
  BY <1>1, <1>8 DEF Deposit!Discard, Deposit!Sign, Deposit!Check, Deposit!Reload, Deposit!Fresh,
                    Deposit!Show, Deposit!Mounted, Deposit!core
<1>9. CASE Deposit!Spend \/ \E o \in Ops : Deposit!Include(o) \/ Deposit!Expire(o)
  BY <1>2, <1>9 DEF Deposit!Spend, Deposit!Include, Deposit!Expire, Deposit!core
<1> QED
  BY <1>2, <1>3, <1>4, <1>5, <1>6, <1>7, <1>8, <1>9
  DEF Deposit!Next, Deposit!vars, Deposit!step, Deposit!core

----------------------------------------------------------------------------
(* The rows and the ledger. *)

\* A row keeps its amount and sequence number when its status changes.
LEMMA Restatus ==
  ASSUME Deposit!DepositAssumption, DepositInv, NEW o \in Ops, op[o] # None,
         NEW s \in {"PENDING", "SUCCEEDED", "FAILED"},
         op' = [op EXCEPT ![o].status = s]
  PROVE  /\ op' \in [Ops -> Deposit!Row \cup {None}]
         /\ op'[o].status = s
         /\ \A p \in Ops : op[p] # None =>
              /\ op'[p] # None
              /\ op'[p].amount = op[p].amount /\ op'[p].seq = op[p].seq
              /\ p # o => op'[p].status = op[p].status
         /\ \A p \in Ops : op[p] = None => op'[p] = None
<1>1. op[o] \in Deposit!Row /\ op \in [Ops -> Deposit!Row \cup {None}]
  BY DEF DepositInv, Deposit!TypeOK
<1>2. [op[o] EXCEPT !.status = s] \in Deposit!Row
  BY <1>1 DEF Deposit!Row
<1> QED
  BY <1>1, <1>2 DEF Deposit!Row, Deposit!DepositAssumption

\* Rows that keep amounts and sequence numbers keep what the ledger adds up to.
LEMMA CreditsKept ==
  ASSUME DepositInv, UNCHANGED <<Deposit!ledger, depositSeq, balance, spent>>,
         \A p \in landed : op'[p].amount = op[p].amount /\ op'[p].seq = op[p].seq
  PROVE  IncludedUsed' /\ Deposit!CreditedOnce'
<1>1. Credits' = Credits
  BY DEF Credits, DepositInv, IncludedUsed, Deposit!ledger
<1> QED
  BY <1>1 DEF DepositInv, IncludedUsed, Deposit!CreditedOnce, Credits, Deposit!ledger

\* A new build is no deposit of anybody yet.
LEMMA BuildInv ==
  ASSUME Deposit!DepositAssumption, DepositInv, NEW o \in Ops, NEW a \in DepositAmounts,
         Deposit!BuildDeposit(o, a)
  PROVE  /\ op' \in [Ops -> Deposit!Row \cup {None}]
         /\ \A p \in Ops : op[p] # None => op'[p] = op[p]
         /\ op'[o] # None /\ op'[o].status = "PENDING"
         /\ op[o] = None
<1>1. [status |-> "PENDING", amount |-> a, seq |-> depositSeq + 1] \in Deposit!Row
  BY DEF Deposit!Row, Deposit!DepositAssumption, DepositInv, Deposit!TypeOK
<1> QED
  BY <1>1 DEF Deposit!BuildDeposit, DepositInv, Deposit!TypeOK, Deposit!Row, Deposit!DepositAssumption

\* The ledger takes a deposit once: the one it takes next was not in it.
LEMMA IncludeInv ==
  ASSUME Deposit!DepositAssumption, DepositInv, NEW o \in Ops, Deposit!Include(o)
  PROVE  /\ IncludedUsed' /\ Deposit!CreditedOnce'
         /\ {depositSeq', balance', spent'} \subseteq Nat
         /\ credited \subseteq credited'
<1>1. /\ op \in [Ops -> Deposit!Row \cup {None}] /\ op' = op
      /\ depositSeq \in Nat /\ balance \in Nat /\ spent \in Nat /\ spent' = spent
      /\ credited \subseteq landed /\ landed \subseteq Ops /\ IsFiniteSet(credited)
      /\ \A p \in landed : op[p] \in Deposit!Row
  BY DEF Deposit!Include, DepositInv, Deposit!TypeOK, BuildsOnly, IncludedUsed, Deposit!core
<1>2. op[o] \in Deposit!Row /\ op[o].seq = depositSeq + 1
  BY DEF Deposit!Include, Deposit!Usable, DepositInv, Deposit!TypeOK
<1>3. op[o].amount \in Nat
  BY <1>2 DEF Deposit!Row
<1>4. o \notin landed
  BY <1>1, <1>2 DEF DepositInv, IncludedUsed
<1>5. landed' = landed \cup {o} /\ depositSeq' = depositSeq + 1
  BY DEF Deposit!Include
<1>6. credited' \in {credited, credited \cup {o}} /\ IsFiniteSet(credited')
  BY <1>1, FS_AddElement DEF Deposit!Include
<1>7. IncludedUsed'
  BY <1>1, <1>2, <1>5, <1>6 DEF DepositInv, IncludedUsed, Deposit!Row
<1>8. CASE credited' = credited /\ balance' = balance
  <2>1. Deposit!CreditedOnce'
    BY <1>1, <1>8 DEF DepositInv, Deposit!CreditedOnce
  <2> QED
    BY <1>1, <1>5, <1>7, <1>8, <2>1
<1>9. CASE credited' = credited \cup {o} /\ balance' = balance + op[o].amount
  <2> DEFINE After == [p \in credited' |-> op[p].amount]
             Rest == UNION {UnitsOf(After, p) : p \in credited' \ {o}}
  <2>1. After \in [credited' -> Nat] /\ Credits \in [credited -> Nat] /\ o \in credited'
    BY <1>1, <1>3, <1>9 DEF Credits, Deposit!Row
  <2>2. Total(After) = Cardinality(Rest) + op[o].amount
    <3>1. After[o] = op[o].amount
      BY <2>1
    <3> HIDE DEF After
    <3>2. Total(After) = Cardinality(Rest) + After[o]
      BY <1>6, <2>1, TotalSplit
    <3> QED
      BY <3>1, <3>2
  <2>3. Rest = Units(Credits)
    <3>1. credited' \ {o} = credited /\ DOMAIN Credits = credited
      BY <1>1, <1>4, <1>9 DEF Credits
    <3>2. \A p \in credited : UnitsOf(After, p) = UnitsOf(Credits, p)
      BY <1>9 DEF UnitsOf, Credits
    <3> QED
      BY <3>1, <3>2 DEF Units
  <2>4. Total(Credits) = Cardinality(Rest) /\ Total(Credits) \in Nat
    BY <1>1, <2>1, <2>3, TotalType DEF Total
  <2>5. balance + spent = StartBalance + Total(Credits)
    BY SameTotal DEF DepositInv, Deposit!CreditedOnce, Credits
  <2>6. balance' + spent' = StartBalance + Total(After)
    BY <1>1, <1>3, <1>9, <2>2, <2>4, <2>5 DEF Deposit!DepositAssumption
  <2>7. Deposit!CreditedOnce'
    <3>1. Total([p \in credited' |-> op'[p].amount]) = Total(After)
      BY <1>1
    <3> QED
      BY <2>6, <3>1, SameTotal DEF Deposit!CreditedOnce
  <2> QED
    BY <1>1, <1>3, <1>5, <1>7, <1>9, <2>7
<1> QED
  BY <1>8, <1>9 DEF Deposit!Include

\* What core-go and the ledger hold is of the right kind and fits together.
CoreOK ==
  /\ op \in [Ops -> Deposit!Row \cup {None}]
  /\ thread \in [Requests -> [pc : {"idle", "send", "poll", "mark"}, op : Ops \cup {None}]]
  /\ {depositSeq, balance, spent} \subseteq Nat
  /\ sent \cup landed \subseteq Ops
  /\ \A o \in sent \cup landed : op[o] # None
  /\ ThreadsRecorded /\ MarkedCredited /\ Deposit!SucceededIsCredited
  /\ IncludedUsed /\ Deposit!CreditedOnce

\* Rows that were written stay.
RowsStay == \A o \in Ops : op[o] # None => op'[o] # None

\* A handler changes the status of its row or not, and ends or goes on.
LEMMA HandlerStep ==
  ASSUME Deposit!DepositAssumption, DepositInv, NEW r \in Requests,
         NEW o \in Ops, op[o] # None,
         \/ op' = op
         \/ \E s \in {"PENDING", "SUCCEEDED", "FAILED"} :
              op' = [op EXCEPT ![o].status = s] /\ (s = "SUCCEEDED" => o \in credited),
         NEW t \in [pc : {"idle", "send", "poll", "mark"}, op : Ops \cup {None}],
         thread' = [thread EXCEPT ![r] = t],
         t = Deposit!Idle \/ t.op = o, t.pc = "mark" => o \in credited,
         UNCHANGED <<depositSeq, Deposit!ledger, balance, spent>>,
         sent' \subseteq sent \cup {o}
  PROVE  CoreOK' /\ RowsStay
<1> USE DEF CoreOK, RowsStay
<1>1. CoreOK
  BY DEF DepositInv, Deposit!TypeOK, BuildsOnly
<1> DEFINE RowsKept ==
             /\ op' \in [Ops -> Deposit!Row \cup {None}] /\ RowsStay
             /\ \A p \in Ops : op[p] # None => op'[p].amount = op[p].amount /\ op'[p].seq = op[p].seq
             /\ \A p \in Ops : p # o => op'[p] = op[p]
             /\ op'[o].status = op[o].status \/ (op'[o].status = "SUCCEEDED" => o \in credited)
<1>2. RowsKept
  <2>1. CASE op' = op
    BY <1>1, <2>1
  <2>2. ASSUME NEW s \in {"PENDING", "SUCCEEDED", "FAILED"},
               op' = [op EXCEPT ![o].status = s], s = "SUCCEEDED" => o \in credited
        PROVE  RowsKept
    <3>1. /\ op' \in [Ops -> Deposit!Row \cup {None}] /\ op'[o].status = s
          /\ \A p \in Ops : op[p] # None =>
               /\ op'[p] # None
               /\ op'[p].amount = op[p].amount /\ op'[p].seq = op[p].seq
      BY <2>2, Restatus
    <3>2. \A p \in Ops : p # o => op'[p] = op[p]
      BY <1>1, <2>2
    <3> QED
      BY <2>2, <3>1, <3>2
  <2> QED
    BY <2>1, <2>2
<1>3. UNCHANGED <<landed, credited>>
  BY DEF Deposit!ledger
<1>4. IncludedUsed' /\ Deposit!CreditedOnce'
  BY <1>1, <1>2, CreditsKept
<1>5. Deposit!SucceededIsCredited'
  BY <1>1, <1>2, <1>3 DEF Deposit!SucceededIsCredited
<1>6. ThreadsRecorded' /\ MarkedCredited'
  BY <1>1, <1>2, <1>3 DEF ThreadsRecorded, MarkedCredited, Deposit!Idle
<1> QED
  BY <1>1, <1>2, <1>3, <1>4, <1>5, <1>6

LEMMA CoreStep ==
  ASSUME Deposit!DepositAssumption, DepositInv, [Deposit!Next]_(Deposit!vars)
  PROVE  CoreOK' /\ RowsStay
<1> USE DEF CoreOK, RowsStay
<1>1. CoreOK
  BY DEF DepositInv, Deposit!TypeOK, BuildsOnly
<1>2. CASE UNCHANGED <<Deposit!core, Deposit!chain>>
  BY <1>1, <1>2 DEF Deposit!core, Deposit!chain, Deposit!ledger, ThreadsRecorded, MarkedCredited,
                    Deposit!SucceededIsCredited, IncludedUsed, Deposit!CreditedOnce
<1>3. ASSUME NEW o \in Ops, NEW a \in DepositAmounts, Deposit!BuildDeposit(o, a)
      PROVE  CoreOK' /\ RowsStay
  <2>1. UNCHANGED <<thread, Deposit!chain, Deposit!ledger>>
    BY <1>3 DEF Deposit!BuildDeposit, Deposit!chain
  <2>2. IncludedUsed' /\ Deposit!CreditedOnce'
    BY <1>1, <1>3, <2>1, BuildInv, CreditsKept DEF Deposit!chain
  <2>3. /\ op' \in [Ops -> Deposit!Row \cup {None}] /\ op'[o].status = "PENDING" /\ RowsStay
        /\ \A p \in Ops \ {o} : op'[p] = op[p]
    BY <1>1, <1>3, BuildInv DEF Deposit!BuildDeposit
  <2>4. Deposit!SucceededIsCredited'
    BY <1>1, <2>1, <2>3 DEF Deposit!ledger, Deposit!SucceededIsCredited
  <2>5. ThreadsRecorded' /\ MarkedCredited'
    BY <1>1, <2>1, <2>3 DEF Deposit!ledger, ThreadsRecorded, MarkedCredited
  <2> QED
    BY <1>1, <2>1, <2>2, <2>3, <2>4, <2>5 DEF Deposit!chain, Deposit!ledger
<1>4. /\ Deposit!Idle \in [pc : {"idle", "send", "poll", "mark"}, op : Ops \cup {None}]
      /\ Deposit!Idle.pc # "mark"
  BY DEF Deposit!Idle
<1>5. ASSUME NEW o \in Ops, NEW r \in Requests, Deposit!WalletSigns(o, r)
      PROVE  CoreOK' /\ RowsStay
  <2>1. op[o] # None /\ UNCHANGED <<op, sent, depositSeq, Deposit!ledger, balance, spent>>
    BY <1>5 DEF Deposit!WalletSigns, Deposit!chain, DepositInv, Deposit!TypeOK
  <2>2. CASE thread' = [thread EXCEPT ![r] = [pc |-> "send", op |-> o]]
    <3> DEFINE t == [pc |-> "send", op |-> o]
    <3>1. t \in [pc : {"idle", "send", "poll", "mark"}, op : Ops \cup {None}]
          /\ t.op = o /\ t.pc # "mark"
      OBVIOUS
    <3> HIDE DEF t, CoreOK, RowsStay
    <3> QED
      BY <2>1, <2>2, <3>1, HandlerStep DEF t
  <2>3. CASE thread' = thread
    BY <1>2, <2>1, <2>3 DEF Deposit!core, Deposit!chain
  <2> QED
    BY <1>5, <2>2, <2>3 DEF Deposit!WalletSigns
<1>6. ASSUME NEW r \in Requests, thread[r].pc # "idle",
             UNCHANGED <<depositSeq, Deposit!ledger, balance, spent>>,
             sent' \subseteq sent \cup {thread[r].op},
             \/ \E pc \in {"send", "poll", "mark"} :
                  Deposit!Goto(r, pc) /\ (pc = "mark" => thread[r].op \in credited)
             \/ \E kind \in {"succeeded", "pending", "error"} : op' = op /\ Deposit!Done(r, kind)
             \/ Deposit!Fails(r)
             \/ /\ op' = [op EXCEPT ![thread[r].op].status = "SUCCEEDED"]
                /\ Deposit!Done(r, "succeeded") /\ thread[r].op \in credited
      PROVE  CoreOK' /\ RowsStay
  <2> DEFINE o == thread[r].op
  <2>1. o \in Ops /\ op[o] # None
    BY <1>6, ThreadOp
  <2>2. ASSUME NEW pc \in {"send", "poll", "mark"}, Deposit!Goto(r, pc), pc = "mark" => o \in credited
        PROVE  CoreOK' /\ RowsStay
    <3> DEFINE t == [thread[r] EXCEPT !.pc = pc]
    <3>1. /\ t \in [pc : {"idle", "send", "poll", "mark"}, op : Ops \cup {None}]
          /\ t.op = o /\ t.pc = pc
      BY <1>1
    <3>2. thread' = [thread EXCEPT ![r] = t] /\ op' = op
      BY <2>2 DEF Deposit!Goto
    <3> HIDE DEF t, o, CoreOK, RowsStay
    <3> QED
      BY <1>6, <2>1, <2>2, <3>1, <3>2, HandlerStep DEF o
  <2>3. ASSUME thread' = [thread EXCEPT ![r] = Deposit!Idle],
               \/ op' = op
               \/ \E s \in {"PENDING", "SUCCEEDED", "FAILED"} :
                    op' = [op EXCEPT ![o].status = s] /\ (s = "SUCCEEDED" => o \in credited)
        PROVE  CoreOK' /\ RowsStay
    <3> HIDE DEF o, CoreOK, RowsStay
    <3> QED
      BY <1>4, <1>6, <2>1, <2>3, HandlerStep DEF o
  <2> QED
    BY <1>6, <2>2, <2>3 DEF Deposit!Done, Deposit!Fails
<1>7. ASSUME NEW r \in Requests, Deposit!Send(r)
      PROVE  CoreOK' /\ RowsStay
  BY <1>6, <1>7 DEF Deposit!Send
<1>8. ASSUME NEW r \in Requests, Deposit!Poll(r)
      PROVE  CoreOK' /\ RowsStay
  BY <1>6, <1>8 DEF Deposit!Poll, Deposit!PollDone, Deposit!chain
<1>9. ASSUME NEW r \in Requests, Deposit!MarkDepositSucceeded(r)
      PROVE  CoreOK' /\ RowsStay
  <2>1. thread[r].op \in credited
    BY <1>1, <1>9 DEF Deposit!MarkDepositSucceeded, MarkedCredited
  <2> QED
    BY <1>6, <1>9, <2>1 DEF Deposit!MarkDepositSucceeded, Deposit!chain
<1>10. ASSUME NEW o \in Ops, Deposit!Include(o)
       PROVE  CoreOK' /\ RowsStay
  BY <1>1, <1>10, IncludeInv
  DEF Deposit!Include, Deposit!core, ThreadsRecorded, MarkedCredited, Deposit!SucceededIsCredited
<1>11. ASSUME NEW o \in Ops, Deposit!Expire(o)
       PROVE  CoreOK' /\ RowsStay
  <2>1. /\ UNCHANGED <<Deposit!core, depositSeq, Deposit!ledger, balance, spent>>
        /\ sent' \subseteq sent
    BY <1>11 DEF Deposit!Expire
  <2> QED
    BY <1>1, <2>1 DEF Deposit!core, Deposit!ledger, ThreadsRecorded, MarkedCredited,
                      Deposit!SucceededIsCredited, IncludedUsed, Deposit!CreditedOnce
<1>12. CASE Deposit!Spend
  <2>1. /\ UNCHANGED <<Deposit!core, sent, landed, credited>>
        /\ depositSeq' = depositSeq + 1 /\ balance' = 0 /\ spent' = spent + balance
    BY <1>12 DEF Deposit!Spend, Deposit!ledger
  <2>2. IncludedUsed'
    <3>1. \A o \in landed : op[o].seq \in Nat
      BY <1>1 DEF Deposit!Row
    <3> QED
      BY <1>1, <2>1, <3>1 DEF Deposit!core, IncludedUsed
  <2>3. Deposit!CreditedOnce'
    <3>1. balance' + spent' = balance + spent
      BY <1>1, <2>1
    <3> QED
      BY <1>1, <2>1, <3>1 DEF Deposit!core, Deposit!CreditedOnce
  <2> QED
    BY <1>1, <2>1, <2>2, <2>3
    DEF Deposit!core, ThreadsRecorded, MarkedCredited, Deposit!SucceededIsCredited
<1>13. CASE \/ \E o \in Ops : Deposit!WalletRejects(o)
            \/ \E r \in Requests : Deposit!LoseAnswer(r)
  BY <1>2, <1>13 DEF Deposit!WalletRejects, Deposit!LoseAnswer
<1>14. CASE Deposit!Discard \/ Deposit!Sign \/ Deposit!Check \/ Deposit!Reload
  BY <1>2, <1>14 DEF Deposit!Discard, Deposit!Sign, Deposit!Check, Deposit!Reload
<1> QED
  BY <1>2, <1>3, <1>5, <1>7, <1>8, <1>9, <1>10, <1>11, <1>12, <1>13, <1>14 DEF Deposit!Next, Deposit!vars

LEMMA DepositStepInv ==
  ASSUME Deposit!DepositAssumption PROVE DepositInv /\ [Deposit!Next]_(Deposit!vars) => DepositInv'
<1> SUFFICES ASSUME DepositInv, [Deposit!Next]_(Deposit!vars) PROVE DepositInv'
  OBVIOUS
<1>1. CoreOK' /\ RowsStay /\ PageStays
  BY CoreStep, PageStep
<1>2. depositBuilt \in Ops \cup {None} /\ (depositBuilt # None => op[depositBuilt] # None)
  BY DEF DepositInv, Deposit!TypeOK, BuiltRecorded
<1>3. /\ depositPrompts' \subseteq Ops /\ \A o \in depositPrompts' : op'[o] # None
      /\ depositAwaited' \subseteq Requests
  BY <1>1, <1>2 DEF PageStays, RowsStay, DepositInv, Deposit!TypeOK, BuildsOnly
<1>4. BuiltRecorded'
  BY <1>1, <1>2 DEF PageStays, RowsStay, BuiltRecorded
<1>5. Deposit!TypeOK'
  BY <1>1, <1>3 DEF CoreOK, PageStays, PageOK, IncludedUsed, Deposit!TypeOK
<1> QED
  BY <1>1, <1>3, <1>4, <1>5 DEF CoreOK, DepositInv, BuildsOnly

\* handleDepositSubmit records success only of a deposit the ledger credited:
\* whatever failed on chain, was discarded, timed out, was lost, signed late or
\* submitted by two requests at once, a transaction that was included without
\* its credit is never marked.
THEOREM DepositsConfirmed == Deposit!Spec => []SucceededIsCredited
<1>1. Deposit!Init => DepositInv
  BY EventPagesAssumption, DepositInitInv
<1>2. DepositInv /\ [Deposit!Next]_(Deposit!vars) => DepositInv'
  BY EventPagesAssumption, DepositStepInv
<1>3. DepositInv => SucceededIsCredited
  BY DEF DepositInv, SucceededIsCredited
<1> QED
  BY <1>1, <1>2, <1>3, PTL DEF Deposit!Spec

\* A deposit credits the balance once, however often its signature is sent or
\* its submit retried: what is there and what was taken elsewhere is what the
\* page began with and what the credited deposits add up to.
THEOREM DepositsCreditOnce == Deposit!Spec => []CreditedOnce
<1>1. Deposit!Init => DepositInv
  BY EventPagesAssumption, DepositInitInv
<1>2. DepositInv /\ [Deposit!Next]_(Deposit!vars) => DepositInv'
  BY EventPagesAssumption, DepositStepInv
<1>3. DepositInv => CreditedOnce
  BY DEF DepositInv, CreditedOnce
<1> QED
  BY <1>1, <1>2, <1>3, PTL DEF Deposit!Spec

(***************************************************************************)
(* The funding and the go-live screen.                                     *)
(***************************************************************************)

\* A submit being served is for a build, and the page waits for such submits.
SubmitsHaveBuild ==
  /\ \A r \in Requests : req[r].pc # "idle" => req[r].build \in Builds
  /\ \A r \in awaited : r \in Requests /\ req[r].pc # "idle"

\* On /fund no build with another sum got past the button, however far it is
\* by now: in the wallet, at core-go, on the network or on the ledger.
SignedAsShown ==
  screen = "fund" =>
    /\ (prompts \cup pool \cup included) \cap WrongSum = {}
    /\ \A r \in Requests : req[r].pc # "idle" => req[r].build \notin WrongSum

\* A handler that is about to mark saw its build succeed, and so did the one
\* that moved the event row.
MarksIncluded ==
  /\ \A r \in Requests : req[r].pc = "mark" => req[r].build \in included
  /\ status # "before" => recorded \in included

\* A finished operation row belongs to the move of the event row: no handler
\* moves it again, and no build is offered any more.
RowStays == row.status = "SUCCEEDED" => status # "before" /\ Screen!SameCall(row.build, recorded)

\* "Confirmed" is about the build that moved the event row.
ConfirmedStays ==
  submitted # None /\ submitted.status = "succeeded" =>
    status # "before" /\ recorded = submitted.build

\* The inductive invariant.
ScreenInv ==
  /\ Screen!TypeOK
  /\ SubmitsHaveBuild
  /\ SignedAsShown
  /\ MarksIncluded
  /\ RowStays
  /\ ConfirmedStays

LEMMA ScreenInitInv == Screen!Init => ScreenInv
<1> SUFFICES ASSUME Screen!Init PROVE ScreenInv
  OBVIOUS
<1>1. req \in [Requests -> [pc : {"idle", "send", "poll", "mark"}, build : Builds \cup {None}]]
  BY DEF Screen!Init, Screen!Idle
<1>2. Screen!TypeOK
  BY <1>1 DEF Screen!Init, Screen!TypeOK
<1>3. SubmitsHaveBuild /\ SignedAsShown /\ MarksIncluded /\ RowStays /\ ConfirmedStays
  BY DEF Screen!Init, Screen!Idle, SubmitsHaveBuild, SignedAsShown, MarksIncluded, RowStays,
         ConfirmedStays
<1> QED
  BY <1>2, <1>3 DEF ScreenInv

\* What is shown is of the right kind.
ShownOK ==
  /\ at \in {"screen", "event"} /\ covered \in BOOLEAN
  /\ built \in Builds \cup {None}
  /\ submitted \in [build : Builds, status : {"pending", "succeeded"}] \cup {None}
  /\ failure \in [code : Screen!Codes, build : Builds \cup {None}] \cup {None}

\* A refusal shows its code, keeps the build or drops it.
LEMMA ScreenFails ==
  ASSUME ScreenInv, NEW code \in Screen!Codes, NEW b \in Builds \cup {None},
         Screen!HandleFailure(code, b)
  PROVE  /\ at' \in {"screen", "event"} /\ covered' \in BOOLEAN /\ built' \in {built, None}
         /\ failure' \in [code : Screen!Codes, build : Builds \cup {None}] \cup {None}
<1> DEFINE f == [code |-> code, build |-> b]
<1>1. /\ at \in {"screen", "event"} /\ covered \in BOOLEAN /\ funds \in BOOLEAN
      /\ failure \in [code : Screen!Codes, build : Builds \cup {None}] \cup {None}
      /\ f \in [code : Screen!Codes, build : Builds \cup {None}]
  BY DEF ScreenInv, Screen!TypeOK
<1>2. CASE screen = "fund"
  BY <1>1, <1>2 DEF Screen!HandleFailure, Screen!FundFails, Screen!Fail
<1>3. CASE screen # "fund" /\ code \in {"other", "deadline"}
  BY <1>1, <1>3 DEF Screen!HandleFailure, Screen!StartFails, Screen!Fail
<1>4. CASE screen # "fund" /\ code \notin {"other", "deadline"}
  BY <1>1, <1>4 DEF Screen!HandleFailure, Screen!StartFails, Screen!Fail, Screen!CheckStatus
<1> QED
  BY <1>2, <1>3, <1>4

\* An answer is about the build that was submitted.
LEMMA ScreenAnswer ==
  ASSUME ScreenInv, NEW r \in Requests, req[r].pc # "idle",
         NEW code \in Screen!Codes \cup {"pending", "succeeded"}, Screen!Answer(r, code)
  PROVE  /\ ShownOK' /\ awaited' = awaited \ {r}
         /\ \/ UNCHANGED submitted
            \/ submitted' = [build |-> req[r].build, status |-> code]
<1>1. ShownOK /\ req[r].build \in Builds
  BY DEF ScreenInv, Screen!TypeOK, ShownOK, SubmitsHaveBuild
<1>2. CASE r \notin awaited
  BY <1>1, <1>2 DEF Screen!Answer, Screen!shown, ShownOK
<1>3. CASE r \in awaited /\ code \in {"pending", "succeeded"}
  <2> DEFINE s == [build |-> req[r].build, status |-> code]
  <2>1. s \in [build : Builds, status : {"pending", "succeeded"}]
    BY <1>1, <1>3
  <2>2. /\ Screen!OnSigned(req[r].build, code) /\ UNCHANGED <<covered, built>>
        /\ awaited' = awaited \ {r}
    BY <1>3 DEF Screen!Answer
  <2>3. /\ at' \in {at, "event"} /\ failure' = None
        /\ submitted' \in {submitted, s}
    BY <2>2 DEF Screen!OnSigned, Screen!onCreateSigned, Screen!onSigned
  <2> QED
    BY <1>1, <2>1, <2>2, <2>3 DEF ShownOK
<1>4. CASE r \in awaited /\ code \notin {"pending", "succeeded"}
  <2>1. /\ Screen!HandleFailure(code, req[r].build) /\ UNCHANGED submitted
        /\ awaited' = awaited \ {r}
    BY <1>4 DEF Screen!Answer
  <2> QED
    BY <1>1, <1>4, <2>1, ScreenFails DEF ShownOK
<1> QED
  BY <1>2, <1>3, <1>4

\* A handler ends, or its answer is lost: only the one that moves the event row,
\* and can as nobody has, calls its build confirmed.
LEMMA ScreenAnswered ==
  ASSUME ScreenInv, NEW r \in Requests, req[r].pc # "idle",
         NEW code \in Screen!Codes \cup {"pending", "succeeded"}, Screen!Answer(r, code),
         UNCHANGED req \/ req' = [req EXCEPT ![r] = Screen!Idle],
         \/ /\ UNCHANGED <<status, recorded>> /\ code # "succeeded"
            /\ row' \in {row, [row EXCEPT !.status = "FAILED"]}
         \/ /\ status = "before" /\ status' = "after"
            /\ recorded' = req[r].build /\ recorded' \in included
            /\ row' = [row EXCEPT !.status = "SUCCEEDED"]
            /\ Screen!SameCall(row.build, recorded'),
         pool' \subseteq pool \cup {req[r].build},
         UNCHANGED <<Screen!world, seq, seqOf, Screen!ledger, prompts>>
  PROVE  ScreenInv'
<1>1. /\ Screen!TypeOK /\ SubmitsHaveBuild /\ SignedAsShown
      /\ MarksIncluded /\ RowStays /\ ConfirmedStays
  BY DEF ScreenInv
<1>2. /\ ShownOK' /\ awaited' = awaited \ {r}
      /\ UNCHANGED submitted \/ submitted' = [build |-> req[r].build, status |-> code]
  BY ScreenAnswer
<1>3. /\ req' \in [Requests -> [pc : {"idle", "send", "poll", "mark"}, build : Builds \cup {None}]]
      /\ \A q \in Requests : req'[q] = req[q] \/ req'[q].pc = "idle"
      /\ \A q \in Requests \ {r} : req'[q] = req[q]
  BY <1>1 DEF Screen!TypeOK, Screen!Idle
<1>4. /\ row' \in [build : Builds \cup {None}, status : {"none", "PENDING", "SUCCEEDED", "FAILED"}]
      /\ status' \in {"before", "after", "beyond"} /\ recorded' \in Builds \cup {None}
  BY <1>1 DEF Screen!TypeOK, SubmitsHaveBuild
<1>5. awaited' \subseteq {q \in Requests : req'[q] # Screen!Idle}
  BY <1>1, <1>2, <1>3 DEF Screen!TypeOK
<1>6. UNCHANGED <<screen, funds, deadlineAhead, included, reverted>>
  BY DEF Screen!world, Screen!ledger
<1>7. Screen!TypeOK'
  BY <1>1, <1>2, <1>3, <1>4, <1>5, <1>6 DEF Screen!TypeOK, ShownOK, SubmitsHaveBuild
<1>8. SubmitsHaveBuild' /\ SignedAsShown'
  BY <1>1, <1>2, <1>3, <1>6 DEF SubmitsHaveBuild, SignedAsShown
<1>9. MarksIncluded' /\ RowStays'
  BY <1>1, <1>3, <1>6 DEF MarksIncluded, RowStays, Screen!SameCall, Screen!TypeOK
<1>10. ConfirmedStays'
  BY <1>1, <1>2 DEF ConfirmedStays
<1> QED
  BY <1>7, <1>8, <1>9, <1>10 DEF ScreenInv

\* The page alone moves, or the world around it.
LEMMA ScreenShown ==
  ASSUME ScreenInv, ShownOK',
         submitted' \in {submitted, None},
         \/ UNCHANGED status
         \/ status = "after" /\ status' = "beyond",
         {funds, deadlineAhead}' \subseteq BOOLEAN,
         UNCHANGED <<screen, recorded, req, seq, pool, Screen!ledger>>,
         row' \in [build : Builds \cup {None}, status : {"none", "PENDING", "SUCCEEDED", "FAILED"}],
         row' = row \/ row'.status = "PENDING",
         seqOf' \in [Builds -> Nat],
         prompts' \subseteq Builds,
         screen = "fund" => prompts' \cap WrongSum = {},
         awaited' \subseteq awaited
  PROVE  ScreenInv'
<1>1. /\ Screen!TypeOK /\ SubmitsHaveBuild /\ SignedAsShown
      /\ MarksIncluded /\ RowStays /\ ConfirmedStays
      /\ UNCHANGED <<included, reverted>>
  BY DEF ScreenInv, Screen!ledger
<1>2. Screen!TypeOK'
  BY <1>1 DEF Screen!TypeOK, ShownOK
<1>3. SubmitsHaveBuild' /\ SignedAsShown'
  BY <1>1 DEF SubmitsHaveBuild, SignedAsShown
<1>4. MarksIncluded' /\ RowStays' /\ ConfirmedStays'
  BY <1>1 DEF MarksIncluded, RowStays, Screen!SameCall, ConfirmedStays
<1> QED
  BY <1>2, <1>3, <1>4 DEF ScreenInv

LEMMA ScreenBuild ==
  ASSUME ScreenInv, NEW b \in Builds, NEW refusal \in Screen!Codes \cup {None},
         submitted = None, Screen!Build(b, refusal)
  PROVE  ScreenInv'
<1>1. Screen!TypeOK /\ ShownOK
  BY DEF ScreenInv, Screen!TypeOK, ShownOK
<1>2. UNCHANGED <<status, recorded, req, seq, pool, Screen!ledger, screen, funds, deadlineAhead,
                  submitted, prompts, awaited>>
  BY DEF Screen!Build, Screen!world, Screen!asked
<1>3. /\ screen = "fund" => prompts' \cap WrongSum = {}
      /\ prompts' \subseteq Builds /\ {funds, deadlineAhead}' \subseteq BOOLEAN
  BY <1>1, <1>2 DEF ScreenInv, SignedAsShown, Screen!TypeOK
<1>4. CASE refusal # None
  <2>1. Screen!HandleFailure(refusal, None) /\ UNCHANGED <<row, seqOf>>
    BY <1>4 DEF Screen!Build
  <2>2. ShownOK'
    BY <1>1, <1>2, <1>4, <2>1, ScreenFails DEF ShownOK
  <2> QED
    BY <1>1, <1>2, <1>3, <2>1, <2>2, ScreenShown DEF Screen!TypeOK
<1>5. CASE refusal = None
  <2>1. /\ row' = [build |-> b, status |-> "PENDING"]
        /\ seqOf' = [seqOf EXCEPT ![b] = seq + 1]
        /\ \/ built' = b /\ failure' = None
           \/ built' = None /\ failure' = [code |-> "other", build |-> None]
        /\ UNCHANGED <<at, covered>>
    BY <1>5 DEF Screen!Build, Screen!Fail
  <2>2. /\ row' \in [build : Builds \cup {None}, status : {"none", "PENDING", "SUCCEEDED", "FAILED"}]
        /\ seqOf' \in [Builds -> Nat]
        /\ [code |-> "other", build |-> None] \in [code : Screen!Codes, build : Builds \cup {None}]
        /\ row'.status = "PENDING"
    BY <1>1, <2>1 DEF Screen!TypeOK, Screen!Codes
  <2>3. ShownOK'
    BY <1>1, <1>2, <2>1, <2>2 DEF ShownOK
  <2> QED
    BY <1>2, <1>3, <2>2, <2>3, ScreenShown
<1> QED
  BY <1>4, <1>5

LEMMA ScreenOrganizer ==
  ASSUME ScreenInv,
         \/ \E b \in Builds : Screen!startCreate(b) \/ Screen!start(b) \/ Screen!WalletRejects(b)
         \/ Screen!Discard \/ Screen!Sign \/ Screen!checkCreate \/ Screen!check
         \/ Screen!FundPage \/ Screen!StartPage \/ Screen!Deposited \/ Screen!Elsewhere
  PROVE  ScreenInv'
<1>1. Screen!TypeOK /\ ShownOK /\ SignedAsShown
  BY DEF ScreenInv, Screen!TypeOK, ShownOK
<1> USE DEF Screen!event, Screen!chain, Screen!ledger, Screen!world, Screen!shown, Screen!asked
<1>2. /\ {funds, deadlineAhead} \subseteq BOOLEAN /\ prompts \subseteq Builds
      /\ row \in [build : Builds \cup {None}, status : {"none", "PENDING", "SUCCEEDED", "FAILED"}]
      /\ seqOf \in [Builds -> Nat]
      /\ screen = "fund" => prompts \cap WrongSum = {}
  BY <1>1 DEF Screen!TypeOK, SignedAsShown
<1>3. ASSUME NEW b \in Builds, Screen!startCreate(b) \/ Screen!start(b)
      PROVE  ScreenInv'
  <2>1. /\ Screen!CreateRefusal \in Screen!Codes \cup {None}
        /\ Screen!StartRefusal \in Screen!Codes \cup {None}
    BY DEF Screen!CreateRefusal, Screen!StartRefusal, Screen!Codes
  <2>2. submitted = None
    BY <1>3 DEF Screen!startCreate, Screen!start, Screen!MayCreate, Screen!MayStart
  <2> QED
    BY <1>3, <2>1, <2>2, ScreenBuild DEF Screen!startCreate, Screen!start
<1>4. ASSUME NEW b \in Builds, Screen!WalletRejects(b)
      PROVE  ScreenInv'
  BY <1>1, <1>2, <1>4, ScreenShown DEF Screen!WalletRejects, ShownOK
<1>5. CASE Screen!Discard
  BY <1>1, <1>2, <1>5, ScreenShown DEF Screen!Discard, ShownOK
<1>6. CASE Screen!Sign
  <2>1. /\ prompts' = prompts \cup {built} /\ built \in Builds
        /\ ~Screen!rewardMismatch(built)
        /\ UNCHANGED <<Screen!event, req, Screen!chain, Screen!world, Screen!shown, awaited>>
    BY <1>1, <1>6 DEF Screen!Sign, ShownOK
  <2>2. screen = "fund" => prompts' \cap WrongSum = {}
    BY <1>2, <2>1 DEF Screen!rewardMismatch
  <2> QED
    BY <1>1, <1>2, <2>1, <2>2, ScreenShown DEF ShownOK
<1>7. CASE Screen!checkCreate \/ Screen!check
  <2>1. /\ Screen!CheckStatus(failure)
        /\ UNCHANGED <<Screen!event, req, Screen!chain, Screen!world, covered, built, submitted,
                       Screen!asked>>
    BY <1>7 DEF Screen!checkCreate, Screen!check, Screen!Check
  <2>2. ShownOK'
    BY <1>1, <2>1 DEF Screen!CheckStatus, ShownOK
  <2> QED
    BY <1>2, <2>1, <2>2, ScreenShown
<1>8. CASE Screen!FundPage \/ Screen!StartPage
  <2>1. /\ at' \in {"screen", "event"} /\ covered' = funds /\ built' = None /\ submitted' = None
        /\ failure' = None /\ prompts' = {} /\ awaited' = {}
        /\ UNCHANGED <<Screen!event, req, Screen!chain, Screen!world>>
    BY <1>8 DEF Screen!FundPage, Screen!StartPage, Screen!Opened
  <2>2. ShownOK'
    BY <1>2, <2>1 DEF ShownOK
  <2> QED
    BY <1>2, <2>1, <2>2, ScreenShown
<1>9. CASE Screen!Deposited
  BY <1>1, <1>2, <1>9, ScreenShown DEF Screen!Deposited, ShownOK
<1>10. CASE Screen!Elsewhere
  <2>1. /\ UNCHANGED <<screen, recorded, row, req, Screen!chain, Screen!shown, Screen!asked>>
        /\ UNCHANGED status \/ (status = "after" /\ status' = "beyond")
    BY <1>10 DEF Screen!Elsewhere
  <2>2. funds' \in BOOLEAN /\ deadlineAhead' \in BOOLEAN
    BY <1>2, <1>10 DEF Screen!Elsewhere
  <2>3. ShownOK'
    BY <1>1, <2>1 DEF ShownOK
  <2> QED
    BY <1>2, <2>1, <2>2, <2>3, ScreenShown
<1> QED
  BY <1>3, <1>4, <1>5, <1>6, <1>7, <1>8, <1>9, <1>10

\* A handler or a transaction goes on.
LEMMA ScreenMoved ==
  ASSUME ScreenInv, Screen!TypeOK',
         UNCHANGED <<screen, Screen!event, submitted>>,
         prompts' \subseteq prompts,
         pool' \subseteq pool \cup {req[r].build : r \in {q \in Requests : req[q].pc # "idle"}},
         included \subseteq included', included' \subseteq included \cup pool,
         \/ UNCHANGED <<req, awaited>>
         \/ \E r \in Requests, pc \in {"send", "poll", "mark"} :
              /\ req' = [req EXCEPT ![r].pc = pc] /\ UNCHANGED awaited
              /\ req[r].pc # "idle" /\ (pc = "mark" => req[r].build \in included)
         \/ \E r \in Requests, b \in prompts :
              /\ req' = [req EXCEPT ![r] = [pc |-> "send", build |-> b]]
              /\ awaited' = awaited \cup {r}
  PROVE  ScreenInv'
<1>1. /\ Screen!TypeOK /\ SubmitsHaveBuild /\ SignedAsShown
      /\ MarksIncluded /\ RowStays /\ ConfirmedStays
      /\ UNCHANGED <<status, recorded, row>>
  BY DEF ScreenInv, Screen!event
<1>2. \A q \in Requests :
        \/ req'[q].pc = "idle"
        \/ req'[q].build = req[q].build /\ req[q].pc # "idle"
        \/ req'[q].build \in prompts
  BY <1>1 DEF Screen!TypeOK
<1>3. \A q \in awaited' : q \in Requests /\ req'[q].pc # "idle"
  BY <1>1 DEF Screen!TypeOK, SubmitsHaveBuild
<1>4. SubmitsHaveBuild'
  BY <1>1, <1>2, <1>3 DEF Screen!TypeOK, SubmitsHaveBuild
<1>5. SignedAsShown'
  BY <1>1, <1>2 DEF SignedAsShown
<1>6. MarksIncluded'
  BY <1>1 DEF Screen!TypeOK, MarksIncluded
<1>7. RowStays' /\ ConfirmedStays'
  BY <1>1 DEF RowStays, Screen!SameCall, ConfirmedStays
<1> QED
  BY <1>4, <1>5, <1>6, <1>7 DEF ScreenInv

LEMMA ScreenServer ==
  ASSUME ScreenInv,
         \/ \E b \in Builds : Screen!Include(b) \/ \E r \in Requests : Screen!WalletSigns(b, r)
         \/ \E r \in Requests :
              Screen!LoseAnswer(r) \/ Screen!Send(r) \/ Screen!Poll(r) \/ Screen!Mark(r)
  PROVE  ScreenInv'
<1>1. Screen!TypeOK /\ SubmitsHaveBuild /\ ShownOK
  BY DEF ScreenInv, Screen!TypeOK, ShownOK
<1>2. ASSUME NEW b \in Builds, Screen!Include(b)
      PROVE  ScreenInv'
  <2>1. /\ b \in pool /\ pool' = pool \ {b} /\ seq' \in {seq, seq + 1}
        /\ included' \in {included, included \cup {b}}
        /\ reverted' \in {reverted, reverted \cup {b}}
        /\ UNCHANGED <<Screen!event, req, seqOf, Screen!world, Screen!shown, Screen!asked>>
    BY <1>2 DEF Screen!Include, Screen!ledger
  <2>2. Screen!TypeOK'
    BY <1>1, <2>1 DEF Screen!TypeOK, Screen!event, Screen!world, Screen!shown, Screen!asked
  <2> QED
    BY <2>1, <2>2, ScreenMoved DEF Screen!event, Screen!world, Screen!shown, Screen!asked
<1>3. ASSUME NEW b \in Builds, NEW r \in Requests, Screen!WalletSigns(b, r)
      PROVE  ScreenInv'
  <2>1. /\ b \in prompts /\ prompts' = prompts \ {b}
        /\ UNCHANGED <<Screen!event, Screen!chain, Screen!world, submitted>>
    BY <1>3 DEF Screen!WalletSigns, Screen!shown
  <2>2. CASE UNCHANGED <<req, awaited>>
    <3>1. Screen!SubmitRefusal(b) \in Screen!Codes \cup {None}
      BY DEF Screen!SubmitRefusal, Screen!Codes
    <3>2. \/ UNCHANGED Screen!shown
          \/ /\ Screen!SubmitRefusal(b) # None
             /\ Screen!HandleFailure(Screen!SubmitRefusal(b), b)
      BY <1>3 DEF Screen!WalletSigns
    <3>3. ShownOK'
      BY <1>1, <2>1, <3>1, <3>2, ScreenFails DEF ShownOK, Screen!shown
    <3>4. Screen!TypeOK'
      BY <1>1, <2>1, <2>2, <3>3
      DEF Screen!TypeOK, ShownOK, Screen!event, Screen!chain, Screen!ledger, Screen!world
    <3> QED
      BY <2>1, <2>2, <3>4, ScreenMoved DEF Screen!event, Screen!chain, Screen!ledger, Screen!world
  <2>3. CASE /\ req' = [req EXCEPT ![r] = [pc |-> "send", build |-> b]]
             /\ awaited' = awaited \cup {r} /\ UNCHANGED Screen!shown
    <3>1. Screen!TypeOK'
      BY <1>1, <2>1, <2>3
      DEF Screen!TypeOK, Screen!Idle, Screen!event, Screen!chain, Screen!ledger, Screen!world, Screen!shown
    <3> QED
      BY <2>1, <2>3, <3>1, ScreenMoved DEF Screen!event, Screen!chain, Screen!ledger, Screen!world
  <2> QED
    BY <1>3, <2>2, <2>3 DEF Screen!WalletSigns
<1>4. ASSUME NEW r \in Requests, Screen!LoseAnswer(r)
      PROVE  ScreenInv'
  <2>1. /\ req[r].pc # "idle" /\ Screen!Answer(r, "other") /\ "other" \in Screen!Codes
        /\ UNCHANGED <<Screen!event, req, Screen!chain, Screen!world, prompts>>
    BY <1>1, <1>4 DEF Screen!LoseAnswer, SubmitsHaveBuild, Screen!Codes
  <2> QED
    BY <2>1, ScreenAnswered DEF Screen!event, Screen!chain, Screen!world
<1>5. /\ "other" \in Screen!Codes /\ "replaced" \in Screen!Codes
      /\ \A r \in Requests : req[r].pc # "idle" => req[r].build \in Builds
  BY <1>1 DEF Screen!Codes, SubmitsHaveBuild
<1>6. ASSUME NEW r \in Requests, req[r].pc # "idle",
             UNCHANGED <<status, recorded, seq, seqOf, Screen!ledger, Screen!world, prompts>>,
             pool' \subseteq pool \cup {req[r].build},
             \/ \E pc \in {"poll", "mark"} :
                  /\ Screen!Goto(r, pc) /\ UNCHANGED <<row, Screen!shown, awaited>>
                  /\ pc = "mark" => req[r].build \in included
             \/ Screen!Fails(r)
             \/ row' = row /\ (Screen!Done(r, "pending") \/ Screen!Done(r, "other"))
      PROVE  ScreenInv'
  <2>1. ASSUME NEW pc \in {"poll", "mark"}, Screen!Goto(r, pc), UNCHANGED <<row, Screen!shown, awaited>>,
               pc = "mark" => req[r].build \in included
        PROVE  ScreenInv'
    <3>1. Screen!TypeOK'
      BY <1>1, <1>5, <1>6, <2>1
      DEF Screen!TypeOK, Screen!Goto, Screen!Idle, Screen!ledger, Screen!world, Screen!shown
    <3> QED
      BY <1>6, <2>1, <3>1, ScreenMoved
      DEF Screen!Goto, Screen!event, Screen!ledger, Screen!world, Screen!shown
  <2>2. CASE Screen!Fails(r)
    BY <1>5, <1>6, <2>2, ScreenAnswered DEF Screen!Fails, Screen!Done
  <2>3. CASE row' = row /\ (Screen!Done(r, "pending") \/ Screen!Done(r, "other"))
    BY <1>5, <1>6, <2>3, ScreenAnswered DEF Screen!Done
  <2> QED
    BY <1>6, <2>1, <2>2, <2>3
<1>7. ASSUME NEW r \in Requests, Screen!Send(r)
      PROVE  ScreenInv'
  BY <1>6, <1>7 DEF Screen!Send
<1>8. ASSUME NEW r \in Requests, Screen!Poll(r)
      PROVE  ScreenInv'
  BY <1>6, <1>8 DEF Screen!Poll, Screen!chain
<1>9. ASSUME NEW r \in Requests, Screen!Mark(r)
      PROVE  ScreenInv'
  <2>1. /\ req[r].pc = "mark" /\ req[r].build \in included
        /\ UNCHANGED <<Screen!chain, Screen!world, prompts>>
    BY <1>9 DEF Screen!Mark, ScreenInv, MarksIncluded
  <2>2. UNCHANGED <<seq, seqOf, pool, Screen!ledger>>
    BY <2>1 DEF Screen!chain
  <2>3. CASE /\ Screen!Confirms(req[r].build)
             /\ row' = [row EXCEPT !.status = "SUCCEEDED"]
             /\ status' = "after" /\ recorded' = req[r].build
             /\ Screen!Done(r, "succeeded")
    BY <2>1, <2>2, <2>3, ScreenAnswered DEF Screen!Confirms, Screen!Done
  <2>4. CASE Screen!Done(r, "replaced") /\ UNCHANGED Screen!event
    BY <1>5, <2>1, <2>2, <2>4, ScreenAnswered DEF Screen!Done, Screen!event
  <2> QED
    BY <1>9, <2>3, <2>4 DEF Screen!Mark
<1> QED
  BY <1>2, <1>3, <1>4, <1>7, <1>8, <1>9

LEMMA ScreenStepInv == ScreenInv /\ [Screen!Next]_(Screen!vars) => ScreenInv'
<1> SUFFICES ASSUME ScreenInv, [Screen!Next]_(Screen!vars) PROVE ScreenInv'
  OBVIOUS
<1>1. CASE UNCHANGED Screen!vars
  BY <1>1 DEF Screen!vars, Screen!event, Screen!chain, Screen!ledger, Screen!world, Screen!shown,
    Screen!asked, ScreenInv, Screen!TypeOK, SubmitsHaveBuild, SignedAsShown, MarksIncluded, RowStays,
    Screen!SameCall, ConfirmedStays
<1>2. CASE Screen!Next
  BY <1>2, ScreenOrganizer, ScreenServer DEF Screen!Next
<1> QED
  BY <1>1, <1>2

\* What the ledger reserves at /fund is the sum the organizer saw, for any
\* number of builds, discarded or not, and submits under way.
THEOREM FundsReserveShown == Screen!Spec => []ReservedAsShown
<1>1. ScreenInv => ReservedAsShown
  BY DEF ScreenInv, SignedAsShown, ReservedAsShown, Screen!ReservedAsShown
<1> QED
  BY <1>1, ScreenInitInv, ScreenStepInv, PTL DEF Screen!Spec

\* The build that moved the event row succeeded on the ledger, the finished
\* operation row describes it and a panel that says "confirmed" is about it:
\* marking compares calls, and a row that has moved takes no other build.
THEOREM PanelsConfirmRecorded == Screen!Spec => []ConfirmedIsRecorded
<1>1. ScreenInv => ConfirmedIsRecorded
  BY DEF ScreenInv, MarksIncluded, RowStays, ConfirmedStays, ConfirmedIsRecorded,
         Screen!ConfirmedIsRecorded
<1> QED
  BY <1>1, ScreenInitInv, ScreenStepInv, PTL DEF Screen!Spec

(***************************************************************************)
(* The operation log.                                                      *)
(***************************************************************************)

\* Calls submit envelopes that were built; one the network answered for is on
\* the ledger.
CallsSubmitBuilt ==
  /\ call \in [Requests -> [pc : {"idle", "update", "create", "build", "send", "sent", "failed"},
                            tx : opBuilt \cup {None}]]
  /\ \A c \in Requests : call[c].pc = "sent" => call[c].tx \in opIncluded

\* The hash in a row is that of a transaction on the ledger.
RowIncluded == opRow # None /\ opRow.tx # None => opRow.tx \in opIncluded

\* The inductive invariant.
LogInv ==
  /\ CallsSubmitBuilt
  /\ RowIncluded
  /\ Log!AnswersAreIncluded

LEMMA LogInitInv == Log!Init => LogInv
BY DEF Log!Init, Log!Idle, LogInv, CallsSubmitBuilt, RowIncluded, Log!AnswersAreIncluded

LEMMA LogStepInv == LogInv /\ [Log!Next]_(Log!vars) => LogInv'
<1> SUFFICES ASSUME LogInv, [Log!Next]_(Log!vars) PROVE LogInv'
  OBVIOUS
<1> USE DEF LogInv, CallsSubmitBuilt, RowIncluded, Log!AnswersAreIncluded, Log!Goto, Log!ledger
<1>1. CASE UNCHANGED Log!vars
  BY <1>1 DEF Log!vars
<1>2. ASSUME NEW c \in Requests, Log!Prepare(c)
      PROVE  LogInv'
  BY <1>2 DEF Log!Prepare, Log!AlreadySucceeded, Log!Answer
<1>3. ASSUME NEW c \in Requests, Log!UpdateRow(c)
      PROVE  LogInv'
  BY <1>3 DEF Log!UpdateRow, Log!Pending
<1>4. ASSUME NEW c \in Requests, Log!CreateRow(c)
      PROVE  LogInv'
  BY <1>4 DEF Log!CreateRow, Log!Pending
<1>5. ASSUME NEW c \in Requests, Log!Build(c)
      PROVE  LogInv'
  <2>1. opBuilt \subseteq opBuilt'
    BY <1>5 DEF Log!Build
  <2> QED
    BY <1>5, <2>1 DEF Log!Build
<1>6. ASSUME NEW c \in Requests, NEW e \in opBuilt, Log!Submit(c, e)
      PROVE  LogInv'
  BY <1>6 DEF Log!Submit, Log!AlreadySucceeded, Log!Answer
<1>7. ASSUME NEW c \in Requests, Log!Send(c)
      PROVE  LogInv'
  BY <1>7 DEF Log!Send
<1>8. ASSUME NEW c \in Requests, Log!RecordFailure(c)
      PROVE  LogInv'
  BY <1>8 DEF Log!RecordFailure
<1>9. ASSUME NEW c \in Requests, Log!RecordSuccess(c)
      PROVE  LogInv'
  BY <1>9 DEF Log!RecordSuccess
<1> QED
  BY <1>1, <1>2, <1>3, <1>4, <1>5, <1>6, <1>7, <1>8, <1>9 DEF Log!Next

\* runOperation gives out hashes of transactions on the ledger only, for any
\* number of prepares and submits of one key: a row is marked SUCCEEDED by the
\* call the network answered, and every other write of it forgets the hash.
THEOREM AnswersStayIncluded == Log!Spec => []AnswersAreIncluded
<1>1. LogInv => AnswersAreIncluded
  BY DEF LogInv, AnswersAreIncluded, Log!AnswersAreIncluded
<1> QED
  BY <1>1, LogInitInv, LogStepInv, PTL DEF Log!Spec

(***************************************************************************)
(* The judge's release.                                                    *)
(***************************************************************************)

\* What is being built, and what was built, is what the selects show: they are
\* locked from the press of the button to the answer and beyond.
SelectionHeld ==
  /\ building # Judge!NoBuild =>
       building.choice = selection /\ building.choice \in Choices
  /\ releaseBuilt # None => releaseBuilt.choice = selection

\* A prompt, and a submit being served, are for an envelope; the page waits
\* for submits being served only.
ReleasesHaveTx ==
  /\ None \notin releasePrompts
  /\ \A r \in Releases : releaseReq[r].pc # "idle" =>
       releaseReq[r].tx # None /\ releaseReq[r].tx \in Judge!Envelope
  /\ \A r \in releaseAwaited : r \in Releases /\ releaseReq[r].pc # "idle"

\* A handler that is about to record success saw the payout in the ledger.
MarkedWasPaid == \A r \in Releases : releaseReq[r].pc = "mark" => paid # None

\* The inductive invariant.
JudgeInv ==
  /\ Judge!TypeOK
  /\ SelectionHeld
  /\ ReleasesHaveTx
  /\ MarkedWasPaid
  /\ Judge!ReleasedWasPaid

LEMMA JudgeInitInv == Judge!Init => JudgeInv
<1> SUFFICES ASSUME Judge!Init PROVE JudgeInv
  OBVIOUS
<1>1. Judge!TypeOK
  <2>1. 0 \in 0..MaxSeq
    BY EventPagesAssumption DEF Judge!ReleaseAssumption
  <2>2. releaseReq \in [Releases -> [pc : {"idle", "send", "poll", "mark"},
                                    tx : Judge!Envelope \cup {None}]]
    BY DEF Judge!Init, Judge!Idle
  <2> QED
    BY <2>1, <2>2 DEF Judge!Init, Judge!TypeOK, Judge!NoBuild
<1>2. SelectionHeld /\ Judge!ReleasedWasPaid
  BY DEF Judge!Init, SelectionHeld, Judge!ReleasedWasPaid
<1>3. ReleasesHaveTx /\ MarkedWasPaid
  BY DEF Judge!Init, ReleasesHaveTx, MarkedWasPaid, Judge!Idle
<1> QED
  BY <1>1, <1>2, <1>3 DEF JudgeInv

\* The part of the type invariant an answer can disturb.
JudgeFormOK ==
  /\ releaseSubmitted \in [tx : Judge!Envelope, status : {"pending", "succeeded"}] \cup {None}
  /\ releaseFailure \in [wallets : SUBSET Wallets] \cup {None}

\* An answer says "succeeded" only if it is one.
LEMMA JudgeAnswer ==
  ASSUME JudgeInv, NEW r \in Releases, NEW result \in {"pending", "succeeded", "error"},
         releaseReq[r].pc # "idle", Judge!Answer(r, result)
  PROVE  /\ JudgeFormOK'
         /\ releaseAwaited' = releaseAwaited \ {r}
         /\ UNCHANGED <<selection, building, releaseBuilt>>
         /\ \/ UNCHANGED releaseSubmitted
            \/ releaseSubmitted'.status = result
<1>1. /\ JudgeFormOK /\ releaseReq[r].tx \in Judge!Envelope
      /\ Judge!Other \in [wallets : SUBSET Wallets]
  BY DEF JudgeInv, Judge!TypeOK, JudgeFormOK, ReleasesHaveTx, Judge!Other
<1>2. CASE r \notin releaseAwaited \/ result = "error"
  BY <1>1, <1>2 DEF Judge!Answer, JudgeFormOK
<1>3. CASE r \in releaseAwaited /\ result # "error"
  <2> DEFINE s == [tx |-> releaseReq[r].tx, status |-> result]
  <2>1. releaseSubmitted' = s /\ s.status = result
    BY <1>3 DEF Judge!Answer
  <2>2. s \in [tx : Judge!Envelope, status : {"pending", "succeeded"}]
    BY <1>1, <1>3
  <2> QED
    BY <1>3, <2>1, <2>2 DEF Judge!Answer, JudgeFormOK
<1> QED
  BY <1>2, <1>3

\* What the handlers, the network and the wallets leave alone.
FormStays == UNCHANGED <<selection, building, releaseBuilt, releaseSubmitted, releaseFailure>>

LEMMA JudgeFormStep ==
  ASSUME JudgeInv,
         \/ \E c \in Choices : Judge!Select(c)
         \/ Judge!StartBuild \/ Judge!CheckWinners \/ Judge!BuildAtCore
         \/ Judge!ChangeAssignments \/ Judge!Sign \/ Judge!Reload
         \/ \E tx \in releasePrompts : Judge!WalletRejects(tx)
  PROVE  JudgeInv'
<1> USE DEF Judge!NoBuild
<1>1. /\ Judge!TypeOK /\ SelectionHeld /\ ReleasesHaveTx /\ MarkedWasPaid
      /\ Judge!ReleasedWasPaid
  BY DEF JudgeInv
<1>2. ASSUME NEW c \in Choices, Judge!Select(c)
      PROVE  JudgeInv'
  BY <1>1, <1>2 DEF Judge!Select, Judge!Locked, Judge!DropFailure, Judge!world, Judge!net, Judge!asked,
    JudgeInv, Judge!TypeOK, SelectionHeld, ReleasesHaveTx, MarkedWasPaid, Judge!ReleasedWasPaid
<1>3. CASE Judge!StartBuild
  BY <1>1, <1>3 DEF Judge!StartBuild, Judge!world, Judge!net, Judge!asked,
    JudgeInv, Judge!TypeOK, SelectionHeld, ReleasesHaveTx, MarkedWasPaid, Judge!ReleasedWasPaid
<1>4. CASE Judge!CheckWinners
  <2>1. building # Judge!NoBuild /\ building.choice = selection /\ building.choice \in Choices
    BY <1>1, <1>4 DEF Judge!CheckWinners, SelectionHeld
  <2>2. /\ \/ building' = Judge!NoBuild
           \/ building' = [building EXCEPT !.pc = "core"]
        /\ releaseFailure' \in [wallets : SUBSET Wallets] \cup {None}
    BY <1>1, <1>4, <2>1, EventPagesAssumption DEF Judge!CheckWinners, Judge!Missing, Judge!Refused,
      Judge!Other, Judge!TypeOK, Judge!ReleaseAssumption
  <2>3. /\ UNCHANGED <<open, completed, releaseRow, releaseReq, releasePool, tried, paid, judgeSeq>>
        /\ UNCHANGED <<selection, releaseBuilt, releaseSubmitted, releasePrompts, releaseAwaited>>
    BY <1>4 DEF Judge!CheckWinners, Judge!world, Judge!net, Judge!asked
  <2>4. /\ building' \in [pc : {"idle", "check", "core"}, choice : Choices \cup {None}]
        /\ building' # Judge!NoBuild => building'.choice = building.choice
    BY <1>1, <2>1, <2>2 DEF Judge!TypeOK
  <2>5. Judge!TypeOK'
    BY <1>1, <2>2, <2>3, <2>4 DEF Judge!TypeOK
  <2> QED
    BY <1>1, <2>1, <2>3, <2>4, <2>5
    DEF JudgeInv, SelectionHeld, ReleasesHaveTx, MarkedWasPaid, Judge!ReleasedWasPaid
<1>5. CASE Judge!BuildAtCore
  <2> DEFINE tx == [choice |-> building.choice, seq |-> judgeSeq + 1]
  <2>1. building # Judge!NoBuild /\ building.choice = selection /\ building.choice \in Choices
    BY <1>1, <1>5 DEF Judge!BuildAtCore, SelectionHeld
  <2>2. /\ UNCHANGED <<open, completed, releaseReq, releasePool, tried, paid, judgeSeq>>
        /\ UNCHANGED <<selection, releaseSubmitted, releasePrompts, releaseAwaited>>
    BY <1>5 DEF Judge!BuildAtCore, Judge!net, Judge!asked
  <2>3. Judge!Other \in [wallets : SUBSET Wallets]
    BY DEF Judge!Other
  <2>4. CASE UNCHANGED <<releaseRow, releaseBuilt>> /\ Judge!Refused(Judge!Other)
    <3>1. Judge!TypeOK'
      BY <1>1, <2>2, <2>3, <2>4 DEF Judge!Refused, Judge!TypeOK
    <3> QED
      BY <1>1, <2>2, <2>4, <3>1
      DEF Judge!Refused, JudgeInv, SelectionHeld, ReleasesHaveTx, MarkedWasPaid, Judge!ReleasedWasPaid
  <2>5. CASE /\ judgeSeq # MaxSeq
             /\ releaseRow' = [tx |-> tx, status |-> "PENDING"]
             /\ \/ releaseBuilt' = tx /\ building' = Judge!NoBuild /\ UNCHANGED releaseFailure
                \/ releaseBuilt' = None /\ Judge!Refused(Judge!Other)
    <3>1. judgeSeq + 1 \in 1..MaxSeq
      BY <1>1, <2>5, EventPagesAssumption DEF Judge!TypeOK, Judge!ReleaseAssumption
    <3>2. tx \in Judge!Envelope /\ tx.choice = selection
      BY <2>1, <3>1 DEF Judge!Envelope
    <3>3. /\ releaseRow' \in [tx : Judge!Envelope \cup {None},
                              status : {"none", "PENDING", "SUCCEEDED", "FAILED"}]
          /\ releaseBuilt' \in {tx, None} /\ building' = Judge!NoBuild
          /\ releaseFailure' \in [wallets : SUBSET Wallets] \cup {None}
      BY <1>1, <2>3, <2>5, <3>2 DEF Judge!Refused, Judge!TypeOK
    <3>4. Judge!TypeOK'
      BY <1>1, <2>2, <3>2, <3>3 DEF Judge!TypeOK
    <3> QED
      BY <1>1, <2>2, <3>2, <3>3, <3>4
      DEF JudgeInv, SelectionHeld, ReleasesHaveTx, MarkedWasPaid, Judge!ReleasedWasPaid
  <2> QED
    BY <1>5, <2>4, <2>5 DEF Judge!BuildAtCore
<1>6. CASE Judge!ChangeAssignments
  BY <1>1, <1>6 DEF Judge!ChangeAssignments, Judge!world, Judge!net, Judge!asked,
    JudgeInv, Judge!TypeOK, SelectionHeld, ReleasesHaveTx, MarkedWasPaid, Judge!ReleasedWasPaid
<1>7. CASE Judge!Sign
  BY <1>1, <1>7 DEF Judge!Sign, Judge!world, Judge!net, Judge!form,
    JudgeInv, Judge!TypeOK, SelectionHeld, ReleasesHaveTx, MarkedWasPaid, Judge!ReleasedWasPaid
<1>8. CASE Judge!Reload
  BY <1>1, <1>8 DEF Judge!Reload, Judge!world, Judge!net,
    JudgeInv, Judge!TypeOK, SelectionHeld, ReleasesHaveTx, MarkedWasPaid, Judge!ReleasedWasPaid
<1>9. ASSUME NEW tx \in releasePrompts, Judge!WalletRejects(tx)
      PROVE  JudgeInv'
  BY <1>1, <1>9 DEF Judge!WalletRejects, Judge!world, Judge!net, Judge!form,
    JudgeInv, Judge!TypeOK, SelectionHeld, ReleasesHaveTx, MarkedWasPaid, Judge!ReleasedWasPaid
<1> QED
  BY <1>2, <1>3, <1>4, <1>5, <1>6, <1>7, <1>8, <1>9

\* A handler ends, or its answer is lost; only after the payout is anything
\* called a success.
LEMMA JudgeAnswered ==
  ASSUME JudgeInv, NEW r \in Releases, NEW result \in {"pending", "succeeded", "error"},
         releaseReq[r].pc # "idle", Judge!Answer(r, result),
         UNCHANGED releaseReq \/ releaseReq' = [releaseReq EXCEPT ![r] = Judge!Idle],
         releaseRow' = releaseRow
           \/ \E s \in {"SUCCEEDED", "FAILED"} : releaseRow' = [releaseRow EXCEPT !.status = s],
         completed' \in {TRUE, completed},
         completed' # completed \/ result = "succeeded" => paid # None,
         releasePool' \subseteq releasePool \cup {releaseReq[r].tx},
         UNCHANGED <<open, tried, paid, judgeSeq, releasePrompts>>
  PROVE  JudgeInv'
<1>1. /\ Judge!TypeOK /\ SelectionHeld /\ ReleasesHaveTx /\ MarkedWasPaid
      /\ Judge!ReleasedWasPaid
  BY DEF JudgeInv
<1>2. /\ JudgeFormOK'
      /\ releaseAwaited' = releaseAwaited \ {r}
      /\ UNCHANGED <<selection, building, releaseBuilt>>
      /\ UNCHANGED releaseSubmitted \/ releaseSubmitted'.status = result
  BY JudgeAnswer
<1>3. /\ releaseReq' \in [Releases -> [pc : {"idle", "send", "poll", "mark"},
                                      tx : Judge!Envelope \cup {None}]]
      /\ \A q \in Releases : releaseReq'[q] = releaseReq[q] \/ releaseReq'[q].pc = "idle"
      /\ \A q \in Releases \ {r} : releaseReq'[q] = releaseReq[q]
  BY <1>1 DEF Judge!TypeOK, Judge!Idle
<1>4. releaseRow' \in [tx : Judge!Envelope \cup {None},
                      status : {"none", "PENDING", "SUCCEEDED", "FAILED"}]
  BY <1>1 DEF Judge!TypeOK
<1>5. Judge!TypeOK'
  <2>1. releaseAwaited' \subseteq {q \in Releases : releaseReq'[q] # Judge!Idle}
    BY <1>1, <1>2, <1>3 DEF Judge!TypeOK
  <2>2. completed' \in BOOLEAN
    BY <1>1 DEF Judge!TypeOK
  <2> QED
    BY <1>1, <1>2, <1>3, <1>4, <2>1, <2>2 DEF Judge!TypeOK, JudgeFormOK, ReleasesHaveTx
<1>6. ReleasesHaveTx' /\ MarkedWasPaid'
  BY <1>1, <1>2, <1>3 DEF ReleasesHaveTx, MarkedWasPaid
<1>7. Judge!ReleasedWasPaid'
  BY <1>1, <1>2 DEF Judge!ReleasedWasPaid, Judge!TypeOK
<1> QED
  BY <1>1, <1>2, <1>5, <1>6, <1>7 DEF JudgeInv, SelectionHeld

\* A handler goes on, or the ledger or a wallet moves.
LEMMA JudgeMoved ==
  ASSUME JudgeInv, FormStays, Judge!TypeOK',
         UNCHANGED <<completed, releasePrompts, releaseAwaited>>,
         \/ UNCHANGED releaseReq
         \/ \E r \in Releases, pc \in {"poll", "mark"} :
              /\ releaseReq[r].pc # "idle" /\ (pc = "mark" => paid # None)
              /\ releaseReq' = [releaseReq EXCEPT ![r].pc = pc],
         paid # None => paid' # None
  PROVE  JudgeInv'
<1>1. /\ Judge!TypeOK /\ SelectionHeld /\ ReleasesHaveTx /\ MarkedWasPaid
      /\ Judge!ReleasedWasPaid
  BY DEF JudgeInv
<1>2. ReleasesHaveTx' /\ MarkedWasPaid'
  <2>1. CASE UNCHANGED releaseReq
    BY <1>1, <2>1 DEF ReleasesHaveTx, MarkedWasPaid
  <2>2. ASSUME NEW r \in Releases, NEW pc \in {"poll", "mark"},
               releaseReq[r].pc # "idle", pc = "mark" => paid # None,
               releaseReq' = [releaseReq EXCEPT ![r].pc = pc]
        PROVE  ReleasesHaveTx' /\ MarkedWasPaid'
    <3>1. \A q \in Releases :
            /\ releaseReq'[q].tx = releaseReq[q].tx
            /\ releaseReq'[q].pc = IF q = r THEN pc ELSE releaseReq[q].pc
      BY <1>1, <2>2 DEF Judge!TypeOK
    <3>2. ReleasesHaveTx'
      BY <1>1, <2>2, <3>1 DEF ReleasesHaveTx
    <3>3. MarkedWasPaid'
      BY <1>1, <2>2, <3>1 DEF MarkedWasPaid
    <3> QED
      BY <3>2, <3>3
  <2> QED
    BY <2>1, <2>2
<1>3. SelectionHeld' /\ Judge!ReleasedWasPaid'
  BY <1>1 DEF FormStays, SelectionHeld, Judge!ReleasedWasPaid
<1> QED
  BY <1>2, <1>3 DEF JudgeInv

LEMMA JudgeServerStep ==
  ASSUME JudgeInv,
         \/ \E tx \in releasePrompts, r \in Releases : Judge!WalletSigns(tx, r)
         \/ \E r \in Releases :
              Judge!LoseAnswer(r) \/ Judge!Send(r) \/ Judge!Poll(r) \/ Judge!Mark(r)
         \/ \E tx \in releasePool : Judge!Include(tx)
         \/ \E w \in Wallets : Judge!Trustline(w)
  PROVE  JudgeInv'
<1>1. /\ Judge!TypeOK /\ SelectionHeld /\ ReleasesHaveTx /\ MarkedWasPaid
      /\ Judge!ReleasedWasPaid
  BY DEF JudgeInv
<1>2. ASSUME NEW tx \in releasePrompts, NEW r \in Releases, Judge!WalletSigns(tx, r)
      PROVE  JudgeInv'
  <2>1. tx \in Judge!Envelope /\ tx # None
    BY <1>1 DEF Judge!TypeOK, ReleasesHaveTx
  <2>2. Judge!Other \in [wallets : SUBSET Wallets]
    BY DEF Judge!Other
  <2>3. /\ UNCHANGED <<open, completed, releaseRow, releasePool, tried, paid, judgeSeq>>
        /\ UNCHANGED <<selection, building, releaseBuilt, releaseSubmitted>>
        /\ releasePrompts' = releasePrompts \ {tx}
    BY <1>2 DEF Judge!WalletSigns, Judge!world
  <2>4. /\ \/ UNCHANGED <<releaseReq, releaseAwaited>>
           \/ /\ releaseReq' = [releaseReq EXCEPT ![r] = [pc |-> "send", tx |-> tx]]
              /\ releaseAwaited' = releaseAwaited \cup {r}
        /\ releaseFailure' \in {Judge!Other, releaseFailure}
    BY <1>2 DEF Judge!WalletSigns
  <2>5. Judge!TypeOK'
    BY <1>1, <2>1, <2>2, <2>3, <2>4 DEF Judge!TypeOK, Judge!Idle
  <2>6. ReleasesHaveTx' /\ MarkedWasPaid'
    BY <1>1, <2>1, <2>3, <2>4 DEF Judge!TypeOK, ReleasesHaveTx, MarkedWasPaid
  <2> QED
    BY <1>1, <2>3, <2>5, <2>6 DEF JudgeInv, SelectionHeld, Judge!ReleasedWasPaid
<1>3. ASSUME NEW r \in Releases, Judge!LoseAnswer(r)
      PROVE  JudgeInv'
  <2>1. /\ releaseReq[r].pc # "idle" /\ Judge!Answer(r, "error")
        /\ UNCHANGED <<open, completed, releaseRow, releaseReq, releasePool, tried, paid,
                       judgeSeq, releasePrompts>>
    BY <1>1, <1>3 DEF Judge!LoseAnswer, Judge!world, Judge!net, ReleasesHaveTx
  <2> QED
    BY <1>1, <2>1, JudgeAnswered
<1>4. ASSUME NEW r \in Releases, Judge!Send(r)
      PROVE  JudgeInv'
  <2>1. /\ releaseReq[r].pc # "idle"
        /\ releasePool' \subseteq releasePool \cup {releaseReq[r].tx}
        /\ UNCHANGED <<open, completed, tried, paid, judgeSeq, releasePrompts>>
    BY <1>4 DEF Judge!Send
  <2>2. CASE /\ releaseReq' = [releaseReq EXCEPT ![r].pc = "poll"]
             /\ UNCHANGED <<releaseRow, Judge!form, releaseAwaited>>
    <3>1. Judge!TypeOK' /\ FormStays
      BY <1>1, <2>1, <2>2 DEF Judge!TypeOK, Judge!form, Judge!Idle, ReleasesHaveTx, FormStays
    <3> QED
      BY <2>1, <2>2, <3>1, JudgeMoved
  <2>3. CASE Judge!Fails(r)
    BY <2>1, <2>3, JudgeAnswered DEF Judge!Fails, Judge!Done
  <2>4. CASE releaseRow' = releaseRow /\ Judge!Done(r, "error")
    BY <2>1, <2>4, JudgeAnswered DEF Judge!Done
  <2> QED
    BY <1>4, <2>2, <2>3, <2>4 DEF Judge!Send
<1>5. ASSUME NEW r \in Releases, Judge!Poll(r)
      PROVE  JudgeInv'
  <2>1. /\ releaseReq[r].pc # "idle" /\ releaseReq[r].tx # None
        /\ UNCHANGED <<open, completed, releasePool, tried, paid, judgeSeq, releasePrompts>>
    BY <1>1, <1>5 DEF Judge!Poll, ReleasesHaveTx
  <2>2. CASE /\ Judge!Confirmed(releaseReq[r].tx)
             /\ releaseReq' = [releaseReq EXCEPT ![r].pc = "mark"]
             /\ UNCHANGED <<releaseRow, Judge!form, releaseAwaited>>
    <3>1. Judge!TypeOK' /\ FormStays
      BY <1>1, <2>1, <2>2 DEF Judge!TypeOK, Judge!form, Judge!Idle, FormStays
    <3> QED
      BY <2>1, <2>2, <3>1, JudgeMoved DEF Judge!Confirmed
  <2>3. CASE (Judge!Done(r, "pending") \/ Judge!Done(r, "error")) /\ UNCHANGED releaseRow
    BY <2>1, <2>3, JudgeAnswered DEF Judge!Done
  <2>4. CASE Judge!Fails(r)
    BY <2>1, <2>4, JudgeAnswered DEF Judge!Fails, Judge!Done
  <2> QED
    BY <1>5, <2>2, <2>3, <2>4 DEF Judge!Poll
<1>6. ASSUME NEW r \in Releases, Judge!Mark(r)
      PROVE  JudgeInv'
  <2>1. /\ releaseReq[r].pc # "idle" /\ paid # None
        /\ UNCHANGED <<open, releasePool, tried, paid, judgeSeq, releasePrompts>>
    BY <1>1, <1>6 DEF Judge!Mark, MarkedWasPaid
  <2>2. CASE /\ releaseRow' = [releaseRow EXCEPT !.status = "SUCCEEDED"] /\ completed' = TRUE
             /\ Judge!Done(r, "succeeded")
    BY <2>1, <2>2, JudgeAnswered DEF Judge!Done
  <2>3. CASE Judge!Done(r, "error") /\ UNCHANGED <<releaseRow, completed>>
    BY <2>1, <2>3, JudgeAnswered DEF Judge!Done
  <2> QED
    BY <1>6, <2>2, <2>3 DEF Judge!Mark
<1>7. ASSUME NEW tx \in releasePool, Judge!Include(tx)
      PROVE  JudgeInv'
  <2>1. tx \in Judge!Envelope /\ tx.seq \in 0..MaxSeq
    BY <1>1, EventPagesAssumption DEF Judge!TypeOK, Judge!Envelope, Judge!ReleaseAssumption
  <2>2. /\ judgeSeq' = tx.seq /\ releasePool' = {} /\ tried' = tried \cup {tx}
        /\ paid' \in {paid, tx} /\ (paid # None => paid' = paid)
        /\ UNCHANGED <<open, completed, releaseRow, releaseReq, releasePrompts, releaseAwaited>>
        /\ FormStays
    BY <1>7 DEF Judge!Include, Judge!world, Judge!form, Judge!asked, FormStays
  <2>3. Judge!TypeOK'
    BY <1>1, <2>1, <2>2 DEF Judge!TypeOK, FormStays
  <2> QED
    BY <2>2, <2>3, JudgeMoved
<1>8. ASSUME NEW w \in Wallets, Judge!Trustline(w)
      PROVE  JudgeInv'
  <2>1. /\ open' \subseteq open \cup {w} /\ FormStays
        /\ UNCHANGED <<completed, releaseRow, releaseReq, releasePool, tried, paid, judgeSeq>>
        /\ UNCHANGED <<releasePrompts, releaseAwaited>>
    BY <1>8 DEF Judge!Trustline, Judge!net, Judge!form, Judge!asked, FormStays
  <2>2. Judge!TypeOK'
    BY <1>1, <2>1 DEF Judge!TypeOK, FormStays
  <2> QED
    BY <2>1, <2>2, JudgeMoved
<1> QED
  BY <1>2, <1>3, <1>4, <1>5, <1>6, <1>7, <1>8

LEMMA JudgeStepInv == JudgeInv /\ [Judge!Next]_(Judge!vars) => JudgeInv'
<1> SUFFICES ASSUME JudgeInv, [Judge!Next]_(Judge!vars) PROVE JudgeInv'
  OBVIOUS
<1>1. CASE UNCHANGED Judge!vars
  BY <1>1 DEF Judge!vars, Judge!world, Judge!net, Judge!form, Judge!asked,
    JudgeInv, Judge!TypeOK, SelectionHeld, ReleasesHaveTx, MarkedWasPaid, Judge!ReleasedWasPaid
<1>2. CASE Judge!Next
  BY <1>2, JudgeFormStep, JudgeServerStep DEF Judge!Next
<1> QED
  BY <1>1, <1>2

\* ReleaseForm and the handlers behind it keep their types.
THEOREM ReleaseTypes == Judge!Spec => []Judge!TypeOK
<1>1. JudgeInv => Judge!TypeOK
  BY DEF JudgeInv
<1> QED
  BY <1>1, JudgeInitInv, JudgeStepInv, PTL DEF Judge!Spec

\* The judge signs what the selects show, for any number of teams, choices and
\* envelopes: while an envelope is on its way or on the form, they are locked.
THEOREM JudgeSignsSelection == Judge!Spec => []BuiltMatchesSelection
<1>1. JudgeInv => BuiltMatchesSelection
  BY DEF JudgeInv, SelectionHeld, BuiltMatchesSelection, Judge!BuiltMatchesSelection
<1> QED
  BY <1>1, JudgeInitInv, JudgeStepInv, PTL DEF Judge!Spec

\* "Released" is shown, and COMPLETED written, only after the payout, whatever
\* answer was lost, submit timed out or page was loaded again.
THEOREM ReleasesArePaid == Judge!Spec => []ReleasedWasPaid
<1>1. JudgeInv => ReleasedWasPaid
  BY DEF JudgeInv, ReleasedWasPaid
<1> QED
  BY <1>1, JudgeInitInv, JudgeStepInv, PTL DEF Judge!Spec

(***************************************************************************)
(* Registration.                                                           *)
(***************************************************************************)

Steps == {"none", "github", "trustline", "record", "existing", "insert", "commit", "done", "failed"}

\* A call of registerTeam, with the submission it was given and later the
\* trustline it saw.
CallOfRegister ==
  [step : Steps, wallet : Entrants \cup {None},
   sub : Teams!Submissions \cup Lines \cup {None}, gh : BOOLEAN, verified : BOOLEAN]

\* Calls have read their session, and check the repository when the event asks.
CallsOK ==
  /\ request \in [Requests -> CallOfRegister]
  /\ \A r \in Requests :
       /\ request[r].step # "none" => request[r].wallet \in Entrants
       /\ request[r].step = "github" \/ request[r].verified => request[r].gh

\* What is to be recorded, and what is recorded, is a line that takes a payment.
SeenLinesOpen ==
  /\ \A r \in Requests : request[r].step = "record" =>
       request[r].sub \in Lines /\ Teams!hasUsdcTrustline(request[r].sub)
  /\ \A w \in Entrants : verified[w] # None =>
       verified[w] \in Lines /\ Teams!hasUsdcTrustline(verified[w])

\* Whoever is past the check of the trustline, or on a team, has one recorded.
RecordedBeforeTeam ==
  /\ \A r \in Requests : request[r].step \in {"existing", "insert", "commit"} =>
       verified[request[r].wallet] # None
  /\ \A t \in teams : verified[t.wallet] # None

\* The unique index: a row about to be committed is the only one of its wallet,
\* among those about to be committed and those that are.
CommitsAreUnique ==
  \A r \in Requests : request[r].step = "commit" =>
    /\ \A t \in teams : t.wallet # request[r].wallet
    /\ \A q \in Requests \ {r} :
         request[q].step = "commit" => request[q].wallet # request[r].wallet

\* The inductive invariant.
TeamsInv ==
  /\ Teams!TypeOK
  /\ CallsOK
  /\ SeenLinesOpen
  /\ RecordedBeforeTeam
  /\ CommitsAreUnique
  /\ Teams!OneTeamPerWallet

LEMMA TeamsInitInv == Teams!Init => TeamsInv
<1> SUFFICES ASSUME Teams!Init PROVE TeamsInv
  OBVIOUS
<1>1. Teams!NoRequest \in CallOfRegister
  BY DEF Teams!NoRequest, CallOfRegister, Steps
<1>2. CallsOK /\ SeenLinesOpen /\ RecordedBeforeTeam /\ CommitsAreUnique
  BY <1>1 DEF Teams!Init, Teams!NoRequest, CallsOK, SeenLinesOpen, RecordedBeforeTeam, CommitsAreUnique
<1>3. Teams!TypeOK
  BY <1>1, <1>2 DEF Teams!Init, Teams!NoRequest, Teams!TypeOK, Teams!Statuses, CallsOK, CallOfRegister, Steps
<1> QED
  BY <1>2, <1>3 DEF TeamsInv, Teams!OneTeamPerWallet, Teams!Init

\* A call goes one step on: its record stays one, and neither commits nor
\* passes the trustline check by it.
LEMMA CallMoves ==
  ASSUME TeamsInv, NEW r \in Requests, NEW c \in CallOfRegister,
         request' = [request EXCEPT ![r] = c],
         UNCHANGED <<eventStatus, requireGithub, linked, line, verified, judging, teams>>,
         c.step # "none" => c.wallet \in Entrants,
         c.step = "github" \/ c.verified => c.gh,
         c.step = "record" => c.sub \in Lines /\ Teams!hasUsdcTrustline(c.sub),
         c.step \in {"existing", "insert", "commit"} => verified[c.wallet] # None,
         c.step = "commit" =>
           /\ \A t \in teams : t.wallet # c.wallet
           /\ \A q \in Requests \ {r} :
                request[q].step = "commit" => request[q].wallet # c.wallet
  PROVE  TeamsInv'
<1>1. /\ Teams!TypeOK /\ CallsOK /\ SeenLinesOpen /\ RecordedBeforeTeam /\ CommitsAreUnique
      /\ Teams!OneTeamPerWallet
  BY DEF TeamsInv
<1>2. /\ request' \in [Requests -> CallOfRegister] /\ request'[r] = c
      /\ \A q \in Requests \ {r} : request'[q] = request[q]
  BY <1>1 DEF CallsOK
<1>3. CallsOK'
  BY <1>1, <1>2 DEF CallsOK
<1>4. Teams!TypeOK'
  BY <1>1, <1>2, <1>3 DEF Teams!TypeOK, CallsOK, CallOfRegister, Steps
<1>5. SeenLinesOpen'
  BY <1>1, <1>2 DEF SeenLinesOpen, Teams!hasUsdcTrustline, Teams!trustlineHeadroom
<1>6. RecordedBeforeTeam'
  BY <1>1, <1>2 DEF RecordedBeforeTeam
<1>7. CommitsAreUnique'
  BY <1>1, <1>2 DEF CommitsAreUnique
<1> QED
  BY <1>1, <1>3, <1>4, <1>5, <1>6, <1>7 DEF TeamsInv, Teams!OneTeamPerWallet

LEMMA RegisterStep ==
  ASSUME TeamsInv, NEW r \in Requests, Teams!registerTeam(r)
  PROVE  TeamsInv'
<1>1. /\ Teams!TypeOK /\ CallsOK /\ SeenLinesOpen /\ RecordedBeforeTeam /\ CommitsAreUnique
      /\ Teams!OneTeamPerWallet
  BY DEF TeamsInv
<1> DEFINE q == request[r]
<1>2. /\ request \in [Requests -> CallOfRegister] /\ q \in CallOfRegister
      /\ q.step # "none" => q.wallet \in Entrants
      /\ q.step = "github" \/ q.verified => q.gh
  BY <1>1 DEF CallsOK
<1> USE DEF Teams!At
<1>3. ASSUME Teams!ReadEvent(r)
      PROVE  TeamsInv'
  <2>1. PICK w \in Entrants, s \in Teams!Submissions :
          request' = [request EXCEPT ![r] =
            [Teams!Entered(w, s) EXCEPT !.step =
               IF eventStatus # "LIVE" THEN "failed"
               ELSE IF requireGithub THEN "github" ELSE "trustline"]]
    BY <1>3 DEF Teams!ReadEvent
  <2> DEFINE step == IF eventStatus # "LIVE" THEN "failed"
                     ELSE IF requireGithub THEN "github" ELSE "trustline"
             c == [Teams!Entered(w, s) EXCEPT !.step = step]
  <2>2. requireGithub \in BOOLEAN
    BY <1>1 DEF Teams!TypeOK
  <2>3. /\ c \in CallOfRegister /\ c.step = step /\ c.wallet = w
        /\ c.gh = requireGithub /\ ~c.verified
    BY <2>2 DEF Teams!Entered, CallOfRegister, Steps
  <2>4. UNCHANGED <<eventStatus, requireGithub, linked, line, verified, judging, teams>>
    BY <1>3 DEF Teams!ReadEvent, Teams!event, Teams!world
  <2> QED
    <3>1. /\ step \in {"failed", "github", "trustline"}
          /\ step = "github" => requireGithub
      OBVIOUS
    <3>2. request' = [request EXCEPT ![r] = c]
      BY <2>1
    <3> HIDE DEF c, step
    <3> QED
      BY <2>3, <2>4, <3>1, <3>2, CallMoves
<1>4. ASSUME Teams!CheckGithub(r)
      PROVE  TeamsInv'
  <2>1. PICK ok \in BOOLEAN :
          request' = [request EXCEPT ![r].step = IF ok THEN "trustline" ELSE "failed",
                                     ![r].verified = ok]
    BY <1>4 DEF Teams!CheckGithub, Teams!checkRepoOwnership
  <2> DEFINE c == [q EXCEPT !.step = IF ok THEN "trustline" ELSE "failed", !.verified = ok]
  <2>2. c \in CallOfRegister /\ c.step \in {"trustline", "failed"} /\ c.wallet = q.wallet /\ c.gh = q.gh
    BY <1>2 DEF CallOfRegister, Steps
  <2>3. request' = [request EXCEPT ![r] = c]
    BY <1>2, <2>1
  <2>4. /\ UNCHANGED <<eventStatus, requireGithub, linked, line, verified, judging, teams>>
        /\ q.step = "github"
    BY <1>4 DEF Teams!CheckGithub, Teams!event, Teams!world
  <2> QED
    BY <1>2, <2>2, <2>3, <2>4, CallMoves
<1>5. ASSUME NEW step \in {"failed", "insert", "commit"}, Teams!Goto(r, step), q.step # "none",
             step \in {"insert", "commit"} => q.step \in {"existing", "insert"},
             step = "commit" =>
               /\ \A t \in teams : t.wallet # q.wallet
               /\ \A p \in Requests \ {r} :
                    request[p].step = "commit" => request[p].wallet # q.wallet,
             UNCHANGED <<eventStatus, requireGithub, linked, line, verified, judging, teams>>
      PROVE  TeamsInv'
  <2> DEFINE c == [q EXCEPT !.step = step]
  <2>1. /\ c \in CallOfRegister /\ c.step = step /\ c.wallet = q.wallet
        /\ c.gh = q.gh /\ c.verified = q.verified
    BY <1>2 DEF CallOfRegister, Steps
  <2>2. request' = [request EXCEPT ![r] = c]
    BY <1>2, <1>5 DEF Teams!Goto
  <2>3. c.step \in {"existing", "insert", "commit"} => verified[c.wallet] # None
    BY <1>1, <1>5, <2>1 DEF RecordedBeforeTeam
  <2> HIDE DEF c
  <2> QED
    BY <1>2, <1>5, <2>1, <2>2, <2>3, CallMoves
<1>6. ASSUME Teams!CheckTrustline(r)
      PROVE  TeamsInv'
  <2>1. /\ UNCHANGED <<eventStatus, requireGithub, linked, line, verified, judging, teams>>
        /\ q.step = "trustline"
    BY <1>6 DEF Teams!CheckTrustline, Teams!event, Teams!world
  <2>2. CASE Teams!Goto(r, "failed")
    BY <1>5, <2>1, <2>2
  <2>3. CASE ~Teams!Goto(r, "failed")
    <3> DEFINE l == line[q.wallet]
               c == [q EXCEPT !.step = "record", !.sub = l]
    <3>1. /\ Teams!hasUsdcTrustline(l)
          /\ request' = [request EXCEPT ![r].step = "record", ![r].sub = l]
      BY <1>6, <2>3 DEF Teams!CheckTrustline
    <3>2. l \in Lines
      BY <1>1, <1>2, <2>1, <3>1 DEF Teams!TypeOK, Teams!hasUsdcTrustline
    <3>3. /\ c \in CallOfRegister /\ c.step = "record" /\ c.wallet = q.wallet /\ c.sub = l
          /\ c.gh = q.gh /\ c.verified = q.verified
      BY <1>2, <3>2 DEF CallOfRegister, Steps
    <3>4. request' = [request EXCEPT ![r] = c]
      BY <1>2, <3>1
    <3> HIDE DEF c
    <3> QED
      BY <1>2, <2>1, <3>1, <3>2, <3>3, <3>4, CallMoves
  <2> QED
    BY <2>2, <2>3
<1>7. ASSUME Teams!CheckExisting(r)
      PROVE  TeamsInv'
  <2>1. /\ q.step = "existing"
        /\ Teams!Goto(r, "failed") \/ Teams!Goto(r, "insert")
        /\ UNCHANGED <<eventStatus, requireGithub, linked, line, verified, judging, teams>>
    BY <1>7 DEF Teams!CheckExisting, Teams!event, Teams!world
  <2> QED
    BY <1>5, <2>1
<1>8. ASSUME Teams!Insert(r)
      PROVE  TeamsInv'
  <2>1. /\ q.step = "insert" /\ Teams!UniqueAllows(r)
        /\ UNCHANGED <<eventStatus, requireGithub, linked, line, verified, judging, teams>>
        /\ \/ Teams!Goto(r, "failed")
           \/ Teams!Goto(r, "commit") /\ Teams!InsertOk(r)
    BY <1>8 DEF Teams!Insert, Teams!event, Teams!world
  <2>2. \A p \in Requests \ {r} : request[p].step = "commit" => request[p].wallet # q.wallet
    BY <2>1 DEF Teams!UniqueAllows
  <2>3. Teams!InsertOk(r) => \A t \in teams : t.wallet # q.wallet
    BY DEF Teams!InsertOk, Teams!Registered
  <2> QED
    BY <1>5, <2>1, <2>2, <2>3
<1>9. ASSUME Teams!RecordTrustline(r)
      PROVE  TeamsInv'
  <2>1. /\ q.step = "record" /\ q.wallet \in Entrants
        /\ q.sub \in Lines /\ Teams!hasUsdcTrustline(q.sub) /\ q.sub # None
    BY <1>1, <1>2, <1>9 DEF Teams!RecordTrustline, SeenLinesOpen, Teams!hasUsdcTrustline
  <2>2. /\ verified' = [verified EXCEPT ![q.wallet] = q.sub]
        /\ request' = [request EXCEPT ![r].step = "existing"]
        /\ UNCHANGED <<eventStatus, requireGithub, linked, line, judging, teams>>
    BY <1>9 DEF Teams!RecordTrustline, Teams!Goto, Teams!event, Teams!world
  <2>3. /\ verified' \in [Entrants -> Lines \cup {None}] /\ verified'[q.wallet] = q.sub
        /\ \A w \in Entrants : verified'[w] = q.sub \/ verified'[w] = verified[w]
    BY <1>1, <2>1, <2>2 DEF Teams!TypeOK
  <2>4. /\ request' \in [Requests -> CallOfRegister]
        /\ request'[r].step = "existing" /\ request'[r].wallet = q.wallet
        /\ request'[r].gh = q.gh /\ request'[r].verified = q.verified
        /\ \A p \in Requests \ {r} : request'[p] = request[p]
    BY <1>2, <2>2 DEF CallOfRegister, Steps
  <2>5. CallsOK'
    BY <1>1, <1>2, <2>1, <2>4 DEF CallsOK
  <2>6. Teams!TypeOK'
    BY <1>1, <2>2, <2>3, <2>5 DEF Teams!TypeOK, CallsOK, CallOfRegister, Steps
  <2>7. SeenLinesOpen'
    BY <1>1, <2>1, <2>3, <2>4 DEF SeenLinesOpen, Teams!hasUsdcTrustline, Teams!trustlineHeadroom
  <2>8. RecordedBeforeTeam'
    <3>1. \A p \in Requests : request'[p].step \in {"existing", "insert", "commit"} =>
            verified'[request'[p].wallet] # None
      BY <1>1, <2>1, <2>3, <2>4 DEF RecordedBeforeTeam, CallsOK
    <3>2. \A t \in teams : verified'[t.wallet] # None
      BY <1>1, <2>1, <2>3 DEF RecordedBeforeTeam, Teams!TypeOK, Teams!Team
    <3> QED
      BY <2>2, <3>1, <3>2 DEF RecordedBeforeTeam
  <2>9. CommitsAreUnique'
    BY <1>1, <2>2, <2>4 DEF CommitsAreUnique
  <2> QED
    BY <1>1, <2>2, <2>5, <2>6, <2>7, <2>8, <2>9 DEF TeamsInv, Teams!OneTeamPerWallet
<1>10. ASSUME Teams!Commit(r)
       PROVE  TeamsInv'
  <2> DEFINE t == [wallet |-> q.wallet, by |-> r, verified |-> q.verified]
  <2>1. /\ q.step = "commit" /\ teams' = teams \cup {t}
        /\ request' = [request EXCEPT ![r].step = "done"]
        /\ UNCHANGED <<eventStatus, requireGithub, linked, line, verified, judging>>
    BY <1>10 DEF Teams!Commit, Teams!Goto, Teams!event, Teams!world
  <2>2. t \in Teams!Team /\ t.wallet = q.wallet /\ verified[q.wallet] # None
    BY <1>1, <1>2, <2>1 DEF Teams!Team, CallOfRegister, RecordedBeforeTeam
  <2>3. /\ request' \in [Requests -> CallOfRegister]
        /\ request'[r].step = "done" /\ request'[r].wallet = q.wallet
        /\ request'[r].gh = q.gh /\ request'[r].verified = q.verified
        /\ \A p \in Requests \ {r} : request'[p] = request[p]
    BY <1>2, <2>1 DEF CallOfRegister, Steps
  <2>4. CallsOK'
    BY <1>1, <1>2, <2>1, <2>3 DEF CallsOK
  <2>5. Teams!TypeOK'
    BY <1>1, <2>1, <2>2, <2>4 DEF Teams!TypeOK, CallsOK, CallOfRegister, Steps
  <2>6. SeenLinesOpen'
    BY <1>1, <2>1, <2>3 DEF SeenLinesOpen, Teams!hasUsdcTrustline, Teams!trustlineHeadroom
  <2>7. RecordedBeforeTeam'
    BY <1>1, <2>1, <2>2, <2>3 DEF RecordedBeforeTeam
  <2>8. CommitsAreUnique'
    BY <1>1, <2>1, <2>2, <2>3 DEF CommitsAreUnique
  <2>9. Teams!OneTeamPerWallet'
    BY <1>1, <2>1, <2>2 DEF CommitsAreUnique, Teams!OneTeamPerWallet
  <2> QED
    BY <2>4, <2>5, <2>6, <2>7, <2>8, <2>9 DEF TeamsInv
<1> QED
  BY <1>3, <1>4, <1>6, <1>7, <1>8, <1>9, <1>10 DEF Teams!registerTeam

LEMMA TeamsStepInv == TeamsInv /\ [Teams!Next]_(Teams!vars) => TeamsInv'
<1> SUFFICES ASSUME TeamsInv, [Teams!Next]_(Teams!vars) PROVE TeamsInv'
  OBVIOUS
<1>1. /\ Teams!TypeOK /\ CallsOK /\ SeenLinesOpen /\ RecordedBeforeTeam /\ CommitsAreUnique
      /\ Teams!OneTeamPerWallet
  BY DEF TeamsInv
<1>2. ASSUME UNCHANGED <<requireGithub, linked, verified, request, teams>>,
             eventStatus' \in Teams!Statuses,
             line' \in [Entrants -> Lines \cup {None}],
             judging' \in [Judgings -> {"none", "update", "done", "failed"}]
      PROVE  TeamsInv'
  <2>1. Teams!TypeOK' /\ CallsOK' /\ RecordedBeforeTeam' /\ CommitsAreUnique'
        /\ Teams!OneTeamPerWallet'
    BY <1>1, <1>2 DEF Teams!TypeOK, CallsOK, RecordedBeforeTeam, CommitsAreUnique, Teams!OneTeamPerWallet
  <2>2. SeenLinesOpen'
    BY <1>1, <1>2 DEF SeenLinesOpen, Teams!hasUsdcTrustline, Teams!trustlineHeadroom
  <2> QED
    BY <2>1, <2>2 DEF TeamsInv
<1>3. /\ eventStatus \in Teams!Statuses /\ line \in [Entrants -> Lines \cup {None}]
      /\ judging \in [Judgings -> {"none", "update", "done", "failed"}]
  BY <1>1 DEF Teams!TypeOK
<1>4. ASSUME NEW j \in Judgings, Teams!ReadForJudging(j)
      PROVE  TeamsInv'
  BY <1>2, <1>3, <1>4 DEF Teams!ReadForJudging, Teams!event, Teams!world
<1>5. ASSUME NEW j \in Judgings, Teams!startJudging(j)
      PROVE  TeamsInv'
  <2>1. eventStatus' \in {eventStatus, "JUDGING"} /\ "JUDGING" \in Teams!Statuses
    BY <1>5 DEF Teams!startJudging, Teams!transitionEvent, Teams!Statuses
  <2> QED
    BY <1>2, <1>3, <1>5, <2>1 DEF Teams!startJudging, Teams!transitionEvent, Teams!world
<1>6. CASE Teams!CoreMovesEvent
  BY <1>2, <1>3, <1>6 DEF Teams!CoreMovesEvent, Teams!Statuses, Teams!world
<1>7. CASE Teams!TrustlineChanges
  BY <1>2, <1>3, <1>7 DEF Teams!TrustlineChanges, Teams!event
<1>8. CASE UNCHANGED Teams!vars
  BY <1>2, <1>3, <1>8 DEF Teams!vars, Teams!event, Teams!world
<1> QED
  BY <1>4, <1>5, <1>6, <1>7, <1>8, RegisterStep DEF Teams!Next

\* A wallet is on one team, for any number of calls of registerTeam that passed
\* the check for an existing registration together: the index on wallets holds
\* the second insert back until the first is committed.
THEOREM WalletsJoinOnce == Teams!Spec => []OneTeamPerWallet
<1>1. TeamsInv => OneTeamPerWallet
  BY DEF TeamsInv, OneTeamPerWallet
<1> QED
  BY <1>1, TeamsInitInv, TeamsStepInv, PTL DEF Teams!Spec

\* The wallet of a team was seen with a trustline that takes a payment by the
\* ledger's rule, whichever lines Horizon reports and when they change.
THEOREM TeamsCouldReceive == Teams!Spec => []RegisteredCouldReceive
<1>1. TeamsInv => RegisteredCouldReceive
  <2> SUFFICES ASSUME TeamsInv, NEW t \in teams
               PROVE  LET l == verified[t.wallet]
                      IN  l # None /\ l.authorized /\ l.balance + l.liabilities + 1 <= l.limit
    BY DEF RegisteredCouldReceive, Teams!RegisteredCouldReceive
  <2> DEFINE l == verified[t.wallet]
  <2>1. t.wallet \in Entrants /\ l # None
    BY DEF TeamsInv, Teams!TypeOK, Teams!Team, RecordedBeforeTeam
  <2>2. l \in Lines /\ Teams!hasUsdcTrustline(l)
    BY <2>1 DEF TeamsInv, SeenLinesOpen
  <2>3. l \in [authorized : BOOLEAN, limit : Nat, balance : Nat, liabilities : Nat]
    BY <2>2, EventPagesAssumption DEF Teams!RegistrationAssumption
  <2>4. l.balance + l.liabilities + 1 <= l.limit
    BY <2>2, <2>3 DEF Teams!hasUsdcTrustline, Teams!trustlineHeadroom
  <2> QED
    BY <2>1, <2>2, <2>4 DEF Teams!hasUsdcTrustline
<1> QED
  BY <1>1, TeamsInitInv, TeamsStepInv, PTL DEF Teams!Spec

(***************************************************************************)
(* The surfaces that show the event.                                       *)
(***************************************************************************)

\* What a row has to hold before anything may be called paid.
SaysPaid(r) == r.status = "COMPLETED" \/ \E i \in DOMAIN r.paid : r.paid[i]

\* The contract has paid the winners.
Released == chain # None /\ chain.released

\* The row and the chain's event have the fields they are read with, and a row
\* that is past its draft has an event on the chain.
RecordsOK ==
  /\ eventRow = [status |-> eventRow.status, onChain |-> eventRow.onChain,
                 closed |-> eventRow.closed, teams |-> eventRow.teams,
                 linked |-> eventRow.linked, winner |-> eventRow.winner,
                 paid |-> eventRow.paid]
  /\ chain \in Views!ChainEvent \cup {None}
  /\ eventRow.status # "DRAFT" => chain # None

\* The row, and the copy of it that a rendering holds, say "paid" only once the
\* contract has paid; what was paid stays so.
RowsArePaid ==
  /\ SaysPaid(eventRow) => Released
  /\ rendering # Views!NoRequest =>
       /\ SaysPaid(rendering.row) => Released
       /\ rendering.surface \in Views!Surfaces

ClaimsHold ==
  rendered.paid # {} \/ rendered.claims \cap {"allPaid", "morePaid"} # {} => Released

\* The inductive invariant.
ViewsInv == RecordsOK /\ RowsArePaid /\ ClaimsHold

LEMMA ViewsInitInv == Views!Init => ViewsInv
<1> SUFFICES ASSUME Views!Init PROVE ViewsInv
  OBVIOUS
<1>1. PICK n \in PrizeCounts :
        eventRow = [status |-> "DRAFT", onChain |-> FALSE, closed |-> FALSE, teams |-> 0,
                    linked |-> {}, winner |-> [i \in 1..n |-> None], paid |-> [i \in 1..n |-> FALSE]]
  BY DEF Views!Init
<1>2. ~SaysPaid(eventRow) /\ eventRow.status = "DRAFT"
  BY <1>1 DEF SaysPaid
<1>3. RecordsOK
  BY <1>1 DEF RecordsOK, Views!Init
<1>4. RowsArePaid /\ ClaimsHold
  BY <1>2 DEF RowsArePaid, ClaimsHold, Views!Init, Views!NothingShown
<1> QED
  BY <1>3, <1>4 DEF ViewsInv

\* A surface calls a prize paid only for a row that says so.
LEMMA RenderedFromRow ==
  ASSUME NEW r, NEW escrow, NEW viewer, NEW surface \in Views!Surfaces
  PROVE  LET v == Views!Render(surface, r, escrow, viewer)
         IN  v.paid # {} \/ v.claims \cap {"allPaid", "morePaid"} # {} => SaysPaid(r)
<1> DEFINE v == Views!Render(surface, r, escrow, viewer)
           m == Views!buildEventCardModel(r, escrow)
<1> SUFFICES ASSUME ~SaysPaid(r)
             PROVE  v.paid = {} /\ v.claims \cap {"allPaid", "morePaid"} = {}
  OBVIOUS
<1> USE DEF Views!View, Views!Words
<1>1. r.status # "COMPLETED" /\ \A i \in DOMAIN r.paid : ~r.paid[i]
  BY DEF SaysPaid
<1>2. CASE surface = "page"
  <2>1. v = Views!EventPage(r, escrow, viewer)
    BY <1>2 DEF Views!Render
  <2>2. Views!PrizeList(r) = {} /\ Views!PayoutHistory(r) = {}
    BY <1>1 DEF Views!PrizeList, Views!PayoutHistory
  <2>3. Views!resolver(r, escrow) \notin {"allPaid", "morePaid"}
    BY DEF Views!resolver, Views!resolveDisputeResolver
  <2>4. Views!OnchainBadge(r, escrow) \cap {"allPaid", "morePaid"} = {}
    <3>1. Views!OnchainBadge(r, escrow)
            \in {{"notOnChain"}, {"readFailed"}, {"reward", "verified"}, {"reward"}}
      BY DEF Views!OnchainBadge
    <3> QED
      BY <3>1
  <2>5. Views!CallsToAction(r, viewer) \cap {"allPaid", "morePaid"} = {}
    BY DEF Views!CallsToAction
  <2>6. /\ v.claims = {"status", Views!resolver(r, escrow)} \cup Views!OnchainBadge(r, escrow)
                        \cup Views!CallsToAction(r, viewer)
        /\ v.paid = {}
    BY <2>1, <2>2 DEF Views!EventPage
  <2> QED
    BY <2>3, <2>4, <2>5, <2>6
<1>3. CASE surface = "receipt"
  <2>1. v = Views!EventPrintPage(r, escrow)
    BY <1>3 DEF Views!Render
  <2>2. v = [claims |-> {"notFound"}, paid |-> {}, handles |-> {}]
    BY <1>1, <2>1 DEF Views!EventPrintPage
  <2> QED
    BY <2>2
<1>4. CASE surface = "display"
  <2>1. v = Views!DisplayImage(r, escrow)
    BY <1>4 DEF Views!Render
  <2>2. \E word \in {"notFound", "judging", "open"} :
          v.claims \subseteq {"locked", word} /\ v.paid = {}
    BY <2>1 DEF Views!DisplayImage, Views!DisplayEventCard
  <2> QED
    BY <2>2
<1>5. CASE surface = "card"
  <2>1. v = Views!renderEventCard(m)
    BY <1>5 DEF Views!Render
  <2>2. m.templateType \in {"open", "generic"}
    BY <1>1 DEF Views!buildEventCardModel
  <2>3. v \in {Views!OpenEventCard(m), Views!GenericCard}
    BY <2>1, <2>2 DEF Views!renderEventCard
  <2>4. Views!statusLabel(m) \in {"judging", "closed", "open"}
    BY DEF Views!statusLabel
  <2> QED
    BY <2>3, <2>4 DEF Views!OpenEventCard, Views!GenericCard
<1> QED
  BY <1>2, <1>3, <1>4, <1>5 DEF Views!Surfaces

LEMMA ViewsElsewhere ==
  ASSUME ViewsInv, Views!Elsewhere
  PROVE  ViewsInv'
<1>1. RecordsOK /\ RowsArePaid /\ ClaimsHold
  BY DEF ViewsInv
<1> USE DEF Views!Record, Views!OnChain
<1>2. ASSUME NEW st, NEW onChain, NEW closed, NEW members, NEW links, NEW winner, NEW paidOut,
             eventRow' = [status |-> st, onChain |-> onChain, closed |-> closed,
                          teams |-> members, linked |-> links, winner |-> winner, paid |-> paidOut],
             st # "DRAFT" => chain # None,
             \/ st # "COMPLETED" /\ paidOut = eventRow.paid
             \/ st = eventRow.status /\ paidOut = eventRow.paid
             \/ chain # None /\ chain.released,
             UNCHANGED <<chain, rendering, rendered>>
      PROVE  ViewsInv'
  <2>1. RecordsOK'
    BY <1>1, <1>2 DEF RecordsOK
  <2>2. SaysPaid(eventRow)' => Released
    BY <1>1, <1>2 DEF RowsArePaid, SaysPaid, Released
  <2>3. RowsArePaid' /\ ClaimsHold'
    BY <1>1, <1>2, <2>2 DEF RowsArePaid, ClaimsHold, Released, SaysPaid
  <2> QED
    BY <2>1, <2>3 DEF ViewsInv
<1>3. ASSUME chain' \in Views!ChainEvent \cup {None}, chain # None => chain' # None,
             Released => chain'.released,
             UNCHANGED <<eventRow, rendering, rendered>>
      PROVE  ViewsInv'
  <2>1. RecordsOK' /\ (Released => Released')
    BY <1>1, <1>3 DEF RecordsOK, Released
  <2>2. RowsArePaid' /\ ClaimsHold'
    BY <1>1, <1>3, <2>1 DEF RowsArePaid, ClaimsHold, SaysPaid
  <2> QED
    BY <2>1, <2>2 DEF ViewsInv
<1>4. CASE Views!CreateOnChain
  <2>1. PICK r \in 1..MaxReward : chain' = [state |-> "Created", reward |-> r, released |-> FALSE]
    BY <1>4 DEF Views!CreateOnChain
  <2>2. chain' \in Views!ChainEvent /\ chain = None /\ ~Released
    BY <1>4, <2>1 DEF Views!CreateOnChain, Views!ChainEvent, Views!Locked, Released
  <2> QED
    BY <1>3, <1>4, <2>2 DEF Views!CreateOnChain
<1>5. CASE \/ Views!RecordCreate \/ Views!RecordStart \/ Views!Register \/ Views!RegistrationCloses
           \/ Views!StartJudging \/ (\E t \in Linkers : Views!LinkGithub(t))
           \/ (\E shift \in 0..MaxTeams : Views!AssignWinners(shift))
  <2>1. /\ eventRow' = [status |-> eventRow'.status, onChain |-> eventRow'.onChain,
                        closed |-> eventRow'.closed, teams |-> eventRow'.teams,
                        linked |-> eventRow'.linked, winner |-> eventRow'.winner,
                        paid |-> eventRow.paid]
        /\ eventRow'.status # "DRAFT" => chain # None
        /\ eventRow'.status \in {"CREATED", "LIVE", "JUDGING", eventRow.status}
        /\ UNCHANGED <<chain, rendering, rendered>>
    <3>1. CASE Views!RecordCreate
      BY <1>1, <3>1 DEF RecordsOK, Views!RecordCreate
    <3>2. CASE Views!RecordStart
      BY <1>1, <3>2 DEF RecordsOK, Views!RecordStart
    <3>3. CASE Views!Register
      BY <1>1, <3>3 DEF RecordsOK, Views!Register
    <3>4. CASE Views!RegistrationCloses
      BY <1>1, <3>4 DEF RecordsOK, Views!RegistrationCloses
    <3>5. CASE Views!StartJudging
      BY <1>1, <3>5 DEF RecordsOK, Views!StartJudging
    <3>6. ASSUME NEW t \in Linkers, Views!LinkGithub(t)
          PROVE  <2>1
      BY <1>1, <3>6 DEF RecordsOK, Views!LinkGithub
    <3>7. ASSUME NEW shift \in 0..MaxTeams, Views!AssignWinners(shift)
          PROVE  <2>1
      BY <1>1, <3>7 DEF RecordsOK, Views!AssignWinners
    <3> QED
      BY <1>5, <3>1, <3>2, <3>3, <3>4, <3>5, <3>6, <3>7
  <2> QED
    BY <1>2, <2>1
<1>6. CASE Views!RecordRelease
  <2>1. chain # None /\ chain.released
    BY <1>1, <1>6 DEF RecordsOK, Views!RecordRelease
  <2>2. \E paidOut : eventRow' = [status |-> "COMPLETED", onChain |-> eventRow.onChain,
          closed |-> eventRow.closed, teams |-> eventRow.teams, linked |-> eventRow.linked,
          winner |-> eventRow.winner, paid |-> paidOut]
    BY <1>1, <1>6 DEF RecordsOK, Views!RecordRelease
  <2> QED
    BY <1>2, <1>6, <2>1, <2>2 DEF Views!RecordRelease
<1>7. CASE \/ Views!StartOnChain \/ Views!ReleaseOnChain \/ Views!WaitOnChain \/ Views!CancelOnChain
           \/ Views!CompensateOnChain \/ Views!ResolveOnChain \/ Views!WithdrawOnChain
  <2>1. chain \in Views!ChainEvent /\ UNCHANGED <<eventRow, rendering, rendered>>
    BY <1>1, <1>7 DEF RecordsOK, Views!StartOnChain, Views!ReleaseOnChain, Views!WaitOnChain,
      Views!CancelOnChain, Views!CompensateOnChain, Views!ResolveOnChain, Views!WithdrawOnChain
  <2>2. CASE Views!WithdrawOnChain
    <3>1. chain' = [chain EXCEPT !.reward = chain.reward - 1] /\ chain.reward > 0
      BY <2>2 DEF Views!WithdrawOnChain
    <3>2. chain' \in Views!ChainEvent /\ chain'.released = chain.released
      <4>1. chain.reward - 1 \in 0..MaxReward
        BY <2>1, <3>1, EventPagesAssumption DEF Views!ViewsAssumption, Views!ChainEvent
      <4> QED
        BY <2>1, <3>1, <4>1 DEF Views!ChainEvent
    <3> QED
      BY <1>3, <2>1, <3>2, EventPagesAssumption DEF Views!ViewsAssumption, Released
  <2>3. CASE Views!ReleaseOnChain
    <3>1. chain' = [chain EXCEPT !.state = "Ended", !.released = TRUE]
      BY <2>3 DEF Views!ReleaseOnChain
    <3>2. chain' \in Views!ChainEvent /\ chain'.released
      BY <2>1, <3>1 DEF Views!ChainEvent
    <3> QED
      BY <1>3, <2>1, <3>2, EventPagesAssumption DEF Views!ViewsAssumption
  <2>4. CASE ~Views!WithdrawOnChain /\ ~Views!ReleaseOnChain
    <3>1. PICK s \in {"InProgress", "WaitingForStart", "Cancelled", "Compensated", "Ended"} :
            chain' = [chain EXCEPT !.state = s]
      BY <1>7, <2>4 DEF Views!StartOnChain, Views!WaitOnChain, Views!CancelOnChain,
        Views!CompensateOnChain, Views!ResolveOnChain
    <3>2. chain' \in Views!ChainEvent /\ chain'.released = chain.released
      BY <2>1, <3>1 DEF Views!ChainEvent, Views!Locked
    <3> QED
      BY <1>3, <2>1, <3>2, EventPagesAssumption DEF Views!ViewsAssumption, Released
  <2> QED
    BY <2>2, <2>3, <2>4
<1> QED
  BY <1>4, <1>5, <1>6, <1>7 DEF Views!Elsewhere

LEMMA ViewsStepInv == ViewsInv /\ [Views!Next]_(Views!vars) => ViewsInv'
<1> SUFFICES ASSUME ViewsInv, [Views!Next]_(Views!vars) PROVE ViewsInv'
  OBVIOUS
<1>1. RecordsOK /\ RowsArePaid /\ ClaimsHold
  BY DEF ViewsInv
<1>2. CASE Views!Elsewhere
  BY <1>2, ViewsElsewhere
<1>3. ASSUME NEW s \in Views!Surfaces, NEW v \in Views!Viewers, Views!loadPublicEventView(s, v)
      PROVE  ViewsInv'
  <2>1. /\ rendering' = [surface |-> s, viewer |-> v, row |-> eventRow]
        /\ rendered' = Views!NothingShown /\ UNCHANGED <<eventRow, chain>>
    BY <1>3 DEF Views!loadPublicEventView
  <2>2. RecordsOK' /\ ClaimsHold'
    BY <1>1, <2>1 DEF RecordsOK, ClaimsHold, Views!NothingShown
  <2>3. rendering'.row = eventRow /\ rendering'.surface = s
    BY <2>1
  <2>4. RowsArePaid'
    BY <1>1, <2>1, <2>3 DEF RowsArePaid, SaysPaid, Released
  <2> QED
    BY <2>2, <2>4 DEF ViewsInv
<1>4. CASE Views!readEscrowEvent
  <2> DEFINE r == rendering.row
             V(read) == Views!Render(rendering.surface, r, IF read = "ok" THEN chain ELSE None,
                                     rendering.viewer)
  <2>1. PICK read \in {"ok", "failed", "none"} :
          rendered'.paid = V(read).paid /\ rendered'.claims = V(read).claims
    BY <1>4 DEF Views!readEscrowEvent
  <2>2. rendering # Views!NoRequest /\ rendering' = Views!NoRequest /\ UNCHANGED <<eventRow, chain>>
    BY <1>4 DEF Views!readEscrowEvent
  <2>3. V(read).paid # {} \/ V(read).claims \cap {"allPaid", "morePaid"} # {} => SaysPaid(r)
    BY <1>1, <2>2, RenderedFromRow DEF RowsArePaid
  <2> HIDE DEF V
  <2>4. ClaimsHold'
    BY <1>1, <2>1, <2>2, <2>3 DEF ClaimsHold, RowsArePaid, Released
  <2>5. RecordsOK' /\ RowsArePaid'
    BY <1>1, <2>2 DEF RecordsOK, RowsArePaid, SaysPaid, Released, Views!NoRequest
  <2> QED
    BY <2>4, <2>5 DEF ViewsInv
<1>5. CASE UNCHANGED Views!vars
  BY <1>1, <1>5 DEF Views!vars, ViewsInv, RecordsOK, RowsArePaid, ClaimsHold, SaysPaid, Released
<1> QED
  BY <1>2, <1>3, <1>4, <1>5 DEF Views!Next

\* Page, receipt, projector image and card call nothing paid before the contract
\* has paid, for any number of prizes and teams, and however far the event has
\* moved between the reads of its row and of the chain.
THEOREM SurfacesClaimPaid == Views!Spec => []PaidClaimsHold
<1>1. ViewsInv => PaidClaimsHold
  BY DEF ViewsInv, ClaimsHold, Released, PaidClaimsHold, Views!PaidClaimsHold
<1> QED
  BY <1>1, ViewsInitInv, ViewsStepInv, PTL DEF Views!Spec

(***************************************************************************)
(* The types of the operation log.                                         *)
(***************************************************************************)

\* Envelopes are numbered as they are built, and none is ahead of the account by
\* more than the envelopes built before it; what is submitted was built.
LogPage ==
  /\ IsFiniteSet(opBuilt) /\ Cardinality(opBuilt) <= MaxBuilds
  /\ opBuilt \subseteq Log!Envelope
  /\ \A e \in opBuilt : e.seq <= Cardinality(opBuilt) /\ e.id <= Cardinality(opBuilt)
  /\ opIncluded \subseteq opBuilt /\ opSeq \in 0..Cardinality(opBuilt)
  /\ \A c \in Requests : call[c].pc \in {"send", "sent"} => call[c].tx \in opBuilt
  /\ opRow = None \/ opRow \in [status : {"PENDING", "SUCCEEDED", "FAILED"}, tx : opBuilt \cup {None}]
  /\ opRow # None => (opRow.status = "SUCCEEDED" <=> opRow.tx # None)

\* A step that leaves the envelopes and the row alone and starts no submit.
LEMMA LogPageKept ==
  ASSUME LogPage, UNCHANGED <<opRow, opBuilt, opSeq, opIncluded>>,
         \A c \in Requests : call'[c].pc \in {"send", "sent"} => call'[c].tx \in opBuilt
  PROVE  LogPage'
BY DEF LogPage

LEMMA LogPageStep == LogInv /\ LogPage /\ [Log!Next]_(Log!vars) => LogPage'
<1> SUFFICES ASSUME LogInv, LogPage, [Log!Next]_(Log!vars) PROVE LogPage'
  OBVIOUS
<1> USE DEF Log!Goto, Log!ledger
<1>1. /\ call \in [Requests -> [pc : {"idle", "update", "create", "build", "send", "sent", "failed"},
                                tx : opBuilt \cup {None}]]
      /\ \A c \in Requests : call[c].pc \in {"send", "sent"} => call[c].tx \in opBuilt
      /\ None \notin opBuilt
  BY EventPagesAssumption DEF LogInv, CallsSubmitBuilt, LogPage, Log!LogAssumption
<1>2. CASE UNCHANGED Log!vars
  BY <1>2 DEF Log!vars, LogPage
<1>3. ASSUME NEW c \in Requests, Log!Prepare(c)
      PROVE  LogPage'
  BY <1>1, <1>3, LogPageKept DEF Log!Prepare, Log!Answer
<1>4. ASSUME NEW c \in Requests, NEW new, new \in {Log!Pending, opRow},
             opRow' = new, call' = [call EXCEPT ![c] = [pc |-> "build", tx |-> None]],
             UNCHANGED <<opBuilt, opSeq, opIncluded>>
      PROVE  LogPage'
  <2>1. \A q \in Requests : call'[q].pc \in {"send", "sent"} => call'[q].tx \in opBuilt
    BY <1>1, <1>4
  <2>2. /\ new = None \/ new \in [status : {"PENDING", "SUCCEEDED", "FAILED"}, tx : opBuilt \cup {None}]
        /\ new # None => (new.status = "SUCCEEDED" <=> new.tx # None)
    BY <1>4 DEF LogPage, Log!Pending
  <2> QED
    BY <1>4, <2>1, <2>2 DEF LogPage
<1>5. ASSUME NEW c \in Requests, Log!UpdateRow(c) \/ Log!CreateRow(c)
      PROVE  LogPage'
  BY <1>4, <1>5 DEF Log!UpdateRow, Log!CreateRow
<1>6. ASSUME NEW c \in Requests, Log!Build(c)
      PROVE  LogPage'
  <2>1. \A q \in Requests : call'[q].pc \in {"send", "sent"} => call[q] = call'[q]
    BY <1>1, <1>6 DEF Log!Build
  <2>2. CASE UNCHANGED opBuilt
    BY <1>1, <1>6, <2>1, <2>2, LogPageKept DEF Log!Build
  <2>3. CASE /\ Cardinality(opBuilt) < MaxBuilds
             /\ opBuilt' = opBuilt \cup {[id |-> Cardinality(opBuilt) + 1, seq |-> opSeq + 1]}
    <3> DEFINE n == Cardinality(opBuilt)
               e == [id |-> n + 1, seq |-> opSeq + 1]
    <3>1. n \in Nat /\ MaxBuilds \in Nat /\ opSeq \in 0..n /\ n < MaxBuilds
      BY <2>3, FS_CardinalityType, EventPagesAssumption DEF LogPage, Log!LogAssumption
    <3>2. e \in Log!Envelope /\ e.id = n + 1 /\ e.seq = opSeq + 1
      BY <3>1 DEF Log!Envelope
    <3>3. e \notin opBuilt
      BY <3>1, <3>2 DEF LogPage
    <3>4. IsFiniteSet(opBuilt') /\ Cardinality(opBuilt') = n + 1
      BY <2>3, <3>3, FS_AddElement DEF LogPage
    <3>5. \A f \in opBuilt : f.seq \in Nat /\ f.id \in Nat /\ f.seq <= n /\ f.id <= n
      BY DEF LogPage, Log!Envelope
    <3> HIDE DEF e, n
    <3>6. \A f \in opBuilt' : f \in Log!Envelope /\ f.seq <= n + 1 /\ f.id <= n + 1
      BY <2>3, <3>1, <3>2, <3>5 DEF LogPage, e, n
    <3>7. opBuilt \subseteq opBuilt' /\ UNCHANGED <<opRow, opSeq, opIncluded>>
      BY <1>6, <2>3 DEF Log!Build
    <3>8. \A q \in Requests : call'[q].pc \in {"send", "sent"} => call'[q].tx \in opBuilt'
      BY <1>1, <2>1, <3>7
    <3> QED
      BY <3>1, <3>4, <3>6, <3>7, <3>8 DEF LogPage
  <2>4. Log!Cardinality(opBuilt) = Cardinality(opBuilt)
    BY DEF Log!Cardinality, Cardinality
  <2>5. \/ UNCHANGED opBuilt
        \/ /\ Cardinality(opBuilt) < MaxBuilds
           /\ opBuilt' = opBuilt \cup {[id |-> Cardinality(opBuilt) + 1, seq |-> opSeq + 1]}
    BY <1>6, <2>4 DEF Log!Build
  <2> QED
    BY <2>2, <2>3, <2>5
<1>7. ASSUME NEW c \in Requests, NEW e \in opBuilt, Log!Submit(c, e)
      PROVE  LogPage'
  BY <1>1, <1>7, LogPageKept DEF Log!Submit, Log!Answer
<1>8. ASSUME NEW c \in Requests, Log!Send(c)
      PROVE  LogPage'
  <2>1. call[c].tx \in opBuilt
    BY <1>1, <1>8 DEF Log!Send
  <2>2. \A q \in Requests : call'[q].pc \in {"send", "sent"} => call'[q].tx \in opBuilt
    BY <1>1, <1>8, <2>1 DEF Log!Send
  <2>3. call[c].tx.seq \in 0..Cardinality(opBuilt)
    BY <2>1, FS_CardinalityType DEF LogPage, Log!Envelope
  <2>4. opIncluded' \subseteq opBuilt /\ opSeq' \in 0..Cardinality(opBuilt)
    BY <1>8, <2>1, <2>3 DEF Log!Send, LogPage
  <2>5. UNCHANGED <<opRow, opBuilt>>
    BY <1>8 DEF Log!Send
  <2> QED
    BY <2>2, <2>4, <2>5 DEF LogPage
<1>9. ASSUME NEW c \in Requests,
             opRow' \in [status : {"SUCCEEDED", "FAILED"}, tx : opBuilt \cup {None}],
             opRow'.status = "SUCCEEDED" <=> opRow'.tx # None,
             call' = [call EXCEPT ![c] = [pc |-> "idle", tx |-> None]],
             UNCHANGED <<opBuilt, opSeq, opIncluded>>
      PROVE  LogPage'
  <2>1. \A q \in Requests : call'[q].pc \in {"send", "sent"} => call'[q].tx \in opBuilt
    BY <1>1, <1>9
  <2> QED
    BY <1>9, <2>1 DEF LogPage
<1>10. ASSUME NEW c \in Requests, Log!RecordFailure(c)
       PROVE  LogPage'
  <2>1. opRow' \in [status : {"SUCCEEDED", "FAILED"}, tx : opBuilt \cup {None}]
        /\ opRow'.status = "FAILED" /\ opRow'.tx = None
    BY <1>10 DEF Log!RecordFailure
  <2> QED
    BY <1>9, <1>10, <2>1 DEF Log!RecordFailure
<1>11. ASSUME NEW c \in Requests, Log!RecordSuccess(c)
       PROVE  LogPage'
  <2>1. call[c].tx \in opBuilt /\ call[c].tx # None
    BY <1>1, <1>11 DEF Log!RecordSuccess
  <2>2. opRow' \in [status : {"SUCCEEDED", "FAILED"}, tx : opBuilt \cup {None}]
        /\ opRow'.status = "SUCCEEDED" /\ opRow'.tx # None
    BY <1>11, <2>1 DEF Log!RecordSuccess
  <2> QED
    BY <1>9, <1>11, <2>2 DEF Log!RecordSuccess
<1> QED
  BY <1>2, <1>3, <1>5, <1>6, <1>7, <1>8, <1>10, <1>11 DEF Log!Next

\* The envelopes stay numbered within their bound, and a row has a hash exactly
\* when it says SUCCEEDED.
LEMMA LogTyped == Log!Spec => []Log!TypeOK
<1>1. Log!Init => LogPage
  BY FS_EmptySet, EventPagesAssumption DEF Log!Init, Log!Idle, LogPage, Log!LogAssumption
<1>2. ASSUME LogInv, LogPage PROVE Log!TypeOK
  <2>1. opSeq \in 0..MaxBuilds
    BY <1>2, FS_CardinalityType, EventPagesAssumption DEF LogPage, Log!LogAssumption
  <2>2. call \in [Requests -> [pc : {"idle", "update", "create", "build", "send", "sent", "failed"},
                               tx : Log!Envelope \cup {None}]]
    BY <1>2 DEF LogInv, CallsSubmitBuilt, LogPage
  <2>3. opRow = None \/ opRow \in [status : {"PENDING", "SUCCEEDED", "FAILED"},
                                   tx : Log!Envelope \cup {None}]
    BY <1>2 DEF LogPage
  <2> QED
    BY <1>2, <2>1, <2>2, <2>3 DEF LogInv, LogPage, Log!AnswersAreIncluded, Log!TypeOK
<1> QED
  BY LogInitInv, LogStepInv, LogPageStep, <1>1, <1>2, PTL DEF Log!Spec

(***************************************************************************)
(* The types of the surfaces that show the event.                          *)
(***************************************************************************)

\* A row with n prizes.
RowOf(n) ==
  [status : {"DRAFT", "CREATED", "LIVE", "JUDGING", "COMPLETED"}, onChain : BOOLEAN,
   closed : BOOLEAN, teams : 0..MaxTeams, linked : SUBSET Linkers,
   winner : [1..n -> 1..MaxTeams \cup {None}], paid : [1..n -> BOOLEAN]]

\* What a surface shows of a row with n prizes: no GitHub handle, for the accounts
\* are stored under another spelling of their provider than the card asks for.
ShownOf(n) ==
  /\ rendered.surface \in Views!Surfaces \cup {None} /\ rendered.read \in {"none", "failed", "ok"}
  /\ rendered.claims \subseteq Views!Claims /\ rendered.paid \subseteq 1..n
  /\ rendered.handles = {}
  /\ rendered.surface = "receipt" => \E c : rendered.claims = {c}

\* The number of prizes never changes.
ViewsPage(n) ==
  /\ eventRow \in RowOf(n) /\ ShownOf(n)
  /\ rendering = Views!NoRequest
       \/ rendering \in [surface : Views!Surfaces, viewer : Views!Viewers, row : RowOf(n)]

\* No winner has a handle.
LEMMA NoHandles ==
  ASSUME NEW n \in Nat, NEW r \in RowOf(n), NEW w \in Views!winners(r)
  PROVE  ~w.handle /\ w.rank \in 1..n
<1>1. PICK i \in DOMAIN r.winner :
        w = [rank |-> i, team |-> r.winner[i], paid |-> r.paid[i],
             handle |-> Views!formatMemberHandle(r, r.winner[i])]
  BY DEF Views!winners
<1>2. DOMAIN r.winner = 1..n
  BY DEF RowOf
<1>3. ~Views!formatMemberHandle(r, r.winner[i])
  BY DEF Views!formatMemberHandle, Views!linkedAccounts, Views!StoredProvider
<1> QED
  BY <1>1, <1>2, <1>3

\* What a surface may render of a row with n prizes.
Worded(n, surface, v) ==
  /\ v.claims \subseteq Views!Claims /\ v.paid \subseteq 1..n /\ v.handles = {}
  /\ surface = "receipt" => \E c : v.claims = {c}

\* Whatever a surface renders is made of its own words and of ranks of the row.
LEMMA RenderedWords ==
  ASSUME NEW n \in Nat, NEW r \in RowOf(n), NEW escrow, NEW viewer, NEW surface \in Views!Surfaces
  PROVE  Worded(n, surface, Views!Render(surface, r, escrow, viewer))
<1> DEFINE v == Views!Render(surface, r, escrow, viewer)
           m == Views!buildEventCardModel(r, escrow)
<1> USE DEF Views!View, Views!Words, Worded
<1>1. r.paid \in [1..n -> BOOLEAN] /\ DOMAIN r.paid = 1..n
  BY DEF RowOf
<1>2. m.winners = Views!winners(r)
  BY DEF Views!buildEventCardModel
<1>3. \A w \in Views!winners(r) : ~w.handle /\ w.rank \in 1..n
  BY NoHandles
<1>4. CASE surface = "page"
  <2>1. v = Views!EventPage(r, escrow, viewer)
    BY <1>4 DEF Views!Render
  <2>2. Views!PrizeList(r) \subseteq 1..n /\ Views!PayoutHistory(r) \subseteq 1..n
    BY <1>1 DEF Views!PrizeList, Views!PayoutHistory
  <2>3. Views!resolver(r, escrow) \in {"unavailable", "defaultResolver", "resolver"}
    BY DEF Views!resolver, Views!resolveDisputeResolver
  <2>4. Views!OnchainBadge(r, escrow)
          \in {{"notOnChain"}, {"readFailed"}, {"reward", "verified"}, {"reward"}}
    BY DEF Views!OnchainBadge
  <2>5. Views!CallsToAction(r, viewer) \subseteq
          {"connect", "toggle", "goLive", "judgeLink", "register", "registered", "registrationClosed"}
    BY DEF Views!CallsToAction
  <2>6. /\ v.claims = {"status", Views!resolver(r, escrow)} \cup Views!OnchainBadge(r, escrow)
                        \cup Views!CallsToAction(r, viewer)
        /\ v.paid = Views!PrizeList(r) \cup Views!PayoutHistory(r) /\ v.handles = {}
    BY <2>1 DEF Views!EventPage
  <2>7. v.claims \subseteq Views!Claims
    <3>1. {"status", Views!resolver(r, escrow)} \subseteq Views!Claims
      BY <2>3 DEF Views!Claims
    <3>2. Views!OnchainBadge(r, escrow) \subseteq Views!Claims
      BY <2>4 DEF Views!Claims
    <3>3. Views!CallsToAction(r, viewer) \subseteq Views!Claims
      BY <2>5 DEF Views!Claims
    <3> QED
      BY <2>6, <3>1, <3>2, <3>3
  <2> QED
    BY <1>4, <2>2, <2>6, <2>7
<1>5. CASE surface = "receipt"
  <2>1. v = Views!EventPrintPage(r, escrow)
    BY <1>5 DEF Views!Render
  <2>2. Views!PaidAmong(m.winners) \subseteq 1..n /\ Views!Handles(m.winners) = {}
    BY <1>2, <1>3 DEF Views!PaidAmong, Views!Handles
  <2>3. PICK c \in {"notFound", "unavailable", "allPaid", "pending"} :
          /\ v.claims = {c} /\ v.paid \in {{}, Views!PaidAmong(m.winners)}
          /\ v.handles \in {{}, Views!Handles(m.winners)}
    BY <2>1 DEF Views!EventPrintPage
  <2> QED
    BY <2>2, <2>3 DEF Views!Claims
<1>6. CASE surface = "display"
  <2>1. v = Views!DisplayImage(r, escrow)
    BY <1>6 DEF Views!Render
  <2>2. \E word \in {"notFound", "judging", "open"} :
          v.claims \subseteq {"locked", word} /\ v.paid = {} /\ v.handles = {}
    BY <2>1 DEF Views!DisplayImage, Views!DisplayEventCard
  <2> QED
    BY <1>6, <2>2 DEF Views!Claims
<1>7. CASE surface = "card"
  <2>1. v = Views!renderEventCard(m)
    BY <1>7 DEF Views!Render
  <2>2. CASE v = Views!OpenEventCard(m) \/ v = Views!GenericCard
    <3>1. Views!statusLabel(m) \in {"judging", "closed", "open"}
      BY DEF Views!statusLabel
    <3> QED
      BY <1>7, <2>2, <3>1 DEF Views!OpenEventCard, Views!GenericCard, Views!Claims
  <2>3. CASE v = Views!WinnersEventCard(m)
    <3> DEFINE limit == IF Views!Cardinality(m.winners) >= 4 THEN 6 ELSE 3
               seen == Views!Visible(m.winners, limit)
               cards == {Views!WinnerCard(w) : w \in seen}
               omitted == m.winners \ seen
    <3>1. /\ v.claims = {IF Views!AllPaid(m.winners) THEN "allPaid" ELSE "pending"}
                          \cup Views!OmittedNote(omitted)
          /\ v.paid = UNION {c.paid : c \in cards} /\ v.handles = UNION {c.handles : c \in cards}
      BY <2>3 DEF Views!WinnersEventCard
    <3>2. \A w \in seen : w \in Views!winners(r)
      BY <1>2 DEF Views!Visible
    <3>3. \A c \in cards : c.paid \subseteq 1..n /\ c.handles = {}
      <4> HIDE DEF seen
      <4>1. ASSUME NEW w \in seen
            PROVE  Views!WinnerCard(w).paid \subseteq 1..n /\ Views!WinnerCard(w).handles = {}
        BY <1>3, <3>2 DEF Views!WinnerCard
      <4> QED
        BY <4>1
    <3>4. Views!OmittedNote(omitted) \subseteq {"morePaid", "morePending"}
      BY DEF Views!OmittedNote
    <3> HIDE DEF cards, omitted
    <3>5. v.claims \subseteq Views!Claims
      BY <3>1, <3>4 DEF Views!Claims
    <3> QED
      BY <1>7, <3>1, <3>3, <3>5
  <2> QED
    BY <2>1, <2>2, <2>3 DEF Views!renderEventCard
<1> QED
  BY <1>4, <1>5, <1>6, <1>7 DEF Views!Surfaces

\* What happens elsewhere leaves a row with as many prizes.
LEMMA RowTyped ==
  ASSUME NEW n \in Nat, ViewsPage(n), Views!Elsewhere
  PROVE  ViewsPage(n)'
<1> USE DEF Views!Record, Views!OnChain
<1>1. eventRow \in RowOf(n) /\ MaxTeams \in Nat
  BY EventPagesAssumption DEF ViewsPage, Views!ViewsAssumption
<1>2. DOMAIN eventRow.winner = 1..n /\ Len(eventRow.winner) = n /\ Views!Ranks = 1..n
  BY <1>1 DEF RowOf, Views!Ranks
<1>3. UNCHANGED <<rendering, rendered>>
  BY DEF Views!Elsewhere, Views!CreateOnChain, Views!RecordCreate, Views!RecordStart,
     Views!Register, Views!RegistrationCloses, Views!LinkGithub, Views!StartJudging,
     Views!AssignWinners, Views!RecordRelease, Views!StartOnChain, Views!ReleaseOnChain,
     Views!WaitOnChain, Views!CancelOnChain, Views!CompensateOnChain, Views!ResolveOnChain,
     Views!WithdrawOnChain
<1>4. ASSUME eventRow' \in RowOf(n) PROVE ViewsPage(n)'
  BY <1>3, <1>4 DEF ViewsPage, ShownOf
<1>5. CASE Views!RecordCreate \/ Views!RecordStart \/ Views!RegistrationCloses \/ Views!StartJudging
  <2>1. CASE Views!RecordCreate
    BY <1>1, <1>4, <2>1 DEF RowOf, Views!RecordCreate
  <2>2. CASE Views!RecordStart
    BY <1>1, <1>4, <2>2 DEF RowOf, Views!RecordStart
  <2>3. CASE Views!RegistrationCloses
    BY <1>1, <1>4, <2>3 DEF RowOf, Views!RegistrationCloses
  <2>4. CASE Views!StartJudging
    BY <1>1, <1>4, <2>4 DEF RowOf, Views!StartJudging
  <2> QED
    BY <1>5, <2>1, <2>2, <2>3, <2>4
<1>6. CASE Views!Register
  <2>1. eventRow.teams + 1 \in 0..MaxTeams
    BY <1>1, <1>6 DEF RowOf, Views!Register
  <2> QED
    BY <1>1, <1>4, <1>6, <2>1 DEF RowOf, Views!Register
<1>7. ASSUME NEW t \in Linkers, Views!LinkGithub(t)
      PROVE  ViewsPage(n)'
  BY <1>1, <1>4, <1>7 DEF RowOf, Views!LinkGithub
<1>8. ASSUME NEW shift \in 0..MaxTeams, Views!AssignWinners(shift)
      PROVE  ViewsPage(n)'
  <2>1. \A i \in 1..n : i + shift \in 1..MaxTeams
    BY <1>1, <1>2, <1>8 DEF RowOf, Views!AssignWinners
  <2>2. [i \in Views!Ranks |-> i + shift] \in [1..n -> 1..MaxTeams \cup {None}]
    BY <1>2, <2>1
  <2> QED
    BY <1>1, <1>4, <1>8, <2>2 DEF RowOf, Views!AssignWinners
<1>9. CASE Views!RecordRelease
  <2>1. [i \in Views!Ranks |-> eventRow.winner[i] # None] \in [1..n -> BOOLEAN]
    BY <1>2
  <2> QED
    BY <1>1, <1>4, <1>9, <2>1 DEF RowOf, Views!RecordRelease
<1>10. CASE UNCHANGED eventRow
  BY <1>1, <1>4, <1>10
<1> QED
  BY <1>5, <1>6, <1>7, <1>8, <1>9, <1>10
  DEF Views!Elsewhere, Views!CreateOnChain, Views!StartOnChain, Views!ReleaseOnChain,
      Views!WaitOnChain, Views!CancelOnChain, Views!CompensateOnChain, Views!ResolveOnChain,
      Views!WithdrawOnChain

LEMMA ViewsPageStep ==
  ASSUME NEW n \in Nat, ViewsPage(n), [Views!Next]_(Views!vars)
  PROVE  ViewsPage(n)'
<1>1. CASE Views!Elsewhere
  BY <1>1, RowTyped
<1>2. ASSUME NEW s \in Views!Surfaces, NEW v \in Views!Viewers, Views!loadPublicEventView(s, v)
      PROVE  ViewsPage(n)'
  <2>1. rendering' \in [surface : Views!Surfaces, viewer : Views!Viewers, row : RowOf(n)]
    BY <1>2 DEF Views!loadPublicEventView, ViewsPage
  <2>2. ShownOf(n)'
    BY <1>2, EventPagesAssumption
    DEF Views!loadPublicEventView, Views!NothingShown, Views!ViewsAssumption, Views!Surfaces, ShownOf
  <2> QED
    BY <1>2, <2>1, <2>2 DEF Views!loadPublicEventView, ViewsPage
<1>3. CASE Views!readEscrowEvent
  <2> DEFINE r == rendering.row
             V(read) == Views!Render(rendering.surface, r, IF read = "ok" THEN chain ELSE None,
                                     rendering.viewer)
  <2>1. r \in RowOf(n) /\ rendering.surface \in Views!Surfaces
    BY <1>3 DEF Views!readEscrowEvent, ViewsPage
  <2>2. PICK read \in {"ok", "failed", "none"} :
          /\ rendered'.surface = rendering.surface /\ rendered'.read = read
          /\ rendered'.claims = V(read).claims /\ rendered'.paid = V(read).paid
          /\ rendered'.handles = V(read).handles
    BY <1>3 DEF Views!readEscrowEvent
  <2>3. Worded(n, rendering.surface, V(read))
    BY <2>1, RenderedWords
  <2> HIDE DEF V
  <2>4. ShownOf(n)'
    BY <2>1, <2>2, <2>3 DEF ShownOf, Worded
  <2> QED
    BY <1>3, <2>4 DEF Views!readEscrowEvent, ViewsPage
<1>4. CASE UNCHANGED Views!vars
  BY <1>4 DEF Views!vars, ViewsPage, ShownOf
<1> QED
  BY <1>1, <1>2, <1>3, <1>4 DEF Views!Next

\* Every surface says its own words, of prizes the event has.
LEMMA ViewsTyped == Views!Spec => []Views!TypeOK
<1> DEFINE Inv == \E n \in Nat : ViewsPage(n)
<1>1. ASSUME Views!Init PROVE Inv
  <2>1. PICK n \in PrizeCounts :
          eventRow = [status |-> "DRAFT", onChain |-> FALSE, closed |-> FALSE, teams |-> 0,
                      linked |-> {}, winner |-> [i \in 1..n |-> None], paid |-> [i \in 1..n |-> FALSE]]
    BY <1>1 DEF Views!Init
  <2>2. n \in Nat /\ eventRow \in RowOf(n)
    BY <2>1, EventPagesAssumption DEF Views!ViewsAssumption, RowOf
  <2>3. rendering = Views!NoRequest /\ ShownOf(n)
    BY <1>1, EventPagesAssumption
    DEF Views!Init, Views!NothingShown, Views!ViewsAssumption, Views!Surfaces, ShownOf
  <2> QED
    BY <2>2, <2>3 DEF ViewsPage
<1>2. ASSUME Inv, [Views!Next]_(Views!vars) PROVE Inv'
  <2>1. PICK n \in Nat : ViewsPage(n)
    BY <1>2
  <2>2. ViewsPage(n)'
    BY <1>2, <2>1, ViewsPageStep
  <2> QED
    BY <2>2
<1>3. ASSUME Inv, ViewsInv PROVE Views!TypeOK
  <2>1. PICK n \in Nat : ViewsPage(n)
    BY <1>3
  <2>2. eventRow \in RowOf(n) /\ ShownOf(n)
    BY <2>1 DEF ViewsPage
  <2>3. Views!Ranks = 1..n
    BY <2>2 DEF RowOf, Views!Ranks
  <2>4. rendering.surface \in Views!Surfaces \cup {None} /\ rendering.viewer \in Views!Viewers \cup {None}
    BY <2>1 DEF ViewsPage, Views!NoRequest
  <2>5. rendered.surface = "receipt" => Views!Cardinality(rendered.claims) = 1
    <3>1. Views!Cardinality(rendered.claims) = Cardinality(rendered.claims)
      BY Zenon DEF Views!Cardinality, Cardinality
    <3> QED
      BY <2>2, <3>1, FS_Singleton DEF ShownOf
  <2>6. chain \in Views!ChainEvent \cup {None}
    BY <1>3 DEF ViewsInv, RecordsOK
  <2> QED
    BY <2>2, <2>3, <2>4, <2>5, <2>6 DEF RowOf, ShownOf, Views!TypeOK
<1> QED
  BY ViewsInitInv, ViewsStepInv, <1>1, <1>2, <1>3, PTL DEF Views!Spec

(***************************************************************************)
(* The types of all seven parts.                                           *)
(***************************************************************************)

\* Every part keeps its types, with what they say of the order of its steps: a
\* deposit that is sent has its row (handleDepositSubmit), an op_log row carries
\* a hash exactly when it says SUCCEEDED (runOperation), a surface shows payouts
\* of prizes the event has and no GitHub handle it has no link for.
THEOREM PagesKeepTypes ==
  /\ Draft!Spec /\ Deposit!Spec /\ Screen!Spec /\ Teams!Spec
  /\ Judge!Spec /\ Views!Spec /\ Log!Spec
  => []TypeOK
<1>1. Deposit!Spec => []Deposit!TypeOK
  <2>1. Deposit!Init => DepositInv
    BY EventPagesAssumption, DepositInitInv
  <2>2. DepositInv /\ [Deposit!Next]_(Deposit!vars) => DepositInv'
    BY EventPagesAssumption, DepositStepInv
  <2>3. DepositInv => Deposit!TypeOK
    BY DEF DepositInv
  <2> QED
    BY <2>1, <2>2, <2>3, PTL DEF Deposit!Spec
<1>2. Screen!Spec => []Screen!TypeOK
  <2>1. ScreenInv => Screen!TypeOK
    BY DEF ScreenInv
  <2> QED
    BY <2>1, ScreenInitInv, ScreenStepInv, PTL DEF Screen!Spec
<1>3. Teams!Spec => []Teams!TypeOK
  <2>1. TeamsInv => Teams!TypeOK
    BY DEF TeamsInv
  <2> QED
    BY <2>1, TeamsInitInv, TeamsStepInv, PTL DEF Teams!Spec
<1> QED
  BY DraftTypes, <1>1, <1>2, <1>3, ReleaseTypes, ViewsTyped, LogTyped, PTL DEF TypeOK
=============================================================================
