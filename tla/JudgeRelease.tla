--------------------------- MODULE JudgeRelease ---------------------------
(***************************************************************************)
(* The judge's release form (judge/release-form.tsx, actions.ts, page.tsx) *)
(* with both trustline checks, core-go's release handlers as far as the    *)
(* form tells their answers apart, and the payout on the ledger. Wallets   *)
(* may close and reopen their trustlines at any time.                      *)
(*                                                                         *)
(* A choice is a complete assignment of teams to ranks. An envelope is a   *)
(* choice with the sequence number it was built for. Bounds: MaxSeq,       *)
(* Requests.                                                               *)
(***************************************************************************)
EXTENDS Naturals, FiniteSets

CONSTANTS
  Wallets, Choices,
  Members,   \* [Choices -> SUBSET Wallets]: the members of the chosen teams
  Invalid,   \* choices validateAssignments refuses
  Requests,  \* submits being served
  MaxSeq, None

ReleaseAssumption ==
  /\ Members \in [Choices -> SUBSET Wallets]
  /\ Invalid \subseteq Choices /\ MaxSeq \in Nat

VARIABLES
  open,       \* wallets whose trustline can receive
  completed, row,            \* event status past JUDGING, op_log row
  req, pool, tried, paid, seq,   \* handlers, network, ledger
  selection,  \* what the selects show
  building,   \* the build the form waits for
  built, submitted, failure, \* state of the form
  prompts, awaited

world == <<open, completed, row>>
net == <<req, pool, tried, paid, seq>>
form == <<selection, building, built, submitted, failure>>
asked == <<prompts, awaited>>
vars == <<world, net, form, asked>>

Envelope == [choice : Choices, seq : 1..MaxSeq]
Idle == [pc |-> "idle", tx |-> None]
Other == [wallets |-> {}]   \* a failure that names no wallet
NoBuild == [pc |-> "idle", choice |-> None]

TypeOK ==
  /\ open \subseteq Wallets /\ completed \in BOOLEAN
  /\ row \in [tx : Envelope \cup {None}, status : {"none", "PENDING", "SUCCEEDED", "FAILED"}]
  /\ req \in [Requests -> [pc : {"idle", "send", "poll", "mark"}, tx : Envelope \cup {None}]]
  /\ pool \cup tried \cup prompts \subseteq Envelope /\ paid \in Envelope \cup {None}
  /\ seq \in 0..MaxSeq /\ selection \in Choices \cup {None}
  /\ building \in [pc : {"idle", "check", "core"}, choice : Choices \cup {None}]
  /\ built \in Envelope \cup {None}
  /\ submitted \in [tx : Envelope, status : {"pending", "succeeded"}] \cup {None}
  /\ failure \in [wallets : SUBSET Wallets] \cup {None}
  /\ awaited \subseteq {r \in Requests : req[r] # Idle}

Init ==
  /\ open = Wallets /\ completed = FALSE /\ row = [tx |-> None, status |-> "none"]
  /\ req = [r \in Requests |-> Idle] /\ pool = {} /\ tried = {} /\ paid = None /\ seq = 0
  /\ selection = None /\ building = NoBuild /\ built = None /\ submitted = None
  /\ failure = None /\ prompts = {} /\ awaited = {}

----------------------------------------------------------------------------
(* The form. page.tsx keeps it off the screen once the event is COMPLETED. *)

\* Mutant: the selects stay open while a build is on its way.
Locked_NotWhilePending == built # None \/ submitted # None

Locked == building # NoBuild \/ built # None \/ submitted # None

DropFailure == failure' = None

Select(c) ==
  /\ ~Locked /\ selection' = c /\ DropFailure
  /\ UNCHANGED <<world, net, building, built, submitted, asked>>

StartBuild ==
  /\ building = NoBuild /\ selection # None /\ built = None /\ submitted = None
  /\ building' = [pc |-> "check", choice |-> selection]
  /\ failure' = None
  /\ UNCHANGED <<world, net, selection, built, submitted, asked>>

Missing(c) == Members[c] \ open

Refused(why) == failure' = why /\ building' = NoBuild

\* buildRelease: isActiveJudge, then winnersWithoutTrustline.
CheckWinners ==
  /\ building.pc = "check"
  /\ LET gone == Missing(building.choice)
     IN \/ gone # {} /\ ~completed /\ Refused([wallets |-> gone])
        \/ /\ gone = {} \/ completed
           /\ building' = [building EXCEPT !.pc = "core"] /\ UNCHANGED failure
        \/ Refused(Other)
  /\ UNCHANGED <<world, net, selection, built, submitted, asked>>

\* deps.Trustlines.Require, and the simulation, which transfers.
Payable(c) == Missing(c) = {}

\* handleReleaseBuild. The row is written even when the answer is lost.
BuildAtCore ==
  /\ building.pc = "core"
  /\ LET c == building.choice
         tx == [choice |-> c, seq |-> seq + 1]
     IN IF completed \/ c \in Invalid \/ ~Payable(c) \/ paid # None \/ seq = MaxSeq
        THEN Refused(Other) /\ UNCHANGED <<row, built>>
        ELSE /\ row' = [tx |-> tx, status |-> "PENDING"]
             /\ \/ built' = tx /\ building' = NoBuild /\ UNCHANGED failure
                \/ built' = None /\ Refused(Other)
  /\ UNCHANGED <<open, completed, net, selection, submitted, asked>>

ChangeAssignments ==
  /\ built # None /\ submitted = None /\ built' = None
  /\ UNCHANGED <<world, net, selection, building, submitted, failure, asked>>

Sign ==
  /\ built # None /\ submitted = None
  /\ built \notin prompts /\ \A r \in awaited : req[r].tx # built
  /\ prompts' = prompts \cup {built}
  /\ UNCHANGED <<world, net, form, awaited>>

WalletRejects(tx) ==
  /\ prompts' = prompts \ {tx}
  /\ UNCHANGED <<world, net, form, awaited>>

\* handleReleaseSubmit: preconditions, LoadReleaseOp and verifySignedEnvelope,
\* which compares the call and its source, not the sequence number.
EnvelopeMatches(tx) == row.status = "PENDING" /\ row.tx.choice = tx.choice

WalletSigns(tx, r) ==
  /\ req[r] = Idle /\ prompts' = prompts \ {tx}
  /\ IF ~completed /\ EnvelopeMatches(tx)
     THEN /\ req' = [req EXCEPT ![r] = [pc |-> "send", tx |-> tx]]
          /\ awaited' = awaited \cup {r} /\ UNCHANGED failure
     ELSE failure' = Other /\ UNCHANGED <<req, awaited>>
  /\ UNCHANGED <<world, pool, tried, paid, seq, selection, building, built, submitted>>

\* onSigned: the answer of submitRelease.
Answer(r, result) ==
  /\ awaited' = awaited \ {r}
  /\ IF r \notin awaited THEN UNCHANGED <<submitted, failure>>
     ELSE IF result = "error" THEN failure' = Other /\ UNCHANGED submitted
     ELSE submitted' = [tx |-> req[r].tx, status |-> result] /\ failure' = None
  /\ UNCHANGED <<selection, building, built>>

LoseAnswer(r) ==
  /\ r \in awaited /\ Answer(r, "error")
  /\ UNCHANGED <<world, net, prompts>>

\* The page is loaded again.
Reload ==
  /\ selection' = None /\ building' = NoBuild /\ built' = None /\ submitted' = None
  /\ failure' = None /\ prompts' = {} /\ awaited' = {}
  /\ UNCHANGED <<world, net>>

----------------------------------------------------------------------------
(* core-go, the network, the wallets. *)

Usable(tx) == tx.seq = seq + 1

Done(r, result) == req' = [req EXCEPT ![r] = Idle] /\ Answer(r, result)
Fails(r) == row' = [row EXCEPT !.status = "FAILED"] /\ Done(r, "error")

\* sendTransaction: taken; known from an earlier submit; refused (bad
\* sequence number, time bounds), which fails the row also when that earlier
\* submit is in the ledger; or the call itself errs, before or after it was taken.
Send(r) ==
  LET tx == req[r].tx
      taken == IF Usable(tx) THEN pool \cup {tx} ELSE pool
  IN  /\ req[r].pc = "send"
      /\ \/ /\ Usable(tx) \/ tx \in tried
            /\ pool' = taken /\ req' = [req EXCEPT ![r].pc = "poll"]
            /\ UNCHANGED <<row, form, awaited>>
         \/ pool' = pool /\ Fails(r)
         \/ pool' \in {pool, taken} /\ row' = row /\ Done(r, "error")
      /\ UNCHANGED <<open, completed, tried, paid, seq, prompts>>

\* Mutant: a transaction in the ledger is taken for one that succeeded.
Confirmed_Included(tx) == tx \in tried

Confirmed(tx) == paid = tx

\* pollForConfirmation: confirmed; failed on chain; timed out (202, the row
\* stays PENDING); or the RPC errs.
Poll(r) ==
  LET tx == req[r].tx IN
  /\ req[r].pc = "poll"
  /\ \/ /\ Confirmed(tx)
        /\ req' = [req EXCEPT ![r].pc = "mark"] /\ UNCHANGED <<row, form, awaited>>
     \/ tx \in tried /\ ~Confirmed(tx) /\ Fails(r)
     \/ tx \notin tried /\ row' = row /\ Done(r, "pending")
     \/ row' = row /\ Done(r, "error")
  /\ UNCHANGED <<open, completed, pool, tried, paid, seq, prompts>>

\* MarkReleaseSucceeded.
Mark(r) ==
  /\ req[r].pc = "mark"
  /\ IF row.status = "PENDING"
     THEN /\ row' = [row EXCEPT !.status = "SUCCEEDED"] /\ completed' = TRUE
          /\ Done(r, "succeeded")
     ELSE Done(r, "error") /\ UNCHANGED <<row, completed>>
  /\ UNCHANGED <<open, pool, tried, paid, seq, prompts>>

\* release_reward is atomic: one closed trustline fails the whole payout.
Transfers(c) == Members[c] \subseteq open

Include(tx) ==
  /\ tx \in pool /\ Usable(tx) /\ seq' = tx.seq /\ pool' = {}
  /\ tried' = tried \cup {tx}
  /\ paid' = IF paid = None /\ Transfers(tx.choice) THEN tx ELSE paid
  /\ UNCHANGED <<world, req, form, asked>>

Trustline(w) ==
  /\ open' = IF w \in open THEN open \ {w} ELSE open \cup {w}
  /\ UNCHANGED <<completed, row, net, form, asked>>

Next ==
  \/ \E c \in Choices : Select(c)
  \/ StartBuild \/ CheckWinners \/ BuildAtCore \/ ChangeAssignments \/ Sign \/ Reload
  \/ \E tx \in prompts : WalletRejects(tx) \/ \E r \in Requests : WalletSigns(tx, r)
  \/ \E r \in Requests : LoseAnswer(r) \/ Send(r) \/ Poll(r) \/ Mark(r)
  \/ \E tx \in pool : Include(tx)
  \/ \E w \in Wallets : Trustline(w)

Spec == Init /\ [][Next]_vars

----------------------------------------------------------------------------
\* What the judge is about to sign is what the selects show
\* (release-form.tsx: locked so that the result matches the selection).
BuiltMatchesSelection == built # None /\ submitted = None => built.choice = selection

\* "Prizes released" is only shown, and COMPLETED only written, after the
\* ledger paid, whatever was lost, timed out or signed twice.
ReleasedWasPaid ==
  completed \/ (submitted # None /\ submitted.status = "succeeded") => paid # None

=============================================================================
