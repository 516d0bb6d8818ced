-------------------------- MODULE OrganizerScreen --------------------------
(***************************************************************************)
(* The two signing screens of an organizer, /fund (create_event) and       *)
(* /start (set_event_in_progress): page, server actions and the core-go    *)
(* handlers behind them as far as the page can tell their answers apart    *)
(* (CoreService has their insides).                                        *)
(*                                                                         *)
(* A build stands for its envelope. The event row is in the status before  *)
(* the operation, after it, or beyond. Depositing is in DepositFlow: here  *)
(* the balance covers the cost or does not. Bounds: Builds, Requests.      *)
(***************************************************************************)
EXTENDS Naturals, FiniteSets

CONSTANTS
  Builds,    \* envelopes core-go may build
  Requests,  \* submits being served
  WrongSum,  \* builds whose reward differs from the sum the page shows
  None

ScreenAssumption == WrongSum \subseteq Builds

VARIABLES
  screen,               \* the one of the two that is open
  status, recorded,     \* event row, and the build that moved it
  row,                  \* op_log row
  req,                  \* handler of each submit
  seq, seqOf, pool,     \* the organizer's account, the network
  included, reverted,   \* transactions in the ledger that succeeded, that failed
  funds, deadlineAhead, \* what a build checks besides
  at,                   \* page the organizer is on
  covered,              \* shortfall shown as 0
  built, submitted, failure,   \* state of the page
  prompts, awaited      \* open wallet prompts, submits the page waits for

event == <<status, recorded, row>>
ledger == <<included, reverted>>
chain == <<seq, seqOf, pool, ledger>>
world == <<screen, funds, deadlineAhead>>
shown == <<at, covered, built, submitted, failure>>
asked == <<prompts, awaited>>
vars == <<event, req, chain, world, shown, asked>>

Codes == {"moved", "no_pending", "replaced", "deadline", "insufficient", "other"}
DeadlineCodes == {"deadline"}
Idle == [pc |-> "idle", build |-> None]

TypeOK ==
  /\ screen \in {"fund", "start"}
  /\ status \in {"before", "after", "beyond"} /\ recorded \in Builds \cup {None}
  /\ row \in [build : Builds \cup {None}, status : {"none", "PENDING", "SUCCEEDED", "FAILED"}]
  /\ req \in [Requests -> [pc : {"idle", "send", "poll", "mark"}, build : Builds \cup {None}]]
  /\ seq \in Nat /\ seqOf \in [Builds -> Nat] /\ pool \cup included \cup reverted \cup prompts \subseteq Builds
  /\ {funds, deadlineAhead, covered} \subseteq BOOLEAN
  /\ at \in {"screen", "event"} /\ built \in Builds \cup {None}
  /\ submitted \in [build : Builds, status : {"pending", "succeeded"}] \cup {None}
  /\ failure \in [code : Codes, build : Builds \cup {None}] \cup {None}
  /\ awaited \subseteq {r \in Requests : req[r] # Idle}

Init ==
  /\ screen \in {"fund", "start"}
  /\ status = "before" /\ recorded = None /\ row = [build |-> None, status |-> "none"]
  /\ req = [r \in Requests |-> Idle]
  /\ seq = 0 /\ seqOf = [b \in Builds |-> 0] /\ pool = {} /\ included = {} /\ reverted = {}
  /\ funds = TRUE /\ deadlineAhead = TRUE
  /\ at = "screen" /\ covered \in BOOLEAN /\ built = None /\ submitted = None /\ failure = None
  /\ prompts = {} /\ awaited = {}

----------------------------------------------------------------------------
(* The page's reactions. *)

Fail(code, b) == failure' = [code |-> code, build |-> b]

OnScreen == at = "screen"

\* checkLive and checkCreate: one read of the row. The page leaves only for
\* the status the screen waits for.
CheckStatus(otherwise) ==
  IF status = "after" THEN at' = "event" /\ UNCHANGED failure
  ELSE at' = at /\ failure' = otherwise

\* /fund shows the code and keeps the build.
FundFails(code, b) == Fail(code, b) /\ UNCHANGED <<at, covered, built>>

\* handleFailure on /start.
StartFails(code, b) ==
  IF code \in {"other", "deadline"} THEN Fail(code, b) /\ UNCHANGED <<at, covered, built>>
  ELSE /\ built' = None
       /\ covered' = IF code = "insufficient" THEN funds ELSE covered
       /\ IF code = "moved" THEN CheckStatus([code |-> code, build |-> b])
          ELSE Fail(code, b) /\ at' = at

HandleFailure(code, b) == IF screen = "fund" THEN FundFails(code, b) ELSE StartFails(code, b)

onCreateSigned(b, s) ==
  /\ failure' = None
  /\ IF s = "succeeded" THEN at' = "event" /\ UNCHANGED submitted
     ELSE submitted' = [build |-> b, status |-> s] /\ UNCHANGED at

onSigned(b, s) ==
  /\ submitted' = [build |-> b, status |-> s] /\ failure' = None
  /\ (at' = at \/ (s = "succeeded" /\ at' = "event"))  \* checkLive may fail

\* After a 200 or a 202.
OnSigned(b, s) == IF screen = "fund" THEN onCreateSigned(b, s) ELSE onSigned(b, s)

\* The answer of a submit reaches the page, unless nobody waits for it.
Answer(r, code) ==
  /\ awaited' = awaited \ {r}
  /\ IF r \notin awaited THEN UNCHANGED shown
     ELSE IF code \in {"pending", "succeeded"}
     THEN OnSigned(req[r].build, code) /\ UNCHANGED <<covered, built>>
     ELSE HandleFailure(code, req[r].build) /\ UNCHANGED submitted

----------------------------------------------------------------------------
(* The organizer. *)

CreateRefusal ==
  CASE status # "before" -> "moved"
    [] ~funds -> "other"
    [] OTHER -> None

StartRefusal ==
  CASE status # "before" -> "moved"
    [] ~deadlineAhead -> "deadline"
    [] ~funds -> "insufficient"
    [] included # {} -> "other"
    [] OTHER -> None

\* The buttons that build: /start hides its own after a deadline refusal.
MayCreate == OnScreen /\ covered /\ built = None /\ submitted = None
MayStart == MayCreate /\ (failure # None => failure.code \notin DeadlineCodes)

\* The answer is a fresh build, a refusal, or lost.
Build(b, refusal) ==
  /\ seqOf[b] = 0
  /\ IF refusal # None
     THEN HandleFailure(refusal, None) /\ UNCHANGED <<row, seqOf>>
     ELSE /\ row' = [build |-> b, status |-> "PENDING"]
          /\ seqOf' = [seqOf EXCEPT ![b] = seq + 1]
          /\ \/ built' = b /\ failure' = None
             \/ built' = None /\ Fail("other", None)
          /\ UNCHANGED <<at, covered>>
  /\ UNCHANGED <<status, recorded, req, seq, pool, ledger, world, submitted, asked>>

startCreate(b) == screen = "fund" /\ MayCreate /\ Build(b, CreateRefusal)
start(b) == screen = "start" /\ MayStart /\ Build(b, StartRefusal)

Discard ==
  /\ OnScreen /\ built # None /\ submitted = None
  /\ built' = None
  /\ UNCHANGED <<event, req, chain, world, at, covered, submitted, failure, asked>>

\* Mutant: the reward core-go computed is not compared.
rewardMismatch_Ignored(b) == FALSE

rewardMismatch(b) == screen = "fund" /\ b \in WrongSum

Sign ==
  /\ OnScreen /\ covered /\ built # None /\ submitted = None /\ ~rewardMismatch(built)
  /\ built \notin prompts /\ \A r \in awaited : req[r].build # built
  /\ prompts' = prompts \cup {built}
  /\ UNCHANGED <<event, req, chain, world, shown, awaited>>

WalletRejects(b) ==
  /\ b \in prompts /\ prompts' = prompts \ {b}
  /\ UNCHANGED <<event, req, chain, world, shown, awaited>>

\* What verifySignedEnvelope and the Mark updates compare: every create build
\* has an escrow event id of its own, while every start build of an event makes
\* the same call (event id and judging deadline do not change).
SameCall(a, b) == screen = "start" \/ a = b

\* checkCreatePreconditions, checkStartSubmitPreconditions, verifySignedEnvelope.
SubmitRefusal(b) ==
  CASE status # "before" -> "moved"
    [] row.status = "FAILED" -> "no_pending"
    [] ~SameCall(row.build, b) -> "other"
    [] OTHER -> None

WalletSigns(b, r) ==
  /\ b \in prompts /\ req[r] = Idle /\ prompts' = prompts \ {b}
  /\ IF SubmitRefusal(b) # None
     THEN /\ IF OnScreen THEN HandleFailure(SubmitRefusal(b), b) /\ UNCHANGED submitted
             ELSE UNCHANGED shown
          /\ UNCHANGED <<req, awaited>>
     ELSE /\ req' = [req EXCEPT ![r] = [pc |-> "send", build |-> b]]
          /\ awaited' = awaited \cup {r} /\ UNCHANGED shown
  /\ UNCHANGED <<event, chain, world>>

\* The answer is lost (CoreGoTransportError): the handler runs on.
LoseAnswer(r) ==
  /\ r \in awaited /\ Answer(r, "other")
  /\ UNCHANGED <<event, req, chain, world, prompts>>

\* "Check again".
Check ==
  /\ OnScreen /\ submitted # None
  /\ CheckStatus(failure)
  /\ UNCHANGED <<event, req, chain, world, covered, built, submitted, asked>>

checkCreate == screen = "fund" /\ Check
check == screen = "start" /\ Check

\* The page is opened again: a row that moved redirects to the public page.
Opened ==
  /\ at' = IF status = "before" THEN "screen" ELSE "event"
  /\ covered' = funds /\ built' = None /\ submitted' = None /\ failure' = None
  /\ prompts' = {} /\ awaited' = {}
  /\ UNCHANGED <<event, req, chain, world>>

FundPage == screen = "fund" /\ Opened
StartPage == screen = "start" /\ Opened

\* onDeposited, and what changes by itself.
Deposited ==
  /\ OnScreen /\ ~covered /\ covered' = funds
  /\ UNCHANGED <<event, req, chain, world, at, built, submitted, failure, asked>>

Elsewhere ==
  /\ \/ funds' = ~funds /\ UNCHANGED <<status, deadlineAhead>>
     \/ deadlineAhead /\ deadlineAhead' = FALSE /\ UNCHANGED <<status, funds>>
     \/ status = "after" /\ status' = "beyond" /\ UNCHANGED world
  /\ UNCHANGED <<screen, recorded, row, req, chain, shown, asked>>

----------------------------------------------------------------------------
(* core-go and the network. *)

Goto(r, pc) == req' = [req EXCEPT ![r].pc = pc]
Done(r, code) == req' = [req EXCEPT ![r] = Idle] /\ Answer(r, code)

\* Mark*Failed updates the row whatever its status and its build.
Fails(r) == row' = [row EXCEPT !.status = "FAILED"] /\ Done(r, "other")

Usable(b) == seqOf[b] = seq + 1

\* sendTransaction: taken; known from an earlier submit; refused (bad
\* sequence number, time bounds), which fails the row also when that earlier
\* submit is in the ledger; or the call itself errs, before or after it was taken.
Send(r) ==
  LET b == req[r].build
      taken == IF Usable(b) THEN pool \cup {b} ELSE pool
  IN  /\ req[r].pc = "send"
      /\ \/ /\ Usable(b) \/ b \in included \cup reverted
            /\ pool' = taken /\ Goto(r, "poll") /\ UNCHANGED <<row, shown, awaited>>
         \/ pool' = pool /\ Fails(r)
         \/ pool' \in {pool, taken} /\ row' = row /\ Done(r, "other")
      /\ UNCHANGED <<status, recorded, seq, seqOf, ledger, world, prompts>>

\* pollForConfirmation: confirmed; failed on chain; timed out (202, the row
\* stays PENDING); or the RPC errs.
Poll(r) ==
  LET b == req[r].build IN
  /\ req[r].pc = "poll"
  /\ \/ b \in included /\ Goto(r, "mark") /\ UNCHANGED <<row, shown, awaited>>
     \/ b \in reverted /\ Fails(r)
     \/ b \notin included \cup reverted /\ row' = row /\ Done(r, "pending")
     \/ row' = row /\ Done(r, "other")
  /\ UNCHANGED <<status, recorded, chain, world, prompts>>

\* Mutant: whatever build is in the row is confirmed.
Confirms_AnyBuild(b) == row.status = "PENDING" /\ status = "before"

Confirms(b) == row.status = "PENDING" /\ SameCall(row.build, b) /\ status = "before"

\* MarkCreateSucceeded and MarkStartSucceeded match the call of the build;
\* every other row is answered with *_build_replaced.
Mark(r) ==
  /\ req[r].pc = "mark"
  /\ IF Confirms(req[r].build)
     THEN /\ row' = [row EXCEPT !.status = "SUCCEEDED"]
          /\ status' = "after" /\ recorded' = req[r].build
          /\ Done(r, "succeeded")
     ELSE Done(r, "replaced") /\ UNCHANGED event
  /\ UNCHANGED <<chain, world, prompts>>

\* The ledger closes: the call succeeds or fails, the sequence number is used.
\* An event starts once; create builds have ids of their own.
Include(b) ==
  /\ b \in pool /\ pool' = pool \ {b}
  /\ IF ~Usable(b) THEN UNCHANGED <<ledger, seq>>
     ELSE /\ seq' = seq + 1
          /\ \/ /\ screen = "start" => included = {}
                /\ included' = included \cup {b} /\ reverted' = reverted
             \/ reverted' = reverted \cup {b} /\ included' = included
  /\ UNCHANGED <<event, req, seqOf, world, shown, asked>>

Next ==
  \/ \E b \in Builds : startCreate(b) \/ start(b) \/ WalletRejects(b) \/ Include(b)
  \/ \E b \in Builds, r \in Requests : WalletSigns(b, r)
  \/ \E r \in Requests : LoseAnswer(r) \/ Send(r) \/ Poll(r) \/ Mark(r)
  \/ Discard \/ Sign \/ checkCreate \/ check \/ FundPage \/ StartPage \/ Deposited \/ Elsewhere

Spec == Init /\ [][Next]_vars

----------------------------------------------------------------------------
\* The build that moved the event row succeeded on the ledger and is the one
\* the finished operation row describes; a panel that says "confirmed" is about
\* it. Builds replaced or failed meanwhile, answers lost and envelopes sent
\* again never mix the three up (go-live.tsx, MarkCreateSucceeded).
ConfirmedIsRecorded ==
  /\ row.status = "SUCCEEDED" => recorded \in included /\ SameCall(row.build, recorded)
  /\ submitted # None /\ submitted.status = "succeeded" =>
       submitted.build = recorded /\ recorded \in included

\* The reward the ledger reserves is the sum the organizer saw, also for
\* prompts opened for a build that was discarded since (fund-and-create.tsx).
ReservedAsShown == screen = "fund" => included \cap WrongSum = {}

=============================================================================
