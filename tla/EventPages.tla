----------------------------- MODULE EventPages -----------------------------
(***************************************************************************)
(* What happens to one event in the web app: the draft form, the deposit    *)
(* panel, the funding and go-live screens, registration, the judge's        *)
(* release, the surfaces that show the event, and the operation log. Each   *)
(* has its own account of what it needs of the others (an event row that    *)
(* others move, a ledger), so they share constants and no variable.         *)
(***************************************************************************)
EXTENDS Integers, Sequences

CONSTANTS
  Base, Decimals, WholeMax, IntMax, JsSafe, MaxRows, Typeable,   \* of the draft
  Ops, DepositAmounts, MaxDeposit, Required, StartBalance,       \* of a deposit
  Builds, WrongSum,                                              \* of a screen
  Entrants, Judgings, Names, Lines,                              \* of registration
  Wallets, Choices, Members, Invalid, Releases, MaxSeq,          \* of the release
  PrizeCounts, MaxTeams, MaxReward, Linkers,                     \* of the surfaces
  MaxBuilds,                                                     \* of the log
  Requests,   \* calls being served
  None

VARIABLES
  rows, typed, prizes, error, required, reward, envelope, reserved,
  op, thread, depositSeq, sent, landed, credited, balance, spent, shownBalance,
  depositBuilt, phase, pendingHash, depositPrompts, depositAwaited,
  screen, status, recorded, row, req, seq, seqOf, pool, included, reverted,
  funds, deadlineAhead,
  at, covered, built, submitted, failure, prompts, awaited,
  eventStatus, requireGithub, linked, line, verified, request, judging, teams,
  open, completed, releaseRow, releaseReq, releasePool, tried, paid, judgeSeq,
  selection, building, releaseBuilt, releaseSubmitted, releaseFailure,
  releasePrompts, releaseAwaited,
  eventRow, chain, rendering, rendered,
  opRow, call, opBuilt, opSeq, opIncluded, answered

Draft == INSTANCE EventDraft

Deposit == INSTANCE DepositFlow WITH
  Amounts <- DepositAmounts, Start <- StartBalance,
  seq <- depositSeq, tried <- landed, shown <- shownBalance, built <- depositBuilt,
  prompts <- depositPrompts, awaited <- depositAwaited

Screen == INSTANCE OrganizerScreen

Teams == INSTANCE Registration WITH
  Wallets <- Entrants, status <- eventStatus, recorded <- verified

Judge == INSTANCE JudgeRelease WITH
  Requests <- Releases,
  row <- releaseRow, req <- releaseReq, pool <- releasePool, seq <- judgeSeq,
  built <- releaseBuilt, submitted <- releaseSubmitted, failure <- releaseFailure,
  prompts <- releasePrompts, awaited <- releaseAwaited

Views == INSTANCE PublicViews WITH
  row <- eventRow, request <- rendering, shown <- rendered

Log == INSTANCE OperationLog WITH
  Calls <- Requests, row <- opRow, built <- opBuilt, seq <- opSeq, included <- opIncluded

\* What the parts assume of their constants.
ASSUME EventPagesAssumption ==
  /\ Draft!DraftAssumption /\ Deposit!DepositAssumption /\ Screen!ScreenAssumption
  /\ Teams!RegistrationAssumption /\ Judge!ReleaseAssumption
  /\ Views!ViewsAssumption /\ Log!LogAssumption

----------------------------------------------------------------------------
\* The properties of the parts, each explained in its module.

\* Every part keeps its type invariant, with what its types say of the order
\* of its steps.
TypeOK ==
  /\ Draft!TypeOK /\ Deposit!TypeOK /\ Screen!TypeOK /\ Teams!TypeOK
  /\ Judge!TypeOK /\ Views!TypeOK /\ Log!TypeOK
\* Every rank is paid, and their exact sum reserved, as typed.
PrizesAddUp == Draft!PrizesAddUp
\* handleDepositSubmit: a deposit recorded as succeeded was credited.
SucceededIsCredited == Deposit!SucceededIsCredited
\* handleDepositSubmit: a signature sent twice credits once.
CreditedOnce == Deposit!CreditedOnce
\* FundAndCreate: what is reserved is the sum that was shown.
ReservedAsShown == Screen!ReservedAsShown
\* GoLive and MarkCreateSucceeded: what is confirmed, what moved the row and
\* what succeeded on the ledger are the same build.
ConfirmedIsRecorded == Screen!ConfirmedIsRecorded
\* registerTeam: a wallet is on one team of the event.
OneTeamPerWallet == Teams!OneTeamPerWallet
\* registerTeam: the wallet was seen with a line that takes a payment.
RegisteredCouldReceive == Teams!RegisteredCouldReceive
\* ReleaseForm: what is about to be signed is what the selects show.
BuiltMatchesSelection == Judge!BuiltMatchesSelection
\* ReleaseForm and core-go: "released" is said only after the ledger paid.
ReleasedWasPaid == Judge!ReleasedWasPaid
\* The event's public surfaces say "paid" only once the contract has paid.
PaidClaimsHold == Views!PaidClaimsHold
\* runOperation: a hash given out is that of a transaction on the ledger.
AnswersAreIncluded == Log!AnswersAreIncluded
=============================================================================
