# Astrea: a verification project

Astrea locks the prize money of a competition in a Soroban contract before the
event starts and pays the winners from it. This directory holds TLA+ models of
the parts of the repository that carry that promise, the TLC configurations that
check them and the proofs TLAPS checks.

## 1. Inventory

| Part | State | Operations | Talks to |
|---|---|---|---|
| Escrow contract, governance (`governance.rs`, `access.rs`) | emergency admin, default resolver, treasury, pauses, token whitelist, fee rate | eight setters, each behind the emergency admin | read by every other entry point |
| Escrow contract, wallet (`wallet.rs`) | one token and free balance per organizer | deposit, withdraw | token contract |
| Escrow contract, lifecycle (`lifecycle.rs`) | events, per-organizer listing | create (with deadline), expire, announce, go live, cancel, emergency withdraw, list | wallet, treasury |
| Escrow contract, rewards (`rewards.rs`) | the same events | release by the judge, resolution by the resolver, compensation by the organizer | token contract |
| core-go handlers (`internal/api`) | none of their own; a request in progress | build and submit of create, start, release, deposit | store, Soroban RPC, Horizon |
| core-go pipeline (`internal/escrow/pipeline.go`) | a transaction in flight | simulate, load the sequence number, send, poll | Soroban RPC |
| core-go store (`internal/store`) | `events`, `prizes`, `payouts`, `op_log` | `Save*Build`, `Load*Op`, `Mark*Succeeded`, `Mark*Failed` | Postgres |
| core-go allocation (`escrow/allocate.go`) | none | split every prize among team members | called by release/build |
| Web app, sign-in (`lib/wallet`) | nonces, wallets, session cookie, address of a tab | draw and consume a nonce, connect, rehydrate, disconnect | wallet extension, Postgres |
| Web app, GitHub link (`api/auth/github`) | signed state and cookie, `linked_accounts` | start a flow, callback | GitHub, session |
| Web app, drafts (`organizer/new`, `lib/escrow/amount.ts`) | typed amounts, draft row | create a draft, sum it for funding | funding screen, core-go |
| Web app, signing screens (`organizer/events/[id]/fund`, `start`, deposit step) | build, prompt, submitted transaction, failure | build, discard, sign, check again, reload | core-go, wallet extension |
| Web app, registration (`events/[id]/actions.ts`) | teams, members | register a team | trustline check, status triggers |
| Web app, judging (`lib/state-machines`, `judge/`) | event status; choice of winners | start judging; build and sign a release | core-go, trustline check |
| Web app, public surfaces (`events/[id]`, `lib/events`, `lib/qr.ts`) | none; a rendering | page, receipt, projector image, card, QR code | Postgres, contract |
| Web app, earnings and profiles (`components/earnings`, `p/[login]`) | what a tab holds | list payouts, sum them, look a login up | session, GitHub |
| Web app, preferences and service worker (`hooks`, `public/sw.js`) | cookie, storage, `<html>`; cache | toggles; install, answer requests | browser |
| Web app, deprecated pipeline (`lib/escrow/pipeline.ts`) | `op_log` row per key | prepare, submit | ledger |
| Reconciliation | none | one helper that reads a transaction; no job calls it | Horizon |

What is hard here:

* **Interleaving.** Organizer, judge, resolver, governor and anybody (expiry)
  call one contract in any order. In the service, two requests for one event run
  concurrently and are cut by RPC calls; the web app writes the same event row.
* **Unknown outcomes.** A submitted transaction may be included after the poll
  gave up, may be refused on retry because it *was* included, or may expire; its
  answer may be lost between core-go and the page.
* **Replaced builds.** A `/build` overwrites the `op_log` row while the previous
  build is being submitted; a build may be discarded while its wallet prompt is
  still open.
* **Crashes** between the ledger's confirmation and the database write.
* **Stale answers.** A page acts on an answer that comes back after the session,
  the selection, the theme or the cached file has changed.
* **Money arithmetic.** Refunds, fees and payouts move one pool of tokens; prize
  splits are int64, pages u32, prices text parsed in two languages.

What makes each part correct: the contract is solvent, refunds in the right
token, locks live prizes, pays each once and never strands one; the service's
database never runs ahead of the chain and names what the chain paid; an
allocation pays a prize exactly and by the declared shares; a screen lets the
user sign what it showed and calls done only what the ledger holds; a session, a
link and a page of earnings belong to the wallet that signed.

The hazards, each at its line, are in `PROJECT.json`.

## 2. Modules

```
Amounts --> EventEscrow <-- EscrowGovernance        Amounts --> Allocation
               |   \____ MCEventEscrow                            |    \____ MCAllocation
               |   PrizeEscrow (INSTANCE)                         |
 AmountsProofs |                                    AllocationProofs (+ AmountsProofs)
       \       |
     EventEscrowProofs --> EventRefinementProofs    (PrizeEscrow = EventPhases + money)
 EventPhases --> EventMirror
                      | (INSTANCE)
 CoreService --> CoreServiceProofs, MCCoreService
 BrowserPages = WalletSession, GitHubLink, Earnings, PublicProfile, Preferences, ServiceWorker
      \____ BrowserPagesProofs, MCBrowser
 EventPages   = EventDraft, DepositFlow, OrganizerScreen, Registration, JudgeRelease,
      |         PublicViews, OperationLog
      |---- EventDraftProofs (+ AmountsProofs) --> EventPagesProofs
       ---- MCEventPages (+ QrCode)
 MCRegistration = Registration
```

### The contract

**Amounts** defines `Total(f)`, the sum of a function into the naturals, as the
number of its units, without recursion. `AmountsProofs` proves what the other
proofs need: a total is natural, bounds each entry, moves by as much as one
changed entry, adds up over two functions and over a multiple, is at most the
total of a larger function and at most a bound on the entries times their number,
and is the same for a function read along an injection.

**EscrowGovernance** is `governance.rs` and the checks of `access.rs`. A panic
reverts a Soroban call, so an entry point is one atomic action whose guard is
the conjunction of its assertions; a signature (`require_auth`) is the choice of
the caller. An absent key is `None` or its `unwrap_or` default.

**EventEscrow** adds `wallet.rs`, `lifecycle.rs` and `rewards.rs`: one action
per entry point, named after it. `wallet`, `event` and `index` are the storage
keys of the same names, `balance` is what the token contracts hold for every
address (external), `now` the ledger's time. `create_event` covers
`create_event` (`d = 0`) and `create_event_with_deadline`. `DirectTransfer` lets
anyone send tokens to the contract without calling it; winners may be the
contract itself. Deadlines are naturals with 0 for `None`, since the code stores
only deadlines in the future. Overflow of i128 panics and is out of reach of
token supplies.

**PrizeEscrow** says what the contract promises, in terms a reader without the
code understands: free money per organizer, and per event an owner, a prize and
a phase (none, reserved, live, paid, returned). Money is reserved from the free
balance, comes back to it until the event is live, and then goes to winners in
full or stays. `EventEscrow!KeepsPromise` maps the contract to it: announcing an
event is a stutter, `Cancelled` and `Compensated` are both "returned". The order
of the phases alone is **EventPhases**, which `PrizeEscrow` shares with the next
module.

### The service

**CoreService** is core-go's build and submit of `create_event`,
`set_event_in_progress` and `release_reward` for one event. A request is cut
before and after every RPC call and database transaction:

| Action | Code |
|---|---|
| `Simulate` | preconditions, (release) allocation, simulation in `BuildUnsigned` |
| `LoadSequence` | the account reload at the end of `BuildUnsigned` |
| `SaveBuild` | `SaveCreateBuild`, `SaveStartBuild`, `SaveReleaseBuild` |
| `Verify` | preconditions, `Load*Op`, `verifySignedEnvelope` |
| `Send`, `Poll` | `SubmitSigned`, `pollForConfirmation` |
| `MarkSucceeded`, `MarkFailed` | `Mark*Succeeded`, `Mark*Failed` |
| `Abandon` | the process dies, an RPC call errors, the database aborts |
| `startJudging` | the web app's LIVE to JUDGING |
| `Include`, `Expire` | a ledger closes; time bounds pass |
| `CallDirectly` | the contract used past core-go |

A host function is its operation, on-chain id and winners; a transaction adds a
sequence number. `built` holds everything a wallet could still sign. The
contract is reduced to the state and the winners of each on-chain event;
`Include` may also fail for reasons not in this model (pause, short balance,
trustline).

**EventMirror** says what core-go promises about its record of an event, with
requests, `op_log` rows and transactions left out: it names an on-chain event
once, when that event exists; it shows LIVE only when the prize is locked and
prizes as released only when the contract has paid; then it never changes. Its
other half is `EventPhases`: the contract moves on its own.
`CoreService!FollowsContract` maps the service to it. `EventPhases` is thus what
the two sides share: the contract is proved to go through its phases in that
order (`PhasesInOrder`), the service to follow a contract that does
(`RecordFollowsContract`).

**Allocation** is `AllocateWinners`, rule by rule, in the arithmetic of an
integer type with `IntSpan` values; `Wrap` is int64 overflow and `Quotient` Go's
division. An input is chosen and allocated in one step.

### The web app

Every module cuts a handler where it awaits the database, core-go, the wallet
extension or the network; what happens between two awaits is one action. A
request whose caller has gone goes on at the server.

| Module | Models | State and actions |
|---|---|---|
| `WalletSession` | `lib/wallet/*`: nonce table, `associateVerifiedWallet`, the provider of one tab | a request may be delivered twice; `ServerStep` is cut at each statement; the tab connects, rehydrates (the session is read, then answered), disconnects and cleans up; `OtherTab` writes the cookie the tabs of a browser share, at any moment; `foreign` remembers that this tab has not read or written it since |
| `GitHubLink` | `api/auth/github/start` and `callback` | state, cookie and session of a browser; the callback's transaction is two deletes, a create and a commit, each a step, with the row locks and unique keys of Postgres: `tx` holds what is not committed yet |
| `EventDraft` | `event-form.tsx`, `parseUsdcAmount`, the Decimal column, `AmountToStroops`, core-go's sum | an amount from its text to the reserve, in a small base with a small int64 and a small `Number.MAX_SAFE_INTEGER` |
| `DepositFlow` | deposit step and sign step, core-go's deposit handlers, one `op_log` row per build | page; submits that may overlap on one row; a ledger where a transaction is `tried`, and `credited` only if it succeeded |
| `OrganizerScreen` | `/fund` and `/start`: page, server actions, core-go's answers | one module, `screen` says which of the two is open; a transaction is `included` when it succeeded and `reverted` when it failed |
| `Registration` | `registerTeam`, `startJudging`, the transition table, the unique index and the status triggers of the migrations | requests cut at every await; events from DRAFT on: the triggers let teams change from DRAFT to LIVE |
| `JudgeRelease` | the release form, both trustline checks, core-go's release answers, the payout | choices, builds, prompts, trustlines that close |
| `PublicViews` | page, receipt, projector image, social card | a rendering reads the row, then the chain; both move in between |
| `QrCode` | `lib/qr.ts`, a copy of a vendored encoder that the repository edits and calls through `qrSvgPath` | the version search and the drawing, one loop round per action |
| `Earnings` | the earnings page and dashboard | rows read for the session, address of the tab, search |
| `PublicProfile` | `/p/<login>` and the visibility switch | linked accounts, GitHub's renames |
| `OperationLog` | `lib/escrow/pipeline.ts`, deprecated in its first line and called by its tests only | prepares and submits of one key |
| `Preferences` | theme and motion, their providers and switches | cookie, storage, media query, late commits |
| `ServiceWorker` | `public/sw.js` and its registration | cache writes that nobody awaits |

The composition these modules need is inside them: `OrganizerScreen`,
`DepositFlow` and `JudgeRelease` each hold the page, core-go as far as the page
can tell its answers apart, and the ledger. `CoreService` has core-go's insides.
`EventPages` and `BrowserPages` gather the parts with general constants, name
their types, properties and assumptions, and are what the proofs extend. `MCEventPages`
and `MCBrowser` extend them for TLC: a variable `part` picks the part that moves,
so the state space is the sum of the parts', not the product. The parts share
constants and no variable, so no interaction is claimed.

Definitions named `X_Reason` with a comment "Mutant" are deliberate faults of
`X`. Nothing refers to them; substituting one for `X` breaks the property
`PROJECT.json` names, which shows that the property depends on that piece of the
code.

## 3. What is checked

| Run | Shows | Bounds |
|---|---|---|
| `EscrowMoney` | `TypeOK`, `Solvency`, `RefundsMatchWallet`, `LiveEventHasExit`, `LiveFundsLocked`, `FinishedStaysFinished`, `KeepsPromise` | one organizer, two tokens, two events, amounts 0 to 2, lists of at most one payment of 1 to 3 to a winner or to the contract, supply 3, time 0 to 1, fee one half |
| `EscrowPause` | `PausedFundsStay` with governance running from an unconfigured contract | one organizer, one event, one token, fee rates 0 to 2 of 2 with ceiling 1, lists of up to three payments with a cap of two |
| `EscrowIndex` | `IndexExact`, `PageIsSlice` | two organizers, three ids, u32 reduced to 0..3 so that `offset + limit` overflows |
| `ServiceLifecycle` | `PendingMatchesStatus`, `LiveIsOnChain`, `PayoutsConfirmed`, `FollowsContract` | two requests, two ids, two allocations, two transactions per account |
| `AllocateNarrow` | `PaysInFull`, `SharesAreFair` | all teams of up to three members with shares 0, 1, 2, 4 of 5 and ordinals 0 to 2; one or two prizes of 0, 1, 7, 13; at most three winners |
| `Browser` (653,749 states) | `TypeOK` of six parts; `NonceSingleUse`, `ShownMatchesSession`; `LinkFollowsStart`, `OneLinkEach`; `RowsAreScoped`, `SummaryIsExact`; `ReducedIsHonoured`; `NavigationIsFresh`, `StaleCopiesDrain` | two of everything that can overlap (wallets, sign-in requests, flows, accounts, callbacks, cached requests), one nonce, one browser with two tabs, three payouts, one of them offered to a profile, three logins for two users, one change of the site, two queued theme commits, one tick of the clock |
| `EventPages` (1,278,881 states) | `TypeOK` of seven parts; `PrizesAddUp`; `SucceededIsCredited`, `CreditedOnce`; `Decodes` (with the types of `QrCode`), `CapacityIsExact`; `ReservedAsShown`, `ConfirmedIsRecorded`; `OneTeamPerWallet`, `RegisteredCouldReceive`; `BuiltMatchesSelection`, `ReleasedWasPaid`; `PaidClaimsHold`; `AnswersAreIncluded` | three prizes in base 2 with two decimals, an int64 up to 3; two deposits of 2 or 3, where 3 is over the limit of one deposit; two builds and two submits at a time for the deposit and per screen; two registrations and two judging clicks over one wallet; two choices of winners, both of the same wallet in other ranks, and one submit at a time; two or seven prizes; ten texts for the QR code, from every mode to the last of the 40 versions |
| `ServicePayouts`, `ServiceRetry`, `ServiceHeal`, `AllocateWide`, `RegistrationFreeze` | a document's claim, violated (below) | as the passing runs; one request for `ServiceHeal` |

The bounds are where the cases meet. Two events on one wallet are enough for a
refund or a fee of one to touch the reserve of the other; two tokens for a
refund in the wrong one; a payment to the contract itself for an amount that
leaves and returns; two requests for every pair of handler steps to interleave;
two ids and two allocations for a build to be replaced by a different one; two
transactions per account for create, start and one stale envelope; two builds of
a page for a discarded prompt to be signed after the next build. One nonce is
enough for two requests to race for it. A half as the
fee and a fifth as the basis point make rounding and remainders appear with
amounts of one or two. `MaxTime`, `MaxSeq`, `MaxVersion`, `MaxQueue`,
`MaxBuilds`, `MaxRows` and `Supply` are the only caps on otherwise unbounded
counters. QR codes are not scaled down: the tables are the code's, the drawn
symbols have versions 1 to 5, and every version up to 40 is visited by the
search. The reader that `Decodes` applies to a finished symbol shares those tables
with the encoder and skips the error correction, so what it checks is format bits,
masks, placement, interleaving and the segments, and not the tables.

Deadlock is not checked where the system may stop: all money spent, all ids
used, the event completed, a page left. In `EscrowPause` the governor always has
a step.

### Where documents and code disagree

Five runs state what a document or comment says and are expected to be violated:

* `ServicePayouts` (`PayoutsNamePaidWinners`): a release is rebuilt for winners
  B while the release for A is polled; `MarkReleaseSucceeded` confirms whatever
  is PENDING, so the database says B was paid and cites A's transaction. Create
  and start compare the build first.
* `ServiceRetry` (`FailedReleaseNotPaid`): timeout, inclusion, retry, bad
  sequence number, FAILED - for a release that was paid.
* `ServiceHeal` (`PaidIsMirrored`): a crash between confirmation and write is
  never repaired, since no reconciliation job exists.
* `AllocateWide` (`FloorRule`): with 64 integer values, a prize of 20 shared 1:4
  out of 5 is split 17:3, because 20 * 4 wraps to 16. In int64 the products wrap
  for prizes above about 92 million units; the first wrapped products are
  negative and refused, from about 184 million units on they pass every check.
* `RegistrationFreeze` (`TeamsFrozen`): the trigger on `team_members` reads the
  event's status when the member is inserted; the transaction may commit after
  judging has started, against the migration's comment.

Others were met while modelling. They are in the models' behaviour but no run is
kept for them (web paths are shortened, Go paths are under
`src/services/core-go/internal`):

* `api/start.go`: two submits of one go-live envelope; the later answer, a
  refusal, overwrites the row's SUCCEEDED by FAILED. The event row is not read
  from it. A deposit refused on retry (`api/wallet.go:225`) is marked FAILED in
  the same way although the money arrived, and so is one whose submit is sent a
  second time while the first is polled: the handlers compare the row's status
  only when they begin (`DepositFlow!Send`, `Fails`). `SucceededIsCredited` is the
  other direction. Both screens and the release form meet the same answer.
* `api/create.go`: two builds of one event have two ids; both can be included
  and reserve the reward twice.
* `organizer/events/[id]/fund/actions.ts:93`: core-go answers
  `create_build_replaced` to any submit that finds no PENDING row, so the page
  says "replaced" about an envelope whose own first submit was recorded.
* `organizer/events/[id]/fund/page.tsx:100`: decimal.js prints an amount below
  0.000001 as `1e-7`, and the sum throws on it; that draft cannot be funded.
* `lib/events/card-model.ts:154`: the card shows a locked pool for an event that
  was cancelled or paid on chain while the database says LIVE.
* `events/[id]/opengraph-image.tsx:56`, `display.png/route.ts:37` and
  `print/page.tsx:62` ask for provider `"github"`; the callback stores
  `"GITHUB"`, so linked handles never appear there.
* `events/[id]/page.tsx:132`: the default resolver is never labelled as such,
  because its address is always stored.
* `components/earnings/earnings-dashboard.tsx:158`: a search that matches
  nothing shows the panel for a wallet without earnings.
* `lib/wallet/provider.tsx:43`: the tabs of a browser share the session cookie. When
  another tab signs in as another wallet, this one shows its old wallet, while the
  server acts for the new one, until it is loaded again or disconnects: no event
  tells it. `ShownMatchesSession` excepts exactly this (`foreign`). The earnings
  dashboard puts that address over the rows of the new session's wallet
  (`components/earnings/earnings-dashboard.tsx:42`); `RowsAreScoped` and
  `SummaryIsExact` are about the rows of one read only.
* `p/[login]/page.tsx:68`: after a rename at GitHub the page of one user's login
  shows another's profile. No property is kept for the page; the theorem
  `LoginsFindOne` says that this takes a rename.
* `go-live.tsx` and `fund-and-create.tsx`: when the answer of a submit is lost after
  core-go recorded it, the page keeps its build. `ConfirmedIsRecorded` says that
  nothing false follows; that the page recovers takes its user, who signs again
  and is refused or loads the page.
* `lib/escrow/pipeline.ts` (deprecated): line 70 resets and a failing submit
  overwrites a row that has succeeded meanwhile, and two submits of one key with
  successive sequence numbers are both included (line 124).
* `public/sw.js`: when one asset of the precache fails nothing is stored and the
  worker activates without the offline page (line 16); of two overlapping
  navigations the older may be stored last (line 63); the display image, served
  with `no-store`, is cached because its URL ends in `.png` (line 94).

### Fairness

* `ServiceHeal`: a request that has started goes on (`WF(Continue(r))`:
  goroutines are scheduled and RPC calls have timeouts) and the network includes
  some pending transaction (`WF(Include)`). Nobody is assumed to call, to retry
  or to sign. `Abandon` stays possible: a crash is exactly the case that document
  promises to heal.
* `Preferences` (`ReducedIsHonoured`): `WF(MotionEffect)`,
  `WF(watchReducedMotion)` and `WF(Commit)`, because React flushes the effects
  of a render and the browser delivers the change events of a media query and
  the callbacks of view transitions.
* `ServiceWorker` (`StaleCopiesDrain`): `WF(Put(r) \/ LosePut(r))`, because a
  cache write that is under way ends, done or lost. No request is assumed to be
  made or answered.

## 4. What is proved

Every theorem holds for every value of the constants that satisfies the ASSUMEs
of its module, which TLC evaluates on the runs, and what the list below adds (the
two about `AllocateWinners` need inputs that overflow nothing, `PagesAreSlices`
and `PrizeStaysPayable` one bound each). For the contract: finitely many
organizers and ids, the contract's address is no organizer, the default fee is
under the ceiling and the ceiling under a whole. For the service, its ids, winners
and payouts are not `None` and `MaxSeq` is a natural. For the pages: `None` is none
of the values it stands in for, the sets that are summed or counted are finite,
the caps (`MaxQueue`, `MaxVersion`, `MaxBuilds`, `MaxTeams`, `MaxReward`, the
numbers of prizes) are naturals, a trustline is a record of naturals, and for
drafts a base of at least two, positive widths and typed texts of digits. Every
theorem is about the `Spec` of one component, with all of its actions;
`PartsKeepTypes` and `PagesKeepTypes` join those of several.

### The contract

* `TypeCorrect`: `Spec => []TypeOK`. The content is that no subtraction goes
  below zero: balances, prizes and holdings are naturals in every state.
* `RefundsMatch`: `Spec => []RefundsMatchWallet`, inductive with `TypeOK`: the
  first deposit fixes a wallet's token, an event is created in that token, and
  neither is ever written again.
* `Solvent`: `Spec => []Solvency`. The inductive invariant is `TypeOK`,
  `RefundsMatchWallet` and `Solvency`. The middle part is needed: a refund moves
  a prize from the reserve of the event's token to the free balance of the
  wallet's token, and only balances because these are the same. The argument
  reduces every action to "at most one wallet and one event change"
  (`SolventStep`) and compares the change of what is owed with the change of
  what is held; a payout that names the contract itself only helps.
* `LiveLocked` and `FinishedFinal`: the action properties `LiveFundsLocked` and
  `FinishedStaysFinished`, both from one lemma (`StepMoves`) that lists what any
  step may do to any event.
* `IndexIsExact`: `Spec => []IndexExact`. The strengthening
  is `AbsentUnowned`: an id nobody created has no organizer, so a new event's id
  is in no listing yet and appending it never repeats one. `PagesAreSlices` follows for every
  offset and limit when `Cardinality(EventIds) <= MAX_U32`, so that a saturated
  end of a page is still beyond the list's.
* `PauseHolds`: the action property `PausedFundsStay`: while
  an organizer is paused the free balance does not fall and their events stay as
  they are, except that anybody may expire one before its start. The proof goes
  through every action and needs `AbsentUnowned` once more: an event that is
  created was nobody's before.
* `PrizeStaysPayable`: `Spec => []PrizeIsPayable`. The run's `LiveEventHasExit`
  says with ENABLED that a live event of an organizer who is not paused can still
  be paid; ENABLED is out of the prover's reach. `PrizeIsPayable` says the same
  guard by guard: a live event has a deadline and a resolver, and past the deadline
  the payment of the whole prize by that resolver meets each condition of
  `resolve_dispute`, the token balance of the contract included. It needs `Solvency`
  and `RefundsMatchWallet` (the prize is there, in the event's token), that a live
  event has a deadline (`LiveHasDeadline`), that every created event has a resolver
  (`HasResolver`), and room for one winner in a call (`MAX_WINNERS >= 1`). An event
  that was shrunk to nothing is paid with an empty list.
* `PromiseKept` (`EventRefinementProofs`): `Spec => KeepsPromise`. Initial states
  map to initial states, and each call is shown to be a step of `PrizeEscrow`
  or to leave all it promises unchanged. The invariant is `TypeOK` with
  `RefundsMatchWallet`; four lemmas say what free money, owners, prizes and
  phases a changed wallet or event is seen as, and one lemma per call joins them.
* `PhasesInOrder`: the phases of the contract's events, with the money forgotten,
  follow `EventPhases`. It is what the service below is proved against.

### The service

* `CoreServiceProofs`, for any number of concurrent requests, ids, winners and
  transactions: `ServiceTypes`, `PendingRowsAreCurrent`, `StoredIdsExist`,
  `LiveEventsAreLocked` and `PayoutsAreBacked`. The four properties the run
  checks are not inductive alone. `Inv` adds that every call a handler holds or a wallet may sign
  is of this event (`CallsBelong`), that a PENDING row holds a call of its own
  kind and a release row the winners the prizes are assigned to (`RowsBelong`),
  that what the ledger confirmed stays done on chain (`EffectsLast`), that a
  request marks success only of a confirmed transaction (`SuccessIsConfirmed`)
  and that a live event has its id and a paid one is completed (`StatusBacked`).
* `RecordFollowsContract`: `Spec => FollowsContract`, the refinement of `EventMirror`.
  With requests, rows and transactions forgotten, every step of `CoreService` is a
  step of the contract, one of the four turns of the record, or a stutter. The
  invariant is `Inv`: a mark of success turns the record, and that it may do so is
  what `SuccessIsConfirmed` and `EffectsLast` say of the request that makes it. The
  mirror says that *somebody* was paid and not that the rows name them: naming them
  is what `ServicePayouts` refutes.
* `SplitIsExact` (`AllocationProofs`): when no intermediate value overflows, the
  amounts of one team add up to the prize exactly. `AllocateWide` shows that the
  theorem says less than one might hope once products wrap: the sum is still
  right, the shares are not.
* `PrizesPaidInFull`: `Spec => []PaysInFull`, for any number of prizes, teams and
  members. It assumes `WellFormed` of the inputs: rows and teams are sequences of
  the right types, ranks are distinct (the schema's `@@unique([eventId, rank])`)
  and no product overflows. All inputs of `AllocateNarrow` are well formed; the
  overflow is what `AllocateWide` drops. The team that `TeamFor` picks exists
  because a non-empty finite set of ordinals has a least one; the list that is
  built position after position is then cut back into its positions and each
  part is `SplitIsExact`.
* `SharesStayFair`: `Spec => []SharesAreFair` under the same assumption. Each
  floor leaves less than one unit (`floor(a*s/T)` is between `a*s/T - 1` and
  `a*s/T`), the shares add up to `T`, so what the floors of a team leave together
  is at least zero and less than the number of members; only the member with the
  lowest ordinal gets it (`LowestOrdinal`). The bounds on the sum are the lemmas
  `TotalScale`, `TotalAdd` and `TotalAtMost` of `AmountsProofs`.

### Amounts on their way to the chain (`EventDraftProofs`)

For every base, number of decimals, width of an integer and of a column, and number
of prizes:

* `ConversionInverts`: `AmountToStroops(StroopsToAmount(v)) = v` for every natural `v`.
  `amount.go` says the two invert each other; its tests try a few values.
* `PrizesAreExact`: `Draft!Spec => []PrizesAddUp`. What the form parsed, what the
  column prints and what core-go reads are one number, and what the organizer signs
  away is the exact sum of the prizes. Two things can go wrong: core-go's sum may wrap
  in int64, and the answer may be rounded on its way through a JavaScript number. The
  page compares that number with its own sum before it lets the organizer sign, and the
  proof shows that this is enough: a wrapped sum differs from the exact one by a
  multiple of the integer's span (`RewardWraps`), and a double moves a number by much
  less (`RewardAsSummed`), so what shows as the exact sum is the exact sum. The
  invariant `DraftInv` carries the texts beside the stored units, and the sum the page
  showed beside both.
* `DraftTypes`: the type invariant, among it that every stored prize fits its column.

Digits and sums are loops. A loop is a recursive function, and its values round by
round are obtained from a table (`LoopTable`), whose existence for every number of
rounds is an induction the prover cannot take from its library, since that theorem
has an operator as parameter. `AmountsProofs` has it for sets instead
(`EveryNumber`: a set of naturals with 0 that is closed under the successor has them
all), from `LowestExists`.

### The screens (`EventPagesProofs`)

For any number of builds, requests, wallets, prompts left open and answers lost:

* `DepositsConfirmed` and `DepositsCreditOnce`: `SucceededIsCredited` and
  `CreditedOnce`. `DepositInv` adds that a submit about to record success saw its
  deposit succeed in the ledger (`MarkedCredited`; to be there is not enough, since
  a transaction that failed is there too), that a submit, the build on the page and
  whatever the wallet and the network hold are of rows that were written
  (`ThreadsRecorded`, `BuiltRecorded`, `BuildsOnly`), and that a transaction in the
  ledger has used up its sequence number, failed or not (`IncludedUsed`): without
  that the same signature could be included twice and credit twice. `CreditedOnce`
  is an equation: balance and what was spent of it against the start and the
  credited deposits.
* `FundsReserveShown` and `PanelsConfirmRecorded`: `ReservedAsShown` and
  `ConfirmedIsRecorded`. `ScreenInv` follows a build with another sum everywhere it
  could be at `/fund`, in a prompt, in a request, on the network and on the ledger,
  and finds it nowhere (`SignedAsShown`). For the panels, a handler about to mark
  saw its build succeed, and so did the one that moved the event row
  (`MarksIncluded`); a finished operation row makes the same call as that build
  (`RowStays`), and "confirmed" is about it (`ConfirmedStays`): after the move no
  build is offered and no mark changes the row, although a refusal may still write
  FAILED over it.
* `WalletsJoinOnce` and `TeamsCouldReceive`: `OneTeamPerWallet` and
  `RegisteredCouldReceive`. `TeamsInv` carries the unique index over to inserts that
  are not committed yet (`CommitsAreUnique`: a row about to be committed is the
  only one of its wallet, pending or not), and the trustline from the check to the
  team (`SeenLinesOpen`, `RecordedBeforeTeam`). The ledger's rule follows from
  `trustlineHeadroom` because a line is recorded only when it passes.
* `JudgeSignsSelection` and `ReleasesArePaid`: `BuiltMatchesSelection` and
  `ReleasedWasPaid`. `JudgeInv` says that what is being built and what was built is
  what the locked selects show (`SelectionHeld`), also while an envelope is
  submitted, and that a handler about to record success saw the payout
  (`MarkedWasPaid`). `ReleaseTypes` is the type invariant of `JudgeRelease`.
* `SurfacesClaimPaid`: `PaidClaimsHold`. `ViewsInv` says that the row, and the copy
  of it a rendering holds, say "paid" only once the contract has (`RowsArePaid`).
  The row may be older than the chain's answer, never the reverse, and the contract
  does not take a payout back, so old copies are harmless.
* `AnswersStayIncluded`: `AnswersAreIncluded`. `LogInv` says that the hash in a row
  is that of a transaction on the ledger (`RowIncluded`): only a call the network
  answered (`CallsSubmitBuilt`) writes one.
* `PagesKeepTypes`: `TypeOK` of all seven parts, for their specifications together.
  For the deposit, the screens, the registration and the release it follows from the
  invariants above. The pipeline (`LogPage`) and the public surfaces (`ViewsPage`) needed
  their own: an envelope's numbers are bounded by the number of envelopes built, what
  is sent or included was built, and a row names a transaction exactly when it
  succeeded; a rendering holds a row of the event's number of prizes at each of its
  awaits, and shows ranks within it. The first attempt at the
  sequence number failed because the model set it back when an envelope already on the
  ledger was sent again; the ledger does not, and `Send` was corrected.

### The browser (`BrowserPagesProofs`)

For any number of wallets, nonces, requests, flows, payouts and versions:

* `NoncesOpenOnce`: `NonceSingleUse`. `NonceInv` adds that a nonce with a
  row is no longer fresh (`RowsWereDrawn`) and that one that is fresh or has a row
  has opened nothing (`UnusedOpenedNone`): the delete that finds the row takes it
  in the step that counts it, and an id is drawn once.
* `HeadersMatchSessions`: `ShownMatchesSession`. Another tab may write the cookie at any
  moment, also between a read of the session and its answer, so the invariant
  `ShownHasCookie` speaks of both: unless another tab has signed in since this one
  last read or wrote the cookie, the wallet shown and the wallet about to be shown
  are the cookie's or the cookie is gone. It holds while the tab is busy, too, but for
  a sign-in that failed after the browser took its cookie; the clean-up that follows
  drops the address, whether or not it can clear the session.
* `LinksFollowStarts`: `LinkFollowsStart`. `LinkInv` carries the wallet and
  the approval of the signed state from the callback's check (`CallsAreApproved`) to
  the committed row, while the session may change underneath.
* `LinksAreOneToOne`: `OneLinkEach`. Two callbacks may delete and create rows for one
  wallet or one account at once, neither seeing the other's. `OneLinkInv` says what
  the locks and the unique keys keep: no row is deleted by two transactions
  (`RowsAreLocked`), and a row under way clashes with nothing that will be there
  when it commits (`NewRowsAreUnique`).
* `LoginsFindOne`: while no user gave a login up after linking, one row at most
  carries it, whatever was linked and linked again: the rows are its holder's, and
  a user has one row. Only a rename can show the wrong profile.
* `RowsStayScoped` and `SummariesAreExact`: `RowsAreScoped` and `SummaryIsExact`,
  from `EarnedInv`: the page holds rows of the wallet it was rendered for. The
  second is the arithmetic of one rounding of an exact sum (`DollarsAreClose`).
* `NavigationsAreFresh`: the action property `NavigationIsFresh`, from the steps
  themselves: the worker's `fetch` comes before anything that is stored.
* `PartsKeepTypes`: `TypeOK` of all six parts, for their specifications together. Three
  rest on more than types: a sign-in request that goes on has the row it found
  (`SessionPage`), a callback the wallet it read from the session (`LinkPage`), and a
  request the worker serves has its file, and the version it will store
  (`WorkerCalls`).

### Only model-checked

* `LiveEventHasExit` itself, which contains ENABLED (`PrizeStaysPayable` proves its
  content), and the liveness properties `ReducedIsHonoured` and
  `StaleCopiesDrain`: both are out of the prover's reach.
* `Decodes` and `CapacityIsExact`, and with the first the types of `QrCode`: it computes
  with `Bitwise`, which no module with a theorem may use.
* The five violations, which are false.

## 5. Not modelled

Storage TTL and archival; published contract events, which nothing in the
repository reads; the XDR encoding of calls; HTTP, routing, configuration and
authentication of one request (which wallet may call is taken as given); the
order of Postgres row locks; the emergency withdrawal that leaves the database
with larger prizes than the chain (core-go has no code that notices; releases of
the old amount are then refused, which `Include` may do). Team shares other than
one whole share and `transitionPrize`, which have no caller outside the tests;
reconciliation, which has no job; marketing pages, animations, translations; the
testnet proof command and the spikes. `PROJECT.json` gives the reason for each.

## 6. Plan

The modules were written in the order of what a defect costs: contract, abstract
promise, service protocol, allocation, then the pages that ask for a signature,
then what the public sees. What would come next:

1. **Composition** of `CoreService` with `EventEscrow`, so that an emergency
   withdrawal meets a release of the old amount in one state space.
   `EventPhases` is the interface the two would meet at; prizes would have to join it.
2. **More proofs**: the theme and the motion switch of `Preferences`, as safety
   lemmas its liveness rests on.
