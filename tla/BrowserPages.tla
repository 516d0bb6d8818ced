---------------------------- MODULE BrowserPages ----------------------------
(***************************************************************************)
(* What a visitor's browser takes part in: the wallet session, the GitHub   *)
(* link, the earnings dashboard, the public profiles, the preferences of a  *)
(* page and the service worker. Each has its own account of what it needs   *)
(* of the others (the session a browser may change at any time), so they    *)
(* share constants and no variable.                                         *)
(***************************************************************************)
EXTENDS Naturals

CONSTANTS
  Wallets,
  Nonces, Ttl, MaxTime,                            \* of the session and the link
  Browsers, Accounts, States, Calls,               \* of the GitHub link
  Payouts, WalletOf, EventOf, Amount,              \* of the earnings
  Offered, OfferedTo, Users, Logins,               \* of the public profiles
  MaxQueue,                                        \* of the preferences
  MaxVersion, Fetches,                             \* of the service worker
  Requests,   \* calls being served
  None

VARIABLES
  now, nonce, fresh, sent, request, accepted, wallets, users, cookie, foreign, tab,
  inflight, read, mustClear, shown,
  linkNow, session, oauthCookie, flow, approved, spent, call, link, tx,
  recorded, walletCookie, connected, loading, page, search,
  assigned, confirmed, holder, account, public, profile,
  mounted, theme, html, queue, themeCookie, preference, stored, os, watched,
  attr, browser,
  worker, latest, cache, fetch, answer

Wallet == INSTANCE WalletSession WITH Addresses <- Wallets

GitHub == INSTANCE GitHubLink WITH now <- linkNow, cookie <- oauthCookie

Earned == INSTANCE Earnings WITH cookie <- walletCookie

Profiles == INSTANCE PublicProfile WITH
  Payouts <- Offered, WalletOf <- OfferedTo, recorded <- confirmed

Prefs == INSTANCE Preferences WITH cookie <- themeCookie

Worker == INSTANCE ServiceWorker WITH request <- fetch

\* What the parts assume of their constants.
ASSUME BrowserPagesAssumption ==
  /\ Wallet!SessionAssumption /\ GitHub!LinkAssumption /\ Earned!EarningsAssumption
  /\ Profiles!ProfileAssumption /\ Prefs!PreferencesAssumption /\ Worker!FetchesAssumption

----------------------------------------------------------------------------
\* The properties of the parts, each explained in its module.

\* Every part keeps its type invariant, with what its types say of the order
\* of its steps.
TypeOK ==
  /\ Wallet!TypeOK /\ GitHub!TypeOK /\ Earned!TypeOK
  /\ Profiles!TypeOK /\ Prefs!TypeOK /\ Worker!TypeOK
\* consumeAuthNonce: a nonce opens one session at most.
NonceSingleUse == Wallet!NonceSingleUse
\* WalletProvider: a tab at rest shows the wallet the server acts for.
ShownMatchesSession == Wallet!ShownMatchesSession
\* The OAuth callback links what the starting wallet's holder approved.
LinkFollowsStart == GitHub!LinkFollowsStart
\* The OAuth callback's transaction: racing callbacks leave one link each.
OneLinkEach == GitHub!OneLinkEach
\* EarningsPage: the rows in the browser are the read session's own.
RowsAreScoped == Earned!RowsAreScoped
\* EarningsDashboard: rounded total and average are right to half a dollar.
SummaryIsExact == Earned!SummaryIsExact
\* PublicProfilePage: a login whose row is current finds one wallet.
LoginFindsOne == Profiles!LoginFindsOne
\* useMotionPreference: reduced motion that stays asked for is reached.
ReducedIsHonoured == Prefs!ReducedIsHonoured
\* sw.js: a navigation that reached the server is answered by it.
NavigationIsFresh == Worker!NavigationIsFresh
\* sw.js: late cache writes drain.
StaleCopiesDrain == Worker!StaleCopiesDrain
=============================================================================
