------------------------------ MODULE Earnings ------------------------------
(***************************************************************************)
(* The earnings dashboard: the payouts of the session's wallet, in a tab   *)
(* whose wallet provider has its own address and which shares the session  *)
(* cookie with another tab, while core-go records payouts.                 *)
(*                                                                         *)
(* A payout is one member's share of one prize. Amounts are tenths of a    *)
(* dollar. A search is the set of payouts it matches; the order the list   *)
(* is sorted in is left out.                                               *)
(***************************************************************************)
EXTENDS Amounts

CONSTANTS
  Wallets, Payouts,
  WalletOf, EventOf, Amount,   \* of a payout
  None

EarningsAssumption ==
  /\ WalletOf \in [Payouts -> Wallets] /\ Amount \in [Payouts -> Nat]
  /\ IsFiniteSet(Payouts)

VARIABLES
  recorded,            \* payouts confirmed
  cookie,              \* the browser's session
  connected,           \* the wallet provider's address in this tab
  loading, page,       \* the page's session once read, and its props
  search

dashboard == <<connected, loading, page, search>>
vars == <<recorded, cookie, dashboard>>

Init ==
  /\ recorded = {} /\ cookie = None /\ connected = None
  /\ loading = None /\ page = None /\ search = Payouts

----------------------------------------------------------------------------
(* The dashboard.                                                          *)

\* core-go records the payouts of a confirmed release.
RecordPayouts(ps) == recorded' = recorded \cup ps /\ UNCHANGED <<cookie, dashboard>>

getParticipantEarnings(w) == {p \in recorded : w # None /\ WalletOf[p] = w}

\* The page is rendered for the session the request carries; a query that
\* fails yields no rows.
Rendered(w) ==
  page' \in {[wallet |-> w, rows |-> rows] : rows \in {getParticipantEarnings(w), {}}}

\* The session is read first, the rows after an await.
OpenPage ==
  /\ loading = None /\ cookie # None /\ loading' = cookie
  /\ UNCHANGED <<recorded, cookie, connected, page, search>>

\* Mutant: the query looks up the session again.
EarningsPage_Reread ==
  /\ loading # None /\ loading' = None
  /\ page' = [wallet |-> loading, rows |-> getParticipantEarnings(cookie)]
  /\ UNCHANGED <<recorded, cookie, connected, search>>

EarningsPage ==
  /\ loading # None /\ Rendered(loading) /\ loading' = None
  /\ UNCHANGED <<recorded, cookie, connected, search>>

OpenWithoutSession ==
  /\ loading = None /\ cookie = None /\ Rendered(None)
  /\ UNCHANGED <<recorded, cookie, connected, loading, search>>

\* The provider learns the session's address when the tab loads.
Rehydrate ==
  /\ connected = None /\ cookie # None /\ connected' = cookie
  /\ UNCHANGED <<recorded, cookie, loading, page, search>>

\* A server action that writes the cookie has the page rendered again.
ConnectWallet(w) ==
  /\ loading = None /\ cookie' = w /\ connected' = w /\ Rendered(w)
  /\ UNCHANGED <<recorded, loading, search>>

DisconnectWallet ==
  /\ connected # None /\ loading = None /\ connected' = None
  /\ \/ cookie' = None /\ Rendered(None)
     \/ UNCHANGED <<cookie, page>>   \* the clearing failed
  /\ UNCHANGED <<recorded, loading, search>>

OtherTab(w) ==
  /\ cookie' = w /\ UNCHANGED <<recorded, dashboard>>

Search(ps) == search' = ps /\ UNCHANGED <<recorded, cookie, connected, loading, page>>

----------------------------------------------------------------------------
(* What the dashboard shows.                                               *)

activeAddress ==
  CASE page = None -> None
    [] page # None /\ connected # None -> connected
    [] OTHER -> page.wallet

Dollars(tenths, n) == (2 * tenths + 10 * n) \div (20 * n)   \* no fraction digits, half up

AmountOf(rows) == Total([p \in rows |-> Amount[p]])

\* Mutant: the total adds up the amounts as the rows show them.
calculateEarningsSummary_OfShown(rows) ==
  LET total == Total([p \in rows |-> Dollars(Amount[p], 1)])
  IN  [total |-> total, prizes |-> Cardinality(rows),
       events |-> Cardinality({EventOf[p] : p \in rows}),
       average |-> IF rows = {} THEN 0 ELSE Dollars(10 * total, Cardinality(rows))]

calculateEarningsSummary(rows) ==
  LET total == AmountOf(rows)
  IN  [total |-> Dollars(total, 1), prizes |-> Cardinality(rows),
       events |-> Cardinality({EventOf[p] : p \in rows}),
       average |-> IF rows = {} THEN 0 ELSE Dollars(total, Cardinality(rows))]

filterAndSortEarnings(rows) == rows \cap search

EarningsDashboard ==
  IF activeAddress = None THEN [state |-> "connect"]
  ELSE [state |-> IF filterAndSortEarnings(page.rows) = {} THEN "noEarnings" ELSE "list",
        address |-> activeAddress, summary |-> calculateEarningsSummary(page.rows)]

Next ==
  \/ (\E ps \in SUBSET Payouts : RecordPayouts(ps) \/ Search(ps))
  \/ OpenPage \/ EarningsPage \/ OpenWithoutSession \/ Rehydrate
  \/ (\E w \in Wallets : ConnectWallet(w) \/ OtherTab(w)) \/ DisconnectWallet

Spec == Init /\ [][Next]_vars

----------------------------------------------------------------------------

TypeOK ==
  /\ recorded \cup search \subseteq Payouts
  /\ {cookie, connected, loading} \subseteq Wallets \cup {None}
  /\ page = None \/ page \in [wallet : Wallets, rows : SUBSET Payouts]
       \/ page = [wallet |-> None, rows |-> {}]
  /\ EarningsDashboard.state = "list" => EarningsDashboard.address \in Wallets

\* The rows handed to the browser are the session wallet's own, whatever tab
\* changed the cookie between the session read and the query.
RowsAreScoped == page # None => \A p \in page.rows : WalletOf[p] = page.wallet

\* The dollars shown as total and average are the true figures to within half a
\* dollar, however many rows of odd cents are added up.
SummaryIsExact ==
  EarningsDashboard.state # "connect" /\ page.rows # {} =>
    LET total == AmountOf(page.rows)
        s == EarningsDashboard.summary
        n == Cardinality(page.rows)
    IN  /\ 10 * s.total - 5 <= total /\ total <= 10 * s.total + 5
        /\ n * (10 * s.average - 5) <= total /\ total <= n * (10 * s.average + 5)

=============================================================================
