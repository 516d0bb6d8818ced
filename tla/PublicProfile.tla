--------------------------- MODULE PublicProfile ---------------------------
(***************************************************************************)
(* The public profile at /p/<GitHub login>: read from the linked accounts, *)
(* while core-go assigns and records prizes, wallets link accounts and     *)
(* change their visibility, and GitHub lets a user give up a login that    *)
(* another user then takes.                                                *)
(*                                                                         *)
(* A payout is one member's share of one prize.                            *)
(***************************************************************************)
EXTENDS Functions

CONSTANTS
  Wallets, Payouts,
  WalletOf,        \* of a payout
  Users, Logins,   \* GitHub's
  None

ProfileAssumption == WalletOf \in [Payouts -> Wallets]

VARIABLES
  assigned, recorded,  \* prizes with a winner, payouts confirmed
  holder,              \* GitHub: the login each user has now
  account,             \* LinkedAccount row of a wallet
  public,              \* wallets whose profile is public
  profile              \* the profile page last shown

money == <<assigned, recorded>>
vars == <<money, holder, account, public, profile>>

NotFound == [wallet |-> None, login |-> None, prizes |-> {}, payouts |-> {}]

TypeOK ==
  /\ assigned \subseteq Payouts /\ recorded \subseteq assigned
  /\ holder \in [Users -> Logins] /\ IsInjective(holder)
  /\ account \in [Wallets -> [user : Users, login : Logins] \cup {None}]
  /\ \A v, w \in Wallets : v # w /\ None \notin {account[v], account[w]} =>
       account[v].user # account[w].user
  /\ public \subseteq Wallets
  /\ profile \in [wallet : Wallets \cup {None}, login : Logins \cup {None},
                  prizes : SUBSET Payouts, payouts : SUBSET Payouts]

Init ==
  /\ assigned = {} /\ recorded = {}
  /\ holder \in {h \in [Users -> Logins] : IsInjective(h)}
  /\ account = [w \in Wallets |-> None] /\ public = {} /\ profile = NotFound

----------------------------------------------------------------------------
\* core-go: a release build gives prizes their winners, a later build others,
\* until a confirmed release records the payouts.

AssignPrizes(ps) ==
  /\ assigned' = recorded \cup ps
  /\ UNCHANGED <<recorded, holder, account, public, profile>>

RecordPayouts ==
  /\ recorded' = assigned /\ UNCHANGED <<assigned, holder, account, public, profile>>

Rename(u, l) ==
  /\ l \notin Range(holder) /\ holder' = [holder EXCEPT ![u] = l]
  /\ UNCHANGED <<money, account, public, profile>>

\* The callback's transaction: the wallet's row and the user's row go first.
LinkAccount(w, u) ==
  /\ account' = [v \in Wallets |->
       CASE v = w -> [user |-> u, login |-> holder[u]]
         [] v # w /\ account[v] # None /\ account[v].user = u -> None
         [] OTHER -> account[v]]
  /\ UNCHANGED <<money, holder, public, profile>>

\* A wallet with a session changes its own row.
updateProfileVisibility(w) ==
  /\ \E visible \in BOOLEAN :
       public' = IF visible THEN public \cup {w} ELSE public \ {w}
  /\ UNCHANGED <<money, holder, account, profile>>

\* Prizes won are those assigned to the team; payouts only those recorded.
ProfileOf(w, l) ==
  LET prizes == {p \in assigned : WalletOf[p] = w}
  IN  [wallet |-> w, login |-> l, prizes |-> prizes, payouts |-> prizes \cap recorded]

\* findFirst: one of the rows that carry the login, in no stated order.
Found(l) == {w \in Wallets : account[w] # None /\ account[w].login = l}

PublicProfilePage(l) ==
  /\ \/ Found(l) = {} /\ profile' = NotFound
     \/ \E w \in Found(l) :
          profile' = IF w \in public THEN ProfileOf(w, l) ELSE NotFound
  /\ UNCHANGED <<money, holder, account, public>>

Next ==
  \/ (\E ps \in SUBSET Payouts : AssignPrizes(ps)) \/ RecordPayouts
  \/ (\E u \in Users, l \in Logins : Rename(u, l))
  \/ (\E w \in Wallets, u \in Users : LinkAccount(w, u))
  \/ (\E w \in Wallets : updateProfileVisibility(w))
  \/ (\E l \in Logins : PublicProfilePage(l))

Spec == Init /\ [][Next]_vars

----------------------------------------------------------------------------
\* Logins in the rows are those of the day they were linked.
Current(l) == \A w \in Found(l) : holder[account[w].user] = l

\* findFirst takes any row with the login. As long as no user gave the login
\* up after linking, there is one such row at most, the holder's, whatever
\* wallets and accounts were linked and linked again; after a rename at GitHub
\* a login may find the wallet of who held it before (page.tsx query,
\* callback route).
LoginFindsOne == \A l \in Logins : Current(l) => \A v, w \in Found(l) : v = w

=============================================================================
