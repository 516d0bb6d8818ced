----------------------------- MODULE GitHubLink -----------------------------
(***************************************************************************)
(* Linking a GitHub account to a wallet by OAuth: the start and callback   *)
(* routes, the signed state with its cookie, and the linked_accounts rows. *)
(*                                                                         *)
(* A state is a model value; what it signs is flow[s]. GitHub (external)   *)
(* lets the user of a browser approve as an account and redirects with a   *)
(* single-use code; a browser may load a callback address again. The       *)
(* callback's transaction is cut at its statements, as PostgreSQL runs it  *)
(* (read committed). MaxTime bounds the clock.                             *)
(***************************************************************************)
EXTENDS Naturals, FiniteSets

CONSTANTS Browsers, Wallets, Accounts, States, Calls, Ttl, MaxTime, None

LinkAssumption == Ttl \in Nat /\ MaxTime \in Nat

VARIABLES
  now,
  session,  \* wallet of each browser's session cookie
  cookie,   \* GITHUB_OAUTH_COOKIE of each browser
  flow,     \* payload of each state handed out
  approved, \* account that approved a flow at GitHub
  spent,    \* flows whose code was exchanged
  call,     \* requests to the callback route
  link,     \* committed rows of linked_accounts
  tx        \* rows each call has deleted and created, not committed yet

vars == <<now, session, cookie, flow, approved, spent, call, link, tx>>

Flow == [wallet : Wallets, browser : Browsers, timestamp : Nat]
NoRows == [gone |-> {}, new |-> {}]
InTransaction == {"unlinkWallet", "unlinkAccount", "create", "commit"}
NoCall == [step |-> "none", browser |-> None, wallet |-> None, state |-> None]

TypeOK ==
  /\ now \in 0..MaxTime
  /\ session \in [Browsers -> Wallets \cup {None}]
  /\ cookie \in [Browsers -> States \cup {None}]
  /\ flow \in [States -> Flow \cup {None}]
  /\ approved \in [States -> Accounts \cup {None}] /\ spent \subseteq States
  /\ \A c \in Calls :
       /\ call[c].step \in {"none", "exchange", "linked", "failed"} \cup InTransaction
       /\ call[c].step # "none" => call[c].wallet \in Wallets
       /\ call[c].step \in InTransaction => approved[call[c].state] # None
       /\ call[c].step \notin InTransaction => tx[c] = NoRows
  /\ link \subseteq (Wallets \X Accounts)
  /\ tx \in [Calls -> [gone : SUBSET link, new : SUBSET (Wallets \X Accounts)]]

Init ==
  /\ now = 0 /\ session \in [Browsers -> Wallets]
  /\ cookie = [b \in Browsers |-> None]
  /\ flow = [s \in States |-> None] /\ approved = [s \in States |-> None] /\ spent = {}
  /\ call = [c \in Calls |-> NoCall] /\ link = {} /\ tx = [c \in Calls |-> NoRows]

\* The wallet session of a browser changes (WalletSession).
SignIn(b) ==
  /\ \E w \in Wallets \cup {None} : session' = [session EXCEPT ![b] = w]
  /\ UNCHANGED <<now, cookie, flow, approved, spent, call, link, tx>>

signOAuthState(w, b) == [wallet |-> w, browser |-> b, timestamp |-> now]

\* GET /api/auth/github/start: the cookie keeps the latest state only.
StartFlow(b, s) ==
  /\ session[b] # None /\ flow[s] = None
  /\ flow' = [flow EXCEPT ![s] = signOAuthState(session[b], b)]
  /\ cookie' = [cookie EXCEPT ![b] = s]
  /\ UNCHANGED <<now, session, approved, spent, call, link, tx>>

\* The user approves at GitHub, as whoever is signed in there.
Approve(s, a) ==
  /\ flow[s] # None /\ approved[s] = None
  /\ approved' = [approved EXCEPT ![s] = a]
  /\ UNCHANGED <<now, session, cookie, flow, spent, call, link, tx>>

\* Mutant: the state is not bound to a wallet.
verifyOAuthState_AnyWallet(s, w) == now - flow[s].timestamp <= Ttl

\* Signature, age and wallet of a state.
verifyOAuthState(s, w) == now - flow[s].timestamp <= Ttl /\ flow[s].wallet = w

\* GitHub sends a code after approval, an error otherwise.
HasCode(s) == approved[s] # None

\* GET /api/auth/github/callback up to its first call of GitHub. The browser
\* that follows the redirect is the one that started the flow.
Callback(c, s) ==
  LET b == flow[s].browser
      ok == HasCode(s) /\ cookie[b] = s /\ verifyOAuthState(s, session[b])
  IN  /\ call[c].step = "none" /\ flow[s] # None
      /\ session[b] # None
      /\ call' = [call EXCEPT ![c] = [step |-> IF ok THEN "exchange" ELSE "failed",
                                      browser |-> b, wallet |-> session[b], state |-> s]]
      /\ UNCHANGED <<now, session, cookie, flow, approved, spent, link, tx>>

\* The cookie is cleared when the browser reads the response; a second
\* request may have left before.
CookieCleared(c) ==
  /\ call[c].step # "none"
  /\ cookie' = [cookie EXCEPT ![call[c].browser] = None]
  /\ UNCHANGED <<now, session, flow, approved, spent, call, link, tx>>

\* A code works once; the token shows who approved.
exchangeCodeForToken(s) == s \notin spent
getGitHubUser(s) == approved[s]

Exchange(c) ==
  /\ call[c].step = "exchange"
  /\ \/ /\ exchangeCodeForToken(call[c].state)
        /\ spent' = spent \cup {call[c].state}
        /\ call' = [call EXCEPT ![c].step = "unlinkWallet"]
     \/ spent' = spent /\ call' = [call EXCEPT ![c].step = "failed"]
  /\ UNCHANGED <<now, session, cookie, flow, approved, link, tx>>

----------------------------------------------------------------------------
(* The transaction: two deletes and a create. *)

Pair(c) == <<call[c].wallet, getGitHubUser(call[c].state)>>
Clash(l, m) == l[1] = m[1] \/ l[2] = m[2]
Others(c) == Calls \ {c}

\* A delete waits for rows that another transaction has deleted. (One that
\* misses a row committed while it waited fails at its create: Rollback.)
Unlink(c, rows) ==
  /\ \A d \in Others(c) : rows \cap tx[d].gone = {}
  /\ tx' = [tx EXCEPT ![c].gone = @ \cup rows]
  /\ UNCHANGED <<now, session, cookie, flow, approved, spent, link>>

UnlinkWallet(c) ==
  /\ call[c].step = "unlinkWallet" /\ call' = [call EXCEPT ![c].step = "unlinkAccount"]
  /\ Unlink(c, {l \in link : l[1] = Pair(c)[1]})

UnlinkAccount(c) ==
  /\ call[c].step = "unlinkAccount" /\ call' = [call EXCEPT ![c].step = "create"]
  /\ Unlink(c, {l \in link : l[2] = Pair(c)[2]})

\* Mutant: no unique index.
Duplicates_NoIndex(c) == {}

\* Rows that hold a unique key of the new one: committed ones this
\* transaction has not deleted, and those of others that are under way.
Duplicates(c) ==
  {l \in (link \ tx[c].gone) \cup UNION {tx[d].new : d \in Others(c)} : Clash(l, Pair(c))}

\* It waits for those under way; a committed one refuses it (Rollback).
Create(c) ==
  /\ call[c].step = "create" /\ Duplicates(c) = {}
  /\ tx' = [tx EXCEPT ![c].new = {Pair(c)}]
  /\ call' = [call EXCEPT ![c].step = "commit"]
  /\ UNCHANGED <<now, session, cookie, flow, approved, spent, link>>

Commit(c) ==
  /\ call[c].step = "commit"
  /\ link' = (link \ tx[c].gone) \cup tx[c].new
  /\ tx' = [tx EXCEPT ![c] = NoRows]
  /\ call' = [call EXCEPT ![c].step = "linked"]
  /\ UNCHANGED <<now, session, cookie, flow, approved, spent>>

\* A unique key is taken, a wait was a deadlock, or the database fails.
Rollback(c) ==
  /\ call[c].step \in InTransaction
  /\ tx' = [tx EXCEPT ![c] = NoRows]
  /\ call' = [call EXCEPT ![c].step = "failed"]
  /\ UNCHANGED <<now, session, cookie, flow, approved, spent, link>>

\* The clock; a cookie lives as long as the state it holds.
Tick ==
  /\ now < MaxTime /\ now' = now + 1
  /\ cookie' = [b \in Browsers |->
       IF cookie[b] # None /\ now' - flow[cookie[b]].timestamp >= Ttl THEN None ELSE cookie[b]]
  /\ UNCHANGED <<session, flow, approved, spent, call, link, tx>>

Next ==
  \/ \E b \in Browsers : SignIn(b) \/ \E s \in States : StartFlow(b, s)
  \/ \E s \in States, a \in Accounts : Approve(s, a)
  \/ \E c \in Calls, s \in States : Callback(c, s)
  \/ \E c \in Calls : 
       \/ CookieCleared(c) \/ Exchange(c)
       \/ UnlinkWallet(c) \/ UnlinkAccount(c) \/ Create(c) \/ Commit(c) \/ Rollback(c)
  \/ Tick

Spec == Init /\ [][Next]_vars

----------------------------------------------------------------------------
\* A wallet is linked to an account only if that wallet started a flow which
\* that account approved, although the session may change at any moment
\* between start, callback and commit (start and callback routes).
LinkFollowsStart ==
  \A l \in link : \E s \in States :
    flow[s] # None /\ flow[s].wallet = l[1] /\ approved[s] = l[2]

\* However the statements of two callbacks interleave, a wallet has one GitHub
\* account and an account one wallet, although neither transaction sees what
\* the other has not committed (callback route, unique keys of LinkedAccount).
OneLinkEach == \A l, m \in link : Clash(l, m) => l = m

=============================================================================
