------------------------- MODULE BrowserPagesProofs -------------------------
(***************************************************************************)
(* What holds of the pages a visitor uses for every value of the constants: *)
(* the wallet session, the GitHub link, the earnings, the public profiles  *)
(* and the service worker, and the types of all six parts.                 *)
(***************************************************************************)
EXTENDS BrowserPages, AmountsProofs, Sequences

(***************************************************************************)
(* The wallet session.                                                     *)
(***************************************************************************)

\* A message being looked up names a nonce; the tab signs one it was given.
SessionTypes ==
  /\ nonce \in [Nonces -> Wallet!Row \cup {None}] /\ fresh \subseteq Nonces
  /\ sent \subseteq Wallet!Message
  /\ request \in [Requests -> [step : {"none", "find", "delete", "wallet", "user", "done", "failed"},
                               msg : Wallet!Message \cup {None},
                               entry : Wallet!Row \cup {None}, tab : BOOLEAN]]
  /\ \A r \in Requests : request[r].step # "none" => request[r].msg \in Wallet!Message
  /\ accepted \in [Nonces -> Nat] /\ now \in Nat
  /\ tab \in [phase : {"idle", "modal", "nonce", "sign", "associate", "failing"},
              address : Wallets \cup {None}, nonce : Nonces \cup {None}]
  /\ tab.phase \in {"nonce", "sign", "associate"} => tab.address \in Wallets
  /\ tab.phase \in {"sign", "associate"} => tab.nonce \in Nonces

\* A nonce with a row was drawn; one that may still open a session, drawn or
\* not, has opened none: its row goes in the step that counts it, and a used id
\* is never drawn again.
RowsWereDrawn == \A n \in Nonces : nonce[n] # None => n \notin fresh

UnusedOpenedNone == \A n \in Nonces : n \in fresh \/ nonce[n] # None => accepted[n] = 0

\* The inductive invariant.
NonceInv ==
  /\ SessionTypes
  /\ RowsWereDrawn
  /\ UnusedOpenedNone
  /\ Wallet!NonceSingleUse

LEMMA NonceInitInv == Wallet!Init => NonceInv
BY DEF Wallet!Init, Wallet!NoRequest, Wallet!Idle, NonceInv, SessionTypes, RowsWereDrawn,
       UnusedOpenedNone, Wallet!NonceSingleUse

\* While no nonce is issued and none is used up, only the types can be disturbed.
LEMMA NonceTableKept ==
  ASSUME NonceInv, UNCHANGED <<nonce, fresh, accepted>>, SessionTypes'
  PROVE  NonceInv'
BY DEF NonceInv, RowsWereDrawn, UnusedOpenedNone, Wallet!NonceSingleUse

\* A new row is of an id that was not drawn before; expired rows go.
LEMMA IssueKeepsTable ==
  ASSUME NonceInv, NEW n \in Nonces, NEW a \in Wallets, Wallet!issueAuthNonce(n, a),
         UNCHANGED accepted
  PROVE  /\ nonce' \in [Nonces -> Wallet!Row \cup {None}] /\ fresh' \subseteq Nonces
         /\ RowsWereDrawn' /\ UnusedOpenedNone' /\ Wallet!NonceSingleUse'
<1>1. [address |-> a, expires |-> now + Ttl] \in Wallet!Row
  BY BrowserPagesAssumption DEF Wallet!SessionAssumption, Wallet!Row, NonceInv, SessionTypes
<1>2. Wallet!Pruned(nonce) \in [Nonces -> Wallet!Row \cup {None}]
  BY DEF Wallet!Pruned, NonceInv, SessionTypes
<1>3. \A k \in Nonces : Wallet!Pruned(nonce)[k] # None => nonce[k] # None
  BY DEF Wallet!Pruned
<1>4. nonce' \in [Nonces -> Wallet!Row \cup {None}] /\ fresh' \subseteq Nonces
  BY <1>1, <1>2 DEF Wallet!issueAuthNonce, NonceInv, SessionTypes
<1>5. \A k \in Nonces : nonce'[k] # None => (k = n \/ nonce[k] # None)
  BY <1>2, <1>3 DEF Wallet!issueAuthNonce
<1>6. n \in fresh /\ fresh' = fresh \ {n}
  BY DEF Wallet!issueAuthNonce
<1> QED
  BY <1>4, <1>5, <1>6 DEF NonceInv, RowsWereDrawn, UnusedOpenedNone, Wallet!NonceSingleUse

\* consumeAuthNonce's delete: the row it counts is gone afterwards.
LEMMA DeleteKeepsTable ==
  ASSUME NonceInv, NEW r \in Requests, Wallet!DeleteNonce(r)
  PROVE  NonceInv'
<1> DEFINE k == request[r].msg.nonce
<1>1. k \in Nonces
  BY DEF NonceInv, SessionTypes, Wallet!DeleteNonce, Wallet!Message
<1>2. nonce' = [nonce EXCEPT ![k] = None] /\ fresh' = fresh
  BY DEF Wallet!DeleteNonce
<1>3. PICK d \in {0, 1} : accepted' = [accepted EXCEPT ![k] = @ + d] /\ (d = 1 => nonce[k] # None)
  <2>1. Wallet!Passes(r) => nonce[k] # None
    BY DEF Wallet!Passes, Wallet!Deletable
  <2>2. CASE Wallet!Passes(r)
    BY <2>1, <2>2 DEF Wallet!DeleteNonce
  <2>3. CASE ~Wallet!Passes(r)
    BY <2>3 DEF Wallet!DeleteNonce
  <2> QED
    BY <2>2, <2>3
<1>4. SessionTypes'
  <2>1. nonce' \in [Nonces -> Wallet!Row \cup {None}] /\ accepted' \in [Nonces -> Nat]
    BY <1>1, <1>2, <1>3 DEF NonceInv, SessionTypes
  <2>2. PICK s \in {"wallet", "failed"} : request' = [request EXCEPT ![r].step = s]
    BY DEF Wallet!DeleteNonce
  <2> QED
    BY <2>1, <2>2 DEF Wallet!DeleteNonce, Wallet!browser, NonceInv, SessionTypes
<1> HIDE DEF k
<1>5. RowsWereDrawn' /\ UnusedOpenedNone' /\ Wallet!NonceSingleUse'
  BY <1>1, <1>2, <1>3 DEF NonceInv, SessionTypes, RowsWereDrawn, UnusedOpenedNone, Wallet!NonceSingleUse
<1> QED
  BY <1>4, <1>5 DEF NonceInv

\* A page that goes away leaves its requests to the server as they are.
LEMMA CallsForgotten ==
  ASSUME SessionTypes,
         request' = [r \in Requests |-> [request[r] EXCEPT !.tab = FALSE]]
  PROVE  /\ request' \in [Requests -> [step : {"none", "find", "delete", "wallet", "user", "done", "failed"},
                                       msg : Wallet!Message \cup {None},
                                       entry : Wallet!Row \cup {None}, tab : BOOLEAN]]
         /\ \A r \in Requests : request'[r].step # "none" => request'[r].msg \in Wallet!Message
<1> DEFINE Call == [step : {"none", "find", "delete", "wallet", "user", "done", "failed"},
                    msg : Wallet!Message \cup {None},
                    entry : Wallet!Row \cup {None}, tab : BOOLEAN]
<1>1. ASSUME NEW q \in Call
      PROVE  /\ [q EXCEPT !.tab = FALSE] \in Call
             /\ [q EXCEPT !.tab = FALSE].step = q.step /\ [q EXCEPT !.tab = FALSE].msg = q.msg
  OBVIOUS
<1> HIDE DEF Call
<1>2. request \in [Requests -> Call]
  BY DEF SessionTypes, Call
<1>3. request' \in [Requests -> Call]
  BY <1>1, <1>2
<1>4. \A r \in Requests : request'[r].step # "none" => request'[r].msg \in Wallet!Message
  BY <1>1, <1>2 DEF SessionTypes
<1> QED
  BY <1>3, <1>4 DEF Call

LEMMA NonceStepInv == NonceInv /\ [Wallet!Next]_(Wallet!vars) => NonceInv'
<1> SUFFICES ASSUME NonceInv, [Wallet!Next]_(Wallet!vars) PROVE NonceInv'
  OBVIOUS
<1> USE DEF Wallet!server, Wallet!jar, Wallet!browser
<1>1. CASE UNCHANGED Wallet!vars
  BY <1>1, NonceTableKept DEF Wallet!vars, NonceInv, SessionTypes
<1>2. ASSUME NEW n \in Nonces, NEW a \in Wallets, Wallet!NonceRoute(n, a)
      PROVE  NonceInv'
  BY <1>2, IssueKeepsTable DEF Wallet!NonceRoute, NonceInv, SessionTypes
<1>3. ASSUME NEW r \in Requests, Wallet!ServerStep(r)
      PROVE  NonceInv'
  <2>1. CASE Wallet!Redeliver(r)
    BY <2>1, NonceTableKept DEF Wallet!Redeliver, Wallet!Start, NonceInv, SessionTypes
  <2>2. CASE Wallet!FindNonce(r)
    <3>1. request[r].msg.nonce \in Nonces
      BY <2>2 DEF Wallet!FindNonce, NonceInv, SessionTypes, Wallet!Message
    <3> QED
      BY <2>2, <3>1, NonceTableKept, ZenonT(40) DEF Wallet!FindNonce, NonceInv, SessionTypes
  <2>3. CASE Wallet!DeleteNonce(r)
    BY <2>3, DeleteKeepsTable
  <2>4. CASE Wallet!FindWallet(r)
    BY <2>4, NonceTableKept DEF Wallet!FindWallet, NonceInv, SessionTypes
  <2>5. CASE Wallet!CreateWallet(r)
    BY <2>5, NonceTableKept DEF Wallet!CreateWallet, NonceInv, SessionTypes
  <2> QED
    BY <1>3, <2>1, <2>2, <2>3, <2>4, <2>5 DEF Wallet!ServerStep
<1>4. ASSUME NEW r \in Requests, Wallet!Associated(r)
      PROVE  NonceInv'
  BY <1>4, NonceTableKept, ZenonT(40) DEF Wallet!Associated, Wallet!Idle, NonceInv, SessionTypes
<1>5. CASE Wallet!Reload
  BY <1>5, CallsForgotten, NonceTableKept DEF Wallet!Reload, Wallet!Idle, NonceInv, SessionTypes
<1>6. CASE Wallet!ReadSession \/ Wallet!Rehydrated \/ \E a \in Wallets \cup {None} : Wallet!OtherTab(a)
  BY <1>6, NonceTableKept DEF Wallet!ReadSession, Wallet!Rehydrated, Wallet!OtherTab, NonceInv, SessionTypes
<1>7. CASE Wallet!Connect
  BY <1>7, NonceTableKept DEF Wallet!Connect, NonceInv, SessionTypes
<1>8. CASE Wallet!ModalAnswered
  <2>1. CASE tab' = Wallet!Idle
    BY <1>8, <2>1, NonceTableKept DEF Wallet!ModalAnswered, Wallet!Idle, NonceInv, SessionTypes
  <2>2. ASSUME NEW a \in Wallets, tab' = [tab EXCEPT !.phase = "nonce", !.address = a]
        PROVE  NonceInv'
    BY <1>8, <2>2, NonceTableKept DEF Wallet!ModalAnswered, NonceInv, SessionTypes
  <2> QED
    BY <1>8, <2>1, <2>2 DEF Wallet!ModalAnswered
<1>9. CASE Wallet!getAuthNonce
  <2>1. PICK n \in Nonces : /\ Wallet!issueAuthNonce(n, tab.address)
                            /\ tab' = [tab EXCEPT !.phase = "sign", !.nonce = n]
    BY <1>9 DEF Wallet!getAuthNonce
  <2>2. tab.address \in Wallets
    BY <1>9 DEF Wallet!getAuthNonce, NonceInv, SessionTypes
  <2>3. UNCHANGED <<now, sent, request, accepted>>
    BY <1>9 DEF Wallet!getAuthNonce
  <2>4. /\ nonce' \in [Nonces -> Wallet!Row \cup {None}] /\ fresh' \subseteq Nonces
        /\ RowsWereDrawn' /\ UnusedOpenedNone' /\ Wallet!NonceSingleUse'
    BY <2>1, <2>2, <2>3, IssueKeepsTable
  <2> QED
    BY <2>1, <2>2, <2>3, <2>4 DEF NonceInv, SessionTypes
<1>10. CASE Wallet!Signed
  <2>1. PICK by \in Wallets, r \in Requests :
          LET m == [address |-> tab.address, nonce |-> tab.nonce, by |-> by]
          IN  sent' = sent \cup {m} /\ Wallet!Start(r, m, TRUE)
    BY <1>10 DEF Wallet!Signed
  <2>2. [address |-> tab.address, nonce |-> tab.nonce, by |-> by] \in Wallet!Message
    BY <1>10 DEF Wallet!Signed, Wallet!Message, NonceInv, SessionTypes
  <2> QED
    BY <1>10, <2>1, <2>2, NonceTableKept DEF Wallet!Signed, Wallet!Start, NonceInv, SessionTypes
<1>11. CASE Wallet!ConnectFails
  BY <1>11, CallsForgotten, NonceTableKept DEF Wallet!ConnectFails, NonceInv, SessionTypes
<1>12. CASE Wallet!CleanUp
  BY <1>12, NonceTableKept DEF Wallet!CleanUp, Wallet!Idle, NonceInv, SessionTypes
<1>13. CASE Wallet!Disconnect \/ Wallet!ClearQueued \/ Wallet!ExtensionDisconnects
  BY <1>13, NonceTableKept DEF Wallet!Disconnect, Wallet!ClearQueued, Wallet!ExtensionDisconnects,
                               NonceInv, SessionTypes
<1>14. CASE Wallet!Tick
  BY <1>14, NonceTableKept DEF Wallet!Tick, NonceInv, SessionTypes
<1> QED
  BY <1>1, <1>2, <1>3, <1>4, <1>5, <1>6, <1>7, <1>8, <1>9, <1>10, <1>11, <1>12, <1>13, <1>14
     DEF Wallet!Next

\* However many requests carry one nonce and however they interleave between
\* findUnique and delete, it opens one session at most: the delete that finds
\* the row takes it, and an id is drawn once.
THEOREM NoncesOpenOnce == Wallet!Spec => []NonceSingleUse
<1>1. NonceInv => NonceSingleUse
  BY DEF NonceInv, NonceSingleUse
<1> QED
  BY <1>1, NonceInitInv, NonceStepInv, PTL DEF Wallet!Spec

\* Unless another tab signed in since, the wallet shown, or the one an answer
\* is about to show, is the wallet of the cookie, or the cookie is gone. Only a
\* sign-in that has failed may have left its cookie, until it is cleaned up. A tab
\* shows nothing before its first read, and signs in with one call at a time.
ShownHasCookie ==
  /\ tab.phase = "associate" => inflight = "associate"
  /\ inflight = "rehydrate" => shown = None
  /\ ~foreign /\ shown # None /\ tab.phase # "failing" => cookie \in {None, shown}
  /\ ~foreign /\ inflight = "answer" /\ read # None => cookie \in {None, read}

LEMMA ShownInit == Wallet!Init => ShownHasCookie
BY DEF Wallet!Init, Wallet!Idle, ShownHasCookie

LEMMA ShownStep == NonceInv /\ ShownHasCookie /\ [Wallet!Next]_(Wallet!vars) => ShownHasCookie'
<1> SUFFICES ASSUME NonceInv, ShownHasCookie, [Wallet!Next]_(Wallet!vars) PROVE ShownHasCookie'
  OBVIOUS
<1> USE DEF ShownHasCookie, Wallet!server, Wallet!jar, Wallet!browser
<1>0. tab \in [phase : {"idle", "modal", "nonce", "sign", "associate", "failing"},
              address : Wallets \cup {None}, nonce : Nonces \cup {None}]
  BY DEF NonceInv, SessionTypes
<1>1. CASE UNCHANGED <<Wallet!jar, tab, inflight, read, shown>>
  BY <1>1
<1>2. ASSUME NEW r \in Requests, Wallet!ServerStep(r)
      PROVE  ShownHasCookie'
  BY <1>1, <1>2 DEF Wallet!ServerStep, Wallet!Redeliver, Wallet!FindNonce, Wallet!DeleteNonce,
                    Wallet!FindWallet, Wallet!CreateWallet
<1>3. ASSUME NEW n \in Nonces, NEW a \in Wallets, Wallet!NonceRoute(n, a)
      PROVE  ShownHasCookie'
  BY <1>1, <1>3 DEF Wallet!NonceRoute
<1>4. ASSUME NEW r \in Requests, Wallet!Associated(r)
      PROVE  ShownHasCookie'
  BY <1>4 DEF Wallet!Associated, Wallet!Idle
<1>5. ASSUME NEW a \in Wallets \cup {None}, Wallet!OtherTab(a)
      PROVE  ShownHasCookie'
  <2>1. cookie' = a /\ UNCHANGED <<tab, inflight, read, shown>>
    BY <1>5 DEF Wallet!OtherTab
  <2>2. a # None => foreign'
    BY <1>5 DEF Wallet!OtherTab
  <2> QED
    BY <2>1, <2>2
<1>6. CASE Wallet!Reload
  BY <1>6 DEF Wallet!Reload, Wallet!Idle
<1>7. CASE Wallet!ReadSession
  BY <1>7 DEF Wallet!ReadSession, Wallet!getSessionWallet
<1>8. CASE Wallet!Rehydrated
  BY <1>8 DEF Wallet!Rehydrated
<1>9. CASE Wallet!Connect
  BY <1>0, <1>9 DEF Wallet!Connect
<1>10. CASE Wallet!ModalAnswered
  <2>1. tab'.phase \in {"nonce", "idle"}
    <3>1. CASE tab' = Wallet!Idle
      BY <3>1 DEF Wallet!Idle
    <3>2. ASSUME NEW a \in Wallets, tab' = [tab EXCEPT !.phase = "nonce", !.address = a]
          PROVE  tab'.phase = "nonce"
      BY <1>0, <3>2
    <3> QED
      BY <1>10, <3>1, <3>2 DEF Wallet!ModalAnswered
  <2>2. /\ tab.phase = "modal" /\ shown' \in {shown, None}
        /\ UNCHANGED <<Wallet!jar, inflight, read>>
    BY <1>10 DEF Wallet!ModalAnswered
  <2> QED
    BY <2>1, <2>2
<1>11. CASE Wallet!getAuthNonce
  BY <1>0, <1>11 DEF Wallet!getAuthNonce
<1>12. CASE Wallet!Signed
  BY <1>0, <1>12 DEF Wallet!Signed
<1>13. CASE Wallet!ConnectFails
  BY <1>0, <1>13 DEF Wallet!ConnectFails
<1>14. CASE Wallet!CleanUp
  BY <1>14 DEF Wallet!CleanUp, Wallet!Idle, Wallet!Cleared, Wallet!Free
<1>15. CASE Wallet!Disconnect \/ Wallet!ExtensionDisconnects
  BY <1>15 DEF Wallet!Disconnect, Wallet!ExtensionDisconnects
<1>16. CASE Wallet!ClearQueued
  BY <1>16 DEF Wallet!ClearQueued, Wallet!Cleared
<1>17. CASE UNCHANGED Wallet!vars \/ Wallet!Tick
  BY <1>1, <1>17 DEF Wallet!vars, Wallet!Tick
<1> QED
  BY <1>2, <1>3, <1>4, <1>5, <1>6, <1>7, <1>8, <1>9, <1>10, <1>11, <1>12, <1>13, <1>14, <1>15,
     <1>16, <1>17 DEF Wallet!Next

\* The header never shows one wallet while the server acts for another, with
\* reloads, failed sign-ins, queued clears and extension events in any order,
\* and with other tabs that write the cookie at any moment, also between a
\* read of the session and its answer: only a sign-in in another tab that this
\* one has not read yet makes the two differ.
THEOREM HeadersMatchSessions == Wallet!Spec => []ShownMatchesSession
<1>1. ShownHasCookie => ShownMatchesSession
  BY DEF ShownHasCookie, ShownMatchesSession, Wallet!ShownMatchesSession, Wallet!Quiet
<1> QED
  BY <1>1, NonceInitInv, NonceStepInv, ShownInit, ShownStep, PTL DEF Wallet!Spec

(***************************************************************************)
(* The GitHub link.                                                        *)
(***************************************************************************)

Rows == Wallets \X Accounts

\* What the routes keep: a request that passed the checks of the callback holds
\* a state of its own wallet, which an account approved.
LinkTypes ==
  /\ linkNow \in Nat
  /\ session \in [Browsers -> Wallets \cup {None}]
  /\ flow \in [States -> GitHub!Flow \cup {None}]
  /\ approved \in [States -> Accounts \cup {None}]
  /\ link \subseteq Rows
  /\ tx \in [Calls -> [gone : SUBSET Rows, new : SUBSET Rows]]

CallsAreApproved ==
  /\ call \in [Calls -> [step : {"none", "exchange", "linked", "failed"} \cup GitHub!InTransaction,
                         browser : Browsers \cup {None}, wallet : Wallets \cup {None},
                         state : States \cup {None}]]
  /\ \A c \in Calls : call[c].step \in {"exchange"} \cup GitHub!InTransaction =>
       /\ call[c].state \in States
       /\ flow[call[c].state] # None
       /\ flow[call[c].state].wallet = call[c].wallet
       /\ approved[call[c].state] # None

ApprovedPair(l) ==
  \E s \in States :
    /\ flow[s] # None /\ flow[s].wallet = l[1]
    /\ approved[s] # None /\ approved[s] = l[2]

\* Of the rows that are committed and of those under way.
LinksAreApproved ==
  /\ \A l \in link : ApprovedPair(l)
  /\ \A c \in Calls : \A l \in tx[c].new : ApprovedPair(l)

\* The inductive invariant.
LinkInv ==
  /\ LinkTypes
  /\ CallsAreApproved
  /\ LinksAreApproved

LEMMA LinkInitInv == GitHub!Init => LinkInv
BY DEF GitHub!Init, GitHub!NoCall, GitHub!NoRows, GitHub!InTransaction, Rows,
       LinkInv, LinkTypes, CallsAreApproved, LinksAreApproved

\* What was handed out and approved stays: then what follows from it stays.
LEMMA LinkKept ==
  ASSUME LinkInv, UNCHANGED <<call, link, tx>>,
         \A s \in States : flow[s] # None => flow'[s] = flow[s],
         \A s \in States : approved[s] # None => approved'[s] = approved[s],
         LinkTypes'
  PROVE  LinkInv'
<1>1. CallsAreApproved'
  BY DEF LinkInv, CallsAreApproved, GitHub!InTransaction
<1>2. \A l : ApprovedPair(l) => ApprovedPair(l)'
  BY DEF ApprovedPair
<1>3. LinksAreApproved'
  BY <1>2 DEF LinkInv, LinksAreApproved
<1> QED
  BY <1>1, <1>3 DEF LinkInv

\* The row a transaction is about to create.
LEMMA PairIsApproved ==
  ASSUME LinkInv, NEW c \in Calls, call[c].step \in GitHub!InTransaction
  PROVE  GitHub!Pair(c) \in Rows /\ ApprovedPair(GitHub!Pair(c))
<1>1. /\ call[c].state \in States /\ flow[call[c].state] # None
      /\ flow[call[c].state].wallet = call[c].wallet /\ approved[call[c].state] # None
  BY DEF LinkInv, CallsAreApproved
<1>2. call[c].wallet \in Wallets /\ approved[call[c].state] \in Accounts
  BY <1>1 DEF LinkInv, LinkTypes, GitHub!Flow
<1> QED
  BY <1>1, <1>2 DEF GitHub!Pair, GitHub!getGitHubUser, Rows, ApprovedPair

\* A step within a transaction: only committed and approved rows matter.
LEMMA TransactionKept ==
  ASSUME LinkInv, NEW c \in Calls, call[c].step \in GitHub!InTransaction,
         NEW t \in GitHub!InTransaction \cup {"linked", "failed"},
         call' = [call EXCEPT ![c].step = t],
         UNCHANGED <<linkNow, session, flow, approved>>,
         NEW q \in [gone : SUBSET Rows, new : SUBSET Rows], tx' = [tx EXCEPT ![c] = q],
         \A l \in q.new : ApprovedPair(l),
         link' \subseteq link \cup tx[c].new
  PROVE  LinkInv'
<1>1. LinkTypes'
  BY DEF LinkInv, LinkTypes
<1>2. CallsAreApproved'
  BY DEF LinkInv, CallsAreApproved
<1>3. \A l : ApprovedPair(l)' <=> ApprovedPair(l)
  BY DEF ApprovedPair
<1>4. \A d \in Calls : tx'[d] = IF d = c THEN q ELSE tx[d]
  BY DEF LinkInv, LinkTypes
<1>5. LinksAreApproved'
  BY <1>3, <1>4 DEF LinkInv, LinksAreApproved
<1> QED
  BY <1>1, <1>2, <1>5 DEF LinkInv

LEMMA LinkStepInv == LinkInv /\ [GitHub!Next]_(GitHub!vars) => LinkInv'
<1> SUFFICES ASSUME LinkInv, [GitHub!Next]_(GitHub!vars) PROVE LinkInv'
  OBVIOUS
<1>1. CASE UNCHANGED GitHub!vars
  BY <1>1, LinkKept DEF GitHub!vars, LinkInv, LinkTypes
<1>2. ASSUME NEW b \in Browsers, GitHub!SignIn(b)
      PROVE  LinkInv'
  BY <1>2, LinkKept DEF GitHub!SignIn, LinkInv, LinkTypes
<1>3. ASSUME NEW b \in Browsers, NEW s \in States, GitHub!StartFlow(b, s)
      PROVE  LinkInv'
  BY <1>3, LinkKept DEF GitHub!StartFlow, GitHub!signOAuthState, LinkInv, LinkTypes, GitHub!Flow
<1>4. ASSUME NEW s \in States, NEW a \in Accounts, GitHub!Approve(s, a)
      PROVE  LinkInv'
  BY <1>4, LinkKept DEF GitHub!Approve, LinkInv, LinkTypes
<1>5. ASSUME NEW c \in Calls, NEW s \in States, GitHub!Callback(c, s)
      PROVE  LinkInv'
  <2>1. LinkTypes' /\ LinksAreApproved'
    BY <1>5 DEF GitHub!Callback, LinkInv, LinkTypes, LinksAreApproved, ApprovedPair
  <2>2. CallsAreApproved'
    BY <1>5 DEF GitHub!Callback, GitHub!HasCode, GitHub!verifyOAuthState, GitHub!InTransaction,
                LinkInv, LinkTypes, CallsAreApproved, GitHub!Flow
  <2> QED
    BY <2>1, <2>2 DEF LinkInv
<1>6. ASSUME NEW c \in Calls, GitHub!CookieCleared(c)
      PROVE  LinkInv'
  BY <1>6, LinkKept DEF GitHub!CookieCleared, LinkInv, LinkTypes
<1>7. ASSUME NEW c \in Calls, GitHub!Exchange(c)
      PROVE  LinkInv'
  <2>1. LinkTypes' /\ LinksAreApproved'
    BY <1>7 DEF GitHub!Exchange, LinkInv, LinkTypes, LinksAreApproved, ApprovedPair
  <2>2. PICK t \in {"unlinkWallet", "failed"} : call' = [call EXCEPT ![c].step = t]
    BY <1>7 DEF GitHub!Exchange
  <2>3. call[c].step = "exchange" /\ UNCHANGED <<flow, approved>>
    BY <1>7 DEF GitHub!Exchange
  <2>4. CallsAreApproved'
    BY <2>2, <2>3 DEF GitHub!InTransaction, LinkInv, CallsAreApproved
  <2> QED
    BY <2>1, <2>4 DEF LinkInv
<1>8. ASSUME NEW c \in Calls, call[c].step \in GitHub!InTransaction
      PROVE  /\ tx[c] \in [gone : SUBSET Rows, new : SUBSET Rows]
             /\ GitHub!NoRows \in [gone : SUBSET Rows, new : SUBSET Rows]
             /\ \A l \in tx[c].new : ApprovedPair(l)
  BY <1>8 DEF LinkInv, LinkTypes, LinksAreApproved, GitHub!NoRows
<1>9. ASSUME NEW c \in Calls, GitHub!UnlinkWallet(c) \/ GitHub!UnlinkAccount(c)
      PROVE  LinkInv'
  <2>1. PICK rows \in SUBSET Rows, t \in GitHub!InTransaction :
          GitHub!Unlink(c, rows) /\ call' = [call EXCEPT ![c].step = t]
    BY <1>9 DEF GitHub!UnlinkWallet, GitHub!UnlinkAccount, GitHub!InTransaction, LinkInv, LinkTypes
  <2>2. call[c].step \in GitHub!InTransaction
    BY <1>9 DEF GitHub!UnlinkWallet, GitHub!UnlinkAccount, GitHub!InTransaction
  <2> DEFINE q == [tx[c] EXCEPT !.gone = @ \cup rows]
  <2>3. q \in [gone : SUBSET Rows, new : SUBSET Rows] /\ q.new = tx[c].new
    BY <1>8, <2>2
  <2>4. tx' = [tx EXCEPT ![c] = q] /\ UNCHANGED <<linkNow, session, flow, approved, link>>
    BY <2>1 DEF GitHub!Unlink
  <2> HIDE DEF q
  <2> QED
    BY <1>8, <2>1, <2>2, <2>3, <2>4, TransactionKept
<1>10. ASSUME NEW c \in Calls, GitHub!Create(c)
       PROVE  LinkInv'
  <2>1. call[c].step \in GitHub!InTransaction /\ "commit" \in GitHub!InTransaction
    BY <1>10 DEF GitHub!Create, GitHub!InTransaction
  <2> DEFINE q == [tx[c] EXCEPT !.new = {GitHub!Pair(c)}]
  <2>2. q \in [gone : SUBSET Rows, new : SUBSET Rows] /\ q.new = {GitHub!Pair(c)}
    BY <1>8, <2>1, PairIsApproved
  <2>3. \A l \in q.new : ApprovedPair(l)
    BY <2>1, <2>2, PairIsApproved
  <2>4. /\ tx' = [tx EXCEPT ![c] = q] /\ UNCHANGED <<linkNow, session, flow, approved, link>>
        /\ call' = [call EXCEPT ![c].step = "commit"]
    BY <1>10 DEF GitHub!Create
  <2> HIDE DEF q
  <2> QED
    BY <2>1, <2>2, <2>3, <2>4, TransactionKept
<1>11. ASSUME NEW c \in Calls, GitHub!Commit(c) \/ GitHub!Rollback(c)
       PROVE  LinkInv'
  <2>1. call[c].step \in GitHub!InTransaction
    BY <1>11 DEF GitHub!Commit, GitHub!Rollback, GitHub!InTransaction
  <2>2. PICK t \in {"linked", "failed"} : call' = [call EXCEPT ![c].step = t]
    BY <1>11 DEF GitHub!Commit, GitHub!Rollback
  <2>3. /\ tx' = [tx EXCEPT ![c] = GitHub!NoRows] /\ link' \subseteq link \cup tx[c].new
        /\ UNCHANGED <<linkNow, session, flow, approved>>
    BY <1>11 DEF GitHub!Commit, GitHub!Rollback
  <2>4. \A l \in GitHub!NoRows.new : ApprovedPair(l)
    BY DEF GitHub!NoRows
  <2> QED
    BY <1>8, <2>1, <2>2, <2>3, <2>4, TransactionKept
<1>12. ASSUME GitHub!Tick
       PROVE  LinkInv'
  BY <1>12, LinkKept DEF GitHub!Tick, LinkInv, LinkTypes
<1> QED
  BY <1>1, <1>2, <1>3, <1>4, <1>5, <1>6, <1>7, <1>9, <1>10, <1>11, <1>12 DEF GitHub!Next

\* A link row names a wallet that started a flow and the account that approved
\* that very flow, for any number of browsers and requests: the callback compares
\* the wallet of the signed state with the session it has just read, and
\* commits under that wallet whatever the session is by then.
THEOREM LinksFollowStarts == GitHub!Spec => []LinkFollowsStart
<1>1. LinkInv => LinkFollowsStart
  BY DEF LinkInv, LinksAreApproved, ApprovedPair, LinkFollowsStart, GitHub!LinkFollowsStart
<1> QED
  BY <1>1, LinkInitInv, LinkStepInv, PTL DEF GitHub!Spec

\* What the locks and the unique keys keep: no two transactions delete one row,
\* and the rows under way clash with nothing that will be there when they commit.
RowsAreLocked ==
  /\ \A c \in Calls : tx[c].gone \subseteq link
  /\ \A c, d \in Calls : c # d => tx[c].gone \cap tx[d].gone = {}

NewRowsAreUnique ==
  /\ \A c \in Calls : \A m, n \in tx[c].new : m = n
  /\ \A c \in Calls : \A m \in tx[c].new, l \in link \ tx[c].gone : ~GitHub!Clash(l, m)
  /\ \A c, d \in Calls : c # d =>
       \A m \in tx[c].new, n \in tx[d].new : ~GitHub!Clash(m, n)

\* The inductive invariant.
OneLinkInv ==
  /\ RowsAreLocked
  /\ NewRowsAreUnique
  /\ GitHub!OneLinkEach

LEMMA OneLinkStep == LinkInv /\ OneLinkInv /\ [GitHub!Next]_(GitHub!vars) => OneLinkInv'
<1> SUFFICES ASSUME LinkInv, OneLinkInv, [GitHub!Next]_(GitHub!vars) PROVE OneLinkInv'
  OBVIOUS
<1> USE DEF OneLinkInv, RowsAreLocked, NewRowsAreUnique, GitHub!OneLinkEach
<1>1. tx \in [Calls -> [gone : SUBSET Rows, new : SUBSET Rows]]
  BY DEF LinkInv, LinkTypes
<1>2. \A l, m : GitHub!Clash(l, m) <=> GitHub!Clash(m, l)
  BY DEF GitHub!Clash
<1>3. CASE UNCHANGED <<link, tx>>
  BY <1>3
<1>4. ASSUME NEW c \in Calls, GitHub!UnlinkWallet(c) \/ GitHub!UnlinkAccount(c)
      PROVE  OneLinkInv'
  <2>1. PICK rows \in SUBSET link : GitHub!Unlink(c, rows)
    BY <1>4 DEF GitHub!UnlinkWallet, GitHub!UnlinkAccount
  <2>2. /\ tx'[c].gone = tx[c].gone \cup rows /\ tx'[c].new = tx[c].new
        /\ \A d \in Calls : d # c => tx'[d] = tx[d] /\ rows \cap tx[d].gone = {}
        /\ link' = link
    BY <1>1, <2>1 DEF GitHub!Unlink, GitHub!Others
  <2> QED
    BY <2>1, <2>2
<1>5. ASSUME NEW c \in Calls, GitHub!Create(c)
      PROVE  OneLinkInv'
  <2>1. /\ tx'[c].gone = tx[c].gone /\ tx'[c].new = {GitHub!Pair(c)}
        /\ \A d \in Calls : d # c => tx'[d] = tx[d]
        /\ link' = link
    BY <1>1, <1>5 DEF GitHub!Create
  <2>2. /\ \A l \in link \ tx[c].gone : ~GitHub!Clash(l, GitHub!Pair(c))
        /\ \A d \in Calls : d # c => \A l \in tx[d].new : ~GitHub!Clash(l, GitHub!Pair(c))
    BY <1>5 DEF GitHub!Create, GitHub!Duplicates, GitHub!Others
  <2> QED
    BY <1>2, <2>1, <2>2
<1>6. ASSUME NEW c \in Calls, GitHub!Commit(c)
      PROVE  OneLinkInv'
  <2>1. /\ tx'[c].gone = {} /\ tx'[c].new = {}
        /\ \A d \in Calls : d # c => tx'[d] = tx[d]
        /\ link' = (link \ tx[c].gone) \cup tx[c].new
    BY <1>1, <1>6 DEF GitHub!Commit, GitHub!NoRows
  <2>2. RowsAreLocked'
    BY <2>1
  <2>3. NewRowsAreUnique'
    BY <1>2, <2>1
  <2>4. GitHub!OneLinkEach'
    BY <1>2, <2>1
  <2> QED
    BY <2>2, <2>3, <2>4
<1>7. ASSUME NEW c \in Calls, GitHub!Rollback(c)
      PROVE  OneLinkInv'
  <2>1. /\ tx'[c].gone = {} /\ tx'[c].new = {}
        /\ \A d \in Calls : d # c => tx'[d] = tx[d]
        /\ link' = link
    BY <1>1, <1>7 DEF GitHub!Rollback, GitHub!NoRows
  <2> QED
    BY <2>1
<1>8. CASE \/ UNCHANGED GitHub!vars \/ GitHub!Tick
           \/ \E b \in Browsers : GitHub!SignIn(b) \/ \E s \in States : GitHub!StartFlow(b, s)
           \/ \E s \in States, a \in Accounts : GitHub!Approve(s, a)
           \/ \E c \in Calls, s \in States : GitHub!Callback(c, s)
           \/ \E c \in Calls : GitHub!CookieCleared(c) \/ GitHub!Exchange(c)
  BY <1>3, <1>8 DEF GitHub!vars, GitHub!Tick, GitHub!SignIn, GitHub!StartFlow, GitHub!Approve,
                    GitHub!Callback, GitHub!CookieCleared, GitHub!Exchange
<1> QED
  BY <1>4, <1>5, <1>6, <1>7, <1>8 DEF GitHub!Next

LEMMA OneLinkInit == GitHub!Init => OneLinkInv
BY DEF GitHub!Init, GitHub!NoRows, OneLinkInv, RowsAreLocked, NewRowsAreUnique, GitHub!OneLinkEach

\* Any number of callbacks, their transactions interleaved statement by
\* statement, waiting, refused or rolled back at any point, leave every wallet
\* one GitHub account at most and every account one wallet.
THEOREM LinksAreOneToOne == GitHub!Spec => []OneLinkEach
<1>1. OneLinkInv => OneLinkEach
  BY DEF OneLinkInv, OneLinkEach
<1> QED
  BY <1>1, OneLinkInit, LinkInitInv, LinkStepInv, OneLinkStep, PTL DEF GitHub!Spec

(***************************************************************************)
(* The earnings dashboard.                                                 *)
(***************************************************************************)

\* What the server rendered: rows that were recorded for the page's own wallet.
PageIsScoped ==
  page = None \/ /\ page = [wallet |-> page.wallet, rows |-> page.rows]
                 /\ page.rows \in SUBSET Payouts
                 /\ \A p \in page.rows : WalletOf[p] = page.wallet

\* The inductive invariant.
EarnedInv == recorded \subseteq Payouts /\ PageIsScoped

LEMMA RenderedIsScoped ==
  ASSUME EarnedInv, NEW w, Earned!Rendered(w)
  PROVE  PageIsScoped'
<1>1. PICK rows \in {Earned!getParticipantEarnings(w), {}} : page' = [wallet |-> w, rows |-> rows]
  BY DEF Earned!Rendered
<1>2. rows \subseteq Payouts /\ \A p \in rows : WalletOf[p] = w
  BY DEF Earned!getParticipantEarnings, EarnedInv
<1> QED
  BY <1>1, <1>2 DEF PageIsScoped

LEMMA EarnedStepInv == EarnedInv /\ [Earned!Next]_(Earned!vars) => EarnedInv'
<1> SUFFICES ASSUME EarnedInv, [Earned!Next]_(Earned!vars) PROVE EarnedInv'
  OBVIOUS
<1>1. CASE UNCHANGED Earned!vars
  BY <1>1 DEF Earned!vars, Earned!dashboard, EarnedInv, PageIsScoped
<1>2. ASSUME NEW ps \in SUBSET Payouts, Earned!RecordPayouts(ps) \/ Earned!Search(ps)
      PROVE  EarnedInv'
  BY <1>2 DEF Earned!RecordPayouts, Earned!Search, Earned!dashboard, EarnedInv, PageIsScoped
<1>3. CASE Earned!OpenPage \/ Earned!Rehydrate
  BY <1>3 DEF Earned!OpenPage, Earned!Rehydrate, EarnedInv, PageIsScoped
<1>4. CASE Earned!EarningsPage \/ Earned!OpenWithoutSession
  BY <1>4, RenderedIsScoped DEF Earned!EarningsPage, Earned!OpenWithoutSession, EarnedInv
<1>5. ASSUME NEW w \in Wallets, Earned!ConnectWallet(w) \/ Earned!OtherTab(w)
      PROVE  EarnedInv'
  BY <1>5, RenderedIsScoped
     DEF Earned!ConnectWallet, Earned!OtherTab, Earned!dashboard, EarnedInv, PageIsScoped
<1>6. CASE Earned!DisconnectWallet
  <2>1. recorded' = recorded /\ (Earned!Rendered(None) \/ page' = page)
    BY <1>6 DEF Earned!DisconnectWallet
  <2> QED
    BY <2>1, RenderedIsScoped DEF EarnedInv, PageIsScoped
<1> QED
  BY <1>1, <1>2, <1>3, <1>4, <1>5, <1>6 DEF Earned!Next

LEMMA EarnedAlways == Earned!Spec => []EarnedInv
<1>1. Earned!Init => EarnedInv
  BY DEF Earned!Init, EarnedInv, PageIsScoped
<1> QED
  BY <1>1, EarnedStepInv, PTL DEF Earned!Spec

\* The rows handed to a browser belong to the wallet the page was rendered for,
\* for any tabs that change the cookie between the session read and the query:
\* the query is given the wallet that was read.
THEOREM RowsStayScoped == Earned!Spec => []RowsAreScoped
<1>1. EarnedInv => RowsAreScoped
  BY DEF EarnedInv, PageIsScoped, RowsAreScoped, Earned!RowsAreScoped
<1> QED
  BY <1>1, EarnedAlways, PTL

\* Rounding to dollars, half up, is right to half a dollar. A division by n is
\* written out as the quotient and its bounds.
LEMMA DollarsAreClose ==
  ASSUME NEW t \in Nat, NEW n \in Nat, n > 0
  PROVE  /\ Earned!Dollars(t, n) \in Nat
         /\ n * (10 * Earned!Dollars(t, n) - 5) <= t
         /\ t <= n * (10 * Earned!Dollars(t, n) + 5)
<1> DEFINE a == 2 * t + 10 * n
           b == 20 * n
           q == a \div b
<1>1. a \in Nat /\ b \in Nat /\ b > 0
  OBVIOUS
<1>2. q \in Nat /\ b * q <= a /\ a < b * q + b
  <2> HIDE DEF a, b
  <2> QED
    BY <1>1
<1>3. Earned!Dollars(t, n) = q
  BY DEF Earned!Dollars
<1> HIDE DEF q
<1>4. PICK m \in Nat : m = n * q
  BY <1>2
<1>5. b * q = 20 * m
  BY <1>2, <1>4
<1>6. n * (10 * q - 5) = 10 * m - 5 * n /\ n * (10 * q + 5) = 10 * m + 5 * n
  BY <1>2, <1>4
<1> QED
  BY <1>2, <1>3, <1>4, <1>5, <1>6

\* The amount of finitely many rows is a natural number.
LEMMA AmountType ==
  ASSUME NEW rows, rows \in SUBSET Payouts
  PROVE  Earned!AmountOf(rows) \in Nat
<1> DEFINE f == [p \in rows |-> Amount[p]]
<1>1. IsFiniteSet(rows) /\ f \in [rows -> Nat]
  <2>1. IsFiniteSet(Payouts)
    BY BrowserPagesAssumption, Zenon
       DEF Earned!EarningsAssumption, Earned!IsFiniteSet, IsFiniteSet
  <2>2. IsFiniteSet(rows)
    BY <2>1, FS_Subset
  <2> QED
    BY <2>2, BrowserPagesAssumption DEF Earned!EarningsAssumption
<1>2. Total(f) \in Nat
  BY <1>1, TotalType
<1>3. Earned!Total(f) = Total(f)
  BY Zenon DEF Earned!Total, Total, Earned!Units, Units, Earned!UnitsOf, UnitsOf,
               Earned!Cardinality, Cardinality
<1> QED
  BY <1>2, <1>3 DEF Earned!AmountOf

\* The figures of the dashboard for a page with rows are close.
LEMMA SummaryIsClose == EarnedInv => SummaryIsExact
<1> SUFFICES ASSUME EarnedInv, Earned!EarningsDashboard.state # "connect", page.rows # {}
             PROVE  LET total == Earned!AmountOf(page.rows)
                        s == Earned!EarningsDashboard.summary
                        n == Earned!Cardinality(page.rows)
                    IN  /\ 10 * s.total - 5 <= total /\ total <= 10 * s.total + 5
                        /\ n * (10 * s.average - 5) <= total /\ total <= n * (10 * s.average + 5)
  BY DEF SummaryIsExact, Earned!SummaryIsExact
<1> DEFINE total == Earned!AmountOf(page.rows)
           n == Earned!Cardinality(page.rows)
<1>1. Earned!activeAddress # None
  BY DEF Earned!EarningsDashboard
<1>2. page # None
  BY <1>1 DEF Earned!activeAddress
<1>3. page.rows \in SUBSET Payouts
  BY <1>2 DEF EarnedInv, PageIsScoped
<1>4. total \in Nat
  BY <1>3, AmountType
<1>5. n \in Nat /\ n > 0
  <2>1. IsFiniteSet(Payouts)
    BY BrowserPagesAssumption, Zenon
       DEF Earned!EarningsAssumption, Earned!IsFiniteSet, IsFiniteSet
  <2>2. IsFiniteSet(page.rows)
    BY <1>3, <2>1, FS_Subset
  <2>3. Cardinality(page.rows) \in Nat /\ Cardinality(page.rows) # 0
    BY <2>2, FS_CardinalityType, FS_EmptySet
  <2>4. Earned!Cardinality(page.rows) = Cardinality(page.rows)
    BY Zenon DEF Earned!Cardinality, Cardinality
  <2> QED
    BY <2>3, <2>4
<1>6. Earned!EarningsDashboard.summary = Earned!calculateEarningsSummary(page.rows)
  BY <1>1 DEF Earned!EarningsDashboard
<1>7. /\ Earned!EarningsDashboard.summary.total = Earned!Dollars(total, 1)
      /\ Earned!EarningsDashboard.summary.average = Earned!Dollars(total, n)
  BY <1>6 DEF Earned!calculateEarningsSummary
<1> HIDE DEF total, n
<1>8. /\ 1 * (10 * Earned!Dollars(total, 1) - 5) <= total
      /\ total <= 1 * (10 * Earned!Dollars(total, 1) + 5)
      /\ Earned!Dollars(total, 1) \in Nat
  BY <1>4, DollarsAreClose
<1>9. /\ n * (10 * Earned!Dollars(total, n) - 5) <= total
      /\ total <= n * (10 * Earned!Dollars(total, n) + 5)
  BY <1>4, <1>5, DollarsAreClose
<1> QED
  BY <1>7, <1>8, <1>9 DEF total, n

\* Whatever payouts a page holds, the dollars shown as total and as average are
\* the true figures to half a dollar: both are rounded from the exact sum.
THEOREM SummariesAreExact == Earned!Spec => []SummaryIsExact
  BY SummaryIsClose, EarnedAlways, PTL

(***************************************************************************)
(* The service worker.                                                     *)
(***************************************************************************)

\* Only a fetch that is started, or one that ends, gives the page an answer; the
\* first-cached way is not for navigations, and a fall back to the cache says
\* that the fetch had failed.
LEMMA NavigationStep ==
  ASSUME Worker!Next, answer' # answer, answer'.navigate, ~answer'.failed,
         answer'.content # "error"
  PROVE  answer'.version = latest
<1> USE DEF Worker!Given
<1>1. PICK r \in Requests :
        \/ \E f \in Fetches : Worker!Start(r, f.url, f.navigate)
        \/ Worker!Succeed(r) \/ Worker!Refuse(r) \/ Worker!Fail(r) \/ Worker!AnswerFromCache(r)
  BY DEF Worker!Next, Worker!registerServiceWorker, Worker!Install, Worker!clearDevServiceWorkers,
         Worker!SiteChanges, Worker!Put, Worker!LosePut
<1>2. ASSUME NEW f \in Fetches, Worker!Start(r, f.url, f.navigate)
      PROVE  FALSE
  <2>1. ~f.navigate /\ answer'.navigate = f.navigate
    BY <1>2 DEF Worker!Start, Worker!CachedFirst
  <2> QED
    BY <2>1
<1>3. CASE Worker!Succeed(r)
  BY <1>3 DEF Worker!Succeed
<1>4. CASE Worker!Refuse(r)
  BY <1>4 DEF Worker!Refuse
<1>5. CASE Worker!Fail(r)
  BY <1>5 DEF Worker!Fail
<1>6. CASE Worker!AnswerFromCache(r)
  BY <1>6 DEF Worker!AnswerFromCache, Worker!Fallback
<1> QED
  BY <1>1, <1>2, <1>3, <1>4, <1>5, <1>6

\* A navigation the server answered shows what the server had at that moment,
\* for any versions, fetches and late writes: a stored copy answers one only
\* after its fetch failed.
THEOREM NavigationsAreFresh == Worker!Spec => NavigationIsFresh
<1>1. Worker!Next =>
        (answer' # answer /\ answer'.navigate /\ ~answer'.failed /\ answer'.content # "error" =>
           answer'.version = latest)
  BY NavigationStep
<1> QED
  BY <1>1, PTL DEF Worker!Spec, NavigationIsFresh, Worker!NavigationIsFresh

(***************************************************************************)
(* The types of every part.                                                *)
(***************************************************************************)

\* What the types of the session say beside SessionTypes.
SessionPage ==
  /\ now \in 0..MaxTime
  /\ \A r \in Requests : request[r].step \in {"delete", "wallet", "user"} => request[r].entry # None
  /\ wallets \subseteq Wallets /\ users \in Nat
  /\ {cookie, read, shown} \subseteq Wallets \cup {None}
  /\ inflight \in {"none", "rehydrate", "answer", "associate"}
  /\ read # None => inflight = "answer"
  /\ {foreign, mustClear} \subseteq BOOLEAN

\* What the server threads do to the accounts.
LEMMA ServerPage ==
  ASSUME NonceInv, SessionPage, NEW r \in Requests, Wallet!ServerStep(r)
  PROVE  SessionPage'
<1> USE DEF Wallet!server, Wallet!jar, Wallet!browser
<1>1. /\ request \in [Requests -> [step : {"none", "find", "delete", "wallet", "user", "done", "failed"},
                                   msg : Wallet!Message \cup {None},
                                   entry : Wallet!Row \cup {None}, tab : BOOLEAN]]
      /\ \A q \in Requests : request[q].step # "none" => request[q].msg \in Wallet!Message
  BY DEF NonceInv, SessionTypes
<1>2. CASE Wallet!Redeliver(r)
  BY <1>1, <1>2 DEF Wallet!Redeliver, Wallet!Start, SessionPage
<1>3. CASE Wallet!FindNonce(r)
  BY <1>1, <1>3 DEF Wallet!FindNonce, SessionPage
<1>4. CASE Wallet!DeleteNonce(r)
  BY <1>1, <1>4 DEF Wallet!DeleteNonce, SessionPage
<1>5. CASE Wallet!FindWallet(r)
  BY <1>1, <1>5 DEF Wallet!FindWallet, SessionPage
<1>6. CASE Wallet!CreateWallet(r)
  <2>1. request[r].msg.address \in Wallets
    BY <1>1, <1>6 DEF Wallet!CreateWallet, Wallet!Message
  <2> QED
    BY <1>1, <1>6, <2>1 DEF Wallet!CreateWallet, SessionPage
<1> QED
  BY <1>2, <1>3, <1>4, <1>5, <1>6 DEF Wallet!ServerStep

\* What the tab and the clock do.
LEMMA SessionPageStep ==
  NonceInv /\ ShownHasCookie /\ SessionPage /\ [Wallet!Next]_(Wallet!vars) => SessionPage'
<1> SUFFICES ASSUME NonceInv, ShownHasCookie, SessionPage, [Wallet!Next]_(Wallet!vars) PROVE SessionPage'
  OBVIOUS
<1> USE DEF Wallet!server, Wallet!jar, Wallet!browser
<1>1. /\ request \in [Requests -> [step : {"none", "find", "delete", "wallet", "user", "done", "failed"},
                                   msg : Wallet!Message \cup {None},
                                   entry : Wallet!Row \cup {None}, tab : BOOLEAN]]
      /\ tab.phase = "associate" => tab.address \in Wallets
  BY DEF NonceInv, SessionTypes
<1>2. CASE UNCHANGED Wallet!vars
  BY <1>2 DEF Wallet!vars, SessionPage
<1>3. ASSUME NEW n \in Nonces, NEW a \in Wallets, Wallet!NonceRoute(n, a)
      PROVE  SessionPage'
  BY <1>3 DEF Wallet!NonceRoute, SessionPage
<1>4. ASSUME NEW r \in Requests, Wallet!ServerStep(r)
      PROVE  SessionPage'
  BY <1>4, ServerPage
<1>5. ASSUME NEW r \in Requests, Wallet!Associated(r)
      PROVE  SessionPage'
  <2>1. /\ cookie' = tab.address /\ shown' = tab.address /\ tab.address \in Wallets
        /\ foreign' = FALSE /\ inflight' = "none"
        /\ UNCHANGED <<now, wallets, users, mustClear>>
    BY <1>1, <1>5 DEF Wallet!Associated
  <2>2. read' = None
    BY <1>5 DEF Wallet!Associated, SessionPage, ShownHasCookie
  <2>3. \A q \in Requests : request'[q].step = request[q].step /\ request'[q].entry = request[q].entry
    BY <1>1, <1>5 DEF Wallet!Associated
  <2> QED
    BY <2>1, <2>2, <2>3 DEF SessionPage
<1>6. ASSUME request' = [r \in Requests |-> [request[r] EXCEPT !.tab = FALSE]]
      PROVE  \A r \in Requests : request'[r].step = request[r].step /\ request'[r].entry = request[r].entry
  BY <1>1, <1>6
<1>7. CASE Wallet!Reload
  BY <1>6, <1>7 DEF Wallet!Reload, SessionPage
<1>8. CASE Wallet!ConnectFails
  <2>1. cookie' \in Wallets \cup {None} /\ foreign' \in BOOLEAN
    <3>1. CASE UNCHANGED Wallet!jar
      BY <3>1 DEF SessionPage
    <3>2. CASE tab.phase = "associate" /\ cookie' = tab.address /\ foreign' = FALSE
      BY <1>1, <3>2
    <3> QED
      BY <1>8, <3>1, <3>2 DEF Wallet!ConnectFails
  <2> QED
    BY <1>6, <1>8, <2>1 DEF Wallet!ConnectFails, SessionPage
<1>9. CASE Wallet!ReadSession \/ Wallet!Rehydrated \/ \E a \in Wallets \cup {None} : Wallet!OtherTab(a)
  <2>1. CASE Wallet!ReadSession
    BY <2>1 DEF Wallet!ReadSession, Wallet!getSessionWallet, SessionPage
  <2>2. CASE Wallet!Rehydrated
    BY <2>2 DEF Wallet!Rehydrated, SessionPage
  <2>3. ASSUME NEW a \in Wallets \cup {None}, Wallet!OtherTab(a)
        PROVE  SessionPage'
    <3>1. foreign' \in BOOLEAN
      BY <2>3, Zenon DEF Wallet!OtherTab
    <3>2. /\ cookie' \in Wallets \cup {None} /\ wallets' \subseteq Wallets /\ users' \in Nat
          /\ UNCHANGED <<now, request, inflight, read, mustClear, shown>>
      BY <2>3 DEF Wallet!OtherTab, SessionPage
    <3> QED
      BY <3>1, <3>2 DEF SessionPage
  <2> QED
    BY <1>9, <2>1, <2>2, <2>3
<1>10. CASE Wallet!Connect \/ Wallet!ModalAnswered \/ Wallet!getAuthNonce
  BY <1>10 DEF Wallet!Connect, Wallet!ModalAnswered, Wallet!getAuthNonce, SessionPage
<1>11. CASE Wallet!Signed
  <2>1. PICK by \in Wallets, r \in Requests :
          Wallet!Start(r, [address |-> tab.address, nonce |-> tab.nonce, by |-> by], TRUE)
    BY <1>11 DEF Wallet!Signed
  <2> QED
    BY <1>1, <1>11, <2>1 DEF Wallet!Signed, Wallet!Start, Wallet!Free, SessionPage
<1>12. CASE Wallet!CleanUp \/ Wallet!Disconnect \/ Wallet!ClearQueued \/ Wallet!ExtensionDisconnects
  BY <1>12 DEF Wallet!CleanUp, Wallet!Disconnect, Wallet!ClearQueued, Wallet!ExtensionDisconnects,
               Wallet!Cleared, Wallet!Free, SessionPage
<1>13. CASE Wallet!Tick
  BY <1>13, BrowserPagesAssumption DEF Wallet!Tick, Wallet!SessionAssumption, SessionPage
<1> QED
  BY <1>2, <1>3, <1>4, <1>5, <1>7, <1>8, <1>9, <1>10, <1>11, <1>12, <1>13 DEF Wallet!Next

\* Every step of the session keeps its types.
LEMMA SessionTyped == Wallet!Spec => []Wallet!TypeOK
<1>1. ASSUME Wallet!Init PROVE SessionPage
  <2>1. \A r \in Requests : request[r].step = "none"
    BY <1>1 DEF Wallet!Init, Wallet!NoRequest
  <2>2. now \in 0..MaxTime
    BY <1>1, BrowserPagesAssumption DEF Wallet!Init, Wallet!SessionAssumption
  <2> QED
    BY <1>1, <2>1, <2>2 DEF Wallet!Init, SessionPage
<1>2. NonceInv /\ SessionPage => Wallet!TypeOK
  BY DEF NonceInv, SessionTypes, SessionPage, Wallet!TypeOK
<1> QED
  BY NonceInitInv, NonceStepInv, ShownInit, ShownStep, SessionPageStep, <1>1, <1>2, PTL DEF Wallet!Spec

\* What the types of the link say beside LinkTypes.
LinkPage ==
  /\ linkNow \in 0..MaxTime
  /\ oauthCookie \in [Browsers -> States \cup {None}]
  /\ spent \subseteq States
  /\ \A c \in Calls : call[c].step # "none" => call[c].wallet \in Wallets
  /\ \A c \in Calls : call[c].step \notin GitHub!InTransaction => tx[c] = GitHub!NoRows

LEMMA LinkPageStep == LinkInv /\ LinkPage /\ [GitHub!Next]_(GitHub!vars) => LinkPage'
<1> SUFFICES ASSUME LinkInv, LinkPage, [GitHub!Next]_(GitHub!vars) PROVE LinkPage'
  OBVIOUS
<1>1. LinkTypes /\ CallsAreApproved
  BY DEF LinkInv
<1>2. CASE UNCHANGED GitHub!vars
  BY <1>2 DEF GitHub!vars, LinkPage
<1>3. ASSUME NEW b \in Browsers, GitHub!SignIn(b)
      PROVE  LinkPage'
  BY <1>3 DEF GitHub!SignIn, LinkPage
<1>4. ASSUME NEW b \in Browsers, NEW s \in States, GitHub!StartFlow(b, s)
      PROVE  LinkPage'
  BY <1>4 DEF GitHub!StartFlow, LinkPage
<1>5. ASSUME NEW s \in States, NEW a \in Accounts, GitHub!Approve(s, a)
      PROVE  LinkPage'
  BY <1>5 DEF GitHub!Approve, LinkPage
<1>6. ASSUME NEW c \in Calls, NEW s \in States, GitHub!Callback(c, s)
      PROVE  LinkPage'
  <2>1. flow[s].browser \in Browsers
    BY <1>1, <1>6 DEF GitHub!Callback, LinkTypes, GitHub!Flow
  <2>2. session[flow[s].browser] \in Wallets
    BY <1>1, <1>6, <2>1 DEF GitHub!Callback, LinkTypes
  <2> QED
    BY <1>1, <1>6, <2>2 DEF GitHub!Callback, GitHub!InTransaction, LinkPage, CallsAreApproved
<1>7. ASSUME NEW c \in Calls, GitHub!CookieCleared(c)
      PROVE  LinkPage'
  BY <1>7 DEF GitHub!CookieCleared, LinkPage
<1>8. ASSUME NEW c \in Calls, GitHub!Exchange(c)
      PROVE  LinkPage'
  BY <1>1, <1>8 DEF GitHub!Exchange, GitHub!InTransaction, LinkPage, CallsAreApproved
<1>9. ASSUME NEW c \in Calls,
             GitHub!UnlinkWallet(c) \/ GitHub!UnlinkAccount(c) \/ GitHub!Create(c)
      PROVE  LinkPage'
  <2>1. PICK t \in GitHub!InTransaction : call' = [call EXCEPT ![c].step = t]
    BY <1>9 DEF GitHub!UnlinkWallet, GitHub!UnlinkAccount, GitHub!Create, GitHub!InTransaction
  <2>2. call[c].step # "none"
    BY <1>9 DEF GitHub!UnlinkWallet, GitHub!UnlinkAccount, GitHub!Create
  <2>3. \A d \in Calls : d # c => call'[d] = call[d] /\ tx'[d] = tx[d]
    BY <1>1, <1>9 DEF GitHub!UnlinkWallet, GitHub!UnlinkAccount, GitHub!Unlink, GitHub!Create,
                      LinkTypes, CallsAreApproved
  <2>4. call'[c].step = t /\ call'[c].wallet = call[c].wallet
    BY <1>1, <2>1 DEF CallsAreApproved
  <2> QED
    BY <1>9, <2>1, <2>2, <2>3, <2>4
    DEF GitHub!UnlinkWallet, GitHub!UnlinkAccount, GitHub!Unlink, GitHub!Create, LinkPage
<1>10. ASSUME NEW c \in Calls, GitHub!Commit(c) \/ GitHub!Rollback(c)
       PROVE  LinkPage'
  <2>1. call[c].step # "none"
    BY <1>10 DEF GitHub!Commit, GitHub!Rollback, GitHub!InTransaction
  <2>2. /\ \A d \in Calls : d # c => call'[d] = call[d] /\ tx'[d] = tx[d]
        /\ call'[c].wallet = call[c].wallet /\ tx'[c] = GitHub!NoRows
    BY <1>1, <1>10 DEF GitHub!Commit, GitHub!Rollback, LinkTypes, CallsAreApproved
  <2> QED
    BY <1>10, <2>1, <2>2 DEF GitHub!Commit, GitHub!Rollback, LinkPage
<1>11. CASE GitHub!Tick
  BY <1>11, BrowserPagesAssumption DEF GitHub!Tick, GitHub!LinkAssumption, LinkPage
<1> QED
  BY <1>2, <1>3, <1>4, <1>5, <1>6, <1>7, <1>8, <1>9, <1>10, <1>11 DEF GitHub!Next

\* A call commits the account that was approved for its own state.
LEMMA LinkTyped == GitHub!Spec => []GitHub!TypeOK
<1>1. GitHub!Init => LinkPage
  BY BrowserPagesAssumption DEF GitHub!Init, GitHub!NoCall, GitHub!NoRows, GitHub!InTransaction,
                                GitHub!LinkAssumption, LinkPage
<1>2. LinkInv /\ OneLinkInv /\ LinkPage => GitHub!TypeOK
  <2> SUFFICES ASSUME LinkInv, OneLinkInv, LinkPage PROVE GitHub!TypeOK
    OBVIOUS
  <2>1. tx \in [Calls -> [gone : SUBSET link, new : SUBSET (Wallets \X Accounts)]]
    BY DEF LinkInv, LinkTypes, Rows, OneLinkInv, RowsAreLocked
  <2> QED
    BY <2>1 DEF LinkInv, LinkTypes, Rows, CallsAreApproved, LinkPage, GitHub!TypeOK
<1>3. GitHub!Init => OneLinkInv
  BY OneLinkInit
<1> QED
  BY LinkInitInv, LinkStepInv, OneLinkStep, LinkPageStep, <1>1, <1>2, <1>3, PTL DEF GitHub!Spec

(***************************************************************************)
(* The types of the earnings and of the public profiles.                   *)
(***************************************************************************)

\* What the types of the earnings say beside EarnedInv.
EarnedPage ==
  /\ search \subseteq Payouts
  /\ {walletCookie, connected, loading} \subseteq Wallets \cup {None}
  /\ page = None \/ page \in [wallet : Wallets, rows : SUBSET Payouts]
       \/ page = [wallet |-> None, rows |-> {}]

\* A page rendered for a session holds payouts, and none without a session.
LEMMA RenderedTyped ==
  ASSUME EarnedInv, NEW w \in Wallets \cup {None}, Earned!Rendered(w)
  PROVE  page' \in [wallet : Wallets, rows : SUBSET Payouts]
           \/ page' = [wallet |-> None, rows |-> {}]
<1>1. PICK rows \in {Earned!getParticipantEarnings(w), {}} : page' = [wallet |-> w, rows |-> rows]
  BY DEF Earned!Rendered
<1>2. rows \subseteq Payouts /\ (w = None => rows = {})
  BY DEF Earned!getParticipantEarnings, EarnedInv
<1> QED
  BY <1>1, <1>2

LEMMA EarnedPageStep == EarnedInv /\ EarnedPage /\ [Earned!Next]_(Earned!vars) => EarnedPage'
<1> SUFFICES ASSUME EarnedInv, EarnedPage, [Earned!Next]_(Earned!vars) PROVE EarnedPage'
  OBVIOUS
<1> USE DEF Earned!dashboard
<1>1. CASE UNCHANGED Earned!vars
  BY <1>1 DEF Earned!vars, EarnedPage
<1>2. ASSUME NEW ps \in SUBSET Payouts, Earned!RecordPayouts(ps) \/ Earned!Search(ps)
      PROVE  EarnedPage'
  BY <1>2 DEF Earned!RecordPayouts, Earned!Search, EarnedPage
<1>3. CASE Earned!OpenPage \/ Earned!Rehydrate
  BY <1>3 DEF Earned!OpenPage, Earned!Rehydrate, EarnedPage
<1>4. CASE Earned!EarningsPage
  BY <1>4, RenderedTyped DEF Earned!EarningsPage, EarnedPage
<1>5. CASE Earned!OpenWithoutSession
  BY <1>5, RenderedTyped DEF Earned!OpenWithoutSession, EarnedPage
<1>6. ASSUME NEW w \in Wallets, Earned!ConnectWallet(w) \/ Earned!OtherTab(w)
      PROVE  EarnedPage'
  BY <1>6, RenderedTyped DEF Earned!ConnectWallet, Earned!OtherTab, EarnedPage
<1>7. CASE Earned!DisconnectWallet
  BY <1>7, RenderedTyped DEF Earned!DisconnectWallet, EarnedPage
<1> QED
  BY <1>1, <1>2, <1>3, <1>4, <1>5, <1>6, <1>7 DEF Earned!Next

\* A list is shown under a wallet: the page without a session has no rows.
LEMMA ListHasAddress ==
  ASSUME EarnedPage, Earned!EarningsDashboard.state = "list"
  PROVE  Earned!EarningsDashboard.address \in Wallets
<1>1. /\ Earned!activeAddress # None
      /\ Earned!EarningsDashboard.address = Earned!activeAddress
  BY DEF Earned!EarningsDashboard
<1>2. page # None
  BY <1>1 DEF Earned!activeAddress
<1>3. Earned!activeAddress = IF connected # None THEN connected ELSE page.wallet
  BY <1>2 DEF Earned!activeAddress
<1> QED
  BY <1>1, <1>2, <1>3 DEF EarnedPage

\* The dashboard's state and what it shows keep their types.
LEMMA EarningsTyped == Earned!Spec => []Earned!TypeOK
<1>1. Earned!Init => EarnedPage
  BY DEF Earned!Init, EarnedPage
<1>2. EarnedInv /\ EarnedPage => Earned!TypeOK
  BY ListHasAddress DEF EarnedInv, EarnedPage, Earned!TypeOK
<1> QED
  BY EarnedAlways, EarnedPageStep, <1>1, <1>2, PTL DEF Earned!Spec

\* Logins stay one user's each, and a GitHub user stays linked to one wallet.
LEMMA ProfilesTyped == Profiles!Spec => []Profiles!TypeOK
<1>1. Profiles!Init => Profiles!TypeOK
  BY DEF Profiles!Init, Profiles!NotFound, Profiles!TypeOK
<1>2. ASSUME Profiles!TypeOK, [Profiles!Next]_(Profiles!vars) PROVE Profiles!TypeOK'
  <2> USE DEF Profiles!money
  <2>1. CASE UNCHANGED Profiles!vars
    BY <1>2, <2>1 DEF Profiles!vars, Profiles!TypeOK
  <2>2. ASSUME NEW ps \in SUBSET Offered, Profiles!AssignPrizes(ps)
        PROVE  Profiles!TypeOK'
    BY <1>2, <2>2 DEF Profiles!AssignPrizes, Profiles!TypeOK
  <2>3. CASE Profiles!RecordPayouts
    BY <1>2, <2>3 DEF Profiles!RecordPayouts, Profiles!TypeOK
  <2>4. ASSUME NEW u \in Users, NEW l \in Logins, Profiles!Rename(u, l)
        PROVE  Profiles!TypeOK'
    <3>1. holder \in [Users -> Logins] /\ \A v \in Users : holder[v] # l
      BY <1>2, <2>4 DEF Profiles!Rename, Profiles!TypeOK, Profiles!Range
    <3>2. holder' \in [Users -> Logins] /\ Profiles!IsInjective(holder')
      BY <1>2, <2>4, <3>1 DEF Profiles!Rename, Profiles!TypeOK, Profiles!IsInjective
    <3> QED
      BY <1>2, <2>4, <3>2 DEF Profiles!Rename, Profiles!TypeOK
  <2>5. ASSUME NEW w \in Wallets, NEW u \in Users, Profiles!LinkAccount(w, u)
        PROVE  Profiles!TypeOK'
    <3> DEFINE row == [user |-> u, login |-> holder[u]]
    <3>1. row \in [user : Users, login : Logins]
      BY <1>2 DEF Profiles!TypeOK
    <3>2. \A v \in Wallets : account'[v] =
            IF v = w THEN row
            ELSE IF account[v] # None /\ account[v].user = u THEN None ELSE account[v]
      BY <2>5 DEF Profiles!LinkAccount
    <3>3. account' \in [Wallets -> [user : Users, login : Logins] \cup {None}]
      <4>1. account' = [v \in Wallets |-> account'[v]]
        BY <2>5 DEF Profiles!LinkAccount
      <4>2. \A v \in Wallets : account'[v] \in [user : Users, login : Logins] \cup {None}
        BY <1>2, <3>1, <3>2 DEF Profiles!TypeOK
      <4> HIDE DEF row
      <4> QED
        BY <4>1, <4>2
    <3>4. ASSUME NEW v \in Wallets, NEW x \in Wallets, v # x,
                 account'[v] # None, account'[x] # None
          PROVE  account'[v].user # account'[x].user
      BY <1>2, <3>2, <3>4 DEF Profiles!TypeOK
    <3> QED
      BY <1>2, <2>5, <3>3, <3>4 DEF Profiles!LinkAccount, Profiles!TypeOK
  <2>6. ASSUME NEW w \in Wallets, Profiles!updateProfileVisibility(w)
        PROVE  Profiles!TypeOK'
    BY <1>2, <2>6 DEF Profiles!updateProfileVisibility, Profiles!TypeOK
  <2>7. ASSUME NEW l \in Logins, Profiles!PublicProfilePage(l)
        PROVE  Profiles!TypeOK'
    <3>1. \A w \in Wallets : Profiles!ProfileOf(w, l) \in
            [wallet : Wallets \cup {None}, login : Logins \cup {None},
             prizes : SUBSET Offered, payouts : SUBSET Offered]
      BY <1>2 DEF Profiles!ProfileOf, Profiles!TypeOK
    <3>2. profile' \in [wallet : Wallets \cup {None}, login : Logins \cup {None},
                        prizes : SUBSET Offered, payouts : SUBSET Offered]
      BY <2>7, <3>1 DEF Profiles!PublicProfilePage, Profiles!Found, Profiles!NotFound
    <3> QED
      BY <1>2, <2>7, <3>2 DEF Profiles!PublicProfilePage, Profiles!TypeOK
  <2> QED
    BY <1>2, <2>1, <2>2, <2>3, <2>4, <2>5, <2>6, <2>7 DEF Profiles!Next
<1> QED
  BY <1>1, <1>2, PTL DEF Profiles!Spec

\* As long as no user gave a login up after linking, findFirst has one row at
\* most to take for it, whatever was linked and linked again, for any number of
\* wallets and users: the rows with the login are all its holder's, and a user
\* has one row.
THEOREM LoginsFindOne == Profiles!Spec => []LoginFindsOne
<1>1. Profiles!TypeOK => LoginFindsOne
  <2> SUFFICES ASSUME Profiles!TypeOK, NEW l \in Logins, Profiles!Current(l),
                      NEW v \in Profiles!Found(l), NEW w \in Profiles!Found(l)
               PROVE  v = w
    BY DEF LoginFindsOne, Profiles!LoginFindsOne
  <2>1. /\ v \in Wallets /\ account[v] # None
        /\ w \in Wallets /\ account[w] # None
    BY DEF Profiles!Found
  <2>2. account[v].user \in Users /\ account[w].user \in Users
    BY <2>1 DEF Profiles!TypeOK
  <2>3. holder[account[v].user] = holder[account[w].user]
    BY DEF Profiles!Current
  <2>4. account[v].user = account[w].user
    BY <2>2, <2>3 DEF Profiles!TypeOK, Profiles!IsInjective
  <2> QED
    BY <2>1, <2>4 DEF Profiles!TypeOK
<1> QED
  BY <1>1, ProfilesTyped, PTL

(***************************************************************************)
(* The types of the preferences and of the service worker.                 *)
(***************************************************************************)

\* The waiting commits stay within their bound, and where storage is blocked
\* nothing is stored.
LEMMA PreferencesTyped == Prefs!Spec => []Prefs!TypeOK
<1> DEFINE Queues == UNION {[1..n -> Prefs!Themes] : n \in 0..MaxQueue}
<1>1. ASSUME Prefs!Init PROVE Prefs!TypeOK
  <2>1. <<>> \in Queues
    <3>1. <<>> \in [1..0 -> Prefs!Themes]
      OBVIOUS
    <3> QED
      BY <3>1, BrowserPagesAssumption DEF Prefs!PreferencesAssumption
  <2>2. /\ theme = "dark" /\ html \in {"light", "dark"} /\ themeCookie \in {"light", None}
        /\ ~browser.stores => themeCookie = None
    BY <1>1 DEF Prefs!Init, Prefs!readStoredTheme, Prefs!Read, Prefs!DEFAULT_THEME
  <2>3. /\ stored \in {"reduced", "full", None}
        /\ ~browser.stores => stored = None
    BY <1>1 DEF Prefs!Init
  <2> QED
    BY <1>1, <2>1, <2>2, <2>3 DEF Prefs!Init, Prefs!Themes, Prefs!Choices, Prefs!TypeOK
<1>2. ASSUME Prefs!TypeOK, [Prefs!Next]_(Prefs!vars) PROVE Prefs!TypeOK'
  <2> USE DEF Prefs!page, Prefs!storage, Prefs!Themes, Prefs!Choices
  <2>1. Prefs!readStoredTheme \in Prefs!Themes /\ Prefs!readStoredMotionPreference \in Prefs!Choices
    BY <1>2 DEF Prefs!TypeOK, Prefs!readStoredTheme, Prefs!readStoredMotionPreference,
                Prefs!Read, Prefs!DEFAULT_THEME
  <2>2. PICK n \in 0..MaxQueue : queue \in [1..n -> Prefs!Themes]
    BY <1>2 DEF Prefs!TypeOK
  <2>3. queue \in Seq(Prefs!Themes) /\ Len(queue) = n
    BY <2>2
  <2>4. CASE UNCHANGED Prefs!vars
    BY <1>2, <2>4 DEF Prefs!vars, Prefs!TypeOK
  <2>5. CASE Prefs!Reload
    <3>1. queue' \in [1..0 -> Prefs!Themes]
      BY <2>5 DEF Prefs!Reload
    <3>2. queue' \in Queues
      BY <3>1, BrowserPagesAssumption DEF Prefs!PreferencesAssumption
    <3> QED
      BY <1>2, <2>1, <2>5, <3>2 DEF Prefs!Reload, Prefs!TypeOK, Prefs!DEFAULT_THEME
  <2>6. CASE Prefs!Mount
    BY <1>2, <2>1, <2>6 DEF Prefs!Mount, Prefs!TypeOK
  <2>7. CASE Prefs!ToggleTheme
    <3> DEFINE next == IF theme = "dark" THEN "light" ELSE "dark"
    <3>1. next \in Prefs!Themes
      OBVIOUS
    <3>2. themeCookie' \in {"light", None} /\ (~browser.stores => themeCookie' = None)
      BY <2>7 DEF Prefs!ToggleTheme, Prefs!writeStoredTheme, Prefs!Stored, Prefs!DEFAULT_THEME
    <3>3. queue' \in Queues
      <4>1. CASE queue' = Append(queue, next) /\ n < MaxQueue
        <5>1. queue' \in [1..n+1 -> Prefs!Themes]
          <6>1. queue' \in Seq(Prefs!Themes) /\ Len(queue') = n + 1
            BY <2>3, <3>1, <4>1
          <6> QED
            BY <6>1, <2>2
        <5> QED
          BY <4>1, <5>1, BrowserPagesAssumption DEF Prefs!PreferencesAssumption
      <4>2. CASE UNCHANGED queue
        BY <4>2, <2>2
      <4> QED
        BY <2>3, <2>7, <4>1, <4>2 DEF Prefs!ToggleTheme
    <3>4. theme' \in Prefs!Themes /\ html' \in Prefs!Themes
      BY <1>2, <2>7, <3>1 DEF Prefs!ToggleTheme, Prefs!TypeOK
    <3> QED
      BY <1>2, <2>7, <3>2, <3>3, <3>4 DEF Prefs!ToggleTheme, Prefs!TypeOK
  <2>8. CASE Prefs!Commit
    <3>1. n # 0
      BY <2>2, <2>3, <2>8 DEF Prefs!Commit
    <3>2. Head(queue) \in Prefs!Themes /\ Tail(queue) \in [1..n-1 -> Prefs!Themes]
      <4>1. queue # <<>>
        BY <2>8 DEF Prefs!Commit
      <4>2. Head(queue) \in Prefs!Themes /\ Tail(queue) \in Seq(Prefs!Themes)
            /\ Len(Tail(queue)) = n - 1
        BY <2>2, <2>3, <4>1
      <4>3. \A s \in Seq(Prefs!Themes) : s \in [1..Len(s) -> Prefs!Themes]
        OBVIOUS
      <4>4. Tail(queue) \in [1..Len(Tail(queue)) -> Prefs!Themes]
        BY <4>2, <4>3
      <4> QED
        BY <4>2, <4>4
    <3>3. queue' \in Queues
      BY <2>8, <3>1, <3>2, BrowserPagesAssumption DEF Prefs!Commit, Prefs!PreferencesAssumption
    <3> QED
      BY <1>2, <2>8, <3>2, <3>3 DEF Prefs!Commit, Prefs!TypeOK
  <2>9. ASSUME NEW next \in Prefs!Choices, Prefs!SetMotion(next)
        PROVE  Prefs!TypeOK'
    BY <1>2, <2>9 DEF Prefs!SetMotion, Prefs!Stored, Prefs!TypeOK
  <2>10. CASE Prefs!ToggleMotion \/ Prefs!UseSystem
    <3>1. Prefs!preferenceForToggle \in Prefs!Choices
      BY DEF Prefs!preferenceForToggle
    <3> QED
      BY <2>9, <2>10, <3>1 DEF Prefs!ToggleMotion, Prefs!UseSystem
  <2>11. CASE Prefs!MotionEffect
    BY <1>2, <2>11 DEF Prefs!MotionEffect, Prefs!TypeOK
  <2>12. CASE Prefs!OsChanges \/ Prefs!watchReducedMotion
    BY <1>2, <2>12 DEF Prefs!OsChanges, Prefs!watchReducedMotion, Prefs!TypeOK
  <2>13. CASE Prefs!OtherTab
    BY <1>2, <2>13 DEF Prefs!OtherTab, Prefs!Stored, Prefs!DEFAULT_THEME, Prefs!TypeOK
  <2> QED
    BY <1>2, <2>4, <2>5, <2>6, <2>7, <2>8, <2>10, <2>11, <2>12, <2>13 DEF Prefs!Next
<1> QED
  BY <1>1, <1>2, PTL DEF Prefs!Spec

\* A call that goes to the server or writes the cache has a URL; one that
\* writes the cache has a version.
WorkerCalls ==
  /\ Worker!TypeOK
  /\ \A r \in Requests : fetch[r].pc # "idle" => fetch[r].url \in Worker!Urls
  /\ \A r \in Requests : fetch[r].pc = "put" => fetch[r].got \in Worker!Versions

LEMMA WorkerCallsStep == WorkerCalls /\ [Worker!Next]_(Worker!vars) => WorkerCalls'
<1> SUFFICES ASSUME WorkerCalls, [Worker!Next]_(Worker!vars) PROVE WorkerCalls'
  OBVIOUS
<1> DEFINE Call == [pc : {"idle", "network", "revalidate", "failed", "put"},
                    url : Worker!Urls \cup {None}, navigate : BOOLEAN,
                    got : Worker!Versions \cup {None}]
           Response == [url : Worker!Urls \cup {None}, navigate : BOOLEAN,
                        content : Worker!Urls \cup {"text", "error", None},
                        version : Worker!Versions \cup {None}, failed : BOOLEAN]
<1>1. /\ fetch \in [Requests -> Call] /\ answer \in Response
      /\ cache \in [Worker!Urls -> Worker!Versions \cup {None}]
      /\ latest \in Worker!Versions
      /\ \A r \in Requests : fetch[r].pc # "idle" => fetch[r].url \in Worker!Urls
      /\ \A r \in Requests : fetch[r].pc = "put" => fetch[r].got \in Worker!Versions
  BY DEF WorkerCalls, Worker!TypeOK
<1>2. Worker!Idle \in Call /\ Worker!Idle.pc = "idle"
  BY DEF Worker!Idle
<1>3. ASSUME NEW r \in Requests, NEW content \in Worker!Urls \cup {"text", "error"},
             NEW version \in Worker!Versions \cup {None}
      PROVE  /\ Worker!Given(r, content, version, TRUE) \in Response
             /\ Worker!Given(r, content, version, FALSE) \in Response
  BY <1>1 DEF Worker!Given
<1>4. ASSUME NEW r \in Requests, NEW new \in Call, fetch' = [fetch EXCEPT ![r] = new],
             new.pc # "idle" => new.url \in Worker!Urls,
             new.pc = "put" => new.got \in Worker!Versions,
             answer' \in Response, UNCHANGED <<worker, latest, cache>>
      PROVE  WorkerCalls'
  <2>1. fetch' \in [Requests -> Call]
    BY <1>1, <1>4
  <2>2. \A q \in Requests : fetch'[q] = IF q = r THEN new ELSE fetch[q]
    BY <1>1, <1>4
  <2>3. \A q \in Requests : fetch'[q].pc # "idle" => fetch'[q].url \in Worker!Urls
    BY <1>1, <1>4, <2>2
  <2>4. \A q \in Requests : fetch'[q].pc = "put" => fetch'[q].got \in Worker!Versions
    BY <1>1, <1>4, <2>2
  <2> QED
    BY <1>4, <2>1, <2>3, <2>4 DEF WorkerCalls, Worker!TypeOK
<1>5. CASE UNCHANGED Worker!vars
  BY <1>5 DEF Worker!vars, WorkerCalls, Worker!TypeOK
<1>6. CASE Worker!registerServiceWorker \/ Worker!Install \/ Worker!clearDevServiceWorkers
  BY <1>6, <1>1
  DEF Worker!registerServiceWorker, Worker!Install, Worker!clearDevServiceWorkers,
      WorkerCalls, Worker!TypeOK
<1>7. CASE Worker!SiteChanges
  <2>1. latest' \in Worker!Versions
    BY <1>1, <1>7, BrowserPagesAssumption
    DEF Worker!SiteChanges, Worker!Versions, Worker!FetchesAssumption
  <2> QED
    BY <1>7, <2>1 DEF Worker!SiteChanges, WorkerCalls, Worker!TypeOK
<1>8. ASSUME NEW r \in Requests, NEW f \in Fetches, Worker!Start(r, f.url, f.navigate)
      PROVE  WorkerCalls'
  <2>1. f.url \in Worker!Urls /\ f.navigate \in BOOLEAN
    BY BrowserPagesAssumption DEF Worker!FetchesAssumption
  <2>2. PICK pc \in {"network", "revalidate"} :
          fetch' = [fetch EXCEPT ![r] =
            [pc |-> pc, url |-> f.url, navigate |-> f.navigate, got |-> None]]
    BY <1>8 DEF Worker!Start
  <2>3. [pc |-> pc, url |-> f.url, navigate |-> f.navigate, got |-> None] \in Call
    BY <2>1
  <2>4. answer' \in Response
    <3>1. cache[f.url] \in Worker!Versions \cup {None}
      BY <1>1, <2>1
    <3>2. [url |-> f.url, navigate |-> f.navigate, content |-> f.url,
           version |-> cache[f.url], failed |-> FALSE] \in Response
      BY <2>1, <3>1
    <3> QED
      BY <1>1, <1>8, <3>2 DEF Worker!Start
  <2> QED
    BY <1>4, <1>8, <2>1, <2>2, <2>3, <2>4 DEF Worker!Start
<1>9. ASSUME NEW r \in Requests, Worker!Succeed(r)
      PROVE  WorkerCalls'
  <2> DEFINE new == IF Worker!Stored(fetch[r].url, fetch[r].navigate)
                    THEN [fetch[r] EXCEPT !.pc = "put", !.got = latest] ELSE Worker!Idle
  <2>1. fetch[r].url \in Worker!Urls
    BY <1>1, <1>9 DEF Worker!Succeed
  <2>2. /\ new \in Call /\ (new.pc # "idle" => new.url \in Worker!Urls)
        /\ (new.pc = "put" => new.got \in Worker!Versions)
    BY <1>1, <1>2, <2>1
  <2>3. answer' \in Response
    BY <1>1, <1>3, <1>9, <2>1 DEF Worker!Succeed
  <2>4. fetch' = [fetch EXCEPT ![r] = new]
    BY <1>9 DEF Worker!Succeed
  <2> HIDE DEF new
  <2> QED
    BY <1>4, <1>9, <2>2, <2>3, <2>4 DEF Worker!Succeed
<1>10. ASSUME NEW r \in Requests, Worker!Refuse(r)
       PROVE  WorkerCalls'
  <2>1. answer' \in Response
    BY <1>1, <1>3, <1>10 DEF Worker!Refuse
  <2> QED
    BY <1>2, <1>4, <1>10, <2>1 DEF Worker!Refuse
<1>11. ASSUME NEW r \in Requests, Worker!Fail(r)
       PROVE  WorkerCalls'
  <2>1. fetch[r].url \in Worker!Urls
    BY <1>1, <1>11 DEF Worker!Fail
  <2>2. answer' \in Response
    <3>1. Worker!Given(r, "error", None, TRUE) \in Response
      BY <1>1 DEF Worker!Given
    <3>2. answer' = answer \/ answer' = Worker!Given(r, "error", None, TRUE)
      BY <1>11 DEF Worker!Fail
    <3> QED
      BY <1>1, <3>1, <3>2
  <2>3. CASE fetch' = [fetch EXCEPT ![r].pc = "failed"]
    <3>1. /\ [fetch[r] EXCEPT !.pc = "failed"] \in Call
          /\ [fetch[r] EXCEPT !.pc = "failed"].url = fetch[r].url
          /\ [fetch[r] EXCEPT !.pc = "failed"].pc = "failed"
      BY <1>1
    <3>2. fetch' = [fetch EXCEPT ![r] = [fetch[r] EXCEPT !.pc = "failed"]]
      BY <2>3
    <3> QED
      BY <1>4, <1>11, <2>1, <2>2, <3>1, <3>2 DEF Worker!Fail
  <2>4. CASE fetch' = [fetch EXCEPT ![r] = Worker!Idle]
    BY <1>2, <1>4, <1>11, <2>2, <2>4 DEF Worker!Fail
  <2> QED
    BY <1>11, <2>3, <2>4 DEF Worker!Fail, Worker!Goto
<1>12. ASSUME NEW r \in Requests, Worker!AnswerFromCache(r)
       PROVE  WorkerCalls'
  <2>1. fetch[r].url \in Worker!Urls
    BY <1>1, <1>12 DEF Worker!AnswerFromCache
  <2>2. {"/", "/offline"} \subseteq Worker!Urls
    BY DEF Worker!Urls
  <2>3. \A u \in Worker!Urls : cache[u] \in Worker!Versions \cup {None}
    BY <1>1
  <2>4. Worker!Fallback(r) \in Response
    <3> DEFINE own == fetch[r].url
               nav == fetch[r].navigate
    <3>1. CASE cache[own] # None
      <4>1. Worker!Fallback(r) = Worker!Given(r, own, cache[own], TRUE)
        BY <3>1 DEF Worker!Fallback
      <4> QED
        BY <1>1, <2>1, <2>3, <4>1 DEF Worker!Given
    <3>2. CASE cache[own] = None /\ nav /\ cache["/offline"] # None
      <4>1. Worker!Fallback(r) = Worker!Given(r, "/offline", cache["/offline"], TRUE)
        BY <3>2 DEF Worker!Fallback
      <4> QED
        BY <1>1, <2>2, <2>3, <4>1 DEF Worker!Given
    <3>3. CASE cache[own] = None /\ nav /\ cache["/offline"] = None /\ cache["/"] # None
      <4>1. Worker!Fallback(r) = Worker!Given(r, "/", cache["/"], TRUE)
        BY <3>3 DEF Worker!Fallback
      <4> QED
        BY <1>1, <2>2, <2>3, <4>1 DEF Worker!Given
    <3>4. CASE cache[own] = None /\ (nav => cache["/offline"] = None /\ cache["/"] = None)
      <4>1. Worker!Fallback(r) = Worker!Given(r, IF nav THEN "text" ELSE "error", None, TRUE)
        BY <3>4 DEF Worker!Fallback
      <4> QED
        BY <1>1, <4>1 DEF Worker!Given
    <3> QED
      BY <3>1, <3>2, <3>3, <3>4
  <2> QED
    BY <1>2, <1>4, <1>12, <2>4 DEF Worker!AnswerFromCache
<1>13. ASSUME NEW r \in Requests, Worker!Put(r)
       PROVE  WorkerCalls'
  <2>1. fetch[r].url \in Worker!Urls /\ fetch[r].got \in Worker!Versions
    BY <1>1, <1>13 DEF Worker!Put
  <2>2. cache' \in [Worker!Urls -> Worker!Versions \cup {None}]
    BY <1>1, <1>13, <2>1 DEF Worker!Put
  <2>3. /\ fetch' \in [Requests -> Call]
        /\ \A q \in Requests : fetch'[q] = IF q = r THEN Worker!Idle ELSE fetch[q]
    BY <1>1, <1>2, <1>13 DEF Worker!Put
  <2>4. \A q \in Requests : fetch'[q].pc # "idle" => fetch'[q].url \in Worker!Urls
    BY <1>1, <1>2, <2>3
  <2>5. UNCHANGED <<worker, latest, answer>>
    BY <1>13 DEF Worker!Put
  <2>6. worker \in {"none", "installing", "active"}
    BY DEF WorkerCalls, Worker!TypeOK
  <2>7. Worker!TypeOK'
    BY <1>1, <2>2, <2>3, <2>5, <2>6 DEF Worker!TypeOK
  <2>8. \A q \in Requests : fetch'[q].pc = "put" => fetch'[q].got \in Worker!Versions
    BY <1>1, <1>2, <2>3
  <2> QED
    BY <2>4, <2>7, <2>8 DEF WorkerCalls
<1>14. ASSUME NEW r \in Requests, Worker!LosePut(r)
       PROVE  WorkerCalls'
  BY <1>1, <1>2, <1>4, <1>14 DEF Worker!LosePut
<1> QED
  BY <1>5, <1>6, <1>7, <1>8, <1>9, <1>10, <1>11, <1>12, <1>13, <1>14 DEF Worker!Next

\* What a call writes to the cache is a version of a URL.
LEMMA WorkerTyped == Worker!Spec => []Worker!TypeOK
<1>1. Worker!Init => WorkerCalls
  BY BrowserPagesAssumption
  DEF Worker!Init, Worker!Idle, Worker!NoAnswer, Worker!Versions, Worker!FetchesAssumption,
      WorkerCalls, Worker!TypeOK
<1>2. WorkerCalls => Worker!TypeOK
  BY DEF WorkerCalls
<1> QED
  BY WorkerCallsStep, <1>1, <1>2, PTL DEF Worker!Spec

\* Every part keeps its types, with what they say of the order of its steps: a
\* nonce is deleted only after it was found (consumeAuthNonce), a callback acts for
\* a wallet (the OAuth callback), a GitHub user has one wallet at a time.
THEOREM PartsKeepTypes ==
  Wallet!Spec /\ GitHub!Spec /\ Earned!Spec /\ Profiles!Spec /\ Prefs!Spec /\ Worker!Spec
    => []TypeOK
BY SessionTyped, LinkTyped, EarningsTyped, ProfilesTyped, PreferencesTyped, WorkerTyped, PTL
DEF TypeOK
=============================================================================
