--------------------------- MODULE WalletSession ---------------------------
(***************************************************************************)
(* Sign-in with a wallet: the nonce table and associateVerifiedWallet on   *)
(* the server, and one browser tab with the session cookie it shares with   *)
(* the browser's other tabs (provider.tsx, session.ts).                    *)
(*                                                                         *)
(* A server call is cut at each database statement. A message may be       *)
(* delivered again by the network, in a request whose answer nobody reads. *)
(* The tab's server actions run one at a time, as Next.js queues them.     *)
(* Bounds: Nonces are the random ids drawn, MaxTime the clock's end.       *)
(***************************************************************************)
EXTENDS Naturals, FiniteSets

CONSTANTS
  Addresses,  \* Stellar accounts
  Nonces,     \* UUIDs
  Requests,   \* server threads of associateVerifiedWallet
  Ttl,        \* NONCE_TTL_MS
  MaxTime,
  None

SessionAssumption == Ttl \in Nat \ {0} /\ MaxTime \in Nat /\ None \notin Addresses

VARIABLES
  now,
  nonce,     \* auth_nonces: [Nonces -> row or None]
  fresh,     \* UUIDs not drawn yet
  sent,      \* messages a wallet signed
  request,   \* the server threads
  accepted,  \* how often each nonce was accepted
  wallets,   \* addresses with a row
  users,     \* number of user rows
  cookie,    \* astrea_wallet_id of the browser
  foreign,   \* it holds what another tab wrote since this one read or wrote it
  tab,       \* the connect() in progress
  inflight,  \* the server action of the tab that is running
  read,      \* the wallet in the answer to rehydration
  mustClear, \* disconnect() has queued clearWalletSession
  shown      \* address of WalletProvider

server == <<nonce, fresh, request, accepted, wallets, users>>
jar == <<cookie, foreign>>
browser == <<jar, tab, inflight, read, mustClear, shown>>
vars == <<now, sent, server, browser>>

Row == [address : Addresses, expires : Nat]
Message == [address : Addresses, nonce : Nonces, by : Addresses]
Idle == [phase |-> "idle", address |-> None, nonce |-> None]
NoRequest == [step |-> "none", msg |-> None, entry |-> None, tab |-> FALSE]

TypeOK ==
  /\ now \in 0..MaxTime
  /\ nonce \in [Nonces -> Row \cup {None}]
  /\ fresh \subseteq Nonces /\ sent \subseteq Message
  /\ \A r \in Requests :
       /\ request[r].step \in {"none", "find", "delete", "wallet", "user", "done", "failed"}
       /\ request[r].msg \in Message \cup {None}
       /\ request[r].entry \in Row \cup {None}
       /\ request[r].step \in {"delete", "wallet", "user"} => request[r].entry # None
  /\ accepted \in [Nonces -> Nat]
  /\ wallets \subseteq Addresses /\ users \in Nat
  /\ {cookie, read, shown, tab.address} \subseteq Addresses \cup {None}
  /\ tab.phase \in {"idle", "modal", "nonce", "sign", "associate", "failing"}
  /\ inflight \in {"none", "rehydrate", "answer", "associate"}
  /\ read # None => inflight = "answer"
  /\ {foreign, mustClear} \subseteq BOOLEAN

Init ==
  /\ now = 0 /\ nonce = [n \in Nonces |-> None] /\ fresh = Nonces /\ sent = {}
  /\ request = [r \in Requests |-> NoRequest] /\ accepted = [n \in Nonces |-> 0]
  /\ wallets = {} /\ users = 0
  /\ cookie = None /\ foreign = FALSE
  /\ tab = Idle /\ inflight = "rehydrate" /\ read = None
  /\ mustClear = FALSE /\ shown = None

\* Expired rows are deleted before a new one is made.
Pruned(rows) ==
  [n \in Nonces |-> IF rows[n] # None /\ rows[n].expires <= now THEN None ELSE rows[n]]

issueAuthNonce(n, a) ==
  /\ n \in fresh
  /\ fresh' = fresh \ {n}
  /\ nonce' = [Pruned(nonce) EXCEPT ![n] = [address |-> a, expires |-> now + Ttl]]

\* GET /api/auth/nonce, from anywhere.
NonceRoute(n, a) ==
  /\ issueAuthNonce(n, a)
  /\ UNCHANGED <<now, sent, request, accepted, wallets, users, browser>>

----------------------------------------------------------------------------
(* associateVerifiedWallet on the server. *)

Start(r, m, own) ==
  /\ request[r].step = "none"
  /\ request' = [request EXCEPT ![r] = [step |-> "find", msg |-> m, entry |-> None, tab |-> own]]

\* The network delivers a message once more.
Redeliver(r) ==
  /\ \E m \in sent : Start(r, m, FALSE)
  /\ UNCHANGED <<now, sent, nonce, fresh, accepted, wallets, users, browser>>

\* Mutant: a nonce without a row is not refused.
FindNonce_NoCheck(r) ==
  /\ request[r].step = "find"
  /\ request' = [request EXCEPT ![r].entry = nonce[request[r].msg.nonce], ![r].step = "delete"]
  /\ UNCHANGED <<now, sent, nonce, fresh, accepted, wallets, users, browser>>

\* consumeAuthNonce: findUnique.
FindNonce(r) ==
  /\ request[r].step = "find"
  /\ LET entry == nonce[request[r].msg.nonce]
     IN  request' = [request EXCEPT ![r].entry = entry,
                                    ![r].step = IF entry = None THEN "failed" ELSE "delete"]
  /\ UNCHANGED <<now, sent, nonce, fresh, accepted, wallets, users, browser>>

\* Mutant: deleting a row that is gone is no error.
Deletable_Always(n) == TRUE

\* delete throws when another request was faster.
Deletable(n) == nonce[n] # None

verifyStellarSignature(m) == m.by = m.address

\* The checks after the delete: address, expiry, signature.
Passes(r) ==
  LET m == request[r].msg IN
  /\ Deletable(m.nonce)
  /\ request[r].entry.address = m.address
  /\ request[r].entry.expires > now

DeleteNonce(r) ==
  LET m == request[r].msg IN
  /\ request[r].step = "delete"
  /\ nonce' = [nonce EXCEPT ![m.nonce] = None]
  /\ accepted' = [accepted EXCEPT ![m.nonce] = @ + IF Passes(r) THEN 1 ELSE 0]
  /\ request' = [request EXCEPT ![r].step =
       IF Passes(r) /\ verifyStellarSignature(m) THEN "wallet" ELSE "failed"]
  /\ UNCHANGED <<now, sent, fresh, wallets, users, browser>>

\* findUnique of the wallet; without one, a user row is created first.
FindWallet(r) ==
  /\ request[r].step = "wallet"
  /\ IF request[r].msg.address \in wallets
     THEN request' = [request EXCEPT ![r].step = "done"] /\ users' = users
     ELSE request' = [request EXCEPT ![r].step = "user"] /\ users' = users + 1
  /\ UNCHANGED <<now, sent, nonce, fresh, accepted, wallets, browser>>

\* wallet.create: the unique index on address refuses the slower request.
CreateWallet(r) ==
  /\ request[r].step = "user"
  /\ wallets' = wallets \cup {request[r].msg.address}
  /\ request' = [request EXCEPT ![r].step =
       IF request[r].msg.address \in wallets THEN "failed" ELSE "done"]
  /\ UNCHANGED <<now, sent, nonce, fresh, accepted, users, browser>>

ServerStep(r) ==
  \/ Redeliver(r) \/ FindNonce(r) \/ DeleteNonce(r) \/ FindWallet(r) \/ CreateWallet(r)

----------------------------------------------------------------------------
(* The tab. *)

\* The page is loaded: effects run, the old page's calls are forgotten.
Reload ==
  /\ tab' = Idle /\ inflight' = "rehydrate" /\ read' = None
  /\ mustClear' = FALSE /\ shown' = None
  /\ request' = [r \in Requests |-> [request[r] EXCEPT !.tab = FALSE]]
  /\ UNCHANGED <<now, sent, nonce, fresh, accepted, wallets, users, jar>>

getSessionWallet == IF cookie \in wallets THEN cookie ELSE None

\* The server reads the session, at some time before the tab has its answer.
ReadSession ==
  /\ inflight = "rehydrate"
  /\ inflight' = "answer" /\ read' = getSessionWallet /\ foreign' = FALSE
  /\ UNCHANGED <<now, sent, server, cookie, tab, mustClear, shown>>

\* getSessionWallet answers, or its error is swallowed.
Rehydrated ==
  /\ inflight = "answer"
  /\ inflight' = "none" /\ read' = None
  /\ shown' \in {shown, IF read # None THEN read ELSE shown}
  /\ UNCHANGED <<now, sent, server, jar, tab, mustClear>>

\* The cookie is the browser's: another tab connects as a or disconnects, or
\* the session ends. No event tells this tab.
OtherTab(a) ==
  /\ cookie' = a /\ foreign' = (a # None)
  /\ wallets' = wallets \cup ({a} \ {None})
  /\ users' = IF {a} \subseteq wallets \cup {None} THEN users ELSE users + 1
  /\ UNCHANGED <<now, sent, nonce, fresh, request, accepted, tab, inflight, read, mustClear, shown>>

\* connect(), from the button that is shown without an address.
Connect ==
  /\ shown = None /\ tab.phase = "idle"
  /\ tab' = [tab EXCEPT !.phase = "modal"]
  /\ UNCHANGED <<now, sent, server, jar, inflight, read, mustClear, shown>>

\* authModal resolves to an account, rejects, or Albedo was chosen.
ModalAnswered ==
  /\ tab.phase = "modal"
  /\ \/ \E a \in Addresses : tab' = [tab EXCEPT !.phase = "nonce", !.address = a] /\ shown' = shown
     \/ tab' = Idle /\ shown' \in {shown, None}
  /\ UNCHANGED <<now, sent, server, jar, inflight, read, mustClear>>

\* The queue is free for the next server action of connect().
Free == inflight = "none" /\ ~mustClear

getAuthNonce ==
  /\ tab.phase = "nonce" /\ Free
  /\ \E n \in Nonces :
       /\ issueAuthNonce(n, tab.address)
       /\ tab' = [tab EXCEPT !.phase = "sign", !.nonce = n]
  /\ UNCHANGED <<now, sent, request, accepted, wallets, users, jar, inflight, read, mustClear, shown>>

\* signMessage: the extension may sign with another account than asked.
Signed ==
  /\ tab.phase = "sign" /\ Free
  /\ \E by \in Addresses, r \in Requests :
       LET m == [address |-> tab.address, nonce |-> tab.nonce, by |-> by] IN
       /\ sent' = sent \cup {m}
       /\ Start(r, m, TRUE)
  /\ tab' = [tab EXCEPT !.phase = "associate"] /\ inflight' = "associate"
  /\ UNCHANGED <<now, nonce, fresh, accepted, wallets, users, jar, read, mustClear, shown>>

\* The answer of associateVerifiedWallet carries the cookie.
Associated(r) ==
  /\ tab.phase = "associate" /\ request[r].tab /\ request[r].step = "done"
  /\ cookie' = tab.address /\ foreign' = FALSE
  /\ shown' = tab.address /\ tab' = Idle /\ inflight' = "none"
  /\ request' = [request EXCEPT ![r].tab = FALSE]
  /\ UNCHANGED <<now, sent, nonce, fresh, accepted, wallets, users, read, mustClear>>

\* Any step of the handshake throws, or its answer is lost, if need be after
\* the browser took the cookie from its head.
ConnectFails ==
  /\ tab.phase \in {"nonce", "sign", "associate"}
  /\ \/ UNCHANGED jar
     \/ /\ tab.phase = "associate"
        /\ \E r \in Requests : request[r].tab /\ request[r].step = "done"
        /\ cookie' = tab.address /\ foreign' = FALSE
  /\ tab' = [tab EXCEPT !.phase = "failing"]
  /\ inflight' = IF inflight = "associate" THEN "none" ELSE inflight
  /\ request' = [r \in Requests |-> [request[r] EXCEPT !.tab = FALSE]]
  /\ UNCHANGED <<now, sent, nonce, fresh, accepted, wallets, users, read, mustClear, shown>>

\* The answer to clearWalletSession drops the cookie, or the call fails.
Cleared == UNCHANGED jar \/ (cookie' = None /\ foreign' = FALSE)

\* Mutant: the old address stays on display.
CleanUp_KeepsShown ==
  /\ tab.phase = "failing" /\ Free
  /\ Cleared /\ shown' = tab.address /\ tab' = Idle
  /\ UNCHANGED <<now, sent, server, inflight, read, mustClear>>

\* clearWalletSession may fail too; the address is dropped all the same.
CleanUp ==
  /\ tab.phase = "failing" /\ Free
  /\ Cleared /\ shown' = None /\ tab' = Idle
  /\ UNCHANGED <<now, sent, server, inflight, read, mustClear>>

\* disconnect(), from the button that shows an address.
Disconnect ==
  /\ shown # None
  /\ shown' = None /\ mustClear' = TRUE
  /\ UNCHANGED <<now, sent, server, jar, tab, inflight, read>>

\* Its clearWalletSession runs when the queue is free, or is lost.
ClearQueued ==
  /\ mustClear /\ inflight = "none"
  /\ mustClear' = FALSE /\ Cleared
  /\ UNCHANGED <<now, sent, server, tab, inflight, read, shown>>

\* STATE_UPDATED without an address: the extension disconnected.
ExtensionDisconnects ==
  /\ shown' = None
  /\ UNCHANGED <<now, sent, server, jar, tab, inflight, read, mustClear>>

Tick ==
  /\ now < MaxTime
  /\ now' = now + 1
  /\ UNCHANGED <<sent, server, browser>>

Next ==
  \/ \E n \in Nonces, a \in Addresses : NonceRoute(n, a)
  \/ \E r \in Requests : ServerStep(r) \/ Associated(r)
  \/ \E a \in Addresses \cup {None} : OtherTab(a)
  \/ Reload \/ ReadSession \/ Rehydrated \/ Connect \/ ModalAnswered \/ getAuthNonce \/ Signed
  \/ ConnectFails \/ CleanUp \/ Disconnect \/ ClearQueued \/ ExtensionDisconnects
  \/ Tick

Spec == Init /\ [][Next]_vars

----------------------------------------------------------------------------
\* A nonce opens one session at most, however two requests with it
\* interleave between findUnique and delete (consumeAuthNonce).
NonceSingleUse == \A n \in Nonces : accepted[n] <= 1

Quiet == tab.phase = "idle" /\ inflight = "none" /\ ~mustClear

\* A tab at rest never shows one wallet while the server acts for another,
\* unless another tab signed in since this one last read or wrote the cookie:
\* nothing tells this tab then, until it is loaded again or disconnects
\* (provider.tsx: rehydration, connect, disconnect and extension events).
ShownMatchesSession == Quiet /\ shown # None /\ ~foreign => cookie \in {None, shown}
=============================================================================
