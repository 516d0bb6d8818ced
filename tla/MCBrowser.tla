--------------------------- MODULE MCBrowser ---------------------------
(***************************************************************************)
(* Small instances of what a visitor's browser takes part in. The parts     *)
(* share no variable, so each is explored alone: part names the one that    *)
(* moves, the others stay as they begin.                                    *)
(***************************************************************************)
EXTENDS BrowserPages, TLC

CONSTANTS w1, w2, u1, u2, l1, l2, pa, pb, pc   \* wallets; users, logins; payouts

VARIABLE part

\* One wallet with two small payouts, one with a larger one, in tenths of a dollar.
EarnedBy == (pa :> w1) @@ (pb :> w1) @@ (pc :> w2)
EarnedAt == (pa :> 1) @@ (pb :> 2) @@ (pc :> 1)
Tenths == (pa :> 4) @@ (pb :> 4) @@ (pc :> 15)

\* A payout of one of the two wallets.
OfferedWallet == (pa :> w1)

\* Two pages, the display image as an <img> of a page, and plain data.
SomeFetches ==
  {[url |-> "/", navigate |-> TRUE], [url |-> "/events/1", navigate |-> TRUE],
   [url |-> "/events/1/display.png", navigate |-> FALSE],
   [url |-> "/data", navigate |-> FALSE]}

walletVars == <<now, nonce, fresh, sent, request, accepted, wallets, users, cookie, foreign, tab,
                inflight, read, mustClear, shown>>
githubVars == <<linkNow, session, oauthCookie, flow, approved, spent, call, link, tx>>
earnedVars == <<recorded, walletCookie, connected, loading, page, search>>
profileVars == <<assigned, confirmed, holder, account, public, profile>>
prefVars == <<mounted, theme, html, queue, themeCookie, preference, stored, os, watched,
              attr, browser>>
workerVars == <<worker, latest, cache, fetch, answer>>
vars == <<part, walletVars, githubVars, earnedVars, profileVars, prefVars, workerVars>>

Init ==
  /\ part \in {"wallet", "github", "earned", "profile", "preferences", "worker"}
  /\ Wallet!Init /\ GitHub!Init /\ Earned!Init
  /\ Profiles!Init /\ Prefs!Init /\ Worker!Init
  /\ part # "github" => session = [b \in Browsers |-> w1]
  /\ part # "profile" => holder = (u1 :> l1) @@ (u2 :> l2)
  /\ part # "preferences" => ~os /\ browser = [stores |-> FALSE, transitions |-> FALSE]

Next ==
  \/ /\ part = "wallet" /\ Wallet!Next
     /\ UNCHANGED <<part, githubVars, earnedVars, profileVars, prefVars, workerVars>>
  \/ /\ part = "github" /\ GitHub!Next
     /\ UNCHANGED <<part, walletVars, earnedVars, profileVars, prefVars, workerVars>>
  \/ /\ part = "earned" /\ Earned!Next
     /\ UNCHANGED <<part, walletVars, githubVars, profileVars, prefVars, workerVars>>
  \/ /\ part = "profile" /\ Profiles!Next
     /\ UNCHANGED <<part, walletVars, githubVars, earnedVars, prefVars, workerVars>>
  \/ /\ part = "preferences" /\ Prefs!Next
     /\ UNCHANGED <<part, walletVars, githubVars, earnedVars, profileVars, workerVars>>
  \/ /\ part = "worker" /\ Worker!Next
     /\ UNCHANGED <<part, walletVars, githubVars, earnedVars, profileVars, prefVars>>

\* The fairness of the two parts that state some; at rest their actions are disabled.
Spec == Init /\ [][Next]_vars /\ Prefs!Fairness /\ Worker!Fairness
=========================================================================
