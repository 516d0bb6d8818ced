---------------------------- MODULE Registration ----------------------------
(***************************************************************************)
(* Team registration and the start of judging for one event: the server    *)
(* actions registerTeam and startJudging, cut at every await, against the  *)
(* unique index and the freeze trigger of the teams tables.                *)
(*                                                                         *)
(* A submission is a repository owner and a host; a login is a name up to  *)
(* case; a trustline is what Horizon reports in units. Postgres runs READ  *)
(* COMMITTED: the insert of a team and its member takes effect at Commit,  *)
(* the freeze trigger reads the status at Insert.                          *)
(***************************************************************************)
EXTENDS Integers, FiniteSets

CONSTANTS
  Wallets, Requests, Judgings,  \* sessions; calls of registerTeam, startJudging
  Names,                        \* GitHub logins, compared without case
  Lines,                        \* trustlines Horizon may report
  None

\* Amounts are counted in stroops.
RegistrationAssumption ==
  Lines \subseteq [authorized : BOOLEAN, limit : Nat, balance : Nat, liabilities : Nat]

VARIABLES
  status, requireGithub,  \* the event row
  linked,    \* LinkedAccount: [Wallets -> login or None]
  line,      \* [Wallets -> trustline or None]
  recorded,  \* usdcTrustlineVerifiedAt: the trustline that was seen, or None
  request,   \* calls of registerTeam
  judging,   \* calls of startJudging
  teams      \* committed teams

event == <<status, requireGithub>>
world == <<linked, line>>
vars == <<event, world, recorded, request, judging, teams>>

Statuses == {"DRAFT", "CREATED", "LIVE", "JUDGING", "COMPLETED", "DISPUTED", "CANCELLED"}
Submissions == [host : {"github.com", "other"}, owner : Names \cup {None}]
NoRequest == [step |-> "none", wallet |-> None, sub |-> None, gh |-> FALSE, verified |-> FALSE]
Team == [wallet : Wallets, by : Requests, verified : BOOLEAN]

EVENT_TRANSITIONS ==
  [s \in Statuses |->
     CASE s = "DRAFT"    -> {"CREATED"}
       [] s = "CREATED"  -> {"LIVE", "DISPUTED", "CANCELLED"}
       [] s = "LIVE"     -> {"JUDGING", "DISPUTED", "CANCELLED"}
       [] s = "JUDGING"  -> {"COMPLETED", "DISPUTED", "CANCELLED"}
       [] s = "DISPUTED" -> {"COMPLETED", "CANCELLED"}
       [] OTHER          -> {}]

canTransitionEvent(from, to) == to \in EVENT_TRANSITIONS[from]

\* Mutant: liabilities are forgotten.
trustlineHeadroom_NoLiabilities(l) == l.limit - l.balance

\* What the line can still receive.
trustlineHeadroom(l) == l.limit - l.balance - l.liabilities

\* The issuer authorised the line and there is room for one stroop.
hasUsdcTrustline(l) == l # None /\ l.authorized /\ trustlineHeadroom(l) > 0

\* owner/repo under github.com, or nothing.
parseGitHubRepoUrl(sub) == IF sub.host = "github.com" THEN sub.owner ELSE None

\* registerTeam passes neither permissions nor a collaborator flag.
checkRepoOwnership(login, owner) == login # None /\ owner # None /\ login = owner

TypeOK ==
  /\ status \in Statuses /\ requireGithub \in BOOLEAN
  /\ linked \in [Wallets -> Names \cup {None}]
  /\ line \in [Wallets -> Lines \cup {None}] /\ recorded \in [Wallets -> Lines \cup {None}]
  /\ \A r \in Requests :
       /\ request[r].step \in {"none", "github", "trustline", "record", "existing",
                               "insert", "commit", "done", "failed"}
       /\ request[r].step # "none" => request[r].wallet \in Wallets
       /\ request[r].verified => request[r].gh
  /\ judging \in [Judgings -> {"none", "update", "done", "failed"}]
  /\ teams \subseteq Team

Init ==
  /\ status \in {"DRAFT", "CREATED", "LIVE"} /\ requireGithub \in BOOLEAN
  /\ linked \in [Wallets -> Names \cup {None}]
  /\ line \in [Wallets -> Lines \cup {None}]
  /\ recorded = [w \in Wallets |-> None]
  /\ request = [r \in Requests |-> NoRequest]
  /\ judging = [j \in Judgings |-> "none"] /\ teams = {}

At(r, step) == request[r].step = step
Goto(r, step) == request' = [request EXCEPT ![r].step = step]

\* What registerTeam holds after its checks of session and input.
Entered(w, s) == [step |-> "read", wallet |-> w, sub |-> s, gh |-> requireGithub, verified |-> FALSE]

\* Session and input are checked, the event is read: it must be LIVE.
\* The form of the same tab is disabled while a call is pending.
ReadEvent(r) ==
  /\ At(r, "none")
  /\ \E w \in Wallets, s \in Submissions :
       request' = [request EXCEPT ![r] =
         [Entered(w, s) EXCEPT !.step =
            IF status # "LIVE" THEN "failed" ELSE IF requireGithub THEN "github" ELSE "trustline"]]
  /\ UNCHANGED <<event, world, recorded, judging, teams>>

CheckGithub(r) ==
  /\ At(r, "github")
  /\ LET ok == checkRepoOwnership(linked[request[r].wallet], parseGitHubRepoUrl(request[r].sub))
     IN  request' = [request EXCEPT ![r].step = IF ok THEN "trustline" ELSE "failed",
                                    ![r].verified = ok]
  /\ UNCHANGED <<event, world, recorded, judging, teams>>

\* Horizon answers, or the lookup throws.
CheckTrustline(r) ==
  LET l == line[request[r].wallet] IN
  /\ At(r, "trustline")
  /\ \/ hasUsdcTrustline(l) /\ request' = [request EXCEPT ![r].step = "record", ![r].sub = l]
     \/ Goto(r, "failed")
  /\ UNCHANGED <<event, world, recorded, judging, teams>>

RecordTrustline(r) ==
  /\ At(r, "record")
  /\ recorded' = [recorded EXCEPT ![request[r].wallet] = request[r].sub]
  /\ Goto(r, "existing")
  /\ UNCHANGED <<event, world, judging, teams>>

Registered(w) == \E t \in teams : t.wallet = w

CheckExisting(r) ==
  /\ At(r, "existing")
  /\ Goto(r, IF Registered(request[r].wallet) THEN "failed" ELSE "insert")
  /\ UNCHANGED <<event, world, recorded, judging, teams>>

\* The unique index (eventId, walletId): an uncommitted row makes others wait.
UniqueAllows(r) ==
  \A q \in Requests \ {r} : ~(At(q, "commit") /\ request[q].wallet = request[r].wallet)

\* Statuses in which team_members_enforce_freeze lets members change.
Unfrozen == {"DRAFT", "CREATED", "LIVE"}

\* Mutant: the row is inserted whoever is already there.
InsertOk_Twice(r) == status \in Unfrozen

\* team_members_enforce_freeze and the index on committed rows.
InsertOk(r) == status \in Unfrozen /\ ~Registered(request[r].wallet)

Insert(r) ==
  /\ At(r, "insert") /\ UniqueAllows(r)
  /\ Goto(r, IF InsertOk(r) THEN "commit" ELSE "failed")
  /\ UNCHANGED <<event, world, recorded, judging, teams>>

Commit(r) ==
  /\ At(r, "commit")
  /\ teams' = teams \cup {[wallet |-> request[r].wallet, by |-> r, verified |-> request[r].verified]}
  /\ Goto(r, "done")
  /\ UNCHANGED <<event, world, recorded, judging>>

registerTeam(r) ==
  \/ ReadEvent(r) \/ CheckGithub(r) \/ CheckTrustline(r) \/ RecordTrustline(r)
  \/ CheckExisting(r) \/ Insert(r) \/ Commit(r)

----------------------------------------------------------------------------
\* startJudging reads the event of the organizer: it must be LIVE.
ReadForJudging(j) ==
  /\ judging[j] = "none"
  /\ judging' = [judging EXCEPT ![j] = IF status = "LIVE" THEN "update" ELSE "failed"]
  /\ UNCHANGED <<event, world, recorded, request, teams>>

\* updateMany where status = from: the slower caller matches no row.
transitionEvent(j, from, to) ==
  /\ canTransitionEvent(from, to)
  /\ IF status = from
     THEN status' = to /\ judging' = [judging EXCEPT ![j] = "done"]
     ELSE status' = status /\ judging' = [judging EXCEPT ![j] = "failed"]

startJudging(j) ==
  /\ judging[j] = "update"
  /\ transitionEvent(j, "LIVE", "JUDGING")
  /\ UNCHANGED <<requireGithub, world, recorded, request, teams>>

----------------------------------------------------------------------------
\* core-go confirms creation, go-live and release (CoreService).
CoreMovesEvent ==
  /\ status' = CASE status = "DRAFT" -> "CREATED" [] status = "CREATED" -> "LIVE"
                 [] status = "JUDGING" -> "COMPLETED" [] OTHER -> status
  /\ UNCHANGED <<requireGithub, world, recorded, request, judging, teams>>

\* The owner of a wallet opens, fills or closes the trustline.
TrustlineChanges ==
  /\ \E w \in Wallets, l \in Lines \cup {None} : line' = [line EXCEPT ![w] = l]
  /\ UNCHANGED <<event, linked, recorded, request, judging, teams>>

Next ==
  \/ \E r \in Requests : registerTeam(r)
  \/ \E j \in Judgings : ReadForJudging(j) \/ startJudging(j)
  \/ CoreMovesEvent \/ TrustlineChanges

Spec == Init /\ [][Next]_vars

----------------------------------------------------------------------------
\* A wallet is on one team of the event, whatever calls of registerTeam
\* passed the check for an existing registration together.
OneTeamPerWallet ==
  \A s, t \in teams : s.wallet = t.wallet => s = t

\* A team's wallet was seen with a trustline that takes a payment, by the
\* ledger's rule (balance plus liabilities plus one stroop within the limit).
RegisteredCouldReceive ==
  \A t \in teams :
    LET l == recorded[t.wallet]
    IN  l # None /\ l.authorized /\ l.balance + l.liabilities + 1 <= l.limit

\* "A team's membership and shares may only change while its event is still
\* DRAFT, CREATED, FUNDED, or LIVE" (migration of the teams tables).
TeamsFrozen == [][teams' # teams => status \in Unfrozen]_vars
=============================================================================
