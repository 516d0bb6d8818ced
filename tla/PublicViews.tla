---------------------------- MODULE PublicViews ----------------------------
(***************************************************************************)
(* What the public surfaces say of an event: its page, the print receipt,  *)
(* the projector image and the social card. Each first reads the database  *)
(* row, then simulates get_event on the chain, and renders from the two;   *)
(* meanwhile core-go, the organizer, the judge and the contract go on.     *)
(*                                                                         *)
(* Teams and ranks are numbers; a team's first member stands for it.       *)
(* Bounds: at most MaxTeams teams, rewards up to MaxReward.                *)
(***************************************************************************)
EXTENDS Naturals, Sequences, FiniteSets

CONSTANTS
  PrizeCounts,  \* the numbers of prizes an event may have
  MaxTeams, MaxReward,
  Linkers,      \* teams whose member links a GitHub account
  None

Surfaces == {"page", "receipt", "display", "card"}
Viewers == {"visitor", "organizer", "judge", "member", "other"}
Locked == {"Created", "WaitingForStart", "InProgress"}   \* the reward is in the contract

\* An event of the contract, as get_event returns it.
ChainEvent ==
  [state : Locked \cup {"Ended", "Cancelled", "Compensated"}, reward : 0..MaxReward,
   released : BOOLEAN]

ViewsAssumption ==
  PrizeCounts \cup {MaxTeams, MaxReward} \subseteq Nat /\ None \notin ChainEvent \cup Surfaces

VARIABLES
  row,      \* the event with its prizes, teams and linked accounts
  chain,    \* the contract's event; None before create_event
  request,  \* the rendering under way
  shown     \* what the last rendering said

vars == <<row, chain, request, shown>>

Ranks == 1..Len(row.winner)
NoRequest == [surface |-> None, viewer |-> None, row |-> None]
NothingShown ==
  [surface |-> None, read |-> "none", claims |-> {}, paid |-> {}, handles |-> {}, linked |-> {}]

Claims == {"status", "locked", "verified", "reward", "readFailed", "notOnChain",
           "defaultResolver", "resolver", "unavailable", "generic", "open", "closed", "judging",
           "allPaid", "pending", "morePaid", "morePending", "notFound",
           "toggle", "goLive", "judgeLink", "register", "registered", "registrationClosed", "connect"}

TypeOK ==
  /\ row.status \in {"DRAFT", "CREATED", "LIVE", "JUDGING", "COMPLETED"}
  /\ row.onChain \in BOOLEAN /\ row.closed \in BOOLEAN /\ row.teams \in 0..MaxTeams
  /\ row.linked \subseteq Linkers
  /\ row.winner \in [Ranks -> 1..MaxTeams \cup {None}] /\ row.paid \in [Ranks -> BOOLEAN]
  /\ chain \in ChainEvent \cup {None}
  /\ request.surface \in Surfaces \cup {None} /\ request.viewer \in Viewers \cup {None}
  /\ shown.surface \in Surfaces \cup {None} /\ shown.read \in {"none", "failed", "ok"}
  /\ shown.claims \subseteq Claims /\ shown.paid \subseteq Ranks
  /\ shown.handles \subseteq shown.linked
  /\ (shown.surface = "receipt" => Cardinality(shown.claims) = 1)

Init ==
  /\ \E n \in PrizeCounts :
       row = [status |-> "DRAFT", onChain |-> FALSE, closed |-> FALSE, teams |-> 0, linked |-> {},
              winner |-> [i \in 1..n |-> None], paid |-> [i \in 1..n |-> FALSE]]
  /\ chain = None /\ request = NoRequest /\ shown = NothingShown

----------------------------------------------------------------------------
(* The event moves on: core-go's records, the web app's own, the chain.    *)

CreateOnChain ==
  /\ chain = None
  /\ \E r \in 1..MaxReward : chain' = [state |-> "Created", reward |-> r, released |-> FALSE]
  /\ UNCHANGED <<row, request, shown>>

Record(r) == row' = r /\ UNCHANGED <<chain, request, shown>>

RecordCreate ==
  /\ row.status = "DRAFT" /\ chain # None
  /\ Record([row EXCEPT !.status = "CREATED", !.onChain = TRUE])

RecordStart ==
  /\ row.status = "CREATED" /\ chain.state = "InProgress"
  /\ Record([row EXCEPT !.status = "LIVE"])

Register ==
  /\ row.status = "LIVE" /\ row.teams < MaxTeams
  /\ Record([row EXCEPT !.teams = @ + 1])

LinkGithub(t) == t <= row.teams /\ Record([row EXCEPT !.linked = @ \cup {t}])

RegistrationCloses == ~row.closed /\ Record([row EXCEPT !.closed = TRUE])

StartJudging == row.status = "LIVE" /\ Record([row EXCEPT !.status = "JUDGING"])

\* A release build gives every prize its winner; a later build gives it another.
AssignWinners(shift) ==
  /\ row.status = "JUDGING" /\ shift + Len(row.winner) <= row.teams
  /\ Record([row EXCEPT !.winner = [i \in Ranks |-> i + shift]])

RecordRelease ==
  /\ row.status = "JUDGING" /\ chain.released
  /\ Record([row EXCEPT !.status = "COMPLETED", !.paid = [i \in Ranks |-> row.winner[i] # None]])

OnChain(from, c) ==
  /\ chain # None /\ chain.state \in from /\ chain' = c /\ UNCHANGED <<row, request, shown>>

StartOnChain == OnChain({"Created", "WaitingForStart"}, [chain EXCEPT !.state = "InProgress"])

ReleaseOnChain ==
  /\ row.winner[1] # None
  /\ OnChain({"InProgress"}, [chain EXCEPT !.state = "Ended", !.released = TRUE])

\* Calls core-go has no handler for, made at the contract itself.
WaitOnChain == OnChain({"Created"}, [chain EXCEPT !.state = "WaitingForStart"])
CancelOnChain == OnChain({"Created", "WaitingForStart"}, [chain EXCEPT !.state = "Cancelled"])
CompensateOnChain == OnChain({"Cancelled"}, [chain EXCEPT !.state = "Compensated"])
ResolveOnChain == OnChain({"InProgress"}, [chain EXCEPT !.state = "Ended"])
WithdrawOnChain ==
  /\ chain # None /\ chain.reward > 0
  /\ OnChain({"Created", "WaitingForStart"}, [chain EXCEPT !.reward = @ - 1])

Elsewhere ==
  \/ CreateOnChain \/ RecordCreate \/ RecordStart \/ Register \/ RegistrationCloses
  \/ (\E t \in Linkers : LinkGithub(t)) \/ StartJudging
  \/ (\E shift \in 0..MaxTeams : AssignWinners(shift)) \/ RecordRelease
  \/ StartOnChain \/ ReleaseOnChain
  \/ WaitOnChain \/ CancelOnChain \/ CompensateOnChain \/ ResolveOnChain \/ WithdrawOnChain

----------------------------------------------------------------------------
(* The card model. An escrow is the chain's event as read, or None.        *)

StoredProvider == "GITHUB"   \* the provider the callback writes

linkedAccounts(r, provider) == IF provider = StoredProvider THEN r.linked ELSE {}

formatMemberHandle(r, team) == team \in linkedAccounts(r, "github")

\* The prizes that have a winner; their order is that of their ranks.
winners(r) ==
  {[rank |-> i, team |-> r.winner[i], paid |-> r.paid[i],
    handle |-> formatMemberHandle(r, r.winner[i])] : i \in {j \in DOMAIN r.winner : r.winner[j] # None}}

buildEventCardModel(r, escrow) ==
  LET money == escrow # None /\ escrow.reward > 0
  IN  [status |-> r.status, winners |-> winners(r), isRegistrationClosed |-> r.closed,
       hasVerifiableMoney |-> money,
       templateType |-> CASE money /\ r.status \in {"LIVE", "JUDGING"} -> "open"
                          [] money /\ r.status = "COMPLETED" -> "winners"
                          [] OTHER -> "generic"]

----------------------------------------------------------------------------
(* Each surface: its claims, the ranks it shows as paid, its GitHub handles *)

View(claims, paid, handles) == [claims |-> claims, paid |-> paid, handles |-> handles]
Words(claims) == View(claims, {}, {})
Handles(ws) == {w.team : w \in {v \in ws : v.handle}}
PaidAmong(ws) == {w.rank : w \in {v \in ws : v.paid}}
AllPaid(ws) == ws # {} /\ \A w \in ws : w.paid

GenericCard == Words({"generic"})

statusLabel(m) ==
  CASE m.status = "JUDGING" -> "judging"
    [] m.status # "JUDGING" /\ m.isRegistrationClosed -> "closed"
    [] OTHER -> "open"

OpenEventCard(m) == Words({"locked", statusLabel(m)})

\* The first winners of the list, as many as the card has room for.
Visible(ws, limit) == {w \in ws : Cardinality({v \in ws : v.rank < w.rank}) < limit}

WinnerCard(w) ==
  View({}, IF w.paid THEN {w.rank} ELSE {}, IF w.handle THEN {w.team} ELSE {})

\* The note on the winners the card has no room for.
OmittedNote(omitted) ==
  IF omitted = {} THEN {} ELSE {IF AllPaid(omitted) THEN "morePaid" ELSE "morePending"}

\* One card per visible winner.
WinnersEventCard(m) ==
  LET limit == IF Cardinality(m.winners) >= 4 THEN 6 ELSE 3
      cards == {WinnerCard(w) : w \in Visible(m.winners, limit)}
      omitted == m.winners \ Visible(m.winners, limit)
  IN  View({IF AllPaid(m.winners) THEN "allPaid" ELSE "pending"} \cup OmittedNote(omitted),
           UNION {c.paid : c \in cards}, UNION {c.handles : c \in cards})

renderEventCard(m) ==
  CASE m.templateType = "open" -> OpenEventCard(m)
    [] m.templateType = "winners" -> WinnersEventCard(m)
    [] OTHER -> GenericCard

DisplayEventCard(m) == Words({"locked", IF m.status = "JUDGING" THEN "judging" ELSE "open"})

\* display.png's GET.
DisplayImage(r, escrow) ==
  LET m == buildEventCardModel(r, escrow)
  IN  IF r.status \in {"LIVE", "JUDGING"} /\ m.hasVerifiableMoney
      THEN DisplayEventCard(m) ELSE Words({"notFound"})

\* There are prizes, and each has a winner and a hash, not just those with a winner.
allPayoutsConfirmed(r) ==
  DOMAIN r.winner # {} /\ \A i \in DOMAIN r.winner : r.winner[i] # None /\ r.paid[i]

EventPrintPage(r, escrow) ==
  LET m == buildEventCardModel(r, escrow) IN
  CASE r.status # "COMPLETED" -> Words({"notFound"})
    [] r.status = "COMPLETED" /\ ~m.hasVerifiableMoney -> Words({"unavailable"})
    [] OTHER -> View({IF allPayoutsConfirmed(r) THEN "allPaid" ELSE "pending"},
                     PaidAmong(m.winners), Handles(m.winners))

OnchainBadge(r, escrow) ==
  CASE ~r.onChain -> {"notOnChain"}
    [] r.onChain /\ escrow = None -> {"readFailed"}
    [] r.onChain /\ escrow # None /\ escrow.state \in Locked \cup {"Ended"} -> {"reward", "verified"}
    [] OTHER -> {"reward"}

\* The chain's event always names a resolver, the default one included.
resolveDisputeResolver(escrow) == IF escrow = None THEN "defaultResolver" ELSE "resolver"

resolver(r, escrow) ==
  IF r.onChain /\ escrow = None THEN "unavailable" ELSE resolveDisputeResolver(escrow)

\* Mutant: a prize with a winner is listed as paid.
PayoutHistory_Assigned(r) == {i \in DOMAIN r.paid : r.winner[i] # None}

PayoutHistory(r) == {i \in DOMAIN r.paid : r.paid[i]}

\* The prizes with a payout link.
PrizeList(r) == {i \in DOMAIN r.paid : r.paid[i]}

CallsToAction(r, viewer) ==
  LET organizer == viewer = "organizer"
      judge == viewer = "judge"
      registered == viewer = "member" /\ r.teams > 0
      When(condition, offer) == IF condition THEN {offer} ELSE {}
  IN  IF viewer = "visitor" THEN {"connect"}
      ELSE When(organizer /\ r.status = "LIVE", "toggle")
           \cup When(organizer /\ r.status = "CREATED", "goLive")
           \cup When(judge, "judgeLink")
           \cup When(r.status = "LIVE" /\ ~registered /\ ~organizer, "register")
           \cup When(registered, "registered")
           \cup When(~organizer /\ ~judge /\ ~registered /\ r.status # "LIVE", "registrationClosed")

EventPage(r, escrow, viewer) ==
  View({"status", resolver(r, escrow)} \cup OnchainBadge(r, escrow) \cup CallsToAction(r, viewer),
       PrizeList(r) \cup PayoutHistory(r), {})

Render(surface, r, escrow, viewer) ==
  CASE surface = "page" -> EventPage(r, escrow, viewer)
    [] surface = "receipt" -> EventPrintPage(r, escrow)
    [] surface = "display" -> DisplayImage(r, escrow)
    [] surface = "card" -> renderEventCard(buildEventCardModel(r, escrow))

loadPublicEventView(surface, viewer) ==
  /\ request = NoRequest
  /\ request' = [surface |-> surface, viewer |-> viewer, row |-> row]
  /\ shown' = NothingShown /\ UNCHANGED <<row, chain>>

\* The chain is read after the row, and only for a row that names its event.
readEscrowEvent ==
  /\ request # NoRequest
  /\ LET r == request.row IN
     \E read \in IF r.onChain THEN {"ok", "failed"} ELSE {"none"} :
       LET v == Render(request.surface, r, IF read = "ok" THEN chain ELSE None, request.viewer)
       IN  shown' = [surface |-> request.surface, read |-> read, claims |-> v.claims,
                     paid |-> v.paid, handles |-> v.handles,
                     linked |-> IF v.paid = {} \/ request.surface = "page" THEN {}
                                ELSE {r.winner[i] : i \in v.paid} \cap r.linked]
  /\ request' = NoRequest /\ UNCHANGED <<row, chain>>

Next ==
  \/ Elsewhere
  \/ (\E s \in Surfaces, v \in Viewers :
        (s = "page" \/ v = "visitor") /\ loadPublicEventView(s, v))
  \/ readEscrowEvent

Spec == Init /\ [][Next]_vars
----------------------------------------------------------------------------

\* Nothing public says a prize is paid (payout history, receipt, winners card,
\* the note on omitted winners) before the contract has paid the winners: a
\* winner is on the row from the first release build on.
PaidClaimsHold ==
  (shown.paid # {} \/ shown.claims \cap {"allPaid", "morePaid"} # {}) => chain.released

=============================================================================
