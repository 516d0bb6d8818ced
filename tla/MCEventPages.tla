---------------------------- MODULE MCEventPages ----------------------------
(***************************************************************************)
(* Small instances of what happens to one event in the web app, and the QR  *)
(* code that the deposit panel draws. The parts share no variable, so each  *)
(* is explored alone: part names the one that moves, the others stay as     *)
(* they begin.                                                              *)
(***************************************************************************)
EXTENDS EventPages, TLC

CONSTANTS w1, c1, c2   \* a wallet; choices of winners

VARIABLES
  part,
  input, pc, version, ecl, data, rs, codewords, grid, try, best

\* In the cfg, the base, the number of decimals and the ranges are small; as in
\* the source the column holds no prize an int64 cannot, one prize may exceed
\* what a JavaScript number holds, and three wrap around to a positive number.
\* Typed are: nothing, every amount, one written two ways, one with too many decimals and
\* one too large for the column.
AmountTexts ==
  [whole : {0}, frac : {<<>>, <<1>>, <<0, 1>>, <<1, 0>>, <<1, 1>>, <<0, 0, 1>>}]
    \cup [whole : {1}, frac : {<<>>}]

Repeat(pattern, n) == [i \in 1..n |-> pattern[((i - 1) % Len(pattern)) + 1]]
Digits(n) == Repeat(<<51, 49, 52, 48, 57>>, n)
Upper(n) == Repeat(<<72, 58, 47, 65, 90, 48>>, n)
Lower(n) == Repeat(<<104, 116, 47, 101, 118, 45, 57>>, n)
Call(t, e) == [text |-> t, ecl |-> e]

\* The three modes, a text that fills its version to the last bit and one that
\* is just too long for it, two-, three- and four-byte characters, short and
\* long blocks (version 5, QUARTILE).
DrawnInputs == {
  Call(Digits(42), 0), Call(Upper(25), 0), Call(Lower(58), 2), Call(<<233, 8364, 128512, 97>>, 1)}

\* One character more than version 40 holds, so that every version is visited,
\* and the longest text the comment promises.
LongInputs == {
  Call(Lower(2954), 0), Call(Lower(2332), 1), Call(Lower(1664), 2), Call(Lower(1274), 3),
  Call(Repeat(<<128512>>, 738), 0), Call(Repeat(<<128512>>, 739), 0)}

Qr == INSTANCE QrCode WITH Inputs <- DrawnInputs \cup LongInputs

\* An open line, a full one, one whose liabilities fill it, an unauthorised one.
LineKinds ==
  {[authorized |-> TRUE, limit |-> 2, balance |-> 1, liabilities |-> 0],
   [authorized |-> TRUE, limit |-> 2, balance |-> 1, liabilities |-> 1],
   [authorized |-> FALSE, limit |-> 2, balance |-> 0, liabilities |-> 0]}

\* Two assignments of the same winners to the ranks: both pay the wallet.
Teammates == (c1 :> {w1}) @@ (c2 :> {w1})

draftVars == <<rows, typed, prizes, error, required, reward, envelope, reserved>>
depositVars == <<op, thread, depositSeq, sent, landed, credited, balance, spent, shownBalance,
                 depositBuilt, phase, pendingHash, depositPrompts, depositAwaited>>
qrVars == <<input, pc, version, ecl, data, rs, codewords, grid, try, best>>
screenVars == <<screen, status, recorded, row, req, seq, seqOf, pool, included, reverted,
                funds, deadlineAhead,
                at, covered, built, submitted, failure, prompts, awaited>>
teamVars == <<eventStatus, requireGithub, linked, line, verified, request, judging, teams>>
judgeVars == <<open, completed, releaseRow, releaseReq, releasePool, tried, paid, judgeSeq,
               selection, building, releaseBuilt, releaseSubmitted, releaseFailure,
               releasePrompts, releaseAwaited>>
viewVars == <<eventRow, chain, rendering, rendered>>
logVars == <<opRow, call, opBuilt, opSeq, opIncluded, answered>>
vars == <<part, draftVars, depositVars, qrVars, screenVars, teamVars, judgeVars, viewVars, logVars>>

Init ==
  /\ part \in {"draft", "deposit", "draw", "capacity", "screen", "teams", "judge",
               "views", "log"}
  /\ Draft!Init /\ Deposit!Init /\ Qr!Init /\ Screen!Init /\ Teams!Init /\ Judge!Init
  /\ Views!Init /\ Log!Init
  /\ input \in CASE part = "draw" -> DrawnInputs
                 [] part = "capacity" -> LongInputs
                 [] OTHER -> {Call(Digits(42), 0)}
  /\ part # "screen" => covered /\ screen = "fund"
  /\ part # "teams" =>
       /\ eventStatus = "LIVE" /\ ~requireGithub
       /\ \A w \in Entrants : linked[w] = None /\ line[w] = None
  /\ part # "views" => DOMAIN eventRow.winner = {1, 2}

Next ==
  \/ /\ part = "draft" /\ Draft!Next
     /\ UNCHANGED <<part, depositVars, qrVars, screenVars, teamVars, judgeVars, viewVars, logVars>>
  \/ /\ part = "deposit" /\ Deposit!Next
     /\ UNCHANGED <<part, draftVars, qrVars, screenVars, teamVars, judgeVars, viewVars, logVars>>
  \/ /\ part \in {"draw", "capacity"} /\ Qr!Next
     /\ UNCHANGED <<part, draftVars, depositVars, screenVars, teamVars, judgeVars, viewVars, logVars>>
  \/ /\ part = "screen" /\ Screen!Next
     /\ UNCHANGED <<part, draftVars, depositVars, qrVars, teamVars, judgeVars, viewVars, logVars>>
  \/ /\ part = "teams" /\ Teams!Next
     /\ UNCHANGED <<part, draftVars, depositVars, qrVars, screenVars, judgeVars, viewVars, logVars>>
  \/ /\ part = "judge" /\ Judge!Next
     /\ UNCHANGED <<part, draftVars, depositVars, qrVars, screenVars, teamVars, viewVars, logVars>>
  \/ /\ part = "views" /\ Views!Next
     /\ UNCHANGED <<part, draftVars, depositVars, qrVars, screenVars, teamVars, judgeVars, logVars>>
  \/ /\ part = "log" /\ Log!Next
     /\ UNCHANGED <<part, draftVars, depositVars, qrVars, screenVars, teamVars, judgeVars, viewVars>>

Spec == Init /\ [][Next]_vars

\* The long texts are followed through the search for a version only.
Searching == part = "capacity" => pc = "search"

----------------------------------------------------------------------------
\* qrSvgPath: the symbol is of the right size and reads back as the text.
Decodes == part = "draw" => Qr!TypeOK /\ Qr!Decodes
\* getNumRawDataModules: the closed form counts the free modules.
CapacityIsExact == part = "capacity" => Qr!CapacityIsExact
=============================================================================
