---------------------------- MODULE EventDraft ----------------------------
(***************************************************************************)
(* A prize amount on its way from the form to the chain: the text of the   *)
(* draft form (event-form.tsx), parseUsdcAmount and the Decimal column     *)
(* (organizer/new/actions.ts, lib/escrow/amount.ts), the sum the funding   *)
(* page shows (fund/page.tsx), core-go's own sum in int64 (create.go,      *)
(* amount.go), the JSON number between them and the check before signing.  *)
(*                                                                         *)
(* Digits and widths are scaled down: Base for 10, Decimals for 7,         *)
(* WholeMax for the column's 11 whole digits, IntMax for 2^63 - 1, JsSafe  *)
(* for 2^53. Bounds: MaxRows, and the texts Typeable.                      *)
(***************************************************************************)
EXTENDS Integers, SequencesExt

CONSTANTS
  Base, Decimals, WholeMax, IntMax, JsSafe, MaxRows,
  Typeable,   \* the texts that are typed
  None

VARIABLES
  rows,      \* prize inputs
  typed,     \* what they held when the draft was written
  prizes,    \* Prize rows in units of the last decimal, by rank
  error,     \* result of the last submission
  required,  \* sum on the funding page, or Failed
  reward,    \* core-go's answer, as JavaScript reads it
  envelope,  \* the reward in the transaction core-go built
  reserved   \* the reward of the transaction that was signed

draft == <<rows, typed, prizes, error>>
funding == <<required, reward, envelope, reserved>>
vars == <<draft, funding>>

\* What the rounds step[1] to step[n] make of start.
Loop(n, start, step) ==
  LET after[k \in 0..n] == IF k = 0 THEN start ELSE step[k][after[k - 1]]
  IN after[n]

\* Base to the power of n.
Power(n) == Loop(n, 1, [k \in 1..n |-> [p \in Int |-> p * Base]])

Unit == Power(Decimals)
Digits == UNION {[1..n -> 0..(Base - 1)] : n \in 0..(Decimals + 1)}

\* Decimal texts; the empty text and every other one are None.
Texts == [whole : 0..(WholeMax + 1), frac : Digits]

DraftAssumption ==
  /\ WholeMax \in Nat /\ {Base, Decimals, IntMax, JsSafe, MaxRows} \subseteq Nat \ {0}
  /\ Base > 1
  /\ Typeable \subseteq Texts \cup {None} /\ None \notin Texts

\* The number a run of digits writes.
Value(digits) ==
  Loop(Len(digits), 0, [k \in 1..Len(digits) |->
                         [n \in Int |-> n * Base + digits[k]]])

\* Mutant: the fraction is not padded.
PadEnd_Missing(digits) == digits

PadEnd(digits) == digits \o [i \in 1..(Decimals - Len(digits)) |-> 0]

Units(text) == text.whole * Unit + Value(PadEnd(text.frac))

\* A positive amount with at most Decimals places, else None. "1." does not
\* match DECIMAL.
parseUsdcAmount(text) ==
  IF text = None THEN None
  ELSE IF Len(text.frac) > Decimals THEN None
  ELSE IF Units(text) > 0 THEN Units(text) ELSE None

\* No session, or one of name, judge and deadline is refused.
FieldErrors == {"notConnected", "invalidField"}

TypeOK ==
  /\ rows \in Seq(Texts \cup {None}) /\ Len(rows) \in 1..MaxRows
  /\ error \in FieldErrors \cup {"invalidPrize", "writeFailed", None}
  /\ prizes # None =>
       /\ Len(prizes) = Len(typed)
       /\ \A i \in DOMAIN prizes : prizes[i] \in 1..((WholeMax + 1) * Unit - 1)
  /\ required # None => prizes # None

Init ==
  /\ rows = <<None>> /\ typed = None /\ prizes = None /\ error = None
  /\ required = None /\ reward = None /\ envelope = None /\ reserved = None

----------------------------------------------------------------------------
AddPrize ==
  /\ prizes = None /\ Len(rows) < MaxRows
  /\ rows' = Append(rows, None) /\ UNCHANGED <<typed, prizes, error, funding>>

RemovePrize(i) ==
  /\ prizes = None /\ Len(rows) > 1
  /\ rows' = RemoveAt(rows, i) /\ UNCHANGED <<typed, prizes, error, funding>>

setPrize(i, text) ==
  /\ prizes = None
  /\ rows' = [rows EXCEPT ![i] = text] /\ UNCHANGED <<typed, prizes, error, funding>>

\* Decimal(18, 7) refuses what does not fit before the point.
FitsColumn(v) == v < (WholeMax + 1) * Unit

\* createDraftEvent: every field is checked again; the event, its prizes and
\* its judge are one write.
createDraftEvent(field) ==
  /\ prizes = None
  /\ LET parsed == [i \in DOMAIN rows |-> parseUsdcAmount(rows[i])]
     IN CASE field # None -> error' = field /\ UNCHANGED <<typed, prizes>>
          [] field = None /\ \E i \in DOMAIN rows : parsed[i] = None ->
               error' = "invalidPrize" /\ UNCHANGED <<typed, prizes>>
          [] OTHER ->
               \/ error' = "writeFailed" /\ UNCHANGED <<typed, prizes>>
               \/ /\ \A i \in DOMAIN rows : FitsColumn(parsed[i])
                  /\ prizes' = parsed /\ typed' = rows /\ error' = None
  /\ UNCHANGED <<rows, funding>>

----------------------------------------------------------------------------
\* Whole units, and every decimal of the rest. Amounts are not negative.
StroopsToAmount(v) ==
  [whole |-> v \div Unit,
   frac |-> [i \in 1..Decimals |-> (v \div Power(Decimals - i)) % Base]]

\* The column's text has all its decimals, as core-go writes them.
ColumnText(v) == StroopsToAmount(v)

\* decimal.js writes 0.0000001 to 0.0000009 with an exponent, which DECIMAL
\* does not match, and drops trailing zeros.
DecimalToString(v) ==
  IF v < Base THEN None
  ELSE LET digits == ColumnText(v).frac
           last == CHOOSE n \in 0..Decimals :
                     /\ \A i \in n + 1..Decimals : digits[i] = 0
                     /\ n = 0 \/ digits[n] # 0
       IN [whole |-> v \div Unit, frac |-> SubSeq(digits, 1, last)]

Shown(v) == parseUsdcAmount(DecimalToString(v))
Sum(s) == Loop(Len(s), 0, [k \in 1..Len(s) |-> [n \in Int |-> n + s[k]]])
Failed == 0

\* FundPage: sumUsdcAmounts throws on a text it cannot parse.
OpenFunding ==
  /\ prizes # None
  /\ required' = IF \E i \in DOMAIN prizes : Shown(prizes[i]) = None THEN Failed
                 ELSE Sum([i \in DOMAIN prizes |-> Shown(prizes[i])])
  /\ reward' = None /\ envelope' = None
  /\ UNCHANGED <<draft, reserved>>

\* int64 addition.
Wrap(n) == ((n + IntMax + 1) % (2 * (IntMax + 1))) - (IntMax + 1)

\* One integer of all digits, the missing places filled with zeros.
AmountToStroops(text) ==
  text.whole * Unit + Value(text.frac) * Power(Decimals - Len(text.frac))

\* handleCreateBuild's sum.
Reward ==
  Loop(Len(prizes), 0, [k \in 1..Len(prizes) |->
    [n \in Int |-> Wrap(n + AmountToStroops(ColumnText(prizes[k])))]])

\* JSON.parse reads a double and String writes it in the fewest digits that
\* are read back as it: exact up to 2^53, then each step moves the number by at
\* most one part in 2^53.
JsNumbers(n) ==
  IF n <= JsSafe THEN {n} ELSE {m \in 0..(2 * n) : (m - n) * JsSafe \in (-2 * n)..(2 * n)}

\* The contract refuses a negative reward in the simulation.
BuildCreate ==
  /\ required \notin {None, Failed} /\ reward = None /\ Reward >= 0
  /\ envelope' = Reward /\ reward' \in JsNumbers(Reward)
  /\ UNCHANGED <<draft, required, reserved>>

rewardMismatch == reward # required

SignCreate ==
  /\ reward # None /\ ~rewardMismatch /\ reserved = None
  /\ reserved' = envelope
  /\ UNCHANGED <<draft, required, reward, envelope>>

Next ==
  \/ AddPrize \/ OpenFunding \/ BuildCreate \/ SignCreate
  \/ \E i \in DOMAIN rows : RemovePrize(i) \/ \E text \in Typeable : setPrize(i, text)
  \/ \E field \in FieldErrors \cup {None} : createDraftEvent(field)

Spec == Init /\ [][Next]_vars

----------------------------------------------------------------------------
\* core-go pays for each rank what was typed in that row, its parser and the
\* form's agreeing on every amount the column can hold (amount.ts mirrors
\* amount.go), and what the organizer signs away is their exact sum, although
\* core-go's sum may wrap (create.go) and its answer may be rounded.
PrizesAddUp ==
  prizes # None =>
    LET due == [i \in DOMAIN prizes |-> AmountToStroops(typed[i])]
    IN /\ \A i \in DOMAIN prizes : AmountToStroops(ColumnText(prizes[i])) = due[i]
       /\ reserved # None => reserved = Sum(due)

=============================================================================
