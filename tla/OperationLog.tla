---------------------------- MODULE OperationLog ----------------------------
(***************************************************************************)
(* The web app's own build-sign-submit pipeline (lib/escrow/pipeline.ts,   *)
(* idempotency.ts), marked deprecated in favour of core-go: one op_log row *)
(* per idempotency key, prepares that build an unsigned transaction for it *)
(* and submits that send a signed one, any number of them at once.         *)
(*                                                                         *)
(* An envelope is its account sequence number and a number that tells      *)
(* builds apart. Bounds: Calls at a time, MaxBuilds builds in all.         *)
(***************************************************************************)
EXTENDS Naturals, FiniteSets

CONSTANTS Calls, MaxBuilds, None

Envelope == [id : 1..MaxBuilds, seq : 1..MaxBuilds]

LogAssumption == MaxBuilds \in Nat /\ None \notin Envelope

VARIABLES
  row,       \* the op_log row of the key
  call,      \* calls being served
  built,     \* envelopes handed to the wallet, which signs each
  seq,       \* sequence number of the account on the ledger
  included,  \* envelopes on the ledger
  answered   \* hashes given out as the operation's result

ledger == <<seq, included>>
vars == <<row, call, built, ledger, answered>>

Idle == [pc |-> "idle", tx |-> None]
Pending == [status |-> "PENDING", tx |-> None]

TypeOK ==
  /\ row = None \/ row \in [status : {"PENDING", "SUCCEEDED", "FAILED"}, tx : Envelope \cup {None}]
  /\ row # None => (row.status = "SUCCEEDED" <=> row.tx # None)
  /\ call \in [Calls -> [pc : {"idle", "update", "create", "build", "send", "sent", "failed"},
                         tx : Envelope \cup {None}]]
  /\ built \cup included \cup answered \subseteq Envelope /\ seq \in 0..MaxBuilds

Init ==
  /\ row = None /\ call = [c \in Calls |-> Idle] /\ built = {}
  /\ seq = 0 /\ included = {} /\ answered = {}

Goto(c, pc, tx) == call' = [call EXCEPT ![c] = [pc |-> pc, tx |-> tx]]

----------------------------------------------------------------------------
\* Mutant: a finished row is taken for a finished operation, failed or not.
AlreadySucceeded_Terminal == row # None /\ row.status # "PENDING"

\* decidePrepare and decideSubmit agree on what ends an operation.
AlreadySucceeded == row # None /\ row.status = "SUCCEEDED" /\ row.tx # None

Answer(c) == answered' = answered \cup {row.tx} /\ Goto(c, "idle", None)

Prepare(c) ==
  /\ call[c].pc = "idle"
  /\ \/ AlreadySucceeded /\ Answer(c)
     \/ /\ ~AlreadySucceeded /\ Goto(c, IF row = None THEN "create" ELSE "update", None)
        /\ UNCHANGED answered
  /\ UNCHANGED <<row, built, ledger>>

\* The row found is reset whatever has become of it since.
UpdateRow(c) ==
  /\ call[c].pc = "update" /\ row' = Pending /\ Goto(c, "build", None)
  /\ UNCHANGED <<built, ledger, answered>>

\* A unique violation is a concurrent prepare's insert.
CreateRow(c) ==
  /\ call[c].pc = "create" /\ row' = (IF row = None THEN Pending ELSE row)
  /\ Goto(c, "build", None) /\ UNCHANGED <<built, ledger, answered>>

Build(c) ==
  /\ call[c].pc = "build" /\ Goto(c, "idle", None)
  /\ \/ /\ Cardinality(built) < MaxBuilds
        /\ built' = built \cup {[id |-> Cardinality(built) + 1, seq |-> seq + 1]}
     \/ UNCHANGED built   \* the simulation fails
  /\ UNCHANGED <<row, ledger, answered>>

\* decideSubmit throws when there is no row, before anything is sent.
Submit(c, e) ==
  /\ call[c].pc = "idle" /\ row # None
  /\ \/ AlreadySucceeded /\ Answer(c)
     \/ ~AlreadySucceeded /\ Goto(c, "send", e) /\ UNCHANGED answered
  /\ UNCHANGED <<row, built, ledger>>

Accepted(e) == e \in included \/ e.seq = seq + 1

\* The network takes an envelope it has, or the next of its account; the answer
\* to an accepted one, or the write of it to the row, may be lost.
Send(c) ==
  LET e == call[c].tx IN
  /\ call[c].pc = "send"
  /\ \/ /\ Accepted(e) /\ included' = included \cup {e}
        /\ seq' = IF e \in included THEN seq ELSE e.seq
        /\ (Goto(c, "sent", e) \/ Goto(c, "failed", e))
     \/ UNCHANGED ledger /\ Goto(c, "failed", e)
  /\ UNCHANGED <<row, built, answered>>

RecordFailure(c) ==
  /\ call[c].pc = "failed" /\ row' = [status |-> "FAILED", tx |-> None]
  /\ Goto(c, "idle", None) /\ UNCHANGED <<built, ledger, answered>>

RecordSuccess(c) ==
  /\ call[c].pc = "sent" /\ row' = [status |-> "SUCCEEDED", tx |-> call[c].tx]
  /\ answered' = answered \cup {call[c].tx}
  /\ Goto(c, "idle", None) /\ UNCHANGED <<built, ledger>>

Next ==
  \E c \in Calls :
    \/ Prepare(c) \/ UpdateRow(c) \/ CreateRow(c) \/ Build(c)
    \/ (\E e \in built : Submit(c, e)) \/ Send(c) \/ RecordFailure(c) \/ RecordSuccess(c)

Spec == Init /\ [][Next]_vars

----------------------------------------------------------------------------

\* A hash the pipeline gives out, from the row or from its own submit, is that
\* of a transaction on the ledger, however prepares and submits overlap.
AnswersAreIncluded == answered \subseteq included

=============================================================================
