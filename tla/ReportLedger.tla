---------------------------- MODULE ReportLedger ----------------------------
(***************************************************************************)
(* What the report API promises, whatever the number of replicas, retries  *)
(* and concurrent writers: a report takes effect once, atomically, on the  *)
(* status as it is at that moment, or not at all; and nothing but a report *)
(* changes what reports have recorded while the profile exists.            *)
(***************************************************************************)
EXTENDS NodeStatuses

CONSTANTS Requests      \* the reports sent, each a [kind, node, hash, success]

VARIABLES
    ledger,     \* what reports have recorded on the profile of each kind, or None
    open        \* the reports that may still take effect

LedgerInit ==
    /\ ledger \in [Kinds -> {None, NoReports}]
    /\ open = Requests

Record(q) ==
    /\ q \in open
    /\ ledger[q.kind] # None
    /\ ledger' = [ledger EXCEPT ![q.kind] = RecordOn(q.kind, @, q)]
    /\ open' = open \ {q}

Discard(Q) ==
    /\ open' = open \ Q
    /\ UNCHANGED ledger

Open(k) ==
    /\ ledger[k] = None
    /\ ledger' = [ledger EXCEPT ![k] = NoReports]
    /\ UNCHANGED open

Close(k) ==
    /\ ledger' = [ledger EXCEPT ![k] = None]
    /\ UNCHANGED open

LedgerNext ==
    \/ \E q \in open : Record(q)
    \/ \E Q \in SUBSET open : Discard(Q)
    \/ \E k \in Kinds : Open(k) \/ Close(k)

LedgerSpec == LedgerInit /\ [][LedgerNext]_<<ledger, open>>
=============================================================================
