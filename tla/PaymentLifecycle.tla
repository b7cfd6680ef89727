-------------------------- MODULE PaymentLifecycle --------------------------
(***************************************************************************)
(* What the transaction processor promises about a payment, whatever the   *)
(* number of replicas, the order of deliveries, the crashes and the        *)
(* redeliveries: the outside world is touched only in the order validated, *)
(* cleared by the fraud check, charged at the acquirer, settled; and the   *)
(* status stored in Redis never claims a step that was not taken.          *)
(*                                                                         *)
(* PaymentPipeline implements this specification.                          *)
(***************************************************************************)
EXTENDS Naturals

CONSTANTS Txn,        \* the payments
          ValidTxn    \* those whose card, expiry, amount and merchant are valid

VARIABLES cleared,    \* payments the fraud check answered "approve" for
          charges,    \* number of authorisations the acquirer granted
          settled,    \* payments sent to settlement
          store       \* the status Redis holds under txn:<id>

lifecycleVars == <<cleared, charges, settled, store>>

Charged == {t \in Txn : charges[t] > 0}

\* What must have happened before a status may be stored for t.
Justified(t, st) ==
    \/ st = "FAILED"
    \/ st \in {"FRAUD_CHECK", "DECLINED"} /\ t \in ValidTxn
    \/ st = "PROCESSING" /\ t \in cleared
    \/ st = "APPROVED" /\ t \in Charged
    \/ st = "SETTLED" /\ t \in settled

Init ==
    /\ cleared = {}
    /\ charges = [t \in Txn |-> 0]
    /\ settled = {}
    /\ store = [t \in Txn |-> "NONE"]

Clear(t) ==
    /\ t \in ValidTxn
    /\ cleared' = cleared \cup {t}
    /\ UNCHANGED <<charges, settled, store>>

Charge(t) ==
    /\ t \in cleared
    /\ charges' = [charges EXCEPT ![t] = @ + 1]
    /\ UNCHANGED <<cleared, settled, store>>

Settle(t) ==
    /\ t \in Charged
    /\ settled' = settled \cup {t}
    /\ UNCHANGED <<cleared, charges, store>>

Record(t, st) ==
    /\ Justified(t, st)
    /\ store' = [store EXCEPT ![t] = st]
    /\ UNCHANGED <<cleared, charges, settled>>

StoredStatus ==
    {"FAILED", "FRAUD_CHECK", "DECLINED", "PROCESSING", "APPROVED", "SETTLED"}

Next ==
    \E t \in Txn :
        \/ Clear(t)
        \/ Charge(t)
        \/ Settle(t)
        \/ \E st \in StoredStatus : Record(t, st)

Spec == Init /\ [][Next]_lifecycleVars

-----------------------------------------------------------------------------

TypeOK ==
    /\ cleared \in SUBSET Txn
    /\ charges \in [Txn -> Nat]
    /\ settled \in SUBSET Txn
    /\ store \in [Txn -> StoredStatus \cup {"NONE"}]

\* A payment is settled only if it was charged, charged only if the fraud
\* check cleared it, and cleared only if its data are valid.
MilestonesInOrder ==
    /\ settled \subseteq Charged
    /\ Charged \subseteq cleared
    /\ cleared \subseteq ValidTxn

\* The status in Redis never claims a step that was not taken.
StoreTellsNoLie ==
    \A t \in Txn : store[t] # "NONE" => Justified(t, store[t])
=============================================================================
