------------------------------ MODULE MCGateway ------------------------------
(* Small instances of Gateway for TLC. *)
EXTENDS Gateway, TLC

CONSTANTS create, retry, capture, cancel, refund,  \* requests
          k, kc, r1, r2

\* What each request is, with a creation and its retry under the key k and a
\* capture under the key kc.
TheOp ==
    [q \in Request |-> CASE q \in {create, retry} -> "create" [] q = capture -> "capture"
                         [] q = cancel -> "cancel" [] q = refund -> "refund"]
TheKey ==
    [q \in Request |-> CASE q \in {create, retry} -> k [] q = capture -> kc
                         [] OTHER -> None]
TheTarget == [q \in Request |-> IF q = retry THEN retry ELSE create]
=============================================================================
