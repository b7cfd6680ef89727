-------------------------- MODULE MCPaymentPipeline --------------------------
(* Small instances of PaymentPipeline for TLC. *)
EXTENDS PaymentPipelineInv, TLC

CONSTANTS good, bad,  \* a valid and an invalid payment
          r1, r2, s1, s2, s3

\* One slot on each of two replicas.
SpreadHome == (s1 :> r1) @@ (s2 :> r2)

\* Two slots on one replica, one on the other.
MixedHome == (s1 :> r1) @@ (s2 :> r1) @@ (s3 :> r2)
TwoCredits == Permutations({s1, s2})

\* Both slots on one replica.
SharedHome == (s1 :> r1) @@ (s2 :> r1)

\* One slot on one replica.
SoleHome == (s1 :> r1)
=============================================================================
