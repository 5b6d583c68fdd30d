--------------------------- MODULE MCPaymentPage ---------------------------
(* Small instances of the payment page for TLC. *)
EXTENDS PaymentPage, TLC

CONSTANTS w1, w2, c1, c2, o1, o2, k1, k2

\* One order earns a commission, the other is denied.
MCAmount == (o1 :> 1) @@ (o2 :> 0)

\* Both earn one.
MCAmountBoth == [o \in {o1, o2} |-> 1]

MCAmountOne == o1 :> 1

MCSymmetry == Permutations(Slots)
=============================================================================
