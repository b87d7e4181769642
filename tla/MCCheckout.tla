------------------------------ MODULE MCCheckout ------------------------------
(***************************************************************************)
(* A small instance of Checkout: two coins whose prices move every moment, *)
(* one of them with a hard fallback.                                       *)
(***************************************************************************)
EXTENDS Checkout, TLC

CONSTANTS xmr, zec

MovingPrices == [c \in Coins |-> [t \in 0 .. MaxTime |-> IF c = xmr THEN 40 + t ELSE 50 - t]]

OneFallback == [c \in Coins |-> IF c = xmr THEN 0 ELSE 45]

CustomerSymmetry == Permutations(Callers)
=============================================================================
