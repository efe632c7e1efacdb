----------------------------- MODULE MCCheckout -----------------------------
(* Model values and bounds for checking Checkout.                          *)
EXTENDS Checkout

CONSTANTS s1, g1, c1, c2

MCSessions == {s1}
MCGetters == {g1}
MCCompleters == {c1, c2}
=============================================================================
