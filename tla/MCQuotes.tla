------------------------------ MODULE MCQuotes ------------------------------
(* Quotes on small instances: two mints, of which one changes its multiplier
   early only. *)
EXTENDS Quotes

CONSTANTS m1, m2

Small == chain[m2].from <= 1
=============================================================================
