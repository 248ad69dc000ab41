------------------------------ MODULE MCStores ------------------------------
(* Stores on a small instance: two units to a millisecond. *)
EXTENDS Stores, TLC

CONSTANTS aapl, alice, bob, scan, page

\* One window and one limit on each side of what is accepted, and those inside.
MCWindows == {0, 1, 2}
MCLimits == {-1, 0, 1, 2}
=============================================================================
