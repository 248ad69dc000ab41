---------------------------- MODULE MCScanFront ----------------------------
(* ScanFront on small instances. *)
EXTENDS ScanFront

CONSTANTS h1, h2, h3

=============================================================================
