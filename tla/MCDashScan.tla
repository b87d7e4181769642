----------------------------- MODULE MCDashScan -----------------------------
(* Small instance of DashScan for TLC. *)
EXTENDS DashScan

\* Notes worth whole duffs and a fraction more.
MCCredits == [i \in Indexes |-> 3 + i]
=============================================================================
