---------------------------- MODULE CreditLedger ----------------------------
(***************************************************************************)
(* What the receive poller promises a payer, without workers, claims or    *)
(* quotes: a payment becomes owed once it is confirmed, an owed payment is *)
(* paid out once and never again, and only what was paid out is reported.  *)
(***************************************************************************)
EXTENDS Naturals

CONSTANT Claims   \* what may be owed: a payment of a quote

VARIABLES
  owed,   \* claims that are confirmed
  paid,   \* how often each claim was paid out
  told    \* claims reported as paid

ledger == <<owed, paid, told>>

\* What was paid out in earlier times is known to be.
Init ==
  \E old \in SUBSET Claims :
    /\ owed = old /\ told = old
    /\ paid = [c \in Claims |-> IF c \in old THEN 1 ELSE 0]

Confirm ==
  /\ owed \subseteq owed' /\ owed' \subseteq Claims
  /\ UNCHANGED <<paid, told>>

PayOut(c) ==
  /\ c \in owed /\ paid[c] = 0
  /\ paid' = [paid EXCEPT ![c] = 1]
  /\ UNCHANGED <<owed, told>>

Report(c) ==
  /\ paid[c] = 1
  /\ told' = told \cup {c}
  /\ UNCHANGED <<owed, paid>>

Next == Confirm \/ \E c \in Claims : PayOut(c) \/ Report(c)

Spec == Init /\ [][Next]_ledger
=============================================================================
