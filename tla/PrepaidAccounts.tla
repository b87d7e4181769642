--------------------------- MODULE PrepaidAccounts ---------------------------
(***************************************************************************)
(* What the credit meter promises the payer, without pollers, rows or      *)
(* snapshots: an account is opened with some credit, every top-up adds to  *)
(* the credit exactly what was paid, every charge takes at most what is    *)
(* there, and nothing else ever moves it.                                  *)
(***************************************************************************)
EXTENDS Integers

CONSTANTS
  Watches,    \* the accounts
  NoAccount   \* an account that does not exist (not yet, or no longer)

VARIABLE account   \* [Watches -> [credit, topups, billed] or NoAccount]

Open(w) ==
  LET paid == account'[w].credit
  IN  /\ account[w] = NoAccount
      /\ account'[w] # NoAccount
      /\ paid > 0
      /\ account' = [account EXCEPT ![w] = [credit |-> paid, topups |-> paid, billed |-> 0]]

\* The sum paid is whatever the lifetime total of top-ups grew by ...
TopUp(w) ==
  LET paid == account'[w].topups - account[w].topups
  IN  /\ account[w] # NoAccount
      /\ account'[w] # NoAccount
      /\ paid > 0
      /\ account' = [account EXCEPT ![w].credit = @ + paid,
                                    ![w].topups = @ + paid]

\* ... and the cost is whatever the lifetime bill grew by.
Charge(w) ==
  LET cost == account'[w].billed - account[w].billed
  IN  /\ account[w] # NoAccount
      /\ account'[w] # NoAccount
      /\ cost > 0
      /\ account' = [account EXCEPT ![w].credit = IF @ < cost THEN 0 ELSE @ - cost,
                                    ![w].billed = @ + cost]

Close(gone) ==
  account' = [w \in Watches |-> IF w \in gone THEN NoAccount ELSE account[w]]

Init == account = [w \in Watches |-> NoAccount]

Next ==
  \/ \E w \in Watches : Open(w) \/ TopUp(w) \/ Charge(w)
  \/ \E gone \in SUBSET Watches : Close(gone)

Spec == Init /\ [][Next]_account
=============================================================================
