---------------------------- MODULE MCWatchPoller ----------------------------
(***************************************************************************)
(* Small instances of WatchPoller.                                         *)
(***************************************************************************)
EXTENDS WatchPoller, TLC

\* A deposit and a spend.
DepositAndSpend == <<0, 2, 1>>

\* Two deposits: the balance never falls.
Deposits == <<0, 1, 3>>

\* One deposit.
OneDeposit == <<0, 1>>

TickerSymmetry == Permutations(Tickers)
=============================================================================
