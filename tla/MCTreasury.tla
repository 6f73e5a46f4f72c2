----------------------------- MODULE MCTreasury -----------------------------
(***************************************************************************)
(* Treasury on a small instance: three seats of which two decide, one      *)
(* recipient outside the Council, two proposals.                           *)
(***************************************************************************)
EXTENDS Treasury

CONSTANTS ana, ben, cai, dia, p1, p2

MCWallets == {ana, ben, cai, dia}
MCAmounts == {0, 1}
MCNonces  == {p1, p2}

MCFounders == { [i \in Seats |-> <<ana, ben, cai>>[i + 1]] }

Spend(t, k, w) == [type |-> t, amount |-> k, recipient |-> w]

\* Two spends that compete for a purse, a token spend, a spend of nothing, a
\* good and a bad steward.
MCOffered ==
    { Spend("WithdrawTreasury", 1, dia), Spend("WithdrawTreasury", 0, dia),
      Spend("WithdrawTreasuryToken", 1, dia),
      [type |-> "SetTreasuryWallet", new_wallet |-> dia],
      [type |-> "SetTreasuryWallet", new_wallet |-> ana] }

MCMultisigs == {dia}
MCNone == {}
=============================================================================
