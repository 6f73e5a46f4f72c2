---------------------------- MODULE MCGovernance ----------------------------
(***************************************************************************)
(* Governance on small instances: three seats of which two decide.         *)
(***************************************************************************)
EXTENDS Governance, TLC

CONSTANTS ana, ben, cai, dia, p1, p2

MCWallets == {ana, ben, cai, dia}
SeatSet(a, b, c) == [i \in Seats |-> <<a, b, c>>[i + 1]]

MCFounders == { SeatSet(ana, ben, cai), SeatSet(ana, ana, cai),
                SeatSet(NoWallet, ben, cai) }

MCAmounts == {0, 1}

Rotate(i, w)  == [type |-> "RotateSeat", seat_index |-> i, new_holder |-> w]
Migrate(v, w) == [type |-> "MigrateWallet", old_wallet |-> v, new_wallet |-> w]
Pay(k, w)     == [type |-> "WithdrawTreasury", amount |-> k, recipient |-> w]

\* A seat vacated, a migration that competes with it and with the election and
\* the rotation below, and inputs propose must refuse.
MCOffered ==
    { Rotate(0, NoWallet), Migrate(ana, dia),
      Rotate(SeatCount, dia), Migrate(NoWallet, dia), Pay(0, dia) }

\* An election won by somebody who sits, or sat, elsewhere.
MCElections == { [id |-> 1, seat_index |-> 2, candidate |-> ana] }

MCChildRotations ==
    { [id |-> 1, new_seats |-> SeatSet(dia, ben, cai)],
      [id |-> 2, new_seats |-> SeatSet(dia, dia, cai)] }

MCTwoNonces == {p1, p2}

=============================================================================
