------------------------------ MODULE MCFaucet ------------------------------
(***************************************************************************)
(* Two members who may each be the other's wing, one vote on the figures   *)
(* and one the program refuses, a ballot for the jar.                      *)
(***************************************************************************)
EXTENDS Faucet

CONSTANTS ana, ben

MCCommitments == {ana, ben}
MCAmounts     == {0, 1}
MCDefaults    == [gain |-> 2, ratio |-> 5000, maxGift |-> 1, period |-> 1]
MCVotes       == { [gain |-> 3, ratio |-> 10000, maxGift |-> 2, period |-> 0],
                   [gain |-> 3, ratio |-> 10001, maxGift |-> 2, period |-> 0] }
MCBallots     == { [nonce |-> 1, amount |-> 2] }
MCWalletless  == {}
MCRevocable   == {ben}
=============================================================================
