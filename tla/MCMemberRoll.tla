---------------------------- MODULE MCMemberRoll ----------------------------
(***************************************************************************)
(* The member roll on a small instance: the Secretary's own commitment and *)
(* an anonymous one, every admission policy, one rebuild.                  *)
(***************************************************************************)
EXTENDS MemberRoll, TLC

CONSTANTS ana, ben, c1, c2, h1, g1

MCWallets == {ana, ben}
MCPair    == {c1, c2}
MCServants == {ana, ben}

\* c1 is the Secretary's own membership; the others are anonymous.
MCKeysOf == [c \in Commitments |-> IF c = c1 THEN {ana} ELSE {}]

Sponsors(b) == [twoSponsor |-> b, open |-> FALSE, personhood |-> FALSE]
Opened      == [twoSponsor |-> FALSE, open |-> TRUE, personhood |-> FALSE]
Gated(b)    == [twoSponsor |-> b, open |-> FALSE, personhood |-> TRUE]

\* Every switch.
MCAllPolicies == {Sponsors(FALSE), Sponsors(TRUE), Opened, Gated(TRUE)}

MCRevocable == {c2}
MCOneHuman == {h1}
MCOneEpoch == {g1}
=============================================================================
