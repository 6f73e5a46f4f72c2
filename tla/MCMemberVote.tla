---------------------------- MODULE MCMemberVote ----------------------------
(***************************************************************************)
(* A ballot on a small instance: two anonymous members, one of whom may be *)
(* revoked and admitted anew, a rebuild of the tree, and one proposal.     *)
(***************************************************************************)
EXTENDS MemberVote

CONSTANTS ana, abe, c1, c2, g1, n1

MCWallets  == {ana}
MCParents  == {abe}
MCPair     == {c1, c2}
MCKeysOf   == [c \in Commitments |-> {}]
MCRevocable == {c1}
MCNone     == {}
MCOneEpoch == {g1}
MCOneNonce == {n1}
MCDirect   == {[twoSponsor |-> FALSE, open |-> FALSE, personhood |-> FALSE]}

\* A period propose must refuse, and one it takes.
MCPeriods  == {0, 1}

\* Unset, and "one ballot is a quorum, any yes-share will do".
MCRules    == {DefaultRules, [qNum |-> 0, qDen |-> 1, pNum |-> 0, pDen |-> 1]}
=============================================================================
