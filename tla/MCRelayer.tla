----------------------------- MODULE MCRelayer -----------------------------
(***************************************************************************)
(* The relayer on a small instance: two requests of one caller, limits     *)
(* that the two reach, and the three shapes of allowlist entry.            *)
(***************************************************************************)
EXTENDS Relayer, TLC

CONSTANTS r1, r2, ip1, member, relayer

MCPair     == {r1, r2}
MCCallers  == [r \in Requests |-> ip1]
MCKeys     == {member, relayer}

\* The relayer alone; a co-signer besides it; a co-signer and no payer account.
Entry(p, a) == [accountCount |-> 2, payerIndex |-> p, authorityIndex |-> a]
MCAllowlist == {Entry(2, None), Entry(2, 1), Entry(None, 1)}

\* An account's rent, and a refund.
MCCosts == {-1, 2}
=============================================================================
