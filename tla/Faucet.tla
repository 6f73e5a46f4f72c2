------------------------------- MODULE Faucet -------------------------------
(***************************************************************************)
(* A Circle's gas faucet over the links of Karma: one grant for each       *)
(* member whose wing vouches for it, by signature or by proof, of an       *)
(* amount the Treasurer tunes and out of a jar that donations and member   *)
(* votes fill (init_faucet.rs, set_faucet_amount.rs, activate_faucet.rs,   *)
(* activate_faucet_zk.rs, refill_faucet.rs).                               *)
(*                                                                         *)
(* Lamports are counted above the jar's rent floor.  A proof against the   *)
(* tree whose only leaf is the wing verifies exactly for the wing.         *)
(***************************************************************************)
EXTENDS Karma

CONSTANTS
    Walletless,       \* commitments whose Membership has no owner
    DefaultGrant,     \* FAUCET_DEFAULT_GRANT_LAMPORTS
    MaxGrant,         \* FAUCET_MAX_GRANT_LAMPORTS
    MaxRefillGrants,  \* FAUCET_MAX_REFILL_GRANTS
    Cooldown,         \* FAUCET_AMOUNT_COOLDOWN
    Ballots,          \* member proposals that pass, and the amount each is about
    Funds,            \* lamports in the treasury to begin with
    MaxDonated        \* bound on what is donated

ASSUME FaucetAssumption ==
    /\ Walletless \subseteq Commitments
    /\ {DefaultGrant, MaxGrant, MaxRefillGrants, Cooldown, Funds, MaxDonated} \subseteq Nat
    /\ 0 < DefaultGrant /\ DefaultGrant <= MaxGrant
    /\ Ballots \subseteq [nonce : Nat, amount : Nat]
    /\ \A b, c \in Ballots : b.nonce = c.nonce => b = c

VARIABLES
    jar,       \* the FaucetJar account, or NoJar
    treasury,
    grants,    \* history: who was granted what, when, and who vouched
    filled,    \* ballots whose one-shot marker exists
    donated    \* history

faucetVars == <<jar, treasury, grants, filled, donated>>
vars == <<karmaVars, faucetVars>>

NoJar == [at |-> "none"]
Open == jar # NoJar

Init ==
    /\ KarmaInit
    /\ jar = NoJar /\ treasury = Funds /\ grants = {} /\ filled = {} /\ donated = 0

\* Any seat, once: the address is the Circle's.  A jar that was never retuned is
\* stamped with the epoch, longer ago than any cooldown.
InitFaucet ==
    /\ ~Open
    /\ jar' = [grant |-> DefaultGrant, granted |-> 0, changedAt |-> -Cooldown, lamports |-> 0]
    /\ UNCHANGED <<karmaVars, treasury, grants, filled, donated>>

\* A slip: the new amount is not stamped.
SetFaucetAmountUnstamped(n) ==
    /\ Open /\ n > 0 /\ n <= MaxGrant /\ jar.grant # n
    /\ jar' = [jar EXCEPT !.grant = n]
    /\ UNCHANGED <<karmaVars, treasury, grants, filled, donated>>
\* The Treasurer, at any moment; the same amount again changes nothing.
SetFaucetAmount(n) ==
    /\ Open /\ n > 0 /\ n <= MaxGrant /\ jar.grant # n
    /\ jar' = [jar EXCEPT !.grant = n, !.changedAt = now]
    /\ UNCHANGED <<karmaVars, treasury, grants, filled, donated>>

\* pay_uniform_grant, and the nullifier that both paths init.
Granted == { g.to : g \in grants }
PayUniformGrant(m, wing) ==
    /\ Open /\ m \notin Granted
    /\ jar.granted > 0 => now - jar.changedAt >= Cooldown
    /\ jar.lamports >= jar.grant
    /\ jar' = [jar EXCEPT !.lamports = @ - jar.grant, !.granted = @ + 1]
    /\ grants' = grants \cup {[to |-> m, amount |-> jar.grant, at |-> now, by |-> wing]}
    /\ UNCHANGED <<karmaVars, treasury, filled, donated>>

Unexpired(m) == Member(m) /\ members[m] > now
Linked(m) == m \in DOMAIN bond /\ bond[m].active
\* By the wing's signature, whose own membership has to be live.
ActivateFaucet(m) ==
    /\ Linked(m) /\ Unexpired(bond[m].wing)
    /\ Unexpired(m) /\ m \notin Walletless
    /\ PayUniformGrant(m, bond[m].wing)
\* By a proof of the wing's secret, whatever became of the wing's membership.
ActivateFaucetZk(m) ==
    /\ Unexpired(m) /\ m \notin Walletless /\ Linked(m)
    /\ PayUniformGrant(m, bond[m].wing)

\* A slip: nothing marks the ballot as used.
RefillFaucetAgain(b) ==
    /\ Open /\ b.amount > 0
    /\ b.amount <= jar.grant * MaxRefillGrants /\ treasury >= b.amount
    /\ treasury' = treasury - b.amount /\ jar' = [jar EXCEPT !.lamports = @ + b.amount]
    /\ filled' = filled \cup {b}
    /\ UNCHANGED <<karmaVars, grants, donated>>
\* A passed ballot, carried out by anyone, once; the ceiling is that of the
\* amount in force now.
RefillFaucet(b) ==
    /\ Open /\ b \notin filled /\ b.amount > 0
    /\ b.amount <= jar.grant * MaxRefillGrants /\ treasury >= b.amount
    /\ treasury' = treasury - b.amount /\ jar' = [jar EXCEPT !.lamports = @ + b.amount]
    /\ filled' = filled \cup {b}
    /\ UNCHANGED <<karmaVars, grants, donated>>

\* A plain transfer to the jar's address.  Bound: MaxDonated.
DonateToJar ==
    /\ Open /\ donated < MaxDonated
    /\ donated' = donated + 1 /\ jar' = [jar EXCEPT !.lamports = @ + 1]
    /\ UNCHANGED <<karmaVars, treasury, grants, filled>>

Next ==
    \/ KarmaNext /\ UNCHANGED faucetVars
    \/ InitFaucet \/ DonateToJar
    \/ \E n \in 1..MaxGrant : SetFaucetAmount(n)
    \/ \E m \in Commitments : ActivateFaucet(m) \/ ActivateFaucetZk(m)
    \/ \E b \in Ballots : RefillFaucet(b)

Spec == Init /\ [][Next]_vars

-----------------------------------------------------------------------------
(* Properties. *)

FaucetTypeOK ==
    /\ treasury \in Nat /\ filled \subseteq Ballots /\ donated \in 0..MaxDonated
    /\ Open => /\ jar.grant \in 1..MaxGrant /\ jar.changedAt \in (-Cooldown)..now
               /\ jar.lamports \in Nat /\ jar.granted = Cardinality(grants)

\* What the ballots moved and the grants paid.
Voted == SumFunctionOnSet([b \in filled |-> b.amount], filled)
Paid  == SumFunctionOnSet([g \in grants |-> g.amount], grants)

\* The jar holds what was given and voted and not yet granted, the treasury lost
\* what the ballots named and no more, each no more than the ceiling allows; a
\* commitment is granted once, by whichever path and through however many
\* memberships and links, and never on its own word (activate_faucet.rs:77-97,
\* activate_faucet_zk.rs:208-226, refill_faucet.rs:16-45).
JarAccounted ==
    /\ FaucetTypeOK
    /\ treasury = Funds - Voted
    /\ Open => jar.lamports = donated + Voted - Paid
    /\ \A b \in filled : b.amount <= MaxGrant * MaxRefillGrants
    /\ \A g, h \in grants : g.to = h.to => g = h
    /\ \A g \in grants : g.by # g.to

\* An amount singles nobody out: two grants of different amounts are a whole
\* cooldown apart, whatever the Treasurer set and set back in between
\* (activate_faucet.rs:33-38, set_faucet_amount.rs:29-34).
NobodySingledOut ==
    \A g, h \in grants : g.amount < h.amount => g.at - h.at >= Cooldown \/ h.at - g.at >= Cooldown
=============================================================================
