------------------------------ MODULE Treasury ------------------------------
(***************************************************************************)
(* The Circle's treasury, on top of the Council's decisions: donate and    *)
(* donate_token bring money in, withdraw_treasury and                      *)
(* withdraw_treasury_token carry out one executed proposal each,           *)
(* set_treasury_wallet names the steward, and any single seat edits the    *)
(* spend allowlist (set_treasury_allow) and switches it on or off          *)
(* (set_circle_config).  SOL and one token are the two purses.             *)
(***************************************************************************)
EXTENDS Governance, Functions

CONSTANTS
    Payees,       \* the wallets somebody lists or delists as recipients
    Multisigs,    \* the wallets that are m-of-n multisig accounts, m >= 2
    MaxDonated    \* bound: what one purse may receive in all

ASSUME TreasuryAssumption ==
    /\ IsFiniteSet(Wallets)
    /\ Payees \subseteq Wallets
    /\ Multisigs \subseteq Wallets
    /\ MaxDonated \in Nat

Purses == {"sol", "token"}
SpendType == [p \in Purses |->
                IF p = "sol" THEN "WithdrawTreasury" ELSE "WithdrawTreasuryToken"]

VARIABLES
    balance,    \* lamports of the treasury PDA, balance of its token account
    listOn,     \* CircleConfig::treasury_allowlist
    allowed,    \* the recipients whose TreasuryAllow entry says allowed
    steward,    \* TreasuryConfig::wallet
    donated,    \* history: what each purse has received
    received    \* history: what each purse has paid to each wallet

tvars == <<balance, listOn, allowed, steward, donated, received>>
allvars == <<vars, tvars>>

TreasuryInit ==
    /\ Init
    /\ balance = [p \in Purses |-> 0]
    /\ listOn = FALSE
    /\ allowed = {}
    /\ steward = NoWallet
    /\ donated = [p \in Purses |-> 0]
    /\ received = [p \in Purses |-> [w \in Wallets |-> 0]]

-----------------------------------------------------------------------------

\* A token donation must be positive; a SOL donation of nothing is a no-op.
Donate(p, amount) ==
    /\ amount > 0
    /\ donated[p] + amount <= MaxDonated
    /\ balance' = [balance EXCEPT ![p] = @ + amount]
    /\ donated' = [donated EXCEPT ![p] = @ + amount]
    /\ UNCHANGED <<vars, listOn, allowed, steward, received>>

SetTreasuryAllow(who, recipient, allow) ==
    /\ HoldsSeat(seats, who)
    /\ allowed' = IF allow THEN allowed \cup {recipient} ELSE allowed \ {recipient}
    /\ UNCHANGED <<vars, balance, listOn, steward, donated, received>>

\* The allowlist switch of the Circle's policy.
SetCircleConfig(who, on) ==
    /\ HoldsSeat(seats, who)
    /\ listOn' = on
    /\ UNCHANGED <<vars, balance, allowed, steward, donated, received>>

\* Mutant: does not ask whether the proposal was executed.
DueUndecided(n, type) ==
    /\ n \in Opened
    /\ ~proposals[n].drained
    /\ proposals[n].action.type = type

\* An executed proposal that has not been carried out yet.
Due(n, type) ==
    /\ n \in Opened
    /\ proposals[n].executed
    /\ ~proposals[n].drained
    /\ proposals[n].action.type = type

\* Mutant: forgets to mark the proposal consumed.
ConsumeNothing(n) == UNCHANGED proposals

Consume(n) == proposals' = [proposals EXCEPT ![n].drained = TRUE]

\* Mutant: moves the money without looking at the balance.
WithdrawBlind(p, n) ==
    /\ Due(n, SpendType[p])
    /\ LET a == proposals[n].action
       IN /\ a.amount > 0
          /\ listOn => a.recipient \in allowed
          /\ Consume(n)
          /\ balance' = [balance EXCEPT ![p] = @ - a.amount]
          /\ received' = [received EXCEPT ![p][a.recipient] = @ + a.amount]
    /\ UNCHANGED <<seats, applied, now, history, listOn, allowed, steward, donated>>

\* Mutant: there is no way to sign a token transfer.
WithdrawSolOnly(p, n) == p = "sol" /\ balance[p] > 0 /\ WithdrawBlind(p, n)

\* Permissionless; the policy is read as it stands now, not as it stood when
\* the Council voted.
Withdraw(p, n) ==
    /\ Due(n, SpendType[p])
    /\ LET a == proposals[n].action
       IN /\ a.amount > 0
          /\ listOn => a.recipient \in allowed
          /\ balance[p] >= a.amount
          /\ Consume(n)
          /\ balance' = [balance EXCEPT ![p] = @ - a.amount]
          /\ received' = [received EXCEPT ![p][a.recipient] = @ + a.amount]
    /\ UNCHANGED <<seats, applied, now, history, listOn, allowed, steward, donated>>

\* The multisig requirement is checked when the decision is carried out, not
\* when it is proposed.
SetWallet(n) ==
    /\ Due(n, "SetTreasuryWallet")
    /\ proposals[n].action.new_wallet \in Multisigs
    /\ Consume(n)
    /\ steward' = proposals[n].action.new_wallet
    /\ UNCHANGED <<seats, applied, now, history, balance, listOn, allowed,
                   donated, received>>

TreasuryStep ==
    \/ \E p \in Purses, k \in Amounts : Donate(p, k)
    \/ \E who \in Wallets :
          \/ \E r \in Payees, b \in BOOLEAN : SetTreasuryAllow(who, r, b)
          \/ \E b \in BOOLEAN : SetCircleConfig(who, b)
    \/ \E n \in Nonces :
          \/ \E p \in Purses : Withdraw(p, n)
          \/ SetWallet(n)

TreasuryNext == TreasuryStep \/ (Next /\ UNCHANGED tvars)

TreasurySpec == TreasuryInit /\ [][TreasuryNext]_allvars

\* Carrying a decision out is permissionless: its beneficiary submits it.
TreasuryLiveSpec ==
    /\ TreasurySpec
    /\ \A n \in Nonces, p \in Purses : WF_allvars(Withdraw(p, n))

-----------------------------------------------------------------------------

TreasuryTypeOK ==
    /\ TypeOK
    /\ balance \in [Purses -> Nat]
    /\ listOn \in BOOLEAN
    /\ allowed \subseteq Payees
    /\ steward \in Holder
    /\ donated \in [Purses -> Nat]
    /\ received \in [Purses -> [Wallets -> Nat]]

\* The spends from purse p to wallet w that were carried out.
CarriedOut(p, w) ==
    {n \in Opened : /\ proposals[n].drained
                    /\ proposals[n].action.type = SpendType[p]
                    /\ proposals[n].action.recipient = w}

SpentTo(p, w) ==
    SumFunctionOnSet([n \in Opened |-> proposals[n].action.amount], CarriedOut(p, w))

\* The money is all accounted for by the proposals: what a wallet got from a
\* purse is the sum of the spends to it that were carried out, each counted
\* once, and the purse holds the rest of the donations (the replay that
\* withdraw_treasury.rs:18-21 rules out).
MoneyAccounted ==
    /\ TreasuryTypeOK
    /\ \A p \in Purses :
        /\ \A w \in Wallets : received[p][w] = SpentTo(p, w)
        /\ balance[p] + SumFunctionOnSet(received[p], Wallets) = donated[p]

\* No proposal is carried out that the Council did not decide a contest window
\* earlier: proposals pay out of a purse, and name the steward, only once
\* Threshold seats had approved them by then, and the steward is a multisig such a
\* proposal names (set_treasury_wallet.rs:16-34).  (Refills of the faucet and
\* renewal fees move money under no proposal; they are not in this module.)
CarriedOutIsDecided ==
    /\ steward # NoWallet =>
          /\ steward \in Multisigs
          /\ \E n \in Opened : /\ proposals[n].drained
                               /\ proposals[n].action.type = "SetTreasuryWallet"
                               /\ proposals[n].action.new_wallet = steward
    /\ \A n \in Opened :
        proposals[n].drained =>
            /\ proposals[n].executed /\ ~proposals[n].cancelled
            /\ Cardinality({s \in proposals[n].approvals :
                  cast[n][s].at + RecoveryTimelock <= now}) >= Threshold

\* An executed spend is paid, unless the purse is short of it or the
\* recipient is off the allowlist: no donation is locked for want of a
\* signing path (withdraw_treasury_token.rs:17-20).
SpendIsPaid ==
    \A n \in Nonces, p \in Purses :
        Due(n, SpendType[p]) ~>
            /\ n \in Opened /\ proposals[n].action.type = SpendType[p]
            /\ \/ proposals[n].drained
               \/ balance[p] < proposals[n].action.amount
               \/ listOn /\ proposals[n].action.recipient \notin allowed

-----------------------------------------------------------------------------
(* The treasury implements the group conscience: every step of it opens,   *)
(* arms, stops, binds or carries out at most one decision, in that order.  *)

StageOf(p) ==
    CASE p.cancelled -> "stopped"
      [] p.drained   -> "done"
      [] p.executed /\ ~p.drained /\ ~p.cancelled -> "binding"
      [] ~p.executed /\ ~p.cancelled /\ Armed(p)  -> "armed"
      [] OTHER -> "open"

Stage(n) == IF n \in Opened THEN StageOf(proposals[n]) ELSE "absent"
DueAt(n) == IF n \in Opened THEN proposals[n].eligible_at ELSE 0

Conscience == INSTANCE GroupConscience WITH
    Decisions <- Nonces,
    Window    <- RecoveryTimelock,
    stage     <- [n \in Nonces |-> Stage(n)],
    due       <- [n \in Nonces |-> DueAt(n)],
    clock     <- now

ImplementsConscience == Conscience!Spec

=============================================================================
