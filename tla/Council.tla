------------------------------- MODULE Council -------------------------------
(***************************************************************************)
(* The Council of a Circle and the proposals it votes on: the data and the *)
(* pure rules of programs/ayni/src/council.rs.  A Council has a fixed      *)
(* number of seats, each held by a wallet or vacant, an approval threshold *)
(* and a recovery time-lock (the contest window).  Nothing in the program  *)
(* ever writes threshold or time-lock after initialize_circle, so both are *)
(* constants here; the state machines live in the modules that extend this *)
(* one.                                                                    *)
(***************************************************************************)
EXTENDS Integers, FiniteSets

CONSTANTS
    Wallets,           \* the public keys that may sign, hold a seat or be paid
    NoWallet,          \* Pubkey::default(): a vacant seat, an unset owner
    SeatCount,         \* COUNCIL_SEATS
    Threshold,         \* Council::threshold
    RecoveryTimelock,  \* Council::recovery_timelock, in clock ticks
    Amounts            \* the amounts a spending action may name, 0 included

ASSUME CouncilAssumption ==
    /\ NoWallet \notin Wallets
    /\ SeatCount \in Nat \ {0}
    /\ Threshold \in 1 .. SeatCount
    /\ RecoveryTimelock \in Nat
    /\ Amounts \subseteq Nat

Seats  == 0 .. SeatCount - 1
Holder == Wallets \cup {NoWallet}

-----------------------------------------------------------------------------
(* Seats.                                                                  *)

\* A vacant seat is nobody's: the default key never holds one.
HoldsSeat(seats, who) ==
    /\ who # NoWallet
    /\ \E i \in Seats : seats[i] = who

\* The seat held by who, when HoldsSeat(seats, who).  The code takes the first
\* such seat; OneSeatEach (module Governance) says that there is only one.
SeatOf(seats, who) == CHOOSE i \in Seats : seats[i] = who

OccupiedElsewhere(seats, who, except) ==
    /\ who # NoWallet
    /\ \E i \in Seats \ {except} : seats[i] = who

\* Every seat filled, one holder each: what a new seat set must satisfy.
FilledAndDistinct(seats) ==
    /\ \A i \in Seats : seats[i] # NoWallet
    /\ \A i, j \in Seats : seats[i] = seats[j] => i = j

Rebind(seats, old, new) ==
    [i \in Seats |-> IF seats[i] = old THEN new ELSE seats[i]]

-----------------------------------------------------------------------------
(* What a proposal may authorise.  RawAction is what a caller can submit,  *)
(* ValidAction the checks that propose makes before it stores one.         *)

RotateSeat ==
    [type : {"RotateSeat"}, seat_index : 0 .. SeatCount, new_holder : Holder]
MigrateWallet ==
    [type : {"MigrateWallet"}, old_wallet : Holder, new_wallet : Holder]
WithdrawTreasury ==
    [type : {"WithdrawTreasury"}, amount : Amounts, recipient : Holder]
WithdrawTreasuryToken ==
    [type : {"WithdrawTreasuryToken"}, amount : Amounts, recipient : Holder]
SetTreasuryWallet ==
    [type : {"SetTreasuryWallet"}, new_wallet : Holder]
BeginMemberEpoch ==
    [type : {"BeginMemberEpoch"}]
SetKarmaParams ==
    [type : {"SetKarmaParams"}, ratio_ok : BOOLEAN]

RawAction ==
    RotateSeat \cup MigrateWallet \cup WithdrawTreasury
      \cup WithdrawTreasuryToken \cup SetTreasuryWallet
      \cup BeginMemberEpoch \cup SetKarmaParams

ValidAction(a) ==
    CASE a.type = "RotateSeat"    -> a.seat_index \in Seats
      [] a.type = "MigrateWallet" -> /\ a.old_wallet # NoWallet
                                     /\ a.new_wallet # NoWallet
                                     /\ a.old_wallet # a.new_wallet
      [] a.type \in {"WithdrawTreasury", "WithdrawTreasuryToken"} ->
                                     a.amount > 0 /\ a.recipient # NoWallet
      [] a.type = "SetTreasuryWallet" -> a.new_wallet # NoWallet
      [] a.type = "BeginMemberEpoch"  -> TRUE
      [] a.type = "SetKarmaParams"    -> a.ratio_ok

-----------------------------------------------------------------------------
(* Proposals.                                                              *)

Proposal ==
    [action : RawAction, approvals : SUBSET Seats, executed : BOOLEAN,
     cancelled : BOOLEAN, drained : BOOLEAN, eligible_at : Nat]

LaterOf(a, b) == IF a >= b THEN a ELSE b

\* Mutant: a rotation needs no contest window.
ArmIfReadyInstantRotation(p, now) ==
    IF p.eligible_at = 0 /\ Cardinality(p.approvals) >= Threshold
    THEN [p EXCEPT !.eligible_at = IF p.action.type = "RotateSeat" THEN now
                                   ELSE LaterOf(now + RecoveryTimelock, 1)]
    ELSE p

\* Mutant: every approval past the threshold restarts the window.
ArmIfReadyAgain(p, now) ==
    IF Cardinality(p.approvals) >= Threshold
    THEN [p EXCEPT !.eligible_at = LaterOf(now + RecoveryTimelock, 1)]
    ELSE p

\* Stamp the end of the contest window, once, when the approvals first reach
\* the threshold; 0 means not armed, hence the floor of 1.
ArmIfReady(p, now) ==
    IF p.eligible_at = 0 /\ Cardinality(p.approvals) >= Threshold
    THEN [p EXCEPT !.eligible_at = LaterOf(now + RecoveryTimelock, 1)]
    ELSE p

NewProposal(action, seat, now) ==
    ArmIfReady([action |-> action, approvals |-> {seat}, executed |-> FALSE,
                cancelled |-> FALSE, drained |-> FALSE, eligible_at |-> 0],
               now)

AddApproval(p, seat, now) ==
    ArmIfReady([p EXCEPT !.approvals = @ \cup {seat}], now)

Armed(p) == p.eligible_at # 0

RequireExecutable(p, now) ==
    /\ ~p.executed
    /\ ~p.cancelled
    /\ Cardinality(p.approvals) >= Threshold
    /\ Armed(p)
    /\ now >= p.eligible_at

=============================================================================
