-------------------------- MODULE GovernanceProofs --------------------------
(***************************************************************************)
(* What holds of Governance for every Council size, threshold, contest     *)
(* window, set of proposals and order of transactions, and of the Treasury *)
(* over it for every purse and list of recipients.                         *)
(*                                                                         *)
(* The inductive invariant IInv adds to the stated properties that the     *)
(* stored actions passed the checks of propose, that every approval was    *)
(* cast by a holder in the past, and that the approvals that armed a       *)
(* proposal were cast a full window before its eligible_at.  Of the        *)
(* treasury: the money is accounted for to the last lamport, nothing is    *)
(* carried out that was not decided a contest window before, and each step *)
(* of the treasury or of the Council under it is one step of               *)
(* GroupConscience, or none.                                               *)
(***************************************************************************)
EXTENDS Treasury, SumProofs, FiniteSetTheorems, TLAPS


\* The approvals of a proposal p, cast as c says, a contest window before t.
Seasoned(p, c, t) ==
    {s \in p.approvals : c[s].who # NoWallet /\ c[s].at + RecoveryTimelock <= t}

ActionsValid == \A n \in Opened : ValidAction(proposals[n].action)

BallotsCast ==
    \A n \in Opened : \A s \in proposals[n].approvals :
        cast[n][s].who # NoWallet /\ cast[n][s].at <= now

WindowStamped ==
    \A n \in Opened :
        Armed(proposals[n]) =>
            Cardinality(Seasoned(proposals[n], cast[n], proposals[n].eligible_at))
              >= Threshold

ExecutedWhenDue ==
    \A n \in Opened :
        proposals[n].executed =>
            /\ Armed(proposals[n])
            /\ executedAt[n] >= proposals[n].eligible_at

\* What a proposal asks and whether it is cancelled or executed.
Deciding == ActionsValid /\ OneSeatEach /\ CancelWins

\* When it was approved, armed and executed.
Timing == BallotsCast /\ WindowStamped /\ ExecutedWhenDue

IInv == TypeOK /\ Deciding /\ Timing

USE CouncilAssumption

-----------------------------------------------------------------------------

LEMMA SeatsFinite == IsFiniteSet(Seats) /\ Seats \subseteq Nat
<1>1. IsFiniteSet(Seats)
  BY FS_Interval DEF Seats
<1>2. Seats \subseteq Nat
  BY DEF Seats
<1> QED BY <1>1, <1>2

\* seat_of returns a seat that who holds.
LEMMA SeatOfHolds ==
    ASSUME NEW f, NEW who, HoldsSeat(f, who)
    PROVE  SeatOf(f, who) \in Seats /\ f[SeatOf(f, who)] = who
BY DEF HoldsSeat, SeatOf

\* Approving and arming keep a proposal a proposal, change nothing but the
\* approvals and eligible_at, and never move an eligible_at once set.
LEMMA ArmIfReadyFacts ==
    ASSUME NEW p \in Proposal, NEW t \in Nat
    PROVE  LET q == ArmIfReady(p, t)
           IN  /\ q \in Proposal
               /\ q.action = p.action /\ q.approvals = p.approvals
               /\ q.executed = p.executed /\ q.cancelled = p.cancelled
               /\ q.drained = p.drained
               /\ Armed(p) => q.eligible_at = p.eligible_at
               /\ ~Armed(p) /\ Armed(q) =>
                     /\ Cardinality(q.approvals) >= Threshold
                     /\ q.eligible_at >= t + RecoveryTimelock
<1>1. LaterOf(t + RecoveryTimelock, 1) \in Nat
      /\ LaterOf(t + RecoveryTimelock, 1) >= t + RecoveryTimelock
  BY DEF LaterOf
<1>2. p.eligible_at \in Nat
  BY DEF Proposal
<1>3. CASE p.eligible_at = 0 /\ Cardinality(p.approvals) >= Threshold
  BY <1>1, <1>3 DEF ArmIfReady, Armed, Proposal
<1>4. CASE ~(p.eligible_at = 0 /\ Cardinality(p.approvals) >= Threshold)
  BY <1>2, <1>4 DEF ArmIfReady, Armed, Proposal
<1> QED BY <1>3, <1>4

LEMMA AddApprovalFacts ==
    ASSUME NEW p \in Proposal, NEW t \in Nat, NEW s \in Seats
    PROVE  LET q == AddApproval(p, s, t)
           IN  /\ q \in Proposal
               /\ q.action = p.action /\ q.approvals = p.approvals \cup {s}
               /\ q.executed = p.executed /\ q.cancelled = p.cancelled
               /\ q.drained = p.drained
               /\ Armed(p) => q.eligible_at = p.eligible_at
               /\ ~Armed(p) /\ Armed(q) =>
                     /\ Cardinality(q.approvals) >= Threshold
                     /\ q.eligible_at >= t + RecoveryTimelock
<1> DEFINE r == [p EXCEPT !.approvals = @ \cup {s}]
<1>1. /\ r \in Proposal /\ r.approvals = p.approvals \cup {s}
      /\ r.action = p.action /\ r.executed = p.executed
      /\ r.cancelled = p.cancelled /\ r.drained = p.drained
      /\ r.eligible_at = p.eligible_at
  BY DEF Proposal
<1>2. Armed(r) <=> Armed(p)
  BY <1>1 DEF Armed
<1> HIDE DEF r
<1>3. AddApproval(p, s, t) = ArmIfReady(r, t)
  BY DEF AddApproval, r
<1> DEFINE q == ArmIfReady(r, t)
<1>4. /\ q \in Proposal /\ q.action = r.action /\ q.approvals = r.approvals
      /\ q.executed = r.executed /\ q.cancelled = r.cancelled
      /\ q.drained = r.drained
      /\ Armed(r) => q.eligible_at = r.eligible_at
      /\ ~Armed(r) /\ Armed(q) =>
            /\ Cardinality(q.approvals) >= Threshold
            /\ q.eligible_at >= t + RecoveryTimelock
  BY <1>1, ArmIfReadyFacts
<1> HIDE DEF q
<1> QED BY <1>1, <1>2, <1>3, <1>4 DEF q

LEMMA NewProposalFacts ==
    ASSUME NEW a \in RawAction, NEW t \in Nat, NEW s \in Seats
    PROVE  LET q == NewProposal(a, s, t)
           IN  /\ q \in Proposal
               /\ q.action = a /\ q.approvals = {s}
               /\ ~q.executed /\ ~q.cancelled /\ ~q.drained
               /\ Armed(q) => /\ Cardinality(q.approvals) >= Threshold
                              /\ q.eligible_at >= t + RecoveryTimelock
<1> DEFINE r == [action |-> a, approvals |-> {s}, executed |-> FALSE,
                 cancelled |-> FALSE, drained |-> FALSE, eligible_at |-> 0]
<1>1. r \in Proposal /\ r.action = a /\ r.approvals = {s} /\ ~r.executed
      /\ ~r.cancelled /\ ~r.drained /\ r.eligible_at = 0
  BY DEF Proposal
<1>2. ~Armed(r)
  BY <1>1 DEF Armed
<1> HIDE DEF r
<1>3. NewProposal(a, s, t) = ArmIfReady(r, t)
  BY DEF NewProposal, r
<1> DEFINE q == ArmIfReady(r, t)
<1>4. /\ q \in Proposal /\ q.action = r.action /\ q.approvals = r.approvals
      /\ q.executed = r.executed /\ q.cancelled = r.cancelled
      /\ q.drained = r.drained
      /\ ~Armed(r) /\ Armed(q) =>
            /\ Cardinality(q.approvals) >= Threshold
            /\ q.eligible_at >= t + RecoveryTimelock
  BY <1>1, ArmIfReadyFacts
<1> HIDE DEF q
<1> QED BY <1>1, <1>2, <1>3, <1>4 DEF q

-----------------------------------------------------------------------------
(* Type correctness.                                                       *)

\* Executing any stored action leaves wallets, or nobody, in the seats.
LEMMA SeatsAfterType ==
    ASSUME NEW a \in RawAction, seats \in [Seats -> Holder], SeatsAllow(a)
    PROVE  SeatsAfter(a) \in [Seats -> Holder]
<1>1. CASE a.type = "RotateSeat"
  <2>1. a.seat_index \in Seats /\ a.new_holder \in Holder
    BY <1>1 DEF RawAction, RotateSeat, MigrateWallet, WithdrawTreasury,
         WithdrawTreasuryToken, SetTreasuryWallet, BeginMemberEpoch,
         SetKarmaParams, SeatsAllow
  <2> QED BY <1>1, <2>1 DEF SeatsAfter
<1>2. CASE a.type = "MigrateWallet"
  <2>1. a.new_wallet \in Holder
    BY <1>2 DEF RawAction, RotateSeat, MigrateWallet, WithdrawTreasury,
         WithdrawTreasuryToken, SetTreasuryWallet, BeginMemberEpoch,
         SetKarmaParams
  <2>2. SeatsAfter(a) = Rebind(seats, a.old_wallet, a.new_wallet)
    BY <1>2 DEF SeatsAfter
  <2> QED BY <2>1, <2>2 DEF Rebind
<1>3. CASE a.type \notin {"RotateSeat", "MigrateWallet"}
  BY <1>3 DEF SeatsAfter
<1> QED BY <1>1, <1>2, <1>3

LEMMA RecordBallotType ==
    ASSUME NEW n \in Nonces, NEW who \in Wallets, TypeOK,
           HoldsSeat(seats, who), RecordBallot(n, who)
    PROVE  /\ SeatOf(seats, who) \in Seats
           /\ cast' \in [Nonces -> [Seats -> Ballot]]
           /\ cast'[n][SeatOf(seats, who)] = [who |-> who, at |-> now]
           /\ \A m \in Nonces, s \in Seats :
                 m # n \/ s # SeatOf(seats, who) => cast'[m][s] = cast[m][s]
<1> DEFINE s0 == SeatOf(seats, who)
<1>1. s0 \in Seats
  BY SeatOfHolds
<1>2. [who |-> who, at |-> now] \in Ballot
  BY DEF TypeOK, Ballot, Holder
<1>3. cast' = [cast EXCEPT ![n][s0] = [who |-> who, at |-> now]]
  BY DEF RecordBallot
<1> HIDE DEF s0
<1>4. /\ cast' \in [Nonces -> [Seats -> Ballot]]
      /\ cast'[n][s0] = [who |-> who, at |-> now]
      /\ \A m \in Nonces, s \in Seats : m # n \/ s # s0 => cast'[m][s] = cast[m][s]
  BY <1>1, <1>2, <1>3 DEF TypeOK
<1> QED BY <1>1, <1>4 DEF s0

LEMMA InitType == Init => TypeOK
<1> SUFFICES ASSUME Init PROVE TypeOK
  OBVIOUS
<1>1. seats \in [Seats -> Holder]
  BY GovernanceAssumption DEF Init
<1>2. NoBallot \in Ballot
  BY DEF NoBallot, Ballot, Holder
<1>3. cast \in [Nonces -> [Seats -> Ballot]] /\ executedAt \in [Nonces -> Nat]
  BY <1>2 DEF Init
<1> QED BY <1>1, <1>3 DEF Init, TypeOK, Opened

LEMMA NextType == TypeOK /\ [Next]_vars => TypeOK'
<1> SUFFICES ASSUME TypeOK, [Next]_vars PROVE TypeOK'
  OBVIOUS
<1>1. ASSUME NEW n \in Nonces, NEW who \in Wallets, NEW a \in Offered,
             Propose(n, who, a)
      PROVE  TypeOK'
  <2>1. cast' \in [Nonces -> [Seats -> Ballot]] /\ SeatOf(seats, who) \in Seats
    BY <1>1, RecordBallotType DEF Propose
  <2>2. NewProposal(a, SeatOf(seats, who), now) \in Proposal
    BY <2>1, NewProposalFacts, GovernanceAssumption DEF TypeOK
  <2>3. /\ Opened' \subseteq Nonces
        /\ \A m \in Opened' : proposals'[m] \in Proposal
    BY <1>1, <2>2 DEF Propose, TypeOK, Opened
  <2> QED BY <1>1, <2>1, <2>3 DEF Propose, TypeOK
<1>2. ASSUME NEW n \in Nonces, NEW who \in Wallets, Approve(n, who)
      PROVE  TypeOK'
  <2>1. cast' \in [Nonces -> [Seats -> Ballot]] /\ SeatOf(seats, who) \in Seats
    BY <1>2, RecordBallotType DEF Approve
  <2>2. AddApproval(proposals[n], SeatOf(seats, who), now) \in Proposal
    BY <1>2, <2>1, AddApprovalFacts DEF TypeOK, Approve
  <2>3. /\ Opened' \subseteq Nonces
        /\ \A m \in Opened' : proposals'[m] \in Proposal
    BY <1>2, <2>2 DEF Approve, TypeOK, Opened
  <2> QED BY <1>2, <2>1, <2>3 DEF Approve, TypeOK
<1>3. ASSUME NEW n \in Nonces, NEW who \in Wallets, CancelProposal(n, who)
      PROVE  TypeOK'
  <2>1. [proposals[n] EXCEPT !.cancelled = TRUE] \in Proposal
    BY <1>3 DEF CancelProposal, TypeOK, Proposal
  <2>2. /\ Opened' \subseteq Nonces
        /\ \A m \in Opened' : proposals'[m] \in Proposal
    BY <1>3, <2>1 DEF CancelProposal, TypeOK, Opened
  <2> QED BY <1>3, <2>2 DEF CancelProposal, TypeOK
<1>4. ASSUME NEW n \in Nonces, ExecuteProposal(n)
      PROVE  TypeOK'
  <2>1. [proposals[n] EXCEPT !.executed = TRUE] \in Proposal
    BY <1>4 DEF ExecuteProposal, TypeOK, Proposal
  <2>2. /\ Opened' \subseteq Nonces
        /\ \A m \in Opened' : proposals'[m] \in Proposal
    BY <1>4, <2>1 DEF ExecuteProposal, TypeOK, Opened
  <2>3. proposals[n].action \in RawAction
    BY <1>4 DEF ExecuteProposal, TypeOK, Proposal
  <2>4. seats' \in [Seats -> Holder]
    BY <1>4, <2>3, SeatsAfterType DEF ExecuteProposal, TypeOK
  <2> QED BY <1>4, <2>2, <2>4 DEF ExecuteProposal, TypeOK
<1>5. ASSUME NEW e \in Elections, InstallElectedSeat(e)
      PROVE  TypeOK'
  BY <1>5, GovernanceAssumption DEF InstallElectedSeat, TypeOK, history, Opened
<1>6. ASSUME NEW r \in ChildRotations, ExecuteChildRotation(r)
      PROVE  TypeOK'
  BY <1>6, GovernanceAssumption DEF ExecuteChildRotation, TypeOK, history, Opened
<1>7. CASE Tick
  BY <1>7 DEF Tick, TypeOK, history, Opened
<1>8. CASE UNCHANGED vars
  BY <1>8 DEF vars, TypeOK, Opened
<1> QED BY <1>1, <1>2, <1>3, <1>4, <1>5, <1>6, <1>7, <1>8 DEF Next

\* Every state the program reaches has the declared types: the seats hold
\* wallets or nobody, and every stored proposal is one propose could store.
THEOREM TypeCorrect == Spec => []TypeOK
<1>1. Init => TypeOK
  BY InitType
<1>2. TypeOK /\ [Next]_vars => TypeOK'
  BY NextType
<1> QED BY <1>1, <1>2, PTL DEF Spec

-----------------------------------------------------------------------------
(* The inductive invariant.                                                *)

\* The two actions that write seats keep one seat to a wallet, given that
\* propose refused to store a migration from nobody.
LEMMA SeatsAfterOneEach ==
    ASSUME TypeOK, OneSeatEach, NEW a \in RawAction, ValidAction(a),
           SeatsAllow(a), seats' = SeatsAfter(a)
    PROVE  OneSeatEach'
<1> SUFFICES ASSUME NEW i \in Seats, NEW j \in Seats,
                    seats'[i] = seats'[j], seats'[i] # NoWallet
             PROVE  i = j
  BY DEF OneSeatEach
<1>0. seats \in [Seats -> Holder]
  BY DEF TypeOK
<1>1. CASE a.type = "RotateSeat"
  <2>1. a.seat_index \in Seats /\ ~OccupiedElsewhere(seats, a.new_holder, a.seat_index)
    BY <1>1 DEF SeatsAllow
  <2>2. seats' = [seats EXCEPT ![a.seat_index] = a.new_holder]
    BY <1>1 DEF SeatsAfter
  <2> QED BY <1>0, <2>1, <2>2 DEF OneSeatEach, OccupiedElsewhere
<1>2. CASE a.type = "MigrateWallet"
  <2>1. /\ a.old_wallet # NoWallet /\ a.new_wallet # NoWallet
        /\ HoldsSeat(seats, a.old_wallet) => ~HoldsSeat(seats, a.new_wallet)
    BY <1>2 DEF SeatsAllow, ValidAction
  <2>2. \A k \in Seats :
          seats'[k] = IF seats[k] = a.old_wallet THEN a.new_wallet ELSE seats[k]
    BY <1>2 DEF SeatsAfter, Rebind
  <2> QED BY <2>1, <2>2 DEF OneSeatEach, HoldsSeat
<1>3. CASE a.type \notin {"RotateSeat", "MigrateWallet"}
  BY <1>3 DEF SeatsAfter, OneSeatEach
<1> QED BY <1>1, <1>2, <1>3

LEMMA InitDeciding == Init => Deciding
BY DEF Init, Deciding, ActionsValid, OneSeatEach, CancelWins, Opened,
       FilledAndDistinct

LEMMA NextDeciding == TypeOK /\ Deciding /\ [Next]_vars => Deciding'
<1> SUFFICES ASSUME TypeOK, Deciding, [Next]_vars PROVE Deciding'
  OBVIOUS
<1> USE DEF Deciding
<1>1. ASSUME NEW n \in Nonces, NEW who \in Wallets, NEW a \in Offered,
             Propose(n, who, a)
      PROVE  Deciding'
  <2>1. SeatOf(seats, who) \in Seats /\ a \in RawAction /\ now \in Nat
    BY <1>1, RecordBallotType, GovernanceAssumption DEF Propose, TypeOK
  <2>2. LET q == NewProposal(a, SeatOf(seats, who), now)
        IN  q.action = a /\ ~q.executed /\ ~q.cancelled
    BY <2>1, NewProposalFacts
  <2> QED BY <1>1, <2>2 DEF Propose, ActionsValid, OneSeatEach, CancelWins, Opened
<1>2. ASSUME NEW n \in Nonces, NEW who \in Wallets, Approve(n, who)
      PROVE  Deciding'
  <2>1. SeatOf(seats, who) \in Seats /\ proposals[n] \in Proposal /\ now \in Nat
    BY <1>2, RecordBallotType DEF Approve, TypeOK
  <2>2. LET q == AddApproval(proposals[n], SeatOf(seats, who), now)
        IN  /\ q.action = proposals[n].action
            /\ q.executed = proposals[n].executed
            /\ q.cancelled = proposals[n].cancelled
    BY <2>1, AddApprovalFacts
  <2> QED BY <1>2, <2>2 DEF Approve, ActionsValid, OneSeatEach, CancelWins, Opened
<1>3. ASSUME NEW n \in Nonces, NEW who \in Wallets, CancelProposal(n, who)
      PROVE  Deciding'
  <2>1. /\ n \in Opened /\ Opened' = Opened
        /\ proposals[n] \in Proposal /\ ~proposals[n].executed
        /\ proposals' = [proposals EXCEPT ![n].cancelled = TRUE]
        /\ seats' = seats
    BY <1>3 DEF CancelProposal, TypeOK, Opened
  <2>2. \A m \in Opened : /\ proposals'[m].action = proposals[m].action
                          /\ proposals'[m].executed = proposals[m].executed
                          /\ m # n => proposals'[m].cancelled = proposals[m].cancelled
    BY <2>1 DEF Proposal, Opened
  <2> QED BY <2>1, <2>2 DEF ActionsValid, OneSeatEach, CancelWins
<1>4. ASSUME NEW n \in Nonces, ExecuteProposal(n)
      PROVE  Deciding'
  <2>1. /\ n \in Opened /\ Opened' = Opened
        /\ proposals[n] \in Proposal /\ ~proposals[n].cancelled
        /\ proposals' = [proposals EXCEPT ![n].executed = TRUE]
        /\ SeatsAllow(proposals[n].action)
        /\ seats' = SeatsAfter(proposals[n].action)
    BY <1>4 DEF ExecuteProposal, RequireExecutable, TypeOK, Opened
  <2>2. \A m \in Opened : /\ proposals'[m].action = proposals[m].action
                          /\ proposals'[m].cancelled = proposals[m].cancelled
                          /\ m # n => proposals'[m].executed = proposals[m].executed
    BY <2>1 DEF Proposal, Opened
  <2>3. OneSeatEach'
    <3>1. proposals[n].action \in RawAction /\ ValidAction(proposals[n].action)
      BY <2>1 DEF Proposal, ActionsValid
    <3> QED BY <2>1, <3>1, SeatsAfterOneEach
  <2> QED BY <2>1, <2>2, <2>3 DEF ActionsValid, CancelWins
<1>5. ASSUME NEW e \in Elections, InstallElectedSeat(e)
      PROVE  Deciding'
  <2>1. OneSeatEach'
    BY <1>5, GovernanceAssumption DEF InstallElectedSeat, OneSeatEach, TypeOK
  <2> QED BY <1>5, <2>1 DEF InstallElectedSeat, ActionsValid, CancelWins, Opened
<1>6. ASSUME NEW r \in ChildRotations, ExecuteChildRotation(r)
      PROVE  Deciding'
  <2>1. OneSeatEach'
    BY <1>6 DEF ExecuteChildRotation, OneSeatEach, FilledAndDistinct
  <2> QED BY <1>6, <2>1 DEF ExecuteChildRotation, ActionsValid, CancelWins, Opened
<1>7. CASE Tick
  BY <1>7 DEF Tick, ActionsValid, OneSeatEach, CancelWins, Opened
<1>8. CASE UNCHANGED vars
  BY <1>8 DEF vars, ActionsValid, OneSeatEach, CancelWins, Opened
<1> QED BY <1>1, <1>2, <1>3, <1>4, <1>5, <1>6, <1>7, <1>8 DEF Next

\* However the four writers of the seats interleave, no wallet ever holds two
\* of them: every approval that counts is a different holder's at its time.
THEOREM OneSeatEachAlways == Spec => []OneSeatEach
<1>1. Init => TypeOK /\ Deciding
  BY InitType, InitDeciding
<1>2. (TypeOK /\ Deciding) /\ [Next]_vars => (TypeOK /\ Deciding)'
  BY NextType, NextDeciding
<1>3. Deciding => OneSeatEach
  BY DEF Deciding
<1> QED BY <1>1, <1>2, <1>3, PTL DEF Spec

\* A cancelled proposal is never executed and an executed one never cancelled.
THEOREM CancelWinsAlways == Spec => []CancelWins
<1>1. Init => TypeOK /\ Deciding
  BY InitType, InitDeciding
<1>2. (TypeOK /\ Deciding) /\ [Next]_vars => (TypeOK /\ Deciding)'
  BY NextType, NextDeciding
<1>3. Deciding => CancelWins
  BY DEF Deciding
<1> QED BY <1>1, <1>2, <1>3, PTL DEF Spec

-----------------------------------------------------------------------------
(* The contest window.                                                     *)

LEMMA SeasonedSubset ==
    ASSUME NEW p \in Proposal, NEW c, NEW t,
           NEW q \in Proposal, NEW d, NEW u,
           Seasoned(p, c, t) \subseteq Seasoned(q, d, u),
           Cardinality(Seasoned(p, c, t)) >= Threshold
    PROVE  Cardinality(Seasoned(q, d, u)) >= Threshold
<1>1. IsFiniteSet(Seasoned(q, d, u))
  <2>1. Seasoned(q, d, u) \in SUBSET Seats
    BY DEF Seasoned, Proposal
  <2> QED BY <2>1, SeatsFinite, FS_Subset
<1>2. IsFiniteSet(Seasoned(p, c, t))
  BY <1>1, FS_Subset
<1>3. /\ Cardinality(Seasoned(p, c, t)) \in Nat
      /\ Cardinality(Seasoned(q, d, u)) \in Nat
  BY <1>1, <1>2, FS_CardinalityType
<1>4. Cardinality(Seasoned(p, c, t)) <= Cardinality(Seasoned(q, d, u))
  BY <1>1, FS_Subset
<1> QED BY <1>3, <1>4

\* A proposal armed at t by approvals none of which is later than t.
LEMMA SeasonedWhenArmed ==
    ASSUME NEW p \in Proposal, NEW c \in [Seats -> Ballot], NEW t \in Nat,
           \A s \in p.approvals : c[s].who # NoWallet /\ c[s].at <= t,
           p.eligible_at >= t + RecoveryTimelock,
           Cardinality(p.approvals) >= Threshold
    PROVE  Cardinality(Seasoned(p, c, p.eligible_at)) >= Threshold
<1>1. p.approvals \subseteq Seats /\ p.eligible_at \in Nat
  BY DEF Proposal
<1>2. \A s \in p.approvals : c[s].at + RecoveryTimelock <= p.eligible_at
  BY <1>1 DEF Ballot
<1>3. Seasoned(p, c, p.eligible_at) = p.approvals
  BY <1>2 DEF Seasoned
<1> QED BY <1>3

LEMMA InitTiming == Init => Timing
BY DEF Init, Timing, BallotsCast, WindowStamped, ExecutedWhenDue, Opened

\* A step that touches neither the approvals of any proposal nor the end of
\* its window keeps the timing, if it executes only what is due.
LEMMA TimingKept ==
    ASSUME TypeOK, TypeOK', Timing, cast' = cast, now' >= now,
           Opened' = Opened,
           \A m \in Opened :
              /\ proposals'[m].approvals = proposals[m].approvals
              /\ proposals'[m].eligible_at = proposals[m].eligible_at
              /\ proposals'[m].executed =>
                    \/ proposals[m].executed /\ executedAt'[m] = executedAt[m]
                    \/ /\ Armed(proposals[m])
                       /\ executedAt'[m] >= proposals[m].eligible_at
    PROVE  Timing'
<1>1. BallotsCast'
  <2> SUFFICES ASSUME NEW m \in Opened, NEW s \in proposals[m].approvals
               PROVE  cast[m][s].who # NoWallet /\ cast[m][s].at <= now'
    BY DEF BallotsCast
  <2>1. cast[m][s].who # NoWallet /\ cast[m][s].at <= now
    BY DEF Timing, BallotsCast
  <2>2. cast[m][s].at \in Nat /\ now \in Nat /\ now' \in Nat
    BY DEF TypeOK, Ballot, Proposal
  <2> QED BY <2>1, <2>2
<1>2. WindowStamped'
  <2> SUFFICES ASSUME NEW m \in Opened, Armed(proposals'[m])
               PROVE  Cardinality(Seasoned(proposals'[m], cast[m],
                                           proposals'[m].eligible_at)) >= Threshold
    BY DEF WindowStamped
  <2>1. Seasoned(proposals'[m], cast[m], proposals'[m].eligible_at)
          = Seasoned(proposals[m], cast[m], proposals[m].eligible_at)
    BY DEF Seasoned
  <2> QED BY <2>1 DEF Timing, WindowStamped, Armed
<1>3. ExecutedWhenDue'
  BY DEF Timing, ExecutedWhenDue, Armed
<1> QED BY <1>1, <1>2, <1>3 DEF Timing

LEMMA NextTiming == TypeOK /\ TypeOK' /\ Timing /\ [Next]_vars => Timing'
<1> SUFFICES ASSUME TypeOK, TypeOK', Timing, [Next]_vars PROVE Timing'
  OBVIOUS
<1>1. ASSUME NEW n \in Nonces, NEW who \in Wallets, NEW a \in Offered,
             Propose(n, who, a)
      PROVE  Timing'
  <2> DEFINE s0 == SeatOf(seats, who)
             q == NewProposal(a, s0, now)
  <2>1. /\ s0 \in Seats /\ a \in RawAction /\ now \in Nat
        /\ cast' \in [Nonces -> [Seats -> Ballot]]
        /\ cast'[n][s0] = [who |-> who, at |-> now]
        /\ \A m \in Nonces, s \in Seats : m # n => cast'[m][s] = cast[m][s]
    BY <1>1, RecordBallotType, GovernanceAssumption DEF Propose, TypeOK
  <2>2. /\ q \in Proposal /\ q.approvals = {s0} /\ ~q.executed
        /\ Armed(q) => /\ Cardinality(q.approvals) >= Threshold
                       /\ q.eligible_at >= now + RecoveryTimelock
    BY <2>1, NewProposalFacts
  <2>3. /\ n \notin Opened /\ Opened' = Opened \cup {n} /\ proposals'[n] = q
        /\ \A m \in Opened : proposals'[m] = proposals[m] /\ m # n
        /\ now' = now /\ executedAt' = executedAt /\ Opened \subseteq Nonces
    BY <1>1 DEF Propose, Opened, TypeOK
  <2> HIDE DEF q, s0
  <2>4. cast'[n][s0].who # NoWallet /\ cast'[n][s0].at <= now
    BY <2>1
  <2>5. \A m \in Opened : \A s \in proposals[m].approvals : cast'[m][s] = cast[m][s]
    BY <2>1, <2>3 DEF TypeOK, Proposal
  <2>6. BallotsCast'
    BY <2>2, <2>3, <2>4, <2>5 DEF Timing, BallotsCast
  <2>7. WindowStamped'
    <3> SUFFICES ASSUME NEW m \in Opened', Armed(proposals'[m])
                 PROVE  Cardinality(Seasoned(proposals'[m], cast'[m],
                                             proposals'[m].eligible_at)) >= Threshold
      BY DEF WindowStamped
    <3>1. CASE m = n
      <4>1. cast'[n] \in [Seats -> Ballot]
        BY <2>1
      <4> QED BY <2>1, <2>2, <2>3, <2>4, <3>1, <4>1, SeasonedWhenArmed
    <3>2. CASE m # n
      <4>1. m \in Opened /\ proposals'[m] = proposals[m]
        BY <2>3, <3>2
      <4>2. Seasoned(proposals'[m], cast'[m], proposals'[m].eligible_at)
              = Seasoned(proposals[m], cast[m], proposals[m].eligible_at)
        BY <2>5, <4>1 DEF Seasoned
      <4> QED BY <4>1, <4>2 DEF Timing, WindowStamped
    <3> QED BY <3>1, <3>2
  <2>8. ExecutedWhenDue'
    BY <2>2, <2>3 DEF Timing, ExecutedWhenDue
  <2> QED BY <2>6, <2>7, <2>8 DEF Timing
<1>2. ASSUME NEW n \in Nonces, NEW who \in Wallets, Approve(n, who)
      PROVE  Timing'
  <2> DEFINE s0 == SeatOf(seats, who)
             p == proposals[n]
             q == AddApproval(p, s0, now)
  <2>1. /\ s0 \in Seats /\ p \in Proposal /\ now \in Nat
        /\ cast' \in [Nonces -> [Seats -> Ballot]]
        /\ cast'[n][s0] = [who |-> who, at |-> now]
        /\ \A m \in Nonces, s \in Seats :
              m # n \/ s # s0 => cast'[m][s] = cast[m][s]
    BY <1>2, RecordBallotType DEF Approve, TypeOK
  <2>2. /\ q \in Proposal /\ q.approvals = p.approvals \cup {s0}
        /\ q.executed = p.executed
        /\ Armed(p) => q.eligible_at = p.eligible_at
        /\ ~Armed(p) /\ Armed(q) =>
              /\ Cardinality(q.approvals) >= Threshold
              /\ q.eligible_at >= now + RecoveryTimelock
    BY <2>1, AddApprovalFacts
  <2>3. /\ n \in Opened /\ Opened' = Opened /\ proposals'[n] = q
        /\ \A m \in Opened : m # n => proposals'[m] = proposals[m]
        /\ now' = now /\ executedAt' = executedAt /\ Opened \subseteq Nonces
        /\ ~p.executed /\ s0 \notin p.approvals
    BY <1>2 DEF Approve, Opened, TypeOK
  <2>p. p = proposals[n]
    OBVIOUS
  <2> HIDE DEF q, s0, p
  <2>4. cast'[n][s0].who # NoWallet /\ cast'[n][s0].at <= now
    BY <2>1
  <2>5. \A m \in Opened : \A s \in proposals[m].approvals : cast'[m][s] = cast[m][s]
    BY <2>1, <2>3, <2>p DEF TypeOK, Proposal
  <2>6. BallotsCast'
    BY <2>2, <2>3, <2>4, <2>5, <2>p DEF Timing, BallotsCast
  <2>7. WindowStamped'
    <3> SUFFICES ASSUME NEW m \in Opened, Armed(proposals'[m])
                 PROVE  Cardinality(Seasoned(proposals'[m], cast'[m],
                                             proposals'[m].eligible_at)) >= Threshold
      BY <2>3 DEF WindowStamped
    <3>1. CASE m = n /\ Armed(p)
      <4>1. Seasoned(p, cast[n], p.eligible_at)
              \subseteq Seasoned(q, cast'[n], q.eligible_at)
        BY <2>2, <2>3, <2>5, <2>p, <3>1 DEF Seasoned
      <4>2. Cardinality(Seasoned(p, cast[n], p.eligible_at)) >= Threshold
        BY <2>3, <2>p, <3>1 DEF Timing, WindowStamped
      <4> QED BY <2>1, <2>2, <2>3, <3>1, <4>1, <4>2, SeasonedSubset
    <3>2. CASE m = n /\ ~Armed(p)
      <4>1. cast'[n] \in [Seats -> Ballot]
        BY <2>1
      <4>2. \A s \in q.approvals : cast'[n][s].who # NoWallet /\ cast'[n][s].at <= now
        BY <2>2, <2>3, <2>4, <2>5, <2>p DEF Timing, BallotsCast
      <4> QED BY <2>1, <2>2, <2>3, <3>2, <4>1, <4>2, SeasonedWhenArmed
    <3>3. CASE m # n
      <4>1. proposals'[m] = proposals[m]
        BY <2>3, <3>3
      <4>2. Seasoned(proposals'[m], cast'[m], proposals'[m].eligible_at)
              = Seasoned(proposals[m], cast[m], proposals[m].eligible_at)
        BY <2>5, <4>1 DEF Seasoned
      <4> QED BY <4>1, <4>2 DEF Timing, WindowStamped
    <3> QED BY <3>1, <3>2, <3>3
  <2>8. ExecutedWhenDue'
    BY <2>2, <2>3 DEF Timing, ExecutedWhenDue
  <2> QED BY <2>6, <2>7, <2>8 DEF Timing
<1>3. ASSUME NEW n \in Nonces, NEW who \in Wallets, CancelProposal(n, who)
      PROVE  Timing'
  <2>1. /\ Opened' = Opened /\ cast' = cast /\ now' = now /\ now \in Nat
        /\ executedAt' = executedAt
        /\ proposals' = [proposals EXCEPT ![n].cancelled = TRUE]
        /\ \A m \in Opened : proposals[m] \in Proposal
    BY <1>3 DEF CancelProposal, TypeOK, Opened
  <2>2. \A m \in Opened :
          /\ proposals'[m].approvals = proposals[m].approvals
          /\ proposals'[m].eligible_at = proposals[m].eligible_at
          /\ proposals'[m].executed = proposals[m].executed
    BY <2>1 DEF Proposal, Opened
  <2> QED BY <2>1, <2>2, TimingKept
<1>4. ASSUME NEW n \in Nonces, ExecuteProposal(n)
      PROVE  Timing'
  <2>1. /\ n \in Opened /\ Opened' = Opened /\ cast' = cast /\ now' = now
        /\ now \in Nat /\ executedAt' = [executedAt EXCEPT ![n] = now]
        /\ executedAt \in [Nonces -> Nat] /\ Opened \subseteq Nonces
        /\ Armed(proposals[n]) /\ now >= proposals[n].eligible_at
        /\ proposals' = [proposals EXCEPT ![n].executed = TRUE]
        /\ \A m \in Opened : proposals[m] \in Proposal
    BY <1>4 DEF ExecuteProposal, RequireExecutable, TypeOK, Opened
  <2>2. \A m \in Opened :
          /\ proposals'[m].approvals = proposals[m].approvals
          /\ proposals'[m].eligible_at = proposals[m].eligible_at
          /\ m # n => proposals'[m].executed = proposals[m].executed
    BY <2>1 DEF Proposal, Opened
  <2>3. \A m \in Opened : executedAt'[m] = IF m = n THEN now ELSE executedAt[m]
    BY <2>1
  <2> QED BY <2>1, <2>2, <2>3, TimingKept
<1>5. ASSUME NEW e \in Elections, InstallElectedSeat(e)
      PROVE  Timing'
  BY <1>5, TimingKept DEF InstallElectedSeat, history, Opened, TypeOK
<1>6. ASSUME NEW r \in ChildRotations, ExecuteChildRotation(r)
      PROVE  Timing'
  BY <1>6, TimingKept DEF ExecuteChildRotation, history, Opened, TypeOK
<1>7. CASE Tick
  BY <1>7, TimingKept DEF Tick, history, Opened, TypeOK
<1>8. CASE UNCHANGED vars
  BY <1>8, TimingKept DEF vars, Opened, TypeOK
<1> QED BY <1>1, <1>2, <1>3, <1>4, <1>5, <1>6, <1>7, <1>8 DEF Next

\* The inductive invariant of the Council, from which the rest follows.
THEOREM Inductive == Spec => []IInv
<1>1. Init => IInv
  BY InitType, InitDeciding, InitTiming DEF IInv
<1>2. IInv /\ [Next]_vars => IInv'
  BY NextType, NextDeciding, NextTiming DEF IInv
<1> QED BY <1>1, <1>2, PTL DEF Spec

LEMMA TimingGivesWindow == TypeOK /\ Timing => ContestWindow
<1> SUFFICES ASSUME TypeOK, Timing, NEW n \in Opened, proposals[n].executed
             PROVE  Cardinality(Seasoned(proposals[n], cast[n], executedAt[n]))
                      >= Threshold
  BY DEF ContestWindow, Seasoned
<1> DEFINE p == proposals[n]
<1>1. /\ p \in Proposal /\ executedAt[n] >= p.eligible_at
      /\ Cardinality(Seasoned(p, cast[n], p.eligible_at)) >= Threshold
  BY DEF Timing, ExecutedWhenDue, WindowStamped, TypeOK
<1>2. /\ p.approvals \subseteq Seats /\ p.eligible_at \in Nat
      /\ executedAt[n] \in Nat /\ cast[n] \in [Seats -> Ballot]
  BY <1>1 DEF TypeOK, Proposal
<1>3. Seasoned(p, cast[n], p.eligible_at) \subseteq Seasoned(p, cast[n], executedAt[n])
  BY <1>1, <1>2 DEF Seasoned, Ballot
<1> QED BY <1>1, <1>3, SeasonedSubset

\* Every executed proposal had Threshold approvals a full contest window
\* before its execution: no later approval, cancellation attempt or change
\* of the seats shortens the window in which one seat can stop it.
THEOREM ContestWindowAlways == Spec => []ContestWindow
<1>1. IInv => ContestWindow
  BY TimingGivesWindow DEF IInv
<1> QED BY <1>1, Inductive, PTL

-----------------------------------------------------------------------------
(* What a step may never do to a proposal.                                 *)

LEMMA NextForward ==
    ASSUME TypeOK, [Next]_vars, NEW n \in Opened
    PROVE  Forward(proposals[n], proposals'[n])
<1> DEFINE p == proposals[n]
<1>0. p \in Proposal /\ now \in Nat
  BY DEF TypeOK
<1>1. ASSUME NEW m \in Nonces, NEW who \in Wallets, NEW a \in Offered,
             Propose(m, who, a)
      PROVE  proposals'[n] = p
  BY <1>1 DEF Propose, Opened
<1>2. ASSUME NEW m \in Nonces, NEW who \in Wallets, Approve(m, who)
      PROVE  Forward(p, proposals'[n])
  <2>1. CASE n = m
    <3>1. SeatOf(seats, who) \in Seats /\ ~p.executed /\ ~p.cancelled
          /\ proposals'[n] = AddApproval(p, SeatOf(seats, who), now)
      BY <1>2, <2>1, RecordBallotType DEF Approve, Opened
    <3> DEFINE q == AddApproval(p, SeatOf(seats, who), now)
    <3>2. /\ q.action = p.action
          /\ q.approvals = p.approvals \cup {SeatOf(seats, who)}
          /\ Armed(p) => q.eligible_at = p.eligible_at
      <4> HIDE DEF p
      <4> QED BY <1>0, <3>1, AddApprovalFacts
    <3> QED BY <3>1, <3>2 DEF Forward
  <2>2. CASE n # m
    BY <1>2, <2>2 DEF Approve, Opened, Forward
  <2> QED BY <2>1, <2>2
<1>3. ASSUME NEW m \in Nonces, NEW who \in Wallets, CancelProposal(m, who)
      PROVE  Forward(p, proposals'[n])
  BY <1>0, <1>3 DEF CancelProposal, Opened, Forward, Proposal, Armed
<1>4. ASSUME NEW m \in Nonces, ExecuteProposal(m)
      PROVE  Forward(p, proposals'[n])
  BY <1>0, <1>4 DEF ExecuteProposal, Opened, Forward, Proposal, Armed
<1>5. CASE UNCHANGED proposals
  BY <1>5 DEF Forward
<1>6. ASSUME NEW e \in Elections, InstallElectedSeat(e)
      PROVE  UNCHANGED proposals
  BY <1>6 DEF InstallElectedSeat
<1>7. ASSUME NEW r \in ChildRotations, ExecuteChildRotation(r)
      PROVE  UNCHANGED proposals
  BY <1>7 DEF ExecuteChildRotation
<1>8. Tick \/ UNCHANGED vars => UNCHANGED proposals
  BY DEF Tick, vars
<1>9. Forward(p, p)
  BY DEF Forward
<1> QED BY <1>1, <1>2, <1>3, <1>4, <1>5, <1>6, <1>7, <1>8, <1>9 DEF Next

\* Approvals, action, window and outcome of a proposal only move forward.
THEOREM IrrevocableAlways == Spec => Irrevocable
<1>1. TypeOK /\ [Next]_vars => [OnlyForward]_vars
  BY NextForward DEF OnlyForward
<1> QED BY <1>1, TypeCorrect, PTL DEF Spec, Irrevocable

LEMMA NextRemoved == IInv /\ [Next]_vars => [RemovedByDecision]_vars
<1> SUFFICES ASSUME IInv, [Next]_vars, NEW w \in Wallets,
                    HoldsSeat(seats, w), ~HoldsSeat(seats', w),
                    applied' = applied
             PROVE  \E n \in Opened :
                      /\ ~proposals[n].executed /\ proposals'[n].executed
                      /\ ~proposals[n].cancelled
                      /\ Cardinality(LongApproved(n)) >= Threshold
  BY DEF RemovedByDecision
<1>1. ASSUME NEW n \in Nonces, ExecuteProposal(n)
      PROVE  /\ n \in Opened /\ ~proposals[n].executed /\ proposals'[n].executed
             /\ ~proposals[n].cancelled
             /\ Cardinality(LongApproved(n)) >= Threshold
  <2> DEFINE p == proposals[n]
             early == Seasoned(p, cast[n], p.eligible_at)
  <2>1. /\ n \in Opened /\ p \in Proposal /\ ~p.executed /\ ~p.cancelled
        /\ Armed(p) /\ now >= p.eligible_at
        /\ proposals' = [proposals EXCEPT ![n].executed = TRUE]
        /\ n \in Nonces
    BY <1>1 DEF ExecuteProposal, RequireExecutable, IInv, TypeOK
  <2>2. proposals'[n].executed
    BY <2>1 DEF Proposal, Opened
  <2>3. Cardinality(early) >= Threshold
    BY <2>1 DEF IInv, Timing, WindowStamped
  <2>4. early \subseteq LongApproved(n)
    <3>1. p.approvals \subseteq Seats /\ p.eligible_at \in Nat /\ now \in Nat
          /\ cast[n] \in [Seats -> Ballot]
      BY <2>1 DEF IInv, TypeOK, Proposal
    <3> QED BY <2>1, <3>1 DEF Seasoned, LongApproved, Ballot
  <2>5. IsFiniteSet(LongApproved(n))
    <3>1. LongApproved(n) \in SUBSET Seats
      BY DEF LongApproved
    <3> QED BY <3>1, SeatsFinite, FS_Subset
  <2>6. /\ IsFiniteSet(early)
        /\ Cardinality(early) <= Cardinality(LongApproved(n))
    BY <2>4, <2>5, FS_Subset
  <2>7. Cardinality(early) \in Nat /\ Cardinality(LongApproved(n)) \in Nat
    BY <2>5, <2>6, FS_CardinalityType
  <2>8. Cardinality(LongApproved(n)) >= Threshold
    BY <2>3, <2>6, <2>7
  <2> QED BY <2>1, <2>2, <2>8
<1>2. ASSUME NEW e \in Elections, InstallElectedSeat(e)
      PROVE  FALSE
  BY <1>2 DEF InstallElectedSeat
<1>3. ASSUME NEW r \in ChildRotations, ExecuteChildRotation(r)
      PROVE  FALSE
  BY <1>3 DEF ExecuteChildRotation
<1>4. seats' # seats
  OBVIOUS
<1>5. ASSUME NEW n \in Nonces, NEW who \in Wallets,
             \/ \E a \in Offered : Propose(n, who, a)
             \/ Approve(n, who) \/ CancelProposal(n, who)
      PROVE  FALSE
  BY <1>4, <1>5 DEF Propose, Approve, CancelProposal
<1>6. ~Tick /\ ~UNCHANGED vars
  BY <1>4 DEF Tick, vars
<1> QED BY <1>1, <1>2, <1>3, <1>5, <1>6 DEF Next

\* A wallet loses its seat, outside elections and parent rotations, only to a
\* decision that it could contest for a full window.
THEOREM RemovalContestableAlways == Spec => RemovalContestable
<1>1. IInv /\ [Next]_vars => [RemovedByDecision]_vars
  BY NextRemoved
<1> QED BY <1>1, Inductive, PTL DEF Spec, RemovalContestable

-----------------------------------------------------------------------------
(* The treasury.                                                           *)

\* Only what was executed is carried out, and only what was due is executed.
DrainedExecuted == \A n \in Opened : proposals[n].drained => proposals[n].executed

WindowOver ==
    \A n \in Opened : proposals[n].executed => now >= proposals[n].eligible_at

Running == IsFiniteSet(Opened) /\ now >= 1

CouncilInv == IInv /\ DrainedExecuted /\ WindowOver /\ Running

\* The books, purse by purse.
Paid == \A p \in Purses, w \in Wallets : received[p][w] = SpentTo(p, w)

Balanced ==
    \A p \in Purses : balance[p] + SumFunctionOnSet(received[p], Wallets) = donated[p]

StewardNamed ==
    steward # NoWallet =>
        /\ steward \in Multisigs
        /\ \E n \in Opened : /\ proposals[n].drained
                             /\ proposals[n].action.type = "SetTreasuryWallet"
                             /\ proposals[n].action.new_wallet = steward

TreasuryInv == TreasuryTypeOK /\ CouncilInv /\ Paid /\ Balanced /\ StewardNamed

USE CouncilAssumption

-----------------------------------------------------------------------------
(* What the steps do to the proposals.                                     *)

\* Marking a decision consumed changes nothing else about any proposal.
LEMMA ConsumeFacts ==
    ASSUME TypeOK, NEW n \in Opened, Consume(n)
    PROVE  /\ Opened' = Opened
           /\ \A m \in Opened :
                 /\ proposals'[m] \in Proposal
                 /\ proposals'[m].action = proposals[m].action
                 /\ proposals'[m].approvals = proposals[m].approvals
                 /\ proposals'[m].executed = proposals[m].executed
                 /\ proposals'[m].cancelled = proposals[m].cancelled
                 /\ proposals'[m].eligible_at = proposals[m].eligible_at
                 /\ proposals'[m].drained = (m = n \/ proposals[m].drained)
<1>1. proposals' = [proposals EXCEPT ![n].drained = TRUE] /\ Opened' = Opened
  BY DEF Consume, Opened
<1>2. \A m \in Opened : proposals[m] \in Proposal
  BY DEF TypeOK
<1>3. ASSUME NEW m \in Opened, m # n
      PROVE  proposals'[m] = proposals[m]
  BY <1>1, <1>3 DEF Opened
<1>4. proposals'[n] = [proposals[n] EXCEPT !.drained = TRUE]
  BY <1>1 DEF Opened
<1>5. ASSUME NEW m \in Opened, m = n
      PROVE  /\ proposals'[m] \in Proposal
             /\ proposals'[m].action = proposals[m].action
             /\ proposals'[m].approvals = proposals[m].approvals
             /\ proposals'[m].executed = proposals[m].executed
             /\ proposals'[m].cancelled = proposals[m].cancelled
             /\ proposals'[m].eligible_at = proposals[m].eligible_at
             /\ proposals'[m].drained = TRUE
  BY <1>2, <1>4, <1>5 DEF Proposal
<1>6. \A m \in Opened : m # n => proposals'[m].drained = (m = n \/ proposals[m].drained)
  BY <1>2, <1>3 DEF Proposal
<1> QED BY <1>1, <1>2, <1>3, <1>5, <1>6

\* Carrying a decision out keeps what is shown above of the Council.
LEMMA ConsumeKeepsIInv ==
    ASSUME IInv, NEW n \in Opened, Consume(n),
           UNCHANGED <<seats, applied, now, history>>
    PROVE  IInv'
<1>1. TypeOK'
  <2>1. \A m \in Opened' : proposals'[m] \in Proposal
    BY ConsumeFacts DEF IInv
  <2>2. Opened' \subseteq Nonces
    BY ConsumeFacts DEF IInv, TypeOK
  <2> QED BY <2>1, <2>2 DEF IInv, TypeOK, history
<1>2. Deciding'
  BY ConsumeFacts DEF IInv, Deciding, ActionsValid, OneSeatEach, CancelWins
<1>3. Timing'
  <2>1. /\ TypeOK /\ Timing /\ Opened' = Opened
        /\ cast' = cast /\ executedAt' = executedAt /\ now' = now /\ now \in Nat
    BY ConsumeFacts DEF IInv, TypeOK, history
  <2>2. \A m \in Opened :
          /\ proposals'[m].approvals = proposals[m].approvals
          /\ proposals'[m].eligible_at = proposals[m].eligible_at
          /\ proposals'[m].executed = proposals[m].executed
    BY <2>1, ConsumeFacts
  <2>3. now' >= now
    BY <2>1
  <2> QED BY <1>1, <2>1, <2>2, <2>3, TimingKept
<1> QED BY <1>1, <1>2, <1>3 DEF IInv

\* A step of the Council carries nothing out and forgets nothing that was.
LEMMA NextCarriesNothing ==
    ASSUME TypeOK, [Next]_vars, NEW m \in Opened
    PROVE  /\ m \in Opened'
           /\ proposals'[m].action = proposals[m].action
           /\ proposals'[m].drained = proposals[m].drained
           /\ proposals[m].executed => proposals'[m].executed
           /\ proposals'[m].executed =>
                 proposals[m].executed \/ now >= proposals'[m].eligible_at
<1> DEFINE p == proposals[m]
           Kept == /\ m \in Opened'
                   /\ proposals'[m].action = p.action
                   /\ proposals'[m].drained = p.drained
                   /\ p.executed => proposals'[m].executed
                   /\ proposals'[m].executed =>
                         p.executed \/ now >= proposals'[m].eligible_at
<1>0. p \in Proposal /\ now \in Nat
  BY DEF TypeOK
<1> SUFFICES Kept
  OBVIOUS
<1>1. ASSUME NEW n \in Nonces, NEW who \in Wallets, NEW a \in Offered,
             Propose(n, who, a)
      PROVE  Kept
  BY <1>1 DEF Propose, Opened
<1>2. ASSUME NEW n \in Nonces, NEW who \in Wallets, Approve(n, who)
      PROVE  Kept
  <2>1. CASE m = n
    <3>1. SeatOf(seats, who) \in Seats /\ Opened' = Opened
          /\ proposals'[m] = AddApproval(p, SeatOf(seats, who), now)
      BY <1>2, <2>1, RecordBallotType DEF Approve, Opened
    <3>2. LET q == AddApproval(p, SeatOf(seats, who), now)
          IN  q.action = p.action /\ q.drained = p.drained /\ q.executed = p.executed
      <4> HIDE DEF p
      <4> QED BY <1>0, <3>1, AddApprovalFacts
    <3> QED BY <3>1, <3>2
  <2>2. CASE m # n
    BY <1>2, <2>2 DEF Approve, Opened
  <2> QED BY <2>1, <2>2
<1>3. ASSUME NEW n \in Nonces, NEW who \in Wallets, CancelProposal(n, who)
      PROVE  Kept
  BY <1>0, <1>3 DEF CancelProposal, Opened, Proposal
<1>4. ASSUME NEW n \in Nonces, ExecuteProposal(n)
      PROVE  Kept
  BY <1>0, <1>4 DEF ExecuteProposal, RequireExecutable, Opened, Proposal
<1>5. CASE UNCHANGED proposals
  BY <1>5 DEF Opened
<1>6. ASSUME NEW e \in Elections, InstallElectedSeat(e)
      PROVE  UNCHANGED proposals
  BY <1>6 DEF InstallElectedSeat
<1>7. ASSUME NEW r \in ChildRotations, ExecuteChildRotation(r)
      PROVE  UNCHANGED proposals
  BY <1>7 DEF ExecuteChildRotation
<1>8. Tick \/ UNCHANGED vars => UNCHANGED proposals
  BY DEF Tick, vars
<1> HIDE DEF Kept
<1> QED BY <1>1, <1>2, <1>3, <1>4, <1>5, <1>6, <1>7, <1>8 DEF Next

\* It opens one proposal at most, which is not carried out, and time goes on.
LEMMA NextOpensOne ==
    ASSUME TypeOK, [Next]_vars
    PROVE  /\ now' >= now
           /\ \/ Opened' = Opened
              \/ \E n \in Nonces : /\ Opened' = Opened \cup {n}
                                   /\ n \notin Opened /\ ~proposals'[n].drained
                                   /\ ~proposals'[n].executed
<1> DEFINE Goal == /\ now' >= now
                   /\ \/ Opened' = Opened
                      \/ \E n \in Nonces : /\ Opened' = Opened \cup {n}
                                           /\ n \notin Opened
                                           /\ ~proposals'[n].drained
                                           /\ ~proposals'[n].executed
<1> SUFFICES Goal
  OBVIOUS
<1>0. now \in Nat
  BY DEF TypeOK
<1>1. ASSUME NEW n \in Nonces, NEW who \in Wallets, NEW a \in Offered,
             Propose(n, who, a)
      PROVE  Goal
  <2>1. /\ SeatOf(seats, who) \in Seats /\ a \in RawAction
        /\ proposals'[n] = NewProposal(a, SeatOf(seats, who), now)
        /\ n \notin Opened /\ Opened' = Opened \cup {n} /\ now' = now
    BY <1>1, RecordBallotType, GovernanceAssumption DEF Propose, Opened
  <2>2. ~proposals'[n].drained /\ ~proposals'[n].executed
    BY <1>0, <2>1, NewProposalFacts
  <2> QED BY <1>0, <2>1, <2>2
<1>2. ASSUME NEW n \in Nonces, NEW who \in Wallets, Approve(n, who)
      PROVE  Goal
  BY <1>0, <1>2 DEF Approve, Opened
<1>3. ASSUME NEW n \in Nonces, NEW who \in Wallets, CancelProposal(n, who)
      PROVE  Goal
  BY <1>0, <1>3 DEF CancelProposal, Opened
<1>4. ASSUME NEW n \in Nonces, ExecuteProposal(n)
      PROVE  Goal
  BY <1>0, <1>4 DEF ExecuteProposal, Opened
<1>5. ASSUME NEW e \in Elections, InstallElectedSeat(e)
      PROVE  Goal
  BY <1>0, <1>5 DEF InstallElectedSeat, Opened
<1>6. ASSUME NEW r \in ChildRotations, ExecuteChildRotation(r)
      PROVE  Goal
  BY <1>0, <1>6 DEF ExecuteChildRotation, Opened
<1>7. CASE Tick
  BY <1>0, <1>7 DEF Tick, Opened
<1>8. CASE UNCHANGED vars
  BY <1>0, <1>8 DEF vars, Opened
<1> HIDE DEF Goal
<1> QED BY <1>1, <1>2, <1>3, <1>4, <1>5, <1>6, <1>7, <1>8 DEF Next

-----------------------------------------------------------------------------
(* The Council under the treasury.                                         *)

LEMMA InitCouncil == Init => CouncilInv
<1> SUFFICES ASSUME Init PROVE CouncilInv
  OBVIOUS
<1>1. IInv
  BY InitType, InitDeciding, InitTiming DEF IInv
<1>2. Opened = {} /\ now = 1
  BY DEF Init, Opened
<1>3. IsFiniteSet(Opened)
  BY <1>2, FS_EmptySet
<1> QED BY <1>1, <1>2, <1>3 DEF CouncilInv, DrainedExecuted, WindowOver, Running

LEMMA NextCouncil == CouncilInv /\ [Next]_vars => CouncilInv'
<1> SUFFICES ASSUME CouncilInv, [Next]_vars PROVE CouncilInv'
  OBVIOUS
<1>0. TypeOK
  BY DEF CouncilInv, IInv
<1>1. IInv'
  BY NextType, NextDeciding, NextTiming DEF CouncilInv, IInv
<1>2. Running'
  <2>1. now \in Nat /\ now' \in Nat /\ now' >= now /\ now >= 1
    BY <1>0, <1>1, NextOpensOne DEF CouncilInv, Running, IInv, TypeOK
  <2>2. IsFiniteSet(Opened')
    <3>1. Opened' = Opened \/ \E n \in Nonces : Opened' = Opened \cup {n}
      BY <1>0, NextOpensOne
    <3> QED BY <3>1, FS_AddElement DEF CouncilInv, Running
  <2> QED BY <2>1, <2>2 DEF Running
<1>3. DrainedExecuted'
  <2> SUFFICES ASSUME NEW m \in Opened', proposals'[m].drained
               PROVE  proposals'[m].executed
    BY DEF DrainedExecuted
  <2>1. m \in Opened
    BY <1>0, NextOpensOne
  <2> QED BY <1>0, <2>1, NextCarriesNothing DEF CouncilInv, DrainedExecuted
<1>4. WindowOver'
  <2> SUFFICES ASSUME NEW m \in Opened', proposals'[m].executed
               PROVE  now' >= proposals'[m].eligible_at
    BY DEF WindowOver
  <2>1. m \in Opened
    BY <1>0, NextOpensOne
  <2>2. /\ now \in Nat /\ now' \in Nat /\ now' >= now
        /\ proposals'[m].eligible_at \in Nat
    BY <1>0, <1>1, NextOpensOne DEF IInv, TypeOK, Proposal
  <2>3. CASE proposals[m].executed
    <3>1. Armed(proposals[m]) /\ now >= proposals[m].eligible_at
      BY <2>1, <2>3 DEF CouncilInv, IInv, Timing, ExecutedWhenDue, WindowOver
    <3>2. proposals'[m].eligible_at = proposals[m].eligible_at
      BY <1>0, <2>1, <3>1, NextForward DEF Forward
    <3> QED BY <2>2, <3>1, <3>2
  <2>4. CASE ~proposals[m].executed
    BY <1>0, <2>1, <2>2, <2>4, NextCarriesNothing
  <2> QED BY <2>3, <2>4
<1> QED BY <1>1, <1>2, <1>3, <1>4 DEF CouncilInv

LEMMA ConsumeCouncil ==
    ASSUME CouncilInv, NEW n \in Opened, proposals[n].executed, Consume(n),
           UNCHANGED <<seats, applied, now, history>>
    PROVE  CouncilInv'
<1>1. IInv'
  BY ConsumeKeepsIInv DEF CouncilInv
<1>2. TypeOK
  BY DEF CouncilInv, IInv
<1>3. DrainedExecuted'
  BY <1>2, ConsumeFacts DEF CouncilInv, DrainedExecuted
<1>4. Running'
  BY <1>2, ConsumeFacts DEF CouncilInv, Running
<1>5. WindowOver'
  BY <1>2, ConsumeFacts DEF CouncilInv, WindowOver
<1> QED BY <1>1, <1>3, <1>4, <1>5 DEF CouncilInv

\* What a decision that was carried out had behind it.
LEMMA DrainedDecided ==
    ASSUME CouncilInv, NEW n \in Opened, proposals[n].drained
    PROVE  /\ proposals[n].executed /\ ~proposals[n].cancelled
           /\ Cardinality({s \in proposals[n].approvals :
                 cast[n][s].at + RecoveryTimelock <= now}) >= Threshold
<1> DEFINE p == proposals[n]
           early == Seasoned(p, cast[n], p.eligible_at)
           ripe == {s \in p.approvals : cast[n][s].at + RecoveryTimelock <= now}
<1>1. p \in Proposal /\ n \in Nonces /\ p.executed
  BY DEF CouncilInv, DrainedExecuted, IInv, TypeOK
<1>2. ~p.cancelled
  BY <1>1 DEF CouncilInv, IInv, Deciding, CancelWins
<1>3. Cardinality(early) >= Threshold /\ now >= p.eligible_at
  BY <1>1 DEF CouncilInv, WindowOver, IInv, Timing, WindowStamped, ExecutedWhenDue
<1>4. /\ p.approvals \subseteq Seats /\ p.eligible_at \in Nat /\ now \in Nat
      /\ cast[n] \in [Seats -> Ballot]
  BY <1>1 DEF CouncilInv, IInv, TypeOK, Proposal
<1>5. early \in SUBSET ripe /\ ripe \in SUBSET Seats
  <2> HIDE DEF p
  <2> QED BY <1>3, <1>4 DEF Seasoned, Ballot
<1> HIDE DEF early, ripe
<1>6. IsFiniteSet(ripe)
  BY <1>5, SeatsFinite, FS_Subset
<1>7. IsFiniteSet(early) /\ Cardinality(early) <= Cardinality(ripe)
  BY <1>5, <1>6, FS_Subset
<1>8. Cardinality(early) \in Nat /\ Cardinality(ripe) \in Nat
  BY <1>6, <1>7, FS_CardinalityType
<1>9. Cardinality(ripe) >= Threshold
  BY <1>3, <1>7, <1>8
<1> QED BY <1>1, <1>2, <1>9 DEF ripe

-----------------------------------------------------------------------------
(* The books.                                                              *)

\* A stored spend names an amount and a wallet.
LEMMA SpendNamed ==
    ASSUME IInv, NEW n \in Opened, NEW p \in Purses,
           proposals[n].action.type = SpendType[p]
    PROVE  proposals[n].action.amount \in Nat /\ proposals[n].action.recipient \in Wallets
<1> DEFINE a == proposals[n].action
<1>1. a \in RawAction /\ ValidAction(a)
  BY DEF IInv, TypeOK, Proposal, Deciding, ActionsValid
<1>2. a.type \in {"WithdrawTreasury", "WithdrawTreasuryToken"}
  BY DEF SpendType, Purses
<1> HIDE DEF a
<1>3. a.amount \in Amounts /\ a.recipient \in Holder
  BY <1>1, <1>2 DEF RawAction, RotateSeat, MigrateWallet, WithdrawTreasury,
       WithdrawTreasuryToken, SetTreasuryWallet, BeginMemberEpoch, SetKarmaParams
<1>4. a.recipient # NoWallet
  BY <1>1, <1>2 DEF ValidAction
<1> QED BY <1>3, <1>4 DEF Holder, a

\* The amounts added up for p and w are numbers, and finitely many.
LEMMA SpendsAddable ==
    ASSUME CouncilInv, NEW p \in Purses, NEW w
    PROVE  Addable([n \in Opened |-> proposals[n].action.amount], CarriedOut(p, w))
<1>1. IsFiniteSet(CarriedOut(p, w))
  <2>1. CarriedOut(p, w) \in SUBSET Opened
    BY DEF CarriedOut
  <2> QED BY <2>1, FS_Subset DEF CouncilInv, Running
<1>2. \A n \in CarriedOut(p, w) : proposals[n].action.amount \in Nat
  BY SpendNamed DEF CarriedOut, CouncilInv
<1> QED BY <1>1, <1>2 DEF Addable, CarriedOut

\* Where nothing more is carried out, nothing more is spent.
LEMMA SpentSame ==
    ASSUME CouncilInv, NEW p \in Purses, NEW w,
           CarriedOut(p, w)' = CarriedOut(p, w),
           \A n \in Opened : n \in Opened' /\ proposals'[n].action = proposals[n].action
    PROVE  SpentTo(p, w)' = SpentTo(p, w)
<1> DEFINE e == [n \in Opened |-> proposals[n].action.amount]
           f == [n \in Opened' |-> proposals'[n].action.amount]
<1>1. Addable(e, CarriedOut(p, w))
  BY SpendsAddable
<1>2. SameOn(e, f, CarriedOut(p, w))
  BY DEF SameOn, CarriedOut
<1> HIDE DEF e, f
<1>3. SumFunctionOnSet(e, CarriedOut(p, w)) = SumFunctionOnSet(f, CarriedOut(p, w))
  BY <1>1, <1>2, SumOfSame
<1> QED BY <1>3 DEF SpentTo, e, f

\* A spend that is carried out adds its amount to what its recipient got.
LEMMA SpentMore ==
    ASSUME CouncilInv, CouncilInv', NEW p \in Purses, NEW w, NEW n \in Opened,
           Consume(n), ~proposals[n].drained,
           proposals[n].action.type = SpendType[p],
           proposals[n].action.recipient = w
    PROVE  SpentTo(p, w)' = SpentTo(p, w) + proposals[n].action.amount
<1> DEFINE e == [m \in Opened |-> proposals[m].action.amount]
           f == [m \in Opened' |-> proposals'[m].action.amount]
           S == CarriedOut(p, w)
<1>0. TypeOK
  BY DEF CouncilInv, IInv
<1>1. /\ Opened' = Opened
      /\ \A m \in Opened : /\ proposals'[m].action = proposals[m].action
                           /\ proposals'[m].drained = (m = n \/ proposals[m].drained)
  BY <1>0, ConsumeFacts
<1>2. n \notin S
  BY DEF CarriedOut
<1>3. CarriedOut(p, w)' = S \cup {n}
  BY <1>1 DEF CarriedOut
<1>4. f = e
  BY <1>1
<1>5. Addable(e, S \cup {n})
  <2>1. Addable(e, S)
    BY SpendsAddable
  <2>2. IsFiniteSet(S \cup {n})
    BY <2>1, FS_AddElement DEF Addable
  <2>3. proposals[n].action.amount \in Nat
    BY SpendNamed DEF CouncilInv
  <2> QED BY <2>1, <2>2, <2>3 DEF Addable
<1>6. e[n] = proposals[n].action.amount
  OBVIOUS
<1> HIDE DEF e, f, S
<1>7. SumFunctionOnSet(e, S \cup {n}) = e[n] + SumFunctionOnSet(e, S)
  BY <1>2, <1>5, SumPutsIn
<1>8. SumFunctionOnSet(e, S) \in Int /\ e[n] \in Int
  <2>1. Addable(e, S)
    BY SpendsAddable DEF e, S
  <2> QED BY <1>5, <2>1, SumType DEF Addable
<1>9. SpentTo(p, w) = SumFunctionOnSet(e, S) /\ SpentTo(p, w)' = SumFunctionOnSet(f, S \cup {n})
  BY <1>3 DEF SpentTo, e, f, S
<1> QED BY <1>4, <1>6, <1>7, <1>8, <1>9

\* A step that carries no spend out and moves no money keeps the books.
LEMMA BooksKept ==
    ASSUME TreasuryInv,
           \A n \in Opened : n \in Opened' /\ proposals'[n].action = proposals[n].action,
           \A p \in Purses, w \in Wallets : CarriedOut(p, w)' = CarriedOut(p, w),
           received' = received
    PROVE  Paid'
<1> SUFFICES ASSUME NEW p \in Purses, NEW w \in Wallets
             PROVE  received'[p][w] = SpentTo(p, w)'
  BY DEF Paid
<1>1. SpentTo(p, w)' = SpentTo(p, w)
  BY SpentSame DEF TreasuryInv
<1> QED BY <1>1 DEF TreasuryInv, Paid

LEMMA StewardKept ==
    ASSUME StewardNamed, steward' = steward,
           \A n \in Opened : /\ n \in Opened'
                             /\ proposals'[n].action = proposals[n].action
                             /\ proposals[n].drained => proposals'[n].drained
    PROVE  StewardNamed'
BY DEF StewardNamed

LEMMA InitTreasury == TreasuryInit => TreasuryInv
<1> SUFFICES ASSUME TreasuryInit PROVE TreasuryInv
  OBVIOUS
<1>1. CouncilInv /\ TypeOK
  BY InitCouncil DEF TreasuryInit, CouncilInv, IInv
<1>2. TreasuryTypeOK
  BY <1>1 DEF TreasuryInit, TreasuryTypeOK, Holder
<1>3. StewardNamed
  BY DEF TreasuryInit, StewardNamed
<1>4. \A p \in Purses, w \in Wallets : received[p][w] = 0
  BY DEF TreasuryInit
<1>5. Paid
  <2> SUFFICES ASSUME NEW p \in Purses, NEW w \in Wallets PROVE SpentTo(p, w) = 0
    BY <1>4 DEF Paid
  <2>1. CarriedOut(p, w) = {}
    BY DEF TreasuryInit, Init, Opened, CarriedOut
  <2> QED BY <2>1, SumOfNothing DEF SpentTo
<1>6. Balanced
  <2> SUFFICES ASSUME NEW p \in Purses
               PROVE  balance[p] + SumFunctionOnSet(received[p], Wallets) = donated[p]
    BY DEF Balanced
  <2>1. Addable(received[p], Wallets) /\ \A w \in Wallets : received[p][w] = 0
    BY <1>4, TreasuryAssumption DEF Addable
  <2>2. SumFunctionOnSet(received[p], Wallets) = 0
    BY <2>1, SumOfZeros
  <2> QED BY <2>2 DEF TreasuryInit
<1> QED BY <1>1, <1>2, <1>3, <1>5, <1>6 DEF TreasuryInv

LEMMA CouncilStepKeeps ==
    ASSUME TreasuryInv, [Next]_vars, UNCHANGED tvars
    PROVE  TreasuryInv'
<1>1. TypeOK /\ CouncilInv /\ CouncilInv'
  BY NextCouncil DEF TreasuryInv, CouncilInv, IInv
<1>2. \A n \in Opened : /\ n \in Opened'
                        /\ proposals'[n].action = proposals[n].action
                        /\ proposals'[n].drained = proposals[n].drained
  BY <1>1, NextCarriesNothing
<1>3. \A n \in Opened' : n \notin Opened => ~proposals'[n].drained
  BY <1>1, NextOpensOne
<1>4. \A p \in Purses, w \in Wallets : CarriedOut(p, w)' = CarriedOut(p, w)
  BY <1>2, <1>3 DEF CarriedOut
<1>5. TreasuryTypeOK'
  BY <1>1 DEF TreasuryInv, TreasuryTypeOK, tvars, CouncilInv, IInv
<1>6. Paid' /\ StewardNamed'
  BY <1>2, <1>4, BooksKept, StewardKept DEF TreasuryInv, tvars
<1>7. Balanced'
  BY DEF TreasuryInv, Balanced, tvars
<1> QED BY <1>1, <1>5, <1>6, <1>7 DEF TreasuryInv

LEMMA DonateKeeps ==
    ASSUME TreasuryInv, NEW p \in Purses, NEW amount \in Amounts, Donate(p, amount)
    PROVE  TreasuryInv'
<1>1. CouncilInv' /\ TypeOK'
  BY NextCouncil DEF Donate, TreasuryInv, CouncilInv, IInv
<1>2. amount \in Nat
  OBVIOUS
<1>3. TreasuryTypeOK'
  BY <1>1, <1>2 DEF Donate, TreasuryInv, TreasuryTypeOK
<1>4. Opened' = Opened /\ proposals' = proposals
  BY DEF Donate, vars, Opened
<1>5. Paid' /\ StewardNamed'
  BY <1>4, BooksKept, StewardKept DEF TreasuryInv, Donate, CarriedOut
<1>6. Balanced'
  <2> SUFFICES ASSUME NEW q \in Purses
               PROVE  balance'[q] + SumFunctionOnSet(received[q], Wallets) = donated'[q]
    BY DEF Balanced, Donate
  <2>1. balance[q] + SumFunctionOnSet(received[q], Wallets) = donated[q]
    BY DEF TreasuryInv, Balanced
  <2>2. Addable(received[q], Wallets)
    BY TreasuryAssumption DEF TreasuryInv, TreasuryTypeOK, Addable
  <2>3. SumFunctionOnSet(received[q], Wallets) \in Int
    BY <2>2, SumType
  <2>4. balance[q] \in Nat /\ donated[q] \in Nat
    BY DEF TreasuryInv, TreasuryTypeOK
  <2>5. /\ balance'[q] = balance[q] + (IF q = p THEN amount ELSE 0)
        /\ donated'[q] = donated[q] + (IF q = p THEN amount ELSE 0)
    BY <1>2, <2>4 DEF Donate, TreasuryInv, TreasuryTypeOK
  <2> QED BY <1>2, <2>1, <2>3, <2>4, <2>5
<1> QED BY <1>1, <1>3, <1>5, <1>6 DEF TreasuryInv

\* The two policy switches touch neither money nor decisions.
LEMMA PolicyKeeps ==
    ASSUME TreasuryInv, UNCHANGED <<vars, balance, steward, donated, received>>,
           listOn' \in BOOLEAN, allowed' \subseteq Payees
    PROVE  TreasuryInv'
<1>1. CouncilInv' /\ TypeOK'
  BY NextCouncil DEF TreasuryInv, CouncilInv, IInv
<1>2. Opened' = Opened /\ proposals' = proposals
  BY DEF vars, Opened
<1>3. TreasuryTypeOK'
  BY <1>1 DEF TreasuryInv, TreasuryTypeOK
<1>4. Paid' /\ StewardNamed'
  BY <1>2, BooksKept, StewardKept DEF TreasuryInv, CarriedOut
<1>5. Balanced'
  BY DEF TreasuryInv, Balanced
<1> QED BY <1>1, <1>3, <1>4, <1>5 DEF TreasuryInv

LEMMA WithdrawKeeps ==
    ASSUME TreasuryInv, NEW p \in Purses, NEW n \in Nonces, Withdraw(p, n)
    PROVE  TreasuryInv'
<1> DEFINE a == proposals[n].action
<1>1. /\ n \in Opened /\ proposals[n].executed /\ ~proposals[n].drained
      /\ a.type = SpendType[p] /\ balance[p] >= a.amount
      /\ Consume(n) /\ UNCHANGED <<seats, applied, now, history>>
      /\ balance' = [balance EXCEPT ![p] = @ - a.amount]
      /\ received' = [received EXCEPT ![p][a.recipient] = @ + a.amount]
      /\ UNCHANGED <<listOn, allowed, steward, donated>>
  BY DEF Withdraw, Due
<1>2. CouncilInv /\ TypeOK /\ CouncilInv' /\ TypeOK'
  BY <1>1, ConsumeCouncil DEF TreasuryInv, CouncilInv, IInv
<1>3. a.amount \in Nat /\ a.recipient \in Wallets
  BY <1>1, <1>2, SpendNamed DEF CouncilInv
<1>4. /\ Opened' = Opened
      /\ \A m \in Opened : /\ proposals'[m].action = proposals[m].action
                           /\ proposals'[m].drained = (m = n \/ proposals[m].drained)
  BY <1>1, <1>2, ConsumeFacts
<1>a. a = proposals[n].action
  OBVIOUS
<1> HIDE DEF a
<1>5. /\ balance \in [Purses -> Nat] /\ donated \in [Purses -> Nat]
      /\ received \in [Purses -> [Wallets -> Nat]]
  BY DEF TreasuryInv, TreasuryTypeOK
<1>6. \A q \in Purses : balance'[q] = IF q = p THEN balance[q] - a.amount ELSE balance[q]
  BY <1>1, <1>5
<1>7. \A q \in Purses, w \in Wallets :
         received'[q][w] = IF q = p /\ w = a.recipient THEN received[q][w] + a.amount
                           ELSE received[q][w]
  BY <1>1, <1>3, <1>5
<1>8. balance' \in [Purses -> Nat] /\ received' \in [Purses -> [Wallets -> Nat]]
  BY <1>1, <1>3, <1>5
<1>9. TreasuryTypeOK'
  BY <1>1, <1>2, <1>8 DEF TreasuryInv, TreasuryTypeOK
<1>10. Paid'
  <2> SUFFICES ASSUME NEW q \in Purses, NEW w \in Wallets
               PROVE  received'[q][w] = SpentTo(q, w)'
    BY DEF Paid
  <2>1. received[q][w] = SpentTo(q, w)
    BY DEF TreasuryInv, Paid
  <2>2. CASE q = p /\ w = a.recipient
    <3>1. SpentTo(p, w)' = SpentTo(p, w) + a.amount
      BY <1>1, <1>2, <1>a, <2>2, SpentMore
    <3> QED BY <1>7, <2>1, <2>2, <3>1
  <2>3. CASE ~(q = p /\ w = a.recipient)
    <3>1. n \in CarriedOut(q, w)' => FALSE
      <4> SUFFICES ASSUME a.type = SpendType[q], a.recipient = w PROVE FALSE
        BY <1>1, <1>4, <1>a DEF CarriedOut
      <4>1. SpendType[p] = SpendType[q]
        BY <1>1
      <4>2. p = q
        BY <4>1 DEF SpendType, Purses
      <4> QED BY <2>3, <4>2
    <3>2. CarriedOut(q, w)' = CarriedOut(q, w)
      BY <1>1, <1>4, <3>1 DEF CarriedOut
    <3>3. SpentTo(q, w)' = SpentTo(q, w)
      BY <1>2, <1>4, <3>2, SpentSame
    <3> QED BY <1>7, <2>1, <2>3, <3>3
  <2> QED BY <2>2, <2>3
<1>11. Balanced'
  <2> SUFFICES ASSUME NEW q \in Purses
               PROVE  balance'[q] + SumFunctionOnSet(received'[q], Wallets) = donated[q]
    BY <1>1 DEF Balanced
  <2>1. balance[q] + SumFunctionOnSet(received[q], Wallets) = donated[q]
    BY DEF TreasuryInv, Balanced
  <2>2. Addable(received[q], Wallets)
    BY <1>5, TreasuryAssumption DEF Addable
  <2>3. SumFunctionOnSet(received[q], Wallets) \in Int
    BY <2>2, SumType
  <2>4. CASE q = p
    <3>1. SameOn(received[q], received'[q], Wallets \ {a.recipient})
      BY <1>7 DEF SameOn
    <3>2. /\ received'[q][a.recipient] = received[q][a.recipient] + a.amount
          /\ received[q][a.recipient] \in Nat
      BY <1>3, <1>5, <1>7, <2>4
    <3>3. received'[q][a.recipient] \in Int
      BY <1>3, <3>2
    <3>4. SumFunctionOnSet(received'[q], Wallets)
            = SumFunctionOnSet(received[q], Wallets)
                + received'[q][a.recipient] - received[q][a.recipient]
      BY <1>3, <2>2, <3>1, <3>3, SumChanged
    <3>5. balance'[q] = balance[q] - a.amount /\ balance[q] \in Nat /\ donated[q] \in Nat
      BY <1>5, <1>6, <2>4
    <3> QED BY <1>3, <2>1, <2>3, <3>2, <3>4, <3>5
  <2>5. CASE q # p
    <3>1. received'[q] = received[q] /\ balance'[q] = balance[q]
      BY <1>1, <1>5, <1>6, <2>5
    <3> QED BY <2>1, <3>1
  <2> QED BY <2>4, <2>5
<1>12. StewardNamed'
  BY <1>1, <1>4, StewardKept DEF TreasuryInv
<1> QED BY <1>2, <1>9, <1>10, <1>11, <1>12 DEF TreasuryInv

LEMMA SetWalletKeeps ==
    ASSUME TreasuryInv, NEW n \in Nonces, SetWallet(n)
    PROVE  TreasuryInv'
<1> DEFINE a == proposals[n].action
<1>1. /\ n \in Opened /\ proposals[n].executed /\ ~proposals[n].drained
      /\ a.type = "SetTreasuryWallet" /\ a.new_wallet \in Multisigs
      /\ Consume(n) /\ UNCHANGED <<seats, applied, now, history>>
      /\ steward' = a.new_wallet
      /\ UNCHANGED <<balance, listOn, allowed, donated, received>>
  BY DEF SetWallet, Due
<1>2. CouncilInv /\ TypeOK /\ CouncilInv' /\ TypeOK'
  BY <1>1, ConsumeCouncil DEF TreasuryInv, CouncilInv, IInv
<1>3. /\ Opened' = Opened
      /\ \A m \in Opened : /\ proposals'[m].action = proposals[m].action
                           /\ proposals'[m].drained = (m = n \/ proposals[m].drained)
  BY <1>1, <1>2, ConsumeFacts
<1>4. TreasuryTypeOK'
  BY <1>1, <1>2, TreasuryAssumption DEF TreasuryInv, TreasuryTypeOK, Holder
<1>5. Paid'
  <2>1. \A p \in Purses : SpendType[p] # "SetTreasuryWallet"
    BY DEF SpendType, Purses
  <2>2. ASSUME NEW p \in Purses, NEW w \in Wallets PROVE CarriedOut(p, w)' = CarriedOut(p, w)
    <3>1. ASSUME NEW m \in Opened PROVE m \in CarriedOut(p, w)' <=> m \in CarriedOut(p, w)
      <4>1. proposals'[m].action = proposals[m].action
        BY <1>3
      <4>2. proposals[m].action.type = SpendType[p] => m # n
        BY <1>1, <2>1
      <4>3. m # n => (proposals'[m].drained <=> proposals[m].drained)
        BY <1>3
      <4> QED BY <1>3, <4>1, <4>2, <4>3 DEF CarriedOut
    <3>2. CarriedOut(p, w)' \subseteq Opened /\ CarriedOut(p, w) \subseteq Opened
      BY <1>3 DEF CarriedOut
    <3> QED BY <3>1, <3>2
  <2> QED BY <1>1, <1>3, <2>2, BooksKept
<1>6. Balanced'
  BY <1>1 DEF TreasuryInv, Balanced
<1>7. StewardNamed'
  <2>1. /\ n \in Opened' /\ proposals'[n].drained
        /\ proposals'[n].action.type = "SetTreasuryWallet"
        /\ proposals'[n].action.new_wallet = steward'
    BY <1>1, <1>3
  <2> QED BY <1>1, <2>1 DEF StewardNamed
<1> QED BY <1>2, <1>4, <1>5, <1>6, <1>7 DEF TreasuryInv

LEMMA TreasuryStepKeeps == TreasuryInv /\ [TreasuryNext]_allvars => TreasuryInv'
<1> SUFFICES ASSUME TreasuryInv, [TreasuryNext]_allvars PROVE TreasuryInv'
  OBVIOUS
<1>1. ASSUME NEW p \in Purses, NEW k \in Amounts, Donate(p, k) PROVE TreasuryInv'
  BY <1>1, DonateKeeps
<1>2. ASSUME NEW who \in Wallets, NEW r \in Payees, NEW b \in BOOLEAN,
             SetTreasuryAllow(who, r, b)
      PROVE  TreasuryInv'
  BY <1>2, PolicyKeeps DEF SetTreasuryAllow, TreasuryInv, TreasuryTypeOK
<1>3. ASSUME NEW who \in Wallets, NEW b \in BOOLEAN, SetCircleConfig(who, b)
      PROVE  TreasuryInv'
  BY <1>3, PolicyKeeps DEF SetCircleConfig, TreasuryInv, TreasuryTypeOK
<1>4. ASSUME NEW n \in Nonces, NEW p \in Purses, Withdraw(p, n) PROVE TreasuryInv'
  BY <1>4, WithdrawKeeps
<1>5. ASSUME NEW n \in Nonces, SetWallet(n) PROVE TreasuryInv'
  BY <1>5, SetWalletKeeps
<1>6. CASE Next /\ UNCHANGED tvars
  BY <1>6, CouncilStepKeeps
<1>7. CASE UNCHANGED allvars
  BY <1>7, CouncilStepKeeps DEF allvars
<1> QED BY <1>1, <1>2, <1>3, <1>4, <1>5, <1>6, <1>7 DEF TreasuryNext, TreasuryStep

\* The inductive invariant of the treasury over the full Council: the Council's
\* own, the books of both purses, and a steward named by a decision carried out.
THEOREM TreasuryInductive == TreasurySpec => []TreasuryInv
<1> QED BY InitTreasury, TreasuryStepKeeps, PTL DEF TreasurySpec

\* Every lamport and token is accounted for: a wallet got exactly what the
\* decisions carried out in its favour name, each once, and the treasury
\* holds the rest of what was donated.
THEOREM MoneyAccountedAlways == TreasurySpec => []MoneyAccounted
<1>1. TreasuryInv => MoneyAccounted
  BY DEF TreasuryInv, MoneyAccounted, Paid, Balanced
<1> QED BY <1>1, TreasuryInductive, PTL

\* No money moves and no steward is named but by a decision that Threshold
\* seats had approved a contest window before and nobody had cancelled.
THEOREM CarriedOutIsDecidedAlways == TreasurySpec => []CarriedOutIsDecided
<1>1. TreasuryInv => CarriedOutIsDecided
  BY DrainedDecided DEF TreasuryInv, CarriedOutIsDecided, StewardNamed
<1> QED BY <1>1, TreasuryInductive, PTL

-----------------------------------------------------------------------------
(* The treasury implements the group conscience.                           *)

\* How far a proposal has come, flag by flag.
LEMMA StageFlags ==
    ASSUME NEW p \in Proposal, ~(p.executed /\ p.cancelled), p.drained => p.executed
    PROVE  /\ p.cancelled => StageOf(p) = "stopped"
           /\ p.drained => StageOf(p) = "done"
           /\ p.executed /\ ~p.drained => StageOf(p) = "binding"
           /\ ~p.executed /\ ~p.cancelled =>
                 StageOf(p) = IF Armed(p) THEN "armed" ELSE "open"
BY DEF StageOf, Proposal

\* The window ends exactly RecoveryTimelock after the approval that armed it.
LEMMA ArmsExactly ==
    ASSUME NEW p \in Proposal, NEW t \in Nat, t >= 1,
           ~Armed(p), Armed(ArmIfReady(p, t))
    PROVE  ArmIfReady(p, t).eligible_at = t + RecoveryTimelock
<1>1. LaterOf(t + RecoveryTimelock, 1) = t + RecoveryTimelock
  BY DEF LaterOf
<1>2. ArmIfReady(p, t) = [p EXCEPT !.eligible_at = t + RecoveryTimelock]
  BY <1>1 DEF ArmIfReady, Armed
<1> QED BY <1>2 DEF Proposal

LEMMA NewArmsExactly ==
    ASSUME NEW a \in RawAction, NEW t \in Nat, t >= 1, NEW s \in Seats
    PROVE  NewProposal(a, s, t).eligible_at \in {0, t + RecoveryTimelock}
<1> DEFINE r == [action |-> a, approvals |-> {s}, executed |-> FALSE,
                 cancelled |-> FALSE, drained |-> FALSE, eligible_at |-> 0]
<1>1. r \in Proposal /\ ~Armed(r)
  BY DEF Proposal, Armed
<1> HIDE DEF r
<1>2. NewProposal(a, s, t) = ArmIfReady(r, t)
  BY DEF NewProposal, r
<1> QED BY <1>1, <1>2, ArmsExactly DEF Armed

LEMMA ApprovalArmsExactly ==
    ASSUME NEW p \in Proposal, NEW t \in Nat, t >= 1, NEW s \in Seats, ~Armed(p)
    PROVE  AddApproval(p, s, t).eligible_at \in {0, t + RecoveryTimelock}
<1> DEFINE r == [p EXCEPT !.approvals = @ \cup {s}]
<1>1. r \in Proposal /\ ~Armed(r)
  BY DEF Proposal, Armed
<1> HIDE DEF r
<1>2. AddApproval(p, s, t) = ArmIfReady(r, t)
  BY DEF AddApproval, r
<1> QED BY <1>1, <1>2, ArmsExactly DEF Armed

\* One decision moves on, the others stay.
LEMMA OneMoves ==
    ASSUME NEW d \in Nonces, NEW from, NEW to, Stage(d) \in from, Stage(d)' = to,
           \A m \in Nonces : m # d => Stage(m)' = Stage(m)
    PROVE  Conscience!Move(d, from, to)
BY DEF Conscience!Move

DuesKept == \A m \in Nonces : DueAt(m)' = DueAt(m)

\* A step that leaves proposals and clock alone is none of the conscience's.
LEMMA SameProposals ==
    ASSUME UNCHANGED <<proposals, now>>
    PROVE  UNCHANGED Conscience!avars
<1>1. \A m \in Nonces : Stage(m)' = Stage(m) /\ DueAt(m)' = DueAt(m)
  BY DEF Stage, DueAt, Opened
<1> QED BY <1>1 DEF Conscience!avars

\* Before and after a step, each opened proposal is in a stage of its own.
LEMMA StagesOf ==
    ASSUME CouncilInv, NEW n \in Opened
    PROVE  /\ proposals[n] \in Proposal /\ Stage(n) = StageOf(proposals[n])
           /\ ~(proposals[n].executed /\ proposals[n].cancelled)
           /\ proposals[n].drained => proposals[n].executed
           /\ DueAt(n) = proposals[n].eligible_at
BY DEF CouncilInv, IInv, TypeOK, Deciding, CancelWins, DrainedExecuted, Stage, DueAt

LEMMA ConsumeImplements ==
    ASSUME CouncilInv, CouncilInv', NEW n \in Nonces, n \in Opened,
           proposals[n].executed, ~proposals[n].drained, Consume(n), now' = now
    PROVE  Conscience!CarryOut(n)
<1>0. TypeOK
  BY DEF CouncilInv, IInv
<1>1. Opened' = Opened /\ proposals'[n].drained
  BY <1>0, ConsumeFacts
<1>2. Stage(n) = "binding"
  BY StagesOf, StageFlags
<1>3. Stage(n)' = "done"
  <2>1. /\ proposals'[n] \in Proposal
        /\ ~(proposals'[n].executed /\ proposals'[n].cancelled)
        /\ proposals'[n].drained => proposals'[n].executed
    BY <1>0, <1>1, ConsumeFacts, StagesOf
  <2>2. StageOf(proposals'[n]) = "done"
    BY <1>1, <2>1, StageFlags
  <2> QED BY <1>1, <2>2 DEF Stage
<1>4. \A m \in Nonces : m # n => Stage(m)' = Stage(m)
  BY <1>1 DEF Stage, Consume, Opened
<1>5. DuesKept
  BY <1>0, <1>1, ConsumeFacts DEF DuesKept, DueAt
<1>6. Conscience!Move(n, {"binding"}, "done")
  BY <1>2, <1>3, <1>4, OneMoves
<1> QED BY <1>5, <1>6 DEF Conscience!CarryOut, DuesKept

LEMMA ProposeImplements ==
    ASSUME CouncilInv, NEW n \in Nonces, NEW who \in Wallets, NEW a \in Offered,
           Propose(n, who, a)
    PROVE  Conscience!Open(n) \/ Conscience!Arm(n)
<1> DEFINE q == NewProposal(a, SeatOf(seats, who), now)
<1>0. TypeOK /\ now \in Nat /\ now >= 1
  BY DEF CouncilInv, IInv, TypeOK, Running
<1>1. /\ SeatOf(seats, who) \in Seats /\ a \in RawAction
      /\ n \notin Opened /\ Opened' = Opened \cup {n} /\ now' = now
      /\ proposals'[n] = q
      /\ \A m \in Opened : proposals'[m] = proposals[m]
  BY <1>0, RecordBallotType, GovernanceAssumption DEF Propose, Opened
<1>2. /\ q \in Proposal /\ ~q.executed /\ ~q.cancelled /\ ~q.drained
      /\ q.eligible_at \in {0, now + RecoveryTimelock}
  BY <1>0, <1>1, NewProposalFacts, NewArmsExactly
<1> HIDE DEF q
<1>3. Stage(n) = "absent" /\ DueAt(n) = 0 /\ Stage(n)' = StageOf(q)
      /\ DueAt(n)' = q.eligible_at
  BY <1>1 DEF Stage, DueAt
<1>4. \A m \in Nonces : m # n => Stage(m)' = Stage(m) /\ DueAt(m)' = DueAt(m)
  BY <1>1 DEF Stage, DueAt
<1>5. StageOf(q) = IF Armed(q) THEN "armed" ELSE "open"
  BY <1>2, StageFlags
<1>6. CASE ~Armed(q)
  <2>1. Conscience!Move(n, {"absent"}, "open")
    BY <1>3, <1>4, <1>5, <1>6, OneMoves
  <2>2. DuesKept
    BY <1>3, <1>4, <1>6 DEF DuesKept, Armed
  <2> QED BY <1>1, <2>1, <2>2 DEF Conscience!Open, DuesKept
<1>7. CASE Armed(q)
  <2>1. Conscience!Move(n, {"absent", "open"}, "armed")
    BY <1>3, <1>4, <1>5, <1>7, OneMoves
  <2>2. DueAt(n)' = now + RecoveryTimelock
    BY <1>2, <1>3, <1>7 DEF Armed
  <2> QED BY <1>1, <1>4, <2>1, <2>2 DEF Conscience!Arm
<1> QED BY <1>6, <1>7

LEMMA ApproveImplements ==
    ASSUME CouncilInv, NEW n \in Nonces, NEW who \in Wallets, Approve(n, who)
    PROVE  Conscience!Arm(n) \/ UNCHANGED Conscience!avars
<1> DEFINE p == proposals[n]
           q == AddApproval(p, SeatOf(seats, who), now)
<1>0. TypeOK /\ now \in Nat /\ now >= 1
  BY DEF CouncilInv, IInv, TypeOK, Running
<1>1. /\ SeatOf(seats, who) \in Seats /\ n \in Opened /\ Opened' = Opened
      /\ now' = now /\ proposals'[n] = q /\ ~p.executed /\ ~p.cancelled
      /\ \A m \in Opened : m # n => proposals'[m] = proposals[m]
  BY <1>0, RecordBallotType DEF Approve, Opened
<1>2. p \in Proposal /\ ~p.drained /\ Stage(n) = StageOf(p) /\ DueAt(n) = p.eligible_at
  BY <1>1, StagesOf
<1>3. /\ Stage(n)' = StageOf(q) /\ DueAt(n)' = q.eligible_at
      /\ \A m \in Nonces : m # n => Stage(m)' = Stage(m) /\ DueAt(m)' = DueAt(m)
  BY <1>1 DEF Stage, DueAt
<1> HIDE DEF p
<1>4. /\ q \in Proposal /\ ~q.executed /\ ~q.cancelled /\ ~q.drained
      /\ Armed(p) => q.eligible_at = p.eligible_at
      /\ ~Armed(p) => q.eligible_at \in {0, now + RecoveryTimelock}
  BY <1>0, <1>1, <1>2, AddApprovalFacts, ApprovalArmsExactly
<1> HIDE DEF q
<1>5. /\ StageOf(p) = IF Armed(p) THEN "armed" ELSE "open"
      /\ StageOf(q) = IF Armed(q) THEN "armed" ELSE "open"
  BY <1>1, <1>2, <1>4, StageFlags
<1>6. CASE ~Armed(p) /\ Armed(q)
  <2>1. Conscience!Move(n, {"absent", "open"}, "armed")
    BY <1>2, <1>3, <1>5, <1>6, OneMoves
  <2>2. DueAt(n)' = now + RecoveryTimelock
    BY <1>3, <1>4, <1>6 DEF Armed
  <2> QED BY <1>1, <1>3, <2>1, <2>2 DEF Conscience!Arm
<1>7. CASE Armed(p) \/ ~Armed(q)
  <2>1. q.eligible_at = p.eligible_at
    BY <1>4, <1>7 DEF Armed
  <2>2. \A m \in Nonces : Stage(m)' = Stage(m) /\ DueAt(m)' = DueAt(m)
    BY <1>2, <1>3, <1>5, <2>1 DEF Armed
  <2> QED BY <1>1, <2>2 DEF Conscience!avars
<1> QED BY <1>6, <1>7

LEMMA CancelImplements ==
    ASSUME CouncilInv, CouncilInv', NEW n \in Nonces, NEW who \in Wallets,
           CancelProposal(n, who)
    PROVE  Conscience!Stop(n)
<1>1. /\ n \in Opened /\ Opened' = Opened /\ now' = now
      /\ ~proposals[n].executed /\ ~proposals[n].cancelled
      /\ proposals'[n] = [proposals[n] EXCEPT !.cancelled = TRUE]
      /\ \A m \in Opened : m # n => proposals'[m] = proposals[m]
  BY DEF CancelProposal, Opened
<1>2. /\ proposals[n] \in Proposal /\ ~proposals[n].drained
      /\ Stage(n) = StageOf(proposals[n])
  BY <1>1, StagesOf
<1>3. proposals'[n].cancelled /\ proposals'[n].eligible_at = proposals[n].eligible_at
  BY <1>1, <1>2 DEF Proposal
<1>4. Stage(n) \in {"open", "armed"}
  BY <1>1, <1>2, StageFlags
<1>5. Stage(n)' = "stopped"
  <2>1. /\ proposals'[n] \in Proposal
        /\ ~(proposals'[n].executed /\ proposals'[n].cancelled)
        /\ proposals'[n].drained => proposals'[n].executed
    BY <1>1, <1>2 DEF Proposal
  <2>2. StageOf(proposals'[n]) = "stopped"
    BY <1>3, <2>1, StageFlags
  <2> QED BY <1>1, <2>2 DEF Stage
<1>6. \A m \in Nonces : m # n => Stage(m)' = Stage(m)
  BY <1>1 DEF Stage
<1>7. DuesKept
  BY <1>1, <1>3 DEF DuesKept, DueAt
<1>8. Conscience!Move(n, {"open", "armed"}, "stopped")
  BY <1>4, <1>5, <1>6, OneMoves
<1> QED BY <1>1, <1>7, <1>8 DEF Conscience!Stop, DuesKept

LEMMA ExecuteImplements ==
    ASSUME CouncilInv, NEW n \in Nonces, ExecuteProposal(n)
    PROVE  Conscience!Bind(n)
<1>1. /\ n \in Opened /\ Opened' = Opened /\ now' = now
      /\ ~proposals[n].executed /\ ~proposals[n].cancelled
      /\ Armed(proposals[n]) /\ now >= proposals[n].eligible_at
      /\ proposals'[n] = [proposals[n] EXCEPT !.executed = TRUE]
      /\ \A m \in Opened : m # n => proposals'[m] = proposals[m]
  BY DEF ExecuteProposal, RequireExecutable, Opened
<1>2. /\ proposals[n] \in Proposal /\ ~proposals[n].drained
      /\ Stage(n) = StageOf(proposals[n]) /\ DueAt(n) = proposals[n].eligible_at
  BY <1>1, StagesOf
<1>3. /\ proposals'[n] \in Proposal /\ proposals'[n].executed
      /\ ~proposals'[n].cancelled /\ ~proposals'[n].drained
      /\ proposals'[n].eligible_at = proposals[n].eligible_at
  BY <1>1, <1>2 DEF Proposal
<1>4. Stage(n) = "armed"
  BY <1>1, <1>2, StageFlags
<1>5. Stage(n)' = "binding"
  <2>1. StageOf(proposals'[n]) = "binding"
    BY <1>3, StageFlags
  <2> QED BY <1>1, <2>1 DEF Stage
<1>6. \A m \in Nonces : m # n => Stage(m)' = Stage(m)
  BY <1>1 DEF Stage
<1>7. DuesKept
  BY <1>1, <1>3 DEF DuesKept, DueAt
<1>8. Conscience!Move(n, {"armed"}, "binding")
  BY <1>4, <1>5, <1>6, OneMoves
<1> QED BY <1>1, <1>2, <1>7, <1>8 DEF Conscience!Bind, DuesKept

LEMMA InitImplements == TreasuryInit => Conscience!Init
BY DEF TreasuryInit, Init, Opened, Stage, DueAt, Conscience!Init

LEMMA StepImplements ==
    TreasuryInv /\ TreasuryInv' /\ [TreasuryNext]_allvars
      => [Conscience!Next]_(Conscience!avars)
<1> SUFFICES ASSUME TreasuryInv, TreasuryInv', [TreasuryNext]_allvars
             PROVE  Conscience!Next \/ UNCHANGED Conscience!avars
  OBVIOUS
<1>0. CouncilInv /\ CouncilInv' /\ TypeOK
  BY DEF TreasuryInv, CouncilInv, IInv
<1>1. ASSUME NEW n \in Nonces, NEW who \in Wallets, NEW a \in Offered,
             Propose(n, who, a)
      PROVE  Conscience!Next
  BY <1>0, <1>1, ProposeImplements DEF Conscience!Next
<1>2. ASSUME NEW n \in Nonces, NEW who \in Wallets, Approve(n, who)
      PROVE  Conscience!Next \/ UNCHANGED Conscience!avars
  BY <1>0, <1>2, ApproveImplements DEF Conscience!Next
<1>3. ASSUME NEW n \in Nonces, NEW who \in Wallets, CancelProposal(n, who)
      PROVE  Conscience!Next
  BY <1>0, <1>3, CancelImplements DEF Conscience!Next
<1>4. ASSUME NEW n \in Nonces, ExecuteProposal(n)
      PROVE  Conscience!Next
  BY <1>0, <1>4, ExecuteImplements DEF Conscience!Next
<1>5. ASSUME NEW e \in Elections, InstallElectedSeat(e)
      PROVE  UNCHANGED Conscience!avars
  BY <1>5, SameProposals DEF InstallElectedSeat
<1>6. ASSUME NEW r \in ChildRotations, ExecuteChildRotation(r)
      PROVE  UNCHANGED Conscience!avars
  BY <1>6, SameProposals DEF ExecuteChildRotation
<1>7. CASE Tick
  <2>1. now' > now
    BY <1>0, <1>7 DEF Tick, TypeOK
  <2>2. \A m \in Nonces : Stage(m)' = Stage(m) /\ DueAt(m)' = DueAt(m)
    BY <1>7 DEF Tick, Stage, DueAt, Opened
  <2> QED BY <2>1, <2>2 DEF Conscience!Next, Conscience!Pass
<1>8. ASSUME NEW n \in Nonces,
             SetWallet(n) \/ \E p \in Purses : Withdraw(p, n)
      PROVE  Conscience!Next
  <2>1. /\ n \in Opened /\ proposals[n].executed /\ ~proposals[n].drained
        /\ Consume(n) /\ now' = now
    BY <1>8 DEF SetWallet, Withdraw, Due
  <2> QED BY <1>0, <2>1, ConsumeImplements DEF Conscience!Next
<1>9. ASSUME \/ \E p \in Purses, k \in Amounts : Donate(p, k)
             \/ \E who \in Wallets :
                   \/ \E r \in Payees, b \in BOOLEAN : SetTreasuryAllow(who, r, b)
                   \/ \E b \in BOOLEAN : SetCircleConfig(who, b)
             \/ UNCHANGED allvars
      PROVE  UNCHANGED Conscience!avars
  <2>1. UNCHANGED <<proposals, now>>
    BY <1>9 DEF Donate, SetTreasuryAllow, SetCircleConfig, allvars, vars
  <2> QED BY <2>1, SameProposals
<1> QED BY <1>1, <1>2, <1>3, <1>4, <1>5, <1>6, <1>7, <1>8, <1>9
        DEF TreasuryNext, TreasuryStep, Next

\* The treasury and the Council under it are a group conscience: seen from
\* outside, each decision is opened, armed, stopped, bound and carried out in
\* that order, a full window after it had enough support and at most once.
THEOREM TreasuryImplementsConscience == TreasurySpec => ImplementsConscience
<1>1. TreasuryInit => Conscience!Init
  BY InitImplements
<1>2. TreasuryInv /\ TreasuryInv' /\ [TreasuryNext]_allvars
        => [Conscience!Next]_(Conscience!avars)
  BY StepImplements
<1> QED BY <1>1, <1>2, TreasuryInductive, PTL
        DEF TreasurySpec, ImplementsConscience, Conscience!Spec

-----------------------------------------------------------------------------
(* The Council under the treasury.                                         *)

\* Carrying a decision out leaves it, and every other, where it was.
LEMMA CarryingKeepsOutcome ==
    ASSUME TypeOK, NEW n \in Opened, Consume(n)
    PROVE  OnlyForward
<1> SUFFICES ASSUME NEW m \in Opened PROVE Forward(proposals[m], proposals'[m])
  BY DEF OnlyForward
<1> QED BY ConsumeFacts DEF Forward, Armed

\* Every step of the treasury is, for seats and decisions, a step of the
\* Council, a decision carried out, or nothing.
LEMMA TreasuryStepForCouncil ==
    TreasuryInv /\ [TreasuryNext]_allvars =>
        \/ [Next]_vars
        \/ seats' = seats /\ \E n \in Opened : Consume(n)
<1> SUFFICES ASSUME TreasuryInv, [TreasuryNext]_allvars, ~[Next]_vars
             PROVE  seats' = seats /\ \E n \in Opened : Consume(n)
  OBVIOUS
<1>1. ASSUME NEW p \in Purses, NEW k \in Amounts PROVE ~Donate(p, k)
  BY DEF Donate
<1>2. ASSUME NEW who \in Wallets, NEW r \in Payees, NEW b \in BOOLEAN
      PROVE  ~SetTreasuryAllow(who, r, b) /\ ~SetCircleConfig(who, b)
  BY DEF SetTreasuryAllow, SetCircleConfig
<1>3. ASSUME NEW who \in Wallets, NEW b \in BOOLEAN PROVE ~SetCircleConfig(who, b)
  BY DEF SetCircleConfig
<1>4. ~UNCHANGED allvars
  BY DEF allvars
<1>5. ASSUME NEW n \in Nonces, SetWallet(n) \/ \E p \in Purses : Withdraw(p, n)
      PROVE  seats' = seats /\ n \in Opened /\ Consume(n)
  BY <1>5 DEF SetWallet, Withdraw, Due
<1> QED BY <1>1, <1>2, <1>3, <1>4, <1>5 DEF TreasuryNext, TreasuryStep

\* With its decisions being carried out beside it the Council still behaves: a
\* wallet holds one seat, every decision had its window, and no step brings a
\* proposal back or takes a seat away without a contestable decision. The
\* treasury's instructions write to proposals too (withdraw_treasury.rs,
\* set_treasury_wallet.rs), so that none of this follows from the Council alone.
THEOREM CouncilUnderTreasury ==
    TreasurySpec => [](OneSeatEach /\ ContestWindow) /\ Irrevocable /\ RemovalContestable
<1>1. TreasuryInv => OneSeatEach /\ ContestWindow
  BY TimingGivesWindow DEF TreasuryInv, CouncilInv, IInv, Deciding
<1>2. TreasuryInv => TypeOK /\ IInv
  BY DEF TreasuryInv, CouncilInv, IInv
<1>3. TreasuryInv /\ [TreasuryNext]_allvars => [OnlyForward]_vars
  <2>1. TypeOK /\ [Next]_vars => [OnlyForward]_vars
    BY NextForward DEF OnlyForward
  <2> QED BY <1>2, <2>1, TreasuryStepForCouncil, CarryingKeepsOutcome
<1>4. TreasuryInv /\ [TreasuryNext]_allvars => [RemovedByDecision]_vars
  <2>1. seats' = seats => RemovedByDecision
    BY DEF RemovedByDecision, HoldsSeat
  <2> QED BY <1>2, <2>1, TreasuryStepForCouncil, NextRemoved
<1> QED BY <1>1, <1>3, <1>4, TreasuryInductive, PTL
        DEF TreasurySpec, Irrevocable, RemovalContestable

=============================================================================
