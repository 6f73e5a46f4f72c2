----------------------------- MODULE MemberVote -----------------------------
(***************************************************************************)
(* Group-conscience ballots over the membership roll: a seat opens one on a *)
(* snapshot of the member tree, members vote by inclusion proof and         *)
(* nullifier, anyone closes it after the deadline, and opening a MACI round *)
(* takes it off the plain path for good (create_member_proposal.rs,         *)
(* cast_vote.rs, finalize_member_proposal.rs, open_maci_round.rs).  The     *)
(* roll goes on changing underneath: this module runs MemberRoll's steps    *)
(* interleaved with its own.                                                *)
(***************************************************************************)
EXTENDS MemberRoll

CONSTANTS
    Nonces,          \* proposal nonces
    VotingPeriods,   \* periods asked for
    MaxVotingPeriod, \* MAX_VOTING_PERIOD
    SettlePeriod,    \* EPOCH_SETTLE_PERIOD
    MinElectorate,   \* MIN_ELECTORATE
    MinTurnout,      \* MIN_TURNOUT
    ParentServants,  \* wallets holding a seat of the parent Circle
    NoCosigner,      \* parent_seat omitted
    RuleChoices      \* vote rules a seat may set in CircleConfig

DefaultRules == [qNum |-> 0, qDen |-> 0, pNum |-> 0, pDen |-> 0]

ASSUME VoteAssumption ==
    /\ VotingPeriods \subseteq Nat
    /\ {MaxVotingPeriod, SettlePeriod, MinElectorate, MinTurnout} \subseteq Nat
    /\ MinTurnout > 1
    /\ NoCosigner \notin ParentServants
    /\ RuleChoices \subseteq [qNum : Nat, qDen : Nat, pNum : Nat, pDen : Nat]

VARIABLES
    ballots,        \* nonce -> MemberProposal, with the nullifiers spent on it
    rules,          \* vote_quorum_num .. vote_pass_den of CircleConfig
    sealed          \* nonces with a MACI round

ballotVars == <<ballots, rules, sealed>>
vars == <<rollVars, ballotVars>>

-----------------------------------------------------------------------------
(* The outcome: finalize_member_proposal.rs. *)

AtLeastOne(n) == IF n = 0 THEN 1 ELSE n

QuorumThreshold(eligible, r) ==
    AtLeastOne(IF r.qDen > 0 THEN (eligible * r.qNum) \div r.qDen
                             ELSE (eligible + 2) \div 3)

VotePasses(yes, no, r) ==
    IF r.pDen > 0 THEN yes * r.pDen >= r.pNum * (yes + no) ELSE yes > no

(* Mutant: the rule before MIN_TURNOUT, any ballot at all. *)
OutcomeAnyTurnout(b, r) ==
    /\ b.yes + b.no >= QuorumThreshold(b.eligible, r)
    /\ b.yes + b.no > 0
    /\ VotePasses(b.yes, b.no, r)

Outcome(b, r) ==
    /\ b.yes + b.no >= QuorumThreshold(b.eligible, r)
    /\ b.yes + b.no >= MinTurnout
    /\ VotePasses(b.yes, b.no, r)

-----------------------------------------------------------------------------
VoteInit ==
    /\ Init
    /\ ballots = EmptyMap /\ rules = DefaultRules
    /\ sealed = {}

(* Another part of set_circle_config than the one in Treasury. *)
SetVoteRules(seat, r) ==
    /\ seat \in Servants
    /\ rules' = r
    /\ UNCHANGED <<rollVars, ballots, sealed>>

Settled == recent.exists /\ recent.epoch > 0 => now >= recent.startedAt + SettlePeriod

(* Bound: the deadline, like every other time, stays within MaxTime. *)
CreateMemberProposal(seat, cosigner, n, period) ==
    /\ seat \in Servants
    /\ n \notin DOMAIN ballots
    /\ period > 0 /\ period <= MaxVotingPeriod
    /\ Settled
    /\ Len(tree) < MinElectorate => cosigner \in ParentServants
    /\ now + period <= MaxTime
    /\ ballots' = Put(ballots, n,
           [root |-> tree, eligible |-> Len(tree), yes |-> 0, no |-> 0,
            deadline |-> now + period, finalized |-> FALSE, passed |-> FALSE,
            spent |-> {}])
    /\ UNCHANGED <<rollVars, rules, sealed>>

Counted(n, c, choice) ==
    /\ ballots' = [ballots EXCEPT ![n].yes = IF choice THEN @ + 1 ELSE @,
                                  ![n].no = IF choice THEN @ ELSE @ + 1,
                                  ![n].spent = @ \cup {c}]
    /\ UNCHANGED <<rollVars, rules, sealed>>

(* Mutant: the proof is checked against the live tree, not the snapshot. *)
CastVoteLiveRoot(n, c, choice) ==
    /\ n \in DOMAIN ballots /\ ~ballots[n].finalized
    /\ now < ballots[n].deadline
    /\ c \in LeavesOf(tree)
    /\ c \notin ballots[n].spent
    /\ Counted(n, c, choice)

(* The proof shows that the voter is a leaf of the snapshot; the nullifier    *)
(* account is created once per member and proposal.                           *)
CastVote(n, c, choice) ==
    /\ n \in DOMAIN ballots /\ ~ballots[n].finalized
    /\ now < ballots[n].deadline
    /\ c \in LeavesOf(ballots[n].root)
    /\ c \notin ballots[n].spent
    /\ Counted(n, c, choice)

(* Permissionless.  The rules are those in force now, not at opening. *)
FinalizeMemberProposal(n) ==
    /\ n \in DOMAIN ballots /\ ~ballots[n].finalized
    /\ now >= ballots[n].deadline
    /\ ballots' = [ballots EXCEPT ![n].finalized = TRUE,
                                  ![n].passed = Outcome(ballots[n], rules)]
    /\ UNCHANGED <<rollVars, rules, sealed>>

(* Mutant: a round may be opened after members have voted in the open. *)
OpenMaciRoundVotedOn(seat, n) ==
    /\ seat \in Servants
    /\ n \in DOMAIN ballots /\ n \notin sealed
    /\ ~ballots[n].finalized
    /\ now < ballots[n].deadline
    /\ sealed' = sealed \cup {n}
    /\ ballots' = [ballots EXCEPT ![n].finalized = TRUE, ![n].passed = FALSE]
    /\ UNCHANGED <<rollVars, rules>>

(* The proposal is finalized and not passed from here on: what the sealed     *)
(* round finds is recorded elsewhere and never written back.                  *)
OpenMaciRound(seat, n) ==
    /\ seat \in Servants
    /\ n \in DOMAIN ballots /\ n \notin sealed
    /\ ~ballots[n].finalized
    /\ ballots[n].yes = 0 /\ ballots[n].no = 0
    /\ now < ballots[n].deadline
    /\ sealed' = sealed \cup {n}
    /\ ballots' = [ballots EXCEPT ![n].finalized = TRUE, ![n].passed = FALSE]
    /\ UNCHANGED <<rollVars, rules>>

RollStep == RollNext /\ UNCHANGED ballotVars

VoteNext ==
    \/ RollStep
    \/ \E seat \in Servants :
          \/ \E r \in RuleChoices : SetVoteRules(seat, r)
          \/ \E n \in Nonces : OpenMaciRound(seat, n)
          \/ \E n \in Nonces, s \in ParentServants \cup {NoCosigner},
                p \in VotingPeriods : CreateMemberProposal(seat, s, n, p)
    \/ \E n \in Nonces :
          \/ \E c \in Commitments, choice \in BOOLEAN : CastVote(n, c, choice)
          \/ FinalizeMemberProposal(n)

VoteSpec == VoteInit /\ [][VoteNext]_vars

-----------------------------------------------------------------------------
Ballot == [root : Seq(Commitments), eligible : 0 .. Capacity, yes : Nat, no : Nat,
           deadline : Times, finalized : BOOLEAN, passed : BOOLEAN,
           spent : SUBSET Commitments]

VoteTypeOK ==
    /\ RollTypeOK
    /\ IsPartialMap(ballots, Nonces, Ballot)
    /\ rules \in RuleChoices \cup {DefaultRules}
    /\ sealed \subseteq DOMAIN ballots

(* One member, one vote: a tally is the number of different members of the   *)
(* snapshot who voted, although members come and go, are revoked, re-issued  *)
(* and rebuilt into other trees while it is open.                            *)
OneMemberOneVote ==
    /\ VoteTypeOK
    /\ \A n \in DOMAIN ballots :
        /\ ballots[n].yes + ballots[n].no = Cardinality(ballots[n].spent)
        /\ ballots[n].spent \subseteq LeavesOf(ballots[n].root)

(* No one alone is a group conscience ("at least two distinct members must   *)
(* actually cast a ballot"), whatever rules the seats set: a passed proposal *)
(* has two voters or more, and they are of its snapshot.                     *)
NoLoneConscience ==
    \A n \in DOMAIN ballots : ballots[n].passed =>
        Cardinality(ballots[n].spent \cap LeavesOf(ballots[n].root)) > 1

(* The roll cannot shift mid-vote: the electorate and the deadline of a ballot *)
(* (b before a step, a after it) never change, and once it is finalized        *)
(* nothing of it does, whatever happens to the roll, the tree or the rules.    *)
Frozen(b, a) ==
    /\ a.root = b.root /\ a.eligible = b.eligible /\ a.deadline = b.deadline
    /\ b.finalized => a = b

(* A vote cast is never taken back, and none comes in at the deadline or later. *)
VotesStand(b, a) ==
    /\ b.spent \subseteq a.spent /\ b.yes <= a.yes /\ b.no <= a.no
    /\ a.spent # b.spent => now < b.deadline

(* A ballot closes by one path only: at its deadline or later, by its own votes, *)
(* or by a sealed round opened before anybody voted on it, and then not passed.  *)
ClosesOneWay(n, b, a) ==
    ~b.finalized /\ a.finalized =>
        /\ a = [b EXCEPT !.finalized = TRUE, !.passed = a.passed]
        /\ \/ n \notin sealed' /\ now >= b.deadline
           \/ n \in sealed' \ sealed /\ ~a.passed /\ b.spent = {}

BallotStep ==
    \A n \in DOMAIN ballots :
        /\ n \in DOMAIN ballots'
        /\ Frozen(ballots[n], ballots'[n])
        /\ VotesStand(ballots[n], ballots'[n])
        /\ ClosesOneWay(n, ballots[n], ballots'[n])

(* What one is told of a ballot stays true: its electorate, deadline and votes, *)
(* and its outcome, recorded once and by one of the two paths.                  *)
BallotsFinal == [][BallotStep]_vars

=============================================================================
