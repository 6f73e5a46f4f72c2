----------------------------- MODULE Governance -----------------------------
(***************************************************************************)
(* The life of the Council's proposals and of the seats they rewrite:      *)
(* initialize_circle, propose, approve, cancel_proposal, execute_proposal, *)
(* and the two instructions that write seats from outside the Council,     *)
(* install_elected_seat and execute_child_rotation.                        *)
(*                                                                         *)
(* Every instruction is one transaction, hence one step; what interleaves  *)
(* is the order in which the seat holders and anyone else submit them, and *)
(* the chain's clock.  Which member vote passed and which rotation the     *)
(* parent Circle voted is decided elsewhere: here each of the constant     *)
(* Elections and ChildRotations may turn out to have been decided at any   *)
(* moment, or never.                                                       *)
(***************************************************************************)
EXTENDS Council

CONSTANTS
    Founders,        \* the seat sets passed to initialize_circle, invalid ones included
    Nonces,          \* the proposal nonces that may be used
    Offered,         \* the actions callers submit, invalid ones included
    Elections,       \* SeatElection accounts: [id, seat_index, candidate]
    ChildRotations,  \* ChildSeatVote accounts: [id, new_seats]
    MaxTime          \* bound: the last clock value

ASSUME GovernanceAssumption ==
    /\ Founders \subseteq [Seats -> Holder]
    /\ Offered \subseteq RawAction
    /\ \A e \in Elections : e.seat_index \in Seats /\ e.candidate \in Holder
    /\ \A r \in ChildRotations : r.new_seats \in [Seats -> Holder]
    /\ MaxTime \in Nat

VARIABLES
    seats,       \* Council::seats
    proposals,   \* the Proposal accounts that exist, by nonce
    applied,     \* the outside decisions already written into the seats
    now,         \* Clock::unix_timestamp
    cast,        \* history: who approved for a seat, and when
    executedAt   \* history: when a proposal was executed

vars == <<seats, proposals, applied, now, cast, executedAt>>
history == <<cast, executedAt>>

Opened == DOMAIN proposals

Ballot == [who : Holder, at : Nat]
NoBallot == [who |-> NoWallet, at |-> 0]

Init ==
    /\ seats \in Founders
    /\ FilledAndDistinct(seats)
    /\ proposals = [n \in {} |-> 0]
    /\ applied = {}
    /\ now = 1
    /\ cast = [n \in Nonces |-> [s \in Seats |-> NoBallot]]
    /\ executedAt = [n \in Nonces |-> 0]

-----------------------------------------------------------------------------

\* Bound: approvals stop early enough for every contest window to end.
ClockRoom == now + RecoveryTimelock <= MaxTime

RecordBallot(n, who) ==
    cast' = [cast EXCEPT ![n][SeatOf(seats, who)] = [who |-> who, at |-> now]]

Propose(n, who, action) ==
    /\ ClockRoom
    /\ n \notin Opened
    /\ HoldsSeat(seats, who)
    /\ ValidAction(action)
    /\ proposals' = [m \in Opened \cup {n} |->
                       IF m = n THEN NewProposal(action, SeatOf(seats, who), now)
                                ELSE proposals[m]]
    /\ RecordBallot(n, who)
    /\ UNCHANGED <<seats, applied, now, executedAt>>

Approve(n, who) ==
    /\ ClockRoom
    /\ n \in Opened
    /\ HoldsSeat(seats, who)
    /\ ~proposals[n].executed
    /\ ~proposals[n].cancelled
    /\ SeatOf(seats, who) \notin proposals[n].approvals
    /\ proposals' = [proposals EXCEPT ![n] = AddApproval(@, SeatOf(seats, who), now)]
    /\ RecordBallot(n, who)
    /\ UNCHANGED <<seats, applied, now, executedAt>>

\* Mutant: an executed proposal can still be cancelled.
CancelProposalLate(n, who) ==
    /\ n \in Opened
    /\ HoldsSeat(seats, who)
    /\ ~proposals[n].cancelled
    /\ proposals' = [proposals EXCEPT ![n].cancelled = TRUE]
    /\ UNCHANGED <<seats, applied, now, cast, executedAt>>

CancelProposal(n, who) ==
    /\ n \in Opened
    /\ HoldsSeat(seats, who)
    /\ ~proposals[n].executed
    /\ ~proposals[n].cancelled
    /\ proposals' = [proposals EXCEPT ![n].cancelled = TRUE]
    /\ UNCHANGED <<seats, applied, now, cast, executedAt>>

\* Mutant: a migration may land on a wallet that is already seated.
SeatsAllowCollapse(a) ==
    a.type = "RotateSeat" =>
        /\ a.seat_index \in Seats
        /\ ~OccupiedElsewhere(seats, a.new_holder, a.seat_index)

\* What executing the action asks of the seats, and what it leaves in them.
\* Spending, epoch and karma decisions only authorise a later instruction.
SeatsAllow(a) ==
    CASE a.type = "RotateSeat" ->
             a.seat_index \in Seats
               /\ ~OccupiedElsewhere(seats, a.new_holder, a.seat_index)
      [] a.type = "MigrateWallet" ->
             HoldsSeat(seats, a.old_wallet) => ~HoldsSeat(seats, a.new_wallet)
      [] OTHER -> TRUE

SeatsAfter(a) ==
    CASE a.type = "RotateSeat"    -> [seats EXCEPT ![a.seat_index] = a.new_holder]
      [] a.type = "MigrateWallet" -> Rebind(seats, a.old_wallet, a.new_wallet)
      [] OTHER -> seats

\* Permissionless.
ExecuteProposal(n) ==
    /\ n \in Opened
    /\ RequireExecutable(proposals[n], now)
    /\ SeatsAllow(proposals[n].action)
    /\ seats' = SeatsAfter(proposals[n].action)
    /\ proposals' = [proposals EXCEPT ![n].executed = TRUE]
    /\ executedAt' = [executedAt EXCEPT ![n] = now]
    /\ UNCHANGED <<applied, now, cast>>

\* Permissionless, one-shot, no contest window.
InstallElectedSeat(e) ==
    /\ e \notin applied
    /\ e.candidate # NoWallet
    /\ \A i \in Seats \ {e.seat_index} : seats[i] # e.candidate
    /\ seats' = [seats EXCEPT ![e.seat_index] = e.candidate]
    /\ applied' = applied \cup {e}
    /\ UNCHANGED <<proposals, now, history>>

\* Permissionless, one-shot, no contest window in the child.
ExecuteChildRotation(r) ==
    /\ r \notin applied
    /\ FilledAndDistinct(r.new_seats)
    /\ seats' = r.new_seats
    /\ applied' = applied \cup {r}
    /\ UNCHANGED <<proposals, now, history>>

\* Bound: the clock stops at MaxTime.
Tick ==
    /\ now < MaxTime
    /\ now' = now + 1
    /\ UNCHANGED <<seats, proposals, applied, history>>

Next ==
    \/ \E n \in Nonces, who \in Wallets :
          \/ \E a \in Offered : Propose(n, who, a)
          \/ Approve(n, who)
          \/ CancelProposal(n, who)
    \/ \E n \in Nonces : ExecuteProposal(n)
    \/ \E e \in Elections : InstallElectedSeat(e)
    \/ \E r \in ChildRotations : ExecuteChildRotation(r)
    \/ Tick

Spec == Init /\ [][Next]_vars

-----------------------------------------------------------------------------

TypeOK ==
    /\ seats \in [Seats -> Holder]
    /\ Opened \subseteq Nonces
    /\ \A n \in Opened : proposals[n] \in Proposal
    /\ applied \subseteq Elections \cup ChildRotations
    /\ now \in Nat
    /\ cast \in [Nonces -> [Seats -> Ballot]]
    /\ executedAt \in [Nonces -> Nat]

\* No wallet ever holds two seats, whichever of the four writers of the seats
\* (rotation, migration, election, parent rotation) ran, in whatever order:
\* otherwise the threshold would count one person twice (council.rs:75-87).
OneSeatEach ==
    \A i, j \in Seats :
        seats[i] = seats[j] /\ seats[i] # NoWallet => i = j

\* An executed proposal had been approved for Threshold distinct seats, each
\* by the wallet in it at the time, at least a full contest window before it
\* was executed, late approvals and seat changes in between notwithstanding
\* (arm_if_ready and require_executable, council.rs:184-214).
ContestWindow ==
    \A n \in Opened :
        proposals[n].executed =>
            Cardinality({s \in proposals[n].approvals :
                /\ cast[n][s].who # NoWallet
                /\ cast[n][s].at + RecoveryTimelock <= executedAt[n]})
              >= Threshold

\* One seat's cancellation is final: a proposal is never both cancelled and
\* executed, however the two transactions race (cancel_proposal.rs:7-10).
CancelWins ==
    \A n \in Opened : ~(proposals[n].executed /\ proposals[n].cancelled)

\* The seats whose approval of proposal n is a contest window old.
LongApproved(n) ==
    {s \in Seats : /\ cast[n][s].who # NoWallet
                   /\ cast[n][s].at + RecoveryTimelock <= now}

RemovedByDecision ==
    \A w \in Wallets :
        HoldsSeat(seats, w) /\ ~HoldsSeat(seats', w) =>
            \/ applied' # applied
            \/ \E n \in Opened :
                  /\ ~proposals[n].executed /\ proposals'[n].executed
                  /\ ~proposals[n].cancelled
                  /\ Cardinality(LongApproved(n)) >= Threshold

\* Elections and parent rotations aside, a wallet loses its seat only to a
\* proposal that Threshold seats had approved a full contest window before
\* and nobody had cancelled: the holder had that window to contest it
\* ("purge-before-migrate", council.rs:188-192).
RemovalContestable == [][RemovedByDecision]_vars

Forward(p, q) ==
    /\ q.action = p.action
    /\ p.approvals \subseteq q.approvals
    /\ Armed(p) => q.eligible_at = p.eligible_at
    /\ p.executed => q.executed /\ q.approvals = p.approvals
    /\ p.cancelled => q.cancelled /\ q.approvals = p.approvals

OnlyForward == \A n \in Opened : Forward(proposals[n], proposals'[n])

\* The end of a contest window never moves, and the approvals, the action
\* and the outcome of a proposal never go back: neither later approvals nor
\* a change of the seats re-arms it (arm_if_ready is idempotent).
Irrevocable == [][OnlyForward]_vars

=============================================================================
