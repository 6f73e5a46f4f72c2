------------------------------- MODULE Karma -------------------------------
(***************************************************************************)
(* Links between a newcomer and a more experienced member, and the karma   *)
(* that comes with them (establish_wing_peer.rs, end_wing_peer.rs,         *)
(* give_karma.rs, reclaim_karma.rs, set_karma_params.rs).  Both credits    *)
(* and gifts make karma out of nothing, so what keeps the totals honest is *)
(* that each can happen once, whatever is ended, revoked and begun again.  *)
(***************************************************************************)
EXTENDS Integers, FiniteSets, Functions

CONSTANTS
    Commitments,  \* of people who are members, again and again perhaps
    Period,       \* circle.membership_period
    Defaults,     \* KarmaParams::DEFAULT_*
    Votes,        \* the SetKarmaParams proposals the Council executes
    Amounts,      \* what a gift may be asked to carry
    Revocable,    \* commitments that are revoked and admitted again (bound)
    MaxPoints,    \* u64::MAX
    MaxTime       \* bound on the clock

Params == [gain : Nat, ratio : Nat, maxGift : Nat, period : Int]

ASSUME KarmaAssumption ==
    /\ IsFiniteSet(Commitments) /\ Amounts \subseteq Nat /\ Revocable \subseteq Commitments
    /\ {Period, MaxPoints, MaxTime} \subseteq Nat
    /\ Defaults \in Params /\ Defaults.period >= 0 /\ Votes \subseteq Params

VARIABLES
    now,
    members,   \* commitment -> expires_at of its Membership
    bond,      \* mentee -> its WingPeer
    awards,    \* KarmaAward accounts, with what each credited to whom
    points,    \* Karma accounts
    gifts,     \* <<giver, receiver>> -> its KarmaGift
    params,    \* the KarmaParams account, once there is one
    carried,   \* votes that are drained
    full       \* history: whose total was ever cut off at MaxPoints

karmaVars == <<now, members, bond, awards, points, gifts, params, carried, full>>

Member(m) == m \in DOMAIN members
Put(f, k, v) == [x \in DOMAIN f \cup {k} |-> IF x = k THEN v ELSE f[x]]

Unset == [at |-> "unset"]
\* The first instruction that needs a policy writes all of the default one.
Materialised(p) == IF p = Unset THEN Defaults ELSE p
SponsorGain(gain, ratio) == (gain * ratio) \div 10000

\* A slip: an award account for each direction.
AwardedByRole(m, w) == \E a \in awards : a.mentee = m /\ a.wing = w
Awarded(m, w) == \E a \in awards : {a.mentee, a.wing} = {m, w}

Saturated(n) == IF n > MaxPoints THEN MaxPoints ELSE n

KarmaInit ==
    /\ now = 0 /\ members = [m \in Commitments |-> Period] /\ bond = [m \in {} |-> 0]
    /\ awards = {} /\ points = [m \in Commitments |-> 0] /\ gifts = [g \in {} |-> 0]
    /\ params = Unset /\ carried = {} /\ full = {}

\* A member names, or changes, their wing; each pair is credited once ever.
EstablishWingPeer(m, w) ==
    LET p == Materialised(params)
        credit == [c \in Commitments |-> IF c = m THEN p.gain
                                         ELSE IF c = w THEN SponsorGain(p.gain, p.ratio) ELSE 0]
    IN  /\ Member(m) /\ Member(w) /\ m # w
        /\ bond' = Put(bond, m, [wing |-> w, active |-> TRUE])
        /\ \/ /\ Awarded(m, w)
              /\ UNCHANGED <<awards, points, params, full>>
           \/ /\ ~Awarded(m, w)
              /\ params' = p
              /\ points' = [c \in Commitments |-> Saturated(points[c] + credit[c])]
              /\ full' = full \cup { c \in Commitments : points[c] + credit[c] > MaxPoints }
              /\ awards' = awards \cup {[mentee |-> m, wing |-> w, credit |-> credit]}
        /\ UNCHANGED <<now, members, gifts, carried>>

\* Either of the two ends it; the record stays.
EndWingPeer(m, by) ==
    /\ m \in DOMAIN bond /\ Member(by) /\ by \in {m, bond[m].wing}
    /\ bond' = [bond EXCEPT ![m].active = FALSE]
    /\ UNCHANGED <<now, members, awards, points, gifts, params, carried, full>>

\* Once ever for each giver and receiver.
GiveKarma(a, b, amount) ==
    LET p == Materialised(params)
    IN  /\ Member(a) /\ Member(b) /\ a # b
        /\ amount > 0 /\ amount <= p.maxGift /\ points[a] >= amount
        /\ <<a, b>> \notin DOMAIN gifts                              \* init
        /\ params' = p
        /\ points' = [points EXCEPT ![a] = @ - amount, ![b] = Saturated(@ + amount)]
        /\ full' = IF points[b] + amount > MaxPoints THEN full \cup {b} ELSE full
        /\ gifts' = Put(gifts, <<a, b>>, [amount |-> amount, givenAt |-> now, returned |-> FALSE])
        /\ UNCHANGED <<now, members, bond, awards, carried>>

\* Anyone, for the giver: what comes back is due by the policy of today.
ReclaimKarma(a, b) ==
    /\ <<a, b>> \in DOMAIN gifts /\ Member(a) /\ Member(b)
    /\ ~gifts[<<a, b>>].returned
    /\ now >= gifts[<<a, b>>].givenAt + params.period
    /\ gifts' = [gifts EXCEPT ![<<a, b>>].returned = TRUE]
    /\ points' = [points EXCEPT ![a] = Saturated(@ + gifts[<<a, b>>].amount)]
    /\ full' = IF points[a] + gifts[<<a, b>>].amount > MaxPoints THEN full \cup {a} ELSE full
    /\ UNCHANGED <<now, members, bond, awards, params, carried>>

\* A decision the Council has executed, carried out by anyone, once.
SetKarmaParams(v) ==
    /\ v \in Votes \ carried
    /\ v.ratio <= 10000 /\ v.period >= 0
    /\ carried' = carried \cup {v} /\ params' = v
    /\ UNCHANGED <<now, members, bond, awards, points, gifts, full>>

\* What the roll, which MemberRoll has in full, does to a Membership meanwhile:
\* it comes and goes, and none of the accounts above with it.  Renewal, which
\* moves expires_at alone, is left out.  Bound: Revocable.
Issue(m) ==
    /\ ~Member(m) /\ members' = Put(members, m, now + Period)
    /\ UNCHANGED <<now, bond, awards, points, gifts, params, carried, full>>
Revoke(m) ==
    /\ Member(m) /\ members' = [x \in DOMAIN members \ {m} |-> members[x]]
    /\ UNCHANGED <<now, bond, awards, points, gifts, params, carried, full>>

Tick == /\ now < MaxTime /\ now' = now + 1
        /\ UNCHANGED <<members, bond, awards, points, gifts, params, carried, full>>

KarmaNext ==
    \/ \E m, w \in Commitments :
          \/ EstablishWingPeer(m, w) \/ EndWingPeer(m, w) \/ ReclaimKarma(m, w)
          \/ \E n \in Amounts : GiveKarma(m, w, n)
    \/ \E v \in Votes : SetKarmaParams(v)
    \/ \E m \in Revocable : Issue(m) \/ Revoke(m)
    \/ Tick

-----------------------------------------------------------------------------
(* Properties. *)

KarmaTypeOK ==
    /\ now \in 0..MaxTime /\ DOMAIN members \subseteq Commitments /\ DOMAIN bond \subseteq Commitments
    /\ points \in [Commitments -> 0..MaxPoints] /\ carried \subseteq Votes /\ full \subseteq Commitments
    /\ params \in Votes \cup {Defaults, Unset} /\ \A m \in DOMAIN bond : bond[m].wing # m

\* What a member's acts add up to: links accepted, gifts had, gifts not back yet.
Credited(m) == SumFunctionOnSet([a \in awards |-> a.credit[m]], awards)
Worth       == [g \in DOMAIN gifts |-> gifts[g].amount]
Received(m) == { g \in DOMAIN gifts : g[2] = m }
Given(m)    == { g \in DOMAIN gifts : g[1] = m /\ ~gifts[g].returned }
Ledger(m)   == Credited(m) + SumFunctionOnSet(Worth, Received(m)) - SumFunctionOnSet(Worth, Given(m))

\* Karma is made only by accepting a link, once for each two people whichever
\* way round and however often they part, and by a gift, once for each giver and
\* receiver; a gift comes back once.  Totals are these and never more, also when
\* memberships are revoked and issued again and the figures are voted in
\* between, and less only if a total ran into the largest number there is
\* (establish_wing_peer.rs:29-78, give_karma.rs:16-29, reclaim_karma.rs:18-22).
KarmaAccounted ==
    /\ KarmaTypeOK
    /\ \A a, b \in awards : {a.mentee, a.wing} = {b.mentee, b.wing} => a = b
    /\ \A m \in Commitments : points[m] <= Ledger(m) /\ (points[m] = Ledger(m) \/ m \in full)
=============================================================================
