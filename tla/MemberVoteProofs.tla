-------------------------- MODULE MemberVoteProofs --------------------------
(***************************************************************************)
(* For any roll, any rules the seats may set and any order of admissions,  *)
(* revocations, rebuilds, votes and sealed rounds: the roll's two defences *)
(* hold, no one alone is a group conscience, a tally is a number of        *)
(* members and an outcome is final.                                        *)
(*                                                                         *)
(* First the roll. What keeps a member from a second leaf is spread over   *)
(* four records (membership, claim of the epoch, provisional mark,         *)
(* revocation), and the invariant says how they go together.               *)
(*                                                                         *)
(* Then the ballots. The invariant ties the two counters of a ballot to    *)
(* the set of members whose nullifiers were spent on it: the outcome only  *)
(* looks at the counters, while the properties are about the members.      *)
(***************************************************************************)
EXTENDS MemberVote, FiniteSetTheorems, SequenceTheorems, TLAPS

-----------------------------------------------------------------------------
(* The roll.                                                               *)

\* A root is an earlier state of the tree.
Earlier(root, t) == Len(root) <= Len(t) /\ \A i \in 1 .. Len(root) : root[i] = t[i]

RingHeld == \A k \in DOMAIN recent.ring : Earlier(recent.ring[k], tree)

StandsGood(c) ==
    IF c \in DOMAIN members
    THEN members[c].expiresAt > recent.startedAt
    ELSE c \in DOMAIN revokedAt /\ revokedAt[c] >= recent.startedAt

Standing == recent.epoch > 0 => \A i \in DOMAIN tree : StandsGood(tree[i])

\* What keeps a leaf from being planted again: a membership is there, it is
\* nobody's to confirm, and it is claimed in this epoch or too young to come back.
Settles(c) ==
    /\ c \in DOMAIN members /\ c \notin provisional
    /\ <<recent.epoch, c>> \in DOMAIN epochLeaf \/ members[c].issuedAt >= recent.startedAt

OnTheRoll == \A i \in DOMAIN tree : tree[i] \notin DOMAIN revokedAt => Settles(tree[i])

BehindGlass == \A c \in provisional : c \notin DOMAIN revokedAt => c \in DOMAIN members

AttestedSoFar == \A c \in DOMAIN attested : attested[c].leafEpoch <= recent.epoch

RollShape == RollTypeOK /\ recent.startedAt <= now /\ memberCount <= Len(tree)

RollInv ==
    /\ RollShape
    /\ RingHeld /\ Standing
    /\ OnTheRoll /\ BehindGlass /\ LeafOnce
    /\ AttestedSoFar /\ PinnedPositions

-----------------------------------------------------------------------------
LEMMA PutTyped ==
    ASSUME NEW S, NEW T, NEW f, IsPartialMap(f, S, T), NEW k \in S, NEW v \in T
    PROVE  IsPartialMap(Put(f, k, v), S, T)
BY DEF Put, IsPartialMap

\* The ring keeps the new root and some of the old ones, within its length.
LEMMA PushFacts ==
    ASSUME NEW ring \in Seq(Seq(Commitments)), Len(ring) <= RootHistory,
           NEW root \in Seq(Commitments)
    PROVE  /\ Push(ring, root) \in Seq(Seq(Commitments))
           /\ Len(Push(ring, root)) <= RootHistory
           /\ \A k \in DOMAIN Push(ring, root) :
                 Push(ring, root)[k] = root
                 \/ \E j \in DOMAIN ring : Push(ring, root)[k] = ring[j]
<1> DEFINE grown == Append(ring, root)
           n == Len(ring)
           S == Seq(Commitments)
<1>1. /\ grown \in Seq(S) /\ grown # <<>> /\ Len(grown) = n + 1
      /\ \A i \in 1 .. n : grown[i] = ring[i]
      /\ grown[n + 1] = root
  BY AppendProperties
<1>2. n \in Nat /\ DOMAIN ring = 1 .. n /\ DOMAIN grown = 1 .. n + 1
  BY <1>1, LenProperties
<1>3. /\ Tail(grown) \in Seq(S) /\ Len(Tail(grown)) = n
      /\ \A i \in 1 .. n : Tail(grown)[i] = grown[i + 1]
  <2> HIDE DEF grown, n, S
  <2>1. /\ Tail(grown) \in Seq(S) /\ Len(Tail(grown)) = Len(grown) - 1
        /\ \A i \in 1 .. Len(Tail(grown)) : Tail(grown)[i] = grown[i + 1]
    BY <1>1, HeadTailProperties
  <2>2. Len(grown) - 1 = n
    BY <1>1, <1>2
  <2>3. QED
    BY <2>1, <2>2
<1>4. DOMAIN Tail(grown) = 1 .. n
  BY <1>3, LenProperties
<1>5. Push(ring, root) = ring \/ (Push(ring, root) = grown /\ ~(n + 1 > RootHistory))
      \/ Push(ring, root) = Tail(grown)
  BY <1>1 DEF Push
<1>6. n <= RootHistory /\ ring \in Seq(S)
  OBVIOUS
<1> DEFINE p == Push(ring, root)
<1> HIDE DEF grown, n, S, p
<1> SUFFICES /\ p \in Seq(S) /\ Len(p) <= RootHistory
             /\ \A k \in DOMAIN p : p[k] = root \/ \E j \in DOMAIN ring : p[k] = ring[j]
  BY DEF p, S
<1>7. CASE p = ring
  BY <1>6, <1>7 DEF n
<1>8. CASE p = grown /\ ~(n + 1 > RootHistory)
  <2>1. p \in Seq(S) /\ Len(p) <= RootHistory
    BY <1>1, <1>2, <1>8, RollAssumption
  <2>2. ASSUME NEW k \in 1 .. n + 1
        PROVE  grown[k] = root \/ \E j \in DOMAIN ring : grown[k] = ring[j]
    <3>1. k = n + 1 \/ k \in 1 .. n
      BY <1>2
    <3>2. QED
      BY <3>1, <1>1, <1>2
  <2>3. QED
    BY <2>1, <2>2, <1>2, <1>8
<1>9. CASE p = Tail(grown)
  <2>1. ASSUME NEW i \in 1 .. n
        PROVE  Tail(grown)[i] = root \/ \E j \in DOMAIN ring : Tail(grown)[i] = ring[j]
    <3>1. Tail(grown)[i] = grown[i + 1] /\ i \in Nat /\ i <= n
      BY <1>2, <1>3
    <3>2. CASE i = n
      BY <3>1, <3>2, <1>1
    <3>3. CASE i # n
      <4>1. i + 1 \in 1 .. n
        BY <3>1, <3>3, <1>2
      <4>2. QED
        BY <3>1, <4>1, <1>1, <1>2
    <3>4. QED
      BY <3>2, <3>3
  <2>2. p \in Seq(S) /\ Len(p) = n /\ DOMAIN p = 1 .. n
    BY <1>3, <1>4, <1>9
  <2>3. QED
    BY <2>1, <2>2, <1>6, <1>9
<1>10. QED
  BY <1>5, <1>7, <1>8, <1>9 DEF p

LEMMA TreeFacts ==
    ASSUME RollTypeOK
    PROVE  /\ tree \in Seq(Commitments) /\ Len(tree) \in Nat /\ DOMAIN tree = 1 .. Len(tree)
           /\ \A i \in DOMAIN tree : tree[i] \in Commitments
           /\ now \in Nat /\ now <= MaxTime
           /\ recent.epoch \in Nat /\ recent.startedAt \in Nat /\ recent.startedAt <= MaxTime
           /\ recent.ring \in Seq(Seq(Commitments)) /\ Len(recent.ring) <= RootHistory
           /\ DOMAIN members \subseteq Commitments
           /\ \A c \in DOMAIN members : /\ members[c].issuedAt \in Nat /\ members[c].expiresAt \in Nat
                                        /\ members[c].expiresAt <= MaxTime
           /\ DOMAIN revokedAt \subseteq Commitments /\ provisional \subseteq Commitments
           /\ \A c \in DOMAIN revokedAt : revokedAt[c] \in Nat
           /\ DOMAIN attested \subseteq Commitments
           /\ \A c \in DOMAIN attested : attested[c].leafIndex \in Nat /\ attested[c].leafEpoch \in Nat
<1>1. tree \in Seq(Commitments)
  BY DEF RollTypeOK
<1>2. Len(tree) \in Nat /\ DOMAIN tree = 1 .. Len(tree)
  BY <1>1, LenProperties
<1>3. \A i \in DOMAIN tree : tree[i] \in Commitments
  BY <1>1, <1>2, ElementOfSeq
<1>4. QED
  BY <1>1, <1>2, <1>3, RollAssumption DEF RollTypeOK, IsPartialMap, Times

\* One more leaf.
Grown(t, c) ==
    /\ t \in Seq(Commitments) /\ Len(t) = Len(tree) + 1 /\ Len(t) <= Capacity
    /\ DOMAIN t = 1 .. Len(tree) + 1
    /\ \A i \in DOMAIN tree : t[i] = tree[i]
    /\ t[Len(tree) + 1] = c

LEMMA InsertFacts ==
    ASSUME RollTypeOK, NEW c \in Commitments, HasRoom
    PROVE  Grown(Append(tree, c), c)
<1>1. tree \in Seq(Commitments) /\ Len(tree) \in Nat /\ DOMAIN tree = 1 .. Len(tree)
  BY TreeFacts
<1>2. /\ Append(tree, c) \in Seq(Commitments) /\ Len(Append(tree, c)) = Len(tree) + 1
      /\ \A i \in 1 .. Len(tree) : Append(tree, c)[i] = tree[i]
      /\ Append(tree, c)[Len(tree) + 1] = c
  BY <1>1, AppendProperties
<1>3. DOMAIN Append(tree, c) = 1 .. Len(tree) + 1
  BY <1>2, LenProperties
<1>4. QED
  BY <1>1, <1>2, <1>3, RollAssumption DEF HasRoom, Grown

\* A leaf of the grown tree was there, or is the new one.
LEMMA LeafOldOrNew ==
    ASSUME RollInv, NEW c, NEW t, Grown(t, c)
    PROVE  /\ \A i \in DOMAIN t : (i \in DOMAIN tree /\ t[i] = tree[i]) \/ (i = Len(tree) + 1 /\ t[i] = c)
           /\ \A i \in DOMAIN tree : i \in DOMAIN t /\ t[i] = tree[i] /\ i # Len(tree) + 1
BY TreeFacts DEF RollInv, RollShape, Grown

-----------------------------------------------------------------------------
\* Where the tree grows by one leaf, the roots of the ring stay earlier states.
LEMMA EarlierStill ==
    ASSUME RollTypeOK, NEW c \in Commitments, NEW t, Grown(t, c),
           NEW root, Len(root) \in Nat, Earlier(root, tree)
    PROVE  Earlier(root, t)
BY TreeFacts DEF Earlier, Grown

\* The RecentRoots account, and what noting a root makes of it.
RootsOK(r) ==
    /\ r \in [exists : BOOLEAN, epoch : Nat, startedAt : Times, ring : Seq(Seq(Commitments))]
    /\ Len(r.ring) <= RootHistory

NowIn(r, root) ==
    /\ r.epoch = recent.epoch /\ r.startedAt = recent.startedAt
    /\ \A k \in DOMAIN r.ring :
          r.ring[k] = root \/ \E j \in DOMAIN recent.ring : r.ring[k] = recent.ring[j]

LEMMA NotedFacts ==
    ASSUME RollTypeOK, NEW root \in Seq(Commitments), NEW r, r = Noted(root)
    PROVE  RootsOK(r) /\ NowIn(r, root)
<1>1. /\ recent \in [exists : BOOLEAN, epoch : Nat, startedAt : Times, ring : Seq(Seq(Commitments))]
      /\ Len(recent.ring) <= RootHistory
  BY DEF RollTypeOK
<1>2. r = [exists |-> TRUE, epoch |-> recent.epoch, startedAt |-> recent.startedAt,
           ring |-> Push(recent.ring, root)]
  BY <1>1 DEF Noted
<1>3. recent.ring \in Seq(Seq(Commitments))
  BY <1>1
<1>4. /\ Push(recent.ring, root) \in Seq(Seq(Commitments))
      /\ Len(Push(recent.ring, root)) <= RootHistory
      /\ \A k \in DOMAIN Push(recent.ring, root) :
            Push(recent.ring, root)[k] = root
            \/ \E j \in DOMAIN recent.ring : Push(recent.ring, root)[k] = recent.ring[j]
  BY <1>1, <1>3, PushFacts
<1>5. r.ring = Push(recent.ring, root)
  BY <1>2
<1>6. QED
  BY <1>1, <1>2, <1>4, <1>5 DEF RootsOK, NowIn

\* The roots of the ring are sequences of commitments.
LEMMA RingType ==
    ASSUME RollTypeOK, NEW k \in DOMAIN recent.ring
    PROVE  recent.ring[k] \in Seq(Commitments) /\ Len(recent.ring[k]) \in Nat
<1>1. recent.ring \in Seq(Seq(Commitments))
  BY TreeFacts
<1>2. recent.ring[k] \in Seq(Commitments)
  BY <1>1, ElementOfSeq, LenProperties
<1>3. QED
  BY <1>2, LenProperties

\* Steps that leave the tree and the roots alone (issue_provisional_membership,
\* attest_admission, renew_membership, revoke_membership, the switches, the clock).
LEMMA RingStill ==
    ASSUME RingHeld, UNCHANGED <<tree, recent>> PROVE RingHeld'
BY DEF RingHeld, Earlier

\* Steps that plant a leaf, noting the root or not.
LEMMA RingGrown ==
    ASSUME RollInv, NEW c \in Commitments, HasRoom, tree' = Append(tree, c),
           recent' = recent \/ recent' = Noted(tree')
    PROVE  /\ RingHeld' /\ Grown(tree', c)
           /\ recent'.epoch = recent.epoch /\ recent'.startedAt = recent.startedAt
           /\ RootsOK(recent')
<1>1. RollTypeOK /\ RingHeld
  BY DEF RollInv, RollShape
<1>2. Grown(tree', c)
  BY <1>1, InsertFacts
<1>3. tree' \in Seq(Commitments) /\ Len(tree') \in Nat
  BY <1>2, LenProperties DEF Grown
<1>4. ASSUME NEW k \in DOMAIN recent.ring PROVE Earlier(recent.ring[k], tree')
  BY <1>1, <1>2, RingType, EarlierStill DEF RingHeld
<1>5. Earlier(tree', tree')
  BY <1>3 DEF Earlier
<1>6. CASE recent' = recent
  BY <1>1, <1>2, <1>4, <1>6 DEF RingHeld, RollTypeOK, RootsOK
<1>7. CASE recent' = Noted(tree')
  <2> DEFINE t == tree'
             r == recent'
  <2>0. t \in Seq(Commitments) /\ r = Noted(t)
    BY <1>3, <1>7
  <2> HIDE DEF t, r
  <2>9. RootsOK(r) /\ NowIn(r, t)
    BY <1>1, <2>0, NotedFacts
  <2>1. RootsOK(recent') /\ NowIn(recent', tree')
    BY <2>9 DEF t, r
  <2>2. RingHeld'
    BY <2>1, <1>4, <1>5 DEF RingHeld, NowIn
  <2>3. QED
    BY <2>1, <2>2, <1>2 DEF NowIn
<1>8. QED
  BY <1>6, <1>7

-----------------------------------------------------------------------------
\* The gate only ever writes a credential's state.
LEMMA GateType ==
    ASSUME RollTypeOK, PersonhoodGate
    PROVE  credential' \in [Humans -> {"none", "unused", "used"}]
BY DEF RollTypeOK, PersonhoodGate

\* Nothing happens to the roll: the switches, the credentials, the Council, the clock.
LEMMA QuietStep ==
    ASSUME RollInv, RollTypeOK', now' >= now,
           UNCHANGED <<members, provisional, attested, tree, memberCount, recent, epochLeaf, revokedAt>>
    PROVE  RollInv'
<1>1. recent.startedAt <= now'
  BY TreeFacts, RollTypeOK' DEF RollInv, RollShape, RollTypeOK, Times
<1>2. RollShape'
  BY <1>1 DEF RollInv, RollShape
<1>3. RingHeld'
  BY RingStill DEF RollInv
<1>4. QED
  BY <1>2, <1>3 DEF RollInv, Standing, StandsGood, OnTheRoll, Settles, BehindGlass, LeafOnce,
                    AttestedSoFar, PinnedPositions

\* Direct admission plants a commitment that is no member: if it is a leaf
\* already, its membership was revoked (issue_membership.rs:20-47).
LEMMA IssueStep ==
    ASSUME RollInv, NEW w, NEW c \in Commitments, IssueMembership(w, c)
    PROVE  RollInv'
<1> USE RollAssumption
<1> DEFINE new == NewMembership
<1>1. /\ c \notin DOMAIN members /\ now + Period <= MaxTime
      /\ PersonhoodGate /\ members' = Put(members, c, new)
      /\ HasRoom /\ tree' = Append(tree, c) /\ memberCount' = memberCount + 1
      /\ UNCHANGED <<provisional, attested, recent, epochLeaf, authority, policy, now, revokedAt>>
  BY DEF IssueMembership, InsertLeaf
<1>2. RollTypeOK /\ recent.startedAt <= now /\ memberCount <= Len(tree)
  BY DEF RollInv, RollShape
<1>3. Grown(tree', c) /\ RingHeld'
  BY <1>1, RingGrown
<1>4. new.issuedAt = now /\ new.expiresAt = now + Period /\ new \in [issuedAt : Times, expiresAt : Times]
  BY <1>1, <1>2, TreeFacts DEF NewMembership, Times
<1> HIDE DEF new
<1>5. /\ DOMAIN members' = DOMAIN members \cup {c} /\ members'[c] = new
      /\ \A x \in DOMAIN members : members'[x] = members[x]
  BY <1>1 DEF Put
<1>6. IsPartialMap(members', Commitments, [issuedAt : Times, expiresAt : Times])
  BY <1>1, <1>2, <1>4, PutTyped DEF RollTypeOK
<1>7. RollTypeOK'
  BY <1>1, <1>2, <1>3, <1>6, GateType DEF RollTypeOK, Grown
<1>8. RollShape'
  BY <1>1, <1>2, <1>3, <1>7 DEF RollShape, Grown, RollTypeOK
<1>9. Standing'
  <2>1. StandsGood(c)'
    BY <1>1, <1>2, <1>4, <1>5, TreeFacts DEF StandsGood
  <2>2. \A x : StandsGood(x) => StandsGood(x)'
    BY <1>1, <1>5, <2>1 DEF StandsGood
  <2>3. QED
    BY <1>1, <1>3, <2>1, <2>2, LeafOldOrNew DEF RollInv, Standing
<1>10. BehindGlass'
  BY <1>1, <1>5 DEF RollInv, BehindGlass
<1>11. OnTheRoll'
  <2>1. c \notin DOMAIN revokedAt => Settles(c)'
    BY <1>1, <1>2, <1>4, <1>5, TreeFacts DEF RollInv, BehindGlass, Settles
  <2>2. \A x : Settles(x) => Settles(x)'
    BY <1>1, <1>5 DEF Settles
  <2>3. QED
    BY <1>1, <1>2, <1>3, <2>1, <2>2, LeafOldOrNew DEF RollInv, OnTheRoll
<1>12. LeafOnce'
  <2>1. \A i \in DOMAIN tree : tree[i] = c => c \in DOMAIN revokedAt
    BY <1>1 DEF RollInv, OnTheRoll, Settles
  <2>2. QED
    BY <1>1, <1>3, <2>1, LeafOldOrNew DEF RollInv, LeafOnce
<1>13. AttestedSoFar' /\ PinnedPositions'
  BY <1>1, <1>2, <1>3, TreeFacts DEF RollInv, AttestedSoFar, PinnedPositions, Grown
<1>14. QED
  BY <1>3, <1>8, <1>9, <1>10, <1>11, <1>12, <1>13 DEF RollInv

\* An attestation plants nothing (attest_admission.rs, attest_admission_zk.rs).
LEMMA AttestStep ==
    ASSUME RollInv, NEW newcomer, NEW parrain \in Commitments \cup {Anonymous}, Attest(newcomer, parrain)
    PROVE  RollInv'
<1> USE RollAssumption
<1> DEFINE new == [parrain |-> parrain, leafIndex |-> 0, leafEpoch |-> 0]
<1>1. /\ newcomer \in Commitments /\ newcomer \notin DOMAIN attested
      /\ attested' = Put(attested, newcomer, new)
      /\ UNCHANGED <<members, provisional, tree, memberCount, recent, epochLeaf,
                     credential, authority, policy, now, revokedAt>>
  BY DEF Attest
<1>2. /\ new.leafIndex = 0 /\ new.leafEpoch = 0
      /\ new \in [parrain : Commitments \cup {Anonymous}, leafIndex : 0 .. Capacity, leafEpoch : Nat]
  OBVIOUS
<1> HIDE DEF new
<1>3. /\ DOMAIN attested' = DOMAIN attested \cup {newcomer} /\ attested'[newcomer] = new
      /\ \A x \in DOMAIN attested : attested'[x] = attested[x]
  BY <1>1 DEF Put
<1>4. IsPartialMap(attested', Commitments,
          [parrain : Commitments \cup {Anonymous}, leafIndex : 0 .. Capacity, leafEpoch : Nat])
  BY <1>1, <1>2, PutTyped DEF RollInv, RollShape, RollTypeOK
<1>5. RollTypeOK'
  BY <1>1, <1>4 DEF RollInv, RollShape, RollTypeOK
<1>6. RollShape' /\ RingHeld'
  BY <1>1, <1>5, RingStill DEF RollInv, RollShape
<1>7. recent.epoch \in Nat
  BY TreeFacts DEF RollInv, RollShape
<1>8. AttestedSoFar' /\ PinnedPositions'
  BY <1>1, <1>2, <1>3, <1>7 DEF RollInv, AttestedSoFar, PinnedPositions
<1>9. QED
  BY <1>1, <1>6, <1>8 DEF RollInv, Standing, StandsGood, OnTheRoll, Settles, BehindGlass, LeafOnce

\* A provisional membership is of a commitment that is no member: a leaf of that
\* commitment is a revoked one's (issue_provisional_membership.rs:34-79).
LEMMA ProvisionalStep ==
    ASSUME RollInv, NEW c \in Commitments, IssueProvisionalMembership(c)
    PROVE  RollInv'
<1> USE RollAssumption
<1> DEFINE new == NewMembership
<1>1. /\ c \notin DOMAIN members /\ now + Period <= MaxTime
      /\ PersonhoodGate /\ members' = Put(members, c, new) /\ provisional' = provisional \cup {c}
      /\ UNCHANGED <<attested, tree, memberCount, recent, epochLeaf, authority, policy, now, revokedAt>>
  BY DEF IssueProvisionalMembership
<1>2. RollTypeOK /\ recent.startedAt <= now
  BY DEF RollInv, RollShape
<1>3. new.issuedAt = now /\ new.expiresAt = now + Period /\ new \in [issuedAt : Times, expiresAt : Times]
  BY <1>1, <1>2, TreeFacts DEF NewMembership, Times
<1> HIDE DEF new
<1>4. /\ DOMAIN members' = DOMAIN members \cup {c} /\ members'[c] = new
      /\ \A x \in DOMAIN members : members'[x] = members[x]
  BY <1>1 DEF Put
<1>5. IsPartialMap(members', Commitments, [issuedAt : Times, expiresAt : Times])
  BY <1>1, <1>2, <1>3, PutTyped DEF RollTypeOK
<1>6. RollTypeOK'
  BY <1>1, <1>2, <1>5, GateType DEF RollTypeOK
<1>7. RollShape' /\ RingHeld'
  BY <1>1, <1>6, RingStill DEF RollInv, RollShape
<1>8. Standing'
  <2>1. \A x : StandsGood(x) => StandsGood(x)'
    BY <1>1, <1>2, <1>3, <1>4, TreeFacts DEF StandsGood
  <2>2. QED
    BY <1>1, <2>1 DEF RollInv, Standing
<1>9. OnTheRoll'
  <2>1. \A x : Settles(x) => Settles(x)'
    BY <1>1, <1>4 DEF Settles
  <2>2. QED
    BY <1>1, <2>1 DEF RollInv, OnTheRoll
<1>10. BehindGlass' /\ LeafOnce' /\ AttestedSoFar' /\ PinnedPositions'
  BY <1>1, <1>4 DEF RollInv, BehindGlass, LeafOnce, AttestedSoFar, PinnedPositions
<1>11. QED
  BY <1>7, <1>8, <1>9, <1>10 DEF RollInv

\* What claiming a slot of the present epoch makes of the pinned positions.
Claimed(c) ==
    /\ epochLeaf' = Put(epochLeaf, <<recent.epoch, c>>, Len(tree))
    /\ Grown(tree', c) /\ recent'.epoch = recent.epoch

LEMMA ClaimFacts ==
    ASSUME RollInv, NEW c \in Commitments, Claimed(c), <<recent.epoch, c>> \notin DOMAIN epochLeaf
    PROVE  /\ \A slot \in DOMAIN epochLeaf' :
                 /\ slot \in (0 .. recent'.epoch) \X Commitments
                 /\ epochLeaf'[slot] \in 0 .. Capacity - 1
           /\ \A x \in Commitments : <<recent'.epoch, x>> \in DOMAIN epochLeaf' =>
                 LET at == epochLeaf'[<<recent'.epoch, x>>] + 1
                 IN at \in DOMAIN tree' /\ tree'[at] = x
           /\ \A x : <<recent'.epoch, x>> \in DOMAIN epochLeaf'
                     <=> x = c \/ <<recent.epoch, x>> \in DOMAIN epochLeaf
<1> USE RollAssumption
<1>1. /\ RollTypeOK /\ Grown(tree', c) /\ recent'.epoch = recent.epoch /\ recent.epoch \in Nat
      /\ Len(tree) \in Nat /\ DOMAIN tree = 1 .. Len(tree)
  BY TreeFacts DEF Claimed, RollInv, RollShape
<1> DEFINE slot0 == <<recent.epoch, c>>
<1>2. /\ DOMAIN epochLeaf' = DOMAIN epochLeaf \cup {slot0} /\ epochLeaf'[slot0] = Len(tree)
      /\ \A s \in DOMAIN epochLeaf : epochLeaf'[s] = epochLeaf[s]
  BY DEF Claimed, Put
<1>3. slot0 \in (0 .. recent.epoch) \X Commitments /\ Len(tree) \in 0 .. Capacity - 1
  BY <1>1 DEF Grown
<1>4. \A x : <<recent.epoch, x>> = slot0 <=> x = c
  OBVIOUS
<1> HIDE DEF slot0
<1>5. ASSUME NEW x \in Commitments, <<recent.epoch, x>> \in DOMAIN epochLeaf'
      PROVE  epochLeaf'[<<recent.epoch, x>>] + 1 \in DOMAIN tree'
             /\ tree'[epochLeaf'[<<recent.epoch, x>>] + 1] = x
  <2>1. CASE x = c
    <3>1. epochLeaf'[<<recent.epoch, x>>] = Len(tree)
      BY <2>1, <1>2, <1>4
    <3>2. Len(tree) + 1 \in DOMAIN tree' /\ tree'[Len(tree) + 1] = x
      BY <2>1, <1>1 DEF Grown
    <3>3. QED
      BY <3>1, <3>2
  <2>2. CASE x # c
    <3>1. <<recent.epoch, x>> \in DOMAIN epochLeaf
      BY <2>2, <1>2, <1>4, <1>5
    <3>2. /\ epochLeaf[<<recent.epoch, x>>] + 1 \in DOMAIN tree
          /\ tree[epochLeaf[<<recent.epoch, x>>] + 1] = x
      BY <3>1 DEF RollInv, PinnedPositions
    <3>3. QED
      BY <3>1, <3>2, <1>1, <1>2 DEF Grown
  <2>3. QED
    BY <2>1, <2>2
<1>6. QED
  BY <1>1, <1>2, <1>3, <1>4, <1>5 DEF RollTypeOK

\* The widths of what a planted leaf changes.
LEMMA PlantedType ==
    ASSUME RollShape, NEW c \in Commitments, Grown(tree', c), RootsOK(recent'),
           memberCount' = memberCount + 1
    PROVE  /\ tree' \in Seq(Commitments) /\ Len(tree') <= Capacity
           /\ memberCount' \in 0 .. Capacity /\ memberCount' <= Len(tree')
           /\ recent' \in [exists : BOOLEAN, epoch : Nat, startedAt : Times,
                           ring : Seq(Seq(Commitments))]
           /\ Len(recent'.ring) <= RootHistory
<1>1. memberCount \in Nat /\ memberCount <= Len(tree) /\ Len(tree) \in Nat
  BY TreeFacts, RollAssumption DEF RollShape, RollTypeOK
<1>2. tree' \in Seq(Commitments) /\ Len(tree') = Len(tree) + 1 /\ Len(tree') <= Capacity
  BY DEF Grown
<1>3. memberCount' \in 0 .. Capacity /\ memberCount' <= Len(tree')
  BY <1>1, <1>2, RollAssumption
<1>4. QED
  BY <1>2, <1>3 DEF RootsOK

\* An AdmissionAttestation account, whatever its fields hold.
IsAttestation(a) ==
    a \in [parrain : Commitments \cup {Anonymous}, leafIndex : 0 .. Capacity, leafEpoch : Nat]

LEMMA ConfirmedRecord ==
    ASSUME NEW a, IsAttestation(a), NEW j, NEW e
    PROVE  [a EXCEPT !.leafIndex = j, !.leafEpoch = e]
               = [parrain |-> a.parrain, leafIndex |-> j, leafEpoch |-> e]
<1> DEFINE b == [a EXCEPT !.leafIndex = j]
<1>1. b = [parrain |-> a.parrain, leafIndex |-> j, leafEpoch |-> a.leafEpoch]
  BY DEF IsAttestation
<1>2. /\ b \in [parrain : Commitments \cup {Anonymous}, leafIndex : {j}, leafEpoch : Nat]
      /\ b.parrain = a.parrain /\ b.leafIndex = j
  BY <1>1 DEF IsAttestation
<1>3. [a EXCEPT !.leafIndex = j, !.leafEpoch = e] = [b EXCEPT !.leafEpoch = e]
  OBVIOUS
<1> HIDE DEF b
<1>4. [b EXCEPT !.leafEpoch = e] = [parrain |-> b.parrain, leafIndex |-> b.leafIndex, leafEpoch |-> e]
  BY <1>2
<1>5. QED
  BY <1>2, <1>3, <1>4

\* A confirmation plants a commitment that was behind the glass: if it is a leaf
\* already, its membership was revoked (confirm_admission.rs:50-86).
LEMMA ConfirmStep ==
    ASSUME RollInv, NEW w, NEW c \in Commitments, ConfirmAdmission(w, c)
    PROVE  RollInv'
<1> USE RollAssumption
<1>1. /\ c \in DOMAIN members /\ c \in provisional /\ c \in DOMAIN attested
      /\ members[c].expiresAt > now
      /\ <<recent.epoch, c>> \notin DOMAIN epochLeaf
      /\ HasRoom /\ tree' = Append(tree, c) /\ memberCount' = memberCount + 1
      /\ recent' = Noted(tree')
      /\ epochLeaf' = Put(epochLeaf, <<recent.epoch, c>>, Len(tree))
      /\ attested' = [attested EXCEPT ![c].leafIndex = Len(tree) + 1, ![c].leafEpoch = recent.epoch]
      /\ provisional' = provisional \ {c}
      /\ UNCHANGED <<members, credential, authority, policy, now, revokedAt>>
  BY DEF ConfirmAdmission, InsertLeaf
<1>2. RollTypeOK /\ recent.startedAt <= now /\ memberCount <= Len(tree)
  BY DEF RollInv, RollShape
<1>3. /\ Grown(tree', c) /\ RingHeld' /\ RootsOK(recent')
      /\ recent'.epoch = recent.epoch /\ recent'.startedAt = recent.startedAt
  BY <1>1, RingGrown
<1>4. Claimed(c)
  BY <1>1, <1>3 DEF Claimed
<1>5. recent.epoch \in Nat /\ Len(tree) \in Nat /\ DOMAIN tree = 1 .. Len(tree)
  BY <1>2, TreeFacts
<1>6. /\ DOMAIN attested' = DOMAIN attested
      /\ \A x \in DOMAIN attested : x # c => attested'[x] = attested[x]
      /\ attested'[c] = [parrain |-> attested[c].parrain, leafIndex |-> Len(tree) + 1,
                         leafEpoch |-> recent.epoch]
      /\ IsPartialMap(attested', Commitments,
             [parrain : Commitments \cup {Anonymous}, leafIndex : 0 .. Capacity, leafEpoch : Nat])
  <2> DEFINE A == [parrain : Commitments \cup {Anonymous}, leafIndex : 0 .. Capacity, leafEpoch : Nat]
  <2>1. attested \in [DOMAIN attested -> A] /\ attested[c] \in A
    BY <1>1, <1>2 DEF RollTypeOK, IsPartialMap
  <2>2. attested' = [attested EXCEPT ![c] = [attested[c] EXCEPT !.leafIndex = Len(tree) + 1,
                                                                !.leafEpoch = recent.epoch]]
    BY <1>1, <2>1
  <2>3. [attested[c] EXCEPT !.leafIndex = Len(tree) + 1, !.leafEpoch = recent.epoch]
            = [parrain |-> attested[c].parrain, leafIndex |-> Len(tree) + 1, leafEpoch |-> recent.epoch]
    <3> DEFINE n == Len(tree) + 1
               e == recent.epoch
    <3> HIDE DEF n, e
    <3>1. [attested[c] EXCEPT !.leafIndex = n, !.leafEpoch = e]
              = [parrain |-> attested[c].parrain, leafIndex |-> n, leafEpoch |-> e]
      <4>1. IsAttestation(attested[c])
        BY <2>1 DEF IsAttestation
      <4>2. QED
        BY <4>1, ConfirmedRecord
    <3>2. QED
      BY <3>1 DEF n, e
  <2>4. [parrain |-> attested[c].parrain, leafIndex |-> Len(tree) + 1, leafEpoch |-> recent.epoch] \in A
    BY <2>1, <1>3, <1>5 DEF Grown
  <2>5. DOMAIN attested \subseteq Commitments
    BY <1>2, TreeFacts
  <2> HIDE DEF A
  <2>6. /\ DOMAIN attested' = DOMAIN attested /\ attested' \in [DOMAIN attested -> A]
        /\ \A x \in DOMAIN attested : x # c => attested'[x] = attested[x]
        /\ attested'[c] = [parrain |-> attested[c].parrain, leafIndex |-> Len(tree) + 1,
                           leafEpoch |-> recent.epoch]
    BY <1>1, <2>1, <2>2, <2>3, <2>4
  <2>7. QED
    BY <2>5, <2>6 DEF IsPartialMap, A
<1>7. /\ \A slot \in DOMAIN epochLeaf' :
            /\ slot \in (0 .. recent'.epoch) \X Commitments
            /\ epochLeaf'[slot] \in 0 .. Capacity - 1
      /\ \A x \in Commitments : <<recent'.epoch, x>> \in DOMAIN epochLeaf' =>
            LET at == epochLeaf'[<<recent'.epoch, x>>] + 1
            IN at \in DOMAIN tree' /\ tree'[at] = x
      /\ \A x : <<recent'.epoch, x>> \in DOMAIN epochLeaf'
                <=> x = c \/ <<recent.epoch, x>> \in DOMAIN epochLeaf
  BY <1>1, <1>4, ClaimFacts
<1>8. /\ tree' \in Seq(Commitments) /\ Len(tree') <= Capacity
      /\ memberCount' \in 0 .. Capacity /\ memberCount' <= Len(tree')
      /\ recent' \in [exists : BOOLEAN, epoch : Nat, startedAt : Times, ring : Seq(Seq(Commitments))]
      /\ Len(recent'.ring) <= RootHistory
  BY <1>1, <1>3, PlantedType DEF RollInv
<1>9. RollShape'
  <2>1. RollTypeOK'
    BY <1>1, <1>2, <1>6, <1>7, <1>8 DEF RollTypeOK
  <2>2. QED
    BY <1>1, <1>2, <1>3, <1>8, <2>1 DEF RollShape
<1>10. Standing'
  <2>1. \A x : StandsGood(x)' <=> StandsGood(x)
    BY <1>1, <1>3 DEF StandsGood
  <2>2. StandsGood(c)
    BY <1>1, <1>2, TreeFacts DEF StandsGood
  <2>3. QED
    BY <1>3, <2>1, <2>2, LeafOldOrNew DEF RollInv, Standing
<1>11. OnTheRoll'
  <2>1. Settles(c)'
    BY <1>1, <1>7 DEF Settles
  <2>2. \A x : Settles(x) => Settles(x)'
    BY <1>1, <1>3, <1>7 DEF Settles
  <2>3. QED
    BY <1>1, <1>3, <2>1, <2>2, LeafOldOrNew DEF RollInv, OnTheRoll
<1>12. LeafOnce'
  <2>1. \A i \in DOMAIN tree : tree[i] = c => c \in DOMAIN revokedAt
    BY <1>1 DEF RollInv, OnTheRoll, Settles
  <2>2. QED
    BY <1>1, <1>3, <2>1, LeafOldOrNew DEF RollInv, LeafOnce
<1>13. BehindGlass'
  BY <1>1 DEF RollInv, BehindGlass
<1>14. attested'[c].leafIndex = Len(tree) + 1 /\ attested'[c].leafEpoch = recent.epoch
  BY <1>6
<1>15. AttestedSoFar'
  <2>1. ASSUME NEW x \in DOMAIN attested PROVE attested'[x].leafEpoch <= recent.epoch
    <3>1. CASE x = c
      BY <3>1, <1>5, <1>14
    <3>2. CASE x # c
      BY <3>2, <1>6 DEF RollInv, AttestedSoFar
    <3>3. QED
      BY <3>1, <3>2
  <2>2. DOMAIN attested' = DOMAIN attested
    BY <1>6
  <2>3. QED
    BY <2>1, <2>2, <1>3 DEF AttestedSoFar
<1>16. ASSUME NEW x \in DOMAIN attested', attested'[x].leafIndex > 0,
              attested'[x].leafEpoch = recent'.epoch
       PROVE  attested'[x].leafIndex \in DOMAIN tree' /\ tree'[attested'[x].leafIndex] = x
  <2>1. CASE x = c
    BY <2>1, <1>3, <1>5, <1>14 DEF Grown
  <2>2. CASE x # c
    BY <2>2, <1>3, <1>5, <1>6, <1>16 DEF RollInv, PinnedPositions, Grown
  <2>3. QED
    BY <2>1, <2>2
<1>17. PinnedPositions'
  BY <1>7, <1>16 DEF PinnedPositions
<1>18. QED
  BY <1>3, <1>9, <1>10, <1>11, <1>12, <1>13, <1>15, <1>17 DEF RollInv

\* A reinsertion plants a member who is from before the epoch and has claimed
\* no place in it, so is no leaf yet (reinsert_member.rs:26-63).
LEMMA ReinsertStep ==
    ASSUME RollInv, NEW c \in Commitments, ReinsertMember(c)
    PROVE  RollInv'
<1> USE RollAssumption
<1>1. /\ c \in DOMAIN members /\ c \notin provisional
      /\ members[c].expiresAt > now /\ members[c].issuedAt < recent.startedAt
      /\ <<recent.epoch, c>> \notin DOMAIN epochLeaf
      /\ HasRoom /\ tree' = Append(tree, c) /\ memberCount' = memberCount + 1
      /\ recent' = Noted(tree')
      /\ epochLeaf' = Put(epochLeaf, <<recent.epoch, c>>, Len(tree))
      /\ UNCHANGED <<members, provisional, attested, credential, authority, policy, now, revokedAt>>
  BY DEF ReinsertMember, Reinserted, InsertLeaf, InEpoch, Live, Predates, Unclaimed
<1>2. RollTypeOK /\ recent.startedAt <= now /\ memberCount <= Len(tree)
  BY DEF RollInv, RollShape
<1>3. /\ Grown(tree', c) /\ RingHeld' /\ RootsOK(recent')
      /\ recent'.epoch = recent.epoch /\ recent'.startedAt = recent.startedAt
  BY <1>1, RingGrown
<1>4. Claimed(c)
  BY <1>1, <1>3 DEF Claimed
<1>5. recent.epoch \in Nat /\ Len(tree) \in Nat /\ DOMAIN tree = 1 .. Len(tree)
  BY <1>2, TreeFacts
<1>7. /\ \A slot \in DOMAIN epochLeaf' :
            /\ slot \in (0 .. recent'.epoch) \X Commitments
            /\ epochLeaf'[slot] \in 0 .. Capacity - 1
      /\ \A x \in Commitments : <<recent'.epoch, x>> \in DOMAIN epochLeaf' =>
            LET at == epochLeaf'[<<recent'.epoch, x>>] + 1
            IN at \in DOMAIN tree' /\ tree'[at] = x
      /\ \A x : <<recent'.epoch, x>> \in DOMAIN epochLeaf'
                <=> x = c \/ <<recent.epoch, x>> \in DOMAIN epochLeaf
  BY <1>1, <1>4, ClaimFacts
<1>8. /\ tree' \in Seq(Commitments) /\ Len(tree') <= Capacity
      /\ memberCount' \in 0 .. Capacity /\ memberCount' <= Len(tree')
      /\ recent' \in [exists : BOOLEAN, epoch : Nat, startedAt : Times, ring : Seq(Seq(Commitments))]
      /\ Len(recent'.ring) <= RootHistory
  BY <1>1, <1>3, PlantedType DEF RollInv
<1>9. RollShape'
  <2>1. RollTypeOK'
    BY <1>1, <1>2, <1>7, <1>8 DEF RollTypeOK
  <2>2. QED
    BY <1>1, <1>2, <1>3, <1>8, <2>1 DEF RollShape
<1>10. Standing'
  <2>1. \A x : StandsGood(x)' <=> StandsGood(x)
    BY <1>1, <1>3 DEF StandsGood
  <2>2. StandsGood(c)
    BY <1>1, <1>2, TreeFacts DEF StandsGood
  <2>3. QED
    BY <1>3, <2>1, <2>2, LeafOldOrNew DEF RollInv, Standing
<1>11. OnTheRoll'
  <2>1. Settles(c)'
    BY <1>1, <1>7 DEF Settles
  <2>2. \A x : Settles(x) => Settles(x)'
    BY <1>1, <1>3, <1>7 DEF Settles
  <2>3. QED
    BY <1>1, <1>3, <2>1, <2>2, LeafOldOrNew DEF RollInv, OnTheRoll
<1>12. LeafOnce'
  <2>1. \A i \in DOMAIN tree : tree[i] = c => c \in DOMAIN revokedAt
    BY <1>1, <1>2, TreeFacts DEF RollInv, OnTheRoll, Settles
  <2>2. QED
    BY <1>1, <1>3, <2>1, LeafOldOrNew DEF RollInv, LeafOnce
<1>13. BehindGlass' /\ AttestedSoFar'
  BY <1>1, <1>3 DEF RollInv, BehindGlass, AttestedSoFar
<1>14. PinnedPositions'
  <2>1. ASSUME NEW x \in DOMAIN attested, attested[x].leafIndex > 0,
               attested[x].leafEpoch = recent.epoch
        PROVE  attested[x].leafIndex \in DOMAIN tree' /\ tree'[attested[x].leafIndex] = x
    <3>1. attested[x].leafIndex \in DOMAIN tree /\ tree[attested[x].leafIndex] = x
      BY <2>1 DEF RollInv, PinnedPositions
    <3>2. QED
      BY <3>1, <1>3, LeafOldOrNew
  <2>2. QED
    BY <2>1, <1>1, <1>3, <1>7 DEF PinnedPositions
<1>15. QED
  BY <1>3, <1>9, <1>10, <1>11, <1>12, <1>13, <1>14 DEF RollInv

\* Renewal only ever moves an expiry on (renew_membership.rs:24-40).
LEMMA RenewStep ==
    ASSUME RollInv, NEW c \in Commitments, RenewMembership(c)
    PROVE  RollInv'
<1> USE RollAssumption
<1> DEFINE base == IF members[c].expiresAt > now THEN members[c].expiresAt ELSE now
           M == [issuedAt : Times, expiresAt : Times]
<1>1. /\ c \in DOMAIN members /\ base + Period <= MaxTime
      /\ members' = [members EXCEPT ![c].expiresAt = base + Period]
      /\ UNCHANGED <<provisional, attested, tree, memberCount, recent, epochLeaf,
                     credential, authority, policy, now, revokedAt>>
  BY DEF RenewMembership
<1>2. RollTypeOK /\ recent.startedAt \in Nat
  BY TreeFacts DEF RollInv, RollShape
<1>3. base \in Nat /\ base >= members[c].expiresAt /\ members[c].expiresAt \in Nat
      /\ base + Period \in Times
  BY <1>1, <1>2, TreeFacts DEF Times
<1>4. members \in [DOMAIN members -> M] /\ DOMAIN members \subseteq Commitments
  BY <1>2 DEF RollTypeOK, IsPartialMap
<1> HIDE DEF base
<1>5. /\ DOMAIN members' = DOMAIN members /\ members' \in [DOMAIN members -> M]
      /\ \A x \in DOMAIN members : x # c => members'[x] = members[x]
      /\ members'[c].issuedAt = members[c].issuedAt /\ members'[c].expiresAt = base + Period
  BY <1>1, <1>3, <1>4
<1>6. RollShape'
  <2>1. IsPartialMap(members', Commitments, M)
    BY <1>4, <1>5 DEF IsPartialMap
  <2>2. RollTypeOK'
    BY <1>1, <1>2, <2>1 DEF RollTypeOK
  <2>3. QED
    BY <1>1, <2>2 DEF RollInv, RollShape
<1>7. \A x : StandsGood(x) => StandsGood(x)'
  BY <1>1, <1>2, <1>3, <1>5 DEF StandsGood
<1>8. \A x : Settles(x) => Settles(x)'
  BY <1>1, <1>5 DEF Settles
<1>9. RingHeld'
  BY <1>1, RingStill DEF RollInv
<1>10. QED
  BY <1>1, <1>5, <1>6, <1>7, <1>8, <1>9
  DEF RollInv, Standing, OnTheRoll, BehindGlass, LeafOnce, AttestedSoFar, PinnedPositions

\* Revocation closes the membership alone; what stays behind in the tree is
\* marked as revoked in this epoch (revoke_membership.rs:17-32).
LEMMA RevokeStep ==
    ASSUME RollInv, NEW w, NEW c \in Commitments, RevokeMembership(w, c)
    PROVE  RollInv'
<1> USE RollAssumption
<1> DEFINE M == [issuedAt : Times, expiresAt : Times]
<1>1. /\ c \in DOMAIN members /\ members' = Drop(members, c)
      /\ memberCount' = IF memberCount = 0 THEN 0 ELSE memberCount - 1
      /\ revokedAt' = Put(revokedAt, c, now)
      /\ UNCHANGED <<provisional, attested, tree, recent, epochLeaf, credential, authority, policy, now>>
  BY DEF RevokeMembership
<1>2. /\ RollTypeOK /\ recent.startedAt <= now /\ memberCount <= Len(tree)
  BY DEF RollInv, RollShape
<1>3. /\ IsPartialMap(members, Commitments, M) /\ IsPartialMap(revokedAt, Commitments, Times)
      /\ now \in Times /\ memberCount \in 0 .. Capacity
  BY <1>2 DEF RollTypeOK
<1> HIDE DEF M
<1>4. /\ IsPartialMap(members', Commitments, M) /\ DOMAIN members' = DOMAIN members \ {c}
      /\ \A x \in DOMAIN members' : members'[x] = members[x]
  BY <1>1, <1>3 DEF IsPartialMap, Drop
<1>5. /\ DOMAIN revokedAt' = DOMAIN revokedAt \cup {c} /\ revokedAt'[c] = now
      /\ \A x \in DOMAIN revokedAt : x # c => revokedAt'[x] = revokedAt[x]
  BY <1>1 DEF Put
<1>6. IsPartialMap(revokedAt', Commitments, Times)
  BY <1>1, <1>3, PutTyped
<1>7. memberCount' \in 0 .. Capacity /\ memberCount' <= memberCount
  BY <1>1, <1>3
<1>8. RollShape'
  <2>1. RollTypeOK'
    BY <1>1, <1>2, <1>4, <1>6, <1>7 DEF RollTypeOK, M
  <2>2. memberCount' <= Len(tree)
    BY <1>2, <1>3, <1>7, TreeFacts
  <2>3. QED
    BY <1>1, <1>2, <2>1, <2>2 DEF RollShape
<1>9. \A x : StandsGood(x) => StandsGood(x)'
  BY <1>1, <1>2, <1>4, <1>5 DEF StandsGood
<1>10. \A x : Settles(x) /\ x # c => Settles(x)'
  BY <1>1, <1>4 DEF Settles
<1>11. RingHeld'
  BY <1>1, RingStill DEF RollInv
<1>12. QED
  BY <1>1, <1>4, <1>5, <1>8, <1>9, <1>10, <1>11
  DEF RollInv, Standing, OnTheRoll, BehindGlass, LeafOnce, AttestedSoFar, PinnedPositions

\* A root that is noted is the tree as it stands (note_root.rs:28-49).
LEMMA NoteStep ==
    ASSUME RollInv, NoteRoot
    PROVE  RollInv'
<1>1. /\ recent' = Noted(tree)
      /\ UNCHANGED <<members, provisional, attested, tree, memberCount,
                     epochLeaf, credential, authority, policy, now, revokedAt>>
  BY DEF NoteRoot
<1>2. RollTypeOK /\ tree \in Seq(Commitments) /\ Len(tree) \in Nat
  BY TreeFacts DEF RollInv, RollShape
<1> DEFINE r == recent'
<1>3. r = Noted(tree)
  BY <1>1
<1> HIDE DEF r
<1>4. RootsOK(r) /\ NowIn(r, tree)
  BY <1>2, <1>3, NotedFacts
<1>5. RootsOK(recent') /\ NowIn(recent', tree)
  BY <1>4 DEF r
<1>6. Earlier(tree, tree)
  BY <1>2 DEF Earlier
<1>7. RingHeld'
  BY <1>1, <1>5, <1>6 DEF RollInv, RingHeld, NowIn
<1>8. RollShape'
  <2>1. RollTypeOK'
    BY <1>1, <1>2, <1>5 DEF RollTypeOK, RootsOK, NowIn
  <2>2. QED
    BY <1>1, <1>5, <2>1 DEF RollInv, RollShape, NowIn
<1>9. QED
  BY <1>1, <1>5, <1>7, <1>8 DEF NowIn, RollInv, Standing, StandsGood, OnTheRoll, Settles, BehindGlass,
                                LeafOnce, AttestedSoFar, PinnedPositions

\* A rebuild starts from an empty tree and a slot for nobody
\* (begin_member_epoch.rs:46-70).
LEMMA BeginStep ==
    ASSUME RollInv, NEW p \in EpochProposals, BeginMemberEpoch(p)
    PROVE  RollInv'
<1> USE RollAssumption
<1>1. /\ authority' = [authority EXCEPT ![p] = "drained"]
      /\ tree' = <<>> /\ memberCount' = 0
      /\ recent' = [exists |-> TRUE, epoch |-> recent.epoch + 1,
                    startedAt |-> now, ring |-> Push(<<>>, <<>>)]
      /\ UNCHANGED <<members, provisional, attested, epochLeaf, credential, policy, now, revokedAt>>
  BY DEF BeginMemberEpoch
<1>2. RollTypeOK /\ recent.epoch \in Nat /\ now \in Times
  BY TreeFacts DEF RollInv, RollShape, RollTypeOK
<1>3. /\ tree' \in Seq(Commitments) /\ Len(tree') = 0 /\ DOMAIN tree' = {}
  <2>1. <<>> \in Seq(Commitments) /\ Len(<<>>) = 0 /\ DOMAIN <<>> = 1 .. 0
    BY EmptySeq, LenProperties
  <2>2. QED
    BY <1>1, <2>1
<1> DEFINE none == <<>>
           root == <<>>
<1>4. none \in Seq(Seq(Commitments)) /\ Len(none) = 0 /\ root \in Seq(Commitments)
      /\ DOMAIN none = {} /\ Len(root) = 0
  BY EmptySeq
<1>5. recent'.ring = Push(none, root) /\ recent'.epoch = recent.epoch + 1 /\ recent'.startedAt = now
  BY <1>1
<1> HIDE DEF none, root
<1>6. /\ Push(none, root) \in Seq(Seq(Commitments)) /\ Len(Push(none, root)) <= RootHistory
      /\ \A k \in DOMAIN Push(none, root) :
            Push(none, root)[k] = root \/ \E j \in DOMAIN none : Push(none, root)[k] = none[j]
  <2>1. Len(none) <= RootHistory
    BY <1>4
  <2>2. QED
    BY <1>4, <2>1, PushFacts
<1>7. Earlier(root, tree')
  BY <1>3, <1>4 DEF Earlier
<1>8. RingHeld'
  BY <1>4, <1>5, <1>6, <1>7 DEF RingHeld
<1>9. RootsOK(recent')
  BY <1>1, <1>2, <1>5, <1>6 DEF RootsOK, none, root
<1>10. authority' \in [EpochProposals -> {"voting", "executed", "drained"}]
  BY <1>1, <1>2 DEF RollTypeOK
<1>11. \A slot \in DOMAIN epochLeaf : slot \in (0 .. recent.epoch) \X Commitments
  BY <1>2 DEF RollTypeOK
<1>12. \A x : <<recent.epoch + 1, x>> \notin DOMAIN epochLeaf
  BY <1>2, <1>11
<1>13. \A slot \in DOMAIN epochLeaf : slot \in (0 .. recent.epoch + 1) \X Commitments
  BY <1>2, <1>11
<1>14. RollTypeOK'
  BY <1>1, <1>2, <1>3, <1>5, <1>9, <1>10, <1>13 DEF RollTypeOK, RootsOK
<1>15. RollShape'
  BY <1>1, <1>2, <1>3, <1>5, <1>14 DEF RollShape, Times
<1>16. \A c \in DOMAIN attested : attested[c].leafEpoch \in Nat /\ attested[c].leafEpoch <= recent.epoch
  BY <1>2, TreeFacts DEF RollInv, AttestedSoFar
<1>17. AttestedSoFar' /\ PinnedPositions'
  BY <1>1, <1>2, <1>5, <1>12, <1>16 DEF AttestedSoFar, PinnedPositions
<1>18. Standing' /\ OnTheRoll' /\ LeafOnce' /\ BehindGlass'
  BY <1>1, <1>3 DEF RollInv, Standing, OnTheRoll, LeafOnce, BehindGlass
<1>19. QED
  BY <1>8, <1>15, <1>17, <1>18 DEF RollInv

LEMMA RollInvInit == Init => RollInv
<1> USE RollAssumption
<1> SUFFICES ASSUME Init PROVE RollInv
  OBVIOUS
<1>1. /\ members = EmptyMap /\ provisional = {} /\ attested = EmptyMap
      /\ tree = <<>> /\ memberCount = 0 /\ recent = NoRoots /\ epochLeaf = EmptyMap
      /\ credential = [h \in Humans |-> "none"]
      /\ authority = [p \in EpochProposals |-> "voting"]
      /\ policy = [twoSponsor |-> FALSE, open |-> FALSE, personhood |-> FALSE]
      /\ now = 0 /\ revokedAt = EmptyMap
  BY DEF Init
<1>2. /\ tree \in Seq(Commitments) /\ Len(tree) = 0 /\ DOMAIN tree = {}
  <2>1. <<>> \in Seq(Commitments) /\ Len(<<>>) = 0 /\ DOMAIN <<>> = 1 .. 0
    BY EmptySeq, LenProperties
  <2>2. QED
    BY <1>1, <2>1
<1>3. recent.ring \in Seq(Seq(Commitments)) /\ Len(recent.ring) = 0 /\ DOMAIN recent.ring = {}
  <2>1. recent.ring = <<>>
    BY <1>1 DEF NoRoots
  <2>2. <<>> \in Seq(Seq(Commitments)) /\ Len(<<>>) = 0 /\ DOMAIN <<>> = 1 .. 0
    BY EmptySeq, LenProperties
  <2>3. QED
    BY <2>1, <2>2
<1>4. /\ DOMAIN EmptyMap = {}
      /\ \A S, T : IsPartialMap(EmptyMap, S, T)
  BY DEF EmptyMap, IsPartialMap
<1>5. recent \in [exists : BOOLEAN, epoch : Nat, startedAt : Times, ring : Seq(Seq(Commitments))]
      /\ recent.epoch = 0 /\ recent.startedAt = 0
  BY <1>1, <1>3 DEF NoRoots, Times
<1>6. RollTypeOK
  BY <1>1, <1>2, <1>3, <1>4, <1>5 DEF RollTypeOK, Times
<1>7. RollShape
  BY <1>1, <1>2, <1>5, <1>6 DEF RollShape
<1>8. QED
  BY <1>1, <1>2, <1>3, <1>4, <1>5, <1>7
  DEF RollInv, RingHeld, Standing, OnTheRoll, BehindGlass, LeafOnce, AttestedSoFar, PinnedPositions

LEMMA RollInvStep == RollInv /\ [RollNext]_rollVars => RollInv'
<1> USE RollAssumption
<1> SUFFICES ASSUME RollInv, [RollNext]_rollVars PROVE RollInv'
  OBVIOUS
<1>1. RollTypeOK /\ now \in Nat /\ now <= MaxTime
  BY TreeFacts DEF RollInv, RollShape
<1>2. ASSUME NEW p, Adopt(p) PROVE RollInv'
  <2>1. /\ p \in Policies /\ policy' = p
        /\ UNCHANGED <<members, provisional, attested, tree, memberCount, recent,
                       epochLeaf, credential, authority, now, revokedAt>>
    BY <1>2 DEF Adopt
  <2>2. RollTypeOK'
    BY <1>1, <2>1 DEF RollTypeOK
  <2>3. QED
    BY <1>1, <2>1, <2>2, QuietStep
<1>3. ASSUME NEW seat \in Servants, NEW b \in BOOLEAN,
             SetTwoSponsorAdmission(seat, b) \/ SetOpenMembership(seat, b) \/ SetPersonhood(seat, b)
      PROVE  RollInv'
  BY <1>2, <1>3 DEF SetTwoSponsorAdmission, SetOpenMembership, SetPersonhood
<1>4. ASSUME NEW h \in Humans, ProvePersonhood(h) PROVE RollInv'
  <2>1. /\ credential' = [credential EXCEPT ![h] = "unused"]
        /\ UNCHANGED <<members, provisional, attested, tree, memberCount, recent,
                       epochLeaf, authority, policy, now, revokedAt>>
    BY <1>4 DEF ProvePersonhood
  <2>2. RollTypeOK'
    BY <1>1, <2>1 DEF RollTypeOK
  <2>3. QED
    BY <1>1, <2>1, <2>2, QuietStep
<1>5. ASSUME NEW p \in EpochProposals, AuthoriseEpoch(p) PROVE RollInv'
  <2>1. /\ authority' = [authority EXCEPT ![p] = "executed"]
        /\ UNCHANGED <<members, provisional, attested, tree, memberCount, recent,
                       epochLeaf, credential, policy, now, revokedAt>>
    BY <1>5 DEF AuthoriseEpoch
  <2>2. RollTypeOK'
    BY <1>1, <2>1 DEF RollTypeOK
  <2>3. QED
    BY <1>1, <2>1, <2>2, QuietStep
<1>6. CASE Tick
  <2>1. /\ now < MaxTime /\ now' = now + 1
        /\ UNCHANGED <<members, provisional, attested, tree, memberCount, recent,
                       epochLeaf, credential, authority, policy, revokedAt>>
    BY <1>6 DEF Tick
  <2>2. RollTypeOK'
    BY <1>1, <2>1 DEF RollTypeOK, Times
  <2>3. QED
    BY <1>1, <2>1, <2>2, QuietStep
<1>7. CASE UNCHANGED rollVars
  <2>1. UNCHANGED <<members, provisional, attested, tree, memberCount, recent,
                    epochLeaf, credential, authority, policy, now, revokedAt>>
    BY <1>7 DEF rollVars
  <2>2. RollTypeOK'
    BY <1>1, <2>1 DEF RollTypeOK
  <2>3. QED
    BY <1>1, <2>1, <2>2, QuietStep
<1>8. ASSUME NEW w \in Wallets, NEW c \in Commitments, IssueMembership(w, c) PROVE RollInv'
  BY <1>8, IssueStep
<1>9. ASSUME NEW w \in Wallets, NEW c \in Commitments, RevokeMembership(w, c) PROVE RollInv'
  BY <1>9, RevokeStep
<1>10. ASSUME NEW w \in Wallets, NEW c \in Commitments, ConfirmAdmission(w, c) PROVE RollInv'
  BY <1>10, ConfirmStep
<1>11. ASSUME NEW c \in Commitments, NEW d \in Commitments, AttestAdmission(c, d) \/ AttestAdmissionZk(c, d)
       PROVE  RollInv'
  BY <1>11, AttestStep DEF AttestAdmission, AttestAdmissionZk
<1>12. ASSUME NEW c \in Commitments, IssueProvisionalMembership(c) PROVE RollInv'
  BY <1>12, ProvisionalStep
<1>13. ASSUME NEW c \in Commitments, RenewMembership(c) PROVE RollInv'
  BY <1>13, RenewStep
<1>14. ASSUME NEW c \in Commitments, ReinsertMember(c) PROVE RollInv'
  BY <1>14, ReinsertStep
<1>15. ASSUME NEW p \in EpochProposals, BeginMemberEpoch(p) PROVE RollInv'
  BY <1>15, BeginStep
<1>16. QED
  BY <1>3, <1>4, <1>5, <1>6, <1>7, <1>8, <1>9, <1>10, <1>11, <1>12, <1>13, <1>14, <1>15, NoteStep
  DEF RollNext

\* The invariant of the membership roll, for every Circle, capacity, ring and clock.
THEOREM RollInvariant == Spec => []RollInv
<1>1. QED
  BY RollInvInit, RollInvStep, PTL DEF Spec

\* circle.member_count never exceeds the leaves of the tree, whatever order
\* admissions, revocations and rebuilds come in, and both keep their widths.
THEOREM CountWithinTreeAlways == Spec => []CountWithinTree
<1>1. RollInv => CountWithinTree
  BY DEF RollInv, RollShape, CountWithinTree
<1>2. QED
  BY RollInvariant, <1>1, PTL

\* No two of the four ways into the tree insert a commitment twice, unless the
\* Secretary revoked its membership once (issue_membership.rs,
\* confirm_admission.rs, reinsert_member.rs).
THEOREM LeafOnceAlways == Spec => []LeafOnce
<1>1. RollInv => LeafOnce
  BY DEF RollInv
<1>2. QED
  BY RollInvariant, <1>1, PTL

\* The positions that are pinned for clients are where the leaf is, through
\* every rebuild (confirm_admission.rs:70-86, reinsert_member.rs:50-63).
THEOREM PinnedPositionsAlways == Spec => []PinnedPositions
<1>1. RollInv => PinnedPositions
  BY DEF RollInv
<1>2. QED
  BY RollInvariant, <1>1, PTL

\* Whoever is provisional is no leaf, so proves nothing and votes on nothing,
\* until some servant confirms, as long as nobody revokes them: any servant but
\* the parrain named in the attestation (confirm_admission.rs:26, 43).
THEOREM GlassHoldsAlways == Spec => []GlassHolds
<1>1. RollInv => GlassHolds
  BY DEF RollInv, OnTheRoll, Settles, GlassHolds, LeavesOf
<1>2. QED
  BY RollInvariant, <1>1, PTL

\* After a rebuild every leaf of every root a proof may be made against, the
\* ring's included, is of a membership that outlived the start of the epoch or
\* was revoked only during it, and each such root is an earlier state of the
\* tree (begin_member_epoch.rs, note_root.rs, reinsert_member.rs).
THEOREM GoodStandingAlways == Spec => []GoodStanding
<1>1. RollInv => GoodStanding
  <2> SUFFICES ASSUME RollInv PROVE GoodStanding
    OBVIOUS
  <2>1. RollTypeOK /\ tree \in Seq(Commitments) /\ Len(tree) \in Nat /\ DOMAIN tree = 1 .. Len(tree)
    BY TreeFacts DEF RollInv, RollShape
  <2>2. ASSUME NEW root \in ProvableRoots
        PROVE  root \in Seq(Commitments) /\ Len(root) \in Nat /\ DOMAIN root = 1 .. Len(root)
               /\ Earlier(root, tree)
    <3>1. CASE root = tree
      BY <3>1, <2>1 DEF Earlier
    <3>2. ASSUME NEW k \in DOMAIN recent.ring, root = recent.ring[k]
          PROVE  root \in Seq(Commitments) /\ Len(root) \in Nat /\ Earlier(root, tree)
      BY <3>2, <2>1, RingType DEF RollInv, RingHeld
    <3>3. root \in Seq(Commitments) /\ Earlier(root, tree)
      BY <3>1, <3>2, <2>1 DEF ProvableRoots, LeavesOf
    <3>4. QED
      BY <3>3, LenProperties
  <2>3. ASSUME NEW root \in ProvableRoots
        PROVE  Len(root) <= Len(tree) /\ root = SubSeq(tree, 1, Len(root))
    <3>1. /\ root \in Seq(Commitments) /\ Len(root) \in Nat /\ Len(root) <= Len(tree)
          /\ \A i \in 1 .. Len(root) : root[i] = tree[i]
      BY <2>2 DEF Earlier
    <3> DEFINE n == Len(root)
               part == SubSeq(tree, 1, n)
    <3>2. \A i \in 1 .. n : tree[i] \in Commitments
      BY <3>1, <2>1, TreeFacts
    <3> HIDE DEF n
    <3>3. n \in Nat /\ Len(root) = n
      BY <3>1 DEF n
    <3>4. /\ part \in Seq(Commitments) /\ Len(part) = (IF 1 <= n THEN n - 1 + 1 ELSE 0)
          /\ \A i \in 1 .. n - 1 + 1 : part[i] = tree[1 + i - 1]
      BY <3>2, <3>3, SubSeqProperties
    <3>5. Len(part) = n
      BY <3>3, <3>4
    <3>6. \A i \in 1 .. n : part[i] = tree[i]
      BY <3>3, <3>4
    <3> HIDE DEF part
    <3>7. \A i \in 1 .. Len(root) : root[i] = part[i]
      BY <3>1, <3>3, <3>6
    <3>8. root = part
      BY <3>1, <3>3, <3>4, <3>5, <3>7, SeqEqual
    <3>9. QED
      BY <3>1, <3>8 DEF part, n
  <2>4. ASSUME recent.epoch > 0, NEW root \in ProvableRoots, NEW c \in LeavesOf(root)
        PROVE  StandsGood(c)
    <3>1. PICK i \in DOMAIN root : c = root[i]
      BY DEF LeavesOf
    <3>2. i \in DOMAIN tree /\ c = tree[i]
      BY <3>1, <2>1, <2>2 DEF Earlier
    <3>3. QED
      BY <2>4, <3>2 DEF RollInv, Standing
  <2>5. QED
    BY <2>3, <2>4 DEF GoodStanding, StandsGood
<1>2. QED
  BY RollInvariant, <1>1, PTL

\* The doors, one step at a time.
LEMMA DoorsAt == RollInv /\ [RollNext]_rollVars => [DoorStep]_rollVars
<1> USE RollAssumption
<1> SUFFICES ASSUME RollInv, RollNext PROVE DoorStep
  OBVIOUS
<1>1. RollTypeOK /\ Len(tree) \in Nat
  BY TreeFacts DEF RollInv, RollShape
<1> DEFINE Spent == \A h \in Humans : credential[h] = "used" => credential'[h] = "used"
<1>2. PersonhoodGate => Spent
  BY <1>1 DEF PersonhoodGate, RollTypeOK
<1>3. UNCHANGED credential => Spent
  OBVIOUS
<1>4. policy.personhood /\ PersonhoodGate
          => \E h \in Humans : credential[h] = "unused" /\ credential'[h] = "used"
  BY <1>1 DEF PersonhoodGate, RollTypeOK
<1> HIDE DEF Spent
<1>5. ASSUME DOMAIN members' \subseteq DOMAIN members, Len(tree') <= Len(tree), Len(tree') \in Nat, Spent
      PROVE  DoorStep
  BY <1>1, <1>5 DEF DoorStep, Spent
<1>6. ASSUME UNCHANGED <<members, tree>>, Spent PROVE DoorStep
  BY <1>1, <1>5, <1>6
<1>7. ASSUME NEW c \in Commitments, HasRoom, tree' = Append(tree, c), UNCHANGED <<members, credential>>,
             policy.twoSponsor => (c \in DOMAIN attested /\ c \in provisional)
                                  \/ (c \in DOMAIN members /\ members[c].issuedAt < recent.startedAt)
      PROVE  DoorStep
  <2>1. Grown(tree', c)
    BY <1>1, <1>7, InsertFacts
  <2>2. Len(tree') = Len(tree) + 1 /\ tree'[Len(tree')] = c
    BY <2>1 DEF Grown
  <2>3. Spent
    BY <1>3, <1>7
  <2>4. QED
    BY <1>7, <2>2, <2>3 DEF DoorStep, Spent
<1>8. ASSUME NEW seat \in Servants, NEW b \in BOOLEAN,
             SetTwoSponsorAdmission(seat, b) \/ SetOpenMembership(seat, b) \/ SetPersonhood(seat, b)
      PROVE  DoorStep
  BY <1>3, <1>6, <1>8 DEF SetTwoSponsorAdmission, SetOpenMembership, SetPersonhood, Adopt
<1>9. ASSUME NEW h \in Humans, ProvePersonhood(h) PROVE DoorStep
  <2>1. Spent
    BY <1>1, <1>9 DEF ProvePersonhood, RollTypeOK, Spent
  <2>2. QED
    BY <1>6, <1>9, <2>1 DEF ProvePersonhood
<1>10. ASSUME NEW w \in Wallets, NEW c \in Commitments, IssueMembership(w, c) PROVE DoorStep
  <2>1. ~policy.twoSponsor /\ PersonhoodGate /\ members' = Put(members, c, NewMembership)
    BY <1>10 DEF IssueMembership
  <2>2. DOMAIN members' = DOMAIN members \cup {c}
    BY <2>1 DEF Put
  <2>3. QED
    BY <1>2, <1>4, <2>1, <2>2 DEF DoorStep, Spent
<1>11. ASSUME NEW c \in Commitments, IssueProvisionalMembership(c) PROVE DoorStep
  <2>1. /\ c \in DOMAIN attested /\ PersonhoodGate /\ members' = Put(members, c, NewMembership)
        /\ provisional' = provisional \cup {c} /\ tree' = tree
    BY <1>11 DEF IssueProvisionalMembership
  <2>2. DOMAIN members' = DOMAIN members \cup {c}
    BY <2>1 DEF Put
  <2>3. QED
    BY <1>1, <1>2, <1>4, <2>1, <2>2 DEF DoorStep, Spent
<1>12. ASSUME NEW w \in Wallets, NEW c \in Commitments, ConfirmAdmission(w, c) PROVE DoorStep
  BY <1>7, <1>12 DEF ConfirmAdmission, InsertLeaf
<1>13. ASSUME NEW c \in Commitments, ReinsertMember(c) PROVE DoorStep
  BY <1>7, <1>13 DEF ReinsertMember, Reinserted, InsertLeaf, InEpoch, Predates
<1>14. ASSUME NEW w \in Wallets, NEW c \in Commitments, RevokeMembership(w, c) PROVE DoorStep
  <2>1. members' = Drop(members, c) /\ UNCHANGED <<tree, credential>>
    BY <1>14 DEF RevokeMembership
  <2>2. DOMAIN members' \subseteq DOMAIN members
    BY <2>1 DEF Drop
  <2>3. QED
    BY <1>1, <1>3, <1>5, <2>1, <2>2
<1>15. ASSUME NEW c \in Commitments, RenewMembership(c) PROVE DoorStep
  <2>1. UNCHANGED <<tree, credential>> /\ DOMAIN members' = DOMAIN members
    BY <1>15 DEF RenewMembership
  <2>2. QED
    BY <1>1, <1>3, <1>5, <2>1
<1>16. ASSUME NEW c \in Commitments, NEW d \in Commitments, AttestAdmission(c, d) \/ AttestAdmissionZk(c, d)
       PROVE  DoorStep
  BY <1>3, <1>6, <1>16 DEF AttestAdmission, AttestAdmissionZk, Attest
<1>17. ASSUME NEW p \in EpochProposals, AuthoriseEpoch(p) PROVE DoorStep
  BY <1>3, <1>6, <1>17 DEF AuthoriseEpoch
<1>18. ASSUME NEW p \in EpochProposals, BeginMemberEpoch(p) PROVE DoorStep
  <2>1. tree' = <<>> /\ UNCHANGED <<members, credential>>
    BY <1>18 DEF BeginMemberEpoch
  <2>2. Len(tree') = 0
    BY <2>1, EmptySeq
  <2>3. QED
    BY <1>1, <1>3, <1>5, <2>1, <2>2
<1>19. CASE NoteRoot \/ Tick
  BY <1>3, <1>6, <1>19 DEF NoteRoot, Tick
<1>20. QED
  BY <1>8, <1>9, <1>10, <1>11, <1>12, <1>13, <1>14, <1>15, <1>16, <1>17, <1>18, <1>19 DEF RollNext

\* No membership begins and no leaf enters past the policy in force, and a
\* credential that was spent stays spent (issue_membership.rs,
\* issue_provisional_membership.rs, personhood_gate.rs).
THEOREM DoorsHeldAlways == Spec => DoorsHeld
<1>1. QED
  BY RollInvariant, DoorsAt, PTL DEF Spec, DoorsHeld

-----------------------------------------------------------------------------
\* What members vote on changes nothing of the roll, so all of the above holds
\* while ballots are open.
THEOREM VotingIsOutsideTheRoll == VoteSpec => Spec
<1>1. VoteInit => Init
  BY DEF VoteInit
<1>2. [VoteNext]_vars => [RollNext]_rollVars
  <2> SUFFICES ASSUME [VoteNext]_vars, ~(UNCHANGED rollVars) PROVE RollNext
    OBVIOUS
  <2>1. VoteNext
    BY DEF vars
  <2>2. QED
    BY <2>1 DEF VoteNext, RollStep, SetVoteRules, OpenMaciRound, CreateMemberProposal, CastVote,
                Counted, FinalizeMemberProposal
<1>3. QED
  BY <1>1, <1>2, PTL DEF VoteSpec, Spec

-----------------------------------------------------------------------------
(* The ballots.                                                            *)

\* A MemberProposal account, whatever its fields hold.
IsBallot(b) ==
    b = [root |-> b.root, eligible |-> b.eligible, yes |-> b.yes, no |-> b.no,
         deadline |-> b.deadline, finalized |-> b.finalized, passed |-> b.passed,
         spent |-> b.spent]

Tallied(b) ==
    /\ b.yes \in Nat /\ b.no \in Nat
    /\ IsFiniteSet(b.spent) /\ b.yes + b.no = Cardinality(b.spent)
    /\ b.spent \subseteq LeavesOf(b.root)

Decided(b) ==
    b.passed => b.finalized /\ b.yes + b.no >= MinTurnout

Sound(b) == IsBallot(b) /\ Tallied(b) /\ Decided(b)

BallotInv ==
    /\ ballots = [n \in DOMAIN ballots |-> ballots[n]]
    /\ \A n \in DOMAIN ballots : Sound(ballots[n])
    /\ \A n \in sealed : n \in DOMAIN ballots /\ ballots[n].finalized

-----------------------------------------------------------------------------
(* One ballot, before and after.                                           *)

LEMMA OpenedSound ==
    ASSUME NEW root, NEW eligible, NEW deadline
    PROVE  Sound([root |-> root, eligible |-> eligible, yes |-> 0, no |-> 0,
                  deadline |-> deadline, finalized |-> FALSE, passed |-> FALSE,
                  spent |-> {}])
  BY FS_EmptySet DEF Sound, IsBallot, Tallied, Decided

\* One more member, one more vote.
LEMMA VotedSound ==
    ASSUME NEW b, Sound(b), ~b.finalized, NEW c \in LeavesOf(b.root), c \notin b.spent,
           NEW choice \in BOOLEAN,
           NEW a, IsBallot(a), a.root = b.root, a.finalized = b.finalized, a.passed = b.passed,
           a.yes = (IF choice THEN b.yes + 1 ELSE b.yes),
           a.no = (IF choice THEN b.no ELSE b.no + 1),
           a.spent = b.spent \cup {c}
    PROVE  Sound(a)
  <1>1. IsFiniteSet(a.spent) /\ Cardinality(a.spent) = Cardinality(b.spent) + 1
    BY FS_AddElement DEF Sound, Tallied
  <1>2. a.yes \in Nat /\ a.no \in Nat /\ a.yes + a.no = b.yes + b.no + 1
    BY DEF Sound, Tallied
  <1>3. Tallied(a)
    BY <1>1, <1>2 DEF Sound, Tallied
  <1>4. Decided(a)
    BY DEF Sound, Decided
  <1>. QED
    BY <1>3, <1>4 DEF Sound

\* An outcome leaves the tally, and is a pass only of a ballot with enough votes.
LEMMA ClosedSound ==
    ASSUME NEW b, Sound(b), NEW a, IsBallot(a),
           a.root = b.root, a.yes = b.yes, a.no = b.no, a.spent = b.spent,
           a.finalized, a.passed => b.yes + b.no >= MinTurnout
    PROVE  Sound(a)
  BY DEF Sound, Tallied, Decided

-----------------------------------------------------------------------------
(* The steps.                                                              *)

\* What a step leaves alone keeps every promise.
LEMMA Untouched ==
    ASSUME NEW n, NEW b, Sound(b)
    PROVE  Frozen(b, b) /\ VotesStand(b, b) /\ ClosesOneWay(n, b, b)
  BY DEF Sound, Tallied, Frozen, VotesStand, ClosesOneWay

LEMMA CastStep ==
    ASSUME BallotInv, NEW n, NEW c, NEW choice \in BOOLEAN, CastVote(n, c, choice)
    PROVE  BallotInv' /\ BallotStep
  <1>. DEFINE b == ballots[n]
              a == ballots'[n]
  <1>1. /\ n \in DOMAIN ballots /\ ~b.finalized /\ Sound(b)
        /\ c \in LeavesOf(b.root) /\ c \notin b.spent
        /\ now < b.deadline /\ sealed' = sealed
    BY DEF BallotInv, CastVote, Counted
  <1>2. ballots' = [ballots EXCEPT ![n].yes = IF choice THEN @ + 1 ELSE @,
                                   ![n].no = IF choice THEN @ ELSE @ + 1,
                                   ![n].spent = @ \cup {c}]
    BY DEF CastVote, Counted
  <1>3. /\ DOMAIN ballots' = DOMAIN ballots
        /\ ballots' = [m \in DOMAIN ballots' |-> ballots'[m]]
        /\ \A m \in DOMAIN ballots : m # n => ballots'[m] = ballots[m]
    BY <1>2 DEF BallotInv
  <1>4. a = [b EXCEPT !.yes = IF choice THEN @ + 1 ELSE @,
                      !.no = IF choice THEN @ ELSE @ + 1,
                      !.spent = @ \cup {c}]
    BY <1>1, <1>2 DEF BallotInv
  <1>5. /\ IsBallot(a) /\ a.root = b.root /\ a.finalized = b.finalized /\ a.passed = b.passed
        /\ a.eligible = b.eligible /\ a.deadline = b.deadline
        /\ a.yes = (IF choice THEN b.yes + 1 ELSE b.yes)
        /\ a.no = (IF choice THEN b.no ELSE b.no + 1)
        /\ a.spent = b.spent \cup {c}
    <2>1. b = [root |-> b.root, eligible |-> b.eligible, yes |-> b.yes, no |-> b.no,
               deadline |-> b.deadline, finalized |-> b.finalized, passed |-> b.passed,
               spent |-> b.spent]
      BY <1>1 DEF Sound, IsBallot
    <2>. HIDE DEF a, b
    <2>. QED
      BY <1>4, <2>1 DEF IsBallot
  <1>6. Sound(a)
    <2>. HIDE DEF a, b
    <2>. QED
      BY <1>1, <1>5, VotedSound
  <1>7. BallotInv'
    <2>1. \A m \in DOMAIN ballots' : Sound(ballots'[m])
      BY <1>3, <1>6 DEF BallotInv
    <2>2. \A m \in sealed : m \in DOMAIN ballots' /\ ballots'[m].finalized
      BY <1>1, <1>3 DEF BallotInv
    <2>. QED
      BY <1>1, <1>3, <2>1, <2>2 DEF BallotInv
  <1>8. /\ Frozen(b, a) /\ VotesStand(b, a) /\ ClosesOneWay(n, b, a)
    <2>1. b.yes \in Nat /\ b.no \in Nat
      BY <1>1 DEF Sound, Tallied
    <2>2. b.yes <= a.yes /\ b.no <= a.no
      BY <1>5, <2>1
    <2>. HIDE DEF a, b
    <2>. QED
      BY <1>1, <1>5, <2>2 DEF Frozen, VotesStand, ClosesOneWay
  <1>9. ASSUME NEW m \in DOMAIN ballots, m # n
        PROVE  /\ Frozen(ballots[m], ballots'[m]) /\ VotesStand(ballots[m], ballots'[m])
               /\ ClosesOneWay(m, ballots[m], ballots'[m])
    BY <1>3, <1>9, Untouched DEF BallotInv
  <1>10. BallotStep
    BY <1>3, <1>8, <1>9 DEF BallotStep
  <1>. QED
    BY <1>7, <1>10

\* Finalizing and sealing write the same two fields.
LEMMA CloseStep ==
    ASSUME BallotInv, NEW n \in DOMAIN ballots, ~ballots[n].finalized, NEW passed \in BOOLEAN,
           passed => ballots[n].yes + ballots[n].no >= MinTurnout,
           ballots' = [ballots EXCEPT ![n].finalized = TRUE, ![n].passed = passed],
           \/ sealed' = sealed /\ now >= ballots[n].deadline
           \/ /\ sealed' = sealed \cup {n} /\ n \notin sealed
              /\ ~passed /\ ballots[n].spent = {}
    PROVE  BallotInv' /\ BallotStep
  <1>. DEFINE b == ballots[n]
              a == ballots'[n]
  <1>1. Sound(b)
    BY DEF BallotInv
  <1>2. /\ DOMAIN ballots' = DOMAIN ballots
        /\ ballots' = [m \in DOMAIN ballots' |-> ballots'[m]]
        /\ \A m \in DOMAIN ballots : m # n => ballots'[m] = ballots[m]
    BY DEF BallotInv
  <1>3. a = [b EXCEPT !.finalized = TRUE, !.passed = passed]
    BY DEF BallotInv
  <1>4. /\ IsBallot(a) /\ a.root = b.root /\ a.yes = b.yes /\ a.no = b.no /\ a.spent = b.spent
        /\ a.eligible = b.eligible /\ a.deadline = b.deadline
        /\ a.finalized = TRUE /\ a.passed = passed
    <2>1. b = [root |-> b.root, eligible |-> b.eligible, yes |-> b.yes, no |-> b.no,
               deadline |-> b.deadline, finalized |-> b.finalized, passed |-> b.passed,
               spent |-> b.spent]
      BY <1>1 DEF Sound, IsBallot
    <2>. HIDE DEF a, b
    <2>. QED
      BY <1>3, <2>1 DEF IsBallot
  <1>5. Sound(a)
    <2>1. b.yes + b.no >= MinTurnout \/ ~passed
      OBVIOUS
    <2>. HIDE DEF a, b
    <2>. QED
      BY <1>1, <1>4, <2>1, ClosedSound
  <1>6. \A m \in sealed' : m \in DOMAIN ballots' /\ ballots'[m].finalized
    BY <1>2, <1>4 DEF BallotInv
  <1>7. BallotInv'
    BY <1>2, <1>5, <1>6 DEF BallotInv
  <1>8. Frozen(b, a) /\ VotesStand(b, a) /\ ClosesOneWay(n, b, a)
    <2>1. n \notin sealed /\ ~b.finalized
      BY DEF BallotInv
    <2>2. b.yes <= a.yes /\ b.no <= a.no
      BY <1>1, <1>4 DEF Sound, Tallied
    <2>3. a = [b EXCEPT !.finalized = TRUE, !.passed = a.passed]
      BY <1>3, <1>4
    <2>4. \/ n \notin sealed' /\ now >= b.deadline
          \/ n \in sealed' \ sealed /\ ~a.passed /\ b.spent = {}
      BY <1>4, <2>1
    <2>. HIDE DEF a, b
    <2>. QED
      BY <1>4, <2>1, <2>2, <2>3, <2>4 DEF Frozen, VotesStand, ClosesOneWay
  <1>9. ASSUME NEW m \in DOMAIN ballots, m # n
        PROVE  /\ Frozen(ballots[m], ballots'[m]) /\ VotesStand(ballots[m], ballots'[m])
               /\ ClosesOneWay(m, ballots[m], ballots'[m])
    BY <1>2, <1>9, Untouched DEF BallotInv
  <1>10. BallotStep
    BY <1>2, <1>8, <1>9 DEF BallotStep
  <1>. QED
    BY <1>7, <1>10

LEMMA CreateStep ==
    ASSUME BallotInv, NEW seat, NEW s, NEW n, NEW period, CreateMemberProposal(seat, s, n, period)
    PROVE  BallotInv' /\ BallotStep
  <1>. DEFINE fresh == [root |-> tree, eligible |-> Len(tree), yes |-> 0, no |-> 0,
                        deadline |-> now + period, finalized |-> FALSE, passed |-> FALSE,
                        spent |-> {}]
  <1>1. Sound(fresh)
    BY OpenedSound
  <1>2. n \notin DOMAIN ballots /\ ballots' = Put(ballots, n, fresh) /\ sealed' = sealed
    BY DEF CreateMemberProposal
  <1>. HIDE DEF fresh
  <1>3. /\ DOMAIN ballots' = DOMAIN ballots \cup {n} /\ ballots'[n] = fresh
        /\ ballots' = [m \in DOMAIN ballots' |-> ballots'[m]]
        /\ \A m \in DOMAIN ballots : ballots'[m] = ballots[m]
    BY <1>2 DEF Put
  <1>4. BallotInv'
    BY <1>1, <1>2, <1>3 DEF BallotInv
  <1>5. BallotStep
    BY <1>3, Untouched DEF BallotStep, BallotInv
  <1>. QED
    BY <1>4, <1>5

LEMMA StillStep ==
    ASSUME BallotInv, UNCHANGED <<ballots, sealed>> PROVE BallotInv' /\ BallotStep
  BY Untouched DEF BallotInv, BallotStep

LEMMA VoteStep ==
    BallotInv /\ [VoteNext]_vars => BallotInv' /\ BallotStep
  <1>. SUFFICES ASSUME BallotInv, [VoteNext]_vars PROVE BallotInv' /\ BallotStep
    OBVIOUS
  <1>1. CASE RollStep
    BY <1>1, StillStep DEF RollStep, ballotVars
  <1>2. ASSUME NEW seat \in Servants, NEW r \in RuleChoices, SetVoteRules(seat, r)
        PROVE  BallotInv' /\ BallotStep
    BY <1>2, StillStep DEF SetVoteRules
  <1>3. ASSUME NEW seat \in Servants, NEW n \in Nonces, OpenMaciRound(seat, n)
        PROVE  BallotInv' /\ BallotStep
    <2>1. /\ n \in DOMAIN ballots /\ ~ballots[n].finalized /\ n \notin sealed
          /\ ballots[n].yes = 0 /\ ballots[n].no = 0
          /\ sealed' = sealed \cup {n}
          /\ ballots' = [ballots EXCEPT ![n].finalized = TRUE, ![n].passed = FALSE]
      BY <1>3 DEF OpenMaciRound
    <2>2. ballots[n].spent = {}
      BY <2>1, FS_EmptySet DEF BallotInv, Sound, Tallied
    <2>. QED
      BY <2>1, <2>2, CloseStep
  <1>4. ASSUME NEW seat \in Servants, NEW n \in Nonces,
               NEW s \in ParentServants \cup {NoCosigner}, NEW p \in VotingPeriods,
               CreateMemberProposal(seat, s, n, p)
        PROVE  BallotInv' /\ BallotStep
    BY <1>4, CreateStep
  <1>5. ASSUME NEW n \in Nonces, NEW c \in Commitments, NEW choice \in BOOLEAN,
               CastVote(n, c, choice)
        PROVE  BallotInv' /\ BallotStep
    BY <1>5, CastStep
  <1>6. ASSUME NEW n \in Nonces, FinalizeMemberProposal(n)
        PROVE  BallotInv' /\ BallotStep
    <2>. DEFINE passed == Outcome(ballots[n], rules)
    <2>1. /\ n \in DOMAIN ballots /\ ~ballots[n].finalized
          /\ ballots' = [ballots EXCEPT ![n].finalized = TRUE, ![n].passed = passed]
          /\ sealed' = sealed /\ now >= ballots[n].deadline
      BY <1>6 DEF FinalizeMemberProposal
    <2>2. passed \in BOOLEAN
      BY DEF Outcome
    <2>3. passed => ballots[n].yes + ballots[n].no >= MinTurnout
      BY DEF Outcome
    <2>. HIDE DEF passed
    <2>. QED
      BY <2>1, <2>2, <2>3, CloseStep
  <1>7. CASE UNCHANGED vars
    BY <1>7, StillStep DEF vars, ballotVars
  <1>. QED
    BY <1>1, <1>2, <1>3, <1>4, <1>5, <1>6, <1>7 DEF VoteNext

LEMMA VoteStart == VoteInit => BallotInv
  BY DEF VoteInit, BallotInv, EmptyMap

-----------------------------------------------------------------------------

\* The counters of a ballot add up to the members whose nullifiers were spent
\* on it, and these stand in the tree the ballot was opened on (cast_vote.rs).
THEOREM BallotsSound == VoteSpec => []BallotInv
  <1>. QED
    BY VoteStart, VoteStep, PTL DEF VoteSpec

\* A passed proposal had at least two different voters of its snapshot, under
\* whatever quorum and pass share the seats had set by then.
THEOREM NoLoneConscienceAlways == VoteSpec => []NoLoneConscience
  <1>1. BallotInv => NoLoneConscience
    <2>. SUFFICES ASSUME BallotInv, NEW n \in DOMAIN ballots, ballots[n].passed
                  PROVE  Cardinality(ballots[n].spent \cap LeavesOf(ballots[n].root)) > 1
      BY DEF NoLoneConscience
    <2>1. Sound(ballots[n])
      BY DEF BallotInv
    <2>2. ballots[n].spent \cap LeavesOf(ballots[n].root) = ballots[n].spent
      BY <2>1 DEF Sound, Tallied
    <2>3. Cardinality(ballots[n].spent) >= MinTurnout
      BY <2>1 DEF Sound, Tallied, Decided
    <2>4. MinTurnout \in Nat /\ MinTurnout > 1
      BY VoteAssumption
    <2>5. Cardinality(ballots[n].spent) \in Nat
      BY <2>1, FS_CardinalityType DEF Sound, Tallied
    <2>6. Cardinality(ballots[n].spent) > 1
      BY <2>3, <2>4, <2>5
    <2>. QED
      BY <2>2, <2>6
  <1>. QED
    BY <1>1, BallotsSound, PTL

\* The electorate and the deadline of a ballot never change, a vote is never
\* taken back and none comes in late; it closes once, at its deadline by its own
\* votes or, before anybody voted, not passed and sealed, and then nothing of it
\* changes (cast_vote.rs, finalize_member_proposal.rs, open_maci_round.rs).
THEOREM BallotsFinalAlways == VoteSpec => BallotsFinal
  <1>1. BallotInv /\ [VoteNext]_vars => [BallotStep]_vars
    BY VoteStep
  <1>. QED
    BY <1>1, BallotsSound, PTL DEF VoteSpec, BallotsFinal

-----------------------------------------------------------------------------
(* What the accounts of a ballot hold, over the roll.                      *)

BallotsTyped ==
    /\ IsPartialMap(ballots, Nonces, Ballot)
    /\ rules \in RuleChoices \cup {DefaultRules}
    /\ sealed \subseteq DOMAIN ballots

VoteInv == RollInv /\ BallotInv /\ BallotsTyped

\* A vote, and an outcome, keep the widths of the account they change.
LEMMA BallotChanged ==
    ASSUME BallotsTyped, NEW n \in DOMAIN ballots, NEW b \in Ballot,
           ballots' = [ballots EXCEPT ![n] = b]
    PROVE  IsPartialMap(ballots', Nonces, Ballot) /\ DOMAIN ballots' = DOMAIN ballots
BY DEF BallotsTyped, IsPartialMap

LEMMA VotedType ==
    ASSUME NEW b \in Ballot, NEW c \in Commitments, NEW choice \in BOOLEAN
    PROVE  [b EXCEPT !.yes = IF choice THEN @ + 1 ELSE @,
                     !.no = IF choice THEN @ ELSE @ + 1,
                     !.spent = @ \cup {c}] \in Ballot
<1> DEFINE y == IF choice THEN b.yes + 1 ELSE b.yes
           z == IF choice THEN b.no ELSE b.no + 1
           s == b.spent \cup {c}
<1>1. y \in Nat /\ z \in Nat /\ s \in SUBSET Commitments
  BY DEF Ballot
<1> HIDE DEF y, z, s
<1>2. [b EXCEPT !.yes = y, !.no = z, !.spent = s] \in Ballot
  BY <1>1 DEF Ballot
<1>3. QED
  BY <1>2 DEF y, z, s

LEMMA ClosedType ==
    ASSUME NEW b \in Ballot, NEW passed \in BOOLEAN
    PROVE  [b EXCEPT !.finalized = TRUE, !.passed = passed] \in Ballot
BY DEF Ballot

LEMMA BallotsTypedStep ==
    ASSUME RollInv, BallotsTyped, [VoteNext]_vars
    PROVE  BallotsTyped'
<1> USE RollAssumption
<1>1. \A n \in DOMAIN ballots : n \in Nonces /\ ballots[n] \in Ballot
  BY DEF BallotsTyped, IsPartialMap
<1>2. ASSUME NEW n \in DOMAIN ballots, NEW passed \in BOOLEAN, rules' = rules,
             sealed' \subseteq DOMAIN ballots,
             ballots' = [ballots EXCEPT ![n].finalized = TRUE, ![n].passed = passed]
      PROVE  BallotsTyped'
  <2>1. [ballots[n] EXCEPT !.finalized = TRUE, !.passed = passed] \in Ballot
    BY <1>1, ClosedType
  <2>2. ballots' = [ballots EXCEPT ![n] = [ballots[n] EXCEPT !.finalized = TRUE, !.passed = passed]]
    BY <1>2
  <2>3. QED
    BY <1>2, <2>1, <2>2, BallotChanged DEF BallotsTyped
<1>3. ASSUME UNCHANGED <<ballots, sealed>>, rules' = rules \/ rules' \in RuleChoices
      PROVE  BallotsTyped'
  BY <1>3 DEF BallotsTyped
<1>4. ASSUME NEW seat \in Servants, NEW r \in RuleChoices, SetVoteRules(seat, r) PROVE BallotsTyped'
  BY <1>3, <1>4 DEF SetVoteRules
<1>5. ASSUME NEW seat \in Servants, NEW n \in Nonces, OpenMaciRound(seat, n) PROVE BallotsTyped'
  BY <1>2, <1>5 DEF OpenMaciRound, BallotsTyped
<1>6. ASSUME NEW seat \in Servants, NEW n \in Nonces, NEW s \in ParentServants \cup {NoCosigner},
             NEW p \in VotingPeriods, CreateMemberProposal(seat, s, n, p)
      PROVE  BallotsTyped'
  <2> DEFINE new == [root |-> tree, eligible |-> Len(tree), yes |-> 0, no |-> 0,
                     deadline |-> now + p, finalized |-> FALSE, passed |-> FALSE, spent |-> {}]
  <2>1. /\ ballots' = Put(ballots, n, new) /\ now + p <= MaxTime
        /\ UNCHANGED <<rules, sealed>>
    BY <1>6 DEF CreateMemberProposal
  <2>2. /\ tree \in Seq(Commitments) /\ Len(tree) \in 0 .. Capacity /\ now \in Nat
    BY TreeFacts DEF RollInv, RollShape, RollTypeOK
  <2>3. now + p \in Times
    BY <2>1, <2>2, VoteAssumption DEF Times
  <2>4. new \in Ballot
    BY <2>2, <2>3 DEF Ballot
  <2> HIDE DEF new
  <2>5. IsPartialMap(ballots', Nonces, Ballot)
    BY <2>1, <2>4, PutTyped DEF BallotsTyped
  <2>6. DOMAIN ballots \subseteq DOMAIN ballots'
    BY <2>1 DEF Put
  <2>7. QED
    BY <2>1, <2>5, <2>6 DEF BallotsTyped
<1>7. ASSUME NEW n \in Nonces, NEW c \in Commitments, NEW choice \in BOOLEAN, CastVote(n, c, choice)
      PROVE  BallotsTyped'
  <2> DEFINE b == [ballots[n] EXCEPT !.yes = IF choice THEN @ + 1 ELSE @,
                                     !.no = IF choice THEN @ ELSE @ + 1,
                                     !.spent = @ \cup {c}]
  <2>1. n \in DOMAIN ballots /\ ballots' = [ballots EXCEPT ![n] = b] /\ UNCHANGED <<rules, sealed>>
    BY <1>7 DEF CastVote, Counted
  <2>2. b \in Ballot
    BY <1>1, <2>1, VotedType
  <2> HIDE DEF b
  <2>3. QED
    BY <2>1, <2>2, BallotChanged DEF BallotsTyped
<1>8. ASSUME NEW n \in Nonces, FinalizeMemberProposal(n) PROVE BallotsTyped'
  <2> DEFINE passed == Outcome(ballots[n], rules)
  <2>1. /\ n \in DOMAIN ballots /\ UNCHANGED <<rules, sealed>>
        /\ ballots' = [ballots EXCEPT ![n].finalized = TRUE, ![n].passed = passed]
    BY <1>8 DEF FinalizeMemberProposal
  <2>2. passed \in BOOLEAN
    BY DEF Outcome
  <2> HIDE DEF passed
  <2>3. QED
    BY <2>1, <2>2, <1>2 DEF BallotsTyped
<1>9. CASE RollStep \/ UNCHANGED vars
  BY <1>3, <1>9 DEF RollStep, vars, ballotVars
<1>10. QED
  BY <1>4, <1>5, <1>6, <1>7, <1>8, <1>9 DEF VoteNext

\* The roll's invariant, the ballots' and their types hold together of the
\* composed system, in whatever order its handlers run.
THEOREM VoteInvariant == VoteSpec => []VoteInv
<1>1. VoteInit => BallotsTyped
  BY DEF VoteInit, BallotsTyped, IsPartialMap, EmptyMap
<1>2. RollInv /\ BallotsTyped /\ [VoteNext]_vars => BallotsTyped'
  BY BallotsTypedStep
<1>3. VoteSpec => []RollInv
  BY VotingIsOutsideTheRoll, RollInvariant, PTL
<1>4. VoteSpec => []BallotsTyped
  BY <1>1, <1>2, <1>3, PTL DEF VoteSpec
<1>5. QED
  BY <1>3, <1>4, BallotsSound, PTL DEF VoteInv

\* A tally is the number of different members of its snapshot who voted,
\* whatever becomes of them and of the tree while the ballot is open
\* (create_member_proposal.rs, cast_vote.rs).
THEOREM OneMemberOneVoteAlways == VoteSpec => []OneMemberOneVote
<1>1. VoteInv => OneMemberOneVote
  BY DEF VoteInv, RollInv, RollShape, BallotInv, BallotsTyped, Sound, Tallied, OneMemberOneVote, VoteTypeOK
<1>2. QED
  BY VoteInvariant, <1>1, PTL

=============================================================================
