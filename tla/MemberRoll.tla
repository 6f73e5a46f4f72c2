----------------------------- MODULE MemberRoll -----------------------------
(***************************************************************************)
(* The membership roll of one Circle: admission (by the Secretary, by an   *)
(* open door, or by two sponsors), renewal, revocation, the append-only    *)
(* member tree that voting proofs are made against, the ring buffer of its *)
(* recent roots and the epochs that rebuild it (issue_membership.rs,       *)
(* attest_admission*.rs, issue_provisional_membership.rs,                  *)
(* confirm_admission.rs, renew_membership.rs, revoke_membership.rs,        *)
(* note_root.rs, begin_member_epoch.rs, reinsert_member.rs).               *)
(*                                                                         *)
(* A root is the sequence of leaves it commits to: Poseidon is collision   *)
(* free here and no commitment is the zero leaf.                           *)
(***************************************************************************)
EXTENDS Naturals, FiniteSets, Sequences

CONSTANTS
    Commitments,    \* identity commitments that can be members
    Wallets,        \* signers
    KeysOf,         \* owner and guardian keys a commitment is issued with
    Servants,       \* wallets holding a Council seat
    Secretary,      \* the wallet in SEAT_SECRETARY
    Humans,         \* distinct humans of the personhood group
    EpochProposals, \* BeginMemberEpoch proposals the Council may carry
    Newcomers,      \* commitments that sponsors attest (bound)
    Revocable,      \* commitments the Secretary may revoke (bound)
    Policies,       \* admission policies the Circle may take up (bound)
    Capacity,       \* 2^depth leaves
    RootHistory,    \* RecentRoots::N
    Period,         \* circle.membership_period
    Anonymous,      \* the zero parrain of an anonymous attestation
    MaxTime         \* bound on the clock and on every expiry

ASSUME RollAssumption ==
    /\ KeysOf \in [Commitments -> SUBSET Wallets]
    /\ Secretary \in Servants /\ Servants \subseteq Wallets
    /\ Newcomers \subseteq Commitments /\ Revocable \subseteq Commitments
    /\ Policies \subseteq
         [twoSponsor : BOOLEAN, open : BOOLEAN, personhood : BOOLEAN]
    /\ [twoSponsor |-> FALSE, open |-> FALSE, personhood |-> FALSE] \in Policies
    /\ Capacity \in Nat \ {0} /\ RootHistory \in Nat \ {0}
    /\ Period \in Nat \ {0} /\ MaxTime \in Nat
    /\ Anonymous \notin Commitments

VARIABLES
    members,        \* commitment -> its Membership account
    provisional,    \* commitments with an open ProvisionalMember marker
    attested,       \* newcomer -> its AdmissionAttestation account
    tree,           \* leaves of the MemberTree, in insertion order
    memberCount,    \* circle.member_count
    recent,         \* the RecentRoots account
    epochLeaf,      \* <<epoch, commitment>> -> EpochLeaf.leaf_index
    credential,     \* human -> state of its PersonhoodCredential
    authority,      \* BeginMemberEpoch proposal -> how far it has come
    policy,         \* TwoSponsorAdmission, OpenMembership, require_personhood
    now,            \* Clock
    revokedAt       \* history: commitment -> time it was last revoked

rollVars == <<members, provisional, attested, tree, memberCount, recent,
              epochLeaf, credential, authority, policy, now, revokedAt>>

Times == 0 .. MaxTime

Put(f, k, v) == [x \in DOMAIN f \cup {k} |-> IF x = k THEN v ELSE f[x]]
Drop(f, k)   == [x \in DOMAIN f \ {k} |-> f[x]]
EmptyMap     == [x \in {} |-> x]

LeavesOf(root) == {root[i] : i \in DOMAIN root}

-----------------------------------------------------------------------------
(* RecentRoots.  `ring` keeps the written slots, oldest first; `exists` is   *)
(* whether the account has been created.                                    *)

NoRoots == [exists |-> FALSE, epoch |-> 0, startedAt |-> 0, ring |-> <<>>]

Push(ring, root) ==
    IF ring # <<>> /\ ring[Len(ring)] = root
    THEN ring
    ELSE LET grown == Append(ring, root)
         IN IF Len(grown) > RootHistory THEN Tail(grown) ELSE grown

Noted(root) == [recent EXCEPT !.exists = TRUE, !.ring = Push(@, root)]

ProvableRoots == {tree} \cup LeavesOf(recent.ring)

-----------------------------------------------------------------------------
Init ==
    /\ members = EmptyMap /\ provisional = {} /\ attested = EmptyMap
    /\ tree = <<>> /\ memberCount = 0
    /\ recent = NoRoots /\ epochLeaf = EmptyMap
    /\ credential = [h \in Humans |-> "none"]
    /\ authority = [p \in EpochProposals |-> "voting"]
    /\ policy = [twoSponsor |-> FALSE, open |-> FALSE, personhood |-> FALSE]
    /\ now = 0 /\ revokedAt = EmptyMap

(* The policy switches.  Bound: only policies in Policies are taken up. *)
Adopt(p) ==
    /\ p \in Policies /\ p # policy
    /\ policy' = p
    /\ UNCHANGED <<members, provisional, attested, tree, memberCount, recent,
                   epochLeaf, credential, authority, now, revokedAt>>

SetTwoSponsorAdmission(seat, required) ==
    seat \in Servants /\ Adopt([policy EXCEPT !.twoSponsor = required])

SetOpenMembership(seat, open) ==
    seat \in Servants /\ Adopt([policy EXCEPT !.open = open])

SetPersonhood(seat, required) ==
    seat = Secretary /\ Adopt([policy EXCEPT !.personhood = required])

(* One credential per human and Circle: the nullifier PDA is created once. *)
ProvePersonhood(h) ==
    /\ credential[h] = "none"
    /\ credential' = [credential EXCEPT ![h] = "unused"]
    /\ UNCHANGED <<members, provisional, attested, tree, memberCount, recent,
                   epochLeaf, authority, policy, now, revokedAt>>

PersonhoodGate ==
    IF policy.personhood
    THEN \E h \in Humans : /\ credential[h] = "unused"
                           /\ credential' = [credential EXCEPT ![h] = "used"]
    ELSE UNCHANGED credential

NewMembership == [issuedAt |-> now, expiresAt |-> now + Period]

(* Insertion into the member tree, and what every caller does with it. *)
HasRoom == Len(tree) < Capacity

InsertLeaf(c) ==
    /\ HasRoom
    /\ tree' = Append(tree, c)
    /\ memberCount' = memberCount + 1

-----------------------------------------------------------------------------
(* Mutant: the legacy door stays open under two-sponsor admission. *)
IssueAnyway(caller, c) ==
    /\ policy.open \/ caller = Secretary
    /\ c \notin DOMAIN members
    /\ now + Period <= MaxTime
    /\ PersonhoodGate
    /\ members' = Put(members, c, NewMembership)
    /\ InsertLeaf(c)
    /\ UNCHANGED <<provisional, attested, recent, epochLeaf, authority,
                   policy, now, revokedAt>>

(* Direct admission: no root is recorded and no EpochLeaf is made. *)
IssueMembership(caller, c) ==
    /\ ~policy.twoSponsor
    /\ policy.open \/ caller = Secretary
    /\ c \notin DOMAIN members
    /\ now + Period <= MaxTime
    /\ PersonhoodGate
    /\ members' = Put(members, c, NewMembership)
    /\ InsertLeaf(c)
    /\ UNCHANGED <<provisional, attested, recent, epochLeaf, authority,
                   policy, now, revokedAt>>

(* Bound: Newcomers. *)
Attest(newcomer, parrain) ==
    /\ newcomer \in Newcomers /\ newcomer \notin DOMAIN attested
    /\ attested' = Put(attested, newcomer,
                       [parrain |-> parrain, leafIndex |-> 0, leafEpoch |-> 0])
    /\ UNCHANGED <<members, provisional, tree, memberCount, recent, epochLeaf,
                   credential, authority, policy, now, revokedAt>>

AttestAdmission(parrain, newcomer) ==
    /\ parrain \in DOMAIN members /\ KeysOf[parrain] # {}
    /\ members[parrain].expiresAt > now
    /\ parrain # newcomer
    /\ Attest(newcomer, parrain)

(* The anonymous form: whoever is a leaf of the current or a recent root can *)
(* prove it.  The vouch nullifier guards nothing the attestation account     *)
(* does not, for it too names the newcomer.                                  *)
AttestAdmissionZk(prover, newcomer) ==
    /\ \E root \in ProvableRoots : prover \in LeavesOf(root)
    /\ Attest(newcomer, Anonymous)

IssueProvisionalMembership(c) ==
    /\ policy.twoSponsor
    /\ c \in DOMAIN attested
    /\ c \notin DOMAIN members /\ c \notin provisional
    /\ now + Period <= MaxTime
    /\ PersonhoodGate
    /\ members' = Put(members, c, NewMembership)
    /\ provisional' = provisional \cup {c}
    /\ UNCHANGED <<attested, tree, memberCount, recent, epochLeaf, authority,
                   policy, now, revokedAt>>

TwoPeople(servant, parrain) ==
    parrain # Anonymous =>
        parrain \in DOMAIN members /\ servant \notin KeysOf[parrain]

(* Mutant: the attestation is given the bare index, the EpochLeaf is right. *)
ConfirmZeroBased(servant, c) ==
    LET slot == <<recent.epoch, c>> IN
    /\ servant \in Servants
    /\ c \in DOMAIN members /\ c \in provisional /\ c \in DOMAIN attested
    /\ TwoPeople(servant, attested[c].parrain)
    /\ members[c].expiresAt > now
    /\ recent.exists
    /\ slot \notin DOMAIN epochLeaf
    /\ InsertLeaf(c)
    /\ recent' = Noted(tree')
    /\ epochLeaf' = Put(epochLeaf, slot, Len(tree))
    /\ attested' = [attested EXCEPT ![c].leafIndex = Len(tree),
                                    ![c].leafEpoch = recent.epoch]
    /\ provisional' = provisional \ {c}
    /\ UNCHANGED <<members, credential, authority, policy, now, revokedAt>>

ConfirmAdmission(servant, c) ==
    LET slot == <<recent.epoch, c>> IN
    /\ servant \in Servants
    /\ c \in DOMAIN members /\ c \in provisional /\ c \in DOMAIN attested
    /\ TwoPeople(servant, attested[c].parrain)
    /\ members[c].expiresAt > now
    /\ recent.exists
    /\ slot \notin DOMAIN epochLeaf
    /\ InsertLeaf(c)
    /\ recent' = Noted(tree')
    /\ epochLeaf' = Put(epochLeaf, slot, Len(tree))
    /\ attested' = [attested EXCEPT ![c].leafIndex = Len(tree) + 1,
                                    ![c].leafEpoch = recent.epoch]
    /\ provisional' = provisional \ {c}
    /\ UNCHANGED <<members, credential, authority, policy, now, revokedAt>>

(* Permissionless.  Bound: an expiry stays within MaxTime. *)
RenewMembership(c) ==
    LET base == IF members[c].expiresAt > now THEN members[c].expiresAt ELSE now
    IN
    /\ c \in DOMAIN members
    /\ base + Period <= MaxTime
    /\ members' = [members EXCEPT ![c].expiresAt = base + Period]
    /\ UNCHANGED <<provisional, attested, tree, memberCount, recent, epochLeaf,
                   credential, authority, policy, now, revokedAt>>

(* Only the Membership account is closed: the leaf, the provisional marker,  *)
(* the attestation and the EpochLeaf all stay.  Bound: Revocable.            *)
RevokeMembership(caller, c) ==
    /\ caller = Secretary
    /\ c \in DOMAIN members /\ c \in Revocable
    /\ members' = Drop(members, c)
    /\ memberCount' = IF memberCount = 0 THEN 0 ELSE memberCount - 1
    /\ revokedAt' = Put(revokedAt, c, now)
    /\ UNCHANGED <<provisional, attested, tree, recent, epochLeaf, credential,
                   authority, policy, now>>

NoteRoot ==
    /\ recent' = Noted(tree)
    /\ recent' # recent
    /\ UNCHANGED <<members, provisional, attested, tree, memberCount,
                   epochLeaf, credential, authority, policy, now, revokedAt>>

-----------------------------------------------------------------------------
(* The Council's decision, seen from here: execute_proposal on a             *)
(* BeginMemberEpoch proposal (Governance!ExecuteProposal).                   *)
AuthoriseEpoch(p) ==
    /\ authority[p] = "voting"
    /\ authority' = [authority EXCEPT ![p] = "executed"]
    /\ UNCHANGED <<members, provisional, attested, tree, memberCount, recent,
                   epochLeaf, credential, policy, now, revokedAt>>

(* Mutant: the roll is not counted afresh. *)
BeginKeepsCount(p) ==
    /\ authority[p] = "executed"
    /\ authority' = [authority EXCEPT ![p] = "drained"]
    /\ tree' = <<>>
    /\ recent' = [exists |-> TRUE, epoch |-> recent.epoch + 1,
                  startedAt |-> now, ring |-> Push(<<>>, <<>>)]
    /\ UNCHANGED <<members, memberCount, provisional, attested, epochLeaf,
                   credential, policy, now, revokedAt>>

BeginMemberEpoch(p) ==
    /\ authority[p] = "executed"
    /\ authority' = [authority EXCEPT ![p] = "drained"]
    /\ tree' = <<>> /\ memberCount' = 0
    /\ recent' = [exists |-> TRUE, epoch |-> recent.epoch + 1,
                  startedAt |-> now, ring |-> Push(<<>>, <<>>)]
    /\ UNCHANGED <<members, provisional, attested, epochLeaf, credential,
                   policy, now, revokedAt>>

(* The part of reinsert_member that changes state, and its guards by name. *)
Reinserted(c) ==
    /\ InsertLeaf(c)
    /\ recent' = Noted(tree')
    /\ epochLeaf' = Put(epochLeaf, <<recent.epoch, c>>, Len(tree))
    /\ UNCHANGED <<members, provisional, attested, credential, authority,
                   policy, now, revokedAt>>

InEpoch(c)  == recent.epoch > 0 /\ c \in DOMAIN members
Unclaimed(c) == <<recent.epoch, c>> \notin DOMAIN epochLeaf
Live(c)     == members[c].expiresAt > now
Predates(c) == members[c].issuedAt < recent.startedAt

(* Mutants: one guard of reinsert_member dropped, or the attestation taken  *)
(* for the provisional marker, though it outlives the confirmation.          *)
ReinsertNewcomers(c) ==
    InEpoch(c) /\ Live(c) /\ c \notin provisional /\ Unclaimed(c) /\ Reinserted(c)

ReinsertExpired(c) ==
    InEpoch(c) /\ Predates(c) /\ c \notin provisional /\ Unclaimed(c) /\ Reinserted(c)

ReinsertProvisional(c) ==
    InEpoch(c) /\ Live(c) /\ Predates(c) /\ Unclaimed(c) /\ Reinserted(c)

ReinsertUnattested(c) ==
    InEpoch(c) /\ Live(c) /\ Predates(c) /\ c \notin DOMAIN attested
      /\ Unclaimed(c) /\ Reinserted(c)

ReinsertMember(c) ==
    /\ InEpoch(c)
    /\ Live(c)
    /\ Predates(c)
    /\ c \notin provisional
    /\ Unclaimed(c)
    /\ Reinserted(c)

Tick ==
    /\ now < MaxTime
    /\ now' = now + 1
    /\ UNCHANGED <<members, provisional, attested, tree, memberCount, recent,
                   epochLeaf, credential, authority, policy, revokedAt>>

-----------------------------------------------------------------------------
RollNext ==
    \/ \E seat \in Servants, b \in BOOLEAN :
          \/ SetTwoSponsorAdmission(seat, b)
          \/ SetOpenMembership(seat, b)
          \/ SetPersonhood(seat, b)
    \/ \E h \in Humans : ProvePersonhood(h)
    \/ \E w \in Wallets, c \in Commitments :
          \/ IssueMembership(w, c)
          \/ RevokeMembership(w, c)
          \/ ConfirmAdmission(w, c)
    \/ \E c, d \in Commitments : AttestAdmission(c, d) \/ AttestAdmissionZk(c, d)
    \/ \E c \in Commitments :
          \/ IssueProvisionalMembership(c)
          \/ RenewMembership(c)
          \/ ReinsertMember(c)
    \/ NoteRoot
    \/ \E p \in EpochProposals : AuthoriseEpoch(p) \/ BeginMemberEpoch(p)
    \/ Tick

Spec == Init /\ [][RollNext]_rollVars

(* The reinsertion crank is open to everyone ("anyone may crank it on anyone's *)
(* behalf"), so it is taken to run; nothing else is.                           *)
LiveSpec == Spec /\ \A c \in Commitments : WF_rollVars(ReinsertMember(c))

-----------------------------------------------------------------------------
(* Types. *)
IsPartialMap(f, S, T) ==
    DOMAIN f \subseteq S /\ f \in [DOMAIN f -> T]

RollTypeOK ==
    /\ IsPartialMap(members, Commitments, [issuedAt : Times, expiresAt : Times])
    /\ provisional \subseteq Commitments
    /\ IsPartialMap(attested, Commitments,
           [parrain : Commitments \cup {Anonymous}, leafIndex : 0 .. Capacity,
            leafEpoch : Nat])
    /\ tree \in Seq(Commitments) /\ Len(tree) <= Capacity
    /\ memberCount \in 0 .. Capacity
    /\ recent \in [exists : BOOLEAN, epoch : Nat, startedAt : Times,
                   ring : Seq(Seq(Commitments))]
    /\ Len(recent.ring) <= RootHistory
    /\ \A slot \in DOMAIN epochLeaf :
          /\ slot \in (0 .. recent.epoch) \X Commitments
          /\ epochLeaf[slot] \in 0 .. Capacity - 1
    /\ credential \in [Humans -> {"none", "unused", "used"}]
    /\ authority \in [EpochProposals -> {"voting", "executed", "drained"}]
    /\ policy \in Policies
    /\ now \in Times
    /\ IsPartialMap(revokedAt, Commitments, Times)

(* circle.member_count never exceeds the leaves of the tree, whatever order *)
(* admissions, revocations and rebuilds come in: the two are kept by        *)
(* different instructions and revocation touches only the first, for members *)
(* too that never counted.  All of it within the widths of RollTypeOK.       *)
CountWithinTree == RollTypeOK /\ memberCount <= Len(tree)

(* Of the four ways into the tree no two together insert a commitment twice: *)
(* only a commitment whose membership the Secretary once revoked can repeat  *)
(* (the guards of reinsert_member and the EpochLeaf it shares with           *)
(* confirm_admission).                                                       *)
LeafOnce ==
    \A i, j \in DOMAIN tree :
        i # j /\ tree[i] = tree[j] => tree[i] \in DOMAIN revokedAt

(* After a rebuild nobody proves anything but with a leaf in good standing:   *)
(* every leaf of every root a proof may still be made against, the ring's     *)
(* included, is of a membership that outlived the start of the epoch, or was  *)
(* revoked only during it ("expired and revoked commitments simply never come *)
(* back"), and each of these roots is an earlier state of the present tree.   *)
(* An open ballot's snapshot is not among them: it may be of an earlier epoch. *)
GoodStanding ==
    /\ recent.epoch > 0 =>
          \A root \in ProvableRoots : \A c \in LeavesOf(root) :
              IF c \in DOMAIN members
              THEN members[c].expiresAt > recent.startedAt
              ELSE c \in DOMAIN revokedAt /\ revokedAt[c] >= recent.startedAt
    /\ \A root \in ProvableRoots :
          Len(root) <= Len(tree) /\ root = SubSeq(tree, 1, Len(root))

(* The positions pinned for clients are where the leaf is: the EpochLeaf of  *)
(* the present epoch counts from 0, the attestation from 1.                  *)
PinnedPositions ==
    /\ \A c \in Commitments : <<recent.epoch, c>> \in DOMAIN epochLeaf =>
          LET at == epochLeaf[<<recent.epoch, c>>] + 1
          IN at \in DOMAIN tree /\ tree[at] = c
    /\ \A c \in DOMAIN attested :
          attested[c].leafIndex > 0 /\ attested[c].leafEpoch = recent.epoch =>
              /\ attested[c].leafIndex \in DOMAIN tree
              /\ tree[attested[c].leafIndex] = c

(* A provisional member is outside the votable set until a servant confirms, *)
(* any servant, who need not be the one the Circle meant, through rebuilds   *)
(* and policy changes, as long as nobody revokes it.                         *)
GlassHolds ==
    \A c \in provisional \ DOMAIN revokedAt : c \notin LeavesOf(tree)

(* Whatever the switches were before, no membership begins and no leaf enters *)
(* past the policy in force: under two-sponsor admission only for somebody    *)
(* attested (or re-entering a rebuilt tree), under the personhood gate only   *)
(* against a credential, which is spent for good.                             *)
DoorStep ==
    /\ \A c \in DOMAIN members' \ DOMAIN members :
          /\ policy.twoSponsor => c \in DOMAIN attested /\ c \in provisional'
          /\ policy.personhood => \E h \in Humans :
                credential[h] = "unused" /\ credential'[h] = "used"
    /\ Len(tree') > Len(tree) /\ policy.twoSponsor =>
          LET c == tree'[Len(tree')]
          IN (c \in DOMAIN attested /\ c \in provisional)
             \/ (c \in DOMAIN members /\ members[c].issuedAt < recent.startedAt)
    /\ \A h \in Humans : credential[h] = "used" => credential'[h] = "used"

DoorsHeld == [][DoorStep]_rollVars

(* A rebuild heals.  A live member whose leaf a rebuild took away, or who never *)
(* had one, gets one unless it lapses, is revoked or another rebuild begins; and *)
(* all that keeps somebody out is named here: it waits for a servant, the tree   *)
(* is full, or it was issued in the very second of the rebuild ("it heals at the *)
(* next epoch").  Who waits for a servant was never confirmed, or is a member    *)
(* admitted anew over the marker that its revocation left behind: that one stays *)
(* out of this and every later tree unless it is confirmed after all.            *)
Outside(c) ==
    InEpoch(c) /\ Live(c) /\ c \notin LeavesOf(tree)

WaitsForServant(c) ==
    /\ c \in provisional
    /\ attested[c].leafIndex = 0 \/ c \in DOMAIN revokedAt

KeptOut(c) ==
    \/ WaitsForServant(c)
    \/ ~HasRoom
    \/ members[c].issuedAt = recent.startedAt

RebuildHeals ==
    \A c \in Commitments : Outside(c) ~> (Outside(c) => KeptOut(c))

=============================================================================
