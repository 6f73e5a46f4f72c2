-------------------------- MODULE MaciRoundProofs --------------------------
(***************************************************************************)
(* For any number of members, crankers, messages and lost answers: what    *)
(* the chain folded is the queue, and an audit finds it so; every sign-up  *)
(* and every key counts once, and none is taken over in the slot in which  *)
(* it came into the open; the tally does not depend on the order of        *)
(* publication but among commands of one nonce, and a change of keys       *)
(* holds.                                                                  *)
(*                                                                         *)
(* The invariant of the queue says which fold the digest is at every       *)
(* moment: that of the messages up to the count.  A batch that is folded   *)
(* twice or out of order would have to start elsewhere, and a message      *)
(* after the close would change the count that was frozen.  The tally      *)
(* sorts: an array sorted by a strict total order is the list in which     *)
(* each stands at the place its rank gives it, so there is one, and what   *)
(* two sorted buckets have in common is counted.                           *)
(***************************************************************************)
EXTENDS MaciRound, FunctionTheorems, FiniteSetTheorems, SequenceTheorems, WellFoundedInduction, TLAPS

Names   == Members \cup {Stranger}
AnyKey  == Names \X Int
Command == [stateKey : AnyKey, signer : AnyKey, newKey : AnyKey,
            nonce : 0..MaxNonce, vote : Int, by : Names]
Client  == [key : Int, nonce : 0..MaxNonce, joining : BOOLEAN,
            sending : [at : Int, command : Command, busy : BOOLEAN]]

Typed ==
    /\ now \in 0..MaxTime /\ failures \in 0..MaxFailures
    /\ stage \in {Open, Closed, Processed}
    /\ messages \in Seq(Command) /\ Len(messages) <= MaxMessages
    /\ voter \in [Members -> Client]
    /\ \A m \in Members : voter[m].sending.busy => voter[m].sending.at < MaxMessages
    /\ crank \in [Crankers -> [index : Nat, end : Nat]]

\* One registration per member, and its key.
Roll ==
    /\ signups \in Seq((UNION { KeysOf(m) : m \in Members }) \cup {StrangersKey})
    /\ IsFiniteSet(registered) /\ Len(signups) = Cardinality(registered)
    /\ Registered \in SUBSET Members /\ Cardinality(registered) = Cardinality(Registered)

Queue ==
    /\ processed \in Nat /\ frozen \in Nat /\ processed <= frozen
    /\ stage = Open => processed = 0 /\ frozen = 0
    /\ stage # Open => frozen = Len(messages)
    /\ stage = Processed => processed = frozen
    /\ chain = Folded(0, processed)

\* A key that is not the member's was committed to after the member's proof had
\* come into the open.
Precedence ==
    /\ \A s \in seen : s.slot \in 0..now
    /\ \A c \in commits :
          /\ c.slot \in 0..now
          /\ c.key[1] # c.nullifier => \E s \in seen : s.nullifier = c.nullifier /\ s.slot <= c.slot

RoundInv == Typed /\ Roll /\ Queue /\ Precedence /\ SignUpHolds

-----------------------------------------------------------------------------
(* Constants and small facts.                                              *)

LEMMA Bounds ==
    /\ MaxTime \in Nat /\ MaxNonce \in Nat /\ MaxMessages \in Nat /\ MaxFailures \in Nat
    /\ Batch \in Nat \ {0} /\ IsFiniteSet(Members) /\ Surrendered \in SUBSET Members
    /\ Votes \in SUBSET Int
  BY MaciAssumption

LEMMA JunkType == Junk \in Command /\ StrangersKey \in AnyKey
  <1>1. StrangersKey \in AnyKey
    BY DEF StrangersKey, AnyKey, Names
  <1>. QED
    BY <1>1, Bounds DEF Junk, Command, Names, Abstain

LEMMA CoercedType == Coerced \subseteq Command
  <1>1. \A m \in Surrendered : <<m, 0>> \in AnyKey
    BY Bounds DEF AnyKey, Names
  <1>. QED
    BY <1>1, Bounds DEF Coerced, Command, Names, No

\* A message more.
LEMMA PublishedType ==
    ASSUME Typed, NEW index, NEW command \in Command, PublishMaciMessage(index, command),
           index < MaxMessages
    PROVE  /\ messages' \in Seq(Command) /\ Len(messages') <= MaxMessages
           /\ stage = Open
  <1>1. /\ Len(messages) \in Nat /\ Len(messages') = Len(messages) + 1 /\ messages' \in Seq(Command)
        /\ index = Len(messages) /\ stage = Open
    BY AppendProperties, LenProperties DEF Typed, PublishMaciMessage
  <1>. QED
    BY <1>1, Bounds

\* A batch more.
LEMMA FoldedMore ==
    ASSUME NEW i \in Nat, NEW n \in Nat
    PROVE  Folded(0, i) \o Folded(i, n) = Folded(0, i + n)
  <1> DEFINE Item == { [index |-> j, item |-> messages[j + 1]] : j \in Int }
  <1>1. \A k \in Nat, b \in Nat : Folded(b, k) \in Seq(Item) /\ Len(Folded(b, k)) = k
    <2>. TAKE k \in Nat, b \in Nat
    <2>1. \A j \in 1..k : Folded(b, k)[j] = [index |-> b + j - 1, item |-> messages[b + j]]
      BY DEF Folded
    <2>2. \A j \in 1..k : b + j - 1 \in Int /\ (b + j - 1) + 1 = b + j
      OBVIOUS
    <2>3. \A j \in 1..k : Folded(b, k)[j] \in Item
      BY <2>1, <2>2
    <2>4. Folded(b, k) \in [1..k -> Item]
      BY <2>3 DEF Folded
    <2>5. Folded(b, k) \in Seq(Item)
      BY <2>4
    <2>6. DOMAIN Folded(b, k) = 1..k
      BY <2>4
    <2>7. Len(Folded(b, k)) = k
      BY <2>5, <2>6, LenProperties
    <2>. QED
      BY <2>5, <2>7
  <1>2. 0 \in Nat /\ i + n \in Nat
    OBVIOUS
  <1> HIDE DEF Item
  <1>3. /\ Folded(0, i) \in Seq(Item) /\ Len(Folded(0, i)) = i
        /\ Folded(i, n) \in Seq(Item) /\ Len(Folded(i, n)) = n
        /\ Folded(0, i + n) \in Seq(Item) /\ Len(Folded(0, i + n)) = i + n
    BY <1>1, <1>2
  <1> DEFINE both == Folded(0, i) \o Folded(i, n)
  <1>4. /\ both \in Seq(Item) /\ Len(both) = i + n
        /\ \A k \in 1..(i + n) : both[k] = IF k <= i THEN Folded(0, i)[k] ELSE Folded(i, n)[k - i]
    BY <1>3, ConcatProperties
  <1> HIDE DEF both
  <1>5. \A k \in 1..(i + n) : both[k] = Folded(0, i + n)[k]
    <2>. TAKE k \in 1..(i + n)
    <2>1. ASSUME k <= i PROVE both[k] = Folded(0, i + n)[k]
      <3>1. k \in 1..i
        BY <2>1
      <3>. QED
        BY <1>4, <2>1, <3>1 DEF Folded
    <2>2. ASSUME ~(k <= i) PROVE both[k] = Folded(0, i + n)[k]
      <3>1. k - i \in 1..n /\ i + (k - i) = k
        BY <2>2
      <3>2. both[k] = Folded(i, n)[k - i]
        BY <1>4, <2>2
      <3>. QED
        BY <3>1, <3>2 DEF Folded
    <2>. QED
      BY <2>1, <2>2
  <1>6. both = Folded(0, i + n)
    BY <1>3, <1>4, <1>5, SeqEqual
  <1>. QED
    BY <1>6 DEF both

-----------------------------------------------------------------------------
(* What leaves a part of the invariant alone.                              *)

LEMMA SameRoll ==
    ASSUME Roll, UNCHANGED <<registered, signups>>
    PROVE  Roll'
  BY DEF Roll, Registered

LEMMA SameQueue ==
    ASSUME Queue, UNCHANGED <<stage, messages, frozen, processed, chain>>
    PROVE  Queue'
  BY DEF Queue, Folded

LEMMA SamePrecedence ==
    ASSUME Precedence, now \in Nat, now' = now \/ now' = now + 1, UNCHANGED <<seen, commits>>
    PROVE  Precedence'
  <1>1. 0..now \subseteq 0..now'
    OBVIOUS
  <1>. QED
    BY <1>1 DEF Precedence

LEMMA SameCopies ==
    ASSUME SignUpHolds, UNCHANGED <<registered, signups>>, seen \subseteq seen', commits \subseteq commits'
    PROVE  SignUpHolds'
  <1>1. Range(signups') = Range(signups) /\ registered' = registered
    BY DEF Range
  <1>2. Range(signups') = { r.key : r \in registered' }
    BY <1>1 DEF SignUpHolds
  <1>3. \A r, q \in registered' : r.nullifier = q.nullifier \/ r.key = q.key => r = q
    BY <1>1 DEF SignUpHolds
  <1>4. \A r \in registered' : r.key[1] # r.nullifier =>
           \E s \in seen', c \in commits' :
              /\ s.nullifier = r.nullifier /\ c.nullifier = r.nullifier /\ c.key = r.key
              /\ s.slot <= c.slot /\ c.slot < r.slot
    BY <1>1 DEF SignUpHolds
  <1>. QED
    BY <1>2, <1>3, <1>4 DEF SignUpHolds

\* A commitment: by the member, or by somebody who has seen the reveal.
LEMMA Committed ==
    ASSUME Precedence, now \in Nat, NEW m, NEW key, MaciSignupCommit(m, key),
           key[1] # m => m \in InTheOpen, UNCHANGED <<now, seen>>
    PROVE  Precedence'
  <1> DEFINE c0 == [nullifier |-> m, key |-> key, slot |-> now]
  <1>1. commits' = commits \cup {c0}
    BY DEF MaciSignupCommit
  <1>2. c0.slot \in 0..now /\ c0.key = key /\ c0.nullifier = m
    OBVIOUS
  <1>3. ASSUME c0.key[1] # c0.nullifier
        PROVE  \E s \in seen : s.nullifier = c0.nullifier /\ s.slot <= c0.slot
    <2>1. PICK s \in seen : s.nullifier = m
      BY <1>2, <1>3 DEF InTheOpen
    <2>2. s.slot \in 0..now
      BY DEF Precedence
    <2>. QED
      BY <2>1, <2>2
  <1>. QED
    BY <1>1, <1>2, <1>3 DEF Precedence

\* A registration: one member and one key more, and the key was committed to in
\* an earlier slot.
LEMMA SignedUp ==
    ASSUME Roll, Precedence, SignUpHolds, now \in Nat, NEW m \in Members,
           NEW key \in (UNION { KeysOf(n) : n \in Members }) \cup {StrangersKey},
           MaciSignup(m, key), UNCHANGED <<now, seen, commits>>
    PROVE  Roll' /\ SignUpHolds'
  <1> DEFINE r0 == [nullifier |-> m, key |-> key, slot |-> now]
             Keys == (UNION { KeysOf(n) : n \in Members }) \cup {StrangersKey}
  <1>1. /\ registered' = registered \cup {r0} /\ signups' = Append(signups, key)
        /\ m \notin Registered /\ key \notin Range(signups)
    BY DEF MaciSignup, Unused
  <1>2. r0.nullifier = m /\ r0.key = key /\ r0.slot = now
    OBVIOUS
  <1>3. r0 \notin registered
    BY <1>1, <1>2 DEF Registered
  <1>4. Registered' = Registered \cup {m}
    BY <1>1, <1>2 DEF Registered
  <1>5. IsFiniteSet(Registered)
    BY Bounds, FS_Subset DEF Roll
  <1>6. /\ IsFiniteSet(registered') /\ Cardinality(registered') = Cardinality(registered) + 1
        /\ Cardinality(Registered') = Cardinality(Registered) + 1
    BY <1>1, <1>3, <1>4, <1>5, FS_AddElement DEF Roll
  <1>7. signups' \in Seq(Keys) /\ Len(signups') = Len(signups) + 1 /\ Range(signups') = Range(signups) \cup {key}
    <2> HIDE DEF Keys
    <2>1. key \in Keys /\ signups \in Seq(Keys)
      BY DEF Keys, Roll
    <2>2. /\ signups' \in Seq(Keys) /\ Len(signups) \in Nat /\ Len(signups') = Len(signups) + 1
          /\ \A i \in 1..Len(signups) : signups'[i] = signups[i]
          /\ signups'[Len(signups) + 1] = key
      BY <1>1, <2>1, AppendProperties, LenProperties
    <2>3. DOMAIN signups' = 1..(Len(signups) + 1) /\ DOMAIN signups = 1..Len(signups)
      BY <2>1, <2>2, LenProperties
    <2>4. 1..(Len(signups) + 1) = (1..Len(signups)) \cup {Len(signups) + 1}
      BY <2>2
    <2>. QED
      BY <2>2, <2>3, <2>4 DEF Range
  <1>8. Roll'
    BY <1>4, <1>6, <1>7 DEF Roll
  <1>9. Range(signups') = { r.key : r \in registered' }
    <2>1. { r.key : r \in registered' } = { r.key : r \in registered } \cup {key}
      BY <1>1, <1>2
    <2>2. Range(signups) = { r.key : r \in registered }
      BY DEF SignUpHolds
    <2>. QED
      BY <1>7, <2>1, <2>2
  <1>10. \A r \in registered : r.nullifier # m /\ r.key # key
    BY <1>1 DEF Registered, SignUpHolds
  <1>11. \A r, q \in registered' : r.nullifier = q.nullifier \/ r.key = q.key => r = q
    BY <1>1, <1>2, <1>10 DEF SignUpHolds
  <1>12. ASSUME key[1] # m
         PROVE  \E s \in seen, c \in commits :
                   /\ s.nullifier = m /\ c.nullifier = m /\ c.key = key
                   /\ s.slot <= c.slot /\ c.slot < now
    <2>1. PICK c \in commits : c.nullifier = m /\ c.key = key /\ c.slot < now
      BY DEF MaciSignup, CommittedBefore
    <2>. QED
      BY <1>12, <2>1 DEF Precedence
  <1>13. ASSUME NEW r \in registered', r.key[1] # r.nullifier
         PROVE  \E s \in seen', c \in commits' :
                   /\ s.nullifier = r.nullifier /\ c.nullifier = r.nullifier /\ c.key = r.key
                   /\ s.slot <= c.slot /\ c.slot < r.slot
    <2>1. CASE r \in registered
      BY <1>13, <2>1 DEF SignUpHolds
    <2>2. CASE r = r0
      BY <1>2, <1>12, <1>13, <2>2
    <2>. QED
      BY <1>1, <2>1, <2>2
  <1>14. SignUpHolds'
    BY <1>9, <1>11, <1>13 DEF SignUpHolds
  <1>. QED
    BY <1>8, <1>14

\* A message: the round is open, nothing of its queue is folded yet.
LEMMA Queued ==
    ASSUME Queue, stage = Open, UNCHANGED <<stage, frozen, processed, chain>>
    PROVE  Queue'
  <1>1. processed = 0 /\ processed' = 0 /\ chain' = chain /\ chain = Folded(0, 0)
    BY DEF Queue
  <1>2. Folded(0, 0) = Folded(0, 0)'
    <2>1. 1..0 = {}
      OBVIOUS
    <2>. QED
      BY <2>1 DEF Folded
  <1>. QED
    BY <1>1, <1>2 DEF Queue, Open, Closed, Processed

-----------------------------------------------------------------------------
(* The actions.                                                            *)

LEMMA InitRound == Init => RoundInv
  <1> SUFFICES ASSUME Init PROVE RoundInv
    OBVIOUS
  <1>1. Typed
    <2>1. NoClient \in Client /\ ~NoClient.sending.busy
      BY JunkType, Bounds DEF NoClient, Client, Silent
    <2>2. messages \in Seq(Command) /\ Len(messages) = 0
      BY EmptySeq DEF Init
    <2>3. NoCrank \in [index : Nat, end : Nat]
      BY DEF NoCrank
    <2>4. voter \in [Members -> Client] /\ \A m \in Members : ~voter[m].sending.busy
      BY <2>1 DEF Init
    <2>. QED
      BY <2>2, <2>3, <2>4, Bounds DEF Init, Typed
  <1>2. Roll
    <2>1. registered = {} /\ Registered = {} /\ Cardinality(registered) = 0 /\ Cardinality(Registered) = 0
      BY FS_EmptySet DEF Init, Registered
    <2>. QED
      BY <2>1, EmptySeq, FS_EmptySet DEF Init, Roll
  <1>3. Queue
    <2>1. 1..0 = {}
      OBVIOUS
    <2>2. Folded(0, 0) = <<>>
      BY <2>1 DEF Folded
    <2>. QED
      BY <2>2 DEF Init, Queue, Open, Closed, Processed
  <1>4. Precedence
    BY DEF Init, Precedence
  <1>5. SignUpHolds
    <2>1. Range(<<>>) = {}
      BY DEF Range
    <2>. QED
      BY <2>1 DEF Init, SignUpHolds
  <1>. QED
    BY <1>1, <1>2, <1>3, <1>4, <1>5 DEF Init, RoundInv

\* What the members do about their registration.
LEMMA JoinStep ==
    ASSUME RoundInv, NEW m \in Members,
           \/ Commit(m) \/ Reveal(m) \/ RevealLands(m) \/ RevealFails(m)
           \/ StrangerCommits(m) \/ StrangerReveals(m)
    PROVE  RoundInv'
  <1> USE DEF RoundInv
  <1>0. now \in Nat /\ <<m, 0>> \in KeysOf(m)
    BY Bounds DEF Typed, KeysOf
  <1>1. voter[m] \in Client
    BY DEF Typed
  <1>2. CASE Commit(m)
    <2>1. Precedence'
      BY <1>0, <1>2, Committed DEF Commit
    <2>2. commits \subseteq commits'
      BY <1>2 DEF Commit, MaciSignupCommit
    <2>. QED
      BY <1>2, <2>1, <2>2, SameRoll, SameQueue, SameCopies DEF Commit, Typed
  <1>3. CASE StrangerCommits(m)
    <2>1. Precedence'
      BY <1>0, <1>3, Committed DEF StrangerCommits
    <2>2. commits \subseteq commits'
      BY <1>3 DEF StrangerCommits, MaciSignupCommit
    <2>. QED
      BY <1>3, <2>1, <2>2, SameRoll, SameQueue, SameCopies DEF StrangerCommits, Typed
  <1>4. CASE Reveal(m)
    <2>1. Typed'
      <3>1. voter' = [voter EXCEPT ![m].joining = TRUE]
        BY <1>4 DEF Reveal
      <3>2. /\ voter' \in [Members -> Client]
            /\ \A n \in Members : voter'[n].sending = voter[n].sending
        BY <1>1, <3>1 DEF Typed, Client
      <3>. QED
        BY <1>4, <3>2 DEF Reveal, Typed, chainVars
    <2>2. seen \subseteq seen' /\ \A s \in seen' : s \in seen \/ s.slot = now
      BY <1>4 DEF Reveal
    <2>3. Precedence'
      BY <1>0, <1>4, <2>2 DEF Reveal, Precedence, chainVars
    <2>. QED
      BY <1>4, <2>1, <2>2, <2>3, SameRoll, SameQueue, SameCopies DEF Reveal, chainVars
  <1>5. CASE RevealLands(m)
    <2>1. Typed'
      <3>1. voter' = [voter EXCEPT ![m].joining = FALSE]
        BY <1>5 DEF RevealLands
      <3>2. /\ voter' \in [Members -> Client]
            /\ \A n \in Members : voter'[n].sending = voter[n].sending
        BY <1>1, <3>1 DEF Typed, Client
      <3>. QED
        BY <1>5, <3>2 DEF RevealLands, Typed
    <2>2. Roll' /\ SignUpHolds'
      BY <1>0, <1>5, SignedUp DEF RevealLands
    <2>3. Queue' /\ Precedence'
      BY <1>0, <1>5, SameQueue, SamePrecedence DEF RevealLands
    <2>. QED
      BY <2>1, <2>2, <2>3
  <1>6. CASE RevealFails(m)
    <2>1. Typed'
      <3>1. voter' = [voter EXCEPT ![m].joining = FALSE]
        BY <1>6 DEF RevealFails
      <3>2. /\ voter' \in [Members -> Client]
            /\ \A n \in Members : voter'[n].sending = voter[n].sending
        BY <1>1, <3>1 DEF Typed, Client
      <3>3. failures' \in 0..MaxFailures
        BY <1>6, Bounds DEF RevealFails, Typed
      <3>. QED
        BY <1>6, <3>2, <3>3 DEF RevealFails, Typed, chainVars
    <2>. QED
      BY <1>0, <1>6, <2>1, SameRoll, SameQueue, SamePrecedence, SameCopies DEF RevealFails, chainVars
  <1>7. CASE StrangerReveals(m)
    <2>1. Roll' /\ SignUpHolds'
      BY <1>0, <1>7, SignedUp DEF StrangerReveals
    <2>2. Queue' /\ Precedence'
      BY <1>0, <1>7, SameQueue, SamePrecedence DEF StrangerReveals
    <2>. QED
      BY <1>7, <2>1, <2>2 DEF StrangerReveals, Typed
  <1>. QED
    BY <1>2, <1>3, <1>4, <1>5, <1>6, <1>7

\* What the members do about their votes.
LEMMA PublishStep ==
    ASSUME RoundInv, NEW m \in Members,
           \/ \E v \in Votes, b \in BOOLEAN : Publish(m, v, b)
           \/ \E b \in BOOLEAN : PublishLands(m, b)
           \/ PublishRefused(m)
    PROVE  RoundInv'
  <1> USE DEF RoundInv
  <1>0. now \in Nat /\ voter[m] \in Client
    BY Bounds DEF Typed
  <1>1. ASSUME NEW v \in Votes, NEW b \in BOOLEAN, Publish(m, v, b)
        PROVE  RoundInv'
    <2> DEFINE own == [stateKey |-> <<m, 0>>,
                       signer |-> <<m, voter[m].key>>,
                       newKey |-> IF b THEN NewKey(m) ELSE <<m, voter[m].key>>,
                       nonce |-> voter[m].nonce + 1, vote |-> v, by |-> m]
    <2>1. /\ voter[m].nonce < MaxNonce /\ Len(messages) < MaxMessages
          /\ voter' = [voter EXCEPT ![m].sending = [at |-> Len(messages), command |-> own, busy |-> TRUE]]
      BY <1>1 DEF Publish
    <2>2. own \in Command
      <3>1. <<m, 0>> \in AnyKey /\ <<m, voter[m].key>> \in AnyKey /\ NewKey(m) \in AnyKey
        BY <1>0, LenProperties DEF Client, AnyKey, Names, NewKey, Typed
      <3>2. v \in Int /\ m \in Names /\ voter[m].nonce + 1 \in 0..MaxNonce
        BY <1>0, <2>1, Bounds DEF Client, Names
      <3>. QED
        BY <3>1, <3>2 DEF Command
    <2> HIDE DEF own
    <2>3. Len(messages) \in Nat
      BY LenProperties DEF Typed
    <2>4. /\ voter' \in [Members -> Client]
          /\ \A n \in Members : voter'[n].sending.busy => voter'[n].sending.at < MaxMessages
      <3> DEFINE sent == [at |-> Len(messages), command |-> own, busy |-> TRUE]
                 client == [voter[m] EXCEPT !.sending = sent]
      <3>1. sent \in [at : Int, command : Command, busy : BOOLEAN] /\ sent.at < MaxMessages
        BY <2>1, <2>2, <2>3
      <3> HIDE DEF sent
      <3>2. client \in Client /\ client.sending = sent
        BY <1>0, <3>1 DEF Client
      <3>3. voter' = [voter EXCEPT ![m] = client]
        BY <1>0, <2>1 DEF Typed, Client, sent
      <3> HIDE DEF client
      <3>. QED
        BY <3>1, <3>2, <3>3 DEF Typed
    <2>5. Typed'
      BY <1>1, <2>4 DEF Publish, Typed, chainVars
    <2>. QED
      BY <1>0, <1>1, <2>5, SameRoll, SameQueue, SamePrecedence, SameCopies DEF Publish, chainVars
  <1>2. ASSUME NEW b \in BOOLEAN, PublishLands(m, b)
        PROVE  RoundInv'
    <2> DEFINE s == voter[m].sending
    <2>1. /\ s.busy /\ PublishMaciMessage(s.at, s.command)
          /\ voter' = [voter EXCEPT ![m].sending = Silent,
                          ![m].nonce = IF b THEN s.command.nonce ELSE @,
                          ![m].key = IF b THEN s.command.newKey[2] ELSE @]
          /\ failures' = (IF b THEN failures ELSE failures + 1) /\ (b \/ failures < MaxFailures)
      BY <1>2 DEF PublishLands
    <2>2. s \in [at : Int, command : Command, busy : BOOLEAN] /\ s.at < MaxMessages
      BY <1>0, <2>1 DEF Typed, Client
    <2>3. s.command \in Command /\ s.command.newKey[2] \in Int /\ s.command.nonce \in 0..MaxNonce
      BY <2>2 DEF Command, AnyKey
    <2>4. messages' \in Seq(Command) /\ Len(messages') <= MaxMessages /\ stage = Open
      BY <2>1, <2>2, <2>3, PublishedType
    <2>5. Silent \in [at : Int, command : Command, busy : BOOLEAN] /\ ~Silent.busy
      BY JunkType DEF Silent
    <2>6. /\ voter' \in [Members -> Client]
          /\ \A n \in Members : voter'[n].sending.busy => voter'[n].sending.at < MaxMessages
      <3> DEFINE client == [voter[m] EXCEPT !.sending = Silent,
                                !.nonce = IF b THEN s.command.nonce ELSE @,
                                !.key = IF b THEN s.command.newKey[2] ELSE @]
      <3>1. client \in Client /\ client.sending = Silent
        BY <1>0, <2>3, <2>5 DEF Client
      <3>2. voter' = [voter EXCEPT ![m] = client]
        BY <1>0, <2>1 DEF Typed, Client
      <3> HIDE DEF client
      <3>. QED
        BY <2>5, <3>1, <3>2 DEF Typed
    <2>7. failures' \in 0..MaxFailures
      BY <2>1, Bounds DEF Typed
    <2>8. Typed'
      BY <1>2, <2>4, <2>6, <2>7 DEF PublishLands, Typed
    <2>9. Queue'
      BY <1>2, <2>4, Queued DEF PublishLands
    <2>. QED
      BY <1>0, <1>2, <2>8, <2>9, SameRoll, SamePrecedence, SameCopies DEF PublishLands
  <1>3. CASE PublishRefused(m)
    <2>1. voter' = [voter EXCEPT ![m].sending = Silent]
      BY <1>3 DEF PublishRefused
    <2>2. Silent \in [at : Int, command : Command, busy : BOOLEAN] /\ ~Silent.busy
      BY JunkType DEF Silent
    <2>3. /\ voter' \in [Members -> Client]
          /\ \A n \in Members : voter'[n].sending.busy => voter'[n].sending.at < MaxMessages
      BY <1>0, <2>1, <2>2 DEF Typed, Client
    <2>4. Typed'
      BY <1>3, <2>3 DEF PublishRefused, Typed, chainVars
    <2>. QED
      BY <1>0, <1>3, <2>4, SameRoll, SameQueue, SamePrecedence, SameCopies DEF PublishRefused, chainVars
  <1>. QED
    BY <1>1, <1>2, <1>3

LEMMA IntrudeStep ==
    ASSUME RoundInv, NEW command \in Coerced \cup {Junk}, Intrude(command)
    PROVE  RoundInv'
  <1> USE DEF RoundInv
  <1>0. now \in Nat /\ command \in Command
    BY Bounds, JunkType, CoercedType DEF Typed
  <1>1. messages' \in Seq(Command) /\ Len(messages') <= MaxMessages /\ stage = Open
    BY <1>0, PublishedType DEF Intrude
  <1>2. Typed'
    BY <1>1 DEF Intrude, Typed
  <1>3. Queue'
    BY <1>1, Queued DEF Intrude
  <1>. QED
    BY <1>0, <1>2, <1>3, SameRoll, SamePrecedence, SameCopies DEF Intrude

LEMMA CloseStep ==
    ASSUME RoundInv, CloseMaciRound
    PROVE  RoundInv'
  <1> USE DEF RoundInv
  <1>0. now \in Nat /\ Len(messages) \in Nat /\ (messages = <<>> <=> Len(messages) = 0)
    BY Bounds, LenProperties, EmptySeq DEF Typed
  <1>1. Typed'
    BY DEF CloseMaciRound, Typed
  <1>2. Queue'
    <2>1. 1..0 = {}
      OBVIOUS
    <2>2. Folded(0, 0)' = <<>>
      BY <2>1 DEF Folded
    <2>. QED
      BY <1>0, <2>2 DEF CloseMaciRound, Queue, Open, Closed, Processed
  <1>. QED
    BY <1>0, <1>1, <1>2, SameRoll, SamePrecedence, SameCopies DEF CloseMaciRound

\* A batch starts where the fold has got to, or fails.
LEMMA CrankStep ==
    ASSUME RoundInv, NEW c \in Crankers, CrankReads(c) \/ CrankSends(c)
    PROVE  RoundInv'
  <1> USE DEF RoundInv
  <1>0. now \in Nat /\ crank[c] \in [index : Nat, end : Nat] /\ NoCrank \in [index : Nat, end : Nat]
    BY Bounds DEF Typed, NoCrank
  <1>1. CASE CrankReads(c)
    <2>1. crank' \in [Crankers -> [index : Nat, end : Nat]]
      BY <1>1 DEF CrankReads, Typed, Queue
    <2>2. Typed'
      BY <1>1, <2>1 DEF CrankReads, Typed, chainVars
    <2>. QED
      BY <1>0, <1>1, <2>2, SameRoll, SameQueue, SamePrecedence, SameCopies DEF CrankReads, chainVars
  <1>2. CASE CrankSends(c)
    <2> DEFINE i == crank[c].index
               n == IF crank[c].end - i < Batch THEN crank[c].end - i ELSE Batch
    <2>1. i \in Nat /\ n \in Nat /\ i < crank[c].end
      BY <1>0, <1>2, Bounds DEF CrankSends
    <2>2. CASE /\ ProcessMaciMessages(i, n)
               /\ crank' = [crank EXCEPT ![c] = IF i + n < @.end THEN [@ EXCEPT !.index = i + n] ELSE NoCrank]
               /\ UNCHANGED <<commits, registered, signups, signupDigest, messages, frozen>>
      <3> HIDE DEF n
      <3>0. UNCHANGED <<now, seen, voter, audit, failures>>
        BY <1>2 DEF CrankSends
      <3>1. crank' \in [Crankers -> [index : Nat, end : Nat]]
        BY <1>0, <2>1, <2>2 DEF Typed
      <3>2. Typed'
        BY <2>2, <3>0, <3>1 DEF ProcessMaciMessages, Typed
      <3>3. Queue'
        <4>1. /\ stage = Closed /\ processed + n <= frozen /\ i = processed
              /\ chain' = chain \o Folded(i, n) /\ processed' = processed + n
              /\ stage' = IF processed' = frozen THEN Processed ELSE stage
          BY <2>2 DEF ProcessMaciMessages, NextInLine
        <4>2. chain' = Folded(0, processed')
          BY <2>1, <4>1, FoldedMore DEF Queue
        <4>3. Folded(0, processed)' = Folded(0, processed')
          BY <2>2 DEF Folded
        <4>. QED
          BY <2>1, <2>2, <4>1, <4>2, <4>3 DEF Queue, Open, Closed, Processed
      <3>. QED
        BY <1>0, <2>2, <3>0, <3>2, <3>3, SameRoll, SamePrecedence, SameCopies
    <2>3. CASE crank' = [crank EXCEPT ![c] = NoCrank] /\ UNCHANGED chainVars
      <3>0. UNCHANGED <<now, seen, voter, audit, failures>>
        BY <1>2 DEF CrankSends
      <3>1. Typed'
        BY <1>0, <2>3, <3>0 DEF Typed, chainVars
      <3>. QED
        BY <1>0, <2>3, <3>0, <3>1, SameRoll, SameQueue, SamePrecedence, SameCopies DEF chainVars
    <2>. QED
      BY <1>2, <2>2, <2>3 DEF CrankSends
  <1>. QED
    BY <1>1, <1>2

\* An audit reads; time passes.
LEMMA OtherStep ==
    ASSUME RoundInv, AuditState \/ AuditSignups \/ AuditMessages \/ Tick \/ UNCHANGED vars
    PROVE  RoundInv'
  <1> USE DEF RoundInv
  <1>0. now \in Nat
    BY Bounds DEF Typed
  <1>1. CASE AuditState \/ AuditSignups \/ AuditMessages \/ UNCHANGED vars
    <2>1. UNCHANGED <<now, chainVars, seen, voter, crank, failures>>
      BY <1>1 DEF AuditState, AuditSignups, AuditMessages, vars
    <2>2. Typed'
      BY <2>1 DEF Typed, chainVars
    <2>. QED
      BY <1>0, <2>1, <2>2, SameRoll, SameQueue, SamePrecedence, SameCopies DEF chainVars
  <1>2. CASE Tick
    <2>1. Typed'
      BY <1>2, Bounds DEF Tick, Typed, chainVars
    <2>. QED
      BY <1>0, <1>2, <2>1, SameRoll, SameQueue, SamePrecedence, SameCopies DEF Tick, chainVars
  <1>. QED
    BY <1>1, <1>2

LEMMA StepRound == RoundInv /\ [Next]_vars => RoundInv'
  BY JoinStep, PublishStep, IntrudeStep, CloseStep, CrankStep, OtherStep DEF Next

-----------------------------------------------------------------------------
(* The theorems.                                                           *)

\* What every state of a round satisfies: the registrations are those of
\* different members, the digest is the fold of the messages up to the count
\* (process_maci_messages), and a commitment to somebody else's key is no older than
\* the reveal it was copied from.
THEOREM RoundInvariant == Spec => []RoundInv
  BY InitRound, StepRound, PTL DEF Spec

LEMMA RoundIsQueue == RoundInv => ChainIsQueue
  <1> SUFFICES ASSUME RoundInv PROVE ChainIsQueue
    OBVIOUS
  <1>1. DOMAIN chain = 1..processed /\ \A i \in 1..processed : chain[i] = [index |-> i - 1, item |-> messages[i]]
    BY DEF RoundInv, Queue, Folded
  <1>2. Len(chain) = processed
    BY <1>1 DEF RoundInv, Queue
  <1>3. /\ Len(messages) \in Nat /\ frozen <= Len(messages)
    BY LenProperties DEF RoundInv, Typed, Queue, Open
  <1>4. Len(signups) <= Cardinality(Members)
    BY Bounds, FS_Subset DEF RoundInv, Roll
  <1>5. Range(signups) \subseteq (UNION { KeysOf(m) : m \in Members }) \cup {StrangersKey}
    <2> DEFINE Keys == (UNION { KeysOf(m) : m \in Members }) \cup {StrangersKey}
    <2>1. signups \in Seq(Keys)
      BY DEF RoundInv, Roll
    <2> HIDE DEF Keys
    <2>2. Range(signups) \subseteq Keys
      BY <2>1, LenProperties DEF Range
    <2>. QED
      BY <2>2 DEF Keys
  <1>6. \A m \in Members : voter[m].nonce <= MaxNonce
    BY Bounds DEF RoundInv, Typed, Client
  <1>7. MaciTypeOK
    <2>1. /\ now \in 0..MaxTime /\ stage \in {Open, Closed, Processed} /\ Len(messages) <= MaxMessages
          /\ failures <= MaxFailures
      BY Bounds DEF RoundInv, Typed
    <2>2. Len(signups) = Cardinality(registered) /\ processed <= frozen
      BY DEF RoundInv, Roll, Queue
    <2>. QED
      BY <1>3, <1>4, <1>5, <1>6, <2>1, <2>2 DEF MaciTypeOK
  <1>8. /\ stage # Open => frozen = Len(messages)
        /\ stage = Processed => Len(chain) = Len(messages)
    BY <1>2 DEF RoundInv, Queue, Open, Processed
  <1>. QED
    BY <1>1, <1>2, <1>7, <1>8 DEF ChainIsQueue

\* What the chain folded is the queue, whichever cranks ran beside each other:
\* every message published before the round was closed, each once, in the order
\* of publication (publish_maci_message, close_maci_round, process_maci_messages).
THEOREM ChainIsQueueAlways == Spec => []ChainIsQueue
  BY RoundInvariant, RoundIsQueue, PTL

\* Every sign-up and every key is registered once, and a key that is not the
\* member's was committed to no earlier than the reveal it was copied from and in an
\* earlier slot than it was registered in (maci_signup_commit, maci_signup).
THEOREM SignUpHoldsAlways == Spec => []SignUpHolds
  <1>1. RoundInv => SignUpHolds
    BY DEF RoundInv
  <1>. QED
    BY <1>1, RoundInvariant, PTL

-----------------------------------------------------------------------------
(* Arrays sorted by a strict total order.                                  *)

\* Induction on the naturals: what fails fails first somewhere.
LEMMA LeastOf ==
    ASSUME NEW B, B \in SUBSET Nat, B # {}
    PROVE  \E k \in B : \A j \in B : k <= j
  <1>1. PICK k \in B : \A j \in B : <<j, k>> \notin OpToRel(<, Nat)
    BY WFMin, NatLessThanWellFounded, Zenon
  <1>2. k \in Nat /\ \A j \in B : j \in Nat
    OBVIOUS
  <1>3. \A j \in B : ~(j < k)
    BY <1>1, <1>2, Zenon DEF OpToRel
  <1>. QED
    BY <1>2, <1>3

\* A strict total order on S, as the set of its pairs, and a sequence that lists
\* S along it.
OrderOn(R, S) ==
    /\ \A a, b \in S : <<a, b>> \in R => <<b, a>> \notin R
    /\ \A a, b, c \in S : <<a, b>> \in R /\ <<b, c>> \in R => <<a, c>> \in R
    /\ \A a, b \in S : a # b => <<a, b>> \in R \/ <<b, a>> \in R
Lists(s, S, R) ==
    /\ s \in [1..Cardinality(S) -> S]
    /\ \A i, j \in DOMAIN s : i < j => <<s[i], s[j]>> \in R
Below(R, S, a) == { x \in S : <<x, a>> \in R }

\* Different members have different numbers of members below them.
LEMMA RankDiffers ==
    ASSUME NEW S, IsFiniteSet(S), NEW R, OrderOn(R, S), NEW a \in S, NEW b \in S,
           <<a, b>> \in R
    PROVE  Cardinality(Below(R, S, a)) < Cardinality(Below(R, S, b))
  <1>1. Below(R, S, a) \in SUBSET Below(R, S, b) /\ a \in Below(R, S, b) /\ a \notin Below(R, S, a)
    BY DEF Below, OrderOn
  <1>2. IsFiniteSet(Below(R, S, b))
    <2>1. Below(R, S, b) \in SUBSET S
      BY DEF Below
    <2>. QED
      BY <2>1, FS_Subset
  <1>3. Below(R, S, a) # Below(R, S, b)
    BY <1>1
  <1>4. /\ Cardinality(Below(R, S, a)) \in Nat /\ Cardinality(Below(R, S, b)) \in Nat
        /\ Cardinality(Below(R, S, a)) <= Cardinality(Below(R, S, b))
        /\ Cardinality(Below(R, S, a)) # Cardinality(Below(R, S, b))
    BY <1>1, <1>2, <1>3, FS_Subset, FS_CardinalityType
  <1>. QED
    BY <1>4

LEMMA RankRange ==
    ASSUME NEW S, IsFiniteSet(S), NEW R, OrderOn(R, S), NEW a \in S
    PROVE  Cardinality(Below(R, S, a)) \in 0..(Cardinality(S) - 1)
  <1>1. Below(R, S, a) \in SUBSET S /\ a \notin Below(R, S, a)
    BY DEF Below, OrderOn
  <1>2. IsFiniteSet(Below(R, S, a)) /\ Cardinality(Below(R, S, a)) \in Nat /\ Cardinality(S) \in Nat
    BY <1>1, FS_Subset, FS_CardinalityType
  <1>3. Cardinality(Below(R, S, a)) <= Cardinality(S) /\ Cardinality(Below(R, S, a)) # Cardinality(S)
    BY <1>1, FS_Subset
  <1>. QED
    BY <1>2, <1>3

\* The members can be listed: each at the place its rank gives it.
LEMMA ListExists ==
    ASSUME NEW S, IsFiniteSet(S), NEW R, OrderOn(R, S)
    PROVE  \E s : Lists(s, S, R)
  <1> DEFINE n == Cardinality(S)
             rank == [a \in S |-> Cardinality(Below(R, S, a)) + 1]
  <1>1. n \in Nat
    BY FS_CardinalityType
  <1>2. rank \in [S -> 1..n]
    <2>1. \A a \in S : Cardinality(Below(R, S, a)) + 1 \in 1..n
      <3>. TAKE a \in S
      <3>1. Cardinality(Below(R, S, a)) \in 0..(n - 1)
        BY RankRange
      <3>. HIDE DEF n
      <3>. QED
        BY <1>1, <3>1
    <2>. QED
      BY <2>1
  <1>3. \A a, b \in S : <<a, b>> \in R => rank[a] < rank[b]
    <2>. SUFFICES ASSUME NEW a \in S, NEW b \in S, <<a, b>> \in R PROVE rank[a] < rank[b]
      OBVIOUS
    <2>1. Cardinality(Below(R, S, a)) < Cardinality(Below(R, S, b))
      BY RankDiffers
    <2>2. Cardinality(Below(R, S, a)) \in Int /\ Cardinality(Below(R, S, b)) \in Int
      BY RankRange
    <2>. QED
      BY <2>1, <2>2
  <1> HIDE DEF rank
  <1>4. ASSUME NEW a \in S, NEW b \in S, rank[a] = rank[b] PROVE a = b
    <2>1. rank[a] \in Int /\ rank[b] \in Int
      BY <1>2
    <2>2. <<a, b>> \notin R /\ <<b, a>> \notin R
      BY <1>3, <1>4, <2>1
    <2>. QED
      BY <2>2 DEF OrderOn
  <1>5. rank \in Injection(S, 1..n)
    BY <1>2, <1>4, Fun_IsInj
  <1>6. IsFiniteSet(1..n) /\ Cardinality(1..n) = n
    <2>. HIDE DEF n
    <2>. QED
      BY <1>1, FS_Interval
  <1>7. rank \in Surjection(S, 1..n)
    BY <1>5, <1>6, FS_Injection
  <1>8. \A i \in 1..n : \E a \in S : rank[a] = i
    BY <1>7 DEF Surjection
  <1> DEFINE s == [i \in 1..n |-> CHOOSE a \in S : rank[a] = i]
  <1>9. \A i \in 1..n : s[i] \in S /\ rank[s[i]] = i
    BY <1>8
  <1>10. s \in [1..n -> S]
    BY <1>9
  <1> HIDE DEF s, n
  <1>11. ASSUME NEW i \in 1..n, NEW j \in 1..n, i < j PROVE <<s[i], s[j]>> \in R
    <2>1. s[i] \in S /\ s[j] \in S /\ rank[s[i]] = i /\ rank[s[j]] = j
      BY <1>9
    <2>2. s[i] # s[j]
      BY <1>11, <2>1
    <2>3. <<s[j], s[i]>> \notin R
      BY <1>3, <1>11, <2>1
    <2>. QED
      BY <2>1, <2>2, <2>3 DEF OrderOn
  <1>12. DOMAIN s = 1..n
    BY <1>10
  <1>13. Lists(s, S, R)
    BY <1>10, <1>11, <1>12 DEF Lists, n
  <1>. QED
    BY <1>13

\* A list has every member once.
LEMMA ListComplete ==
    ASSUME NEW S, IsFiniteSet(S), NEW R, OrderOn(R, S), NEW s, Lists(s, S, R)
    PROVE  /\ s \in Bijection(1..Cardinality(S), S)
           /\ \A i, j \in 1..Cardinality(S) : s[i] = s[j] => i = j
           /\ \A a \in S : \E i \in 1..Cardinality(S) : s[i] = a
  <1> DEFINE n == Cardinality(S)
  <1>1. n \in Nat /\ IsFiniteSet(1..n) /\ Cardinality(1..n) = n
    <2>1. n \in Nat
      BY FS_CardinalityType
    <2>. HIDE DEF n
    <2>. QED
      BY <2>1, FS_Interval
  <1>2. s \in [1..n -> S] /\ DOMAIN s = 1..n
    BY DEF Lists
  <1>3. \A i, j \in 1..n : i < j => <<s[i], s[j]>> \in R
    BY <1>2 DEF Lists
  <1>4. \A i \in 1..n : s[i] \in S /\ <<s[i], s[i]>> \notin R
    BY <1>2 DEF OrderOn
  <1>5. \A i, j \in 1..n : s[i] = s[j] => i = j
    <2>. SUFFICES ASSUME NEW i \in 1..n, NEW j \in 1..n, s[i] = s[j], i # j PROVE FALSE
      OBVIOUS
    <2>. HIDE DEF n
    <2>1. i < j \/ j < i
      BY <1>1
    <2>. QED
      BY <1>3, <1>4, <2>1
  <1>6. s \in Injection(1..n, S)
    BY <1>2, <1>5, Fun_IsInj
  <1>7. s \in Surjection(1..n, S)
    BY <1>1, <1>6, FS_Injection
  <1>. QED
    BY <1>5, <1>6, <1>7 DEF Bijection, Surjection

\* At place i stands the member with i - 1 members below it.
LEMMA ListRank ==
    ASSUME NEW S, IsFiniteSet(S), NEW R, OrderOn(R, S), NEW s, Lists(s, S, R),
           NEW i \in 1..Cardinality(S)
    PROVE  s[i] \in S /\ Cardinality(Below(R, S, s[i])) = i - 1
  <1> DEFINE n == Cardinality(S)
             f == [k \in 1..(i - 1) |-> s[k]]
  <1>0. n \in Nat /\ i \in 1..n
    BY FS_CardinalityType
  <1>1. /\ s \in [1..n -> S] /\ DOMAIN s = 1..n
        /\ \A k, l \in 1..n : k < l => <<s[k], s[l]>> \in R
    BY DEF Lists
  <1>2. /\ \A k, l \in 1..n : s[k] = s[l] => k = l
        /\ \A a \in S : \E k \in 1..n : s[k] = a
    BY ListComplete
  <1> HIDE DEF n
  <1>3. i - 1 \in Nat /\ \A k \in 1..(i - 1) : k \in 1..n /\ k < i
    BY <1>0
  <1>4. f \in [1..(i - 1) -> Below(R, S, s[i])]
    BY <1>0, <1>1, <1>3 DEF Below
  <1>5. \A k, l \in 1..(i - 1) : f[k] = f[l] => k = l
    BY <1>2, <1>3
  <1>6. \A a \in Below(R, S, s[i]) : \E k \in 1..(i - 1) : f[k] = a
    <2>. TAKE a \in Below(R, S, s[i])
    <2>1. a \in S /\ <<a, s[i]>> \in R /\ s[i] \in S
      BY <1>0, <1>1 DEF Below
    <2>2. PICK k \in 1..n : s[k] = a
      BY <1>2, <2>1
    <2>3. <<s[i], a>> \notin R /\ a # s[i]
      BY <2>1 DEF OrderOn
    <2>4. ~(i < k) /\ i # k
      BY <1>0, <1>1, <2>2, <2>3
    <2>5. k \in 1..(i - 1)
      BY <1>0, <2>2, <2>4
    <2>. QED
      BY <2>2, <2>5
  <1> HIDE DEF f
  <1>7. f \in Bijection(1..(i - 1), Below(R, S, s[i]))
    BY <1>4, <1>5, <1>6, Fun_IsBij
  <1>8. Cardinality(Below(R, S, s[i])) = i - 1
    BY <1>3, <1>7, Fun_ExistsBij, FS_CountingElements
  <1>. QED
    BY <1>0, <1>1, <1>8

\* There is one list.
LEMMA ListUnique ==
    ASSUME NEW S, IsFiniteSet(S), NEW R, OrderOn(R, S), NEW s, Lists(s, S, R), NEW t, Lists(t, S, R)
    PROVE  s = t
  <1>1. /\ s \in [1..Cardinality(S) -> S] /\ t \in [1..Cardinality(S) -> S]
    BY DEF Lists
  <1>2. ASSUME NEW i \in 1..Cardinality(S) PROVE s[i] = t[i]
    <2>1. /\ s[i] \in S /\ Cardinality(Below(R, S, s[i])) = i - 1
          /\ t[i] \in S /\ Cardinality(Below(R, S, t[i])) = i - 1
      BY ListRank
    <2>2. <<s[i], t[i]>> \notin R /\ <<t[i], s[i]>> \notin R
      <3>1. \A a, b \in S : <<a, b>> \in R => Cardinality(Below(R, S, a)) < Cardinality(Below(R, S, b))
        BY RankDiffers
      <3>2. i - 1 \in Int /\ ~(i - 1 < i - 1)
        BY FS_CardinalityType
      <3>. QED
        BY <2>1, <3>1, <3>2
    <2>. QED
      BY <2>1, <2>2 DEF OrderOn
  <1> DEFINE n == Cardinality(S)
  <1> HIDE DEF n
  <1>3. \A i \in 1..n : s[i] = t[i]
    BY <1>2 DEF n
  <1>4. s \in [1..n -> S] /\ t \in [1..n -> S]
    BY <1>1 DEF n
  <1>5. s = [i \in 1..n |-> s[i]] /\ t = [i \in 1..n |-> t[i]]
    BY <1>4
  <1>6. [i \in 1..n |-> s[i]] = [i \in 1..n |-> t[i]]
    BY <1>3
  <1>. QED
    BY <1>5, <1>6

\* The entries of a list of accounts, each with its index: what the program folds
\* into a digest, and what an auditor makes of the accounts.
Listed(q) == [i \in 1..Len(q) |-> [index |-> i - 1, item |-> q[i]]]
IndexPairs(S) == { p \in S \X S : ByIndex(p[1], p[2]) }

LEMMA ListedRecords ==
    ASSUME NEW T, NEW q \in Seq(T)
    PROVE  /\ IsFiniteSet(Records(q)) /\ Cardinality(Records(q)) = Len(q)
           /\ \A r \in Records(q) : r.index + 1 \in DOMAIN q /\ r.item = q[r.index + 1]
           /\ \A r, x \in Records(q) : r.index = x.index => r = x
           /\ Listed(q) \in [1..Len(q) -> Records(q)]
  <1> DEFINE n == Len(q)
  <1>1. n \in Nat /\ DOMAIN q = 1..n
    BY LenProperties
  <1> HIDE DEF n
  <1>2. \A r \in Records(q) : \E i \in 1..n : r = [index |-> i - 1, item |-> q[i]]
    BY <1>1 DEF Records
  <1>3. \A i \in 1..n : (i - 1) + 1 = i
    BY <1>1
  <1>4. \A r \in Records(q) : /\ r.index + 1 \in 1..n /\ r.item = q[r.index + 1]
                              /\ r = [index |-> (r.index + 1) - 1, item |-> q[r.index + 1]]
    BY <1>2, <1>3
  <1>5. \A r, x \in Records(q) : r.index = x.index => r = x
    BY <1>4
  <1>6. Listed(q) \in [1..n -> Records(q)]
    BY <1>1 DEF Listed, Records, n
  <1>7. \A r \in Records(q) : \E i \in 1..n : Listed(q)[i] = r
    BY <1>2 DEF Listed, n
  <1>8. \A i, j \in 1..n : Listed(q)[i] = Listed(q)[j] => i = j
    <2>1. \A i \in 1..n : Listed(q)[i].index = i - 1
      BY DEF Listed, n
    <2>. QED
      BY <1>1, <2>1
  <1>9. Listed(q) \in Bijection(1..n, Records(q))
    BY <1>6, <1>7, <1>8, Fun_IsBij
  <1>10. IsFiniteSet(1..n) /\ ExistsBijection(1..n, Records(q))
    BY <1>1, <1>9, FS_Interval, Fun_ExistsBij
  <1>11. IsFiniteSet(Records(q)) /\ Cardinality(Records(q)) = n
    BY <1>1, <1>10, FS_CountingElements, FS_Bijection
  <1>. QED
    BY <1>1, <1>4, <1>5, <1>6, <1>11 DEF n

\* Sorted by their indices, the accounts are in the order they were made in.
LEMMA InIndexOrderListed ==
    ASSUME NEW T, NEW q \in Seq(T)
    PROVE  InIndexOrder(Records(q)) = Listed(q)
  <1> DEFINE S == Records(q)
  <1>1. IsFiniteSet(S) /\ Cardinality(S) = Len(q) /\ Listed(q) \in [1..Len(q) -> S]
    BY ListedRecords
  <1>2. \A r \in S : r.index \in Int
    <2>1. DOMAIN q = 1..Len(q) /\ Len(q) \in Nat
      BY LenProperties
    <2>. QED
      BY <2>1 DEF Records
  <1>3. \A r, x \in S : r.index = x.index => r = x
    BY ListedRecords
  <1> HIDE DEF S
  <1>4. OrderOn(IndexPairs(S), S)
    BY <1>2, <1>3 DEF OrderOn, IndexPairs, ByIndex
  <1>5. Len(q) \in Nat
    BY LenProperties
  <1>6. Lists(Listed(q), S, IndexPairs(S))
    <2>1. DOMAIN Listed(q) = 1..Len(q) /\ \A i \in 1..Len(q) : Listed(q)[i] \in S /\ Listed(q)[i].index = i - 1
      BY <1>1 DEF Listed
    <2>2. \A i, j \in 1..Len(q) : i < j => <<Listed(q)[i], Listed(q)[j]>> \in IndexPairs(S)
      BY <1>5, <2>1 DEF IndexPairs, ByIndex
    <2>. QED
      BY <1>1, <2>1, <2>2 DEF Lists
  <1> DEFINE Is(s) == \A i, j \in DOMAIN s : i < j => ByIndex(s[i], s[j])
  <1>7. \A s \in [1..Cardinality(S) -> S] : Is(s) <=> Lists(s, S, IndexPairs(S))
    <2>. TAKE s \in [1..Cardinality(S) -> S]
    <2>1. \A i \in DOMAIN s : s[i] \in S
      OBVIOUS
    <2>. QED
      BY <2>1 DEF Lists, IndexPairs
  <1>8. Listed(q) \in [1..Cardinality(S) -> S] /\ Is(Listed(q))
    BY <1>1, <1>6, <1>7
  <1>9. \A s \in [1..Cardinality(S) -> S] : Is(s) => s = Listed(q)
    BY <1>1, <1>4, <1>6, <1>7, ListUnique
  <1>10. InIndexOrder(S) = CHOOSE s \in [1..Cardinality(S) -> S] : Is(s)
    BY DEF InIndexOrder, Sorted
  <1> HIDE DEF Is
  <1>. QED
    BY <1>8, <1>9, <1>10 DEF S

-----------------------------------------------------------------------------
(* The audit.                                                              *)

AuditRecord(at, state, found, chainMatches, signupMatches) ==
    [at |-> at, state |-> state, signups |-> found,
     chainDigestMatches |-> chainMatches, signupDigestMatches |-> signupMatches]
StateRecord(digest, folded, phase, done, count) ==
    [digest |-> digest, chain |-> folded, stage |-> phase, processed |-> done, frozen |-> count]
AuditShape ==
    \E at, digest, folded, phase, done, count, found, chainMatches, signupMatches :
        audit = AuditRecord(at, StateRecord(digest, folded, phase, done, count),
                            found, chainMatches, signupMatches)

\* The state account as it was read, of a round that was closed then.
ReadOfState ==
    /\ audit.state.frozen = Len(messages)
    /\ audit.state.chain = Folded(0, audit.state.processed)
    /\ audit.state.stage = Processed <=> audit.state.processed = audit.state.frozen

Reading ==
    /\ AuditShape
    /\ audit.at \in {"idle", "state", "signups", "done"}
    /\ audit.at # "idle" => stage # Open
    /\ audit.at = "state" => audit.state.digest = Listed(signups) /\ ReadOfState
    /\ audit.at = "signups" => audit.state.digest = audit.signups /\ ReadOfState
    /\ AuditAgrees

\* The electorate's digest is the fold of the sign-ups, and a round that is
\* closed only has something left to fold.
Electorate == signupDigest = Listed(signups)
Unfinished == stage = Closed => processed < frozen

AuditInv == Electorate /\ Unfinished /\ Reading

\* A round that is closed stays so, with its electorate and its queue.
Settled == stage # Open => stage' # Open /\ UNCHANGED <<signups, signupDigest, messages, frozen>>

LEMMA ReadingKept ==
    ASSUME Reading, Settled, UNCHANGED audit
    PROVE  Reading'
  <1>1. AuditShape' /\ AuditAgrees'
    BY DEF Reading, AuditShape, AuditAgrees
  <1>2. CASE audit.at = "idle" \/ audit.at = "done"
    BY <1>1, <1>2 DEF Reading, Settled
  <1>3. CASE audit.at \in {"state", "signups"}
    <2>1. UNCHANGED <<signups, messages>> /\ stage' # Open
      BY <1>3 DEF Reading, Settled
    <2>2. ReadOfState => ReadOfState'
      BY <2>1 DEF ReadOfState, Folded
    <2>3. Listed(signups)' = Listed(signups)
      BY <2>1 DEF Listed
    <2>. QED
      BY <1>1, <1>3, <2>1, <2>2, <2>3 DEF Reading
  <1>. QED
    BY <1>2, <1>3 DEF Reading

LEMMA SameAudit ==
    ASSUME AuditInv, UNCHANGED <<stage, signups, signupDigest, messages, frozen, processed, audit>>
    PROVE  AuditInv'
  <1>1. Electorate' /\ Unfinished' /\ Settled
    BY DEF AuditInv, Electorate, Unfinished, Listed, Settled
  <1>. QED
    BY <1>1, ReadingKept DEF AuditInv

LEMMA ElectorateGrows ==
    ASSUME RoundInv, Electorate, NEW m, NEW key, MaciSignup(m, key)
    PROVE  Electorate'
  <1> DEFINE n == Len(signups)
             Keys == (UNION { KeysOf(x) : x \in Members }) \cup {StrangersKey}
             e == [index |-> n, item |-> key]
  <1>1. signups \in Seq(Keys)
    BY DEF RoundInv, Roll
  <1>2. signups' = Append(signups, key) /\ signupDigest' = Append(signupDigest, e)
    BY DEF MaciSignup
  <1> HIDE DEF Keys
  <1>3. signups \in Seq(Keys \cup {key}) /\ key \in Keys \cup {key} /\ n \in Nat
    BY <1>1, LenProperties
  <1>4. /\ Len(signups') = n + 1 /\ signups'[n + 1] = key
        /\ \A i \in 1..n : signups'[i] = signups[i]
    BY <1>2, <1>3, AppendProperties
  <1> DEFINE Entry == { [index |-> i - 1, item |-> signups[i]] : i \in 1..n }
  <1>5. signupDigest \in [1..n -> Entry] /\ signupDigest = Listed(signups)
    BY DEF Electorate, Listed
  <1> HIDE DEF Entry, e
  <1>6. signupDigest \in Seq(Entry \cup {e}) /\ Len(signupDigest) = n
    <2>1. signupDigest \in [1..n -> Entry \cup {e}] /\ DOMAIN signupDigest = 1..n
      BY <1>5
    <2>2. signupDigest \in Seq(Entry \cup {e})
      BY <1>3, <2>1
    <2>. QED
      BY <1>3, <2>1, <2>2, LenProperties
  <1>7. /\ signupDigest' \in Seq(Entry \cup {e}) /\ Len(signupDigest') = n + 1 /\ signupDigest'[n + 1] = e
        /\ \A i \in 1..n : signupDigest'[i] = signupDigest[i]
    BY <1>2, <1>6, AppendProperties
  <1> HIDE DEF n
  <1>8. \A i \in 1..(n + 1) : signupDigest'[i] = [index |-> i - 1, item |-> signups'[i]]
    <2>. TAKE i \in 1..(n + 1)
    <2>1. CASE i \in 1..n
      BY <1>4, <1>5, <1>7, <2>1 DEF Listed, n
    <2>2. CASE i = n + 1
      BY <1>3, <1>4, <1>7, <2>2 DEF e
    <2>. QED
      BY <1>3, <2>1, <2>2
  <1>9. signupDigest' = [i \in 1..(n + 1) |-> signupDigest'[i]]
    <2>1. DOMAIN signupDigest' = 1..(n + 1)
      BY <1>7, LenProperties
    <2>. QED
      BY <1>7, <2>1
  <1>10. [i \in 1..(n + 1) |-> signupDigest'[i]] = [i \in 1..(n + 1) |-> [index |-> i - 1, item |-> signups'[i]]]
    BY <1>8
  <1>11. Listed(signups)' = [i \in 1..(n + 1) |-> [index |-> i - 1, item |-> signups'[i]]]
    BY <1>4 DEF Listed
  <1>. QED
    BY <1>9, <1>10, <1>11 DEF Electorate

LEMMA InitAudit == Init => AuditInv
  <1> SUFFICES ASSUME Init PROVE AuditInv
    OBVIOUS
  <1>1. Electorate
    <2>1. Len(signups) = 0 /\ 1..0 = {}
      BY EmptySeq DEF Init
    <2>. QED
      BY <2>1 DEF Init, Electorate, Listed
  <1>2. AuditShape /\ audit.at = "idle"
    <2>1. audit = AuditRecord("idle", StateRecord(<<>>, <<>>, Open, 0, 0), <<>>, FALSE, FALSE)
      BY DEF Init, NoAudit, AuditRecord, StateRecord
    <2>. HIDE DEF Init
    <2>. QED
      BY <2>1 DEF AuditShape, AuditRecord
  <1>. QED
    BY <1>1, <1>2 DEF Init, AuditInv, Unfinished, Reading, AuditAgrees, Open, Closed

\* What members, strangers and time do to a round.
LEMMA AuditJoin ==
    ASSUME RoundInv, AuditInv, NEW m \in Members,
           \/ Commit(m) \/ Reveal(m) \/ RevealLands(m) \/ RevealFails(m)
           \/ StrangerCommits(m) \/ StrangerReveals(m)
    PROVE  AuditInv'
  <1>1. CASE Commit(m) \/ Reveal(m) \/ RevealFails(m) \/ StrangerCommits(m)
    <2>1. UNCHANGED <<stage, signups, signupDigest, messages, frozen, processed, audit>>
      BY <1>1 DEF Commit, Reveal, RevealFails, StrangerCommits, chainVars
    <2>. QED
      BY <2>1, SameAudit
  <1>2. ASSUME NEW key, MaciSignup(m, key), UNCHANGED <<stage, messages, frozen, processed, audit>>
        PROVE  AuditInv'
    <2>1. Electorate'
      BY <1>2, ElectorateGrows DEF AuditInv
    <2>2. stage = Open
      BY <1>2 DEF MaciSignup
    <2>3. Reading'
      BY <1>2, <2>2, ReadingKept DEF AuditInv, Settled
    <2>. QED
      BY <1>2, <2>1, <2>3 DEF AuditInv, Unfinished
  <1>3. CASE RevealLands(m)
    BY <1>2, <1>3 DEF RevealLands
  <1>4. CASE StrangerReveals(m)
    BY <1>2, <1>4 DEF StrangerReveals
  <1>. QED
    BY <1>1, <1>3, <1>4

LEMMA AuditPublish ==
    ASSUME AuditInv,
           \/ \E m \in Members :
                 \/ \E v \in Votes, b \in BOOLEAN : Publish(m, v, b)
                 \/ \E b \in BOOLEAN : PublishLands(m, b)
                 \/ PublishRefused(m)
           \/ \E command \in Coerced \cup {Junk} : Intrude(command)
    PROVE  AuditInv'
  <1>1. /\ UNCHANGED <<stage, signups, signupDigest, frozen, processed, audit>>
        /\ stage # Open => UNCHANGED messages
    BY DEF Publish, PublishLands, PublishRefused, Intrude, PublishMaciMessage, chainVars
  <1>2. Electorate' /\ Unfinished'
    BY <1>1 DEF AuditInv, Electorate, Unfinished, Listed
  <1>. QED
    BY <1>1, <1>2, ReadingKept DEF AuditInv, Settled

LEMMA AuditClose ==
    ASSUME RoundInv, AuditInv, CloseMaciRound
    PROVE  AuditInv'
  <1>1. Len(messages) \in Nat /\ (messages = <<>> <=> Len(messages) = 0)
    BY LenProperties, EmptySeq DEF RoundInv, Typed
  <1>2. Unfinished'
    BY <1>1 DEF CloseMaciRound, Unfinished, Closed, Processed
  <1>3. Electorate'
    BY DEF CloseMaciRound, AuditInv, Electorate, Listed
  <1>. QED
    BY <1>2, <1>3, ReadingKept DEF CloseMaciRound, AuditInv, Settled

LEMMA AuditCrank ==
    ASSUME RoundInv, AuditInv, NEW c \in Crankers, CrankReads(c) \/ CrankSends(c)
    PROVE  AuditInv'
  <1>1. CASE UNCHANGED chainVars
    BY <1>1, SameAudit DEF CrankReads, CrankSends, chainVars
  <1>2. ASSUME NEW i \in Int, NEW n \in Int, ProcessMaciMessages(i, n),
               UNCHANGED <<signups, signupDigest, messages, frozen, audit>>
        PROVE  AuditInv'
    <2>1. /\ stage = Closed /\ n > 0 /\ processed + n <= frozen /\ processed' = processed + n
          /\ stage' = IF processed' = frozen THEN Processed ELSE stage
      BY <1>2 DEF ProcessMaciMessages
    <2>2. stage' # Open
      BY <2>1 DEF Open, Closed, Processed
    <2>3. Unfinished'
      <3>1. CASE processed' = frozen
        BY <2>1, <3>1 DEF Unfinished, Closed, Processed
      <3>2. CASE processed' # frozen
        <4>1. processed' <= frozen
          BY <2>1
        <4>2. processed' \in Int /\ frozen \in Int
          BY <2>1 DEF RoundInv, Queue
        <4>. QED
          BY <1>2, <3>2, <4>1, <4>2 DEF Unfinished
      <3>. QED
        BY <3>1, <3>2
    <2>4. Electorate'
      BY <1>2 DEF AuditInv, Electorate, Listed
    <2>. QED
      BY <1>2, <2>2, <2>3, <2>4, ReadingKept DEF AuditInv, Settled
  <1>3. crank[c].index \in Int /\ crank[c].end \in Int /\ Batch \in Int
    BY Bounds DEF RoundInv, Typed
  <1>. QED
    BY <1>1, <1>2, <1>3 DEF CrankReads, CrankSends

\* The three reads of an audit.
LEMMA AuditReadStep ==
    ASSUME RoundInv, AuditInv, AuditState \/ AuditSignups \/ AuditMessages
    PROVE  AuditInv'
  <1>1. UNCHANGED chainVars
    BY DEF AuditState, AuditSignups, AuditMessages
  <1>2. Electorate' /\ Unfinished'
    BY <1>1 DEF AuditInv, Electorate, Unfinished, Listed, chainVars
  <1>3. Folded(0, processed)' = Folded(0, processed) /\ Listed(signups)' = Listed(signups)
    BY <1>1 DEF chainVars, Folded, Listed
  <1>4. \A k : Folded(0, k)' = Folded(0, k)
    BY <1>1 DEF chainVars, Folded
  <1>5. CASE AuditState
    <2>1. audit' = [NoAudit EXCEPT !.at = "state",
                       !.state = [digest |-> signupDigest, chain |-> chain, stage |-> stage,
                                  processed |-> processed, frozen |-> frozen]]
      BY <1>5 DEF AuditState
    <2>2. /\ AuditShape' /\ audit'.at = "state" /\ audit'.state.digest = signupDigest
          /\ audit'.state.chain = chain /\ audit'.state.stage = stage
          /\ audit'.state.processed = processed /\ audit'.state.frozen = frozen
      <3>1. audit' = AuditRecord("state", StateRecord(signupDigest, chain, stage, processed, frozen),
                                 <<>>, FALSE, FALSE)
        BY <2>1 DEF NoAudit, AuditRecord, StateRecord
      <3>. QED
        BY <3>1 DEF AuditShape, AuditRecord, StateRecord
    <2>3. stage # Open
      BY <1>5 DEF AuditState
    <2>4. stage = Processed <=> processed = frozen
      BY <2>3 DEF RoundInv, AuditInv, Typed, Queue, Unfinished
    <2>5. frozen = Len(messages) /\ chain = Folded(0, processed)
      BY <2>3 DEF RoundInv, Queue
    <2>6. ReadOfState'
      BY <1>1, <1>3, <2>2, <2>4, <2>5 DEF ReadOfState, chainVars, Processed, Folded
    <2>7. Reading'
      BY <1>1, <1>3, <2>2, <2>3, <2>6 DEF AuditInv, Electorate, Reading, AuditAgrees, chainVars, Open
    <2>. QED
      BY <1>2, <2>7 DEF AuditInv
  <1>6. CASE AuditSignups
    <2>1. audit.at = "state" /\ audit' = [audit EXCEPT !.at = "signups", !.signups = InIndexOrder(Records(signups))]
      BY <1>6 DEF AuditSignups
    <2>2. InIndexOrder(Records(signups)) = Listed(signups)
      BY InIndexOrderListed DEF RoundInv, Roll
    <2>3. /\ AuditShape' /\ audit'.at = "signups" /\ audit'.signups = Listed(signups)
          /\ audit'.state = audit.state
      <3>1. PICK at, digest, folded, phase, done, count, s0, c0, e0 :
               audit = AuditRecord(at, StateRecord(digest, folded, phase, done, count), s0, c0, e0)
        BY DEF AuditInv, Reading, AuditShape
      <3>2. audit' = AuditRecord("signups", StateRecord(digest, folded, phase, done, count),
                                 Listed(signups), c0, e0)
        BY <2>1, <2>2, <3>1 DEF AuditRecord
      <3>3. AuditShape'
        BY <3>2 DEF AuditShape
      <3>. QED
        BY <3>1, <3>2, <3>3 DEF AuditRecord
    <2>4. audit.state.digest = Listed(signups) /\ ReadOfState /\ stage # Open
      BY <2>1 DEF AuditInv, Reading
    <2>5. ReadOfState'
      BY <1>1, <2>3, <2>4 DEF ReadOfState, chainVars, Folded
    <2>6. Reading'
      BY <1>1, <1>3, <2>3, <2>4, <2>5 DEF Reading, AuditAgrees, chainVars, Open
    <2>. QED
      BY <1>2, <2>6 DEF AuditInv
  <1>7. CASE AuditMessages
    <2> DEFINE found == SubSeq(InIndexOrder(Records(messages)), 1, audit.state.frozen)
    <2>1. /\ audit.at = "signups"
          /\ audit' = [audit EXCEPT !.at = "done", !.signups = <<>>,
                          !.state = [NoAudit.state EXCEPT !.stage = audit.state.stage],
                          !.chainDigestMatches = audit.state.processed = audit.state.frozen
                                                  /\ found = audit.state.chain,
                          !.signupDigestMatches = audit.signups = audit.state.digest]
      BY <1>7 DEF AuditMessages
    <2>2. audit.state.digest = audit.signups /\ ReadOfState /\ stage # Open
      BY <2>1 DEF AuditInv, Reading
    <2>3. found = Folded(0, Len(messages))
      <3>1. InIndexOrder(Records(messages)) = Listed(messages)
        BY InIndexOrderListed DEF RoundInv, Typed
      <3>2. Listed(messages) = Folded(0, Len(messages))
        BY DEF Listed, Folded
      <3>3. Listed(messages) \in [1..Len(messages) -> Records(messages)] /\ Len(messages) \in Nat
        BY ListedRecords, LenProperties DEF RoundInv, Typed
      <3>4. Listed(messages) \in Seq(Records(messages)) /\ DOMAIN Listed(messages) = 1..Len(messages)
        BY <3>3
      <3>5. Len(Listed(messages)) = Len(messages)
        BY <3>3, <3>4, LenProperties
      <3>6. SubSeq(Listed(messages), 1, Len(messages)) = Listed(messages)
        BY <3>4, <3>5, SubSeqFull
      <3>. QED
        BY <2>2, <3>1, <3>2, <3>6 DEF ReadOfState
    <2> HIDE DEF found
    <2>4. /\ AuditShape' /\ audit'.at = "done" /\ audit'.state.stage = audit.state.stage
          /\ audit'.signupDigestMatches = (audit.signups = audit.state.digest)
          /\ audit'.chainDigestMatches
                = (audit.state.processed = audit.state.frozen /\ found = audit.state.chain)
      <3>1. PICK at, digest, folded, phase, done, count, s0, c0, e0 :
               audit = AuditRecord(at, StateRecord(digest, folded, phase, done, count), s0, c0, e0)
        BY DEF AuditInv, Reading, AuditShape
      <3> DEFINE cm == audit.state.processed = audit.state.frozen /\ found = audit.state.chain
                 sm == audit.signups = audit.state.digest
      <3>2. /\ audit' = [audit EXCEPT !.at = "done", !.signups = <<>>,
                            !.state = [NoAudit.state EXCEPT !.stage = phase],
                            !.chainDigestMatches = cm, !.signupDigestMatches = sm]
            /\ audit.state.stage = phase
        BY <2>1, <3>1 DEF AuditRecord, StateRecord
      <3> HIDE DEF cm, sm
      <3>3. audit' = AuditRecord("done", StateRecord(<<>>, <<>>, phase, 0, 0), <<>>, cm, sm)
        BY <3>1, <3>2 DEF AuditRecord, StateRecord, NoAudit
      <3>4. AuditShape'
        BY <3>3 DEF AuditShape
      <3>5. /\ audit'.at = "done" /\ audit'.state.stage = phase
            /\ audit'.chainDigestMatches = cm /\ audit'.signupDigestMatches = sm
        BY <3>3 DEF AuditRecord, StateRecord
      <3>. QED
        BY <3>2, <3>4, <3>5 DEF cm, sm
    <2>5. audit.state.stage = Processed
             <=> audit.state.processed = audit.state.frozen /\ found = audit.state.chain
      BY <2>2, <2>3 DEF ReadOfState
    <2>6. AuditAgrees'
      BY <2>2, <2>4, <2>5 DEF AuditAgrees, Processed
    <2>7. Reading'
      BY <1>1, <2>2, <2>4, <2>6 DEF Reading, chainVars, Open
    <2>. QED
      BY <1>2, <2>7 DEF AuditInv
  <1>. QED
    BY <1>5, <1>6, <1>7

LEMMA StepAudit == RoundInv /\ AuditInv /\ [Next]_vars => AuditInv'
  <1> SUFFICES ASSUME RoundInv, AuditInv, [Next]_vars PROVE AuditInv'
    OBVIOUS
  <1>1. CASE Tick \/ UNCHANGED vars
    BY <1>1, SameAudit DEF Tick, vars, chainVars
  <1>. QED
    BY <1>1, AuditJoin, AuditPublish, AuditClose, AuditCrank, AuditReadStep DEF Next

\* An audit of a closed round finds the electorate's digest right, and the
\* chain's exactly when the round it read was processed, though it reads three
\* lists of accounts one after the other (auditMaciRound, lib/maci.ts).
THEOREM AuditAgreesAlways == Spec => []AuditAgrees
  <1>1. AuditInv => AuditAgrees
    BY DEF AuditInv, Reading
  <1>. QED
    BY <1>1, RoundInvariant, InitAudit, StepAudit, PTL DEF Spec

-----------------------------------------------------------------------------
(* The order of the queue and the tally.                                   *)

\* The records of a voter's bucket, the order they are sorted in, and those up to
\* a nonce.
BucketOf(key, q) == { r \in Records(q) : r.item.stateKey = key }
NoncePairs(S) == { p \in S \X S : ByNonce(p[1], p[2]) }

\* As lists of accounts with nonces are.
Indexed(S) == /\ IsFiniteSet(S) /\ \A r \in S : r.index \in Int /\ r.item.nonce \in Int
              /\ \A r, x \in S : r.index = x.index => r = x
InNonceOrder(s, S) == s = Sorted(S, ByNonce)

LEMMA BucketIndexed ==
    ASSUME NEW q \in Seq(Command), NEW key
    PROVE  /\ Indexed(BucketOf(key, q))
           /\ \A r \in BucketOf(key, q) : /\ r.index + 1 \in DOMAIN q /\ r.item = q[r.index + 1]
                                          /\ r.item.stateKey = key
           /\ BucketOf(key, q)
                = { [index |-> i - 1, item |-> q[i]] : i \in { j \in DOMAIN q : q[j].stateKey = key } }
  <1>1. DOMAIN q = 1..Len(q) /\ Len(q) \in Nat /\ \A i \in DOMAIN q : q[i] \in Command
    BY LenProperties
  <1>2. /\ IsFiniteSet(Records(q))
        /\ \A r \in Records(q) : r.index + 1 \in DOMAIN q /\ r.item = q[r.index + 1]
        /\ \A r, x \in Records(q) : r.index = x.index => r = x
    BY ListedRecords
  <1>3. BucketOf(key, q) \in SUBSET Records(q)
    BY DEF BucketOf
  <1>4. IsFiniteSet(BucketOf(key, q))
    BY <1>2, <1>3, FS_Subset
  <1>5. \A r \in Records(q) : r.index \in Int
    BY <1>1 DEF Records
  <1>6. \A r \in Records(q) : r.item.nonce \in Int
    <2>1. \A c \in Command : c.nonce \in Int
      BY Bounds DEF Command
    <2>. QED
      BY <1>1, <1>2, <2>1
  <1>7. BucketOf(key, q)
           = { [index |-> i - 1, item |-> q[i]] : i \in { j \in DOMAIN q : q[j].stateKey = key } }
    BY DEF BucketOf, Records
  <1>. QED
    BY <1>2, <1>3, <1>4, <1>5, <1>6, <1>7 DEF Indexed, BucketOf

\* Sorting a bucket lists it.
LEMMA NonceLists ==
    ASSUME NEW S, Indexed(S), NEW s, InNonceOrder(s, S)
    PROVE  OrderOn(NoncePairs(S), S) /\ Lists(s, S, NoncePairs(S))
  <1>1. OrderOn(NoncePairs(S), S)
    <2>1. \A a, b \in S : ByNonce(a, b) => ~ByNonce(b, a)
      BY DEF Indexed, ByNonce, ByIndex
    <2>2. \A a, b, c \in S : ByNonce(a, b) /\ ByNonce(b, c) => ByNonce(a, c)
      BY DEF Indexed, ByNonce, ByIndex
    <2>3. \A a, b \in S : a # b => ByNonce(a, b) \/ ByNonce(b, a)
      BY DEF Indexed, ByNonce, ByIndex
    <2>4. \A a, b \in S : <<a, b>> \in NoncePairs(S) <=> ByNonce(a, b)
      BY DEF NoncePairs
    <2>. HIDE DEF NoncePairs
    <2>. QED
      BY <2>1, <2>2, <2>3, <2>4 DEF OrderOn
  <1> DEFINE Is(t) == \A i, j \in DOMAIN t : i < j => ByNonce(t[i], t[j])
             n == Cardinality(S)
  <1>2. \A t \in [1..n -> S] : Is(t) <=> Lists(t, S, NoncePairs(S))
    <2>. TAKE t \in [1..n -> S]
    <2>1. \A i \in DOMAIN t : t[i] \in S
      OBVIOUS
    <2>. QED
      BY <2>1 DEF Lists, NoncePairs
  <1>3. \E t \in [1..n -> S] : Is(t)
    <2>1. PICK t : Lists(t, S, NoncePairs(S))
      BY <1>1, ListExists DEF Indexed
    <2>. QED
      BY <1>2, <2>1 DEF Lists
  <1>4. s = CHOOSE t \in [1..n -> S] : Is(t)
    BY DEF InNonceOrder, Sorted
  <1> HIDE DEF Is
  <1>5. s \in [1..n -> S] /\ Is(s)
    BY <1>3, <1>4
  <1>6. Lists(s, S, NoncePairs(S))
    BY <1>2, <1>5
  <1>. QED
    BY <1>1, <1>6

\* The nonces in it never fall.
LEMMA NonceOrder ==
    ASSUME NEW S, Indexed(S), NEW s, InNonceOrder(s, S)
    PROVE  /\ s \in Bijection(1..Cardinality(S), S)
           /\ \A i, j \in 1..Cardinality(S) : i <= j => s[i].item.nonce <= s[j].item.nonce
  <1> DEFINE n == Cardinality(S)
  <1>1. OrderOn(NoncePairs(S), S) /\ Lists(s, S, NoncePairs(S))
    BY NonceLists
  <1>2. s \in [1..n -> S] /\ \A i, j \in 1..n : i < j => ByNonce(s[i], s[j])
    BY <1>1 DEF Lists, NoncePairs
  <1>3. s \in Bijection(1..n, S)
    BY <1>1, ListComplete DEF Indexed
  <1>4. ASSUME NEW i \in 1..n, NEW j \in 1..n, i <= j PROVE s[i].item.nonce <= s[j].item.nonce
    <2>1. s[i] \in S /\ s[j] \in S /\ DOMAIN s = 1..n
      BY <1>2
    <2>2. n \in Nat
      BY FS_CardinalityType DEF Indexed
    <2>. HIDE DEF n
    <2>3. CASE i = j
      BY <2>1, <2>3 DEF Indexed
    <2>4. CASE i < j
      <3>1. ByNonce(s[i], s[j])
        BY <1>2, <2>1, <2>4
      <3>. QED
        BY <2>1, <3>1 DEF Indexed, ByNonce
    <2>. QED
      BY <1>4, <2>2, <2>3, <2>4
  <1>. QED
    BY <1>3, <1>4

\* The records of a voter's bucket, before and after the queue is reordered: the
\* items are the same, and come in the same order.
Matches(g, S, T) ==
    /\ g \in Bijection(S, T) /\ \A r \in S : g[r].item = r.item
    /\ \A a, b \in S : ByNonce(a, b) => ByNonce(g[a], g[b])

LEMMA BucketMoves ==
    ASSUME NEW q \in Seq(Command), NEW p \in [DOMAIN q -> DOMAIN q], IsInjective(p), NEW key,
           \A i, j \in DOMAIN q : i < j /\ Tied(q[p[i]], q[p[j]]) => p[i] < p[j],
           NEW u, u = [i \in DOMAIN q |-> q[p[i]]]
    PROVE  /\ u \in Seq(Command)
           /\ \E g : Matches(g, BucketOf(key, u), BucketOf(key, q))
  <1> DEFINE n == Len(q)
             D == { j \in DOMAIN q : q[j].stateKey = key }
             E == { j \in DOMAIN u : u[j].stateKey = key }
  <1>1. n \in Nat /\ DOMAIN q = 1..n /\ \A i \in 1..n : q[i] \in Command
    BY LenProperties
  <1>2. p \in [1..n -> 1..n] /\ \A a, b \in 1..n : p[a] = p[b] => a = b
    BY <1>1 DEF IsInjective
  <1>3. \A j \in 1..n : \E i \in 1..n : p[i] = j
    <2> HIDE DEF n
    <2>1. p \in Injection(1..n, 1..n)
      BY <1>2, Fun_IsInj
    <2>2. IsFiniteSet(1..n)
      BY <1>1, FS_Interval
    <2>3. p \in Surjection(1..n, 1..n)
      BY <2>1, <2>2, FS_Injection
    <2>. QED
      BY <2>3 DEF Surjection
  <1>4. u = [i \in 1..n |-> q[p[i]]] /\ DOMAIN u = 1..n
    BY <1>1
  <1>5. u \in [1..n -> Command]
    BY <1>1, <1>2, <1>4
  <1>6. u \in Seq(Command)
    <2> HIDE DEF n
    <2>. QED
      BY <1>1, <1>5
  <1> DEFINE g == [r \in BucketOf(key, u) |-> [index |-> p[r.index + 1] - 1, item |-> r.item]]
  <1>7. \A r \in BucketOf(key, u) :
           /\ r.index + 1 \in 1..n /\ r.item = q[p[r.index + 1]] /\ r.item.stateKey = key
           /\ r.index \in Int
    <2>1. \A r \in BucketOf(key, u) : r.index + 1 \in DOMAIN u /\ r.item = u[r.index + 1] /\ r.item.stateKey = key
      BY <1>6, BucketIndexed
    <2>2. \A r \in BucketOf(key, u) : r.index \in Int
      BY <1>6, BucketIndexed DEF Indexed
    <2>. QED
      BY <1>4, <2>1, <2>2
  <1>8. BucketOf(key, q) = { [index |-> i - 1, item |-> q[i]] : i \in D }
    BY BucketIndexed
  <1>9. BucketOf(key, u) = { [index |-> i - 1, item |-> u[i]] : i \in E }
    BY <1>6, BucketIndexed
  <1>10. g \in [BucketOf(key, u) -> BucketOf(key, q)]
    <2>. SUFFICES ASSUME NEW r \in BucketOf(key, u)
                  PROVE  [index |-> p[r.index + 1] - 1, item |-> r.item] \in BucketOf(key, q)
      OBVIOUS
    <2>1. p[r.index + 1] \in D /\ r.item = q[p[r.index + 1]]
      BY <1>1, <1>2, <1>7
    <2>. QED
      BY <1>8, <2>1
  <1>11. \A a, b \in BucketOf(key, u) : g[a] = g[b] => a = b
    <2>. SUFFICES ASSUME NEW a \in BucketOf(key, u), NEW b \in BucketOf(key, u), g[a] = g[b]
                  PROVE  a = b
      OBVIOUS
    <2>1. p[a.index + 1] - 1 = p[b.index + 1] - 1
      OBVIOUS
    <2>2. p[a.index + 1] \in Int /\ p[b.index + 1] \in Int
      BY <1>2, <1>7
    <2>3. a.index + 1 = b.index + 1
      BY <1>2, <1>7, <2>1, <2>2
    <2>4. a.index = b.index
      BY <1>7, <2>3
    <2>. QED
      BY <1>6, <2>4, BucketIndexed DEF Indexed
  <1>12. \A x \in BucketOf(key, q) : \E r \in BucketOf(key, u) : g[r] = x
    <2>. TAKE x \in BucketOf(key, q)
    <2>0. PICK j \in D : x = [index |-> j - 1, item |-> q[j]]
      BY <1>8
    <2>1. PICK i \in 1..n : p[i] = j
      BY <1>1, <1>3
    <2>2. u[i] = q[j] /\ i \in E
      BY <1>4, <2>1
    <2> DEFINE r == [index |-> i - 1, item |-> u[i]]
    <2>3. r \in BucketOf(key, u) /\ r.index + 1 = i /\ r.item = q[j]
      BY <1>1, <1>9, <2>2
    <2>. HIDE DEF r
    <2>4. g[r] = [index |-> j - 1, item |-> q[j]]
      BY <2>1, <2>3
    <2>. QED
      BY <2>0, <2>3, <2>4
  <1>13. \A r \in BucketOf(key, u) : g[r].item = r.item /\ g[r].index = p[r.index + 1] - 1
    OBVIOUS
  <1> HIDE DEF g
  <1>14. g \in Bijection(BucketOf(key, u), BucketOf(key, q))
    BY <1>10, <1>11, <1>12, Fun_IsBij
  <1>15. ASSUME NEW a \in BucketOf(key, u), NEW b \in BucketOf(key, u), ByNonce(a, b)
         PROVE  ByNonce(g[a], g[b])
    <2>1. CASE a.item.nonce < b.item.nonce
      BY <1>13, <2>1 DEF ByNonce
    <2>2. CASE a.item.nonce = b.item.nonce /\ a.index < b.index
      <3>1. /\ a.index + 1 \in 1..n /\ b.index + 1 \in 1..n /\ a.index + 1 < b.index + 1
            /\ p[a.index + 1] \in 1..n /\ p[b.index + 1] \in 1..n
        BY <1>2, <1>7, <2>2
      <3>2. Tied(q[p[a.index + 1]], q[p[b.index + 1]])
        BY <1>7, <2>2 DEF Tied
      <3>3. p[a.index + 1] < p[b.index + 1]
        BY <1>1, <3>1, <3>2
      <3>4. g[a].index < g[b].index
        BY <1>1, <1>13, <3>1, <3>3
      <3>. QED
        BY <1>13, <2>2, <3>4 DEF ByNonce, ByIndex
    <2>. QED
      BY <1>15, <2>1, <2>2 DEF ByNonce, ByIndex
  <1>. QED
    BY <1>6, <1>13, <1>14, <1>15 DEF Matches

\* A voter's commands are applied in the same order however the queue was.
LEMMA BucketOrderFree ==
    ASSUME NEW q \in Seq(Command), NEW u \in Reordered(q), NEW key
    PROVE  Bucket(key, Records(u)) = Bucket(key, Records(q))
  <1>1. PICK p \in [DOMAIN q -> DOMAIN q] :
            /\ IsInjective(p) /\ u = [i \in DOMAIN q |-> q[p[i]]]
            /\ \A i, j \in DOMAIN q : i < j /\ Tied(q[p[i]], q[p[j]]) => p[i] < p[j]
    BY DEF Reordered
  <1>2. u \in Seq(Command)
    BY <1>1, BucketMoves
  <1>3. PICK g : Matches(g, BucketOf(key, u), BucketOf(key, q))
    BY <1>1, BucketMoves
  <1> DEFINE S == BucketOf(key, q)
             T == BucketOf(key, u)
             s == Sorted(S, ByNonce)
             t == Sorted(T, ByNonce)
             n == Cardinality(S)
  <1>4. Indexed(S) /\ Indexed(T) /\ InNonceOrder(s, S) /\ InNonceOrder(t, T)
    BY <1>2, BucketIndexed DEF InNonceOrder
  <1>5. Bucket(key, Records(q)) = [i \in DOMAIN s |-> s[i].item]
    BY DEF Bucket, BucketOf
  <1>6. Bucket(key, Records(u)) = [i \in DOMAIN t |-> t[i].item]
    BY DEF Bucket, BucketOf
  <1>7. Matches(g, T, S)
    BY <1>3
  <1> HIDE DEF s, t, S, T
  <1>8. g \in [T -> S] /\ Cardinality(T) = n
    BY <1>4, <1>7, FS_Bijection, Fun_ExistsBij, Fun_BijectionProperties DEF Indexed, Matches
  <1>9. /\ OrderOn(NoncePairs(S), S) /\ Lists(s, S, NoncePairs(S))
        /\ OrderOn(NoncePairs(T), T) /\ Lists(t, T, NoncePairs(T))
    BY <1>4, NonceLists
  <1>10. s \in [1..n -> S] /\ t \in [1..n -> T]
    BY <1>8, <1>9 DEF Lists
  <1> DEFINE moved == [i \in 1..n |-> g[t[i]]]
  <1>11. Lists(moved, S, NoncePairs(S))
    <2>1. moved \in [1..n -> S] /\ DOMAIN moved = 1..n
      BY <1>8, <1>10
    <2>2. ASSUME NEW i \in 1..n, NEW j \in 1..n, i < j PROVE <<moved[i], moved[j]>> \in NoncePairs(S)
      <3>1. t[i] \in T /\ t[j] \in T /\ ByNonce(t[i], t[j])
        BY <1>9, <1>10, <2>2 DEF Lists, NoncePairs
      <3>2. ByNonce(g[t[i]], g[t[j]]) /\ g[t[i]] \in S /\ g[t[j]] \in S
        BY <1>7, <1>8, <3>1 DEF Matches
      <3>. QED
        BY <3>2 DEF NoncePairs
    <2>. HIDE DEF moved
    <2>. QED
      BY <2>1, <2>2 DEF Lists
  <1>12. moved = s
    <2>. HIDE DEF moved
    <2>. QED
      BY <1>4, <1>9, <1>11, ListUnique DEF Indexed
  <1>13. ASSUME NEW i \in 1..n PROVE s[i].item = t[i].item
    BY <1>7, <1>10, <1>12 DEF Matches
  <1>14. DOMAIN s = 1..n /\ DOMAIN t = 1..n
    BY <1>10
  <1>. QED
    BY <1>5, <1>6, <1>13, <1>14

LEMMA RoundIsOrderFree == RoundInv => OrderFree
  <1> SUFFICES ASSUME RoundInv, NEW u \in Reordered(messages)
               PROVE  ApplyMaciQueue(signups, Records(u)) = ApplyMaciQueue(signups, Records(messages))
    BY DEF OrderFree
  <1>1. \A key : Bucket(key, Records(u)) = Bucket(key, Records(messages))
    BY BucketOrderFree DEF RoundInv, Typed
  <1>2. \A key : VoterState(key, Records(u)) = VoterState(key, Records(messages))
    BY <1>1 DEF VoterState
  <1>. QED
    BY <1>2 DEF ApplyMaciQueue

\* The tally depends on the commands and not on the order they were published in,
\* as long as a voter's commands of one nonce keep theirs: every bucket is sorted
\* into the same commands (applyMaciQueue, lib/maci-command.ts).
THEOREM OrderFreeAlways == Spec => []OrderFree
  BY RoundInvariant, RoundIsOrderFree, PTL

-----------------------------------------------------------------------------
(* The commands of members and strangers.                                  *)

\* A command a member's client makes, and any command there is: a stranger's is
\* signed with the sign-up key it is addressed to.
Own(m, command) ==
    /\ command.by = m /\ command.stateKey = <<m, 0>> /\ command.nonce >= 1
    /\ \E x \in Nat : /\ command.signer = <<m, x>>
                     /\ \/ command.newKey = <<m, x>>
                        \/ \E y \in Nat \ {0} : command.newKey = <<m, y>>
Made(command) ==
    \/ \E m \in Members : Own(m, command)
    \/ command.by = Stranger /\ command.signer = command.stateKey

Clients ==
    \A m \in Members :
        voter[m].key \in Nat /\ (voter[m].sending.busy => Own(m, voter[m].sending.command))
CommandInv == Clients /\ \A i \in DOMAIN messages : Made(messages[i])

LEMMA SameClients ==
    ASSUME Clients, Typed, NEW m \in Members, NEW b, voter' = [voter EXCEPT ![m].joining = b]
    PROVE  Clients'
  <1>1. \A n \in Members : voter'[n].key = voter[n].key /\ voter'[n].sending = voter[n].sending
    BY DEF Typed, Client
  <1>. QED
    BY <1>1 DEF Clients

LEMMA MadeMore ==
    ASSUME RoundInv, CommandInv, NEW index, NEW command \in Command, Made(command),
           PublishMaciMessage(index, command)
    PROVE  \A i \in DOMAIN messages' : Made(messages'[i])
  <1>1. messages \in Seq(Command) /\ messages' = Append(messages, command)
    BY DEF RoundInv, Typed, PublishMaciMessage
  <1>2. /\ messages' \in Seq(Command) /\ Len(messages') = Len(messages) + 1 /\ Len(messages) \in Nat
        /\ \A i \in 1..Len(messages) : messages'[i] = messages[i]
        /\ messages'[Len(messages) + 1] = command
    BY <1>1, AppendProperties, LenProperties
  <1>3. DOMAIN messages = 1..Len(messages) /\ DOMAIN messages' = 1..(Len(messages) + 1)
    BY <1>1, <1>2, LenProperties
  <1>. QED
    BY <1>2, <1>3 DEF CommandInv

LEMMA InitCommands == Init => CommandInv
  <1> SUFFICES ASSUME Init PROVE CommandInv
    OBVIOUS
  <1>1. NoClient.key \in Nat /\ ~NoClient.sending.busy
    BY DEF NoClient, Silent
  <1>2. \A m \in Members : voter[m] = NoClient
    BY DEF Init
  <1>3. DOMAIN messages = {}
    BY DEF Init
  <1>. QED
    BY <1>1, <1>2, <1>3 DEF CommandInv, Clients

LEMMA CommandPublish ==
    ASSUME RoundInv, CommandInv, NEW m \in Members,
           \/ \E v \in Votes, b \in BOOLEAN : Publish(m, v, b)
           \/ \E b \in BOOLEAN : PublishLands(m, b)
           \/ PublishRefused(m)
    PROVE  CommandInv'
  <1>0. /\ voter[m] \in Client /\ voter \in [Members -> Client] /\ voter[m].key \in Nat
        /\ voter[m].nonce \in Nat
    BY Bounds DEF RoundInv, Typed, Client, CommandInv, Clients
  <1>1. ASSUME NEW v \in Votes, NEW b \in BOOLEAN, Publish(m, v, b)
        PROVE  CommandInv'
    <2> DEFINE own == [stateKey |-> <<m, 0>>,
                       signer |-> <<m, voter[m].key>>,
                       newKey |-> IF b THEN NewKey(m) ELSE <<m, voter[m].key>>,
                       nonce |-> voter[m].nonce + 1, vote |-> v, by |-> m]
               sent == [at |-> Len(messages), command |-> own, busy |-> TRUE]
    <2>1. voter' = [voter EXCEPT ![m].sending = sent] /\ UNCHANGED messages
      BY <1>1 DEF Publish, chainVars
    <2>2. Own(m, own)
      <3>1. Len(messages) + 1 \in Nat \ {0} /\ NewKey(m) = <<m, Len(messages) + 1>>
        BY LenProperties DEF RoundInv, Typed, NewKey
      <3>. QED
        BY <1>0, <3>1 DEF Own
    <2> HIDE DEF own
    <2>3. sent.command = own
      OBVIOUS
    <2> HIDE DEF sent
    <2>4. \A n \in Members : /\ voter'[n].key = voter[n].key
                             /\ n # m => voter'[n].sending = voter[n].sending
                             /\ n = m => voter'[n].sending = sent
      BY <1>0, <2>1 DEF Client
    <2>5. Clients'
      BY <2>2, <2>3, <2>4 DEF CommandInv, Clients
    <2>. QED
      BY <2>1, <2>5 DEF CommandInv
  <1>2. ASSUME NEW b \in BOOLEAN, PublishLands(m, b)
        PROVE  CommandInv'
    <2> DEFINE s == voter[m].sending
    <2>1. /\ s.busy /\ PublishMaciMessage(s.at, s.command)
          /\ voter' = [voter EXCEPT ![m].sending = Silent,
                          ![m].nonce = IF b THEN s.command.nonce ELSE @,
                          ![m].key = IF b THEN s.command.newKey[2] ELSE @]
      BY <1>2 DEF PublishLands
    <2>2. Own(m, s.command) /\ s.command \in Command
      BY <1>0, <2>1 DEF CommandInv, Clients, Client
    <2>3. s.command.newKey[2] \in Nat
      BY <2>2 DEF Own
    <2> DEFINE k == IF b THEN s.command.newKey[2] ELSE voter[m].key
    <2>4. k \in Nat
      BY <1>0, <2>3
    <2>5. /\ voter'[m].key = k /\ voter'[m].sending = Silent
          /\ \A n \in Members : n # m => voter'[n] = voter[n]
      BY <1>0, <2>1 DEF Client
    <2> HIDE DEF k, s
    <2>6. Clients'
      BY <2>4, <2>5 DEF CommandInv, Clients, Silent
    <2>7. Made(s.command)
      BY <2>2 DEF Made
    <2>. QED
      BY <2>1, <2>2, <2>6, <2>7, MadeMore DEF CommandInv
  <1>3. CASE PublishRefused(m)
    <2>1. voter' = [voter EXCEPT ![m].sending = Silent] /\ UNCHANGED messages
      BY <1>3 DEF PublishRefused, chainVars
    <2>2. \A n \in Members : /\ voter'[n].key = voter[n].key
                             /\ n # m => voter'[n].sending = voter[n].sending
                             /\ n = m => voter'[n].sending = Silent
      BY <1>0, <2>1 DEF Client
    <2>3. Clients'
      BY <2>2 DEF CommandInv, Clients, Silent
    <2>. QED
      BY <2>1, <2>3 DEF CommandInv
  <1>. QED
    BY <1>1, <1>2, <1>3

LEMMA StepCommands == RoundInv /\ CommandInv /\ [Next]_vars => CommandInv'
  <1> SUFFICES ASSUME RoundInv, CommandInv, [Next]_vars PROVE CommandInv'
    OBVIOUS
  <1>1. ASSUME UNCHANGED <<voter, messages>> PROVE CommandInv'
    BY <1>1 DEF CommandInv, Clients
  <1>2. ASSUME NEW m \in Members,
               \/ Commit(m) \/ Reveal(m) \/ RevealLands(m) \/ RevealFails(m)
               \/ StrangerCommits(m) \/ StrangerReveals(m)
        PROVE  CommandInv'
    <2>1. CASE UNCHANGED <<voter, messages>>
      BY <1>1, <2>1
    <2>2. ASSUME NEW b, voter' = [voter EXCEPT ![m].joining = b], UNCHANGED messages
          PROVE  CommandInv'
      BY <2>2, SameClients DEF CommandInv, RoundInv
    <2>. QED
      BY <1>2, <2>1, <2>2 DEF Commit, Reveal, RevealLands, RevealFails, StrangerCommits, StrangerReveals,
                              chainVars
  <1>3. ASSUME NEW command \in Coerced \cup {Junk}, Intrude(command)
        PROVE  CommandInv'
    <2>1. Made(command) /\ command \in Command
      BY JunkType, CoercedType DEF Made, Coerced, Junk
    <2>2. UNCHANGED voter /\ PublishMaciMessage(Len(messages), command)
      BY <1>3 DEF Intrude
    <2>. QED
      BY <2>1, <2>2, MadeMore DEF CommandInv, Clients
  <1>4. CASE \/ CloseMaciRound \/ (\E c \in Crankers : CrankReads(c) \/ CrankSends(c))
             \/ AuditState \/ AuditSignups \/ AuditMessages \/ Tick \/ UNCHANGED vars
    <2>1. UNCHANGED <<voter, messages>>
      BY <1>4 DEF CloseMaciRound, CrankReads, CrankSends, AuditState, AuditSignups, AuditMessages, Tick,
                  vars, chainVars
    <2>. QED
      BY <1>1, <2>1
  <1>. QED
    BY <1>2, <1>3, <1>4, CommandPublish DEF Next

-----------------------------------------------------------------------------
(* A part of a voter's commands, and the states they lead to.              *)

\* The places up to i at which a member of W is listed.
Places(s, W, i) == { j \in 1..i : s[j] \in W }

\* The list of a part follows the list of the whole.
LEMMA SubList ==
    ASSUME NEW S, IsFiniteSet(S), NEW R, OrderOn(R, S), NEW s, Lists(s, S, R),
           NEW W, W \in SUBSET S, NEW Q, OrderOn(Q, W), NEW t, Lists(t, W, Q),
           \A a, b \in W : <<a, b>> \in Q <=> <<a, b>> \in R,
           NEW i \in 1..Cardinality(S)
    PROVE  /\ Cardinality(Places(s, W, i)) \in Nat
           /\ s[i] \notin W => Cardinality(Places(s, W, i)) = Cardinality(Places(s, W, i - 1))
           /\ s[i] \in W =>
                 /\ Cardinality(Places(s, W, i)) = Cardinality(Places(s, W, i - 1)) + 1
                 /\ Cardinality(Places(s, W, i)) \in 1..Cardinality(W)
                 /\ t[Cardinality(Places(s, W, i))] = s[i]
  <1> DEFINE n == Cardinality(S)
  <1>0. n \in Nat /\ i \in 1..n
    BY FS_CardinalityType
  <1>1. /\ s \in [1..n -> S] /\ DOMAIN s = 1..n
        /\ \A k, l \in 1..n : k < l => <<s[k], s[l]>> \in R
    BY DEF Lists
  <1>2. /\ \A k, l \in 1..n : s[k] = s[l] => k = l
        /\ \A a \in S : \E k \in 1..n : s[k] = a
    BY ListComplete
  <1>3. IsFiniteSet(W)
    BY FS_Subset
  <1> HIDE DEF n
  <1>4. /\ IsFiniteSet(Places(s, W, i - 1)) /\ Cardinality(Places(s, W, i - 1)) \in Nat
        /\ IsFiniteSet(Places(s, W, i)) /\ Cardinality(Places(s, W, i)) \in Nat
    <2>1. Places(s, W, i - 1) \in SUBSET (1..(i - 1)) /\ Places(s, W, i) \in SUBSET (1..i)
      BY DEF Places
    <2>2. IsFiniteSet(1..(i - 1)) /\ IsFiniteSet(1..i)
      BY <1>0, FS_Interval
    <2>. QED
      BY <2>1, <2>2, FS_Subset, FS_CardinalityType
  <1>5. 1..i = (1..(i - 1)) \cup {i} /\ i \notin 1..(i - 1)
    BY <1>0
  <1>6. ASSUME s[i] \notin W PROVE Places(s, W, i) = Places(s, W, i - 1)
    BY <1>5, <1>6 DEF Places
  <1>7. ASSUME s[i] \in W
        PROVE  /\ Cardinality(Places(s, W, i)) = Cardinality(Places(s, W, i - 1)) + 1
               /\ Cardinality(Places(s, W, i)) \in 1..Cardinality(W)
               /\ t[Cardinality(Places(s, W, i))] = s[i]
    <2>1. Places(s, W, i) = Places(s, W, i - 1) \cup {i} /\ i \notin Places(s, W, i - 1)
      BY <1>5, <1>7 DEF Places
    <2>2. Cardinality(Places(s, W, i)) = Cardinality(Places(s, W, i - 1)) + 1
      BY <1>4, <2>1, FS_AddElement
    <2>3. PICK l \in 1..Cardinality(W) : t[l] = s[i]
      BY <1>3, <1>7, ListComplete
    <2>4. Cardinality(Below(Q, W, s[i])) = l - 1
      BY <1>3, <2>3, ListRank
    <2> DEFINE f == [j \in Places(s, W, i - 1) |-> s[j]]
    <2>5. \A j \in 1..(i - 1) : j \in 1..n /\ j < i
      BY <1>0
    <2>6. f \in [Places(s, W, i - 1) -> Below(Q, W, s[i])]
      <3>. SUFFICES ASSUME NEW j \in Places(s, W, i - 1) PROVE s[j] \in Below(Q, W, s[i])
        OBVIOUS
      <3>1. j \in 1..n /\ j < i /\ s[j] \in W
        BY <2>5 DEF Places
      <3>2. <<s[j], s[i]>> \in R
        BY <1>0, <1>1, <3>1
      <3>. QED
        BY <1>7, <3>1, <3>2 DEF Below
    <2>7. \A j, k \in Places(s, W, i - 1) : f[j] = f[k] => j = k
      BY <1>2, <2>5 DEF Places
    <2>8. \A x \in Below(Q, W, s[i]) : \E j \in Places(s, W, i - 1) : f[j] = x
      <3>. TAKE x \in Below(Q, W, s[i])
      <3>1. x \in W /\ <<x, s[i]>> \in R /\ x \in S /\ s[i] \in S
        BY <1>7 DEF Below
      <3>2. PICK j \in 1..n : s[j] = x
        BY <1>2, <3>1
      <3>3. <<s[i], x>> \notin R /\ x # s[i]
        BY <3>1 DEF OrderOn
      <3>4. ~(i < j) /\ i # j
        BY <1>0, <1>1, <3>2, <3>3
      <3>5. j \in Places(s, W, i - 1)
        BY <1>0, <3>1, <3>2, <3>4 DEF Places
      <3>. QED
        BY <3>2, <3>5
    <2> HIDE DEF f
    <2>9. f \in Bijection(Places(s, W, i - 1), Below(Q, W, s[i]))
      BY <2>6, <2>7, <2>8, Fun_IsBij
    <2>10. ExistsBijection(Places(s, W, i - 1), Below(Q, W, s[i]))
      BY <2>9, Fun_ExistsBij
    <2>11. Cardinality(Places(s, W, i - 1)) = l - 1
      BY <1>4, <2>4, <2>10, FS_Bijection
    <2>12. Cardinality(Places(s, W, i)) = l
      BY <2>2, <2>11
    <2>. QED
      BY <2>2, <2>3, <2>12
  <1>. QED
    BY <1>4, <1>6, <1>7

\* Before the first place nothing of the part is listed, up to the last all of it.
LEMMA PlacesEnds ==
    ASSUME NEW S, IsFiniteSet(S), NEW R, OrderOn(R, S), NEW s, Lists(s, S, R), NEW W, W \in SUBSET S
    PROVE  /\ Cardinality(Places(s, W, 0)) = 0
           /\ Cardinality(Places(s, W, Cardinality(S))) = Cardinality(W)
  <1> DEFINE n == Cardinality(S)
             f == [j \in Places(s, W, n) |-> s[j]]
  <1>0. n \in Nat
    BY FS_CardinalityType
  <1>1. /\ s \in [1..n -> S] /\ \A k, l \in 1..n : s[k] = s[l] => k = l
        /\ \A a \in S : \E k \in 1..n : s[k] = a
    <2>1. s \in [1..n -> S]
      BY DEF Lists
    <2>2. \A k, l \in 1..n : s[k] = s[l] => k = l
      BY ListComplete
    <2>3. \A a \in S : \E k \in 1..n : s[k] = a
      BY ListComplete
    <2>. QED
      BY <2>1, <2>2, <2>3
  <1> HIDE DEF n
  <1>2. Places(s, W, 0) = {}
    <2>1. 1..0 = {}
      OBVIOUS
    <2>. QED
      BY <2>1 DEF Places
  <1>3. f \in [Places(s, W, n) -> W] /\ \A j, k \in Places(s, W, n) : f[j] = f[k] => j = k
    BY <1>1 DEF Places
  <1>4. \A x \in W : \E j \in Places(s, W, n) : f[j] = x
    <2>. TAKE x \in W
    <2>1. PICK j \in 1..n : s[j] = x
      BY <1>1
    <2>2. j \in Places(s, W, n)
      BY <2>1 DEF Places
    <2>. QED
      BY <2>1, <2>2
  <1> HIDE DEF f
  <1>5. ExistsBijection(Places(s, W, n), W)
    BY <1>3, <1>4, Fun_IsBij, Fun_ExistsBij
  <1>6. IsFiniteSet(Places(s, W, n))
    <2>1. Places(s, W, n) \in SUBSET (1..n) /\ IsFiniteSet(1..n)
      BY <1>0, FS_Interval DEF Places
    <2>. QED
      BY <2>1, FS_Subset
  <1>7. Cardinality(Places(s, W, n)) = Cardinality(W)
    BY <1>5, <1>6, FS_Bijection
  <1>. QED
    BY <1>2, <1>7, FS_EmptySet DEF n

-----------------------------------------------------------------------------
(* The states of a voter.                                                  *)

Fresh(key) == [currentKey |-> key, nonce |-> 0, vote |-> Abstain]

\* The recursion of the states has a solution, so that they are one.
LEMMA StatesStep ==
    ASSUME NEW commands, Len(commands) \in Nat, NEW key
    PROVE  /\ States(key, commands)[0] = Fresh(key)
           /\ \A i \in 1..Len(commands) :
                 States(key, commands)[i] = Apply(States(key, commands)[i - 1], commands[i])
  <1> DEFINE n == Len(commands)
             Works(g, k) == g = [i \in 0..k |-> IF i = 0 THEN Fresh(key) ELSE Apply(g[i - 1], commands[i])]
             Bad == { k \in 0..n : ~\E g : Works(g, k) }
  <1>1. Bad = {}
    <2>. SUFFICES ASSUME Bad # {} PROVE FALSE
      OBVIOUS
    <2>1. Bad \in SUBSET Nat
      OBVIOUS
    <2>2. PICK k \in Bad : \A j \in Bad : k <= j
      <3> HIDE DEF Bad
      <3>. QED
        BY <2>1, LeastOf
    <2>3. k \in Nat /\ k <= n /\ ~\E g : Works(g, k)
      OBVIOUS
    <2>4. CASE k = 0
      <3> DEFINE g == [i \in 0..k |-> Fresh(key)]
      <3>1. \A i \in 0..k : i = 0
        BY <2>4
      <3>2. Works(g, k)
        BY <3>1
      <3>. QED
        BY <2>3, <3>2
    <2>5. CASE k # 0
      <3>1. k - 1 \in 0..n /\ k - 1 \notin Bad
        BY <2>2, <2>3, <2>5
      <3>2. PICK g : Works(g, k - 1)
        BY <3>1
      <3> DEFINE h == [i \in 0..k |-> IF i = k THEN Apply(g[k - 1], commands[k]) ELSE g[i]]
      <3>3. h[0] = Fresh(key)
        <4>1. 0 \in 0..k /\ 0 \in 0..(k - 1) /\ 0 # k
          BY <2>3, <2>5
        <4>. QED
          BY <3>2, <4>1
      <3>4. \A i \in 1..k : h[i] = Apply(h[i - 1], commands[i])
        <4>. TAKE i \in 1..k
        <4>1. i \in 0..k /\ i - 1 \in 0..k /\ i - 1 # k /\ i # 0
          BY <2>3
        <4>2. h[i - 1] = g[i - 1]
          BY <4>1
        <4>3. CASE i = k
          BY <4>1, <4>2, <4>3
        <4>4. CASE i # k
          <5>1. i \in 0..(k - 1)
            BY <2>3, <4>4
          <5>2. g[i] = Apply(g[i - 1], commands[i])
            BY <3>2, <4>1, <5>1
          <5>. QED
            BY <4>1, <4>2, <4>4, <5>2
        <4>. QED
          BY <4>3, <4>4
      <3>5. h = [i \in 0..k |-> h[i]]
        OBVIOUS
      <3> HIDE DEF h
      <3>6. \A i \in 0..k : h[i] = IF i = 0 THEN Fresh(key) ELSE Apply(h[i - 1], commands[i])
        <4>1. \A i \in 0..k : i # 0 => i \in 1..k
          BY <2>3
        <4>. QED
          BY <3>3, <3>4, <4>1
      <3>7. Works(h, k)
        BY <3>5, <3>6
      <3>. QED
        BY <2>3, <3>7
    <2>. QED
      BY <2>4, <2>5
  <1>2. \E g : Works(g, n)
    <2>1. n \in 0..n
      OBVIOUS
    <2>. QED
      BY <1>1, <2>1
  <1>3. States(key, commands) = CHOOSE g : Works(g, n)
    BY DEF States, Fresh
  <1>4. Works(States(key, commands), n)
    <2> HIDE DEF Works
    <2>. QED
      BY <1>2, <1>3
  <1>5. 0 \in 0..n /\ \A i \in 1..n : i \in 0..n /\ i # 0
    OBVIOUS
  <1>. QED
    BY <1>4, <1>5

-----------------------------------------------------------------------------
(* The change of keys.                                                     *)

\* A member's change of keys in a queue, the first command of its nonce, and no
\* foreign nonce is lower.
ChangeAt(q, m, c) ==
    /\ c \in DOMAIN q /\ q[c].by = m /\ q[c].signer = <<m, 0>> /\ q[c].newKey # <<m, 0>>
    /\ \A i \in DOMAIN q : q[i].stateKey = <<m, 0>> =>
          /\ q[i].by = Stranger => q[c].nonce <= q[i].nonce
          /\ q[i].nonce = q[c].nonce => c <= i
OwnRecords(m, q) == { r \in Records(q) : r.item.by = m }
Whole(m, q) == BucketOf(<<m, 0>>, q)
Part(m, q) == { r \in Whole(m, q) : r.item.by = m }

\* Whose a record of the bucket is.
LEMMA BucketMade ==
    ASSUME NEW m \in Members, NEW q \in Seq(Command), \A i \in DOMAIN q : Made(q[i]),
           NEW c, ChangeAt(q, m, c), NEW r \in Whole(m, q)
    PROVE  /\ r \in Part(m, q) => Own(m, r.item)
           /\ r \notin Part(m, q) => r.item.signer = <<m, 0>> /\ q[c].nonce <= r.item.nonce
           /\ r.item.nonce = q[c].nonce => c <= r.index + 1
  <1>1. PICK i \in DOMAIN q : r.item = q[i] /\ i = r.index + 1
    BY BucketIndexed DEF Whole
  <1>2. r.item.stateKey = <<m, 0>> /\ Made(r.item)
    BY <1>1, BucketIndexed DEF Whole
  <1>3. ASSUME NEW x \in Members, Own(x, r.item) PROVE x = m
    BY <1>2, <1>3 DEF Own
  <1>4. Stranger \notin Members
    BY MaciAssumption
  <1>5. r \in Part(m, q) => Own(m, r.item)
    BY <1>2, <1>3, <1>4 DEF Part, Made
  <1>6. ASSUME r \notin Part(m, q) PROVE r.item.signer = <<m, 0>> /\ q[c].nonce <= r.item.nonce
    <2>1. r.item.by # m
      BY <1>6 DEF Part
    <2>2. r.item.by = Stranger /\ r.item.signer = r.item.stateKey
      BY <1>2, <1>3, <2>1 DEF Made, Own
    <2>. QED
      BY <1>1, <1>2, <2>2 DEF ChangeAt
  <1>7. r.item.nonce = q[c].nonce => c <= r.index + 1
    BY <1>1, <1>2 DEF ChangeAt
  <1>. QED
    BY <1>5, <1>6, <1>7

\* One command: what it leaves of the sign-up key. The state is the one before
\* place i, p the place of the change and v its nonce.
Unchanged(state, m, i, p, v) ==
    /\ state.nonce \in Int /\ \E x \in Nat : state.currentKey = <<m, x>>
    /\ state.currentKey = <<m, 0>> => i < p /\ state.nonce < v

LEMMA OwnApplied ==
    ASSUME NEW m \in Members, NEW state, NEW i \in Nat, i > 0, NEW p \in Nat, NEW v \in Int,
           Unchanged(state, m, i - 1, p, v),
           NEW d, Own(m, d), d.nonce \in Int, i < p => d.nonce < v,
           i = p => d.nonce = v /\ d.signer = <<m, 0>> /\ d.newKey # <<m, 0>>
    PROVE  Unchanged(Apply(state, d), m, i, p, v)
  <1>1. PICK x \in Nat : /\ d.signer = <<m, x>>
                         /\ d.newKey = <<m, x>> \/ \E y \in Nat \ {0} : d.newKey = <<m, y>>
    BY DEF Own
  <1>2. CASE d.nonce > state.nonce /\ d.signer = state.currentKey
    <2>1. Apply(state, d) = [currentKey |-> d.newKey, nonce |-> d.nonce, vote |-> d.vote]
      BY <1>2 DEF Apply
    <2>2. \E y \in Nat : d.newKey = <<m, y>>
      BY <1>1
    <2>3. ASSUME d.newKey = <<m, 0>> PROVE i < p /\ d.nonce < v
      <3>1. x = 0
        BY <1>1, <2>3
      <3>2. state.currentKey = <<m, 0>>
        BY <1>1, <1>2, <3>1
      <3>3. i - 1 < p /\ i # p
        BY <2>3, <3>2 DEF Unchanged
      <3>. QED
        BY <3>3
    <2>. QED
      BY <2>1, <2>2, <2>3 DEF Unchanged
  <1>3. CASE ~(d.nonce > state.nonce /\ d.signer = state.currentKey)
    <2>1. Apply(state, d) = state
      BY <1>3 DEF Apply
    <2>2. ASSUME state.currentKey = <<m, 0>> PROVE i < p /\ state.nonce < v
      <3>1. i - 1 < p /\ state.nonce < v /\ state.nonce \in Int
        BY <2>2 DEF Unchanged
      <3>2. i # p
        BY <1>3, <2>2, <3>1
      <3>. QED
        BY <3>1, <3>2
    <2>. QED
      BY <2>1, <2>2 DEF Unchanged
  <1>. QED
    BY <1>2, <1>3

LEMMA ForeignApplied ==
    ASSUME NEW m \in Members, NEW state, NEW i \in Nat, i > 0, NEW p \in Nat, NEW v \in Int,
           Unchanged(state, m, i - 1, p, v), NEW d, d.signer = <<m, 0>>, p < i
    PROVE  Apply(state, d) = state /\ Unchanged(state, m, i, p, v)
  <1>1. state.currentKey # <<m, 0>>
    BY DEF Unchanged
  <1>. QED
    BY <1>1 DEF Apply, Unchanged

\* A voter's commands up to any place leave what the voter's own leave.
LEMMA KeyChangeInQueue ==
    ASSUME NEW m \in Members, NEW q \in Seq(Command), \A i \in DOMAIN q : Made(q[i]),
           NEW c, ChangeAt(q, m, c)
    PROVE  VoterState(<<m, 0>>, Records(q)) = VoterState(<<m, 0>>, OwnRecords(m, q))
  <1> DEFINE key == <<m, 0>>
             S == Whole(m, q)
             W == Part(m, q)
             s == Sorted(S, ByNonce)
             t == Sorted(W, ByNonce)
             n == Cardinality(S)
             Item(r) == r.item
             all == Bucket(key, Records(q))
             own == Bucket(key, OwnRecords(m, q))
             F == States(key, all)
             O == States(key, own)
             at(i) == Cardinality(Places(s, W, i))
             v == q[c].nonce
  <1>1. Indexed(S) /\ W \in SUBSET S
    BY BucketIndexed DEF Whole, Part
  <1>2. Indexed(W)
    BY <1>1, FS_Subset DEF Indexed
  <1>3. all = [i \in DOMAIN s |-> Item(s[i])]
    BY DEF Bucket, Whole, BucketOf
  <1>4. own = [i \in DOMAIN t |-> Item(t[i])]
    <2>1. { r \in OwnRecords(m, q) : r.item.stateKey = key } = W
      BY DEF OwnRecords, Part, Whole, BucketOf
    <2>. QED
      BY <2>1 DEF Bucket
  <1>5. /\ \A r \in S : r.item \in Command /\ \E i \in DOMAIN q : r.item = q[i]
        /\ \A r \in S : r.item.stateKey = key
    <2>1. \A r \in S : r.index + 1 \in DOMAIN q /\ r.item = q[r.index + 1] /\ r.item.stateKey = key
      BY BucketIndexed DEF Whole
    <2>2. \A i \in DOMAIN q : q[i] \in Command
      BY LenProperties
    <2>. QED
      BY <2>1, <2>2
  <1>6. \E r \in W : r.item = q[c] /\ r.index = c - 1
    <2>1. c \in DOMAIN q /\ q[c].by = m /\ q[c].signer = key /\ Made(q[c])
      BY DEF ChangeAt
    <2>2. q[c].stateKey = key
      BY <2>1, MaciAssumption DEF Made, Own
    <2> DEFINE r == [index |-> c - 1, item |-> q[c]]
    <2>3. r \in S
      BY <2>1, <2>2 DEF Whole, BucketOf, Records
    <2>. QED
      BY <2>1, <2>3 DEF Part
  <1>7. v \in Int
    <2>1. q[c] \in Command
      BY LenProperties DEF ChangeAt
    <2>. QED
      BY <2>1, Bounds DEF Command
  <1>8. \A r \in S : /\ r \in W => Own(m, r.item)
                     /\ r \notin W => r.item.signer = key /\ v <= r.item.nonce
                     /\ r.item.nonce = v => c <= r.index + 1
    BY BucketMade
  <1> HIDE DEF S, W, v
  <1>9. /\ OrderOn(NoncePairs(S), S) /\ Lists(s, S, NoncePairs(S))
        /\ OrderOn(NoncePairs(W), W) /\ Lists(t, W, NoncePairs(W))
    BY <1>1, <1>2, NonceLists DEF InNonceOrder
  <1>10. \A a, b \in W : <<a, b>> \in NoncePairs(W) <=> <<a, b>> \in NoncePairs(S)
    BY <1>1 DEF NoncePairs
  <1> HIDE DEF s, t
  <1>12. n \in Nat /\ Cardinality(W) \in Nat /\ IsFiniteSet(S) /\ IsFiniteSet(W)
    BY <1>1, <1>2, FS_CardinalityType DEF Indexed
  <1>13. s \in [1..n -> S] /\ DOMAIN s = 1..n /\ t \in [1..Cardinality(W) -> W] /\ DOMAIN t = 1..Cardinality(W)
    BY <1>9 DEF Lists
  <1>14. PICK p \in 1..n : s[p] \in W /\ s[p].item = q[c] /\ s[p].index = c - 1
    <2>1. PICK r \in W : r.item = q[c] /\ r.index = c - 1
      BY <1>6
    <2>2. PICK i \in 1..n : s[i] = r
      BY <1>1, <1>9, <1>12, ListComplete
    <2>. QED
      BY <2>1, <2>2
  <1>11. ASSUME NEW i \in 1..n, i < p PROVE s[i].item.nonce < v
    <2>1. ByNonce(s[i], s[p])
      BY <1>9, <1>11, <1>13 DEF Lists, NoncePairs
    <2>2. s[i] \in S /\ s[i].index \in Int /\ c \in Int
      BY <1>1, <1>13, LenProperties DEF Indexed, ChangeAt
    <2>3. s[i].item.nonce = v => c <= s[i].index + 1
      BY <1>8, <2>2
    <2>4. s[p].item.nonce = v
      BY <1>14 DEF v
    <2>. QED
      BY <1>14, <2>1, <2>2, <2>3, <2>4 DEF ByNonce, ByIndex
  <1>15. Len(all) = n /\ Len(own) = Cardinality(W)
    <2>1. all = [i \in 1..n |-> Item(s[i])] /\ own = [i \in 1..Cardinality(W) |-> Item(t[i])]
      BY <1>3, <1>4, <1>13
    <2> DEFINE Any == { Item(r) : r \in S }
    <2>2. \A i \in 1..n : Item(s[i]) \in Any
      BY <1>13
    <2>3. \A i \in 1..Cardinality(W) : Item(t[i]) \in Any
      BY <1>1, <1>13
    <2>. HIDE DEF Any, Item, all, own, n
    <2>4. all \in [1..n -> Any] /\ own \in [1..Cardinality(W) -> Any]
      BY <2>1, <2>2, <2>3
    <2>5. all \in Seq(Any) /\ own \in Seq(Any) /\ DOMAIN all = 1..n /\ DOMAIN own = 1..Cardinality(W)
      BY <1>12, <2>4
    <2>. QED
      BY <1>12, <2>5, LenProperties
  <1>16. /\ F[0] = Fresh(key) /\ O[0] = Fresh(key)
         /\ \A i \in 1..n : F[i] = Apply(F[i - 1], Item(s[i]))
         /\ \A i \in 1..Cardinality(W) : O[i] = Apply(O[i - 1], Item(t[i]))
    <2>1. \A i \in 1..n : all[i] = Item(s[i])
      BY <1>3, <1>13
    <2>2. \A i \in 1..Cardinality(W) : own[i] = Item(t[i])
      BY <1>4, <1>13
    <2> HIDE DEF all, own, Item, n, key
    <2>3. /\ F[0] = Fresh(key) /\ \A i \in 1..n : F[i] = Apply(F[i - 1], all[i])
      BY <1>12, <1>15, StatesStep
    <2>4. /\ O[0] = Fresh(key) /\ \A i \in 1..Cardinality(W) : O[i] = Apply(O[i - 1], own[i])
      BY <1>12, <1>15, StatesStep
    <2>. QED
      BY <2>1, <2>2, <2>3, <2>4
  <1>17. at(0) = 0 /\ at(n) = Cardinality(W)
    BY <1>1, <1>9, <1>12, PlacesEnds
  <1>18. \A i \in 1..n :
            /\ s[i] \notin W => at(i) = at(i - 1)
            /\ s[i] \in W => at(i) = at(i - 1) + 1 /\ at(i) \in 1..Cardinality(W) /\ t[at(i)] = s[i]
            /\ at(i) \in Nat
    <2>. TAKE i \in 1..n
    <2>. HIDE DEF n
    <2>1. /\ Cardinality(Places(s, W, i)) \in Nat
          /\ s[i] \notin W => Cardinality(Places(s, W, i)) = Cardinality(Places(s, W, i - 1))
          /\ s[i] \in W =>
                /\ Cardinality(Places(s, W, i)) = Cardinality(Places(s, W, i - 1)) + 1
                /\ Cardinality(Places(s, W, i)) \in 1..Cardinality(W)
                /\ t[Cardinality(Places(s, W, i))] = s[i]
      <3> DEFINE R == NoncePairs(S)
                 Q == NoncePairs(W)
      <3>1. /\ OrderOn(R, S) /\ Lists(s, S, R) /\ OrderOn(Q, W) /\ Lists(t, W, Q)
            /\ \A a, b \in W : <<a, b>> \in Q <=> <<a, b>> \in R
        BY <1>9, <1>10
      <3>2. i \in 1..Cardinality(S)
        BY DEF n
      <3> HIDE DEF R, Q
      <3>. QED
        BY <1>1, <1>12, <3>1, <3>2, SubList
    <2>. QED
      BY <2>1
  <1>19. at(0) \in Nat
    BY <1>17
  <1> HIDE DEF F, O, at, all, own, n
  <1> DEFINE Good(i) == F[i] = O[at(i)] /\ Unchanged(F[i], m, i, p, v)
             Bad == { i \in 0..n : ~Good(i) }
  <1>20. Good(0)
    <2>1. v >= 1
      <3>1. Own(m, q[c])
        BY <1>1, <1>8, <1>14
      <3>. QED
        BY <3>1 DEF Own, v
    <2>2. p \in Int /\ 0 < p /\ 0 < v
      BY <1>7, <1>12, <1>14, <2>1
    <2>3. Unchanged(Fresh(key), m, 0, p, v)
      BY <2>2 DEF Unchanged, Fresh
    <2>. QED
      BY <1>16, <1>17, <2>3
  <1>21. ASSUME NEW i \in 1..n, Good(i - 1) PROVE Good(i)
    <2> DEFINE d == Item(s[i])
    <2>0. i \in Nat /\ i > 0 /\ p \in Nat /\ p \in 1..n
      BY <1>12, <1>14
    <2>1. s[i] \in S /\ s[i].item \in Command /\ s[i].item.nonce \in Int
      <3>1. s[i] \in S
        BY <1>13
      <3>2. s[i].item \in Command
        BY <1>5, <3>1
      <3> HIDE DEF Item
      <3>. QED
        BY <3>1, <3>2, Bounds DEF Command
    <2>2. d = s[i].item
      OBVIOUS
    <2>3. s[p].item.nonce = v
      BY <1>14 DEF v
    <2>4. i < p => d.nonce < v
      BY <1>11, <2>2
    <2>5. F[i] = Apply(F[i - 1], d)
      BY <1>16
    <2>6. CASE s[i] \in W
      <3>1. Own(m, s[i].item)
        BY <1>8, <2>1, <2>6
      <3>3. i = p => d.nonce = v /\ d.signer = <<m, 0>> /\ d.newKey # <<m, 0>>
        BY <1>14, <2>2, <2>3 DEF ChangeAt
      <3>6. Unchanged(Apply(F[i - 1], d), m, i, p, v)
        <4> HIDE DEF d
        <4>. QED
          BY <1>7, <1>21, <2>0, <2>1, <2>2, <2>4, <3>1, <3>3, OwnApplied
      <3>7. O[at(i)] = Apply(O[at(i) - 1], d) /\ at(i) - 1 = at(i - 1)
        <4>1. i - 1 = 0 \/ i - 1 \in 1..n
          BY <1>12
        <4>2. at(i - 1) \in Nat
          BY <1>18, <1>19, <4>1
        <4>. QED
          BY <1>16, <1>18, <2>6, <4>2
      <3>. QED
        BY <1>21, <2>5, <3>6, <3>7
    <2>7. CASE s[i] \notin W
      <3>1. d.signer = <<m, 0>> /\ v <= d.nonce
        BY <1>8, <2>1, <2>2, <2>7
      <3>2. p < i
        BY <1>7, <1>14, <2>0, <2>1, <2>2, <2>4, <2>7, <3>1
      <3>3. Apply(F[i - 1], d) = F[i - 1] /\ Unchanged(F[i - 1], m, i, p, v)
        <4> HIDE DEF d
        <4>. QED
          BY <1>7, <1>21, <2>0, <3>1, <3>2, ForeignApplied
      <3>. QED
        BY <1>18, <1>21, <2>5, <2>7, <3>3
    <2>. QED
      BY <2>6, <2>7
  <1> HIDE DEF Good
  <1>22. Bad = {}
    <2>. SUFFICES ASSUME Bad # {} PROVE FALSE
      OBVIOUS
    <2>1. PICK i \in Bad : \A j \in Bad : i <= j
      <3>1. Bad \in SUBSET Nat
        OBVIOUS
      <3> HIDE DEF Bad
      <3>. QED
        BY <3>1, LeastOf
    <2>2. i \in 1..n
      BY <1>20, <2>1
    <2>3. i - 1 \in 0..n /\ ~(i <= i - 1)
      BY <1>12, <2>2
    <2>4. Good(i - 1)
      BY <2>1, <2>3
    <2>. QED
      BY <1>21, <2>1, <2>2, <2>4
  <1>23. F[n] = O[Cardinality(W)]
    <2>1. n \in 0..n
      BY <1>12
    <2>. QED
      BY <1>17, <1>22, <2>1 DEF Good
  <1>. QED
    BY <1>15, <1>23 DEF VoterState, F, O, all, own

LEMMA KeyChangeSafe == RoundInv /\ CommandInv => KeyChangeHolds
  <1> DEFINE bucket(m) == { i \in DOMAIN messages : messages[i].stateKey = <<m, 0>> }
  <1> SUFFICES ASSUME RoundInv, CommandInv, NEW m \in Surrendered,
                      NEW c \in bucket(m), messages[c].by = m, messages[c].signer = <<m, 0>>,
                      messages[c].newKey # <<m, 0>>,
                      \A i \in bucket(m) : messages[i].nonce = messages[c].nonce => c <= i,
                      \A i \in bucket(m) : messages[i].by = Stranger => messages[c].nonce <= messages[i].nonce
               PROVE  VoterState(<<m, 0>>, Records(messages))
                         = VoterState(<<m, 0>>, { r \in Records(messages) : r.item.by = m })
    BY DEF KeyChangeHolds
  <1>1. m \in Members /\ messages \in Seq(Command)
    BY Bounds DEF RoundInv, Typed
  <1>2. ChangeAt(messages, m, c) /\ \A i \in DOMAIN messages : Made(messages[i])
    BY DEF ChangeAt, CommandInv
  <1>3. VoterState(<<m, 0>>, Records(messages)) = VoterState(<<m, 0>>, OwnRecords(m, messages))
    BY <1>1, <1>2, KeyChangeInQueue
  <1>. QED
    BY <1>3 DEF OwnRecords

\* Whoever holds a key a member has given away changes nothing in the member's
\* vote once the member has changed keys, at a nonce below which the holder published
\* nothing and as the first with that nonce, at whatever moment anything is published;
\* a change repeated after a lost answer is one more of the member's own commands
\* (applyMaciQueue, verifyMaciCommand, lib/maci-command.ts).
THEOREM KeyChangeHoldsAlways == Spec => []KeyChangeHolds
  BY RoundInvariant, InitCommands, StepCommands, KeyChangeSafe, PTL DEF Spec

=============================================================================
