--------------------------- MODULE MailboxProofs ---------------------------
(***************************************************************************)
(* For any number of letters, dummies, devices and failed calls: a member  *)
(* whose rotations were not made blind is reached (SenderReaches of module *)
(* Prekeys), mail that was accepted stays until it is seen (KeptUntilSeen  *)
(* of module Mailbox), and box and cover traffic keep to their limits      *)
(* (LimitsHold).                                                           *)
(*                                                                         *)
(* KeysInv orders the device's prekeys by epoch and says that another      *)
(* device's key is older than any of them; it is shown of Prekeys alone    *)
(* and carried through the mailbox's steps.  BoxInv says that files stem   *)
(* from answered puts and differ in name, that what is listed was shown or *)
(* has expired, that a put alone at work has listed all there is in the    *)
(* box, and that the running session's dummies are at most its count and   *)
(* what that was lowered by for others.                                    *)
(***************************************************************************)
EXTENDS Mailbox, FiniteSetTheorems, SequenceTheorems, WellFoundedInduction, TLAPS

-----------------------------------------------------------------------------
(* The prekeys of the device.                                              *)

Bundles == [epoch : Nat, by : Nat]

KeysTyped ==
    /\ directory \in Bundles /\ device \in 1 .. MaxDevices /\ spks \in Seq(Bundles)
    /\ Len(spks) <= SpkKeep /\ call \in Stages /\ enabled \in BOOLEAN /\ blind \in BOOLEAN

\* The device's own keys, each newer than those after it.
Newer ==
    /\ \A i \in DOMAIN spks : spks[i].by = device /\ spks[i].epoch >= 1
    /\ \A i, j \in DOMAIN spks : i < j => spks[i].epoch > spks[j].epoch

Underway ==
    /\ directory.by <= device
    /\ call \in {"check", "signing", "writing"} => spks # <<>>
    /\ call # "idle" => ~enabled

\* The device that published has the key or two newer ones; another one has only
\* newer ones.
Reached ==
    /\ directory.by = device => Opens(directory) \/ LocalEpoch >= directory.epoch + 2
    /\ directory.by # device /\ spks # <<>> => LocalEpoch > directory.epoch
    /\ enabled => Opens(directory)

KeysInv == KeysTyped /\ Newer /\ Underway /\ (~blind => Reached)

LEMMA KeyFacts ==
    ASSUME KeysTyped
    PROVE  /\ Len(spks) \in Nat /\ DOMAIN spks = 1 .. Len(spks)
           /\ \A i \in DOMAIN spks : spks[i] \in Bundles
           /\ (spks # <<>> <=> Len(spks) >= 1) /\ (spks # <<>> => 1 \in DOMAIN spks)
           /\ SpkKeep \in Nat /\ SpkKeep > 1 /\ LocalEpoch \in Nat /\ device \in Nat
           /\ \A k : Opens(k) <=> \E i \in DOMAIN spks : spks[i] = k
  <1>1. spks \in Seq(Bundles) /\ device \in Nat
    BY PrekeysAssumption DEF KeysTyped
  <1>2. Len(spks) \in Nat /\ DOMAIN spks = 1 .. Len(spks)
    BY <1>1, LenProperties
  <1>3. \A i \in DOMAIN spks : spks[i] \in Bundles
    BY <1>1, <1>2, ElementOfSeq
  <1>4. spks # <<>> <=> Len(spks) >= 1
    BY <1>1, <1>2, EmptySeq
  <1>5. spks # <<>> => 1 \in DOMAIN spks
    BY <1>2, <1>4
  <1>6. LocalEpoch \in Nat
    BY <1>3, <1>5 DEF LocalEpoch, Bundles
  <1>7. \A k : Opens(k) <=> \E i \in DOMAIN spks : spks[i] = k
    BY DEF Opens, Range
  <1>. QED
    BY <1>1, <1>2, <1>3, <1>4, <1>5, <1>6, <1>7, PrekeysAssumption

\* saveSpks: the new key first, the oldest dropped when there are too many.
LEMMA Saved ==
    ASSUME KeysTyped, NEW b \in Bundles, SaveSpks(<<b>> \o spks)
    PROVE  /\ spks' \in Seq(Bundles) /\ Len(spks') <= SpkKeep /\ Len(spks') \in Nat
           /\ DOMAIN spks' = 1 .. Len(spks') /\ Len(spks') >= 1 /\ spks'[1] = b
           /\ Len(spks') <= Len(spks) + 1
           /\ (Len(spks') < SpkKeep => Len(spks') = Len(spks) + 1)
           /\ \A i \in 2 .. Len(spks') : spks'[i] = spks[i - 1]
  <1>. DEFINE all == <<b>> \o spks
              n == IF Len(all) < SpkKeep THEN Len(all) ELSE SpkKeep
  <1>0. /\ spks \in Seq(Bundles) /\ Len(spks) \in Nat /\ SpkKeep \in Nat /\ SpkKeep > 1
    BY KeyFacts DEF KeysTyped
  <1>1. <<b>> \in Seq(Bundles) /\ Len(<<b>>) = 1 /\ <<b>>[1] = b
    OBVIOUS
  <1>2. all \in Seq(Bundles) /\ Len(all) = 1 + Len(spks)
    BY <1>0, <1>1, ConcatProperties
  <1>3. all[1] = b /\ \A i \in 2 .. Len(all) : all[i] = spks[i - 1]
    <2>1. \A i \in 1 .. Len(all) : all[i] = IF i <= 1 THEN <<b>>[i] ELSE spks[i - 1]
      BY <1>0, <1>1, ConcatProperties
    <2>. QED
      BY <1>0, <1>1, <1>2, <2>1
  <1>4. spks' = SubSeq(all, 1, n)
    BY DEF SaveSpks
  <1>. HIDE DEF all
  <1>5. n \in Nat /\ n >= 1 /\ n <= Len(all) /\ n <= SpkKeep /\ (n < SpkKeep => n = Len(all))
    BY <1>0, <1>2
  <1>. HIDE DEF n
  <1>6. /\ spks' \in Seq(Bundles) /\ Len(spks') = n
        /\ \A i \in 1 .. n : spks'[i] = all[i]
    <2>1. SubSeq(all, 1, n) \in Seq(Bundles) /\ Len(SubSeq(all, 1, n)) = n
      BY <1>2, <1>5, SubSeqProperties
    <2>2. \A i \in 1 .. n : SubSeq(all, 1, n)[i] = all[i]
      BY <1>2, <1>5
    <2>. QED
      BY <1>4, <2>1, <2>2
  <1>7. DOMAIN spks' = 1 .. Len(spks')
    BY <1>6, LenProperties
  <1>. QED
    BY <1>0, <1>2, <1>3, <1>5, <1>6, <1>7

\* What a list of prekeys pushed in front of another owes it.
Ours(keys, d) == \A i \in 1 .. Len(keys) : keys[i].by = d /\ keys[i].epoch >= 1
Falling(keys) == \A i, j \in 1 .. Len(keys) : i < j => keys[i].epoch > keys[j].epoch
Below(keys, b) == \A i \in 1 .. Len(keys) : keys[i].epoch < b.epoch
Pushes(b, old, new) ==
    /\ Len(new) >= 1 /\ new[1] = b /\ Len(new) <= Len(old) + 1
    /\ \A i \in 2 .. Len(new) : new[i] = old[i - 1]

LEMMA Pushed ==
    ASSUME NEW old \in Seq(Bundles), NEW new \in Seq(Bundles), NEW b \in Bundles, NEW d,
           Pushes(b, old, new), b.by = d, b.epoch >= 1,
           Ours(old, d), Below(old, b), Falling(old)
    PROVE  new # <<>> /\ Ours(new, d) /\ Falling(new)
  <1>0. /\ Len(new) >= 1 /\ new[1] = b /\ Len(new) <= Len(old) + 1
        /\ \A i \in 2 .. Len(new) : new[i] = old[i - 1]
        /\ \A i \in 1 .. Len(old) : old[i].by = d /\ old[i].epoch >= 1 /\ old[i].epoch < b.epoch
        /\ \A i, j \in 1 .. Len(old) : i < j => old[i].epoch > old[j].epoch
    BY DEF Pushes, Ours, Below, Falling
  <1>1. Len(new) \in Nat /\ Len(old) \in Nat
    OBVIOUS
  <1>2. new # <<>>
    BY <1>0, EmptySeq
  <1>3. ASSUME NEW i \in 1 .. Len(new), i # 1
        PROVE  i - 1 \in 1 .. Len(old) /\ new[i] = old[i - 1]
    BY <1>0, <1>1, <1>3
  <1>4. ASSUME NEW i \in 1 .. Len(new)
        PROVE  new[i].by = d /\ new[i].epoch >= 1
    BY <1>0, <1>3
  <1>5. ASSUME NEW i \in 1 .. Len(new), NEW j \in 1 .. Len(new), i < j
        PROVE  new[i].epoch > new[j].epoch
    <2>1. j # 1 /\ j - 1 \in 1 .. Len(old) /\ new[j] = old[j - 1]
      BY <1>1, <1>3, <1>5
    <2>2. CASE i = 1
      BY <1>0, <2>1, <2>2 DEF Bundles
    <2>3. CASE i # 1
      <3>1. i - 1 \in 1 .. Len(old) /\ new[i] = old[i - 1] /\ i - 1 < j - 1
        BY <1>1, <1>3, <1>5, <2>3
      <3>. QED
        BY <1>0, <2>1, <3>1
    <2>. QED
      BY <2>2, <2>3
  <1>. QED
    BY <1>2, <1>4, <1>5 DEF Ours, Falling

LEMMA RotateKeeps ==
    ASSUME KeysInv, NEW answered \in BOOLEAN, Rotate(answered)
    PROVE  KeysInv'
  <1>. DEFINE e == Larger(LocalEpoch, IF answered THEN directory.epoch ELSE 0) + 1
              b == Bundle(e)
  <1>0. /\ KeysTyped /\ Newer /\ Underway /\ (~blind => Reached)
        /\ LocalEpoch \in Nat /\ directory \in Bundles /\ directory.epoch \in Nat /\ directory.by \in Nat
        /\ device \in Nat /\ Len(spks) \in Nat /\ DOMAIN spks = 1 .. Len(spks)
        /\ \A i \in DOMAIN spks : spks[i].epoch \in Nat
    BY KeyFacts DEF KeysInv, KeysTyped, Bundles
  <1>1. /\ SaveSpks(<<b>> \o spks) /\ call' = "signing" /\ blind' = (blind \/ ~answered)
        /\ UNCHANGED <<directory, device, enabled>> /\ call = "lookup"
    BY DEF Rotate
  <1>2. /\ e \in Nat /\ e > LocalEpoch /\ e >= 1 /\ (answered => e > directory.epoch)
    BY <1>0 DEF Larger
  <1>3. b \in Bundles /\ b.epoch = e /\ b.by = device
    BY <1>0, <1>2 DEF Bundle, Bundles
  <1>. HIDE DEF e, b
  <1>4. PICK new, n :
           /\ new = spks' /\ new \in Seq(Bundles) /\ n = Len(new) /\ n <= SpkKeep /\ n \in Nat
           /\ n >= 1 /\ new[1] = b /\ n <= Len(spks) + 1
           /\ (n < SpkKeep => n = Len(spks) + 1)
           /\ \A i \in 2 .. n : new[i] = spks[i - 1]
    BY <1>0, <1>1, <1>3, Saved
  <1>5. KeysTyped'
    <2>1. call' \in Stages /\ blind' \in BOOLEAN
      BY <1>0, <1>1 DEF Stages, KeysTyped
    <2>. QED
      BY <1>0, <1>1, <1>4, <2>1 DEF KeysTyped
  <1>6. \A i \in 1 .. Len(spks) : spks[i].by = device /\ spks[i].epoch >= 1 /\ spks[i].epoch <= LocalEpoch
    <2>1. ASSUME NEW i \in 1 .. Len(spks)
          PROVE  spks[i].by = device /\ spks[i].epoch >= 1 /\ spks[i].epoch <= LocalEpoch
      <3>1. spks # <<>> /\ 1 \in DOMAIN spks /\ LocalEpoch = spks[1].epoch
        BY <1>0, KeyFacts DEF LocalEpoch
      <3>2. spks[i].by = device /\ spks[i].epoch >= 1 /\ (i = 1 \/ spks[1].epoch > spks[i].epoch)
        BY <1>0, <3>1 DEF Newer
      <3>. QED
        BY <1>0, <3>1, <3>2
    <2>. QED
      BY <2>1
  <1>7. new # <<>> /\ Ours(new, device) /\ Falling(new)
    <2>1. Ours(spks, device) /\ Below(spks, b)
      BY <1>0, <1>2, <1>3, <1>6 DEF Ours, Below
    <2>2. Falling(spks)
      BY <1>0 DEF Newer, Falling
    <2>3. spks \in Seq(Bundles) /\ b.by = device /\ b.epoch >= 1
      BY <1>0, <1>2, <1>3 DEF KeysTyped
    <2>4. Pushes(b, spks, new)
      BY <1>4 DEF Pushes
    <2>5. new \in Seq(Bundles) /\ b \in Bundles
      BY <1>3, <1>4
    <2>. QED
      BY <2>1, <2>2, <2>3, <2>4, <2>5, Pushed
  <1>8. DOMAIN new = 1 .. Len(new)
    BY <1>4, LenProperties
  <1>9. Newer'
    <2>1. \A i \in DOMAIN new : new[i].by = device /\ new[i].epoch >= 1
      BY <1>7, <1>8 DEF Ours
    <2>2. \A i, j \in DOMAIN new : i < j => new[i].epoch > new[j].epoch
      BY <1>7, <1>8 DEF Falling
    <2>3. new = spks' /\ device' = device
      BY <1>1, <1>4
    <2>. QED
      BY <2>1, <2>2, <2>3 DEF Newer
  <1>10. spks' # <<>> /\ LocalEpoch' = e
    <2>1. new = spks' /\ new[1] = b
      BY <1>4
    <2>. QED
      BY <1>3, <1>7, <2>1 DEF LocalEpoch
  <1>11. Underway'
    BY <1>0, <1>1, <1>10 DEF Underway
  <1>12. ASSUME ~blind' PROVE Reached'
    <2>1. Reached /\ answered
      BY <1>0, <1>1, <1>12
    <2>2. ~enabled'
      BY <1>0, <1>1 DEF Underway
    <2>3. directory.by # device => LocalEpoch' > directory.epoch
      BY <1>0, <1>2, <1>10, <2>1
    <2>4. ASSUME directory.by = device
          PROVE  Opens(directory)' \/ LocalEpoch' >= directory.epoch + 2
      <3>1. CASE LocalEpoch >= directory.epoch + 2
        BY <1>0, <1>2, <1>10, <3>1
      <3>2. CASE Opens(directory)
        <4>1. PICK i \in 1 .. Len(spks) : spks[i] = directory
          BY <1>0, <3>2, KeyFacts
        <4>2. CASE i + 1 <= n
          <5>1. i + 1 \in 2 .. n /\ (i + 1) - 1 = i
            BY <1>4, <4>2
          <5>2. new[i + 1] = directory /\ i + 1 \in DOMAIN new
            BY <1>4, <1>8, <4>1, <5>1
          <5>3. new = spks' /\ directory' = directory
            BY <1>1, <1>4
          <5>. QED
            BY <5>2, <5>3 DEF Opens, Range
        <4>3. CASE i + 1 > n
          <5>1. i > 1 /\ 1 \in DOMAIN spks /\ i \in DOMAIN spks /\ spks # <<>>
            <6>1. n \in Nat /\ SpkKeep \in Nat /\ SpkKeep > 1 /\ (n < SpkKeep => n = Len(spks) + 1)
              BY <1>4, KeyFacts, <1>0
            <6>. QED
              BY <1>0, <4>3, <6>1, KeyFacts
          <5>2. spks[1].epoch > spks[i].epoch /\ LocalEpoch = spks[1].epoch
            BY <1>0, <5>1 DEF Newer, LocalEpoch
          <5>. QED
            BY <1>0, <1>2, <1>10, <4>1, <5>2
        <4>4. n \in Nat /\ i \in Nat
          BY <1>4
        <4>. QED
          BY <4>2, <4>3, <4>4
      <3>. QED
        BY <2>1, <2>4, <3>1, <3>2 DEF Reached
    <2>. QED
      BY <1>1, <2>2, <2>3, <2>4 DEF Reached
  <1>. QED
    BY <1>5, <1>9, <1>11, <1>12 DEF KeysInv

\* An action that leaves the device's keys alone owes the rest only.
LEMMA KeptKeys ==
    ASSUME KeysInv, UNCHANGED <<device, spks>>
    PROVE  /\ Newer' /\ LocalEpoch' = LocalEpoch
           /\ (spks' # <<>> <=> spks # <<>>)
           /\ \A k : Opens(k)' <=> Opens(k)
  <1>1. Newer' /\ LocalEpoch' = LocalEpoch /\ (spks' # <<>> <=> spks # <<>>)
    BY DEF KeysInv, Newer, LocalEpoch
  <1>2. \A k : Opens(k)' <=> Opens(k)
    BY DEF Opens
  <1>. QED
    BY <1>1, <1>2

LEMMA BeginKeeps ==
    ASSUME KeysInv, Begin
    PROVE  KeysInv'
  <1>0. UNCHANGED <<directory, device, spks, failures, blind>> /\ enabled' = FALSE /\ call = "idle"
    BY DEF Begin
  <1>1. call' = "lookup" \/ (call' = "check" /\ spks # <<>>)
    BY DEF Begin, NeedNew
  <1>2. KeysTyped'
    BY <1>0, <1>1 DEF KeysInv, KeysTyped, Stages
  <1>3. Underway'
    BY <1>0, <1>1, KeptKeys DEF KeysInv, Underway
  <1>4. ASSUME ~blind' PROVE Reached'
    <2>1. Reached
      BY <1>0, <1>4 DEF KeysInv
    <2>. QED
      BY <1>0, <2>1 DEF Reached, Opens, LocalEpoch
  <1>. QED
    BY <1>0, <1>2, <1>3, <1>4, KeptKeys DEF KeysInv

LEMMA CheckKeeps ==
    ASSUME KeysInv, NEW answered \in BOOLEAN, Check(answered)
    PROVE  KeysInv'
  <1>0. /\ UNCHANGED <<directory, device, spks, blind>> /\ call = "check"
        /\ KeysTyped /\ Newer /\ Underway
        /\ (enabled' => directory # NoBundle /\ directory.epoch >= spks[1].epoch)
        /\ (enabled' => call' = "idle") /\ call' \in {"idle", "signing"} /\ enabled' \in BOOLEAN
    BY DEF Check, KeysInv
  <1>1. /\ spks # <<>> /\ LocalEpoch = spks[1].epoch /\ LocalEpoch \in Nat
        /\ directory.epoch \in Nat
    BY <1>0, KeyFacts DEF Underway, LocalEpoch, KeysTyped, Bundles
  <1>2. KeysTyped'
    BY <1>0 DEF KeysTyped, Stages
  <1>3. Underway'
    BY <1>0, <1>1 DEF Underway
  <1>4. ASSUME ~blind' PROVE Reached'
    <2>1. Reached
      BY <1>0, <1>4 DEF KeysInv
    <2>2. enabled' => Opens(directory)
      BY <1>0, <1>1, <2>1 DEF Reached
    <2>. QED
      BY <1>0, <2>1, <2>2 DEF Reached, Opens, LocalEpoch
  <1>. QED
    BY <1>0, <1>2, <1>3, <1>4, KeptKeys DEF KeysInv

LEMMA PublishReadKeeps ==
    ASSUME KeysInv, PublishRead
    PROVE  KeysInv'
  <1>0. /\ UNCHANGED <<directory, device, spks, blind, enabled>> /\ call = "signing"
        /\ KeysTyped /\ Newer /\ Underway /\ call' \in {"idle", "writing"}
    BY DEF PublishRead, KeysInv
  <1>1. KeysTyped'
    BY <1>0 DEF KeysTyped, Stages
  <1>2. Underway'
    BY <1>0 DEF Underway
  <1>3. ASSUME ~blind' PROVE Reached'
    <2>1. Reached
      BY <1>0, <1>3 DEF KeysInv
    <2>. QED
      BY <1>0, <2>1 DEF Reached, Opens, LocalEpoch
  <1>. QED
    BY <1>0, <1>1, <1>2, <1>3, KeptKeys DEF KeysInv

LEMMA PublishWriteKeeps ==
    ASSUME KeysInv, NEW answered \in BOOLEAN, PublishWrite(answered)
    PROVE  KeysInv'
  <1>0. /\ UNCHANGED <<device, spks, blind>> /\ call = "writing" /\ directory' = spks[1]
        /\ call' = "idle" /\ enabled' = answered
        /\ KeysTyped /\ Newer /\ Underway
    BY DEF PublishWrite, KeysInv
  <1>1. /\ spks # <<>> /\ 1 \in DOMAIN spks /\ spks[1] \in Bundles /\ spks[1].by = device
        /\ device \in Nat
    BY <1>0, KeyFacts DEF Underway, Newer
  <1>2. KeysTyped'
    BY <1>0, <1>1 DEF KeysTyped, Stages
  <1>3. Underway'
    BY <1>0, <1>1 DEF Underway
  <1>4. Opens(spks[1])' /\ directory' = spks[1] /\ directory'.by = device'
    BY <1>0, <1>1 DEF Opens, Range
  <1>5. Reached'
    BY <1>0, <1>4 DEF Reached, Opens
  <1>. QED
    BY <1>0, <1>2, <1>3, <1>5, KeptKeys DEF KeysInv

LEMMA GiveUpKeeps ==
    ASSUME KeysInv, GiveUp
    PROVE  KeysInv'
  <1>0. /\ UNCHANGED <<directory, device, spks, blind, enabled>> /\ call' = "idle"
        /\ KeysTyped /\ Newer /\ Underway
    BY DEF GiveUp, KeysInv
  <1>1. KeysTyped' /\ Underway'
    BY <1>0 DEF KeysTyped, Stages, Underway
  <1>2. ASSUME ~blind' PROVE Reached'
    <2>1. Reached
      BY <1>0, <1>2 DEF KeysInv
    <2>. QED
      BY <1>0, <2>1 DEF Reached, Opens, LocalEpoch
  <1>. QED
    BY <1>0, <1>1, <1>2, KeptKeys DEF KeysInv

\* Nothing the invariant reads is touched: time passing, a stutter, the mailbox's own steps.
LEMMA KeysLeft ==
    ASSUME KeysInv, UNCHANGED <<directory, device, spks, call, enabled, blind>>
    PROVE  KeysInv'
  <1>1. KeysTyped' /\ Newer' /\ Underway' /\ (Reached' <=> Reached)
    BY DEF KeysInv, KeysTyped, Newer, Underway, Reached, Opens, LocalEpoch
  <1>. QED
    BY <1>1 DEF KeysInv

LEMMA LoseDeviceKeeps ==
    ASSUME KeysInv, LoseDevice
    PROVE  KeysInv'
  <1>0. /\ UNCHANGED <<directory, call, blind>> /\ call = "idle" /\ device < MaxDevices
        /\ device' = device + 1 /\ spks' = <<>> /\ enabled' = FALSE
        /\ KeysTyped /\ Underway
        /\ device \in Nat /\ MaxDevices \in Nat /\ SpkKeep \in Nat /\ SpkKeep > 1
        /\ directory.by \in Nat
    BY KeyFacts, PrekeysAssumption DEF LoseDevice, KeysInv, KeysTyped, Bundles
  <1>1. spks' \in Seq(Bundles) /\ Len(spks') = 0 /\ DOMAIN spks' = {}
    BY <1>0, EmptySeq
  <1>2. KeysTyped'
    <2>1. device' \in 1 .. MaxDevices
      BY <1>0
    <2>2. Len(spks') <= SpkKeep
      BY <1>0, <1>1
    <2>. QED
      BY <1>0, <1>1, <2>1, <2>2 DEF KeysTyped
  <1>3. Newer'
    BY <1>1 DEF Newer
  <1>4. Underway' /\ directory'.by # device'
    BY <1>0 DEF Underway
  <1>5. Reached'
    BY <1>0, <1>4 DEF Reached
  <1>. QED
    BY <1>2, <1>3, <1>4, <1>5 DEF KeysInv

LEMMA PrekeysKeep ==
    ASSUME KeysInv, PrekeysNext
    PROVE  KeysInv'
  <1>1. CASE Begin
    BY <1>1, BeginKeeps
  <1>2. CASE PublishSteps
    BY <1>2, RotateKeeps, CheckKeeps, PublishReadKeeps, PublishWriteKeeps DEF PublishSteps
  <1>3. CASE GiveUp
    BY <1>3, GiveUpKeeps
  <1>4. CASE Age
    BY <1>4, KeysLeft DEF Age
  <1>5. CASE LoseDevice
    BY <1>5, LoseDeviceKeeps
  <1>. QED
    BY <1>1, <1>2, <1>3, <1>4, <1>5 DEF PrekeysNext

LEMMA KeysStart ==
    ASSUME PrekeysInit
    PROVE  KeysInv
  <1>1. /\ directory = NoBundle /\ device = 1 /\ spks = <<>>
        /\ call = "idle" /\ enabled = FALSE /\ blind = FALSE
    BY DEF PrekeysInit
  <1>2. spks \in Seq(Bundles) /\ Len(spks) = 0 /\ DOMAIN spks = {}
    BY <1>1, EmptySeq
  <1>3. KeysTyped
    <2>1. device \in 1 .. MaxDevices
      BY <1>1, PrekeysAssumption
    <2>2. Len(spks) <= SpkKeep
      BY <1>2, PrekeysAssumption
    <2>3. directory \in Bundles
      BY <1>1 DEF Bundles, NoBundle
    <2>. QED
      BY <1>1, <1>2, <2>1, <2>2, <2>3 DEF KeysTyped, Stages
  <1>. QED
    BY <1>1, <1>2, <1>3 DEF KeysInv, Newer, Underway, Reached, NoBundle

\* The invariant of the keys, whatever fails on the way and however often the device is
\* lost (lib/mailbox.ts, publishMailboxBundle).
THEOREM PrekeysInvariant == PrekeysSpec => []KeysInv
  <1>1. ASSUME KeysInv, [PrekeysNext]_prekeyVars PROVE KeysInv'
    <2>1. CASE UNCHANGED prekeyVars
      BY <1>1, <2>1, KeysLeft DEF prekeyVars
    <2>. QED
      BY <1>1, <2>1, PrekeysKeep
  <1>. QED
    BY <1>1, KeysStart, PTL DEF PrekeysSpec

\* After a call that returned normally mail sealed to the directory's key opens, and a
\* key this device published is given up only after two newer ones, unless a rotation
\* took a failed lookup for "no bundle" (lib/mailbox.ts, publishMailboxBundle).
THEOREM SenderReachesAlways == PrekeysSpec => []SenderReaches
  <1>1. KeysInv => SenderReaches
    BY DEF KeysInv, Reached, SenderReaches
  <1>. QED
    BY <1>1, PrekeysInvariant, PTL

-----------------------------------------------------------------------------
(* The mailbox: its invariant.                                             *)

PutRecords == [at : {"idle", "sealed", "swept", "evicted"} \cup Done, key : Bundles,
               expires : Nat, own : BOOLEAN, existing : SUBSET Puts, release : Nat]
FileRecords == [id : Puts, release : Nat, mtime : Nat, nth : Nat]
Mixes == [armed : BOOLEAN, outstanding : 0 .. MaxOutstanding]
Pages == [by : {"nobody", "fetch", "poll"}, ids : SUBSET Puts]
Answers == [due : BOOLEAN, swept : SUBSET Dummies]

BoxTyped ==
    /\ now \in 0 .. MaxTime /\ put \in [Puts -> PutRecords] /\ box \in SUBSET FileRecords
    /\ mix \in Mixes /\ get \in Pages /\ ack \in Answers /\ excess \in Nat
    /\ shown \in SUBSET Mails /\ pendingAck \in SUBSET Dummies /\ alone \in SUBSET Puts

\* Files, and letters fetched, stem from puts that were answered; and files differ in
\* name.
Filing ==
    /\ \A m \in Ids(box) : put[m].at = "delivered"
    /\ \A f, g \in box : f.id = g.id => f = g
    /\ \A m \in (shown \cup get.ids) \cap Mails : put[m].at = "delivered"

Kept ==
    /\ \A m \in shown : m \in seen \/ SenderExpired(m)
    /\ \A m \in Mails : put[m].at = "delivered" =>
          m \in Ids(box) \cup seen \cup dropped \/ SenderExpired(m)

\* Nothing is in the box that a put alone at work did not list.
Alone ==
    /\ \A m \in alone : put[m].at = "swept" => Ids(box) \subseteq put[m].existing
    /\ \A m \in alone : put[m].at = "evicted" => Cardinality(box) < MaxPerBox

\* The session's dummies that its count was not yet lowered for.
Own == { d \in Dummies : put[d].own }
Spending ==
    /\ ~mix.armed => mix.outstanding = 0
    /\ Cardinality(Own) <= mix.outstanding + excess

BoxInv == BoxTyped /\ Filing /\ Kept /\ Alone /\ Spending
MailInv == KeysInv /\ BoxInv

-----------------------------------------------------------------------------
(* Counting files.                                                         *)

\* Files of different names are no more than the names.
LEMMA FilesAndNames ==
    ASSUME NEW files, NEW names, IsFiniteSet(names), Ids(files) \subseteq names,
           \A f, g \in files : f.id = g.id => f = g
    PROVE  IsFiniteSet(files) /\ Cardinality(files) <= Cardinality(names)
  <1>. DEFINE h == [f \in files |-> f.id]
  <1>1. h \in [files -> names]
    BY DEF Ids
  <1>2. \A f, g \in files : h[f] = h[g] => f = g
    OBVIOUS
  <1>3. h \in Injection(files, names)
    BY <1>1, <1>2 DEF Injection, IsInjective
  <1>. QED
    BY <1>3, FS_Injection

\* Induction on the naturals: what fails fails first somewhere.
LEMMA LeastOf ==
    ASSUME NEW B, B \in SUBSET Nat, B # {}
    PROVE  \E k \in B : \A j \in B : k <= j
  <1>1. PICK k \in B : \A j \in B : <<j, k>> \notin OpToRel(<, Nat)
    BY WFMin, NatLessThanWellFounded, Zenon
  <1>2. k \in Nat /\ \A j \in B : j \in Nat
    OBVIOUS
  <1>3. \A j \in B : ~(j < k)
    BY <1>1, <1>2, Zenon DEF OpToRel
  <1>. QED
    BY <1>2, <1>3

LEMMA Apart ==
    ASSUME NEW S, NEW T, IsFiniteSet(S), IsFiniteSet(T), S \cap T = {}
    PROVE  /\ IsFiniteSet(S \cup T) /\ Cardinality(S) \in Nat /\ Cardinality(T) \in Nat
           /\ Cardinality(S \cup T) = Cardinality(S) + Cardinality(T)
  <1>1. Cardinality(S) \in Nat /\ Cardinality(T) \in Nat /\ Cardinality(S \cap T) = 0
    BY FS_CardinalityType, FS_EmptySet
  <1>2. /\ IsFiniteSet(S \cup T)
        /\ Cardinality(S \cup T) = Cardinality(S) + Cardinality(T) - Cardinality(S \cap T)
    BY FS_Union
  <1>. QED
    BY <1>1, <1>2

\* What is left of the files when the n oldest are gone is n fewer, or nothing:
\* the oldest left has n files before it, and they are gone.
LEMMA YoungestLeft ==
    ASSUME NEW files, IsFiniteSet(files), NEW n \in Int,
           \A f \in files : f.nth \in Nat
    PROVE  \/ files \ Oldest(files, n) = {}
           \/ Cardinality(files \ Oldest(files, n)) <= Cardinality(files) - n
  <1>. DEFINE left == files \ Oldest(files, n)
              before(f) == { g \in files : g.nth < f.nth }
              ages == { f.nth : f \in left }
  <1>. SUFFICES ASSUME left # {}
                PROVE  Cardinality(left) <= Cardinality(files) - n
    OBVIOUS
  <1>1. left \in SUBSET files /\ ages \in SUBSET Nat /\ ages # {}
    OBVIOUS
  <1>2. PICK k \in ages : \A j \in ages : k <= j
    BY <1>1, LeastOf
  <1>3. PICK f \in left : f.nth = k
    OBVIOUS
  <1>4. \A g \in left : ~(g.nth < f.nth)
    BY <1>1, <1>2, <1>3
  <1>5. before(f) \in SUBSET files /\ before(f) \cap left = {}
    BY <1>4
  <1>6. IsFiniteSet(before(f)) /\ IsFiniteSet(left)
    BY <1>1, <1>5, FS_Subset
  <1>7. /\ Cardinality(before(f)) \in Nat /\ Cardinality(left) \in Nat /\ Cardinality(files) \in Nat
        /\ Cardinality(before(f) \cup left) = Cardinality(before(f)) + Cardinality(left)
    BY <1>5, <1>6, Apart, FS_CardinalityType
  <1>8. Cardinality(before(f)) >= n
    <2>1. f \in files /\ f \notin Oldest(files, n)
      BY <1>3
    <2>2. ~(Cardinality(before(f)) < n)
      BY <2>1 DEF Oldest
    <2>. QED
      BY <1>7, <2>2
  <1>10. Cardinality(before(f) \cup left) <= Cardinality(files)
    BY <1>1, <1>5, FS_Subset
  <1>. QED
    BY <1>7, <1>8, <1>10

LEMMA BoxSizes ==
    ASSUME BoxTyped, Filing
    PROVE  /\ IsFiniteSet(box) /\ IsFiniteSet(Puts) /\ Cardinality(box) \in Nat
           /\ \A names \in SUBSET Puts : Ids(box) \subseteq names => Cardinality(box) <= Cardinality(names)
           /\ \A some \in SUBSET Dummies : IsFiniteSet(some) /\ Cardinality(some) \in Nat
           /\ Ids(box) \subseteq Puts /\ \A f \in box : f.nth \in Nat /\ f.id \in Puts
  <1>1. IsFiniteSet(Puts) /\ IsFiniteSet(Dummies)
    BY MailboxAssumption, FS_Union DEF Puts
  <1>2. Ids(box) \subseteq Puts /\ \A f, g \in box : f.id = g.id => f = g
    BY DEF BoxTyped, FileRecords, Ids, Filing
  <1>3. \A names \in SUBSET Puts :
           Ids(box) \subseteq names => IsFiniteSet(box) /\ Cardinality(box) <= Cardinality(names)
    BY <1>1, <1>2, FilesAndNames, FS_Subset
  <1>4. IsFiniteSet(box) /\ Cardinality(box) \in Nat
    BY <1>2, <1>3, FS_CardinalityType
  <1>6. \A some \in SUBSET Dummies : IsFiniteSet(some) /\ Cardinality(some) \in Nat
    BY <1>1, FS_Subset, FS_CardinalityType
  <1>. QED
    BY <1>1, <1>2, <1>3, <1>4, <1>6 DEF BoxTyped, FileRecords

\* The box lost the files named gone, or nothing, and nothing else befell it.
Smaller(gone) ==
    /\ box' \in SUBSET FileRecords /\ Ids(box') = Ids(box) \ gone
    /\ \A f, g \in box' : f.id = g.id => f = g
    /\ Cardinality(box') \in Nat /\ Cardinality(box') <= Cardinality(box)

LEMMA SameBox ==
    ASSUME BoxTyped, Filing, box' = box
    PROVE  Smaller({})
  <1>1. Cardinality(box) \in Nat
    BY BoxSizes
  <1>. QED
    BY <1>1 DEF Smaller, BoxTyped, Filing, Ids

LEMMA WithoutIs ==
    ASSUME BoxTyped, Filing, NEW gone, box' = Without(box, gone)
    PROVE  /\ Smaller(gone)
           /\ Cardinality(box') <= Cardinality({ f \in box : f.id \notin gone })
  <1>. DEFINE kept == { f \in box : f.id \notin gone }
              rank(f) == Cardinality({ g \in kept : g.nth < f.nth })
              moved == [f \in kept |-> [f EXCEPT !.nth = rank(f)]]
  <1>1. IsFiniteSet(box) /\ kept \in SUBSET box /\ IsFiniteSet(kept) /\ Cardinality(kept) <= Cardinality(box)
        /\ Cardinality(box) \in Nat /\ Cardinality(kept) \in Nat
    BY BoxSizes, FS_Subset, FS_CardinalityType
  <1>2. \A f \in kept : rank(f) \in Nat
    BY <1>1, FS_Subset, FS_CardinalityType
  <1>3. box' = { moved[f] : f \in kept }
    BY DEF Without
  <1>. HIDE DEF rank
  <1>4. \A f \in kept : moved[f] \in FileRecords /\ moved[f].id = f.id
    BY <1>1, <1>2 DEF BoxTyped, FileRecords
  <1>5. box' \in SUBSET FileRecords /\ Ids(box') = Ids(box) \ gone
    <2>1. \A f : f \in kept <=> f \in box /\ f.id \notin gone
      OBVIOUS
    <2>. HIDE DEF kept, moved
    <2>2. box' \in SUBSET FileRecords
      BY <1>3, <1>4
    <2>3. Ids(box') = { moved[f].id : f \in kept }
      BY <1>3 DEF Ids
    <2>4. Ids(box') = { f.id : f \in kept }
      BY <1>4, <2>3
    <2>. QED
      BY <2>1, <2>2, <2>4 DEF Ids
  <1>6. \A f, g \in box' : f.id = g.id => f = g
    <2>1. \A f, g \in kept : f.id = g.id => f = g
      BY DEF Filing
    <2>. HIDE DEF kept, moved
    <2>. QED
      BY <1>3, <1>4, <2>1
  <1>7. Cardinality(box') \in Nat /\ Cardinality(box') <= Cardinality(kept)
    <2>. HIDE DEF kept
    <2>1. moved \in [kept -> box'] /\ \A h \in box' : \E f \in kept : moved[f] = h
      BY <1>3
    <2>. HIDE DEF moved
    <2>2. moved \in Surjection(kept, box')
      BY <2>1 DEF Surjection
    <2>. QED
      BY <1>1, <2>2, FS_Surjection, FS_CardinalityType
  <1>. QED
    BY <1>1, <1>5, <1>6, <1>7 DEF Smaller

-----------------------------------------------------------------------------
(* What keeps each part of the invariant.                                  *)

\* No letter is answered or addressed anew, and no file's put forgotten.
Steady ==
    /\ \A m \in Mails : put'[m].at = "delivered" <=> put[m].at = "delivered"
    /\ \A m \in Mails : put[m].at = "delivered" => put'[m].expires = put[m].expires
    /\ \A m \in Ids(box) : put[m].at = "delivered" => put'[m].at = "delivered"
    /\ now' \in Nat /\ now' >= now

LEMMA FilingKept ==
    ASSUME BoxTyped, Filing, NEW gone, Smaller(gone), Steady,
           (shown' \cup get'.ids) \cap Mails \subseteq shown \cup get.ids \cup Ids(box)
    PROVE  Filing'
  <1>1. \A m \in Ids(box') : put'[m].at = "delivered"
    BY DEF Smaller, Steady, Filing
  <1>2. \A m \in (shown' \cup get'.ids) \cap Mails : put'[m].at = "delivered"
    BY DEF Steady, Filing
  <1>. QED
    BY <1>1, <1>2 DEF Filing, Smaller

\* Once its sender let it expire a letter stays so.
LEMMA ExpiredStays ==
    ASSUME BoxTyped, Steady, NEW m \in Mails, put[m].at = "delivered", SenderExpired(m)
    PROVE  SenderExpired(m)'
  <1>1. put[m].expires \in Nat /\ now \in Nat /\ now' \in Nat /\ now' >= now
    BY DEF BoxTyped, PutRecords, Puts, Steady
  <1>2. put'[m].expires = put[m].expires
    BY DEF Steady
  <1>. QED
    BY <1>1, <1>2 DEF SenderExpired

LEMMA KeptKept ==
    ASSUME BoxTyped, Filing, Kept, Steady, seen \subseteq seen', dropped \subseteq dropped',
           shown' \in SUBSET Mails,
           \A m \in shown' : m \in shown \cup seen' \/ SenderExpired(m)',
           \A m \in Mails \cap Ids(box) : m \in Ids(box') \cup seen' \cup dropped' \/ SenderExpired(m)'
    PROVE  Kept'
  <1>1. \A m \in Mails : put'[m].at = "delivered" =>
           m \in Ids(box') \cup seen' \cup dropped' \/ SenderExpired(m)'
    <2>1. SUFFICES ASSUME NEW m \in Mails, put[m].at = "delivered"
                   PROVE  m \in Ids(box') \cup seen' \cup dropped' \/ SenderExpired(m)'
      BY DEF Steady
    <2>2. CASE m \in Ids(box)
      BY <2>2
    <2>3. CASE m \in seen \cup dropped
      BY <2>3
    <2>4. CASE SenderExpired(m)
      BY <2>1, <2>4, ExpiredStays
    <2>. QED
      BY <2>1, <2>2, <2>3, <2>4 DEF Kept
  <1>2. \A m \in shown' : m \in seen' \/ SenderExpired(m)'
    <2>1. SUFFICES ASSUME NEW m \in shown, m \in Mails
                   PROVE  m \in seen' \/ SenderExpired(m)'
      OBVIOUS
    <2>2. put[m].at = "delivered"
      BY <2>1 DEF Filing
    <2>. QED
      BY <2>1, <2>2, ExpiredStays DEF Kept
  <1>. QED
    BY <1>1, <1>2 DEF Kept

LEMMA AloneKept ==
    ASSUME BoxTyped, Filing, Alone, NEW gone, Smaller(gone), alone' \subseteq alone,
           \A m \in alone' : put'[m].at \in {"swept", "evicted"} =>
              put'[m].at = put[m].at /\ put'[m].existing = put[m].existing
    PROVE  Alone'
  <1>1. Cardinality(box) \in Nat /\ MaxPerBox \in Nat
    BY BoxSizes, MailboxAssumption
  <1>2. \A m \in alone' : put'[m].at = "swept" => Ids(box') \subseteq put'[m].existing
    BY DEF Alone, Smaller
  <1>3. \A m \in alone' : put'[m].at = "evicted" => Cardinality(box') < MaxPerBox
    BY <1>1 DEF Alone, Smaller
  <1>. QED
    BY <1>2, <1>3 DEF Alone

LEMMA SpendingKept ==
    ASSUME BoxTyped, Spending, UNCHANGED <<mix, excess>>, Own' \subseteq Own
    PROVE  Spending'
  <1>1. Own \in SUBSET Dummies /\ IsFiniteSet(Dummies)
    BY MailboxAssumption DEF Own
  <1>2. PICK some : some = Own
    OBVIOUS
  <1>3. PICK less : less = Own'
    OBVIOUS
  <1>4. IsFiniteSet(some) /\ less \in SUBSET some
    BY <1>1, <1>2, <1>3, FS_Subset
  <1>5. Cardinality(less) <= Cardinality(some) /\ Cardinality(less) \in Nat /\ Cardinality(some) \in Nat
    BY <1>4, FS_Subset, FS_CardinalityType
  <1>6. mix.outstanding \in Nat /\ excess \in Nat
    BY MailboxAssumption DEF BoxTyped, Mixes
  <1>. QED
    BY <1>2, <1>3, <1>5, <1>6 DEF Spending

\* A step that touches neither the puts nor the clock.
LEMMA PutsLeft ==
    ASSUME BoxTyped, UNCHANGED <<put, now>>
    PROVE  Steady /\ Own' = Own
  <1>1. now \in Nat
    BY DEF BoxTyped
  <1>. QED
    BY <1>1 DEF Steady, Own

-----------------------------------------------------------------------------
(* The steps of the puts.                                                  *)

\* What a step on one put does to the table of puts.
LEMMA OnePut ==
    ASSUME BoxTyped, NEW m \in Puts, NEW r \in PutRecords, put' = [put EXCEPT ![m] = r]
    PROVE  /\ put' \in [Puts -> PutRecords] /\ put'[m] = r
           /\ \A k \in Puts : k # m => put'[k] = put[k]
  BY DEF BoxTyped

LEMMA FreshRecords ==
    /\ Idle \in PutRecords /\ Idle.at = "idle" /\ ~Idle.own
    /\ \A a \in {"on chain", "failed"} :
          LET r == [Idle EXCEPT !.at = a] IN r \in PutRecords /\ r.at = a /\ ~r.own
    /\ \A k \in Bundles, e \in Nat, o \in BOOLEAN :
          Sealed(k, e, o) \in PutRecords /\ Sealed(k, e, o).at = "sealed" /\ Sealed(k, e, o).own = o
  BY DEF Idle, PutRecords, Bundles, NoBundle, Done, Sealed

\* A put that goes from one place outside the box to another.
LEMMA PutMoved ==
    ASSUME BoxInv, NEW m \in Puts, NEW r \in PutRecords, put' = [put EXCEPT ![m] = r],
           m \in Mails => put[m].at # "delivered" /\ r.at # "delivered",
           m \notin Ids(box), r.at \notin {"swept", "evicted"},
           UNCHANGED <<now, box, shown, pendingAck, get, ack, seen, dropped, alone, excess>>,
           mix' \in Mixes, Spending'
    PROVE  BoxInv'
  <1>0. BoxTyped /\ Filing /\ Kept /\ Alone
    BY DEF BoxInv
  <1>1. /\ put' \in [Puts -> PutRecords] /\ put'[m] = r
        /\ \A k \in Puts : k # m => put'[k] = put[k]
    BY <1>0, OnePut
  <1>2. BoxTyped'
    BY <1>0, <1>1 DEF BoxTyped
  <1>3. Smaller({})
    BY <1>0, SameBox
  <1>4. Steady
    <2>1. Mails \subseteq Puts /\ Ids(box) \subseteq Puts /\ now \in Nat
      BY <1>0, BoxSizes DEF Puts, BoxTyped
    <2>. QED
      BY <1>1, <2>1 DEF Steady
  <1>5. Filing'
    BY <1>0, <1>3, <1>4, FilingKept
  <1>6. Kept'
    BY <1>0, <1>4, KeptKept DEF BoxTyped
  <1>7. Alone'
    <2>1. \A k \in alone' : put'[k].at \in {"swept", "evicted"} =>
             put'[k].at = put[k].at /\ put'[k].existing = put[k].existing
      BY <1>0, <1>1 DEF BoxTyped
    <2>. QED
      BY <1>0, <1>3, <2>1, AloneKept
  <1>. QED
    BY <1>2, <1>5, <1>6, <1>7 DEF BoxInv

\* Who is still to be answered has no file.
LEMMA NotFiled ==
    ASSUME Filing, NEW m, put[m].at # "delivered"
    PROVE  m \notin Ids(box)
  BY DEF Filing

LEMMA SealKeeps ==
    ASSUME MailInv, NEW m \in Puts, NEW answered \in BOOLEAN, NEW life \in Lifetimes, Seal(m, answered, life)
    PROVE  BoxInv'
  <1>. DEFINE e == IF life = 0 THEN 0 ELSE now + life
              r == IF answered /\ directory # NoBundle
                   THEN Sealed(directory, e, FALSE)
                   ELSE [Idle EXCEPT !.at = "on chain"]
  <1>1. /\ put' = [put EXCEPT ![m] = r] /\ put[m].at = "idle" /\ m \in Mails
        /\ UNCHANGED <<now, box, mix, shown, pendingAck, get, ack, seen, dropped, alone, excess>>
    BY DEF Seal, readVars
  <1>2. BoxInv /\ BoxTyped /\ Filing /\ Spending /\ directory \in Bundles /\ m \notin Dummies
    BY <1>1, MailboxAssumption DEF MailInv, BoxInv, KeysInv, KeysTyped
  <1>3. e \in Nat
    <2>1. life \in Nat /\ now \in Nat
      BY <1>2, MailboxAssumption DEF BoxTyped
    <2>. QED
      BY <2>1
  <1>. HIDE DEF e
  <1>4. r \in PutRecords /\ r.at \in {"sealed", "on chain"}
    BY <1>2, <1>3, FreshRecords
  <1>. HIDE DEF r
  <1>5. \A d \in Dummies : put'[d] = put[d]
    BY <1>1, <1>2, <1>4, OnePut DEF Puts
  <1>6. Own' \subseteq Own
    BY <1>5 DEF Own
  <1>7. Spending' /\ mix' \in Mixes
    BY <1>1, <1>2, <1>6, SpendingKept DEF BoxTyped
  <1>8. m \notin Ids(box)
    BY <1>1, <1>2, NotFiled
  <1>. QED
    BY <1>1, <1>2, <1>4, <1>7, <1>8, PutMoved

LEMMA PutFailKeeps ==
    ASSUME BoxInv, NEW m \in Puts, PutFail(m)
    PROVE  BoxInv'
  <1>. DEFINE r == IF m \in Mails THEN [Idle EXCEPT !.at = "failed"] ELSE Idle
  <1>1. /\ put' = [put EXCEPT ![m] = r] /\ put[m].at = "sealed"
        /\ UNCHANGED <<now, box, mix, shown, pendingAck, get, ack, seen, dropped, alone, excess>>
    BY DEF PutFail, readVars
  <1>2. BoxTyped /\ Filing /\ Spending
    BY DEF BoxInv
  <1>3. r \in PutRecords /\ r.at \in {"failed", "idle"} /\ ~r.own
    BY FreshRecords
  <1>. HIDE DEF r
  <1>4. Own' \subseteq Own
    BY <1>1, <1>2, <1>3, OnePut DEF Own, Puts
  <1>5. Spending' /\ mix' \in Mixes
    BY <1>1, <1>2, <1>4, SpendingKept DEF BoxTyped
  <1>6. m \notin Ids(box)
    BY <1>1, <1>2, NotFiled
  <1>. QED
    BY <1>1, <1>3, <1>5, <1>6, PutMoved

\* What is common to sweeping and evicting: files go, letters among them are noted, and
\* the put moves on in its handler.
LEMMA PutWithout ==
    ASSUME BoxInv, NEW m \in Puts, NEW r \in PutRecords, NEW gone,
           put' = [put EXCEPT ![m] = r], put[m].at # "delivered", r.at \in {"swept", "evicted"},
           r.own = put[m].own, box' = Without(box, gone), dropped' = dropped \cup (gone \cap Mails),
           alone' \in SUBSET Puts, UNCHANGED <<now, readVars>>
    PROVE  BoxTyped' /\ Filing' /\ Kept' /\ Spending' /\ Smaller(gone)
           /\ \A k \in Puts : k # m => put'[k] = put[k]
  <1>0. BoxTyped /\ Filing /\ Kept /\ Spending
        /\ UNCHANGED <<mix, shown, pendingAck, get, ack, seen, excess>>
    BY DEF BoxInv, readVars
  <1>1. /\ put' \in [Puts -> PutRecords] /\ put'[m] = r
        /\ \A k \in Puts : k # m => put'[k] = put[k]
    BY <1>0, OnePut
  <1>2. Smaller(gone)
    BY <1>0, WithoutIs
  <1>3. BoxTyped'
    BY <1>0, <1>1, <1>2 DEF BoxTyped, Smaller
  <1>4. Steady
    <2>1. Mails \subseteq Puts /\ Ids(box) \subseteq Puts /\ now \in Nat
      BY <1>0, BoxSizes DEF Puts, BoxTyped
    <2>. QED
      BY <1>1, <2>1 DEF Steady
  <1>5. Filing'
    BY <1>0, <1>2, <1>4, FilingKept
  <1>6. Kept'
    BY <1>0, <1>2, <1>4, KeptKept DEF BoxTyped, Smaller
  <1>7. Own' \subseteq Own
    BY <1>1 DEF Own, Puts
  <1>8. Spending'
    BY <1>0, <1>7, SpendingKept
  <1>. QED
    BY <1>1, <1>2, <1>3, <1>5, <1>6, <1>8

LEMMA PutSweepKeeps ==
    ASSUME BoxInv, NEW m \in Puts, PutSweep(m)
    PROVE  BoxInv'
  <1>. DEFINE r == [put[m] EXCEPT !.at = "swept", !.existing = Ids(box) \ Expired]
  <1>0. BoxTyped /\ Filing /\ Alone
    BY DEF BoxInv
  <1>1. /\ put' = [put EXCEPT ![m] = r] /\ put[m].at = "sealed" /\ put[m] \in PutRecords
        /\ box' = Without(box, Expired) /\ dropped' = dropped \cup (Expired \cap Mails)
        /\ alone' = alone \cup {m} /\ UNCHANGED <<now, readVars>>
    BY <1>0 DEF PutSweep, Lost, BoxTyped
  <1>2. r \in PutRecords /\ r.at = "swept" /\ r.existing = Ids(box) \ Expired /\ r.own = put[m].own
    BY <1>0, <1>1, BoxSizes DEF PutRecords
  <1>. HIDE DEF r
  <1>3. alone' \in SUBSET Puts /\ put'[m] = r
    BY <1>0, <1>1, <1>2, OnePut DEF BoxTyped
  <1>4. /\ BoxTyped' /\ Filing' /\ Kept' /\ Spending' /\ Smaller(Expired)
        /\ \A k \in Puts : k # m => put'[k] = put[k]
    BY <1>1, <1>2, <1>3, PutWithout
  <1>5. Alone'
    <2>0. Cardinality(box) \in Nat /\ MaxPerBox \in Nat
      BY <1>0, BoxSizes, MailboxAssumption
    <2>1. \A k \in alone' : put'[k].at = "swept" => Ids(box') \subseteq put'[k].existing
      BY <1>0, <1>1, <1>2, <1>3, <1>4 DEF Alone, BoxTyped, Smaller
    <2>2. \A k \in alone' : put'[k].at = "evicted" => k \in alone /\ put[k].at = "evicted"
      BY <1>0, <1>1, <1>2, <1>3, <1>4 DEF BoxTyped
    <2>3. \A k \in alone' : put'[k].at = "evicted" => Cardinality(box') < MaxPerBox
      BY <1>0, <1>4, <2>0, <2>2 DEF Alone, Smaller
    <2>. QED
      BY <2>1, <2>3 DEF Alone
  <1>. QED
    BY <1>4, <1>5 DEF BoxInv

\* A put alone at work leaves room for its own envelope.
LEMMA RoomMade ==
    ASSUME BoxTyped, Filing, Alone, NEW m \in Puts, m \in alone, put[m].at = "swept",
           box' = Without(box, Evicted(m))
    PROVE  Cardinality(box') < MaxPerBox
  <1>. DEFINE listed == put[m].existing
              n == Cardinality(listed) - MaxPerBox + 1
              kept == { f \in box : f.id \notin Evicted(m) }
  <1>1. /\ listed \in SUBSET Puts /\ Ids(box) \subseteq listed
        /\ IsFiniteSet(box) /\ Cardinality(box) \in Nat /\ MaxPerBox \in Nat /\ MaxPerBox > 0
    BY BoxSizes, MailboxAssumption DEF BoxTyped, PutRecords, Alone
  <1>2. /\ IsFiniteSet(listed) /\ Cardinality(listed) \in Nat /\ Cardinality(box) <= Cardinality(listed)
    BY <1>1, BoxSizes, FS_Subset, FS_CardinalityType
  <1>3. { f \in box : f.id \in listed } = box
    BY <1>1 DEF Ids
  <1>4. Evicted(m) = Ids(Oldest(box, n))
    BY <1>3 DEF Evicted
  <1>5. kept = box \ Oldest(box, n)
    <2>1. Oldest(box, n) \subseteq box
      BY DEF Oldest
    <2>2. \A f \in box : f.id \in Ids(Oldest(box, n)) => f \in Oldest(box, n)
      BY <2>1 DEF Ids, Filing
    <2>3. \A f \in Oldest(box, n) : f.id \in Ids(Oldest(box, n))
      BY DEF Ids
    <2>. QED
      BY <1>4, <2>1, <2>2, <2>3
  <1>6. n \in Int
    BY <1>1, <1>2
  <1>7. \A f \in box : f.nth \in Nat
    BY BoxSizes
  <1>8. kept = {} \/ Cardinality(kept) <= Cardinality(box) - n
    <2>1. \/ box \ Oldest(box, n) = {}
          \/ Cardinality(box \ Oldest(box, n)) <= Cardinality(box) - n
      <3>. HIDE DEF n
      <3>. QED
        BY <1>1, <1>6, <1>7, YoungestLeft
    <2>. QED
      BY <1>5, <2>1
  <1>9. Cardinality(kept) \in Nat
    BY <1>1, FS_Subset, FS_CardinalityType
  <1>10. Cardinality(kept) < MaxPerBox
    <2>1. CASE kept = {}
      BY <1>1, <2>1, FS_EmptySet
    <2>2. CASE Cardinality(kept) <= Cardinality(box) - n
      BY <1>1, <1>2, <1>9, <2>2
    <2>. QED
      BY <1>8, <2>1, <2>2
  <1>11. Cardinality(box') \in Nat /\ Cardinality(box') <= Cardinality(kept)
    BY WithoutIs DEF Smaller
  <1>. QED
    BY <1>1, <1>9, <1>10, <1>11

LEMMA PutEvictKeeps ==
    ASSUME BoxInv, NEW m \in Puts, PutEvict(m)
    PROVE  BoxInv'
  <1>. DEFINE r == [put[m] EXCEPT !.at = "evicted", !.existing = {}, !.release = ReleaseAt]
  <1>0. BoxTyped /\ Filing /\ Alone
    BY DEF BoxInv
  <1>1. /\ put' = [put EXCEPT ![m] = r] /\ put[m].at = "swept" /\ put[m] \in PutRecords
        /\ box' = Without(box, Evicted(m)) /\ dropped' = dropped \cup (Evicted(m) \cap Mails)
        /\ alone' = alone /\ UNCHANGED <<now, readVars>>
    BY <1>0 DEF PutEvict, Lost, BoxTyped
  <1>2. ReleaseAt \in Nat
    BY <1>0 DEF ReleaseAt, BoxTyped
  <1>3. r \in PutRecords /\ r.at = "evicted" /\ r.own = put[m].own
    BY <1>1, <1>2 DEF PutRecords
  <1>. HIDE DEF r
  <1>4. alone' \in SUBSET Puts /\ put'[m] = r
    BY <1>0, <1>1, <1>3, OnePut DEF BoxTyped
  <1>5. /\ BoxTyped' /\ Filing' /\ Kept' /\ Spending' /\ Smaller(Evicted(m))
        /\ \A k \in Puts : k # m => put'[k] = put[k]
    BY <1>1, <1>3, <1>4, PutWithout
  <1>6. Alone'
    <2>0. Cardinality(box) \in Nat /\ MaxPerBox \in Nat
      BY <1>0, BoxSizes, MailboxAssumption
    <2>1. \A k \in alone' : put'[k].at = "swept" => Ids(box') \subseteq put'[k].existing
      BY <1>0, <1>1, <1>3, <1>4, <1>5 DEF Alone, BoxTyped, Smaller
    <2>2. m \in alone => Cardinality(box') < MaxPerBox
      BY <1>0, <1>1, RoomMade
    <2>3. \A k \in alone' : put'[k].at = "evicted" => Cardinality(box') < MaxPerBox
      BY <1>0, <1>1, <1>5, <2>0, <2>2 DEF Alone, BoxTyped, Smaller
    <2>. QED
      BY <2>1, <2>3 DEF Alone
  <1>. QED
    BY <1>5, <1>6 DEF BoxInv

LEMMA PutWriteKeeps ==
    ASSUME BoxInv, NEW m \in Puts, PutWrite(m)
    PROVE  BoxInv'
  <1>. DEFINE r == [put[m] EXCEPT !.at = "delivered", !.release = 0]
  <1>0. BoxTyped /\ Filing /\ Kept /\ Alone /\ Spending
    BY DEF BoxInv
  <1>1. /\ put' = [put EXCEPT ![m] = r] /\ put[m].at = "evicted" /\ put[m] \in PutRecords
        /\ box' = box \cup {File(m)} /\ alone' = {}
        /\ UNCHANGED <<now, mix, shown, pendingAck, get, ack, seen, dropped, excess>>
    BY <1>0 DEF PutWrite, BoxTyped, readVars
  <1>2. r \in PutRecords /\ r.at = "delivered" /\ r.own = put[m].own
    BY <1>1 DEF PutRecords, Done
  <1>. HIDE DEF r
  <1>3. /\ put' \in [Puts -> PutRecords] /\ put'[m] = r
        /\ \A k \in Puts : k # m => put'[k] = put[k]
    BY <1>0, <1>1, <1>2, OnePut
  <1>4. File(m) \in FileRecords /\ File(m).id = m
    <2>1. Cardinality(box) \in Nat /\ now \in Nat
      BY <1>0, BoxSizes DEF BoxTyped
    <2>. QED
      BY <1>1, <2>1 DEF File, FileRecords, PutRecords
  <1>5. BoxTyped'
    BY <1>0, <1>1, <1>3, <1>4 DEF BoxTyped
  <1>6. Ids(box') = Ids(box) \cup {m} /\ Ids(box) \subseteq Puts /\ m \notin Ids(box)
    BY <1>0, <1>1, <1>4, BoxSizes, NotFiled DEF Ids
  <1>7. Filing'
    <2>1. \A k \in Ids(box') : put'[k].at = "delivered"
      BY <1>0, <1>2, <1>3, <1>6 DEF Filing
    <2>2. \A f \in box : f.id # m
      BY <1>6 DEF Ids
    <2>3. \A f, g \in box' : f.id = g.id => f = g
      BY <1>0, <1>1, <1>4, <2>2 DEF Filing
    <2>4. \A k \in (shown' \cup get'.ids) \cap Mails : put'[k].at = "delivered"
      BY <1>0, <1>1, <1>2, <1>3 DEF Filing, Puts
    <2>. QED
      BY <2>1, <2>3, <2>4 DEF Filing
  <1>8. Kept'
    <2>1. \A k \in Mails : k # m => (SenderExpired(k)' <=> SenderExpired(k))
      BY <1>1, <1>3 DEF SenderExpired, Puts
    <2>2. \A k \in shown' : k \in seen' \/ SenderExpired(k)'
      <3>1. \A k \in shown : k # m /\ k \in Mails
        BY <1>0, <1>1 DEF Filing, BoxTyped
      <3>. QED
        BY <1>0, <1>1, <2>1, <3>1 DEF Kept
    <2>3. \A k \in Mails : put'[k].at = "delivered" =>
             k \in Ids(box') \cup seen' \cup dropped' \/ SenderExpired(k)'
      <3>1. SUFFICES ASSUME NEW k \in Mails, k # m, put[k].at = "delivered"
                     PROVE  k \in Ids(box') \cup seen' \cup dropped' \/ SenderExpired(k)'
        BY <1>3, <1>6 DEF Puts
      <3>. QED
        BY <1>0, <1>1, <1>6, <2>1, <3>1 DEF Kept
    <2>. QED
      BY <2>2, <2>3 DEF Kept
  <1>9. Alone'
    BY <1>1 DEF Alone
  <1>10. Own' \subseteq Own
    BY <1>2, <1>3 DEF Own, Puts
  <1>11. Spending'
    BY <1>0, <1>1, <1>10, SpendingKept
  <1>. QED
    BY <1>5, <1>7, <1>8, <1>9, <1>11 DEF BoxInv

\* A dummy is emitted as something new, and nothing remembers the name.
LEMMA Emitted ==
    ASSUME BoxInv, NEW key \in Bundles, NEW own \in BOOLEAN, Emit(key, own),
           UNCHANGED <<now, box, shown, pendingAck, get, ack, seen, dropped, alone, excess>>,
           mix' \in Mixes, Spending'
    PROVE  BoxInv'
  <1>1. NextDummy \in Unused
    <2>1. \E d : d \in Unused
      BY DEF Emit
    <2>. QED
      BY <2>1 DEF NextDummy
  <1>2. PICK d \in Unused : d = NextDummy
    BY <1>1
  <1>3. d \in Puts /\ d \notin Mails /\ d \notin Ids(box)
    BY MailboxAssumption DEF Unused, Remembered, Puts
  <1>4. put' = [put EXCEPT ![d] = Sealed(key, 0, own)]
    BY <1>2 DEF Emit
  <1>5. Sealed(key, 0, own) \in PutRecords /\ Sealed(key, 0, own).at = "sealed"
    BY FreshRecords
  <1>. QED
    BY <1>3, <1>4, <1>5, PutMoved

\* At most one more of them is the session's.
LEMMA EmittedOwn ==
    ASSUME BoxTyped, NEW key \in Bundles, NEW own \in BOOLEAN, Emit(key, own)
    PROVE  /\ Cardinality(Own) \in Nat /\ Cardinality(Own') \in Nat
           /\ Cardinality(Own') <= Cardinality(Own) + 1
           /\ ~own => Own' \subseteq Own
  <1>1. NextDummy \in Unused
    <2>1. \E d : d \in Unused
      BY DEF Emit
    <2>. QED
      BY <2>1 DEF NextDummy
  <1>2. PICK d \in Unused : d = NextDummy
    BY <1>1
  <1>3. d \in Puts /\ d \in Dummies
    BY DEF Unused, Puts
  <1>4. put' = [put EXCEPT ![d] = Sealed(key, 0, own)]
    BY <1>2 DEF Emit
  <1>5. /\ put'[d].own = own /\ \A k \in Puts : k # d => put'[k] = put[k]
    <2>1. PICK sealed \in PutRecords : sealed = Sealed(key, 0, own) /\ sealed.own = own
      BY FreshRecords
    <2>2. put'[d] = sealed /\ \A k \in Puts : k # d => put'[k] = put[k]
      BY <1>3, <1>4, <2>1, OnePut
    <2>. QED
      BY <2>1, <2>2
  <1>6. Own' \subseteq Own \cup {d} /\ (~own => Own' \subseteq Own)
    BY <1>5 DEF Own, Puts
  <1>7. PICK some, more : some = Own /\ more = Own'
    OBVIOUS
  <1>8. some \in SUBSET Dummies /\ IsFiniteSet(some) /\ Cardinality(some) \in Nat
    BY <1>7, MailboxAssumption, FS_Subset, FS_CardinalityType DEF Own
  <1>9. /\ IsFiniteSet(some \cup {d}) /\ Cardinality(some \cup {d}) <= Cardinality(some) + 1
        /\ Cardinality(some \cup {d}) \in Nat
    <2>1. /\ IsFiniteSet(some \cup {d})
          /\ d \in some \/ Cardinality(some \cup {d}) = Cardinality(some) + 1
      BY <1>8, FS_AddElement
    <2>2. d \in some => some \cup {d} = some
      OBVIOUS
    <2>3. Cardinality(some \cup {d}) \in Nat
      BY <2>1, FS_CardinalityType
    <2>. QED
      BY <1>8, <2>1, <2>2, <2>3
  <1>10. more \in SUBSET (some \cup {d})
    BY <1>6, <1>7
  <1>11. Cardinality(more) <= Cardinality(some \cup {d}) /\ Cardinality(more) \in Nat
    BY <1>9, <1>10, FS_Subset, FS_CardinalityType
  <1>. QED
    BY <1>6, <1>7, <1>8, <1>9, <1>11

-----------------------------------------------------------------------------
(* Cover traffic.                                                          *)

\* A dummy on its way costs one of the session's budget.
LEMMA CoverSlotKeeps ==
    ASSUME MailInv, CoverSlot
    PROVE  BoxInv'
  <1>0. BoxInv /\ BoxTyped /\ Spending /\ KeysTyped /\ MaxOutstanding \in Nat
    BY MailboxAssumption DEF BoxInv, MailInv, KeysInv
  <1>1. /\ mix.armed /\ mix.outstanding < MaxOutstanding
        /\ mix' = [mix EXCEPT !.outstanding = mix.outstanding + 1]
        /\ (spks # <<>> /\ Emit(spks[1], TRUE)) \/ put' = put
        /\ UNCHANGED <<now, box, shown, pendingAck, get, ack, seen, dropped, alone, excess>>
    BY DEF CoverSlot
  <1>2. PICK k \in 0 .. MaxOutstanding : k = mix.outstanding + 1
    BY <1>0, <1>1 DEF BoxTyped, Mixes
  <1>3. mix' = [mix EXCEPT !.outstanding = k] /\ mix \in Mixes
    BY <1>0, <1>1, <1>2 DEF BoxTyped
  <1>4. mix' \in Mixes /\ mix'.outstanding = k
    BY <1>3 DEF Mixes
  <1>5. mix'.armed
    BY <1>1, <1>3, Zenon DEF Mixes
  <1>6. mix.outstanding \in Nat /\ excess \in Nat /\ Cardinality(Own) <= mix.outstanding + excess
    BY <1>0, <1>3 DEF BoxTyped, Spending, Mixes
  <1>7. CASE spks # <<>> /\ Emit(spks[1], TRUE)
    <2>1. spks[1] \in Bundles
      BY <1>0, <1>7, KeyFacts
    <2>2. PICK key \in Bundles : Emit(key, TRUE)
      BY <1>7, <2>1
    <2>3. /\ Cardinality(Own) \in Nat /\ Cardinality(Own') \in Nat
          /\ Cardinality(Own') <= Cardinality(Own) + 1
      BY <1>0, <2>2, EmittedOwn
    <2>4. Cardinality(Own') <= k + excess
      BY <1>2, <1>6, <2>3
    <2>5. Spending'
      BY <1>1, <1>4, <1>5, <2>4 DEF Spending
    <2>. QED
      BY <1>0, <1>1, <1>4, <2>2, <2>5, Emitted
  <1>8. CASE put' = put
    <2>1. Own' = Own /\ Cardinality(Own) \in Nat
      <3>1. Own' = Own /\ Own \in SUBSET Dummies
        BY <1>8 DEF Own
      <3>. QED
        BY <3>1, MailboxAssumption, FS_Subset, FS_CardinalityType
    <2>2. Cardinality(Own') <= k + excess
      BY <1>2, <1>6, <2>1
    <2>3. Spending'
      BY <1>1, <1>4, <1>5, <2>2 DEF Spending
    <2>4. BoxTyped' /\ Filing' /\ Kept' /\ Alone'
      BY <1>0, <1>1, <1>4, <1>8 DEF BoxInv, BoxTyped, Filing, Kept, Alone, Ids, SenderExpired
    <2>. QED
      BY <2>3, <2>4 DEF BoxInv
  <1>. QED
    BY <1>1, <1>7, <1>8

LEMMA PeerCoverKeeps ==
    ASSUME MailInv, PeerCover
    PROVE  BoxInv'
  <1>0. BoxInv /\ BoxTyped /\ Spending /\ directory \in Bundles
    BY DEF BoxInv, MailInv, KeysInv, KeysTyped
  <1>1. /\ Emit(directory, FALSE)
        /\ UNCHANGED <<now, box, mix, shown, pendingAck, get, ack, seen, dropped, alone, excess>>
    BY DEF PeerCover, readVars
  <1>2. PICK key \in Bundles : Emit(key, FALSE)
    BY <1>0, <1>1
  <1>3. Own' \subseteq Own
    BY <1>0, <1>2, EmittedOwn
  <1>4. Spending' /\ mix' \in Mixes
    BY <1>0, <1>1, <1>3, SpendingKept DEF BoxTyped
  <1>. QED
    BY <1>0, <1>1, <1>2, <1>4, Emitted

\* Disowning changes one thing about a put.
LEMMA Disowning ==
    ASSUME BoxTyped, NEW ids, put' = Disowned(ids)
    PROVE  /\ put' \in [Puts -> PutRecords]
           /\ \A m \in Puts : /\ put'[m].at = put[m].at /\ put'[m].existing = put[m].existing
                              /\ put'[m].expires = put[m].expires
                              /\ put'[m].own <=> put[m].own /\ m \notin ids
  <1>1. ASSUME NEW r \in PutRecords
        PROVE  LET q == [r EXCEPT !.own = FALSE]
               IN  /\ q \in PutRecords /\ q.at = r.at /\ q.existing = r.existing
                   /\ q.expires = r.expires /\ q.own = FALSE
    BY DEF PutRecords
  <1>2. \A m \in Puts : put[m] \in PutRecords
    BY DEF BoxTyped
  <1>3. \A m \in Puts : put'[m] = IF m \in ids THEN [put[m] EXCEPT !.own = FALSE] ELSE put[m]
    BY DEF Disowned
  <1>4. DOMAIN put' = Puts /\ put' = [m \in Puts |-> put'[m]]
    BY DEF Disowned
  <1>5. ASSUME NEW m \in Puts
        PROVE  /\ put'[m] \in PutRecords
               /\ put'[m].at = put[m].at /\ put'[m].existing = put[m].existing
               /\ put'[m].expires = put[m].expires
               /\ put'[m].own <=> put[m].own /\ m \notin ids
    <2>1. CASE m \in ids
      <3>1. put'[m] = [put[m] EXCEPT !.own = FALSE]
        BY <1>3, <2>1
      <3>2. /\ put'[m] \in PutRecords /\ put'[m].at = put[m].at /\ put'[m].existing = put[m].existing
            /\ put'[m].expires = put[m].expires /\ put'[m].own = FALSE
        BY <1>1, <1>2, <3>1
      <3>. QED
        BY <2>1, <3>2
    <2>2. CASE m \notin ids
      <3>1. put'[m] = put[m]
        BY <1>3, <2>2
      <3>. QED
        BY <1>2, <2>2, <3>1
    <2>. QED
      BY <2>1, <2>2
  <1>. QED
    BY <1>4, <1>5

\* The end of a session: none of the dummies is its own any more.
LEMMA SessionOver ==
    ASSUME BoxInv, SessionEnds, UNCHANGED <<now, box, seen, dropped, alone>>,
           shown' \subseteq shown, get'.ids \subseteq get.ids, get' \in Pages, ack' \in Answers
    PROVE  BoxInv'
  <1>0. BoxTyped /\ Filing /\ Kept /\ Alone /\ Spending /\ MaxOutstanding \in Nat
    BY MailboxAssumption DEF BoxInv
  <1>1. /\ mix' = Resting /\ pendingAck' = {} /\ excess' = 0
        /\ put' = Disowned(Puts)
    BY DEF SessionEnds
  <1>2. /\ put' \in [Puts -> PutRecords]
        /\ \A m \in Puts : /\ put'[m].at = put[m].at /\ put'[m].existing = put[m].existing
                           /\ put'[m].expires = put[m].expires /\ ~put'[m].own
    BY <1>0, <1>1, Disowning
  <1>3. mix' \in Mixes /\ ~mix'.armed /\ mix'.outstanding = 0
    BY <1>0, <1>1 DEF Mixes, Resting
  <1>4. BoxTyped'
    BY <1>0, <1>1, <1>2, <1>3 DEF BoxTyped
  <1>5. Smaller({})
    BY <1>0, SameBox
  <1>6. Steady
    <2>1. Mails \subseteq Puts /\ Ids(box) \subseteq Puts /\ now \in Nat
      BY <1>0, BoxSizes DEF Puts, BoxTyped
    <2>. QED
      BY <1>2, <2>1 DEF Steady
  <1>7. Filing'
    BY <1>0, <1>5, <1>6, FilingKept
  <1>8. Kept'
    BY <1>0, <1>6, KeptKept DEF BoxTyped
  <1>9. Alone'
    BY <1>0, <1>2, <1>5, AloneKept DEF BoxTyped
  <1>10. Spending'
    <2>1. Own' = {}
      BY <1>2 DEF Own, Puts
    <2>2. Cardinality(Own') = 0
      BY <2>1, FS_EmptySet
    <2>. QED
      BY <1>1, <1>3, <2>2 DEF Spending
  <1>. QED
    BY <1>4, <1>7, <1>8, <1>9, <1>10 DEF BoxInv

LEMMA NothingComes ==
    /\ NoPage \in Pages /\ NoPage.ids = {} /\ NoAnswer \in Answers
  BY DEF NoPage, NoAnswer, Pages, Answers

LEMMA StopMixingKeeps ==
    ASSUME BoxInv, StopMixing
    PROVE  BoxInv'
  <1>1. /\ SessionEnds /\ UNCHANGED <<now, box, seen, dropped, alone>>
        /\ PageGone \/ UNCHANGED <<shown, get, ack>>
    BY DEF StopMixing
  <1>2. CASE PageGone
    BY <1>1, <1>2, SessionOver, NothingComes DEF PageGone
  <1>3. CASE UNCHANGED <<shown, get, ack>>
    BY <1>1, <1>3, SessionOver DEF BoxInv, BoxTyped
  <1>. QED
    BY <1>1, <1>2, <1>3

-----------------------------------------------------------------------------
(* Reading.                                                                *)

\* What the relay returns stems from its files.
LEMMA PageIsFiled ==
    ASSUME NEW files
    PROVE  Ids(Page(files)) \subseteq Ids(files)
  BY DEF Page, Oldest, Ids

\* A step of reading: the puts stay, and files may go.
LEMMA ReadKeeps ==
    ASSUME BoxInv, NEW gone, Smaller(gone), UNCHANGED <<put, now, alone>>,
           mix' \in Mixes, get' \in Pages, ack' \in Answers, excess' = excess,
           mix'.outstanding = mix.outstanding, ~mix'.armed => ~mix.armed,
           shown' \in SUBSET Mails, pendingAck' \in SUBSET Dummies,
           (shown' \cup get'.ids) \cap Mails \subseteq shown \cup get.ids \cup Ids(box),
           seen \subseteq seen', dropped \subseteq dropped',
           \A m \in shown' : m \in shown \cup seen' \/ SenderExpired(m)',
           \A m \in Mails \cap gone : m \in seen' \cup dropped' \/ SenderExpired(m)'
    PROVE  BoxInv'
  <1>0. BoxTyped /\ Filing /\ Kept /\ Alone /\ Spending
    BY DEF BoxInv
  <1>1. Steady /\ Own' = Own
    BY <1>0, PutsLeft
  <1>2. BoxTyped'
    BY <1>0 DEF BoxTyped, Smaller
  <1>3. Filing'
    BY <1>0, <1>1, FilingKept
  <1>4. Kept'
    BY <1>0, <1>1, KeptKept DEF Smaller
  <1>5. Alone'
    BY <1>0, AloneKept
  <1>6. Spending'
    BY <1>0, <1>1 DEF Spending
  <1>. QED
    BY <1>2, <1>3, <1>4, <1>5, <1>6 DEF BoxInv

LEMMA GetKeeps ==
    ASSUME BoxInv, NEW by \in {"fetch", "poll"}, Get(by)
    PROVE  BoxInv'
  <1>0. BoxTyped /\ Filing
    BY DEF BoxInv
  <1>1. /\ box' = Without(box, Expired) /\ get' = [by |-> by, ids |-> Ids(Page(box'))]
        /\ dropped' = dropped \cup (Expired \cap Mails)
        /\ UNCHANGED <<now, put, mix, shown, pendingAck, ack, seen, alone, excess>>
    BY DEF Get, Lost
  <1>2. Smaller(Expired) /\ Ids(box) \subseteq Puts
    BY <1>0, <1>1, WithoutIs, BoxSizes
  <1>3. Ids(Page(box')) \subseteq Ids(box)
    BY <1>2, PageIsFiled DEF Smaller
  <1>. HIDE DEF Page, Expired
  <1>4. get' \in Pages /\ get'.ids \subseteq Ids(box)
    BY <1>1, <1>2, <1>3 DEF Pages
  <1>. QED
    BY <1>0, <1>1, <1>2, <1>4, ReadKeeps DEF BoxTyped

LEMMA FetchHandleKeeps ==
    ASSUME BoxInv, FetchHandle
    PROVE  BoxInv'
  <1>. DEFINE ids == Opened(get.ids)
  <1>0. BoxTyped /\ Filing /\ Spending /\ MaxOutstanding \in Nat
    BY MailboxAssumption DEF BoxInv
  <1>1. /\ get' = NoPage /\ shown' = ids \cap Mails
        /\ seen' = seen \cup { m \in ids \cap Mails : ~SenderExpired(m) }
        /\ pendingAck' = pendingAck \cup (ids \cap Dummies)
        /\ mix' = IF mix.armed THEN mix ELSE [Resting EXCEPT !.armed = TRUE]
        /\ UNCHANGED <<now, box, put, ack, dropped, alone, excess>>
    BY DEF FetchHandle, MailIn, CoverIn
  <1>2. ids \subseteq get.ids
    BY DEF Opened
  <1>. HIDE DEF ids
  <1>3. mix' \in Mixes /\ mix'.armed /\ mix'.outstanding = mix.outstanding
    <2>1. CASE mix.armed
      BY <1>0, <1>1, <2>1 DEF BoxTyped
    <2>2. CASE ~mix.armed
      <3>1. mix' = [armed |-> TRUE, outstanding |-> 0] /\ mix.outstanding = 0
        BY <1>0, <1>1, <2>2 DEF Resting, Spending
      <3>. QED
        BY <1>0, <3>1 DEF Mixes
    <2>. QED
      BY <2>1, <2>2
  <1>4. \A m \in shown' : m \in seen' \/ SenderExpired(m)'
    BY <1>1 DEF SenderExpired
  <1>5. Smaller({})
    BY <1>0, <1>1, SameBox
  <1>. QED
    BY <1>0, <1>1, <1>2, <1>3, <1>4, <1>5, NothingComes, ReadKeeps DEF BoxTyped

LEMMA PollHarvestKeeps ==
    ASSUME BoxInv, PollHarvest
    PROVE  BoxInv'
  <1>0. BoxTyped /\ Filing
    BY DEF BoxInv
  <1>1. /\ get' = NoPage /\ pendingAck' \in SUBSET Dummies
        /\ UNCHANGED <<now, box, put, mix, shown, ack, seen, dropped, alone, excess>>
    BY <1>0 DEF PollHarvest, CoverIn, BoxTyped
  <1>2. Smaller({})
    BY <1>0, <1>1, SameBox
  <1>. QED
    BY <1>0, <1>1, <1>2, NothingComes, ReadKeeps DEF BoxTyped

\* An ack deletes what is listed, which was shown or has expired, and dummies.
LEMMA AckRelayKeeps ==
    ASSUME BoxInv, AckRelay
    PROVE  BoxInv'
  <1>0. BoxTyped /\ Filing /\ Kept /\ Dummies \cap Mails = {}
    BY MailboxAssumption DEF BoxInv
  <1>1. PICK swept \in SUBSET (pendingAck \ shown) :
           /\ box' = Without(box, shown \cup swept) /\ ack' = [due |-> TRUE, swept |-> swept]
           /\ UNCHANGED <<now, put, mix, shown, pendingAck, get, seen, dropped, alone, excess>>
    BY DEF AckRelay
  <1>2. Smaller(shown \cup swept) /\ swept \in SUBSET Dummies
    BY <1>0, <1>1, WithoutIs DEF BoxTyped
  <1>3. ack' \in Answers
    BY <1>1, <1>2 DEF Answers
  <1>4. \A m \in Mails \cap (shown \cup swept) : m \in seen' \/ SenderExpired(m)'
    BY <1>0, <1>1, <1>2 DEF Kept, SenderExpired
  <1>. QED
    BY <1>0, <1>1, <1>2, <1>3, <1>4, ReadKeeps DEF BoxTyped

LEMMA AckLostKeeps ==
    ASSUME BoxInv, AckLost
    PROVE  BoxInv'
  <1>0. BoxTyped /\ Filing
    BY DEF BoxInv
  <1>1. /\ ack' = NoAnswer
        /\ UNCHANGED <<now, box, put, mix, shown, pendingAck, get, seen, dropped, alone, excess>>
    BY DEF AckLost
  <1>2. Smaller({})
    BY <1>0, <1>1, SameBox
  <1>. QED
    BY <1>0, <1>1, <1>2, NothingComes, ReadKeeps DEF BoxTyped

\* The answer frees as much of the budget as dummies were swept; those that were not
\* the session's, or were counted off before, go to the excess.
LEMMA AckHandleKeeps ==
    ASSUME BoxInv, AckHandle
    PROVE  BoxInv'
  <1>0. BoxTyped /\ Filing /\ Kept /\ Alone /\ Spending /\ MaxOutstanding \in Nat
    BY MailboxAssumption DEF BoxInv
  <1>1. /\ ack' = NoAnswer /\ shown' = {} /\ pendingAck' = pendingAck \ ack.swept
        /\ UNCHANGED <<now, box, get, seen, dropped, alone>>
    BY DEF AckHandle
  <1>2. Smaller({})
    BY <1>0, <1>1, SameBox
  <1>3. CASE ~mix.armed
    <2>1. UNCHANGED <<mix, excess, put>>
      BY <1>3 DEF AckHandle
    <2>. QED
      BY <1>0, <1>1, <1>2, <2>1, NothingComes, ReadKeeps DEF BoxTyped
  <1>4. CASE mix.armed
    <2>1. /\ mix' = [mix EXCEPT !.outstanding = Lowered(Cardinality(ack.swept))]
          /\ excess' = excess + Cardinality(Foreign(ack.swept))
          /\ put' = Disowned(ack.swept)
      BY <1>4 DEF AckHandle
    <2>2. PICK swept \in SUBSET Dummies : swept = ack.swept
      BY <1>0 DEF BoxTyped, Answers
    <2>3. /\ put' \in [Puts -> PutRecords]
          /\ \A m \in Puts : /\ put'[m].at = put[m].at /\ put'[m].existing = put[m].existing
                             /\ put'[m].expires = put[m].expires
                             /\ (put'[m].own <=> put[m].own /\ m \notin swept)
      BY <1>0, <2>1, <2>2, Disowning
    <2>4. PICK own, foreign, left : own = Own /\ foreign = Foreign(swept) /\ left = Own'
      OBVIOUS
    <2>5. left = own \ swept /\ foreign = swept \ own /\ own \in SUBSET Dummies
      BY <2>2, <2>3, <2>4 DEF Own, Foreign, Puts
    <2>6. /\ IsFiniteSet(own) /\ IsFiniteSet(swept) /\ IsFiniteSet(left) /\ IsFiniteSet(foreign)
          /\ Cardinality(own) \in Nat /\ Cardinality(swept) \in Nat
          /\ Cardinality(left) \in Nat /\ Cardinality(foreign) \in Nat
      BY <2>5, MailboxAssumption, FS_Subset, FS_CardinalityType
    <2>7. Cardinality(left) + Cardinality(swept) = Cardinality(own) + Cardinality(foreign)
      <3>1. left \cap swept = {} /\ own \cap foreign = {} /\ left \cup swept = own \cup foreign
        BY <2>5
      <3>2. Cardinality(left \cup swept) = Cardinality(left) + Cardinality(swept)
        BY <2>6, <3>1, Apart
      <3>3. Cardinality(own \cup foreign) = Cardinality(own) + Cardinality(foreign)
        BY <2>6, <3>1, Apart
      <3>. QED
        BY <3>1, <3>2, <3>3
    <2>8. PICK o \in 0 .. MaxOutstanding : o = mix.outstanding /\ Cardinality(own) <= o + excess
      BY <1>0, <2>4 DEF BoxTyped, Mixes, Spending
    <2>9. PICK low \in 0 .. MaxOutstanding : low = Lowered(Cardinality(swept)) /\ low >= o - Cardinality(swept)
      BY <1>0, <2>6, <2>8 DEF Lowered
    <2>10. mix' = [mix EXCEPT !.outstanding = low] /\ mix \in Mixes
      BY <1>0, <2>1, <2>2, <2>9 DEF BoxTyped
    <2>11. mix' \in Mixes /\ mix'.outstanding = low
      BY <2>10 DEF Mixes
    <2>12. mix'.armed
      BY <1>4, <2>10, Zenon DEF Mixes
    <2>13. excess \in Nat /\ excess' = excess + Cardinality(foreign) /\ excess' \in Nat
      BY <1>0, <2>1, <2>2, <2>4, <2>6 DEF BoxTyped
    <2>14. Cardinality(left) <= low + excess'
      BY <2>6, <2>7, <2>8, <2>9, <2>13
    <2>15. Spending'
      BY <2>4, <2>11, <2>12, <2>14 DEF Spending
    <2>16. BoxTyped'
      BY <1>0, <1>1, <2>3, <2>11, <2>13, NothingComes DEF BoxTyped
    <2>17. Steady
      <3>1. Mails \subseteq Puts /\ Ids(box) \subseteq Puts /\ now \in Nat
        BY <1>0, BoxSizes DEF Puts, BoxTyped
      <3>. QED
        BY <1>1, <2>3, <3>1 DEF Steady
    <2>18. Filing'
      BY <1>0, <1>1, <1>2, <2>17, FilingKept
    <2>19. Kept'
      BY <1>0, <1>1, <2>17, KeptKept
    <2>20. Alone'
      BY <1>0, <1>1, <1>2, <2>3, AloneKept DEF BoxTyped
    <2>. QED
      BY <2>15, <2>16, <2>18, <2>19, <2>20 DEF BoxInv
  <1>. QED
    BY <1>3, <1>4

LEMMA TickKeeps ==
    ASSUME BoxInv, Tick
    PROVE  BoxInv'
  <1>0. BoxTyped /\ Filing /\ Kept /\ Alone /\ Spending /\ MaxTime \in Nat
    BY MailboxAssumption DEF BoxInv
  <1>1. /\ now < MaxTime /\ now' = now + 1
        /\ UNCHANGED <<box, put, mix, shown, pendingAck, get, ack, seen, dropped, alone, excess>>
    BY DEF Tick, readVars
  <1>2. now \in 0 .. MaxTime /\ now' \in 0 .. MaxTime /\ now' >= now /\ now' \in Nat
    BY <1>0, <1>1 DEF BoxTyped
  <1>3. BoxTyped'
    BY <1>0, <1>1, <1>2 DEF BoxTyped
  <1>4. Steady
    BY <1>1, <1>2 DEF Steady
  <1>5. Kept'
    BY <1>0, <1>1, <1>4, KeptKept DEF BoxTyped
  <1>6. Filing' /\ Alone' /\ Spending'
    BY <1>0, <1>1 DEF Filing, Alone, Spending, Own, Ids
  <1>. QED
    BY <1>3, <1>5, <1>6 DEF BoxInv

-----------------------------------------------------------------------------
(* Putting it together.                                                    *)

\* The box does not read the device's keys.
LEMMA BoxStutter ==
    ASSUME BoxInv, UNCHANGED boxVars
    PROVE  BoxInv'
  <1>1. UNCHANGED <<now, box, put, mix, shown, pendingAck, get, ack, seen, dropped, alone, excess>>
    BY DEF boxVars, readVars
  <1>. QED
    BY <1>1 DEF BoxInv, BoxTyped, Filing, Kept, Alone, Spending, Own, Ids, SenderExpired

LEMMA KeysStepKeeps ==
    ASSUME MailInv, Keys
    PROVE  MailInv'
  <1>1. CASE PrekeysNext /\ UNCHANGED boxVars
    BY <1>1, PrekeysKeep, BoxStutter DEF MailInv
  <1>2. CASE /\ LoseDevice /\ SessionEnds /\ PageGone
             /\ UNCHANGED <<now, box, seen, dropped, alone>>
    BY <1>2, LoseDeviceKeeps, SessionOver, NothingComes DEF MailInv, PageGone
  <1>. QED
    BY <1>1, <1>2 DEF Keys

\* The mailbox's own steps leave the keys alone.
LEMMA BoxStepLeavesKeys ==
    ASSUME KeysInv, UNCHANGED prekeyVars
    PROVE  KeysInv'
  BY KeysLeft DEF prekeyVars

LEMMA PutStepKeeps ==
    ASSUME MailInv, NEW m \in Puts,
           PutSteps(m) \/ PutFail(m) \/ \E b \in BOOLEAN, life \in Lifetimes : Seal(m, b, life)
    PROVE  MailInv'
  <1>0. KeysInv /\ BoxInv
    BY DEF MailInv
  <1>1. UNCHANGED prekeyVars
    BY DEF PutSteps, PutSweep, PutEvict, PutWrite, PutFail, Seal
  <1>2. BoxInv'
    BY <1>0, PutSweepKeeps, PutEvictKeeps, PutWriteKeeps, PutFailKeeps, SealKeeps DEF PutSteps
  <1>. QED
    BY <1>0, <1>1, <1>2, BoxStepLeavesKeys DEF MailInv

CoverSteps == CoverSlot \/ PeerCover \/ StopMixing \/ Tick
ReadSteps == FetchGet \/ FetchHandle \/ PollGet \/ PollHarvest \/ AckRelay \/ AckHandle \/ AckLost

LEMMA CoverStepKeeps ==
    ASSUME MailInv, CoverSteps
    PROVE  MailInv'
  <1>0. KeysInv /\ BoxInv
    BY DEF MailInv
  <1>1. UNCHANGED prekeyVars
    BY DEF CoverSteps, CoverSlot, PeerCover, StopMixing, Tick
  <1>2. BoxInv'
    BY <1>0, CoverSlotKeeps, PeerCoverKeeps, StopMixingKeeps, TickKeeps DEF CoverSteps
  <1>. QED
    BY <1>0, <1>1, <1>2, BoxStepLeavesKeys DEF MailInv

LEMMA ReadStepKeeps ==
    ASSUME MailInv, ReadSteps
    PROVE  MailInv'
  <1>0. KeysInv /\ BoxInv
    BY DEF MailInv
  <1>1. UNCHANGED prekeyVars
    BY DEF ReadSteps, FetchGet, PollGet, Get, FetchHandle, PollHarvest, AckRelay, AckHandle, AckLost
  <1>2. BoxInv'
    BY <1>0, GetKeeps, FetchHandleKeeps, PollHarvestKeeps, AckRelayKeeps, AckHandleKeeps, AckLostKeeps
       DEF ReadSteps, FetchGet, PollGet
  <1>. QED
    BY <1>0, <1>1, <1>2, BoxStepLeavesKeys DEF MailInv

LEMMA MailStart ==
    ASSUME Init
    PROVE  MailInv
  <1>0. /\ PrekeysInit /\ now = 0 /\ box = {} /\ put = [m \in Puts |-> Idle]
        /\ mix = [armed |-> FALSE, outstanding |-> 0] /\ get = NoPage /\ ack = NoAnswer
        /\ shown = {} /\ pendingAck = {} /\ seen = {} /\ dropped = {} /\ alone = {} /\ excess = 0
        /\ \A m \in Puts : put[m] = Idle
    BY DEF Init, Resting
  <1>1. MaxTime \in Nat /\ MaxOutstanding \in Nat
    BY MailboxAssumption
  <1>2. BoxTyped
    <2>1. now \in 0 .. MaxTime /\ mix \in Mixes
      BY <1>0, <1>1 DEF Mixes
    <2>2. put \in [Puts -> PutRecords]
      BY <1>0, FreshRecords
    <2>. QED
      BY <1>0, <2>1, <2>2, NothingComes DEF BoxTyped
  <1>3. Filing /\ Kept /\ Alone
    BY <1>0, NothingComes DEF Filing, Kept, Alone, Idle, Puts, Ids
  <1>4. Own = {}
    BY <1>0 DEF Own, Idle, Puts
  <1>5. Spending
    BY <1>0, <1>4, FS_EmptySet DEF Spending
  <1>. QED
    BY <1>0, <1>2, <1>3, <1>5, KeysStart DEF MailInv, BoxInv

\* The invariant of the mailbox and the keys together.
THEOREM MailboxInvariant == Spec => []MailInv
  <1>1. ASSUME MailInv, [Next]_vars PROVE MailInv'
    <2>1. CASE UNCHANGED vars
      BY <1>1, <2>1, BoxStutter, BoxStepLeavesKeys DEF vars, MailInv
    <2>2. CASE Next
      BY <1>1, <2>2, KeysStepKeeps, PutStepKeeps, CoverStepKeeps, ReadStepKeeps
         DEF Next, CoverSteps, ReadSteps
    <2>. QED
      BY <1>1, <2>1, <2>2
  <1>. QED
    BY <1>1, MailStart, PTL DEF Spec

\* Mail the relay accepted stays in the box until the member's own fetch has shown it,
\* its sender let it expire, a full box evicted it or it outlived the TTL, and the
\* variables keep their types (lib/mailbox.ts, silentPoll and ackMailboxMessages).
THEOREM KeptUntilSeenAlways == Spec => []KeptUntilSeen
  <1>1. MailInv => KeptUntilSeen
    <2>. SUFFICES ASSUME MailInv PROVE KeptUntilSeen
      OBVIOUS
    <2>1. MailboxTypeOK
      <3>0. BoxTyped /\ Filing /\ KeysTyped
        BY DEF MailInv, BoxInv, KeysInv
      <3>1. Ids(box) \subseteq Puts /\ \A f, g \in box : f.id = g.id => f = g
        BY <3>0, BoxSizes DEF Filing
      <3>2. \A m \in Puts : put[m].at \in {"idle", "sealed", "swept", "evicted"} \cup Done
        BY <3>0 DEF BoxTyped, PutRecords
      <3>. QED
        BY <3>0, <3>1, <3>2 DEF MailboxTypeOK, BoxTyped, KeysTyped, Mixes, Pages, Answers
    <2>. QED
      BY <2>1 DEF KeptUntilSeen, MailInv, BoxInv, Kept
  <1>. QED
    BY <1>1, MailboxInvariant, PTL

\* A put that nobody wrote beside leaves the box within its cap, and a running session
\* has no more dummies out than its budget and what its count was lowered by for
\* others (app/api/mailbox/route.ts, put; lib/mailboxMixing.ts, noteCoverAcked).
THEOREM LimitsHoldAlways == Spec => []LimitsHold
  <1>1. MailInv => LimitsHold
    <2>. SUFFICES ASSUME MailInv PROVE LimitsHold
      OBVIOUS
    <2>0. BoxTyped /\ Alone /\ Spending /\ MaxOutstanding \in Nat
      BY MailboxAssumption DEF MailInv, BoxInv
    <2>1. \A m \in alone : put[m].at = "evicted" => Cardinality(box) < MaxPerBox
      BY <2>0 DEF Alone
    <2>2. PICK out, own : out = CoverOut /\ own = Own
      OBVIOUS
    <2>3. out \in SUBSET own /\ own \in SUBSET Dummies
      BY <2>2 DEF CoverOut, Own
    <2>4. /\ Cardinality(out) <= Cardinality(own) /\ Cardinality(out) \in Nat /\ Cardinality(own) \in Nat
      BY <2>3, MailboxAssumption, FS_Subset, FS_CardinalityType
    <2>5. PICK o \in 0 .. MaxOutstanding : Cardinality(own) <= o + excess
      BY <2>0, <2>2 DEF BoxTyped, Mixes, Spending
    <2>6. Cardinality(out) <= MaxOutstanding + excess
      BY <2>0, <2>4, <2>5 DEF BoxTyped
    <2>. QED
      BY <2>1, <2>2, <2>6 DEF LimitsHold
  <1>. QED
    BY <1>1, MailboxInvariant, PTL

\* Putting, fetching, showing and clearing mail never touch a key: whatever the box does,
\* the directory and the device behave as the publishing does alone, so that what holds
\* of the keys holds beside a running mailbox (lib/mailbox.ts; app/api/mailbox/route.ts).
THEOREM MailboxRefinesPrekeys == Spec => PrekeysSpec
  <1>1. Init => PrekeysInit
    BY DEF Init
  <1>2. [Next]_vars => [PrekeysNext]_prekeyVars
    <2>. SUFFICES ASSUME [Next]_vars PROVE PrekeysNext \/ UNCHANGED prekeyVars
      OBVIOUS
    <2>1. CASE Keys
      BY <2>1 DEF Keys, PrekeysNext
    <2>2. ASSUME NEW m \in Puts,
                 PutSteps(m) \/ PutFail(m) \/ (\E b \in BOOLEAN, life \in Lifetimes : Seal(m, b, life))
          PROVE  UNCHANGED prekeyVars
      BY <2>2 DEF PutSteps, PutSweep, PutEvict, PutWrite, PutFail, Seal
    <2>3. CASE CoverSteps \/ UNCHANGED vars
      BY <2>3 DEF CoverSteps, CoverSlot, PeerCover, StopMixing, Tick, vars
    <2>4. CASE ReadSteps
      BY <2>4 DEF ReadSteps, FetchGet, PollGet, Get, FetchHandle, PollHarvest, AckRelay, AckHandle, AckLost
    <2>. QED
      BY <2>1, <2>2, <2>3, <2>4 DEF Next, CoverSteps, ReadSteps
  <1>. QED
    BY <1>1, <1>2, PTL DEF Spec, PrekeysSpec

=============================================================================
