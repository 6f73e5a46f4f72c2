------------------------------ MODULE Prekeys ------------------------------
(***************************************************************************)
(* Prekeys of the off-chain mailbox (lib/mailbox.ts, the publish case of   *)
(* app/api/mailbox/route.ts): a member's device makes signed prekeys,      *)
(* keeps the secrets of the newest SPK_KEEP of them and publishes the      *)
(* newest in the relay's directory, where senders look it up.  The calls   *)
(* between device and relay may fail on either way, the member may refuse  *)
(* to sign or close the page, and the device may be lost.                  *)
(***************************************************************************)
EXTENDS Integers, Sequences, FiniteSets, Functions

CONSTANTS
    SpkKeep,      \* SPK_KEEP: the current prekey and at least the one before
    MaxEpoch,     \* bound: no key of this epoch or a later one comes of age
    MaxDevices,   \* bound: a device may be replaced by a fresh one
    MaxFailures   \* bound: calls that fail

ASSUME PrekeysAssumption == {SpkKeep, MaxEpoch, MaxDevices, MaxFailures} \subseteq Nat /\ SpkKeep > 1 /\ MaxDevices > 0

VARIABLES
    directory,    \* the published bundle: the key and its epoch
    device,       \* which device the member uses
    spks,         \* its prekeys with their secrets, newest first
    aged,         \* the newest is due for rotation, by age or by being pre-hybrid
    call,         \* where publishMailboxBundle stands
    failures,
    enabled,      \* history: the last call on this device returned normally
    blind         \* history: a rotation took a failed lookup for "no bundle"

prekeyVars == <<directory, device, spks, aged, call, failures, enabled, blind>>

NoBundle == [epoch |-> 0, by |-> 0]
Bundle(e) == [epoch |-> e, by |-> device]
Stages == {"idle", "lookup", "check", "signing", "writing"}

PrekeysInit ==
    /\ directory = NoBundle /\ device = 1 /\ spks = <<>> /\ aged = FALSE
    /\ call = "idle" /\ failures = 0 /\ enabled = FALSE /\ blind = FALSE

\* saveSpks: deleting the tail is the forward-secrecy act.
SaveSpks(keys) == spks' = SubSeq(keys, 1, IF Len(keys) < SpkKeep THEN Len(keys) ELSE SpkKeep)
LocalEpoch == IF spks = <<>> THEN 0 ELSE spks[1].epoch
Larger(a, b) == IF a > b THEN a ELSE b
NeedNew == spks = <<>> \/ aged

\* The member enables messages or opens the mailbox.
Begin ==
    /\ call = "idle"
    /\ call' = IF NeedNew THEN "lookup" ELSE "check"
    /\ enabled' = FALSE
    /\ UNCHANGED <<directory, device, spks, aged, failures, blind>>

\* A slip, once made: the directory is not asked, and a fresh device starts over.
RotatePastOwnOnly(answered) ==
    /\ call = "lookup"
    /\ ~answered => failures < MaxFailures
    /\ SaveSpks(<<Bundle(LocalEpoch + 1)>> \o spks) /\ aged' = FALSE
    /\ failures' = IF answered THEN failures ELSE failures + 1
    /\ blind' = (blind \/ ~answered)
    /\ call' = "signing"
    /\ UNCHANGED <<directory, device, enabled>>

\* Rotation: past the newest epoch of the device and of the directory, as far
\* as the lookup tells; a lookup that fails counts as "no bundle".  The secret
\* is saved before anything is signed or sent.
Rotate(answered) ==
    LET e == Larger(LocalEpoch, IF answered THEN directory.epoch ELSE 0) + 1
    IN  /\ call = "lookup"
        /\ ~answered => failures < MaxFailures
        /\ SaveSpks(<<Bundle(e)>> \o spks) /\ aged' = FALSE
        /\ failures' = IF answered THEN failures ELSE failures + 1
        /\ blind' = (blind \/ ~answered)
        /\ call' = "signing"
        /\ UNCHANGED <<directory, device, enabled>>

\* A slip: any bundle in the directory will do.
CheckAnyBundle(answered) ==
    /\ call = "check"
    /\ ~answered => failures < MaxFailures
    /\ failures' = IF answered THEN failures ELSE failures + 1
    /\ enabled' = (answered /\ directory # NoBundle)
    /\ call' = IF enabled' THEN "idle" ELSE "signing"
    /\ UNCHANGED <<directory, device, spks, aged, blind>>

\* No rotation: done when the directory is as new, be the bundle there another
\* device's; a lookup that fails leads to publishing again.
Check(answered) ==
    LET current == answered /\ directory # NoBundle /\ directory.epoch >= spks[1].epoch
    IN  /\ call = "check"
        /\ ~answered => failures < MaxFailures
        /\ failures' = IF answered THEN failures ELSE failures + 1
        /\ call' = IF current THEN "idle" ELSE "signing"
        /\ enabled' = current
        /\ UNCHANGED <<directory, device, spks, aged, blind>>

\* The relay reads the stored epoch and refuses one that is not newer ...
PublishRead ==
    /\ call = "signing"
    /\ call' = IF directory # NoBundle /\ directory.epoch >= spks[1].epoch THEN "idle" ELSE "writing"
    /\ UNCHANGED <<directory, device, spks, aged, failures, enabled, blind>>
\* ... and writes later.  The answer may be lost.
PublishWrite(answered) ==
    /\ call = "writing"
    /\ ~answered => failures < MaxFailures
    /\ directory' = spks[1]
    /\ failures' = IF answered THEN failures ELSE failures + 1
    /\ enabled' = answered
    /\ call' = "idle"
    /\ UNCHANGED <<device, spks, aged, blind>>

\* A refused signature, a closed page, a request that does not arrive.
GiveUp ==
    /\ call \in {"lookup", "check", "signing"} /\ failures < MaxFailures
    /\ call' = "idle" /\ failures' = failures + 1
    /\ UNCHANGED <<directory, device, spks, aged, enabled, blind>>

\* SPK_ROTATE_SECS pass.  Bound: MaxEpoch.
Age ==
    /\ spks # <<>> /\ ~aged /\ aged' = TRUE
    /\ Larger(LocalEpoch, directory.epoch) < MaxEpoch
    /\ UNCHANGED <<directory, device, spks, call, failures, enabled, blind>>

\* The device is lost: a fresh one derives the same identity key, and nothing else.
LoseDevice ==
    /\ call = "idle" /\ device < MaxDevices /\ spks # <<>>
    /\ device' = device + 1 /\ spks' = <<>> /\ aged' = FALSE /\ enabled' = FALSE
    /\ UNCHANGED <<directory, call, failures, blind>>

PublishSteps == \/ \E b \in BOOLEAN : Rotate(b) \/ Check(b) \/ PublishWrite(b)
                \/ PublishRead
PrekeysNext == Begin \/ PublishSteps \/ GiveUp \/ Age \/ LoseDevice
PrekeysSpec == PrekeysInit /\ [][PrekeysNext]_prekeyVars

\* The inbox page publishes whenever the member opens the mailbox, and a week
\* passes; failures are bounded, so that a call succeeds in the end.
PrekeysLiveSpec ==
    PrekeysSpec /\ WF_prekeyVars(Begin) /\ WF_prekeyVars(PublishSteps) /\ WF_prekeyVars(Age)

-----------------------------------------------------------------------------
(* What of it the senders rely on. *)

Opens(key) == key \in Range(spks)

\* What a sender may count on, unless a rotation was made blind: then a call may
\* return normally on the strength of another device's key.  After a call
\* that returned normally, mail sealed to the directory's key opens on the
\* device; and a key this device published is given up only once two newer ones
\* exist, so that a sender who looked it up before a rotation, or before a
\* publish whose answer was lost, still reaches the member.
SenderReaches ==
    ~blind =>
        /\ enabled => Opens(directory)
        /\ directory.by = device =>
              Opens(directory) \/ LocalEpoch >= directory.epoch + 2

\* A member who keeps opening the mailbox is reachable in the end: the directory
\* names a key the device in use has the secret of.  This holds whatever failed
\* before and on however fresh a device, unless a rotation was made blind; and what
\* a blind rotation broke, the next one repairs once calls no longer fail.
Heals ==
    /\ (spks # <<>> /\ ~blind) ~> (Opens(directory) \/ blind)
    /\ (aged /\ failures = MaxFailures) ~> Opens(directory)

=============================================================================
