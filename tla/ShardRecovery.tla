--------------------------- MODULE ShardRecovery ---------------------------
(***************************************************************************)
(* The member's master secret and its 2-of-3 shards: the ceremony of       *)
(* /recovery/setup, the flows of /recovery (own shard and a sponsor's, two *)
(* sponsors' after a challenge window, cancellation, re-issue), and what   *)
(* they leave on the devices.  Everything is local: a device has a         *)
(* keystore, a shard custody and a pending intent that survive a reload,   *)
(* and a page, handlers at work and a session copy that do not.            *)
(*                                                                         *)
(* A cut is one split of one secret, and every cut is sealed under a code  *)
(* of its own: a shard is its cut and its role, the code of cut c is c.    *)
(* Bounds: MaxCuts, MaxTime, MaxFaults (reloads and lost devices); and     *)
(* while a handler works, which takes it milliseconds, the member may leave *)
(* the page but starts nothing else on that device.                        *)
(***************************************************************************)
EXTENDS Integers, Sequences

CONSTANTS Devices, Window, MaxCuts, MaxTime, MaxFaults

ASSUME RecoveryAssumption ==
    /\ Window \in Nat \ {0}
    /\ {MaxCuts, MaxTime, MaxFaults} \subseteq Nat

VARIABLES
    keystore,   \* the secret sealed on each device
    session,    \* masterSecret.ts: the copy in memory
    custody,    \* <<code, slot, shard>>: the sealed blobs in localStorage
    pending,    \* the sponsor-only intent in localStorage
    page,       \* the page shown and what it holds
    handler,    \* a filing or a re-issue at work, and what it has yet to write
    adopt,      \* an adoptMaster call in flight and the buffer it was given
    cutMaster,  \* cut -> the secret that was split
    held,       \* sponsor -> the shards on that sponsor's own device
    noted,      \* the codes the member has on paper
    created,    \* how many secrets were generated
    faults,     \* how many tabs were reloaded and devices lost
    now,
    met         \* history: device -> sponsor -> the shard accepted there for the
                \* recovery that is under way

device == <<keystore, session, custody, pending, page, handler, adopt>>
world  == <<held, noted, faults, now, met>>
vars   == <<device, cutMaster, created, world>>

Sponsors == {"sponsor-1", "sponsor-2"}
Codes    == DOMAIN cutMaster

\* Secrets are numbered from 1; a wiped buffer is all zeros.
NoKeystore == -3
NoSecret   == -2
Garbage    == -1
Zeros      == 0
Secrets    == 0 .. created

NoCode   == 0
NoIntent == [code |-> NoCode, openedAt |-> 0]
Unmet    == [code |-> NoCode, at |-> 0]
Home     == [at |-> "home", code |-> NoCode, first |-> "none", shard |-> NoCode,
             master |-> NoSecret, old |-> NoCode, deaf |-> FALSE]
NoAdopt  == [at |-> "none", buf |-> NoSecret]
NoHandler == [at |-> "none", code |-> NoCode, old |-> NoCode, first |-> NoCode,
              second |-> NoCode]

Init ==
    /\ keystore = [d \in Devices |-> NoKeystore]
    /\ session = [d \in Devices |-> NoSecret]
    /\ custody = [d \in Devices |-> {}]
    /\ pending = [d \in Devices |-> NoIntent]
    /\ page = [d \in Devices |-> Home]
    /\ handler = [d \in Devices |-> NoHandler]
    /\ adopt = [d \in Devices |-> NoAdopt]
    /\ cutMaster = <<>> /\ created = 0
    /\ held = [s \in Sponsors |-> {}] /\ noted = {}
    /\ faults = 0 /\ now = 0
    /\ met = [d \in Devices |-> [s \in Sponsors |-> Unmet]]

NobodyMet(d) == met' = [met EXCEPT ![d] = [s \in Sponsors |-> Unmet]]

\* A collection that was never saved leaves nothing behind.
DropCollection(d) == IF pending[d] = NoIntent THEN NobodyMet(d) ELSE UNCHANGED met

Show(d, p) == page' = [page EXCEPT ![d] = p]
Work(d, h) == handler' = [handler EXCEPT ![d] = h]

\* Where the member may start something.
Idle(d) == page[d] = Home /\ handler[d] = NoHandler /\ adopt[d] = NoAdopt

\* Mutant: the seal key does not depend on the code.
OpensAny(shard, code) == shard \in Codes

\* openSponsorShard: a blob opens only with the code it was sealed under.
Opens(shard, code) == shard = code

\* Shards of two different splits combine without an error, into noise.
Combine(a, b) == IF a = b THEN cutMaster[a] ELSE Garbage

\* On the settings page: the recovery pages are left.
CreateKeystore(d) ==
    /\ Idle(d) /\ keystore[d] = NoKeystore
    /\ keystore' = [keystore EXCEPT ![d] = NoSecret]
    /\ UNCHANGED <<session, custody, pending, page, handler, adopt, cutMaster, created, world>>

-----------------------------------------------------------------------------
(* The ceremony and the handover.                                          *)

\* Every shard sealed for custody opens under the code it is filed under.
Own(c) == <<c, "own", c>>

\* A fresh split, sealed under a fresh code, the own shard put in custody.
Cut(d, secret) ==
    /\ Len(cutMaster) < MaxCuts
    /\ cutMaster' = Append(cutMaster, secret)
    /\ custody' = [custody EXCEPT ![d] = @ \cup {Own(Len(cutMaster) + 1)}]

\* getMaster: the session copy before the sealed one.
Known(d) == IF session[d] # NoSecret THEN session[d] ELSE keystore[d]

BeginCeremony(d) ==
    /\ Idle(d)
    /\ Known(d) # NoKeystore
    /\ IF Known(d) = NoSecret
       THEN /\ created' = created + 1
            /\ keystore' = [keystore EXCEPT ![d] = created']
            /\ session' = [session EXCEPT ![d] = created']
       ELSE /\ session' = [session EXCEPT ![d] = Known(d)]
            /\ UNCHANGED <<created, keystore>>
    /\ Cut(d, session'[d])
    /\ Show(d, [Home EXCEPT !.at = "code", !.code = Len(cutMaster')])
    /\ UNCHANGED <<pending, handler, adopt, world>>

\* The ceremony goes on once the member says the code is written down; a
\* re-issue shows it beside the handovers, and there the member may forget to.
NoteCode(d) ==
    /\ page[d].at \in {"code", "sendA", "sendB"} /\ page[d].code \notin noted
    /\ noted' = noted \cup {page[d].code}
    /\ Show(d, IF page[d].at = "code" THEN [page[d] EXCEPT !.at = "sendA"] ELSE page[d])
    /\ UNCHANGED <<keystore, session, custody, pending, handler, adopt, cutMaster, created,
                   held, faults, now, met>>

\* In person, one sponsor after the other.  A sponsor asked to burn the shards
\* of earlier cuts may do so or forget to.
HandOver(d, s) ==
    /\ page[d].at = (IF s = "sponsor-1" THEN "sendA" ELSE "sendB")
    /\ \E kept \in {{}, held[s]} :
          held' = [held EXCEPT ![s] = kept \cup {page[d].code}]
    /\ Show(d, IF s = "sponsor-1" THEN [page[d] EXCEPT !.at = "sendB"] ELSE Home)
    /\ UNCHANGED <<keystore, session, custody, pending, handler, adopt, cutMaster, created,
                   noted, faults, now, met>>

-----------------------------------------------------------------------------
(* Recovery with the member's own shard.                                   *)

UnlockOwn(d, c) ==
    /\ Idle(d)
    /\ c \in noted /\ Own(c) \in custody[d]
    /\ Show(d, [Home EXCEPT !.at = "present", !.code = c])
    /\ UNCHANGED <<keystore, session, custody, pending, handler, adopt, cutMaster, created, world>>

\* ShardReceive takes one payload and then nothing more, opened or not.
Refuse(d) ==
    /\ Show(d, [page[d] EXCEPT !.deaf = TRUE])
    /\ UNCHANGED <<pending, handler, adopt, met>>

\* RecoveredPanel adopts the secret as it appears.
Recovered(d, secret, code, old) ==
    /\ Show(d, [Home EXCEPT !.at = "recovered", !.code = code,
                            !.master = secret, !.old = old])
    /\ adopt' = [adopt EXCEPT ![d] = [at |-> "view", buf |-> secret]]

ScanPresent(d, s, shard) ==
    /\ page[d].at = "present" /\ ~page[d].deaf /\ shard \in held[s]
    /\ \/ /\ Opens(shard, page[d].code)
          /\ Recovered(d, Combine(page[d].code, shard), page[d].code, page[d].code)
          /\ UNCHANGED <<pending, handler, met>>
       \/ ~Opens(shard, page[d].code) /\ Refuse(d)
    /\ UNCHANGED <<keystore, session, custody, cutMaster, created,
                   held, noted, faults, now>>

-----------------------------------------------------------------------------
(* Recovery with both sponsors' shards, after the window.                  *)

StartSponsorOnly(d, c) ==
    /\ Idle(d) /\ pending[d] = NoIntent
    /\ c \in noted
    /\ Show(d, [Home EXCEPT !.at = "first", !.code = c])
    /\ UNCHANGED <<keystore, session, custody, pending, handler, adopt, cutMaster, created, world>>

Accept(d, s) == met' = [met EXCEPT ![d][s] = [code |-> page[d].code, at |-> now]]

ScanFirst(d, s, shard) ==
    /\ page[d].at = "first" /\ ~page[d].deaf /\ shard \in held[s]
    /\ \/ /\ Opens(shard, page[d].code)
          /\ Show(d, [page[d] EXCEPT !.at = "second", !.first = s, !.shard = shard])
          /\ Accept(d, s)
          /\ UNCHANGED <<pending, handler, adopt>>
       \/ ~Opens(shard, page[d].code) /\ Refuse(d)
    /\ UNCHANGED <<keystore, session, custody, cutMaster, created,
                   held, noted, faults, now>>

Slots(blobs, c) == {b \in blobs : b[1] = c /\ b[2] \in {"first", "second"}}

\* One shard at a time is put in custody, then the intent is saved.
ScanSecond(d, s, shard) ==
    LET opened == Opens(shard, page[d].code) /\ s # page[d].first IN
    /\ page[d].at = "second" /\ ~page[d].deaf /\ shard \in held[s]
    /\ \/ /\ opened
          /\ Show(d, [page[d] EXCEPT !.at = "filing"])
          /\ Work(d, [NoHandler EXCEPT !.at = "store first", !.code = page[d].code,
                                       !.first = page[d].shard, !.second = shard])
          /\ Accept(d, s)
          /\ UNCHANGED <<pending, adopt>>
       \/ ~opened /\ Refuse(d)
    /\ UNCHANGED <<keystore, session, custody, cutMaster, created,
                   held, noted, faults, now>>

\* setItem: what was filed there before is overwritten.
Put(d, c, slot, shard) ==
    custody' = [custody EXCEPT ![d] =
        {b \in @ : ~(b[1] = c /\ b[2] = slot)} \cup {<<c, slot, shard>>}]

StoreFirst(d) ==
    /\ handler[d].at = "store first"
    /\ Put(d, handler[d].code, "first", handler[d].first)
    /\ Work(d, [handler[d] EXCEPT !.at = "store second"])
    /\ UNCHANGED <<keystore, session, pending, page, adopt, cutMaster, created, world>>

StoreSecond(d) ==
    /\ handler[d].at = "store second"
    /\ Put(d, handler[d].code, "second", handler[d].second)
    /\ Work(d, [handler[d] EXCEPT !.at = "save intent"])
    /\ UNCHANGED <<keystore, session, pending, page, adopt, cutMaster, created, world>>

\* Bound: the window must be able to run out before the clock stops.
SaveIntent(d) ==
    /\ handler[d].at = "save intent"
    /\ now + Window <= MaxTime
    /\ pending' = [pending EXCEPT ![d] = [code |-> handler[d].code, openedAt |-> now]]
    /\ Work(d, NoHandler)
    /\ Show(d, Home)
    /\ UNCHANGED <<keystore, session, custody, adopt, cutMaster, created, world>>

\* Mutant: the window never has to run out.
ElapsedAlways(d) == pending[d] # NoIntent

Elapsed(d) == pending[d] # NoIntent /\ now - pending[d].openedAt >= Window

Missing(d, slot) == \A b \in Slots(custody[d], pending[d].code) : b[2] # slot

\* Mutant: an intent whose shards are gone is left in place.
CompleteOrComplain(d) ==
    LET c == pending[d].code IN
    /\ Idle(d) /\ Elapsed(d)
    /\ \E x, y \in Slots(custody[d], c) :
          /\ x[2] = "first" /\ y[2] = "second"
          /\ Opens(x[3], c) /\ Opens(y[3], c)
          /\ Show(d, [Home EXCEPT !.at = "burn first", !.code = c, !.master = Combine(x[3], y[3])])
    /\ UNCHANGED <<keystore, session, custody, pending, handler, adopt, cutMaster, created, world>>

\* With a blob missing the intent is dropped; with both, the shards are combined,
\* then burned and the intent forgotten, one write after another; with one that
\* does not open the page says so and nothing changes.
Complete(d) ==
    LET c == pending[d].code IN
    /\ Idle(d) /\ Elapsed(d)
    /\ \/ /\ Missing(d, "first") \/ Missing(d, "second")
          /\ pending' = [pending EXCEPT ![d] = NoIntent]
          /\ NobodyMet(d)
          /\ UNCHANGED page
       \/ /\ \E x, y \in Slots(custody[d], c) :
                /\ x[2] = "first" /\ y[2] = "second"
                /\ Opens(x[3], c) /\ Opens(y[3], c)
                /\ Show(d, [Home EXCEPT !.at = "burn first", !.code = c,
                                        !.master = Combine(x[3], y[3])])
          /\ UNCHANGED <<pending, met>>
    /\ UNCHANGED <<keystore, session, custody, handler, adopt, cutMaster, created,
                   held, noted, faults, now>>

Cancel(d) ==
    /\ Idle(d) /\ pending[d] # NoIntent
    /\ Show(d, [Home EXCEPT !.at = "burn first", !.code = pending[d].code])
    /\ UNCHANGED <<keystore, session, custody, pending, handler, adopt, cutMaster, created, world>>

Burn(d, slot, next) ==
    /\ page[d].at = (IF slot = "first" THEN "burn first" ELSE "burn second")
    /\ custody' = [custody EXCEPT ![d] = {b \in @ : ~(b[1] = page[d].code /\ b[2] = slot)}]
    /\ Show(d, [page[d] EXCEPT !.at = next])
    /\ IF page[d].master = NoSecret THEN NobodyMet(d) ELSE UNCHANGED met
    /\ UNCHANGED <<keystore, session, pending, handler, adopt, cutMaster, created,
                   held, noted, faults, now>>

\* clearPendingRecovery, at the end of a completion or of a cancellation.
Forget(d) ==
    /\ page[d].at = "forget"
    /\ pending' = [pending EXCEPT ![d] = NoIntent]
    /\ IF page[d].master # NoSecret
       THEN Recovered(d, page[d].master, page[d].code, NoCode)
       ELSE Show(d, Home) /\ UNCHANGED adopt
    /\ NobodyMet(d)
    /\ UNCHANGED <<keystore, session, custody, handler, cutMaster, created,
                   held, noted, faults, now>>

-----------------------------------------------------------------------------
(* Adoption and re-issue.                                                  *)

\* adoptMaster: the session copy first, then, if the unlock prompt is answered,
\* the seal of whatever the buffer holds by then.  (A later recovery on the
\* device supersedes a prompt nobody answered.)
AdoptView(d) ==
    /\ adopt[d].at = "view"
    /\ session' = [session EXCEPT ![d] = adopt[d].buf]
    /\ adopt' = [adopt EXCEPT ![d] =
           IF keystore[d] = NoKeystore THEN NoAdopt ELSE [@ EXCEPT !.at = "seal"]]
    /\ UNCHANGED <<keystore, custody, pending, page, handler, cutMaster, created, world>>

AdoptSeal(d) ==
    /\ adopt[d].at = "seal"
    /\ keystore' \in {keystore, [keystore EXCEPT ![d] = adopt[d].buf]}
    /\ adopt' = [adopt EXCEPT ![d] = NoAdopt]
    /\ UNCHANGED <<session, custody, pending, page, handler, cutMaster, created, world>>

\* The page wipes the buffer an adoption in flight was given.
WipeBuffer(d) ==
    adopt' = [adopt EXCEPT ![d] =
        IF @.at = "none" THEN @ ELSE [@ EXCEPT !.buf = Zeros]]

\* The secret is split at the click and the own shard of the new cut stored.
StartReissue(d) ==
    /\ page[d].at = "recovered" /\ handler[d] = NoHandler
    /\ Cut(d, page[d].master)
    /\ Show(d, [page[d] EXCEPT !.at = "reissue", !.code = Len(cutMaster')])
    /\ Work(d, [NoHandler EXCEPT !.at = "burn old", !.code = Len(cutMaster'),
                                 !.old = page[d].old])
    /\ UNCHANGED <<keystore, session, pending, adopt, created, world>>

\* Mutant: what is burned is the shard just stored.
BurnNew(d) ==
    /\ handler[d].at = "burn old"
    /\ custody' = [custody EXCEPT ![d] = @ \ {Own(handler[d].code)}]
    /\ Work(d, [handler[d] EXCEPT !.at = "show code"])
    /\ UNCHANGED <<keystore, session, pending, page, adopt, cutMaster, created, world>>

\* After a recovery by two sponsors there is no old own shard to burn.
BurnOld(d) ==
    /\ handler[d].at = "burn old"
    /\ custody' = [custody EXCEPT ![d] = @ \ {Own(handler[d].old)}]
    /\ Work(d, [handler[d] EXCEPT !.at = "show code"])
    /\ UNCHANGED <<keystore, session, pending, page, adopt, cutMaster, created, world>>

\* The sponsors' shards sealed, the secret is wiped and the new code shown beside
\* the first handover, if the page is still there: nobody else has the code.
ShowCode(d) ==
    /\ handler[d].at = "show code"
    /\ Work(d, NoHandler)
    /\ \/ /\ page[d].at = "reissue"
          /\ WipeBuffer(d)
          /\ Show(d, [Home EXCEPT !.at = "sendA", !.code = handler[d].code])
       \/ page[d].at # "reissue" /\ UNCHANGED <<adopt, page>>
    /\ UNCHANGED <<keystore, session, custody, pending, cutMaster, created, world>>

\* Back, or another page of the app: the handlers in flight go on.  A filing that
\* has not stored the first shard finds it wiped under its hands.
Leave(d) ==
    /\ page[d].at \in {"code", "present", "first", "second", "filing", "recovered",
                       "reissue", "sendA", "sendB"}
    /\ Show(d, Home)
    /\ IF page[d].master # NoSecret THEN WipeBuffer(d) ELSE UNCHANGED adopt
    /\ Work(d, IF handler[d].at = "store first"
               THEN [handler[d] EXCEPT !.first = NoCode] ELSE handler[d])
    /\ IF page[d].at = "filing" THEN UNCHANGED met ELSE DropCollection(d)
    /\ UNCHANGED <<keystore, session, custody, pending, cutMaster, created,
                   held, noted, faults, now>>

-----------------------------------------------------------------------------
(* The world.                                                              *)

DropPage(d) ==
    /\ page' = [page EXCEPT ![d] = Home]
    /\ session' = [session EXCEPT ![d] = NoSecret]
    /\ adopt' = [adopt EXCEPT ![d] = NoAdopt]
    /\ Work(d, NoHandler)

\* The tab is reloaded or killed between any two steps.
Reload(d) ==
    /\ faults < MaxFaults
    /\ faults' = faults + 1
    /\ DropPage(d) /\ DropCollection(d)
    /\ UNCHANGED <<keystore, custody, pending, cutMaster, created, held, noted, now>>

(* A device is lost and an empty one takes its place.                       *)
LoseDevice(d) ==
    /\ faults < MaxFaults
    /\ faults' = faults + 1
    /\ DropPage(d)
    /\ keystore' = [keystore EXCEPT ![d] = NoKeystore]
    /\ custody' = [custody EXCEPT ![d] = {}]
    /\ pending' = [pending EXCEPT ![d] = NoIntent]
    /\ NobodyMet(d)
    /\ UNCHANGED <<cutMaster, created, held, noted, now>>

Tick ==
    /\ now < MaxTime
    /\ now' = now + 1
    /\ UNCHANGED <<device, cutMaster, created, held, noted, faults, met>>

-----------------------------------------------------------------------------

Handle(d) ==
    \/ StoreFirst(d) \/ StoreSecond(d) \/ SaveIntent(d)
    \/ BurnOld(d) \/ ShowCode(d)

Use(d) ==
    \/ CreateKeystore(d) \/ BeginCeremony(d) \/ NoteCode(d)
    \/ \E s \in Sponsors : HandOver(d, s)
    \/ \E c \in Codes : UnlockOwn(d, c) \/ StartSponsorOnly(d, c)
    \/ \E s \in Sponsors, shard \in Codes :
          ScanPresent(d, s, shard) \/ ScanFirst(d, s, shard) \/ ScanSecond(d, s, shard)
    \/ Complete(d) \/ Cancel(d)
    \/ Burn(d, "first", "burn second") \/ Burn(d, "second", "forget") \/ Forget(d)
    \/ AdoptView(d) \/ AdoptSeal(d) \/ StartReissue(d) \/ Handle(d) \/ Leave(d) \/ Reload(d)

Next ==
    \/ \E d \in Devices : Use(d) \/ LoseDevice(d)
    \/ Tick

Spec == Init /\ [][Next]_vars

\* A first shard that was wiped while it was filed never opens.
Spoiled(d) ==
    \E b \in Slots(custody[d], pending[d].code) : ~Opens(b[3], pending[d].code)

\* A handler that started runs to its end while its tab lives, the clock
\* advances, nobody stays for ever on a page that waits for them, and whoever
\* asked for a recovery comes back to it again and again, and starts over when
\* the page says the shards do not open.
Fairness ==
    /\ WF_vars(Tick)
    /\ \A d \in Devices :
          /\ SF_vars(Complete(d))
          /\ SF_vars(Spoiled(d) /\ Cancel(d))
          /\ WF_vars(\/ Burn(d, "first", "burn second")
                     \/ Burn(d, "second", "forget") \/ Forget(d))
          /\ WF_vars(Handle(d)) /\ WF_vars(AdoptView(d) \/ AdoptSeal(d))
          /\ WF_vars(Leave(d))

LiveSpec == Spec /\ Fairness

-----------------------------------------------------------------------------

Blob == Codes \X {"own", "first", "second"} \X (Codes \cup {NoCode})

RecoveryTypeOK ==
    /\ keystore \in [Devices -> Secrets \cup {NoSecret, NoKeystore}]
    /\ session \in [Devices -> Secrets \cup {NoSecret}]
    /\ \A d \in Devices :
          /\ custody[d] \subseteq Blob
          /\ \A b, c \in custody[d] : b[1] = c[1] /\ b[2] = c[2] => b = c
          /\ pending[d].code \in Codes \cup {NoCode} /\ pending[d].openedAt \in 0 .. now
          /\ page[d].master \in Secrets \cup {NoSecret}
          /\ handler[d].code \in Codes \cup {NoCode}
          /\ adopt[d].buf \in Secrets \cup {NoSecret}
    /\ cutMaster \in Seq(Secrets) /\ Len(cutMaster) <= MaxCuts
    /\ held \in [Sponsors -> SUBSET Codes] /\ noted \subseteq Codes
    /\ faults \in 0 .. MaxFaults /\ now \in 0 .. MaxTime

\* Whatever shards of whatever cuts the member, the sponsors and the devices
\* still have lying about, a recovery yields the secret that was split under
\* the code it was given and never noise: shards of two cuts would combine
\* without an error (sharding.ts:97-103), so it rests on the seal keys.
NeverGarbage ==
    \A d \in Devices :
        page[d].master # NoSecret => page[d].master = cutMaster[page[d].code]

Gathered(d, c) ==
    \A s \in Sponsors : met[d][s].code = c /\ met[d][s].at + Window <= now

\* Two sponsors alone restore a secret only on the device where each of them
\* presented a shard for that code, both a full window ago, and no
\* cancellation has burned anything since, reloads and half-done burns notwithstanding
\* (the locked 7 days of recovery.ts:12).
WindowHeld ==
    /\ RecoveryTypeOK
    /\ \A d \in Devices :
        page[d].master # NoSecret /\ pending[d].code = page[d].code /\ page[d].old = NoCode
            => Gathered(d, page[d].code)

Established == held["sponsor-2"] # {}
HalfHanded  == held["sponsor-1"] \cap held["sponsor-2"] = {}

\* Two holders of shards of one cut whose code the member has.
Recoverable ==
    \E c \in noted :
        \/ c \in held["sponsor-1"] \cap held["sponsor-2"]
        \/ \E d \in Devices, s \in Sponsors :
               Own(c) \in custody[d] /\ c \in held[s]

AllNoted == held["sponsor-1"] \cup held["sponsor-2"] \subseteq noted

\* The own shard of a cut leaves the device that has it.
OwnGone == \E d \in Devices, c \in Codes : Own(c) \in custody[d] \ custody'[d]

\* From the first full set on some two of the three holders restore the secret,
\* through renewals that burn the old own shard before the sponsors have the new
\* ones, on whatever device and however interrupted: every handover of a code
\* the member has noted leaves two holders of one cut, and only a device lost, or
\* an own shard burned by one more renewal, while the sponsors' shards are of
\* different cuts ends that, until the next handover (recovery/page.tsx:763-773).
AnyTwo ==
    [][Established' /\ AllNoted' =>
          \/ Recoverable'
          \/ HalfHanded /\ OwnGone
          \/ Established /\ ~Recoverable /\ UNCHANGED held]_vars

\* A sponsor-only recovery does not stay pending for ever: it completes, is
\* cancelled, or, when a reload interrupted the burning, is dropped.
PendingEnds ==
    \A d \in Devices : pending[d] # NoIntent ~> pending[d] = NoIntent

\* What a device keeps sealed is a secret somebody generated: the flows that use
\* it and the recovery ceremony "are talking about the SAME secret"
\* (masterSecret.ts:7-8).
KeptIsReal == \A d \in Devices : keystore[d] # Zeros

=============================================================================
