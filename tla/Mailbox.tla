------------------------------ MODULE Mailbox ------------------------------
(***************************************************************************)
(* The off-chain mailbox of one member: the relay's box of sealed          *)
(* envelopes (app/api/mailbox/route.ts), the senders' and the member's own *)
(* side of it (lib/mailbox.ts, app/inbox/page.tsx) and the cover traffic   *)
(* of a mixing session (lib/mailboxMixing.ts).  Handlers of the relay run  *)
(* concurrently, and each await on the file system lets others in.  In the *)
(* page a get or an ack is two steps, the relay's answer and what is done  *)
(* with it when it arrives: by then an ack, a fetch, the end of the        *)
(* session may have come between.                                          *)
(***************************************************************************)
EXTENDS Prekeys

CONSTANTS
    Mails,           \* messages members send, each at most once
    Dummies,         \* cover envelopes for this box, each at most once
    Lifetimes,       \* expiries a sender may choose, 0 for never
    MaxPerBox, PageSize, TTL,
    MaxAck,          \* ids in one ack
    MaxOutstanding,  \* maxOutstandingCover
    MaxUnderWay,     \* bound: puts under way at once
    MaxTime          \* bound, in delivery buckets

ASSUME MailboxAssumption ==
    /\ Mails \cap Dummies = {} /\ IsFiniteSet(Mails) /\ IsFiniteSet(Dummies)
    /\ Lifetimes \subseteq Nat
    /\ {PageSize, TTL, MaxOutstanding, MaxUnderWay, MaxTime} \subseteq Nat
    /\ MaxPerBox \in Nat \ {0} /\ MaxAck \in Nat /\ MaxAck >= PageSize

Puts == Mails \cup Dummies

VARIABLES
    now,
    box,        \* the files of the box; nth is their rank by mtime
    put,        \* each put: where it stands, and what its handler remembers
    mix,        \* the scheduler's state
    shown,      \* mbx: the mail last fetched, the expired included
    pendingAck, \* pendingCoverAck: dummies to sweep with the next ack
    get,        \* the page a fetch or a poll was answered with, on its way
    ack,        \* the answer to an ack, on its way, with the dummies it swept
    seen,       \* history: mail the member's own fetch has shown
    dropped,    \* history: mail evicted by a put, or older than the TTL
    alone,      \* history: puts since whose look at the box nobody wrote to it
    excess      \* history: what the session's count was lowered by for anything but
                \*          its own dummies, once each

readVars == <<mix, shown, pendingAck, get, ack, seen, excess>>
boxVars == <<now, box, put, dropped, alone, readVars>>
vars == <<prekeyVars, boxVars>>

Idle == [at |-> "idle", key |-> NoBundle, expires |-> 0, own |-> FALSE,
         existing |-> {}, release |-> 0]
Resting == [armed |-> FALSE, outstanding |-> 0]
NoPage == [by |-> "nobody", ids |-> {}]
NoAnswer == [due |-> FALSE, swept |-> {}]
Done == {"delivered", "on chain", "failed"}

Init ==
    /\ PrekeysInit
    /\ now = 0 /\ box = {} /\ put = [m \in Puts |-> Idle]
    /\ mix = Resting /\ shown = {} /\ pendingAck = {}
    /\ get = NoPage /\ ack = NoAnswer
    /\ seen = {} /\ dropped = {} /\ alone = {} /\ excess = 0

Ids(files) == { f.id : f \in files }
Without(files, ids) ==
    LET kept == { f \in files : f.id \notin ids }
    IN  { [f EXCEPT !.nth = Cardinality({ g \in kept : g.nth < f.nth })] : f \in kept }
\* The first n of the files sorted by mtime.
Oldest(files, n) == { f \in files : Cardinality({ g \in files : g.nth < f.nth }) < n }
Expired == Ids({ f \in box : now - f.mtime > TTL })
Lost(ids) == dropped' = dropped \cup (ids \cap Mails)

-----------------------------------------------------------------------------
(* Sending. *)

UnderWay == { m \in Puts : put[m].at \in {"sealed", "swept", "evicted"} }
Quiet == now < MaxTime /\ Cardinality(UnderWay) < MaxUnderWay

\* An envelope sealed to a key waits out its jitter.
Sealed(key, expires, own) ==
    [Idle EXCEPT !.at = "sealed", !.key = key, !.expires = expires, !.own = own]

\* recipientBundle; without one, or when the lookup fails, the message goes on
\* chain.
Seal(m, answered, life) ==
    /\ m \in Mails /\ put[m].at = "idle" /\ Quiet
    /\ put' = [put EXCEPT ![m] =
           IF answered /\ directory # NoBundle
           THEN Sealed(directory, IF life = 0 THEN 0 ELSE now + life, FALSE)
           ELSE [Idle EXCEPT !.at = "on chain"]]
    /\ UNCHANGED <<prekeyVars, now, box, dropped, alone, readVars>>

\* A dummy that is neither under way nor remembered anywhere may be emitted anew;
\* which of them makes no difference.
Remembered == Ids(box) \cup pendingAck \cup get.ids \cup ack.swept
              \cup UNION { put[m].existing : m \in Puts }
Unused == { d \in Dummies : put[d].at \in {"idle", "delivered"} } \ Remembered
NextDummy == CHOOSE d \in Unused : TRUE
Emit(key, own) == Unused # {} /\ put' = [put EXCEPT ![NextDummy] = Sealed(key, 0, own)]

\* planTick and applyTick on a due cover slot: a dummy within the budget.  (A slot
\* that a real put has claimed emits nothing; it is a slot not taken.)  The dummy goes
\* to the member's own box or to a peer's the session has looked up; it counts in the
\* budget either way, and also when there is nobody to send it to.
CoverSlot ==
    /\ Quiet /\ mix.armed /\ mix.outstanding < MaxOutstanding
    /\ mix' = [mix EXCEPT !.outstanding = @ + 1]
    /\ (spks # <<>> /\ Emit(spks[1], TRUE)) \/ UNCHANGED put
    /\ UNCHANGED <<prekeyVars, now, box, shown, pendingAck, get, ack, seen, dropped,
                   alone, excess>>

\* A dummy from the session of somebody who looked this member up.
PeerCover ==
    /\ Quiet /\ directory # NoBundle
    /\ Emit(directory, FALSE)
    /\ UNCHANGED <<prekeyVars, now, box, dropped, alone, readVars>>

\* The put handler: sweep the box and list it ...
PutSweep(m) ==
    /\ put[m].at = "sealed"
    /\ box' = Without(box, Expired) /\ Lost(Expired)
    /\ put' = [put EXCEPT ![m].at = "swept", ![m].existing = Ids(box) \ Expired]
    /\ alone' = alone \cup {m}
    /\ UNCHANGED <<prekeyVars, now, readVars>>
\* A slip: no room is made for the envelope itself.
EvictedTooFew(m) ==
    Ids(Oldest({ f \in box : f.id \in put[m].existing },
               Cardinality(put[m].existing) - MaxPerBox))

\* ... evict the oldest of those listed if they are too many, and fix the moment
\* of release ...
Evicted(m) ==
    Ids(Oldest({ f \in box : f.id \in put[m].existing },
               Cardinality(put[m].existing) - MaxPerBox + 1))
ReleaseAt == now + 1
PutEvict(m) ==
    /\ put[m].at = "swept"
    /\ box' = Without(box, Evicted(m)) /\ Lost(Evicted(m))
    /\ put' = [put EXCEPT ![m].at = "evicted", ![m].existing = {}, ![m].release = ReleaseAt]
    /\ UNCHANGED <<prekeyVars, now, alone, readVars>>
\* ... and write.
File(m) == [id |-> m, release |-> put[m].release, mtime |-> now, nth |-> Cardinality(box)]
PutWrite(m) ==
    /\ put[m].at = "evicted"
    /\ box' = box \cup {File(m)}
    /\ put' = [put EXCEPT ![m].at = "delivered", ![m].release = 0]
    /\ alone' = {}
    /\ UNCHANGED <<prekeyVars, now, dropped, readVars>>
\* 429, or a request that does not arrive: nobody tries that letter again, and a
\* dummy is as good as unused.
PutFail(m) ==
    /\ put[m].at = "sealed"
    /\ put' = [put EXCEPT ![m] = IF m \in Mails THEN [Idle EXCEPT !.at = "failed"] ELSE Idle]
    /\ UNCHANGED <<prekeyVars, now, box, dropped, alone, readVars>>

-----------------------------------------------------------------------------
(* Reading. *)

\* What get returns: the oldest released, a page of them at most.
Page(files) == Oldest({ f \in files : f.release <= now }, PageSize)
\* Opened with the secrets the device has when the page arrives.
Opened(ids) == { m \in ids : Opens(put[m].key) }
SenderExpired(m) == put[m].expires # 0 /\ put[m].expires < now
\* A slip: a page with cover in it is taken for cover altogether.
MailInUncovered(ids) == IF ids \cap Dummies = {} THEN ids \cap Mails ELSE {}

\* partitionCover
MailIn(ids)  == ids \cap Mails
\* A slip: whatever is in the page is taken for cover.
CoverInEverything(ids) == ids

CoverIn(ids) == ids \cap Dummies

\* The relay answers a get.  Bound: one is under way.
Get(by) ==
    LET files == Without(box, Expired)
    IN  /\ get = NoPage /\ get' = [by |-> by, ids |-> Ids(Page(files))]
        /\ box' = files /\ Lost(Expired)
        /\ UNCHANGED <<prekeyVars, now, put, mix, shown, pendingAck, ack, seen, alone, excess>>

\* The member checks the mailbox.
FetchGet == Get("fetch")
\* fetchMailboxMessages goes on: list the mail that opens, of which the page shows
\* what its sender has not let expire, note the dummies, arm mixing.
FetchHandle ==
    LET ids == Opened(get.ids)
    IN  /\ get.by = "fetch" /\ get' = NoPage
        /\ shown' = MailIn(ids)
        /\ seen' = seen \cup { m \in MailIn(ids) : ~SenderExpired(m) }
        /\ pendingAck' = pendingAck \cup CoverIn(ids)
        /\ mix' = IF mix.armed THEN mix ELSE [Resting EXCEPT !.armed = TRUE]
        /\ UNCHANGED <<prekeyVars, now, box, put, ack, dropped, alone, excess>>

\* silentPoll, with the signature of the last fetch ...
PollGet == mix.armed /\ Get("poll")
\* ... harvests dummies only, be the session over by then, or the dummies acked.
PollHarvest ==
    /\ get.by = "poll" /\ get' = NoPage
    /\ pendingAck' = pendingAck \cup CoverIn(Opened(get.ids))
    /\ UNCHANGED <<prekeyVars, now, box, put, mix, shown, ack, seen, dropped, alone, excess>>

\* clearMailbox and ackMailboxMessages: everything listed, and of the dummies noted
\* as many as fit.  (They are chosen at the click and deleted when the relay gets the
\* ids; a page handled in between might as well have come after.)  Bound: one ack is
\* under way.
AckRelay ==
    LET cover == pendingAck \ shown
    IN  /\ ~ack.due /\ shown # {}
        /\ \E swept \in SUBSET cover :
              /\ swept = cover \/ Cardinality(shown) + Cardinality(swept) = MaxAck
              /\ Cardinality(shown) + Cardinality(swept) <= MaxAck
              /\ box' = Without(box, shown \cup swept)
              /\ ack' = [due |-> TRUE, swept |-> swept]
        /\ UNCHANGED <<prekeyVars, now, put, mix, shown, pendingAck, get, seen, dropped,
                       alone, excess>>

\* noteCoverAcked
Lowered(n) == IF mix.outstanding > n THEN mix.outstanding - n ELSE 0
\* Dummies of the running session no more once they are acked.
Disowned(ids) == [m \in Puts |-> IF m \in ids THEN [put[m] EXCEPT !.own = FALSE] ELSE put[m]]
Foreign(ids) == { m \in ids : ~put[m].own }

\* The ack's answer arrives: the session's count is lowered by all that were swept.
AckHandle ==
    /\ ack.due /\ ack' = NoAnswer
    /\ shown' = {} /\ pendingAck' = pendingAck \ ack.swept
    /\ IF mix.armed
       THEN /\ mix' = [mix EXCEPT !.outstanding = Lowered(Cardinality(ack.swept))]
            /\ excess' = excess + Cardinality(Foreign(ack.swept))
            /\ put' = Disowned(ack.swept)
       ELSE UNCHANGED <<mix, excess, put>>
    /\ UNCHANGED <<prekeyVars, now, box, get, seen, dropped, alone>>

\* ... or is lost.
AckLost ==
    /\ ack.due /\ ack' = NoAnswer
    /\ UNCHANGED <<prekeyVars, now, box, put, mix, shown, pendingAck, get, seen, dropped,
                   alone, excess>>

\* The session's hour is over or the page is hidden, and with it the count and the
\* dummies noted; its dummies are an earlier session's from now on.
SessionEnds == mix' = Resting /\ pendingAck' = {} /\ excess' = 0 /\ put' = Disowned(Puts)
\* The page is gone, and what was under way with it.
PageGone == shown' = {} /\ get' = NoPage /\ ack' = NoAnswer
StopMixing ==
    /\ mix.armed /\ SessionEnds
    /\ PageGone \/ UNCHANGED <<shown, get, ack>>
    /\ UNCHANGED <<prekeyVars, now, box, seen, dropped, alone>>

\* Bounds: MaxTime, and no letter is under way when it comes.
Tick == /\ now < MaxTime /\ now' = now + 1
        /\ now' = MaxTime => UnderWay \cap Mails = {}
        /\ UNCHANGED <<prekeyVars, box, put, dropped, alone, readVars>>

\* Bounds: a check that would find the member's own bundle is left out, and so is a
\* prekey after MaxEpoch.
KeysBounded ==
    /\ call' = "check" => ~Opens(directory)
    /\ call' = "lookup" => directory.epoch < MaxEpoch
Keys ==
    \/ PrekeysNext /\ device' = device /\ KeysBounded /\ UNCHANGED boxVars
    \/ /\ LoseDevice /\ SessionEnds /\ PageGone
       /\ UNCHANGED <<now, box, seen, dropped, alone>>
PutSteps(m) == PutSweep(m) \/ PutEvict(m) \/ PutWrite(m)
Next ==
    \/ Keys
    \/ \E m \in Puts : \/ PutSteps(m) \/ PutFail(m)
                       \/ \E b \in BOOLEAN, life \in Lifetimes : Seal(m, b, life)
    \/ CoverSlot \/ PeerCover
    \/ FetchGet \/ FetchHandle \/ PollGet \/ PollHarvest
    \/ AckRelay \/ AckHandle \/ AckLost
    \/ StopMixing \/ Tick
Spec == Init /\ [][Next]_vars

\* The relay finishes what it began and its answers arrive; the member keeps
\* opening the mailbox, which no poll holds up (strong fairness makes good for the
\* bound of one get), and clears it; time passes.
LiveSpec ==
    /\ Spec
    /\ \A m \in Mails : WF_vars(PutSteps(m))
    /\ SF_vars(FetchGet) /\ WF_vars(FetchHandle \/ PollHarvest)
    /\ WF_vars(AckRelay \/ AckHandle) /\ WF_vars(Tick)

-----------------------------------------------------------------------------
(* Properties. *)

MailboxTypeOK ==
    /\ now \in 0..MaxTime
    /\ Ids(box) \subseteq Puts /\ \A f, g \in box : f.id = g.id => f = g
    /\ \A m \in Puts : put[m].at \in {"idle", "sealed", "swept", "evicted"} \cup Done
    /\ mix.outstanding \in 0..MaxOutstanding
    /\ shown \subseteq Mails /\ pendingAck \subseteq Dummies
    /\ get.by \in {"nobody", "fetch", "poll"} /\ get.ids \subseteq Puts
    /\ ack.swept \subseteq Dummies /\ excess \in Nat
    /\ device \in 1..MaxDevices /\ call \in Stages /\ Len(spks) <= SpkKeep

\* Mail the relay accepted stays until the member's own fetch has shown it, its
\* sender let it expire (the list hides it then, and the next ack deletes it), a
\* full box evicted it, or it outlived the TTL: polls, late answers, sweeps of
\* dummies and acks of something else never delete it (lib/mailbox.ts on silentPoll).
KeptUntilSeen ==
    /\ MailboxTypeOK
    /\ \A m \in Mails : put[m].at = "delivered" =>
          m \in Ids(box) \cup seen \cup dropped \/ SenderExpired(m)

\* The two limits of a box, however puts, polls and acks interleave.  A put during
\* whose handling nobody else wrote leaves the box within its cap (puts that overlap
\* may exceed it until the next one).  And the dummies a running session has in the
\* member's box and on their way are within its budget, but for one for each time
\* its count was lowered for something that was not its own or not the first time:
\* a peer's dummy, an earlier session's, one that a late answer brought back.
CoverOut ==
    { d \in Dummies : /\ put[d].own
                      /\ d \in Ids(box) \/ put[d].at \in {"sealed", "swept", "evicted"} }

LimitsHold ==
    /\ \A m \in alone : put[m].at = "evicted" => Cardinality(box) < MaxPerBox
    /\ mix.armed => Cardinality(CoverOut) <= MaxOutstanding + excess

\* A full page of what is neither listed nor swept, for an ack needs mail to go
\* with: behind it mail waits until the TTL ends it.
Buried(m) ==
    /\ m \notin Ids(Page(box)) /\ Cardinality(Page(box)) = PageSize
    /\ MailIn(Opened(Ids(Page(box)))) = {}

\* Mail that opens on the member's device is shown in the end, unless it expires, is
\* evicted or outlives the TTL, or the device is lost.  (Where the bounded clock
\* stops no TTL ends a page of cover.)
Delivered ==
    \A m \in Mails :
        (put[m].at = "delivered") ~>
            \/ m \in seen \cup dropped \/ SenderExpired(m) \/ device > 1
            \/ now = MaxTime /\ Buried(m)
=============================================================================
