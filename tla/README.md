# Ayni in TLA+

Ayni is a Solana program (`programs/ayni`) with a web client and a few server
routes around it. It runs *Circles*: groups governed by a seven-seat Council and
by anonymous votes of their members. This directory holds a specification of its
own logic in TLA+, the TLC configurations that check it on small instances, and
the proofs that TLAPS checks for every instance.

Paths below are relative to the repository; `instructions/` stands for
`programs/ayni/src/instructions/`, `lib/` and `app/` for those of `frontend/`.

## How to run it

    tlc -workers 2 -config MCGovernance.cfg MCGovernance     # a run
    tlapm GovernanceProofs.tla                               # the proofs

`PROJECT.json` lists the runs, the mutants that show that each property can
fail, the source lines of each definition, the hazards and the theorems.

## The system

There are two halves. On chain, every instruction is one transaction and so
atomic; what interleaves is the order in which seats, members and passers-by
submit them, with the clock running underneath. Many instructions are
*permissionless*: somebody decides, and anyone carries it out, whenever they
like. State is spread over accounts that different instructions create, change
and close, and what one of them leaves behind the others meet later.

Off chain, a server process handles requests concurrently, each in one piece
from one `await` to the next, and clients on several devices keep state in
localStorage that survives a reload and state in memory that does not. Calls
fail, answers are lost, tabs close between two writes.

| component | state | operations | talks to | where |
|---|---|---|---|---|
| Council and proposals | seats; proposals with approval bits, `eligible_at`, `executed`, `cancelled`, `drained` | initialize_circle, propose, approve, cancel, execute | every "authorised" instruction reads `executed`, sets `drained` | `Council`, `Governance` |
| Treasury | lamports and tokens of a PDA, steward wallet, allowlist and its switch | donate, withdraw (both purses), set_treasury_wallet, set_treasury_allow, set_circle_config | executed proposals | `Treasury` |
| Membership roll | Membership, ProvisionalMember, AdmissionAttestation, MemberTree, RecentRoots, EpochLeaf, `member_count`, policy switches, PersonhoodCredential | the ways in (issue, attest + issue provisional + confirm), renew, revoke, note_root, begin_member_epoch, reinsert_member | executed BeginMemberEpoch proposals; proofs over the tree | `MemberRoll` |
| Member voting | MemberProposal, vote nullifiers, quorum and pass rules | create, cast, finalize, open_maci_round | snapshots the member tree | `MemberVote` |
| MACI rounds, client and coordinator | MaciState, commits, sign-ups, message chain; a client's key and nonce | sign up (commit, reveal), publish, close, process, tally, audit | takes a member proposal over | `MaciRound` |
| Fee relayer | counters of a process, reservations, wallet balance | POST and GET of `app/api/relay/route.ts`, the client's fallback | RPC node, chain | `Relayer` |
| Mailbox relay and prekeys | files of a box; bundle directory; prekey secrets per device; cover scheduler | put, fetch, poll, ack, publish | senders, the member's devices | `Prekeys`, `Mailbox` |
| Key store and shard custody | sealed secret, session copy, shard blobs, pending intent, page; sponsors' shards | ceremony, recovery with own shard, sponsor-only recovery, cancel, adopt, re-issue | sponsors, in person | `ShardRecovery` |
| Seat elections | SeatElection | link, install | a passed ballot writes a seat | installing only, in `Governance` |
| Federation | ChildSeatVote, ChildCloseVote, published roots | propose, approve, execute | a parent's Council writes or closes a child | the write only, in `Governance` |
| Key recovery on chain | `owner`, guardian keys, `require_cosign` | set_recovery, member_migrate, recover_membership, shield_membership | executed MigrateWallet proposals | planned |
| Wing peers and karma | WingPeer, KarmaAward, Karma, KarmaGift, KarmaParams | establish, end, give, reclaim, set params | memberships, proposals | `Karma` |
| Faucet | jar, grant, `amount_changed_at`, nullifiers and markers | init, set amount, activate (signed, by proof), refill | links, memberships, ballots, treasury | `Faucet` |

Groth16 verification is assumed sound and complete, and Poseidon and SHA
collision free: a proof verifies exactly when its prover's commitment is a leaf
of the root it names. A Merkle root is therefore the sequence of its leaves, a
chain digest the sequence it was folded from, a sealed blob the key that opens it.

### What makes each component correct, and what is hard about it

* **Council.** No wallet counts twice; nothing takes effect that Threshold seats
  had not approved a full contest window earlier; one seat's cancellation is
  final; nothing decided is undone. Hard: the seats change under pending
  proposals (rotation, migration, election, the parent Circle), approvals are kept
  by seat number and survive their givers, anyone may execute at any time.
* **Treasury.** Each decision moves money once, no more than there is, to whom
  it says. Hard: two decisions competing for one purse, policy read when the
  money moves and not when it was voted, replay of a permissionless call.
* **Roll.** The tree, the count, the ring of roots and the recorded leaf positions
  agree; nobody is in the tree twice; after a rebuild only members in good standing
  are; nobody gets in past the admission policy. Hard: four ways in, a
  revocation that closes one account of five, a rebuild that empties the tree while
  admissions are half done, boundaries at the same second.
* **Voting.** One member, one vote, over a fixed electorate; never one person
  alone; the outcome is recorded once. Hard: the roll moves while a ballot is
  open, rules are read at the end, two paths to an outcome exclude each other.
* **MACI.** The processed chain is the queue, every sign-up and key is registered
  once, the tally is the same for everyone and a key change that comes first shuts out
  whoever holds the old key. Hard: a reveal is public before it lands, two clients crank
  with counts they read earlier, a publish whose answer is lost is repeated, and a
  repeated key change is another command with another key.
* **Karma and faucet.** Karma is made once per pair and once per gift, a gift comes
  back once; a commitment draws on the jar once, the lamports add up, and no amount
  tells a newcomer from the rest. Hard: links end and begin again, roles swap,
  members are revoked and return, figures change between giving and taking back,
  two paths lead to one grant.
* **Fee relayer.** Reservations are given back once on each way out, the wallet
  keeps its floor, the day's books cover what was lost, the relayer's signature
  pays and never authorises. Hard: the balance is read before an `await`
  and used after it, and a transaction given up may still land.
* **Mailbox.** Mail the relay accepted is not deleted before its reader saw it;
  the box and the cover traffic stay within their limits; senders seal to a key
  the member still has. Hard: puts, polls and acks overlap at file-system
  awaits, their answers come late or never, the dummies of peers and of earlier
  sessions are in the box too; rotation, lost answers and fresh devices disagree about
  the epoch.
* **Shard custody.** A recovery yields the secret or nothing; two sponsors alone
  wait a full window; after every handover any two holders of one cut suffice. Hard:
  shards of several cuts coexist, a tab closes between two writes, handlers go on
  after the member has left their page, an asynchronous seal runs beside a page that
  wipes its buffer.

## Modules

    Council            seats and proposals: data and pure rules
      Governance       the state machine of proposals and seats
        Treasury       money on top of Governance   ---implements--> GroupConscience
        GovernanceProofs
    MemberRoll         admission, the member tree, epochs
      MemberVote       ballots over a roll that keeps changing
        MemberVoteProofs     about the roll and the vote
    MaciRound          a sealed round, its clients, the tally, the audit
      MaciRoundProofs
    Karma              links between members, credits and gifts
      Faucet           the jar, its grants and refills, over those links
        FaucetProofs         about karma and the faucet
    Relayer            the fee relayer, from await to await
      RelayerProofs
    Prekeys            a member's prekeys and the directory
      Mailbox          the relay's box, senders, reader and cover traffic
        MailboxProofs        about the prekeys and the mailbox
    ShardRecovery      one secret, its cuts, devices and sponsors
      ShardRecoveryProofs
    SumProofs          sums over finite sets, for the proofs about money and karma
    MC*                instances for TLC

**`Council`** translates `council.rs`: seat lookups, `ProposalAction` with the
checks of `propose`, and the pure functions `add_approval`, `arm_if_ready` and
`require_executable`. Wallets and amounts are constants. Threshold and time-lock are
constants because no instruction writes them after `initialize_circle`.

**`Governance`** has one action per instruction. `proposals` maps the nonces of
existing proposals to their accounts. `InstallElectedSeat` and
`ExecuteChildRotation` are the two writers of seats outside the Council; which
elections passed and which rotations the parent voted is not decided here, so each
of a constant set may turn up at any moment. The history variables `cast` (who
approved for a seat, when) and `executedAt` exist for the properties only.

**`Treasury`** extends `Governance`. `Withdraw(p, n)` stands for
`withdraw_treasury` and `withdraw_treasury_token`, which differ in the purse;
`drained` is the one-shot mark. Rent and the fees of payers are left out.
It also maps to **`GroupConscience`**, the abstract promise: a decision is
opened, armed, and stopped or bound a window later, and carried out at most once.

**`MemberRoll`** keeps each account family as a partial map or a set, the member
tree as the sequence of its leaves and the ring as the sequence of its written
slots. `SetTwoSponsorAdmission`, `SetOpenMembership`, `SetPersonhood` are the
switches. `RevokeMembership` removes the Membership alone, as the code does.
`AuthoriseEpoch` stands for the Council executing a BeginMemberEpoch proposal,
which `Governance` models in full. The donation that `renew_membership` collects
is a treasury matter and left out. `RebuildHeals` says that after a rebuild a live
member gets a leaf and names all that may keep one out: among them the marker that
the revocation of a provisional membership leaves behind. A member admitted anew over
that marker stays out of this and every later tree unless a servant confirms, and if
its parrain is gone nobody can (`confirm_admission.rs:31-41`).

**`MemberVote`** runs the steps of `MemberRoll` interleaved with its own. A
ballot carries its snapshot, tallies, deadline, outcome and the nullifiers spent on
it (named by the commitment, of which a nullifier is a function). Quorum and pass
rules are translated with their integer division, `.max(1)` and the zero
denominators that mean "default".

**`MaciRound`** has the instructions from `maci_signup_commit` to
`process_maci_messages`; `applyMaciQueue` as a fold; clients that publish and may
lose the answer (a failure leaves nonce and key as they were, as in
`lib/maci.ts`; the next key change makes a fresh key pair under the same nonce),
somebody who holds a surrendered sign-up key, a stranger who
copies reveals out of the mempool, crankers that read their range in one step and
send it in another, and an auditor who reads state, sign-ups and messages one
after another. An array sorted by index or nonce (`Sorted`) is *some* sequence that
lists the array in order; that it is the only one is proved. `commit_maci_tally` and
`finalize_maci_round` always refuse at this commit and so have no step.

**`Karma`** keeps each account family as a set or partial map; `points` is total, since
an absent Karma account and one at zero differ in nothing. `Materialised` is the
default policy that the first instruction in need of one writes. Executed
SetKarmaParams proposals are a set to be carried out; a `KarmaAward` remembers
what it credited, and `full` whose total saturated, for the property only. The roll
beside it is reduced to memberships that come and go. **`Faucet`** adds the jar over
these links. `PayUniformGrant` is the function the two activations share, their
nullifier included; a proof against the tree with the wing as its only leaf
verifies for the wing. Ballots are those that have passed (`MemberVote`), and the
treasury is a balance (`Treasury` has its other movements). Lamports are counted
above the jar's rent. Which of a member's keys signs is left out.

**`Relayer`** splits the POST handler at its awaits (`pc` says at which one a
request waits): admission by the two rate limiters and the day's budget, the
balance check, the reservation, the send, the confirmation, and the second balance
reading that books the cost. The RPC node answers, fails or never answers, and
a transaction lands, fails, expires or lands late whatever the handler came to
believe. A restart of the process forgets counters and handlers. The allowlist policy is
checked on the shape of a request: which accounts sign, who pays, who authorises.
`stale`, `late`, `unread` and `base` are history.

**`Prekeys`** is `publishMailboxBundle` in its stages (lookup, check, signing,
writing) against the directory; a call may fail on the way there or back, and the
device may be replaced by an empty one (two devices in alternation are left out).
`blind` remembers that a rotation took a failed lookup for an empty directory: from
then on a check may call another device's key current (`lib/mailbox.ts:350-351`), which
is why `SenderReaches` and the first half of `Heals` except it; the second half says
that the next rotation repairs it. **`Mailbox`** extends it with the box: each
put is a handler in stages (sealed, swept, evicted, delivered) because `put`
sweeps, lists, evicts and writes in separate awaits. On the member's side a fetch, a
silent poll and an ack are two steps each, the relay's answer and what the page does
with it when it arrives; an ack, a poll, the end of the session may come between,
and an answer to an ack may be lost. Dummies come from the running session's
scheduler (`own`), from its earlier sessions and from peers. A sender's expiry hides
mail from the list that the next ack then deletes. An ack needs listed mail
(`app/inbox/page.tsx:110`), so behind a page full of dummies mail waits until the TTL ends
them (`Buried`, which `Delivered` excepts where the bounded clock stops). The box is a set
of files; `nth` is the order of their mtime, the handlers' sort key, and
`Oldest(files, n)` is the first `n` of a listing so sorted.

**`ShardRecovery`** has the pages of `/recovery/setup` and `/recovery` as a
position (`page.at`) and a `handler` beside it for the two that do more than one
thing: filing two sponsors' shards (`StoreFirst`, `StoreSecond`, `SaveIntent`) and a
re-issue (`StartReissue`, `BurnOld`, `ShowCode`). Each write to localStorage is a step of
its own, burning the shards of a finished or cancelled recovery included, and `Reload`,
`LoseDevice` and, where the page has a way out, `Leave` come between any two. Leaving
does not stop a handler: it wipes the first sponsor's shard under the one that files it
(`app/recovery/page.tsx:393-400`), which then stores a blob that never opens
(`Spoiled`), and it keeps a re-issue from ever showing its code. Every cut is sealed
under a code of its own, and a shard is its cut and its role.

Bounds on the member: while a handler works, which takes milliseconds (an unlock
prompt: at most 60 seconds, `lib/keystore.ts:292`, `:369`), the member may leave but starts
nothing else on that device (`Idle`); whoever burns after a completion or cancellation
stays on the page or reloads it; one tab. Assumed of people, because it is outside the
code: a member uses one device at a time and a lost one is replaced by an empty one;
sponsors keep what they were given and may or may not burn older shards; handing over
means that the sponsor has received the shard. The ceremony does not go on before the
member says the code is written down; a re-issue shows it beside the handovers, and there
a member may forget to note it (`AnyTwo` is about noted codes). A refused shard leaves
`ShardReceive` deaf until the page is left (`acceptedRef` is not reset).

A re-issue burns the old own shard before any sponsor has a new one. `AnyTwo` says what
that costs, wherever it stops: each handover leaves two holders of one cut; until the
next one, a device lost, or an own shard burned by one more re-issue, while the
sponsors hold no cut in common may leave the member without two.

## Runs

All runs set `CHECK_DEADLOCK FALSE`: clocks, nonces, cuts and failures are bounded,
so each instance ends in states where nothing is left to do; the program itself
waits for the next transaction or request. No run uses symmetry.

| run | bounds | properties |
|---|---|---|
| governance | 3 seats, threshold 2, 4 wallets, 2 proposals, 1 election, 2 parent rotations (one invalid), window 1, clock to 3 | OneSeatEach, ContestWindow, RemovalContestable, Irrevocable |
| treasury | the same Council without other writers of seats, two competing spends, a token spend, a spend of nothing, a good and a bad steward, donations of 1, clock to 2 | MoneyAccounted, CarriedOutIsDecided, ImplementsConscience, SpendIsPaid |
| member_roll | 2 commitments, 1 revocable, tree of 2, ring of 2, 1 rebuild, 1 human, 4 admission policies, period 1, clock to 2 | CountWithinTree, LeafOnce, GoodStanding, PinnedPositions, GlassHolds, RebuildHeals, DoorsHeld |
| member_vote | 2 members, 1 revocable, tree of 3, ring of 1, 1 rebuild, 1 ballot, electorate and turnout of 2, 2 rule sets, a MACI takeover, clock to 3 | OneMemberOneVote, NoLoneConscience, BallotsFinal |
| relayer | 2 requests of one caller, 3 allowlist shapes, 1 transaction and 3 units a day, funds 4 over a floor of 1, a day of 1 tick | ReservationsBalanced, FloorHolds, BooksCoverLoss, FeeOnly |
| prekeys | epochs to 6, 2 prekeys kept, 3 devices, 3 failed calls | SenderReaches, Heals |
| mailbox | 1 letter that expires, 2 dummies at a time, 2 puts under way, box of 2, page of 2, 2 ids an ack, TTL 1, cover budget 1, 2 devices of one key each, clock to 2 | KeptUntilSeen, LimitsHold, Delivered |
| maci | 1 member with a surrendered key, 1 stranger, 2 crankers, 3 messages of which 1 foreign, nonces to 2, batch of 1, 1 failure, deadline 3 | ChainIsQueue, SignUpHolds, OrderFree, KeyChangeHolds, AuditAgrees, RoundProcessed |
| recovery | 1 member's device, 2 sponsors, 2 cuts, window 1, clock to 2, 1 fault (a reload or a lost device) | NeverGarbage, WindowHeld, AnyTwo, PendingEnds |
| faucet | 2 members, 1 revocable, 1 good and 1 refused vote on the figures, gifts of 0 or 1, totals to 3, 1 ballot of 2 out of 4, amounts to 2, cooldown 1, period 2, clock to 2 | KarmaAccounted, JarAccounted, NobodySingledOut |
| kept_secret, relay_overshoot | as recovery, relayer (with funds of 5) | expected to fail, see below |

Each property's comment in its module says what it means and which code it is
about. Each module's type invariant is the first conjunct of its first invariant
(`Governance`'s is a theorem). Each property has a mutant, a plausible slip
in a named definition, under which TLC finds it violated.

**Why the bounds are enough to be interesting.**

* *Council.* Three seats with a threshold of two is the smallest Council with a
  minority; four wallets leave one outside it to be rotated in. Two proposals is what
  it takes to purge before migrating, to compete for a purse and to block each
  other. The clock runs past a window, so that arming, contesting, executing
  and being late all occur.
* *Roll and vote.* A tree of two is full at once, a ring of two overflows; a period
  of one tick lets memberships lapse, renew and straddle a rebuild, and an epoch start
  in the very second of an admission. The vote's tree of three has room for a
  duplicate (revoke and re-issue), and the electorate and turnout are met and missed.
* *Karma, faucet.* Two members may each be the other's wing, which is what a credit per
  role would pay twice. Totals of at most 3 saturate, a voted period of zero makes
  gifts due at once, a ballot of two is over the ceiling of a small grant and under
  that of a large one. Amounts of 1 and 2, a cooldown of one and a clock to two
  allow a grant, a retune, the wait and a grant.
* *Relayer.* Two requests fit over the floor only one after the other, so every
  stale look matters. One tick is a day and a rate window, so midnight and
  expiry fall between any two awaits. The rate limiters never refuse here (two
  requests stay under them) and no property is about them.
* *Prekeys, mailbox.* Six epochs are three times what is kept. Two puts and a box of two let
  one put evict what another is about to see. Dummies are used again once nothing
  remembers them, so two of them make as many sessions and late answers as one
  likes. `mailbox` runs without failed calls and with one key a device (the
  second device's key is a stranger to mail sealed before): rotation beside mail is for
  `prekeys` and for `MailboxRefinesPrekeys`, and a reader of the box meets only its
  outcome, a bundle that opens or does not.
* *MACI.* Three messages are a key change, the same again after a lost answer (another
  key, one nonce) and a vote or an interference, in every order; a batch of one makes as
  many batches for two crankers who race. The deadline leaves a stranger who copies a
  reveal the slot that a commitment of their own needs. One value of a
  vote against the intruder's other one is enough to see whose command counts. Audits
  are those of closed rounds.
* *Recovery.* Two cuts are an original and its re-issue, one fault falls between
  any two writes, a window of one and a clock to two allow early, on time and late.
  A third cut (a re-issue of a re-issue, with sponsors on three cuts) outgrows a run;
  the theorems are about any number.

Bounds are named: in the modules' constants (`Max...`, `Newcomers`, `Revocable`,
`Policies`, `VotingPeriods`) and in their guards.

### Where the code disagrees with itself

Two runs are expected to fail.

* `kept_secret` is a defect. `adoptMaster` (`lib/masterSecret.ts:129-143`) awaits
  the unlock prompt and only then seals the buffer it was given. The page does not
  wait for it (`app/recovery/page.tsx:739`) and wipes that same buffer when the
  member re-issues (`:771`) or leaves the recovery page (`:102`). The key
  store then holds 32 zeros, and every later `getMaster` returns them: the flows no
  longer talk "about the SAME secret" (`masterSecret.ts:7-8`). The comment
  at `masterSecret.ts:126-127` leaves the buffer to the caller, and the caller's at
  `page.tsx:769-770` says it is not needed again.
* `relay_overshoot`: `app/api/relay/route.ts:179-180` says concurrent relays cannot
  "overshoot together". The reservation is released before the cost is booked,
  with an `await` in between, and a request admitted then sees neither.
  `BooksCoverLoss` and `FloorHolds` bound the excess.

Sentences that the models contradict, with no run of their own:

* `docs/resilience.md:53` and `council.rs:161-163` say a RotateSeat executes
  immediately; the code (with its reason at `council.rs:188-192`) makes it wait.
* `council.rs:75-78` gives preventing double approval across a rotation as what one
  holder per seat is for; a wallet vacated from one seat and rotated into another
  approves the same pending proposal again.
* `issue_provisional_membership.rs:14-17` says a provisional member is not in the
  votable set; one who was revoked and admitted again under the same commitment is,
  through the leaf that revocation left. `GlassHolds` is what does hold.
* `state.rs:225` calls a ballot's electorate the member count; the code stores the
  number of leaves, which revocation does not lower.
* `lib/sharding.ts` promises never to return garbage; shards of two cuts do combine
  without an error. That no recovery does so rests on the seal keys (`NeverGarbage`).
* `lib/maci-command.ts:274-275` says the tally is "a function of the SET of messages".
  Two different commands with one nonce are told apart by their index, and a client
  whose answer was lost makes such a pair. `OrderFree` says when the sentence holds.
* `docs/maci.md:133-140` and `maci_signup.rs:76-79` have it that who first learns a
  nullifier from a reveal can have no older commitment. That is so in the reveal's own
  slot. A reveal that has not landed by the next slot can be overtaken: a commitment made
  after reading it is strictly older than a registration a slot later. `SignUpHolds` says
  what the commit and reveal do guarantee.
* `docs/messaging.md:91-94`, `:190-192` and `lib/mailboxMixing.ts:179-181` cap the decoys
  in a box at 16 for each fetch and ack, so that cover never evicts mail. The count is a
  session's: it starts at zero with each session while the last one's dummies are in the
  box; an ack lowers it by peers', earlier sessions' and, when an answer is late, already
  counted dummies (`lib/mailbox.ts:514-517`); and peers' dummies in the box are under
  nobody's budget. `LimitsHold` carries the difference as `excess`.
* `state.rs:911-913` says an amount "can never be aimed at an individual". What holds
  is `NobodySingledOut`: grants of different amounts are a cooldown apart; a newcomer who
  is alone in a day can still be given an amount of their own.
* `reclaim_karma.rs:10-16` says anyone may push a gift's return through. Both memberships
  must exist: while either is revoked nobody can.
* `docs/resilience.md:45-46` has RotateSeat as the only rotation of a seated Council,
  while elections and the parent Circle write seats too.

### Fairness

| specification | weak fairness of | why |
|---|---|---|
| `Treasury` | `Withdraw` | permissionless, for a transaction fee, and somebody wants it |
| `MemberRoll` | `ReinsertMember` | the same |
| `MaciRound` | the clock, `CloseMaciRound`, some cranker's reading or sending | the same; nobody has to publish |
| `Prekeys` | keys coming of age, the member opening the mailbox, the call's own steps | a user who never comes back is promised nothing; failures are bounded |
| `Mailbox` | the relay finishing letters it began on, the page handling answers, the member clearing what is listed, the clock; strong fairness of fetching | the same; a fetch is not held up by polls in the code, only by the model's one get at a time |
| `ShardRecovery` | the handlers' and the burning page's started writes, adoption (its prompt times out), leaving a page that waits, the clock; strong fairness of completing a sponsor-only recovery, and of cancelling one whose shards do not open | a reload may interrupt a completion each time it is due; the member comes back; the page says so when shards do not open (`errStaleShards`) and offers the cancellation |

`Governance`, `MemberVote`, `Faucet` and `Relayer` are checked for safety alone; that a
permissionless call is made once it is possible, or that a handler reaches its end, would
only repeat the fairness. Nothing is assumed of seats, members, voters or transactions in flight: they may never
vote, approve, cancel or land.

## Proofs

Every safety property of a passing run is a theorem: 28 invariants, five action
properties and the refinement. What TLC alone checks is liveness.

| module | theorem | property |
|---|---|---|
| `GovernanceProofs` | TypeCorrect | TypeOK |
| | OneSeatEachAlways | OneSeatEach |
| | CancelWinsAlways | CancelWins |
| | ContestWindowAlways | ContestWindow |
| | IrrevocableAlways | Irrevocable |
| | RemovalContestableAlways | RemovalContestable |
| | TreasuryInductive | CouncilInv, TreasuryInv |
| | MoneyAccountedAlways | MoneyAccounted |
| | CarriedOutIsDecidedAlways | CarriedOutIsDecided |
| | TreasuryImplementsConscience | ImplementsConscience |
| | CouncilUnderTreasury | OneSeatEach, ContestWindow, Irrevocable, RemovalContestable of TreasurySpec |
| `MemberVoteProofs` | RollInvariant | RollInv |
| | CountWithinTreeAlways | CountWithinTree |
| | LeafOnceAlways | LeafOnce |
| | PinnedPositionsAlways | PinnedPositions |
| | GlassHoldsAlways | GlassHolds |
| | GoodStandingAlways | GoodStanding |
| | DoorsHeldAlways | DoorsHeld |
| | VotingIsOutsideTheRoll | MemberVote's Spec implies MemberRoll's |
| | VoteInvariant | RollInv, BallotInv |
| | BallotsSound | BallotInv |
| | OneMemberOneVoteAlways | OneMemberOneVote |
| | NoLoneConscienceAlways | NoLoneConscience |
| | BallotsFinalAlways | BallotsFinal |
| `MaciRoundProofs` | RoundInvariant | RoundInv |
| | ChainIsQueueAlways | ChainIsQueue |
| | SignUpHoldsAlways | SignUpHolds |
| | AuditAgreesAlways | AuditAgrees |
| | OrderFreeAlways | OrderFree |
| | KeyChangeHoldsAlways | KeyChangeHolds |
| `FaucetProofs` | KarmaInvariant | KarmaInv |
| | KarmaAccountedAlways | KarmaAccounted |
| | JarInvariant, FaucetInvariant | JarInv, FaucetInv |
| | JarAccountedAlways | JarAccounted |
| | NobodySingledOutAlways | NobodySingledOut |
| | FaucetRefinesKarma | Faucet's Spec implies Karma's |
| `RelayerProofs` | RelayInvariant | RelayInv |
| | ReservationsBalancedAlways | ReservationsBalanced |
| | FloorHoldsAlways | FloorHolds |
| | BooksCoverLossAlways | BooksCoverLoss |
| | FeeOnlyAlways | FeeOnly |
| `MailboxProofs` | PrekeysInvariant | KeysInv |
| | SenderReachesAlways | SenderReaches |
| | MailboxInvariant | KeysInv, BoxInv |
| | KeptUntilSeenAlways | KeptUntilSeen |
| | LimitsHoldAlways | LimitsHold |
| | MailboxRefinesPrekeys | Mailbox's Spec implies Prekeys' |
| `ShardRecoveryProofs` | RecoveryInvariant | RecoveryInv |
| | NeverGarbageAlways | NeverGarbage |
| | WindowInvariant | WindowInv |
| | WindowHeldAlways | WindowHeld |
| | HandInvariant | HandInv |
| | AnyTwoAlways | AnyTwo |

The assumptions are those on the constants, named `...Assumption` in the module that
declares them; TLC evaluates each in its runs. They say: a threshold between
one and the number of seats; a turnout of at least two; windows, bounds and amounts in
Nat; finitely many callers, members, letters and wallets (a public key has 32 bytes);
an allowlist entry whose payer is not its authority; a refund of rent no larger than
the worst case a request is booked with (`EST_COST`, `route.ts:139-142`); a stranger who
is no member; at least two prekeys kept (`SPK_KEEP`, "current + previous",
`lib/mailbox.ts:68`); a box that holds at least one file; well-typed inputs.
`FloorHoldsAlways` assumes besides that the wallet starts above its floor, as the run's
does. Two of these came out of attempts that failed: with a larger refund the books
do not cover the loss, and with one prekey kept a sender who looked a key up before a
rotation does not reach the member.

**Governance.** `ContestWindow` speaks of executed proposals only and is not
inductive: before execution the evidence sits in the armed time. The inductive
invariant is `IInv == TypeOK /\ Deciding /\ Timing`:

* `Deciding`: stored actions passed the checks of `propose` (a migration names
  real wallets, which is why it cannot collapse seats), seats are distinct, nothing
  is both cancelled and executed.
* `Timing`: every approval was cast by a seat's holder in the past; the approvals
  that armed a proposal were cast a full window before its `eligible_at`; what is
  executed was armed and due.

Counting arguments rest on the finite-set library; lemmas state once what arming,
approving and rebinding do. The two action properties follow from `IInv` and the
shape of each step.

**Treasury.** `CouncilInv` adds to the Council's invariant that what was carried out had
been executed, and what was executed was due. `TreasuryInv` adds the books, purse by
purse: balance and receipts add up to the donations, and what a wallet received is the sum
of the decisions carried out in its favour. These sums are folds, and a fold is a
choice; `SumProofs` shows that there is one to choose and that it is a sum, by induction
in the form of a smallest set on which the claim fails (the library's induction
theorem takes an operator, which the provers cannot instantiate; a well-founded order
on sets they can use). The refinement goes step by step: every instruction of Council and
treasury is one step of `GroupConscience`, or none. The treasury's instructions write to
proposals, so what holds of the Council alone does not carry over by itself:
`CouncilUnderTreasury` shows that it does, since carrying a decision out marks it and
leaves action, approvals, window and outcome where they were.

**Roll.** `RollInv` says why the bookkeepings agree: the ring holds earlier states of the
tree since the last rebuild, both records of positions point at the leaf they were written
for, and a commitment that has a leaf and is not revoked is *settled*: it has a
membership, nobody is to confirm it, and it is claimed in this epoch or too young to be
planted again. Good standing is about the moment the present epoch began, since
revocation takes no leaf away.

**Voting.** The outcome looks at two counters, the property at members. `BallotInv`
ties them: the counters of a ballot add up to the number of members whose
nullifiers are spent on it, these are of its snapshot, and only a finalized ballot with
the minimum turnout passes. Every step of `MemberRoll` leaves the ballots alone, and every
step of the vote leaves the roll alone, so the composed system implements the roll
(`VotingIsOutsideTheRoll`) and `OneMemberOneVote` may use both invariants: that a
voter is one member takes `LeafOnce` of the snapshot, which is an earlier tree.

**Recovery.** Noise would come of two shards of different cuts, and nothing in a
shard tells its cut. `RecoveryInv` follows the code through the pages: what a
custody files under a code is a shard of that cut; while a page looks for shards its
code is that of a cut, and the first shard on it is of that code; a secret on a page
is the one split under the page's code. `WindowInv` says how the window can be trusted
though it lives in three places that are written one after the other: a pending
intent whose two shards are still filed was opened no earlier than both sponsors
were met for its code, a page that is burning is about the pending code, a secret
recovered without an own shard comes a full window after both were met, and a handler
that files two shards was given them by both (`FilingOK`), while nothing is pending yet.
`HandInv` adds what a handover rests on: the page has the own shard of its cut in custody
beside it and no handler at work, and a re-issue has stored the new own shard before it
burns another. `AnyTwo` is then an action property about each step: a handover makes its
sponsor and the device two holders of the page's cut; what was recoverable stays so
unless an own shard leaves a device; and if the sponsors share a cut no such loss
matters.

**Relayer.** A balance read before an `await` may be stale when it is acted on, so no
statement about one request alone is kept. `RelayInv` counts: what is reserved is
what the handlers holding a reservation hold, and the wallet covers the floor
plus one worst case for every such handler that is neither stale nor late and whose
transaction has not landed, less one for each stale or late one that has. The day's
books need more: each handler books the difference of two balances between which others
moved it, so no sum of costs says what was booked. `Ledger` says lamport by lamport that
each level the wallet fell through is booked, or crossed by a transaction not yet
booked, or was passed again upwards by a refund.
`FeeOnly` needs no history: it follows from the
policy's checks for every shape a caller can send.

**Faucet.** The property compares two grants, the program looks at one and at a stamp.
`JarInv` keeps the link: a grant of another amount than today's is no younger than the
last change of the amount, and a jar that has paid knows that it has, so the
exemption for a jar's first grant never applies to a second. `KarmaInv` carries one
credit for each two people and every total as the ledger's sum, or less if it ever
saturated; `FaucetInv` adds the jar's balance: rent, plus each ballot carried out once,
less each grant once.

**MACI.** A digest tells nothing of how it came about, so `RoundInv` says which fold
it is: `Folded(0, processed)`, with nothing folded while the queue grows and the
count frozen when it no longer does; a batch that starts elsewhere is refused. For the
sign-ups, nullifiers and keys are registered once, a commitment to somebody else's key is
no older than the reveal it was copied from, and a registration is younger than its
commitment. `AuditInv` follows the
auditor from read to read: accounts are only added before the round closes, so three
lists read one after the other are of one moment once it has. The tally's properties
are about every queue: an array has one sorted form (each member at the place of its
rank), buckets with the same commands and different nonces have the same nonces in the
same places (`OrderFree`), and a voter's state after `n` commands is followed place by
place to see that a foreign key's commands change nothing behind a change of keys that is
the first with its nonce and below which nothing foreign was published
(`KeyChangeHolds`). The same proof covers further changes at that nonce, by a client whose
answer was lost: they carry keys nobody else has and come too late.

**Prekeys and mailbox.** `KeysInv` orders the keys of a device by epoch and says that any
other device's published key is older than all of them; this is what a blind
rotation breaks. `BoxInv` has one part for each property: files, and letters in a page on
its way, stem from answered puts, and files are told apart by the order they were written
in; a letter the page lists was shown or its sender let it expire; a put since whose look
at the box nobody wrote has listed all there is, so that what is left after evicting is
less than the cap; and the running session's dummies that its count was not yet lowered
for are no more than the count and `excess` together, `excess` being what the count was
lowered by for dummies that were not the session's, or for the second time.

**Only model-checked:** liveness, which needs ENABLED: `SpendIsPaid`, `RebuildHeals`,
`RoundProcessed`, `Heals`, `Delivered` and `PendingEnds`. The two refuted properties are
counterexamples TLC finds, and there is nothing to prove about them.

## Not modelled

`PROJECT.json` gives every component left out with its reason. Within the modelled
ones:

* *Mailbox*: where the session's dummies for peers go (they count in its budget),
  padding, the relay's rate limits, several members' boxes side by side, two devices of one
  member in alternation.
* *Recovery*: two overlapping `getOrCreateMaster` calls, two tabs, starting something else
  while a handler works, the settings page, the bytes of
  handover frames; a cancellation works only on the device that holds the intent.
* *Relayer*: byte lengths and discriminators, which are an allowlist entry's identity.
* *MACI*: encryption and the commit of the tally, which the chain refuses.
* *Treasury*: rent floors, the payer's balance, the renewal fee; the refill is in `Faucet`.
* *Karma and faucet*: `min_sponsors`, which nothing reads; renewal of memberships; the
  wallets that receive grants.
* *Elections*: the ballots behind an installed seat; composing `MemberVote` with
  `Governance` outgrows a run, and what crosses is one bit, passed.

The program's logic is in Rust; of the TypeScript, close to half is a generated table
of texts and most of the rest is pages and transaction builders, which hold no
state over several steps. What is stateful there is the relayer, the mailbox, the
MACI client and the recovery pages, and those are modelled.

## Plan

Done, in this order: Council and Governance with their proofs; Treasury and its
refinement; the roll and the vote; MACI; the relayer; prekeys and mailbox;
shard recovery; karma and the faucet; the proofs of all safety properties that the
runs check. Left:

1. `Recovery` over `Governance`: owner and guardian keys, co-sign, `member_migrate`
   against a Council migration in its window, the replay of `recover_membership`.
2. `Election`, composing `MemberVote` and `Governance`: two ballots for one seat
   installed in either order, against Council rotations.
3. `Federation` with expiry and the re-creation of a
   closed Circle at its address.
4. Proofs: the steps liveness rests on, as far as they are safety (what a fair action
   decreases and what keeps it possible), and the invariants of the modules above.
