------------------------------ MODULE Relayer ------------------------------
(***************************************************************************)
(* The fee relayer (app/api/relay/route.ts, lib/relayPolicy.ts and the     *)
(* client half lib/relayer.ts).  One server process answers concurrent     *)
(* POSTs; each handler runs in one piece from one await to the next, and   *)
(* the counters of the process, the wallet's balance and the chain move in *)
(* between.  A transaction that was sent may land, land with an error, or  *)
(* expire, whatever the handler came to believe.                           *)
(***************************************************************************)
EXTENDS Integers, FiniteSets, Sequences

CONSTANTS
    Requests,       \* POSTs, each sent at most once
    CallerOf,       \* Requests -> the x-forwarded-for a request comes with
    Allowlist,      \* RELAY_ALLOWLIST: accountCount, payerIndex, authorityIndex
    Keys,           \* public keys a request may name
    RelayerKey,     \* the relayer's own
    NoKey,          \* no co-signer
    RateLimit, GlobalLimit, RateWindow,
    DailyTxs, DailyLamports, MinLamports, EstCost, FeeEst,
    Costs,          \* what a transaction that lands takes from the relayer, or gives
                    \* back of it: the rent of one account, which EST_COST bounds
    Funds,          \* its balance at the start
    CacheTTL,       \* the client's
    DayLength, MaxTime

None == -1          \* the null of payerIndex and the undefined of authorityIndex

ASSUME RelayerAssumption ==
    /\ IsFiniteSet(Requests) /\ RelayerKey \in Keys /\ NoKey \notin Keys
    /\ {RateLimit, GlobalLimit, RateWindow, DailyTxs, DailyLamports, MinLamports,
        EstCost, FeeEst, Funds, CacheTTL, MaxTime} \subseteq Nat
    /\ DayLength \in Nat \ {0}
    /\ Costs \subseteq -EstCost..EstCost /\ FeeEst <= EstCost
    /\ \A e \in Allowlist :
          /\ e.accountCount \in Nat /\ e.payerIndex \in Int /\ e.authorityIndex \in Int
          /\ e.payerIndex = e.authorityIndex => e.payerIndex = None

VARIABLES
    now,
    hits, globalHits,                       \* the two rate limiters
    dayKey, dayCount, daySpent,             \* the budget of the UTC day
    outstanding,                            \* reservations
    pc,                                     \* where each request's handler is
    work,                                   \* the handler's locals, of use to it
    chain,                                  \* the fate of each transaction
    balance,
    cached,                                 \* the client's memory of GET
    stale, late, unread, base               \* history: see the properties

server == <<hits, globalHits, dayKey, dayCount, daySpent, outstanding>>
history == <<stale, late, unread, base>>
vars == <<now, server, pc, work, chain, balance, cached, history>>

-----------------------------------------------------------------------------
(* What may be relayed: validateRelayRequest on a request's shape. *)

Metas == [pubkey: Keys, isSigner: BOOLEAN]
Shapes == UNION { [ix: {e}, keys: [1..e.accountCount -> Metas]] : e \in Allowlist }

\* A slip: only the payer account is looked at.
AccountFaultPayerOnly(e, k, i) ==
    IF i = e.payerIndex /\ (~k.isSigner \/ k.pubkey # RelayerKey) THEN "payer" ELSE ""

\* Why the loop stops at account i, or "" when it goes on.  Positions count from 1.
AccountFault(e, k, i) ==
    IF i = e.payerIndex
    THEN IF ~k.isSigner THEN "payer must sign"
         ELSE IF k.pubkey # RelayerKey THEN "payer is not the relayer" ELSE ""
    ELSE IF i = e.authorityIndex
    THEN IF ~k.isSigner THEN "authority must sign"
         ELSE IF k.pubkey = RelayerKey THEN "the relayer may not be the authority" ELSE ""
    ELSE IF k.isSigner THEN "unexpected extra signer"
         ELSE IF e.payerIndex = None /\ k.pubkey = RelayerKey
              THEN "relayer must not appear in the accounts" ELSE ""

ValidateRelayRequest(s) ==
    LET e == s.ix
        faults == { i \in DOMAIN s.keys : AccountFault(e, s.keys[i], i) # "" }
        authority == IF e.authorityIndex \in DOMAIN s.keys
                     THEN s.keys[e.authorityIndex].pubkey ELSE NoKey
    IN  [ok |-> faults = {} /\ (e.authorityIndex # None => authority # NoKey),
         authority |-> authority]

\* Who has to sign the transaction the route builds: the accounts marked as
\* signers, apart from the fee payer, which always does.
Signers(s) == { <<i, s.keys[i].pubkey>> : i \in { j \in DOMAIN s.keys : s.keys[j].isSigner } }

-----------------------------------------------------------------------------
(* The counters of the process. *)

Recent(times) == SelectSeq(times, LAMBDA t : now - t < RateWindow)
Heard(times) == Append(Recent(times), now)
OverLimit(times, limit) == Len(Heard(times)) > limit

Today == now \div DayLength
NewDay == Today # dayKey
\* dayCount and daySpent as newDay() leaves them.
CountToday == IF NewDay THEN 0 ELSE dayCount
SpentToday == IF NewDay THEN 0 ELSE daySpent

WouldExceedDailyTxBudget == CountToday + 1 > DailyTxs
OverDailyLamports(pending) == SpentToday + pending > DailyLamports
Released == IF outstanding > EstCost THEN outstanding - EstCost ELSE 0

Waiting  == {"body", "balance", "read", "blockhash", "sending", "confirming", "settling"}
Reserved == {"blockhash", "sending", "confirming"}
Answers  == {"signature", "400", "429", "500", "502", "503", "lost", "selfpaid"}
Fates    == {"none", "pending", "ok", "refund", "err", "dropped"}
Landed   == {"ok", "refund", "err"}

NoWork == [signers |-> {}, authority |-> NoKey, before |-> 0]

Init ==
    /\ now = 0
    /\ hits = [c \in { CallerOf[r] : r \in Requests } |-> <<>>] /\ globalHits = <<>>
    /\ dayKey = -1 /\ dayCount = 0 /\ daySpent = 0 /\ outstanding = 0
    /\ pc = [r \in Requests |-> "idle"] /\ work = [r \in Requests |-> NoWork]
    /\ chain = [r \in Requests |-> "none"] /\ balance = Funds
    /\ cached = [at |-> 0, relayer |-> "unknown"]
    /\ stale = {} /\ late = {} /\ unread = {} /\ base = Funds

Goto(r, place) == pc' = [pc EXCEPT ![r] = place]
\* newDay() run by a handler; base follows the counters it resets.
StartDay == /\ dayKey' = Today /\ dayCount' = CountToday /\ daySpent' = SpentToday
            /\ base' = IF NewDay THEN balance ELSE base
SameDay == UNCHANGED <<dayKey, dayCount, daySpent, base>>

-----------------------------------------------------------------------------
(* The client: whom to ask, and what to do without a relayer. *)

Fresh == cached.relayer # "unknown" /\ now - cached.at < CacheTTL

\* relayerPubkey() past its cache: the answer of GET, or null when it fails.
RelayerPubkey(answered) ==
    /\ ~Fresh
    /\ cached' = [at |-> now, relayer |-> IF answered THEN "key" ELSE "null"]
    /\ UNCHANGED <<now, server, pc, work, chain, balance, stale, late, unread, base>>

\* No relayer: the member's own wallet pays, and is named on chain.
SelfPay(r) ==
    /\ pc[r] = "idle" /\ Fresh /\ cached.relayer = "null"
    /\ Goto(r, "selfpaid")
    /\ UNCHANGED <<now, server, work, chain, balance, cached, history>>

-----------------------------------------------------------------------------
(* The handler, from one await to the next. *)

\* POST up to `await req.json()`: the two limiters.  A caller's own limit is
\* asked first, and a request it refuses never reaches the global one.
Receive(r) ==
    LET c == CallerOf[r]
        own == OverLimit(hits[c], RateLimit)
    IN  /\ pc[r] = "idle" /\ Fresh /\ cached.relayer = "key"
        /\ hits' = [hits EXCEPT ![c] = Heard(@)]
        /\ globalHits' = IF own THEN globalHits ELSE Heard(globalHits)
        /\ Goto(r, IF own \/ OverLimit(globalHits, GlobalLimit) THEN "429" ELSE "body")
        /\ UNCHANGED <<now, dayKey, dayCount, daySpent, outstanding, work, chain, balance, cached, history>>

\* A body that is no JSON, or whose discriminator, length or account count the
\* allowlist does not know.
Malformed(r) ==
    /\ pc[r] = "body" /\ Goto(r, "400")
    /\ UNCHANGED <<now, server, work, chain, balance, cached, history>>

\* The policy, then the day's transaction count; it only looks at the count.
Validate(r, s) ==
    LET verdict == ValidateRelayRequest(s)
    IN  /\ pc[r] = "body"
        /\ IF ~verdict.ok
           THEN Goto(r, "400") /\ SameDay /\ UNCHANGED work
           ELSE /\ StartDay
                /\ Goto(r, IF WouldExceedDailyTxBudget THEN "503" ELSE "balance")
                /\ work' = IF WouldExceedDailyTxBudget THEN work
                           ELSE [work EXCEPT ![r].signers = Signers(s), ![r].authority = verdict.authority]
        /\ UNCHANGED <<now, hits, globalHits, outstanding, chain, balance, cached,
                       stale, late, unread>>

\* `await conn.getBalance`: what the RPC node answers is read here and looked
\* at later.  This await is outside the try.
ReadBalance(r) ==
    /\ pc[r] = "balance" /\ Goto(r, "read")
    /\ work' = [work EXCEPT ![r].before = balance]
    /\ UNCHANGED <<now, server, chain, balance, cached, history>>
BalanceFails(r) ==
    /\ pc[r] = "balance" /\ Goto(r, "500")
    /\ UNCHANGED <<now, server, work, chain, balance, cached, history>>

\* A slip: the floor forgets the request at hand.
BelowFloorNow(r) == work[r].before - outstanding < MinLamports

BelowFloor(r) == work[r].before - outstanding - EstCost < MinLamports
Refuse(r) ==
    /\ pc[r] = "read"
    /\ \/ BelowFloor(r) /\ SameDay
       \/ ~BelowFloor(r) /\ OverDailyLamports(outstanding + EstCost) /\ StartDay
    /\ Goto(r, "503")
    /\ UNCHANGED <<now, hits, globalHits, outstanding, work, chain, balance, cached,
                   stale, late, unread>>

\* The reservation and, in the same piece, the checks on the co-signer: what the
\* body carries is absent, right, for another account or with a malformed
\* window, or does not verify (the last fails in tx.serialize).
Signature == {"none", "good", "wrong", "forged"}
SignatureTaken(r, sig) == IF work[r].authority = NoKey THEN sig = "none" ELSE sig = "good"
\* A slip: a refused co-signer keeps its reservation.
ReserveKeepsOnRefusal(r, sig) ==
    /\ pc[r] = "read" /\ ~BelowFloor(r) /\ ~OverDailyLamports(outstanding + EstCost)
    /\ StartDay
    /\ outstanding' = outstanding + EstCost
    /\ stale' = IF balance < work[r].before THEN stale \cup {r} ELSE stale
    /\ Goto(r, IF SignatureTaken(r, sig) THEN (IF sig = "good" THEN "sending" ELSE "blockhash") ELSE "400")
    /\ UNCHANGED <<now, hits, globalHits, work, chain, balance, cached, late, unread>>

Reserve(r, sig) ==
    /\ pc[r] = "read" /\ ~BelowFloor(r) /\ ~OverDailyLamports(outstanding + EstCost)
    /\ StartDay
    /\ IF SignatureTaken(r, sig)
       THEN /\ outstanding' = outstanding + EstCost
            /\ Goto(r, IF sig = "good" THEN "sending" ELSE "blockhash")
            /\ stale' = IF balance < work[r].before THEN stale \cup {r} ELSE stale
       ELSE /\ UNCHANGED <<outstanding, stale>>           \* reserved and released
            /\ Goto(r, IF sig = "forged" /\ work[r].authority # NoKey THEN "502" ELSE "400")
    /\ UNCHANGED <<now, hits, globalHits, work, chain, balance, cached, late, unread>>

GetLatestBlockhash(r) ==
    /\ pc[r] = "blockhash" /\ Goto(r, "sending")
    /\ UNCHANGED <<now, server, work, chain, balance, cached, history>>

\* `await conn.sendRawTransaction`, with preflight.
Send(r) ==
    /\ pc[r] = "sending" /\ Goto(r, "confirming")
    /\ chain' = [chain EXCEPT ![r] = "pending"]
    /\ UNCHANGED <<now, server, work, balance, cached, history>>

\* The catch: an RPC error, a preflight that fails, a window that has passed.
\* A send may have been received although its answer was not, and a
\* confirmation may give up (on the client's own lastValidBlockHeight) on a
\* transaction that still lands.
Fail(r, received) ==
    /\ pc[r] \in Reserved
    /\ received => pc[r] = "sending"
    /\ chain' = [chain EXCEPT ![r] = IF received THEN "pending" ELSE @]
    /\ outstanding' = Released
    /\ late' = IF pc[r] = "confirming" \/ received THEN late \cup {r} ELSE late
    /\ Goto(r, "502")
    /\ UNCHANGED <<now, hits, globalHits, dayKey, dayCount, daySpent, work, balance, cached,
                   stale, unread, base>>

\* `await conn.confirmTransaction` returns: whatever the transaction's outcome.
Confirm(r) ==
    /\ pc[r] = "confirming" /\ chain[r] \in Landed
    /\ outstanding' = Released
    /\ Goto(r, "settling")
    /\ UNCHANGED <<now, hits, globalHits, dayKey, dayCount, daySpent, work, chain, balance, cached, history>>

\* A slip: the estimate is booked although the balance is known.
SettleEstimated(r, known) ==
    /\ pc[r] = "settling"
    /\ dayKey' = Today /\ daySpent' = IF NewDay THEN 0 ELSE daySpent + FeeEst
    /\ dayCount' = CountToday + 1 /\ base' = IF NewDay THEN balance ELSE base
    /\ unread' = unread /\ Goto(r, "signature")
    /\ UNCHANGED <<now, hits, globalHits, outstanding, work, chain, balance, cached,
                   stale, late>>

\* The balance is read again, the difference booked (an estimate, if it cannot
\* be read), and only then is a new day noticed and the transaction counted.
Settle(r, known) ==
    LET spent == IF ~known THEN FeeEst
                 ELSE IF work[r].before > balance THEN work[r].before - balance ELSE 0
    IN  /\ pc[r] = "settling"
        /\ dayKey' = Today
        /\ daySpent' = IF NewDay THEN 0 ELSE daySpent + spent
        /\ dayCount' = CountToday + 1
        /\ base' = IF NewDay THEN balance ELSE base
        /\ unread' = IF known THEN unread ELSE unread \cup {r}
        /\ Goto(r, "signature")
        /\ UNCHANGED <<now, hits, globalHits, outstanding, work, chain, balance, cached,
                       stale, late>>

-----------------------------------------------------------------------------
(* The rest of the world. *)

\* A transaction lands and takes what it costs, or pays rent back (it closed an
\* account the relayer had paid for), or fails on chain for a fee.
Land(r, fate, cost) ==
    /\ chain[r] = "pending"
    /\ chain' = [chain EXCEPT ![r] = fate]
    /\ balance' = balance - cost
    /\ UNCHANGED <<now, server, pc, work, cached, history>>
Expire(r) ==
    /\ chain[r] = "pending"
    /\ chain' = [chain EXCEPT ![r] = "dropped"]
    /\ UNCHANGED <<now, server, pc, work, balance, cached, history>>

\* The process starts again: its counters are gone, and so are its handlers.
Restart ==
    /\ \E r \in Requests : pc[r] \in Waiting
    /\ hits' = [c \in DOMAIN hits |-> <<>>] /\ globalHits' = <<>>
    /\ dayKey' = -1 /\ dayCount' = 0 /\ daySpent' = 0 /\ outstanding' = 0
    /\ base' = balance
    /\ late' = late \cup { r \in Requests : chain[r] = "pending" }
    /\ pc' = [r \in Requests |-> IF pc[r] \in Waiting THEN "lost" ELSE pc[r]]
    /\ UNCHANGED <<now, work, chain, balance, cached, stale, unread>>

Tick == /\ now < MaxTime /\ now' = now + 1
        /\ UNCHANGED <<server, pc, work, chain, balance, cached, history>>

Handle(r) ==
    \/ Receive(r) \/ Malformed(r) \/ \E s \in Shapes : Validate(r, s)
    \/ ReadBalance(r) \/ BalanceFails(r) \/ Refuse(r) \/ \E g \in Signature : Reserve(r, g)
    \/ GetLatestBlockhash(r) \/ Send(r) \/ \E b \in BOOLEAN : Fail(r, b)
    \/ Confirm(r) \/ \E b \in BOOLEAN : Settle(r, b)
Next ==
    \/ \E b \in BOOLEAN : RelayerPubkey(b)
    \/ \E r \in Requests :
          \/ SelfPay(r) \/ Handle(r) \/ Expire(r)
          \/ \E c \in Costs : Land(r, IF c < 0 THEN "refund" ELSE "ok", c)
          \/ Land(r, "err", FeeEst)
    \/ Restart \/ Tick

Spec == Init /\ [][Next]_vars

-----------------------------------------------------------------------------
(* Properties. *)

RelayerTypeOK ==
    /\ now \in 0..MaxTime /\ dayKey \in Int
    /\ {dayCount, daySpent, outstanding} \subseteq Nat
    /\ DOMAIN hits = { CallerOf[r] : r \in Requests }
    /\ pc \in [Requests -> {"idle"} \cup Waiting \cup Answers]
    /\ chain \in [Requests -> Fates] /\ balance \in Int

\* Every reservation belongs to a handler in flight and is given back exactly
\* once, on each of the seven ways out: the counter is what the handlers hold,
\* so that Math.max(0, ...) in route.ts never hides a second release.
ReservationsBalanced ==
    /\ RelayerTypeOK
    /\ outstanding = EstCost * Cardinality({ r \in Requests : pc[r] \in Reserved })

\* The floor under the wallet gives way only for a request that looked at a
\* balance another transaction had since lowered, or whose transaction
\* landed after its handler had given it up: by one request's worst case each.
FloorHolds == balance >= MinLamports - EstCost * Cardinality(stale \cup late)

\* The day's books never fall behind the wallet: what it lost since the counters
\* started is booked, except for transactions not yet booked, given up, or
\* booked with the estimate, and for what a refund hides from a request in
\* flight beside it.  Overlapping requests may book a loss twice.
BooksCoverLoss ==
    LET booked   == { r \in Requests : pc[r] = "signature" /\ r \notin unread /\ chain[r] # "refund" }
        unbooked == { r \in Requests : chain[r] \in Landed } \ booked
    IN  daySpent >= (base - balance) - EstCost * Cardinality(unbooked)

\* The relayer's signature pays and never authorises: nobody but the fee payer
\* and the one co-signer the policy names signs what the handler builds, and
\* the co-signer is not the relayer.
OnlyPays(w) ==
    LET others == { x \in w.signers : x[2] # RelayerKey }
    IN  /\ w.authority # RelayerKey
        /\ Cardinality(w.signers \ others) <= 1
        /\ { x[2] : x \in others } = {w.authority} \ {NoKey}
        /\ Cardinality(others) <= 1
FeeOnly == \A r \in Requests : pc[r] \in {"balance", "read"} \cup Reserved => OnlyPays(work[r])

\* route.ts on its reservations: concurrent requests see each other's spending
\* and cannot overshoot the day's lamports together.
NoOvershootTogether ==
    late = {} /\ unread = {} => base - balance <= DailyLamports
=============================================================================
