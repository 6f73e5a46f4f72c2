----------------------------- MODULE MaciRound -----------------------------
(***************************************************************************)
(* A MACI round from its opening to its processed queue (the maci_*        *)
(* instructions of the program), the clients that sign up, publish, crank  *)
(* and audit (lib/maci.ts), and the tally everybody must agree on          *)
(* (lib/maci-command.ts).  Commands are sealed, so the chain orders them   *)
(* and never reads them; a digest is the sequence it was folded from.      *)
(***************************************************************************)
EXTENDS Integers, Sequences, FiniteSets, Functions

CONSTANTS
    Members,      \* the leaves of the proposal's snapshotted root
    Surrendered,  \* members whose sign-up key somebody else holds too
    Crankers,     \* clients that fold the queue
    Deadline,     \* msg_deadline
    Batch,        \* MACI_CRANK_BATCH
    Votes,        \* choices members make
    MaxTime, MaxNonce, MaxMessages, MaxIntrusions, MaxFailures   \* bounds

\* Whoever is not a member.
Stranger == "stranger"

ASSUME MaciAssumption ==
    /\ IsFiniteSet(Members) /\ Surrendered \subseteq Members /\ Stranger \notin Members
    /\ {Deadline, MaxTime, MaxNonce, MaxMessages, MaxIntrusions, MaxFailures} \subseteq Nat
    /\ Votes \subseteq {0, 1, 2}
    /\ Batch \in Nat \ {0} /\ Deadline <= MaxTime

VARIABLES
    now,          \* the clock, in slots
    stage,        \* MaciState.stage
    commits,      \* MaciSignupCommit accounts: whose nullifier, which key, since when
    seen,         \* nullifiers and proofs that have been in the open, since when
    registered,   \* sign-up nullifier accounts: whose, for which key, since when
    signups,      \* the registered keys in order
    signupDigest,
    messages,     \* MaciMessage accounts; message i of the chain is element i + 1
    frozen, processed, chain,
    voter,        \* what each member's client keeps between commands
    crank,        \* where each cranker is
    audit,        \* an auditor reading the round account by account
    failures

chainVars == <<stage, commits, registered, signups, signupDigest, messages, frozen, processed, chain>>
vars == <<now, chainVars, seen, voter, crank, audit, failures>>

Open == 0
Closed == 1
Processed == 2
No == 0
Yes == 1
Abstain == 2

\* A member's keys are numbered: 0 signs up, and a key made for the command that is
\* to be message n is n.
KeysOf(m) == {m} \X (0..MaxMessages)
StrangersKey == <<Stranger, 0>>
Junk == [stateKey |-> StrangersKey, signer |-> StrangersKey, newKey |-> StrangersKey,
         nonce |-> 0, vote |-> Abstain, by |-> Stranger]

Silent == [at |-> 0, command |-> Junk, busy |-> FALSE]
NoClient == [key |-> 0, nonce |-> 0, joining |-> FALSE, sending |-> Silent]
NoCrank == [index |-> 0, end |-> 0]
NoAudit == [at |-> "idle", state |-> [digest |-> <<>>, chain |-> <<>>, stage |-> Open, processed |-> 0, frozen |-> 0], signups |-> <<>>,
            chainDigestMatches |-> FALSE, signupDigestMatches |-> FALSE]

-----------------------------------------------------------------------------
(* The tally: applyMaciQueue. *)

Records(s) == { [index |-> i - 1, item |-> s[i]] : i \in DOMAIN s }
\* Array.prototype.sort: the list in which each comes before all that follow it.
Sorted(records, Before(_, _)) ==
    CHOOSE s \in [1..Cardinality(records) -> records] :
        \A i, j \in DOMAIN s : i < j => Before(s[i], s[j])

ByIndex(a, b) == a.index < b.index
ByNonce(a, b) == \/ a.item.nonce < b.item.nonce
                 \/ a.item.nonce = b.item.nonce /\ ByIndex(a, b)
InIndexOrder(records) == Sorted(records, ByIndex)

\* A slip: a key change changes no key.
ApplyKeepsKey(state, command) ==
    IF command.nonce > state.nonce /\ command.signer = state.currentKey
    THEN [state EXCEPT !.nonce = command.nonce, !.vote = command.vote]
    ELSE state
\* One command of a voter's bucket; a stale nonce or a signature by another key
\* than the current one drops it.
Apply(state, command) ==
    IF command.nonce > state.nonce /\ command.signer = state.currentKey
    THEN [currentKey |-> command.newKey, nonce |-> command.nonce, vote |-> command.vote]
    ELSE state

\* The commands of a voter's bucket in the order in which they are applied.
Bucket(key, queue) ==
    LET ordered == Sorted({ r \in queue : r.item.stateKey = key }, ByNonce)
    IN  [i \in DOMAIN ordered |-> ordered[i].item]
\* A registered key's state after each of its commands; after all of a queue.
States(key, commands) ==
    LET after[i \in 0..Len(commands)] ==
            IF i = 0 THEN [currentKey |-> key, nonce |-> 0, vote |-> Abstain]
                     ELSE Apply(after[i - 1], commands[i])
    IN  after
VoterState(key, queue) ==
    LET commands == Bucket(key, queue) IN States(key, commands)[Len(commands)]
ApplyMaciQueue(keys, queue) ==
    LET votes == { <<i, VoterState(keys[i], queue).vote>> : i \in DOMAIN keys }
        count(v) == Cardinality({ b \in votes : b[2] = v })
    IN  [yes |-> count(Yes), no |-> count(No), abstain |-> count(Abstain)]

-----------------------------------------------------------------------------
(* The program. *)

\* open_maci_round over a proposal nobody has voted on.
Init ==
    /\ now = 0 /\ stage = Open /\ commits = {} /\ seen = {} /\ registered = {}
    /\ signups = <<>> /\ signupDigest = <<>> /\ messages = <<>>
    /\ frozen = 0 /\ processed = 0 /\ chain = <<>>
    /\ voter = [m \in Members |-> NoClient] /\ crank = [c \in Crankers |-> NoCrank]
    /\ audit = NoAudit /\ failures = 0

MaciSignupCommit(m, key) ==
    /\ stage = Open /\ now < Deadline
    /\ ~\E c \in commits : c.nullifier = m /\ c.key = key       \* init
    /\ commits' = commits \cup {[nullifier |-> m, key |-> key, slot |-> now]}

\* A slip: the commitment may be of the same slot.
CommittedBySlot(m, key) == \E c \in commits : c.nullifier = m /\ c.key = key
CommittedBefore(m, key) == \E c \in commits : c.nullifier = m /\ c.key = key /\ c.slot < now
Registered == { r.nullifier : r \in registered }
Unused(m, key) == m \notin Registered /\ key \notin Range(signups)   \* two inits
\* A slip: the registration does not end with the round.
MaciSignupLate(m, key) ==
    /\ CommittedBefore(m, key) /\ Unused(m, key)
    /\ registered' = registered \cup {[nullifier |-> m, key |-> key, slot |-> now]}
    /\ signups' = Append(signups, key)
    /\ signupDigest' = Append(signupDigest, [index |-> Len(signups), item |-> key])
MaciSignup(m, key) ==
    /\ stage = Open /\ now < Deadline
    /\ CommittedBefore(m, key) /\ Unused(m, key)
    /\ registered' = registered \cup {[nullifier |-> m, key |-> key, slot |-> now]}
    /\ signups' = Append(signups, key)
    /\ signupDigest' = Append(signupDigest, [index |-> Len(signups), item |-> key])

\* No deadline here: until somebody closes the round it takes commands.  The
\* message account's address holds the index, so it has to be the next one.
PublishMaciMessage(index, command) ==
    /\ stage = Open /\ index = Len(messages)
    /\ messages' = Append(messages, command)

\* A slip: an empty queue is left for the crank.
CloseUnprocessed ==
    /\ stage = Open /\ now >= Deadline
    /\ stage' = Closed /\ frozen' = Len(messages) /\ processed' = 0 /\ chain' = <<>>
    /\ UNCHANGED <<now, commits, seen, registered, signups, signupDigest, messages, voter, crank, audit, failures>>

\* Anyone; an empty queue is processed at once.
CloseMaciRound ==
    /\ stage = Open /\ now >= Deadline
    /\ frozen' = Len(messages) /\ processed' = 0 /\ chain' = <<>>
    /\ stage' = IF messages = <<>> THEN Processed ELSE Closed
    /\ UNCHANGED <<now, commits, seen, registered, signups, signupDigest, messages, voter, crank, audit, failures>>

\* A slip: the accounts' indices are not compared with the count.
NextInLineAny(index) == TRUE
NextInLine(index) == index = processed
\* What n message accounts add to the digest, from an index on.
Folded(index, n) == [j \in 1..n |-> [index |-> index + j - 1, item |-> messages[index + j]]]
ProcessMaciMessages(index, n) ==
    /\ stage = Closed /\ n > 0 /\ processed + n <= frozen /\ NextInLine(index)
    /\ chain' = chain \o Folded(index, n)
    /\ processed' = processed + n
    /\ stage' = IF processed' = frozen THEN Processed ELSE stage

-----------------------------------------------------------------------------
(* The clients. *)

\* maciSignupCommit, with the one key pair the member made for the round.
Commit(m) ==
    /\ MaciSignupCommit(m, <<m, 0>>)
    /\ UNCHANGED <<now, stage, seen, registered, signups, signupDigest, messages, frozen, processed,
                   chain, voter, crank, audit, failures>>

InTheOpen == { s.nullifier : s \in seen }
\* maciSignupReveal: the transaction is in the open before it lands.
Reveal(m) ==
    /\ stage = Open /\ ~voter[m].joining /\ m \notin Registered
    /\ CommittedBefore(m, <<m, 0>>)
    /\ voter' = [voter EXCEPT ![m].joining = TRUE]
    /\ seen' = IF m \in InTheOpen THEN seen ELSE seen \cup {[nullifier |-> m, slot |-> now]}
    /\ UNCHANGED <<now, chainVars, crank, audit, failures>>
RevealLands(m) ==
    /\ voter[m].joining /\ MaciSignup(m, <<m, 0>>)
    /\ voter' = [voter EXCEPT ![m].joining = FALSE]
    /\ UNCHANGED <<now, stage, commits, seen, messages, frozen, processed, chain, crank, audit, failures>>
RevealFails(m) ==
    /\ voter[m].joining /\ failures < MaxFailures /\ failures' = failures + 1
    /\ voter' = [voter EXCEPT ![m].joining = FALSE]
    /\ UNCHANGED <<now, chainVars, seen, crank, audit>>

\* What anybody can do who has seen a reveal: the nullifier and the proof in it,
\* with a key of their own, as long as the nullifier is not spent.
StrangerCommits(m) ==
    /\ m \in InTheOpen \ Registered /\ MaciSignupCommit(m, StrangersKey)
    /\ UNCHANGED <<now, stage, seen, registered, signups, signupDigest, messages, frozen, processed,
                   chain, voter, crank, audit, failures>>
StrangerReveals(m) ==
    /\ m \in InTheOpen /\ MaciSignup(m, StrangersKey)
    /\ UNCHANGED <<now, stage, commits, seen, messages, frozen, processed, chain, voter, crank, audit, failures>>

\* publishMaciVote and publishMaciKeyChange up to getMaciRound: the command
\* carries the next nonce and is addressed to the count read here.  A change makes a
\* fresh key pair on every call, the retry of one that was lost included.  (No other
\* message of the chain has this number, so the key is nobody's yet.)
NewKey(m) == <<m, Len(messages) + 1>>
Publish(m, vote, change) ==
    LET own == [stateKey |-> <<m, 0>>,
                signer |-> <<m, voter[m].key>>,
                newKey |-> IF change THEN NewKey(m) ELSE <<m, voter[m].key>>,
                nonce |-> voter[m].nonce + 1, vote |-> vote, by |-> m]
    IN  /\ <<m, 0>> \in Range(signups)
        /\ ~voter[m].sending.busy /\ stage = Open
        /\ voter[m].nonce < MaxNonce /\ Len(messages) < MaxMessages
        /\ voter' = [voter EXCEPT ![m].sending = [at |-> Len(messages), command |-> own, busy |-> TRUE]]
        /\ UNCHANGED <<now, chainVars, seen, crank, audit, failures>>
\* It lands, and the client that hears of it keeps the new nonce and key; one
\* that does not goes on from the old ones, and forgets a new key for good.
PublishLands(m, answered) ==
    LET s == voter[m].sending
    IN  /\ s.busy /\ PublishMaciMessage(s.at, s.command)
        /\ ~answered => failures < MaxFailures
        /\ failures' = IF answered THEN failures ELSE failures + 1
        /\ voter' = [voter EXCEPT ![m].sending = Silent,
                        ![m].nonce = IF answered THEN s.command.nonce ELSE @,
                        ![m].key = IF answered THEN s.command.newKey[2] ELSE @]
        /\ UNCHANGED <<now, stage, commits, seen, registered, signups, signupDigest, frozen, processed,
                       chain, crank, audit>>
\* Another message took the index, the round was closed, or it is lost on its way.
PublishRefused(m) ==
    /\ voter[m].sending.busy
    /\ voter' = [voter EXCEPT ![m].sending = Silent]
    /\ UNCHANGED <<now, chainVars, seen, crank, audit, failures>>

\* Whoever holds a surrendered sign-up key votes with it, at any nonce; anybody
\* publishes what nobody can open.
Intrude(command) ==
    /\ Len(messages) < MaxMessages
    /\ Cardinality({ i \in DOMAIN messages : messages[i].by = Stranger }) < MaxIntrusions /\ PublishMaciMessage(Len(messages), command)
    /\ UNCHANGED <<now, stage, commits, seen, registered, signups, signupDigest, frozen, processed,
                   chain, voter, crank, audit, failures>>
Coerced == { [stateKey |-> <<m, 0>>, signer |-> <<m, 0>>, newKey |-> <<m, 0>>, nonce |-> n,
              vote |-> No, by |-> Stranger] : m \in Surrendered, n \in 1..MaxNonce }

\* crankMaciMessages: the counts are read once, then batch after batch is sent;
\* the first that fails ends the crank.
CrankReads(c) ==
    /\ stage = Closed /\ crank[c].index >= crank[c].end
    /\ crank' = [crank EXCEPT ![c] = [index |-> processed, end |-> frozen]]
    /\ UNCHANGED <<now, chainVars, seen, voter, audit, failures>>
CrankSends(c) ==
    LET i == crank[c].index
        n == IF crank[c].end - i < Batch THEN crank[c].end - i ELSE Batch
    IN  /\ i < crank[c].end
        /\ \/ /\ ProcessMaciMessages(i, n)
              /\ crank' = [crank EXCEPT ![c] = IF i + n < @.end THEN [@ EXCEPT !.index = i + n] ELSE NoCrank]
              /\ UNCHANGED <<commits, registered, signups, signupDigest, messages, frozen>>
           \/ /\ ~(stage = Closed /\ processed + n <= frozen /\ NextInLine(i))
              /\ crank' = [crank EXCEPT ![c] = NoCrank]
              /\ UNCHANGED chainVars
        /\ UNCHANGED <<now, seen, voter, audit, failures>>

\* auditMaciRound: the state account, then the sign-ups, then the messages, each
\* listed in no particular order and put in the order of the indices.  Bound: of
\* a round that is closed; of an open one an audit shows nothing yet.
AuditState ==
    /\ audit.at = "idle" /\ stage # Open
    /\ audit' = [NoAudit EXCEPT !.at = "state",
                    !.state = [digest |-> signupDigest, chain |-> chain, stage |-> stage,
                               processed |-> processed, frozen |-> frozen]]
    /\ UNCHANGED <<now, chainVars, seen, voter, crank, failures>>
AuditSignups ==
    /\ audit.at = "state"
    /\ audit' = [audit EXCEPT !.at = "signups", !.signups = InIndexOrder(Records(signups))]
    /\ UNCHANGED <<now, chainVars, seen, voter, crank, failures>>
AuditMessages ==
    /\ audit.at = "signups"
    /\ audit' = [audit EXCEPT !.at = "done", !.signups = <<>>, !.state = [NoAudit.state EXCEPT !.stage = audit.state.stage],
                    !.chainDigestMatches = audit.state.processed = audit.state.frozen
                        /\ SubSeq(InIndexOrder(Records(messages)), 1, audit.state.frozen) = audit.state.chain,
                    !.signupDigestMatches = audit.signups = audit.state.digest]
    /\ UNCHANGED <<now, chainVars, seen, voter, crank, failures>>

Tick == /\ now < MaxTime /\ now' = now + 1
        /\ UNCHANGED <<chainVars, seen, voter, crank, audit, failures>>

Next ==
    \/ \E m \in Members :
          \/ Commit(m) \/ \E b \in BOOLEAN : PublishLands(m, b)
          \/ Reveal(m) \/ RevealLands(m) \/ RevealFails(m)
          \/ StrangerCommits(m) \/ StrangerReveals(m)
          \/ \E v \in Votes, b \in BOOLEAN : Publish(m, v, b)
          \/ PublishRefused(m)
    \/ \E command \in Coerced \cup {Junk} : Intrude(command)
    \/ CloseMaciRound \/ \E c \in Crankers : CrankReads(c) \/ CrankSends(c)
    \/ AuditState \/ AuditSignups \/ AuditMessages
    \/ Tick

Spec == Init /\ [][Next]_vars

\* Time passes, and closing and cranking need nobody's leave: somebody does it.
LiveSpec == /\ Spec /\ WF_vars(Tick) /\ WF_vars(CloseMaciRound)
            /\ WF_vars(\E c \in Crankers : CrankReads(c) \/ CrankSends(c))

-----------------------------------------------------------------------------
(* Properties. *)

MaciTypeOK ==
    /\ now \in 0..MaxTime /\ stage \in {Open, Closed, Processed}
    /\ Len(signups) = Cardinality(registered) /\ Len(signups) <= Cardinality(Members)
    /\ Range(signups) \subseteq (UNION { KeysOf(m) : m \in Members }) \cup {StrangersKey}
    /\ processed <= frozen /\ frozen <= Len(messages) /\ Len(messages) <= MaxMessages
    /\ failures <= MaxFailures /\ \A m \in Members : voter[m].nonce <= MaxNonce

\* What the chain folded is the queue: every message published before the
\* round was closed, each once, in the order of publication, whichever cranks
\* ran beside each other (process_maci_messages: no replay, reordering,
\* censoring or stuffing).
ChainIsQueue ==
    /\ MaciTypeOK
    /\ stage # Open => frozen = Len(messages) /\ Len(chain) = processed
    /\ \A i \in DOMAIN chain : chain[i] = [index |-> i - 1, item |-> messages[i]]
    /\ stage = Processed => Len(chain) = Len(messages)

\* What commit and reveal guarantee of the electorate.  Every sign-up and every key
\* is registered once, and the list of keys has these and no other (maci_signup's two
\* inits).  And a registration under somebody else's key stands on a commitment that
\* is no older than the reveal it was copied from and older than its own slot: a
\* reveal that lands in the slot in which it comes into the open is safe.  (One that
\* is still under way a slot later is not, docs/maci.md notwithstanding.)
SignUpHolds ==
    /\ Range(signups) = { r.key : r \in registered }
    /\ \A r, q \in registered : r.nullifier = q.nullifier \/ r.key = q.key => r = q
    /\ \A r \in registered : r.key[1] # r.nullifier =>
          \E s \in seen, c \in commits :
             /\ s.nullifier = r.nullifier /\ c.nullifier = r.nullifier /\ c.key = r.key
             /\ s.slot <= c.slot /\ c.slot < r.slot

\* The tally does not depend on the order of publication, but for one thing: of a
\* voter's commands with one nonce the first published is the first to be tried.
\* That is what a key change repeated after a lost answer meets, for it carries
\* another key.
Tied(c, d) == c.stateKey = d.stateKey /\ c.nonce = d.nonce
Reordered(queue) ==
    { [i \in DOMAIN queue |-> queue[p[i]]] :
        p \in { f \in [DOMAIN queue -> DOMAIN queue] :
                  /\ IsInjective(f)
                  /\ \A i, j \in DOMAIN queue : i < j /\ Tied(queue[f[i]], queue[f[j]]) => f[i] < f[j] } }
OrderFree ==
    LET tally == ApplyMaciQueue(signups, Records(messages))
    IN  \A q \in Reordered(messages) : ApplyMaciQueue(signups, Records(q)) = tally

\* Once a member has changed keys, at a nonce below which the holder of the
\* surrendered key published nothing and as the first with that nonce, the holder's
\* commands change nothing, whenever they are published; a lost answer and a second
\* change at the same nonce do not undo it.
KeyChangeHolds ==
    \A m \in Surrendered :
        LET bucket == { i \in DOMAIN messages : messages[i].stateKey = <<m, 0>> }
            IsChange(c) == messages[c].by = m /\ messages[c].signer = <<m, 0>> /\ messages[c].newKey # <<m, 0>>
            First(c) == \A i \in bucket : messages[i].nonce = messages[c].nonce => c <= i
            Below(c) == \A i \in bucket : messages[i].by = Stranger => messages[c].nonce <= messages[i].nonce
        IN  (\E c \in bucket : IsChange(c) /\ First(c) /\ Below(c)) =>
                VoterState(<<m, 0>>, Records(messages))
                    = VoterState(<<m, 0>>, { r \in Records(messages) : r.item.by = m })

\* An audit of a closed round reproduces the electorate's digest, and one that
\* finds it processed the chain's too, though it reads the accounts one after the
\* other.
AuditAgrees ==
    audit.at = "done" =>
        /\ audit.signupDigestMatches
        /\ audit.state.stage = Processed <=> audit.chainDigestMatches

\* A round is processed in the end, with or without commands in it, and though
\* clients that crank at the same time make each other's batches fail.
RoundProcessed == (stage = Open) ~> (stage = Processed)
=============================================================================
