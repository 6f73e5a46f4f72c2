--------------------------- MODULE RelayerProofs ---------------------------
(***************************************************************************)
(* For any number of concurrent requests, any allowlist, any budgets and   *)
(* any cost of a transaction up to the estimate: reservations balance, the *)
(* wallet's floor gives way only as FloorHolds says, the day's books cover *)
(* what the wallet lost, and the relayer's signature only pays.            *)
(*                                                                         *)
(* The floor is not inductive: what protects it while a transaction is on  *)
(* its way is the reservation its handler made.  The invariant Floor keeps *)
(* the worst case of every request that may still cost something above the *)
(* floor, and gives up that of a stale or late one when it lands.          *)
(*                                                                         *)
(* Nor are the books: each handler books the difference of two balances    *)
(* between which others moved it, so no sum of costs says what was booked. *)
(* The invariant Ledger says which lamports were: each level the wallet    *)
(* fell through is booked, or crossed by a transaction not yet booked, or  *)
(* a refund carried the wallet back over it, so that a handler that read   *)
(* the balance below it and settles above it books nothing.                *)
(***************************************************************************)
EXTENDS Relayer, SumProofs

Places == {"idle"} \cup Waiting \cup Answers
Work   == [signers : SUBSET (Int \X Keys), authority : Keys \cup {NoKey}, before : Int]

Typed ==
    /\ pc \in [Requests -> Places]
    /\ chain \in [Requests -> Fates]
    /\ work \in [Requests -> Work]
    /\ outstanding \in Nat /\ balance \in Int
    /\ stale \in SUBSET Requests /\ late \in SUBSET Requests

Unsent == {"idle", "body", "balance", "read", "blockhash", "sending"}

\* A transaction is sent by its handler alone, and one that is on its way is
\* watched by it or was given up.
Progress ==
    \A r \in Requests :
        /\ pc[r] \in Unsent => chain[r] = "none"
        /\ chain[r] = "pending" => pc[r] = "confirming" \/ r \in late

Holding == { r \in Requests : pc[r] \in Reserved }
Spent   == { r \in stale \cup late : chain[r] \in Landed }
Exposed == { r \in Holding \ (stale \cup late) : chain[r] \in {"none", "pending"} }

\* The counter is what the handlers hold.
Balanced == outstanding = EstCost * Cardinality(Holding)

\* The floor, or what the wallet started with when that was less.
Ground == IF Funds < MinLamports THEN Funds ELSE MinLamports

Floor ==
    balance >= Ground - EstCost * Cardinality(Spent) + EstCost * Cardinality(Exposed)

RelayInv == Typed /\ Progress /\ Balanced /\ Floor

-----------------------------------------------------------------------------
(* Amounts and counts. *)

LEMMA Amounts ==
    /\ EstCost \in Nat /\ MinLamports \in Nat /\ Funds \in Nat /\ FeeEst \in Nat
    /\ Ground \in Nat /\ Ground <= MinLamports /\ Ground <= Funds
    /\ FeeEst <= EstCost
    /\ \A c \in Costs : c \in Int /\ c <= EstCost
  BY RelayerAssumption DEF Ground

LEMMA Times ==
    /\ \A n \in Nat : EstCost * n \in Nat /\ EstCost * (n + 1) = EstCost * n + EstCost
    /\ \A m, n \in Nat : m <= n => EstCost * m <= EstCost * n
  <1>1. \A n \in Nat : EstCost * n \in Nat /\ EstCost * (n + 1) = EstCost * n + EstCost
    BY Amounts
  <1>2. ASSUME NEW m \in Nat, NEW n \in Nat, m <= n
        PROVE  EstCost * m <= EstCost * n
    <2>1. PICK k \in Nat : n = m + k
      <3>1. n - m \in Nat /\ n = m + (n - m)
        BY <1>2
      <3>. QED
        BY <3>1
    <2>2. EstCost * (m + k) = EstCost * m + EstCost * k
      BY Amounts
    <2>. QED
      BY <2>1, <2>2, <1>1, Amounts
  <1>. QED
    BY <1>1, <1>2

LEMMA Finite ==
    \A S \in SUBSET Requests : IsFiniteSet(S) /\ Cardinality(S) \in Nat
  BY RelayerAssumption, FS_Subset, FS_CardinalityType

LEMMA Counted ==
    ASSUME NEW S \in SUBSET Requests, NEW T \in SUBSET S
    PROVE  EstCost * Cardinality(T) <= EstCost * Cardinality(S)
  <1>1. Cardinality(T) <= Cardinality(S)
    BY Finite, FS_Subset
  <1>. QED
    BY <1>1, Finite, Times

LEMMA OneMore ==
    ASSUME NEW S \in SUBSET Requests, NEW r \in Requests, r \notin S
    PROVE  EstCost * Cardinality(S \cup {r}) = EstCost * Cardinality(S) + EstCost
  <1>1. Cardinality(S \cup {r}) = Cardinality(S) + 1
    BY Finite, FS_AddElement
  <1>. QED
    BY <1>1, Finite, Times

LEMMA OneLess ==
    ASSUME NEW S \in SUBSET Requests, NEW r \in S
    PROVE  EstCost * Cardinality(S) = EstCost * Cardinality(S \ {r}) + EstCost
  <1>1. (S \ {r}) \cup {r} = S /\ r \notin S \ {r} /\ S \ {r} \in SUBSET Requests /\ r \in Requests
    OBVIOUS
  <1>. QED
    BY <1>1, OneMore

LEMMA SetsOfRequests ==
    ASSUME Typed
    PROVE  /\ Holding \in SUBSET Requests /\ Spent \in SUBSET Requests
           /\ Exposed \in SUBSET Requests /\ Exposed \in SUBSET Holding
  BY DEF Typed, Holding, Spent, Exposed

\* Nothing new is at stake.
LEMMA FloorKept ==
    ASSUME Typed, Typed', Floor, Spent \subseteq Spent', Exposed' \subseteq Exposed,
           balance' >= balance
    PROVE  Floor'
  <1>1. /\ Spent \in SUBSET Requests /\ Spent' \in SUBSET Requests
        /\ Exposed \in SUBSET Requests /\ Exposed' \in SUBSET Requests
    BY SetsOfRequests DEF Typed, Spent, Exposed, Holding
  <1>2. /\ EstCost * Cardinality(Spent) <= EstCost * Cardinality(Spent')
        /\ EstCost * Cardinality(Exposed') <= EstCost * Cardinality(Exposed)
    BY <1>1, Counted
  <1>3. /\ EstCost * Cardinality(Spent) \in Nat /\ EstCost * Cardinality(Spent') \in Nat
        /\ EstCost * Cardinality(Exposed) \in Nat /\ EstCost * Cardinality(Exposed') \in Nat
    BY <1>1, Finite, Times
  <1>. QED
    BY <1>2, <1>3, Amounts DEF Floor, Typed

-----------------------------------------------------------------------------
(* The steps that neither reserve nor move money.                          *)

Same == <<chain, stale, late, balance, outstanding>>

\* A handler moves on, holding what it held before.
LEMMA Moves ==
    ASSUME Typed, Progress, Balanced, Floor,
           NEW r \in Requests, NEW place \in Places,
           Goto(r, place), UNCHANGED Same, work' \in [Requests -> Work],
           pc[r] \in Reserved <=> place \in Reserved,
           place \in Unsent => pc[r] \in Unsent,
           chain[r] = "pending" /\ r \notin late => place = "confirming"
    PROVE  RelayInv'
  <1>1. pc' = [pc EXCEPT ![r] = place]
    BY DEF Goto
  <1>2. UNCHANGED <<chain, stale, late, balance, outstanding>>
    BY DEF Same
  <1>3. Typed'
    BY <1>1, <1>2 DEF Typed
  <1>4. Progress'
    BY <1>1, <1>2 DEF Typed, Progress
  <1>5. \A q \in Requests : pc'[q] \in Reserved <=> pc[q] \in Reserved
    BY <1>1 DEF Typed
  <1>6. Holding' = Holding
    BY <1>5 DEF Holding
  <1>7. Spent' = Spent /\ Exposed' = Exposed
    BY <1>6, <1>2 DEF Spent, Exposed
  <1>. QED
    BY <1>2, <1>3, <1>4, <1>6, <1>7 DEF RelayInv, Balanced, Floor

\* Nothing of it moves.
LEMMA Rests ==
    ASSUME RelayInv, UNCHANGED Same, UNCHANGED <<pc, work>>
    PROVE  RelayInv'
  BY DEF Same, RelayInv, Typed, Progress, Balanced, Floor, Holding, Spent, Exposed

LEMMA SignersType ==
    ASSUME NEW s \in Shapes
    PROVE  Signers(s) \in SUBSET (Int \X Keys)
           /\ ValidateRelayRequest(s).authority \in Keys \cup {NoKey}
  <1>1. PICK e \in Allowlist : s \in [ix : {e}, keys : [1..e.accountCount -> Metas]]
    BY DEF Shapes
  <1>2. DOMAIN s.keys = 1..e.accountCount /\ DOMAIN s.keys \subseteq Int
    BY <1>1, RelayerAssumption
  <1>3. \A i \in DOMAIN s.keys : s.keys[i].pubkey \in Keys
    BY <1>1, <1>2 DEF Metas
  <1>. QED
    BY <1>2, <1>3 DEF Signers, ValidateRelayRequest

LEMMA QuietSteps ==
    ASSUME RelayInv, NEW r \in Requests,
           \/ SelfPay(r) \/ Receive(r) \/ Malformed(r) \/ \E s \in Shapes : Validate(r, s)
           \/ ReadBalance(r) \/ BalanceFails(r) \/ Refuse(r) \/ GetLatestBlockhash(r)
           \/ \E b \in BOOLEAN : Settle(r, b)
    PROVE  RelayInv'
  <1>0. Typed /\ Progress /\ Balanced /\ Floor
    BY DEF RelayInv
  <1>1. CASE SelfPay(r)
    BY <1>0, <1>1, Moves DEF SelfPay, server, history, Same, Typed, Progress, Places, Waiting,
       Answers, Reserved, Unsent
  <1>2. CASE Receive(r)
    BY <1>0, <1>2, Moves DEF Receive, server, history, Same, Typed, Progress, Places, Waiting,
       Answers, Reserved, Unsent
  <1>3. CASE Malformed(r)
    BY <1>0, <1>3, Moves DEF Malformed, server, history, Same, Typed, Progress, Places, Waiting,
       Answers, Reserved, Unsent
  <1>4. ASSUME NEW s \in Shapes, Validate(r, s)
        PROVE  RelayInv'
    <2>1. work' \in [Requests -> Work]
      BY <1>0, <1>4, SignersType DEF Validate, Typed, Work
    <2>2. PICK place \in {"400", "503", "balance"} : Goto(r, place)
      BY <1>4 DEF Validate
    <2>3. UNCHANGED Same /\ pc[r] = "body"
      BY <1>4 DEF Validate, StartDay, SameDay, Same
    <2>. QED
      BY <1>0, <2>1, <2>2, <2>3, Moves DEF Progress, Places, Waiting, Answers, Reserved, Unsent
  <1>5. CASE ReadBalance(r)
    <2>1. work' \in [Requests -> Work]
      BY <1>0, <1>5 DEF ReadBalance, Typed, Work
    <2>. QED
      BY <1>0, <1>5, <2>1, Moves DEF ReadBalance, server, history, Same, Progress, Places,
         Waiting, Answers, Reserved, Unsent
  <1>6. CASE BalanceFails(r)
    BY <1>0, <1>6, Moves DEF BalanceFails, server, history, Same, Typed, Progress, Places,
       Waiting, Answers, Reserved, Unsent
  <1>7. CASE Refuse(r)
    BY <1>0, <1>7, Moves DEF Refuse, SameDay, StartDay, Same, Typed, Progress, Places,
       Waiting, Answers, Reserved, Unsent
  <1>8. CASE GetLatestBlockhash(r)
    BY <1>0, <1>8, Moves DEF GetLatestBlockhash, server, history, Same, Typed, Progress, Places,
       Waiting, Answers, Reserved, Unsent
  <1>9. ASSUME NEW b \in BOOLEAN, Settle(r, b)
        PROVE  RelayInv'
    BY <1>0, <1>9, Moves DEF Settle, Same, Typed, Progress, Places,
       Waiting, Answers, Reserved, Unsent
  <1>. QED
    BY <1>1, <1>2, <1>3, <1>4, <1>5, <1>6, <1>7, <1>8, <1>9

-----------------------------------------------------------------------------
(* Reserving, sending, releasing.                                          *)

LEMMA ReserveStep ==
    ASSUME RelayInv, NEW r \in Requests, NEW sig \in Signature, Reserve(r, sig)
    PROVE  RelayInv'
  <1>0. Typed /\ Progress /\ Balanced /\ Floor
    BY DEF RelayInv
  <1>1. /\ pc[r] = "read" /\ ~BelowFloor(r) /\ chain[r] = "none"
        /\ chain' = chain /\ late' = late /\ balance' = balance /\ work' = work
    BY <1>0 DEF Reserve, Progress, Unsent
  <1>2. CASE ~SignatureTaken(r, sig)
    <2>1. PICK place \in {"400", "502"} : Goto(r, place)
      BY <1>2 DEF Reserve
    <2>2. UNCHANGED Same
      BY <1>1, <1>2 DEF Reserve, Same
    <2>. QED
      BY <1>0, <1>1, <2>1, <2>2, Moves DEF Typed, Places, Waiting, Answers, Reserved, Unsent
  <1>3. CASE SignatureTaken(r, sig)
    <2>1. PICK place \in {"sending", "blockhash"} : pc' = [pc EXCEPT ![r] = place]
      BY <1>3 DEF Reserve, Goto
    <2>2. /\ outstanding' = outstanding + EstCost
          /\ stale' = IF balance < work[r].before THEN stale \cup {r} ELSE stale
      BY <1>3 DEF Reserve
    <2>3. Typed'
      BY <1>0, <1>1, <2>1, <2>2, Amounts DEF Typed, Places, Waiting
    <2>4. Progress'
      BY <1>0, <1>1, <2>1 DEF Typed, Progress, Unsent
    <2>5. \A q \in Requests : pc'[q] \in Reserved <=> pc[q] \in Reserved \/ q = r
      BY <1>0, <2>1 DEF Typed, Reserved
    <2>6. Holding' = Holding \cup {r} /\ r \notin Holding
      BY <2>5, <1>1 DEF Holding, Reserved
    <2>7. /\ Holding \in SUBSET Requests
          /\ EstCost * Cardinality(Holding') = EstCost * Cardinality(Holding) + EstCost
      BY <1>0, <2>6, SetsOfRequests, OneMore
    <2>8. Balanced'
      BY <1>0, <2>2, <2>7 DEF Balanced
    <2>9. Spent' = Spent
      BY <1>1, <2>2 DEF Spent, Landed
    <2>10. CASE balance < work[r].before
      <3>1. Exposed' = Exposed
        BY <1>1, <2>2, <2>6, <2>10 DEF Exposed
      <3>2. Floor'
        BY <1>0, <1>1, <2>3, <2>9, <3>1, FloorKept DEF Typed
      <3>. QED
        BY <2>3, <2>4, <2>8, <3>2 DEF RelayInv
    <2>11. CASE ~(balance < work[r].before)
      <3>1. work[r].before \in Int /\ balance >= work[r].before
        BY <1>0, <2>11 DEF Typed, Work
      <3>2. balance >= MinLamports + outstanding + EstCost
        BY <1>0, <1>1, <3>1, Amounts DEF BelowFloor, Typed
      <3>3. balance >= MinLamports + EstCost * Cardinality(Holding')
        BY <1>0, <3>2, <2>7, Finite, Times, Amounts DEF Balanced, Typed
      <3>4. Exposed' \in SUBSET Holding' /\ Holding' \in SUBSET Requests
            /\ Spent' \in SUBSET Requests
        BY <2>3, <2>6, <2>7 DEF Exposed, Spent, Typed
      <3>5. EstCost * Cardinality(Exposed') <= EstCost * Cardinality(Holding')
        BY <3>4, Counted
      <3>6. /\ EstCost * Cardinality(Exposed') \in Nat /\ EstCost * Cardinality(Holding') \in Nat
            /\ EstCost * Cardinality(Spent') \in Nat
        BY <3>4, Finite, Times
      <3>7. Floor'
        BY <1>0, <1>1, <3>3, <3>5, <3>6, Amounts DEF Floor, Typed
      <3>. QED
        BY <2>3, <2>4, <2>8, <3>7 DEF RelayInv
    <2>. QED
      BY <2>10, <2>11
  <1>. QED
    BY <1>2, <1>3

LEMMA SendStep ==
    ASSUME RelayInv, NEW r \in Requests, Send(r)
    PROVE  RelayInv'
  <1>0. Typed /\ Progress /\ Balanced /\ Floor
    BY DEF RelayInv
  <1>1. /\ pc[r] = "sending" /\ chain[r] = "none"
        /\ pc' = [pc EXCEPT ![r] = "confirming"] /\ chain' = [chain EXCEPT ![r] = "pending"]
        /\ UNCHANGED <<work, outstanding, balance, stale, late>>
    BY <1>0 DEF Send, Goto, Progress, Unsent, server, history
  <1>2. Typed'
    BY <1>0, <1>1 DEF Typed, Places, Waiting, Fates
  <1>3. Progress'
    BY <1>0, <1>1 DEF Typed, Progress, Unsent
  <1>4. \A q \in Requests : pc'[q] \in Reserved <=> pc[q] \in Reserved
    BY <1>0, <1>1 DEF Typed, Reserved
  <1>5. /\ Holding' = Holding /\ Spent' = Spent /\ Exposed' = Exposed
    <2>1. Holding' = Holding
      BY <1>4 DEF Holding
    <2>2. \A q \in Requests : /\ chain'[q] \in Landed <=> chain[q] \in Landed
                              /\ chain'[q] \in {"none", "pending"} <=> chain[q] \in {"none", "pending"}
      BY <1>0, <1>1 DEF Typed, Landed
    <2>3. stale \cup late \subseteq Requests /\ Holding \subseteq Requests
      BY <1>0 DEF Typed, Holding
    <2>. QED
      BY <1>1, <2>1, <2>2, <2>3 DEF Spent, Exposed
  <1>. QED
    BY <1>0, <1>1, <1>2, <1>3, <1>5 DEF RelayInv, Balanced, Floor

\* One reservation less.
LEMMA Releases ==
    ASSUME Typed, Balanced, NEW r \in Holding, outstanding' = Released, Holding' = Holding \ {r}
    PROVE  Balanced' /\ outstanding' \in Nat
  <1>1. /\ Holding \in SUBSET Requests /\ Holding' \in SUBSET Requests
        /\ EstCost * Cardinality(Holding) = EstCost * Cardinality(Holding') + EstCost
        /\ EstCost * Cardinality(Holding') \in Nat
    BY SetsOfRequests, OneLess, Finite, Times
  <1>. QED
    BY <1>1, Amounts DEF Balanced, Released, Typed

LEMMA FailStep ==
    ASSUME RelayInv, NEW r \in Requests, NEW received \in BOOLEAN, Fail(r, received)
    PROVE  RelayInv'
  <1>0. Typed /\ Progress /\ Balanced /\ Floor
    BY DEF RelayInv
  <1>1. /\ pc[r] \in Reserved /\ pc' = [pc EXCEPT ![r] = "502"]
        /\ chain' = [chain EXCEPT ![r] = IF received THEN "pending" ELSE chain[r]]
        /\ late' = IF pc[r] = "confirming" \/ received THEN late \cup {r} ELSE late
        /\ outstanding' = Released
        /\ UNCHANGED <<work, balance, stale>>
    BY DEF Fail, Goto
  <1>2. /\ received => pc[r] = "sending"
        /\ pc[r] # "confirming" => chain[r] = "none"
    BY <1>0, <1>1 DEF Fail, Progress, Unsent, Reserved
  <1>3. \A q \in Requests : pc'[q] \in Reserved <=> pc[q] \in Reserved /\ q # r
    BY <1>0, <1>1 DEF Typed, Reserved
  <1>4. Holding' = Holding \ {r} /\ r \in Holding
    BY <1>1, <1>3 DEF Holding
  <1>5. Balanced' /\ outstanding' \in Nat
    BY <1>0, <1>1, <1>4, Releases
  <1>6. Typed'
    BY <1>0, <1>1, <1>5 DEF Typed, Places, Answers, Fates
  <1>7. Progress'
    BY <1>0, <1>1, <1>2 DEF Typed, Progress, Unsent
  <1>8. Spent \subseteq Spent'
    BY <1>0, <1>1, <1>2 DEF Spent, Landed, Typed
  <1>9. Exposed' \subseteq Exposed
    BY <1>0, <1>1, <1>4 DEF Exposed, Typed, Holding
  <1>10. Floor'
    BY <1>0, <1>1, <1>6, <1>8, <1>9, FloorKept DEF Typed
  <1>. QED
    BY <1>5, <1>6, <1>7, <1>10 DEF RelayInv

LEMMA ConfirmStep ==
    ASSUME RelayInv, NEW r \in Requests, Confirm(r)
    PROVE  RelayInv'
  <1>0. Typed /\ Progress /\ Balanced /\ Floor
    BY DEF RelayInv
  <1>1. /\ pc[r] = "confirming" /\ chain[r] \in Landed /\ pc' = [pc EXCEPT ![r] = "settling"]
        /\ outstanding' = Released
        /\ UNCHANGED <<work, chain, balance, stale, late>>
    BY DEF Confirm, Goto, history
  <1>3. \A q \in Requests : pc'[q] \in Reserved <=> pc[q] \in Reserved /\ q # r
    BY <1>0, <1>1 DEF Typed, Reserved
  <1>4. Holding' = Holding \ {r} /\ r \in Holding
    BY <1>1, <1>3 DEF Holding, Reserved
  <1>5. Balanced' /\ outstanding' \in Nat
    BY <1>0, <1>1, <1>4, Releases
  <1>6. Typed'
    BY <1>0, <1>1, <1>5 DEF Typed, Places, Waiting
  <1>7. Progress'
    BY <1>0, <1>1 DEF Typed, Progress, Unsent, Landed
  <1>8. Spent' = Spent /\ Exposed' \subseteq Exposed
    BY <1>1, <1>4 DEF Spent, Exposed
  <1>9. Floor'
    BY <1>0, <1>1, <1>6, <1>8, FloorKept DEF Typed
  <1>. QED
    BY <1>5, <1>6, <1>7, <1>9 DEF RelayInv

-----------------------------------------------------------------------------
(* The chain and the process.                                              *)

\* What lands was either watched, and then its reservation protected the
\* floor, or is one of those the floor gives way for.
LEMMA LandStep ==
    ASSUME RelayInv, NEW r \in Requests, NEW fate \in Landed,
           NEW cost \in Costs \cup {FeeEst}, Land(r, fate, cost)
    PROVE  RelayInv'
  <1>0. Typed /\ Progress /\ Balanced /\ Floor
    BY DEF RelayInv
  <1>1. /\ chain[r] = "pending" /\ chain' = [chain EXCEPT ![r] = fate]
        /\ balance' = balance - cost
        /\ UNCHANGED <<pc, work, outstanding, stale, late>>
    BY DEF Land, server, history
  <1>2. cost \in Int /\ cost <= EstCost
    BY Amounts
  <1>3. Typed'
    BY <1>0, <1>1, <1>2 DEF Typed, Landed, Fates
  <1>4. Progress'
    BY <1>0, <1>1 DEF Typed, Progress, Unsent, Landed
  <1>5. Holding' = Holding /\ Balanced'
    BY <1>0, <1>1 DEF Holding, Balanced
  <1>6. /\ Spent \in SUBSET Requests /\ Spent' \in SUBSET Requests
        /\ Exposed \in SUBSET Requests /\ Exposed' \in SUBSET Requests
    BY <1>0, <1>3, SetsOfRequests DEF Typed, Spent, Exposed, Holding
  <1>7. /\ EstCost * Cardinality(Spent) \in Nat /\ EstCost * Cardinality(Spent') \in Nat
        /\ EstCost * Cardinality(Exposed) \in Nat /\ EstCost * Cardinality(Exposed') \in Nat
    BY <1>6, Finite, Times
  <1>8. CASE r \in stale \cup late
    <2>1. Spent' = Spent \cup {r} /\ r \notin Spent
      BY <1>0, <1>1, <1>8 DEF Spent, Typed, Landed
    <2>2. EstCost * Cardinality(Spent') = EstCost * Cardinality(Spent) + EstCost
      BY <1>6, <2>1, OneMore
    <2>3. Exposed' = Exposed
      BY <1>0, <1>1, <1>5, <1>8 DEF Exposed, Typed
    <2>4. Floor'
      BY <1>0, <1>1, <1>2, <1>7, <2>2, <2>3, Amounts DEF Floor, Typed
    <2>. QED
      BY <1>3, <1>4, <1>5, <2>4 DEF RelayInv
  <1>9. CASE r \notin stale \cup late
    <2>1. r \in Exposed
      BY <1>0, <1>1, <1>9 DEF Exposed, Holding, Progress, Reserved
    <2>2. Exposed' = Exposed \ {r}
      BY <1>0, <1>1, <1>5, <1>9 DEF Exposed, Typed, Landed, Holding
    <2>3. EstCost * Cardinality(Exposed) = EstCost * Cardinality(Exposed') + EstCost
      BY <1>6, <2>1, <2>2, OneLess
    <2>4. Spent' = Spent
      BY <1>0, <1>1, <1>9 DEF Spent, Typed
    <2>5. Floor'
      BY <1>0, <1>1, <1>2, <1>7, <2>3, <2>4, Amounts DEF Floor, Typed
    <2>. QED
      BY <1>3, <1>4, <1>5, <2>5 DEF RelayInv
  <1>. QED
    BY <1>8, <1>9

LEMMA ExpireStep ==
    ASSUME RelayInv, NEW r \in Requests, Expire(r)
    PROVE  RelayInv'
  <1>0. Typed /\ Progress /\ Balanced /\ Floor
    BY DEF RelayInv
  <1>1. /\ chain[r] = "pending" /\ chain' = [chain EXCEPT ![r] = "dropped"]
        /\ UNCHANGED <<pc, work, balance, outstanding, stale, late>>
    BY DEF Expire, server, history
  <1>2. Typed'
    BY <1>0, <1>1 DEF Typed, Fates
  <1>3. Progress'
    BY <1>0, <1>1 DEF Typed, Progress, Unsent
  <1>4. Holding' = Holding /\ Balanced'
    BY <1>0, <1>1 DEF Holding, Balanced
  <1>5. Spent \subseteq Spent' /\ Exposed' \subseteq Exposed
    BY <1>0, <1>1, <1>4 DEF Spent, Exposed, Typed, Landed, Holding
  <1>6. Floor'
    BY <1>0, <1>1, <1>2, <1>5, FloorKept DEF Typed
  <1>. QED
    BY <1>2, <1>3, <1>4, <1>6 DEF RelayInv

LEMMA RestartStep ==
    ASSUME RelayInv, Restart
    PROVE  RelayInv'
  <1>0. Typed /\ Progress /\ Balanced /\ Floor
    BY DEF RelayInv
  <1>1. /\ pc' = [r \in Requests |-> IF pc[r] \in Waiting THEN "lost" ELSE pc[r]]
        /\ late' = late \cup { r \in Requests : chain[r] = "pending" }
        /\ outstanding' = 0 /\ UNCHANGED <<work, chain, balance, stale>>
    BY DEF Restart
  <1>2. Typed'
    BY <1>0, <1>1 DEF Typed, Places, Answers
  <1>3. Progress'
    BY <1>0, <1>1 DEF Typed, Progress, Unsent
  <1>4. Holding' = {}
    BY <1>0, <1>1 DEF Typed, Holding, Waiting, Reserved
  <1>5. Balanced'
    BY <1>1, <1>4, FS_EmptySet, Amounts DEF Balanced
  <1>6. Spent \subseteq Spent' /\ Exposed' \subseteq Exposed
    BY <1>1, <1>4 DEF Spent, Exposed
  <1>7. Floor'
    BY <1>0, <1>1, <1>2, <1>6, FloorKept DEF Typed
  <1>. QED
    BY <1>2, <1>3, <1>5, <1>7 DEF RelayInv

LEMMA RelayStart ==
    ASSUME Init
    PROVE  RelayInv
  <1>1. Typed
    BY Amounts DEF Init, Typed, Places, Fates, Work, NoWork
  <1>2. Progress
    BY DEF Init, Progress
  <1>3. Holding = {} /\ Spent = {} /\ Exposed = {}
    BY DEF Init, Holding, Spent, Exposed, Reserved
  <1>. QED
    BY <1>1, <1>2, <1>3, FS_EmptySet, Amounts DEF Init, RelayInv, Balanced, Floor

LEMMA RelayStep == RelayInv /\ [Next]_vars => RelayInv'
  <1>. SUFFICES ASSUME RelayInv, [Next]_vars
                PROVE  RelayInv'
    OBVIOUS
  <1>1. CASE UNCHANGED vars
    BY <1>1, Rests DEF vars, server, history, Same
  <1>2. ASSUME NEW b \in BOOLEAN, RelayerPubkey(b)
        PROVE  RelayInv'
    BY <1>2, Rests DEF RelayerPubkey, server, Same
  <1>3. ASSUME NEW r \in Requests, SelfPay(r) \/ Handle(r)
        PROVE  RelayInv'
    BY <1>3, QuietSteps, ReserveStep, SendStep, FailStep, ConfirmStep DEF Handle
  <1>4. ASSUME NEW r \in Requests, Expire(r)
        PROVE  RelayInv'
    BY <1>4, ExpireStep
  <1>5. ASSUME NEW r \in Requests, NEW c \in Costs, Land(r, IF c < 0 THEN "refund" ELSE "ok", c)
        PROVE  RelayInv'
    BY <1>5, LandStep DEF Landed
  <1>6. ASSUME NEW r \in Requests, Land(r, "err", FeeEst)
        PROVE  RelayInv'
    BY <1>6, LandStep DEF Landed
  <1>7. CASE Restart
    BY <1>7, RestartStep
  <1>8. CASE Tick
    BY <1>8, Rests DEF Tick, server, history, Same
  <1>. QED
    BY <1>1, <1>2, <1>3, <1>4, <1>5, <1>6, <1>7, <1>8 DEF Next

-----------------------------------------------------------------------------
(* The theorems.                                                           *)

\* The invariant of the relayer (route.ts:150-280).
THEOREM RelayInvariant == Spec => []RelayInv
  <1>1. Init => RelayInv
    BY RelayStart
  <1>. QED
    BY <1>1, RelayStep, PTL DEF Spec

\* The clock and the books of the day.
LEMMA BooksStep ==
    ASSUME RelayInv, RelayerTypeOK, [Next]_vars
    PROVE  /\ now' \in 0..MaxTime /\ dayKey' \in Int /\ dayCount' \in Nat /\ daySpent' \in Nat
           /\ DOMAIN hits' = DOMAIN hits
  <1>0. /\ now \in 0..MaxTime /\ dayKey \in Int /\ dayCount \in Nat /\ daySpent \in Nat
        /\ work \in [Requests -> Work] /\ balance \in Int
    BY DEF RelayerTypeOK, RelayInv, Typed
  <1>1. MaxTime \in Nat /\ DayLength \in Nat \ {0} /\ FeeEst \in Nat
    BY RelayerAssumption
  <1>2. Today \in Int /\ CountToday \in Nat /\ SpentToday \in Nat
    BY <1>0, <1>1 DEF Today, CountToday, SpentToday
  <1>3. CASE \E r \in Requests : \/ Receive(r) \/ SelfPay(r) \/ Malformed(r) \/ ReadBalance(r)
                                \/ BalanceFails(r) \/ GetLatestBlockhash(r) \/ Send(r) \/ Confirm(r)
                                \/ Expire(r) \/ \E b \in BOOLEAN : Fail(r, b)
    BY <1>0, <1>3 DEF Receive, SelfPay, Malformed, ReadBalance, BalanceFails,
       GetLatestBlockhash, Send, Confirm, Expire, Fail, server, history
  <1>4. CASE \E r \in Requests : \/ Refuse(r) \/ \E s \in Shapes : Validate(r, s)
                                \/ \E g \in Signature : Reserve(r, g)
    BY <1>0, <1>2, <1>4 DEF Refuse, Validate, Reserve, StartDay, SameDay
  <1>5. ASSUME NEW r \in Requests, NEW b \in BOOLEAN, Settle(r, b)
        PROVE  /\ now' \in 0..MaxTime /\ dayKey' \in Int /\ dayCount' \in Nat /\ daySpent' \in Nat
               /\ DOMAIN hits' = DOMAIN hits
    <2>1. work[r].before \in Int
      BY <1>0 DEF Work
    <2>. QED
      BY <1>0, <1>1, <1>2, <1>5, <2>1 DEF Settle
  <1>6. CASE \E r \in Requests : \/ \E c \in Costs : Land(r, IF c < 0 THEN "refund" ELSE "ok", c)
                                \/ Land(r, "err", FeeEst)
    BY <1>0, <1>6 DEF Land, server
  <1>7. CASE Tick \/ \E b \in BOOLEAN : RelayerPubkey(b)
    BY <1>0, <1>1, <1>7 DEF Tick, RelayerPubkey, server
  <1>8. CASE Restart
    BY <1>0, <1>8 DEF Restart
  <1>9. CASE UNCHANGED vars
    BY <1>0, <1>9 DEF vars, server
  <1>. QED
    BY <1>3, <1>4, <1>5, <1>6, <1>7, <1>8, <1>9 DEF Next, Handle

\* Every reservation is a handler's in flight, and each of the ways out of the
\* handler gives it back once (route.ts:191, 218-276).
THEOREM ReservationsBalancedAlways == Spec => []ReservationsBalanced
  <1>1. Init => RelayerTypeOK
    BY RelayerAssumption DEF Init, RelayerTypeOK, Fates
  <1>2. RelayInv /\ RelayerTypeOK /\ RelayInv' /\ [Next]_vars => RelayerTypeOK'
    BY BooksStep DEF RelayerTypeOK, RelayInv, Typed, Places
  <1>3. RelayInv /\ RelayerTypeOK => ReservationsBalanced
    BY DEF RelayInv, Balanced, Holding, ReservationsBalanced
  <1>. QED
    BY <1>1, <1>2, <1>3, RelayInvariant, PTL DEF Spec

\* The floor under the wallet (route.ts:181-188) gives way by one worst case for
\* each request that was admitted on a stale balance or given up and no more,
\* however many run at a time, if the wallet starts above it.
THEOREM FloorHoldsAlways ==
    ASSUME Funds >= MinLamports
    PROVE  Spec => []FloorHolds
  <1>1. ASSUME RelayInv
        PROVE  FloorHolds
    <2>1. Typed /\ Floor
      BY <1>1 DEF RelayInv
    <2>2. /\ stale \cup late \in SUBSET Requests /\ Spent \in SUBSET (stale \cup late)
          /\ Exposed \in SUBSET Requests
      BY <2>1, SetsOfRequests DEF Typed, Spent
    <2>3. EstCost * Cardinality(Spent) <= EstCost * Cardinality(stale \cup late)
      BY <2>2, Counted
    <2>4. /\ EstCost * Cardinality(Spent) \in Nat /\ EstCost * Cardinality(stale \cup late) \in Nat
          /\ EstCost * Cardinality(Exposed) \in Nat
      BY <2>2, Finite, Times
    <2>. QED
      BY <2>1, <2>3, <2>4, Amounts DEF FloorHolds, Floor, Ground, Typed
  <1>. QED
    BY <1>1, RelayInvariant, PTL

-----------------------------------------------------------------------------
(* The books.  What the wallet lost is looked at level by level: a level is  *)
(* one lamport of the balance, between the present one and the day's first.  *)

Flying == { r \in Requests : pc[r] \in {"read", "settling"} \cup Reserved }
Before(r) == work[r].before

Refunded == { r \in Requests : chain[r] = "refund" }
Charged  == { r \in Requests :
                /\ chain[r] \in Landed \ {"refund"}
                /\ pc[r] # "signature" \/ r \in unread }

Small(X) == IsFiniteSet(X) /\ Cardinality(X) <= EstCost

\* Level x was booked, or crossed by the transaction of somebody in S.
Known(B, K, S, x) == x \in B \/ \E s \in S : x \in K[s]

\* B is what was booked today; K[r] what the transaction of r crossed: upwards
\* for a refund; else downwards, apart from what lies above the balance r read.
Accounts(B, K) ==
    /\ IsFiniteSet(B) /\ Cardinality(B) <= daySpent
    /\ \A r \in Requests : Small(K[r])

Covered(B, K) ==
    \A x \in Int : balance < x /\ x <= base => Known(B, K, Refunded \cup Charged, x)

CoveredOnRead(B, K) ==
    \A r \in Flying, x \in Int :
        Before(r) < x /\ x <= base => Known(B, K, Refunded \cup (Charged \ {r}), x)

Crossed(K) ==
    \A r \in Flying \cap Charged : \A x \in K[r] :
        x <= Before(r) /\ (balance < x \/ Known({}, K, Refunded, x))

Raised(K) ==
    \A r \in Flying, x \in Int :
        Before(r) < x /\ x <= balance => Known({}, K, Refunded, x)

Ledger(B, K) ==
    Accounts(B, K) /\ Covered(B, K) /\ CoveredOnRead(B, K) /\ Crossed(K) /\ Raised(K)

BooksTyped == daySpent \in Nat /\ base \in Int

BooksInv ==
    /\ BooksTyped
    /\ \E B \in SUBSET Int, K \in [Requests -> SUBSET Int] : Ledger(B, K)

\* The requests in flight keep what they read.
StillFlying ==
    /\ Flying' \subseteq Flying
    /\ \A r \in Flying' : Before(r)' = Before(r)

LEMMA BooksKept ==
    ASSUME BooksInv, UNCHANGED <<balance, daySpent, base>>,
           Refunded' = Refunded, Charged' = Charged, StillFlying
    PROVE  BooksInv'
<1>1. PICK B \in SUBSET Int, K \in [Requests -> SUBSET Int] : Ledger(B, K)
  BY DEF BooksInv
<1>2. Accounts(B, K)' /\ Covered(B, K)'
  BY <1>1 DEF Ledger, Accounts, Covered, Known
<1>3. CoveredOnRead(B, K)' /\ Crossed(K)' /\ Raised(K)'
  BY <1>1 DEF Ledger, CoveredOnRead, Crossed, Raised, Known, StillFlying
<1>4. BooksTyped'
  BY DEF BooksInv, BooksTyped
<1> QED BY <1>2, <1>3, <1>4 DEF BooksInv, Ledger

\* A new day, or a new process: the present balance is the day's first.
LEMMA BooksOpened ==
    ASSUME BooksInv, balance \in Int, balance' = balance, daySpent' = 0, base' = balance,
           Refunded' = Refunded, Charged' \subseteq Charged, StillFlying
    PROVE  BooksInv'
<1>1. PICK B \in SUBSET Int, K \in [Requests -> SUBSET Int] : Ledger(B, K)
  BY DEF BooksInv
<1>2. Accounts({}, K)'
  BY <1>1, FS_EmptySet DEF Ledger, Accounts
<1>3. Covered({}, K)'
  BY DEF Covered
<1>4. CoveredOnRead({}, K)'
  BY <1>1 DEF Ledger, CoveredOnRead, Raised, Known, StillFlying
<1>5. Crossed(K)' /\ Raised(K)'
  BY <1>1 DEF Ledger, Crossed, Raised, Known, StillFlying
<1>6. BooksTyped'
  BY DEF BooksTyped
<1> QED BY <1>2, <1>3, <1>4, <1>5, <1>6 DEF BooksInv, Ledger

\* A handler reads the balance: what it misses of the day's first is known.
LEMMA BooksRead ==
    ASSUME BooksInv, Typed, NEW r \in Requests, pc[r] = "balance",
           UNCHANGED <<balance, daySpent, base>>, Refunded' = Refunded, Charged' = Charged,
           r \notin Charged, Flying' = Flying \cup {r}, Before(r)' = balance,
           \A q \in Flying : Before(q)' = Before(q)
    PROVE  BooksInv'
<1>1. PICK B \in SUBSET Int, K \in [Requests -> SUBSET Int] : Ledger(B, K)
  BY DEF BooksInv
<1>2. Accounts(B, K)' /\ Covered(B, K)'
  BY <1>1 DEF Ledger, Accounts, Covered, Known
<1>3. r \notin Flying /\ Charged \ {r} = Charged
  BY DEF Flying, Reserved
<1>4. CoveredOnRead(B, K)'
  <2> SUFFICES ASSUME NEW q \in Flying', NEW x \in Int, Before(q)' < x, x <= base
               PROVE  Known(B, K, Refunded \cup (Charged \ {q}), x)
    BY DEF CoveredOnRead
  <2>1. CASE q = r
    BY <1>1, <1>3, <2>1 DEF Ledger, Covered
  <2>2. CASE q # r
    BY <1>1, <2>2 DEF Ledger, CoveredOnRead
  <2> QED BY <2>1, <2>2
<1>5. Crossed(K)'
  BY <1>1 DEF Ledger, Crossed, Known
<1>6. Raised(K)'
  <2> SUFFICES ASSUME NEW q \in Flying', NEW x \in Int, Before(q)' < x, x <= balance
               PROVE  Known({}, K, Refunded, x)
    BY DEF Raised
  <2>1. q # r
    BY DEF Typed
  <2> QED BY <1>1, <2>1 DEF Ledger, Raised
<1>7. BooksTyped'
  BY DEF BooksInv, BooksTyped
<1> QED BY <1>2, <1>4, <1>5, <1>6, <1>7 DEF BooksInv, Ledger

\* As many levels as lamports.
LEMMA SmallInterval ==
    ASSUME NEW a \in Int, NEW n \in Nat
    PROVE  IsFiniteSet(a + 1 .. a + n) /\ Cardinality(a + 1 .. a + n) = n
  BY FS_Interval

\* A transaction that takes lamports crosses as many levels, downwards.
LEMMA BooksCharged ==
    ASSUME BooksInv, Typed, NEW r \in Requests, NEW cost \in 0 .. EstCost,
           r \notin Charged, r \notin Refunded, balance' = balance - cost,
           UNCHANGED <<daySpent, base>>, Refunded' = Refunded, Charged' = Charged \cup {r},
           Flying' = Flying, \A q \in Flying : Before(q)' = Before(q)
    PROVE  BooksInv'
<1>0. balance \in Int /\ cost \in Int /\ EstCost \in Nat
  BY Amounts DEF Typed
<1>1. PICK B \in SUBSET Int, K \in [Requests -> SUBSET Int] : Ledger(B, K)
  BY DEF BooksInv
<1> DEFINE All == balance - cost + 1 .. balance - cost + cost
           Down == { x \in All : r \in Flying => x <= Before(r) }
<1>2. IsFiniteSet(All) /\ Cardinality(All) = cost
  <2>1. balance - cost \in Int /\ cost \in Nat
    BY <1>0
  <2> QED BY <2>1, SmallInterval
<1>3. PICK Own \in SUBSET Int : Own = Down
  <2>1. Down \in SUBSET Int
    BY <1>0
  <2> HIDE DEF Down
  <2> QED BY <2>1
<1>4. Small(Own)
  <2>1. IsFiniteSet(Down) /\ Cardinality(Down) <= Cardinality(All) /\ Cardinality(Down) \in Nat
    BY <1>2, FS_Subset, FS_CardinalityType
  <2> QED BY <1>0, <1>2, <1>3, <2>1 DEF Small
<1>5. \A x \in Int : balance - cost < x /\ x <= balance => x \in Own \/ (r \in Flying /\ Before(r) < x)
  <2>1. r \in Flying => Before(r) \in Int
    BY DEF Typed, Work, Before, Flying
  <2> QED BY <1>0, <1>3, <2>1
<1>6. \A x \in Own : /\ balance - cost < x /\ x <= balance
                     /\ r \in Flying => x <= Before(r)
  BY <1>0, <1>3
<1> HIDE DEF Down, All
<1>7. PICK L \in [Requests -> SUBSET Int] :
         L[r] = Own /\ \A s \in Requests : s # r => L[s] = K[s]
  <2> WITNESS [K EXCEPT ![r] = Own] \in [Requests -> SUBSET Int]
  <2> QED OBVIOUS
<1>8. Refunded \subseteq Requests /\ Charged \subseteq Requests
  BY DEF Refunded, Charged
<1>9. \A x : Known({}, K, Refunded, x) => Known({}, L, Refunded, x)
  BY <1>7, <1>8 DEF Known
<1>10. Accounts(B, L)'
  BY <1>1, <1>4, <1>7 DEF Ledger, Accounts, Small
<1>11. Covered(B, L)'
  <2> SUFFICES ASSUME NEW x \in Int, balance - cost < x, x <= base
               PROVE  Known(B, L, Refunded \cup (Charged \cup {r}), x)
    BY DEF Covered
  <2>1. CASE balance < x
    BY <1>1, <1>7, <1>8, <2>1 DEF Ledger, Covered, Known
  <2>2. CASE x \in Own
    BY <1>7, <2>2 DEF Known
  <2>3. CASE r \in Flying /\ Before(r) < x /\ x <= balance
    BY <1>1, <1>7, <1>8, <2>3 DEF Ledger, Raised, Known
  <2> QED BY <1>0, <1>5, <2>1, <2>2, <2>3
<1>12. CoveredOnRead(B, L)'
  BY <1>1, <1>7, <1>8 DEF Ledger, CoveredOnRead, Known
<1>13. Crossed(L)'
  <2> SUFFICES ASSUME NEW q \in Flying, q \in Charged \cup {r}, NEW x \in L[q]
               PROVE  x <= Before(q) /\ (balance - cost < x \/ Known({}, L, Refunded, x))
    BY DEF Crossed
  <2>1. CASE q = r
    BY <1>6, <1>7, <2>1
  <2>2. CASE q # r
    <3>1. q \in Requests /\ x \in K[q] /\ x \in Int
      BY <1>7, <1>8, <2>2
    <3>2. x <= Before(q) /\ (balance < x \/ Known({}, K, Refunded, x))
      BY <1>1, <2>2, <3>1 DEF Ledger, Crossed
    <3> QED BY <1>0, <1>9, <3>1, <3>2
  <2> QED BY <2>1, <2>2
<1>14. Raised(L)'
  <2> SUFFICES ASSUME NEW q \in Flying, NEW x \in Int, Before(q) < x, x <= balance - cost
               PROVE  Known({}, L, Refunded, x)
    BY DEF Raised
  <2>1. x <= balance
    BY <1>0
  <2> QED BY <1>1, <1>9, <2>1 DEF Ledger, Raised
<1>15. BooksTyped'
  BY DEF BooksInv, BooksTyped
<1> QED BY <1>7, <1>10, <1>11, <1>12, <1>13, <1>14, <1>15 DEF BooksInv, Ledger

\* A refund crosses them upwards.
LEMMA BooksRefunded ==
    ASSUME BooksInv, Typed, NEW r \in Requests, NEW gain \in 0 .. EstCost,
           r \notin Charged, r \notin Refunded, balance' = balance + gain,
           UNCHANGED <<daySpent, base>>, Refunded' = Refunded \cup {r}, Charged' = Charged,
           Flying' = Flying, \A q \in Flying : Before(q)' = Before(q)
    PROVE  BooksInv'
<1>0. balance \in Int /\ gain \in Nat /\ EstCost \in Nat
  BY Amounts DEF Typed
<1>1. PICK B \in SUBSET Int, K \in [Requests -> SUBSET Int] : Ledger(B, K)
  BY DEF BooksInv
<1>2. PICK Own \in SUBSET Int : Own = balance + 1 .. balance + gain
  BY <1>0
<1>3. Small(Own) /\ \A x \in Int : balance < x /\ x <= balance + gain => x \in Own
  <2>1. IsFiniteSet(Own) /\ Cardinality(Own) = gain
    BY <1>0, <1>2, SmallInterval
  <2> QED BY <1>0, <1>2, <2>1 DEF Small
<1>4. PICK L \in [Requests -> SUBSET Int] :
         L[r] = Own /\ \A s \in Requests : s # r => L[s] = K[s]
  <2> WITNESS [K EXCEPT ![r] = Own] \in [Requests -> SUBSET Int]
  <2> QED OBVIOUS
<1>5. Refunded \subseteq Requests /\ Charged \subseteq Requests
  BY DEF Refunded, Charged
<1>6. \A x : Known({}, K, Refunded, x) => Known({}, L, Refunded \cup {r}, x)
  BY <1>4, <1>5 DEF Known
<1>7. \A x \in Own : Known({}, L, Refunded \cup {r}, x)
  BY <1>4 DEF Known
<1>8. Accounts(B, L)'
  BY <1>1, <1>3, <1>4 DEF Ledger, Accounts, Small
<1>9. Covered(B, L)'
  BY <1>0, <1>1, <1>4, <1>5 DEF Ledger, Covered, Known
<1>10. CoveredOnRead(B, L)'
  BY <1>1, <1>4, <1>5 DEF Ledger, CoveredOnRead, Known
<1>11. Crossed(L)'
  <2> SUFFICES ASSUME NEW q \in Flying, q \in Charged, NEW x \in L[q]
               PROVE  /\ x <= Before(q)
                      /\ balance + gain < x \/ Known({}, L, Refunded \cup {r}, x)
    BY DEF Crossed
  <2>1. q \in Requests /\ x \in K[q] /\ x \in Int
    BY <1>4, <1>5
  <2>2. x <= Before(q) /\ (balance < x \/ Known({}, K, Refunded, x))
    BY <1>1, <2>1 DEF Ledger, Crossed
  <2>3. CASE balance < x /\ x <= balance + gain
    <3>1. x \in Own
      BY <1>3, <2>1, <2>3
    <3> QED BY <1>7, <2>2, <3>1
  <2>5. CASE balance + gain < x
    BY <2>2, <2>5
  <2>4. CASE Known({}, K, Refunded, x)
    BY <1>6, <2>2, <2>4
  <2> QED BY <1>0, <2>1, <2>2, <2>3, <2>4, <2>5
<1>12. Raised(L)'
  <2> SUFFICES ASSUME NEW q \in Flying, NEW x \in Int, Before(q) < x, x <= balance + gain
               PROVE  Known({}, L, Refunded \cup {r}, x)
    BY DEF Raised
  <2>1. CASE x <= balance
    BY <1>1, <1>6, <2>1 DEF Ledger, Raised
  <2>2. CASE balance < x
    BY <1>3, <1>7, <2>2
  <2> QED BY <1>0, <2>1, <2>2
<1>13. BooksTyped'
  BY DEF BooksInv, BooksTyped
<1> QED BY <1>4, <1>8, <1>9, <1>10, <1>11, <1>12, <1>13 DEF BooksInv, Ledger

\* A loss is booked: the levels between the balance read before and the present
\* one.  What the transaction crossed is among them, or a refund crossed it back.
LEMMA BooksBooked ==
    ASSUME BooksInv, Typed, NEW r \in Flying, NEW spent \in Nat,
           r \notin Charged' => Before(r) - balance <= spent,
           UNCHANGED <<balance, base>>, daySpent' = daySpent + spent,
           Refunded' = Refunded, Charged \ {r} \subseteq Charged', Charged' \subseteq Charged,
           Flying' = Flying \ {r}, \A q \in Flying : Before(q)' = Before(q)
    PROVE  BooksInv'
<1>0. balance \in Int /\ daySpent \in Nat /\ Before(r) \in Int
  BY DEF Typed, Work, Before, Flying, BooksInv, BooksTyped
<1>1. PICK B \in SUBSET Int, K \in [Requests -> SUBSET Int] : Ledger(B, K)
  BY DEF BooksInv
<1>2. PICK New \in SUBSET Int : New = balance + 1 .. balance + spent
  BY <1>0
<1>3. /\ IsFiniteSet(New) /\ Cardinality(New) = spent
      /\ r \notin Charged' => \A x \in Int : balance < x /\ x <= Before(r) => x \in New
  <2>1. IsFiniteSet(New) /\ Cardinality(New) = spent
    BY <1>0, <1>2, SmallInterval
  <2>2. ASSUME r \notin Charged', NEW x \in Int, balance < x, x <= Before(r) PROVE x \in New
    <3>1. Before(r) - balance <= spent
      BY <2>2
    <3> QED BY <1>0, <1>2, <2>2, <3>1
  <2> QED BY <2>1, <2>2
<1> DEFINE C == B \cup New
<1>4. IsFiniteSet(C) /\ Cardinality(C) <= daySpent + spent
  <2>1. IsFiniteSet(B) /\ Cardinality(B) <= daySpent
    BY <1>1 DEF Ledger, Accounts
  <2>2. /\ IsFiniteSet(C) /\ Cardinality(C) = Cardinality(B) + spent - Cardinality(B \cap New)
        /\ Cardinality(B) \in Nat
    BY <1>3, <2>1, FS_Union, FS_CardinalityType
  <2>3. Cardinality(B \cap New) \in Nat
    BY <2>1, FS_Intersection, FS_CardinalityType
  <2> QED BY <1>0, <2>1, <2>2, <2>3
<1>5. C \in SUBSET Int /\ B \subseteq C /\ New \subseteq C
  OBVIOUS
<1> HIDE DEF C
<1>6. \A S, x : Known({}, K, S, x) => Known(C, K, S, x)
  BY DEF Known
<1>7. \A S, x : Known(B, K, S, x) => Known(C, K, S, x)
  BY <1>5 DEF Known
\* A level that only r is known to have crossed.
<1>8. ASSUME NEW x \in Int, r \in Charged, r \notin Charged', x \in K[r]
      PROVE  Known(C, K, Refunded, x)
  <2>1. x <= Before(r) /\ (balance < x \/ Known({}, K, Refunded, x))
    BY <1>1, <1>8 DEF Ledger, Crossed
  <2> QED BY <1>3, <1>5, <1>6, <1>8, <2>1 DEF Known
<1>9. \A x \in Int : Known(B, K, Refunded \cup Charged, x) => Known(C, K, Refunded \cup Charged', x)
  BY <1>5, <1>8 DEF Known
<1>10. \A x \in Int, q \in Flying \ {r} :
          Known(B, K, Refunded \cup (Charged \ {q}), x) => Known(C, K, Refunded \cup (Charged' \ {q}), x)
  BY <1>5, <1>8 DEF Known
<1>11. Accounts(C, K)'
  BY <1>1, <1>4 DEF Ledger, Accounts
<1>12. Covered(C, K)'
  BY <1>1, <1>9 DEF Ledger, Covered
<1>13. CoveredOnRead(C, K)'
  BY <1>1, <1>10 DEF Ledger, CoveredOnRead
<1>14. Crossed(K)' /\ Raised(K)'
  BY <1>1 DEF Ledger, Crossed, Raised
<1>15. BooksTyped'
  BY <1>0 DEF BooksInv, BooksTyped
<1> QED BY <1>5, <1>11, <1>12, <1>13, <1>14, <1>15 DEF BooksInv, Ledger

\* An estimate is booked for a loss that stays unknown.
LEMMA BooksGrow ==
    ASSUME BooksInv, NEW spent \in Nat, UNCHANGED <<balance, base>>, daySpent' = daySpent + spent,
           Refunded' = Refunded, Charged' = Charged, StillFlying
    PROVE  BooksInv'
<1>1. PICK B \in SUBSET Int, K \in [Requests -> SUBSET Int] : Ledger(B, K)
  BY DEF BooksInv
<1>2. IsFiniteSet(B) /\ Cardinality(B) \in Nat /\ Cardinality(B) <= daySpent /\ daySpent \in Nat
  BY <1>1, FS_CardinalityType DEF Ledger, Accounts, BooksInv, BooksTyped
<1>3. Accounts(B, K)'
  BY <1>1, <1>2 DEF Ledger, Accounts
<1>4. Covered(B, K)'
  BY <1>1 DEF Ledger, Covered, Known
<1>5. CoveredOnRead(B, K)' /\ Crossed(K)' /\ Raised(K)'
  BY <1>1 DEF Ledger, CoveredOnRead, Crossed, Raised, Known, StillFlying
<1>6. BooksTyped'
  BY <1>2 DEF BooksInv, BooksTyped
<1> QED BY <1>3, <1>4, <1>5, <1>6 DEF BooksInv, Ledger

\* A handler goes on, or ends, without touching books or balance.
LEMMA BooksRest ==
    ASSUME BooksInv, Typed, NEW r \in Requests, NEW place,
           Goto(r, place), \A q \in Requests : Before(q)' = Before(q),
           UNCHANGED <<chain, balance, daySpent, base, unread>>,
           pc[r] # "signature", place # "signature",
           place \in {"read", "settling"} \cup Reserved =>
               pc[r] \in {"read", "settling"} \cup Reserved
    PROVE  BooksInv'
<1>1. \A q \in Requests : pc'[q] = IF q = r THEN place ELSE pc[q]
  BY DEF Goto, Typed
<1>2. StillFlying
  BY <1>1 DEF StillFlying, Flying
<1>3. Refunded' = Refunded /\ Charged' = Charged
  BY <1>1 DEF Refunded, Charged
<1> QED BY <1>2, <1>3, BooksKept

\* The same with newDay() on its way.
LEMMA BooksRestDay ==
    ASSUME BooksInv, Typed, NEW r \in Requests, NEW place,
           Goto(r, place), \A q \in Requests : Before(q)' = Before(q),
           UNCHANGED <<chain, balance, unread>>, StartDay \/ SameDay,
           pc[r] # "signature", place # "signature",
           place \in {"read", "settling"} \cup Reserved =>
               pc[r] \in {"read", "settling"} \cup Reserved
    PROVE  BooksInv'
<1>1. \A q \in Requests : pc'[q] = IF q = r THEN place ELSE pc[q]
  BY DEF Goto, Typed
<1>2. StillFlying
  BY <1>1 DEF StillFlying, Flying
<1>3. Refunded' = Refunded /\ Charged' = Charged
  BY <1>1 DEF Refunded, Charged
<1>4. CASE StartDay /\ NewDay
  <2>1. daySpent' = 0 /\ base' = balance /\ balance \in Int /\ balance' = balance
    BY <1>4 DEF StartDay, SpentToday, Typed
  <2> QED BY <1>2, <1>3, <2>1, BooksOpened
<1>5. CASE SameDay \/ ~NewDay
  <2>1. UNCHANGED <<balance, daySpent, base>>
    BY <1>5 DEF StartDay, SpentToday, SameDay
  <2> QED BY <1>2, <1>3, <2>1, BooksKept
<1> QED BY <1>4, <1>5

LEMMA BooksQuiet ==
    ASSUME BooksInv, Typed, NEW r \in Requests,
           \/ SelfPay(r) \/ Receive(r) \/ Malformed(r) \/ BalanceFails(r)
           \/ GetLatestBlockhash(r) \/ Confirm(r)
    PROVE  BooksInv'
<1>1. PICK place \in Places : Goto(r, place)
  BY DEF SelfPay, Receive, Malformed, BalanceFails, GetLatestBlockhash, Confirm, Places, Waiting, Answers
<1>2. \A q \in Requests : Before(q)' = Before(q)
  BY DEF Before, SelfPay, Receive, Malformed, BalanceFails, GetLatestBlockhash, Confirm
<1>3. UNCHANGED <<chain, balance, daySpent, base, unread>>
  BY DEF SelfPay, Receive, Malformed, BalanceFails, GetLatestBlockhash, Confirm, server, history
<1>4. pc'[r] = place
  BY <1>1 DEF Goto, Typed
<1>5. /\ pc[r] # "signature" /\ place # "signature"
      /\ place \in {"read", "settling"} \cup Reserved => pc[r] \in {"read", "settling"} \cup Reserved
  BY <1>4 DEF SelfPay, Receive, Malformed, BalanceFails, GetLatestBlockhash, Confirm, Goto,
     Reserved, Typed
<1> QED BY <1>1, <1>2, <1>3, <1>5, BooksRest

LEMMA BooksOfDay ==
    ASSUME BooksInv, Typed, NEW r \in Requests,
           \/ \E s \in Shapes : Validate(r, s)
           \/ Refuse(r)
           \/ \E g \in Signature : Reserve(r, g)
    PROVE  BooksInv'
<1>1. ASSUME NEW s \in Shapes, Validate(r, s) PROVE BooksInv'
  <2>1. PICK place \in {"400", "503", "balance"} : Goto(r, place)
    BY <1>1 DEF Validate
  <2>2. \A q \in Requests : Before(q)' = Before(q)
    BY <1>1 DEF Validate, Before, Typed, Work
  <2>3. (StartDay \/ SameDay) /\ UNCHANGED <<chain, balance, unread>> /\ pc[r] = "body"
    BY <1>1 DEF Validate
  <2> QED BY <2>1, <2>2, <2>3, BooksRestDay DEF Reserved
<1>2. CASE Refuse(r)
  <2>1. Goto(r, "503") /\ pc[r] = "read" /\ (StartDay \/ SameDay)
        /\ UNCHANGED <<chain, balance, unread, work>>
    BY <1>2 DEF Refuse
  <2> QED BY <2>1, BooksRestDay DEF Reserved, Before
<1>3. ASSUME NEW g \in Signature, Reserve(r, g) PROVE BooksInv'
  <2>1. PICK place \in {"400", "502", "sending", "blockhash"} : Goto(r, place)
    BY <1>3 DEF Reserve
  <2>2. pc[r] = "read" /\ StartDay /\ UNCHANGED <<chain, balance, unread, work>>
    BY <1>3 DEF Reserve
  <2> QED BY <2>1, <2>2, BooksRestDay DEF Reserved, Before
<1> QED BY <1>1, <1>2, <1>3

LEMMA BooksReadStep ==
    ASSUME BooksInv, RelayInv, NEW r \in Requests, ReadBalance(r)
    PROVE  BooksInv'
<1>1. /\ Typed /\ pc[r] = "balance" /\ chain[r] = "none"
      /\ pc' = [pc EXCEPT ![r] = "read"] /\ work' = [work EXCEPT ![r].before = balance]
      /\ UNCHANGED <<balance, daySpent, base, chain, unread>>
  BY DEF ReadBalance, Goto, RelayInv, Progress, Unsent, server, history
<1>2. \A q \in Requests : pc'[q] = IF q = r THEN "read" ELSE pc[q]
  BY <1>1 DEF Typed
<1>3. Refunded' = Refunded /\ Charged' = Charged /\ r \notin Charged
  BY <1>1, <1>2 DEF Refunded, Charged, Landed
<1>4. Flying' = Flying \cup {r} /\ r \notin Flying /\ Flying \subseteq Requests
  BY <1>1, <1>2 DEF Flying, Reserved
<1>5. Before(r)' = balance /\ \A q \in Flying : Before(q)' = Before(q)
  BY <1>1, <1>4 DEF Before, Typed, Work
<1> QED BY <1>1, <1>3, <1>4, <1>5, BooksRead

LEMMA BooksSend ==
    ASSUME BooksInv, RelayInv, NEW r \in Requests, Send(r) \/ \E b \in BOOLEAN : Fail(r, b)
    PROVE  BooksInv'
<1>1. /\ Typed /\ pc[r] \in Reserved
      /\ pc[r] # "confirming" => chain[r] = "none"
      /\ UNCHANGED <<balance, daySpent, base, unread, work>>
  BY DEF RelayInv, Progress, Unsent, Send, Fail, Reserved, server, history
<1>2. PICK place \in {"confirming", "502"} : pc' = [pc EXCEPT ![r] = place]
  BY DEF Send, Fail, Goto
<1>3. \/ chain' = chain
      \/ chain[r] = "none" /\ chain' = [chain EXCEPT ![r] = "pending"]
  BY <1>1 DEF Send, Fail, Typed
<1>4. \A q \in Requests : pc'[q] = IF q = r THEN place ELSE pc[q]
  BY <1>1, <1>2 DEF Typed
<1>5. \A q \in Requests : chain'[q] = chain[q] \/ (chain[q] = "none" /\ chain'[q] = "pending")
  BY <1>1, <1>3 DEF Typed
<1>6. StillFlying
  BY <1>1, <1>4 DEF StillFlying, Flying, Before
<1>7. Refunded' = Refunded
  BY <1>5 DEF Refunded
<1>8. \A q \in Requests : pc'[q] = "signature" <=> pc[q] = "signature"
  BY <1>1, <1>4 DEF Reserved
<1>9. Charged' = Charged
  BY <1>1, <1>5, <1>8 DEF Charged, Landed
<1> QED BY <1>1, <1>6, <1>7, <1>9, BooksKept

LEMMA BooksSettle ==
    ASSUME BooksInv, RelayInv, NEW r \in Requests, NEW known \in BOOLEAN, Settle(r, known)
    PROVE  BooksInv'
<1>1. /\ Typed /\ pc[r] = "settling" /\ pc' = [pc EXCEPT ![r] = "signature"]
      /\ UNCHANGED <<balance, chain, work>>
      /\ unread' = IF known THEN unread ELSE unread \cup {r}
      /\ base' = IF NewDay THEN balance ELSE base
  BY DEF Settle, Goto, RelayInv
<1>2. \A q \in Requests : pc'[q] = IF q = r THEN "signature" ELSE pc[q]
  BY <1>1 DEF Typed
<1>3. /\ Flying' = Flying \ {r} /\ r \in Flying /\ Refunded' = Refunded
      /\ \A q \in Flying : Before(q)' = Before(q)
  BY <1>1, <1>2 DEF Flying, Refunded, Before, Reserved
<1>4. Charged' \subseteq Charged
  BY <1>1, <1>2 DEF Charged
<1>5. Charged \ {r} \subseteq Charged'
  BY <1>1, <1>2 DEF Charged
<1>6. balance \in Int /\ Before(r) \in Int /\ daySpent \in Nat /\ FeeEst \in Nat
  BY <1>1, Amounts DEF Typed, Work, Before, BooksInv, BooksTyped
<1>7. CASE NewDay
  <2>1. daySpent' = 0 /\ base' = balance
    BY <1>1, <1>7 DEF Settle
  <2>2. StillFlying
    BY <1>3 DEF StillFlying
  <2> QED BY <1>1, <1>3, <1>4, <1>6, <2>1, <2>2, BooksOpened
<1>8. CASE ~NewDay
  <2> DEFINE spent == IF ~known THEN FeeEst
                      ELSE IF Before(r) > balance THEN Before(r) - balance ELSE 0
  <2>1. spent \in Nat /\ (known => Before(r) - balance <= spent)
    BY <1>6
  <2>2. daySpent' = daySpent + spent
    BY <1>8 DEF Settle, Before
  <2> HIDE DEF spent
  <2>3. base' = base
    BY <1>1, <1>8
  <2>4. ~known /\ r \in Charged => r \in Charged'
    BY <1>1, <1>2 DEF Charged
  <2>5. CASE known
    <3>1. r \notin Charged' => Before(r) - balance <= spent
      BY <2>1, <2>5
    <3> QED BY <1>1, <1>3, <1>4, <1>5, <2>1, <2>2, <2>3, <3>1, BooksBooked
  <2>6. CASE ~known
    <3>1. Charged' = Charged
      BY <1>4, <1>5, <2>4, <2>6
    <3>2. StillFlying
      BY <1>3 DEF StillFlying
    <3> QED BY <1>1, <1>3, <2>1, <2>2, <2>3, <3>1, <3>2, BooksGrow
  <2> QED BY <2>5, <2>6
<1> QED BY <1>7, <1>8

\* A request is answered with a signature only when its transaction has landed.
Settled == \A r \in Requests : pc[r] \in {"settling", "signature"} => chain[r] \in Landed

LEMMA SettledStep ==
    ASSUME RelayInv, Settled, [Next]_vars
    PROVE  Settled'
<1>1. Typed
  BY DEF RelayInv
<1>2. ASSUME NEW r \in Requests, NEW place, Goto(r, place), chain' = chain,
             place \in {"settling", "signature"} => chain[r] \in Landed
      PROVE  Settled'
  <2>1. \A q \in Requests : pc'[q] = IF q = r THEN place ELSE pc[q]
    BY <1>1, <1>2 DEF Goto, Typed
  <2> QED BY <1>2, <2>1 DEF Settled
<1>3. ASSUME NEW r \in Requests, SelfPay(r) \/ Handle(r) PROVE Settled'
  <2>1. CASE \/ SelfPay(r) \/ Receive(r) \/ Malformed(r) \/ ReadBalance(r) \/ BalanceFails(r)
             \/ Refuse(r) \/ GetLatestBlockhash(r)
    <3>1. PICK place \in Places \ {"settling", "signature"} : Goto(r, place) /\ chain' = chain
      BY <2>1 DEF SelfPay, Receive, Malformed, ReadBalance, BalanceFails, Refuse,
         GetLatestBlockhash, Places, Waiting, Answers
    <3> QED BY <1>2, <3>1
  <2>2. CASE \E s \in Shapes : Validate(r, s)
    <3>1. PICK place \in {"400", "503", "balance"} : Goto(r, place) /\ chain' = chain
      BY <2>2 DEF Validate
    <3> QED BY <1>2, <3>1
  <2>3. CASE \E g \in Signature : Reserve(r, g)
    <3>1. PICK place \in {"400", "502", "sending", "blockhash"} : Goto(r, place) /\ chain' = chain
      BY <2>3 DEF Reserve
    <3> QED BY <1>2, <3>1
  <2>4. CASE Send(r) \/ \E b \in BOOLEAN : Fail(r, b)
    <3>1. PICK place \in {"confirming", "502"} : Goto(r, place)
      BY <2>4 DEF Send, Fail
    <3>2. \A q \in Requests \ {r} : chain'[q] = chain[q]
      BY <1>1, <2>4 DEF Send, Fail, Typed
    <3>3. \A q \in Requests : pc'[q] = IF q = r THEN place ELSE pc[q]
      BY <1>1, <3>1 DEF Goto, Typed
    <3> QED BY <3>2, <3>3 DEF Settled
  <2>5. CASE Confirm(r) \/ \E b \in BOOLEAN : Settle(r, b)
    <3>1. PICK place \in {"settling", "signature"} : Goto(r, place) /\ chain' = chain
      BY <2>5 DEF Confirm, Settle
    <3>2. chain[r] \in Landed
      BY <2>5 DEF Confirm, Settle, Settled
    <3> QED BY <1>2, <3>1, <3>2
  <2> QED BY <1>3, <2>1, <2>2, <2>3, <2>4, <2>5 DEF Handle
<1>4. ASSUME NEW r \in Requests, NEW fate \in Landed \cup {"dropped"}, chain[r] = "pending",
             chain' = [chain EXCEPT ![r] = fate], pc' = pc
      PROVE  Settled'
  <2>1. pc[r] \notin {"settling", "signature"}
    BY <1>4 DEF Settled, Landed
  <2>2. \A q \in Requests \ {r} : chain'[q] = chain[q]
    BY <1>1, <1>4 DEF Typed
  <2> QED BY <1>4, <2>1, <2>2 DEF Settled
<1>5. CASE \E r \in Requests : \/ Expire(r) \/ Land(r, "err", FeeEst)
                              \/ \E c \in Costs : Land(r, IF c < 0 THEN "refund" ELSE "ok", c)
  BY <1>4, <1>5 DEF Expire, Land, Landed
<1>6. CASE Restart
  BY <1>1, <1>6 DEF Restart, Settled, Typed, Waiting
<1>7. CASE Tick \/ UNCHANGED vars \/ \E b \in BOOLEAN : RelayerPubkey(b)
  BY <1>7 DEF Tick, vars, RelayerPubkey, Settled
<1> QED BY <1>3, <1>5, <1>6, <1>7 DEF Next

LEMMA BooksLand ==
    ASSUME BooksInv, RelayInv, Settled, NEW r \in Requests, NEW fate \in Landed,
           NEW cost \in -EstCost .. EstCost, (fate = "refund" <=> cost < 0), Land(r, fate, cost)
    PROVE  BooksInv'
<1>1. /\ Typed /\ chain[r] = "pending" /\ pc[r] # "signature"
      /\ chain' = [chain EXCEPT ![r] = fate] /\ balance' = balance - cost
      /\ UNCHANGED <<daySpent, base, unread, pc, work>>
  BY DEF Land, RelayInv, Settled, Landed, server, history
<1>2. \A q \in Requests : chain'[q] = IF q = r THEN fate ELSE chain[q]
  BY <1>1 DEF Typed
<1>3. /\ Flying' = Flying /\ \A q \in Flying : Before(q)' = Before(q)
      /\ r \notin Charged /\ r \notin Refunded
  BY <1>1 DEF Flying, Before, Charged, Refunded, Landed
<1>4. EstCost \in Nat
  BY Amounts
<1>5. CASE fate = "refund"
  <2>1. -cost \in 0 .. EstCost /\ balance' = balance + (-cost)
    BY <1>1, <1>4, <1>5 DEF Typed
  <2>2. Refunded' = Refunded \cup {r} /\ Charged' = Charged
    BY <1>1, <1>2, <1>3, <1>5 DEF Refunded, Charged
  <2>3. UNCHANGED <<daySpent, base>>
    BY <1>1
  <2> QED BY <1>1, <1>3, <2>1, <2>2, <2>3, BooksRefunded
<1>6. CASE fate # "refund"
  <2>1. cost \in 0 .. EstCost
    BY <1>4, <1>6
  <2>2. Refunded' = Refunded
    BY <1>1, <1>2, <1>3, <1>6 DEF Refunded
  <2>3. Charged' = Charged \cup {r}
    BY <1>1, <1>2, <1>3, <1>6 DEF Charged, Landed
  <2>4. UNCHANGED <<daySpent, base>>
    BY <1>1
  <2> QED BY <1>1, <1>3, <2>1, <2>2, <2>3, <2>4, BooksCharged
<1> QED BY <1>5, <1>6

LEMMA BooksRestart ==
    ASSUME BooksInv, RelayInv, Restart
    PROVE  BooksInv'
<1>1. /\ Typed /\ daySpent' = 0 /\ base' = balance
      /\ UNCHANGED <<balance, chain, unread, work>>
  BY DEF Restart, RelayInv
<1>2. \A q \in Requests : pc'[q] = IF pc[q] \in Waiting THEN "lost" ELSE pc[q]
  BY DEF Restart
<1>3. StillFlying
  BY <1>2 DEF StillFlying, Flying, Waiting, Reserved
<1>4. Refunded' = Refunded
  BY <1>1 DEF Refunded
<1>5. Charged' \subseteq Charged
  BY <1>1, <1>2 DEF Charged, Waiting
<1>6. balance \in Int
  BY <1>1 DEF Typed
<1> QED BY <1>1, <1>3, <1>4, <1>5, <1>6, BooksOpened

LEMMA BooksInvStep ==
    ASSUME BooksInv, RelayInv, Settled, [Next]_vars
    PROVE  BooksInv'
<1>0. Typed
  BY DEF RelayInv
<1>1. ASSUME NEW r \in Requests, SelfPay(r) \/ Handle(r) PROVE BooksInv'
  <2>1. CASE \/ SelfPay(r) \/ Receive(r) \/ Malformed(r) \/ BalanceFails(r)
             \/ GetLatestBlockhash(r) \/ Confirm(r)
    BY <1>0, <2>1, BooksQuiet
  <2>2. CASE (\E s \in Shapes : Validate(r, s)) \/ Refuse(r) \/ \E g \in Signature : Reserve(r, g)
    BY <1>0, <2>2, BooksOfDay
  <2>3. CASE ReadBalance(r)
    BY <2>3, BooksReadStep
  <2>4. CASE Send(r) \/ \E b \in BOOLEAN : Fail(r, b)
    BY <2>4, BooksSend
  <2>5. CASE \E b \in BOOLEAN : Settle(r, b)
    BY <2>5, BooksSettle
  <2> QED BY <1>1, <2>1, <2>2, <2>3, <2>4, <2>5 DEF Handle
<1>2. ASSUME NEW r \in Requests, NEW c \in Costs, Land(r, IF c < 0 THEN "refund" ELSE "ok", c)
      PROVE  BooksInv'
  <2> DEFINE fate == IF c < 0 THEN "refund" ELSE "ok"
  <2>1. fate \in Landed /\ (fate = "refund" <=> c < 0) /\ c \in -EstCost .. EstCost
    BY RelayerAssumption DEF Landed
  <2>2. Land(r, fate, c)
    BY <1>2
  <2> HIDE DEF fate
  <2> QED BY <2>1, <2>2, BooksLand
<1>3. ASSUME NEW r \in Requests, Land(r, "err", FeeEst) PROVE BooksInv'
  <2>1. FeeEst \in -EstCost .. EstCost /\ ~(FeeEst < 0) /\ "err" \in Landed
    BY Amounts DEF Landed
  <2> QED BY <1>3, <2>1, BooksLand
<1>4. ASSUME NEW r \in Requests, Expire(r) PROVE BooksInv'
  <2>1. /\ chain[r] = "pending" /\ chain' = [chain EXCEPT ![r] = "dropped"]
        /\ UNCHANGED <<balance, daySpent, base, pc, work, unread>>
    BY <1>4 DEF Expire, server, history
  <2>2. Refunded' = Refunded /\ Charged' = Charged
    BY <1>0, <2>1 DEF Refunded, Charged, Landed, Typed
  <2>3. StillFlying
    BY <2>1 DEF StillFlying, Flying, Before
  <2> QED BY <2>1, <2>2, <2>3, BooksKept
<1>5. CASE Tick \/ UNCHANGED vars \/ \E b \in BOOLEAN : RelayerPubkey(b)
  <2>1. UNCHANGED <<chain, balance, daySpent, base, pc, work, unread>>
    BY <1>5 DEF Tick, vars, RelayerPubkey, server, history
  <2>2. Refunded' = Refunded /\ Charged' = Charged /\ StillFlying
    BY <2>1 DEF Refunded, Charged, StillFlying, Flying, Before
  <2> QED BY <2>1, <2>2, BooksKept
<1> QED BY <1>1, <1>2, <1>3, <1>4, <1>5, BooksRestart DEF Next

LEMMA BooksStart == Init => BooksInv
<1> SUFFICES ASSUME Init PROVE BooksInv
  OBVIOUS
<1> DEFINE K == [r \in Requests |-> {}]
<1>1. K \in [Requests -> SUBSET Int] /\ \A r \in Requests : K[r] = {}
  OBVIOUS
<1> HIDE DEF K
<1>2. Flying = {} /\ daySpent = 0 /\ base = Funds /\ balance = Funds
  BY DEF Init, Flying, Reserved
<1>3. Accounts({}, K)
  BY <1>1, <1>2, FS_EmptySet, Amounts DEF Accounts, Small
<1>4. Ledger({}, K)
  BY <1>2, <1>3, Amounts DEF Ledger, Covered, CoveredOnRead, Crossed, Raised
<1>5. BooksTyped
  BY <1>2, Amounts DEF BooksTyped
<1> QED BY <1>1, <1>4, <1>5 DEF BooksInv

\* A few levels for each request are few levels.
LEMMA LevelsBounded ==
    ASSUME NEW K \in [Requests -> SUBSET Int], \A r \in Requests : Small(K[r]),
           NEW S \in SUBSET Requests
    PROVE  /\ IsFiniteSet(UNION { K[r] : r \in S })
           /\ Cardinality(UNION { K[r] : r \in S }) <= EstCost * Cardinality(S)
<1> DEFINE U(T) == UNION { K[r] : r \in T }
           Fits(T) == IsFiniteSet(U(T)) /\ Cardinality(U(T)) <= EstCost * Cardinality(T)
           Bad == { T \in SUBSET Requests : ~Fits(T) }
<1>1. SUFFICES ASSUME Bad # {} PROVE FALSE
  OBVIOUS
<1>2. PICK T \in Bad : \A t \in SUBSET T : t # T => t \notin Bad
  <2>1. Bad \subseteq SUBSET Requests /\ IsFiniteSet(Requests)
    BY RelayerAssumption
  <2> HIDE DEF Bad
  <2> QED BY <1>1, <2>1, SmallestSubset
<1>3. T \in SUBSET Requests /\ ~Fits(T)
  BY <1>2
<1>4. EstCost \in Nat
  BY Amounts
<1>5. T # {}
  <2>1. U({}) = {}
    OBVIOUS
  <2>2. Fits({})
    BY <1>4, <2>1, FS_EmptySet
  <2> HIDE DEF Fits
  <2> QED BY <1>3, <2>2
<1>6. PICK x \in T : TRUE
  BY <1>5
<1> DEFINE R == T \ {x}
<1>7. R \in SUBSET T /\ R # T /\ R \in SUBSET Requests /\ x \in Requests
  BY <1>3, <1>6
<1>8. Fits(R)
  <2> HIDE DEF Fits, R
  <2> QED BY <1>2, <1>7
<1>9. U(T) = U(R) \cup K[x]
  BY <1>3, <1>6
<1>10. EstCost * Cardinality(T) = EstCost * Cardinality(R) + EstCost
  BY <1>3, <1>6, OneLess
<1>11. IsFiniteSet(K[x]) /\ Cardinality(K[x]) <= EstCost
  BY <1>7 DEF Small
<1>12. IsFiniteSet(U(R)) /\ Cardinality(U(R)) <= EstCost * Cardinality(R)
  BY <1>8
<1> HIDE DEF U, R
<1>13. /\ IsFiniteSet(U(R) \cup K[x])
       /\ Cardinality(U(R) \cup K[x]) = Cardinality(U(R)) + Cardinality(K[x]) - Cardinality(U(R) \cap K[x])
  BY <1>11, <1>12, FS_Union
<1>14. /\ Cardinality(U(R)) \in Nat /\ Cardinality(K[x]) \in Nat
       /\ Cardinality(U(R) \cap K[x]) \in Nat
  BY <1>11, <1>12, FS_Intersection, FS_CardinalityType
<1>15. EstCost * Cardinality(R) \in Nat
  BY <1>7, Finite, Times
<1>16. Cardinality(U(T)) <= EstCost * Cardinality(T)
  BY <1>4, <1>9, <1>10, <1>11, <1>12, <1>13, <1>14, <1>15
<1> QED BY <1>3, <1>9, <1>13, <1>16

\* The books never fall behind the wallet (route.ts:255-275): what it lost since
\* the day's counters started is booked but for one worst case for each request
\* not booked, given up, booked with the estimate, or refunded.
THEOREM BooksCoverLossAlways == Spec => []BooksCoverLoss
<1>1. ASSUME BooksInv, RelayInv PROVE BooksCoverLoss
  <2>1. PICK B \in SUBSET Int, K \in [Requests -> SUBSET Int] : Ledger(B, K)
    BY <1>1 DEF BooksInv
  <2> DEFINE booked   == { r \in Requests : pc[r] = "signature" /\ r \notin unread /\ chain[r] # "refund" }
             unbooked == { r \in Requests : chain[r] \in Landed } \ booked
             Lost     == base - (base - balance) + 1 .. base - (base - balance) + (base - balance)
             Crossings == UNION { K[r] : r \in unbooked }
  <2>2. unbooked = Refunded \cup Charged
    BY DEF Refunded, Charged, Landed
  <2>3. unbooked \in SUBSET Requests
    OBVIOUS
  <2>4. balance \in Int /\ base \in Int /\ daySpent \in Nat /\ EstCost \in Nat
    BY <1>1, Amounts DEF RelayInv, Typed, BooksInv, BooksTyped
  <2>5. SUFFICES daySpent >= (base - balance) - EstCost * Cardinality(unbooked)
    BY DEF BooksCoverLoss
  <2> HIDE DEF unbooked
  <2>6. EstCost * Cardinality(unbooked) \in Nat
    BY <2>3, Finite, Times
  <2>7. CASE base <= balance
    BY <2>4, <2>6, <2>7
  <2>8. CASE balance < base
    <3>1. base - balance \in Nat /\ base - (base - balance) \in Int
      BY <2>4, <2>8
    <3>2. IsFiniteSet(Lost) /\ Cardinality(Lost) = base - balance
      BY <3>1, SmallInterval
    <3>3. \A x \in Lost : x \in Int /\ balance < x /\ x <= base
      BY <2>4
    <3>4. Lost \subseteq B \cup Crossings
      <4>1. \A x \in Lost : Known(B, K, unbooked, x)
        BY <2>1, <2>2, <3>3 DEF Ledger, Covered
      <4> QED BY <4>1 DEF Known
    <3>5. IsFiniteSet(B) /\ Cardinality(B) <= daySpent
      BY <2>1 DEF Ledger, Accounts
    <3>6. IsFiniteSet(Crossings) /\ Cardinality(Crossings) <= EstCost * Cardinality(unbooked)
      BY <2>1, <2>3, LevelsBounded DEF Ledger, Accounts
    <3> HIDE DEF Lost, Crossings
    <3>7. /\ IsFiniteSet(B \cup Crossings)
          /\ Cardinality(B \cup Crossings)
               = Cardinality(B) + Cardinality(Crossings) - Cardinality(B \cap Crossings)
      BY <3>5, <3>6, FS_Union
    <3>8. /\ Cardinality(B) \in Nat /\ Cardinality(Crossings) \in Nat
          /\ Cardinality(B \cap Crossings) \in Nat
      BY <3>5, <3>6, FS_Intersection, FS_CardinalityType
    <3>9. Cardinality(Lost) <= Cardinality(B \cup Crossings)
      BY <3>4, <3>7, FS_Subset
    <3> QED BY <2>4, <2>6, <3>2, <3>5, <3>6, <3>7, <3>8, <3>9
  <2> QED BY <2>4, <2>7, <2>8
<1>2. Init => Settled
  BY DEF Init, Settled
<1>3. Spec => []Settled
  BY <1>2, SettledStep, RelayInvariant, PTL DEF Spec
<1>4. Spec => []BooksInv
  BY <1>3, BooksStart, BooksInvStep, RelayInvariant, PTL DEF Spec
<1> QED BY <1>1, <1>4, RelayInvariant, PTL

-----------------------------------------------------------------------------
(* The policy.                                                             *)

\* What the loop over the accounts lets through: a signing account is the payer
\* and then the relayer, or the authority and then not the relayer.
LEMMA PolicySound ==
    ASSUME NEW s \in Shapes, ValidateRelayRequest(s).ok, NEW before,
           NEW w, w = [signers |-> Signers(s), authority |-> ValidateRelayRequest(s).authority,
                       before |-> before]
    PROVE  OnlyPays(w)
  <1> DEFINE e == s.ix
             signing == { i \in DOMAIN s.keys : s.keys[i].isSigner }
             others == { x \in w.signers : x[2] # RelayerKey }
  <1>1. PICK a \in Allowlist : s \in [ix : {a}, keys : [1..a.accountCount -> Metas]]
    BY DEF Shapes
  <1>2. /\ e.payerIndex = e.authorityIndex => e.payerIndex = None
        /\ DOMAIN s.keys = 1..e.accountCount /\ e.accountCount \in Nat
        /\ \A i \in DOMAIN s.keys : s.keys[i].pubkey \in Keys /\ s.keys[i].isSigner \in BOOLEAN
    BY <1>1, RelayerAssumption DEF Metas
  <1>3. \A i \in DOMAIN s.keys : AccountFault(e, s.keys[i], i) = ""
    BY DEF ValidateRelayRequest
  <1>4. None \notin DOMAIN s.keys
    BY <1>2 DEF None
  <1>5. \A i \in signing :
           \/ i = e.payerIndex /\ s.keys[i].pubkey = RelayerKey
           \/ i = e.authorityIndex /\ s.keys[i].pubkey # RelayerKey
    <2>0. SUFFICES ASSUME NEW i \in signing
                   PROVE  \/ i = e.payerIndex /\ s.keys[i].pubkey = RelayerKey
                          \/ i = e.authorityIndex /\ s.keys[i].pubkey # RelayerKey
      BY Zenon
    <2>1. i \in DOMAIN s.keys /\ s.keys[i].isSigner = TRUE
      BY <1>2
    <2>2. AccountFault(e, s.keys[i], i) = ""
      BY <1>3, <2>1
    <2>3. CASE i = e.payerIndex
      BY <2>1, <2>2, <2>3 DEF AccountFault
    <2>4. CASE i # e.payerIndex
      BY <2>1, <2>2, <2>4 DEF AccountFault
    <2>. QED
      BY <2>3, <2>4
  <1>6. w.authority = IF e.authorityIndex \in DOMAIN s.keys
                      THEN s.keys[e.authorityIndex].pubkey ELSE NoKey
    BY DEF ValidateRelayRequest
  <1>7. w.signers = { <<i, s.keys[i].pubkey>> : i \in signing }
    BY DEF Signers
  <1>8. RelayerKey \in Keys /\ NoKey \notin Keys
    BY RelayerAssumption
  <1>9. w.signers \ others \subseteq {<<e.payerIndex, RelayerKey>>}
    BY <1>5, <1>7
  <1>10. Cardinality(w.signers \ others) <= 1
    <2>1. Cardinality({<<e.payerIndex, RelayerKey>>}) = 1
      BY FS_Singleton
    <2>2. IsFiniteSet({<<e.payerIndex, RelayerKey>>})
      BY FS_Singleton
    <2>. QED
      BY <1>9, <2>1, <2>2, FS_Subset
  <1>11. CASE e.authorityIndex \in DOMAIN s.keys
    <2> DEFINE j == e.authorityIndex
    <2>1. j # e.payerIndex
      BY <1>2, <1>4, <1>11
    <2>2. j \in signing /\ s.keys[j].pubkey # RelayerKey
      BY <1>3, <1>11, <2>1 DEF AccountFault
    <2>3. others = {<<j, s.keys[j].pubkey>>}
      BY <1>5, <1>7, <2>2
    <2>4. w.authority = s.keys[j].pubkey /\ w.authority \in Keys
      BY <1>2, <1>6, <1>11
    <2>5. { x[2] : x \in others } = {w.authority} \ {NoKey}
      <3>1. \A x \in others : x[2] = w.authority
        BY <2>3, <2>4
      <3>2. \E x \in others : x[2] = w.authority
        <4>1. <<j, s.keys[j].pubkey>> \in others /\ <<j, s.keys[j].pubkey>>[2] = w.authority
          BY <2>3, <2>4
        <4>. QED
          BY <4>1, Zenon
      <3>3. w.authority # NoKey
        BY <2>4, <1>8
      <3>4. \A y : y \in { x[2] : x \in others } <=> y = w.authority
        BY <3>1, <3>2, Zenon
      <3>. QED
        BY <3>3, <3>4, Zenon
    <2>6. Cardinality(others) = 1
      BY <2>3, FS_Singleton
    <2>. QED
      BY <1>10, <2>2, <2>4, <2>5, <2>6 DEF OnlyPays
  <1>12. CASE e.authorityIndex \notin DOMAIN s.keys
    <2>1. others = {}
      BY <1>5, <1>7, <1>12
    <2>2. w.authority = NoKey /\ w.authority # RelayerKey
      BY <1>6, <1>8, <1>12
    <2>3. Cardinality(others) = 0
      BY <2>1, FS_EmptySet
    <2>4. { x[2] : x \in others } = {w.authority} \ {NoKey}
      BY <2>1, <2>2
    <2>. QED
      BY <1>10, <2>2, <2>3, <2>4 DEF OnlyPays
  <1>. QED
    BY <1>11, <1>12

\* A request on its way keeps its signers.
LEMMA FeeOnlyKept ==
    ASSUME Typed, FeeOnly, NEW r \in Requests, NEW place,
           place \in {"balance", "read"} \cup Reserved => pc[r] \in {"balance", "read"} \cup Reserved,
           Goto(r, place),
           \A q \in Requests : work'[q].signers = work[q].signers
                             /\ work'[q].authority = work[q].authority
    PROVE  FeeOnly'
  <1>1. \A q \in Requests : pc'[q] = IF q = r THEN place ELSE pc[q]
    BY DEF Goto, Typed
  <1>2. \A q \in Requests : OnlyPays(work[q]) => OnlyPays(work'[q])
    BY DEF OnlyPays
  <1>. QED
    BY <1>1, <1>2 DEF FeeOnly

LEMMA FeeOnlyStep ==
    ASSUME RelayInv, FeeOnly, [Next]_vars
    PROVE  FeeOnly'
  <1>0. Typed
    BY DEF RelayInv
  <1>1. CASE \E r \in Requests : \/ Receive(r) \/ SelfPay(r) \/ Malformed(r)
                                \/ BalanceFails(r) \/ GetLatestBlockhash(r) \/ Send(r) \/ Confirm(r)
                                \/ Refuse(r) \/ \E b \in BOOLEAN : Fail(r, b) \/ Settle(r, b)
    <2>1. PICK r \in Requests, place \in Places :
            /\ Goto(r, place) /\ work' = work
            /\ place \in {"balance", "read"} \cup Reserved => pc[r] \in {"balance", "read"} \cup Reserved
      BY <1>1 DEF Receive, SelfPay, Malformed, BalanceFails, GetLatestBlockhash, Send, Confirm,
         Refuse, Fail, Settle, Places, Waiting, Answers, Reserved
    <2>. QED
      BY <1>0, <2>1, FeeOnlyKept
  <1>2. ASSUME NEW r \in Requests, NEW g \in Signature, Reserve(r, g)
        PROVE  FeeOnly'
    <2>1. PICK place \in Places : Goto(r, place)
      BY <1>2 DEF Reserve, Places, Waiting, Answers
    <2>. QED
      BY <1>0, <1>2, <2>1, FeeOnlyKept DEF Reserve
  <1>3. ASSUME NEW r \in Requests, ReadBalance(r)
        PROVE  FeeOnly'
    <2>1. \A q \in Requests : work'[q].signers = work[q].signers
                            /\ work'[q].authority = work[q].authority
      BY <1>0, <1>3 DEF ReadBalance, Typed, Work
    <2>. QED
      BY <1>0, <1>3, <2>1, FeeOnlyKept DEF ReadBalance
  <1>4. ASSUME NEW r \in Requests, NEW s \in Shapes, Validate(r, s)
        PROVE  FeeOnly'
    <2>1. PICK place \in {"400", "503", "balance"} : Goto(r, place)
      BY <1>4 DEF Validate
    <2>2. CASE place # "balance"
      <3>1. work' = work
        <4>1. pc'[r] = place
          BY <1>0, <2>1 DEF Goto, Typed
        <4>. QED
          BY <1>0, <1>4, <2>2, <4>1 DEF Validate, Goto, Typed
      <3>. QED
        BY <1>0, <2>1, <2>2, <3>1, FeeOnlyKept DEF Reserved
    <2>3. CASE place = "balance"
      <3>1. pc'[r] = "balance" /\ \A q \in Requests \ {r} : pc'[q] = pc[q]
        BY <1>0, <2>1, <2>3 DEF Goto, Typed
      <3>2. /\ ValidateRelayRequest(s).ok
            /\ work' = [work EXCEPT ![r].signers = Signers(s),
                                    ![r].authority = ValidateRelayRequest(s).authority]
        BY <1>0, <1>4, <3>1 DEF Validate, Goto, Typed
      <3>3. work'[r] = [signers |-> Signers(s), authority |-> ValidateRelayRequest(s).authority,
                        before |-> work[r].before]
        BY <1>0, <3>2 DEF Typed, Work
      <3>4. OnlyPays(work'[r])
        BY <3>2, <3>3, PolicySound
      <3>5. \A q \in Requests \ {r} : work'[q] = work[q]
        BY <1>0, <3>2 DEF Typed
      <3>. QED
        BY <3>1, <3>4, <3>5 DEF FeeOnly
    <2>. QED
      BY <2>2, <2>3
  <1>5. CASE \/ \E r \in Requests : \/ \E c \in Costs : Land(r, IF c < 0 THEN "refund" ELSE "ok", c)
                                   \/ Land(r, "err", FeeEst) \/ Expire(r)
             \/ Tick \/ \E b \in BOOLEAN : RelayerPubkey(b)
             \/ UNCHANGED vars
    BY <1>5 DEF FeeOnly, Land, Expire, Tick, RelayerPubkey, vars
  <1>6. CASE Restart
    BY <1>6 DEF FeeOnly, Restart, Reserved
  <1>. QED
    BY <1>1, <1>2, <1>3, <1>4, <1>5, <1>6 DEF Next, Handle

\* Whatever the allowlist and whatever accounts a caller lists, the relayer's key
\* signs as the fee payer only, beside at most one co-signer who is somebody
\* else (relayPolicy.ts:292-331).
THEOREM FeeOnlyAlways == Spec => []FeeOnly
  <1>1. Init => FeeOnly
    BY DEF Init, FeeOnly, Reserved
  <1>2. RelayInv /\ FeeOnly /\ [Next]_vars => FeeOnly'
    BY FeeOnlyStep
  <1>. QED
    BY <1>1, <1>2, RelayInvariant, PTL DEF Spec

=============================================================================
