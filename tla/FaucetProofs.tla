---------------------------- MODULE FaucetProofs ----------------------------
(***************************************************************************)
(* What the runs of Faucet show on two members, for every Circle, policy,  *)
(* figure and clock: the faucet singles nobody out, karma is what members  *)
(* did and no more, and the jar and the treasury account for each other.   *)
(*                                                                         *)
(* NobodySingledOut compares two grants, and the program looks at one:     *)
(* what is kept between them is that a grant of another amount than        *)
(* today's is no younger than the last change of the amount (JarInv).  The *)
(* books need what is added up to be finite and made of numbers, and each  *)
(* award, gift and grant to be one that was not there (KarmaInv,           *)
(* FaucetInv).                                                             *)
(***************************************************************************)
EXTENDS Faucet, SumProofs

Jar == [grant : Nat, granted : Nat, changedAt : Int, lamports : Nat]

\* What the clock, the jar and the grants are.
Typed ==
    /\ now \in Nat
    /\ jar \in {NoJar} \cup Jar
    /\ grants \subseteq [to : Commitments, amount : Nat, at : Nat, by : Commitments]
    /\ \A m \in DOMAIN bond : bond[m].wing \in Commitments

\* A jar that has paid knows it; an older amount is from before the last change.
Remembered ==
    /\ grants # {} => Open /\ jar.granted > 0
    /\ \A g \in grants : g.at <= now /\ (g.amount # jar.grant => g.at <= jar.changedAt)

JarInv == Typed /\ Remembered /\ NobodySingledOut

-----------------------------------------------------------------------------
\* Nothing that members do among themselves touches the jar, and the clock only
\* moves on (establish_wing_peer.rs and its neighbours).
LEMMA KarmaStep ==
    ASSUME Typed, KarmaNext
    PROVE  now' \in Nat /\ now' >= now /\ \A m \in DOMAIN bond' : bond'[m].wing \in Commitments
<1>1. ASSUME NEW m \in Commitments, NEW w \in Commitments, EstablishWingPeer(m, w)
      PROVE  now' \in Nat /\ now' >= now /\ \A x \in DOMAIN bond' : bond'[x].wing \in Commitments
  <2>1. now' = now /\ bond' = Put(bond, m, [wing |-> w, active |-> TRUE])
    BY <1>1 DEF EstablishWingPeer
  <2>2. QED
    BY <2>1 DEF Typed, Put
<1>2. ASSUME NEW m \in Commitments, NEW w \in Commitments, EndWingPeer(m, w)
      PROVE  now' \in Nat /\ now' >= now /\ \A x \in DOMAIN bond' : bond'[x].wing \in Commitments
  <2>1. now' = now /\ bond' = [bond EXCEPT ![m].active = FALSE]
    BY <1>2 DEF EndWingPeer
  <2>2. \A x \in DOMAIN bond' : bond'[x].wing = bond[x].wing
    BY <2>1
  <2>3. QED
    BY <2>1, <2>2 DEF Typed
<1>3. ASSUME UNCHANGED <<now, bond>>
      PROVE  now' \in Nat /\ now' >= now /\ \A x \in DOMAIN bond' : bond'[x].wing \in Commitments
  BY <1>3 DEF Typed
<1>4. CASE Tick
  BY <1>4 DEF Tick, Typed
<1>5. ASSUME NEW m \in Commitments, NEW w \in Commitments,
             ReclaimKarma(m, w) \/ \E n \in Amounts : GiveKarma(m, w, n)
      PROVE  UNCHANGED <<now, bond>>
  BY <1>5 DEF ReclaimKarma, GiveKarma
<1>6. ASSUME NEW v \in Votes, SetKarmaParams(v) PROVE UNCHANGED <<now, bond>>
  BY <1>6 DEF SetKarmaParams
<1>7. ASSUME NEW m \in Revocable, Issue(m) \/ Revoke(m) PROVE UNCHANGED <<now, bond>>
  BY <1>7 DEF Issue, Revoke
<1>8. QED
  BY <1>1, <1>2, <1>3, <1>4, <1>5, <1>6, <1>7 DEF KarmaNext

\* A grant, by whichever of the two paths, keeps what is remembered and is a
\* cooldown away from every grant of another amount (activate_faucet.rs:24-53).
LEMMA GrantStep ==
    ASSUME JarInv, NEW m \in Commitments, NEW wing \in Commitments, PayUniformGrant(m, wing)
    PROVE  JarInv'
<1> DEFINE new == [to |-> m, amount |-> jar.grant, at |-> now, by |-> wing]
<1>1. /\ Open /\ jar \in Jar /\ now \in Nat /\ UNCHANGED <<now, bond>>
      /\ jar.granted > 0 => now - jar.changedAt >= Cooldown
      /\ jar.lamports >= jar.grant
      /\ jar' = [jar EXCEPT !.lamports = @ - jar.grant, !.granted = @ + 1]
      /\ grants' = grants \cup {new}
  BY DEF PayUniformGrant, JarInv, Typed, Open, karmaVars
<1>2. /\ jar' \in Jar /\ jar'.grant = jar.grant /\ jar'.changedAt = jar.changedAt
      /\ jar'.granted = jar.granted + 1
  <2>1. jar' = [grant |-> jar.grant, granted |-> jar.granted + 1, changedAt |-> jar.changedAt,
                lamports |-> jar.lamports - jar.grant]
    BY <1>1 DEF Jar
  <2>2. /\ jar.grant \in Nat /\ jar.granted \in Nat /\ jar.changedAt \in Int
        /\ jar.lamports - jar.grant \in Nat
    BY <1>1 DEF Jar
  <2>3. QED
    BY <2>1, <2>2 DEF Jar
<1>3. new \in [to : Commitments, amount : Nat, at : Nat, by : Commitments]
  BY <1>1 DEF Jar
<1>4. Typed'
  BY <1>1, <1>2, <1>3 DEF JarInv, Typed
<1>5. Remembered'
  <2>1. Open'
    BY <1>1 DEF Jar, Open, NoJar
  <2>0. jar'.granted > 0
    BY <1>1, <1>2 DEF Jar
  <2>2. ASSUME NEW g \in grants'
        PROVE  g.at <= now' /\ (g.amount # jar'.grant => g.at <= jar'.changedAt)
    BY <1>1, <1>2, <2>2 DEF JarInv, Remembered
  <2>3. QED
    BY <2>0, <2>1, <2>2 DEF Remembered
<1>6. ASSUME NEW g \in grants, g.amount # jar.grant
      PROVE  now - g.at >= Cooldown
  <2>1. jar.granted > 0 /\ g.at <= jar.changedAt /\ g.at \in Nat
    BY <1>6 DEF JarInv, Remembered, Typed
  <2>2. QED
    BY <2>1, <1>1, FaucetAssumption DEF Jar
<1>7. NobodySingledOut'
  <2> SUFFICES ASSUME NEW g \in grants', NEW h \in grants', g.amount < h.amount
               PROVE  g.at - h.at >= Cooldown \/ h.at - g.at >= Cooldown
    BY DEF NobodySingledOut
  <2>1. \A x \in grants' : x.amount \in Nat /\ x.at \in Nat
    BY <1>4 DEF Typed
  <2>2. CASE g \in grants /\ h \in grants
    BY <2>2 DEF JarInv, NobodySingledOut
  <2>3. CASE g = new /\ h \in grants
    BY <2>3, <2>1, <1>6
  <2>4. CASE g \in grants /\ h = new
    BY <2>4, <2>1, <1>6
  <2>5. CASE g = new /\ h = new
    BY <2>5, <2>1
  <2>6. QED
    BY <2>2, <2>3, <2>4, <2>5, <1>1
<1>8. QED
  BY <1>4, <1>5, <1>7 DEF JarInv

\* A change of the amount is stamped with the present, which no grant is past.
LEMMA AmountStep ==
    ASSUME JarInv, NEW n \in 1..MaxGrant, SetFaucetAmount(n)
    PROVE  JarInv'
<1>1. /\ Open /\ jar \in Jar /\ now \in Nat /\ UNCHANGED <<now, bond, grants>>
      /\ jar' = [jar EXCEPT !.grant = n, !.changedAt = now]
  BY DEF SetFaucetAmount, JarInv, Typed, Open, karmaVars
<1>2. /\ jar' \in Jar /\ jar'.grant = n /\ jar'.changedAt = now /\ jar'.granted = jar.granted
  <2>1. n \in Nat
    BY FaucetAssumption
  <2>2. jar' = [grant |-> n, granted |-> jar.granted, changedAt |-> now, lamports |-> jar.lamports]
    BY <1>1 DEF Jar
  <2>3. QED
    BY <1>1, <2>1, <2>2 DEF Jar
<1>3. Open'
  BY <1>1 DEF Open, NoJar, Jar
<1>4. QED
  BY <1>1, <1>2, <1>3 DEF JarInv, Typed, Remembered, NobodySingledOut

\* Each of the faucet's steps.
LEMMA JarInvStep == ASSUME JarInv, [Next]_vars PROVE JarInv'
<1>1. CASE KarmaNext /\ UNCHANGED faucetVars
  <2>1. now' \in Nat /\ now' >= now /\ \A m \in DOMAIN bond' : bond'[m].wing \in Commitments
    BY <1>1, KarmaStep DEF JarInv
  <2>2. UNCHANGED <<jar, grants>>
    BY <1>1 DEF faucetVars
  <2>3. \A g \in grants : g.at \in Nat
    BY DEF JarInv, Typed
  <2>4. QED
    BY <2>1, <2>2, <2>3 DEF JarInv, Typed, Remembered, NobodySingledOut, Open
<1>2. CASE InitFaucet
  <2>1. /\ ~Open /\ UNCHANGED <<now, bond, grants>>
        /\ jar' = [grant |-> DefaultGrant, granted |-> 0, changedAt |-> -Cooldown, lamports |-> 0]
    BY <1>2 DEF InitFaucet, karmaVars
  <2>2. grants = {} /\ jar' \in Jar
    BY <2>1, FaucetAssumption DEF JarInv, Remembered, Jar
  <2>3. QED
    BY <2>1, <2>2 DEF JarInv, Typed, Remembered, NobodySingledOut
<1>3. ASSUME NEW paid \in Nat, Open, jar' = [jar EXCEPT !.lamports = @ + paid],
             UNCHANGED <<now, bond, grants>>
      PROVE  JarInv'
  <2>1. jar \in Jar
    BY <1>3 DEF JarInv, Typed, Open
  <2>2. /\ jar' \in Jar /\ jar'.grant = jar.grant /\ jar'.changedAt = jar.changedAt
        /\ jar'.granted = jar.granted
    BY <2>1, <1>3 DEF Jar
  <2>3. Open'
    BY <2>1, <1>3 DEF Open, NoJar, Jar
  <2>4. QED
    BY <1>3, <2>2, <2>3 DEF JarInv, Typed, Remembered, NobodySingledOut
<1>4. CASE DonateToJar
  BY <1>3, <1>4 DEF DonateToJar, karmaVars
<1>5. ASSUME NEW b \in Ballots, RefillFaucet(b) PROVE JarInv'
  <2>1. b.amount \in Nat
    BY FaucetAssumption
  <2>2. QED
    BY <1>3, <1>5, <2>1 DEF RefillFaucet, karmaVars
<1>6. ASSUME NEW n \in 1..MaxGrant, SetFaucetAmount(n) PROVE JarInv'
  BY <1>6, AmountStep
<1>7. ASSUME NEW m \in Commitments, ActivateFaucet(m) \/ ActivateFaucetZk(m) PROVE JarInv'
  <2>1. m \in DOMAIN bond /\ PayUniformGrant(m, bond[m].wing)
    BY <1>7 DEF ActivateFaucet, ActivateFaucetZk, Linked
  <2>2. bond[m].wing \in Commitments
    BY <2>1 DEF JarInv, Typed
  <2>3. QED
    BY <2>1, <2>2, GrantStep
<1>8. CASE UNCHANGED vars
  BY <1>8 DEF vars, karmaVars, faucetVars, JarInv, Typed, Remembered, NobodySingledOut, Open
<1>9. QED
  BY <1>1, <1>2, <1>4, <1>5, <1>6, <1>7, <1>8 DEF Next

\* The invariant behind the uniform grant, for every Circle and every order of
\* links, retunes, refills and grants (activate_faucet.rs, set_faucet_amount.rs).
THEOREM JarInvariant == Spec => []JarInv
<1>1. Init => JarInv
  BY DEF Init, KarmaInit, JarInv, Typed, Remembered, NobodySingledOut
<1>2. JarInv /\ [Next]_vars => JarInv'
  BY JarInvStep
<1>3. QED
  BY <1>1, <1>2, PTL DEF Spec

\* Two grants of different amounts are a whole cooldown apart, however often and
\* in whatever direction the Treasurer retunes the jar between them.
THEOREM NobodySingledOutAlways == Spec => []NobodySingledOut
<1>1. JarInv => NobodySingledOut
  BY DEF JarInv
<1>2. QED
  BY JarInvariant, <1>1, PTL

-----------------------------------------------------------------------------
(* The books of karma. *)

Award == [mentee : Commitments, wing : Commitments, credit : [Commitments -> Nat]]
Gift  == [amount : Nat, givenAt : Nat, returned : BOOLEAN]

\* The accounts that the ledger adds up, finitely many of each.
BooksTyped ==
    /\ now \in Nat /\ DOMAIN members \subseteq Commitments /\ DOMAIN bond \subseteq Commitments
    /\ carried \subseteq Votes /\ full \subseteq Commitments /\ params \in Votes \cup {Defaults, Unset}
    /\ \A m \in DOMAIN bond : bond[m].wing \in Commitments /\ bond[m].wing # m
    /\ awards \subseteq Award /\ IsFiniteSet(awards)
    /\ DOMAIN gifts \subseteq Commitments \X Commitments /\ IsFiniteSet(DOMAIN gifts)
    /\ \A g \in DOMAIN gifts : gifts[g] \in Gift /\ g[1] # g[2]
    /\ points \in [Commitments -> 0..MaxPoints]

\* Each pair was credited once.
CreditedOnce ==
    \A a, b \in awards : {a.mentee, a.wing} = {b.mentee, b.wing} => a = b

\* A total against what it stands for.
Honest(m) == points[m] <= Ledger(m) /\ (points[m] = Ledger(m) \/ m \in full)

KarmaInv ==
    /\ now <= MaxTime
    /\ BooksTyped
    /\ CreditedOnce
    /\ \A m \in Commitments : Honest(m)

\* The ledger's terms are numbers.
LEMMA LedgerType ==
    ASSUME BooksTyped, NEW m \in Commitments
    PROVE  /\ Addable([a \in awards |-> a.credit[m]], awards)
           /\ Addable(Worth, Received(m)) /\ Addable(Worth, Given(m))
           /\ Credited(m) \in Int
           /\ SumFunctionOnSet(Worth, Received(m)) \in Int
           /\ SumFunctionOnSet(Worth, Given(m)) \in Int
<1>1. Addable([a \in awards |-> a.credit[m]], awards)
  BY DEF Addable, BooksTyped, Award
<1>2. \A T \in SUBSET DOMAIN gifts : Addable(Worth, T)
  BY FS_Subset DEF Addable, Worth, BooksTyped, Gift
<1>3. Received(m) \in SUBSET DOMAIN gifts /\ Given(m) \in SUBSET DOMAIN gifts
  BY DEF Received, Given
<1>4. QED
  BY <1>1, <1>2, <1>3, SumType DEF Credited

LEMMA LedgerNumber ==
    ASSUME BooksTyped, NEW m \in Commitments PROVE Ledger(m) \in Int
<1>1. /\ Credited(m) \in Int /\ SumFunctionOnSet(Worth, Received(m)) \in Int
      /\ SumFunctionOnSet(Worth, Given(m)) \in Int
  BY LedgerType
<1>2. QED
  BY <1>1 DEF Ledger

\* What adds to a total cuts off the top of it at most, and is seen when it does.
LEMMA SaturatedCredit ==
    ASSUME NEW p \in 0..MaxPoints, NEW l \in Int, NEW c \in Nat, p <= l
    PROVE  /\ Saturated(p + c) \in 0..MaxPoints
           /\ Saturated(p + c) <= l + c
           /\ p = l /\ p + c <= MaxPoints => Saturated(p + c) = l + c
BY KarmaAssumption DEF Saturated

\* A link accepted for the first time credits both ends and is the only award of
\* the two (establish_wing_peer.rs:41-78).
LEMMA AwardStep ==
    ASSUME KarmaInv, NEW m \in Commitments, NEW w \in Commitments, EstablishWingPeer(m, w)
    PROVE  KarmaInv'
<1> USE KarmaAssumption
<1> DEFINE p == Materialised(params)
           credit == [c \in Commitments |-> IF c = m THEN p.gain
                                            ELSE IF c = w THEN SponsorGain(p.gain, p.ratio) ELSE 0]
           new == [mentee |-> m, wing |-> w, credit |-> credit]
<1>1. /\ m # w /\ bond' = Put(bond, m, [wing |-> w, active |-> TRUE])
      /\ UNCHANGED <<now, members, gifts, carried>>
  BY DEF EstablishWingPeer
<1>2. /\ DOMAIN bond' \subseteq Commitments
      /\ \A x \in DOMAIN bond' : bond'[x].wing \in Commitments /\ bond'[x].wing # x
  BY <1>1 DEF KarmaInv, BooksTyped, Put
<1>3. Worth' = Worth /\ \A c \in Commitments : Received(c)' = Received(c) /\ Given(c)' = Given(c)
  BY <1>1 DEF Worth, Received, Given
<1>4. CASE Awarded(m, w)
  <2>1. UNCHANGED <<awards, points, params, full>>
    BY <1>4 DEF EstablishWingPeer
  <2>2. \A c \in Commitments : Ledger(c)' = Ledger(c)
    BY <2>1, <1>3 DEF Ledger, Credited
  <2>3. QED
    BY <1>1, <1>2, <2>1, <2>2 DEF KarmaInv, BooksTyped, CreditedOnce, Honest
<1>5. CASE ~Awarded(m, w)
  <2>1. /\ params' = p
        /\ points' = [c \in Commitments |-> Saturated(points[c] + credit[c])]
        /\ full' = full \cup { c \in Commitments : points[c] + credit[c] > MaxPoints }
        /\ awards' = awards \cup {new}
    BY <1>5 DEF EstablishWingPeer
  <2>2. p \in Votes \cup {Defaults} /\ p \in Params
    BY DEF KarmaInv, BooksTyped, Materialised
  <2>3. p.gain \in Nat /\ p.ratio \in Nat
    BY <2>2 DEF Params
  <2>4. SponsorGain(p.gain, p.ratio) \in Nat
    <3>1. p.gain * p.ratio \in Nat
      BY <2>3
    <3>2. \A x \in Nat : x \div 10000 \in Nat
      OBVIOUS
    <3>3. QED
      BY <3>1, <3>2 DEF SponsorGain
  <2>5. credit \in [Commitments -> Nat]
    BY <2>3, <2>4
  <2> HIDE DEF p, credit
  <2>6. new \in Award /\ new \notin awards
    <3>1. new \in Award
      BY <2>5 DEF Award
    <3>2. new \notin awards
      BY <1>5 DEF Awarded
    <3>3. QED
      BY <3>1, <3>2
  <2>7. awards' \subseteq Award /\ IsFiniteSet(awards')
    BY <2>1, <2>6, FS_AddElement DEF KarmaInv, BooksTyped
  <2>8. CreditedOnce'
    <3>1. \A a \in awards : {a.mentee, a.wing} # {m, w}
      BY <1>5 DEF Awarded
    <3>2. new.mentee = m /\ new.wing = w
      OBVIOUS
    <3> HIDE DEF new
    <3>3. QED
      BY <2>1, <3>1, <3>2 DEF KarmaInv, CreditedOnce
  <2>9. ASSUME NEW c \in Commitments
        PROVE  Ledger(c)' = Ledger(c) + credit[c]
    <3> DEFINE e == [a \in awards |-> a.credit[c]]
               f == [a \in awards' |-> a.credit[c]]
    <3>1. Addable(e, awards) /\ Credited(c) = SumFunctionOnSet(e, awards)
      BY LedgerType DEF KarmaInv, Credited
    <3>2. /\ Addable(f, awards \cup {new}) /\ SameOn(e, f, awards) /\ f[new] = credit[c]
          /\ Credited(c)' = SumFunctionOnSet(f, awards \cup {new})
      BY <2>1, <2>7 DEF Addable, SameOn, Award, Credited
    <3> HIDE DEF e, f, new
    <3>3. SumFunctionOnSet(f, awards \cup {new}) = f[new] + SumFunctionOnSet(f, awards)
      BY <3>2, <2>6, SumPutsIn
    <3>4. SumFunctionOnSet(e, awards) = SumFunctionOnSet(f, awards)
      BY <3>1, <3>2, SumOfSame
    <3>5. credit[c] \in Nat
      BY <2>5
    <3>6. Credited(c)' = Credited(c) + credit[c]
      BY <3>1, <3>2, <3>3, <3>4, <3>5, SumType
    <3>7. /\ Credited(c) \in Int /\ SumFunctionOnSet(Worth, Received(c)) \in Int
          /\ SumFunctionOnSet(Worth, Given(c)) \in Int
      BY LedgerType DEF KarmaInv
    <3>8. Ledger(c)' = Credited(c)' + SumFunctionOnSet(Worth, Received(c))
                                    - SumFunctionOnSet(Worth, Given(c))
      BY <1>3 DEF Ledger
    <3>9. QED
      BY <3>5, <3>6, <3>7, <3>8 DEF Ledger
  <2>10. ASSUME NEW c \in Commitments
         PROVE  points'[c] \in 0..MaxPoints /\ Honest(c)'
    <3>1. /\ points[c] \in 0..MaxPoints /\ credit[c] \in Nat /\ Ledger(c) \in Int
          /\ points[c] <= Ledger(c) /\ (points[c] = Ledger(c) \/ c \in full)
      BY <2>5, LedgerNumber DEF KarmaInv, BooksTyped, Honest
    <3>2. points'[c] = Saturated(points[c] + credit[c])
      BY <2>1
    <3>3. (c \in full') = (c \in full \/ points[c] + credit[c] > MaxPoints)
      BY <2>1
    <3> HIDE DEF new
    <3>4. /\ Saturated(points[c] + credit[c]) \in 0..MaxPoints
          /\ Saturated(points[c] + credit[c]) <= Ledger(c) + credit[c]
          /\ points[c] = Ledger(c) /\ points[c] + credit[c] <= MaxPoints
                => Saturated(points[c] + credit[c]) = Ledger(c) + credit[c]
      BY <3>1, SaturatedCredit
    <3>5. QED
      BY <3>1, <3>2, <3>3, <3>4, <2>9 DEF Honest
  <2>11. points' \in [Commitments -> 0..MaxPoints] /\ full' \subseteq Commitments
    BY <2>1, <2>10 DEF KarmaInv, BooksTyped
  <2>12. QED
    BY <1>1, <1>2, <2>1, <2>2, <2>7, <2>8, <2>10, <2>11 DEF KarmaInv, BooksTyped
<1>6. QED
  BY <1>4, <1>5

\* A gift leaves one total and enters another, and is owed back
\* (give_karma.rs:16-29).
LEMMA GiftStep ==
    ASSUME KarmaInv, NEW a \in Commitments, NEW b \in Commitments, NEW n \in Amounts,
           GiveKarma(a, b, n)
    PROVE  KarmaInv'
<1> USE KarmaAssumption
<1> DEFINE k == <<a, b>>
           gift == [amount |-> n, givenAt |-> now, returned |-> FALSE]
<1>1. /\ a # b /\ n \in Nat /\ points[a] >= n /\ k \notin DOMAIN gifts
      /\ params' = Materialised(params)
      /\ points' = [points EXCEPT ![a] = @ - n, ![b] = Saturated(@ + n)]
      /\ full' = IF points[b] + n > MaxPoints THEN full \cup {b} ELSE full
      /\ gifts' = Put(gifts, k, gift)
      /\ UNCHANGED <<now, members, bond, awards, carried>>
  BY DEF GiveKarma
<1>2. /\ points[a] \in 0..MaxPoints /\ points[b] \in 0..MaxPoints
      /\ points'[a] = points[a] - n /\ points'[b] = Saturated(points[b] + n)
      /\ \A c \in Commitments \ {a, b} : points'[c] = points[c]
      /\ DOMAIN points' = Commitments
  BY <1>1 DEF KarmaInv, BooksTyped
<1>3. /\ DOMAIN gifts' = DOMAIN gifts \cup {k} /\ gifts'[k] = gift
      /\ \A g \in DOMAIN gifts : gifts'[g] = gifts[g]
  BY <1>1 DEF Put
<1>4. gift \in Gift /\ k \in Commitments \X Commitments /\ k[1] = a /\ k[2] = b
  BY <1>1 DEF KarmaInv, BooksTyped, Gift
<1>5. /\ DOMAIN gifts' \subseteq Commitments \X Commitments /\ IsFiniteSet(DOMAIN gifts')
      /\ \A g \in DOMAIN gifts' : gifts'[g] \in Gift /\ g[1] # g[2]
  <2>1. DOMAIN gifts \subseteq Commitments \X Commitments /\ IsFiniteSet(DOMAIN gifts)
    BY DEF KarmaInv, BooksTyped
  <2>2. IsFiniteSet(DOMAIN gifts \cup {k})
    BY <2>1, FS_AddElement
  <2>3. \A g \in DOMAIN gifts : gifts'[g] \in Gift /\ g[1] # g[2]
    BY <1>3 DEF KarmaInv, BooksTyped
  <2>4. k[1] # k[2]
    BY <1>1
  <2> HIDE DEF k, gift
  <2>5. QED
    BY <1>3, <1>4, <2>1, <2>2, <2>3, <2>4
<1>6. gift.amount = n /\ gift.returned = FALSE
  OBVIOUS
<1> HIDE DEF k, gift
<1>7. /\ Worth'[k] = n /\ \A T \in SUBSET DOMAIN gifts : SameOn(Worth, Worth', T)
      /\ \A T \in SUBSET DOMAIN gifts' : Addable(Worth', T)
  BY <1>3, <1>5, <1>6, FS_Subset DEF Worth, SameOn, Addable, Gift
<1>8. /\ Received(b)' = Received(b) \cup {k} /\ Given(a)' = Given(a) \cup {k}
      /\ \A c \in Commitments \ {b} : Received(c)' = Received(c)
      /\ \A c \in Commitments \ {a} : Given(c)' = Given(c)
  BY <1>3, <1>4, <1>6 DEF Received, Given
<1>9. \A c : /\ Received(c) \in SUBSET DOMAIN gifts /\ Given(c) \in SUBSET DOMAIN gifts
             /\ k \notin Received(c) /\ k \notin Given(c)
  BY <1>1 DEF Received, Given
<1>10. ASSUME NEW T \in SUBSET DOMAIN gifts
       PROVE  SumFunctionOnSet(Worth', T) = SumFunctionOnSet(Worth, T)
  <2>1. SameOn(Worth, Worth', T) /\ Addable(Worth, T)
    BY <1>7, FS_Subset DEF KarmaInv, BooksTyped, Addable, Worth, Gift
  <2>2. QED
    BY <2>1, SumOfSame
<1>11. ASSUME NEW T \in SUBSET DOMAIN gifts
       PROVE  SumFunctionOnSet(Worth', T \cup {k}) = n + SumFunctionOnSet(Worth, T)
  <2>1. k \notin T /\ Addable(Worth', T \cup {k})
    BY <1>1, <1>3, <1>7
  <2>2. SumFunctionOnSet(Worth', T \cup {k}) = Worth'[k] + SumFunctionOnSet(Worth', T)
    BY <2>1, SumPutsIn
  <2>3. QED
    BY <2>2, <1>7, <1>10
<1>12. ASSUME NEW c \in Commitments
       PROVE  Ledger(c)' = Ledger(c) + (IF c = b THEN n ELSE 0) - (IF c = a THEN n ELSE 0)
  <2>1. /\ Credited(c) \in Int /\ SumFunctionOnSet(Worth, Received(c)) \in Int
        /\ SumFunctionOnSet(Worth, Given(c)) \in Int
    BY LedgerType DEF KarmaInv
  <2>2. Credited(c)' = Credited(c)
    BY <1>1 DEF Credited
  <2>3. SumFunctionOnSet(Worth, Received(c))'
            = SumFunctionOnSet(Worth, Received(c)) + (IF c = b THEN n ELSE 0)
    BY <2>1, <1>1, <1>8, <1>9, <1>10, <1>11
  <2>4. SumFunctionOnSet(Worth, Given(c))'
            = SumFunctionOnSet(Worth, Given(c)) + (IF c = a THEN n ELSE 0)
    BY <2>1, <1>1, <1>8, <1>9, <1>10, <1>11
  <2>5. QED
    BY <2>1, <2>2, <2>3, <2>4, <1>1 DEF Ledger
<1>13. ASSUME NEW c \in Commitments
       PROVE  points'[c] \in 0..MaxPoints /\ Honest(c)'
  <2>1. /\ points[c] \in 0..MaxPoints /\ Ledger(c) \in Int
        /\ points[c] <= Ledger(c) /\ (points[c] = Ledger(c) \/ c \in full)
    BY LedgerNumber DEF KarmaInv, BooksTyped, Honest
  <2>2. CASE c = b
    <3>1. Ledger(c)' = Ledger(c) + n
      BY <2>1, <2>2, <1>1, <1>12
    <3>2. /\ Saturated(points[c] + n) \in 0..MaxPoints
          /\ Saturated(points[c] + n) <= Ledger(c) + n
          /\ points[c] = Ledger(c) /\ points[c] + n <= MaxPoints
                => Saturated(points[c] + n) = Ledger(c) + n
      BY <2>1, <1>1, SaturatedCredit
    <3>3. points'[c] = Saturated(points[c] + n)
      BY <2>2, <1>2
    <3>4. points[c] + n <= MaxPoints \/ c \in full'
      BY <2>1, <2>2, <1>1
    <3>5. full \subseteq full'
      BY <1>1
    <3>6. QED
      BY <3>1, <3>2, <3>3, <3>4, <3>5, <2>1 DEF Honest
  <2>3. CASE c = a
    <3>1. Ledger(c)' = Ledger(c) - n
      BY <2>1, <2>3, <1>1, <1>12
    <3>2. QED
      BY <3>1, <2>1, <2>3, <1>1, <1>2 DEF Honest
  <2>4. CASE c # a /\ c # b
    <3>1. Ledger(c)' = Ledger(c)
      BY <2>1, <2>4, <1>12
    <3>2. QED
      BY <3>1, <2>1, <2>4, <1>1, <1>2 DEF Honest
  <2>5. QED
    BY <2>2, <2>3, <2>4
<1>14. points' \in [Commitments -> 0..MaxPoints]
  BY <1>1, <1>13 DEF KarmaInv, BooksTyped
<1>15. params' \in Votes \cup {Defaults, Unset} /\ full' \subseteq Commitments
  BY <1>1 DEF KarmaInv, BooksTyped, Materialised
<1>16. QED
  BY <1>1, <1>5, <1>13, <1>14, <1>15 DEF KarmaInv, BooksTyped, CreditedOnce

\* What comes back was owed, and is owed no more (reclaim_karma.rs:18-22).
LEMMA ReclaimStep ==
    ASSUME KarmaInv, NEW a \in Commitments, NEW b \in Commitments, ReclaimKarma(a, b)
    PROVE  KarmaInv'
<1> USE KarmaAssumption
<1> DEFINE k == <<a, b>>
           n == gifts[k].amount
<1>1. /\ k \in DOMAIN gifts /\ ~gifts[k].returned
      /\ gifts' = [gifts EXCEPT ![k].returned = TRUE]
      /\ points' = [points EXCEPT ![a] = Saturated(@ + n)]
      /\ full' = IF points[a] + n > MaxPoints THEN full \cup {a} ELSE full
      /\ UNCHANGED <<now, members, bond, awards, params, carried>>
  BY DEF ReclaimKarma
<1>2. n \in Nat /\ k[1] = a /\ gifts[k] \in Gift
  BY <1>1 DEF KarmaInv, BooksTyped, Gift
<1>3. /\ points'[a] = Saturated(points[a] + n)
      /\ \A c \in Commitments \ {a} : points'[c] = points[c]
      /\ DOMAIN points' = Commitments
  BY <1>1 DEF KarmaInv, BooksTyped
<1>4. /\ DOMAIN gifts' = DOMAIN gifts
      /\ \A g \in DOMAIN gifts \ {k} : gifts'[g] = gifts[g]
      /\ gifts'[k] = [amount |-> n, givenAt |-> gifts[k].givenAt, returned |-> TRUE]
  <2>1. DOMAIN gifts' = DOMAIN gifts /\ \A g \in DOMAIN gifts \ {k} : gifts'[g] = gifts[g]
    BY <1>1
  <2>2. gifts'[k] = [gifts[k] EXCEPT !.returned = TRUE]
    BY <1>1
  <2>3. QED
    BY <2>1, <2>2, <1>2 DEF Gift
<1>5. /\ gifts'[k] \in Gift /\ gifts'[k].amount = n /\ gifts'[k].returned
  BY <1>2, <1>4 DEF Gift
<1> HIDE DEF k
<1>6. \A g \in DOMAIN gifts' : gifts'[g] \in Gift /\ g[1] # g[2]
  BY <1>4, <1>5 DEF KarmaInv, BooksTyped
<1>7. Worth' = Worth
  <2>1. \A g \in DOMAIN gifts : gifts'[g].amount = gifts[g].amount
    BY <1>4, <1>5
  <2>2. QED
    BY <2>1, <1>4 DEF Worth
<1>8. /\ \A c \in Commitments : Received(c)' = Received(c)
      /\ Given(a)' = Given(a) \ {k} /\ k \in Given(a)
      /\ \A c \in Commitments \ {a} : Given(c)' = Given(c)
  BY <1>1, <1>2, <1>4, <1>5 DEF Received, Given
<1>9. Worth[k] = n
  BY <1>1 DEF Worth
<1> HIDE DEF n
<1>10. ASSUME NEW c \in Commitments
       PROVE  Ledger(c)' = Ledger(c) + (IF c = a THEN n ELSE 0)
  <2>1. /\ Credited(c) \in Int /\ SumFunctionOnSet(Worth, Received(c)) \in Int
        /\ SumFunctionOnSet(Worth, Given(c)) \in Int /\ Addable(Worth, Given(c))
    BY LedgerType DEF KarmaInv
  <2>2. Credited(c)' = Credited(c)
    BY <1>1 DEF Credited
  <2>3. SumFunctionOnSet(Worth, Given(c))
            = SumFunctionOnSet(Worth, Given(c))' + (IF c = a THEN n ELSE 0)
    <3>1. CASE c = a
      <4>1. SumFunctionOnSet(Worth, Given(c)) = Worth[k] + SumFunctionOnSet(Worth, Given(c) \ {k})
        BY <3>1, <2>1, <1>8, SumTakesOut
      <4>2. Addable(Worth, Given(c) \ {k})
        BY <2>1, FS_RemoveElement DEF Addable
      <4>3. SumFunctionOnSet(Worth, Given(c) \ {k}) \in Int
        BY <4>2, SumType
      <4>4. QED
        BY <3>1, <4>1, <4>3, <1>2, <1>7, <1>8, <1>9
    <3>2. CASE c # a
      BY <3>2, <2>1, <1>7, <1>8
    <3>3. QED
      BY <3>1, <3>2
  <2>4. SumFunctionOnSet(Worth, Given(c))'
            = SumFunctionOnSet(Worth, Given(c)) - (IF c = a THEN n ELSE 0)
    <3>1. CASE c = a
      <4>1. Given(c)' = Given(c) \ {k}
        BY <3>1, <1>8
      <4>2. Addable(Worth, Given(c) \ {k})
        BY <2>1, FS_RemoveElement DEF Addable
      <4>3. SumFunctionOnSet(Worth, Given(c))' \in Int
        BY <4>1, <4>2, <1>7, SumType
      <4>4. QED
        BY <4>3, <2>3, <1>2
    <3>2. CASE c # a
      BY <3>2, <2>1, <1>7, <1>8
    <3>3. QED
      BY <3>1, <3>2
  <2>5. SumFunctionOnSet(Worth, Received(c))' = SumFunctionOnSet(Worth, Received(c))
    BY <1>7, <1>8
  <2>6. QED
    BY <2>1, <2>2, <2>4, <2>5, <1>2 DEF Ledger
<1>11. ASSUME NEW c \in Commitments
       PROVE  points'[c] \in 0..MaxPoints /\ Honest(c)'
  <2>1. /\ points[c] \in 0..MaxPoints /\ Ledger(c) \in Int
        /\ points[c] <= Ledger(c) /\ (points[c] = Ledger(c) \/ c \in full)
    BY LedgerNumber DEF KarmaInv, BooksTyped, Honest
  <2>2. full \subseteq full'
    BY <1>1
  <2>3. CASE c = a
    <3>1. Ledger(c)' = Ledger(c) + n
      BY <2>1, <2>3, <1>10
    <3>2. /\ Saturated(points[c] + n) \in 0..MaxPoints
          /\ Saturated(points[c] + n) <= Ledger(c) + n
          /\ points[c] = Ledger(c) /\ points[c] + n <= MaxPoints
                => Saturated(points[c] + n) = Ledger(c) + n
      BY <2>1, <1>2, SaturatedCredit
    <3>3. points'[c] = Saturated(points[c] + n)
      BY <2>3, <1>3
    <3>4. points[c] + n <= MaxPoints \/ c \in full'
      BY <2>1, <2>3, <1>1, <1>2
    <3>5. QED
      BY <3>1, <3>2, <3>3, <3>4, <2>1, <2>2 DEF Honest
  <2>4. CASE c # a
    <3>1. Ledger(c)' = Ledger(c)
      BY <2>1, <2>4, <1>10
    <3>2. QED
      BY <3>1, <2>1, <2>2, <2>4, <1>3 DEF Honest
  <2>5. QED
    BY <2>3, <2>4
<1>12. points' \in [Commitments -> 0..MaxPoints]
  BY <1>1, <1>11 DEF KarmaInv, BooksTyped
<1>13. full' \subseteq Commitments
  BY <1>1 DEF KarmaInv, BooksTyped
<1>14. QED
  BY <1>1, <1>4, <1>6, <1>11, <1>12, <1>13 DEF KarmaInv, BooksTyped, CreditedOnce

\* Everything else that members, the Council and the clock do.
LEMMA KarmaInvStep ==
    ASSUME KarmaInv, KarmaNext
    PROVE  KarmaInv'
<1> USE KarmaAssumption
<1>1. ASSUME UNCHANGED <<awards, points, gifts, full>>, BooksTyped', now' <= MaxTime
      PROVE  KarmaInv'
  <2>1. Worth' = Worth /\ \A m : Received(m)' = Received(m) /\ Given(m)' = Given(m)
    BY <1>1 DEF Worth, Received, Given
  <2>2. \A m : Ledger(m)' = Ledger(m)
    BY <1>1, <2>1 DEF Ledger, Credited
  <2>3. QED
    BY <1>1, <2>2 DEF KarmaInv, CreditedOnce, Honest
<1>2. ASSUME NEW m \in Commitments, NEW w \in Commitments, EstablishWingPeer(m, w) PROVE KarmaInv'
  BY <1>2, AwardStep
<1>3. ASSUME NEW m \in Commitments, NEW w \in Commitments, EndWingPeer(m, w) PROVE KarmaInv'
  <2>1. /\ bond' = [bond EXCEPT ![m].active = FALSE]
        /\ UNCHANGED <<now, members, awards, points, gifts, params, carried, full>>
    BY <1>3 DEF EndWingPeer
  <2>2. DOMAIN bond' = DOMAIN bond /\ \A x \in DOMAIN bond' : bond'[x].wing = bond[x].wing
    BY <2>1
  <2>3. BooksTyped' /\ now' <= MaxTime
    BY <2>1, <2>2 DEF KarmaInv, BooksTyped
  <2>4. QED
    BY <2>1, <2>3, <1>1
<1>4. ASSUME NEW m \in Commitments, NEW w \in Commitments, ReclaimKarma(m, w) PROVE KarmaInv'
  BY <1>4, ReclaimStep
<1>5. ASSUME NEW m \in Commitments, NEW w \in Commitments, NEW n \in Amounts, GiveKarma(m, w, n)
      PROVE  KarmaInv'
  BY <1>5, GiftStep
<1>6. ASSUME NEW v \in Votes, SetKarmaParams(v) PROVE KarmaInv'
  <2>1. /\ carried' = carried \cup {v} /\ params' = v
        /\ UNCHANGED <<now, members, bond, awards, points, gifts, full>>
    BY <1>6 DEF SetKarmaParams
  <2>2. BooksTyped' /\ now' <= MaxTime
    BY <2>1 DEF KarmaInv, BooksTyped
  <2>3. QED
    BY <2>1, <2>2, <1>1
<1>7. ASSUME NEW m \in Revocable, Issue(m) \/ Revoke(m) PROVE KarmaInv'
  <2>1. /\ DOMAIN members' \subseteq DOMAIN members \cup {m}
        /\ UNCHANGED <<now, bond, awards, points, gifts, params, carried, full>>
    BY <1>7 DEF Issue, Revoke, Put
  <2>2. BooksTyped' /\ now' <= MaxTime
    BY <2>1 DEF KarmaInv, BooksTyped
  <2>3. QED
    BY <2>1, <2>2, <1>1
<1>8. CASE Tick
  <2>1. /\ now < MaxTime /\ now' = now + 1
        /\ UNCHANGED <<members, bond, awards, points, gifts, params, carried, full>>
    BY <1>8 DEF Tick
  <2>2. BooksTyped' /\ now' <= MaxTime
    BY <2>1 DEF KarmaInv, BooksTyped
  <2>3. QED
    BY <2>1, <2>2, <1>1
<1>9. QED
  BY <1>2, <1>3, <1>4, <1>5, <1>6, <1>7, <1>8 DEF KarmaNext

\* At the start every total is zero, and so is what it stands for.
LEMMA KarmaInvInit ==
    ASSUME KarmaInit PROVE KarmaInv
<1> USE KarmaAssumption
<1>1. /\ now = 0 /\ members = [m \in Commitments |-> Period] /\ bond = [m \in {} |-> 0]
      /\ awards = {} /\ points = [m \in Commitments |-> 0] /\ gifts = [g \in {} |-> 0]
      /\ params = Unset /\ carried = {} /\ full = {}
  BY DEF KarmaInit
<1>2. DOMAIN gifts = {} /\ DOMAIN bond = {} /\ DOMAIN members = Commitments
  BY <1>1
<1>3. BooksTyped
  BY <1>1, <1>2, FS_EmptySet DEF BooksTyped
<1>4. ASSUME NEW m \in Commitments PROVE Honest(m)
  <2>1. Received(m) = {} /\ Given(m) = {}
    BY <1>2 DEF Received, Given
  <2>2. Ledger(m) = 0
    BY <1>1, <2>1, SumOfNothing DEF Ledger, Credited
  <2>3. QED
    BY <1>1, <2>2 DEF Honest
<1>5. QED
  BY <1>1, <1>3, <1>4 DEF KarmaInv, CreditedOnce

\* The books of karma stand whatever the faucet does beside them.
LEMMA KarmaInvKept ==
    ASSUME KarmaInv, [Next]_vars PROVE KarmaInv'
<1>1. CASE UNCHANGED karmaVars
  <2>1. UNCHANGED <<now, members, bond, awards, points, gifts, params, carried, full>>
    BY <1>1 DEF karmaVars
  <2>2. Worth' = Worth /\ \A m : Received(m)' = Received(m) /\ Given(m)' = Given(m)
    BY <2>1 DEF Worth, Received, Given
  <2>3. \A m : Ledger(m)' = Ledger(m)
    BY <2>1, <2>2 DEF Ledger, Credited
  <2>4. QED
    BY <2>1, <2>3 DEF KarmaInv, BooksTyped, CreditedOnce, Honest
<1>2. CASE KarmaNext
  BY <1>2, KarmaInvStep
<1>3. ASSUME NEW m \in Commitments, ActivateFaucet(m) \/ ActivateFaucetZk(m)
      PROVE  UNCHANGED karmaVars
  BY <1>3 DEF ActivateFaucet, ActivateFaucetZk, PayUniformGrant, karmaVars
<1>4. QED
  BY <1>1, <1>2, <1>3
  DEF Next, vars, karmaVars, InitFaucet, DonateToJar, SetFaucetAmount, RefillFaucet

\* The invariant of the wing-peer links, for every Circle, every policy that is
\* voted in and every order of links, gifts, returns and revocations.
THEOREM KarmaInvariant == Spec => []KarmaInv
<1>1. Init => KarmaInv
  BY KarmaInvInit DEF Init
<1>2. KarmaInv /\ [Next]_vars => KarmaInv'
  BY KarmaInvKept
<1>3. QED
  BY <1>1, <1>2, PTL DEF Spec

\* Karma is made only by accepting a link, once for each two people, and by a
\* gift, once for each giver and receiver, and a gift comes back once: no total
\* is ever more than these, nor less unless it was cut off at the largest number
\* there is (establish_wing_peer.rs:29-78, give_karma.rs, reclaim_karma.rs).
THEOREM KarmaAccountedAlways == Spec => []KarmaAccounted
<1>1. KarmaInv => KarmaAccounted
  BY KarmaAssumption DEF KarmaInv, BooksTyped, CreditedOnce, Honest, KarmaAccounted, KarmaTypeOK
<1>2. QED
  BY KarmaInvariant, <1>1, PTL

-----------------------------------------------------------------------------
(* The books of the jar. *)

\* Before it is opened the jar has no books; what is counted is finite.
JarBooks ==
    /\ JarAccounted /\ IsFiniteSet(filled) /\ IsFiniteSet(grants)
    /\ ~Open => grants = {} /\ filled = {} /\ donated = 0

FaucetInv == KarmaInv /\ JarInv /\ JarBooks

LEMMA JarSumTypes ==
    ASSUME FaucetInv
    PROVE  /\ Addable([b \in filled |-> b.amount], filled) /\ Voted \in Int
           /\ Addable([g \in grants |-> g.amount], grants) /\ Paid \in Int
<1>1. Addable([b \in filled |-> b.amount], filled)
  BY FaucetAssumption DEF Addable, FaucetInv, JarBooks, JarAccounted, FaucetTypeOK
<1>2. Addable([g \in grants |-> g.amount], grants)
  BY DEF Addable, FaucetInv, JarBooks, JarInv, Typed
<1>3. QED
  BY <1>1, <1>2, SumType DEF Voted, Paid

\* What an open jar is.
LEMMA OpenJar ==
    ASSUME FaucetInv, Open
    PROVE  /\ jar \in Jar /\ jar.grant \in 1..MaxGrant /\ jar.changedAt \in (-Cooldown)..now
           /\ jar.lamports \in Nat /\ jar.granted = Cardinality(grants) /\ jar.granted \in Nat
           /\ jar = [grant |-> jar.grant, granted |-> jar.granted, changedAt |-> jar.changedAt,
                     lamports |-> jar.lamports]
           /\ jar.lamports = donated + Voted - Paid
BY DEF FaucetInv, JarInv, Typed, Open, Jar, JarBooks, JarAccounted, FaucetTypeOK

\* A retune or a gift of lamports leaves the histories alone.
LEMMA JarTouched ==
    ASSUME FaucetInv, Open, UNCHANGED <<now, treasury, grants, filled>>,
           NEW gr \in 1..MaxGrant, NEW ch \in (-Cooldown)..now, NEW d \in Nat,
           donated' = donated + d, donated' <= MaxDonated,
           jar' = [grant |-> gr, granted |-> jar.granted, changedAt |-> ch,
                   lamports |-> jar.lamports + d]
    PROVE  JarBooks'
<1> USE FaucetAssumption
<1>1. Voted' = Voted /\ Paid' = Paid /\ Voted \in Int /\ Paid \in Int
  BY JarSumTypes DEF Voted, Paid
<1>2. jar'.grant = gr /\ jar'.granted = jar.granted /\ jar'.changedAt = ch
      /\ jar'.lamports = jar.lamports + d /\ Open'
  BY DEF Open, NoJar
<1>3. donated \in 0..MaxDonated
  BY DEF FaucetInv, JarBooks, JarAccounted, FaucetTypeOK
<1>4. FaucetTypeOK'
  BY <1>2, <1>3, OpenJar DEF FaucetInv, JarBooks, JarAccounted, FaucetTypeOK
<1>5. jar'.lamports = donated' + Voted' - Paid'
  BY <1>1, <1>2, <1>3, OpenJar
<1>6. QED
  BY <1>1, <1>2, <1>4, <1>5 DEF FaucetInv, JarBooks, JarAccounted

\* A grant pays what it writes down, to a commitment that had none
\* (activate_faucet.rs:39-97).
LEMMA GrantPaid ==
    ASSUME FaucetInv, NEW m \in Commitments, m \in DOMAIN bond, PayUniformGrant(m, bond[m].wing)
    PROVE  JarBooks'
<1> USE FaucetAssumption
<1> DEFINE w == bond[m].wing
           new == [to |-> m, amount |-> jar.grant, at |-> now, by |-> w]
           e == [g \in grants |-> g.amount]
           f == [g \in grants' |-> g.amount]
<1>1. /\ Open /\ m \notin Granted /\ jar.lamports >= jar.grant
      /\ jar' = [jar EXCEPT !.lamports = @ - jar.grant, !.granted = @ + 1]
      /\ grants' = grants \cup {new}
      /\ UNCHANGED <<now, treasury, filled, donated>>
  BY DEF PayUniformGrant, karmaVars
<1>2. /\ jar \in Jar /\ jar.grant \in 1..MaxGrant /\ jar.changedAt \in (-Cooldown)..now
      /\ jar.lamports \in Nat /\ jar.granted = Cardinality(grants) /\ jar.granted \in Nat
      /\ jar.lamports = donated + Voted - Paid
  BY <1>1, OpenJar
<1>3. jar' = [grant |-> jar.grant, granted |-> jar.granted + 1, changedAt |-> jar.changedAt,
              lamports |-> jar.lamports - jar.grant]
  BY <1>1, <1>2 DEF Jar
<1>4. Open'
  BY <1>3 DEF Open, NoJar
<1>5. new \notin grants /\ \A g \in grants : g.to # m
  BY <1>1 DEF Granted
<1>6. IsFiniteSet(grants) /\ IsFiniteSet(filled) /\ donated \in 0..MaxDonated
      /\ \A g \in grants : g.amount \in Nat
  BY DEF FaucetInv, JarBooks, JarAccounted, FaucetTypeOK, JarInv, Typed
<1>7. w \in Commitments /\ w # m
  BY DEF FaucetInv, KarmaInv, BooksTyped
<1>8. new.to = m /\ new.amount = jar.grant /\ new.by = w
  OBVIOUS
<1>9. Cardinality(grants') = jar.granted + 1 /\ IsFiniteSet(grants')
  BY <1>1, <1>2, <1>5, <1>6, FS_AddElement
<1>10. /\ Addable(f, grants \cup {new}) /\ SameOn(e, f, grants) /\ Addable(e, grants)
       /\ f[new] = jar.grant
  BY <1>1, <1>2, <1>6, <1>8, <1>9 DEF Addable, SameOn
<1>11. Paid = SumFunctionOnSet(e, grants) /\ Paid' = SumFunctionOnSet(f, grants \cup {new})
  BY <1>1 DEF Paid
<1> HIDE DEF e, f, new, w
<1>12. Paid' = jar.grant + Paid
  <2>1. SumFunctionOnSet(f, grants \cup {new}) = f[new] + SumFunctionOnSet(f, grants)
    BY <1>5, <1>10, SumPutsIn
  <2>2. SumFunctionOnSet(e, grants) = SumFunctionOnSet(f, grants)
    BY <1>10, SumOfSame
  <2>3. QED
    BY <2>1, <2>2, <1>10, <1>11
<1>13. Voted' = Voted /\ Voted \in Int /\ Paid \in Int
  BY <1>1, JarSumTypes DEF Voted
<1>14. FaucetTypeOK'
  BY <1>1, <1>2, <1>3, <1>9 DEF FaucetInv, JarBooks, JarAccounted, FaucetTypeOK
<1>15. jar'.lamports = donated' + Voted' - Paid'
  BY <1>1, <1>2, <1>3, <1>6, <1>12, <1>13
<1>16. /\ \A g, h \in grants' : g.to = h.to => g = h
       /\ \A g \in grants' : g.by # g.to
  BY <1>1, <1>5, <1>7, <1>8 DEF FaucetInv, JarBooks, JarAccounted
<1>17. QED
  BY <1>1, <1>4, <1>9, <1>13, <1>14, <1>15, <1>16 DEF FaucetInv, JarBooks, JarAccounted

LEMMA CeilingGrows ==
    ASSUME NEW a \in Nat, NEW b \in Nat, NEW c \in Nat, a <= b PROVE a * c <= b * c
<1>1. PICK d \in Nat : b = a + d
  <2>1. b - a \in Nat /\ b = a + (b - a)
    OBVIOUS
  <2>2. QED
    BY <2>1
<1>2. d * c \in Nat /\ (a + d) * c = a * c + d * c
  OBVIOUS
<1>3. QED
  BY <1>1, <1>2

\* A refill moves what its ballot names, once, under the ceiling of the day
\* (refill_faucet.rs:16-45).
LEMMA RefillMoves ==
    ASSUME FaucetInv, NEW b \in Ballots, RefillFaucet(b)
    PROVE  JarBooks'
<1> USE FaucetAssumption
<1> DEFINE e == [x \in filled |-> x.amount]
           f == [x \in filled' |-> x.amount]
<1>1. /\ Open /\ b \notin filled /\ b.amount > 0 /\ b.amount \in Nat
      /\ b.amount <= jar.grant * MaxRefillGrants /\ treasury >= b.amount
      /\ treasury' = treasury - b.amount /\ jar' = [jar EXCEPT !.lamports = @ + b.amount]
      /\ filled' = filled \cup {b}
      /\ UNCHANGED <<now, grants, donated>>
  BY DEF RefillFaucet, karmaVars
<1>2. /\ jar \in Jar /\ jar.grant \in 1..MaxGrant /\ jar.changedAt \in (-Cooldown)..now
      /\ jar.lamports \in Nat /\ jar.granted = Cardinality(grants) /\ jar.granted \in Nat
      /\ jar.lamports = donated + Voted - Paid
  BY <1>1, OpenJar
<1>3. jar' = [grant |-> jar.grant, granted |-> jar.granted, changedAt |-> jar.changedAt,
              lamports |-> jar.lamports + b.amount]
  BY <1>1, <1>2 DEF Jar
<1>4. Open'
  BY <1>3 DEF Open, NoJar
<1>5. /\ IsFiniteSet(filled) /\ donated \in 0..MaxDonated /\ filled \subseteq Ballots
      /\ treasury \in Nat /\ treasury = Funds - Voted
      /\ \A x \in filled : x.amount <= MaxGrant * MaxRefillGrants
  BY DEF FaucetInv, JarBooks, JarAccounted, FaucetTypeOK
<1>6. IsFiniteSet(filled') /\ filled' \subseteq Ballots
  BY <1>1, <1>5, FS_AddElement
<1>7. /\ Addable(f, filled \cup {b}) /\ SameOn(e, f, filled) /\ Addable(e, filled)
      /\ f[b] = b.amount
      /\ Voted = SumFunctionOnSet(e, filled) /\ Voted' = SumFunctionOnSet(f, filled \cup {b})
  BY <1>1, <1>5, <1>6 DEF Addable, SameOn, Voted
<1> HIDE DEF e, f
<1>8. Voted' = b.amount + Voted
  <2>1. SumFunctionOnSet(f, filled \cup {b}) = f[b] + SumFunctionOnSet(f, filled)
    BY <1>1, <1>7, SumPutsIn
  <2>2. SumFunctionOnSet(e, filled) = SumFunctionOnSet(f, filled)
    BY <1>7, SumOfSame
  <2>3. QED
    BY <2>1, <2>2, <1>7
<1>9. Paid' = Paid /\ Voted \in Int /\ Paid \in Int
  BY <1>1, JarSumTypes DEF Paid
<1>10. FaucetTypeOK'
  BY <1>1, <1>2, <1>3, <1>5, <1>6 DEF FaucetInv, JarBooks, JarAccounted, FaucetTypeOK
<1>11. jar'.lamports = donated' + Voted' - Paid' /\ treasury' = Funds - Voted'
  BY <1>1, <1>2, <1>3, <1>5, <1>8, <1>9
<1>12. jar.grant * MaxRefillGrants <= MaxGrant * MaxRefillGrants
  BY <1>2, CeilingGrows
<1>13. b.amount <= MaxGrant * MaxRefillGrants
  <2>1. jar.grant * MaxRefillGrants \in Nat /\ MaxGrant * MaxRefillGrants \in Nat
    BY <1>2
  <2>2. QED
    BY <2>1, <1>1, <1>12
<1>14. QED
  BY <1>1, <1>4, <1>5, <1>6, <1>9, <1>10, <1>11, <1>13 DEF FaucetInv, JarBooks, JarAccounted

\* The invariant of the whole faucet: the books of karma, what grants remember
\* of the amount, and the books of the jar.
THEOREM FaucetInvariant == Spec => []FaucetInv
<1> USE FaucetAssumption
<1>1. Init => FaucetInv
  <2> SUFFICES ASSUME Init PROVE FaucetInv
    OBVIOUS
  <2>1. KarmaInv
    BY KarmaInvInit DEF Init
  <2>2. JarInv
    BY DEF Init, KarmaInit, JarInv, Typed, Remembered, NobodySingledOut
  <2>3. jar = NoJar /\ treasury = Funds /\ grants = {} /\ filled = {} /\ donated = 0 /\ ~Open
    BY DEF Init, Open
  <2>4. Voted = 0 /\ Paid = 0
    BY <2>3, SumOfNothing DEF Voted, Paid
  <2>5. JarBooks
    BY <2>3, <2>4, FS_EmptySet DEF JarBooks, JarAccounted, FaucetTypeOK
  <2>6. QED
    BY <2>1, <2>2, <2>5 DEF FaucetInv
<1>2. FaucetInv /\ [Next]_vars => FaucetInv'
  <2> SUFFICES ASSUME FaucetInv, [Next]_vars PROVE JarBooks'
    BY KarmaInvKept, JarInvStep DEF FaucetInv
  <2>1. ASSUME UNCHANGED faucetVars, now' >= now, now' \in Nat PROVE JarBooks'
    <3>1. UNCHANGED <<jar, treasury, grants, filled, donated>>
      BY <2>1 DEF faucetVars
    <3>2. Voted' = Voted /\ Paid' = Paid /\ Open' = Open
      BY <3>1 DEF Voted, Paid, Open
    <3>3. now \in Nat
      BY DEF FaucetInv, JarInv, Typed
    <3>4. FaucetTypeOK'
      BY <2>1, <3>1, <3>2, <3>3 DEF FaucetInv, JarBooks, JarAccounted, FaucetTypeOK
    <3>5. QED
      BY <3>1, <3>2, <3>4 DEF FaucetInv, JarBooks, JarAccounted
  <2>2. CASE KarmaNext /\ UNCHANGED faucetVars
    BY <2>1, <2>2, KarmaStep DEF FaucetInv, JarInv
  <2>3. CASE UNCHANGED vars
    BY <2>1, <2>3 DEF vars, karmaVars, FaucetInv, JarInv, Typed
  <2>4. CASE InitFaucet
    <3>1. /\ ~Open /\ UNCHANGED <<now, treasury, grants, filled, donated>>
          /\ jar' = [grant |-> DefaultGrant, granted |-> 0, changedAt |-> -Cooldown, lamports |-> 0]
      BY <2>4 DEF InitFaucet, karmaVars
    <3>2. grants = {} /\ filled = {} /\ donated = 0 /\ now \in Nat
      BY <3>1 DEF FaucetInv, JarBooks, JarInv, Typed
    <3>3. Voted' = Voted /\ Paid' = Paid /\ Voted = 0 /\ Paid = 0
      BY <3>1, <3>2, SumOfNothing DEF Voted, Paid
    <3>4. Open'
      BY <3>1 DEF Open, NoJar
    <3>5. FaucetTypeOK'
      BY <3>1, <3>2, FS_EmptySet DEF FaucetInv, JarBooks, JarAccounted, FaucetTypeOK
    <3>6. QED
      BY <3>1, <3>2, <3>3, <3>4, <3>5 DEF FaucetInv, JarBooks, JarAccounted
  <2>5. CASE DonateToJar
    <3>1. /\ Open /\ donated < MaxDonated /\ donated' = donated + 1
          /\ jar' = [jar EXCEPT !.lamports = @ + 1]
          /\ UNCHANGED <<now, treasury, grants, filled>>
      BY <2>5 DEF DonateToJar, karmaVars
    <3>2. donated \in Nat
      BY DEF FaucetInv, JarBooks, JarAccounted, FaucetTypeOK
    <3>3. jar' = [grant |-> jar.grant, granted |-> jar.granted, changedAt |-> jar.changedAt,
                  lamports |-> jar.lamports + 1]
      BY <3>1, OpenJar
    <3>4. jar.grant \in 1..MaxGrant /\ jar.changedAt \in (-Cooldown)..now
      BY <3>1, OpenJar
    <3>5. QED
      <4>1. donated' <= MaxDonated
        BY <3>1, <3>2
      <4>2. QED
        BY <3>1, <3>3, <3>4, <4>1, JarTouched
  <2>6. ASSUME NEW n \in 1..MaxGrant, SetFaucetAmount(n) PROVE JarBooks'
    <3>1. /\ Open /\ jar' = [jar EXCEPT !.grant = n, !.changedAt = now]
          /\ UNCHANGED <<now, treasury, grants, filled, donated>>
      BY <2>6 DEF SetFaucetAmount, karmaVars
    <3>2. donated \in 0..MaxDonated /\ now \in (-Cooldown)..now
      BY DEF FaucetInv, JarBooks, JarAccounted, FaucetTypeOK, JarInv, Typed
    <3>3. jar.lamports \in Nat
      BY <3>1, OpenJar
    <3>4. jar' = [grant |-> n, granted |-> jar.granted, changedAt |-> now,
                  lamports |-> jar.lamports + 0]
      <4>1. jar' = [grant |-> n, granted |-> jar.granted, changedAt |-> now, lamports |-> jar.lamports]
        BY <3>1, OpenJar
      <4>2. jar.lamports + 0 = jar.lamports
        BY <3>3
      <4>3. QED
        BY <4>1, <4>2
    <3>5. donated' = donated + 0 /\ donated' <= MaxDonated
      BY <3>1, <3>2
    <3>6. QED
      BY <3>1, <3>2, <3>4, <3>5, JarTouched
  <2>7. ASSUME NEW m \in Commitments, ActivateFaucet(m) \/ ActivateFaucetZk(m) PROVE JarBooks'
    BY <2>7, GrantPaid DEF ActivateFaucet, ActivateFaucetZk, Linked
  <2>8. ASSUME NEW b \in Ballots, RefillFaucet(b) PROVE JarBooks'
    BY <2>8, RefillMoves
  <2>9. QED
    BY <2>2, <2>3, <2>4, <2>5, <2>6, <2>7, <2>8 DEF Next
<1>3. QED
  BY <1>1, <1>2, PTL DEF Spec

\* The jar holds what was given and voted and not yet granted, and the treasury
\* lost what the ballots named; each ballot moved money once and under the
\* ceiling, each commitment was granted once and by another's word
\* (activate_faucet.rs, activate_faucet_zk.rs, refill_faucet.rs).
THEOREM JarAccountedAlways == Spec => []JarAccounted
<1>1. FaucetInv => JarAccounted
  BY DEF FaucetInv, JarBooks
<1>2. QED
  BY FaucetInvariant, <1>1, PTL

\* No act at the jar makes, moves or takes karma, links or unlinks anybody: seen
\* through its own state the Circle's karma behaves as it does without a faucet
\* (activate_faucet.rs and activate_faucet_zk.rs only read the link).
THEOREM FaucetRefinesKarma == Spec => KarmaInit /\ [][KarmaNext]_karmaVars
<1>1. Init => KarmaInit
  BY DEF Init
<1>2. [Next]_vars => [KarmaNext]_karmaVars
  <2> SUFFICES ASSUME [Next]_vars PROVE KarmaNext \/ UNCHANGED karmaVars
    OBVIOUS
  <2>1. ASSUME NEW n \in 1..MaxGrant, SetFaucetAmount(n) PROVE UNCHANGED karmaVars
    BY <2>1 DEF SetFaucetAmount
  <2>2. ASSUME NEW m \in Commitments, ActivateFaucet(m) \/ ActivateFaucetZk(m)
        PROVE  UNCHANGED karmaVars
    BY <2>2 DEF ActivateFaucet, ActivateFaucetZk, PayUniformGrant
  <2>3. ASSUME NEW b \in Ballots, RefillFaucet(b) PROVE UNCHANGED karmaVars
    BY <2>3 DEF RefillFaucet
  <2>4. CASE InitFaucet \/ DonateToJar \/ UNCHANGED vars
    BY <2>4 DEF InitFaucet, DonateToJar, vars
  <2> QED
    BY <2>1, <2>2, <2>3, <2>4 DEF Next
<1>3. QED
  BY <1>1, <1>2, PTL DEF Spec

=============================================================================
