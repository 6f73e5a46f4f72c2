------------------------ MODULE ShardRecoveryProofs ------------------------
(***************************************************************************)
(* For any number of devices, cuts and faults and any window: a recovery   *)
(* never yields noise (NeverGarbage of module ShardRecovery), two sponsors *)
(* alone restore a secret only after the window (WindowHeld), and handovers *)
(* and interrupted renewals leave two holders of one cut (AnyTwo).         *)
(*                                                                         *)
(* Three invariants, each on top of the one before.  RecoveryInv says how  *)
(* far a shard is known to belong to the code it is used under: blobs and  *)
(* handlers are about cuts that were made, the first sponsor's shard on    *)
(* the page is of the code that opened it, and a secret on the page is the *)
(* one that was split under the page's code.  WindowInv ties the pending   *)
(* intent, the filed shards, the handler that files them and the page to   *)
(* who was met when.  HandInv ties a page that hands over, and a re-issue  *)
(* at work, to the own shard of the same cut.                              *)
(***************************************************************************)
EXTENDS ShardRecovery, SequenceTheorems, TLAPS

Places   == {"home", "code", "sendA", "sendB", "present", "first", "second",
             "filing", "burn first", "burn second", "forget", "recovered", "reissue"}
Page     == [at : Places, code : Int, first : Sponsors \cup {"none"}, shard : Int,
             master : Int, old : Int, deaf : BOOLEAN]
Intent   == [code : Int, openedAt : Int]
Adoption == [at : {"none", "view", "seal"}, buf : Int]
Blobs    == Int \X {"own", "first", "second"} \X Int
Handler  == [at : {"none", "store first", "store second", "save intent", "burn old", "show code"},
             code : Int, old : Int, first : Int, second : Int]

Typed ==
    /\ keystore \in [Devices -> Int] /\ session \in [Devices -> Int]
    /\ custody \in [Devices -> SUBSET Blobs]
    /\ pending \in [Devices -> Intent]
    /\ page \in [Devices -> Page]
    /\ adopt \in [Devices -> Adoption]
    /\ cutMaster \in Seq(Int) /\ created \in Int /\ now \in Int

Looking == {"present", "first", "second"}

PageOK(p, cuts) ==
    /\ p.master # NoSecret => p.code \in DOMAIN cuts /\ p.master = cuts[p.code]
    /\ p.at \in Looking => p.code \in DOMAIN cuts
    /\ p.at = "second" => p.shard = p.code

BlobsOK(blobs, cuts) ==
    \A b \in blobs : b[1] \in DOMAIN cuts /\ b[3] \in DOMAIN cuts \cup {NoCode}

WorkOK(h, cuts) ==
    /\ {h.code, h.first, h.second} \subseteq DOMAIN cuts \cup {NoCode}
    /\ h.at # "none" => h.code \in DOMAIN cuts

Belongs ==
    \A d \in Devices : PageOK(page[d], cutMaster) /\ BlobsOK(custody[d], cutMaster)

Worked ==
    /\ handler \in [Devices -> Handler]
    /\ \A d \in Devices : WorkOK(handler[d], cutMaster)

PagesInv    == Typed /\ Belongs
RecoveryInv == PagesInv /\ Worked

-----------------------------------------------------------------------------
(* A new cut leaves what is known of the earlier ones.                     *)

LEMMA CutsGrow ==
    ASSUME NEW cuts \in Seq(Int), NEW secret \in Int
    PROVE  LET more == Append(cuts, secret)
           IN  /\ more \in Seq(Int) /\ Len(more) = Len(cuts) + 1
               /\ Len(more) \in DOMAIN more /\ more[Len(more)] = secret
               /\ Len(more) \in Int
               /\ \A c \in DOMAIN cuts : c \in DOMAIN more /\ more[c] = cuts[c]
  BY AppendProperties, LenProperties

LEMMA PageKept ==
    ASSUME NEW cuts \in Seq(Int), NEW secret \in Int, NEW p, PageOK(p, cuts)
    PROVE  PageOK(p, Append(cuts, secret))
  BY CutsGrow DEF PageOK

LEMMA BlobsKept ==
    ASSUME NEW cuts \in Seq(Int), NEW secret \in Int, NEW blobs, BlobsOK(blobs, cuts)
    PROVE  BlobsOK(blobs, Append(cuts, secret))
  BY CutsGrow DEF BlobsOK

LEMMA CodesAreInts ==
    ASSUME Typed PROVE Codes \subseteq Int
  BY LenProperties DEF Typed, Codes

-----------------------------------------------------------------------------
(* What a step has to show: of one device, and of the page and the blobs   *)
(* it leaves there.                                                        *)

LEMMA Shown ==
    ASSUME RecoveryInv, NEW d \in Devices, NEW p \in Page, PageOK(p, cutMaster),
           Show(d, p)
    PROVE  /\ page' \in [Devices -> Page]
           /\ \A e \in Devices : PageOK(page'[e], cutMaster)
  <1>1. page' = [page EXCEPT ![d] = p]
    BY DEF Show
  <1>2. page \in [Devices -> Page]
    BY DEF RecoveryInv, PagesInv, Typed
  <1>3. \A e \in Devices : page'[e] = IF e = d THEN p ELSE page[e]
    BY <1>1, <1>2
  <1>. QED
    BY <1>1, <1>2, <1>3 DEF RecoveryInv, PagesInv, Belongs

LEMMA HomeOK == Home \in Page /\ \A cuts : PageOK(Home, cuts)
  <1>1. Home \in Page
    BY DEF Home, Page, Places, NoCode, NoSecret
  <1>2. Home.master = NoSecret /\ Home.at = "home"
    BY DEF Home
  <1>3. "home" \notin Looking /\ "home" # "second"
    BY DEF Looking
  <1>. QED
    BY <1>1, <1>2, <1>3 DEF PageOK

\* The page moves, the custody and the cuts do not.
LEMMA PageStep ==
    ASSUME RecoveryInv, NEW d \in Devices, NEW p \in Page, PageOK(p, cutMaster),
           Show(d, p), UNCHANGED <<custody, cutMaster>>
    PROVE  /\ page' \in [Devices -> Page] /\ custody' \in [Devices -> SUBSET Blobs]
           /\ cutMaster' \in Seq(Int) /\ Belongs'
  <1>1. /\ page' \in [Devices -> Page]
        /\ \A e \in Devices : PageOK(page'[e], cutMaster)
    BY Shown
  <1>. QED
    BY <1>1 DEF RecoveryInv, PagesInv, Typed, Belongs

\* The page moves and the custody of the same device changes.
LEMMA BlobStep ==
    ASSUME RecoveryInv, NEW d \in Devices, NEW p \in Page, PageOK(p, cutMaster),
           Show(d, p), UNCHANGED cutMaster,
           NEW blobs \in SUBSET Blobs, BlobsOK(blobs, cutMaster),
           custody' = [custody EXCEPT ![d] = blobs]
    PROVE  /\ page' \in [Devices -> Page] /\ custody' \in [Devices -> SUBSET Blobs]
           /\ cutMaster' \in Seq(Int) /\ Belongs'
  <1>1. /\ page' \in [Devices -> Page]
        /\ \A e \in Devices : PageOK(page'[e], cutMaster)
    BY Shown
  <1>2. custody \in [Devices -> SUBSET Blobs]
    BY DEF RecoveryInv, PagesInv, Typed
  <1>3. \A e \in Devices : custody'[e] = IF e = d THEN blobs ELSE custody[e]
    BY <1>2
  <1>. QED
    BY <1>1, <1>2, <1>3 DEF RecoveryInv, PagesInv, Typed, Belongs

LEMMA NoIntentOK == NoIntent \in Intent /\ NoCode \in Int
  BY DEF NoIntent, Intent, NoCode

LEMMA OwnIsBlob ==
    ASSUME NEW c \in Int
    PROVE  Own(c) \in Blobs /\ Own(c)[1] = c /\ Own(c)[3] = c
  BY DEF Own, Blobs

\* A fresh cut: the page moves to a page of the new cuts.
LEMMA CutStep ==
    ASSUME RecoveryInv, NEW d \in Devices, NEW secret \in Int, Cut(d, secret),
           NEW p \in Page, PageOK(p, cutMaster'), Show(d, p)
    PROVE  /\ page' \in [Devices -> Page] /\ custody' \in [Devices -> SUBSET Blobs]
           /\ cutMaster' \in Seq(Int) /\ Belongs'
  <1>1. /\ cutMaster \in Seq(Int) /\ custody \in [Devices -> SUBSET Blobs]
        /\ page \in [Devices -> Page]
    BY DEF RecoveryInv, PagesInv, Typed
  <1>2. cutMaster' = Append(cutMaster, secret)
    BY DEF Cut
  <1>3. /\ cutMaster' \in Seq(Int) /\ Len(cutMaster) + 1 \in DOMAIN cutMaster'
        /\ Len(cutMaster) + 1 \in Int
    BY <1>1, <1>2, CutsGrow
  <1>4. /\ page' \in [Devices -> Page]
        /\ \A e \in Devices : PageOK(page'[e], cutMaster')
    <2>1. \A e \in Devices : page'[e] = IF e = d THEN p ELSE page[e]
      BY <1>1 DEF Show
    <2>2. \A e \in Devices : PageOK(page[e], cutMaster')
      BY <1>1, <1>2, PageKept DEF RecoveryInv, PagesInv, Belongs
    <2>. QED
      BY <1>1, <2>1, <2>2 DEF Show
  <1>5. /\ custody' \in [Devices -> SUBSET Blobs]
        /\ \A e \in Devices : BlobsOK(custody'[e], cutMaster')
    <2>. DEFINE own == Own(Len(cutMaster) + 1)
    <2>1. own \in Blobs /\ own[1] \in DOMAIN cutMaster' /\ own[3] = own[1]
      BY <1>3, OwnIsBlob
    <2>2. custody' = [custody EXCEPT ![d] = @ \cup {own}]
      BY DEF Cut
    <2>3. \A e \in Devices : BlobsOK(custody[e], cutMaster')
      BY <1>1, <1>2, BlobsKept DEF RecoveryInv, PagesInv, Belongs
    <2>. HIDE DEF own
    <2>4. \A e \in Devices : custody'[e] = IF e = d THEN custody[e] \cup {own} ELSE custody[e]
      BY <1>1, <2>2
    <2>5. custody' \in [Devices -> SUBSET Blobs]
      BY <1>1, <2>1, <2>2
    <2>. QED
      BY <2>1, <2>3, <2>4, <2>5 DEF BlobsOK
  <1>. QED
    BY <1>3, <1>4, <1>5 DEF Belongs

-----------------------------------------------------------------------------
(* Where a secret or a code comes onto a page.                             *)

\* Two shards opened under one code of a cut that was made give its secret.
LEMMA CombineOK ==
    ASSUME RecoveryInv, NEW c \in Codes
    PROVE  Combine(c, c) = cutMaster[c] /\ Combine(c, c) \in Int /\ c \in Int
  BY CodesAreInts, ElementOfSeq, LenProperties DEF Combine, Codes, RecoveryInv, PagesInv, Typed

LEMMA PageOfDevice ==
    ASSUME RecoveryInv, NEW d \in Devices
    PROVE  page[d] \in Page /\ PageOK(page[d], cutMaster) /\ BlobsOK(custody[d], cutMaster)
  BY DEF RecoveryInv, PagesInv, Typed, Belongs

LEMMA InitRecovery == Init => RecoveryInv
  <1>. SUFFICES ASSUME Init PROVE RecoveryInv
    OBVIOUS
  <1>1. Typed
    <2>1. cutMaster \in Seq(Int) /\ created \in Int /\ now \in Int
      BY EmptySeq DEF Init
    <2>2. page \in [Devices -> Page]
      BY HomeOK DEF Init
    <2>3. custody \in [Devices -> SUBSET Blobs]
      BY DEF Init
    <2>4. pending \in [Devices -> Intent]
      BY DEF Init, Intent, NoIntent, NoCode
    <2>5. adopt \in [Devices -> Adoption]
      BY DEF Init, Adoption, NoAdopt, NoSecret
    <2>6. keystore \in [Devices -> Int] /\ session \in [Devices -> Int]
      BY DEF Init, NoKeystore, NoSecret
    <2>. QED
      BY <2>1, <2>2, <2>3, <2>4, <2>5, <2>6 DEF Typed
  <1>2. Belongs
    BY HomeOK DEF Init, Belongs, BlobsOK
  <1>3. Worked
    BY DEF Init, Worked, WorkOK, NoHandler, NoCode, Handler
  <1>. QED
    BY <1>1, <1>2, <1>3 DEF RecoveryInv, PagesInv

-----------------------------------------------------------------------------
(* One lemma per part of the module, one step per action.                  *)

LEMMA CeremonySteps ==
    ASSUME RecoveryInv, NEW d \in Devices,
           \/ CreateKeystore(d) \/ BeginCeremony(d) \/ NoteCode(d)
           \/ \E s \in Sponsors : HandOver(d, s)
    PROVE  PagesInv'
  <1>0. /\ Typed /\ page[d] \in Page /\ PageOK(page[d], cutMaster)
        /\ cutMaster \in Seq(Int) /\ created \in Int
    BY PageOfDevice DEF RecoveryInv, PagesInv, Typed
  <1>1. CASE CreateKeystore(d)
    <2>1. keystore' \in [Devices -> Int]
      BY <1>0, <1>1 DEF CreateKeystore, Typed, NoSecret
    <2>. QED
      BY <1>0, <1>1, <2>1
      DEF CreateKeystore, RecoveryInv, PagesInv, Typed, Belongs, world
  <1>2. CASE BeginCeremony(d)
    <2>. DEFINE p == [Home EXCEPT !.at = "code", !.code = Len(cutMaster')]
    <2>1. /\ created' \in Int /\ keystore' \in [Devices -> Int]
          /\ session' \in [Devices -> Int] /\ session'[d] \in Int
      BY <1>0, <1>2 DEF BeginCeremony, Typed, Known
    <2>2. Cut(d, session'[d]) /\ Show(d, p)
      BY <1>2 DEF BeginCeremony
    <2>3. Len(cutMaster') \in Int
      BY <1>0, <2>1, <2>2, CutsGrow DEF Cut
    <2>4. p \in Page /\ PageOK(p, cutMaster')
      <3>1. Home \in Page /\ Home.master = NoSecret
        BY HomeOK DEF Home
      <3>2. p \in Page
        BY <2>3, <3>1 DEF Page, Places
      <3>3. p.master = NoSecret /\ p.at = "code"
        BY <3>1 DEF Page
      <3>4. "code" \notin Looking /\ "code" # "second"
        BY DEF Looking
      <3>. QED
        BY <3>2, <3>3, <3>4 DEF PageOK
    <2>5. /\ page' \in [Devices -> Page] /\ custody' \in [Devices -> SUBSET Blobs]
          /\ cutMaster' \in Seq(Int) /\ Belongs'
      BY <2>1, <2>2, <2>4, CutStep
    <2>. QED
      BY <1>0, <1>2, <2>1, <2>5 DEF BeginCeremony, RecoveryInv, PagesInv, Typed, world
  <1>3. CASE NoteCode(d)
    <2>. DEFINE p == IF page[d].at = "code" THEN [page[d] EXCEPT !.at = "sendA"] ELSE page[d]
    <2>1. p \in Page /\ PageOK(p, cutMaster)
      <3>1. /\ [page[d] EXCEPT !.at = "sendA"] \in Page
            /\ PageOK([page[d] EXCEPT !.at = "sendA"], cutMaster)
        BY <1>0 DEF Page, Places, PageOK, Looking
      <3>. QED
        BY <1>0, <3>1
    <2>2. Show(d, p) /\ UNCHANGED <<custody, cutMaster>>
      BY <1>3 DEF NoteCode
    <2>. HIDE DEF p
    <2>3. /\ page' \in [Devices -> Page] /\ custody' \in [Devices -> SUBSET Blobs]
          /\ cutMaster' \in Seq(Int) /\ Belongs'
      BY <2>1, <2>2, PageStep
    <2>. QED
      BY <1>0, <1>3, <2>3 DEF NoteCode, RecoveryInv, PagesInv, Typed
  <1>4. CASE \E s \in Sponsors : HandOver(d, s)
    <2>1. PICK s \in Sponsors : HandOver(d, s)
      BY <1>4
    <2>. DEFINE p == IF s = "sponsor-1" THEN [page[d] EXCEPT !.at = "sendB"] ELSE Home
    <2>2. p \in Page /\ PageOK(p, cutMaster)
      <3>1. /\ [page[d] EXCEPT !.at = "sendB"] \in Page
            /\ PageOK([page[d] EXCEPT !.at = "sendB"], cutMaster)
        BY <1>0 DEF Page, Places, PageOK, Looking
      <3>. QED
        BY <3>1, HomeOK
    <2>3. Show(d, p) /\ UNCHANGED <<custody, cutMaster>>
      BY <2>1 DEF HandOver
    <2>4. /\ page' \in [Devices -> Page] /\ custody' \in [Devices -> SUBSET Blobs]
          /\ cutMaster' \in Seq(Int) /\ Belongs'
      BY <2>2, <2>3, PageStep
    <2>. QED
      BY <1>0, <2>1, <2>4 DEF HandOver, RecoveryInv, PagesInv, Typed
  <1>. QED
    BY <1>1, <1>2, <1>3, <1>4

LEMMA RefuseStep ==
    ASSUME RecoveryInv, NEW d \in Devices, Refuse(d),
           UNCHANGED <<keystore, session, custody, cutMaster, created, now>>
    PROVE  PagesInv'
  <1>. DEFINE p == [page[d] EXCEPT !.deaf = TRUE]
  <1>1. p \in Page /\ PageOK(p, cutMaster)
    BY PageOfDevice DEF Page, PageOK
  <1>2. Show(d, p) /\ UNCHANGED <<custody, cutMaster>>
    BY DEF Refuse
  <1>3. /\ page' \in [Devices -> Page] /\ custody' \in [Devices -> SUBSET Blobs]
        /\ cutMaster' \in Seq(Int) /\ Belongs'
    BY <1>1, <1>2, PageStep
  <1>. QED
    BY <1>3 DEF Refuse, RecoveryInv, PagesInv, Typed

\* RecoveredPanel shows a secret that belongs to the code it was found under.
LEMMA RecoveredStep ==
    ASSUME RecoveryInv, NEW d \in Devices, NEW secret \in Int, NEW code \in Int,
           NEW old \in Int, Recovered(d, secret, code, old),
           secret # NoSecret => code \in DOMAIN cutMaster /\ secret = cutMaster[code],
           UNCHANGED <<custody, cutMaster>>
    PROVE  /\ page' \in [Devices -> Page] /\ custody' \in [Devices -> SUBSET Blobs]
           /\ cutMaster' \in Seq(Int) /\ Belongs' /\ adopt' \in [Devices -> Adoption]
  <1>. DEFINE p == [Home EXCEPT !.at = "recovered", !.code = code,
                                !.master = secret, !.old = old]
  <1>1. p \in Page
    BY HomeOK DEF Page, Places
  <1>2. p.at = "recovered" /\ p.code = code /\ p.master = secret
    BY DEF Home
  <1>3. "recovered" \notin Looking /\ "recovered" # "second"
    BY DEF Looking
  <1>4. PageOK(p, cutMaster)
    BY <1>2, <1>3 DEF PageOK
  <1>5. Show(d, p)
    BY DEF Recovered
  <1>6. /\ page' \in [Devices -> Page] /\ custody' \in [Devices -> SUBSET Blobs]
        /\ cutMaster' \in Seq(Int) /\ Belongs'
    <2>. HIDE DEF p
    <2>. QED
      BY <1>1, <1>4, <1>5, PageStep
  <1>7. adopt' \in [Devices -> Adoption]
    BY DEF Recovered, RecoveryInv, PagesInv, Typed, Adoption
  <1>. QED
    BY <1>6, <1>7

LEMMA ScanSteps ==
    ASSUME RecoveryInv, NEW d \in Devices, NEW s \in Sponsors, NEW shard \in Codes,
           ScanPresent(d, s, shard) \/ ScanFirst(d, s, shard) \/ ScanSecond(d, s, shard)
    PROVE  PagesInv'
  <1>0. /\ Typed /\ page[d] \in Page /\ PageOK(page[d], cutMaster)
        /\ BlobsOK(custody[d], cutMaster) /\ custody[d] \in SUBSET Blobs
        /\ shard \in Int /\ page[d].code \in Int /\ page[d].first \in Sponsors \cup {"none"}
    BY PageOfDevice, CombineOK DEF RecoveryInv, PagesInv, Typed, Page
  <1>1. CASE ScanPresent(d, s, shard)
    <2>1. CASE Refuse(d)
      BY <1>1, <2>1, RefuseStep DEF ScanPresent
    <2>2. CASE /\ Opens(shard, page[d].code)
               /\ Recovered(d, Combine(page[d].code, shard), page[d].code, page[d].code)
               /\ UNCHANGED <<pending, handler, met>>
      <3>1. shard = page[d].code
        BY <2>2 DEF Opens
      <3>2. /\ page' \in [Devices -> Page] /\ custody' \in [Devices -> SUBSET Blobs]
            /\ cutMaster' \in Seq(Int) /\ Belongs' /\ adopt' \in [Devices -> Adoption]
        <4>1. Combine(shard, shard) = cutMaster[shard] /\ Combine(shard, shard) \in Int
          BY CombineOK
        <4>2. Recovered(d, Combine(shard, shard), shard, shard)
          BY <2>2, <3>1
        <4>3. UNCHANGED <<custody, cutMaster>>
          BY <1>1, <2>2 DEF ScanPresent
        <4>. QED
          BY <1>0, <4>1, <4>2, <4>3, RecoveredStep DEF Codes
      <3>. QED
        BY <1>0, <1>1, <2>2, <3>2 DEF ScanPresent, RecoveryInv, PagesInv, Typed
    <2>. QED
      BY <1>1, <2>1, <2>2 DEF ScanPresent
  <1>2. CASE ScanFirst(d, s, shard)
    <2>. DEFINE p == [page[d] EXCEPT !.at = "second", !.first = s, !.shard = shard]
    <2>1. CASE Refuse(d)
      BY <1>2, <2>1, RefuseStep DEF ScanFirst
    <2>2. CASE /\ Opens(shard, page[d].code) /\ Show(d, p) /\ Accept(d, s)
               /\ UNCHANGED <<pending, handler, adopt>>
      <3>1. shard = page[d].code
        BY <2>2 DEF Opens
      <3>2. p \in Page
        BY <1>0 DEF Page, Places
      <3>3. /\ p.master = page[d].master /\ p.code = page[d].code
            /\ p.shard = shard /\ p.at = "second"
        BY <1>0 DEF Page
      <3>4. PageOK(p, cutMaster)
        BY <1>0, <3>1, <3>3 DEF PageOK, Codes
      <3>5. /\ page' \in [Devices -> Page] /\ custody' \in [Devices -> SUBSET Blobs]
            /\ cutMaster' \in Seq(Int) /\ Belongs'
        <4>. HIDE DEF p
        <4>. QED
          BY <1>2, <2>2, <3>2, <3>4, PageStep DEF ScanFirst
      <3>. QED
        BY <1>0, <1>2, <2>2, <3>5 DEF ScanFirst, RecoveryInv, PagesInv, Typed
    <2>. QED
      BY <1>2, <2>1, <2>2 DEF ScanFirst
  <1>3. CASE ScanSecond(d, s, shard)
    <2>. DEFINE p == [page[d] EXCEPT !.at = "filing"]
    <2>1. CASE Refuse(d)
      BY <1>3, <2>1, RefuseStep DEF ScanSecond
    <2>2. CASE Show(d, p) /\ UNCHANGED <<pending, adopt>>
      <3>1. p \in Page
        BY <1>0 DEF Page, Places
      <3>2. p.master = page[d].master /\ p.code = page[d].code /\ p.at = "filing"
        BY <1>0 DEF Page
      <3>3. "filing" \notin Looking /\ "filing" # "second"
        BY DEF Looking
      <3>4. PageOK(p, cutMaster)
        BY <1>0, <3>2, <3>3 DEF PageOK
      <3>5. UNCHANGED <<keystore, session, custody, cutMaster, created, now>>
        BY <1>3 DEF ScanSecond
      <3>6. /\ page' \in [Devices -> Page] /\ custody' \in [Devices -> SUBSET Blobs]
            /\ cutMaster' \in Seq(Int) /\ Belongs'
        <4>. HIDE DEF p
        <4>. QED
          BY <2>2, <3>1, <3>4, <3>5, PageStep
      <3>. QED
        BY <1>0, <2>2, <3>5, <3>6 DEF RecoveryInv, PagesInv, Typed
    <2>. QED
      BY <1>3, <2>1, <2>2 DEF ScanSecond
  <1>. QED
    BY <1>1, <1>2, <1>3

LEMMA CollectSteps ==
    ASSUME RecoveryInv, NEW d \in Devices, NEW c \in Codes,
           UnlockOwn(d, c) \/ StartSponsorOnly(d, c)
    PROVE  PagesInv'
  <1>. DEFINE p(place) == [Home EXCEPT !.at = place, !.code = c]
  <1>1. c \in Int /\ c \in DOMAIN cutMaster
    BY CombineOK DEF Codes
  <1>2. ASSUME NEW place \in {"present", "first"}
        PROVE  p(place) \in Page /\ PageOK(p(place), cutMaster)
    <2>1. p(place) \in Page
      BY <1>1, HomeOK DEF Page, Places
    <2>2. p(place).master = NoSecret /\ p(place).code = c /\ p(place).at = place
      BY DEF Home
    <2>3. place # "second"
      OBVIOUS
    <2>. HIDE DEF p
    <2>. QED
      BY <1>1, <2>1, <2>2, <2>3 DEF PageOK
  <1>3. \E place \in {"present", "first"} : Show(d, p(place))
    BY DEF UnlockOwn, StartSponsorOnly
  <1>4. UNCHANGED <<custody, cutMaster, keystore, session, pending, adopt, created, now>>
    BY DEF UnlockOwn, StartSponsorOnly, world
  <1>. HIDE DEF p
  <1>5. /\ page' \in [Devices -> Page] /\ custody' \in [Devices -> SUBSET Blobs]
        /\ cutMaster' \in Seq(Int) /\ Belongs'
    BY <1>2, <1>3, <1>4, PageStep
  <1>. QED
    BY <1>4, <1>5 DEF RecoveryInv, PagesInv, Typed

LEMMA CompleteStep ==
    ASSUME RecoveryInv, NEW d \in Devices, Complete(d)
    PROVE  PagesInv'
  <1>. DEFINE c == pending[d].code
  <1>0. Typed /\ BlobsOK(custody[d], cutMaster)
    BY PageOfDevice DEF RecoveryInv, PagesInv
  <1>1. CASE UNCHANGED page
    <2>1. pending' \in [Devices -> Intent]
      BY <1>0, NoIntentOK DEF Complete, Typed
    <2>2. UNCHANGED <<keystore, session, custody, adopt, cutMaster, created, now>>
      BY DEF Complete
    <2>. QED
      BY <1>0, <1>1, <2>1, <2>2 DEF RecoveryInv, PagesInv, Typed, Belongs
  <1>2. CASE \E x, y \in Slots(custody[d], c) :
                /\ Opens(x[3], c) /\ Opens(y[3], c)
                /\ Show(d, [Home EXCEPT !.at = "burn first", !.code = c,
                                        !.master = Combine(x[3], y[3])])
                /\ UNCHANGED <<pending, met>>
    <2>1. PICK x \in Slots(custody[d], c), y \in Slots(custody[d], c) :
                /\ Opens(x[3], c) /\ Opens(y[3], c)
                /\ Show(d, [Home EXCEPT !.at = "burn first", !.code = c,
                                        !.master = Combine(x[3], y[3])])
                /\ UNCHANGED <<pending, met>>
      BY <1>2
    <2>. DEFINE p == [Home EXCEPT !.at = "burn first", !.code = c, !.master = Combine(x[3], y[3])]
    <2>2. x[3] = c /\ y[3] = c /\ c \in Codes
      BY <1>0, <2>1 DEF Slots, BlobsOK, Codes, Opens
    <2>3. Combine(x[3], y[3]) = cutMaster[c] /\ Combine(x[3], y[3]) \in Int /\ c \in Int
      BY <2>2, CombineOK
    <2>4. p \in Page /\ PageOK(p, cutMaster)
      <3>1. p \in Page
        BY <2>3, HomeOK DEF Page, Places
      <3>2. p.master = Combine(x[3], y[3]) /\ p.code = c /\ p.at = "burn first"
        BY DEF Home
      <3>3. "burn first" \notin Looking /\ "burn first" # "second"
        BY DEF Looking
      <3>. HIDE DEF p
      <3>. QED
        BY <2>2, <2>3, <3>1, <3>2, <3>3 DEF PageOK, Codes
    <2>5. UNCHANGED <<keystore, session, custody, pending, adopt, cutMaster, created, now>>
      BY <2>1 DEF Complete
    <2>6. /\ page' \in [Devices -> Page] /\ custody' \in [Devices -> SUBSET Blobs]
          /\ cutMaster' \in Seq(Int) /\ Belongs'
      BY <2>1, <2>4, <2>5, PageStep
    <2>. QED
      BY <1>0, <2>5, <2>6 DEF RecoveryInv, PagesInv, Typed
  <1>. QED
    BY <1>1, <1>2 DEF Complete

LEMMA EndSteps ==
    ASSUME RecoveryInv, NEW d \in Devices,
           \/ Cancel(d) \/ Forget(d)
           \/ Burn(d, "first", "burn second") \/ Burn(d, "second", "forget")
    PROVE  PagesInv'
  <1>0. /\ Typed /\ page[d] \in Page /\ PageOK(page[d], cutMaster)
        /\ BlobsOK(custody[d], cutMaster) /\ custody[d] \in SUBSET Blobs
    BY PageOfDevice DEF RecoveryInv, PagesInv, Typed
  <1>1. CASE Cancel(d)
    <2>. DEFINE p == [Home EXCEPT !.at = "burn first", !.code = pending[d].code]
    <2>1. p \in Page
      BY <1>0, HomeOK DEF Page, Places, Typed, Intent
    <2>2. p.master = NoSecret /\ p.at = "burn first"
      BY DEF Home
    <2>3. PageOK(p, cutMaster)
      BY <2>2 DEF PageOK, Looking
    <2>4. Show(d, p) /\ UNCHANGED <<keystore, session, custody, pending, adopt, cutMaster, created, now>>
      BY <1>1 DEF Cancel, world
    <2>. HIDE DEF p
    <2>5. /\ page' \in [Devices -> Page] /\ custody' \in [Devices -> SUBSET Blobs]
          /\ cutMaster' \in Seq(Int) /\ Belongs'
      BY <2>1, <2>3, <2>4, PageStep
    <2>. QED
      BY <1>0, <2>4, <2>5 DEF RecoveryInv, PagesInv, Typed
  <1>2. CASE Forget(d)
    <2>0. pending' \in [Devices -> Intent]
      BY <1>0, <1>2, NoIntentOK DEF Forget, Typed
    <2>1. UNCHANGED <<keystore, session, custody, cutMaster, created, now>>
      BY <1>2 DEF Forget
    <2>2. /\ page' \in [Devices -> Page] /\ custody' \in [Devices -> SUBSET Blobs]
          /\ cutMaster' \in Seq(Int) /\ Belongs' /\ adopt' \in [Devices -> Adoption]
      <3>1. CASE page[d].master # NoSecret
        <4>1. page[d].master \in Int /\ page[d].code \in Int /\ NoCode \in Int
          BY <1>0, NoIntentOK DEF Page
        <4>4. page[d].code \in DOMAIN cutMaster /\ page[d].master = cutMaster[page[d].code]
          BY <1>0, <3>1 DEF PageOK
        <4>2. Recovered(d, page[d].master, page[d].code, NoCode)
          BY <1>2, <3>1 DEF Forget
        <4>3. UNCHANGED <<custody, cutMaster>>
          BY <2>1
        <4>. QED
          BY <4>1, <4>2, <4>3, <4>4, RecoveredStep
      <3>2. CASE page[d].master = NoSecret
        <4>1. Show(d, Home) /\ UNCHANGED adopt
          BY <1>2, <3>2 DEF Forget
        <4>. QED
          BY <1>0, <2>1, <4>1, HomeOK, PageStep DEF Typed
      <3>. QED
        BY <3>1, <3>2
    <2>. QED
      BY <1>0, <2>0, <2>1, <2>2 DEF RecoveryInv, PagesInv, Typed
  <1>3. ASSUME NEW slot \in {"first", "second"}, NEW next \in {"burn second", "forget"},
               Burn(d, slot, next)
        PROVE  PagesInv'
    <2>. DEFINE p == [page[d] EXCEPT !.at = next]
                blobs == {b \in custody[d] : ~(b[1] = page[d].code /\ b[2] = slot)}
    <2>1. p \in Page /\ PageOK(p, cutMaster)
      BY <1>0 DEF Page, Places, PageOK, Looking
    <2>2. blobs \in SUBSET Blobs /\ BlobsOK(blobs, cutMaster)
      BY <1>0 DEF BlobsOK
    <2>3. /\ Show(d, p) /\ custody' = [custody EXCEPT ![d] = blobs]
          /\ UNCHANGED <<keystore, session, pending, adopt, cutMaster, created, now>>
      BY <1>3 DEF Burn
    <2>. HIDE DEF p, blobs
    <2>4. /\ page' \in [Devices -> Page] /\ custody' \in [Devices -> SUBSET Blobs]
          /\ cutMaster' \in Seq(Int) /\ Belongs'
      BY <2>1, <2>2, <2>3, BlobStep
    <2>. QED
      BY <1>0, <2>3, <2>4 DEF RecoveryInv, PagesInv, Typed
  <1>. QED
    BY <1>1, <1>2, <1>3

LEMMA AdoptSteps ==
    ASSUME RecoveryInv, NEW d \in Devices,
           \/ AdoptView(d) \/ AdoptSeal(d) \/ StartReissue(d) \/ Leave(d)
    PROVE  PagesInv'
  <1>0. /\ Typed /\ page[d] \in Page /\ PageOK(page[d], cutMaster)
        /\ BlobsOK(custody[d], cutMaster) /\ custody[d] \in SUBSET Blobs
    BY PageOfDevice DEF RecoveryInv, PagesInv, Typed
  <1>1. WipeBuffer(d) => adopt' \in [Devices -> Adoption]
    BY <1>0 DEF WipeBuffer, Typed, Adoption, Zeros
  <1>2. CASE AdoptView(d)
    <2>1. session' \in [Devices -> Int] /\ adopt' \in [Devices -> Adoption]
      <3>0. adopt[d] \in Adoption
        BY <1>0 DEF Typed
      <3>1. NoAdopt \in Adoption /\ [adopt[d] EXCEPT !.at = "seal"] \in Adoption
        BY <3>0 DEF Adoption, NoAdopt, NoSecret
      <3>2. adopt[d].buf \in Int
        BY <1>0 DEF Typed, Adoption
      <3>. QED
        BY <1>0, <1>2, <3>1, <3>2 DEF AdoptView, Typed
    <2>2. UNCHANGED <<keystore, custody, pending, page, cutMaster, created, now>>
      BY <1>2 DEF AdoptView, world
    <2>. QED
      BY <1>0, <2>1, <2>2 DEF RecoveryInv, PagesInv, Typed, Belongs
  <1>3. CASE AdoptSeal(d)
    <2>1. keystore' \in [Devices -> Int] /\ adopt' \in [Devices -> Adoption]
      <3>1. NoAdopt \in Adoption /\ adopt[d].buf \in Int
        BY <1>0 DEF Typed, Adoption, NoAdopt, NoSecret
      <3>. QED
        BY <1>0, <1>3, <3>1 DEF AdoptSeal, Typed
    <2>2. UNCHANGED <<session, custody, pending, page, cutMaster, created, now>>
      BY <1>3 DEF AdoptSeal, world
    <2>. QED
      BY <1>0, <2>1, <2>2 DEF RecoveryInv, PagesInv, Typed, Belongs
  <1>4. CASE StartReissue(d)
    <2>. DEFINE secret == page[d].master
                p == [page[d] EXCEPT !.at = "reissue", !.code = Len(cutMaster')]
    <2>1. secret \in Int /\ Cut(d, secret) /\ Show(d, p)
      BY <1>0, <1>4 DEF StartReissue, Page
    <2>2. /\ Len(cutMaster') \in Int /\ Len(cutMaster') \in DOMAIN cutMaster'
          /\ cutMaster'[Len(cutMaster')] = secret
      BY <1>0, <2>1, CutsGrow DEF Cut, Typed
    <2>3. p \in Page
      BY <1>0, <2>2 DEF Page, Places
    <2>4. p.master = secret /\ p.code = Len(cutMaster') /\ p.at = "reissue"
      BY <1>0 DEF Page
    <2>5. "reissue" \notin Looking /\ "reissue" # "second"
      BY DEF Looking
    <2>6. PageOK(p, cutMaster')
      BY <2>2, <2>4, <2>5 DEF PageOK
    <2>7. /\ page' \in [Devices -> Page] /\ custody' \in [Devices -> SUBSET Blobs]
          /\ cutMaster' \in Seq(Int) /\ Belongs'
      <3>. HIDE DEF p, secret
      <3>. QED
        BY <2>1, <2>3, <2>6, CutStep
    <2>8. UNCHANGED <<keystore, session, pending, adopt, created, now>>
      BY <1>4 DEF StartReissue, world
    <2>. QED
      BY <1>0, <2>7, <2>8 DEF RecoveryInv, PagesInv, Typed
  <1>6. CASE Leave(d)
    <2>1. /\ Show(d, Home)
          /\ WipeBuffer(d) \/ UNCHANGED adopt
          /\ UNCHANGED <<keystore, session, custody, pending, cutMaster, created, now>>
      BY <1>6 DEF Leave
    <2>2. /\ page' \in [Devices -> Page] /\ custody' \in [Devices -> SUBSET Blobs]
          /\ cutMaster' \in Seq(Int) /\ Belongs'
      BY <2>1, HomeOK, PageStep
    <2>. QED
      BY <1>0, <1>1, <2>1, <2>2 DEF RecoveryInv, PagesInv, Typed
  <1>. QED
    BY <1>2, <1>3, <1>4, <1>6

\* A shard put in custody is of the handler's cut, or wiped; a re-issue ends on a
\* page that holds no secret.
LEMMA HandleSteps ==
    ASSUME RecoveryInv, NEW d \in Devices, Handle(d)
    PROVE  PagesInv'
  <1>0. /\ Typed /\ page[d] \in Page /\ PageOK(page[d], cutMaster)
        /\ BlobsOK(custody[d], cutMaster) /\ custody[d] \in SUBSET Blobs
        /\ handler[d] \in Handler /\ WorkOK(handler[d], cutMaster)
        /\ custody = [custody EXCEPT ![d] = custody[d]]
        /\ page = [page EXCEPT ![d] = page[d]]
    BY PageOfDevice DEF RecoveryInv, PagesInv, Typed, Worked
  <1>1. ASSUME NEW slot \in {"first", "second"}, NEW shard \in Int,
               shard \in DOMAIN cutMaster \cup {NoCode}, handler[d].at # "none",
               Put(d, handler[d].code, slot, shard),
               UNCHANGED <<keystore, session, pending, page, adopt, cutMaster, created, world>>
        PROVE  PagesInv'
    <2>. DEFINE c == handler[d].code
                x == <<c, slot, shard>>
                blobs == {b \in custody[d] : ~(b[1] = c /\ b[2] = slot)} \cup {x}
    <2>1. c \in DOMAIN cutMaster /\ c \in Int
      BY <1>0, <1>1 DEF WorkOK, Handler
    <2>2. x \in Blobs /\ x[1] = c /\ x[3] = shard
      BY <1>1, <2>1 DEF Blobs
    <2>3. blobs \in SUBSET Blobs /\ BlobsOK(blobs, cutMaster)
      <3>1. \A b \in blobs : b \in custody[d] \/ b = x
        OBVIOUS
      <3>. HIDE DEF x, blobs, c
      <3>. QED
        BY <1>0, <1>1, <2>1, <2>2, <3>1 DEF BlobsOK
    <2>4. custody' = [custody EXCEPT ![d] = blobs]
      BY <1>1 DEF Put
    <2>5. Show(d, page[d])
      BY <1>0, <1>1 DEF Show
    <2>. HIDE DEF x, blobs, c
    <2>6. /\ page' \in [Devices -> Page] /\ custody' \in [Devices -> SUBSET Blobs]
          /\ cutMaster' \in Seq(Int) /\ Belongs'
      BY <1>0, <1>1, <2>3, <2>4, <2>5, BlobStep
    <2>. QED
      BY <1>0, <1>1, <2>6 DEF RecoveryInv, PagesInv, Typed, world
  <1>2. CASE StoreFirst(d)
    <2>1. /\ handler[d].first \in Int /\ handler[d].first \in DOMAIN cutMaster \cup {NoCode}
          /\ handler[d].at # "none"
      BY <1>0, <1>2 DEF WorkOK, Handler, StoreFirst
    <2>. QED
      BY <1>1, <1>2, <2>1 DEF StoreFirst
  <1>3. CASE StoreSecond(d)
    <2>1. /\ handler[d].second \in Int /\ handler[d].second \in DOMAIN cutMaster \cup {NoCode}
          /\ handler[d].at # "none"
      BY <1>0, <1>3 DEF WorkOK, Handler, StoreSecond
    <2>. QED
      BY <1>1, <1>3, <2>1 DEF StoreSecond
  <1>4. CASE SaveIntent(d)
    <2>1. pending' \in [Devices -> Intent]
      BY <1>0, <1>4 DEF SaveIntent, Typed, Intent, Handler
    <2>2. /\ page' \in [Devices -> Page] /\ custody' \in [Devices -> SUBSET Blobs]
          /\ cutMaster' \in Seq(Int) /\ Belongs'
      BY <1>4, HomeOK, PageStep DEF SaveIntent
    <2>. QED
      BY <1>0, <1>4, <2>1, <2>2 DEF SaveIntent, RecoveryInv, PagesInv, Typed, world
  <1>5. CASE BurnOld(d)
    <2>. DEFINE blobs == custody[d] \ {Own(handler[d].old)}
    <2>1. blobs \in SUBSET Blobs /\ BlobsOK(blobs, cutMaster)
      BY <1>0 DEF BlobsOK
    <2>2. custody' = [custody EXCEPT ![d] = blobs]
      BY <1>5 DEF BurnOld
    <2>3. Show(d, page[d]) /\ UNCHANGED <<keystore, session, pending, adopt, cutMaster, created, now>>
      BY <1>0, <1>5 DEF Show, BurnOld, world
    <2>. HIDE DEF blobs
    <2>4. /\ page' \in [Devices -> Page] /\ custody' \in [Devices -> SUBSET Blobs]
          /\ cutMaster' \in Seq(Int) /\ Belongs'
      BY <1>0, <2>1, <2>2, <2>3, BlobStep
    <2>. QED
      BY <1>0, <2>3, <2>4 DEF RecoveryInv, PagesInv, Typed
  <1>6. CASE ShowCode(d)
    <2>. DEFINE p == [Home EXCEPT !.at = "sendA", !.code = handler[d].code]
    <2>1. p \in Page
      BY <1>0, HomeOK DEF Page, Places, Handler
    <2>2. p.master = NoSecret /\ p.at = "sendA"
      BY DEF Home
    <2>3. PageOK(p, cutMaster)
      BY <2>2 DEF PageOK, Looking
    <2>4. UNCHANGED <<keystore, session, custody, pending, cutMaster, created, now>>
      BY <1>6 DEF ShowCode, world
    <2>5. WipeBuffer(d) => adopt' \in [Devices -> Adoption]
      BY <1>0 DEF WipeBuffer, Typed, Adoption, Zeros
    <2>6. /\ Show(d, p) \/ Show(d, page[d])
          /\ WipeBuffer(d) \/ UNCHANGED adopt
      BY <1>0, <1>6 DEF ShowCode, Show
    <2>. HIDE DEF p
    <2>7. /\ page' \in [Devices -> Page] /\ custody' \in [Devices -> SUBSET Blobs]
          /\ cutMaster' \in Seq(Int) /\ Belongs'
      BY <1>0, <2>1, <2>3, <2>4, <2>6, PageStep
    <2>. QED
      BY <1>0, <2>4, <2>5, <2>6, <2>7 DEF RecoveryInv, PagesInv, Typed
  <1>. QED
    BY <1>2, <1>3, <1>4, <1>5, <1>6 DEF Handle

LEMMA WorldSteps ==
    ASSUME RecoveryInv, NEW d \in Devices, Reload(d) \/ LoseDevice(d)
    PROVE  PagesInv'
  <1>0. Typed
    BY DEF RecoveryInv, PagesInv
  <1>1. DropPage(d) /\ UNCHANGED <<cutMaster, created, now>>
    BY DEF Reload, LoseDevice
  <1>2. /\ Show(d, Home)
        /\ session' \in [Devices -> Int] /\ adopt' \in [Devices -> Adoption]
    BY <1>0, <1>1 DEF DropPage, Show, Typed, Adoption, NoAdopt, NoSecret
  <1>3. keystore' \in [Devices -> Int] /\ pending' \in [Devices -> Intent]
    <2>1. CASE Reload(d)
      BY <1>0, <2>1 DEF Reload, Typed
    <2>2. CASE LoseDevice(d)
      <3>1. keystore' \in [Devices -> Int]
        BY <1>0, <2>2 DEF LoseDevice, Typed, NoKeystore
      <3>2. pending' \in [Devices -> Intent]
        BY <1>0, <2>2, NoIntentOK DEF LoseDevice, Typed
      <3>. QED
        BY <3>1, <3>2
    <2>. QED
      BY <2>1, <2>2
  <1>4. \E blobs \in SUBSET Blobs :
           BlobsOK(blobs, cutMaster) /\ custody' = [custody EXCEPT ![d] = blobs]
    <2>1. CASE Reload(d)
      <3>1. custody' = [custody EXCEPT ![d] = custody[d]]
        BY <1>0, <2>1 DEF Reload, Typed
      <3>2. custody[d] \in SUBSET Blobs /\ BlobsOK(custody[d], cutMaster)
        BY <1>0, PageOfDevice DEF Typed
      <3>. QED
        BY <3>1, <3>2
    <2>2. CASE LoseDevice(d)
      BY <2>2 DEF LoseDevice, BlobsOK
    <2>. QED
      BY <2>1, <2>2
  <1>5. /\ page' \in [Devices -> Page] /\ custody' \in [Devices -> SUBSET Blobs]
        /\ cutMaster' \in Seq(Int) /\ Belongs'
    BY <1>1, <1>2, <1>4, HomeOK, BlobStep
  <1>. QED
    BY <1>0, <1>1, <1>2, <1>3, <1>5 DEF RecoveryInv, PagesInv, Typed

-----------------------------------------------------------------------------

LEMMA PagesKeep == RecoveryInv /\ [Next]_vars => PagesInv'
  <1>. SUFFICES ASSUME RecoveryInv, [Next]_vars PROVE PagesInv'
    OBVIOUS
  <1>1. ASSUME NEW d \in Devices, Use(d) PROVE PagesInv'
    BY <1>1, CeremonySteps, CollectSteps, ScanSteps, CompleteStep, EndSteps,
       AdoptSteps, HandleSteps, WorldSteps DEF Use
  <1>2. ASSUME NEW d \in Devices, LoseDevice(d) PROVE PagesInv'
    BY <1>2, WorldSteps
  <1>3. CASE Tick
    <2>1. now' \in Int /\ UNCHANGED <<keystore, session, custody, pending, page, adopt, cutMaster, created>>
      BY <1>3 DEF Tick, RecoveryInv, PagesInv, Typed, device
    <2>. QED
      BY <2>1 DEF RecoveryInv, PagesInv, Typed, Belongs
  <1>4. CASE UNCHANGED vars
    BY <1>4 DEF vars, device, world, RecoveryInv, PagesInv, Typed, Belongs
  <1>. QED
    BY <1>1, <1>2, <1>3, <1>4 DEF Next

LEMMA WorkStep ==
    ASSUME RecoveryInv, NEW d \in Devices, NEW h \in Handler, Work(d, h),
           WorkOK(h, cutMaster'), \A c \in DOMAIN cutMaster : c \in DOMAIN cutMaster'
    PROVE  Worked'
  <1>1. handler \in [Devices -> Handler] /\ handler' = [handler EXCEPT ![d] = h]
    BY DEF RecoveryInv, Worked, Work
  <1>2. \A e \in Devices : handler'[e] = IF e = d THEN h ELSE handler[e]
    BY <1>1
  <1>3. \A e \in Devices : WorkOK(handler[e], cutMaster')
    BY DEF RecoveryInv, Worked, WorkOK
  <1>. QED
    BY <1>1, <1>2, <1>3 DEF Worked

LEMMA WorkStays ==
    ASSUME RecoveryInv, UNCHANGED handler,
           \A c \in DOMAIN cutMaster : c \in DOMAIN cutMaster'
    PROVE  Worked'
  BY DEF RecoveryInv, Worked, WorkOK

LEMMA NoWork == NoHandler \in Handler /\ \A cuts : WorkOK(NoHandler, cuts)
  BY DEF NoHandler, Handler, NoCode, WorkOK

LEMMA WipedWork ==
    ASSUME NEW h \in Handler, NEW cuts, WorkOK(h, cuts)
    PROVE  [h EXCEPT !.first = NoCode] \in Handler /\ WorkOK([h EXCEPT !.first = NoCode], cuts)
  <1>1. NoCode \in Int
    BY DEF NoCode
  <1>2. [h EXCEPT !.first = NoCode] \in Handler
    BY <1>1 DEF Handler
  <1>3. LET g == [h EXCEPT !.first = NoCode]
        IN  g.at = h.at /\ g.code = h.code /\ g.first = NoCode /\ g.second = h.second
    BY DEF Handler
  <1>. QED
    BY <1>2, <1>3 DEF WorkOK

\* What a handler starts with: a shard of the page's cut, or a cut just made.
LEMMA WorkKeeps == RecoveryInv /\ [Next]_vars => Worked'
  <1>. SUFFICES ASSUME RecoveryInv, [Next]_vars PROVE Worked'
    OBVIOUS
  <1>0. cutMaster \in Seq(Int) /\ handler \in [Devices -> Handler]
    BY DEF RecoveryInv, PagesInv, Typed, Worked
  <1>1. CASE UNCHANGED <<handler, cutMaster>>
    BY <1>1, WorkStays
  <1>2. ASSUME NEW d \in Devices, NEW h \in Handler, Work(d, h), UNCHANGED cutMaster,
               WorkOK(h, cutMaster)
        PROVE  Worked'
    BY <1>2, WorkStep
  <1>3. ASSUME NEW d \in Devices, NEW s \in Sponsors, NEW shard \in Codes,
               ScanSecond(d, s, shard)
        PROVE  Worked'
    <2>. DEFINE h == [NoHandler EXCEPT !.at = "store first", !.code = page[d].code,
                                       !.first = page[d].shard, !.second = shard]
    <2>1. UNCHANGED cutMaster /\ (UNCHANGED handler \/ Work(d, h)) /\ page[d].at = "second"
      BY <1>3 DEF ScanSecond, Refuse
    <2>2. page[d] \in Page /\ PageOK(page[d], cutMaster) /\ shard \in DOMAIN cutMaster /\ shard \in Int
      BY PageOfDevice, CombineOK DEF Codes
    <2>3. page[d].code \in DOMAIN cutMaster /\ page[d].shard = page[d].code
      BY <2>1, <2>2 DEF PageOK, Looking
    <2>4. h \in Handler
      BY <2>2, NoWork DEF Handler, Page
    <2>5. h.code = page[d].code /\ h.first = page[d].shard /\ h.second = shard
      BY DEF NoHandler
    <2>6. WorkOK(h, cutMaster)
      <3>. HIDE DEF h
      <3>. QED
        BY <2>2, <2>3, <2>5 DEF WorkOK
    <2>. HIDE DEF h
    <2>. QED
      BY <1>1, <1>2, <2>1, <2>4, <2>6
  <1>4. ASSUME NEW d \in Devices,
               StoreFirst(d) \/ StoreSecond(d) \/ SaveIntent(d) \/ BurnOld(d) \/ ShowCode(d)
        PROVE  Worked'
    <2>1. /\ handler[d] \in Handler /\ WorkOK(handler[d], cutMaster) /\ handler[d].at # "none"
          /\ UNCHANGED cutMaster
      BY <1>4 DEF RecoveryInv, Worked, StoreFirst, StoreSecond, SaveIntent, BurnOld, ShowCode
    <2>2. ASSUME NEW place \in {"store second", "save intent", "show code"},
                 Work(d, [handler[d] EXCEPT !.at = place])
          PROVE  Worked'
      <3>. DEFINE h == [handler[d] EXCEPT !.at = place]
      <3>1. h \in Handler /\ WorkOK(h, cutMaster)
        BY <2>1 DEF Handler, WorkOK
      <3>2. Work(d, h)
        BY <2>2
      <3>. HIDE DEF h
      <3>. QED
        BY <1>2, <2>1, <3>1, <3>2
    <2>3. CASE Work(d, NoHandler)
      BY <1>2, <2>1, <2>3, NoWork
    <2>. QED
      BY <1>4, <2>2, <2>3 DEF StoreFirst, StoreSecond, SaveIntent, BurnOld, ShowCode
  <1>5. ASSUME NEW d \in Devices, BeginCeremony(d) PROVE Worked'
    <2>1. session'[d] \in Int /\ cutMaster' = Append(cutMaster, session'[d]) /\ UNCHANGED handler
      BY <1>5 DEF BeginCeremony, Known, Cut, RecoveryInv, PagesInv, Typed
    <2>. QED
      BY <1>0, <2>1, CutsGrow, WorkStays
  <1>6. ASSUME NEW d \in Devices, StartReissue(d) PROVE Worked'
    <2>. DEFINE n == Len(cutMaster')
                h == [NoHandler EXCEPT !.at = "burn old", !.code = n, !.old = page[d].old]
    <2>1. cutMaster' = Append(cutMaster, page[d].master) /\ Work(d, h)
      BY <1>6 DEF StartReissue, Cut
    <2>2. page[d].master \in Int /\ page[d].old \in Int
      BY PageOfDevice DEF Page
    <2>3. /\ n \in Int /\ n \in DOMAIN cutMaster'
          /\ \A c \in DOMAIN cutMaster : c \in DOMAIN cutMaster'
      BY <1>0, <2>1, <2>2, CutsGrow
    <2>4. h \in Handler
      BY <2>2, <2>3, NoWork DEF Handler
    <2>5. h.code = n /\ h.first = NoCode /\ h.second = NoCode
      BY DEF NoHandler
    <2>. HIDE DEF h, n
    <2>. QED
      BY <2>1, <2>3, <2>4, <2>5, WorkStep DEF WorkOK
  <1>7. ASSUME NEW d \in Devices, Leave(d) PROVE Worked'
    <2>. DEFINE h == IF handler[d].at = "store first"
                     THEN [handler[d] EXCEPT !.first = NoCode] ELSE handler[d]
    <2>1. handler[d] \in Handler /\ WorkOK(handler[d], cutMaster)
      BY DEF RecoveryInv, Worked
    <2>2. h \in Handler /\ WorkOK(h, cutMaster)
      BY <2>1, WipedWork
    <2>3. Work(d, h) /\ UNCHANGED cutMaster
      BY <1>7 DEF Leave
    <2>. HIDE DEF h
    <2>. QED
      BY <1>2, <2>2, <2>3
  <1>8. ASSUME NEW d \in Devices, Reload(d) \/ LoseDevice(d) PROVE Worked'
    <2>1. Work(d, NoHandler) /\ UNCHANGED cutMaster
      BY <1>8 DEF Reload, LoseDevice, DropPage
    <2>. QED
      BY <1>2, <2>1, NoWork
  <1>9. ASSUME NEW d \in Devices, Use(d) PROVE Worked'
    <2>1. CASE CreateKeystore(d) \/ AdoptView(d) \/ AdoptSeal(d)
      BY <1>1, <2>1 DEF CreateKeystore, AdoptView, AdoptSeal
    <2>2. CASE NoteCode(d) \/ \E s \in Sponsors : HandOver(d, s)
      BY <1>1, <2>2 DEF NoteCode, HandOver
    <2>3. CASE \E c \in Codes : UnlockOwn(d, c) \/ StartSponsorOnly(d, c)
      BY <1>1, <2>3 DEF UnlockOwn, StartSponsorOnly
    <2>4. CASE \E s \in Sponsors, shard \in Codes : ScanPresent(d, s, shard) \/ ScanFirst(d, s, shard)
      BY <1>1, <2>4 DEF ScanPresent, ScanFirst, Refuse
    <2>5. CASE Complete(d) \/ Cancel(d) \/ Forget(d)
      BY <1>1, <2>5 DEF Complete, Cancel, Forget
    <2>6. CASE Burn(d, "first", "burn second") \/ Burn(d, "second", "forget")
      BY <1>1, <2>6 DEF Burn
    <2>. QED
      BY <1>3, <1>4, <1>5, <1>6, <1>7, <1>8, <1>9, <2>1, <2>2, <2>3, <2>4, <2>5, <2>6 DEF Use, Handle
  <1>. QED
    BY <1>1, <1>8, <1>9 DEF Next, Tick, vars, device

\* Every step of every device keeps the invariant, and time does not touch it.
LEMMA NextKeeps == RecoveryInv /\ [Next]_vars => RecoveryInv'
  BY PagesKeep, WorkKeeps DEF RecoveryInv

\* Pages, blobs and cuts stay consistent with each other.
THEOREM RecoveryInvariant == Spec => []RecoveryInv
  <1>. QED
    BY InitRecovery, NextKeeps, PTL DEF Spec

\* A recovery, with a sponsor present or by two sponsors alone, yields the very
\* secret that was split under its code, whatever shards of other cuts exist.
THEOREM NeverGarbageAlways == Spec => []NeverGarbage
  <1>1. RecoveryInv => NeverGarbage
    BY DEF RecoveryInv, PagesInv, Belongs, PageOK, NeverGarbage
  <1>. QED
    BY <1>1, RecoveryInvariant, PTL

-----------------------------------------------------------------------------
(* The window. What the invariant says of one device: of its page, its     *)
(* custody, its intent, and of who was met there.                          *)

Meeting == [code : Int, at : Int]

\* The places of a page that holds a secret.
Finding == {"burn first", "burn second", "forget", "recovered", "reissue"}

\* A page beyond the first one is about a cut that was made.
PlaceOK(p, cuts) ==
    /\ p.at # "home" => p.code \in DOMAIN cuts
    /\ p.at = "second" => p.first \in Sponsors
    /\ p.at \in {"recovered", "reissue"} => p.master # NoSecret
    /\ p.master # NoSecret => p.at \in Finding

\* One blob per code and slot, and an own shard is filed as one.
FiledOK(blobs) ==
    /\ \A b \in blobs : b[2] = "own" => b = Own(b[1])
    /\ \A b, c \in blobs : b[1] = c[1] /\ b[2] = c[2] => b = c

IntentOK(q, cuts, t) ==
    q = NoIntent \/ (q.code \in DOMAIN cuts /\ q.openedAt \in 0 .. t)

BothFiled(blobs, c) ==
    \E x, y \in Slots(blobs, c) : x[2] = "first" /\ y[2] = "second"

MetBy(m, c, t) == \A s \in Sponsors : m[s].code = c /\ m[s].at <= t

WindowOK(p, q, m, blobs, t) ==
    /\ p.at \in {"first", "second"} => q = NoIntent
    /\ p.at \in {"burn first", "burn second"} => p.code = q.code
    /\ p.at = "second" => m[p.first].code = p.code /\ m[p.first].at <= t
    /\ q # NoIntent /\ BothFiled(blobs, q.code) => MetBy(m, q.code, q.openedAt)
    /\ p.master # NoSecret /\ q.code = p.code /\ p.old = NoCode
          => MetBy(m, p.code, t - Window)

\* A handler that files two shards was given them by both sponsors, and nothing
\* else goes on until it has saved its intent.
Filing == {"store first", "store second", "save intent"}

FilingOK(h, p, q, m, t) ==
    h.at \in Filing => p.at \in {"home", "filing"} /\ q = NoIntent /\ MetBy(m, h.code, t)

Filed(d) == FilingOK(handler[d], page[d], pending[d], met[d], now)

DeviceOK(d) ==
    /\ PlaceOK(page[d], cutMaster) /\ FiledOK(custody[d])
    /\ IntentOK(pending[d], cutMaster, now)
    /\ WindowOK(page[d], pending[d], met[d], custody[d], now)

Counted ==
    /\ created \in Nat /\ now \in 0 .. MaxTime
    /\ faults \in 0 .. MaxFaults
    /\ held \in [Sponsors -> SUBSET Codes] /\ noted \subseteq Codes
    /\ met \in [Devices -> [Sponsors -> Meeting]]

Kept == Secrets \cup {NoSecret}
Real ==
    /\ cutMaster \in Seq(Secrets) /\ Len(cutMaster) <= MaxCuts
    /\ keystore \in [Devices -> Kept \cup {NoKeystore}]
    /\ session \in [Devices -> Kept]
    /\ \A d \in Devices : adopt[d].buf \in Kept

WindowInv == RecoveryInv /\ Counted /\ Real /\ \A d \in Devices : DeviceOK(d) /\ Filed(d)

Rising(cuts, more) == \A c \in DOMAIN cuts : c \in DOMAIN more

LEMMA PlaceKept ==
    ASSUME NEW cuts, NEW more, Rising(cuts, more), NEW p, PlaceOK(p, cuts)
    PROVE  PlaceOK(p, more)
  BY DEF PlaceOK, Rising

LEMMA IntentKept ==
    ASSUME NEW cuts, NEW more, Rising(cuts, more), NEW t \in Int, NEW u \in Int, t <= u,
           NEW q \in Intent, IntentOK(q, cuts, t)
    PROVE  IntentOK(q, more, u)
  BY DEF IntentOK, Rising, Intent

LEMMA MetByKept ==
    ASSUME NEW m \in [Sponsors -> Meeting], NEW c, NEW t \in Int, NEW u \in Int, t <= u,
           MetBy(m, c, t)
    PROVE  MetBy(m, c, u)
  BY DEF MetBy, Meeting

\* Waiting takes nothing back.
LEMMA WindowKept ==
    ASSUME NEW p \in Page, NEW q \in Intent, NEW m \in [Sponsors -> Meeting], NEW blobs,
           NEW t \in Int, NEW u \in Int, t <= u, WindowOK(p, q, m, blobs, t),
           p.at = "second" => p.first \in Sponsors
    PROVE  WindowOK(p, q, m, blobs, u)
  <1>0. Window \in Int /\ t - Window <= u - Window /\ t - Window \in Int /\ u - Window \in Int
    BY RecoveryAssumption
  <1>1. p.at = "second" => m[p.first].code = p.code /\ m[p.first].at <= u
    <2>. SUFFICES ASSUME p.at = "second"
                  PROVE  m[p.first].code = p.code /\ m[p.first].at <= u
      OBVIOUS
    <2>1. m[p.first] \in Meeting /\ m[p.first].code = p.code /\ m[p.first].at <= t
      BY DEF WindowOK
    <2>. QED
      BY <2>1 DEF Meeting
  <1>2. p.master # NoSecret /\ q.code = p.code /\ p.old = NoCode
          => MetBy(m, p.code, u - Window)
    BY <1>0, MetByKept DEF WindowOK
  <1>. QED
    BY <1>1, <1>2 DEF WindowOK

WindowParts(p, q, m, blobs, cuts, t) ==
    PlaceOK(p, cuts) /\ FiledOK(blobs) /\ IntentOK(q, cuts, t) /\ WindowOK(p, q, m, blobs, t)

LEMMA PartsKept ==
    ASSUME NEW cuts, NEW more, Rising(cuts, more), NEW t \in Int, NEW u \in Int, t <= u,
           NEW p \in Page, NEW q \in Intent, NEW m \in [Sponsors -> Meeting], NEW blobs,
           WindowParts(p, q, m, blobs, cuts, t)
    PROVE  WindowParts(p, q, m, blobs, more, u)
  <1>1. PlaceOK(p, more) /\ IntentOK(q, more, u) /\ FiledOK(blobs)
    BY PlaceKept, IntentKept DEF WindowParts
  <1>2. p.at = "second" => p.first \in Sponsors
    BY DEF WindowParts, PlaceOK
  <1>3. WindowOK(p, q, m, blobs, u)
    BY <1>2, WindowKept DEF WindowParts
  <1>. QED
    BY <1>1, <1>3 DEF WindowParts

Devised == \A d \in Devices : DeviceOK(d)

LEMMA DeviceFacts ==
    ASSUME WindowInv, NEW d \in Devices
    PROVE  /\ page[d] \in Page /\ pending[d] \in Intent /\ met[d] \in [Sponsors -> Meeting]
           /\ custody[d] \in SUBSET Blobs
           /\ WindowParts(page[d], pending[d], met[d], custody[d], cutMaster, now)
           /\ PageOK(page[d], cutMaster) /\ BlobsOK(custody[d], cutMaster)
           /\ now \in Int /\ Window \in Int
           /\ page = [page EXCEPT ![d] = page[d]]
           /\ pending = [pending EXCEPT ![d] = pending[d]]
           /\ met = [met EXCEPT ![d] = met[d]]
           /\ custody = [custody EXCEPT ![d] = custody[d]]
           /\ page \in [Devices -> Page] /\ pending \in [Devices -> Intent]
           /\ met \in [Devices -> [Sponsors -> Meeting]] /\ custody \in [Devices -> SUBSET Blobs]
  <1>1. /\ page \in [Devices -> Page] /\ pending \in [Devices -> Intent]
        /\ met \in [Devices -> [Sponsors -> Meeting]] /\ custody \in [Devices -> SUBSET Blobs]
        /\ now \in Int
    BY DEF WindowInv, RecoveryInv, PagesInv, Typed, Counted
  <1>2. WindowParts(page[d], pending[d], met[d], custody[d], cutMaster, now)
    BY DEF WindowInv, DeviceOK, WindowParts
  <1>3. PageOK(page[d], cutMaster) /\ BlobsOK(custody[d], cutMaster)
    BY DEF WindowInv, RecoveryInv, PagesInv, Belongs
  <1>4. Window \in Int
    BY RecoveryAssumption
  <1>5. page = [page EXCEPT ![d] = page[d]]
    BY <1>1
  <1>6. pending = [pending EXCEPT ![d] = pending[d]]
    BY <1>1
  <1>7. met = [met EXCEPT ![d] = met[d]]
    BY <1>1
  <1>8. custody = [custody EXCEPT ![d] = custody[d]]
    BY <1>1
  <1>9. /\ page[d] \in Page /\ pending[d] \in Intent /\ met[d] \in [Sponsors -> Meeting]
        /\ custody[d] \in SUBSET Blobs
    BY <1>1
  <1>. QED
    BY <1>1, <1>2, <1>3, <1>4, <1>5, <1>6, <1>7, <1>8, <1>9

\* What a step of one device has to show.
LEMMA DeviceStep ==
    ASSUME WindowInv, NEW d \in Devices, NEW p, NEW q, NEW m \in [Sponsors -> Meeting], NEW blobs,
           page' = [page EXCEPT ![d] = p], pending' = [pending EXCEPT ![d] = q],
           met' = [met EXCEPT ![d] = m], custody' = [custody EXCEPT ![d] = blobs],
           Rising(cutMaster, cutMaster'), now' = now,
           WindowParts(p, q, m, blobs, cutMaster', now)
    PROVE  Devised' /\ met' \in [Devices -> [Sponsors -> Meeting]]
  <1>1. ASSUME NEW e \in Devices PROVE DeviceOK(e)'
    <2>1. CASE e = d
      <3>1. page'[e] = p /\ pending'[e] = q /\ met'[e] = m /\ custody'[e] = blobs
        BY <2>1, DeviceFacts
      <3>. QED
        BY <3>1 DEF DeviceOK, WindowParts
    <2>2. CASE e # d
      <3>1. /\ page'[e] = page[e] /\ pending'[e] = pending[e] /\ met'[e] = met[e]
            /\ custody'[e] = custody[e]
        BY <2>2, DeviceFacts
      <3>2. now <= now
        BY DeviceFacts
      <3>3. /\ page[e] \in Page /\ pending[e] \in Intent /\ met[e] \in [Sponsors -> Meeting]
            /\ WindowParts(page[e], pending[e], met[e], custody[e], cutMaster, now)
            /\ now \in Int
        BY DeviceFacts
      <3>4. WindowParts(page[e], pending[e], met[e], custody[e], cutMaster', now)
        BY <3>2, <3>3, PartsKept
      <3>. QED
        BY <3>1, <3>4 DEF DeviceOK, WindowParts
    <2>. QED
      BY <2>1, <2>2
  <1>2. met' \in [Devices -> [Sponsors -> Meeting]]
    BY DeviceFacts
  <1>. QED
    BY <1>1, <1>2 DEF Devised

Waiting(q, m, blobs) ==
    q # NoIntent /\ BothFiled(blobs, q.code) => MetBy(m, q.code, q.openedAt)

Calm == {"home", "code", "sendA", "sendB", "present", "filing"}

LEMMA PartsWait ==
    ASSUME NEW p, NEW q, NEW m, NEW blobs, NEW cuts, NEW t, WindowParts(p, q, m, blobs, cuts, t)
    PROVE  Waiting(q, m, blobs) /\ FiledOK(blobs) /\ IntentOK(q, cuts, t)
  BY DEF WindowParts, WindowOK, Waiting

\* A page that neither collects nor burns nor shows a secret.
LEMMA IdlePage ==
    ASSUME NEW p, p.master = NoSecret, p.at \in Calm,
           NEW cuts, p.at # "home" => p.code \in DOMAIN cuts,
           NEW q, NEW m, NEW blobs, NEW t,
           FiledOK(blobs), IntentOK(q, cuts, t), Waiting(q, m, blobs)
    PROVE  WindowParts(p, q, m, blobs, cuts, t)
  <1>1. p.at \notin {"first", "second", "burn first", "burn second", "recovered", "reissue"}
    BY DEF Calm
  <1>2. PlaceOK(p, cuts)
    BY <1>1 DEF PlaceOK
  <1>3. WindowOK(p, q, m, blobs, t)
    BY <1>1 DEF WindowOK, Waiting
  <1>. QED
    BY <1>2, <1>3 DEF WindowParts

LEMMA HomePage ==
    ASSUME NEW cuts, NEW q, NEW m, NEW blobs, NEW t,
           FiledOK(blobs), IntentOK(q, cuts, t), Waiting(q, m, blobs)
    PROVE  WindowParts(Home, q, m, blobs, cuts, t)
  <1>1. Home.master = NoSecret /\ Home.at = "home" /\ "home" \in Calm
    BY DEF Home, Calm
  <1>. QED
    BY <1>1, IdlePage

LEMMA FewerBlobs ==
    ASSUME NEW blobs, NEW less \in SUBSET blobs, FiledOK(blobs), NEW q, NEW m, Waiting(q, m, blobs)
    PROVE  FiledOK(less) /\ Waiting(q, m, less)
  <1>1. FiledOK(less)
    BY DEF FiledOK
  <1>2. BothFiled(less, q.code) => BothFiled(blobs, q.code)
    BY DEF BothFiled, Slots
  <1>. QED
    BY <1>1, <1>2 DEF Waiting

LEMMA OwnFiled ==
    ASSUME NEW blobs, FiledOK(blobs), NEW q, NEW m, Waiting(q, m, blobs), NEW c
    PROVE  FiledOK(blobs \cup {Own(c)}) /\ Waiting(q, m, blobs \cup {Own(c)})
  <1>0. Own(c)[1] = c /\ Own(c)[2] = "own"
    BY DEF Own
  <1>1. FiledOK(blobs \cup {Own(c)})
    <2>1. \A b \in blobs \cup {Own(c)} : b[2] = "own" => b = Own(b[1])
      BY <1>0 DEF FiledOK
    <2>2. ASSUME NEW a \in blobs \cup {Own(c)}, NEW b \in blobs \cup {Own(c)},
                 a[1] = b[1], a[2] = b[2]
          PROVE  a = b
      <3>1. CASE a[2] = "own"
        <4>1. a = Own(a[1]) /\ b = Own(b[1])
          <5>1. b[2] = "own"
            BY <2>2, <3>1
          <5>. QED
            BY <2>1, <3>1, <5>1
        <4>. QED
          BY <4>1, <2>2
      <3>2. CASE a[2] # "own"
        <4>1. a \in blobs /\ b \in blobs
          BY <1>0, <2>2, <3>2
        <4>. QED
          BY <4>1, <2>2 DEF FiledOK
      <3>. QED
        BY <3>1, <3>2
    <2>. QED
      BY <2>1, <2>2 DEF FiledOK
  <1>2. BothFiled(blobs \cup {Own(c)}, q.code) => BothFiled(blobs, q.code)
    BY <1>0 DEF BothFiled, Slots
  <1>. QED
    BY <1>1, <1>2 DEF Waiting

Nobody == [s \in Sponsors |-> Unmet]
LEMMA NobodyOK ==
    ASSUME WindowInv, NEW d \in Devices, NobodyMet(d)
    PROVE  met' = [met EXCEPT ![d] = Nobody] /\ Nobody \in [Sponsors -> Meeting]
  BY DEF NobodyMet, Nobody, Unmet, Meeting, NoCode

LEMMA GoneWaits ==
    ASSUME NEW m, NEW blobs, NEW cuts, NEW t
    PROVE  Waiting(NoIntent, m, blobs) /\ IntentOK(NoIntent, cuts, t)
  BY DEF Waiting, IntentOK

LEMMA Dropped ==
    ASSUME WindowInv, NEW d \in Devices, DropCollection(d), NEW blobs,
           Waiting(pending[d], met[d], blobs)
    PROVE  \E m \in [Sponsors -> Meeting] :
               met' = [met EXCEPT ![d] = m] /\ Waiting(pending[d], m, blobs)
  <1>1. CASE pending[d] = NoIntent
    BY <1>1, NobodyOK, GoneWaits DEF DropCollection
  <1>2. CASE pending[d] # NoIntent
    BY <1>2, DeviceFacts DEF DropCollection
  <1>. QED
    BY <1>1, <1>2

LEMMA SameCuts == UNCHANGED cutMaster => Rising(cutMaster, cutMaster')
  BY DEF Rising

LEMMA CutRises ==
    ASSUME WindowInv, NEW d \in Devices, NEW secret \in Int, Cut(d, secret)
    PROVE  /\ Rising(cutMaster, cutMaster') /\ Len(cutMaster') \in DOMAIN cutMaster'
           /\ custody' = [custody EXCEPT ![d] = custody[d] \cup {Own(Len(cutMaster'))}]
           /\ Len(cutMaster') \in Int /\ Len(cutMaster') \notin DOMAIN cutMaster
           /\ Len(cutMaster') # NoCode
  <1>1. cutMaster \in Seq(Int) /\ cutMaster' = Append(cutMaster, secret)
    BY DEF WindowInv, RecoveryInv, PagesInv, Typed, Cut
  <1>2. Len(cutMaster') = Len(cutMaster) + 1
    BY <1>1, CutsGrow
  <1>3. Rising(cutMaster, cutMaster') /\ Len(cutMaster') \in DOMAIN cutMaster'
    BY <1>1, CutsGrow DEF Rising
  <1>4. Len(cutMaster) \in Nat /\ DOMAIN cutMaster = 1 .. Len(cutMaster)
    BY <1>1, LenProperties
  <1>5. custody' = [custody EXCEPT ![d] = custody[d] \cup {Own(Len(cutMaster'))}]
    BY <1>2 DEF Cut
  <1>. QED
    BY <1>2, <1>3, <1>4, <1>5 DEF NoCode

-----------------------------------------------------------------------------
(* Who was met when: one lemma per action or group of actions.             *)

Windowed == Devised /\ met \in [Devices -> [Sponsors -> Meeting]]

LEMMA Untouched ==
    ASSUME WindowInv, UNCHANGED <<page, pending, met, custody, cutMaster, now>>
    PROVE  Windowed'
  <1>1. \A d \in Devices : DeviceOK(d)'
    BY DEF WindowInv, DeviceOK
  <1>2. met' \in [Devices -> [Sponsors -> Meeting]]
    BY DEF WindowInv, Counted
  <1>. QED
    BY <1>1, <1>2 DEF Windowed, Devised

LEMMA ShowIdle ==
    ASSUME WindowInv, NEW d \in Devices, NEW p, p.master = NoSecret, p.at \in Calm,
           p.at # "home" => p.code \in DOMAIN cutMaster', Show(d, p),
           UNCHANGED <<pending, met, now>>, Rising(cutMaster, cutMaster'),
           NEW blobs, custody' = [custody EXCEPT ![d] = blobs],
           FiledOK(blobs), Waiting(pending[d], met[d], blobs)
    PROVE  Windowed'
  <1>. DEFINE q == pending[d]
              m == met[d]
  <1>1. IntentOK(q, cutMaster, now) /\ q \in Intent /\ m \in [Sponsors -> Meeting] /\ now <= now
        /\ now \in Int
    BY DeviceFacts, PartsWait
  <1>2. IntentOK(q, cutMaster', now)
    BY <1>1, IntentKept
  <1>3. WindowParts(p, q, m, blobs, cutMaster', now)
    BY <1>2, IdlePage
  <1>4. /\ page' = [page EXCEPT ![d] = p] /\ pending' = [pending EXCEPT ![d] = q]
        /\ met' = [met EXCEPT ![d] = m]
    BY DeviceFacts DEF Show
  <1>. HIDE DEF q, m
  <1>. QED
    BY <1>1, <1>3, <1>4, DeviceStep DEF Windowed

LEMMA SetUpWindow ==
    ASSUME WindowInv, NEW d \in Devices,
           \/ CreateKeystore(d) \/ BeginCeremony(d) \/ NoteCode(d)
           \/ \E s \in Sponsors : HandOver(d, s)
    PROVE  Windowed'
  <1>0. /\ page[d] \in Page /\ PlaceOK(page[d], cutMaster) /\ FiledOK(custody[d])
        /\ Waiting(pending[d], met[d], custody[d])
        /\ custody = [custody EXCEPT ![d] = custody[d]]
    BY DeviceFacts, PartsWait DEF WindowParts
  <1>1. CASE CreateKeystore(d)
    BY <1>1, Untouched DEF CreateKeystore, world
  <1>2. CASE BeginCeremony(d)
    <2>. DEFINE p == [Home EXCEPT !.at = "code", !.code = Len(cutMaster')]
                secret == session'[d]
                blobs == custody[d] \cup {Own(Len(cutMaster'))}
    <2>1. Cut(d, secret) /\ Show(d, p) /\ UNCHANGED <<pending, met, now>>
      BY <1>2 DEF BeginCeremony, world
    <2>2. secret \in Int
      BY <1>2 DEF BeginCeremony, Known, WindowInv, RecoveryInv, PagesInv, Typed
    <2>3. p.master = NoSecret /\ p.at \in Calm /\ p.code = Len(cutMaster')
      BY DEF Home, Calm
    <2>. HIDE DEF p, secret
    <2>4. /\ Rising(cutMaster, cutMaster') /\ Len(cutMaster') \in DOMAIN cutMaster'
          /\ custody' = [custody EXCEPT ![d] = blobs]
      BY <2>1, <2>2, CutRises
    <2>5. FiledOK(blobs) /\ Waiting(pending[d], met[d], blobs)
      BY <1>0, OwnFiled
    <2>. HIDE DEF blobs
    <2>. QED
      BY <2>1, <2>3, <2>4, <2>5, ShowIdle
  <1>3. CASE NoteCode(d)
    <2>. DEFINE p == IF page[d].at = "code" THEN [page[d] EXCEPT !.at = "sendA"] ELSE page[d]
    <2>1. /\ page[d].at \in {"code", "sendA", "sendB"} /\ Show(d, p)
          /\ UNCHANGED <<pending, met, now, cutMaster, custody>>
      BY <1>3 DEF NoteCode
    <2>2. p.master = NoSecret /\ p.at \in Calm /\ p.code \in DOMAIN cutMaster'
      <3>1. page[d].master = NoSecret /\ page[d].code \in DOMAIN cutMaster'
        BY <1>0, <2>1 DEF PlaceOK, Finding
      <3>2. CASE page[d].at = "code"
        BY <1>0, <3>1, <3>2 DEF Page, Calm
      <3>3. CASE page[d].at # "code"
        BY <2>1, <3>1, <3>3 DEF Calm
      <3>. QED
        BY <3>2, <3>3
    <2>. HIDE DEF p
    <2>. QED
      BY <1>0, <2>1, <2>2, ShowIdle, SameCuts
  <1>4. CASE \E s \in Sponsors : HandOver(d, s)
    <2>1. PICK s \in Sponsors : HandOver(d, s)
      BY <1>4
    <2>. DEFINE p == IF s = "sponsor-1" THEN [page[d] EXCEPT !.at = "sendB"] ELSE Home
    <2>2. /\ page[d].at = (IF s = "sponsor-1" THEN "sendA" ELSE "sendB") /\ Show(d, p)
          /\ UNCHANGED <<pending, met, now, cutMaster, custody>>
      BY <2>1 DEF HandOver
    <2>3. p.master = NoSecret /\ p.at \in Calm /\ (p.at # "home" => p.code \in DOMAIN cutMaster')
      <3>1. page[d].at # "home" /\ page[d].at \notin Finding
        BY <2>2 DEF Finding
      <3>2. page[d].master = NoSecret /\ page[d].code \in DOMAIN cutMaster'
        BY <1>0, <2>2, <3>1 DEF PlaceOK
      <3>3. CASE s = "sponsor-1"
        <4>1. p = [page[d] EXCEPT !.at = "sendB"]
          BY <3>3
        <4>. QED
          BY <1>0, <3>2, <4>1 DEF Page, Calm
      <3>4. CASE s # "sponsor-1"
        BY <3>4 DEF Home, Calm
      <3>. QED
        BY <3>3, <3>4
    <2>. HIDE DEF p
    <2>. QED
      BY <1>0, <2>2, <2>3, ShowIdle, SameCuts
  <1>. QED
    BY <1>1, <1>2, <1>3, <1>4

\* The page changes, and nothing the window is about.
LEMMA SamePlace ==
    ASSUME WindowInv, NEW d \in Devices, Refuse(d), UNCHANGED <<custody, cutMaster, now>>
    PROVE  Windowed'
  <1>. DEFINE p == [page[d] EXCEPT !.deaf = TRUE]
              q == pending[d]
              m == met[d]
              blobs == custody[d]
  <1>1. /\ p.at = page[d].at /\ p.code = page[d].code /\ p.first = page[d].first
        /\ p.master = page[d].master /\ p.old = page[d].old
    BY DeviceFacts DEF Page
  <1>2. WindowParts(page[d], q, m, blobs, cutMaster, now)
    BY DeviceFacts
  <1>3. WindowParts(p, q, m, blobs, cutMaster', now)
    <2>1. cutMaster' = cutMaster
      OBVIOUS
    <2>. HIDE DEF p, q, m, blobs
    <2>2. PlaceOK(p, cutMaster')
      BY <1>1, <1>2, <2>1 DEF WindowParts, PlaceOK
    <2>3. WindowOK(p, q, m, blobs, now)
      BY <1>1, <1>2 DEF WindowParts, WindowOK
    <2>. QED
      BY <1>2, <2>1, <2>2, <2>3 DEF WindowParts
  <1>4. /\ page' = [page EXCEPT ![d] = p] /\ pending' = [pending EXCEPT ![d] = q]
        /\ met' = [met EXCEPT ![d] = m] /\ custody' = [custody EXCEPT ![d] = blobs]
        /\ m \in [Sponsors -> Meeting]
    BY DeviceFacts DEF Refuse, Show
  <1>. HIDE DEF p, q, m, blobs
  <1>. QED
    BY <1>3, <1>4, SameCuts, DeviceStep DEF Windowed

LEMMA CollectWindow ==
    ASSUME WindowInv, NEW d \in Devices, NEW c \in Codes, UnlockOwn(d, c) \/ StartSponsorOnly(d, c)
    PROVE  Windowed'
  <1>0. /\ FiledOK(custody[d]) /\ Waiting(pending[d], met[d], custody[d])
        /\ IntentOK(pending[d], cutMaster, now)
        /\ custody = [custody EXCEPT ![d] = custody[d]] /\ c \in DOMAIN cutMaster
    BY DeviceFacts, PartsWait DEF Codes
  <1>1. CASE UnlockOwn(d, c)
    <2>. DEFINE p == [Home EXCEPT !.at = "present", !.code = c]
    <2>1. Show(d, p) /\ UNCHANGED <<pending, met, now, cutMaster, custody>>
      BY <1>1 DEF UnlockOwn, world
    <2>2. p.master = NoSecret /\ p.at \in Calm /\ p.code \in DOMAIN cutMaster'
      BY <1>0, <2>1 DEF Home, Calm
    <2>. HIDE DEF p
    <2>. QED
      BY <1>0, <2>1, <2>2, ShowIdle, SameCuts
  <1>2. CASE StartSponsorOnly(d, c)
    <2>. DEFINE p == [Home EXCEPT !.at = "first", !.code = c]
                q == pending[d]
                m == met[d]
                blobs == custody[d]
    <2>1. /\ Show(d, p) /\ UNCHANGED <<pending, met, now, cutMaster, custody>>
          /\ q = NoIntent
      BY <1>2 DEF StartSponsorOnly, world
    <2>2. p.master = NoSecret /\ p.at = "first" /\ p.code = c
      BY DEF Home
    <2>3. WindowParts(p, q, m, blobs, cutMaster', now)
      <3>. HIDE DEF p, m, blobs
      <3>1. PlaceOK(p, cutMaster')
        BY <1>0, <2>1, <2>2 DEF PlaceOK
      <3>2. WindowOK(p, q, m, blobs, now)
        BY <2>1, <2>2 DEF WindowOK
      <3>. QED
        BY <1>0, <2>1, <3>1, <3>2 DEF WindowParts, blobs
    <2>4. /\ page' = [page EXCEPT ![d] = p] /\ pending' = [pending EXCEPT ![d] = q]
          /\ met' = [met EXCEPT ![d] = m] /\ custody' = [custody EXCEPT ![d] = blobs]
          /\ m \in [Sponsors -> Meeting]
      BY <2>1, DeviceFacts DEF Show
    <2>5. Rising(cutMaster, cutMaster') /\ now' = now
      BY <2>1, SameCuts
    <2>. HIDE DEF p, q, m, blobs
    <2>. QED
      BY <2>3, <2>4, <2>5, DeviceStep DEF Windowed
  <1>. QED
    BY <1>1, <1>2

\* A secret recovered with the own shard says so on its page: the window is not
\* about it.
LEMMA PresentWindow ==
    ASSUME WindowInv, NEW d \in Devices, NEW s \in Sponsors, NEW shard \in Codes,
           ScanPresent(d, s, shard)
    PROVE  Windowed'
  <1>1. CASE Refuse(d)
    BY <1>1, SamePlace DEF ScanPresent
  <1>2. CASE /\ Opens(shard, page[d].code)
             /\ Recovered(d, Combine(page[d].code, shard), page[d].code, page[d].code)
             /\ UNCHANGED <<pending, handler, met>>
    <2>. DEFINE c == page[d].code
                secret == Combine(c, shard)
                p == [Home EXCEPT !.at = "recovered", !.code = c, !.master = secret, !.old = c]
                q == pending[d]
                m == met[d]
                blobs == custody[d]
    <2>0. UNCHANGED <<now, cutMaster, custody>>
      BY DEF ScanPresent
    <2>1. p.at = "recovered" /\ p.code = c /\ p.master = secret /\ p.old = c
      BY DEF Home
    <2>2. c = shard /\ c \in DOMAIN cutMaster /\ c # NoCode
      <3>1. c = shard
        BY <1>2 DEF Opens
      <3>2. cutMaster \in Seq(Int)
        BY DEF WindowInv, RecoveryInv, PagesInv, Typed
      <3>3. DOMAIN cutMaster = 1 .. Len(cutMaster) /\ Len(cutMaster) \in Nat
        BY <3>2, LenProperties
      <3>. QED
        BY <3>1, <3>3 DEF Codes, NoCode
    <2>3. secret # NoSecret
      <3>1. cutMaster \in Seq(Secrets) /\ created \in Nat
        BY DEF WindowInv, Real, Counted
      <3>2. secret = cutMaster[c]
        BY <2>2 DEF Combine
      <3>3. cutMaster[c] \in Secrets
        BY <2>2, <3>1, ElementOfSeq, LenProperties
      <3>. QED
        BY <3>1, <3>2, <3>3 DEF Secrets, NoSecret
    <2>4. FiledOK(blobs) /\ Waiting(q, m, blobs) /\ IntentOK(q, cutMaster, now)
      BY DeviceFacts, PartsWait
    <2>5. /\ page' = [page EXCEPT ![d] = p] /\ pending' = [pending EXCEPT ![d] = q]
          /\ met' = [met EXCEPT ![d] = m] /\ custody' = [custody EXCEPT ![d] = blobs]
          /\ m \in [Sponsors -> Meeting]
      BY <1>2, <2>0, DeviceFacts DEF Recovered, Show
    <2>6. WindowParts(p, q, m, blobs, cutMaster', now)
      <3>. HIDE DEF p, q, m, blobs, c, secret
      <3>1. PlaceOK(p, cutMaster')
        BY <2>0, <2>1, <2>2, <2>3 DEF PlaceOK, Finding
      <3>2. WindowOK(p, q, m, blobs, now)
        BY <2>1, <2>2, <2>4 DEF WindowOK, Waiting
      <3>. QED
        BY <2>0, <2>4, <3>1, <3>2 DEF WindowParts
    <2>. HIDE DEF p, q, m, blobs, c, secret
    <2>. QED
      BY <2>0, <2>5, <2>6, SameCuts, DeviceStep DEF Windowed
  <1>. QED
    BY <1>1, <1>2 DEF ScanPresent

LEMMA AcceptIs ==
    ASSUME WindowInv, NEW d \in Devices, NEW s \in Sponsors, Accept(d, s)
    PROVE  LET m == [met[d] EXCEPT ![s] = [code |-> page[d].code, at |-> now]]
           IN  /\ met' = [met EXCEPT ![d] = m] /\ m \in [Sponsors -> Meeting]
               /\ m[s].code = page[d].code /\ m[s].at = now
               /\ \A r \in Sponsors : r # s => m[r] = met[d][r]
  <1>. DEFINE e == [code |-> page[d].code, at |-> now]
              m == [met[d] EXCEPT ![s] = e]
  <1>1. e \in Meeting /\ e.code = page[d].code /\ e.at = now
    BY DeviceFacts DEF Page, Meeting
  <1>2. met' = [met EXCEPT ![d] = m]
    BY DEF Accept
  <1>3. met[d] \in [Sponsors -> Meeting]
    BY DeviceFacts
  <1>. HIDE DEF e
  <1>4. m \in [Sponsors -> Meeting] /\ m[s] = e /\ \A r \in Sponsors : r # s => m[r] = met[d][r]
    BY <1>1, <1>3
  <1>. HIDE DEF m
  <1>5. /\ met' = [met EXCEPT ![d] = m] /\ m \in [Sponsors -> Meeting]
        /\ m[s].code = page[d].code /\ m[s].at = now
        /\ \A r \in Sponsors : r # s => m[r] = met[d][r]
    BY <1>1, <1>2, <1>4
  <1>. QED
    BY <1>5 DEF m, e

LEMMA FirstWindow ==
    ASSUME WindowInv, NEW d \in Devices, NEW s \in Sponsors, NEW shard \in Codes,
           ScanFirst(d, s, shard)
    PROVE  Windowed'
  <1>0. page[d].at = "first" /\ UNCHANGED <<now, cutMaster, custody>>
    BY DEF ScanFirst
  <1>1. CASE Refuse(d)
    BY <1>0, <1>1, SamePlace
  <1>2. CASE /\ Opens(shard, page[d].code)
             /\ Show(d, [page[d] EXCEPT !.at = "second", !.first = s, !.shard = shard])
             /\ Accept(d, s) /\ UNCHANGED <<pending, handler, adopt>>
    <2>. DEFINE p == [page[d] EXCEPT !.at = "second", !.first = s, !.shard = shard]
                q == pending[d]
                m == [met[d] EXCEPT ![s] = [code |-> page[d].code, at |-> now]]
                blobs == custody[d]
    <2>1. /\ p.at = "second" /\ p.first = s /\ p.code = page[d].code
          /\ p.master = page[d].master
      BY DeviceFacts DEF Page
    <2>2. WindowParts(page[d], q, met[d], blobs, cutMaster, now) /\ now \in Int /\ now <= now
      BY DeviceFacts
    <2>3. /\ q = NoIntent /\ page[d].master = NoSecret /\ page[d].code \in DOMAIN cutMaster
      BY <1>0, <2>2 DEF WindowParts, WindowOK, PlaceOK, Finding
    <2>4. /\ met' = [met EXCEPT ![d] = m] /\ m \in [Sponsors -> Meeting]
          /\ m[s].code = page[d].code /\ m[s].at = now
      BY <1>2, AcceptIs
    <2>5. /\ page' = [page EXCEPT ![d] = p] /\ pending' = [pending EXCEPT ![d] = q]
          /\ custody' = [custody EXCEPT ![d] = blobs]
      BY <1>0, <1>2, DeviceFacts DEF Show
    <2>. HIDE DEF p, m, blobs
    <2>6. WindowParts(p, q, m, blobs, cutMaster', now)
      <3>1. PlaceOK(p, cutMaster')
        BY <1>0, <2>1, <2>3 DEF PlaceOK
      <3>2. WindowOK(p, q, m, blobs, now)
        BY <2>1, <2>2, <2>3, <2>4 DEF WindowOK
      <3>3. FiledOK(blobs) /\ IntentOK(q, cutMaster', now)
        BY <1>0, <2>2 DEF WindowParts
      <3>. QED
        BY <3>1, <3>2, <3>3 DEF WindowParts
    <2>. HIDE DEF q
    <2>. QED
      BY <1>0, <2>4, <2>5, <2>6, SameCuts, DeviceStep DEF Windowed
  <1>. QED
    BY <1>1, <1>2 DEF ScanFirst

\* The second sponsor's shard: both were met.
LEMMA SecondWindow ==
    ASSUME WindowInv, NEW d \in Devices, NEW s \in Sponsors, NEW shard \in Codes,
           ScanSecond(d, s, shard)
    PROVE  Windowed'
  <1>. DEFINE c == page[d].code
              p == [page[d] EXCEPT !.at = "filing"]
              q == pending[d]
              m == [met[d] EXCEPT ![s] = [code |-> c, at |-> now]]
              blobs == custody[d]
  <1>0. page[d].at = "second" /\ UNCHANGED <<now, cutMaster, custody>>
    BY DEF ScanSecond
  <1>1. CASE Refuse(d)
    BY <1>0, <1>1, SamePlace
  <1>2. CASE Show(d, p) /\ Accept(d, s) /\ UNCHANGED pending
    <2>1. p.at = "filing" /\ p.code = c /\ p.master = page[d].master
      BY DeviceFacts DEF Page
    <2>2. WindowParts(page[d], q, met[d], blobs, cutMaster, now)
      BY DeviceFacts
    <2>3. q = NoIntent /\ page[d].master = NoSecret /\ c \in DOMAIN cutMaster
      BY <1>0, <2>2 DEF WindowParts, WindowOK, PlaceOK, Finding
    <2>4. met' = [met EXCEPT ![d] = m] /\ m \in [Sponsors -> Meeting]
      BY <1>2, AcceptIs
    <2>5. /\ page' = [page EXCEPT ![d] = p] /\ pending' = [pending EXCEPT ![d] = q]
          /\ custody' = [custody EXCEPT ![d] = blobs]
      BY <1>0, <1>2, DeviceFacts DEF Show
    <2>. HIDE DEF p, m, blobs, q, c
    <2>6. WindowParts(p, q, m, blobs, cutMaster', now)
      BY <1>0, <2>1, <2>2, <2>3, GoneWaits, PartsWait, IdlePage DEF Calm
    <2>. QED
      BY <1>0, <2>4, <2>5, <2>6, SameCuts, DeviceStep DEF Windowed
  <1>. QED
    BY <1>1, <1>2 DEF ScanSecond

\* Filing: the intent is saved after both shards, and both sponsors were met.
LEMMA HandleWindow ==
    ASSUME WindowInv, NEW d \in Devices, Handle(d)
    PROVE  Windowed'
  <1>. DEFINE q == pending[d]
              m == met[d]
              c == handler[d].code
  <1>0. /\ WindowParts(page[d], q, m, custody[d], cutMaster, now)
        /\ page[d] \in Page /\ m \in [Sponsors -> Meeting] /\ now \in Int /\ now <= now
        /\ now \in 0 .. MaxTime
        /\ FilingOK(handler[d], page[d], q, m, now)
        /\ handler[d].at # "none" => c \in DOMAIN cutMaster
        /\ page = [page EXCEPT ![d] = page[d]] /\ pending = [pending EXCEPT ![d] = q]
        /\ met = [met EXCEPT ![d] = m] /\ custody = [custody EXCEPT ![d] = custody[d]]
    BY DeviceFacts DEF WindowInv, Filed, Counted, RecoveryInv, Worked, WorkOK
  <1>1. /\ FiledOK(custody[d]) /\ Waiting(q, m, custody[d]) /\ IntentOK(q, cutMaster, now)
    BY <1>0, PartsWait
  <1>2. ASSUME NEW slot \in {"first", "second"}, NEW shard, handler[d].at \in Filing,
               Put(d, c, slot, shard), UNCHANGED <<pending, page, cutMaster, world>>
        PROVE  Windowed'
    <2>. DEFINE x == <<c, slot, shard>>
                blobs == {b \in custody[d] : ~(b[1] = c /\ b[2] = slot)} \cup {x}
    <2>1. x[1] = c /\ x[2] = slot /\ x[2] # "own"
      OBVIOUS
    <2>2. \A b \in blobs : b = x \/ (b \in custody[d] /\ ~(b[1] = c /\ b[2] = slot))
      OBVIOUS
    <2>3. custody' = [custody EXCEPT ![d] = blobs]
      BY <1>2 DEF Put
    <2>4. /\ page' = [page EXCEPT ![d] = page[d]] /\ pending' = [pending EXCEPT ![d] = q]
          /\ met' = [met EXCEPT ![d] = m] /\ UNCHANGED <<now, cutMaster>>
      BY <1>0, <1>2 DEF world
    <2>. HIDE DEF x, blobs, q, m, c
    <2>5. FiledOK(blobs)
      <3>1. \A b \in blobs : b[2] = "own" => b = Own(b[1])
        BY <1>1, <2>1, <2>2 DEF FiledOK
      <3>2. \A a, b \in blobs : a[1] = b[1] /\ a[2] = b[2] => a = b
        BY <1>1, <2>1, <2>2 DEF FiledOK
      <3>. QED
        BY <3>1, <3>2 DEF FiledOK
    <2>6. q = NoIntent /\ page[d].at \in {"home", "filing"}
      BY <1>0, <1>2 DEF FilingOK
    <2>7. WindowParts(page[d], q, m, blobs, cutMaster', now)
      <3>1. PlaceOK(page[d], cutMaster)
        BY <1>0 DEF WindowParts
      <3>2. page[d].master = NoSecret
        BY <2>6, <3>1 DEF PlaceOK, Finding
      <3>. QED
        BY <1>1, <2>4, <2>5, <2>6, <3>1, <3>2, GoneWaits, IdlePage DEF PlaceOK, Calm
    <2>. QED
      BY <1>0, <2>3, <2>4, <2>7, SameCuts, DeviceStep DEF Windowed
  <1>3. CASE StoreFirst(d)
    <2>1. /\ handler[d].at \in Filing /\ Put(d, c, "first", handler[d].first)
          /\ UNCHANGED <<pending, page, cutMaster, world>>
      BY <1>3 DEF StoreFirst, Filing
    <2>. HIDE DEF c
    <2>. QED
      BY <1>2, <2>1
  <1>4. CASE StoreSecond(d)
    <2>1. /\ handler[d].at \in Filing /\ Put(d, c, "second", handler[d].second)
          /\ UNCHANGED <<pending, page, cutMaster, world>>
      BY <1>4 DEF StoreSecond, Filing
    <2>. HIDE DEF c
    <2>. QED
      BY <1>2, <2>1
  <1>5. CASE SaveIntent(d)
    <2>. DEFINE r == [code |-> c, openedAt |-> now]
                blobs == custody[d]
    <2>1. /\ handler[d].at = "save intent" /\ page' = [page EXCEPT ![d] = Home]
          /\ pending' = [pending EXCEPT ![d] = r]
          /\ UNCHANGED <<custody, met, now, cutMaster>>
      BY <1>5 DEF SaveIntent, Show, world
    <2>2. MetBy(m, c, now) /\ c \in DOMAIN cutMaster
      BY <1>0, <2>1 DEF FilingOK, Filing
    <2>3. r.code = c /\ r.openedAt = now
      OBVIOUS
    <2>4. met' = [met EXCEPT ![d] = m] /\ custody' = [custody EXCEPT ![d] = blobs]
      BY <1>0, <2>1
    <2>. HIDE DEF r, blobs, q, m, c
    <2>5. IntentOK(r, cutMaster, now) /\ Waiting(r, m, blobs)
      BY <1>0, <2>2, <2>3 DEF IntentOK, Waiting
    <2>6. WindowParts(Home, r, m, blobs, cutMaster', now)
      BY <1>1, <2>1, <2>5, HomePage DEF blobs
    <2>. QED
      BY <1>0, <2>1, <2>4, <2>6, SameCuts, DeviceStep DEF Windowed
  <1>6. CASE BurnOld(d)
    <2>. DEFINE less == custody[d] \ {Own(handler[d].old)}
    <2>1. /\ custody' = [custody EXCEPT ![d] = less]
          /\ page' = [page EXCEPT ![d] = page[d]] /\ pending' = [pending EXCEPT ![d] = q]
          /\ met' = [met EXCEPT ![d] = m] /\ UNCHANGED <<now, cutMaster>>
      BY <1>0, <1>6 DEF BurnOld, world
    <2>2. FiledOK(less) /\ Waiting(q, m, less) /\ less \subseteq custody[d]
      BY <1>1, FewerBlobs
    <2>. HIDE DEF less, q, m, c
    <2>3. WindowParts(page[d], q, m, less, cutMaster', now)
      BY <1>0, <2>1, <2>2 DEF WindowParts, WindowOK, Waiting
    <2>. QED
      BY <1>0, <2>1, <2>3, SameCuts, DeviceStep DEF Windowed
  <1>7. CASE ShowCode(d)
    <2>. DEFINE p == [Home EXCEPT !.at = "sendA", !.code = c]
    <2>1. /\ UNCHANGED <<pending, met, now, cutMaster, custody>>
          /\ Show(d, p) \/ UNCHANGED page
          /\ c \in DOMAIN cutMaster'
      BY <1>0, <1>7 DEF ShowCode, world
    <2>2. p.master = NoSecret /\ p.at \in Calm /\ p.code = c
      BY DEF Home, Calm
    <2>. HIDE DEF p, q, m, c
    <2>3. CASE UNCHANGED page
      BY <2>1, <2>3, Untouched
    <2>4. CASE Show(d, p)
      BY <1>0, <1>1, <2>1, <2>2, <2>4, ShowIdle, SameCuts DEF q, m
    <2>. QED
      BY <2>1, <2>3, <2>4
  <1>. QED
    BY <1>3, <1>4, <1>5, <1>6, <1>7 DEF Handle

\* Whoever completes has waited for both.
LEMMA CompleteWindow ==
    ASSUME WindowInv, NEW d \in Devices, Complete(d)
    PROVE  Windowed'
  <1>. DEFINE c == pending[d].code
              q == pending[d]
              m == met[d]
              blobs == custody[d]
  <1>0. /\ page[d] = Home /\ Elapsed(d) /\ UNCHANGED <<custody, cutMaster, now>>
    BY DEF Complete, Idle
  <1>1. /\ WindowParts(page[d], q, m, blobs, cutMaster, now) /\ BlobsOK(blobs, cutMaster)
        /\ now \in Int /\ Window \in Int /\ q \in Intent /\ m \in [Sponsors -> Meeting]
    BY DeviceFacts
  <1>2. FiledOK(blobs) /\ Waiting(q, m, blobs) /\ IntentOK(q, cutMaster, now)
    BY <1>1, PartsWait
  <1>3. CASE pending' = [pending EXCEPT ![d] = NoIntent] /\ NobodyMet(d) /\ UNCHANGED page
    <2>1. /\ page' = [page EXCEPT ![d] = Home] /\ custody' = [custody EXCEPT ![d] = blobs]
      BY <1>0, <1>3, DeviceFacts
    <2>2. WindowParts(Home, NoIntent, Nobody, blobs, cutMaster', now)
      BY <1>2, GoneWaits, HomePage
    <2>3. met' = [met EXCEPT ![d] = Nobody] /\ Nobody \in [Sponsors -> Meeting]
      BY <1>3, NobodyOK
    <2>. HIDE DEF blobs
    <2>. QED
      BY <1>0, <1>3, <2>1, <2>2, <2>3, SameCuts, DeviceStep DEF Windowed
  <1>4. CASE /\ \E x, y \in Slots(custody[d], c) :
                   /\ x[2] = "first" /\ y[2] = "second"
                   /\ Opens(x[3], c) /\ Opens(y[3], c)
                   /\ Show(d, [Home EXCEPT !.at = "burn first", !.code = c,
                                           !.master = Combine(x[3], y[3])])
             /\ UNCHANGED <<pending, met>>
    <2>1. PICK x \in Slots(custody[d], c), y \in Slots(custody[d], c) :
                   /\ x[2] = "first" /\ y[2] = "second"
                   /\ Opens(x[3], c) /\ Opens(y[3], c)
                   /\ Show(d, [Home EXCEPT !.at = "burn first", !.code = c,
                                           !.master = Combine(x[3], y[3])])
      BY <1>4
    <2>. DEFINE secret == Combine(x[3], y[3])
                p == [Home EXCEPT !.at = "burn first", !.code = c, !.master = secret]
    <2>2. p.at = "burn first" /\ p.code = c
      BY DEF Home
    <2>3. /\ page' = [page EXCEPT ![d] = p] /\ pending' = [pending EXCEPT ![d] = q]
          /\ met' = [met EXCEPT ![d] = m] /\ custody' = [custody EXCEPT ![d] = blobs]
      BY <1>0, <1>4, <2>1, DeviceFacts DEF Show
    <2>4. q # NoIntent /\ now - q.openedAt >= Window /\ q.openedAt \in Int /\ q.code \in DOMAIN cutMaster
      BY <1>0, <1>1, <1>2 DEF Elapsed, Intent, IntentOK
    <2>5. BothFiled(blobs, q.code)
      BY <2>1 DEF BothFiled
    <2>. HIDE DEF p, blobs, m
    <2>6. MetBy(m, q.code, q.openedAt)
      BY <1>2, <2>4, <2>5 DEF Waiting
    <2>7. MetBy(m, q.code, now - Window)
      <3>1. q.openedAt <= now - Window /\ now - Window \in Int
        BY <1>1, <2>4
      <3>. QED
        BY <1>1, <2>4, <2>6, <3>1, MetByKept
    <2>8. WindowParts(p, q, m, blobs, cutMaster', now)
      <3>1. PlaceOK(p, cutMaster')
        BY <1>0, <2>2, <2>4 DEF PlaceOK, Finding
      <3>2. WindowOK(p, q, m, blobs, now)
        BY <1>2, <2>2, <2>7 DEF WindowOK, Waiting
      <3>. QED
        BY <1>0, <1>2, <3>1, <3>2 DEF WindowParts
    <2>. HIDE DEF q, c, secret
    <2>. QED
      BY <1>0, <1>1, <2>3, <2>8, SameCuts, DeviceStep DEF Windowed
  <1>. QED
    BY <1>3, <1>4 DEF Complete

LEMMA CancelWindow ==
    ASSUME WindowInv, NEW d \in Devices, Cancel(d)
    PROVE  Windowed'
  <1>. DEFINE q == pending[d]
              m == met[d]
              blobs == custody[d]
              p == [Home EXCEPT !.at = "burn first", !.code = q.code]
  <1>0. /\ q # NoIntent /\ Show(d, p)
        /\ UNCHANGED <<pending, met, custody, cutMaster, now>>
    BY DEF Cancel, world
  <1>1. p.at = "burn first" /\ p.code = q.code /\ p.master = NoSecret
    BY DEF Home
  <1>2. WindowParts(page[d], q, m, blobs, cutMaster, now) /\ m \in [Sponsors -> Meeting]
    BY DeviceFacts
  <1>3. FiledOK(blobs) /\ Waiting(q, m, blobs) /\ IntentOK(q, cutMaster, now)
    BY <1>2, PartsWait
  <1>4. /\ page' = [page EXCEPT ![d] = p] /\ pending' = [pending EXCEPT ![d] = q]
        /\ met' = [met EXCEPT ![d] = m] /\ custody' = [custody EXCEPT ![d] = blobs]
    BY <1>0, DeviceFacts DEF Show
  <1>. HIDE DEF p, m, blobs, q
  <1>5. WindowParts(p, q, m, blobs, cutMaster', now)
    <2>1. PlaceOK(p, cutMaster')
      BY <1>0, <1>1, <1>3 DEF PlaceOK, IntentOK
    <2>2. WindowOK(p, q, m, blobs, now)
      BY <1>1, <1>3 DEF WindowOK, Waiting
    <2>. QED
      BY <1>0, <1>3, <2>1, <2>2 DEF WindowParts
  <1>. QED
    BY <1>0, <1>2, <1>4, <1>5, SameCuts, DeviceStep DEF Windowed

\* A burned blob is one of the two a completion would need.
LEMMA BurnWindow ==
    ASSUME WindowInv, NEW d \in Devices,
           NEW slot \in {"first", "second"}, NEW next \in {"burn second", "forget"},
           Burn(d, slot, next)
    PROVE  Windowed'
  <1>. DEFINE q == pending[d]
              blobs == {b \in custody[d] : ~(b[1] = page[d].code /\ b[2] = slot)}
              p == [page[d] EXCEPT !.at = next]
  <1>0. /\ page[d].at \in {"burn first", "burn second"} /\ Show(d, p)
        /\ custody' = [custody EXCEPT ![d] = blobs]
        /\ IF page[d].master = NoSecret THEN NobodyMet(d) ELSE UNCHANGED met
        /\ UNCHANGED <<pending, cutMaster, now>>
    BY DEF Burn
  <1>1. /\ p.at = next /\ p.code = page[d].code /\ p.master = page[d].master
        /\ p.old = page[d].old
    BY DeviceFacts DEF Page
  <1>2. WindowParts(page[d], q, met[d], custody[d], cutMaster, now)
    BY DeviceFacts
  <1>3. /\ FiledOK(custody[d]) /\ Waiting(q, met[d], custody[d]) /\ IntentOK(q, cutMaster, now)
    BY <1>2, PartsWait
  <1>4. page[d].code = q.code /\ page[d].code \in DOMAIN cutMaster
    BY <1>0, <1>2 DEF WindowParts, WindowOK, PlaceOK
  <1>5. /\ page' = [page EXCEPT ![d] = p] /\ pending' = [pending EXCEPT ![d] = q]
    BY <1>0, DeviceFacts DEF Show
  <1>6. FiledOK(blobs) /\ ~BothFiled(blobs, q.code)
    <2>1. FiledOK(blobs)
      BY <1>3, FewerBlobs
    <2>2. ~BothFiled(blobs, q.code)
      BY <1>4 DEF BothFiled, Slots
    <2>. QED
      BY <2>1, <2>2
  <1>. HIDE DEF q, blobs, p
  <1>7. ASSUME NEW m, page[d].master # NoSecret => m = met[d]
        PROVE  WindowParts(p, q, m, blobs, cutMaster', now)
    <2>1. PlaceOK(p, cutMaster')
      BY <1>0, <1>1, <1>4 DEF PlaceOK, Finding
    <2>2. WindowOK(p, q, m, blobs, now)
      BY <1>1, <1>2, <1>4, <1>6, <1>7 DEF WindowOK, WindowParts
    <2>. QED
      BY <1>0, <1>3, <1>6, <2>1, <2>2 DEF WindowParts
  <1>8. CASE page[d].master = NoSecret
    <2>1. met' = [met EXCEPT ![d] = Nobody] /\ Nobody \in [Sponsors -> Meeting]
      BY <1>0, <1>8, NobodyOK
    <2>2. WindowParts(p, q, Nobody, blobs, cutMaster', now)
      BY <1>7, <1>8
    <2>. QED
      BY <1>0, <1>5, <2>1, <2>2, SameCuts, DeviceStep DEF Windowed
  <1>9. CASE page[d].master # NoSecret
    <2>1. met' = [met EXCEPT ![d] = met[d]] /\ met[d] \in [Sponsors -> Meeting]
      BY <1>0, <1>9, DeviceFacts
    <2>2. WindowParts(p, q, met[d], blobs, cutMaster', now)
      BY <1>7
    <2>. QED
      BY <1>0, <1>5, <2>1, <2>2, SameCuts, DeviceStep DEF Windowed
  <1>. QED
    BY <1>8, <1>9

LEMMA ForgetWindow ==
    ASSUME WindowInv, NEW d \in Devices, Forget(d)
    PROVE  Windowed'
  <1>. DEFINE blobs == custody[d]
              c == page[d].code
              secret == page[d].master
  <1>0. /\ page[d].at = "forget" /\ UNCHANGED <<custody, cutMaster, now>> /\ NobodyMet(d)
        /\ pending' = [pending EXCEPT ![d] = NoIntent]
    BY DEF Forget
  <1>1. /\ met' = [met EXCEPT ![d] = Nobody] /\ Nobody \in [Sponsors -> Meeting]
        /\ custody' = [custody EXCEPT ![d] = blobs]
    BY <1>0, NobodyOK, DeviceFacts
  <1>2. WindowParts(page[d], pending[d], met[d], blobs, cutMaster, now)
    BY DeviceFacts
  <1>3. FiledOK(blobs) /\ c \in DOMAIN cutMaster
    BY <1>0, <1>2 DEF WindowParts, PlaceOK
  <1>4. Waiting(NoIntent, Nobody, blobs) /\ IntentOK(NoIntent, cutMaster', now)
    BY GoneWaits
  <1>5. \E p : Show(d, p) /\ WindowParts(p, NoIntent, Nobody, blobs, cutMaster', now)
    <2>1. CASE secret = NoSecret
      <3>1. Show(d, Home)
        BY <2>1 DEF Forget
      <3>2. WindowParts(Home, NoIntent, Nobody, blobs, cutMaster', now)
        BY <1>3, <1>4, HomePage
      <3>. QED
        BY <3>1, <3>2
    <2>2. CASE secret # NoSecret
      <3>. DEFINE p == [Home EXCEPT !.at = "recovered", !.code = c, !.master = secret, !.old = NoCode]
      <3>1. Show(d, p)
        BY <2>2 DEF Forget, Recovered
      <3>2. p.at = "recovered" /\ p.code = c /\ p.master = secret
        BY DEF Home
      <3>3. NoIntent.code # c
        <4>1. cutMaster \in Seq(Int)
          BY DEF WindowInv, RecoveryInv, PagesInv, Typed
        <4>2. DOMAIN cutMaster = 1 .. Len(cutMaster) /\ Len(cutMaster) \in Nat
          BY <4>1, LenProperties
        <4>3. NoIntent.code = 0
          BY DEF NoIntent, NoCode
        <4>. QED
          BY <1>3, <4>2, <4>3
      <3>. HIDE DEF p, secret, c
      <3>4. PlaceOK(p, cutMaster')
        BY <1>0, <1>3, <2>2, <3>2 DEF PlaceOK, Finding
      <3>5. WindowOK(p, NoIntent, Nobody, blobs, now)
        BY <3>2, <3>3 DEF WindowOK
      <3>6. WindowParts(p, NoIntent, Nobody, blobs, cutMaster', now)
        BY <1>3, <1>4, <3>4, <3>5 DEF WindowParts
      <3>. QED
        BY <3>1, <3>6
    <2>. QED
      BY <2>1, <2>2
  <1>. HIDE DEF blobs
  <1>6. PICK p : Show(d, p) /\ WindowParts(p, NoIntent, Nobody, blobs, cutMaster', now)
    BY <1>5
  <1>7. page' = [page EXCEPT ![d] = p]
    BY <1>6 DEF Show
  <1>. QED
    BY <1>0, <1>1, <1>6, <1>7, SameCuts, DeviceStep DEF Windowed

LEMMA ReissueWindow ==
    ASSUME WindowInv, NEW d \in Devices, StartReissue(d)
    PROVE  Windowed'
  <1>0. /\ WindowParts(page[d], pending[d], met[d], custody[d], cutMaster, now)
        /\ page[d] \in Page /\ met[d] \in [Sponsors -> Meeting] /\ now \in Int /\ now <= now
        /\ pending[d] \in Intent
    BY DeviceFacts
  <1>1. /\ FiledOK(custody[d]) /\ Waiting(pending[d], met[d], custody[d])
        /\ IntentOK(pending[d], cutMaster, now)
    BY <1>0, PartsWait
  <1>. DEFINE n == Len(cutMaster')
              secret == page[d].master
              p == [page[d] EXCEPT !.at = "reissue", !.code = n]
              q == pending[d]
              m == met[d]
              blobs == custody[d] \cup {Own(n)}
  <1>11. /\ page[d].at = "recovered" /\ Cut(d, secret) /\ Show(d, p)
        /\ UNCHANGED <<pending, met, now>> /\ secret \in Int
    BY <1>0 DEF StartReissue, world, Page
  <1>12. p.at = "reissue" /\ p.code = n /\ p.master = secret
    BY <1>0 DEF Page
  <1>13. /\ Rising(cutMaster, cutMaster') /\ n \in DOMAIN cutMaster'
        /\ n \notin DOMAIN cutMaster /\ n # NoCode
        /\ custody' = [custody EXCEPT ![d] = blobs]
    <2>. HIDE DEF secret, p
    <2>. QED
      BY <1>11, CutRises
  <1>14. FiledOK(blobs) /\ Waiting(q, m, blobs)
    BY <1>1, OwnFiled
  <1>15. secret # NoSecret
    BY <1>0, <1>11 DEF WindowParts, PlaceOK
  <1>16. q.code # n
    <2>1. CASE q = NoIntent
      BY <1>13, <2>1 DEF NoIntent
    <2>2. CASE q # NoIntent
      BY <1>1, <1>13, <2>2 DEF IntentOK
    <2>. QED
      BY <2>1, <2>2
  <1>17. /\ page' = [page EXCEPT ![d] = p] /\ pending' = [pending EXCEPT ![d] = q]
        /\ met' = [met EXCEPT ![d] = m]
    BY <1>11, DeviceFacts DEF Show
  <1>18. IntentOK(q, cutMaster', now)
    BY <1>0, <1>1, <1>13, IntentKept
  <1>. HIDE DEF p, blobs, n, q, m, secret
  <1>19. WindowParts(p, q, m, blobs, cutMaster', now)
    <2>1. PlaceOK(p, cutMaster')
      BY <1>12, <1>13, <1>15 DEF PlaceOK, Finding
    <2>2. WindowOK(p, q, m, blobs, now)
      BY <1>12, <1>14, <1>16 DEF WindowOK, Waiting
    <2>. QED
      BY <1>14, <1>18, <2>1, <2>2 DEF WindowParts
  <1>20. m \in [Sponsors -> Meeting]
    BY <1>0 DEF m
  <1>. QED
    BY <1>11, <1>13, <1>17, <1>19, <1>20, DeviceStep DEF Windowed

\* The page is gone; the intent and its shards, if they were saved, are not.
LEMMA AwayWindow ==
    ASSUME WindowInv, NEW d \in Devices,
           Show(d, Home), DropCollection(d) \/ UNCHANGED met,
           UNCHANGED <<pending, custody, cutMaster, now>>
    PROVE  Windowed'
  <1>. DEFINE q == pending[d]
              blobs == custody[d]
  <1>1. /\ FiledOK(blobs) /\ Waiting(q, met[d], blobs) /\ IntentOK(q, cutMaster, now)
    BY DeviceFacts, PartsWait
  <1>2. PICK m \in [Sponsors -> Meeting] : met' = [met EXCEPT ![d] = m] /\ Waiting(q, m, blobs)
    <2>1. CASE DropCollection(d)
      BY <1>1, <2>1, Dropped
    <2>2. CASE UNCHANGED met
      BY <1>1, <2>2, DeviceFacts
    <2>. QED
      BY <2>1, <2>2
  <1>3. /\ page' = [page EXCEPT ![d] = Home] /\ pending' = [pending EXCEPT ![d] = q]
        /\ custody' = [custody EXCEPT ![d] = blobs]
    BY DeviceFacts DEF Show
  <1>4. WindowParts(Home, q, m, blobs, cutMaster', now)
    BY <1>1, <1>2, HomePage
  <1>. HIDE DEF q, blobs
  <1>. QED
    BY <1>2, <1>3, <1>4, SameCuts, DeviceStep DEF Windowed

LEMMA LossWindow ==
    ASSUME WindowInv, NEW d \in Devices, LoseDevice(d)
    PROVE  Windowed'
  <1>1. /\ page' = [page EXCEPT ![d] = Home] /\ pending' = [pending EXCEPT ![d] = NoIntent]
        /\ custody' = [custody EXCEPT ![d] = {}] /\ NobodyMet(d)
        /\ UNCHANGED <<cutMaster, now>>
    BY DEF LoseDevice, DropPage
  <1>2. met' = [met EXCEPT ![d] = Nobody] /\ Nobody \in [Sponsors -> Meeting]
    BY <1>1, NobodyOK
  <1>3. FiledOK({})
    BY DEF FiledOK
  <1>4. WindowParts(Home, NoIntent, Nobody, {}, cutMaster', now)
    BY <1>3, GoneWaits, HomePage
  <1>. QED
    BY <1>1, <1>2, <1>4, SameCuts, DeviceStep DEF Windowed

LEMMA TickWindow ==
    ASSUME WindowInv, Tick
    PROVE  Windowed'
  <1>0. /\ now' = now + 1
        /\ UNCHANGED <<page, pending, met, custody, cutMaster>>
    BY DEF Tick, device
  <1>1. ASSUME NEW d \in Devices PROVE DeviceOK(d)'
    <2>1. /\ page[d] \in Page /\ pending[d] \in Intent /\ met[d] \in [Sponsors -> Meeting]
          /\ WindowParts(page[d], pending[d], met[d], custody[d], cutMaster, now) /\ now \in Int
      BY DeviceFacts
    <2>2. now' \in Int /\ now <= now' /\ Rising(cutMaster, cutMaster)
      BY <1>0, <2>1, SameCuts DEF Rising
    <2>3. WindowParts(page[d], pending[d], met[d], custody[d], cutMaster, now')
      BY <2>1, <2>2, PartsKept
    <2>. QED
      BY <1>0, <2>3 DEF WindowParts, DeviceOK
  <1>2. met' \in [Devices -> [Sponsors -> Meeting]]
    BY <1>0 DEF WindowInv, Counted
  <1>. QED
    BY <1>1, <1>2 DEF Windowed, Devised

\* No step opens a recovery that two sponsors did not wait out.
LEMMA WindowSteps == WindowInv /\ [Next]_vars => Windowed'
  <1>. SUFFICES ASSUME WindowInv, [Next]_vars PROVE Windowed'
    OBVIOUS
  <1>1. ASSUME NEW d \in Devices, Use(d) PROVE Windowed'
    <2>1. CASE \/ CreateKeystore(d) \/ BeginCeremony(d) \/ NoteCode(d)
               \/ \E s \in Sponsors : HandOver(d, s)
      BY <2>1, SetUpWindow
    <2>2. CASE \E c \in Codes : UnlockOwn(d, c) \/ StartSponsorOnly(d, c)
      BY <2>2, CollectWindow
    <2>3. CASE \E s \in Sponsors, shard \in Codes :
                  ScanPresent(d, s, shard) \/ ScanFirst(d, s, shard) \/ ScanSecond(d, s, shard)
      BY <2>3, PresentWindow, FirstWindow, SecondWindow
    <2>4. CASE Complete(d) \/ Cancel(d) \/ Forget(d)
      BY <2>4, CompleteWindow, CancelWindow, ForgetWindow
    <2>5. CASE Burn(d, "first", "burn second") \/ Burn(d, "second", "forget")
      BY <2>5, BurnWindow
    <2>6. CASE AdoptView(d) \/ AdoptSeal(d)
      BY <2>6, Untouched DEF AdoptView, AdoptSeal, world
    <2>7. CASE StartReissue(d) \/ Handle(d)
      BY <2>7, ReissueWindow, HandleWindow
    <2>8. CASE Leave(d)
      BY <2>8, AwayWindow DEF Leave
    <2>9. CASE Reload(d)
      BY <2>9, AwayWindow DEF Reload, DropPage, Show
    <2>. QED
      BY <1>1, <2>1, <2>2, <2>3, <2>4, <2>5, <2>6, <2>7, <2>8, <2>9 DEF Use
  <1>2. ASSUME NEW d \in Devices, LoseDevice(d) PROVE Windowed'
    BY <1>2, LossWindow
  <1>3. CASE Tick
    BY <1>3, TickWindow
  <1>4. CASE UNCHANGED vars
    BY <1>4, Untouched DEF vars, device, world
  <1>. QED
    BY <1>1, <1>2, <1>3, <1>4 DEF Next

-----------------------------------------------------------------------------
(* A filing: only both sponsors' shards start one, and while it is at work *)
(* nothing else on its device touches the intent or who was met.           *)

\* A step of one device is no step of another.
LEMMA OthersStay ==
    ASSUME WindowInv, NEW e \in Devices, Use(e) \/ LoseDevice(e), NEW d \in Devices, d # e
    PROVE  /\ page'[d] = page[d] /\ pending'[d] = pending[d]
           /\ met'[d] = met[d] /\ handler'[d] = handler[d] /\ now' = now
  <1>0. /\ page \in [Devices -> Page] /\ pending \in [Devices -> Intent]
        /\ met \in [Devices -> [Sponsors -> Meeting]] /\ handler \in [Devices -> Handler]
    BY DeviceFacts DEF WindowInv, RecoveryInv, Worked
  <1>1. CASE CreateKeystore(e) \/ AdoptView(e) \/ AdoptSeal(e)
    BY <1>1 DEF CreateKeystore, AdoptView, AdoptSeal, world
  <1>2. CASE BeginCeremony(e) \/ NoteCode(e) \/ \E s \in Sponsors : HandOver(e, s)
    BY <1>0, <1>2 DEF BeginCeremony, NoteCode, HandOver, Show, world
  <1>3. CASE \E c \in Codes : UnlockOwn(e, c) \/ StartSponsorOnly(e, c)
    BY <1>0, <1>3 DEF UnlockOwn, StartSponsorOnly, Show, world
  <1>4. CASE \E s \in Sponsors, shard \in Codes :
                ScanPresent(e, s, shard) \/ ScanFirst(e, s, shard) \/ ScanSecond(e, s, shard)
    BY <1>0, <1>4
       DEF ScanPresent, ScanFirst, ScanSecond, Refuse, Recovered, Accept, Work, Show
  <1>5. CASE Complete(e) \/ Cancel(e) \/ Forget(e)
    BY <1>0, <1>5 DEF Complete, Cancel, Forget, Recovered, NobodyMet, Show, world
  <1>6. CASE Burn(e, "first", "burn second") \/ Burn(e, "second", "forget")
    BY <1>0, <1>6 DEF Burn, NobodyMet, Show
  <1>7. CASE StartReissue(e) \/ Handle(e)
    BY <1>0, <1>7 DEF StartReissue, Handle, StoreFirst, StoreSecond, SaveIntent, BurnOld,
                      ShowCode, Work, Show, world
  <1>8. CASE Leave(e) \/ Reload(e) \/ LoseDevice(e)
    BY <1>0, <1>8 DEF Leave, Reload, LoseDevice, DropPage, DropCollection, NobodyMet, Work, Show
  <1>. QED
    BY <1>1, <1>2, <1>3, <1>4, <1>5, <1>6, <1>7, <1>8 DEF Use

\* Where nothing is started, only the handler's own steps, Back, and a tab or a
\* device gone change the page, the intent or who was met.
LEMMA WhileFiling ==
    ASSUME WindowInv, NEW d \in Devices, Use(d) \/ LoseDevice(d), handler[d].at \in Filing
    PROVE  \/ UNCHANGED <<page, pending, met, handler, now>>
           \/ StoreFirst(d) \/ StoreSecond(d) \/ SaveIntent(d)
           \/ Leave(d) \/ Reload(d) \/ LoseDevice(d)
  <1>0. page[d].at \in {"home", "filing"} /\ handler[d] # NoHandler
    <2>1. FilingOK(handler[d], page[d], pending[d], met[d], now)
      BY DEF WindowInv, Filed
    <2>2. NoHandler.at = "none" /\ "none" \notin Filing
      BY DEF NoHandler, Filing
    <2>. QED
      BY <2>1, <2>2 DEF FilingOK
  <1>1. CASE CreateKeystore(d) \/ AdoptView(d) \/ AdoptSeal(d)
    BY <1>1 DEF CreateKeystore, AdoptView, AdoptSeal, world
  <1>2. CASE BeginCeremony(d) \/ NoteCode(d) \/ \E s \in Sponsors : HandOver(d, s)
    BY <1>0, <1>2 DEF BeginCeremony, NoteCode, HandOver, Idle
  <1>3. CASE \E c \in Codes : UnlockOwn(d, c) \/ StartSponsorOnly(d, c)
    BY <1>0, <1>3 DEF UnlockOwn, StartSponsorOnly, Idle
  <1>4. CASE \E s \in Sponsors, shard \in Codes :
                ScanPresent(d, s, shard) \/ ScanFirst(d, s, shard) \/ ScanSecond(d, s, shard)
    BY <1>0, <1>4 DEF ScanPresent, ScanFirst, ScanSecond
  <1>5. CASE Complete(d) \/ Cancel(d) \/ Forget(d)
    BY <1>0, <1>5 DEF Complete, Cancel, Forget, Idle
  <1>6. CASE Burn(d, "first", "burn second") \/ Burn(d, "second", "forget")
    BY <1>0, <1>6 DEF Burn
  <1>7. CASE StartReissue(d) \/ BurnOld(d) \/ ShowCode(d)
    BY <1>0, <1>7 DEF StartReissue, BurnOld, ShowCode, Filing
  <1>. QED
    BY <1>1, <1>2, <1>3, <1>4, <1>5, <1>6, <1>7 DEF Use, Handle

LEMMA FilingGoesOn ==
    ASSUME WindowInv, NEW d \in Devices, Use(d) \/ LoseDevice(d), handler[d].at \in Filing
    PROVE  Filed(d)'
  <1>0. /\ page \in [Devices -> Page] /\ pending \in [Devices -> Intent]
        /\ met \in [Devices -> [Sponsors -> Meeting]] /\ handler \in [Devices -> Handler]
        /\ FilingOK(handler[d], page[d], pending[d], met[d], now)
    BY DeviceFacts DEF WindowInv, RecoveryInv, Worked, Filed
  <1>1. CASE UNCHANGED <<page, pending, met, handler, now>>
    BY <1>0, <1>1 DEF Filed
  <1>2. CASE StoreFirst(d) \/ StoreSecond(d)
    <2>1. /\ UNCHANGED <<page, pending, met, now>>
          /\ \E place \in {"store second", "save intent"} :
                handler' = [handler EXCEPT ![d] = [handler[d] EXCEPT !.at = place]]
      BY <1>2 DEF StoreFirst, StoreSecond, Work, world
    <2>2. PICK place \in {"store second", "save intent"} :
                handler' = [handler EXCEPT ![d] = [handler[d] EXCEPT !.at = place]]
      BY <2>1
    <2>3. handler'[d].code = handler[d].code
      BY <1>0, <2>2 DEF Handler
    <2>. QED
      BY <1>0, <2>1, <2>3 DEF Filed, FilingOK
  <1>3. CASE SaveIntent(d) \/ Reload(d) \/ LoseDevice(d)
    <2>1. handler' = [handler EXCEPT ![d] = NoHandler]
      BY <1>3 DEF SaveIntent, Reload, LoseDevice, DropPage, Work
    <2>2. handler'[d].at = "none"
      BY <1>0, <2>1 DEF NoHandler
    <2>. QED
      BY <2>2 DEF Filed, FilingOK, Filing
  <1>4. CASE Leave(d)
    <2>1. page[d].at = "filing"
      BY <1>0, <1>4 DEF FilingOK, Leave
    <2>2. /\ UNCHANGED <<pending, met, now>> /\ page' = [page EXCEPT ![d] = Home]
          /\ handler' = [handler EXCEPT ![d] = IF handler[d].at = "store first"
                             THEN [handler[d] EXCEPT !.first = NoCode] ELSE handler[d]]
      BY <1>4, <2>1 DEF Leave, Work, Show
    <2>3. handler'[d].code = handler[d].code /\ page'[d].at = "home"
      BY <1>0, <2>2 DEF Handler, Home
    <2>. QED
      BY <1>0, <2>2, <2>3 DEF Filed, FilingOK
  <1>. QED
    BY <1>1, <1>2, <1>3, <1>4, WhileFiling

\* Nothing but the second sponsor's shard starts a filing.
LEMMA FilingStarts ==
    ASSUME WindowInv, NEW d \in Devices, Use(d) \/ LoseDevice(d),
           handler[d].at \notin Filing, handler'[d].at \in Filing
    PROVE  \E s \in Sponsors, shard \in Codes :
               /\ ScanSecond(d, s, shard)
               /\ s # page[d].first /\ Show(d, [page[d] EXCEPT !.at = "filing"])
               /\ Accept(d, s) /\ UNCHANGED <<pending, now>>
               /\ handler'[d].code = page[d].code
  <1>0. handler \in [Devices -> Handler]
    BY DEF WindowInv, RecoveryInv, Worked
  <1>1. CASE UNCHANGED handler
    BY <1>1
  <1>2. CASE StartReissue(d)
    <2>1. handler'[d].at = "burn old"
      BY <1>0, <1>2 DEF StartReissue, Work, NoHandler
    <2>. QED
      BY <2>1 DEF Filing
  <1>3. CASE BurnOld(d)
    <2>1. handler'[d].at = "show code"
      BY <1>0, <1>3 DEF BurnOld, Work, Handler
    <2>. QED
      BY <2>1 DEF Filing
  <1>4. CASE ShowCode(d) \/ SaveIntent(d) \/ Reload(d) \/ LoseDevice(d)
    <2>1. handler' = [handler EXCEPT ![d] = NoHandler]
      BY <1>4 DEF ShowCode, SaveIntent, Reload, LoseDevice, DropPage, Work
    <2>2. handler'[d].at = "none"
      BY <1>0, <2>1 DEF NoHandler
    <2>. QED
      BY <2>2 DEF Filing
  <1>5. CASE Leave(d)
    <2>1. handler'[d].at = handler[d].at
      BY <1>0, <1>5 DEF Leave, Work, Handler
    <2>. QED
      BY <2>1
  <1>6. CASE StoreFirst(d) \/ StoreSecond(d)
    BY <1>6 DEF StoreFirst, StoreSecond, Filing
  <1>7. CASE \E s \in Sponsors, shard \in Codes : ScanSecond(d, s, shard)
    <2>1. PICK s \in Sponsors, shard \in Codes : ScanSecond(d, s, shard)
      BY <1>7
    <2>2. CASE Refuse(d)
      BY <1>1, <2>2 DEF Refuse
    <2>3. CASE ~Refuse(d)
      <3>. DEFINE h == [NoHandler EXCEPT !.at = "store first", !.code = page[d].code,
                                         !.first = page[d].shard, !.second = shard]
      <3>1. /\ s # page[d].first /\ Show(d, [page[d] EXCEPT !.at = "filing"])
            /\ Accept(d, s) /\ UNCHANGED <<pending, now>>
            /\ handler' = [handler EXCEPT ![d] = h]
        BY <2>1, <2>3 DEF ScanSecond, Work
      <3>2. h.code = page[d].code
        BY DEF NoHandler
      <3>. HIDE DEF h
      <3>3. handler'[d].code = page[d].code
        BY <1>0, <3>1, <3>2
      <3>. QED
        BY <2>1, <3>1, <3>3
    <2>. QED
      BY <2>2, <2>3
  <1>8. \/ UNCHANGED handler \/ StartReissue(d) \/ Handle(d) \/ Leave(d) \/ Reload(d) \/ LoseDevice(d)
        \/ \E s \in Sponsors, shard \in Codes : ScanSecond(d, s, shard)
    <2>1. CASE CreateKeystore(d) \/ AdoptView(d) \/ AdoptSeal(d)
      BY <2>1 DEF CreateKeystore, AdoptView, AdoptSeal
    <2>2. CASE BeginCeremony(d) \/ NoteCode(d) \/ \E s \in Sponsors : HandOver(d, s)
      BY <2>2 DEF BeginCeremony, NoteCode, HandOver
    <2>3. CASE \E c \in Codes : UnlockOwn(d, c) \/ StartSponsorOnly(d, c)
      BY <2>3 DEF UnlockOwn, StartSponsorOnly
    <2>4. CASE \E s \in Sponsors, shard \in Codes : ScanPresent(d, s, shard) \/ ScanFirst(d, s, shard)
      BY <2>4 DEF ScanPresent, ScanFirst, Refuse
    <2>5. CASE Complete(d) \/ Cancel(d) \/ Forget(d)
      BY <2>5 DEF Complete, Cancel, Forget
    <2>6. CASE Burn(d, "first", "burn second") \/ Burn(d, "second", "forget")
      BY <2>6 DEF Burn
    <2>. QED
      BY <2>1, <2>2, <2>3, <2>4, <2>5, <2>6 DEF Use
  <1>. QED
    BY <1>1, <1>2, <1>3, <1>4, <1>5, <1>6, <1>7, <1>8 DEF Handle

LEMMA FilingBegins ==
    ASSUME WindowInv, NEW d \in Devices, Use(d) \/ LoseDevice(d),
           handler[d].at \notin Filing
    PROVE  Filed(d)'
  <1>. SUFFICES ASSUME handler'[d].at \in Filing PROVE Filed(d)'
    BY DEF Filed, FilingOK
  <1>1. PICK s \in Sponsors, shard \in Codes :
               /\ ScanSecond(d, s, shard)
               /\ s # page[d].first /\ Show(d, [page[d] EXCEPT !.at = "filing"])
               /\ Accept(d, s) /\ UNCHANGED <<pending, now>>
               /\ handler'[d].code = page[d].code
    BY FilingStarts
  <1>. DEFINE m == [met[d] EXCEPT ![s] = [code |-> page[d].code, at |-> now]]
  <1>2. /\ met' = [met EXCEPT ![d] = m] /\ m[s].code = page[d].code /\ m[s].at = now
        /\ \A r \in Sponsors : r # s => m[r] = met[d][r]
    BY <1>1, AcceptIs
  <1>3. /\ WindowParts(page[d], pending[d], met[d], custody[d], cutMaster, now)
        /\ page \in [Devices -> Page] /\ met \in [Devices -> [Sponsors -> Meeting]]
        /\ now \in Int /\ page[d].at = "second"
    BY <1>1, DeviceFacts DEF ScanSecond
  <1>4. /\ pending[d] = NoIntent /\ page[d].first \in Sponsors
        /\ met[d][page[d].first].code = page[d].code /\ met[d][page[d].first].at <= now
    BY <1>3 DEF WindowParts, WindowOK, PlaceOK
  <1>5. \A r \in Sponsors : r = s \/ r = page[d].first
    BY <1>1, <1>4 DEF Sponsors
  <1>6. page'[d].at = "filing" /\ met'[d] = m /\ pending'[d] = NoIntent /\ now' = now
    <2>. HIDE DEF m
    <2>1. page'[d] = [page[d] EXCEPT !.at = "filing"] /\ met'[d] = m
      BY <1>1, <1>2, <1>3 DEF Show
    <2>. QED
      BY <1>1, <1>3, <1>4, <2>1 DEF Page
  <1>. HIDE DEF m
  <1>7. MetBy(m, page[d].code, now)
    BY <1>1, <1>2, <1>3, <1>4, <1>5 DEF MetBy
  <1>. QED
    BY <1>1, <1>6, <1>7 DEF Filed, FilingOK

LEMMA FilingSteps == WindowInv /\ [Next]_vars => \A d \in Devices : Filed(d)'
  <1>. SUFFICES ASSUME WindowInv, [Next]_vars, NEW d \in Devices PROVE Filed(d)'
    OBVIOUS
  <1>0. FilingOK(handler[d], page[d], pending[d], met[d], now)
    BY DEF WindowInv, Filed
  <1>1. ASSUME NEW e \in Devices, Use(e) \/ LoseDevice(e) PROVE Filed(d)'
    <2>1. CASE e = d
      BY <1>1, <2>1, FilingGoesOn, FilingBegins
    <2>2. CASE e # d
      BY <1>0, <1>1, <2>2, OthersStay DEF Filed
    <2>. QED
      BY <2>1, <2>2
  <1>2. CASE Tick
    <2>1. now' = now + 1 /\ UNCHANGED <<page, pending, met, handler>>
      BY <1>2 DEF Tick, device
    <2>2. now \in Int /\ met[d] \in [Sponsors -> Meeting]
      BY DeviceFacts
    <2>3. now' \in Int /\ now <= now'
      BY <2>1, <2>2
    <2>4. MetBy(met[d], handler[d].code, now) => MetBy(met[d], handler[d].code, now')
      BY <2>2, <2>3, MetByKept
    <2>. QED
      BY <1>0, <2>1, <2>4 DEF Filed, FilingOK
  <1>3. CASE UNCHANGED vars
    BY <1>0, <1>3 DEF vars, device, world, Filed
  <1>. QED
    BY <1>1, <1>2, <1>3 DEF Next

-----------------------------------------------------------------------------
(* What the devices keep is of a secret that was generated.                *)

LEMMA CutsFacts ==
    ASSUME WindowInv
    PROVE  /\ cutMaster \in Seq(Secrets) /\ created \in Nat /\ Len(cutMaster) \in Nat
           /\ Len(cutMaster) <= MaxCuts /\ {MaxCuts, MaxTime, MaxFaults} \subseteq Nat
           /\ DOMAIN cutMaster = 1 .. Len(cutMaster)
           /\ \A c \in Codes : cutMaster[c] \in Secrets
  <1>1. cutMaster \in Seq(Secrets) /\ created \in Nat /\ Len(cutMaster) <= MaxCuts
    BY DEF WindowInv, Real, Counted
  <1>2. Len(cutMaster) \in Nat /\ DOMAIN cutMaster = 1 .. Len(cutMaster)
    BY <1>1, LenProperties
  <1>3. \A c \in Codes : cutMaster[c] \in Secrets
    BY <1>1, <1>2, ElementOfSeq DEF Codes
  <1>. QED
    BY <1>1, <1>2, <1>3, RecoveryAssumption

\* What a device keeps is a secret that was generated.
KeptOK ==
    /\ keystore \in [Devices -> Kept \cup {NoKeystore}] /\ session \in [Devices -> Kept]
    /\ \A d \in Devices : adopt[d].buf \in Kept

LEMMA KeptFacts ==
    ASSUME WindowInv, NEW d \in Devices
    PROVE  /\ keystore \in [Devices -> Kept \cup {NoKeystore}] /\ session \in [Devices -> Kept]
           /\ adopt \in [Devices -> Adoption] /\ \A e \in Devices : adopt[e].buf \in Kept
           /\ NoSecret \in Kept /\ Zeros \in Kept
           /\ page[d].master \in Kept /\ (page[d].master # NoSecret => page[d].master \in Secrets)
  <1>1. /\ keystore \in [Devices -> Kept \cup {NoKeystore}] /\ session \in [Devices -> Kept]
        /\ adopt \in [Devices -> Adoption] /\ \A e \in Devices : adopt[e].buf \in Kept
    BY DEF WindowInv, Real, RecoveryInv, PagesInv, Typed
  <1>2. NoSecret \in Kept /\ Zeros \in Kept
    BY CutsFacts DEF Kept, Secrets, Zeros
  <1>3. page[d].master # NoSecret => page[d].master \in Secrets
    BY CutsFacts DEF WindowInv, RecoveryInv, PagesInv, Belongs, PageOK, Codes
  <1>. QED
    BY <1>1, <1>2, <1>3 DEF Kept

\* No secret is generated and none is split.
LEMMA KeptReal ==
    ASSUME WindowInv, UNCHANGED <<created, cutMaster>>, KeptOK'
    PROVE  Real'
  BY DEF WindowInv, Real, KeptOK, Kept, Secrets

LEMMA BufferKept ==
    ASSUME WindowInv, NEW d \in Devices, NEW a, a.buf \in Kept,
           adopt' = [adopt EXCEPT ![d] = a], UNCHANGED created
    PROVE  \A e \in Devices : (adopt[e].buf \in Kept)'
  <1>1. \A e \in Devices : adopt'[e] = IF e = d THEN a ELSE adopt[e]
    BY KeptFacts
  <1>2. Kept' = Kept
    BY DEF Kept, Secrets
  <1>. HIDE DEF Kept
  <1>. QED
    BY <1>1, <1>2, KeptFacts

LEMMA CutReal ==
    ASSUME WindowInv, NEW d \in Devices, NEW secret \in 0 .. created', Cut(d, secret),
           created' \in Nat, created' >= created
    PROVE  cutMaster' \in Seq(Secrets)' /\ Len(cutMaster') <= MaxCuts
  <1>1. cutMaster' = Append(cutMaster, secret) /\ Len(cutMaster) < MaxCuts
    BY DEF Cut
  <1>2. Secrets \subseteq 0 .. created'
    BY CutsFacts DEF Secrets
  <1>3. cutMaster \in Seq(0 .. created')
    BY <1>2, CutsFacts, SeqMonotonic
  <1>4. cutMaster' \in Seq(0 .. created') /\ Len(cutMaster') = Len(cutMaster) + 1
    BY <1>1, <1>3, AppendProperties
  <1>5. Len(cutMaster') <= MaxCuts
    BY <1>1, <1>4, CutsFacts
  <1>. QED
    BY <1>4, <1>5 DEF Secrets

LEMMA BeginReal ==
    ASSUME WindowInv, NEW d \in Devices, BeginCeremony(d)
    PROVE  Real' /\ created' \in Nat
  <1>1. /\ Known(d) # NoKeystore /\ Cut(d, session'[d]) /\ UNCHANGED adopt
        /\ IF Known(d) = NoSecret
           THEN /\ created' = created + 1
                /\ keystore' = [keystore EXCEPT ![d] = created']
                /\ session' = [session EXCEPT ![d] = created']
           ELSE /\ session' = [session EXCEPT ![d] = Known(d)]
                /\ UNCHANGED <<created, keystore>>
    BY DEF BeginCeremony
  <1>2. /\ keystore \in [Devices -> Kept \cup {NoKeystore}] /\ session \in [Devices -> Kept]
        /\ \A e \in Devices : adopt[e].buf \in Kept
    BY KeptFacts
  <1>3. created' \in Nat /\ created' >= created
    BY <1>1, CutsFacts
  <1>4. Kept \subseteq Kept' /\ 0 .. created' \subseteq Kept' /\ Secrets' = 0 .. created'
    BY <1>3, CutsFacts DEF Kept, Secrets
  <1>5. \E secret \in 0 .. created' :
           /\ session' = [session EXCEPT ![d] = secret]
           /\ keystore' = keystore \/ keystore' = [keystore EXCEPT ![d] = secret]
    <2>1. CASE Known(d) = NoSecret
      <3>1. created' \in 0 .. created'
        BY <1>3
      <3>. QED
        BY <1>1, <2>1, <3>1
    <2>2. CASE Known(d) # NoSecret
      <3>1. Known(d) \in Kept \cup {NoKeystore}
        BY <1>2 DEF Known
      <3>2. Known(d) \in Secrets
        BY <1>1, <2>2, <3>1 DEF Kept
      <3>3. Known(d) \in 0 .. created'
        BY <1>1, <2>2, <3>2 DEF Secrets
      <3>. QED
        BY <1>1, <2>2, <3>3
    <2>. QED
      BY <2>1, <2>2
  <1>6. PICK secret \in 0 .. created' :
           /\ session' = [session EXCEPT ![d] = secret]
           /\ keystore' = keystore \/ keystore' = [keystore EXCEPT ![d] = secret]
    BY <1>5
  <1>7. session'[d] = secret
    BY <1>2, <1>6
  <1>8. cutMaster' \in Seq(Secrets)' /\ Len(cutMaster') <= MaxCuts
    BY <1>1, <1>3, <1>7, CutReal
  <1>9. session' \in [Devices -> Kept'] /\ keystore' \in [Devices -> Kept' \cup {NoKeystore}]
    BY <1>2, <1>4, <1>6
  <1>10. \A e \in Devices : adopt'[e].buf \in Kept'
    BY <1>1, <1>2, <1>4
  <1>. QED
    BY <1>3, <1>8, <1>9, <1>10 DEF Real

LEMMA ReissueReal ==
    ASSUME WindowInv, NEW d \in Devices, StartReissue(d)
    PROVE  Real'
  <1>1. /\ page[d].at = "recovered" /\ Cut(d, page[d].master)
        /\ UNCHANGED <<keystore, session, adopt, created>>
    BY DEF StartReissue, world
  <1>2. page[d].master # NoSecret
    BY <1>1, DeviceFacts DEF WindowParts, PlaceOK
  <1>3. page[d].master \in 0 .. created' /\ created' \in Nat /\ created' >= created
    BY <1>1, <1>2, KeptFacts, CutsFacts DEF Secrets
  <1>4. cutMaster' \in Seq(Secrets)' /\ Len(cutMaster') <= MaxCuts
    BY <1>1, <1>3, CutReal
  <1>5. KeptOK'
    BY <1>1, KeptFacts DEF KeptOK, Kept, Secrets
  <1>. QED
    BY <1>4, <1>5 DEF Real, KeptOK

\* Every other action stores a secret the page or the buffer already had.
LEMMA StoreReal ==
    ASSUME WindowInv, NEW d \in Devices, UNCHANGED <<created, cutMaster>>,
           NEW k \in Kept \cup {NoKeystore}, NEW c \in Kept, NEW a, a.buf \in Kept,
           keystore' = [keystore EXCEPT ![d] = k], session' = [session EXCEPT ![d] = c],
           adopt' = [adopt EXCEPT ![d] = a]
    PROVE  Real'
  <1>1. Kept' = Kept
    BY DEF Kept, Secrets
  <1>2. \A e \in Devices : (adopt[e].buf \in Kept)'
    BY BufferKept
  <1>. HIDE DEF Kept
  <1>3. keystore' \in [Devices -> Kept \cup {NoKeystore}] /\ session' \in [Devices -> Kept]
    BY KeptFacts
  <1>4. KeptOK'
    BY <1>1, <1>2, <1>3 DEF KeptOK
  <1>. QED
    BY <1>4, KeptReal

LEMMA SameStores ==
    ASSUME WindowInv, NEW d \in Devices
    PROVE  /\ keystore = [keystore EXCEPT ![d] = keystore[d]]
           /\ session = [session EXCEPT ![d] = session[d]]
           /\ adopt = [adopt EXCEPT ![d] = adopt[d]]
           /\ keystore[d] \in Kept \cup {NoKeystore} /\ session[d] \in Kept
           /\ adopt[d].buf \in Kept /\ adopt[d] \in Adoption
  BY KeptFacts

LEMMA StoresAlone ==
    ASSUME WindowInv, UNCHANGED <<keystore, session, adopt, created, cutMaster>>
    PROVE  Real'
  BY DEF WindowInv, Real, Kept, Secrets

LEMMA AdoptAlone ==
    ASSUME WindowInv, NEW d \in Devices, NEW a, a.buf \in Kept,
           adopt' = [adopt EXCEPT ![d] = a],
           UNCHANGED <<keystore, session, created, cutMaster>>
    PROVE  Real'
  <1>1. /\ keystore' = [keystore EXCEPT ![d] = keystore[d]]
        /\ session' = [session EXCEPT ![d] = session[d]]
    BY SameStores
  <1>. QED
    BY <1>1, SameStores, StoreReal

LEMMA WipeReal ==
    ASSUME WindowInv, NEW d \in Devices, WipeBuffer(d),
           UNCHANGED <<keystore, session, created, cutMaster>>
    PROVE  Real'
  <1>. DEFINE a == IF adopt[d].at = "none" THEN adopt[d] ELSE [adopt[d] EXCEPT !.buf = Zeros]
  <1>1. a.buf \in Kept
    BY SameStores, KeptFacts DEF Adoption
  <1>2. adopt' = [adopt EXCEPT ![d] = a]
    BY DEF WipeBuffer
  <1>. HIDE DEF a
  <1>. QED
    BY <1>1, <1>2, AdoptAlone

LEMMA ShownReal ==
    ASSUME WindowInv, NEW d \in Devices, NEW secret \in Kept, NEW code, NEW old,
           Recovered(d, secret, code, old), UNCHANGED <<keystore, session, created, cutMaster>>
    PROVE  Real'
  <1>. DEFINE a == [at |-> "view", buf |-> secret]
  <1>1. a.buf \in Kept /\ adopt' = [adopt EXCEPT ![d] = a]
    BY DEF Recovered
  <1>. HIDE DEF a
  <1>. QED
    BY <1>1, AdoptAlone

LEMMA AdoptReal ==
    ASSUME WindowInv, NEW d \in Devices, CreateKeystore(d) \/ AdoptView(d) \/ AdoptSeal(d)
    PROVE  Real'
  <1>0. NoAdopt.buf \in Kept /\ NoSecret \in Kept \cup {NoKeystore}
    BY KeptFacts DEF NoAdopt
  <1>1. CASE CreateKeystore(d)
    <2>1. /\ keystore' = [keystore EXCEPT ![d] = NoSecret]
          /\ session' = [session EXCEPT ![d] = session[d]]
          /\ adopt' = [adopt EXCEPT ![d] = adopt[d]]
          /\ UNCHANGED <<created, cutMaster>>
      BY <1>1, SameStores DEF CreateKeystore
    <2>. QED
      BY <1>0, <2>1, SameStores, StoreReal
  <1>2. CASE AdoptView(d)
    <2>. DEFINE a == IF keystore[d] = NoKeystore THEN NoAdopt ELSE [adopt[d] EXCEPT !.at = "seal"]
    <2>1. /\ keystore' = [keystore EXCEPT ![d] = keystore[d]]
          /\ session' = [session EXCEPT ![d] = adopt[d].buf]
          /\ adopt' = [adopt EXCEPT ![d] = a]
          /\ UNCHANGED <<created, cutMaster>>
      BY <1>2, SameStores DEF AdoptView, world
    <2>2. a.buf \in Kept
      BY <1>0, SameStores DEF Adoption
    <2>. HIDE DEF a
    <2>. QED
      BY <2>1, <2>2, SameStores, StoreReal
  <1>3. CASE AdoptSeal(d)
    <2>1. \E k \in Kept \cup {NoKeystore} : keystore' = [keystore EXCEPT ![d] = k]
      BY <1>3, SameStores DEF AdoptSeal
    <2>2. /\ session' = [session EXCEPT ![d] = session[d]]
          /\ adopt' = [adopt EXCEPT ![d] = NoAdopt]
          /\ UNCHANGED <<created, cutMaster>>
      BY <1>3, SameStores DEF AdoptSeal, world
    <2>3. PICK k \in Kept \cup {NoKeystore} : keystore' = [keystore EXCEPT ![d] = k]
      BY <2>1
    <2>. QED
      BY <1>0, <2>2, <2>3, SameStores, StoreReal
  <1>. QED
    BY <1>1, <1>2, <1>3

LEMMA FaultReal ==
    ASSUME WindowInv, NEW d \in Devices, Reload(d) \/ LoseDevice(d)
    PROVE  Real'
  <1>1. /\ session' = [session EXCEPT ![d] = NoSecret]
        /\ adopt' = [adopt EXCEPT ![d] = NoAdopt] /\ UNCHANGED <<created, cutMaster>>
    BY DEF Reload, LoseDevice, DropPage
  <1>2. NoAdopt.buf \in Kept /\ NoSecret \in Kept
    BY KeptFacts DEF NoAdopt
  <1>3. \E k \in Kept \cup {NoKeystore} : keystore' = [keystore EXCEPT ![d] = k]
    <2>1. CASE Reload(d)
      BY <2>1, SameStores DEF Reload
    <2>2. CASE LoseDevice(d)
      BY <2>2 DEF LoseDevice
    <2>. QED
      BY <2>1, <2>2
  <1>4. PICK k \in Kept \cup {NoKeystore} : keystore' = [keystore EXCEPT ![d] = k]
    BY <1>3
  <1>. QED
    BY <1>1, <1>2, <1>4, StoreReal

LEMMA ScanReal ==
    ASSUME WindowInv, NEW d \in Devices, NEW s \in Sponsors, NEW shard \in Codes,
           ScanPresent(d, s, shard) \/ ScanFirst(d, s, shard) \/ ScanSecond(d, s, shard)
    PROVE  Real'
  <1>1. UNCHANGED <<keystore, session, created, cutMaster>>
    BY DEF ScanPresent, ScanFirst, ScanSecond
  <1>2. CASE UNCHANGED adopt
    BY <1>1, <1>2, StoresAlone
  <1>3. CASE /\ Opens(shard, page[d].code)
             /\ Recovered(d, Combine(page[d].code, shard), page[d].code, page[d].code)
    <2>. DEFINE secret == Combine(page[d].code, shard)
    <2>1. secret = cutMaster[shard]
      BY <1>3 DEF Opens, Combine
    <2>2. secret \in Kept
      BY <2>1, CutsFacts DEF Kept
    <2>3. Recovered(d, secret, page[d].code, page[d].code)
      BY <1>3
    <2>. HIDE DEF secret
    <2>. QED
      BY <1>1, <2>2, <2>3, ShownReal
  <1>4. \/ UNCHANGED adopt
        \/ /\ Opens(shard, page[d].code)
           /\ Recovered(d, Combine(page[d].code, shard), page[d].code, page[d].code)
    BY DEF ScanPresent, ScanFirst, ScanSecond, Refuse
  <1>. QED
    BY <1>2, <1>3, <1>4

LEMMA EndReal ==
    ASSUME WindowInv, NEW d \in Devices, Forget(d) \/ Handle(d) \/ Leave(d)
    PROVE  Real'
  <1>1. UNCHANGED <<keystore, session, created, cutMaster>>
    BY DEF Forget, Leave, Handle, StoreFirst, StoreSecond, SaveIntent, BurnOld, ShowCode
  <1>2. CASE Forget(d) /\ page[d].master # NoSecret
    <2>1. Recovered(d, page[d].master, page[d].code, NoCode)
      BY <1>2 DEF Forget
    <2>. QED
      BY <1>1, <2>1, KeptFacts, ShownReal
  <1>3. CASE WipeBuffer(d)
    BY <1>1, <1>3, WipeReal
  <1>4. CASE UNCHANGED adopt
    BY <1>1, <1>4, StoresAlone
  <1>. QED
    BY <1>2, <1>3, <1>4
       DEF Forget, Leave, Handle, StoreFirst, StoreSecond, SaveIntent, BurnOld, ShowCode

LEMMA RealSteps == WindowInv /\ [Next]_vars => Real'
  <1>. SUFFICES ASSUME WindowInv, [Next]_vars PROVE Real'
    OBVIOUS
  <1>1. ASSUME NEW d \in Devices, Use(d) PROVE Real'
    <2>1. CASE BeginCeremony(d)
      BY <2>1, BeginReal
    <2>2. CASE CreateKeystore(d) \/ AdoptView(d) \/ AdoptSeal(d)
      BY <2>2, AdoptReal
    <2>3. CASE NoteCode(d) \/ \E s \in Sponsors : HandOver(d, s)
      BY <2>3, StoresAlone DEF NoteCode, HandOver
    <2>4. CASE \E c \in Codes : UnlockOwn(d, c) \/ StartSponsorOnly(d, c)
      BY <2>4, StoresAlone DEF UnlockOwn, StartSponsorOnly
    <2>5. CASE \E s \in Sponsors, shard \in Codes :
                  ScanPresent(d, s, shard) \/ ScanFirst(d, s, shard) \/ ScanSecond(d, s, shard)
      BY <2>5, ScanReal
    <2>6. CASE Complete(d) \/ Cancel(d)
      BY <2>6, StoresAlone DEF Complete, Cancel
    <2>7. CASE Burn(d, "first", "burn second") \/ Burn(d, "second", "forget")
      BY <2>7, StoresAlone DEF Burn
    <2>8. CASE Forget(d) \/ Handle(d) \/ Leave(d)
      BY <2>8, EndReal
    <2>9. CASE StartReissue(d)
      BY <2>9, ReissueReal
    <2>10. CASE Reload(d)
      BY <2>10, FaultReal
    <2>. QED
      BY <1>1, <2>1, <2>2, <2>3, <2>4, <2>5, <2>6, <2>7, <2>8, <2>9, <2>10 DEF Use
  <1>2. ASSUME NEW d \in Devices, LoseDevice(d) PROVE Real'
    BY <1>2, FaultReal
  <1>3. CASE Tick
    BY <1>3, StoresAlone DEF Tick, device
  <1>4. CASE UNCHANGED vars
    BY <1>4, StoresAlone DEF vars, device
  <1>. QED
    BY <1>1, <1>2, <1>3, <1>4 DEF Next

-----------------------------------------------------------------------------
(* The counters, the notes and the sponsors' shards.                       *)

LEMMA CountedFacts ==
    ASSUME WindowInv
    PROVE  /\ created \in Nat /\ now \in 0 .. MaxTime /\ MaxTime \in Nat /\ MaxFaults \in Nat
           /\ faults \in 0 .. MaxFaults
           /\ held \in [Sponsors -> SUBSET Codes] /\ noted \subseteq Codes
           /\ met \in [Devices -> [Sponsors -> Meeting]]
  BY RecoveryAssumption DEF WindowInv, Counted

\* What the actions that only move a device leave alone.
Ledgers == <<created, cutMaster, held, noted, faults, now>>

LEMMA UseLeaves ==
    ASSUME NEW d \in Devices, Use(d)
    PROVE  \/ BeginCeremony(d) \/ StartReissue(d) \/ NoteCode(d) \/ Reload(d)
           \/ \E s \in Sponsors : HandOver(d, s)
           \/ UNCHANGED Ledgers
  <1>1. CASE CreateKeystore(d) \/ AdoptView(d) \/ AdoptSeal(d)
    BY <1>1 DEF CreateKeystore, AdoptView, AdoptSeal, world, Ledgers
  <1>2. CASE \E c \in Codes : UnlockOwn(d, c) \/ StartSponsorOnly(d, c)
    BY <1>2 DEF UnlockOwn, StartSponsorOnly, world, Ledgers
  <1>3. CASE \E s \in Sponsors, shard \in Codes :
                ScanPresent(d, s, shard) \/ ScanFirst(d, s, shard) \/ ScanSecond(d, s, shard)
    BY <1>3 DEF ScanPresent, ScanFirst, ScanSecond, Ledgers
  <1>4. CASE Complete(d) \/ Cancel(d)
    BY <1>4 DEF Complete, Cancel, world, Ledgers
  <1>5. CASE Burn(d, "first", "burn second") \/ Burn(d, "second", "forget")
    BY <1>5 DEF Burn, Ledgers
  <1>6. CASE Forget(d) \/ Leave(d)
    BY <1>6 DEF Forget, Leave, Ledgers
  <1>7. CASE Handle(d)
    BY <1>7 DEF Handle, StoreFirst, StoreSecond, SaveIntent, BurnOld, ShowCode, world, Ledgers
  <1>. QED
    BY <1>1, <1>2, <1>3, <1>4, <1>5, <1>6, <1>7 DEF Use

LEMMA NextLeaves ==
    ASSUME [Next]_vars
    PROVE  \/ \E d \in Devices : \/ BeginCeremony(d) \/ StartReissue(d) \/ NoteCode(d)
                                 \/ Reload(d) \/ LoseDevice(d)
                                 \/ \E s \in Sponsors : HandOver(d, s)
           \/ Tick \/ UNCHANGED Ledgers
  <1>1. CASE UNCHANGED vars
    BY <1>1 DEF vars, world, Ledgers
  <1>2. CASE Next
    BY <1>2, UseLeaves DEF Next
  <1>. QED
    BY <1>1, <1>2

LEMMA CodesGrow == WindowInv /\ [Next]_vars => Codes \subseteq Codes'
  <1>. SUFFICES ASSUME WindowInv, [Next]_vars PROVE Codes \subseteq Codes'
    OBVIOUS
  <1>1. CASE UNCHANGED cutMaster
    BY <1>1 DEF Codes
  <1>2. ASSUME NEW d \in Devices, NEW secret \in Int, Cut(d, secret)
        PROVE  Codes \subseteq Codes'
    BY <1>2, CutRises DEF Codes, Rising
  <1>3. ASSUME NEW d \in Devices, BeginCeremony(d) PROVE Codes \subseteq Codes'
    <2>1. session'[d] \in Int
      BY <1>3 DEF BeginCeremony, Known, WindowInv, RecoveryInv, PagesInv, Typed
    <2>. QED
      BY <1>2, <1>3, <2>1 DEF BeginCeremony
  <1>4. ASSUME NEW d \in Devices, StartReissue(d) PROVE Codes \subseteq Codes'
    <2>1. page[d].master \in Int
      BY DeviceFacts DEF Page
    <2>. QED
      BY <1>2, <1>4, <2>1 DEF StartReissue
  <1>5. \/ UNCHANGED cutMaster
        \/ \E d \in Devices : BeginCeremony(d) \/ StartReissue(d)
    BY NextLeaves DEF Ledgers, NoteCode, Reload, LoseDevice, HandOver, Tick
  <1>. QED
    BY <1>1, <1>3, <1>4, <1>5

\* A code is noted, and a shard handed over, of a cut that was made.
LEMMA HandedSteps ==
    ASSUME WindowInv, [Next]_vars
    PROVE  held' \in [Sponsors -> SUBSET Codes'] /\ noted' \subseteq Codes'
  <1>0. /\ Codes \subseteq Codes' /\ held \in [Sponsors -> SUBSET Codes] /\ noted \subseteq Codes
    BY CodesGrow, CountedFacts
  <1>1. ASSUME NEW d \in Devices, page[d].at # "home" PROVE page[d].code \in Codes
    BY <1>1, DeviceFacts DEF WindowParts, PlaceOK, Codes
  <1>. HIDE DEF Codes
  <1>2. CASE UNCHANGED <<held, noted>>
    BY <1>0, <1>2
  <1>3. ASSUME NEW d \in Devices, NoteCode(d)
        PROVE  held' \in [Sponsors -> SUBSET Codes'] /\ noted' \subseteq Codes'
    <2>1. page[d].code \in Codes
      BY <1>1, <1>3 DEF NoteCode
    <2>. QED
      BY <1>0, <1>3, <2>1 DEF NoteCode
  <1>4. ASSUME NEW d \in Devices, NEW s \in Sponsors, HandOver(d, s)
        PROVE  held' \in [Sponsors -> SUBSET Codes'] /\ noted' \subseteq Codes'
    <2>1. page[d].code \in Codes
      BY <1>1, <1>4 DEF HandOver
    <2>2. \E kept \in {{}, held[s]} : held' = [held EXCEPT ![s] = kept \cup {page[d].code}]
      BY <1>4 DEF HandOver
    <2>3. PICK kept \in {{}, held[s]} : held' = [held EXCEPT ![s] = kept \cup {page[d].code}]
      BY <2>2
    <2>4. kept \cup {page[d].code} \in SUBSET Codes'
      BY <1>0, <2>1, <2>3
    <2>. QED
      BY <1>0, <1>4, <2>3, <2>4 DEF HandOver
  <1>5. \/ UNCHANGED <<held, noted>>
        \/ \E d \in Devices : NoteCode(d)
        \/ \E d \in Devices, s \in Sponsors : HandOver(d, s)
    BY NextLeaves DEF Ledgers, BeginCeremony, StartReissue, Reload, LoseDevice, Tick, world
  <1>. QED
    BY <1>2, <1>3, <1>4, <1>5

LEMMA CounterSteps ==
    ASSUME WindowInv, [Next]_vars
    PROVE  /\ created' \in Nat /\ now' \in 0 .. MaxTime /\ now \in Int
           /\ faults' \in 0 .. MaxFaults
  <1>0. /\ created \in Nat /\ now \in 0 .. MaxTime /\ MaxTime \in Nat /\ MaxFaults \in Nat
        /\ faults \in 0 .. MaxFaults
    BY CountedFacts
  <1>1. CASE UNCHANGED <<created, now, faults>>
    BY <1>0, <1>1
  <1>2. CASE Tick
    BY <1>0, <1>2 DEF Tick
  <1>3. ASSUME NEW d \in Devices, BeginCeremony(d) PROVE created' \in Nat /\ UNCHANGED <<now, faults>>
    BY <1>3, BeginReal DEF BeginCeremony, world
  <1>4. ASSUME NEW d \in Devices, Reload(d) \/ LoseDevice(d)
        PROVE  UNCHANGED <<created, now>> /\ faults' \in 0 .. MaxFaults
    BY <1>0, <1>4 DEF Reload, LoseDevice
  <1>5. \/ UNCHANGED <<created, now, faults>> \/ Tick
        \/ \E d \in Devices : BeginCeremony(d) \/ Reload(d) \/ LoseDevice(d)
    BY NextLeaves DEF Ledgers, StartReissue, NoteCode, HandOver, world
  <1>. QED
    BY <1>0, <1>1, <1>2, <1>3, <1>4, <1>5

LEMMA InitWindow == Init => WindowInv
  <1>. SUFFICES ASSUME Init PROVE WindowInv
    OBVIOUS
  <1>1. RecoveryInv
    BY InitRecovery
  <1>2. Counted
    <2>1. created \in Nat /\ now \in 0 .. MaxTime /\ faults \in 0 .. MaxFaults
      BY RecoveryAssumption DEF Init
    <2>2. Nobody \in [Sponsors -> Meeting]
      BY DEF Nobody, Unmet, Meeting, NoCode
    <2>3. met = [d \in Devices |-> Nobody]
      BY DEF Init, Nobody
    <2>4. met \in [Devices -> [Sponsors -> Meeting]]
      BY <2>2, <2>3
    <2>. QED
      BY <2>1, <2>4 DEF Init, Counted
  <1>3. Real
    <2>1. cutMaster \in Seq(Secrets) /\ Len(cutMaster) = 0
      BY EmptySeq DEF Init
    <2>2. \A d \in Devices : adopt[d].buf \in Kept
      BY DEF Init, NoAdopt, Kept
    <2>3. keystore \in [Devices -> Kept \cup {NoKeystore}] /\ session \in [Devices -> Kept]
      BY DEF Init, Kept
    <2>. QED
      BY <2>1, <2>2, <2>3, RecoveryAssumption DEF Real
  <1>4. ASSUME NEW d \in Devices PROVE DeviceOK(d) /\ Filed(d)
    <2>1. page[d] = Home /\ pending[d] = NoIntent /\ custody[d] = {}
          /\ handler[d].at = "none"
      BY DEF Init, NoHandler
    <2>2. FiledOK({})
      BY DEF FiledOK
    <2>3. WindowParts(Home, NoIntent, met[d], {}, cutMaster, now)
      BY <2>2, GoneWaits, HomePage
    <2>4. Filed(d)
      BY <2>1 DEF Filed, FilingOK, Filing
    <2>. QED
      BY <2>1, <2>3, <2>4 DEF DeviceOK, WindowParts
  <1>. QED
    BY <1>1, <1>2, <1>3, <1>4 DEF WindowInv

\* Intent, filed shards and page agree with who was met and when; what a device
\* keeps is a secret that was generated; the counters stay within their bounds.
THEOREM WindowInvariant == Spec => []WindowInv
  <1>1. WindowInv /\ [Next]_vars => WindowInv'
    <2>. SUFFICES ASSUME WindowInv, [Next]_vars PROVE WindowInv'
      OBVIOUS
    <2>1. RecoveryInv'
      BY NextKeeps DEF WindowInv
    <2>2. Windowed' /\ Real'
      BY WindowSteps, RealSteps
    <2>3. Counted'
      BY <2>2, HandedSteps, CounterSteps DEF Counted, Windowed
    <2>4. \A d \in Devices : Filed(d)'
      BY FilingSteps
    <2>. QED
      BY <2>1, <2>2, <2>3, <2>4 DEF WindowInv, Windowed, Devised
  <1>. QED
    BY <1>1, InitWindow, PTL DEF Spec

LEMMA WindowTyped == WindowInv => RecoveryTypeOK
  <1>. SUFFICES ASSUME WindowInv PROVE RecoveryTypeOK
    OBVIOUS
  <1>1. /\ keystore \in [Devices -> Secrets \cup {NoSecret, NoKeystore}]
        /\ session \in [Devices -> Secrets \cup {NoSecret}]
    BY DEF WindowInv, Real, Kept
  <1>2. ASSUME NEW d \in Devices
        PROVE  /\ custody[d] \subseteq Blob
               /\ \A b, c \in custody[d] : b[1] = c[1] /\ b[2] = c[2] => b = c
               /\ pending[d].code \in Codes \cup {NoCode} /\ pending[d].openedAt \in 0 .. now
               /\ page[d].master \in Secrets \cup {NoSecret}
               /\ handler[d].code \in Codes \cup {NoCode}
               /\ adopt[d].buf \in Secrets \cup {NoSecret}
    <2>0. /\ custody[d] \in SUBSET Blobs /\ FiledOK(custody[d]) /\ BlobsOK(custody[d], cutMaster)
          /\ IntentOK(pending[d], cutMaster, now)
      BY DeviceFacts, PartsWait
    <2>1. custody[d] \subseteq Blob
      <3>1. ASSUME NEW b \in custody[d] PROVE b \in Blob
        <4>1. b \in Blobs /\ b[1] \in Codes /\ b[3] \in Codes \cup {NoCode}
          BY <2>0 DEF BlobsOK, Codes
        <4>. QED
          BY <4>1 DEF Blobs, Blob
      <3>. QED
        BY <3>1
    <2>2. \A b, c \in custody[d] : b[1] = c[1] /\ b[2] = c[2] => b = c
      BY <2>0 DEF FiledOK
    <2>3. pending[d].code \in Codes \cup {NoCode} /\ pending[d].openedAt \in 0 .. now
      <3>1. CASE pending[d] = NoIntent
        BY <3>1, CountedFacts DEF NoIntent
      <3>2. CASE pending[d] # NoIntent
        BY <2>0, <3>2 DEF IntentOK, Codes
      <3>. QED
        BY <3>1, <3>2
    <2>4. page[d].master \in Secrets \cup {NoSecret} /\ adopt[d].buf \in Secrets \cup {NoSecret}
      BY KeptFacts DEF Kept
    <2>5. handler[d].code \in Codes \cup {NoCode}
      BY DEF WindowInv, RecoveryInv, Worked, WorkOK, Codes
    <2>. QED
      BY <2>1, <2>2, <2>3, <2>4, <2>5
  <1>3. cutMaster \in Seq(Secrets) /\ Len(cutMaster) <= MaxCuts
    BY CutsFacts
  <1>4. /\ held \in [Sponsors -> SUBSET Codes] /\ noted \subseteq Codes
        /\ faults \in 0 .. MaxFaults /\ now \in 0 .. MaxTime
    BY CountedFacts
  <1>. QED
    BY <1>1, <1>2, <1>3, <1>4 DEF RecoveryTypeOK

\* A secret that two sponsors alone restored was waited for: each of them
\* presented a shard under its code on that device a full window ago, and no
\* reload, cancellation or half-done burn in between opens a shorter way.
THEOREM WindowHeldAlways == Spec => []WindowHeld
  <1>1. WindowInv => WindowHeld
    <2>. SUFFICES ASSUME WindowInv PROVE WindowHeld
      OBVIOUS
    <2>1. ASSUME NEW d \in Devices, page[d].master # NoSecret,
                 pending[d].code = page[d].code, page[d].old = NoCode
          PROVE  Gathered(d, page[d].code)
      <3>1. MetBy(met[d], page[d].code, now - Window)
        BY <2>1, DeviceFacts DEF WindowParts, WindowOK
      <3>2. /\ met[d] \in [Sponsors -> Meeting] /\ now \in Int /\ Window \in Int
        BY DeviceFacts
      <3>. QED
        BY <3>1, <3>2 DEF MetBy, Gathered, Meeting
    <2>. QED
      BY <2>1, WindowTyped DEF WindowHeld
  <1>. QED
    BY <1>1, WindowInvariant, PTL

-----------------------------------------------------------------------------
(* Any two of the three.  A page that hands a code over has the own shard  *)
(* of its cut beside it, and a re-issue at work has stored the new one and *)
(* burns another.                                                          *)

Sending  == {"code", "sendA", "sendB"}
Renewing == {"burn old", "show code"}

HandOK(p, h, blobs, codes) ==
    /\ p.at \in Sending => h.at = "none" /\ Own(p.code) \in blobs
    /\ h.at \in Renewing => Own(h.code) \in blobs /\ h.old # h.code
    /\ p.at = "recovered" => p.old \in codes \cup {NoCode}

Handed == \A d \in Devices : HandOK(page[d], handler[d], custody[d], Codes)

HandInv == WindowInv /\ Handed

LEMMA HandFacts ==
    ASSUME HandInv, NEW d \in Devices
    PROVE  /\ WindowInv /\ HandOK(page[d], handler[d], custody[d], Codes)
           /\ page[d] \in Page /\ handler[d] \in Handler
           /\ page \in [Devices -> Page] /\ handler \in [Devices -> Handler]
           /\ custody \in [Devices -> SUBSET Blobs]
           /\ page = [page EXCEPT ![d] = page[d]]
           /\ handler = [handler EXCEPT ![d] = handler[d]]
           /\ custody = [custody EXCEPT ![d] = custody[d]]
  <1>1. WindowInv /\ handler \in [Devices -> Handler]
    BY DEF HandInv, WindowInv, RecoveryInv, Worked
  <1>2. handler[d] \in Handler /\ handler = [handler EXCEPT ![d] = handler[d]]
    BY <1>1
  <1>. QED
    BY <1>1, <1>2, DeviceFacts DEF HandInv, Handed

\* What a step of one device has to show.
LEMMA HandStep ==
    ASSUME HandInv, Codes \subseteq Codes', NEW d \in Devices, NEW p, NEW h, NEW blobs,
           page' = [page EXCEPT ![d] = p], handler' = [handler EXCEPT ![d] = h],
           custody' = [custody EXCEPT ![d] = blobs], HandOK(p, h, blobs, Codes')
    PROVE  Handed'
  <1>. HIDE DEF Codes
  <1>1. ASSUME NEW e \in Devices PROVE HandOK(page'[e], handler'[e], custody'[e], Codes')
    <2>1. CASE e = d
      <3>1. page'[e] = p /\ handler'[e] = h /\ custody'[e] = blobs
        BY <2>1, HandFacts
      <3>. QED
        BY <3>1
    <2>2. CASE e # d
      <3>1. page'[e] = page[e] /\ handler'[e] = handler[e] /\ custody'[e] = custody[e]
        BY <2>2, HandFacts
      <3>2. HandOK(page[e], handler[e], custody[e], Codes)
        BY HandFacts
      <3>. QED
        BY <3>1, <3>2 DEF HandOK
    <2>. QED
      BY <2>1, <2>2
  <1>. QED
    BY <1>1 DEF Handed

\* The page moves on, or away, and no own shard is touched.
LEMMA HandKept ==
    ASSUME HandInv, Codes \subseteq Codes', NEW d \in Devices, NEW p, NEW h, NEW blobs,
           page' = [page EXCEPT ![d] = p], handler' = [handler EXCEPT ![d] = h],
           custody' = [custody EXCEPT ![d] = blobs],
           \A b \in custody[d] : b[2] = "own" => b \in blobs,
           p.at \in Sending => page[d].at \in Sending /\ p.code = page[d].code,
           p.at = "recovered" => p.old \in Codes \cup {NoCode},
           h.at = handler[d].at /\ h.code = handler[d].code /\ h.old = handler[d].old
    PROVE  Handed'
  <1>. HIDE DEF Codes
  <1>1. HandOK(page[d], handler[d], custody[d], Codes)
    BY HandFacts
  <1>2. \A c : Own(c)[2] = "own"
    BY DEF Own
  <1>3. HandOK(p, h, blobs, Codes')
    BY <1>1, <1>2 DEF HandOK
  <1>. QED
    BY <1>3, HandStep

\* The page is left or changed for one that neither sends nor shows a secret.
LEMMA HandAway ==
    ASSUME HandInv, Codes \subseteq Codes', NEW d \in Devices, NEW p, Show(d, p),
           p.at \notin Sending, p.at # "recovered", UNCHANGED <<handler, custody>>
    PROVE  Handed'
  <1>1. /\ page' = [page EXCEPT ![d] = p] /\ handler' = [handler EXCEPT ![d] = handler[d]]
        /\ custody' = [custody EXCEPT ![d] = custody[d]]
    BY HandFacts DEF Show
  <1>. HIDE DEF Codes
  <1>. QED
    BY <1>1, HandKept

LEMMA HandStays ==
    ASSUME HandInv, Codes \subseteq Codes', UNCHANGED <<page, handler, custody>>
    PROVE  Handed'
  <1>. HIDE DEF Codes
  <1>. QED
    BY HandFacts DEF Handed, HandOK

LEMMA HomeAt == Home.at = "home" /\ "home" \notin Sending /\ "home" # "recovered"
  BY DEF Home, Sending

LEMMA NoHandlerAt == NoHandler.at = "none" /\ "none" \notin Renewing
  BY DEF NoHandler, Renewing

\* The ceremony: the own shard is stored before anything else, and nothing is
\* at work on the device.
LEMMA CeremonyHanded ==
    ASSUME HandInv, Codes \subseteq Codes', NEW d \in Devices,
           BeginCeremony(d) \/ NoteCode(d) \/ \E s \in Sponsors : HandOver(d, s)
    PROVE  Handed'
  <1>1. CASE BeginCeremony(d)
    <2>. DEFINE n == Len(cutMaster')
                p == [Home EXCEPT !.at = "code", !.code = n]
    <2>1. /\ Cut(d, session'[d]) /\ handler[d] = NoHandler /\ UNCHANGED handler
          /\ page' = [page EXCEPT ![d] = p]
      BY <1>1 DEF BeginCeremony, Idle, Show
    <2>2. session'[d] \in Int
      BY <1>1, HandFacts DEF BeginCeremony, Known, WindowInv, RecoveryInv, PagesInv, Typed
    <2>3. custody' = [custody EXCEPT ![d] = custody[d] \cup {Own(n)}]
      BY <2>1, <2>2, HandFacts, CutRises
    <2>4. p.at = "code" /\ p.code = n /\ "code" # "recovered"
      BY DEF Home
    <2>5. handler' = [handler EXCEPT ![d] = NoHandler]
      BY <2>1, HandFacts
    <2>. HIDE DEF p, n, Codes
    <2>6. HandOK(p, NoHandler, custody[d] \cup {Own(n)}, Codes')
      BY <2>4, NoHandlerAt DEF HandOK
    <2>. QED
      BY <2>1, <2>3, <2>5, <2>6, HandStep
  <1>2. CASE NoteCode(d)
    <2>. DEFINE p == IF page[d].at = "code" THEN [page[d] EXCEPT !.at = "sendA"] ELSE page[d]
    <2>1. /\ page' = [page EXCEPT ![d] = p] /\ page[d].at \in Sending
          /\ custody' = [custody EXCEPT ![d] = custody[d]]
          /\ handler' = [handler EXCEPT ![d] = handler[d]]
      BY <1>2, HandFacts DEF NoteCode, Show, Sending
    <2>2. p.code = page[d].code /\ p.at # "recovered"
      BY <2>1, HandFacts DEF Page, Sending
    <2>. HIDE DEF p, Codes
    <2>. QED
      BY <2>1, <2>2, HandKept
  <1>3. ASSUME NEW s \in Sponsors, HandOver(d, s) PROVE Handed'
    <2>1. /\ UNCHANGED <<handler, custody>> /\ page[d].at \in Sending
          /\ Show(d, Home) \/ Show(d, [page[d] EXCEPT !.at = "sendB"])
      BY <1>3 DEF HandOver, Sending
    <2>2. CASE Show(d, Home)
      BY <2>1, <2>2, HomeAt, HandAway
    <2>3. CASE Show(d, [page[d] EXCEPT !.at = "sendB"])
      <3>. DEFINE p == [page[d] EXCEPT !.at = "sendB"]
      <3>1. /\ page' = [page EXCEPT ![d] = p]
            /\ custody' = [custody EXCEPT ![d] = custody[d]]
            /\ handler' = [handler EXCEPT ![d] = handler[d]]
        BY <2>1, <2>3, HandFacts DEF Show
      <3>2. p.code = page[d].code /\ p.at = "sendB" /\ "sendB" # "recovered"
        BY HandFacts DEF Page
      <3>. HIDE DEF p, Codes
      <3>. QED
        BY <2>1, <3>1, <3>2, HandKept
    <2>. QED
      BY <2>1, <2>2, <2>3
  <1>. QED
    BY <1>1, <1>2, <1>3

LEMMA RecoveredHanded ==
    ASSUME HandInv, Codes \subseteq Codes', NEW d \in Devices, NEW secret, NEW code,
           NEW old \in Codes \cup {NoCode}, Recovered(d, secret, code, old),
           UNCHANGED <<handler, custody>>
    PROVE  Handed'
  <1>. DEFINE p == [Home EXCEPT !.at = "recovered", !.code = code, !.master = secret, !.old = old]
  <1>1. /\ page' = [page EXCEPT ![d] = p]
        /\ custody' = [custody EXCEPT ![d] = custody[d]]
        /\ handler' = [handler EXCEPT ![d] = handler[d]]
    BY HandFacts DEF Recovered, Show
  <1>2. p.at = "recovered" /\ p.old = old /\ "recovered" \notin Sending
    BY DEF Home, Sending
  <1>. HIDE DEF p
  <1>3. p.old \in Codes \cup {NoCode} /\ p.at \notin Sending
    BY <1>2
  <1>. HIDE DEF Codes
  <1>4. HandOK(p, handler[d], custody[d], Codes')
    BY <1>3, HandFacts DEF HandOK
  <1>. QED
    BY <1>1, <1>4, HandStep

LEMMA CollectHanded ==
    ASSUME HandInv, Codes \subseteq Codes', NEW d \in Devices,
           \/ \E c \in Codes : UnlockOwn(d, c) \/ StartSponsorOnly(d, c)
           \/ \E s \in Sponsors, shard \in Codes :
                 ScanPresent(d, s, shard) \/ ScanFirst(d, s, shard) \/ ScanSecond(d, s, shard)
    PROVE  Handed'
  <1>0. page[d] \in Page
    BY HandFacts
  <1>1. ASSUME NEW c \in Codes, UnlockOwn(d, c) \/ StartSponsorOnly(d, c) PROVE Handed'
    <2>1. PICK place \in {"present", "first"} : Show(d, [Home EXCEPT !.at = place, !.code = c])
      BY <1>1 DEF UnlockOwn, StartSponsorOnly
    <2>2. UNCHANGED <<handler, custody>>
      BY <1>1 DEF UnlockOwn, StartSponsorOnly
    <2>. DEFINE p == [Home EXCEPT !.at = place, !.code = c]
    <2>3. p.at \notin Sending /\ p.at # "recovered" /\ Show(d, p)
      BY <2>1 DEF Home, Sending
    <2>. HIDE DEF p, Codes
    <2>. QED
      BY <2>2, <2>3, HandAway
  <1>2. CASE Refuse(d) /\ UNCHANGED custody
    <2>. DEFINE p == [page[d] EXCEPT !.deaf = TRUE]
    <2>1. /\ page' = [page EXCEPT ![d] = p]
          /\ custody' = [custody EXCEPT ![d] = custody[d]]
          /\ handler' = [handler EXCEPT ![d] = handler[d]]
      BY <1>2, HandFacts DEF Refuse, Show
    <2>2. p.at = page[d].at /\ p.code = page[d].code /\ p.old = page[d].old
      BY <1>0 DEF Page
    <2>3. page[d].at = "recovered" => page[d].old \in Codes \cup {NoCode}
      BY HandFacts DEF HandOK
    <2>. HIDE DEF p, Codes
    <2>. QED
      BY <2>1, <2>2, <2>3, HandKept
  <1>3. ASSUME NEW s \in Sponsors, NEW shard \in Codes, ScanPresent(d, s, shard), ~Refuse(d)
        PROVE  Handed'
    <2>1. /\ Opens(shard, page[d].code) /\ UNCHANGED <<handler, custody>>
          /\ Recovered(d, Combine(page[d].code, shard), page[d].code, page[d].code)
      BY <1>3 DEF ScanPresent
    <2>2. page[d].code \in Codes \cup {NoCode}
      BY <2>1 DEF Opens
    <2>. QED
      BY <2>1, <2>2, RecoveredHanded
  <1>4. ASSUME NEW s \in Sponsors, NEW shard \in Codes, ScanFirst(d, s, shard), ~Refuse(d)
        PROVE  Handed'
    <2>. DEFINE p == [page[d] EXCEPT !.at = "second", !.first = s, !.shard = shard]
    <2>1. Show(d, p) /\ UNCHANGED <<handler, custody>>
      BY <1>4 DEF ScanFirst
    <2>2. p.at \notin Sending /\ p.at # "recovered"
      BY <1>0 DEF Page, Sending
    <2>. HIDE DEF p, Codes
    <2>. QED
      BY <2>1, <2>2, HandAway
  <1>5. ASSUME NEW s \in Sponsors, NEW shard \in Codes, ScanSecond(d, s, shard), ~Refuse(d)
        PROVE  Handed'
    <2>. DEFINE p == [page[d] EXCEPT !.at = "filing"]
                h == [NoHandler EXCEPT !.at = "store first", !.code = page[d].code,
                                       !.first = page[d].shard, !.second = shard]
    <2>1. /\ page' = [page EXCEPT ![d] = p] /\ handler' = [handler EXCEPT ![d] = h]
          /\ custody' = [custody EXCEPT ![d] = custody[d]]
      BY <1>5, HandFacts DEF ScanSecond, Show, Work
    <2>2. p.at \notin Sending /\ p.at # "recovered" /\ h.at \notin Renewing
      BY <1>0 DEF Page, Sending, NoHandler, Renewing
    <2>. HIDE DEF p, h, Codes
    <2>3. HandOK(p, h, custody[d], Codes')
      BY <2>2 DEF HandOK
    <2>. QED
      BY <2>1, <2>3, HandStep
  <1>6. \A s \in Sponsors, shard \in Codes :
           ScanPresent(d, s, shard) \/ ScanFirst(d, s, shard) \/ ScanSecond(d, s, shard)
              => UNCHANGED custody
    BY DEF ScanPresent, ScanFirst, ScanSecond
  <1>. QED
    BY <1>1, <1>2, <1>3, <1>4, <1>5, <1>6

LEMMA EndHanded ==
    ASSUME HandInv, Codes \subseteq Codes', NEW d \in Devices,
           \/ Complete(d) \/ Cancel(d) \/ Forget(d)
           \/ Burn(d, "first", "burn second") \/ Burn(d, "second", "forget")
    PROVE  Handed'
  <1>0. page[d] \in Page
    BY HandFacts
  <1>1. CASE Complete(d) \/ Cancel(d)
    <2>. DEFINE p(secret) == [Home EXCEPT !.at = "burn first", !.code = pending[d].code, !.master = secret]
                r == [Home EXCEPT !.at = "burn first", !.code = pending[d].code]
    <2>1. /\ UNCHANGED <<handler, custody>>
          /\ UNCHANGED page \/ Show(d, r) \/ \E secret : Show(d, p(secret))
      BY <1>1 DEF Complete, Cancel
    <2>2. r.at = "burn first" /\ \A secret : p(secret).at = "burn first"
      BY DEF Home
    <2>3. "burn first" \notin Sending /\ "burn first" # "recovered"
      BY DEF Sending
    <2>. HIDE DEF p, r, Codes
    <2>. QED
      BY <2>1, <2>2, <2>3, HandAway, HandStays
  <1>2. ASSUME NEW slot \in {"first", "second"}, NEW next \in {"burn second", "forget"}, Burn(d, slot, next)
        PROVE  Handed'
    <2>. DEFINE p == [page[d] EXCEPT !.at = next]
                blobs == {b \in custody[d] : ~(b[1] = page[d].code /\ b[2] = slot)}
    <2>1. /\ page' = [page EXCEPT ![d] = p] /\ handler' = [handler EXCEPT ![d] = handler[d]]
          /\ custody' = [custody EXCEPT ![d] = blobs]
      BY <1>2, HandFacts DEF Burn, Show
    <2>2. p.at \notin Sending /\ p.at # "recovered"
      BY <1>0 DEF Page, Sending
    <2>3. \A b \in custody[d] : b[2] = "own" => b \in blobs
      OBVIOUS
    <2>. HIDE DEF p, blobs, Codes
    <2>. QED
      BY <2>1, <2>2, <2>3, HandKept
  <1>3. CASE Forget(d)
    <2>1. UNCHANGED <<handler, custody>>
      BY <1>3 DEF Forget
    <2>2. CASE page[d].master # NoSecret
      <3>1. Recovered(d, page[d].master, page[d].code, NoCode)
        BY <1>3, <2>2 DEF Forget
      <3>. QED
        BY <2>1, <3>1, RecoveredHanded
    <2>3. CASE page[d].master = NoSecret
      <3>1. Show(d, Home)
        BY <1>3, <2>3 DEF Forget
      <3>. QED
        BY <2>1, <3>1, HomeAt, HandAway
    <2>. QED
      BY <2>2, <2>3
  <1>. QED
    BY <1>1, <1>2, <1>3

\* A re-issue stores the own shard of the new cut and burns that of another.
LEMMA RenewHanded ==
    ASSUME HandInv, Codes \subseteq Codes', NEW d \in Devices, StartReissue(d) \/ Handle(d)
    PROVE  Handed'
  <1>0. page[d] \in Page /\ handler[d] \in Handler /\ HandOK(page[d], handler[d], custody[d], Codes)
    BY HandFacts
  <1>1. CASE StartReissue(d)
    <2>. DEFINE n == Len(cutMaster')
                p == [page[d] EXCEPT !.at = "reissue", !.code = n]
                h == [NoHandler EXCEPT !.at = "burn old", !.code = n, !.old = page[d].old]
    <2>1. /\ Cut(d, page[d].master) /\ page[d].at = "recovered"
          /\ page' = [page EXCEPT ![d] = p] /\ handler' = [handler EXCEPT ![d] = h]
      BY <1>1 DEF StartReissue, Show, Work
    <2>2. page[d].master \in Int
      BY <1>0 DEF Page
    <2>3. /\ custody' = [custody EXCEPT ![d] = custody[d] \cup {Own(n)}]
          /\ n \notin DOMAIN cutMaster /\ n # NoCode
      BY <2>1, <2>2, HandFacts, CutRises
    <2>4. page[d].old # n
      BY <1>0, <2>1, <2>3 DEF HandOK, Codes
    <2>5. p.at = "reissue" /\ h.code = n /\ h.old = page[d].old
      BY <1>0 DEF Page, NoHandler
    <2>6. "reissue" \notin Sending /\ "reissue" # "recovered"
      BY DEF Sending
    <2>. HIDE DEF p, h, n, Codes
    <2>7. HandOK(p, h, custody[d] \cup {Own(n)}, Codes')
      BY <2>4, <2>5, <2>6 DEF HandOK
    <2>. QED
      BY <2>1, <2>3, <2>7, HandStep
  <1>2. ASSUME NEW slot \in {"first", "second"}, NEW shard, NEW place \in {"store second", "save intent"},
               handler[d].at # "none", Put(d, handler[d].code, slot, shard), UNCHANGED page,
               Work(d, [handler[d] EXCEPT !.at = place])
        PROVE  Handed'
    <2>. DEFINE h == [handler[d] EXCEPT !.at = place]
                blobs == {b \in custody[d] : ~(b[1] = handler[d].code /\ b[2] = slot)}
                            \cup {<<handler[d].code, slot, shard>>}
    <2>1. /\ page' = [page EXCEPT ![d] = page[d]] /\ handler' = [handler EXCEPT ![d] = h]
          /\ custody' = [custody EXCEPT ![d] = blobs]
      BY <1>2, HandFacts DEF Put, Work
    <2>2. h.at \notin Renewing
      BY <1>0 DEF Handler, Renewing
    <2>3. page[d].at \notin Sending
      BY <1>0, <1>2 DEF HandOK
    <2>. HIDE DEF h, blobs, Codes
    <2>4. HandOK(page[d], h, blobs, Codes')
      BY <1>0, <2>2, <2>3 DEF HandOK
    <2>. QED
      BY <2>1, <2>4, HandStep
  <1>3. CASE StoreFirst(d)
    BY <1>2, <1>3 DEF StoreFirst
  <1>4. CASE StoreSecond(d)
    BY <1>2, <1>4 DEF StoreSecond
  <1>5. ASSUME NEW p, page' = [page EXCEPT ![d] = p], handler' = [handler EXCEPT ![d] = NoHandler],
               UNCHANGED custody, p.at \in Sending => Own(p.code) \in custody[d],
               p.at = "recovered" => p.old \in Codes'  \cup {NoCode}
        PROVE  Handed'
    <2>1. custody' = [custody EXCEPT ![d] = custody[d]]
      BY <1>5, HandFacts
    <2>2. HandOK(p, NoHandler, custody[d], Codes')
      BY <1>5, NoHandlerAt DEF HandOK
    <2>. HIDE DEF Codes
    <2>. QED
      BY <1>5, <2>1, <2>2, HandStep
  <1>6. CASE SaveIntent(d)
    <2>1. /\ page' = [page EXCEPT ![d] = Home] /\ handler' = [handler EXCEPT ![d] = NoHandler]
          /\ UNCHANGED custody
      BY <1>6 DEF SaveIntent, Show, Work
    <2>. QED
      BY <1>5, <2>1, HomeAt
  <1>7. CASE BurnOld(d)
    <2>. DEFINE h == [handler[d] EXCEPT !.at = "show code"]
                blobs == custody[d] \ {Own(handler[d].old)}
    <2>1. /\ handler[d].at = "burn old" /\ page' = [page EXCEPT ![d] = page[d]]
          /\ handler' = [handler EXCEPT ![d] = h] /\ custody' = [custody EXCEPT ![d] = blobs]
      BY <1>7, HandFacts DEF BurnOld, Work
    <2>2. Own(handler[d].code) \in custody[d] /\ handler[d].old # handler[d].code
      BY <1>0, <2>1 DEF HandOK, Renewing
    <2>3. Own(handler[d].code) # Own(handler[d].old)
      BY <2>2 DEF Own
    <2>4. h.code = handler[d].code /\ h.old = handler[d].old
      BY <1>0 DEF Handler
    <2>5. page[d].at \notin Sending
      BY <1>0, <2>1 DEF HandOK
    <2>6. Own(h.code) \in blobs /\ h.old # h.code
      BY <2>2, <2>3, <2>4
    <2>. HIDE DEF h, blobs, Codes
    <2>7. HandOK(page[d], h, blobs, Codes')
      BY <1>0, <2>5, <2>6 DEF HandOK
    <2>. QED
      BY <2>1, <2>7, HandStep
  <1>8. CASE ShowCode(d)
    <2>1. /\ handler[d].at = "show code" /\ UNCHANGED custody
          /\ handler' = [handler EXCEPT ![d] = NoHandler]
      BY <1>8 DEF ShowCode, Work
    <2>2. Own(handler[d].code) \in custody[d] /\ page[d].at \notin Sending
      BY <1>0, <2>1 DEF HandOK, Renewing
    <2>3. CASE UNCHANGED page
      <3>1. page' = [page EXCEPT ![d] = page[d]]
        BY <2>3, HandFacts
      <3>2. page[d].at = "recovered" => page[d].old \in Codes' \cup {NoCode}
        BY <1>0 DEF HandOK
      <3>. QED
        BY <1>5, <2>1, <2>2, <3>1, <3>2
    <2>4. CASE Show(d, [Home EXCEPT !.at = "sendA", !.code = handler[d].code])
      <3>. DEFINE p == [Home EXCEPT !.at = "sendA", !.code = handler[d].code]
      <3>1. p.at = "sendA" /\ p.code = handler[d].code /\ "sendA" # "recovered"
        BY DEF Home
      <3>2. page' = [page EXCEPT ![d] = p]
        BY <2>4 DEF Show
      <3>. HIDE DEF p
      <3>. QED
        BY <1>5, <2>1, <2>2, <3>1, <3>2
    <2>. QED
      BY <1>8, <2>3, <2>4 DEF ShowCode
  <1>. QED
    BY <1>1, <1>3, <1>4, <1>6, <1>7, <1>8 DEF Handle

LEMMA AwayHanded ==
    ASSUME HandInv, Codes \subseteq Codes', NEW d \in Devices,
           Leave(d) \/ Reload(d) \/ LoseDevice(d)
    PROVE  Handed'
  <1>1. CASE Leave(d)
    <2>. DEFINE h == IF handler[d].at = "store first"
                     THEN [handler[d] EXCEPT !.first = NoCode] ELSE handler[d]
    <2>1. /\ page' = [page EXCEPT ![d] = Home] /\ handler' = [handler EXCEPT ![d] = h]
          /\ custody' = [custody EXCEPT ![d] = custody[d]]
      BY <1>1, HandFacts DEF Leave, Show, Work
    <2>2. h.at = handler[d].at /\ h.code = handler[d].code /\ h.old = handler[d].old
      BY HandFacts DEF Handler
    <2>. HIDE DEF h, Codes
    <2>. QED
      BY <2>1, <2>2, HomeAt, HandKept
  <1>2. CASE Reload(d) \/ LoseDevice(d)
    <2>1. page' = [page EXCEPT ![d] = Home] /\ handler' = [handler EXCEPT ![d] = NoHandler]
      BY <1>2 DEF Reload, LoseDevice, DropPage, Work
    <2>2. PICK blobs : custody' = [custody EXCEPT ![d] = blobs]
      BY <1>2, HandFacts DEF Reload, LoseDevice
    <2>. HIDE DEF Codes
    <2>3. HandOK(Home, NoHandler, blobs, Codes')
      BY HomeAt, NoHandlerAt DEF HandOK
    <2>. QED
      BY <2>1, <2>2, <2>3, HandStep
  <1>. QED
    BY <1>1, <1>2

LEMMA HandSteps == HandInv /\ [Next]_vars => Handed'
  <1>. SUFFICES ASSUME HandInv, [Next]_vars PROVE Handed'
    OBVIOUS
  <1>0. Codes \subseteq Codes'
    BY CodesGrow DEF HandInv
  <1>. HIDE DEF Codes
  <1>1. ASSUME NEW d \in Devices, Use(d) PROVE Handed'
    <2>1. CASE CreateKeystore(d) \/ AdoptView(d) \/ AdoptSeal(d)
      BY <1>0, <2>1, HandStays DEF CreateKeystore, AdoptView, AdoptSeal
    <2>. QED
      BY <1>0, <1>1, <2>1, CeremonyHanded, CollectHanded, EndHanded, RenewHanded, AwayHanded DEF Use
  <1>2. ASSUME NEW d \in Devices, LoseDevice(d) PROVE Handed'
    BY <1>0, <1>2, AwayHanded
  <1>3. CASE UNCHANGED <<page, handler, custody>>
    BY <1>0, <1>3, HandStays
  <1>. QED
    BY <1>1, <1>2, <1>3 DEF Next, Tick, vars, device

\* A code is handed over only beside the own shard of its cut, and a re-issue
\* burns another own shard than the one it has just stored.
THEOREM HandInvariant == Spec => []HandInv
  <1>1. Init => HandInv
    <2>. SUFFICES ASSUME Init PROVE HandInv
      OBVIOUS
    <2>1. \A d \in Devices : page[d] = Home /\ handler[d] = NoHandler
      BY DEF Init
    <2>2. Handed
      BY <2>1, HomeAt, NoHandlerAt DEF Handed, HandOK
    <2>. QED
      BY <2>2, InitWindow DEF HandInv
  <1>2. HandInv /\ [Next]_vars /\ WindowInv' => HandInv'
    BY HandSteps DEF HandInv
  <1>. QED
    BY <1>1, <1>2, WindowInvariant, PTL DEF Spec

\* The own shard of one cut and the shard a sponsor has just received.
LEMMA HandedOver ==
    ASSUME HandInv, NEW d \in Devices, NEW s \in Sponsors, HandOver(d, s), AllNoted'
    PROVE  Recoverable'
  <1>. DEFINE c == page[d].code
  <1>1. /\ page[d].at \in Sending /\ UNCHANGED <<custody, cutMaster>>
        /\ \E kept : held' = [held EXCEPT ![s] = kept \cup {c}]
    BY DEF HandOver, Sending
  <1>2. Own(c) \in custody'[d]
    BY <1>1, HandFacts DEF HandOK
  <1>3. held \in [Sponsors -> SUBSET Codes]
    BY HandFacts, CountedFacts
  <1>. HIDE DEF c
  <1>4. c \in held'[s]
    BY <1>1, <1>3
  <1>5. c \in noted'
    BY <1>4 DEF AllNoted, Sponsors
  <1>. QED
    BY <1>2, <1>4, <1>5 DEF Recoverable

\* Nothing noted is forgotten, and only a handover changes what a sponsor has.
LEMMA HandsStay ==
    ASSUME [Next]_vars
    PROVE  \/ \E d \in Devices, s \in Sponsors : HandOver(d, s)
           \/ UNCHANGED held /\ noted \subseteq noted'
  BY NextLeaves DEF Ledgers, BeginCeremony, StartReissue, NoteCode, Reload, LoseDevice, Tick, world

\* While the member has on paper every code a sponsor's shard is of: a handover
\* always leaves two holders of one cut, and only an own shard lost or burned
\* while the two sponsors have shards of different cuts ends that, until the
\* next handover.  A renewal begun while both have shards of one cut may stop at
\* any step, its burn included.
THEOREM AnyTwoAlways == Spec => AnyTwo
  <1>1. HandInv /\ [Next]_vars =>
           (Established' /\ AllNoted' => \/ Recoverable'
                                         \/ HalfHanded /\ OwnGone
                                         \/ Established /\ ~Recoverable /\ UNCHANGED held)
    <2>. SUFFICES ASSUME HandInv, [Next]_vars, Established', AllNoted'
                  PROVE  \/ Recoverable'
                         \/ HalfHanded /\ OwnGone
                         \/ Established /\ ~Recoverable /\ UNCHANGED held
      OBVIOUS
    <2>1. CASE \E d \in Devices, s \in Sponsors : HandOver(d, s)
      BY <2>1, HandedOver
    <2>2. CASE UNCHANGED held /\ noted \subseteq noted'
      <3>1. Established /\ noted \subseteq Codes
        BY <2>2, CountedFacts DEF Established, HandInv
      <3>2. ASSUME NEW c, c \in held["sponsor-1"] \cap held["sponsor-2"] PROVE Recoverable'
        BY <2>2, <3>2 DEF AllNoted, Recoverable
      <3>3. ASSUME NEW c \in noted, NEW d \in Devices, NEW s \in Sponsors,
                   Own(c) \in custody[d], c \in held[s]
            PROVE  Recoverable' \/ (HalfHanded /\ OwnGone)
        <4>1. CASE Own(c) \in custody'[d]
          BY <2>2, <3>3, <4>1 DEF Recoverable
        <4>2. CASE Own(c) \notin custody'[d]
          BY <3>1, <3>2, <3>3, <4>2 DEF OwnGone, HalfHanded
        <4>. QED
          BY <4>1, <4>2
      <3>4. CASE Recoverable
        BY <3>2, <3>3, <3>4 DEF Recoverable
      <3>. QED
        BY <2>2, <3>1, <3>4
    <2>. QED
      BY <2>1, <2>2, HandsStay
  <1>. QED
    BY <1>1, HandInvariant, PTL DEF Spec, AnyTwo

=============================================================================
