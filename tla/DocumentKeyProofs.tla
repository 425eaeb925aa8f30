-------------------------- MODULE DocumentKeyProofs --------------------------
(***************************************************************************)
(* Proofs about the key of the documents: for any orders and pairs and,    *)
(* but for the last theorem, any browsers.                                 *)
(***************************************************************************)
EXTENDS DocumentKeyProperties, TLAPS

LEMMA InitInv == Init => KeyInv
BY KeysAssumption
   DEF Init, KeyInv, TypeOK, PageInv, RequestInv, ReleaseInv, OneKeyPerDocument, PaidHasKey,
       MaybeKey, Pair, PairOf, Page, IdlePage, Request, NoRequest, Release, NoRelease, File

\* Either no key, or a key, which is not none.
LEMMA MaybeKeyIs ==
    NoKey \in MaybeKey /\ \A k : (k \in MaybeKey /\ k # NoKey) <=> k \in Keys
BY KeysAssumption DEF MaybeKey

LEMMA IdleTypes ==
    IdlePage \in Page /\ NoRequest \in Request /\ NoRelease \in Release
    /\ \A k \in MaybeKey : PairOf(k) \in Pair
BY MaybeKeyIs DEF IdlePage, Page, NoRequest, Request, NoRelease, Release, PairOf, Pair

\* What happens in a browser changes neither the account nor a release.
LEMMA PageStepKeeps ==
    ASSUME KeyInv, NEW b \in Browsers, PageStep(b)
    PROVE  TypeOK' /\ PageInv' /\ RequestInv' /\ PaidHasKey'
<1> USE MaybeKeyIs, IdleTypes
    DEF KeyInv, TypeOK, PageInv, RequestInv, PaidHasKey, Pair, PairOf, Page, IdlePage,
        Request, NoRequest, account, custody, document, Goes, Leaves, Drops
<1> DEFINE Kept == TypeOK' /\ PageInv' /\ RequestInv' /\ PaidHasKey'
<1>1. ASSUME NEW o \in Orders, PreparePay(b, o) PROVE Kept
  <2> PICK k \in Keys, g \in BOOLEAN : Asks(b, o, k, g)
    BY <1>1 DEF PreparePay, HasKeys
  <2>1. k # NoKey
    OBVIOUS
  <2>2. page' \in [Browsers -> Page] /\ request' \in [Browsers -> Request]
    BY DEF Asks
  <2>3. local' \in [Browsers -> Pair] /\ made' \subseteq Keys
    <3>1. CASE HasKeys(b)
      BY <1>1, <3>1 DEF PreparePay
    <3>2. CASE ~HasKeys(b)
      <4> PICK x \in Keys \ made : local' = [local EXCEPT ![b] = PairOf(x)] /\ made' = made \cup {x}
        BY <1>1, <3>2 DEF PreparePay
      <4> PairOf(x) \in Pair
        BY MaybeKeyIs DEF Pair, PairOf
      <4> QED
        OBVIOUS
    <3> QED
      BY <3>1, <3>2
  <2>4. PageInv' /\ RequestInv'
    BY <1>1, <2>1 DEF PreparePay, Asks
  <2> QED
    BY <1>1, <2>2, <2>3, <2>4 DEF PreparePay
<1>2. CASE KeyAccepted(b)
  BY <1>2, ZenonT(40) DEF KeyAccepted, Answered
<1>3. CASE KeyRefused(b)
  BY <1>3 DEF KeyRefused
<1>4. CASE SaveKeyFile(b)
  <2>1. page[b].key \in Keys
    BY <1>4 DEF SaveKeyFile
  <2>2. CASE page[b].pc = "gate"
    <3>1. page' \in [Browsers -> Page]
      <4>1. page' = [page EXCEPT ![b].pc = "pay"]
        BY <1>4, <2>2 DEF SaveKeyFile
      <4>2. [page[b] EXCEPT !.pc = "pay"] \in Page
        OBVIOUS
      <4> QED
        BY <4>1, <4>2
    <3>3. saved' \subseteq Keys
      BY <1>4, <2>1 DEF SaveKeyFile
    <3>2. PageInv'
      BY <1>4, <2>2 DEF SaveKeyFile
    <3> QED
      BY <1>4, <3>1, <3>2, <3>3 DEF SaveKeyFile
  <2>3. CASE page[b].pc # "gate"
    BY <1>4, <2>1, <2>3 DEF SaveKeyFile
  <2> QED
    BY <2>2, <2>3
<1>5. CASE Pays(b)
  BY <1>5 DEF Pays
<1>6. CASE Reload(b)
  BY <1>6 DEF Reload
<1>7. CASE RequestEnds(b)
  <2>1. CASE page[b].pc = "prepare"
    <3> page' = [page EXCEPT ![b] = IdlePage] /\ request' = [request EXCEPT ![b] = NoRequest]
      BY <1>7, <2>1 DEF RequestEnds
    <3>1. page' \in [Browsers -> Page]
      BY IdleTypes
    <3>2. request' \in [Browsers -> Request]
      BY IdleTypes
    <3>3. PageInv'
      BY <1>7 DEF RequestEnds
    <3>4. RequestInv'
      BY <1>7 DEF RequestEnds
    <3> QED
      BY <1>7, <3>1, <3>2, <3>3, <3>4 DEF RequestEnds
  <2>2. CASE page[b].pc = "store"
    <3> page' = [page EXCEPT ![b].pc = "setup"] /\ request' = [request EXCEPT ![b] = NoRequest]
      BY <1>7, <2>2 DEF RequestEnds
    <3>1. [page[b] EXCEPT !.pc = "setup"] \in Page
      OBVIOUS
    <3>2. page' \in [Browsers -> Page]
      BY <3>1
    <3>3. request' \in [Browsers -> Request]
      BY IdleTypes
    <3>4. PageInv'
      BY <1>7, <2>2 DEF RequestEnds
    <3>5. RequestInv'
      BY <1>7 DEF RequestEnds
    <3> QED
      BY <1>7, <3>2, <3>3, <3>4, <3>5 DEF RequestEnds
  <2>3. CASE page[b].pc \notin {"prepare", "store"}
    BY <1>7, <2>3 DEF RequestEnds
  <2> QED
    BY <2>1, <2>2, <2>3
<1>8. CASE NewPair(b)
  <2> PICK k \in Keys \ made :
          /\ made' = made \cup {k}
          /\ page' = [page EXCEPT ![b] = [IdlePage EXCEPT !.pc = "setup", !.key = k]]
    BY <1>8 DEF NewPair
  <2>1. page' \in [Browsers -> Page] /\ made' \subseteq Keys
    OBVIOUS
  <2> QED
    BY <1>8, <2>1 DEF NewPair
<1>9. CASE SendSetup(b)
  BY <1>9, ZenonT(40) DEF SendSetup
<1>10. CASE StorePair(b)
  BY <1>10 DEF StorePair
<1>11. ASSUME NEW k \in Keys, UseKeyFile(b, k) PROVE Kept
  BY <1>11 DEF UseKeyFile
<1>12. CASE RecoverPrivate(b)
  <2>1. local' \in [Browsers -> Pair]
    BY <1>12 DEF RecoverPrivate
  <2>2. page' \in [Browsers -> Page]
    BY <1>12 DEF RecoverPrivate
  <2> QED
    BY <1>12, <2>1, <2>2 DEF RecoverPrivate
<1>13. CASE RecoverPublic(b)
  <2>1. local' \in [Browsers -> Pair]
    <3>1. [local[b] EXCEPT !.pub = publicKey] \in Pair
      BY SMTT(30)
    <3> QED
      BY <1>13, <3>1 DEF RecoverPublic
  <2> QED
    BY <1>13, <2>1 DEF RecoverPublic
<1> QED
  BY <1>1, <1>2, <1>3, <1>4, <1>5, <1>6, <1>7, <1>8, <1>9, <1>10, <1>11, <1>12, <1>13
  DEF PageStep

\* A handler that answers has left a key with the account.
LEMMA ServerStepKeeps ==
    ASSUME KeyInv, NEW b \in Browsers, ServerStep(b)
    PROVE  TypeOK' /\ PageInv' /\ RequestInv' /\ PaidHasKey'
<1> USE MaybeKeyIs, IdleTypes
    DEF KeyInv, TypeOK, PageInv, RequestInv, PaidHasKey, Request, custody, document, Answers
<1>1. CASE RegisterLoads(b)
  BY <1>1 DEF RegisterLoads, account
<1>2. CASE RegisterSets(b)
  <2>1. CASE request[b].seen = NoKey
    <3>1. request[b].key \in MaybeKey /\ request[b].key # NoKey
      BY <1>2 DEF RegisterSets
    <3>2. request' \in [Browsers -> Request]
      BY <1>2, <2>1, <3>1 DEF RegisterSets
    <3>3. PageInv' /\ RequestInv' /\ PaidHasKey'
      BY <1>2, <2>1, <3>1 DEF RegisterSets
    <3> QED
      BY <1>2, <2>1, <3>1, <3>2, <3>3 DEF RegisterSets
  <2>2. CASE request[b].seen # NoKey
    <3>1. request' \in [Browsers -> Request]
      BY <1>2, <2>2 DEF RegisterSets
    <3>2. PageInv' /\ RequestInv' /\ PaidHasKey'
      BY <1>2, <2>2 DEF RegisterSets
    <3> QED
      BY <1>2, <2>2, <3>1, <3>2 DEF RegisterSets
  <2> QED
    BY <2>1, <2>2
<1>3. CASE SetupSets(b)
  BY <1>3 DEF SetupSets
<1> QED
  BY <1>1, <1>2, <1>3 DEF ServerStep

\* The release reads the account once.
LEMMA ReleaseStepKeeps ==
    ASSUME KeyInv, NEW o \in Orders, ReleaseStep(o)
    PROVE  TypeOK' /\ PageInv' /\ RequestInv' /\ PaidHasKey'
<1> USE MaybeKeyIs, IdleTypes
    DEF KeyInv, TypeOK, PageInv, RequestInv, ReleaseInv, PaidHasKey, Release, NoRelease, File,
        account, custody
<1>1. CASE ReleaseBegins(o)
  BY <1>1 DEF ReleaseBegins
<1>2. ASSUME NEW f \in File, EncryptFile(o, f) PROVE TypeOK' /\ PageInv' /\ RequestInv' /\ PaidHasKey'
  BY <1>2, ZenonT(40) DEF EncryptFile
<1>3. ASSUME NEW f \in File, EncryptFails(o, f) PROVE TypeOK' /\ PageInv' /\ RequestInv' /\ PaidHasKey'
  BY <1>3 DEF EncryptFails
<1>4. CASE Finalize(o)
  BY <1>4 DEF Finalize
<1>5. CASE ReleaseDies(o)
  BY <1>5 DEF ReleaseDies
<1> QED
  BY <1>1, <1>2, <1>3, <1>4, <1>5 DEF ReleaseStep

\* A release works with the key it loaded, so both files get the same one.
LEMMA ReleaseStepEncrypts ==
    ASSUME KeyInv, NEW o \in Orders, ReleaseStep(o)
    PROVE  ReleaseInv' /\ OneKeyPerDocument'
<1> USE DEF KeyInv, TypeOK, PaidHasKey, ReleaseInv, OneKeyPerDocument, NoRelease, Release, File
<1>1. CASE ReleaseBegins(o)
  BY <1>1 DEF ReleaseBegins
<1>2. ASSUME NEW f \in File, EncryptFile(o, f) PROVE ReleaseInv' /\ OneKeyPerDocument'
  BY <1>2 DEF EncryptFile
<1>3. ASSUME NEW f \in File, EncryptFails(o, f) PROVE ReleaseInv' /\ OneKeyPerDocument'
  BY <1>3 DEF EncryptFails
<1>4. CASE Finalize(o)
  BY <1>4 DEF Finalize
<1>5. CASE ReleaseDies(o)
  BY <1>5 DEF ReleaseDies
<1> QED
  BY <1>1, <1>2, <1>3, <1>4, <1>5 DEF ReleaseStep

\* Nothing else writes a file; a page only takes an order from offered to paid.
LEMMA OthersLeaveReleases ==
    ASSUME KeyInv, NEW b \in Browsers, PageStep(b) \/ ServerStep(b)
    PROVE  ReleaseInv' /\ OneKeyPerDocument'
<1>1. UNCHANGED <<release, file, userEncrypted>>
  BY DEF PageStep, ServerStep, PreparePay, KeyAccepted, KeyRefused, SaveKeyFile, Pays, Reload,
         RequestEnds, NewPair, SendSetup, StorePair, UseKeyFile, RecoverPrivate, RecoverPublic,
         RegisterLoads, RegisterSets, SetupSets, document
<1>2. \A o \in Orders : stage[o] # "offered" => stage'[o] = stage[o]
  <2>1. CASE Pays(b)
    BY <2>1 DEF Pays, KeyInv, TypeOK
  <2>2. CASE ~Pays(b)
    BY <2>2
    DEF PageStep, ServerStep, PreparePay, KeyAccepted, KeyRefused, SaveKeyFile, Reload,
        RequestEnds, NewPair, SendSetup, StorePair, UseKeyFile, RecoverPrivate, RecoverPublic,
        RegisterLoads, RegisterSets, SetupSets, document
  <2> QED
    BY <2>1, <2>2
<1> QED
  BY <1>1, <1>2 DEF KeyInv, ReleaseInv, OneKeyPerDocument

\* The inductive invariant holds in every reachable state.
THEOREM KeysSafe == Spec => []KeyInv
<1>1. KeyInv /\ [Next]_vars => KeyInv'
  <2> SUFFICES ASSUME KeyInv, [Next]_vars PROVE KeyInv'
    OBVIOUS
  <2>1. ASSUME NEW b \in Browsers, PageStep(b) PROVE KeyInv'
    BY <2>1, PageStepKeeps, OthersLeaveReleases DEF KeyInv
  <2>2. ASSUME NEW b \in Browsers, ServerStep(b) PROVE KeyInv'
    BY <2>2, ServerStepKeeps, OthersLeaveReleases DEF KeyInv
  <2>3. ASSUME NEW o \in Orders, ReleaseStep(o) PROVE KeyInv'
    BY <2>3, ReleaseStepKeeps, ReleaseStepEncrypts DEF KeyInv
  <2>4. CASE UNCHANGED vars
    BY <2>4 DEF vars, account, custody, document, KeyInv, TypeOK, PageInv, RequestInv, ReleaseInv,
       OneKeyPerDocument, PaidHasKey
  <2> QED
    BY <2>1, <2>2, <2>3, <2>4 DEF Next
<1> QED
  BY <1>1, InitInv, PTL DEF Spec

\* Pages, requests, releases and files stay within their types.
THEOREM KeyTypes == Spec => []TypeOK
<1>1. KeyInv => TypeOK
  BY DEF KeyInv
<1> QED
  BY <1>1, KeysSafe, PTL

\* Whatever lands while a release is under way (the profile replacing the key,
\* a late registration), a document delivered as encrypted has one key.
THEOREM DocumentsHaveOneKey == Spec => []OneKeyPerDocument
<1>1. KeyInv => OneKeyPerDocument
  BY DEF KeyInv
<1> QED
  BY <1>1, KeysSafe, PTL

\* Lost requests, lost answers and reloaded pages never let a customer pay on
\* the page of an order before the account has a key.
THEOREM PaidOrdersHaveKey == Spec => []PaidHasKey
<1>1. KeyInv => PaidHasKey
  BY DEF KeyInv
<1> QED
  BY <1>1, KeysSafe, PTL

-----------------------------------------------------------------------------
(* A customer with one browser.                                            *)

LEMMA InitCustody == Init => CustodyInv /\ RegisteredIsHeld
BY DEF Init, CustodyInv, RegisteredIsHeld, PairOf, IdlePage, NoRequest

\* A key is only ever overwritten in the browser when the backup has it, or when
\* there was none.
LEMMA OneBrowserKeeps ==
    ASSUME NEW b, Browsers = {b}, KeyInv, CustodyInv, RegisteredIsHeld, PageStep(b)
    PROVE  CustodyInv' /\ RegisteredIsHeld'
<1> USE MaybeKeyIs, IdleTypes
    DEF KeyInv, TypeOK, PageInv, RequestInv, CustodyInv, RegisteredIsHeld, Held, PairOf, IdlePage,
        NoRequest, account, custody, document, Goes, Leaves, Drops
<1> DEFINE Kept == CustodyInv' /\ RegisteredIsHeld'
<1>1. ASSUME NEW o \in Orders, PreparePay(b, o) PROVE Kept
  <2>1. CASE HasKeys(b)
    BY <1>1, <2>1 DEF PreparePay, Asks, HasKeys
  <2>2. CASE ~HasKeys(b)
    <3> PICK k \in Keys \ made : local' = [local EXCEPT ![b] = PairOf(k)] /\ Asks(b, o, k, TRUE)
      BY <1>1, <2>2 DEF PreparePay
    <3> QED
      BY <1>1, <2>2 DEF PreparePay, Asks, HasKeys
  <2> QED
    BY <2>1, <2>2
<1>2. CASE KeyAccepted(b)
  BY <1>2 DEF KeyAccepted
<1>3. CASE KeyRefused(b)
  BY <1>3 DEF KeyRefused
<1>4. CASE SaveKeyFile(b)
  <2>1. CASE page[b].pc = "gate"
    <3>1. page' = [page EXCEPT ![b].pc = "pay"]
      BY <1>4, <2>1 DEF SaveKeyFile
    <3>2. CustodyInv'
      BY <1>4, <3>1 DEF SaveKeyFile
    <3>3. RegisteredIsHeld'
      BY <1>4 DEF SaveKeyFile
    <3> QED
      BY <3>2, <3>3
  <2>2. CASE page[b].pc # "gate"
    BY <1>4, <2>2 DEF SaveKeyFile
  <2> QED
    BY <2>1, <2>2
<1>5. CASE Pays(b)
  BY <1>5 DEF Pays
<1>6. CASE Reload(b)
  BY <1>6 DEF Reload
<1>7. CASE RequestEnds(b)
  <2>1. UNCHANGED <<publicKey, backup, local, saved>>
    BY <1>7 DEF RequestEnds
  <2>2. request'[b].pc = "none"
    BY <1>7 DEF RequestEnds, Request
  <2>3. page'[b].pc # "store" /\ (page'[b].pc = "recover" => page[b].pc = "recover")
    <3>1. CASE page[b].pc = "prepare"
      BY <1>7, <3>1 DEF RequestEnds
    <3>2. CASE page[b].pc = "store"
      BY <1>7, <3>2 DEF RequestEnds, Page
    <3>3. CASE page[b].pc \notin {"prepare", "store"}
      BY <1>7, <3>3 DEF RequestEnds
    <3> QED
      BY <3>1, <3>2, <3>3
  <2>4. RegisteredIsHeld'
    BY <2>1
  <2>5. CustodyInv'
    BY <2>1, <2>2, <2>3
  <2> QED
    BY <2>4, <2>5
<1>8. CASE NewPair(b)
  BY <1>8 DEF NewPair
<1>9. CASE SendSetup(b)
  BY <1>9 DEF SendSetup
<1>10. CASE StorePair(b)
  BY <1>10 DEF StorePair, Answered
<1>11. ASSUME NEW k \in Keys, UseKeyFile(b, k) PROVE Kept
  BY <1>11 DEF UseKeyFile
<1>12. CASE RecoverPrivate(b)
  BY <1>12 DEF RecoverPrivate
<1>13. CASE RecoverPublic(b)
  BY <1>13 DEF RecoverPublic
<1> QED
  BY <1>1, <1>2, <1>3, <1>4, <1>5, <1>6, <1>7, <1>8, <1>9, <1>10, <1>11, <1>12, <1>13
  DEF PageStep

\* The server answers one browser: a key it registers is the browser's own, and
\* one it sets up comes with its backup.
LEMMA ServerKeepsCustody ==
    ASSUME NEW b, Browsers = {b}, KeyInv, CustodyInv, RegisteredIsHeld, ServerStep(b)
    PROVE  CustodyInv' /\ RegisteredIsHeld'
<1> USE MaybeKeyIs
    DEF KeyInv, TypeOK, RequestInv, CustodyInv, RegisteredIsHeld, Held, custody, document, Answers
<1>1. CASE RegisterLoads(b)
  BY <1>1 DEF RegisterLoads, account
<1>2. CASE RegisterSets(b)
  <2>1. CASE request[b].seen = NoKey
    <3>1. publicKey = NoKey /\ local[b].priv = request[b].key /\ backup = NoKey
      BY <1>2, <2>1 DEF RegisterSets
    <3>2. publicKey' = request[b].key /\ request'[b].pc = "answered"
      BY <1>2, <2>1 DEF RegisterSets, Request
    <3>3. UNCHANGED <<backup, local, saved, page>>
      BY <1>2 DEF RegisterSets
    <3>4. RegisteredIsHeld'
      <4>1. local'[b].priv = request[b].key
        BY <3>1, <3>3
      <4> QED
        BY <3>2, <4>1
    <3>5. CustodyInv'
      BY <1>2, <3>1, <3>2, <3>3 DEF RegisterSets
    <3> QED
      BY <3>4, <3>5
  <2>2. CASE request[b].seen # NoKey
    <3>1. UNCHANGED <<publicKey, backup, local, saved, page>>
      BY <1>2, <2>2 DEF RegisterSets
    <3>2. request'[b].pc = "answered" /\ request[b].pc = "registering"
      BY <1>2, <2>2 DEF RegisterSets, Request
    <3>3. RegisteredIsHeld'
      BY <3>1
    <3>4. CustodyInv'
      BY <3>1, <3>2
    <3> QED
      BY <3>3, <3>4
  <2> QED
    BY <2>1, <2>2
<1>3. CASE SetupSets(b)
  BY <1>3 DEF SetupSets
<1> QED
  BY <1>1, <1>2, <1>3 DEF ServerStep

\* Overwritten, replaced or half recovered as it may be in a browser: the key
\* new documents are encrypted with is never lost to a customer who uses one.
THEOREM OneBrowserHoldsKey ==
    ASSUME NEW b, Browsers = {b}
    PROVE  Spec => []RegisteredIsHeld
<1>1. KeyInv /\ CustodyInv /\ RegisteredIsHeld /\ [Next]_vars => CustodyInv' /\ RegisteredIsHeld'
  <2> SUFFICES ASSUME KeyInv, CustodyInv, RegisteredIsHeld, [Next]_vars
               PROVE  CustodyInv' /\ RegisteredIsHeld'
    OBVIOUS
  <2>1. CASE PageStep(b)
    BY <2>1, OneBrowserKeeps
  <2>2. CASE ServerStep(b)
    BY <2>2, ServerKeepsCustody
  <2>3. ASSUME NEW o \in Orders, ReleaseStep(o) PROVE CustodyInv' /\ RegisteredIsHeld'
    BY <2>3 DEF ReleaseStep, ReleaseBegins, EncryptFile, EncryptFails, Finalize, ReleaseDies,
       account, custody, CustodyInv, RegisteredIsHeld, Held
  <2>4. CASE UNCHANGED vars
    BY <2>4 DEF vars, account, custody, CustodyInv, RegisteredIsHeld, Held
  <2> QED
    BY <2>1, <2>2, <2>3, <2>4 DEF Next
<1> QED
  BY <1>1, InitCustody, KeysSafe, PTL DEF Spec

-----------------------------------------------------------------------------
(* The pages, handlers and releases implement KeyPromise.                  *)

LEMMA InitKeepsPromise == Init => Promise!Init
BY DEF Init, Promise!Init, Sale, SaleOf, Chosen, Sealed, NoRelease

\* What leaves the sales and the releases alone at most changes the account's key.
LEMMA KeyOnly ==
    ASSUME KeyInv, UNCHANGED document, publicKey' = publicKey \/ publicKey' \in Keys
    PROVE  Promise!Next \/ UNCHANGED <<publicKey, Sale, Chosen, Sealed>>
<1>1. Sale' = Sale /\ Chosen' = Chosen /\ Sealed' = Sealed
  BY DEF document, Sale, SaleOf, Chosen, Sealed
<1>2. ASSUME publicKey' \in Keys PROVE Promise!SetKey(publicKey')
  BY <1>1, <1>2 DEF Promise!SetKey
<1> QED
  BY <1>1, <1>2 DEF Promise!Next

\* Pages pay for an order that is offered, to an account that has a key.
LEMMA PageKeepsPromise ==
    ASSUME KeyInv, NEW b \in Browsers, PageStep(b)
    PROVE  Promise!Next \/ UNCHANGED <<publicKey, Sale, Chosen, Sealed>>
<1> USE DEF KeyInv, TypeOK
<1>1. CASE Pays(b)
  <2> DEFINE o == page[b].order
  <2>1. /\ UNCHANGED <<publicKey, release, file, userEncrypted>>
        /\ stage' = [stage EXCEPT ![o] = IF @ = "offered" THEN "paid" ELSE @]
        /\ publicKey # NoKey
    BY <1>1 DEF Pays, PageInv, account
  <2>2. Chosen' = Chosen /\ Sealed' = Sealed
    BY <2>1 DEF Chosen, Sealed
  <2>3. CASE o \in Orders /\ stage[o] = "offered"
    <3>1. release[o].at = "none"
      BY <2>3 DEF ReleaseInv
    <3>2. Sale[o] = "offered"
      BY <2>3 DEF Sale, SaleOf
    <3>3. Sale' = [Sale EXCEPT ![o] = "sold"]
      BY <2>1, <2>3, <3>1 DEF Sale, SaleOf
    <3> QED
      BY <2>1, <2>2, <2>3, <3>2, <3>3 DEF Promise!Sell, Promise!Next
  <2>4. CASE ~(o \in Orders /\ stage[o] = "offered")
    <3>1. stage' = stage
      BY <2>1, <2>4
    <3> QED
      BY <2>1, <2>2, <3>1 DEF Sale, SaleOf
  <2> QED
    BY <2>3, <2>4
<1>2. CASE ~Pays(b)
  <2>1. UNCHANGED <<publicKey, document>>
    BY <1>2
    DEF PageStep, PreparePay, KeyAccepted, KeyRefused, SaveKeyFile, Reload, RequestEnds, NewPair,
        SendSetup, StorePair, UseKeyFile, RecoverPrivate, RecoverPublic, account
  <2> QED
    BY <2>1, KeyOnly
<1> QED
  BY <1>1, <1>2

\* A handler that writes the account's key writes a key.
LEMMA ServerKeepsPromise ==
    ASSUME KeyInv, NEW b \in Browsers, ServerStep(b)
    PROVE  Promise!Next \/ UNCHANGED <<publicKey, Sale, Chosen, Sealed>>
<1>1. UNCHANGED document
  BY DEF ServerStep, RegisterLoads, RegisterSets, SetupSets
<1>2. request[b].pc \in {"registering", "setup"} => request[b].key \in Keys
  BY MaybeKeyIs DEF KeyInv, RequestInv, TypeOK, Request
<1>3. publicKey' = publicKey \/ publicKey' \in Keys
  BY <1>2 DEF ServerStep, RegisterLoads, RegisterSets, SetupSets, account
<1> QED
  BY <1>1, <1>3, KeyOnly

\* A release chooses once and delivers under what it chose, or plain, or not at all.
LEMMA ReleaseKeepsPromise ==
    ASSUME KeyInv, NEW o \in Orders, ReleaseStep(o)
    PROVE  Promise!Next \/ UNCHANGED <<publicKey, Sale, Chosen, Sealed>>
<1> USE DEF KeyInv, TypeOK
<1>1. publicKey' = publicKey
  BY DEF ReleaseStep, ReleaseBegins, EncryptFile, EncryptFails, Finalize, ReleaseDies, account
<1>2. CASE ReleaseBegins(o)
  <2>1. /\ UNCHANGED <<stage, file, userEncrypted>>
        /\ stage[o] = "paid" /\ release[o].at = "none"
        /\ release' = [release EXCEPT ![o] =
              [at |-> IF publicKey = NoKey THEN "finalize" ELSE "docx",
               user |-> publicKey, ok |-> FALSE]]
    BY <1>2 DEF ReleaseBegins
  <2>2. release'[o].at \in {"finalize", "docx"} /\ release'[o].user = publicKey
    BY <2>1
  <2>3. \A x \in Orders \ {o} : release'[x] = release[x]
    BY <2>1
  <2>4. Sale[o] = "sold" /\ Sale' = [Sale EXCEPT ![o] = "releasing"]
    BY <2>1, <2>2, <2>3 DEF Sale, SaleOf
  <2>5. Chosen' = [Chosen EXCEPT ![o] = publicKey]
    BY <2>2, <2>3 DEF Chosen
  <2>6. Sealed' = Sealed
    BY <2>1 DEF Sealed
  <2> QED
    BY <1>1, <2>4, <2>5, <2>6 DEF Promise!Choose, Promise!Next
<1>3. ASSUME NEW f \in File, EncryptFile(o, f) \/ EncryptFails(o, f)
      PROVE  UNCHANGED <<Sale, Chosen, Sealed>>
  <2>1. /\ UNCHANGED <<stage, userEncrypted>> /\ release[o].at \in {"docx", "pdf"}
        /\ \A x \in Orders \ {o} : release'[x] = release[x] /\ file'[x] = file[x]
    BY <1>3 DEF EncryptFile, EncryptFails, File
  <2>2. release'[o].at \in {"pdf", "finalize"} /\ release'[o].user = release[o].user
    BY <1>3 DEF EncryptFile, EncryptFails, Release
  <2>3. ~userEncrypted[o]
    BY <2>1 DEF ReleaseInv
  <2>4. stage[o] # "offered"
    BY <2>1 DEF ReleaseInv
  <2>5. \A x \in Orders : SaleOf(x)' = SaleOf(x)
    BY <2>1, <2>2, <2>4 DEF SaleOf
  <2>6. Sale' = Sale
    BY <2>5 DEF Sale
  <2>7. Chosen' = Chosen
    BY <2>1, <2>2 DEF Chosen
  <2>8. Sealed' = Sealed
    BY <2>1, <2>3 DEF Sealed
  <2> QED
    BY <2>6, <2>7, <2>8
<1>4. CASE Finalize(o)
  <2>1. /\ release[o].at = "finalize" /\ file' = file
        /\ userEncrypted' = [userEncrypted EXCEPT ![o] = release[o].ok]
        /\ stage' = [stage EXCEPT ![o] = "done"]
        /\ release' = [release EXCEPT ![o] = [NoRelease EXCEPT !.at = "over"]]
    BY <1>4 DEF Finalize
  <2>2. release'[o].at = "over" /\ release'[o].user = NoKey
    BY <2>1 DEF NoRelease
  <2>3. \A x \in Orders \ {o} : release'[x] = release[x]
    BY <2>1
  <2>4. stage[o] # "offered"
    BY <2>1 DEF ReleaseInv
  <2>5. Sale[o] = "releasing" /\ Sale' = [Sale EXCEPT ![o] = "delivered"]
    BY <2>1, <2>2, <2>3, <2>4 DEF Sale, SaleOf
  <2>6. Chosen' = [Chosen EXCEPT ![o] = NoKey]
    BY <2>2, <2>3 DEF Chosen
  <2> DEFINE k == IF release[o].ok THEN release[o].user ELSE NoKey
  <2>7. \A f \in File : release[o].ok => file[o][f] = release[o].user
    BY DEF ReleaseInv, File
  <2>8. Sealed' = [Sealed EXCEPT ![o] = [f \in File |-> k]]
    <3>1. \A x \in Orders \ {o} : userEncrypted'[x] = userEncrypted[x]
      BY <2>1
    <3>2. userEncrypted'[o] = release[o].ok
      BY <2>1
    <3>3. [f \in File |-> IF userEncrypted'[o] THEN file[o][f] ELSE NoKey] = [f \in File |-> k]
      BY <2>7, <3>2
    <3> QED
      BY <2>1, <3>1, <3>3 DEF Sealed
  <2>9. k \in {Chosen[o], NoKey} /\ k \in Keys \cup {NoKey}
    BY DEF Chosen, Release, MaybeKey
  <2> QED
    BY <1>1, <2>5, <2>6, <2>8, <2>9 DEF Promise!Deliver, Promise!Next
<1>5. CASE ReleaseDies(o)
  <2>1. /\ release[o].at \in File \cup {"finalize"} /\ UNCHANGED <<stage, file, userEncrypted>>
        /\ release' = [release EXCEPT ![o] = [NoRelease EXCEPT !.at = "over"]]
    BY <1>5 DEF ReleaseDies
  <2>2. release'[o].at = "over" /\ release'[o].user = NoKey
    BY <2>1 DEF NoRelease
  <2>3. \A x \in Orders \ {o} : release'[x] = release[x]
    BY <2>1
  <2>4. release[o].at \notin {"none", "over"} /\ stage[o] # "offered"
    BY <2>1 DEF ReleaseInv, File
  <2>5. stage[o] # "done"
    BY <2>4 DEF ReleaseInv
  <2>6. Sale[o] = "releasing" /\ Sale' = [Sale EXCEPT ![o] = "stuck"]
    BY <2>1, <2>2, <2>3, <2>4, <2>5 DEF Sale, SaleOf
  <2>7. Chosen' = [Chosen EXCEPT ![o] = NoKey]
    BY <2>2, <2>3 DEF Chosen
  <2>8. Sealed' = Sealed
    BY <2>1 DEF Sealed
  <2> QED
    BY <1>1, <2>6, <2>7, <2>8 DEF Promise!GetStuck, Promise!Next
<1> QED
  BY <1>1, <1>2, <1>3, <1>4, <1>5 DEF ReleaseStep

\* What is sold is sealed, all of it, with the key the account had when its release
\* began, or plain, and stays so: in every behaviour, for any browsers.
THEOREM KeysRefine == Spec => KeepsKeyPromise
<1>1. KeyInv /\ [Next]_vars => [Promise!Next]_<<publicKey, Sale, Chosen, Sealed>>
  <2>1. UNCHANGED vars => UNCHANGED <<publicKey, Sale, Chosen, Sealed>>
    BY DEF vars, account, document, Sale, SaleOf, Chosen, Sealed
  <2> QED
    BY <2>1, PageKeepsPromise, ServerKeepsPromise, ReleaseKeepsPromise DEF Next
<1>2. KeyInv /\ [Next]_vars => [Promise!Next]_Promise!keyVars
  BY <1>1 DEF Promise!keyVars
<1> QED
  BY <1>2, InitKeepsPromise, KeysSafe, PTL DEF Spec, KeepsKeyPromise, Promise!Spec

=============================================================================
