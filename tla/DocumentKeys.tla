---------------------------- MODULE DocumentKeys ----------------------------
(***************************************************************************)
(* The key pair that encrypts a customer's documents: it is made in a      *)
(* browser before the payment (order-status.tsx), its public half is       *)
(* registered with the account (register_order_public_key, setup_e2ee),    *)
(* and the release of a paid order encrypts the files with whatever the    *)
(* account holds by then (_maybe_encrypt_files).  The private half is only *)
(* ever in browsers, in key files and, sealed by a phrase, in a backup.    *)
(*                                                                         *)
(* One account with its browsers and orders.  A key stands for its pair.   *)
(* An order is released at most once, which is ReleasedOnce of             *)
(* OrderProperties; the keyring, a copy of key files under the account's   *)
(* password, is left out.                                                  *)
(***************************************************************************)
EXTENDS Naturals, FiniteSets

CONSTANTS
    Browsers,       \* one page is open in each
    Orders,         \* orders of the account whose preview is offered for sale
    Keys,           \* bound: the pairs that can be made
    NoKey,
    NoOrder

ASSUME KeysAssumption == NoKey \notin Keys /\ NoOrder \notin Orders

VARIABLES
    publicKey,      \* users.public_key
    backup,         \* users.private_key_backup_encrypted: whose private half
    local,          \* localStorage of a browser
    saved,          \* key files the customer has downloaded
    made,           \* pairs ever generated
    page,           \* what the page in a browser is doing
    request,        \* the request it has sent: lives on when the page is gone
                    \* (bound: the server has one of each browser at a time)
    stage,          \* of an order
    release,        \* run_document_release of an order
    file,           \* the key a stored file is encrypted with
    userEncrypted   \* documents.user_encrypted

account  == <<publicKey, backup>>
custody  == <<local, saved, made>>
document == <<stage, release, file, userEncrypted>>
vars     == <<account, custody, page, request, document>>

MaybeKey == Keys \cup {NoKey}
File == {"docx", "pdf"}

Pair == [priv : MaybeKey, pub : MaybeKey]
PairOf(k) == [priv |-> k, pub |-> k]

\* prepare, gate, pay: the way to the payment; setup, store: a new pair on the
\* set-up page or in the profile; recover: half-way through recoverViaPhrase.
Page == [pc : {"idle", "prepare", "gate", "pay", "setup", "store", "recover"},
         key : MaybeKey, order : Orders \cup {NoOrder}, generated : BOOLEAN]
IdlePage == [pc |-> "idle", key |-> NoKey, order |-> NoOrder, generated |-> FALSE]

\* seen: users.public_key as the handler read it, then the key it answers.
Request == [pc : {"none", "register", "registering", "setup", "answered"},
            key : MaybeKey, seen : MaybeKey]
NoRequest == [pc |-> "none", key |-> NoKey, seen |-> NoKey]

\* at: the file encrypted next, or what is left to do.  user: the key that the
\* task loaded with the account.  ok: what _maybe_encrypt_files returns.
Release == [at : {"none", "docx", "pdf", "finalize", "over"},
            user : MaybeKey, ok : BOOLEAN]
NoRelease == [at |-> "none", user |-> NoKey, ok |-> FALSE]

TypeOK ==
    /\ publicKey \in MaybeKey
    /\ backup \in MaybeKey
    /\ local \in [Browsers -> Pair]
    /\ saved \subseteq Keys
    /\ made \subseteq Keys
    /\ page \in [Browsers -> Page]
    /\ request \in [Browsers -> Request]
    /\ stage \in [Orders -> {"offered", "paid", "done"}]
    /\ release \in [Orders -> Release]
    /\ file \in [Orders -> [File -> MaybeKey]]
    /\ userEncrypted \in [Orders -> BOOLEAN]

Init ==
    /\ publicKey = NoKey
    /\ backup = NoKey
    /\ local = [b \in Browsers |-> PairOf(NoKey)]
    /\ saved = {}
    /\ made = {}
    /\ page = [b \in Browsers |-> IdlePage]
    /\ request = [b \in Browsers |-> NoRequest]
    /\ stage = [o \in Orders |-> "offered"]
    /\ release = [o \in Orders |-> NoRelease]
    /\ file = [o \in Orders |-> [f \in File |-> NoKey]]
    /\ userEncrypted = [o \in Orders |-> FALSE]

-----------------------------------------------------------------------------
(* The page of an order: preparePay and doPay.                             *)

HasKeys(b) == local[b].priv # NoKey /\ local[b].pub # NoKey

Goes(b, pc) == page' = [page EXCEPT ![b].pc = pc]
Leaves(b)   == page' = [page EXCEPT ![b] = IdlePage]
Answers(b, k) == request' = [request EXCEPT ![b].pc = "answered", ![b].seen = k]
Answered(b) == request[b].pc = "answered"
Drops(b)    == request' = [request EXCEPT ![b] = NoRequest]

\* ensureKeyPair, then POST .../public-key with its public half.
Asks(b, o, k, generated) ==
    /\ page' = [page EXCEPT ![b] =
                  [pc |-> "prepare", key |-> k, order |-> o, generated |-> generated]]
    /\ request' = [request EXCEPT ![b] = [pc |-> "register", key |-> k, seen |-> NoKey]]

PreparePay(b, o) ==
    /\ page[b].pc = "idle"
    /\ request[b].pc = "none"
    /\ stage[o] = "offered"
    /\ \/ /\ HasKeys(b)
          /\ Asks(b, o, local[b].pub, FALSE)
          /\ UNCHANGED <<local, made>>
       \/ /\ ~HasKeys(b)
          /\ \E k \in Keys \ made :
                /\ local' = [local EXCEPT ![b] = PairOf(k)]
                /\ made' = made \cup {k}
                /\ Asks(b, o, k, TRUE)
    /\ UNCHANGED <<account, saved, document>>

\* Faulty: goes on when the registration failed.
KeyAcceptedUnasked(b) ==
    /\ page[b].pc = "prepare"
    /\ Goes(b, IF page[b].generated THEN "gate" ELSE "pay")
    /\ Drops(b)
    /\ UNCHANGED <<account, custody, document>>

\* The answer names this key, or cannot be read: then it names none, whatever key
\* the account has.  A pair that was just generated has to be saved first,
\* another one pays at once.
KeyAccepted(b) ==
    /\ page[b].pc = "prepare"
    /\ Answered(b)
    /\ Goes(b, IF page[b].generated THEN "gate" ELSE "pay")
    /\ Drops(b)
    /\ UNCHANGED <<account, custody, document>>

\* The account has another key: "recover access by key file first".
KeyRefused(b) ==
    /\ page[b].pc = "prepare"
    /\ Answered(b)
    /\ request[b].seen # page[b].key
    /\ Leaves(b)
    /\ Drops(b)
    /\ UNCHANGED <<account, custody, document>>

SaveKeyFile(b) ==
    /\ page[b].pc \in {"gate", "setup"}
    /\ saved' = saved \cup {page[b].key}
    /\ IF page[b].pc = "gate" THEN Goes(b, "pay") ELSE page' = page
    /\ UNCHANGED <<account, local, made, request, document>>

\* doPay; the payment itself and its claim are OrderLifecycle's.
Pays(b) ==
    /\ page[b].pc = "pay"
    /\ stage' = [stage EXCEPT ![page[b].order] = IF @ = "offered" THEN "paid" ELSE @]
    /\ Leaves(b)
    /\ UNCHANGED <<account, custody, request, release, file, userEncrypted>>

\* The page is closed or loaded again: only localStorage remains, and what the
\* server is still doing.
Reload(b) ==
    /\ page[b].pc # "idle"
    /\ Leaves(b)
    /\ UNCHANGED <<account, custody, request, document>>

\* The request or its answer is lost, or nobody waits for the answer.  The page
\* shows an error; a new pair is still there to "try again" with.
RequestEnds(b) ==
    /\ request[b].pc # "none"
    /\ Drops(b)
    /\ CASE page[b].pc = "prepare" -> Leaves(b)
         [] page[b].pc = "store"   -> Goes(b, "setup")
         [] OTHER                  -> page' = page
    /\ UNCHANGED <<account, custody, document>>

-----------------------------------------------------------------------------
(* The server's handlers.                                                  *)

\* register_order_public_key reads the account without a lock ...
RegisterLoads(b) ==
    /\ request[b].pc = "register"
    /\ request' = [request EXCEPT ![b].pc = "registering", ![b].seen = publicKey]
    /\ UNCHANGED <<account, custody, page, document>>

\* ... and, if it had no key, writes this one and answers with it.
RegisterSets(b) ==
    /\ request[b].pc = "registering"
    /\ IF request[b].seen = NoKey
       THEN publicKey' = request[b].key /\ Answers(b, request[b].key)
       ELSE publicKey' = publicKey /\ Answers(b, request[b].seen)
    /\ UNCHANGED <<backup, custody, page, document>>

\* Faulty: forgets the backup.
SetupSetsKeyOnly(b) ==
    /\ request[b].pc = "setup"
    /\ publicKey' = request[b].key
    /\ Answers(b, request[b].key)
    /\ UNCHANGED <<backup, custody, page, document>>

\* setup_e2ee replaces the key and its backup together.
SetupSets(b) ==
    /\ request[b].pc = "setup"
    /\ publicKey' = request[b].key
    /\ backup' = request[b].key
    /\ Answers(b, request[b].key)
    /\ UNCHANGED <<custody, page, document>>

-----------------------------------------------------------------------------
(* A new pair: the set-up page a magic link leads to, and the profile.     *)

\* The profile replaces a pair, the set-up page makes one where there is none:
\* the pair stays in the page until the server has taken it.
NewPair(b) ==
    /\ page[b].pc = "idle"
    /\ \E k \in Keys \ made :
          /\ made' = made \cup {k}
          /\ page' = [page EXCEPT ![b] = [IdlePage EXCEPT !.pc = "setup", !.key = k]]
    /\ UNCHANGED <<account, local, saved, request, document>>

SendSetup(b) ==
    /\ page[b].pc = "setup"
    /\ request[b].pc = "none"
    /\ request' = [request EXCEPT ![b] =
                     [pc |-> "setup", key |-> page[b].key, seen |-> NoKey]]
    /\ Goes(b, "store")
    /\ UNCHANGED <<account, custody, document>>

StorePair(b) ==
    /\ page[b].pc = "store"
    /\ Answered(b)
    /\ local' = [local EXCEPT ![b] = PairOf(page[b].key)]
    /\ Leaves(b)
    /\ Drops(b)
    /\ UNCHANGED <<account, saved, made, document>>

-----------------------------------------------------------------------------
(* Getting a key back: recoverViaKeyFile, loginViaKeyFile, recoverViaPhrase. *)

UseKeyFile(b, k) ==
    /\ page[b].pc = "idle"
    /\ k \in saved
    /\ publicKey = k
    /\ local' = [local EXCEPT ![b] = PairOf(k)]
    /\ UNCHANGED <<account, saved, made, page, request, document>>

\* The private half comes from the backup and is stored at once; the public
\* half is what /user/me says in a second request, which may fail (Reload).
RecoverPrivate(b) ==
    /\ page[b].pc = "idle"
    /\ backup # NoKey
    /\ local' = [local EXCEPT ![b].priv = backup]
    /\ Goes(b, "recover")
    /\ UNCHANGED <<account, saved, made, request, document>>

RecoverPublic(b) ==
    /\ page[b].pc = "recover"
    /\ publicKey # NoKey
    /\ local' = [local EXCEPT ![b].pub = publicKey]
    /\ Leaves(b)
    /\ UNCHANGED <<account, saved, made, request, document>>

-----------------------------------------------------------------------------
(* The release of a paid order: _maybe_encrypt_files, _finalize_release.   *)

\* The task loads the account, once for both files.
ReleaseBegins(o) ==
    /\ stage[o] = "paid"
    /\ release[o].at = "none"
    /\ release' = [release EXCEPT ![o] =
          [at |-> IF publicKey = NoKey THEN "finalize" ELSE "docx",
           user |-> publicKey, ok |-> FALSE]]
    /\ UNCHANGED <<account, custody, page, request, stage, file, userEncrypted>>

\* Faulty: reads the account again for every file.
EncryptFileAnew(o, f) ==
    /\ release[o].at = f
    /\ file' = [file EXCEPT ![o][f] = publicKey]
    /\ release' = [release EXCEPT ![o].at = IF f = "docx" THEN "pdf" ELSE "finalize",
                                  ![o].ok = (f = "pdf")]
    /\ UNCHANGED <<account, custody, page, request, stage, userEncrypted>>

EncryptFile(o, f) ==
    /\ release[o].at = f
    /\ file' = [file EXCEPT ![o][f] = release[o].user]
    /\ release' = [release EXCEPT ![o].at = IF f = "docx" THEN "pdf" ELSE "finalize",
                                  ![o].ok = (f = "pdf")]
    /\ UNCHANGED <<account, custody, page, request, stage, userEncrypted>>

\* Download, encryption or upload of a file raised, perhaps after the upload
\* took effect; a file encrypted before stays as it is.
EncryptFails(o, f) ==
    /\ release[o].at = f
    /\ \E k \in {file[o][f], release[o].user} : file' = [file EXCEPT ![o][f] = k]
    /\ release' = [release EXCEPT ![o].at = "finalize"]
    /\ UNCHANGED <<account, custody, page, request, stage, userEncrypted>>

\* Faulty: an account with a key means an encrypted document.
FinalizeByAccount(o) ==
    /\ release[o].at = "finalize"
    /\ userEncrypted' = [userEncrypted EXCEPT ![o] = publicKey # NoKey]
    /\ stage' = [stage EXCEPT ![o] = "done"]
    /\ release' = [release EXCEPT ![o] = [NoRelease EXCEPT !.at = "over"]]
    /\ UNCHANGED <<account, custody, page, request, file>>

Finalize(o) ==
    /\ release[o].at = "finalize"
    /\ userEncrypted' = [userEncrypted EXCEPT ![o] = release[o].ok]
    /\ stage' = [stage EXCEPT ![o] = "done"]
    /\ release' = [release EXCEPT ![o] = [NoRelease EXCEPT !.at = "over"]]
    /\ UNCHANGED <<account, custody, page, request, file>>

\* The worker restarts or the last commit raises: the order stays paid.
ReleaseDies(o) ==
    /\ release[o].at \in File \cup {"finalize"}
    /\ release' = [release EXCEPT ![o] = [NoRelease EXCEPT !.at = "over"]]
    /\ UNCHANGED <<account, custody, page, request, stage, file, userEncrypted>>

-----------------------------------------------------------------------------
PageStep(b) ==
    \/ \E o \in Orders : PreparePay(b, o)
    \/ KeyAccepted(b) \/ KeyRefused(b) \/ SaveKeyFile(b) \/ Pays(b)
    \/ Reload(b) \/ RequestEnds(b)
    \/ NewPair(b) \/ SendSetup(b) \/ StorePair(b)
    \/ \E k \in Keys : UseKeyFile(b, k)
    \/ RecoverPrivate(b) \/ RecoverPublic(b)

ServerStep(b) == RegisterLoads(b) \/ RegisterSets(b) \/ SetupSets(b)

ReleaseStep(o) ==
    \/ ReleaseBegins(o)
    \/ \E f \in File : EncryptFile(o, f) \/ EncryptFails(o, f)
    \/ Finalize(o)
    \/ ReleaseDies(o)

Next ==
    \/ \E b \in Browsers : PageStep(b) \/ ServerStep(b)
    \/ \E o \in Orders : ReleaseStep(o)

Spec == Init /\ [][Next]_vars

=============================================================================
