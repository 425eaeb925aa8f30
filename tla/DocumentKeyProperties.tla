------------------------ MODULE DocumentKeyProperties ------------------------
(* What the customer and the code expect of the key that encrypts documents. *)
EXTENDS DocumentKeys

\* A document that is delivered as encrypted opens with one key, both files of
\* it: the release keeps the key it loaded, although the profile may replace
\* the account's key between the two uploads (_maybe_encrypt_files).
OneKeyPerDocument ==
    \A o \in Orders : userEncrypted[o] =>
        file[o]["docx"] # NoKey /\ file[o]["pdf"] = file[o]["docx"]

\* Nobody who pays on the page of an order gets there before the account has a
\* key, whatever requests and answers are lost: the release of a paid order
\* never finds an account without a key (preparePay).
PaidHasKey ==
    \A o \in Orders : stage[o] # "offered" => publicKey # NoKey

\* The key new documents are encrypted with can be had again: some browser
\* keeps the private half, or a key file does, or the backup that a phrase
\* opens.  True of a customer with one browser (see README for two).
Held == {local[b].priv : b \in Browsers} \cup saved \cup {backup}
RegisteredIsHeld == publicKey # NoKey => publicKey \in Held

\* register_order_public_key sets the key only if there is none: to overwrite
\* one would orphan the documents it encrypted.  (setup_e2ee is the step that
\* changes the backup as well.)
RegistersOnlyWhenEmpty ==
    [][publicKey' # publicKey /\ backup' = backup => publicKey = NoKey]_vars

\* When encryption fails the files are left as they were: a document that is
\* not delivered as encrypted can be opened as it is.
PlainWhenNotEncrypted ==
    \A o \in Orders : stage[o] = "done" /\ ~userEncrypted[o] =>
        \A f \in File : file[o][f] = NoKey

\* The inductive invariant.  A page on its way to the payment and a request
\* that was answered know that the account has a key.
PageInv ==
    \A b \in Browsers :
        /\ page[b].pc \in {"prepare", "gate", "pay", "setup", "store"} => page[b].key # NoKey
        /\ page[b].pc \in {"gate", "pay"} => publicKey # NoKey

RequestInv ==
    \A b \in Browsers :
        /\ request[b].pc \in {"register", "registering", "setup"} => request[b].key # NoKey
        /\ request[b].pc \in {"registering", "answered"} /\ request[b].seen # NoKey
              => publicKey # NoKey
        /\ request[b].pc = "answered" => request[b].seen # NoKey

\* Whatever the account does meanwhile, a release holds on to the key it loaded.
ReleaseInv ==
    \A o \in Orders :
        /\ release[o].at # "none" => stage[o] # "offered"
        /\ release[o].at \in File => release[o].user # NoKey
        /\ release[o].at = "pdf" => file[o]["docx"] = release[o].user
        /\ release[o].ok => /\ release[o].at = "finalize"
                           /\ release[o].user # NoKey
                           /\ file[o]["docx"] = release[o].user
                           /\ file[o]["pdf"] = file[o]["docx"]
        /\ userEncrypted[o] => release[o].at = "over"
        /\ release[o].at \notin {"none", "over"} => stage[o] = "paid"

KeyInv == TypeOK /\ PageInv /\ RequestInv /\ ReleaseInv /\ OneKeyPerDocument /\ PaidHasKey

\* Refinement: KeyPromise, read off the account, the releases and the files.
SaleOf(o) ==
    IF stage[o] = "offered" THEN "offered"
    ELSE CASE release[o].at = "none" -> "sold"
           [] release[o].at = "over" -> IF stage[o] = "done" THEN "delivered" ELSE "stuck"
           [] OTHER                  -> "releasing"

Sale   == [o \in Orders |-> SaleOf(o)]
Chosen == [o \in Orders |-> release[o].user]
Sealed == [o \in Orders |->
              [f \in File |-> IF userEncrypted[o] THEN file[o][f] ELSE NoKey]]

Promise == INSTANCE KeyPromise WITH
    key <- publicKey, sale <- Sale, chosen <- Chosen, sealed <- Sealed

\* Every step of pages, handlers and releases is a step of the promise or none: no
\* key that arrives late gets into a document that is being released, and no
\* rotation, registration or recovery touches a delivered one.
KeepsKeyPromise == Promise!Spec

\* With one browser, a key without a backup is still where it was made or in a
\* key file: no other request can put a key in between.
CustodyInv ==
    \A b \in Browsers :
        /\ backup # NoKey => publicKey = backup
        /\ backup = NoKey => local[b].priv = local[b].pub
        /\ page[b].pc = "recover" => backup # NoKey
        /\ request[b].pc = "registering" /\ request[b].seen = NoKey => publicKey = NoKey
        /\ request[b].pc \in {"register", "registering"} /\ publicKey = NoKey
              => local[b].priv = request[b].key
        /\ page[b].pc = "store" => \/ request[b].pc = "setup"
                                  \/ (request[b].pc = "answered" /\ backup # NoKey)

=============================================================================
