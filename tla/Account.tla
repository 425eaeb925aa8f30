------------------------------ MODULE Account ------------------------------
(***************************************************************************)
(* The doors to an account and to its keys: the magic link, the key file,  *)
(* the phrase, the account's password with the keyring it unlocks          *)
(* (e2ee-login.ts, e2ee-recovery.ts, e2ee-password.ts and auth_service.py),*)
(* the replacement of the key pair and the erasure of the account          *)
(* (profile-form.tsx, users.py).                                           *)
(*                                                                         *)
(* One account and one browser; the Other... actions are the customer's    *)
(* second browser, whose requests are served at once.  A key stands for    *)
(* its pair, and the customer keeps a key file of every pair.  Bounds: the *)
(* pairs of Keys, and one request of the browser at a time; it outlives    *)
(* the page that sent it.  How the first key is registered is DocumentKeys'.*)
(***************************************************************************)
EXTENDS Naturals

CONSTANTS Keys, Passwords, None

ASSUME AccountAssumption == None \notin Keys \cup Passwords

VARIABLES
    alive,          \* the row of the account is there
    user,           \* users: public_key, private_key_backup, password_hash, magic_token
    ring,           \* user_keys: what the entry of a public key wraps, under which password
    made,           \* pairs that exist
    session,        \* the access_token cookie is there
    local,          \* localStorage
    fresh,          \* the new pair a page holds until the server has taken it
    ask,            \* the request under way
    toldGone        \* the page went home after "delete my account"

server  == <<alive, user, ring>>
browser == <<session, local, fresh, toldGone>>
vars    == <<server, made, browser, ask>>

MaybeKey      == Keys \cup {None}
MaybePassword == Passwords \cup {None}

Wrap     == [holds : MaybeKey, under : MaybePassword]
NoWrap   == [holds |-> None, under |-> None]
PairOf(k) == [priv |-> k, pub |-> k]

Asks   == {"none", "verify", "login", "keylogin", "mine", "phrase", "half",
           "setpw", "import", "setup", "erase"}
Stages == {"no", "sent", "challenged", "loaded", "ok", "refused"}

TypeOK ==
    /\ alive \in BOOLEAN
    /\ user \in [key : MaybeKey, backup : MaybeKey, password : MaybePassword, link : BOOLEAN]
    /\ ring \in [Keys -> Wrap]
    /\ made \subseteq Keys
    /\ session \in BOOLEAN
    /\ local \in [priv : MaybeKey, pub : MaybeKey]
    /\ fresh \in MaybeKey
    /\ ask \in [what : Asks, at : Stages, pub : MaybeKey, priv : MaybeKey,
                pw : MaybePassword, heard : BOOLEAN]
    /\ toldGone \in BOOLEAN

NoAsk  == [what |-> "none", at |-> "no", pub |-> None, priv |-> None,
           pw |-> None, heard |-> FALSE]
Nobody == [key |-> None, backup |-> None, password |-> None, link |-> FALSE]

\* init_order made the account of a guest.
Init ==
    /\ alive = TRUE
    /\ user = Nobody
    /\ ring = [k \in Keys |-> NoWrap]
    /\ made = {}
    /\ session = FALSE
    /\ local = PairOf(None)
    /\ fresh = None
    /\ ask = NoAsk
    /\ toldGone = FALSE

-----------------------------------------------------------------------------
(* The browser.                                                            *)

HasKeys == local.priv # None /\ local.pub # None

Sends(what, pair, pw) ==
    /\ ask.at = "no"
    /\ ask' = [what |-> what, at |-> "sent", pub |-> pair.pub, priv |-> pair.priv,
               pw |-> pw, heard |-> TRUE]
    /\ UNCHANGED <<server, made, browser>>

\* The buttons of the pages that need an account are only behind a session.
OpenLink          == Sends("verify", PairOf(None), None)
LoginByPassword(p) == Sends("login", PairOf(None), p)
LoginByKey(k)     == k \in made /\ Sends("keylogin", PairOf(k), None)
UseKeyFile(k)     == k \in made /\ Sends("mine", PairOf(k), None)
UsePhrase         == Sends("phrase", PairOf(None), None)
SetPassword(p)    == session /\ HasKeys /\ Sends("setpw", local, p)
ImportKey(k, p)   == session /\ k \in made /\ Sends("import", PairOf(k), p)
SaveFresh         == fresh # None /\ Sends("setup", PairOf(fresh), None)
DeleteAccount     == session /\ Sends("erase", PairOf(None), None)

\* The set-up page where there is no pair, the profile after a warning.
NewPair ==
    /\ session /\ fresh = None
    /\ ask.heard = FALSE
    /\ \E k \in Keys \ made : made' = made \cup {k} /\ fresh' = k
    /\ UNCHANGED <<server, session, local, toldGone, ask>>

\* ensureKeyPair and the registration of the account's first key.
PreparePay ==
    /\ alive
    /\ IF HasKeys
       THEN UNCHANGED <<made, local>>
       ELSE \E k \in Keys \ made : made' = made \cup {k} /\ local' = PairOf(k)
    /\ user' = [user EXCEPT !.key = IF @ = None THEN local'.pub ELSE @]
    /\ UNCHANGED <<alive, ring, session, fresh, ask, toldGone>>

\* The page is closed or loaded again.
Reload ==
    /\ ask.heard \/ fresh # None
    /\ fresh' = None
    /\ ask' = [ask EXCEPT !.heard = FALSE]
    /\ UNCHANGED <<server, made, session, local, toldGone>>

\* The token expires, or the customer logs out.
SessionEnds ==
    /\ session
    /\ session' = FALSE
    /\ UNCHANGED <<server, made, local, fresh, ask, toldGone>>

\* Another device, or the browser's data is cleared.
NewDevice ==
    /\ local' = PairOf(None)
    /\ session' = FALSE
    /\ fresh' = None
    /\ ask' = [ask EXCEPT !.heard = FALSE]
    /\ UNCHANGED <<server, made, toldGone>>

-----------------------------------------------------------------------------
(* The server's handlers.                                                  *)

Served   == ask' = [ask EXCEPT !.at = "ok"]
SignedIn == alive /\ session
Asked(what) == ask.what = what /\ ask.at = "sent"
Wraps(pub, priv, pw) == ring' = [ring EXCEPT ![pub] = [holds |-> priv, under |-> pw]]

\* request_magic_link: the newest link is the only one.
AskLink ==
    /\ alive
    /\ user' = [user EXCEPT !.link = TRUE]
    /\ UNCHANGED <<alive, ring, made, browser, ask>>

\* verify_magic_link burns the token.
ServeVerify ==
    /\ Asked("verify")
    /\ alive /\ user.link
    /\ user' = [user EXCEPT !.link = FALSE]
    /\ Served
    /\ UNCHANGED <<alive, ring, made, browser>>

\* The pairs that a password takes out of the keyring: the blob opens, and its
\* private key is the one of the entry's public key.
Opening(p) == {k \in Keys : ring[k] = [holds |-> k, under |-> p]}

\* Faulty: does not compare the two halves.
ServeLoginUnmatched ==
    /\ Asked("login")
    /\ alive /\ user.password = ask.pw
    /\ \/ \E k \in Keys : ring[k].under = ask.pw /\ ring[k].holds # None
             /\ ask' = [ask EXCEPT !.at = "ok", !.pub = k, !.priv = ring[k].holds]
       \/ (\A k \in Keys : ring[k].under # ask.pw) /\ Served
    /\ UNCHANGED <<server, made, browser>>

\* The whole keyring is the answer, in no order; the page takes the first pair
\* that opens, if there is one.
ServeLogin ==
    /\ Asked("login")
    /\ alive /\ user.password = ask.pw
    /\ \/ \E k \in Opening(ask.pw) :
             ask' = [ask EXCEPT !.at = "ok", !.pub = k, !.priv = k]
       \/ Opening(ask.pw) = {} /\ Served
    /\ UNCHANGED <<server, made, browser>>

\* A challenge is given to anybody, for any key ...
ServeChallenge ==
    /\ Asked("keylogin")
    /\ ask' = [ask EXCEPT !.at = "challenged"]
    /\ UNCHANGED <<server, made, browser>>

\* ... its solution is only good for the account's present key.
ServeKeyLogin ==
    /\ ask.what = "keylogin" /\ ask.at = "challenged"
    /\ alive /\ user.key = ask.pub
    /\ Served
    /\ UNCHANGED <<server, made, browser>>

\* GET users/me answers with the account's public key.
ServeMe ==
    /\ Asked("mine") \/ Asked("half")
    /\ SignedIn /\ user.key # None
    /\ ask' = [ask EXCEPT !.at = "ok", !.pub = user.key]
    /\ UNCHANGED <<server, made, browser>>

\* recover_access needs no session.
ServePhrase ==
    /\ Asked("phrase")
    /\ alive /\ user.backup # None
    /\ ask' = [ask EXCEPT !.at = "ok", !.priv = user.backup]
    /\ UNCHANGED <<server, made, browser>>

\* get_current_user, for the two handlers that write what they are sent.
LoadUser ==
    /\ Asked("setpw") \/ Asked("setup")
    /\ SignedIn
    /\ ask' = [ask EXCEPT !.at = "loaded"]
    /\ UNCHANGED <<server, made, browser>>

Loaded(what) == ask.what = what /\ ask.at = "loaded"

\* Faulty: leaves an entry that is there as it is.
ServeSetPasswordOnce ==
    /\ Loaded("setpw")
    /\ alive
    /\ user' = [user EXCEPT !.password = ask.pw]
    /\ IF ring[ask.pub] = NoWrap THEN Wraps(ask.pub, ask.priv, ask.pw) ELSE ring' = ring
    /\ Served
    /\ UNCHANGED <<alive, made, browser>>

\* Faulty: stores the password and the entry of a user that is gone.
ServeSetPasswordOfNobody ==
    /\ Loaded("setpw")
    /\ user' = [user EXCEPT !.password = ask.pw]
    /\ Wraps(ask.pub, ask.priv, ask.pw)
    /\ Served
    /\ UNCHANGED <<alive, made, browser>>

\* The present pair is wrapped anew, the other entries stay as they are.  A row
\* that is gone by then fails the commit.
ServeSetPassword ==
    /\ Loaded("setpw")
    /\ alive
    /\ user' = [user EXCEPT !.password = ask.pw]
    /\ Wraps(ask.pub, ask.priv, ask.pw)
    /\ Served
    /\ UNCHANGED <<alive, made, browser>>

\* import_keys compares with the hash it loaded with the request ...
CheckImport ==
    /\ Asked("import")
    /\ SignedIn /\ user.password = ask.pw
    /\ ask' = [ask EXCEPT !.at = "loaded"]
    /\ UNCHANGED <<server, made, browser>>

\* ... and stores, whatever the password is by then; an entry needs its user.
CommitImport ==
    /\ Loaded("import")
    /\ alive
    /\ Wraps(ask.pub, ask.priv, ask.pw)
    /\ Served
    /\ UNCHANGED <<alive, user, made, browser>>

ServeSetup ==
    /\ Loaded("setup")
    /\ alive
    /\ user' = [user EXCEPT !.key = ask.pub, !.backup = ask.pub]
    /\ Served
    /\ UNCHANGED <<alive, ring, made, browser>>

\* One transaction; an entry of the keyring still refers to the user, and the
\* database refuses.
Erasable == alive /\ \A k \in Keys : ring[k] = NoWrap
Erases   == alive' = FALSE /\ user' = Nobody

ServeErase ==
    /\ Asked("erase")
    /\ session /\ Erasable
    /\ Erases
    /\ Served
    /\ UNCHANGED <<ring, made, browser>>

\* The page's server makes a 204 of whatever it is answered (bound: of the
\* refusals it may hear only the database's, and that of an account long gone).
AnswerGone ==
    /\ Asked("erase")
    /\ session /\ ~Erasable
    /\ Served
    /\ UNCHANGED <<server, made, browser>>

\* No session, a wrong password or key, a failure, or a lost answer.
Refuse ==
    /\ ask.at \in {"sent", "challenged", "loaded", "ok"}
    /\ ask' = [ask EXCEPT !.at = "refused"]
    /\ UNCHANGED <<server, made, browser>>

-----------------------------------------------------------------------------
(* The page takes the answer.                                              *)

Takes(what) == ask.what = what /\ ask.at = "ok" /\ ask.heard
Done        == ask' = NoAsk
Stores(pair) == local' = pair

TakeVerify ==
    /\ Takes("verify")
    /\ session' = TRUE
    /\ Done
    /\ UNCHANGED <<server, made, local, fresh, toldGone>>

\* Without an entry that opens, the browser keeps what it had.
TakeLogin ==
    /\ Takes("login")
    /\ session' = TRUE
    /\ Stores(IF ask.pub = None THEN local ELSE [priv |-> ask.priv, pub |-> ask.pub])
    /\ Done
    /\ UNCHANGED <<server, made, fresh, toldGone>>

TakeKeyLogin ==
    /\ Takes("keylogin")
    /\ session' = TRUE
    /\ Stores([priv |-> ask.priv, pub |-> ask.pub])
    /\ Done
    /\ UNCHANGED <<server, made, fresh, toldGone>>

\* Faulty: does not ask whose file it is.
TakeMineUnchecked ==
    /\ Takes("mine")
    /\ Stores([priv |-> ask.priv, pub |-> ask.pub])
    /\ Done
    /\ UNCHANGED <<server, made, session, fresh, toldGone>>

\* The file has to be the account's.
TakeMine ==
    /\ Takes("mine")
    /\ Stores(IF ask.pub = ask.priv THEN PairOf(ask.pub) ELSE local)
    /\ Done
    /\ UNCHANGED <<server, made, session, fresh, toldGone>>

\* The private half is stored before the other one is asked for.
TakePhrase ==
    /\ Takes("phrase")
    /\ Stores([local EXCEPT !.priv = ask.priv])
    /\ ask' = [NoAsk EXCEPT !.what = "half", !.at = "sent", !.heard = TRUE]
    /\ UNCHANGED <<server, made, session, fresh, toldGone>>

TakeHalf ==
    /\ Takes("half")
    /\ Stores([local EXCEPT !.pub = ask.pub])
    /\ Done
    /\ UNCHANGED <<server, made, session, fresh, toldGone>>

TakeSetup ==
    /\ Takes("setup")
    /\ Stores(PairOf(ask.pub))
    /\ fresh' = None
    /\ Done
    /\ UNCHANGED <<server, made, session, toldGone>>

\* "Saved", "imported": nothing else changes in the browser.
TakeSaved ==
    /\ Takes("setpw") \/ Takes("import")
    /\ Done
    /\ UNCHANGED <<server, made, browser>>

TakeGone ==
    /\ Takes("erase")
    /\ toldGone' = TRUE
    /\ session' = FALSE
    /\ Done
    /\ UNCHANGED <<server, made, local, fresh>>

\* An error is shown; or nobody is there any more.
TakeNothing ==
    /\ ask.at = "refused" \/ (ask.at = "ok" /\ ~ask.heard)
    /\ Done
    /\ UNCHANGED <<server, made, browser>>

-----------------------------------------------------------------------------
(* The customer's other browser.                                           *)

OtherSetsPassword(k, p) ==
    /\ alive
    /\ k \in made
    /\ user' = [user EXCEPT !.password = p]
    /\ Wraps(k, k, p)
    /\ UNCHANGED <<alive, made, browser, ask>>

OtherRotates ==
    /\ alive
    /\ \E k \in Keys \ made :
          /\ made' = made \cup {k}
          /\ user' = [user EXCEPT !.key = k, !.backup = k]
    /\ UNCHANGED <<alive, ring, browser, ask>>

OtherErases ==
    /\ Erasable
    /\ Erases
    /\ UNCHANGED <<ring, made, browser, ask>>

-----------------------------------------------------------------------------
Forms ==
    \/ OpenLink \/ UsePhrase \/ SaveFresh \/ DeleteAccount
    \/ \E k \in Keys : LoginByKey(k) \/ UseKeyFile(k)
    \/ \E p \in Passwords :
          \/ LoginByPassword(p) \/ SetPassword(p)
          \/ \E k \in Keys : ImportKey(k, p)

Handlers ==
    \/ ServeVerify \/ ServeLogin \/ ServeChallenge \/ ServeKeyLogin \/ ServeMe
    \/ ServePhrase \/ LoadUser \/ ServeSetPassword \/ CheckImport \/ CommitImport \/ ServeSetup
    \/ ServeErase \/ AnswerGone \/ Refuse

Answers ==
    \/ TakeVerify \/ TakeLogin \/ TakeKeyLogin \/ TakeMine \/ TakePhrase \/ TakeHalf
    \/ TakeSetup \/ TakeSaved \/ TakeGone \/ TakeNothing

Others ==
    \/ \E k \in Keys, p \in Passwords : OtherSetsPassword(k, p)
    \/ OtherRotates \/ OtherErases

Next ==
    \/ Forms \/ Handlers \/ Answers \/ Others
    \/ NewPair \/ PreparePay \/ Reload \/ SessionEnds \/ NewDevice \/ AskLink

Spec == Init /\ [][Next]_vars

=============================================================================
