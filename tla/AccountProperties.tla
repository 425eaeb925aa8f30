-------------------------- MODULE AccountProperties --------------------------
(***************************************************************************)
(* What the doors of an account owe to its keys.                           *)
(***************************************************************************)
EXTENDS Account

\* The password gets somebody in: an entry of the keyring opens under it.
DoorOpens == user.password = None \/ Opening(user.password) # {}

\* A door that opens stays one that opens, whatever is rotated, imported or set
\* anew, from whichever browser.  Two things shut it: an import that was checked
\* against an earlier password (auth_service.py:425-433), and a password set from
\* halves of two pairs, which nothing compares (e2ee-password.ts:16-31).
Overtaken == Loaded("import") /\ ask.pw # user.password
WrapsTorn == ask.what = "setpw" /\ ask.priv # ask.pub
DoorStays == [][DoorOpens => DoorOpens' \/ Overtaken \/ WrapsTorn]_vars

\* The two halves in the browser belong together, and no way in tears them
\* apart but the phrase, which writes one after the other (e2ee-recovery.ts:67-73):
\* not a keyring with a wrong entry in it, nor another account's key file, nor a
\* key replaced meanwhile.
Whole      == local.priv = local.pub
HalvesStay == [][Whole => Whole' \/ ask.what \in {"phrase", "half"}]_vars

\* An erased account leaves nothing: no request that was under way when it went
\* puts a key, a backup, a password or a keyring entry back (users.py:132-148).
ErasedIsEmpty == ~alive => user = Nobody /\ \A k \in Keys : ring[k] = NoWrap

\* Who is told that the account is gone has no account (profile-form.tsx:66-71).
GoneIsGone == toldGone => ~alive

\* "One password opens the whole keyring" (user_key.py:15).
OnePassword ==
    \A k \in Keys : ring[k] # NoWrap => ring[k].under = user.password

\* The inductive invariant: requests that store a pair carry both its halves.
PairsFit ==
    /\ ask.what \in {"keylogin", "import", "setup"} => ask.pub = ask.priv
    /\ ask.what \in {"keylogin", "import", "setup"} => ask.pub \in Keys
    /\ ask.what = "login" => ask.pub = ask.priv
    /\ ask.what = "mine" => ask.priv \in made
    /\ ask.what = "setpw" => ask.pub \in Keys /\ ask.priv \in Keys
    /\ ask.what \in {"login", "setpw", "import"} => ask.pw \in Passwords
    /\ ask.heard => ask.at # "no"
    /\ ask.at = "challenged" => ask.what = "keylogin"
    /\ ask.at = "loaded" => ask.what \in {"setpw", "import", "setup"}

\* Every key that is anywhere belongs to a pair that was made.
KeysAreMade ==
    /\ {user.key, user.backup, local.priv, local.pub, fresh, ask.pub, ask.priv}
           \subseteq made \cup {None}
    /\ \A k \in Keys : ring[k] # NoWrap => k \in made /\ ring[k].holds \in made

AccountInv == TypeOK /\ PairsFit /\ KeysAreMade /\ ErasedIsEmpty

=============================================================================
