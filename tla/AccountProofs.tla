---------------------------- MODULE AccountProofs ----------------------------
(***************************************************************************)
(* The doors of an account, for any number of pairs and passwords: what an *)
(* erased account leaves behind, and which steps can shut the password's   *)
(* door or tear the pair of the browser apart.  The invariant has a part   *)
(* for the server, one for the browser and one for the request; a handler  *)
(* leaves the browser alone and an answer leaves the server alone.         *)
(***************************************************************************)
EXTENDS AccountProperties, TLAPS

\* The account, its keyring and the pairs there are.
ServerInv ==
    /\ alive \in BOOLEAN
    /\ user \in [key : MaybeKey, backup : MaybeKey, password : MaybePassword, link : BOOLEAN]
    /\ ring \in [Keys -> Wrap]
    /\ made \subseteq Keys
    /\ user.key \in made \cup {None} /\ user.backup \in made \cup {None}
    /\ \A k \in Keys : ring[k] # NoWrap => k \in made /\ ring[k].holds \in made
    /\ ErasedIsEmpty

\* The browser, given the pairs there are.
BrowserInv ==
    /\ session \in BOOLEAN
    /\ local \in [priv : MaybeKey, pub : MaybeKey]
    /\ fresh \in MaybeKey
    /\ toldGone \in BOOLEAN
    /\ local.priv \in made \cup {None} /\ local.pub \in made \cup {None}
    /\ fresh \in made \cup {None}

\* The request, given the pairs there are.
AskInv ==
    /\ ask \in [what : Asks, at : Stages, pub : MaybeKey, priv : MaybeKey,
                pw : MaybePassword, heard : BOOLEAN]
    /\ ask.pub \in made \cup {None} /\ ask.priv \in made \cup {None}
    /\ PairsFit

LEMMA Parts == AccountInv <=> ServerInv /\ BrowserInv /\ AskInv
BY DEF AccountInv, TypeOK, KeysAreMade, ServerInv, BrowserInv, AskInv

LEMMA InitAccount == Init => AccountInv
<1> SUFFICES ASSUME Init PROVE ServerInv /\ BrowserInv /\ AskInv
  BY Parts
<1> QED
  BY AccountAssumption
  DEF Init, Nobody, NoWrap, NoAsk, PairOf, ServerInv, BrowserInv, AskInv, PairsFit, ErasedIsEmpty,
      MaybeKey, MaybePassword, Wrap, Asks, Stages

-----------------------------------------------------------------------------
(* One lemma for the steps of each actor.                                  *)

\* A form only begins a request, with pairs that the browser or a file has.
LEMMA FormSteps ==
    ASSUME BrowserInv, AskInv, made \subseteq Keys, Forms
    PROVE  AskInv' /\ UNCHANGED <<server, made, browser>>
<1> USE AccountAssumption
    DEF AskInv, PairsFit, Sends, PairOf, MaybeKey, MaybePassword, Asks, Stages
<1>1. CASE OpenLink
  BY <1>1 DEF OpenLink
<1>2. CASE UsePhrase
  BY <1>2 DEF UsePhrase
<1>3. CASE SaveFresh
  BY <1>3 DEF SaveFresh, BrowserInv
<1>4. CASE DeleteAccount
  BY <1>4 DEF DeleteAccount
<1>5. ASSUME NEW k \in Keys, LoginByKey(k) \/ UseKeyFile(k)
      PROVE  AskInv' /\ UNCHANGED <<server, made, browser>>
  <2>1. CASE LoginByKey(k)
    BY <2>1 DEF LoginByKey
  <2>2. CASE UseKeyFile(k)
    BY <2>2 DEF UseKeyFile
  <2> QED
    BY <1>5, <2>1, <2>2
<1>6. ASSUME NEW p \in Passwords, LoginByPassword(p)
      PROVE  AskInv' /\ UNCHANGED <<server, made, browser>>
  BY <1>6 DEF LoginByPassword
<1>7. ASSUME NEW p \in Passwords, SetPassword(p)
      PROVE  AskInv' /\ UNCHANGED <<server, made, browser>>
  BY <1>7 DEF SetPassword, HasKeys, BrowserInv
<1>8. ASSUME NEW p \in Passwords, NEW k \in Keys, ImportKey(k, p)
      PROVE  AskInv' /\ UNCHANGED <<server, made, browser>>
  BY <1>8 DEF ImportKey
<1> QED
  BY <1>1, <1>2, <1>3, <1>4, <1>5, <1>6, <1>7, <1>8 DEF Forms

\* A handler that only answers.
LEMMA ReadSteps ==
    ASSUME ServerInv, AskInv,
           \/ ServeLogin \/ ServeChallenge \/ ServeKeyLogin \/ ServeMe \/ ServePhrase
           \/ LoadUser \/ CheckImport \/ AnswerGone \/ Refuse
    PROVE  AskInv' /\ UNCHANGED <<server, made, browser>>
<1> USE AccountAssumption
    DEF AskInv, PairsFit, Asked, Served, MaybeKey, MaybePassword, Asks, Stages
<1>1. CASE ServeLogin
  <2>1. ASSUME NEW k \in Opening(ask.pw) PROVE k \in made
    <3>1. ring[k] # NoWrap
      BY <2>1 DEF Opening, NoWrap
    <3> QED
      BY <2>1, <3>1 DEF Opening, ServerInv
  <2>2. ASSUME NEW k \in Opening(ask.pw), ask' = [ask EXCEPT !.at = "ok", !.pub = k, !.priv = k],
               UNCHANGED made
        PROVE  AskInv'
    <3>1. k \in Keys /\ k \in made
      BY <2>1, <2>2 DEF Opening
    <3> QED
      BY <1>1, <2>2, <3>1 DEF ServeLogin
  <2>3. ASSUME Served, UNCHANGED made PROVE AskInv'
    BY <1>1, <2>3 DEF ServeLogin
  <2>4. UNCHANGED <<server, made, browser>>
    BY <1>1 DEF ServeLogin
  <2>5. (\E k \in Opening(ask.pw) : ask' = [ask EXCEPT !.at = "ok", !.pub = k, !.priv = k]) \/ Served
    BY <1>1 DEF ServeLogin
  <2> QED
    BY <2>2, <2>3, <2>4, <2>5
<1>2. CASE ServeChallenge
  BY <1>2 DEF ServeChallenge
<1>3. CASE ServeKeyLogin
  BY <1>3 DEF ServeKeyLogin
<1>4. CASE ServeMe
  BY <1>4 DEF ServeMe, ServerInv
<1>5. CASE ServePhrase
  BY <1>5 DEF ServePhrase, ServerInv
<1>6. CASE LoadUser
  BY <1>6 DEF LoadUser
<1>7. CASE CheckImport
  BY <1>7 DEF CheckImport
<1>8. CASE AnswerGone
  BY <1>8 DEF AnswerGone
<1>9. CASE Refuse
  BY <1>9 DEF Refuse
<1> QED
  BY <1>1, <1>2, <1>3, <1>4, <1>5, <1>6, <1>7, <1>8, <1>9

\* An entry is wrapped for a pair there is: the keyring stays what it was else.
LEMMA WrapsInv ==
    ASSUME ServerInv, alive, alive' = alive, made' = made,
           user' \in [key : MaybeKey, backup : MaybeKey, password : MaybePassword, link : BOOLEAN],
           user'.key = user.key, user'.backup = user.backup,
           NEW pub \in made, NEW priv \in made, NEW pw \in Passwords, Wraps(pub, priv, pw)
    PROVE  ServerInv'
<1>1. ring' \in [Keys -> Wrap]
  BY DEF ServerInv, Wraps, Wrap, MaybeKey, MaybePassword
<1>2. ASSUME NEW k \in Keys, ring'[k] # NoWrap PROVE k \in made /\ ring'[k].holds \in made
  <2>1. CASE k = pub
    BY <2>1 DEF ServerInv, Wraps
  <2>2. CASE k # pub
    BY <1>2, <2>2 DEF ServerInv, Wraps
  <2> QED
    BY <2>1, <2>2
<1> QED
  BY <1>1, <1>2 DEF ServerInv, ErasedIsEmpty

\* A handler that writes.
LEMMA WriteSteps ==
    ASSUME ServerInv, AskInv,
           ServeVerify \/ ServeSetPassword \/ CommitImport \/ ServeSetup \/ ServeErase
    PROVE  ServerInv' /\ AskInv' /\ UNCHANGED <<made, browser>>
<1>1. /\ ask' = [ask EXCEPT !.at = "ok"]
      /\ UNCHANGED <<made, browser>>
  BY DEF ServeVerify, ServeSetPassword, CommitImport, ServeSetup, ServeErase, Served
<1>2. AskInv'
  BY <1>1 DEF AskInv, PairsFit, Stages
<1>3. ASSUME ServeVerify PROVE ServerInv'
  <2>1. /\ UNCHANGED <<alive, ring, made>> /\ alive
        /\ user' = [user EXCEPT !.link = FALSE]
    BY <1>3 DEF ServeVerify
  <2> QED
    BY <2>1 DEF ServerInv, ErasedIsEmpty
<1>4. ASSUME ServeSetPassword PROVE ServerInv'
  <2>1. ask.pub \in made /\ ask.priv \in made /\ ask.pw \in Passwords
    BY <1>4, AccountAssumption DEF ServeSetPassword, Loaded, AskInv, PairsFit
  <2>2. user' \in [key : MaybeKey, backup : MaybeKey, password : MaybePassword, link : BOOLEAN]
        /\ user'.key = user.key /\ user'.backup = user.backup
    BY <1>4, <2>1 DEF ServeSetPassword, ServerInv, MaybePassword
  <2>3. alive /\ alive' = alive /\ made' = made /\ Wraps(ask.pub, ask.priv, ask.pw)
    BY <1>4 DEF ServeSetPassword
  <2> QED
    BY <2>1, <2>2, <2>3, WrapsInv
<1>5. ASSUME CommitImport PROVE ServerInv'
  <2>1. ask.pub \in made /\ ask.priv \in made /\ ask.pw \in Passwords
    BY <1>5, AccountAssumption DEF CommitImport, Loaded, AskInv, PairsFit
  <2>2. user' \in [key : MaybeKey, backup : MaybeKey, password : MaybePassword, link : BOOLEAN]
        /\ user'.key = user.key /\ user'.backup = user.backup
    BY <1>5 DEF CommitImport, ServerInv
  <2>3. alive /\ alive' = alive /\ made' = made /\ Wraps(ask.pub, ask.priv, ask.pw)
    BY <1>5 DEF CommitImport
  <2> QED
    BY <2>1, <2>2, <2>3, WrapsInv
<1>6. ASSUME ServeSetup PROVE ServerInv'
  <2>1. ask.pub \in made
    BY <1>6, AccountAssumption DEF ServeSetup, Loaded, AskInv, PairsFit
  <2>2. /\ UNCHANGED <<alive, ring, made>> /\ alive
        /\ user' = [user EXCEPT !.key = ask.pub, !.backup = ask.pub]
    BY <1>6 DEF ServeSetup
  <2> QED
    BY <2>1, <2>2 DEF ServerInv, ErasedIsEmpty, MaybeKey
<1>7. ASSUME ServeErase PROVE ServerInv'
  <2>1. /\ \A k \in Keys : ring[k] = NoWrap
        /\ UNCHANGED <<ring, made>>
        /\ alive' = FALSE /\ user' = Nobody
    BY <1>7 DEF ServeErase, Erases, Erasable
  <2> QED
    BY <2>1 DEF Nobody, ServerInv, ErasedIsEmpty, MaybeKey, MaybePassword
<1> QED
  BY <1>1, <1>2, <1>3, <1>4, <1>5, <1>6, <1>7

\* The page stores what the answer carries, halves of pairs there are.
LEMMA AnswerSteps ==
    ASSUME BrowserInv, AskInv, made \subseteq Keys, Answers
    PROVE  BrowserInv' /\ AskInv' /\ UNCHANGED <<server, made>>
<1> USE AccountAssumption
    DEF AskInv, PairsFit, BrowserInv, browser, Takes, Done, Stores, NoAsk, PairOf, MaybeKey,
        MaybePassword, Asks, Stages
<1>1. CASE TakeVerify
  BY <1>1 DEF TakeVerify
<1>2. CASE TakeLogin
  BY <1>2 DEF TakeLogin
<1>3. CASE TakeKeyLogin
  BY <1>3 DEF TakeKeyLogin
<1>4. CASE TakeMine
  BY <1>4 DEF TakeMine
<1>5. CASE TakePhrase
  BY <1>5 DEF TakePhrase
<1>6. CASE TakeHalf
  BY <1>6 DEF TakeHalf
<1>7. CASE TakeSetup
  BY <1>7 DEF TakeSetup
<1>8. CASE TakeSaved
  BY <1>8 DEF TakeSaved
<1>9. CASE TakeGone
  BY <1>9 DEF TakeGone
<1>10. CASE TakeNothing
  BY <1>10 DEF TakeNothing
<1> QED
  BY <1>1, <1>2, <1>3, <1>4, <1>5, <1>6, <1>7, <1>8, <1>9, <1>10 DEF Answers

\* More pairs than before do no harm to what the request and the browser hold.
LEMMA MoreMade ==
    ASSUME made \subseteq made', made' \subseteq Keys
    PROVE  /\ AskInv /\ UNCHANGED ask => AskInv'
           /\ BrowserInv /\ UNCHANGED browser => BrowserInv'
BY DEF AskInv, PairsFit, BrowserInv, browser

LEMMA OtherSteps ==
    ASSUME ServerInv, BrowserInv, AskInv, Others
    PROVE  ServerInv' /\ BrowserInv' /\ AskInv'
<1>1. ASSUME NEW k \in Keys, NEW p \in Passwords, OtherSetsPassword(k, p)
      PROVE  ServerInv' /\ BrowserInv' /\ AskInv'
  <2>1. ServerInv'
    BY <1>1, WrapsInv DEF OtherSetsPassword, ServerInv, MaybePassword
  <2> QED
    BY <1>1, <2>1, MoreMade DEF OtherSetsPassword, ServerInv
<1>2. CASE OtherRotates
  <2>1. PICK k \in Keys \ made : made' = made \cup {k}
                                 /\ user' = [user EXCEPT !.key = k, !.backup = k]
    BY <1>2 DEF OtherRotates
  <2>2. ServerInv'
    BY <1>2, <2>1 DEF OtherRotates, ServerInv, ErasedIsEmpty, MaybeKey
  <2> QED
    BY <1>2, <2>1, <2>2, MoreMade DEF OtherRotates, ServerInv
<1>3. CASE OtherErases
  <2>1. ServerInv'
    BY <1>3 DEF OtherErases, Erases, Erasable, Nobody, ServerInv, ErasedIsEmpty, MaybeKey,
       MaybePassword
  <2> QED
    BY <1>3, <2>1, MoreMade DEF OtherErases, ServerInv
<1> QED
  BY <1>1, <1>2, <1>3 DEF Others

\* What the browser does without a request of its own.
LEMMA BrowserSteps ==
    ASSUME ServerInv, BrowserInv, AskInv,
           NewPair \/ PreparePay \/ Reload \/ SessionEnds \/ NewDevice \/ AskLink
    PROVE  ServerInv' /\ BrowserInv' /\ AskInv'
<1>1. CASE NewPair
  <2>1. PICK k \in Keys \ made : made' = made \cup {k} /\ fresh' = k
    BY <1>1 DEF NewPair
  <2>2. ServerInv' /\ BrowserInv'
    BY <1>1, <2>1 DEF NewPair, server, ServerInv, BrowserInv, ErasedIsEmpty, MaybeKey
  <2> QED
    BY <1>1, <2>1, <2>2, MoreMade DEF NewPair, ServerInv
<1>2. CASE PreparePay
  <2>1. /\ made \subseteq made' /\ made' \subseteq Keys
        /\ local' \in [priv : MaybeKey, pub : MaybeKey]
        /\ local'.priv \in made' \cup {None} /\ local'.pub \in made'
    <3>1. CASE HasKeys
      BY <1>2, <3>1 DEF PreparePay, HasKeys, BrowserInv, ServerInv
    <3>2. CASE ~HasKeys
      BY <1>2, <3>2 DEF PreparePay, PairOf, ServerInv, MaybeKey
    <3> QED
      BY <3>1, <3>2
  <2>2. ServerInv'
    BY <1>2, <2>1 DEF PreparePay, ServerInv, ErasedIsEmpty, MaybeKey
  <2>3. BrowserInv'
    BY <1>2, <2>1 DEF PreparePay, BrowserInv, MaybeKey
  <2> QED
    BY <1>2, <2>1, <2>2, <2>3, MoreMade DEF PreparePay
<1>3. CASE Reload
  <2>1. ServerInv' /\ BrowserInv'
    BY <1>3 DEF Reload, server, ServerInv, BrowserInv, ErasedIsEmpty, MaybeKey
  <2> QED
    BY <1>3, <2>1 DEF Reload, AskInv, PairsFit
<1>4. CASE SessionEnds
  <2>1. ServerInv' /\ BrowserInv'
    BY <1>4 DEF SessionEnds, server, ServerInv, BrowserInv, ErasedIsEmpty
  <2> QED
    BY <1>4, <2>1 DEF SessionEnds, AskInv, PairsFit
<1>5. CASE NewDevice
  <2>1. ServerInv' /\ BrowserInv'
    BY <1>5 DEF NewDevice, server, PairOf, ServerInv, BrowserInv, ErasedIsEmpty, MaybeKey
  <2> QED
    BY <1>5, <2>1 DEF NewDevice, AskInv, PairsFit
<1>6. CASE AskLink
  <2>1. ServerInv' /\ BrowserInv'
    BY <1>6 DEF AskLink, browser, ServerInv, BrowserInv, ErasedIsEmpty
  <2> QED
    BY <1>6, <2>1 DEF AskLink, AskInv, PairsFit
<1> QED
  BY <1>1, <1>2, <1>3, <1>4, <1>5, <1>6

LEMMA NextAccount == AccountInv /\ [Next]_vars => AccountInv'
<1> SUFFICES ASSUME AccountInv, [Next]_vars PROVE AccountInv'
  OBVIOUS
<1> ServerInv /\ BrowserInv /\ AskInv
  BY Parts
<1> SUFFICES ServerInv' /\ BrowserInv' /\ AskInv'
  BY DEF AccountInv, TypeOK, KeysAreMade, ServerInv, BrowserInv, AskInv
<1>0. made \subseteq Keys
  BY DEF ServerInv
<1>1. ASSUME UNCHANGED <<server, made>> PROVE ServerInv'
  BY <1>1 DEF server, ServerInv, ErasedIsEmpty
<1>2. ASSUME UNCHANGED <<made, browser>> PROVE BrowserInv'
  BY <1>0, <1>2, MoreMade
<1>3. CASE Forms
  BY <1>0, <1>1, <1>2, <1>3, FormSteps
<1>4. CASE Handlers
  BY <1>1, <1>2, <1>4, ReadSteps, WriteSteps DEF Handlers
<1>5. CASE Answers
  BY <1>0, <1>1, <1>5, AnswerSteps
<1>6. CASE Others
  BY <1>6, OtherSteps
<1>7. CASE NewPair \/ PreparePay \/ Reload \/ SessionEnds \/ NewDevice \/ AskLink
  BY <1>7, BrowserSteps
<1>8. CASE UNCHANGED vars
  BY <1>0, <1>1, <1>2, <1>8, MoreMade DEF vars
<1> QED
  BY <1>3, <1>4, <1>5, <1>6, <1>7, <1>8 DEF Next

-----------------------------------------------------------------------------
\* Types, what a request carries and where keys may come from hold throughout
\* (AccountInv of the account run).
THEOREM AccountSafe == Spec => []AccountInv
BY InitAccount, NextAccount, PTL DEF Spec

\* Nothing is put back into an erased account.
THEOREM ErasedAreEmpty == Spec => []ErasedIsEmpty
<1>1. AccountInv => ErasedIsEmpty
  BY DEF AccountInv
<1> QED
  BY <1>1, AccountSafe, PTL

\* A keyring in which the other entries are kept still opens.
LEMMA WrapsOpens ==
    ASSUME ring \in [Keys -> Wrap], NEW pub \in Keys, NEW priv, NEW pw,
           Wraps(pub, priv, pw), DoorOpens,
           \/ user'.password = pw /\ priv = pub
           \/ user'.password = user.password /\ user.password = pw /\ priv = pub
    PROVE  DoorOpens'
<1>1. ring'[pub] = [holds |-> pub, under |-> pw]
  BY DEF Wraps
<1> QED
  BY <1>1 DEF DoorOpens, Opening

\* Only an overtaken import or halves of two pairs shut the password's door.
THEOREM DoorsStayOpen == Spec => DoorStays
<1>1. ASSUME AccountInv, Next, DoorOpens, ~Overtaken, ~WrapsTorn PROVE DoorOpens'
  <2>1. ring \in [Keys -> Wrap] /\ ask.what \in Asks
    BY <1>1 DEF AccountInv, TypeOK
  <2>2. ASSUME user'.password = user.password, ring' = ring PROVE DoorOpens'
    BY <1>1, <2>2 DEF DoorOpens, Opening
  <2>3. CASE ServeSetPassword
    <3>1. ask.pub \in Keys /\ ask.priv = ask.pub /\ user'.password = ask.pw
      BY <1>1, <2>3 DEF ServeSetPassword, Loaded, AccountInv, TypeOK, PairsFit, WrapsTorn
    <3> QED
      BY <1>1, <2>1, <2>3, <3>1, WrapsOpens DEF ServeSetPassword
  <2>4. CASE CommitImport
    <3>1. ask.pub \in Keys /\ ask.priv = ask.pub /\ user.password = ask.pw
      BY <1>1, <2>4 DEF CommitImport, Loaded, AccountInv, PairsFit, Overtaken
    <3> QED
      BY <1>1, <2>1, <2>4, <3>1, WrapsOpens DEF CommitImport
  <2>5. ASSUME NEW k \in Keys, NEW p \in Passwords, OtherSetsPassword(k, p) PROVE DoorOpens'
    <3>1. user'.password = p
      BY <1>1, <2>5 DEF OtherSetsPassword, AccountInv, TypeOK
    <3> QED
      BY <1>1, <2>1, <2>5, <3>1, WrapsOpens DEF OtherSetsPassword
  <2>6. CASE ServeErase \/ OtherErases
    BY <2>6 DEF ServeErase, OtherErases, Erases, Nobody, DoorOpens
  <2>7. CASE ServeVerify \/ ServeSetup \/ AskLink \/ PreparePay \/ OtherRotates
    <3>1. user'.password = user.password /\ ring' = ring
      BY <1>1, <2>7
      DEF ServeVerify, ServeSetup, AskLink, PreparePay, OtherRotates, AccountInv, TypeOK
    <3> QED
      BY <2>2, <3>1
  <2>8. CASE UNCHANGED server
    BY <2>2, <2>8 DEF server
  <2>9. Forms => UNCHANGED server
    BY DEF Forms, OpenLink, UsePhrase, SaveFresh, DeleteAccount, LoginByKey, UseKeyFile,
       LoginByPassword, SetPassword, ImportKey, Sends
  <2>10. Answers => UNCHANGED server
    BY DEF Answers, TakeVerify, TakeLogin, TakeKeyLogin, TakeMine, TakePhrase, TakeHalf,
       TakeSetup, TakeSaved, TakeGone, TakeNothing
  <2>11. NewPair \/ Reload \/ SessionEnds \/ NewDevice => UNCHANGED server
    BY DEF NewPair, Reload, SessionEnds, NewDevice
  <2>12. \/ ServeLogin \/ ServeChallenge \/ ServeKeyLogin \/ ServeMe \/ ServePhrase
         \/ LoadUser \/ CheckImport \/ AnswerGone \/ Refuse
         => UNCHANGED server
    BY DEF ServeLogin, ServeChallenge, ServeKeyLogin, ServeMe, ServePhrase, LoadUser,
       CheckImport, AnswerGone, Refuse
  <2> QED
    BY <1>1, <2>3, <2>4, <2>5, <2>6, <2>7, <2>8, <2>9, <2>10, <2>11, <2>12
    DEF Next, Handlers, Others
<1>2. AccountInv => [DoorOpens => DoorOpens' \/ Overtaken \/ WrapsTorn]_vars \/ ~[Next]_vars
  BY <1>1
<1> QED
  BY <1>2, AccountSafe, PTL DEF Spec, DoorStays

\* Only the recovery by phrase tears the pair of a browser apart.
THEOREM HalvesStayTogether == Spec => HalvesStay
<1>1. ASSUME AccountInv, Next, Whole, ask.what \notin {"phrase", "half"} PROVE Whole'
  <2>1. ASSUME local' = local PROVE Whole'
    BY <1>1, <2>1 DEF Whole
  <2>2. CASE TakeLogin \/ TakeKeyLogin \/ TakeMine \/ TakeSetup
    BY <1>1, <2>2
    DEF TakeLogin, TakeKeyLogin, TakeMine, TakeSetup, Takes, Stores, PairOf, Whole, AccountInv,
        PairsFit
  <2>3. CASE PreparePay \/ NewDevice
    BY <1>1, <2>3 DEF PreparePay, NewDevice, PairOf, Whole
  <2>4. TakeVerify \/ TakeSaved \/ TakeGone \/ TakeNothing => local' = local
    BY DEF TakeVerify, TakeSaved, TakeGone, TakeNothing, browser
  <2>5. ~TakePhrase /\ ~TakeHalf
    BY <1>1 DEF TakePhrase, TakeHalf, Takes
  <2>6. Forms => local' = local
    BY DEF Forms, OpenLink, UsePhrase, SaveFresh, DeleteAccount, LoginByKey, UseKeyFile,
       LoginByPassword, SetPassword, ImportKey, Sends, browser
  <2>7. Handlers => local' = local
    BY DEF Handlers, ServeVerify, ServeLogin, ServeChallenge, ServeKeyLogin, ServeMe,
       ServePhrase, LoadUser, ServeSetPassword, CheckImport, CommitImport, ServeSetup,
       ServeErase, AnswerGone, Refuse, browser
  <2>8. Others \/ NewPair \/ Reload \/ SessionEnds \/ AskLink => local' = local
    BY DEF Others, OtherSetsPassword, OtherRotates, OtherErases, NewPair, Reload, SessionEnds,
       AskLink, browser
  <2> QED
    BY <1>1, <2>1, <2>2, <2>3, <2>4, <2>5, <2>6, <2>7, <2>8 DEF Next, Answers
<1>2. AccountInv => [Whole => Whole' \/ ask.what \in {"phrase", "half"}]_vars \/ ~[Next]_vars
  BY <1>1
<1> QED
  BY <1>2, AccountSafe, PTL DEF Spec, HalvesStay

=============================================================================
