------------------------------ MODULE HomeProofs -------------------------------
(***************************************************************************)
(* Proofs about Home: its types, that the form shows what was asked for    *)
(* last, and that a launch fits its repository, for any repositories, any  *)
(* number of forms and questions, and answers in any order.                *)
(***************************************************************************)
EXTENDS Home, TLAPS

(* The sets a form draws from, its initial values included.                *)
BranchNames == {"main"} \union UNION {Branches[r] : r \in Fine}
LangNames   == {SourceDefault} \union UNION {Langs[r] : r \in Fine}
Inputs      == [text : Repos \union {NoText}, timer : BOOLEAN]
FormStates  ==
  [phase : Phases, reason : {"none", "unsupported", "threshold", "access", "format", "auth"},
   repo : Repos \union {NoRepo}, branch : BranchNames, source : LangNames,
   install : {"idle", "checking", "installed", "needed"}, launching : BOOLEAN, seq : 0 .. MaxSeq]

(* The records as a whole; the timer runs for a name.                      *)
Records ==
  /\ form \in FormStates /\ input \in Inputs
  /\ input.timer => input.text # NoText
  /\ calls \subseteq [ticket : Nat, repo : Repos]

(* Where a user can be; GitHub's page waits for nothing of this app.       *)
Placed ==
  /\ place = "github" => user = "none" /\ asking = 0 /\ creates = {}
  /\ SignedIn => place \in {"app", "run"}

(* The latest ticket is for what was asked for last.                       *)
LatestIsAsked == \A c \in calls : IsLatest(c) => c.repo = asked

(* The card is of a repository that can be migrated, and so are its        *)
(* choices.                                                                *)
CardFits ==
  form.phase = "resolved" /\ form.repo # NoRepo =>
    form.repo \in Fine /\ form.branch \in Branches[form.repo] /\ form.source \in Langs[form.repo]

(* What is said of the form and of the questions it waits for.             *)
FormInv == Records /\ LatestIsAsked /\ CardFits /\ ResolvedIsLatest

Inv == TypeOK /\ Placed /\ FormInv /\ LaunchFits

-----------------------------------------------------------------------------
(* Lemmas about the operators.                                             *)

(* A form that is mounted or unmounted.                                    *)
LEMMA RemountFits ==
  ASSUME TypeOK, NEW p \in {"login", "github", "app", "run"}, Remount(p)
  PROVE  /\ FormInv'
         /\ place' = p /\ listed' \in BOOLEAN /\ db' \in BOOLEAN
         /\ \A c \in calls' : c.ticket \in 1 .. form'.seq
         /\ checks' \subseteq Repos
         /\ (p = "app" => forms < MaxForms) => forms' \in 0 .. MaxForms
<1>1. NewForm \in FormStates /\ NewForm.phase = "idle"
  BY HomeAssumption DEF NewForm, FormStates, BranchNames, LangNames, Phases
<1>2. Records'
  BY <1>1 DEF Remount, Records, Inputs
<1>3. FormInv'
  BY <1>1, <1>2 DEF Remount, FormInv, LatestIsAsked, CardFits, ResolvedIsLatest
<1>4. (p = "app" => forms < MaxForms) => forms' \in 0 .. MaxForms
  BY HomeAssumption DEF Remount, TypeOK
<1> QED  BY <1>3, <1>4 DEF Remount

(* A question about r: the form waits for it, whatever was asked before.   *)
LEMMA AskFits ==
  ASSUME TypeOK, FormInv, NEW r \in Repos, Ask(r)
  PROVE  /\ form' \in FormStates /\ form'.phase = "validating"
         /\ calls' \subseteq [ticket : Nat, repo : Repos]
         /\ \A c \in calls' : c.ticket \in 1 .. form'.seq
         /\ LatestIsAsked' /\ CardFits' /\ ResolvedIsLatest'
<1> DEFINE new == [ticket |-> form.seq + 1, repo |-> r]
<1>1. /\ form \in FormStates /\ form.seq \in Nat /\ MaxSeq \in Nat
      /\ \A c \in calls : c.ticket \in 1 .. form.seq
  BY HomeAssumption DEF FormInv, Records, FormStates, TypeOK
<1>2. /\ form' \in FormStates /\ form'.phase = "validating" /\ form'.seq = form.seq + 1
  <2>1. form.seq + 1 \in 0 .. MaxSeq /\ "validating" \in Phases
    BY <1>1 DEF Ask, Phases
  <2>2. form' = [form EXCEPT !.install = "idle", !.phase = "validating", !.seq = form.seq + 1]
    BY DEF Ask
  <2> QED  BY <1>1, <2>1, <2>2 DEF FormStates
<1>3. /\ calls' = calls \union {new} /\ new \in [ticket : Nat, repo : Repos]
      /\ asked' = r /\ new.ticket = form'.seq /\ new.repo = r
  BY <1>1, <1>2 DEF Ask
<1>4. \A c \in calls' : c.ticket \in 1 .. form'.seq /\ (c.ticket = form'.seq => c = new)
  BY <1>1, <1>2, <1>3
<1> HIDE DEF new
<1>5. calls' \subseteq [ticket : Nat, repo : Repos]
  BY <1>3 DEF FormInv, Records
<1>6. LatestIsAsked'
  BY <1>3, <1>4 DEF LatestIsAsked, IsLatest
<1>7. CardFits' /\ ResolvedIsLatest'
  BY <1>2, <1>3 DEF CardFits, ResolvedIsLatest
<1> QED  BY <1>2, <1>4, <1>5, <1>6, <1>7

(* The types, from those of the form's record and the rest.                *)
LEMMA TypedAfter ==
  ASSUME FormInv',
         user' \in {"none", "guest", "github"},
         status' \in {"idle", "authenticating", "authenticated"},
         place' \in {"login", "github", "app", "run"}, from' \in {"app", "run"},
         asking' \in 0 .. MaxAsks, sent' \in BOOLEAN,
         listed' \in BOOLEAN, db' \in BOOLEAN,
         \A c \in calls' : c.ticket \in 1 .. form'.seq,
         checks' \subseteq Repos, forms' \in 0 .. MaxForms,
         status' = "authenticating" => asking' > 0 \/ place' = "github"
  PROVE  TypeOK'
<1>1. form' \in FormStates /\ input' \in Inputs /\ calls' \subseteq [ticket : Nat, repo : Repos]
  BY DEF FormInv, Records
<1> QED  BY <1>1 DEF TypeOK, Inputs, FormStates

(* Actions that leave the account alone.                                   *)
LEMMA AccountStays ==
  ASSUME Inv, UNCHANGED account, FormInv', LaunchFits',
         listed' \in BOOLEAN, db' \in BOOLEAN,
         \A c \in calls' : c.ticket \in 1 .. form'.seq,
         checks' \subseteq Repos, forms' = forms,
         creates' = creates \/ place # "github"
  PROVE  Inv'
<1>1. Placed'
  BY DEF Inv, Placed, account, SignedIn
<1>2. TypeOK'
  BY DEF Inv, TypeOK, FormInv, account, Records, Inputs, FormStates
<1> QED  BY <1>1, <1>2 DEF Inv

-----------------------------------------------------------------------------
(* The account.                                                            *)

LEMMA InitInv == Init => Inv
<1> SUFFICES ASSUME Init  PROVE Inv
  OBVIOUS
<1>1. form \in FormStates /\ input \in Inputs /\ form.phase = "idle"
  BY HomeAssumption DEF Init, NewForm, FormStates, Inputs, BranchNames, LangNames, Phases
<1>2. FormInv
  BY <1>1 DEF Init, FormInv, Records, LatestIsAsked, CardFits, ResolvedIsLatest
<1>3. TypeOK
  <2>1. 0 \in 0 .. MaxForms /\ 0 \in 0 .. MaxAsks
    BY HomeAssumption
  <2> QED  BY <1>1, <2>1 DEF Init, TypeOK, FormStates, Inputs
<1>4. Placed /\ LaunchFits
  BY DEF Init, Placed, LaunchFits, SignedIn
<1> QED  BY <1>2, <1>3, <1>4 DEF Inv

LEMMA AccountKept ==
  ASSUME Inv, BeginGitHub \/ GitHubReturns \/ BeginGuest \/ GuestAnswers \/ SignOut
              \/ SessionExpired \/ FollowLogo \/ OpenRun
  PROVE  Inv'
<1> USE DEF Inv
<1>0. /\ user \in {"none", "guest", "github"}
      /\ status \in {"idle", "authenticating", "authenticated"}
      /\ from \in {"app", "run"} /\ place \in {"login", "github", "app", "run"}
      /\ asking \in 0 .. MaxAsks /\ sent \in BOOLEAN /\ MaxAsks \in Nat
      /\ status = "authenticating" => asking > 0 \/ place = "github"
  BY HomeAssumption DEF TypeOK
<1>1. ASSUME NEW p \in {"login", "github", "app", "run"}, Remount(p),
             p = "app" => forms < MaxForms,
             user' \in {"none", "guest", "github"},
             status' \in {"idle", "authenticating", "authenticated"}, from' \in {"app", "run"},
             asking' \in 0 .. MaxAsks, sent' \in BOOLEAN,
             status' = "authenticating" => asking' > 0 \/ p = "github",
             p = "github" => user' = "none" /\ asking' = 0 /\ creates' = {},
             user' \in {"guest", "github"} => p \in {"app", "run"},
             creates' \subseteq creates
      PROVE  Inv'
  <2>1. FormInv' /\ TypeOK' /\ place' = p
    BY <1>1, RemountFits, TypedAfter
  <2>2. Placed' /\ LaunchFits'
    BY <1>1, <2>1 DEF Placed, LaunchFits, SignedIn
  <2> QED  BY <2>1, <2>2
\* The page stays and only the account changes.
<1>2. ASSUME UNCHANGED <<place, from, input, listed, form, db, calls, checks, creates, forms, asked>>,
             user' \in {"none", user, "guest"}, place # "github",
             user' = "guest" => place \in {"app", "run"},
             status' \in {"idle", "authenticating", "authenticated"},
             asking' \in 0 .. MaxAsks, sent' \in BOOLEAN,
             status' = "authenticating" => asking' > 0
      PROVE  Inv'
  <2>1. FormInv' /\ LaunchFits'
    BY <1>2 DEF FormInv, Records, LatestIsAsked, IsLatest, CardFits, ResolvedIsLatest, LaunchFits
  <2>2. TypeOK'
    BY <1>0, <1>2, <2>1, TypedAfter DEF TypeOK
  <2>3. Placed'
    BY <1>2 DEF Placed, SignedIn
  <2> QED  BY <2>1, <2>2, <2>3
<1>3. CASE BeginGitHub
  <2>1. /\ Remount("github") /\ user' = "none" /\ status' = "authenticating" /\ from' = from
        /\ asking' = 0 /\ sent' = FALSE /\ creates' = {}
    BY <1>3 DEF BeginGitHub, MaySignIn
  <2>2. asking' \in 0 .. MaxAsks /\ creates' \subseteq creates
    BY <1>0, <2>1
  <2> QED  BY <1>0, <1>1, <2>1, <2>2
<1>4. CASE GitHubReturns
  <2>1. CASE Remount("app")
    BY <1>0, <1>1, <1>4, <2>1 DEF GitHubReturns, Placed, Remount
  <2>2. CASE Remount("login")
    BY <1>0, <1>1, <1>4, <2>2 DEF GitHubReturns, Placed, Remount
  <2> QED  BY <1>4, <2>1, <2>2 DEF GitHubReturns
<1>5. CASE BeginGuest
  BY <1>0, <1>2, <1>5 DEF BeginGuest, MaySignIn
<1>6. CASE GuestAnswers
  <2>1. asking' \in 0 .. MaxAsks /\ place # "github" /\ UNCHANGED <<from, creates>>
    BY <1>0, <1>6 DEF GuestAnswers, Placed
  <2>2. CASE GuestEnters
    <3>1. CASE user = "none"
      BY <1>0, <1>1, <2>1, <2>2, <3>1 DEF GuestEnters
    <3>2. CASE user # "none"
      BY <1>0, <1>2, <2>1, <2>2, <3>2 DEF GuestEnters, Placed, SignedIn
    <3> QED  BY <3>1, <3>2
  <2>3. CASE GuestRefused
    BY <1>0, <1>2, <2>1, <2>3 DEF GuestRefused, Placed, SignedIn
  <2> QED  BY <1>6, <2>2, <2>3 DEF GuestAnswers
<1>7. CASE SignOut
  BY <1>0, <1>1, <1>7 DEF SignOut, SignedIn, Placed, IsGuest
<1>8. CASE SessionExpired
  <2>1. CASE SignedIn
    BY <1>0, <1>1, <1>8, <2>1 DEF SessionExpired, SignedIn, Placed
  <2>2. CASE ~SignedIn
    BY <1>0, <1>2, <1>8, <2>2 DEF SessionExpired
  <2> QED  BY <2>1, <2>2
<1>9. ASSUME NEW p \in {"app", "run"}, Follow(p)  PROVE Inv'
  BY <1>0, <1>1, <1>9 DEF Follow, SignedIn, Placed
<1> QED  BY <1>3, <1>4, <1>5, <1>6, <1>7, <1>8, <1>9 DEF FollowLogo, OpenRun

-----------------------------------------------------------------------------
(* The form.                                                               *)

LEMMA QuestionKept ==
  ASSUME Inv, TimerFires \/ PressEnter \/ \E r \in Repos : SelectRepo(r)
  PROVE  Inv'
<1> USE DEF Inv
<1>0. Records /\ TypeOK /\ place \in {"login", "github", "app", "run"} /\ checks \subseteq Repos
  BY DEF FormInv, TypeOK
<1>1. ASSUME NEW r \in Repos, Ask(r), UNCHANGED <<account, db, listed, checks, creates, forms>>,
             input' \in Inputs, input'.timer => input'.text # NoText
      PROVE  Inv'
  <2>1. /\ form' \in FormStates /\ calls' \subseteq [ticket : Nat, repo : Repos]
        /\ \A c \in calls' : c.ticket \in 1 .. form'.seq
        /\ LatestIsAsked' /\ CardFits' /\ ResolvedIsLatest'
    BY <1>1, AskFits
  <2>2. FormInv'
    BY <1>1, <2>1 DEF FormInv, Records
  <2>3. LaunchFits' /\ listed' \in BOOLEAN /\ db' \in BOOLEAN /\ checks' \subseteq Repos
    BY <1>1 DEF LaunchFits, TypeOK
  <2> QED  BY <1>1, <2>1, <2>2, <2>3, AccountStays
<1>2. CASE TimerFires
  <2>1. input.text \in Repos /\ input' \in Inputs /\ ~input'.timer
    BY <1>0, <1>2 DEF TimerFires, Records, Inputs
  <2> QED  BY <1>1, <1>2, <2>1 DEF TimerFires
<1>3. CASE PressEnter
  <2>1. CASE input.text # NoText /\ Ask(input.text)
    BY <1>0, <1>1, <1>3, <2>1 DEF PressEnter, Records, Inputs
  <2>2. CASE /\ form' = [form EXCEPT !.install = "idle", !.phase = "idle", !.reason = "none",
                                     !.repo = NoRepo, !.branch = "main"]
             /\ UNCHANGED <<calls, asked>>
    <3>1. form' \in FormStates /\ form'.phase = "idle" /\ form'.seq = form.seq
      BY <1>0, <2>2 DEF Records, FormStates, Phases, BranchNames
    <3>2. UNCHANGED <<account, input, listed, db, checks, creates, forms, calls, asked>>
      BY <1>3, <2>2 DEF PressEnter
    <3>3. FormInv' /\ LaunchFits'
      BY <3>1, <3>2 DEF FormInv, Records, LatestIsAsked, IsLatest, CardFits, ResolvedIsLatest,
                        LaunchFits
    <3>4. /\ listed' \in BOOLEAN /\ db' \in BOOLEAN /\ checks' \subseteq Repos
          /\ \A c \in calls' : c.ticket \in 1 .. form'.seq
      BY <3>1, <3>2 DEF TypeOK
    <3> QED  BY <3>2, <3>3, <3>4, AccountStays
  <2> QED  BY <1>3, <2>1, <2>2 DEF PressEnter
<1>4. ASSUME NEW r \in Repos, SelectRepo(r)  PROVE Inv'
  BY <1>0, <1>1, <1>4 DEF SelectRepo, Inputs
<1> QED  BY <1>2, <1>3, <1>4

(* Actions that keep what the form is about.                               *)
LEMMA SameQuestion ==
  ASSUME Inv, form' \in FormStates, input' \in Inputs, input'.timer => input'.text # NoText,
         UNCHANGED <<account, calls, asked, forms>>,
         form'.phase = form.phase, form'.repo = form.repo, form'.seq = form.seq,
         form'.branch = form.branch \/ form'.branch \in Branches[form.repo],
         form'.source = form.source \/ form'.source \in Langs[form.repo],
         LaunchFits', listed' \in BOOLEAN, db' \in BOOLEAN, checks' \subseteq Repos,
         creates' = creates \/ place # "github"
  PROVE  Inv'
<1> USE DEF Inv
<1>1. Records'
  BY DEF FormInv, Records
<1>2. CardFits'
  BY DEF FormInv, CardFits
<1>3. LatestIsAsked' /\ ResolvedIsLatest'
  BY DEF FormInv, LatestIsAsked, IsLatest, ResolvedIsLatest
<1>4. \A c \in calls' : c.ticket \in 1 .. form'.seq
  BY DEF TypeOK
<1> QED  BY <1>1, <1>2, <1>3, <1>4, AccountStays DEF FormInv

LEMMA ChoiceKept ==
  ASSUME Inv,
         \/ SuggestionsCome \/ SetDB \/ CheckAgain
         \/ \E r \in Repos \union {NoText} : Type(r)
         \/ \E r \in Repos : CheckAnswers(r)
         \/ \E b \in UNION {Branches[r] : r \in Fine} : SetBranch(b)
         \/ \E s \in UNION {Langs[r] : r \in Fine} : SetSource(s)
  PROVE  Inv'
<1> USE DEF Inv
<1>0. /\ form \in FormStates /\ input \in Inputs /\ (input.timer => input.text # NoText)
      /\ listed \in BOOLEAN /\ db \in BOOLEAN /\ checks \subseteq Repos
  BY DEF FormInv, Records, TypeOK
<1>1. ASSUME UNCHANGED creates  PROVE LaunchFits'
  BY <1>1 DEF LaunchFits
<1>2. CASE SuggestionsCome
  BY <1>0, <1>1, <1>2, SameQuestion DEF SuggestionsCome
<1>3. CASE SetDB
  BY <1>0, <1>1, <1>3, SameQuestion DEF SetDB
<1>4. CASE CheckAgain
  <2>1. form' \in FormStates /\ form' = [form EXCEPT !.install = "checking"]
    BY <1>0, <1>4 DEF CheckAgain, FormStates
  <2>2. checks' \subseteq Repos
    BY <1>0, <1>4 DEF CheckAgain, FormStates
  <2>3. /\ form'.phase = form.phase /\ form'.repo = form.repo /\ form'.seq = form.seq
        /\ form'.branch = form.branch /\ form'.source = form.source
    BY <1>0, <2>1 DEF FormStates
  <2> QED  BY <1>0, <1>1, <1>4, <2>1, <2>2, <2>3, SameQuestion DEF CheckAgain
<1>5. ASSUME NEW r \in Repos \union {NoText}, Type(r)  PROVE Inv'
  <2>1. input' \in Inputs /\ (input'.timer => input'.text # NoText)
    BY <1>5 DEF Type, Inputs
  <2> QED  BY <1>0, <1>1, <1>5, <2>1, SameQuestion DEF Type
<1>6. ASSUME NEW r \in Repos, CheckAnswers(r)  PROVE Inv'
  <2>1. PICK answer \in {"installed", "needed"} : form' = [form EXCEPT !.install = answer]
    BY <1>6 DEF CheckAnswers
  <2>2. /\ form' \in FormStates
        /\ form'.phase = form.phase /\ form'.repo = form.repo /\ form'.seq = form.seq
        /\ form'.branch = form.branch /\ form'.source = form.source
    BY <1>0, <2>1 DEF FormStates
  <2> QED  BY <1>0, <1>1, <1>6, <2>2, SameQuestion DEF CheckAnswers
<1>7. ASSUME NEW b \in UNION {Branches[r] : r \in Fine}, SetBranch(b)  PROVE Inv'
  <2>1. /\ form' \in FormStates
        /\ form'.phase = form.phase /\ form'.repo = form.repo /\ form'.seq = form.seq
        /\ form'.branch = b /\ form'.source = form.source
    BY <1>0, <1>7 DEF SetBranch, FormStates, BranchNames
  <2> QED  BY <1>0, <1>1, <1>7, <2>1, SameQuestion DEF SetBranch
<1>8. ASSUME NEW s \in UNION {Langs[r] : r \in Fine}, SetSource(s)  PROVE Inv'
  <2>1. /\ form' \in FormStates
        /\ form'.phase = form.phase /\ form'.repo = form.repo /\ form'.seq = form.seq
        /\ form'.branch = form.branch /\ form'.source = s
    BY <1>0, <1>8 DEF SetSource, FormStates, LangNames
  <2> QED  BY <1>0, <1>1, <1>8, <2>1, SameQuestion DEF SetSource
<1> QED  BY <1>2, <1>3, <1>4, <1>5, <1>6, <1>7, <1>8

(* An answer counts only for the latest ticket, and what it shows is then  *)
(* what was asked for last.                                                *)
LEMMA AnswerKept ==
  ASSUME Inv, NEW c \in calls, ResolveAnswers(c)
  PROVE  Inv'
<1> USE DEF Inv
<1>0. /\ form \in FormStates /\ input \in Inputs /\ calls \subseteq [ticket : Nat, repo : Repos]
      /\ checks \subseteq Repos /\ \A d \in calls : d.ticket \in 1 .. form.seq
      /\ calls' = calls \ {c} /\ c.repo \in Repos
      /\ UNCHANGED <<account, input, listed, db, creates, forms, asked>>
  BY DEF FormInv, Records, TypeOK, ResolveAnswers
<1>1. LaunchFits' /\ listed' \in BOOLEAN /\ db' \in BOOLEAN
  BY <1>0 DEF LaunchFits, TypeOK
<1>2. ASSUME form' \in FormStates, form'.seq = form.seq, checks' \subseteq Repos,
             CardFits', ResolvedIsLatest'
      PROVE  Inv'
  <2>1. LatestIsAsked' /\ Records'
    BY <1>0, <1>2 DEF FormInv, LatestIsAsked, IsLatest, Records
  <2> QED  BY <1>0, <1>1, <1>2, <2>1, AccountStays DEF FormInv
<1>3. CASE ~IsLatest(c)
  <2>1. UNCHANGED <<form, checks>>
    BY <1>3 DEF ResolveAnswers
  <2>2. CardFits'
    BY <2>1 DEF FormInv, CardFits
  <2>3. ResolvedIsLatest'
    BY <1>0, <1>3, <2>1 DEF FormInv, ResolvedIsLatest, IsLatest
  <2> QED  BY <1>0, <1>2, <2>1, <2>2, <2>3
<1>4. CASE IsLatest(c)
  <2>1. c.repo = asked
    BY <1>4 DEF FormInv, LatestIsAsked
  <2>2. PICK answer \in {Kind[c.repo], "gone", "auth"} :
          /\ form' = CASE answer = "fine"        -> Accepted(form, c.repo)
                       [] answer = "unsupported" -> Refused(form, "unsupported", c.repo)
                       [] answer = "below"       -> Refused(form, "threshold", c.repo)
                       [] answer = "gone"        -> Refused(form, "access", NoRepo)
                       [] OTHER                  -> Refused(form, answer, NoRepo)
          /\ checks' = IF answer = "fine" /\ ~IsGuest THEN checks \union {c.repo} ELSE checks
    BY <1>4 DEF ResolveAnswers
  <2>3. answer \in Kinds \union {"auth"} /\ checks' \subseteq Repos
    BY <1>0, <2>2, HomeAssumption DEF Kinds
  <2>4. CASE answer = "fine"
    <3>1. c.repo \in Fine /\ Main[c.repo] \in Branches[c.repo] /\ Detected[c.repo] \in Langs[c.repo]
      BY <1>0, <2>2, <2>4, HomeAssumption DEF Fine
    <3>2. Main[c.repo] \in BranchNames /\ Detected[c.repo] \in LangNames
      BY <3>1 DEF BranchNames, LangNames
    <3>3. form' = Accepted(form, c.repo)
      BY <2>2, <2>4
    <3>4. /\ form' \in FormStates /\ form'.phase = "resolved" /\ form'.seq = form.seq
          /\ form'.repo = c.repo /\ form'.branch = Main[c.repo] /\ form'.source = Detected[c.repo]
      BY <1>0, <3>2, <3>3 DEF Accepted, FormStates, Phases
    <3>5. CardFits' /\ ResolvedIsLatest'
      BY <1>0, <2>1, <3>1, <3>4 DEF CardFits, ResolvedIsLatest, Fine
    <3> QED  BY <1>2, <2>3, <3>4, <3>5
  <2>5. CASE answer # "fine"
    <3>1. \E reason \in {"unsupported", "threshold", "access", "format", "auth"},
             r \in {c.repo, NoRepo} : form' = Refused(form, reason, r)
      BY <2>2, <2>3, <2>5 DEF Kinds
    <3>2. /\ form' \in FormStates /\ form'.phase = "error" /\ form'.seq = form.seq
          /\ form'.repo \in {c.repo, NoRepo}
      BY <1>0, <3>1 DEF Refused, FormStates, Phases
    <3>3. CardFits' /\ ResolvedIsLatest'
      BY <1>0, <2>1, <3>2 DEF CardFits, ResolvedIsLatest
    <3> QED  BY <1>2, <2>3, <3>2, <3>3
  <2> QED  BY <2>4, <2>5
<1> QED  BY <1>3, <1>4

(* A launch takes what the card shows, and its answer may find any page.   *)
LEMMA LaunchKept ==
  ASSUME Inv, Launch \/ \E c \in creates : RunCreated(c) \/ CreateFails(c)
  PROVE  Inv'
<1> USE DEF Inv
<1>0. /\ form \in FormStates /\ input \in Inputs /\ (input.timer => input.text # NoText)
      /\ listed \in BOOLEAN /\ db \in BOOLEAN /\ checks \subseteq Repos
  BY DEF FormInv, Records, TypeOK
<1>1. CASE Launch
  <2>1. /\ form.repo \in Fine /\ form.branch \in Branches[form.repo]
        /\ form.source \in Langs[form.repo] /\ place # "github"
    BY <1>1 DEF Launch, CardShown, OnForm, FormInv, CardFits
  <2>2. LaunchFits'
    <3>1. creates' = creates \union {Payload}
      BY <1>1 DEF Launch
    <3>2. /\ Kind[Payload.repo] = "fine" /\ Payload.branch \in Branches[Payload.repo]
          /\ Payload.source \in Langs[Payload.repo]
      BY <2>1 DEF Payload, Fine
    <3>3. Payload.db => HasDB[Payload.repo]
      BY DEF Payload
    <3> QED  BY <3>1, <3>2, <3>3 DEF LaunchFits
  <2>3. /\ form' \in FormStates
        /\ form'.phase = form.phase /\ form'.repo = form.repo /\ form'.seq = form.seq
        /\ form'.branch = form.branch /\ form'.source = form.source
    BY <1>0, <1>1 DEF Launch, FormStates
  <2> QED  BY <1>0, <1>1, <2>1, <2>2, <2>3, SameQuestion DEF Launch
<1>2. ASSUME NEW c \in creates, RunCreated(c)  PROVE Inv'
  <2>1. /\ place # "github" /\ creates' \subseteq creates
        /\ UNCHANGED <<user, status, asking, sent>>
    BY <1>2 DEF RunCreated, Placed
  <2>2. PICK p \in {"run", "login"} :
          /\ Remount(p) /\ from' \in {from, "run"}
          /\ SignedIn => p = "run"
          /\ ~SignedIn => p = "login"
    BY <1>2 DEF RunCreated
  <2>3. FormInv' /\ TypeOK'
    BY <2>1, <2>2, RemountFits, TypedAfter DEF TypeOK
  <2>4. Placed' /\ LaunchFits'
    BY <2>1, <2>2, RemountFits DEF Placed, LaunchFits, SignedIn
  <2> QED  BY <2>3, <2>4
<1>3. ASSUME NEW c \in creates, CreateFails(c)  PROVE Inv'
  <2>1. /\ form' \in FormStates
        /\ form'.phase = form.phase /\ form'.repo = form.repo /\ form'.seq = form.seq
        /\ form'.branch = form.branch /\ form'.source = form.source
    BY <1>0, <1>3 DEF CreateFails, FormStates
  <2>2. LaunchFits' /\ place # "github"
    BY <1>3 DEF CreateFails, LaunchFits, Placed
  <2> QED  BY <1>0, <1>3, <2>1, <2>2, SameQuestion DEF CreateFails
<1> QED  BY <1>1, <1>2, <1>3

-----------------------------------------------------------------------------
(* The theorems.                                                           *)

LEMMA InvKept ==
  ASSUME Inv, [Next]_vars
  PROVE  Inv'
<1>1. CASE UNCHANGED vars
  <2>1. UNCHANGED <<account, input, listed, form, db, calls, checks, creates, forms, asked>>
    BY <1>1 DEF vars
  <2>2. Inv' <=> Inv
    BY <2>1 DEF account, Inv, TypeOK, Placed, SignedIn, FormInv, Records, LatestIsAsked, IsLatest,
                CardFits, ResolvedIsLatest, LaunchFits
  <2> QED  BY <2>2
<1>2. CASE Next
  BY <1>2, AccountKept, QuestionKept, ChoiceKept, AnswerKept, LaunchKept DEF Next
<1> QED  BY <1>1, <1>2

LEMMA Invariant == Spec => []Inv
<1>1. Inv /\ [Next]_vars => Inv'
  BY InvKept
<1> QED  BY InitInv, <1>1, PTL DEF Spec

(* The state of the tab keeps its types, and the login's buttons are       *)
(* disabled only while an answer is awaited, whatever comes in between.    *)
THEOREM TypeCorrect == Spec => []TypeOK
<1>1. Inv => TypeOK
  BY DEF Inv
<1> QED  BY Invariant, <1>1, PTL

(* The card and the error are about the repository that was asked for      *)
(* last, and a spinner waits for just that answer, for any number of       *)
(* questions and answers in any order.                                     *)
THEOREM ShowsTheLatest == Spec => []ResolvedIsLatest
<1>1. Inv => ResolvedIsLatest
  BY DEF Inv, FormInv
<1> QED  BY Invariant, <1>1, PTL

(* A launch names a repository that can be migrated, one of its branches   *)
(* and one of its languages, and a database only where that is offered.    *)
THEOREM LaunchesFit == Spec => []LaunchFits
<1>1. Inv => LaunchFits
  BY DEF Inv
<1> QED  BY Invariant, <1>1, PTL
============================================================================
