--------------------------------- MODULE Home ----------------------------------
(***************************************************************************)
(* One tab of the app from signing in to the page of a new run: the        *)
(* account (auth-provider.tsx, login.tsx, auth-callback.tsx, AppLayout)    *)
(* and the form that launches a migration (repo-launcher.tsx), which asks  *)
(* the server about the repository that is typed or picked, whether        *)
(* Ferry's GitHub App may write to it, and at last for a run.              *)
(*                                                                         *)
(* Answers may come in any order.  A form that is unmounted hears no       *)
(* answer any more, but the navigation after a launch happens all the      *)
(* same.  So may a call that was sent before the user signed out find the  *)
(* session gone while the next sign-in waits for its answer.               *)
(***************************************************************************)
EXTENDS Naturals

CONSTANTS
  Repos,     \* what the user may type or pick
  Kind,      \* Kind[r]: what the server finds, see Kinds
  Branches,  \* Branches[r]: its branches
  Main,      \* Main[r]: the default branch
  Langs,     \* Langs[r]: the source languages that are found in it
  Detected,  \* Detected[r]: the first of them
  HasDB,     \* HasDB[r]: whether a database migration is offered
  NoRepo, NoText,
  MaxAsks,   \* bound of the model: requests for a guest's session under way
  MaxSeq,    \* bound of the model: repositories asked for by one form
  MaxForms   \* bound of the model: forms that are mounted

(* fine: it can be migrated; unsupported: none of the languages; below:    *)
(* too little of them (this server rates every target as selectable and    *)
(* never answers it); gone: not reachable; format: not a repository name.  *)
Kinds == {"fine", "unsupported", "below", "gone", "format"}

Fine == {r \in Repos : Kind[r] = "fine"}

ASSUME HomeAssumption ==
  /\ Kind \in [Repos -> Kinds]
  /\ NoRepo \notin Repos /\ NoText \notin Repos
  /\ \A r \in Fine : Main[r] \in Branches[r] /\ Detected[r] \in Langs[r] /\ HasDB[r] \in BOOLEAN
  /\ MaxAsks \in Nat /\ MaxSeq \in Nat /\ MaxForms \in Nat

VARIABLES
  user,     \* AuthProvider: session
  status,   \* AuthProvider: status
  place,    \* the route
  from,     \* the route that Login returns to
  asking,   \* POST /auth/guest under way
  sent,     \* this page of the app had a session: its calls may be under way
  input,    \* RepoLauncher: input, and whether its 600 ms are still running
  listed,   \* RepoLauncher: the suggestions have come
  form,     \* RepoLauncher: the state that an answer changes
  db,       \* RepoLauncher: dbEnabled
  calls,    \* resolveRepo under way: [ticket, repo]
  checks,   \* fetchAppInstallation under way
  creates,  \* createRun under way, by the form that asked
  forms,    \* how many forms were mounted so far
  asked     \* the repository asked for last

account == <<user, status, place, from, asking, sent>>
vars == <<account, input, listed, form, db, calls, checks, creates, forms, asked>>

SourceDefault == "cobol"

(* The state of a new form.                                                *)
NewForm ==
  [phase |-> "idle", reason |-> "none", repo |-> NoRepo, branch |-> "main",
   source |-> SourceDefault, install |-> "idle", launching |-> FALSE, seq |-> 0]

IsGuest == user = "guest"
OnForm  == place = "app" /\ user # "none"

Init ==
  /\ user = "none" /\ status = "idle" /\ place = "login" /\ from = "app"
  /\ asking = 0 /\ sent = FALSE
  /\ input = [text |-> NoText, timer |-> FALSE] /\ listed = FALSE
  /\ form = NewForm /\ db = FALSE
  /\ calls = {} /\ checks = {} /\ creates = {}
  /\ forms = 0 /\ asked = NoRepo

(* The form is mounted, or unmounted, when the app's first page is entered *)
(* or left: its state goes, and the answers it still waits for do nothing. *)
Remount(p) ==
  /\ place' = p
  /\ input' = [text |-> NoText, timer |-> FALSE] /\ listed' = FALSE
  /\ form' = NewForm /\ db' = FALSE
  /\ calls' = {} /\ checks' = {} /\ asked' = NoRepo
  /\ forms' = IF p = "app" THEN forms + 1 ELSE forms

-----------------------------------------------------------------------------
(* The account.                                                            *)

(* Login: its buttons are disabled while an answer is awaited, and a user  *)
(* who is signed in is sent on.                                            *)
MaySignIn == place = "login" /\ user = "none" /\ status # "authenticating"

(* AccountMenu: only there for a user.                                     *)
SignedIn == user \in {"guest", "github"}

(* beginGitHub leaves the page, and what it waits for.                     *)
BeginGitHub ==
  /\ MaySignIn
  /\ status' = "authenticating"
  /\ asking' = 0 /\ sent' = FALSE /\ creates' = {}
  /\ Remount("github")
  /\ UNCHANGED <<user, from>>

(* AuthCallback: GitHub sends the user back to a new page of the app, with *)
(* the tokens or with an error and a link to the login.                    *)
GitHubReturns ==
  /\ place = "github" /\ forms < MaxForms
  /\ \/ user' = "github" /\ status' = "authenticated" /\ sent' = TRUE /\ Remount("app")
     \/ user' = "none" /\ status' = "idle" /\ sent' = FALSE /\ Remount("login")
  /\ from' = "app"
  /\ UNCHANGED <<asking, creates>>

(* beginGuest.                                                             *)
BeginGuest ==
  /\ MaySignIn /\ asking < MaxAsks
  /\ status' = "authenticating" /\ asking' = asking + 1
  /\ UNCHANGED <<user, place, from, sent, input, listed, form, db, calls, checks, creates, forms,
                 asked>>

(* completeGitHub with a guest's session: the login sends the user on; a   *)
(* session that is there already is replaced.                              *)
GuestEnters ==
  /\ user' = "guest" /\ status' = "authenticated" /\ sent' = TRUE
  /\ IF user = "none"
       THEN forms < MaxForms /\ Remount(from)
       ELSE UNCHANGED <<place, input, listed, form, db, calls, checks, forms, asked>>

(* Mutant of GuestRefused: the status is not reset.                        *)
GuestRefusedOnly ==
  UNCHANGED <<status, user, place, sent, input, listed, form, db, calls, checks, forms, asked>>

(* The catch of beginGuest: whoever is signed in by now stays so.          *)
GuestRefused ==
  /\ status' = "idle"
  /\ UNCHANGED <<user, place, sent, input, listed, form, db, calls, checks, forms, asked>>

GuestAnswers ==
  /\ asking > 0 /\ asking' = asking - 1
  /\ GuestEnters \/ GuestRefused
  /\ UNCHANGED <<from, creates>>

(* The session goes: AppLayout sends the user to the login, which will     *)
(* return here.                                                            *)
SignOut ==
  /\ SignedIn
  /\ user' = "none" /\ status' = "idle"
  /\ from' \in {place} \cup (IF IsGuest THEN {"app"} ELSE {}) \* "Sign in" in a guest's menu
  /\ Remount("login")
  /\ UNCHANGED <<asking, sent, creates>>

(* The event ferry:session-expired: the refresh of some call is refused,   *)
(* be it one that was sent before the user signed out. The listener acts   *)
(* in every status.                                                        *)
SessionExpired ==
  /\ sent /\ place # "github"
  /\ user' = "none" /\ status' = "idle"
  /\ IF SignedIn
       THEN from' = place /\ Remount("login")
       ELSE UNCHANGED <<from, place, input, listed, form, db, calls, checks, forms, asked>>
  /\ UNCHANGED <<asking, sent, creates>>

(* A link to another route of the app.                                     *)
Follow(p) ==
  /\ SignedIn /\ place # p
  /\ p = "app" => forms < MaxForms
  /\ Remount(p)
  /\ UNCHANGED <<user, status, from, asking, sent, creates>>

(* The logo of the top bar, and a row of the recent runs.                  *)
FollowLogo == Follow("app")
OpenRun    == Follow("run")

-----------------------------------------------------------------------------
(* The form.                                                               *)

(* fetchRepoSuggestions answers; an error gives an empty list.             *)
SuggestionsCome ==
  /\ OnForm /\ ~listed /\ listed' = TRUE
  /\ UNCHANGED <<account, input, form, db, calls, checks, creates, forms, asked>>

(* The user types; the timer of 600 ms starts anew.                        *)
Type(text) ==
  /\ OnForm /\ ~IsGuest /\ text # input.text
  /\ input' = [text |-> text, timer |-> text # NoText]
  /\ UNCHANGED <<account, listed, form, db, calls, checks, creates, forms, asked>>

(* run with a name: every call has a ticket.                               *)
Ask(r) ==
  /\ form.seq < MaxSeq
  /\ form' = [form EXCEPT !.install = "idle", !.phase = "validating", !.seq = @ + 1]
  /\ calls' = calls \cup {[ticket |-> form.seq + 1, repo |-> r]}
  /\ asked' = r

TimerFires ==
  /\ OnForm /\ input.timer
  /\ input' = [input EXCEPT !.timer = FALSE]
  /\ Ask(input.text)
  /\ UNCHANGED <<account, listed, db, checks, creates, forms>>

(* Enter asks at once and leaves the timer running. With an empty field    *)
(* the form is cleared, the call under way keeps the latest ticket.        *)
PressEnter ==
  /\ OnForm /\ ~IsGuest
  /\ \/ input.text # NoText /\ Ask(input.text)
     \/ /\ input.text = NoText
        /\ form' = [form EXCEPT !.install = "idle", !.phase = "idle", !.reason = "none",
                                !.repo = NoRepo, !.branch = "main"]
        /\ UNCHANGED <<calls, asked>>
  /\ UNCHANGED <<account, input, listed, db, checks, creates, forms>>

(* selectRepo: a suggestion that may be selected; one whose language is    *)
(* not known yet may be.                                                   *)
SelectRepo(r) ==
  /\ OnForm /\ listed /\ Kind[r] \in {"fine", "unsupported"}
  /\ input' = [text |-> NoText, timer |-> FALSE]
  /\ Ask(r)
  /\ UNCHANGED <<account, listed, db, checks, creates, forms>>

Refused(f, reason, r) == [f EXCEPT !.phase = "error", !.reason = reason, !.repo = r]

(* The repository is shown with its default branch and first language, and *)
(* its installation is checked.                                            *)
Accepted(f, r) ==
  [f EXCEPT !.phase = "resolved", !.reason = "none", !.repo = r,
            !.branch = Main[r], !.source = Detected[r],
            !.install = IF IsGuest THEN "installed" ELSE "checking"]

(* Mutant of IsLatest: any answer counts.                                  *)
IsAny(c) == TRUE

IsLatest(c) == c.ticket = form.seq

(* resolveRepo answers a call of run; the network or the session may fail. *)
ResolveAnswers(c) ==
  /\ c \in calls /\ calls' = calls \ {c}
  /\ \E answer \in {Kind[c.repo], "gone", "auth"} :
       IF ~IsLatest(c) THEN UNCHANGED <<form, checks>>
       ELSE /\ form' = CASE answer = "fine"        -> Accepted(form, c.repo)
                         [] answer = "unsupported" -> Refused(form, "unsupported", c.repo)
                         [] answer = "below"       -> Refused(form, "threshold", c.repo)
                         [] answer = "gone"        -> Refused(form, "access", NoRepo)
                         [] OTHER                  -> Refused(form, answer, NoRepo)
            /\ checks' = IF answer = "fine" /\ ~IsGuest THEN checks \cup {c.repo} ELSE checks
  /\ UNCHANGED <<account, input, listed, db, creates, forms, asked>>

(* loadInstall: the answer is for the repository that was asked about, and *)
(* is taken for the one that is shown. A failed check does not block.      *)
CheckAnswers(r) ==
  /\ r \in checks /\ checks' = checks \ {r}
  /\ \E answer \in {"installed", "needed"} : form' = [form EXCEPT !.install = answer]
  /\ UNCHANGED <<account, input, listed, db, calls, creates, forms, asked>>

(* Re-check, and the focus that comes back from GitHub's tab.              *)
CheckAgain ==
  /\ OnForm /\ ~IsGuest /\ form.install = "needed" /\ form.repo # NoRepo
  /\ form' = [form EXCEPT !.install = "checking"]
  /\ checks' = checks \cup {form.repo}
  /\ UNCHANGED <<account, input, listed, db, calls, creates, forms, asked>>

(* The choices of the card.                                                *)
CardShown == OnForm /\ form.phase = "resolved" /\ form.repo # NoRepo

SetBranch(b) ==
  /\ CardShown /\ b \in Branches[form.repo] /\ b # form.branch
  /\ form' = [form EXCEPT !.branch = b]
  /\ UNCHANGED <<account, input, listed, db, calls, checks, creates, forms, asked>>

SetSource(s) ==
  /\ CardShown /\ s \in Langs[form.repo] /\ s # form.source
  /\ form' = [form EXCEPT !.source = s]
  /\ UNCHANGED <<account, input, listed, db, calls, checks, creates, forms, asked>>

SetDB ==
  /\ CardShown /\ HasDB[form.repo]
  /\ db' = ~db
  /\ UNCHANGED <<account, input, listed, form, calls, checks, creates, forms, asked>>

(* Mutant of Payload: the switch counts though it is hidden.               *)
PayloadAsSwitched ==
  [form |-> forms, repo |-> form.repo, branch |-> form.branch, source |-> form.source, db |-> db]

(* The arguments of createRun.                                             *)
Payload ==
  [form |-> forms, repo |-> form.repo, branch |-> form.branch, source |-> form.source,
   db |-> HasDB[form.repo] /\ db]

Launch ==
  /\ CardShown /\ ~form.launching
  /\ form.install # "checking" \* the button is disabled
  /\ IsGuest \/ form.install # "needed"
  /\ form' = [form EXCEPT !.launching = TRUE]
  /\ creates' = creates \cup {Payload}
  /\ UNCHANGED <<account, input, listed, db, calls, checks, forms, asked>>

(* createRun succeeds: the tab goes to the run, from wherever it is; if    *)
(* nobody is signed in AppLayout sends it to the login.                    *)
RunCreated(c) ==
  /\ c \in creates /\ creates' = creates \ {c}
  /\ IF SignedIn
       THEN Remount("run") /\ UNCHANGED from
       ELSE Remount("login") /\ from' = "run"
  /\ UNCHANGED <<user, status, asking, sent>>

(* createRun fails: a toast.                                               *)
CreateFails(c) ==
  /\ c \in creates /\ creates' = creates \ {c}
  /\ form' = IF c.form = forms THEN [form EXCEPT !.launching = FALSE] ELSE form
  /\ UNCHANGED <<account, input, listed, db, calls, checks, forms, asked>>

Next ==
  \/ BeginGitHub \/ GitHubReturns \/ BeginGuest \/ GuestAnswers \/ SignOut
  \/ SessionExpired \/ FollowLogo \/ OpenRun
  \/ SuggestionsCome \/ TimerFires \/ PressEnter \/ CheckAgain \/ SetDB \/ Launch
  \/ \E r \in Repos : Type(r) \/ SelectRepo(r) \/ CheckAnswers(r)
  \/ Type(NoText)
  \/ \E c \in calls : ResolveAnswers(c)
  \/ \E b \in UNION {Branches[r] : r \in Fine} : SetBranch(b)
  \/ \E s \in UNION {Langs[r] : r \in Fine} : SetSource(s)
  \/ \E c \in creates : RunCreated(c) \/ CreateFails(c)

Spec == Init /\ [][Next]_vars

-----------------------------------------------------------------------------
Phases == {"idle", "validating", "resolved", "error"}

(* Types, and: the login is never left disabled, an answer is awaited      *)
(* whenever its buttons are, whichever requests were made and refused and  *)
(* whenever a session expired. (The converse fails: an old call that finds *)
(* the session gone enables them while an answer is awaited.)              *)
TypeOK ==
  /\ user \in {"none", "guest", "github"}
  /\ status \in {"idle", "authenticating", "authenticated"}
  /\ place \in {"login", "github", "app", "run"} /\ from \in {"app", "run"}
  /\ asking \in 0 .. MaxAsks /\ sent \in BOOLEAN
  /\ input.text \in Repos \cup {NoText} /\ input.timer \in BOOLEAN
  /\ listed \in BOOLEAN /\ db \in BOOLEAN
  /\ form.phase \in Phases /\ form.repo \in Repos \cup {NoRepo}
  /\ form.install \in {"idle", "checking", "installed", "needed"}
  /\ form.launching \in BOOLEAN /\ form.seq \in 0 .. MaxSeq
  /\ \A c \in calls : c.ticket \in 1 .. form.seq /\ c.repo \in Repos
  /\ checks \subseteq Repos
  /\ forms \in 0 .. MaxForms
  /\ status = "authenticating" => asking > 0 \/ place = "github"

(* The card and the error are about the repository that was asked for      *)
(* last, in whichever order the answers come, and a form that shows its    *)
(* spinner still waits for that answer.                                    *)
ResolvedIsLatest ==
  /\ form.phase \in {"resolved", "error"} /\ form.repo # NoRepo => form.repo = asked
  /\ form.phase = "validating" => \E c \in calls : c.ticket = form.seq /\ c.repo = asked

(* What a run is asked for fits its repository: it can be migrated, the    *)
(* branch and the language are among its own, though both were chosen for  *)
(* another repository before, and a database migration is offered for it.  *)
LaunchFits ==
  \A c \in creates :
    /\ Kind[c.repo] = "fine"
    /\ c.branch \in Branches[c.repo] /\ c.source \in Langs[c.repo]
    /\ c.db => HasDB[c.repo]
==============================================================================
