---------------------------- MODULE SessionRefresh ----------------------------
(***************************************************************************)
(* The session of a browser and the rotation of its tokens: the stored     *)
(* session, the shared refresh and authedFetch of                          *)
(* frontend/src/lib/api.ts, sign-in and sign-out of auth-provider.tsx, and *)
(* Service.RefreshToken of backend/internal/auth/service.go, beside which  *)
(* guests are purged with their tokens (internal/guestcleanup).            *)
(*                                                                         *)
(* Every issue of an access and a refresh token is a numbered pair; 0 is   *)
(* no token. All tabs of the browser share the stored session; each has    *)
(* its own page: React state, refreshInFlight and calls under way.         *)
(***************************************************************************)
EXTENDS Integers, FiniteSets

CONSTANTS
  Tabs,       \* pages of one browser
  Users,      \* who may sign in
  Guests,     \* those of them who are guests: a sign-in as a guest is a new user
  NoUser,     \* nobody
  Calls,      \* the requests there can be at a time: a tab and a number
  MaxPairs,   \* bound of the model: pairs issued
  MaxTrouble, \* bound of the model: failures and reloads
  Faults      \* which of them may happen, see FaultKinds

(* net: the request or its answer is lost; db: a store call of the server  *)
(* fails; reload: the page is loaded again.                                *)
FaultKinds == {"net", "db", "reload"}

ASSUME ConstantsAssumption ==
  /\ NoUser \notin Users /\ Guests \subseteq Users
  /\ Calls \subseteq Tabs \X Nat
  /\ IsFiniteSet(Tabs) /\ IsFiniteSet(Calls)
  /\ MaxPairs \in Nat \ {0}
  /\ MaxTrouble \in Nat
  /\ Faults \subseteq FaultKinds

VARIABLES
  stored,   \* localStorage: whose session, and its pair
  react,    \* per tab: the session of AuthProvider's state
  inflight, \* per tab: refreshInFlight, see InFlight
  req,      \* per tab: the refresh request, on its way or in the server
  call,     \* per call of authedFetch: where it is
  token,    \* per call: the pair whose access token was sent with it
  issued,   \* pairs issued so far
  owner,    \* per pair: who it was issued to
  purged,   \* guests that were deleted, and with them the rows of their tokens
  revoked,  \* pairs with revoked_at set
  expired,  \* pairs whose refresh token is past its expires_at
  stale,    \* pairs whose access token has expired
  trouble,  \* failures and reloads so far
  clean     \* no exchange was cut short, no two tabs exchanged one pair

server    == <<issued, owner, purged, revoked, expired, stale>>
callState == <<call, token>>
vars      == <<stored, react, inflight, req, callState, server, trouble, clean>>

Pairs    == 1 .. MaxPairs
Sessions == [user : Users \union {NoUser}, pair : Pairs \union {0}]
NoSession == [user |-> NoUser, pair |-> 0]

(* refreshInFlight is null, a pending promise, or a promise that was       *)
(* settled before it was assigned and that nothing clears any more.        *)
InFlight == {"null", "pending", "settled"}
NoReq    == [at |-> "idle", pair |-> 0, new |-> 0, status |-> "none"]

(* Bound of the model: a call that was sent and an exchange that has begun *)
(* may still issue a pair each.                                            *)
Sent       == {c \in Calls : call[c] = "sent"}
Exchanging == {t \in Tabs : req[t].at \in {"get", "user", "revoke", "create"}}
Room       == issued + Cardinality(Sent) + Cardinality(Exchanging) < MaxPairs

(* The tokens of a purged guest have no rows any more.                     *)
Gone == {p \in 1 .. issued : owner[p] \in purged}

Usable(p) == p \in 1 .. issued /\ p \notin revoked \union expired \union Gone

-----------------------------------------------------------------------------
Init ==
  /\ stored   = NoSession
  /\ react    = [t \in Tabs |-> NoSession]
  /\ inflight = [t \in Tabs |-> "null"]
  /\ req      = [t \in Tabs |-> NoReq]
  /\ call     = [c \in Calls |-> "idle"]
  /\ token    = [c \in Calls |-> 0]
  /\ issued   = 0
  /\ owner    = [p \in Pairs |-> NoUser]
  /\ purged   = {}
  /\ revoked  = {}
  /\ expired  = {}
  /\ stale    = {}
  /\ trouble  = 0
  /\ clean    = TRUE

-----------------------------------------------------------------------------
(* Users and time.                                                         *)

(* completeGitHub, for a user or a guest the server has just issued a pair *)
(* to. A guest signs in without leaving the page; for GitHub see Reload.   *)
SignIn(t, u) ==
  /\ react[t].user = NoUser /\ u \notin purged
  /\ Room
  /\ issued' = issued + 1
  /\ owner'  = [owner EXCEPT ![issued'] = u]
  /\ stored' = [user |-> u, pair |-> issued']
  /\ react'  = [react EXCEPT ![t] = stored']
  /\ UNCHANGED <<inflight, req, callState, purged, revoked, expired, stale, trouble, clean>>

SignOut(t) ==
  /\ react[t].user # NoUser
  /\ stored' = NoSession
  /\ react'  = [react EXCEPT ![t] = NoSession]
  /\ UNCHANGED <<inflight, req, callState, server, trouble, clean>>

(* A request that is cut short never reached the server or was answered    *)
(* already with an error, or nobody knows how far the exchange got.        *)
CutShort(t) ==
  /\ \/ /\ req[t].at \in {"idle", "get"} \/ req[t].status \in {"401", "failed"}
        /\ UNCHANGED <<revoked, clean>>
     \/ /\ req[t].at \in {"get", "user", "revoke", "create"} \/ req[t].status = "ok"
        /\ revoked' \in {revoked, revoked \union {p \in {req[t].pair} : Usable(p)}}
        /\ clean' = FALSE
  /\ UNCHANGED <<issued, owner, purged, expired, stale>>

(* A page starts with the stored session, if it names a user; its calls    *)
(* and its refresh are gone.                                               *)
Reload(t) ==
  /\ "reload" \in Faults
  /\ trouble < MaxTrouble
  /\ trouble'  = trouble + 1
  /\ react'    = [react EXCEPT ![t] =
                    IF stored.user # NoUser /\ stored.pair # 0 THEN stored ELSE NoSession]
  /\ inflight' = [inflight EXCEPT ![t] = "null"]
  /\ req'      = [req EXCEPT ![t] = NoReq]
  /\ call'     = [c \in Calls |-> IF c[1] = t THEN "idle" ELSE call[c]]
  /\ token'    = [c \in Calls |-> IF c[1] = t THEN 0 ELSE token[c]]
  /\ CutShort(t)
  /\ UNCHANGED stored

AccessExpires(p) ==
  /\ p \in 1 .. issued
  /\ stale' = stale \union {p}
  /\ UNCHANGED <<stored, react, inflight, req, callState, issued, owner, purged, revoked, expired, trouble,
                 clean>>

RefreshExpires(p) ==
  /\ p \in stale
  /\ expired' = expired \union {p}
  /\ UNCHANGED <<stored, react, inflight, req, callState, issued, owner, purged, revoked, stale, trouble,
                 clean>>

(* Cleaner.purge, GUEST_SESSION_TTL after the guest came: his refresh      *)
(* token lives longer. Nobody tells his browser.                           *)
Purge(u) ==
  /\ u \in Guests \ purged
  /\ \E p \in 1 .. issued : owner[p] = u
  /\ purged' = purged \union {u}
  /\ UNCHANGED <<stored, react, inflight, req, callState, issued, owner, revoked, expired, stale,
                 trouble, clean>>

-----------------------------------------------------------------------------
(* The page.                                                               *)

(* Mutant of Refresh: nobody asks whether there is a refresh token.        *)
RefreshWithoutToken(t) ==
  /\ inflight' = [inflight EXCEPT ![t] = "pending"]
  /\ req' = IF inflight[t] # "null" THEN req
            ELSE [req EXCEPT ![t] = [NoReq EXCEPT !.at = "get", !.pair = stored.pair]]
  /\ UNCHANGED <<stored, react, clean>>

(* refreshSession, up to the request. Without a refresh token the async    *)
(* function ends before its promise is assigned: finally has already set   *)
(* refreshInFlight to null. onExpired runs within endSession.              *)
Refresh(t) ==
  \/ /\ inflight[t] # "null"
     /\ UNCHANGED <<inflight, req, stored, react, clean>>
  \/ /\ inflight[t] = "null"
     /\ stored.pair = 0
     /\ inflight' = [inflight EXCEPT ![t] = "settled"]
     /\ stored'   = NoSession
     /\ react'    = [react EXCEPT ![t] = NoSession]
     /\ UNCHANGED <<req, clean>>
  \/ /\ inflight[t] = "null"
     /\ stored.pair # 0
     /\ inflight' = [inflight EXCEPT ![t] = "pending"]
     /\ req' = [req EXCEPT ![t] = [NoReq EXCEPT !.at = "get", !.pair = stored.pair]]
     /\ clean' = (clean /\ \A u \in Tabs : req[u].pair # stored.pair)
     /\ UNCHANGED <<stored, react>>

(* Where a call stands after refreshSession: it awaits the shared promise, *)
(* or goes on at once with the null of a settled one.                      *)
AfterRefresh(t) == IF inflight'[t] = "pending" THEN "waiting" ELSE "idle"

(* authedFetch: a call carries the stored token, or else the one of the    *)
(* React state.                                                            *)
Fetch(c) ==
  /\ call[c] = "idle"
  /\ react[c[1]].user # NoUser
  /\ Room
  /\ call'  = [call EXCEPT ![c] = "sent"]
  /\ token' = [token EXCEPT ![c] = IF stored.pair # 0 THEN stored.pair ELSE react[c[1]].pair]
  /\ UNCHANGED <<stored, react, inflight, req, server, trouble, clean>>

(* The api answers, or the fetch is rejected and the caller gives up.      *)
Answered(c) ==
  /\ \/ call[c] = "sent" /\ token[c] \notin stale
     \/ call[c] = "retried"
     \/ call[c] = "sent" /\ "net" \in Faults
  /\ call'  = [call EXCEPT ![c] = "idle"]
  /\ token' = [token EXCEPT ![c] = 0]
  /\ UNCHANGED <<stored, react, inflight, req, server, trouble, clean>>

Unauthorized(c) ==
  /\ call[c] = "sent"
  /\ token[c] \in stale
  /\ Refresh(c[1])
  /\ call'  = [call EXCEPT ![c] = AfterRefresh(c[1])]
  /\ token' = [token EXCEPT ![c] = 0]
  /\ UNCHANGED <<server, trouble>>

(* ensureFreshToken, of the effect that opens the event stream: refreshes  *)
(* without a round trip when the stored token has expired.                 *)
EnsureFresh(c) ==
  /\ call[c] = "idle"
  /\ react[c[1]].user # NoUser
  /\ Room
  /\ stored.pair = 0 \/ stored.pair \in stale
  /\ Refresh(c[1])
  /\ call' = [call EXCEPT ![c] = AfterRefresh(c[1])]
  /\ UNCHANGED <<token, server, trouble>>

(* The answer of the refresh: its pair replaces the one stored by then,    *)
(* whosever that is; a 401 ends the session, another failure keeps it. The *)
(* calls that waited retry with the new token, or return what they had.    *)
Settle(t, new, told) ==
  LET ok == req[t].status = "ok"
      ended == req[t].status = "401"
      waiting == {c \in told : call[c] = "waiting"} IN
  /\ req[t].at = "answer"
  /\ stored' = IF ended THEN NoSession ELSE IF ok THEN [stored EXCEPT !.pair = new] ELSE stored
  /\ react'  = IF ended THEN [react EXCEPT ![t] = NoSession] ELSE react
  /\ call'   = [c \in Calls |-> IF c \notin waiting THEN call[c]
                                ELSE IF ok THEN "retried" ELSE "idle"]
  /\ inflight' = [inflight EXCEPT ![t] = "null"]
  /\ req'      = [req EXCEPT ![t] = NoReq]
  /\ UNCHANGED <<token, server, trouble, clean>>

CallsOf(t) == {c \in Calls : c[1] = t}

(* Mutants of RefreshEnds: the new pair is not stored; one caller is told. *)
RefreshEndsNotStored(t) == Settle(t, stored.pair, CallsOf(t))
RefreshEndsOneCaller(t) == Settle(t, req[t].new, {<<t, 1>>})

RefreshEnds(t) == Settle(t, req[t].new, CallsOf(t))

-----------------------------------------------------------------------------
(* The server: GetRefreshToken, GetUserByID with the memberships,          *)
(* RevokeRefreshToken, CreateRefreshToken, without a transaction.          *)
Respond(t, status) == req' = [req EXCEPT ![t].at = "answer", ![t].status = status]

(* The query finds no row that is revoked, expired or gone.                *)
GetRefreshToken(t) ==
  /\ req[t].at = "get"
  /\ IF Usable(req[t].pair) THEN req' = [req EXCEPT ![t].at = "user"]
     ELSE Respond(t, "401")
  /\ UNCHANGED <<stored, react, inflight, callState, server, trouble, clean>>

(* A user that is gone by now is an error like any other: a 500.           *)
GetUser(t) ==
  /\ req[t].at = "user"
  /\ IF req[t].pair \in Gone THEN Respond(t, "failed")
     ELSE req' = [req EXCEPT ![t].at = "revoke"]
  /\ UNCHANGED <<stored, react, inflight, callState, server, trouble, clean>>

(* An UPDATE, of no row if the token is gone.                              *)
RevokeRefreshToken(t) ==
  /\ req[t].at = "revoke"
  /\ revoked' = IF req[t].pair \in Gone THEN revoked ELSE revoked \union {req[t].pair}
  /\ req' = [req EXCEPT ![t].at = "create"]
  /\ UNCHANGED <<stored, react, inflight, callState, issued, owner, purged, expired, stale, trouble,
                 clean>>

(* The new row refers to its user.                                         *)
CreateRefreshToken(t) ==
  /\ req[t].at = "create"
  /\ IF req[t].pair \in Gone
       THEN Respond(t, "failed") /\ UNCHANGED <<issued, owner>>
       ELSE /\ issued' = issued + 1
            /\ owner'  = [owner EXCEPT ![issued'] = owner[req[t].pair]]
            /\ req' = [req EXCEPT ![t].at = "answer", ![t].status = "ok", ![t].new = issued']
  /\ UNCHANGED <<stored, react, inflight, callState, purged, revoked, expired, stale, trouble, clean>>

(* Mutant of StoreFails: an error of the store is taken for a bad token.   *)
StoreFailsUnauthorized(t) ==
  /\ "db" \in Faults
  /\ trouble < MaxTrouble
  /\ trouble' = trouble + 1
  /\ req[t].at \in {"get", "user", "revoke", "create"}
  /\ Respond(t, "401")
  /\ clean' = (clean /\ req[t].pair \notin revoked)
  /\ UNCHANGED <<stored, react, inflight, callState, server>>

(* A store call fails and changes nothing: a 500.                          *)
StoreFails(t) ==
  /\ "db" \in Faults
  /\ trouble < MaxTrouble
  /\ trouble' = trouble + 1
  /\ req[t].at \in {"get", "user", "revoke", "create"}
  /\ Respond(t, "failed")
  /\ clean' = (clean /\ req[t].pair \notin revoked)
  /\ UNCHANGED <<stored, react, inflight, callState, server>>

(* The request or its answer is lost: the fetch is rejected.               *)
Lose(t) ==
  /\ "net" \in Faults
  /\ trouble < MaxTrouble
  /\ trouble' = trouble + 1
  /\ req[t].at # "idle" /\ req[t].status # "failed"
  /\ Respond(t, "failed")
  /\ CutShort(t)
  /\ UNCHANGED <<stored, react, inflight, callState>>

-----------------------------------------------------------------------------
ServerStep(t) ==
  GetRefreshToken(t) \/ GetUser(t) \/ RevokeRefreshToken(t) \/ CreateRefreshToken(t)
CallStep(c)   == Answered(c) \/ Unauthorized(c)

Next ==
  \/ \E t \in Tabs : \/ \E u \in Users : SignIn(t, u)
                     \/ SignOut(t) \/ Reload(t) \/ RefreshEnds(t)
                     \/ ServerStep(t) \/ StoreFails(t) \/ Lose(t)
  \/ \E u \in Guests : Purge(u)
  \/ \E p \in Pairs : AccessExpires(p) \/ RefreshExpires(p)
  \/ \E c \in Calls : Fetch(c) \/ EnsureFresh(c) \/ CallStep(c)

Spec == Init /\ [][Next]_vars

(* The server serves the requests it gets, and the browser delivers the    *)
(* answers: a fetch resolves or is rejected in the end.                    *)
Fairness ==
  /\ \A t \in Tabs : WF_vars(ServerStep(t)) /\ WF_vars(RefreshEnds(t))
  /\ \A c \in Calls : WF_vars(CallStep(c))

FairSpec == Spec /\ Fairness

-----------------------------------------------------------------------------
(* The types of the variables: in particular a refresh that is under way   *)
(* presents a token, and its answer brings a pair if it is a good one.     *)
Requests ==
  [at     : {"idle", "get", "user", "revoke", "create", "answer"},
   pair   : Pairs \union {0},
   new    : Pairs \union {0},
   status : {"none", "ok", "401", "failed"}]

Coherent(r) ==
  /\ r.pair = 0 <=> r.at = "idle"
  /\ r.status # "none" <=> r.at = "answer"
  /\ r.status = "ok" => r.new # 0

TypeOK ==
  /\ stored \in Sessions
  /\ react \in [Tabs -> Sessions]
  /\ inflight \in [Tabs -> InFlight]
  /\ req \in [Tabs -> Requests] /\ \A t \in Tabs : Coherent(req[t])
  /\ call \in [Calls -> {"idle", "sent", "waiting", "retried"}]
  /\ token \in [Calls -> Pairs \union {0}]
  /\ issued \in 0 .. MaxPairs
  /\ owner \in [Pairs -> Users \union {NoUser}] /\ purged \subseteq Guests
  /\ revoked \subseteq Pairs
  /\ expired \subseteq Pairs
  /\ stale \subseteq Pairs
  /\ trouble \in 0 .. MaxTrouble
  /\ clean \in BOOLEAN

(* However calls, tabs, sign-ins and refreshes interleave, the stored      *)
(* refresh token can be exchanged as long as it has not expired, or is     *)
(* being exchanged right now: unless an exchange was cut short after it    *)
(* reached the server, or two tabs exchanged one token, or the guest it    *)
(* belongs to was purged.                                                  *)
Rotating(p) ==
  \E t \in Tabs : req[t].pair = p /\ (req[t].at = "create" \/ req[t].status = "ok")

NotStranded ==
  clean /\ stored.pair \in revoked /\ stored.pair \notin Gone => Rotating(stored.pair)

(* Under the same condition a refresh is refused only because its token    *)
(* has expired or its guest was purged (after 24 hours, where the token    *)
(* lives for 168): whatever else fails keeps the user signed in.           *)
OnlyExpiredRefused ==
  clean => \A t \in Tabs : req[t].status = "401" => req[t].pair \in expired \union Gone

(* Every call and every refresh it shares ends, whatever happens meanwhile.*)
CallsReturn == \A c \in Calls : call[c] # "idle" ~> call[c] = "idle"

=============================================================================
