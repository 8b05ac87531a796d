------------------------ MODULE SessionRefreshProofs ------------------------
(***************************************************************************)
(* Proofs about SessionRefresh: its types and the bound on the pairs, that *)
(* the stored token is never left revoked, and that only an expired or a   *)
(* purged token is refused, for any number of tabs, calls and users and    *)
(* every failure the module knows.                                         *)
(***************************************************************************)
EXTENDS SessionRefresh, FiniteSetTheorems, TLAPS

-----------------------------------------------------------------------------
(* Counting.                                                               *)

LEMMA NotMore ==
  ASSUME NEW S, IsFiniteSet(S), NEW T, T \subseteq S
  PROVE  Cardinality(T) \in Nat /\ Cardinality(T) <= Cardinality(S)
BY FS_Subset, FS_CardinalityType, SMT

LEMMA OneMore ==
  ASSUME NEW S, IsFiniteSet(S), NEW x, NEW T, T \subseteq S \union {x}
  PROVE  Cardinality(T) \in Nat /\ Cardinality(T) <= Cardinality(S) + 1
<1>1. Cardinality(S) \in Nat
  BY FS_CardinalityType
<1>2. IsFiniteSet(S \union {x}) /\ Cardinality(S \union {x}) <= Cardinality(S) + 1
  BY <1>1, FS_AddElement
<1>3. Cardinality(S \union {x}) \in Nat
  BY <1>2, FS_CardinalityType
<1> QED BY <1>1, <1>2, <1>3, NotMore

LEMMA OneLess ==
  ASSUME NEW S, IsFiniteSet(S), NEW x \in S, NEW T, T \subseteq S \ {x}
  PROVE  Cardinality(T) \in Nat /\ Cardinality(T) + 1 <= Cardinality(S)
<1>1. IsFiniteSet(S \ {x}) /\ Cardinality(S \ {x}) = Cardinality(S) - 1
  BY FS_RemoveElement
<1>2. Cardinality(S) \in Nat
  BY FS_CardinalityType
<1> QED BY <1>1, <1>2, NotMore

LEMMA Counts ==
  /\ IsFiniteSet(Sent) /\ Cardinality(Sent) \in Nat
  /\ IsFiniteSet(Exchanging) /\ Cardinality(Exchanging) \in Nat
BY ConstantsAssumption, FS_Subset, FS_CardinalityType DEF Sent, Exchanging

-----------------------------------------------------------------------------
(* Types. What is on its way keeps a reserve of pairs, so that the server  *)
(* can always issue the one it owes.                                       *)
Budget  == issued + Cardinality(Sent) + Cardinality(Exchanging) <= MaxPairs
TypeInv == TypeOK /\ Budget

LEMMA BudgetKept ==
  ASSUME TypeInv, issued' = issued, Sent' \subseteq Sent, Exchanging' \subseteq Exchanging
  PROVE  Budget'
<1>1. issued \in Nat /\ MaxPairs \in Nat
  BY ConstantsAssumption DEF TypeInv, TypeOK
<1>2. Cardinality(Sent') \in Nat /\ Cardinality(Sent') <= Cardinality(Sent)
  BY Counts, NotMore
<1>3. Cardinality(Exchanging') \in Nat /\ Cardinality(Exchanging') <= Cardinality(Exchanging)
  BY Counts, NotMore
<1> QED BY <1>1, <1>2, <1>3, Counts DEF TypeInv, Budget

(* The reserve of a call that is refused goes to the exchange it starts.   *)
LEMMA BudgetMoved ==
  ASSUME TypeInv, issued' = issued, NEW c \in Sent, NEW t,
         Sent' \subseteq Sent \ {c}, Exchanging' \subseteq Exchanging \union {t}
  PROVE  Budget'
<1>1. issued \in Nat /\ MaxPairs \in Nat
  BY ConstantsAssumption DEF TypeInv, TypeOK
<1>2. Cardinality(Sent') \in Nat /\ Cardinality(Sent') + 1 <= Cardinality(Sent)
  BY Counts, OneLess
<1>3. Cardinality(Exchanging') \in Nat /\ Cardinality(Exchanging') <= Cardinality(Exchanging) + 1
  BY Counts, OneMore
<1> QED BY <1>1, <1>2, <1>3, Counts DEF TypeInv, Budget

LEMMA BudgetTaken ==
  ASSUME TypeInv, Room, issued' = issued, NEW x,
         \/ Sent' \subseteq Sent \union {x} /\ Exchanging' \subseteq Exchanging
         \/ Sent' \subseteq Sent /\ Exchanging' \subseteq Exchanging \union {x}
  PROVE  Budget'
<1>1. issued \in Nat /\ MaxPairs \in Nat
  BY ConstantsAssumption DEF TypeInv, TypeOK
<1>2. CASE Sent' \subseteq Sent \union {x} /\ Exchanging' \subseteq Exchanging
  <2>1. Cardinality(Sent') \in Nat /\ Cardinality(Sent') <= Cardinality(Sent) + 1
    BY <1>2, Counts, OneMore
  <2>2. Cardinality(Exchanging') \in Nat /\ Cardinality(Exchanging') <= Cardinality(Exchanging)
    BY <1>2, Counts, NotMore
  <2> QED BY <1>1, <2>1, <2>2, Counts DEF Room, Budget
<1>3. CASE Sent' \subseteq Sent /\ Exchanging' \subseteq Exchanging \union {x}
  <2>1. Cardinality(Sent') \in Nat /\ Cardinality(Sent') <= Cardinality(Sent)
    BY <1>3, Counts, NotMore
  <2>2. Cardinality(Exchanging') \in Nat /\ Cardinality(Exchanging') <= Cardinality(Exchanging) + 1
    BY <1>3, Counts, OneMore
  <2> QED BY <1>1, <2>1, <2>2, Counts DEF Room, Budget
<1> QED BY <1>2, <1>3

(* A request is a record with these fields, and NoReq is one.              *)
LEMMA RequestFields ==
  /\ NoReq \in Requests /\ Coherent(NoReq)
  /\ NoReq.at = "idle" /\ NoReq.pair = 0 /\ NoReq.new = 0 /\ NoReq.status = "none"
  /\ NoSession \in Sessions /\ NoSession.pair = 0
BY DEF NoReq, Requests, Coherent, NoSession, Sessions

LEMMA InitTypes == Init => TypeInv
<1> SUFFICES ASSUME Init PROVE TypeInv
  OBVIOUS
<1>1. TypeOK
  BY RequestFields, ConstantsAssumption DEF Init, TypeOK, InFlight
<1>2. Sent = {} /\ Exchanging = {}
  BY RequestFields DEF Init, Sent, Exchanging
<1>3. Budget
  BY <1>2, FS_EmptySet, ConstantsAssumption DEF Init, Budget
<1> QED BY <1>1, <1>3 DEF TypeInv

(* What refreshSession may change.                                         *)
LEMMA RefreshTypes ==
  ASSUME TypeInv, NEW t \in Tabs, Refresh(t)
  PROVE  /\ stored' \in Sessions
         /\ react' \in [Tabs -> Sessions]
         /\ inflight' \in [Tabs -> InFlight]
         /\ req' \in [Tabs -> Requests] /\ \A u \in Tabs : Coherent(req'[u])
         /\ clean' \in BOOLEAN
         /\ Exchanging' \subseteq Exchanging \union {t}
<1>1. CASE UNCHANGED <<inflight, req, stored, react, clean>>
  BY <1>1 DEF TypeInv, TypeOK, Exchanging
<1>2. CASE /\ stored.pair = 0
           /\ inflight' = [inflight EXCEPT ![t] = "settled"]
           /\ stored' = NoSession
           /\ react' = [react EXCEPT ![t] = NoSession]
           /\ UNCHANGED <<req, clean>>
  BY <1>2, RequestFields DEF TypeInv, TypeOK, Exchanging, InFlight
<1>3. CASE /\ stored.pair # 0
           /\ inflight' = [inflight EXCEPT ![t] = "pending"]
           /\ req' = [req EXCEPT ![t] = [NoReq EXCEPT !.at = "get", !.pair = stored.pair]]
           /\ clean' = (clean /\ \A u \in Tabs : req[u].pair # stored.pair)
           /\ UNCHANGED <<stored, react>>
  <2>1. stored.pair \in Pairs
    BY <1>3 DEF TypeInv, TypeOK, Sessions
  <2> DEFINE r == [NoReq EXCEPT !.at = "get", !.pair = stored.pair]
  <2>2. r \in Requests /\ Coherent(r)
    BY <2>1, <1>3 DEF NoReq, Requests, Coherent
  <2>3. req' \in [Tabs -> Requests] /\ \A u \in Tabs : Coherent(req'[u])
    BY <1>3, <2>2 DEF TypeInv, TypeOK
  <2>4. Exchanging' \subseteq Exchanging \union {t}
    BY <1>3 DEF Exchanging, TypeInv, TypeOK
  <2>5. inflight' \in [Tabs -> InFlight] /\ clean' \in BOOLEAN
    BY <1>3 DEF TypeInv, TypeOK, InFlight
  <2> QED BY <1>3, <2>3, <2>4, <2>5 DEF TypeInv, TypeOK
<1> QED BY <1>1, <1>2, <1>3 DEF Refresh

LEMMA AfterRefreshTypes ==
  ASSUME NEW t PROVE AfterRefresh(t) \in {"waiting", "idle"}
BY DEF AfterRefresh

LEMMA SignInTypes ==
  ASSUME TypeInv, NEW t \in Tabs, NEW u \in Users, SignIn(t, u)
  PROVE  TypeInv'
<1>1. issued \in Nat /\ MaxPairs \in Nat
  BY ConstantsAssumption DEF TypeInv, TypeOK
<1>2. Sent' = Sent /\ Exchanging' = Exchanging
  BY DEF SignIn, Sent, Exchanging, callState
<1>3. Budget' /\ issued' \in Pairs
  BY <1>1, <1>2, Counts DEF SignIn, Room, Budget, Pairs
<1>4. stored' \in Sessions
  BY <1>3 DEF SignIn, Sessions
<1>5. owner' \in [Pairs -> Users \union {NoUser}] /\ react' \in [Tabs -> Sessions]
  BY <1>4 DEF SignIn, TypeInv, TypeOK
<1>6. issued' \in 0 .. MaxPairs
  BY <1>1, <1>3 DEF Pairs
<1>7. TypeOK'
  BY <1>4, <1>5, <1>6 DEF SignIn, TypeInv, TypeOK, callState
<1> QED BY <1>3, <1>7 DEF TypeInv

LEMMA SignOutTypes ==
  ASSUME TypeInv, NEW t \in Tabs, SignOut(t)
  PROVE  TypeInv'
<1>1. TypeOK'
  BY RequestFields DEF SignOut, TypeInv, TypeOK, callState, server
<1>2. Sent' = Sent /\ Exchanging' = Exchanging /\ issued' = issued
  BY DEF SignOut, Sent, Exchanging, callState, server
<1> QED BY <1>1, <1>2, BudgetKept DEF TypeInv

LEMMA CutShortTypes ==
  ASSUME TypeInv, NEW t \in Tabs, CutShort(t)
  PROVE  /\ issued' = issued /\ stale' = stale /\ expired' = expired
         /\ owner' = owner /\ purged' = purged
         /\ revoked' \subseteq Pairs
         /\ clean' \in BOOLEAN
<1>1. {p \in {req[t].pair} : Usable(p)} \subseteq Pairs
  BY DEF Usable, TypeInv, TypeOK, Requests, Pairs
<1> QED BY <1>1 DEF CutShort, TypeInv, TypeOK

LEMMA ReloadTypes ==
  ASSUME TypeInv, NEW t \in Tabs, Reload(t)
  PROVE  TypeInv'
<1>1. trouble' \in 0 .. MaxTrouble
  BY ConstantsAssumption DEF Reload, TypeInv, TypeOK
<1>2. req' \in [Tabs -> Requests] /\ \A u \in Tabs : Coherent(req'[u])
  BY RequestFields DEF Reload, TypeInv, TypeOK
<1>3. react' \in [Tabs -> Sessions] /\ inflight' \in [Tabs -> InFlight]
  BY RequestFields DEF Reload, TypeInv, TypeOK, InFlight
<1>4. /\ call' \in [Calls -> {"idle", "sent", "waiting", "retried"}]
      /\ token' \in [Calls -> Pairs \union {0}]
  BY DEF Reload, TypeInv, TypeOK
<1>5. TypeOK'
  BY <1>1, <1>2, <1>3, <1>4, CutShortTypes DEF Reload, TypeInv, TypeOK
<1>6. Sent' \subseteq Sent /\ Exchanging' \subseteq Exchanging
  BY RequestFields DEF Reload, Sent, Exchanging, TypeInv, TypeOK
<1> QED BY <1>5, <1>6, CutShortTypes, BudgetKept DEF TypeInv, Reload

LEMMA ExpiryTypes ==
  ASSUME TypeInv, NEW p \in Pairs, AccessExpires(p) \/ RefreshExpires(p)
  PROVE  TypeInv'
<1>1. TypeOK'
  BY DEF AccessExpires, RefreshExpires, TypeInv, TypeOK, callState
<1>2. Sent' = Sent /\ Exchanging' = Exchanging /\ issued' = issued
  BY DEF AccessExpires, RefreshExpires, Sent, Exchanging, callState
<1> QED BY <1>1, <1>2, BudgetKept DEF TypeInv

LEMMA PurgeTypes ==
  ASSUME TypeInv, NEW u \in Guests, Purge(u)
  PROVE  TypeInv'
<1>1. TypeOK'
  BY DEF Purge, TypeInv, TypeOK, callState
<1>2. Sent' = Sent /\ Exchanging' = Exchanging /\ issued' = issued
  BY DEF Purge, Sent, Exchanging, callState
<1> QED BY <1>1, <1>2, BudgetKept DEF TypeInv

LEMMA FetchTypes ==
  ASSUME TypeInv, NEW c \in Calls, Fetch(c)
  PROVE  TypeInv'
<1>1. c[1] \in Tabs
  BY ConstantsAssumption
<1>2. token' \in [Calls -> Pairs \union {0}]
  BY <1>1 DEF Fetch, TypeInv, TypeOK, Sessions
<1>3. TypeOK'
  BY <1>2 DEF Fetch, TypeInv, TypeOK, server
<1>4. Sent' \subseteq Sent \union {c} /\ Exchanging' = Exchanging /\ issued' = issued
  BY DEF Fetch, Sent, Exchanging, TypeInv, TypeOK, server
<1> QED BY <1>3, <1>4, BudgetTaken DEF TypeInv, Fetch

LEMMA AnsweredTypes ==
  ASSUME TypeInv, NEW c \in Calls, Answered(c)
  PROVE  TypeInv'
<1>1. TypeOK'
  BY DEF Answered, TypeInv, TypeOK, server
<1>2. Sent' \subseteq Sent /\ Exchanging' = Exchanging /\ issued' = issued
  BY DEF Answered, Sent, Exchanging, TypeInv, TypeOK, server
<1> QED BY <1>1, <1>2, BudgetKept DEF TypeInv

LEMMA UnauthorizedTypes ==
  ASSUME TypeInv, NEW c \in Calls, Unauthorized(c)
  PROVE  TypeInv'
<1>1. c[1] \in Tabs
  BY ConstantsAssumption
<1>2. Refresh(c[1])
  BY DEF Unauthorized
<1>3. /\ call' \in [Calls -> {"idle", "sent", "waiting", "retried"}]
      /\ token' \in [Calls -> Pairs \union {0}]
  BY AfterRefreshTypes DEF Unauthorized, TypeInv, TypeOK
<1>4. TypeOK'
  BY <1>1, <1>2, <1>3, RefreshTypes DEF Unauthorized, TypeInv, TypeOK, server
<1>5. c \in Sent /\ Sent' \subseteq Sent \ {c} /\ issued' = issued
  BY AfterRefreshTypes DEF Unauthorized, Sent, TypeInv, TypeOK, server
<1> QED BY <1>1, <1>2, <1>4, <1>5, RefreshTypes, BudgetMoved DEF TypeInv

LEMMA EnsureFreshTypes ==
  ASSUME TypeInv, NEW c \in Calls, EnsureFresh(c)
  PROVE  TypeInv'
<1>1. c[1] \in Tabs
  BY ConstantsAssumption
<1>2. Refresh(c[1]) /\ Room
  BY DEF EnsureFresh
<1>3. call' \in [Calls -> {"idle", "sent", "waiting", "retried"}]
  BY AfterRefreshTypes DEF EnsureFresh, TypeInv, TypeOK
<1>4. TypeOK'
  BY <1>1, <1>2, <1>3, RefreshTypes DEF EnsureFresh, TypeInv, TypeOK, server
<1>5. Sent' \subseteq Sent /\ issued' = issued
  BY AfterRefreshTypes DEF EnsureFresh, Sent, TypeInv, TypeOK, server
<1> QED BY <1>1, <1>2, <1>4, <1>5, RefreshTypes, BudgetTaken DEF TypeInv

LEMMA RefreshEndsTypes ==
  ASSUME TypeInv, NEW t \in Tabs, RefreshEnds(t)
  PROVE  TypeInv'
<1>1. req[t] \in Requests /\ stored \in Sessions
  BY DEF TypeInv, TypeOK
<1>2. [stored EXCEPT !.pair = req[t].new] \in Sessions
  BY <1>1 DEF Requests, Sessions
<1>3. stored' \in Sessions
  BY <1>1, <1>2, RequestFields DEF RefreshEnds, Settle
<1>4. react' \in [Tabs -> Sessions] /\ inflight' \in [Tabs -> InFlight]
  BY RequestFields DEF RefreshEnds, Settle, TypeInv, TypeOK, InFlight
<1>5. req' \in [Tabs -> Requests] /\ \A u \in Tabs : Coherent(req'[u])
  BY RequestFields DEF RefreshEnds, Settle, TypeInv, TypeOK
<1>6. call' \in [Calls -> {"idle", "sent", "waiting", "retried"}]
  BY DEF RefreshEnds, Settle, TypeInv, TypeOK
<1>7. TypeOK'
  BY <1>3, <1>4, <1>5, <1>6 DEF RefreshEnds, Settle, TypeInv, TypeOK, server
<1>8. Sent' \subseteq Sent /\ Exchanging' \subseteq Exchanging /\ issued' = issued
  BY RequestFields DEF RefreshEnds, Settle, Sent, Exchanging, TypeInv, TypeOK, server
<1> QED BY <1>7, <1>8, BudgetKept DEF TypeInv

(* An answer without a pair, or the next call of the server.               *)
LEMMA RespondTypes ==
  ASSUME TypeInv, NEW t \in Tabs, req[t].at # "idle",
         NEW status \in {"401", "failed"}, Respond(t, status)
  PROVE  /\ req' \in [Tabs -> Requests] /\ \A u \in Tabs : Coherent(req'[u])
         /\ Exchanging' \subseteq Exchanging
<1> DEFINE r == [req[t] EXCEPT !.at = "answer", !.status = status]
<1>1. r \in Requests /\ Coherent(r)
  BY DEF Requests, Coherent, TypeInv, TypeOK
<1>2. req' = [req EXCEPT ![t] = r]
  BY DEF Respond, TypeInv, TypeOK
<1>3. r.at = "answer"
  BY DEF TypeInv, TypeOK, Requests
<1> QED BY <1>1, <1>2, <1>3 DEF TypeInv, TypeOK, Exchanging

(* The server goes on to its next statement, or answers with an error.     *)
LEMMA ReadTypes ==
  ASSUME TypeInv, NEW t \in Tabs, NEW from, NEW to,
         <<from, to>> \in {<<"get", "user">>, <<"user", "revoke">>},
         req[t].at = from,
         \/ req' = [req EXCEPT ![t].at = to]
         \/ \E status \in {"401", "failed"} : Respond(t, status),
         UNCHANGED <<stored, react, inflight, callState, server, trouble, clean>>
  PROVE  TypeInv'
<1>1. /\ req' \in [Tabs -> Requests] /\ \A u \in Tabs : Coherent(req'[u])
      /\ Exchanging' \subseteq Exchanging
  <2>1. CASE \E status \in {"401", "failed"} : Respond(t, status)
    BY <2>1, RespondTypes
  <2>2. CASE req' = [req EXCEPT ![t].at = to]
    <3> DEFINE r == [req[t] EXCEPT !.at = to]
    <3>1. r \in Requests /\ Coherent(r)
      BY DEF Requests, Coherent, TypeInv, TypeOK
    <3>2. req' = [req EXCEPT ![t] = r]
      BY <2>2 DEF TypeInv, TypeOK
    <3> QED BY <3>1, <3>2 DEF TypeInv, TypeOK, Exchanging
  <2> QED BY <2>1, <2>2
<1>2. TypeOK'
  BY <1>1 DEF TypeInv, TypeOK, callState, server
<1>3. Sent' = Sent /\ issued' = issued
  BY DEF Sent, callState, server
<1> QED BY <1>1, <1>2, <1>3, BudgetKept DEF TypeInv

LEMMA GetTypes ==
  ASSUME TypeInv, NEW t \in Tabs, GetRefreshToken(t) \/ GetUser(t)
  PROVE  TypeInv'
BY ReadTypes DEF GetRefreshToken, GetUser

LEMMA RevokeTypes ==
  ASSUME TypeInv, NEW t \in Tabs, RevokeRefreshToken(t)
  PROVE  TypeInv'
<1> DEFINE r == [req[t] EXCEPT !.at = "create"]
<1>1. r \in Requests /\ Coherent(r)
  BY DEF RevokeRefreshToken, Requests, Coherent, TypeInv, TypeOK
<1>2. req' = [req EXCEPT ![t] = r]
  BY DEF RevokeRefreshToken, TypeInv, TypeOK
<1>3. req[t].pair \in Pairs
  BY DEF RevokeRefreshToken, Coherent, Requests, TypeInv, TypeOK
<1>4. TypeOK'
  BY <1>1, <1>2, <1>3 DEF RevokeRefreshToken, TypeInv, TypeOK, callState
<1>5. Exchanging' \subseteq Exchanging
  BY <1>2 DEF RevokeRefreshToken, Exchanging, TypeInv, TypeOK
<1>6. Sent' = Sent /\ issued' = issued
  BY DEF RevokeRefreshToken, Sent, callState
<1> QED BY <1>4, <1>5, <1>6, BudgetKept DEF TypeInv

LEMMA CreateTypes ==
  ASSUME TypeInv, NEW t \in Tabs, CreateRefreshToken(t)
  PROVE  TypeInv'
<1>0. CASE req[t].pair \in Gone
  <2>1. Respond(t, "failed") /\ req[t].at # "idle" /\ UNCHANGED <<issued, owner>>
    BY <1>0 DEF CreateRefreshToken
  <2>2. TypeOK'
    BY <2>1, RespondTypes DEF CreateRefreshToken, TypeInv, TypeOK, callState
  <2>3. Sent' = Sent
    BY DEF CreateRefreshToken, Sent, callState
  <2> QED BY <2>1, <2>2, <2>3, RespondTypes, BudgetKept DEF TypeInv
<1> SUFFICES ASSUME req[t].pair \notin Gone  PROVE TypeInv'
  BY <1>0
<1>1. issued \in Nat /\ MaxPairs \in Nat
  BY ConstantsAssumption DEF TypeInv, TypeOK
<1> DEFINE r == [req[t] EXCEPT !.at = "answer", !.status = "ok", !.new = issued + 1]
<1>2. req' = [req EXCEPT ![t] = r]
  BY DEF CreateRefreshToken, TypeInv, TypeOK
<1>3. r.at = "answer"
  BY DEF TypeInv, TypeOK, Requests
<1>4. t \in Exchanging /\ Exchanging' \subseteq Exchanging \ {t}
  BY <1>2, <1>3 DEF CreateRefreshToken, Exchanging, TypeInv, TypeOK
<1>5. Cardinality(Exchanging') \in Nat /\ Cardinality(Exchanging') + 1 <= Cardinality(Exchanging)
  BY <1>4, Counts, OneLess
<1>6. Sent' = Sent
  BY DEF CreateRefreshToken, Sent, callState
<1>7. Budget' /\ issued + 1 \in Pairs
  BY <1>1, <1>5, <1>6, Counts DEF CreateRefreshToken, TypeInv, Budget, Pairs
<1>8. r \in Requests /\ Coherent(r)
  BY <1>1, <1>7 DEF CreateRefreshToken, Requests, Coherent, TypeInv, TypeOK
<1>9. TypeOK'
  <2>1. req[t].pair \in Pairs
    BY DEF CreateRefreshToken, Coherent, Requests, TypeInv, TypeOK
  <2>2. owner' \in [Pairs -> Users \union {NoUser}]
    BY <2>1 DEF CreateRefreshToken, TypeInv, TypeOK
  <2>3. issued' \in 0 .. MaxPairs
    BY <1>1, <1>7 DEF CreateRefreshToken, Pairs
  <2> QED BY <1>2, <1>8, <2>2, <2>3 DEF CreateRefreshToken, TypeInv, TypeOK, callState
<1> QED BY <1>7, <1>9 DEF TypeInv

LEMMA TroubleTypes ==
  ASSUME TypeInv, NEW t \in Tabs, StoreFails(t) \/ Lose(t)
  PROVE  TypeInv'
<1>1. trouble' \in 0 .. MaxTrouble
  BY ConstantsAssumption DEF StoreFails, Lose, TypeInv, TypeOK
<1>2. req[t].at # "idle" /\ Respond(t, "failed")
  BY DEF StoreFails, Lose
<1>3. Sent' = Sent
  BY DEF StoreFails, Lose, Sent, callState
<1>4. TypeOK' /\ issued' = issued
  <2>1. CASE StoreFails(t)
    BY <2>1, <1>1, <1>2, RespondTypes DEF StoreFails, TypeInv, TypeOK, callState, server
  <2>2. CASE Lose(t)
    BY <2>2, <1>1, <1>2, RespondTypes, CutShortTypes DEF Lose, TypeInv, TypeOK, callState
  <2> QED BY <2>1, <2>2
<1> QED BY <1>2, <1>3, <1>4, RespondTypes, BudgetKept DEF TypeInv

LEMMA NextTypes == TypeInv /\ [Next]_vars => TypeInv'
<1> SUFFICES ASSUME TypeInv, [Next]_vars PROVE TypeInv'
  OBVIOUS
<1>1. CASE UNCHANGED vars
  <2>1. TypeOK'
    BY <1>1 DEF vars, callState, server, TypeInv, TypeOK
  <2>2. Sent' = Sent /\ Exchanging' = Exchanging /\ issued' = issued
    BY <1>1 DEF vars, callState, server, Sent, Exchanging
  <2> QED BY <2>1, <2>2, BudgetKept DEF TypeInv
<1>2. ASSUME NEW t \in Tabs, NEW u \in Users, SignIn(t, u) PROVE TypeInv'
  BY <1>2, SignInTypes
<1>3. ASSUME NEW t \in Tabs, SignOut(t) \/ Reload(t) \/ RefreshEnds(t) PROVE TypeInv'
  BY <1>3, SignOutTypes, ReloadTypes, RefreshEndsTypes
<1>4. ASSUME NEW t \in Tabs, ServerStep(t) \/ StoreFails(t) \/ Lose(t) PROVE TypeInv'
  BY <1>4, GetTypes, RevokeTypes, CreateTypes, TroubleTypes DEF ServerStep
<1>5. ASSUME NEW p \in Pairs, AccessExpires(p) \/ RefreshExpires(p) PROVE TypeInv'
  BY <1>5, ExpiryTypes
<1>7. ASSUME NEW u \in Guests, Purge(u) PROVE TypeInv'
  BY <1>7, PurgeTypes
<1>6. ASSUME NEW c \in Calls, Fetch(c) \/ EnsureFresh(c) \/ CallStep(c) PROVE TypeInv'
  BY <1>6, FetchTypes, EnsureFreshTypes, AnsweredTypes, UnauthorizedTypes DEF CallStep
<1> QED BY <1>1, <1>2, <1>3, <1>4, <1>5, <1>6, <1>7 DEF Next

(* Every reachable state of the session is well typed: in particular every *)
(* refresh that is under way presents a token.                             *)
THEOREM TypeCorrect == Spec => []TypeOK
<1>1. Spec => []TypeInv
  BY InitTypes, NextTypes, PTL DEF Spec
<1> QED BY <1>1, PTL DEF TypeInv

-----------------------------------------------------------------------------
(* Rotation. No pair is known before the server has issued it.             *)
Known ==
  /\ stored.pair <= issued
  /\ revoked \subseteq 1 .. issued
  /\ \A t \in Tabs : req[t].pair <= issued /\ req[t].new <= issued

(* The promise of a tab is pending exactly while its request is under way. *)
Pending == \A t \in Tabs : inflight[t] = "pending" <=> req[t].at # "idle"

(* No two tabs present the same token.                                     *)
Alone == \A t, u \in Tabs : t # u /\ req[t].pair # 0 => req[t].pair # req[u].pair

(* A token that the server has not been able to revoke yet is not revoked, *)
(* unless its row is gone.                                                 *)
Presented ==
  \A t \in Tabs :
    req[t].at \in {"get", "user", "revoke"} \/ req[t].status \in {"401", "failed"}
      => req[t].pair \notin revoked \/ req[t].pair \in Gone

(* A pair that is on its way to a tab is known to nobody else.             *)
Fresh ==
  \A t \in Tabs : req[t].status = "ok" =>
    /\ req[t].new \notin revoked
    /\ req[t].new # stored.pair
    /\ \A u \in Tabs : req[t].new # req[u].pair
    /\ \A u \in Tabs : t # u /\ req[u].status = "ok" => req[t].new # req[u].new

Kept == stored.pair \in revoked => Rotating(stored.pair) \/ stored.pair \in Gone

Refused ==
  \A t \in Tabs : req[t].status = "401" => req[t].pair \in expired \/ req[t].pair \in Gone

Rotation == Alone /\ Presented /\ Fresh /\ Kept /\ Refused
Inv == TypeInv /\ Known /\ Pending /\ (clean => Rotation)

LEMMA InvFacts ==
  ASSUME Inv
  PROVE  /\ issued \in Nat
         /\ stored.pair \in Nat
         /\ \A t \in Tabs :
              /\ req[t].pair \in Nat /\ req[t].new \in Nat
              /\ req[t].pair = 0 <=> req[t].at = "idle"
              /\ req[t].status # "none" <=> req[t].at = "answer"
              /\ req[t].status = "ok" => req[t].new # 0
         /\ 0 \notin revoked
BY ConstantsAssumption DEF Inv, TypeInv, TypeOK, Coherent, Requests, Sessions, Pairs, Known

LEMMA InitInv == Init => Inv
<1> SUFFICES ASSUME Init PROVE Inv
  OBVIOUS
<1>1. Known /\ Pending
  BY RequestFields DEF Init, Known, Pending
<1>2. Rotation
  BY RequestFields DEF Init, Rotation, Alone, Presented, Fresh, Kept, Refused
<1> QED BY <1>1, <1>2, InitTypes DEF Inv

(* Steps that touch neither requests nor what is stored.                   *)
(* Rows that are gone do not come back.                                    *)
LEMMA GoneStays ==
  ASSUME TypeInv, [Next]_vars
  PROVE  Gone \subseteq Gone'
<1>1. issued \in Nat /\ owner \in [Pairs -> Users \union {NoUser}] /\ MaxPairs \in Nat
      /\ issued <= MaxPairs
  BY ConstantsAssumption DEF TypeInv, TypeOK
<1>2. CASE UNCHANGED <<issued, owner, purged>>
  BY <1>2 DEF Gone
<1>3. ASSUME NEW u, owner' = [owner EXCEPT ![issued'] = u], issued' = issued + 1, purged' = purged
      PROVE  Gone \subseteq Gone'
  BY <1>1, <1>3 DEF Gone, Pairs
<1>4. ASSUME NEW u \in Guests, Purge(u)  PROVE Gone \subseteq Gone'
  BY <1>4 DEF Purge, Gone
<1>5. ASSUME NEW t \in Tabs, CreateRefreshToken(t)  PROVE Gone \subseteq Gone'
  BY <1>2, <1>3, <1>5 DEF CreateRefreshToken
<1>6. ASSUME NEW t \in Tabs, SignOut(t) \/ Reload(t) \/ RefreshEnds(t) \/ StoreFails(t) \/ Lose(t)
                             \/ GetRefreshToken(t) \/ GetUser(t) \/ RevokeRefreshToken(t)
      PROVE  UNCHANGED <<issued, owner, purged>>
  BY <1>6 DEF SignOut, Reload, RefreshEnds, Settle, StoreFails, Lose, CutShort, GetRefreshToken,
              GetUser, RevokeRefreshToken, server
<1>7. ASSUME NEW p \in Pairs, AccessExpires(p) \/ RefreshExpires(p)
      PROVE  UNCHANGED <<issued, owner, purged>>
  BY <1>7 DEF AccessExpires, RefreshExpires
<1>8. ASSUME NEW c \in Calls, Fetch(c) \/ EnsureFresh(c) \/ Answered(c) \/ Unauthorized(c)
      PROVE  UNCHANGED <<issued, owner, purged>>
  BY <1>8 DEF Fetch, EnsureFresh, Answered, Unauthorized, server
<1>9. ASSUME NEW t \in Tabs, NEW u \in Users, SignIn(t, u)  PROVE Gone \subseteq Gone'
  BY <1>3, <1>9 DEF SignIn
<1>10. CASE UNCHANGED vars
  BY <1>2, <1>10 DEF vars, server
<1> QED BY <1>2, <1>4, <1>5, <1>6, <1>7, <1>8, <1>9, <1>10 DEF Next, ServerStep, CallStep

LEMMA QuietInv ==
  ASSUME Inv, TypeInv', Gone \subseteq Gone', expired \subseteq expired',
         UNCHANGED <<stored, inflight, req, issued, revoked, clean>>
  PROVE  Inv'
<1>1. Known' /\ Pending'
  BY DEF Inv, Known, Pending
<1>2. clean' => Rotation'
  BY DEF Inv, Rotation, Alone, Presented, Fresh, Kept, Refused, Rotating
<1> QED BY <1>1, <1>2 DEF Inv

LEMMA SignInInv ==
  ASSUME Inv, TypeInv', Gone \subseteq Gone', NEW t \in Tabs, NEW u \in Users, SignIn(t, u)
  PROVE  Inv'
<1>1. stored'.pair = issued + 1 /\ issued' = issued + 1
  BY DEF SignIn
<1>2. UNCHANGED <<inflight, req, revoked, expired, clean>>
  BY DEF SignIn
<1>3. Known' /\ Pending'
  BY <1>1, <1>2, InvFacts DEF Inv, Known, Pending
<1>4. stored'.pair \notin revoked
  BY <1>1, InvFacts DEF Inv, Known
<1>5. clean' => Rotation'
  BY <1>1, <1>2, <1>4, InvFacts
  DEF Inv, Known, Rotation, Alone, Presented, Fresh, Kept, Refused
<1> QED BY <1>3, <1>5 DEF Inv

LEMMA SignOutInv ==
  ASSUME Inv, TypeInv', Gone \subseteq Gone', NEW t \in Tabs, SignOut(t)
  PROVE  Inv'
<1>1. stored'.pair = 0
  BY RequestFields DEF SignOut
<1>2. UNCHANGED <<inflight, req, issued, revoked, expired, clean>>
  BY DEF SignOut, server
<1>3. Known' /\ Pending'
  BY <1>1, <1>2, InvFacts DEF Inv, Known, Pending
<1>4. clean' => Rotation'
  BY <1>1, <1>2, InvFacts DEF Inv, Rotation, Alone, Presented, Fresh, Kept, Refused
<1> QED BY <1>3, <1>4 DEF Inv

(* An exchange that is cut short while the tab stays clean has revoked     *)
(* nothing, and is not the one that rotates the stored token.              *)
LEMMA CutShortFacts ==
  ASSUME Inv, NEW t \in Tabs, CutShort(t)
  PROVE  /\ issued' = issued /\ expired' = expired
         /\ revoked' \subseteq 1 .. issued
         /\ clean' => /\ clean /\ revoked' = revoked
                      /\ req[t].at \in {"idle", "get"} \/ req[t].status \in {"401", "failed"}
<1>1. CASE /\ req[t].at \in {"idle", "get"} \/ req[t].status \in {"401", "failed"}
           /\ UNCHANGED <<revoked, clean, issued, expired>>
  BY <1>1 DEF Inv, Known
<1>2. CASE /\ revoked' \in {revoked, revoked \union {p \in {req[t].pair} : Usable(p)}}
           /\ clean' = FALSE
           /\ UNCHANGED <<issued, expired>>
  <2>1. {p \in {req[t].pair} : Usable(p)} \subseteq 1 .. issued
    BY DEF Usable
  <2> QED BY <1>2, <2>1 DEF Inv, Known
<1> QED BY <1>1, <1>2 DEF CutShort

LEMMA ReloadInv ==
  ASSUME Inv, TypeInv', Gone \subseteq Gone', NEW t \in Tabs, Reload(t)
  PROVE  Inv'
<1>1. /\ \A u \in Tabs : req'[u] = IF u = t THEN NoReq ELSE req[u]
      /\ \A u \in Tabs : inflight'[u] = IF u = t THEN "null" ELSE inflight[u]
      /\ stored' = stored
  BY DEF Reload, Inv, TypeInv, TypeOK
<1>2. CutShort(t)
  BY DEF Reload
<1>3. Known' /\ Pending'
  BY <1>1, <1>2, CutShortFacts, RequestFields, InvFacts DEF Inv, Known, Pending
<1>4. ASSUME clean' PROVE Rotation'
  <2>1. /\ Rotation /\ revoked' = revoked /\ expired' = expired
        /\ req[t].at \in {"idle", "get"} \/ req[t].status \in {"401", "failed"}
    BY <1>2, <1>4, CutShortFacts DEF Inv
  <2>2. Alone' /\ Presented' /\ Refused'
    BY <1>1, <2>1, RequestFields DEF Rotation, Alone, Presented, Refused
  <2>3. Fresh'
    BY <1>1, <2>1, RequestFields, InvFacts DEF Rotation, Fresh
  <2>4. Kept'
    BY <1>1, <2>1, InvFacts DEF Rotation, Kept, Rotating
  <2> QED BY <2>2, <2>3, <2>4 DEF Rotation
<1> QED BY <1>3, <1>4 DEF Inv

LEMMA LoseInv ==
  ASSUME Inv, TypeInv', Gone \subseteq Gone', NEW t \in Tabs, Lose(t)
  PROVE  Inv'
<1>1. /\ \A u \in Tabs \ {t} : req'[u] = req[u]
      /\ req'[t].at = "answer" /\ req'[t].status = "failed"
      /\ req'[t].pair = req[t].pair /\ req'[t].new = req[t].new
      /\ stored' = stored /\ inflight' = inflight
  BY DEF Lose, Respond, Inv, TypeInv, TypeOK, Requests
<1>2. CutShort(t) /\ req[t].at # "idle"
  BY DEF Lose
<1>3. Known' /\ Pending'
  BY <1>1, <1>2, CutShortFacts DEF Inv, Known, Pending
<1>4. ASSUME clean' PROVE Rotation'
  <2>1. /\ Rotation /\ revoked' = revoked /\ expired' = expired
        /\ req[t].at \in {"idle", "get"} \/ req[t].status \in {"401", "failed"}
    BY <1>2, <1>4, CutShortFacts DEF Inv
  <2>2. Alone' /\ Presented' /\ Refused'
    BY <1>1, <1>2, <2>1 DEF Rotation, Alone, Presented, Refused
  <2>3. Fresh'
    BY <1>1, <2>1 DEF Rotation, Fresh
  <2>4. Kept'
    BY <1>1, <2>1, InvFacts DEF Rotation, Kept, Rotating
  <2> QED BY <2>2, <2>3, <2>4 DEF Rotation
<1> QED BY <1>3, <1>4 DEF Inv

LEMMA StoreFailsInv ==
  ASSUME Inv, TypeInv', Gone \subseteq Gone', NEW t \in Tabs, StoreFails(t)
  PROVE  Inv'
<1>1. /\ \A u \in Tabs \ {t} : req'[u] = req[u]
      /\ req'[t].at = "answer" /\ req'[t].status = "failed"
      /\ req'[t].pair = req[t].pair /\ req'[t].new = req[t].new
      /\ UNCHANGED <<stored, inflight, issued, revoked, expired>>
  BY DEF StoreFails, Respond, Inv, TypeInv, TypeOK, Requests, server
<1>2. req[t].at # "idle" /\ (clean' => clean /\ req[t].pair \notin revoked)
  BY DEF StoreFails
<1>3. Known' /\ Pending'
  BY <1>1, <1>2 DEF Inv, Known, Pending
<1>4. ASSUME clean' PROVE Rotation'
  <2>1. Rotation /\ req[t].pair \notin revoked
    BY <1>2, <1>4 DEF Inv
  <2>2. Alone' /\ Presented' /\ Refused'
    BY <1>1, <2>1 DEF Rotation, Alone, Presented, Refused
  <2>3. Fresh'
    BY <1>1, <2>1 DEF Rotation, Fresh
  <2>4. Kept'
    BY <1>1, <2>1 DEF Rotation, Kept, Rotating
  <2> QED BY <2>2, <2>3, <2>4 DEF Rotation
<1> QED BY <1>3, <1>4 DEF Inv

(* A tab that presents the stored token while nobody else does: were the   *)
(* token revoked, the exchange that revoked it would be under way.         *)
LEMMA RefreshInv ==
  ASSUME Inv, TypeInv', Gone \subseteq Gone', NEW t \in Tabs, Refresh(t), UNCHANGED server
  PROVE  Inv'
<1>1. CASE UNCHANGED <<inflight, req, stored, react, clean>>
  BY <1>1, QuietInv DEF server
<1>2. CASE /\ inflight[t] = "null"
           /\ inflight' = [inflight EXCEPT ![t] = "settled"]
           /\ stored' = NoSession
           /\ UNCHANGED <<req, clean>>
  <2>1. stored'.pair = 0 /\ UNCHANGED <<req, issued, revoked, expired, clean>>
    BY <1>2, RequestFields DEF server
  <2>2. Known'
    BY <2>1, InvFacts DEF Inv, Known
  <2>3. Pending'
    BY <1>2 DEF Inv, Pending, TypeInv, TypeOK
  <2>4. clean' => Rotation'
    BY <2>1, InvFacts DEF Inv, Rotation, Alone, Presented, Fresh, Kept, Refused
  <2> QED BY <2>2, <2>3, <2>4 DEF Inv
<1>3. CASE /\ inflight[t] = "null"
           /\ stored.pair # 0
           /\ inflight' = [inflight EXCEPT ![t] = "pending"]
           /\ req' = [req EXCEPT ![t] = [NoReq EXCEPT !.at = "get", !.pair = stored.pair]]
           /\ clean' = (clean /\ \A u \in Tabs : req[u].pair # stored.pair)
           /\ UNCHANGED stored
  <2>1. /\ \A u \in Tabs \ {t} : req'[u] = req[u]
        /\ req'[t].at = "get" /\ req'[t].status = "none"
        /\ req'[t].pair = stored.pair /\ req'[t].new = 0
        /\ UNCHANGED <<stored, issued, revoked, expired>>
    BY <1>3 DEF NoReq, server, Inv, TypeInv, TypeOK
  <2>2. Known'
    BY <2>1, InvFacts DEF Inv, Known
  <2>3. Pending'
    BY <1>3, <2>1 DEF Inv, Pending, TypeInv, TypeOK
  <2>4. ASSUME clean' PROVE Rotation'
    <3>1. Rotation /\ \A u \in Tabs : req[u].pair # stored.pair
      BY <1>3, <2>4 DEF Inv, TypeInv, TypeOK
    <3>2. stored.pair \notin revoked \ Gone
      BY <3>1 DEF Rotation, Kept, Rotating
    <3>3. Alone' /\ Presented' /\ Kept' /\ Refused'
      BY <2>1, <3>1, <3>2 DEF Rotation, Alone, Presented, Kept, Refused
    <3>4. Fresh'
      BY <2>1, <3>1 DEF Rotation, Fresh
    <3> QED BY <3>3, <3>4 DEF Rotation
  <2> QED BY <2>2, <2>3, <2>4 DEF Inv
<1> QED BY <1>1, <1>2, <1>3 DEF Refresh

LEMMA RefreshEndsInv ==
  ASSUME Inv, TypeInv', Gone \subseteq Gone', NEW t \in Tabs, RefreshEnds(t)
  PROVE  Inv'
<1>1. /\ \A u \in Tabs : req'[u] = IF u = t THEN NoReq ELSE req[u]
      /\ \A u \in Tabs : inflight'[u] = IF u = t THEN "null" ELSE inflight[u]
      /\ UNCHANGED <<issued, revoked, expired, clean>>
  BY DEF RefreshEnds, Settle, Inv, TypeInv, TypeOK, server
<1>2. /\ req[t].at = "answer"
      /\ \/ req[t].status = "ok" /\ stored'.pair = req[t].new
         \/ req[t].status = "401" /\ stored'.pair = 0
         \/ req[t].status = "failed" /\ stored' = stored
  BY RequestFields, InvFacts DEF RefreshEnds, Settle, Inv, TypeInv, TypeOK, Sessions, Requests
<1>3. Known' /\ Pending'
  BY <1>1, <1>2, RequestFields, InvFacts DEF Inv, Known, Pending
<1>4. ASSUME clean' PROVE Rotation'
  <2>1. Rotation
    BY <1>1, <1>4 DEF Inv
  <2>2. Alone' /\ Presented' /\ Refused'
    BY <1>1, <2>1, RequestFields DEF Rotation, Alone, Presented, Refused
  <2>3. Fresh'
    BY <1>1, <1>2, <2>1, RequestFields, InvFacts DEF Rotation, Fresh
  <2>4. Kept'
    BY <1>1, <1>2, <2>1, InvFacts DEF Rotation, Kept, Rotating, Fresh, Presented
  <2> QED BY <2>2, <2>3, <2>4 DEF Rotation
<1> QED BY <1>3, <1>4 DEF Inv

LEMMA GetInv ==
  ASSUME Inv, TypeInv', Gone \subseteq Gone', NEW t \in Tabs, GetRefreshToken(t)
  PROVE  Inv'
<1>1. /\ req[t].at = "get"
      /\ \A u \in Tabs \ {t} : req'[u] = req[u]
      /\ req'[t].pair = req[t].pair /\ req'[t].new = req[t].new
      /\ \/ req'[t].at = "user" /\ req'[t].status = req[t].status
         \/ /\ req'[t].at = "answer" /\ req'[t].status = "401"
            /\ ~Usable(req[t].pair)
      /\ UNCHANGED <<stored, inflight, issued, revoked, expired, clean>>
  BY DEF GetRefreshToken, Respond, Inv, TypeInv, TypeOK, Requests, server
<1>2. Known' /\ Pending'
  BY <1>1 DEF Inv, Known, Pending
<1>3. ASSUME clean' PROVE Rotation'
  <2>1. Rotation /\ req[t].pair \notin revoked \ Gone
    BY <1>1, <1>3 DEF Inv, Rotation, Presented
  <2>2. Alone' /\ Presented'
    BY <1>1, <2>1 DEF Rotation, Alone, Presented
  <2>3. req[t].pair \in 1 .. issued
    BY <1>1, InvFacts DEF Inv, Known
  <2>4. Refused'
    BY <1>1, <2>1, <2>3, InvFacts DEF Rotation, Refused, Usable
  <2>5. Fresh'
    BY <1>1, <2>1, InvFacts DEF Rotation, Fresh
  <2>6. Kept'
    BY <1>1, <2>1 DEF Rotation, Kept, Rotating
  <2> QED BY <2>2, <2>4, <2>5, <2>6 DEF Rotation
<1> QED BY <1>2, <1>3 DEF Inv

LEMMA GetUserInv ==
  ASSUME Inv, TypeInv', Gone \subseteq Gone', NEW t \in Tabs, GetUser(t)
  PROVE  Inv'
<1>1. /\ req[t].at = "user" /\ req[t].status = "none"
      /\ \A u \in Tabs \ {t} : req'[u] = req[u]
      /\ req'[t].pair = req[t].pair /\ req'[t].new = req[t].new
      /\ \/ req'[t].at = "revoke" /\ req'[t].status = req[t].status
         \/ req'[t].at = "answer" /\ req'[t].status = "failed"
      /\ UNCHANGED <<stored, inflight, issued, revoked, expired, clean>>
  BY DEF GetUser, Respond, Inv, TypeInv, TypeOK, Requests, Coherent, server
<1>2. Known' /\ Pending'
  BY <1>1 DEF Inv, Known, Pending
<1>3. ASSUME clean' PROVE Rotation'
  <2>1. Rotation
    BY <1>1, <1>3 DEF Inv
  <2>2. Alone' /\ Presented' /\ Refused'
    BY <1>1, <2>1 DEF Rotation, Alone, Presented, Refused
  <2>3. Fresh'
    BY <1>1, <2>1 DEF Rotation, Fresh
  <2>4. Kept'
    BY <1>1, <2>1 DEF Rotation, Kept, Rotating
  <2> QED BY <2>2, <2>3, <2>4 DEF Rotation
<1> QED BY <1>2, <1>3 DEF Inv

LEMMA RevokeInv ==
  ASSUME Inv, TypeInv', Gone \subseteq Gone', NEW t \in Tabs, RevokeRefreshToken(t)
  PROVE  Inv'
<1>1. /\ req[t].at = "revoke" /\ req'[t].at = "create"
      /\ \A u \in Tabs \ {t} : req'[u] = req[u]
      /\ req'[t].pair = req[t].pair /\ req'[t].new = req[t].new
      /\ req'[t].status = req[t].status
      /\ revoked' = revoked \/ revoked' = revoked \union {req[t].pair}
      /\ UNCHANGED <<stored, inflight, issued, expired, clean>>
  BY DEF RevokeRefreshToken, Inv, TypeInv, TypeOK, Requests
<1>2. Known' /\ Pending'
  <2>1. req[t].pair \in 1 .. issued
    BY <1>1, InvFacts DEF Inv, Known
  <2>2. revoked' \subseteq 1 .. issued
    BY <1>1, <2>1 DEF Inv, Known
  <2> QED BY <1>1, <2>2 DEF Inv, Known, Pending
<1>3. ASSUME clean' PROVE Rotation'
  <2>1. Rotation
    BY <1>1, <1>3 DEF Inv
  <2>2. req[t].status = "none" /\ req[t].pair # 0
    BY <1>1, InvFacts
  <2>3. Alone' /\ Presented' /\ Refused'
    BY <1>1, <2>1, <2>2 DEF Rotation, Alone, Presented, Refused
  <2>4. Fresh'
    BY <1>1, <2>1, <2>2 DEF Rotation, Fresh
  <2>5. Kept'
    BY <1>1, <2>1 DEF Rotation, Kept, Rotating
  <2> QED BY <2>3, <2>4, <2>5 DEF Rotation
<1> QED BY <1>2, <1>3 DEF Inv

LEMMA CreateInv ==
  ASSUME Inv, TypeInv', Gone \subseteq Gone', NEW t \in Tabs, CreateRefreshToken(t)
  PROVE  Inv'
<1>0. CASE req[t].pair \in Gone
  <2>1. /\ req[t].at = "create"
        /\ \A u \in Tabs \ {t} : req'[u] = req[u]
        /\ req'[t].at = "answer" /\ req'[t].status = "failed"
        /\ req'[t].pair = req[t].pair /\ req'[t].new = req[t].new
        /\ UNCHANGED <<stored, inflight, issued, revoked, expired, clean>>
    BY <1>0 DEF CreateRefreshToken, Respond, Inv, TypeInv, TypeOK, Requests
  <2>2. Known' /\ Pending'
    BY <2>1 DEF Inv, Known, Pending
  <2>3. ASSUME clean' PROVE Rotation'
    <3>1. Rotation
      BY <2>1, <2>3 DEF Inv
    <3>2. Alone' /\ Presented' /\ Refused'
      BY <1>0, <2>1, <3>1 DEF Rotation, Alone, Presented, Refused
    <3>3. Fresh'
      BY <2>1, <3>1 DEF Rotation, Fresh
    <3>4. Kept'
      BY <1>0, <2>1, <3>1 DEF Rotation, Kept, Rotating
    <3> QED BY <3>2, <3>3, <3>4 DEF Rotation
  <2> QED BY <2>2, <2>3 DEF Inv
<1> SUFFICES ASSUME req[t].pair \notin Gone  PROVE Inv'
  BY <1>0
<1>1. /\ req[t].at = "create" /\ issued' = issued + 1
      /\ \A u \in Tabs \ {t} : req'[u] = req[u]
      /\ req'[t].at = "answer" /\ req'[t].status = "ok"
      /\ req'[t].pair = req[t].pair /\ req'[t].new = issued + 1
      /\ UNCHANGED <<stored, inflight, revoked, expired, clean>>
  BY DEF CreateRefreshToken, Inv, TypeInv, TypeOK, Requests
<1>2. Known' /\ Pending'
  BY <1>1, InvFacts DEF Inv, Known, Pending
<1>3. ASSUME clean' PROVE Rotation'
  <2>1. Rotation
    BY <1>1, <1>3 DEF Inv
  <2>2. /\ issued + 1 \notin revoked /\ issued + 1 # stored.pair
        /\ \A u \in Tabs : issued + 1 # req[u].pair /\ issued + 1 # req[u].new
    BY InvFacts DEF Inv, Known
  <2>3. Alone' /\ Presented' /\ Refused'
    BY <1>1, <2>1 DEF Rotation, Alone, Presented, Refused
  <2>4. Fresh'
    BY <1>1, <2>1, <2>2 DEF Rotation, Fresh
  <2>5. Kept'
    BY <1>1, <2>1 DEF Rotation, Kept, Rotating
  <2> QED BY <2>3, <2>4, <2>5 DEF Rotation
<1> QED BY <1>2, <1>3 DEF Inv

LEMMA NextInv == Inv /\ [Next]_vars => Inv'
<1> SUFFICES ASSUME Inv, [Next]_vars PROVE Inv'
  OBVIOUS
<1>0. TypeInv' /\ Gone \subseteq Gone'
  BY NextTypes, GoneStays DEF Inv
<1>1. CASE UNCHANGED vars
  BY <1>0, <1>1, QuietInv DEF vars, server
<1>2. ASSUME NEW t \in Tabs, NEW u \in Users, SignIn(t, u) PROVE Inv'
  BY <1>0, <1>2, SignInInv
<1>3. ASSUME NEW t \in Tabs, SignOut(t) \/ Reload(t) \/ RefreshEnds(t) PROVE Inv'
  BY <1>0, <1>3, SignOutInv, ReloadInv, RefreshEndsInv
<1>4. ASSUME NEW t \in Tabs, ServerStep(t) \/ StoreFails(t) \/ Lose(t) PROVE Inv'
  BY <1>0, <1>4, GetInv, GetUserInv, RevokeInv, CreateInv, StoreFailsInv, LoseInv DEF ServerStep
<1>5. ASSUME NEW p \in Pairs, AccessExpires(p) \/ RefreshExpires(p) PROVE Inv'
  BY <1>0, <1>5, QuietInv DEF AccessExpires, RefreshExpires
<1>6. ASSUME NEW c \in Calls, Fetch(c) \/ Answered(c) PROVE Inv'
  BY <1>0, <1>6, QuietInv DEF Fetch, Answered, server
<1>7. ASSUME NEW c \in Calls, EnsureFresh(c) \/ Unauthorized(c) PROVE Inv'
  <2>1. Refresh(c[1]) /\ UNCHANGED server /\ c[1] \in Tabs
    BY <1>7, ConstantsAssumption DEF EnsureFresh, Unauthorized
  <2> QED BY <1>0, <2>1, RefreshInv
<1>8. ASSUME NEW u \in Guests, Purge(u) PROVE Inv'
  BY <1>0, <1>8, QuietInv DEF Purge
<1> QED BY <1>1, <1>2, <1>3, <1>4, <1>5, <1>6, <1>7, <1>8 DEF Next, CallStep

LEMMA InvHolds == Spec => []Inv
BY InitInv, NextInv, PTL DEF Spec

(* However many tabs, calls, sign-ins and failures: as long as no exchange *)
(* was cut short and no two tabs exchanged one pair, the stored refresh    *)
(* token is good or its successor is on its way, or its guest is gone.     *)
THEOREM SessionNotStranded == Spec => []NotStranded
<1>1. Inv => NotStranded
  BY DEF Inv, Rotation, Kept, NotStranded
<1> QED BY <1>1, InvHolds, PTL

(* Under the same condition the server refuses only expired tokens and     *)
(* those of purged guests: no failure of its own, and no race of calls,    *)
(* logs a user out.                                                        *)
THEOREM RefusesOnlyExpired == Spec => []OnlyExpiredRefused
<1>1. Inv => OnlyExpiredRefused
  BY DEF Inv, Rotation, Refused, OnlyExpiredRefused
<1> QED BY <1>1, InvHolds, PTL

=============================================================================
