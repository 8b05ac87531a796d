--------------------------- MODULE GuestRunsProofs ----------------------------
(***************************************************************************)
(* Proofs about GuestRuns: its types, the limits of guests, and that the   *)
(* run number a guest's request has read stays free, for any number of     *)
(* guests, members, addresses, requests and limits, whatever fails.        *)
(***************************************************************************)
EXTENDS GuestRuns, FiniteSetTheorems, TLAPS

(* The runs the limits are about.                                          *)
Counted(c)    == ActiveOf(c) \ uncounted
CountedGuests == ActiveGuests \ uncounted

(* Request q is at one of these places for a guest.                        *)
GuestIn(q, places) == call[q].who \in Guests /\ call[q].at \in places

(* Only guests are admitted, and whoever is being admitted or creates a    *)
(* guest's run holds the admission.                                        *)
Admitted ==
  /\ \A q \in Requests : call[q].at \in {"lock", "rate", "session", "global"} => call[q].who \in Guests
  /\ \A q \in Requests : GuestIn(q, {"rate", "session", "global", "number", "insert"}) => mu = q

(* What a request has found by its counts is still so.                     *)
Checked ==
  \A q \in Requests, g \in Guests : call[q].who = g =>
    /\ call[q].at \in {"global", "number", "insert"} => Cardinality(Counted(g)) < SessionLimit
    /\ call[q].at \in {"number", "insert"} => Cardinality(CountedGuests) < GlobalLimit

(* The counter of an address covers the runs created from it, but for one  *)
(* whose request was admitted before the counter expired.                  *)
Rated ==
  /\ \A i \in Addresses : created[i] <= count[i] + 1
  /\ \A q \in Requests, g \in Guests :
       call[q].who = g /\ call[q].at \in {"session", "global", "number", "insert"} =>
         created[Address[g]] <= count[Address[g]]

Inv == TypeOK /\ Admitted /\ Checked /\ Rated /\ LimitsHold /\ NumberIsFree

-----------------------------------------------------------------------------
(* Lemmas about the operators.                                             *)

LEMMA RunsAreFinite ==
  /\ IsFiniteSet(Runs)
  /\ \A S \in SUBSET Runs : IsFiniteSet(S) /\ Cardinality(S) \in Nat
<1>1. IsFiniteSet(Runs)
  BY FS_Interval, ConstantsAssumption DEF Runs
<1>2. ASSUME NEW S \in SUBSET Runs  PROVE IsFiniteSet(S) /\ Cardinality(S) \in Nat
  <2>1. IsFiniteSet(S)
    BY <1>1, FS_Subset
  <2> QED  BY <2>1, FS_CardinalityType
<1> QED  BY <1>1, <1>2

LEMMA Shrinks ==
  ASSUME NEW S \in SUBSET Runs, NEW T \in SUBSET S
  PROVE  Cardinality(T) <= Cardinality(S)
BY RunsAreFinite, FS_Subset

LEMMA GrowsByOne ==
  ASSUME NEW S \in SUBSET Runs, NEW r \in Runs, NEW T \in SUBSET (S \union {r})
  PROVE  Cardinality(T) <= Cardinality(S) + 1
<1>1. /\ IsFiniteSet(S \union {r})
      /\ Cardinality(S \union {r}) \in {Cardinality(S), Cardinality(S) + 1}
  BY RunsAreFinite, FS_AddElement
<1>2. Cardinality(T) <= Cardinality(S \union {r})
  BY <1>1, FS_Subset
<1>3. Cardinality(S) \in Nat /\ Cardinality(T) \in Nat
  BY RunsAreFinite
<1> QED  BY <1>1, <1>2, <1>3

LEMMA CountedAreRuns ==
  /\ CountedGuests \in SUBSET Runs /\ CountedGuests' \in SUBSET Runs
  /\ \A c \in Companies : Counted(c) \in SUBSET Runs /\ Counted(c)' \in SUBSET Runs
BY DEF CountedGuests, Counted, ActiveGuests, ActiveOf, Of

(* A request that knows for whom it is, moves on for the same company.     *)
Places == {"lock", "rate", "session", "global", "number"}

LEMMA CallParts ==
  ASSUME TypeOK, NEW q \in Requests
  PROVE  /\ call[q].at \in Places \union {"idle", "insert", "admit"}
         /\ call[q].at \in Places => call[q] \in [at : Places, who : Companies]
         /\ call[q].at = "insert" => call[q] \in [at : {"insert"}, who : Companies, number : Nat]
<1>1. call[q] \in Calls
  BY DEF TypeOK
<1> QED  BY <1>1, SMTT(30) DEF Calls, NoCall, Places

LEMMA MovesOn ==
  ASSUME TypeOK, NEW q \in Requests, NEW to \in Places, call[q].at \in Places, Moves(q, to)
  PROVE  /\ call' \in [Requests -> Calls]
         /\ call'[q].at = to /\ call'[q].who = call[q].who
         /\ \A p \in Requests : p # q => call'[p] = call[p]
<1>1. call \in [Requests -> Calls] /\ call[q] \in [at : Places, who : Companies]
  BY CallParts DEF TypeOK
<1>2. call' = [call EXCEPT ![q] = [call[q] EXCEPT !.at = to]]
  BY <1>1 DEF Moves
<1>3. [call[q] EXCEPT !.at = to] \in [at : Places, who : Companies]
  BY <1>1
<1>4. [at : Places, who : Companies] \subseteq Calls
  BY DEF Calls, Places
<1> QED  BY <1>1, <1>2, <1>3, <1>4

LEMMA ReturnsIdle ==
  ASSUME TypeOK, NEW q \in Requests, Returns(q)
  PROVE  /\ call' \in [Requests -> Calls] /\ mu' \in Requests \union {Free}
         /\ call'[q] = NoCall
         /\ \A p \in Requests : p # q => call'[p] = call[p]
         /\ \A p \in Requests : p # q /\ mu = p => mu' = p
BY DEF TypeOK, Returns, Calls

-----------------------------------------------------------------------------
(* Types.                                                                  *)

LEMMA NewRowTyped ==
  ASSUME TypeOK, NEW r \in Runs, NEW c \in Companies, NEW n \in Nat, NewRow(r, c, n)
  PROVE  rows' \in [Runs -> Rows]
BY DEF TypeOK, NewRow, Rows, Active

LEMMA StrayTyped ==
  ASSUME TypeOK, NEW q \in Requests, call[q].at = "insert"
  PROVE  [owner |-> call[q].who, number |-> call[q].number] \in [owner : Companies, number : Nat]
BY CallParts

LEMMA InitTyped == Init => TypeOK
BY ConstantsAssumption DEF Init, TypeOK, Rows, Calls

LEMMA RequestTyped ==
  ASSUME TypeOK, NEW q \in Requests,
         \/ \E c \in Companies : Receive(q, c)
         \/ Lock(q) \/ Step(q) \/ CallFails(q)
  PROVE  TypeOK'
<1>1. ASSUME NEW c \in Companies, Receive(q, c)  PROVE TypeOK'
  BY <1>1 DEF Receive, rest, TypeOK, Calls
<1>2. CASE Lock(q)
  <2>1. call' \in [Requests -> Calls]
    BY <1>2, MovesOn DEF Lock, Places
  <2> QED  BY <1>2, <2>1 DEF Lock, rest, TypeOK
<1>3. CASE AllowRun(q)
  <2>1. Address[call[q].who] \in Addresses => count[Address[call[q].who]] \in 0 .. RunLimit
    BY DEF TypeOK
  <2>2. count' \in [Addresses -> 0 .. RunLimit]
    BY <1>3, <2>1, ConstantsAssumption DEF AllowRun, TypeOK
  <2>3. call' \in [Requests -> Calls] /\ mu' \in Requests \union {Free}
    <3>1. CASE Moves(q, "session") /\ UNCHANGED mu
      BY <1>3, <3>1, MovesOn DEF AllowRun, Places, TypeOK
    <3>2. CASE Returns(q)
      BY <3>2, ReturnsIdle
    <3> QED  BY <1>3, <3>1, <3>2 DEF AllowRun
  <2> QED  BY <1>3, <2>2, <2>3 DEF AllowRun, rest, TypeOK
<1>4. CASE CountSession(q)
  <2>1. call' \in [Requests -> Calls] /\ mu' \in Requests \union {Free}
    BY <1>4, MovesOn, ReturnsIdle DEF CountSession, Places, TypeOK
  <2> QED  BY <1>4, <2>1 DEF CountSession, rest, TypeOK
<1>5. CASE CountGlobal(q)
  <2>1. call' \in [Requests -> Calls] /\ mu' \in Requests \union {Free}
    BY <1>5, MovesOn, ReturnsIdle DEF CountGlobal, Places, TypeOK
  <2> QED  BY <1>5, <2>1 DEF CountGlobal, rest, TypeOK
<1>6. CASE GetNextRunNumber(q)
  <2>1. PICK n \in 1 .. MaxRuns + 1 :
          call' = [call EXCEPT ![q] = [at |-> "insert", who |-> call[q].who, number |-> n]]
    BY <1>6 DEF GetNextRunNumber
  <2>2. n \in Nat /\ call[q].who \in Companies
    BY <1>6, CallParts, ConstantsAssumption DEF GetNextRunNumber, Places
  <2>3. call' \in [Requests -> Calls]
    BY <2>1, <2>2 DEF TypeOK, Calls
  <2> QED  BY <1>6, <2>3 DEF GetNextRunNumber, rest, TypeOK
<1>7. CASE Insert(q)
  <2>1. call[q].who \in Companies /\ call[q].number \in Nat
    BY <1>7, CallParts DEF Insert
  <2>2. PICK r \in Runs :
          /\ NewRow(r, call[q].who, call[q].number)
          /\ \/ Returns(q) /\ UNCHANGED admitting
             \/ /\ call' = [call EXCEPT ![q] = [at |-> "admit", run |-> r]]
                /\ admitting' = admitting \union {r}
                /\ UNCHANGED mu
    BY <1>7 DEF Insert
  <2>3. rows' \in [Runs -> Rows]
    BY <2>1, <2>2, NewRowTyped
  <2>4. call' \in [Requests -> Calls] /\ mu' \in Requests \union {Free} /\ admitting' \subseteq Runs
    BY <2>2, ReturnsIdle DEF TypeOK, Calls
  <2>5. created' \in [Addresses -> Nat]
    BY <1>7, ConstantsAssumption DEF Insert, TypeOK
  <2> QED  BY <1>7, <2>3, <2>4, <2>5 DEF Insert, TypeOK
<1>8. CASE InsertRefused(q)
  BY <1>8, ReturnsIdle DEF InsertRefused, rest, TypeOK
<1>9. CASE CallFails(q)
  <2>1. call' \in [Requests -> Calls] /\ mu' \in Requests \union {Free}
    BY <1>9, ReturnsIdle DEF CallFails
  <2>2. strays' \subseteq [owner : Companies, number : Nat]
    BY <1>9, StrayTyped DEF CallFails, TypeOK
  <2>3. trouble' \in 0 .. MaxTrouble
    BY <1>9, ConstantsAssumption DEF CallFails, TypeOK
  <2> QED  BY <1>9, <2>1, <2>2, <2>3 DEF CallFails, TypeOK
<1> QED  BY <1>1, <1>2, <1>3, <1>4, <1>5, <1>6, <1>7, <1>8, <1>9 DEF Step

LEMMA OutcomeTyped ==
  ASSUME TypeOK, NEW r \in Runs, Exists(r), NEW s \in Active \union {"over"},
         rows' = [rows EXCEPT ![r].status = s]
  PROVE  /\ rows' \in [Runs -> Rows]
         /\ rows'[r].status = s /\ rows'[r].owner = rows[r].owner /\ rows'[r].number = rows[r].number
         /\ \A x \in Runs : x # r => rows'[x] = rows[x]
<1> DEFINE Row == [owner : Companies, number : Nat, status : Active \union {"over"}]
<1>1. rows[r] \in Row
  BY DEF TypeOK, Rows, Exists, NoRow, Gone
<1>2. rows' = [rows EXCEPT ![r] = [rows[r] EXCEPT !.status = s]]
  OBVIOUS
<1>3. [rows[r] EXCEPT !.status = s] \in Row
  BY <1>1
<1>4. Row \subseteq Rows
  BY DEF Rows
<1> QED  BY <1>1, <1>2, <1>3, <1>4 DEF TypeOK

LEMMA OtherTyped ==
  ASSUME TypeOK, ~(\E q \in Requests :
                     \/ \E c \in Companies : Receive(q, c)
                     \/ Lock(q) \/ Step(q) \/ CallFails(q)), Next
  PROVE  TypeOK'
<1>1. ASSUME NEW s \in strays, StrayLands(s)  PROVE TypeOK'
  <2>1. s.owner \in Companies /\ s.number \in Nat
    BY DEF TypeOK
  <2>2. rows' \in [Runs -> Rows] /\ uncounted' \subseteq Runs
    BY <1>1, <2>1, NewRowTyped DEF StrayLands, TypeOK
  <2> QED  BY <1>1, <2>2 DEF StrayLands, TypeOK
<1>2. ASSUME NEW r \in Runs, AdmitBegins(r)  PROVE TypeOK'
  BY <1>2 DEF AdmitBegins, TypeOK
<1>3. ASSUME NEW r \in Runs, AdmitEnds(r)  PROVE TypeOK'
  <2>1. call' \in [Requests -> Calls] /\ mu' \in Requests \union {Free}
    BY <1>3, ReturnsIdle DEF AdmitEnds, Waiting, TypeOK
  <2>2. rows' \in [Runs -> Rows] /\ uncounted' \subseteq Runs /\ admitting' \subseteq Runs
    BY <1>3, OutcomeTyped DEF AdmitEnds, TypeOK
  <2> QED  BY <1>3, <2>1, <2>2 DEF AdmitEnds, TypeOK
<1>4. ASSUME NEW r \in Runs, RunEnds(r)  PROVE TypeOK'
  <2>1. Exists(r)
    BY <1>4 DEF RunEnds, Exists, Active
  <2>2. rows' \in [Runs -> Rows]
    BY <1>4, <2>1, OutcomeTyped DEF RunEnds
  <2> QED  BY <1>4, <2>2 DEF RunEnds, rest, TypeOK
<1>5. ASSUME NEW i \in Addresses, WindowEnds(i)  PROVE TypeOK'
  BY <1>5, ConstantsAssumption DEF WindowEnds, rest, TypeOK
<1>6. ASSUME NEW g \in Guests, Purge(g)  PROVE TypeOK'
  <2>1. rows' \in [Runs -> Rows]
    BY <1>6 DEF Purge, TypeOK, Rows
  <2> QED  BY <1>6, <2>1, ConstantsAssumption DEF Purge, TypeOK
<1>7. CASE Crash
  <2>1. strays' \subseteq [owner : Companies, number : Nat]
    BY <1>7, StrayTyped DEF Crash, TypeOK
  <2>2. call' \in [Requests -> Calls]
    BY <1>7 DEF Crash, Calls
  <2> QED  BY <1>7, <2>1, <2>2, ConstantsAssumption DEF Crash, TypeOK
<1> QED  BY <1>1, <1>2, <1>3, <1>4, <1>5, <1>6, <1>7 DEF Next

LEMMA NextTyped ==
  ASSUME TypeOK, [Next]_vars
  PROVE  TypeOK'
<1>1. CASE Next
  BY <1>1, RequestTyped, OtherTyped
<1>2. CASE UNCHANGED vars
  BY <1>2 DEF vars, rest, TypeOK
<1> QED  BY <1>1, <1>2

(* Every reachable state is well typed, whatever fails; the counter of an  *)
(* address counts at most as far as its limit.                             *)
THEOREM TypeCorrect == Spec => []TypeOK
<1>1. Init => TypeOK
  BY InitTyped
<1>2. TypeOK /\ [Next]_vars => TypeOK'
  BY NextTyped
<1> QED  BY <1>1, <1>2, PTL DEF Spec

-----------------------------------------------------------------------------
(* What the steps do to the requests.                                      *)

LEMMA InitInv == Init => Inv
<1> SUFFICES ASSUME Init  PROVE Inv
  OBVIOUS
<1>1. TypeOK
  BY InitTyped
<1>2. ActiveGuests = {} /\ \A c : ActiveOf(c) = {}
  BY DEF Init, ActiveGuests, ActiveOf, Of, Exists, NoRow
<1>3. Cardinality({}) = 0
  BY FS_EmptySet
<1>4. LimitsHold
  <2>1. ActiveGuests \ uncounted = {} /\ \A c : ActiveOf(c) \ uncounted = {}
    BY <1>2
  <2>2. \A i \in Addresses : created[i] <= RunLimit + 1
    BY ConstantsAssumption DEF Init
  <2> QED  BY <1>3, <2>1, <2>2, ConstantsAssumption DEF LimitsHold
<1>5. \A q \in Requests : call[q].at = "idle"
  BY DEF Init, NoCall
<1>6. Admitted /\ Checked /\ NumberIsFree
  BY <1>5 DEF Admitted, Checked, NumberIsFree, GuestIn
<1>7. Rated
  BY <1>5 DEF Rated, GuestIn, Init
<1> QED  BY <1>1, <1>4, <1>6, <1>7 DEF Inv

(* A step changes at most one request, or makes requests idle; only a      *)
(* request that moves on can hold more than before.                        *)
LEMMA AdmittedKept ==
  ASSUME TypeOK, Admitted, [Next]_vars
  PROVE  Admitted'
<1>1. ASSUME NEW q \in Requests, NEW to \in Places, call[q].at \in Places, Moves(q, to), UNCHANGED mu,
             to \in {"lock", "rate", "session", "global"} => call[q].who \in Guests,
             to # "lock" /\ call[q].who \in Guests => mu = q
      PROVE  Admitted'
  BY <1>1, MovesOn DEF Admitted, GuestIn, Places
<1>2. ASSUME NEW q \in Requests, Returns(q)  PROVE Admitted'
  BY <1>2, ReturnsIdle DEF Admitted, GuestIn, NoCall
<1>3. ASSUME NEW q \in Requests, NEW c \in Companies, Receive(q, c)  PROVE Admitted'
  BY <1>3 DEF Receive, TypeOK, Admitted, GuestIn
<1>4. ASSUME NEW q \in Requests, Lock(q)  PROVE Admitted'
  <2>1. \A p \in Requests : ~GuestIn(p, {"rate", "session", "global", "number", "insert"})
    BY <1>4, FreeAssumption DEF Lock, Admitted
  <2>2. call'[q].who = call[q].who /\ \A p \in Requests : p # q => call'[p] = call[p]
    BY <1>4, MovesOn DEF Lock, Places
  <2>3. mu' = q /\ call[q].who \in Guests
    BY <1>4 DEF Lock, Admitted
  <2> QED  BY <2>1, <2>2, <2>3 DEF Admitted, GuestIn
<1>5. ASSUME NEW q \in Requests, Step(q)  PROVE Admitted'
  <2>1. CASE AllowRun(q)
    BY <2>1, <1>1, <1>2 DEF AllowRun, Admitted, GuestIn, Places
  <2>2. CASE CountSession(q)
    BY <2>2, <1>1, <1>2 DEF CountSession, Admitted, GuestIn, Places
  <2>3. CASE CountGlobal(q)
    BY <2>3, <1>1, <1>2 DEF CountGlobal, Admitted, GuestIn, Places
  <2>4. CASE GetNextRunNumber(q)
    <3>1. /\ call'[q].at = "insert" /\ call'[q].who = call[q].who
          /\ \A p \in Requests : p # q => call'[p] = call[p]
      BY <2>4 DEF GetNextRunNumber, TypeOK
    <3> QED  BY <2>4, <3>1 DEF GetNextRunNumber, Admitted, GuestIn
  <2>5. CASE Insert(q)
    <3>1. \/ Returns(q)
          \/ /\ call'[q].at = "admit" /\ mu' = mu
             /\ \A p \in Requests : p # q => call'[p] = call[p]
      BY <2>5 DEF Insert, TypeOK
    <3> QED  BY <3>1, <1>2 DEF Admitted, GuestIn
  <2>6. CASE InsertRefused(q)
    BY <2>6, <1>2 DEF InsertRefused
  <2> QED  BY <1>5, <2>1, <2>2, <2>3, <2>4, <2>5, <2>6 DEF Step
<1>6. ASSUME NEW q \in Requests, CallFails(q)  PROVE Admitted'
  BY <1>6, <1>2 DEF CallFails
<1>7. CASE UNCHANGED <<call, mu>>
  BY <1>7 DEF Admitted, GuestIn
<1>8. ASSUME NEW r \in Runs, AdmitEnds(r)  PROVE Admitted'
  BY <1>8, <1>2, <1>7 DEF AdmitEnds, Waiting
<1>9. CASE Crash
  BY <1>9 DEF Crash, Admitted, GuestIn, NoCall
<1> QED  BY <1>3, <1>4, <1>5, <1>6, <1>7, <1>8, <1>9
         DEF Next, vars, rest, StrayLands, AdmitBegins, RunEnds, WindowEnds, Purge

-----------------------------------------------------------------------------
(* The runs that count.                                                    *)

(* Only an INSERT lets them grow.                                          *)
NoMoreRuns ==
  /\ \A c \in Companies : Counted(c)' \subseteq Counted(c)
  /\ CountedGuests' \subseteq CountedGuests

LEMMA Unchanged ==
  ASSUME UNCHANGED <<rows, uncounted>>
  PROVE  NoMoreRuns
BY DEF NoMoreRuns, Counted, CountedGuests, ActiveOf, ActiveGuests, Of, Exists

LEMMA NotMore ==
  ASSUME TypeOK, Next, ~(\E q \in Requests : Insert(q))
  PROVE  NoMoreRuns
<1>1. ASSUME uncounted \subseteq uncounted',
             \A x \in Runs : Exists(x)' /\ rows'[x].status \in Active =>
               \/ x \in uncounted'
               \/ Exists(x) /\ rows[x].status \in Active /\ rows'[x].owner = rows[x].owner
      PROVE  NoMoreRuns
  BY <1>1 DEF NoMoreRuns, Counted, CountedGuests, ActiveOf, ActiveGuests, Of
<1>2. CASE UNCHANGED <<rows, uncounted>>
  BY <1>2, Unchanged
<1>3. ASSUME NEW s \in strays, StrayLands(s)  PROVE NoMoreRuns
  <2>1. CASE Insertable(s.owner, s.number)
    <3>1. PICK r \in Runs : NewRow(r, s.owner, s.number) /\ uncounted' = uncounted \union {r}
      BY <1>3, <2>1 DEF StrayLands
    <3>2. \A x \in Runs : x # r => rows'[x] = rows[x]
      BY <3>1 DEF NewRow, TypeOK
    <3> QED  BY <1>1, <3>1, <3>2 DEF Exists
  <2> QED  BY <1>3, <2>1, <1>2 DEF StrayLands
<1>4. ASSUME NEW r \in Runs, AdmitEnds(r)  PROVE NoMoreRuns
  <2>1. PICK s \in Active \union {"over"} :
          /\ rows' = IF Exists(r) THEN [rows EXCEPT ![r].status = s] ELSE rows
          /\ uncounted' = IF rows[r].status = "over" /\ s # "over"
                            THEN uncounted \union {r} ELSE uncounted
    BY <1>4 DEF AdmitEnds
  <2>2. CASE Exists(r)
    <3>1. rows[r].status \in Active \union {"over"}
      BY <2>2 DEF TypeOK, Rows, Exists, NoRow, Gone
    <3>2. /\ rows'[r].status = s /\ rows'[r].owner = rows[r].owner
          /\ \A x \in Runs : x # r => rows'[x] = rows[x]
      BY <2>1, <2>2, OutcomeTyped
    <3> QED  BY <1>1, <2>1, <2>2, <3>1, <3>2 DEF Exists, Active
  <2>3. CASE ~Exists(r)
    <3>1. rows' = rows /\ uncounted' = uncounted
      BY <2>1, <2>3 DEF Exists
    <3> QED  BY <1>2, <3>1
  <2> QED  BY <2>2, <2>3
<1>5. ASSUME NEW r \in Runs, RunEnds(r)  PROVE NoMoreRuns
  <2>1. Exists(r)
    BY <1>5 DEF RunEnds, Exists, Active
  <2>2. rows'[r].status = "over" /\ \A x \in Runs : x # r => rows'[x] = rows[x]
    BY <1>5, <2>1, OutcomeTyped DEF RunEnds
  <2> QED  BY <1>1, <1>5, <2>2 DEF RunEnds, rest, Exists, Active
<1>6. ASSUME NEW g \in Guests, Purge(g)  PROVE NoMoreRuns
  <2>1. \A x \in Runs : rows'[x] = Gone \/ rows'[x] = rows[x]
    BY <1>6 DEF Purge
  <2> QED  BY <1>1, <1>6, <2>1 DEF Purge, Exists, Gone
<1> QED  BY <1>2, <1>3, <1>4, <1>5, <1>6
         DEF Next, Receive, Lock, Step, AllowRun, CountSession, CountGlobal, GetNextRunNumber, InsertRefused,
             CallFails, AdmitBegins, WindowEnds, Crash, rest

(* An INSERT adds one run, of its company.                                 *)
LEMMA InsertAdds ==
  ASSUME TypeOK, NEW q \in Requests, Insert(q)
  PROVE  \E r \in Runs :
           /\ \A c \in Companies : Counted(c)' \subseteq Counted(c) \union {r}
           /\ \A c \in Companies : c # call[q].who => Counted(c)' \subseteq Counted(c)
           /\ CountedGuests' \subseteq CountedGuests \union {r}
           /\ call[q].who \notin Guests => CountedGuests' \subseteq CountedGuests
<1>1. PICK r \in Runs : NewRow(r, call[q].who, call[q].number)
  BY DEF Insert
<1>2. /\ \A x \in Runs : x # r => rows'[x] = rows[x]
      /\ rows'[r].owner = call[q].who
      /\ uncounted' = uncounted
  BY <1>1 DEF NewRow, TypeOK, Insert
<1>3. \A c \in Companies :
        /\ Counted(c)' \subseteq Counted(c) \union {r}
        /\ c # call[q].who => Counted(c)' \subseteq Counted(c)
  BY <1>2 DEF Counted, ActiveOf, Of, Exists
<1>4. /\ CountedGuests' \subseteq CountedGuests \union {r}
      /\ call[q].who \notin Guests => CountedGuests' \subseteq CountedGuests
  BY <1>2 DEF CountedGuests, ActiveGuests, Exists
<1> QED  BY <1>3, <1>4

-----------------------------------------------------------------------------
(* The invariants.                                                         *)

(* When no more runs count, what has been found by counting stays so.      *)
LEMMA StillFewer ==
  ASSUME NoMoreRuns
  PROVE  /\ \A c \in Companies : Cardinality(Counted(c)') <= Cardinality(Counted(c))
         /\ Cardinality(CountedGuests') <= Cardinality(CountedGuests)
BY CountedAreRuns, Shrinks DEF NoMoreRuns

(* What one step does to a request: nothing, or it ends, or it moves on.   *)
LEMMA OneMoves ==
  ASSUME TypeOK, Next, NEW p \in Requests, call'[p] # call[p]
  PROVE  \/ call'[p].at \in {"idle", "lock", "rate", "admit"}
         \/ call'[p].at = "number" /\ call'[p].who \notin Guests
         \/ AllowRun(p) /\ Moves(p, "session")
         \/ CountSession(p) /\ Moves(p, "global") /\ Cardinality(ActiveOf(call[p].who)) < SessionLimit
         \/ CountGlobal(p) /\ Moves(p, "number") /\ Cardinality(ActiveGuests) < GlobalLimit
         \/ GetNextRunNumber(p)
<1>1. ASSUME NEW q \in Requests, Returns(q)  PROVE call'[p].at = "idle"
  BY <1>1, ReturnsIdle DEF NoCall
<1>2. ASSUME NEW q \in Requests, NEW to \in Places, call[q].at \in Places, Moves(q, to)
      PROVE  p = q /\ call'[p].at = to
  BY <1>2, MovesOn
<1>3. ASSUME NEW q \in Requests, NEW c \in Companies, Receive(q, c)
      PROVE  call'[p].at = "lock" \/ (call'[p].at = "number" /\ call'[p].who \notin Guests)
  <2>1. call'[p] = [at |-> IF c \in Guests THEN "lock" ELSE "number", who |-> c]
    BY <1>3 DEF Receive, TypeOK
  <2> QED  BY <2>1
<1>4. ASSUME NEW q \in Requests, Lock(q)  PROVE call'[p].at = "rate"
  BY <1>4, <1>2 DEF Lock, Places
<1>5. ASSUME NEW q \in Requests, AllowRun(q)
      PROVE  call'[p].at = "idle" \/ (p = q /\ Moves(q, "session"))
  <2>1. Moves(q, "session") \/ Returns(q)
    BY <1>5 DEF AllowRun
  <2>2. call[q].at = "rate" /\ "rate" \in Places /\ "session" \in Places
    BY <1>5 DEF AllowRun, Places
  <2> QED  BY <2>1, <2>2, <1>1, <1>2
<1>6. ASSUME NEW q \in Requests, CountSession(q)
      PROVE  \/ call'[p].at = "idle"
             \/ p = q /\ Moves(q, "global") /\ Cardinality(ActiveOf(call[q].who)) < SessionLimit
  BY <1>6, <1>1, <1>2 DEF CountSession, Places
<1>7. ASSUME NEW q \in Requests, CountGlobal(q)
      PROVE  \/ call'[p].at = "idle"
             \/ p = q /\ Moves(q, "number") /\ Cardinality(ActiveGuests) < GlobalLimit
  BY <1>7, <1>1, <1>2 DEF CountGlobal, Places
<1>8. ASSUME NEW q \in Requests, GetNextRunNumber(q)  PROVE p = q
  BY <1>8 DEF GetNextRunNumber, TypeOK
<1>9. ASSUME NEW q \in Requests, Insert(q)  PROVE call'[p].at \in {"idle", "admit"}
  BY <1>9, <1>1 DEF Insert, TypeOK
<1>10. ASSUME NEW q \in Requests, InsertRefused(q) \/ CallFails(q)  PROVE call'[p].at = "idle"
  BY <1>10, <1>1 DEF InsertRefused, CallFails
<1>11. ASSUME NEW r \in Runs, AdmitEnds(r)  PROVE call'[p].at = "idle"
  BY <1>11, <1>1 DEF AdmitEnds, Waiting
<1>12. CASE Crash
  BY <1>12 DEF Crash, NoCall
<1> QED  BY <1>3, <1>4, <1>5, <1>6, <1>7, <1>8, <1>9, <1>10, <1>11, <1>12
         DEF Next, Step, StrayLands, AdmitBegins, RunEnds, WindowEnds, Purge, rest

LEMMA CardinalitiesAreNumbers ==
  /\ \A c \in Companies : Cardinality(Counted(c)) \in Nat /\ Cardinality(Counted(c)') \in Nat
  /\ Cardinality(CountedGuests) \in Nat /\ Cardinality(CountedGuests') \in Nat
  /\ SessionLimit \in Nat /\ GlobalLimit \in Nat
BY CountedAreRuns, RunsAreFinite, ConstantsAssumption

LEMMA CheckedKept ==
  ASSUME TypeOK, Admitted, Checked, [Next]_vars
  PROVE  Checked'
<1> SUFFICES ASSUME NEW p \in Requests, NEW g \in Guests, call'[p].who = g,
                    call'[p].at \in {"global", "number", "insert"}, Next
             PROVE  /\ Cardinality(Counted(g)') < SessionLimit
                    /\ call'[p].at \in {"number", "insert"} => Cardinality(CountedGuests') < GlobalLimit
  BY DEF Checked, vars, rest, Counted, CountedGuests, ActiveOf, ActiveGuests, Of, Exists
<1> g \in Companies
  BY ConstantsAssumption
<1>1. CASE call'[p] = call[p]
  <2>1. mu = p
    BY <1>1 DEF Admitted, GuestIn
  <2>2. /\ Cardinality(Counted(g)') <= Cardinality(Counted(g))
        /\ Cardinality(CountedGuests') <= Cardinality(CountedGuests)
    <3>1. CASE NoMoreRuns
      BY <3>1, StillFewer
    <3>2. ASSUME NEW q \in Requests, Insert(q)
          PROVE  Counted(g)' \subseteq Counted(g) /\ CountedGuests' \subseteq CountedGuests
      <4>1. p # q
        BY <3>2, <1>1 DEF Insert, Returns, NoCall, TypeOK
      <4>2. call[q].who \notin Guests
        BY <3>2, <4>1, <2>1 DEF Insert, Admitted, GuestIn
      <4> QED  BY <3>2, <4>2, InsertAdds
    <3> QED  BY <3>1, <3>2, NotMore, CountedAreRuns, Shrinks
  <2> QED  BY <1>1, <2>2, CardinalitiesAreNumbers DEF Checked
<1>2. CASE call'[p] # call[p]
  <2>1. CASE CountSession(p) /\ Moves(p, "global") /\ Cardinality(ActiveOf(call[p].who)) < SessionLimit
    <3>1. call[p].who = g /\ call'[p].at = "global"
      BY <2>1, MovesOn DEF CountSession, Places
    <3>2. ActiveOf(g) \in SUBSET Runs /\ Counted(g) \in SUBSET ActiveOf(g)
      BY DEF Counted, ActiveOf, Of
    <3>3. Cardinality(Counted(g)) <= Cardinality(ActiveOf(g)) /\ Cardinality(ActiveOf(g)) < SessionLimit
      BY <2>1, <3>1, <3>2, Shrinks
    <3>4. Cardinality(Counted(g)') <= Cardinality(Counted(g))
      BY <2>1, Unchanged, StillFewer DEF CountSession, rest
    <3> QED  BY <3>1, <3>2, <3>3, <3>4, CardinalitiesAreNumbers, RunsAreFinite
  <2>2. CASE CountGlobal(p) /\ Moves(p, "number") /\ Cardinality(ActiveGuests) < GlobalLimit
    <3>1. call[p].who = g
      BY <2>2, MovesOn DEF CountGlobal, Places
    <3>2. ActiveGuests \in SUBSET Runs /\ CountedGuests \in SUBSET ActiveGuests
      BY DEF CountedGuests, ActiveGuests
    <3>3. Cardinality(CountedGuests) <= Cardinality(ActiveGuests) /\ Cardinality(ActiveGuests) < GlobalLimit
      BY <2>2, <3>2, Shrinks
    <3>4. /\ Cardinality(Counted(g)') <= Cardinality(Counted(g))
          /\ Cardinality(CountedGuests') <= Cardinality(CountedGuests)
      BY <2>2, Unchanged, StillFewer DEF CountGlobal, rest
    <3>5. Cardinality(Counted(g)) < SessionLimit
      BY <2>2, <3>1 DEF CountGlobal, Checked
    <3> QED  BY <3>2, <3>3, <3>4, <3>5, CardinalitiesAreNumbers, RunsAreFinite
  <2>3. CASE GetNextRunNumber(p)
    <3>1. call[p].who = g /\ call[p].at = "number"
      BY <2>3 DEF GetNextRunNumber, TypeOK
    <3>2. /\ Cardinality(Counted(g)') <= Cardinality(Counted(g))
          /\ Cardinality(CountedGuests') <= Cardinality(CountedGuests)
      BY <2>3, Unchanged, StillFewer DEF GetNextRunNumber, rest
    <3> QED  BY <3>1, <3>2, CardinalitiesAreNumbers DEF Checked
  <2>4. CASE AllowRun(p) /\ Moves(p, "session")
    BY <2>4, MovesOn DEF AllowRun, Places
  <2> QED  BY <1>2, <2>1, <2>2, <2>3, <2>4, OneMoves
<1> QED  BY <1>1, <1>2

LEMMA RatedKept ==
  ASSUME TypeOK, Admitted, Rated, [Next]_vars
  PROVE  Rated'
<1>1. \A i \in Addresses : count[i] \in Nat /\ created[i] \in Nat
  BY ConstantsAssumption DEF TypeOK
<1>2. \A g \in Guests : Address[g] \in Addresses
  BY ConstantsAssumption
(* A request that has passed the counter, or passes it now.                *)
<1>3. ASSUME NEW p \in Requests, NEW g \in Guests, call'[p].who = g, Next,
             call'[p].at \in {"session", "global", "number", "insert"}
      PROVE  \/ call[p].who = g /\ call[p].at \in {"session", "global", "number", "insert"}
             \/ AllowRun(p) /\ Moves(p, "session") /\ call[p].who = g
  <2>1. CASE call'[p] = call[p]
    BY <2>1, <1>3
  <2>2. CASE AllowRun(p) /\ Moves(p, "session")
    BY <2>2, <1>3, MovesOn DEF AllowRun, Places
  <2>3. CASE CountSession(p) /\ Moves(p, "global")
    BY <2>3, <1>3, MovesOn DEF CountSession, Places
  <2>4. CASE CountGlobal(p) /\ Moves(p, "number")
    BY <2>4, <1>3, MovesOn DEF CountGlobal, Places
  <2>5. CASE GetNextRunNumber(p)
    BY <2>5, <1>3 DEF GetNextRunNumber, TypeOK
  <2> QED  BY <1>3, <2>1, <2>2, <2>3, <2>4, <2>5, OneMoves
<1>4. CASE UNCHANGED <<count, created>> /\ ~(\E q \in Requests : AllowRun(q)) /\ [Next]_vars
  BY <1>3, <1>4 DEF Rated, vars
<1>5. ASSUME NEW q \in Requests, AllowRun(q)  PROVE Rated'
  <2> DEFINE i == Address[call[q].who]
  <2>1. call[q].who \in Guests /\ i \in Addresses /\ mu = q
    BY <1>2, <1>5 DEF AllowRun, Admitted, GuestIn
  <2>2. created' = created
    BY <1>5 DEF AllowRun
  <2>3. CASE Returns(q) /\ UNCHANGED count
    BY <2>2, <2>3, ReturnsIdle DEF Rated, NoCall
  <2>4. CASE Moves(q, "session") /\ count' = [count EXCEPT ![i] = @ + 1]
    <3>1. count'[i] = count[i] + 1 /\ \A j \in Addresses : count'[j] \in {count[j], count[j] + 1}
      BY <1>1, <2>1, <2>4 DEF TypeOK
    <3>2. call'[q].who = call[q].who /\ \A p \in Requests : p # q => call'[p] = call[p]
      BY <1>5, <2>4, MovesOn DEF AllowRun, Places
    <3>3. \A j \in Addresses : created'[j] <= count'[j] + 1
      BY <1>1, <2>2, <3>1 DEF Rated, TypeOK
    <3>4. ASSUME NEW p \in Requests, NEW g \in Guests, call'[p].who = g,
                 call'[p].at \in {"session", "global", "number", "insert"}
          PROVE  created'[Address[g]] <= count'[Address[g]]
      <4>1. CASE p = q
        BY <4>1, <3>4, <1>1, <2>1, <2>2, <3>1, <3>2 DEF Rated
      <4>2. CASE p # q
        BY <4>2, <3>4, <2>1, <3>2 DEF Admitted, GuestIn
      <4> QED  BY <4>1, <4>2
    <3> QED  BY <3>3, <3>4 DEF Rated
  <2> QED  BY <1>5, <2>3, <2>4 DEF AllowRun
<1>6. ASSUME NEW q \in Requests, Insert(q)  PROVE Rated'
  <2>1. /\ count' = count
        /\ created' = IF call[q].who \in Guests
                        THEN [created EXCEPT ![Address[call[q].who]] = @ + 1] ELSE created
    BY <1>6 DEF Insert
  <2>2. /\ call'[q].at \in {"idle", "admit"}
        /\ \A p \in Requests : p # q => call'[p] = call[p]
    BY <1>6, ReturnsIdle DEF Insert, NoCall, TypeOK
  <2>3. CASE call[q].who \in Guests
    <3>1. created[Address[call[q].who]] <= count[Address[call[q].who]] /\ Address[call[q].who] \in Addresses
      BY <1>2, <1>6, <2>3 DEF Insert, Rated
    <3>2. \A j \in Addresses : created'[j] <= count'[j] + 1
      BY <1>1, <2>1, <2>3, <3>1 DEF Rated, TypeOK
    <3>3. \A p \in Requests : p # q => ~GuestIn(p, {"rate", "session", "global", "number", "insert"})
      BY <1>6, <2>3 DEF Insert, Admitted, GuestIn
    <3> QED  BY <2>2, <3>2, <3>3 DEF Rated, GuestIn
  <2> QED  BY <2>1, <2>2, <2>3 DEF Rated
<1>7. ASSUME NEW j \in Addresses, WindowEnds(j)  PROVE Rated'
  <2>1. \A i \in Addresses :
          \/ count'[i] = count[i] /\ created'[i] = created[i]
          \/ count'[i] = 0 /\ created'[i] = 0
    BY <1>7 DEF WindowEnds, TypeOK
  <2> QED  BY <1>7, <1>1, <1>2, <2>1 DEF WindowEnds, Rated
<1> QED  BY <1>4, <1>5, <1>6, <1>7
         DEF Next, Step, Receive, Lock, CountSession, CountGlobal, GetNextRunNumber, InsertRefused, CallFails,
             StrayLands, AdmitBegins, AdmitEnds, RunEnds, Purge, Crash, rest, vars

LEMMA LimitsKept ==
  ASSUME TypeOK, TypeOK', Admitted, Checked, Rated', LimitsHold, [Next]_vars
  PROVE  LimitsHold'
<1>1. \A i \in Addresses : created'[i] <= RunLimit + 1
  BY ConstantsAssumption DEF TypeOK, Rated
<1>2. /\ \A g \in Guests : Cardinality(Counted(g)) <= SessionLimit
      /\ Cardinality(CountedGuests) <= GlobalLimit
  BY DEF LimitsHold, Counted, CountedGuests
<1>3. /\ \A g \in Guests : Cardinality(Counted(g)') <= SessionLimit
      /\ Cardinality(CountedGuests') <= GlobalLimit
  <2>1. CASE NoMoreRuns
    BY <1>2, <2>1, StillFewer, CardinalitiesAreNumbers, ConstantsAssumption
  <2>2. ASSUME NEW q \in Requests, Insert(q)
        PROVE  /\ \A g \in Guests : Cardinality(Counted(g)') <= SessionLimit
               /\ Cardinality(CountedGuests') <= GlobalLimit
    <3>1. PICK r \in Runs :
            /\ \A c \in Companies : Counted(c)' \subseteq Counted(c) \union {r}
            /\ \A c \in Companies : c # call[q].who => Counted(c)' \subseteq Counted(c)
            /\ CountedGuests' \subseteq CountedGuests \union {r}
            /\ call[q].who \notin Guests => CountedGuests' \subseteq CountedGuests
      BY <2>2, InsertAdds
    <3>2. ASSUME NEW g \in Guests  PROVE Cardinality(Counted(g)') <= SessionLimit
      <4>1. g \in Companies
        BY ConstantsAssumption
      <4>2. CASE g = call[q].who
        <5>1. Cardinality(Counted(g)) < SessionLimit
          BY <2>2, <4>2 DEF Insert, Checked
        <5>2. Cardinality(Counted(g)') <= Cardinality(Counted(g)) + 1
          BY <3>1, <4>1, CountedAreRuns, GrowsByOne
        <5> QED  BY <4>1, <5>1, <5>2, CardinalitiesAreNumbers
      <4>3. CASE g # call[q].who
        <5>1. Cardinality(Counted(g)') <= Cardinality(Counted(g))
          BY <3>1, <4>1, <4>3, CountedAreRuns, Shrinks
        <5> QED  BY <1>2, <4>1, <5>1, CardinalitiesAreNumbers
      <4> QED  BY <4>2, <4>3
    <3>3. Cardinality(CountedGuests') <= GlobalLimit
      <4>1. CASE call[q].who \in Guests
        <5>1. Cardinality(CountedGuests) < GlobalLimit
          BY <2>2, <4>1 DEF Insert, Checked
        <5>2. Cardinality(CountedGuests') <= Cardinality(CountedGuests) + 1
          BY <3>1, CountedAreRuns, GrowsByOne
        <5> QED  BY <5>1, <5>2, CardinalitiesAreNumbers
      <4>2. CASE call[q].who \notin Guests
        <5>1. Cardinality(CountedGuests') <= Cardinality(CountedGuests)
          BY <3>1, <4>2, CountedAreRuns, Shrinks
        <5> QED  BY <1>2, <5>1, CardinalitiesAreNumbers
      <4> QED  BY <4>1, <4>2
    <3> QED  BY <3>2, <3>3
  <2>3. CASE UNCHANGED vars
    <3>1. NoMoreRuns
      BY <2>3, Unchanged DEF vars, rest
    <3> QED  BY <2>1, <3>1
  <2> QED  BY <2>1, <2>2, <2>3, NotMore
<1> QED  BY <1>1, <1>3 DEF LimitsHold, Counted, CountedGuests

(* The numbers of a company's rows: only an INSERT of its own, or one that *)
(* was given up, adds to them.                                             *)
LEMMA NoNewNumber ==
  ASSUME TypeOK, [Next]_vars, NEW c \in Companies,
         \A q \in Requests : Insert(q) => call[q].who # c
  PROVE  /\ uncounted \subseteq uncounted'
         /\ \A r \in Of(c)' : r \in uncounted' \/ (r \in Of(c) /\ rows'[r].number = rows[r].number)
<1>1. CASE UNCHANGED <<rows, uncounted>>
  BY <1>1 DEF Of, Exists
<1>2. ASSUME NEW q \in Requests, Insert(q)
      PROVE  /\ uncounted \subseteq uncounted'
             /\ \A r \in Of(c)' : r \in Of(c) /\ rows'[r].number = rows[r].number
  <2>1. PICK r \in Runs : NewRow(r, call[q].who, call[q].number)
    BY <1>2 DEF Insert
  <2>2. rows'[r].owner # c /\ \A x \in Runs : x # r => rows'[x] = rows[x]
    BY <1>2, <2>1 DEF NewRow, TypeOK
  <2> QED  BY <1>2, <2>2 DEF Insert, Of, Exists
<1>3. ASSUME NEW s \in strays, StrayLands(s)
      PROVE  /\ uncounted \subseteq uncounted'
             /\ \A r \in Of(c)' : r \in uncounted' \/ (r \in Of(c) /\ rows'[r].number = rows[r].number)
  <2>1. CASE Insertable(s.owner, s.number)
    <3>1. PICK r \in Runs : NewRow(r, s.owner, s.number) /\ uncounted' = uncounted \union {r}
      BY <1>3, <2>1 DEF StrayLands
    <3>2. \A x \in Runs : x # r => rows'[x] = rows[x]
      BY <3>1 DEF NewRow, TypeOK
    <3> QED  BY <3>1, <3>2 DEF Of, Exists
  <2> QED  BY <1>1, <1>3, <2>1 DEF StrayLands
<1>4. ASSUME NEW x \in Runs, AdmitEnds(x) \/ RunEnds(x)
      PROVE  /\ uncounted \subseteq uncounted'
             /\ \A r \in Of(c)' : r \in Of(c) /\ rows'[r].number = rows[r].number
  <2>1. CASE Exists(x)
    <3>1. PICK s \in Active \union {"over"} : rows' = [rows EXCEPT ![x].status = s]
      BY <1>4, <2>1 DEF AdmitEnds, RunEnds
    <3>2. /\ rows'[x].owner = rows[x].owner /\ rows'[x].number = rows[x].number
          /\ \A y \in Runs : y # x => rows'[y] = rows[y]
      BY <2>1, <3>1, OutcomeTyped
    <3> QED  BY <1>4, <2>1, <3>2 DEF AdmitEnds, RunEnds, rest, Of, Exists
  <2>2. CASE ~Exists(x)
    BY <1>4, <2>2 DEF AdmitEnds, RunEnds, rest, Of, Exists, Active
  <2> QED  BY <2>1, <2>2
<1>5. ASSUME NEW g \in Guests, Purge(g)
      PROVE  /\ uncounted \subseteq uncounted'
             /\ \A r \in Of(c)' : r \in Of(c) /\ rows'[r].number = rows[r].number
  <2>1. \A x \in Runs : rows'[x] = Gone \/ rows'[x] = rows[x]
    BY <1>5 DEF Purge
  <2> QED  BY <1>5, <2>1 DEF Purge, Of, Exists, Gone
<1> QED  BY <1>1, <1>2, <1>3, <1>4, <1>5
         DEF Next, Receive, Lock, Step, AllowRun, CountSession, CountGlobal, GetNextRunNumber, InsertRefused,
             CallFails, AdmitBegins, WindowEnds, Crash, rest, vars

LEMMA NumberKept ==
  ASSUME TypeOK, TypeOK', Admitted, NumberIsFree, [Next]_vars
  PROVE  NumberIsFree'
<1> SUFFICES ASSUME NEW p \in Requests, call'[p].at = "insert", NEW c \in Guests, call'[p].who = c,
                    NEW r \in Of(c)', rows'[r].number = call'[p].number
             PROVE  r \in uncounted'
  BY DEF NumberIsFree, Of
<1> c \in Companies
  BY ConstantsAssumption
<1>1. CASE call'[p] = call[p]
  <2>1. ASSUME NEW q \in Requests, Insert(q)  PROVE call[q].who # c
    <3>1. p # q
      BY <1>1, <2>1 DEF Insert, Returns, NoCall, TypeOK
    <3> QED  BY <1>1, <2>1, <3>1 DEF Insert, Admitted, GuestIn
  <2> QED  BY <1>1, <2>1, NoNewNumber DEF NumberIsFree
<1>2. CASE call'[p] # call[p]
  <2>1. GetNextRunNumber(p)
    <3>1. Next
      BY <1>2 DEF vars
    <3>2. ~Moves(p, "session") \/ ~AllowRun(p)
      BY MovesOn DEF AllowRun, Places
    <3>3. ~Moves(p, "global") \/ ~CountSession(p)
      BY MovesOn DEF CountSession, Places
    <3>4. ~Moves(p, "number") \/ ~CountGlobal(p)
      BY MovesOn DEF CountGlobal, Places
    <3> QED  BY <1>2, <3>1, <3>2, <3>3, <3>4, OneMoves
  <2>2. PICK n \in 1 .. MaxRuns + 1 :
          /\ \A x \in Of(call[p].who) : rows[x].number < n
          /\ call' = [call EXCEPT ![p] = [at |-> "insert", who |-> call[p].who, number |-> n]]
    BY <2>1 DEF GetNextRunNumber
  <2>3. call[p].who = c /\ call'[p].number = n /\ rows' = rows
    BY <2>1, <2>2 DEF GetNextRunNumber, TypeOK
  <2>4. r \in Of(c) /\ rows[r].number = n
    BY <2>3 DEF Of, Exists
  <2>5. n \in Int /\ n < n
    BY <2>2, <2>3, <2>4, ConstantsAssumption
  <2> QED  BY <2>5
<1> QED  BY <1>1, <1>2

LEMMA InvKept ==
  ASSUME Inv, [Next]_vars
  PROVE  Inv'
<1>1. TypeOK'
  BY NextTyped DEF Inv
<1>2. Admitted' /\ Checked' /\ Rated'
  BY AdmittedKept, CheckedKept, RatedKept DEF Inv
<1>3. LimitsHold' /\ NumberIsFree'
  BY <1>1, <1>2, LimitsKept, NumberKept DEF Inv
<1> QED  BY <1>1, <1>2, <1>3 DEF Inv

LEMMA Invariant == Spec => []Inv
<1>1. Inv /\ [Next]_vars => Inv'
  BY InvKept
<1> QED  BY InitInv, <1>1, PTL DEF Spec

(* Of a guest's runs, and of all guests' together, no more count than      *)
(* allowed, for any number of guests and requests and whatever fails,      *)
(* except for runs that came to count behind the back of the admission; an *)
(* address creates at most one run more than its limit.                    *)
THEOREM GuestsAreLimited == Spec => []LimitsHold
<1>1. Inv => LimitsHold
  BY DEF Inv
<1> QED  BY Invariant, <1>1, PTL

(* The number a guest's request has read is still free when it inserts its *)
(* run, unless a given-up INSERT has taken it.                             *)
THEOREM NumbersAreFree == Spec => []NumberIsFree
<1>1. Inv => NumberIsFree
  BY DEF Inv
<1> QED  BY Invariant, <1>1, PTL
=============================================================================
