------------------------------ MODULE GuestRuns -------------------------------
(***************************************************************************)
(* How runs are created: CreateRun and RerunRun of internal/runs and       *)
(* CreateRun of internal/ferry, the admission of guests in front of them   *)
(* (internal/guest), and the purge of expired guests                       *)
(* (internal/guestcleanup).                                                *)
(*                                                                         *)
(* A company has one project here, in which its runs are numbered; a guest *)
(* is the only user of a company of its own. What becomes of a run is in   *)
(* RunScheduler; here it counts, or it is over.                            *)
(***************************************************************************)
EXTENDS Integers, FiniteSets

CONSTANTS
  Companies,    \* who has signed in
  Guests,       \* those that are guests
  Addresses,    \* client addresses
  Address,      \* Address[g]: where guest g calls from
  Requests,     \* calls under way at the same time
  SessionLimit, \* GUEST_ACTIVE_RUN_LIMIT
  GlobalLimit,  \* GUEST_GLOBAL_RUN_LIMIT
  RunLimit,     \* GUEST_RUN_CREATION_LIMIT_PER_IP
  Faults,       \* what else may happen, see FaultKinds
  MaxRuns,      \* bound of the model: runs ever created
  MaxTrouble    \* bound of the model: faults and purges

(* call: a call to Redis, Postgres or GitHub fails, or the client hangs    *)
(* up; stray: an INSERT given up that way is committed all the same;       *)
(* crash: the api restarts.                                                *)
FaultKinds == {"call", "stray", "crash"}

(* Validate in config.go: the limits are positive.                         *)
ASSUME ConstantsAssumption ==
  /\ Guests \subseteq Companies
  /\ Address \in [Guests -> Addresses]
  /\ SessionLimit \in Nat \ {0} /\ GlobalLimit \in Nat \ {0} /\ RunLimit \in Nat \ {0}
  /\ Faults \subseteq FaultKinds
  /\ MaxRuns \in Nat /\ MaxTrouble \in Nat

Runs == 1 .. MaxRuns
Free == "free"
ASSUME FreeAssumption == Free \notin Requests

VARIABLES
  rows,      \* migration_runs
  there,     \* companies that exist
  count,     \* the counter of an address in Redis
  created,   \* runs created from an address since its counter was set
  mu,        \* Admission.mu
  call,      \* per request: where it is, for whom, and what it has read
  admitting, \* runs that Admit or the reconcile loop has in hand
  strays,    \* INSERTs that were given up and not yet committed
  uncounted, \* runs made active behind the back of the admission
  trouble    \* faults and purges so far

rest  == <<admitting, strays, uncounted, trouble>>
vars  == <<rows, there, count, created, mu, call, rest>>

(* The statuses that count: "waiting" stands for pending and queued, and   *)
(* the code sets no other than planning before the outcome.                *)
Active == {"waiting", "planning"}

NoRow == [status |-> "none"]
Gone  == [status |-> "gone"]
Rows  == {NoRow, Gone} \union [owner : Companies, number : Nat, status : Active \union {"over"}]

Exists(r)      == rows[r].status \notin {"none", "gone"}
Of(c)          == {r \in Runs : Exists(r) /\ rows[r].owner = c}
ActiveOf(c)    == {r \in Of(c) : rows[r].status \in Active}
ActiveGuests   == {r \in Runs : Exists(r) /\ rows[r].owner \in Guests /\ rows[r].status \in Active}
Taken(c, n)    == \E r \in Of(c) : rows[r].number = n

(* The places of a request, in the order of the handlers.                  *)
NoCall == [at |-> "idle"]
Calls  == {NoCall}
  \union [at : {"lock", "rate", "session", "global", "number"}, who : Companies]
  \union [at : {"insert"}, who : Companies, number : Nat]
  \union [at : {"admit"}, run : Runs]

Init ==
  /\ rows = [r \in Runs |-> NoRow]
  /\ there = Companies
  /\ count = [i \in Addresses |-> 0] /\ created = [i \in Addresses |-> 0]
  /\ mu = Free
  /\ call = [q \in Requests |-> NoCall]
  /\ admitting = {} /\ strays = {} /\ uncounted = {} /\ trouble = 0

-----------------------------------------------------------------------------
(* A request.                                                              *)

Moves(q, to) == call' = [call EXCEPT ![q].at = to]

(* The handler returns; a guest's releases the admission.                  *)
Returns(q) ==
  /\ call' = [call EXCEPT ![q] = NoCall]
  /\ mu' = IF mu = q THEN Free ELSE mu

(* Bound of the model: rows are left for what is under way.                *)
Spare == Cardinality({r \in Runs : rows[r].status = "none"})
           > Cardinality({q \in Requests : call[q].at # "idle"}) + Cardinality(strays)

(* CreateRun, for an allowed repository, or RerunRun. Only guests are      *)
(* admitted; a token outlives a purged guest.                              *)
Receive(q, c) ==
  /\ call[q].at = "idle" /\ Spare
  /\ call' = [call EXCEPT ![q] = [at |-> IF c \in Guests THEN "lock" ELSE "number", who |-> c]]
  /\ UNCHANGED <<rows, there, count, created, mu, rest>>

Lock(q) ==
  /\ call[q].at = "lock" /\ mu = Free
  /\ mu' = q
  /\ Moves(q, "rate")
  /\ UNCHANGED <<rows, there, count, created, rest>>

(* Mutant of AllowRun: one too many.                                       *)
AllowRunLoose(q) ==
  LET i == Address[call[q].who] IN
  /\ call[q].at = "rate"
  /\ IF count[i] <= RunLimit
       THEN Moves(q, "session") /\ count' = [count EXCEPT ![i] = @ + 1] /\ UNCHANGED mu
       ELSE Returns(q) /\ UNCHANGED count
  /\ UNCHANGED <<rows, there, created, rest>>

(* allow: the counter is incremented whether or not the run is admitted.   *)
(* Beyond the limit its value does not matter.                             *)
AllowRun(q) ==
  LET i == Address[call[q].who] IN
  /\ call[q].at = "rate"
  /\ IF count[i] < RunLimit
       THEN Moves(q, "session") /\ count' = [count EXCEPT ![i] = @ + 1] /\ UNCHANGED mu
       ELSE Returns(q) /\ UNCHANGED count
  /\ UNCHANGED <<rows, there, created, rest>>

(* Mutant of CountSession: one too many.                                   *)
CountSessionLoose(q) ==
  /\ call[q].at = "session"
  /\ IF Cardinality(ActiveOf(call[q].who)) <= SessionLimit
       THEN Moves(q, "global") /\ UNCHANGED mu
       ELSE Returns(q)
  /\ UNCHANGED <<rows, there, count, created, rest>>

CountSession(q) ==
  /\ call[q].at = "session"
  /\ IF Cardinality(ActiveOf(call[q].who)) < SessionLimit
       THEN Moves(q, "global") /\ UNCHANGED mu
       ELSE Returns(q)
  /\ UNCHANGED <<rows, there, count, created, rest>>

(* Mutant of CountGlobal: the mutex covers the check only.                 *)
CountGlobalReleasing(q) ==
  /\ call[q].at = "global"
  /\ IF Cardinality(ActiveGuests) < GlobalLimit
       THEN Moves(q, "number") /\ mu' = Free
       ELSE Returns(q)
  /\ UNCHANGED <<rows, there, count, created, rest>>

CountGlobal(q) ==
  /\ call[q].at = "global"
  /\ IF Cardinality(ActiveGuests) < GlobalLimit
       THEN Moves(q, "number") /\ UNCHANGED mu
       ELSE Returns(q)
  /\ UNCHANGED <<rows, there, count, created, rest>>

(* validateRepoAccess and findOrCreateProject have succeeded.              *)
GetNextRunNumber(q) ==
  /\ call[q].at = "number"
  /\ \E n \in 1 .. MaxRuns + 1 :
       /\ \A r \in Of(call[q].who) : rows[r].number < n
       /\ n > 1 => Taken(call[q].who, n - 1)
       /\ call' = [call EXCEPT ![q] = [at |-> "insert", who |-> @.who, number |-> n]]
  /\ UNCHANGED <<rows, there, count, created, mu, rest>>

NewRow(r, c, n) ==
  /\ rows[r] = NoRow /\ \A s \in 1 .. r - 1 : rows[s] # NoRow
  /\ rows' = [rows EXCEPT ![r] = [owner |-> c, number |-> n, status |-> "waiting"]]

Insertable(c, n) == c \in there /\ ~Taken(c, n)

(* CreateMigrationRun. The company may be gone, the number may be taken.   *)
(* The handler of internal/ferry then hands the run to Admit itself and    *)
(* waits for it, the others return.                                        *)
Insert(q) ==
  LET c == call[q].who IN
  /\ call[q].at = "insert"
  /\ Insertable(c, call[q].number)
  /\ \E r \in Runs :
       /\ NewRow(r, c, call[q].number)
       /\ \/ Returns(q) /\ UNCHANGED admitting
          \/ /\ call' = [call EXCEPT ![q] = [at |-> "admit", run |-> r]]
             /\ admitting' = admitting \union {r}
             /\ UNCHANGED mu
  /\ created' = IF c \in Guests THEN [created EXCEPT ![Address[c]] = @ + 1] ELSE created
  /\ UNCHANGED <<there, count, strays, uncounted, trouble>>

InsertRefused(q) ==
  /\ call[q].at = "insert"
  /\ ~Insertable(call[q].who, call[q].number)
  /\ Returns(q)
  /\ UNCHANGED <<rows, there, count, created, rest>>

(* A call of the handler fails. pgx gives up an INSERT whose context is    *)
(* cancelled without waiting for the server.                               *)
CallFails(q) ==
  /\ "call" \in Faults /\ trouble < MaxTrouble
  /\ call[q].at \in {"rate", "session", "global", "number", "insert"}
  /\ Returns(q)
  /\ strays' \in {strays} \union
       (IF call[q].at = "insert" /\ "stray" \in Faults
          THEN {strays \union {[owner |-> call[q].who, number |-> call[q].number]}} ELSE {})
  /\ trouble' = trouble + 1
  /\ UNCHANGED <<rows, there, count, created, admitting, uncounted>>

StrayLands(s) ==
  /\ s \in strays
  /\ strays' = strays \ {s}
  /\ IF Insertable(s.owner, s.number)
       THEN \E r \in Runs : NewRow(r, s.owner, s.number) /\ uncounted' = uncounted \union {r}
       ELSE UNCHANGED <<rows, uncounted>>
  /\ UNCHANGED <<there, count, created, mu, call, admitting, trouble>>

-----------------------------------------------------------------------------
(* The runs that there are, see RunScheduler.                              *)

(* StartRun found the run pending, or the loop found it queueable.         *)
AdmitBegins(r) ==
  /\ r \notin admitting
  /\ rows[r].status = "waiting"
  /\ admitting' = admitting \union {r}
  /\ UNCHANGED <<rows, there, count, created, mu, call, strays, uncounted, trouble>>

(* The request of internal/ferry that waits for the run.                   *)
Waiting(r) == {q \in Requests : call[q].at = "admit" /\ call[q].run = r}

(* It is queued, started or failed, whatever has become of it meanwhile.   *)
(* Another caller may have it in hand still: StartRun's check is outside   *)
(* the mutex of the scheduler.                                             *)
AdmitEnds(r) ==
  /\ r \in admitting
  /\ admitting' \in {admitting, admitting \ {r}}
  /\ \E s \in Active \union {"over"} :
       /\ rows' = IF Exists(r) THEN [rows EXCEPT ![r].status = s] ELSE rows
       /\ uncounted' = IF rows[r].status = "over" /\ s # "over"
                         THEN uncounted \union {r} ELSE uncounted
  /\ \/ \E q \in Waiting(r) : Returns(q)
     \/ Waiting(r) = {} /\ UNCHANGED <<call, mu>>
  /\ UNCHANGED <<there, count, created, strays, trouble>>

(* The run completes, fails, or is cancelled.                              *)
RunEnds(r) ==
  /\ rows[r].status \in Active
  /\ rows' = [rows EXCEPT ![r].status = "over"]
  /\ UNCHANGED <<there, count, created, mu, call, rest>>

-----------------------------------------------------------------------------
(* Time, the cleaner, and restarts.                                        *)

(* The counter expires GUEST_RATE_WINDOW after it was set.                 *)
WindowEnds(i) ==
  /\ count[i] > 0
  /\ count'   = [count EXCEPT ![i] = 0]
  /\ created' = [created EXCEPT ![i] = 0]
  /\ UNCHANGED <<rows, there, mu, call, rest>>

(* purge, for a guest older than GUEST_SESSION_TTL: its last step, which   *)
(* cascades to the runs. The deletions before it are not modelled.         *)
Purge(g) ==
  /\ g \in there /\ trouble < MaxTrouble
  /\ there' = there \ {g}
  /\ rows'  = [r \in Runs |-> IF r \in Of(g) THEN Gone ELSE rows[r]]
  /\ trouble' = trouble + 1
  /\ UNCHANGED <<count, created, mu, call, admitting, strays, uncounted>>

Crash ==
  /\ "crash" \in Faults
  /\ trouble < MaxTrouble /\ trouble' = trouble + 1
  /\ mu' = Free /\ admitting' = {}
  /\ call' = [q \in Requests |-> NoCall]
  /\ \E lost \in SUBSET {q \in Requests : call[q].at = "insert" /\ "stray" \in Faults} :
       strays' = strays \union {[owner |-> call[q].who, number |-> call[q].number] : q \in lost}
  /\ UNCHANGED <<rows, there, count, created, uncounted>>

Step(q) ==
  \/ AllowRun(q) \/ CountSession(q) \/ CountGlobal(q) \/ GetNextRunNumber(q)
  \/ Insert(q) \/ InsertRefused(q)

Next ==
  \/ \E q \in Requests :
       \/ \E c \in Companies : Receive(q, c)
       \/ Lock(q) \/ Step(q) \/ CallFails(q)
  \/ \E s \in strays : StrayLands(s)
  \/ \E r \in Runs : AdmitBegins(r) \/ AdmitEnds(r) \/ RunEnds(r)
  \/ \E i \in Addresses : WindowEnds(i)
  \/ \E g \in Guests : Purge(g)
  \/ Crash

Spec == Init /\ [][Next]_vars

-----------------------------------------------------------------------------
TypeOK ==
  /\ rows \in [Runs -> Rows]
  /\ there \subseteq Companies
  /\ count \in [Addresses -> 0 .. RunLimit] /\ created \in [Addresses -> Nat]
  /\ mu \in Requests \union {Free}
  /\ call \in [Requests -> Calls]
  /\ admitting \subseteq Runs /\ uncounted \subseteq Runs
  /\ trouble \in 0 .. MaxTrouble
  /\ strays \subseteq [owner : Companies, number : Nat]

(* The limits hold however guests, addresses and the ends of their runs    *)
(* interleave: of a guest's runs and of all guests' together no more count *)
(* than allowed, except for runs that were cancelled while Admit had them  *)
(* in hand, and INSERTs given up. An address creates one run more than its *)
(* limit if its counter expires between an admission and the INSERT.       *)
LimitsHold ==
  /\ \A g \in Guests : Cardinality(ActiveOf(g) \ uncounted) <= SessionLimit
  /\ Cardinality(ActiveGuests \ uncounted) <= GlobalLimit
  /\ \A i \in Addresses : created[i] <= RunLimit + 1

(* Of two requests of a guest neither fails because both have read the     *)
(* same MAX(run_number): the admission is held until the INSERT. Members   *)
(* are not admitted, and theirs may.                                       *)
NumberIsFree ==
  \A q \in Requests : call[q].at = "insert" /\ call[q].who \in Guests =>
    \A r \in Of(call[q].who) : rows[r].number = call[q].number => r \in uncounted
=============================================================================
