---------------------------- MODULE RunScheduler ----------------------------
(***************************************************************************)
(* Admission of migration runs to provider-key slots                       *)
(* (backend/internal/scheduler/scheduler.go), with the handlers that call  *)
(* it or write the same rows (StartRun and CancelRun of runs/handler.go),  *)
(* the mirror that finalises a run, and what the agent workers do to the   *)
(* keys the scheduler shares with them.                                    *)
(*                                                                         *)
(* Every read or write of Postgres, Redis or Band is a step of its own:    *)
(* only the scheduler's mutex excludes anything, and CancelRun, the mirror *)
(* and the workers do not take it.                                         *)
(***************************************************************************)
EXTENDS Integers, Sequences, FiniteSets, SequencesExt

CONSTANTS
  Runs,          \* migration_runs rows, all created "pending"
  Reqs,          \* StartRun requests; each is served once
  Cancels,       \* CancelRun requests; each is served once
  NumSlots,      \* provider keys (config Agents.Slots())
  Faults,        \* which failures may happen, see FaultKinds
  GuestRefused,  \* runs of guests whose repository the policy refuses
  NoRun, Reconciler, Unlocked

(* ctx: a client hangs up and its request context is cancelled;            *)
(* crash: the api process restarts; redis, db: one call fails;             *)
(* band: StartFerryBandRoom returns an error.                              *)
FaultKinds == {"ctx", "crash", "redis", "db", "band"}

ASSUME ConstantsAssumption ==
  /\ NumSlots \in Nat \ {0}
  /\ Faults \subseteq FaultKinds
  /\ GuestRefused \subseteq Runs
  /\ NoRun \notin Runs
  /\ Reconciler \notin Reqs
  /\ Unlocked \notin Reqs \union {Reconciler}

VARIABLES
  status,    \* migration_runs.status
  started,   \* migration_runs.started_at: none, within staleAfter, or older
  queue,     \* Redis list ferry:run:queue
  slotKey,   \* Redis ferry:run:slot:<id>
  active,    \* runs with a Redis key ferry:run:active:<id>
  terminal,  \* runs with a Redis key ferry:run:terminal:<id>
  pipes,     \* kicked-off agent pipelines: <<run, slot of its RunContext>>
  mu,        \* who holds Scheduler.mu
  pc, arg, slot,  \* where each scheduler caller is, its run, its slot
  alive,     \* the caller's context is not cancelled
  cancel,    \* CancelRun handlers
  mirror,    \* the mirror's goroutine inside finalizePRRun
  owed       \* calls of Admit for a run less its kickoffs (not in the code)

stores  == <<status, started, queue, slotKey, active, terminal, pipes>>
callers == <<mu, pc, arg, slot, alive>>
vars    == <<stores, callers, cancel, mirror, owed>>

Slots   == 0 .. NumSlots - 1
NoSlot  == -1
Procs   == Reqs \union {Reconciler}
ActiveStatuses == {"planning"}
Statuses == {"pending", "queued", "completed", "failed"} \union ActiveStatuses

StartSteps   == {"load", "activate", "room", "pin", "persist"}
FailSteps    == {"fail_db", "fail_keys"}
ReconcileSteps == {"alloc", "pop", "check"}
QueueSteps   == {"push", "mark_queued"}
Critical     == StartSteps \union FailSteps \union ReconcileSteps \union QueueSteps
PCs          == Critical \union {"idle", "admit", "done"}

-----------------------------------------------------------------------------
(* Outcomes of one call to a store, and of a call made with p's context.   *)
StoreOutcomes(store) == IF store \in Faults THEN BOOLEAN ELSE {TRUE}
Outcomes(p, store)   == IF alive[p] THEN StoreOutcomes(store) ELSE {FALSE}

(* usedSlots counts the runs of its query and the slot keys it can read.   *)
Accounted(r) == status[r] \in ActiveStatuses /\ started[r] = "fresh"
UsedSlots    == {slotKey[r] : r \in {x \in Runs : Accounted(x)}} \ {NoSlot}

(* A failed query yields an empty set, a failed GET drops one slot.        *)
SeenSlots(p) ==
  {used \in SUBSET UsedSlots :
     \/ used = UsedSlots /\ alive[p]
     \/ used = {} /\ FALSE \in Outcomes(p, "db")
     \/ alive[p] /\ "redis" \in Faults}

(* Mutants of LowestFree: slots counted from 1; used slots ignored.        *)
LowestFreeFromOne(used) ==
  CHOOSE s \in (1 .. NumSlots) \ used : \A t \in (1 .. NumSlots) \ used : s <= t
LowestFreeIgnoresUsed(used) == CHOOSE s \in Slots : \A t \in Slots : s <= t

LowestFree(used) == CHOOSE s \in Slots \ used : \A t \in Slots \ used : s <= t

(* shouldSkipRun of the workers: the terminal key is read first.           *)
Live(r) == r \in active /\ r \notin terminal

Starting(r) == \E p \in Procs : arg[p] = r /\ pc[p] \in Critical

GoTo(p, l) == pc' = [pc EXCEPT ![p] = l]

-----------------------------------------------------------------------------
Init ==
  /\ status   = [r \in Runs |-> "pending"]
  /\ started  = [r \in Runs |-> "none"]
  /\ queue    = <<>>
  /\ slotKey  = [r \in Runs |-> NoSlot]
  /\ active   = {}
  /\ terminal = {}
  /\ pipes    = {}
  /\ mu       = Unlocked
  /\ pc       = [p \in Procs |-> "idle"]
  /\ arg      = [p \in Procs |-> NoRun]
  /\ slot     = [p \in Procs |-> NoSlot]
  /\ alive    = [p \in Procs |-> TRUE]
  /\ cancel   = [c \in Cancels |-> [pc |-> "idle", run |-> NoRun]]
  /\ mirror   = [pc |-> "idle", run |-> NoRun]
  /\ owed     = [r \in Runs |-> 0]

-----------------------------------------------------------------------------
(* StartRun: the pending check is made before the scheduler is called; a   *)
(* run in any other status gets a 409 and changes nothing.                 *)
ReceiveStart(q, r) ==
  /\ pc[q] = "idle"
  /\ status[r] = "pending"
  /\ GoTo(q, "admit")
  /\ arg' = [arg EXCEPT ![q] = r]
  /\ UNCHANGED <<stores, mu, slot, alive, cancel, mirror, owed>>

(* Mutant of Admit: it does not wait for the mutex.                        *)
AdmitUnlocked(q) ==
  /\ pc[q] = "admit"
  /\ mu' = q
  /\ \E used \in SeenSlots(q) :
       \/ /\ Slots \subseteq used
          /\ GoTo(q, "push")
          /\ UNCHANGED slot
       \/ /\ ~(Slots \subseteq used)
          /\ slot' = [slot EXCEPT ![q] = LowestFree(used)]
          /\ GoTo(q, "load")
  /\ owed' = [owed EXCEPT ![arg[q]] = @ + 1]
  /\ UNCHANGED <<stores, arg, alive, cancel, mirror>>

(* Admit takes the mutex and looks for a slot.                             *)
Admit(q) ==
  /\ pc[q] = "admit"
  /\ mu = Unlocked
  /\ mu' = q
  /\ \E used \in SeenSlots(q) :
       \/ /\ Slots \subseteq used
          /\ GoTo(q, "push")
          /\ UNCHANGED slot
       \/ /\ ~(Slots \subseteq used)
          /\ slot' = [slot EXCEPT ![q] = LowestFree(used)]
          /\ GoTo(q, "load")
  /\ owed' = [owed EXCEPT ![arg[q]] = @ + 1]
  /\ UNCHANGED <<stores, arg, alive, cancel, mirror>>

(* No slot: the run is pushed first and marked queued next, whatever its   *)
(* status has become: a planning run goes back to queued.                  *)
PushQueue(q) ==
  /\ pc[q] = "push"
  /\ \E ok \in Outcomes(q, "redis") :
       queue' = IF ok THEN Append(queue, arg[q]) ELSE queue
  /\ GoTo(q, "mark_queued")
  /\ UNCHANGED <<status, started, slotKey, active, terminal, pipes,
                 mu, arg, slot, alive, cancel, mirror, owed>>

(* A caller leaves the critical section; the reconciler's loop goes on.    *)
Leave(p) ==
  /\ GoTo(p, IF p = Reconciler THEN "alloc" ELSE "done")
  /\ mu'   = IF p = Reconciler THEN mu ELSE Unlocked
  /\ arg'  = [arg EXCEPT ![p] = NoRun]
  /\ slot' = [slot EXCEPT ![p] = NoSlot]
  /\ alive' = [alive EXCEPT ![p] = TRUE]

MarkQueued(q) ==
  /\ pc[q] = "mark_queued"
  /\ \E ok \in Outcomes(q, "db") :
       status' = IF ok THEN [status EXCEPT ![arg[q]] = "queued"] ELSE status
  /\ Leave(q)
  /\ UNCHANGED <<started, queue, slotKey, active, terminal, pipes, cancel, mirror, owed>>

-----------------------------------------------------------------------------
(* start: called by Admit and by the reconcile loop, mutex held.           *)
LoadRun(p) ==
  /\ pc[p] = "load"
  /\ \E ok \in Outcomes(p, "db") :
       GoTo(p, IF ok /\ arg[p] \notin GuestRefused THEN "activate" ELSE "fail_db")
  /\ UNCHANGED <<stores, mu, arg, slot, alive, cancel, mirror, owed>>

Activate(p) ==
  /\ pc[p] = "activate"
  /\ \E set, del \in Outcomes(p, "redis") :
       /\ active'   = IF set THEN active \union {arg[p]} ELSE active
       /\ terminal' = IF del THEN terminal \ {arg[p]} ELSE terminal
  /\ GoTo(p, "room")
  /\ UNCHANGED <<status, started, queue, slotKey, pipes,
                 mu, arg, slot, alive, cancel, mirror, owed>>

(* StartFerryBandRoom: once the kickoff is delivered the pipeline runs. An *)
(* error may come back although Band delivered the kickoff.                *)
StartRoom(p) ==
  /\ pc[p] = "room"
  /\ \E delivered \in BOOLEAN :
       /\ \/ delivered /\ alive[p] /\ GoTo(p, "pin")
          \/ FALSE \in Outcomes(p, "band") /\ GoTo(p, "fail_db")
       /\ pipes' = IF delivered THEN pipes \union {<<arg[p], slot[p]>>} ELSE pipes
       /\ owed'  = IF delivered THEN [owed EXCEPT ![arg[p]] = @ - 1] ELSE owed
  /\ UNCHANGED <<status, started, queue, slotKey, active, terminal,
                 mu, arg, slot, alive, cancel, mirror>>

PinSlot(p) ==
  /\ pc[p] = "pin"
  /\ \E ok \in Outcomes(p, "redis") :
       slotKey' = IF ok THEN [slotKey EXCEPT ![arg[p]] = slot[p]] ELSE slotKey
  /\ GoTo(p, "persist")
  /\ UNCHANGED <<status, started, queue, active, terminal, pipes,
                 mu, arg, slot, alive, cancel, mirror, owed>>

(* The UPDATE has no guard on the status; its error is only logged.        *)
Persist(p) ==
  /\ pc[p] = "persist"
  /\ \E ok \in Outcomes(p, "db") :
       /\ status'  = IF ok THEN [status EXCEPT ![arg[p]] = "planning"] ELSE status
       /\ started' = IF ok THEN [started EXCEPT ![arg[p]] = "fresh"] ELSE started
  /\ Leave(p)
  /\ UNCHANGED <<queue, slotKey, active, terminal, pipes, cancel, mirror, owed>>

(* Mutant of FailRow: a run that did not start is put in the list again.   *)
FailRowRequeues(p) ==
  /\ pc[p] = "fail_db"
  /\ status' = [status EXCEPT ![arg[p]] = "queued"]
  /\ queue' = Append(queue, arg[p])
  /\ GoTo(p, "fail_keys")
  /\ UNCHANGED <<started, slotKey, active, terminal, pipes,
                 mu, arg, slot, alive, cancel, mirror, owed>>

(* fail: first the row, then the two keys.                                 *)
FailRow(p) ==
  /\ pc[p] = "fail_db"
  /\ \E ok \in Outcomes(p, "db") :
       status' = IF ok THEN [status EXCEPT ![arg[p]] = "failed"] ELSE status
  /\ GoTo(p, "fail_keys")
  /\ UNCHANGED <<started, queue, slotKey, active, terminal, pipes,
                 mu, arg, slot, alive, cancel, mirror, owed>>

FailKeys(p) ==
  /\ pc[p] = "fail_keys"
  /\ \E del, set \in Outcomes(p, "redis") :
       /\ active'   = IF del THEN active \ {arg[p]} ELSE active
       /\ terminal' = IF set THEN terminal \union {arg[p]} ELSE terminal
  /\ Leave(p)
  /\ UNCHANGED <<status, started, queue, slotKey, pipes, cancel, mirror, owed>>

StartStep(p) ==
  \/ LoadRun(p)
  \/ Activate(p)
  \/ StartRoom(p)
  \/ PinSlot(p)
  \/ Persist(p)
  \/ FailRow(p)
  \/ FailKeys(p)

-----------------------------------------------------------------------------
(* reconcile: take the mutex, fail the stale runs, then admit queued runs  *)
(* while a slot is free.                                                   *)
(* Mutant of Stale: no run ever times out.                                 *)
StaleNever(r) == FALSE

Stale(r) == status[r] \in ActiveStatuses /\ started[r] = "stale"

Reconcile ==
  /\ pc[Reconciler] = "idle"
  /\ mu = Unlocked
  /\ mu' = Reconciler
  /\ \E ok \in Outcomes(Reconciler, "db") :
       status' = [r \in Runs |-> IF ok /\ Stale(r) THEN "failed" ELSE status[r]]
  /\ GoTo(Reconciler, "alloc")
  /\ UNCHANGED <<started, queue, slotKey, active, terminal, pipes,
                 arg, slot, alive, cancel, mirror, owed>>

EndReconcile ==
  /\ GoTo(Reconciler, "idle")
  /\ mu'   = Unlocked
  /\ arg'  = [arg EXCEPT ![Reconciler] = NoRun]
  /\ slot' = [slot EXCEPT ![Reconciler] = NoSlot]
  /\ UNCHANGED <<stores, alive, cancel, mirror, owed>>

Allocate ==
  /\ pc[Reconciler] = "alloc"
  /\ \E used \in SeenSlots(Reconciler) :
       \/ Slots \subseteq used /\ EndReconcile
       \/ /\ ~(Slots \subseteq used)
          /\ slot' = [slot EXCEPT ![Reconciler] = LowestFree(used)]
          /\ GoTo(Reconciler, "pop")
          /\ UNCHANGED <<stores, mu, arg, alive, cancel, mirror, owed>>

PopQueue ==
  /\ pc[Reconciler] = "pop"
  /\ \/ queue = <<>> \/ "redis" \in Faults
     /\ EndReconcile

PopRun ==
  /\ pc[Reconciler] = "pop"
  /\ queue # <<>>
  /\ arg' = [arg EXCEPT ![Reconciler] = Head(queue)]
  /\ queue' = Tail(queue)
  /\ GoTo(Reconciler, "check")
  /\ UNCHANGED <<status, started, slotKey, active, terminal, pipes,
                 mu, slot, alive, cancel, mirror, owed>>

(* Mutant of CheckQueueable: only pending runs pass.                       *)
CheckQueueablePendingOnly ==
  /\ pc[Reconciler] = "check"
  /\ \/ /\ status[arg[Reconciler]] = "pending"
        /\ GoTo(Reconciler, "load")
        /\ UNCHANGED <<mu, arg, slot, alive>>
     \/ /\ status[arg[Reconciler]] # "pending"
        /\ Leave(Reconciler)
  /\ UNCHANGED <<stores, cancel, mirror, owed>>

(* isQueueable, read before start and used after it.                       *)
CheckQueueable ==
  /\ pc[Reconciler] = "check"
  /\ \E ok \in Outcomes(Reconciler, "db") :
       \/ /\ ok /\ status[arg[Reconciler]] \in {"queued", "pending"}
          /\ GoTo(Reconciler, "load")
          /\ UNCHANGED <<mu, arg, slot, alive>>
       \/ /\ ~(ok /\ status[arg[Reconciler]] \in {"queued", "pending"})
          /\ Leave(Reconciler)
  /\ UNCHANGED <<stores, cancel, mirror, owed>>

ReconcileStep == Allocate \/ PopQueue \/ PopRun \/ CheckQueueable

-----------------------------------------------------------------------------
(* CancelRun: two unconditional updates of the row, no mutex, no Redis.    *)
CancelStatus(c, r) ==
  /\ cancel[c].pc = "idle"
  /\ cancel' = [cancel EXCEPT ![c] = [pc |-> "complete", run |-> r]]
  /\ status' = [status EXCEPT ![r] = "failed"]
  /\ UNCHANGED <<started, queue, slotKey, active, terminal, pipes, callers, mirror, owed>>

CancelComplete(c) ==
  /\ cancel[c].pc = "complete"
  /\ \E ok \in StoreOutcomes("ctx") \union StoreOutcomes("db") :
       status' = IF ok THEN [status EXCEPT ![cancel[c].run] = "failed"] ELSE status
  /\ cancel' = [cancel EXCEPT ![c] = [pc |-> "done", run |-> NoRun]]
  /\ UNCHANGED <<started, queue, slotKey, active, terminal, pipes, callers, mirror, owed>>

-----------------------------------------------------------------------------
(* finalizePRRun of the mirror, when the GitHub connector's message of a   *)
(* pipeline arrives: a guarded update of the row, then the two keys.       *)
Finalize(pipe, outcome) ==
  /\ mirror.pc = "idle"
  /\ pipe \in pipes
  /\ pipes' = pipes \ {pipe}
  /\ \E ok \in StoreOutcomes("db") :
       status' = IF ok /\ status[pipe[1]] \notin {"completed", "failed"}
                 THEN [status EXCEPT ![pipe[1]] = outcome] ELSE status
  /\ mirror' = [pc |-> "mark", run |-> pipe[1]]
  /\ UNCHANGED <<started, queue, slotKey, active, terminal, callers, cancel, owed>>

(* Mutant of FinalizeKeys: the keys are left as they are.                  *)
FinalizeKeysNone ==
  /\ mirror.pc = "mark"
  /\ mirror' = [pc |-> "idle", run |-> NoRun]
  /\ UNCHANGED <<status, started, queue, slotKey, active, terminal, pipes, callers, cancel, owed>>

FinalizeKeys ==
  /\ mirror.pc = "mark"
  /\ \E del, set \in StoreOutcomes("redis") :
       /\ active'   = IF del THEN active \ {mirror.run} ELSE active
       /\ terminal' = IF set THEN terminal \union {mirror.run} ELSE terminal
  /\ mirror' = [pc |-> "idle", run |-> NoRun]
  /\ UNCHANGED <<status, started, queue, slotKey, pipes, callers, cancel, owed>>

(* A worker ends a run on a terminal stage error: keys only, not the row.  *)
MarkRunTerminal(pipe) ==
  /\ pipe \in pipes
  /\ Live(pipe[1])
  /\ pipes' = pipes \ {pipe}
  /\ \E set, del \in StoreOutcomes("redis") :
       /\ terminal' = IF set THEN terminal \union {pipe[1]} ELSE terminal
       /\ active'   = IF del THEN active \ {pipe[1]} ELSE active
  /\ UNCHANGED <<status, started, queue, slotKey, callers, cancel, mirror, owed>>

(* A pipeline stops without a trace: its message is skipped because the    *)
(* run is no longer live, or a step failed and is not redelivered.         *)
PipeStops(pipe) ==
  /\ pipe \in pipes
  /\ pipes' = pipes \ {pipe}
  /\ UNCHANGED <<status, started, queue, slotKey, active, terminal,
                 callers, cancel, mirror, owed>>

-----------------------------------------------------------------------------
(* Time: started_at falls behind staleAfter, and much later (2h against    *)
(* 30min) the slot and active keys reach their TTL.                        *)
Age(r) ==
  /\ started[r] = "fresh"
  /\ started' = [started EXCEPT ![r] = "stale"]
  /\ UNCHANGED <<status, queue, slotKey, active, terminal, pipes,
                 callers, cancel, mirror, owed>>

Expire(r) ==
  /\ started[r] = "stale"
  /\ ~Starting(r)
  /\ slotKey' = [slotKey EXCEPT ![r] = NoSlot]
  /\ active'  = active \ {r}
  /\ UNCHANGED <<status, started, queue, terminal, pipes, callers, cancel, mirror, owed>>

(* A client hangs up while its StartRun request is being served.           *)
HangUp(q) ==
  /\ "ctx" \in Faults
  /\ pc[q] \in Critical \union {"admit"}
  /\ alive' = [alive EXCEPT ![q] = FALSE]
  /\ UNCHANGED <<stores, mu, pc, arg, slot, cancel, mirror, owed>>

(* The api process dies and restarts: Postgres, Redis and Band keep what   *)
(* they hold, every handler and goroutine is gone, the mutex is free.      *)
Crash ==
  /\ "crash" \in Faults
  /\ mu'    = Unlocked
  /\ pc'    = [p \in Procs |-> IF p = Reconciler \/ pc[p] = "idle" THEN "idle" ELSE "done"]
  /\ arg'   = [p \in Procs |-> NoRun]
  /\ slot'  = [p \in Procs |-> NoSlot]
  /\ cancel' = [c \in Cancels |-> IF cancel[c].pc = "idle" THEN cancel[c]
                                  ELSE [pc |-> "done", run |-> NoRun]]
  /\ alive'  = [p \in Procs |-> TRUE]
  /\ mirror' = [pc |-> "idle", run |-> NoRun]
  /\ UNCHANGED <<stores, owed>>

-----------------------------------------------------------------------------
RequestStep(q) == Admit(q) \/ PushQueue(q) \/ MarkQueued(q) \/ StartStep(q)

Next ==
  \/ \E q \in Reqs, r \in Runs : ReceiveStart(q, r)
  \/ \E q \in Reqs : RequestStep(q)
  \/ Reconcile
  \/ ReconcileStep
  \/ StartStep(Reconciler)
  \/ \E c \in Cancels, r \in Runs : CancelStatus(c, r)
  \/ \E c \in Cancels : CancelComplete(c)
  \/ \E pipe \in pipes, outcome \in {"completed", "failed"} : Finalize(pipe, outcome)
  \/ FinalizeKeys
  \/ \E pipe \in pipes : MarkRunTerminal(pipe) \/ PipeStops(pipe)
  \/ \E r \in Runs : Age(r) \/ Expire(r)
  \/ \E q \in Reqs : HangUp(q)
  \/ Crash

Spec == Init /\ [][Next]_vars

(* The ticker keeps calling reconcile, Go runs every goroutine that can    *)
(* run, and time passes. Users, pipelines and faults owe nothing.          *)
Fairness ==
  /\ WF_vars(Reconcile)
  /\ WF_vars(ReconcileStep \/ StartStep(Reconciler))
  /\ \A q \in Reqs : WF_vars(RequestStep(q))
  /\ \A r \in Runs : WF_vars(Age(r))

FairSpec == Spec /\ Fairness

-----------------------------------------------------------------------------
TypeOK ==
  /\ status \in [Runs -> Statuses]
  /\ started \in [Runs -> {"none", "fresh", "stale"}]
  /\ queue \in Seq(Runs)
  /\ slotKey \in [Runs -> Slots \union {NoSlot}]
  /\ active \subseteq Runs
  /\ terminal \subseteq Runs
  /\ pipes \subseteq Runs \X Slots
  /\ mu \in Procs \union {Unlocked}
  /\ pc \in [Procs -> PCs]
  /\ arg \in [Procs -> Runs \union {NoRun}]
  /\ slot \in [Procs -> Slots \union {NoSlot}]
  /\ alive \in [Procs -> BOOLEAN]
  /\ cancel \in [Cancels -> [pc : {"idle", "complete", "done"}, run : Runs \union {NoRun}]]
  /\ mirror \in [pc : {"idle", "mark"}, run : Runs \union {NoRun}]
  /\ owed \in [Runs -> Int]

(* Two running migrations never count on the same provider key, whatever   *)
(* interleaving of Admit, reconcile, cancel and finalisation led there and *)
(* wherever a client hung up or the api restarted: freeSlot trusts the     *)
(* rows and slot keys start wrote step by step. (A failing Postgres or     *)
(* Redis call breaks it: usedSlots then under-counts.)                     *)
SlotExclusive ==
  \A r, t \in Runs :
    r # t /\ Accounted(r) /\ Accounted(t) => slotKey[r] # slotKey[t]

(* A run shown as queued will be looked at again: it is in the Redis list, *)
(* or the reconcile loop has popped it and is still starting it. RPUSH     *)
(* before the status, and LPOP under the mutex, are what this needs.       *)
NoLostQueuedRun ==
  \A r \in Runs : status[r] = "queued" =>
    \/ r \in ToSet(queue)
    \/ arg[Reconciler] = r /\ pc[Reconciler] \in Critical

(* Once the mirror has recorded a completed run and its keys, no worker    *)
(* takes up a message of that run any more, unless it is being restarted.  *)
CompletedIsSilent ==
  \A r \in Runs : status[r] = "completed" /\ Live(r) =>
    Starting(r) \/ mirror = [pc |-> "mark", run |-> r]

(* Every kickoff is one that Admit was called for: two StartRun requests   *)
(* that both saw the run pending may start it twice (the second turns the  *)
(* planning run back to queued), but entries that are skipped, runs that   *)
(* fail to start and restarts of the api never add one.                    *)
KickoffsAreAsked == \A r \in Runs : owed[r] >= 0

(* A queued run is eventually started, failed or cancelled.                *)
QueuedIsServed ==
  \A r \in Runs : status[r] = "queued" ~> status[r] # "queued"

(* No run holds its slot for ever, whatever became of its pipeline.        *)
PlanningEnds ==
  \A r \in Runs : status[r] = "planning" ~> status[r] # "planning"

(* The rows and slot keys implement a pool of exclusively held slots.      *)
Held == {<<r, slotKey[r]>> : r \in {x \in Runs : Accounted(x)}}
Pool == INSTANCE SlotPool WITH held <- Held
ImplementsSlotPool == Pool!Spec

-----------------------------------------------------------------------------
(* What comments of the code say and the code does not do.                 *)

(* "concurrent runs don't share a key's rate limit": two pipelines that    *)
(* workers still serve, of different runs, use different provider keys.    *)
KeyNotShared ==
  \A g, h \in pipes :
    Live(g[1]) /\ Live(h[1]) /\ g[1] # h[1] => g[2] # h[2]

=============================================================================
