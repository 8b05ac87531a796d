------------------------- MODULE RunSchedulerProofs -------------------------
(***************************************************************************)
(* Proofs about RunScheduler: its types, the mutual exclusion of its       *)
(* callers, and what the mutex is there to give, the exclusive use of a    *)
(* provider-key slot and the safety of the queue; the refinement of the    *)
(* pool of slots; that no run is kicked off more often than it was         *)
(* admitted, and that a completed run is heard of no more.                 *)
(***************************************************************************)
EXTENDS RunScheduler, SequenceTheorems, FiniteSetTheorems, NaturalsInduction, WellFoundedInduction, TLAPS

(* What the program counters say of a caller's locals.                     *)
RunSteps  == StartSteps \union FailSteps \union QueueSteps
LocalsOK ==
  /\ \A p \in Procs :
       /\ pc[p] \in RunSteps \union {"admit", "check"} => arg[p] \in Runs
       /\ pc[p] \in StartSteps \union {"pop", "check"} => slot[p] \in Slots
  /\ pc[Reconciler] \in StartSteps \union FailSteps \union ReconcileSteps \union {"idle"}
  /\ alive[Reconciler]
  /\ \A q \in Reqs : pc[q] \notin ReconcileSteps
  /\ \A c \in Cancels : cancel[c].pc = "complete" => cancel[c].run \in Runs
  /\ mirror.pc = "mark" => mirror.run \in Runs

(* The mutex: its holder, and nobody else, is in the critical section.     *)
LockOK == \A p \in Procs : pc[p] \in Critical <=> mu = p

Inv == TypeOK /\ LocalsOK /\ LockOK

(* A caller whose context is alive has its slot to itself, from the scan   *)
(* of the used slots to the UPDATE that makes the run count.               *)
SlotReserved ==
  \A p \in Procs :
    /\ pc[p] \in StartSteps /\ alive[p] =>
         \A r \in Runs \ {arg[p]} : Accounted(r) => slotKey[r] # slot[p]
    /\ pc[p] \in {"pop", "check"} =>
         \A r \in Runs : Accounted(r) => slotKey[r] # slot[p]
    /\ pc[p] = "persist" /\ alive[p] => slotKey[arg[p]] = slot[p]

(* A run that is about to be marked queued is in the list already.         *)
PushedFirst ==
  \A q \in Reqs : pc[q] = "mark_queued" /\ alive[q] => arg[q] \in ToSet(queue)


-----------------------------------------------------------------------------
(* freeSlot returns a slot that is not in use whenever there is one.       *)
LEMMA LowestFreeIsFree ==
  ASSUME NEW used, ~(Slots \subseteq used)
  PROVE  LowestFree(used) \in Slots \ used
<1> DEFINE free == Slots \ used
<1>1. free # {} /\ free \subseteq Nat
  BY ConstantsAssumption DEF Slots
<1>2. \E x \in free : \A y \in free : ~(<<y, x>> \in OpToRel(<, Nat))
  <2> HIDE DEF free
  <2> QED  BY <1>1, NatLessThanWellFounded, WFMin
<1>3. \E x \in free : \A y \in free : x <= y
  <2>1. PICK x \in free : \A y \in free : ~(<<y, x>> \in OpToRel(<, Nat))
    BY <1>2
  <2>2. ASSUME NEW y \in free  PROVE x <= y
    <3> HIDE DEF free
    <3>1. x \in Nat /\ y \in Nat
      BY <1>1
    <3>2. ~(y < x)
      BY <2>1, <3>1, Zenon DEF OpToRel
    <3> QED  BY <3>1, <3>2
  <2> QED  BY <2>2
<1> QED  BY <1>3 DEF LowestFree

(* The steps of the specification, one by one.                             *)
LEMMA NextCases ==
  ASSUME [Next]_vars
  PROVE  \/ \E q \in Reqs, r \in Runs : ReceiveStart(q, r)
         \/ \E q \in Reqs : Admit(q) \/ PushQueue(q) \/ MarkQueued(q) \/ HangUp(q)
         \/ \E p \in Procs : \/ LoadRun(p) \/ Activate(p) \/ StartRoom(p) \/ PinSlot(p)
                             \/ Persist(p) \/ FailRow(p) \/ FailKeys(p)
         \/ Reconcile \/ Allocate \/ PopQueue \/ PopRun \/ CheckQueueable
         \/ \E c \in Cancels, r \in Runs : CancelStatus(c, r)
         \/ \E c \in Cancels : CancelComplete(c)
         \/ \E pipe \in pipes, outcome \in {"completed", "failed"} : Finalize(pipe, outcome)
         \/ FinalizeKeys
         \/ \E pipe \in pipes : MarkRunTerminal(pipe) \/ PipeStops(pipe)
         \/ \E r \in Runs : Age(r) \/ Expire(r)
         \/ Crash
         \/ UNCHANGED vars
BY DEF Next, RequestStep, ReconcileStep, StartStep, Procs

-----------------------------------------------------------------------------
(* The types, the locals and the lock are preserved by every step.         *)
LEMMA InvInit == Init => Inv
BY ConstantsAssumption
   DEF Init, Inv, TypeOK, LocalsOK, LockOK, Slots, NoSlot, Procs, PCs, Critical, Statuses,
       ActiveStatuses, StartSteps, FailSteps, QueueSteps, ReconcileSteps, RunSteps

LEMMA InvStep ==
  ASSUME Inv, [Next]_vars
  PROVE  Inv'
<1> USE ConstantsAssumption
    DEF Inv, Procs, PCs, Critical, StartSteps, FailSteps, QueueSteps,
        ReconcileSteps, RunSteps, GoTo, stores, callers
<1>1. ASSUME NEW q \in Reqs, NEW r \in Runs, ReceiveStart(q, r)
       PROVE  Inv'
  BY <1>1, SMT
  DEF ReceiveStart, TypeOK, LocalsOK, LockOK, Statuses, ActiveStatuses, NoSlot
<1>2. ASSUME NEW q \in Reqs, Admit(q)  PROVE Inv'
  <2>1. PICK used \in SeenSlots(q) :
          \/ Slots \subseteq used /\ GoTo(q, "push") /\ UNCHANGED slot
          \/ /\ ~(Slots \subseteq used)
             /\ slot' = [slot EXCEPT ![q] = LowestFree(used)]
             /\ GoTo(q, "load")
    BY <1>2 DEF Admit
  <2>2. ~(Slots \subseteq used) => LowestFree(used) \in Slots
    BY LowestFreeIsFree
  <2>3. TypeOK'
    <3>1. owed' = [owed EXCEPT ![arg[q]] = owed[arg[q]] + 1]
      BY <1>2 DEF Admit
    <3>2. /\ owed \in [Runs -> Int] /\ pc \in [Procs -> PCs]
          /\ slot \in [Procs -> Slots \union {NoSlot}]
      BY DEF TypeOK
    <3>3. owed' \in [Runs -> Int]
      <4>1. arg[q] \in Runs
        BY <1>2 DEF Admit, LocalsOK
      <4>2. owed[arg[q]] + 1 \in Int
        BY <3>2, <4>1
      <4> QED  BY <3>1, <3>2, <4>2, Zenon
    <3>4. pc' \in [Procs -> PCs] /\ slot' \in [Procs -> Slots \union {NoSlot}]
      BY <2>1, <2>2, <3>2
    <3>5. mu' \in Procs \union {Unlocked}
      BY <1>2 DEF Admit
    <3>6. UNCHANGED <<status, started, queue, slotKey, active, terminal, pipes,
                      arg, alive, cancel, mirror>>
      BY <1>2 DEF Admit
    <3> QED  BY <3>3, <3>4, <3>5, <3>6 DEF TypeOK
  <2>4. LocalsOK'
    BY <1>2, <2>1, <2>2, SMT DEF Admit, TypeOK, LocalsOK
  <2>5. LockOK'
    BY <1>2, <2>1, SMT DEF Admit, TypeOK, LocalsOK, LockOK
  <2> QED  BY <2>3, <2>4, <2>5
<1>3. ASSUME NEW q \in Reqs, PushQueue(q)  PROVE Inv'
  BY <1>3, AppendProperties, SMT
  DEF PushQueue, TypeOK, LocalsOK, LockOK, Statuses, ActiveStatuses, NoSlot
<1>4. ASSUME NEW q \in Reqs, MarkQueued(q)  PROVE Inv'
  BY <1>4, SMT
  DEF MarkQueued, Leave, TypeOK, LocalsOK, LockOK, Statuses, ActiveStatuses, NoSlot
<1>5. ASSUME NEW q \in Reqs, HangUp(q)  PROVE Inv'
  BY <1>5, SMT
  DEF HangUp, TypeOK, LocalsOK, LockOK, Statuses, ActiveStatuses, NoSlot
<1>6. ASSUME NEW p \in Procs, LoadRun(p)  PROVE Inv'
  BY <1>6, SMT
  DEF LoadRun, TypeOK, LocalsOK, LockOK, Statuses, ActiveStatuses, NoSlot
<1>7. ASSUME NEW p \in Procs, Activate(p)  PROVE Inv'
  BY <1>7, SMT
  DEF Activate, TypeOK, LocalsOK, LockOK, Statuses, ActiveStatuses, NoSlot
<1>8. ASSUME NEW p \in Procs, StartRoom(p)  PROVE Inv'
  <2>1. PICK l \in {"pin", "fail_db"} : GoTo(p, l)
    BY <1>8 DEF StartRoom
  <2>2. TypeOK'
    <3>1. <<arg[p], slot[p]>> \in Runs \X Slots
      BY <1>8 DEF StartRoom, LocalsOK
    <3>2. pipes' \subseteq pipes \union {<<arg[p], slot[p]>>}
      BY <1>8 DEF StartRoom
    <3>3. pipes' \subseteq Runs \X Slots
      BY <3>1, <3>2 DEF TypeOK
    <3>4. owed' \in [Runs -> Int]
      <4>1. owed' \in {owed, [owed EXCEPT ![arg[p]] = @ - 1]}
        BY <1>8 DEF StartRoom
      <4> QED  BY <4>1 DEF TypeOK
    <3>5. UNCHANGED <<status, started, queue, slotKey, active, terminal,
                      mu, arg, slot, alive, cancel, mirror>>
      BY <1>8 DEF StartRoom
    <3> QED  BY <2>1, <3>3, <3>4, <3>5, SMT DEF TypeOK
  <2>3. LocalsOK'
    BY <1>8, <2>1, SMT DEF StartRoom, TypeOK, LocalsOK
  <2>4. LockOK'
    BY <1>8, <2>1, SMT DEF StartRoom, TypeOK, LocalsOK, LockOK
  <2> QED  BY <2>2, <2>3, <2>4
<1>9. ASSUME NEW p \in Procs, PinSlot(p)  PROVE Inv'
  BY <1>9, SMT
  DEF PinSlot, TypeOK, LocalsOK, LockOK, Statuses, ActiveStatuses, NoSlot
<1>10. ASSUME NEW p \in Procs, Persist(p)  PROVE Inv'
  BY <1>10, SMT
  DEF Persist, Leave, TypeOK, LocalsOK, LockOK, Statuses, ActiveStatuses, NoSlot
<1>11. ASSUME NEW p \in Procs, FailRow(p)  PROVE Inv'
  BY <1>11, SMT
  DEF FailRow, TypeOK, LocalsOK, LockOK, Statuses, ActiveStatuses, NoSlot
<1>12. ASSUME NEW p \in Procs, FailKeys(p)  PROVE Inv'
  BY <1>12, SMT
  DEF FailKeys, Leave, TypeOK, LocalsOK, LockOK, Statuses, ActiveStatuses, NoSlot
<1>13. ASSUME Reconcile  PROVE Inv'
  BY <1>13, SMT
  DEF Reconcile, TypeOK, LocalsOK, LockOK, Statuses, ActiveStatuses, NoSlot
<1>14. ASSUME Allocate  PROVE Inv'
  <2>1. CASE EndReconcile
    BY <1>14, <2>1, SMT DEF Allocate, EndReconcile, TypeOK, LocalsOK, LockOK
  <2>2. CASE ~EndReconcile
    <3>1. PICK used : /\ ~(Slots \subseteq used)
                      /\ slot' = [slot EXCEPT ![Reconciler] = LowestFree(used)]
      BY <1>14, <2>2 DEF Allocate
    <3>2. LowestFree(used) \in Slots
      BY <3>1, LowestFreeIsFree
    <3> QED
      BY <1>14, <2>2, <3>1, <3>2, SMT DEF Allocate, TypeOK, LocalsOK, LockOK
  <2> QED  BY <2>1, <2>2
<1>15. ASSUME PopQueue  PROVE Inv'
  BY <1>15, SMT
  DEF PopQueue, EndReconcile, TypeOK, LocalsOK, LockOK, Statuses, ActiveStatuses, NoSlot
<1>16. ASSUME PopRun  PROVE Inv'
  <2>1. Head(queue) \in Runs /\ Tail(queue) \in Seq(Runs)
    BY <1>16, HeadTailProperties DEF PopRun, TypeOK
  <2> QED
    BY <1>16, <2>1, SMT DEF PopRun, TypeOK, LocalsOK, LockOK
<1>17. ASSUME CheckQueueable  PROVE Inv'
  <2>1. CASE Leave(Reconciler)
    BY <1>17, <2>1, SMT DEF CheckQueueable, Leave, TypeOK, LocalsOK, LockOK, NoSlot
  <2>2. CASE ~Leave(Reconciler)
    BY <1>17, <2>2, SMT DEF CheckQueueable, TypeOK, LocalsOK, LockOK
  <2> QED  BY <2>1, <2>2
<1>18. ASSUME NEW c \in Cancels, NEW r \in Runs, CancelStatus(c, r)
       PROVE  Inv'
  BY <1>18, SMT
  DEF CancelStatus, TypeOK, LocalsOK, LockOK, Statuses, ActiveStatuses, NoSlot
<1>19. ASSUME NEW c \in Cancels, CancelComplete(c)
       PROVE  Inv'
  BY <1>19, SMT
  DEF CancelComplete, TypeOK, LocalsOK, LockOK, Statuses, ActiveStatuses, NoSlot
<1>20. ASSUME NEW pipe \in pipes, NEW outcome \in {"completed", "failed"}, Finalize(pipe, outcome)
       PROVE  Inv'
  BY <1>20, SMT
  DEF Finalize, TypeOK, LocalsOK, LockOK, Statuses, ActiveStatuses, NoSlot
<1>21. ASSUME FinalizeKeys  PROVE Inv'
  BY <1>21, SMT
  DEF FinalizeKeys, TypeOK, LocalsOK, LockOK, Statuses, ActiveStatuses, NoSlot
<1>22. ASSUME NEW pipe \in pipes, MarkRunTerminal(pipe)
       PROVE  Inv'
  BY <1>22, SMT
  DEF MarkRunTerminal, TypeOK, LocalsOK, LockOK, Statuses, ActiveStatuses, NoSlot
<1>23. ASSUME NEW pipe \in pipes, PipeStops(pipe)
       PROVE  Inv'
  BY <1>23, SMT
  DEF PipeStops, TypeOK, LocalsOK, LockOK, Statuses, ActiveStatuses, NoSlot
<1>24. ASSUME NEW r \in Runs, Age(r)  PROVE Inv'
  BY <1>24, SMT
  DEF Age, TypeOK, LocalsOK, LockOK, Statuses, ActiveStatuses, NoSlot
<1>25. ASSUME NEW r \in Runs, Expire(r)  PROVE Inv'
  BY <1>25, SMT
  DEF Expire, TypeOK, LocalsOK, LockOK, Statuses, ActiveStatuses, NoSlot
<1>26. ASSUME Crash  PROVE Inv'
  BY <1>26, SMT
  DEF Crash, TypeOK, LocalsOK, LockOK, Statuses, ActiveStatuses, NoSlot
<1>27. CASE UNCHANGED vars
  BY <1>27 DEF vars, TypeOK, LocalsOK, LockOK
<1> QED
  BY NextCases, <1>1, <1>2, <1>3, <1>4, <1>5, <1>6, <1>7, <1>8, <1>9, <1>10, <1>11, <1>12, <1>13, <1>14, <1>15, <1>16, <1>17, <1>18, <1>19, <1>20, <1>21, <1>22, <1>23, <1>24, <1>25, <1>26, <1>27

LEMMA Invariant == Spec => []Inv
<1> QED  BY InvInit, InvStep, PTL DEF Spec

(* Every reachable state is well typed, whatever fails.                    *)
THEOREM TypeCorrect == Spec => []TypeOK
<1>1. Inv => TypeOK
  BY DEF Inv
<1> QED  BY Invariant, <1>1, PTL

(* The mutex works: at most one caller of the scheduler is between its     *)
(* scan of the used slots and its last write, the reconcile loop included. *)
THEOREM OneInside ==
  Spec => [](\A p, t \in Procs : pc[p] \in Critical /\ pc[t] \in Critical => p = t)
<1>1. Inv => \A p, t \in Procs : pc[p] \in Critical /\ pc[t] \in Critical => p = t
  BY DEF Inv, LockOK
<1> QED  BY Invariant, <1>1, PTL

-----------------------------------------------------------------------------
(* Without failing calls to Postgres and Redis the scan of the used slots  *)
(* is right, or the caller's context is cancelled.                         *)
StoresWork == Faults \cap {"redis", "db"} = {}

LEMMA ScanIsRight ==
  ASSUME StoresWork, NEW p \in Procs, alive[p], NEW used \in SeenSlots(p)
  PROVE  used = UsedSlots
BY DEF StoresWork, SeenSlots, Outcomes, StoreOutcomes

LEMMA FreeSlotIsUnused ==
  ASSUME Inv, StoresWork, NEW p \in Procs, alive[p], NEW used \in SeenSlots(p),
         ~(Slots \subseteq used)
  PROVE  \A r \in Runs : Accounted(r) => slotKey[r] # LowestFree(used)
<1>1. LowestFree(used) \in Slots \ UsedSlots
  BY ScanIsRight, LowestFreeIsFree
<1>2. NoSlot \notin Slots
  BY DEF NoSlot, Slots
<1> QED  BY <1>1, <1>2 DEF UsedSlots

Exclusion == SlotExclusive /\ SlotReserved

(* In most steps no run begins to count and no key of one that counts is   *)
(* written.                                                                *)
NoNewHolder ==
  \A r \in Runs : Accounted(r)' => Accounted(r) /\ slotKey'[r] = slotKey[r]

LEMMA ExclusiveFrame ==
  ASSUME SlotExclusive, NoNewHolder
  PROVE  SlotExclusive'
BY DEF SlotExclusive, NoNewHolder

LEMMA ExclusionStep ==
  ASSUME StoresWork, Inv, Exclusion, [Next]_vars
  PROVE  Exclusion'
<1> USE DEF Exclusion, GoTo, stores, callers
<1>a. \A p, t \in Procs : pc[p] \in Critical /\ pc[t] \in Critical => p = t
  BY DEF Inv, LockOK
<1>b. /\ StartSteps \subseteq Critical /\ {"pop", "check"} \subseteq Critical
      /\ Reconciler \in Procs /\ Reqs \subseteq Procs
  BY DEF Critical, ReconcileSteps, Procs
<1>1. ASSUME NEW q \in Reqs, NEW r \in Runs, ReceiveStart(q, r)
       PROVE  Exclusion'
  <2>1. NoNewHolder
    BY <1>1, SMT DEF ReceiveStart, NoNewHolder, Accounted, ActiveStatuses, Inv, TypeOK
  <2>2. SlotReserved'
    BY <1>1, <1>a, <1>b, <2>1, SMT
    DEF ReceiveStart, SlotReserved, NoNewHolder, StartSteps, Inv, TypeOK
  <2> QED  BY <2>1, <2>2, ExclusiveFrame
<1>2. ASSUME NEW q \in Reqs, Admit(q)  PROVE Exclusion'
  <2>1. NoNewHolder
    BY <1>2, SMT DEF Admit, NoNewHolder, Accounted, ActiveStatuses, Inv, TypeOK
  <2>2. PICK used \in SeenSlots(q) :
          \/ Slots \subseteq used /\ GoTo(q, "push") /\ UNCHANGED slot
          \/ /\ ~(Slots \subseteq used)
             /\ slot' = [slot EXCEPT ![q] = LowestFree(used)]
             /\ GoTo(q, "load")
    BY <1>2 DEF Admit
  <2>3. \A p \in Procs \ {q} : pc'[p] = pc[p] /\ pc[p] \notin Critical
    BY <1>2, <2>2, <1>b, ConstantsAssumption, SMT DEF Admit, Inv, LockOK, TypeOK, Procs
  <2>4. ~(Slots \subseteq used) /\ alive[q] =>
          \A r \in Runs : Accounted(r) => slotKey[r] # LowestFree(used)
    BY <1>b, FreeSlotIsUnused
  <2>5. SlotReserved'
    <3>1. UNCHANGED <<status, started, slotKey, arg, alive>>
      BY <1>2 DEF Admit, stores
    <3>2. /\ slot \in [Procs -> Slots \union {NoSlot}] /\ pc \in [Procs -> PCs]
          /\ pc'[q] \in {"push", "load"}
          /\ pc'[q] = "load" => ~(Slots \subseteq used) /\ slot'[q] = LowestFree(used)
      BY <1>b, <2>2 DEF Inv, TypeOK
    <3>3. \A p \in Procs \ {q} : pc'[p] \notin StartSteps \union {"pop", "check"}
      BY <1>b, <2>3
    <3> QED
      BY <1>b, <2>1, <2>4, <3>1, <3>2, <3>3, SMT DEF SlotReserved, NoNewHolder, StartSteps
  <2> QED  BY <2>1, <2>5, ExclusiveFrame
<1>3. ASSUME NEW q \in Reqs, PushQueue(q)  PROVE Exclusion'
  <2>1. NoNewHolder
    BY <1>3, SMT DEF PushQueue, NoNewHolder, Accounted, ActiveStatuses, Inv, TypeOK
  <2>2. SlotReserved'
    BY <1>3, <1>a, <1>b, <2>1, SMT
    DEF PushQueue, SlotReserved, NoNewHolder, StartSteps, Inv, TypeOK
  <2> QED  BY <2>1, <2>2, ExclusiveFrame
<1>4. ASSUME NEW q \in Reqs, MarkQueued(q)  PROVE Exclusion'
  <2>1. NoNewHolder
    BY <1>4, SMT DEF MarkQueued, Leave, NoNewHolder, Accounted, ActiveStatuses, Inv, TypeOK
  <2>2. SlotReserved'
    BY <1>4, <1>a, <1>b, <2>1, SMT
    DEF MarkQueued, Leave, SlotReserved, NoNewHolder, StartSteps, Inv, TypeOK
  <2> QED  BY <2>1, <2>2, ExclusiveFrame
<1>5. ASSUME NEW q \in Reqs, HangUp(q)  PROVE Exclusion'
  <2>1. NoNewHolder
    BY <1>5, SMT DEF HangUp, NoNewHolder, Accounted, ActiveStatuses, Inv, TypeOK
  <2>2. SlotReserved'
    BY <1>5, <1>a, <1>b, <2>1, SMT
    DEF HangUp, SlotReserved, NoNewHolder, StartSteps, Inv, TypeOK
  <2> QED  BY <2>1, <2>2, ExclusiveFrame
<1>6. ASSUME NEW p \in Procs, LoadRun(p)  PROVE Exclusion'
  <2>1. NoNewHolder
    BY <1>6, SMT DEF LoadRun, NoNewHolder, Accounted, ActiveStatuses, Inv, TypeOK
  <2>2. SlotReserved'
    BY <1>6, <1>a, <1>b, <2>1, SMT
    DEF LoadRun, SlotReserved, NoNewHolder, StartSteps, Inv, TypeOK
  <2> QED  BY <2>1, <2>2, ExclusiveFrame
<1>7. ASSUME NEW p \in Procs, Activate(p)  PROVE Exclusion'
  <2>1. NoNewHolder
    BY <1>7, SMT DEF Activate, NoNewHolder, Accounted, ActiveStatuses, Inv, TypeOK
  <2>2. SlotReserved'
    BY <1>7, <1>a, <1>b, <2>1, SMT
    DEF Activate, SlotReserved, NoNewHolder, StartSteps, Inv, TypeOK
  <2> QED  BY <2>1, <2>2, ExclusiveFrame
<1>8. ASSUME NEW p \in Procs, StartRoom(p)  PROVE Exclusion'
  <2>1. NoNewHolder
    BY <1>8, SMT DEF StartRoom, NoNewHolder, Accounted, ActiveStatuses, Inv, TypeOK
  <2>2. PICK l \in {"pin", "fail_db"} : GoTo(p, l)
    BY <1>8 DEF StartRoom
  <2>3. pc[p] = "room" /\ UNCHANGED <<arg, slot, alive>>
    BY <1>8 DEF StartRoom
  <2>4. SlotReserved'
    BY <1>a, <1>b, <2>1, <2>2, <2>3, SMT DEF SlotReserved, NoNewHolder, StartSteps, Inv, TypeOK
  <2> QED  BY <2>1, <2>4, ExclusiveFrame
<1>9. ASSUME NEW p \in Procs, PinSlot(p)  PROVE Exclusion'
  <2>1. pc[p] = "pin" /\ GoTo(p, "persist") /\ UNCHANGED <<status, started, arg, slot, alive>>
    BY <1>9 DEF PinSlot
  <2>2. slotKey' = IF alive[p] THEN [slotKey EXCEPT ![arg[p]] = slot[p]] ELSE slotKey
    BY <1>9 DEF PinSlot, StoresWork, Outcomes, StoreOutcomes
  <2>3. arg[p] \in Runs /\ slotKey \in [Runs -> Slots \union {NoSlot}] /\ pc \in [Procs -> PCs]
    BY <2>1 DEF Inv, LocalsOK, TypeOK, RunSteps, StartSteps
  <2>4. alive[p] => \A r \in Runs \ {arg[p]} : Accounted(r) => slotKey[r] # slot[p]
    BY <2>1 DEF SlotReserved, StartSteps
  <2>5. \A r \in Runs : Accounted(r)' = Accounted(r)
    BY <2>1 DEF Accounted
  <2>6. SlotExclusive'
    BY <2>2, <2>3, <2>4, <2>5, SMT DEF SlotExclusive
  <2>7. \A t \in Procs \ {p} : pc'[t] = pc[t] /\ pc[t] \notin Critical
    BY <1>a, <1>b, <2>1, <2>3 DEF StartSteps
  <2>8. SlotReserved'
    BY <1>b, <2>1, <2>2, <2>3, <2>4, <2>5, <2>7, SMT DEF SlotReserved, StartSteps
  <2> QED  BY <2>6, <2>8
<1>10. ASSUME NEW p \in Procs, Persist(p)  PROVE Exclusion'
  <2>1. pc[p] = "persist" /\ Leave(p) /\ UNCHANGED slotKey
    BY <1>10 DEF Persist
  <2>2. /\ ~alive[p] => UNCHANGED <<status, started>>
        /\ \A r \in Runs \ {arg[p]} : Accounted(r)' = Accounted(r)
    <3>1. PICK ok \in Outcomes(p, "db") :
            /\ status'  = IF ok THEN [status EXCEPT ![arg[p]] = "planning"] ELSE status
            /\ started' = IF ok THEN [started EXCEPT ![arg[p]] = "fresh"] ELSE started
      BY <1>10 DEF Persist
    <3>2. ~alive[p] => ok = FALSE
      BY <3>1 DEF Outcomes
    <3>3. \A r \in Runs \ {arg[p]} : status'[r] = status[r] /\ started'[r] = started[r]
      BY <3>1 DEF Inv, TypeOK
    <3> QED  BY <3>1, <3>2, <3>3 DEF Accounted
  <2>3. alive[p] => slotKey[arg[p]] = slot[p]
    BY <2>1 DEF SlotReserved
  <2>4. alive[p] => \A r \in Runs \ {arg[p]} : Accounted(r) => slotKey[r] # slot[p]
    BY <2>1 DEF SlotReserved, StartSteps
  <2>5. SlotExclusive'
    <3>1. CASE alive[p]
      BY <3>1, <2>1, <2>2, <2>3, <2>4 DEF SlotExclusive
    <3>2. CASE ~alive[p]
      BY <3>2, <2>1, <2>2 DEF SlotExclusive, Accounted
    <3> QED  BY <3>1, <3>2
  <2>6. \A t \in Procs : pc'[t] \notin Critical \/ pc'[t] = "alloc"
    <3>1. \A t \in Procs \ {p} : pc'[t] = pc[t] /\ pc[t] \notin Critical
      BY <1>a, <1>b, <2>1 DEF StartSteps, Leave, Inv, TypeOK
    <3>2. pc'[p] \in {"alloc", "done"}
      BY <2>1 DEF Leave, Inv, TypeOK
    <3>3. "done" \notin Critical
      BY DEF Critical, StartSteps, FailSteps, ReconcileSteps, QueueSteps
    <3> QED  BY <3>1, <3>2, <3>3
  <2>7. SlotReserved'
    BY <1>b, <2>6 DEF SlotReserved, StartSteps
  <2> QED  BY <2>5, <2>7
<1>11. ASSUME NEW p \in Procs, FailRow(p)  PROVE Exclusion'
  <2>1. NoNewHolder
    BY <1>11, SMT DEF FailRow, NoNewHolder, Accounted, ActiveStatuses, Inv, TypeOK
  <2>2. SlotReserved'
    BY <1>11, <1>a, <1>b, <2>1, SMT
    DEF FailRow, SlotReserved, NoNewHolder, StartSteps, Inv, TypeOK
  <2> QED  BY <2>1, <2>2, ExclusiveFrame
<1>12. ASSUME NEW p \in Procs, FailKeys(p)  PROVE Exclusion'
  <2>1. NoNewHolder
    BY <1>12, SMT DEF FailKeys, Leave, NoNewHolder, Accounted, ActiveStatuses, Inv, TypeOK
  <2>2. SlotReserved'
    BY <1>12, <1>a, <1>b, <2>1, SMT
    DEF FailKeys, Leave, SlotReserved, NoNewHolder, StartSteps, Inv, TypeOK
  <2> QED  BY <2>1, <2>2, ExclusiveFrame
<1>13. ASSUME Reconcile  PROVE Exclusion'
  <2>1. NoNewHolder
    BY <1>13, SMT DEF Reconcile, Stale, NoNewHolder, Accounted, ActiveStatuses, Inv, TypeOK
  <2>2. SlotReserved'
    BY <1>13, <1>a, <1>b, <2>1, SMT
    DEF Reconcile, Stale, SlotReserved, NoNewHolder, StartSteps, Inv, TypeOK
  <2> QED  BY <2>1, <2>2, ExclusiveFrame
<1>14. ASSUME Allocate  PROVE Exclusion'
  <2>1. NoNewHolder
    BY <1>14, SMT DEF Allocate, EndReconcile, NoNewHolder, Accounted, ActiveStatuses, Inv, TypeOK
  <2>2. CASE EndReconcile
    BY <1>14, <1>a, <1>b, <2>1, <2>2, ExclusiveFrame, SMT
    DEF EndReconcile, Allocate, SlotReserved, NoNewHolder, StartSteps, Inv, TypeOK
  <2>3. CASE ~EndReconcile
    <3>1. PICK used \in SeenSlots(Reconciler) :
            /\ ~(Slots \subseteq used)
            /\ slot' = [slot EXCEPT ![Reconciler] = LowestFree(used)]
            /\ GoTo(Reconciler, "pop")
            /\ UNCHANGED <<arg, alive>>
      BY <1>14, <2>3 DEF Allocate
    <3>2. \A r \in Runs : Accounted(r) => slotKey[r] # LowestFree(used)
      BY <1>b, <3>1, FreeSlotIsUnused DEF Inv, LocalsOK
    <3>3. pc[Reconciler] = "alloc"
      BY <1>14 DEF Allocate
    <3>4. \A t \in Procs \ {Reconciler} : pc'[t] = pc[t] /\ pc[t] \notin Critical
      BY <1>a, <1>b, <3>1, <3>3 DEF Inv, TypeOK, Critical, ReconcileSteps
    <3>5. SlotReserved'
      BY <1>b, <2>1, <3>1, <3>2, <3>3, <3>4, SMT
      DEF SlotReserved, NoNewHolder, StartSteps, Inv, TypeOK
    <3> QED  BY <2>1, <3>5, ExclusiveFrame
  <2> QED  BY <2>2, <2>3
<1>15. ASSUME PopQueue  PROVE Exclusion'
  <2>1. NoNewHolder
    BY <1>15, SMT DEF PopQueue, EndReconcile, NoNewHolder, Accounted, ActiveStatuses, Inv, TypeOK
  <2>2. SlotReserved'
    BY <1>15, <1>a, <1>b, <2>1, SMT
    DEF PopQueue, EndReconcile, SlotReserved, NoNewHolder, StartSteps, Inv, TypeOK
  <2> QED  BY <2>1, <2>2, ExclusiveFrame
<1>16. ASSUME PopRun  PROVE Exclusion'
  <2>1. NoNewHolder
    BY <1>16, SMT DEF PopRun, NoNewHolder, Accounted, ActiveStatuses, Inv, TypeOK
  <2>2. SlotReserved'
    BY <1>16, <1>a, <1>b, <2>1, SMT
    DEF PopRun, SlotReserved, NoNewHolder, StartSteps, Inv, TypeOK
  <2> QED  BY <2>1, <2>2, ExclusiveFrame
<1>17. ASSUME CheckQueueable  PROVE Exclusion'
  <2>1. NoNewHolder
    BY <1>17, SMT DEF CheckQueueable, NoNewHolder, Accounted, ActiveStatuses, Inv, TypeOK
  <2>2. pc[Reconciler] = "check"
    BY <1>17 DEF CheckQueueable
  <2>3. CASE Leave(Reconciler)
    <3>1. SlotReserved'
      BY <1>a, <1>b, <2>1, <2>2, <2>3, SMT
      DEF Leave, SlotReserved, NoNewHolder, StartSteps, Inv, TypeOK
    <3> QED  BY <2>1, <3>1, ExclusiveFrame
  <2>4. CASE ~Leave(Reconciler)
    <3>1. GoTo(Reconciler, "load") /\ UNCHANGED <<arg, slot, alive>>
      BY <1>17, <2>4 DEF CheckQueueable
    <3>2. SlotReserved'
      BY <1>a, <1>b, <2>1, <2>2, <3>1, SMT
      DEF SlotReserved, NoNewHolder, StartSteps, Inv, TypeOK
    <3> QED  BY <2>1, <3>2, ExclusiveFrame
  <2> QED  BY <2>3, <2>4
<1>18. ASSUME NEW c \in Cancels, NEW r \in Runs, CancelStatus(c, r)
       PROVE  Exclusion'
  <2>1. NoNewHolder
    BY <1>18, SMT DEF CancelStatus, NoNewHolder, Accounted, ActiveStatuses, Inv, TypeOK
  <2>2. SlotReserved'
    BY <1>18, <1>a, <1>b, <2>1, SMT
    DEF CancelStatus, SlotReserved, NoNewHolder, StartSteps, Inv, TypeOK
  <2> QED  BY <2>1, <2>2, ExclusiveFrame
<1>19. ASSUME NEW c \in Cancels, CancelComplete(c)
       PROVE  Exclusion'
  <2>1. NoNewHolder
    BY <1>19, SMT DEF CancelComplete, NoNewHolder, Accounted, ActiveStatuses, Inv, TypeOK
  <2>2. SlotReserved'
    BY <1>19, <1>a, <1>b, <2>1, SMT
    DEF CancelComplete, SlotReserved, NoNewHolder, StartSteps, Inv, TypeOK
  <2> QED  BY <2>1, <2>2, ExclusiveFrame
<1>20. ASSUME NEW pipe \in pipes, NEW outcome \in {"completed", "failed"}, Finalize(pipe, outcome)
       PROVE  Exclusion'
  <2>1. NoNewHolder
    BY <1>20, SMT DEF Finalize, NoNewHolder, Accounted, ActiveStatuses, Inv, TypeOK
  <2>2. SlotReserved'
    BY <1>20, <1>a, <1>b, <2>1, SMT
    DEF Finalize, SlotReserved, NoNewHolder, StartSteps, Inv, TypeOK
  <2> QED  BY <2>1, <2>2, ExclusiveFrame
<1>21. ASSUME FinalizeKeys  PROVE Exclusion'
  <2>1. NoNewHolder
    BY <1>21, SMT DEF FinalizeKeys, NoNewHolder, Accounted, ActiveStatuses, Inv, TypeOK
  <2>2. SlotReserved'
    BY <1>21, <1>a, <1>b, <2>1, SMT
    DEF FinalizeKeys, SlotReserved, NoNewHolder, StartSteps, Inv, TypeOK
  <2> QED  BY <2>1, <2>2, ExclusiveFrame
<1>22. ASSUME NEW pipe \in pipes, MarkRunTerminal(pipe)
       PROVE  Exclusion'
  <2>1. NoNewHolder
    BY <1>22, SMT DEF MarkRunTerminal, NoNewHolder, Accounted, ActiveStatuses, Inv, TypeOK
  <2>2. SlotReserved'
    BY <1>22, <1>a, <1>b, <2>1, SMT
    DEF MarkRunTerminal, SlotReserved, NoNewHolder, StartSteps, Inv, TypeOK
  <2> QED  BY <2>1, <2>2, ExclusiveFrame
<1>23. ASSUME NEW pipe \in pipes, PipeStops(pipe)
       PROVE  Exclusion'
  <2>1. NoNewHolder
    BY <1>23, SMT DEF PipeStops, NoNewHolder, Accounted, ActiveStatuses, Inv, TypeOK
  <2>2. SlotReserved'
    BY <1>23, <1>a, <1>b, <2>1, SMT
    DEF PipeStops, SlotReserved, NoNewHolder, StartSteps, Inv, TypeOK
  <2> QED  BY <2>1, <2>2, ExclusiveFrame
<1>24. ASSUME NEW r \in Runs, Age(r)  PROVE Exclusion'
  <2>1. NoNewHolder
    BY <1>24, SMT DEF Age, NoNewHolder, Accounted, ActiveStatuses, Inv, TypeOK
  <2>2. SlotReserved'
    BY <1>24, <1>a, <1>b, <2>1, SMT
    DEF Age, SlotReserved, NoNewHolder, StartSteps, Inv, TypeOK
  <2> QED  BY <2>1, <2>2, ExclusiveFrame
<1>25. ASSUME NEW r \in Runs, Expire(r)  PROVE Exclusion'
  <2>1. NoNewHolder
    BY <1>25, SMT DEF Expire, Starting, NoNewHolder, Accounted, ActiveStatuses, Inv, TypeOK
  <2>2. SlotReserved'
    BY <1>25, <1>a, <1>b, <2>1, SMT
    DEF Expire, Starting, SlotReserved, NoNewHolder, StartSteps, Inv, TypeOK
  <2> QED  BY <2>1, <2>2, ExclusiveFrame
<1>26. ASSUME Crash  PROVE Exclusion'
  <2>1. NoNewHolder
    BY <1>26, SMT DEF Crash, NoNewHolder, Accounted, ActiveStatuses, Inv, TypeOK
  <2>2. SlotReserved'
    BY <1>26, <1>a, <1>b, <2>1, SMT
    DEF Crash, SlotReserved, NoNewHolder, StartSteps, Inv, TypeOK
  <2> QED  BY <2>1, <2>2, ExclusiveFrame
<1>27. CASE UNCHANGED vars
  BY <1>27 DEF vars, SlotExclusive, SlotReserved, Accounted
<1> QED
  BY NextCases, <1>1, <1>2, <1>3, <1>4, <1>5, <1>6, <1>7, <1>8, <1>9, <1>10, <1>11, <1>12, <1>13, <1>14, <1>15, <1>16, <1>17, <1>18, <1>19, <1>20, <1>21, <1>22, <1>23, <1>24, <1>25, <1>26, <1>27

LEMMA ExclusionInit == Init => Exclusion
BY DEF Init, Exclusion, SlotExclusive, SlotReserved, Accounted, ActiveStatuses, StartSteps

(* Two running migrations never count on the same slot, for any number of  *)
(* runs, requests and slots, if no call to Postgres or Redis fails: clients*)
(* may hang up, the api may restart and Band may refuse at any point.      *)
THEOREM SlotsAreExclusive ==
  ASSUME StoresWork
  PROVE  Spec => []SlotExclusive
<1>1. Init => Exclusion
  BY ExclusionInit
<1>2. Inv /\ Exclusion /\ [Next]_vars => Exclusion'
  BY ExclusionStep
<1>3. Exclusion => SlotExclusive
  BY DEF Exclusion
<1> QED  BY Invariant, <1>1, <1>2, <1>3, PTL DEF Spec

-----------------------------------------------------------------------------
(* What the list keeps when it grows at its end or shrinks at its head.    *)
LEMMA AppendKeeps ==
  ASSUME NEW S, NEW s \in Seq(S), NEW e \in S
  PROVE  ToSet(Append(s, e)) = ToSet(s) \union {e}
<1>1. /\ Append(s, e) \in Seq(S)
      /\ Len(Append(s, e)) = Len(s) + 1
      /\ \A i \in 1 .. Len(s) : Append(s, e)[i] = s[i]
      /\ Append(s, e)[Len(s) + 1] = e
  BY AppendProperties
<1>2. /\ Len(s) \in Nat /\ DOMAIN s = 1 .. Len(s)
      /\ DOMAIN Append(s, e) = 1 .. Len(s) + 1
  BY <1>1, LenProperties
<1> QED  BY <1>1, <1>2 DEF ToSet

LEMMA TailKeeps ==
  ASSUME NEW S, NEW s \in Seq(S), s # <<>>
  PROVE  ToSet(s) = ToSet(Tail(s)) \union {Head(s)}
<1>1. /\ Tail(s) \in Seq(S)
      /\ Len(Tail(s)) = Len(s) - 1
      /\ \A i \in 1 .. Len(Tail(s)) : Tail(s)[i] = s[i + 1]
      /\ Head(s) = s[1]
  BY HeadTailProperties
<1>2. /\ Len(s) \in Nat \ {0} /\ DOMAIN s = 1 .. Len(s)
      /\ DOMAIN Tail(s) = 1 .. Len(s) - 1
  BY <1>1, LenProperties, EmptySeq
<1>3. ASSUME NEW i \in 1 .. Len(s)  PROVE s[i] \in ToSet(Tail(s)) \union {Head(s)}
  <2>1. CASE i = 1
    BY <1>1, <2>1
  <2>2. CASE i # 1
    <3>1. i - 1 \in 1 .. Len(s) - 1 /\ (i - 1) + 1 = i
      BY <1>2, <2>2
    <3>2. Tail(s)[i - 1] = s[i]
      BY <1>1, <3>1
    <3> QED  BY <1>2, <3>1, <3>2 DEF ToSet
  <2> QED  BY <2>1, <2>2
<1>4. ASSUME NEW i \in 1 .. Len(s) - 1  PROVE Tail(s)[i] \in ToSet(s)
  <2>1. i + 1 \in 1 .. Len(s) /\ Tail(s)[i] = s[i + 1]
    BY <1>1, <1>2
  <2> QED  BY <1>2, <2>1 DEF ToSet
<1>5. Head(s) \in ToSet(s)
  BY <1>1, <1>2 DEF ToSet
<1> QED  BY <1>2, <1>3, <1>4, <1>5 DEF ToSet

(* The reconcile loop holds a run only while it is starting it, and a run  *)
(* it has failed is not a queued one.                                      *)
ReconcilerHolds ==
  /\ pc[Reconciler] \in {"idle", "alloc", "pop"} => arg[Reconciler] = NoRun
  /\ pc[Reconciler] = "fail_keys" => status[arg[Reconciler]] # "queued"

QueueSafety == NoLostQueuedRun /\ PushedFirst /\ ReconcilerHolds

(* A client may hang up and Band may refuse, but nothing else fails.       *)
QueueFaults == Faults \subseteq {"ctx", "band"}

LEMMA QueueInit == Init => QueueSafety
BY DEF Init, QueueSafety, NoLostQueuedRun, PushedFirst, ReconcilerHolds, Procs

LEMMA QueueStep ==
  ASSUME QueueFaults, Inv, QueueSafety, [Next]_vars
  PROVE  QueueSafety'
<1> USE DEF QueueSafety, GoTo, stores, callers, ReconcilerHolds
<1>a. \A p, t \in Procs : pc[p] \in Critical /\ pc[t] \in Critical => p = t
  BY DEF Inv, LockOK
<1>b. Reconciler \in Procs /\ Reqs \subseteq Procs /\ Reconciler \notin Reqs /\ NoRun \notin Runs
  BY ConstantsAssumption DEF Procs
<1>c. alive[Reconciler]
  BY DEF Inv, LocalsOK
<1>d. ASSUME NEW p \in Procs, alive[p], NEW ok \in Outcomes(p, "db") \union Outcomes(p, "redis")
      PROVE  ok
  BY <1>d DEF QueueFaults, Outcomes, StoreOutcomes
<1>1. ASSUME NEW q \in Reqs, NEW r \in Runs, ReceiveStart(q, r)
       PROVE  QueueSafety'
  BY <1>1, <1>a, <1>b, <1>c, <1>d, SMT
  DEF ReceiveStart, NoLostQueuedRun, PushedFirst, Critical, StartSteps, FailSteps, QueueSteps,
      ReconcileSteps, Inv, TypeOK
<1>2. ASSUME NEW q \in Reqs, Admit(q)  PROVE QueueSafety'
  BY <1>2, <1>a, <1>b, <1>c, <1>d, SMT
  DEF Admit, NoLostQueuedRun, PushedFirst, Critical, StartSteps, FailSteps, QueueSteps,
      ReconcileSteps, Inv, TypeOK
<1>3. ASSUME NEW q \in Reqs, PushQueue(q)  PROVE QueueSafety'
  <2>1. arg[q] \in Runs /\ queue \in Seq(Runs) /\ pc[q] = "push"
    BY <1>3, <1>b DEF PushQueue, Inv, TypeOK, LocalsOK, RunSteps, QueueSteps
  <2>2. /\ ToSet(queue) \subseteq ToSet(queue')
        /\ alive[q] => arg[q] \in ToSet(queue')
    <3>1. PICK ok \in Outcomes(q, "redis") : queue' = IF ok THEN Append(queue, arg[q]) ELSE queue
      BY <1>3 DEF PushQueue
    <3>2. alive[q] => ok
      BY <1>b, <1>d, <3>1
    <3>3. ToSet(Append(queue, arg[q])) = ToSet(queue) \union {arg[q]}
      BY <2>1, AppendKeeps
    <3> QED  BY <3>1, <3>2, <3>3
  <2>3. GoTo(q, "mark_queued") /\ UNCHANGED <<status, arg, alive>>
    BY <1>3 DEF PushQueue
  <2> QED
    BY <1>a, <1>b, <2>1, <2>2, <2>3, SMT
    DEF NoLostQueuedRun, PushedFirst, Critical, StartSteps, FailSteps, QueueSteps,
        ReconcileSteps, Inv, TypeOK
<1>4. ASSUME NEW q \in Reqs, MarkQueued(q)  PROVE QueueSafety'
  <2>1. pc[q] = "mark_queued" /\ Leave(q) /\ UNCHANGED queue
    BY <1>4 DEF MarkQueued
  <2>2. \A r \in Runs : status'[r] # status[r] => r = arg[q] /\ alive[q]
    BY <1>4 DEF MarkQueued, Outcomes, Inv, TypeOK
  <2>3. alive[q] => arg[q] \in ToSet(queue)
    BY <2>1 DEF PushedFirst
  <2>4. \A p \in Procs \ {q} : pc'[p] = pc[p] /\ arg'[p] = arg[p] /\ pc[p] \notin Critical
    BY <1>a, <1>b, <2>1, SMT DEF Leave, Inv, TypeOK, Critical, QueueSteps
  <2>5. pc'[q] = "done"
    BY <1>b, <2>1 DEF Leave, Inv, TypeOK
  <2>6. NoLostQueuedRun'
    BY <1>b, <2>1, <2>2, <2>3, <2>4 DEF NoLostQueuedRun
  <2>7. PushedFirst'
    BY <1>b, <2>4, <2>5 DEF PushedFirst, Critical, QueueSteps
  <2>8. ReconcilerHolds'
    BY <1>b, <2>4 DEF Critical, FailSteps
  <2> QED  BY <2>6, <2>7, <2>8
<1>5. ASSUME NEW q \in Reqs, HangUp(q)  PROVE QueueSafety'
  BY <1>5, <1>a, <1>b, <1>c, <1>d, SMT
  DEF HangUp, NoLostQueuedRun, PushedFirst, Critical, StartSteps, FailSteps, QueueSteps,
      ReconcileSteps, Inv, TypeOK
<1>6. ASSUME NEW p \in Procs, LoadRun(p)  PROVE QueueSafety'
  BY <1>6, <1>a, <1>b, <1>c, <1>d, SMT
  DEF LoadRun, NoLostQueuedRun, PushedFirst, Critical, StartSteps, FailSteps, QueueSteps,
      ReconcileSteps, Inv, TypeOK
<1>7. ASSUME NEW p \in Procs, Activate(p)  PROVE QueueSafety'
  BY <1>7, <1>a, <1>b, <1>c, <1>d, SMT
  DEF Activate, NoLostQueuedRun, PushedFirst, Critical, StartSteps, FailSteps, QueueSteps,
      ReconcileSteps, Inv, TypeOK
<1>8. ASSUME NEW p \in Procs, StartRoom(p)  PROVE QueueSafety'
  <2>1. PICK l \in {"pin", "fail_db"} : GoTo(p, l)
    BY <1>8 DEF StartRoom
  <2>2. pc[p] = "room" /\ UNCHANGED <<status, queue, arg, alive>>
    BY <1>8 DEF StartRoom
  <2> QED
    BY <1>a, <1>b, <2>1, <2>2, SMT
    DEF NoLostQueuedRun, PushedFirst, Critical, StartSteps, FailSteps, QueueSteps,
        ReconcileSteps, Inv, TypeOK
<1>9. ASSUME NEW p \in Procs, PinSlot(p)  PROVE QueueSafety'
  BY <1>9, <1>a, <1>b, <1>c, <1>d, SMT
  DEF PinSlot, NoLostQueuedRun, PushedFirst, Critical, StartSteps, FailSteps, QueueSteps,
      ReconcileSteps, Inv, TypeOK
<1>10. ASSUME NEW p \in Procs, Persist(p)  PROVE QueueSafety'
  <2>1. pc[p] = "persist" /\ Leave(p) /\ UNCHANGED queue
    BY <1>10 DEF Persist
  <2>2. /\ \A r \in Runs : status'[r] \in {status[r], "planning"}
        /\ alive[p] => \A r \in Runs : r = arg[p] => status'[r] = "planning"
    <3>1. PICK ok \in Outcomes(p, "db") :
            status' = IF ok THEN [status EXCEPT ![arg[p]] = "planning"] ELSE status
      BY <1>10 DEF Persist
    <3>2. alive[p] => ok
      BY <1>d, <3>1
    <3> QED  BY <3>1, <3>2 DEF Inv, TypeOK
  <2>3. \A t \in Procs \ {p} : pc'[t] = pc[t] /\ arg'[t] = arg[t] /\ pc[t] \notin Critical
    BY <1>a, <2>1, SMT DEF Leave, Inv, TypeOK, Critical, StartSteps
  <2>4. /\ p = Reconciler => pc'[p] = "alloc" /\ arg'[p] = NoRun
        /\ p # Reconciler => pc'[p] = "done"
    BY <2>1 DEF Leave, Inv, TypeOK
  <2>5. NoLostQueuedRun'
    BY <1>b, <1>c, <2>1, <2>2, <2>3, <2>4 DEF NoLostQueuedRun
  <2>6. PushedFirst'
    BY <1>b, <2>3, <2>4 DEF PushedFirst, Critical, QueueSteps
  <2>7. ReconcilerHolds'
    BY <1>b, <2>3, <2>4 DEF Critical, FailSteps
  <2> QED  BY <2>5, <2>6, <2>7
<1>11. ASSUME NEW p \in Procs, FailRow(p)  PROVE QueueSafety'
  <2>1. pc[p] = "fail_db" /\ GoTo(p, "fail_keys") /\ UNCHANGED <<queue, arg, alive>>
    BY <1>11 DEF FailRow
  <2>2. /\ \A r \in Runs : status'[r] \in {status[r], "failed"}
        /\ alive[p] => \A r \in Runs : r = arg[p] => status'[r] = "failed"
    <3>1. PICK ok \in Outcomes(p, "db") :
            status' = IF ok THEN [status EXCEPT ![arg[p]] = "failed"] ELSE status
      BY <1>11 DEF FailRow
    <3>2. alive[p] => ok
      BY <1>d, <3>1
    <3> QED  BY <3>1, <3>2 DEF Inv, TypeOK
  <2>3. arg[p] \in Runs
    BY <2>1 DEF Inv, LocalsOK, RunSteps, FailSteps
  <2>4. \A t \in Procs \ {p} : pc'[t] = pc[t] /\ pc[t] \notin Critical
    BY <1>a, <2>1, SMT DEF Inv, TypeOK, Critical, FailSteps
  <2>5. pc'[p] = "fail_keys"
    BY <2>1 DEF Inv, TypeOK
  <2>6. NoLostQueuedRun'
    BY <1>b, <2>1, <2>2, <2>4, <2>5 DEF NoLostQueuedRun, Critical, FailSteps
  <2>7. PushedFirst'
    BY <1>b, <2>4, <2>5 DEF PushedFirst, Critical, QueueSteps
  <2>8. ReconcilerHolds'
    BY <1>b, <1>c, <2>1, <2>2, <2>3, <2>4, <2>5 DEF Critical, FailSteps, ReconcileSteps
  <2> QED  BY <2>6, <2>7, <2>8
<1>12. ASSUME NEW p \in Procs, FailKeys(p)  PROVE QueueSafety'
  BY <1>12, <1>a, <1>b, <1>c, <1>d, SMT
  DEF FailKeys, Leave, NoLostQueuedRun, PushedFirst, Critical, StartSteps, FailSteps, QueueSteps,
      ReconcileSteps, Inv, TypeOK
<1>13. ASSUME Reconcile  PROVE QueueSafety'
  BY <1>13, <1>a, <1>b, <1>c, <1>d, SMT
  DEF Reconcile, Stale, NoLostQueuedRun, PushedFirst, Critical, StartSteps, FailSteps, QueueSteps,
      ReconcileSteps, Inv, TypeOK
<1>14. ASSUME Allocate  PROVE QueueSafety'
  BY <1>14, <1>a, <1>b, <1>c, <1>d, SMT
  DEF Allocate, EndReconcile, NoLostQueuedRun, PushedFirst, Critical, StartSteps, FailSteps, QueueSteps,
      ReconcileSteps, Inv, TypeOK
<1>15. ASSUME PopQueue  PROVE QueueSafety'
  BY <1>15, <1>a, <1>b, <1>c, <1>d, SMT
  DEF PopQueue, EndReconcile, NoLostQueuedRun, PushedFirst, Critical, StartSteps, FailSteps, QueueSteps,
      ReconcileSteps, Inv, TypeOK
<1>16. ASSUME PopRun  PROVE QueueSafety'
  <2>1. /\ pc[Reconciler] = "pop" /\ GoTo(Reconciler, "check")
        /\ queue # <<>> /\ queue' = Tail(queue)
        /\ arg' = [arg EXCEPT ![Reconciler] = Head(queue)]
        /\ UNCHANGED <<status, alive>>
    BY <1>16 DEF PopRun
  <2>2. ToSet(queue) = ToSet(queue') \union {Head(queue)}
    BY <2>1, TailKeeps DEF Inv, TypeOK
  <2>3. \A q \in Reqs : pc'[q] # "mark_queued"
    BY <1>a, <1>b, <2>1, SMT DEF Inv, TypeOK, Critical, ReconcileSteps, QueueSteps
  <2>4. pc'[Reconciler] = "check" /\ arg'[Reconciler] = Head(queue)
    BY <1>b, <2>1 DEF Inv, TypeOK
  <2>5. \A r \in Runs : r # arg[Reconciler]
    BY <1>b, <2>1
  <2>6. NoLostQueuedRun'
    BY <2>1, <2>2, <2>4, <2>5 DEF NoLostQueuedRun, Critical, ReconcileSteps
  <2> QED  BY <2>3, <2>4, <2>6 DEF PushedFirst
<1>17. ASSUME CheckQueueable  PROVE QueueSafety'
  <2>1. pc[Reconciler] = "check" /\ UNCHANGED <<status, queue>>
    BY <1>17 DEF CheckQueueable, stores
  <2>2. \A q \in Reqs : pc'[q] = pc[q] /\ pc[q] \notin Critical
    BY <1>17, <1>a, <1>b, <2>1, SMT DEF CheckQueueable, Leave, Inv, TypeOK, Critical, ReconcileSteps
  <2>3. CASE Leave(Reconciler)
    <3>1. pc'[Reconciler] = "alloc" /\ arg'[Reconciler] = NoRun
      BY <1>b, <2>3 DEF Leave, Inv, TypeOK
    <3>2. status[arg[Reconciler]] # "queued"
      <4>1. ~GoTo(Reconciler, "load")
        BY <1>b, <3>1 DEF Inv, TypeOK
      <4>2. PICK ok \in Outcomes(Reconciler, "db") :
              ~(ok /\ status[arg[Reconciler]] \in {"queued", "pending"})
        BY <1>17, <4>1 DEF CheckQueueable
      <4>3. ok
        BY <1>b, <1>c, <1>d
      <4> QED  BY <4>2, <4>3
    <3>3. NoLostQueuedRun'
      BY <2>1, <3>2 DEF NoLostQueuedRun
    <3> QED  BY <2>2, <3>1, <3>3 DEF PushedFirst, Critical, QueueSteps
  <2>4. CASE ~Leave(Reconciler)
    <3>1. GoTo(Reconciler, "load") /\ UNCHANGED <<arg, alive>>
      BY <1>17, <2>4 DEF CheckQueueable
    <3>2. pc'[Reconciler] = "load"
      BY <1>b, <3>1 DEF Inv, TypeOK
    <3>3. NoLostQueuedRun'
      BY <2>1, <3>1, <3>2 DEF NoLostQueuedRun, Critical, StartSteps
    <3> QED  BY <2>2, <3>2, <3>3 DEF PushedFirst, Critical, QueueSteps
  <2> QED  BY <2>3, <2>4
<1>18. ASSUME NEW c \in Cancels, NEW r \in Runs, CancelStatus(c, r)
       PROVE  QueueSafety'
  BY <1>18, <1>a, <1>b, <1>c, <1>d, SMT
  DEF CancelStatus, NoLostQueuedRun, PushedFirst, Critical, StartSteps, FailSteps, QueueSteps,
      ReconcileSteps, Inv, TypeOK
<1>19. ASSUME NEW c \in Cancels, CancelComplete(c)
       PROVE  QueueSafety'
  BY <1>19, <1>a, <1>b, <1>c, <1>d, SMT
  DEF CancelComplete, NoLostQueuedRun, PushedFirst, Critical, StartSteps, FailSteps, QueueSteps,
      ReconcileSteps, Inv, TypeOK
<1>20. ASSUME NEW pipe \in pipes, NEW outcome \in {"completed", "failed"}, Finalize(pipe, outcome)
       PROVE  QueueSafety'
  BY <1>20, <1>a, <1>b, <1>c, <1>d, SMT
  DEF Finalize, NoLostQueuedRun, PushedFirst, Critical, StartSteps, FailSteps, QueueSteps,
      ReconcileSteps, Inv, TypeOK
<1>21. ASSUME FinalizeKeys  PROVE QueueSafety'
  BY <1>21, <1>a, <1>b, <1>c, <1>d, SMT
  DEF FinalizeKeys, NoLostQueuedRun, PushedFirst, Critical, StartSteps, FailSteps, QueueSteps,
      ReconcileSteps, Inv, TypeOK
<1>22. ASSUME NEW pipe \in pipes, MarkRunTerminal(pipe)
       PROVE  QueueSafety'
  BY <1>22, <1>a, <1>b, <1>c, <1>d, SMT
  DEF MarkRunTerminal, NoLostQueuedRun, PushedFirst, Critical, StartSteps, FailSteps, QueueSteps,
      ReconcileSteps, Inv, TypeOK
<1>23. ASSUME NEW pipe \in pipes, PipeStops(pipe)
       PROVE  QueueSafety'
  BY <1>23, <1>a, <1>b, <1>c, <1>d, SMT
  DEF PipeStops, NoLostQueuedRun, PushedFirst, Critical, StartSteps, FailSteps, QueueSteps,
      ReconcileSteps, Inv, TypeOK
<1>24. ASSUME NEW r \in Runs, Age(r)  PROVE QueueSafety'
  BY <1>24, <1>a, <1>b, <1>c, <1>d, SMT
  DEF Age, NoLostQueuedRun, PushedFirst, Critical, StartSteps, FailSteps, QueueSteps,
      ReconcileSteps, Inv, TypeOK
<1>25. ASSUME NEW r \in Runs, Expire(r)  PROVE QueueSafety'
  BY <1>25, <1>a, <1>b, <1>c, <1>d, SMT
  DEF Expire, Starting, NoLostQueuedRun, PushedFirst, Critical, StartSteps, FailSteps, QueueSteps,
      ReconcileSteps, Inv, TypeOK
<1>26. ASSUME Crash  PROVE QueueSafety'
  BY <1>26 DEF Crash, QueueFaults
<1>27. CASE UNCHANGED vars
  BY <1>27 DEF vars, NoLostQueuedRun, PushedFirst
<1> QED
  BY NextCases, <1>1, <1>2, <1>3, <1>4, <1>5, <1>6, <1>7, <1>8, <1>9, <1>10, <1>11, <1>12, <1>13, <1>14, <1>15, <1>16, <1>17, <1>18, <1>19, <1>20, <1>21, <1>22, <1>23, <1>24, <1>25, <1>26, <1>27

(* No queued run is forgotten, for any number of runs, requests and slots, *)
(* as long as nothing but clients and Band fails.                          *)
THEOREM QueuedRunsAreKept ==
  ASSUME QueueFaults
  PROVE  Spec => []NoLostQueuedRun
<1>1. Init => QueueSafety
  BY QueueInit
<1>2. Inv /\ QueueSafety /\ [Next]_vars => QueueSafety'
  BY QueueStep
<1>3. QueueSafety => NoLostQueuedRun
  BY DEF QueueSafety
<1> QED  BY Invariant, <1>1, <1>2, <1>3, PTL DEF Spec

-----------------------------------------------------------------------------
(* Only the last two writes of start can make a run hold a slot.           *)
LEMMA HoldersStep ==
  ASSUME Inv, [Next]_vars
  PROVE  NoNewHolder \/ \E p \in Procs : PinSlot(p) \/ Persist(p)
<1> USE DEF NoNewHolder, Accounted, ActiveStatuses, stores, callers
<1>1. CASE UNCHANGED <<status, started, slotKey>>
  BY <1>1
<1>2. CASE UNCHANGED <<started, slotKey>> /\ \A r \in Runs : status'[r] \in {status[r]} \union (Statuses \ ActiveStatuses)
  BY <1>2 DEF Statuses
<1>3. ASSUME NEW q \in Reqs, \/ \E r \in Runs : ReceiveStart(q, r)
                            \/ Admit(q) \/ PushQueue(q) \/ MarkQueued(q) \/ HangUp(q)
      PROVE  NoNewHolder
  BY <1>1, <1>2, <1>3 DEF ReceiveStart, Admit, PushQueue, MarkQueued, HangUp, Inv, TypeOK, Statuses
<1>4. ASSUME NEW p \in Procs,
             LoadRun(p) \/ Activate(p) \/ StartRoom(p) \/ FailRow(p) \/ FailKeys(p)
      PROVE  NoNewHolder
  BY <1>1, <1>2, <1>4 DEF LoadRun, Activate, StartRoom, FailRow, FailKeys, Inv, TypeOK, Statuses
<1>5. ASSUME Reconcile \/ Allocate \/ PopQueue \/ PopRun \/ CheckQueueable
      PROVE  NoNewHolder
  BY <1>1, <1>2, <1>5
  DEF Reconcile, Allocate, EndReconcile, PopQueue, PopRun, CheckQueueable, Statuses
<1>6. ASSUME NEW c \in Cancels, (\E r \in Runs : CancelStatus(c, r)) \/ CancelComplete(c)
      PROVE  NoNewHolder
  BY <1>2, <1>6 DEF CancelStatus, CancelComplete, Inv, TypeOK, Statuses
<1>7. ASSUME NEW pipe \in pipes, NEW outcome \in {"completed", "failed"}, Finalize(pipe, outcome)
      PROVE  NoNewHolder
  BY <1>2, <1>7 DEF Finalize, Inv, TypeOK, Statuses
<1>8. ASSUME NEW pipe \in pipes, MarkRunTerminal(pipe) \/ PipeStops(pipe)
      PROVE  NoNewHolder
  BY <1>1, <1>8 DEF MarkRunTerminal, PipeStops
<1>9. ASSUME NEW r \in Runs, Age(r) \/ Expire(r)  PROVE NoNewHolder
  BY <1>9 DEF Age, Expire, Inv, TypeOK
<1>10. ASSUME FinalizeKeys \/ Crash \/ UNCHANGED vars  PROVE NoNewHolder
  BY <1>1, <1>10 DEF FinalizeKeys, Crash, vars
<1> HIDE DEF NoNewHolder
<1> QED
  BY NextCases, <1>3, <1>4, <1>5, <1>6, <1>7, <1>8, <1>9, <1>10

(* An accounted run with its slot.                                         *)
LEMMA HeldMembers ==
  /\ \A h : h \in Held <=> \E r \in Runs : Accounted(r) /\ h = <<r, slotKey[r]>>
  /\ \A h : h \in Held' <=> \E r \in Runs : Accounted(r)' /\ h = <<r, slotKey'[r]>>
BY DEF Held

(* A run that counts with slot k after a step, where the others count as   *)
(* before and none of them with k, has taken k.                            *)
LEMMA TakesSlot ==
  ASSUME NEW x \in Runs, NEW k \in Slots,
         Accounted(x)', slotKey'[x] = k,
         \A r \in Runs \ {x} : Accounted(r)' = Accounted(r) /\ slotKey'[r] = slotKey[r],
         \A r \in Runs \ {x} : Accounted(r) => slotKey[r] # k
  PROVE  Pool!Take(x, k)
<1>1. \A h \in Held : h[2] = k => h[1] = x
  BY HeldMembers
<1>2. ASSUME NEW h \in Held'  PROVE h \in {g \in Held : g[1] # x} \union {<<x, k>>}
  BY HeldMembers, <1>2
<1>3. ASSUME NEW h \in {g \in Held : g[1] # x} \union {<<x, k>>}  PROVE h \in Held'
  BY HeldMembers, <1>3
<1>4. Held' = {g \in Held : g[1] # x} \union {<<x, k>>}
  BY <1>2, <1>3
<1> QED  BY <1>1, <1>4 DEF Pool!Take

LEMMA PoolStep ==
  ASSUME StoresWork, Inv, Exclusion, [Next]_vars
  PROVE  [Pool!Next]_Held
<1>1. CASE NoNewHolder
  <2>1. Held' \in SUBSET Held
    BY <1>1, HeldMembers DEF NoNewHolder
  <2> QED  BY <2>1 DEF Pool!Next, Pool!GiveBack
<1>2. ASSUME NEW p \in Procs, PinSlot(p)  PROVE [Pool!Next]_Held
  <2>1. pc[p] = "pin" /\ UNCHANGED <<status, started>>
    BY <1>2 DEF PinSlot
  <2>2. slotKey' = IF alive[p] THEN [slotKey EXCEPT ![arg[p]] = slot[p]] ELSE slotKey
    BY <1>2 DEF PinSlot, StoresWork, Outcomes, StoreOutcomes
  <2>3. arg[p] \in Runs /\ slot[p] \in Slots /\ slotKey \in [Runs -> Slots \union {NoSlot}]
    BY <2>1 DEF Inv, LocalsOK, TypeOK, RunSteps, StartSteps
  <2>4. \A r \in Runs : Accounted(r)' = Accounted(r)
    BY <2>1 DEF Accounted
  <2>5. CASE alive[p] /\ Accounted(arg[p])
    <3>1. \A r \in Runs \ {arg[p]} : Accounted(r) => slotKey[r] # slot[p]
      BY <2>1, <2>5 DEF Exclusion, SlotReserved, StartSteps
    <3>2. Pool!Take(arg[p], slot[p])
      BY <2>2, <2>3, <2>4, <2>5, <3>1, TakesSlot
    <3> QED  BY <2>3, <3>2 DEF Pool!Next
  <2>6. CASE ~(alive[p] /\ Accounted(arg[p]))
    <3>1. NoNewHolder
      BY <2>2, <2>3, <2>4, <2>6 DEF NoNewHolder
    <3> QED  BY <1>1, <3>1
  <2> QED  BY <2>5, <2>6
<1>3. ASSUME NEW p \in Procs, Persist(p)  PROVE [Pool!Next]_Held
  <2>1. pc[p] = "persist" /\ UNCHANGED slotKey
    BY <1>3 DEF Persist
  <2>2. PICK ok \in Outcomes(p, "db") :
          /\ status'  = IF ok THEN [status EXCEPT ![arg[p]] = "planning"] ELSE status
          /\ started' = IF ok THEN [started EXCEPT ![arg[p]] = "fresh"] ELSE started
    BY <1>3 DEF Persist
  <2>3. PICK x \in Runs, k \in Slots : x = arg[p] /\ k = slot[p]
    BY <2>1 DEF Inv, LocalsOK, TypeOK, RunSteps, StartSteps
  <2>4. CASE ok
    <3>1. alive[p]
      BY <2>2, <2>4 DEF Outcomes
    <3>2. slotKey[x] = k
      BY <2>1, <2>3, <3>1 DEF Exclusion, SlotReserved
    <3>3. \A r \in Runs \ {x} : Accounted(r) => slotKey[r] # k
      BY <2>1, <2>3, <3>1 DEF Exclusion, SlotReserved, StartSteps
    <3>4. /\ Accounted(x)'
          /\ \A r \in Runs \ {x} : Accounted(r)' = Accounted(r)
      BY <2>2, <2>3, <2>4 DEF Accounted, ActiveStatuses, Inv, TypeOK
    <3>5. Pool!Take(x, k)
      BY <2>1, <2>3, <3>2, <3>3, <3>4, TakesSlot
    <3> QED  BY <2>3, <3>5 DEF Pool!Next
  <2>5. CASE ~ok
    <3>1. NoNewHolder
      BY <2>1, <2>2, <2>5 DEF NoNewHolder, Accounted
    <3> QED  BY <1>1, <3>1
  <2> QED  BY <2>4, <2>5
<1> QED  BY HoldersStep, <1>1, <1>2, <1>3

(* The scheduler implements the pool of exclusively held slots: whatever a *)
(* step of any of its callers, of a cancel, of the mirror or of time does  *)
(* to the rows and the slot keys is the taking of a free slot by one run,  *)
(* or a giving back.                                                       *)
THEOREM SchedulerImplementsPool ==
  ASSUME StoresWork
  PROVE  Spec => ImplementsSlotPool
<1>1. Init => Pool!Init
  BY DEF Init, Pool!Init, Held, Accounted, ActiveStatuses
<1>2. Init => Exclusion
  BY ExclusionInit
<1>3. Inv /\ Exclusion /\ [Next]_vars => Exclusion'
  BY ExclusionStep
<1>4. Inv /\ Exclusion /\ [Next]_vars => [Pool!Next]_Held
  BY PoolStep
<1> QED  BY Invariant, <1>1, <1>2, <1>3, <1>4, PTL DEF Spec, ImplementsSlotPool, Pool!Spec

-----------------------------------------------------------------------------
(* Only the last write of start makes a run "planning", only the mirror    *)
(* makes it "completed", only start makes it live again.                   *)
LEMMA StatusStep ==
  ASSUME Inv, [Next]_vars
  PROVE  /\ \A r \in Runs : status'[r] = "planning" =>
              \/ status[r] = "planning"
              \/ \E p \in Procs : Persist(p) /\ arg[p] = r
         /\ \A r \in Runs : status'[r] = "completed" =>
              \/ status[r] = "completed"
              \/ mirror.pc = "idle" /\ mirror' = [pc |-> "mark", run |-> r]
         /\ \A r \in Runs : Live(r)' => Live(r) \/ \E p \in Procs : Activate(p) /\ arg[p] = r
<1> DEFINE Goal ==
      /\ \A r \in Runs : status'[r] = "planning" =>
           \/ status[r] = "planning"
           \/ \E p \in Procs : Persist(p) /\ arg[p] = r
      /\ \A r \in Runs : status'[r] = "completed" =>
           \/ status[r] = "completed"
           \/ mirror.pc = "idle" /\ mirror' = [pc |-> "mark", run |-> r]
      /\ \A r \in Runs : Live(r)' => Live(r) \/ \E p \in Procs : Activate(p) /\ arg[p] = r
<1> USE DEF stores, callers
<1>0. status \in [Runs -> Statuses]
  BY DEF Inv, TypeOK
<1>1. CASE UNCHANGED <<status, active, terminal>>
  BY <1>1, Zenon DEF Live
<1>2. CASE /\ UNCHANGED <<active, terminal>>
           /\ \A r \in Runs : status'[r] \in {status[r], "queued", "failed"}
  BY <1>2 DEF Live
<1>3. CASE UNCHANGED status /\ active' \subseteq active /\ terminal \subseteq terminal'
  BY <1>3 DEF Live
<1>4. ASSUME NEW q \in Reqs, \/ \E r \in Runs : ReceiveStart(q, r)
                            \/ Admit(q) \/ PushQueue(q) \/ MarkQueued(q) \/ HangUp(q)
      PROVE  Goal
  BY <1>0, <1>1, <1>2, <1>4 DEF ReceiveStart, Admit, PushQueue, MarkQueued, HangUp
<1>5. ASSUME NEW p \in Procs, \/ LoadRun(p) \/ StartRoom(p) \/ PinSlot(p) \/ FailRow(p)
                             \/ FailKeys(p)
      PROVE  Goal
  BY <1>0, <1>1, <1>2, <1>3, <1>5 DEF LoadRun, StartRoom, PinSlot, FailRow, FailKeys
<1>6. ASSUME NEW p \in Procs, Activate(p)  PROVE Goal
  BY <1>6 DEF Activate, Live
<1>7. ASSUME NEW p \in Procs, Persist(p)  PROVE Goal
  <2>1. /\ UNCHANGED <<active, terminal>>
        /\ \A r \in Runs : status'[r] = status[r] \/ (r = arg[p] /\ status'[r] = "planning")
    BY <1>0, <1>7 DEF Persist
  <2> QED  BY <1>7, <2>1 DEF Live
<1>8. ASSUME Reconcile \/ Allocate \/ PopQueue \/ PopRun \/ CheckQueueable  PROVE Goal
  BY <1>1, <1>2, <1>8 DEF Reconcile, Allocate, EndReconcile, PopQueue, PopRun, CheckQueueable
<1>9. ASSUME NEW c \in Cancels, (\E r \in Runs : CancelStatus(c, r)) \/ CancelComplete(c)
      PROVE  Goal
  BY <1>0, <1>2, <1>9 DEF CancelStatus, CancelComplete
<1>10. ASSUME NEW pipe \in pipes, NEW outcome \in {"completed", "failed"}, Finalize(pipe, outcome)
       PROVE  Goal
  <2>1. /\ UNCHANGED <<active, terminal>>
        /\ mirror.pc = "idle" /\ mirror' = [pc |-> "mark", run |-> pipe[1]]
        /\ \A r \in Runs : status'[r] = status[r] \/ (r = pipe[1] /\ status'[r] = outcome)
    BY <1>0, <1>10 DEF Finalize
  <2> QED  BY <2>1 DEF Live
<1>11. ASSUME FinalizeKeys \/ Crash \/ UNCHANGED vars  PROVE Goal
  BY <1>1, <1>3, <1>11 DEF FinalizeKeys, Crash, vars
<1>12. ASSUME NEW pipe \in pipes, MarkRunTerminal(pipe) \/ PipeStops(pipe)  PROVE Goal
  BY <1>1, <1>3, <1>12 DEF MarkRunTerminal, PipeStops
<1>13. ASSUME NEW r \in Runs, Age(r) \/ Expire(r)  PROVE Goal
  BY <1>1, <1>3, <1>13 DEF Age, Expire
<1> HIDE DEF Goal
<1>14. Goal
  BY NextCases, <1>4, <1>5, <1>6, <1>7, <1>8, <1>9, <1>10, <1>11, <1>12, <1>13
<1> QED  BY <1>14 DEF Goal

-----------------------------------------------------------------------------
(* How often a run is in the list.                                         *)
Entries(s, r) == Cardinality({i \in DOMAIN s : s[i] = r})

LEMMA EntriesAreFinite ==
  ASSUME NEW S, NEW s \in Seq(S), NEW r
  PROVE  /\ IsFiniteSet({i \in DOMAIN s : s[i] = r})
         /\ Entries(s, r) \in Nat
<1>1. DOMAIN s = 1 .. Len(s) /\ Len(s) \in Nat
  BY LenProperties
<1>2. IsFiniteSet(1 .. Len(s))
  BY <1>1, FS_Interval
<1>3. IsFiniteSet({i \in DOMAIN s : s[i] = r})
  BY <1>1, <1>2, FS_Subset
<1> QED  BY <1>3, FS_CardinalityType DEF Entries

LEMMA AppendCounts ==
  ASSUME NEW S, NEW s \in Seq(S), NEW e \in S, NEW r
  PROVE  Entries(Append(s, e), r) = Entries(s, r) + (IF e = r THEN 1 ELSE 0)
<1> DEFINE A == {i \in DOMAIN s : s[i] = r}
           B == {i \in DOMAIN Append(s, e) : Append(s, e)[i] = r}
           n == Len(s) + 1
<1>1. /\ DOMAIN s = 1 .. Len(s) /\ Len(s) \in Nat
      /\ DOMAIN Append(s, e) = 1 .. n
      /\ \A i \in 1 .. Len(s) : Append(s, e)[i] = s[i]
      /\ Append(s, e)[n] = e
  BY AppendProperties, LenProperties
<1>2. IsFiniteSet(A) /\ Cardinality(A) \in Nat
  BY EntriesAreFinite DEF Entries
<1>3. n \notin A /\ 1 .. n = (1 .. Len(s)) \union {n}
  BY <1>1
<1>e. /\ Entries(s, r) = Cardinality(A)
      /\ Entries(Append(s, e), r) = Cardinality(B)
  BY DEF Entries
<1>4. CASE e = r
  <2>1. B = A \union {n}
    BY <1>1, <1>3, <1>4
  <2> HIDE DEF A, B, n
  <2>2. Cardinality(B) = Cardinality(A) + 1
    BY <1>2, <1>3, <2>1, FS_AddElement
  <2> QED  BY <1>4, <1>e, <2>2
<1>5. CASE e # r
  <2>1. B = A
    BY <1>1, <1>3, <1>5
  <2> HIDE DEF A, B, n
  <2>2. Entries(Append(s, e), r) = Entries(s, r)
    BY <1>e, <2>1
  <2> QED  BY <1>2, <1>5, <1>e, <2>2
<1> QED  BY <1>4, <1>5

LEMMA TailCounts ==
  ASSUME NEW S, NEW s \in Seq(S), s # <<>>, NEW r
  PROVE  Entries(s, r) = Entries(Tail(s), r) + (IF Head(s) = r THEN 1 ELSE 0)
<1> DEFINE A == {i \in DOMAIN s : s[i] = r}
           B == {i \in DOMAIN Tail(s) : Tail(s)[i] = r}
           f == [i \in A \ {1} |-> i - 1]
<1>1. /\ DOMAIN s = 1 .. Len(s) /\ Len(s) \in Nat \ {0}
      /\ Tail(s) \in Seq(S) /\ DOMAIN Tail(s) = 1 .. Len(s) - 1
      /\ \A i \in 1 .. Len(s) - 1 : Tail(s)[i] = s[i + 1]
      /\ Head(s) = s[1]
  BY HeadTailProperties, LenProperties, EmptySeq
<1>2. IsFiniteSet(A) /\ Cardinality(A) \in Nat /\ Cardinality(B) \in Nat
  BY <1>1, EntriesAreFinite DEF Entries
<1>3. ExistsBijection(A \ {1}, B)
  <2>1. ASSUME NEW i \in A \ {1}  PROVE f[i] \in B /\ f[i] = i - 1
    <3>1. i - 1 \in 1 .. Len(s) - 1 /\ (i - 1) + 1 = i
      BY <1>1
    <3>2. Tail(s)[i - 1] = r
      BY <1>1, <3>1
    <3> QED  BY <1>1, <3>1, <3>2
  <2>2. ASSUME NEW j \in B  PROVE j + 1 \in A \ {1} /\ f[j + 1] = j
    <3>1. j + 1 \in A \ {1}
      BY <1>1
    <3>2. (j + 1) - 1 = j
      BY <1>1
    <3> QED  BY <3>1, <3>2
  <2>3. f \in [A \ {1} -> B]
    BY <2>1
  <2>4. ASSUME NEW i \in A \ {1}, NEW j \in A \ {1}, f[i] = f[j]  PROVE i = j
    <3>1. i \in Int /\ j \in Int
      BY <1>1
    <3> QED  BY <2>1, <2>4, <3>1
  <2> HIDE DEF A, B, f
  <2>5. f \in Injection(A \ {1}, B)
    BY <2>3, <2>4 DEF Injection, IsInjective
  <2>6. f \in Surjection(A \ {1}, B)
    BY <2>2, <2>3 DEF Surjection
  <2> QED  BY <2>5, <2>6 DEF ExistsBijection, Bijection
<1> HIDE DEF f
<1>4. Cardinality(B) = Cardinality(A \ {1})
  <2> HIDE DEF A, B
  <2>1. IsFiniteSet(A \ {1})
    BY <1>2, FS_RemoveElement
  <2> QED  BY <1>3, <2>1, FS_Bijection
<1>5. 1 \in A <=> Head(s) = r
  BY <1>1
<1>6. Cardinality(A \ {1}) = IF 1 \in A THEN Cardinality(A) - 1 ELSE Cardinality(A)
  <2> HIDE DEF A
  <2> QED  BY <1>2, FS_RemoveElement
<1>7. Entries(s, r) = Cardinality(A) /\ Entries(Tail(s), r) = Cardinality(B)
  BY DEF Entries
<1> HIDE DEF A, B
<1> QED  BY <1>2, <1>4, <1>5, <1>6, <1>7

(* Every entry of the list, and the start that the holder of the mutex is  *)
(* about, stands for a call of Admit that has not led to a kickoff.        *)
Owing == {"push", "check", "load", "activate", "room"}
Wanted(r) == IF mu \in Procs /\ pc[mu] \in Owing /\ arg[mu] = r THEN 1 ELSE 0

Counted == \A r \in Runs : owed[r] >= Entries(queue, r) + Wanted(r)

LEMMA CountedFrame ==
  ASSUME Inv, Counted, UNCHANGED <<queue, owed>>,
         \A p \in Procs : mu' = p /\ pc'[p] \in Owing =>
                            mu = p /\ pc[p] \in Owing /\ arg'[p] = arg[p]
  PROVE  Counted'
<1> SUFFICES ASSUME NEW r \in Runs  PROVE owed'[r] >= Entries(queue', r) + Wanted(r)'
  BY DEF Counted
<1>1. owed[r] \in Int /\ Entries(queue, r) \in Nat
  BY EntriesAreFinite DEF Inv, TypeOK
<1>2. owed[r] >= Entries(queue, r) + Wanted(r)
  BY DEF Counted
<1>3. Wanted(r) \in {0, 1} /\ Wanted(r)' \in {0, 1} /\ (Wanted(r)' = 1 => Wanted(r) = 1)
  BY DEF Wanted
<1> QED  BY <1>1, <1>2, <1>3

LEMMA CountedStep ==
  ASSUME Inv, Counted, [Next]_vars
  PROVE  Counted'
<1> USE DEF GoTo, stores, callers
<1>0. /\ Reconciler \in Procs /\ Reconciler \notin Reqs /\ Reqs \subseteq Procs
      /\ Unlocked \notin Procs
      /\ pc \in [Procs -> PCs] /\ arg \in [Procs -> Runs \union {NoRun}]
      /\ queue \in Seq(Runs) /\ owed \in [Runs -> Int]
      /\ \A p \in Procs : pc[p] \in Critical => mu = p
  BY ConstantsAssumption DEF Procs, Inv, TypeOK, LockOK
<1>a. \A r \in Runs : /\ owed[r] \in Int /\ Entries(queue, r) \in Nat
                      /\ owed[r] >= Entries(queue, r) + Wanted(r)
                      /\ Wanted(r) \in {0, 1}
  BY <1>0, EntriesAreFinite DEF Counted, Wanted
<1>b. \A p \in Procs : pc[p] \in Owing \union {"admit"} => arg[p] \in Runs
  BY DEF Inv, LocalsOK, RunSteps, StartSteps, QueueSteps, Owing
<1>1. ASSUME NEW q \in Reqs, Admit(q)  PROVE Counted'
  <2>1. /\ pc[q] = "admit" /\ mu = Unlocked /\ mu' = q /\ UNCHANGED <<queue, arg>>
        /\ owed' = [owed EXCEPT ![arg[q]] = owed[arg[q]] + 1]
    BY <1>1 DEF Admit
  <2>2. ASSUME NEW r \in Runs  PROVE owed'[r] >= Entries(queue', r) + Wanted(r)'
    <3>1. Wanted(r) = 0 /\ Wanted(r)' \in {0, 1} /\ (Wanted(r)' = 1 => arg[q] = r)
      BY <1>0, <2>1 DEF Wanted
    <3>2. owed'[r] = IF arg[q] = r THEN owed[r] + 1 ELSE owed[r]
      BY <1>0, <2>1
    <3> QED  BY <1>a, <2>1, <3>1, <3>2
  <2> QED  BY <2>2 DEF Counted
<1>2. ASSUME NEW q \in Reqs, PushQueue(q)  PROVE Counted'
  <2>1. /\ pc[q] = "push" /\ arg[q] \in Runs /\ UNCHANGED <<mu, arg, owed>>
        /\ queue' \in {queue, Append(queue, arg[q])} /\ pc' = [pc EXCEPT ![q] = "mark_queued"]
    BY <1>0, <1>2, <1>b DEF PushQueue, Owing
  <2>2. mu = q
    BY <1>0, <2>1 DEF Critical, QueueSteps
  <2>3. ASSUME NEW r \in Runs  PROVE owed'[r] >= Entries(queue', r) + Wanted(r)'
    <3>1. Wanted(r)' = 0 /\ (arg[q] = r => Wanted(r) = 1)
      BY <1>0, <2>1, <2>2 DEF Wanted, Owing
    <3>2. Entries(Append(queue, arg[q]), r) = Entries(queue, r) + (IF arg[q] = r THEN 1 ELSE 0)
      BY <1>0, <2>1, AppendCounts
    <3>3. \/ Entries(queue', r) = Entries(queue, r)
          \/ Entries(queue', r) = Entries(queue, r) + (IF arg[q] = r THEN 1 ELSE 0)
      <4>1. CASE queue' = queue
        BY <4>1
      <4>2. CASE queue' = Append(queue, arg[q])
        BY <3>2, <4>2
      <4> QED  BY <2>1, <4>1, <4>2
    <3>4. owed'[r] = owed[r]
      BY <2>1
    <3> QED  BY <1>a, <3>1, <3>3, <3>4
  <2> QED  BY <2>3 DEF Counted
<1>3. CASE PopRun
  <2>1. /\ pc[Reconciler] = "pop" /\ UNCHANGED <<mu, owed>> /\ queue # <<>>
        /\ arg' = [arg EXCEPT ![Reconciler] = Head(queue)] /\ queue' = Tail(queue)
    BY <1>3 DEF PopRun
  <2>2. mu = Reconciler
    BY <1>0, <2>1 DEF Critical, ReconcileSteps
  <2>3. ASSUME NEW r \in Runs  PROVE owed'[r] >= Entries(queue', r) + Wanted(r)'
    <3>1. Wanted(r)' \in {0, 1} /\ (Wanted(r)' = 1 => Head(queue) = r)
      BY <1>0, <2>1, <2>2 DEF Wanted
    <3>2. Entries(queue, r) = Entries(Tail(queue), r) + (IF Head(queue) = r THEN 1 ELSE 0)
      BY <1>0, <2>1, TailCounts
    <3>3. Entries(Tail(queue), r) \in Nat
      BY <1>0, <2>1, HeadTailProperties, EntriesAreFinite
    <3> QED  BY <1>a, <2>1, <3>1, <3>2, <3>3
  <2> QED  BY <2>3 DEF Counted
<1>4. ASSUME NEW p \in Procs, StartRoom(p)  PROVE Counted'
  <2>1. /\ pc[p] = "room" /\ arg[p] \in Runs /\ UNCHANGED <<queue, mu, arg>>
        /\ owed' \in {owed, [owed EXCEPT ![arg[p]] = owed[arg[p]] - 1]}
        /\ \E l \in {"pin", "fail_db"} : pc' = [pc EXCEPT ![p] = l]
    BY <1>0, <1>4, <1>b DEF StartRoom, Owing
  <2>2. mu = p
    BY <1>0, <2>1 DEF Critical, StartSteps
  <2>3. ASSUME NEW r \in Runs  PROVE owed'[r] >= Entries(queue', r) + Wanted(r)'
    <3>1. Wanted(r)' = 0 /\ (arg[p] = r => Wanted(r) = 1)
      BY <1>0, <2>1, <2>2 DEF Wanted, Owing
    <3>2. owed'[r] = owed[r] \/ (owed'[r] = owed[r] - 1 /\ arg[p] = r)
      BY <1>0, <2>1
    <3> QED  BY <1>a, <2>1, <3>1, <3>2
  <2> QED  BY <2>3 DEF Counted
<1>5. ASSUME NEW q \in Reqs, \/ \E r \in Runs : ReceiveStart(q, r)
                            \/ MarkQueued(q) \/ HangUp(q)
      PROVE  Counted'
  <2>1. UNCHANGED <<queue, owed>>
    BY <1>5 DEF ReceiveStart, MarkQueued, HangUp
  <2>2. \A p \in Procs : mu' = p /\ pc'[p] \in Owing =>
                           mu = p /\ pc[p] \in Owing /\ arg'[p] = arg[p]
    BY <1>0, <1>5 DEF ReceiveStart, MarkQueued, HangUp, Leave, Owing
  <2> QED  BY <2>1, <2>2, CountedFrame
<1>6. ASSUME NEW p \in Procs, \/ LoadRun(p) \/ Activate(p) \/ PinSlot(p)
                             \/ Persist(p) \/ FailRow(p) \/ FailKeys(p)
      PROVE  Counted'
  <2>1. UNCHANGED <<queue, owed>>
    BY <1>6 DEF LoadRun, Activate, PinSlot, Persist, FailRow, FailKeys
  <2>2. \A t \in Procs : mu' = t /\ pc'[t] \in Owing =>
                           mu = t /\ pc[t] \in Owing /\ arg'[t] = arg[t]
    <3>1. pc[p] \in Critical /\ mu = p
      BY <1>0, <1>6 DEF LoadRun, Activate, PinSlot, Persist, FailRow, FailKeys, Critical,
                        StartSteps, FailSteps
    <3>2. CASE LoadRun(p) \/ Activate(p)
      BY <1>0, <3>2 DEF LoadRun, Activate, Owing
    <3>3. CASE PinSlot(p) \/ FailRow(p)
      BY <1>0, <3>1, <3>3 DEF PinSlot, FailRow, Owing
    <3>4. CASE (Persist(p) \/ FailKeys(p)) /\ Leave(p)
      BY <1>0, <3>1, <3>4 DEF Leave, Owing
    <3> QED  BY <1>6, <3>2, <3>3, <3>4 DEF Persist, FailKeys
  <2> QED  BY <2>1, <2>2, CountedFrame
<1>7. ASSUME Reconcile \/ Allocate \/ PopQueue \/ CheckQueueable \/ Crash  PROVE Counted'
  <2>1. UNCHANGED <<queue, owed>>
    BY <1>7 DEF Reconcile, Allocate, EndReconcile, PopQueue, CheckQueueable, Crash
  <2>2. \A t \in Procs : mu' = t /\ pc'[t] \in Owing =>
                           mu = t /\ pc[t] \in Owing /\ arg'[t] = arg[t]
    <3>1. CASE Crash
      BY <1>0, <3>1 DEF Crash
    <3>2. CASE Reconcile
      BY <1>0, <3>2 DEF Reconcile, Owing
    <3>3. CASE Allocate
      <4>1. mu = Reconciler
        BY <1>0, <3>3 DEF Allocate, Critical, ReconcileSteps
      <4> QED  BY <1>0, <3>3, <4>1 DEF Allocate, EndReconcile, Owing
    <3>4. CASE PopQueue
      BY <1>0, <3>4 DEF PopQueue, EndReconcile
    <3>5. CASE CheckQueueable
      <4>1. mu = Reconciler /\ pc[Reconciler] \in Owing
        BY <1>0, <3>5 DEF CheckQueueable, Critical, ReconcileSteps, Owing
      <4> QED  BY <1>0, <3>5, <4>1 DEF CheckQueueable, Leave, Owing
    <3> QED  BY <1>7, <3>1, <3>2, <3>3, <3>4, <3>5
  <2> QED  BY <2>1, <2>2, CountedFrame
<1>8. ASSUME NEW c \in Cancels, (\E r \in Runs : CancelStatus(c, r)) \/ CancelComplete(c)
      PROVE  Counted'
  BY <1>8, CountedFrame DEF CancelStatus, CancelComplete
<1>9. ASSUME NEW pipe \in pipes,
             \/ \E outcome \in {"completed", "failed"} : Finalize(pipe, outcome)
             \/ MarkRunTerminal(pipe) \/ PipeStops(pipe)
      PROVE  Counted'
  BY <1>9, CountedFrame DEF Finalize, MarkRunTerminal, PipeStops
<1>10. ASSUME NEW r \in Runs, Age(r) \/ Expire(r)  PROVE Counted'
  BY <1>10, CountedFrame DEF Age, Expire
<1>11. ASSUME FinalizeKeys \/ UNCHANGED vars  PROVE Counted'
  BY <1>11, CountedFrame DEF FinalizeKeys, vars
<1> QED
  BY NextCases, <1>1, <1>2, <1>3, <1>4, <1>5, <1>6, <1>7, <1>8, <1>9, <1>10, <1>11

(* No run is kicked off more often than Admit was called for it, whatever  *)
(* fails and however often the api restarts: each entry of the queue and   *)
(* each start under way uses up a call of its own.                         *)
THEOREM KickoffsAreCounted == Spec => []KickoffsAreAsked
<1>1. Init => Counted
  <2> SUFFICES ASSUME Init, NEW r \in Runs  PROVE owed[r] >= Entries(queue, r) + Wanted(r)
    BY DEF Counted
  <2>1. {i \in DOMAIN queue : queue[i] = r} = {}
    BY DEF Init
  <2>2. Entries(queue, r) = 0
    BY <2>1, FS_EmptySet DEF Entries
  <2>3. Wanted(r) = 0 /\ owed[r] = 0
    BY ConstantsAssumption DEF Init, Wanted, Procs
  <2> QED  BY <2>2, <2>3
<1>2. Inv /\ Counted /\ [Next]_vars => Counted'
  BY CountedStep
<1>3. Inv /\ Counted => KickoffsAreAsked
  <2> SUFFICES ASSUME Inv, Counted, NEW r \in Runs  PROVE owed[r] >= 0
    BY DEF KickoffsAreAsked
  <2>1. owed[r] \in Int /\ Entries(queue, r) \in Nat /\ Wanted(r) \in {0, 1}
    BY EntriesAreFinite DEF Inv, TypeOK, Wanted
  <2> QED  BY <2>1 DEF Counted
<1> QED  BY Invariant, <1>1, <1>2, <1>3, PTL DEF Spec

-----------------------------------------------------------------------------
(* A completed run that is still live is being put to silence by the       *)
(* mirror, or is being started again.                                      *)
LateSteps == {"room", "pin", "persist", "fail_db", "fail_keys"}

Silencing ==
  \A r \in Runs : status[r] = "completed" /\ Live(r) =>
    \/ \E p \in Procs : arg[p] = r /\ pc[p] \in LateSteps
    \/ mirror = [pc |-> "mark", run |-> r]

(* Only Band fails.                                                        *)
OnlyBandFails == Faults \subseteq {"band"}

AllAlive == \A p \in Procs : alive[p]

LEMMA AliveStep ==
  ASSUME OnlyBandFails, Inv, AllAlive, [Next]_vars
  PROVE  AllAlive'
<1> USE DEF callers, AllAlive
<1>0. alive \in [Procs -> BOOLEAN]
  BY DEF Inv, TypeOK
<1>1. CASE UNCHANGED alive
  BY <1>1
<1>2. ASSUME NEW q \in Reqs, \/ \E r \in Runs : ReceiveStart(q, r)
                            \/ Admit(q) \/ PushQueue(q) \/ MarkQueued(q) \/ HangUp(q)
      PROVE  AllAlive'
  BY <1>0, <1>2 DEF ReceiveStart, Admit, PushQueue, MarkQueued, Leave, HangUp, OnlyBandFails
<1>3. ASSUME NEW p \in Procs, \/ LoadRun(p) \/ Activate(p) \/ StartRoom(p) \/ PinSlot(p)
                             \/ Persist(p) \/ FailRow(p) \/ FailKeys(p)
      PROVE  AllAlive'
  BY <1>0, <1>3 DEF LoadRun, Activate, StartRoom, PinSlot, Persist, FailRow, FailKeys, Leave
<1>4. ASSUME Reconcile \/ Allocate \/ PopQueue \/ PopRun \/ CheckQueueable  PROVE AllAlive'
  BY <1>0, <1>4 DEF Reconcile, Allocate, EndReconcile, PopQueue, PopRun, CheckQueueable, Leave
<1>5. ASSUME NEW c \in Cancels, (\E r \in Runs : CancelStatus(c, r)) \/ CancelComplete(c)
      PROVE  AllAlive'
  BY <1>1, <1>5 DEF CancelStatus, CancelComplete
<1>6. ASSUME NEW pipe \in pipes,
             \/ \E outcome \in {"completed", "failed"} : Finalize(pipe, outcome)
             \/ MarkRunTerminal(pipe) \/ PipeStops(pipe)
      PROVE  AllAlive'
  BY <1>1, <1>6 DEF Finalize, MarkRunTerminal, PipeStops
<1>7. ASSUME NEW r \in Runs, Age(r) \/ Expire(r)  PROVE AllAlive'
  BY <1>1, <1>7 DEF Age, Expire
<1>8. FinalizeKeys \/ Crash \/ UNCHANGED vars => AllAlive'
  BY <1>1 DEF FinalizeKeys, Crash, vars, OnlyBandFails
<1> QED
  BY NextCases, <1>2, <1>3, <1>4, <1>5, <1>6, <1>7, <1>8

(* A caller that has begun to start a run goes on until it has recorded    *)
(* the run as planning, or removed its keys.                               *)
LEMMA LateStep ==
  ASSUME OnlyBandFails, Inv, AllAlive, [Next]_vars, NEW p \in Procs, pc[p] \in LateSteps
  PROVE  \/ pc'[p] \in LateSteps /\ arg'[p] = arg[p]
         \/ status'[arg[p]] = "planning"
         \/ arg[p] \notin active'
<1> DEFINE Goal == \/ pc'[p] \in LateSteps /\ arg'[p] = arg[p]
                   \/ status'[arg[p]] = "planning"
                   \/ arg[p] \notin active'
<1> USE DEF callers, GoTo, LateSteps
<1>0. /\ pc \in [Procs -> PCs] /\ arg \in [Procs -> Runs \union {NoRun}]
      /\ arg[p] \in Runs /\ status \in [Runs -> Statuses]
      /\ \A ok \in Outcomes(p, "db") \union Outcomes(p, "redis") : ok = TRUE
      /\ \A t, u \in Procs : pc[t] \in Critical /\ pc[u] \in Critical => t = u
      /\ pc[p] \in Critical
  BY DEF Inv, TypeOK, LocalsOK, LockOK, RunSteps, StartSteps, FailSteps, Outcomes,
         StoreOutcomes, OnlyBandFails, AllAlive, Critical
<1>1. CASE UNCHANGED <<pc, arg>>
  BY <1>1
<1>2. ASSUME NEW q \in Reqs, \/ \E r \in Runs : ReceiveStart(q, r)
                            \/ Admit(q) \/ PushQueue(q) \/ MarkQueued(q) \/ HangUp(q)
      PROVE  Goal
  BY <1>0, <1>2 DEF ReceiveStart, Admit, PushQueue, MarkQueued, Leave, HangUp, Procs
<1>3. ASSUME NEW t \in Procs, \/ LoadRun(t) \/ Activate(t) \/ StartRoom(t) \/ PinSlot(t)
                             \/ FailRow(t)
      PROVE  Goal
  BY <1>0, <1>3 DEF LoadRun, Activate, StartRoom, PinSlot, FailRow
<1>4. ASSUME NEW t \in Procs, Persist(t)  PROVE Goal
  <2>1. t = p
    BY <1>0, <1>4 DEF Persist, Critical, StartSteps
  <2> QED  BY <1>0, <1>4, <2>1 DEF Persist
<1>5. ASSUME NEW t \in Procs, FailKeys(t)  PROVE Goal
  <2>1. t = p
    BY <1>0, <1>5 DEF FailKeys, Critical, FailSteps
  <2> QED  BY <1>0, <1>5, <2>1 DEF FailKeys
<1>6. ~(Reconcile \/ Allocate \/ PopQueue \/ PopRun \/ CheckQueueable)
      \/ (p # Reconciler /\ pc'[p] = pc[p] /\ arg'[p] = arg[p])
  BY <1>0 DEF Reconcile, Allocate, EndReconcile, PopQueue, PopRun, CheckQueueable, Leave, Procs
<1>7. ASSUME NEW c \in Cancels, (\E r \in Runs : CancelStatus(c, r)) \/ CancelComplete(c)
      PROVE  Goal
  BY <1>1, <1>7 DEF CancelStatus, CancelComplete
<1>8. ASSUME NEW pipe \in pipes,
             \/ \E outcome \in {"completed", "failed"} : Finalize(pipe, outcome)
             \/ MarkRunTerminal(pipe) \/ PipeStops(pipe)
      PROVE  Goal
  BY <1>1, <1>8 DEF Finalize, MarkRunTerminal, PipeStops
<1>9. ASSUME NEW r \in Runs, Age(r) \/ Expire(r)  PROVE Goal
  BY <1>1, <1>9 DEF Age, Expire
<1>10. FinalizeKeys \/ Crash \/ UNCHANGED vars => Goal
  BY <1>1 DEF FinalizeKeys, Crash, vars, OnlyBandFails
<1> QED
  BY NextCases, <1>2, <1>3, <1>4, <1>5, <1>6, <1>7, <1>8, <1>9, <1>10

(* The mirror keeps its run until it has removed the run's keys.           *)
LEMMA MirrorStep ==
  ASSUME OnlyBandFails, Inv, [Next]_vars, NEW r \in Runs, mirror = [pc |-> "mark", run |-> r]
  PROVE  mirror' = mirror \/ r \notin active'
<1> USE DEF callers
<1>1. ASSUME NEW q \in Reqs, \/ \E x \in Runs : ReceiveStart(q, x)
                            \/ Admit(q) \/ PushQueue(q) \/ MarkQueued(q) \/ HangUp(q)
      PROVE  mirror' = mirror
  BY <1>1 DEF ReceiveStart, Admit, PushQueue, MarkQueued, HangUp
<1>2. ASSUME NEW t \in Procs, \/ LoadRun(t) \/ Activate(t) \/ StartRoom(t) \/ PinSlot(t)
                             \/ Persist(t) \/ FailRow(t) \/ FailKeys(t)
      PROVE  mirror' = mirror
  BY <1>2 DEF LoadRun, Activate, StartRoom, PinSlot, Persist, FailRow, FailKeys
<1>3. Reconcile \/ Allocate \/ PopQueue \/ PopRun \/ CheckQueueable => mirror' = mirror
  BY DEF Reconcile, Allocate, EndReconcile, PopQueue, PopRun, CheckQueueable
<1>4. ASSUME NEW c \in Cancels, (\E x \in Runs : CancelStatus(c, x)) \/ CancelComplete(c)
      PROVE  mirror' = mirror
  BY <1>4 DEF CancelStatus, CancelComplete
<1>5. ASSUME NEW pipe \in pipes,
             \/ \E outcome \in {"completed", "failed"} : Finalize(pipe, outcome)
             \/ MarkRunTerminal(pipe) \/ PipeStops(pipe)
      PROVE  mirror' = mirror
  BY <1>5 DEF Finalize, MarkRunTerminal, PipeStops
<1>6. ASSUME NEW x \in Runs, Age(x) \/ Expire(x)  PROVE mirror' = mirror
  BY <1>6 DEF Age, Expire
<1>7. FinalizeKeys => r \notin active'
  BY DEF FinalizeKeys, StoreOutcomes, OnlyBandFails
<1>8. ~Crash /\ (UNCHANGED vars => mirror' = mirror)
  BY DEF Crash, vars, OnlyBandFails
<1> QED
  BY NextCases, <1>1, <1>2, <1>3, <1>4, <1>5, <1>6, <1>7, <1>8

LEMMA SilencingStep ==
  ASSUME OnlyBandFails, Inv, AllAlive, Silencing, [Next]_vars
  PROVE  Silencing'
<1> SUFFICES ASSUME NEW r \in Runs, status'[r] = "completed", Live(r)'
             PROVE  \/ \E p \in Procs : arg'[p] = r /\ pc'[p] \in LateSteps
                    \/ mirror' = [pc |-> "mark", run |-> r]
  BY DEF Silencing
<1>0. r \in active'
  BY DEF Live
<1>1. CASE status[r] # "completed"
  BY <1>1, StatusStep
<1>2. CASE \E p \in Procs : Activate(p) /\ arg[p] = r
  BY <1>2 DEF Activate, GoTo, callers, LateSteps, Inv, TypeOK
<1>3. CASE status[r] = "completed" /\ Live(r)
  <2>1. CASE mirror = [pc |-> "mark", run |-> r]
    BY <1>0, <2>1, MirrorStep
  <2>2. ASSUME NEW p \in Procs, arg[p] = r, pc[p] \in LateSteps
        PROVE  arg'[p] = r /\ pc'[p] \in LateSteps
    BY <1>0, <2>2, LateStep
  <2> QED  BY <1>3, <2>1, <2>2 DEF Silencing
<1> QED  BY <1>1, <1>2, <1>3, StatusStep

(* Once the mirror has recorded a completed run and its keys, no worker    *)
(* takes up a message of that run any more, unless it is being restarted:  *)
(* as long as no client hangs up, the api stays up and the stores answer.  *)
THEOREM CompletedRunsAreSilent ==
  ASSUME OnlyBandFails
  PROVE  Spec => []CompletedIsSilent
<1>1. Init => AllAlive /\ Silencing
  BY DEF Init, AllAlive, Silencing, Live
<1>2. Inv /\ AllAlive /\ Silencing /\ [Next]_vars => AllAlive' /\ Silencing'
  BY AliveStep, SilencingStep
<1>3. Silencing => CompletedIsSilent
  BY DEF Silencing, CompletedIsSilent, Starting, LateSteps, Critical, StartSteps, FailSteps
<1> QED  BY Invariant, <1>1, <1>2, <1>3, PTL DEF Spec

=============================================================================
