------------------------- MODULE BandPipelineProofs -------------------------
(***************************************************************************)
(* Proofs about BandPipeline: its types; that the step key makes every     *)
(* agent run, and hand off, at most once per cycle; that the one baton of  *)
(* the mentions gives a stage the outputs of its own cycle and the review  *)
(* those of the cycle before, and reports what became of the pull request; *)
(* and that the band implements the relay of agents (Pipeline).            *)
(***************************************************************************)
EXTENDS BandPipeline, SequenceTheorems, TLAPS

Line == [from : StepSet \union {Kickoff}, to : Agents, rework : Cycles,
         pr : {"none", "open", "failed"}]

(* What every step of a handler may rely on.                               *)
LEMMA BusyIsPosted ==
  ASSUME TypeOK, NEW m \in Msgs, pc[m] # "idle"
  PROVE  /\ m \in Posted /\ m \in handled
         /\ chat[m] \in Line /\ Step(m) \in StepSet
         /\ chat[m].to \in Agents /\ chat[m].rework \in Cycles
<1>1. m \in handled /\ m \in Posted
  BY DEF TypeOK
<1>2. chat[m] \in Line
  BY <1>1, ElementOfSeq DEF TypeOK, Posted, Line
<1> QED  BY <1>1, <1>2 DEF Line, Step, StepSet

(* resolveNext names an agent, and never a cycle beyond the budget.        *)
LEMMA NextIsAStep ==
  ASSUME NEW step \in StepSet, NEW next \in Successors(step)
  PROVE  next \in StepSet
<1>1. PICK approved \in BOOLEAN : next = ResolveNext(step, approved)
  BY DEF Successors
<1>2. step[1] \in Agents /\ step[2] \in Cycles /\ step[1] # "router"
  BY DEF StepSet, Successors
<1>3. CASE step[1] = "commander" /\ ~approved /\ step[2] < MaxReworks
  <2>1. step[2] + 1 \in Cycles
    BY <1>2, <1>3, ConstantsAssumption DEF Cycles
  <2> QED  BY <1>1, <1>3, <2>1 DEF ResolveNext, StepSet, Agents
<1>4. CASE ~(step[1] = "commander" /\ ~approved /\ step[2] < MaxReworks)
  <2>1. NextRole[step[1]] \in Agents
    BY <1>2 DEF NextRole, Agents
  <2> QED  BY <1>1, <1>2, <1>4, <2>1 DEF ResolveNext, StepSet
<1> QED  BY <1>3, <1>4

(* A message appended to a chat that has room.                             *)
LEMMA AppendIsTyped ==
  ASSUME TypeOK, NEW e \in Line, Len(chat) < MaxChat, chat' = Append(chat, e)
  PROVE  /\ chat' \in Seq(Line) /\ Len(chat') \in Msgs
         /\ Len(chat') = Len(chat) + 1
         /\ \A i \in Posted : chat'[i] = chat[i]
         /\ chat'[Len(chat')] = e
         /\ Posted \subseteq Posted' /\ Posted' = Posted \union {Len(chat')}
<1>1. chat \in Seq(Line) /\ Len(chat) \in Msgs
  BY DEF TypeOK, Line
<1>2. /\ Append(chat, e) \in Seq(Line)
      /\ Len(Append(chat, e)) = Len(chat) + 1
      /\ \A i \in 1 .. Len(chat) : Append(chat, e)[i] = chat[i]
      /\ Append(chat, e)[Len(chat) + 1] = e
  BY <1>1, AppendProperties
<1> QED  BY <1>1, <1>2, ConstantsAssumption DEF Msgs, Posted

(* A handoff posts a message for an agent in a cycle within the budget.    *)
LEMMA PostIsTyped ==
  ASSUME TypeOK, NEW m \in Msgs, pc[m] # "idle",
         NEW next \in Successors(Step(m)), Post(m, next)
  PROVE  /\ chat' \in Seq(Line) /\ Len(chat') \in Msgs
         /\ Len(chat') = Len(chat) + 1
         /\ \A i \in Posted : chat'[i] = chat[i]
         /\ chat'[Len(chat')] = Message(Step(m), next, artifact[m])
         /\ Posted \subseteq Posted' /\ Posted' = Posted \union {Len(chat')}
<1>1. Step(m) \in StepSet
  BY BusyIsPosted
<1>2. next \in StepSet
  BY <1>1, NextIsAStep
<1>3. next[1] \in Agents /\ next[2] \in Cycles /\ artifact[m] \in {"none", "open", "failed"}
  BY <1>2 DEF StepSet, TypeOK
<1>4. Message(Step(m), next, artifact[m]) \in Line
  BY <1>1, <1>3 DEF Message, Line
<1> QED  BY <1>4, AppendIsTyped DEF Post

LEMMA TypeInit == Init => TypeOK
<1> SUFFICES ASSUME Init PROVE TypeOK
  OBVIOUS
<1>1. Message(Kickoff, <<"source_analyzer", 0>>, "none") \in Line
  BY ConstantsAssumption DEF Message, Kickoff, Line, Cycles, Agents
<1>2. chat \in Seq(Line) /\ Len(chat) = 1
  BY <1>1 DEF Init
<1>3. 1 \in Msgs
  BY ConstantsAssumption DEF Msgs
<1>4. active \in BOOLEAN /\ terminal \in BOOLEAN
  BY DEF Init
<1>5. failures \in 0 .. MaxFailures
  BY ConstantsAssumption DEF Init
<1> QED
  BY <1>2, <1>3, <1>4, <1>5 DEF Init, TypeOK, Line, HandlerPCs

(* A write that may have failed leaves the old value or the new one.       *)
LEMMA WrittenIsEither ==
  ASSUME NEW old, NEW new
  PROVE  /\ Written(old, new) \subseteq {old, new}
         /\ "redis" \notin Faults => Written(old, new) = {new}
BY DEF Written

(* Releasing a step deletes its key or leaves the keys as they are.        *)
LEMMA ReleaseOutcome ==
  ASSUME NEW m, ReleaseStep(m)
  PROVE  /\ steps' \in {steps, steps \ {Step(m)}}
         /\ "redis" \notin Faults => steps' = steps \ {Step(m)}
BY WrittenIsEither DEF ReleaseStep

LEMMA TypeStep ==
  ASSUME TypeOK, [Next]_vars
  PROVE  TypeOK'
<1> USE ConstantsAssumption DEF shared, stores, NoFailure
<1>1. ASSUME NEW m \in Msgs, Receive(m)  PROVE TypeOK'
  <2>1. mark' \in [Msgs -> {"pending", "processing", "processed", "failed"}]
    BY <1>1 DEF Receive, Marked, TypeOK
  <2>2. /\ pc' \in [Msgs -> HandlerPCs]
        /\ \A n \in Msgs : pc'[n] # "idle" => n \in handled'
    BY <1>1 DEF Receive, GoTo, TypeOK, HandlerPCs
  <2>3. handled' \subseteq Posted /\ failures' \in 0 .. MaxFailures
    BY <1>1 DEF Receive, Failure, TypeOK
  <2> QED  BY <1>1, <2>1, <2>2, <2>3 DEF Receive, TypeOK, Posted
<1>2. ASSUME NEW m \in Msgs, ClaimStep(m)  PROVE TypeOK'
  <2>1. m \in Posted /\ m \in handled /\ Step(m) \in StepSet
    BY <1>2, BusyIsPosted DEF ClaimStep
  <2>2. mark' \in [Msgs -> {"pending", "processing", "processed", "failed"}]
    BY <1>2 DEF ClaimStep, Marked, TypeOK
  <2>3. /\ pc' \in [Msgs -> HandlerPCs]
        /\ \A k \in Msgs : pc'[k] # "idle" => k \in handled
    BY <1>2, <2>1 DEF ClaimStep, GoTo, TypeOK, HandlerPCs
  <2>4. steps' \subseteq StepSet /\ failures' \in 0 .. MaxFailures
    BY <1>2, <2>1 DEF ClaimStep, Failure, TypeOK
  <2> QED  BY <1>2, <2>2, <2>3, <2>4 DEF ClaimStep, TypeOK, Posted
<1>3. ASSUME NEW m \in Msgs, MarkProcessing(m)  PROVE TypeOK'
  <2>1. m \in Posted /\ m \in handled /\ Step(m) \in StepSet
    BY <1>3, BusyIsPosted DEF MarkProcessing
  <2>2. mark' \in [Msgs -> {"pending", "processing", "processed", "failed"}]
    BY <1>3 DEF MarkProcessing, Marked, TypeOK
  <2>3. /\ pc' \in [Msgs -> HandlerPCs]
        /\ \A k \in Msgs : pc'[k] # "idle" => k \in handled
    BY <1>3, <2>1 DEF MarkProcessing, GoTo, TypeOK, HandlerPCs
  <2>4. steps' \subseteq StepSet /\ failures' \in 0 .. MaxFailures
    BY <1>3, ReleaseOutcome DEF MarkProcessing, Failure, TypeOK
  <2>5. published' \subseteq Posted
    BY <1>3, <2>1 DEF MarkProcessing, TypeOK
  <2> QED  BY <1>3, <2>2, <2>3, <2>4, <2>5 DEF MarkProcessing, TypeOK, Posted
<1>4. ASSUME NEW m \in Msgs, CreatePR(m)  PROVE TypeOK'
  <2>1. m \in handled
    BY <1>4, BusyIsPosted DEF CreatePR
  <2>2. /\ pc' \in [Msgs -> HandlerPCs]
        /\ \A k \in Msgs : pc'[k] # "idle" => k \in handled
    BY <1>4, <2>1 DEF CreatePR, GoTo, TypeOK, HandlerPCs
  <2>3. failures' \in 0 .. MaxFailures
    BY <1>4 DEF CreatePR, Failure, TypeOK
  <2>4. /\ artifact' \in [Msgs -> {"none", "open", "failed"}]
        /\ pr' \in {"none", "branch", "unheard", "open"}
    BY <1>4 DEF CreatePR, Failure, TypeOK
  <2> QED  BY <1>4, <2>2, <2>3, <2>4 DEF CreatePR, TypeOK, Posted
<1>5. ASSUME NEW m \in Msgs, StageSucceeds(m)  PROVE TypeOK'
  <2>1. m \in handled
    BY <1>5, BusyIsPosted DEF StageSucceeds
  <2>2. /\ pc' \in [Msgs -> HandlerPCs]
        /\ \A k \in Msgs : pc'[k] # "idle" => k \in handled
    BY <1>5, <2>1 DEF StageSucceeds, GoTo, TypeOK, HandlerPCs
  <2> QED  BY <1>5, <2>2 DEF StageSucceeds, TypeOK, Posted
<1>6. ASSUME NEW m \in Msgs, StageEndsRun(m)  PROVE TypeOK'
  <2>1. m \in Posted /\ m \in handled /\ Step(m) \in StepSet
    BY <1>6, BusyIsPosted DEF StageEndsRun
  <2>2. mark' \in [Msgs -> {"pending", "processing", "processed", "failed"}]
    BY <1>6 DEF StageEndsRun, Return, Marked, TypeOK
  <2>3. /\ pc' \in [Msgs -> HandlerPCs]
        /\ \A k \in Msgs : pc'[k] # "idle" => k \in handled
    BY <1>6, <2>1 DEF StageEndsRun, Return, GoTo, TypeOK, HandlerPCs
  <2>4. artifact' \in [Msgs -> {"none", "open", "failed"}] /\ failures' \in 0 .. MaxFailures
    BY <1>6 DEF StageEndsRun, Return, Failure, TypeOK
  <2>5. active' \in BOOLEAN /\ terminal' \in BOOLEAN
    BY <1>6 DEF StageEndsRun, Written, TypeOK
  <2> QED  BY <1>6, <2>2, <2>3, <2>4, <2>5 DEF StageEndsRun, TypeOK, Posted
<1>7. ASSUME NEW m \in Msgs, StageFails(m)  PROVE TypeOK'
  <2>1. steps' \subseteq StepSet
    BY <1>7, ReleaseOutcome DEF StageFails, TypeOK
  <2> QED
    BY <1>7, <2>1, BusyIsPosted, SMT DEF StageFails, Marked, Return, GoTo, TypeOK, HandlerPCs, Failure, Posted
<1>8. ASSUME NEW m \in Msgs, Store(m)  PROVE TypeOK'
  <2>1. /\ m \in Posted /\ m \in handled /\ Step(m) \in StepSet
        /\ chat[m].to \in Agents /\ chat[m].rework \in Cycles
    BY <1>8, BusyIsPosted DEF Store, Keep
  <2>2. /\ Filed(m) \in [Producers -> Cycles \union {None}]
        /\ Noted(m) \in [DocWriters -> Cycles \union {None}]
    BY <2>1 DEF Filed, Noted, TypeOK
  <2>3. /\ files' \in [Producers -> Cycles \union {None}]
        /\ prev' \in [Producers -> Cycles \union {None}]
        /\ docs' \in [DocWriters -> Cycles \union {None}]
        /\ failures' \in 0 .. MaxFailures
    BY <1>8, <2>2 DEF Store, Keep, Failure, TypeOK
  <2>4. lost' \subseteq StepSet
    BY <1>8, <2>1 DEF Store, Keep, TypeOK
  <2>5. /\ pc' \in [Msgs -> HandlerPCs]
        /\ \A k \in Msgs : pc'[k] # "idle" => k \in handled
    BY <1>8, <2>1 DEF Store, Keep, GoTo, TypeOK, HandlerPCs
  <2> QED  BY <1>8, <2>3, <2>4, <2>5 DEF Store, Keep, TypeOK, Posted
<1>9. ASSUME NEW m \in Msgs, HandOff(m)  PROVE TypeOK'
  <2>1. m \in Posted /\ m \in handled /\ Step(m) \in StepSet
    BY <1>9, BusyIsPosted DEF HandOff
  <2>2. /\ mark' \in [Msgs -> {"pending", "processing", "processed", "failed"}]
        /\ artifact' \in [Msgs -> {"none", "open", "failed"}]
        /\ failures' \in 0 .. MaxFailures
    BY <1>9 DEF HandOff, FinishProcessed, Marked, Return, Failure, TypeOK
  <2>3. /\ pc' \in [Msgs -> HandlerPCs]
        /\ \A k \in Msgs : pc'[k] # "idle" => k \in handled
    BY <1>9, <2>1 DEF HandOff, FinishProcessed, Return, GoTo, TypeOK, HandlerPCs
  <2>4. chat' \in Seq(Line) /\ Len(chat') \in Msgs /\ Posted \subseteq Posted'
    <3>1. PICK next \in Successors(Step(m)) : Post(m, next)
      BY <1>9 DEF HandOff
    <3> QED  BY <1>9, <2>1, <3>1, PostIsTyped DEF HandOff
  <2> QED  BY <1>9, <2>2, <2>3, <2>4 DEF HandOff, TypeOK, Line
<1>10. ASSUME NEW m \in Msgs, EndOfPipeline(m)  PROVE TypeOK'
  <2>1. m \in Posted /\ m \in handled /\ Step(m) \in StepSet
    BY <1>10, BusyIsPosted DEF EndOfPipeline
  <2>2. /\ mark' \in [Msgs -> {"pending", "processing", "processed", "failed"}]
        /\ artifact' \in [Msgs -> {"none", "open", "failed"}]
        /\ failures' \in 0 .. MaxFailures
    BY <1>10 DEF EndOfPipeline, FinishProcessed, Marked, Return, Failure, TypeOK
  <2>3. /\ pc' \in [Msgs -> HandlerPCs]
        /\ \A k \in Msgs : pc'[k] # "idle" => k \in handled
    BY <1>10, <2>1 DEF EndOfPipeline, FinishProcessed, Return, GoTo, TypeOK, HandlerPCs
  <2> QED  BY <1>10, <2>2, <2>3 DEF EndOfPipeline, TypeOK, Posted
<1>11. ASSUME NEW m \in Msgs, HandOffFails(m)  PROVE TypeOK'
  <2>1. m \in Posted /\ m \in handled /\ Step(m) \in StepSet
    BY <1>11, BusyIsPosted DEF HandOffFails
  <2>2. /\ mark' \in [Msgs -> {"pending", "processing", "processed", "failed"}]
        /\ artifact' \in [Msgs -> {"none", "open", "failed"}]
        /\ failures' \in 0 .. MaxFailures
    BY <1>11 DEF HandOffFails, Marked, Return, Failure, TypeOK
  <2>3. /\ pc' \in [Msgs -> HandlerPCs]
        /\ \A k \in Msgs : pc'[k] # "idle" => k \in handled
    BY <1>11, <2>1 DEF HandOffFails, Return, GoTo, TypeOK, HandlerPCs
  <2>4. chat' \in Seq(Line) /\ Len(chat') \in Msgs /\ Posted \subseteq Posted'
    <3>1. CASE UNCHANGED chat
      BY <3>1 DEF TypeOK, Line, Posted
    <3>2. CASE \E next \in Successors(Step(m)) : Post(m, next)
      <4>1. PICK next \in Successors(Step(m)) : Post(m, next)
        BY <3>2
      <4> QED  BY <1>11, <2>1, <4>1, PostIsTyped DEF HandOffFails
    <3> QED  BY <1>11, <3>1, <3>2 DEF HandOffFails
  <2>5. steps' \subseteq StepSet
    BY <1>11, ReleaseOutcome DEF HandOffFails, TypeOK
  <2> QED  BY <1>11, <2>2, <2>3, <2>4, <2>5 DEF HandOffFails, TypeOK, Line
<1>12. ASSUME NEW m \in Msgs, Mirror(m)  PROVE TypeOK'
  <2>1. /\ active' \in BOOLEAN /\ terminal' \in BOOLEAN
        /\ status' \in {"planning", "completed", "failed", "ended"}
    BY <1>12 DEF Mirror, Written, TypeOK
  <2> QED  BY <1>12, <2>1 DEF Mirror, TypeOK, Posted
<1>13. ASSUME NEW m \in Msgs, LosePublished(m)  PROVE TypeOK'
  BY <1>13, BusyIsPosted, SMT DEF LosePublished, TypeOK, HandlerPCs, Failure, Posted
<1>14. ASSUME Restart  PROVE TypeOK'
  BY <1>14, BusyIsPosted, SMT DEF Restart, TypeOK, HandlerPCs, Failure, Posted
<1>15. ASSUME KickoffAgain  PROVE TypeOK'
  <2>1. Message(Kickoff, <<"source_analyzer", 0>>, "none") \in Line
    BY DEF Message, Line, Cycles, Agents
  <2>2. chat' \in Seq(Line) /\ Len(chat') \in Msgs /\ Posted \subseteq Posted'
    BY <1>15, <2>1, AppendIsTyped DEF KickoffAgain
  <2>3. failures' \in 0 .. MaxFailures
    BY <1>15 DEF KickoffAgain, Failure, TypeOK
  <2> QED  BY <1>15, <2>2, <2>3 DEF KickoffAgain, TypeOK, Line
<1>16. ASSUME EndedByApi  PROVE TypeOK'
  <2>1. active' \in BOOLEAN /\ terminal' \in BOOLEAN
    BY <1>16 DEF EndedByApi, Written, TypeOK
  <2>2. failures' \in 0 .. MaxFailures
    BY <1>16 DEF EndedByApi, Failure, TypeOK
  <2> QED  BY <1>16, <2>1, <2>2 DEF EndedByApi, TypeOK, Posted
<1>17. CASE UNCHANGED vars
  BY <1>17 DEF vars, TypeOK, Posted
<1> QED
  BY <1>1, <1>2, <1>3, <1>4, <1>5, <1>6, <1>7, <1>8, <1>9, <1>10, <1>11, <1>12, <1>13, <1>14, <1>15, <1>16, <1>17 DEF Next, HandlerStep

(* Every reachable state of a run is well typed: the rework cycle stays    *)
(* within the budget, and a handler only works on a message that exists.   *)
THEOREM TypeCorrect == Spec => []TypeOK
<1> QED  BY TypeInit, TypeStep, PTL DEF Spec

-----------------------------------------------------------------------------
(* A working handler's step has its key; a step that has handed off keeps  *)
(* its key for ever, and nobody works on it again.                         *)
KeyHeld == \A m \in Posted : pc[m] \in Working => Step(m) \in steps

SentIsOver ==
  \A n \in Posted : chat[n].from # Kickoff =>
    /\ chat[n].from \in steps
    /\ \A m \in Posted : pc[m] \in Working => Step(m) # chat[n].from

Once == StepExclusive /\ HandoffOnce /\ KeyHeld /\ SentIsOver

(* SETNX does not fail, and an error of SendMessage is the truth.          *)
KeysAreTrue == Faults \cap {"redis", "sendlost"} = {}

LEMMA PostedAreMsgs ==
  ASSUME TypeOK
  PROVE  Posted \subseteq Msgs /\ Len(chat) + 1 \notin Posted
BY ConstantsAssumption DEF TypeOK, Posted, Msgs

(* A step that starts no work, posts nothing and leaves the keys alone.    *)
LEMMA OnceFrame ==
  ASSUME Once, UNCHANGED <<chat, steps>>,
         \A m \in Posted : pc'[m] \in Working => pc[m] \in Working
  PROVE  Once'
BY DEF Once, StepExclusive, HandoffOnce, KeyHeld, SentIsOver, Step, Posted

(* Only the handler that won the key deletes it, and it stops working.     *)
LEMMA OnceRelease ==
  ASSUME KeysAreTrue, TypeOK, Once, NEW m \in Msgs, pc[m] \in Working,
         ReleaseStep(m), GoTo(m, "idle"), UNCHANGED chat
  PROVE  Once'
<1>1. m \in Posted
  BY BusyIsPosted DEF Working
<1>2. /\ \A n \in Posted \ {m} : pc'[n] = pc[n]
      /\ pc'[m] \notin Working
  BY <1>1 DEF GoTo, TypeOK, Working, Posted
<1>3. /\ Posted' = Posted
      /\ \A n \in Posted : Step(n)' = Step(n) /\ chat'[n] = chat[n]
  BY DEF Step, Posted
<1>4. steps' = steps \ {Step(m)}
  BY ReleaseOutcome DEF KeysAreTrue
<1>5. StepExclusive' /\ HandoffOnce'
  BY <1>2, <1>3 DEF Once, StepExclusive, HandoffOnce
<1>6. KeyHeld'
  BY <1>1, <1>2, <1>3, <1>4 DEF Once, StepExclusive, KeyHeld
<1>7. SentIsOver'
  BY <1>1, <1>2, <1>3, <1>4 DEF Once, SentIsOver
<1> QED  BY <1>5, <1>6, <1>7 DEF Once

LEMMA OnceInit == Init => Once
<1> SUFFICES ASSUME Init PROVE Once
  OBVIOUS
<1>1. Posted = {1} /\ chat[1].from = Kickoff /\ pc[1] = "idle"
  BY ConstantsAssumption DEF Init, Posted, Message, Msgs
<1> QED
  BY <1>1 DEF Once, StepExclusive, HandoffOnce, KeyHeld, SentIsOver, Working

LEMMA OnceStep ==
  ASSUME KeysAreTrue, TypeOK, TypeOK', Once, [Next]_vars
  PROVE  Once'
<1> USE DEF shared, stores
<1>1. ASSUME NEW m \in Msgs,
             \/ Receive(m) \/ CreatePR(m) \/ StageSucceeds(m) \/ StageEndsRun(m)
             \/ Store(m) \/ EndOfPipeline(m) \/ Mirror(m) \/ LosePublished(m)
      PROVE  Once'
  <2>1. UNCHANGED <<chat, steps>>
    BY <1>1 DEF Receive, CreatePR, StageSucceeds, StageEndsRun, Store, Keep, EndOfPipeline,
                Mirror, LosePublished
  <2>2. \/ UNCHANGED pc
        \/ GoTo(m, "claim") \/ GoTo(m, "idle")
        \/ pc[m] \in Working /\ (GoTo(m, "stage") \/ GoTo(m, "store") \/ GoTo(m, "send"))
    BY <1>1 DEF Receive, CreatePR, StageSucceeds, StageEndsRun, Store, Keep, EndOfPipeline,
                Mirror, LosePublished, FinishProcessed, Return, Working, HandlerPCs
  <2>3. \A n \in Posted : pc'[n] \in Working => pc[n] \in Working
    BY <2>2, PostedAreMsgs DEF GoTo, Working, TypeOK
  <2> QED  BY <2>1, <2>3, OnceFrame
<1>2. ASSUME Restart \/ EndedByApi \/ UNCHANGED vars  PROVE Once'
  <2>1. UNCHANGED <<chat, steps>>
    BY <1>2 DEF Restart, EndedByApi, vars
  <2>2. \A n \in Posted : pc'[n] \in Working => pc[n] \in Working
    BY <1>2, PostedAreMsgs DEF Restart, EndedByApi, vars, Working, TypeOK
  <2> QED  BY <2>1, <2>2, OnceFrame
<1>3. ASSUME NEW m \in Msgs, ClaimStep(m)  PROVE Once'
  <2>1. m \in Posted /\ Step(m) \in StepSet /\ pc[m] = "claim" /\ pc[m] \notin Working
    BY <1>3, BusyIsPosted DEF ClaimStep, Working
  <2>2. CASE Step(m) \in steps
    <3>1. UNCHANGED <<chat, steps>> /\ GoTo(m, "idle")
      BY <1>3, <2>2 DEF ClaimStep, Failure, KeysAreTrue
    <3>2. \A n \in Posted : pc'[n] \in Working => pc[n] \in Working
      BY <3>1 DEF GoTo, Working, TypeOK, Posted
    <3> QED  BY <3>1, <3>2, OnceFrame
  <2>3. CASE Step(m) \notin steps
    <3>1. UNCHANGED chat /\ steps' = steps \union {Step(m)} /\ GoTo(m, "marking")
      BY <1>3, <2>3 DEF ClaimStep, Failure, KeysAreTrue
    <3>2. \A n \in Posted \ {m} : pc'[n] = pc[n]
      BY <3>1 DEF GoTo, TypeOK, Posted
    <3>3. /\ Posted' = Posted
          /\ \A n \in Posted : Step(n)' = Step(n) /\ chat'[n] = chat[n]
      BY <3>1 DEF Step, Posted
    <3>4. StepExclusive' /\ HandoffOnce'
      BY <2>3, <3>2, <3>3 DEF Once, StepExclusive, HandoffOnce, KeyHeld
    <3>5. KeyHeld'
      BY <3>1, <3>2, <3>3 DEF Once, KeyHeld
    <3>6. SentIsOver'
      BY <2>3, <3>1, <3>2, <3>3 DEF Once, SentIsOver
    <3> QED  BY <3>4, <3>5, <3>6 DEF Once
  <2> QED  BY <2>2, <2>3
<1>4. ASSUME NEW m \in Msgs, MarkProcessing(m)  PROVE Once'
  <2>1. pc[m] \in Working
    BY <1>4 DEF MarkProcessing, Working, HandlerPCs
  <2>2. CASE ReleaseStep(m) /\ GoTo(m, "idle")
    BY <1>4, <2>1, <2>2, OnceRelease DEF MarkProcessing
  <2>3. CASE UNCHANGED steps /\ (GoTo(m, "pr") \/ GoTo(m, "stage"))
    <3>1. \A n \in Posted : pc'[n] \in Working => pc[n] \in Working
      BY <2>1, <2>3, PostedAreMsgs DEF GoTo, TypeOK
    <3> QED  BY <1>4, <2>3, <3>1, OnceFrame DEF MarkProcessing
  <2> QED  BY <1>4, <2>2, <2>3 DEF MarkProcessing
<1>5. ASSUME NEW m \in Msgs, StageFails(m)  PROVE Once'
  BY <1>5, OnceRelease DEF StageFails, Return, Working, HandlerPCs
<1>6. ASSUME NEW m \in Msgs, HandOffFails(m)  PROVE Once'
  <2>1. UNCHANGED chat
    BY <1>6 DEF HandOffFails, Failure, KeysAreTrue
  <2> QED  BY <1>6, <2>1, OnceRelease DEF HandOffFails, Return, Working, HandlerPCs
<1>7. ASSUME NEW m \in Msgs, HandOff(m)  PROVE Once'
  <2>1. pc[m] = "send" /\ pc[m] \in Working /\ UNCHANGED steps
    BY <1>7 DEF HandOff, Working, HandlerPCs
  <2>2. m \in Posted /\ Step(m) \in StepSet
    BY <2>1, BusyIsPosted
  <2>3. PICK next \in Successors(Step(m)) : Post(m, next)
    BY <1>7 DEF HandOff
  <2>4. /\ \A i \in Posted : chat'[i] = chat[i] /\ Step(i)' = Step(i)
        /\ chat'[Len(chat')].from = Step(m)
        /\ Posted' = Posted \union {Len(chat')}
    <3>1. /\ \A i \in Posted : chat'[i] = chat[i]
          /\ chat'[Len(chat')] = Message(Step(m), next, artifact[m])
          /\ Posted' = Posted \union {Len(chat')}
      BY <2>1, <2>3, PostIsTyped
    <3>2. Message(Step(m), next, artifact[m]).from = Step(m)
      BY DEF Message
    <3> QED  BY <3>1, <3>2 DEF Step
  <2>5. /\ \A n \in Msgs \ {m} : pc'[n] = pc[n]
        /\ pc'[m] = "idle"
    BY <1>7 DEF HandOff, FinishProcessed, Return, GoTo, TypeOK
  <2>6. Len(chat') \notin Posted /\ Len(chat') \in Msgs /\ Posted \subseteq Msgs
    BY <2>1, <2>3, PostIsTyped, PostedAreMsgs
  <2>7. pc'[Len(chat')] = "idle"
    BY <2>5, <2>6 DEF TypeOK
  <2>8. \A n \in Posted' : pc'[n] \in Working => n \in Posted \ {m} /\ pc[n] \in Working
    BY <2>4, <2>5, <2>6, <2>7 DEF Working
  <2>9. Step(m) \in steps /\ \A n \in Posted : chat[n].from # Step(m)
    <3>1. Step(m) # Kickoff
      BY <2>2 DEF StepSet, Agents, Kickoff
    <3> QED  BY <2>1, <2>2, <3>1 DEF Once, KeyHeld, SentIsOver
  <2>10. StepExclusive'
    BY <2>4, <2>8 DEF Once, StepExclusive
  <2>11. HandoffOnce'
    BY <2>4, <2>9 DEF Once, HandoffOnce
  <2>12. KeyHeld'
    BY <2>1, <2>4, <2>8 DEF Once, KeyHeld
  <2>13. SentIsOver'
    <3>1. \A n \in Posted \ {m} : pc[n] \in Working => Step(n) # Step(m)
      BY <2>1, <2>2 DEF Once, StepExclusive
    <3> QED  BY <2>1, <2>4, <2>8, <2>9, <3>1 DEF Once, SentIsOver
  <2> QED  BY <2>10, <2>11, <2>12, <2>13 DEF Once
<1>8. ASSUME KickoffAgain  PROVE Once'
  <2>1. Message(Kickoff, <<"source_analyzer", 0>>, "none") \in Line
    BY ConstantsAssumption DEF Message, Line, Cycles, Agents
  <2>2. /\ \A i \in Posted : chat'[i] = chat[i] /\ Step(i)' = Step(i)
        /\ chat'[Len(chat')].from = Kickoff
        /\ Posted' = Posted \union {Len(chat')}
    <3>1. /\ \A i \in Posted : chat'[i] = chat[i]
          /\ chat'[Len(chat')] = Message(Kickoff, <<"source_analyzer", 0>>, "none")
          /\ Posted' = Posted \union {Len(chat')}
      BY <1>8, <2>1, AppendIsTyped DEF KickoffAgain
    <3>2. Message(Kickoff, <<"source_analyzer", 0>>, "none").from = Kickoff
      BY DEF Message
    <3> QED  BY <3>1, <3>2 DEF Step
  <2>3. Len(chat') \notin Posted /\ Len(chat') \in Msgs
    BY <1>8, <2>1, AppendIsTyped, PostedAreMsgs DEF KickoffAgain
  <2>4. UNCHANGED <<pc, steps>>
    BY <1>8 DEF KickoffAgain
  <2>5. \A n \in Posted' : pc'[n] \in Working => n \in Posted /\ pc[n] \in Working
    BY <2>2, <2>3, <2>4 DEF TypeOK, Working
  <2> QED
    BY <2>2, <2>4, <2>5 DEF Once, StepExclusive, HandoffOnce, KeyHeld, SentIsOver
<1> QED
  BY <1>1, <1>2, <1>3, <1>4, <1>5, <1>6, <1>7, <1>8 DEF Next, HandlerStep

LEMMA OnceInvariant ==
  ASSUME KeysAreTrue
  PROVE  Spec => []Once
<1>1. Init => Once
  BY OnceInit
<1>2. TypeOK /\ TypeOK' /\ Once /\ [Next]_vars => Once'
  BY OnceStep
<1> QED  BY TypeCorrect, <1>1, <1>2, PTL DEF Spec

(* No two handlers work on the same step at once, whatever the rework      *)
(* budget, the length of the chat and the number of failures: failing      *)
(* stages, failing marks, restarts, a second kickoff and an api that ends  *)
(* the run included.                                                       *)
THEOREM StepsAreExclusive ==
  ASSUME KeysAreTrue
  PROVE  Spec => []StepExclusive
<1>1. Once => StepExclusive
  BY DEF Once
<1> QED  BY OnceInvariant, <1>1, PTL

(* No step hands off twice in the life of a run.                           *)
THEOREM HandsOffOnce ==
  ASSUME KeysAreTrue
  PROVE  Spec => []HandoffOnce
<1>1. Once => HandoffOnce
  BY DEF Once
<1> QED  BY OnceInvariant, <1>1, PTL

-----------------------------------------------------------------------------
(* The steps asked for in the chat and the steps that have handed off.     *)
Asked == {Step(m) : m \in Posted}
Sent  == {chat[n].from : n \in Posted} \ {Kickoff}

(* Progress: later stages and later cycles rank higher.                    *)
Place ==
  [source_analyzer |-> 1, business_logic |-> 2, code_generator |-> 3,
   db_migration |-> 4, test_generator |-> 5, reviewer |-> 6, commander |-> 7,
   github_connector |-> 8, router |-> 9]
Rank(s) == 10 * s[2] + Place[s[1]]

(* The one step that was asked for and has not handed off: it is the       *)
(* furthest the run has come.                                              *)
TheOther(A, S) == CHOOSE b \in A : A \ S = {b}
Baton == TheOther(Asked, Sent)

OneBaton ==
  /\ Asked \ Sent = {Baton}
  /\ Sent \subseteq Asked
  /\ Asked \subseteq StepSet
  /\ <<"source_analyzer", 0>> \in Asked
  /\ \A s \in Sent : Rank(s) < Rank(Baton)


LEMMA TheOtherIs ==
  ASSUME NEW A, NEW S, NEW b, A \ S = {b}
  PROVE  TheOther(A, S) = b
<1>1. b \in A /\ \A c \in A : A \ S = {c} => c = b
  OBVIOUS
<1> QED  BY <1>1 DEF TheOther

(* Where resolveNext leads: to the next stage of the line, the migration   *)
(* of the database left out or not, or back to the code generator.         *)
LEMMA WhereNext ==
  ASSUME NEW step \in StepSet, NEW next \in Successors(step)
  PROVE  /\ next \in StepSet
         /\ \/ /\ step[1] = "commander" /\ step[2] < MaxReworks
               /\ next = <<"code_generator", step[2] + 1>>
            \/ /\ next[2] = step[2]
               /\ Place[step[1]] < 9
               /\ \/ Place[next[1]] = Place[step[1]] + 1
                  \/ step[1] = "code_generator" /\ next[1] = "test_generator"
<1>1. PICK approved \in BOOLEAN : next = ResolveNext(step, approved)
  BY DEF Successors
<1>2. step[1] \in Agents /\ step[1] # "router" /\ next \in StepSet
  BY NextIsAStep DEF StepSet, Successors
<1>3. CASE step[1] = "commander" /\ ~approved /\ step[2] < MaxReworks
  BY <1>1, <1>2, <1>3 DEF ResolveNext
<1>4. CASE ~(step[1] = "commander" /\ ~approved /\ step[2] < MaxReworks)
  <2>1. next = <<NextRole[step[1]], step[2]>>
    BY <1>1, <1>4 DEF ResolveNext
  <2>2. \/ Place[NextRole[step[1]]] = Place[step[1]] + 1
        \/ step[1] = "code_generator" /\ NextRole[step[1]] = "test_generator"
    BY <1>2, ConstantsAssumption DEF NextRole, Place, Agents
  <2>3. Place[step[1]] < 9
    BY <1>2 DEF Place, Agents
  <2> QED  BY <1>2, <2>1, <2>2, <2>3
<1> QED  BY <1>3, <1>4

LEMMA RankIsNat ==
  ASSUME NEW step \in StepSet
  PROVE  /\ step[2] \in Nat /\ step[1] \in Agents /\ step = <<step[1], step[2]>>
         /\ Place[step[1]] \in 1 .. 9
         /\ Rank(step) \in Nat
<1>1. step[2] \in Nat /\ step[1] \in Agents /\ step = <<step[1], step[2]>>
  BY DEF StepSet, Cycles
<1>2. Place[step[1]] \in 1 .. 9
  BY <1>1 DEF Agents, Place
<1> QED  BY <1>1, <1>2 DEF Rank

LEMMA NextRanksHigher ==
  ASSUME NEW step \in StepSet, NEW next \in Successors(step)
  PROVE  Rank(next) > Rank(step)
<1>1. next \in StepSet
  BY WhereNext
<1>2. CASE step[1] = "commander" /\ next = <<"code_generator", step[2] + 1>>
  BY <1>1, <1>2, RankIsNat DEF Rank, Place
<1>3. CASE next[2] = step[2] /\ Place[next[1]] = Place[step[1]] + 1
  BY <1>1, <1>3, RankIsNat DEF Rank
<1>4. CASE next[2] = step[2] /\ step[1] = "code_generator" /\ next[1] = "test_generator"
  BY <1>1, <1>4, RankIsNat DEF Rank, Place
<1> QED  BY <1>2, <1>3, <1>4, WhereNext

(* Whoever is at work holds the baton, and nobody else is at work.         *)
LEMMA WorkerHasBaton ==
  ASSUME TypeOK, Once, OneBaton, NEW m \in Msgs, pc[m] \in Working
  PROVE  /\ m \in Posted /\ Step(m) = Baton /\ Baton \in StepSet /\ Baton \in steps
         /\ chat[m].to = Baton[1] /\ chat[m].rework = Baton[2]
         /\ \A n \in Posted : pc[n] \in Working => n = m
<1>1. m \in Posted /\ Step(m) \in StepSet
  BY BusyIsPosted DEF Working
<1>2. Step(m) \in Asked
  BY <1>1 DEF Asked
<1>3. Step(m) \notin Sent
  BY <1>1 DEF Sent, Once, SentIsOver
<1>4. Step(m) = Baton
  BY <1>2, <1>3 DEF OneBaton
<1>5. \A n \in Posted : pc[n] \in Working => n = m
  <2> SUFFICES ASSUME NEW n \in Posted, pc[n] \in Working PROVE n = m
    OBVIOUS
  <2>1. n \in Msgs /\ Step(n) \in Asked /\ Step(n) \notin Sent
    BY PostedAreMsgs DEF Asked, Sent, Once, SentIsOver
  <2>2. Step(n) = Baton
    BY <2>1 DEF OneBaton
  <2> QED  BY <1>1, <1>4, <2>2 DEF Once, StepExclusive
<1>6. Step(m) \in steps
  BY <1>1 DEF Once, KeyHeld
<1>7. chat[m].to = Baton[1] /\ chat[m].rework = Baton[2]
  BY <1>4 DEF Step
<1> QED  BY <1>1, <1>4, <1>5, <1>6, <1>7

(* The handoff of the baton: to a successor, of a higher rank.             *)
LEMMA HandOffMovesBaton ==
  ASSUME TypeOK, Once, OneBaton, NEW m \in Msgs, HandOff(m)
  PROVE  /\ Step(m) = Baton /\ Baton \in StepSet
         /\ Baton' \in Successors(Baton)
         /\ Rank(Baton') > Rank(Baton)
         /\ Asked' = Asked \union {Baton'}
         /\ Sent' = Sent \union {Baton}
         /\ Posted' = Posted \union {Len(chat')}
         /\ \A i \in Posted : chat'[i] = chat[i]
         /\ chat'[Len(chat')] = Message(Baton, Baton', artifact[m])
         /\ Len(chat') \notin Posted /\ Len(chat') \in Msgs
<1>1. pc[m] = "send" /\ pc[m] \in Working
  BY DEF HandOff, Working, HandlerPCs
<1>2. m \in Posted /\ Step(m) = Baton /\ Baton \in StepSet
  BY <1>1, WorkerHasBaton
<1>3. PICK next \in Successors(Step(m)) : Post(m, next)
  BY DEF HandOff
<1>4. /\ Posted' = Posted \union {Len(chat')}
      /\ \A i \in Posted : chat'[i] = chat[i]
      /\ chat'[Len(chat')] = Message(Baton, next, artifact[m])
      /\ Len(chat') \in Msgs /\ Len(chat') \notin Posted
  BY <1>1, <1>2, <1>3, PostIsTyped, PostedAreMsgs
<1>5. next \in StepSet /\ Rank(next) > Rank(Baton)
  BY <1>2, <1>3, WhereNext, NextRanksHigher
<1>6. /\ chat'[Len(chat')].from = Baton
      /\ <<chat'[Len(chat')].to, chat'[Len(chat')].rework>> = next
  <2>1. next = <<next[1], next[2]>>
    BY <1>5 DEF StepSet
  <2>2. /\ Message(Baton, next, artifact[m]).from = Baton
        /\ Message(Baton, next, artifact[m]).to = next[1]
        /\ Message(Baton, next, artifact[m]).rework = next[2]
    BY DEF Message
  <2> QED  BY <1>4, <2>1, <2>2
<1>7. \A i \in Posted : <<chat'[i].to, chat'[i].rework>> = Step(i)
  BY <1>4 DEF Step
<1>8. Asked' = Asked \union {next}
  <2>1. Asked' = {<<chat'[i].to, chat'[i].rework>> : i \in Posted'}
    BY DEF Asked, Step
  <2> QED  BY <1>4, <1>6, <1>7, <2>1 DEF Asked
<1>9. Sent' = Sent \union {Baton}
  <2>1. Baton # Kickoff
    BY <1>2 DEF StepSet, Agents, Kickoff
  <2> QED  BY <1>4, <1>6, <2>1 DEF Sent
<1>10. \A s \in Asked : Rank(s) \in Nat /\ Rank(s) <= Rank(Baton)
  BY <1>2, RankIsNat DEF OneBaton
<1>11. next \notin Asked
  BY <1>2, <1>5, <1>10, RankIsNat
<1>12. Asked' \ Sent' = {next}
  BY <1>8, <1>9, <1>11 DEF OneBaton
<1>13. Baton' = next
  BY <1>12, TheOtherIs DEF Baton
<1> QED  BY <1>2, <1>3, <1>4, <1>5, <1>8, <1>9, <1>13

LEMMA BatonInit == Init => OneBaton
<1> SUFFICES ASSUME Init PROVE OneBaton
  OBVIOUS
<1>1. Posted = {1} /\ Step(1) = <<"source_analyzer", 0>> /\ chat[1].from = Kickoff
  BY DEF Init, Posted, Message, Step
<1>2. Asked = {<<"source_analyzer", 0>>} /\ Sent = {}
  BY <1>1 DEF Asked, Sent
<1>3. Asked \ Sent = {<<"source_analyzer", 0>>}
  BY <1>2
<1>4. Baton = <<"source_analyzer", 0>>
  BY <1>3, TheOtherIs DEF Baton
<1>5. <<"source_analyzer", 0>> \in StepSet
  BY ConstantsAssumption DEF StepSet, Agents, Cycles
<1> QED  BY <1>2, <1>3, <1>4, <1>5 DEF OneBaton

(* Every other step leaves the baton where it is: a second kickoff asks    *)
(* for a step that was asked for already.                                  *)
LEMMA BatonStays ==
  ASSUME KeysAreTrue, TypeOK, OneBaton, [Next]_vars, \A m \in Msgs : ~HandOff(m)
  PROVE  /\ Asked' = Asked /\ Sent' = Sent /\ Baton' = Baton
         /\ \/ UNCHANGED chat
            \/ KickoffAgain /\ Posted' = Posted \union {Len(chat')}
               /\ (\A i \in Posted : chat'[i] = chat[i])
               /\ chat'[Len(chat')] = Message(Kickoff, <<"source_analyzer", 0>>, "none")
               /\ Len(chat') \notin Posted /\ Len(chat') \in Msgs
<1>1. UNCHANGED chat \/ KickoffAgain
  BY DEF Next, HandlerStep, Receive, ClaimStep, MarkProcessing, CreatePR, StageSucceeds,
         StageEndsRun, StageFails, Store, EndOfPipeline, HandOffFails, Mirror, LosePublished,
         Restart, EndedByApi, KeysAreTrue, Failure, vars, shared, stores, Keep
<1>2. CASE UNCHANGED chat
  <2>1. Asked' = Asked /\ Sent' = Sent
    BY <1>2 DEF Asked, Sent, Posted, Step
  <2> QED  BY <1>2, <2>1 DEF Baton
<1>3. CASE KickoffAgain
  <2>1. Message(Kickoff, <<"source_analyzer", 0>>, "none") \in Line
    BY ConstantsAssumption DEF Message, Line, Cycles, Agents
  <2>2. /\ Posted' = Posted \union {Len(chat')}
        /\ \A i \in Posted : chat'[i] = chat[i]
        /\ chat'[Len(chat')] = Message(Kickoff, <<"source_analyzer", 0>>, "none")
        /\ Len(chat') \notin Posted /\ Len(chat') \in Msgs
    BY <1>3, <2>1, AppendIsTyped, PostedAreMsgs DEF KickoffAgain
  <2>3. /\ \A i \in Posted : <<chat'[i].to, chat'[i].rework>> = Step(i)
        /\ <<chat'[Len(chat')].to, chat'[Len(chat')].rework>> = <<"source_analyzer", 0>>
        /\ chat'[Len(chat')].from = Kickoff
    BY <2>2 DEF Step, Message
  <2>4. Asked' = Asked \union {<<"source_analyzer", 0>>}
    <3>1. Asked' = {<<chat'[i].to, chat'[i].rework>> : i \in Posted'}
      BY DEF Asked, Step
    <3> QED  BY <2>2, <2>3, <3>1 DEF Asked
  <2>5. Sent' = Sent
    BY <2>2, <2>3 DEF Sent
  <2>6. Asked' = Asked
    BY <2>4 DEF OneBaton
  <2> QED  BY <1>3, <2>2, <2>5, <2>6 DEF Baton
<1> QED  BY <1>1, <1>2, <1>3

LEMMA BatonStep ==
  ASSUME KeysAreTrue, TypeOK, Once, OneBaton, [Next]_vars
  PROVE  OneBaton'
<1>1. CASE \A m \in Msgs : ~HandOff(m)
  <2>1. Asked' = Asked /\ Sent' = Sent /\ Baton' = Baton
    BY <1>1, BatonStays
  <2> QED  BY <2>1 DEF OneBaton
<1>2. ASSUME NEW m \in Msgs, HandOff(m)  PROVE OneBaton'
  <2>1. /\ Baton \in StepSet /\ Baton' \in Successors(Baton) /\ Rank(Baton') > Rank(Baton)
        /\ Asked' = Asked \union {Baton'} /\ Sent' = Sent \union {Baton}
    BY <1>2, HandOffMovesBaton
  <2>2. Baton' \in StepSet
    BY <2>1, WhereNext
  <2>3. \A s \in Asked : Rank(s) \in Nat /\ Rank(s) <= Rank(Baton)
    BY <2>1, RankIsNat DEF OneBaton
  <2>4. Baton' \notin Asked /\ Rank(Baton') \in Nat
    BY <2>1, <2>2, <2>3, RankIsNat
  <2>5. \A s \in Sent' : Rank(s) < Rank(Baton')
    BY <2>1, <2>3, <2>4 DEF OneBaton
  <2>6. Asked' \ Sent' = {Baton'} /\ Sent' \subseteq Asked' /\ Asked' \subseteq StepSet
    BY <2>1, <2>2, <2>4 DEF OneBaton
  <2>7. \A s \in Sent' : Rank(s)' < Rank(Baton)'
    BY <2>5 DEF Rank
  <2> QED  BY <2>1, <2>6, <2>7 DEF OneBaton
<1> QED  BY <1>1, <1>2

-----------------------------------------------------------------------------
(* What the stages before the baton have left in the stores.               *)
Inputs ==
  LET k == Baton[2]  p == Place[Baton[1]] IN
  /\ k > 0 => p >= 3
  /\ Rank(Baton) > 1 => Result("source_analyzer", 0)
  /\ Rank(Baton) > 2 => Result("business_logic", 0)
  /\ p > 3 => Result("code_generator", k)
  /\ p > 5 => Result("test_generator", k)
  /\ p > 6 => Result("reviewer", k)

Stored ==
  /\ \A m \in Posted : pc[m] = "send" => Result(chat[m].to, chat[m].rework)
  /\ "store" \notin Faults => \A a \in Producers, k \in Cycles : <<a, k>> \notin lost

(* Storing a result leaves those of the other agents as they are, and its  *)
(* own is stored or counts as lost.                                        *)
LEMMA StoreOutcome ==
  ASSUME TypeOK, NEW m \in Msgs, Store(m), chat[m].to \in Agents, chat[m].rework \in Cycles
  PROVE  /\ Result(chat[m].to, chat[m].rework)'
         /\ \A x \in Agents \ {chat[m].to}, j \in Cycles : Result(x, j) => Result(x, j)'
         /\ "store" \notin Faults =>
              /\ files' = Filed(m)
              /\ lost' \subseteq lost \union ((DocWriters \ Producers) \X Cycles)
<1> DEFINE a == chat[m].to  k == chat[m].rework
<1>1. files \in [Producers -> Cycles \union {None}] /\ docs \in [DocWriters -> Cycles \union {None}]
  BY DEF TypeOK
<1>2. /\ UNCHANGED chat
      /\ files' \in {files, Filed(m)} /\ docs' \in {docs, Noted(m)}
      /\ lost' = IF files' = Filed(m) /\ docs' = Noted(m) THEN lost \ {<<a, k>>}
                 ELSE lost \union {<<a, k>>}
  BY DEF Store, Keep, Step
<1>3. /\ a \in Producers => Filed(m)[a] = k
      /\ a \in DocWriters => Noted(m)[a] = k
      /\ \A x \in Producers \ {a} : Filed(m)[x] = files[x]
      /\ \A x \in DocWriters \ {a} : Noted(m)[x] = docs[x]
  BY <1>1 DEF Filed, Noted
<1>4. Result(a, k)'
  <2>1. CASE files' = Filed(m) /\ docs' = Noted(m)
    BY <1>2, <1>3, <2>1 DEF Result
  <2>2. CASE ~(files' = Filed(m) /\ docs' = Noted(m))
    <3>1. <<a, k>> \in lost'
      BY <1>2, <2>2
    <3> QED  BY <1>2, <3>1 DEF Result
  <2> QED  BY <2>1, <2>2
<1>5. ASSUME NEW x \in Agents \ {a}, NEW j \in Cycles, Result(x, j)  PROVE Result(x, j)'
  <2>1. <<x, j>> \in lost => <<x, j>> \in lost'
    BY <1>2
  <2>2. /\ x \in Producers => files'[x] = files[x]
        /\ x \in DocWriters => docs'[x] = docs[x]
    BY <1>2, <1>3
  <2> QED  BY <1>5, <2>1, <2>2 DEF Result
<1>6. ASSUME "store" \notin Faults
      PROVE  /\ files' = Filed(m)
             /\ lost' \subseteq lost \union ((DocWriters \ Producers) \X Cycles)
  <2>1. CASE files' = Filed(m) /\ docs' = Noted(m)
    BY <1>2, <2>1
  <2>2. CASE a \in DocWriters \ Producers /\ files' = files
    BY <1>2, <2>2 DEF Filed
  <2> QED  BY <1>6, <2>1, <2>2 DEF Store, Keep, Failure
<1> QED  BY <1>4, <1>5, <1>6

(* Only Store writes the shared stores, and only after it a stage sends.   *)
LEMMA OnlyStoreStores ==
  ASSUME TypeOK, [Next]_vars, \A m \in Msgs : ~Store(m)
  PROVE  /\ UNCHANGED <<files, prev, docs, lost>>
         /\ \A m \in Msgs : pc'[m] = "send" => pc[m] = "send"
<1> USE DEF shared, stores, TypeOK
<1>1. ASSUME NEW m \in Msgs,
             \/ Receive(m) \/ ClaimStep(m) \/ MarkProcessing(m) \/ CreatePR(m)
             \/ StageSucceeds(m) \/ StageEndsRun(m) \/ StageFails(m)
      PROVE  /\ UNCHANGED <<files, prev, docs, lost>>
             /\ \A n \in Msgs : pc'[n] = "send" => pc[n] = "send"
  <2>1. UNCHANGED <<files, prev, docs, lost>>
    BY <1>1 DEF Receive, ClaimStep, MarkProcessing, CreatePR, StageSucceeds, StageEndsRun,
                StageFails
  <2>2. UNCHANGED pc \/ \E l \in HandlerPCs \ {"send"} : GoTo(m, l)
    BY <1>1 DEF Receive, ClaimStep, MarkProcessing, CreatePR, StageSucceeds, StageEndsRun,
                StageFails, Return, HandlerPCs
  <2> QED  BY <2>1, <2>2 DEF GoTo
<1>2. ASSUME NEW m \in Msgs,
             \/ HandOff(m) \/ EndOfPipeline(m) \/ HandOffFails(m)
             \/ Mirror(m) \/ LosePublished(m)
      PROVE  /\ UNCHANGED <<files, prev, docs, lost>>
             /\ \A n \in Msgs : pc'[n] = "send" => pc[n] = "send"
  <2>1. UNCHANGED <<files, prev, docs, lost>>
    BY <1>2 DEF HandOff, EndOfPipeline, HandOffFails, Mirror, LosePublished
  <2>2. UNCHANGED pc \/ GoTo(m, "idle")
    BY <1>2 DEF HandOff, EndOfPipeline, HandOffFails, Mirror, LosePublished,
                FinishProcessed, Return
  <2> QED  BY <2>1, <2>2 DEF GoTo
<1>3. ASSUME Restart \/ KickoffAgain \/ EndedByApi \/ UNCHANGED vars
      PROVE  /\ UNCHANGED <<files, prev, docs, lost>>
             /\ \A n \in Msgs : pc'[n] = "send" => pc[n] = "send"
  BY <1>3 DEF Restart, KickoffAgain, EndedByApi, vars
<1> QED  BY <1>1, <1>2, <1>3 DEF Next, HandlerStep

LEMMA InputsInit == Init => Inputs /\ Stored
<1> SUFFICES ASSUME Init PROVE Inputs /\ Stored
  OBVIOUS
<1>1. Asked = {<<"source_analyzer", 0>>} /\ Sent = {}
  <2>1. Posted = {1} /\ Step(1) = <<"source_analyzer", 0>> /\ chat[1].from = Kickoff
    BY DEF Init, Posted, Message, Step
  <2> QED  BY <2>1 DEF Asked, Sent
<1>2. Baton = <<"source_analyzer", 0>>
  <2>1. Asked \ Sent = {<<"source_analyzer", 0>>}
    BY <1>1
  <2> QED  BY <2>1, TheOtherIs DEF Baton
<1>3. Rank(Baton) = 1 /\ Place[Baton[1]] = 1 /\ Baton[2] = 0
  BY <1>2 DEF Rank, Place
<1>4. lost = {} /\ \A m \in Msgs : pc[m] = "idle"
  BY DEF Init
<1>5. \A m \in Posted : pc[m] = "idle"
  BY <1>4, TypeInit, PostedAreMsgs
<1> QED  BY <1>3, <1>4, <1>5 DEF Inputs, Stored

LEMMA InputsStep ==
  ASSUME KeysAreTrue, TypeOK, Once, OneBaton, Inputs, Stored, [Next]_vars
  PROVE  Inputs' /\ Stored'
<1>1. ASSUME NEW m \in Msgs, Store(m)  PROVE Inputs' /\ Stored'
  <2> DEFINE a == chat[m].to  k == chat[m].rework
  <2>1. pc[m] \in Working /\ pc[m] = "store"
    BY <1>1 DEF Store, Keep, Working, HandlerPCs
  <2>2. /\ m \in Posted /\ a = Baton[1] /\ k = Baton[2] /\ Baton \in StepSet
        /\ \A n \in Posted : pc[n] \in Working => n = m
    BY <2>1, WorkerHasBaton
  <2>3. Baton' = Baton /\ UNCHANGED chat /\ Posted' = Posted
    BY <1>1 DEF Baton, Asked, Sent, Step, Posted, Store, Keep
  <2>4. a \in Agents /\ k \in Cycles /\ k \in Nat /\ 0 \in Cycles
    BY <2>2, RankIsNat, ConstantsAssumption DEF StepSet, Cycles
  <2>5. /\ Result(a, k)'
        /\ \A x \in Agents \ {a}, j \in Cycles : Result(x, j) => Result(x, j)'
        /\ "store" \notin Faults => lost' \subseteq lost \union ((DocWriters \ Producers) \X Cycles)
    BY <1>1, <2>4, StoreOutcome
  <2>6. pc' = [pc EXCEPT ![m] = "send"]
    BY <1>1 DEF Store, Keep, GoTo
  <2>7. pc \in [Msgs -> HandlerPCs] /\ Posted \subseteq Msgs
    BY PostedAreMsgs DEF TypeOK
  <2>8. Stored'
    <3>1. \A n \in Posted : pc'[n] = "send" => n = m
      BY <2>2, <2>6, <2>7 DEF Working, HandlerPCs
    <3>2. \A n \in Posted : pc'[n] = "send" => Result(chat[n].to, chat[n].rework)'
      BY <2>5, <3>1
    <3>3. ASSUME "store" \notin Faults, NEW x \in Producers, NEW j \in Cycles
          PROVE  <<x, j>> \notin lost'
      BY <2>5, <3>3 DEF Stored
    <3> QED  BY <2>3, <3>2, <3>3 DEF Stored
  <2>9. Inputs'
    <3>1. Rank(Baton) = 10 * k + Place[a] /\ Rank(Baton)' = Rank(Baton)
      BY <2>2, <2>3 DEF Rank
    <3>3. /\ Rank(Baton) > 1 => Result("source_analyzer", 0) /\ a # "source_analyzer"
          /\ Rank(Baton) > 2 => Result("business_logic", 0) /\ a # "business_logic"
      <4>1. a = "source_analyzer" => Place[a] = 1
        BY DEF Place
      <4>2. a = "business_logic" => Place[a] = 2
        BY DEF Place
      <4>3. k = 0 \/ Place[a] >= 3
        BY <2>2, <2>4 DEF Inputs
      <4> QED  BY <2>4, <3>1, <4>1, <4>2, <4>3 DEF Inputs
    <3>4. /\ Place[a] > 3 => Result("code_generator", k) /\ a # "code_generator"
          /\ Place[a] > 5 => Result("test_generator", k) /\ a # "test_generator"
          /\ Place[a] > 6 => Result("reviewer", k) /\ a # "reviewer"
          /\ k > 0 => Place[a] >= 3
      BY <2>2 DEF Inputs, Place
    <3>5. /\ "source_analyzer" \in Agents /\ "business_logic" \in Agents
          /\ "code_generator" \in Agents /\ "test_generator" \in Agents
          /\ "reviewer" \in Agents
      BY DEF Agents
    <3>6. /\ Rank(Baton) > 1 => Result("source_analyzer", 0)'
          /\ Rank(Baton) > 2 => Result("business_logic", 0)'
      <4> HIDE DEF a, k
      <4> QED  BY <2>4, <2>5, <3>3, <3>5
    <3>7. ASSUME NEW j, j = k
          PROVE  /\ Place[a] > 3 => Result("code_generator", j)'
                 /\ Place[a] > 5 => Result("test_generator", j)'
                 /\ Place[a] > 6 => Result("reviewer", j)'
      <4> HIDE DEF a, k
      <4> QED  BY <2>4, <2>5, <3>4, <3>5, <3>7
    <3>8. Baton'[2] = k /\ Baton'[1] = a
      BY <2>2, <2>3
    <3> QED  BY <2>3, <3>1, <3>4, <3>6, <3>7, <3>8 DEF Inputs, Result
  <2> QED  BY <2>8, <2>9
<1>2. CASE \A m \in Msgs : ~Store(m) /\ ~HandOff(m)
  <2>1. /\ UNCHANGED <<files, prev, docs, lost>> /\ Baton' = Baton
        /\ \A m \in Msgs : pc'[m] = "send" => pc[m] = "send"
    BY <1>2, OnlyStoreStores, BatonStays
  <2>2. \A n \in Posted' : pc'[n] = "send" => n \in Posted /\ chat'[n] = chat[n]
    <3>1. CASE UNCHANGED chat
      BY <3>1 DEF Posted
    <3>2. CASE KickoffAgain /\ Posted' = Posted \union {Len(chat')}
               /\ (\A i \in Posted : chat'[i] = chat[i])
               /\ Len(chat') \notin Posted /\ Len(chat') \in Msgs
      BY <2>1, <3>2 DEF TypeOK
    <3> QED  BY <1>2, <3>1, <3>2, BatonStays
  <2>3. \A n \in Posted : n \in Msgs
    BY PostedAreMsgs
  <2>4. Stored'
    BY <2>1, <2>2, <2>3 DEF Stored, Result
  <2> QED  BY <2>1, <2>4 DEF Inputs, Rank, Result
<1>3. ASSUME NEW m \in Msgs, HandOff(m)  PROVE Inputs' /\ Stored'
  <2>1. pc[m] = "send" /\ pc[m] \in Working
    BY <1>3 DEF HandOff, Working, HandlerPCs
  <2>2. /\ m \in Posted /\ Step(m) = Baton /\ Baton \in StepSet
        /\ chat[m].to = Baton[1] /\ chat[m].rework = Baton[2]
        /\ \A n \in Posted : pc[n] \in Working => n = m
    BY <2>1, WorkerHasBaton
  <2>3. /\ Baton' \in Successors(Baton)
        /\ Posted' = Posted \union {Len(chat')}
        /\ \A i \in Posted : chat'[i] = chat[i]
        /\ Len(chat') \notin Posted /\ Len(chat') \in Msgs
    BY <1>3, HandOffMovesBaton
  <2>4. UNCHANGED <<files, prev, docs, lost>> /\ pc' = [pc EXCEPT ![m] = "idle"]
    BY <1>3 DEF HandOff, FinishProcessed, Return, GoTo, shared, stores
  <2>5. Stored'
    <3>1. \A n \in Posted' : pc'[n] # "send"
      BY <2>2, <2>3, <2>4, PostedAreMsgs DEF Working, HandlerPCs, TypeOK
    <3> QED  BY <2>4, <3>1 DEF Stored
  <2>6. Result(Baton[1], Baton[2])
    BY <2>1, <2>2 DEF Stored
  <2>7. Inputs'
    <3> DEFINE b == Baton  c == Baton'
    <3>1. b \in StepSet /\ c \in StepSet /\ c \in Successors(b)
      BY <2>2, <2>3, WhereNext
    <3>2. \/ b[1] = "commander" /\ c[1] = "code_generator" /\ c[2] = b[2] + 1
          \/ c[2] = b[2] /\ Place[c[1]] = Place[b[1]] + 1
          \/ c[2] = b[2] /\ b[1] = "code_generator" /\ c[1] = "test_generator"
      BY <3>1, WhereNext
    <3>3. /\ b[2] \in Nat /\ b[1] \in Agents /\ c[1] \in Agents
          /\ b[2] # None
      BY <3>1, RankIsNat DEF None
    <3>5. /\ Rank(b) = 10 * b[2] + Place[b[1]]
          /\ Rank(c) = 10 * c[2] + Place[c[1]]
      BY DEF Rank
    <3>4. \A x, j : Result(x, j)' = Result(x, j)
      BY <2>4 DEF Result
    <3>6. Inputs' = LET kk == c[2]  p == Place[c[1]] IN
            /\ kk > 0 => p >= 3
            /\ Rank(c) > 1 => Result("source_analyzer", 0)
            /\ Rank(c) > 2 => Result("business_logic", 0)
            /\ p > 3 => Result("code_generator", kk)
            /\ p > 5 => Result("test_generator", kk)
            /\ p > 6 => Result("reviewer", kk)
      <4>1. Rank(Baton)' = Rank(c)
        BY DEF Rank
      <4> QED  BY <3>4, <4>1 DEF Inputs
    <3>7. CASE b[1] = "commander" /\ c[1] = "code_generator" /\ c[2] = b[2] + 1
      BY <3>3, <3>5, <3>6, <3>7 DEF Inputs, Place
    <3>8. CASE c[2] = b[2] /\ b[1] = "code_generator" /\ c[1] = "test_generator"
      BY <2>6, <3>3, <3>5, <3>6, <3>8 DEF Inputs, Place
    <3>9. CASE c[2] = b[2] /\ Place[c[1]] = Place[b[1]] + 1
      <4>1. Place[b[1]] \in 1 .. 8
        BY <3>3, <3>9 DEF Place, Agents
      <4>2. Rank(c) = Rank(b) + 1 /\ Rank(b) \in Nat
        BY <3>1, <3>5, <3>9, RankIsNat
      <4>3. /\ Place[b[1]] = 1 => b[1] = "source_analyzer"
            /\ Place[b[1]] = 2 => b[1] = "business_logic"
            /\ Place[b[1]] = 3 => b[1] = "code_generator"
            /\ Place[b[1]] = 5 => b[1] = "test_generator"
            /\ Place[b[1]] = 6 => b[1] = "reviewer"
        BY <3>3 DEF Place, Agents
      <4>4. /\ Rank(b) = 1 => Place[b[1]] = 1
            /\ Rank(b) = 2 => Place[b[1]] = 2
        BY <3>3, <3>5, <4>1
      <4> QED
        BY <2>6, <3>3, <3>6, <3>9, <4>1, <4>2, <4>3, <4>4 DEF Inputs
    <3> QED  BY <3>2, <3>7, <3>8, <3>9
  <2> QED  BY <2>5, <2>7
<1> QED  BY <1>1, <1>2, <1>3

LEMMA BatonInvariant ==
  ASSUME KeysAreTrue
  PROVE  Spec => [](TypeOK /\ Once /\ OneBaton /\ Inputs /\ Stored)
<1>1. Init => OneBaton /\ Inputs /\ Stored
  BY BatonInit, InputsInit
<1>2. TypeOK /\ Once /\ OneBaton /\ Inputs /\ Stored /\ [Next]_vars => (OneBaton /\ Inputs /\ Stored)'
  BY BatonStep, InputsStep
<1> QED  BY TypeCorrect, OnceInvariant, <1>1, <1>2, PTL DEF Spec

(* Every stage reads what its own cycle has produced: the holder of the    *)
(* baton is the only one at work, and what stands behind it in the line    *)
(* has stored its result in this cycle, unless the model gave it none or   *)
(* Redis did not take it.                                                  *)
THEOREM InputsAreCurrent ==
  ASSUME KeysAreTrue
  PROVE  Spec => []InputsOfThisCycle
<1>1. ASSUME TypeOK, Once, OneBaton, Inputs  PROVE InputsOfThisCycle
  <2> SUFFICES ASSUME NEW m \in Posted, pc[m] = "stage"
               PROVE  /\ chat[m].to = "business_logic" => Result("source_analyzer", 0)
                      /\ chat[m].to \in {"code_generator", "db_migration",
                                         "test_generator", "reviewer"} =>
                           Result("business_logic", 0)
                      /\ chat[m].to = "reviewer" =>
                           \A a \in Producers : Result(a, chat[m].rework)
                      /\ chat[m].to = "commander" => Result("reviewer", chat[m].rework)
    BY DEF InputsOfThisCycle
  <2>1. pc[m] \in Working /\ m \in Msgs
    BY <1>1, PostedAreMsgs DEF Working, HandlerPCs
  <2>2. Baton \in StepSet /\ chat[m].to = Baton[1] /\ chat[m].rework = Baton[2]
    BY <1>1, <2>1, WorkerHasBaton
  <2>3. Rank(Baton) = 10 * Baton[2] + Place[Baton[1]] /\ Baton[2] \in Nat
    BY <2>2, RankIsNat DEF Rank
  <2>4. CASE chat[m].to \in {"business_logic", "code_generator", "db_migration"}
    BY <1>1, <2>2, <2>3, <2>4 DEF Inputs, Place
  <2>5. CASE chat[m].to \in {"test_generator", "commander"}
    BY <1>1, <2>2, <2>3, <2>5 DEF Inputs, Place
  <2>6. CASE chat[m].to = "reviewer"
    <3>1. Place[Baton[1]] = 6
      BY <2>2, <2>6 DEF Place
    <3>2. Result("code_generator", Baton[2]) /\ Result("test_generator", Baton[2])
      BY <1>1, <3>1 DEF Inputs
    <3>3. Rank(Baton) > 2 /\ Result("business_logic", 0)
      BY <1>1, <2>3, <3>1 DEF Inputs
    <3> QED  BY <2>2, <2>6, <3>2, <3>3 DEF Producers
  <2> QED  BY <2>4, <2>5, <2>6
<1> QED  BY BatonInvariant, <1>1, PTL

-----------------------------------------------------------------------------
(* How work goes on between two handoffs, when Band takes every handoff:   *)
(* nobody leaves "send" but to end, work starts by winning the free key of *)
(* the baton, and the key is freed before the stage is done.               *)
LEMMA WorkGoesOn ==
  ASSUME KeysAreTrue, "send" \notin Faults, TypeOK, Once, OneBaton, [Next]_vars,
         \A m \in Msgs : ~HandOff(m)
  PROVE  /\ \A n \in Posted' : pc'[n] \in Working =>
              /\ n \in Posted
              /\ \/ /\ pc[n] \in Working
                    /\ pc[n] = "send" => pc'[n] = "send"
                    /\ pc'[n] \in {"marking", "pr"} => pc[n] \in {"marking", "pr"}
                 \/ Baton \notin steps
         /\ \/ steps' = steps
            \/ Baton \notin steps
            \/ \E m \in Posted : /\ pc[m] \in {"marking", "stage"}
                                 /\ "stage" \notin Faults => pc[m] = "marking"
<1> DEFINE Goal == /\ \A n \in Posted' : pc'[n] \in Working =>
                        /\ n \in Posted
                        /\ \/ /\ pc[n] \in Working
                              /\ pc[n] = "send" => pc'[n] = "send"
                              /\ pc'[n] \in {"marking", "pr"} => pc[n] \in {"marking", "pr"}
                           \/ Baton \notin steps
                   /\ \/ steps' = steps
                      \/ Baton \notin steps
                      \/ \E m \in Posted : /\ pc[m] \in {"marking", "stage"}
                                           /\ "stage" \notin Faults => pc[m] = "marking"
<1> USE DEF shared, stores, Working, HandlerPCs
<1>0. Posted \subseteq Msgs /\ pc \in [Msgs -> HandlerPCs]
  BY PostedAreMsgs DEF TypeOK
<1>1. ASSUME NEW m \in Msgs,
             \/ Receive(m) \/ CreatePR(m) \/ StageSucceeds(m) \/ StageEndsRun(m)
             \/ Store(m) \/ EndOfPipeline(m) \/ Mirror(m) \/ LosePublished(m)
      PROVE  Goal
  <2>1. UNCHANGED <<chat, steps>>
    BY <1>1 DEF Receive, CreatePR, StageSucceeds, StageEndsRun, Store, Keep, EndOfPipeline,
                Mirror, LosePublished
  <2>2. \/ UNCHANGED pc
        \/ GoTo(m, "claim") \/ GoTo(m, "idle")
        \/ pc[m] = "pr" /\ GoTo(m, "stage")
        \/ pc[m] = "stage" /\ GoTo(m, "store")
        \/ pc[m] = "store" /\ GoTo(m, "send")
    BY <1>1 DEF Receive, CreatePR, StageSucceeds, StageEndsRun, Store, Keep, EndOfPipeline,
                Mirror, LosePublished, FinishProcessed, Return
  <2>3. \A n \in Posted : pc'[n] \in Working =>
          /\ pc[n] \in Working
          /\ pc[n] = "send" => pc'[n] = "send"
          /\ pc'[n] \in {"marking", "pr"} => pc[n] \in {"marking", "pr"}
    BY <1>0, <2>2 DEF GoTo
  <2> QED  BY <2>1, <2>3 DEF Posted
<1>2. ASSUME Restart \/ EndedByApi \/ UNCHANGED vars  PROVE Goal
  <2>1. UNCHANGED <<chat, steps>>
    BY <1>2 DEF Restart, EndedByApi, vars
  <2>2. \A n \in Posted : pc'[n] \in Working => pc'[n] = pc[n]
    BY <1>0, <1>2 DEF Restart, EndedByApi, vars
  <2> QED  BY <2>1, <2>2 DEF Posted
<1>3. ASSUME KickoffAgain  PROVE Goal
  <2>1. UNCHANGED <<steps, pc>>
    BY <1>3 DEF KickoffAgain
  <2>2. /\ Posted' = Posted \union {Len(chat')}
        /\ Len(chat') \notin Posted /\ Len(chat') \in Msgs
    <3>1. Message(Kickoff, <<"source_analyzer", 0>>, "none") \in Line
      BY ConstantsAssumption DEF Message, Line, Cycles, Agents
    <3> QED  BY <1>3, <3>1, AppendIsTyped, PostedAreMsgs DEF KickoffAgain
  <2>3. \A n \in Posted' : pc'[n] \in Working => n \in Posted
    BY <2>1, <2>2 DEF TypeOK
  <2> QED  BY <2>1, <2>3
<1>4. ASSUME NEW m \in Msgs, ClaimStep(m)  PROVE Goal
  <2>1. m \in Posted /\ pc[m] = "claim" /\ UNCHANGED chat
    BY <1>4, BusyIsPosted DEF ClaimStep
  <2>2. CASE Step(m) \in steps
    <3>1. UNCHANGED steps /\ GoTo(m, "idle")
      BY <1>4, <2>2 DEF ClaimStep, Failure, KeysAreTrue
    <3>2. \A n \in Posted : pc'[n] \in Working => pc'[n] = pc[n]
      BY <1>0, <3>1 DEF GoTo
    <3> QED  BY <2>1, <3>1, <3>2 DEF Posted
  <2>3. CASE Step(m) \notin steps
    <3>1. Step(m) \in Asked /\ Step(m) \notin Sent
      BY <2>1, <2>3 DEF Asked, Sent, Once, SentIsOver
    <3>2. Baton \notin steps
      BY <2>3, <3>1 DEF OneBaton
    <3> QED  BY <2>1, <3>2 DEF Posted
  <2> QED  BY <2>2, <2>3
<1>5. ASSUME NEW m \in Msgs, MarkProcessing(m)  PROVE Goal
  <2>1. m \in Posted /\ pc[m] = "marking" /\ UNCHANGED chat
    BY <1>5, BusyIsPosted DEF MarkProcessing
  <2>2. GoTo(m, "pr") \/ GoTo(m, "stage") \/ GoTo(m, "idle")
    BY <1>5 DEF MarkProcessing
  <2>3. \A n \in Posted : pc'[n] \in Working =>
          /\ pc[n] \in Working
          /\ pc[n] = "send" => pc'[n] = "send"
          /\ pc'[n] \in {"marking", "pr"} => pc[n] \in {"marking", "pr"}
    BY <1>0, <2>1, <2>2 DEF GoTo
  <2> QED  BY <2>1, <2>3 DEF Posted
<1>6. ASSUME NEW m \in Msgs, StageFails(m)  PROVE Goal
  <2>1. m \in Posted /\ pc[m] = "stage" /\ UNCHANGED chat /\ "stage" \in Faults
    BY <1>6, BusyIsPosted DEF StageFails, Failure
  <2>2. GoTo(m, "idle")
    BY <1>6 DEF StageFails, Return
  <2>3. \A n \in Posted : pc'[n] \in Working => pc'[n] = pc[n]
    BY <1>0, <2>2 DEF GoTo
  <2> QED  BY <2>1, <2>3 DEF Posted
<1>7. ASSUME NEW m \in Msgs, HandOffFails(m)  PROVE Goal
  BY <1>7 DEF HandOffFails, Failure, KeysAreTrue
<1> QED
  BY <1>1, <1>2, <1>3, <1>4, <1>5, <1>6, <1>7 DEF Next, HandlerStep

(* On a rework the code generator finds the files of the last cycle, and   *)
(* saves them before it replaces them, once.                               *)
Snapshot ==
  LET k == Baton[2]  p == Place[Baton[1]] IN
  k > 0 =>
    /\ p >= 3
    /\ p > 3 => prev["code_generator"] = k - 1
    /\ p = 3 => \/ files["code_generator"] = k - 1
                \/ /\ prev["code_generator"] = k - 1
                   /\ Baton \in steps
                   /\ \A m \in Posted : pc[m] \in Working => pc[m] = "send"
    /\ \A m \in Posted : p = 3 /\ pc[m] = "send" => prev["code_generator"] = k - 1

LEMMA SnapshotInit == Init => Snapshot
<1> SUFFICES ASSUME Init PROVE Snapshot
  OBVIOUS
<1>1. OneBaton
  BY BatonInit
<1>2. Posted = {1} /\ Step(1) = <<"source_analyzer", 0>>
  BY DEF Init, Posted, Message, Step
<1>3. Baton = <<"source_analyzer", 0>>
  BY <1>1, <1>2 DEF OneBaton, Asked
<1> QED  BY <1>3 DEF Snapshot

LEMMA SnapshotStep ==
  ASSUME KeysAreTrue, "send" \notin Faults, "store" \notin Faults,
         TypeOK, Once, OneBaton, Inputs, Stored, Snapshot, [Next]_vars
  PROVE  Snapshot'
<1>0. Posted \subseteq Msgs /\ pc \in [Msgs -> HandlerPCs]
  BY PostedAreMsgs DEF TypeOK
<1>1. ASSUME NEW m \in Msgs, Store(m)  PROVE Snapshot'
  <2> DEFINE a == chat[m].to  k == chat[m].rework
  <2>1. pc[m] \in Working /\ pc[m] = "store"
    BY <1>1 DEF Store, Keep, Working, HandlerPCs
  <2>2. /\ m \in Posted /\ a = Baton[1] /\ k = Baton[2] /\ Baton \in StepSet /\ Baton \in steps
        /\ \A n \in Posted : pc[n] \in Working => n = m
    BY <2>1, WorkerHasBaton
  <2>3. Baton' = Baton /\ Posted' = Posted /\ steps' = steps /\ pc' = [pc EXCEPT ![m] = "send"]
    BY <1>1 DEF Baton, Asked, Sent, Step, Posted, Store, Keep, GoTo
  <2>7. a \in Agents /\ k \in Nat /\ k \in Cycles
    BY <2>2, RankIsNat DEF StepSet
  <2>4. /\ files' = IF a \in Producers THEN [files EXCEPT ![a] = k] ELSE files
        /\ prev' = IF a = "code_generator" /\ k > 0 /\ ~NoFiles THEN files ELSE prev
    <3>1. files' = Filed(m)
      BY <1>1, <2>7, StoreOutcome
    <3>2. "code_generator" \in Producers
      BY DEF Producers
    <3> QED  BY <1>1, <3>1, <3>2 DEF Store, Keep, Failure, Filed
  <2>5. files \in [Producers -> Cycles \union {None}]
    BY DEF TypeOK
  <2>6. \A n \in Posted : pc'[n] \in Working => pc'[n] = "send"
    BY <1>0, <2>2, <2>3
  <2>8. CASE a = "code_generator" /\ k > 0
    <3>1. files["code_generator"] = k - 1
      BY <2>1, <2>2, <2>8 DEF Snapshot, Place
    <3>2. ~NoFiles
      BY <2>7, <2>8, <3>1 DEF NoFiles, Producers, None
    <3>3. prev'["code_generator"] = k - 1
      BY <2>4, <2>8, <3>1, <3>2
    <3> QED  BY <2>2, <2>3, <2>6, <2>8, <3>3 DEF Snapshot, Place
  <2>9. CASE ~(a = "code_generator" /\ k > 0)
    <3>1. prev' = prev
      BY <2>4, <2>9
    <3>2. Place[a] = 3 => a = "code_generator"
      BY <2>7 DEF Place, Agents
    <3> QED  BY <2>2, <2>3, <2>7, <2>9, <3>1, <3>2 DEF Snapshot
  <2> QED  BY <2>8, <2>9
<1>2. CASE \A m \in Msgs : ~Store(m) /\ ~HandOff(m)
  <2>1. /\ UNCHANGED <<files, prev, docs, lost>> /\ Baton' = Baton
        /\ \A m \in Msgs : pc'[m] = "send" => pc[m] = "send"
    BY <1>2, OnlyStoreStores, BatonStays
  <2>2. \A n \in Posted' : pc'[n] = "send" => n \in Posted /\ pc[n] = "send"
    BY <1>0, <1>2, <2>1, WorkGoesOn DEF Working, HandlerPCs
  <2>3. ASSUME Baton \in steps, \A m \in Posted : pc[m] \in Working => pc[m] = "send"
        PROVE  /\ Baton \in steps'
               /\ \A m \in Posted' : pc'[m] \in Working => pc'[m] = "send"
    <3>1. \A m \in Posted : pc[m] \notin {"marking", "stage"}
      BY <2>3 DEF Working, HandlerPCs
    <3>2. steps' = steps
      BY <1>2, <2>3, <3>1, WorkGoesOn
    <3>3. \A n \in Posted' : pc'[n] \in Working =>
            n \in Posted /\ pc[n] \in Working /\ (pc[n] = "send" => pc'[n] = "send")
      BY <1>2, <2>3, WorkGoesOn
    <3> QED  BY <2>3, <3>2, <3>3
  <2> QED  BY <2>1, <2>2, <2>3 DEF Snapshot
<1>3. ASSUME NEW m \in Msgs, HandOff(m)  PROVE Snapshot'
  <2>1. pc[m] = "send" /\ pc[m] \in Working
    BY <1>3 DEF HandOff, Working, HandlerPCs
  <2>2. /\ m \in Posted /\ Step(m) = Baton /\ Baton \in StepSet
        /\ \A n \in Posted : pc[n] \in Working => n = m
    BY <2>1, WorkerHasBaton
  <2>3. /\ Baton' \in Successors(Baton)
        /\ Posted' = Posted \union {Len(chat')}
        /\ Len(chat') \notin Posted /\ Len(chat') \in Msgs
    BY <1>3, HandOffMovesBaton
  <2>4. UNCHANGED <<files, prev, docs, lost>> /\ pc' = [pc EXCEPT ![m] = "idle"]
    BY <1>3 DEF HandOff, FinishProcessed, Return, GoTo, shared, stores
  <2>5. \A n \in Posted' : pc'[n] # "send"
    BY <1>0, <2>2, <2>3, <2>4 DEF Working, HandlerPCs, TypeOK
  <2> DEFINE b == Baton  c == Baton'
  <2>6. c \in StepSet /\ b[1] \in Agents /\ c[1] \in Agents /\ b[2] \in Nat /\ c[2] \in Nat
    BY <2>2, <2>3, WhereNext, RankIsNat
  <2>7. CASE b[1] = "commander" /\ c[1] = "code_generator" /\ c[2] = b[2] + 1
    <3>1. files["code_generator"] = b[2]
      <4>1. Result("code_generator", b[2])
        BY <2>7 DEF Inputs, Place
      <4>2. "code_generator" \in Producers /\ b[2] \in Cycles
        BY <2>2 DEF Producers, StepSet
      <4> QED  BY <4>1, <4>2 DEF Stored, Result
    <3> QED  BY <2>4, <2>5, <2>6, <2>7, <3>1 DEF Snapshot, Place
  <2>8. CASE c[2] = b[2] /\ (Place[c[1]] = Place[b[1]] + 1
                              \/ (b[1] = "code_generator" /\ c[1] = "test_generator"))
    <3>1. c[2] > 0 => Place[b[1]] >= 3 /\ prev["code_generator"] = c[2] - 1
      BY <2>1, <2>2, <2>6, <2>8 DEF Snapshot, Place, Agents
    <3>2. Place[c[1]] \in 1 .. 9 /\ (c[2] > 0 => Place[c[1]] > 3)
      BY <2>6, <2>8, <3>1 DEF Place, Agents
    <3> QED  BY <2>4, <2>5, <3>1, <3>2 DEF Snapshot
  <2>9. \/ b[1] = "commander" /\ c[1] = "code_generator" /\ c[2] = b[2] + 1
        \/ c[2] = b[2] /\ Place[c[1]] = Place[b[1]] + 1
        \/ c[2] = b[2] /\ b[1] = "code_generator" /\ c[1] = "test_generator"
    BY <2>2, <2>3, WhereNext
  <2> QED  BY <2>7, <2>8, <2>9
<1> QED  BY <1>1, <1>2, <1>3

(* On a rework the Reviewer finds in the snapshot exactly the files of the *)
(* cycle before, whatever fails before a handoff reaches Band, as long as  *)
(* Redis takes and gives the files.                                        *)
THEOREM ReviewerSeesPrevious ==
  ASSUME KeysAreTrue, "send" \notin Faults, "store" \notin Faults
  PROVE  Spec => []SnapshotIsPrevious
<1>1. ASSUME TypeOK, Once, OneBaton, Snapshot  PROVE SnapshotIsPrevious
  <2> SUFFICES ASSUME NEW m \in Posted, pc[m] = "stage",
                      chat[m].to = "reviewer", chat[m].rework > 0
               PROVE  prev["code_generator"] = chat[m].rework - 1
    BY DEF SnapshotIsPrevious
  <2>1. pc[m] \in Working /\ m \in Msgs
    BY <1>1, PostedAreMsgs DEF Working, HandlerPCs
  <2>2. chat[m].to = Baton[1] /\ chat[m].rework = Baton[2]
    BY <1>1, <2>1, WorkerHasBaton
  <2> QED  BY <1>1, <2>2 DEF Snapshot, Place
<1>2. TypeOK /\ Once /\ OneBaton /\ Inputs /\ Stored /\ Snapshot /\ [Next]_vars => Snapshot'
  BY SnapshotStep
<1> QED  BY BatonInvariant, SnapshotInit, <1>1, <1>2, PTL DEF Spec

-----------------------------------------------------------------------------
(* What the chat, the handlers and the mirror know of the pull request is  *)
(* what became of it; before the GitHub Connector has tried, nothing.      *)
Agrees(result) ==
  /\ result = "open" => pr = "open"
  /\ result = "failed" => pr # "open"

Untouched ==
  /\ pr = "none"
  /\ status \in {"planning", "ended"}
  /\ \A m \in Msgs : artifact[m] = "none"
  /\ \A n \in Posted : chat[n].pr = "none"

BeforePR ==
  \/ Place[Baton[1]] < 8
  \/ /\ Place[Baton[1]] = 8
     /\ Baton \in steps => \E m \in Posted : pc[m] \in {"marking", "pr"}

Reported ==
  /\ \A m \in Msgs : Agrees(artifact[m])
  /\ \A n \in Posted : Agrees(chat[n].pr)
  /\ ReportMatchesPR
  /\ \A m \in Posted : pc[m] = "pr" => chat[m].to = "github_connector"
  /\ BeforePR => Untouched

LEMMA ReportedInit == Init => Reported
<1> SUFFICES ASSUME Init PROVE Reported
  OBVIOUS
<1>1. Posted = {1} /\ chat[1].pr = "none" /\ Posted \subseteq Msgs
  BY TypeInit, PostedAreMsgs DEF Init, Posted, Message
<1> QED  BY <1>1 DEF Init, Reported, Untouched, Agrees, ReportMatchesPR

(* Until the baton moves, the pull request is not yet tried, or it was     *)
(* tried under the key that is still held.                                 *)
LEMMA BeforeStays ==
  ASSUME KeysAreTrue, "send" \notin Faults, "stage" \notin Faults,
         TypeOK, Once, OneBaton, [Next]_vars, \A m \in Msgs : ~HandOff(m), BeforePR'
  PROVE  BeforePR
<1>1. Baton' = Baton
  BY BatonStays
<1>2. CASE Place[Baton[1]] < 8 \/ Baton \notin steps
  BY <1>1, <1>2 DEF BeforePR
<1>3. CASE Place[Baton[1]] = 8 /\ Baton \in steps
  <2>1. CASE steps' = steps
    <3>1. PICK m \in Posted' : pc'[m] \in {"marking", "pr"}
      BY <1>1, <1>3, <2>1 DEF BeforePR
    <3>2. m \in Posted /\ pc[m] \in {"marking", "pr"}
      BY <1>3, <3>1, WorkGoesOn DEF Working, HandlerPCs
    <3> QED  BY <1>3, <3>2 DEF BeforePR
  <2>2. CASE steps' # steps
    <3>1. \E m \in Posted : pc[m] = "marking"
      BY <1>3, <2>2, WorkGoesOn
    <3> QED  BY <1>3, <3>1 DEF BeforePR
  <2> QED  BY <2>1, <2>2
<1> QED  BY <1>1, <1>2, <1>3 DEF BeforePR

LEMMA ReportedStep ==
  ASSUME KeysAreTrue, "send" \notin Faults, "stage" \notin Faults,
         TypeOK, Once, OneBaton, Reported, [Next]_vars
  PROVE  Reported'
<1> USE DEF shared, stores
<1>0. /\ Posted \subseteq Msgs /\ pc \in [Msgs -> HandlerPCs]
      /\ artifact \in [Msgs -> {"none", "open", "failed"}]
  BY PostedAreMsgs DEF TypeOK
<1>1. ASSUME NEW m \in Msgs, CreatePR(m)  PROVE Reported'
  <2>1. pc[m] = "pr" /\ pc[m] \in Working
    BY <1>1 DEF CreatePR, Working, HandlerPCs
  <2>2. /\ m \in Posted /\ chat[m].to = Baton[1] /\ Baton \in steps
        /\ \A n \in Posted : pc[n] \in Working => n = m
    BY <2>1, WorkerHasBaton
  <2>3. Place[Baton[1]] = 8
    BY <2>1, <2>2 DEF Reported, Place
  <2>4. Untouched
    BY <2>1, <2>2, <2>3 DEF Reported, BeforePR
  <2>5. /\ UNCHANGED <<chat, status, steps>> /\ Baton' = Baton /\ Posted' = Posted
        /\ pc' = [pc EXCEPT ![m] = "stage"]
    BY <1>1 DEF CreatePR, GoTo, Baton, Asked, Sent, Step, Posted
  <2>6. \/ pr' = "open" /\ artifact' = [artifact EXCEPT ![m] = "open"]
        \/ pr' # "open" /\ artifact' = [artifact EXCEPT ![m] = "failed"]
    BY <1>1, <2>4 DEF CreatePR, Untouched
  <2>7. \A n \in Msgs : Agrees(artifact[n])'
    BY <1>0, <2>4, <2>6 DEF Agrees, Untouched
  <2>8. /\ \A n \in Posted' : Agrees(chat[n].pr)'
        /\ ReportMatchesPR'
    BY <2>4, <2>5 DEF Agrees, Untouched, ReportMatchesPR
  <2>9. \A n \in Posted : pc'[n] \notin {"marking", "pr"}
    BY <1>0, <2>2, <2>5 DEF Working, HandlerPCs
  <2>10. ~BeforePR'
    BY <2>2, <2>3, <2>5, <2>9 DEF BeforePR
  <2> QED  BY <2>5, <2>7, <2>8, <2>9, <2>10 DEF Reported
<1>2. ASSUME NEW m \in Msgs, HandOff(m)  PROVE Reported'
  <2>1. /\ Baton \in StepSet /\ Baton' \in Successors(Baton)
        /\ Posted' = Posted \union {Len(chat')}
        /\ \A i \in Posted : chat'[i] = chat[i]
        /\ chat'[Len(chat')] = Message(Baton, Baton', artifact[m])
        /\ Len(chat') \notin Posted /\ Len(chat') \in Msgs
    BY <1>2, HandOffMovesBaton
  <2>2. chat'[Len(chat')].pr = artifact[m]
    BY <2>1 DEF Message
  <2>3. /\ UNCHANGED <<pr, status, steps>>
        /\ pc' = [pc EXCEPT ![m] = "idle"] /\ artifact' = [artifact EXCEPT ![m] = "none"]
    BY <1>2 DEF HandOff, FinishProcessed, Return, GoTo
  <2>4. \A n \in Msgs : artifact'[n] \in {artifact[n], "none"}
    BY <1>0, <2>3
  <2>5. \A n \in Posted' : pc'[n] = "pr" => n \in Posted /\ pc[n] = "pr"
    BY <1>0, <2>1, <2>3 DEF TypeOK
  <2>6. /\ \A n \in Msgs : Agrees(artifact[n])'
        /\ \A n \in Posted' : Agrees(chat[n].pr)'
        /\ ReportMatchesPR'
    <3>1. \A n \in Msgs : Agrees(artifact[n])'
      BY <2>3, <2>4 DEF Agrees, Reported
    <3>2. \A n \in Posted : Agrees(chat[n].pr)'
      BY <2>1, <2>3 DEF Agrees, Reported
    <3>3. /\ chat'[Len(chat')].pr = "open" => pr' = "open"
          /\ chat'[Len(chat')].pr = "failed" => pr' # "open"
      BY <2>2, <2>3 DEF Agrees, Reported
    <3>4. \A n \in Posted' : /\ chat'[n].pr = "open" => pr' = "open"
                             /\ chat'[n].pr = "failed" => pr' # "open"
      BY <2>1, <3>2, <3>3 DEF Agrees
    <3> QED  BY <2>3, <3>1, <3>4 DEF Agrees, Reported, ReportMatchesPR
  <2>7. ASSUME BeforePR'  PROVE Untouched'
    <3>1. /\ Baton' \in StepSet /\ Place[Baton'[1]] \in 1 .. 9 /\ Place[Baton[1]] \in 1 .. 9
          /\ Baton'[1] \in Agents /\ Baton[1] \in Agents
      BY <2>1, WhereNext, RankIsNat
    <3>2. Place[Baton'[1]] <= 8
      BY <2>7, <3>1 DEF BeforePR
    <3>3. \/ Baton[1] = "commander"
          \/ Place[Baton'[1]] = Place[Baton[1]] + 1
          \/ Baton[1] = "code_generator"
      BY <2>1, WhereNext
    <3>4. Place[Baton[1]] < 8
      BY <3>1, <3>2, <3>3 DEF Place
    <3>5. Untouched
      BY <3>4 DEF Reported, BeforePR
    <3> QED  BY <2>1, <2>2, <2>3, <2>4, <3>5 DEF Untouched
  <2> QED  BY <2>1, <2>5, <2>6, <2>7 DEF Reported
<1>3. ASSUME NEW m \in Msgs, Mirror(m)  PROVE Reported'
  <2>1. m \in Posted /\ UNCHANGED <<chat, pc, artifact, pr>> /\ Posted' = Posted
    BY <1>3 DEF Mirror, TypeOK, Posted
  <2>2. Agrees(chat[m].pr) /\ ReportMatchesPR
    BY <2>1 DEF Reported
  <2>3. chat[m].pr \in {"none", "open", "failed"}
    <3>1. chat[m] \in Line
      BY <2>1, ElementOfSeq DEF TypeOK, Posted, Line
    <3> QED  BY <3>1 DEF Line
  <2>4. ReportMatchesPR'
    BY <1>3, <2>1, <2>2, <2>3 DEF Mirror, ReportMatchesPR, Agrees
  <2>5. ASSUME BeforePR'  PROVE Untouched'
    <3>1. \A n \in Msgs : ~HandOff(n)
      BY <1>3, <1>0 DEF Mirror, HandOff, FinishProcessed, Return, GoTo, HandlerPCs
    <3>2. Untouched
      BY <2>5, <3>1, BeforeStays DEF Reported
    <3> QED  BY <1>3, <2>1, <3>2 DEF Untouched, Mirror
  <2> QED  BY <2>1, <2>4, <2>5 DEF Reported, Agrees
<1>4. CASE \A m \in Msgs : ~CreatePR(m) /\ ~HandOff(m) /\ ~Mirror(m)
  <2>1. UNCHANGED pr /\ status' \in {status, "planning", "ended"}
    BY <1>4 DEF Next, HandlerStep, Receive, ClaimStep, MarkProcessing, StageSucceeds,
                StageEndsRun, StageFails, Store, Keep, EndOfPipeline, HandOffFails, LosePublished,
                Restart, KickoffAgain, EndedByApi, vars
  <2>2. \A n \in Msgs : artifact'[n] \in {artifact[n], "none"}
    BY <1>0, <1>4 DEF Next, HandlerStep, Receive, ClaimStep, MarkProcessing, StageSucceeds,
                StageEndsRun, StageFails, Store, Keep, EndOfPipeline, HandOffFails, LosePublished,
                Restart, KickoffAgain, EndedByApi, vars, FinishProcessed, Return
  <2>3. \A n \in Posted' : \/ n \in Posted /\ chat'[n] = chat[n]
                           \/ chat'[n].pr = "none" /\ n \notin Posted
    <3>1. Message(Kickoff, <<"source_analyzer", 0>>, "none").pr = "none"
      BY DEF Message
    <3> QED  BY <1>4, <3>1, BatonStays DEF Posted
  <2>4. \A n \in Posted' : pc'[n] = "pr" =>
          n \in Posted /\ (pc[n] = "pr" \/ chat[n].to = "github_connector")
    <3>1. CASE \E m \in Msgs : MarkProcessing(m)
      <4>1. PICK m \in Msgs : MarkProcessing(m)
        BY <3>1
      <4>2. /\ UNCHANGED chat
            /\ \A n \in Msgs \ {m} : pc'[n] = pc[n]
            /\ pc'[m] = "pr" => chat[m].to = "github_connector"
        BY <1>0, <4>1 DEF MarkProcessing, GoTo
      <4> QED  BY <1>0, <4>2 DEF Posted
    <3>2. CASE \A m \in Msgs : ~MarkProcessing(m)
      <4>1. \A n \in Msgs : pc'[n] = "pr" => pc[n] = "pr"
        BY <1>0, <1>4, <3>2 DEF Next, HandlerStep, Receive, ClaimStep, StageSucceeds,
                StageEndsRun, StageFails, Store, Keep, EndOfPipeline, HandOffFails, LosePublished,
                Restart, KickoffAgain, EndedByApi, vars, FinishProcessed, Return, GoTo
      <4>2. \A n \in Posted' : n \in Msgs /\ (n \in Posted \/ pc[n] = "idle")
        <5>1. \A n \in Posted' : n \in Posted \/ (n = Len(chat') /\ n \notin Posted /\ n \in Msgs)
          BY <1>4, BatonStays DEF Posted
        <5> QED  BY <1>0, <5>1 DEF TypeOK
      <4> QED  BY <4>1, <4>2
    <3> QED  BY <3>1, <3>2
  <2>5. /\ \A n \in Msgs : Agrees(artifact[n])'
        /\ \A n \in Posted' : Agrees(chat[n].pr)'
        /\ ReportMatchesPR'
    BY <2>1, <2>2, <2>3 DEF Agrees, Reported, ReportMatchesPR
  <2>6. \A n \in Posted' : pc'[n] = "pr" => chat'[n].to = "github_connector"
    BY <2>3, <2>4 DEF Reported
  <2>7. ASSUME BeforePR'  PROVE Untouched'
    <3>1. Untouched
      BY <1>4, <2>7, BeforeStays DEF Reported
    <3> QED  BY <2>1, <2>2, <2>3, <3>1 DEF Untouched
  <2> QED  BY <2>5, <2>6, <2>7 DEF Reported
<1> QED  BY <1>1, <1>2, <1>3, <1>4

(* The run's reported outcome agrees with GitHub: the pull request is      *)
(* tried once, under a key that is never given back, and only what came of *)
(* it reaches the mirror.                                                  *)
THEOREM OutcomeIsTrue ==
  ASSUME KeysAreTrue, "send" \notin Faults, "stage" \notin Faults
  PROVE  Spec => []ReportMatchesPR
<1>1. Reported => ReportMatchesPR
  BY DEF Reported
<1>2. TypeOK /\ Once /\ OneBaton /\ Reported /\ [Next]_vars => Reported'
  BY ReportedStep
<1> QED  BY BatonInvariant, ReportedInit, <1>1, <1>2, PTL DEF Spec

-----------------------------------------------------------------------------
(* Without a second kickoff the last message asks for the baton's step.    *)
LastIsBaton == Step(Len(chat)) = Baton

Stages == <<"source_analyzer", "business_logic", "code_generator",
            "db_migration", "test_generator", "reviewer", "commander",
            "github_connector", "router">>

LEMMA StagesInPlace ==
  /\ DOMAIN Stages = 1 .. 9
  /\ \A a \in Agents : Place[a] \in 1 .. 9 /\ Stages[Place[a]] = a
<1>1. DOMAIN Stages = 1 .. 9
  BY DEF Stages
<1> QED  BY <1>1 DEF Stages, Agents, Place

LEMMA LastInit == Init => LastIsBaton /\ Relay!Init
<1> SUFFICES ASSUME Init PROVE LastIsBaton /\ Relay!Init
  OBVIOUS
<1>1. OneBaton
  BY BatonInit
<1>2. Posted = {1} /\ Len(chat) = 1 /\ Step(1) = <<"source_analyzer", 0>>
  BY DEF Init, Posted, Message, Step
<1>3. Baton = <<"source_analyzer", 0>>
  BY <1>1, <1>2 DEF OneBaton, Asked
<1>4. Relay!First = <<"source_analyzer", 0>>
  BY DEF Relay!First
<1> QED  BY <1>2, <1>3, <1>4 DEF LastIsBaton, Relay!Init

LEMMA RelayStep ==
  ASSUME KeysAreTrue, "kickoff" \notin Faults, TypeOK, Once, OneBaton, LastIsBaton,
         [Next]_vars
  PROVE  LastIsBaton' /\ [Relay!Next]_<<Step(Len(chat)), {Step(m) : m \in Posted}>>
<1>1. CASE \A m \in Msgs : ~HandOff(m)
  <2>1. UNCHANGED chat /\ Baton' = Baton
    BY <1>1, BatonStays DEF KickoffAgain, Failure
  <2> QED  BY <2>1 DEF LastIsBaton, Step, Posted
<1>2. ASSUME NEW m \in Msgs, HandOff(m)
      PROVE  LastIsBaton' /\ Relay!Next
  <2> DEFINE b == Baton  c == Baton'
  <2>1. /\ b \in StepSet /\ c \in Successors(b) /\ Rank(c) > Rank(b)
        /\ Asked' = Asked \union {c}
        /\ chat'[Len(chat')] = Message(b, c, artifact[m])
    BY <1>2, HandOffMovesBaton
  <2>2. c \in StepSet /\ c = <<c[1], c[2]>> /\ b[1] \in Agents /\ c[1] \in Agents
        /\ b[2] \in Nat /\ c[2] \in Nat
    BY <2>1, WhereNext, RankIsNat
  <2>3. LastIsBaton'
    <3>1. /\ Message(b, c, artifact[m]).to = c[1]
          /\ Message(b, c, artifact[m]).rework = c[2]
      BY DEF Message
    <3>2. <<chat'[Len(chat')].to, chat'[Len(chat')].rework>> = c
      BY <2>1, <2>2, <3>1
    <3> QED  BY <3>2 DEF LastIsBaton, Step
  <2>4. c \notin Asked
    <3>1. \A s \in Asked : Rank(s) \in Nat /\ Rank(s) <= Rank(b)
      BY <2>1, RankIsNat DEF OneBaton
    <3> QED  BY <2>1, <2>2, <3>1, RankIsNat
  <2>5. Relay!Take(c)
    BY <2>1, <2>3, <2>4 DEF Relay!Take, LastIsBaton, Asked
  <2>6. Step(Len(chat)) = b
    BY DEF LastIsBaton
  <2>7. CASE b[1] = "commander" /\ b[2] < MaxReworks /\ c = <<"code_generator", b[2] + 1>>
    <3>1. Relay!SendBack
      BY <2>5, <2>6, <2>7 DEF Relay!SendBack
    <3> QED  BY <2>3, <3>1 DEF Relay!Next
  <2>8. CASE /\ c[2] = b[2] /\ Place[b[1]] < 9
             /\ \/ Place[c[1]] = Place[b[1]] + 1
                \/ b[1] = "code_generator" /\ c[1] = "test_generator"
    <3> DEFINE i == Place[b[1]]  j == Place[c[1]]
    <3>1. i \in 1 .. 9 /\ j \in 1 .. 9 /\ Stages[i] = b[1] /\ Stages[j] = c[1]
      BY <2>2, StagesInPlace
    <3>2. j = i + 1 \/ (i = 3 /\ j = 5)
      BY <2>8 DEF Place
    <3>3. Stages[4] = "db_migration"
      BY DEF Stages
    <3>4. j \in Relay!After(i)
      <4>1. Relay!After(i) = {x \in {i + 1, i + 2} \cap DOMAIN Stages :
                                x = i + 2 => Stages[i + 1] \in {"db_migration"}}
        BY DEF Relay!After, Stages
      <4> HIDE DEF i, j
      <4>2. CASE j = i + 1
        <5>1. j # i + 2 /\ j \in {i + 1, i + 2}
          BY <3>1, <4>2
        <5>2. j \in DOMAIN Stages
          BY <3>1, StagesInPlace
        <5> QED  BY <4>1, <5>1, <5>2
      <4>3. CASE i = 3 /\ j = 5
        <5>1. Stages[i + 1] \in {"db_migration"} /\ j = i + 2
          BY <3>3, <4>3
        <5> QED  BY <3>1, <4>1, <5>1, StagesInPlace
      <4> QED  BY <3>2, <4>2, <4>3
    <3>5. c = <<Stages[j], b[2]>>
      BY <2>2, <2>8, <3>1
    <3>6. i \in DOMAIN Stages
      BY <3>1, StagesInPlace
    <3>7. Relay!Forward
      BY <2>5, <2>6, <3>1, <3>4, <3>5, <3>6 DEF Relay!Forward, Stages
    <3> QED  BY <2>3, <3>7 DEF Relay!Next
  <2> QED  BY <2>1, <2>7, <2>8, WhereNext
<1> QED  BY <1>1, <1>2

(* The chat of a run is a relay: however the handlers fail, restart and    *)
(* race, every message is the handoff of the stage the last one named, to  *)
(* the next of the line or, from the Commander and within its budget, back *)
(* to the code generator.                                                  *)
THEOREM BandImplementsRelay ==
  ASSUME KeysAreTrue, "kickoff" \notin Faults
  PROVE  Spec => FollowsPipeline
<1>1. Init => LastIsBaton /\ Relay!Init
  BY LastInit
<1>2. TypeOK /\ Once /\ OneBaton /\ LastIsBaton /\ [Next]_vars
        => LastIsBaton' /\ [Relay!Next]_<<Step(Len(chat)), {Step(m) : m \in Posted}>>
  BY RelayStep
<1> QED  BY BatonInvariant, <1>1, <1>2, PTL DEF Spec, FollowsPipeline, Relay!Spec

=============================================================================
