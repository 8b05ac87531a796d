---------------------------- MODULE BandPipeline ----------------------------
(***************************************************************************)
(* The band of agents working on one migration run: Worker.handle of       *)
(* backend/internal/worker/worker.go for the nine agents, the Redis keys   *)
(* they share (store.go), the Band chat they hand off through, and what    *)
(* the mirror makes of the last message.                                   *)
(*                                                                         *)
(* Every Redis key the workers use contains the run id, so runs do not     *)
(* interact here. All nine workers live in one process and may run a       *)
(* handler per message concurrently (WebSocket dispatch and room drains).  *)
(***************************************************************************)
EXTENDS Integers, Sequences, FiniteSets

CONSTANTS
  MaxReworks,  \* maxReworks: how often the Commander may send the run back
  DBEnabled,   \* the run asked for a database migration
  MaxChat,     \* bound of the model: messages in the run's chats
  Faults,      \* which failures may happen, see FaultKinds
  MaxFailures  \* bound of the model: failures in one behaviour

(* restart: the worker process dies and restarts; mark: MarkProcessing     *)
(* or MarkProcessed fails; stage: the model call fails for good; terminal: *)
(* a stage yields no files; pr: GitHub refuses; send: SendMessage fails;   *)
(* sendlost: it fails although Band delivered; kickoff: the scheduler      *)
(* starts the run once more; ended: the api ends the run; blank: the model *)
(* answers with blank text; redis: a call to Redis about the keys of a run *)
(* or a step fails; store: one about its files or documents does; pubsub:  *)
(* a mirror message is lost.                                               *)
FaultKinds == {"restart", "mark", "stage", "terminal", "pr", "send", "sendlost",
               "kickoff", "ended", "blank", "redis", "store", "pubsub"}

ASSUME ConstantsAssumption ==
  /\ MaxReworks \in Nat
  /\ DBEnabled \in BOOLEAN
  /\ MaxChat \in Nat \ {0}
  /\ Faults \subseteq FaultKinds
  /\ MaxFailures \in Nat

Agents == {"source_analyzer", "business_logic", "code_generator", "db_migration",
           "test_generator", "reviewer", "commander", "github_connector", "router"}
Producers  == {"code_generator", "test_generator"}              \* producesFiles
DocWriters == {"source_analyzer", "business_logic", "code_generator",
               "test_generator", "reviewer"}                    \* docOut # ""
Verdicts   == {"reviewer", "commander"}  \* ensureGeneratedFilesBeforeVerdict

VARIABLES
  chat,       \* messages posted in the run's Band chats, in order
  mark,       \* what Band was told of each message
  handled,    \* Worker.handled: message ids claimed by this process
  pc,         \* where the handler of each message is
  artifact,   \* the pull request artifact the handler carries
  steps,      \* Redis ferry:step:<run>:<agent>:<rework>
  active,     \* Redis ferry:run:active:<run> exists
  terminal,   \* Redis ferry:run:terminal:<run> exists
  files,      \* Redis ferry:files:<run>: cycle of each producer's files
  prev,       \* Redis ferry:files:<run>:prev
  docs,       \* Redis ferry:pipeline:<run>: cycle of each writer's document
  lost,       \* steps whose last result did not reach files and docs (not
              \* in the code)
  pr,         \* the migration branch and pull request on GitHub; "unheard":
              \* it is open, but the answer that says so was lost
  published,  \* the pull request reports on ferry:mirror, not yet consumed
  status,     \* migration_runs.status; "ended": failed, as the api says
  failures    \* failures so far

stores == <<files, prev, docs, lost>>
shared == <<active, terminal, stores, pr, status>>
vars   == <<chat, mark, handled, pc, artifact, steps, published, shared, failures>>

Cycles == 0 .. MaxReworks
None   == -1
Msgs   == 1 .. MaxChat
Posted == 1 .. Len(chat)

(* A logical step is an agent in a rework cycle; a message asks for one.   *)
StepSet == Agents \X Cycles
Kickoff == <<"kickoff", 0>>
Step(m) == <<chat[m].to, chat[m].rework>>
Message(from, step, result) ==
  [from |-> from, to |-> step[1], rework |-> step[2], pr |-> result]

-----------------------------------------------------------------------------
(* The static part of the routing: role.next.                              *)
NextRole ==
  [source_analyzer  |-> "business_logic",
   business_logic   |-> "code_generator",
   code_generator   |-> IF DBEnabled THEN "db_migration" ELSE "test_generator",
   db_migration     |-> "test_generator",
   test_generator   |-> "reviewer",
   reviewer         |-> "commander",
   commander        |-> "github_connector",
   github_connector |-> "router"]

(* Mutants of ResolveNext: no budget; the cycle is not counted.            *)
ResolveNextUnbounded(step, approved) ==
  IF step[1] = "commander" /\ ~approved
  THEN <<"code_generator", step[2] + 1>>
  ELSE <<NextRole[step[1]], step[2]>>
ResolveNextSameCycle(step, approved) ==
  IF step[1] = "commander" /\ ~approved /\ step[2] < MaxReworks
  THEN <<"code_generator", step[2]>>
  ELSE <<NextRole[step[1]], step[2]>>

(* resolveNext: the Commander bounces the run back while it has budget.    *)
ResolveNext(step, approved) ==
  IF step[1] = "commander" /\ ~approved /\ step[2] < MaxReworks
  THEN <<"code_generator", step[2] + 1>>
  ELSE <<NextRole[step[1]], step[2]>>

Successors(step) ==
  IF step[1] = "router" THEN {} ELSE {ResolveNext(step, b) : b \in BOOLEAN}

(* shouldSkipRun, the terminal key first.                                  *)
Live == active /\ ~terminal

NoFiles == \A a \in Producers : files[a] = None

(* A failure of this kind happens now; nothing fails in the other steps.   *)
Failure(kind) ==
  /\ kind \in Faults
  /\ failures < MaxFailures
  /\ failures' = failures + 1
NoFailure == UNCHANGED failures

GoTo(m, l) == pc' = [pc EXCEPT ![m] = l]
Marked(m, s) == mark' = [mark EXCEPT ![m] = s]

(* The handler returns; what it carried is gone.                           *)
Return(m) == GoTo(m, "idle") /\ artifact' = [artifact EXCEPT ![m] = "none"]

-----------------------------------------------------------------------------
(* The scheduler has set the active key and sent the kickoff.              *)
Init ==
  /\ chat      = <<Message(Kickoff, <<"source_analyzer", 0>>, "none")>>
  /\ mark      = [m \in Msgs |-> "pending"]
  /\ handled   = {}
  /\ pc        = [m \in Msgs |-> "idle"]
  /\ artifact  = [m \in Msgs |-> "none"]
  /\ steps     = {}
  /\ active    = TRUE
  /\ terminal  = FALSE
  /\ files     = [a \in Producers |-> None]
  /\ prev      = [a \in Producers |-> None]
  /\ docs      = [a \in DocWriters |-> None]
  /\ lost      = {}
  /\ pr        = "none"
  /\ published = {}
  /\ status    = "planning"
  /\ failures  = 0

(* handle, up to shouldSkipRun. Band offers every message that is not      *)
(* processed, over the socket or to a drain, any number of times; a        *)
(* message this process has claimed before is dropped. If Redis does not   *)
(* say that the run is over, the handler goes on.                          *)
Receive(m) ==
  /\ m \in Posted
  /\ mark[m] # "processed"
  /\ m \notin handled
  /\ handled' = handled \union {m}
  /\ \/ Live /\ GoTo(m, "claim") /\ UNCHANGED mark /\ NoFailure
     \/ ~Live /\ Marked(m, "processed") /\ UNCHANGED pc /\ NoFailure
     \/ Failure("redis") /\ GoTo(m, "claim") /\ UNCHANGED mark
  /\ UNCHANGED <<chat, artifact, steps, published, shared>>

(* Mutant of ClaimStep: the key is set whether or not it exists.           *)
ClaimStepAlways(m) ==
  /\ pc[m] = "claim"
  /\ steps' = steps \union {Step(m)}
  /\ GoTo(m, "marking")
  /\ UNCHANGED <<chat, mark, handled, artifact, published, shared, failures>>

(* claimStep: SETNX, and on a Redis error the step is run anyway.          *)
ClaimStep(m) ==
  /\ pc[m] = "claim"
  /\ \/ /\ Step(m) \notin steps
        /\ steps' = steps \union {Step(m)}
        /\ GoTo(m, "marking")
        /\ UNCHANGED mark /\ NoFailure
     \/ /\ Failure("redis")
        /\ steps' \in {steps, steps \union {Step(m)}}
        /\ GoTo(m, "marking")
        /\ UNCHANGED mark
     \/ /\ Step(m) \in steps
        /\ GoTo(m, "idle")
        /\ Marked(m, "processed")
        /\ UNCHANGED steps /\ NoFailure
  /\ UNCHANGED <<chat, handled, artifact, published, shared>>

(* A write to Redis whose error is only logged.                            *)
Written(old, new) == IF "redis" \in Faults THEN {old, new} ELSE {new}

ReleaseStep(m) == steps' \in Written(steps, steps \ {Step(m)})

(* MarkProcessing, then publishMirror; the step is released on an error.   *)
(* Of the published messages only the one that carries the pull request    *)
(* artifact changes anything but the transcript.                           *)
MarkProcessing(m) ==
  /\ pc[m] = "marking"
  /\ \/ /\ Marked(m, "processing")
        /\ published' = IF chat[m].pr = "none" THEN published ELSE published \union {m}
        /\ GoTo(m, IF chat[m].to = "github_connector" THEN "pr" ELSE "stage")
        /\ UNCHANGED steps /\ NoFailure
     \/ /\ Failure("mark")
        /\ ReleaseStep(m)
        /\ GoTo(m, "idle")
        /\ UNCHANGED <<mark, published>>
  /\ UNCHANGED <<chat, handled, artifact, shared>>

(* createPR: the branch name is fixed per run, so GitHub accepts it once.  *)
(* A call that fails may have been carried out, and without its files the  *)
(* pull request is not tried at all.                                       *)
CreatePR(m) ==
  /\ pc[m] = "pr"
  /\ \/ /\ pr = "none" /\ ~NoFiles
        /\ pr' = "open"
        /\ artifact' = [artifact EXCEPT ![m] = "open"]
        /\ NoFailure
     \/ /\ pr # "none" \/ NoFiles
        /\ artifact' = [artifact EXCEPT ![m] = "failed"]
        /\ UNCHANGED pr /\ NoFailure
     \/ /\ pr = "none" /\ ~NoFiles
        /\ Failure("pr")
        /\ pr' \in {"none", "branch", "unheard"}
        /\ artifact' = [artifact EXCEPT ![m] = "failed"]
     \/ /\ Failure("store")
        /\ artifact' = [artifact EXCEPT ![m] = "failed"]
        /\ UNCHANGED pr
  /\ GoTo(m, "stage")
  /\ UNCHANGED <<chat, mark, handled, steps, published,
                 active, terminal, stores, status>>

-----------------------------------------------------------------------------
(* completeStage. Reviewer and Commander need generated files, and there   *)
(* are none if reading them fails; a producer that yields none ends the    *)
(* run as well (markRunTerminal touches the keys only).                    *)
NeedsFiles(m) == chat[m].to \in Verdicts /\ NoFiles

StageSucceeds(m) ==
  /\ pc[m] = "stage"
  /\ ~NeedsFiles(m)
  /\ GoTo(m, "store")
  /\ UNCHANGED <<chat, mark, handled, artifact, steps, published, shared, failures>>

StageEndsRun(m) ==
  /\ pc[m] = "stage"
  /\ \/ NeedsFiles(m) /\ NoFailure
     \/ chat[m].to \in Verdicts /\ Failure("store")
     \/ chat[m].to \in Producers /\ Failure("terminal")
  /\ terminal' \in Written(terminal, TRUE)
  /\ active'   \in Written(active, FALSE)
  /\ Marked(m, "failed")
  /\ Return(m)
  /\ UNCHANGED <<chat, handled, steps, published, stores, pr, status>>

StageFails(m) ==
  /\ pc[m] = "stage"
  /\ Failure("stage")
  /\ ~NeedsFiles(m)
  /\ ReleaseStep(m)
  /\ Marked(m, "failed")
  /\ Return(m)
  /\ UNCHANGED <<chat, handled, published, shared>>

(* The snapshot, the files and the document that a stage leaves. A blank   *)
(* answer leaves no document, and what fails on the way is ignored.        *)
Keep(m, snapshot, filed, noted) ==
  /\ pc[m] = "store"
  /\ \/ prev' = snapshot /\ files' = filed /\ docs' = noted /\ NoFailure
     \/ /\ chat[m].to \in DocWriters \ Producers
        /\ Failure("blank")
        /\ UNCHANGED <<prev, files, docs>>
     \/ /\ Failure("store")
        /\ prev'  \in IF snapshot = prev THEN {prev}
                     ELSE {prev, snapshot, [a \in Producers |-> None]}
        /\ files' \in {files, filed}
        /\ docs'  \in {docs, noted}
  /\ lost' = IF files' = filed /\ docs' = noted THEN lost \ {Step(m)}
             ELSE lost \union {Step(m)}
  /\ GoTo(m, "send")
  /\ UNCHANGED <<chat, mark, handled, artifact, steps, published,
                 active, terminal, pr, status>>

Filed(m) == IF chat[m].to \in Producers
            THEN [files EXCEPT ![chat[m].to] = chat[m].rework] ELSE files
Noted(m) == IF chat[m].to \in DocWriters
            THEN [docs EXCEPT ![chat[m].to] = chat[m].rework] ELSE docs

(* Mutants of Store: the snapshot is taken after the files are written; a  *)
(* document once stored is not replaced.                                   *)
StoreSnapshotLate(m) ==
  Keep(m, IF chat[m].to = "code_generator" /\ chat[m].rework > 0 THEN Filed(m) ELSE prev,
       Filed(m), Noted(m))
StoreDocOnce(m) ==
  Keep(m, IF chat[m].to = "code_generator" /\ chat[m].rework > 0 /\ ~NoFiles
          THEN files ELSE prev,
       Filed(m),
       IF chat[m].to \in DocWriters /\ docs[chat[m].to] # None THEN docs ELSE Noted(m))

(* On a rework the code generator saves the files that it replaces.        *)
Store(m) ==
  Keep(m, IF chat[m].to = "code_generator" /\ chat[m].rework > 0 /\ ~NoFiles
          THEN files ELSE prev,
       Filed(m), Noted(m))

(* An error of MarkProcessed is only logged, and a process that dies       *)
(* before it leaves Band the same message to offer again.                  *)
FinishProcessed(m) ==
  /\ \/ Marked(m, "processed") /\ NoFailure
     \/ Failure("mark") /\ UNCHANGED mark
  /\ Return(m)

Post(m, next) ==
  /\ Len(chat) < MaxChat
  /\ chat' = Append(chat, Message(Step(m), next, artifact[m]))

(* Mutant of HandOff: the step is released although the handoff is done.   *)
HandOffReleases(m) ==
  /\ pc[m] = "send"
  /\ \E next \in Successors(Step(m)) : Post(m, next)
  /\ FinishProcessed(m)
  /\ ReleaseStep(m)
  /\ UNCHANGED <<handled, published, shared>>

HandOff(m) ==
  /\ pc[m] = "send"
  /\ \E next \in Successors(Step(m)) : Post(m, next)
  /\ FinishProcessed(m)
  /\ UNCHANGED <<handled, steps, published, shared>>

(* The Router hands off to nobody.                                         *)
EndOfPipeline(m) ==
  /\ pc[m] = "send"
  /\ Successors(Step(m)) = {}
  /\ FinishProcessed(m)
  /\ UNCHANGED <<chat, handled, steps, published, shared>>

(* SendMessage errors: the step is released for a retry.                   *)
HandOffFails(m) ==
  /\ pc[m] = "send"
  /\ Successors(Step(m)) # {}
  /\ \/ Failure("send") /\ UNCHANGED chat
     \/ Failure("sendlost") /\ \E next \in Successors(Step(m)) : Post(m, next)
  /\ ReleaseStep(m)
  /\ Marked(m, "failed")
  /\ Return(m)
  /\ UNCHANGED <<handled, published, shared>>

HandlerStep(m) ==
  \/ ClaimStep(m)
  \/ MarkProcessing(m)
  \/ CreatePR(m)
  \/ StageSucceeds(m)
  \/ StageEndsRun(m)
  \/ StageFails(m)
  \/ Store(m)
  \/ HandOff(m)
  \/ EndOfPipeline(m)
  \/ HandOffFails(m)

-----------------------------------------------------------------------------
(* Mutant of Mirror: any pull request artifact completes the run.          *)
MirrorAnyArtifact(m) ==
  /\ m \in published
  /\ published' = published \ {m}
  /\ active'   = FALSE
  /\ terminal' = TRUE
  /\ status'   = IF status # "planning" THEN status ELSE "completed"
  /\ UNCHANGED <<chat, mark, handled, pc, artifact, steps, stores, pr, failures>>

(* The mirror consumes the published messages; the GitHub Connector's      *)
(* carries the pull request artifact and finalises the run.                *)
Mirror(m) ==
  /\ m \in published
  /\ published' = published \ {m}
  /\ IF chat[m].pr = "none" THEN UNCHANGED <<active, terminal, status>>
     ELSE /\ active'   \in Written(active, FALSE)
          /\ terminal' \in Written(terminal, TRUE)
          /\ status'   = IF status # "planning" THEN status
                         ELSE IF chat[m].pr = "open" THEN "completed" ELSE "failed"
  /\ UNCHANGED <<chat, mark, handled, pc, artifact, steps, stores, pr, failures>>

(* Redis pub/sub keeps nothing for an absent subscriber.                   *)
LosePublished(m) ==
  /\ Failure("pubsub")
  /\ m \in published
  /\ published' = published \ {m}
  /\ UNCHANGED <<chat, mark, handled, pc, artifact, steps, shared>>

(* The worker process restarts: its memory is gone, Redis and Band remain. *)
Restart ==
  /\ Failure("restart")
  /\ handled'  = {}
  /\ pc'       = [m \in Msgs |-> "idle"]
  /\ artifact' = [m \in Msgs |-> "none"]
  /\ UNCHANGED <<chat, mark, steps, published, shared>>

(* The scheduler starts the run again (two StartRun requests): the keys    *)
(* and the row are reset and a second kickoff is posted.                   *)
KickoffAgain ==
  /\ Failure("kickoff")
  /\ Len(chat) < MaxChat
  /\ \A m \in Posted \ {1} : chat[m].from # Kickoff
  /\ active' = TRUE
  /\ terminal' = FALSE
  /\ status' = "planning"
  /\ chat' = Append(chat, Message(Kickoff, <<"source_analyzer", 0>>, "none"))
  /\ UNCHANGED <<mark, handled, pc, artifact, steps, published, stores, pr>>

(* The api fails the run, whatever its row says: on a cancel or after the  *)
(* stale timeout the row only, after a failed start the keys too. Or the   *)
(* active key expires by itself.                                           *)
EndedByApi ==
  /\ Failure("ended")
  /\ \/ status' = "ended" /\ UNCHANGED <<active, terminal>>
     \/ /\ status' = "ended"
        /\ active' \in Written(active, FALSE) /\ terminal' \in Written(terminal, TRUE)
     \/ active' = FALSE /\ UNCHANGED <<terminal, status>>
  /\ UNCHANGED <<chat, mark, handled, pc, artifact, steps, published, stores, pr>>

Next ==
  \/ \E m \in Msgs : Receive(m)
  \/ \E m \in Msgs : HandlerStep(m)
  \/ \E m \in Msgs : Mirror(m) \/ LosePublished(m)
  \/ Restart
  \/ KickoffAgain
  \/ EndedByApi

Spec == Init /\ [][Next]_vars

(* Band keeps delivering, Go runs the handlers, the mirror keeps reading.  *)
Fairness ==
  \A m \in Msgs : WF_vars(Receive(m)) /\ WF_vars(HandlerStep(m)) /\ WF_vars(Mirror(m))

FairSpec == Spec /\ Fairness

-----------------------------------------------------------------------------
HandlerPCs == {"idle", "claim", "marking", "pr", "stage", "store", "send"}
Working    == HandlerPCs \ {"idle", "claim"}

TypeOK ==
  /\ chat \in Seq([from : StepSet \union {Kickoff}, to : Agents, rework : Cycles,
                   pr : {"none", "open", "failed"}])
  /\ Len(chat) \in Msgs
  /\ mark \in [Msgs -> {"pending", "processing", "processed", "failed"}]
  /\ handled \subseteq Posted
  /\ pc \in [Msgs -> HandlerPCs]
  /\ \A m \in Msgs : pc[m] # "idle" => m \in handled
  /\ artifact \in [Msgs -> {"none", "open", "failed"}]
  /\ steps \subseteq StepSet
  /\ active \in BOOLEAN
  /\ terminal \in BOOLEAN
  /\ files \in [Producers -> Cycles \union {None}]
  /\ prev \in [Producers -> Cycles \union {None}]
  /\ docs \in [DocWriters -> Cycles \union {None}]
  /\ lost \subseteq StepSet
  /\ pr \in {"none", "branch", "unheard", "open"}
  /\ published \subseteq Posted
  /\ status \in {"planning", "completed", "failed", "ended"}
  /\ failures \in 0 .. MaxFailures

(* Two handlers never run the same step at once, though the second kickoff *)
(* of a run, a duplicate handoff or a restart may ask for it again: SETNX  *)
(* on the step key decides, and only its winner releases it.               *)
StepExclusive ==
  \A m, n \in Posted :
    pc[m] \in Working /\ pc[n] \in Working /\ Step(m) = Step(n) => m = n

(* No step hands off twice ("an agent can't run (and hand off) twice"),    *)
(* across redelivery, restarts and a second kickoff, as long as an error   *)
(* of SendMessage means that nothing was delivered.                        *)
HandoffOnce ==
  \A m, n \in Posted :
    chat[m].from = chat[n].from /\ chat[m].from # Kickoff => m = n

(* What a stage finds in the shared stores belongs to its own cycle: the   *)
(* Reviewer reviews the files and the change list just generated, the      *)
(* Commander decides on the review of this cycle. The only exception is a  *)
(* result that was blank or that Redis did not take: then the next stage   *)
(* works on without it, or on what the cycle before has left.              *)
Result(a, k) ==
  \/ <<a, k>> \in lost
  \/ (a \in Producers => files[a] = k) /\ (a \in DocWriters => docs[a] = k)

InputsOfThisCycle ==
  \A m \in Posted : pc[m] = "stage" =>
    /\ chat[m].to = "business_logic" => Result("source_analyzer", 0)
    /\ chat[m].to \in {"code_generator", "db_migration", "test_generator", "reviewer"} =>
         Result("business_logic", 0)
    /\ chat[m].to = "reviewer" =>
         \A a \in Producers : Result(a, chat[m].rework)
    /\ chat[m].to = "commander" => Result("reviewer", chat[m].rework)

(* "the Reviewer can diff exactly what this rework changed": on a rework   *)
(* the snapshot holds the previous cycle's files.                          *)
SnapshotIsPrevious ==
  \A m \in Posted :
    pc[m] = "stage" /\ chat[m].to = "reviewer" /\ chat[m].rework > 0 =>
      prev["code_generator"] = chat[m].rework - 1

(* The outcome that the mirror records agrees with GitHub: completed with  *)
(* a pull request open, failed without one, unless GitHub's answer that it *)
(* is open was lost. A run that the api has failed owes nothing.           *)
ReportMatchesPR ==
  /\ status = "completed" => pr = "open"
  /\ status = "failed" => pr # "open"

(* Without failures of the model, of Band or of the stored files, every    *)
(* verdict of the Commander leads to a recorded outcome: the rework loop   *)
(* ends.                                                                   *)
RunFinishes == <>(status # "planning")

(* However the workers fail and restart, the chat of a run is a relay: the *)
(* last message names the stage that has the baton, every message is the   *)
(* handoff of the stage the previous one named.                            *)
Relay == INSTANCE StageRelay WITH
  Line     <- <<"source_analyzer", "business_logic", "code_generator",
                "db_migration", "test_generator", "reviewer", "commander",
                "github_connector", "router">>,
  Optional <- {"db_migration"},
  Judge    <- "commander",
  Maker    <- "code_generator",
  Budget   <- MaxReworks,
  baton    <- Step(Len(chat)),
  had      <- {Step(m) : m \in Posted}
FollowsPipeline == Relay!Spec

=============================================================================
