------------------------------- MODULE RunViews -------------------------------
(***************************************************************************)
(* What the panels of a run's page show of it, as functions of the run:    *)
(* the pipeline (lib/pipeline.ts, phase-pipeline.tsx), the voyage's stop   *)
(* (voyage/progress.ts), the feed (band-feed.tsx, artifact-tree.ts), the   *)
(* banner (routes/run.tsx), the outputs (outputs-panel.tsx), the crew      *)
(* roster and the ship's log.                                              *)
(*                                                                         *)
(* A run is a record [status, phase, db, messages, makers, plan, pr]: its  *)
(* currentPhase or 0, dbEnabled, its messages, who created its artifacts,  *)
(* and whether it has a database plan and a pull request.  A message is a  *)
(* record [agent, phase, type, target, action, rework]; agents and phases  *)
(* are numbered in the order of AGENT_ORDER and PHASES, 0 is none. rework: *)
(* its text speaks of a rework.                                            *)
(***************************************************************************)
EXTENDS Integers, FiniteSets, SequencesExt, FiniteSetsExt

None == 0

NumPhases   == 7
DBMigration == 4 \* the phase db_migration
NumAgents   == 9

Statuses ==
  {"pending", "queued", "planning", "analyzing", "translating", "db_migration", "testing",
   "reviewing", "generating_pr", "completed", "failed", "blocked", "needs_rework"}

LiveStatuses ==
  {"planning", "analyzing", "translating", "db_migration", "testing", "reviewing",
   "generating_pr"}

StatusPhase(status) ==
  CASE status = "planning"      -> 1
    [] status = "analyzing"     -> 2
    [] status = "translating"   -> 3
    [] status = "db_migration"  -> 4
    [] status = "testing"       -> 5
    [] status \in {"reviewing", "needs_rework"} -> 6
    [] status = "generating_pr" -> 7
    [] OTHER -> None

Stuck == {"blocked", "needs_rework"}

(* The last element of a sequence that passes a test, or None.             *)
LastWhere(seq, Test(_)) ==
  LET hits == {i \in DOMAIN seq : Test(seq[i])}
  IN IF hits = {} THEN None ELSE Max(hits)

-----------------------------------------------------------------------------
(* The pipeline.                                                           *)

EffectiveCurrentPhase(run) ==
  LET base == IF run.phase # None THEN run.phase ELSE StatusPhase(run.status)
  IN Max({base} \cup {run.messages[i].phase : i \in DOMAIN run.messages})

CurrentPhaseIndex(run) ==
  IF run.status = "completed" THEN NumPhases + 1 ELSE EffectiveCurrentPhase(run)

(* A completed run is beyond the last phase.                               *)
PhaseStates(run) ==
  LET at == CurrentPhaseIndex(run)
      State(i) == IF i = DBMigration /\ ~run.db THEN "skipped"
                  ELSE IF run.status = "pending" \/ i > at THEN "upcoming"
                  ELSE IF i < at THEN "done"
                  ELSE IF run.status = "failed" THEN "failed"
                  ELSE IF run.status \in Stuck THEN "blocked"
                  ELSE "active"
  IN [i \in 1 .. NumPhases |-> State(i)]

(* PhasePipeline: a skipped stage is not drawn.                            *)
PipelineNodes(run) ==
  SelectSeq([i \in 1 .. NumPhases |-> [phase |-> i, state |-> PhaseStates(run)[i]]],
            LAMBDA n : n.state # "skipped")

Interactive(node) == node.state \notin {"skipped", "upcoming"}

ConnectorActive(nodes, i) ==
  i < Len(nodes) /\ nodes[i].state = "done" /\ nodes[i + 1].state = "active"

(* A second click on a stage or on a row of the roster clears the choice.  *)
Toggle(selected, x) == IF selected = x THEN None ELSE x

-----------------------------------------------------------------------------
(* The voyage's stop, 0 to 8.                                              *)

StatusStop(status) ==
  CASE status = "analyzing"                        -> 2
    [] status \in {"translating", "needs_rework"}  -> 3
    [] status = "db_migration"                     -> 4
    [] status = "testing"                          -> 5
    [] status = "reviewing"                        -> 6
    [] status \in {"generating_pr", "completed"}   -> 8
    [] OTHER                                       -> 0

(* The index of the phase among the others, scaled to 8 and rounded.       *)
FallbackStop(run) ==
  IF run.status \in Stuck \cup {"failed"}
  THEN LET idx == CurrentPhaseIndex(run) - 1
       IN IF idx < 0 THEN 0 ELSE Min({8, (8 * idx + 3) \div 6})
  ELSE StatusStop(run.status)

DeriveStop(run) ==
  IF run.status = "needs_rework"
  THEN LET last == LastWhere(run.messages, LAMBDA m : m.action \/ m.target # None)
       IN IF last # None /\ run.messages[last].target # None
          THEN run.messages[last].target - 1 ELSE StatusStop("needs_rework")
  ELSE Max({FallbackStop(run)} \cup {run.messages[i].agent - 1 : i \in DOMAIN run.messages}
                               \cup {a - 1 : a \in run.makers})

LatestReworkSignal(run) == LastWhere(run.messages, LAMBDA m : m.rework)

CodeGenerator == 4

VoyageStop(run) ==
  LET signal == LatestReworkSignal(run)
  IN IF run.status = "completed" THEN 8
     ELSE IF signal = None THEN DeriveStop(run)
     ELSE IF run.messages[signal].target # None THEN run.messages[signal].target - 1
     ELSE CodeGenerator - 1

VoyageMode(run) ==
  CASE run.status = "completed"              -> "arrived"
    [] run.status \in {"pending", "queued"}  -> "pending"
    [] run.status = "failed"                 -> "failed"
    [] run.status \in Stuck                  -> "blocked"
    [] OTHER                                 -> "sailing"

-----------------------------------------------------------------------------
(* The feed.                                                               *)

Filtered(run, agent, phase) ==
  SelectSeq(run.messages, LAMBDA m : /\ agent = None \/ m.agent = agent
                                     /\ phase = None \/ m.phase = phase)

(* The line below the messages: who is at work, or None.                   *)
Processing(run) ==
  IF run.status \notin LiveStatuses \/ run.messages = <<>> THEN None
  ELSE LET last == run.messages[Len(run.messages)]
       IN IF last.action \/ last.type = "blocker" THEN None
          ELSE IF last.type = "handoff" /\ last.target # None THEN last.target
          ELSE last.agent

(* What stands in the place of an empty list.                              *)
FeedPlaceholder(run, agent, phase) ==
  IF Filtered(run, agent, phase) # <<>> THEN "none"
  ELSE IF agent # None \/ phase # None THEN "no match"
  ELSE IF run.status = "pending" THEN "assembling"
  ELSE "no messages"

(* BandChatter draws a pulse between two neighbours of the last seven      *)
(* messages, of different agents if there are such; at 0 there is none.    *)
ChatterPairs(senders) ==
  LET n     == Len(senders)
      pairs == {i \in 1 .. n - 1 : i > n - 7}
      hands == {i \in pairs : senders[i] # senders[i + 1]}
  IN IF n < 2 THEN {} ELSE IF hands # {} THEN hands ELSE pairs

(* messageAttachments: payload is [file, files, report], a path, several   *)
(* paths and a path; kind[p] tells what file the page has at path p.       *)
Candidates(payload) ==
  SelectSeq(<<payload.file>> \o payload.files \o <<payload.report>>, LAMBDA p : p # None)

MessageAttachments(payload, kind) ==
  LET first(seq) == {i \in DOMAIN seq : \A j \in 1 .. i - 1 : seq[j] # seq[i]}
      paths      == Candidates(payload)
      once       == [k \in 1 .. Cardinality(first(paths)) |->
                       paths[CHOOSE i \in first(paths) :
                               Cardinality({j \in first(paths) : j <= i}) = k]]
  IN [code       |-> SelectSeq(once, LAMBDA p : p \in DOMAIN kind /\ kind[p] = "code"),
      reports    |-> SelectSeq(once, LAMBDA p : p \in DOMAIN kind /\ kind[p] = "report"),
      unresolved |-> SelectSeq(once, LAMBDA p : p \notin DOMAIN kind)]

(* The parts of a row. content, details: the payload has a text, or other  *)
(* keys than those of attachments.                                         *)
MessageParts(m, content, details) ==
  {part \in {"summary", "target", "decision", "body", "details"} :
     CASE part = "summary"  -> ~content \/ m.type = "artifact_created"
       [] part = "target"   -> m.target # None
       [] part = "decision" -> m.action
       [] part = "body"     -> content
       [] part = "details"  -> details}

(* artifactBody and isPreviewOnly: each of content and preview may be      *)
(* absent, and the content that is there may be empty.                     *)
ArtifactBody(a) ==
  IF a.content # "absent" THEN a.content ELSE IF a.preview # "absent" THEN a.preview ELSE ""

IsPreviewOnly(a) == a.content \in {"absent", ""} /\ a.preview \notin {"absent", ""}

(* The ship's log: the latest messages, newest first.                      *)
ShipLog(seq, docked) ==
  LET kept == IF docked THEN 40 ELSE 6
  IN Reverse(SubSeq(seq, Max({1, Len(seq) - kept + 1}), Len(seq)))

-----------------------------------------------------------------------------
(* RunReady: what the user sees of the page. The wide page floats panels   *)
(* over the voyage, left and right say which of them are folded out; the   *)
(* narrow one has tabs. While the harbor loads the controls are hidden.    *)
VisiblePanels(wide, loading, left, right, center, pane) ==
  (IF loading THEN {} ELSE {"banner", IF wide THEN "toggles" ELSE "tabs"})
  \cup (IF ~wide THEN {pane}
        ELSE {"voyage"} \cup ({center} \cap {"feed", "artifacts"})
             \cup (IF left /\ ~loading THEN {"crew", "log"} ELSE {})
             \cup (IF right /\ ~loading THEN {"outputs"} ELSE {}))

-----------------------------------------------------------------------------
(* The rest of the page.                                                   *)

(* RunBanner.                                                              *)
Banner(run) ==
  IF run.status = "failed" THEN [kind |-> "failed", message |-> None]
  ELSE IF run.status \in Stuck
    THEN [kind |-> run.status, message |-> LastWhere(run.messages, LAMBDA m : m.action)]
  ELSE [kind |-> "none", message |-> None]

(* DbPlanCard: the foot of the card. approvedBy is the plan's, or None;    *)
(* approved is the page's own flag.                                        *)
PlanFoot(approvedBy, approved, canApprove, confirming) ==
  IF approvedBy # None THEN "approved"
  ELSE IF approved THEN "approved by you"
  ELSE IF ~canApprove THEN "wait"
  ELSE IF confirming THEN "confirm"
  ELSE "review"

OutputsPanel(run) ==
  IF ~run.plan /\ ~run.pr THEN {"empty"}
  ELSE (IF run.plan THEN {"plan"} ELSE {}) \cup {IF run.pr THEN "pr" ELSE "pending pr"}

(* The Crew tab's badge and the lights of the roster.                      *)
Active(agents) == {a \in DOMAIN agents : agents[a] = "active"}

(* formatDuration and clock: hours, minutes and seconds.                   *)
Duration(seconds) == <<seconds \div 3600, (seconds % 3600) \div 60, seconds % 60>>

(* relativeTime: the unit and the count of an age, a date after a week.    *)
Age(seconds) ==
  CASE seconds < 5              -> <<"just now", 0>>
    [] seconds \in 5 .. 59      -> <<"s", seconds>>
    [] seconds \in 60 .. 3599   -> <<"m", seconds \div 60>>
    [] seconds \in 3600 .. 86399 -> <<"h", seconds \div 3600>>
    [] seconds \in 86400 .. 604799 -> <<"d", seconds \div 86400>>
    [] OTHER -> <<"date", 0>>

(* RunNavInfo: a clock that runs while the run is live, else a duration    *)
(* that ends when the run did, or runs on if that is not known.            *)
Timer(run, start, end, now) ==
  IF start = None THEN "hidden"
  ELSE IF run.status \in LiveStatuses THEN Max({0, now - start})
  ELSE Max({0, (IF end = None THEN now ELSE end) - start})
=============================================================================
