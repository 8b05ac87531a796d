-------------------------------- MODULE Voyage --------------------------------
(***************************************************************************)
(* The voyage of a run on its page: the loading phase of RunReady          *)
(* (routes/run.tsx), the view and its canvas hook (voyage-view.tsx,        *)
(* use-voyage-scene.ts), the ferry's stages (scene.ts) and the inspection  *)
(* of the ship (inspect.ts), under frontend/src.                           *)
(*                                                                         *)
(* Three loops run beside each other and tell one another what changed:    *)
(* the run at the server, which the page polls; React, which holds what is *)
(* shown; and the canvas, which draws frames while the page is visible and *)
(* notifies React of changes only. With reduced motion there are no        *)
(* frames: every change redraws a still picture.                           *)
(*                                                                         *)
(* Time within a stage is counted in beats, see LastBeat; a frame may or   *)
(* may not complete one.                                                   *)
(***************************************************************************)
EXTENDS Integers, FiniteSets

CONSTANTS
  Faults,     \* what else may happen, see FaultKinds
  MaxTrouble, \* bound of the model: how often
  Layouts     \* zooms of the cutaway that the canvas may have room for

(* start: startRun is refused; reload: the page is loaded again; layout:   *)
(* the view is mounted anew (another breakpoint or pane); motion: the user *)
(* switches reduced motion; hide: the page is hidden for a while; resize:  *)
(* the canvas gets another size; again: another tab, or this page before a *)
(* reload, calls startRun for the same run.                                *)
FaultKinds == {"start", "reload", "layout", "motion", "hide", "resize", "again"}

ASSUME ConstantsAssumption ==
  /\ Faults \subseteq FaultKinds
  /\ MaxTrouble \in Nat
  /\ Layouts # {} /\ Layouts \subseteq 3 .. 5

VARIABLES
  server,    \* the run's status in the database, see Statuses
  again,     \* another StartRun of the run: "none", "checked", "admitted"
  run,       \* the page's copy of it
  flag,      \* history.state.justLaunched of the page's history entry
  page,      \* RunReady: phase
  start,     \* RunReady: startedRef and the call of startRun
  intro,     \* VoyageView: introRef
  dock,      \* the hook: introDockRef, the intro the view was mounted with
  scene,     \* the canvas: s.stage and the beats passed in it
  ship,      \* the canvas: s.inspect.phase, "none" while s.mode = "sea"
  layout,    \* the canvas: the zoom of the cutaway it has room for
  zoom,      \* the canvas: zoomStep, and the zoom the cutaway is drawn with
  told,      \* the canvas: lastStage, lastInspectable, lastInspecting
  shown,     \* VoyageView: shipInspectable, inspecting
  reduced,   \* prefers-reduced-motion
  visible,   \* the page is not hidden
  popup,     \* ArrivalPopup: dismissed in sessionStorage, and in React
  trouble,   \* faults so far
  steady,    \* reduced motion was not switched since the view was mounted
  departed   \* this launch has ended its loading by a departure

canvas == <<intro, scene, ship, zoom, told, shown, page, flag, departed>>
mount  == <<dock, popup, steady>>
world  == <<reduced, visible, layout, trouble>>
runs   == <<server, again, run>>
vars   == <<runs, start, canvas, mount, world>>

(* "live" stands for every status with an agent at work. No code sets      *)
(* "blocked" or "needs_rework" on a run.                                   *)
Statuses == {"pending", "queued", "live", "failed", "completed"}
Waiting  == {"pending", "queued"}

Stages == {"dock", "depart", "sea", "arrive", "docked"}

(* dock: 1 the minimum dwell is over. depart: 1 doors sealed and pulling   *)
(* out, 2 off the screen, 3 the harbour has faded. sea: 1 the ferry slides *)
(* in, 2 it is locked (seaEnter = 1). arrive: 1 the destination is shown,  *)
(* 2 the ferry is at its berth.                                            *)
LastBeat ==
  [dock |-> 1, depart |-> 3, sea |-> 2, arrive |-> 2, docked |-> 0]

At(stage, beat) == [stage |-> stage, beat |-> beat]

Entering == {"enterSpin", "flatten", "reveal", "hold"}
Leaving  == {"conceal", "unflatten", "exitSpin"}

-----------------------------------------------------------------------------
(* The scene.                                                              *)

DeriveVoyage(status) ==
  CASE status \in Waiting      -> "pending"
    [] status = "completed"    -> "arrived"
    [] status = "failed"       -> "failed"
    [] OTHER                   -> "sailing"

(* snapStage without forceDock.                                            *)
SnapStage(mode) ==
  CASE mode = "pending" -> At("dock", 0)
    [] mode = "arrived" -> At("docked", 0)
    [] OTHER            -> At("sea", 2)

ForceDock(mode) == IF mode = "arrived" THEN SnapStage(mode) ELSE At("dock", 0)

UpdateStage(sc, mode) ==
  CASE sc.stage = "dock" ->
         IF mode = "arrived" THEN SnapStage(mode)
         ELSE IF mode # "pending" /\ sc.beat = 1 THEN At("depart", 0) ELSE sc
    [] sc.stage = "depart" ->
         IF sc.beat = 3 THEN At("sea", 0) ELSE sc
    [] sc.stage = "sea" ->
         IF mode = "arrived" THEN At("arrive", 0)
         ELSE IF mode = "pending" THEN SnapStage(mode) ELSE sc
    [] sc.stage = "arrive" ->
         IF sc.beat = 2 THEN At("docked", 0) ELSE sc
    [] sc.stage = "docked" ->
         IF mode \in {"sailing", "pending"} THEN SnapStage(mode) ELSE sc

Beat(sc, more) ==
  IF more /\ sc.beat < LastBeat[sc.stage] THEN At(sc.stage, sc.beat + 1) ELSE sc

CanInspect(sc) == sc = At("sea", 2)

ExitInspect(phase) ==
  CASE phase = "enterSpin"           -> "exitSpin"
    [] phase = "flatten"             -> "unflatten"
    [] phase \in {"reveal", "hold"}  -> "conceal"
    [] OTHER                         -> phase

SnapInspect(phase) ==
  IF phase \in Entering THEN "hold" ELSE "none"

UpdateInspect(phase) ==
  CASE phase = "enterSpin" -> "flatten"
    [] phase = "flatten"   -> "reveal"
    [] phase = "reveal"    -> "hold"
    [] phase = "conceal"   -> "unflatten"
    [] phase = "unflatten" -> "exitSpin"
    [] phase = "exitSpin"  -> "none"
    [] OTHER               -> phase

(* MIN_CUTAWAY_ZOOM and MAX_CUTAWAY_ZOOM are 2 and 6.                      *)
CutawayZoom(base, step) ==
  LET z == base + step IN IF z < 2 THEN 2 ELSE IF z > 6 THEN 6 ELSE z

NoZoom == [step |-> 0, drawn |-> 0]

(* Mutant of UpdateZoom: the zoom is set once, when the ship is flat.      *)
UpdateZoomOnce(phase, more) ==
  CASE phase = "flatten" /\ more ->
         [zoom EXCEPT !.drawn = CutawayZoom(layout, zoom.step)]
    [] phase = "exitSpin" /\ more -> NoZoom
    [] phase = "unflatten" /\ more -> [zoom EXCEPT !.drawn = 0]
    [] OTHER -> zoom

(* The zoom after a frame in a phase; only while the cutaway is held does  *)
(* it follow the layout. 0: the zoom of the spinning ship.                 *)
UpdateZoom(phase, more) ==
  CASE phase = "hold" \/ (phase = "flatten" /\ more) ->
         [zoom EXCEPT !.drawn = CutawayZoom(layout, zoom.step)]
    [] phase = "exitSpin" /\ more -> NoZoom
    [] phase = "unflatten" /\ more -> [zoom EXCEPT !.drawn = 0]
    [] OTHER -> zoom

-----------------------------------------------------------------------------
(* What the canvas tells React: only what differs from what it told last.  *)

Inspectable(sc, phase) == phase = "none" /\ CanInspect(sc)

(* Mutant of NotifyStage: the flag of the history entry is left alone.     *)
NotifyStageKeepingFlag(sc) ==
  LET departs == intro /\ sc.stage # told.stage /\ sc.stage = "sea"
  IN  /\ intro'    = (intro /\ ~departs)
      /\ page'     = IF departs THEN "normal" ELSE page
      /\ flag'     = flag
      /\ departed' = (departed \/ departs)

(* A stage of "sea" ends the loading, once.                                *)
NotifyStage(sc) ==
  LET departs == intro /\ sc.stage # told.stage /\ sc.stage = "sea"
  IN  /\ intro'    = (intro /\ ~departs)
      /\ page'     = IF departs THEN "normal" ELSE page
      /\ flag'     = (flag /\ ~departs)
      /\ departed' = (departed \/ departs)

(* The canvas now is as given; onInspectChange is considered if exit.      *)
Redraw(sc, phase, exit) ==
  LET can  == Inspectable(sc, phase)
      lift == IF exit THEN phase # "none" ELSE told.inspecting
  IN  /\ NotifyStage(sc)
      /\ scene' = sc
      /\ ship'  = phase
      /\ told'  = [stage |-> sc.stage, inspectable |-> can, inspecting |-> lift]
      /\ shown' = [inspectable |-> IF can # told.inspectable
                                   THEN can ELSE shown.inspectable,
                   inspecting  |-> IF lift # told.inspecting
                                   THEN lift ELSE shown.inspecting]

(* The effect of the hook with a new scene. It tells React nothing, except *)
(* that the ship of the first still picture can be inspected.              *)
NewScene(status, harbour, still, before) ==
  LET mode == DeriveVoyage(status)
      sc   == IF harbour /\ ~still THEN ForceDock(mode) ELSE SnapStage(mode)
      can  == still /\ CanInspect(sc)
  IN  /\ scene' = sc
      /\ ship'  = "none"
      /\ zoom'  = NoZoom
      /\ told'  = [stage |-> sc.stage, inspectable |-> can, inspecting |-> FALSE]
      /\ shown' = [before EXCEPT !.inspectable = @ \/ can]

MountView(status, loading) ==
  /\ NewScene(status, loading, reduced, [inspectable |-> FALSE, inspecting |-> FALSE])
  /\ intro'  = loading
  /\ dock'   = loading
  /\ steady' = TRUE
  /\ popup'  = [popup EXCEPT !.closed = popup.stored]

-----------------------------------------------------------------------------
(* The run, the page and its requests.                                     *)

Loads(status, launched) == status \in Waiting \/ launched

(* A launch brings justLaunched with it; a link to a run does not.         *)
Init ==
  /\ \/ server = "pending" /\ flag = TRUE
     \/ server \in Statuses /\ flag = FALSE
  /\ again    = "none"
  /\ run      = server
  /\ page     = IF Loads(run, flag) THEN "loading" ELSE "normal"
  /\ start    = "idle"
  /\ reduced \in BOOLEAN
  /\ visible  = TRUE
  /\ intro    = Loads(run, flag)
  /\ dock     = intro
  /\ scene    = IF dock /\ ~reduced THEN ForceDock(DeriveVoyage(run))
                ELSE SnapStage(DeriveVoyage(run))
  /\ ship     = "none"
  /\ layout \in Layouts
  /\ zoom     = NoZoom
  /\ told     = [stage       |-> scene.stage,
                 inspectable |-> reduced /\ CanInspect(scene),
                 inspecting  |-> FALSE]
  /\ shown    = [inspectable |-> told.inspectable, inspecting |-> FALSE]
  /\ popup    = [stored |-> FALSE, closed |-> FALSE]
  /\ trouble  = 0
  /\ steady   = TRUE
  /\ departed = FALSE

(* The scheduler and the band, see RunScheduler and BandPipeline.          *)
RunMoves ==
  /\ \/ server = "queued" /\ server' \in {"live", "failed"}
     \/ server = "live"   /\ server' \in {"completed", "failed"}
  /\ UNCHANGED <<again, run, start, canvas, mount, world>>

Trouble(kind) ==
  /\ kind \in Faults
  /\ trouble < MaxTrouble
  /\ trouble' = trouble + 1

(* Another StartRun finds the run pending, and is admitted later on.       *)
CheckedAgain ==
  /\ Trouble("again")
  /\ again = "none" /\ server = "pending"
  /\ again' = "checked"
  /\ UNCHANGED <<server, run, start, canvas, mount, reduced, visible, layout>>

(* Admit does not look at the status: it may start a run that has started, *)
(* fail it, or turn it back to "queued" if no slot is free.                *)
StartedAgain ==
  /\ again  = "checked"
  /\ again' = "admitted"
  /\ server' \in {"queued", "live", "failed"}
  /\ UNCHANGED <<run, start, canvas, mount, world>>

StartRun ==
  /\ page = "loading" /\ run = "pending" /\ start = "idle"
  /\ start' = "calling"
  /\ UNCHANGED <<runs, canvas, mount, world>>

Admitted == IF server = "pending" THEN {"queued", "live"} ELSE {server}

StartAnswered ==
  /\ start  = "calling"
  /\ start' = "done"
  /\ server' \in Admitted
  /\ UNCHANGED <<again, run, canvas, mount, world>>

(* The page leaves its loading phase; the canvas stays where it is.        *)
StartRefused ==
  /\ Trouble("start")
  /\ start  = "calling"
  /\ start' = "done"
  /\ page'  = "normal"
  /\ UNCHANGED <<runs, intro, scene, ship, zoom, told, shown, flag, departed,
                 mount, reduced, visible, layout>>

(* The still picture of reduced motion: the stage the run implies.         *)
Still(status, phase, exit) == Redraw(SnapStage(DeriveVoyage(status)), phase, exit)

(* refetchInterval, and the refetch when the call of startRun is over.     *)
Poll ==
  /\ visible
  /\ run \notin {"failed", "completed"}
  /\ run # server
  /\ run' = server
  /\ IF reduced THEN Still(run', ship, FALSE) /\ UNCHANGED zoom
     ELSE UNCHANGED canvas
  /\ UNCHANGED <<server, again, start, mount, world>>

(* The page is loaded again, or left and come back to: then it starts with *)
(* the cached copy of the run. The history entry keeps its flag, a request *)
(* that is under way may still reach the server.                           *)
Reload ==
  /\ Trouble("reload")
  /\ server' \in IF start = "calling" THEN {server} \union Admitted ELSE {server}
  /\ run' \in {server, run}
  /\ page'  = IF Loads(run', flag) THEN "loading" ELSE "normal"
  /\ start' = "idle"
  /\ visible' = TRUE
  /\ MountView(run', Loads(run', flag))
  /\ UNCHANGED <<again, flag, reduced, layout, departed>>

Remount ==
  /\ Trouble("layout")
  /\ MountView(run, page = "loading")
  /\ UNCHANGED <<runs, flag, page, start, reduced, visible, layout, departed>>

(* The hook's effect runs again, with the intro of the mount.              *)
SwitchMotion ==
  /\ Trouble("motion")
  /\ reduced' = ~reduced
  /\ NewScene(run, dock, reduced', shown)
  /\ steady' = FALSE
  /\ UNCHANGED <<runs, flag, page, start, intro, dock, popup, visible,
                 layout, departed>>

Hide ==
  /\ visible /\ Trouble("hide")
  /\ visible' = FALSE
  /\ UNCHANGED <<runs, start, canvas, mount, reduced, layout>>

Show ==
  /\ ~visible
  /\ visible' = TRUE
  /\ UNCHANGED <<runs, start, canvas, mount, reduced, layout, trouble>>

(* The picture is drawn anew, with the pose it has.                        *)
Resize ==
  /\ Trouble("resize")
  /\ layout' \in Layouts \ {layout}
  /\ UNCHANGED <<runs, start, canvas, mount, reduced, visible>>

-----------------------------------------------------------------------------
(* The canvas and its user.                                                *)

(* Mutant of Frame: the voyage pauses while the ship is inspected.         *)
FrameOfOne(more) ==
  /\ visible /\ ~reduced
  /\ Redraw(IF ship # "none" THEN scene
            ELSE UpdateStage(Beat(scene, more), DeriveVoyage(run)),
            IF more THEN UpdateInspect(ship) ELSE ship, TRUE)
  /\ zoom' = UpdateZoom(ship, more)
  /\ UNCHANGED <<runs, start, mount, world>>

(* One frame of the loop; more: it completes a beat of the stage, or the   *)
(* phase of the inspection.                                                *)
Frame(more) ==
  /\ visible /\ ~reduced
  /\ Redraw(UpdateStage(Beat(scene, more), DeriveVoyage(run)),
            IF more THEN UpdateInspect(ship) ELSE ship, TRUE)
  /\ zoom' = UpdateZoom(ship, more)
  /\ UNCHANGED <<runs, start, mount, world>>

(* onShipClick. Without frames the cutaway opens at once.                  *)
ClickShip ==
  /\ visible /\ ship = "none" /\ CanInspect(scene)
  /\ IF reduced
     THEN Still(run, "hold", TRUE) /\ zoom' = [step |-> 0, drawn |-> CutawayZoom(layout, 0)]
     ELSE Redraw(scene, "enterSpin", TRUE) /\ zoom' = NoZoom
  /\ UNCHANGED <<runs, start, mount, world>>

(* Mutant of LeaveInspect: without frames nobody calls notifyInspect.      *)
LeaveInspectSilently ==
  /\ visible /\ ship # "none"
  /\ IF reduced
     THEN Still(run, SnapInspect(ExitInspect(ship)), FALSE) /\ zoom' = NoZoom
     ELSE /\ ship' = ExitInspect(ship)
          /\ UNCHANGED <<intro, scene, zoom, told, shown, page, flag, departed>>
  /\ UNCHANGED <<runs, start, mount, world>>

(* Escape, or a click beside the ship that does not end a drag.            *)
LeaveInspect ==
  /\ visible /\ ship # "none"
  /\ IF reduced
     THEN Still(run, SnapInspect(ExitInspect(ship)), TRUE) /\ zoom' = NoZoom
     ELSE /\ ship' = ExitInspect(ship)
          /\ UNCHANGED <<intro, scene, zoom, told, shown, page, flag, departed>>
  /\ UNCHANGED <<runs, start, mount, world>>

(* Mutant of ZoomInspect: the step is not clamped again.                   *)
ZoomInspectFreely(dir) ==
  LET after == CutawayZoom(layout, zoom.step + dir)
      moved == after # CutawayZoom(layout, zoom.step)
  IN  /\ visible /\ ship = "hold"
      /\ zoom' = [step  |-> zoom.step + dir,
                  drawn |-> IF moved THEN after ELSE zoom.drawn]
      /\ IF reduced /\ moved THEN Still(run, ship, FALSE)
         ELSE UNCHANGED <<intro, scene, ship, told, shown, page, flag, departed>>
      /\ UNCHANGED <<runs, start, mount, world>>

(* A notch of the wheel while the cutaway is held; its still picture shows *)
(* the stage the run implies.                                              *)
ZoomInspect(dir) ==
  LET after == CutawayZoom(layout, zoom.step + dir)
      moved == after # CutawayZoom(layout, zoom.step)
  IN  /\ visible /\ ship = "hold"
      /\ zoom' = [step  |-> after - layout,
                  drawn |-> IF moved THEN after ELSE zoom.drawn]
      /\ IF reduced /\ moved THEN Still(run, ship, FALSE)
         ELSE UNCHANGED <<intro, scene, ship, told, shown, page, flag, departed>>
      /\ UNCHANGED <<runs, start, mount, world>>

PopupShown ==
  page = "normal" /\ DeriveVoyage(run) = "arrived" /\ ~popup.closed

Dismiss ==
  /\ visible /\ PopupShown
  /\ popup' = [stored |-> TRUE, closed |-> TRUE]
  /\ UNCHANGED <<runs, start, canvas, dock, steady, world>>

Next ==
  \/ RunMoves \/ CheckedAgain \/ StartedAgain \/ StartRun
  \/ StartAnswered \/ StartRefused \/ Poll \/ Reload \/ Remount \/ SwitchMotion \/ Hide \/ Show \/ Resize
  \/ \E more \in BOOLEAN : Frame(more)
  \/ ClickShip \/ LeaveInspect \/ Dismiss
  \/ \E dir \in {-1, 1} : ZoomInspect(dir)

Spec == Init /\ [][Next]_vars

(* The browser draws frames and time passes in them while the page is      *)
(* visible, the page makes its requests and the server answers them.       *)
Fairness ==
  /\ SF_vars(Frame(TRUE))
  /\ SF_vars(Poll)
  /\ WF_vars(StartRun) /\ WF_vars(StartAnswered)

FairSpec == Spec /\ Fairness

-----------------------------------------------------------------------------
(* The types of the variables; a loading page was mounted with the intro.  *)
TypeOK ==
  /\ server \in Statuses /\ run \in Statuses
  /\ again \in {"none", "checked", "admitted"}
  /\ flag \in BOOLEAN /\ departed \in BOOLEAN /\ steady \in BOOLEAN
  /\ page \in {"loading", "normal"}
  /\ start \in {"idle", "calling", "done"}
  /\ intro \in BOOLEAN /\ dock \in BOOLEAN
  /\ scene.stage \in Stages /\ scene.beat \in 0 .. LastBeat[scene.stage]
  /\ ship \in {"none"} \union Entering \union Leaving
  /\ told \in [stage : Stages, inspectable : BOOLEAN, inspecting : BOOLEAN]
  /\ shown \in [inspectable : BOOLEAN, inspecting : BOOLEAN]
  /\ reduced \in BOOLEAN /\ visible \in BOOLEAN
  /\ layout \in Layouts
  /\ zoom \in [step : -3 .. 3, drawn : {0} \union 2 .. 6]
  /\ popup \in [stored : BOOLEAN, closed : BOOLEAN]
  /\ trouble \in 0 .. MaxTrouble

(* The notifiers fire on changes only, yet what React shows never lags     *)
(* behind the canvas: the hint to click the ferry appears only while a     *)
(* click opens it, the help of the cutaway exactly while it is open. A     *)
(* switch of reduced motion starts a scene without telling React.          *)
ReactInStep ==
  steady => /\ shown.inspectable => Inspectable(scene, ship)
            /\ shown.inspecting  = (ship # "none")

(* A launch whose ferry has departed never sees the loading harbour again: *)
(* "a refresh afterwards lands straight in the live view". That is unless  *)
(* another StartRun, which saw the run pending too, was admitted since: it *)
(* may turn the run back to "queued", and a reload loads once more.        *)
LoadingOnce ==
  [][departed /\ again # "admitted" => page' = "normal"]_vars

(* The ferry of a run that stays completed moors, wherever it was and      *)
(* whatever the user inspects, if the page is looked at.                   *)
ArrivedMoors ==
  []<>visible =>
    (run = "completed" ~> scene.stage = "docked" \/ run # "completed")

(* A cutaway that is held fits the canvas in the end, however often the    *)
(* window was resized and the wheel turned ("so window resizes can't       *)
(* strand the ship"), as long as frames are drawn.                         *)
Fits == zoom.drawn = CutawayZoom(layout, zoom.step)

CutawayFits ==
  []<>visible => (ship = "hold" ~> ship # "hold" \/ reduced \/ Fits)

=============================================================================
