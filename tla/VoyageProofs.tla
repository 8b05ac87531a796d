----------------------------- MODULE VoyageProofs -----------------------------
(***************************************************************************)
(* Proofs about Voyage: the types, that React shows what the canvas is at  *)
(* although the canvas tells it changes only, and that a launch whose      *)
(* ferry has departed sees no loading harbour again; for any faults, any   *)
(* number of them and any layouts.                                         *)
(***************************************************************************)
EXTENDS Voyage, TLAPS

-----------------------------------------------------------------------------
(* The types. The scene and the records of React are typed as records, so  *)
(* that a step which keeps one field keeps the others.                     *)

Positions == [stage : Stages, beat : 0 .. 3]
Flags     == [inspectable : BOOLEAN, inspecting : BOOLEAN]
Phases    == {"none"} \union Entering \union Leaving
Zooms     == [step : -3 .. 3, drawn : {0} \union 2 .. 6]

SceneTyped(sc) == sc \in Positions /\ sc.beat <= LastBeat[sc.stage]

ToldTyped == told \in [stage : Stages, inspectable : BOOLEAN, inspecting : BOOLEAN]

(* What the canvas and its notifiers change, and the rest.                 *)
CanvasTyped ==
  /\ SceneTyped(scene) /\ ship \in Phases
  /\ ToldTyped /\ shown \in Flags
  /\ intro \in BOOLEAN /\ flag \in BOOLEAN /\ departed \in BOOLEAN
  /\ page \in {"loading", "normal"}

RestTyped ==
  /\ server \in Statuses /\ run \in Statuses
  /\ again \in {"none", "checked", "admitted"}
  /\ steady \in BOOLEAN /\ dock \in BOOLEAN
  /\ start \in {"idle", "calling", "done"}
  /\ reduced \in BOOLEAN /\ visible \in BOOLEAN
  /\ layout \in Layouts
  /\ popup \in [stored : BOOLEAN, closed : BOOLEAN]
  /\ trouble \in 0 .. MaxTrouble

Typed == CanvasTyped /\ RestTyped /\ zoom \in Zooms

LEMMA BeatsOfStages ==
  /\ LastBeat["dock"] = 1 /\ LastBeat["depart"] = 3 /\ LastBeat["sea"] = 2
  /\ LastBeat["arrive"] = 2 /\ LastBeat["docked"] = 0
BY DEF LastBeat

LEMMA AtTyped ==
  /\ SceneTyped(At("dock", 0)) /\ SceneTyped(At("depart", 0)) /\ SceneTyped(At("sea", 0))
  /\ SceneTyped(At("sea", 2)) /\ SceneTyped(At("arrive", 0)) /\ SceneTyped(At("docked", 0))
BY BeatsOfStages DEF SceneTyped, At, Positions, Stages

LEMMA SnapTyped ==
  ASSUME NEW mode
  PROVE  SceneTyped(SnapStage(mode)) /\ SceneTyped(ForceDock(mode))
BY AtTyped DEF SnapStage, ForceDock

LEMMA BeatTyped ==
  ASSUME NEW sc, SceneTyped(sc), NEW more \in BOOLEAN
  PROVE  SceneTyped(Beat(sc, more)) /\ Beat(sc, more).stage = sc.stage
<1>1. CASE more /\ sc.beat < LastBeat[sc.stage]
  <2>1. Beat(sc, more) = [stage |-> sc.stage, beat |-> sc.beat + 1]
    BY <1>1 DEF Beat, At
  <2>2. sc.beat + 1 \in 0 .. 3 /\ sc.beat + 1 <= LastBeat[sc.stage]
    BY <1>1, BeatsOfStages DEF SceneTyped, Positions, Stages
  <2> QED  BY <2>1, <2>2 DEF SceneTyped, Positions
<1>2. CASE ~(more /\ sc.beat < LastBeat[sc.stage])
  BY <1>2 DEF Beat
<1> QED  BY <1>1, <1>2

LEMMA UpdateTyped ==
  ASSUME NEW sc, SceneTyped(sc), NEW mode
  PROVE  SceneTyped(UpdateStage(sc, mode))
BY AtTyped, SnapTyped DEF UpdateStage, SceneTyped, Positions, Stages

LEMMA PhasesTyped ==
  ASSUME NEW phase \in Phases
  PROVE  /\ ExitInspect(phase) \in Phases /\ UpdateInspect(phase) \in Phases
         /\ SnapInspect(phase) \in Phases
BY DEF Phases, Entering, Leaving, ExitInspect, UpdateInspect, SnapInspect

LEMMA ZoomTyped ==
  ASSUME layout \in Layouts, zoom \in Zooms
  PROVE  /\ NoZoom \in Zooms
         /\ \A step \in Int : CutawayZoom(layout, step) \in 2 .. 6
         /\ \A phase \in Phases, more \in BOOLEAN : UpdateZoom(phase, more) \in Zooms
<1>1. layout \in 3 .. 5
  BY ConstantsAssumption
<1>2. \A step \in Int : CutawayZoom(layout, step) \in 2 .. 6
  BY <1>1 DEF CutawayZoom
<1>3. NoZoom \in Zooms
  BY DEF NoZoom, Zooms
<1>4. zoom.step \in Int
  BY DEF Zooms
<1>5. CutawayZoom(layout, zoom.step) \in 2 .. 6
  BY <1>2, <1>4
<1>6. ASSUME NEW phase \in Phases, NEW more \in BOOLEAN
      PROVE  UpdateZoom(phase, more) \in Zooms
  BY <1>3, <1>5 DEF UpdateZoom, Zooms
<1> QED  BY <1>2, <1>3, <1>6

(* The canvas is redrawn, or a new scene starts.                           *)
LEMMA RedrawTyped ==
  ASSUME CanvasTyped, NEW sc, SceneTyped(sc), NEW phase \in Phases, NEW exit \in BOOLEAN,
         Redraw(sc, phase, exit)
  PROVE  CanvasTyped'
<1>1. SceneTyped(scene') /\ ship' \in Phases
  BY DEF Redraw
<1>2. ToldTyped' /\ shown' \in Flags
  BY DEF Redraw, CanvasTyped, ToldTyped, Flags, Inspectable, CanInspect, SceneTyped, Positions
<1>3. /\ intro' \in BOOLEAN /\ flag' \in BOOLEAN /\ departed' \in BOOLEAN
      /\ page' \in {"loading", "normal"}
  BY DEF Redraw, NotifyStage, CanvasTyped
<1> QED  BY <1>1, <1>2, <1>3 DEF CanvasTyped, SceneTyped

LEMMA NewSceneTyped ==
  ASSUME NEW status, NEW harbour \in BOOLEAN, NEW still \in BOOLEAN, NEW before \in Flags,
         NewScene(status, harbour, still, before)
  PROVE  /\ SceneTyped(scene') /\ ship' \in Phases
         /\ ToldTyped' /\ shown' \in Flags /\ zoom' \in Zooms
<1> DEFINE mode == DeriveVoyage(status)
           sc   == IF harbour /\ ~still THEN ForceDock(mode) ELSE SnapStage(mode)
           can  == still /\ CanInspect(sc)
<1>1. SceneTyped(sc)
  BY SnapTyped
<1>2. can \in BOOLEAN
  BY DEF CanInspect
<1>3. /\ scene' = sc /\ ship' = "none" /\ zoom' = NoZoom
      /\ told' = [stage |-> sc.stage, inspectable |-> can, inspecting |-> FALSE]
      /\ shown' = [before EXCEPT !.inspectable = @ \/ can]
  BY DEF NewScene
<1> HIDE DEF mode, sc, can
<1>4. ToldTyped' /\ shown' \in Flags
  BY <1>1, <1>2, <1>3 DEF ToldTyped, Flags, SceneTyped, Positions
<1> QED  BY <1>1, <1>3, <1>4 DEF Phases, NoZoom, Zooms, SceneTyped

LEMMA MountTyped ==
  ASSUME Typed, NEW status, NEW loading \in BOOLEAN, MountView(status, loading)
  PROVE  /\ SceneTyped(scene') /\ ship' \in Phases
         /\ ToldTyped' /\ shown' \in Flags /\ zoom' \in Zooms
         /\ intro' \in BOOLEAN /\ dock' \in BOOLEAN /\ steady' \in BOOLEAN
         /\ popup' \in [stored : BOOLEAN, closed : BOOLEAN]
<1>1. [inspectable |-> FALSE, inspecting |-> FALSE] \in Flags /\ reduced \in BOOLEAN
  BY DEF Flags, Typed, RestTyped
<1>2. /\ SceneTyped(scene') /\ ship' \in Phases
      /\ ToldTyped' /\ shown' \in Flags /\ zoom' \in Zooms
  BY <1>1, NewSceneTyped DEF MountView
<1>3. popup' \in [stored : BOOLEAN, closed : BOOLEAN]
  BY DEF MountView, Typed, RestTyped
<1> QED  BY <1>2, <1>3 DEF MountView

LEMMA TypedInit == Init => Typed
<1> SUFFICES ASSUME Init  PROVE Typed
  OBVIOUS
<1>1. flag \in BOOLEAN /\ run \in Statuses /\ server \in Statuses
  BY DEF Init, Statuses
<1>2. /\ intro \in BOOLEAN /\ dock \in BOOLEAN /\ page \in {"loading", "normal"}
      /\ departed \in BOOLEAN /\ reduced \in BOOLEAN
  BY <1>1 DEF Init, Loads
<1>3. SceneTyped(scene)
  BY SnapTyped DEF Init
<1>4. ToldTyped /\ shown \in Flags /\ ship \in Phases /\ zoom \in Zooms
  BY <1>2, <1>3 DEF Init, ToldTyped, Flags, Phases, Zooms, NoZoom, SceneTyped, Positions, CanInspect
<1>5. RestTyped
  BY <1>1, <1>2, ConstantsAssumption DEF Init, RestTyped
<1> QED  BY <1>1, <1>2, <1>3, <1>4, <1>5 DEF Typed, CanvasTyped

(* The voyage of the still picture, and of a frame.                        *)
LEMMA StillTyped ==
  ASSUME CanvasTyped, NEW status, NEW phase \in Phases, NEW exit \in BOOLEAN,
         Still(status, phase, exit)
  PROVE  CanvasTyped'
BY SnapTyped, RedrawTyped DEF Still

LEMMA RunTyped ==
  ASSUME Typed,
         \/ RunMoves \/ CheckedAgain \/ StartedAgain \/ StartRun
         \/ StartAnswered \/ StartRefused \/ Poll
  PROVE  Typed'
<1>0. CASE CheckedAgain
  BY <1>0, ConstantsAssumption
  DEF CheckedAgain, Trouble, canvas, mount, Typed, CanvasTyped, RestTyped, ToldTyped, SceneTyped
<1>1. CASE RunMoves \/ StartedAgain \/ StartRun \/ StartAnswered
  <2>1. UNCHANGED <<canvas, mount, world, run>>
    BY <1>1 DEF RunMoves, StartedAgain, StartRun, StartAnswered, runs
  <2>2. /\ server' \in Statuses /\ start' \in {"idle", "calling", "done"}
        /\ again' \in {"none", "checked", "admitted"}
    BY <1>1 DEF RunMoves, StartedAgain, StartRun, StartAnswered, runs, Admitted, Statuses,
                Typed, RestTyped
  <2> QED  BY <2>1, <2>2 DEF canvas, mount, world, Typed, CanvasTyped, RestTyped, ToldTyped, SceneTyped
<1>2. CASE StartRefused
  BY <1>2, ConstantsAssumption
  DEF StartRefused, Trouble, runs, mount, Typed, CanvasTyped, RestTyped, ToldTyped, SceneTyped
<1>3. CASE Poll
  <2>1. run' \in Statuses /\ UNCHANGED <<server, again, start, mount, world>> /\ ship \in Phases
    BY <1>3 DEF Poll, Typed, RestTyped, CanvasTyped
  <2>2. CanvasTyped' /\ zoom' \in Zooms
    <3>1. CASE reduced
      <4>1. Still(run', ship, FALSE) /\ zoom' = zoom
        BY <1>3, <3>1 DEF Poll
      <4> QED  BY <2>1, <4>1, StillTyped DEF Typed
    <3>2. CASE ~reduced
      BY <1>3, <3>2 DEF Poll, canvas, Typed, CanvasTyped, ToldTyped, SceneTyped
    <3> QED  BY <3>1, <3>2
  <2> QED  BY <2>1, <2>2 DEF Typed, RestTyped, mount, world
<1> QED  BY <1>0, <1>1, <1>2, <1>3

LEMMA PageTyped ==
  ASSUME Typed, Reload \/ Remount \/ SwitchMotion \/ Hide \/ Show \/ Resize \/ Dismiss
  PROVE  Typed'
<1>1. CASE Reload
  <2>1. server' \in Statuses /\ run' \in Statuses
    BY <1>1 DEF Reload, Admitted, Statuses, Typed, RestTyped
  <2>2. Loads(run', flag) \in BOOLEAN
    BY DEF Loads, Typed, CanvasTyped
  <2>3. MountView(run', Loads(run', flag))
    BY <1>1 DEF Reload
  <2>4. /\ SceneTyped(scene') /\ ship' \in Phases
        /\ ToldTyped' /\ shown' \in Flags /\ zoom' \in Zooms
        /\ intro' \in BOOLEAN /\ dock' \in BOOLEAN /\ steady' \in BOOLEAN
        /\ popup' \in [stored : BOOLEAN, closed : BOOLEAN]
    BY <2>2, <2>3, MountTyped
  <2>5. /\ page' \in {"loading", "normal"} /\ start' = "idle" /\ visible' = TRUE
        /\ trouble' \in 0 .. MaxTrouble /\ UNCHANGED <<again, flag, reduced, layout, departed>>
    BY <1>1, ConstantsAssumption DEF Reload, Trouble, Typed, RestTyped
  <2> QED  BY <2>1, <2>4, <2>5 DEF Typed, CanvasTyped, RestTyped, SceneTyped
<1>2. CASE Remount
  <2>1. MountView(run, page = "loading")
    BY <1>2 DEF Remount
  <2>2. /\ SceneTyped(scene') /\ ship' \in Phases
        /\ ToldTyped' /\ shown' \in Flags /\ zoom' \in Zooms
        /\ intro' \in BOOLEAN /\ dock' \in BOOLEAN /\ steady' \in BOOLEAN
        /\ popup' \in [stored : BOOLEAN, closed : BOOLEAN]
    BY <2>1, MountTyped
  <2>3. /\ UNCHANGED <<runs, flag, page, start, reduced, visible, layout, departed>>
        /\ trouble' \in 0 .. MaxTrouble
    BY <1>2, ConstantsAssumption DEF Remount, Trouble, Typed, RestTyped
  <2> QED  BY <2>2, <2>3 DEF runs, Typed, CanvasTyped, RestTyped, SceneTyped
<1>3. CASE SwitchMotion
  <2>1. NewScene(run, dock, reduced', shown) /\ reduced' \in BOOLEAN
    BY <1>3 DEF SwitchMotion
  <2>2. /\ SceneTyped(scene') /\ ship' \in Phases
        /\ ToldTyped' /\ shown' \in Flags /\ zoom' \in Zooms
    BY <2>1, NewSceneTyped DEF Typed, CanvasTyped, RestTyped
  <2>3. /\ UNCHANGED <<runs, flag, page, start, intro, dock, popup, visible, layout, departed>>
        /\ steady' = FALSE /\ trouble' \in 0 .. MaxTrouble
    BY <1>3, ConstantsAssumption DEF SwitchMotion, Trouble, Typed, RestTyped
  <2> QED  BY <2>1, <2>2, <2>3 DEF runs, Typed, CanvasTyped, RestTyped, SceneTyped
<1>4. CASE Hide \/ Show \/ Resize \/ Dismiss
  <2>1. UNCHANGED <<runs, start, canvas, dock, steady, reduced>>
    BY <1>4 DEF Hide, Show, Resize, Dismiss, mount, world
  <2>2. /\ visible' \in BOOLEAN /\ layout' \in Layouts /\ trouble' \in 0 .. MaxTrouble
        /\ popup' \in [stored : BOOLEAN, closed : BOOLEAN]
    <3>1. CASE Hide \/ Resize
      <4>1. trouble' \in 0 .. MaxTrouble
        BY <3>1, ConstantsAssumption DEF Hide, Resize, Trouble, Typed, RestTyped
      <4>2. visible' \in BOOLEAN /\ layout' \in Layouts /\ popup' = popup
        BY <3>1 DEF Hide, Resize, mount, Typed, RestTyped
      <4> QED  BY <4>1, <4>2 DEF Typed, RestTyped
    <3>2. CASE Show
      BY <3>2 DEF Show, mount, Typed, RestTyped
    <3>3. CASE Dismiss
      BY <3>3 DEF Dismiss, world, Typed, RestTyped
    <3> QED  BY <1>4, <3>1, <3>2, <3>3
  <2> QED  BY <2>1, <2>2 DEF runs, canvas, Typed, CanvasTyped, RestTyped, ToldTyped, SceneTyped
<1> QED  BY <1>1, <1>2, <1>3, <1>4

LEMMA CanvasStepTyped ==
  ASSUME Typed, \/ \E more \in BOOLEAN : Frame(more)
                \/ ClickShip \/ LeaveInspect \/ \E dir \in {-1, 1} : ZoomInspect(dir)
  PROVE  Typed'
<1>0. /\ CanvasTyped /\ ship \in Phases /\ SceneTyped(scene) /\ zoom \in Zooms
      /\ layout \in Layouts
  BY DEF Typed, CanvasTyped, RestTyped
<1>1. UNCHANGED <<runs, start, mount, world>>
  BY DEF Frame, ClickShip, LeaveInspect, ZoomInspect
<1>2. CanvasTyped' /\ zoom' \in Zooms
  <2>1. ASSUME NEW more \in BOOLEAN, Frame(more)  PROVE CanvasTyped' /\ zoom' \in Zooms
    <3> DEFINE sc    == UpdateStage(Beat(scene, more), DeriveVoyage(run))
               phase == IF more THEN UpdateInspect(ship) ELSE ship
    <3>1. SceneTyped(sc) /\ phase \in Phases
      BY <1>0, BeatTyped, UpdateTyped, PhasesTyped
    <3>2. Redraw(sc, phase, TRUE) /\ zoom' = UpdateZoom(ship, more)
      BY <2>1 DEF Frame
    <3> HIDE DEF sc, phase
    <3>3. CanvasTyped'
      BY <1>0, <3>1, <3>2, RedrawTyped
    <3>4. UpdateZoom(ship, more) \in Zooms
      BY <1>0, ZoomTyped
    <3> QED  BY <3>2, <3>3, <3>4
  <2>2. CASE ClickShip
    <3>1. CASE reduced
      <4>1. Still(run, "hold", TRUE) /\ zoom' = [step |-> 0, drawn |-> CutawayZoom(layout, 0)]
        BY <2>2, <3>1 DEF ClickShip
      <4>2. CutawayZoom(layout, 0) \in 2 .. 6 /\ "hold" \in Phases
        BY <1>0, ZoomTyped DEF Phases, Entering
      <4>3. CanvasTyped'
        BY <1>0, <4>1, <4>2, StillTyped
      <4> QED  BY <4>1, <4>2, <4>3 DEF Zooms
    <3>2. CASE ~reduced
      <4>1. Redraw(scene, "enterSpin", TRUE) /\ zoom' = NoZoom /\ "enterSpin" \in Phases
        BY <2>2, <3>2 DEF ClickShip, Phases, Entering
      <4> QED  BY <1>0, <4>1, RedrawTyped, ZoomTyped
    <3> QED  BY <3>1, <3>2
  <2>3. CASE LeaveInspect
    <3>1. CASE reduced
      <4>1. Still(run, SnapInspect(ExitInspect(ship)), TRUE) /\ zoom' = NoZoom
        BY <2>3, <3>1 DEF LeaveInspect
      <4>2. SnapInspect(ExitInspect(ship)) \in Phases
        BY <1>0, PhasesTyped
      <4> QED  BY <1>0, <4>1, <4>2, StillTyped, ZoomTyped
    <3>2. CASE ~reduced
      BY <1>0, <2>3, <3>2, PhasesTyped DEF LeaveInspect, CanvasTyped, ToldTyped, SceneTyped
    <3> QED  BY <3>1, <3>2
  <2>4. ASSUME NEW dir \in {-1, 1}, ZoomInspect(dir)  PROVE CanvasTyped' /\ zoom' \in Zooms
    <3> DEFINE after == CutawayZoom(layout, zoom.step + dir)
    <3>1. after \in 2 .. 6 /\ layout \in 3 .. 5
      <4>1. zoom.step + dir \in Int
        BY <1>0, <2>4 DEF Zooms
      <4> QED  BY <1>0, <4>1, ZoomTyped, ConstantsAssumption
    <3>2. /\ zoom' \in {[step |-> after - layout, drawn |-> after],
                        [step |-> after - layout, drawn |-> zoom.drawn]}
          /\ \/ Still(run, ship, FALSE)
             \/ UNCHANGED <<intro, scene, ship, told, shown, page, flag, departed>>
      BY <2>4 DEF ZoomInspect
    <3> HIDE DEF after
    <3>3. zoom' \in Zooms
      BY <1>0, <3>1, <3>2 DEF Zooms
    <3>4. CanvasTyped'
      BY <1>0, <3>2, StillTyped DEF CanvasTyped, ToldTyped, SceneTyped
    <3> QED  BY <3>3, <3>4
  <2> QED  BY <2>1, <2>2, <2>3, <2>4
<1>3. RestTyped'
  BY <1>1 DEF Typed, RestTyped, runs, mount, world
<1> QED  BY <1>2, <1>3 DEF Typed

LEMMA TypedStep == Typed /\ [Next]_vars => Typed'
<1>1. CASE UNCHANGED vars
  BY <1>1 DEF vars, runs, canvas, mount, world, Typed, CanvasTyped, RestTyped, ToldTyped, SceneTyped
<1> QED  BY <1>1, RunTyped, PageTyped, CanvasStepTyped DEF Next

(* Every variable keeps its type, whatever fails and however the user      *)
(* moves: the scene knows no beat that its stage does not have, and the    *)
(* zoom of the cutaway stays between 2 and 6 for every layout.             *)
THEOREM VoyageTypes == Spec => []TypeOK
<1>1. Typed => TypeOK
  BY DEF Typed, CanvasTyped, RestTyped, SceneTyped, ToldTyped, Positions, Flags, Phases, Zooms, TypeOK
<1> QED  BY <1>1, TypedInit, TypedStep, PTL DEF Spec

-----------------------------------------------------------------------------
(* What the canvas told last is what React shows, unless reduced motion    *)
(* was switched; and what it told is what the canvas is at, though it may  *)
(* not have told yet that the ship can be inspected.                       *)

Echo ==
  /\ told.inspectable => Inspectable(scene, ship)
  /\ told.inspecting = (ship # "none")
  /\ steady => /\ shown.inspectable = told.inspectable
               /\ shown.inspecting = told.inspecting

(* A redraw may leave out onInspectChange only if the ship keeps being     *)
(* inspected or not.                                                       *)
LEMMA RedrawEchoes ==
  ASSUME CanvasTyped, Echo, steady' = steady, NEW sc, NEW phase \in Phases, NEW exit \in BOOLEAN,
         exit \/ ((phase # "none") = (ship # "none")), Redraw(sc, phase, exit)
  PROVE  Echo'
<1> DEFINE can  == Inspectable(sc, phase)
           lift == IF exit THEN phase # "none" ELSE told.inspecting
<1>1. can \in BOOLEAN /\ lift \in BOOLEAN /\ lift = (phase # "none")
  BY DEF Inspectable, CanInspect, Echo
<1>2. /\ scene' = sc /\ ship' = phase
      /\ told'.inspectable = can /\ told'.inspecting = lift
      /\ shown'.inspectable = IF can # told.inspectable THEN can ELSE shown.inspectable
      /\ shown'.inspecting = IF lift # told.inspecting THEN lift ELSE shown.inspecting
  BY DEF Redraw
<1>3. Inspectable(sc, phase)' = can
  BY <1>2 DEF Inspectable, CanInspect
<1>4. told'.inspectable => Inspectable(scene', ship')
  BY <1>2 DEF Inspectable, CanInspect
<1> HIDE DEF can, lift
<1>5. told'.inspecting = (ship' # "none")
  BY <1>1, <1>2
<1>6. steady' => /\ shown'.inspectable = told'.inspectable
                 /\ shown'.inspecting = told'.inspecting
  BY <1>2 DEF Echo
<1> QED  BY <1>4, <1>5, <1>6 DEF Echo

LEMMA NewSceneEchoes ==
  ASSUME NEW status, NEW harbour \in BOOLEAN, NEW still \in BOOLEAN, NEW before \in Flags,
         NewScene(status, harbour, still, before),
         steady' => before = [inspectable |-> FALSE, inspecting |-> FALSE]
  PROVE  Echo'
<1> DEFINE mode == DeriveVoyage(status)
           sc   == IF harbour /\ ~still THEN ForceDock(mode) ELSE SnapStage(mode)
           can  == still /\ CanInspect(sc)
<1>1. /\ scene' = sc /\ ship' = "none"
      /\ told'.inspectable = can /\ told'.inspecting = FALSE
      /\ shown' = [before EXCEPT !.inspectable = @ \/ can]
  BY DEF NewScene
<1>2. can => Inspectable(scene', ship')
  BY <1>1 DEF Inspectable, CanInspect
<1>3. can \in BOOLEAN
  BY DEF CanInspect
<1> HIDE DEF can, sc, mode
<1>4. steady' => shown'.inspectable = can /\ shown'.inspecting = FALSE
  BY <1>1, <1>3 DEF Flags
<1> QED  BY <1>1, <1>2, <1>4 DEF Echo

LEMMA EchoInit == Init => Echo
<1> SUFFICES ASSUME Init  PROVE Echo
  OBVIOUS
<1>1. /\ ship = "none" /\ told.inspectable = (reduced /\ CanInspect(scene))
      /\ told.inspecting = FALSE
      /\ shown = [inspectable |-> told.inspectable, inspecting |-> FALSE]
  BY DEF Init
<1> QED  BY <1>1 DEF Echo, Inspectable

LEMMA EchoStays ==
  ASSUME Echo, UNCHANGED <<scene, ship, told, shown, steady>>
  PROVE  Echo'
BY DEF Echo, Inspectable, CanInspect

LEMMA EchoStep ==
  ASSUME Typed, Echo, [Next]_vars
  PROVE  Echo'
<1>0. /\ CanvasTyped /\ ship \in Phases /\ shown \in Flags
      /\ reduced \in BOOLEAN /\ dock \in BOOLEAN
      /\ [inspectable |-> FALSE, inspecting |-> FALSE] \in Flags
  BY DEF Typed, CanvasTyped, RestTyped, Flags
<1>1. CASE RunMoves \/ CheckedAgain \/ StartedAgain \/ StartRun \/ StartAnswered
            \/ StartRefused \/ Hide \/ Show \/ Resize \/ Dismiss \/ UNCHANGED vars
  <2>1. UNCHANGED <<scene, ship, told, shown, steady>>
    BY <1>1 DEF RunMoves, CheckedAgain, StartedAgain, StartRun, StartAnswered, StartRefused,
                Hide, Show, Resize, Dismiss, vars, canvas, mount
  <2> QED  BY <2>1, EchoStays
<1>2. CASE Poll
  <2>1. CASE reduced
    <3>1. Redraw(SnapStage(DeriveVoyage(run')), ship, FALSE) /\ steady' = steady
      BY <1>2, <2>1 DEF Poll, Still, mount
    <3> QED  BY <1>0, <3>1, RedrawEchoes
  <2>2. CASE ~reduced
    BY <1>2, <2>2, EchoStays DEF Poll, canvas, mount
  <2> QED  BY <2>1, <2>2
<1>3. CASE Reload
  <2>1. NewScene(run', Loads(run', flag), reduced, [inspectable |-> FALSE, inspecting |-> FALSE])
    BY <1>3 DEF Reload, MountView
  <2>2. Loads(run', flag) \in BOOLEAN
    BY DEF Loads, Typed, CanvasTyped
  <2> QED  BY <1>0, <2>1, <2>2, NewSceneEchoes
<1>4. CASE Remount
  <2>1. NewScene(run, page = "loading", reduced, [inspectable |-> FALSE, inspecting |-> FALSE])
    BY <1>4 DEF Remount, MountView
  <2> QED  BY <1>0, <2>1, NewSceneEchoes
<1>5. CASE SwitchMotion
  <2>1. NewScene(run, dock, reduced', shown) /\ reduced' \in BOOLEAN /\ ~steady'
    BY <1>5 DEF SwitchMotion
  <2> QED  BY <1>0, <2>1, NewSceneEchoes
<1>6. ASSUME NEW more \in BOOLEAN, Frame(more)  PROVE Echo'
  <2> DEFINE sc    == UpdateStage(Beat(scene, more), DeriveVoyage(run))
             phase == IF more THEN UpdateInspect(ship) ELSE ship
  <2>1. Redraw(sc, phase, TRUE) /\ steady' = steady
    BY <1>6 DEF Frame, mount
  <2>2. phase \in Phases
    BY <1>0, PhasesTyped
  <2> HIDE DEF sc, phase
  <2> QED  BY <1>0, <2>1, <2>2, RedrawEchoes
<1>7. CASE ClickShip
  <2>1. /\ steady' = steady
        /\ \/ Redraw(SnapStage(DeriveVoyage(run)), "hold", TRUE)
           \/ Redraw(scene, "enterSpin", TRUE)
    BY <1>7 DEF ClickShip, Still, mount
  <2>2. "hold" \in Phases /\ "enterSpin" \in Phases
    BY DEF Phases, Entering
  <2> QED  BY <1>0, <2>1, <2>2, RedrawEchoes
<1>8. CASE LeaveInspect
  <2>1. steady' = steady /\ ship # "none"
    BY <1>8 DEF LeaveInspect, mount
  <2>2. CASE reduced
    <3>1. Redraw(SnapStage(DeriveVoyage(run)), SnapInspect(ExitInspect(ship)), TRUE)
      BY <1>8, <2>2 DEF LeaveInspect, Still
    <3>2. SnapInspect(ExitInspect(ship)) \in Phases
      BY <1>0, PhasesTyped
    <3> QED  BY <1>0, <2>1, <3>1, <3>2, RedrawEchoes
  <2>3. CASE ~reduced
    <3>1. ship' = ExitInspect(ship) /\ UNCHANGED <<scene, told, shown>>
      BY <1>8, <2>3 DEF LeaveInspect
    <3>2. ship' # "none"
      BY <1>0, <2>1, <3>1 DEF ExitInspect, Phases, Entering, Leaving
    <3>3. ~told.inspectable
      BY <2>1 DEF Echo, Inspectable
    <3> QED  BY <2>1, <3>1, <3>2, <3>3 DEF Echo
  <2> QED  BY <2>2, <2>3
<1>9. ASSUME NEW dir, ZoomInspect(dir)  PROVE Echo'
  <2>1. /\ steady' = steady
        /\ \/ Redraw(SnapStage(DeriveVoyage(run)), ship, FALSE)
           \/ UNCHANGED <<scene, ship, told, shown>>
    BY <1>9 DEF ZoomInspect, Still, mount
  <2> QED  BY <1>0, <2>1, RedrawEchoes, EchoStays
<1> QED  BY <1>1, <1>2, <1>3, <1>4, <1>5, <1>6, <1>7, <1>8, <1>9 DEF Next

(* The hint to click the ferry appears only while a click opens it, and    *)
(* the help of the cutaway exactly while it is open, although notifyStage, *)
(* notifyInspectable and notifyInspect tell React changes only.            *)
THEOREM ReactIsInStep == Spec => []ReactInStep
<1>1. Typed /\ Echo => ReactInStep
  BY DEF Typed, CanvasTyped, Echo, ReactInStep, ToldTyped, Flags
<1>2. Typed /\ Echo /\ [Next]_vars => Typed' /\ Echo'
  BY TypedStep, EchoStep
<1> QED  BY <1>1, <1>2, TypedInit, EchoInit, PTL DEF Spec

-----------------------------------------------------------------------------
(* Unless it is started again, a run moves on only, and the page's copy of *)
(* it is never ahead; so a ferry that has left its dock belongs to a run   *)
(* that waits no more.                                                     *)

Rank(status) ==
  IF status = "pending" THEN 0 ELSE IF status = "queued" THEN 1
  ELSE IF status = "live" THEN 2 ELSE 3

Away ==
  /\ Rank(run) <= Rank(server)
  /\ scene.stage # "dock" => run \notin Waiting
  /\ departed => ~flag /\ page = "normal" /\ run \notin Waiting

LEMMA WaitingRank ==
  \A status \in Statuses : Rank(status) \in Nat /\ (status \in Waiting <=> Rank(status) <= 1)
BY DEF Statuses, Waiting, Rank

LEMMA SnapDocks ==
  ASSUME NEW status \in Statuses
  PROVE  /\ SnapStage(DeriveVoyage(status)).stage # "dock" => status \notin Waiting
         /\ ForceDock(DeriveVoyage(status)).stage # "dock" => status \notin Waiting
BY DEF SnapStage, ForceDock, DeriveVoyage, At, Statuses, Waiting

LEMMA RedrawAway ==
  ASSUME Typed, Away, NEW sc, NEW phase, NEW exit, Redraw(sc, phase, exit), run' \in Statuses,
         sc.stage # "dock" => run' \notin Waiting, server' = server,
         Rank(run) <= Rank(run'), Rank(run') <= Rank(server')
  PROVE  Away'
<1>1. scene' = sc /\ NotifyStage(sc)
  BY DEF Redraw
<1>2. run \notin Waiting => run' \notin Waiting
  BY WaitingRank DEF Typed, RestTyped
<1>3. departed' => ~flag' /\ page' = "normal" /\ run' \notin Waiting
  BY <1>1, <1>2 DEF NotifyStage, Away, Typed, CanvasTyped
<1> QED  BY <1>1, <1>3 DEF Away

LEMMA FrameAway ==
  ASSUME Typed, Away, NEW more \in BOOLEAN, Frame(more)
  PROVE  Away'
<1> DEFINE sc == UpdateStage(Beat(scene, more), DeriveVoyage(run))
<1>1. Redraw(sc, IF more THEN UpdateInspect(ship) ELSE ship, TRUE) /\ UNCHANGED <<server, run>>
  BY DEF Frame, runs
<1>2. run \in Statuses /\ SceneTyped(scene)
  BY DEF Typed, CanvasTyped, RestTyped
<1>3. sc.stage # "dock" => run \notin Waiting
  <2>1. Beat(scene, more).stage = scene.stage /\ SceneTyped(Beat(scene, more))
    BY <1>2, BeatTyped
  <2>2. CASE run \in Waiting
    <3>1. scene.stage = "dock" /\ DeriveVoyage(run) = "pending"
      BY <2>2 DEF Away, DeriveVoyage, Waiting
    <3>2. sc = Beat(scene, more)
      BY <2>1, <3>1 DEF UpdateStage
    <3> QED  BY <2>1, <3>1, <3>2
  <2> QED  BY <2>2
<1> HIDE DEF sc
<1>4. Rank(run) <= Rank(run')
  BY <1>1, <1>2, WaitingRank
<1> QED  BY <1>1, <1>2, <1>3, <1>4, RedrawAway DEF Away

LEMMA AwayInit == Init => Away
<1> SUFFICES ASSUME Init  PROVE Away
  OBVIOUS
<1>1. run \in Statuses /\ run = server
  BY DEF Init, Statuses
<1>2. scene.stage # "dock" => run \notin Waiting
  BY <1>1, SnapDocks DEF Init
<1> QED  BY <1>1, <1>2, WaitingRank DEF Init, Away

LEMMA AwayStep ==
  ASSUME Typed, Away, [Next]_vars, ~StartedAgain
  PROVE  Away' /\ (departed => page' = "normal")
<1>0. run \in Statuses /\ server \in Statuses
  BY DEF Typed, RestTyped
<1>1. CASE RunMoves \/ StartAnswered
  <2>1. /\ server' \in Statuses /\ Rank(server) <= Rank(server')
    BY <1>0, <1>1 DEF RunMoves, StartAnswered, Admitted, Statuses, Rank
  <2>2. Rank(run) <= Rank(server')
    BY <1>0, <2>1, WaitingRank DEF Away
  <2>3. UNCHANGED <<run, scene, page, flag, departed>>
    BY <1>1 DEF RunMoves, StartAnswered, canvas
  <2> QED  BY <2>2, <2>3 DEF Away
<1>2. CASE CheckedAgain \/ StartRun \/ StartRefused \/ Hide \/ Show \/ Resize \/ Dismiss \/ UNCHANGED vars
  <2>1. UNCHANGED <<server, run, scene, flag, departed>> /\ page' \in {page, "normal"}
    BY <1>2 DEF CheckedAgain, StartRun, StartRefused, Hide, Show, Resize, Dismiss, vars, runs, canvas
  <2> QED  BY <2>1 DEF Away
<1>3. CASE Poll
  <2>1. server' = server /\ run' = server
    BY <1>3 DEF Poll
  <2>2. Rank(run) <= Rank(run') /\ Rank(run') <= Rank(server') /\ run' \in Statuses
    BY <1>0, <2>1, WaitingRank DEF Away
  <2>3. run \notin Waiting => run' \notin Waiting
    BY <1>0, <2>2, WaitingRank
  <2>4. CASE reduced
    <3>1. Redraw(SnapStage(DeriveVoyage(run')), ship, FALSE)
      BY <1>3, <2>4 DEF Poll, Still
    <3>2. SnapStage(DeriveVoyage(run')).stage # "dock" => run' \notin Waiting
      BY <2>2, SnapDocks
    <3>3. Away'
      BY <2>1, <2>2, <3>1, <3>2, RedrawAway
    <3>4. departed => page' = "normal"
      BY <3>1 DEF Redraw, NotifyStage, Away
    <3> QED  BY <3>3, <3>4
  <2>5. CASE ~reduced
    <3>1. UNCHANGED <<scene, flag, page, departed>>
      BY <1>3, <2>5 DEF Poll, canvas
    <3> QED  BY <2>1, <2>2, <2>3, <3>1 DEF Away
  <2> QED  BY <2>4, <2>5
<1>4. CASE Reload
  <2>1. server' \in Statuses /\ run' \in {server, run}
    BY <1>0, <1>4 DEF Reload, Admitted, Statuses
  <2>2. Rank(server) <= Rank(server')
    BY <1>0, <1>4 DEF Reload, Admitted, Statuses, Rank
  <2>3. run' \in Statuses /\ Rank(run) <= Rank(run') /\ Rank(run') <= Rank(server')
    <3>1. CASE run' = server
      BY <1>0, <2>1, <2>2, <3>1, WaitingRank DEF Away
    <3>2. CASE run' = run
      BY <1>0, <2>1, <2>2, <3>2, WaitingRank DEF Away
    <3> QED  BY <2>1, <3>1, <3>2
  <2>4. run \notin Waiting => run' \notin Waiting
    BY <1>0, <2>3, WaitingRank
  <2>5. UNCHANGED <<flag, departed>> /\ page' = IF Loads(run', flag) THEN "loading" ELSE "normal"
    BY <1>4 DEF Reload
  <2>6. departed => page' = "normal"
    BY <2>4, <2>5 DEF Away, Loads
  <2>7. scene'.stage # "dock" => run' \notin Waiting
    <3>1. scene' \in {ForceDock(DeriveVoyage(run')), SnapStage(DeriveVoyage(run'))}
      BY <1>4 DEF Reload, MountView, NewScene
    <3> QED  BY <2>3, <3>1, SnapDocks
  <2> QED  BY <2>3, <2>4, <2>5, <2>6, <2>7 DEF Away
<1>5. CASE Remount \/ SwitchMotion
  <2>1. UNCHANGED <<server, run, flag, page, departed>>
    BY <1>5 DEF Remount, SwitchMotion, runs
  <2>2. scene' \in {ForceDock(DeriveVoyage(run)), SnapStage(DeriveVoyage(run))}
    BY <1>5 DEF Remount, SwitchMotion, MountView, NewScene
  <2>3. scene'.stage # "dock" => run \notin Waiting
    BY <1>0, <2>2, SnapDocks
  <2> QED  BY <2>1, <2>3 DEF Away
<1>6. ASSUME NEW more \in BOOLEAN, Frame(more)
      PROVE  Away' /\ (departed => page' = "normal")
  <2>1. departed => page' = "normal"
    BY <1>6 DEF Frame, Redraw, NotifyStage, Away
  <2> QED  BY <1>6, <2>1, FrameAway
<1>7. ASSUME \/ ClickShip \/ LeaveInspect \/ \E dir \in {-1, 1} : ZoomInspect(dir)
      PROVE  Away' /\ (departed => page' = "normal")
  <2>0. Rank(run) <= Rank(run)
    BY <1>0, WaitingRank
  <2>1. UNCHANGED <<server, run>>
    BY <1>7 DEF ClickShip, LeaveInspect, ZoomInspect, runs
  <2>2. SnapStage(DeriveVoyage(run)).stage # "dock" => run \notin Waiting
    BY <1>0, SnapDocks
  <2>3. ASSUME NEW sc \in {scene, SnapStage(DeriveVoyage(run))}, NEW phase, NEW exit,
               Redraw(sc, phase, exit)
        PROVE  Away' /\ (departed => page' = "normal")
    <3>1. sc.stage # "dock" => run' \notin Waiting
      BY <2>1, <2>2 DEF Away
    <3>2. Away'
      BY <1>0, <2>0, <2>1, <2>3, <3>1, RedrawAway DEF Away
    <3>3. departed => page' = "normal"
      BY <2>3 DEF Redraw, NotifyStage, Away
    <3> QED  BY <3>2, <3>3
  <2>4. CASE UNCHANGED <<scene, page, flag, departed>>
    BY <2>1, <2>4 DEF Away
  <2> QED  BY <1>7, <2>3, <2>4 DEF ClickShip, LeaveInspect, ZoomInspect, Still
<1> QED  BY <1>1, <1>2, <1>3, <1>4, <1>5, <1>6, <1>7 DEF Next

Left == again = "admitted" \/ Away

LEMMA LeftStep ==
  ASSUME Typed, Left, [Next]_vars
  PROVE  Left' /\ (departed /\ again # "admitted" => page' = "normal")
<1>1. CASE again = "admitted"
  <2>1. again' = "admitted"
    BY <1>1 DEF Next, RunMoves, CheckedAgain, StartedAgain, StartRun, StartAnswered, StartRefused,
       Poll, Reload, Remount, SwitchMotion, Hide, Show, Resize, Frame, ClickShip, LeaveInspect,
       Dismiss, ZoomInspect, vars, runs
  <2> QED  BY <1>1, <2>1 DEF Left
<1>2. CASE again # "admitted" /\ StartedAgain
  <2>1. again' = "admitted" /\ page' = page
    BY <1>2 DEF StartedAgain, canvas
  <2> QED  BY <1>2, <2>1 DEF Left, Away
<1>3. CASE again # "admitted" /\ ~StartedAgain
  BY <1>3, AwayStep DEF Left
<1> QED  BY <1>1, <1>2, <1>3

(* A launch whose ferry has departed never sees the loading harbour again, *)
(* however the page is reloaded: the run has left the queue for good and   *)
(* the flag of the history entry is gone. Only a second StartRun that was  *)
(* admitted later turns a run back to the queue.                           *)
THEOREM LoadingIsOver == Spec => LoadingOnce
<1>1. Typed /\ Left /\ [Next]_vars =>
        Typed' /\ Left' /\ [departed /\ again # "admitted" => page' = "normal"]_vars
  BY TypedStep, LeftStep
<1>2. Init => Left
  BY AwayInit DEF Left
<1> QED  BY <1>1, <1>2, TypedInit, PTL DEF Spec, LoadingOnce
==============================================================================
