------------------------------- MODULE MCVoyage -------------------------------
(* Model-checking instance of Voyage: the configurations bound the faults. *)
(* The assumptions check what is drawn on small inputs.                    *)
EXTENDS Voyage, FiniteSets, Sequences
Crew   == INSTANCE CrewSim
Voxels == INSTANCE VoxelModel
Port   == INSTANCE Harbor
Input  == INSTANCE CanvasInput

-----------------------------------------------------------------------------
(* A bubble is at most three lines of sixteen letters, and its words are   *)
(* those of the message up to where it was cut off.                        *)
ASSUME BubbleFits ==
  \A n \in 0 .. 5 : \A words \in [1 .. n -> {1, 7, 16, 20}] :
    LET wrapped == Crew!WrapBubbleText(words)
        widths  == Crew!LineWidths(wrapped)
        said    == Crew!FlattenSeq(wrapped.lines)
    IN /\ Len(widths) <= 3 /\ \A i \in DOMAIN widths : widths[i] <= 16
       /\ Len(said) <= n /\ \A i \in DOMAIN said : said[i] = Crew!Min({words[i], 16})
       /\ wrapped.truncated <=> Len(said) < n

MCMember(agent, cell, mode, status, timer) ==
  [min |-> Crew!MinX(agent), max |-> Crew!MaxX(agent), x |-> cell * Crew!Cell,
   target |-> cell * Crew!Cell, mode |-> mode, timer |-> timer, status |-> status,
   bubble |-> Crew!NoBubble]
Ticks(a, n) ==
  Crew!FoldLeft(LAMBDA b, i : Crew!Update(b, 100, 100 * i, b.target, 1000), a, [i \in 1 .. n |-> i])

(* Two members of a room who stand up to 28 cells apart have met when the  *)
(* three seconds of their talk are over. Farther apart they stop short.    *)
ASSUME MeetInTime ==
  \A s, r \in {"router", "source_analyzer"}, i \in {26, 40, 58, 72}, j \in 26 .. 72 :
    s # r /\ i - j \in -28 .. 28 =>
      LET met == Crew!MeetUp(MCMember(s, i, "idle", "idle", 500),
                             MCMember(r, j, "walk", "active", 0), 0, TRUE)
          end == [k \in 1 .. 2 |-> Ticks(met[k], 29)]
      IN /\ \A k \in 1 .. 2 : end[k].mode = "talk"
         /\ \A k \in 1 .. 2 : Crew!Size(end[k].x - end[k].target) <= Crew!Cell \div 2
         /\ end[2].target - end[1].target \in 180 .. 360

(* Nobody leaves his room.                                                 *)
ASSUME StaysInRoom ==
  \A agent \in DOMAIN Crew!Room, mode \in {"idle", "walk", "talk"},
     status \in {"idle", "active", "blocked"}, timer \in {50, 500} :
    LET a == MCMember(agent, Crew!Room[agent].x0 + 1, mode, status, timer)
        b == Crew!Update([a EXCEPT !.target = a.max], 100, 0, a.max, 700)
    IN /\ b.x \in a.min .. a.max /\ b.target \in a.min .. a.max
       /\ b.mode = "walk" /\ mode # "walk" => status # "blocked"

-----------------------------------------------------------------------------
MCGrid(solid) ==
  [p \in Voxels!Cells(2, 2, 2) |->
     IF p \in solid THEN 1 + p[1] + 2 * p[2] + 4 * p[3] ELSE 0]

(* In the four elevations every place of the picture shows the voxel that  *)
(* is nearest to the camera, though hidden voxels are left out.            *)
ASSUME NearestShown ==
  \A solid \in SUBSET Voxels!Cells(2, 2, 2), h \in {<<1, 0>>, <<-1, 0>>, <<0, 1>>, <<0, -1>>} :
    LET across == IF h[1] # 0 THEN 1 ELSE 2  \* the axis along the picture
        along  == 3 - across                 \* the axis of sight
        g      == MCGrid(solid)
        spot    == [p \in DOMAIN g, f \in DOMAIN Voxels!Toward |->
                      IF f = "pz" THEN <<"edge on">> ELSE <<p[across], p[3]>>]
        picture == Voxels!Picture(g, h[1], h[2], 20, spot)
        Nearer(p, q) == IF h[1] > 0 \/ h[2] < 0 THEN p[along] > q[along] ELSE p[along] < q[along]
        Row(at)     == {p \in solid : <<p[across], p[3]>> = at}
    IN \A at \in {<<p[across], p[3]>> : p \in solid} :
         /\ at \in DOMAIN picture
         /\ picture[at] = g[CHOOSE p \in Row(at) : \A q \in Row(at) \ {p} : Nearer(p, q)]

(* At every heading a voxel is painted after the neighbors that it hides.  *)
ASSUME HiderLater ==
  \A c, s \in -5 .. 5 : c * c + s * s \in {25, 50} =>
    \A p, q \in Voxels!Cells(2, 2, 2), f \in Voxels!VisibleFaces(c, s) :
      q = Voxels!Beside(p, f) => Voxels!Key(q, c, s, 1) > Voxels!Key(p, c, s, 1)

(* The foam is never drawn on the ship.                                    *)
ASSUME FoamOnWater ==
  \A hull \in SUBSET ((0 .. 2) \X (0 .. 2)), frame \in 0 .. 3 :
    Voxels!Foam(hull, 4, 4, frame) \cap hull = {}
-----------------------------------------------------------------------------
(* The harbor after each of n frames of dt.                                *)
MCFrames(h, n, sealing, dt) ==
  Port!FoldLeft(LAMBDA s, i :
                  Append(s, Port!UpdateHarbor(Port!Last(s), sealing,
                                              IF i % 2 = 0 THEN "truck" ELSE "car", 1600, dt)),
                <<h>>, [i \in 1 .. n |-> i])
MCUnloading(n, kind, dt) ==
  Port!FoldLeft(LAMBDA s, i : Append(s, Port!UpdateDestination(Port!Last(s), TRUE, kind, 2500, dt)),
                <<Port!NoCargo>>, [i \in 1 .. n |-> i])
KeepsGap(q) == \A i \in 2 .. Len(q) : q[i - 1].dist - q[i - 1].len - q[i].dist >= 6 * Port!Unit

(* Whenever the ship casts off, nobody has run into the one ahead, and the *)
(* door closes behind the last one within three and a half seconds.        *)
ASSUME CastsOffClean ==
  \A dt \in {50, 100} :
    LET loading == MCFrames(Port!Harbor0, 16000 \div dt, FALSE, dt)
    IN \A i \in DOMAIN loading :
         /\ KeepsGap(loading[i].queue) /\ Len(loading[i].queue) \in 1 .. 9
         /\ i % 4 = 0 =>
              LET off == MCFrames(loading[i], 3500 \div dt, TRUE, dt)
              IN /\ Port!Last(off).seal = Port!DoorSealDur
                 /\ \A j \in DOMAIN off :
                      /\ KeepsGap(off[j].queue)
                      /\ off[j].seal > 0 =>
                           \A k \in DOMAIN off[j].queue : ~Port!OnRamp(off[j].queue[k])

ASSUME UnloadsInLine ==
  \A dt \in {50, 100}, kind \in {"truck", "van"} :
    LET unloading == MCUnloading(20000 \div dt, kind, dt)
    IN \A i \in DOMAIN unloading :
         KeepsGap(unloading[i].queue) /\ Len(unloading[i].queue) <= 4

(* Vehicles drive on painted road and through nothing that stands on the   *)
(* quays, except that the tail of one that turns into the lane swings      *)
(* through the terminal. What is clipped from them is behind the doors.    *)
ASSUME WayIsClear ==
  \A kind \in DOMAIN Port!VehicleLength :
    /\ \A dist \in 0 .. Port!LaneEnd :
         LET v == Port!VehicleAt(kind, Port!PathPoint(dist))
         IN /\ \A x \in v[1] .. v[2], y \in v[3] .. v[4] : Port!OnRoad(Port!DepartQuay, x, y)
            /\ \A box \in Port!DepartDressing \union Port!DepartBollards : Port!Apart(box, v)
            /\ dist \in Port!LegA + 1 .. Port!LegA + 13 \/ Port!Apart(Port!DepartTerminal, v)
    /\ \A dist \in Port!LaneEnd + 1 .. Port!PathLen + 24 :
         LET v == Port!VehicleAt(kind, Port!PathPoint(dist))
         IN v[1] > 0 \/ Port!Within([v EXCEPT ![2] = Port!Least(0, @)], Port!BoardingCorridor)
    /\ \A dist \in 0 .. Port!UnloadEnd :
         LET v == Port!VehicleAt(kind, Port!DestPathPoint(dist))
         IN /\ \A box \in Port!DestDressing : Port!Apart(box, v)
            /\ Port!Within([v EXCEPT ![4] = Port!Least(-8, @)], Port!UnloadCorridor)

(* Nothing on a quay stands in anything else, but for a lamp in the        *)
(* terminal and a bus in the truck beside it.                              *)
ASSUME StandsApart ==
  LET Clashes(things) == {{a, b} : a, b \in things} \
                         ({{a} : a \in things} \union
                          {{a, b} : <<a, b>> \in {p \in things \X things : Port!Apart(p[1], p[2])}})
  IN /\ Clashes(Port!DestDressing) = {}
     /\ Clashes(Port!DepartDressing \union Port!DepartBollards \union {Port!DepartTerminal}) =
          {{Port!DepartTerminal, Port!Lamp(-74, 18)},
           {Port!Parked(-93, 38, 6), Port!Parked(-111, 38, 4)}}

-----------------------------------------------------------------------------
MCShip  == [x0 |-> 160, x1 |-> 240, y0 |-> 100, y1 |-> 150]
MCSize  == <<400, 250>>
MCSpots == {<<10, 10>>, <<12, 10>>, <<200, 120>>, <<201, 121>>, <<390, 240>>}

(* Wherever the ship is dragged to, a margin of it stays on the canvas. A  *)
(* press ends the inspection if it neither went far in one event nor ended *)
(* on the ship.                                                            *)
ASSUME ClickOrDrag ==
  \A n \in 1 .. 4 : \A path \in [1 .. n -> MCSpots] :
    LET down == Input!MouseDown(Input!Calm("hold", FALSE), path[1])
        up   == Input!MouseUp(Input!FoldLeft(
                  LAMBDA s, p : Input!MouseMove(s, p, MCShip, MCSize), down, Tail(path)))
        at   == Input!Moved(MCShip, up.pan)
        Near(p, q) == p = q \/ {p, q} = {<<200, 120>>, <<201, 121>>}
    IN /\ at.x1 >= Input!Margin.x /\ at.x0 <= MCSize[1] - Input!Margin.x
       /\ at.y1 >= Input!Margin.y /\ at.y0 <= MCSize[2] - Input!Margin.y
       /\ Input!Click(up, path[n], at) = "leave" <=>
            (\A i \in 2 .. n : Near(path[i], path[i - 1])) /\ ~Input!Inside(path[n], at)

(* The zoom follows all that the wheel has turned, in steps.               *)
ASSUME NoTurnLost ==
  \A n \in 1 .. 4 : \A turns \in [1 .. n -> {-100, -39, -7, 12, 40, 53}] :
    LET Turn(r, delta) == LET w == Input!Wheel(r.input, delta)
                          IN [input |-> w.input, steps |-> r.steps \o w.steps]
        r == Input!FoldLeft(Turn, [input |-> Input!Calm("hold", FALSE), steps |-> <<>>], turns)
        Total(seq) == Input!FoldLeft(LAMBDA a, b : a + b, 0, seq)
    IN /\ Total(turns) = r.input.wheel - Input!Notch * Total(r.steps)
       /\ r.input.wheel \in -39 .. 39
==============================================================================
