-------------------------------- MODULE Harbor --------------------------------
(***************************************************************************)
(* The two harbors of the voyage (voyage/harbor.ts, the footprints of      *)
(* voyage/voxel/harbor-models.ts) as functions: one frame of the boarding  *)
(* queue and the stern door, one of the unloading, where on the ground a   *)
(* vehicle is, and what stands on the quays.                               *)
(*                                                                         *)
(* Along the path, distances are in 1/1000 of a ground unit, speeds in     *)
(* those per second, times in milliseconds. Places on the ground are whole *)
(* units. A queue is a sequence of records [len, dist, speed], its first   *)
(* vehicle ahead; dist is where the nose is.                               *)
(***************************************************************************)
EXTENDS Integers, SequencesExt

Unit == 1000

VehicleLength == [car |-> 15, van |-> 17, truck |-> 22, bus |-> 22]
VehicleKinds  == <<"car", "van", "truck", "car", "bus", "car", "truck", "van">>

(* The boarding path: entry road, lane, ramp, and on into the hold.        *)
LaneY   == 7
IntX    == -64
RampX   == -16
DoorZ   == 3
EntryY  == 180
LegA    == EntryY - LaneY
LaneEnd == LegA + RampX - IntX
RampLen == 16
PathLen == LaneEnd + RampLen

(* The path of the cargo: the bridge, then inland to the gate.             *)
BridgeX     == 14
BridgeShipY == -16
BridgePadY  == -35
GateY       == -100
UnloadEnd   == BridgeShipY - GateY

-----------------------------------------------------------------------------
(* Vehicles.                                                               *)

MakeVehicle(kind, dist) ==
  [len |-> VehicleLength[kind] * Unit, dist |-> dist * Unit, speed |-> 0]

MaxSpeed == 16 * Unit
Gap      == 8 * Unit

Least(a, b)    == IF a < b THEN a ELSE b
Greatest(a, b) == IF a > b THEN a ELSE b

(* How far a vehicle may go, behind the next one or out of sight.          *)
Limit(q, i, end) ==
  IF i > 1 THEN q[i - 1].dist - q[i - 1].len - Gap ELSE (end + 6) * Unit + q[i].len

Drive(v, target, dt) ==
  LET speed == v.speed + ((target - v.speed) * Least(1000, 4 * dt)) \div 1000
  IN [v EXCEPT !.speed = speed, !.dist = @ + (speed * dt) \div 1000]

Ease(v, limit, top) == Greatest(0, Least(top, ((limit - v.dist) * 5) \div 2))

OnRamp(v)     == v.dist > LaneEnd * Unit
Gone(v, end)  == v.dist >= (end + 2) * Unit + v.len
Staying(q, end) == SelectSeq(q, LAMBDA v : ~Gone(v, end))

(* The boarding queue moves. When the ship casts off, whoever is on the    *)
(* ramp hurries and the others stop short of it.                           *)
Board(q, sealing, dt) ==
  LET Room(i)   == IF sealing THEN Least(Limit(q, i, PathLen), (LaneEnd - 6) * Unit)
                   ELSE Limit(q, i, PathLen)
      Target(i) == IF sealing /\ OnRamp(q[i]) THEN (MaxSpeed * 22) \div 10
                   ELSE Ease(q[i], Room(i), MaxSpeed)
  IN Staying([i \in DOMAIN q |-> Drive(q[i], Target(i), dt)], PathLen)

Unload(q, dt) ==
  Staying([i \in DOMAIN q |->
             Drive(q[i], Ease(q[i], Limit(q, i, UnloadEnd), (MaxSpeed * 8) \div 10), dt)],
          UnloadEnd)

(* A queue with fewer than most vehicles gets another when its timer is    *)
(* over and the last one has left enough room; s is [queue, timer].        *)
Refill(s, most, room, kind, wait, retry) ==
  LET tail == Last(s.queue)
  IN IF s.timer > 0 \/ Len(s.queue) >= most THEN s
     ELSE IF s.queue = <<>> \/ tail.dist - tail.len > Gap + room * Unit
     THEN [queue |-> Append(s.queue, MakeVehicle(kind, 0)), timer |-> wait]
     ELSE [s EXCEPT !.timer = retry]

RampStowDur == 900
DoorSealDur == 1000

Harbor0 ==
  [queue |-> [i \in 1 .. 6 |->
                MakeVehicle(VehicleKinds[i], <<210, 178, 146, 110, 72, 30>>[i])],
   timer |-> 2000, stow |-> 0, seal |-> 0]

(* updateHarbor: kind and wait are what the dice say. The ramp goes up     *)
(* when nobody is on it, then the door closes.                             *)
UpdateHarbor(h, sealing, kind, wait, dt) ==
  LET moved == [queue |-> Board(h.queue, sealing, dt), timer |-> h.timer - dt]
      line  == IF sealing THEN moved ELSE Refill(moved, 9, 4, kind, wait, 400)
      clear == \A i \in DOMAIN line.queue : ~OnRamp(line.queue[i])
      stow  == IF ~sealing THEN Greatest(0, h.stow - dt)
               ELSE IF clear THEN Least(RampStowDur, h.stow + dt) ELSE h.stow
  IN [queue |-> line.queue, timer |-> line.timer, stow |-> stow,
      seal  |-> IF ~sealing THEN Greatest(0, h.seal - dt)
                ELSE IF stow = RampStowDur THEN Least(DoorSealDur, h.seal + dt)
                ELSE h.seal]

NoCargo == [queue |-> <<>>, timer |-> 2000]

(* updateDestination: nothing is left of it when the ship is not moored.   *)
UpdateDestination(u, docked, kind, wait, dt) ==
  IF ~docked THEN NoCargo
  ELSE Refill([queue |-> Unload(u.queue, dt), timer |-> u.timer - dt], 4, 6, kind, wait, 500)

-----------------------------------------------------------------------------
(* On the ground. A box is <<x0, x1, y0, y1, z0, z1>>, its ends included.  *)

Point(x, y, z, heading) == [x |-> x, y |-> y, z |-> z, heading |-> heading]

PathPoint(dist) ==
  LET up == dist - LaneEnd
  IN CASE dist <= LegA -> Point(IntX, EntryY - dist, 0, "-y")
       [] dist > LegA /\ up <= 0 -> Point(IntX + dist - LegA, LaneY, 0, "x")
       [] up > 0 /\ up <= RampLen ->
            Point(RampX + up, (LaneY * (RampLen - up)) \div RampLen, (DoorZ * up) \div RampLen, "x")
       [] OTHER -> Point(up - RampLen, 0, DoorZ, "x")

DestPathPoint(dist) ==
  LET bridge == BridgeShipY - BridgePadY
  IN Point(BridgeX, BridgeShipY - dist,
           (DoorZ * Greatest(0, bridge - dist)) \div bridge, "-y")

Box(x, y, z, lx, ly, lz) == <<x, x + lx - 1, y, y + ly - 1, z, z + lz - 1>>
Apart(a, b) ==
  \E k \in {1, 3, 5} : a[k + 1] < b[k] \/ b[k + 1] < a[k]
Within(a, b) == \A k \in {1, 3, 5} : b[k] <= a[k] /\ a[k + 1] <= b[k + 1]

VehicleHeight == [car |-> 6, van |-> 9, truck |-> 10, bus |-> 9]

(* The vehicle is drawn with its nose at p, wherever it heads.             *)
VehicleAt(kind, p) ==
  LET len == VehicleLength[kind]
  IN IF p.heading = "-y" THEN Box(p.x - 3, p.y, p.z, 7, len, VehicleHeight[kind])
     ELSE Box(p.x - len, p.y - 3, p.z, len, 7, VehicleHeight[kind])

(* A quay and the roads painted on it.                                     *)
RoadHalfWidth == 5
Quay(x, y, lx, ly, laneY, laneX0, laneX1, entryX) ==
  [ground |-> Box(x, y, -2, lx, ly, 3),
   laneY  |-> laneY, laneX0 |-> laneX0, laneX1 |-> laneX1, entryX |-> entryX]

DepartQuay == Quay(-150, -14, 146, 204, LaneY, -130, RampX, IntX)
DestQuay   == Quay(-150, -144, 220, 110, -114, -130, 50, BridgeX)

OnRoad(quay, x, y) ==
  \/ y - quay.laneY \in -RoadHalfWidth .. RoadHalfWidth /\ x \in quay.laneX0 .. quay.laneX1
  \/ x - quay.entryX \in -RoadHalfWidth .. RoadHalfWidth /\ y >= quay.laneY

(* What stands on the quays.                                               *)
Terminal(x, y) == Box(x, y, 0, 46, 18, 17)
Lamp(x, y)     == Box(x, y, 0, 3, 3, 15)
Tree(x, y)     == Box(x, y, 0, 9, 9, 14)
Bollard(x, y)  == Box(x, y, 0, 3, 3, 4)
Container(x, y, z) == Box(x, y, z, 16, 7, 7)
Parked(x, y, i) == VehicleAt(VehicleKinds[i + 1], Point(x + VehicleLength[VehicleKinds[i + 1]], y + 3, 0, "x"))

DepartTerminal == Terminal(-118, 8)
DepartDressing ==
  {Lamp(-88, -8), Lamp(-56, -8), Lamp(-24, -8), Lamp(-74, 18),
   Tree(-104, -11), Tree(-40, -11), Tree(-58, 20),
   Parked(-49, 22, 0), Parked(-31, 22, 3), Parked(-49, 36, 5), Parked(-31, 36, 1),
   Parked(-93, 38, 6), Parked(-111, 38, 4)}
DepartBollards == {Bollard(-10, 20), Bollard(-7, 30)}

(* The gate: two pillars, the beam across the road and the guard hut.      *)
GateParts ==
  LET x == BridgeX - 9
      y == GateY - 2
  IN {Box(x, y + 1, 0, 3, 3, 11), Box(x + 16, y + 1, 0, 3, 3, 11),
      Box(x, y + 1, 11, 19, 3, 2), Box(x + 20, y, 0, 7, 5, 7)}

DestDressing ==
  {Terminal(-96, -112), Tree(-46, -118), Tree(-120, -96), Tree(-64, -52),
   Container(34, -88, 0), Container(52, -88, 0), Container(34, -88, 7),
   Container(44, -70, 0), Container(-78, -84, 0), Container(-60, -84, 0),
   Container(-78, -84, 7), Box(24, -80, 0, 9, 5, 8),
   Lamp(-52, -40), Lamp(-16, -40), Lamp(44, -40), Lamp(34, -96),
   Bollard(-8, -38), Bollard(36, -38)} \union GateParts

(* The corridors to which moving vehicles are clipped.                     *)
BoardingCorridor == <<-44, 0, -12, 12, 0, 18>>
UnloadCorridor   == <<BridgeX - 8, BridgeX + 8, GateY, BridgeShipY + 8, 0, 16>>
================================================================================
