------------------------------ MODULE CanvasInput ------------------------------
(***************************************************************************)
(* What the user does to the canvas of the voyage (the listeners of        *)
(* voyage/use-voyage-scene.ts, the panning of voyage/inspect.ts), as       *)
(* functions of one event: they decide when the actions ClickShip,         *)
(* LeaveInspect and ZoomInspect of Voyage are taken.                       *)
(*                                                                         *)
(* A point <<x, y>> is in pixels of the art, a box is [x0, x1, y0, y1].    *)
(* The input is a record [phase, can, dragging, moved, last, pan, wheel,   *)
(* keys]: phase is that of the inspection, "none" at sea; can is           *)
(* canInspect.                                                             *)
(***************************************************************************)
EXTENDS Integers, SequencesExt

Calm(phase, can) ==
  [phase |-> phase, can |-> can, dragging |-> FALSE, moved |-> FALSE,
   last |-> <<0, 0>>, pan |-> <<0, 0>>, wheel |-> 0, keys |-> {}]

Inside(p, box) ==
  /\ box.x0 <= p[1] /\ p[1] < box.x1
  /\ box.y0 <= p[2] /\ p[2] < box.y1

Moved(box, by) ==
  [x0 |-> box.x0 + by[1], x1 |-> box.x1 + by[1], y0 |-> box.y0 + by[2], y1 |-> box.y1 + by[2]]

-----------------------------------------------------------------------------
(* Clicks: a click beside the ship ends the inspection, unless it is the   *)
(* end of a drag; one on the ship at sea begins it.                        *)

Click(s, p, ship) ==
  CASE s.phase # "none" /\ ~s.moved /\ ~Inside(p, ship) -> "leave"
    [] s.phase = "none" /\ Inside(p, ship) /\ s.can     -> "open"
    [] OTHER -> "nothing"

Cursor(s, p, ship) ==
  CASE s.dragging           -> "grabbing"
    [] s.phase = "hold"     -> "grab"
    [] s.phase = "none" /\ s.can /\ Inside(p, ship) -> "pointer"
    [] OTHER -> "default"

Hovers(s, p, ship) == Cursor(s, p, ship) = "pointer"

-----------------------------------------------------------------------------
(* Panning.                                                                *)

Margin == [x |-> 72, y |-> 48]

Between(lo, hi, n) == LET m == IF n < lo THEN lo ELSE n IN IF hi < m THEN hi ELSE m

(* clampPan: on each axis a margin of the ship stays on the canvas of the  *)
(* given size; ship is where it is drawn without panning.                  *)
ClampPan(pan, ship, size) ==
  <<Between(Margin.x - ship.x1, size[1] - Margin.x - ship.x0, pan[1]),
    Between(Margin.y - ship.y1, size[2] - Margin.y - ship.y0, pan[2])>>

(* Only a press while the cutaway is held begins to drag.                  *)
MouseDown(s, p) ==
  IF s.phase = "hold" THEN [s EXCEPT !.moved = FALSE, !.dragging = TRUE, !.last = p]
  ELSE [s EXCEPT !.moved = FALSE]

(* More than a pixel in one event makes it a drag.                         *)
MouseMove(s, p, ship, size) ==
  LET dx == p[1] - s.last[1]
      dy == p[2] - s.last[2]
  IN IF ~s.dragging \/ s.phase # "hold" THEN s
     ELSE [s EXCEPT !.pan   = ClampPan(<<@[1] + dx, @[2] + dy>>, ship, size),
                    !.moved = @ \/ dx \notin -1 .. 1 \/ dy \notin -1 .. 1,
                    !.last  = p]

MouseUp(s) == [s EXCEPT !.dragging = FALSE]

Arrows == [ArrowLeft |-> <<-1, 0>>, ArrowRight |-> <<1, 0>>,
           ArrowUp |-> <<0, -1>>, ArrowDown |-> <<0, 1>>]

PanBy(s, key, step, ship, size) ==
  [s EXCEPT !.pan = ClampPan(<<@[1] + step * Arrows[key][1], @[2] + step * Arrows[key][2]>>,
                             ship, size)]

(* A key: Escape leaves, an arrow is held until it is released; without    *)
(* frames it pans by a step at once.                                       *)
KeyDown(s, key, reduced, ship, size) ==
  LET held == [s EXCEPT !.keys = @ \union {key}]
  IN CASE s.phase = "none" \/ key \notin DOMAIN Arrows -> s
       [] OTHER -> IF reduced /\ s.phase = "hold" THEN PanBy(held, key, 36, ship, size)
                   ELSE held
KeyUp(s, key) == [s EXCEPT !.keys = @ \ {key}]
KeyLeaves(s, key) == s.phase # "none" /\ key = "Escape"

-----------------------------------------------------------------------------
(* The wheel: every 40 of what it has turned in all are a step of the      *)
(* zoom, upward is in. Result is the input and the steps.                  *)

Notch == 40

Wheel(s, delta) ==
  LET turned  == s.wheel + delta
      notches == IF turned >= 0 THEN turned \div Notch ELSE -((-turned) \div Notch)
  IN IF s.phase # "hold" THEN [input |-> s, steps |-> <<>>]
     ELSE [input |-> [s EXCEPT !.wheel = turned - notches * Notch],
           steps |-> [i \in 1 .. (IF notches < 0 THEN -notches ELSE notches) |->
                        IF turned > 0 THEN -1 ELSE 1]]
================================================================================
