------------------------------- MODULE VoxelModel -------------------------------
(***************************************************************************)
(* The drawing of a voxel model (voyage/voxel/voxel-grid.ts,               *)
(* voxel-render.ts, bake.ts): which voxels are kept, which of their faces  *)
(* the camera sees, the order of painting and the outline.                 *)
(*                                                                         *)
(* A grid maps the cells <<x, y, z>> of a box to colors, 0 is empty. The   *)
(* heading is given by the integers c and s in the proportion of the       *)
(* cosine and sine of the camera's yaw.                                    *)
(***************************************************************************)
EXTENDS Integers, FiniteSetsExt

Cells(lx, ly, lz) == (0 .. lx - 1) \X (0 .. ly - 1) \X (0 .. lz - 1)

EmptyGrid(lx, ly, lz) == [p \in Cells(lx, ly, lz) |-> 0]

(* Cells out of the box are empty and stay so.                             *)
Get(g, p)    == IF p \in DOMAIN g THEN g[p] ELSE 0
Put(g, p, c) == [q \in DOMAIN g |-> IF q = p THEN c ELSE g[q]]

(* A paint that gives 0 skips the cell.                                    *)
Box(g, xs, ys, zs, paint) ==
  [p \in DOMAIN g |->
     IF p[1] \in xs /\ p[2] \in ys /\ p[3] \in zs /\ paint[p] # 0 THEN paint[p] ELSE g[p]]

Toward ==
  [px |-> <<1, 0, 0>>, nx |-> <<-1, 0, 0>>, py |-> <<0, 1, 0>>, ny |-> <<0, -1, 0>>,
   pz |-> <<0, 0, 1>>]

Beside(p, face) ==
  <<p[1] + Toward[face][1], p[2] + Toward[face][2], p[3] + Toward[face][3]>>

(* extract keeps the voxels with a free face; the bottom is never seen.    *)
Faces(g, p) == {f \in DOMAIN Toward : Get(g, Beside(p, f)) = 0}
Extract(g)  == {p \in DOMAIN g : g[p] # 0 /\ Faces(g, p) # {}}

-----------------------------------------------------------------------------
(* renderVoxels.                                                           *)

(* The sides that face the camera, at most two, and the top.               *)
VisibleFaces(c, s) ==
  {f \in DOMAIN Toward : CASE f = "px" -> s < 0 [] f = "nx" -> s > 0
                           [] f = "py" -> c > 0 [] f = "ny" -> c < 0 [] OTHER -> TRUE}

(* The key of the painter's order, back to front; depth is the proportion  *)
(* of the height to the tilt of the camera.                                *)
Key(p, c, s, depth) == (p[2] * c - p[1] * s) * depth + p[3]

(* Equal keys stay in the order of extract: by height, row and column.     *)
Earlier(p, q) ==
  \/ p[3] < q[3]
  \/ p[3] = q[3] /\ (p[2] < q[2] \/ (p[2] = q[2] /\ p[1] < q[1]))

PaintedBefore(p, q, c, s, depth) ==
  \/ Key(p, c, s, depth) < Key(q, c, s, depth)
  \/ Key(p, c, s, depth) = Key(q, c, s, depth) /\ Earlier(p, q)

(* The picture: what is painted last at a place. spot[p, f] is the place   *)
(* that face f of voxel p covers.                                          *)
Picture(g, c, s, depth, spot) ==
  LET spots(p) == {spot[p, f] : f \in Faces(g, p) \cap VisibleFaces(c, s)}
      last(ps) == CHOOSE p \in ps : \A q \in ps \ {p} : PaintedBefore(q, p, c, s, depth)
      kept     == Extract(g)
  IN [at \in UNION {spots(p) : p \in kept} |-> g[last({p \in kept : at \in spots(p)})]]

(* The outline: opaque pixels at the border or beside a transparent one.   *)
Outline(opaque, w, h) ==
  {at \in opaque :
     {<<at[1] - 1, at[2]>>, <<at[1] + 1, at[2]>>, <<at[1], at[2] - 1>>, <<at[1], at[2] + 1>>}
       \ (opaque \cap ((0 .. w - 1) \X (0 .. h - 1))) # {}}

(* bakeFromGeom: the foam under the lowest pixel of every column, one or   *)
(* two rows thick.                                                         *)
Bottom(opaque, x) == LET ys == {at[2] : at \in {o \in opaque : o[1] = x}} IN Max(ys \cup {-1})

Foam(opaque, w, h, frame) ==
  LET wet(x) == Bottom(opaque, x) >= 0 /\ Bottom(opaque, x) + 1 < h
  IN {<<x, Bottom(opaque, x) + 1>> : x \in {y \in 0 .. w - 1 : wet(y) /\ (y + frame) % 4 < 2}}
     \cup (IF frame \in {1, 2}
             THEN {<<x, Bottom(opaque, x) + 2>> :
                     x \in {y \in 0 .. w - 1 : wet(y) /\ Bottom(opaque, y) + 2 < h
                                               /\ (y + frame) % 8 < 2}}
             ELSE {})
================================================================================
