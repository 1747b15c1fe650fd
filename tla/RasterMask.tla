----------------------------- MODULE RasterMask ----------------------------
(***************************************************************************)
(* Shapes turned into a mask, and a mask read for an image, whether it was *)
(* made here or handed in as bytes that state their own shape:             *)
(* src/src/retusche/masking/geometry.py and mask.py.                       *)
(*                                                                         *)
(* A pixel is its index in the row-major buffer.  Centres lie between the  *)
(* grid lines that whole coordinates name, so coordinates are compared in  *)
(* half pixels: the centre of column c is at 2c + 1.  The code compares in *)
(* floating point.  No centre lies on an ellipse, and on an edge of a      *)
(* polygon only where the division is exact, so that for shapes about the  *)
(* size of a canvas the two decide alike; of coordinates far beyond one    *)
(* the code may round what this module computes exactly.                   *)
(***************************************************************************)
EXTENDS Integers, FiniteSets, Sequences

CONSTANTS Jobs,              \* what rasterise is asked for, and masks handed in
          Image              \* the size of the image the mask is for

VARIABLES job,       \* shapes, canvas and feather, or the bytes of a mask
          pc,        \* where the call is
          position,  \* the shape being covered
          covered,   \* the pixels covered so far
          reached,   \* those and the rings around them so far
          frontier,  \* the last ring
          distance,  \* the number of rings so far
          values,    \* the mask's bytes
          verdict    \* what was refused, or what the mask was read as

vars == <<job, pc, position, covered, reached, frontier, distance, values, verdict>>

KEEP == 0
CHANGE == 255
MAX_FEATHER_PIXELS == 254

Shape ==
  [kind : {"Rectangle", "Ellipse"}, x : Int, y : Int, width : Int, height : Int]
  \cup [kind : {"Polygon"}, points : Seq(Int \X Int)]

\* A mask to be drawn has no bytes yet, and one that is handed in was made of no shapes here.
ASSUME JobsAssumption ==
  \A asked \in Jobs :
    /\ {asked.width, asked.height, asked.feather} \subseteq Int
    /\ asked.shapes \in Seq(Shape)
    /\ IsFiniteSet(DOMAIN asked.bytes)
    /\ asked.bytes \in [0 .. Cardinality(DOMAIN asked.bytes) - 1 -> KEEP .. CHANGE]
    /\ asked.bytes # <<>> => asked.shapes = <<>>

-----------------------------------------------------------------------------
(* Shapes                                                                  *)

pixel_bounds(shape) ==
  IF shape.kind = "Polygon"
    THEN LET xs == {shape.points[i][1] : i \in DOMAIN shape.points}
             ys == {shape.points[i][2] : i \in DOMAIN shape.points}
             Least(S) == CHOOSE x \in S : \A y \in S : x <= y
             Most(S) == CHOOSE x \in S : \A y \in S : x >= y
         IN  <<Least(xs), Least(ys), Most(xs), Most(ys)>>
    ELSE <<shape.x, shape.y, shape.x + shape.width, shape.y + shape.height>>

RectangleContains(shape, x, y) ==
  /\ 2 * shape.x <= x /\ x < 2 * (shape.x + shape.width)
  /\ 2 * shape.y <= y /\ y < 2 * (shape.y + shape.height)

EllipseContains(shape, x, y) ==
  LET across == (x - (2 * shape.x + shape.width)) * shape.height
      along  == (y - (2 * shape.y + shape.height)) * shape.width
      radii  == shape.width * shape.height
  IN  across * across + along * along <= radii * radii

Previous(i, points) == points[IF i = 1 THEN Len(points) ELSE i - 1]

\* The edges whose ends lie on different sides of the line through y.
EdgesAcross(shape, y) ==
  {i \in DOMAIN shape.points :
     (2 * shape.points[i][2] > y) # (2 * Previous(i, shape.points)[2] > y)}

\* The sign of where such an edge crosses that line, less x: both multiplied by
\* the height of the edge, which turns the comparison round where it is negative.
BeyondOnEdge(shape, i, x, y) ==
  LET current  == shape.points[i]
      previous == Previous(i, shape.points)
      height   == previous[2] - current[2]
      gap      == (previous[1] - current[1]) * (y - 2 * current[2])
                    + (2 * current[1] - x) * height
  IN  IF height > 0 THEN gap ELSE -gap

\* inside is turned round at every edge the ray to the right comes across.
PolygonContains(shape, x, y) ==
  Cardinality({i \in EdgesAcross(shape, y) : BeyondOnEdge(shape, i, x, y) > 0}) % 2 = 1

contains(shape, x, y) ==
  CASE shape.kind = "Rectangle" -> RectangleContains(shape, x, y)
    [] shape.kind = "Ellipse"   -> EllipseContains(shape, x, y)
    [] shape.kind = "Polygon"   -> PolygonContains(shape, x, y)

-----------------------------------------------------------------------------
(* rasterise                                                               *)

Larger(a, b) == IF a > b THEN a ELSE b
Smaller(a, b) == IF a < b THEN a ELSE b

\* Mutant of CoveredBy: the corner of a pixel is asked about instead of its centre.
CoveredByCorners(shape, width, height) ==
  LET bounds == pixel_bounds(shape)
      rows    == Larger(bounds[2], 0) .. Smaller(bounds[4], height) - 1
      columns == Larger(bounds[1], 0) .. Smaller(bounds[3], width) - 1
  IN  {at[1] * width + at[2] : at \in
         {centre \in rows \X columns : contains(shape, 2 * centre[2], 2 * centre[1])}}

\* The pixels of the canvas whose centres a shape contains, looked for within its
\* bounds.
CoveredBy(shape, width, height) ==
  LET bounds == pixel_bounds(shape)
      rows    == Larger(bounds[2], 0) .. Smaller(bounds[4], height) - 1
      columns == Larger(bounds[1], 0) .. Smaller(bounds[3], width) - 1
  IN  {at[1] * width + at[2] : at \in
         {centre \in rows \X columns : contains(shape, 2 * centre[2] + 1, 2 * centre[1] + 1)}}

\* Mutant of neighbours: the columns beside the edge are taken from other rows.
neighboursWrapped(indices, width, height) ==
  {i \in 0 .. width * height - 1 :
     \E index \in indices, row_step, column_step \in {-1, 0, 1} :
       i = index + row_step * width + column_step}

neighbours(indices, width, height) ==
  {i \in 0 .. width * height - 1 :
     \E index \in indices, row_step, column_step \in {-1, 0, 1} :
       /\ i \div width = (index \div width) + row_step
       /\ i % width = (index % width) + column_step}

\* Mutant of ramp: the ramp reaches zero on its last ring.
rampToZero(feather, ring) == (CHANGE * (feather - ring)) \div (feather + 1)

ramp(feather, ring) == (CHANGE * (feather + 1 - ring)) \div (feather + 1)

Init == /\ job \in Jobs
        /\ pc = IF job.bytes = <<>> THEN "called" ELSE "handed_in"
        /\ position = 1
        /\ covered = {}
        /\ reached = {}
        /\ frontier = {}
        /\ distance = 0
        /\ values = job.bytes
        /\ verdict = <<"none">>

Refuse(why) == pc' = "ended" /\ verdict' = why

\* The canvas, the feather and an empty request are refused before anything else.
rasterise ==
  /\ pc = "called"
  /\ IF job.width <= 0 \/ job.height <= 0 THEN Refuse(<<"canvas">>)
     ELSE IF job.feather < 0 \/ job.feather > MAX_FEATHER_PIXELS THEN Refuse(<<"feather">>)
     ELSE IF job.shapes = <<>> THEN Refuse(<<"no_shape">>)
     ELSE pc' = "covering" /\ UNCHANGED verdict
  /\ UNCHANGED <<job, position, covered, reached, frontier, distance, values>>

\* Neither end of no coordinates exists.
Pointless(shape) == shape.kind = "Polygon" /\ shape.points = <<>>

\* Mutant of CoverShape: only a request that covers nothing at all is refused.
CoverShapeLenient ==
  /\ pc = "covering"
  /\ LET shape == job.shapes[position]
     IN  IF Pointless(shape)
           THEN Refuse(<<"ValueError", position>>) /\ UNCHANGED <<position, covered>>
           ELSE LET found == CoveredBy(shape, job.width, job.height)
                IN  IF covered \cup found = {}
                      THEN Refuse(<<"shape", position>>) /\ UNCHANGED <<position, covered>>
                      ELSE /\ covered' = covered \cup found
                           /\ position' = position + 1
                           /\ pc' = IF position = Len(job.shapes) THEN "covered" ELSE "covering"
                           /\ UNCHANGED verdict
  /\ UNCHANGED <<job, reached, frontier, distance, values>>

\* The next shape; one that covers no pixel is refused by its position, and a polygon
\* without points is raised on for its bounds.
CoverShape ==
  /\ pc = "covering"
  /\ LET shape == job.shapes[position]
     IN  IF Pointless(shape)
           THEN Refuse(<<"ValueError", position>>) /\ UNCHANGED <<position, covered>>
           ELSE LET found == CoveredBy(shape, job.width, job.height)
                IN  IF found = {}
                      THEN Refuse(<<"shape", position>>) /\ UNCHANGED <<position, covered>>
                      ELSE /\ covered' = covered \cup found
                           /\ position' = position + 1
                           /\ pc' = IF position = Len(job.shapes) THEN "covered" ELSE "covering"
                           /\ UNCHANGED verdict
  /\ UNCHANGED <<job, reached, frontier, distance, values>>

Paint ==
  /\ pc = "covered"
  /\ values' = [i \in 0 .. job.width * job.height - 1 |->
                  IF i \in covered THEN CHANGE ELSE KEEP]
  /\ reached' = covered
  /\ frontier' = covered
  /\ pc' = "feathering"
  /\ UNCHANGED <<job, position, covered, distance, verdict>>

\* One ring of the feather, outward.
FeatherRing ==
  /\ pc = "feathering"
  /\ distance < job.feather
  /\ LET ring == neighbours(frontier, job.width, job.height) \ reached
     IN  /\ values' = [i \in DOMAIN values |->
                         IF i \in ring THEN ramp(job.feather, distance + 1) ELSE values[i]]
         /\ reached' = reached \cup ring
         /\ frontier' = ring
  /\ distance' = distance + 1
  /\ UNCHANGED <<job, pc, position, covered, verdict>>

Changed == {i \in DOMAIN values : values[i] # KEEP}
Partial == {i \in Changed : values[i] # CHANGE}

\* A shape that is none, or bytes that are not it.
refuse_shape(width, height, carried) ==
  CASE width <= 0 \/ height <= 0 -> <<"no_canvas">>
    [] width > 0 /\ height > 0 /\ carried # width * height -> <<"carried">>
    [] OTHER -> <<"none">>

MaskReading ==
  [changed_pixels |-> Cardinality(Changed), partial_pixels |-> Cardinality(Partial),
   is_binary |-> Partial = {}, covers_everything |-> Cardinality(Changed) = job.width * job.height]

\* The mask is read for the image it is going to be used on.
read_mask_for_image ==
  /\ pc = "handed_in" \/ (pc = "feathering" /\ distance = job.feather)
  /\ pc' = "ended"
  /\ LET shaped == refuse_shape(job.width, job.height, Cardinality(DOMAIN values))
     IN  verdict' = IF shaped # <<"none">> THEN shaped
                    ELSE IF <<job.width, job.height>> # Image THEN <<"another_size">>
                    ELSE IF Changed = {} THEN <<"nothing">>
                    ELSE <<"read", MaskReading>>
  /\ UNCHANGED <<job, position, covered, reached, frontier, distance, values>>

Ended == pc = "ended" /\ UNCHANGED vars

Next == \/ rasterise
        \/ CoverShape
        \/ Paint
        \/ FeatherRing
        \/ read_mask_for_image
        \/ Ended

Spec == Init /\ [][Next]_vars

-----------------------------------------------------------------------------
(* Properties                                                              *)

Pixels == (0 .. job.width - 1) \X (0 .. job.height - 1)
Index(p) == p[2] * job.width + p[1]

\* What a shape stands for, without its bounds: a rectangle names its columns and
\* rows, and a polygon is judged by the ray to the left instead of the right.  An
\* ellipse is judged by its own inequality, so of it only the bounds are in question.
Region(shape) ==
  CASE shape.kind = "Rectangle" ->
         {p \in Pixels : /\ p[1] \in shape.x .. shape.x + shape.width - 1
                         /\ p[2] \in shape.y .. shape.y + shape.height - 1}
    [] shape.kind = "Ellipse" ->
         {p \in Pixels : /\ shape.width > 0 /\ shape.height > 0
                         /\ EllipseContains(shape, 2 * p[1] + 1, 2 * p[2] + 1)}
    [] shape.kind = "Polygon" ->
         {p \in Pixels :
            Cardinality({i \in EdgesAcross(shape, 2 * p[2] + 1) :
                           BeyondOnEdge(shape, i, 2 * p[1] + 1, 2 * p[2] + 1) <= 0}) % 2 = 1}

\* The shapes looked at so far are covered, all of them and nothing else: what hangs
\* off the canvas is clipped and never comes back in at the other side, and no
\* bounds cut a shape short (geometry.py:14-23, 32-34, 85-92).
CoversItsShapes ==
  pc \in {"covering", "covered", "feathering"} =>
    covered = {Index(p) : p \in UNION {Region(job.shapes[k]) : k \in 1 .. position - 1}}

\* Steps from one pixel to another, a diagonal counted as one.
Steps(p, q) == LET dx == Larger(p[1] - q[1], q[1] - p[1])
                   dy == Larger(p[2] - q[2], q[2] - p[2])
               IN  Larger(dx, dy)

\* After every ring, a pixel's value is decided by its distance from the covered
\* region alone, however the region is shaped and wherever it meets the edge of the
\* canvas (geometry.py:38-52).
RampIsDistance ==
  pc = "feathering" =>
    \A p \in Pixels :
      LET Near(d) == \E q \in Pixels : Index(q) \in covered /\ Steps(p, q) <= d
      IN  values[Index(p)] =
            IF Near(0) THEN CHANGE
            ELSE IF ~Near(distance) THEN KEEP
            ELSE ramp(job.feather, CHOOSE d \in 1 .. distance : Near(d) /\ ~Near(d - 1))

\* A shape is refused by its own position exactly when it covers no pixel, even
\* beside shapes that do, and one that has no points ends the call at the same place
\* (geometry.py:32-34, 217-225).
RefusesTheEmptyShape ==
  (pc = "ended" /\ job.width > 0 /\ job.height > 0) =>
    LET empty == {k \in DOMAIN job.shapes : Region(job.shapes[k]) = {}}
    IN  /\ verdict[1] \in {"shape", "ValueError"} =>
             verdict[2] \in empty /\ \A k \in empty : verdict[2] <= k
        /\ verdict[1] = "ValueError" => job.shapes[verdict[2]].points = <<>>
        /\ verdict[1] \in {"read", "another_size", "nothing"} => empty = {}

\* A mask that is accepted gives every pixel of its image one byte, whoever made it, and
\* one made here for an image of its size is accepted: its reading counts the ramp, so
\* every pixel within the feather's distance is edited, out to the last ring
\* (geometry.py:50-52, 72-78, mask.py:24-29, 132-135).
ReadAsDrawn ==
  LET Within(d) == {p \in Pixels : \E q \in Pixels : Index(q) \in covered /\ Steps(p, q) <= d}
      edited == IF job.bytes = <<>> THEN Within(job.feather)
                ELSE {p \in Pixels : values[Index(p)] # KEEP}
  IN  /\ job.bytes = <<>> => verdict[1] \notin {"nothing", "carried"}
      /\ verdict[1] = "read" =>
           /\ <<job.width, job.height>> = Image
           /\ DOMAIN values = {Index(p) : p \in Pixels}
           /\ verdict[2].changed_pixels = Cardinality(edited)
           /\ verdict[2].covers_everything <=> edited = Pixels
           /\ verdict[2].is_binary <=> \A p \in edited : values[Index(p)] = CHANGE
           /\ job.bytes = <<>> =>
                verdict[2].partial_pixels = Cardinality(edited) - Cardinality(covered)
=============================================================================
