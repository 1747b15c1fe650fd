---------------------------- MODULE MCRasterMask ---------------------------
(* Small canvases and shapes that meet every edge of them, for TLC. *)
EXTENDS RasterMask

Box(kind, x, y, width, height) ==
  [kind |-> kind, x |-> x, y |-> y, width |-> width, height |-> height]

Outline(points) == [kind |-> "Polygon", points |-> points]

\* Rectangles that lie inside, hang off each side, or lie off the canvas; ellipses;
\* a triangle, a ring drawn as one outline, and one that crosses itself.
Shapes ==
  {Box("Rectangle", x, y, w, 2) : x \in {-2, -1, 1, 3, 4}, y \in {-1, 1}, w \in {0, 1, 3}}
  \cup {Box("Ellipse", x, 0, w, h) : x \in {-1, 0}, w \in {1, 4}, h \in {3, 4}}
  \cup {Outline(<< <<0, 0>>, <<4, 0>>, <<0, 3>> >>),
        Outline(<< <<0, 0>>, <<4, 3>>, <<4, 0>>, <<0, 3>> >>),
        Outline(<< <<-1, -1>>, <<5, -1>>, <<5, 4>>, <<-1, 4>>, <<-1, -1>>,
                   <<1, 1>>, <<1, 2>>, <<3, 2>>, <<3, 1>>, <<1, 1>> >>),
        Outline(<< <<1, 1>>, <<2, 1>> >>), Outline(<<>>)}

Asked(shapes, width, height, feather) ==
  [shapes |-> shapes, width |-> width, height |-> height, feather |-> feather, bytes |-> <<>>]

\* A mask somebody hands in.
Handed(width, height, carried, first, others) ==
  [shapes |-> <<>>, width |-> width, height |-> height, feather |-> 0,
   bytes |-> [i \in 0 .. carried - 1 |-> IF i = 0 THEN first ELSE others]]

\* Each shape on two canvases with every narrow feather, pairs of shapes, the widest
\* feather, everything that is refused at once, and masks of other shapes and lengths.
MCJobs ==
  {Asked(<<s>>, 4, 3, f) : s \in Shapes, f \in 0 .. 3}
  \cup {Asked(<<s>>, 5, 2, 1) : s \in Shapes}
  \cup {Asked(<<s, t>>, 4, 3, 1) : s, t \in {u \in Shapes : u.kind # "Ellipse"}}
  \cup {Asked(<<Box("Rectangle", 0, 0, 1, 1)>>, 4, 3, f) : f \in {-1, 254, 255}}
  \cup {Asked(<<>>, 4, 3, 0), Asked(<<>>, 0, 3, 0)}
  \cup {Handed(shape[1], shape[2], carried, first, others) :
          shape \in {<<4, 3>>, <<3, 4>>, <<2, 6>>, <<4, 2>>, <<0, 3>>, <<-4, -3>>},
          carried \in {8, 11, 12, 13}, first \in {0, 1, 255}, others \in {0, 254, 255}}

MCImage == <<4, 3>>
=============================================================================
