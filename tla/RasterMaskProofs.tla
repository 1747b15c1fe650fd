-------------------------- MODULE RasterMaskProofs -------------------------
(***************************************************************************)
(* Proofs about the mask, for any shapes on canvases of any size, any      *)
(* feather that is not refused and any bytes that are handed in.           *)
(***************************************************************************)
EXTENDS RasterMask, CountingLemmas, FiniteSetTheorems, TLAPS

-----------------------------------------------------------------------------
(* Pixels and their indices                                                *)

Canvas == job.width \in Nat \ {0} /\ job.height \in Nat \ {0}
Cells == 0 .. job.width * job.height - 1

\* The pixel at an index.
At(i) == <<i % job.width, i \div job.width>>

LEMMA RowsAndColumns ==
  ASSUME NEW w \in Nat \ {0}, NEW h \in Nat \ {0}
  PROVE  /\ w * h \in Nat \ {0}
         /\ \A a \in 0 .. w - 1, b \in 0 .. h - 1 :
              /\ b * w + a \in 0 .. w * h - 1
              /\ (b * w + a) \div w = b /\ (b * w + a) % w = a
         /\ \A i \in 0 .. w * h - 1 :
              /\ i % w \in 0 .. w - 1 /\ i \div w \in 0 .. h - 1
              /\ ((i \div w) * w) + (i % w) = i
  <1>1. w * h \in Nat \ {0}
    OBVIOUS
  <1>2. ASSUME NEW a \in 0 .. w - 1, NEW b \in 0 .. h - 1
        PROVE  /\ b * w + a \in 0 .. w * h - 1
               /\ (b * w + a) \div w = b /\ (b * w + a) % w = a
    <2>1. b * w + a \in 0 .. w * h - 1
      OBVIOUS
    <2>2. (b * w + a) \div w = b /\ (b * w + a) % w = a
      OBVIOUS
    <2> QED BY <2>1, <2>2
  <1>3. ASSUME NEW i \in 0 .. w * h - 1
        PROVE  /\ i % w \in 0 .. w - 1 /\ i \div w \in 0 .. h - 1
               /\ ((i \div w) * w) + (i % w) = i
    <2>1. i \in Int
      BY <1>1
    <2>2. i % w \in 0 .. w - 1 /\ ((i \div w) * w) + (i % w) = i
      BY <2>1
    <2>3. i \div w \in 0 .. h - 1
      OBVIOUS
    <2> QED BY <2>2, <2>3
  <1> QED BY <1>1, <1>2, <1>3

\* Pixels and indices correspond one to one.
LEMMA PixelsHaveIndices ==
  ASSUME Canvas
  PROVE  /\ \A p \in Pixels : /\ p[1] \in 0 .. job.width - 1 /\ p[2] \in 0 .. job.height - 1
                              /\ p[1] \in Int /\ p[2] \in Int /\ p = <<p[1], p[2]>>
         /\ \A p \in Pixels : Index(p) \in Cells /\ At(Index(p)) = p
         /\ \A i \in Cells : At(i) \in Pixels /\ Index(At(i)) = i
  <1> DEFINE w == job.width
             h == job.height
  <1>1. w \in Nat \ {0} /\ h \in Nat \ {0}
    BY DEF Canvas
  <1>2. Pixels = (0 .. w - 1) \X (0 .. h - 1) /\ Cells = 0 .. w * h - 1
    BY DEF Pixels, Cells
  <1>3. (\A p : Index(p) = p[2] * w + p[1]) /\ (\A i : At(i) = <<i % w, i \div w>>)
    BY DEF Index, At
  <1> HIDE DEF w, h
  <1>4. \A p \in Pixels : /\ p[1] \in 0 .. w - 1 /\ p[2] \in 0 .. h - 1
                          /\ p[1] \in Int /\ p[2] \in Int /\ p = <<p[1], p[2]>>
    BY <1>1, <1>2
  <1>5. \A p \in Pixels : Index(p) \in Cells /\ At(Index(p)) = p
    <2> SUFFICES ASSUME NEW p \in Pixels PROVE Index(p) \in Cells /\ At(Index(p)) = p
      OBVIOUS
    <2>1. /\ p[2] * w + p[1] \in 0 .. w * h - 1
          /\ (p[2] * w + p[1]) \div w = p[2] /\ (p[2] * w + p[1]) % w = p[1]
      BY <1>1, <1>4, RowsAndColumns
    <2> QED BY <1>2, <1>3, <1>4, <2>1
  <1>6. \A i \in Cells : At(i) \in Pixels /\ Index(At(i)) = i
    <2> SUFFICES ASSUME NEW i \in Cells PROVE At(i) \in Pixels /\ Index(At(i)) = i
      OBVIOUS
    <2>1. /\ i % w \in 0 .. w - 1 /\ i \div w \in 0 .. h - 1
          /\ ((i \div w) * w) + (i % w) = i
      BY <1>1, <1>2, RowsAndColumns
    <2> QED BY <1>2, <1>3, <2>1
  <1> QED BY <1>4, <1>5, <1>6 DEF w, h

-----------------------------------------------------------------------------
(* Distances                                                               *)

LEMMA StepsAtMost ==
  ASSUME NEW p \in Int \X Int, NEW q \in Int \X Int, NEW d \in Int
  PROVE  /\ Steps(p, q) \in Nat
         /\ Steps(p, q) <= d <=> /\ p[1] - q[1] <= d /\ q[1] - p[1] <= d
                                 /\ p[2] - q[2] <= d /\ q[2] - p[2] <= d
  <1>1. p[1] \in Int /\ p[2] \in Int /\ q[1] \in Int /\ q[2] \in Int
    OBVIOUS
  <1> QED BY <1>1 DEF Steps, Larger

\* A pixel some steps away has a neighbour on the canvas one step nearer.
LEMMA OneStepNearer ==
  ASSUME Canvas, NEW p \in Pixels, NEW q \in Pixels, NEW d \in Nat, Steps(p, q) <= d + 1
  PROVE  \E r \in Pixels : Steps(p, r) <= 1 /\ Steps(r, q) <= d
  <1> DEFINE toward(a, b) == IF a < b THEN a + 1 ELSE IF a > b THEN a - 1 ELSE a
             r == <<toward(p[1], q[1]), toward(p[2], q[2])>>
  <1>1. /\ p[1] \in 0 .. job.width - 1 /\ p[2] \in 0 .. job.height - 1
        /\ q[1] \in 0 .. job.width - 1 /\ q[2] \in 0 .. job.height - 1
        /\ p \in Int \X Int /\ q \in Int \X Int
        /\ job.width \in Int /\ job.height \in Int
    BY PixelsHaveIndices DEF Canvas, Pixels
  <1>2. /\ toward(p[1], q[1]) \in 0 .. job.width - 1
        /\ toward(p[2], q[2]) \in 0 .. job.height - 1
    BY <1>1
  <1>3. r \in Pixels /\ r \in Int \X Int
    BY <1>1, <1>2 DEF Pixels
  <1>4. Steps(p, r) <= 1 /\ Steps(r, q) <= d
    <2>1. /\ p[1] - q[1] <= d + 1 /\ q[1] - p[1] <= d + 1
          /\ p[2] - q[2] <= d + 1 /\ q[2] - p[2] <= d + 1
      BY <1>1, StepsAtMost
    <2>2. r[1] = toward(p[1], q[1]) /\ r[2] = toward(p[2], q[2])
      OBVIOUS
    <2>3. /\ p[1] - r[1] <= 1 /\ r[1] - p[1] <= 1 /\ p[2] - r[2] <= 1 /\ r[2] - p[2] <= 1
          /\ r[1] - q[1] <= d /\ q[1] - r[1] <= d /\ r[2] - q[2] <= d /\ q[2] - r[2] <= d
      BY <1>1, <2>1, <2>2
    <2> HIDE DEF r
    <2> QED BY <1>1, <1>3, <2>3, StepsAtMost
  <1> QED BY <1>3, <1>4

\* Some covered pixel is within that many steps.
Near(p, d) == \E q \in Pixels : Index(q) \in covered /\ Steps(p, q) <= d

LEMMA NearGrows ==
  ASSUME Canvas
  PROVE  /\ \A p \in Pixels : ~Near(p, -1)
         /\ \A p \in Pixels : Near(p, 0) <=> Index(p) \in covered
         /\ \A p \in Pixels, d, e \in Int : Near(p, d) /\ d <= e => Near(p, e)
         /\ \A p, r \in Pixels, d \in Int : Steps(p, r) <= 1 /\ Near(r, d) => Near(p, d + 1)
  <1>1. \A p \in Pixels : /\ p \in Int \X Int /\ p = <<p[1], p[2]>>
                          /\ p[1] \in Int /\ p[2] \in Int
    BY PixelsHaveIndices
  <1>2. \A p, q \in Pixels : Steps(p, q) \in Nat
    BY <1>1, StepsAtMost
  <1>3. \A p \in Pixels : ~Near(p, -1)
    BY <1>2 DEF Near
  <1>4. \A p \in Pixels : Near(p, 0) <=> Index(p) \in covered
    <2>1. \A p, q \in Pixels : Steps(p, q) <= 0 <=> p = q
      <3> SUFFICES ASSUME NEW p \in Pixels, NEW q \in Pixels
                   PROVE  Steps(p, q) <= 0 <=> p = q
        OBVIOUS
      <3>1. Steps(p, q) <= 0 <=> /\ p[1] - q[1] <= 0 /\ q[1] - p[1] <= 0
                                 /\ p[2] - q[2] <= 0 /\ q[2] - p[2] <= 0
        BY <1>1, StepsAtMost
      <3>2. p[1] \in Int /\ p[2] \in Int /\ q[1] \in Int /\ q[2] \in Int
        BY <1>1
      <3>3. Steps(p, q) <= 0 <=> p[1] = q[1] /\ p[2] = q[2]
        BY <3>1, <3>2
      <3> QED BY <1>1, <3>3
    <2> QED BY <2>1 DEF Near
  <1>5. \A p \in Pixels, d, e \in Int : Near(p, d) /\ d <= e => Near(p, e)
    BY <1>2 DEF Near
  <1>6. \A p, r \in Pixels, d \in Int : Steps(p, r) <= 1 /\ Near(r, d) => Near(p, d + 1)
    <2> SUFFICES ASSUME NEW p \in Pixels, NEW r \in Pixels, NEW d \in Int,
                        Steps(p, r) <= 1, NEW q \in Pixels, Index(q) \in covered, Steps(r, q) <= d
                 PROVE  Steps(p, q) <= d + 1
      BY DEF Near
    <2>1. /\ p[1] - r[1] <= 1 /\ r[1] - p[1] <= 1 /\ p[2] - r[2] <= 1 /\ r[2] - p[2] <= 1
          /\ r[1] - q[1] <= d /\ q[1] - r[1] <= d /\ r[2] - q[2] <= d /\ q[2] - r[2] <= d
      BY <1>1, StepsAtMost
    <2>2. /\ p[1] \in Int /\ p[2] \in Int /\ q[1] \in Int /\ q[2] \in Int
          /\ r[1] \in Int /\ r[2] \in Int /\ d + 1 \in Int
      BY <1>1
    <2>3. /\ p[1] - q[1] <= d + 1 /\ q[1] - p[1] <= d + 1
          /\ p[2] - q[2] <= d + 1 /\ q[2] - p[2] <= d + 1
      BY <2>1, <2>2
    <2> QED BY <1>1, <2>2, <2>3, StepsAtMost
  <1> QED BY <1>3, <1>4, <1>5, <1>6

\* What neighbours finds of a set of pixels are those one step from one of them: it
\* neither wraps round a row nor leaves the canvas.
LEMMA NeighboursAreOneStep ==
  ASSUME Canvas, NEW F \in SUBSET Cells, NEW p \in Pixels
  PROVE  Index(p) \in neighbours(F, job.width, job.height)
           <=> \E r \in Pixels : Index(r) \in F /\ Steps(p, r) <= 1
  <1> DEFINE w == job.width
             Touch(i, j) == \E row_step, column_step \in {-1, 0, 1} :
                              /\ i \div w = (j \div w) + row_step
                              /\ i % w = (j % w) + column_step
  <1>1. \A i : i \in neighbours(F, w, job.height) <=> i \in Cells /\ \E j \in F : Touch(i, j)
    BY DEF neighbours, Cells
  <1>2. \A q \in Pixels : /\ Index(q) \in Cells /\ Index(q) \div w = q[2] /\ Index(q) % w = q[1]
                          /\ q[1] \in Int /\ q[2] \in Int /\ q \in Int \X Int
    <2> SUFFICES ASSUME NEW q \in Pixels
                 PROVE  /\ Index(q) \in Cells /\ Index(q) \div w = q[2] /\ Index(q) % w = q[1]
                        /\ q[1] \in Int /\ q[2] \in Int /\ q \in Int \X Int
      OBVIOUS
    <2>1. /\ q[1] \in Int /\ q[2] \in Int /\ q = <<q[1], q[2]>>
          /\ Index(q) \in Cells /\ At(Index(q)) = q
      BY PixelsHaveIndices
    <2>2. At(Index(q))[1] = Index(q) % w /\ At(Index(q))[2] = Index(q) \div w
      BY DEF At
    <2> QED BY <2>1, <2>2
  <1>3. \A r \in Pixels : Touch(Index(p), Index(r)) <=> Steps(p, r) <= 1
    <2> SUFFICES ASSUME NEW r \in Pixels
                 PROVE  Touch(Index(p), Index(r)) <=> Steps(p, r) <= 1
      OBVIOUS
    <2>1. Steps(p, r) <= 1 <=> /\ p[1] - r[1] <= 1 /\ r[1] - p[1] <= 1
                               /\ p[2] - r[2] <= 1 /\ r[2] - p[2] <= 1
      BY <1>2, StepsAtMost
    <2>2. p[1] \in Int /\ p[2] \in Int /\ r[1] \in Int /\ r[2] \in Int
      BY <1>2
    <2>3. Touch(Index(p), Index(r))
            <=> \E row_step, column_step \in {-1, 0, 1} :
                  p[2] = r[2] + row_step /\ p[1] = r[1] + column_step
      BY <1>2
    <2>4. (\E row_step, column_step \in {-1, 0, 1} :
             p[2] = r[2] + row_step /\ p[1] = r[1] + column_step)
            <=> p[2] - r[2] \in {-1, 0, 1} /\ p[1] - r[1] \in {-1, 0, 1}
      BY <2>2
    <2> HIDE DEF Touch
    <2> QED BY <2>1, <2>2, <2>3, <2>4
  <1>4. \A j \in F : At(j) \in Pixels /\ Index(At(j)) = j
    BY PixelsHaveIndices
  <1> HIDE DEF Touch, w
  <1>5. Index(p) \in neighbours(F, w, job.height) <=> \E j \in F : Touch(Index(p), j)
    BY <1>1, <1>2
  <1>6. (\E j \in F : Touch(Index(p), j))
          <=> \E r \in Pixels : Index(r) \in F /\ Touch(Index(p), Index(r))
    BY <1>4
  <1> QED BY <1>3, <1>5, <1>6 DEF w

\* A ring around all that is within some steps, of which the last ring is what is no
\* nearer, holds what is one step farther.
LEMMA NextRing ==
  ASSUME Canvas, NEW inner \in SUBSET Cells, NEW outer \in SUBSET Cells, NEW d \in Nat,
         \A p \in Pixels : Index(p) \in inner <=> Near(p, d),
         \A p \in Pixels : Index(p) \in outer <=> Near(p, d) /\ ~Near(p, d - 1)
  PROVE  LET ring == neighbours(outer, job.width, job.height) \ inner
         IN  /\ ring \in SUBSET Cells
             /\ \A p \in Pixels : Index(p) \in ring <=> Near(p, d + 1) /\ ~Near(p, d)
             /\ \A p \in Pixels : Index(p) \in inner \cup ring <=> Near(p, d + 1)
  <1> DEFINE found == neighbours(outer, job.width, job.height)
  <1>1. found \subseteq Cells
    BY DEF neighbours, Cells
  <1>2. \A p \in Pixels : Index(p) \in found
                            <=> \E r \in Pixels : Index(r) \in outer /\ Steps(p, r) <= 1
    BY NeighboursAreOneStep
  <1> HIDE DEF found
  <1>3. ASSUME NEW p \in Pixels, Index(p) \in found
        PROVE  Near(p, d + 1)
    <2>1. PICK r \in Pixels : Index(r) \in outer /\ Steps(p, r) <= 1
      BY <1>2, <1>3
    <2> QED BY <2>1, NearGrows
  <1>4. ASSUME NEW p \in Pixels, Near(p, d + 1), ~Near(p, d)
        PROVE  Index(p) \in found
    <2>1. PICK q \in Pixels : Index(q) \in covered /\ Steps(p, q) <= d + 1
      BY <1>4 DEF Near
    <2>2. PICK r \in Pixels : Steps(p, r) <= 1 /\ Steps(r, q) <= d
      BY <2>1, OneStepNearer
    <2>3. Near(r, d)
      BY <2>1, <2>2 DEF Near
    <2>4. ~Near(r, d - 1)
      <3>1. Near(r, d - 1) => Near(p, (d - 1) + 1)
        BY <2>2, NearGrows
      <3>2. (d - 1) + 1 = d
        OBVIOUS
      <3> QED BY <1>4, <3>1, <3>2
    <2> QED BY <1>2, <2>2, <2>3, <2>4
  <1>5. \A p \in Pixels : Near(p, d) => Near(p, d + 1)
    BY NearGrows
  <1> QED BY <1>1, <1>3, <1>4, <1>5 DEF found

-----------------------------------------------------------------------------
(* Bounds                                                                  *)

\* A finite set of whole numbers has a least and a greatest one.
LEMMA Extremes ==
  ASSUME NEW S \in SUBSET Int, IsFiniteSet(S), S # {}
  PROVE  (\E x \in S : \A y \in S : x <= y) /\ (\E x \in S : \A y \in S : x >= y)
  <1> DEFINE R == {p \in S \X S : p[1] < p[2]}
  <1>1. \A x, y \in S : <<x, y>> \in R <=> x < y
    OBVIOUS
  <1>2. \A x \in S : x \in Int
    OBVIOUS
  <1> HIDE DEF R
  <1>3. \A x \in S : <<x, x>> \notin R
    BY <1>1, <1>2
  <1>4. \A x, y, z \in S : <<x, y>> \in R /\ <<y, z>> \in R => <<x, z>> \in R
    BY <1>1, <1>2
  <1>5. \A x, y \in S : x # y => <<x, y>> \in R \/ <<y, x>> \in R
    BY <1>1, <1>2
  <1>6. /\ Cardinality(S) \in Nat /\ DOMAIN Sorted(S, R) = 1 .. Cardinality(S)
        /\ \A i \in 1 .. Cardinality(S) : Sorted(S, R)[i] \in S
        /\ \A x \in S : \E i \in 1 .. Cardinality(S) : Sorted(S, R)[i] = x
        /\ \A i, j \in 1 .. Cardinality(S) :
             i < j => <<Sorted(S, R)[i], Sorted(S, R)[j]>> \in R
    BY <1>3, <1>4, <1>5, SortedLists
  <1> DEFINE n == Cardinality(S)
             list == Sorted(S, R)
  <1>7. /\ n \in Nat
        /\ \A i \in 1 .. n : list[i] \in S
        /\ \A x \in S : \E i \in 1 .. n : list[i] = x
        /\ \A i, j \in 1 .. n : i < j => list[i] < list[j]
    BY <1>1, <1>6
  <1> HIDE DEF n, list
  <1>8. n >= 1 /\ list[1] \in S /\ list[n] \in S
    <2>1. PICK x \in S : TRUE
      OBVIOUS
    <2>2. PICK i \in 1 .. n : list[i] = x
      BY <1>7
    <2>3. 1 \in 1 .. n /\ n \in 1 .. n
      BY <1>7, <2>2
    <2> QED BY <1>7, <2>3
  <1>9. \A y \in S : list[1] <= y /\ list[n] >= y
    <2> SUFFICES ASSUME NEW y \in S PROVE list[1] <= y /\ list[n] >= y
      OBVIOUS
    <2>1. PICK i \in 1 .. n : list[i] = y
      BY <1>7
    <2>2. i = 1 \/ list[1] < y
      BY <1>7, <1>8, <2>1
    <2>3. i = n \/ y < list[n]
      BY <1>7, <1>8, <2>1
    <2>4. list[1] \in Int /\ list[n] \in Int /\ y \in Int
      BY <1>2, <1>8
    <2> QED BY <2>1, <2>2, <2>3, <2>4
  <1> QED BY <1>8, <1>9

\* The bounds of a box are its sides, and those of a polygon hold all its points.
LEMMA BoundsHold ==
  ASSUME NEW shape \in Shape, ~Pointless(shape)
  PROVE  /\ \A k \in 1 .. 4 : pixel_bounds(shape)[k] \in Int
         /\ shape.kind # "Polygon" =>
              /\ pixel_bounds(shape)[1] = shape.x /\ pixel_bounds(shape)[3] = shape.x + shape.width
              /\ pixel_bounds(shape)[2] = shape.y /\ pixel_bounds(shape)[4] = shape.y + shape.height
         /\ shape.kind = "Polygon" =>
              \A i \in DOMAIN shape.points :
                /\ pixel_bounds(shape)[1] <= shape.points[i][1]
                /\ shape.points[i][1] <= pixel_bounds(shape)[3]
                /\ pixel_bounds(shape)[2] <= shape.points[i][2]
                /\ shape.points[i][2] <= pixel_bounds(shape)[4]
  <1>1. CASE shape.kind # "Polygon"
    <2>1. /\ shape.x \in Int /\ shape.y \in Int /\ shape.width \in Int /\ shape.height \in Int
          /\ pixel_bounds(shape)
               = <<shape.x, shape.y, shape.x + shape.width, shape.y + shape.height>>
      BY <1>1 DEF Shape, pixel_bounds
    <2> QED BY <1>1, <2>1
  <1>2. CASE shape.kind = "Polygon"
    <2> DEFINE points == shape.points
               xs == {points[i][1] : i \in DOMAIN points}
               ys == {points[i][2] : i \in DOMAIN points}
               Least(S) == CHOOSE x \in S : \A y \in S : x <= y
               Most(S) == CHOOSE x \in S : \A y \in S : x >= y
    <2>1. points \in Seq(Int \X Int) /\ points # <<>>
      BY <1>2 DEF Shape, Pointless
    <2>2. pixel_bounds(shape) = <<Least(xs), Least(ys), Most(xs), Most(ys)>>
      BY <1>2 DEF pixel_bounds
    <2> HIDE DEF points
    <2>3. /\ DOMAIN points = 1 .. Len(points) /\ Len(points) \in Nat
          /\ \A i \in DOMAIN points : points[i][1] \in Int /\ points[i][2] \in Int
      BY <2>1
    <2>4. IsFiniteSet(DOMAIN points) /\ DOMAIN points # {}
      <3>1. Len(points) # 0
        BY <2>1
      <3>2. IsFiniteSet(1 .. Len(points))
        BY <2>3, FS_Interval
      <3> QED BY <2>3, <3>1, <3>2
    <2>5. xs \in SUBSET Int /\ xs # {} /\ ys \in SUBSET Int /\ ys # {}
      BY <2>3, <2>4
    <2>6. IsFiniteSet(xs) /\ IsFiniteSet(ys)
      <3>1. [i \in DOMAIN points |-> points[i][1]] \in Surjection(DOMAIN points, xs)
        BY DEF Surjection
      <3>2. [i \in DOMAIN points |-> points[i][2]] \in Surjection(DOMAIN points, ys)
        BY DEF Surjection
      <3> HIDE DEF xs, ys
      <3> QED BY <2>4, <3>1, <3>2, FS_Surjection
    <2>7. \A i \in DOMAIN points : points[i][1] \in xs /\ points[i][2] \in ys
      OBVIOUS
    <2> HIDE DEF xs, ys
    <2>8. /\ Least(xs) \in xs /\ \A x \in xs : Least(xs) <= x
          /\ Most(xs) \in xs /\ \A x \in xs : Most(xs) >= x
      BY <2>5, <2>6, Extremes
    <2>9. /\ Least(ys) \in ys /\ \A y \in ys : Least(ys) <= y
          /\ Most(ys) \in ys /\ \A y \in ys : Most(ys) >= y
      BY <2>5, <2>6, Extremes
    <2> HIDE DEF Least, Most
    <2>10. /\ pixel_bounds(shape)[1] = Least(xs) /\ pixel_bounds(shape)[2] = Least(ys)
           /\ pixel_bounds(shape)[3] = Most(xs) /\ pixel_bounds(shape)[4] = Most(ys)
      BY <2>2
    <2>11. \A k \in 1 .. 4 : k = 1 \/ k = 2 \/ k = 3 \/ k = 4
      OBVIOUS
    <2>12. \A k \in 1 .. 4 : pixel_bounds(shape)[k] \in Int
      BY <2>5, <2>8, <2>9, <2>10, <2>11
    <2>13. \A i \in DOMAIN points :
             /\ pixel_bounds(shape)[1] <= points[i][1] /\ points[i][1] <= pixel_bounds(shape)[3]
             /\ pixel_bounds(shape)[2] <= points[i][2] /\ points[i][2] <= pixel_bounds(shape)[4]
      BY <2>3, <2>5, <2>7, <2>8, <2>9, <2>10
    <2> QED BY <1>2, <2>12, <2>13 DEF points
  <1> QED BY <1>1, <1>2

\* What a shape covers are pixels of the canvas within its bounds.
LEMMA CoveredOnCanvas ==
  ASSUME Canvas, NEW shape \in Shape, ~Pointless(shape)
  PROVE  LET bounds == pixel_bounds(shape)
         IN  CoveredBy(shape, job.width, job.height)
               = {Index(p) : p \in {q \in Pixels : /\ bounds[1] <= q[1] /\ q[1] < bounds[3]
                                                   /\ bounds[2] <= q[2] /\ q[2] < bounds[4]
                                                   /\ contains(shape, 2 * q[1] + 1, 2 * q[2] + 1)}}
  <1> DEFINE w == job.width
             h == job.height
             bounds == pixel_bounds(shape)
             rows == Larger(bounds[2], 0) .. Smaller(bounds[4], h) - 1
             columns == Larger(bounds[1], 0) .. Smaller(bounds[3], w) - 1
             Inside(column, row) == contains(shape, 2 * column + 1, 2 * row + 1)
             Within(q) == /\ bounds[1] <= q[1] /\ q[1] < bounds[3]
                          /\ bounds[2] <= q[2] /\ q[2] < bounds[4]
                          /\ Inside(q[1], q[2])
  <1>1. /\ w \in Nat /\ h \in Nat
        /\ bounds[1] \in Int /\ bounds[2] \in Int /\ bounds[3] \in Int /\ bounds[4] \in Int
    BY BoundsHold DEF Canvas
  <1>2. CoveredBy(shape, w, h)
          = {at[1] * w + at[2] : at \in {centre \in rows \X columns : Inside(centre[2], centre[1])}}
    BY DEF CoveredBy
  <1>3. Pixels = (0 .. w - 1) \X (0 .. h - 1) /\ \A p : Index(p) = p[2] * w + p[1]
    BY DEF Pixels, Index
  <1> HIDE DEF Inside, w, h, bounds
  <1>4. \A column, row \in Int :
          row \in rows /\ column \in columns
            <=> /\ column \in 0 .. w - 1 /\ row \in 0 .. h - 1
                /\ bounds[1] <= column /\ column < bounds[3]
                /\ bounds[2] <= row /\ row < bounds[4]
    BY <1>1 DEF Larger, Smaller
  <1>5. (\A row \in rows : row \in Int) /\ (\A column \in columns : column \in Int)
    BY <1>1 DEF Larger, Smaller
  <1> HIDE DEF rows, columns
  <1>6. ASSUME NEW at \in rows \X columns, Inside(at[2], at[1])
        PROVE  /\ <<at[2], at[1]>> \in {q \in Pixels : Within(q)}
               /\ Index(<<at[2], at[1]>>) = at[1] * w + at[2]
    BY <1>3, <1>4, <1>5, <1>6
  <1>7. ASSUME NEW q \in Pixels, Within(q)
        PROVE  /\ <<q[2], q[1]>> \in {centre \in rows \X columns : Inside(centre[2], centre[1])}
               /\ Index(q) = q[2] * w + q[1]
    BY <1>1, <1>3, <1>4, <1>7
  <1> HIDE DEF Within
  <1>8. {at[1] * w + at[2] : at \in {centre \in rows \X columns : Inside(centre[2], centre[1])}}
          \subseteq {Index(p) : p \in {q \in Pixels : Within(q)}}
    <2> SUFFICES ASSUME NEW at \in rows \X columns, Inside(at[2], at[1])
                 PROVE  at[1] * w + at[2] \in {Index(p) : p \in {q \in Pixels : Within(q)}}
      OBVIOUS
    <2> QED BY <1>6
  <1>9. {Index(p) : p \in {q \in Pixels : Within(q)}}
          \subseteq {at[1] * w + at[2] : at \in {centre \in rows \X columns : Inside(centre[2], centre[1])}}
    <2> SUFFICES ASSUME NEW q \in Pixels, Within(q)
                 PROVE  Index(q) \in {at[1] * w + at[2] :
                                        at \in {centre \in rows \X columns : Inside(centre[2], centre[1])}}
      OBVIOUS
    <2> DEFINE at == <<q[2], q[1]>>
    <2>1. /\ at \in {centre \in rows \X columns : Inside(centre[2], centre[1])}
          /\ Index(q) = at[1] * w + at[2]
      BY <1>7
    <2> HIDE DEF at
    <2> QED BY <2>1
  <1>10. CoveredBy(shape, w, h) = {Index(p) : p \in {q \in Pixels : Within(q)}}
    BY <1>2, <1>8, <1>9
  <1> QED BY <1>10 DEF Within, Inside, w, h, bounds

-----------------------------------------------------------------------------
(* What a shape stands for                                                 *)

\* Numbers are ordered as their squares are, but for the sign.
LEMMA SquaresOrder ==
  ASSUME NEW a \in Int, NEW r \in Nat, a * a <= r * r
  PROVE  -r <= a /\ a <= r
  <1>1. a > r => a * a > r * r
    <2> SUFFICES ASSUME a > r PROVE a * a > r * r
      OBVIOUS
    <2> DEFINE more == a - r
    <2>1. more \in Nat \ {0} /\ a = r + more
      OBVIOUS
    <2> HIDE DEF more
    <2>2. a * a = r * r + (2 * (r * more) + more * more)
      BY <2>1
    <2>3. 2 * (r * more) + more * more > 0
      BY <2>1
    <2> QED BY <2>2, <2>3
  <1>2. -a > r => a * a > r * r
    <2> SUFFICES ASSUME -a > r PROVE a * a > r * r
      OBVIOUS
    <2> DEFINE more == (-a) - r
    <2>1. more \in Nat \ {0} /\ a = -(r + more)
      OBVIOUS
    <2> HIDE DEF more
    <2>2. a * a = r * r + (2 * (r * more) + more * more)
      BY <2>1
    <2>3. 2 * (r * more) + more * more > 0
      BY <2>1
    <2> QED BY <2>2, <2>3
  <1> QED BY <1>1, <1>2

\* Centres inside an ellipse lie between the sides of its box.
LEMMA EllipseInItsBox ==
  ASSUME NEW shape, shape.x \in Int, shape.y \in Int, shape.width \in Nat, shape.height \in Nat,
         shape.width > 0, shape.height > 0, NEW a \in Int, NEW b \in Int,
         EllipseContains(shape, 2 * a + 1, 2 * b + 1)
  PROVE  /\ shape.x <= a /\ a < shape.x + shape.width
         /\ shape.y <= b /\ b < shape.y + shape.height
  <1> DEFINE w == shape.width
             h == shape.height
             u == (2 * a + 1) - (2 * shape.x + w)
             v == (2 * b + 1) - (2 * shape.y + h)
  <1>1. u \in Int /\ v \in Int /\ w \in Nat /\ h \in Nat /\ w > 0 /\ h > 0
    OBVIOUS
  <1>2. (u * h) * (u * h) + (v * w) * (v * w) <= (w * h) * (w * h)
    BY DEF EllipseContains
  <1> HIDE DEF u, v, w, h
  <1>3. /\ (u * h) * (u * h) <= (w * h) * (w * h)
        /\ (v * w) * (v * w) <= (w * h) * (w * h)
        /\ u * h \in Int /\ v * w \in Int /\ w * h \in Nat
    <2> DEFINE s == u * h
               t == v * w
               r == w * h
    <2>1. s \in Int /\ t \in Int /\ r \in Nat /\ s * s + t * t <= r * r
      BY <1>1, <1>2
    <2> HIDE DEF s, t, r
    <2>2. s * s >= 0 /\ t * t >= 0
      BY <2>1
    <2>3. s * s <= r * r /\ t * t <= r * r
      BY <2>1, <2>2
    <2> QED BY <2>1, <2>3 DEF s, t, r
  <1>4. /\ -(w * h) <= u * h /\ u * h <= w * h
        /\ -(w * h) <= v * w /\ v * w <= w * h
    BY <1>3, SquaresOrder
  <1>5. -w <= u /\ u <= w
    BY <1>1, <1>4
  <1>6. -h <= v /\ v <= h
    BY <1>1, <1>4
  <1> QED BY <1>5, <1>6 DEF u, v, w, h

\* Where an edge crosses a row lies between its ends.
LEMMA CrossingBetweenEnds ==
  ASSUME NEW x1 \in Int, NEW y1 \in Int, NEW x2 \in Int, NEW y2 \in Int,
         NEW x \in Int, NEW y \in Int, y1 <= y, y < y2
  PROVE  LET gap == (x2 - x1) * (y - y1) + (x1 - x) * (y2 - y1)
         IN  /\ x1 <= x /\ x2 <= x => gap <= 0
             /\ x1 > x /\ x2 > x => gap > 0
  <1> DEFINE s == y - y1
             t == y2 - y
             d == x1 - x
             e == x2 - x
  <1>1. s \in Nat /\ t \in Nat /\ t > 0 /\ d \in Int /\ e \in Int
    OBVIOUS
  <1>2. (x2 - x1) * (y - y1) + (x1 - x) * (y2 - y1) = e * s + d * t
    OBVIOUS
  <1>3. (x1 <= x <=> d <= 0) /\ (x2 <= x <=> e <= 0) /\ (x1 > x <=> d > 0) /\ (x2 > x <=> e > 0)
    OBVIOUS
  <1> HIDE DEF s, t, d, e
  <1>4. d <= 0 /\ e <= 0 => e * s + d * t <= 0
    BY <1>1
  <1>5. d > 0 /\ e > 0 => e * s + d * t > 0
    BY <1>1
  <1> QED BY <1>2, <1>3, <1>4, <1>5

\* A number of points on two sides of a line, taken round in a circle, changes side an even
\* number of times.
LEMMA ChangesOfSideAreEven ==
  ASSUME NEW n \in Nat \ {0}, NEW side \in [1 .. n -> {0, 1}]
  PROVE  LET changes == {i \in 1 .. n : side[i] # side[IF i = 1 THEN n ELSE i - 1]}
         IN  IsFiniteSet(changes) /\ Cardinality(changes) % 2 = 0
  <1> DEFINE changes == {i \in 1 .. n : side[i] # side[IF i = 1 THEN n ELSE i - 1]}
             upTo(k) == {i \in 2 .. k : side[i] # side[i - 1]}
             Even(k) == Cardinality(upTo(k)) % 2 = 0 <=> side[k] = side[1]
             odd == {k \in 1 .. n : ~Even(k)}
  <1>1. \A k \in 1 .. n : IsFiniteSet(upTo(k)) /\ Cardinality(upTo(k)) \in Nat
    <2> TAKE k \in 1 .. n
    <2>1. IsFiniteSet(2 .. k)
      BY FS_Interval
    <2> QED BY <2>1, FS_Subset, FS_CardinalityType
  <1>2. Even(1)
    <2>1. upTo(1) = {}
      OBVIOUS
    <2> HIDE DEF upTo
    <2> QED BY <2>1, FS_EmptySet
  <1>3. ASSUME NEW k \in 2 .. n, Even(k - 1)
        PROVE  Even(k)
    <2>1. k \in 1 .. n /\ k - 1 \in 1 .. n /\ k \notin upTo(k - 1)
      OBVIOUS
    <2>2. upTo(k) = IF side[k] # side[k - 1] THEN upTo(k - 1) \cup {k} ELSE upTo(k - 1)
      <3>1. \A i : i \in 2 .. k <=> i \in 2 .. k - 1 \/ i = k
        BY <2>1
      <3> QED BY <3>1
    <2> HIDE DEF upTo
    <2>3. Cardinality(upTo(k)) = IF side[k] # side[k - 1] THEN Cardinality(upTo(k - 1)) + 1
                                 ELSE Cardinality(upTo(k - 1))
      BY <1>1, <2>1, <2>2, FS_AddElement
    <2>4. side[k] \in {0, 1} /\ side[k - 1] \in {0, 1} /\ side[1] \in {0, 1}
      BY <2>1
    <2>5. Cardinality(upTo(k - 1)) \in Nat
      BY <1>1, <2>1
    <2> QED BY <1>3, <2>3, <2>4, <2>5
  <1> HIDE DEF Even
  <1>4. odd = {}
    <2> SUFFICES ASSUME odd # {} PROVE FALSE
      OBVIOUS
    <2>1. odd \in SUBSET (1 .. n)
      OBVIOUS
    <2>2. PICK k \in odd : \A j \in odd : k <= j
      BY <2>1, LeastIndex
    <2>3. k \in 1 .. n /\ ~Even(k) /\ k - 1 \notin odd
      <3>1. k \in 1 .. n /\ ~Even(k)
        OBVIOUS
      <3>2. ~(k <= k - 1)
        BY <3>1
      <3> QED BY <2>2, <3>1, <3>2
    <2>4. k \in 2 .. n /\ k - 1 \in 1 .. n
      <3>1. k # 1
        BY <1>2, <2>3
      <3> QED BY <2>3, <3>1
    <2>5. Even(k - 1)
      BY <2>3, <2>4
    <2> QED BY <1>3, <2>3, <2>4, <2>5
  <1>5. Even(n) /\ n \in 1 .. n
    BY <1>4
  <1>6. changes = IF side[1] # side[n] THEN upTo(n) \cup {1} ELSE upTo(n)
    <2>1. \A i \in 1 .. n : i = 1 \/ i \in 2 .. n
      OBVIOUS
    <2>2. 1 \in 1 .. n /\ \A i \in 2 .. n : i \in 1 .. n /\ i # 1
      OBVIOUS
    <2> QED BY <2>1, <2>2
  <1>7. 1 \notin upTo(n)
    OBVIOUS
  <1> HIDE DEF upTo, changes
  <1>8. IsFiniteSet(changes)
        /\ Cardinality(changes) = IF side[1] # side[n] THEN Cardinality(upTo(n)) + 1
                                  ELSE Cardinality(upTo(n))
    BY <1>1, <1>5, <1>6, <1>7, FS_AddElement
  <1>9. Cardinality(upTo(n)) \in Nat
    BY <1>1, <1>5
  <1>10. Cardinality(upTo(n)) % 2 = 0 <=> side[n] = side[1]
    BY <1>5 DEF Even
  <1>11. Cardinality(changes) % 2 = 0
    BY <1>8, <1>9, <1>10
  <1> QED BY <1>8, <1>11 DEF changes

\* Whether the edge comes across the row to the right of the column.
LEMMA EdgesMeetTheRow ==
  ASSUME NEW shape \in Shape, shape.kind = "Polygon", shape.points # <<>>, NEW x \in Int, NEW y \in Int
  PROVE  /\ IsFiniteSet(EdgesAcross(shape, y)) /\ Cardinality(EdgesAcross(shape, y)) % 2 = 0
         /\ \A i \in EdgesAcross(shape, y) :
              /\ BeyondOnEdge(shape, i, x, y) \in Int
              /\ (\A j \in DOMAIN shape.points : 2 * shape.points[j][1] <= x)
                   => BeyondOnEdge(shape, i, x, y) <= 0
              /\ (\A j \in DOMAIN shape.points : 2 * shape.points[j][1] > x)
                   => BeyondOnEdge(shape, i, x, y) > 0
  <1> DEFINE points == shape.points
             n == Len(points)
             before(i) == IF i = 1 THEN n ELSE i - 1
  <1>1. points \in Seq(Int \X Int) /\ points # <<>>
    BY DEF Shape
  <1>2. n \in Nat \ {0} /\ DOMAIN points = 1 .. n
        /\ \A i \in 1 .. n : points[i] \in Int \X Int
    BY <1>1
  <1> HIDE DEF n
  <1>3. \A i \in 1 .. n : before(i) \in 1 .. n
    BY <1>2
  <1>4. \A i : Previous(i, points) = points[before(i)]
    BY DEF Previous, n
  <1> HIDE DEF points, before
  <1>5. \A i \in 1 .. n : points[i][1] \in Int /\ points[i][2] \in Int
    BY <1>2
  <1>6. IsFiniteSet(EdgesAcross(shape, y)) /\ Cardinality(EdgesAcross(shape, y)) % 2 = 0
    <2> DEFINE side == [i \in 1 .. n |-> IF 2 * points[i][2] > y THEN 1 ELSE 0]
               changes == {i \in 1 .. n : side[i] # side[before(i)]}
    <2>1. side \in [1 .. n -> {0, 1}]
      OBVIOUS
    <2>2. \A i \in 1 .. n : side[i] # side[before(i)]
                              <=> (2 * points[i][2] > y) # (2 * points[before(i)][2] > y)
      BY <1>3
    <2>3. EdgesAcross(shape, y)
            = {i \in 1 .. n : (2 * points[i][2] > y) # (2 * points[before(i)][2] > y)}
      BY <1>2, <1>4 DEF EdgesAcross, points
    <2> HIDE DEF side
    <2>4. EdgesAcross(shape, y) = changes
      BY <2>2, <2>3
    <2>5. IsFiniteSet(changes) /\ Cardinality(changes) % 2 = 0
      BY <1>2, <2>1, ChangesOfSideAreEven DEF before
    <2> QED BY <2>4, <2>5
  <1>7. ASSUME NEW i \in EdgesAcross(shape, y)
        PROVE  /\ BeyondOnEdge(shape, i, x, y) \in Int
               /\ (\A j \in DOMAIN points : 2 * points[j][1] <= x)
                    => BeyondOnEdge(shape, i, x, y) <= 0
               /\ (\A j \in DOMAIN points : 2 * points[j][1] > x)
                    => BeyondOnEdge(shape, i, x, y) > 0
    <2> DEFINE x1 == points[i][1]
               y1 == points[i][2]
               x2 == points[before(i)][1]
               y2 == points[before(i)][2]
               gap == (x2 - x1) * (y - 2 * y1) + (2 * x1 - x) * (y2 - y1)
    <2>1. i \in 1 .. n /\ before(i) \in 1 .. n /\ (2 * y1 > y) # (2 * y2 > y)
      BY <1>2, <1>3, <1>4 DEF EdgesAcross, points
    <2>2. x1 \in Int /\ y1 \in Int /\ x2 \in Int /\ y2 \in Int
      BY <1>5, <2>1
    <2>3. BeyondOnEdge(shape, i, x, y) = IF y2 - y1 > 0 THEN gap ELSE -gap
      BY <1>4 DEF BeyondOnEdge, points
    <2>4. /\ (\A j \in DOMAIN points : 2 * points[j][1] <= x) => 2 * x1 <= x /\ 2 * x2 <= x
          /\ (\A j \in DOMAIN points : 2 * points[j][1] > x) => 2 * x1 > x /\ 2 * x2 > x
      BY <1>2, <2>1
    <2> HIDE DEF x1, y1, x2, y2
    <2>5. gap \in Int
      BY <2>2
    <2>6. CASE y2 > y1
      <3>1. 2 * y1 <= y /\ y < 2 * y2
        BY <2>1, <2>2, <2>6
      <3>2. 2 * gap = (2 * x2 - 2 * x1) * (y - 2 * y1) + (2 * x1 - x) * (2 * y2 - 2 * y1)
        BY <2>2
      <3>3. /\ 2 * x1 <= x /\ 2 * x2 <= x => 2 * gap <= 0
            /\ 2 * x1 > x /\ 2 * x2 > x => 2 * gap > 0
        <4>1. 2 * x1 \in Int /\ 2 * y1 \in Int /\ 2 * x2 \in Int /\ 2 * y2 \in Int
          BY <2>2
        <4> DEFINE sum == (2 * x2 - 2 * x1) * (y - 2 * y1)
                            + (2 * x1 - x) * (2 * y2 - 2 * y1)
        <4>2. /\ 2 * x1 <= x /\ 2 * x2 <= x => sum <= 0
              /\ 2 * x1 > x /\ 2 * x2 > x => sum > 0
          BY <3>1, <4>1, CrossingBetweenEnds
        <4> HIDE DEF sum
        <4> QED BY <3>2, <4>2 DEF sum
      <3>4. BeyondOnEdge(shape, i, x, y) = gap
        BY <2>2, <2>3, <2>6
      <3> HIDE DEF gap
      <3> QED BY <2>4, <2>5, <3>3, <3>4
    <2>7. CASE ~(y2 > y1)
      <3>1. 2 * y2 <= y /\ y < 2 * y1
        BY <2>1, <2>2, <2>7
      <3>2. 2 * (-gap) = (2 * x1 - 2 * x2) * (y - 2 * y2) + (2 * x2 - x) * (2 * y1 - 2 * y2)
        BY <2>2
      <3>3. /\ 2 * x1 <= x /\ 2 * x2 <= x => 2 * (-gap) <= 0
            /\ 2 * x1 > x /\ 2 * x2 > x => 2 * (-gap) > 0
        <4>1. 2 * x1 \in Int /\ 2 * y1 \in Int /\ 2 * x2 \in Int /\ 2 * y2 \in Int
          BY <2>2
        <4> DEFINE sum == (2 * x1 - 2 * x2) * (y - 2 * y2)
                            + (2 * x2 - x) * (2 * y1 - 2 * y2)
        <4>2. /\ 2 * x1 <= x /\ 2 * x2 <= x => sum <= 0
              /\ 2 * x1 > x /\ 2 * x2 > x => sum > 0
          BY <3>1, <4>1, CrossingBetweenEnds
        <4> HIDE DEF sum
        <4> QED BY <3>2, <4>2 DEF sum
      <3>4. BeyondOnEdge(shape, i, x, y) = -gap
        BY <2>2, <2>3, <2>7
      <3> HIDE DEF gap
      <3> QED BY <2>4, <2>5, <3>3, <3>4
    <2> QED BY <2>6, <2>7
  <1> QED BY <1>6, <1>7 DEF points

\* The bounds of a polygon cut none of it off, and to the left of a centre its outline comes
\* across the row as often, but for an even number, as to the right.
LEMMA PolygonRegion ==
  ASSUME Canvas, NEW shape \in Shape, shape.kind = "Polygon", shape.points # <<>>, NEW p \in Pixels
  PROVE  p \in Region(shape)
           <=> LET bounds == pixel_bounds(shape)
               IN  /\ bounds[1] <= p[1] /\ p[1] < bounds[3]
                   /\ bounds[2] <= p[2] /\ p[2] < bounds[4]
                   /\ contains(shape, 2 * p[1] + 1, 2 * p[2] + 1)
  <1> DEFINE points == shape.points
             bounds == pixel_bounds(shape)
             x == 2 * p[1] + 1
             y == 2 * p[2] + 1
             edges == EdgesAcross(shape, y)
             right == {i \in edges : BeyondOnEdge(shape, i, x, y) > 0}
             left == {i \in edges : BeyondOnEdge(shape, i, x, y) <= 0}
  <1>1. p[1] \in Int /\ p[2] \in Int /\ x \in Int /\ y \in Int
    BY PixelsHaveIndices
  <1>2. /\ bounds[1] \in Int /\ bounds[2] \in Int /\ bounds[3] \in Int /\ bounds[4] \in Int
        /\ \A i \in DOMAIN points :
             /\ bounds[1] <= points[i][1] /\ points[i][1] <= bounds[3]
             /\ bounds[2] <= points[i][2] /\ points[i][2] <= bounds[4]
    BY BoundsHold DEF Pointless
  <1>3. \A i \in DOMAIN points : points[i][1] \in Int /\ points[i][2] \in Int
    <2>1. points \in Seq(Int \X Int)
      BY DEF Shape
    <2> HIDE DEF points
    <2> QED BY <2>1
  <1>4. p \in Region(shape) <=> Cardinality(left) % 2 = 1
    BY DEF Region
  <1>5. contains(shape, x, y) <=> Cardinality(right) % 2 = 1
    BY DEF contains, PolygonContains
  <1>6. /\ IsFiniteSet(edges) /\ Cardinality(edges) % 2 = 0
        /\ \A i \in edges :
             /\ BeyondOnEdge(shape, i, x, y) \in Int
             /\ (\A j \in DOMAIN points : 2 * points[j][1] <= x) => BeyondOnEdge(shape, i, x, y) <= 0
             /\ (\A j \in DOMAIN points : 2 * points[j][1] > x) => BeyondOnEdge(shape, i, x, y) > 0
    BY <1>1, EdgesMeetTheRow
  <1>7. ASSUME NEW A, A = edges \/ A = {}
        PROVE  Cardinality(A) % 2 = 0
    <2>1. Cardinality({}) = 0
      BY FS_EmptySet
    <2>2. CASE A = edges
      BY <1>6, <2>2
    <2>3. CASE A = {}
      BY <2>1, <2>3
    <2> QED BY <1>7, <2>2, <2>3
  <1>8. ~(bounds[1] <= p[1]) => left = {}
    <2> SUFFICES ASSUME ~(bounds[1] <= p[1]) PROVE left = {}
      OBVIOUS
    <2>1. \A j \in DOMAIN points : 2 * points[j][1] > x
      <3> SUFFICES ASSUME NEW j \in DOMAIN points PROVE 2 * points[j][1] > x
        OBVIOUS
      <3>1. bounds[1] <= points[j][1] /\ points[j][1] \in Int /\ bounds[1] \in Int
        BY <1>2, <1>3
      <3>2. p[1] < points[j][1]
        BY <1>1, <3>1
      <3> HIDE DEF points, bounds
      <3> QED BY <1>1, <3>1, <3>2
    <2> HIDE DEF points, edges, x, y
    <2> QED BY <1>6, <2>1
  <1>9. ~(p[1] < bounds[3]) => left = edges
    <2> SUFFICES ASSUME ~(p[1] < bounds[3]) PROVE left = edges
      OBVIOUS
    <2>1. \A j \in DOMAIN points : 2 * points[j][1] <= x
      <3> SUFFICES ASSUME NEW j \in DOMAIN points PROVE 2 * points[j][1] <= x
        OBVIOUS
      <3>1. points[j][1] <= bounds[3] /\ points[j][1] \in Int /\ bounds[3] \in Int
        BY <1>2, <1>3
      <3>2. points[j][1] <= p[1]
        BY <1>1, <3>1
      <3> HIDE DEF points, bounds
      <3> QED BY <1>1, <3>1, <3>2
    <2> HIDE DEF points, edges, x, y
    <2> QED BY <1>6, <2>1
  <1>10. ~(bounds[2] <= p[2] /\ p[2] < bounds[4]) => edges = {}
    <2> SUFFICES ASSUME ~(bounds[2] <= p[2] /\ p[2] < bounds[4]), NEW i \in edges PROVE FALSE
      OBVIOUS
    <2> DEFINE j == IF i = 1 THEN Len(points) ELSE i - 1
    <2>1. i \in DOMAIN points /\ j \in DOMAIN points
      <3>1. points \in Seq(Int \X Int) /\ i \in DOMAIN points
        BY DEF Shape, EdgesAcross
      <3> HIDE DEF points
      <3> QED BY <3>1
    <2>2. (2 * points[i][2] > y) # (2 * points[j][2] > y)
      BY DEF EdgesAcross, Previous
    <2> HIDE DEF points, j, edges
    <2>3. /\ bounds[2] <= points[i][2] /\ points[i][2] <= bounds[4] /\ points[i][2] \in Int
          /\ bounds[2] <= points[j][2] /\ points[j][2] <= bounds[4] /\ points[j][2] \in Int
          /\ bounds[2] \in Int /\ bounds[4] \in Int
      BY <1>2, <1>3, <2>1
    <2> HIDE DEF bounds
    <2>4. CASE bounds[2] > p[2]
      <3>1. 2 * points[i][2] > y /\ 2 * points[j][2] > y
        <4>1. \A row \in Int : row > p[2] => 2 * row > y
          BY <1>1
        <4>2. points[i][2] > p[2] /\ points[j][2] > p[2]
          BY <1>1, <2>3, <2>4
        <4> HIDE DEF y
        <4> QED BY <2>3, <4>1, <4>2
      <3> QED BY <2>2, <3>1
    <2>5. CASE p[2] >= bounds[4]
      <3>1. ~(2 * points[i][2] > y) /\ ~(2 * points[j][2] > y)
        <4>1. \A row \in Int : row <= p[2] => ~(2 * row > y)
          BY <1>1
        <4>2. points[i][2] <= p[2] /\ points[j][2] <= p[2]
          BY <1>1, <2>3, <2>5
        <4> HIDE DEF y
        <4> QED BY <2>3, <4>1, <4>2
      <3> QED BY <2>2, <3>1
    <2> QED BY <1>1, <2>3, <2>4, <2>5
  <1>11. Cardinality(left) % 2 = 1 <=> Cardinality(right) % 2 = 1
    <2> HIDE DEF edges, x, y
    <2>1. left \cup right = edges /\ left \cap right = {}
      BY <1>6
    <2>2. IsFiniteSet(left) /\ IsFiniteSet(right)
      BY <1>6, FS_Subset
    <2> HIDE DEF left, right
    <2>3. Cardinality(edges) = Cardinality(left) + Cardinality(right)
      <3>1. Cardinality(left \cup right)
              = Cardinality(left) + Cardinality(right) - Cardinality(left \cap right)
        BY <2>2, FS_Union
      <3>2. Cardinality(left) \in Nat /\ Cardinality(right) \in Nat
        BY <2>2, FS_CardinalityType
      <3>3. Cardinality({}) = 0
        BY FS_EmptySet
      <3>4. Cardinality(left \cup right) = Cardinality(edges) /\ Cardinality(left \cap right) = 0
        BY <2>1, <3>3
      <3> QED BY <3>1, <3>2, <3>4
    <2>4. Cardinality(left) \in Nat /\ Cardinality(right) \in Nat
      BY <2>2, FS_CardinalityType
    <2> QED BY <1>6, <2>3, <2>4
  <1>12. edges = {} => left = {}
    OBVIOUS
  <1> HIDE DEF left, right, edges
  <1>13. p \in Region(shape) => /\ bounds[1] <= p[1] /\ p[1] < bounds[3]
                                /\ bounds[2] <= p[2] /\ p[2] < bounds[4]
    <2> SUFFICES ASSUME p \in Region(shape)
                 PROVE  /\ bounds[1] <= p[1] /\ p[1] < bounds[3]
                        /\ bounds[2] <= p[2] /\ p[2] < bounds[4]
      OBVIOUS
    <2>1. left # {} /\ left # edges
      BY <1>4, <1>7
    <2> QED BY <1>8, <1>9, <1>10, <1>12, <2>1
  <1> QED BY <1>4, <1>5, <1>11, <1>13 DEF x, y

LEMMA RectangleRegion ==
  ASSUME Canvas, NEW shape \in Shape, shape.kind = "Rectangle", NEW p \in Pixels
  PROVE  p \in Region(shape)
           <=> LET bounds == pixel_bounds(shape)
               IN  /\ bounds[1] <= p[1] /\ p[1] < bounds[3]
                   /\ bounds[2] <= p[2] /\ p[2] < bounds[4]
                   /\ contains(shape, 2 * p[1] + 1, 2 * p[2] + 1)
  <1>1. p[1] \in Int /\ p[2] \in Int
    BY PixelsHaveIndices
  <1>2. shape.x \in Int /\ shape.y \in Int /\ shape.width \in Int /\ shape.height \in Int
    BY DEF Shape
  <1>3. p \in Region(shape) <=> /\ p[1] \in shape.x .. shape.x + shape.width - 1
                                /\ p[2] \in shape.y .. shape.y + shape.height - 1
    BY DEF Region
  <1>4. contains(shape, 2 * p[1] + 1, 2 * p[2] + 1)
          <=> RectangleContains(shape, 2 * p[1] + 1, 2 * p[2] + 1)
    BY DEF contains
  <1>5. RectangleContains(shape, 2 * p[1] + 1, 2 * p[2] + 1)
          <=> /\ shape.x <= p[1] /\ p[1] < shape.x + shape.width
              /\ shape.y <= p[2] /\ p[2] < shape.y + shape.height
    BY <1>1, <1>2 DEF RectangleContains
  <1>6. /\ pixel_bounds(shape)[1] = shape.x /\ pixel_bounds(shape)[3] = shape.x + shape.width
        /\ pixel_bounds(shape)[2] = shape.y /\ pixel_bounds(shape)[4] = shape.y + shape.height
    BY BoundsHold DEF Pointless
  <1> QED BY <1>1, <1>2, <1>3, <1>4, <1>5, <1>6

LEMMA EllipseRegion ==
  ASSUME Canvas, NEW shape \in Shape, shape.kind = "Ellipse", NEW p \in Pixels
  PROVE  p \in Region(shape)
           <=> LET bounds == pixel_bounds(shape)
               IN  /\ bounds[1] <= p[1] /\ p[1] < bounds[3]
                   /\ bounds[2] <= p[2] /\ p[2] < bounds[4]
                   /\ contains(shape, 2 * p[1] + 1, 2 * p[2] + 1)
  <1> DEFINE inside == EllipseContains(shape, 2 * p[1] + 1, 2 * p[2] + 1)
  <1>1. p[1] \in Int /\ p[2] \in Int
    BY PixelsHaveIndices
  <1>2. shape.x \in Int /\ shape.y \in Int /\ shape.width \in Int /\ shape.height \in Int
    BY DEF Shape
  <1>3. p \in Region(shape) <=> shape.width > 0 /\ shape.height > 0 /\ inside
    BY DEF Region
  <1>4. contains(shape, 2 * p[1] + 1, 2 * p[2] + 1) <=> inside
    BY DEF contains
  <1>5. /\ pixel_bounds(shape)[1] = shape.x /\ pixel_bounds(shape)[3] = shape.x + shape.width
        /\ pixel_bounds(shape)[2] = shape.y /\ pixel_bounds(shape)[4] = shape.y + shape.height
    BY BoundsHold DEF Pointless
  <1>6. shape.width > 0 /\ shape.height > 0 /\ inside
          => /\ shape.x <= p[1] /\ p[1] < shape.x + shape.width
             /\ shape.y <= p[2] /\ p[2] < shape.y + shape.height
    BY <1>1, <1>2, EllipseInItsBox
  <1> HIDE DEF inside
  <1>7. /\ shape.x <= p[1] /\ p[1] < shape.x + shape.width => shape.width > 0
        /\ shape.y <= p[2] /\ p[2] < shape.y + shape.height => shape.height > 0
    BY <1>1, <1>2
  <1> QED BY <1>3, <1>4, <1>5, <1>6, <1>7

\* What a shape covers is what it stands for on the canvas; without points it stands for
\* nothing.
LEMMA CoversItsRegion ==
  ASSUME Canvas, NEW shape \in Shape
  PROVE  /\ Pointless(shape) => Region(shape) = {}
         /\ ~Pointless(shape) =>
              CoveredBy(shape, job.width, job.height) = {Index(p) : p \in Region(shape)}
  <1>1. shape.kind \in {"Rectangle", "Ellipse", "Polygon"}
    BY DEF Shape
  <1>2. Region(shape) \subseteq Pixels
    BY <1>1 DEF Region
  <1>3. ASSUME Pointless(shape)
        PROVE  Region(shape) = {}
    <2>1. \A y : EdgesAcross(shape, y) = {}
      BY <1>3 DEF EdgesAcross, Pointless
    <2>2. \A p \in Pixels : p \in Region(shape) =>
            Cardinality({i \in EdgesAcross(shape, 2 * p[2] + 1) :
                           BeyondOnEdge(shape, i, 2 * p[1] + 1, 2 * p[2] + 1) <= 0}) % 2 = 1
      BY <1>3 DEF Region, Pointless
    <2>3. \A p \in Pixels : p \in Region(shape) => Cardinality({}) % 2 = 1
      <3> SUFFICES ASSUME NEW p \in Pixels, p \in Region(shape) PROVE Cardinality({}) % 2 = 1
        OBVIOUS
      <3>1. {i \in EdgesAcross(shape, 2 * p[2] + 1) :
               BeyondOnEdge(shape, i, 2 * p[1] + 1, 2 * p[2] + 1) <= 0} = {}
        BY <2>1
      <3> QED BY <2>2, <3>1
    <2>4. Cardinality({}) = 0
      BY FS_EmptySet
    <2> QED BY <1>2, <2>3, <2>4
  <1>4. ASSUME ~Pointless(shape)
        PROVE  CoveredBy(shape, job.width, job.height) = {Index(p) : p \in Region(shape)}
    <2> DEFINE bounds == pixel_bounds(shape)
               Inside(p) == /\ bounds[1] <= p[1] /\ p[1] < bounds[3]
                            /\ bounds[2] <= p[2] /\ p[2] < bounds[4]
                            /\ contains(shape, 2 * p[1] + 1, 2 * p[2] + 1)
    <2>1. \A p \in Pixels : p \in Region(shape) <=> Inside(p)
      BY <1>1, <1>4, RectangleRegion, EllipseRegion, PolygonRegion DEF Pointless
    <2>2. CoveredBy(shape, job.width, job.height)
            = {Index(p) : p \in {q \in Pixels : Inside(q)}}
      BY <1>4, CoveredOnCanvas
    <2> HIDE DEF Inside
    <2>3. {q \in Pixels : Inside(q)} = Region(shape)
      BY <1>2, <2>1
    <2> QED BY <2>2, <2>3
  <1> QED BY <1>3, <1>4

-----------------------------------------------------------------------------
(* The inductive invariant                                                 *)

\* A canvas that was not refused, and the pixels covered on it.
DrawInv ==
  /\ job \in Jobs
  /\ pc \in {"called", "covering", "covered", "feathering", "handed_in", "ended"}
  /\ pc \in {"called", "covering", "covered", "feathering"} => job.bytes = <<>>
  /\ pc = "handed_in" => job.bytes # <<>> /\ values = job.bytes
  /\ pc \in {"covering", "covered", "feathering"} =>
       Canvas /\ job.feather \in 0 .. MAX_FEATHER_PIXELS
  /\ pc = "called" => position = 1 /\ covered = {}
  /\ pc = "covering" => position \in 1 .. Len(job.shapes)
  /\ pc \in {"called", "covering", "covered"} => distance = 0
  /\ pc \in {"covered", "feathering"} => covered # {}
  /\ covered # {} => Canvas /\ covered \subseteq Cells
  /\ pc # "ended" => verdict = <<"none">>

\* Every ring so far is as far from the covered pixels as its number says, and painted
\* with the ramp's value for it.
Drawn(inner, outer, rings, bytes) ==
  /\ rings \in 0 .. job.feather
  /\ inner \subseteq Cells
  /\ outer \subseteq Cells
  /\ \A p \in Pixels : Index(p) \in inner <=> Near(p, rings)
  /\ \A p \in Pixels : Index(p) \in outer <=> Near(p, rings) /\ ~Near(p, rings - 1)
  /\ DOMAIN bytes = Cells
  /\ \A p \in Pixels :
       /\ Near(p, 0) => bytes[Index(p)] = CHANGE
       /\ ~Near(p, rings) => bytes[Index(p)] = KEEP
       /\ \A d \in 1 .. rings :
            Near(p, d) /\ ~Near(p, d - 1) => bytes[Index(p)] = ramp(job.feather, d)

Ringed == Drawn(reached, frontier, distance, values)

RingsInv == pc = "feathering" => Ringed

\* What is read was drawn to its last ring, or carries bytes of its own shape.
ReadInv ==
  /\ verdict[1] \in {"nothing", "carried"} => job.bytes # <<>>
  /\ verdict[1] = "read" =>
       /\ verdict = <<"read", MaskReading>>
       /\ <<job.width, job.height>> = Image
       /\ refuse_shape(job.width, job.height, Cardinality(DOMAIN values)) = <<"none">>
       /\ IF job.bytes = <<>>
            THEN /\ Canvas /\ covered \subseteq Cells
                 /\ job.feather \in 0 .. MAX_FEATHER_PIXELS
                 /\ Ringed /\ distance = job.feather
            ELSE values = job.bytes

MaskInv == DrawInv /\ RingsInv /\ ReadInv

LEMMA InitMask == ASSUME Init PROVE MaskInv
  <1>1. DrawInv
    BY DEF Init, DrawInv
  <1>2. RingsInv
    BY DEF Init, RingsInv
  <1>3. ReadInv
    BY DEF Init, ReadInv
  <1> QED BY <1>1, <1>2, <1>3 DEF MaskInv

\* Each shape covers pixels of the canvas.
LEMMA CoverShapeStaysOnCanvas ==
  ASSUME DrawInv, CoverShape
  PROVE  /\ covered' \subseteq Cells
         /\ pc' # "ended" => covered' # {}
         /\ pc' = "covering" => position' \in 1 .. Len(job.shapes)
  <1> DEFINE shape == job.shapes[position]
             found == CoveredBy(shape, job.width, job.height)
  <1>1. /\ job \in Jobs /\ Canvas /\ position \in 1 .. Len(job.shapes)
        /\ covered \subseteq Cells
    BY DEF DrawInv, CoverShape
  <1>2. job.shapes \in Seq(Shape)
    BY <1>1, JobsAssumption
  <1>3. shape \in Shape /\ Len(job.shapes) \in Nat
    BY <1>1, <1>2
  <1>4. \/ pc' = "ended" /\ UNCHANGED <<position, covered>>
        \/ /\ ~Pointless(shape) /\ found # {} /\ covered' = covered \cup found
           /\ position' = position + 1
           /\ pc' = IF position = Len(job.shapes) THEN "covered" ELSE "covering"
    BY DEF CoverShape, Refuse
  <1>5. CASE pc' = "ended" /\ UNCHANGED <<position, covered>>
    BY <1>1, <1>5
  <1>6. CASE /\ ~Pointless(shape) /\ found # {} /\ covered' = covered \cup found
             /\ position' = position + 1
             /\ pc' = IF position = Len(job.shapes) THEN "covered" ELSE "covering"
    <2>1. found \subseteq Cells
      <3> HIDE DEF shape
      <3>1. found \subseteq {Index(p) : p \in Pixels}
        BY <1>1, <1>3, <1>6, CoveredOnCanvas
      <3>2. {Index(p) : p \in Pixels} \subseteq Cells
        BY <1>1, PixelsHaveIndices
      <3> QED BY <3>1, <3>2
    <2> HIDE DEF shape, found
    <2> QED BY <1>1, <1>3, <1>6, <2>1
  <1> QED BY <1>4, <1>5, <1>6

LEMMA DrawStep == ASSUME MaskInv, [Next]_vars PROVE DrawInv'
  <1>1. DrawInv
    BY DEF MaskInv
  <1>2. CASE rasterise
    <2>1. job \in Jobs /\ job.width \in Int /\ job.height \in Int /\ job.feather \in Int
          /\ job.shapes \in Seq(Shape)
      BY <1>1, JobsAssumption DEF DrawInv
    <2>2. CASE pc' = "ended"
      BY <1>1, <1>2, <2>2 DEF DrawInv, rasterise, Canvas, Cells
    <2>3. CASE pc' # "ended"
      <3>1. /\ job.width > 0 /\ job.height > 0 /\ job.shapes # <<>>
            /\ job.feather \in 0 .. MAX_FEATHER_PIXELS /\ pc' = "covering" /\ UNCHANGED verdict
        <4>1. /\ ~(job.width <= 0 \/ job.height <= 0)
              /\ ~(job.feather < 0 \/ job.feather > MAX_FEATHER_PIXELS)
              /\ job.shapes # <<>>
          BY <1>2, <2>3 DEF rasterise, Refuse
        <4>2. pc' = "covering" /\ UNCHANGED verdict
          BY <1>2, <4>1 DEF rasterise
        <4>3. MAX_FEATHER_PIXELS \in Int
          BY DEF MAX_FEATHER_PIXELS
        <4> QED BY <2>1, <4>1, <4>2, <4>3
      <3>2. position = 1 /\ 1 \in 1 .. Len(job.shapes)
        BY <1>1, <1>2, <2>1, <3>1 DEF DrawInv, rasterise
      <3> QED BY <1>1, <1>2, <2>1, <3>1, <3>2 DEF DrawInv, rasterise, Canvas, Cells
    <2> QED BY <2>2, <2>3
  <1>3. CASE CoverShape
    <2>1. /\ covered' \subseteq Cells
          /\ pc' # "ended" => covered' # {}
          /\ pc' = "covering" => position' \in 1 .. Len(job.shapes)
      BY <1>1, <1>3, CoverShapeStaysOnCanvas
    <2>2. /\ pc = "covering" /\ pc' \in {"ended", "covering", "covered"}
          /\ pc' # "ended" => UNCHANGED verdict
          /\ UNCHANGED <<job, reached, frontier, distance, values>>
      BY <1>3 DEF CoverShape, Refuse
    <2> QED BY <1>1, <2>1, <2>2 DEF DrawInv, Canvas, Cells
  <1>4. CASE Paint
    BY <1>1, <1>4 DEF DrawInv, Paint, Canvas, Cells
  <1>5. CASE FeatherRing
    BY <1>1, <1>5 DEF DrawInv, FeatherRing, Canvas, Cells
  <1>6. CASE read_mask_for_image
    BY <1>1, <1>6 DEF DrawInv, read_mask_for_image, Canvas, Cells
  <1>7. CASE UNCHANGED vars
    BY <1>1, <1>7 DEF DrawInv, vars, Canvas, Cells
  <1> QED BY <1>2, <1>3, <1>4, <1>5, <1>6, <1>7 DEF Next, Ended

\* The covered pixels alone are the first ring.
LEMMA PaintDraws ==
  ASSUME Canvas, covered \subseteq Cells, job.feather \in Nat
  PROVE  Drawn(covered, covered, 0,
               [i \in 0 .. job.width * job.height - 1 |-> IF i \in covered THEN CHANGE ELSE KEEP])
  <1> DEFINE bytes == [i \in Cells |-> IF i \in covered THEN CHANGE ELSE KEEP]
  <1>1. \A p \in Pixels : /\ Near(p, 0) <=> Index(p) \in covered
                          /\ ~Near(p, 0 - 1)
    <2>1. 0 - 1 = -1
      OBVIOUS
    <2> QED BY <2>1, NearGrows
  <1>2. \A p \in Pixels : Index(p) \in Cells
    BY PixelsHaveIndices
  <1>3. DOMAIN bytes = Cells /\ \A i \in Cells : bytes[i] = IF i \in covered THEN CHANGE ELSE KEEP
    OBVIOUS
  <1> HIDE DEF bytes
  <1>4. Drawn(covered, covered, 0, bytes)
    BY <1>1, <1>2, <1>3 DEF Drawn
  <1> QED BY <1>4 DEF bytes, Cells

\* Painting one more ring keeps what was painted before it.
LEMMA FeatherDraws ==
  ASSUME Canvas, covered \subseteq Cells, Ringed, distance \in Nat, distance < job.feather,
         job.feather \in Nat
  PROVE  LET ring == neighbours(frontier, job.width, job.height) \ reached
         IN  Drawn(reached \cup ring, ring, distance + 1,
                   [i \in DOMAIN values |->
                      IF i \in ring THEN ramp(job.feather, distance + 1) ELSE values[i]])
  <1> DEFINE ring == neighbours(frontier, job.width, job.height) \ reached
             bytes == [i \in DOMAIN values |->
                         IF i \in ring THEN ramp(job.feather, distance + 1) ELSE values[i]]
  <1>1. /\ reached \subseteq Cells /\ frontier \subseteq Cells /\ DOMAIN values = Cells
        /\ \A p \in Pixels : Index(p) \in reached <=> Near(p, distance)
        /\ \A p \in Pixels : Index(p) \in frontier <=> Near(p, distance) /\ ~Near(p, distance - 1)
        /\ \A p \in Pixels :
             /\ Near(p, 0) => values[Index(p)] = CHANGE
             /\ ~Near(p, distance) => values[Index(p)] = KEEP
             /\ \A d \in 1 .. distance :
                  Near(p, d) /\ ~Near(p, d - 1) => values[Index(p)] = ramp(job.feather, d)
    BY DEF Ringed, Drawn
  <1>2. /\ ring \in SUBSET Cells
        /\ \A p \in Pixels : Index(p) \in ring <=> Near(p, distance + 1) /\ ~Near(p, distance)
        /\ \A p \in Pixels : Index(p) \in reached \cup ring <=> Near(p, distance + 1)
    BY <1>1, NextRing
  <1>3. \A p \in Pixels : Index(p) \in Cells
    BY PixelsHaveIndices
  <1>4. /\ DOMAIN bytes = Cells
        /\ \A i \in Cells :
             bytes[i] = IF i \in ring THEN ramp(job.feather, distance + 1) ELSE values[i]
    BY <1>1
  <1> HIDE DEF ring, bytes
  <1>5. (distance + 1) - 1 = distance /\ distance + 1 \in 0 .. job.feather
    OBVIOUS
  <1>6. ASSUME NEW p \in Pixels
        PROVE  /\ Near(p, 0) => bytes[Index(p)] = CHANGE
               /\ ~Near(p, distance + 1) => bytes[Index(p)] = KEEP
               /\ \A d \in 1 .. distance + 1 :
                    Near(p, d) /\ ~Near(p, d - 1) => bytes[Index(p)] = ramp(job.feather, d)
    <2>1. \A d \in 0 .. distance : Near(p, d) => Near(p, distance)
      BY NearGrows
    <2>2. Near(p, distance) => Near(p, distance + 1)
      BY NearGrows
    <2>3. Near(p, distance) => bytes[Index(p)] = values[Index(p)]
      BY <1>2, <1>3, <1>4
    <2>4. Near(p, 0) => bytes[Index(p)] = CHANGE
      BY <1>1, <2>1, <2>3
    <2>5. ~Near(p, distance + 1) => bytes[Index(p)] = KEEP
      BY <1>1, <1>2, <1>3, <1>4, <2>2
    <2>6. ASSUME NEW d \in 1 .. distance + 1, Near(p, d), ~Near(p, d - 1)
          PROVE  bytes[Index(p)] = ramp(job.feather, d)
      <3>1. CASE d = distance + 1
        BY <1>2, <1>3, <1>4, <1>5, <2>6, <3>1
      <3>2. CASE d # distance + 1
        <4>1. d \in 1 .. distance /\ d \in 0 .. distance
          BY <3>2
        <4> QED BY <1>1, <2>1, <2>3, <2>6, <4>1
      <3> QED BY <3>1, <3>2
    <2> QED BY <2>4, <2>5, <2>6
  <1>7. Drawn(reached \cup ring, ring, distance + 1, bytes)
    <2>1. ring \subseteq Cells /\ reached \cup ring \subseteq Cells
      BY <1>1, <1>2
    <2>2. \A p \in Pixels : Index(p) \in ring <=> Near(p, distance + 1) /\ ~Near(p, (distance + 1) - 1)
      BY <1>2, <1>5
    <2> QED BY <1>2, <1>4, <1>5, <1>6, <2>1, <2>2 DEF Drawn
  <1> QED BY <1>7 DEF ring, bytes

LEMMA RingsStep == ASSUME MaskInv, [Next]_vars PROVE RingsInv'
  <1>1. DrawInv /\ RingsInv
    BY DEF MaskInv
  <1>2. CASE pc' # "feathering"
    BY <1>2 DEF RingsInv
  <1>3. CASE Paint
    <2>1. /\ Canvas /\ covered \subseteq Cells /\ job.feather \in Nat /\ distance = 0
          /\ UNCHANGED <<job, covered, distance>>
      <3>1. Canvas /\ covered \subseteq Cells /\ job.feather \in 0 .. MAX_FEATHER_PIXELS
        BY <1>1, <1>3 DEF DrawInv, Paint
      <3>2. distance = 0 /\ UNCHANGED <<job, covered, distance>>
        BY <1>1, <1>3 DEF DrawInv, Paint
      <3> QED BY <3>1, <3>2 DEF MAX_FEATHER_PIXELS
    <2>2. Drawn(reached', frontier', distance', values')
      BY <1>3, <2>1, PaintDraws DEF Paint
    <2> QED BY <2>1, <2>2 DEF RingsInv, Ringed, Drawn, Near, Pixels, Index, Cells
  <1>4. CASE FeatherRing
    <2>1. /\ Canvas /\ covered \subseteq Cells /\ job.feather \in Nat /\ Ringed
          /\ distance \in Nat /\ distance < job.feather
          /\ UNCHANGED <<job, covered>>
      <3>1. Canvas /\ covered \subseteq Cells /\ job.feather \in 0 .. MAX_FEATHER_PIXELS
        BY <1>1, <1>4 DEF DrawInv, FeatherRing
      <3>2. Ringed /\ distance < job.feather /\ UNCHANGED <<job, covered>>
        BY <1>1, <1>4 DEF RingsInv, FeatherRing
      <3>3. distance \in 0 .. job.feather
        BY <3>2 DEF Ringed, Drawn
      <3> QED BY <3>1, <3>2, <3>3 DEF MAX_FEATHER_PIXELS
    <2>2. Drawn(reached', frontier', distance', values')
      BY <1>4, <2>1, FeatherDraws DEF FeatherRing
    <2> QED BY <2>1, <2>2 DEF RingsInv, Ringed, Drawn, Near, Pixels, Index, Cells
  <1>5. CASE UNCHANGED vars
    BY <1>1, <1>5 DEF vars, RingsInv, Ringed, Drawn, Near, Pixels, Index, Cells
  <1>6. rasterise \/ CoverShape \/ read_mask_for_image => pc' # "feathering"
    BY DEF rasterise, CoverShape, read_mask_for_image, Refuse
  <1> QED BY <1>2, <1>3, <1>4, <1>5, <1>6 DEF Next, Ended

\* A mask that was drawn has the bytes its shape asks for, and changes something.
LEMMA DrawnIsWhole ==
  ASSUME Canvas, covered \subseteq Cells, Ringed
  PROVE  /\ IsFiniteSet(Cells) /\ Cardinality(Cells) = job.width * job.height
         /\ refuse_shape(job.width, job.height, Cardinality(DOMAIN values)) = <<"none">>
         /\ covered # {} => Changed # {}
  <1>1. job.width * job.height \in Nat /\ job.width > 0 /\ job.height > 0
    BY DEF Canvas
  <1>2. IsFiniteSet(Cells) /\ Cardinality(Cells) = job.width * job.height
    BY <1>1, FS_Interval DEF Cells
  <1>3. DOMAIN values = Cells /\ \A p \in Pixels : Near(p, 0) => values[Index(p)] = CHANGE
    BY DEF Ringed, Drawn
  <1>4. refuse_shape(job.width, job.height, Cardinality(DOMAIN values)) = <<"none">>
    <2> DEFINE w == job.width
               h == job.height
    <2>1. ~(w <= 0 \/ h <= 0) /\ ~(w > 0 /\ h > 0 /\ Cardinality(Cells) # w * h)
      BY <1>1, <1>2 DEF Canvas
    <2> HIDE DEF w, h
    <2>2. refuse_shape(w, h, Cardinality(Cells)) = <<"none">>
      BY <2>1 DEF refuse_shape
    <2> QED BY <1>3, <2>2 DEF w, h
  <1>5. covered # {} => Changed # {}
    <2> SUFFICES ASSUME NEW i \in covered PROVE Changed # {}
      OBVIOUS
    <2>1. At(i) \in Pixels /\ Index(At(i)) = i
      BY PixelsHaveIndices
    <2>2. Near(At(i), 0)
      BY <2>1, NearGrows
    <2>3. values[i] = CHANGE /\ i \in DOMAIN values
      BY <1>3, <2>1, <2>2
    <2> QED BY <2>3 DEF Changed, CHANGE, KEEP
  <1> QED BY <1>2, <1>4, <1>5

LEMMA ReadStep == ASSUME MaskInv, [Next]_vars PROVE ReadInv'
  <1>1. DrawInv /\ RingsInv /\ ReadInv
    BY DEF MaskInv
  <1>2. CASE read_mask_for_image
    <2> DEFINE shaped == refuse_shape(job.width, job.height, Cardinality(DOMAIN values))
    <2>1. UNCHANGED <<job, position, covered, reached, frontier, distance, values>>
      BY <1>2 DEF read_mask_for_image
    <2>2. \/ job.bytes # <<>> /\ values = job.bytes
          \/ /\ job.bytes = <<>> /\ Canvas /\ covered \subseteq Cells /\ covered # {}
             /\ job.feather \in 0 .. MAX_FEATHER_PIXELS
             /\ Ringed /\ distance = job.feather
      BY <1>1, <1>2 DEF DrawInv, RingsInv, read_mask_for_image
    <2>3. job.bytes = <<>> => shaped = <<"none">> /\ Changed # {}
      BY <2>2, DrawnIsWhole
    <2>4. verdict' = IF shaped # <<"none">> THEN shaped
                     ELSE IF <<job.width, job.height>> # Image THEN <<"another_size">>
                     ELSE IF Changed = {} THEN <<"nothing">>
                     ELSE <<"read", MaskReading>>
      BY <1>2 DEF read_mask_for_image
    <2>5. shaped \in {<<"no_canvas">>, <<"carried">>, <<"none">>}
      BY DEF refuse_shape
    <2> HIDE DEF shaped
    <2>6. verdict'[1] \in {"nothing", "carried"} => job.bytes # <<>>
      BY <2>3, <2>4, <2>5
    <2>7. verdict'[1] = "read" =>
            /\ shaped = <<"none">> /\ <<job.width, job.height>> = Image
            /\ verdict' = <<"read", MaskReading>>
      BY <2>4, <2>5
    <2>8. Canvas' = Canvas /\ Cells' = Cells /\ Ringed' = Ringed /\ MaskReading' = MaskReading
      BY <2>1 DEF Canvas, Cells, Ringed, Drawn, Near, Pixels, Index, MaskReading, Changed, Partial
    <2> QED BY <2>1, <2>2, <2>6, <2>7, <2>8 DEF ReadInv, shaped
  <1>3. CASE UNCHANGED vars
    <2>1. UNCHANGED <<job, covered, reached, frontier, distance, values, verdict>>
      BY <1>3 DEF vars
    <2>2. Canvas' = Canvas /\ Cells' = Cells /\ Ringed' = Ringed /\ MaskReading' = MaskReading
      BY <2>1 DEF Canvas, Cells, Ringed, Drawn, Near, Pixels, Index, MaskReading, Changed, Partial
    <2> QED BY <1>1, <2>1, <2>2 DEF ReadInv
  <1>4. CASE rasterise \/ CoverShape \/ Paint \/ FeatherRing
    <2>1. verdict = <<"none">>
      BY <1>1, <1>4 DEF DrawInv, rasterise, CoverShape, Paint, FeatherRing
    <2>2. \/ UNCHANGED verdict
          \/ verdict' = <<"canvas">> \/ verdict' = <<"feather">> \/ verdict' = <<"no_shape">>
          \/ verdict' = <<"ValueError", position>> \/ verdict' = <<"shape", position>>
      BY <1>4 DEF rasterise, CoverShape, Paint, FeatherRing, Refuse
    <2>3. verdict'[1] \in {"none", "canvas", "feather", "no_shape", "ValueError", "shape"}
      BY <2>1, <2>2
    <2> QED BY <2>3 DEF ReadInv
  <1> QED BY <1>2, <1>3, <1>4 DEF Next, Ended, ReadInv

LEMMA MaskInvHolds == Spec => []MaskInv
  <1>1. Init => MaskInv
    BY InitMask
  <1>2. MaskInv /\ [Next]_vars => MaskInv'
    BY DrawStep, RingsStep, ReadStep DEF MaskInv
  <1> QED BY <1>1, <1>2, PTL DEF Spec

-----------------------------------------------------------------------------
(* The ramp                                                                *)

\* A pixel in the feather is on one ring alone.
LEMMA OnOneRing ==
  ASSUME Canvas, NEW p \in Pixels, NEW n \in Nat, Near(p, n), ~Near(p, 0)
  PROVE  /\ \E d \in 1 .. n : Near(p, d) /\ ~Near(p, d - 1)
         /\ \A d, e \in 1 .. n : Near(p, d) /\ ~Near(p, d - 1) /\ Near(p, e) /\ ~Near(p, e - 1) => d = e
  <1>1. \E d \in 1 .. n : Near(p, d) /\ ~Near(p, d - 1)
    <2> DEFINE I == {d \in 1 .. n : Near(p, d)}
    <2>1. n \in I
      <3>1. n # 0
        OBVIOUS
      <3> QED BY <3>1
    <2>2. I \in SUBSET (1 .. n) /\ I # {} /\ \A d \in 1 .. n : d \in I <=> Near(p, d)
      BY <2>1
    <2> HIDE DEF I
    <2>3. PICK ring \in I : \A d \in I : ring <= d
      BY <2>2, LeastIndex
    <2>4. ring \in 1 .. n /\ ring - 1 \notin I /\ (ring - 1 \in 1 .. n \/ ring - 1 = 0)
      <3>1. ring \in 1 .. n
        BY <2>2
      <3>2. ~(ring <= ring - 1)
        BY <3>1
      <3> QED BY <2>3, <3>1, <3>2
    <2> QED BY <2>2, <2>4
  <1>2. ASSUME NEW d \in 1 .. n, NEW e \in 1 .. n, Near(p, d), ~Near(p, e - 1)
        PROVE  e <= d
    <2>1. d <= e - 1 => Near(p, e - 1)
      BY <1>2, NearGrows
    <2> QED BY <1>2, <2>1
  <1>3. ASSUME NEW d \in 1 .. n, NEW e \in 1 .. n,
               Near(p, d), ~Near(p, d - 1), Near(p, e), ~Near(p, e - 1)
        PROVE  d = e
    <2>1. d <= e /\ e <= d
      BY <1>2, <1>3
    <2> QED BY <2>1
  <1> QED BY <1>1, <1>3

\* After every ring of the feather, a pixel's value is decided by its distance from the
\* covered region alone.
THEOREM DistanceDecidesTheValue == Spec => []RampIsDistance
  <1>1. MaskInv => RampIsDistance
    <2> SUFFICES ASSUME MaskInv, pc = "feathering", NEW p \in Pixels
                 PROVE  values[Index(p)] =
                          IF Near(p, 0) THEN CHANGE
                          ELSE IF ~Near(p, distance) THEN KEEP
                          ELSE ramp(job.feather,
                                    CHOOSE d \in 1 .. distance : Near(p, d) /\ ~Near(p, d - 1))
      BY DEF RampIsDistance, Near
    <2>1. Canvas /\ distance \in 0 .. job.feather /\ job.feather \in 0 .. MAX_FEATHER_PIXELS
      BY DEF MaskInv, DrawInv, RingsInv, Ringed, Drawn
    <2>2. distance \in Nat
      BY <2>1 DEF MAX_FEATHER_PIXELS
    <2>3. /\ Near(p, 0) => values[Index(p)] = CHANGE
          /\ ~Near(p, distance) => values[Index(p)] = KEEP
          /\ \A d \in 1 .. distance :
               Near(p, d) /\ ~Near(p, d - 1) => values[Index(p)] = ramp(job.feather, d)
      BY DEF MaskInv, RingsInv, Ringed, Drawn
    <2>4. CASE ~Near(p, 0) /\ Near(p, distance)
      <3> DEFINE ring == CHOOSE d \in 1 .. distance : Near(p, d) /\ ~Near(p, d - 1)
      <3>1. ring \in 1 .. distance /\ Near(p, ring) /\ ~Near(p, ring - 1)
        BY <2>1, <2>2, <2>4, OnOneRing
      <3> HIDE DEF ring
      <3>2. values[Index(p)] = ramp(job.feather, ring)
        BY <2>3, <3>1
      <3> QED BY <2>4, <3>2 DEF ring
    <2> QED BY <2>3, <2>4
  <1> QED BY <1>1, MaskInvHolds, PTL

-----------------------------------------------------------------------------
(* What is read                                                            *)

\* Every ring of a feather that is not refused changes its pixels, and in part.
LEMMA RampIsPartial ==
  ASSUME NEW feather \in 1 .. MAX_FEATHER_PIXELS, NEW ring \in 1 .. feather
  PROVE  ramp(feather, ring) # KEEP /\ ramp(feather, ring) # CHANGE
  <1>1. feather \in 1 .. 254 /\ ring \in 1 .. feather
    BY DEF MAX_FEATHER_PIXELS
  <1>2. (255 * (feather + 1 - ring)) \div (feather + 1) \in 1 .. 254
    <2> DEFINE parts == feather + 1
               share == 255 * (feather + 1 - ring)
    <2>1. /\ parts \in 2 .. 255 /\ share \in Nat /\ parts <= share
          /\ share < 255 * parts
      BY <1>1
    <2> HIDE DEF parts, share
    <2>2. share \div parts >= 1 /\ share \div parts < 255
      BY <2>1
    <2>3. share \div parts \in Int
      BY <2>1
    <2> QED BY <2>2, <2>3 DEF parts, share
  <1> QED BY <1>2 DEF ramp, CHANGE, KEEP

\* A drawn mask changes the pixels within the feather's distance, and leaves exactly the
\* covered ones unfeathered.
LEMMA DrawnValues ==
  ASSUME Canvas, covered \subseteq Cells, Ringed, job.feather \in 0 .. MAX_FEATHER_PIXELS,
         NEW p \in Pixels
  PROVE  /\ values[Index(p)] # KEEP <=> Near(p, distance)
         /\ values[Index(p)] = CHANGE <=> Index(p) \in covered
  <1>1. /\ distance \in 0 .. job.feather
        /\ Near(p, 0) => values[Index(p)] = CHANGE
        /\ ~Near(p, distance) => values[Index(p)] = KEEP
        /\ \A d \in 1 .. distance :
             Near(p, d) /\ ~Near(p, d - 1) => values[Index(p)] = ramp(job.feather, d)
    BY DEF Ringed, Drawn
  <1>2. job.feather \in Nat /\ distance \in Nat
    BY <1>1 DEF MAX_FEATHER_PIXELS
  <1>3. Near(p, 0) <=> Index(p) \in covered
    BY NearGrows
  <1>4. Near(p, 0) => Near(p, distance)
    BY <1>2, NearGrows
  <1>5. KEEP # CHANGE
    BY DEF KEEP, CHANGE
  <1>6. ASSUME Near(p, distance), ~Near(p, 0)
        PROVE  values[Index(p)] # KEEP /\ values[Index(p)] # CHANGE
    <2>1. PICK d \in 1 .. distance : Near(p, d) /\ ~Near(p, d - 1)
      BY <1>2, <1>6, OnOneRing
    <2>2. values[Index(p)] = ramp(job.feather, d)
      BY <1>1, <2>1
    <2>3. d \in 1 .. job.feather /\ job.feather \in 1 .. MAX_FEATHER_PIXELS
      BY <1>1 DEF MAX_FEATHER_PIXELS
    <2> QED BY <2>2, <2>3, RampIsPartial
  <1> QED BY <1>1, <1>3, <1>4, <1>5, <1>6

\* Sets of pixels are counted by their indices.
LEMMA CountedByIndex ==
  ASSUME Canvas, NEW P \in SUBSET Pixels, NEW I \in SUBSET Cells,
         \A p \in Pixels : p \in P <=> Index(p) \in I
  PROVE  /\ IsFiniteSet(P) /\ Cardinality(P) = Cardinality(I)
         /\ P = Pixels <=> I = Cells
  <1> DEFINE f == [i \in I |-> At(i)]
  <1>1. IsFiniteSet(I)
    <2>1. IsFiniteSet(Cells)
      BY FS_Interval DEF Cells, Canvas
    <2> QED BY <2>1, FS_Subset
  <1>2. /\ \A p \in Pixels : Index(p) \in Cells /\ At(Index(p)) = p
        /\ \A i \in Cells : At(i) \in Pixels /\ Index(At(i)) = i
    BY PixelsHaveIndices
  <1>3. f \in [I -> P] /\ \A i \in I : f[i] = At(i)
    BY <1>2
  <1> HIDE DEF f
  <1>4. \A i, j \in I : f[i] = f[j] => i = j
    BY <1>2, <1>3
  <1>5. \A p \in P : \E i \in I : f[i] = p
    BY <1>2, <1>3
  <1>6. f \in Bijection(I, P)
    BY <1>3, <1>4, <1>5 DEF Bijection, Injection, IsInjective, Surjection
  <1>7. IsFiniteSet(P) /\ Cardinality(P) = Cardinality(I)
    BY <1>1, <1>6, FS_Bijection DEF ExistsBijection
  <1>8. P = Pixels <=> I = Cells
    BY <1>2
  <1> QED BY <1>7, <1>8

\* What was drawn for an image of its size is accepted, and whatever is accepted has one
\* byte for every pixel of its image and a reading that counts them.
THEOREM MasksAreReadAsDrawn == Spec => []ReadAsDrawn
  <1>1. MaskInv => ReadAsDrawn
    <2> SUFFICES ASSUME MaskInv PROVE ReadAsDrawn
      OBVIOUS
    <2> DEFINE drawn == job.bytes = <<>>
               within == {p \in Pixels :
                            \E q \in Pixels : Index(q) \in covered /\ Steps(p, q) <= job.feather}
               edited == IF drawn THEN within ELSE {p \in Pixels : values[Index(p)] # KEEP}
    <2>1. drawn => verdict[1] \notin {"nothing", "carried"}
      BY DEF MaskInv, ReadInv
    <2>2. ASSUME verdict[1] = "read"
          PROVE  /\ <<job.width, job.height>> = Image
                 /\ DOMAIN values = {Index(p) : p \in Pixels}
                 /\ verdict[2].changed_pixels = Cardinality(edited)
                 /\ verdict[2].covers_everything <=> edited = Pixels
                 /\ verdict[2].is_binary <=> \A p \in edited : values[Index(p)] = CHANGE
                 /\ drawn => verdict[2].partial_pixels = Cardinality(edited) - Cardinality(covered)
      <3>1. /\ job \in Jobs /\ verdict = <<"read", MaskReading>> /\ <<job.width, job.height>> = Image
            /\ refuse_shape(job.width, job.height, Cardinality(DOMAIN values)) = <<"none">>
            /\ drawn => /\ Canvas /\ covered \subseteq Cells
                        /\ job.feather \in 0 .. MAX_FEATHER_PIXELS
                        /\ Ringed /\ distance = job.feather
            /\ ~drawn => values = job.bytes
        BY <2>2 DEF MaskInv, DrawInv, ReadInv
      <3>2. /\ verdict[2].changed_pixels = Cardinality(Changed)
            /\ verdict[2].partial_pixels = Cardinality(Partial)
            /\ verdict[2].is_binary = (Partial = {})
            /\ verdict[2].covers_everything = (Cardinality(Changed) = job.width * job.height)
        BY <3>1 DEF MaskReading
      <3>3. job.width \in Int /\ job.height \in Int
        BY <3>1, JobsAssumption
      <3>4. Canvas /\ Cardinality(DOMAIN values) = job.width * job.height
        <4>1. /\ ~(job.width <= 0 \/ job.height <= 0)
              /\ ~(/\ job.width > 0 /\ job.height > 0
                   /\ Cardinality(DOMAIN values) # job.width * job.height)
          BY <3>1 DEF refuse_shape
        <4>2. job.width > 0 /\ job.height > 0
          BY <3>3, <4>1
        <4> QED BY <3>3, <4>1, <4>2 DEF Canvas
      <3>5. IsFiniteSet(Cells) /\ Cardinality(Cells) = job.width * job.height
        <4> DEFINE n == job.width * job.height
        <4>1. n \in Nat
          BY <3>4 DEF Canvas
        <4> HIDE DEF n
        <4>2. IsFiniteSet(0 .. n - 1) /\ Cardinality(0 .. n - 1) = n
          BY <4>1, FS_Interval
        <4> QED BY <4>2 DEF Cells, n
      <3>6. DOMAIN values = Cells
        <4>1. CASE drawn
          BY <3>1, <4>1 DEF Ringed, Drawn
        <4>2. CASE ~drawn
          <5>1. DOMAIN job.bytes = 0 .. Cardinality(DOMAIN job.bytes) - 1
            BY <3>1, JobsAssumption
          <5> QED BY <3>1, <3>4, <4>2, <5>1 DEF Cells
        <4> QED BY <4>1, <4>2
      <3>7. /\ \A p \in Pixels : Index(p) \in Cells
            /\ \A i \in Cells : At(i) \in Pixels /\ Index(At(i)) = i
        BY <3>4, PixelsHaveIndices
      <3>8. DOMAIN values = {Index(p) : p \in Pixels}
        BY <3>6, <3>7
      <3>9. edited \in SUBSET Pixels /\ \A p \in Pixels : p \in edited <=> Index(p) \in Changed
        <4>1. \A p \in Pixels : Index(p) \in Changed <=> values[Index(p)] # KEEP
          BY <3>6, <3>7 DEF Changed
        <4>2. drawn => \A p \in Pixels : values[Index(p)] # KEEP <=> Near(p, job.feather)
          BY <3>1, DrawnValues
        <4>3. \A p \in Pixels : p \in within <=> Near(p, job.feather)
          BY DEF Near
        <4> HIDE DEF within
        <4> QED BY <4>1, <4>2, <4>3 DEF within
      <3>10. Changed \in SUBSET Cells /\ Partial \in SUBSET Changed
        BY <3>6 DEF Changed, Partial
      <3> HIDE DEF edited
      <3>11. Cardinality(edited) = Cardinality(Changed) /\ (edited = Pixels <=> Changed = Cells)
        BY <3>4, <3>9, <3>10, CountedByIndex
      <3>12. verdict[2].covers_everything <=> edited = Pixels
        <4>1. Cardinality(Changed) = Cardinality(Cells) <=> Changed = Cells
          BY <3>5, <3>10, FS_Subset
        <4> QED BY <3>2, <3>5, <3>11, <4>1
      <3>13. verdict[2].is_binary <=> \A p \in edited : values[Index(p)] = CHANGE
        <4>1. Partial = {} <=> \A i \in Changed : values[i] = CHANGE
          BY DEF Partial
        <4>2. \A i \in Changed : At(i) \in edited /\ Index(At(i)) = i
          BY <3>7, <3>9, <3>10
        <4>3. \A p \in edited : Index(p) \in Changed
          BY <3>9
        <4> QED BY <3>2, <4>1, <4>2, <4>3
      <3>14. ASSUME drawn
             PROVE  verdict[2].partial_pixels = Cardinality(edited) - Cardinality(covered)
        <4>1. \A i \in Cells : values[i] = CHANGE <=> i \in covered
          <5>1. \A p \in Pixels : values[Index(p)] = CHANGE <=> Index(p) \in covered
            BY <3>1, <3>14, DrawnValues
          <5> QED BY <3>7, <5>1
        <4>2. KEEP # CHANGE
          BY DEF KEEP, CHANGE
        <4>3. Partial = Changed \ covered /\ covered \in SUBSET Changed
          BY <3>1, <3>6, <3>14, <4>1, <4>2 DEF Changed, Partial
        <4>4. IsFiniteSet(Changed)
          BY <3>5, <3>10, FS_Subset
        <4>5. Cardinality(Changed \ covered) = Cardinality(Changed) - Cardinality(covered)
          <5>1. Changed \cap covered = covered
            BY <4>3
          <5> QED BY <4>4, <5>1, FS_Difference
        <4> QED BY <3>2, <3>11, <4>3, <4>5
      <3> QED BY <3>1, <3>2, <3>8, <3>11, <3>12, <3>13, <3>14
    <2> QED BY <2>1, <2>2 DEF ReadAsDrawn
  <1> QED BY <1>1, MaskInvHolds, PTL

-----------------------------------------------------------------------------
(* The shapes one after another                                            *)

\* The shapes up to some one are covered, and none of them is empty.
Looked(n) ==
  /\ n \in 0 .. Len(job.shapes)
  /\ \A i : i \in covered <=> \E k \in 1 .. n : \E p \in Region(job.shapes[k]) : i = Index(p)
  /\ \A k \in 1 .. n : Region(job.shapes[k]) # {}

\* How far the shapes were looked at when the call ended, and where it ended for one of them.
ShapesInv ==
  /\ pc = "covering" => Looked(position - 1)
  /\ pc \in {"covered", "feathering"} => position - 1 = Len(job.shapes) /\ Looked(position - 1)
  /\ verdict[1] \in {"shape", "ValueError"} =>
       /\ verdict[2] \in 1 .. Len(job.shapes) /\ Looked(verdict[2] - 1)
       /\ Region(job.shapes[verdict[2]]) = {}
       /\ verdict[1] = "ValueError" => job.shapes[verdict[2]].points = <<>>
  /\ verdict[1] \in {"read", "another_size", "nothing"} /\ job.bytes = <<>> =>
       Looked(Len(job.shapes))

\* One more shape that covers something is looked at.
LEMMA LooksFurther ==
  ASSUME Canvas, NEW n \in Nat, n + 1 \in 1 .. Len(job.shapes), job.shapes \in Seq(Shape), Looked(n),
         Region(job.shapes[n + 1]) # {}
  PROVE  /\ n + 1 \in 0 .. Len(job.shapes)
         /\ \A i : i \in covered \cup {Index(p) : p \in Region(job.shapes[n + 1])}
                     <=> \E k \in 1 .. n + 1 : \E p \in Region(job.shapes[k]) : i = Index(p)
         /\ \A k \in 1 .. n + 1 : Region(job.shapes[k]) # {}
  <1> DEFINE Of(k) == Region(job.shapes[k])
             more == covered \cup {Index(p) : p \in Of(n + 1)}
  <1>1. /\ \A i : i \in covered <=> \E k \in 1 .. n : \E p \in Of(k) : i = Index(p)
        /\ \A k \in 1 .. n : Of(k) # {}
    BY DEF Looked
  <1>2. (\A i : i \in more <=> i \in covered \/ \E p \in Of(n + 1) : i = Index(p)) /\ Of(n + 1) # {}
    OBVIOUS
  <1> HIDE DEF Of, more
  <1>3. \A k : k \in 1 .. n + 1 <=> k \in 1 .. n \/ k = n + 1
    OBVIOUS
  <1>4. \A i : i \in more <=> \E k \in 1 .. n + 1 : \E p \in Of(k) : i = Index(p)
    BY <1>1, <1>2, <1>3
  <1>5. \A k \in 1 .. n + 1 : Of(k) # {}
    BY <1>1, <1>2, <1>3
  <1>6. n + 1 \in 0 .. Len(job.shapes)
    OBVIOUS
  <1> QED BY <1>4, <1>5, <1>6 DEF Of, more

LEMMA LookedStays ==
  ASSUME UNCHANGED <<job, covered>>
  PROVE  /\ \A shape : Region(shape)' = Region(shape)
         /\ \A n : Looked(n)' <=> Looked(n)
  <1>1. \A shape : Region(shape)' = Region(shape)
    BY DEF Region, Pixels
  <1>2. \A p : Index(p)' = Index(p)
    BY DEF Index
  <1> QED BY <1>1, <1>2 DEF Looked

LEMMA CoverShapeStep ==
  ASSUME MaskInv, ShapesInv, CoverShape
  PROVE  ShapesInv'
  <1> DEFINE shape == job.shapes[position]
             found == CoveredBy(shape, job.width, job.height)
  <1>1. /\ job \in Jobs /\ Canvas /\ position \in 1 .. Len(job.shapes) /\ pc = "covering"
        /\ verdict = <<"none">>
    BY DEF MaskInv, DrawInv, CoverShape
  <1>2. job.shapes \in Seq(Shape) /\ Looked(position - 1)
    BY <1>1, JobsAssumption DEF ShapesInv
  <1>3. shape \in Shape /\ Len(job.shapes) \in Nat
    BY <1>1, <1>2
  <1>4. job' = job
    BY DEF CoverShape
  <1>5. /\ Pointless(shape) => Region(shape) = {}
        /\ ~Pointless(shape) => found = {Index(p) : p \in Region(shape)}
    <2> HIDE DEF shape
    <2> QED BY <1>1, <1>3, CoversItsRegion
  <1>6. \/ /\ pc' = "ended" /\ UNCHANGED <<position, covered>>
           /\ \/ Pointless(shape) /\ verdict' = <<"ValueError", position>>
              \/ ~Pointless(shape) /\ found = {} /\ verdict' = <<"shape", position>>
        \/ /\ ~Pointless(shape) /\ found # {} /\ covered' = covered \cup found
           /\ position' = position + 1 /\ UNCHANGED verdict
           /\ pc' = IF position = Len(job.shapes) THEN "covered" ELSE "covering"
    BY DEF CoverShape, Refuse
  <1>7. CASE /\ pc' = "ended" /\ UNCHANGED <<position, covered>>
             /\ \/ Pointless(shape) /\ verdict' = <<"ValueError", position>>
                \/ ~Pointless(shape) /\ found = {} /\ verdict' = <<"shape", position>>
    <2>1. Region(shape) = {}
      <3> HIDE DEF shape, found
      <3> QED BY <1>5, <1>7
    <2>2. /\ verdict'[1] \in {"shape", "ValueError"} /\ verdict'[2] = position
          /\ verdict'[1] = "ValueError" => Pointless(shape)
      <3> HIDE DEF shape, found
      <3> QED BY <1>7
    <2>3. Looked(position - 1)' /\ (Region(shape) = {})'
      BY <1>2, <1>4, <1>7, <2>1, LookedStays
    <2>4. Pointless(shape) => shape.points = <<>>
      BY DEF Pointless
    <2> HIDE DEF found
    <2> QED BY <1>1, <1>4, <1>7, <2>2, <2>3, <2>4 DEF ShapesInv
  <1>8. CASE /\ ~Pointless(shape) /\ found # {} /\ covered' = covered \cup found
             /\ position' = position + 1 /\ UNCHANGED verdict
             /\ pc' = IF position = Len(job.shapes) THEN "covered" ELSE "covering"
    <2> DEFINE n == position - 1
    <2>1. n \in Nat /\ n + 1 = position /\ position' - 1 = n + 1
      BY <1>1, <1>8
    <2>2. /\ n + 1 \in 1 .. Len(job.shapes) /\ Region(job.shapes[n + 1]) # {}
          /\ covered' = covered \cup {Index(p) : p \in Region(job.shapes[n + 1])}
      <3>1. covered' = covered \cup {Index(p) : p \in Region(shape)} /\ Region(shape) # {}
        <4> HIDE DEF shape
        <4> QED BY <1>5, <1>8
      <3>2. job.shapes[n + 1] = shape /\ n + 1 \in 1 .. Len(job.shapes)
        BY <1>1, <2>1
      <3> HIDE DEF n, shape
      <3> QED BY <3>1, <3>2
    <2> HIDE DEF n, found
    <2>3. Looked(n)
      BY <1>2 DEF n
    <2>4. /\ n + 1 \in 0 .. Len(job.shapes)
          /\ \A i : i \in covered'
                      <=> \E k \in 1 .. n + 1 : \E p \in Region(job.shapes[k]) : i = Index(p)
          /\ \A k \in 1 .. n + 1 : Region(job.shapes[k]) # {}
      BY <1>1, <1>2, <2>1, <2>2, <2>3, LooksFurther
    <2>5. (\A s : Region(s)' = Region(s)) /\ (\A p : Index(p)' = Index(p))
      BY <1>4 DEF Region, Pixels, Index
    <2>6. Looked(position - 1)'
      BY <1>4, <2>1, <2>4, <2>5 DEF Looked
    <2>7. pc' = "covered" => (position - 1)' = Len(job'.shapes)
      BY <1>1, <1>3, <1>4, <1>8
    <2>8. verdict'[1] = "none" /\ pc' \in {"covered", "covering"}
      BY <1>1, <1>8
    <2> QED BY <2>6, <2>7, <2>8 DEF ShapesInv
  <1> QED BY <1>6, <1>7, <1>8

LEMMA ShapesStep == ASSUME MaskInv, ShapesInv, [Next]_vars PROVE ShapesInv'
  <1>1. DrawInv
    BY DEF MaskInv
  <1>2. CASE CoverShape
    BY <1>2, CoverShapeStep
  <1>3. CASE rasterise
    <2>1. /\ position = 1 /\ covered = {} /\ verdict = <<"none">>
          /\ UNCHANGED <<job, position, covered>>
      BY <1>1, <1>3 DEF DrawInv, rasterise
    <2>2. \/ pc' = "ended" /\ verdict' \in {<<"canvas">>, <<"feather">>, <<"no_shape">>}
          \/ pc' = "covering" /\ UNCHANGED verdict
      BY <1>3 DEF rasterise, Refuse
    <2>3. verdict'[1] \in {"canvas", "feather", "no_shape", "none"}
      BY <2>1, <2>2
    <2>4. Looked(0)
      <3>1. Len(job.shapes) \in Nat
        BY <1>1, JobsAssumption DEF DrawInv
      <3> QED BY <2>1, <3>1 DEF Looked
    <2>5. Looked(position - 1)'
      BY <2>1, <2>4, LookedStays
    <2> QED BY <2>2, <2>3, <2>5 DEF ShapesInv
  <1>4. CASE Paint \/ FeatherRing
    <2>1. /\ pc \in {"covered", "feathering"} /\ pc' = "feathering" /\ verdict = <<"none">>
          /\ UNCHANGED <<job, position, covered, verdict>>
      BY <1>1, <1>4 DEF DrawInv, Paint, FeatherRing
    <2>2. position - 1 = Len(job.shapes) /\ Looked(position - 1)
      BY <2>1 DEF ShapesInv
    <2>3. verdict'[1] = "none"
      BY <2>1
    <2> QED BY <2>1, <2>2, <2>3, LookedStays DEF ShapesInv
  <1>5. CASE read_mask_for_image
    <2>1. pc' = "ended" /\ UNCHANGED <<job, position, covered>>
      BY <1>5 DEF read_mask_for_image
    <2>2. job.bytes = <<>> => position - 1 = Len(job.shapes) /\ Looked(position - 1)
      BY <1>1, <1>5 DEF DrawInv, read_mask_for_image, ShapesInv
    <2>3. verdict'[1] \in {"no_canvas", "carried", "another_size", "nothing", "read"}
      BY <1>5 DEF read_mask_for_image, refuse_shape
    <2> QED BY <2>1, <2>2, <2>3, LookedStays DEF ShapesInv
  <1>6. CASE UNCHANGED vars
    <2>1. UNCHANGED <<job, pc, position, covered, verdict>>
      BY <1>6 DEF vars
    <2> QED BY <2>1, LookedStays DEF ShapesInv
  <1> QED BY <1>2, <1>3, <1>4, <1>5, <1>6 DEF Next, Ended

LEMMA ShapesInvHolds == Spec => [](MaskInv /\ ShapesInv)
  <1>1. Init => MaskInv /\ ShapesInv
    <2>1. Init => verdict[1] = "none" /\ pc \in {"called", "handed_in"}
      BY DEF Init
    <2> QED BY <2>1, InitMask DEF ShapesInv
  <1>2. MaskInv /\ ShapesInv /\ [Next]_vars => (MaskInv /\ ShapesInv)'
    BY DrawStep, RingsStep, ReadStep, ShapesStep DEF MaskInv
  <1> QED BY <1>1, <1>2, PTL DEF Spec

\* The shapes looked at so far are covered, all of them and nothing else.
THEOREM ShapesAreCovered == Spec => []CoversItsShapes
  <1>1. MaskInv /\ ShapesInv => CoversItsShapes
    <2> SUFFICES ASSUME ShapesInv, pc \in {"covering", "covered", "feathering"}
                 PROVE  covered = {Index(p) :
                                     p \in UNION {Region(job.shapes[k]) : k \in 1 .. position - 1}}
      BY DEF CoversItsShapes
    <2>1. \A i : i \in covered
                   <=> \E k \in 1 .. position - 1 : \E p \in Region(job.shapes[k]) : i = Index(p)
      BY DEF ShapesInv, Looked
    <2> DEFINE Of(k) == Region(job.shapes[k])
               regions == UNION {Of(k) : k \in 1 .. position - 1}
    <2>2. \A p : p \in regions <=> \E k \in 1 .. position - 1 : p \in Of(k)
      OBVIOUS
    <2>3. covered \subseteq {Index(p) : p \in regions}
      <3> HIDE DEF regions
      <3> QED BY <2>1, <2>2
    <2>4. {Index(p) : p \in regions} \subseteq covered
      <3> HIDE DEF regions
      <3> QED BY <2>1, <2>2
    <2> QED BY <2>3, <2>4
  <1> QED BY <1>1, ShapesInvHolds, PTL

\* A shape is refused by its own position exactly when it is the first that covers no pixel.
THEOREM TheFirstEmptyShapeIsRefused == Spec => []RefusesTheEmptyShape
  <1>1. MaskInv /\ ShapesInv => RefusesTheEmptyShape
    <2> SUFFICES ASSUME MaskInv, ShapesInv PROVE RefusesTheEmptyShape
      OBVIOUS
    <2> DEFINE empty == {k \in DOMAIN job.shapes : Region(job.shapes[k]) = {}}
    <2>1. /\ DOMAIN job.shapes = 1 .. Len(job.shapes) /\ Len(job.shapes) \in Nat
          /\ job.bytes # <<>> => job.shapes = <<>>
      BY JobsAssumption DEF MaskInv, DrawInv
    <2>2. ASSUME verdict[1] \in {"shape", "ValueError"}
          PROVE  /\ verdict[2] \in empty /\ \A k \in empty : verdict[2] <= k
                 /\ verdict[1] = "ValueError" => job.shapes[verdict[2]].points = <<>>
      <3> DEFINE last == verdict[2]
      <3>1. /\ last \in 1 .. Len(job.shapes) /\ Looked(last - 1) /\ Region(job.shapes[last]) = {}
            /\ verdict[1] = "ValueError" => job.shapes[last].points = <<>>
        BY <2>2 DEF ShapesInv
      <3>2. last \in empty
        BY <2>1, <3>1
      <3>3. \A k \in empty : last <= k
        <4> SUFFICES ASSUME NEW k \in empty PROVE last <= k
          OBVIOUS
        <4>1. k \in 1 .. Len(job.shapes) /\ k \notin 1 .. last - 1
          BY <2>1, <3>1 DEF Looked
        <4> QED BY <2>1, <3>1, <4>1
      <3> QED BY <3>1, <3>2, <3>3
    <2>3. ASSUME verdict[1] \in {"read", "another_size", "nothing"}
          PROVE  empty = {}
      <3>1. CASE job.bytes = <<>>
        <4>1. Looked(Len(job.shapes))
          BY <2>3, <3>1 DEF ShapesInv
        <4> QED BY <2>1, <4>1 DEF Looked
      <3>2. CASE job.bytes # <<>>
        BY <2>1, <3>2
      <3> QED BY <3>1, <3>2
    <2> QED BY <2>2, <2>3 DEF RefusesTheEmptyShape
  <1> QED BY <1>1, ShapesInvHolds, PTL
=============================================================================
