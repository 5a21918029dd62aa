----------------------- MODULE CollisionChunks_proofs -----------------------
(***************************************************************************)
(* Proofs about the collision chunks, for every size of chunk, mesh and    *)
(* entity.                                                                 *)
(***************************************************************************)
EXTENDS CollisionChunks, TLAPS

(* Some arithmetic that needs products.                                    *)
LEMMA Cancel ==
  ASSUME NEW s \in Nat \ {0}, NEW a \in Int, NEW b \in Int, s * a < s * b
  PROVE  a < b
OBVIOUS

LEMMA MultipleMod ==
  ASSUME NEW s \in Nat \ {0}, NEW k \in Int
  PROVE  (s * k) % s = 0
OBVIOUS

LEMMA SquareGrows ==
  ASSUME NEW h \in Nat, NEW d \in Int, - h <= d, d <= h
  PROVE  d * d <= h * h
OBVIOUS

LEMMA SquareBounds ==
  ASSUME NEW r \in Nat, NEW d \in Int, d * d < r * r
  PROVE  - r < d /\ d < r
OBVIOUS

LEMMA SquareNat ==
  ASSUME NEW d \in Int
  PROVE  d * d \in Nat
OBVIOUS

LEMMA FloorDef ==
  ASSUME NEW n \in Int
  PROVE  /\ Floor(n) \in Int
         /\ CHUNK_SIZE * Floor(n) <= n
         /\ n < CHUNK_SIZE * (Floor(n) + 1)
<1>1. CHUNK_SIZE \in Nat \ {0}
  BY HalfAssumption DEF CHUNK_SIZE
<1> QED BY <1>1 DEF Floor

(* Chunk k of an axis is within the range of a box from lo to hi as soon   *)
(* as it ends after lo and starts before hi.                               *)
LEMMA FromFloor ==
  ASSUME NEW n \in Int, NEW k \in Int, n < CHUNK_SIZE * (k + 1)
  PROVE  Floor(n) <= k
<1>1. CHUNK_SIZE \in Nat \ {0}
  BY HalfAssumption DEF CHUNK_SIZE
<1>2. Floor(n) \in Int /\ CHUNK_SIZE * Floor(n) <= n
  BY FloorDef
<1>3. CHUNK_SIZE * Floor(n) < CHUNK_SIZE * (k + 1)
  BY <1>1, <1>2
<1>4. Floor(n) < k + 1
  BY <1>1, <1>2, <1>3, Cancel
<1> QED BY <1>2, <1>4

LEMMA CeilDef ==
  ASSUME NEW n \in Int
  PROVE  /\ Ceil(n) \in Int
         /\ n <= CHUNK_SIZE * Ceil(n)
         /\ CHUNK_SIZE * (Ceil(n) - 1) < n
<1>1. CHUNK_SIZE \in Nat \ {0}
  BY HalfAssumption DEF CHUNK_SIZE
<1>2. - n \in Int /\ Ceil(n) = - Floor(- n)
  BY DEF Ceil, Floor
<1>3. /\ Floor(- n) \in Int
      /\ CHUNK_SIZE * Floor(- n) <= - n
      /\ - n < CHUNK_SIZE * (Floor(- n) + 1)
  BY <1>2, FloorDef
<1> QED BY <1>1, <1>2, <1>3

LEMMA ToCeil ==
  ASSUME NEW n \in Int, NEW k \in Int, CHUNK_SIZE * k < n
  PROVE  k <= Ceil(n) - 1
<1>1. CHUNK_SIZE \in Nat \ {0}
  BY HalfAssumption DEF CHUNK_SIZE
<1>2. Ceil(n) \in Int /\ n <= CHUNK_SIZE * Ceil(n)
  BY CeilDef
<1>3. CHUNK_SIZE * k < CHUNK_SIZE * Ceil(n)
  BY <1>1, <1>2
<1>4. k < Ceil(n)
  BY <1>1, <1>2, <1>3, Cancel
<1> QED BY <1>2, <1>4

-----------------------------------------------------------------------------
(* One axis at a time: a face from lo to hi, a point p of it, and an       *)
(* entity of radius r at x, less than r from the point.                    *)

FlatAxis(lo, hi) == lo = hi /\ lo % CHUNK_SIZE = 0

(* Both see the point in the same chunk ...                                *)
LEMMA CommonChunk ==
  ASSUME NEW lo \in Int, NEW hi \in Int, NEW p \in Int, NEW x \in Int,
         NEW r \in Nat, lo <= p, p <= hi, - r < x - p, x - p < r,
         ~ FlatAxis(lo, hi)
  PROVE  \E k \in Int : /\ k \in Floor(lo) .. Ceil(hi) - 1
                        /\ k \in Floor(x - r) .. Ceil(x + r) - 1
                        /\ - Half <= k * CHUNK_SIZE + Half - p
                        /\ k * CHUNK_SIZE + Half - p <= Half
<1>1. CHUNK_SIZE \in Nat \ {0} /\ Half \in Nat /\ CHUNK_SIZE = 2 * Half
  BY HalfAssumption DEF CHUNK_SIZE
<1>2. /\ x - r \in Int /\ x + r \in Int
      /\ Floor(lo) \in Int /\ Floor(x - r) \in Int
      /\ Ceil(hi) \in Int /\ Ceil(x + r) \in Int
  BY FloorDef, CeilDef
<1>3. SUFFICES \E k \in Int : /\ lo < CHUNK_SIZE * (k + 1)
                              /\ CHUNK_SIZE * k < hi
                              /\ CHUNK_SIZE * k <= p
                              /\ p <= CHUNK_SIZE * (k + 1)
  <2>1. PICK k \in Int : /\ lo < CHUNK_SIZE * (k + 1)
                         /\ CHUNK_SIZE * k < hi
                         /\ CHUNK_SIZE * k <= p
                         /\ p <= CHUNK_SIZE * (k + 1)
    BY <1>3
  <2>2. Floor(lo) <= k /\ k <= Ceil(hi) - 1
    BY <2>1, FromFloor, ToCeil
  <2>3. x - r < CHUNK_SIZE * (k + 1) /\ CHUNK_SIZE * k < x + r
    BY <1>1, <2>1
  <2>4. Floor(x - r) <= k /\ k <= Ceil(x + r) - 1
    BY <1>2, <2>3, FromFloor, ToCeil
  <2>5. /\ - Half <= k * CHUNK_SIZE + Half - p
        /\ k * CHUNK_SIZE + Half - p <= Half
    BY <1>1, <2>1
  <2> QED BY <1>2, <2>2, <2>4, <2>5
<1> DEFINE k == Floor(p)
<1>4. /\ k \in Int
      /\ CHUNK_SIZE * k <= p
      /\ p < CHUNK_SIZE * (k + 1)
  BY FloorDef
<1> HIDE DEF k
<1>5. CASE CHUNK_SIZE * k < hi
  BY <1>1, <1>4, <1>5
<1>6. CASE ~ (CHUNK_SIZE * k < hi)
  <2>1. CHUNK_SIZE * k = p /\ p = hi
    BY <1>1, <1>4, <1>6
  <2>2. p % CHUNK_SIZE = 0
    BY <1>1, <1>4, <2>1, MultipleMod
  <2>3. lo < hi
    BY <2>1, <2>2 DEF FlatAxis
  <2>4. k - 1 \in Int /\ CHUNK_SIZE * (k - 1) < hi /\ CHUNK_SIZE * ((k - 1) + 1) = p
    BY <1>1, <1>4, <2>1
  <2>5. CHUNK_SIZE * (k - 1) <= p
    BY <1>1, <1>4, <2>1, <2>4
  <2> QED BY <2>1, <2>3, <2>4, <2>5
<1> QED BY <1>5, <1>6

(* ... unless the face has no chunk at all.                                *)
LEMMA NoChunk ==
  ASSUME NEW lo \in Int, NEW hi \in Int, FlatAxis(lo, hi)
  PROVE  Floor(lo) .. Ceil(hi) - 1 = {}
<1>1. CHUNK_SIZE \in Nat \ {0}
  BY HalfAssumption DEF CHUNK_SIZE
<1>2. lo % CHUNK_SIZE = 0 /\ lo = hi
  BY DEF FlatAxis
<1>3. PICK k \in Int : lo = CHUNK_SIZE * k
  BY <1>1, <1>2
<1>4. Floor(lo) \in Int /\ lo < CHUNK_SIZE * (Floor(lo) + 1)
  BY FloorDef
<1>5. k < Floor(lo) + 1
  BY <1>1, <1>3, <1>4, Cancel
<1>6. Ceil(hi) \in Int /\ CHUNK_SIZE * (Ceil(hi) - 1) < hi
  BY CeilDef
<1>7. Ceil(hi) - 1 < k
  <2>1. Ceil(hi) - 1 \in Int /\ CHUNK_SIZE * (Ceil(hi) - 1) < CHUNK_SIZE * k
    BY <1>2, <1>3, <1>6
  <2> QED BY <1>1, <1>3, <2>1, Cancel
<1> QED BY <1>4, <1>5, <1>6, <1>7

-----------------------------------------------------------------------------
(* Chunks of a face and of an entity.                                      *)

LEMMA FaceBox ==
  ASSUME NEW f \in Faces, NEW i \in Axis
  PROVE  /\ Lo(f, i) \in Int /\ Hi(f, i) \in Int
         /\ \A q \in f.points : q[i] \in Int /\ Lo(f, i) <= q[i] /\ q[i] <= Hi(f, i)
<1>1. /\ f.vs[1] \in Point /\ f.vs[2] \in Point /\ f.vs[3] \in Point
      /\ f.points \subseteq Point
      /\ \A q \in f.points : Lo(f, i) <= q[i] /\ q[i] <= Hi(f, i)
  BY FacesAssumption
<1>2. \A q \in Point : q[i] \in Int
  BY DEF Point, Axis
<1>3. \A a, b \in Int : Smaller(a, b) \in Int /\ Larger(a, b) \in Int
  BY DEF Smaller, Larger
<1>4. f.vs[1][i] \in Int /\ f.vs[2][i] \in Int /\ f.vs[3][i] \in Int
  BY <1>1, <1>2
<1>5. Lo(f, i) \in Int /\ Hi(f, i) \in Int
  BY <1>3, <1>4 DEF Lo, Hi
<1> QED BY <1>1, <1>2, <1>5

LEMMA InChunkBox ==
  ASSUME NEW from, NEW to,
         NEW x \in from[1] .. to[1] - 1, NEW y \in from[2] .. to[2] - 1,
         NEW z \in from[3] .. to[3] - 1
  PROVE  <<x, y, z>> \in ChunkBox(from, to)
BY DEF ChunkBox

LEMMA FlatHasNoChunk ==
  ASSUME NEW f \in Faces, Flat(f)
  PROVE  FaceChunks(f) = {}
<1> DEFINE from == [i \in Axis |-> Floor(Lo(f, i))]
           to   == [i \in Axis |-> Ceil(Hi(f, i))]
<1>1. PICK i \in Axis : Lo(f, i) = Hi(f, i) /\ Lo(f, i) % CHUNK_SIZE = 0
  BY DEF Flat
<1>2. Floor(Lo(f, i)) .. Ceil(Hi(f, i)) - 1 = {}
  BY <1>1, FaceBox, NoChunk DEF FlatAxis
<1>3. from[i] .. to[i] - 1 = {}
  BY <1>2
<1>4. i = 1 \/ i = 2 \/ i = 3
  BY DEF Axis
<1> HIDE DEF from, to
<1>5. ChunkBox(from, to) = {}
  BY <1>3, <1>4 DEF ChunkBox
<1> QED BY <1>5 DEF FaceChunks, from, to

(* Less than r away is less than r away in each axis.                      *)
LEMMA WithinAxis ==
  ASSUME NEW p \in Point, NEW q \in Point, NEW r \in Nat,
         SqDistance(p, q) < Sq(r), NEW i \in Axis
  PROVE  - r < p[i] - q[i] /\ p[i] - q[i] < r
<1>1. /\ p[1] - q[1] \in Int /\ p[2] - q[2] \in Int /\ p[3] - q[3] \in Int
  BY DEF Point
<1> DEFINE a == p[1] - q[1]
           b == p[2] - q[2]
           c == p[3] - q[3]
<1>2. a * a \in Nat /\ b * b \in Nat /\ c * c \in Nat /\ r * r \in Nat
  BY <1>1, SquareNat
<1>3. a * a + b * b + c * c < r * r
  BY DEF SqDistance, Sq
<1> HIDE DEF a, b, c
<1>4. a * a < r * r /\ b * b < r * r /\ c * c < r * r
  BY <1>2, <1>3
<1>5. a \in Int /\ b \in Int /\ c \in Int
  BY <1>1 DEF a, b, c
<1>6. - r < a /\ a < r /\ - r < b /\ b < r /\ - r < c /\ c < r
  BY <1>4, <1>5, SquareBounds
<1>7. i = 1 \/ i = 2 \/ i = 3
  BY DEF Axis
<1> QED BY <1>6, <1>7 DEF a, b, c

(* A chunk is near enough to every point in it: its corners are nearer to  *)
(* its centre than its sides are long.                                     *)
LEMMA ChunkIsNear ==
  ASSUME NEW c \in Int \X Int \X Int, NEW q \in Point,
         \A i \in Axis : /\ - Half <= c[i] * CHUNK_SIZE + Half - q[i]
                         /\ c[i] * CHUNK_SIZE + Half - q[i] <= Half
  PROVE  SqDistance(Center(c), q) < Sq(CHUNK_SIZE)
<1>1. Half \in Nat \ {0} /\ CHUNK_SIZE = 2 * Half
  BY HalfAssumption DEF CHUNK_SIZE
<1> DEFINE x == (c[1] * CHUNK_SIZE + Half) - q[1]
           y == (c[2] * CHUNK_SIZE + Half) - q[2]
           z == (c[3] * CHUNK_SIZE + Half) - q[3]
<1>2. c[1] * CHUNK_SIZE \in Int /\ c[2] * CHUNK_SIZE \in Int /\ c[3] * CHUNK_SIZE \in Int
  BY <1>1
<1>3. x \in Int /\ y \in Int /\ z \in Int
  BY <1>1, <1>2 DEF Point
<1>4. /\ - Half <= x /\ x <= Half /\ - Half <= y /\ y <= Half
      /\ - Half <= z /\ z <= Half
  <2>1. q[1] \in Int /\ q[2] \in Int /\ q[3] \in Int
    BY DEF Point
  <2>2. 1 \in Axis /\ 2 \in Axis /\ 3 \in Axis
    BY DEF Axis
  <2> QED BY <1>1, <1>2, <2>1, <2>2
<1>5. /\ Center(c)[1] - q[1] = x
      /\ Center(c)[2] - q[2] = y
      /\ Center(c)[3] - q[3] = z
  BY DEF Center
<1> HIDE DEF x, y, z
<1>6. x * x <= Half * Half /\ y * y <= Half * Half /\ z * z <= Half * Half
  BY <1>1, <1>3, <1>4, SquareGrows
<1>7. x * x \in Nat /\ y * y \in Nat /\ z * z \in Nat
  BY <1>3, SquareNat
<1>8. Half * Half \in Nat /\ 0 < Half * Half
  BY <1>1
<1>9. Sq(CHUNK_SIZE) = 4 * (Half * Half)
  BY <1>1 DEF Sq
<1>10. SqDistance(Center(c), q) = x * x + y * y + z * z
  BY <1>5 DEF SqDistance, Sq
<1> QED BY <1>6, <1>7, <1>8, <1>9, <1>10

LEMMA TouchedInCommonChunk ==
  ASSUME NEW f \in Faces, NEW e \in Entities, Touches(e, f), ~ Flat(f)
  PROVE  \E c \in FaceChunks(f) : c \in EntityChunks(e)
<1> DEFINE pos == e.position
           r   == e.radius
<1>1. pos \in Point /\ r \in Nat
  BY EntitiesAssumption
<1>2. PICK q \in f.points : SqDistance(pos, q) < Sq(r)
  BY DEF Touches, Within
<1>3. q \in Point
  BY FacesAssumption
<1> HIDE DEF pos, r
<1>4. ASSUME NEW i \in Axis
      PROVE  \E k \in Int : /\ k \in Floor(Lo(f, i)) .. Ceil(Hi(f, i)) - 1
                            /\ k \in Floor(pos[i] - r) .. Ceil(pos[i] + r) - 1
                            /\ - Half <= k * CHUNK_SIZE + Half - q[i]
                            /\ k * CHUNK_SIZE + Half - q[i] <= Half
  <2>1. - r < pos[i] - q[i] /\ pos[i] - q[i] < r
    BY <1>1, <1>2, <1>3, WithinAxis
  <2>2. pos[i] \in Int
    BY <1>1 DEF Point, Axis
  <2>3. ~ FlatAxis(Lo(f, i), Hi(f, i))
    BY DEF Flat, FlatAxis
  <2>4. /\ Lo(f, i) \in Int /\ Hi(f, i) \in Int /\ q[i] \in Int
        /\ Lo(f, i) <= q[i] /\ q[i] <= Hi(f, i)
    BY FaceBox
  <2> QED BY <1>1, <2>1, <2>2, <2>3, <2>4, CommonChunk
<1>5. PICK x \in Int : /\ x \in Floor(Lo(f, 1)) .. Ceil(Hi(f, 1)) - 1
                       /\ x \in Floor(pos[1] - r) .. Ceil(pos[1] + r) - 1
                       /\ - Half <= x * CHUNK_SIZE + Half - q[1]
                       /\ x * CHUNK_SIZE + Half - q[1] <= Half
  BY <1>4 DEF Axis
<1>6. PICK y \in Int : /\ y \in Floor(Lo(f, 2)) .. Ceil(Hi(f, 2)) - 1
                       /\ y \in Floor(pos[2] - r) .. Ceil(pos[2] + r) - 1
                       /\ - Half <= y * CHUNK_SIZE + Half - q[2]
                       /\ y * CHUNK_SIZE + Half - q[2] <= Half
  BY <1>4 DEF Axis
<1>7. PICK z \in Int : /\ z \in Floor(Lo(f, 3)) .. Ceil(Hi(f, 3)) - 1
                       /\ z \in Floor(pos[3] - r) .. Ceil(pos[3] + r) - 1
                       /\ - Half <= z * CHUNK_SIZE + Half - q[3]
                       /\ z * CHUNK_SIZE + Half - q[3] <= Half
  BY <1>4 DEF Axis
<1> DEFINE c == <<x, y, z>>
<1>8. /\ c \in Int \X Int \X Int
      /\ \A i \in Axis : /\ - Half <= c[i] * CHUNK_SIZE + Half - q[i]
                         /\ c[i] * CHUNK_SIZE + Half - q[i] <= Half
  BY <1>5, <1>6, <1>7 DEF Axis
<1>9. Within(Center(c), f, CHUNK_SIZE)
  <2> HIDE DEF c
  <2> QED BY <1>3, <1>8, ChunkIsNear DEF Within
<1>10. c \in ChunkBox([i \in Axis |-> Floor(Lo(f, i))], [i \in Axis |-> Ceil(Hi(f, i))])
  BY <1>5, <1>6, <1>7, InChunkBox DEF Axis
<1>11. c \in ChunkBox([i \in Axis |-> Floor(pos[i] - r)], [i \in Axis |-> Ceil(pos[i] + r)])
  BY <1>5, <1>6, <1>7, InChunkBox DEF Axis
<1> HIDE DEF c
<1>12. c \in FaceChunks(f)
  BY <1>9, <1>10 DEF FaceChunks
<1>13. c \in EntityChunks(e)
  BY <1>11 DEF EntityChunks, pos, r
<1> QED BY <1>12, <1>13

-----------------------------------------------------------------------------
(* The loop of Mesh.new.                                                   *)

Filed == UNION {FaceChunks(f) \X {f} : f \in Faces \ todo}

IInv == todo \subseteq Faces /\ chunks = Filed

(* After any number of rounds, in any order of the faces, every face       *)
(* filed so far is in all of its chunks and no other is in any.            *)
THEOREM Invariance == Spec => []IInv
<1>1. Init => IInv
  BY DEF Init, IInv, Filed
<1>2. IInv /\ [Next]_vars => IInv'
  <2> SUFFICES ASSUME IInv, [Next]_vars PROVE IInv'
    OBVIOUS
  <2>1. CASE UNCHANGED vars
    BY <2>1 DEF vars, IInv, Filed
  <2>2. CASE Next
    <3>1. PICK f \in Faces : FileFace(f)
      BY <2>2 DEF Next
    <3>2. /\ f \in todo /\ todo' = todo \ {f}
          /\ chunks' = chunks \cup (FaceChunks(f) \X {f})
      BY <3>1 DEF FileFace
    <3>3. Faces \ todo' = (Faces \ todo) \cup {f}
      BY <3>2 DEF IInv
    <3> DEFINE S(T) == {FaceChunks(g) \X {g} : g \in T}
    <3>4. S(Faces \ todo') = S(Faces \ todo) \cup {FaceChunks(f) \X {f}}
      BY <3>3
    <3>5. UNION S(Faces \ todo') = (UNION S(Faces \ todo)) \cup (FaceChunks(f) \X {f})
      BY <3>4
    <3>6. Filed' = UNION S(Faces \ todo')
      BY DEF Filed
    <3> QED BY <3>2, <3>5, <3>6 DEF IInv, Filed
  <2> QED BY <2>1, <2>2
<1> QED BY <1>1, <1>2, PTL DEF Spec

(* However fine the lattice and whatever the mesh, an entity collides with *)
(* exactly the faces it touches that are not flat between chunks: the      *)
(* chunks lose no other face, at no position and for no radius             *)
(* (collisions.ks lines 90-114, 186-208).                                  *)
THEOREM FindsAllButFlatHolds == Spec => []FindsAllButFlat
<1>1. IInv => FindsAllButFlat
  <2> SUFFICES ASSUME IInv, todo = {}, NEW e \in Entities
               PROVE  {cf[2] : cf \in Collide(e)}
                        = {f \in Faces : Touches(e, f) /\ ~ Flat(f)}
    BY DEF FindsAllButFlat
  <2>1. ASSUME NEW f, NEW c
        PROVE  <<c, f>> \in chunks <=> f \in Faces /\ c \in FaceChunks(f)
    BY DEF IInv, Filed
  <2>2. ASSUME NEW cf \in Collide(e)
        PROVE  cf[2] \in {f \in Faces : Touches(e, f) /\ ~ Flat(f)}
    <3>1. cf \in chunks /\ Touches(e, cf[2])
      BY DEF Collide
    <3>2. PICK f \in Faces : cf \in FaceChunks(f) \X {f}
      BY <3>1 DEF IInv, Filed
    <3>3. cf[2] = f /\ cf[1] \in FaceChunks(f)
      BY <3>2
    <3> QED BY <3>1, <3>3, FlatHasNoChunk
  <2>3. ASSUME NEW f \in Faces, Touches(e, f), ~ Flat(f)
        PROVE  \E cf \in Collide(e) : cf[2] = f
    <3>1. PICK c \in FaceChunks(f) : c \in EntityChunks(e)
      BY <2>3, TouchedInCommonChunk
    <3>2. <<c, f>> \in chunks
      BY <2>1, <3>1
    <3>3. <<c, f>> \in Collide(e)
      BY <2>3, <3>1, <3>2 DEF Collide
    <3> QED BY <3>3
  <2> QED BY <2>2, <2>3
<1> QED BY <1>1, Invariance, PTL
=============================================================================
