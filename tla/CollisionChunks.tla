--------------------------- MODULE CollisionChunks ---------------------------
(***************************************************************************)
(* The collision mesh and its chunks (src/collisions.ks).  Mesh.new files  *)
(* every face of a level model in the chunks - cubes of CHUNK_SIZE - that  *)
(* its bounding box covers and that are near enough to it; collide looks   *)
(* only at the faces of the chunks that the box of the entity covers.      *)
(*                                                                         *)
(* Space is a lattice, a face is its corners, the lattice points it covers *)
(* and its unit normal; lengths are compared by their squares.             *)
(***************************************************************************)
EXTENDS Integers

CONSTANTS
  Half,      (* half of CHUNK_SIZE                                         *)
  Faces,     (* the faces of the mesh                                      *)
  Entities   (* where an entity may be, and how large                      *)

CHUNK_SIZE == 2 * Half

Point == Int \X Int \X Int
Axis  == 1 .. 3

Smaller(a, b) == IF a <= b THEN a ELSE b
Larger(a, b)  == IF a <= b THEN b ELSE a

(* The bounding box of a face.                                             *)
Lo(f, i) == Smaller(Smaller(f.vs[1][i], f.vs[2][i]), f.vs[3][i])
Hi(f, i) == Larger(Larger(f.vs[1][i], f.vs[2][i]), f.vs[3][i])

ASSUME HalfAssumption == Half \in Nat \ {0}

ASSUME FacesAssumption ==
  \A f \in Faces :
    /\ f.vs \in [1 .. 3 -> Point]
    /\ f.normal \in Point
    /\ f.points \subseteq Point
    /\ \A p \in f.points, i \in Axis : Lo(f, i) <= p[i] /\ p[i] <= Hi(f, i)

ASSUME EntitiesAssumption ==
  \A e \in Entities : e.position \in Point /\ e.radius \in Nat

VARIABLES
  todo,    (* the faces Mesh.new has not filed yet                         *)
  chunks   (* Mesh.chunks: which chunk holds which face                    *)

vars == <<todo, chunks>>

-----------------------------------------------------------------------------
Floor(n) == n \div CHUNK_SIZE
Ceil(n)  == - ((- n) \div CHUNK_SIZE)

(* chunk_box: each range leaves out its end.                               *)
ChunkBox(from, to) ==
  {<<x, y, z>> : x \in from[1] .. to[1] - 1,
                 y \in from[2] .. to[2] - 1,
                 z \in from[3] .. to[3] - 1}

Sq(n) == n * n
SqDistance(p, q) == Sq(p[1] - q[1]) + Sq(p[2] - q[2]) + Sq(p[3] - q[3])

Within(p, f, r) == \E q \in f.points : SqDistance(p, q) < Sq(r)

(* Where distance_to_face is not positive: on the face, or behind it with  *)
(* the foot of the perpendicular on it.                                    *)
Above(p, f) ==
  (p[1] - f.vs[1][1]) * f.normal[1] + (p[2] - f.vs[1][2]) * f.normal[2]
    + (p[3] - f.vs[1][3]) * f.normal[3]

Foot(p, f) == <<p[1] - f.normal[1] * Above(p, f),
                p[2] - f.normal[2] * Above(p, f),
                p[3] - f.normal[3] * Above(p, f)>>

Behind(p, f) == Above(p, f) <= 0 /\ Foot(p, f) \in f.points

Center(c) == <<c[1] * CHUNK_SIZE + Half, c[2] * CHUNK_SIZE + Half,
               c[3] * CHUNK_SIZE + Half>>

(* Mutant: a face is filed in the chunks whose centre it passes within     *)
(* half a chunk of: the corners of a chunk are farther from its centre.    *)
FaceChunksNarrow(f) ==
  {c \in ChunkBox([i \in Axis |-> Floor(Lo(f, i))], [i \in Axis |-> Ceil(Hi(f, i))]) :
     Within(Center(c), f, Half)}

FaceChunks(f) ==
  {c \in ChunkBox([i \in Axis |-> Floor(Lo(f, i))], [i \in Axis |-> Ceil(Hi(f, i))]) :
     Within(Center(c), f, CHUNK_SIZE)}

EntityChunks(e) ==
  ChunkBox([i \in Axis |-> Floor(e.position[i] - e.radius)],
           [i \in Axis |-> Ceil(e.position[i] + e.radius)])

(* collide_face.                                                           *)
Touches(e, f) == Within(e.position, f, e.radius) /\ ~ Behind(e.position, f)

-----------------------------------------------------------------------------
Init ==
  /\ todo = Faces
  /\ chunks = {}

(* One round of the loop of Mesh.new.                                      *)
FileFace(f) ==
  /\ f \in todo
  /\ todo' = todo \ {f}
  /\ chunks' = chunks \cup (FaceChunks(f) \X {f})

Next == \E f \in Faces : FileFace(f)

Spec == Init /\ [][Next]_vars

(* collide: the faces that are hit, each in a chunk where it is found.  A  *)
(* face in several of the chunks is a collision in each.                   *)
Collide(e) ==
  {cf \in chunks : cf[1] \in EntityChunks(e) /\ Touches(e, cf[2])}

-----------------------------------------------------------------------------
(* Properties.                                                             *)

(* A face that lies in a plane between chunks: the range of chunks of its  *)
(* box is empty there, and it is in none.                                  *)
Flat(f) == \E i \in Axis : Lo(f, i) = Hi(f, i) /\ Lo(f, i) % CHUNK_SIZE = 0

(* Looking at a few chunks is as good as looking at all faces, except for  *)
(* exactly those that lie between chunks: nothing ever collides with them  *)
(* (lines 90-114, 186-208).                                                *)
FindsAllButFlat ==
  todo = {} =>
    \A e \in Entities :
      {cf[2] : cf \in Collide(e)} = {f \in Faces : Touches(e, f) /\ ~ Flat(f)}
=============================================================================
