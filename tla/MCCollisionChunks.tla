------------------------- MODULE MCCollisionChunks -------------------------
(* A mesh for TLC: right triangles parallel to the planes of the axes,     *)
(* within a chunk, across several, on the boundary of two, and at an edge  *)
(* of the box; and an entity at every lattice point around them.           *)
EXTENDS CollisionChunks

(* The triangle at `at' that spans `side' along the axes a and b.          *)
Leg(at, a, n) == [at EXCEPT ![a] = @ + n]

Triangle(at, a, b, side, normal) ==
  [ vs     |-> <<at, Leg(at, a, side), Leg(at, b, side)>>,
    normal |-> normal,
    points |-> {Leg(Leg(at, a, m), b, n) :
                  <<m, n>> \in {mn \in (0 .. side) \X (0 .. side) : mn[1] + mn[2] <= side}} ]

MCFaces ==
  { Triangle(<<-1, -1, 1>>, 1, 2, 6, <<0, 0, 1>>),    (* across chunks     *)
    Triangle(<<1, 1, 2>>, 1, 2, 2, <<0, 0, -1>>),     (* within one        *)
    Triangle(<<0, 0, 4>>, 1, 2, 4, <<0, 0, 1>>),      (* between chunks    *)
    Triangle(<<0, 1, 0>>, 2, 3, 4, <<1, 0, 0>>),      (* between, in x     *)
    Triangle(<<0, 3, 0>>, 1, 3, 4, <<0, 1, 0>>),      (* ends on an edge   *)
    Triangle(<<-4, 1, -3>>, 1, 3, 4, <<0, -1, 0>>),   (* negative          *)
    Triangle(<<3, 3, 3>>, 2, 3, 1, <<-1, 0, 0>>) }    (* in a corner       *)

MCEntities ==
  [position : (-4 .. 6) \X (-4 .. 6) \X (-4 .. 6), radius : {2}]
=============================================================================
