\* Chunks of 4 and a radius of 2: an entity looks at up to 3 chunks an axis.
CONSTANTS
  Half = 2
  Faces <- MCFaces
  Entities <- MCEntities
\* Mesh.new ends.
CHECK_DEADLOCK FALSE
SPECIFICATION Spec
INVARIANT FindsAllButFlat
