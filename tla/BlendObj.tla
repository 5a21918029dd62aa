------------------------------ MODULE BlendObj ------------------------------
(***************************************************************************)
(* Objects in a loaded file: Blend_Obj with its fields, elements and       *)
(* pointers, and what Blend_Obj_dump reads of one (blend-parser/blend.c,   *)
(* lines 567-582 and 625-879).                                             *)
(*                                                                         *)
(* obj.data is the number of the block it points into, 0 for NULL, and the *)
(* offset in its body.                                                     *)
(***************************************************************************)
EXTENDS BlendFile

CONSTANT PrimSize   (* sizeof of the C types that a dump reads by name     *)

ASSUME PrimSizeAssumption ==
  /\ \A name \in DOMAIN PrimSize : PrimSize[name] \in Nat
  /\ "char" \in DOMAIN PrimSize /\ PrimSize["char"] = 1

(* panic() in the middle of an operation.                                  *)
NoObj == [block |-> -1]

Obj(block, at, type) == [block |-> block, at |-> at, type |-> type]

(* What can be read: the bytes of the block the object is in.              *)
Readable(block, at, size) ==
  block > 0 /\ at >= 0 /\ at + size <= file.blocks[block].len

Inside(obj) == Readable(obj.block, obj.at, SizeOf(dna.types, obj.type))

(* The bytes of a part are among those of the whole.                       *)
LiesIn(part, whole) ==
  /\ part.block = whole.block
  /\ whole.at <= part.at
  /\ part.at + SizeOf(dna.types, part.type) <= whole.at + SizeOf(dna.types, whole.type)

(* Blend_Obj_as_ptr of a readable object.                                  *)
PtrIn(obj) ==
  LET ptrs == file.blocks[obj.block].ptrs
  IN  IF obj.at \in DOMAIN ptrs THEN ptrs[obj.at] ELSE 0

(* Blend_Block_as_obj: one object, however many the block counts.          *)
BlockAsObj(k) == Obj(list[k].raw, 0, FullType(list[k].type, 0, << >>))

-----------------------------------------------------------------------------
(* relocate_ptr: the block that had this very address; the newest of them. *)
(* NULL stays NULL, anything else is a panic.                              *)
Relocates(address) ==
  address = 0 \/ \E k \in DOMAIN list : Raw(k).old = address

Relocate(address) ==
  IF address = 0 THEN 0
  ELSE list[CHOOSE k \in DOMAIN list :
              /\ Raw(k).old = address
              /\ \A j \in 1 .. k - 1 : Raw(j).old # address].raw

(* Mutant: the index may be the length.                                    *)
IndexArrayUpToLen(obj, i) ==
  IF i > obj.type.dims[1] THEN NoObj
  ELSE Obj(obj.block, obj.at + SizeOf(dna.types, ElementType(obj.type)) * i,
           ElementType(obj.type))

(* Blend_Obj_index of an array, and of a pointer, whose index nothing      *)
(* bounds; a NULL pointer is not refused.                                  *)
IndexArray(obj, i) ==
  IF i >= obj.type.dims[1] THEN NoObj
  ELSE Obj(obj.block, obj.at + SizeOf(dna.types, ElementType(obj.type)) * i,
           ElementType(obj.type))

IndexPtr(obj, i) ==
  IF ~ Relocates(PtrIn(obj)) THEN NoObj
  ELSE Obj(Relocate(PtrIn(obj)), SizeOf(dna.types, PointedType(obj.type)) * i,
           PointedType(obj.type))

Index(obj, i) ==
  IF obj.type.dims # << >> THEN IndexArray(obj, i)
  ELSE IF obj.type.ptr > 0 THEN IndexPtr(obj, i)
  ELSE NoObj

(* Blend_Obj_get_field with "*" and with a name.  Deref of a non-pointer   *)
(* reads and relocates before it panics, which comes to the same.          *)
Deref(obj) ==
  IF obj.type.dims # << >> \/ obj.type.ptr = 0
     \/ PtrIn(obj) = 0 \/ ~ Relocates(PtrIn(obj))
  THEN NoObj
  ELSE Obj(Relocate(PtrIn(obj)), 0, PointedType(obj.type))

(* Mutant: a pointer to a struct is taken for the struct.                  *)
NamedBehindPtr(obj, name) ==
  LET inner  == obj.type.inner
      fields == FieldsOf(dna, inner)
      found  == {f \in DOMAIN fields : fields[f].name = name}
  IN  IF obj.type.dims # << >> \/ ~ IsStruct(dna, inner) \/ found = {}
      THEN NoObj
      ELSE LET f == CHOOSE f \in found : \A g \in found : f <= g
           IN  Obj(obj.block, obj.at + fields[f].offset, fields[f].type)

Named(obj, name) ==
  LET inner  == obj.type.inner
      fields == FieldsOf(dna, inner)
      found  == {f \in DOMAIN fields : fields[f].name = name}
  IN  IF obj.type.dims # << >> \/ obj.type.ptr > 0 \/ ~ IsStruct(dna, inner) \/ found = {}
      THEN NoObj
      ELSE LET f == CHOOSE f \in found : \A g \in found : f <= g
           IN  Obj(obj.block, obj.at + fields[f].offset, fields[f].type)

(* A segment of a path is an index in brackets, a star or a name.  Whoever *)
(* follows a pointer reads it where it is.                                 *)
FollowsPtr(obj, seg) ==
  seg.kind = "*" \/ (seg.kind = "index" /\ obj.type.dims = << >> /\ obj.type.ptr > 0)

GetField(obj, seg) ==
  CASE seg.kind = "index" -> Index(obj, seg.i)
    [] seg.kind = "*"     -> Deref(obj)
    [] seg.kind = "name"  -> Named(obj, seg.name)

-----------------------------------------------------------------------------
(* Blend_Obj_dump.  max_indent is 1: an object's parts are dumped, their   *)
(* parts are not.                                                          *)

IsCharPtr(obj)   == obj.type.ptr = 1 /\ obj.type.dims = << >> /\ IsChar(dna, obj.type)
IsCharArray(obj) == obj.type.ptr = 0 /\ Len(obj.type.dims) = 1 /\ IsChar(dna, obj.type)

Parts(obj) ==
  IF obj.type.ptr > 0 \/ IsCharArray(obj) THEN {}
  ELSE IF obj.type.dims # << >> THEN {Index(obj, i) : i \in 0 .. obj.type.dims[1] - 1}
  ELSE IF IsStruct(dna, obj.type.inner)
       THEN LET fields == FieldsOf(dna, obj.type.inner)
            IN  {Obj(obj.block, obj.at + fields[f].offset, fields[f].type) :
                   f \in DOMAIN fields}
  ELSE {}

(* How many bytes are read of an object that is printed itself; of a       *)
(* pointer the pointer's own.                                              *)
ReadOf(obj) ==
  LET name == dna.types[obj.type.inner + 1].name
  IN  CASE obj.type.ptr > 0       -> PtrSize
        [] IsCharArray(obj)       -> obj.type.dims[1]
        [] obj.type.ptr = 0 /\ ~ IsCharArray(obj) ->
             IF obj.type.dims = << >> /\ ~ IsStruct(dna, obj.type.inner)
                /\ name \in DOMAIN PrimSize
             THEN PrimSize[name] ELSE 0

Printed(obj) == {obj} \cup Parts(obj)

IsRead(obj) == Readable(obj.block, obj.at, ReadOf(obj))

(* The string behind a char* is printed with %s: of NULL, and of a block   *)
(* in which nothing ends it, C says nothing.                               *)
StringMissing(obj) ==
  /\ IsCharPtr(obj)
  /\ Relocates(PtrIn(obj))
  /\ PtrIn(obj) = 0 \/ ~ file.blocks[Relocate(PtrIn(obj))].nul

(* What the dump ends with at an object that can not be printed: the block *)
(* of a string has to be there.                                            *)
Outcome(obj) ==
  IF ReadOf(obj) > 0 /\ ~ IsRead(obj) THEN "undefined"
  ELSE IF IsCharPtr(obj) /\ ~ Relocates(PtrIn(obj)) THEN "panic"
  ELSE IF StringMissing(obj) THEN "undefined"
  ELSE "printed"

(* The objects are printed in the order they are in; the first of those    *)
(* that can not be is the last.                                            *)
FirstFailing(obj) ==
  LET failing == {o \in Printed(obj) : Outcome(o) # "printed"}
  IN  {o \in failing : \A p \in failing : o.at <= p.at}
=============================================================================
