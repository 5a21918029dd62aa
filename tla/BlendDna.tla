------------------------------ MODULE BlendDna ------------------------------
(***************************************************************************)
(* The types that a Blender file describes itself with (its DNA), how      *)
(* blend.c reads them, and how it finds its way through an object by them  *)
(* (blend-parser/blend.c; the records are those of blend.h).               *)
(*                                                                         *)
(* Types are numbered as in the file, from 0.  A name as it stands in the  *)
(* file is abstracted to what parse_name asks of it: whether it has a      *)
(* parenthesis, its leading stars, its identifier and what follows: a      *)
(* number for each [n], or Junk for anything else.                         *)
(***************************************************************************)
EXTENDS Integers, Sequences, Functions

CONSTANTS
  SizeMod,   (* the values of a size_t                                     *)
  PtrSize    (* sizeof(void * )                                            *)

ASSUME SizeModAssumption == SizeMod \in Nat \ {0} /\ SizeMod % 4 = 0
ASSUME PtrSizeAssumption == PtrSize \in Nat \ {0}

Junk == -1

MaxNestiness == 3   (* the length of Blend_Type_Qualifiers.array_len       *)

NoType == -1        (* a NULL Blend_Type, in a field's configuration       *)

(* What a DNA block says: strings, and numbers of 16 or 32 bits.           *)
RawNames   == [fn : BOOLEAN, stars : Nat, ident : STRING, dims : Seq(Nat \cup {Junk}), bytes : Nat]
RawTypes   == [name : STRING, size : Nat, bytes : Nat]
RawStructs == [type : Nat, fields : Seq([type : Nat, name : Nat])]

Images ==
  [ names  : Seq(RawNames), types : Seq(RawTypes), structs : Seq(RawStructs),
    magics : [TYPE : Nat, TLEN : Nat, STRC : Nat] ]

-----------------------------------------------------------------------------
(* Reader and parse_dna.                                                   *)

(* What stands one after the other from start on: where the reader is      *)
(* after so many parts, and after all of them.                             *)
Offsets(start, sizes) ==
  LET at[k \in 0 .. Len(sizes)] == IF k = 0 THEN start ELSE at[k - 1] + sizes[k]
  IN  at

EndOf(start, sizes) == Offsets(start, sizes)[Len(sizes)]

(* Mutant: rounds down.                                                    *)
AlignDown(offset) == offset - (offset % 4)

(* Reader_align(4): the difference is taken in size_t.                     *)
Align(offset) == offset + (((4 - offset) % SizeMod) % 4)

NameParses(raw) ==
  raw.fn \/ (Len(raw.dims) <= MaxNestiness /\ Junk \notin Range(raw.dims))

ParseName(raw) ==
  IF raw.fn
  THEN [name |-> raw.ident, is_fn |-> TRUE, ptr |-> 0, dims |-> << >>]
  ELSE [name |-> raw.ident, is_fn |-> FALSE, ptr |-> raw.stars, dims |-> raw.dims]

FullType(inner, ptr, dims) ==
  [inner |-> inner, is_fn |-> FALSE, ptr |-> ptr, dims |-> dims]

Elements(dims) ==
  IF Len(dims) = 0 THEN 1
  ELSE IF Len(dims) = 1 THEN dims[1]
  ELSE IF Len(dims) = 2 THEN dims[1] * dims[2]
  ELSE dims[1] * dims[2] * dims[3]

(* Mutant: the size of a pointer field is that of what it points to.       *)
SizeOfPointee(types, t) == types[t.inner + 1].size * Elements(t.dims)

(* Blend_Full_Type_size, given the types' sizes.                           *)
SizeOf(types, t) ==
  (IF t.ptr > 0 THEN PtrSize ELSE types[t.inner + 1].size) * Elements(t.dims)

(* Bytes of a section of zero-terminated strings.                          *)
Strings(raws) == EndOf(0, [k \in 1 .. Len(raws) |-> raws[k].bytes + 1])

(* Bytes of each struct of a DNA: two numbers, and two for every field.    *)
StructBytes(image) ==
  [s \in 1 .. Len(image.structs) |-> 4 + 4 * Len(image.structs[s].fields)]

(* The offsets at which parse_dna looks for TYPE, TLEN and STRC, and where *)
(* it is done.                                                             *)
SectionsRead(image) ==
  LET typ  == Align(12 + Strings(image.names))
      tlen == Align(typ + 8 + Strings(image.types))
      strc == Align(tlen + 4 + 2 * Len(image.types))
  IN  [ TYPE |-> typ, TLEN |-> tlen, STRC |-> strc,
        end  |-> EndOf(strc + 8, StructBytes(image)) ]

(* parse_dna's own checks; the type of a struct is not among them.         *)
DnaParses(image, len) ==
  LET read == SectionsRead(image)
  IN  /\ \A k \in DOMAIN image.names : NameParses(image.names[k])
      /\ \A section \in {"TYPE", "TLEN", "STRC"} :
            read[section] = image.magics[section]
      /\ read.end <= len
      /\ \A s \in DOMAIN image.structs : \A f \in DOMAIN image.structs[s].fields :
            /\ image.structs[s].fields[f].type < Len(image.types)
            /\ image.structs[s].fields[f].name < Len(image.names)

(* Every struct has a type to be the definition of.                        *)
StructTypesInBounds(image) ==
  \A s \in DOMAIN image.structs : image.structs[s].type < Len(image.types)

(* The fields of a struct in the file, with their types and offsets.       *)
FieldType(image, field) ==
  LET n == ParseName(image.names[field.name + 1])
  IN  [inner |-> field.type, is_fn |-> n.is_fn, ptr |-> n.ptr, dims |-> n.dims]

FieldSizes(image, def) ==
  [f \in 1 .. Len(def.fields) |-> SizeOf(image.types, FieldType(image, def.fields[f]))]

Fields(image, def) ==
  [f \in 1 .. Len(def.fields) |->
     [ name   |-> ParseName(image.names[def.fields[f].name + 1]).name,
       type   |-> FieldType(image, def.fields[f]),
       offset |-> Offsets(0, FieldSizes(image, def))[f - 1] ]]

(* The result; a type's struct_def is the number of its last definition.   *)
ParseDna(image) ==
  [ types   |-> [k \in 1 .. Len(image.types) |->
                   [name |-> image.types[k].name, size |-> image.types[k].size]],
    structs |-> [s \in 1 .. Len(image.structs) |->
                   [ type   |-> image.structs[s].type,
                     fields |-> Fields(image, image.structs[s]) ]] ]

IsStruct(dna, type) == \E s \in DOMAIN dna.structs : dna.structs[s].type = type

FieldsOf(dna, type) ==
  LET last == CHOOSE s \in DOMAIN dna.structs :
                /\ dna.structs[s].type = type
                /\ \A r \in DOMAIN dna.structs : dna.structs[r].type = type => r <= s
  IN  dna.structs[last].fields

(* Blend_find_type panics unless such a type exists, and gives the first.  *)
HasType(dna, name) == \E k \in DOMAIN dna.types : dna.types[k].name = name

FindType(dna, name) ==
  (CHOOSE k \in DOMAIN dna.types :
     /\ dna.types[k].name = name
     /\ \A j \in 1 .. k - 1 : dna.types[j].name # name) - 1

IsChar(dna, type) == dna.types[type.inner + 1].name = "char"

-----------------------------------------------------------------------------
(* The type of a part.                                                     *)

PointedType(t) == [t EXCEPT !.ptr = @ - 1]

ElementType(t) == [t EXCEPT !.dims = Tail(t.dims)]
=============================================================================
