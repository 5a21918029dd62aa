----------------------------- MODULE BlendFile ------------------------------
(***************************************************************************)
(* Loading a Blender file into memory and freeing it again: Blend_load and *)
(* Blend_drop (blend-parser/blend.c, lines 117-190 and 319-413).           *)
(*                                                                         *)
(* A file is its size and what it holds: a header, and blocks one after    *)
(* the other up to its end, the last of which may be cut off.  A block has *)
(* the address it had when Blender wrote it (old) and, instead of bytes,   *)
(* the addresses that stand in its body, by offset, and whether there is a *)
(* zero byte to end a string (nul); the block DNA1 has the image of the    *)
(* DNA.  exit(1) ends the process at once: pc is "refused" while loading   *)
(* and "panic" later.  "undefined" is where C says nothing about what      *)
(* happens next.                                                           *)
(***************************************************************************)
EXTENDS BlendDna, FiniteSets

CONSTANT
  Files      (* bound: the files the program may be started with           *)

HeaderBytes == 17   (* BLENDER, 2 digits, -, 01, v, 4 digits               *)
BlockBytes  == 16 + PtrSize + 8   (* read_block without the body           *)

(* A file is read into memory as a whole; a length is a number of 64 bits, *)
(* sdna_index one of 32.                                                   *)
ASSUME FilesAssumption ==
  \A f \in Files :
    /\ f.size \in Nat /\ f.size < SizeMod
    /\ f.blocks \in Seq(Range(f.blocks))
    /\ \A k \in DOMAIN f.blocks :
         /\ f.blocks[k].len \in Nat /\ f.blocks[k].sdna \in Nat
         /\ f.blocks[k].nul \in BOOLEAN /\ (f.blocks[k].nul => f.blocks[k].len > 0)
         /\ f.blocks[k].code = "DNA1" => f.blocks[k].image \in Images

VARIABLES
  pc,        (* what the process is doing                                  *)
  file,      (* the file                                                   *)
  offset,    (* reader.offset                                              *)
  list,      (* block_list, newest first: [raw, type]                      *)
  dna,       (* blend->dna, or NoDna while it is uninitialized             *)
  node,      (* the cursor of a loop over block_list                       *)
  live       (* what has been allocated and not freed                      *)

fvars == <<pc, file, offset, list, dna, node, live>>

NoDna == [types |-> << >>, structs |-> << >>, missing |-> TRUE]

Raw(k) == file.blocks[list[k].raw]

FileInit ==
  /\ file \in Files
  /\ pc = "open"
  /\ offset = 0
  /\ list = << >>
  /\ dna = NoDna
  /\ node = 1
  /\ live = {}

-----------------------------------------------------------------------------
(* Blend_load.                                                             *)

Refuse ==
  /\ pc' = "refused"
  /\ UNCHANGED <<file, offset, list, dna, node, live>>

(* The whole file is read into memory.                                     *)
Open ==
  /\ pc = "open"
  /\ IF file.exists
     THEN /\ pc' = "header"
          /\ live' = {<<"blend", 0>>, <<"data", 0>>}
          /\ UNCHANGED <<file, offset, list, dna, node>>
     ELSE Refuse

(* Reader_read: so many bytes are left, or it panics.                      *)
CanRead(size) == offset + size <= file.size

HeaderAccepted ==
  /\ CanRead(HeaderBytes)
  /\ file.header.spelt
  /\ file.header.size = HeaderBytes

ReadHeader ==
  /\ pc = "header"
  /\ IF HeaderAccepted
     THEN /\ pc' = "blocks"
          /\ offset' = HeaderBytes
          /\ UNCHANGED <<file, list, dna, node, live>>
     ELSE Refuse

(* try_raw_malloc(0) is NULL.                                              *)
Allocations(what, sizes) == {<<what, k>> : k \in {j \in DOMAIN sizes : sizes[j] > 0}}

DnaAllocations(image) ==
  Allocations("names", <<Len(image.names)>>) \cup
  Allocations("types", <<Len(image.types)>>) \cup
  Allocations("structs", <<Len(image.structs)>>) \cup
  Allocations("fields", [s \in DOMAIN image.structs |-> Len(image.structs[s].fields)])

(* parse_dna of a block whose indices are wrong may write anywhere before  *)
(* it panics.                                                              *)
TakeDna(raw) ==
  IF dna # NoDna \/ (StructTypesInBounds(raw.image) /\ ~ DnaParses(raw.image, raw.len))
  THEN pc' = "refused" /\ UNCHANGED dna
  ELSE IF StructTypesInBounds(raw.image)
       THEN dna' = ParseDna(raw.image) /\ UNCHANGED pc
       ELSE pc' \in {"refused", "undefined"} /\ UNCHANGED dna

(* One turn of the loop over the file: read_block, and parse_dna for DNA1. *)
ReadBlock ==
  /\ pc = "blocks"
  /\ offset # file.size
  /\ LET k == Len(list) + 1
     IN  IF k \in DOMAIN file.blocks /\ CanRead(BlockBytes + file.blocks[k].len)
         THEN LET raw == file.blocks[k]
              IN  /\ offset' = offset + BlockBytes + raw.len
                  /\ list' = <<[raw |-> k, type |-> NoType]>> \o list
                  /\ IF raw.code = "DNA1" THEN TakeDna(raw) ELSE UNCHANGED <<pc, dna>>
                  /\ live' = live \cup {<<"node", k>>}
                       \cup (IF raw.len > 0 THEN {<<"body", k>>} ELSE {})
                       \cup (IF raw.code = "DNA1" THEN DnaAllocations(raw.image) ELSE {})
                  /\ UNCHANGED <<file, node>>
         ELSE Refuse

EndOfFile ==
  /\ pc = "blocks"
  /\ offset = file.size
  /\ pc' = "types"
  /\ node' = 1
  /\ UNCHANGED <<file, offset, list, dna, live>>

(* Give a block its type.  sdna_index is compared with the number of types *)
(* and then used to index the structs, of which there may be fewer or      *)
(* more; without a DNA1 the comparison is with an uninitialized number.    *)
ResolveType ==
  /\ pc = "types"
  /\ node <= Len(list)
  /\ LET sdna == Raw(node).sdna
     IN  IF dna = NoDna
         THEN pc' \in {"refused", "undefined"} /\ UNCHANGED <<list, node>>
         ELSE IF sdna >= Len(dna.types)
         THEN pc' = "refused" /\ UNCHANGED <<list, node>>
         ELSE IF sdna < Len(dna.structs)
         THEN /\ list' = [list EXCEPT ![node].type = dna.structs[sdna + 1].type]
              /\ node' = node + 1
              /\ UNCHANGED pc
         ELSE pc' = "undefined" /\ UNCHANGED <<list, node>>
  /\ UNCHANGED <<file, offset, dna, live>>

(* last_loaded = blend.                                                    *)
Loaded ==
  /\ pc = "types"
  /\ node > Len(list)
  /\ pc' = "run"
  /\ node' = 1
  /\ UNCHANGED <<file, offset, list, dna, live>>

Load == Open \/ ReadHeader \/ ReadBlock \/ EndOfFile \/ ResolveType \/ Loaded

-----------------------------------------------------------------------------
(* Blend_drop.                                                             *)

Frees(what) ==
  /\ live' = live \ what
  /\ UNCHANGED <<file, offset, list, dna>>

DropBlock ==
  /\ pc = "drop"
  /\ node <= Len(list)
  /\ Frees({<<"body", list[node].raw>>, <<"node", list[node].raw>>})
  /\ node' = node + 1
  /\ UNCHANGED pc

(* Mutant: the fields of the structs are forgotten.                        *)
DropTables ==
  /\ pc = "drop"
  /\ node > Len(list)
  /\ Frees({<<table, 1>> : table \in {"names", "types", "structs"}} \cup
           {<<"data", 0>>, <<"blend", 0>>})
  /\ pc' = "done"
  /\ UNCHANGED node

(* Without a DNA1 block the pointers that are freed were never set.        *)
DropDna ==
  /\ pc = "drop"
  /\ node > Len(list)
  /\ Frees({<<table, 1>> : table \in {"names", "types", "structs"}} \cup
           {<<"fields", s>> : s \in DOMAIN dna.structs} \cup
           {<<"data", 0>>, <<"blend", 0>>})
  /\ pc' = IF dna = NoDna THEN "undefined" ELSE "done"
  /\ UNCHANGED node

Drop == DropBlock \/ DropDna

-----------------------------------------------------------------------------
(* What Blender writes.                                                    *)

NextMultipleOf4(n) == CHOOSE m \in n .. n + 3 : m % 4 = 0

SectionsWritten(image, sections) ==
  /\ sections.TYPE = NextMultipleOf4(12 + Strings(image.names))
  /\ sections.TLEN = NextMultipleOf4(sections.TYPE + 8 + Strings(image.types))
  /\ sections.STRC = NextMultipleOf4(sections.TLEN + 4 + 2 * Len(image.types))

(* The size of a field in Blender: a pointer to a function is a pointer.   *)
WrittenSize(image, field) ==
  LET raw == image.names[field.name + 1]
  IN  (IF raw.fn \/ raw.stars > 0 THEN PtrSize ELSE image.types[field.type + 1].size)
        * Elements(IF raw.fn THEN << >> ELSE raw.dims)

WrittenSizes(image, def) ==
  [f \in 1 .. Len(def.fields) |-> WrittenSize(image, def.fields[f])]

WrittenOffset(image, def, f) == Offsets(0, WrittenSizes(image, def))[f - 1]

WrittenLen(image) == EndOf(image.magics.STRC + 8, StructBytes(image))

(* Its struct is the only definition of a type.                            *)
WellFormedDna(image, len) ==
  /\ SectionsWritten(image, image.magics)
  /\ \A n \in DOMAIN image.names :
       Len(image.names[n].dims) <= MaxNestiness /\ Range(image.names[n].dims) \subseteq Nat \ {0}
  /\ \A s \in DOMAIN image.structs :
       LET def == image.structs[s]
       IN  /\ def.type < Len(image.types)
           /\ \A f \in DOMAIN def.fields :
                def.fields[f].type < Len(image.types) /\ def.fields[f].name < Len(image.names)
           /\ image.types[def.type + 1].size = WrittenOffset(image, def, Len(def.fields) + 1)
           /\ \A r \in DOMAIN image.structs : image.structs[r].type = def.type => r = s
  /\ len = WrittenLen(image)

(* Bytes of each block of a file.                                          *)
BlockSizes(blocks) == [k \in 1 .. Len(blocks) |-> BlockBytes + blocks[k].len]

WellFormed(f) ==
  LET dnas == {k \in DOMAIN f.blocks : f.blocks[k].code = "DNA1"}
  IN  /\ f.exists /\ f.header.spelt /\ f.header.size = HeaderBytes
      /\ f.size = EndOf(HeaderBytes, BlockSizes(f.blocks))
      /\ Cardinality(dnas) = 1
      /\ \A d \in dnas :
           LET image == f.blocks[d].image
           IN  /\ WellFormedDna(image, f.blocks[d].len)
               /\ \A k \in DOMAIN f.blocks : f.blocks[k].sdna < Len(image.structs)

-----------------------------------------------------------------------------
(* Properties.                                                             *)

(* What Blender writes is never refused, nor loaded wrong: parse_dna looks *)
(* for every section where the padding has put it (lines 110-115, 265-281) *)
(* and leaves no block without its type.                                   *)
WellFormedLoads ==
  WellFormed(file) =>
    /\ pc # "refused"
    /\ pc \notin {"open", "header", "blocks", "types"} =>
         /\ Len(list) = Len(file.blocks)
         /\ \A k \in DOMAIN list :
              /\ list[k].raw = Len(list) + 1 - k
              /\ list[k].type = dna.structs[Raw(k).sdna + 1].type

(* The offsets that parse_dna adds up are those of the struct in Blender's *)
(* memory, up to the first pointer to a function, which parse_name takes   *)
(* for a value (lines 199-205, 295-314).                                   *)
OffsetsUpToFunctions ==
  WellFormed(file) /\ dna # NoDna =>
    LET image == file.blocks[CHOOSE k \in DOMAIN file.blocks :
                               file.blocks[k].code = "DNA1"].image
    IN  \A s \in DOMAIN dna.structs : \A f \in DOMAIN dna.structs[s].fields :
          \/ \E g \in 1 .. f - 1 : dna.structs[s].fields[g].type.is_fn
          \/ dna.structs[s].fields[f].offset = WrittenOffset(image, image.structs[s], f)
=============================================================================
