---------------------------- MODULE Blend_proofs -----------------------------
(***************************************************************************)
(* Proofs about the blend-parser, for every Blender file, configuration    *)
(* and command.                                                            *)
(***************************************************************************)
EXTENDS BlendTool, TLAPS, WellFoundedInduction, SequenceTheorems, FiniteSetTheorems

-----------------------------------------------------------------------------
(* What is always so: a file is loaded block by block, the newest first,   *)
(* and the DNA is that of a block that parse_dna took.                     *)

Nodes == [raw : Nat, type : Int]

TakenFrom(d) ==
  /\ file.blocks[d].code = "DNA1"
  /\ StructTypesInBounds(file.blocks[d].image)
  /\ dna = ParseDna(file.blocks[d].image)

Shape ==
  /\ file \in Files
  /\ offset \in Nat
  /\ list \in Seq(Nodes)
  /\ Len(list) <= Len(file.blocks)
  /\ \A k \in DOMAIN list : list[k].raw = Len(list) + 1 - k
  /\ dna = NoDna \/ \E d \in 1 .. Len(list) : TakenFrom(d)
  /\ node \in Nat \ {0}
  /\ line \in Nat

(* The blocks of a file are a sequence, and what DNA1 says is an image.    *)
LEMMA FileShape ==
  ASSUME Shape
  PROVE  /\ DOMAIN file.blocks = 1 .. Len(file.blocks)
         /\ Len(file.blocks) \in Nat
         /\ \A k \in 1 .. Len(file.blocks) :
              /\ file.blocks[k].len \in Nat /\ file.blocks[k].sdna \in Nat
              /\ file.blocks[k].code = "DNA1" => file.blocks[k].image \in Images
<1>1. /\ file.blocks \in Seq(Range(file.blocks))
      /\ \A k \in DOMAIN file.blocks :
           /\ file.blocks[k].len \in Nat /\ file.blocks[k].sdna \in Nat
           /\ file.blocks[k].code = "DNA1" => file.blocks[k].image \in Images
  BY FilesAssumption DEF Shape
<1> QED
  BY <1>1

(* The structs of a parsed DNA are those of the image.                     *)
LEMMA ParsedStructs ==
  ASSUME NEW image \in Images
  PROVE  /\ DOMAIN ParseDna(image).structs = DOMAIN image.structs
         /\ DOMAIN image.structs = 1 .. Len(image.structs)
         /\ Len(image.structs) \in Nat
         /\ Len(ParseDna(image).structs) = Len(image.structs)
         /\ \A s \in DOMAIN image.structs :
              /\ image.structs[s].type \in Nat
              /\ ParseDna(image).structs[s].type = image.structs[s].type
<1>1. image.structs \in Seq(RawStructs)
  BY DEF Images
<1>2. ASSUME NEW s \in DOMAIN image.structs
      PROVE  image.structs[s].type \in Nat
  <2>1. image.structs[s] \in RawStructs
    BY <1>1
  <2> QED
    BY <2>1 DEF RawStructs
<1> DEFINE parsed == [s \in 1 .. Len(image.structs) |->
                        [type |-> image.structs[s].type, fields |-> Fields(image, image.structs[s])]]
<1>3. ParseDna(image).structs = parsed
  BY DEF ParseDna
<1>4. /\ DOMAIN parsed = 1 .. Len(image.structs)
      /\ \A s \in 1 .. Len(image.structs) : parsed[s].type = image.structs[s].type
  OBVIOUS
<1>5. Len(parsed) = Len(image.structs)
  <2> DEFINE S == {parsed[s] : s \in 1 .. Len(image.structs)}
  <2>1. \A s \in 1 .. Len(image.structs) : parsed[s] \in S
    OBVIOUS
  <2> HIDE DEF S
  <2>2. Len(image.structs) \in Nat
    BY <1>1
  <2>3. parsed \in [1 .. Len(image.structs) -> S]
    BY <2>1
  <2> HIDE DEF parsed
  <2> QED
    BY <2>2, <2>3
<1> HIDE DEF parsed
<1> QED
  BY <1>1, <1>2, <1>3, <1>4, <1>5

LEMMA ShapeInit == Init => Shape
  BY DEF Init, FileInit, GenInit, Shape, Nodes

(* A dump ends the program or goes on with the next block.                 *)
LEMMA DumpEnds ==
  ASSUME WriteBytes \/ DumpObj
  PROVE  /\ pc = "walk" /\ pc' \in {"iterate", "panic", "undefined"}
         /\ UNCHANGED <<file, offset, list, dna, live, gvars, cmd>>
<1>1. \A o : Outcome(o) \in {"panic", "undefined", "printed"}
  BY DEF Outcome
<1>2. \A o \in FirstFailing(obj) : Outcome(o) # "printed"
  BY DEF FirstFailing
<1> QED
  BY <1>1, <1>2 DEF WriteBytes, DumpObj, BlockDone

(* The steps after loading leave alone what is loaded.                     *)
Keeps ==
  /\ UNCHANGED <<file, offset, list, dna>>
  /\ node' \in {node, node + 1, 1}
  /\ line' \in {line, line + 1}

LEMMA RunKeeps ==
  ASSUME Run \/ (Generate /\ UNCHANGED <<cmd, obj, seg>>) \/ (Drop /\ UNCHANGED <<gvars, cmd, obj, seg>>)
  PROVE  Keeps
<1>1. CASE Exits \/ TypeNotFound  BY <1>1 DEF Exits, TypeNotFound, Becomes, Keeps, gvars
<1>2. CASE ReadsNoAddress  BY <1>2 DEF ReadsNoAddress, Becomes, Keeps, gvars
<1>3. CASE DumpType  BY <1>3 DEF DumpType, Becomes, Keeps, gvars
<1>4. CASE StartGenerating  BY <1>4 DEF StartGenerating, Becomes, Keeps, gvars
<1>5. CASE StartIterating  BY <1>5 DEF StartIterating, Becomes, Keeps, gvars
<1>6. CASE SkipBlock  BY <1>6 DEF SkipBlock, Keeps, gvars
<1>7. CASE EnterBlock  BY <1>7 DEF EnterBlock, Keeps, gvars
<1>8. CASE FollowSegment  BY <1>8 DEF FollowSegment, Keeps, gvars
<1>9. CASE WriteBytes \/ DumpObj  BY <1>9 DEF WriteBytes, DumpObj, BlockDone, Keeps, gvars
<1>10. CASE EndIterating  BY <1>10 DEF EndIterating, Becomes, Keeps, gvars
<1>11. CASE ConfigLine  BY <1>11 DEF ConfigLine, Keeps
<1>12. CASE ConfigEnds  BY <1>12 DEF ConfigEnds, Keeps, gvars
<1>13. CASE GenerateType  BY <1>13 DEF GenerateType, GenerateStruct, Keeps
<1>14. CASE DropConfig  BY <1>14 DEF DropConfig, Keeps, gvars
<1>15. CASE DropBlock /\ UNCHANGED gvars  BY <1>15 DEF DropBlock, Frees, Keeps, gvars
<1>16. CASE DropDna /\ UNCHANGED gvars  BY <1>16 DEF DropDna, Frees, Keeps, gvars
<1> QED
  BY <1>1, <1>2, <1>3, <1>4, <1>5, <1>6, <1>7, <1>8, <1>9, <1>10, <1>11, <1>12, <1>13,
     <1>14, <1>15, <1>16 DEF Run, Generate, Drop

LEMMA ShapeKept ==
  ASSUME Shape, UNCHANGED <<file, list, dna>>, offset' \in Nat, node' \in Nat \ {0}, line' \in Nat
  PROVE  Shape'
BY DEF Shape, TakenFrom

(* A block is put in front of the list.                                    *)
LEMMA ListGrows ==
  ASSUME NEW S, NEW s \in Seq(S), NEW e \in S
  PROVE  /\ <<e>> \o s \in Seq(S)
         /\ Len(<<e>> \o s) = Len(s) + 1
         /\ (<<e>> \o s)[1] = e
         /\ \A j \in 2 .. Len(s) + 1 : (<<e>> \o s)[j] = s[j - 1]
OBVIOUS

LEMMA ReadBlockShape ==
  ASSUME Shape, ReadBlock, UNCHANGED gvars
  PROVE  Shape'
<1>1. CASE UNCHANGED <<file, offset, list, dna, node>>
  BY <1>1, ShapeKept DEF Shape, gvars
<1>2. CASE ~ UNCHANGED <<file, offset, list, dna, node>>
  <2>0. PICK k \in Nat : k = Len(list) + 1
    BY DEF Shape
  <2> DEFINE e == [raw |-> k, type |-> NoType]
  <2>1. /\ k \in DOMAIN file.blocks
        /\ offset' = offset + BlockBytes + file.blocks[k].len
        /\ list' = <<e>> \o list
        /\ IF file.blocks[k].code = "DNA1" THEN TakeDna(file.blocks[k]) ELSE UNCHANGED <<pc, dna>>
        /\ UNCHANGED <<file, node>>
    BY <1>2, <2>0 DEF ReadBlock, Refuse
  <2>2. Len(list) \in Nat /\ k = Len(list) + 1 /\ list \in Seq(Nodes) /\ e \in Nodes
    BY <2>0 DEF Shape, Nodes, NoType
  <2>3. k <= Len(file.blocks) /\ file.blocks[k].len \in Nat
    BY <2>1, FileShape
  <2>4. offset' \in Nat
    BY <2>1, <2>3, PtrSizeAssumption DEF Shape, BlockBytes
  <2> HIDE DEF e
  <2>5. /\ list' \in Seq(Nodes) /\ Len(list') = k
        /\ list'[1] = e
        /\ \A j \in 2 .. k : list'[j] = list[j - 1]
    BY <2>1, <2>2, ListGrows
  <2>6. ASSUME NEW j \in DOMAIN list'
        PROVE  list'[j].raw = Len(list') + 1 - j
    <3>1. j \in 1 .. k
      BY <2>5
    <3>2. CASE j = 1
      BY <2>2, <2>5, <3>2 DEF e
    <3>3. CASE j # 1
      <4>1. j - 1 \in DOMAIN list /\ list'[j] = list[j - 1]
        BY <2>2, <2>5, <3>1, <3>3
      <4>2. list[j - 1].raw = Len(list) + 1 - (j - 1)
        BY <4>1 DEF Shape
      <4> QED
        BY <2>2, <2>5, <3>1, <4>1, <4>2
    <3> QED
      BY <3>2, <3>3
  <2>7. dna' = NoDna \/ \E d \in 1 .. Len(list') : TakenFrom(d)'
    <3>1. CASE dna' = dna
      <4>1. CASE dna = NoDna
        BY <3>1, <4>1
      <4>2. CASE dna # NoDna
        <5>1. PICK d \in 1 .. Len(list) : TakenFrom(d)
          BY <4>2 DEF Shape
        <5>2. d \in 1 .. Len(list') /\ TakenFrom(d)'
          BY <2>1, <2>2, <2>5, <3>1, <5>1 DEF TakenFrom
        <5> QED
          BY <5>2
      <4> QED
        BY <4>1, <4>2
    <3>2. CASE dna' # dna
      <4>1. file.blocks[k].code = "DNA1" /\ TakeDna(file.blocks[k])
        BY <2>1, <3>2
      <4>2. StructTypesInBounds(file.blocks[k].image) /\ dna' = ParseDna(file.blocks[k].image)
        BY <3>2, <4>1 DEF TakeDna
      <4>3. TakenFrom(k)'
        BY <2>1, <4>1, <4>2 DEF TakenFrom, StructTypesInBounds, ParseDna
      <4> QED
        BY <2>2, <2>5, <4>3
    <3> QED
      BY <3>1, <3>2
  <2> QED
    BY <2>1, <2>3, <2>4, <2>5, <2>6, <2>7 DEF Shape, gvars
<1> QED
  BY <1>1, <1>2

(* A block gets its type.                                                  *)
LEMMA ResolveShape ==
  ASSUME Shape, ResolveType, UNCHANGED gvars
  PROVE  Shape'
<1>1. CASE UNCHANGED <<list, node>>
  BY <1>1, ShapeKept DEF Shape, gvars, ResolveType
<1>2. CASE ~ UNCHANGED <<list, node>>
  <2> DEFINE sdna == Raw(node).sdna
             type == dna.structs[sdna + 1].type
  <2>1. /\ node <= Len(list) /\ dna # NoDna /\ sdna < Len(dna.structs)
        /\ list' = [list EXCEPT ![node].type = type]
        /\ node' = node + 1
        /\ UNCHANGED <<file, offset, dna>>
    BY <1>2 DEF ResolveType
  <2>2. list \in Seq(Nodes) /\ node \in Nat \ {0} /\ Len(list) \in Nat /\ node \in DOMAIN list
    BY <2>1 DEF Shape
  <2>3. list[node].raw \in 1 .. Len(file.blocks) /\ Len(file.blocks) \in Nat
    <3>1. list[node].raw = Len(list) + 1 - node /\ Len(list) <= Len(file.blocks)
      BY <2>2 DEF Shape
    <3>2. Len(file.blocks) \in Nat
      BY FileShape
    <3> QED
      BY <2>1, <2>2, <3>1, <3>2
  <2>4. sdna \in Nat
    BY <2>3, FileShape DEF Raw
  <2>5. type \in Nat
    <3>1. PICK d \in 1 .. Len(list) : TakenFrom(d)
      BY <2>1 DEF Shape
    <3>2. d \in 1 .. Len(file.blocks)
      BY <2>2, <2>3 DEF Shape
    <3> DEFINE image == file.blocks[d].image
    <3>3. image \in Images /\ dna = ParseDna(image)
      BY <3>1, <3>2, FileShape DEF TakenFrom
    <3> HIDE DEF sdna, image
    <3>4. sdna + 1 \in DOMAIN image.structs
      BY <2>1, <2>4, <3>3, ParsedStructs
    <3> QED
      BY <3>3, <3>4, ParsedStructs
  <2> HIDE DEF sdna, type
  <2>6. list[node] \in Nodes
    BY <2>2
  <2>7. [list[node] EXCEPT !.type = type] \in Nodes /\ [list[node] EXCEPT !.type = type].raw = list[node].raw
    BY <2>5, <2>6 DEF Nodes
  <2>8. list' = [list EXCEPT ![node] = [list[node] EXCEPT !.type = type]]
    BY <2>1
  <2>9. list' \in Seq(Nodes) /\ Len(list') = Len(list)
    BY <2>2, <2>7, <2>8
  <2>10. \A k \in DOMAIN list' : list'[k].raw = list[k].raw
    BY <2>2, <2>7, <2>8
  <2>11. DOMAIN list' = DOMAIN list
    BY <2>2, <2>9
  <2> QED
    BY <2>1, <2>2, <2>9, <2>10, <2>11 DEF Shape, gvars, TakenFrom
<1> QED
  BY <1>1, <1>2

LEMMA ShapeNext ==
  ASSUME Shape, [Next]_vars
  PROVE  Shape'
<1>0. offset \in Nat /\ node \in Nat \ {0} /\ line \in Nat
  BY DEF Shape
<1>1. CASE Run \/ (Generate /\ UNCHANGED <<cmd, obj, seg>>) \/ (Drop /\ UNCHANGED <<gvars, cmd, obj, seg>>)
  <2>1. Keeps
    BY <1>1, RunKeeps
  <2>2. /\ UNCHANGED <<file, list, dna>>
        /\ offset' \in Nat /\ node' \in Nat \ {0} /\ line' \in Nat
    BY <1>0, <2>1 DEF Keeps
  <2> QED
    BY <2>2, ShapeKept
<1>2. CASE Loads
  <2>0. UNCHANGED gvars /\ line' = line
    BY <1>2 DEF Loads, gvars
  <2>1. CASE Open
    BY <1>0, <2>0, <2>1, ShapeKept DEF Open, Refuse
  <2>2. CASE ReadHeader
    BY <1>0, <2>0, <2>2, ShapeKept DEF ReadHeader, Refuse, HeaderBytes
  <2>3. CASE ReadBlock
    BY <2>0, <2>3, ReadBlockShape
  <2>4. CASE EndOfFile
    BY <1>0, <2>0, <2>4, ShapeKept DEF EndOfFile
  <2>5. CASE ResolveType
    BY <2>0, <2>5, ResolveShape
  <2>6. CASE Loaded
    BY <1>0, <2>0, <2>6, ShapeKept DEF Loaded
  <2> QED
    BY <1>2, <2>1, <2>2, <2>3, <2>4, <2>5, <2>6 DEF Loads, Load
<1>3. CASE UNCHANGED vars
  BY <1>0, <1>3, ShapeKept DEF vars, fvars, gvars
<1> QED
  BY <1>1, <1>2, <1>3 DEF Next

-----------------------------------------------------------------------------
(* CONFIG.types: a type has the configuration that its last line began.    *)

IsLast(n, name) ==
  /\ n \in TypeLines
  /\ config[n].name = name
  /\ \A m \in TypeLines : config[m].name = name => m <= n

Before == {"open", "header", "blocks", "types", "run", "iterate", "walk"}

MapInv ==
  /\ line \in Nat
  /\ pc \in Before => line = 0
  /\ DOMAIN types = {config[n].name : n \in TypeLines}
  /\ \A name \in DOMAIN types :
       /\ types[name] = [at |-> types[name].at, fields |-> types[name].fields]
       /\ IsLast(types[name].at, name)
  /\ lastType # NoName => lastType \in DOMAIN types

LEMMA MapKept ==
  ASSUME MapInv, TypeLines' = TypeLines, UNCHANGED <<config, types, lastType>>,
         line' \in Nat, pc' \in Before => line' = 0
  PROVE  MapInv'
<1>1. ASSUME NEW name \in DOMAIN types
      PROVE  IsLast(types[name].at, name)'
  <2>1. IsLast(types[name].at, name)
    BY DEF MapInv
  <2> QED
    BY <2>1 DEF IsLast
<1> QED
  BY <1>1 DEF MapInv

(* A line of a type is then the last of that type.                         *)
LEMMA TypeLineMap ==
  ASSUME MapInv, TypeLine(config[line + 1]), line' = line + 1, UNCHANGED config, pc = "config"
  PROVE  MapInv'
<1> DEFINE l == config[line + 1]
<1>1. line \in Nat /\ pc' = "config" /\ "config" \notin Before
  BY DEF MapInv, TypeLine, Before
<1>2. TypeLines' = TypeLines \cup {line + 1} /\ line + 1 \notin TypeLines
  <2>1. 1 .. line + 1 = (1 .. line) \cup {line + 1} /\ line + 1 \notin 1 .. line
    BY <1>1
  <2>2. config[line + 1].kind = "type"
    BY DEF TypeLine
  <2>3. TypeLines' = {n \in 1 .. line + 1 : config[n].kind = "type"}
    BY DEF TypeLines
  <2> HIDE DEF l
  <2> QED
    BY <2>1, <2>2, <2>3 DEF TypeLines
<1>3. types' = Put(types, l.name, [at |-> line + 1, fields |-> Empty]) /\ lastType' = l.name
  BY DEF TypeLine
<1>4. DOMAIN types' = {config'[n].name : n \in TypeLines'}
  <2>1. DOMAIN types' = DOMAIN types \cup {l.name}
    BY <1>3 DEF Put
  <2> QED
    BY <1>2, <2>1 DEF MapInv
<1>5. ASSUME NEW name \in DOMAIN types'
      PROVE  /\ types'[name] = [at |-> types'[name].at, fields |-> types'[name].fields]
             /\ IsLast(types[name].at, name)'
  <2>1. CASE name = l.name
    <3>1. types'[name] = [at |-> line + 1, fields |-> Empty]
      BY <1>3, <2>1 DEF Put
    <3>2. \A m \in TypeLines' : m <= line + 1
      BY <1>1, <1>2 DEF TypeLines
    <3> QED
      BY <1>2, <2>1, <3>1, <3>2 DEF IsLast
  <2>2. CASE name # l.name
    <3>1. name \in DOMAIN types /\ types'[name] = types[name]
      BY <1>3, <2>2 DEF Put
    <3>2. types[name] = [at |-> types[name].at, fields |-> types[name].fields]
          /\ IsLast(types[name].at, name)
      BY <3>1 DEF MapInv
    <3> QED
      BY <1>2, <2>2, <3>1, <3>2 DEF IsLast
  <2> QED
    BY <2>1, <2>2
<1>6. lastType' \in DOMAIN types'
  BY <1>3 DEF Put
<1> QED
  BY <1>1, <1>4, <1>5, <1>6 DEF MapInv

(* A line of a field leaves the types their beginnings.                    *)
LEMMA FieldLineMap ==
  ASSUME MapInv, FieldLine(config[line + 1]), line' = line + 1, UNCHANGED config, pc = "config"
  PROVE  MapInv'
<1> DEFINE l == config[line + 1]
<1>1. line \in Nat /\ pc' \notin Before
  BY DEF MapInv, FieldLine, Before
<1>2. TypeLines' = TypeLines
  BY <1>1 DEF FieldLine, TypeLines
<1>4. CASE UNCHANGED <<types, lastType>>
  BY <1>1, <1>2, <1>4, MapKept
<1>5. CASE ~ UNCHANGED <<types, lastType>>
  <2>1. lastType # NoName /\ lastType' = lastType
        /\ types' = [types EXCEPT ![lastType].fields =
                       Put(@, l.name, Generic(ConfiguredField(@, l.name), l))]
    BY <1>5 DEF FieldLine, LinePanics
  <2>2. PICK fields : types' = [types EXCEPT ![lastType].fields = fields]
    BY <2>1
  <2>3. lastType \in DOMAIN types /\ DOMAIN types' = DOMAIN types
    BY <2>1, <2>2 DEF MapInv
  <2>4. ASSUME NEW name \in DOMAIN types
        PROVE  /\ types'[name] = [at |-> types'[name].at, fields |-> types'[name].fields]
               /\ types'[name].at = types[name].at
    <3>1. types[name] = [at |-> types[name].at, fields |-> types[name].fields]
      BY DEF MapInv
    <3>2. CASE name = lastType
      <4>1. types'[name] = [types[name] EXCEPT !.fields = fields]
        BY <2>2, <3>2
      <4> QED
        BY <3>1, <4>1
    <3>3. CASE name # lastType
      BY <2>2, <3>1, <3>3
    <3> QED
      BY <3>2, <3>3
  <2>5. ASSUME NEW name \in DOMAIN types'
        PROVE  IsLast(types[name].at, name)'
    <3>1. types'[name].at = types[name].at /\ IsLast(types[name].at, name)
      BY <2>3, <2>4 DEF MapInv
    <3> QED
      BY <1>2, <3>1 DEF IsLast
  <2> QED
    BY <1>1, <1>2, <2>1, <2>3, <2>4, <2>5 DEF MapInv
<1> QED
  BY <1>4, <1>5

LEMMA MapNext ==
  ASSUME MapInv, Shape, [Next]_vars
  PROVE  MapInv'
<1>1. CASE ConfigLine
  <2>1. CASE TypeLine(config[line + 1])
    BY <1>1, <2>1, TypeLineMap DEF ConfigLine
  <2>2. CASE FieldLine(config[line + 1])
    BY <1>1, <2>2, FieldLineMap DEF ConfigLine
  <2>3. CASE SkipLine(config[line + 1])
    <3>1. TypeLines' = TypeLines
      BY <1>1, <2>3 DEF SkipLine, ConfigLine, TypeLines, MapInv
    <3>2. line' \in Nat /\ pc' \notin Before
      BY <1>1, <2>3 DEF SkipLine, ConfigLine, MapInv, Before
    <3> QED
      BY <1>1, <2>3, <3>1, <3>2, MapKept DEF SkipLine, ConfigLine
  <2> QED
    BY <1>1, <2>1, <2>2, <2>3 DEF ConfigLine
<1>2. CASE ~ ConfigLine
  <2>1. UNCHANGED <<config, line, types, lastType>> /\ (pc' \in Before => pc \in Before)
    <3>1. CASE Loads
      BY <3>1 DEF Loads, Load, Open, ReadHeader, ReadBlock, EndOfFile, ResolveType, Loaded, gvars, Before
    <3>2. CASE Run
      BY <3>2 DEF Run, Exits, TypeNotFound, ReadsNoAddress, DumpType, StartGenerating, StartIterating,
                  SkipBlock, EnterBlock, FollowSegment, WriteBytes, DumpObj, BlockDone, EndIterating, Becomes, gvars, Before
    <3>3. CASE Generate
      BY <1>2, <3>3 DEF Generate, ConfigEnds, GenerateType, GenerateStruct, DropConfig, gvars, Before
    <3>4. CASE Drop /\ UNCHANGED gvars
      BY <3>4 DEF Drop, DropBlock, DropDna, gvars, Before
    <3>5. CASE UNCHANGED vars
      BY <3>5 DEF vars, fvars, gvars
    <3> QED
      BY <3>1, <3>2, <3>3, <3>4, <3>5 DEF Next
  <2>2. TypeLines' = TypeLines /\ line' \in Nat /\ (pc' \in Before => line' = 0)
    BY <2>1 DEF TypeLines, MapInv
  <2> QED
    BY <2>1, <2>2, MapKept
<1> QED
  BY <1>1, <1>2

LEMMA MapInit == Init => MapInv
<1> SUFFICES ASSUME Init PROVE MapInv
  OBVIOUS
<1>1. line = 0 /\ types = << >> /\ lastType = NoName
  BY DEF Init, GenInit, Empty
<1>2. TypeLines = {}
  BY <1>1 DEF TypeLines
<1>3. DOMAIN types = {}
  BY <1>1
<1> QED
  BY <1>1, <1>2, <1>3 DEF MapInv

(* What drop_config frees.                                                 *)
LEMMA Configured ==
  ASSUME MapInv
  PROVE  TypeConfigs = {<<"type config", n>> : n \in TypeLines \ Repeated}
<1>1. ASSUME NEW name \in DOMAIN types
      PROVE  types[name].at \in TypeLines \ Repeated
  <2>1. IsLast(types[name].at, name)
    BY DEF MapInv
  <2> QED
    BY <2>1 DEF IsLast, Repeated, TypeLines, MapInv
<1>2. ASSUME NEW n \in TypeLines \ Repeated
      PROVE  config[n].name \in DOMAIN types /\ types[config[n].name].at = n
  <2>1. config[n].name \in DOMAIN types
    <3>1. DOMAIN types = {config[m].name : m \in TypeLines}
      BY DEF MapInv
    <3> QED
      BY <3>1
  <2>2. IsLast(types[config[n].name].at, config[n].name)
    BY <2>1 DEF MapInv
  <2>3. PICK m : m = types[config[n].name].at
    OBVIOUS
  <2>4. /\ m \in TypeLines /\ config[m].name = config[n].name
        /\ \A k \in TypeLines : config[k].name = config[n].name => k <= m
    BY <2>2, <2>3 DEF IsLast
  <2>5. n \in TypeLines /\ m \in TypeLines /\ n <= m
    BY <2>4
  <2>6. ~ (n < m)
    BY <2>4, <2>5 DEF Repeated
  <2>7. n \in Nat /\ m \in Nat
    BY <2>5 DEF TypeLines, MapInv
  <2> QED
    BY <2>1, <2>3, <2>5, <2>6, <2>7
<1> QED
  BY <1>1, <1>2 DEF TypeConfigs

-----------------------------------------------------------------------------
(* What is allocated, at each place of the program.                        *)

Ended == {"refused", "panic", "undefined"}

FileMem == {<<"blend", 0>>, <<"data", 0>>}

(* The memory of the first n blocks.                                       *)
BlockMem(n) == {<<part, k>> : part \in {"node", "body"}, k \in 1 .. n}

DnaMem == {<<table, 1>> : table \in {"names", "types", "structs"}} \cup
          {<<"fields", s>> : s \in DOMAIN dna.structs}

ConfigMem(lines) == {<<"type config", n>> : n \in lines}

(* The newest blocks are dropped first.                                    *)
Undropped == Len(list) + 1 - (IF pc = "drop" THEN node ELSE 1)

OfFile == IF pc = "done" THEN {} ELSE FileMem \cup BlockMem(Undropped) \cup DnaMem

Passing ==
  IF pc = "config" THEN {<<"config text", 0>>}
  ELSE IF pc \in {"iterate", "walk"} THEN Segments ELSE {}

OfConfig == ConfigMem(IF pc \in {"drop", "done"} THEN Repeated ELSE TypeLines)

HeapInv ==
  pc \notin Ended => OfConfig \subseteq live /\ live \subseteq OfConfig \cup Passing \cup OfFile

LEMMA HeapInit == Init => HeapInv
<1> SUFFICES ASSUME Init PROVE HeapInv
  OBVIOUS
<1>1. line = 0 /\ live = {} /\ pc = "open"
  BY DEF Init, FileInit, GenInit
<1>2. TypeLines = {}
  BY <1>1 DEF TypeLines
<1> QED
  BY <1>1, <1>2 DEF HeapInv, OfConfig, ConfigMem

SamePlace(a, b) ==
  \/ a = b /\ a # "drop"
  \/ {a, b} \subseteq {"header", "blocks", "types", "run", "generate"}
  \/ {a, b} \subseteq {"iterate", "walk"}

LEMMA HeapKept ==
  ASSUME HeapInv, UNCHANGED <<live, dna, config, cmd>>, Len(list') = Len(list),
         TypeLines' = TypeLines, pc' \notin Ended => SamePlace(pc, pc')
  PROVE  HeapInv'
<1> SUFFICES ASSUME pc' \notin Ended
             PROVE  (OfConfig \subseteq live /\ live \subseteq OfConfig \cup Passing \cup OfFile)'
  BY DEF HeapInv
<1>1. SamePlace(pc, pc') /\ pc \notin Ended
  BY DEF SamePlace, Ended
<1>2. Repeated' = Repeated
  BY DEF Repeated
<1>3. Segments' = Segments /\ DnaMem' = DnaMem
  BY DEF Segments, DnaMem
<1>4. OfConfig' = OfConfig
  BY <1>1, <1>2 DEF OfConfig, SamePlace
<1>5. Passing' = Passing
  BY <1>1, <1>3 DEF Passing, SamePlace
<1>6. Undropped' = Undropped /\ (pc' = "done" <=> pc = "done")
  BY <1>1 DEF Undropped, SamePlace
<1>7. OfFile' = OfFile
  BY <1>3, <1>6 DEF OfFile, BlockMem, FileMem
<1> QED
  BY <1>1, <1>4, <1>5, <1>7 DEF HeapInv

(* One more block is read.                                                 *)
LEMMA ReadBlockHeap ==
  ASSUME Shape, HeapInv, ReadBlock, UNCHANGED <<gvars, cmd>>
  PROVE  HeapInv'
<1> SUFFICES ASSUME pc' \notin Ended PROVE HeapInv'
  BY DEF HeapInv
<1>0. pc = "blocks"
  BY DEF ReadBlock
<1>1. PICK k \in Nat : k = Len(list) + 1
  BY DEF Shape
<1> DEFINE raw == file.blocks[k]
<1>2. /\ k \in DOMAIN file.blocks
      /\ list' = <<[raw |-> k, type |-> NoType]>> \o list
      /\ IF raw.code = "DNA1" THEN TakeDna(raw) ELSE UNCHANGED <<pc, dna>>
      /\ live' = live \cup {<<"node", k>>}
           \cup (IF raw.len > 0 THEN {<<"body", k>>} ELSE {})
           \cup (IF raw.code = "DNA1" THEN DnaAllocations(raw.image) ELSE {})
  BY <1>1 DEF ReadBlock, Refuse, Ended
<1>3. pc' = "blocks"
  BY <1>0, <1>2 DEF TakeDna, Ended
<1>4. Len(list') = k
  <2>1. list \in Seq(Nodes) /\ [raw |-> k, type |-> NoType] \in Nodes
    BY DEF Shape, Nodes, NoType
  <2> QED
    BY <1>1, <1>2, <2>1, ListGrows
<1>5. OfConfig' = OfConfig /\ Passing' = {} /\ Passing = {}
  BY <1>0, <1>3 DEF OfConfig, Passing, TypeLines, gvars
<1>6. OfFile = FileMem \cup BlockMem(k - 1) \cup DnaMem
  BY <1>0, <1>1 DEF OfFile, Undropped
<1>7. OfFile' = FileMem \cup BlockMem(k) \cup DnaMem'
  BY <1>1, <1>3, <1>4 DEF OfFile, Undropped, FileMem, BlockMem
<1>8. BlockMem(k - 1) \cup {<<"node", k>>, <<"body", k>>} \subseteq BlockMem(k)
  BY <1>1 DEF BlockMem
<1>9. DnaMem \subseteq DnaMem'
  <2>1. CASE dna' = dna
    BY <2>1 DEF DnaMem
  <2>2. CASE dna' # dna
    <3>1. dna = NoDna
      BY <1>2, <2>2 DEF TakeDna
    <3>2. DOMAIN dna.structs = {}
      BY <3>1 DEF NoDna
    <3> QED
      BY <3>2 DEF DnaMem
  <2> QED
    BY <2>1, <2>2
<1>10. ASSUME raw.code = "DNA1"
       PROVE  DnaAllocations(raw.image) \subseteq DnaMem'
  <2>1. raw.image \in Images
    BY <1>2, <1>10, FileShape
  <2>2. dna' = ParseDna(raw.image)
    BY <1>0, <1>2, <1>3, <1>10 DEF TakeDna, Ended
  <2>3. DOMAIN dna'.structs = DOMAIN raw.image.structs
    BY <2>1, <2>2, ParsedStructs
  <2>4. \A what, x : Allocations(what, <<x>>) \subseteq {<<what, 1>>}
    BY DEF Allocations
  <2>5. Allocations("fields", [s \in DOMAIN raw.image.structs |-> Len(raw.image.structs[s].fields)])
          \subseteq {<<"fields", s>> : s \in DOMAIN raw.image.structs}
    BY DEF Allocations
  <2> HIDE DEF raw
  <2> QED
    BY <2>3, <2>4, <2>5 DEF DnaAllocations, DnaMem
<1> HIDE DEF raw
<1>11. live \subseteq OfConfig \cup OfFile /\ OfConfig \subseteq live
  BY <1>0, <1>5 DEF HeapInv, Ended
<1> QED
  BY <1>2, <1>5, <1>6, <1>7, <1>8, <1>9, <1>10, <1>11 DEF HeapInv

LEMMA OfFileKept ==
  ASSUME UNCHANGED <<list, dna>>, pc \notin {"drop", "done"}, pc' # "done", pc' = "drop" => node' = 1
  PROVE  OfFile' = OfFile
<1>1. Undropped' = Undropped
  BY DEF Undropped
<1>2. DnaMem' = DnaMem /\ FileMem' = FileMem
  BY DEF DnaMem, FileMem
<1> QED
  BY <1>1, <1>2 DEF OfFile, BlockMem

LEMMA LoadHeap ==
  ASSUME Shape, Shape', MapInv, HeapInv, Loads
  PROVE  HeapInv'
<1>0. UNCHANGED <<gvars, cmd>>
  BY DEF Loads
<1>00. TypeLines' = TypeLines /\ UNCHANGED config
  BY <1>0 DEF TypeLines, gvars
<1>1. CASE Open
  <2>1. CASE pc' = "refused"
    BY <2>1 DEF HeapInv, Ended
  <2>2. CASE pc' # "refused"
    <3>1. pc = "open" /\ pc' = "header" /\ live' = FileMem
      BY <1>1, <2>2 DEF Open, Refuse, FileMem
    <3>2. TypeLines = {}
      BY <3>1 DEF MapInv, Before, TypeLines
    <3>3. OfConfig' = {}
      BY <1>00, <3>1, <3>2 DEF OfConfig, ConfigMem
    <3> QED
      BY <3>1, <3>3 DEF HeapInv, OfFile, FileMem
  <2> QED
    BY <2>1, <2>2
<1>2. CASE ReadBlock
  BY <1>0, <1>2, ReadBlockHeap
<1>3. CASE ReadHeader \/ EndOfFile \/ Loaded
  <2>1. UNCHANGED <<live, dna, list>>
    BY <1>3 DEF ReadHeader, EndOfFile, Loaded, Refuse
  <2>2. pc' \notin Ended => SamePlace(pc, pc')
    BY <1>3 DEF ReadHeader, EndOfFile, Loaded, Refuse, Ended, SamePlace
  <2> QED
    BY <1>0, <1>00, <2>1, <2>2, HeapKept
<1>4. CASE ResolveType
  <2>1. UNCHANGED <<live, dna>>
    BY <1>4 DEF ResolveType
  <2>2. pc' \notin Ended => SamePlace(pc, pc')
    BY <1>4 DEF ResolveType, Ended, SamePlace
  <2>3. DOMAIN list' = DOMAIN list
    BY <1>4 DEF ResolveType
  <2>4. Len(list') = Len(list)
    <3>1. list \in Seq(Nodes) /\ list' \in Seq(Nodes)
      BY DEF Shape
    <3> QED
      BY <2>3, <3>1
  <2> QED
    BY <1>0, <1>00, <2>1, <2>2, <2>4, HeapKept
<1> QED
  BY <1>1, <1>2, <1>3, <1>4 DEF Loads, Load

LEMMA RunHeap ==
  ASSUME Shape, MapInv, HeapInv, Run
  PROVE  HeapInv'
<1>0. UNCHANGED <<config, line, cmd, list, dna>>
  BY DEF Run, Exits, TypeNotFound, ReadsNoAddress, DumpType, StartGenerating, StartIterating,
         SkipBlock, EnterBlock, FollowSegment, WriteBytes, DumpObj, BlockDone, EndIterating, Becomes, gvars
<1>1. /\ TypeLines' = TypeLines /\ Repeated' = Repeated /\ Segments' = Segments
      /\ DnaMem' = DnaMem /\ FileMem' = FileMem
  BY <1>0 DEF TypeLines, Repeated, Segments, DnaMem, FileMem
<1>2. ASSUME pc \in Before PROVE TypeLines = {} /\ Repeated = {}
  BY <1>2 DEF TypeLines, Repeated, MapInv
<1>3. CASE Exits \/ TypeNotFound \/ ReadsNoAddress
  BY <1>3 DEF Exits, TypeNotFound, ReadsNoAddress, Becomes, HeapInv, Ended
<1>4. CASE SkipBlock \/ EnterBlock \/ FollowSegment \/ WriteBytes \/ DumpObj
  <2>1. UNCHANGED live
    BY <1>4, DumpEnds DEF SkipBlock, EnterBlock, FollowSegment
  <2>2. pc' \notin Ended => SamePlace(pc, pc')
    BY <1>4, DumpEnds DEF SkipBlock, EnterBlock, FollowSegment, SamePlace, Ended
  <2> QED
    BY <1>0, <1>1, <2>1, <2>2, HeapKept
<1>5. CASE DumpType
  <2>1. pc = "run" /\ pc' = "drop" /\ node' = 1 /\ live' = live
    BY <1>5 DEF DumpType, Becomes
  <2>2. OfConfig' = {} /\ OfConfig = {}
    BY <1>1, <1>2, <2>1 DEF OfConfig, ConfigMem, Before
  <2>3. OfFile' = OfFile
    BY <1>0, <2>1, OfFileKept
  <2>4. Passing = {}
    BY <2>1 DEF Passing
  <2> QED
    BY <2>1, <2>2, <2>3, <2>4 DEF HeapInv, Ended
<1>6. CASE StartGenerating
  <2>1. pc = "run" /\ pc' = "config" /\ live' = live \cup {<<"config text", 0>>}
    BY <1>6 DEF StartGenerating, Becomes
  <2>2. OfConfig' = OfConfig
    BY <1>1, <2>1 DEF OfConfig, ConfigMem
  <2>3. OfFile' = OfFile
    BY <1>0, <2>1, OfFileKept
  <2>4. Passing = {} /\ Passing' = {<<"config text", 0>>}
    BY <2>1 DEF Passing
  <2> QED
    BY <2>1, <2>2, <2>3, <2>4 DEF HeapInv, Ended
<1>7. CASE StartIterating
  <2>1. pc = "run" /\ pc' = "iterate" /\ live' = live \cup Segments
    BY <1>7 DEF StartIterating, Becomes
  <2>2. OfConfig' = OfConfig
    BY <1>1, <2>1 DEF OfConfig, ConfigMem
  <2>3. OfFile' = OfFile
    BY <1>0, <2>1, OfFileKept
  <2>4. Passing = {} /\ Passing' = Segments
    BY <1>1, <2>1 DEF Passing
  <2> QED
    BY <2>1, <2>2, <2>3, <2>4 DEF HeapInv, Ended
<1>8. CASE EndIterating
  <2>1. pc = "iterate" /\ pc' = "drop" /\ node' = 1 /\ live' = live \ Segments
    BY <1>8 DEF EndIterating, Becomes
  <2>2. OfConfig' = {} /\ OfConfig = {}
    BY <1>1, <1>2, <2>1 DEF OfConfig, ConfigMem, Before
  <2>3. OfFile' = OfFile
    BY <1>0, <2>1, OfFileKept
  <2>4. Passing = Segments
    BY <2>1 DEF Passing
  <2> QED
    BY <2>1, <2>2, <2>3, <2>4 DEF HeapInv, Ended
<1> QED
  BY <1>3, <1>4, <1>5, <1>6, <1>7, <1>8 DEF Run

LEMMA GenerateHeap ==
  ASSUME Shape, MapInv, HeapInv, Generate, UNCHANGED cmd
  PROVE  HeapInv'
<1>0. UNCHANGED <<config, list, dna>>
  BY DEF Generate, ConfigLine, ConfigEnds, GenerateType, GenerateStruct, DropConfig, gvars
<1>1. Segments' = Segments /\ DnaMem' = DnaMem /\ FileMem' = FileMem
  BY <1>0 DEF Segments, DnaMem, FileMem
<1>2. CASE ConfigLine
  <2>1. CASE TypeLine(config[line + 1])
    <3>1. pc = "config" /\ pc' = "config" /\ live' = live \cup {<<"type config", line + 1>>}
          /\ line' = line + 1 /\ config[line + 1].kind = "type"
      BY <1>2, <2>1 DEF ConfigLine, TypeLine
    <3>2. TypeLines' = TypeLines \cup {line + 1}
      <4>1. 1 .. line + 1 = (1 .. line) \cup {line + 1}
        BY DEF MapInv
      <4> QED
        BY <1>0, <3>1, <4>1 DEF TypeLines
    <3>3. OfConfig' = OfConfig \cup {<<"type config", line + 1>>}
      BY <3>1, <3>2 DEF OfConfig, ConfigMem
    <3>4. OfFile' = OfFile
      BY <1>0, <3>1, OfFileKept
    <3>5. Passing' = Passing
      BY <3>1 DEF Passing
    <3> QED
      BY <3>1, <3>3, <3>4, <3>5 DEF HeapInv, Ended
  <2>2. CASE FieldLine(config[line + 1]) \/ SkipLine(config[line + 1])
    <3>1. config[line + 1].kind # "type" /\ UNCHANGED live
      BY <2>2 DEF FieldLine, SkipLine
    <3>2. TypeLines' = TypeLines
      <4>1. 1 .. line + 1 = (1 .. line) \cup {line + 1} /\ line' = line + 1
        BY <1>2 DEF MapInv, ConfigLine
      <4> QED
        BY <1>0, <3>1, <4>1 DEF TypeLines
    <3>3. pc' \notin Ended => SamePlace(pc, pc')
      BY <1>2, <2>2 DEF ConfigLine, FieldLine, SkipLine, Ended, SamePlace
    <3> QED
      BY <1>0, <3>1, <3>2, <3>3, HeapKept
  <2> QED
    BY <1>2, <2>1, <2>2 DEF ConfigLine
<1>3. CASE ConfigEnds
  <2>1. pc = "config" /\ pc' = "generate" /\ live' = live \ {<<"config text", 0>>} /\ UNCHANGED line
    BY <1>3 DEF ConfigEnds, gvars
  <2>2. OfConfig' = OfConfig /\ OfConfig = ConfigMem(TypeLines)
    BY <1>0, <2>1 DEF OfConfig, ConfigMem, TypeLines
  <2>3. OfFile' = OfFile
    BY <1>0, <2>1, OfFileKept
  <2>4. Passing = {<<"config text", 0>>}
    BY <2>1 DEF Passing
  <2>5. <<"config text", 0>> \notin OfConfig
    BY <2>2 DEF ConfigMem
  <2> QED
    BY <2>1, <2>2, <2>3, <2>4, <2>5 DEF HeapInv, Ended
<1>4. CASE GenerateType
  <2>1. pc' \notin Ended => SamePlace(pc, pc')
    BY <1>4 DEF GenerateType, GenerateStruct, Ended, SamePlace
  <2>2. UNCHANGED live /\ TypeLines' = TypeLines
    BY <1>4 DEF GenerateType, GenerateStruct, TypeLines
  <2> QED
    BY <1>0, <2>1, <2>2, HeapKept
<1>5. CASE DropConfig
  <2>1. pc = "generate" /\ pc' = "drop" /\ node' = 1 /\ live' = live \ TypeConfigs /\ UNCHANGED line
    BY <1>5 DEF DropConfig, gvars
  <2>2. OfConfig = ConfigMem(TypeLines) /\ OfConfig' = ConfigMem(Repeated)
    BY <1>0, <2>1 DEF OfConfig, ConfigMem, TypeLines, Repeated
  <2>3. TypeConfigs = ConfigMem(TypeLines \ Repeated)
    BY Configured DEF ConfigMem
  <2>4. /\ ConfigMem(TypeLines) = ConfigMem(Repeated) \cup ConfigMem(TypeLines \ Repeated)
        /\ ConfigMem(Repeated) \cap ConfigMem(TypeLines \ Repeated) = {}
    <3>1. Repeated \subseteq TypeLines
      BY DEF Repeated
    <3>3. ASSUME NEW x, NEW A, x \in ConfigMem(A) PROVE \E n \in A : x = <<"type config", n>>
      BY <3>3 DEF ConfigMem
    <3>4. ConfigMem(Repeated) \cup ConfigMem(TypeLines \ Repeated) \subseteq ConfigMem(TypeLines)
      BY <3>1 DEF ConfigMem
    <3>5. ConfigMem(TypeLines) \subseteq ConfigMem(Repeated) \cup ConfigMem(TypeLines \ Repeated)
      BY DEF ConfigMem
    <3>6. ConfigMem(Repeated) \cap ConfigMem(TypeLines \ Repeated) = {}
      <4> SUFFICES ASSUME NEW x \in ConfigMem(Repeated), x \in ConfigMem(TypeLines \ Repeated)
                   PROVE  FALSE
        OBVIOUS
      <4>1. PICK n \in Repeated : x = <<"type config", n>>
        BY <3>3
      <4>2. PICK m \in TypeLines \ Repeated : x = <<"type config", m>>
        BY <3>3
      <4>3. x[2] = n
        BY <4>1
      <4>4. x[2] = m
        BY <4>2
      <4> QED
        BY <4>3, <4>4
    <3> QED
      BY <3>4, <3>5, <3>6
  <2>5. OfFile' = OfFile
    BY <1>0, <2>1, OfFileKept
  <2>6. Passing = {}
    BY <2>1 DEF Passing
  <2> QED
    BY <2>1, <2>2, <2>3, <2>4, <2>5, <2>6 DEF HeapInv, Ended
<1> QED
  BY <1>2, <1>3, <1>4, <1>5 DEF Generate

LEMMA DropHeap ==
  ASSUME Shape, MapInv, HeapInv, Drop, UNCHANGED <<gvars, cmd>>
  PROVE  HeapInv'
<1>0. UNCHANGED <<config, line, list, dna>>
  BY DEF Drop, DropBlock, DropDna, Frees, gvars
<1>1. pc = "drop" /\ DnaMem' = DnaMem /\ FileMem' = FileMem
  BY <1>0 DEF DnaMem, FileMem, Drop, DropBlock, DropDna
<1>2. TypeLines' = TypeLines /\ Repeated' = Repeated
  BY <1>0 DEF TypeLines, Repeated
<1>3. /\ OfConfig = ConfigMem(Repeated) /\ Passing = {}
      /\ OfFile = FileMem \cup BlockMem(Len(list) + 1 - node) \cup DnaMem
  BY <1>1 DEF OfConfig, Passing, OfFile, Undropped
<1>4. list \in Seq(Nodes) /\ Len(list) \in Nat /\ node \in Nat \ {0}
  BY DEF Shape
<1>5. CASE DropBlock
  <2>0. node <= Len(list)
    BY <1>5 DEF DropBlock
  <2>1. PICK k \in Nat : k = Len(list) + 1 - node
    <3>1. Len(list) + 1 - node \in Nat
      BY <1>4, <2>0
    <3> QED
      BY <3>1
  <2>2. list[node].raw = k
    <3>1. node \in DOMAIN list
      BY <1>4, <1>5 DEF DropBlock
    <3> QED
      BY <2>1, <3>1 DEF Shape
  <2>3. live' = live \ {<<"body", k>>, <<"node", k>>} /\ node' = node + 1 /\ pc' = "drop"
    BY <1>5, <2>2 DEF DropBlock, Frees
  <2>4. BlockMem(k) \subseteq BlockMem(k - 1) \cup {<<"body", k>>, <<"node", k>>}
    BY <2>1 DEF BlockMem
  <2>5. OfFile' = FileMem \cup BlockMem(k - 1) \cup DnaMem
    <3>1. Undropped' = k - 1
      BY <1>0, <1>4, <2>1, <2>3 DEF Undropped
    <3> QED
      BY <1>1, <2>3, <3>1 DEF OfFile, BlockMem, FileMem
  <2>6. OfConfig' = ConfigMem(Repeated)
    BY <1>2, <2>3 DEF OfConfig, ConfigMem
  <2>7. <<"body", k>> \notin ConfigMem(Repeated) /\ <<"node", k>> \notin ConfigMem(Repeated)
    BY DEF ConfigMem
  <2> QED
    BY <1>1, <1>3, <2>1, <2>3, <2>4, <2>5, <2>6, <2>7 DEF HeapInv, Ended
<1>6. CASE DropDna
  <2>1. CASE pc' = "undefined"
    BY <2>1 DEF HeapInv, Ended
  <2>2. CASE pc' # "undefined"
    <3>1. pc' = "done" /\ live' = live \ (DnaMem \cup FileMem)
      BY <1>6, <2>2 DEF DropDna, Frees, DnaMem, FileMem
    <3>2. BlockMem(Len(list) + 1 - node) = {}
      <4>1. \A k \in Nat : k \notin 1 .. Len(list) + 1 - node
        BY <1>4, <1>6 DEF DropDna
      <4> QED
        BY <1>4, <4>1 DEF BlockMem
    <3>3. OfConfig' = ConfigMem(Repeated) /\ OfFile' = {}
      BY <1>2, <3>1 DEF OfConfig, ConfigMem, OfFile
    <3>4. ConfigMem(Repeated) \cap (DnaMem \cup FileMem) = {}
      <4>1. \A n : <<"type config", n>> \notin DnaMem
        BY DEF DnaMem
      <4>2. \A n : <<"type config", n>> \notin FileMem
        BY DEF FileMem
      <4> QED
        BY <4>1, <4>2 DEF ConfigMem
    <3> QED
      BY <1>1, <1>3, <3>1, <3>2, <3>3, <3>4 DEF HeapInv, Ended
  <2> QED
    BY <2>1, <2>2
<1> QED
  BY <1>5, <1>6 DEF Drop

LEMMA HeapNext ==
  ASSUME Shape, Shape', MapInv, HeapInv, [Next]_vars
  PROVE  HeapInv'
<1>1. CASE Loads
  BY <1>1, LoadHeap
<1>2. CASE Run
  BY <1>2, RunHeap
<1>3. CASE Generate /\ UNCHANGED <<cmd, obj, seg>>
  BY <1>3, GenerateHeap
<1>4. CASE Drop /\ UNCHANGED <<gvars, cmd, obj, seg>>
  BY <1>4, DropHeap
<1>5. CASE UNCHANGED vars
  <2>1. UNCHANGED <<live, dna, config, cmd, list, line, pc, node>>
    BY <1>5 DEF vars, fvars, gvars
  <2>2. TypeLines' = TypeLines /\ Segments' = Segments /\ DnaMem' = DnaMem /\ FileMem' = FileMem
    BY <2>1 DEF TypeLines, Segments, DnaMem, FileMem
  <2>3. Repeated' = Repeated
    BY <2>1, <2>2 DEF Repeated
  <2>4. OfConfig' = OfConfig /\ Passing' = Passing
    BY <2>1, <2>2, <2>3 DEF OfConfig, Passing
  <2>5. OfFile' = OfFile
    <3>1. Undropped' = Undropped
      BY <2>1 DEF Undropped
    <3> QED
      BY <2>1, <2>2, <3>1 DEF OfFile, BlockMem
  <2> QED
    BY <2>1, <2>4, <2>5 DEF HeapInv
<1> QED
  BY <1>1, <1>2, <1>3, <1>4, <1>5 DEF Next

-----------------------------------------------------------------------------
(* Whatever the file, the configuration and the command, who gets to the   *)
(* end of main has freed all there was, but the configurations of types    *)
(* that config.txt has again.                                              *)
THEOREM FreesAll == Spec => []NothingLeaks
<1> DEFINE Inv == Shape /\ MapInv /\ HeapInv
<1>1. Init => Inv
  BY ShapeInit, MapInit, HeapInit
<1>2. Inv /\ [Next]_vars => Inv'
  BY ShapeNext, MapNext, HeapNext
<1>3. Inv => NothingLeaks
  BY DEF HeapInv, NothingLeaks, Ended, OfConfig, ConfigMem, Passing, OfFile
<1> QED
  BY <1>1, <1>2, <1>3, PTL DEF Spec

-----------------------------------------------------------------------------
(* Offsets: what stands one after the other.  The function is CHOSEn, so   *)
(* there has to be one: by induction, with the least element of a set of   *)
(* counterexamples.                                                        *)

(* A set of naturals has a least element.                                  *)
LEMMA LeastElement ==
  ASSUME NEW T \in SUBSET Nat, T # {}
  PROVE  \E x \in T : \A y \in T : x <= y
<1> DEFINE R == OpToRel(<, Nat)
<1>1. \A x, y \in Nat : <<x, y>> \in R <=> x < y
  BY DEF OpToRel
<1>2. IsWellFoundedOn(R, Nat)
  BY NatLessThanWellFounded
<1> HIDE DEF R
<1>3. PICK x \in T : \A y \in T : ~ (<<y, x>> \in R)
  BY <1>2, WFMin
<1>4. ASSUME NEW y \in T
      PROVE  x <= y
  <2>1. x \in Nat /\ y \in Nat
    OBVIOUS
  <2>2. ~ (y < x)
    BY <1>1, <1>3, <2>1
  <2> QED
    BY <2>1, <2>2
<1> QED
  BY <1>4

(* Induction, over a set of naturals.                                      *)
LEMMA Induction ==
  ASSUME NEW T \in SUBSET Nat, 0 \in T, \A n \in T : n + 1 \in T
  PROVE  T = Nat
<1> SUFFICES ASSUME T # Nat
             PROVE  FALSE
  OBVIOUS
<1>1. PICK x \in Nat \ T : \A y \in Nat \ T : x <= y
  BY LeastElement
<1>2. x - 1 \in Nat /\ x - 1 \in T
  BY <1>1
<1> QED
  BY <1>1, <1>2

Sizes(sizes) == Len(sizes) \in Nat /\ \A k \in 1 .. Len(sizes) : sizes[k] \in Nat

LEMMA OffsetsAdd ==
  ASSUME NEW start \in Nat, NEW sizes, Sizes(sizes)
  PROVE  /\ Offsets(start, sizes) \in [0 .. Len(sizes) -> Nat]
         /\ Offsets(start, sizes)[0] = start
         /\ \A k \in 1 .. Len(sizes) :
              Offsets(start, sizes)[k] = Offsets(start, sizes)[k - 1] + sizes[k]
<1>0. PICK n \in Nat : n = Len(sizes)
  BY DEF Sizes
<1>00. \A k \in 1 .. n : sizes[k] \in Nat
  BY <1>0 DEF Sizes
<1> DEFINE Upto(f, m) == f \in [0 .. m -> Nat] /\ f[0] = start /\ \A k \in 1 .. m : f[k] = f[k - 1] + sizes[k]
           Def(f) == f = [k \in 0 .. n |-> IF k = 0 THEN start ELSE f[k - 1] + sizes[k]]
           T == {m \in Nat : m <= n => \E f : Upto(f, m)}
<1>1. 0 \in T
  <2>1. Upto([k \in 0 .. 0 |-> start], 0)
    OBVIOUS
  <2> QED
    BY <2>1
<1>2. ASSUME NEW m \in T
      PROVE  m + 1 \in T
  <2> SUFFICES ASSUME m + 1 <= n PROVE \E f : Upto(f, m + 1)
    OBVIOUS
  <2>1. m \in Nat
    OBVIOUS
  <2>2. PICK f : Upto(f, m)
    BY <2>1
  <2> DEFINE g == [k \in 0 .. m + 1 |-> IF k = m + 1 THEN f[m] + sizes[m + 1] ELSE f[k]]
  <2>3. f[m] + sizes[m + 1] \in Nat
    BY <1>00, <2>1, <2>2
  <2>4. g \in [0 .. m + 1 -> Nat]
    BY <2>1, <2>2, <2>3
  <2>5. g[0] = start
    BY <2>1, <2>2
  <2>6. ASSUME NEW k \in 1 .. m + 1
        PROVE  g[k] = g[k - 1] + sizes[k]
    <3>1. k - 1 \in 0 .. m /\ g[k - 1] = f[k - 1]
      BY <2>1
    <3>2. CASE k = m + 1
      BY <2>1, <3>1, <3>2
    <3>3. CASE k # m + 1
      BY <2>1, <2>2, <3>1, <3>3
    <3> QED
      BY <3>2, <3>3
  <2> HIDE DEF g
  <2>7. Upto(g, m + 1)
    BY <2>4, <2>5, <2>6
  <2> QED
    BY <2>7
<1>3. T = Nat
  <2> HIDE DEF T
  <2>1. T \in SUBSET Nat
    BY DEF T
  <2> QED
    BY <1>1, <1>2, <2>1, Induction
<1>4. PICK f : Upto(f, n)
  <2> HIDE DEF Upto
  <2>1. n \in T /\ n <= n
    BY <1>3
  <2> QED
    BY <2>1
<1>5. Def(f)
  <2>1. ASSUME NEW k \in 0 .. n
        PROVE  f[k] = IF k = 0 THEN start ELSE f[k - 1] + sizes[k]
    <3>1. CASE k = 0
      BY <1>4, <3>1
    <3>2. CASE k # 0
      BY <1>4, <3>2
    <3> QED
      BY <3>1, <3>2
  <2> QED
    BY <1>4, <2>1
<1>6. Offsets(start, sizes) = CHOOSE g : Def(g)
  BY <1>0 DEF Offsets
<1>7. PICK g : g = Offsets(start, sizes)
  OBVIOUS
<1>8. Def(g)
  <2> HIDE DEF Def
  <2> QED
    BY <1>5, <1>6, <1>7
<1>9. g[0] = start /\ \A k \in 1 .. n : g[k] = g[k - 1] + sizes[k]
  <2>1. g = [k \in 0 .. n |-> IF k = 0 THEN start ELSE g[k - 1] + sizes[k]]
    BY <1>8
  <2>2. g[0] = start
    BY <2>1
  <2>3. ASSUME NEW k \in 1 .. n
        PROVE  g[k] = g[k - 1] + sizes[k]
    <3>1. k \in 0 .. n /\ k # 0
      OBVIOUS
    <3> QED
      BY <2>1, <3>1
  <2> QED
    BY <2>2, <2>3
<1>10. \A k \in 0 .. n : g[k] \in Nat
  <2> DEFINE U == {k \in Nat : k <= n => g[k] \in Nat}
  <2>1. 0 \in U
    BY <1>9
  <2>2. ASSUME NEW k \in U PROVE k + 1 \in U
    <3> SUFFICES ASSUME k + 1 <= n PROVE g[k + 1] \in Nat
      OBVIOUS
    <3>1. k \in Nat /\ k <= n /\ g[k] \in Nat /\ k + 1 \in 1 .. n /\ (k + 1) - 1 = k
      OBVIOUS
    <3> QED
      BY <1>00, <1>9, <3>1
  <2>3. U = Nat
    <3> HIDE DEF U
    <3>1. U \in SUBSET Nat
      BY DEF U
    <3> QED
      BY <2>1, <2>2, <3>1, Induction
  <2> QED
    BY <2>3
<1>11. g \in [0 .. n -> Nat]
  BY <1>8, <1>10
<1> QED
  BY <1>0, <1>7, <1>9, <1>11

(* The later part is behind the earlier.                                   *)
LEMMA OffsetsGrow ==
  ASSUME NEW start \in Nat, NEW sizes, Sizes(sizes),
         NEW j \in 0 .. Len(sizes), NEW k \in j .. Len(sizes)
  PROVE  /\ Offsets(start, sizes)[j] <= Offsets(start, sizes)[k]
         /\ (j < k /\ \A i \in 1 .. Len(sizes) : sizes[i] > 0)
              => Offsets(start, sizes)[j] < Offsets(start, sizes)[k]
<1>0. PICK at : at = Offsets(start, sizes)
  OBVIOUS
<1>1. /\ at \in [0 .. Len(sizes) -> Nat]
      /\ \A i \in 1 .. Len(sizes) : at[i] = at[i - 1] + sizes[i]
  BY <1>0, OffsetsAdd
<1>2. Len(sizes) \in Nat /\ \A i \in 1 .. Len(sizes) : sizes[i] \in Nat
  BY DEF Sizes
<1> DEFINE Positive == \A i \in 1 .. Len(sizes) : sizes[i] > 0
           T == {d \in Nat : j + d <= Len(sizes) =>
                   at[j] <= at[j + d] /\ (d > 0 /\ Positive => at[j] < at[j + d])}
<1>3. 0 \in T
  BY <1>1, <1>2
<1>4. ASSUME NEW d \in T PROVE d + 1 \in T
  <2> SUFFICES ASSUME j + (d + 1) <= Len(sizes)
               PROVE  at[j] <= at[j + (d + 1)] /\ (Positive => at[j] < at[j + (d + 1)])
    OBVIOUS
  <2>1. d \in Nat /\ at[j] <= at[j + d]
    BY <1>2
  <2>2. PICK i \in 1 .. Len(sizes) : i = j + (d + 1)
    BY <1>2, <2>1
  <2>3. at[i] = at[j + d] + sizes[i] /\ at[j] \in Nat /\ at[j + d] \in Nat /\ sizes[i] \in Nat
    <3>1. i - 1 = j + d /\ j + d \in 0 .. Len(sizes)
      BY <1>2, <2>1, <2>2
    <3> QED
      BY <1>1, <1>2, <3>1
  <2>4. Positive => sizes[i] > 0
    OBVIOUS
  <2> HIDE DEF Positive
  <2> QED
    BY <2>1, <2>2, <2>3, <2>4
<1>5. T = Nat
  <2> HIDE DEF T
  <2>1. T \in SUBSET Nat
    BY DEF T
  <2> QED
    BY <1>3, <1>4, <2>1, Induction
<1>6. PICK d \in Nat : j + d = k
  <2>1. k - j \in Nat /\ j + (k - j) = k
    BY <1>2
  <2> QED
    BY <2>1
<1>7. d \in T /\ j + d <= Len(sizes) /\ (j < k => d > 0)
  <2> HIDE DEF T
  <2>1. d \in T
    BY <1>5
  <2>2. j \in Nat /\ k \in Nat /\ k <= Len(sizes)
    BY <1>2
  <2>3. j + d <= Len(sizes) /\ (j < k => d > 0)
    BY <1>2, <1>6, <2>2
  <2> QED
    BY <2>1, <2>3
<1>8. at[j] <= at[k] /\ (d > 0 /\ Positive => at[j] < at[k])
  <2> HIDE DEF Positive
  <2> QED
    BY <1>6, <1>7
<1> QED
  BY <1>0, <1>7, <1>8

(* No part behind one that is smaller up to there, part by part.           *)
LEMMA OffsetsCompare ==
  ASSUME NEW start \in Nat, NEW a, NEW b, Sizes(a), Sizes(b),
         NEW m \in Nat, m <= Len(a), m <= Len(b), \A i \in 1 .. m : a[i] <= b[i]
  PROVE  Offsets(start, a)[m] <= Offsets(start, b)[m]
<1>0. PICK f, g : f = Offsets(start, a) /\ g = Offsets(start, b)
  OBVIOUS
<1>1. /\ f \in [0 .. Len(a) -> Nat] /\ f[0] = start
      /\ \A i \in 1 .. Len(a) : f[i] = f[i - 1] + a[i]
  BY <1>0, OffsetsAdd
<1>2. /\ g \in [0 .. Len(b) -> Nat] /\ g[0] = start
      /\ \A i \in 1 .. Len(b) : g[i] = g[i - 1] + b[i]
  BY <1>0, OffsetsAdd
<1>3. /\ Len(a) \in Nat /\ \A i \in 1 .. Len(a) : a[i] \in Nat
      /\ Len(b) \in Nat /\ \A i \in 1 .. Len(b) : b[i] \in Nat
  BY DEF Sizes
<1> DEFINE T == {i \in Nat : i <= m => f[i] <= g[i]}
<1>4. 0 \in T
  BY <1>1, <1>2
<1>5. ASSUME NEW i \in T PROVE i + 1 \in T
  <2> SUFFICES ASSUME i + 1 <= m PROVE f[i + 1] <= g[i + 1]
    OBVIOUS
  <2>1. i \in Nat /\ f[i] <= g[i] /\ i + 1 \in 1 .. m /\ (i + 1) - 1 = i
    OBVIOUS
  <2>2. i + 1 \in 1 .. Len(a) /\ i + 1 \in 1 .. Len(b) /\ i \in 0 .. Len(a) /\ i \in 0 .. Len(b)
    BY <1>3, <2>1
  <2>3. f[i + 1] = f[i] + a[i + 1] /\ g[i + 1] = g[i] + b[i + 1]
    BY <1>1, <1>2, <2>1, <2>2
  <2>4. f[i] \in Nat /\ g[i] \in Nat /\ a[i + 1] \in Nat /\ b[i + 1] \in Nat /\ a[i + 1] <= b[i + 1]
    BY <1>1, <1>2, <1>3, <2>1, <2>2
  <2> QED
    BY <2>1, <2>3, <2>4
<1>6. T = Nat
  <2> HIDE DEF T
  <2>1. T \in SUBSET Nat
    BY DEF T
  <2> QED
    BY <1>4, <1>5, <2>1, Induction
<1> QED
  BY <1>0, <1>6

(* How long a sequence is that is given element by element.                *)
LEMMA LenOfFunction ==
  ASSUME NEW n \in Nat, NEW s, NEW S, s \in [1 .. n -> S]
  PROVE  Len(s) = n /\ DOMAIN s = 1 .. n
OBVIOUS

-----------------------------------------------------------------------------
(* The DNA that Blender writes is accepted.                                *)

(* Reader_align(4) goes to the first multiple of 4 that is not behind, and *)
(* not past it, although its difference is taken modulo the width of a     *)
(* size_t (line 111): that width is a multiple of 4 itself.                *)
THEOREM AlignIsNext ==
  ASSUME NEW o \in Nat, o < SizeMod
  PROVE  /\ Align(o) % 4 = 0
         /\ o <= Align(o)
         /\ Align(o) < o + 4
<1>1. SizeMod \in Nat /\ SizeMod % 4 = 0 /\ SizeMod > 0
  BY SizeModAssumption
<1>2. ASSUME o <= 4 PROVE ((4 - o) % SizeMod) % 4 = (4 - o) % 4
  <2>1. CASE SizeMod > 4  BY <1>1, <1>2, <2>1
  <2>2. CASE SizeMod = 4  BY <1>1, <1>2, <2>2
  <2>3. SizeMod >= 4  BY <1>1
  <2> QED  BY <1>1, <2>1, <2>2, <2>3
<1>3. ASSUME o > 4 PROVE ((4 - o) % SizeMod) % 4 = (4 - o) % 4
  <2>1. (4 - o) % SizeMod = 4 - o + SizeMod  BY <1>1, <1>3
  <2>2. PICK q \in Nat : SizeMod = 4 * q  BY <1>1
  <2> QED  BY <2>1, <2>2, <1>1
<1>4. ((4 - o) % SizeMod) % 4 = (4 - o) % 4  BY <1>2, <1>3
<1> QED  BY <1>4 DEF Align

(* The padding that Blender writes is that which the reader skips.         *)
LEMMA NextMultiple ==
  ASSUME NEW n \in Nat
  PROVE  NextMultipleOf4(n) \in Nat /\ n <= NextMultipleOf4(n)
<1>1. \E m \in n .. n + 3 : m % 4 = 0
  <2>1. n % 4 \in 0 .. 3
    OBVIOUS
  <2>2. CASE n % 4 = 0
    BY <2>2
  <2>3. CASE n % 4 = 1
    <3>1. n + 3 \in n .. n + 3 /\ (n + 3) % 4 = 0
      BY <2>3
    <3> QED
      BY <3>1
  <2>4. CASE n % 4 = 2
    <3>1. n + 2 \in n .. n + 3 /\ (n + 2) % 4 = 0
      BY <2>4
    <3> QED
      BY <3>1
  <2>5. CASE n % 4 = 3
    <3>1. n + 1 \in n .. n + 3 /\ (n + 1) % 4 = 0
      BY <2>5
    <3> QED
      BY <3>1
  <2> QED
    BY <2>1, <2>2, <2>3, <2>4, <2>5
<1>2. NextMultipleOf4(n) \in n .. n + 3
  BY <1>1 DEF NextMultipleOf4
<1> QED
  BY <1>2

LEMMA AlignsAsWritten ==
  ASSUME NEW n \in Nat, n < SizeMod
  PROVE  Align(n) = NextMultipleOf4(n)
<1>1. Align(n) % 4 = 0 /\ n <= Align(n) /\ Align(n) < n + 4
  BY AlignIsNext
<1>2. Align(n) \in Nat
  <2>1. (4 - n) % SizeMod \in Nat
    BY SizeModAssumption
  <2> QED
    BY <2>1 DEF Align
<1>3. PICK a \in Nat : a = Align(n)
  BY <1>2
<1>4. a \in n .. n + 3 /\ a % 4 = 0
  BY <1>1, <1>3
<1>5. \A m \in n .. n + 3 : m % 4 = 0 => m = a
  BY <1>4
<1> QED
  BY <1>3, <1>4, <1>5 DEF NextMultipleOf4

LEMMA StringsCount ==
  ASSUME NEW raws, Len(raws) \in Nat, \A k \in 1 .. Len(raws) : raws[k].bytes \in Nat
  PROVE  Strings(raws) \in Nat
<1> DEFINE sizes == [k \in 1 .. Len(raws) |-> raws[k].bytes + 1]
<1>1. sizes \in [1 .. Len(raws) -> Nat]
  OBVIOUS
<1>2. Len(sizes) = Len(raws)
  BY <1>1, LenOfFunction
<1>3. Sizes(sizes)
  BY <1>1, <1>2 DEF Sizes
<1>4. Strings(raws) = Offsets(0, sizes)[Len(sizes)]
  BY DEF Strings, EndOf
<1> HIDE DEF sizes
<1> QED
  BY <1>2, <1>3, <1>4, OffsetsAdd

LEMMA StructBytesCount ==
  ASSUME NEW image \in Images
  PROVE  Sizes(StructBytes(image)) /\ Len(StructBytes(image)) = Len(image.structs)
<1>1. image.structs \in Seq(RawStructs)
  BY DEF Images
<1>2. ASSUME NEW s \in 1 .. Len(image.structs)
      PROVE  4 + 4 * Len(image.structs[s].fields) \in Nat
  <2>1. image.structs[s] \in RawStructs
    BY <1>1
  <2>2. image.structs[s].fields \in Seq([type : Nat, name : Nat])
    BY <2>1 DEF RawStructs
  <2>3. Len(image.structs[s].fields) \in Nat
    BY <2>2
  <2> QED
    BY <2>3
<1>3. StructBytes(image) \in [1 .. Len(image.structs) -> Nat]
  BY <1>2 DEF StructBytes
<1>4. Len(image.structs) \in Nat
  BY <1>1
<1>5. Len(StructBytes(image)) = Len(image.structs)
  BY <1>3, <1>4, LenOfFunction
<1> QED
  BY <1>3, <1>4, <1>5 DEF Sizes

(* The sections are where the reader looks for them, and it reads no more  *)
(* than there is.                                                          *)
LEMMA WrittenDnaParses ==
  ASSUME NEW image \in Images, NEW len \in Nat, len < SizeMod, WellFormedDna(image, len)
  PROVE  StructTypesInBounds(image) /\ DnaParses(image, len)
<1> DEFINE magics == image.magics
<1>1. /\ magics.TYPE \in Nat /\ magics.TLEN \in Nat /\ magics.STRC \in Nat
      /\ image.names \in Seq(RawNames) /\ image.types \in Seq(RawTypes)
  BY DEF Images
<1>2. PICK names \in Nat : names = Strings(image.names)
  <2>1. \A k \in 1 .. Len(image.names) : image.names[k] \in RawNames
    BY <1>1
  <2>2. \A k \in 1 .. Len(image.names) : image.names[k].bytes \in Nat
    BY <2>1 DEF RawNames
  <2>3. Len(image.names) \in Nat
    BY <1>1
  <2> QED
    BY <2>2, <2>3, StringsCount
<1>3. PICK typs \in Nat : typs = Strings(image.types)
  <2>1. \A k \in 1 .. Len(image.types) : image.types[k] \in RawTypes
    BY <1>1
  <2>2. \A k \in 1 .. Len(image.types) : image.types[k].bytes \in Nat
    BY <2>1 DEF RawTypes
  <2>3. Len(image.types) \in Nat
    BY <1>1
  <2> QED
    BY <2>2, <2>3, StringsCount
<1>4. PICK count \in Nat : count = Len(image.types)
  BY <1>1
<1>5. /\ magics.TYPE = NextMultipleOf4(12 + names)
      /\ magics.TLEN = NextMultipleOf4(magics.TYPE + 8 + typs)
      /\ magics.STRC = NextMultipleOf4(magics.TLEN + 4 + 2 * count)
  BY <1>2, <1>3, <1>4 DEF WellFormedDna, SectionsWritten
<1>6. len = EndOf(magics.STRC + 8, StructBytes(image))
  BY DEF WellFormedDna, WrittenLen
<1> HIDE DEF magics
<1>7. magics.STRC + 8 <= len
  <2>1. magics.STRC + 8 \in Nat
    BY <1>1
  <2>2. Sizes(StructBytes(image)) /\ Len(StructBytes(image)) \in Nat
    BY StructBytesCount DEF Sizes
  <2>3. Offsets(magics.STRC + 8, StructBytes(image))[0] = magics.STRC + 8
    BY <2>1, <2>2, OffsetsAdd
  <2>4. 0 \in 0 .. Len(StructBytes(image)) /\ Len(StructBytes(image)) \in 0 .. Len(StructBytes(image))
    BY <2>2
  <2>5. Offsets(magics.STRC + 8, StructBytes(image))[0]
          <= Offsets(magics.STRC + 8, StructBytes(image))[Len(StructBytes(image))]
    BY <2>1, <2>2, <2>4, OffsetsGrow
  <2> QED
    BY <1>6, <2>3, <2>5 DEF EndOf
<1>8. /\ 12 + names <= magics.TYPE
      /\ magics.TYPE + 8 + typs <= magics.TLEN
      /\ magics.TLEN + 4 + 2 * count <= magics.STRC
  <2>1. 12 + names \in Nat /\ magics.TYPE + 8 + typs \in Nat /\ magics.TLEN + 4 + 2 * count \in Nat
    <3>1. PICK typ, tlen \in Nat : typ = magics.TYPE /\ tlen = magics.TLEN
      BY <1>1
    <3>2. 12 + names \in Nat /\ typ + 8 + typs \in Nat /\ tlen + 4 + 2 * count \in Nat
      OBVIOUS
    <3> QED
      BY <3>1, <3>2
  <2>2. \A m \in Nat : m <= NextMultipleOf4(m)
    BY NextMultiple
  <2>3. /\ magics.TYPE = NextMultipleOf4(12 + names)
        /\ magics.TLEN = NextMultipleOf4(magics.TYPE + 8 + typs)
        /\ magics.STRC = NextMultipleOf4(magics.TLEN + 4 + 2 * count)
    BY <1>5
  <2>4. 12 + names <= magics.TYPE
    BY <2>1, <2>2, <2>3
  <2>5. magics.TYPE + 8 + typs <= magics.TLEN
    BY <2>1, <2>2, <2>3
  <2>6. magics.TLEN + 4 + 2 * count <= magics.STRC
    <3>1. PICK x \in Nat : x = magics.TLEN + 4 + 2 * count
      BY <2>1
    <3>2. magics.STRC = NextMultipleOf4(x)
      BY <2>3, <3>1
    <3> QED
      BY <2>2, <3>1, <3>2
  <2> QED
    BY <2>4, <2>5, <2>6
<1>9. /\ Align(12 + names) = magics.TYPE
      /\ Align(magics.TYPE + 8 + typs) = magics.TLEN
      /\ Align(magics.TLEN + 4 + 2 * count) = magics.STRC
  <2>1. /\ 12 + names \in Nat /\ 12 + names < SizeMod
        /\ magics.TYPE + 8 + typs \in Nat /\ magics.TYPE + 8 + typs < SizeMod
        /\ magics.TLEN + 4 + 2 * count \in Nat /\ magics.TLEN + 4 + 2 * count < SizeMod
    <3>1. PICK t \in Nat, l \in Nat, c \in Nat : t = magics.TYPE /\ l = magics.TLEN /\ c = magics.STRC
      BY <1>1
    <3>2. /\ c + 8 <= len /\ 12 + names <= t /\ t + 8 + typs <= l /\ l + 4 + 2 * count <= c
      BY <1>7, <1>8, <3>1
    <3>3. SizeMod \in Nat
      BY SizeModAssumption
    <3>4. PICK twice \in Nat : twice = 2 * count
      OBVIOUS
    <3>5. l + 4 + twice < SizeMod
      BY <3>2, <3>3, <3>4
    <3>6. t + 8 + typs < SizeMod
      BY <3>2, <3>3, <3>4, <3>5
    <3>7. 12 + names < SizeMod
      BY <3>2, <3>3, <3>6
    <3> QED
      BY <3>1, <3>4, <3>5, <3>6, <3>7
  <2> QED
    BY <1>5, <2>1, AlignsAsWritten
<1>10. SectionsRead(image) =
         [ TYPE |-> magics.TYPE, TLEN |-> magics.TLEN, STRC |-> magics.STRC, end |-> len ]
  BY <1>2, <1>3, <1>4, <1>6, <1>9 DEF SectionsRead
<1>11. \A section \in {"TYPE", "TLEN", "STRC"} : SectionsRead(image)[section] = magics[section]
  BY <1>10
<1>12. SectionsRead(image).end <= len
  BY <1>10
<1>13. \A k \in DOMAIN image.names : NameParses(image.names[k])
  BY DEF WellFormedDna, NameParses, Junk
<1>14. /\ \A s \in DOMAIN image.structs : \A f \in DOMAIN image.structs[s].fields :
            /\ image.structs[s].fields[f].type < Len(image.types)
            /\ image.structs[s].fields[f].name < Len(image.names)
       /\ StructTypesInBounds(image)
  BY DEF WellFormedDna, StructTypesInBounds
<1> QED
  BY <1>11, <1>12, <1>13, <1>14 DEF DnaParses, magics

-----------------------------------------------------------------------------
(* What Blender writes is loaded.                                          *)

Ends == Offsets(HeaderBytes, BlockSizes(file.blocks))

LEMMA BlockEnds ==
  ASSUME Shape
  PROVE  /\ Ends \in [0 .. Len(file.blocks) -> Nat]
         /\ Ends[0] = HeaderBytes
         /\ \A k \in 1 .. Len(file.blocks) :
              /\ Ends[k] = Ends[k - 1] + BlockBytes + file.blocks[k].len
              /\ Ends[k] <= Ends[Len(file.blocks)]
              /\ Ends[k - 1] < Ends[Len(file.blocks)]
         /\ EndOf(HeaderBytes, BlockSizes(file.blocks)) = Ends[Len(file.blocks)]
<1>1. PICK n \in Nat : n = Len(file.blocks)
  BY FileShape
<1>2. PICK sizes : sizes = BlockSizes(file.blocks)
  OBVIOUS
<1>3. BlockBytes \in Nat /\ BlockBytes > 0 /\ HeaderBytes \in Nat
  BY PtrSizeAssumption DEF BlockBytes, HeaderBytes
<1>4. \A k \in 1 .. n : file.blocks[k].len \in Nat
  BY <1>1, FileShape
<1>5. /\ \A k \in 1 .. n : sizes[k] = BlockBytes + file.blocks[k].len
      /\ sizes \in [1 .. n -> Nat]
  BY <1>1, <1>2, <1>3, <1>4 DEF BlockSizes
<1>6. Len(sizes) = n
  BY <1>5, LenOfFunction
<1>7. Sizes(sizes) /\ \A k \in 1 .. Len(sizes) : sizes[k] > 0
  BY <1>3, <1>4, <1>5, <1>6 DEF Sizes
<1>8. PICK at : at = Offsets(HeaderBytes, sizes)
  OBVIOUS
<1>9. /\ at \in [0 .. n -> Nat] /\ at[0] = HeaderBytes
      /\ \A k \in 1 .. n : at[k] = at[k - 1] + sizes[k]
  <2>1. /\ Offsets(HeaderBytes, sizes) \in [0 .. Len(sizes) -> Nat]
        /\ Offsets(HeaderBytes, sizes)[0] = HeaderBytes
        /\ \A k \in 1 .. Len(sizes) :
             Offsets(HeaderBytes, sizes)[k] = Offsets(HeaderBytes, sizes)[k - 1] + sizes[k]
    BY <1>3, <1>7, OffsetsAdd
  <2> QED
    BY <1>6, <1>8, <2>1
<1>10. ASSUME NEW k \in 1 .. n
       PROVE  at[k] <= at[n] /\ at[k - 1] < at[n]
  <2>1. /\ k \in 0 .. Len(sizes) /\ n \in k .. Len(sizes)
        /\ k - 1 \in 0 .. Len(sizes) /\ n \in k - 1 .. Len(sizes) /\ k - 1 < n
    BY <1>6
  <2>2. at[k] <= at[n]
    BY <1>3, <1>7, <1>8, <2>1, OffsetsGrow
  <2>3. at[k - 1] < at[n]
    BY <1>3, <1>7, <1>8, <2>1, OffsetsGrow
  <2> QED
    BY <2>2, <2>3
<1>11. Ends = at /\ EndOf(HeaderBytes, BlockSizes(file.blocks)) = at[n]
  BY <1>2, <1>6, <1>8 DEF Ends, EndOf
<1>12. \A k \in 1 .. n : at[k] = at[k - 1] + BlockBytes + file.blocks[k].len
  <2> SUFFICES ASSUME NEW k \in 1 .. n
               PROVE  at[k] = at[k - 1] + BlockBytes + file.blocks[k].len
    OBVIOUS
  <2>1. at[k] = at[k - 1] + (BlockBytes + file.blocks[k].len)
    BY <1>5, <1>9
  <2>2. at[k - 1] \in Nat /\ file.blocks[k].len \in Nat
    BY <1>4, <1>9
  <2> QED
    BY <1>3, <2>1, <2>2
<1> QED
  BY <1>1, <1>9, <1>10, <1>11, <1>12

(* A type has one definition at most.                                      *)
LEMMA StructsHaveTypes ==
  ASSUME NEW image \in Images, NEW len, WellFormedDna(image, len)
  PROVE  Len(image.structs) <= Len(image.types)
<1>1. PICK n \in Nat, m \in Nat :
        /\ n = Len(image.structs) /\ DOMAIN image.structs = 1 .. n
        /\ m = Len(image.types)
  <2>1. image.structs \in Seq(RawStructs) /\ image.types \in Seq(RawTypes)
    BY DEF Images
  <2> QED
    BY <2>1
<1>2. \A s \in 1 .. n : /\ image.structs[s].type \in Nat /\ image.structs[s].type < m
                        /\ \A r \in 1 .. n : image.structs[r].type = image.structs[s].type => r = s
  BY <1>1, ParsedStructs DEF WellFormedDna
<1>3. PICK f : f = [s \in 1 .. n |-> image.structs[s].type + 1]
  OBVIOUS
<1>4. f \in [1 .. n -> 1 .. m]
  <2>1. \A s \in 1 .. n : image.structs[s].type + 1 \in 1 .. m
    BY <1>2
  <2> QED
    BY <1>3, <2>1
<1>5. ASSUME NEW k \in Nat PROVE IsFiniteSet(1 .. k) /\ Cardinality(1 .. k) = k
  <2>1. IsFiniteSet(1 .. k) /\ Cardinality(1 .. k) = IF 1 > k THEN 0 ELSE k - 1 + 1
    BY FS_Interval
  <2> QED
    BY <2>1
<1>6. ASSUME m < n PROVE FALSE
  <2>1. /\ IsFiniteSet(1 .. n) /\ IsFiniteSet(1 .. m)
        /\ Cardinality(1 .. m) < Cardinality(1 .. n)
    BY <1>5, <1>6
  <2>2. \E x, y \in 1 .. n : x # y /\ f[x] = f[y]
    BY <1>4, <2>1, FS_PigeonHole
  <2>3. PICK x \in 1 .. n, y \in 1 .. n : x # y /\ f[x] = f[y]
    BY <2>2
  <2>4. image.structs[x].type = image.structs[y].type
    BY <1>2, <1>3, <2>3
  <2> QED
    BY <1>2, <2>3, <2>4
<1> QED
  BY <1>1, <1>6

(* There is one DNA1 block; its image is accepted, and has all the structs *)
(* that the blocks refer to, each with a type of its own.                  *)
HasDnaAt(d) ==
  /\ d \in 1 .. Len(file.blocks)
  /\ file.blocks[d].code = "DNA1"
  /\ \A k \in 1 .. Len(file.blocks) : file.blocks[k].code = "DNA1" => k = d
  /\ file.blocks[d].image \in Images
  /\ WellFormedDna(file.blocks[d].image, file.blocks[d].len)
  /\ StructTypesInBounds(file.blocks[d].image)
  /\ DnaParses(file.blocks[d].image, file.blocks[d].len)
  /\ Len(file.blocks[d].image.structs) <= Len(file.blocks[d].image.types)
  /\ \A k \in 1 .. Len(file.blocks) : file.blocks[k].sdna < Len(file.blocks[d].image.structs)

LEMMA WellFormedHasDna ==
  ASSUME Shape, WellFormed(file)
  PROVE  \E d : HasDnaAt(d)
<1> DEFINE dnas == {k \in DOMAIN file.blocks : file.blocks[k].code = "DNA1"}
<1>1. PICK n \in Nat : n = Len(file.blocks) /\ DOMAIN file.blocks = 1 .. n
  BY FileShape
<1>2. Cardinality(dnas) = 1
  BY DEF WellFormed
<1>3. PICK d : dnas = {d}
  <2>1. IsFiniteSet(1 .. n)
    BY <1>1, FS_Interval
  <2>2. dnas \subseteq 1 .. n
    BY <1>1
  <2>3. IsFiniteSet(dnas)
    BY <2>1, <2>2, FS_Subset
  <2> HIDE DEF dnas
  <2> QED
    BY <1>2, <2>3, FS_Singleton
<1>4. d \in dnas
  BY <1>3
<1>5. d \in 1 .. n /\ file.blocks[d].code = "DNA1" /\ \A k \in 1 .. n : file.blocks[k].code = "DNA1" => k = d
  BY <1>1, <1>3, <1>4
<1>6. /\ WellFormedDna(file.blocks[d].image, file.blocks[d].len)
      /\ \A k \in DOMAIN file.blocks : file.blocks[k].sdna < Len(file.blocks[d].image.structs)
      /\ file.size = EndOf(HeaderBytes, BlockSizes(file.blocks))
  BY <1>4 DEF WellFormed
<1>7. file.blocks[d].image \in Images /\ file.blocks[d].len \in Nat
  BY <1>1, <1>5, FileShape
<1>8. file.blocks[d].len < SizeMod
  <2>1. file.size \in Nat /\ file.size < SizeMod
    BY FilesAssumption DEF Shape
  <2>2. file.size = Ends[n]
    BY <1>1, <1>6, BlockEnds
  <2>3. Ends[d] = Ends[d - 1] + BlockBytes + file.blocks[d].len /\ Ends[d] <= Ends[n]
    BY <1>1, <1>5, BlockEnds
  <2>4. Ends[d - 1] \in Nat /\ Ends[n] \in Nat
    <3>1. PICK ends : ends = Ends
      OBVIOUS
    <3>2. ends \in [0 .. n -> Nat]
      BY <1>1, <3>1, BlockEnds
    <3>3. d - 1 \in 0 .. n /\ n \in 0 .. n
      BY <1>5
    <3> QED
      BY <3>1, <3>2, <3>3
  <2>5. BlockBytes \in Nat /\ SizeMod \in Nat
    BY PtrSizeAssumption, SizeModAssumption DEF BlockBytes
  <2> QED
    BY <1>7, <2>1, <2>2, <2>3, <2>4, <2>5
<1>9. StructTypesInBounds(file.blocks[d].image) /\ DnaParses(file.blocks[d].image, file.blocks[d].len)
  BY <1>6, <1>7, <1>8, WrittenDnaParses
<1>10. Len(file.blocks[d].image.structs) <= Len(file.blocks[d].image.types)
  BY <1>6, <1>7, StructsHaveTypes
<1> QED
  BY <1>1, <1>5, <1>6, <1>7, <1>9, <1>10 DEF HasDnaAt

LEMMA ParsedIsDna ==
  ASSUME NEW image
  PROVE  ParseDna(image) # NoDna
<1>1. "missing" \in DOMAIN NoDna
  BY DEF NoDna
<1>2. "missing" \notin DOMAIN ParseDna(image)
  BY DEF ParseDna
<1> QED
  BY <1>1, <1>2

Loading == {"open", "header", "blocks"}

TypeResolved(k) == list[k].type = dna.structs[Raw(k).sdna + 1].type

LoadInv ==
  WellFormed(file) =>
    /\ pc # "refused"
    /\ pc \in {"open", "header"} => offset = 0 /\ list = << >>
    /\ pc = "blocks" => offset = Ends[Len(list)]
    /\ dna = NoDna => \A k \in 1 .. Len(list) : file.blocks[k].code # "DNA1"
    /\ pc \notin Loading =>
         /\ Len(list) = Len(file.blocks) /\ dna # NoDna
         /\ \A k \in DOMAIN list : pc # "types" \/ k < node => TypeResolved(k)

LEMMA LoadInit == Init => LoadInv
<1> SUFFICES ASSUME Init PROVE LoadInv
  OBVIOUS
<1>1. pc = "open" /\ offset = 0 /\ list = << >> /\ Len(list) = 0
  BY DEF Init, FileInit
<1> QED
  BY <1>1 DEF LoadInv, Loading

LEMMA LoadNextBlock ==
  ASSUME Shape, Shape', LoadInv, ReadBlock, WellFormed(file)
  PROVE  LoadInv'
<1>1. PICK n \in Nat : n = Len(file.blocks) /\ DOMAIN file.blocks = 1 .. n
  BY FileShape
<1>2. PICK k \in Nat : k = Len(list) + 1
  BY DEF Shape
<1>3. PICK d : HasDnaAt(d)
  BY WellFormedHasDna
<1>4. /\ pc = "blocks" /\ offset = Ends[k - 1] /\ offset # file.size
      /\ dna = NoDna => \A j \in 1 .. k - 1 : file.blocks[j].code # "DNA1"
  BY <1>2 DEF ReadBlock, LoadInv
<1>5. file.size = Ends[n]
  BY <1>1, BlockEnds DEF WellFormed
<1>6. k \in 1 .. n
  <2>1. k - 1 <= n
    BY <1>1, <1>2 DEF Shape
  <2>2. k - 1 # n
    BY <1>4, <1>5
  <2> QED
    BY <1>2, <2>1, <2>2
<1>7. /\ Ends[k] = Ends[k - 1] + BlockBytes + file.blocks[k].len /\ Ends[k] <= Ends[n]
      /\ Ends[k - 1] \in Nat /\ file.blocks[k].len \in Nat /\ BlockBytes \in Nat
  <2>1. k - 1 \in 0 .. n
    BY <1>6
  <2> QED
    BY <1>1, <1>6, <2>1, BlockEnds, FileShape, PtrSizeAssumption DEF BlockBytes
<1>8. k \in DOMAIN file.blocks /\ CanRead(BlockBytes + file.blocks[k].len)
  BY <1>1, <1>4, <1>5, <1>6, <1>7 DEF CanRead
<1> DEFINE raw == file.blocks[k]
<1>9. /\ offset' = offset + BlockBytes + raw.len
      /\ list' = <<[raw |-> k, type |-> NoType]>> \o list
      /\ IF raw.code = "DNA1" THEN TakeDna(raw) ELSE UNCHANGED <<pc, dna>>
      /\ UNCHANGED <<file, node>>
  BY <1>2, <1>8 DEF ReadBlock
<1>10. Len(list') = k
  <2>1. list \in Seq(Nodes) /\ [raw |-> k, type |-> NoType] \in Nodes
    BY DEF Shape, Nodes, NoType
  <2> QED
    BY <1>2, <1>9, <2>1, ListGrows
<1>11. offset' = Ends[k] /\ Ends' = Ends
  BY <1>4, <1>7, <1>9 DEF Ends
<1>12. pc' = "blocks" /\ (dna' = NoDna => \A j \in 1 .. k : file.blocks[j].code # "DNA1")
  <2>1. CASE raw.code # "DNA1"
    <3>1. pc' = "blocks" /\ dna' = dna
      BY <1>4, <1>9, <2>1
    <3>2. \A j \in 1 .. k : j = k \/ j \in 1 .. k - 1
      BY <1>6
    <3> QED
      BY <1>4, <2>1, <3>1, <3>2
  <2>2. CASE raw.code = "DNA1"
    <3>1. k = d
      BY <1>1, <1>3, <1>6, <2>2 DEF HasDnaAt
    <3>2. dna = NoDna
      <4> SUFFICES ASSUME dna # NoDna PROVE FALSE
        OBVIOUS
      <4>1. PICK e \in 1 .. Len(list) : TakenFrom(e)
        BY DEF Shape
      <4>2. e \in 1 .. n /\ e # k
        BY <1>2, <1>6
      <4>3. file.blocks[e].code = "DNA1"
        BY <4>1 DEF TakenFrom
      <4> QED
        BY <1>1, <1>3, <3>1, <4>2, <4>3 DEF HasDnaAt
    <3>3. StructTypesInBounds(raw.image) /\ DnaParses(raw.image, raw.len)
      BY <1>3, <3>1 DEF HasDnaAt
    <3>4. pc' = pc /\ dna' = ParseDna(raw.image)
      BY <1>9, <2>2, <3>2, <3>3 DEF TakeDna
    <3> QED
      BY <1>4, <3>4, ParsedIsDna
  <2> QED
    BY <2>1, <2>2
<1> QED
  BY <1>9, <1>10, <1>11, <1>12 DEF LoadInv, Loading

LEMMA LoadNextType ==
  ASSUME Shape, Shape', LoadInv, ResolveType, WellFormed(file)
  PROVE  LoadInv'
<1>1. PICK n \in Nat : n = Len(file.blocks) /\ DOMAIN file.blocks = 1 .. n
  BY FileShape
<1>2. /\ pc = "types" /\ node <= Len(list) /\ Len(list) = n /\ dna # NoDna
      /\ \A k \in DOMAIN list : k < node => TypeResolved(k)
  BY <1>1 DEF ResolveType, LoadInv, Loading
<1>3. list \in Seq(Nodes) /\ node \in Nat \ {0} /\ node \in DOMAIN list /\ DOMAIN list = 1 .. n
  BY <1>2 DEF Shape
<1>4. PICK d : HasDnaAt(d)
  BY WellFormedHasDna
<1>5. dna = ParseDna(file.blocks[d].image)
  <2>1. PICK e \in 1 .. Len(list) : TakenFrom(e)
    BY <1>2 DEF Shape
  <2>2. e = d
    BY <1>1, <1>2, <1>4, <2>1 DEF HasDnaAt, TakenFrom
  <2> QED
    BY <2>1, <2>2 DEF TakenFrom
<1>6. /\ Len(dna.structs) = Len(file.blocks[d].image.structs) /\ Len(dna.structs) \in Nat
      /\ Len(dna.types) = Len(file.blocks[d].image.types) /\ Len(dna.types) \in Nat
      /\ Len(dna.structs) <= Len(dna.types)
  <2>1. PICK image \in Images : image = file.blocks[d].image
    BY <1>4 DEF HasDnaAt
  <2>2. Len(dna.structs) = Len(image.structs) /\ Len(image.structs) \in Nat
    BY <1>5, <2>1, ParsedStructs
  <2>3. image.types \in Seq(RawTypes) /\ Len(image.types) \in Nat
    BY DEF Images
  <2>4. Len(dna.types) = Len(image.types)
    BY <1>5, <2>1, <2>3 DEF ParseDna
  <2> QED
    BY <1>4, <2>1, <2>2, <2>3, <2>4 DEF HasDnaAt
<1>7. list[node].raw \in 1 .. n
  BY <1>2, <1>3 DEF Shape
<1>8. Raw(node).sdna \in Nat /\ Raw(node).sdna < Len(dna.structs)
  BY <1>1, <1>4, <1>6, <1>7, FileShape DEF HasDnaAt, Raw
<1> DEFINE type == dna.structs[Raw(node).sdna + 1].type
<1>9. /\ list' = [list EXCEPT ![node].type = type]
      /\ node' = node + 1 /\ pc' = "types"
      /\ UNCHANGED <<file, dna>>
  BY <1>2, <1>6, <1>8 DEF ResolveType
<1> HIDE DEF type
<1>10. DOMAIN list' = DOMAIN list /\ Len(list') = n
  <2>1. DOMAIN list' = 1 .. n
    BY <1>3, <1>9
  <2>2. list' \in Seq(Nodes)
    BY DEF Shape
  <2> QED
    BY <1>3, <2>1, <2>2
<1>11. ASSUME NEW k \in DOMAIN list', k < node'
       PROVE  TypeResolved(k)'
  <2>1. list[k] \in Nodes /\ k \in DOMAIN list
    BY <1>3, <1>10
  <2>2. list'[k].raw = list[k].raw
    BY <1>9, <2>1 DEF Nodes
  <2>3. Raw(k)' = Raw(k)
    BY <1>9, <2>2 DEF Raw
  <2>4. CASE k = node
    <3>1. list'[k].type = type
      BY <1>9, <2>1, <2>4 DEF Nodes
    <3> QED
      BY <1>9, <2>3, <2>4, <3>1 DEF TypeResolved, type
  <2>5. CASE k # node
    <3>1. k < node /\ list'[k] = list[k]
      BY <1>3, <1>9, <1>11, <2>1, <2>5
    <3>2. TypeResolved(k)
      BY <1>2, <2>1, <3>1
    <3> QED
      BY <1>9, <2>3, <3>1, <3>2 DEF TypeResolved
  <2> QED
    BY <2>4, <2>5
<1> QED
  BY <1>1, <1>2, <1>9, <1>10, <1>11 DEF LoadInv, Loading

LEMMA LoadNext ==
  ASSUME Shape, Shape', LoadInv, [Next]_vars
  PROVE  LoadInv'
<1>0. SUFFICES ASSUME WellFormed(file)', file' = file PROVE LoadInv'
  <2>1. file' = file
    BY DEF Next, vars, fvars, Loads, Load, Open, Refuse, ReadHeader, ReadBlock, EndOfFile, ResolveType,
           Loaded, Run, Exits, TypeNotFound, ReadsNoAddress, DumpType, StartGenerating, StartIterating,
           SkipBlock, EnterBlock, FollowSegment, WriteBytes, DumpObj, BlockDone, EndIterating, Becomes,
           Generate, ConfigLine, ConfigEnds, GenerateType, GenerateStruct, DropConfig, Drop, DropBlock, DropDna, Frees
  <2> QED
    BY <2>1 DEF LoadInv
<1>1. WellFormed(file)
  BY <1>0 DEF WellFormed
<1>2. CASE Loads
  <2>1. CASE Open
    <3>1. pc = "open" /\ pc' = "header" /\ UNCHANGED <<file, offset, list, dna, node>>
      BY <1>1, <2>1 DEF Open, WellFormed
    <3> QED
      BY <1>1, <3>1 DEF LoadInv, Loading
  <2>2. CASE ReadHeader
    <3>1. pc = "header" /\ offset = 0 /\ list = << >>
      BY <1>1, <2>2 DEF ReadHeader, LoadInv
    <3>2. HeaderAccepted
      <4>1. PICK n \in Nat : n = Len(file.blocks)
        BY FileShape
      <4>2. file.size = Ends[n]
        BY <1>1, <4>1, BlockEnds DEF WellFormed
      <4>3. Ends[n] >= HeaderBytes
        <5>1. CASE n = 0
          BY <4>1, <5>1, BlockEnds DEF HeaderBytes
        <5>2. CASE n # 0
          <6>1. 1 \in 1 .. n
            BY <5>2
          <6>2. Ends[1 - 1] < Ends[n] /\ Ends[0] = HeaderBytes /\ Ends[n] \in Nat
            BY <4>1, <6>1, BlockEnds
          <6> QED
            BY <6>2 DEF HeaderBytes
        <5> QED
          BY <5>1, <5>2
      <4> QED
        BY <1>1, <3>1, <4>2, <4>3 DEF HeaderAccepted, CanRead, WellFormed, HeaderBytes
    <3>3. pc' = "blocks" /\ offset' = HeaderBytes /\ UNCHANGED <<file, list, dna, node>>
      BY <2>2, <3>2 DEF ReadHeader
    <3>4. Ends'[Len(list')] = HeaderBytes
      <4>1. Len(list) = 0 /\ Ends' = Ends
        BY <3>1, <3>3 DEF Ends
      <4> QED
        BY <3>3, <4>1, BlockEnds
    <3> QED
      BY <1>1, <3>1, <3>3, <3>4 DEF LoadInv, Loading
  <2>3. CASE ReadBlock
    BY <1>1, <2>3, LoadNextBlock
  <2>4. CASE EndOfFile
    <3>1. /\ pc = "blocks" /\ pc' = "types" /\ node' = 1 /\ UNCHANGED <<file, offset, list, dna>>
          /\ offset = file.size
      BY <2>4 DEF EndOfFile
    <3>2. PICK n \in Nat : n = Len(file.blocks)
      BY FileShape
    <3>3. Len(list) = n
      <4>1. file.size = Ends[n] /\ offset = Ends[Len(list)]
        BY <1>1, <3>1, <3>2, BlockEnds DEF WellFormed, LoadInv
      <4>2. Len(list) \in Nat /\ Len(list) <= n
        BY <3>2 DEF Shape
      <4> SUFFICES ASSUME Len(list) # n PROVE FALSE
        OBVIOUS
      <4>3. PICK k \in 1 .. n : k = Len(list) + 1
        BY <4>2
      <4>4. Ends[k - 1] < Ends[n] /\ k - 1 = Len(list) /\ Ends[n] \in Nat
        BY <3>2, <4>2, <4>3, BlockEnds
      <4> QED
        BY <3>1, <4>1, <4>4
    <3>4. dna # NoDna
      <4>1. PICK d : HasDnaAt(d)
        BY <1>1, WellFormedHasDna
      <4>2. d \in 1 .. Len(list) /\ file.blocks[d].code = "DNA1"
        BY <3>2, <3>3, <4>1 DEF HasDnaAt
      <4> QED
        BY <1>1, <4>2 DEF LoadInv
    <3>5. \A k \in DOMAIN list' : ~ (k < node')
      BY <3>1 DEF Shape
    <3> QED
      BY <3>1, <3>2, <3>3, <3>4, <3>5 DEF LoadInv, Loading
  <2>5. CASE ResolveType
    BY <1>1, <2>5, LoadNextType
  <2>6. CASE Loaded
    <3>1. pc = "types" /\ pc' = "run" /\ UNCHANGED <<file, offset, list, dna>> /\ node > Len(list)
      BY <2>6 DEF Loaded
    <3>2. \A k \in DOMAIN list : k < node
      BY <3>1 DEF Shape
    <3>3. /\ Len(list) = Len(file.blocks) /\ dna # NoDna
          /\ \A k \in DOMAIN list : TypeResolved(k)
      BY <1>1, <3>1, <3>2 DEF LoadInv, Loading
    <3>4. \A k : TypeResolved(k)' <=> TypeResolved(k)
      BY <3>1 DEF TypeResolved, Raw
    <3> QED
      BY <3>1, <3>3, <3>4 DEF LoadInv, Loading
  <2> QED
    BY <1>2, <2>1, <2>2, <2>3, <2>4, <2>5, <2>6 DEF Loads, Load
<1>3. CASE ~ Loads
  <2>1. UNCHANGED <<file, offset, list, dna>>
    <3>1. CASE UNCHANGED vars
      BY <3>1 DEF vars, fvars
    <3>2. CASE ~ UNCHANGED vars
      BY <1>3, <3>2, RunKeeps DEF Next, Keeps
    <3> QED
      BY <3>1, <3>2
  <2>2. \/ UNCHANGED <<pc, node>>
        \/ pc \notin Loading \cup {"types", "refused"} /\ pc' \notin Loading \cup {"types", "refused"}
    <3>1. CASE UNCHANGED vars
      BY <3>1 DEF vars, fvars
    <3>2. CASE Run
      BY <3>2, DumpEnds DEF Run, Exits, TypeNotFound, ReadsNoAddress, DumpType, StartGenerating,
           StartIterating, SkipBlock, EnterBlock, FollowSegment, EndIterating, Becomes, Loading
    <3>3. CASE Generate
      BY <3>3 DEF Generate, ConfigLine, ConfigEnds, GenerateType, GenerateStruct, DropConfig, TypeLine, FieldLine,
           SkipLine, Loading
    <3>4. CASE Drop
      BY <3>4 DEF Drop, DropBlock, DropDna, Loading
    <3> QED
      BY <1>3, <3>1, <3>2, <3>3, <3>4 DEF Next
  <2>3. Ends' = Ends
    BY <2>1 DEF Ends
  <2>4. ASSUME NEW k PROVE TypeResolved(k)' <=> TypeResolved(k)
    BY <2>1 DEF TypeResolved, Raw
  <2>5. CASE UNCHANGED <<pc, node>>
    BY <1>1, <2>1, <2>3, <2>4, <2>5 DEF LoadInv
  <2>6. CASE pc \notin Loading \cup {"types", "refused"} /\ pc' \notin Loading \cup {"types", "refused"}
    BY <1>1, <2>1, <2>3, <2>4, <2>6 DEF LoadInv, Loading
  <2> QED
    BY <2>2, <2>5, <2>6
<1> QED
  BY <1>2, <1>3

(* Every file that Blender writes is loaded, and every block of it gets    *)
(* the type of the struct it refers to, however many blocks and types it   *)
(* has and however long their names are.                                   *)
THEOREM WrittenLoads == Spec => []WellFormedLoads
<1> DEFINE Inv == Shape /\ LoadInv
<1>1. Init => Inv
  BY ShapeInit, LoadInit
<1>2. Inv /\ [Next]_vars => Inv'
  BY ShapeNext, LoadNext
<1>3. Inv => WellFormedLoads
  BY DEF LoadInv, Loading, WellFormedLoads, TypeResolved, Shape
<1> QED
  BY <1>1, <1>2, <1>3, PTL DEF Spec

-----------------------------------------------------------------------------
(* The fields of a DNA that Blender writes.                                *)

Dimensions == {d \in Seq(Nat \ {0}) : Len(d) <= MaxNestiness}

LEMMA Positive2 ==
  ASSUME NEW a \in Nat \ {0}, NEW b \in Nat \ {0}
  PROVE  a * b \in Nat \ {0}
OBVIOUS

LEMMA ElementsCount ==
  ASSUME NEW dims \in Dimensions
  PROVE  Elements(dims) \in Nat \ {0}
<1>1. dims \in Seq(Nat \ {0}) /\ Len(dims) \in Nat /\ Len(dims) <= 3
  BY DEF Dimensions, MaxNestiness
<1>0. \A i \in 1 .. Len(dims) : dims[i] \in Nat \ {0}
  BY <1>1
<1>2. CASE Len(dims) = 0
  BY <1>2 DEF Elements
<1>3. CASE Len(dims) = 1
  <2>1. dims[1] \in Nat \ {0}
    BY <1>0, <1>3
  <2> QED
    BY <1>3, <2>1 DEF Elements
<1>4. CASE Len(dims) = 2
  <2>1. dims[1] \in Nat \ {0} /\ dims[2] \in Nat \ {0}
    BY <1>0, <1>4
  <2>2. dims[1] * dims[2] \in Nat \ {0}
    BY <2>1, Positive2
  <2> QED
    BY <1>4, <2>2 DEF Elements
<1>5. CASE Len(dims) = 3
  <2>1. dims[1] \in Nat \ {0} /\ dims[2] \in Nat \ {0} /\ dims[3] \in Nat \ {0}
    BY <1>0, <1>5
  <2>2. dims[1] * dims[2] * dims[3] \in Nat \ {0}
    <3>1. dims[1] * dims[2] \in Nat \ {0}
      BY <2>1, Positive2
    <3> QED
      BY <2>1, <3>1, Positive2
  <2>3. Elements(dims) = dims[1] * dims[2] * dims[3]
    <3>1. Len(dims) # 0 /\ Len(dims) # 1 /\ Len(dims) # 2
      BY <1>5
    <3> QED
      BY <3>1, Zenon DEF Elements
  <2> QED
    BY <2>2, <2>3
<1>6. Len(dims) = 0 \/ Len(dims) = 1 \/ Len(dims) = 2 \/ Len(dims) = 3
  <2>1. PICK n \in Nat : n = Len(dims)
    BY <1>1
  <2>2. n <= 3
    BY <1>1, <2>1
  <2>3. n = 0 \/ n = 1 \/ n = 2 \/ n = 3
    BY <2>2
  <2> QED
    BY <2>1, <2>3
<1> QED
  BY <1>2, <1>3, <1>4, <1>5, <1>6

(* A field as the file has it: its name, and its type as parse_dna makes   *)
(* it of both.                                                             *)
FieldIs(image, field, raw, t) ==
  /\ raw = image.names[field.name + 1] /\ raw \in RawNames
  /\ field.type \in Nat /\ field.type + 1 \in DOMAIN image.types
  /\ image.types[field.type + 1].size \in Nat
  /\ t = FieldType(image, field)
  /\ t.inner = field.type /\ t.is_fn = raw.fn
  /\ t.ptr \in Nat /\ t.dims \in Dimensions
  /\ raw.fn => t.ptr = 0 /\ t.dims = << >>
  /\ ~ raw.fn => t.ptr = raw.stars /\ t.dims = raw.dims

LEMMA FieldHasType ==
  ASSUME NEW image \in Images, NEW len, WellFormedDna(image, len),
         NEW s \in DOMAIN image.structs, NEW f \in DOMAIN image.structs[s].fields
  PROVE  \E raw, t : FieldIs(image, image.structs[s].fields[f], raw, t)
<1>1. PICK field : field = image.structs[s].fields[f]
  OBVIOUS
<1>2. field \in [type : Nat, name : Nat]
  <2>1. image.structs \in Seq(RawStructs)
    BY DEF Images
  <2>2. image.structs[s] \in RawStructs
    BY <2>1
  <2>3. PICK fields : fields = image.structs[s].fields
    OBVIOUS
  <2>4. PICK S : S = [type : Nat, name : Nat]
    OBVIOUS
  <2>5. fields \in Seq(S)
    BY <2>2, <2>3, <2>4 DEF RawStructs
  <2>6. field = fields[f] /\ f \in DOMAIN fields
    BY <1>1, <2>3
  <2>7. field \in S
    BY <2>5, <2>6
  <2> QED
    BY <2>4, <2>7
<1>3. field.type \in Nat /\ field.name \in Nat
  BY <1>2
<1>4. field.type < Len(image.types) /\ field.name < Len(image.names)
  BY <1>1 DEF WellFormedDna
<1>5. image.names \in Seq(RawNames) /\ image.types \in Seq(RawTypes)
  BY DEF Images
<1>6. field.name + 1 \in DOMAIN image.names /\ field.type + 1 \in DOMAIN image.types
  BY <1>3, <1>4, <1>5
<1>7. PICK raw : raw = image.names[field.name + 1]
  OBVIOUS
<1>8. raw \in RawNames /\ image.types[field.type + 1] \in RawTypes
  BY <1>5, <1>6, <1>7
<1>9. image.types[field.type + 1].size \in Nat
  BY <1>8 DEF RawTypes
<1>10. raw.fn \in BOOLEAN /\ raw.stars \in Nat /\ raw.dims \in Seq(Nat \cup {Junk})
  BY <1>8 DEF RawNames
<1>11. raw.dims \in Dimensions
  <2>1. Len(raw.dims) <= MaxNestiness /\ Range(raw.dims) \subseteq Nat \ {0}
    BY <1>6, <1>7 DEF WellFormedDna
  <2>2. \A i \in DOMAIN raw.dims : raw.dims[i] \in Nat \ {0}
    <3> SUFFICES ASSUME NEW i \in DOMAIN raw.dims PROVE raw.dims[i] \in Nat \ {0}
      OBVIOUS
    <3>1. raw.dims[i] \in Range(raw.dims)
      BY DEF Range
    <3> QED
      BY <2>1, <3>1
  <2>3. raw.dims \in Seq(Nat \ {0})
    <3>1. Len(raw.dims) \in Nat /\ DOMAIN raw.dims = 1 .. Len(raw.dims)
      BY <1>10
    <3>2. \A i \in 1 .. Len(raw.dims) : raw.dims[i] \in Nat \ {0}
      BY <2>2, <3>1
    <3> QED
      BY <1>10, <3>1, <3>2
  <2> QED
    BY <2>1, <2>3 DEF Dimensions
<1>12. << >> \in Dimensions
  BY DEF Dimensions, MaxNestiness
<1>13. PICK t : t = FieldType(image, field)
  OBVIOUS
<1>14. t = [ inner |-> field.type, is_fn |-> ParseName(raw).is_fn, ptr |-> ParseName(raw).ptr,
             dims |-> ParseName(raw).dims ]
  BY <1>7, <1>13 DEF FieldType
<1>15. ASSUME raw.fn PROVE FieldIs(image, field, raw, t)
  <2>1. ParseName(raw) = [name |-> raw.ident, is_fn |-> TRUE, ptr |-> 0, dims |-> << >>]
    BY <1>15 DEF ParseName
  <2>2. t.inner = field.type /\ t.is_fn = TRUE /\ t.ptr = 0 /\ t.dims = << >>
    BY <1>14, <2>1
  <2>3. t.is_fn = raw.fn
    BY <1>10, <1>15, <2>2, Zenon
  <2>4. t.ptr \in Nat /\ t.dims \in Dimensions
    BY <1>12, <2>2
  <2> QED
    BY <1>3, <1>6, <1>7, <1>8, <1>9, <1>13, <1>15, <2>2, <2>3, <2>4, Zenon DEF FieldIs
<1>16. ASSUME ~ raw.fn PROVE FieldIs(image, field, raw, t)
  <2>1. ParseName(raw) = [name |-> raw.ident, is_fn |-> FALSE, ptr |-> raw.stars, dims |-> raw.dims]
    BY <1>16 DEF ParseName
  <2>2. t.inner = field.type /\ t.is_fn = FALSE /\ t.ptr = raw.stars /\ t.dims = raw.dims
    BY <1>14, <2>1
  <2>3. t.is_fn = raw.fn
    BY <1>10, <1>16, <2>2, Zenon
  <2>4. t.ptr \in Nat /\ t.dims \in Dimensions
    BY <1>10, <1>11, <2>2
  <2> QED
    BY <1>3, <1>6, <1>7, <1>8, <1>9, <1>13, <1>16, <2>2, <2>3, <2>4, Zenon DEF FieldIs
<1>17. FieldIs(image, field, raw, t)
  BY <1>15, <1>16
<1> QED
  BY <1>1, <1>17

(* It takes what Blender gives it, unless it is a pointer to a function:   *)
(* that takes what the function returns.                                   *)
LEMMA FieldTakes ==
  ASSUME NEW image, NEW field, NEW raw, NEW t, FieldIs(image, field, raw, t)
  PROVE  /\ SizeOf(image.types, t) \in Nat
         /\ WrittenSize(image, field) \in Nat
         /\ ~ t.is_fn => SizeOf(image.types, t) = WrittenSize(image, field)
         /\ t.is_fn => WrittenSize(image, field) = PtrSize
<1>1. PICK size \in Nat : size = image.types[t.inner + 1].size /\ size = image.types[field.type + 1].size
  BY DEF FieldIs
<1>2. SizeOf(image.types, t) = (IF t.ptr > 0 THEN PtrSize ELSE size) * Elements(t.dims)
  BY <1>1 DEF SizeOf
<1>3. PICK count \in Nat : count = Elements(t.dims)
  BY ElementsCount DEF FieldIs
<1>4. WrittenSize(image, field) = (IF raw.fn \/ raw.stars > 0 THEN PtrSize ELSE size)
                                    * Elements(IF raw.fn THEN << >> ELSE raw.dims)
  BY <1>1 DEF WrittenSize, FieldIs
<1>5. PtrSize \in Nat
  BY PtrSizeAssumption
<1>6. SizeOf(image.types, t) \in Nat
  <2>1. PICK one \in Nat : one = IF t.ptr > 0 THEN PtrSize ELSE size
    BY <1>5
  <2>2. one * count \in Nat
    OBVIOUS
  <2> QED
    BY <1>2, <1>3, <2>1, <2>2
<1>7. CASE raw.fn
  <2>1. Elements(<< >>) = 1
    BY DEF Elements
  <2>2. WrittenSize(image, field) = PtrSize
    BY <1>4, <1>5, <1>7, <2>1
  <2> QED
    BY <1>5, <1>6, <1>7, <2>2 DEF FieldIs
<1>8. CASE ~ raw.fn
  <2>1. t.ptr = raw.stars /\ t.dims = raw.dims
    BY <1>8 DEF FieldIs
  <2>2. WrittenSize(image, field) = SizeOf(image.types, t)
    BY <1>2, <1>4, <1>8, <2>1
  <2> QED
    BY <1>6, <1>8, <2>2 DEF FieldIs
<1> QED
  BY <1>7, <1>8

LEMMA FieldSizesAre ==
  ASSUME NEW image \in Images, NEW len, WellFormedDna(image, len), NEW s \in DOMAIN image.structs
  PROVE  LET def == image.structs[s]
         IN  /\ Len(def.fields) \in Nat /\ DOMAIN def.fields = 1 .. Len(def.fields)
             /\ Sizes(FieldSizes(image, def)) /\ Len(FieldSizes(image, def)) = Len(def.fields)
             /\ Sizes(WrittenSizes(image, def)) /\ Len(WrittenSizes(image, def)) = Len(def.fields)
             /\ \A f \in 1 .. Len(def.fields) :
                  /\ FieldSizes(image, def)[f] = SizeOf(image.types, FieldType(image, def.fields[f]))
                  /\ WrittenSizes(image, def)[f] = WrittenSize(image, def.fields[f])
<1>1. PICK def : def = image.structs[s]
  OBVIOUS
<1>2. def.fields \in Seq([type : Nat, name : Nat])
  <2>1. image.structs \in Seq(RawStructs)
    BY DEF Images
  <2>2. def \in RawStructs
    BY <1>1, <2>1
  <2> QED
    BY <2>2 DEF RawStructs
<1>3. PICK n \in Nat : n = Len(def.fields) /\ DOMAIN def.fields = 1 .. n
  BY <1>2
<1>4. ASSUME NEW f \in 1 .. n
      PROVE  /\ SizeOf(image.types, FieldType(image, def.fields[f])) \in Nat
             /\ WrittenSize(image, def.fields[f]) \in Nat
  <2>1. PICK raw, t : FieldIs(image, def.fields[f], raw, t)
    BY <1>1, <1>3, FieldHasType
  <2>2. t = FieldType(image, def.fields[f])
    BY <2>1 DEF FieldIs
  <2> QED
    BY <2>1, <2>2, FieldTakes
<1>5. PICK a, b : a = FieldSizes(image, def) /\ b = WrittenSizes(image, def)
  OBVIOUS
<1>6. /\ a \in [1 .. n -> Nat] /\ b \in [1 .. n -> Nat]
      /\ \A f \in 1 .. n : /\ a[f] = SizeOf(image.types, FieldType(image, def.fields[f]))
                           /\ b[f] = WrittenSize(image, def.fields[f])
  BY <1>3, <1>4, <1>5 DEF FieldSizes, WrittenSizes
<1>7. Len(a) = n /\ Len(b) = n
  BY <1>6, LenOfFunction
<1>8. Sizes(a) /\ Sizes(b)
  BY <1>6, <1>7 DEF Sizes
<1> QED
  BY <1>1, <1>3, <1>5, <1>6, <1>7, <1>8

LEMMA ParsedFields ==
  ASSUME NEW image \in Images, NEW s \in DOMAIN image.structs
  PROVE  LET fields == ParseDna(image).structs[s].fields
             def    == image.structs[s]
         IN  /\ DOMAIN fields = 1 .. Len(def.fields)
             /\ \A f \in 1 .. Len(def.fields) :
                  /\ fields[f].type = FieldType(image, def.fields[f])
                  /\ fields[f].offset = Offsets(0, FieldSizes(image, def))[f - 1]
<1>1. DOMAIN image.structs = 1 .. Len(image.structs)
  BY ParsedStructs
<1>2. PICK def, fields : def = image.structs[s] /\ fields = ParseDna(image).structs[s].fields
  OBVIOUS
<1>3. fields = Fields(image, def)
  BY <1>1, <1>2 DEF ParseDna
<1>4. /\ DOMAIN fields = 1 .. Len(def.fields)
      /\ \A f \in 1 .. Len(def.fields) :
           fields[f] = [ name   |-> ParseName(image.names[def.fields[f].name + 1]).name,
                         type   |-> FieldType(image, def.fields[f]),
                         offset |-> Offsets(0, FieldSizes(image, def))[f - 1] ]
  BY <1>3 DEF Fields
<1>5. ASSUME NEW f \in 1 .. Len(def.fields)
      PROVE  /\ fields[f].type = FieldType(image, def.fields[f])
             /\ fields[f].offset = Offsets(0, FieldSizes(image, def))[f - 1]
  <2>1. PICK name, type, place :
          /\ name = ParseName(image.names[def.fields[f].name + 1]).name
          /\ type = FieldType(image, def.fields[f])
          /\ place = Offsets(0, FieldSizes(image, def))[f - 1]
    OBVIOUS
  <2>2. fields[f] = [name |-> name, type |-> type, offset |-> place]
    BY <1>4, <2>1, Zenon
  <2>3. fields[f].type = type /\ fields[f].offset = place
    BY <2>2
  <2> QED
    BY <2>1, <2>3
<1> QED
  BY <1>2, <1>4, <1>5

(* The DNA of a loaded file that Blender wrote is that of its one DNA1.    *)
LEMMA DnaIsTheWritten ==
  ASSUME Shape, NEW d, HasDnaAt(d), dna # NoDna
  PROVE  dna = ParseDna(file.blocks[d].image)
<1>1. PICK e \in 1 .. Len(list) : TakenFrom(e)
  BY DEF Shape
<1>2. e \in 1 .. Len(file.blocks)
  BY FileShape DEF Shape
<1>3. e = d
  BY <1>1, <1>2 DEF HasDnaAt, TakenFrom
<1> QED
  BY <1>1, <1>3 DEF TakenFrom

LEMMA OffsetsAgree ==
  ASSUME Shape
  PROVE  OffsetsUpToFunctions
<1> SUFFICES ASSUME WellFormed(file), dna # NoDna,
                    NEW s \in DOMAIN dna.structs, NEW f \in DOMAIN dna.structs[s].fields,
                    ~ \E g \in 1 .. f - 1 : dna.structs[s].fields[g].type.is_fn
             PROVE  LET image == file.blocks[CHOOSE k \in DOMAIN file.blocks :
                                               file.blocks[k].code = "DNA1"].image
                    IN  dna.structs[s].fields[f].offset = WrittenOffset(image, image.structs[s], f)
  BY DEF OffsetsUpToFunctions
<1>1. PICK d : HasDnaAt(d)
  BY WellFormedHasDna
<1>2. (CHOOSE k \in DOMAIN file.blocks : file.blocks[k].code = "DNA1") = d
  BY <1>1, FileShape DEF HasDnaAt
<1>3. PICK image \in Images : image = file.blocks[d].image
  BY <1>1 DEF HasDnaAt
<1>4. dna = ParseDna(image)
  BY <1>1, <1>3, DnaIsTheWritten
<1>5. s \in DOMAIN image.structs
  BY <1>4, ParsedStructs
<1>6. WellFormedDna(image, file.blocks[d].len)
  BY <1>1, <1>3 DEF HasDnaAt
<1>7. PICK def : def = image.structs[s]
  OBVIOUS
<1>8. PICK a, b : a = FieldSizes(image, def) /\ b = WrittenSizes(image, def)
  OBVIOUS
<1>9. PICK n \in Nat : n = Len(def.fields)
  BY <1>5, <1>6, <1>7, FieldSizesAre
<1>10. /\ Sizes(a) /\ Len(a) = n /\ Sizes(b) /\ Len(b) = n
       /\ DOMAIN def.fields = 1 .. n
       /\ \A g \in 1 .. n : /\ a[g] = SizeOf(image.types, FieldType(image, def.fields[g]))
                            /\ b[g] = WrittenSize(image, def.fields[g])
  BY <1>5, <1>6, <1>7, <1>8, <1>9, FieldSizesAre
<1>11. /\ f \in 1 .. n
       /\ dna.structs[s].fields[f].offset = Offsets(0, a)[f - 1]
       /\ \A g \in 1 .. n : dna.structs[s].fields[g].type = FieldType(image, def.fields[g])
  BY <1>4, <1>5, <1>7, <1>8, <1>9, ParsedFields
<1>12. ASSUME NEW g \in 1 .. f - 1 PROVE a[g] = b[g] /\ a[g] \in Nat
  <2>1. g \in 1 .. n
    BY <1>11
  <2>2. PICK raw, t : FieldIs(image, def.fields[g], raw, t)
    BY <1>5, <1>6, <1>7, <1>10, <2>1, FieldHasType
  <2>3. t = dna.structs[s].fields[g].type /\ t = FieldType(image, def.fields[g])
    BY <1>11, <2>1, <2>2 DEF FieldIs
  <2>4. ~ t.is_fn
    BY <2>3
  <2> QED
    BY <1>10, <2>1, <2>2, <2>3, <2>4, FieldTakes
<1>13. PICK m \in Nat : m = f - 1 /\ m <= n
  BY <1>11
<1>14. Offsets(0, a)[m] = Offsets(0, b)[m]
  <2>1. \A g \in 1 .. m : a[g] <= b[g] /\ b[g] <= a[g]
    BY <1>12, <1>13
  <2>2. Offsets(0, a)[m] <= Offsets(0, b)[m]
    BY <1>10, <1>13, <2>1, OffsetsCompare
  <2>3. Offsets(0, b)[m] <= Offsets(0, a)[m]
    BY <1>10, <1>13, <2>1, OffsetsCompare
  <2>4. Offsets(0, a)[m] \in Nat /\ Offsets(0, b)[m] \in Nat
    <3>1. Offsets(0, a) \in [0 .. Len(a) -> Nat]
      BY <1>10, OffsetsAdd
    <3>2. Offsets(0, b) \in [0 .. Len(b) -> Nat]
      BY <1>10, OffsetsAdd
    <3>3. m \in 0 .. Len(a) /\ m \in 0 .. Len(b)
      BY <1>10, <1>13
    <3> QED
      BY <3>1, <3>2, <3>3
  <2> QED
    BY <2>2, <2>3, <2>4
<1> QED
  BY <1>2, <1>3, <1>7, <1>8, <1>11, <1>13, <1>14 DEF WrittenOffset

(* In every file that Blender writes, the offset that parse_dna adds up    *)
(* for a field is the one it has in Blender's memory, if no pointer to a   *)
(* function is before it.                                                  *)
THEOREM OffsetsAreBlenders == Spec => []OffsetsUpToFunctions
<1>1. Init => Shape
  BY ShapeInit
<1>2. Shape /\ [Next]_vars => Shape'
  BY ShapeNext
<1>3. Shape => OffsetsUpToFunctions
  BY OffsetsAgree
<1> QED
  BY <1>1, <1>2, <1>3, PTL DEF Spec

-----------------------------------------------------------------------------
(* The arrays of a Blend_Type_Qualifiers.                                  *)
Dims == {d \in Seq(Nat) : d # << >> /\ Len(d) <= MaxNestiness}

(* What fits by its number fits by its bytes.                              *)
LEMMA ElementEnds ==
  ASSUME NEW n \in Nat, NEW i \in Nat, i < n, NEW size \in Nat
  PROVE  /\ size * i \in Nat
         /\ size * i + size <= size * n
<1>1. size * i + size = size * (i + 1)  OBVIOUS
<1>2. ASSUME NEW x \in Nat, NEW y \in Nat, x <= y PROVE size * x <= size * y
  BY <1>2
<1> QED  BY <1>1, <1>2

(* An array is as many elements as its first length says.                  *)
LEMMA ElementsOfArray ==
  ASSUME NEW dims \in Dims
  PROVE  /\ dims[1] \in Nat
         /\ Elements(Tail(dims)) \in Nat
         /\ Elements(dims) = Elements(Tail(dims)) * dims[1]
<1>1. dims \in Seq(Nat) /\ Len(dims) \in Nat /\ dims # << >> /\ Len(dims) <= 3
  BY DEF Dims, MaxNestiness
<1>2. \A i \in 1 .. Len(dims) : dims[i] \in Nat
  BY <1>1
<1>3. PICK n \in Nat : n = Len(dims) /\ n # 0 /\ n <= 3
  BY <1>1
<1>4. n = 1 \/ n = 2 \/ n = 3
  BY <1>3
<1>5. PICK tail : tail = Tail(dims)
  OBVIOUS
<1>6. Len(tail) = n - 1 /\ \A i \in 1 .. n - 1 : tail[i] = dims[i + 1]
  BY <1>1, <1>3, <1>5
<1>7. CASE n = 1
  <2>1. Len(tail) = 0 /\ Len(dims) = 1 /\ dims[1] \in Nat
    BY <1>2, <1>3, <1>6, <1>7
  <2>2. Elements(tail) = 1 /\ Elements(dims) = dims[1]
    BY <2>1 DEF Elements
  <2> QED
    BY <1>5, <2>1, <2>2
<1>8. CASE n = 2
  <2>1. /\ Len(tail) = 1 /\ Len(dims) = 2
        /\ dims[1] \in Nat /\ dims[2] \in Nat /\ tail[1] = dims[2]
    BY <1>2, <1>3, <1>6, <1>8
  <2>2. Elements(tail) = dims[2] /\ Elements(dims) = dims[1] * dims[2]
    BY <2>1 DEF Elements
  <2> QED
    BY <1>5, <2>1, <2>2
<1>9. CASE n = 3
  <2>1. /\ Len(tail) = 2 /\ Len(dims) = 3
        /\ dims[1] \in Nat /\ dims[2] \in Nat /\ dims[3] \in Nat
        /\ tail[1] = dims[2] /\ tail[2] = dims[3]
    BY <1>2, <1>3, <1>6, <1>9
  <2>2. Elements(dims) = dims[1] * dims[2] * dims[3]
    <3>1. Len(dims) # 0 /\ Len(dims) # 1 /\ Len(dims) # 2
      BY <2>1
    <3> QED
      BY <3>1, Zenon DEF Elements
  <2>3. Elements(tail) = tail[1] * tail[2]
    <3>1. Len(tail) # 0 /\ Len(tail) # 1
      BY <2>1
    <3> QED
      BY <2>1, <3>1, Zenon DEF Elements
  <2>4. PICK a \in Nat, b \in Nat, c \in Nat : a = dims[1] /\ b = dims[2] /\ c = dims[3]
    BY <2>1
  <2>5. a * b * c = (b * c) * a /\ b * c \in Nat
    OBVIOUS
  <2> QED
    BY <1>5, <2>1, <2>2, <2>3, <2>4, <2>5
<1> QED
  BY <1>4, <1>7, <1>8, <1>9

(* Blend_Obj_index gives an element of the array or panics: for an array   *)
(* of any type, lengths and place, the element is among the array's bytes  *)
(* (lines 718-739).                                                        *)
THEOREM ElementLiesInArray ==
  ASSUME NEW block, NEW at \in Nat, NEW inner \in Nat, NEW ptr \in Nat,
         NEW dims \in Dims, NEW i \in Nat,
         inner + 1 \in DOMAIN dna.types, dna.types[inner + 1].size \in Nat,
         i < dims[1]
  PROVE  LET array == Obj(block, at, FullType(inner, ptr, dims))
         IN  LiesIn(IndexArray(array, i), array)
<1> DEFINE array   == Obj(block, at, FullType(inner, ptr, dims))
           element == ElementType(array.type)
           one     == IF ptr > 0 THEN PtrSize ELSE dna.types[inner + 1].size
           size    == one * Elements(Tail(dims))
<1>1. /\ dims[1] \in Nat /\ Elements(Tail(dims)) \in Nat
      /\ Elements(dims) = Elements(Tail(dims)) * dims[1]
  BY ElementsOfArray
<1>2. one \in Nat  BY PtrSizeAssumption
<1>3. size \in Nat  BY <1>1, <1>2
<1>4. /\ array.block = block /\ array.at = at /\ array.type.dims = dims
      /\ array.type.ptr = ptr /\ array.type.inner = inner
      /\ element.dims = Tail(dims) /\ element.ptr = ptr /\ element.inner = inner
  <2> DEFINE t == FullType(inner, ptr, dims)
  <2>1. array = [block |-> block, at |-> at, type |-> t]  BY DEF Obj
  <2>2. t = [inner |-> inner, is_fn |-> FALSE, ptr |-> ptr, dims |-> dims]  BY DEF FullType
  <2>3. element = [t EXCEPT !.dims = Tail(t.dims)]  BY <2>1 DEF ElementType
  <2> HIDE DEF t, array, element
  <2> QED  BY <2>1, <2>2, <2>3
<1>5. SizeOf(dna.types, element) = size
  BY <1>4 DEF SizeOf
<1>6. SizeOf(dna.types, array.type) = size * dims[1]
  <2>1. SizeOf(dna.types, array.type) = one * Elements(dims)  BY <1>4 DEF SizeOf
  <2>2. one * (Elements(Tail(dims)) * dims[1]) = size * dims[1]  BY <1>1, <1>2
  <2> QED  BY <2>1, <2>2, <1>1
<1>7. IndexArray(array, i) = Obj(block, at + size * i, element)
  BY <1>1, <1>4, <1>5 DEF IndexArray
<1>8. /\ IndexArray(array, i).block = block
      /\ IndexArray(array, i).at = at + size * i
      /\ IndexArray(array, i).type = element
  BY <1>7 DEF Obj
<1>9. size * i \in Nat /\ size * i + size <= size * dims[1]
  BY <1>1, <1>3, ElementEnds
<1>10. at <= at + size * i  BY <1>9
<1>11. (at + size * i) + size <= at + size * dims[1]
  <2>1. size * dims[1] \in Nat  BY <1>1, <1>3
  <2> HIDE DEF size
  <2> QED  BY <1>9, <1>3, <2>1
<1> QED  BY <1>4, <1>5, <1>6, <1>8, <1>10, <1>11 DEF LiesIn

-----------------------------------------------------------------------------
(* The types that the fields of a DNA have, and what is left of them on    *)
(* the way to a part.                                                      *)
FullTypes(count) ==
  {t \in [inner : {i \in Nat : i < count}, is_fn : BOOLEAN, ptr : Nat, dims : Dimensions] :
     t.is_fn => t.ptr = 0 /\ t.dims = << >>}

LEMMA ArrayDims ==
  ASSUME NEW dims \in Dimensions, dims # << >>
  PROVE  dims \in Dims /\ dims[1] \in Nat /\ Tail(dims) \in Dimensions
<1>1. dims \in Seq(Nat \ {0}) /\ Len(dims) \in Nat /\ Len(dims) <= 3
  BY DEF Dimensions, MaxNestiness
<1>2. PICK n \in Nat : n = Len(dims) /\ n # 0
  BY <1>1
<1>3. \A i \in 1 .. n : dims[i] \in Nat
  BY <1>1, <1>2
<1>4. dims \in Seq(Nat)
  BY <1>1, <1>2, <1>3
<1>5. Tail(dims) \in Seq(Nat \ {0}) /\ Len(Tail(dims)) = Len(dims) - 1
  BY <1>1, <1>2
<1>6. Tail(dims) \in Dimensions
  BY <1>1, <1>2, <1>5 DEF Dimensions, MaxNestiness
<1> QED
  BY <1>1, <1>2, <1>3, <1>4, <1>6 DEF Dims, MaxNestiness

(* What such a type takes.                                                 *)
LEMMA SizeOfType ==
  ASSUME NEW table, Len(table) \in Nat, \A k \in 1 .. Len(table) : table[k].size \in Nat,
         NEW t \in FullTypes(Len(table))
  PROVE  /\ SizeOf(table, t) \in Nat
         /\ t.ptr > 0 => PtrSize <= SizeOf(table, t)
         /\ t.ptr = 0 /\ t.dims = << >> => SizeOf(table, t) = table[t.inner + 1].size
<1>1. t.inner \in Nat /\ t.inner < Len(table) /\ t.ptr \in Nat /\ t.dims \in Dimensions
  BY DEF FullTypes
<1>2. PICK size \in Nat : size = table[t.inner + 1].size
  BY <1>1
<1>3. PICK count \in Nat \ {0} : count = Elements(t.dims)
  BY <1>1, ElementsCount
<1>4. SizeOf(table, t) = (IF t.ptr > 0 THEN PtrSize ELSE size) * count
  BY <1>2, <1>3 DEF SizeOf
<1>5. PICK ptrSize \in Nat : ptrSize = PtrSize
  BY PtrSizeAssumption
<1>6. size * count \in Nat /\ ptrSize * count \in Nat
  OBVIOUS
<1>7. ptrSize <= ptrSize * count
  <2>1. PICK c \in Nat : count = c + 1
    <3>1. count - 1 \in Nat /\ count = (count - 1) + 1
      BY <1>3
    <3> QED
      BY <3>1
  <2>2. ptrSize * (c + 1) = ptrSize * c + ptrSize /\ ptrSize * c \in Nat
    OBVIOUS
  <2> QED
    BY <2>1, <2>2
<1>8. t.dims = << >> => count = 1
  BY <1>3 DEF Elements
<1>9. t.ptr = 0 => ~ (t.ptr > 0)
  OBVIOUS
<1>10. CASE t.ptr > 0
  BY <1>4, <1>5, <1>6, <1>7, <1>9, <1>10
<1>11. CASE ~ (t.ptr > 0)
  BY <1>2, <1>4, <1>6, <1>8, <1>11
<1> QED
  BY <1>10, <1>11

(* A parsed DNA has the types of the image.                                *)
LEMMA ParsedTypes ==
  ASSUME NEW image \in Images
  PROVE  LET table == ParseDna(image).types
         IN  /\ Len(table) = Len(image.types) /\ Len(table) \in Nat
             /\ DOMAIN table = 1 .. Len(table)
             /\ \A k \in 1 .. Len(table) : /\ table[k].size = image.types[k].size
                                           /\ table[k].size \in Nat
<1>1. image.types \in Seq(RawTypes)
  BY DEF Images
<1>2. PICK n \in Nat : n = Len(image.types)
  BY <1>1
<1>3. PICK table : table = [k \in 1 .. n |-> [name |-> image.types[k].name, size |-> image.types[k].size]]
  OBVIOUS
<1>4. ParseDna(image).types = table
  BY <1>2, <1>3 DEF ParseDna
<1>5. \E S : table \in [1 .. n -> S]
  <2>1. table \in [1 .. n -> {table[k] : k \in 1 .. n}]
    BY <1>3
  <2> QED
    BY <2>1
<1>6. Len(table) = n /\ DOMAIN table = 1 .. n
  BY <1>5, LenOfFunction
<1>7. ASSUME NEW k \in 1 .. n
      PROVE  table[k].size = image.types[k].size /\ table[k].size \in Nat
  <2>1. image.types[k] \in RawTypes
    BY <1>1, <1>2
  <2>2. image.types[k].size \in Nat
    BY <2>1 DEF RawTypes
  <2> QED
    BY <1>3, <2>2
<1> QED
  BY <1>2, <1>4, <1>6, <1>7

(* A type is as long in the DNA as in the image.                           *)
LEMMA SameSize ==
  ASSUME NEW image \in Images, NEW t, t.inner \in Nat, t.inner < Len(image.types)
  PROVE  SizeOf(ParseDna(image).types, t) = SizeOf(image.types, t)
<1>1. ParseDna(image).types[t.inner + 1].size = image.types[t.inner + 1].size
  <2>1. t.inner + 1 \in 1 .. Len(image.types)
    <3>1. Len(image.types) \in Nat
      BY ParsedTypes
    <3> QED
      BY <3>1
  <2> QED
    BY <2>1, ParsedTypes
<1> QED
  BY <1>1 DEF SizeOf

(* The last struct of a type is there if any is.                           *)
LEMMA LastStruct ==
  ASSUME NEW d, NEW n \in Nat, DOMAIN d.structs = 1 .. n, NEW type, IsStruct(d, type)
  PROVE  \E s \in 1 .. n : d.structs[s].type = type /\ FieldsOf(d, type) = d.structs[s].fields
<1> DEFINE T == {m \in Nat : m <= n /\ n - m \in 1 .. n /\ d.structs[n - m].type = type}
           LastOne(s) == /\ d.structs[s].type = type
                        /\ \A r \in DOMAIN d.structs : d.structs[r].type = type => r <= s
<1>1. PICK s \in 1 .. n : d.structs[s].type = type
  BY DEF IsStruct
<1>2. n - s \in T
  <2>1. n - (n - s) = s /\ n - s \in Nat /\ n - s <= n
    OBVIOUS
  <2> QED
    BY <1>1, <2>1
<1>3. PICK x \in T : \A y \in T : x <= y
  <2>1. T \in SUBSET Nat /\ T # {}
    BY <1>2
  <2> HIDE DEF T
  <2> QED
    BY <2>1, LeastElement
<1>4. PICK last \in 1 .. n : last = n - x
  BY <1>3
<1>5. d.structs[last].type = type
  BY <1>3, <1>4
<1>6. ASSUME NEW r \in 1 .. n, d.structs[r].type = type
      PROVE  r <= last
  <2>1. n - r \in T
    <3>1. n - (n - r) = r /\ n - r \in Nat /\ n - r <= n
      OBVIOUS
    <3> QED
      BY <1>6, <3>1
  <2>2. x <= n - r /\ x \in Nat
    BY <1>3, <2>1
  <2> QED
    BY <1>4, <2>2
<1>7. last \in DOMAIN d.structs /\ LastOne(last)
  BY <1>5, <1>6
<1>8. PICK c : c = CHOOSE s2 \in DOMAIN d.structs : LastOne(s2)
  OBVIOUS
<1>9. c \in DOMAIN d.structs /\ LastOne(c)
  <2> HIDE DEF LastOne
  <2> QED
    BY <1>7, <1>8
<1>10. FieldsOf(d, type) = d.structs[c].fields
  BY <1>8 DEF FieldsOf
<1> QED
  BY <1>9, <1>10

(* A field is of a type of the DNA, and within its struct if the values    *)
(* that pointers to functions are taken for are.                           *)
FieldFits(d, s, f) ==
  LET field == d.structs[s].fields[f]
  IN  /\ field.type \in FullTypes(Len(d.types))
      /\ field.offset \in Nat
      /\ (\A g \in DOMAIN d.structs[s].fields :
            d.structs[s].fields[g].type.is_fn => SizeOf(d.types, d.structs[s].fields[g].type) <= PtrSize)
         => field.offset + SizeOf(d.types, field.type) <= d.types[d.structs[s].type + 1].size

LEMMA FieldsFit ==
  ASSUME NEW image \in Images, NEW len, WellFormedDna(image, len),
         NEW s \in DOMAIN image.structs, NEW f \in DOMAIN ParseDna(image).structs[s].fields
  PROVE  FieldFits(ParseDna(image), s, f)
<1>1. PICK d, fields, def : /\ d = ParseDna(image) /\ fields = d.structs[s].fields
                            /\ def = image.structs[s]
  OBVIOUS
<1>2. PICK a, b : a = FieldSizes(image, def) /\ b = WrittenSizes(image, def)
  OBVIOUS
<1>3. PICK n \in Nat : n = Len(def.fields)
  BY <1>1, FieldSizesAre
<1>4. /\ Sizes(a) /\ Len(a) = n /\ Sizes(b) /\ Len(b) = n
      /\ DOMAIN def.fields = 1 .. n
      /\ \A g \in 1 .. n : /\ a[g] = SizeOf(image.types, FieldType(image, def.fields[g]))
                           /\ b[g] = WrittenSize(image, def.fields[g])
  BY <1>1, <1>2, <1>3, FieldSizesAre
<1>5. /\ DOMAIN fields = 1 .. n /\ f \in 1 .. n
      /\ \A g \in 1 .. n : /\ fields[g].type = FieldType(image, def.fields[g])
                           /\ fields[g].offset = Offsets(0, a)[g - 1]
  BY <1>1, <1>2, <1>3, ParsedFields
<1>6. ASSUME NEW g \in 1 .. n
      PROVE  /\ fields[g].type \in FullTypes(Len(d.types))
             /\ SizeOf(d.types, fields[g].type) = a[g]
             /\ ~ fields[g].type.is_fn => a[g] = b[g]
             /\ fields[g].type.is_fn => b[g] = PtrSize
  <2>1. PICK raw, t : FieldIs(image, def.fields[g], raw, t)
    BY <1>1, <1>4, FieldHasType
  <2>2. t = fields[g].type /\ t = FieldType(image, def.fields[g])
    BY <1>5, <2>1 DEF FieldIs
  <2>3. t.inner \in Nat /\ t.inner < Len(image.types)
    <3>1. image.types \in Seq(RawTypes)
      BY DEF Images
    <3>2. t.inner \in Nat /\ t.inner + 1 \in DOMAIN image.types
      BY <2>1 DEF FieldIs
    <3> QED
      BY <3>1, <3>2
  <2>4. Len(d.types) = Len(image.types)
    BY <1>1, ParsedTypes
  <2>5. t \in FullTypes(Len(d.types))
    <3>1. PICK inner, is_fn, ptr, dims : t = [inner |-> inner, is_fn |-> is_fn, ptr |-> ptr, dims |-> dims]
      BY <2>2 DEF FieldType
    <3>2. t.inner = inner /\ t.is_fn = is_fn /\ t.ptr = ptr /\ t.dims = dims
      BY <3>1
    <3>3. raw.fn \in BOOLEAN
      BY <2>1 DEF FieldIs, RawNames
    <3>4. is_fn \in BOOLEAN /\ is_fn = raw.fn
      <4>1. t.is_fn = raw.fn
        BY <2>1 DEF FieldIs
      <4> QED
        BY <3>2, <3>3, <4>1, Zenon
    <3>5. ptr \in Nat /\ dims \in Dimensions /\ (raw.fn => ptr = 0 /\ dims = << >>)
      <4>1. t.ptr \in Nat /\ t.dims \in Dimensions
        BY <2>1 DEF FieldIs
      <4>2. raw.fn => t.ptr = 0 /\ t.dims = << >>
        BY <2>1 DEF FieldIs
      <4> QED
        BY <3>2, <4>1, <4>2
    <3>6. inner \in {i \in Nat : i < Len(d.types)}
      BY <2>3, <2>4, <3>2
    <3>7. t.is_fn => t.ptr = 0 /\ t.dims = << >>
      <4>1. t.is_fn = raw.fn
        BY <2>1 DEF FieldIs
      <4> QED
        BY <3>2, <3>5, <4>1, Zenon
    <3>8. t \in [inner : {i \in Nat : i < Len(d.types)}, is_fn : BOOLEAN, ptr : Nat, dims : Dimensions]
      BY <3>1, <3>4, <3>5, <3>6
    <3> QED
      BY <3>7, <3>8 DEF FullTypes
  <2>6. SizeOf(d.types, t) = a[g]
    BY <1>1, <1>4, <2>2, <2>3, SameSize
  <2>7. /\ ~ t.is_fn => SizeOf(image.types, t) = WrittenSize(image, def.fields[g])
        /\ t.is_fn => WrittenSize(image, def.fields[g]) = PtrSize
    BY <2>1, FieldTakes
  <2> QED
    BY <1>4, <2>2, <2>5, <2>6, <2>7
<1>7. fields[f].offset = Offsets(0, a)[f - 1] /\ fields[f].offset \in Nat
  <2>1. Offsets(0, a) \in [0 .. Len(a) -> Nat]
    BY <1>4, OffsetsAdd
  <2>2. f - 1 \in 0 .. Len(a)
    BY <1>4, <1>5
  <2> QED
    BY <1>5, <2>1, <2>2
<1>8. ASSUME \A g \in DOMAIN fields : fields[g].type.is_fn => SizeOf(d.types, fields[g].type) <= PtrSize
      PROVE  fields[f].offset + SizeOf(d.types, fields[f].type) <= d.types[d.structs[s].type + 1].size
  <2>1. \A g \in 1 .. n : a[g] <= b[g]
    <3> SUFFICES ASSUME NEW g \in 1 .. n PROVE a[g] <= b[g]
      OBVIOUS
    <3>1. CASE fields[g].type.is_fn
      BY <1>5, <1>6, <1>8, <3>1
    <3>2. CASE ~ fields[g].type.is_fn
      <4>1. b[g] \in Nat
        BY <1>4 DEF Sizes
      <4> QED
        BY <1>6, <3>2, <4>1
    <3> QED
      BY <3>1, <3>2
  <2>2. /\ Offsets(0, a)[f] = Offsets(0, a)[f - 1] + a[f]
        /\ Offsets(0, a) \in [0 .. Len(a) -> Nat] /\ Offsets(0, b) \in [0 .. Len(b) -> Nat]
    BY <1>4, <1>5, OffsetsAdd
  <2>3. Offsets(0, a)[f] <= Offsets(0, b)[f]
    <3>1. \A g \in 1 .. f : a[g] <= b[g]
      BY <1>5, <2>1
    <3>2. f \in Nat /\ f <= Len(a) /\ f <= Len(b)
      BY <1>4, <1>5
    <3> QED
      BY <1>4, <3>1, <3>2, OffsetsCompare
  <2>4. Offsets(0, b)[f] <= Offsets(0, b)[n]
    <3>1. f \in 0 .. Len(b) /\ n \in f .. Len(b)
      BY <1>4, <1>5
    <3> QED
      BY <1>4, <3>1, OffsetsGrow
  <2>5. Offsets(0, b)[n] = image.types[def.type + 1].size
    <3>1. image.types[def.type + 1].size = WrittenOffset(image, def, n + 1)
      BY <1>1, <1>3 DEF WellFormedDna
    <3>2. n + 1 - 1 = n
      OBVIOUS
    <3> QED
      BY <1>2, <3>1, <3>2 DEF WrittenOffset
  <2>6. d.structs[s].type = def.type /\ def.type \in Nat /\ def.type < Len(image.types)
    <3>1. d.structs[s].type = def.type /\ def.type \in Nat
      BY <1>1, ParsedStructs
    <3>2. def.type < Len(image.types)
      BY <1>1 DEF WellFormedDna
    <3> QED
      BY <3>1, <3>2
  <2>7. d.types[def.type + 1].size = image.types[def.type + 1].size
    <3>1. def.type + 1 \in 1 .. Len(image.types) /\ Len(d.types) = Len(image.types)
      <4>1. Len(d.types) = Len(image.types) /\ Len(d.types) \in Nat
        BY <1>1, ParsedTypes
      <4> QED
        BY <2>6, <4>1
    <3> QED
      BY <1>1, <3>1, ParsedTypes
  <2>8. PICK x \in Nat, y \in Nat, z \in Nat, w \in Nat :
          x = Offsets(0, a)[f - 1] /\ y = Offsets(0, a)[f] /\ z = Offsets(0, b)[f] /\ w = Offsets(0, b)[n]
    <3>1. f - 1 \in 0 .. Len(a) /\ f \in 0 .. Len(a) /\ f \in 0 .. Len(b) /\ n \in 0 .. Len(b)
      BY <1>4, <1>5
    <3> QED
      BY <2>2, <3>1
  <2>9. x + a[f] <= w
    BY <2>2, <2>3, <2>4, <2>8
  <2> QED
    BY <1>5, <1>6, <1>7, <2>5, <2>6, <2>7, <2>8, <2>9
<1> QED
  <2>1. fields[f].type \in FullTypes(Len(d.types))
    BY <1>5, <1>6
  <2> QED
    BY <1>1, <1>7, <1>8, <2>1 DEF FieldFits

-----------------------------------------------------------------------------
(* A path.                                                                 *)

(* The DNA is that of an image Blender wrote.                              *)
WrittenDna(image) ==
  /\ image \in Images
  /\ \E len : WellFormedDna(image, len)
  /\ dna = ParseDna(image)
  /\ \A k \in 1 .. Len(file.blocks) : file.blocks[k].sdna < Len(image.structs)

LEMMA LoadedIsWritten ==
  ASSUME Shape, WellFormed(file), dna # NoDna
  PROVE  \E image : WrittenDna(image)
<1>1. PICK d : HasDnaAt(d)
  BY WellFormedHasDna
<1>2. dna = ParseDna(file.blocks[d].image)
  BY <1>1, DnaIsTheWritten
<1> QED
  BY <1>1, <1>2 DEF HasDnaAt, WrittenDna

(* Where a path may be.                                                    *)
Place(o) ==
  /\ o = Obj(o.block, o.at, o.type)
  /\ o.at \in Nat
  /\ o.type \in FullTypes(Len(dna.types))

LEMMA PlaceOf ==
  ASSUME NEW block, NEW at \in Nat, NEW type \in FullTypes(Len(dna.types)), NEW o,
         o = Obj(block, at, type)
  PROVE  Place(o) /\ o.block = block /\ o.at = at /\ o.type = type
<1>1. o.block = block /\ o.at = at /\ o.type = type
  BY DEF Obj
<1> QED
  BY <1>1 DEF Place

LEMMA DnaTypes ==
  ASSUME NEW image, WrittenDna(image)
  PROVE  /\ Len(dna.types) \in Nat /\ DOMAIN dna.types = 1 .. Len(dna.types)
         /\ \A k \in 1 .. Len(dna.types) : dna.types[k].size \in Nat
BY ParsedTypes DEF WrittenDna

(* A field of an object.                                                   *)
LEMMA FieldOfPlace ==
  ASSUME NEW image, WrittenDna(image), NEW o, Place(o), IsStruct(dna, o.type.inner),
         NEW f \in DOMAIN FieldsOf(dna, o.type.inner)
  PROVE  LET field == FieldsOf(dna, o.type.inner)[f]
             part  == Obj(o.block, o.at + field.offset, field.type)
         IN  /\ Place(part)
             /\ FunctionsAreSmall /\ o.type.ptr = 0 /\ o.type.dims = << >> => LiesIn(part, o)
<1>1. PICK len : image \in Images /\ WellFormedDna(image, len) /\ dna = ParseDna(image)
  BY DEF WrittenDna
<1>2. PICK n \in Nat : n = Len(image.structs) /\ DOMAIN dna.structs = 1 .. n /\ DOMAIN image.structs = 1 .. n
  BY <1>1, ParsedStructs
<1>3. PICK s \in 1 .. n : /\ dna.structs[s].type = o.type.inner
                          /\ FieldsOf(dna, o.type.inner) = dna.structs[s].fields
  <2>1. PICK type : type = o.type.inner
    OBVIOUS
  <2>2. IsStruct(dna, type)
    BY <2>1
  <2>3. \E s \in 1 .. n : dna.structs[s].type = type /\ FieldsOf(dna, type) = dna.structs[s].fields
    BY <1>2, <2>2, LastStruct
  <2> QED
    BY <2>1, <2>3
<1>4. PICK field, part : /\ field = dna.structs[s].fields[f]
                         /\ part = Obj(o.block, o.at + field.offset, field.type)
  OBVIOUS
<1>5. f \in DOMAIN dna.structs[s].fields
  BY <1>3
<1>6. FieldFits(dna, s, f)
  BY <1>1, <1>2, <1>5, FieldsFit
<1>7. field.type \in FullTypes(Len(dna.types)) /\ field.offset \in Nat
  BY <1>4, <1>6 DEF FieldFits
<1>8. o.at + field.offset \in Nat
  BY <1>7 DEF Place
<1>9. Place(part) /\ part.block = o.block /\ part.at = o.at + field.offset /\ part.type = field.type
  BY <1>4, <1>7, <1>8, PlaceOf
<1>10. ASSUME FunctionsAreSmall, o.type.ptr = 0, o.type.dims = << >>
       PROVE  LiesIn(part, o)
  <2>1. \A g \in DOMAIN dna.structs[s].fields :
          dna.structs[s].fields[g].type.is_fn => SizeOf(dna.types, dna.structs[s].fields[g].type) <= PtrSize
    BY <1>2, <1>10 DEF FunctionsAreSmall
  <2>2. field.offset + SizeOf(dna.types, field.type) <= dna.types[dna.structs[s].type + 1].size
    BY <1>4, <1>6, <2>1 DEF FieldFits
  <2>3. SizeOf(dna.types, o.type) = dna.types[o.type.inner + 1].size /\ SizeOf(dna.types, o.type) \in Nat
    BY <1>10, DnaTypes, SizeOfType DEF Place
  <2>4. SizeOf(dna.types, field.type) \in Nat
    BY <1>7, DnaTypes, SizeOfType
  <2>5. PICK x \in Nat, y \in Nat, z \in Nat : /\ x = field.offset /\ y = SizeOf(dna.types, field.type)
                                               /\ z = SizeOf(dna.types, o.type)
    BY <1>7, <2>3, <2>4
  <2>6. x + y <= z /\ o.at \in Nat
    BY <1>3, <2>2, <2>3, <2>5 DEF Place
  <2>7. o.at <= o.at + x /\ (o.at + x) + y <= o.at + z
    BY <2>6
  <2> QED
    BY <1>9, <2>5, <2>7 DEF LiesIn
<1> QED
  BY <1>3, <1>4, <1>9, <1>10

LEMMA NamedPart ==
  ASSUME NEW image, WrittenDna(image), NEW o, Place(o), NEW name, Named(o, name) # NoObj
  PROVE  /\ Place(Named(o, name))
         /\ FunctionsAreSmall => LiesIn(Named(o, name), o)
<1> DEFINE fields == FieldsOf(dna, o.type.inner)
           found  == {f \in DOMAIN fields : fields[f].name = name}
           first  == CHOOSE f \in found : \A g \in found : f <= g
<1>1. /\ o.type.dims = << >> /\ ~ (o.type.ptr > 0) /\ IsStruct(dna, o.type.inner) /\ found # {}
      /\ Named(o, name) = Obj(o.block, o.at + fields[first].offset, fields[first].type)
  BY DEF Named
<1>2. o.type.ptr = 0
  <2>1. PICK ptr : ptr = o.type.ptr
    OBVIOUS
  <2>2. ptr \in Nat
    <3>1. PICK t : t = o.type /\ t \in FullTypes(Len(dna.types))
      BY DEF Place
    <3>2. t.ptr \in Nat
      BY <3>1 DEF FullTypes
    <3> QED
      BY <2>1, <3>1, <3>2
  <2>3. ~ (ptr > 0)
    BY <1>1, <2>1
  <2> QED
    BY <2>1, <2>2, <2>3
<1>3. PICK n \in Nat : DOMAIN fields = 1 .. n
  <2>1. PICK len : image \in Images /\ WellFormedDna(image, len) /\ dna = ParseDna(image)
    BY DEF WrittenDna
  <2>2. PICK m \in Nat : DOMAIN dna.structs = 1 .. m /\ DOMAIN image.structs = 1 .. m
    BY <2>1, ParsedStructs
  <2>3. PICK s \in 1 .. m : fields = dna.structs[s].fields
    <3>1. PICK type : type = o.type.inner
      OBVIOUS
    <3>2. IsStruct(dna, type)
      BY <1>1, <3>1
    <3>3. \E s \in 1 .. m : dna.structs[s].type = type /\ FieldsOf(dna, type) = dna.structs[s].fields
      BY <2>2, <3>2, LastStruct
    <3> QED
      BY <3>1, <3>3
  <2>4. DOMAIN fields = 1 .. Len(image.structs[s].fields)
    BY <2>1, <2>2, <2>3, ParsedFields
  <2>5. Len(image.structs[s].fields) \in Nat
    BY <2>1, <2>2, FieldSizesAre
  <2> QED
    BY <2>4, <2>5
<1>4. first \in found
  <2>1. found \in SUBSET Nat /\ found # {}
    <3>1. \A f \in found : f \in 1 .. n
      <4> HIDE DEF fields
      <4> QED
        BY <1>3
    <3>2. \A f \in found : f \in Nat
      BY <3>1
    <3> QED
      BY <1>1, <3>2
  <2> HIDE DEF found
  <2>2. \E f \in found : \A g \in found : f <= g
    BY <2>1, LeastElement
  <2> QED
    BY <2>2
<1>5. first \in DOMAIN fields
  BY <1>4
<1> HIDE DEF first
<1> QED
  BY <1>1, <1>2, <1>5, FieldOfPlace

(* An element of an array.                                                 *)
LEMMA ElementPart ==
  ASSUME NEW image, WrittenDna(image), NEW o, Place(o), o.type.dims # << >>, NEW i \in Nat,
         IndexArray(o, i) # NoObj
  PROVE  Place(IndexArray(o, i)) /\ LiesIn(IndexArray(o, i), o)
<1>1. PICK t : t = o.type
  OBVIOUS
<1>2. /\ t \in [inner : {k \in Nat : k < Len(dna.types)}, is_fn : BOOLEAN, ptr : Nat, dims : Dimensions]
      /\ t.is_fn => t.ptr = 0 /\ t.dims = << >>
      /\ o.at \in Nat
  BY <1>1 DEF Place, FullTypes
<1>3. t.inner \in Nat /\ t.inner < Len(dna.types) /\ t.ptr \in Nat /\ t.dims \in Dimensions /\ t.is_fn \in BOOLEAN
  BY <1>2
<1>4. t.is_fn = FALSE
  BY <1>1, <1>2, <1>3
<1>5. t = FullType(t.inner, t.ptr, t.dims)
  BY <1>2, <1>4 DEF FullType
<1>6. /\ ~ (i >= t.dims[1])
      /\ IndexArray(o, i) = Obj(o.block, o.at + SizeOf(dna.types, ElementType(t)) * i, ElementType(t))
  BY <1>1 DEF IndexArray
<1>7. t.dims \in Dims /\ t.dims[1] \in Nat /\ Tail(t.dims) \in Dimensions
  BY <1>1, <1>3, ArrayDims
<1>8. ElementType(t) \in FullTypes(Len(dna.types))
  <2>1. PICK tail : tail = Tail(t.dims)
    OBVIOUS
  <2>2. ElementType(t) = [t EXCEPT !.dims = tail]
    BY <2>1 DEF ElementType
  <2>3. /\ ElementType(t) \in [inner : {k \in Nat : k < Len(dna.types)}, is_fn : BOOLEAN, ptr : Nat, dims : Dimensions]
        /\ ElementType(t).is_fn = t.is_fn
    BY <1>2, <1>7, <2>1, <2>2
  <2> QED
    BY <1>4, <2>3 DEF FullTypes
<1>9. o.at + SizeOf(dna.types, ElementType(t)) * i \in Nat
  <2>1. PICK size \in Nat : size = SizeOf(dna.types, ElementType(t))
    BY <1>8, DnaTypes, SizeOfType
  <2>2. size * i \in Nat
    OBVIOUS
  <2> QED
    BY <1>2, <2>1, <2>2
<1>10. Place(IndexArray(o, i))
  BY <1>6, <1>8, <1>9, PlaceOf
<1>11. LiesIn(IndexArray(o, i), o)
  <2>0. PICK block : block = o.block
    OBVIOUS
  <2>1. PICK at \in Nat, inner \in Nat, ptr \in Nat, dims \in Dims :
          at = o.at /\ inner = t.inner /\ ptr = t.ptr /\ dims = t.dims
    BY <1>2, <1>3, <1>7
  <2>2. o = Obj(block, at, FullType(inner, ptr, dims))
    BY <1>1, <1>5, <2>0, <2>1 DEF Place
  <2>3. inner + 1 \in DOMAIN dna.types /\ dna.types[inner + 1].size \in Nat
    BY <1>3, <2>1, DnaTypes
  <2>4. i < dims[1]
    BY <1>6, <1>7, <2>1
  <2> QED
    BY <2>2, <2>3, <2>4, ElementLiesInArray
<1> QED
  BY <1>10, <1>11

(* What a pointer points to.                                               *)
LEMMA PointedPart ==
  ASSUME NEW image, WrittenDna(image), NEW o, Place(o), o.type.ptr # 0, NEW block, NEW i \in Nat
  PROVE  /\ Place(Obj(block, SizeOf(dna.types, PointedType(o.type)) * i, PointedType(o.type)))
         /\ Place(Obj(block, 0, PointedType(o.type)))
<1>1. PICK t : t = o.type
  OBVIOUS
<1>2. /\ t \in [inner : {k \in Nat : k < Len(dna.types)}, is_fn : BOOLEAN, ptr : Nat, dims : Dimensions]
      /\ t.is_fn => t.ptr = 0 /\ t.dims = << >>
  BY <1>1 DEF Place, FullTypes
<1>3. t.ptr \in Nat /\ t.is_fn \in BOOLEAN /\ t.ptr - 1 \in Nat /\ ~ t.is_fn
  BY <1>1, <1>2
<1>4. PointedType(t) \in FullTypes(Len(dna.types))
  <2>1. PICK less \in Nat : less = t.ptr - 1
    BY <1>3
  <2>2. PointedType(t) = [t EXCEPT !.ptr = less]
    BY <2>1 DEF PointedType
  <2>3. /\ PointedType(t) \in [inner : {k \in Nat : k < Len(dna.types)}, is_fn : BOOLEAN, ptr : Nat, dims : Dimensions]
        /\ PointedType(t).is_fn = t.is_fn
    BY <1>2, <2>2
  <2> QED
    BY <1>3, <2>3 DEF FullTypes
<1>5. PICK size \in Nat : size = SizeOf(dna.types, PointedType(t))
  BY <1>4, DnaTypes, SizeOfType
<1>6. size * i \in Nat
  OBVIOUS
<1> QED
  BY <1>1, <1>4, <1>5, <1>6, PlaceOf

(* Blend_Obj_get_field: a part of the object, or what a pointer leads to.  *)
SegmentOk(s) == s.kind \in {"*", "name"} \/ (s.kind = "index" /\ s.i \in Nat)

LEMMA PathStep ==
  ASSUME NEW image, WrittenDna(image), NEW o, Place(o), NEW s, SegmentOk(s), GetField(o, s) # NoObj
  PROVE  /\ Place(GetField(o, s))
         /\ FunctionsAreSmall /\ ~ FollowsPtr(o, s) => LiesIn(GetField(o, s), o)
<1>1. CASE s.kind = "name"
  <2>1. GetField(o, s) = Named(o, s.name)
    BY <1>1 DEF GetField
  <2> QED
    BY <2>1, NamedPart
<1>2. CASE s.kind = "*"
  <2>1. GetField(o, s) = Deref(o) /\ FollowsPtr(o, s)
    BY <1>2 DEF GetField, FollowsPtr
  <2>2. o.type.ptr # 0 /\ Deref(o) = Obj(Relocate(PtrIn(o)), 0, PointedType(o.type))
    BY <2>1 DEF Deref
  <2>3. PICK block : block = Relocate(PtrIn(o))
    OBVIOUS
  <2>4. Place(Obj(block, 0, PointedType(o.type)))
    <3>1. 0 \in Nat
      OBVIOUS
    <3> QED
      BY <2>2, <3>1, PointedPart
  <2> QED
    BY <2>1, <2>2, <2>3, <2>4
<1>3. CASE s.kind = "index" /\ s.i \in Nat
  <2>1. PICK i \in Nat : i = s.i
    BY <1>3
  <2>2. GetField(o, s) = Index(o, i)
    BY <1>3, <2>1 DEF GetField
  <2>3. CASE o.type.dims # << >>
    <3>1. GetField(o, s) = IndexArray(o, i)
      BY <2>2, <2>3 DEF Index
    <3> QED
      BY <2>3, <3>1, ElementPart
  <2>4. CASE o.type.dims = << >>
    <3>1. o.type.ptr > 0 /\ GetField(o, s) = IndexPtr(o, i)
      BY <2>2, <2>4 DEF Index
    <3>2. FollowsPtr(o, s)
      BY <1>3, <2>4, <3>1 DEF FollowsPtr
    <3>3. IndexPtr(o, i) = Obj(Relocate(PtrIn(o)), SizeOf(dna.types, PointedType(o.type)) * i, PointedType(o.type))
      BY <3>1 DEF IndexPtr
    <3>4. PICK block : block = Relocate(PtrIn(o))
      OBVIOUS
    <3>5. o.type.ptr # 0
      BY <3>1
    <3>6. Place(Obj(block, SizeOf(dna.types, PointedType(o.type)) * i, PointedType(o.type)))
      BY <3>5, PointedPart
    <3> QED
      BY <3>1, <3>2, <3>3, <3>4, <3>6
  <2> QED
    BY <2>3, <2>4
<1> QED
  BY <1>1, <1>2, <1>3 DEF SegmentOk

(* A block taken for an object of its type.                                *)
LEMMA BlockPlace ==
  ASSUME Shape, LoadInv, WellFormed(file), pc \notin Loading \cup {"types"}, NEW k \in DOMAIN list
  PROVE  Place(BlockAsObj(k))
<1>1. dna # NoDna /\ list[k].type = dna.structs[Raw(k).sdna + 1].type
  BY DEF LoadInv, TypeResolved
<1>2. PICK image : WrittenDna(image)
  BY <1>1, LoadedIsWritten
<1>3. PICK len : image \in Images /\ WellFormedDna(image, len) /\ dna = ParseDna(image)
  BY <1>2 DEF WrittenDna
<1>4. list[k].raw \in 1 .. Len(file.blocks)
  <2>1. PICK n \in Nat, m \in Nat : n = Len(list) /\ m = Len(file.blocks)
    BY FileShape DEF Shape
  <2>2. DOMAIN list = 1 .. n /\ n <= m /\ k \in 1 .. n
    BY <2>1 DEF Shape
  <2>3. list[k].raw = n + 1 - k
    BY <2>1 DEF Shape
  <2> QED
    BY <2>1, <2>2, <2>3
<1>5. PICK sdna \in Nat : sdna = Raw(k).sdna
  BY <1>4, FileShape DEF Raw
<1>6. sdna < Len(image.structs)
  BY <1>2, <1>4, <1>5 DEF WrittenDna, Raw
<1>7. sdna + 1 \in DOMAIN image.structs
  <2>1. Len(image.structs) \in Nat /\ DOMAIN image.structs = 1 .. Len(image.structs)
    BY <1>3, ParsedStructs
  <2> QED
    BY <1>6, <2>1
<1>8. PICK type : type = list[k].type
  OBVIOUS
<1>9. type = image.structs[sdna + 1].type /\ type \in Nat
  BY <1>1, <1>3, <1>5, <1>7, <1>8, ParsedStructs
<1>10. type < Len(dna.types)
  <2>1. type < Len(image.types)
    BY <1>3, <1>7, <1>9 DEF WellFormedDna
  <2> QED
    BY <1>3, <2>1, ParsedTypes
<1>11. FullType(type, 0, << >>) \in FullTypes(Len(dna.types))
  <2>1. << >> \in Dimensions
    BY DEF Dimensions, MaxNestiness
  <2>2. FALSE \in BOOLEAN /\ 0 \in Nat /\ type \in {i \in Nat : i < Len(dna.types)}
    BY <1>9, <1>10
  <2> QED
    BY <2>1, <2>2 DEF FullType, FullTypes
<1>12. PICK block : block = list[k].raw
  OBVIOUS
<1>13. BlockAsObj(k) = Obj(block, 0, FullType(type, 0, << >>))
  BY <1>8, <1>12 DEF BlockAsObj
<1>14. 0 \in Nat
  OBVIOUS
<1> QED
  BY <1>11, <1>13, <1>14, PlaceOf

WalkInv ==
  /\ cmd \in Commands
  /\ seg \in Nat
  /\ pc = "walk" => node \in DOMAIN list
  /\ pc = "walk" /\ WellFormed(file) => Place(obj)

LEMMA WalkInit == Init => WalkInv
BY DEF Init, FileInit, WalkInv

(* The segment a path comes to.                                            *)
LEMMA SegmentThere ==
  ASSUME WalkInv, seg < Len(cmd.path)
  PROVE  SegmentOk(cmd.path[seg + 1])
<1>1. PICK path : path = cmd.path
  OBVIOUS
<1>2. path \in Seq(Range(path)) /\ \A s \in Range(path) : SegmentOk(s)
  BY <1>1, CommandsAssumption DEF WalkInv, SegmentOk
<1>3. PICK S : S = Range(path)
  OBVIOUS
<1>4. path \in Seq(S)
  BY <1>2, <1>3
<1>5. seg + 1 \in 1 .. Len(path)
  <2>1. Len(path) \in Nat
    BY <1>4
  <2> QED
    BY <1>1, <2>1 DEF WalkInv
<1>6. path[seg + 1] \in S
  BY <1>4, <1>5
<1> QED
  BY <1>1, <1>2, <1>3, <1>6

LEMMA WalkKept ==
  ASSUME WalkInv, UNCHANGED <<cmd, file, dna, list, seg>>,
         pc' # "walk" \/ UNCHANGED <<pc, node, obj>>
  PROVE  WalkInv'
BY DEF WalkInv, Place, FullTypes, Dimensions

(* What a step of a path leads to.                                         *)
LEMMA WalkStep ==
  ASSUME Shape, LoadInv, WalkInv, WellFormed(file), FollowSegment, pc' = "walk"
  PROVE  LET s == cmd.path[seg + 1]
         IN  /\ obj' = GetField(obj, s) /\ seg' = seg + 1 /\ seg < Len(cmd.path) /\ SegmentOk(s)
             /\ Place(obj')
             /\ FunctionsAreSmall /\ ~ FollowsPtr(obj, s) => LiesIn(obj', obj)
<1>1. PICK s : s = cmd.path[seg + 1]
  OBVIOUS
<1>2. /\ pc = "walk" /\ seg < Len(cmd.path)
      /\ obj' = GetField(obj, s) /\ seg' = seg + 1 /\ GetField(obj, s) # NoObj
  BY <1>1 DEF FollowSegment
<1>3. SegmentOk(s)
  BY <1>1, <1>2, SegmentThere
<1>4. Place(obj)
  BY <1>2 DEF WalkInv
<1>5. dna # NoDna
  BY <1>2 DEF LoadInv, Loading
<1>6. PICK image : WrittenDna(image)
  BY <1>5, LoadedIsWritten
<1>7. PICK o : o = obj
  OBVIOUS
<1>8. /\ Place(GetField(o, s))
      /\ FunctionsAreSmall /\ ~ FollowsPtr(o, s) => LiesIn(GetField(o, s), o)
  BY <1>2, <1>3, <1>4, <1>6, <1>7, PathStep
<1> QED
  BY <1>1, <1>2, <1>3, <1>7, <1>8

LEMMA WalkNext ==
  ASSUME Shape, LoadInv, WalkInv, [Next]_vars
  PROVE  WalkInv'
<1>1. CASE UNCHANGED vars
  BY <1>1, WalkKept DEF vars, fvars
<1>2. CASE Loads
  <2>1. pc' # "walk" /\ UNCHANGED <<cmd, obj, seg>>
    BY <1>2 DEF Loads, Load, Open, Refuse, ReadHeader, ReadBlock, TakeDna, EndOfFile, ResolveType, Loaded
  <2> QED
    BY <2>1 DEF WalkInv
<1>3. CASE EnterBlock
  <2>1. /\ pc = "iterate" /\ pc' = "walk" /\ node <= Len(list)
        /\ obj' = BlockAsObj(node) /\ seg' = 0
        /\ UNCHANGED <<file, offset, list, dna, node, live, gvars, cmd>>
    BY <1>3 DEF EnterBlock
  <2>2. node \in DOMAIN list
    BY <2>1 DEF Shape
  <2>3. WellFormed(file) => Place(obj')
    <3> SUFFICES ASSUME WellFormed(file) PROVE Place(obj')
      OBVIOUS
    <3>1. PICK k \in DOMAIN list : k = node
      BY <2>2
    <3>2. Place(BlockAsObj(k))
      BY <2>1, BlockPlace DEF Loading
    <3> QED
      BY <2>1, <3>1, <3>2
  <2>4. WellFormed(file)' => WellFormed(file)
    BY <2>1
  <2>5. PICK o : o = obj'
    OBVIOUS
  <2>6. Place(o) => Place(obj)'
    BY <2>1, <2>5 DEF Place, FullTypes, Dimensions
  <2> QED
    BY <2>1, <2>2, <2>3, <2>4, <2>5, <2>6 DEF WalkInv
<1>4. CASE FollowSegment
  <2>1. /\ pc = "walk" /\ UNCHANGED <<file, offset, list, dna, node, live, gvars, cmd>>
        /\ (pc' # "walk" /\ UNCHANGED <<obj, seg>>) \/ pc' = "walk"
    BY <1>4 DEF FollowSegment
  <2>2. CASE pc' # "walk" /\ UNCHANGED <<obj, seg>>
    BY <2>1, <2>2, WalkKept
  <2>3. CASE pc' = "walk"
    <3>1. seg' \in Nat /\ cmd' \in Commands /\ node' \in DOMAIN list'
      <4>1. seg' = seg + 1
        BY <1>4, <2>3 DEF FollowSegment
      <4> QED
        BY <2>1, <4>1 DEF WalkInv
    <3>2. WellFormed(file)' => Place(obj)'
      <4> SUFFICES ASSUME WellFormed(file) PROVE Place(obj)'
        BY <2>1
      <4>1. PICK o : o = obj'
        OBVIOUS
      <4>2. Place(o)
        BY <1>4, <2>3, <4>1, WalkStep
      <4> QED
        BY <2>1, <4>1, <4>2 DEF Place, FullTypes, Dimensions
    <3> QED
      BY <3>1, <3>2 DEF WalkInv
  <2> QED
    BY <2>1, <2>2, <2>3
<1>5. CASE WriteBytes \/ DumpObj
  <2>0. \A o \in Printed(obj) : Outcome(o) # "walk"
    BY DEF Outcome
  <2>1. pc' # "walk" /\ cmd' = cmd /\ seg' \in {seg, 0}
    BY <1>5, <2>0 DEF WriteBytes, DumpObj, BlockDone, FirstFailing
  <2> QED
    BY <2>1 DEF WalkInv
<1>6. CASE Exits \/ TypeNotFound \/ ReadsNoAddress \/ DumpType \/ StartGenerating \/ StartIterating \/ SkipBlock \/ EndIterating
  <2>1. pc' # "walk" /\ UNCHANGED <<cmd, seg>>
    BY <1>6 DEF Exits, TypeNotFound, ReadsNoAddress, DumpType, StartGenerating, StartIterating, SkipBlock, EndIterating,
                Becomes
  <2> QED
    BY <2>1 DEF WalkInv
<1>7. CASE Generate /\ UNCHANGED <<cmd, obj, seg>>
  <2>1. pc' # "walk" /\ UNCHANGED <<cmd, seg>>
    BY <1>7 DEF Generate, ConfigLine, ConfigEnds, GenerateType, GenerateStruct, DropConfig, TypeLine, FieldLine, SkipLine
  <2> QED
    BY <2>1 DEF WalkInv
<1>8. CASE Drop /\ UNCHANGED <<gvars, cmd, obj, seg>>
  <2>1. pc' # "walk" /\ UNCHANGED <<cmd, seg>>
    BY <1>8 DEF Drop, DropBlock, DropDna
  <2> QED
    BY <2>1 DEF WalkInv
<1> QED
  BY <1>1, <1>2, <1>3, <1>4, <1>5, <1>6, <1>7, <1>8 DEF Next, Run

(* On the way along any path through any object of any file that Blender   *)
(* wrote, a field or an element lies within what it is a part of.          *)
THEOREM PathsStayInside == Spec => PartsAreInside
<1> DEFINE Inv  == Shape /\ LoadInv /\ WalkInv
           Step == /\ pc = "walk" /\ pc' = "walk"
                   /\ WellFormed(file) /\ FunctionsAreSmall
                   /\ ~ FollowsPtr(obj, cmd.path[seg + 1])
                   => LiesIn(obj', obj)
<1>1. Init => Inv
  BY ShapeInit, LoadInit, WalkInit
<1>2. Inv /\ [Next]_vars => Inv'
  BY ShapeNext, LoadNext, WalkNext
<1>3. Inv /\ [Next]_vars => [Step]_vars
  <2> SUFFICES ASSUME Inv, Next, pc = "walk", pc' = "walk", WellFormed(file), FunctionsAreSmall,
                      ~ FollowsPtr(obj, cmd.path[seg + 1])
               PROVE  LiesIn(obj', obj)
    OBVIOUS
  <2>1. FollowSegment
    <3>1. pc \notin {"run", "iterate", "config", "generate", "drop"}
      OBVIOUS
    <3>2. ~ (WriteBytes \/ DumpObj)
      BY DumpEnds
    <3>3. ~ Loads
      BY DEF Loads, Load, Open, ReadHeader, ReadBlock, EndOfFile, ResolveType, Loaded
    <3>4. ~ Generate /\ ~ Drop
      BY DEF Generate, ConfigLine, ConfigEnds, GenerateType, DropConfig, Drop, DropBlock, DropDna
    <3>5. Run
      BY <3>3, <3>4 DEF Next
    <3> QED
      BY <3>1, <3>2, <3>5 DEF Run, Exits, TypeNotFound, ReadsNoAddress, DumpType, StartGenerating,
                              StartIterating, SkipBlock, EnterBlock, EndIterating
  <2> QED
    BY <2>1, WalkStep
<1> QED
  BY <1>1, <1>2, <1>3, PTL DEF Spec, PartsAreInside

-----------------------------------------------------------------------------
(* What a dump reads.                                                      *)

(* No more is read of an object than its type takes.                       *)
LEMMA ReadFits ==
  ASSUME NEW image, WrittenDna(image), NumbersAreTheSame, NEW o, Place(o)
  PROVE  ReadOf(o) \in Nat /\ ReadOf(o) <= SizeOf(dna.types, o.type)
<1>1. PICK t : t = o.type
  OBVIOUS
<1>2. /\ t \in FullTypes(Len(dna.types))
      /\ t.inner \in Nat /\ t.inner < Len(dna.types) /\ t.ptr \in Nat /\ t.dims \in Dimensions
  BY <1>1 DEF Place, FullTypes
<1>3. /\ SizeOf(dna.types, t) \in Nat
      /\ t.ptr > 0 => PtrSize <= SizeOf(dna.types, t)
      /\ t.ptr = 0 /\ t.dims = << >> => SizeOf(dna.types, t) = dna.types[t.inner + 1].size
  BY <1>2, DnaTypes, SizeOfType
<1>4. t.inner + 1 \in DOMAIN dna.types
  <2>1. Len(dna.types) \in Nat /\ DOMAIN dna.types = 1 .. Len(dna.types)
    BY DnaTypes
  <2> QED
    BY <1>2, <2>1
<1>5. PICK name : name = dna.types[t.inner + 1].name
  OBVIOUS
<1>6. CASE t.ptr > 0
  <2>1. ReadOf(o) = PtrSize
    <3>1. ~ IsCharArray(o) /\ t.ptr # 0
      BY <1>1, <1>6 DEF IsCharArray
    <3> QED
      BY <1>1, <1>6, <3>1 DEF ReadOf
  <2> QED
    BY <1>1, <1>3, <1>6, <2>1, PtrSizeAssumption
<1>7. CASE ~ (t.ptr > 0) /\ IsCharArray(o)
  <2>1. t.ptr = 0 /\ Len(t.dims) = 1 /\ name = "char"
    BY <1>1, <1>5, <1>7 DEF IsCharArray, IsChar
  <2>2. ReadOf(o) = t.dims[1]
    BY <1>1, <1>7 DEF ReadOf
  <2>3. dna.types[t.inner + 1].size = 1
    BY <1>4, <1>5, <2>1, PrimSizeAssumption DEF NumbersAreTheSame
  <2>4. PICK len \in Nat : len = t.dims[1]
    <3>1. t.dims \in Seq(Nat \ {0})
      BY <1>2 DEF Dimensions
    <3> QED
      BY <2>1, <3>1
  <2>5. SizeOf(dna.types, t) = 1 * len
    <3>1. Elements(t.dims) = len
      BY <2>1, <2>4 DEF Elements
    <3> QED
      BY <1>7, <2>3, <3>1 DEF SizeOf
  <2> QED
    BY <1>1, <2>2, <2>4, <2>5
<1>8. CASE ~ (t.ptr > 0) /\ ~ IsCharArray(o)
  <2>1. t.ptr = 0
    <3>1. PICK ptr \in Nat : ptr = t.ptr
      BY <1>2
    <3> QED
      BY <1>8, <3>1
  <2>2. ReadOf(o) = IF o.type.dims = << >> /\ ~ IsStruct(dna, o.type.inner) /\ name \in DOMAIN PrimSize
                    THEN PrimSize[name] ELSE 0
    BY <1>1, <1>5, <1>8, <2>1 DEF ReadOf
  <2>3. CASE o.type.dims = << >> /\ ~ IsStruct(dna, o.type.inner) /\ name \in DOMAIN PrimSize
    <3>1. ReadOf(o) = PrimSize[name]
      BY <2>2, <2>3
    <3>2. dna.types[t.inner + 1].size = PrimSize[name]
      BY <1>4, <1>5, <2>3 DEF NumbersAreTheSame
    <3>3. PrimSize[name] \in Nat
      BY <2>3, PrimSizeAssumption
    <3> QED
      BY <1>1, <1>3, <2>1, <2>3, <3>1, <3>2, <3>3
  <2>4. CASE ~ (o.type.dims = << >> /\ ~ IsStruct(dna, o.type.inner) /\ name \in DOMAIN PrimSize)
    <3>1. ReadOf(o) = 0
      BY <2>2, <2>4
    <3> QED
      BY <1>1, <1>3, <3>1
  <2> QED
    BY <2>3, <2>4
<1> QED
  BY <1>6, <1>7, <1>8

(* A part of what is inside is inside.                                     *)
LEMMA PartInside ==
  ASSUME Shape, NEW image, WrittenDna(image),
         NEW whole, Inside(whole), Place(whole), whole.block \in 1 .. Len(file.blocks),
         NEW part, Place(part), LiesIn(part, whole)
  PROVE  Inside(part)
<1>1. PICK at \in Nat, from \in Nat : at = part.at /\ from = whole.at
  BY DEF Place
<1>2. PICK size \in Nat, all \in Nat : size = SizeOf(dna.types, part.type) /\ all = SizeOf(dna.types, whole.type)
  <2>1. SizeOf(dna.types, part.type) \in Nat
    BY DnaTypes, SizeOfType DEF Place
  <2>2. SizeOf(dna.types, whole.type) \in Nat
    BY DnaTypes, SizeOfType DEF Place
  <2> QED
    BY <2>1, <2>2
<1>3. PICK block : block = whole.block /\ block = part.block
  BY DEF LiesIn
<1>4. PICK len \in Nat : len = file.blocks[block].len
  BY <1>3, FileShape
<1>5. block > 0 /\ from + all <= len
  BY <1>1, <1>2, <1>3, <1>4 DEF Inside, Readable
<1>6. at + size <= from + all
  BY <1>1, <1>2 DEF LiesIn
<1>7. at >= 0 /\ at + size <= len
  BY <1>5, <1>6
<1> QED
  BY <1>1, <1>2, <1>3, <1>4, <1>5, <1>7 DEF Inside, Readable

LEMMA PartsOfPlace ==
  ASSUME NEW image, WrittenDna(image), FunctionsAreSmall, NEW o, Place(o), NEW p \in Parts(o)
  PROVE  Place(p) /\ LiesIn(p, o)
<1>1. ~ (o.type.ptr > 0)
  BY DEF Parts
<1>2. o.type.ptr = 0
  <2>1. PICK t : t = o.type /\ t \in FullTypes(Len(dna.types))
    BY DEF Place
  <2>2. PICK ptr \in Nat : ptr = t.ptr
    BY <2>1 DEF FullTypes
  <2> QED
    BY <1>1, <2>1, <2>2
<1>3. CASE o.type.dims # << >>
  <2>1. PICK i \in 0 .. o.type.dims[1] - 1 : p = Index(o, i)
    BY <1>3 DEF Parts
  <2>2. PICK len \in Nat : len = o.type.dims[1]
    <3>1. PICK t : t = o.type /\ t \in FullTypes(Len(dna.types))
      BY DEF Place
    <3>2. PICK dims \in Dimensions : dims = t.dims
      BY <3>1 DEF FullTypes
    <3>3. dims[1] \in Nat
      BY <1>3, <3>1, <3>2, ArrayDims
    <3> QED
      BY <3>1, <3>2, <3>3
  <2>3. i \in Nat /\ ~ (i >= o.type.dims[1])
    BY <2>1, <2>2
  <2>4. p = IndexArray(o, i)
    BY <1>3, <2>1 DEF Index
  <2>5. PICK at, type : p = [block |-> o.block, at |-> at, type |-> type]
    BY <2>3, <2>4 DEF IndexArray, Obj
  <2>6. p # NoObj
    <3>1. "at" \in DOMAIN p /\ "at" \notin DOMAIN NoObj
      BY <2>5 DEF NoObj
    <3> QED
      BY <3>1
  <2> QED
    BY <1>3, <2>3, <2>4, <2>6, ElementPart
<1>4. CASE o.type.dims = << >>
  <2>1. /\ IsStruct(dna, o.type.inner)
        /\ \E f \in DOMAIN FieldsOf(dna, o.type.inner) :
             p = Obj(o.block, o.at + FieldsOf(dna, o.type.inner)[f].offset, FieldsOf(dna, o.type.inner)[f].type)
    BY <1>4 DEF Parts
  <2> QED
    BY <1>2, <1>4, <2>1, FieldOfPlace
<1> QED
  BY <1>3, <1>4

(* The dump of an object that is inside its block reads only the block.    *)
LEMMA DumpInside ==
  ASSUME Shape, NEW image, WrittenDna(image), FunctionsAreSmall, NumbersAreTheSame,
         NEW o, Place(o), Inside(o), o.block \in 1 .. Len(file.blocks)
  PROVE  \A p \in Printed(o) : ReadOf(p) > 0 => IsRead(p)
<1> SUFFICES ASSUME NEW p \in Printed(o), ReadOf(p) > 0
             PROVE  Readable(p.block, p.at, ReadOf(p))
  BY DEF IsRead
<1>1. Place(p) /\ Inside(p) /\ p.block = o.block
  <2>1. CASE p = o
    BY <2>1
  <2>2. CASE p \in Parts(o)
    <3>1. Place(p) /\ LiesIn(p, o)
      BY <2>2, PartsOfPlace
    <3> QED
      BY <3>1, PartInside DEF LiesIn
  <2> QED
    BY <2>1, <2>2 DEF Printed
<1>2. PICK size \in Nat : size = SizeOf(dna.types, p.type)
  BY <1>1, DnaTypes, SizeOfType DEF Place
<1>3. PICK read \in Nat : read = ReadOf(p) /\ read <= size
  BY <1>1, <1>2, ReadFits
<1>4. p.block > 0 /\ p.at >= 0 /\ p.at + size <= file.blocks[p.block].len
  BY <1>1, <1>2 DEF Inside, Readable
<1>5. PICK len \in Nat : len = file.blocks[p.block].len
  BY <1>1, FileShape
<1>6. PICK at \in Nat : at = p.at
  BY <1>1 DEF Place
<1>7. at + read <= len
  BY <1>2, <1>3, <1>4, <1>5, <1>6
<1> QED
  BY <1>3, <1>4, <1>5, <1>6, <1>7 DEF Readable

(* A path has followed an index or a star, or set out from a block that is *)
(* shorter than its type.                                                  *)
Excused ==
  \/ \E s \in 1 .. seg : s <= Len(cmd.path) /\ cmd.path[s].kind \in {"index", "*"}
  \/ ~ Inside(BlockAsObj(node))

UndefInv ==
  WellFormed(file) /\ FunctionsAreSmall /\ NumbersAreTheSame /\ pc = "walk" =>
    Excused \/ (Inside(obj) /\ obj.block \in 1 .. Len(file.blocks))

(* The loader finds nothing in a file of Blender's that it may not do.     *)
LEMMA LoadsIsDefined ==
  ASSUME Shape, LoadInv, Loads, WellFormed(file)
  PROVE  pc' # "undefined"
<1>1. CASE Open \/ ReadHeader \/ EndOfFile \/ Loaded
  BY <1>1 DEF Open, ReadHeader, EndOfFile, Loaded, Refuse
<1>2. CASE ReadBlock
  <2> SUFFICES ASSUME pc' = "undefined" PROVE FALSE
    OBVIOUS
  <2>1. PICK k : k = Len(list) + 1
    OBVIOUS
  <2>2. k \in DOMAIN file.blocks /\ file.blocks[k].code = "DNA1" /\ TakeDna(file.blocks[k])
    BY <1>2, <2>1 DEF ReadBlock, Refuse
  <2>3. ~ StructTypesInBounds(file.blocks[k].image)
    <3>1. pc = "blocks"
      BY <1>2 DEF ReadBlock
    <3> QED
      BY <2>2, <3>1 DEF TakeDna
  <2>4. PICK d : HasDnaAt(d)
    BY WellFormedHasDna
  <2>5. k = d
    BY <2>2, <2>4, FileShape DEF HasDnaAt
  <2> QED
    BY <2>3, <2>4, <2>5 DEF HasDnaAt
<1>3. CASE ResolveType
  <2>1. pc = "types" /\ dna # NoDna /\ node <= Len(list)
    BY <1>3 DEF ResolveType, LoadInv, Loading
  <2>2. PICK image : WrittenDna(image)
    BY <2>1, LoadedIsWritten
  <2>3. Raw(node).sdna < Len(dna.structs)
    <3>1. list[node].raw \in 1 .. Len(file.blocks)
      <4>1. PICK n \in Nat, m \in Nat : n = Len(list) /\ m = Len(file.blocks)
        BY FileShape DEF Shape
      <4>2. PICK k \in 1 .. n : k = node
        <5>1. node \in Nat \ {0}
          BY DEF Shape
        <5>2. node <= n
          BY <2>1, <4>1
        <5> QED
          BY <5>1, <5>2
      <4>3. n <= m /\ list[k].raw = n + 1 - k
        <5>1. /\ list \in Seq(Nodes) /\ Len(list) <= Len(file.blocks)
              /\ \A j \in DOMAIN list : list[j].raw = Len(list) + 1 - j
          BY DEF Shape
        <5>2. DOMAIN list = 1 .. n
          BY <4>1, <5>1
        <5> QED
          BY <4>1, <5>1, <5>2
      <4> QED
        BY <4>1, <4>2, <4>3
    <3>2. Raw(node).sdna < Len(image.structs)
      BY <2>2, <3>1 DEF WrittenDna, Raw
    <3> QED
      BY <2>2, <3>2, ParsedStructs DEF WrittenDna
  <2> QED
    BY <1>3, <2>1, <2>3 DEF ResolveType
<1> QED
  BY <1>1, <1>2, <1>3 DEF Loads, Load

(* What lies in a block is its first object if that is inside.             *)
LEMMA BlockOf ==
  ASSUME Shape, NEW k \in DOMAIN list
  PROVE  BlockAsObj(k).block \in 1 .. Len(file.blocks)
<1>1. PICK n \in Nat, m \in Nat : n = Len(list) /\ m = Len(file.blocks)
  BY FileShape DEF Shape
<1>2. DOMAIN list = 1 .. n /\ n <= m /\ k \in 1 .. n
  BY <1>1 DEF Shape
<1>3. list[k].raw = n + 1 - k
  BY <1>1 DEF Shape
<1>4. BlockAsObj(k).block = list[k].raw
  BY DEF BlockAsObj, Obj
<1> QED
  BY <1>1, <1>2, <1>3, <1>4

LEMMA UndefNext ==
  ASSUME Shape, LoadInv, WalkInv, UndefInv, [Next]_vars
  PROVE  UndefInv'
<1> SUFFICES ASSUME WellFormed(file)', FunctionsAreSmall', NumbersAreTheSame', pc' = "walk"
             PROVE  Excused' \/ (Inside(obj)' /\ obj'.block \in 1 .. Len(file.blocks)')
  BY DEF UndefInv
<1>1. CASE UNCHANGED vars
  <2>1. UNCHANGED <<pc, file, list, dna, node, cmd, obj, seg>>
    BY <1>1 DEF vars, fvars
  <2>2. (FunctionsAreSmall' <=> FunctionsAreSmall) /\ (NumbersAreTheSame' <=> NumbersAreTheSame)
    BY <2>1 DEF FunctionsAreSmall, NumbersAreTheSame
  <2>3. Excused' <=> Excused
    BY <2>1 DEF Excused, Inside, Readable, BlockAsObj
  <2>4. Inside(obj)' <=> Inside(obj)
    BY <2>1 DEF Inside, Readable
  <2> QED
    BY <2>1, <2>2, <2>3, <2>4 DEF UndefInv
<1>2. CASE EnterBlock
  <2>1. /\ pc = "iterate" /\ node <= Len(list) /\ obj' = BlockAsObj(node)
        /\ UNCHANGED <<file, list, dna, node>>
    BY <1>2 DEF EnterBlock
  <2>2. Inside(BlockAsObj(node))' <=> Inside(BlockAsObj(node))
    BY <2>1 DEF Inside, Readable, BlockAsObj
  <2>3. PICK k \in DOMAIN list : k = node
    BY <2>1 DEF Shape
  <2>4. obj'.block \in 1 .. Len(file.blocks)'
    BY <2>1, <2>3, BlockOf
  <2>5. Inside(obj)' <=> Inside(BlockAsObj(node))
    BY <2>1 DEF Inside, Readable
  <2> QED
    BY <2>2, <2>4, <2>5 DEF Excused
<1>3. CASE FollowSegment
  <2>1. pc = "walk" /\ UNCHANGED <<file, list, dna, node, cmd>>
    BY <1>3 DEF FollowSegment
  <2>2. WellFormed(file) /\ FunctionsAreSmall /\ NumbersAreTheSame
    BY <2>1 DEF FunctionsAreSmall, NumbersAreTheSame
  <2>3. PICK s : s = cmd.path[seg + 1]
    OBVIOUS
  <2>4. /\ obj' = GetField(obj, s) /\ seg' = seg + 1 /\ seg < Len(cmd.path) /\ SegmentOk(s)
        /\ Place(obj')
        /\ ~ FollowsPtr(obj, s) => LiesIn(obj', obj)
    BY <1>3, <2>2, <2>3, WalkStep
  <2>5. seg \in Nat /\ Place(obj)
    BY <2>1, <2>2 DEF WalkInv
  <2>6. CASE FollowsPtr(obj, s)
    <3>1. s.kind \in {"index", "*"}
      BY <2>6 DEF FollowsPtr
    <3>2. seg + 1 \in 1 .. seg' /\ seg + 1 <= Len(cmd.path)'
      <4>1. Len(cmd.path) \in Nat
        <5>1. cmd.path \in Seq(Range(cmd.path))
          BY CommandsAssumption DEF WalkInv
        <5> QED
          BY <5>1
      <4> QED
        BY <2>1, <2>4, <2>5, <4>1
    <3>3. Excused'
      BY <2>1, <2>3, <3>1, <3>2 DEF Excused
    <3> QED
      BY <3>3
  <2>7. CASE ~ FollowsPtr(obj, s)
    <3>1. CASE Excused
      <4>1. CASE ~ Inside(BlockAsObj(node))
        <5>1. Inside(BlockAsObj(node))' <=> Inside(BlockAsObj(node))
          BY <2>1 DEF Inside, Readable, BlockAsObj
        <5> QED
          BY <4>1, <5>1 DEF Excused
      <4>2. CASE \E r \in 1 .. seg : r <= Len(cmd.path) /\ cmd.path[r].kind \in {"index", "*"}
        <5>1. PICK r \in 1 .. seg : r <= Len(cmd.path) /\ cmd.path[r].kind \in {"index", "*"}
          BY <4>2
        <5>2. r \in 1 .. seg'
          BY <2>4, <2>5
        <5> QED
          BY <2>1, <5>1, <5>2 DEF Excused
      <4> QED
        BY <3>1, <4>1, <4>2 DEF Excused
    <3>2. CASE ~ Excused
      <4>1. Inside(obj) /\ obj.block \in 1 .. Len(file.blocks)
        BY <2>1, <2>2, <3>2 DEF UndefInv
      <4>2. dna # NoDna
        BY <2>1, <2>2 DEF LoadInv, Loading
      <4>3. PICK image : WrittenDna(image)
        BY <2>2, <4>2, LoadedIsWritten
      <4>4. PICK whole, part : whole = obj /\ part = obj'
        OBVIOUS
      <4>5. Inside(part) /\ part.block = whole.block
        BY <2>4, <2>5, <2>7, <4>1, <4>3, <4>4, PartInside DEF LiesIn
      <4>6. Inside(obj)'
        BY <2>1, <4>4, <4>5 DEF Inside, Readable
      <4> QED
        BY <2>1, <4>1, <4>4, <4>5, <4>6
    <3> QED
      BY <3>1, <3>2
  <2> QED
    BY <2>6, <2>7
<1>4. CASE ~ (UNCHANGED vars \/ EnterBlock \/ FollowSegment)
  <2>1. CASE Loads
    BY <2>1 DEF Loads, Load, Open, Refuse, ReadHeader, ReadBlock, TakeDna, EndOfFile, ResolveType, Loaded
  <2>2. CASE Run
    BY <1>4, <2>2, DumpEnds DEF Run, Exits, TypeNotFound, ReadsNoAddress, DumpType, StartGenerating,
                                StartIterating, SkipBlock, EndIterating, Becomes
  <2>3. CASE Generate
    BY <2>3 DEF Generate, ConfigLine, ConfigEnds, GenerateType, GenerateStruct, DropConfig, TypeLine,
                FieldLine, SkipLine
  <2>4. CASE Drop
    BY <2>4 DEF Drop, DropBlock, DropDna
  <2> QED
    BY <1>4, <2>1, <2>2, <2>3, <2>4 DEF Next
<1> QED
  BY <1>1, <1>2, <1>3, <1>4

(* The causes are there after a step that leaves what they speak of alone. *)
LEMMA MissingKept ==
  ASSUME UNCHANGED <<file, list, dna>>, NEW o
  PROVE  Printed(o)' = Printed(o) /\ (StringMissing(o)' <=> StringMissing(o))
<1>1. Printed(o)' = Printed(o)
  <2>1. IsCharArray(o)' <=> IsCharArray(o)
    BY DEF IsCharArray
  <2>2. \A i : Index(o, i)' = Index(o, i)
    BY DEF Index, IndexArray, IndexPtr, Relocates, Relocate, PtrIn, Raw
  <2>3. {Index(o, i) : i \in 0 .. o.type.dims[1] - 1}' = {Index(o, i) : i \in 0 .. o.type.dims[1] - 1}
    BY <2>2
  <2>4. Parts(o)' = Parts(o)
    BY <2>1, <2>3 DEF Parts
  <2> QED
    BY <2>4 DEF Printed
<1>2. StringMissing(o)' <=> StringMissing(o)
  BY DEF StringMissing, IsCharPtr, Relocates, Relocate, PtrIn, Raw
<1> QED
  BY <1>1, <1>2

LEMMA MeasuredKept ==
  ASSUME UNCHANGED <<dna, types>>, NEW type
  PROVE  Measured(type)' = Measured(type)
BY DEF Measured, WrittenFields, ShouldIgnore, Config, FieldConfigs, IsConfigured

LEMMA NextCounts ==
  ASSUME next \in Nat, [Next]_vars
  PROVE  next' \in Nat
<1>1. CASE Run
  BY <1>1, DumpEnds DEF Run, Exits, TypeNotFound, ReadsNoAddress, DumpType, StartGenerating,
       StartIterating, SkipBlock, EnterBlock, FollowSegment, EndIterating, Becomes, gvars
<1>2. CASE Generate
  <2>1. CASE GenerateType
    <3>1. next' = next + 1
      BY <2>1 DEF GenerateType
    <3> QED
      BY <3>1
  <2>2. CASE ConfigLine \/ ConfigEnds \/ DropConfig
    BY <2>2 DEF ConfigLine, ConfigEnds, DropConfig, gvars
  <2> QED
    BY <1>2, <2>1, <2>2 DEF Generate
<1>3. CASE UNCHANGED vars \/ Loads \/ (Drop /\ UNCHANGED <<gvars, cmd, obj, seg>>)
  BY <1>3 DEF vars, gvars, Loads
<1> QED
  BY <1>1, <1>2, <1>3 DEF Next

(* The step into undefined behaviour has a cause.                          *)
LEMMA UndefStep ==
  ASSUME Shape, LoadInv, WalkInv, UndefInv, UndefinedForCause, next \in Nat, [Next]_vars
  PROVE  UndefinedForCause'
<1> SUFFICES ASSUME WellFormed(file)', FunctionsAreSmall', NumbersAreTheSame', pc' = "undefined"
             PROVE  \/ cmd'.kind = "dump-block-at" /\ cmd'.addr = 0
                    \/ cmd'.kind = "dump-type" /\ ~ HasType(dna', cmd'.arg)
                    \/ line' > 0 /\ config'[line'].kind = "field" /\ LineUndefined(config[line])'
                    \/ next' > 0 /\ Measured(next - 1)' # {}
                    \/ (\E s \in 1 .. seg + 1 : s <= Len(cmd.path) /\ cmd.path[s].kind \in {"index", "*"})'
                    \/ ~ Inside(BlockAsObj(node))'
                    \/ ~ cmd'.bytes /\ (\E o \in Printed(obj) : StringMissing(o))'
  BY DEF UndefinedForCause
<1>1. CASE UNCHANGED vars
  <2>1. UNCHANGED <<pc, file, list, dna, node, config, line, types, next, cmd, obj, seg>>
    BY <1>1 DEF vars, fvars, gvars
  <2>2. (FunctionsAreSmall' <=> FunctionsAreSmall) /\ (NumbersAreTheSame' <=> NumbersAreTheSame)
    BY <2>1 DEF FunctionsAreSmall, NumbersAreTheSame
  <2>3. Inside(BlockAsObj(node))' <=> Inside(BlockAsObj(node))
    BY <2>1 DEF Inside, Readable, BlockAsObj
  <2>4. LineUndefined(config[line])' <=> LineUndefined(config[line])
    BY <2>1 DEF LineUndefined, NamesNoType
  <2>5. Measured(next - 1)' = Measured(next - 1)
    BY <2>1 DEF Measured, WrittenFields, ShouldIgnore, Config, FieldConfigs, IsConfigured
  <2>6. (\E o \in Printed(obj) : StringMissing(o))' <=> (\E o \in Printed(obj) : StringMissing(o))
    <3>1. PICK whole : whole = obj
      OBVIOUS
    <3>2. Printed(obj)' = Printed(whole)
      BY <2>1, <3>1, MissingKept
    <3> QED
      BY <2>1, <3>1, <3>2, MissingKept
  <2> QED
    BY <2>1, <2>2, <2>3, <2>4, <2>5, <2>6 DEF UndefinedForCause
<1>2. CASE Loads
  <2>1. file' = file
    BY <1>2 DEF Loads, Load, Open, Refuse, ReadHeader, ReadBlock, EndOfFile, ResolveType, Loaded
  <2> QED
    BY <1>2, <2>1, LoadsIsDefined
<1>3. CASE ReadsNoAddress
  BY <1>3 DEF ReadsNoAddress, Becomes
<1>4. CASE FollowSegment
  <2>1. PICK s : s = cmd.path[seg + 1]
    OBVIOUS
  <2>2. seg < Len(cmd.path) /\ FollowsPtr(obj, s) /\ UNCHANGED <<seg, cmd>>
    BY <1>4, <2>1 DEF FollowSegment
  <2>3. s.kind \in {"index", "*"}
    BY <2>2 DEF FollowsPtr
  <2>4. seg + 1 \in 1 .. seg + 1 /\ seg + 1 <= Len(cmd.path)
    <3>1. Len(cmd.path) \in Nat
      <4>1. cmd.path \in Seq(Range(cmd.path))
        BY CommandsAssumption DEF WalkInv
      <4> QED
        BY <4>1
    <3> QED
      BY <2>2, <3>1 DEF WalkInv
  <2> QED
    BY <2>1, <2>2, <2>3, <2>4
<1>5. CASE WriteBytes \/ DumpObj
  <2>1. /\ pc = "walk" /\ UNCHANGED <<file, list, dna, node, cmd, obj, seg>>
        /\ \/ ~ Inside(obj)
           \/ ~ cmd.bytes /\ \E o \in Printed(obj) : Outcome(o) = "undefined"
    BY <1>5 DEF WriteBytes, DumpObj, BlockDone, FirstFailing
  <2>2. WellFormed(file) /\ FunctionsAreSmall /\ NumbersAreTheSame
    BY <2>1 DEF FunctionsAreSmall, NumbersAreTheSame
  <2>3. CASE Excused
    <3>1. CASE ~ Inside(BlockAsObj(node))
      <4>1. Inside(BlockAsObj(node))' <=> Inside(BlockAsObj(node))
        BY <2>1 DEF Inside, Readable, BlockAsObj
      <4> QED
        BY <3>1, <4>1
    <3>2. CASE \E r \in 1 .. seg : r <= Len(cmd.path) /\ cmd.path[r].kind \in {"index", "*"}
      <4>1. PICK r \in 1 .. seg : r <= Len(cmd.path) /\ cmd.path[r].kind \in {"index", "*"}
        BY <3>2
      <4>2. r \in 1 .. seg' + 1
        BY <2>1 DEF WalkInv
      <4> QED
        BY <2>1, <4>1, <4>2
    <3> QED
      BY <2>3, <3>1, <3>2 DEF Excused
  <2>4. CASE ~ Excused
    <3>1. Inside(obj) /\ obj.block \in 1 .. Len(file.blocks)
      BY <2>1, <2>2, <2>4 DEF UndefInv
    <3>2. dna # NoDna /\ Place(obj)
      BY <2>1, <2>2 DEF LoadInv, Loading, WalkInv
    <3>3. PICK image : WrittenDna(image)
      BY <2>2, <3>2, LoadedIsWritten
    <3>4. PICK o : o = obj
      OBVIOUS
    <3>5. \A part \in Printed(o) : ReadOf(part) > 0 => IsRead(part)
      BY <2>2, <3>1, <3>2, <3>3, <3>4, DumpInside
    <3>6. ~ cmd.bytes /\ \E part \in Printed(o) : StringMissing(part)
      BY <2>1, <3>1, <3>4, <3>5 DEF Outcome
    <3>7. Printed(obj)' = Printed(o)
      BY <2>1, <3>4, MissingKept
    <3> QED
      BY <2>1, <3>6, <3>7, MissingKept
  <2> QED
    BY <2>3, <2>4
<1>6. CASE DropDna
  <2>1. dna = NoDna /\ pc = "drop" /\ file' = file
    BY <1>6 DEF DropDna, Frees
  <2>2. dna # NoDna
    BY <2>1 DEF LoadInv, Loading
  <2> QED
    BY <2>1, <2>2
<1>7. CASE TypeNotFound
  <2>1. cmd.kind = "dump-type" /\ ~ HasType(dna, cmd.arg) /\ UNCHANGED <<dna, cmd>>
    BY <1>7 DEF TypeNotFound, Becomes
  <2> QED
    BY <2>1
<1>8. CASE ConfigLine
  <2>1. PICK l : l = config[line + 1]
    OBVIOUS
  <2>2. /\ pc = "config" /\ line' = line + 1 /\ UNCHANGED <<dna, config>>
        /\ TypeLine(l) \/ FieldLine(l) \/ SkipLine(l)
    BY <1>8, <2>1 DEF ConfigLine
  <2>3. l.kind = "field" /\ LineUndefined(l)
    BY <2>2 DEF TypeLine, FieldLine, SkipLine
  <2>4. line' > 0 /\ config'[line'] = l
    BY <2>1, <2>2 DEF Shape
  <2>5. LineUndefined(config[line])' <=> LineUndefined(l)
    BY <2>2, <2>4 DEF LineUndefined, NamesNoType
  <2> QED
    BY <2>3, <2>4, <2>5
<1>9. CASE GenerateType
  <2>1. pc = "generate" /\ next' = next + 1 /\ UNCHANGED <<dna, types>> /\ Measured(next) # {}
    BY <1>9 DEF GenerateType, GenerateStruct
  <2>2. PICK type \in Nat : type = next /\ next' - 1 = type /\ next' > 0
    BY <2>1
  <2>3. Measured(next - 1)' = Measured(type)
    BY <2>1, <2>2 DEF Measured, WrittenFields, ShouldIgnore, Config, FieldConfigs, IsConfigured
  <2> QED
    BY <2>1, <2>2, <2>3
<1>10. CASE ~ (UNCHANGED vars \/ Loads \/ ReadsNoAddress \/ FollowSegment \/ WriteBytes \/ DumpObj
               \/ DropDna \/ TypeNotFound \/ ConfigLine \/ GenerateType)
  BY <1>10 DEF Next, Run, Exits, DumpType, StartGenerating, StartIterating, SkipBlock, EnterBlock,
           EndIterating, Becomes, Generate, ConfigEnds, DropConfig, Drop, DropBlock
<1> QED
  BY <1>1, <1>2, <1>3, <1>4, <1>5, <1>6, <1>7, <1>8, <1>9, <1>10

(* Whatever Blender wrote, and whatever the path: only a command without   *)
(* its address or with a type that is not there, an index or star on the   *)
(* way, a block that is shorter than its type, a string that does not end, *)
(* a line of config.txt that is misspelt or names a missing type, or the   *)
(* freed name of a length leads to behaviour that C leaves undefined.      *)
THEOREM UndefinedHasCause == Spec => []UndefinedForCause
<1> DEFINE Inv == Shape /\ LoadInv /\ WalkInv /\ UndefInv /\ UndefinedForCause /\ next \in Nat
<1>1. Init => Inv
  <2>1. Init => pc = "open" /\ next \in Nat
    BY DEF Init, FileInit, GenInit
  <2> QED
    BY <2>1, ShapeInit, LoadInit, WalkInit DEF UndefInv, UndefinedForCause
<1>2. Inv /\ [Next]_vars => Inv'
  BY ShapeNext, LoadNext, WalkNext, UndefNext, UndefStep, NextCounts
<1>3. Inv => UndefinedForCause
  OBVIOUS
<1> QED
  BY <1>1, <1>2, <1>3, PTL DEF Spec

-----------------------------------------------------------------------------
(* The Kast types of a field.                                              *)

(* The types of a parsed DNA's fields, whatever file it is from.           *)
AnyTypes == [inner : Int, is_fn : BOOLEAN, ptr : Nat, dims : Seq(Int)]

Depth(t) == Len(t.dims) + t.ptr

(* What is around the rest of a type after d - 1 arrays and pointers.      *)
Wrap(t, d) == IF d <= Len(t.dims) THEN Array(t.dims[d]) ELSE Option

Wraps == [of : {"Array", "Option", "ArrayList"}, len : Int]

NamedKast(t) == Kast(<< >>, Base("named", t.inner))

LEMMA Prepend ==
  ASSUME NEW S, NEW e \in S, NEW n \in Nat, NEW s \in [1 .. n -> S]
  PROVE  <<e>> \o s = [k \in 1 .. n + 1 |-> IF k = 1 THEN e ELSE s[k - 1]]
<1>1. s \in Seq(S) /\ Len(s) = n
  OBVIOUS
<1>2. PICK r : r = <<e>> \o s
  OBVIOUS
<1>3. /\ r \in Seq(S) /\ Len(r) = n + 1 /\ r[1] = e
      /\ \A j \in 2 .. n + 1 : r[j] = s[j - 1]
  BY <1>1, <1>2, ListGrows
<1>4. r = [k \in 1 .. n + 1 |-> r[k]]
  BY <1>3
<1>5. ASSUME NEW k \in 1 .. n + 1
      PROVE  r[k] = IF k = 1 THEN e ELSE s[k - 1]
  BY <1>3
<1> QED
  BY <1>2, <1>4, <1>5

LEMMA WithinIs ==
  ASSUME NEW t \in AnyTypes, NEW d \in 0 .. Depth(t)
  PROVE  /\ Within(t, d).inner = t.inner
         /\ d < Len(t.dims) =>
              /\ Within(t, d).dims # << >> /\ Within(t, d).dims[1] = t.dims[d + 1]
              /\ Len(Within(t, d).dims) = Len(t.dims) - d /\ Within(t, d).ptr = t.ptr
         /\ d >= Len(t.dims) =>
              Within(t, d).dims = << >> /\ Within(t, d).ptr = Depth(t) - d
<1>1. t.dims \in Seq(Int) /\ t.ptr \in Nat /\ Len(t.dims) \in Nat /\ d \in Nat
  BY DEF AnyTypes, Depth
<1>2. PICK u : u = Within(t, d)
  OBVIOUS
<1>3. CASE d <= Len(t.dims)
  <2>1. PICK rest : rest = SubSeq(t.dims, d + 1, Len(t.dims))
    OBVIOUS
  <2>2. u.inner = t.inner /\ u.dims = rest /\ u.ptr = t.ptr
    BY <1>2, <1>3, <2>1 DEF Within, AnyTypes
  <2>3. Len(rest) = Len(t.dims) - d /\ (d < Len(t.dims) => rest[1] = t.dims[d + 1]) /\ rest \in Seq(Int)
    BY <1>1, <1>3, <2>1
  <2>4. d < Len(t.dims) => rest # << >>
    BY <1>1, <2>3
  <2>5. d >= Len(t.dims) => rest = << >>
    BY <1>1, <1>3, <2>3
  <2> QED
    BY <1>1, <1>2, <1>3, <2>2, <2>3, <2>4, <2>5 DEF Depth
<1>4. CASE ~ (d <= Len(t.dims))
  <2>1. u.inner = t.inner /\ u.dims = << >> /\ u.ptr = t.ptr - (d - Len(t.dims))
    BY <1>2, <1>4 DEF Within, AnyTypes
  <2> QED
    BY <1>1, <1>2, <1>4, <2>1 DEF Depth
<1> QED
  BY <1>3, <1>4

(* A type is a string where one array or pointer is left around a char.    *)
LEMMA StrWithin ==
  ASSUME NEW t \in AnyTypes, NEW d \in 0 .. Depth(t)
  PROVE  /\ IsStr(Within(t, d)) <=> IsChar(dna, t) /\ d = Depth(t) - 1
         /\ IsStr(Within(t, d)) =>
              StrOf(Within(t, d)) = Kast(IF t.ptr > 0 THEN <<Option>> ELSE << >>, Str)
<1>1. t.ptr \in Nat /\ Len(t.dims) \in Nat /\ d \in Nat /\ Depth(t) \in Nat
  BY DEF AnyTypes, Depth
<1>2. PICK u : u = Within(t, d)
  OBVIOUS
<1>3. /\ u.inner = t.inner
      /\ d < Len(t.dims) =>
           u.dims # << >> /\ Len(u.dims) = Len(t.dims) - d /\ u.ptr = t.ptr
      /\ d >= Len(t.dims) => u.dims = << >> /\ u.ptr = Depth(t) - d
  BY <1>2, WithinIs
<1>4. IsChar(dna, u) <=> IsChar(dna, t)
  BY <1>3 DEF IsChar
<1>5. Len(<< >>) = 0
  OBVIOUS
<1>6. (u.dims = << >> /\ u.ptr = 1) \/ (Len(u.dims) = 1 /\ u.ptr = 0) <=> d = Depth(t) - 1
  <2>1. CASE d < Len(t.dims)
    <3>1. u.dims # << >> /\ Len(u.dims) = Len(t.dims) - d /\ u.ptr = t.ptr
      BY <1>3, <2>1
    <3>2. (Len(u.dims) = 1 /\ u.ptr = 0) <=> d = Len(t.dims) + t.ptr - 1
      BY <1>1, <2>1, <3>1
    <3>3. Depth(t) - 1 = Len(t.dims) + t.ptr - 1
      BY <1>1 DEF Depth
    <3> QED
      BY <3>1, <3>2, <3>3, Zenon
  <2>2. CASE d >= Len(t.dims)
    <3>1. u.dims = << >> /\ Len(u.dims) = 0 /\ u.ptr = Depth(t) - d
      BY <1>3, <1>5, <2>2
    <3> QED
      BY <1>1, <3>1
  <2> QED
    BY <1>1, <2>1, <2>2
<1>7. IsStr(u) <=> IsChar(dna, t) /\ d = Depth(t) - 1
  BY <1>4, <1>6 DEF IsStr
<1>8. d = Depth(t) - 1 => (u.ptr = 1 <=> t.ptr > 0)
  BY <1>1, <1>3 DEF Depth
<1> QED
  BY <1>2, <1>7, <1>8 DEF StrOf

(* What init_kast_from_obj writes: everything around the base, but for the *)
(* array that a string is.                                                 *)
IsText(t) == IsChar(dna, t) /\ Depth(t) > 0

AroundBase(t) == IF IsText(t) /\ t.ptr = 0 THEN Depth(t) - 1 ELSE Depth(t)

Rest(t, d) == [k \in 1 .. AroundBase(t) - d |-> Wrap(t, d + k)]

RestKast(t, d) ==
  IF d = Depth(t) THEN NamedKast(t)
  ELSE Kast(Rest(t, d), IF IsText(t) THEN Str ELSE Base("named", t.inner))

LEMMA AroundKast ==
  ASSUME NEW wrap, NEW around, NEW base
  PROVE  Around(wrap, Kast(around, base)) = Kast(<<wrap>> \o around, base)
<1>1. PICK k, s : k = Kast(around, base) /\ s = <<wrap>> \o around
  OBVIOUS
<1>2. k = [around |-> around, base |-> base] /\ k.around = around
  BY <1>1 DEF Kast
<1>3. Around(wrap, k) = [k EXCEPT !.around = <<wrap>> \o k.around]
  BY DEF Around
<1>4. Around(wrap, k) = [k EXCEPT !.around = s]
  BY <1>1, <1>2, <1>3
<1>5. [k EXCEPT !.around = s] = [around |-> s, base |-> base]
  BY <1>2
<1> QED
  BY <1>1, <1>4, <1>5 DEF Kast

LEMMA WrapTyped ==
  ASSUME NEW t \in AnyTypes, NEW d \in 1 .. Depth(t)
  PROVE  Wrap(t, d) \in Wraps
<1>1. t.dims \in Seq(Int) /\ d \in Nat /\ d > 0
  BY DEF AnyTypes
<1>2. CASE d <= Len(t.dims)
  <2>1. t.dims[d] \in Int
    BY <1>1, <1>2
  <2> QED
    BY <1>2, <2>1 DEF Wrap, Wraps, Array
<1>3. CASE ~ (d <= Len(t.dims))
  BY <1>3 DEF Wrap, Wraps, Option
<1> QED
  BY <1>2, <1>3

(* One more array or pointer around the rest.                              *)
LEMMA RestGrows ==
  ASSUME NEW t \in AnyTypes, NEW d \in Nat, d < AroundBase(t)
  PROVE  Rest(t, d) = <<Wrap(t, d + 1)>> \o Rest(t, d + 1)
<1>1. Depth(t) \in Nat /\ AroundBase(t) \in Nat /\ AroundBase(t) <= Depth(t)
  BY DEF AnyTypes, Depth, AroundBase, IsText
<1>2. PICK n \in Nat : n = AroundBase(t) - (d + 1)
  BY <1>1
<1>3. AroundBase(t) - d = n + 1
  BY <1>1, <1>2
<1>4. PICK s : s = Rest(t, d + 1)
  OBVIOUS
<1>5. s = [k \in 1 .. n |-> Wrap(t, (d + 1) + k)]
  BY <1>2, <1>4 DEF Rest
<1>6. ASSUME NEW k \in 1 .. n
      PROVE  Wrap(t, (d + 1) + k) \in Wraps
  <2>1. (d + 1) + k \in 1 .. Depth(t)
    BY <1>1, <1>2
  <2> QED
    BY <2>1, WrapTyped
<1>7. s \in [1 .. n -> Wraps]
  BY <1>5, <1>6
<1>8. PICK e \in Wraps : e = Wrap(t, d + 1)
  <2>1. d + 1 \in 1 .. Depth(t)
    BY <1>1
  <2> QED
    BY <2>1, WrapTyped
<1>9. <<e>> \o s = [k \in 1 .. n + 1 |-> IF k = 1 THEN e ELSE s[k - 1]]
  BY <1>7, Prepend
<1>10. ASSUME NEW k \in 1 .. n + 1
       PROVE  Wrap(t, d + k) = IF k = 1 THEN e ELSE s[k - 1]
  <2>1. CASE k = 1
    BY <1>8, <2>1
  <2>2. CASE k # 1
    <3>1. k - 1 \in 1 .. n /\ (d + 1) + (k - 1) = d + k
      BY <2>2
    <3> QED
      BY <1>5, <2>2, <3>1
  <2> QED
    BY <2>1, <2>2
<1>11. Rest(t, d) = [k \in 1 .. n + 1 |-> Wrap(t, d + k)]
  BY <1>3 DEF Rest
<1>12. [k \in 1 .. n + 1 |-> Wrap(t, d + k)] = [k \in 1 .. n + 1 |-> IF k = 1 THEN e ELSE s[k - 1]]
  BY <1>10
<1> QED
  BY <1>4, <1>8, <1>9, <1>11, <1>12

(* init_kast_from_obj of the type that is left after d arrays and          *)
(* pointers, given what it writes for one less.                            *)
InitStep(t, d, inside) ==
  LET u == Within(t, d)
  IN  IF IsStr(u) THEN StrOf(u)
      ELSE IF u.dims # << >> THEN Around(Array(u.dims[1]), inside)
      ELSE IF u.ptr > 0 THEN Around(Option, inside)
      ELSE Kast(<< >>, Base("named", u.inner))

LEMMA InitStepRest ==
  ASSUME NEW t \in AnyTypes, NEW d \in 0 .. Depth(t), NEW inside,
         d < Depth(t) => inside = RestKast(t, d + 1)
  PROVE  InitStep(t, d, inside) = RestKast(t, d)
<1>1. t.ptr \in Nat /\ Len(t.dims) \in Nat /\ d \in Nat /\ Depth(t) = Len(t.dims) + t.ptr
  BY DEF AnyTypes, Depth
<1>2. PICK u : u = Within(t, d)
  OBVIOUS
<1>3. /\ u.inner = t.inner
      /\ d < Len(t.dims) => u.dims # << >> /\ u.dims[1] = t.dims[d + 1]
      /\ d >= Len(t.dims) => u.dims = << >> /\ u.ptr = Depth(t) - d
  BY <1>2, WithinIs
<1>4. /\ IsStr(u) <=> IsChar(dna, t) /\ d = Depth(t) - 1
      /\ IsStr(u) => StrOf(u) = Kast(IF t.ptr > 0 THEN <<Option>> ELSE << >>, Str)
  BY <1>2, StrWithin
<1>5. CASE d = Depth(t)
  <2>1. ~ IsStr(u) /\ u.dims = << >> /\ u.ptr = 0
    BY <1>1, <1>3, <1>4, <1>5
  <2>2. InitStep(t, d, inside) = Kast(<< >>, Base("named", u.inner))
    BY <1>2, <2>1 DEF InitStep
  <2> QED
    BY <1>3, <1>5, <2>2 DEF RestKast, NamedKast
<1>6. CASE IsStr(u)
  <2>1. IsText(t) /\ d = Depth(t) - 1 /\ d # Depth(t)
    BY <1>1, <1>4, <1>6 DEF IsText
  <2>2. InitStep(t, d, inside) = Kast(IF t.ptr > 0 THEN <<Option>> ELSE << >>, Str)
    BY <1>2, <1>4, <1>6 DEF InitStep
  <2>3. Rest(t, d) = IF t.ptr > 0 THEN <<Option>> ELSE << >>
    <3>1. CASE t.ptr = 0
      <4>1. AroundBase(t) - d = 0
        BY <1>1, <2>1, <3>1 DEF AroundBase
      <4>2. Rest(t, d) = [k \in 1 .. 0 |-> Wrap(t, d + k)]
        BY <4>1 DEF Rest
      <4> QED
        BY <3>1, <4>2
    <3>2. CASE t.ptr > 0
      <4>1. AroundBase(t) - d = 1
        BY <1>1, <2>1, <3>2 DEF AroundBase
      <4>2. Rest(t, d) = [k \in 1 .. 1 |-> Wrap(t, d + k)]
        BY <4>1 DEF Rest
      <4>3. ~ (d + 1 <= Len(t.dims))
        BY <1>1, <2>1, <3>2
      <4>4. ASSUME NEW k \in 1 .. 1 PROVE Wrap(t, d + k) = Option
        <5>1. k = 1
          OBVIOUS
        <5> QED
          BY <4>3, <5>1 DEF Wrap
      <4>5. [k \in 1 .. 1 |-> Wrap(t, d + k)] = [k \in 1 .. 1 |-> Option]
        BY <4>4
      <4>6. [k \in 1 .. 1 |-> Option] = <<Option>>
        OBVIOUS
      <4> QED
        BY <3>2, <4>2, <4>5, <4>6
    <3> QED
      BY <1>1, <3>1, <3>2
  <2> QED
    BY <2>1, <2>2, <2>3 DEF RestKast
<1>7. CASE d < Depth(t) /\ ~ IsStr(u)
  <2>1. PICK base : base = IF IsText(t) THEN Str ELSE Base("named", t.inner)
    OBVIOUS
  <2>2. inside = Kast(Rest(t, d + 1), base)
    <3>1. CASE d + 1 = Depth(t)
      <4>1. ~ IsText(t)
        BY <1>1, <1>4, <1>7, <3>1 DEF IsText
      <4>2. AroundBase(t) - (d + 1) = 0
        BY <1>1, <3>1, <4>1 DEF AroundBase
      <4>3. Rest(t, d + 1) = [k \in 1 .. 0 |-> Wrap(t, (d + 1) + k)]
        BY <4>2 DEF Rest
      <4>4. Rest(t, d + 1) = << >>
        BY <4>3
      <4> QED
        BY <1>7, <2>1, <3>1, <4>1, <4>4 DEF RestKast, NamedKast
    <3>2. CASE d + 1 # Depth(t)
      BY <1>7, <2>1, <3>2 DEF RestKast
    <3> QED
      BY <3>1, <3>2
  <2>3. d < AroundBase(t)
    <3>1. IsText(t) => d # Depth(t) - 1
      BY <1>4, <1>7 DEF IsText
    <3> QED
      BY <1>1, <1>7, <3>1 DEF AroundBase
  <2>4. InitStep(t, d, inside) = Around(Wrap(t, d + 1), inside)
    <3>1. CASE d < Len(t.dims)
      BY <1>1, <1>2, <1>3, <1>7, <3>1 DEF InitStep, Wrap
    <3>2. CASE d >= Len(t.dims)
      <4>1. u.dims = << >> /\ u.ptr > 0 /\ ~ (d + 1 <= Len(t.dims))
        BY <1>1, <1>3, <1>7, <3>2
      <4> QED
        BY <1>2, <1>7, <4>1 DEF InitStep, Wrap
    <3> QED
      BY <1>1, <3>1, <3>2
  <2>5. Around(Wrap(t, d + 1), inside) = Kast(<<Wrap(t, d + 1)>> \o Rest(t, d + 1), base)
    <3>1. PICK rest, wrap : rest = Rest(t, d + 1) /\ wrap = Wrap(t, d + 1)
      OBVIOUS
    <3>2. Around(wrap, Kast(rest, base)) = Kast(<<wrap>> \o rest, base)
      BY AroundKast
    <3> QED
      BY <2>2, <3>1, <3>2
  <2>6. Rest(t, d) = <<Wrap(t, d + 1)>> \o Rest(t, d + 1)
    BY <1>1, <2>3, RestGrows
  <2> QED
    BY <1>1, <1>7, <2>1, <2>4, <2>5, <2>6 DEF RestKast
<1> QED
  BY <1>1, <1>5, <1>6, <1>7

LEMMA InitIs ==
  ASSUME NEW t \in AnyTypes
  PROVE  InitKastFromObj(t) = RestKast(t, 0)
<1>1. PICK n \in Nat : n = Depth(t)
  BY DEF AnyTypes, Depth
<1> DEFINE Def(e) == e = [d \in 0 .. n |-> InitStep(t, d, e[d + 1])]
<1>2. PICK g : g = [d \in 0 .. n |-> RestKast(t, d)]
  OBVIOUS
<1>3. Def(g)
  <2>1. ASSUME NEW d \in 0 .. n
        PROVE  g[d] = InitStep(t, d, g[d + 1])
    <3>1. d < n => g[d + 1] = RestKast(t, d + 1)
      BY <1>2
    <3>2. PICK inside : inside = g[d + 1]
      OBVIOUS
    <3>3. d \in 0 .. Depth(t) /\ (d < Depth(t) => inside = RestKast(t, d + 1))
      BY <1>1, <3>1, <3>2
    <3>4. InitStep(t, d, inside) = RestKast(t, d)
      BY <3>3, InitStepRest
    <3> QED
      BY <1>2, <3>2, <3>4
  <2>2. g = [d \in 0 .. n |-> g[d]]
    BY <1>2
  <2> QED
    BY <2>1, <2>2
<1>4. InitKastFromObj(t) = (CHOOSE e : Def(e))[0]
  BY <1>1 DEF InitKastFromObj, InitStep, Depth
<1>5. PICK e : e = CHOOSE f : Def(f)
  OBVIOUS
<1>6. Def(e)
  <2> HIDE DEF Def
  <2> QED
    BY <1>3, <1>5
<1> DEFINE T == {m \in Nat : m <= n => e[n - m] = RestKast(t, n - m)}
<1>7. \A d \in 0 .. n : e[d] = InitStep(t, d, e[d + 1])
  BY <1>6
<1>8. ASSUME NEW d \in 0 .. n, d < n => e[d + 1] = RestKast(t, d + 1)
      PROVE  e[d] = RestKast(t, d)
  <2>1. PICK inside : inside = e[d + 1]
    OBVIOUS
  <2>2. d \in 0 .. Depth(t) /\ (d < Depth(t) => inside = RestKast(t, d + 1))
    BY <1>1, <1>8, <2>1
  <2>3. InitStep(t, d, inside) = RestKast(t, d)
    BY <2>2, InitStepRest
  <2> QED
    BY <1>7, <2>1, <2>3
<1>9. 0 \in T
  BY <1>8
<1>10. ASSUME NEW m \in T
       PROVE  m + 1 \in T
  <2> SUFFICES ASSUME m + 1 <= n PROVE e[n - (m + 1)] = RestKast(t, n - (m + 1))
    OBVIOUS
  <2>1. PICK d \in 0 .. n : d = n - (m + 1)
    OBVIOUS
  <2>2. d + 1 = n - m /\ m <= n /\ m \in Nat
    BY <2>1
  <2>3. e[d + 1] = RestKast(t, d + 1)
    BY <2>2
  <2> QED
    BY <1>8, <2>1, <2>3
<1>11. T = Nat
  <2>1. T \in SUBSET Nat
    OBVIOUS
  <2> HIDE DEF T
  <2> QED
    BY <1>9, <1>10, <2>1, Induction
<1>12. e[0] = RestKast(t, 0)
  <2>1. n \in T /\ n - n = 0
    BY <1>11
  <2> QED
    BY <2>1
<1> QED
  BY <1>4, <1>5, <1>12

LEMMA Joined ==
  ASSUME NEW S, NEW a \in Seq(S), NEW b \in Seq(S)
  PROVE  /\ a \o b \in Seq(S) /\ Len(a \o b) = Len(a) + Len(b)
         /\ \A k \in 1 .. Len(a) + Len(b) :
              (a \o b)[k] = IF k <= Len(a) THEN a[k] ELSE b[k - Len(a)]
OBVIOUS

LEMMA WithinNone ==
  ASSUME NEW t \in AnyTypes
  PROVE  Within(t, 0) = t
<1>1. t.dims \in Seq(Int) /\ Len(t.dims) \in Nat
  BY DEF AnyTypes
<1>2. SubSeq(t.dims, 1, Len(t.dims)) = t.dims
  BY <1>1
<1>3. PICK u : u = Within(t, 0)
  OBVIOUS
<1>4. u = [t EXCEPT !.dims = SubSeq(t.dims, 1, Len(t.dims))]
  BY <1>1, <1>3 DEF Within
<1>5. u = [t EXCEPT !.dims = t.dims]
  BY <1>2, <1>4
<1> QED
  BY <1>3, <1>5 DEF AnyTypes

(* What write_as_kast_type writes.                                         *)
LEMMA WriteIs ==
  ASSUME NEW t \in AnyTypes
  PROVE  WriteAsKastType(t) =
           IF IsChar(dna, t) /\ Depth(t) = 1 THEN RestKast(t, 0)
           ELSE Kast([k \in 1 .. Depth(t) |-> Wrap(t, k)], Base("named", t.inner))
<1>1. t.ptr \in Nat /\ Len(t.dims) \in Nat /\ Depth(t) = Len(t.dims) + t.ptr /\ t.dims \in Seq(Int)
  BY DEF AnyTypes, Depth
<1>2. 0 \in 0 .. Depth(t)
  BY <1>1
<1>3. IsStr(t) <=> IsChar(dna, t) /\ Depth(t) = 1
  <2>1. IsStr(Within(t, 0)) <=> IsChar(dna, t) /\ 0 = Depth(t) - 1
    BY <1>2, StrWithin
  <2>2. 0 = Depth(t) - 1 <=> Depth(t) = 1
    BY <1>1
  <2> QED
    BY <2>1, <2>2, WithinNone
<1>4. CASE IsStr(t)
  <2>1. PICK inside : inside = RestKast(t, 0 + 1)
    OBVIOUS
  <2>2. InitStep(t, 0, inside) = RestKast(t, 0)
    BY <1>2, <2>1, InitStepRest
  <2>3. InitStep(t, 0, inside) = StrOf(t)
    BY <1>4, WithinNone DEF InitStep
  <2> QED
    BY <1>3, <1>4, <2>2, <2>3 DEF WriteAsKastType
<1>5. CASE ~ IsStr(t)
  <2>1. PICK n, p \in Nat : n = Len(t.dims) /\ p = t.ptr
    BY <1>1
  <2>2. PICK a : a = [d \in 1 .. n |-> Wrap(t, d)]
    OBVIOUS
  <2>3. PICK o : o = [d \in 1 .. p |-> Wrap(t, n + d)]
    OBVIOUS
  <2>4. [d \in 1 .. Len(t.dims) |-> Array(t.dims[d])] = a
    BY <2>1, <2>2 DEF Wrap
  <2>5. [d \in 1 .. t.ptr |-> Option] = o
    <3>1. ASSUME NEW d \in 1 .. p PROVE Wrap(t, n + d) = Option
      <4>1. ~ (n + d <= Len(t.dims))
        BY <2>1
      <4> QED
        BY <4>1 DEF Wrap
    <3> QED
      BY <2>1, <2>3, <3>1
  <2>6. a \in Seq(Wraps) /\ o \in Seq(Wraps) /\ Len(a) = n /\ Len(o) = p
    <3>1. ASSUME NEW d \in 1 .. n + p PROVE Wrap(t, d) \in Wraps
      BY <1>1, <2>1, WrapTyped
    <3>2. ASSUME NEW d \in 1 .. n PROVE Wrap(t, d) \in Wraps
      BY <2>1, <3>1
    <3>3. ASSUME NEW d \in 1 .. p PROVE Wrap(t, n + d) \in Wraps
      <4>1. n + d \in 1 .. n + p
        BY <2>1
      <4> QED
        BY <3>1, <4>1
    <3>4. a \in [1 .. n -> Wraps] /\ o \in [1 .. p -> Wraps]
      BY <2>2, <2>3, <3>2, <3>3
    <3> QED
      BY <2>1, <3>4
  <2>7. a \o o = [k \in 1 .. n + p |-> Wrap(t, k)]
    <3>1. PICK s : s = a \o o
      OBVIOUS
    <3>2. /\ s \in Seq(Wraps) /\ Len(s) = n + p
          /\ \A k \in 1 .. n + p : s[k] = IF k <= n THEN a[k] ELSE o[k - n]
      BY <2>6, <3>1, Joined
    <3>3. ASSUME NEW k \in 1 .. n + p PROVE s[k] = Wrap(t, k)
      <4>1. CASE k <= n
        <5>1. k \in 1 .. n /\ s[k] = a[k]
          BY <3>2, <4>1
        <5> QED
          BY <2>2, <5>1
      <4>2. CASE k > n
        <5>1. k - n \in 1 .. p /\ n + (k - n) = k
          BY <4>2
        <5>2. s[k] = o[k - n]
          BY <3>2, <4>2
        <5> QED
          BY <2>3, <5>1, <5>2
      <4> QED
        BY <2>1, <4>1, <4>2
    <3>4. s = [k \in 1 .. n + p |-> s[k]]
      BY <3>2
    <3> QED
      BY <3>1, <3>3, <3>4
  <2>8. WriteAsKastType(t) = Kast(a \o o, Base("named", t.inner))
    BY <1>5, <2>4, <2>5 DEF WriteAsKastType
  <2> QED
    BY <1>1, <1>3, <1>5, <2>1, <2>7, <2>8
<1> QED
  BY <1>4, <1>5

(* The two recursions over a type agree unless a string is in an array or  *)
(* behind a pointer; what they write is of the type's own base or a string.*)
KastOf(t, k) ==
  \E around \in Seq(Wraps), base \in {Str, Base("named", t.inner)} : k = Kast(around, base)

LEMMA RestKastOf ==
  ASSUME NEW t \in AnyTypes
  PROVE  KastOf(t, RestKast(t, 0))
<1>1. PICK n, m \in Nat : n = Depth(t) /\ m = AroundBase(t) /\ m <= n
  BY DEF AnyTypes, Depth, AroundBase, IsText
<1>2. PICK r : r = Rest(t, 0)
  OBVIOUS
<1>3. r = [k \in 1 .. m |-> Wrap(t, 0 + k)]
  BY <1>1, <1>2 DEF Rest
<1>4. ASSUME NEW k \in 1 .. m PROVE Wrap(t, 0 + k) \in Wraps
  <2>1. 0 + k \in 1 .. Depth(t)
    BY <1>1
  <2> QED
    BY <2>1, WrapTyped
<1>5. r \in [1 .. m -> Wraps]
  BY <1>3, <1>4
<1>6. r \in Seq(Wraps) /\ << >> \in Seq(Wraps)
  BY <1>1, <1>5
<1> QED
  BY <1>2, <1>6 DEF KastOf, RestKast, NamedKast

LEMMA SameKast ==
  ASSUME NEW t \in AnyTypes
  PROVE  /\ KastOf(t, WriteAsKastType(t)) /\ KastOf(t, InitKastFromObj(t))
         /\ WriteAsKastType(t) = InitKastFromObj(t) <=> ~ (IsChar(dna, t) /\ Depth(t) > 1)
<1>1. Depth(t) \in Nat /\ t.ptr \in Nat
  BY DEF AnyTypes, Depth
<1>2. PICK w, i : w = WriteAsKastType(t) /\ i = InitKastFromObj(t)
  OBVIOUS
<1>3. i = RestKast(t, 0) /\ KastOf(t, i)
  BY <1>2, InitIs, RestKastOf
<1>4. w = IF IsChar(dna, t) /\ Depth(t) = 1 THEN i
          ELSE Kast([k \in 1 .. Depth(t) |-> Wrap(t, k)], Base("named", t.inner))
  BY <1>2, <1>3, WriteIs
<1>5. PICK r : r = [k \in 1 .. Depth(t) |-> Wrap(t, k)]
  OBVIOUS
<1>6. r \in Seq(Wraps)
  <2>1. \A k \in 1 .. Depth(t) : Wrap(t, k) \in Wraps
    BY WrapTyped
  <2>2. r \in [1 .. Depth(t) -> Wraps]
    BY <1>5, <2>1
  <2> QED
    BY <1>1, <2>2
<1>7. KastOf(t, w)
  <2>1. CASE w = i
    BY <1>3, <2>1
  <2>2. CASE w = Kast(r, Base("named", t.inner))
    BY <1>6, <2>2 DEF KastOf
  <2> QED
    BY <1>4, <1>5, <2>1, <2>2
<1>8. CASE IsText(t)
  <2>1. i = Kast(Rest(t, 0), Str)
    BY <1>1, <1>3, <1>8 DEF RestKast, IsText
  <2>2. CASE Depth(t) = 1
    BY <1>2, <1>4, <1>7, <1>3, <1>8, <2>2 DEF IsText
  <2>3. CASE Depth(t) # 1
    <3>1. w = Kast(r, Base("named", t.inner))
      BY <1>4, <1>5, <2>3
    <3>2. Base("named", t.inner) # Str
      BY DEF Base, Str
    <3>3. w # i
      BY <2>1, <3>1, <3>2 DEF Kast
    <3> QED
      BY <1>1, <1>2, <1>3, <1>7, <1>8, <2>3, <3>3 DEF IsText
  <2> QED
    BY <2>2, <2>3
<1>9. CASE ~ IsText(t)
  <2>1. ~ (IsChar(dna, t) /\ Depth(t) > 1) /\ ~ (IsChar(dna, t) /\ Depth(t) = 1)
    BY <1>1, <1>9 DEF IsText
  <2>2. w = Kast(r, Base("named", t.inner))
    BY <1>4, <1>5, <2>1
  <2>3. i = Kast(r, Base("named", t.inner))
    <3>1. CASE Depth(t) = 0
      <4>1. r = << >>
        BY <1>5, <3>1
      <4> QED
        BY <1>3, <3>1, <4>1 DEF RestKast, NamedKast
    <3>2. CASE Depth(t) # 0
      <4>1. AroundBase(t) - 0 = Depth(t)
        BY <1>1, <1>9 DEF AroundBase
      <4>2. Rest(t, 0) = [k \in 1 .. Depth(t) |-> Wrap(t, 0 + k)]
        BY <4>1 DEF Rest
      <4>3. \A k \in 1 .. Depth(t) : 0 + k = k
        OBVIOUS
      <4>4. Rest(t, 0) = r
        BY <1>5, <4>2, <4>3
      <4> QED
        BY <1>3, <1>9, <3>2, <4>4 DEF RestKast
    <3> QED
      BY <3>1, <3>2
  <2> QED
    BY <1>2, <1>3, <1>7, <2>1, <2>2, <2>3
<1> QED
  BY <1>8, <1>9

(* An array of the configuration is around a list that is around each.     *)
ListAround(k) == Around(Option, Around(ArrayList, k))

LEMMA ListAroundIs ==
  ASSUME NEW a \in Seq(Wraps), NEW base
  PROVE  /\ ListAround(Kast(a, base)) = Kast(<<Option>> \o (<<ArrayList>> \o a), base)
         /\ Len(<<Option>> \o (<<ArrayList>> \o a)) = Len(a) + 2
         /\ \A j \in 1 .. Len(a) : (<<Option>> \o (<<ArrayList>> \o a))[j + 2] = a[j]
<1>1. ArrayList \in Wraps /\ Option \in Wraps
  BY DEF ArrayList, Option, Wraps
<1>2. PICK n \in Nat : n = Len(a)
  OBVIOUS
<1>3. PICK r : r = <<ArrayList>> \o a
  OBVIOUS
<1>4. r \in Seq(Wraps) /\ Len(r) = n + 1 /\ \A j \in 2 .. n + 1 : r[j] = a[j - 1]
  BY <1>1, <1>2, <1>3, ListGrows
<1>5. PICK s : s = <<Option>> \o r
  OBVIOUS
<1>6. Len(s) = n + 2 /\ \A j \in 2 .. n + 2 : s[j] = r[j - 1]
  BY <1>1, <1>4, <1>5, ListGrows
<1>7. ASSUME NEW j \in 1 .. n
      PROVE  s[j + 2] = a[j]
  <2>1. j + 2 \in 2 .. n + 2 /\ (j + 2) - 1 = j + 1 /\ j + 1 \in 2 .. n + 1 /\ (j + 1) - 1 = j
    OBVIOUS
  <2>2. s[j + 2] = r[j + 1]
    BY <1>6, <2>1
  <2>3. r[j + 1] = a[j]
    BY <1>4, <2>1
  <2> QED
    BY <2>2, <2>3
<1>8. Around(ArrayList, Kast(a, base)) = Kast(r, base)
  BY <1>3, AroundKast
<1>9. Around(Option, Kast(r, base)) = Kast(s, base)
  BY <1>5, AroundKast
<1> QED
  BY <1>2, <1>3, <1>5, <1>6, <1>7, <1>8, <1>9 DEF ListAround

LEMMA ListAroundSame ==
  ASSUME NEW a \in Seq(Wraps), NEW base, NEW b \in Seq(Wraps), NEW other,
         ListAround(Kast(a, base)) = ListAround(Kast(b, other))
  PROVE  Kast(a, base) = Kast(b, other)
<1>1. PICK s, r : s = <<Option>> \o (<<ArrayList>> \o a) /\ r = <<Option>> \o (<<ArrayList>> \o b)
  OBVIOUS
<1>2. Kast(s, base) = Kast(r, other)
  BY <1>1, ListAroundIs
<1>3. s = r /\ base = other
  BY <1>2 DEF Kast
<1>4. /\ Len(s) = Len(a) + 2 /\ \A j \in 1 .. Len(a) : s[j + 2] = a[j]
      /\ Len(r) = Len(b) + 2 /\ \A j \in 1 .. Len(b) : r[j + 2] = b[j]
  BY <1>1, ListAroundIs
<1>5. Len(a) = Len(b)
  BY <1>3, <1>4
<1>6. \A j \in 1 .. Len(a) : a[j] = b[j]
  BY <1>3, <1>4, <1>5
<1>7. a = b
  BY <1>5, <1>6
<1> QED
  BY <1>3, <1>7

(* What a pointer to a type is initialized with.                           *)
LEMMA PtrKast ==
  ASSUME NEW x \in Int
  PROVE  InitKastFromObj(FullType(x, 1, << >>)) =
           Kast(<<Option>>, IF dna.types[x + 1].name = "char" THEN Str ELSE Base("named", x))
<1>1. PICK t : t = FullType(x, 1, << >>)
  OBVIOUS
<1>2. /\ t \in AnyTypes /\ t.ptr = 1 /\ t.inner = x /\ Depth(t) = 1
      /\ ~ (1 <= Len(t.dims))
  BY <1>1 DEF FullType, AnyTypes, Depth
<1>3. AroundBase(t) - 0 = 1
  BY <1>2 DEF AroundBase
<1>4. Rest(t, 0) = [k \in 1 .. 1 |-> Wrap(t, 0 + k)]
  BY <1>3 DEF Rest
<1>5. \A k \in 1 .. 1 : 0 + k = 1
  OBVIOUS
<1>6. \A k \in 1 .. 1 : Wrap(t, 0 + k) = Option
  BY <1>2, <1>5 DEF Wrap
<1>7. Rest(t, 0) = [k \in 1 .. 1 |-> Option]
  BY <1>4, <1>6
<1>8. [k \in 1 .. 1 |-> Option] = <<Option>>
  OBVIOUS
<1>9. IsText(t) <=> dna.types[x + 1].name = "char"
  BY <1>2 DEF IsText, IsChar
<1> QED
  BY <1>1, <1>2, <1>7, <1>8, <1>9, InitIs DEF RestKast

LEMMA PointedTyped ==
  ASSUME NEW t \in AnyTypes, IsPlainPtr(t)
  PROVE  /\ PointedType(t) \in AnyTypes /\ PointedType(t).inner = t.inner
         /\ Depth(PointedType(t)) + 1 = Len(t.dims) + t.ptr
         /\ Len(t.dims) + t.ptr \in Nat
<1>1. t.ptr \in Nat /\ t.ptr > 0 /\ t.dims = << >> /\ Len(t.dims) = 0
  BY DEF AnyTypes, IsPlainPtr
<1>2. PICK u : u = PointedType(t)
  OBVIOUS
<1>3. u \in AnyTypes /\ u.inner = t.inner /\ u.dims = << >> /\ u.ptr = t.ptr - 1
  BY <1>1, <1>2 DEF PointedType, AnyTypes
<1> QED
  BY <1>1, <1>2, <1>3 DEF Depth

(* What a field's declaration and initialization are about.                *)
OwnBase(fc, t, base) ==
  \/ base.kind = "str"
  \/ base.type \in {fc.list, fc.ptr, NoType}
  \/ base.type = t.inner /\ (fc.len # NoName \/ (fc.list = NoType /\ fc.ptr = NoType))

FieldConfigIs(fc) == fc.list \in Int /\ fc.ptr \in Int

LEMMA ListOrPtr ==
  ASSUME NEW fc, FieldConfigIs(fc), NEW t \in AnyTypes, NEW b, b.config = fc, b.field.type = t,
         fc.list # NoType \/ fc.ptr # NoType, fc.len = NoName
  PROVE  /\ Declared(fc, t) = Initialized(fc, t) <=> ~ Disputed(b)
         /\ OwnBase(fc, t, Declared(fc, t).base) /\ OwnBase(fc, t, Initialized(fc, t).base)
<1>1. PICK char \in BOOLEAN, other \in BOOLEAN :
        /\ char <=> dna.types[fc.list + 1].name = "char"
        /\ other <=> dna.types[fc.ptr + 1].name = "char"
  OBVIOUS
<1>2. PICK opt : opt = <<Option>>
  OBVIOUS
<1>3. /\ InitKastFromObj(FullType(fc.list, 1, << >>)) =
           Kast(opt, IF char THEN Str ELSE Base("named", fc.list))
      /\ InitKastFromObj(FullType(fc.ptr, 1, << >>)) =
           Kast(opt, IF other THEN Str ELSE Base("named", fc.ptr))
  BY <1>1, <1>2, PtrKast DEF FieldConfigIs
<1>4. \A x : Base("named", x) # Str /\ Base("named", x).type = x /\ Base("list", x).type = x
  BY DEF Base, Str
<1>5. CASE fc.list # NoType
  <2>1. Declared(fc, t) = Kast(<< >>, Base("list", fc.list))
    BY <1>5 DEF Declared
  <2>2. Kast(opt, Str) # Kast(opt, Base("named", fc.list))
    BY <1>4 DEF Kast
  <2>3. Initialized(fc, t) = IF char THEN Kast(<< >>, Base("list", NoType))
                             ELSE Kast(<< >>, Base("list", fc.list))
    BY <1>2, <1>3, <1>5, <2>2 DEF Initialized
  <2>4. Base("list", NoType) # Base("list", fc.list)
    BY <1>4, <1>5
  <2>5. Declared(fc, t) = Initialized(fc, t) <=> ~ char
    BY <2>1, <2>3, <2>4 DEF Kast
  <2>6. Disputed(b) <=> char
    BY <1>1, <1>5 DEF Disputed, CharType
  <2>7. Declared(fc, t).base.type = fc.list
    BY <1>4, <2>1 DEF Kast
  <2>8. Initialized(fc, t).base.type \in {fc.list, NoType}
    BY <1>4, <2>3 DEF Kast
  <2> QED
    BY <2>5, <2>6, <2>7, <2>8 DEF OwnBase
<1>6. CASE fc.list = NoType
  <2>1. Declared(fc, t) = Kast(opt, Base("named", fc.ptr))
    BY <1>2, <1>6 DEF Declared
  <2>2. Initialized(fc, t) = Kast(opt, IF other THEN Str ELSE Base("named", fc.ptr))
    BY <1>3, <1>6 DEF Initialized
  <2>3. Declared(fc, t) = Initialized(fc, t) <=> ~ other
    BY <1>4, <2>1, <2>2 DEF Kast
  <2>4. Disputed(b) <=> other
    BY <1>1, <1>6 DEF Disputed, CharType
  <2>5. Declared(fc, t).base.type = fc.ptr
    BY <1>4, <2>1 DEF Kast
  <2>6. other => Initialized(fc, t).base.kind = "str"
    BY <2>2 DEF Kast, Base, Str
  <2>7. ~ other => Initialized(fc, t).base.type = fc.ptr
    BY <1>4, <2>2 DEF Kast
  <2> QED
    BY <2>3, <2>4, <2>5, <2>6, <2>7 DEF OwnBase
<1> QED
  BY <1>5, <1>6

LEMMA BothConfigured ==
  ASSUME NEW fc, FieldConfigIs(fc), NEW t \in AnyTypes, IsPlainPtr(t),
         NEW b, b.config = fc, b.field.type = t, fc.len # NoName
  PROVE  /\ Declared(fc, t) = Initialized(fc, t) <=> ~ Disputed(b)
         /\ OwnBase(fc, t, Declared(fc, t).base) /\ OwnBase(fc, t, Initialized(fc, t).base)
<1>1. PICK u \in AnyTypes : u = PointedType(t)
  BY PointedTyped
<1>2. /\ u.inner = t.inner /\ Depth(u) + 1 = Len(t.dims) + t.ptr
      /\ Len(t.dims) + t.ptr \in Nat
  BY <1>1, PointedTyped
<1>3. PICK w, i : w = WriteAsKastType(u) /\ i = InitKastFromObj(u)
  OBVIOUS
<1>4. KastOf(u, w) /\ KastOf(u, i) /\ (w = i <=> ~ (IsChar(dna, u) /\ Depth(u) > 1))
  BY <1>3, SameKast
<1>5. PICK a1 \in Seq(Wraps), b1 \in {Str, Base("named", u.inner)} : w = Kast(a1, b1)
  BY <1>4 DEF KastOf
<1>6. PICK a2 \in Seq(Wraps), b2 \in {Str, Base("named", u.inner)} : i = Kast(a2, b2)
  BY <1>4 DEF KastOf
<1>7. PICK r1, r2 : /\ ListAround(w) = Kast(r1, b1) /\ Len(r1) = Len(a1) + 2
                    /\ ListAround(i) = Kast(r2, b2) /\ Len(r2) = Len(a2) + 2
  <2>1. PICK r1 : r1 = <<Option>> \o (<<ArrayList>> \o a1)
    OBVIOUS
  <2>2. PICK r2 : r2 = <<Option>> \o (<<ArrayList>> \o a2)
    OBVIOUS
  <2>3. ListAround(w) = Kast(r1, b1) /\ Len(r1) = Len(a1) + 2
    BY <1>5, <2>1, ListAroundIs
  <2>4. ListAround(i) = Kast(r2, b2) /\ Len(r2) = Len(a2) + 2
    BY <1>6, <2>2, ListAroundIs
  <2> QED
    BY <2>3, <2>4
<1>8. \A base \in {Str, Base("named", u.inner)} : OwnBase(fc, t, base)
  BY <1>2 DEF OwnBase, Base, Str
<1>9. Initialized(fc, t) = ListAround(i)
  BY <1>1, <1>3 DEF Initialized, ListAround
<1>10. Initialized(fc, t).base = b2
  BY <1>7, <1>9 DEF Kast
<1>11. CASE fc.list = NoType /\ fc.ptr = NoType
  <2>1. Declared(fc, t) = ListAround(w)
    BY <1>1, <1>3, <1>11 DEF Declared, ListAround
  <2>2. Declared(fc, t) = Initialized(fc, t) <=> w = i
    <3>1. ListAround(w) = ListAround(i) => w = i
      BY <1>5, <1>6, ListAroundSame
    <3> QED
      BY <1>9, <2>1, <3>1
  <2>3. Disputed(b) <=> IsChar(dna, u) /\ Depth(u) > 1
    <3>1. IsChar(dna, t) <=> IsChar(dna, u)
      BY <1>2 DEF IsChar
    <3>2. Depth(u) > 1 <=> Len(t.dims) + t.ptr > 2
      BY <1>2 DEF Depth, AnyTypes
    <3>3. Disputed(b) <=> IsChar(dna, t) /\ Len(t.dims) + t.ptr > 2
      BY <1>11 DEF Disputed
    <3> QED
      BY <3>1, <3>2, <3>3, Zenon
  <2>4. Declared(fc, t).base = b1
    BY <1>7, <2>1 DEF Kast
  <2> QED
    BY <1>4, <1>5, <1>6, <1>8, <1>10, <2>2, <2>3, <2>4
<1>12. CASE fc.list # NoType \/ fc.ptr # NoType
  <2>1. PICK few \in {<< >>, <<Option>>} :
          Declared(fc, t) \in {Kast(few, Base("list", fc.list)), Kast(few, Base("named", fc.ptr))}
    BY <1>12 DEF Declared
  <2>2. Len(few) < 2
    <3>1. Len(<< >>) = 0
      OBVIOUS
    <3>2. PICK x : x = Option
      OBVIOUS
    <3>3. Len(<<x>>) = 1
      OBVIOUS
    <3>4. CASE few = << >>
      BY <3>1, <3>4
    <3>5. CASE few = <<x>>
      BY <3>3, <3>5
    <3> QED
      BY <3>2, <3>4, <3>5
  <2>3. few # r2
    <3>1. Len(a2) \in Nat
      OBVIOUS
    <3> QED
      BY <1>7, <2>2, <3>1
  <2>4. Declared(fc, t) # Initialized(fc, t)
    BY <1>7, <1>9, <2>1, <2>3 DEF Kast
  <2>5. Disputed(b)
    BY <1>12 DEF Disputed
  <2>6. Declared(fc, t).base \in {Base("list", fc.list), Base("named", fc.ptr)}
    BY <2>1 DEF Kast
  <2>7. OwnBase(fc, t, Declared(fc, t).base)
    BY <2>6 DEF OwnBase, Base
  <2> QED
    BY <1>6, <1>8, <1>10, <2>4, <2>5, <2>7
<1> QED
  BY <1>11, <1>12

LEMMA NotConfigured ==
  ASSUME NEW fc, NEW t \in AnyTypes, NEW b, b.config = fc, b.field.type = t,
         fc.list = NoType, fc.ptr = NoType, fc.len = NoName
  PROVE  /\ Declared(fc, t) = Initialized(fc, t) <=> ~ Disputed(b)
         /\ OwnBase(fc, t, Declared(fc, t).base) /\ OwnBase(fc, t, Initialized(fc, t).base)
<1>1. PICK w, i : w = WriteAsKastType(t) /\ i = InitKastFromObj(t)
  OBVIOUS
<1>2. Declared(fc, t) = w /\ Initialized(fc, t) = i
  BY <1>1 DEF Declared, Initialized
<1>3. KastOf(t, w) /\ KastOf(t, i) /\ (w = i <=> ~ (IsChar(dna, t) /\ Depth(t) > 1))
  BY <1>1, SameKast
<1>4. Disputed(b) <=> IsChar(dna, t) /\ Depth(t) > 1
  <2>1. ~ CharType(fc.list) /\ ~ CharType(fc.ptr)
    BY DEF CharType
  <2> QED
    BY <2>1 DEF Disputed, Depth
<1>5. \A base \in {Str, Base("named", t.inner)} : OwnBase(fc, t, base)
  BY DEF OwnBase, Base, Str
<1>6. \A k : KastOf(t, k) => k.base \in {Str, Base("named", t.inner)}
  BY DEF KastOf, Kast
<1> QED
  BY <1>2, <1>3, <1>4, <1>5, <1>6

(* The declaration and the initialization of a field.                      *)
LEMMA FieldAgrees ==
  ASSUME NEW fc, FieldConfigIs(fc), NEW t \in AnyTypes, fc.len # NoName => IsPlainPtr(t),
         NEW b, b.config = fc, b.field.type = t
  PROVE  /\ Declared(fc, t) = Initialized(fc, t) <=> ~ Disputed(b)
         /\ OwnBase(fc, t, Declared(fc, t).base) /\ OwnBase(fc, t, Initialized(fc, t).base)
<1>1. CASE fc.len # NoName
  BY <1>1, BothConfigured
<1>2. CASE fc.len = NoName /\ (fc.list # NoType \/ fc.ptr # NoType)
  BY <1>2, ListOrPtr
<1>3. CASE fc.len = NoName /\ fc.list = NoType /\ fc.ptr = NoType
  BY <1>3, NotConfigured
<1> QED
  BY <1>1, <1>2, <1>3

-----------------------------------------------------------------------------
(* The bindings that have been written.                                    *)

TypeNumbers == {k \in Nat : k < Len(dna.types)}

FieldTyped(t) == t \in AnyTypes /\ t.inner \in TypeNumbers

DnaTyped ==
  /\ Len(dna.types) \in Nat /\ DOMAIN dna.types = 1 .. Len(dna.types)
  /\ \E n \in Nat : DOMAIN dna.structs = 1 .. n
  /\ \A s \in DOMAIN dna.structs : \A f \in DOMAIN dna.structs[s].fields :
       FieldTyped(dna.structs[s].fields[f].type)

LEMMA NoDnaTyped ==
  ASSUME dna = NoDna
  PROVE  DnaTyped
<1>1. dna.types = << >> /\ dna.structs = << >>
  BY DEF NoDna
<1>2. Len(<< >>) = 0 /\ DOMAIN << >> = 1 .. 0
  OBVIOUS
<1> QED
  BY <1>1, <1>2 DEF DnaTyped

LEMMA FieldTypeIs ==
  ASSUME NEW image \in Images, NEW len, DnaParses(image, len),
         NEW s \in DOMAIN image.structs, NEW f \in 1 .. Len(image.structs[s].fields)
  PROVE  LET field == image.structs[s].fields[f]
         IN  /\ FieldType(image, field) \in AnyTypes
             /\ FieldType(image, field).inner \in Nat
             /\ FieldType(image, field).inner < Len(image.types)
<1>1. PICK field : field = image.structs[s].fields[f]
  OBVIOUS
<1>2. PICK S : S = [type : Nat, name : Nat]
  OBVIOUS
<1>3. PICK fields : fields = image.structs[s].fields
  OBVIOUS
<1>4. fields \in Seq(S)
  <2>1. image.structs \in Seq(RawStructs)
    BY DEF Images
  <2>2. image.structs[s] \in RawStructs
    BY <2>1
  <2> QED
    BY <1>2, <1>3, <2>2 DEF RawStructs
<1>5. f \in DOMAIN fields /\ field \in S
  BY <1>1, <1>3, <1>4
<1>6. field.type \in Nat /\ field.name \in Nat
  BY <1>2, <1>5
<1>7. field.type < Len(image.types) /\ field.name < Len(image.names)
  BY <1>1, <1>3, <1>5 DEF DnaParses
<1>8. image.names \in Seq(RawNames)
  BY DEF Images
<1>9. PICK raw \in RawNames : raw = image.names[field.name + 1]
  <2>1. field.name + 1 \in DOMAIN image.names
    BY <1>6, <1>7, <1>8
  <2> QED
    BY <1>8, <2>1
<1>10. raw.stars \in Nat /\ raw.dims \in Seq(Int)
  BY DEF RawNames, Junk
<1>11. << >> \in Seq(Int)
  OBVIOUS
<1>12. PICK n : n = ParseName(raw)
  OBVIOUS
<1>13. n.is_fn \in BOOLEAN /\ n.ptr \in Nat /\ n.dims \in Seq(Int)
  <2>1. CASE raw.fn
    BY <1>11, <1>12, <2>1 DEF ParseName
  <2>2. CASE ~ raw.fn
    BY <1>10, <1>12, <2>2 DEF ParseName
  <2> QED
    BY <2>1, <2>2
<1>14. FieldType(image, field) = [inner |-> field.type, is_fn |-> n.is_fn, ptr |-> n.ptr, dims |-> n.dims]
  BY <1>9, <1>12 DEF FieldType
<1>15. FieldType(image, field) \in AnyTypes /\ FieldType(image, field).inner = field.type
  BY <1>6, <1>13, <1>14 DEF AnyTypes
<1> QED
  BY <1>1, <1>6, <1>7, <1>15

LEMMA ParsedTyped ==
  ASSUME NEW image \in Images, NEW len, DnaParses(image, len), dna' = ParseDna(image)
  PROVE  DnaTyped'
<1>1. PICK n \in Nat : DOMAIN dna'.structs = 1 .. n /\ DOMAIN image.structs = 1 .. n
  BY ParsedStructs
<1>2. PICK count \in Nat : Len(dna'.types) = count /\ Len(image.types) = count /\ DOMAIN dna'.types = 1 .. count
  BY ParsedTypes
<1>3. ASSUME NEW s \in DOMAIN dna'.structs, NEW f \in DOMAIN dna'.structs[s].fields
      PROVE  FieldTyped(dna.structs[s].fields[f].type)'
  <2>1. s \in DOMAIN image.structs
    BY <1>1
  <2>2. PICK fields : fields = dna'.structs[s].fields
    OBVIOUS
  <2>3. /\ DOMAIN fields = 1 .. Len(image.structs[s].fields)
        /\ \A g \in 1 .. Len(image.structs[s].fields) :
             fields[g].type = FieldType(image, image.structs[s].fields[g])
    BY <2>1, <2>2, ParsedFields
  <2>4. f \in 1 .. Len(image.structs[s].fields)
    BY <2>2, <2>3
  <2>5. PICK t : t = dna'.structs[s].fields[f].type
    OBVIOUS
  <2>6. t = FieldType(image, image.structs[s].fields[f])
    BY <2>2, <2>3, <2>4, <2>5
  <2>7. t \in AnyTypes /\ t.inner \in Nat /\ t.inner < count
    BY <1>2, <2>1, <2>4, <2>6, FieldTypeIs
  <2> QED
    BY <1>2, <2>5, <2>7 DEF FieldTyped, TypeNumbers
<1> QED
  BY <1>1, <1>2, <1>3 DEF DnaTyped

(* The fields that are written of a type.                                  *)
LEMMA WrittenFieldTyped ==
  ASSUME DnaTyped, NEW type, IsStruct(dna, type), NEW f \in WrittenFields(type)
  PROVE  /\ FieldTyped(f.type)
         /\ f.name \in DOMAIN FieldConfigs(type) \/ IsConfigured(f.type.inner)
<1>1. PICK n \in Nat : DOMAIN dna.structs = 1 .. n
  BY DEF DnaTyped
<1>2. PICK s \in 1 .. n : FieldsOf(dna, type) = dna.structs[s].fields
  BY <1>1, LastStruct
<1>3. f \in Range(FieldsOf(dna, type)) /\ ~ ShouldIgnore(type, f)
  BY DEF WrittenFields
<1>4. PICK k \in DOMAIN dna.structs[s].fields : f = dna.structs[s].fields[k]
  BY <1>2, <1>3 DEF Range
<1>5. FieldTyped(f.type)
  BY <1>1, <1>4 DEF DnaTyped
<1> QED
  BY <1>3, <1>5 DEF ShouldIgnore

(* What the configuration says of a field.                                 *)
FieldConfigOk(fc) ==
  /\ fc = [list |-> fc.list, ptr |-> fc.ptr, len |-> fc.len]
  /\ fc.list \in TypeNumbers \cup {NoType} /\ fc.ptr \in TypeNumbers \cup {NoType}

Given(fc) == fc.list # NoType \/ fc.ptr # NoType \/ fc.len # NoName

FieldsOk(fields) == \A n \in DOMAIN fields : FieldConfigOk(fields[n]) /\ Given(fields[n])

TypesOk == \A name \in DOMAIN types : FieldsOk(types[name].fields)

LEMMA FoundType ==
  ASSUME DnaTyped, NEW name, HasType(dna, name)
  PROVE  FindType(dna, name) \in TypeNumbers
<1>1. PICK n \in Nat : n = Len(dna.types) /\ DOMAIN dna.types = 1 .. n
  BY DEF DnaTyped
<1> DEFINE T == {m \in Nat : m \in 1 .. n /\ dna.types[m].name = name}
           First(k) == dna.types[k].name = name /\ \A j \in 1 .. k - 1 : dna.types[j].name # name
<1>2. PICK x \in T : \A y \in T : x <= y
  <2>1. T \in SUBSET Nat /\ T # {}
    BY <1>1 DEF HasType
  <2> HIDE DEF T
  <2> QED
    BY <2>1, LeastElement
<1>3. ASSUME NEW j \in 1 .. x - 1
      PROVE  dna.types[j].name # name
  <2>1. j \in Nat /\ j \in 1 .. n /\ ~ (x <= j)
    BY <1>2
  <2> QED
    BY <1>2, <2>1
<1>4. x \in 1 .. n /\ First(x)
  BY <1>2, <1>3
<1>5. PICK c : c = CHOOSE k \in 1 .. n : First(k)
  OBVIOUS
<1>6. c \in 1 .. n
  <2> HIDE DEF First
  <2> QED
    BY <1>4, <1>5
<1>7. FindType(dna, name) = c - 1
  BY <1>1, <1>5 DEF FindType
<1> QED
  BY <1>1, <1>6, <1>7 DEF TypeNumbers

LEMMA GenericGiven ==
  ASSUME DnaTyped, NEW fc, FieldConfigOk(fc), NEW l, GenericOk(l), ~ NamesNoType(l), l.arg # NoName
  PROVE  FieldConfigOk(Generic(fc, l)) /\ Given(Generic(fc, l))
<1>1. PICK list0, ptr0, len0 : fc = [list |-> list0, ptr |-> ptr0, len |-> len0]
  BY DEF FieldConfigOk
<1>2. list0 \in TypeNumbers \cup {NoType} /\ ptr0 \in TypeNumbers \cup {NoType}
  BY <1>1 DEF FieldConfigOk
<1>3. NoType \notin TypeNumbers
  BY DEF NoType, TypeNumbers
<1>4. CASE l.generic = "DoubleLinkedList"
  <2>1. PICK found \in TypeNumbers : found = FindType(dna, l.arg)
    BY <1>4, FoundType DEF NamesNoType
  <2>2. Generic(fc, l) = [list |-> found, ptr |-> ptr0, len |-> len0]
    BY <1>1, <1>4, <2>1 DEF Generic
  <2> QED
    BY <1>2, <1>3, <2>1, <2>2 DEF FieldConfigOk, Given
<1>5. CASE l.generic = "Ptr"
  <2>1. PICK found \in TypeNumbers : found = FindType(dna, l.arg)
    BY <1>5, FoundType DEF NamesNoType
  <2>2. Generic(fc, l) = [list |-> list0, ptr |-> found, len |-> len0]
    BY <1>1, <1>5, <2>1 DEF Generic
  <2> QED
    BY <1>2, <1>3, <2>1, <2>2 DEF FieldConfigOk, Given
<1>6. CASE l.generic = "&Array"
  <2>1. Generic(fc, l) = [list |-> list0, ptr |-> ptr0, len |-> l.arg]
    BY <1>1, <1>6 DEF Generic
  <2> QED
    BY <1>2, <2>1 DEF FieldConfigOk, Given
<1> QED
  BY <1>4, <1>5, <1>6 DEF GenericOk

(* A type that the bindings name is known to be in them, or brought in.    *)
Known(b, base) ==
  \/ base.kind = "str"
  \/ base.type = NoType
  \/ base.type \in TypeNumbers /\ (base.type \in BroughtIn(b) \/ IsConfigured(base.type))

BindingOk(b) ==
  /\ b.declared = b.initialized <=> ~ Disputed(b)
  /\ Known(b, b.declared.base) /\ Known(b, b.initialized.base)

LEMMA OwnBaseKnown ==
  ASSUME NEW b, NEW base, OwnBase(b.config, b.field.type, base),
         FieldConfigOk(b.config), FieldTyped(b.field.type),
         Given(b.config) \/ IsConfigured(b.field.type.inner)
  PROVE  Known(b, base)
<1>1. PICK fc, t : fc = b.config /\ t = b.field.type
  OBVIOUS
<1>2. t.inner \in TypeNumbers
  BY <1>1 DEF FieldTyped
<1>3. fc.list \in TypeNumbers \cup {NoType} /\ fc.ptr \in TypeNumbers \cup {NoType}
  BY <1>1 DEF FieldConfigOk
<1>4. CASE base.kind = "str" \/ base.type = NoType
  BY <1>4 DEF Known
<1>5. CASE base.type \in {fc.list, fc.ptr} /\ base.type # NoType
  BY <1>1, <1>3, <1>5 DEF Known, BroughtIn
<1>6. CASE base.type = t.inner /\ fc.len # NoName
  BY <1>1, <1>2, <1>6 DEF Known, BroughtIn
<1>7. CASE base.type = t.inner /\ fc.len = NoName /\ fc.list = NoType /\ fc.ptr = NoType
  BY <1>1, <1>2, <1>7 DEF Known, Given
<1> QED
  BY <1>1, <1>4, <1>5, <1>6, <1>7 DEF OwnBase

LEMMA BindingIsOk ==
  ASSUME DnaTyped, TypesOk, NEW type, IsConfigured(type), IsStruct(dna, type),
         \A f \in Measured(type) : IsPlainPtr(f.type),
         NEW f \in WrittenFields(type), NEW name
  PROVE  BindingOk(Binding(type, f, name))
<1>1. PICK fc, t : fc = Config(type, f) /\ t = f.type
  OBVIOUS
<1>2. FieldTyped(t) /\ (f.name \in DOMAIN FieldConfigs(type) \/ IsConfigured(t.inner))
  BY <1>1, WrittenFieldTyped
<1>3. t \in AnyTypes
  BY <1>2 DEF FieldTyped
<1>4. PICK fields : fields = FieldConfigs(type)
  OBVIOUS
<1>5. FieldsOk(fields)
  BY <1>4 DEF FieldConfigs, IsConfigured, TypesOk
<1>6. FieldConfigOk(fc) /\ (Given(fc) \/ IsConfigured(t.inner))
  <2>1. CASE f.name \in DOMAIN fields
    <3>1. fc = fields[f.name]
      BY <1>1, <1>4, <2>1 DEF Config, ConfiguredField
    <3> QED
      BY <1>5, <2>1, <3>1 DEF FieldsOk
  <2>2. CASE f.name \notin DOMAIN fields
    <3>1. fc = NoFieldConfig
      BY <1>1, <1>4, <2>2 DEF Config, ConfiguredField
    <3>2. FieldConfigOk(fc)
      BY <3>1 DEF NoFieldConfig, FieldConfigOk
    <3> QED
      BY <1>2, <1>4, <2>2, <3>2
  <2> QED
    BY <2>1, <2>2
<1>7. FieldConfigIs(fc)
  BY <1>6 DEF FieldConfigOk, FieldConfigIs, TypeNumbers, NoType
<1>8. fc.len # NoName => IsPlainPtr(t)
  BY <1>1 DEF Measured
<1>9. PICK b : b = Binding(type, f, name)
  OBVIOUS
<1>10. /\ b.config = fc /\ b.field = f /\ b.field.type = t
       /\ b.declared = Declared(fc, t) /\ b.initialized = Initialized(fc, t)
  BY <1>1, <1>9 DEF Binding
<1>11. /\ Declared(fc, t) = Initialized(fc, t) <=> ~ Disputed(b)
       /\ OwnBase(fc, t, Declared(fc, t).base) /\ OwnBase(fc, t, Initialized(fc, t).base)
  BY <1>3, <1>7, <1>8, <1>10, FieldAgrees
<1>12. Known(b, b.declared.base) /\ Known(b, b.initialized.base)
  <2>1. /\ OwnBase(b.config, b.field.type, b.declared.base)
        /\ OwnBase(b.config, b.field.type, b.initialized.base)
        /\ FieldConfigOk(b.config) /\ FieldTyped(b.field.type)
        /\ Given(b.config) \/ IsConfigured(b.field.type.inner)
    BY <1>2, <1>6, <1>10, <1>11
  <2> QED
    BY <2>1, OwnBaseKnown
<1> QED
  BY <1>9, <1>10, <1>11, <1>12 DEF BindingOk

(* All of it, at each place of the program.                                *)
WrittenOk == \A type \in DOMAIN written : \A b \in written[type] : BindingOk(b)

WrittenUpTo == DOMAIN written = {k \in TypeNumbers : k < next /\ IsConfigured(k)}

BindingsInv ==
  /\ DnaTyped
  /\ config \in Configs
  /\ pc \in Before => DOMAIN types = {}
  /\ pc \in Before \cup {"config"} => next = 0 /\ written = Empty
  /\ TypesOk
  /\ next \in Nat
  /\ WrittenOk
  /\ pc = "generate" => WrittenUpTo
  /\ pc = "drop" /\ written # Empty => WrittenUpTo /\ next = Len(dna.types)

LEMMA BindingsInit == Init => BindingsInv
<1> SUFFICES ASSUME Init PROVE BindingsInv
  OBVIOUS
<1>1. dna = NoDna /\ config \in Configs /\ types = << >> /\ next = 0 /\ written = << >> /\ pc = "open"
  BY DEF Init, FileInit, GenInit, Empty
<1>2. DOMAIN << >> = {}
  OBVIOUS
<1> QED
  BY <1>1, <1>2, NoDnaTyped DEF BindingsInv, TypesOk, WrittenOk, Empty

LEMMA BindingKept ==
  ASSUME UNCHANGED <<dna, types>>, NEW b
  PROVE  BindingOk(b)' <=> BindingOk(b)
<1>1. \A k : IsConfigured(k)' <=> IsConfigured(k)
  BY DEF IsConfigured
<1>2. TypeNumbers' = TypeNumbers
  BY DEF TypeNumbers
<1>3. Disputed(b)' <=> Disputed(b)
  BY DEF Disputed, CharType
<1>4. \A base : Known(b, base)' <=> Known(b, base)
  BY <1>1, <1>2 DEF Known, BroughtIn
<1> QED
  BY <1>3, <1>4 DEF BindingOk

LEMMA DnaTypedKept ==
  ASSUME DnaTyped, UNCHANGED dna
  PROVE  DnaTyped'
BY DEF DnaTyped, FieldTyped, TypeNumbers

LEMMA TypesKept ==
  ASSUME TypesOk, UNCHANGED <<dna, types>>
  PROVE  TypesOk'
BY DEF TypesOk, FieldsOk, FieldConfigOk, TypeNumbers

(* A step that writes no binding and reads no configuration.               *)
LEMMA BindingsKept ==
  ASSUME BindingsInv, UNCHANGED <<dna, config, types, next, written>>,
         pc' = pc \/ (pc \in Before /\ pc' \notin {"generate"}) \/ pc' \notin Before \cup {"config", "generate", "drop"}
  PROVE  BindingsInv'
<1>1. DnaTyped' /\ TypesOk'
  BY DnaTypedKept, TypesKept DEF BindingsInv
<1>2. WrittenOk'
  BY BindingKept DEF BindingsInv, WrittenOk
<1>3. WrittenUpTo' <=> WrittenUpTo
  BY DEF WrittenUpTo, TypeNumbers, IsConfigured
<1> QED
  BY <1>1, <1>2, <1>3 DEF BindingsInv

LEMMA LoadBindings ==
  ASSUME BindingsInv, Shape, Loads
  PROVE  BindingsInv'
<1>1. UNCHANGED gvars /\ pc \in Before /\ pc' # "generate"
  BY DEF Loads, Load, Open, ReadHeader, ReadBlock, EndOfFile, ResolveType, Loaded, Refuse, TakeDna, Before
<1>2. UNCHANGED <<config, types, next, written>>
  BY <1>1 DEF gvars
<1>3. CASE dna' = dna
  BY <1>1, <1>2, <1>3, BindingsKept
<1>4. CASE dna' # dna
  <2>1. ReadBlock
    BY <1>4 DEF Loads, Load, Open, ReadHeader, EndOfFile, ResolveType, Loaded, Refuse
  <2>2. PICK k : k = Len(list) + 1
    OBVIOUS
  <2>3. k \in DOMAIN file.blocks /\ file.blocks[k].code = "DNA1" /\ TakeDna(file.blocks[k])
    BY <1>4, <2>1, <2>2 DEF ReadBlock, Refuse
  <2>4. PICK image : image = file.blocks[k].image
    OBVIOUS
  <2>5. image \in Images
    BY <2>3, <2>4, FileShape
  <2>6. DnaParses(image, file.blocks[k].len) /\ dna' = ParseDna(image)
    BY <1>4, <2>3, <2>4 DEF TakeDna
  <2>7. DnaTyped'
    BY <2>5, <2>6, ParsedTyped
  <2>8. DOMAIN types' = {} /\ next' = 0 /\ written' = Empty /\ config' \in Configs
    BY <1>1, <1>2 DEF BindingsInv
  <2>9. TypesOk' /\ WrittenOk'
    BY <2>8 DEF TypesOk, WrittenOk, Empty
  <2>10. pc' # "drop"
    BY <2>1 DEF ReadBlock, Refuse, TakeDna
  <2> QED
    BY <1>1, <2>7, <2>8, <2>9, <2>10 DEF BindingsInv
<1> QED
  BY <1>3, <1>4

LEMMA RunBindings ==
  ASSUME BindingsInv, Run
  PROVE  BindingsInv'
<1>1. UNCHANGED <<dna, gvars>> /\ pc \in Before /\ pc' # "generate"
  BY DumpEnds DEF Run, Exits, TypeNotFound, ReadsNoAddress, DumpType, StartGenerating, StartIterating,
                  SkipBlock, EnterBlock, FollowSegment, EndIterating, Becomes, gvars, Before
<1> QED
  BY <1>1, BindingsKept DEF gvars

(* A line of the configuration.                                            *)
LEMMA LineBindings ==
  ASSUME BindingsInv, MapInv, ConfigLine
  PROVE  BindingsInv'
<1>1. PICK l : l = config[line + 1]
  OBVIOUS
<1>2. /\ pc = "config" /\ pc' \in {"config", "panic", "undefined"} /\ UNCHANGED <<dna, config, next, written>>
      /\ TypeLine(l) \/ FieldLine(l) \/ SkipLine(l)
  BY <1>1 DEF ConfigLine, TypeLine, FieldLine, SkipLine
<1>3. next = 0 /\ written = Empty /\ DnaTyped /\ TypesOk
  BY <1>2 DEF BindingsInv
<1>4. l.kind = "field" => l.arg # NoName
  <2>1. /\ config \in Seq(Range(config))
        /\ \A m \in Range(config) : m.kind = "field" => m.arg # NoName
    BY ConfigsAssumption DEF BindingsInv
  <2>2. line \in Nat /\ line < Len(config)
    BY DEF MapInv, ConfigLine
  <2>3. line + 1 \in DOMAIN config
    BY <2>1, <2>2
  <2>4. l \in Range(config)
    BY <1>1, <2>3 DEF Range
  <2> QED
    BY <2>1, <2>4
<1>5. TypesOk'
  <2> SUFFICES ASSUME NEW name \in DOMAIN types'
               PROVE  FieldsOk(types[name].fields)'
    BY DEF TypesOk
  <2>1. ASSUME NEW fields, FieldsOk(fields) PROVE FieldsOk(fields)'
    BY <1>2, <2>1 DEF FieldsOk, FieldConfigOk, TypeNumbers
  <2>2. CASE UNCHANGED types
    BY <1>3, <2>1, <2>2 DEF TypesOk
  <2>3. CASE TypeLine(l)
    <3>1. types' = Put(types, l.name, [at |-> line + 1, fields |-> Empty])
      BY <2>3 DEF TypeLine
    <3>2. CASE name = l.name
      <4>1. types'[name].fields = Empty
        BY <3>1, <3>2 DEF Put
      <4>2. DOMAIN Empty = {}
        BY DEF Empty
      <4> QED
        BY <4>1, <4>2 DEF FieldsOk
    <3>3. CASE name # l.name
      <4>1. name \in DOMAIN types /\ types'[name] = types[name]
        BY <3>1, <3>3 DEF Put
      <4> QED
        BY <1>3, <2>1, <4>1 DEF TypesOk
    <3> QED
      BY <3>2, <3>3
  <2>4. CASE FieldLine(l) /\ ~ UNCHANGED types
    <3>1. /\ l.kind = "field" /\ GenericOk(l) /\ ~ NamesNoType(l) /\ lastType # NoName
          /\ types' = [types EXCEPT ![lastType].fields =
                         Put(@, l.name, Generic(ConfiguredField(@, l.name), l))]
      BY <2>4 DEF FieldLine, LinePanics, LineUndefined
    <3>2. PICK old : old = types[lastType].fields
      OBVIOUS
    <3>3. PICK value : value = Generic(ConfiguredField(old, l.name), l)
      OBVIOUS
    <3>4. types' = [types EXCEPT ![lastType].fields = Put(old, l.name, value)]
      BY <3>1, <3>2, <3>3
    <3>5. lastType \in DOMAIN types /\ DOMAIN types' = DOMAIN types
      BY <3>1, <3>4 DEF MapInv
    <3>6. FieldsOk(old)
      BY <1>3, <3>2, <3>5 DEF TypesOk
    <3>7. FieldConfigOk(ConfiguredField(old, l.name))
      <4>1. FieldConfigOk(NoFieldConfig)
        BY DEF NoFieldConfig, FieldConfigOk
      <4> QED
        BY <3>6, <4>1 DEF ConfiguredField, FieldsOk
    <3>8. FieldConfigOk(value) /\ Given(value)
      BY <1>3, <1>4, <3>1, <3>3, <3>7, GenericGiven
    <3>9. FieldsOk(Put(old, l.name, value))
      BY <3>6, <3>8 DEF FieldsOk, Put
    <3>10. CASE name = lastType
      <4>1. types[lastType] = [at |-> types[lastType].at, fields |-> types[lastType].fields]
        BY <3>5 DEF MapInv
      <4>2. PICK new : new = Put(old, l.name, value)
        OBVIOUS
      <4>3. types'[lastType] = [types[lastType] EXCEPT !.fields = new]
        BY <3>4, <3>5, <4>2
      <4>4. types'[lastType].fields = new
        BY <4>1, <4>3
      <4> QED
        BY <2>1, <3>9, <3>10, <4>2, <4>4
    <3>11. CASE name # lastType
      <4>1. name \in DOMAIN types /\ types'[name] = types[name]
        BY <3>4, <3>5, <3>11
      <4> QED
        BY <1>3, <2>1, <4>1 DEF TypesOk
    <3> QED
      BY <3>10, <3>11
  <2> QED
    BY <1>2, <2>2, <2>3, <2>4 DEF SkipLine
<1>6. WrittenOk'
  BY <1>2, <1>3 DEF WrittenOk, Empty
<1>7. DnaTyped'
  BY <1>2, <1>3, DnaTypedKept
<1> QED
  BY <1>2, <1>3, <1>5, <1>6, <1>7 DEF BindingsInv, Before

LEMMA GenerateBindings ==
  ASSUME BindingsInv, GenerateType
  PROVE  BindingsInv'
<1>1. /\ pc = "generate" /\ next \in Nat /\ next < Len(dna.types) /\ next' = next + 1
      /\ UNCHANGED <<dna, config, types>>
  BY DEF GenerateType, GenerateStruct, BindingsInv
<1>2. DnaTyped /\ TypesOk /\ WrittenOk /\ WrittenUpTo /\ Len(dna.types) \in Nat
  BY <1>1 DEF BindingsInv, DnaTyped
<1>3. TypeNumbers' = TypeNumbers /\ (\A k : IsConfigured(k)' <=> IsConfigured(k))
  BY <1>1 DEF TypeNumbers, IsConfigured
<1>4. pc' \in {"generate", "panic", "undefined"}
  BY <1>1 DEF GenerateType, GenerateStruct
<1>5. next \in TypeNumbers
  BY <1>1 DEF TypeNumbers
<1>6. CASE UNCHANGED written
  <2>1. WrittenOk'
    BY <1>1, <1>2, <1>6, BindingKept DEF WrittenOk
  <2>2. pc' = "generate" => ~ IsConfigured(next)
    <3> SUFFICES ASSUME pc' = "generate", IsConfigured(next) PROVE FALSE
      OBVIOUS
    <3>1. \E all : written' = Put(written, next, all)
      BY <1>1 DEF GenerateType, GenerateStruct
    <3>2. next \in DOMAIN written'
      BY <3>1 DEF Put
    <3> QED
      BY <1>1, <1>2, <1>6, <3>2 DEF WrittenUpTo
  <2>3. pc' = "generate" => WrittenUpTo'
    <3> SUFFICES ASSUME pc' = "generate" PROVE WrittenUpTo'
      OBVIOUS
    <3>1. ASSUME NEW k \in TypeNumbers, IsConfigured(k)
          PROVE  k < next <=> k < next + 1
      BY <1>1, <2>2, <3>1 DEF TypeNumbers
    <3> QED
      BY <1>1, <1>2, <1>3, <1>6, <3>1 DEF WrittenUpTo
  <2> QED
    BY <1>1, <1>2, <1>4, <2>1, <2>3, DnaTypedKept, TypesKept DEF BindingsInv, Before
<1>7. CASE ~ UNCHANGED written
  <2>1. IsConfigured(next) /\ pc' = "generate"
    BY <1>1, <1>7 DEF GenerateType, GenerateStruct
  <2>2. PICK all : written' = Put(written, next, all) /\ \A b \in all : BindingOk(b)
    <3>1. CASE ~ IsStruct(dna, next)
      BY <1>7, <2>1, <3>1 DEF GenerateType, GenerateStruct
    <3>2. CASE IsStruct(dna, next)
      <4>1. \A f \in Measured(next) : IsPlainPtr(f.type)
        BY <1>7, <2>1, <3>2 DEF GenerateType, GenerateStruct
      <4>2. PICK found \in {TRUE, ~ Freed} :
              written' = Put(written, next,
                {Binding(next, f, IF Config(next, f).len = NoName \/ found
                                  THEN Config(next, f).len ELSE "?") : f \in WrittenFields(next)})
        BY <1>7, <2>1, <3>2, <4>1 DEF GenerateType, GenerateStruct
      <4>3. PICK all : all = {Binding(next, f, IF Config(next, f).len = NoName \/ found
                                               THEN Config(next, f).len ELSE "?") : f \in WrittenFields(next)}
        OBVIOUS
      <4>4. ASSUME NEW b \in all PROVE BindingOk(b)
        <5>1. PICK f \in WrittenFields(next) : \E name : b = Binding(next, f, name)
          BY <4>3
        <5>2. PICK name : b = Binding(next, f, name)
          BY <5>1
        <5> QED
          BY <1>2, <2>1, <3>2, <4>1, <5>2, BindingIsOk
      <4> QED
        BY <4>2, <4>3, <4>4
    <3> QED
      BY <3>1, <3>2
  <2>3. DOMAIN written' = DOMAIN written \cup {next} /\ written'[next] = all
        /\ \A k \in DOMAIN written : k # next => written'[k] = written[k]
    BY <2>2 DEF Put
  <2>4. WrittenOk'
    <3> SUFFICES ASSUME NEW k \in DOMAIN written', NEW b \in written'[k]
                 PROVE  BindingOk(b)'
      BY DEF WrittenOk
    <3>1. BindingOk(b)
      BY <1>2, <2>2, <2>3 DEF WrittenOk
    <3> QED
      BY <1>1, <3>1, BindingKept
  <2>5. WrittenUpTo'
    <3>1. ASSUME NEW k \in TypeNumbers
          PROVE  k < next + 1 <=> k < next \/ k = next
      BY <1>1 DEF TypeNumbers
    <3>2. DOMAIN written = {k \in TypeNumbers : k < next /\ IsConfigured(k)}
      BY <1>2 DEF WrittenUpTo
    <3>3. DOMAIN written' = {k \in TypeNumbers : k < next + 1 /\ IsConfigured(k)}
      BY <1>5, <2>1, <2>3, <3>1, <3>2
    <3> QED
      BY <1>1, <1>3, <3>3 DEF WrittenUpTo
  <2> QED
    BY <1>1, <1>2, <2>1, <2>4, <2>5, DnaTypedKept, TypesKept DEF BindingsInv, Before
<1> QED
  BY <1>6, <1>7

LEMMA BindingsNext ==
  ASSUME BindingsInv, Shape, MapInv, [Next]_vars
  PROVE  BindingsInv'
<1>1. CASE Loads
  BY <1>1, LoadBindings
<1>2. CASE Run
  BY <1>2, RunBindings
<1>3. CASE ConfigLine
  BY <1>3, LineBindings
<1>4. CASE ConfigEnds
  <2>1. pc = "config" /\ pc' = "generate" /\ UNCHANGED <<dna, config, types, next, written>>
    BY <1>4 DEF ConfigEnds, gvars
  <2>2. next = 0 /\ written = Empty /\ DnaTyped /\ TypesOk
    BY <2>1 DEF BindingsInv
  <2>3. DOMAIN written' = {} /\ next' = 0
    BY <2>1, <2>2 DEF Empty
  <2>4. WrittenUpTo' /\ WrittenOk'
    BY <2>3 DEF WrittenUpTo, WrittenOk, TypeNumbers
  <2> QED
    BY <2>1, <2>2, <2>3, <2>4, DnaTypedKept, TypesKept DEF BindingsInv, Before
<1>5. CASE GenerateType
  BY <1>5, GenerateBindings
<1>6. CASE DropConfig
  <2>1. pc = "generate" /\ next = Len(dna.types) /\ pc' = "drop"
        /\ UNCHANGED <<dna, config, types, next, written>>
    BY <1>6 DEF DropConfig, gvars
  <2>2. DnaTyped' /\ TypesOk'
    BY <2>1, DnaTypedKept, TypesKept DEF BindingsInv
  <2>3. WrittenOk'
    BY <2>1, BindingKept DEF BindingsInv, WrittenOk
  <2>4. WrittenUpTo'
    BY <2>1 DEF BindingsInv, WrittenUpTo, TypeNumbers, IsConfigured
  <2> QED
    BY <2>1, <2>2, <2>3, <2>4 DEF BindingsInv, Before
<1>7. CASE Drop /\ UNCHANGED gvars
  <2>1. UNCHANGED <<dna, config, types, next, written>>
        /\ (pc' = pc \/ pc' \notin Before \cup {"config", "generate", "drop"})
    BY <1>7 DEF Drop, DropBlock, DropDna, Frees, gvars, Before
  <2> QED
    BY <2>1, BindingsKept
<1>8. CASE UNCHANGED vars
  BY <1>8, BindingsKept DEF vars, fvars, gvars
<1> QED
  BY <1>1, <1>2, <1>3, <1>4, <1>5, <1>6, <1>7, <1>8 DEF Next, Generate

LEMMA BindingsAlways == Spec => []BindingsInv
<1>1. Init => Shape /\ MapInv /\ BindingsInv
  BY ShapeInit, MapInit, BindingsInit
<1>2. Shape /\ MapInv /\ BindingsInv /\ [Next]_vars => Shape' /\ MapInv' /\ BindingsInv'
  BY ShapeNext, MapNext, BindingsNext
<1> QED
  BY <1>1, <1>2, PTL DEF Spec

(* The bindings of any file and configuration are initialized as they are  *)
(* declared but for the disputed fields, which they never are              *)
(* (init_kast_from_obj and write_as_kast_type).                            *)
THEOREM BindingsAgree == Spec => []DeclaredAsInitialized
<1>1. BindingsInv => DeclaredAsInitialized
  BY DEF BindingsInv, WrittenOk, BindingOk, DeclaredAsInitialized
<1> QED
  BY <1>1, BindingsAlways, PTL

(* The bindings refer to what is in them, once the types are configured    *)
(* that the configurations of fields bring in (generate_Type_bindings).    *)
THEOREM BindingsClosed == Spec => []BindingsAreClosed
<1>1. BindingsInv => BindingsAreClosed
  <2> SUFFICES ASSUME BindingsInv, pc = "drop", written # Empty,
                      NEW type \in DOMAIN written, NEW b \in written[type],
                      \A t \in BroughtIn(b) : IsConfigured(t),
                      NEW base \in {b.declared.base, b.initialized.base}
               PROVE  base.kind = "str" \/ base.type \in DOMAIN written \cup {NoType}
    BY DEF BindingsAreClosed
  <2>1. Known(b, base)
    BY DEF BindingsInv, WrittenOk, BindingOk
  <2>2. WrittenUpTo /\ next = Len(dna.types)
    BY DEF BindingsInv
  <2>3. \A k \in TypeNumbers : IsConfigured(k) => k \in DOMAIN written
    BY <2>2 DEF WrittenUpTo, TypeNumbers
  <2> QED
    BY <2>1, <2>3 DEF Known
<1> QED
  BY <1>1, BindingsAlways, PTL
=============================================================================
