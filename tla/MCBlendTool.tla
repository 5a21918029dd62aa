---------------------------- MODULE MCBlendTool ----------------------------
(* Files, configurations and commands for TLC.                             *)
EXTENDS BlendTool, TLC

Name(stars, ident, dims, bytes) ==
  [fn |-> FALSE, stars |-> stars, ident |-> ident, dims |-> dims, bytes |-> bytes]

Names ==
  << Name(0, "name", <<8>>, 7), Name(1, "next", << >>, 5), Name(1, "data", << >>, 5),
     Name(0, "id", << >>, 2), Name(0, "co", <<2, 3>>, 8), Name(1, "labels", <<2>>, 10),
     Name(0, "tags", <<2, 4>>, 10), Name(2, "mat", << >>, 5), Name(1, "label", << >>, 6),
     [Name(0, "(*f)()", << >>, 6) EXCEPT !.fn = TRUE],
     Name(0, "_pad", <<4>>, 7), Name(0, "num", << >>, 3), Name(1, "items", << >>, 6),
     Name(0, "children", << >>, 8), Name(1, "last", << >>, 5) >>

(* char, int, void, ID, Item, ListBase and Mesh; `more' bytes of a name.   *)
Types(more) ==
  << [name |-> "char", size |-> 1, bytes |-> 4], [name |-> "int", size |-> 4, bytes |-> 3],
     [name |-> "void", size |-> 0, bytes |-> 4], [name |-> "ID", size |-> 16, bytes |-> 2],
     [name |-> "Item", size |-> 24, bytes |-> 4],
     [name |-> "ListBase", size |-> 16, bytes |-> 8],
     [name |-> "Mesh", size |-> 136, bytes |-> 4 + more] >>

Field(type, name) == [type |-> type, name |-> name]

Structs ==
  << [type |-> 3, fields |-> <<Field(0, 0), Field(3, 1)>>],
     [type |-> 4, fields |-> <<Field(3, 3), Field(1, 11), Field(0, 10)>>],
     [type |-> 5, fields |-> <<Field(2, 1), Field(2, 2)>>],
     [type |-> 6, fields |-> <<Field(3, 3), Field(2, 2), Field(1, 4), Field(0, 5),
         Field(0, 6), Field(0, 7), Field(0, 8), Field(1, 11), Field(0, 10),
         Field(4, 12), Field(5, 13), Field(2, 9), Field(4, 14)>>] >>

Image(more) ==
  LET typ  == NextMultipleOf4(12 + Strings(Names))
      tlen == NextMultipleOf4(typ + 8 + Strings(Types(more)))
  IN  [ names |-> Names, types |-> Types(more), structs |-> Structs,
        magics |-> [ TYPE |-> typ, TLEN |-> tlen,
                     STRC |-> NextMultipleOf4(tlen + 4 + 2 * Len(Types(more))) ] ]

(* A type is defined twice, and again: there are more structs than types.  *)
MoreStructs == [Image(0) EXCEPT !.structs = Structs \o Structs]

Block(code, sdna, old, len, ptrs) ==
  [code |-> code, sdna |-> sdna, old |-> old, len |-> len, ptrs |-> ptrs, nul |-> len > 0]

DnaBlock(image) ==
  [ code |-> "DNA1", sdna |-> 0, old |-> 9, ptrs |-> << >>, nul |-> TRUE, image |-> image,
    len |-> WrittenLen(image) ]

FileOf(blocks) ==
  [ exists |-> TRUE, header |-> [spelt |-> TRUE, size |-> HeaderBytes], blocks |-> blocks,
    size |-> EndOf(HeaderBytes, BlockSizes(blocks)) ]

At(at, address) == [o \in {at} |-> address]

(* A mesh with its two items, the label behind it, and an ID on its own.   *)
Mesh  == Block("ME", 3, 1, 136,
               At(16, 4) @@ At(48, 5) @@ At(72, 6) @@ At(80, 5) @@ At(96, 2) @@ At(120, 7))
Items == Block("DATA", 1, 2, 48, At(8, 4))
Id    == Block("ID", 0, 4, 16, At(8, 1))
Label == Block("DATA", 0, 5, 4, << >>)
Mats  == Block("DATA", 0, 6, 8, At(0, 4))

WrittenWith(mesh, label, more) ==
  FileOf(<<mesh, Items, Id, label, Mats, DnaBlock(Image(more))>>)

Written(more) == WrittenWith(Mesh, Label, more)

(* A label without its end, without bytes, that is NULL or nowhere.        *)
BadLabels ==
  { WrittenWith(Mesh, [Label EXCEPT !.nul = FALSE], 0),
    WrittenWith(Mesh, [Label EXCEPT !.len = 0, !.nul = FALSE], 0),
    WrittenWith([Mesh EXCEPT !.ptrs[80] = 0], Label, 0),
    WrittenWith([Mesh EXCEPT !.ptrs[80] = 3], Label, 0) }

Broken(image) == FileOf(<<Id, DnaBlock(image)>>)

MCFiles ==
  {Written(more) : more \in 0 .. 3} \cup BadLabels \cup
  { [Written(0) EXCEPT !.exists = FALSE],
    [Written(0) EXCEPT !.header.spelt = FALSE],
    [Written(0) EXCEPT !.size = @ - 1],
    FileOf(<< >>),
    FileOf(<<Id>>),
    FileOf(<<DnaBlock(Image(0)), DnaBlock(Image(0))>>),
    FileOf(<<[Id EXCEPT !.sdna = 5], DnaBlock(Image(0))>>),
    FileOf(<<[Id EXCEPT !.sdna = 9], DnaBlock(Image(0))>>),
    Broken([Image(0) EXCEPT !.names[1].dims = <<1, 2, 3, 4>>]),
    FileOf(<<[Id EXCEPT !.sdna = 7], DnaBlock(MoreStructs)>>),
    Broken([Image(0) EXCEPT !.magics.TYPE = @ + 1]),
    Broken([Image(0) EXCEPT !.structs[2].type = 7]) }

MCUnderscored == {"_pad"}

Type(name) == [kind |-> "type", name |-> name]
Of(name, generic, arg) ==
  [kind |-> "field", name |-> name, generic |-> generic, arg |-> arg,
   dot |-> TRUE, spelt |-> TRUE]
Skip == [kind |-> "skip"]

MCConfigs ==
  { <<Type("ID"), Type("char"), Skip, Type("Mesh"), Of("data", "Ptr", "ID"),
      Of("items", "&Array", "num"), Of("children", "DoubleLinkedList", "Item"), Type("Item")>>,
    <<Type("int"), Type("Mesh"), Of("data", "Ptr", "ID"), Type("Mesh"), Of("labels", "Ptr", "char"),
      Of("items", "&Array", "num"), Of("items", "Ptr", "Item")>>,
    <<Type("Mesh"), Of("children", "DoubleLinkedList", "char"), Of("mat", "&Array", "num"),
      Type("char"), Type("ID")>>,
    <<Type("Mesh"), Of("id", "&Array", "num")>>,
    <<Of("data", "Ptr", "ID")>>,
    <<Type("ID"), Of("next", "Ptr", "Nothing")>>,
    <<Type("ID"), [Of("next", "Ptr", "ID") EXCEPT !.spelt = FALSE]>> }

Cmd(kind, arg) == [kind |-> kind, arg |-> arg, addr |-> 0, path |-> << >>, bytes |-> FALSE]
F(name)   == [kind |-> "name", name |-> name]
I(i)      == [kind |-> "index", i |-> i]
Star      == [kind |-> "*"]
Path(p)   == [Cmd("dump-blocks-with-type", "Mesh") EXCEPT !.path = p]
Bytes(p)  == [Path(p) EXCEPT !.bytes = TRUE]

MCCommands ==
  { Cmd("unknown", NoArg), Cmd("dump-type", NoArg), Cmd("dump-type", "Mesh"),
    Cmd("dump-type", "Nothing"), Cmd("dump-blocks", NoArg), Cmd("dump-blocks", "DATA"),
    Cmd("dump-blocks-with-type", NoArg), Cmd("dump-block-at", NoArg),
    [Cmd("dump-block-at", NoArg) EXCEPT !.addr = 1], [Cmd("dump-block-at", NoArg) EXCEPT !.addr = 3],
    [Cmd("dump-block-at", NoArg) EXCEPT !.addr = 6],
    Cmd("generate-bindings", "stdout"), Cmd("generate-bindings", "not writable"),
    Path(<< >>), Bytes(<< >>), Path(<<F("id")>>), Path(<<F("id"), F("name"), I(7)>>),
    Bytes(<<F("id"), F("name"), I(8)>>), Path(<<F("co"), I(1), I(2)>>), Bytes(<<F("co"), I(1)>>),
    Path(<<F("last")>>), Path(<<F("last"), F("num")>>), Path(<<F("co"), F("id")>>), Path(<<F("nothing")>>),
    Path(<<F("items"), I(1)>>), Path(<<F("items"), I(1), F("num")>>),
    Bytes(<<F("items"), I(2)>>), Path(<<F("items"), Star, F("id"), F("next"), Star, F("next"), Star>>),
    Path(<<F("labels"), I(1), Star>>), Path(<<F("mat"), Star>>), Path(<<F("mat"), Star, Star, F("next"), Star>>), Path(<<F("mat"), I(0), I(0)>>),
    Path(<<F("label"), Star>>), Path(<<F("data"), Star>>), Path(<<F("num"), Star>>),
    Path(<<F("num"), I(0)>>), Path(<<F("tags"), I(1)>>), Path(<<F("children")>>) }

MCPrims == [int |-> 4, short |-> 2, int8_t |-> 1, int64_t |-> 8, char |-> 1]
=============================================================================
