--------------------------- MODULE BlendBindings ----------------------------
(***************************************************************************)
(* The generator of Kast bindings: init_config, which reads                *)
(* blend-parser/config.txt, and Blend_generate_bindings, which writes for  *)
(* every configured type its declaration and the code that makes a Kast    *)
(* value of a Blend_Obj (blend-parser/blend.c, lines 903-1430).            *)
(*                                                                         *)
(* A line of the configuration is abstracted to what it says; a written    *)
(* Kast type to the references and arrays around what they are of.         *)
(***************************************************************************)
EXTENDS BlendFile, Functions

CONSTANTS
  Configs,      (* bound: the configurations the generator is run with     *)
  Underscored   (* the identifiers that begin with an underscore           *)

NoName == ""

(* NoName is NULL, which no argument is, not even one without a letter.    *)
ASSUME ConfigsAssumption ==
  \A c \in Configs :
    /\ c \in Seq(Range(c))
    /\ \A l \in Range(c) : l.kind = "field" => l.arg # NoName

VARIABLES
  config,    (* the lines of config.txt                                    *)
  line,      (* how many of them have been read                            *)
  lastType,  (* last_type_name, or NoName                                  *)
  types,     (* CONFIG.types: [at: the line, fields: [name -> FieldConfig]]*)
  next,      (* the number of the type the generator is at                 *)
  written    (* what it has written, for each type by its number           *)

gvars == <<config, line, lastType, types, next, written>>

(* Blend_StringMap, a trie, as the map from keys to values that it is; a   *)
(* key that is not there gives NULL.                                       *)
Empty == << >>
Put(map, key, value) == [k \in DOMAIN map \cup {key} |-> IF k = key THEN value ELSE map[k]]

GenInit ==
  /\ config \in Configs
  /\ line = 0
  /\ lastType = NoName
  /\ types = Empty
  /\ next = 0
  /\ written = Empty

-----------------------------------------------------------------------------
(* init_config.                                                            *)

NoFieldConfig == [list |-> NoType, ptr |-> NoType, len |-> NoName]

(* config_generic_field; a second generic for a field adds to the first.   *)
(* The name of a missing type is given to %s as a struct (line 422).       *)
NamesNoType(l) == l.generic \in {"DoubleLinkedList", "Ptr"} /\ ~ HasType(dna, l.arg)

GenericOk(l) ==
  l.generic \in {"DoubleLinkedList", "Ptr"} \/ (l.generic = "&Array" /\ l.dot)

Generic(fieldConfig, l) ==
  CASE l.generic = "DoubleLinkedList" -> [fieldConfig EXCEPT !.list = FindType(dna, l.arg)]
    [] l.generic = "Ptr"              -> [fieldConfig EXCEPT !.ptr = FindType(dna, l.arg)]
    [] l.generic = "&Array"           -> [fieldConfig EXCEPT !.len = l.arg]

ConfiguredField(fields, name) ==
  IF name \in DOMAIN fields THEN fields[name] ELSE NoFieldConfig

(* A line that is not spelt as it should be may be read past its end,     *)
(* skip_str knowing no length and the name of a generic having a wrong one *)
(* when its bracket comes too early.                                       *)
LineUndefined(l) == ~ l.spelt \/ NamesNoType(l)

LinePanics(l) == lastType = NoName \/ LineUndefined(l) \/ ~ GenericOk(l)

(* A type's line; a type that is there already is begun anew, and its      *)
(* earlier configuration leaks.                                            *)
TypeLine(l) ==
  /\ l.kind = "type"
  /\ lastType' = l.name
  /\ types' = Put(types, l.name, [at |-> line + 1, fields |-> Empty])
  /\ live' = live \cup {<<"type config", line + 1>>}
  /\ UNCHANGED pc

FieldLine(l) ==
  /\ l.kind = "field"
  /\ IF LinePanics(l)
     THEN /\ pc' \in IF lastType # NoName /\ LineUndefined(l)
                     THEN {"panic", "undefined"} ELSE {"panic"}
          /\ UNCHANGED <<lastType, types, live>>
     ELSE /\ types' = [types EXCEPT ![lastType].fields =
                         Put(@, l.name, Generic(ConfiguredField(@, l.name), l))]
          /\ UNCHANGED <<pc, lastType, live>>

(* An empty line or a comment.                                             *)
SkipLine(l) == l.kind = "skip" /\ UNCHANGED <<pc, lastType, types, live>>

ConfigLine ==
  /\ pc = "config"
  /\ line < Len(config)
  /\ TypeLine(config[line + 1]) \/ FieldLine(config[line + 1]) \/ SkipLine(config[line + 1])
  /\ line' = line + 1
  /\ UNCHANGED <<file, offset, list, dna, node, config, next, written>>

(* The text of config.txt is freed.  The names of types have been copied   *)
(* into the trie; array_len_field_name still points into the text.         *)
ConfigEnds ==
  /\ pc = "config"
  /\ line = Len(config)
  /\ pc' = "generate"
  /\ live' = live \ {<<"config text", 0>>}
  /\ UNCHANGED <<file, offset, list, dna, node, gvars>>

-----------------------------------------------------------------------------
(* The Kast types that are written.                                        *)

Base(kind, type) == [kind |-> kind, type |-> type]
Str == Base("str", NoType)

Array(n)  == [of |-> "Array", len |-> n]
Option    == [of |-> "Option", len |-> 0]
ArrayList == [of |-> "ArrayList", len |-> 0]

Kast(around, base) == [around |-> around, base |-> base]
Around(wrap, kast) == [kast EXCEPT !.around = <<wrap>> \o @]

IsStr(t) ==
  /\ IsChar(dna, t)
  /\ \/ t.dims = << >> /\ t.ptr = 1
     \/ Len(t.dims) = 1 /\ t.ptr = 0

StrOf(t) == Kast(IF t.ptr = 1 THEN <<Option>> ELSE << >>, Str)

(* write_as_kast_type: a string only when the whole type is one.           *)
WriteAsKastType(t) ==
  IF IsStr(t) THEN StrOf(t)
  ELSE Kast([d \in 1 .. Len(t.dims) |-> Array(t.dims[d])] \o [p \in 1 .. t.ptr |-> Option],
            Base("named", t.inner))

(* The type after the first d of its arrays and pointers.                  *)
Within(t, d) ==
  IF d <= Len(t.dims) THEN [t EXCEPT !.dims = SubSeq(@, d + 1, Len(@))]
  ELSE [t EXCEPT !.dims = << >>, !.ptr = @ - (d - Len(t.dims))]

(* Mutant: arrays and pointers of strings are taken for what is declared.  *)
InitAsDeclared(t) == WriteAsKastType(t)

(* init_kast_from_obj: the type of the expression it writes for a type     *)
(* without configuration; what is in an array or behind a pointer is taken *)
(* for a string wherever it can be.                                        *)
InitKastFromObj(t) ==
  LET depth == Len(t.dims) + t.ptr
      expr[d \in 0 .. depth] ==
        LET u == Within(t, d)
        IN  IF IsStr(u) THEN StrOf(u)
            ELSE IF u.dims # << >> THEN Around(Array(u.dims[1]), expr[d + 1])
            ELSE IF u.ptr > 0 THEN Around(Option, expr[d + 1])
            ELSE Kast(<< >>, Base("named", u.inner))
  IN  expr[0]

-----------------------------------------------------------------------------
(* generate_Type_bindings.                                                 *)

IsConfigured(type) == dna.types[type + 1].name \in DOMAIN types

FieldConfigs(type) ==
  IF IsConfigured(type) THEN types[dna.types[type + 1].name].fields ELSE Empty

(* Mutant: fields of types that are not configured are only ignored when   *)
(* their name says so.                                                     *)
ShouldIgnoreUnderscored(type, field) ==
  /\ field.name \notin DOMAIN FieldConfigs(type)
  /\ field.name \in Underscored

(* should_ignore_field.                                                    *)
ShouldIgnore(type, field) ==
  /\ field.name \notin DOMAIN FieldConfigs(type)
  /\ \/ field.name \in Underscored
     \/ ~ IsConfigured(field.type.inner)

(* pointed_type panics unless it is given a pointer.                       *)
IsPlainPtr(t) == t.dims = << >> /\ t.ptr > 0

(* The declaration of a field: a list, a pointer or an array, in this      *)
(* order, if it is configured, else its type.                              *)
Declared(fc, t) ==
  IF fc.list # NoType THEN Kast(<< >>, Base("list", fc.list))
  ELSE IF fc.ptr # NoType THEN Kast(<<Option>>, Base("named", fc.ptr))
  ELSE IF fc.len # NoName
  THEN Around(Option, Around(ArrayList, WriteAsKastType(PointedType(t))))
  ELSE WriteAsKastType(t)

(* The initialization: an array first.  The nodes of a list are given as   *)
(* what a pointer to them is converted to.                                 *)
Initialized(fc, t) ==
  IF fc.len # NoName
  THEN Around(Option, Around(ArrayList, InitKastFromObj(PointedType(t))))
  ELSE IF fc.list # NoType
  THEN IF InitKastFromObj(FullType(fc.list, 1, << >>)) = Kast(<<Option>>, Base("named", fc.list))
       THEN Kast(<< >>, Base("list", fc.list)) ELSE Kast(<< >>, Base("list", NoType))
  ELSE IF fc.ptr # NoType THEN InitKastFromObj(FullType(fc.ptr, 1, << >>))
  ELSE InitKastFromObj(t)

(* The fields that are declared (not in a comment) and initialized.        *)
WrittenFields(type) ==
  {f \in Range(FieldsOf(dna, type)) : ~ f.type.is_fn /\ ~ ShouldIgnore(type, f)}

Config(type, f) == ConfiguredField(FieldConfigs(type), f.name)

(* The fields whose length is read from another one, and those of them     *)
(* that are declared as arrays.                                            *)
Measured(type) == {f \in WrittenFields(type) : Config(type, f).len # NoName}

DeclaredArrays(type) ==
  {f \in Measured(type) : Config(type, f).list = NoType /\ Config(type, f).ptr = NoType}

Binding(type, f, name) ==
  [ field |-> f, config |-> Config(type, f),
    declared |-> Declared(Config(type, f), f.type),
    initialized |-> Initialized(Config(type, f), f.type),
    length |-> name ]

(* ConfigEnds has freed what array_len_field_name points into.             *)
Freed == <<"config text", 0>> \notin live

(* A struct: every declaration first, and then every initialization, which *)
(* reads the name of a length field from where config.txt was.  That may   *)
(* be undefined, or it finds the name, or something else.                  *)
GenerateStruct(type) ==
  IF \E f \in DeclaredArrays(type) : ~ IsPlainPtr(f.type)
  THEN pc' = "panic" /\ UNCHANGED written
  ELSE \/ /\ Freed /\ Measured(type) # {}
          /\ pc' = "undefined"
          /\ UNCHANGED written
       \/ /\ \E f \in Measured(type) : ~ IsPlainPtr(f.type)
          /\ pc' = "panic"
          /\ UNCHANGED written
       \/ /\ \A f \in Measured(type) : IsPlainPtr(f.type)
          /\ UNCHANGED pc
          /\ \E found \in {TRUE, ~ Freed} :
               written' = Put(written, type,
                 {Binding(type, f, IF Config(type, f).len = NoName \/ found
                                   THEN Config(type, f).len ELSE "?") :
                    f \in WrittenFields(type)})

(* One turn of the loop over the types of the file.                        *)
GenerateType ==
  /\ pc = "generate"
  /\ next < Len(dna.types)
  /\ next' = next + 1
  /\ \/ ~ IsConfigured(next) /\ UNCHANGED <<pc, written>>
     \/ /\ IsConfigured(next) /\ ~ IsStruct(dna, next)
        /\ written' = Put(written, next, {})
        /\ UNCHANGED pc
     \/ IsConfigured(next) /\ IsStruct(dna, next) /\ GenerateStruct(next)
  /\ UNCHANGED <<file, offset, list, dna, node, live, config, line, lastType, types>>

(* What Blend_StringMap_drop finds in the map: one value for a key.        *)
TypeConfigs == {<<"type config", types[name].at>> : name \in DOMAIN types}

(* drop_config frees what is still in the map.                             *)
DropConfig ==
  /\ pc = "generate"
  /\ next = Len(dna.types)
  /\ pc' = "drop"
  /\ node' = 1
  /\ live' = live \ TypeConfigs
  /\ UNCHANGED <<file, offset, list, dna, gvars>>

Generate == ConfigLine \/ ConfigEnds \/ GenerateType \/ DropConfig

-----------------------------------------------------------------------------
(* Properties.                                                             *)

CharType(type) == type # NoType /\ dna.types[type + 1].name = "char"

(* Where the two passes over a type disagree: on arrays of strings and     *)
(* pointers to strings, on a configured list of or pointer to char, and on *)
(* a field that is configured as an array and as something else.           *)
Disputed(b) ==
  LET fc == b.config
  IN  \/ fc.len = NoName /\ (CharType(fc.list) \/ (fc.list = NoType /\ CharType(fc.ptr)))
      \/ fc.len # NoName /\ (fc.list # NoType \/ fc.ptr # NoType)
      \/ /\ fc.list = NoType /\ fc.ptr = NoType
         /\ IsChar(dna, b.field.type)
         /\ Len(b.field.type.dims) + b.field.type.ptr > (IF fc.len = NoName THEN 1 ELSE 2)

(* Every field is initialized with a value of the type it is declared      *)
(* with, but for the disputed ones, where Kast refuses the bindings        *)
(* (lines 903-931 against 1141-1214; 1251-1283 against 1296-1335).         *)
DeclaredAsInitialized ==
  \A type \in DOMAIN written : \A b \in written[type] :
    (b.declared = b.initialized) <=> ~ Disputed(b)

(* The types that a configured field brings in.                            *)
BroughtIn(b) ==
  ({b.config.list, b.config.ptr} \ {NoType}) \cup
  (IF b.config.len # NoName THEN {b.field.type.inner} ELSE {})

(* The bindings are closed: what they refer to is in them, if those types  *)
(* are configured that the configuration of a field names or points to     *)
(* (lines 1216-1228: an unconfigured type is ignored only in a field that  *)
(* is not configured itself).                                              *)
BindingsAreClosed ==
  pc = "drop" /\ written # Empty =>
    \A type \in DOMAIN written : \A b \in written[type] :
      (\A t \in BroughtIn(b) : IsConfigured(t)) =>
        \A base \in {b.declared.base, b.initialized.base} :
          base.kind = "str" \/ base.type \in DOMAIN written \cup {NoType}
=============================================================================
