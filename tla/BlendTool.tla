----------------------------- MODULE BlendTool ------------------------------
(***************************************************************************)
(* The blend-parser program (blend-parser/main.c): it loads the file, runs *)
(* one command on it and frees what it loaded.                             *)
(*                                                                         *)
(* A command is its arguments: a kind, and the argument or NoArg.  Each    *)
(* turn of the loop over the blocks, each segment of a path and each line  *)
(* of the configuration is a step.                                         *)
(***************************************************************************)
EXTENDS BlendObj, BlendBindings

CONSTANT
  Commands   (* bound: the arguments the program may be started with       *)

(* Blend_Obj_get_field takes a segment for an index, a star or a name; an  *)
(* index is what strtoull gives.                                           *)
ASSUME CommandsAssumption ==
  \A c \in Commands :
    /\ c.path \in Seq(Range(c.path))
    /\ \A s \in Range(c.path) : s.kind \in {"*", "name"} \/ (s.kind = "index" /\ s.i \in Nat)

VARIABLES
  cmd,       (* the command                                                *)
  obj,       (* the object that Blend_Obj_get_path has come to             *)
  seg        (* how many segments of the path it has followed              *)

vars == <<fvars, gvars, cmd, obj, seg>>

NoArg == "none"

Init ==
  /\ FileInit
  /\ GenInit
  /\ cmd \in Commands
  /\ obj = NoObj
  /\ seg = 0

Loads == Load /\ UNCHANGED <<gvars, cmd, obj, seg>>

-----------------------------------------------------------------------------
(* run().                                                                  *)

Becomes(state) ==
  /\ pc' = state
  /\ UNCHANGED <<file, offset, list, dna, gvars, cmd, obj, seg>>

(* exit(1): there is no such command, its argument is missing or the       *)
(* output can not be created.                                              *)
Exits ==
  /\ pc = "run"
  /\ \/ cmd.kind = "unknown"
     \/ cmd.kind \in {"dump-type", "dump-blocks-with-type"} /\ cmd.arg = NoArg
     \/ cmd.kind = "generate-bindings" /\ cmd.arg = "not writable"
  /\ Becomes("panic")
  /\ UNCHANGED <<node, live>>

(* Blend_find_type gives a struct to the %s of its panic.                  *)
TypeNotFound ==
  /\ pc = "run"
  /\ cmd.kind = "dump-type"
  /\ cmd.arg # NoArg /\ ~ HasType(dna, cmd.arg)
  /\ \E outcome \in {"panic", "undefined"} : Becomes(outcome)
  /\ UNCHANGED <<node, live>>

(* The forgotten address is complained of, and then read.                  *)
ReadsNoAddress ==
  /\ pc = "run"
  /\ cmd.kind = "dump-block-at"
  /\ cmd.addr = 0
  /\ Becomes("undefined")
  /\ UNCHANGED <<node, live>>

(* Blend_Type_dump prints a type and, without theirs, its fields.          *)
DumpType ==
  /\ pc = "run"
  /\ cmd.kind = "dump-type"
  /\ cmd.arg # NoArg /\ HasType(dna, cmd.arg)
  /\ Becomes("drop")
  /\ node' = 1
  /\ UNCHANGED live

(* init_config reads the text of the configuration; the output is open.    *)
StartGenerating ==
  /\ pc = "run"
  /\ cmd.kind = "generate-bindings"
  /\ cmd.arg # "not writable"
  /\ Becomes("config")
  /\ live' = live \cup {<<"config text", 0>>}
  /\ UNCHANGED node

(* What Blend_Path_parse allocates and Blend_Path_drop frees.              *)
Segments == {<<"segment", s>> : s \in DOMAIN cmd.path}

StartIterating ==
  /\ pc = "run"
  /\ \/ cmd.kind = "dump-block-at" /\ cmd.addr # 0
     \/ cmd.kind = "dump-blocks-with-type" /\ cmd.arg # NoArg
     \/ cmd.kind = "dump-blocks"
  /\ Becomes("iterate")
  /\ node' = 1
  /\ live' = live \cup Segments

-----------------------------------------------------------------------------
(* Blend_find_all_blocks and the callbacks of main.c.                      *)

TypeName(k) == dna.types[list[k].type + 1].name

Matches(k) ==
  CASE cmd.kind = "dump-block-at"         -> Raw(k).old = cmd.addr
    [] cmd.kind = "dump-blocks-with-type" -> TypeName(k) = cmd.arg
    [] cmd.kind = "dump-blocks"           -> cmd.arg \in {NoArg, Raw(k).code}

(* The callback has nothing to do, or prints only the block's type.        *)
SkipBlock ==
  /\ pc = "iterate"
  /\ node <= Len(list)
  /\ cmd.kind = "dump-blocks" \/ ~ Matches(node)
  /\ node' = node + 1
  /\ UNCHANGED <<pc, file, offset, list, dna, live, gvars, cmd, obj, seg>>

EnterBlock ==
  /\ pc = "iterate"
  /\ node <= Len(list)
  /\ cmd.kind # "dump-blocks"
  /\ Matches(node)
  /\ pc' = "walk"
  /\ obj' = BlockAsObj(node)
  /\ seg' = 0
  /\ UNCHANGED <<file, offset, list, dna, node, live, gvars, cmd>>

(* One segment of the path: Blend_Obj_get_field.                           *)
FollowSegment ==
  /\ pc = "walk"
  /\ seg < Len(cmd.path)
  /\ LET s == cmd.path[seg + 1]
         o == GetField(obj, s)
     IN  IF FollowsPtr(obj, s) /\ ~ Readable(obj.block, obj.at, PtrSize)
         THEN pc' = "undefined" /\ UNCHANGED <<obj, seg>>
         ELSE IF o = NoObj
         THEN pc' = "panic" /\ UNCHANGED <<obj, seg>>
         ELSE obj' = o /\ seg' = seg + 1 /\ UNCHANGED pc
  /\ UNCHANGED <<file, offset, list, dna, node, live, gvars, cmd>>

BlockDone == pc' = "iterate" /\ node' = node + 1 /\ obj' = NoObj /\ seg' = 0

(* The bytes of the object are written.                                    *)
WriteBytes ==
  /\ pc = "walk"
  /\ seg = Len(cmd.path)
  /\ cmd.bytes
  /\ IF Inside(obj) THEN BlockDone ELSE pc' = "undefined" /\ UNCHANGED <<node, obj, seg>>
  /\ UNCHANGED <<file, offset, list, dna, live, gvars, cmd>>

(* The object is dumped.                                                   *)
DumpObj ==
  /\ pc = "walk"
  /\ seg = Len(cmd.path)
  /\ ~ cmd.bytes
  /\ IF FirstFailing(obj) = {} THEN BlockDone
     ELSE pc' \in {Outcome(o) : o \in FirstFailing(obj)} /\ UNCHANGED <<node, obj, seg>>
  /\ UNCHANGED <<file, offset, list, dna, live, gvars, cmd>>

EndIterating ==
  /\ pc = "iterate"
  /\ node > Len(list)
  /\ Becomes("drop")
  /\ node' = 1
  /\ live' = live \ Segments

Run ==
  \/ Exits
  \/ TypeNotFound
  \/ ReadsNoAddress
  \/ DumpType
  \/ StartGenerating
  \/ StartIterating
  \/ SkipBlock
  \/ EnterBlock
  \/ FollowSegment
  \/ WriteBytes
  \/ DumpObj
  \/ EndIterating

Next ==
  \/ Loads
  \/ Run
  \/ Generate /\ UNCHANGED <<cmd, obj, seg>>
  \/ Drop /\ UNCHANGED <<gvars, cmd, obj, seg>>

Spec == Init /\ [][Next]_vars

-----------------------------------------------------------------------------
(* Properties.                                                             *)

(* On the way along a path, a field or an element lies within its object,  *)
(* however deep it is nested; only the number of an element behind a       *)
(* pointer is nobody's to check (lines 671-739).  Functions are taken for  *)
(* values, of a scalar at most.                                            *)
FunctionsAreSmall ==
  \A s \in DOMAIN dna.structs : \A f \in DOMAIN dna.structs[s].fields :
    LET t == dna.structs[s].fields[f].type
    IN  t.is_fn => SizeOf(dna.types, t) <= PtrSize

PartsAreInside ==
  [][ /\ pc = "walk" /\ pc' = "walk"
      /\ WellFormed(file) /\ FunctionsAreSmall
      /\ ~ FollowsPtr(obj, cmd.path[seg + 1])
      => LiesIn(obj', obj) ]_vars

(* What is read by the name of its type is as long for Blender as it is    *)
(* for this compiler (lines 793-827).                                      *)
NumbersAreTheSame ==
  \A k \in DOMAIN dna.types :
    dna.types[k].name \in DOMAIN PrimSize => dna.types[k].size = PrimSize[dna.types[k].name]

(* A file that Blender wrote is undefined behaviour only to a command that *)
(* lacks its address (main.c, lines 82-90) or names a missing type (line   *)
(* 422 of blend.c); that follows a pointer (a NULL one is refused by the   *)
(* star, line 679, but not by an index, line 721); that takes a block for  *)
(* a longer object than it has (lines 571-582); that dumps a string that   *)
(* is not there or does not end (lines 769-777); or that generates         *)
(* bindings from a line of the configuration that is misspelt or names a   *)
(* missing type, or for a field with a length, whose name has been freed   *)
(* (lines 1079 and 1321-1323).                                             *)
UndefinedForCause ==
  pc = "undefined" /\ WellFormed(file) /\ FunctionsAreSmall /\ NumbersAreTheSame =>
    \/ cmd.kind = "dump-block-at" /\ cmd.addr = 0
    \/ cmd.kind = "dump-type" /\ ~ HasType(dna, cmd.arg)
    \/ line > 0 /\ config[line].kind = "field" /\ LineUndefined(config[line])
    \/ next > 0 /\ Measured(next - 1) # {}
    \/ \E s \in 1 .. seg + 1 : s <= Len(cmd.path) /\ cmd.path[s].kind \in {"index", "*"}
    \/ ~ Inside(BlockAsObj(node))
    \/ ~ cmd.bytes /\ \E o \in Printed(obj) : StringMissing(o)

(* The lines of types read so far, and those of them with a later one of   *)
(* the same type.                                                          *)
TypeLines == {n \in 1 .. line : config[n].kind = "type"}
Repeated  == {n \in TypeLines : \E m \in TypeLines : n < m /\ config[m].name = config[n].name}

(* Who gets to the end of main has nothing left of the file, the path or   *)
(* the configuration (blend.c, lines 393-413, 558-565 and 1081-1092),      *)
(* unless config.txt has a type twice; the Makefile builds the tool with   *)
(* -fsanitize=leak.                                                        *)
NothingLeaks == pc = "done" => live = {<<"type config", n>> : n \in Repeated}
=============================================================================
