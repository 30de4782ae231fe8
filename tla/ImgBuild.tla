------------------------------ MODULE ImgBuild ------------------------------
(***************************************************************************)
(* From rewritten code objects to an image                                 *)
(* (src/pycore/tools/image_from_source.py): module-level classes become    *)
(* types, code is checked against the opcodes of the hart, ROM bodies lose *)
(* their CACHE units, and code objects are laid out in code memory.        *)
(***************************************************************************)
EXTENDS ImgPasses

-----------------------------------------------------------------------------
(* Classes.  LOAD_BUILD_CLASS ... STORE_NAME becomes a load of a type that *)
(* the serializer resolves; the class body runs on the host.               *)

(* One creation idiom at p: where it ends, or the complaint.               *)
ClassAt(co, p) ==
    LET code == co.code
        op(k) == At(code, p + k).op
        const(k) == LET i == At(code, p + k).arg IN IF i < Len(co.consts) THEN co.consts[i + 1] ELSE None
        caches == CHOOSE k \in 0..3 : /\ \A j \in 0..(k - 1) : op(6 + j) = "CACHE"
                                      /\ op(6 + k) # "CACHE"
        store == At(code, p + 6 + caches)
        fail(why) == [end |-> 0, bad |-> why]
    IN  IF <<op(1), op(2), op(3), op(4)>> # <<"PUSH_NULL", "LOAD_CONST", "MAKE_FUNCTION", "LOAD_CONST">>
        THEN fail("class idiom")
        ELSE IF op(5) # "CALL" \/ At(code, p + 5).arg # 2 THEN fail("bases or keywords")
        ELSE IF ~IsCode(const(2)) \/ const(4)[1] # "str" THEN fail("class constants")
        ELSE IF store.op # "STORE_NAME" THEN fail("no STORE_NAME")
        ELSE IF store.arg >= Len(co.names) \/ co.names[store.arg + 1] # const(4)[2]
        THEN fail("another STORE_NAME")
        ELSE [end |-> p + 7 + caches, bad |-> "", name |-> const(4)[2],
              body |-> At(code, p + 2).arg, store |-> store]

BuildsClass(co, p) == p + 5 < Len(co.code) /\ At(co.code, p).op = "LOAD_BUILD_CLASS"

(* The type a class body leaves behind: what it last bound each name to.   *)
Attributes(body) ==
    LET last(a) == CHOOSE i \in DOMAIN body : body[i].name = a
                        /\ \A j \in DOMAIN body : body[j].name = a => j <= i
    IN  [a \in {body[i].name : i \in DOMAIN body} |-> body[last(a)].val]

AllowedAttribute(v) == v[1] \in {"function", "static", "int", "str", "None"}

(* Code objects of the methods, and their defaults by identity.            *)
Methods(spec) == {v \in Range(spec.attrs) : v[1] = "function"}
                    \cup {v[2] : v \in {w \in Range(spec.attrs) : w[1] = "static"}}

(* `nodes` gives, for the classes that are statements of the module body,  *)
(* the body and the first thing about it that is not supported, or "".     *)
FoldOneClass(nodes, acc, p) ==
    LET match == ClassAt(acc.co, p)
        name == match.name
        ref == Len(acc.co.consts)
        units == Bare("LOAD_CONST", ref) \o <<match.store>>
        span == match.end - p
        fail(why) == [acc EXCEPT !.bad = why]
        attrs == Attributes(nodes[name].body)
    IN  IF acc.bad # "" THEN acc
        ELSE IF match.bad # "" THEN fail(match.bad)
        ELSE IF name \in {acc.specs[i].name : i \in DOMAIN acc.specs} THEN fail("duplicate class")
        ELSE IF name \notin DOMAIN nodes THEN fail("class not in the module body")
        ELSE IF nodes[name].flaw # "" THEN fail(nodes[name].flaw)
        ELSE IF \E v \in Range(attrs) : ~AllowedAttribute(v) THEN fail("class attribute")
        ELSE IF Len(units) > span THEN fail("class rewrite overflow")
        ELSE [acc EXCEPT !.specs = Append(@, [name |-> name, attrs |-> attrs]),
                  !.co.consts = Append(Overwrite(@, match.body, <<None>>), <<"type", name>>),
                  !.co.code = Overwrite(@, p, units \o Nops(span - Len(units)))]

FoldClasses(co, nodes) ==
    LET end(p) == IF BuildsClass(co, p)
                  THEN IF ClassAt(co, p).bad = "" THEN ClassAt(co, p).end ELSE p + 1 ELSE 0
        spans == Scan(co.code, end)
        made == FoldLeft(LAMBDA a, p : FoldOneClass(nodes, a, p),
                         [co |-> co, specs |-> <<>>, bad |-> ""], spans)
    IN  IF spans = <<>> THEN made ELSE [made EXCEPT !.co = Renewed(@)]

-----------------------------------------------------------------------------
(* The gate: what the hart cannot run is an error of the build.            *)

CONSTANT
    Supported       \* the opcodes a code object may have

ComplaintsAnyIntrinsic(co) == {i \in Range(Instructions(co.code)) : i.op \notin Supported}
Complaints(co) ==
    {i \in Range(Instructions(co.code)) :
        \/ i.op \notin Supported
        \/ i.op = "CALL_INTRINSIC_1" /\ i.arg # LIST_TO_TUPLE
        \/ i.op = "SET_FUNCTION_ATTRIBUTE"
        \/ i.op = "LOAD_CONST" /\ i.arg >= Len(co.consts)
        \/ i.op \in {"LOAD_NAME", "STORE_NAME"} /\ i.arg >= Len(co.names)}
Validated(co) == Complaints(co) = {} /\ \A i \in DOMAIN co.consts : co.consts[i][1] # "body"

-----------------------------------------------------------------------------
(* The layout without CACHE units.                                         *)

(* The unit behind a call that ends a protected range has to be in it: a   *)
(* NOP stays there in place of the CACHE units.                            *)
PadAfterNever(i, ends) == FALSE
PadAfter(i, ends) == i.op \in {"CALL", "CALL_KW"} /\ i.end \in ends

\* What is left of an instruction, and where it begins.
StrippedSize(i, ends) == i.ext + 1 + (IF PadAfter(i, ends) THEN 1 ELSE 0)
StrippedUnits(i, arg, ends) ==
    Ext(arg, i.ext) \o <<Unit(i.op, arg % RADIX)>> \o (IF PadAfter(i, ends) THEN <<Nop>> ELSE <<>>)
NewStarts(all, ends) ==
    LET start[k \in 1..(Len(all) + 1)] ==
            IF k = 1 THEN 0 ELSE start[k - 1] + StrippedSize(all[k - 1], ends)
    IN  start

\* Where the instruction is that was at `old`, and the argument of one that
\* goes there.
NewIndex(size, all, starts, old) ==
    IF old = size THEN starts[Len(all) + 1]
    ELSE starts[CHOOSE k \in 1..Len(all) : all[k].start = old]
NewArg(size, all, starts, k) ==
    LET i == all[k]
        from == starts[k] + i.ext + 1 + CacheUnits(i.op)
    IN  IF i.op \in Backward THEN from - NewIndex(size, all, starts, i.end - i.arg)
        ELSE IF i.op \in Jumps THEN NewIndex(size, all, starts, i.end + i.arg) - from
        ELSE i.arg

\* An entry of the exception table.
Moved(size, all, starts, entry) ==
    [entry EXCEPT !.start = NewIndex(size, all, starts, @), !.end = NewIndex(size, all, starts, @),
                  !.target = NewIndex(size, all, starts, @)]

Strip(co) ==
    LET all == Instructions(co.code)
        ends == {co.exc[e].end : e \in DOMAIN co.exc}
        starts == NewStarts(all, ends)
        arg(k) == NewArg(Len(co.code), all, starts, k)
        cannot(k) == arg(k) < 0 \/ ExtCount(arg(k)) > all[k].ext
        moved == [e \in DOMAIN co.exc |-> Moved(Len(co.code), all, starts, co.exc[e])]
    IN  IF \A k \in DOMAIN all : CacheUnits(all[k].op) = 0
        THEN [code |-> co.code, exc |-> co.exc, bad |-> ""]
        ELSE IF \E k \in DOMAIN all : cannot(k) THEN [code |-> co.code, exc |-> co.exc, bad |-> "jump argument"]
        ELSE [code |-> FlattenSeq([k \in DOMAIN all |-> StrippedUnits(all[k], arg(k), ends)]),
              exc |-> moved, bad |-> ""]

-----------------------------------------------------------------------------
(* The serializer.  A code object is laid out after the ones it holds and  *)
(* once; its constants become handles.                                     *)

EmptyImage == [slots |-> <<>>, object |-> [n \in {} |-> <<>>], bad |-> ""]

ValueOrEmpty(map, id) == IF id \in DOMAIN map THEN map[id] ELSE <<>>

SerializeOne(acc, co, maps, types, strip) ==
    LET folded == FoldSlicesOne(co)
        laid == IF strip THEN Strip(folded.co)
                ELSE [code |-> folded.co.code, exc |-> co.exc, bad |-> ""]
        \* the handle of a code object: its defaults are kept in the object
        value(c) ==
            CASE c[1] = "code" ->
                    Function(c[2], acc.object[c[2]].defaults, acc.object[c[2]].kwdefaults)
              [] c[1] = "type" -> <<"class", <<"str", c[2]>>, types[c[2]]>>
              [] OTHER -> c
        made == [at |-> Len(acc.slots), exc |-> laid.exc, names |-> co.names,
                 consts |-> [i \in DOMAIN folded.co.consts |-> value(folded.co.consts[i])],
                 size |-> Len(laid.code), stack |-> folded.co.stack,
                 defaults |-> ValueOrEmpty(maps.defaults, Identity(co)),
                 kwdefaults |-> ValueOrEmpty(maps.kwdefaults, Identity(co))]
        bad == SelectSeq(<<acc.bad, folded.bad, laid.bad>>, LAMBDA w : w # "")
    IN  IF co.name \in DOMAIN acc.object THEN acc
        ELSE IF bad # <<>> THEN [acc EXCEPT !.bad = Head(bad)]
        ELSE [acc EXCEPT !.slots = @ \o laid.code, !.object = (co.name :> made) @@ @]

SerializeTree(acc, tree, root, maps, types, strip) ==
    FoldLeft(LAMBDA a, n : SerializeOne(a, tree[n], maps, types, strip), acc, Inner(tree, root))

(* Methods come first, then the types that hold them, then the module.     *)
MethodMaps(specs) ==
    LET all == UNION {Methods(specs[i]) : i \in DOMAIN specs}
        byId(field) == [id \in {<<v[2], 0>> : v \in {w \in all : w[field] # <<>>}} |->
                            (CHOOSE v \in all : v[2] = id[1])[field]]
    IN  [defaults |-> byId(3), kwdefaults |-> byId(4)]

TypeOf(spec, image) ==
    LET handle(v) == Function(v[2], image.object[v[2]].defaults, image.object[v[2]].kwdefaults)
    IN  [a \in DOMAIN spec.attrs |->
            LET v == spec.attrs[a]
            IN  CASE v[1] = "function" -> handle(v)
                  [] v[1] = "static" -> <<"static", handle(v[2])>>
                  [] OTHER -> v]

BuildImage(tree, root, specs, maps) ==
    LET own == MethodMaps(specs)
        all == [defaults |-> own.defaults @@ maps.defaults,
                kwdefaults |-> own.kwdefaults @@ maps.kwdefaults]
        methods == SetToSeq({v[2] : v \in UNION {Methods(specs[i]) : i \in DOMAIN specs}})
        none == [n \in {} |-> <<>>]
        withMethods == FoldLeft(LAMBDA a, n : SerializeTree(a, tree, n, all, none, FALSE),
                                EmptyImage, methods)
        types == [n \in {specs[i].name : i \in DOMAIN specs} |->
                    TypeOf(specs[CHOOSE i \in DOMAIN specs : specs[i].name = n], withMethods)]
    IN  SerializeTree(withMethods, tree, root, all, types, FALSE)

-----------------------------------------------------------------------------
(* All of it.  A program is                                                *)
(*   [tree, root, nodes, stars, rom, entry, legal]                         *)
(* the code objects the host compiler made and the one of the module, the  *)
(* class statements of the module body, whether starred displays are       *)
(* folded, whether root is the body of a ROM built-in, the code object     *)
(* whose run is watched, and whether the program is in the supported       *)
(* language.                                                               *)

Rejected(why) == [EmptyImage EXCEPT !.bad = why]
Gate(tree, root) == \A n \in Range(Inner(tree, root)) : Validated(tree[n])

ClassInFunction(p) ==
    \E n \in Range(Inner(p.tree, p.root)) \ {p.root} :
        \E i \in DOMAIN p.tree[n].code : p.tree[n].code[i].op = "LOAD_BUILD_CLASS"

ImageOfText(p) ==
    LET classes == FoldClasses(p.tree[p.root], p.nodes)
        slices == OverTree(FoldSlicesOne, [p.tree EXCEPT ![p.root] = classes.co], p.root)
        stars == IF p.stars THEN OverTree(FoldStarsOne, slices.tree, p.root).tree ELSE slices.tree
        defaults == FoldDefaults(stars, p.root)
    IN  IF ClassInFunction(p) THEN Rejected("class in a function")
        ELSE IF classes.bad # "" THEN Rejected(classes.bad)
        ELSE IF slices.bad # "" THEN Rejected(slices.bad)
        ELSE IF defaults.bad # "" THEN Rejected(defaults.bad)
        ELSE IF ~Gate(defaults.tree, p.root) THEN Rejected("opcode")
        ELSE BuildImage(defaults.tree, p.root, classes.specs,
                        [defaults |-> defaults.defaults, kwdefaults |-> defaults.kwdefaults])

ImageOfRom(p) ==
    LET none == [n \in {} |-> <<>>]
    IN  IF ~Gate(p.tree, p.root) THEN Rejected("opcode")
        ELSE SerializeTree(EmptyImage, p.tree, p.root, [defaults |-> none, kwdefaults |-> none], none, TRUE)

Build(p) == IF p.rom THEN ImageOfRom(p) ELSE ImageOfText(p)

(* What the two machines run: the object as the host compiled it, and as   *)
(* it is laid out, with the depth of the frame it asks for.                *)
HostValue(c) == IF c[1] = "body" THEN <<"body", Attributes(c[2])>> ELSE c
HostObject(p) ==
    LET co == p.tree[p.entry]
    IN  [code |-> co.code, names |-> co.names, exc |-> co.exc, at |-> 0, illegal |-> {},
         consts |-> [i \in DOMAIN co.consts |-> HostValue(co.consts[i])]]
HartObject(image, entry) ==
    LET o == image.object[entry]
    IN  [code |-> image.slots, names |-> o.names, exc |-> o.exc, at |-> o.at, consts |-> o.consts,
         illegal |-> {"SET_FUNCTION_ATTRIBUTE", "LOAD_BUILD_CLASS", "JUMP_BACKWARD_NO_INTERRUPT"}]
Prepared(p) ==
    LET image == Build(p)
        fine == image.bad = ""
        none == [code |-> <<>>, names |-> <<>>, exc |-> <<>>, at |-> 0, consts |-> <<>>, illegal |-> {}]
    IN  [legal |-> p.legal, bad |-> image.bad, host |-> HostObject(p),
         hart |-> IF fine THEN HartObject(image, p.entry) ELSE none,
         depth |-> IF fine THEN image.object[p.entry].stack ELSE 0]
=============================================================================
