----------------------------- MODULE ImgPasses ------------------------------
(***************************************************************************)
(* The rewrites between the host compiler and the image                    *)
(* (src/pycore/tools/image_from_source.py): constant slices, starred       *)
(* displays and defaults of functions.                                     *)
(* A code object is [name, ver, code, consts, names, exc, stack]; name and *)
(* ver together are its identity, and a rewritten object has another ver,  *)
(* as co.replace makes a new one.  A tree is a function from names to code *)
(* objects; a constant <<"code", n>> is the object n of the tree.  Every   *)
(* pass ends with what it made and with `bad`, the error it raised or "".  *)
(***************************************************************************)
EXTENDS ImgCode, TLC

Identity(co) == <<co.name, co.ver>>
Renewed(co) == [co EXCEPT !.ver = @ + 1]
IsCode(c) == c[1] \in {"code", "body"}
Nested(co) == {co.consts[i][2] : i \in {j \in DOMAIN co.consts : co.consts[j][1] = "code"}}

(* Children before parents, each object once.                              *)
Inner(tree, root) ==
    LET of[n \in DOMAIN tree] ==
            LET below == SelectSeq(tree[n].consts, LAMBDA c : c[1] = "code")
            IN  Append(FlattenSeq([i \in DOMAIN below |-> of[below[i][2]]]), n)
        once(acc, n) == IF Contains(acc, n) THEN acc ELSE Append(acc, n)
    IN  FoldLeft(once, <<>>, of[root])

(* A pass over one object, applied to the whole tree from within.          *)
OverTree(one(_), tree, root) ==
    LET visit(acc, n) ==
            LET co == tree[n]
                base == IF Nested(co) \cap acc.changed = {} THEN co ELSE Renewed(co)
                made == one(base)
            IN  [tree |-> [acc.tree EXCEPT ![n] = made.co],
                 changed |-> IF made.co = co THEN acc.changed ELSE acc.changed \cup {n},
                 bad |-> IF acc.bad = "" THEN made.bad ELSE acc.bad]
    IN  FoldLeft(visit, [tree |-> tree, changed |-> {}, bad |-> ""], Inner(tree, root))

Overwrite(code, at, units) ==
    [i \in DOMAIN code |-> IF at < i /\ i <= at + Len(units) THEN units[i - at] ELSE code[i]]

-----------------------------------------------------------------------------
(* Constants and the instructions that load them.                          *)

(* The place of v among the constants, at the end when it is a new one.    *)
PlaceOf(consts, v) ==
    IF Contains(consts, v) THEN CHOOSE i \in DOMAIN consts :
                                /\ consts[i] = v
                                /\ \A j \in 1..(i - 1) : consts[j] # v
    ELSE Len(consts) + 1
EnsureConst(consts, v) == IF Contains(consts, v) THEN consts ELSE Append(consts, v)

NoLoad == [end |-> 0, index |-> 0]
LoadConstAt(code, p) ==
    LET i == InstructionAt(code, p)
    IN  IF i.op = "LOAD_CONST" THEN [end |-> i.end, index |-> i.arg] ELSE NoLoad

(* Bytes are scanned from left to right: a match is skipped as a whole,    *)
(* anything else unit by unit.  The places where `end` is not 0.           *)
Scan(code, end(_)) ==
    LET from[p \in 0..Len(code)] ==
            IF p >= Len(code) THEN <<>>
            ELSE IF end(p) = 0 THEN from[p + 1] ELSE <<p>> \o from[end(p)]
    IN  from[0]

StillLoaded(code) ==
    LET loads == Scan(code, LAMBDA p : LoadConstAt(code, p).end)
    IN  {LoadConstAt(code, loads[i]).index : i \in DOMAIN loads}

-----------------------------------------------------------------------------
(* x[1:3] with constant bounds: LOAD_CONST slice; BINARY_OP [] becomes two *)
(* loads and BINARY_SLICE in the same number of units.                     *)

SliceEnd(code, consts, p) ==
    LET l == LoadConstAt(code, p)
        matches == /\ l.end > 0 /\ l.index < Len(consts) /\ consts[l.index + 1][1] = "slice"
                   /\ l.end + 6 <= Len(code)
                   /\ At(code, l.end) = Unit("BINARY_OP", NB_SUBSCR)
                   /\ \A k \in 1..5 : At(code, l.end + k).op = "CACHE"
    IN  IF matches THEN l.end + 6 ELSE 0

LoadOf(v, consts) ==
    IF v[1] = "int" /\ v[2] \in 0..(RADIX - 1) THEN <<Unit("LOAD_SMALL_INT", v[2])>>
    ELSE Bare("LOAD_CONST", PlaceOf(consts, v) - 1)
ConstsFor(v, consts) ==
    IF v[1] = "int" /\ v[2] \in 0..(RADIX - 1) THEN consts ELSE EnsureConst(consts, v)

FoldOneSlice(acc, p) ==
    LET l == LoadConstAt(acc.code, p)
        sl == acc.consts[l.index + 1]
        span == l.end + 6 - p
        with1 == ConstsFor(sl[2], acc.consts)
        with2 == ConstsFor(sl[3], with1)
        units == LoadOf(sl[2], with1) \o LoadOf(sl[3], with2) \o <<Unit("BINARY_SLICE", 0)>>
    IN  IF acc.bad # "" THEN acc
        ELSE IF sl[4] \notin {None, Num(1)} THEN [acc EXCEPT !.bad = "slice step"]
        ELSE IF Len(units) > span THEN [acc EXCEPT !.bad = "slice rewrite overflow"]
        ELSE [acc EXCEPT !.code = Overwrite(@, p, units \o Nops(span - Len(units))), !.consts = with2]

(* BINARY_SLICE takes one operand more than BINARY_OP.                     *)
MoreStackNone(spans) == 0
MoreStack(spans) == IF spans = <<>> THEN 0 ELSE 1

FoldSlicesOne(co) ==
    LET spans == Scan(co.code, LAMBDA p : SliceEnd(co.code, co.consts, p))
        made == FoldLeft(FoldOneSlice, [code |-> co.code, consts |-> co.consts, bad |-> ""], spans)
        slices == {i \in DOMAIN made.consts : made.consts[i][1] = "slice"}
        alive == \E i \in slices : (i - 1) \in StillLoaded(made.code)
        consts == [i \in DOMAIN made.consts |-> IF i \in slices THEN None ELSE made.consts[i]]
    IN  [co |-> IF spans = <<>> /\ slices = {} THEN co
                ELSE [Renewed(co) EXCEPT !.code = made.code, !.consts = consts,
                                         !.stack = @ + MoreStack(spans)],
         bad |-> IF made.bad = "" /\ alive THEN "slice constant" ELSE made.bad]

-----------------------------------------------------------------------------
(* Display of one starred list: the empty list and its extension go.      *)

StarEnd(code, p) ==
    IF /\ p + 3 < Len(code)
       /\ At(code, p) = Unit("BUILD_LIST", 0)
       /\ At(code, p + 2) = Unit("LIST_EXTEND", 1)
       /\ At(code, p + 3) = Unit("CALL_INTRINSIC_1", LIST_TO_TUPLE)
    THEN p + 4 ELSE 0

FoldStarsOne(co) ==
    LET spans == Scan(co.code, LAMBDA p : StarEnd(co.code, p))
        out == {spans[i] + 1 : i \in DOMAIN spans} \cup {spans[i] + 3 : i \in DOMAIN spans}
    IN  [co |-> IF spans = <<>> THEN co
                ELSE [Renewed(co) EXCEPT !.code = [i \in DOMAIN @ |-> IF i \in out THEN Nop ELSE @[i]]],
         bad |-> ""]

-----------------------------------------------------------------------------
(* Defaults.  The values of SET_FUNCTION_ATTRIBUTE are taken out of the    *)
(* code and kept in a map from the identity of the function's code object. *)

(* The producer that ends before unit e, read backwards, unit by unit.     *)
Producer(code, consts) ==
    LET fail(why) == [start |-> 0, val |-> None, bad |-> why]
        const(start, i) ==
            IF i < Len(consts) THEN [start |-> start, val |-> consts[i + 1], bad |-> ""]
            ELSE fail("producer index")
        of[e \in 0..Len(code)] ==
            IF e = 0 THEN fail("truncated producer")
            ELSE LET u == At(code, e - 1)
                     \* value, then key, from the last pair to the first
                     pairs[k \in 0..u.arg] ==
                        IF k = 0 THEN [start |-> e - 1, val |-> <<"dict", <<>>>>, bad |-> ""]
                        ELSE LET after == pairs[k - 1]
                                 v == of[after.start]
                                 key == of[v.start]
                                 whys == SelectSeq(<<after.bad, v.bad, key.bad>>, LAMBDA w : w # "")
                             IN  IF whys # <<>> THEN fail(Head(whys))
                                 ELSE [start |-> key.start, bad |-> "",
                                       val |-> <<"dict", <<<<key.val, v.val>>>> \o after.val[2]>>]
                 IN  CASE u.op = "LOAD_CONST" -> const(e - 1, u.arg)
                       [] u.op = "LOAD_SMALL_INT" -> [start |-> e - 1, val |-> Num(u.arg), bad |-> ""]
                       [] u.op = "MAKE_FUNCTION" ->
                            IF e < 2 \/ At(code, e - 2).op # "LOAD_CONST" THEN fail("annotation producer")
                            ELSE const(e - 2, At(code, e - 2).arg)
                       [] u.op = "BUILD_MAP" -> pairs[u.arg]
                       [] OTHER -> fail("producer opcode")
    IN  of

(* How many SET_FUNCTION_ATTRIBUTE follow the MAKE_FUNCTION at p + 1.      *)
AttributesAt(code, p) ==
    IF /\ p + 2 < Len(code)
       /\ At(code, p).op = "LOAD_CONST" /\ At(code, p + 1).op = "MAKE_FUNCTION"
    THEN CHOOSE k \in 0..4 :
            /\ \A j \in 0..(k - 1) : At(code, p + 2 + j).op = "SET_FUNCTION_ATTRIBUTE"
            /\ At(code, p + 2 + k).op # "SET_FUNCTION_ATTRIBUTE"
    ELSE 0
MakesWithAttributes(code, p) == IF AttributesAt(code, p) = 0 THEN 0 ELSE p + 2 + AttributesAt(code, p)

WrongValue(flag, v) ==
    CASE flag = DEFAULTS /\ v[1] # "tuple" -> "defaults"
      [] flag = KWDEFAULTS /\ (v[1] # "dict" \/ \E i \in DOMAIN v[2] : v[2][i][1][1] # "str") ->
            "kwdefaults"
      [] OTHER -> ""

FoldOneFunction(tree, acc, p) ==
    LET flags == [k \in 1..AttributesAt(acc.code, p) |-> At(acc.code, p + 1 + k).arg]
        index == At(acc.code, p).arg
        func == IF index < Len(acc.consts) THEN acc.consts[index + 1] ELSE None
        id == Identity(tree[func[2]])
        take(a, k) ==
            LET made == Producer(acc.code, acc.consts)[a.at]
                v == made.val
                why == IF made.bad = "" THEN WrongValue(flags[k], v) ELSE made.bad
            IN  IF a.bad # "" THEN a
                ELSE IF why # "" THEN [a EXCEPT !.bad = why]
                ELSE [a EXCEPT !.at = made.start,
                        !.code = Overwrite(Overwrite(@, made.start, Nops(a.at - made.start)), p + 1 + k, Nops(1)),
                        !.defaults = IF flags[k] = DEFAULTS THEN (id :> v[2]) @@ @ ELSE @,
                        !.kwdefaults = IF flags[k] = KWDEFAULTS THEN (id :> v[2]) @@ @ ELSE @,
                        !.consts = IF flags[k] = ANNOTATE /\ IsCode(v)
                                   THEN [i \in DOMAIN @ |-> IF @[i] = v THEN None ELSE @[i]] ELSE @]
    IN  IF acc.bad # "" THEN acc
        ELSE IF \E k \in DOMAIN flags : flags[k] \notin {DEFAULTS, KWDEFAULTS, ANNOTATE}
        THEN [acc EXCEPT !.bad = "function attribute"]
        ELSE IF func[1] # "code" THEN [acc EXCEPT !.bad = "function constant"]
        ELSE FoldLeft(take, [acc EXCEPT !.at = p], [k \in DOMAIN flags |-> k])

(* fold_function_defaults over the tree.                                   *)
FoldDefaults(tree, root) ==
    LET one(acc, n) ==
            LET co == acc.tree[n]
                base == [code |-> co.code, consts |-> co.consts, at |-> 0, bad |-> acc.bad,
                         defaults |-> acc.defaults, kwdefaults |-> acc.kwdefaults]
                sites == Scan(co.code, LAMBDA p : MakesWithAttributes(co.code, p))
                made == FoldLeft(LAMBDA a, p : FoldOneFunction(acc.tree, a, p), base, sites)
                same == made.code = co.code /\ made.consts = co.consts
                            /\ Nested(co) \cap acc.changed = {}
            IN  [tree |-> [acc.tree EXCEPT ![n] = IF same THEN co
                              ELSE [Renewed(co) EXCEPT !.code = made.code, !.consts = made.consts]],
                 changed |-> IF same THEN acc.changed ELSE acc.changed \cup {n},
                 bad |-> made.bad, defaults |-> made.defaults, kwdefaults |-> made.kwdefaults]
        none == [x \in {} |-> <<>>]
    IN  FoldLeft(one, [tree |-> tree, changed |-> {}, bad |-> "", defaults |-> none, kwdefaults |-> none],
                 Inner(tree, root))
=============================================================================
