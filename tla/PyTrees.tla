------------------------------ MODULE PyTrees -------------------------------
(***************************************************************************)
(* Syntax trees by hand, for the programs that the runs are made of.       *)
(***************************************************************************)
EXTENDS Integers, Sequences

NameOf(x) == [k |-> "Name", name |-> x, ctx |-> "Load"]
Target(x) == [k |-> "Name", name |-> x, ctx |-> "Store"]
Num(n) == [k |-> "Constant", v |-> <<"int", n>>]
Str(s) == [k |-> "Constant", v |-> <<"str", s>>]
CallKw(f, args, kws) == [k |-> "Call", f |-> f, args |-> args, kws |-> kws]
Call(f, args) == CallKw(NameOf(f), args, <<>>)
Kw(name, v) == [name |-> name, v |-> v]
List(es) == [k |-> "List", es |-> es]
Both(a, b) == [k |-> "Tuple", es |-> <<a, b>>]
Star(v) == [k |-> "Starred", stars |-> 1, v |-> v]
Item(v, i) == [k |-> "Subscript", v |-> v, i |-> i]
Attr(v, name) == [k |-> "Attribute", v |-> v, name |-> name]
SliceFrom(lo, hi) == [k |-> "Slice", lo |-> lo, hi |-> hi]
Bin(l, op, r) == [k |-> "BinOp", l |-> l, op |-> op, r |-> r]
Un(op, v) == [k |-> "UnaryOp", op |-> op, v |-> v]
Cmp(l, ops, rs) == [k |-> "Compare", l |-> l, ops |-> ops, rs |-> rs]
And(a, b) == [k |-> "BoolOp", op |-> "And", vs |-> <<a, b>>]
Or(a, b) == [k |-> "BoolOp", op |-> "Or", vs |-> <<a, b>>]

Do(e) == [k |-> "Expr", v |-> e]
Ask(f) == Do(Call(f, <<>>))
Let(x, e) == [k |-> "Assign", targets |-> <<Target(x)>>, v |-> e]
Store(t, e) == [k |-> "Assign", targets |-> <<t>>, v |-> e]
Aug(x, op, e) == [k |-> "AugAssign", target |-> Target(x), op |-> op, v |-> e]
Del(ts) == [k |-> "Delete", targets |-> ts]
RaiseOf(cls) == [k |-> "Raise", v |-> <<NameOf(cls)>>]
ReturnOf(e) == [k |-> "Return", v |-> <<e>>]
If(t, body, orelse) == [k |-> "If", t |-> t, body |-> body, orelse |-> orelse]
While(t, body, orelse) == [k |-> "While", t |-> t, body |-> body, orelse |-> orelse]
For(x, iter, body, orelse) ==
    [k |-> "For", target |-> Target(x), iter |-> iter, body |-> body, orelse |-> orelse]
Try(body, handlers, orelse, final) ==
    [k |-> "Try", body |-> body, handlers |-> handlers, orelse |-> orelse, final |-> final]
Except(typ, name, body) == [k |-> "ExceptHandler", typ |-> typ, name |-> name, body |-> body]
Function(id, name, params, body) ==
    [k |-> "FunctionDef", id |-> id, name |-> name, params |-> params, kwonly |-> <<>>,
     vararg |-> <<>>, kwarg |-> <<>>, defaults |-> <<>>, kwdefaults |-> <<>>, decs |-> <<>>,
     body |-> body]
Module(body) == [k |-> "Module", body |-> body]
Comp(kind, id, x, iter, cond, elts) ==
    [k |-> kind, id |-> id, target |-> Target(x), iter |-> iter, cond |-> cond, elts |-> elts]
=============================================================================
