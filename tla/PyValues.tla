----------------------------- MODULE PyValues ------------------------------
(***************************************************************************)
(* The values compiled programs compute with: tuples whose first component *)
(* is the kind.  A list, tuple or set holds the sequence of its elements, a*)
(* dict the sequence of its <<key, value>> pairs.  What Python itself does *)
(* with values is shared by the machine (HostEmitted) and by the reference *)
(* semantics (PySource); what is done to them when is not.                 *)
(***************************************************************************)
EXTENDS Integers, Sequences, FiniteSets, SequencesExt, PycThread

None == <<"none">>
Null == <<"null">>
Unbound == <<"unbound">>
IntV(n) == <<"int", n>>
BoolV(b) == <<"bool", b>>
Truth(v) ==
    CASE v[1] = "bool" -> v[2] [] v[1] = "int" -> v[2] # 0
      [] v[1] \in {"none", "unbound"} -> FALSE
      [] v[1] = "str" -> v[2] # ""
      [] v[1] \in {"list", "tuple", "set", "dict"} -> v[2] # <<>>
      [] OTHER -> TRUE

Number(v) == IF v[1] = "bool" THEN IF v[2] THEN 1 ELSE 0 ELSE v[2]
IsNumber(v) == v[1] \in {"int", "bool"}
IsSeq(v) == v[1] \in {"list", "tuple"}

SetAdd(xs, x) == IF Contains(xs, x) THEN xs ELSE Append(xs, x)
HasKey(pairs, key) == \E i \in DOMAIN pairs : pairs[i][1] = key
KeyAt(pairs, key) == CHOOSE i \in DOMAIN pairs : pairs[i][1] = key
MapPut(pairs, key, v) ==
    IF HasKey(pairs, key) THEN [pairs EXCEPT ![KeyAt(pairs, key)] = <<key, v>>]
    ELSE Append(pairs, <<key, v>>)

(* What iter() runs through.                                               *)
Items(v) == IF v[1] = "dict" THEN [i \in DOMAIN v[2] |-> v[2][i][1]] ELSE v[2]
Iterable(v) == v[1] \in {"list", "tuple", "set", "dict"}

BinaryInt(arg, a, b) ==
    CASE arg % 13 = 0 -> IntV(a + b) [] arg % 13 = 5 -> IntV(a * b)
      [] arg % 13 = 10 -> IntV(a - b) [] OTHER -> <<"undefined">>
BinaryDefined(arg, l, r) ==
    IsNumber(l) /\ IsNumber(r) /\ arg # 26 /\ arg % 13 \in {0, 5, 10}

CompareInt(arg, a, b) ==
    CASE arg = 0 -> a < b [] arg = 1 -> a <= b [] arg = 2 -> a = b
      [] arg = 3 -> a # b [] arg = 4 -> a > b [] arg = 5 -> a >= b

(* list[i] of the host takes -len .. len - 1.                              *)
InRange(v, i) == i >= 0 - Len(v[2]) /\ i < Len(v[2])
Element(v, i) == IF i >= 0 THEN v[2][i + 1] ELSE v[2][Len(v[2]) + i + 1]

SliceBound(v, n, default) ==
    LET up == IF v[2] < 0 THEN v[2] + n ELSE v[2]
    IN  IF v = None THEN default ELSE IF up < 0 THEN 0 ELSE IF up > n THEN n ELSE up
SliceOf(v, lo, hi) ==
    LET n == Len(v[2])
    IN  <<v[1], SubSeq(v[2], SliceBound(lo, n, 0) + 1, SliceBound(hi, n, n))>>

(* isinstance of an exception; a tuple of classes is any of them.          *)
IsInstance(e, class) ==
    \/ e[2] = class[2]
    \/ class[2] = "Exception"
    \/ class[2] = "NameError" /\ e[2] = "UnboundLocalError"
Matches(e, typ) ==
    IF typ[1] = "tuple" THEN \E i \in DOMAIN typ[2] : IsInstance(e, typ[2][i])
    ELSE IsInstance(e, typ)
=============================================================================
