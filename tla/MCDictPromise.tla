--------------------------- MODULE MCDictPromise ---------------------------
(***************************************************************************)
(* Small dicts: integers that collide in a table of 4 and part in one of   *)
(* 16, keys of different tags that are equal, and None.                    *)
(***************************************************************************)
EXTENDS DictPromise

CONSTANTS v, w, absent, noWalk, refused

K(tag, n, shape, bits) == [tag |-> tag, n |-> n, shape |-> shape, bits |-> bits]
I(n) == K("INT", n, "", 0)
None == K("NONE", 0, "", 1)
True == K("BOOL", 1, "", 0)
One  == K("FLOAT", 1, "whole", 2)
Half == K("FLOAT", 1, "frac", 3)

MCKeys == {I(1), One, I(4), I(5), I(-1), None}
MCSizes == {4, 8, 16, 32}

MCLiterals == {<<<<None, v>>>>, <<<<I(5), v>>, <<One, v>>, <<I(1), v>>>>}
MCSources == {<<<<I(-1), v>>, <<None, w>>, <<I(1), w>>>>}
=============================================================================
