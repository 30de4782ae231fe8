------------------------------ MODULE MCGcMark ------------------------------
(* Marking over eight objects and a handful of heaps that fill the stack.  *)
EXTENDS GcMark

P == <<>>   \* a slot with no pointer

MCObj == 1..9
MCKind == <<"tuple", "tuple", "tuple", "list", "dict", "obj", "list", "leaf", "dict">>
MCStatic == {8}
MCWordOf == [o \in MCObj |-> IF o = 8 THEN 0 ELSE 1 + (o % 2)]

Ranges(pairs) == [o \in MCObj |-> IF \E p \in pairs : p[1] = o
                                   THEN (CHOOSE p \in pairs : p[1] = o)[2] ELSE <<>>]

HeapWith(slots, table, reg, memroots, frames, pruned) ==
  [slots |-> Ranges(slots), table |-> Ranges(table), reg |-> reg,
   memroots |-> memroots, frames |-> frames, pruned |-> pruned]

MCHeaps == <<
  \* a chain that leaves a payload per level, and garbage (5, 6)
  HeapWith({<<1, <<<<7>>, <<2>>>>>>, <<2, <<<<4>>, <<3>>>>>>, <<3, <<<<9>>, <<1>>>>>>,
            <<4, <<<<8>>>>>>, <<5, <<<<6>>>>>>}, {}, <<1>>, <<<<P>>>>, <<>>, {}),
  \* one child seen from several wide parents
  HeapWith({<<1, <<<<2>>, <<3>>, <<4>>, <<6>>>>>>, <<2, <<<<7>>, <<4>>, <<6>>>>>>,
            <<3, <<<<4>>, <<7>>, P, <<6>>>>>>, <<4, <<<<7>>, <<8>>>>>>, <<6, <<<<1>>>>>>},
           {}, <<1, 8>>, <<>>, <<>>, {8}),
  \* dicts whose order buffer and table both hold children, one wide, one narrow
  HeapWith({<<5, <<<<1>>, <<8>>, <<2>>>>>>, <<1, <<<<4>>>>>>, <<3, <<<<1>>>>>>,
            <<7, <<<<9>>, <<6>>>>>>, <<9, <<<<1>>, <<2>>>>>>},
           {<<5, <<<<1, 3>>, P, <<8, 6>>, <<2, 7>>>>>>, <<9, <<<<2, 4>>, <<1, 3>>>>>>},
           <<5>>, <<>>, <<>>, {}),
  \* roots in memory and in frames
  HeapWith({<<1, <<<<2>>>>>>, <<6, <<<<7>>, <<5>>>>>>, <<5, <<<<8>>>>>>},
           {<<5, <<<<8, 3>>>>>>},
           <<>>, <<<<<<1>>, <<6>>>>, <<<<4>>>>>>, <<<<7, 6, 5>>, <<2>>>>, {8}),
  \* a narrow dict first, then a chain below its order buffer
  HeapWith({<<9, <<<<1>>, <<4>>>>>>, <<1, <<<<2>>, <<7>>>>>>, <<2, <<<<3>>>>>>},
           {<<9, <<<<1, 6>>, <<4, 5>>>>>>}, <<9, 4>>, <<<<<<3>>>>>>, <<>>, {}),
  \* two ranges that overflow before the first is scanned again
  HeapWith({<<1, <<<<4>>, <<2>>>>>>, <<2, <<<<3>>, <<6>>>>>>, <<3, <<<<7>>, <<9>>>>>>,
            <<6, <<<<5>>>>>>, <<9, <<<<8>>>>>>}, {<<9, <<<<8, 8>>>>>>},
           <<1>>, <<>>, <<>>, {}) >>

MCLimits == {[onchip |-> 1, mem |-> 1, resc |-> 1],
             [onchip |-> 1, mem |-> 1, resc |-> 3],
             [onchip |-> 2, mem |-> 1, resc |-> 3],
             [onchip |-> 3, mem |-> 1, resc |-> 1],
             [onchip |-> 4, mem |-> 2, resc |-> 2]}
=============================================================================
