----------------------------- MODULE MCGcAlloc -----------------------------
EXTENDS GcAlloc

Whole(parts) == [parts |-> parts, split |-> FALSE]
Split(parts) == [parts |-> parts, split |-> TRUE]

\* A small object, an object with an aligned buffer, a list of strings.
MCRequests == {Whole(<<1>>), Whole(<<1, 2>>), Split(<<1, 2>>)}
=============================================================================
