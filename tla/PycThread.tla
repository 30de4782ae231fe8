----------------------------- MODULE PycThread -----------------------------
(***************************************************************************)
(* A left fold.  It computes what FoldLeft of SequencesExt does; the       *)
(* sequence is halved, and the value of the first half bound before the    *)
(* second one starts, so that the folds over long instruction sequences    *)
(* and token streams nest only to a logarithmic depth.                     *)
(***************************************************************************)
EXTENDS Integers, Sequences

Thread(op(_, _), base, s) ==
    LET RECURSIVE Part(_, _, _)
        Part(acc, lo, hi) ==
            IF lo = hi THEN op(acc, s[lo])
            ELSE LET mid == (lo + hi) \div 2
                 IN  CHOOSE r \in {Part(left, mid + 1, hi) : left \in {Part(acc, lo, mid)}} : TRUE
    IN  IF s = <<>> THEN base ELSE Part(base, 1, Len(s))
=============================================================================
