----------------------------- MODULE Tabulation -----------------------------
(***************************************************************************)
(* Functions, folds and sums in a form that TLC evaluates once: it         *)
(* recomputes a function at every application, and the value of a          *)
(* constant definition that uses the library's folds at every use.         *)
(***************************************************************************)
EXTENDS Integers, Sequences

\* f itself
tabulated(f) == CHOOSE g \in {f} : g = g

\* the fold of seq from the left
foldl(op(_, _), base, seq) ==
    LET upTo[k \in 0 .. Len(seq)] ==
            IF k = 0 THEN base ELSE CHOOSE r \in {op(acc, seq[k]) : acc \in {upTo[k - 1]}} : r = r
    IN  upTo[Len(seq)]

\* op(first) + ... + op(last), in halves so that the recursion is not deep
sumOver(op(_), first, last) ==
    LET sum[p \in (first .. last) \X (first .. last)] ==
            LET middle == (p[1] + p[2]) \div 2
            IN  IF p[1] = p[2] THEN op(p[1]) ELSE sum[<<p[1], middle>>] + sum[<<middle + 1, p[2]>>]
    IN  IF last < first THEN 0 ELSE sum[<<first, last>>]
=============================================================================
