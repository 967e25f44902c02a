------------------------------ MODULE MCFocus ------------------------------
EXTENDS FocusTree

array(s) == [i \in 0 .. Len(s) - 1 |-> s[i + 1]]

\* particles far apart, in two groups, and in one large group: from one call to
\* the next the global tree grows, shrinks and is divided in other places
MCDistributions ==
    {array(<<27, 41, 306, 507>>),
     array(<<18, 26, 35, 35, 46, 46, 227, 236, 468, 472>>),
     array(<<19, 30, 32, 49, 69, 71, 79, 90, 96, 99, 101, 402, 403, 511>>)}

MCBoundaries == <<TRUE, FALSE, FALSE>>
=============================================================================
