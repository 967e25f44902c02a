------------------------------- MODULE MCTree -------------------------------
EXTENDS GlobalTree

\* no particles; clustered ones, of which two ranks with them fill a leaf for
\* two levels at once; removed ones; all at one place; ones far apart
MCParticleKeys ==
    LET array(s) == [i \in 0 .. Len(s) - 1 |-> s[i + 1]] IN
    {array(<<>>),
     array(<<0, 0, 1, 1, 2, 9, 10, 62, 63, 448, 449, 460, 470, 480, 490, 500, 511>>),
     array(<<65, 66, 67, RemoveKey>>),
     array(<<0, 0, 0>>),
     array(<<7, 8, 300, 301, 302>>)}
=============================================================================
