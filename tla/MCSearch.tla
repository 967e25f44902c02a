----------------------------- MODULE MCSearch -----------------------------
(* Instances of ParticleLoops for TLC *)
EXTENDS ParticleLoops

array(seq) == [i \in 0 .. Len(seq) - 1 |-> seq[i + 1]]

\* 1: a tree of three levels, with particles on both sides of a periodic boundary,
\*    different radii, and drifts that leave the order of the keys;
\* 2: particles that cannot get enough neighbors;
\* 3: more than a warp of nodes to visit at a time, so that queues overflow;
\* 4: more neighbors than fit in the lists
MCProblems == <<
  [leaves |-> array(<<0,64,72,80,88,89,90,91,92,93,94,95,96,104,112,120,128,192,256,264,272,280,288,296,304,312,320,384,448,512>>),
   bodies |-> array(<<29,255,261,367,476,525,565,616,627,672,698,708,712,714,733,752,753,755,764,767,798,892,901,929,992,2049,2053,2177,2183,2217,2218,2262,2268,2503,2967,3152,3202>>),
   rad |-> array(<<4,5,5,4,5,6,5,5,5,6,4,5,5,4,6,4,5,5,5,5,5,5,4,5,5,5,5,4,5,5,6,5,4,4,6,4,5>>),
   drift |-> array(<<<<1,0,0>>,<<1,0,0>>,<<1,0,0>>,<<0,0,1>>,<<0,-1,0>>,<<0,0,0>>,<<0,-1,0>>,<<0,0,1>>,<<1,0,0>>,<<1,0,0>>,<<0,-1,0>>,<<0,0,0>>,<<0,-1,0>>,<<0,-1,0>>,<<0,0,0>>,<<0,-1,0>>,<<0,0,0>>,<<0,0,0>>,<<0,-1,0>>,<<0,-1,0>>,<<0,0,1>>,<<0,-1,0>>,<<1,0,0>>,<<0,0,1>>,<<0,0,1>>,<<1,0,0>>,<<0,-1,0>>,<<0,-1,0>>,<<0,0,0>>,<<0,-1,0>>,<<0,0,1>>,<<0,0,0>>,<<0,0,1>>,<<0,-1,0>>,<<0,0,1>>,<<0,0,0>>,<<0,0,1>>>>),
   first |-> 6, last |-> 30, pbc |-> <<TRUE,FALSE,FALSE>>, ngmax |-> 30, ng0 |-> 8, bytesPerParticle |-> 128],
  [leaves |-> array(<<0,64,128,192,256,320,384,448,512>>),
   bodies |-> array(<<268,456,1192,2049,2816,3455,3732,4043>>),
   rad |-> array(<<3,3,3,3,3,3,3,3>>),
   drift |-> array(<<<<0,0,0>>,<<0,0,0>>,<<0,0,0>>,<<0,0,0>>,<<0,0,0>>,<<0,0,0>>,<<0,0,0>>,<<0,0,0>>>>),
   first |-> 1, last |-> 7, pbc |-> <<FALSE,FALSE,FALSE>>, ngmax |-> 30, ng0 |-> 40, bytesPerParticle |-> 128],
  [leaves |-> array(<<0,8,16,24,32,40,48,56,64,72,80,88,96,104,112,120,128,136,144,152,160,168,176,184,192,200,208,216,224,232,240,248,256,264,272,280,288,296,304,312,320,328,336,344,352,360,368,376,384,392,400,408,416,424,432,440,448,512>>),
   bodies |-> array(<<481,873,1069,1087,1156,1222,1382,1386,1696,2415,2602,2737,3055,3390,3445,3559,3712,3715,3924,3998>>),
   rad |-> array(<<7,7,7,7,7,7,7,7,7,7,7,7,7,7,7,7,7,7,7,7>>),
   drift |-> array(<<<<0,0,0>>,<<0,0,0>>,<<0,0,0>>,<<0,0,0>>,<<0,0,0>>,<<0,0,0>>,<<0,0,0>>,<<0,0,0>>,<<0,0,0>>,<<0,0,0>>,<<0,0,0>>,<<0,0,0>>,<<0,0,0>>,<<0,0,0>>,<<0,0,0>>,<<0,0,0>>,<<0,0,0>>,<<0,0,0>>,<<0,0,0>>,<<0,0,0>>>>),
   first |-> 0, last |-> 18, pbc |-> <<FALSE,FALSE,FALSE>>, ngmax |-> 30, ng0 |-> 8, bytesPerParticle |-> 128],
  [leaves |-> array(<<0,8,16,24,32,40,48,56,64,128,192,256,320,384,448,512>>),
   bodies |-> array(<<35,64,91,115,150,183,184,271,278,280,287,298,300,313,346,364,369,372,386,413,481,497,503,511,1243,1904,2890,3173>>),
   rad |-> array(<<16,6,6,6,16,6,6,6,16,6,6,6,16,6,6,6,16,6,6,6,16,6,6,6,16,6,6,6>>),
   drift |-> array(<<<<0,0,0>>,<<0,0,0>>,<<0,0,0>>,<<0,0,0>>,<<0,0,0>>,<<0,0,0>>,<<0,0,0>>,<<0,0,0>>,<<0,0,0>>,<<0,0,0>>,<<0,0,0>>,<<0,0,0>>,<<0,0,0>>,<<0,0,0>>,<<0,0,0>>,<<0,0,0>>,<<0,0,0>>,<<0,0,0>>,<<0,0,0>>,<<0,0,0>>,<<0,0,0>>,<<0,0,0>>,<<0,0,0>>,<<0,0,0>>,<<0,0,0>>,<<0,0,0>>,<<0,0,0>>,<<0,0,0>>>>),
   first |-> 2, last |-> 26, pbc |-> <<FALSE,FALSE,FALSE>>, ngmax |-> 3, ng0 |-> 4, bytesPerParticle |-> 1]>>

config(p, kind, sub, codec) == [p |-> p, kind |-> kind, sub |-> sub, codec |-> codec]

\* every kind with and without substeps where they differ, every codec with both
\* compressed neighborhoods; on the GPU particles that do not converge (2),
\* queues (3) and lists (4) that are too short
MCConfigurations ==
    {config(1, "cpuTraverse", FALSE, "nibble"), config(1, "cpuFull", FALSE, "nibble"),
     config(1, "traverse", TRUE, "nibble"), config(1, "full", TRUE, "nibble"),
     config(1, "clustered", TRUE, "nibble"), config(1, "clustered", FALSE, "band"),
     config(1, "compressedHalf", FALSE, "nibble"), config(1, "compressedFull", FALSE, "band"),
     config(1, "compressedFull", TRUE, "dummy"),
     config(2, "traverse", FALSE, "nibble"), config(3, "traverse", FALSE, "nibble"),
     config(4, "full", FALSE, "nibble"), config(4, "compressedHalf", FALSE, "nibble"),
     config(4, "clustered", FALSE, "dummy")}
\* particles that do not converge, on the host
MCUnconverged == {config(2, "cpuFull", FALSE, "nibble")}
MCSearchExt == <<3, 2>>
Symmetry == Permutations(Warps)
=============================================================================
