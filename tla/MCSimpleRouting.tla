-------------------------- MODULE MCSimpleRouting ---------------------------
EXTENDS SimpleRouting

\* A ring of five nodes: two ways to everybody, of different lengths; every
\* link carries frames both ways.
Half == {<<1, 2>>, <<2, 3>>, <<3, 4>>, <<4, 5>>, <<5, 1>>}
Ring == Half \cup {<<e[2], e[1]>> : e \in Half}

\* The destination is heard, and hears nobody but the source.
OneWay == {<<1, 2>>}

\* A data frame of source 4: nodeid, counter, data.
DataFrames == {<<4, 2, 0>>}
=============================================================================
