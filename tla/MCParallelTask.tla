---------------------------- MODULE MCParallelTask ----------------------------
EXTENDS ParallelTask

Task(u, c, n) == [use |-> u, caller |-> c, size |-> n]

\* Works that meet at a barrier are run from outside the pool; works that store
\* from a pool thread as well.
Served ==
    {Task("tiles", "app", n) : n \in {1, 2, 5}}
        \cup {Task("cubes", "app", 3)}
        \cup {Task("store", c, 3) : c \in {"app", "pool"}}
=============================================================================
