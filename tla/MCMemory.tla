------------------------------ MODULE MCMemory ------------------------------
(* Memory on small instances: two task slots, and so few pages that every    *)
(* allocation can fail.                                                      *)
EXTENDS Memory

Users(p) == {x \in Task \X VPage : mem.pte[x[1]][x[2]].page = p}

\* A state up to a permutation of the pages.  No step treats two pages with
\* the same users and contents differently, and which free page is taken is not
\* observed, so the states with the same view have the same behaviours.  TypeOK,
\* which is always true, has TLC evaluate the functions it keeps a state in.
UpToNames ==
    LET uses == [p \in Page |-> <<mem.map[p], mem.val[p], Users(p),
                                  {x \in Task \X VPage : mem.dir[x[1]][x[2]] = p},
                                  {t \in Task : held[t] = p}, {t \in Task : struct[t] = p}>>]
    IN  <<TypeOK, [u \in {uses[p] : p \in Page} |-> Cardinality({p \in Page : uses[p] = u})],
          [t \in Task |-> [v \in VPage |-> <<mem.pte[t][v].writable, mem.pte[t][v].dirty>>]],
          status, executable, pc, target, view, disturbed>>
=============================================================================
