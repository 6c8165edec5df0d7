---------------------------- MODULE MCDepResolver ----------------------------
(* Instances of DepResolver for TLC. *)
EXTENDS DepResolver

CONSTANTS a, b, c

MCNames == {a, b, c}

\* Lists of at most two names.
Lists == {<<>>, <<a>>, <<b>>, <<c>>, <<a, b>>, <<b, c>>, <<c, b>>}
Pairs == {p \in Lists \X Lists : Len(p[1]) + Len(p[2]) <= 2}

\* Every graph of three units with such lists, with all files there, one
\* missing or only the target loaded.
MCGraphs ==
  {[requires |-> [u \in MCNames |-> deps[u][1]],
    wants |-> [u \in MCNames |-> deps[u][2]],
    known |-> {a}, files |-> here] :
     deps \in [MCNames -> Pairs], here \in {{a, b, c}, {b}, {}}}
=============================================================================
