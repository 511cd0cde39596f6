------------------------------- MODULE MCViews -------------------------------
(* Instances of Views for TLC.                                               *)
EXTENDS Views, TLC

CONSTANTS f, g

Symmetry == Permutations(Addrs) \cup Permutations(Threads) \cup Permutations(Caches)

Thing(source, adaptors) == [source |-> source, adaptors |-> adaptors]

\* The access objects of the documentation and tests: the ArcSwap itself, a field
\* of a field behind an erased access, a map of a pointer, a constant.
SomeAccesses ==
    {Thing("pointer", <<>>),
     Thing("direct", <<"deref", f, "dyn", "convert", g>>),
     Thing("pointer", <<f, "dyn", "deref", g>>),
     Thing("constant", <<g, f>>)}
=============================================================================
