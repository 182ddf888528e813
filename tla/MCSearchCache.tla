--------------------------- MODULE MCSearchCache ---------------------------
EXTENDS SearchCache

\* Searchers are interchangeable, and so are mutations, and so are cacheable keys.
Symmetric == Permutations(Searchers) \cup Permutations(Mutators) \cup Permutations(Eligible)
=============================================================================
