--------------------------- MODULE MCCatalogStore ---------------------------
EXTENDS CatalogStore, TLC

CONSTANTS p1, p2, c1, c2

\* Processes are interchangeable, and so are catalogs.
Symmetry == Permutations(Procs) \cup Permutations(Catalogs)
=============================================================================
