----------------------------- MODULE MCAddrSpace -----------------------------
EXTENDS AddrSpace, TLC

\* page_alloc may take any free page.
AnyFree(free) == free

\* Physical pages are alike, and so are the slots of envs[].
Symmetry == Permutations(Page) \cup Permutations(Env)
=============================================================================
