--------------------------- MODULE MC_EventRemotes ---------------------------
EXTENDS EventRemotes

\* Clients are only ever compared for equality.
ClientSymmetry == Permutations(Clients)
=============================================================================
