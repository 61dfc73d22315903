------------------------ MODULE MCSynchronizedQueue ------------------------
EXTENDS SynchronizedQueue, TLC

Symmetry ==
  Permutations(Producers) \cup Permutations(Consumers) \cup Permutations(Items)
=============================================================================
