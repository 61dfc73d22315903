------------------------- MODULE MCSynchronizedFile -------------------------
EXTENDS SynchronizedFile
=============================================================================
