------------------------ MODULE MCTransactionBuffer ------------------------
EXTENDS TransactionBuffer
=============================================================================
