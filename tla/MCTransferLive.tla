--------------------------- MODULE MCTransferLive ---------------------------
EXTENDS TransferLive
=============================================================================
