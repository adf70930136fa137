-------------------------------- MODULE MCDma --------------------------------
EXTENDS Dma
=============================================================================
