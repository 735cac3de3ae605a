-------------------------------- MODULE MCNet --------------------------------
EXTENDS Net
=============================================================================
