-------------------------------- MODULE MCApi --------------------------------
EXTENDS Api
=============================================================================
