------------------------------ MODULE MCClients ------------------------------
EXTENDS Clients
=============================================================================
