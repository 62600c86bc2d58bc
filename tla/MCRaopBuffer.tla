---------------------------- MODULE MCRaopBuffer ----------------------------
EXTENDS RaopBuffer
=============================================================================
