---------------------------- MODULE MCClientSession ----------------------------
EXTENDS ClientSessionProperties
===============================================================================
