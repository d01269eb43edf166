------------------------------ MODULE MCConnections ------------------------------
EXTENDS Connections

MCFamilies == <<"IPv4", "IPv6">>
===============================================================================
