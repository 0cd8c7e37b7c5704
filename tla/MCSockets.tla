----------------------------- MODULE MCSockets -----------------------------
EXTENDS Sockets
=============================================================================
