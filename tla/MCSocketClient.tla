---------------------------- MODULE MCSocketClient ----------------------------
EXTENDS SocketClient
===============================================================================
