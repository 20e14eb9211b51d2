------------------------------ MODULE MCChatLog ------------------------------
EXTENDS ChatLog
=============================================================================
