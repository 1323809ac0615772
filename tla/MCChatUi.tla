------------------------------ MODULE MCChatUi ------------------------------
EXTENDS ChatUi

CONSTANTS f1, f2
============================================================================
