------------------------------- MODULE MCChat -------------------------------
EXTENDS Chat
=============================================================================
