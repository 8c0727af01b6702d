----------------------------- MODULE MCServing -----------------------------
EXTENDS Serving
=============================================================================
