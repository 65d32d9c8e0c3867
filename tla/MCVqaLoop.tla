----------------------------- MODULE MCVqaLoop -----------------------------
EXTENDS VqaLoop
=============================================================================
