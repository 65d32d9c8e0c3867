------------------------- MODULE MCShotExpectation -------------------------
EXTENDS ShotExpectation
=============================================================================
