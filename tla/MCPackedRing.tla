---------------------------- MODULE MCPackedRing ----------------------------
EXTENDS PackedRing
=============================================================================
