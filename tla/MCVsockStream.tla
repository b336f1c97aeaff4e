---------------------------- MODULE MCVsockStream ---------------------------
EXTENDS VsockStream
=============================================================================
