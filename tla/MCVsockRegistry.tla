-------------------------- MODULE MCVsockRegistry --------------------------
EXTENDS VsockRegistry
============================================================================
