----------------------------- MODULE MCAgentExec ----------------------------
EXTENDS AgentExec
=============================================================================
