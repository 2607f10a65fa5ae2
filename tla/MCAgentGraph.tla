---------------------------- MODULE MCAgentGraph ----------------------------
EXTENDS AgentGraph, TLC

CONSTANTS weather, search   \* a tool, a sensitive tool

MCTools == {weather, search}
MCSensitive == {search}

=============================================================================
