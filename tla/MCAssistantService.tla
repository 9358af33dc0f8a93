------------------------ MODULE MCAssistantService ------------------------
\* A small instance of AssistantService: one suggestion, one slot to compete for.
EXTENDS AssistantService
=============================================================================
