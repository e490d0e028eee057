--------------------------- MODULE MCAssistantRuns ---------------------------
EXTENDS AssistantRuns, TLC
CONSTANTS a1, a2, w1, w2

MCMaxCommands == a1 :> 2 @@ a2 :> 1
=============================================================================
