-------------------------- MODULE MCBrowserSessions --------------------------
EXTENDS BrowserSessions, TLC
CONSTANTS ann, bob, r1, r2

MCAsks == [c \in Callers |-> IF c = r1 THEN {<<ann, "viewer">>, <<ann, "codex">>}
                             ELSE {<<ann, "viewer">>, <<bob, "codex">>}]
=============================================================================
