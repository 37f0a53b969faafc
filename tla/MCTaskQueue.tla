---------------------------- MODULE MCTaskQueue ----------------------------
EXTENDS TaskQueue

CONSTANTS e1, e2, h1

\* Two messages of one conversation.
OneThread == [e \in {e1, e2} |-> h1]
=============================================================================
