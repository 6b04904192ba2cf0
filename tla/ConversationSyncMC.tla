-------------------------- MODULE ConversationSyncMC --------------------------
EXTENDS ConversationSync, TLC

\* What messages say and which session mutates are interchangeable.
Symmetry == Permutations(Text) \cup Permutations(Peers)

Calm      == {{}}
Dropping  == {{"drops"}}
AllOrNone == {{}, Disturbances}
================================================================================
