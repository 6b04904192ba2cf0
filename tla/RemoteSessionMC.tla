---------------------------- MODULE RemoteSessionMC ----------------------------
EXTENDS RemoteSession, TLC

Symmetry == Permutations(Threads)

\* A connection at a time, and crashes; or all of them at once, and none.
SerialOrBusy == [threads : {{t} : t \in Threads}, restarts : {TRUE}]
                  \cup [threads : {Threads}, restarts : {FALSE}]
================================================================================
