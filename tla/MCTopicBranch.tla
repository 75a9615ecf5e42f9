---------------------------- MODULE MCTopicBranch ----------------------------
\* Instances of TopicBranch for TLC.
EXTENDS TopicBranch

CONSTANTS P1, P2, C1, C2, D1, D2, E1, E2
=============================================================================
