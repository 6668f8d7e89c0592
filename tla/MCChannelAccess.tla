--------------------------- MODULE MCChannelAccess ---------------------------
EXTENDS ChannelAccess, TLC

\* Requests are told apart by nothing but what they do.
Symmetry == Permutations(Request)

==============================================================================
