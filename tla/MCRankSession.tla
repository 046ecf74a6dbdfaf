---------------------------- MODULE MCRankSession ----------------------------
\* RankSession for TLC: pairs cannot be written in a configuration.
EXTENDS RankSession

\* Two workers that exchange rows, and two that are a group each.
SmallShapes == {<<1, 2>>, <<2, 1>>}
=============================================================================
