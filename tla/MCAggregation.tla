---------------------------- MODULE MCAggregation ----------------------------
\* Aggregation for TLC: pairs cannot be written in a configuration.
EXTENDS Aggregation

\* One group of three workers; two groups of one, which share the places of their rows.
OneOrTwoGroups == {<<1, 3>>, <<2, 1>>}
TwoInOneGroup == {<<1, 2>>}
=============================================================================
