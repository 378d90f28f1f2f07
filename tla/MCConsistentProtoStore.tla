----------------------- MODULE MCConsistentProtoStore -----------------------
EXTENDS ConsistentProtoStore

CONSTANTS small, large

\* Messages of different encoded sizes: a later one may be shorter.
MixedSizes == [p \in Protos |-> IF p = large THEN 3 ELSE 1]

\* Messages that all have the same encoded size.
OneSize == [p \in Protos |-> 2]
=============================================================================
