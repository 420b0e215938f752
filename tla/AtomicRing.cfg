\* Seven nodes: every ring of up to seven members and every join, leave and
\* failure in it, so each case of discoveryHandler is reached with ids below,
\* between and above those of the neighbours.
CONSTANTS
    MaxId = 9
    NodeId = {0, 1, 3, 4, 6, 8, 9}
SPECIFICATION Spec
INVARIANTS
    TypeOK
    RingIsClosed
    NeighboursAgree
