\* Pairs of networks at the thresholds, triples of nodes that differ in every field.
SPECIFICATION Spec
CONSTANTS
    Networks <- ThresholdNetworks
    Nodes <- CloseNodes
    Gaps = {0, 1, 15}
    Counts = {0, 1, 2}
INVARIANTS
    StaleScoresLow
    FasterScoresHigher
    NoPingPong
