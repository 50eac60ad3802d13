SPECIFICATION EvidenceSpec
CONSTANT MaxLoads = 3
INVARIANT DetailReplayed
CHECK_DEADLOCK FALSE
