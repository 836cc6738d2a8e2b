SPECIFICATION Spec
INVARIANT LoopComputesWorst
INVARIANT GateSeesEveryBadPart
