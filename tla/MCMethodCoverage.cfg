SPECIFICATION Spec
CONSTANT Bodies <- MCBodies
INVARIANTS CfgIsCanonical RegionsKept FrameIsPopped CoverageIsExecution
PROPERTY BehaviourKept
