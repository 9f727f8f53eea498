SPECIFICATION Spec
CONSTANT Bodies <- TailTargetBodies
INVARIANT FrameIsPopped
