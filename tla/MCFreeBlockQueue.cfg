CONSTANT NumBlocks = 5
SPECIFICATION Spec
INVARIANT WellLinked
PROPERTY QueueSpec
