SPECIFICATION RowsSpec
CONSTANT Samples <- MCSamples
INVARIANT CollapseHides
