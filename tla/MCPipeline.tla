----------------------------- MODULE MCPipeline -----------------------------
EXTENDS PipelineProperties, TLC

CONSTANTS r1, r2, r3

AnyClient == Permutations(Requests)
=============================================================================
