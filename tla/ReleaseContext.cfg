\* Three workers, two pipelines, three requests.
SPECIFICATION FairSpec
CONSTANTS
  p1 = p1
  p2 = p2
  w1 = w1
  w2 = w2
  w3 = w3
  none = none
  Pipeline <- MCPipeline
  Worker <- MCWorker
  Runner <- MCRunner
  PipelineOf <- MCPipelineOf
  NoRunner = none
  NoEntry = none
INVARIANTS
  TypeOK
  LiveIsRegistered
  EntryHasWorker
  LiveIsNewest
PROPERTY ContextIsReleased
