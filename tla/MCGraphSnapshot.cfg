SPECIFICATION FairSpec
CONSTANTS
  Graphs = {g1, g2, g3}
  Controls = {c1, c2}
  Readers = {r1, r2}
  NoGraph = NoGraph
  NoThread = NoThread
INVARIANTS NoUseAfterFree
PROPERTIES PublishReturns
