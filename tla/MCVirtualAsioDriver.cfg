CONSTANTS
  Threads = {t1, t2}
  Nobody = Nobody
SPECIFICATION Spec
INVARIANTS BuffersOutliveCallbacks StoppedMeansSilent
PROPERTIES CallsReturn
