SPECIFICATION BusSpec
CONSTANTS
  NumSlots = 1
  Frames = 2
  MaxBlockFrames = 3
  QueueCapacity = 1
  StoreBuffer = 3
  Torn = Torn
  MaxGeneration = 3
  MaxAccepted = 4
PROPERTIES StaleAudioStaysOut StreamIsWhole PublishedIsHeard
