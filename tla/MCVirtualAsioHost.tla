------------------------- MODULE MCVirtualAsioHost -------------------------
(* Model values for VirtualAsioHost, and the mappings a session may be given *)
(* with formats that are small, so that what VirtualAsioProofs proves        *)
(* of all of them is also evaluated.                                         *)
EXTENDS VirtualAsioHost, SharedMemoryLayout, TLC

CONSTANTS p1, p2, c1, c2

\* Each process draws an id of its own.
OwnIds == p1 :> {c1} @@ p2 :> {c2}

SmallConfigs ==
  [rate : {48000}, frames : {1, 16, MaxFrames}, channels : [Directions -> 0 .. MaxChannels],
   capacity : {1, MaxCapacity}]

SomeIdentity ==
  [generation |-> 1, owner |-> 4, client |-> 8, nonces |-> [e \in {"server", "client"} |-> 1]]

ASSUME SmallMappingsAreSound ==
  \A c \in SmallConfigs :
    /\ PartsAreApart(c) /\ PartsAreAligned(c)
    /\ ValidFormat(c) <=> Accepts(c, SomeIdentity)
    /\ Accepts(c, SomeIdentity) => Validates(Header(c, SomeIdentity), TotalBytes(c))

=============================================================================
