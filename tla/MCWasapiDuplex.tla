--------------------------- MODULE MCWasapiDuplex ---------------------------
(***************************************************************************)
(* The two halves of a duplex loop for TLC: the life of its threads        *)
(* (WasapiDuplexLoop) and the cycles of its worker (WasapiGraphRunner).     *)
(* They share no variable, so a behaviour in which both move shows nothing *)
(* that those in which one does would not: each behaviour moves one.       *)
(***************************************************************************)
EXTENDS WasapiDuplexLoop, WasapiGraphRunner

\* The mapping the runner's external input may come from, for small formats.
Mapping == INSTANCE VirtualWasapiLayout
  WITH MinSlots <- 2, MaxSlots <- 4, MaxChannels <- 3, MaxFrames <- 20, MaxBytes <- 1500,
       Magic <- "SAWV"

MappingFormats ==
  {[name |-> "float", bits |-> 32, valid |-> 32], [name |-> "float", bits |-> 64, valid |-> 64],
   [name |-> "pcm", bits |-> 16, valid |-> 16], [name |-> "pcm", bits |-> 24, valid |-> 20],
   [name |-> "pcm", bits |-> 16, valid |-> 24]}

MappingConfigs ==
  [direction : Mapping!Directions, format : MappingFormats, rate : {48000},
   channels : 0 .. 4, frames : {1, 15, 16, 17, 20, 21}, slots : 1 .. 5]

\* Headers that differ from the calculated one in a field.
OtherHeaders(h) ==
  {[h EXCEPT !.reserved = 1], [h EXCEPT !.ring.stride = @ + 64],
   [h EXCEPT !.table.stride = @ + 64]}
  \union UNION {{[h EXCEPT !.total = @ + d], [h EXCEPT !.ring.at = @ + d],
                 [h EXCEPT !.table.at = @ + d], [h EXCEPT !.audio.at = @ + d],
                 [h EXCEPT !.audio.stride = @ + d],
                 [h EXCEPT !.config.slots = @ + d], [h EXCEPT !.config.frames = @ + d]}
                  : d \in {-64, -16, -1, 1, 16, 64}}

\* What one side calculates the other attaches to, whichever of the two it is, and
\* whatever header it attaches to, what it then reads and writes is sound: a header
\* with another field at all is refused, unless the field leaves every part in place.
ASSUME MappingsAreSound ==
  \A c \in {c \in MappingConfigs : Mapping!Accepts(c)} :
    LET h == Mapping!Header(c)
    IN  /\ Mapping!Initializes(64, h.total, h)
        /\ Mapping!Attaches(64, h.total, h, c.direction)
        /\ Mapping!OpensRender(64, h.total, h)
             <=> c.direction = "render" /\ c.format.name = "float"
        /\ ~Mapping!Initializes(64, h.total - 1, h)
        /\ Mapping!PartsAreSound(h, h.total)
        /\ \A other \in OtherHeaders(h) :
             Mapping!Initializes(64, h.total, other) => Mapping!PartsAreSound(other, h.total)

\* Some mappings are refused for their size alone, and some are not.
ASSUME SizesAreTold ==
  \A fits \in BOOLEAN : \E c \in MappingConfigs :
    /\ Mapping!SupportedFormat(c.format) /\ Mapping!ValidRange(c)
    /\ Mapping!Accepts(c) = fits

VARIABLE half    \* the half that moves

bothVars == <<vars, cycleVars, half>>

MCInit == Init /\ RunnerInit /\ half \in {"loop", "cycles"}

MCNext ==
  \/ half = "loop" /\ Next /\ UNCHANGED <<cycleVars, half>>
  \/ half = "loop" /\ call = Idle /\ UNCHANGED bothVars    \* the owner may rest
  \/ half = "cycles" /\ RunnerNext /\ UNCHANGED <<vars, half>>

\* The fairness of WasapiDuplexLoop's specification; the cycles have none.
MCSpec == /\ MCInit /\ [][MCNext]_bothVars
          /\ WF_bothVars(half = "loop" /\ Owner /\ UNCHANGED <<cycleVars, half>>)
          /\ WF_bothVars(half = "loop" /\ Worker /\ UNCHANGED <<cycleVars, half>>)
          /\ WF_bothVars(half = "loop" /\ Observer /\ UNCHANGED <<cycleVars, half>>)
=============================================================================
