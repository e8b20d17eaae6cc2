--------------------------- MODULE MCControlPanel ---------------------------
(***************************************************************************)
(* Instances of ControlPanel for TLC, and the properties of the control      *)
(* session the panel talks to.                                              *)
(***************************************************************************)
EXTENDS ControlPanel

CONSTANTS a, b, unity, low

Session == INSTANCE MCControlSession

\* A preset and an edit of the session as the panel's model has them.
AsGain(gain) == IF gain = 2 THEN unity ELSE low
AsPanels(p) ==
  [x \in {Session!Crosspoint(r) : r \in Session!AnyRoute} |->
     LET routes == {k \in DOMAIN p.routes : Session!Crosspoint(p.routes[k]) = x}
     IN  IF routes = {} THEN Absent
         ELSE LET r == p.routes[CHOOSE k \in routes : TRUE]
              IN  [gain |-> AsGain(r.gain), muted |-> r.muted]]
EditOfPanel(c) ==
  [type |-> c.type, route |-> Session!Crosspoint(c)]
    @@ (IF "gain" \in DOMAIN c THEN [gain |-> AsGain(c.gain)] ELSE <<>>)
    @@ (IF "mute" \in DOMAIN c THEN [mute |-> c.mute] ELSE <<>>)

\* What the panel expects of an edit is what the session makes of it.
PanelPredictsSession ==
  \A p \in {p \in Session!Presets : <<p.inputs, p.outputs>>
                                       = <<Session!Widest.inputs, Session!Widest.outputs>>},
     c \in {c \in Session!Edits : Session!ValidCommand(c)} :
    LET next == Session!Apply(p, c)
    IN  IF next = {} THEN ApplyCommand(AsPanels(p), EditOfPanel(c)) = Refused
        ELSE {ApplyCommand(AsPanels(p), EditOfPanel(c))} = {AsPanels(n) : n \in next}

ASSUME PresetsAreRight == Session!PresetsPlay /\ Session!LiveUpdatePlays
ASSUME GraphsAreRight == Session!ChainsCompose /\ Session!BusesKeepEverything
ASSUME SessionIsRight == Session!SessionsAreConsistent /\ Session!BatchesAreAtomic
ASSUME PanelIsRight == PanelPredictsSession

\* The panel has just started, or has connected a route and is at rest: the
\* second is reached from the first by one edit, and saves its states.  A panel
\* that has just started makes one edit only.
MCInit ==
  \/ /\ PipeInit
     /\ preset = EmptyPreset /\ panel = StartedPanel
     /\ lost = FALSE /\ edits = MaxEdits - 1
  \/ LET connected == [r \in Routes |-> [gain |-> unity, muted |-> FALSE]]
     IN  /\ server = "serving" /\ instance = Listening /\ workers = Empty
         /\ transaction = [c \in Clients |-> NoTransaction]
         /\ faults = 0 /\ edits = 0 /\ lost = FALSE
         /\ preset = connected
         /\ panel = [StartedPanel EXCEPT
                       !.view = connected, !.timers = {}, !.last = "Record",
                       !.undo = <<[before |-> EmptyPreset, after |-> connected]>>]

MCSpec == MCInit /\ [][Next]_vars /\ Fairness
=============================================================================
