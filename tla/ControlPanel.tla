---------------------------- MODULE ControlPanel ----------------------------
(***************************************************************************)
(* app/gui/engine_controller.cpp over the control pipe: the control panel  *)
(* sends the user's commands one at a time, keeps a view of the preset and *)
(* a history of what it changed, and starts the engine when the pipe does  *)
(* not answer.  The engine's handler is the request handler of             *)
(* tools/sar_engine_service.cpp, reduced to the preset; another client     *)
(* (sar_control_cli) uses the same pipe.                                   *)
(*                                                                         *)
(* Everything in the panel runs on its event loop: a user's action, a      *)
(* timer or a finished transaction is one step.                            *)
(***************************************************************************)
EXTENDS NamedPipeControl, Sequences, SequencesExt

CONSTANTS
  Panel,         \* the client that is the control panel
  Routes,        \* crosspoints of the matrix
  Gains,         \* route gains; ConnectRoute uses UnityGain
  UnityGain,
  Absent,        \* the crosspoint has no route
  NoPreset,      \* current_preset_ is empty
  NoCommand,     \* active_command_ is empty
  NoEntry,       \* the command has no history entry
  HistoryLimit,  \* kHistoryLimit
  MaxEdits       \* bound: actions of the user

ASSUME ControlPanelAssumption ==
  /\ Panel \in Clients /\ UnityGain \in Gains
  /\ HistoryLimit \in Nat \ {0} /\ MaxEdits \in Nat

VARIABLES
  preset,  \* the engine's committed preset; EngineSession: its next start restores it
  panel,   \* the panel: a record of its members
  lost,    \* history: the panel's history may not be the engine's: an answer was lost,
           \* something else changed the preset, or a gain moved during another edit
  edits    \* actions of the user so far

vars == <<pipeVars, preset, panel, lost, edits>>

RoutesWith == [gain : Gains, muted : BOOLEAN]
Presets    == [Routes -> RoutesWith \union {Absent}]
Refused    == NoPreset

EmptyPreset == [r \in Routes |-> Absent]

Commands ==
  [type : {"QuerySessionState", "QueryDiagnostics", "SavePreset", "ConfigureAudioRuntime",
           "ConfigureVirtualAsioDevices"}]
    \union [type : {"ConnectRoute", "DisconnectRoute"}, route : Routes]
    \union [type : {"SetGain"}, route : Routes, gain : Gains]
    \union [type : {"SetMute"}, route : Routes, mute : BOOLEAN]
    \union [type : {"LoadPreset"}, preset : Presets]

Responses == [status : {"Accepted", "Rejected"}, preset : Presets \union {NoPreset}]

\* A QueuedCommand, with its history entry.
HistoryEntries == [before : Presets, after : Presets]
QueuedCommands ==
  {q \in [command : Commands, poll : BOOLEAN, action : {"None", "Record", "Undo", "Redo", "Reset"},
          entry : HistoryEntries \union {NoEntry}] :
     /\ q.action \in {"Record", "Undo", "Redo"} <=> q.entry # NoEntry
     /\ q.action = "Reset" => q.command.type = "LoadPreset"}

ASSUME PanelMarksAreNone ==
  /\ Absent \notin RoutesWith /\ NoPreset \notin Presets
  /\ NoCommand \notin QueuedCommands /\ NoEntry \notin HistoryEntries
  /\ NoRequest \notin Commands \union Responses
  /\ {NoInstance, Listening, Free, Ended} \intersect ConnectionsOf(Commands, Responses) = {}

Timers == {"refresh", "reset", "restart"}

\* `timers' holds the single-shot timers that have not fired; two of a kind
\* that wait at the same time are one.  `last' is history: how the last entry
\* of the history was committed.
StartedPanel ==
  [active    |-> NoCommand,   \* active_command_
   queued    |-> <<>>,        \* queued_commands_
   view      |-> NoPreset,    \* current_preset_
   undo      |-> <<>>,        \* undo_history_
   redo      |-> <<>>,        \* redo_history_
   armed     |-> FALSE,       \* virtual_asio_restart_armed_
   attempted |-> FALSE,       \* engine_service_start_attempted_
   launched  |-> FALSE,       \* a started engine has not taken the lock yet
   timers    |-> {"refresh"},
   store     |-> NoPreset,    \* preset_store_, of one name
   last      |-> "Reset"]

-----------------------------------------------------------------------------
(* control_command.cpp                                                     *)

Mutates(command) ==
  command.type \in {"ConnectRoute", "DisconnectRoute", "SetGain", "SetMute", "LoadPreset"}

Queries(command) ==
  command.type \in {"QuerySessionState", "QueryDiagnostics", "SavePreset"}

ApplyCommand(p, command) ==
  CASE command.type = "LoadPreset" -> command.preset
    [] command.type = "ConnectRoute" ->
         IF p[command.route] # Absent THEN Refused
         ELSE [p EXCEPT ![command.route] = [gain |-> UnityGain, muted |-> FALSE]]
    [] command.type \in {"DisconnectRoute", "SetGain", "SetMute"} ->
         IF p[command.route] = Absent THEN Refused
         ELSE [p EXCEPT ![command.route] =
                 CASE command.type = "DisconnectRoute" -> Absent
                   [] command.type = "SetGain" -> [@ EXCEPT !.gain = command.gain]
                   [] command.type = "SetMute" -> [@ EXCEPT !.muted = command.mute]]
    [] OTHER -> p

-----------------------------------------------------------------------------
(* The engine: its handler under request_mutex, its start and its end.     *)

Answer(status, command) ==
  [status |-> status,
   preset |-> IF command.type \in {"QuerySessionState", "SavePreset"} THEN preset ELSE NoPreset]

\* A configuration that drops endpoints takes their routes with it; one without a
\* matrix adds the default routes that are missing, at unity.
Reconfigured ==
  {[r \in Routes |->
      IF r \in gone THEN Absent
      ELSE IF r \in new /\ preset[r] = Absent THEN [gain |-> UnityGain, muted |-> FALSE]
      ELSE preset[r]] : gone, new \in SUBSET Routes}

\* A mutation may be refused for reasons outside the preset (EngineControlService).
Handle(w) ==
  /\ AtPhase(w, "handling")
  /\ LET command == workers[w].request
         next    == ApplyCommand(preset, command)
         reply(status) == workers' = [workers EXCEPT ![w].phase = "writing",
                                                     ![w].request = NoRequest,
                                                     ![w].response = Answer(status, command)]
     IN  \/ /\ Mutates(command) /\ next # Refused
            /\ preset' = next
            /\ lost' = (lost \/ workers[w].client # Panel \/ ~workers[w].open)
            /\ reply("Accepted")
            /\ UNCHANGED server
         \/ /\ command.type = "ConfigureAudioRuntime"
            /\ preset' \in Reconfigured
            /\ lost' = (lost \/ preset' # preset)
            /\ reply("Accepted")
            /\ UNCHANGED server
         \/ /\ ~Queries(command)
            /\ reply("Rejected")
            /\ UNCHANGED <<preset, lost, server>>
         \/ /\ Queries(command)
            /\ reply("Accepted")
            /\ UNCHANGED <<preset, lost, server>>
         \/ /\ command.type = "ConfigureVirtualAsioDevices"
            /\ reply("Accepted")
            /\ server' = "stopping"
            /\ UNCHANGED <<preset, lost>>
  /\ UNCHANGED <<instance, transaction, faults, panel, edits>>

\* A started process that finds the engine's lock taken exits again.
EngineStarts ==
  /\ panel.launched
  /\ panel' = [panel EXCEPT !.launched = FALSE]
  /\ IF server = "down" THEN StartServer ELSE UNCHANGED pipeVars
  /\ UNCHANGED <<preset, lost, edits>>

EngineDies ==
  /\ ProcessDies
  /\ UNCHANGED <<preset, panel, lost, edits>>

-----------------------------------------------------------------------------
(* The queue of commands.  `at' is the panel in the course of one step.    *)

Queued(command) == [command |-> command, poll |-> FALSE, action |-> "None", entry |-> NoEntry]

\* Fault: no poll asks for the session.
PollWithoutSession == [Queued([type |-> "QueryDiagnostics"]) EXCEPT !.poll = TRUE]

Poll == [Queued([type |-> "QuerySessionState"]) EXCEPT !.poll = TRUE]

SameGain(c, d) == c.type = "SetGain" /\ d.type = "SetGain" /\ c.route = d.route

\* startNextCommand(), without the transaction it begins.
StartNext(at) ==
  IF at.active # NoCommand \/ at.queued = <<>> THEN at
  ELSE [at EXCEPT !.active = Head(at.queued), !.queued = Tail(at.queued),
                  !.armed = @ \/ Head(at.queued).command.type = "ConfigureVirtualAsioDevices"]

WithGain(old, q) ==
  [old EXCEPT !.command.gain = q.command.gain,
              !.entry = IF @ = NoEntry \/ q.entry = NoEntry THEN @
                        ELSE [@ EXCEPT !.after = q.entry.after]]

\* enqueue(): a queued gain of the same route takes the new value instead.
Enqueue(at, q) ==
  LET same == {i \in DOMAIN at.queued : SameGain(at.queued[i].command, q.command)}
  IN  IF same = {}
      THEN StartNext([at EXCEPT !.queued = Append(@, q)])
      ELSE [at EXCEPT !.queued[CHOOSE j \in same : \A k \in same : k <= j] = WithGain(@, q)]

\* The panel is `at' from now on, and sends a command it has just made active.
Becomes(at) ==
  /\ panel' = at
  /\ IF at.active # NoCommand /\ panel.active = NoCommand
     THEN Begin(Panel, at.active.command) ELSE UNCHANGED transaction
  /\ UNCHANGED <<preset, server, instance, workers, faults>>

Set(timer, at) == [at EXCEPT !.timers = @ \union {timer}]

Busy == \E q \in {panel.active} \union Range(panel.queued) : q # NoCommand /\ ~q.poll

-----------------------------------------------------------------------------
(* The user.                                                               *)

\* An edit is asked for while another is under way that does not set the same gain.
Overlaps(q) ==
  /\ Mutates(q.command)
  /\ \E u \in {panel.active} \union Range(panel.queued) :
       u # NoCommand /\ Mutates(u.command) /\ ~SameGain(u.command, q.command)

UserDoes(q) ==
  /\ edits < MaxEdits
  /\ edits' = edits + 1
  /\ Becomes(Enqueue(panel, q))
  /\ lost' = (lost \/ Overlaps(q))

View == panel.view

\* The history entry is the preview of the command on the preset in view, if there is one.
Recorded(command) ==
  IF View = NoPreset \/ ApplyCommand(View, command) = Refused THEN Queued(command)
  ELSE [Queued(command) EXCEPT !.action = "Record",
          !.entry = [before |-> View, after |-> ApplyCommand(View, command)]]

HasRoute(r) == View # NoPreset /\ View[r] # Absent

\* The matrix has the crosspoints of the preset in view (Main.qml: selectRoute(),
\* toggleRoute()), and none before there is one.
SetRoute(r, enabled) ==
  /\ ~Busy /\ View # NoPreset
  /\ \/ HasRoute(r) /\ View[r].muted = enabled
        /\ UserDoes(Recorded([type |-> "SetMute", route |-> r, mute |-> ~enabled]))
     \/ ~HasRoute(r) /\ enabled
        /\ UserDoes(Recorded([type |-> "ConnectRoute", route |-> r]))

RemoveRoute(r) ==
  /\ ~Busy /\ HasRoute(r)
  /\ UserDoes(Recorded([type |-> "DisconnectRoute", route |-> r]))

\* Not refused while busy: a gain may move while another edit is under way, and its
\* history entry is then the preview on a preset that this edit has yet to change.
SetRouteGain(r, g) ==
  HasRoute(r) /\ UserDoes(Recorded([type |-> "SetGain", route |-> r, gain |-> g]))

LoadPreset ==
  /\ ~Busy /\ panel.store # NoPreset
  /\ UserDoes([Queued([type |-> "LoadPreset", preset |-> panel.store]) EXCEPT !.action = "Reset"])

\* The engine's preset, not the one in view, is what the store gets.
SavePreset == ~Busy /\ UserDoes(Queued([type |-> "SavePreset"]))

HistoryLoad(entry, p, action) ==
  UserDoes([Queued([type |-> "LoadPreset", preset |-> p]) EXCEPT
              !.action = action, !.entry = entry])

Undo == /\ ~Busy /\ panel.undo # <<>>
        /\ HistoryLoad(Last(panel.undo), Last(panel.undo).before, "Undo")
Redo == /\ ~Busy /\ panel.redo # <<>>
        /\ HistoryLoad(Last(panel.redo), Last(panel.redo).after, "Redo")

ConfigureVirtualAsioDevices ==
  UserDoes(Queued([type |-> "ConfigureVirtualAsioDevices"]))

\* startRuntime(), stopRuntime() and the three configurations: to the panel all
\* are one command that is not an edit and may be sent while others are under way.
ConfigureRuntime == UserDoes(Queued([type |-> "ConfigureAudioRuntime"]))

-----------------------------------------------------------------------------
(* applyReply(), with the commands and timers it starts.                   *)

PushBounded(history, entry) ==
  Append(IF Len(history) = HistoryLimit THEN Tail(history) ELSE history, entry)

CommitHistory(at, q) ==
  CASE q.action = "Record" ->
         [at EXCEPT !.undo = PushBounded(@, q.entry), !.redo = <<>>,
                    !.view = q.entry.after, !.last = "Record"]
    [] q.action = "Undo" /\ at.undo # <<>> ->
         [at EXCEPT !.undo = Front(@), !.redo = PushBounded(@, Last(at.undo)),
                    !.view = q.entry.before, !.last = "Undo"]
    [] q.action = "Redo" /\ at.redo # <<>> ->
         [at EXCEPT !.redo = Front(@), !.undo = PushBounded(@, Last(at.redo)),
                    !.view = q.entry.after, !.last = "Redo"]
    [] q.action = "Reset" ->
         [at EXCEPT !.undo = <<>>, !.redo = <<>>, !.view = q.command.preset, !.last = "Reset"]
    [] OTHER -> at

\* ensureEngineService(): one attempt until the timer clears the flag.
EnsureEngineService(at) ==
  IF at.attempted THEN at
  ELSE Set("refresh", Set("reset", [at EXCEPT !.attempted = TRUE, !.launched = TRUE]))

\* Fault: the history is committed whatever the engine answered.
ReplyAppliedAnyway(at, q, t) ==
  IF t.result = "ok" /\ q.command.type = "QuerySessionState"
  THEN [at EXCEPT !.view = t.response.preset]
  ELSE Set("refresh", CommitHistory(at, q))

\* updateSession(): a response that has a preset shows it.
Seen(at, response) ==
  IF response.preset = NoPreset THEN at ELSE [at EXCEPT !.view = response.preset]

NeedsRefresh(command) == ~Queries(command)

\* What an accepted command does to the panel: history, view, store, refresh.
Accepted(at, q, response) ==
  LET seen == Seen(CommitHistory(at, q), response)
      stored == IF q.command.type = "SavePreset"
                THEN [seen EXCEPT !.store = response.preset] ELSE seen
  IN  IF NeedsRefresh(q.command) THEN Set("refresh", stored) ELSE stored

\* A reply, or that there was none.  Only pipe_read_timeout leaves open
\* whether the command was executed.
Applied(at, q, t) ==
  LET ok        == t.result = "ok"
      uncertain == t.result = "read_timeout"
      accepted  == ok /\ t.response.status = "Accepted"
      restarts  == at.armed /\ ~uncertain /\ ~ok
      disarmed  == IF q.command.type = "ConfigureVirtualAsioDevices"
                   THEN [at EXCEPT !.armed = FALSE] ELSE at
  IN  CASE restarts -> Set("restart", [at EXCEPT !.armed = FALSE, !.attempted = TRUE])
        [] ~restarts /\ uncertain -> Set("refresh", disarmed)
        [] ~restarts /\ ~uncertain /\ ~ok -> EnsureEngineService(disarmed)
        [] ok /\ ~accepted -> disarmed
        [] accepted -> Accepted(at, q, t.response)

\* watcher_.finished: the reply is applied, then the next command is sent.
TransactionFinished ==
  /\ panel.active # NoCommand
  /\ transaction[Panel].phase = "done"
  /\ LET t  == transaction[Panel]
         q  == panel.active
         at == StartNext(Applied([panel EXCEPT !.active = NoCommand], q, t))
     IN  /\ panel' = at
         /\ transaction' = [transaction EXCEPT ![Panel] =
              IF at.active = NoCommand THEN NoTransaction
              ELSE [NoTransaction EXCEPT !.phase = "connecting", !.request = at.active.command]]
         /\ lost' = IF q.action = "Reset" /\ t.result = "ok" /\ t.response.status = "Accepted"
                    THEN preset # q.command.preset
                         \/ \E u \in Range(panel.queued) : Mutates(u.command)
                    ELSE lost \/ (Mutates(q.command) /\ t.result # "ok")
  /\ UNCHANGED <<server, instance, workers, faults, preset, edits>>

-----------------------------------------------------------------------------
(* Timers.                                                                 *)

Fires(timer) == timer \in panel.timers
Fired(timer) == [panel EXCEPT !.timers = @ \ {timer}]

Refresh ==
  /\ Fires("refresh")
  /\ Becomes(Enqueue(Fired("refresh"), Queued([type |-> "QuerySessionState"])))
  /\ UNCHANGED <<lost, edits>>

\* Fault: the attempt is never forgotten.
ResetAttemptNever ==
  /\ Fires("reset")
  /\ Becomes(Fired("reset"))
  /\ UNCHANGED <<lost, edits>>

ResetAttempt ==
  /\ Fires("reset")
  /\ Becomes([Fired("reset") EXCEPT !.attempted = FALSE])
  /\ UNCHANGED <<lost, edits>>

\* 500 ms after the pipe failed under an armed restart.
PlannedRestart ==
  /\ Fires("restart")
  /\ Becomes(EnsureEngineService([Fired("restart") EXCEPT !.attempted = FALSE]))
  /\ UNCHANGED <<lost, edits>>

\* schedulePoll(): nothing while commands are under way.  The polls that do
\* not ask for the preset change nothing here and are left out.
SchedulePoll ==
  /\ panel.active = NoCommand /\ panel.queued = <<>>
  /\ Becomes(Enqueue(panel, Poll))
  /\ UNCHANGED <<lost, edits>>

-----------------------------------------------------------------------------
\* Another client's command (sar_control_cli): its transaction and its worker
\* are as the panel's, and are one step here.
Foreign ==
  /\ Fault
  /\ server = "serving"
  /\ \E r \in Routes :
       LET next == ApplyCommand(preset, [type |-> "ConnectRoute", route |-> r])
       IN  next # Refused /\ preset' = next
  /\ lost' = TRUE
  /\ UNCHANGED <<server, instance, workers, transaction, panel, edits>>

Init ==
  /\ PipeInit
  /\ preset = EmptyPreset /\ panel = StartedPanel
  /\ lost = FALSE /\ edits = 0

User ==
  \/ \E r \in Routes, on \in BOOLEAN : SetRoute(r, on)
  \/ \E r \in Routes : RemoveRoute(r)
  \/ \E r \in Routes, g \in Gains : SetRouteGain(r, g)
  \/ SavePreset \/ LoadPreset
  \/ Undo \/ Redo \/ ConfigureVirtualAsioDevices \/ ConfigureRuntime

EventLoop == TransactionFinished \/ Refresh \/ ResetAttempt \/ PlannedRestart \/ SchedulePoll

PipeOnly == UNCHANGED <<preset, panel, lost, edits>>

ServerThread     == ServerSteps /\ PipeOnly
Worker(w)        == (WorkerSteps(w) /\ PipeOnly) \/ Handle(w)
PanelTransaction == ClientSteps(Panel) /\ PipeOnly

\* Deadlines that pass while the other end is at work.
Late == ((\E w \in Entries : Expire(w)) \/ GiveUp(Panel)) /\ PipeOnly

Next ==
  \/ User \/ EventLoop
  \/ ServerThread \/ PanelTransaction \/ Late
  \/ \E w \in Entries : Worker(w)
  \/ EngineStarts \/ EngineDies \/ Foreign

\* The threads of the server and of the panel's transaction run, a started
\* process starts, timers fire and the panel polls.
Fairness ==
  /\ WF_vars(ServerThread) /\ \A w \in Entries : WF_vars(Worker(w))
  /\ WF_vars(PanelTransaction) /\ WF_vars(EngineStarts)
  /\ WF_vars(TransactionFinished) /\ WF_vars(Refresh) /\ WF_vars(SchedulePoll)
  /\ WF_vars(ResetAttempt) /\ WF_vars(PlannedRestart)

Spec == Init /\ [][Next]_vars
LiveSpec == Spec /\ Fairness

-----------------------------------------------------------------------------
Panels ==
  [active : QueuedCommands \union {NoCommand}, queued : Seq(QueuedCommands),
   view : Presets \union {NoPreset}, undo : Seq(HistoryEntries), redo : Seq(HistoryEntries),
   armed : BOOLEAN, attempted : BOOLEAN, launched : BOOLEAN, timers : SUBSET Timers,
   store : Presets \union {NoPreset}, last : {"Record", "Undo", "Redo", "Reset"}]

TypeOK ==
  /\ PipeTypeOK(Commands, Responses)
  /\ preset \in Presets /\ panel \in Panels
  /\ Len(panel.undo) <= HistoryLimit /\ Len(panel.redo) <= HistoryLimit
  /\ lost \in BOOLEAN /\ edits \in 0 .. MaxEdits

\* The handler refers to the hosts, the service and the session of main(): no
\* worker is left when the server has stopped (windows_named_pipe_control.cpp
\* stop(), run()).
HandlersEndWithServer == server = "down" => \A w \in Entries : ~Serving(w)

\* docs/roadmap.md: a rejected command leaves the history unchanged.  With the
\* panel at rest, the last edit recorded led to the engine's preset, and an undo
\* went back to where the entry it leaves for redo began: unless an answer was
\* lost, something else changed the preset, or a gain moved while another edit
\* was under way, and no preset has been loaded since.
HistoryIsEngines ==
  (panel.active = NoCommand /\ ~lost) =>
    /\ panel.last \in {"Record", "Redo"} /\ panel.undo # <<>> => Last(panel.undo).after = preset
    /\ panel.last = "Undo" /\ panel.redo # <<>> => Last(panel.redo).before = preset

\* The view becomes the engine's preset and stays so once the edits end,
\* whatever replies were lost and whoever made the edits.
ViewConverges == <>[](View = preset)

\* The engine answers again after a crash, a planned restart, or a start that
\* met the old process still holding the lock.
EngineComesBack == []<>(server = "serving")
=============================================================================
