------------------------- MODULE ControlPanelProofs -------------------------
(***************************************************************************)
(* Proofs about the control panel and the control pipe, for any routes,    *)
(* gains, workers, faults and length of the history.                       *)
(*                                                                         *)
(* What the panel knows of the engine's preset it has from answers, and an *)
(* answer may be lost at every step of the pipe.  PanelInv therefore       *)
(* follows one edit from the panel's queue to the engine and back: the     *)
(* connection the panel has carries the active command (CallInv), behind   *)
(* an edit only gains wait (InOrder) and, until one of them overlaps, only *)
(* the gain the edit sets (OneEdit), an answer says what the engine's      *)
(* preset is (AnswersAreTrue), and the panel's history leads to the        *)
(* engine's preset or, once the engine has executed the edit, will when    *)
(* the panel gets its answer (HistoryFollows).                             *)
(***************************************************************************)
EXTENDS ControlPanel, SequenceTheorems, TLAPS

-----------------------------------------------------------------------------
(* The inductive invariant. *)

Call == transaction[Panel]

Open(w) == Serving(w) /\ workers[w].open

Holds == instance \notin {NoInstance, Listening}

\* The panel has one connection at a time, and one only while its call is under way.
OneConnection ==
  /\ Holds => instance.client = Panel /\ instance.phase = "reading"
  /\ \A w \in Entries : Serving(w) => workers[w].client = Panel
  /\ \A u, w \in Entries : Open(u) /\ Open(w) => u = w
  /\ \A w \in Entries : Open(w) => ~Holds
  /\ (Holds /\ instance.open) \/ (\E w \in Entries : Open(w)) => Call.phase \in {"writing", "waiting"}

\* What the panel waits for is what it has asked.
Carries(k) ==
  /\ Call.phase = "writing" => k.phase = "reading" /\ k.request = NoRequest
  /\ Call.phase = "waiting" /\ k.phase \in {"reading", "handling"} => k.request = panel.active.command

CallIsActive ==
  /\ panel.active = NoCommand <=> Call.phase = "idle"
  /\ Call.phase \in {"connecting", "writing"} => Call.request = panel.active.command
  /\ Holds /\ instance.open => Carries(instance)
  /\ \A w \in Entries : Open(w) => Carries(workers[w])

Edit(q) == Mutates(q.command)

\* An edit is recorded, or leads to where the history's last entry says.
WellFormed(at, q) ==
  /\ q.action # "None" <=> Edit(q)
  /\ Edit(q) => ~q.poll
  /\ q.action = "Record" => q.command.type # "LoadPreset"
  /\ q.action \in {"Undo", "Redo", "Reset"} => q.command.type = "LoadPreset"
  /\ q.action = "Undo" =>
       at.undo # <<>> /\ q.entry = Last(at.undo) /\ q.command.preset = q.entry.before
  /\ q.action = "Redo" =>
       at.redo # <<>> /\ q.entry = Last(at.redo) /\ q.command.preset = q.entry.after

\* Only gains are edited while an edit is under way, and of each route the last gain waits.
InOrder(at) ==
  /\ \A i \in DOMAIN at.queued : WellFormed(at, at.queued[i])
  /\ at.active # NoCommand => WellFormed(at, at.active)
  /\ \A i, j \in DOMAIN at.queued :
       i < j /\ Edit(at.queued[i]) /\ Edit(at.queued[j]) => at.queued[j].command.type = "SetGain"
  /\ \A i \in DOMAIN at.queued :
       at.active # NoCommand /\ Edit(at.active) /\ Edit(at.queued[i])
         => at.queued[i].command.type = "SetGain"
  /\ \A i, j \in DOMAIN at.queued : SameGain(at.queued[i].command, at.queued[j].command) => i = j

\* One edit is under way, but for the gain of one route.
OneEdit(at) ==
  /\ \A i, j \in DOMAIN at.queued : Edit(at.queued[i]) /\ Edit(at.queued[j]) => i = j
  /\ \A i \in DOMAIN at.queued :
       at.active # NoCommand /\ Edit(at.active) /\ Edit(at.queued[i])
         => SameGain(at.active.command, at.queued[i].command)

EditIsActive == panel.active # NoCommand /\ Edit(panel.active)

\* The answers on their way to the panel.
Answers ==
  {a \in Responses :
     \/ \E w \in Entries : Open(w) /\ workers[w].phase = "writing" /\ workers[w].response = a
     \/ Call.phase = "done" /\ Call.result = "ok" /\ Call.response = a}

\* The engine has executed the edit and says so.
Executed == EditIsActive /\ \E a \in Answers : a.status = "Accepted"

\* The call has failed, and the panel will find that it cannot tell whether it was executed.
Failed  == Call.phase = "done" /\ Call.result # "ok"
Unknown == EditIsActive /\ Failed

AnswersAreTrue ==
  /\ EditIsActive => \A a \in Answers : a.preset = NoPreset
  /\ ~lost => \A a \in Answers : a.preset \in {NoPreset, preset}

\* The entry of an edit ends where the engine's preset will.
Foresees(q) == q.action = "Record" => q.entry.after = ApplyCommand(preset, q.command)

\* The presets differ in the gain of a route only.
ButGain(p, o, r) ==
  /\ {p[r], o[r]} \subseteq RoutesWith /\ p[r].muted = o[r].muted
  /\ \A x \in Routes \ {r} : p[x] = o[x]

HasEffect(q) ==
  /\ q.action = "Record" => q.entry.after = preset
  /\ q.action = "Record" /\ q.command.type = "SetGain"
       => View = NoPreset \/ ButGain(View, preset, q.command.route)
  /\ q.action = "Undo" => q.entry.before = preset
  /\ q.action = "Redo" => q.entry.after = preset

\* The last edit of the history led to where the engine is.
Leads(at) ==
  /\ at.last \in {"Record", "Redo"} /\ at.undo # <<>> => Last(at.undo).after = preset
  /\ at.last = "Undo" /\ at.redo # <<>> => Last(at.redo).before = preset

HistoryFollows ==
  ~lost /\ ~Unknown =>
    /\ \A i \in DOMAIN panel.queued : Foresees(panel.queued[i])
    /\ IF Executed THEN HasEffect(panel.active)
       ELSE /\ View \in {NoPreset, preset}
            /\ panel.active # NoCommand => Foresees(panel.active)
            /\ Leads(panel)

Answered(t) == t \in TransactionsOf(Commands, Responses) /\ (t.result = "ok" => t.response # NoRequest)

Asks(t) == t.phase \in {"connecting", "writing"} => t.request # NoRequest

Serves(k) == /\ k.phase = "handling" => k.request # NoRequest
             /\ k.phase = "writing" => k.response # NoRequest

Typed ==
  /\ TypeOK
  /\ \A c \in Clients : Answered(transaction[c]) /\ Asks(transaction[c])
  /\ \A w \in Entries : Serving(w) => Serves(workers[w])
  /\ Holds => instance.phase = "reading"
  /\ panel.active = NoCommand => panel.queued = <<>>

CallInv  == OneConnection /\ CallIsActive
EditsInv == InOrder(panel) /\ (~lost => OneEdit(panel))
PanelInv == Typed /\ CallInv /\ EditsInv /\ AnswersAreTrue /\ HistoryFollows

-----------------------------------------------------------------------------
(* The queue. *)

SameHistory(at, e) == e.view = at.view /\ e.undo = at.undo /\ e.redo = at.redo /\ e.last = at.last

LEMMA NextIsFirstQueued ==
  ASSUME NEW at \in Panels
  PROVE  LET e == StartNext(at) IN
         /\ e \in Panels /\ SameHistory(at, e)
         /\ at.active # NoCommand \/ at.queued = <<>> => e = at
         /\ at.active = NoCommand /\ at.queued # <<>> =>
              e.active = Head(at.queued) /\ e.queued = Tail(at.queued)
<1>1. CASE at.active # NoCommand \/ at.queued = <<>>
  BY <1>1 DEF StartNext, SameHistory
<1>2. CASE at.active = NoCommand /\ at.queued # <<>>
  <2> DEFINE arms == at.armed \/ Head(at.queued).command.type = "ConfigureVirtualAsioDevices"
             e == [at EXCEPT !.active = Head(at.queued), !.queued = Tail(at.queued), !.armed = arms]
  <2>1. StartNext(at) = e
    BY <1>2 DEF StartNext
  <2>2. at.queued \in Seq(QueuedCommands)
    BY DEF Panels
  <2>3. Head(at.queued) \in QueuedCommands /\ Tail(at.queued) \in Seq(QueuedCommands)
    BY <1>2, <2>2, HeadTailProperties
  <2>4. arms \in BOOLEAN
    BY DEF Panels
  <2> HIDE DEF arms
  <2>5. e \in Panels /\ SameHistory(at, e)
    BY <2>3, <2>4 DEF Panels, SameHistory
  <2>6. e.active = Head(at.queued) /\ e.queued = Tail(at.queued)
    BY DEF Panels
  <2> QED BY <1>2, <2>1, <2>5, <2>6
<1> QED BY <1>1, <1>2

\* A gain takes the place of the one queued for its route; what else is queued comes last.
LEMMA GainReplaced ==
  ASSUME NEW old \in QueuedCommands, NEW q \in QueuedCommands, q.command.type = "SetGain"
  PROVE  /\ WithGain(old, q) \in QueuedCommands
         /\ WithGain(old, q).poll = old.poll /\ WithGain(old, q).action = old.action
         /\ SameGain(old.command, q.command) => WithGain(old, q).command = q.command
         /\ old.entry # NoEntry /\ q.entry # NoEntry =>
              WithGain(old, q).entry = [old.entry EXCEPT !.after = q.entry.after]
<1> DEFINE command == [old.command EXCEPT !.gain = q.command.gain]
           entry == IF old.entry = NoEntry \/ q.entry = NoEntry THEN old.entry
                    ELSE [old.entry EXCEPT !.after = q.entry.after]
<1>1. q.command \in [type : {"SetGain"}, route : Routes, gain : Gains]
  <2>1. q.command \in Commands
    BY DEF QueuedCommands
  <2> QED BY <2>1 DEF Commands
<1>2. old.command \in Commands
  BY DEF QueuedCommands
<1>3. command \in Commands
  BY <1>1, <1>2 DEF Commands
<1>4. SameGain(old.command, q.command) => command = q.command
  <2>1. SameGain(old.command, q.command) =>
          old.command \in [type : {"SetGain"}, route : Routes, gain : Gains]
    BY <1>2 DEF Commands, SameGain
  <2> QED BY <1>1, <2>1 DEF SameGain
<1>5. entry \in HistoryEntries \union {NoEntry}
  <2>1. {old.entry, q.entry} \subseteq HistoryEntries \union {NoEntry}
    BY DEF QueuedCommands
  <2> QED BY <2>1 DEF HistoryEntries
<1>6. entry # NoEntry <=> old.entry # NoEntry
  BY PanelMarksAreNone DEF QueuedCommands, HistoryEntries
<1>7. command.type = old.command.type
  BY <1>2 DEF Commands
<1> HIDE DEF command, entry
<1>8. [old EXCEPT !.command = command, !.entry = entry] \in QueuedCommands
  BY <1>3, <1>5, <1>6, <1>7 DEF QueuedCommands
<1>9. WithGain(old, q) = [old EXCEPT !.command = command, !.entry = entry]
  BY DEF WithGain, command, entry, QueuedCommands
<1>10. WithGain(old, q).command = command /\ WithGain(old, q).entry = entry
      /\ WithGain(old, q).poll = old.poll /\ WithGain(old, q).action = old.action
  BY <1>9 DEF QueuedCommands
<1> QED
  BY <1>4, <1>9, <1>10, <1>8 DEF entry

GainsQueued(at, q) == {i \in DOMAIN at.queued : SameGain(at.queued[i].command, q.command)}

Joins(at, q, e) ==
  \/ /\ at.active = NoCommand
     /\ e.active = q /\ e.queued = <<>>
  \/ /\ at.active # NoCommand /\ GainsQueued(at, q) = {}
     /\ e.active = at.active /\ e.queued = Append(at.queued, q)
  \/ /\ at.active # NoCommand /\ GainsQueued(at, q) # {}
     /\ e.active = at.active
     /\ \E i : /\ e.queued = [at.queued EXCEPT ![i] = WithGain(at.queued[i], q)]
               /\ (\E j : GainsQueued(at, q) = {j}) => i \in GainsQueued(at, q)

LEMMA CommandJoinsQueue ==
  ASSUME NEW at \in Panels, NEW q \in QueuedCommands,
         at.active = NoCommand => at.queued = <<>>
  PROVE  Enqueue(at, q) \in Panels /\ SameHistory(at, Enqueue(at, q)) /\ Joins(at, q, Enqueue(at, q))
<1>1. at.queued \in Seq(QueuedCommands) /\ DOMAIN at.queued = 1 .. Len(at.queued)
  BY DEF Panels
<1>2. CASE GainsQueued(at, q) = {}
  <2> DEFINE line == Append(at.queued, q)
             longer == [at EXCEPT !.queued = line]
  <2>1. Enqueue(at, q) = StartNext(longer)
    BY <1>2 DEF Enqueue, GainsQueued
  <2>2. line \in Seq(QueuedCommands) /\ line # <<>>
    BY <1>1, AppendProperties
  <2>3. at.queued = <<>> => Head(line) = q /\ Tail(line) = <<>>
    BY <1>1, HeadTailAppend
  <2> HIDE DEF line
  <2>4. longer \in Panels /\ SameHistory(at, longer) /\ longer.active = at.active /\ longer.queued = line
    BY <2>2 DEF Panels, SameHistory
  <2> HIDE DEF longer
  <2>5. StartNext(longer) \in Panels /\ SameHistory(at, StartNext(longer))
    BY <2>4, NextIsFirstQueued DEF SameHistory
  <2>6. CASE at.active = NoCommand
    BY <2>1, <2>2, <2>3, <2>4, <2>5, <2>6, NextIsFirstQueued DEF Joins
  <2>7. CASE at.active # NoCommand
    BY <1>2, <2>1, <2>4, <2>5, <2>7, NextIsFirstQueued DEF Joins, line
  <2> QED BY <2>6, <2>7
<1>3. CASE GainsQueued(at, q) # {}
  <2> DEFINE same == GainsQueued(at, q)
             i == CHOOSE j \in same : \A k \in same : k <= j
             changed == [at.queued EXCEPT ![i] = WithGain(at.queued[i], q)]
             e == [at EXCEPT !.queued = changed]
  <2>1. Enqueue(at, q) = e
    BY <1>3 DEF Enqueue, GainsQueued, WithGain
  <2>2. (\E j : same = {j}) => i \in same
    <3>1. ASSUME NEW j, same = {j}
          PROVE  i \in same
      <4>1. j \in Nat
        BY <1>1, <3>1 DEF GainsQueued
      <4>2. \A k \in same : k <= j
        BY <3>1, <4>1
      <4> QED BY <3>1, <4>2
    <3> QED BY <3>1
  <2>3. q.command.type = "SetGain"
    BY <1>3 DEF GainsQueued, SameGain
  <2> HIDE DEF i
  <2>4. changed \in Seq(QueuedCommands)
    <3>1. CASE i \in DOMAIN at.queued
      <4>1. at.queued[i] \in QueuedCommands
        BY <1>1, <3>1, ElementOfSeq
      <4>2. WithGain(at.queued[i], q) \in QueuedCommands
        BY <2>3, <4>1, GainReplaced
      <4> QED BY <1>1, <3>1, <4>2, ExceptSeq
    <3>2. CASE i \notin DOMAIN at.queued
      <4>1. changed = at.queued
        BY <1>1, <3>2
      <4> QED BY <1>1, <4>1
    <3> QED BY <3>1, <3>2
  <2>5. at.active # NoCommand
    BY <1>1, <1>3 DEF GainsQueued
  <2> HIDE DEF changed, same
  <2>6. e \in Panels /\ SameHistory(at, e) /\ e.active = at.active /\ e.queued = changed
    BY <2>4 DEF Panels, SameHistory
  <2> HIDE DEF e
  <2>7. Joins(at, q, e)
    BY <1>3, <2>2, <2>5, <2>6 DEF Joins, changed, same
  <2> QED BY <2>1, <2>6, <2>7
<1> QED BY <1>2, <1>3

-----------------------------------------------------------------------------
(* The history. *)

Bounded(at) == at \in Panels /\ Len(at.undo) <= HistoryLimit /\ Len(at.redo) <= HistoryLimit

LEMMA LastAndFront ==
  ASSUME NEW h \in Seq(HistoryEntries), h # <<>>
  PROVE  /\ Last(h) \in HistoryEntries
         /\ Front(h) \in Seq(HistoryEntries) /\ Len(Front(h)) = Len(h) - 1
<1>1. Len(h) \in Nat \ {0}
  BY EmptySeq
<1>2. \A i \in 1 .. Len(h) - 1 : h[i] \in HistoryEntries
  BY <1>1, ElementOfSeq
<1>3. Len(h) - 1 \in Nat
  BY <1>1
<1>4. Front(h) = SubSeq(h, 1, Len(h) - 1)
  BY DEF Front
<1>5. /\ SubSeq(h, 1, Len(h) - 1) \in Seq(HistoryEntries)
      /\ Len(SubSeq(h, 1, Len(h) - 1)) = Len(h) - 1
  <2> DEFINE n == Len(h) - 1
  <2>1. n \in Nat /\ \A i \in 1 .. n : h[i] \in HistoryEntries
    BY <1>2, <1>3
  <2> HIDE DEF n
  <2>2. /\ SubSeq(h, 1, n) \in Seq(HistoryEntries)
        /\ Len(SubSeq(h, 1, n)) = IF 1 <= n THEN n - 1 + 1 ELSE 0
    BY <2>1, SubSeqProperties
  <2>3. Len(SubSeq(h, 1, n)) = n
    BY <2>1, <2>2
  <2> QED BY <2>2, <2>3 DEF n
<1>6. Len(h) \in 1 .. Len(h) /\ Last(h) = h[Len(h)]
  BY <1>1 DEF Last
<1>7. Last(h) \in HistoryEntries
  BY <1>6, ElementOfSeq
<1> QED
  BY <1>1, <1>3, <1>4, <1>5, <1>7

LEMMA HistoryIsBounded ==
  ASSUME NEW h \in Seq(HistoryEntries), Len(h) <= HistoryLimit, NEW entry \in HistoryEntries
  PROVE  /\ PushBounded(h, entry) \in Seq(HistoryEntries)
         /\ Len(PushBounded(h, entry)) <= HistoryLimit
         /\ PushBounded(h, entry) # <<>> /\ Last(PushBounded(h, entry)) = entry
<1> DEFINE kept == IF Len(h) = HistoryLimit THEN Tail(h) ELSE h
           pushed == Append(kept, entry)
<1>1. HistoryLimit \in Nat \ {0} /\ Len(h) \in Nat
  BY ControlPanelAssumption, LenProperties
<1>2. kept \in Seq(HistoryEntries) /\ Len(kept) \in Nat /\ Len(kept) + 1 <= HistoryLimit
  <2>1. CASE Len(h) = HistoryLimit
    <3>1. h # <<>>
      BY <1>1, <2>1
    <3> QED BY <1>1, <2>1, <3>1, HeadTailProperties
  <2>2. CASE Len(h) # HistoryLimit
    BY <1>1, <2>2
  <2> QED BY <2>1, <2>2
<1> HIDE DEF kept
<1>3. pushed \in Seq(HistoryEntries) /\ pushed # <<>> /\ Len(pushed) = Len(kept) + 1
      /\ pushed[Len(kept) + 1] = entry
  BY <1>2, AppendProperties
<1>4. PushBounded(h, entry) = pushed
  BY DEF PushBounded, kept
<1> HIDE DEF pushed
<1> QED
  BY <1>2, <1>3, <1>4 DEF Last

\* What a history becomes when a command is committed.
LEMMA CommitKeepsTypes ==
  ASSUME NEW at, Bounded(at), NEW q \in QueuedCommands
  PROVE  LET e == CommitHistory(at, q) IN
         /\ Bounded(e) /\ e.active = at.active /\ e.queued = at.queued
         /\ q.action = "None" => e = at
         /\ q.action = "Record" => /\ e.view = q.entry.after /\ e.last = "Record"
                                   /\ Last(e.undo) = q.entry
         /\ q.action = "Undo" /\ at.undo # <<>> => /\ e.view = q.entry.before /\ e.last = "Undo"
                                                   /\ Last(e.redo) = Last(at.undo)
         /\ q.action = "Redo" /\ at.redo # <<>> => /\ e.view = q.entry.after /\ e.last = "Redo"
                                                   /\ Last(e.undo) = Last(at.redo)
         /\ q.action = "Reset" => /\ e.view = q.command.preset /\ e.last = "Reset"
                                  /\ e.undo = <<>> /\ e.redo = <<>>
<1> DEFINE e == CommitHistory(at, q)
<1> SUFFICES /\ Bounded(e) /\ e.active = at.active /\ e.queued = at.queued
             /\ q.action = "None" => e = at
             /\ q.action = "Record" => /\ e.view = q.entry.after /\ e.last = "Record"
                                       /\ Last(e.undo) = q.entry
             /\ q.action = "Undo" /\ at.undo # <<>> => /\ e.view = q.entry.before /\ e.last = "Undo"
                                                       /\ Last(e.redo) = Last(at.undo)
             /\ q.action = "Redo" /\ at.redo # <<>> => /\ e.view = q.entry.after /\ e.last = "Redo"
                                                       /\ Last(e.undo) = Last(at.redo)
             /\ q.action = "Reset" => /\ e.view = q.command.preset /\ e.last = "Reset"
                                      /\ e.undo = <<>> /\ e.redo = <<>>
  OBVIOUS
<1>1. at.undo \in Seq(HistoryEntries) /\ at.redo \in Seq(HistoryEntries)
      /\ Len(at.undo) <= HistoryLimit /\ Len(at.redo) <= HistoryLimit /\ at \in Panels
  BY DEF Bounded, Panels
<1>2. HistoryLimit \in Nat \ {0} /\ Len(at.undo) \in Nat /\ Len(at.redo) \in Nat
  BY <1>1, ControlPanelAssumption, LenProperties
<1>3. CASE q.action = "Record"
  <2> DEFINE undo == PushBounded(at.undo, q.entry)
             f == [at EXCEPT !.undo = undo, !.redo = <<>>, !.view = q.entry.after, !.last = "Record"]
  <2>1. q.entry \in HistoryEntries /\ q.entry.after \in Presets
    BY <1>3 DEF QueuedCommands, HistoryEntries
  <2>2. undo \in Seq(HistoryEntries) /\ Len(undo) <= HistoryLimit /\ Last(undo) = q.entry
    BY <1>1, <2>1, HistoryIsBounded
  <2>3. e = f
    BY <1>3 DEF CommitHistory
  <2> HIDE DEF undo, e
  <2>4. f \in Panels /\ f.undo = undo /\ f.redo = <<>> /\ f.view = q.entry.after /\ f.last = "Record"
        /\ f.active = at.active /\ f.queued = at.queued
    BY <1>1, <2>1, <2>2, EmptySeq DEF Panels
  <2> HIDE DEF f
  <2> QED BY <1>2, <1>3, <2>2, <2>3, <2>4, EmptySeq DEF Bounded
<1>4. CASE q.action = "Undo" /\ at.undo # <<>>
  <2> DEFINE undo == Front(at.undo)
             redo == PushBounded(at.redo, Last(at.undo))
             f == [at EXCEPT !.undo = undo, !.redo = redo, !.view = q.entry.before, !.last = "Undo"]
  <2>1. q.entry.before \in Presets
    BY <1>4 DEF QueuedCommands, HistoryEntries
  <2>2. undo \in Seq(HistoryEntries) /\ Len(undo) <= HistoryLimit /\ Last(at.undo) \in HistoryEntries
    BY <1>1, <1>2, <1>4, LastAndFront
  <2>3. redo \in Seq(HistoryEntries) /\ Len(redo) <= HistoryLimit /\ Last(redo) = Last(at.undo)
    BY <1>1, <2>2, HistoryIsBounded
  <2>4. e = f
    BY <1>4 DEF CommitHistory
  <2> HIDE DEF undo, redo, e
  <2>5. f \in Panels /\ f.undo = undo /\ f.redo = redo /\ f.view = q.entry.before /\ f.last = "Undo"
        /\ f.active = at.active /\ f.queued = at.queued
    BY <1>1, <2>1, <2>2, <2>3 DEF Panels
  <2> HIDE DEF f
  <2> QED BY <1>4, <2>2, <2>3, <2>4, <2>5 DEF Bounded
<1>5. CASE q.action = "Redo" /\ at.redo # <<>>
  <2> DEFINE redo == Front(at.redo)
             undo == PushBounded(at.undo, Last(at.redo))
             f == [at EXCEPT !.redo = redo, !.undo = undo, !.view = q.entry.after, !.last = "Redo"]
  <2>1. q.entry.after \in Presets
    BY <1>5 DEF QueuedCommands, HistoryEntries
  <2>2. redo \in Seq(HistoryEntries) /\ Len(redo) <= HistoryLimit /\ Last(at.redo) \in HistoryEntries
    BY <1>1, <1>2, <1>5, LastAndFront
  <2>3. undo \in Seq(HistoryEntries) /\ Len(undo) <= HistoryLimit /\ Last(undo) = Last(at.redo)
    BY <1>1, <2>2, HistoryIsBounded
  <2>4. e = f
    BY <1>5 DEF CommitHistory
  <2> HIDE DEF undo, redo, e
  <2>5. f \in Panels /\ f.undo = undo /\ f.redo = redo /\ f.view = q.entry.after /\ f.last = "Redo"
        /\ f.active = at.active /\ f.queued = at.queued
    BY <1>1, <2>1, <2>2, <2>3 DEF Panels
  <2> HIDE DEF f
  <2> QED BY <1>5, <2>2, <2>3, <2>4, <2>5 DEF Bounded
<1>6. CASE q.action = "Reset"
  <2> DEFINE f == [at EXCEPT !.undo = <<>>, !.redo = <<>>, !.view = q.command.preset, !.last = "Reset"]
  <2>1. q.command.preset \in Presets
    BY <1>6 DEF QueuedCommands, Commands
  <2>2. e = f
    BY <1>6 DEF CommitHistory
  <2> HIDE DEF e
  <2>3. f \in Panels /\ f.undo = <<>> /\ f.redo = <<>> /\ f.view = q.command.preset /\ f.last = "Reset"
        /\ f.active = at.active /\ f.queued = at.queued
    BY <1>1, <2>1, EmptySeq DEF Panels
  <2> HIDE DEF f
  <2> QED BY <1>2, <1>6, <2>2, <2>3, EmptySeq DEF Bounded
<1>7. CASE \/ q.action = "None" \/ (q.action = "Undo" /\ at.undo = <<>>)
           \/ (q.action = "Redo" /\ at.redo = <<>>)
  <2>1. e = at
    BY <1>7 DEF CommitHistory
  <2> HIDE DEF e
  <2> QED BY <1>7, <2>1
<1>8. q.action \in {"None", "Record", "Undo", "Redo", "Reset"}
  BY DEF QueuedCommands
<1> QED
  BY <1>3, <1>4, <1>5, <1>6, <1>7, <1>8

-----------------------------------------------------------------------------
(* Replies. *)

IsAccepted(t) == t.result = "ok" /\ t.response.status = "Accepted"

\* Timers, flags and the store are all that changes.
Alike(at, e) == /\ Bounded(e) /\ e.active = at.active /\ e.queued = at.queued
                /\ SameHistory(at, e)

LEMMA TimerIsSet ==
  ASSUME NEW at, Bounded(at), NEW timer \in Timers
  PROVE  Alike(at, Set(timer, at))
<1>1. Set(timer, at) = [at EXCEPT !.timers = at.timers \union {timer}]
  BY DEF Set
<1>2. at.timers \union {timer} \in SUBSET Timers
  BY DEF Bounded, Panels
<1> QED
  BY <1>1, <1>2 DEF Alike, Bounded, Panels, SameHistory

LEMMA EngineIsEnsured ==
  ASSUME NEW at, Bounded(at)
  PROVE  Alike(at, EnsureEngineService(at))
<1> DEFINE e == [at EXCEPT !.attempted = TRUE, !.launched = TRUE]
<1>1. Alike(at, e)
  BY DEF Alike, Bounded, Panels, SameHistory
<1> HIDE DEF e
<1>2. Alike(at, Set("reset", e))
  BY <1>1, TimerIsSet DEF Alike, SameHistory, Timers
<1>3. Alike(at, Set("refresh", Set("reset", e)))
  BY <1>2, TimerIsSet DEF Alike, SameHistory, Timers
<1>4. Alike(at, at)
  BY DEF Alike, SameHistory
<1> QED
  BY <1>3, <1>4 DEF EnsureEngineService, e

LEMMA AnswerIsAccepted ==
  ASSUME NEW at, Bounded(at), NEW q \in QueuedCommands, NEW r \in Responses
  PROVE  LET e == Accepted(at, q, r)
             c == CommitHistory(at, q)
         IN  /\ Bounded(e) /\ e.active = at.active /\ e.queued = at.queued
             /\ e.undo = c.undo /\ e.redo = c.redo /\ e.last = c.last
             /\ e.view = IF r.preset = NoPreset THEN c.view ELSE r.preset
<1> DEFINE c == CommitHistory(at, q)
           seen == Seen(c, r)
           stored == IF q.command.type = "SavePreset" THEN [seen EXCEPT !.store = r.preset] ELSE seen
           e == Accepted(at, q, r)
<1>1. Bounded(c) /\ c.active = at.active /\ c.queued = at.queued
  BY CommitKeepsTypes
<1>2. e = IF NeedsRefresh(q.command) THEN Set("refresh", stored) ELSE stored
  BY DEF Accepted
<1> HIDE DEF c, e
<1>3. r.preset \in Presets \union {NoPreset}
  BY DEF Responses
<1> DEFINE Fits(f) == /\ Bounded(f) /\ f.active = at.active /\ f.queued = at.queued
                      /\ f.undo = c.undo /\ f.redo = c.redo /\ f.last = c.last
                      /\ f.view = IF r.preset = NoPreset THEN c.view ELSE r.preset
<1>4. Fits(seen)
  <2>1. CASE r.preset = NoPreset
    BY <1>1, <2>1 DEF Seen
  <2>2. CASE r.preset # NoPreset
    BY <1>1, <1>3, <2>2 DEF Seen, Bounded, Panels
  <2> QED BY <2>1, <2>2
<1> HIDE DEF seen
<1>5. Fits(stored)
  BY <1>3, <1>4 DEF Bounded, Panels
<1> HIDE DEF stored
<1>6. Fits(Set("refresh", stored))
  BY <1>5, TimerIsSet DEF Alike, SameHistory, Timers
<1>7. Fits(e)
  BY <1>2, <1>5, <1>6
<1> QED
  BY <1>7 DEF c, e

LEMMA ReplyIsApplied ==
  ASSUME NEW at, Bounded(at), NEW q \in QueuedCommands, NEW t, Answered(t)
  PROVE  LET e == Applied(at, q, t)
             c == CommitHistory(at, q)
         IN  /\ Bounded(e) /\ e.active = at.active /\ e.queued = at.queued
             /\ ~IsAccepted(t) => SameHistory(at, e)
             /\ IsAccepted(t) =>
                  /\ e.undo = c.undo /\ e.redo = c.redo /\ e.last = c.last
                  /\ e.view = IF t.response.preset = NoPreset THEN c.view ELSE t.response.preset
<1> DEFINE disarmed == IF q.command.type = "ConfigureVirtualAsioDevices"
                       THEN [at EXCEPT !.armed = FALSE] ELSE at
           later == [at EXCEPT !.armed = FALSE, !.attempted = TRUE]
           e == Applied(at, q, t)
<1>1. Alike(at, disarmed)
  BY DEF Alike, Bounded, Panels, SameHistory
<1>2. Alike(at, later)
  BY DEF Alike, Bounded, Panels, SameHistory
<1>3. CASE IsAccepted(t)
  <2>1. e = Accepted(at, q, t.response)
    BY <1>3 DEF Applied, IsAccepted
  <2>2. t.response \in Responses
    BY <1>3 DEF Answered, IsAccepted, TransactionsOf
  <2> HIDE DEF e
  <2> QED BY <1>3, <2>1, <2>2, AnswerIsAccepted DEF e
<1>4. CASE ~IsAccepted(t)
  <2>1. e \in {Set("restart", later), Set("refresh", disarmed), EnsureEngineService(disarmed), disarmed}
    BY <1>4 DEF Applied, IsAccepted
  <2> HIDE DEF disarmed, later, e
  <2>2. Alike(at, Set("restart", later)) /\ Alike(at, Set("refresh", disarmed))
    BY <1>1, <1>2, TimerIsSet DEF Alike, SameHistory, Timers
  <2>3. Alike(at, EnsureEngineService(disarmed))
    BY <1>1, EngineIsEnsured DEF Alike, SameHistory
  <2>4. Alike(at, e)
    BY <1>1, <2>1, <2>2, <2>3
  <2> QED BY <1>4, <2>4 DEF Alike, e
<1> QED BY <1>3, <1>4

-----------------------------------------------------------------------------
(* Types. *)

PipeTyped ==
  /\ PipeTypeOK(Commands, Responses)
  /\ \A c \in Clients : Answered(transaction[c]) /\ Asks(transaction[c])
  /\ \A w \in Entries : Serving(w) => Serves(workers[w])
  /\ Holds => instance.phase = "reading"

PanelTyped ==
  /\ preset \in Presets /\ Bounded(panel) /\ lost \in BOOLEAN /\ edits \in 0 .. MaxEdits
  /\ panel.active = NoCommand => panel.queued = <<>>

LEMMA TypedParts == Typed <=> PipeTyped /\ PanelTyped
BY DEF Typed, PipeTyped, PanelTyped, TypeOK, Bounded

LEMMA AppliedIsPreset ==
  ASSUME NEW p \in Presets, NEW c \in Commands
  PROVE  ApplyCommand(p, c) \in Presets \union {NoPreset}
<1>1. CASE c.type = "LoadPreset"
  BY <1>1 DEF ApplyCommand, Commands
<1>2. CASE c.type = "ConnectRoute"
  <2>1. c.route \in Routes
    BY <1>2 DEF Commands
  <2>2. [gain |-> UnityGain, muted |-> FALSE] \in RoutesWith
    BY ControlPanelAssumption DEF RoutesWith
  <2> QED BY <1>2, <2>1, <2>2 DEF ApplyCommand, Presets, Refused
<1>3. CASE c.type \in {"DisconnectRoute", "SetGain", "SetMute"}
  <2>1. c.route \in Routes
    BY <1>3 DEF Commands
  <2>2. CASE p[c.route] = Absent
    BY <1>3, <2>2 DEF ApplyCommand, Refused
  <2>3. CASE p[c.route] # Absent
    <3>1. p[c.route] \in RoutesWith
      BY <2>1, <2>3 DEF Presets
    <3>2. CASE c.type = "DisconnectRoute"
      BY <2>1, <2>3, <3>2 DEF ApplyCommand, Presets
    <3>3. CASE c.type = "SetGain"
      <4> DEFINE r == [p[c.route] EXCEPT !.gain = c.gain]
      <4>1. c.gain \in Gains
        BY <3>3 DEF Commands
      <4>2. r \in RoutesWith
        BY <3>1, <4>1 DEF RoutesWith
      <4>3. ApplyCommand(p, c) = [p EXCEPT ![c.route] = r]
        BY <2>3, <3>3 DEF ApplyCommand
      <4> HIDE DEF r
      <4> QED BY <2>1, <4>2, <4>3 DEF Presets
    <3>4. CASE c.type = "SetMute"
      <4> DEFINE r == [p[c.route] EXCEPT !.muted = c.mute]
      <4>1. c.mute \in BOOLEAN
        BY <3>4 DEF Commands
      <4>2. r \in RoutesWith
        BY <3>1, <4>1 DEF RoutesWith
      <4>3. ApplyCommand(p, c) = [p EXCEPT ![c.route] = r]
        BY <2>3, <3>4 DEF ApplyCommand
      <4> HIDE DEF r
      <4> QED BY <2>1, <4>2, <4>3 DEF Presets
    <3> QED BY <1>3, <3>2, <3>3, <3>4
  <2> QED BY <2>2, <2>3
<1>4. CASE c.type \notin {"LoadPreset", "ConnectRoute", "DisconnectRoute", "SetGain", "SetMute"}
  BY <1>4 DEF ApplyCommand
<1> QED BY <1>1, <1>2, <1>3, <1>4

LEMMA QueuedIsTyped ==
  ASSUME NEW c \in Commands
  PROVE  Queued(c) \in QueuedCommands /\ Queued(c).command = c /\ ~Queued(c).poll
         /\ Queued(c).action = "None" /\ Queued(c).entry = NoEntry
BY PanelMarksAreNone DEF Queued, QueuedCommands

LEMMA RecordedIsTyped ==
  ASSUME panel \in Panels, NEW c \in Commands
  PROVE  /\ Recorded(c) \in QueuedCommands /\ Recorded(c).command = c /\ ~Recorded(c).poll
         /\ \/ /\ View = NoPreset \/ ApplyCommand(View, c) = Refused
               /\ Recorded(c) = Queued(c)
            \/ /\ View # NoPreset /\ Recorded(c).action = "Record"
               /\ Recorded(c).entry = [before |-> View, after |-> ApplyCommand(View, c)]
<1>1. CASE View = NoPreset \/ ApplyCommand(View, c) = Refused
  BY <1>1, QueuedIsTyped DEF Recorded
<1>2. CASE ~(View = NoPreset \/ ApplyCommand(View, c) = Refused)
  <2> DEFINE q == Queued(c)
             entry == [before |-> View, after |-> ApplyCommand(View, c)]
             r == [q EXCEPT !.action = "Record", !.entry = entry]
  <2>1. Recorded(c) = r
    BY <1>2 DEF Recorded
  <2>2. View \in Presets
    BY <1>2 DEF View, Panels
  <2>3. entry \in HistoryEntries
    BY <1>2, <2>2, AppliedIsPreset DEF HistoryEntries, Refused
  <2>4. q \in QueuedCommands /\ q.command = c /\ ~q.poll
    BY QueuedIsTyped
  <2> HIDE DEF q, entry
  <2>5. r \in QueuedCommands /\ r.command = c /\ ~r.poll /\ r.action = "Record" /\ r.entry = entry
    BY <2>3, <2>4, PanelMarksAreNone DEF QueuedCommands
  <2> QED BY <1>2, <2>1, <2>5 DEF entry
<1> QED BY <1>1, <1>2

Conns == ConnectionsOf(Commands, Responses)
Trans == TransactionsOf(Commands, Responses)

LEMMA ConnectionsAreKnown ==
  ASSUME PipeTyped
  PROVE  /\ \A w \in Entries : Serving(w) <=> workers[w] \in Conns
         /\ Holds <=> instance \in Conns
BY PanelMarksAreNone DEF PipeTyped, PipeTypeOK, Serving, Holds, Conns

LEMMA ClosedIsTyped ==
  ASSUME PipeTyped, NEW connections
  PROVE  /\ ClosedFor(connections) \in [Clients -> Trans]
         /\ \A c \in Clients : /\ Answered(ClosedFor(connections)[c])
                               /\ Asks(ClosedFor(connections)[c])
<1> DEFINE failed == [NoTransaction EXCEPT !.phase = "done", !.result = "pipe_failed"]
<1>1. failed \in Trans /\ failed.result # "ok" /\ failed.phase = "done"
  BY DEF Trans, TransactionsOf, NoTransaction
<1>2. \A c \in Clients : ClosedFor(connections)[c] \in {failed, transaction[c]}
  BY DEF ClosedFor
<1>3. ClosedFor(connections) = [c \in Clients |-> ClosedFor(connections)[c]]
  BY DEF ClosedFor
<1> HIDE DEF failed
<1> QED
  BY <1>1, <1>2, <1>3 DEF PipeTyped, PipeTypeOK, Answered, Asks, Trans

\* A connection or a transaction that changes remains one.
LEMMA WorkerChanges ==
  ASSUME PipeTyped, NEW w \in Entries, NEW k \in Conns \union {Free, Ended},
         k \in Conns => Serves(k), workers' = [workers EXCEPT ![w] = k]
  PROVE  /\ workers' \in [Entries -> Conns \union {Free, Ended}]
         /\ \A v \in Entries : Serving(v)' => Serves(workers'[v])
<1>1. workers' \in [Entries -> Conns \union {Free, Ended}]
  BY DEF PipeTyped, PipeTypeOK, Conns
<1>2. ASSUME NEW v \in Entries, Serving(v)'
      PROVE  Serves(workers'[v])
  <2>1. CASE v = w
    <3>1. workers'[v] = k
      BY <2>1 DEF PipeTyped, PipeTypeOK
    <3> QED BY <1>1, <1>2, <3>1 DEF Serving
  <2>2. CASE v # w
    <3>1. workers'[v] = workers[v]
      BY <2>2 DEF PipeTyped, PipeTypeOK
    <3> QED BY <1>2, <3>1 DEF Serving, PipeTyped
  <2> QED BY <2>1, <2>2
<1> QED BY <1>1, <1>2

LEMMA TransactionChanges ==
  ASSUME PipeTyped, NEW c \in Clients, NEW t, Answered(t), Asks(t),
         transaction' = [transaction EXCEPT ![c] = t]
  PROVE  /\ transaction' \in [Clients -> Trans]
         /\ \A d \in Clients : Answered(transaction'[d]) /\ Asks(transaction'[d])
BY DEF PipeTyped, PipeTypeOK, Answered, Trans

LEMMA WorkerStepsKeepTypes ==
  ASSUME PipeTyped, NEW w \in Entries, WorkerSteps(w) \/ Expire(w)
  PROVE  PipeTyped'
<1>1. Serving(w) /\ workers[w] \in Conns
  BY ConnectionsAreKnown DEF WorkerSteps, ReadRequest, AbandonRead, WriteResponse, FailWrite,
                             Expire, AtPhase
<1>2. CASE ReadRequest(w)
  <2> DEFINE k == [workers[w] EXCEPT !.phase = "handling"]
  <2>1. k \in Conns /\ Serves(k)
    BY <1>1, <1>2 DEF ReadRequest, Serves, Conns, ConnectionsOf
  <2>2. workers' = [workers EXCEPT ![w] = k]
    BY <1>2 DEF ReadRequest
  <2> HIDE DEF k
  <2> QED BY <1>2, <2>1, <2>2, WorkerChanges DEF ReadRequest, PipeTyped, PipeTypeOK, Conns, Holds
<1>3. CASE Expire(w)
  <2> DEFINE k == [workers[w] EXCEPT !.expired = TRUE]
  <2>1. k \in Conns /\ Serves(k)
    BY <1>1 DEF Serves, Conns, ConnectionsOf, PipeTyped
  <2>2. workers' = [workers EXCEPT ![w] = k]
    BY <1>3 DEF Expire
  <2>3. faults' \in 0 .. MaxFaults
    BY <1>3, NamedPipeControlAssumption DEF Expire, Fault, PipeTyped, PipeTypeOK
  <2> HIDE DEF k
  <2> QED BY <1>3, <2>1, <2>2, <2>3, WorkerChanges DEF Expire, PipeTyped, PipeTypeOK, Conns, Holds
<1>4. ASSUME EndWorker(w)
      PROVE  PipeTyped'
  <2>1. Ended \notin Conns
    BY PanelMarksAreNone DEF Conns
  <2> QED
    BY <1>4, <2>1, WorkerChanges, ClosedIsTyped
       DEF EndWorker, PipeTyped, PipeTypeOK, Conns, Trans, Holds
<1>5. CASE WriteResponse(w)
  <2> DEFINE t == [NoTransaction EXCEPT !.phase = "done", !.result = "ok",
                                        !.response = workers[w].response]
             c == workers[w].client
  <2>1. workers[w].response \in Responses /\ c \in Clients
    BY <1>1, <1>5 DEF WriteResponse, AtPhase, PipeTyped, Serves, Conns, ConnectionsOf
  <2>2. Answered(t) /\ Asks(t)
    BY <2>1, PanelMarksAreNone DEF Answered, Asks, NoTransaction, TransactionsOf
  <2>3. transaction' = [transaction EXCEPT ![c] = t] /\ workers' = [workers EXCEPT ![w] = Ended]
    BY <1>5 DEF WriteResponse
  <2>4. Ended \notin Conns
    BY PanelMarksAreNone DEF Conns
  <2> HIDE DEF t, c
  <2> QED
    BY <1>5, <2>1, <2>2, <2>3, <2>4, WorkerChanges, TransactionChanges
       DEF WriteResponse, PipeTyped, PipeTypeOK, Conns, Trans, Holds
<1> QED
  BY <1>2, <1>3, <1>4, <1>5 DEF WorkerSteps, AbandonRead, FailWrite

LEMMA CallIsBegun ==
  ASSUME PipeTyped, NEW c \in Clients, NEW request \in Commands, Begin(c, request)
  PROVE  /\ transaction' \in [Clients -> Trans]
         /\ \A d \in Clients : Answered(transaction'[d]) /\ Asks(transaction'[d])
<1> DEFINE t == [NoTransaction EXCEPT !.phase = "connecting", !.request = request]
<1>1. Answered(t) /\ Asks(t)
  BY PanelMarksAreNone DEF Answered, Asks, NoTransaction, TransactionsOf
<1>2. transaction' = [transaction EXCEPT ![c] = t]
  BY DEF Begin
<1> HIDE DEF t
<1> QED BY <1>1, <1>2, TransactionChanges

LEMMA CallIsFinished ==
  ASSUME PipeTyped, NEW c \in Clients,
         NEW result \in {"connect_failed", "write_timeout", "read_timeout"}, Finish(c, result)
  PROVE  /\ transaction' \in [Clients -> Trans]
         /\ \A d \in Clients : Answered(transaction'[d]) /\ Asks(transaction'[d])
<1> DEFINE t == [transaction[c] EXCEPT !.phase = "done", !.result = result, !.request = NoRequest]
<1>1. transaction[c] \in TransactionsOf(Commands, Responses)
  BY DEF PipeTyped, Answered
<1>2. Answered(t) /\ Asks(t)
  BY <1>1 DEF Answered, Asks, TransactionsOf
<1>3. transaction' = [transaction EXCEPT ![c] = t]
  BY DEF Finish
<1> HIDE DEF t
<1> QED BY <1>2, <1>3, TransactionChanges

\* Whether the listener or a worker has a connection, it remains one when it is written to
\* or closed.
LEMMA ConnectionChanges ==
  ASSUME PipeTyped, NEW c \in Clients, NEW k1, NEW ks \in [Entries -> Conns],
         Holds => k1 \in Conns /\ k1.phase = "reading",
         \A w \in Entries : Serving(w) => Serves(ks[w]),
         IF InstanceOf(c)
         THEN instance' = k1 /\ workers' = workers
         ELSE /\ instance' = instance
              /\ workers' = [w \in Entries |->
                   IF Serving(w) /\ workers[w].client = c /\ workers[w].open THEN ks[w] ELSE workers[w]]
  PROVE  /\ instance' \in Conns \union {NoInstance, Listening}
         /\ Holds' => instance'.phase = "reading"
         /\ workers' \in [Entries -> Conns \union {Free, Ended}]
         /\ \A w \in Entries : Serving(w)' => Serves(workers'[w])
<1>1. CASE InstanceOf(c)
  <2>1. Holds
    BY <1>1 DEF InstanceOf, Holds
  <2> QED BY <1>1, <2>1 DEF PipeTyped, PipeTypeOK, Conns, Serving
<1>2. CASE ~InstanceOf(c)
  <2>1. instance' = instance
    BY <1>2
  <2>2. ASSUME NEW w \in Entries
        PROVE  /\ workers'[w] \in Conns \union {Free, Ended}
               /\ Serving(w)' => Serves(workers'[w])
    <3>1. CASE Serving(w) /\ workers[w].client = c /\ workers[w].open
      BY <1>2, <3>1
    <3>2. CASE ~(Serving(w) /\ workers[w].client = c /\ workers[w].open)
      <4>1. workers'[w] = workers[w]
        BY <1>2, <3>2
      <4> QED BY <4>1 DEF PipeTyped, PipeTypeOK, Conns, Serving
    <3> QED BY <3>1, <3>2
  <2>3. workers' = [w \in Entries |-> workers'[w]]
    BY <1>2
  <2> QED BY <2>1, <2>2, <2>3 DEF PipeTyped, PipeTypeOK, Conns, Holds
<1> QED BY <1>1, <1>2

LEMMA ClientStepsKeepTypes ==
  ASSUME PipeTyped, NEW c \in Clients, ClientSteps(c) \/ GiveUp(c)
  PROVE  PipeTyped'
<1>0. transaction[c] \in Trans /\ Asks(transaction[c])
  BY DEF PipeTyped, PipeTypeOK, Trans
<1>1. CASE Connect(c)
  <2> DEFINE t == [transaction[c] EXCEPT !.phase = "writing"]
  <2>1. Answered(t) /\ Asks(t)
    BY <1>0, <1>1 DEF Connect, Answered, Asks, Trans, TransactionsOf, PipeTyped
  <2>2. transaction' = [transaction EXCEPT ![c] = t]
    BY <1>1 DEF Connect
  <2> HIDE DEF t
  <2>3. instance' \in Conns /\ instance'.phase = "reading"
    BY <1>1 DEF Connect, NewConnection, Conns, ConnectionsOf
  <2> QED
    BY <1>1, <2>1, <2>2, <2>3, TransactionChanges
       DEF Connect, PipeTyped, PipeTypeOK, Conns, Trans, Serving
<1>2. CASE ConnectFails(c)
  BY <1>2, CallIsFinished DEF ConnectFails, PipeTyped, PipeTypeOK, Trans, Serving, Holds
<1> DEFINE Sent(k) == [k EXCEPT !.request = transaction[c].request]
           Closed(k) == [k EXCEPT !.open = FALSE]
<1>3. CASE Send(c)
  <2> DEFINE t == [transaction[c] EXCEPT !.phase = "waiting"]
             k1 == Sent(instance)
             ks == [w \in Entries |-> IF Serving(w) THEN Sent(workers[w]) ELSE NewConnection(c)]
  <2>1. Answered(t) /\ Asks(t)
    BY <1>0, <1>3 DEF Send, Answered, Asks, Trans, TransactionsOf, PipeTyped
  <2>2. transaction' = [transaction EXCEPT ![c] = t]
    BY <1>3 DEF Send
  <2>3. transaction[c].request \in Commands
    BY <1>0, <1>3 DEF Send, Asks, Trans, TransactionsOf
  <2>4. Holds => k1 \in Conns /\ k1.phase = "reading"
    BY <2>3, ConnectionsAreKnown DEF Conns, ConnectionsOf, PipeTyped
  <2>5. ASSUME NEW w \in Entries
        PROVE  ks[w] \in Conns /\ (Serving(w) => Serves(ks[w]))
    <3>1. CASE Serving(w)
      BY <2>3, <3>1, ConnectionsAreKnown, PanelMarksAreNone DEF Conns, ConnectionsOf, Serves, PipeTyped
    <3>2. CASE ~Serving(w)
      BY <3>2 DEF NewConnection, Conns, ConnectionsOf
    <3> QED BY <3>1, <3>2
  <2>6. IF InstanceOf(c)
        THEN instance' = k1 /\ workers' = workers
        ELSE /\ instance' = instance
             /\ workers' = [w \in Entries |->
                  IF Serving(w) /\ workers[w].client = c /\ workers[w].open THEN ks[w] ELSE workers[w]]
    BY <1>3 DEF Send, OnConnection
  <2>7. ks \in [Entries -> Conns]
    BY <2>5
  <2> HIDE DEF t, k1, ks
  <2> QED
    BY <1>3, <2>1, <2>2, <2>4, <2>5, <2>6, <2>7, TransactionChanges, ConnectionChanges
       DEF Send, PipeTyped, PipeTypeOK, Conns, Trans
<1>4. CASE GiveUp(c)
  <2> DEFINE k1 == Closed(instance)
             ks == [w \in Entries |-> IF Serving(w) THEN Closed(workers[w]) ELSE NewConnection(c)]
             result == IF transaction[c].phase = "writing" THEN "write_timeout" ELSE "read_timeout"
  <2>1. Holds => k1 \in Conns /\ k1.phase = "reading"
    BY ConnectionsAreKnown DEF Conns, ConnectionsOf, PipeTyped
  <2>2. ASSUME NEW w \in Entries
        PROVE  ks[w] \in Conns /\ (Serving(w) => Serves(ks[w]))
    <3>1. CASE Serving(w)
      BY <3>1, ConnectionsAreKnown DEF Conns, ConnectionsOf, Serves, PipeTyped
    <3>2. CASE ~Serving(w)
      BY <3>2 DEF NewConnection, Conns, ConnectionsOf
    <3> QED BY <3>1, <3>2
  <2>3. IF InstanceOf(c)
        THEN instance' = k1 /\ workers' = workers
        ELSE /\ instance' = instance
             /\ workers' = [w \in Entries |->
                  IF Serving(w) /\ workers[w].client = c /\ workers[w].open THEN ks[w] ELSE workers[w]]
    BY <1>4 DEF GiveUp, OnConnection
  <2>4. ks \in [Entries -> Conns]
    BY <2>2
  <2>5. Finish(c, result) /\ result \in {"connect_failed", "write_timeout", "read_timeout"}
    BY <1>4 DEF GiveUp
  <2>6. faults' \in 0 .. MaxFaults /\ server' = server
    BY <1>4, NamedPipeControlAssumption DEF GiveUp, Fault, PipeTyped, PipeTypeOK
  <2> HIDE DEF k1, ks, result
  <2>7. /\ transaction' \in [Clients -> Trans]
        /\ \A d \in Clients : Answered(transaction'[d]) /\ Asks(transaction'[d])
    BY <2>5, CallIsFinished
  <2> QED
    BY <2>1, <2>2, <2>3, <2>4, <2>6, <2>7, ConnectionChanges DEF PipeTyped, PipeTypeOK, Conns, Trans
<1> QED
  BY <1>1, <1>2, <1>3, <1>4 DEF ClientSteps

LEMMA ServerStepsKeepTypes ==
  ASSUME PipeTyped, ServerSteps \/ ProcessDies \/ StartServer
  PROVE  PipeTyped'
<1>0. Free \notin Conns /\ Ended \notin Conns /\ NoInstance \notin Conns /\ Listening \notin Conns
  BY PanelMarksAreNone DEF Conns
<1>1. CASE Accept
  <2> DEFINE full == \A w \in Entries : Active(w)
             reap == [w \in Entries |-> IF workers[w] = Ended THEN Free ELSE workers[w]]
             given == [reap EXCEPT ![FreeEntry] = instance]
  <2>1. instance \in Conns /\ instance.phase = "reading" /\ Serves(instance)
    BY <1>1 DEF Accept, PipeTyped, PipeTypeOK, Conns, Holds, Serves
  <2>2. /\ reap \in [Entries -> Conns \union {Free, Ended}]
        /\ \A w \in Entries : reap[w] \notin {Free, Ended} => Serves(reap[w])
    BY DEF PipeTyped, PipeTypeOK, Conns, Serving
  <2>3. workers' = IF full THEN reap ELSE given
    BY <1>1 DEF Accept
  <2>4. transaction' = transaction \/ transaction' = ClosedFor({instance})
    BY <1>1 DEF Accept
  <2> HIDE DEF full, reap
  <2>5. /\ given \in [Entries -> Conns \union {Free, Ended}]
        /\ \A w \in Entries : given[w] \notin {Free, Ended} => Serves(given[w])
    BY <2>1, <2>2
  <2> HIDE DEF given
  <2>6. /\ workers' \in [Entries -> Conns \union {Free, Ended}]
        /\ \A w \in Entries : Serving(w)' => Serves(workers'[w])
    BY <2>2, <2>3, <2>5 DEF Serving
  <2>7. /\ transaction' \in [Clients -> Trans]
        /\ \A d \in Clients : Answered(transaction'[d]) /\ Asks(transaction'[d])
    BY <2>4, ClosedIsTyped DEF PipeTyped, PipeTypeOK, Trans
  <2> QED
    BY <1>1, <2>6, <2>7 DEF Accept, PipeTyped, PipeTypeOK, Conns, Trans, Holds
<1>2. ASSUME workers' = Empty, transaction' = ClosedFor(Connections), instance' = NoInstance,
             server' = "down", faults' \in 0 .. MaxFaults
      PROVE  PipeTyped'
  <2>1. /\ workers' \in [Entries -> Conns \union {Free, Ended}]
        /\ \A w \in Entries : ~Serving(w)'
    BY <1>2 DEF Empty, Serving
  <2> QED BY <1>2, <2>1, ClosedIsTyped DEF PipeTyped, PipeTypeOK, Conns, Trans, Holds
<1>3. CASE StopReturns
  BY <1>2, <1>3 DEF StopReturns, PipeTyped, PipeTypeOK
<1>4. CASE ProcessDies
  <2>1. faults' \in 0 .. MaxFaults
    BY <1>4, NamedPipeControlAssumption DEF ProcessDies, Fault, PipeTyped, PipeTypeOK
  <2> QED BY <1>2, <1>4, <2>1 DEF ProcessDies
<1>5. CASE StartServer
  BY <1>5 DEF StartServer, PipeTyped, PipeTypeOK, Holds, Serving
<1> QED
  BY <1>1, <1>3, <1>4, <1>5 DEF ServerSteps

LEMMA HandlerKeepsTypes ==
  ASSUME Typed, NEW w \in Entries, Handle(w)
  PROVE  Typed'
<1> DEFINE command == workers[w].request
           Replied(status) == [workers[w] EXCEPT !.phase = "writing", !.request = NoRequest,
                                                 !.response = Answer(status, command)]
<1>1. PipeTyped /\ PanelTyped
  BY TypedParts
<1>2. workers[w] \in Conns /\ command \in Commands
  BY <1>1, ConnectionsAreKnown DEF Handle, AtPhase, PipeTyped, Serves, Conns, ConnectionsOf
<1>3. ASSUME NEW status \in {"Accepted", "Rejected"}
      PROVE  Replied(status) \in Conns /\ Serves(Replied(status))
  <2> DEFINE r == Answer(status, command)
  <2>1. r \in Responses
    BY <1>1 DEF Answer, Responses, PanelTyped
  <2> HIDE DEF r
  <2>2. r # NoRequest
    BY <2>1, PanelMarksAreNone
  <2>3. [workers[w] EXCEPT !.phase = "writing", !.request = NoRequest, !.response = r] \in Conns
    BY <1>2, <2>1 DEF Conns, ConnectionsOf
  <2>4. Serves([workers[w] EXCEPT !.phase = "writing", !.request = NoRequest, !.response = r])
    BY <1>2, <2>2 DEF Conns, ConnectionsOf, Serves
  <2> QED BY <2>3, <2>4 DEF r
<1>4. \E status \in {"Accepted", "Rejected"} : workers' = [workers EXCEPT ![w] = Replied(status)]
  BY DEF Handle
<1>5. /\ workers' \in [Entries -> Conns \union {Free, Ended}]
      /\ \A v \in Entries : Serving(v)' => Serves(workers'[v])
  BY <1>1, <1>3, <1>4, WorkerChanges
<1>6. server' \in {"down", "serving", "stopping"} /\ UNCHANGED <<instance, transaction, faults, panel, edits>>
  BY <1>1 DEF Handle, PipeTyped, PipeTypeOK
<1>7. preset' \in Presets /\ lost' \in BOOLEAN
  <2>1. preset \in Presets /\ lost \in BOOLEAN
    BY <1>1 DEF PanelTyped
  <2>2. ApplyCommand(preset, command) \in Presets \union {NoPreset}
    BY <1>2, <2>1, AppliedIsPreset
  <2>3. \A p \in Reconfigured : p \in Presets
    <3>1. [gain |-> UnityGain, muted |-> FALSE] \in RoutesWith
      BY ControlPanelAssumption DEF RoutesWith
    <3>2. SUFFICES ASSUME NEW gone \in SUBSET Routes, NEW new \in SUBSET Routes
                   PROVE  [r \in Routes |->
                             IF r \in gone THEN Absent
                             ELSE IF r \in new /\ preset[r] = Absent
                                  THEN [gain |-> UnityGain, muted |-> FALSE]
                             ELSE preset[r]] \in Presets
      BY DEF Reconfigured
    <3>3. \A r \in Routes : preset[r] \in RoutesWith \union {Absent}
      BY <2>1 DEF Presets
    <3> QED BY <3>1, <3>3 DEF Presets
  <2> QED BY <2>1, <2>2, <2>3 DEF Handle, Refused
<1>8. PipeTyped'
  BY <1>1, <1>5, <1>6 DEF PipeTyped, PipeTypeOK, Conns, Holds
<1>9. PanelTyped'
  BY <1>1, <1>6, <1>7 DEF PanelTyped
<1> QED
  BY <1>8, <1>9 DEF Typed, PipeTyped, PanelTyped, TypeOK, Bounded

LEMMA BecomingKeepsTypes ==
  ASSUME Typed, NEW at, Bounded(at), at.active = NoCommand => at.queued = <<>>,
         Becomes(at), lost' \in BOOLEAN, edits' \in 0 .. MaxEdits
  PROVE  Typed'
<1>1. PipeTyped /\ PanelTyped
  BY TypedParts
<1>2. Panel \in Clients
  BY ControlPanelAssumption
<1>3. /\ transaction' \in [Clients -> Trans]
      /\ \A d \in Clients : Answered(transaction'[d]) /\ Asks(transaction'[d])
  <2>1. CASE at.active # NoCommand /\ panel.active = NoCommand
    <3>1. at.active.command \in Commands
      BY <2>1 DEF Bounded, Panels, QueuedCommands
    <3>2. Begin(Panel, at.active.command)
      BY <2>1 DEF Becomes
    <3> QED BY <1>1, <1>2, <3>1, <3>2, CallIsBegun
  <2>2. CASE ~(at.active # NoCommand /\ panel.active = NoCommand)
    BY <1>1, <2>2 DEF Becomes, PipeTyped, PipeTypeOK, Trans
  <2> QED BY <2>1, <2>2
<1>4. PipeTyped'
  BY <1>1, <1>3 DEF Becomes, PipeTyped, PipeTypeOK, Trans, Holds, Serving
<1>5. PanelTyped'
  BY <1>1 DEF Becomes, PanelTyped
<1> QED
  BY <1>4, <1>5 DEF Typed, PipeTyped, PanelTyped, TypeOK, Bounded

\* What the user may send: an edit of the preset in view, a command that is no edit, or a
\* preset to load.
RouteEdits ==
  {c \in Commands : c.type \in {"ConnectRoute", "DisconnectRoute", "SetGain", "SetMute"}}

OffersEdit(q, c) ==
  /\ q = Recorded(c) /\ View # NoPreset
  /\ c.type = "ConnectRoute" <=> View[c.route] = Absent
  /\ c.type # "SetGain" => ~Busy

OffersLoad(q) ==
  /\ q.command.type = "LoadPreset" /\ ~q.poll /\ ~Busy
  /\ \/ q.action = "Reset"
     \/ /\ q.action = "Undo" /\ panel.undo # <<>>
        /\ q.entry = Last(panel.undo) /\ q.command.preset = q.entry.before
     \/ /\ q.action = "Redo" /\ panel.redo # <<>>
        /\ q.entry = Last(panel.redo) /\ q.command.preset = q.entry.after

Offered(q) ==
  \/ \E c \in RouteEdits : OffersEdit(q, c)
  \/ q.action = "None" /\ ~Mutates(q.command)
  \/ OffersLoad(q)

Loads(p, action, entry) ==
  [Queued([type |-> "LoadPreset", preset |-> p]) EXCEPT !.action = action, !.entry = entry]

LEMMA LoadIsTyped ==
  ASSUME NEW p \in Presets, NEW action \in {"Undo", "Redo"}, NEW entry \in HistoryEntries
  PROVE  LET q == Loads(p, action, entry)
         IN  /\ q \in QueuedCommands /\ q.command.type = "LoadPreset" /\ q.command.preset = p
             /\ ~q.poll /\ q.action = action /\ q.entry = entry
<1> DEFINE c == [type |-> "LoadPreset", preset |-> p]
           l == Queued(c)
           q == [l EXCEPT !.action = action, !.entry = entry]
<1>1. c \in Commands /\ c.type = "LoadPreset" /\ c.preset = p
  BY DEF Commands
<1> HIDE DEF c
<1>2. l \in QueuedCommands /\ l.command = c /\ ~l.poll /\ l.entry = NoEntry
  BY <1>1, QueuedIsTyped
<1> HIDE DEF l
<1>3. q.command = c /\ ~q.poll /\ q.action = action /\ q.entry = entry
  BY <1>2 DEF QueuedCommands
<1>4. q \in QueuedCommands
  BY <1>1, <1>2, PanelMarksAreNone DEF QueuedCommands
<1> QED BY <1>1, <1>3, <1>4 DEF l, c, Loads

LEMMA ResetIsTyped ==
  ASSUME NEW p \in Presets
  PROVE  LET r == [Queued([type |-> "LoadPreset", preset |-> p]) EXCEPT !.action = "Reset"]
         IN  r \in QueuedCommands /\ r.command.type = "LoadPreset" /\ ~r.poll /\ r.action = "Reset"
<1> DEFINE c == [type |-> "LoadPreset", preset |-> p]
           l == Queued(c)
           r == [l EXCEPT !.action = "Reset"]
<1>1. c \in Commands /\ c.type = "LoadPreset"
  BY DEF Commands
<1> HIDE DEF c
<1>2. l \in QueuedCommands /\ l.command = c /\ ~l.poll /\ l.entry = NoEntry
  BY <1>1, QueuedIsTyped
<1> HIDE DEF l
<1>3. r \in QueuedCommands /\ r.command = c /\ ~r.poll /\ r.action = "Reset"
  BY <1>1, <1>2 DEF QueuedCommands
<1> QED BY <1>1, <1>3 DEF l, c

LEMMA UserSendsOffered ==
  ASSUME Typed, User
  PROVE  \E q \in QueuedCommands : UserDoes(q) /\ Offered(q)
<1>1. panel \in Panels /\ View \in Presets \union {NoPreset}
  BY DEF Typed, TypeOK, Panels, View
<1>2. ASSUME NEW r \in Routes, NEW on \in BOOLEAN, SetRoute(r, on)
      PROVE  \E q \in QueuedCommands : UserDoes(q) /\ Offered(q)
  <2> DEFINE mutes == [type |-> "SetMute", route |-> r, mute |-> ~on]
             connects == [type |-> "ConnectRoute", route |-> r]
  <2>1. {mutes, connects} \subseteq RouteEdits /\ mutes.type = "SetMute" /\ connects.type = "ConnectRoute"
        /\ mutes.route = r /\ connects.route = r
    BY <1>2 DEF RouteEdits, Commands
  <2>2. \E c \in {mutes, connects} : UserDoes(Recorded(c)) /\ (c = connects <=> View[r] = Absent)
    BY <1>2, <2>1 DEF SetRoute, HasRoute
  <2>3. View # NoPreset /\ ~Busy
    BY <1>2 DEF SetRoute
  <2> HIDE DEF mutes, connects
  <2>4. PICK c \in {mutes, connects} : UserDoes(Recorded(c)) /\ (c = connects <=> View[r] = Absent)
    BY <2>2
  <2>5. c \in RouteEdits /\ c \in Commands /\ (c.type = "ConnectRoute" <=> View[c.route] = Absent)
        /\ c.type # "SetGain"
    BY <2>1, <2>4 DEF RouteEdits
  <2>6. Recorded(c) \in QueuedCommands
    BY <1>1, <2>5, RecordedIsTyped
  <2> QED BY <2>3, <2>4, <2>5, <2>6 DEF Offered, OffersEdit
<1>3. ASSUME NEW r \in Routes, RemoveRoute(r)
      PROVE  \E q \in QueuedCommands : UserDoes(q) /\ Offered(q)
  <2> DEFINE c == [type |-> "DisconnectRoute", route |-> r]
  <2>1. c \in RouteEdits /\ c \in Commands /\ c.type = "DisconnectRoute" /\ c.route = r
    BY DEF RouteEdits, Commands
  <2>2. UserDoes(Recorded(c)) /\ HasRoute(r) /\ ~Busy
    BY <1>3 DEF RemoveRoute
  <2> HIDE DEF c
  <2>3. Recorded(c) \in QueuedCommands
    BY <1>1, <2>1, RecordedIsTyped
  <2> QED BY <2>1, <2>2, <2>3 DEF Offered, OffersEdit, HasRoute
<1>4. ASSUME NEW r \in Routes, NEW g \in Gains, SetRouteGain(r, g)
      PROVE  \E q \in QueuedCommands : UserDoes(q) /\ Offered(q)
  <2> DEFINE c == [type |-> "SetGain", route |-> r, gain |-> g]
  <2>1. c \in RouteEdits /\ c \in Commands /\ c.type = "SetGain" /\ c.route = r
    BY DEF RouteEdits, Commands
  <2>2. UserDoes(Recorded(c)) /\ HasRoute(r)
    BY <1>4 DEF SetRouteGain
  <2> HIDE DEF c
  <2>3. Recorded(c) \in QueuedCommands
    BY <1>1, <2>1, RecordedIsTyped
  <2> QED BY <2>1, <2>2, <2>3 DEF Offered, OffersEdit, HasRoute
<1>5. ASSUME NEW type \in {"SavePreset", "ConfigureVirtualAsioDevices", "ConfigureAudioRuntime"},
             UserDoes(Queued([type |-> type]))
      PROVE  \E q \in QueuedCommands : UserDoes(q) /\ Offered(q)
  <2> DEFINE c == [type |-> type]
  <2>1. c \in Commands /\ ~Mutates(c)
    BY DEF Commands, Mutates
  <2> HIDE DEF c
  <2>2. Queued(c) \in QueuedCommands /\ Queued(c).command = c /\ Queued(c).action = "None"
    BY <2>1, QueuedIsTyped
  <2>3. UserDoes(Queued(c))
    BY <1>5 DEF c
  <2> QED BY <2>1, <2>2, <2>3 DEF Offered
<1>6. ASSUME LoadPreset
      PROVE  \E q \in QueuedCommands : UserDoes(q) /\ Offered(q)
  <2> DEFINE q == [Queued([type |-> "LoadPreset", preset |-> panel.store]) EXCEPT !.action = "Reset"]
  <2>1. panel.store \in Presets
    BY <1>1, <1>6 DEF LoadPreset, Panels
  <2>3. q \in QueuedCommands /\ q.command.type = "LoadPreset" /\ ~q.poll /\ q.action = "Reset"
    BY <2>1, ResetIsTyped
  <2>4. UserDoes(q) /\ ~Busy
    BY <1>6 DEF LoadPreset
  <2> HIDE DEF q
  <2> QED BY <2>3, <2>4 DEF Offered, OffersLoad
<1>7. ASSUME NEW action \in {"Undo", "Redo"}, NEW entry \in HistoryEntries, NEW p \in Presets,
             HistoryLoad(entry, p, action), ~Busy,
             \/ /\ action = "Undo" /\ panel.undo # <<>> /\ entry = Last(panel.undo) /\ p = entry.before
             \/ /\ action = "Redo" /\ panel.redo # <<>> /\ entry = Last(panel.redo) /\ p = entry.after
      PROVE  \E q \in QueuedCommands : UserDoes(q) /\ Offered(q)
  <2> DEFINE q == Loads(p, action, entry)
  <2>1. /\ q \in QueuedCommands /\ q.command.type = "LoadPreset" /\ q.command.preset = p
        /\ ~q.poll /\ q.action = action /\ q.entry = entry
    BY LoadIsTyped
  <2>2. UserDoes(q)
    BY <1>7 DEF HistoryLoad, Loads
  <2> HIDE DEF q
  <2> QED BY <1>7, <2>1, <2>2 DEF Offered, OffersLoad
<1>8. CASE Undo
  <2>1. panel.undo \in Seq(HistoryEntries) /\ panel.undo # <<>>
    BY <1>1, <1>8 DEF Undo, Panels
  <2>2. Last(panel.undo) \in HistoryEntries /\ Last(panel.undo).before \in Presets
    BY <2>1, LastAndFront DEF HistoryEntries
  <2> QED BY <1>7, <1>8, <2>1, <2>2 DEF Undo
<1>9. CASE Redo
  <2>1. panel.redo \in Seq(HistoryEntries) /\ panel.redo # <<>>
    BY <1>1, <1>9 DEF Redo, Panels
  <2>2. Last(panel.redo) \in HistoryEntries /\ Last(panel.redo).after \in Presets
    BY <2>1, LastAndFront DEF HistoryEntries
  <2> QED BY <1>7, <1>9, <2>1, <2>2 DEF Redo
<1> QED
  BY <1>2, <1>3, <1>4, <1>5, <1>6, <1>8, <1>9
     DEF User, SavePreset, ConfigureVirtualAsioDevices, ConfigureRuntime

\* What the panel is after a step that is not a reply.
Acts(e) ==
  /\ Becomes(e) /\ Bounded(e) /\ SameHistory(panel, e)
  /\ \/ e.active = panel.active /\ e.queued = panel.queued /\ lost' = lost
     \/ \E q \in QueuedCommands : Offered(q) /\ Joins(panel, q, e) /\ lost' = (lost \/ Overlaps(q))

LEMMA PanelActs ==
  ASSUME Typed, User \/ EventLoop
  PROVE  \/ TransactionFinished
         \/ /\ \E e : Acts(e)
            /\ lost' \in BOOLEAN /\ edits' \in 0 .. MaxEdits
<1>1. /\ Bounded(panel) /\ (panel.active = NoCommand => panel.queued = <<>>)
      /\ edits \in 0 .. MaxEdits /\ MaxEdits \in Nat /\ lost \in BOOLEAN
  BY ControlPanelAssumption DEF Typed, TypeOK, Bounded
<1>2. ASSUME NEW at, Alike(panel, at), NEW q \in QueuedCommands, Offered(q), Becomes(Enqueue(at, q)),
             lost' = (lost \/ Overlaps(q))
      PROVE  \E e : Acts(e)
  <2> DEFINE e == Enqueue(at, q)
  <2>1. e \in Panels /\ SameHistory(at, e) /\ Joins(at, q, e) /\ Becomes(e)
    BY <1>1, <1>2, CommandJoinsQueue DEF Alike, Bounded
  <2> HIDE DEF e
  <2>2. Joins(panel, q, e)
    BY <1>2, <2>1 DEF Alike, Joins, GainsQueued
  <2>3. Bounded(e) /\ SameHistory(panel, e)
    BY <1>2, <2>1 DEF Alike, Bounded, SameHistory
  <2> QED BY <1>2, <2>1, <2>2, <2>3 DEF Acts
<1>3. ASSUME NEW at, Alike(panel, at), Becomes(at), lost' = lost
      PROVE  \E e : Acts(e)
  BY <1>3 DEF Alike, Acts
<1>4. \A timer \in Timers : Alike(panel, Fired(timer))
  BY <1>1 DEF Fired, Alike, Bounded, Panels, SameHistory
<1>5. Alike(panel, panel)
  BY <1>1 DEF Alike, SameHistory
<1>6. CASE User
  <2>1. PICK q \in QueuedCommands : UserDoes(q) /\ Offered(q)
    BY <1>6, UserSendsOffered
  <2>2. \E e : Acts(e)
    BY <1>2, <1>5, <2>1 DEF UserDoes
  <2> QED BY <1>1, <2>1, <2>2 DEF UserDoes, Overlaps
<1>7. CASE Refresh
  <2> DEFINE c == [type |-> "QuerySessionState"]
  <2>1. c \in Commands /\ ~Mutates(c)
    BY DEF Commands, Mutates
  <2> HIDE DEF c
  <2>2. Queued(c) \in QueuedCommands /\ Offered(Queued(c)) /\ ~Overlaps(Queued(c))
    BY <2>1, QueuedIsTyped DEF Offered, Overlaps
  <2> QED BY <1>1, <1>2, <1>4, <1>7, <2>2 DEF Refresh, Timers, c
<1>8. CASE SchedulePoll
  <2>1. Poll \in QueuedCommands /\ Offered(Poll) /\ ~Overlaps(Poll)
    BY PanelMarksAreNone DEF Poll, Queued, QueuedCommands, Commands, Offered, Overlaps, Mutates
  <2> QED BY <1>1, <1>2, <1>5, <1>8, <2>1 DEF SchedulePoll
<1>9. CASE ResetAttempt
  <2> DEFINE f == Fired("reset")
             at == [f EXCEPT !.attempted = FALSE]
  <2>1. Alike(panel, f)
    BY <1>4 DEF Timers
  <2>2. Becomes(at) /\ UNCHANGED <<lost, edits>>
    BY <1>9 DEF ResetAttempt
  <2> HIDE DEF f
  <2>3. Alike(panel, at)
    BY <2>1 DEF Alike, Bounded, Panels, SameHistory
  <2> HIDE DEF at
  <2> QED BY <1>1, <1>3, <2>2, <2>3
<1>10. CASE PlannedRestart
  <2> DEFINE f == Fired("restart")
             g == [f EXCEPT !.attempted = FALSE]
             at == EnsureEngineService(g)
  <2>1. Alike(panel, f)
    BY <1>4 DEF Timers
  <2>2. Becomes(at) /\ UNCHANGED <<lost, edits>>
    BY <1>10 DEF PlannedRestart
  <2> HIDE DEF f
  <2>3. Alike(panel, g)
    BY <2>1 DEF Alike, Bounded, Panels, SameHistory
  <2> HIDE DEF g
  <2>4. Alike(panel, at)
    BY <2>3, EngineIsEnsured DEF Alike, SameHistory
  <2> HIDE DEF at
  <2> QED BY <1>1, <1>3, <2>2, <2>4
<1> QED
  BY <1>6, <1>7, <1>8, <1>9, <1>10 DEF EventLoop

LEMMA ActingKeepsTypes ==
  ASSUME Typed, User \/ EventLoop
  PROVE  Typed'
<1>1. PipeTyped /\ PanelTyped /\ Bounded(panel)
  BY TypedParts DEF PanelTyped
<1>2. CASE TransactionFinished
  <2> DEFINE t == transaction[Panel]
             q == panel.active
             free == [panel EXCEPT !.active = NoCommand]
             applied == Applied(free, q, t)
             at == StartNext(applied)
  <2>1. q \in QueuedCommands /\ Answered(t) /\ Panel \in Clients
    BY <1>1, <1>2, ControlPanelAssumption DEF TransactionFinished, Bounded, Panels, PipeTyped
  <2>2. Bounded(free) /\ free.active = NoCommand
    BY <1>1 DEF Bounded, Panels
  <2>3. /\ panel' = at
        /\ transaction' = [transaction EXCEPT ![Panel] =
             IF at.active = NoCommand THEN NoTransaction
             ELSE [NoTransaction EXCEPT !.phase = "connecting", !.request = at.active.command]]
        /\ lost' \in BOOLEAN /\ UNCHANGED <<server, instance, workers, faults, preset, edits>>
    <3>1. lost \in BOOLEAN
      BY <1>1 DEF PanelTyped
    <3> QED BY <1>2, <3>1 DEF TransactionFinished
  <2> HIDE DEF t, q, free
  <2>4. Bounded(applied) /\ applied.active = NoCommand
    BY <2>1, <2>2, ReplyIsApplied
  <2> HIDE DEF applied
  <2>5. Bounded(at) /\ (at.active = NoCommand => at.queued = <<>>)
    <3>1. at \in Panels /\ SameHistory(applied, at)
      BY <2>4, NextIsFirstQueued DEF Bounded
    <3>2. Bounded(at)
      BY <2>4, <3>1 DEF Bounded, SameHistory
    <3>3. applied.queued # <<>> => at.active # NoCommand
      <4>1. ASSUME applied.queued # <<>>
            PROVE  at.active \in QueuedCommands
        BY <2>4, <4>1, NextIsFirstQueued, HeadTailProperties DEF Bounded, Panels
      <4> QED BY <4>1, PanelMarksAreNone
    <3>4. applied.queued = <<>> => at = applied
      BY <2>4, NextIsFirstQueued DEF Bounded
    <3> QED BY <3>2, <3>3, <3>4
  <2> HIDE DEF at
  <2>6. /\ transaction' \in [Clients -> Trans]
        /\ \A d \in Clients : Answered(transaction'[d]) /\ Asks(transaction'[d])
    <3> DEFINE u == IF at.active = NoCommand THEN NoTransaction
                    ELSE [NoTransaction EXCEPT !.phase = "connecting", !.request = at.active.command]
    <3>1. at.active # NoCommand => at.active.command \in Commands
      BY <2>5 DEF Bounded, Panels, QueuedCommands
    <3>2. Answered(u) /\ Asks(u)
      BY <3>1, PanelMarksAreNone DEF Answered, Asks, NoTransaction, TransactionsOf
    <3>3. transaction' = [transaction EXCEPT ![Panel] = u]
      BY <2>3
    <3> HIDE DEF u
    <3> QED BY <1>1, <2>1, <3>2, <3>3, TransactionChanges
  <2>7. PipeTyped'
    BY <1>1, <2>3, <2>6 DEF PipeTyped, PipeTypeOK, Trans, Holds, Serving
  <2>8. PanelTyped'
    BY <1>1, <2>3, <2>5 DEF PanelTyped
  <2> QED BY <2>7, <2>8 DEF Typed, PipeTyped, PanelTyped, TypeOK, Bounded
<1>3. CASE ~TransactionFinished
  <2>1. PICK e : Acts(e)
    BY <1>3, PanelActs
  <2>2. lost' \in BOOLEAN /\ edits' \in 0 .. MaxEdits
    BY <1>1, <1>3, PanelActs DEF PanelTyped
  <2>3. e.active = NoCommand => e.queued = <<>>
    BY <1>1, <2>1, PanelMarksAreNone DEF Acts, Joins, PanelTyped
  <2> QED BY <2>1, <2>2, <2>3, BecomingKeepsTypes DEF Acts
<1> QED BY <1>2, <1>3

LEMMA NextKeepsTypes ==
  ASSUME Typed, [Next]_vars
  PROVE  Typed'
<1>1. PipeTyped /\ PanelTyped
  BY TypedParts
<1> DEFINE PanelStays == UNCHANGED <<preset, panel, lost, edits>>
<1>2. ASSUME PipeTyped', PanelStays
      PROVE  Typed'
  BY <1>1, <1>2 DEF Typed, PipeTyped, PanelTyped, TypeOK, Bounded
<1>3. ASSUME PipeTyped', PanelTyped'
      PROVE  Typed'
  BY <1>3 DEF Typed, PipeTyped, PanelTyped, TypeOK, Bounded
<1>4. CASE User \/ EventLoop
  BY <1>4, ActingKeepsTypes
<1>5. CASE ServerThread
  BY <1>1, <1>2, <1>5, ServerStepsKeepTypes DEF ServerThread, PipeOnly
<1>6. CASE PanelTransaction
  BY <1>1, <1>2, <1>6, ClientStepsKeepTypes, ControlPanelAssumption DEF PanelTransaction, PipeOnly
<1>7. CASE Late
  BY <1>1, <1>2, <1>7, ClientStepsKeepTypes, WorkerStepsKeepTypes, ControlPanelAssumption DEF Late, PipeOnly
<1>8. ASSUME NEW w \in Entries, Worker(w)
      PROVE  Typed'
  BY <1>1, <1>2, <1>8, WorkerStepsKeepTypes, HandlerKeepsTypes DEF Worker, PipeOnly
<1>9. CASE EngineStarts
  <2>1. PipeTyped'
    <3>1. CASE StartServer
      BY <1>1, <3>1, ServerStepsKeepTypes
    <3>2. CASE UNCHANGED pipeVars
      BY <1>1, <3>2 DEF pipeVars, PipeTyped, PipeTypeOK, Holds, Serving
    <3> QED BY <1>9, <3>1, <3>2 DEF EngineStarts
  <2>2. PanelTyped'
    BY <1>1, <1>9 DEF EngineStarts, PanelTyped, Bounded, Panels
  <2> QED BY <1>3, <2>1, <2>2
<1>10. CASE EngineDies
  BY <1>1, <1>2, <1>10, ServerStepsKeepTypes DEF EngineDies
<1>11. CASE Foreign
  <2>1. preset' \in Presets
    <3>1. \A r \in Routes : [type |-> "ConnectRoute", route |-> r] \in Commands
      BY DEF Commands
    <3>2. \A r \in Routes : ApplyCommand(preset, [type |-> "ConnectRoute", route |-> r]) \in Presets \union {NoPreset}
      BY <1>1, <3>1, AppliedIsPreset DEF PanelTyped
    <3> QED BY <1>11, <3>2 DEF Foreign, Refused
  <2>2. faults' \in 0 .. MaxFaults
    BY <1>1, <1>11, NamedPipeControlAssumption DEF Foreign, Fault, PipeTyped, PipeTypeOK
  <2> QED
    BY <1>1, <1>3, <1>11, <2>1, <2>2
       DEF Foreign, PipeTyped, PipeTypeOK, PanelTyped, Holds, Serving
<1>12. CASE UNCHANGED vars
  BY <1>12 DEF vars, pipeVars, Typed, TypeOK, PipeTypeOK, Holds, Serving
<1> QED
  BY <1>4, <1>5, <1>6, <1>7, <1>8, <1>9, <1>10, <1>11, <1>12 DEF Next

LEMMA InitIsTyped ==
  ASSUME Init
  PROVE  Typed
<1>1. NoTransaction \in Trans /\ Answered(NoTransaction) /\ Asks(NoTransaction)
  BY DEF NoTransaction, Trans, TransactionsOf, Answered, Asks
<1>2. PipeTyped
  BY <1>1, NamedPipeControlAssumption
     DEF Init, PipeInit, PipeTyped, PipeTypeOK, Empty, Trans, Serving, Holds
<1>3. EmptyPreset \in Presets
  BY DEF EmptyPreset, Presets
<1>4. StartedPanel \in Panels /\ StartedPanel.undo = <<>> /\ StartedPanel.redo = <<>>
      /\ StartedPanel.queued = <<>>
  BY EmptySeq DEF StartedPanel, Panels, Timers
<1>5. Bounded(StartedPanel)
  BY <1>4, EmptySeq, ControlPanelAssumption DEF Bounded
<1>6. PanelTyped
  <2>1. preset = EmptyPreset /\ panel = StartedPanel /\ lost = FALSE /\ edits = 0
    BY DEF Init
  <2>2. edits \in 0 .. MaxEdits
    BY <2>1, ControlPanelAssumption
  <2>3. preset \in Presets /\ Bounded(panel) /\ panel.queued = <<>>
    BY <1>3, <1>4, <1>5, <2>1
  <2> QED BY <2>1, <2>2, <2>3 DEF PanelTyped
<1> QED BY <1>2, <1>6, TypedParts

\* Every variable keeps its type, and the histories their limit.
THEOREM TypeCorrect == Spec => []TypeOK
<1>1. Typed => TypeOK
  BY DEF Typed
<1> QED BY <1>1, InitIsTyped, NextKeepsTypes, PTL DEF Spec
-----------------------------------------------------------------------------
(* No handler without its server. *)

LEMMA NoServerNoHandler ==
  ASSUME Typed, HandlersEndWithServer, [Next]_vars
  PROVE  HandlersEndWithServer'
<1>1. \A w \in Entries : server = "down" => ~Serving(w)
  BY DEF HandlersEndWithServer
<1>2. ASSUME server' = "down" => server = "down", UNCHANGED workers
      PROVE  HandlersEndWithServer'
  BY <1>1, <1>2 DEF HandlersEndWithServer, Serving
<1>3. ASSUME server' = server, NEW w \in Entries, Serving(w)
      PROVE  HandlersEndWithServer'
  BY <1>1, <1>3 DEF HandlersEndWithServer
<1>4. ASSUME workers' = Empty
      PROVE  HandlersEndWithServer'
  BY <1>4 DEF HandlersEndWithServer, Empty, Serving
<1>5. CASE User
  <2>1. PICK q : UserDoes(q)
    BY <1>5, UserSendsOffered
  <2> QED BY <1>2, <2>1 DEF UserDoes, Becomes
<1>6. CASE EventLoop
  BY <1>2, <1>6
     DEF EventLoop, TransactionFinished, Refresh, ResetAttempt, PlannedRestart, SchedulePoll, Becomes
<1>7. CASE ServerThread
  <2>1. CASE Accept
    BY <2>1 DEF Accept, HandlersEndWithServer
  <2>2. CASE StopReturns
    BY <1>4, <2>2 DEF StopReturns
  <2> QED BY <1>7, <2>1, <2>2 DEF ServerThread, ServerSteps
<1>8. ASSUME NEW c \in Clients, ClientSteps(c) \/ GiveUp(c)
      PROVE  HandlersEndWithServer'
  <2>1. \A w \in Entries : Serving(w)' => Serving(w)
    <3>1. CASE UNCHANGED workers
      BY <3>1 DEF Serving
    <3>2. CASE ~UNCHANGED workers
      BY <1>8, <3>2
         DEF ClientSteps, Connect, ConnectFails, Send, GiveUp, OnConnection, Serving
    <3> QED BY <3>1, <3>2
  <2>2. server' = server
    BY <1>8 DEF ClientSteps, Connect, ConnectFails, Send, GiveUp
  <2> QED BY <1>1, <2>1, <2>2 DEF HandlersEndWithServer
<1>9. ASSUME NEW w \in Entries, WorkerSteps(w) \/ Expire(w)
      PROVE  HandlersEndWithServer'
  BY <1>3, <1>9
     DEF WorkerSteps, ReadRequest, AbandonRead, WriteResponse, FailWrite, EndWorker, Expire, AtPhase
<1>10. ASSUME NEW w \in Entries, Handle(w)
       PROVE  HandlersEndWithServer'
  <2>1. server # "down" /\ server' \in {server, "stopping"}
    BY <1>1, <1>10 DEF Handle, AtPhase
  <2> QED BY <2>1 DEF HandlersEndWithServer
<1>11. CASE EngineStarts
  BY <1>2, <1>11 DEF EngineStarts, StartServer, pipeVars
<1>12. CASE EngineDies
  BY <1>4, <1>12 DEF EngineDies, ProcessDies
<1>13. CASE Foreign \/ UNCHANGED vars
  BY <1>2, <1>13 DEF Foreign, vars, pipeVars
<1> QED
  BY <1>5, <1>6, <1>7, <1>8, <1>9, <1>10, <1>11, <1>12, <1>13, ControlPanelAssumption
     DEF Next, PanelTransaction, Late, Worker

\* When the server has stopped no worker is left to call the handler, which refers to the
\* hosts, the service and the session of main().
THEOREM NoHandlerOutlivesServer == Spec => []HandlersEndWithServer
<1>1. Init => HandlersEndWithServer
  BY DEF Init, PipeInit, HandlersEndWithServer, Empty, Serving
<1> QED BY <1>1, InitIsTyped, NextKeepsTypes, NoServerNoHandler, PTL DEF Spec

-----------------------------------------------------------------------------
(* The call that is under way. *)

\* What a step of the pipe does to an answer: it goes on, or the call fails.
Conveys == /\ Answers' \subseteq Answers
           /\ ~Failed' => ~Failed /\ Answers' = Answers

\* The server's end of a connection closes.
LEMMA CallCloses ==
  ASSUME Typed, NEW connections, transaction' = ClosedFor(connections)
  PROVE  IF \E k \in connections : k.open /\ k.client = Panel
         THEN Call'.phase = "done" /\ Call'.result = "pipe_failed" ELSE Call' = Call
BY ControlPanelAssumption DEF Call, ClosedFor, NoTransaction

\* The panel's connection ends with the call.
LEMMA EndOfCall ==
  ASSUME Typed, CallInv, \A w \in Entries : ~Open(w)', ~(Holds /\ instance.open)',
         Holds' => instance'.client = Panel /\ instance'.phase = "reading",
         \A w \in Entries : Serving(w)' => workers'[w].client = Panel,
         Call'.phase = "done", Call.phase # "idle", panel'.active = panel.active
  PROVE  CallInv'
BY DEF CallInv, OneConnection, CallIsActive, Holds

LEMMA WorkerStepsConvey ==
  ASSUME Typed, CallInv, NEW w \in Entries, WorkerSteps(w) \/ Expire(w), panel'.active = panel.active
  PROVE  CallInv' /\ Conveys
<1>1. /\ Serving(w) /\ instance' = instance
      /\ \A v \in Entries \ {w} : workers'[v] = workers[v]
  BY DEF WorkerSteps, ReadRequest, AbandonRead, WriteResponse, FailWrite, EndWorker, Expire, AtPhase,
         Typed, TypeOK, PipeTypeOK
<1>2. workers[w] \in ConnectionsOf(Commands, Responses) /\ Panel \in Clients
  BY <1>1, ControlPanelAssumption DEF Typed, TypeOK, PipeTypeOK, Serving
<1>3. Call \in TransactionsOf(Commands, Responses)
  BY <1>2 DEF Typed, Answered, Call
<1>4. \A v \in Entries : workers'[v] = IF v = w THEN workers'[w] ELSE workers[v]
  BY <1>1
<1>5. CASE ReadRequest(w) \/ Expire(w)
  <2>1. /\ Call' = Call /\ Serving(w)' /\ workers'[w].open = workers[w].open
        /\ workers'[w].client = workers[w].client /\ workers'[w].request = workers[w].request
        /\ workers'[w].response = workers[w].response
        /\ \/ workers'[w].phase = workers[w].phase
           \/ workers[w].phase = "reading" /\ workers'[w].phase = "handling" /\ workers[w].request # NoRequest
    <3>1. CASE ReadRequest(w)
      <4> DEFINE k == [workers[w] EXCEPT !.phase = "handling"]
      <4>1. workers'[w] = k
        BY <3>1 DEF ReadRequest, Typed, TypeOK, PipeTypeOK
      <4>2. k \in ConnectionsOf(Commands, Responses)
        BY <1>2 DEF ConnectionsOf
      <4> QED
        BY <1>2, <3>1, <4>1, <4>2, PanelMarksAreNone
           DEF ReadRequest, AtPhase, Call, ConnectionsOf, Serving
    <3>2. CASE Expire(w)
      <4> DEFINE k == [workers[w] EXCEPT !.expired = TRUE]
      <4>1. workers'[w] = k
        BY <3>2 DEF Expire, Typed, TypeOK, PipeTypeOK
      <4>2. k \in ConnectionsOf(Commands, Responses)
        BY <1>2 DEF ConnectionsOf
      <4>3. k \notin {Free, Ended}
        BY <4>2, PanelMarksAreNone
      <4>4. /\ k.open = workers[w].open /\ k.client = workers[w].client /\ k.request = workers[w].request
            /\ k.response = workers[w].response /\ k.phase = workers[w].phase
        BY <1>2 DEF ConnectionsOf
      <4> HIDE DEF k
      <4> QED BY <3>2, <4>1, <4>3, <4>4 DEF Expire, Call, Serving
    <3> QED BY <1>5, <3>1, <3>2
  <2>2. CallInv'
    BY <1>1, <1>4, <2>1 DEF CallInv, OneConnection, CallIsActive, Open, Serving, Holds, Carries
  <2>3. Answers' = Answers /\ Failed' = Failed
    BY <1>1, <1>4, <2>1 DEF Answers, Failed, Open, Serving
  <2> QED BY <2>2, <2>3 DEF Conveys
<1>6. ASSUME EndWorker(w)
      PROVE  CallInv' /\ Conveys
  <2>1. workers'[w] = Ended /\ ~Serving(w)' /\ transaction' = ClosedFor({workers[w]})
    BY <1>6 DEF EndWorker, Typed, TypeOK, PipeTypeOK, Serving
  <2>2. workers[w].client = Panel
    BY <1>1 DEF CallInv, OneConnection
  <2>3. CASE Open(w)
    <3>1. Call'.phase = "done" /\ Call'.result = "pipe_failed"
      BY <2>1, <2>2, <2>3, CallCloses DEF Open
    <3>2. /\ \A v \in Entries : ~Open(v)'
          /\ ~Holds /\ ~Holds' /\ Call.phase # "idle"
      BY <1>1, <1>4, <2>1, <2>3 DEF CallInv, OneConnection, Open, Serving, Holds
    <3>3. \A v \in Entries : Serving(v)' => workers'[v].client = Panel
      BY <1>4, <2>1 DEF CallInv, OneConnection, Serving
    <3>4. CallInv'
      BY <1>6, <3>1, <3>2, <3>3, EndOfCall
    <3>5. Failed' /\ Answers' = {}
      BY <3>1, <3>2 DEF Failed, Answers
    <3> QED BY <3>4, <3>5 DEF Conveys
  <2>4. CASE ~Open(w)
    <3>1. Call' = Call
      BY <2>1, <2>4, <1>1, CallCloses DEF Open
    <3>2. \A v \in Entries : Open(v)' => Open(v) /\ v # w
      BY <1>4, <2>1 DEF Open, Serving
    <3>3. \A v \in Entries : Open(v) => Open(v)' /\ v # w
      BY <1>4, <2>4 DEF Open, Serving
    <3>4. CallInv'
      BY <1>1, <1>4, <2>1, <3>1, <3>2 DEF CallInv, OneConnection, CallIsActive, Serving, Holds, Carries
    <3>5. Answers' = Answers /\ Failed' = Failed
      BY <1>4, <3>1, <3>2, <3>3 DEF Answers, Failed
    <3> QED BY <3>4, <3>5 DEF Conveys
  <2> QED BY <2>3, <2>4
<1>7. CASE WriteResponse(w)
  <2>1. workers'[w] = Ended /\ ~Serving(w)' /\ Open(w) /\ workers[w].phase = "writing"
    BY <1>7 DEF WriteResponse, AtPhase, Typed, TypeOK, PipeTypeOK, Serving, Open
  <2>2. workers[w].client = Panel
    BY <1>1 DEF CallInv, OneConnection
  <2>3. Call'.phase = "done" /\ Call'.result = "ok" /\ Call'.response = workers[w].response
    BY <1>2, <1>7, <2>2 DEF WriteResponse, Typed, TypeOK, PipeTypeOK, Call, NoTransaction
  <2>4. /\ \A v \in Entries : ~Open(v)'
        /\ ~Holds /\ ~Holds' /\ Call.phase \in {"writing", "waiting"}
    BY <1>1, <1>4, <2>1 DEF CallInv, OneConnection, Open, Serving, Holds
  <2>5. \A v \in Entries : Serving(v)' => workers'[v].client = Panel
    BY <1>4, <2>1 DEF CallInv, OneConnection, Serving
  <2>6. CallInv'
    BY <2>3, <2>4, <2>5, EndOfCall
  <2>7. \A v \in Entries : Open(v) => v = w
    BY <2>1 DEF CallInv, OneConnection
  <2>8. Answers' = Answers /\ ~Failed /\ ~Failed'
    BY <2>1, <2>3, <2>4, <2>7 DEF Answers, Failed
  <2> QED BY <2>6, <2>8 DEF Conveys
<1> QED
  BY <1>5, <1>6, <1>7 DEF WorkerSteps, AbandonRead, FailWrite

LEMMA ClientStepsConvey ==
  ASSUME Typed, CallInv, ClientSteps(Panel) \/ GiveUp(Panel), panel'.active = panel.active
  PROVE  CallInv' /\ Conveys
<1>1. Panel \in Clients /\ Call \in TransactionsOf(Commands, Responses)
  BY ControlPanelAssumption DEF Typed, Answered, Call
<1>2. Call.phase \notin {"idle", "done"}
  BY DEF ClientSteps, Connect, ConnectFails, Send, GiveUp, Call
<1>3. CASE Connect(Panel)
  <2>1. /\ Call.phase = "connecting" /\ UNCHANGED workers
        /\ instance' = NewConnection(Panel)
    BY <1>3 DEF Connect, Call
  <2>2. Call'.phase = "writing" /\ Call'.request = Call.request
    BY <1>1, <1>3 DEF Connect, Call, Typed, TypeOK, PipeTypeOK, TransactionsOf
  <2>3. /\ instance'.client = Panel /\ instance'.phase = "reading" /\ instance'.request = NoRequest
        /\ instance'.open
    BY <2>1 DEF NewConnection
  <2>4. \A w \in Entries : ~Open(w) /\ ~Open(w)'
    BY <2>1 DEF CallInv, OneConnection, Open, Serving
  <2>5. CallInv'
    BY <1>2, <2>1, <2>2, <2>3, <2>4 DEF CallInv, OneConnection, CallIsActive, Serving, Carries
  <2>6. Answers = {} /\ Answers' = {} /\ ~Failed /\ ~Failed'
    BY <2>1, <2>2, <2>4 DEF Answers, Failed
  <2> QED BY <2>5, <2>6 DEF Conveys
<1>4. CASE ConnectFails(Panel)
  <2>1. Call.phase = "connecting" /\ UNCHANGED <<instance, workers>>
    BY <1>4 DEF ConnectFails, Call
  <2>2. Call'.phase = "done" /\ Call'.result = "connect_failed"
    BY <1>1, <1>4 DEF ConnectFails, Finish, Call, Typed, TypeOK, PipeTypeOK, TransactionsOf
  <2>3. (\A w \in Entries : ~Open(w)') /\ ~(Holds /\ instance.open)'
    BY <2>1 DEF CallInv, OneConnection, Open, Serving, Holds
  <2>4. CallInv'
    BY <1>2, <2>1, <2>2, <2>3, EndOfCall DEF Holds, CallInv, OneConnection, Serving
  <2>5. Answers' = {} /\ Failed'
    BY <2>2, <2>3 DEF Answers, Failed
  <2> QED BY <2>4, <2>5 DEF Conveys
<1>5. CASE Send(Panel)
  <2>1. Call.phase = "writing"
    BY <1>5 DEF Send, Call
  <2>2. Call'.phase = "waiting"
    BY <1>1, <1>5 DEF Send, Call, Typed, TypeOK, PipeTypeOK, TransactionsOf
  <2>3. Call.request = panel.active.command
    BY <2>1 DEF CallInv, CallIsActive
  <2> DEFINE Sent(k) == [k EXCEPT !.request = Call.request]
  <2>4. \A k \in ConnectionsOf(Commands, Responses) :
          /\ Sent(k).open = k.open /\ Sent(k).client = k.client /\ Sent(k).phase = k.phase
          /\ Sent(k).request = Call.request /\ Sent(k) \notin {Free, Ended, NoInstance, Listening}
    <3>1. Call.request \in Commands \union {NoRequest}
      BY <1>1 DEF TransactionsOf
    <3>2. \A k \in ConnectionsOf(Commands, Responses) : Sent(k) \in ConnectionsOf(Commands, Responses)
      BY <3>1 DEF ConnectionsOf
    <3> QED BY <3>2, PanelMarksAreNone DEF ConnectionsOf
  <2> HIDE DEF Sent
  <2>5. CASE InstanceOf(Panel)
    <3>1. Holds /\ instance.open /\ instance \in ConnectionsOf(Commands, Responses)
      BY <2>5 DEF InstanceOf, Holds, Typed, TypeOK, PipeTypeOK
    <3>2. instance' = Sent(instance) /\ UNCHANGED workers
      BY <1>5, <2>5 DEF Send, OnConnection, Sent, Call
    <3>3. \A w \in Entries : ~Open(w) /\ ~Open(w)'
      BY <3>1, <3>2 DEF CallInv, OneConnection, Open, Serving
    <3>4. CallInv'
      BY <1>2, <2>2, <2>3, <2>4, <3>1, <3>2, <3>3
         DEF CallInv, OneConnection, CallIsActive, Serving, Carries, Holds
    <3>5. Answers = {} /\ Answers' = {} /\ ~Failed /\ ~Failed'
      BY <2>1, <2>2, <3>3 DEF Answers, Failed
    <3> QED BY <3>4, <3>5 DEF Conveys
  <2>6. CASE ~InstanceOf(Panel)
    <3>1. ~(Holds /\ instance.open) /\ instance' = instance
      BY <1>5, <2>6 DEF InstanceOf, Send, OnConnection, Holds, CallInv, OneConnection
    <3>2. \A w \in Entries :
            workers'[w] = IF Serving(w) /\ workers[w].client = Panel /\ workers[w].open
                          THEN Sent(workers[w]) ELSE workers[w]
      BY <1>5, <2>6 DEF Send, OnConnection, Sent, Call
    <3>3. \A w \in Entries : Serving(w) => workers[w] \in ConnectionsOf(Commands, Responses)
      BY DEF Typed, TypeOK, PipeTypeOK, Serving
    <3>4. \A w \in Entries : Serving(w)' => Serving(w) /\ workers'[w].client = workers[w].client
      BY <2>4, <3>2, <3>3 DEF Serving
    <3>5. \A w \in Entries : /\ Open(w) => workers[w].phase = "reading"
                             /\ Open(w)' => /\ Open(w) /\ workers'[w].phase = workers[w].phase
                                            /\ workers'[w].request = Call.request
      BY <2>1, <2>4, <3>2, <3>3 DEF Serving, Open, CallInv, OneConnection, CallIsActive, Carries
    <3>6. CallInv'
      BY <1>2, <2>2, <2>3, <3>1, <3>4, <3>5
         DEF CallInv, OneConnection, CallIsActive, Carries, Holds
    <3>7. Answers = {} /\ Answers' = {} /\ ~Failed /\ ~Failed'
      BY <2>1, <2>2, <3>5 DEF Answers, Failed
    <3> QED BY <3>6, <3>7 DEF Conveys
  <2> QED BY <2>5, <2>6
<1>6. CASE GiveUp(Panel)
  <2>1. Call'.phase = "done" /\ Call'.result # "ok"
    BY <1>1, <1>6 DEF GiveUp, Finish, Call, Typed, TypeOK, PipeTypeOK, TransactionsOf
  <2> DEFINE Shut(k) == [k EXCEPT !.open = FALSE]
  <2>2. \A k \in ConnectionsOf(Commands, Responses) :
          /\ ~Shut(k).open /\ Shut(k).client = k.client /\ Shut(k).phase = k.phase
          /\ Shut(k) \notin {Free, Ended, NoInstance, Listening}
    <3>1. \A k \in ConnectionsOf(Commands, Responses) : Shut(k) \in ConnectionsOf(Commands, Responses)
      BY DEF ConnectionsOf
    <3> QED BY <3>1, PanelMarksAreNone DEF ConnectionsOf
  <2> HIDE DEF Shut
  <2>3. /\ \A w \in Entries : ~Open(w)' /\ (Serving(w)' => workers'[w].client = Panel)
        /\ Holds' => instance'.client = Panel /\ instance'.phase = "reading" /\ ~instance'.open
    <3>1. CASE InstanceOf(Panel)
      <4>1. Holds /\ instance.open /\ instance \in ConnectionsOf(Commands, Responses)
        BY <3>1 DEF InstanceOf, Holds, Typed, TypeOK, PipeTypeOK
      <4>2. instance' = Shut(instance) /\ UNCHANGED workers
        BY <1>6, <3>1 DEF GiveUp, OnConnection, Shut
      <4> QED BY <2>2, <4>1, <4>2 DEF CallInv, OneConnection, Open, Serving, Holds
    <3>2. CASE ~InstanceOf(Panel)
      <4>1. ~(Holds /\ instance.open) /\ instance' = instance
        BY <1>6, <3>2 DEF InstanceOf, GiveUp, OnConnection, Holds, CallInv, OneConnection
      <4>2. \A w \in Entries :
              workers'[w] = IF Serving(w) /\ workers[w].client = Panel /\ workers[w].open
                            THEN Shut(workers[w]) ELSE workers[w]
        BY <1>6, <3>2 DEF GiveUp, OnConnection, Shut
      <4>3. \A w \in Entries : Serving(w) => workers[w] \in ConnectionsOf(Commands, Responses)
        BY DEF Typed, TypeOK, PipeTypeOK, Serving
      <4> QED BY <2>2, <4>1, <4>2, <4>3 DEF CallInv, OneConnection, Open, Serving, Holds
    <3> QED BY <3>1, <3>2
  <2>4. CallInv'
    BY <1>2, <2>1, <2>3, EndOfCall
  <2>5. Answers' = {} /\ Failed'
    BY <2>1, <2>3 DEF Answers, Failed
  <2> QED BY <2>4, <2>5 DEF Conveys
<1> QED
  BY <1>3, <1>4, <1>5, <1>6 DEF ClientSteps

LEMMA ServerStepsConvey ==
  ASSUME Typed, CallInv, ServerSteps \/ ProcessDies \/ StartServer \/ UNCHANGED pipeVars,
         panel'.active = panel.active
  PROVE  CallInv' /\ Conveys
<1>1. CASE Accept
  <2> DEFINE full == \A w \in Entries : Active(w)
             reap == [w \in Entries |-> IF workers[w] = Ended THEN Free ELSE workers[w]]
             given == [reap EXCEPT ![FreeEntry] = instance]
  <2>1. Holds /\ instance' = Listening /\ ~Holds'
    BY <1>1 DEF Accept, Holds
  <2>2. instance.client = Panel /\ instance.phase = "reading" /\ \A w \in Entries : ~Open(w)
    BY <2>1 DEF CallInv, OneConnection
  <2>3. \A w \in Entries : reap[w] \in {Free, workers[w]}
    OBVIOUS
  <2>4. IF full THEN workers' = reap /\ transaction' = ClosedFor({instance})
        ELSE workers' = given /\ UNCHANGED transaction
    BY <1>1 DEF Accept
  <2> HIDE DEF full
  <2>5. CASE full
    <3>1. \A w \in Entries : ~Open(w)' /\ (Serving(w)' => workers'[w].client = Panel)
      BY <2>2, <2>3, <2>4, <2>5 DEF Open, Serving, CallInv, OneConnection
    <3>2. CASE instance.open
      <4>1. Call'.phase = "done" /\ Call'.result = "pipe_failed" /\ Call.phase # "idle"
        BY <2>1, <2>2, <2>4, <2>5, <3>2, CallCloses DEF CallInv, OneConnection
      <4>2. CallInv'
        BY <2>1, <3>1, <4>1, EndOfCall
      <4>3. Answers' = {} /\ Failed'
        BY <3>1, <4>1 DEF Answers, Failed
      <4> QED BY <4>2, <4>3 DEF Conveys
    <3>3. CASE ~instance.open
      <4>1. Call' = Call
        BY <2>4, <2>5, <3>3, CallCloses
      <4>2. CallInv'
        BY <2>1, <3>1, <4>1 DEF CallInv, OneConnection, CallIsActive
      <4>3. Answers' = Answers /\ Failed' = Failed
        BY <2>2, <3>1, <4>1 DEF Answers, Failed
      <4> QED BY <4>2, <4>3 DEF Conveys
    <3> QED BY <3>2, <3>3
  <2>6. CASE ~full
    <3>1. \A w \in Entries : workers'[w] = IF w = FreeEntry THEN instance ELSE reap[w]
      BY <2>4, <2>6
    <3>2. \A w \in Entries :
            /\ Open(w)' => w = FreeEntry /\ workers'[w] = instance /\ instance.open
            /\ Serving(w)' => workers'[w].client = Panel
      BY <2>2, <2>3, <3>1 DEF Open, Serving, CallInv, OneConnection
    <3>3. Call' = Call
      BY <2>4, <2>6 DEF Call
    <3>4. CallInv'
      BY <2>1, <2>2, <3>2, <3>3 DEF CallInv, OneConnection, CallIsActive, Carries
    <3>5. Answers' = Answers /\ Failed' = Failed
      BY <2>2, <3>2, <3>3 DEF Answers, Failed
    <3> QED BY <3>4, <3>5 DEF Conveys
  <2> QED BY <2>5, <2>6
<1>2. CASE StopReturns \/ ProcessDies
  <2>1. workers' = Empty /\ instance' = NoInstance /\ transaction' = ClosedFor(Connections)
    BY <1>2 DEF StopReturns, ProcessDies
  <2>2. (\A w \in Entries : ~Open(w)' /\ ~Serving(w)') /\ ~Holds'
    BY <2>1 DEF Empty, Open, Serving, Holds
  <2>3. CASE \E k \in Connections : k.open /\ k.client = Panel
    <3>1. Call'.phase = "done" /\ Call'.result = "pipe_failed"
      BY <2>1, <2>3, CallCloses
    <3>2. Call.phase # "idle"
      <4>1. (Holds /\ instance.open) \/ \E w \in Entries : Open(w)
        BY <2>3 DEF Connections, Holds, Open
      <4> QED BY <4>1 DEF CallInv, OneConnection
    <3>3. CallInv'
      BY <2>2, <3>1, <3>2, EndOfCall
    <3>4. Answers' = {} /\ Failed'
      BY <2>2, <3>1 DEF Answers, Failed
    <3> QED BY <3>3, <3>4 DEF Conveys
  <2>4. CASE ~\E k \in Connections : k.open /\ k.client = Panel
    <3>1. Call' = Call
      BY <2>1, <2>4, CallCloses
    <3>2. CallInv'
      BY <2>2, <3>1 DEF CallInv, OneConnection, CallIsActive
    <3>3. \A w \in Entries : ~Open(w)
      BY <2>4 DEF Connections, Open, CallInv, OneConnection
    <3>4. Answers' = Answers /\ Failed' = Failed
      BY <2>2, <3>1, <3>3 DEF Answers, Failed
    <3> QED BY <3>2, <3>4 DEF Conveys
  <2> QED BY <2>3, <2>4
<1>3. CASE StartServer \/ UNCHANGED pipeVars
  <2>1. UNCHANGED <<workers, transaction>> /\ (UNCHANGED instance \/ instance' = Listening)
    BY <1>3 DEF StartServer, pipeVars
  <2>2. Call' = Call /\ (Holds' => UNCHANGED instance /\ Holds) /\ \A w \in Entries : Open(w)' = Open(w)
    BY <2>1 DEF Call, Holds, Open, Serving
  <2>3. CallInv'
    BY <2>1, <2>2 DEF CallInv, OneConnection, CallIsActive, Carries, Serving
  <2>4. Answers' = Answers /\ Failed' = Failed
    BY <2>1, <2>2 DEF Answers, Failed
  <2> QED BY <2>3, <2>4 DEF Conveys
<1> QED
  BY <1>1, <1>2, <1>3 DEF ServerSteps


\* The handler's answer to the panel is the only one there is.
LEMMA HandlerAnswers ==
  ASSUME Typed, CallInv, NEW w \in Entries, Handle(w)
  PROVE  /\ CallInv' /\ Failed' = Failed
         /\ ~Open(w) => Answers' = Answers
         /\ Open(w) => /\ Answers = {} /\ ~Failed /\ Answers' = {workers'[w].response}
                       /\ panel.active # NoCommand /\ workers[w].request = panel.active.command
<1> DEFINE Replied(status) == [workers[w] EXCEPT !.phase = "writing", !.request = NoRequest,
                                                 !.response = Answer(status, workers[w].request)]
<1>1. Serving(w) /\ workers[w].phase = "handling" /\ UNCHANGED <<instance, transaction, panel>>
  BY DEF Handle, AtPhase
<1>2. workers[w] \in ConnectionsOf(Commands, Responses) /\ workers[w].client = Panel
  BY <1>1 DEF Typed, TypeOK, PipeTypeOK, Serving, CallInv, OneConnection
<1>3. PICK status \in {"Accepted", "Rejected"} : workers' = [workers EXCEPT ![w] = Replied(status)]
  BY DEF Handle
<1>4. Typed' /\ workers'[w] = Replied(status)
  BY <1>3, HandlerKeepsTypes DEF Typed, TypeOK, PipeTypeOK
<1>5. /\ Serving(w)' /\ workers'[w].phase = "writing" /\ workers'[w].open = workers[w].open
      /\ workers'[w].client = Panel
  <2> DEFINE answer == Answer(status, workers[w].request)
             k == [workers[w] EXCEPT !.phase = "writing", !.request = NoRequest, !.response = answer]
  <2>1. answer \in Responses
    BY <1>3 DEF answer, Answer, Responses, Typed, TypeOK
  <2> HIDE DEF answer
  <2>2. k \in ConnectionsOf(Commands, Responses) /\ k.phase = "writing" /\ k.open = workers[w].open
        /\ k.client = Panel
    BY <1>2, <2>1 DEF ConnectionsOf
  <2>3. workers'[w] = k
    BY <1>4 DEF answer
  <2> HIDE DEF k
  <2> QED BY <2>2, <2>3, PanelMarksAreNone DEF Serving
<1>6. workers'[w].response \in Responses
  BY <1>4, <1>5, PanelMarksAreNone DEF Typed, TypeOK, PipeTypeOK, Serving, Serves, ConnectionsOf
<1>7. \A v \in Entries \ {w} : workers'[v] = workers[v]
  BY <1>3 DEF Typed, TypeOK, PipeTypeOK
<1>8. Call' = Call /\ \A v \in Entries : Open(v)' = Open(v) /\ Serving(v)' = Serving(v)
  BY <1>1, <1>5, <1>7 DEF Call, Open, Serving
<1>9. Open(w) => Call.phase = "waiting" /\ \A v \in Entries : Open(v) => v = w
  BY <1>1 DEF CallInv, OneConnection, CallIsActive, Carries
<1>10. CallInv'
  BY <1>1, <1>2, <1>5, <1>7, <1>8, <1>9
     DEF CallInv, OneConnection, CallIsActive, Carries, Holds
<1>11. Failed' = Failed /\ (~Open(w) => Answers' = Answers)
  BY <1>7, <1>8 DEF Failed, Answers
<1>12. ASSUME Open(w)
       PROVE  /\ Answers = {} /\ ~Failed /\ Answers' = {workers'[w].response}
              /\ panel.active # NoCommand /\ workers[w].request = panel.active.command
  BY <1>1, <1>5, <1>6, <1>8, <1>9, <1>12 DEF Answers, Failed, CallInv, CallIsActive, Carries
<1> QED BY <1>10, <1>11, <1>12

\* The panel begins a call when it has none.
LEMMA CallFollowsPanel ==
  ASSUME Typed, CallInv, NEW at, Becomes(at), panel.active # NoCommand => at.active = panel.active
  PROVE  /\ CallInv' /\ Answers' = Answers /\ Failed' = Failed
         /\ panel.active = NoCommand => Answers = {} /\ ~Failed
<1>1. panel' = at /\ UNCHANGED <<instance, workers>>
  BY DEF Becomes
<1>2. \A w \in Entries : Open(w)' = Open(w)
  BY <1>1 DEF Open, Serving
<1>3. CASE panel.active # NoCommand
  <2>1. Call' = Call /\ panel'.active = panel.active
    BY <1>1, <1>3 DEF Becomes, Call
  <2>2. CallInv'
    BY <1>1, <1>2, <2>1 DEF CallInv, OneConnection, CallIsActive, Carries, Holds, Serving
  <2>3. Answers' = Answers /\ Failed' = Failed
    BY <1>1, <1>2, <2>1 DEF Answers, Failed
  <2> QED BY <1>3, <2>2, <2>3
<1>4. CASE panel.active = NoCommand
  <2>1. Call.phase = "idle" /\ ~(Holds /\ instance.open) /\ \A w \in Entries : ~Open(w)
    BY <1>4 DEF CallInv, OneConnection, CallIsActive
  <2>2. \/ at.active = NoCommand /\ Call' = Call
        \/ at.active # NoCommand /\ Call'.phase = "connecting" /\ Call'.request = at.active.command
    BY <1>4, ControlPanelAssumption
       DEF Becomes, Begin, Call, NoTransaction, Typed, TypeOK, PipeTypeOK
  <2>3. CallInv'
    BY <1>1, <1>2, <2>1, <2>2 DEF CallInv, OneConnection, CallIsActive, Holds, Serving
  <2>4. Answers = {} /\ Answers' = {} /\ ~Failed /\ Failed' = Failed
    BY <1>2, <2>1, <2>2 DEF Answers, Failed
  <2> QED BY <1>4, <2>3, <2>4
<1> QED BY <1>3, <1>4

\* Nothing is left of a call that has finished.
LEMMA CallFinishes ==
  ASSUME Typed, CallInv, TransactionFinished
  PROVE  /\ CallInv' /\ Answers' = {} /\ ~Failed'
         /\ Call.result = "ok" => Call.response \in Responses /\ Answers = {Call.response}
<1>1. panel.active # NoCommand /\ Call.phase = "done" /\ UNCHANGED <<instance, workers>>
  BY DEF TransactionFinished, Call
<1>2. ~(Holds /\ instance.open) /\ \A w \in Entries : ~Open(w) /\ ~Open(w)'
  BY <1>1 DEF CallInv, OneConnection, Open, Serving
<1>3. \/ panel'.active = NoCommand /\ Call'.phase = "idle"
      \/ /\ panel'.active # NoCommand
         /\ Call'.phase = "connecting" /\ Call'.request = panel'.active.command
  <2> DEFINE at == StartNext(Applied([panel EXCEPT !.active = NoCommand], panel.active, transaction[Panel]))
  <2>1. /\ panel' = at
        /\ transaction' = [transaction EXCEPT ![Panel] =
             IF at.active = NoCommand THEN NoTransaction
             ELSE [NoTransaction EXCEPT !.phase = "connecting", !.request = at.active.command]]
    BY DEF TransactionFinished
  <2> HIDE DEF at
  <2> QED BY <2>1, ControlPanelAssumption DEF Call, NoTransaction, Typed, TypeOK, PipeTypeOK
<1>4. CallInv'
  BY <1>1, <1>2, <1>3 DEF CallInv, OneConnection, CallIsActive, Holds, Serving
<1>5. Answers' = {} /\ ~Failed'
  BY <1>2, <1>3 DEF Answers, Failed
<1>6. Call.result = "ok" => Call.response \in Responses
  BY ControlPanelAssumption DEF Typed, Answered, TransactionsOf, Call
<1>7. Call.result = "ok" => Answers = {Call.response}
  BY <1>1, <1>2, <1>6 DEF Answers
<1> QED BY <1>4, <1>5, <1>6, <1>7


-----------------------------------------------------------------------------
(* One edit at a time. *)

\* No edit is under way when the panel is not busy.
LEMMA NotBusyHasNoEdit ==
  ASSUME Typed, InOrder(panel), ~Busy
  PROVE  /\ ~EditIsActive
         /\ \A i \in DOMAIN panel.queued : ~Edit(panel.queued[i])
<1>1. /\ panel.queued \in Seq(QueuedCommands)
      /\ \A i \in DOMAIN panel.queued : panel.queued[i] \in QueuedCommands
  BY ElementOfSeq DEF Typed, TypeOK, Panels
<1>2. \A i \in DOMAIN panel.queued : panel.queued[i] \in Range(panel.queued)
  BY DEF Range
<1> QED
  BY <1>1, <1>2, PanelMarksAreNone DEF Busy, InOrder, WellFormed, EditIsActive

\* A command may join when it is no edit, when it sets a gain, or when no edit is under way.
MayJoin(at, q) ==
  /\ WellFormed(at, q)
  /\ Edit(q) /\ q.command.type # "SetGain" =>
       /\ at.active # NoCommand => ~Edit(at.active)
       /\ \A i \in DOMAIN at.queued : ~Edit(at.queued[i])

LEMMA GainTakesPlace ==
  ASSUME NEW at \in Panels, NEW q, NEW e, InOrder(at), Joins(at, q, e), GainsQueued(at, q) # {},
         at.active # NoCommand
  PROVE  /\ q.command.type = "SetGain" /\ Edit(q) /\ e.active = at.active
         /\ \E i \in GainsQueued(at, q) :
              Edit(at.queued[i]) /\ e.queued = [at.queued EXCEPT ![i] = WithGain(at.queued[i], q)]
<1>1. q.command.type = "SetGain" /\ Edit(q) /\ \A j \in GainsQueued(at, q) : Edit(at.queued[j])
  BY DEF GainsQueued, SameGain, Edit, Mutates
<1>2. PICK j : GainsQueued(at, q) = {j}
  <2>1. PICK j : j \in GainsQueued(at, q)
    OBVIOUS
  <2>2. GainsQueued(at, q) = {j}
    BY <1>1, <2>1 DEF InOrder, GainsQueued, SameGain
  <2> QED BY <2>2
<1>3. /\ e.active = at.active
      /\ \E i : /\ e.queued = [at.queued EXCEPT ![i] = WithGain(at.queued[i], q)]
                /\ i \in GainsQueued(at, q)
  BY <1>2 DEF Joins
<1> QED BY <1>1, <1>3

\* How a queue is after a command has joined it: alone, last, or in the place of an earlier gain.
JoinsLast(at, q, e) ==
  /\ e.active = at.active /\ GainsQueued(at, q) = {}
  /\ \E n \in Nat : /\ DOMAIN at.queued = 1 .. n /\ DOMAIN e.queued = 1 .. n + 1
                    /\ e.queued[n + 1] = q
                    /\ \A i \in 1 .. n : e.queued[i] = at.queued[i]

TakesPlace(at, q, e) ==
  /\ e.active = at.active /\ DOMAIN e.queued = DOMAIN at.queued
  /\ \E i \in DOMAIN at.queued :
       /\ e.queued[i].command = q.command /\ SameGain(at.queued[i].command, q.command)
       /\ e.queued[i].action = at.queued[i].action /\ e.queued[i].poll = at.queued[i].poll
       /\ \A j \in DOMAIN at.queued \ {i} : e.queued[j] = at.queued[j]

LEMMA WaysToJoin ==
  ASSUME NEW at \in Panels, NEW q \in QueuedCommands, NEW e, InOrder(at), Joins(at, q, e)
  PROVE  \/ e.active = q /\ DOMAIN e.queued = {}
         \/ JoinsLast(at, q, e)
         \/ TakesPlace(at, q, e)
<1>1. at.queued \in Seq(QueuedCommands) /\ DOMAIN at.queued = 1 .. Len(at.queued)
      /\ \A i \in DOMAIN at.queued : at.queued[i] \in QueuedCommands
  BY ElementOfSeq DEF Panels
<1>2. CASE e.active = q /\ e.queued = <<>>
  <2>1. DOMAIN e.queued = {}
    BY <1>2
  <2> QED BY <1>2, <2>1
<1>3. CASE /\ at.active # NoCommand /\ GainsQueued(at, q) = {}
           /\ e.active = at.active /\ e.queued = Append(at.queued, q)
  <2> DEFINE n == Len(at.queued)
  <2>1. /\ n \in Nat /\ DOMAIN e.queued = 1 .. n + 1 /\ e.queued[n + 1] = q
        /\ \A i \in 1 .. n : e.queued[i] = at.queued[i]
    BY <1>1, <1>3, AppendProperties, LenProperties
  <2>2. DOMAIN at.queued = 1 .. n
    BY <1>1
  <2> HIDE DEF n
  <2> QED BY <1>3, <2>1, <2>2 DEF JoinsLast
<1>4. CASE at.active # NoCommand /\ GainsQueued(at, q) # {}
  <2>1. q.command.type = "SetGain" /\ e.active = at.active
    BY <1>4, GainTakesPlace
  <2>2. PICK i \in GainsQueued(at, q) : e.queued = [at.queued EXCEPT ![i] = WithGain(at.queued[i], q)]
    BY <1>4, GainTakesPlace
  <2> DEFINE old == at.queued[i]
             new == WithGain(old, q)
  <2>3. i \in DOMAIN at.queued /\ old \in QueuedCommands /\ SameGain(old.command, q.command)
    BY <1>1 DEF GainsQueued
  <2>4. new.command = q.command /\ new.action = old.action /\ new.poll = old.poll
    BY <2>1, <2>3, GainReplaced
  <2>5. DOMAIN e.queued = DOMAIN at.queued /\ e.queued[i] = new
        /\ \A j \in DOMAIN at.queued \ {i} : e.queued[j] = at.queued[j]
    BY <2>2, <2>3
  <2> HIDE DEF new
  <2> QED BY <2>1, <2>3, <2>4, <2>5 DEF TakesPlace
<1> QED BY <1>2, <1>3, <1>4 DEF Joins

LEMMA JoiningKeepsOrder ==
  ASSUME NEW at \in Panels, NEW q \in QueuedCommands, NEW e,
         InOrder(at), MayJoin(at, q), SameHistory(at, e), Joins(at, q, e)
  PROVE  InOrder(e)
<1>1. \A x : WellFormed(at, x) => WellFormed(e, x)
  BY DEF SameHistory, WellFormed
<1>2. CASE e.active = q /\ DOMAIN e.queued = {}
  BY <1>1, <1>2 DEF InOrder, MayJoin
<1>3. CASE JoinsLast(at, q, e)
  <2>1. PICK n \in Nat : /\ DOMAIN at.queued = 1 .. n /\ DOMAIN e.queued = 1 .. n + 1
                         /\ e.queued[n + 1] = q
                         /\ \A i \in 1 .. n : e.queued[i] = at.queued[i]
    BY <1>3 DEF JoinsLast
  <2>2. e.active = at.active /\ \A i \in DOMAIN at.queued : ~SameGain(at.queued[i].command, q.command)
    BY <1>3 DEF JoinsLast, GainsQueued
  <2>3. \A i \in DOMAIN e.queued : i = n + 1 \/ (i \in DOMAIN at.queued /\ e.queued[i] = at.queued[i])
    BY <2>1
  <2>4. \A i \in DOMAIN e.queued : WellFormed(e, e.queued[i])
    BY <1>1, <2>1, <2>3 DEF InOrder, MayJoin
  <2>5. e.active # NoCommand => WellFormed(e, e.active)
    BY <1>1, <2>2 DEF InOrder
  <2>6. ASSUME NEW i \in DOMAIN e.queued, NEW j \in DOMAIN e.queued, i < j,
               Edit(e.queued[i]), Edit(e.queued[j])
        PROVE  e.queued[j].command.type = "SetGain"
    <3>1. i # n + 1
      BY <2>1, <2>6
    <3>2. i \in DOMAIN at.queued /\ e.queued[i] = at.queued[i]
      BY <2>3, <3>1
    <3>3. CASE j = n + 1
      BY <2>1, <2>6, <3>2, <3>3 DEF MayJoin
    <3>4. CASE j # n + 1
      BY <2>3, <2>6, <3>2, <3>4 DEF InOrder
    <3> QED BY <3>3, <3>4
  <2>7. \A i \in DOMAIN e.queued : e.active # NoCommand /\ Edit(e.active) /\ Edit(e.queued[i])
                                     => e.queued[i].command.type = "SetGain"
    BY <2>1, <2>2, <2>3 DEF InOrder, MayJoin
  <2>8. \A i, j \in DOMAIN e.queued : SameGain(e.queued[i].command, e.queued[j].command) => i = j
    <3>1. \A i \in DOMAIN at.queued : ~SameGain(q.command, at.queued[i].command)
      BY <2>2 DEF SameGain
    <3> QED BY <2>1, <2>2, <2>3, <3>1 DEF InOrder
  <2> QED BY <2>4, <2>5, <2>6, <2>7, <2>8 DEF InOrder
<1>4. CASE TakesPlace(at, q, e)
  <2>1. PICK i \in DOMAIN at.queued :
          /\ e.queued[i].command = q.command /\ SameGain(at.queued[i].command, q.command)
          /\ e.queued[i].action = at.queued[i].action /\ e.queued[i].poll = at.queued[i].poll
          /\ \A j \in DOMAIN at.queued \ {i} : e.queued[j] = at.queued[j]
    BY <1>4 DEF TakesPlace
  <2>2. e.active = at.active /\ DOMAIN e.queued = DOMAIN at.queued
    BY <1>4 DEF TakesPlace
  <2>3. WellFormed(at, at.queued[i]) /\ Edit(at.queued[i]) /\ Edit(e.queued[i])
        /\ e.queued[i].command.type = "SetGain" /\ at.queued[i].command.type = "SetGain"
        /\ e.queued[i].command.route = at.queued[i].command.route
    BY <2>1 DEF InOrder, SameGain, Edit, Mutates
  <2>4. WellFormed(e, e.queued[i])
    BY <2>1, <2>3 DEF WellFormed, Edit
  <2>5. \A j \in DOMAIN e.queued : WellFormed(e, e.queued[j])
    BY <1>1, <2>1, <2>2, <2>4 DEF InOrder
  <2>6. \A j \in DOMAIN e.queued : (Edit(e.queued[j]) <=> Edit(at.queued[j]))
                                  /\ e.queued[j].command.type = at.queued[j].command.type
    BY <2>1, <2>2, <2>3
  <2>7. \A j, k \in DOMAIN e.queued : SameGain(e.queued[j].command, e.queued[k].command)
                                        => SameGain(at.queued[j].command, at.queued[k].command)
    BY <2>1, <2>2, <2>3 DEF SameGain
  <2>8. e.active # NoCommand => WellFormed(e, e.active)
    BY <1>1, <2>2 DEF InOrder
  <2> QED BY <2>2, <2>5, <2>6, <2>7, <2>8 DEF InOrder
<1> QED BY <1>2, <1>3, <1>4, WaysToJoin

\* Unless it overlaps, a command that joins leaves one edit under way.
LEMMA JoiningKeepsOneEdit ==
  ASSUME NEW q \in QueuedCommands, NEW e, panel \in Panels,
         InOrder(panel), OneEdit(panel), ~Overlaps(q), Joins(panel, q, e)
  PROVE  OneEdit(e)
<1>1. \A i \in DOMAIN panel.queued : panel.queued[i] \in Range(panel.queued) /\ panel.queued[i] # NoCommand
  BY ElementOfSeq, PanelMarksAreNone DEF Panels, Range
<1>2. Edit(q) =>
        /\ panel.active # NoCommand /\ Edit(panel.active) => SameGain(panel.active.command, q.command)
        /\ \A i \in DOMAIN panel.queued : Edit(panel.queued[i]) => SameGain(panel.queued[i].command, q.command)
  BY <1>1 DEF Overlaps, Edit
<1>3. CASE e.active = q /\ DOMAIN e.queued = {}
  BY <1>3 DEF OneEdit
<1>4. CASE JoinsLast(panel, q, e)
  <2>1. PICK n \in Nat : /\ DOMAIN panel.queued = 1 .. n /\ DOMAIN e.queued = 1 .. n + 1
                         /\ e.queued[n + 1] = q
                         /\ \A i \in 1 .. n : e.queued[i] = panel.queued[i]
    BY <1>4 DEF JoinsLast
  <2>2. e.active = panel.active /\ \A i \in DOMAIN panel.queued : ~SameGain(panel.queued[i].command, q.command)
    BY <1>4 DEF JoinsLast, GainsQueued
  <2>3. \A i \in DOMAIN e.queued : i = n + 1 \/ (i \in DOMAIN panel.queued /\ e.queued[i] = panel.queued[i])
    BY <2>1
  <2>4. Edit(q) => \A i \in DOMAIN panel.queued : ~Edit(panel.queued[i])
    BY <1>2, <2>2
  <2>5. \A i, j \in DOMAIN e.queued : Edit(e.queued[i]) /\ Edit(e.queued[j]) => i = j
    BY <2>1, <2>3, <2>4 DEF OneEdit
  <2>6. \A i \in DOMAIN e.queued : e.active # NoCommand /\ Edit(e.active) /\ Edit(e.queued[i])
                                     => SameGain(e.active.command, e.queued[i].command)
    BY <1>2, <2>1, <2>2, <2>3 DEF OneEdit
  <2> QED BY <2>5, <2>6 DEF OneEdit
<1>5. CASE TakesPlace(panel, q, e)
  <2>1. PICK i \in DOMAIN panel.queued :
          /\ e.queued[i].command = q.command /\ SameGain(panel.queued[i].command, q.command)
          /\ \A j \in DOMAIN panel.queued \ {i} : e.queued[j] = panel.queued[j]
    BY <1>5 DEF TakesPlace
  <2>2. e.active = panel.active /\ DOMAIN e.queued = DOMAIN panel.queued
    BY <1>5 DEF TakesPlace
  <2>3. Edit(panel.queued[i]) /\ Edit(e.queued[i]) /\ Edit(q)
    BY <2>1 DEF SameGain, Edit, Mutates
  <2>4. \A j \in DOMAIN e.queued : Edit(e.queued[j]) <=> Edit(panel.queued[j])
    BY <2>1, <2>2, <2>3
  <2>5. \A j \in DOMAIN e.queued : e.active # NoCommand /\ Edit(e.active) /\ Edit(e.queued[j])
                                     => SameGain(e.active.command, e.queued[j].command)
    BY <1>2, <2>1, <2>2, <2>3 DEF OneEdit
  <2> QED BY <2>2, <2>4, <2>5 DEF OneEdit
<1> QED BY <1>3, <1>4, <1>5, WaysToJoin

LEMMA OfferedMayJoin ==
  ASSUME Typed, InOrder(panel), NEW q \in QueuedCommands, Offered(q)
  PROVE  MayJoin(panel, q)
<1>0. /\ panel \in Panels /\ View \in Presets \union {NoPreset}
      /\ \A i \in DOMAIN panel.queued : panel.queued[i] \in QueuedCommands
  BY ElementOfSeq DEF Typed, TypeOK, Panels, View
<1>1. CASE \E c \in RouteEdits : OffersEdit(q, c)
  <2>1. PICK c \in RouteEdits : OffersEdit(q, c)
    BY <1>1
  <2>2. c \in Commands /\ c.type \in {"ConnectRoute", "DisconnectRoute", "SetGain", "SetMute"}
    BY DEF RouteEdits
  <2>3. View \in Presets /\ ApplyCommand(View, c) # Refused
    <3>1. View \in Presets
      BY <1>0, <2>1 DEF OffersEdit
    <3>2. c.type = "ConnectRoute" <=> View[c.route] = Absent
      BY <2>1 DEF OffersEdit
    <3>3. c.route \in Routes
      BY <2>2 DEF Commands
    <3>4. CASE c.type = "ConnectRoute"
      <4>1. ApplyCommand(View, c) = [View EXCEPT ![c.route] = [gain |-> UnityGain, muted |-> FALSE]]
        BY <3>2, <3>4 DEF ApplyCommand
      <4>2. [gain |-> UnityGain, muted |-> FALSE] \in RoutesWith
        BY ControlPanelAssumption DEF RoutesWith
      <4>3. ApplyCommand(View, c) \in Presets
        BY <3>1, <4>1, <4>2 DEF Presets
      <4> QED BY <3>1, <4>3, PanelMarksAreNone DEF Refused
    <3>5. CASE c.type # "ConnectRoute"
      <4> DEFINE route == CASE c.type = "DisconnectRoute" -> Absent
                            [] c.type = "SetGain" -> [View[c.route] EXCEPT !.gain = c.gain]
                            [] c.type = "SetMute" -> [View[c.route] EXCEPT !.muted = c.mute]
      <4>1. ApplyCommand(View, c) = [View EXCEPT ![c.route] = route]
        BY <2>2, <3>2, <3>5 DEF ApplyCommand
      <4>2. View[c.route] \in RoutesWith
        BY <3>1, <3>2, <3>3, <3>5 DEF Presets
      <4>3. route \in RoutesWith \union {Absent}
        <5>1. c.type = "SetGain" => c.gain \in Gains
          BY <2>2 DEF Commands
        <5>2. c.type = "SetMute" => c.mute \in BOOLEAN
          BY <2>2 DEF Commands
        <5> QED BY <2>2, <3>5, <4>2, <5>1, <5>2 DEF RoutesWith
      <4> HIDE DEF route
      <4>4. ApplyCommand(View, c) \in Presets
        BY <3>1, <4>1, <4>3 DEF Presets
      <4> QED BY <3>1, <4>4, PanelMarksAreNone DEF Refused
    <3> QED BY <3>1, <3>4, <3>5
  <2>4. q.command = c /\ ~q.poll /\ q.action = "Record"
    BY <1>0, <2>1, <2>2, <2>3, RecordedIsTyped, PanelMarksAreNone DEF OffersEdit
  <2>5. WellFormed(panel, q) /\ Edit(q)
    BY <2>2, <2>4 DEF WellFormed, Edit, Mutates
  <2>6. CASE c.type = "SetGain"
    BY <2>4, <2>5, <2>6 DEF MayJoin
  <2>7. CASE c.type # "SetGain"
    <3>1. ~EditIsActive /\ \A i \in DOMAIN panel.queued : ~Edit(panel.queued[i])
      BY <2>1, <2>7, NotBusyHasNoEdit DEF OffersEdit
    <3> QED BY <2>5, <3>1 DEF MayJoin, EditIsActive
  <2> QED BY <2>6, <2>7
<1>2. CASE q.action = "None" /\ ~Mutates(q.command)
  BY <1>2 DEF MayJoin, WellFormed, Edit
<1>3. CASE OffersLoad(q)
  <2>1. ~EditIsActive /\ \A i \in DOMAIN panel.queued : ~Edit(panel.queued[i])
    BY <1>3, NotBusyHasNoEdit DEF OffersLoad
  <2>2. WellFormed(panel, q)
    BY <1>3 DEF OffersLoad, WellFormed, Edit, Mutates
  <2> QED BY <2>1, <2>2 DEF MayJoin, EditIsActive
<1> QED BY <1>1, <1>2, <1>3 DEF Offered


\* Where an edit that was accepted leads the panel.
Led(q, e) ==
  /\ q.action = "Record" => e.view = q.entry.after /\ e.last = "Record" /\ Last(e.undo) = q.entry
  /\ q.action = "Undo" => e.view = q.entry.before /\ e.last = "Undo" /\ Last(e.redo) = q.entry
  /\ q.action = "Redo" => e.view = q.entry.after /\ e.last = "Redo" /\ Last(e.undo) = q.entry
  /\ q.action = "Reset" => e.view = q.command.preset /\ e.last = "Reset"

\* The first command of the queue is the next that is active.
MovesOn(at, e) ==
  /\ e.active # NoCommand => 1 \in DOMAIN at.queued /\ e.active = at.queued[1]
  /\ \A i \in DOMAIN e.queued :
       i \in Nat \ {0} /\ i + 1 \in DOMAIN at.queued /\ e.queued[i] = at.queued[i + 1]

LEMMA QueueMovesOn ==
  ASSUME NEW at \in Panels, at.active = NoCommand
  PROVE  MovesOn(at, StartNext(at))
<1> DEFINE e == StartNext(at)
<1>1. at.queued \in Seq(QueuedCommands) /\ Len(at.queued) \in Nat /\ DOMAIN at.queued = 1 .. Len(at.queued)
  BY LenProperties DEF Panels
<1>2. CASE at.queued = <<>>
  <2>1. e = at
    BY <1>2, NextIsFirstQueued
  <2>2. DOMAIN e.queued = {} /\ e.active = NoCommand
    BY <1>2, <2>1
  <2> HIDE DEF e
  <2> QED BY <2>2 DEF MovesOn, e
<1>3. CASE at.queued # <<>>
  <2>1. e.active = Head(at.queued) /\ e.queued = Tail(at.queued)
    BY <1>3, NextIsFirstQueued
  <2>2. Len(at.queued) # 0 /\ Head(at.queued) = at.queued[1]
    BY <1>1, <1>3, EmptySeq
  <2>3. /\ Tail(at.queued) \in Seq(QueuedCommands) /\ Len(Tail(at.queued)) = Len(at.queued) - 1
        /\ \A i \in 1 .. Len(Tail(at.queued)) : Tail(at.queued)[i] = at.queued[i + 1]
    BY <1>1, <1>3, HeadTailProperties
  <2>4. DOMAIN Tail(at.queued) = 1 .. Len(at.queued) - 1
    BY <2>3, LenProperties
  <2> DEFINE rest == Tail(at.queued)
             n == Len(at.queued)
  <2>5. /\ e.active = at.queued[1] /\ e.queued = rest /\ n \in Nat \ {0} /\ DOMAIN at.queued = 1 .. n
        /\ DOMAIN rest = 1 .. n - 1 /\ \A i \in 1 .. n - 1 : rest[i] = at.queued[i + 1]
    BY <1>1, <2>1, <2>2, <2>3, <2>4
  <2> HIDE DEF rest, n, e
  <2> QED BY <2>5 DEF MovesOn, e
<1> QED BY <1>2, <1>3

LEMMA ReplyMovesPanelOn ==
  ASSUME Typed, TransactionFinished, WellFormed(panel, panel.active)
  PROVE  LET q == panel.active
             shown == Call.response.preset
         IN  /\ q \in QueuedCommands /\ MovesOn(panel, panel')
             /\ ~IsAccepted(Call) => SameHistory(panel, panel')
             /\ IsAccepted(Call) =>
                  /\ shown # NoPreset => panel'.view = shown
                  /\ ~Edit(q) => /\ panel'.undo = panel.undo /\ panel'.redo = panel.redo
                                 /\ panel'.last = panel.last
                                 /\ shown = NoPreset => panel'.view = View
                  /\ shown = NoPreset => Led(q, panel')
<1> DEFINE q == panel.active
           free == [panel EXCEPT !.active = NoCommand]
           applied == Applied(free, q, Call)
           c == CommitHistory(free, q)
<1>1. q \in QueuedCommands /\ Answered(Call) /\ panel \in Panels /\ Bounded(panel)
  BY ControlPanelAssumption DEF TransactionFinished, Typed, TypeOK, Panels, Bounded, Call
<1>2. /\ Bounded(free) /\ free.active = NoCommand /\ free.queued = panel.queued /\ SameHistory(panel, free)
  BY <1>1 DEF Bounded, Panels, SameHistory
<1>3. panel' = StartNext(applied)
  BY DEF TransactionFinished, Call
<1> HIDE DEF free, q
<1>4. /\ Bounded(applied) /\ applied.active = NoCommand /\ applied.queued = panel.queued
      /\ ~IsAccepted(Call) => SameHistory(free, applied)
      /\ IsAccepted(Call) =>
           /\ applied.undo = c.undo /\ applied.redo = c.redo /\ applied.last = c.last
           /\ applied.view = IF Call.response.preset = NoPreset THEN c.view ELSE Call.response.preset
  BY <1>1, <1>2, ReplyIsApplied
<1>5. /\ q.action = "None" => c = free
      /\ q.action = "Record" => c.view = q.entry.after /\ c.last = "Record" /\ Last(c.undo) = q.entry
      /\ q.action = "Undo" /\ free.undo # <<>> => /\ c.view = q.entry.before /\ c.last = "Undo"
                                                  /\ Last(c.redo) = Last(free.undo)
      /\ q.action = "Redo" /\ free.redo # <<>> => /\ c.view = q.entry.after /\ c.last = "Redo"
                                                  /\ Last(c.undo) = Last(free.redo)
      /\ q.action = "Reset" => c.view = q.command.preset /\ c.last = "Reset"
  BY <1>1, <1>2, CommitKeepsTypes
<1> HIDE DEF c, applied
<1>6. SameHistory(applied, panel')
  BY <1>3, <1>4, NextIsFirstQueued DEF Bounded
<1>7. MovesOn(panel, panel')
  <2>1. MovesOn(applied, StartNext(applied))
    BY <1>4, QueueMovesOn DEF Bounded
  <2> QED BY <1>3, <1>4, <2>1 DEF MovesOn
<1>8. ~IsAccepted(Call) => SameHistory(panel, panel')
  BY <1>2, <1>4, <1>6 DEF SameHistory
<1>9. ASSUME IsAccepted(Call)
      PROVE  /\ Call.response.preset # NoPreset => panel'.view = Call.response.preset
             /\ Call.response.preset = NoPreset => panel'.view = c.view
             /\ panel'.undo = c.undo /\ panel'.redo = c.redo /\ panel'.last = c.last
  BY <1>4, <1>6, <1>9 DEF SameHistory
<1>10. Edit(q) <=> q.action # "None"
  BY DEF WellFormed, q
<1>11. ASSUME IsAccepted(Call), ~Edit(q)
       PROVE  /\ panel'.undo = panel.undo /\ panel'.redo = panel.redo /\ panel'.last = panel.last
              /\ Call.response.preset = NoPreset => panel'.view = View
  BY <1>2, <1>5, <1>9, <1>10, <1>11 DEF SameHistory, View
<1>12. ASSUME IsAccepted(Call), Call.response.preset = NoPreset
       PROVE  Led(q, panel')
  <2>1. /\ q.action = "Undo" => free.undo # <<>> /\ q.entry = Last(free.undo)
        /\ q.action = "Redo" => free.redo # <<>> /\ q.entry = Last(free.redo)
    BY <1>2 DEF WellFormed, q, SameHistory
  <2> QED BY <1>5, <1>9, <1>12, <2>1 DEF Led
<1> QED
  BY <1>1, <1>7, <1>8, <1>9, <1>11, <1>12 DEF q

LEMMA ReplyKeepsOrder ==
  ASSUME Typed, InOrder(panel), TransactionFinished
  PROVE  InOrder(panel')
<1> DEFINE q == panel.active
           e == panel'
<1>1. q # NoCommand /\ WellFormed(panel, q)
  BY DEF TransactionFinished, InOrder
<1>2. /\ MovesOn(panel, e)
      /\ ~Edit(q) \/ ~IsAccepted(Call) => e.undo = panel.undo /\ e.redo = panel.redo
  BY <1>1, ReplyMovesPanelOn DEF SameHistory
<1>3. ASSUME NEW i \in DOMAIN panel.queued
      PROVE  WellFormed(e, panel.queued[i])
  <2> DEFINE u == panel.queued[i]
  <2>1. WellFormed(panel, u)
    BY <1>3 DEF InOrder
  <2>2. CASE ~Edit(q) \/ ~IsAccepted(Call)
    BY <1>2, <2>1, <2>2 DEF WellFormed
  <2>3. CASE Edit(q)
    <3>1. Edit(u) => u.command.type = "SetGain"
      BY <1>1, <2>3 DEF InOrder
    <3>2. u.action \notin {"Undo", "Redo"}
      BY <2>1, <3>1 DEF WellFormed, Edit, Mutates
    <3> QED BY <2>1, <3>2 DEF WellFormed
  <2> QED BY <2>2, <2>3
<1> HIDE DEF e
<1>4. e.active # NoCommand => 1 \in DOMAIN panel.queued /\ e.active = panel.queued[1]
  BY <1>2 DEF MovesOn
<1>5. \A i \in DOMAIN e.queued :
        i \in Nat \ {0} /\ i + 1 \in DOMAIN panel.queued /\ e.queued[i] = panel.queued[i + 1]
  BY <1>2 DEF MovesOn
<1>6. \A i \in DOMAIN e.queued : WellFormed(e, e.queued[i])
  BY <1>3, <1>5
<1>7. e.active # NoCommand => WellFormed(e, e.active)
  BY <1>3, <1>4
<1>8. /\ \A i, j \in DOMAIN panel.queued : i < j /\ Edit(panel.queued[i]) /\ Edit(panel.queued[j])
           => panel.queued[j].command.type = "SetGain"
      /\ \A i, j \in DOMAIN panel.queued : SameGain(panel.queued[i].command, panel.queued[j].command) => i = j
  BY DEF InOrder
<1>9. ASSUME NEW i \in DOMAIN e.queued, NEW j \in DOMAIN e.queued
      PROVE  /\ i < j /\ Edit(e.queued[i]) /\ Edit(e.queued[j]) => e.queued[j].command.type = "SetGain"
             /\ SameGain(e.queued[i].command, e.queued[j].command) => i = j
  <2>1. /\ i \in Nat /\ j \in Nat /\ i + 1 \in DOMAIN panel.queued /\ j + 1 \in DOMAIN panel.queued
        /\ e.queued[i] = panel.queued[i + 1] /\ e.queued[j] = panel.queued[j + 1]
    BY <1>5, <1>9
  <2>2. (i < j => i + 1 < j + 1) /\ (i + 1 = j + 1 => i = j)
    BY <2>1
  <2> QED BY <1>8, <2>1, <2>2
<1>10. ASSUME NEW i \in DOMAIN e.queued, e.active # NoCommand, Edit(e.active), Edit(e.queued[i])
       PROVE  e.queued[i].command.type = "SetGain"
  <2>1. 1 < i + 1 /\ i + 1 \in DOMAIN panel.queued /\ e.queued[i] = panel.queued[i + 1]
    BY <1>5, <1>10
  <2> QED BY <1>4, <1>8, <1>10, <2>1
<1> QED
  BY <1>6, <1>7, <1>9, <1>10 DEF InOrder, e

\* One edit at most is queued: then none is behind the one that becomes active.
LEMMA ReplyKeepsOneEdit ==
  ASSUME Typed, InOrder(panel), TransactionFinished,
         \A i, j \in DOMAIN panel.queued : Edit(panel.queued[i]) /\ Edit(panel.queued[j]) => i = j
  PROVE  OneEdit(panel')
<1> DEFINE e == panel'
<1>1. MovesOn(panel, e)
  BY ReplyMovesPanelOn DEF TransactionFinished, InOrder
<1> HIDE DEF e
<1>2. e.active # NoCommand => 1 \in DOMAIN panel.queued /\ e.active = panel.queued[1]
  BY <1>1 DEF MovesOn
<1>3. \A i \in DOMAIN e.queued :
        i \in Nat \ {0} /\ i + 1 \in DOMAIN panel.queued /\ e.queued[i] = panel.queued[i + 1]
  BY <1>1 DEF MovesOn
<1>4. \A i, j \in DOMAIN e.queued : Edit(e.queued[i]) /\ Edit(e.queued[j]) => i = j
  <2>1. \A i, j \in DOMAIN e.queued : Edit(e.queued[i]) /\ Edit(e.queued[j]) => i + 1 = j + 1
    BY <1>3
  <2> QED BY <1>3, <2>1
<1>5. ASSUME NEW i \in DOMAIN e.queued, e.active # NoCommand, Edit(e.active), Edit(e.queued[i])
      PROVE  FALSE
  <2>1. 1 = i + 1
    BY <1>2, <1>3, <1>5
  <2> QED BY <1>3, <2>1
<1> QED
  BY <1>4, <1>5 DEF OneEdit, e

LEMMA ReplyKeepsEdits ==
  ASSUME Typed, EditsInv, TransactionFinished
  PROVE  EditsInv'
<1>1. InOrder(panel')
  BY ReplyKeepsOrder DEF EditsInv
<1>2. ASSUME ~lost'
      PROVE  OneEdit(panel')
  <2>1. CASE ~lost
    BY <2>1, ReplyKeepsOneEdit DEF EditsInv, OneEdit
  <2>2. CASE lost
    <3>1. ~\E u \in Range(panel.queued) : Mutates(u.command)
      BY <1>2, <2>2 DEF TransactionFinished
    <3>2. \A i \in DOMAIN panel.queued : ~Edit(panel.queued[i])
      BY <3>1 DEF Range, Edit
    <3> QED BY <3>2, ReplyKeepsOneEdit DEF EditsInv
  <2> QED BY <2>1, <2>2
<1> QED BY <1>1, <1>2 DEF EditsInv

\* The edits under way depend on the panel's commands and history only.
LEMMA EditsAreThePanels ==
  ASSUME EditsInv, panel'.active = panel.active, panel'.queued = panel.queued,
         SameHistory(panel, panel'), lost => lost'
  PROVE  EditsInv'
<1>1. \A q : WellFormed(panel, q) => WellFormed(panel', q)
  BY DEF WellFormed, SameHistory
<1>2. InOrder(panel) => InOrder(panel')
  BY <1>1 DEF InOrder
<1>3. OneEdit(panel) => OneEdit(panel')
  BY DEF OneEdit
<1> QED BY <1>2, <1>3 DEF EditsInv

-----------------------------------------------------------------------------
(* The history follows the engine. *)

\* Presets that differ in the gain of a route become one when it is set.
LEMMA GainsMeet ==
  ASSUME NEW p \in Presets, NEW o \in Presets, NEW c \in Commands, c.type = "SetGain",
         ButGain(p, o, c.route)
  PROVE  ApplyCommand(p, c) = ApplyCommand(o, c)
<1> DEFINE r == c.route
           pg == [p[r] EXCEPT !.gain = c.gain]
           og == [o[r] EXCEPT !.gain = c.gain]
<1>1. r \in Routes
  BY DEF Commands
<1>2. p[r] \in RoutesWith /\ o[r] \in RoutesWith /\ p[r].muted = o[r].muted
      /\ \A x \in Routes \ {r} : p[x] = o[x]
  BY DEF ButGain
<1>3. pg = og
  BY <1>2 DEF RoutesWith
<1>4. p[r] # Absent /\ o[r] # Absent
  BY <1>2, PanelMarksAreNone
<1>5. ApplyCommand(p, c) = [p EXCEPT ![r] = pg] /\ ApplyCommand(o, c) = [o EXCEPT ![r] = og]
  BY <1>4 DEF ApplyCommand
<1> HIDE DEF pg, og, r
<1>6. [p EXCEPT ![r] = pg] = [o EXCEPT ![r] = og]
  BY <1>1, <1>2, <1>3 DEF Presets
<1> QED BY <1>5, <1>6

LEMMA GainIsAllThatChanges ==
  ASSUME NEW p \in Presets, NEW c \in Commands, c.type = "SetGain", ApplyCommand(p, c) # Refused
  PROVE  ButGain(p, ApplyCommand(p, c), c.route)
<1> DEFINE r == c.route
           g == [p[r] EXCEPT !.gain = c.gain]
<1>1. r \in Routes /\ c.gain \in Gains
  BY DEF Commands
<1>2. p[r] # Absent
  BY DEF ApplyCommand
<1>3. p[r] \in RoutesWith
  BY <1>1, <1>2 DEF Presets
<1>4. g \in RoutesWith /\ g.muted = p[r].muted
  BY <1>1, <1>3 DEF RoutesWith
<1>5. ApplyCommand(p, c) = [p EXCEPT ![r] = g]
  BY <1>2 DEF ApplyCommand
<1> HIDE DEF g, r
<1>6. ButGain(p, [p EXCEPT ![r] = g], r)
  BY <1>1, <1>3, <1>4 DEF ButGain, Presets
<1> QED BY <1>5, <1>6 DEF r

\* What the user may ask for is foreseen, though the view may lag behind by the gain.
LEMMA OfferedForesees ==
  ASSUME PanelInv, NEW q \in QueuedCommands, Offered(q), ~Overlaps(q), ~lost, ~Unknown
  PROVE  Foresees(q)
<1>1. panel \in Panels /\ preset \in Presets /\ View \in Presets \union {NoPreset}
  BY DEF PanelInv, Typed, TypeOK, Panels, View
<1>2. IF Executed THEN HasEffect(panel.active) ELSE View \in {NoPreset, preset}
  BY DEF PanelInv, HistoryFollows
<1>3. CASE \E c \in RouteEdits : OffersEdit(q, c)
  <2>1. PICK c \in RouteEdits : OffersEdit(q, c)
    BY <1>3
  <2>2. c \in Commands /\ q = Recorded(c) /\ View \in Presets
    BY <1>1, <2>1 DEF RouteEdits, OffersEdit
  <2>3. q.command = c /\ (q.action = "Record" => q.entry.after = ApplyCommand(View, c))
    <3>1. /\ Recorded(c).command = c
          /\ \/ Recorded(c) = Queued(c)
             \/ Recorded(c).entry = [before |-> View, after |-> ApplyCommand(View, c)]
      BY <1>1, <2>2, RecordedIsTyped
    <3>2. Queued(c).action = "None"
      BY <2>2, QueuedIsTyped
    <3> QED BY <2>2, <3>1, <3>2
  <2>4. CASE ~Executed
    BY <1>1, <1>2, <2>2, <2>3, <2>4, PanelMarksAreNone DEF Foresees
  <2>5. CASE Executed
    <3>1. EditIsActive /\ HasEffect(panel.active) /\ WellFormed(panel, panel.active)
      BY <1>2, <2>5 DEF Executed, EditIsActive, PanelInv, EditsInv, InOrder
    <3>2. Busy
      BY <3>1 DEF EditIsActive, WellFormed, Busy
    <3>3. c.type = "SetGain" /\ SameGain(panel.active.command, c)
      <4>1. c.type = "SetGain"
        BY <2>1, <3>2 DEF OffersEdit
      <4> QED BY <2>3, <3>1, <4>1 DEF Overlaps, EditIsActive, Edit, Mutates
    <3>4. panel.active.action = "Record" /\ panel.active.command.type = "SetGain"
          /\ panel.active.command.route = c.route
      <4>1. panel.active \in QueuedCommands
        BY <1>1, <3>1 DEF Panels, EditIsActive
      <4> QED BY <3>1, <3>3, <4>1 DEF WellFormed, EditIsActive, SameGain, QueuedCommands
    <3>5. ButGain(View, preset, c.route)
      BY <2>2, <3>1, <3>4, PanelMarksAreNone DEF HasEffect
    <3>6. ApplyCommand(View, c) = ApplyCommand(preset, c)
      BY <1>1, <2>2, <3>3, <3>5, GainsMeet
    <3> QED BY <2>3, <3>6 DEF Foresees
  <2> QED BY <2>4, <2>5
<1>4. CASE q.action = "None" \/ OffersLoad(q)
  BY <1>4 DEF Foresees, OffersLoad
<1> QED BY <1>3, <1>4 DEF Offered

LEMMA ActingFollows ==
  ASSUME PanelInv, NEW e, Acts(e)
  PROVE  CallInv' /\ EditsInv' /\ AnswersAreTrue' /\ HistoryFollows'
<1>1. /\ panel' = e /\ preset' = preset /\ e \in Panels /\ SameHistory(panel, e) /\ panel \in Panels
      /\ Typed /\ CallInv /\ InOrder(panel) /\ (~lost => OneEdit(panel)) /\ (~lost' => ~lost)
  BY DEF Acts, Becomes, Bounded, PanelInv, EditsInv, Typed, TypeOK
<1>2. panel.active # NoCommand => e.active = panel.active
  BY DEF Acts, Joins
<1>3. /\ CallInv' /\ Answers' = Answers /\ Failed' = Failed
      /\ panel.active = NoCommand => Answers = {} /\ ~Failed
  BY <1>1, <1>2, CallFollowsPanel DEF Acts
<1>4. InOrder(e) /\ (~lost' => OneEdit(e))
  <2>1. CASE e.active = panel.active /\ e.queued = panel.queued
    BY <1>1, <2>1 DEF InOrder, OneEdit, WellFormed, SameHistory
  <2>2. ASSUME NEW q \in QueuedCommands, Offered(q), Joins(panel, q, e), lost' = (lost \/ Overlaps(q))
        PROVE  InOrder(e) /\ (~lost' => OneEdit(e))
    <3>1. InOrder(e)
      BY <1>1, <2>2, OfferedMayJoin, JoiningKeepsOrder
    <3>2. ~lost' => ~lost /\ ~Overlaps(q)
      BY <2>2
    <3>3. ~lost' => OneEdit(e)
      BY <1>1, <2>2, <3>2, JoiningKeepsOneEdit
    <3> QED BY <3>1, <3>3
  <2> QED BY <2>1, <2>2 DEF Acts
<1>5. AnswersAreTrue'
  BY <1>1, <1>2, <1>3 DEF AnswersAreTrue, PanelInv, EditIsActive
<1>6. (Executed' <=> Executed) /\ (Unknown' <=> Unknown)
  BY <1>1, <1>2, <1>3 DEF Executed, Unknown, EditIsActive
<1>7. ASSUME ~lost', ~lost, ~Unknown
      PROVE  /\ \A i \in DOMAIN e.queued : Foresees(e.queued[i])
             /\ ~Executed /\ e.active # NoCommand => Foresees(e.active)
  <2>1. /\ \A i \in DOMAIN panel.queued : Foresees(panel.queued[i])
        /\ ~Executed /\ panel.active # NoCommand => Foresees(panel.active)
    BY <1>7 DEF PanelInv, HistoryFollows
  <2>2. CASE e.active = panel.active /\ e.queued = panel.queued
    BY <2>1, <2>2
  <2>3. ASSUME NEW q \in QueuedCommands, Offered(q), Joins(panel, q, e), ~Overlaps(q)
        PROVE  /\ \A i \in DOMAIN e.queued : Foresees(e.queued[i])
               /\ ~Executed /\ e.active # NoCommand => Foresees(e.active)
    <3>1. Foresees(q)
      BY <1>7, <2>3, OfferedForesees
    <3>2. /\ panel.queued \in Seq(QueuedCommands) /\ DOMAIN panel.queued = 1 .. Len(panel.queued)
          /\ \A i \in DOMAIN panel.queued : panel.queued[i] \in QueuedCommands
      BY <1>1, ElementOfSeq DEF Panels
    <3>3. CASE e.active = q /\ e.queued = <<>>
      <4>1. DOMAIN e.queued = {}
        BY <3>3
      <4> QED BY <3>1, <3>3, <4>1
    <3>4. CASE e.active = panel.active /\ e.queued = Append(panel.queued, q)
      <4> DEFINE n == Len(panel.queued)
      <4>1. /\ n \in Nat /\ DOMAIN e.queued = 1 .. n + 1 /\ e.queued[n + 1] = q
            /\ \A i \in 1 .. n : e.queued[i] = panel.queued[i] /\ i \in DOMAIN panel.queued
        BY <3>2, <3>4, AppendProperties, LenProperties
      <4> HIDE DEF n
      <4>2. \A i \in DOMAIN e.queued : i = n + 1 \/ i \in 1 .. n
        BY <4>1
      <4>3. \A i \in DOMAIN e.queued : Foresees(e.queued[i])
        BY <2>1, <3>1, <4>1, <4>2
      <4> QED BY <2>1, <3>4, <4>3
    <3>5. CASE panel.active # NoCommand /\ GainsQueued(panel, q) # {}
      <4>1. q.command.type = "SetGain" /\ e.active = panel.active
        BY <1>1, <2>3, <3>5, GainTakesPlace
      <4>2. PICK i \in GainsQueued(panel, q) :
              /\ Edit(panel.queued[i])
              /\ e.queued = [panel.queued EXCEPT ![i] = WithGain(panel.queued[i], q)]
        BY <1>1, <2>3, <3>5, GainTakesPlace
      <4> DEFINE old == panel.queued[i]
                 new == WithGain(old, q)
      <4>3. i \in DOMAIN panel.queued /\ old \in QueuedCommands /\ SameGain(old.command, q.command)
            /\ WellFormed(panel, old)
        BY <1>1, <3>2, <4>2 DEF GainsQueued, InOrder
      <4>4. old.action = "Record" /\ old.entry # NoEntry
        BY <4>2, <4>3 DEF WellFormed, SameGain, QueuedCommands
      <4>5. q.action = "Record" /\ q.entry # NoEntry
        <5>1. WellFormed(panel, q) /\ Edit(q)
          BY <1>1, <2>3, <4>1, OfferedMayJoin DEF MayJoin, Edit, Mutates
        <5> QED BY <4>1, <5>1 DEF WellFormed, QueuedCommands
      <4>6. new.command = q.command /\ new.action = "Record" /\ new.entry = [old.entry EXCEPT !.after = q.entry.after]
        BY <4>1, <4>3, <4>4, <4>5, GainReplaced
      <4>7. old.entry \in HistoryEntries
        BY <4>3, <4>4 DEF QueuedCommands
      <4> HIDE DEF old, new
      <4>8. new.entry.after = q.entry.after
        BY <4>6, <4>7 DEF HistoryEntries
      <4>9. Foresees(new)
        BY <3>1, <4>5, <4>6, <4>8 DEF Foresees
      <4>10. \A j \in DOMAIN e.queued : Foresees(e.queued[j])
        BY <2>1, <4>2, <4>9 DEF new, old
      <4> QED BY <2>1, <4>1, <4>10
    <3> QED BY <2>3, <3>3, <3>4, <3>5 DEF Joins
  <2> QED BY <1>7, <2>2, <2>3 DEF Acts
<1>8. ASSUME ~lost, ~Unknown
      PROVE  /\ Executed => HasEffect(e.active)'
             /\ ~Executed => View' \in {NoPreset, preset} /\ Leads(e)'
  <2>1. IF Executed THEN HasEffect(panel.active)
        ELSE View \in {NoPreset, preset} /\ Leads(panel)
    BY <1>8 DEF PanelInv, HistoryFollows
  <2>2. View' = View /\ (Executed => e.active = panel.active)
    BY <1>1, <1>2 DEF View, SameHistory, Executed, EditIsActive
  <2> QED BY <1>1, <2>1, <2>2 DEF HasEffect, Leads, SameHistory
<1>9. HistoryFollows'
  BY <1>1, <1>6, <1>7, <1>8 DEF HistoryFollows, Foresees
<1> QED BY <1>1, <1>3, <1>4, <1>5, <1>9 DEF EditsInv


LEMMA HandlerFollows ==
  ASSUME PanelInv, NEW w \in Entries, Handle(w)
  PROVE  AnswersAreTrue' /\ HistoryFollows'
<1> DEFINE c == workers[w].request
           q == panel.active
<1>1. /\ Typed /\ CallInv /\ InOrder(panel) /\ (~lost => OneEdit(panel))
      /\ preset \in Presets /\ panel \in Panels /\ View \in Presets \union {NoPreset}
  BY DEF PanelInv, EditsInv, Typed, TypeOK, Panels, View
<1>2. panel' = panel /\ View' = View /\ Typed'
  BY <1>1, HandlerKeepsTypes DEF Handle, View
<1>3. /\ Failed' = Failed
      /\ ~Open(w) => Answers' = Answers
      /\ Open(w) => Answers = {} /\ Answers' = {workers'[w].response} /\ q # NoCommand /\ c = q.command
  BY <1>1, HandlerAnswers
<1>4. Unknown' = Unknown /\ EditIsActive' = EditIsActive
  BY <1>2, <1>3 DEF Unknown, EditIsActive
<1>5. workers[w] \in ConnectionsOf(Commands, Responses) /\ Serving(w)
  BY <1>1 DEF Handle, AtPhase, Typed, TypeOK, PipeTypeOK, Serving
<1>6. \E status \in {"Accepted", "Rejected"} :
        /\ workers'[w].response = Answer(status, c)
        /\ \/ Mutates(c) /\ status = "Accepted" /\ preset' = ApplyCommand(preset, c) /\ preset' # Refused
           \/ (~Mutates(c) \/ status = "Rejected") /\ (preset' = preset \/ lost')
  <2> DEFINE Replied(status) == [workers[w] EXCEPT !.phase = "writing", !.request = NoRequest,
                                                   !.response = Answer(status, c)]
  <2>1. \E status \in {"Accepted", "Rejected"} :
          /\ workers' = [workers EXCEPT ![w] = Replied(status)]
          /\ \/ Mutates(c) /\ status = "Accepted" /\ preset' = ApplyCommand(preset, c) /\ preset' # Refused
             \/ (~Mutates(c) \/ status = "Rejected") /\ (preset' = preset \/ lost')
    <3>1. CASE /\ Mutates(c) /\ ApplyCommand(preset, c) # Refused /\ preset' = ApplyCommand(preset, c)
               /\ workers' = [workers EXCEPT ![w] = Replied("Accepted")]
      BY <3>1
    <3>2. CASE /\ ~Mutates(c) \/ workers' = [workers EXCEPT ![w] = Replied("Rejected")]
               /\ \E status \in {"Accepted", "Rejected"} : workers' = [workers EXCEPT ![w] = Replied(status)]
               /\ preset' = preset \/ lost'
      BY <3>2
    <3> QED BY <3>1, <3>2 DEF Handle, Queries, Mutates
  <2>2. \A status : Replied(status).response = Answer(status, c)
    BY <1>5 DEF ConnectionsOf
  <2>3. \A k : workers' = [workers EXCEPT ![w] = k] => workers'[w] = k
    BY <1>1 DEF Typed, TypeOK, PipeTypeOK
  <2> HIDE DEF Replied
  <2> QED BY <2>1, <2>2, <2>3
<1>7. PICK status \in {"Accepted", "Rejected"} :
        /\ workers'[w].response = Answer(status, c)
        /\ \/ Mutates(c) /\ status = "Accepted" /\ preset' = ApplyCommand(preset, c) /\ preset' # Refused
           \/ (~Mutates(c) \/ status = "Rejected") /\ (preset' = preset \/ lost')
  BY <1>6
<1>8. /\ lost => lost'
      /\ ~Open(w) /\ preset' # preset => lost'
      /\ c.type \in {"QuerySessionState", "SavePreset"} => preset' = preset
  <2>1. lost => lost'
    BY DEF Handle
  <2>2. ~Open(w) /\ preset' # preset => lost'
    BY <1>5 DEF Handle, Open
  <2>3. c.type \in {"QuerySessionState", "SavePreset"} => preset' = preset
    BY DEF Handle, Mutates
  <2> QED BY <2>1, <2>2, <2>3
<1>9. /\ Answer(status, c).status = status
      /\ Answer(status, c).preset =
           IF c.type \in {"QuerySessionState", "SavePreset"} THEN preset ELSE NoPreset
  BY DEF Answer
<1> HIDE DEF c, q
<1>10. CASE ~Open(w)
  <2>1. ~lost' => ~lost /\ preset' = preset /\ Answers' = Answers
    BY <1>3, <1>8, <1>10
  <2>2. AnswersAreTrue'
    BY <1>3, <1>4, <1>10, <2>1 DEF AnswersAreTrue, PanelInv
  <2>3. Executed' = Executed
    BY <1>3, <1>4, <1>10 DEF Executed
  <2>4. HistoryFollows'
    BY <1>2, <1>4, <2>1, <2>3 DEF HistoryFollows, PanelInv, Foresees, HasEffect, Leads
  <2> QED BY <2>2, <2>4
<1>11. CASE Open(w)
  <2>1. q # NoCommand /\ q \in QueuedCommands /\ c = q.command /\ c \in Commands /\ WellFormed(panel, q)
    BY <1>1, <1>3, <1>11 DEF Panels, QueuedCommands, InOrder, q
  <2>2. EditIsActive <=> Mutates(c)
    BY <2>1 DEF EditIsActive, Edit, q
  <2>3. \A a \in Answers' : a = Answer(status, c)
    BY <1>3, <1>7, <1>11
  <2>4. AnswersAreTrue'
    BY <1>4, <1>8, <1>9, <2>2, <2>3 DEF AnswersAreTrue, Mutates
  <2>5. ~Executed
    BY <1>3, <1>11 DEF Executed
  <2>6. Executed' <=> Mutates(c) /\ status = "Accepted"
    BY <1>3, <1>4, <1>7, <1>9, <1>11, <2>2 DEF Executed
  <2>7. ASSUME ~lost', ~Unknown'
        PROVE  /\ \A i \in DOMAIN panel.queued : Foresees(panel.queued[i])
               /\ View \in {NoPreset, preset} /\ Foresees(q) /\ Leads(panel)
    BY <1>4, <1>8, <2>1, <2>5, <2>7 DEF PanelInv, HistoryFollows, q
  <2>8. CASE Mutates(c) /\ status = "Accepted"
    <3>1. preset' = ApplyCommand(preset, c) /\ preset' # Refused
      BY <1>7, <2>8
    <3>2. preset' \in Presets
      BY <1>2 DEF Typed, TypeOK
    <3>3. ASSUME ~lost', ~Unknown'
          PROVE  HasEffect(q)'
      <4>1. q.action = "Record" => q.entry.after = preset'
        BY <2>1, <2>7, <3>1, <3>3 DEF Foresees
      <4>2. q.action \in {"Undo", "Redo"} => preset' = c.preset
        BY <2>1, <3>1 DEF WellFormed, ApplyCommand
      <4>3. q.action = "Record" /\ c.type = "SetGain" => View = NoPreset \/ ButGain(View, preset', c.route)
        BY <1>1, <2>1, <2>7, <3>1, <3>3, GainIsAllThatChanges
      <4> QED BY <1>2, <2>1, <4>1, <4>2, <4>3 DEF HasEffect, WellFormed, q
    <3>4. ASSUME ~lost', ~Unknown', NEW i \in DOMAIN panel.queued
          PROVE  Foresees(panel.queued[i])'
      <4> DEFINE u == panel.queued[i]
      <4>1. u \in QueuedCommands /\ WellFormed(panel, u) /\ u.command \in Commands
        BY <1>1, ElementOfSeq DEF Panels, InOrder, QueuedCommands
      <4>2. Foresees(u)
        BY <2>7, <3>4
      <4>3. CASE u.action = "Record"
        <5>1. SameGain(c, u.command)
          BY <1>1, <1>8, <2>1, <2>8, <3>4, <4>1, <4>3 DEF OneEdit, WellFormed, Edit, q
        <5>2. ButGain(preset, preset', u.command.route)
          BY <1>1, <2>1, <3>1, <5>1, GainIsAllThatChanges DEF SameGain
        <5>3. ApplyCommand(preset, u.command) = ApplyCommand(preset', u.command)
          BY <1>1, <3>2, <4>1, <5>1, <5>2, GainsMeet DEF SameGain
        <5> QED BY <1>2, <4>2, <5>3 DEF Foresees
      <4>4. CASE u.action # "Record"
        BY <1>2, <4>4 DEF Foresees
      <4> QED BY <4>3, <4>4
    <3> QED
      BY <1>2, <2>4, <2>6, <2>8, <3>3, <3>4 DEF HistoryFollows, q
  <2>9. CASE ~(Mutates(c) /\ status = "Accepted")
    <3>1. ~lost' => preset' = preset
      BY <1>7, <2>9
    <3>2. ~Executed'
      BY <2>6, <2>9
    <3>3. HistoryFollows'
      BY <1>2, <2>7, <3>1, <3>2 DEF HistoryFollows, Foresees, Leads, q
    <3> QED BY <2>4, <3>3
  <2> QED BY <2>8, <2>9
<1> QED BY <1>10, <1>11

\* A step of the pipe takes an answer on, or the call fails.
LEMMA PipeFollows ==
  ASSUME PanelInv, Conveys, UNCHANGED <<preset, lost>>, panel'.active = panel.active,
         panel'.queued = panel.queued, SameHistory(panel, panel')
  PROVE  AnswersAreTrue' /\ HistoryFollows' /\ EditsInv'
<1>1. EditIsActive' = EditIsActive /\ View' = View /\ panel'.undo = panel.undo /\ panel'.redo = panel.redo
      /\ panel'.last = panel.last
  BY DEF EditIsActive, View, SameHistory
<1>2. AnswersAreTrue'
  BY <1>1 DEF AnswersAreTrue, PanelInv, Conveys
<1>3. ASSUME ~lost, ~Unknown'
      PROVE  /\ \A i \in DOMAIN panel.queued : Foresees(panel.queued[i])
             /\ IF Executed' THEN HasEffect(panel.active)
                ELSE /\ View \in {NoPreset, preset}
                     /\ panel.active # NoCommand => Foresees(panel.active)
                     /\ Leads(panel)
  <2>1. ~Unknown /\ (Executed' <=> Executed)
    BY <1>1, <1>3 DEF Unknown, Executed, Conveys
  <2> QED BY <1>3, <2>1 DEF PanelInv, HistoryFollows
<1>4. HistoryFollows'
  BY <1>1, <1>3 DEF HistoryFollows, Foresees, HasEffect, Leads
<1>5. EditsInv'
  BY EditsAreThePanels DEF PanelInv
<1> QED BY <1>2, <1>4, <1>5

LEMMA ReplyFollows ==
  ASSUME PanelInv, TransactionFinished
  PROVE  AnswersAreTrue' /\ HistoryFollows'
<1> DEFINE q == panel.active
           shown == Call.response.preset
<1>1. /\ Typed /\ CallInv /\ InOrder(panel) /\ q # NoCommand /\ Call.phase = "done"
      /\ WellFormed(panel, q) /\ preset' = preset
  BY DEF PanelInv, EditsInv, TransactionFinished, InOrder, Call
<1>2. /\ Answers' = {} /\ ~Failed'
      /\ Call.result = "ok" => Call.response \in Responses /\ Answers = {Call.response}
  BY <1>1, CallFinishes
<1>3. /\ q \in QueuedCommands /\ MovesOn(panel, panel')
      /\ ~IsAccepted(Call) => SameHistory(panel, panel')
      /\ IsAccepted(Call) =>
           /\ shown # NoPreset => panel'.view = shown
           /\ ~Edit(q) => /\ panel'.undo = panel.undo /\ panel'.redo = panel.redo
                          /\ panel'.last = panel.last
                          /\ shown = NoPreset => panel'.view = View
           /\ shown = NoPreset => Led(q, panel')
  BY <1>1, ReplyMovesPanelOn
<1>4. lost' = IF q.action = "Reset" /\ IsAccepted(Call)
              THEN preset # q.command.preset \/ \E u \in Range(panel.queued) : Edit(u)
              ELSE lost \/ (Edit(q) /\ Call.result # "ok")
  BY DEF TransactionFinished, IsAccepted, Call, Edit
<1>5. ~Unknown' /\ ~Executed' /\ AnswersAreTrue'
  BY <1>2 DEF Unknown, Executed, AnswersAreTrue
<1>6. EditIsActive <=> Edit(q)
  BY <1>1 DEF EditIsActive
<1>7. Edit(q) /\ IsAccepted(Call) => shown = NoPreset /\ Led(q, panel')
  BY <1>2, <1>3, <1>6 DEF PanelInv, AnswersAreTrue, IsAccepted
<1> HIDE DEF q, shown
\* What is queued foresees where the engine will be.
<1>8. ASSUME \A i \in DOMAIN panel.queued : Foresees(panel.queued[i]),
             View' \in {NoPreset, preset}, Leads(panel')
      PROVE  HistoryFollows'
  <2>1. \A i \in DOMAIN panel'.queued : Foresees(panel'.queued[i])
    BY <1>3, <1>8 DEF MovesOn
  <2>2. panel'.active # NoCommand => Foresees(panel'.active)
    BY <1>3, <1>8 DEF MovesOn
  <2> QED BY <1>1, <1>5, <1>8, <2>1, <2>2 DEF HistoryFollows, Foresees, Leads
<1>9. CASE lost'
  BY <1>5, <1>9 DEF HistoryFollows
<1>10. CASE ~lost' /\ q.action = "Reset" /\ IsAccepted(Call)
  <2>1. preset = q.command.preset /\ Edit(q) /\ q.command.type = "LoadPreset"
    BY <1>1, <1>4, <1>10 DEF WellFormed, q
  <2>2. View' = preset /\ panel'.last = "Reset"
    BY <1>7, <1>10, <2>1 DEF Led, View
  <2>3. ASSUME NEW i \in DOMAIN panel.queued
        PROVE  Foresees(panel.queued[i])
    <3>1. ~Edit(panel.queued[i])
      BY <1>4, <1>10 DEF Range
    <3> QED BY <1>1, <3>1 DEF InOrder, WellFormed, Foresees
  <2>4. Leads(panel')
    BY <2>2 DEF Leads
  <2> QED BY <1>5, <1>8, <2>2, <2>3, <2>4
<1>11. CASE ~lost' /\ ~(q.action = "Reset" /\ IsAccepted(Call))
  <2>1. ~lost /\ (Edit(q) => Call.result = "ok")
    BY <1>4, <1>11
  <2>2. ~Unknown
    BY <1>6, <2>1 DEF Unknown, Failed
  <2>3. /\ \A i \in DOMAIN panel.queued : Foresees(panel.queued[i])
        /\ IF Executed THEN HasEffect(q) ELSE View \in {NoPreset, preset} /\ Leads(panel)
    BY <2>1, <2>2 DEF PanelInv, HistoryFollows, q
  <2>4. Executed <=> Edit(q) /\ IsAccepted(Call)
    BY <1>2, <1>6, <2>1 DEF Executed, IsAccepted
  <2>5. CASE Edit(q) /\ IsAccepted(Call)
    <3>1. HasEffect(q) /\ Led(q, panel')
      BY <1>7, <2>3, <2>4, <2>5
    <3>2. q.action \in {"Record", "Undo", "Redo"}
      BY <1>1, <1>3, <1>11, <2>5 DEF WellFormed, QueuedCommands, q
    <3>3. View' \in {NoPreset, preset} /\ Leads(panel')
      BY <3>1, <3>2 DEF HasEffect, Led, Leads, View
    <3> QED BY <1>5, <1>8, <2>3, <3>3
  <2>6. CASE ~(Edit(q) /\ IsAccepted(Call))
    <3>1. View \in {NoPreset, preset} /\ Leads(panel)
      BY <2>3, <2>4, <2>6
    <3>2. /\ panel'.undo = panel.undo /\ panel'.redo = panel.redo /\ panel'.last = panel.last
          /\ \/ panel'.view = View
             \/ IsAccepted(Call) /\ shown # NoPreset /\ panel'.view = shown
      BY <1>3, <2>6 DEF SameHistory, View
    <3>3. IsAccepted(Call) => shown \in {NoPreset, preset}
      BY <1>2, <2>1 DEF IsAccepted, PanelInv, AnswersAreTrue, shown
    <3>4. View' \in {NoPreset, preset}
      BY <3>1, <3>2, <3>3 DEF View
    <3>5. Leads(panel')
      BY <3>1, <3>2 DEF Leads
    <3> QED BY <1>5, <1>8, <2>3, <3>4, <3>5
  <2> QED BY <2>5, <2>6
<1> QED BY <1>5, <1>9, <1>10, <1>11

LEMMA NextFollows ==
  ASSUME PanelInv, [Next]_vars
  PROVE  PanelInv'
<1>1. Typed /\ CallInv /\ Typed'
  BY NextKeepsTypes DEF PanelInv
<1>2. SameHistory(panel, panel)
  BY DEF SameHistory
<1>3. ASSUME CallInv', Conveys, UNCHANGED <<preset, lost, panel>>
      PROVE  PanelInv'
  BY <1>1, <1>2, <1>3, PipeFollows DEF PanelInv
<1>4. CASE User \/ EventLoop
  <2>1. CASE TransactionFinished
    <3>1. CallInv' /\ EditsInv'
      BY <1>1, <2>1, CallFinishes, ReplyKeepsEdits DEF PanelInv
    <3> QED BY <1>1, <2>1, <3>1, ReplyFollows DEF PanelInv
  <2>2. CASE ~TransactionFinished
    <3>1. \E e : Acts(e)
      BY <1>1, <1>4, <2>2, PanelActs
    <3> QED BY <1>1, <3>1, ActingFollows DEF PanelInv
  <2> QED BY <2>1, <2>2
<1>5. CASE ServerThread
  BY <1>1, <1>3, <1>5, ServerStepsConvey DEF ServerThread, PipeOnly
<1>6. CASE PanelTransaction
  BY <1>1, <1>3, <1>6, ClientStepsConvey DEF PanelTransaction, PipeOnly
<1>7. CASE Late
  BY <1>1, <1>3, <1>7, ClientStepsConvey, WorkerStepsConvey DEF Late, PipeOnly
<1>8. ASSUME NEW w \in Entries, Worker(w)
      PROVE  PanelInv'
  <2>1. CASE WorkerSteps(w) /\ PipeOnly
    BY <1>1, <1>3, <2>1, WorkerStepsConvey DEF PipeOnly
  <2>2. CASE Handle(w)
    <3>1. CallInv' /\ panel' = panel
      BY <1>1, <2>2, HandlerAnswers DEF Handle
    <3>2. EditsInv'
      <4>1. lost => lost'
        BY <2>2 DEF Handle
      <4> QED BY <1>2, <3>1, <4>1, EditsAreThePanels DEF PanelInv, SameHistory
    <3> QED BY <1>1, <2>2, <3>1, <3>2, HandlerFollows DEF PanelInv
  <2> QED BY <1>8, <2>1, <2>2 DEF Worker
<1>9. CASE EngineStarts
  <2>1. /\ panel'.active = panel.active /\ panel'.queued = panel.queued /\ SameHistory(panel, panel')
        /\ UNCHANGED <<preset, lost>> /\ (StartServer \/ UNCHANGED pipeVars)
    BY <1>1, <1>9 DEF EngineStarts, SameHistory, Typed, TypeOK, Panels
  <2>2. CallInv' /\ Conveys
    BY <1>1, <2>1, ServerStepsConvey
  <2> QED BY <1>1, <2>1, <2>2, PipeFollows DEF PanelInv
<1>10. CASE EngineDies
  BY <1>1, <1>3, <1>10, ServerStepsConvey DEF EngineDies
<1>11. CASE Foreign
  <2>1. lost' /\ UNCHANGED <<server, instance, workers, transaction, panel>>
    BY <1>11 DEF Foreign
  <2>2. CallInv' /\ Answers' = Answers /\ EditIsActive' = EditIsActive
    BY <2>1 DEF PanelInv, CallInv, OneConnection, CallIsActive, Carries, Answers, EditIsActive,
                Call, Holds, Open, Serving
  <2>3. AnswersAreTrue' /\ HistoryFollows'
    BY <2>1, <2>2 DEF PanelInv, AnswersAreTrue, HistoryFollows
  <2>4. EditsInv'
    BY <1>2, <2>1, EditsAreThePanels DEF PanelInv
  <2> QED BY <1>1, <2>2, <2>3, <2>4 DEF PanelInv
<1>12. CASE UNCHANGED vars
  BY <1>1, <1>3, <1>12, ServerStepsConvey DEF vars
<1> QED
  BY <1>4, <1>5, <1>6, <1>7, <1>8, <1>9, <1>10, <1>11, <1>12 DEF Next

LEMMA InitFollows ==
  ASSUME Init
  PROVE  PanelInv
<1>1. /\ Typed /\ Panel \in Clients
      /\ panel.active = NoCommand /\ panel.queued = <<>> /\ panel.view = NoPreset /\ panel.last = "Reset"
  BY InitIsTyped, ControlPanelAssumption DEF Init, StartedPanel
<1>2. Call.phase = "idle" /\ ~Holds /\ \A w \in Entries : ~Serving(w)
  BY <1>1 DEF Init, PipeInit, Call, NoTransaction, Holds, Empty, Serving
<1>3. CallInv
  BY <1>1, <1>2 DEF CallInv, OneConnection, CallIsActive, Open
<1>4. DOMAIN panel.queued = {} /\ Answers = {} /\ ~EditIsActive
  BY <1>1, <1>2 DEF Answers, Open, EditIsActive
<1> QED
  BY <1>1, <1>3, <1>4
     DEF PanelInv, EditsInv, InOrder, OneEdit, AnswersAreTrue, HistoryFollows, Executed, Leads, View

\* With the panel at rest, the last entry of the history leads to the preset of the engine, and
\* an undo went back to where the entry it leaves for redo began.  Edits the engine refused, other
\* commands whose answers failed, and an engine that died between edits do not break this.  An edit
\* whose own answer was lost may have been executed, another client or a configuration may have
\* changed the preset, and a gain that moves while another edit is under way is recorded against a
\* preset that edit has yet to change: then nothing is said until a preset is loaded.
THEOREM HistoryIsTheEngines == Spec => []HistoryIsEngines
<1>1. PanelInv => HistoryIsEngines
  BY DEF PanelInv, HistoryFollows, HistoryIsEngines, Executed, Unknown, EditIsActive, Leads
<1>2. PanelInv /\ [Next]_vars => PanelInv'
  BY NextFollows
<1> QED BY <1>1, <1>2, InitFollows, PTL DEF Spec

=============================================================================
