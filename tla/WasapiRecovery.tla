--------------------------- MODULE WasapiRecovery ---------------------------
(***************************************************************************)
(* A WASAPI engine runtime: the control thread of the engine starts and    *)
(* stops it; a supervisor thread of its own wakes every 20 ms, looks after *)
(* the loop that plays on the devices, opens it again when it has died or  *)
(* the default device has changed, and asks the recovery policy when.      *)
(*                                                                         *)
(* The policy's and the supervisor's functions are operators on records of *)
(* their fields, composed as the code calls them, since a whole wake runs  *)
(* under duplex_supervisor_mutex_. Points in time are kept as the time     *)
(* left until them, which is all the code compares them for. A generation  *)
(* of the default device is compared for equality only: "unseen" says that *)
(* it has moved since the last poll, "stale" that the loop was opened      *)
(* before. Diagnostics are left out.                                       *)
(***************************************************************************)
EXTENDS Integers, FiniteSets, FiniteSetsExt, Sequences

CONSTANTS Devices,
          Directions,      \* of the loop: capture, render or both
          Follow,          \* the directions that follow the default device
          Pinned,          \* the device of each other direction
          LoopIsPrepared,  \* the first loop is opened with the runtime: all but duplex
          Failures,        \* the sets of failure classes a loop can end or open with
          AttemptDelays, RecoveryDeadline, DeviceRetryDelay, StabilityWindow,
          SettleTime,
          NoLoop, NoSupervisor

FailureClasses == {"Transient", "DeviceInvalidated", "Fatal", "Unknown"}

ASSUME Configuration ==
  /\ Follow \subseteq Directions
  /\ Pinned \in [Directions \ Follow -> Devices]
  /\ LoopIsPrepared \in BOOLEAN
  /\ Failures \subseteq SUBSET FailureClasses
  /\ AttemptDelays \in Seq(Nat)
  /\ {RecoveryDeadline, DeviceRetryDelay, StabilityWindow, SettleTime} \subseteq Nat

\* The members of WasapiRecoveryPolicy and of the supervisor. A loop is the devices it
\* was opened on and the errors it has died with, if it has.
Policies ==
  [state : {"Stopped", "Opening", "Running", "Quiescing", "Backoff", "Faulted"},
   attempts : 0 .. Len(AttemptDelays), deadline : Nat, next_attempt : Nat, running_for : Nat,
   recovery_active : BOOLEAN, device_retry : BOOLEAN, recovery_pending : BOOLEAN]

Loops == [devices : [Directions -> Devices], running : BOOLEAN, errors : SUBSET FailureClasses]

Supervisors ==
  [policy : Policies, loop : Loops \union {NoLoop}, episode : BOOLEAN, pending : BOOLEAN,
   settle : Nat, initialized : BOOLEAN, stale : SUBSET Directions, errors : SUBSET FailureClasses]

ASSUME MarksAreNone ==
  NoLoop \notin Loops \union [Directions -> Devices] /\ NoSupervisor \notin Supervisors

VARIABLES default,        \* the default device of each direction
          healthy,        \* whether devices open and keep running
          prepared,       \* the loop opened with the runtime, until it is taken
          supervisor,     \* its record, or NoSupervisor
          active,         \* duplex_supervisor_active_
          thread,         \* where the supervisor thread is
          registered,     \* its endpoint notifications
          unseen,         \* directions whose default changed since the last poll
          stop_requested,
          control         \* whether stop() waits for the thread

vars == <<default, healthy, prepared, supervisor, active, thread, registered,
          unseen, stop_requested, control>>

environmentVars == <<default, healthy>>

-----------------------------------------------------------------------------
(* Failure classes                                                         *)

Recoverable(class) == class \in {"Transient", "DeviceInvalidated"}

\* The class of a failure with several errors.
Classify(errors) ==
  CASE errors = {} -> "Unknown"
    [] "Fatal" \in errors -> "Fatal"
    [] "Unknown" \in errors -> "Unknown"
    [] "DeviceInvalidated" \in errors -> "DeviceInvalidated"
    [] OTHER -> "Transient"

-----------------------------------------------------------------------------
(* WasapiRecoveryPolicy. request_stop() is left out: the supervisor calls  *)
(* it on its way to being destroyed only.                                  *)

ClearedPolicy ==
  [state |-> "Stopped", attempts |-> 0, deadline |-> 0, next_attempt |-> 0, running_for |-> 0,
   recovery_active |-> FALSE, device_retry |-> FALSE, recovery_pending |-> FALSE]

ClearRecovery(p) == [ClearedPolicy EXCEPT !.state = p.state, !.running_for = p.running_for]

Fault(p) == [p EXCEPT !.next_attempt = 0, !.state = "Faulted"]

\* Fault: the attempts start over as soon as the loop runs again.
FaultResetAtOnce(p) ==
  IF p.state = "Running" /\ p.recovery_active THEN ClearRecovery(p) ELSE p

ResetIfStable(p) ==
  IF p.state = "Running" /\ p.recovery_active /\ p.running_for = StabilityWindow
  THEN ClearRecovery(p)
  ELSE p

RequestStart(p) ==
  IF p.state = "Stopped" THEN [ClearRecovery(p) EXCEPT !.running_for = 0, !.state = "Opening"]
  ELSE p

BeginRecovery(p) ==
  IF p.recovery_active THEN p
  ELSE [p EXCEPT !.recovery_active = TRUE, !.deadline = RecoveryDeadline]

ScheduleRecovery(p) ==
  IF p.deadline = 0 \/ p.attempts >= Len(AttemptDelays)
  THEN IF p.device_retry
       THEN [p EXCEPT !.next_attempt = DeviceRetryDelay, !.deadline = DeviceRetryDelay,
                      !.state = "Backoff"]
       ELSE Fault(p)
  ELSE [p EXCEPT !.attempts = @ + 1, !.next_attempt = AttemptDelays[p.attempts + 1],
                 !.state = "Backoff"]

OnQuiesced(p) ==
  IF p.state # "Quiescing" THEN p
  ELSE IF p.recovery_pending
       THEN ScheduleRecovery([p EXCEPT !.recovery_pending = FALSE])
       ELSE [ClearRecovery(p) EXCEPT !.state = "Stopped"]

OnFailure(p, class) ==
  IF p.state \notin {"Opening", "Running"} THEN p
  ELSE LET steady == ResetIfStable(p)
           begun  == BeginRecovery([steady EXCEPT
                       !.device_retry = @ \/ class = "DeviceInvalidated"])
       IN  IF ~Recoverable(class) THEN Fault(steady)
           ELSE IF begun.state = "Running"
                THEN [begun EXCEPT !.recovery_pending = TRUE, !.state = "Quiescing"]
                ELSE ScheduleRecovery(begun)

OnOpenSucceeded(p) ==
  IF p.state = "Opening" THEN [p EXCEPT !.running_for = 0, !.state = "Running"] ELSE p

PolicyTick(p) ==
  CASE p.state = "Running" -> ResetIfStable(p)
    [] p.state = "Opening" /\ p.recovery_active /\ p.deadline = 0 ->
         IF p.device_retry THEN ScheduleRecovery(p) ELSE Fault(p)
    [] p.state = "Backoff" /\ p.device_retry /\ p.next_attempt = 0 ->
         [p EXCEPT !.state = "Opening"]
    [] p.state = "Backoff" /\ ~(p.device_retry /\ p.next_attempt = 0) /\ p.deadline = 0 -> Fault(p)
    [] p.state = "Backoff" /\ ~p.device_retry /\ p.deadline > 0 /\ p.next_attempt = 0 ->
         [p EXCEPT !.state = "Opening"]
    [] OTHER -> p

-----------------------------------------------------------------------------
(* WindowsWasapiDuplexSupervisor                                           *)

NewSupervisor ==
  [policy |-> ClearedPolicy, loop |-> NoLoop, episode |-> FALSE, pending |-> FALSE,
   settle |-> 0, initialized |-> FALSE, stale |-> {}, errors |-> {}]

Running(s) == s.loop # NoLoop /\ s.loop.running

NoReopen(s) == [s EXCEPT !.pending = FALSE, !.settle = 0]

Quiesce(s) == [NoReopen(s) EXCEPT !.loop = NoLoop, !.policy = OnQuiesced(@)]

HandleFailure(s, errors) ==
  LET class == Classify(errors)
      p     == OnFailure(s.policy, class)
  IN  [NoReopen(s) EXCEPT
         !.errors = errors, !.policy = p,
         !.episode = (@ \/ Recoverable(class)) /\ p.state # "Faulted"]

\* attempt_open(), given what the factory and the loop's start() answer.
OpenAs(s, result) ==
  IF ~result.ok THEN HandleFailure(s, result.errors)
  ELSE [s EXCEPT !.loop = [devices |-> result.devices, running |-> TRUE, errors |-> {}],
                 !.errors = {}, !.policy = OnOpenSucceeded(@), !.episode = FALSE,
                 !.stale = IF s.initialized THEN {} ELSE @]

RequestReopen(s) ==
  LET failed == [NoReopen(s) EXCEPT !.episode = TRUE, !.errors = {},
                                    !.policy = OnFailure(@, "DeviceInvalidated")]
  IN  IF s.policy.state # "Running" THEN s
      ELSE IF failed.policy.state = "Quiescing" THEN Quiesce(failed) ELSE failed

\* The three parts of tick() before it may open the loop.
ReopenIfDue(s) ==
  IF s.pending /\ s.policy.state = "Running" /\ s.settle = 0
  THEN RequestReopen(NoReopen(s))
  ELSE s

NoticeDeath(s) ==
  LET failed == HandleFailure(s, IF s.loop = NoLoop THEN {} ELSE s.loop.errors)
  IN  IF s.policy.state # "Running" \/ Running(s) THEN s
      ELSE IF failed.policy.state = "Quiescing" THEN Quiesce(failed)
           ELSE [failed EXCEPT !.loop = NoLoop]

AskPolicy(s) ==
  LET p == PolicyTick(s.policy)
  IN  [s EXCEPT !.policy = p, !.episode = @ /\ p.state # "Faulted"]

BeforeOpening(s) == AskPolicy(NoticeDeath(ReopenIfDue(s)))

\* Fault: the change is taken as opened when it is seen.
FaultPoll(s, changed) ==
  IF ~s.initialized THEN [s EXCEPT !.initialized = TRUE, !.stale = {}]
  ELSE IF changed \intersect Follow # {} /\ s.policy.state = "Running"
       THEN [s EXCEPT !.pending = TRUE, !.settle = SettleTime]
       ELSE NoReopen(s)

\* The part of poll_endpoint_notifications() after the snapshot; changed holds the
\* directions whose generation moved since the last poll.
Poll(s, changed) ==
  LET stale  == s.stale \union changed
      reopen == stale \intersect Follow # {}
  IN  IF ~s.initialized THEN [s EXCEPT !.initialized = TRUE, !.stale = {}]
      ELSE IF reopen /\ s.policy.state = "Running" /\ changed # {}
           THEN [s EXCEPT !.stale = stale, !.pending = TRUE, !.settle = SettleTime]
           ELSE IF reopen THEN [s EXCEPT !.stale = stale]
                ELSE [NoReopen(s) EXCEPT !.stale = {}]

-----------------------------------------------------------------------------
(* The devices                                                             *)

Selected == [d \in Directions |-> IF d \in Follow THEN default[d] ELSE Pinned[d]]

\* What the factory and start() may answer now. A loop opened with the runtime is
\* taken as it is, whatever the default is meanwhile.
OpenResults ==
  LET devices == IF prepared = NoLoop THEN Selected ELSE prepared
  IN  {[ok |-> TRUE, devices |-> devices]}
        \union IF healthy THEN {} ELSE {[ok |-> FALSE, errors |-> e] : e \in Failures}

\* The OS changes the default device and calls back: OnDefaultDeviceChanged().
ChangeDefault ==
  \E direction \in Directions, device \in Devices :
    /\ default[direction] # device
    /\ default' = [default EXCEPT ![direction] = device]
    /\ unseen' = IF registered THEN unseen \union {direction} ELSE unseen
    /\ UNCHANGED <<healthy, prepared, supervisor, active, thread, registered,
                   stop_requested, control>>

ChangeHealth ==
  /\ healthy' = ~healthy
  /\ UNCHANGED <<default, prepared, supervisor, active, thread, registered, unseen,
                 stop_requested, control>>

\* The loop's worker thread ends by itself, with errors.
LoopDies ==
  /\ ~healthy
  /\ supervisor # NoSupervisor /\ Running(supervisor)
  /\ \E errors \in Failures :
       supervisor' = [supervisor EXCEPT !.loop.running = FALSE, !.loop.errors = errors]
  /\ UNCHANGED <<environmentVars, prepared, active, thread, registered, unseen,
                 stop_requested, control>>

-----------------------------------------------------------------------------
(* WindowsWasapiEngineRuntime: start() and stop(), which the engine calls  *)
(* one at a time, and the supervisor thread.                               *)

Start ==
  /\ control = "idle" /\ ~active
  /\ thread = "ended"
  /\ \E result \in OpenResults :
       LET started == OpenAs([NewSupervisor EXCEPT !.policy = RequestStart(@)], result)
       IN  IF started.policy.state = "Faulted"
           THEN /\ supervisor' = NoSupervisor
                /\ UNCHANGED <<active, thread, stop_requested>>
           ELSE /\ supervisor' = started
                /\ active' = TRUE /\ thread' = "registering" /\ stop_requested' = FALSE
  /\ prepared' = NoLoop
  /\ UNCHANGED <<environmentVars, registered, unseen, control>>

Stop ==
  /\ control = "idle"
  /\ stop_requested' = TRUE /\ control' = "joining"
  /\ UNCHANGED <<environmentVars, prepared, supervisor, active, thread, registered, unseen>>

StopJoined ==
  /\ control = "joining" /\ thread = "ended"
  /\ supervisor' = NoSupervisor
  /\ stop_requested' = FALSE /\ active' = FALSE /\ control' = "idle"
  /\ UNCHANGED <<environmentVars, prepared, thread, registered, unseen>>

\* Registration may fail; the runtime then works without notifications.
Register ==
  /\ thread = "registering"
  /\ registered' \in BOOLEAN
  /\ unseen' = {}
  /\ thread' = "waiting"
  /\ UNCHANGED <<environmentVars, prepared, supervisor, active, stop_requested, control>>

WaitEnds ==
  /\ thread = "waiting" /\ stop_requested
  /\ thread' = "leaving"
  /\ UNCHANGED <<environmentVars, prepared, supervisor, active, registered, unseen,
                 stop_requested, control>>

Tick ==
  /\ thread = "waiting" /\ ~stop_requested
  /\ LET asked == BeforeOpening(supervisor)
     IN  IF asked.policy.state = "Opening"
         THEN /\ \E result \in OpenResults : supervisor' = OpenAs(asked, result)
              /\ prepared' = NoLoop
         ELSE supervisor' = asked /\ UNCHANGED prepared
  /\ thread' = "polling"
  /\ UNCHANGED <<environmentVars, active, registered, unseen, stop_requested, control>>

PollAndCheck ==
  /\ thread = "polling"
  /\ supervisor' = IF registered THEN Poll(supervisor, unseen) ELSE supervisor
  /\ unseen' = {}
  /\ IF supervisor'.policy.state = "Faulted"
     THEN active' = FALSE /\ thread' = "leaving"
     ELSE active' = active /\ thread' = "waiting"
  /\ UNCHANGED <<environmentVars, prepared, registered, stop_requested, control>>

Unregister ==
  /\ thread = "leaving"
  /\ registered' = FALSE /\ unseen' = {} /\ thread' = "ended"
  /\ UNCHANGED <<environmentVars, prepared, supervisor, active, stop_requested, control>>

\* Time passes, but not within a wake, which has one now_ms.
Less(time) == IF time = 0 THEN 0 ELSE time - 1

Elapse ==
  /\ supervisor # NoSupervisor /\ thread # "polling"
  /\ supervisor' =
       [supervisor EXCEPT
          !.policy.deadline = Less(@), !.policy.next_attempt = Less(@), !.settle = Less(@),
          !.policy.running_for = IF supervisor.policy.state = "Running"
                                 THEN Min({@ + 1, StabilityWindow}) ELSE @]
  /\ UNCHANGED <<environmentVars, prepared, active, thread, registered, unseen,
                 stop_requested, control>>

-----------------------------------------------------------------------------

Init ==
  /\ default \in [Directions -> Devices]
  /\ healthy \in BOOLEAN
  /\ prepared = IF LoopIsPrepared THEN Selected ELSE NoLoop
  /\ supervisor = NoSupervisor
  /\ active = FALSE /\ thread = "ended" /\ registered = FALSE /\ unseen = {}
  /\ stop_requested = FALSE /\ control = "idle"

Thread ==
  \/ Register
  \/ WaitEnds
  \/ Tick
  \/ PollAndCheck
  \/ Unregister

Next ==
  \/ ChangeDefault
  \/ ChangeHealth
  \/ LoopDies
  \/ Start
  \/ Stop
  \/ StopJoined
  \/ Thread
  \/ Elapse

\* The supervisor thread wakes every 20 ms, a stop() that waits for the thread goes
\* on when it has ended, and time passes between the wakes, again and again.
Fairness == WF_vars(Thread) /\ SF_vars(Elapse) /\ WF_vars(StopJoined)

Spec == Init /\ [][Next]_vars /\ Fairness

-----------------------------------------------------------------------------

\* The thread runs for a runtime that says it does.
TypeOK ==
  /\ default \in [Directions -> Devices]
  /\ prepared \in [Directions -> Devices] \union {NoLoop}
  /\ supervisor \in Supervisors \union {NoSupervisor}
  /\ active \in BOOLEAN
  /\ thread \in {"ended", "registering", "waiting", "polling", "leaving"}
  /\ thread \in {"registering", "waiting", "polling"} => active
  /\ unseen \subseteq Directions

=============================================================================
