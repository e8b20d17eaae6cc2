-------------------------- MODULE MCWasapiRecovery --------------------------
(* WasapiRecovery with the history its properties speak of: how often the  *)
(* devices were opened in quick succession, and whether the default moved  *)
(* while nobody listened.                                                  *)
EXTENDS WasapiRecovery

CONSTANTS d1, d2

\* The policy's 0, 500 and 3000 ms, its windows of 5000 ms being 3.
MCAttemptDelays == <<0, 1, 2>>

MCPinned == [d \in Directions \ Follow |-> d1]

VARIABLES since,   \* the last opening, up to DeviceRetryDelay
          fast,    \* openings sooner than that since the loop was last stable
          missed   \* the followed default moved and no poll will tell

historyVars == <<since, fast, missed>>

Starts == thread = "ended" /\ thread' = "registering"

Opens == \/ Starts
         \/ /\ thread = "waiting" /\ thread' = "polling"
            /\ BeforeOpening(supervisor).policy.state = "Opening"

Stable == supervisor # NoSupervisor /\ supervisor.policy.state = "Running"
          /\ supervisor.policy.running_for = StabilityWindow

Watched == registered /\ supervisor # NoSupervisor /\ supervisor.initialized

History ==
  /\ since' = IF Opens THEN 0 ELSE IF Elapse THEN Min({since + 1, DeviceRetryDelay}) ELSE since
  /\ fast' = IF Starts THEN 0
             ELSE (IF Stable THEN 0 ELSE fast)
                    + (IF Opens /\ since < DeviceRetryDelay THEN 1 ELSE 0)
  /\ missed' = IF Opens /\ prepared = NoLoop THEN FALSE
               ELSE missed \/ (/\ \E d \in Follow : default'[d] # default[d]
                               /\ ~Watched
                               /\ prepared # NoLoop \/ supervisor # NoSupervisor)

MCInit == Init /\ since = 0 /\ fast = 0 /\ missed = FALSE

MCSpec == MCInit /\ [][Next /\ History]_<<vars, historyVars>> /\ Fairness

-----------------------------------------------------------------------------

\* Whoever is not in a wake sees a supervisor and a policy that agree: there is a
\* loop exactly while the policy believes one runs, a reopening is pending only
\* for a loop that runs, an episode ends with the loop that ends it, and a runtime
\* that reports itself stopped holds no device (quiesce(), handle_failure(), tick()).
SupervisorAgreesWithPolicy ==
  IF supervisor = NoSupervisor THEN ~active
  ELSE LET s == supervisor
       IN  /\ s.policy.state \in {"Running", "Backoff", "Faulted"}
           /\ s.policy.state = "Running" <=> s.loop # NoLoop
           /\ s.policy.state = "Backoff" <=> s.episode
           /\ s.pending => s.policy.state = "Running"
           /\ ~active => s.policy.state = "Faulted"

\* A device that fails over and over is opened at the fast attempts and then at most
\* once every DeviceRetryDelay, until a loop has run for a whole stability window:
\* the supervisor does not spin (roadmap: "a bounded five-second retry cadence").
BoundedCadence == fast <= Len(AttemptDelays)

\* When the devices stay well and no change of the default went unheard, the route
\* plays on the selected devices again, unless the runtime has ended.
RouteResumes ==
  (<>[](healthy /\ ~missed) /\ <>[][FALSE]_default)
    => \/ []<>~active
       \/ <>[](/\ supervisor # NoSupervisor /\ Running(supervisor)
               /\ supervisor.loop.devices = Selected)

\* "Explicit device-loss failures continue with one reopen attempt every five seconds
\* [...] without leaving the engine permanently faulted" (current-system.md:391-394):
\* only an error that is no loss of a device ends the retries.
DeviceLossKeepsRetrying ==
  supervisor # NoSupervisor /\ supervisor.policy.state = "Faulted"
    => ~supervisor.policy.device_retry \/ ~Recoverable(Classify(supervisor.errors))

=============================================================================
