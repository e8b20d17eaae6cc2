------------------------ MODULE WasapiRecoveryProofs ------------------------
(***************************************************************************)
(* Proofs about the recovery of a WASAPI runtime, for all devices, delays, *)
(* windows and failures. RecoveryInv counts the openings against the       *)
(* policy's attempts: as long as the openings are remembered so are the    *)
(* attempts, and an opening that is due without an attempt of its own is   *)
(* a whole DeviceRetryDelay after the last. The functions of the policy    *)
(* and of the supervisor keep this one by one (the lemmas), a wake by      *)
(* composing them, and so does every step.                                 *)
(***************************************************************************)
EXTENDS MCWasapiRecovery, TLAPS

-----------------------------------------------------------------------------
(* The inductive invariant. *)

Attempts == Len(AttemptDelays)

HistoryTypeOK == since \in Nat /\ fast \in Nat

\* An opening that is due within less than the retry's delay is one of the
\* schedule's, of which the budget has one left.
Budget(p, openings, time) ==
  /\ openings <= p.attempts
  /\ p.state = "Backoff" => openings < p.attempts \/ time + p.next_attempt >= DeviceRetryDelay

\* Attempts may be forgotten when the openings are.
Credit(p, openings) ==
  p.state = "Running" /\ p.running_for = StabilityWindow => openings = 0

Within(p, openings, time) ==
  p \in Policies /\ Budget(p, openings, time) /\ Credit(p, openings)

Openings == IF Stable THEN 0 ELSE fast

OpeningsAreBudgeted ==
  /\ fast <= Attempts
  /\ supervisor # NoSupervisor => Budget(supervisor.policy, fast, since)

Agrees(s) ==
  /\ s.policy.state \in {"Running", "Backoff", "Faulted"}
  /\ s.policy.state = "Running" <=> s.loop # NoLoop
  /\ s.policy.state = "Backoff" <=> s.episode
  /\ s.pending => s.policy.state = "Running"

RecoveryInv == TypeOK /\ HistoryTypeOK /\ OpeningsAreBudgeted /\ SupervisorAgreesWithPolicy

-----------------------------------------------------------------------------
(* The policy. *)

LEMMA DelaysAreNumbers ==
  ASSUME Configuration
  PROVE  /\ Attempts \in Nat
         /\ \A i \in 1 .. Attempts : AttemptDelays[i] \in Nat
         /\ RecoveryDeadline \in Nat /\ DeviceRetryDelay \in Nat
         /\ StabilityWindow \in Nat /\ SettleTime \in Nat
BY DEF Configuration, Attempts

LEMMA ResetIsBudgeted ==
  ASSUME Configuration, NEW p, NEW n \in Nat, NEW t \in Nat, Within(p, n, t)
  PROVE  Within(ResetIfStable(p), n, t) /\ ResetIfStable(p).state = p.state
<1> DEFINE clear == ClearRecovery(p)
<1>1. p \in Policies
  BY DEF Within
<1>2. ClearedPolicy \in Policies /\ ClearedPolicy.attempts = 0
  BY DelaysAreNumbers DEF ClearedPolicy, Policies
<1>3. /\ clear \in Policies
      /\ clear.state = p.state /\ clear.running_for = p.running_for /\ clear.attempts = 0
  <2>1. p.state \in {"Stopped", "Opening", "Running", "Quiescing", "Backoff", "Faulted"}
        /\ p.running_for \in Nat
    BY <1>1 DEF Policies
  <2> QED BY <1>2, <2>1 DEF ClearRecovery, Policies
<1> HIDE DEF clear
<1>4. ASSUME p.state = "Running", p.running_for = StabilityWindow
      PROVE  Within(clear, n, t)
  BY <1>3, <1>4 DEF Within, Budget, Credit
<1> QED
  BY <1>3, <1>4 DEF ResetIfStable, clear

LEMMA FaultIsBudgeted ==
  ASSUME NEW p, NEW n \in Nat, NEW t \in Nat, Within(p, n, t)
  PROVE  Within(Fault(p), n, t) /\ Fault(p).state = "Faulted"
<1>1. p \in Policies
  BY DEF Within
<1>2. Fault(p) \in Policies /\ Fault(p).state = "Faulted" /\ Fault(p).attempts = p.attempts
  BY <1>1 DEF Fault, Policies
<1> QED
  BY <1>2 DEF Within, Budget, Credit

LEMMA ScheduleIsBudgeted ==
  ASSUME Configuration, NEW p, NEW n \in Nat, NEW t \in Nat, Within(p, n, t)
  PROVE  /\ Within(ScheduleRecovery(p), n, t)
         /\ ScheduleRecovery(p).state \in {"Backoff", "Faulted"}
<1>1. CASE p.deadline = 0 \/ p.attempts >= Attempts
  <2> DEFINE retry == [p EXCEPT !.next_attempt = DeviceRetryDelay,
                                !.deadline = DeviceRetryDelay, !.state = "Backoff"]
  <2>1. retry \in Policies /\ retry.state = "Backoff" /\ retry.attempts = p.attempts
        /\ retry.next_attempt = DeviceRetryDelay
    BY DelaysAreNumbers DEF Policies, Within
  <2> HIDE DEF retry
  <2>2. Within(retry, n, t)
    BY <2>1, DelaysAreNumbers DEF Within, Budget, Credit
  <2>3. ScheduleRecovery(p) = IF p.device_retry THEN retry ELSE Fault(p)
    BY <1>1 DEF ScheduleRecovery, Attempts, retry
  <2> QED BY <2>1, <2>2, <2>3, FaultIsBudgeted
<1>2. CASE ~(p.deadline = 0 \/ p.attempts >= Attempts)
  <2>1. p.attempts + 1 \in 1 .. Attempts
    BY <1>2, DelaysAreNumbers DEF Within, Policies
  <2>2. AttemptDelays[p.attempts + 1] \in Nat
    BY <2>1, DelaysAreNumbers
  <2> DEFINE delay == AttemptDelays[p.attempts + 1]
             next  == [p EXCEPT !.attempts = @ + 1, !.next_attempt = delay, !.state = "Backoff"]
  <2>3. ScheduleRecovery(p) = next
    BY <1>2 DEF ScheduleRecovery, Attempts
  <2> HIDE DEF delay
  <2>4. next \in Policies /\ next.state = "Backoff" /\ next.attempts = p.attempts + 1
    <3>1. p.attempts + 1 \in 0 .. Attempts /\ delay \in Nat /\ p \in Policies
      BY <2>1, <2>2, DelaysAreNumbers DEF delay, Within
    <3> QED BY <3>1 DEF Policies, Attempts
  <2> HIDE DEF next
  <2>5. p.attempts \in Nat
    BY DelaysAreNumbers DEF Within, Policies
  <2> QED
    BY <2>3, <2>4, <2>5 DEF Within, Budget, Credit
<1> QED
  BY <1>1, <1>2

LEMMA FailureIsBudgeted ==
  ASSUME Configuration, NEW p, NEW n \in Nat, NEW t \in Nat, Within(p, n, t),
         NEW class, p.state \in {"Opening", "Running"}
  PROVE  LET q == OnFailure(p, class) IN
         /\ Within(q, n, t)
         /\ q.state = "Faulted" \/ (Recoverable(class) /\ q.state \in {"Quiescing", "Backoff"})
         /\ q.state = "Quiescing" => p.state = "Running" /\ q.recovery_pending
         /\ q.state = "Backoff" => p.state = "Opening"
<1> DEFINE steady == ResetIfStable(p)
           begun  == BeginRecovery([steady EXCEPT !.device_retry = @ \/ class = "DeviceInvalidated"])
<1>1. Within(steady, n, t) /\ steady.state = p.state
  BY ResetIsBudgeted
<1>2. Within(begun, n, t) /\ begun.state = p.state
  <2> HIDE DEF steady
  <2> QED BY <1>1, DelaysAreNumbers DEF Within, Budget, Credit, BeginRecovery, Policies
<1>3. OnFailure(p, class) = IF ~Recoverable(class) THEN Fault(steady)
           ELSE IF begun.state = "Running"
                THEN [begun EXCEPT !.recovery_pending = TRUE, !.state = "Quiescing"]
                ELSE ScheduleRecovery(begun)
  BY DEF OnFailure
<1> HIDE DEF steady, begun
<1>4. CASE ~Recoverable(class)
  BY <1>1, <1>3, <1>4, FaultIsBudgeted
<1>5. CASE Recoverable(class) /\ begun.state = "Running"
  <2> DEFINE q == [begun EXCEPT !.recovery_pending = TRUE, !.state = "Quiescing"]
  <2>1. OnFailure(p, class) = q
    BY <1>3, <1>5
  <2>2. begun \in Policies
    BY <1>2 DEF Within
  <2>3. /\ q \in Policies /\ q.state = "Quiescing" /\ q.recovery_pending
        /\ q.attempts = begun.attempts
    BY <2>2 DEF Policies
  <2> HIDE DEF q
  <2>4. Within(q, n, t)
    BY <1>2, <2>3 DEF Within, Budget, Credit
  <2> QED BY <1>2, <1>5, <2>1, <2>3, <2>4
<1>6. CASE Recoverable(class) /\ begun.state # "Running"
  BY <1>2, <1>3, <1>6, ScheduleIsBudgeted
<1> QED
  BY <1>4, <1>5, <1>6

LEMMA QuiescedIsBudgeted ==
  ASSUME Configuration, NEW p, NEW n \in Nat, NEW t \in Nat, Within(p, n, t),
         p.state = "Quiescing", p.recovery_pending
  PROVE  /\ Within(OnQuiesced(p), n, t)
         /\ OnQuiesced(p).state \in {"Backoff", "Faulted"}
<1> DEFINE q == [p EXCEPT !.recovery_pending = FALSE]
<1>1. Within(q, n, t)
  BY DEF Within, Budget, Credit, Policies
<1>2. OnQuiesced(p) = ScheduleRecovery(q)
  BY DEF OnQuiesced
<1> QED
  BY <1>1, <1>2, ScheduleIsBudgeted

\* The policy asks for an opening only when one is due.
LEMMA TickIsBudgeted ==
  ASSUME Configuration, NEW p, NEW n \in Nat, NEW t \in Nat, Within(p, n, t),
         p.state \in {"Running", "Backoff", "Faulted"}
  PROVE  LET q == PolicyTick(p) IN
         /\ Within(q, n, t)
         /\ q.state # p.state => p.state = "Backoff" /\ q.state \in {"Opening", "Faulted"}
         /\ q.state = "Opening" => n < q.attempts \/ t >= DeviceRetryDelay
<1>1. CASE p.state = "Running"
  <2>1. PolicyTick(p) = ResetIfStable(p)
    BY <1>1 DEF PolicyTick
  <2> QED BY <1>1, <2>1, ResetIsBudgeted
<1>2. CASE p.state = "Faulted"
  BY <1>2 DEF PolicyTick
<1>3. CASE p.state = "Backoff"
  <2>1. PolicyTick(p) \in {p, Fault(p), [p EXCEPT !.state = "Opening"]}
    BY <1>3 DEF PolicyTick
  <2>2. PolicyTick(p) = [p EXCEPT !.state = "Opening"] => p.next_attempt = 0
    BY <1>3 DEF PolicyTick, Fault, Within, Policies
  <2>3. CASE PolicyTick(p) = p
    BY <1>3, <2>3
  <2>4. CASE PolicyTick(p) = Fault(p)
    BY <1>3, <2>4, FaultIsBudgeted
  <2>5. CASE PolicyTick(p) = [p EXCEPT !.state = "Opening"]
    <3> DEFINE open == [p EXCEPT !.state = "Opening"]
    <3>1. open \in Policies /\ open.state = "Opening" /\ open.attempts = p.attempts
      BY DEF Policies, Within
    <3> HIDE DEF open
    <3>2. p.next_attempt = 0
      BY <2>2, <2>5
    <3>3. n < p.attempts \/ t >= DeviceRetryDelay
      BY <1>3, <3>2, DelaysAreNumbers DEF Within, Budget
    <3>4. Within(open, n, t)
      BY <3>1 DEF Within, Budget, Credit
    <3> QED BY <1>3, <2>5, <3>1, <3>3, <3>4 DEF open
  <2> QED BY <2>1, <2>3, <2>4, <2>5
<1> QED
  BY <1>1, <1>2, <1>3

-----------------------------------------------------------------------------
(* The supervisor's part of a wake. *)

\* A supervisor in the course of a wake, between two of its functions.
InWake(s, n, t) ==
  /\ s \in Supervisors /\ Within(s.policy, n, t)
  /\ s.policy.state \in {"Running", "Backoff", "Faulted"}
  /\ s.policy.state = "Running" <=> s.loop # NoLoop
  /\ s.policy.state = "Backoff" => s.episode
  /\ s.policy.state = "Running" => ~s.episode
  /\ s.pending => s.policy.state = "Running"

\* One that is about to open a loop.
ToOpen(s, n, t) ==
  /\ s \in Supervisors /\ Within(s.policy, n, t)
  /\ s.policy.state = "Opening" /\ s.loop = NoLoop /\ ~s.pending

LEMMA HandledFailure ==
  ASSUME Configuration, NEW s \in Supervisors, NEW n \in Nat, NEW t \in Nat,
         Within(s.policy, n, t), NEW errors \in SUBSET FailureClasses,
         s.policy.state \in {"Opening", "Running"}
  PROVE  LET r == HandleFailure(s, errors) IN
         /\ r \in Supervisors /\ Within(r.policy, n, t)
         /\ r.loop = s.loop /\ ~r.pending
         /\ r.policy.state \in {"Quiescing", "Backoff", "Faulted"}
         /\ r.policy.state = "Quiescing" => s.policy.state = "Running" /\ r.policy.recovery_pending
         /\ r.policy.state = "Backoff" => s.policy.state = "Opening"
         /\ r.episode <=> r.policy.state # "Faulted"
<1> DEFINE class == Classify(errors)
           p == OnFailure(s.policy, class)
           episode == (NoReopen(s).episode \/ Recoverable(class)) /\ p.state # "Faulted"
<1> HIDE DEF class, p
<1>1. /\ Within(p, n, t)
      /\ p.state = "Faulted" \/ (Recoverable(class) /\ p.state \in {"Quiescing", "Backoff"})
      /\ p.state = "Quiescing" => s.policy.state = "Running" /\ p.recovery_pending
      /\ p.state = "Backoff" => s.policy.state = "Opening"
  BY FailureIsBudgeted DEF p
<1>2. episode \in BOOLEAN /\ (episode <=> p.state # "Faulted") /\ p \in Policies
  BY <1>1 DEF Within
<1>3. HandleFailure(s, errors) = [NoReopen(s) EXCEPT !.errors = errors, !.policy = p, !.episode = episode]
  BY DEF HandleFailure, p, class
<1> HIDE DEF episode
<1> DEFINE r == [NoReopen(s) EXCEPT !.errors = errors, !.policy = p, !.episode = episode]
<1>4. NoReopen(s) \in Supervisors /\ NoReopen(s).loop = s.loop /\ ~NoReopen(s).pending
  BY DEF NoReopen, Supervisors
<1>5. /\ r \in Supervisors /\ r.policy = p /\ r.loop = s.loop /\ r.pending = NoReopen(s).pending
      /\ r.episode = episode
  <2> HIDE DEF p
  <2> QED BY <1>2, <1>4 DEF Supervisors
<1> HIDE DEF r
<1> QED
  BY <1>1, <1>2, <1>3, <1>4, <1>5 DEF r

LEMMA Quiesced ==
  ASSUME Configuration, NEW s \in Supervisors, NEW n \in Nat, NEW t \in Nat,
         Within(s.policy, n, t), s.policy.state = "Quiescing", s.policy.recovery_pending, s.episode
  PROVE  InWake(Quiesce(s), n, t)
<1> DEFINE p == OnQuiesced(s.policy)
           r == [NoReopen(s) EXCEPT !.loop = NoLoop, !.policy = p]
<1> HIDE DEF p
<1>1. Within(p, n, t) /\ p.state \in {"Backoff", "Faulted"}
  BY QuiescedIsBudgeted DEF p
<1>2. /\ NoReopen(s) \in Supervisors /\ ~NoReopen(s).pending /\ NoReopen(s).policy = s.policy
      /\ NoReopen(s).episode = s.episode
  BY DEF NoReopen, Supervisors
<1>3. /\ r \in Supervisors /\ r.policy = p /\ r.loop = NoLoop /\ r.pending = NoReopen(s).pending
      /\ r.episode = s.episode
  BY <1>1, <1>2 DEF Supervisors, Within
<1>4. Quiesce(s) = r
  BY <1>2 DEF Quiesce, p
<1> HIDE DEF r
<1> QED
  BY <1>1, <1>2, <1>3, <1>4 DEF InWake

LEMMA ReopenInWake ==
  ASSUME Configuration, NEW s, NEW n \in Nat, NEW t \in Nat, InWake(s, n, t)
  PROVE  InWake(ReopenIfDue(s), n, t)
<1>1. CASE s.pending /\ s.policy.state = "Running" /\ s.settle = 0
  <2> DEFINE u == NoReopen(s)
             p == OnFailure(u.policy, "DeviceInvalidated")
             failed == [NoReopen(u) EXCEPT !.episode = TRUE, !.errors = {}, !.policy = p]
  <2> HIDE DEF p
  <2>1. u \in Supervisors /\ u.policy = s.policy
    BY DEF NoReopen, Supervisors, InWake
  <2> HIDE DEF u
  <2>2. NoReopen(u) \in Supervisors /\ NoReopen(u).policy = u.policy
    BY <2>1 DEF NoReopen, Supervisors
  <2>3. Within(p, n, t) /\ p.state \in {"Quiescing", "Faulted"}
        /\ (p.state = "Quiescing" => p.recovery_pending)
    BY <1>1, <2>1, FailureIsBudgeted DEF p, InWake
  <2>4. p.state = "Quiescing"
    <3> DEFINE steady == ResetIfStable(u.policy)
               begun == BeginRecovery([steady EXCEPT !.device_retry = @ \/ "DeviceInvalidated" = "DeviceInvalidated"])
    <3>1. steady.state = "Running" /\ steady \in Policies
      BY <1>1, <2>1, ResetIsBudgeted DEF InWake, Within
    <3>2. p = IF begun.state = "Running"
                THEN [begun EXCEPT !.recovery_pending = TRUE, !.state = "Quiescing"]
                ELSE ScheduleRecovery(begun)
      BY <1>1, <2>1 DEF p, OnFailure, Recoverable
    <3> HIDE DEF steady
    <3>3. begun.state = "Running" /\ begun \in Policies
      BY <3>1, DelaysAreNumbers DEF BeginRecovery, Policies
    <3> HIDE DEF begun
    <3> QED BY <3>2, <3>3 DEF Policies
  <2>5. failed \in Supervisors /\ failed.policy = p /\ failed.episode
    BY <2>2, <2>3 DEF Supervisors, Within
  <2>6. ReopenIfDue(s) = Quiesce(failed)
    BY <1>1, <2>1, <2>2, <2>4, <2>5 DEF ReopenIfDue, RequestReopen, p, u
  <2> HIDE DEF failed
  <2> QED BY <2>3, <2>4, <2>5, <2>6, Quiesced
<1>2. CASE ~(s.pending /\ s.policy.state = "Running" /\ s.settle = 0)
  BY <1>2 DEF ReopenIfDue
<1> QED
  BY <1>1, <1>2

LEMMA DeathInWake ==
  ASSUME Configuration, NEW s, NEW n \in Nat, NEW t \in Nat, InWake(s, n, t)
  PROVE  InWake(NoticeDeath(s), n, t)
<1>1. CASE s.policy.state # "Running" \/ Running(s)
  BY <1>1 DEF NoticeDeath
<1>2. CASE ~(s.policy.state # "Running" \/ Running(s))
  <2> DEFINE failed == HandleFailure(s, s.loop.errors)
  <2>1. s.loop # NoLoop /\ s.loop.errors \in SUBSET FailureClasses
    BY <1>2 DEF InWake, Supervisors, Loops
  <2>2. NoticeDeath(s) = IF failed.policy.state = "Quiescing" THEN Quiesce(failed)
                         ELSE [failed EXCEPT !.loop = NoLoop]
    BY <1>2, <2>1 DEF NoticeDeath
  <2>3. /\ failed \in Supervisors /\ Within(failed.policy, n, t)
        /\ ~failed.pending
        /\ failed.policy.state \in {"Quiescing", "Faulted"}
        /\ failed.policy.state = "Quiescing" => failed.policy.recovery_pending
        /\ failed.episode <=> failed.policy.state # "Faulted"
    BY <1>2, <2>1, HandledFailure DEF InWake
  <2> HIDE DEF failed
  <2>4. CASE failed.policy.state = "Quiescing"
    BY <2>2, <2>3, <2>4, Quiesced
  <2>5. CASE failed.policy.state = "Faulted"
    <3> DEFINE r == [failed EXCEPT !.loop = NoLoop]
    <3>1. /\ r \in Supervisors /\ r.policy = failed.policy /\ r.loop = NoLoop
          /\ r.pending = failed.pending /\ r.episode = failed.episode
      BY <2>3 DEF Supervisors
    <3> HIDE DEF r
    <3> QED BY <2>2, <2>3, <2>5, <3>1 DEF InWake, r
  <2> QED BY <2>3, <2>4, <2>5
<1> QED
  BY <1>1, <1>2

\* Before the loop may be opened; if it is, the opening is within the budget.
LEMMA BeforeOpeningInWake ==
  ASSUME Configuration, NEW s, NEW n \in Nat, NEW t \in Nat, InWake(s, n, t)
  PROVE  LET r == BeforeOpening(s) IN
         IF r.policy.state = "Opening"
         THEN /\ ToOpen(r, n, t)
              /\ r.episode
              /\ n < r.policy.attempts \/ t >= DeviceRetryDelay
         ELSE InWake(r, n, t) /\ Agrees(r)
<1> DEFINE u == NoticeDeath(ReopenIfDue(s))
           p == PolicyTick(u.policy)
           episode == u.episode /\ p.state # "Faulted"
           r == [u EXCEPT !.policy = p, !.episode = episode]
<1>1. InWake(u, n, t)
  BY ReopenInWake, DeathInWake
<1>2. BeforeOpening(s) = r
  BY DEF BeforeOpening, AskPolicy
<1> HIDE DEF u, p
<1>3. /\ Within(p, n, t)
      /\ p.state # u.policy.state => u.policy.state = "Backoff" /\ p.state \in {"Opening", "Faulted"}
      /\ p.state = "Opening" => n < p.attempts \/ t >= DeviceRetryDelay
  BY <1>1, TickIsBudgeted DEF InWake, p
<1>4. episode \in BOOLEAN /\ (episode <=> u.episode /\ p.state # "Faulted")
  BY <1>1 DEF InWake, Supervisors
<1> HIDE DEF episode
<1>5. /\ r \in Supervisors /\ r.policy = p /\ r.loop = u.loop /\ r.pending = u.pending
      /\ r.episode = episode
  BY <1>1, <1>3, <1>4 DEF InWake, Within, Supervisors
<1> HIDE DEF r
<1> QED
  BY <1>1, <1>2, <1>3, <1>4, <1>5 DEF InWake, ToOpen, Agrees

\* An opening succeeds, or is the next failure.
LEMMA OpenedInWake ==
  ASSUME Configuration, NEW s, NEW n \in Nat, NEW t \in Nat, ToOpen(s, n, t),
         NEW result, \/ /\ result.ok = TRUE /\ result.devices \in [Directions -> Devices]
                     \/ /\ result.ok = FALSE /\ result.errors \in SUBSET FailureClasses
  PROVE  LET r == OpenAs(s, result) IN
         r \in Supervisors /\ Budget(r.policy, n, t) /\ Agrees(r)
<1>1. CASE result.ok = FALSE
  <2> DEFINE r == HandleFailure(s, result.errors)
  <2>1. OpenAs(s, result) = r
    BY <1>1 DEF OpenAs
  <2>2. /\ r \in Supervisors /\ Within(r.policy, n, t)
        /\ r.loop = s.loop /\ ~r.pending
        /\ r.policy.state \in {"Quiescing", "Backoff", "Faulted"}
        /\ r.policy.state = "Quiescing" => s.policy.state = "Running" /\ r.policy.recovery_pending
        /\ r.episode <=> r.policy.state # "Faulted"
    BY <1>1, HandledFailure DEF ToOpen
  <2> HIDE DEF r
  <2>3. r.policy.state \in {"Backoff", "Faulted"} /\ Budget(r.policy, n, t)
    BY <2>2 DEF ToOpen, Within
  <2>4. (r.policy.state = "Backoff" <=> r.episode) /\ r.loop = NoLoop
    BY <2>2, <2>3 DEF ToOpen
  <2>5. Agrees(r)
    BY <2>2, <2>3, <2>4 DEF Agrees
  <2> QED BY <2>1, <2>2, <2>3, <2>5
<1>2. CASE result.ok = TRUE
  <2> DEFINE p == OnOpenSucceeded(s.policy)
             loop == [devices |-> result.devices, running |-> TRUE, errors |-> {}]
             stale == IF s.initialized THEN {} ELSE s.stale
             r == [s EXCEPT !.loop = loop, !.errors = {}, !.policy = p, !.episode = FALSE,
                            !.stale = stale]
  <2>1. OpenAs(s, result) = r
    BY <1>2 DEF OpenAs
  <2>2. p \in Policies /\ p.state = "Running" /\ p.attempts = s.policy.attempts /\ p.running_for = 0
    BY DEF OnOpenSucceeded, ToOpen, Within, Policies
  <2>3. loop \in Loops
    BY <1>2 DEF Loops
  <2>4. stale \in SUBSET Directions
    BY DEF ToOpen, Supervisors
  <2> HIDE DEF p, loop, stale
  <2>5. /\ r \in Supervisors /\ r.policy = p /\ r.loop = loop /\ r.pending = s.pending
        /\ r.episode = FALSE
    BY <2>2, <2>3, <2>4 DEF ToOpen, Supervisors
  <2> HIDE DEF r
  <2>6. Budget(p, n, t)
    BY <2>2 DEF ToOpen, Within, Budget
  <2>7. Agrees(r)
    BY <2>2, <2>3, <2>5, MarksAreNone DEF ToOpen, Agrees
  <2> QED BY <2>1, <2>5, <2>6, <2>7
<1> QED
  BY <1>1, <1>2

-----------------------------------------------------------------------------
(* The steps. *)

LEMMA LeastOfTwo ==
  ASSUME NEW a \in Nat, NEW b \in Nat
  PROVE  Min({a, b}) = IF a <= b THEN a ELSE b
<1> DEFINE m == IF a <= b THEN a ELSE b
<1>1. m \in {a, b} /\ \A y \in {a, b} : m <= y
  OBVIOUS
<1>2. \A x \in {a, b} : (\A y \in {a, b} : x <= y) => x = m
  OBVIOUS
<1> HIDE DEF m
<1>3. Min({a, b}) \in {a, b} /\ \A y \in {a, b} : Min({a, b}) <= y
  BY <1>1 DEF Min
<1> QED
  BY <1>2, <1>3 DEF m

LEMMA AnswersAreTyped ==
  ASSUME Configuration, TypeOK, NEW result \in OpenResults
  PROVE  \/ result.ok = TRUE /\ result.devices \in [Directions -> Devices]
         \/ result.ok = FALSE /\ result.errors \in SUBSET FailureClasses
<1>1. Selected \in [Directions -> Devices]
  BY DEF Selected, Configuration, TypeOK
<1>2. (IF prepared = NoLoop THEN Selected ELSE prepared) \in [Directions -> Devices]
  BY <1>1 DEF TypeOK
<1> QED
  BY <1>2 DEF OpenResults, Configuration

\* Without an opening and while no time passes.
LEMMA Meanwhile ==
  ASSUME RecoveryInv, History, ~Opens, ~Elapse
  PROVE  /\ since' = since /\ fast' \in {0, fast}
         /\ HistoryTypeOK' /\ fast' <= Len(AttemptDelays)
<1>1. ~Starts
  BY DEF Opens
<1>2. since' = since /\ fast' = Openings + 0
  BY <1>1 DEF History, Openings
<1> QED
  BY <1>2 DEF RecoveryInv, HistoryTypeOK, OpeningsAreBudgeted, Openings, Attempts

\* A step that leaves the policy as it is.
LEMMA KeepsBudget ==
  ASSUME Configuration, RecoveryInv, History, ~Opens, ~Elapse,
         supervisor' # NoSupervisor => supervisor # NoSupervisor /\ supervisor'.policy = supervisor.policy
  PROVE  HistoryTypeOK' /\ OpeningsAreBudgeted'
<1>1. since' = since /\ fast' \in {0, fast} /\ HistoryTypeOK' /\ fast' <= Len(AttemptDelays)
  BY Meanwhile
<1>2. ASSUME supervisor' # NoSupervisor
      PROVE  Budget(supervisor'.policy, fast', since')
  <2>1. supervisor.policy \in Policies
    BY <1>2 DEF RecoveryInv, TypeOK, Supervisors
  <2>2. Budget(supervisor.policy, fast, since)
    BY <1>2 DEF RecoveryInv, OpeningsAreBudgeted
  <2>3. fast' \in Nat /\ fast' <= fast /\ fast \in Nat
    BY <1>1 DEF RecoveryInv, HistoryTypeOK
  <2>4. supervisor.policy.attempts \in Nat
    BY <2>1, DelaysAreNumbers DEF Policies, Attempts
  <2>5. Budget(supervisor.policy, fast', since)
    BY <2>2, <2>3, <2>4 DEF Budget
  <2> QED
    BY <1>1, <1>2, <2>5
<1> QED
  BY <1>1, <1>2 DEF OpeningsAreBudgeted, Attempts

LEMMA ChangeDefaultKeeps ==
  ASSUME Configuration, RecoveryInv, ChangeDefault, History, ~Elapse PROVE RecoveryInv'
<1>1. ~Opens
  BY DEF ChangeDefault, Opens, Starts
<1>2. TypeOK'
  BY DEF RecoveryInv, TypeOK, ChangeDefault
<1>3. HistoryTypeOK' /\ OpeningsAreBudgeted'
  BY <1>1, KeepsBudget DEF ChangeDefault
<1>4. SupervisorAgreesWithPolicy'
  BY DEF RecoveryInv, SupervisorAgreesWithPolicy, ChangeDefault
<1> QED
  BY <1>2, <1>3, <1>4 DEF RecoveryInv

LEMMA ChangeHealthKeeps ==
  ASSUME Configuration, RecoveryInv, ChangeHealth, History, ~Elapse PROVE RecoveryInv'
<1>1. ~Opens
  BY DEF ChangeHealth, Opens, Starts
<1>2. TypeOK'
  BY DEF RecoveryInv, TypeOK, ChangeHealth
<1>3. HistoryTypeOK' /\ OpeningsAreBudgeted'
  BY <1>1, KeepsBudget DEF ChangeHealth
<1>4. SupervisorAgreesWithPolicy'
  BY DEF RecoveryInv, SupervisorAgreesWithPolicy, ChangeHealth
<1> QED
  BY <1>2, <1>3, <1>4 DEF RecoveryInv

LEMMA LoopDiesKeeps ==
  ASSUME Configuration, RecoveryInv, LoopDies, History, ~Elapse PROVE RecoveryInv'
<1>1. ~Opens
  BY DEF LoopDies, Opens, Starts
<1>2. PICK errors \in Failures :
        supervisor' = [supervisor EXCEPT !.loop.running = FALSE, !.loop.errors = errors]
  BY DEF LoopDies
<1> DEFINE loop == [supervisor.loop EXCEPT !.running = FALSE, !.errors = errors]
<1>3. supervisor \in Supervisors /\ supervisor.loop \in Loops
  BY DEF RecoveryInv, TypeOK, LoopDies, Running, Supervisors
<1>4. errors \in SUBSET FailureClasses
  BY DEF Configuration
<1>5. loop \in Loops
  BY <1>3, <1>4 DEF Loops
<1>6. supervisor' = [supervisor EXCEPT !.loop = loop]
  BY <1>2, <1>3 DEF Supervisors, Loops
<1> HIDE DEF loop
<1>7. /\ supervisor' \in Supervisors /\ supervisor'.policy = supervisor.policy
      /\ supervisor'.loop = loop /\ supervisor'.episode = supervisor.episode
      /\ supervisor'.pending = supervisor.pending
  BY <1>3, <1>5, <1>6 DEF Supervisors
<1>8. TypeOK'
  BY <1>7 DEF RecoveryInv, TypeOK, LoopDies, environmentVars
<1>9. HistoryTypeOK' /\ OpeningsAreBudgeted'
  BY <1>1, <1>7, KeepsBudget DEF LoopDies
<1>10. SupervisorAgreesWithPolicy'
  BY <1>3, <1>5, <1>7, MarksAreNone DEF RecoveryInv, SupervisorAgreesWithPolicy, LoopDies
<1> QED
  BY <1>8, <1>9, <1>10 DEF RecoveryInv

\* Steps of stop() and of the thread that leave the supervisor alone or destroy it.
LEMMA OthersKeep ==
  ASSUME Configuration, RecoveryInv, Stop \/ StopJoined \/ Register \/ WaitEnds \/ Unregister,
         History, ~Elapse
  PROVE  RecoveryInv'
<1>1. ~Opens
  BY DEF Stop, StopJoined, Register, WaitEnds, Unregister, Opens, Starts
<1>2. TypeOK'
  BY DEF RecoveryInv, TypeOK, Stop, StopJoined, Register, WaitEnds, Unregister, environmentVars
<1>3. HistoryTypeOK' /\ OpeningsAreBudgeted'
  BY <1>1, KeepsBudget DEF Stop, StopJoined, Register, WaitEnds, Unregister
<1>4. SupervisorAgreesWithPolicy'
  BY DEF RecoveryInv, SupervisorAgreesWithPolicy, Stop, StopJoined, Register, WaitEnds, Unregister
<1> QED
  BY <1>2, <1>3, <1>4 DEF RecoveryInv

LEMMA StartKeeps ==
  ASSUME Configuration, RecoveryInv, Start, History, ~Elapse PROVE RecoveryInv'
<1> USE DEF environmentVars
<1>1. PICK result \in OpenResults :
        LET started == OpenAs([NewSupervisor EXCEPT !.policy = RequestStart(@)], result)
        IN  IF started.policy.state = "Faulted"
            THEN /\ supervisor' = NoSupervisor
                 /\ UNCHANGED <<active, thread, stop_requested>>
            ELSE /\ supervisor' = started
                 /\ active' = TRUE /\ thread' = "registering" /\ stop_requested' = FALSE
  BY DEF Start
<1> DEFINE p == RequestStart(ClearedPolicy)
           s == [NewSupervisor EXCEPT !.policy = p]
           started == OpenAs(s, result)
<1>2. p \in Policies /\ p.state = "Opening" /\ p.attempts \in Nat
  <2>1. p = [ClearRecovery(ClearedPolicy) EXCEPT !.running_for = 0, !.state = "Opening"]
    BY DEF RequestStart, ClearedPolicy
  <2>2. ClearedPolicy \in Policies
    BY DelaysAreNumbers DEF ClearedPolicy, Policies, Attempts
  <2>3. ClearRecovery(ClearedPolicy) \in Policies
    BY <2>2, DelaysAreNumbers DEF Policies, ClearRecovery
  <2> HIDE DEF p
  <2>4. p \in Policies /\ p.state = "Opening"
    BY <2>1, <2>3 DEF Policies
  <2> QED BY <2>4, DelaysAreNumbers DEF Policies, Attempts
<1>3. s = [NewSupervisor EXCEPT !.policy = RequestStart(@)]
  BY DEF NewSupervisor
<1> HIDE DEF p
<1>4. NewSupervisor \in Supervisors /\ NewSupervisor.loop = NoLoop /\ ~NewSupervisor.pending
  <2>1. ClearedPolicy \in Policies
    BY DelaysAreNumbers DEF ClearedPolicy, Policies, Attempts
  <2> QED BY <2>1 DEF NewSupervisor, Supervisors
<1>5. s \in Supervisors /\ s.policy = p /\ s.loop = NoLoop /\ s.pending = NewSupervisor.pending
  BY <1>2, <1>4 DEF Supervisors
<1> HIDE DEF s
<1>6. ToOpen(s, 0, 0)
  BY <1>2, <1>4, <1>5 DEF ToOpen, Within, Budget, Credit
<1>7. started \in Supervisors /\ Budget(started.policy, 0, 0) /\ Agrees(started)
  <2>1. \/ result.ok = TRUE /\ result.devices \in [Directions -> Devices]
        \/ result.ok = FALSE /\ result.errors \in SUBSET FailureClasses
    BY AnswersAreTyped DEF RecoveryInv
  <2> QED BY <1>6, <2>1, OpenedInWake
<1> HIDE DEF started
<1>8. CASE started.policy.state = "Faulted"
  <2>1. supervisor' = NoSupervisor /\ UNCHANGED <<active, thread, stop_requested>>
    BY <1>1, <1>3, <1>8 DEF started
  <2>2. ~Opens
    BY <2>1 DEF Start, Opens, Starts
  <2>3. TypeOK'
    BY <2>1 DEF RecoveryInv, TypeOK, Start
  <2>4. HistoryTypeOK' /\ OpeningsAreBudgeted'
    BY <2>1, <2>2, KeepsBudget
  <2>5. SupervisorAgreesWithPolicy'
    BY <2>1 DEF RecoveryInv, SupervisorAgreesWithPolicy, Start
  <2> QED BY <2>3, <2>4, <2>5 DEF RecoveryInv
<1>9. CASE started.policy.state # "Faulted"
  <2>1. supervisor' = started /\ active' = TRUE /\ thread' = "registering"
    BY <1>1, <1>3, <1>9 DEF started
  <2>2. since' = 0 /\ fast' = 0
    BY <2>1 DEF Start, Opens, Starts, History
  <2>3. TypeOK'
    BY <1>7, <2>1 DEF RecoveryInv, TypeOK, Start
  <2>4. HistoryTypeOK' /\ OpeningsAreBudgeted'
    BY <1>7, <2>1, <2>2, DelaysAreNumbers DEF HistoryTypeOK, OpeningsAreBudgeted
  <2>5. SupervisorAgreesWithPolicy'
    BY <1>7, <2>1, MarksAreNone DEF Agrees, SupervisorAgreesWithPolicy
  <2> QED BY <2>3, <2>4, <2>5 DEF RecoveryInv
<1> QED
  BY <1>8, <1>9

LEMMA TickKeeps ==
  ASSUME Configuration, RecoveryInv, Tick, History, ~Elapse PROVE RecoveryInv'
<1> USE DEF environmentVars
<1> DEFINE asked == BeforeOpening(supervisor)
           n == Openings
<1>1. /\ thread = "waiting" /\ thread' = "polling" /\ active /\ UNCHANGED active
      /\ supervisor # NoSupervisor /\ supervisor \in Supervisors
      /\ supervisor.policy \in Policies
  BY DEF Tick, RecoveryInv, TypeOK, SupervisorAgreesWithPolicy, Supervisors
<1>2. n \in Nat /\ n <= fast /\ since \in Nat /\ ~Starts
  BY <1>1 DEF RecoveryInv, HistoryTypeOK, Openings, Starts
<1>3. InWake(supervisor, n, since)
  <2>1. Credit(supervisor.policy, n)
    BY <1>1 DEF Credit, Openings, Stable
  <2>2. Budget(supervisor.policy, n, since)
    BY <1>1, <1>2, DelaysAreNumbers
       DEF RecoveryInv, OpeningsAreBudgeted, HistoryTypeOK, Budget, Policies, Attempts
  <2> QED
    BY <1>1, <2>1, <2>2
       DEF InWake, Within, RecoveryInv, SupervisorAgreesWithPolicy
<1>4. IF asked.policy.state = "Opening"
      THEN /\ ToOpen(asked, n, since)
           /\ asked.episode
           /\ n < asked.policy.attempts \/ since >= DeviceRetryDelay
      ELSE InWake(asked, n, since) /\ Agrees(asked)
  BY <1>2, <1>3, BeforeOpeningInWake
<1> HIDE DEF asked, n
<1>5. CASE asked.policy.state # "Opening"
  <2>1. supervisor' = asked /\ prepared' = prepared
    BY <1>5 DEF Tick, asked
  <2>2. since' = since /\ fast' = n
    BY <1>1, <1>2, <1>5 DEF History, Opens, Starts, asked, n, Openings
  <2>3. asked \in Supervisors /\ Budget(asked.policy, n, since) /\ Agrees(asked)
    BY <1>4, <1>5 DEF InWake, Within
  <2>4. TypeOK'
    BY <1>1, <2>1, <2>3 DEF RecoveryInv, TypeOK, Tick
  <2>5. HistoryTypeOK' /\ OpeningsAreBudgeted'
    <3>1. fast \in Nat /\ fast <= Attempts
      BY DEF RecoveryInv, HistoryTypeOK, OpeningsAreBudgeted
    <3>2. n <= Attempts
      BY <1>2, <3>1, DelaysAreNumbers
    <3> QED BY <1>2, <2>1, <2>2, <2>3, <3>2 DEF HistoryTypeOK, OpeningsAreBudgeted, Attempts
  <2>6. SupervisorAgreesWithPolicy'
    BY <1>1, <2>1, <2>3, MarksAreNone DEF SupervisorAgreesWithPolicy, Agrees
  <2> QED BY <2>4, <2>5, <2>6 DEF RecoveryInv
<1>6. CASE asked.policy.state = "Opening"
  <2> DEFINE m == n + (IF since < DeviceRetryDelay THEN 1 ELSE 0)
  <2>1. PICK result \in OpenResults : supervisor' = OpenAs(asked, result)
    BY <1>6 DEF Tick, asked
  <2>2. prepared' = NoLoop
    BY <1>6 DEF Tick, asked
  <2>3. since' = 0 /\ fast' = m
    BY <1>1, <1>2, <1>6 DEF History, Opens, asked, n, Openings
  <2>4. m \in Nat /\ m <= asked.policy.attempts /\ m <= Attempts
    <3>1. asked.policy.attempts \in 0 .. Attempts /\ n <= asked.policy.attempts
      BY <1>4, <1>6 DEF ToOpen, Within, Budget, Policies, Attempts
    <3>2. n \in Nat /\ Attempts \in Nat
      BY <1>2, DelaysAreNumbers
    <3>3. CASE since < DeviceRetryDelay
      <4>1. n < asked.policy.attempts
        <5>1. since \in Nat /\ DeviceRetryDelay \in Nat
          BY <1>2, DelaysAreNumbers
        <5>2. n < asked.policy.attempts \/ since >= DeviceRetryDelay
          BY <1>4, <1>6
        <5> HIDE DEF m
        <5> QED BY <3>3, <5>1, <5>2
      <4> QED BY <3>1, <3>2, <3>3, <4>1
    <3>4. CASE ~(since < DeviceRetryDelay)
      BY <3>1, <3>2, <3>4
    <3> QED BY <3>3, <3>4
  <2> HIDE DEF m
  <2>5. ToOpen(asked, m, 0)
    BY <1>4, <1>6, <2>4 DEF ToOpen, Within, Budget, Credit
  <2>6. supervisor' \in Supervisors /\ Budget(supervisor'.policy, m, 0) /\ Agrees(supervisor')
    <3>1. \/ result.ok = TRUE /\ result.devices \in [Directions -> Devices]
          \/ result.ok = FALSE /\ result.errors \in SUBSET FailureClasses
      BY AnswersAreTyped DEF RecoveryInv
    <3> QED BY <2>1, <2>4, <2>5, <3>1, OpenedInWake
  <2>7. TypeOK'
    BY <1>1, <2>2, <2>6 DEF RecoveryInv, TypeOK, Tick
  <2>8. HistoryTypeOK' /\ OpeningsAreBudgeted'
    BY <2>3, <2>4, <2>6 DEF HistoryTypeOK, OpeningsAreBudgeted
  <2>9. SupervisorAgreesWithPolicy'
    BY <1>1, <2>6, MarksAreNone DEF SupervisorAgreesWithPolicy, Agrees
  <2> QED BY <2>7, <2>8, <2>9 DEF RecoveryInv
<1> QED
  BY <1>5, <1>6

LEMMA PollKeeps ==
  ASSUME Configuration, RecoveryInv, PollAndCheck, History, ~Elapse PROVE RecoveryInv'
<1> USE DEF environmentVars
<1>1. ~Opens
  BY DEF PollAndCheck, Opens, Starts
<1>2. supervisor \in Supervisors /\ supervisor # NoSupervisor /\ active /\ unseen \subseteq Directions
  BY DEF PollAndCheck, RecoveryInv, TypeOK, SupervisorAgreesWithPolicy
<1>3. LET r == Poll(supervisor, unseen) IN
      /\ r \in Supervisors
      /\ r.policy = supervisor.policy /\ r.loop = supervisor.loop
      /\ r.episode = supervisor.episode
      /\ r.pending => supervisor.pending \/ supervisor.policy.state = "Running"
  <2> DEFINE stale == supervisor.stale \union unseen
             pending == [supervisor EXCEPT !.stale = stale, !.pending = TRUE, !.settle = SettleTime]
             none == [NoReopen(supervisor) EXCEPT !.stale = {}]
             new == [supervisor EXCEPT !.initialized = TRUE, !.stale = {}]
             same == [supervisor EXCEPT !.stale = stale]
  <2>1. \/ Poll(supervisor, unseen) \in {new, same, none}
        \/ Poll(supervisor, unseen) = pending /\ supervisor.policy.state = "Running"
    BY DEF Poll
  <2>2. stale \in SUBSET Directions
    BY <1>2 DEF Supervisors
  <2> HIDE DEF stale
  <2>3. /\ new \in Supervisors /\ new.policy = supervisor.policy /\ new.loop = supervisor.loop
        /\ new.episode = supervisor.episode /\ new.pending = supervisor.pending
    BY <1>2 DEF Supervisors
  <2>4. /\ same \in Supervisors /\ same.policy = supervisor.policy /\ same.loop = supervisor.loop
        /\ same.episode = supervisor.episode /\ same.pending = supervisor.pending
    BY <1>2, <2>2 DEF Supervisors
  <2>5. /\ none \in Supervisors /\ none.policy = supervisor.policy /\ none.loop = supervisor.loop
        /\ none.episode = supervisor.episode /\ none.pending = FALSE
    BY <1>2 DEF Supervisors, NoReopen
  <2>6. /\ pending \in Supervisors /\ pending.policy = supervisor.policy
        /\ pending.loop = supervisor.loop /\ pending.episode = supervisor.episode
    BY <1>2, <2>2, DelaysAreNumbers DEF Supervisors
  <2> HIDE DEF new, same, none, pending
  <2> QED BY <2>1, <2>3, <2>4, <2>5, <2>6
<1>4. /\ supervisor' \in Supervisors
      /\ supervisor'.policy = supervisor.policy /\ supervisor'.loop = supervisor.loop
      /\ supervisor'.episode = supervisor.episode
      /\ supervisor'.pending => supervisor.pending \/ supervisor.policy.state = "Running"
  BY <1>2, <1>3 DEF PollAndCheck
<1>5. /\ supervisor'.policy.state = "Faulted" => ~active' /\ thread' = "leaving"
      /\ supervisor'.policy.state # "Faulted" => active' /\ thread' = "waiting"
      /\ active' \in BOOLEAN
  BY <1>2 DEF PollAndCheck, RecoveryInv, TypeOK
<1>6. TypeOK'
  BY <1>4, <1>5 DEF RecoveryInv, TypeOK, PollAndCheck
<1>7. HistoryTypeOK' /\ OpeningsAreBudgeted'
  BY <1>1, <1>2, <1>4, KeepsBudget
<1>8. SupervisorAgreesWithPolicy'
  BY <1>2, <1>4, <1>5, MarksAreNone DEF RecoveryInv, SupervisorAgreesWithPolicy
<1> QED
  BY <1>6, <1>7, <1>8 DEF RecoveryInv

LEMMA ElapseKeeps ==
  ASSUME Configuration, RecoveryInv, Elapse, History PROVE RecoveryInv'
<1> USE DEF environmentVars
<1>1. ~Opens /\ ~Starts
  BY DEF Elapse, Opens, Starts
<1>2. since' = Min({since + 1, DeviceRetryDelay}) /\ fast' \in {0, fast}
  BY <1>1 DEF History, RecoveryInv, HistoryTypeOK
<1>3. since' = IF since + 1 <= DeviceRetryDelay THEN since + 1 ELSE DeviceRetryDelay
  BY <1>2, LeastOfTwo, DelaysAreNumbers DEF RecoveryInv, HistoryTypeOK
<1>4. supervisor \in Supervisors /\ supervisor # NoSupervisor /\ supervisor.policy \in Policies
  BY DEF Elapse, RecoveryInv, TypeOK, Supervisors
<1> DEFINE p == supervisor.policy
           run == IF p.state = "Running" THEN Min({p.running_for + 1, StabilityWindow})
                  ELSE p.running_for
           q == [p EXCEPT !.deadline = Less(p.deadline), !.next_attempt = Less(p.next_attempt),
                          !.running_for = run]
           settle == Less(supervisor.settle)
<1>5. run \in Nat /\ Less(p.deadline) \in Nat /\ Less(p.next_attempt) \in Nat /\ settle \in Nat
  <2>1. p.running_for \in Nat /\ p.deadline \in Nat /\ p.next_attempt \in Nat
        /\ supervisor.settle \in Nat
    BY <1>4 DEF Policies, Supervisors
  <2>2. \A time \in Nat : Less(time) \in Nat
    BY DEF Less
  <2>3. Min({p.running_for + 1, StabilityWindow}) \in Nat
    <3> DEFINE more == p.running_for + 1
    <3>1. more \in Nat
      BY <2>1
    <3> HIDE DEF more
    <3>2. Min({more, StabilityWindow}) = IF more <= StabilityWindow THEN more ELSE StabilityWindow
      BY <3>1, LeastOfTwo, DelaysAreNumbers
    <3> QED BY <3>1, <3>2, DelaysAreNumbers DEF more
  <2> QED BY <2>1, <2>2, <2>3
<1>6. supervisor' = [supervisor EXCEPT !.policy = q, !.settle = settle]
  BY <1>4 DEF Elapse, Supervisors, Policies
<1> HIDE DEF run, settle
<1>7. q \in Policies /\ q.state = p.state /\ q.attempts = p.attempts
      /\ q.next_attempt = Less(p.next_attempt)
  BY <1>4, <1>5 DEF Policies
<1> HIDE DEF q
<1>8. /\ supervisor' \in Supervisors /\ supervisor'.policy = q
      /\ supervisor'.loop = supervisor.loop /\ supervisor'.episode = supervisor.episode
      /\ supervisor'.pending = supervisor.pending
  BY <1>4, <1>5, <1>6, <1>7 DEF Supervisors
<1>9. TypeOK'
  BY <1>8 DEF RecoveryInv, TypeOK, Elapse
<1>10. HistoryTypeOK'
  BY <1>2, <1>3, DelaysAreNumbers DEF RecoveryInv, HistoryTypeOK
<1>11. OpeningsAreBudgeted'
  <2>1. Budget(p, fast, since) /\ fast \in Nat /\ since \in Nat /\ fast <= Attempts
    BY <1>4 DEF RecoveryInv, HistoryTypeOK, OpeningsAreBudgeted
  <2>2. p.attempts \in Nat /\ p.next_attempt \in Nat
    BY <1>4, DelaysAreNumbers DEF Policies, Attempts
  <2>3. Budget(q, fast', since')
    <3>1. fast' <= q.attempts /\ fast' <= fast
      BY <1>2, <1>7, <2>1, <2>2 DEF Budget
    <3>2. ASSUME q.state = "Backoff", ~(fast' < q.attempts)
          PROVE  since' + q.next_attempt >= DeviceRetryDelay
      <4>1. since + p.next_attempt >= DeviceRetryDelay
        BY <1>2, <1>7, <2>1, <2>2, <3>2 DEF Budget
      <4>2. q.next_attempt = IF p.next_attempt = 0 THEN 0 ELSE p.next_attempt - 1
        BY <1>7 DEF Less
      <4>3. since \in Nat /\ p.next_attempt \in Nat /\ DeviceRetryDelay \in Nat
        BY <2>1, <2>2, DelaysAreNumbers
      <4> HIDE DEF p
      <4>4. CASE since + 1 <= DeviceRetryDelay
        BY <1>3, <4>1, <4>2, <4>3, <4>4
      <4>5. CASE ~(since + 1 <= DeviceRetryDelay)
        BY <1>3, <4>2, <4>3, <4>5
      <4> QED BY <4>4, <4>5
    <3> QED BY <3>1, <3>2 DEF Budget
  <2> QED BY <1>2, <1>8, <2>1, <2>3, DelaysAreNumbers DEF OpeningsAreBudgeted
<1>12. SupervisorAgreesWithPolicy'
  BY <1>4, <1>7, <1>8, MarksAreNone DEF RecoveryInv, SupervisorAgreesWithPolicy, Elapse
<1> QED
  BY <1>9, <1>10, <1>11, <1>12 DEF RecoveryInv

-----------------------------------------------------------------------------
(* The theorems. *)

LEMMA InitKeeps == MCInit => RecoveryInv
<1> SUFFICES ASSUME MCInit PROVE RecoveryInv
  OBVIOUS
<1>1. Selected \in [Directions -> Devices]
  BY Configuration DEF MCInit, Init, Selected, Configuration
<1>2. TypeOK
  BY <1>1 DEF MCInit, Init, TypeOK
<1> QED
  BY <1>2, Configuration, DelaysAreNumbers DEF MCInit, Init, RecoveryInv, HistoryTypeOK,
     OpeningsAreBudgeted, SupervisorAgreesWithPolicy

LEMMA StepKeeps == RecoveryInv /\ [Next /\ History]_<<vars, historyVars>> => RecoveryInv'
<1> SUFFICES ASSUME RecoveryInv, [Next /\ History]_<<vars, historyVars>> PROVE RecoveryInv'
  OBVIOUS
<1>1. CASE UNCHANGED <<vars, historyVars>>
  BY <1>1 DEF RecoveryInv, TypeOK, HistoryTypeOK, OpeningsAreBudgeted, SupervisorAgreesWithPolicy,
     vars, historyVars
<1>2. CASE Next /\ History
  <2>1. CASE Elapse
    BY <1>2, <2>1, ElapseKeeps, Configuration
  <2>2. CASE ~Elapse
    BY <1>2, <2>2, ChangeDefaultKeeps, ChangeHealthKeeps, LoopDiesKeeps, OthersKeep, StartKeeps,
       TickKeeps, PollKeeps, Configuration DEF Next, Thread
  <2> QED BY <2>1, <2>2
<1> QED
  BY <1>1, <1>2

\* The inductive invariant of the recovery.
THEOREM RecoveryInvariant == MCSpec => []RecoveryInv
<1> QED
  BY InitKeeps, StepKeeps, PTL DEF MCSpec

\* Whatever fails, and whatever the schedule, the supervisor opens the devices no more often
\* in quick succession than the policy's schedule has attempts.
THEOREM OpeningsKeepCadence == MCSpec => []BoundedCadence
<1>1. RecoveryInv => BoundedCadence
  BY DEF RecoveryInv, OpeningsAreBudgeted, BoundedCadence, Attempts
<1> QED
  BY <1>1, RecoveryInvariant, PTL

\* Between two wakes supervisor and policy agree, and a runtime that reports itself stopped
\* holds no device.
THEOREM SupervisorFollowsPolicy == MCSpec => []SupervisorAgreesWithPolicy
<1>1. RecoveryInv => SupervisorAgreesWithPolicy
  BY DEF RecoveryInv
<1> QED
  BY <1>1, RecoveryInvariant, PTL
=============================================================================
