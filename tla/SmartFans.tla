----------------------------- MODULE SmartFans ------------------------------
(***************************************************************************)
(* Smart fan mode (SmartFanController in mtplx/thermal.py, its leases and  *)
(* the fan-mode endpoint in mtplx/server/openai.py): requests hold leases, *)
(* one worker thread commands the fans to max while there is a lease and   *)
(* restores the automatic curve afterwards, with retries; a reconciler     *)
(* drops leases whose request leaked them; an operator hands the fans to   *)
(* another mode.  Every command of the worker runs outside the lock.       *)
(***************************************************************************)
EXTENDS Naturals, FiniteSets

CONSTANTS
  Request,     \* the requests and postcommits that take a lease
  Switches     \* how often an operator changes the fan mode

ASSUME FansAssumption == IsFiniteSet(Request) /\ Switches \in Nat

VARIABLES
  fans,        \* what the daemon commands: "auto" or "max"
  leases,      \* _active_requests
  commanded,   \* _commanded_max
  hooks,       \* _cleanup is not None
  refused,     \* _ramp_failed_generation is the current _generation
  overtaken,   \* _generation has moved since the ramp running captured it
  unverified,  \* _restore_unverified
  idle,        \* _idle_since: "none", or how long ago
  soak,        \* the heat-soak hold: "probe" due, or "release"
  window,      \* _engine_idle_since: "none", "open", or "long" ago
  worker,      \* where the worker thread is
  reading,     \* what its call outside the lock returned
  pc,          \* where each request is
  mode,        \* state.fan_mode
  switch,      \* where the fan-mode endpoint is
  switches,    \* how often it may still be called
  covered,     \* history: the leases held ever since the idle window opened
  adrift       \* history: the endpoint took the fans over since the last ramp began

lease == <<leases, refused, overtaken, idle, window, soak>>
books == <<commanded, hooks, unverified>>
thread == <<worker, reading>>
operator == <<mode, switch, switches>>
vars == <<fans, lease, books, thread, pc, operator, covered, adrift>>

Init ==
  /\ fans = "auto" /\ leases = {} /\ commanded = FALSE /\ hooks = FALSE
  /\ refused = FALSE /\ overtaken = FALSE /\ unverified = FALSE
  /\ idle = "none" /\ soak = "probe" /\ window = "none"
  /\ worker = "loop" /\ reading = "none" /\ pc = [q \in Request |-> "new"]
  /\ mode = "smart" /\ switch = "idle" /\ switches = Switches
  /\ covered = {} /\ adrift = FALSE

Leased == leases # {}
Goto(q, place) == pc' = [pc EXCEPT ![q] = place]

(* _generation += 1: a failed ramp is forgotten, a running one overtaken. *)
Ramping == {"ramp", "hook", "command", "again", "ramped"}
Bump == refused' = FALSE /\ overtaken' = (worker \in Ramping)

-----------------------------------------------------------------------------
(* A request, or a postcommit it schedules.                                *)

(* The mode is read before the lease is taken, without the lock. *)
Arrive(q) ==
  /\ pc[q] = "new" /\ mode = "smart" /\ Goto(q, "arrived")
  /\ UNCHANGED <<fans, lease, books, thread, operator, covered, adrift>>

(* Mutant: a new lease leaves the idle window open. *)
BeginInWindow(q) ==
  /\ pc[q] = "arrived" /\ Goto(q, "leased") /\ leases' = leases \cup {q}
  /\ Bump /\ idle' = "none" /\ UNCHANGED <<window, covered>> /\ soak' = "probe"
  /\ UNCHANGED <<fans, books, thread, operator, adrift>>

(* begin_request *)
Begin(q) ==
  /\ pc[q] = "arrived" /\ Goto(q, "leased") /\ leases' = leases \cup {q}
  /\ Bump /\ idle' = "none" /\ window' = "none" /\ soak' = "probe" /\ covered' = {}
  /\ UNCHANGED <<fans, books, thread, operator, adrift>>

(* end_request; wait_for_restore skips the debounce and the soak hold. *)
End(q, waits) ==
  /\ pc[q] = "leased" /\ Goto(q, "new") /\ leases' = leases \ {q}
  /\ Bump /\ covered' = covered \ {q}
  /\ IF leases' = {}
     THEN /\ idle' = IF waits THEN "debounced" ELSE "fresh"
          /\ soak' = IF waits THEN "release" ELSE soak
     ELSE UNCHANGED <<idle, soak>>
  /\ UNCHANGED <<fans, window, books, thread, operator, adrift>>

(* Nobody ends the lease: a postcommit cancelled while queued, a hung
   response.  The id may be used again once the lease is gone. *)
Leak(q) ==
  /\ \/ pc[q] = "leased" /\ Goto(q, "leaked")
     \/ pc[q] = "leaked" /\ q \notin leases /\ Goto(q, "new")
  /\ UNCHANGED <<fans, lease, books, thread, operator, covered, adrift>>

-----------------------------------------------------------------------------
(* _worker_loop: one decision under the lock, then the call outside it.    *)
(* Whether the interval between two probes, or the backoff of a restore,   *)
(* has passed is left open: either decision may come first.                *)

Restorable == commanded \/ hooks

Decide(action) == worker = "loop" /\ worker' = action

ProbeDecided == Leased /\ Decide("probing")

(* Mutant: a ramp that failed for these leases is tried again and again. *)
RampDecidedAgain == Leased /\ ~commanded /\ Decide("ramp")

(* "Don't hammer the daemon": the next change of the leases re-arms it. *)
RampDecided == Leased /\ ~commanded /\ ~refused /\ Decide("ramp")

SoakDecided ==
  ~Leased /\ commanded /\ idle = "debounced" /\ soak = "probe" /\ Decide("soaking")

(* _soak_decision_locked, for the restore. *)
SoakReleases == ~commanded \/ soak = "release" \/ idle = "capped"

RestoreDecided ==
  /\ ~Leased /\ Decide("restore")
  /\ IF Restorable THEN idle \in {"debounced", "capped"} /\ SoakReleases ELSE unverified

Loop ==
  /\ ProbeDecided \/ RampDecided \/ SoakDecided \/ RestoreDecided
  /\ UNCHANGED <<fans, lease, books, reading, pc, operator, covered, adrift>>

(* The idle clock starts when the worker first sees nobody hold a lease. *)
IdleNoticed ==
  /\ worker = "loop" /\ ~Leased /\ Restorable /\ idle = "none" /\ idle' = "fresh"
  /\ UNCHANGED <<fans, leases, refused, overtaken, window, soak, books, thread, pc,
                 operator, covered, adrift>>

(* _do_ramp: the generation is captured, the exit hooks are installed, max
   is commanded at most twice, and the outcome is filed. *)
RampCapture ==
  /\ worker = "ramp" /\ worker' = "hook" /\ overtaken' = FALSE
  /\ UNCHANGED <<fans, leases, refused, idle, window, soak, books, reading, pc, operator,
                 covered, adrift>>

RampHook ==
  /\ worker = "hook" /\ worker' = "command" /\ hooks' = TRUE /\ adrift' = FALSE
  /\ UNCHANGED <<fans, lease, commanded, unverified, reading, pc, operator, covered>>

RampCommand(ok, applied) ==
  /\ worker \in {"command", "again"} /\ (ok => applied)
  /\ fans' = IF applied THEN "max" ELSE fans
  /\ worker' = IF ok \/ worker = "again" THEN "ramped" ELSE "again"
  /\ reading' = IF ok THEN "ok" ELSE "failed"
  /\ UNCHANGED <<lease, books, pc, operator, covered, adrift>>

RampFiled ==
  /\ worker = "ramped" /\ worker' = "loop" /\ reading' = "none" /\ overtaken' = FALSE
  /\ commanded' = (reading = "ok")
  /\ refused' = IF reading = "ok" THEN refused ELSE ~overtaken
  /\ UNCHANGED <<fans, leases, idle, window, soak, hooks, unverified, pc,
                 operator, covered, adrift>>

(* _do_restore.  A lease begun since the decision stops it only here. *)
RestoreTake ==
  /\ worker = "restore"
  /\ IF Leased
     THEN worker' = "loop" /\ UNCHANGED hooks
     ELSE worker' = "restoring" /\ hooks' = FALSE
  /\ UNCHANGED <<fans, lease, commanded, unverified, reading, pc, operator,
                 covered, adrift>>

RestoreCommand(ok, applied) ==
  /\ worker = "restoring" /\ worker' = "restored" /\ (ok => applied)
  /\ fans' = IF applied THEN "auto" ELSE fans
  /\ reading' = IF ok THEN "ok" ELSE "failed"
  /\ UNCHANGED <<lease, books, pc, operator, covered, adrift>>

(* Mutant: a failed restore is filed as done (issue 201). *)
RestoreForgotten ==
  /\ worker = "restored" /\ worker' = "loop" /\ reading' = "none"
  /\ commanded' = FALSE /\ unverified' = FALSE
  /\ UNCHANGED <<fans, lease, hooks, pc, operator, covered, adrift>>

(* Mutant: a failed restore leaves max commanded for the next lease. *)
RestoreKeepsMax ==
  /\ worker = "restored" /\ worker' = "loop" /\ reading' = "none"
  /\ commanded' = (commanded /\ reading = "failed")
  /\ unverified' = (reading = "failed")
  /\ UNCHANGED <<fans, lease, hooks, pc, operator, covered, adrift>>

RestoreFiled ==
  /\ worker = "restored" /\ worker' = "loop" /\ reading' = "none"
  /\ commanded' = FALSE /\ unverified' = (reading = "failed")
  /\ UNCHANGED <<fans, lease, hooks, pc, operator, covered, adrift>>

(* _do_probe_activity: whether the engine works is read outside the lock.
   It may for reasons of its own, and a probe that raises reads busy. *)
ProbeRead(busy) ==
  /\ worker = "probing" /\ worker' = "probed"
  /\ reading' = IF busy THEN "busy" ELSE "idle"
  /\ UNCHANGED <<fans, lease, books, pc, operator, covered, adrift>>

Close == window' = "none" /\ covered' = {} /\ UNCHANGED <<leases, refused, overtaken, idle>>

(* Mutant: every idle probe opens the window anew. *)
ProbeReopens ==
  /\ worker = "probed" /\ worker' = "loop" /\ reading' = "none"
  /\ IF ~Leased \/ reading = "busy" THEN Close
     ELSE window' = "open" /\ covered' = leases /\ UNCHANGED <<leases, refused, overtaken, idle>>
  /\ UNCHANGED <<fans, soak, books, pc, operator, adrift>>

ProbeFiled ==
  /\ worker = "probed" /\ worker' = "loop" /\ reading' = "none"
  /\ \/ (~Leased \/ reading = "busy") /\ Close
     \/ /\ Leased /\ reading = "idle" /\ window = "none"
        /\ window' = "open" /\ covered' = leases /\ UNCHANGED <<leases, refused, overtaken, idle>>
     \/ /\ Leased /\ reading = "idle" /\ window = "open"
        /\ UNCHANGED <<window, covered, leases, refused, overtaken, idle>>
     \/ /\ Leased /\ reading = "idle" /\ window = "long"
        /\ leases' = {} /\ Bump /\ window' = "none" /\ covered' = {} /\ idle' = "debounced"
  /\ UNCHANGED <<fans, soak, books, pc, operator, adrift>>

(* _do_probe_soak: the die is hot, cool, or gives no reading. *)
SoakRead(hot) ==
  /\ worker = "soaking" /\ worker' = "soaked"
  /\ reading' = IF hot THEN "hot" ELSE "cool"
  /\ UNCHANGED <<fans, lease, books, pc, operator, covered, adrift>>

SoakFiled ==
  /\ worker = "soaked" /\ worker' = "loop" /\ reading' = "none"
  /\ soak' = IF reading = "hot" /\ soak # "release" THEN "probe" ELSE "release"
  /\ UNCHANGED <<fans, leases, refused, overtaken, idle, window, books, pc,
                 operator, covered, adrift>>

(* Time: the debounce and the cap on the soak hold, the reconciler's patience. *)
IdleOn ==
  /\ idle \in {"fresh", "debounced"}
  /\ idle' = IF idle = "fresh" THEN "debounced" ELSE "capped"
  /\ UNCHANGED <<fans, leases, refused, overtaken, window, soak, books, thread, pc, operator,
                 covered, adrift>>

WindowOn ==
  /\ window = "open" /\ window' = "long"
  /\ UNCHANGED <<fans, leases, refused, overtaken, idle, soak, books, thread, pc, operator,
                 covered, adrift>>

-----------------------------------------------------------------------------
(* The fan-mode endpoint.                                                  *)

CallsFor(place) == switch = "idle" /\ switches > 0 /\ switches' = switches - 1 /\ switch' = place

(* Max: detach(), then the pin; the mode changes only when the pin is on. *)
Detach ==
  /\ CallsFor("pinning") /\ leases' = {} /\ Bump
  /\ idle' = "none" /\ window' = "none" /\ soak' = "probe" /\ covered' = {}
  /\ commanded' = FALSE /\ hooks' = FALSE /\ unverified' = FALSE
  /\ adrift' = TRUE
  /\ UNCHANGED <<fans, thread, pc, mode>>

Pin(ok, applied) ==
  /\ switch = "pinning" /\ switch' = "idle" /\ (ok => applied)
  /\ mode' = IF ok THEN "max" ELSE mode
  /\ fans' = IF applied THEN "max" ELSE fans
  /\ adrift' = TRUE
  /\ UNCHANGED <<lease, books, thread, pc, switches, covered>>

(* Smart: the mode, then restore_now without waiting. *)
BecomeSmart ==
  /\ CallsFor("clearing") /\ mode' = "smart"
  /\ UNCHANGED <<fans, lease, books, thread, pc, covered, adrift>>

(* restore_now: the debounce and the soak hold are skipped. *)
RestoreNow ==
  /\ leases' = {} /\ Bump /\ idle' = "debounced" /\ soak' = "release" /\ covered' = {}
  /\ UNCHANGED window

Cleared ==
  /\ switch = "clearing" /\ switch' = "idle" /\ RestoreNow
  /\ UNCHANGED <<fans, books, thread, pc, mode, switches, adrift>>

(* Default: restore_now waits for the worker, or 30 s, then auto. *)
Drain ==
  /\ CallsFor("draining") /\ RestoreNow
  /\ UNCHANGED <<fans, books, thread, pc, mode, adrift>>

BecomeDefault(ok, applied) ==
  /\ switch = "draining" /\ switch' = "idle" /\ (ok => applied)
  /\ mode' = IF ok THEN "default" ELSE mode
  /\ fans' = IF applied THEN "auto" ELSE fans
  /\ adrift' = TRUE
  /\ UNCHANGED <<lease, books, thread, pc, switches, covered>>

-----------------------------------------------------------------------------
Client(q) == Arrive(q) \/ Begin(q) \/ (\E waits \in BOOLEAN : End(q, waits)) \/ Leak(q)

Outcome == {<<TRUE, TRUE>>, <<FALSE, TRUE>>, <<FALSE, FALSE>>}

Worker ==
  \/ Loop \/ IdleNoticed \/ RampCapture \/ RampHook \/ RampFiled \/ RestoreTake \/ RestoreFiled
  \/ ProbeFiled \/ SoakFiled
  \/ (\E o \in Outcome : RampCommand(o[1], o[2]) \/ RestoreCommand(o[1], o[2]))
  \/ (\E b \in BOOLEAN : ProbeRead(b) \/ SoakRead(b))

Operator ==
  \/ Detach \/ BecomeSmart \/ Cleared \/ Drain
  \/ (\E o \in Outcome : Pin(o[1], o[2]) \/ BecomeDefault(o[1], o[2]))

Next == (\E q \in Request : Client(q)) \/ Worker \/ IdleOn \/ WindowOn \/ Operator

Spec == Init /\ [][Next]_vars

(* The worker runs on and time passes; between two probes there is time for
   a ramp, and a lease is probed for again and again; a restore retried for
   ever succeeds once.  Nothing is promised of requests, of a ramp's success,
   of the activity probe's answer or of the operator. *)
Fairness ==
  /\ WF_vars(Worker) /\ WF_vars(IdleOn) /\ WF_vars(WindowOn)
  /\ \A action \in {"ramp", "probing"} : SF_vars(Loop /\ worker' = action)
  /\ SF_vars(RestoreCommand(TRUE, TRUE))

FairSpec == Spec /\ Fairness

-----------------------------------------------------------------------------
(* Type correctness; and a ramp that failed for the present leases is not
   repeated behind their back: nothing is commanded until they change. *)
TypeOK ==
  /\ ~(refused /\ commanded)
  /\ fans \in {"auto", "max"} /\ leases \subseteq Request
  /\ commanded \in BOOLEAN /\ hooks \in BOOLEAN /\ refused \in BOOLEAN /\ overtaken \in BOOLEAN
  /\ unverified \in BOOLEAN
  /\ idle \in {"none", "fresh", "debounced", "capped"} /\ soak \in {"probe", "release"}
  /\ window \in {"none", "open", "long"}
  /\ worker \in {"loop", "restore", "restoring", "restored", "probing", "probed", "soaking",
                 "soaked"} \cup Ramping
  /\ reading \in {"none", "ok", "failed", "busy", "idle", "hot", "cool"}
  /\ pc \in [Request -> {"new", "arrived", "leased", "leaked"}]
  /\ mode \in {"smart", "max", "default"} /\ switch \in {"idle", "pinning", "clearing", "draining"}
  /\ switches \in 0..Switches /\ covered \subseteq Request /\ adrift \in BOOLEAN

(* What status() and /health report as commanded is what the daemon was told
   last, except while a restore is being filed and after the endpoint has
   moved the fans: no failure, retry or handover leaves it claiming max over
   fans on the automatic curve, which the next lease would then not ramp. *)
CommandedIsReal == commanded /\ ~adrift /\ worker # "restored" => fans = "max"

(* The reconciler drops no lease begun since the idle window opened, however
   the probe's reading and the arrival of a request interleave. *)
DropsOnlyStale == [][ProbeFiled /\ leases' # leases => leases \subseteq covered]_vars

(* A lease brings the fans to max, or a ramp is tried for it and fails,
   whatever restore was under way when it was taken. *)
LeaseRamps == Leased ~> (fans = "max" \/ worker = "ramped" \/ refused \/ ~Leased \/ adrift)

(* With no lease left the fans come back to the automatic curve, through
   failed restores, hot dies and ramps that finish late. *)
FansComeBack == ~Leased /\ ~adrift ~> (fans = "auto" \/ Leased \/ adrift)

(* Leases nobody will end are dropped, unless new requests keep taking leases
   or the probe keeps reading a busy engine. *)
LeaksAreDropped ==
  <>[](Leased /\ \A q \in Request : pc[q] # "leased") => []<>(reading = "busy")

(* "detach() lets an external owner (Max mode) take over fan hardware without
   a scheduled smart restore racing it back to auto." *)
MaxModeHolds == mode = "max" /\ switch = "idle" => fans = "max"
-----------------------------------------------------------------------------
(* The inductive invariant behind the safety properties.                   *)

(* A ramp runs for leases for which nothing was commanded and none failed. *)
RampIsFresh == worker \in Ramping => ~commanded /\ ~refused

(* A ramp that is about to be filed as done has done it. *)
RampIsReal == worker = "ramped" /\ reading = "ok" /\ ~adrift => fans = "max"

(* The leases an open idle window may drop were all there when it opened. *)
WindowCovers == window # "none" => leases \subseteq covered

IInv == TypeOK /\ RampIsFresh /\ RampIsReal /\ WindowCovers /\ CommandedIsReal
=============================================================================
