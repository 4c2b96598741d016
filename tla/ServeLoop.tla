----------------------------- MODULE ServeLoop -----------------------------
(***************************************************************************)
(* The model scheduler as mtplx/server/openai.py drives it: requests whose *)
(* generation is one foreground item and whose tail submits a postcommit,  *)
(* to the idle band or, inline, to the foreground one;                     *)
(* background warm rungs and session postcommits in the idle band, SSD     *)
(* encodes in the persistence band, the idle pump loop of the event loop   *)
(* thread, and the flush that precedes the scheduler's shutdown.           *)
(***************************************************************************)
EXTENDS ModelScheduler

CONSTANTS
  Gen,          \* request -> its foreground item
  Tail,         \* request -> the postcommit its handler submits afterwards, or NoItem
                \* (a foreground item where session_postcommit_mode is inline)
  Rungs,        \* the postcommit-band items that are background warm rungs
  PumpAfter     \* _IDLE_PUMP_AFTER_S, in ticks

Requests == DOMAIN Gen
Generations == {Gen[r] : r \in Requests}

ASSUME ServeAssumption ==
  /\ Gen \in [Requests -> Foreground]
  /\ Tail \in [Requests -> (Postcommit \ Rungs) \cup (Foreground \ Generations) \cup {NoItem}]
  /\ Rungs \subseteq Postcommit /\ PumpAfter \in Nat
  /\ {1, 4} \subseteq PumpBudgets  \* what the pump loop and the flush arm

VARIABLES
  stage,        \* "serving"; "flushing", "flushed" or "timed_out" at lifespan exit; "down"
  clockQuiet,   \* ticks until both request clocks of the state are PumpAfter old
  trafficQuiet, \* the same if warm rungs stamped neither of them
  foregroundActive, \* foreground_active > 0
  pump          \* where the pump loop is in its tick: "asleep", or what it has read last

serveVars == <<stage, clockQuiet, trafficQuiet, foregroundActive, pump>>
allVars == <<vars, serveVars>>

ServeInit ==
  /\ Init
  /\ stage = "serving" /\ clockQuiet = 0 /\ trafficQuiet = 0
  /\ foregroundActive = FALSE /\ pump = "asleep"

(* The request's generation has finished and its handler has not yet
   submitted the postcommit. *)
TailOwed(r) ==
  Tail[r] # NoItem /\ future[Gen[r]] = "finished" /\ future[Tail[r]] = "new"

-----------------------------------------------------------------------------
(* Requests and background work.                                           *)

BeginRequest(r) ==
  /\ stage = "serving"
  /\ SubmitForeground(Gen[r])
  /\ UNCHANGED serveVars

(* From the handler after the generation: _schedule_idle_postcommit_snapshot,
   or the inline postcommit, which the handler awaits. *)
SubmitTail(r) ==
  /\ TailOwed(r)
  /\ SubmitIdlePostcommit(Tail[r]) \/ SubmitForeground(Tail[r]) \/ SubmitRefused(Tail[r])
  /\ UNCHANGED serveVars

(* The handler's task is cancelled (a graceful shutdown that takes too long),
   and wrap_future cancels the inline postcommit it awaits.  A generation's own
   future is awaited by a thread, and nobody cancels it. *)
CancelInlineTail(r) ==
  /\ stage = "serving" /\ Tail[r] \in Foreground
  /\ CancelFuture(Tail[r])
  /\ UNCHANGED serveVars

(* _BackgroundWarmup.submit: from a timer, or from the previous rung. *)
SubmitRung(w) ==
  /\ w \in Rungs
  /\ SubmitIdlePostcommit(w)
  /\ UNCHANGED serveVars

(* PendingPostcommit.abort on a queued postcommit. *)
AbortPostcommit(i) ==
  /\ i \in Postcommit \ Rungs
  /\ CancelFuture(i)
  /\ UNCHANGED serveVars

(* The session bank files the encode of an entry that a generation or a
   postcommit stored; warm rungs store nothing. *)
DispatchEncode(c) ==
  /\ pc = "running" /\ foregroundActive /\ item \notin Rungs
  /\ SubmitIdlePersistence(c)
  /\ UNCHANGED serveVars

(* begin_foreground stamps last_request_started_at.  Every generation calls it,
   an encode never does; a postcommit does unless it is stale or aborted, a
   warm rung does unless it defers itself or has no prefill to run. *)
ServeStart(counts) ==
  /\ PublishActive
  /\ item \in Generations => counts
  /\ item \in Persistence => ~counts
  /\ foregroundActive' = counts
  /\ clockQuiet' = IF counts THEN PumpAfter ELSE clockQuiet
  /\ trafficQuiet' = IF counts /\ item \notin Rungs THEN PumpAfter ELSE trafficQuiet
  /\ UNCHANGED <<stage, pump>>

(* end_foreground.  A generation has stamped last_request_at; rungs do not. *)
ServeFinish ==
  /\ FinishItem
  /\ foregroundActive' = FALSE
  /\ clockQuiet' = IF item \in Generations THEN PumpAfter ELSE clockQuiet
  /\ trafficQuiet' = IF item \in Generations THEN PumpAfter ELSE trafficQuiet
  /\ UNCHANGED <<stage, pump>>

OwnerStep ==
  /\ TakeNext \/ WaitTimesOut \/ SkipCancelled \/ StartItem \/ RecordCompletion
     \/ RunOwnerIdle
  /\ UNCHANGED serveVars

(* Between adjacent statements of the owner thread or of the pump loop, from
   the end of a timed wait to its return, and from a generation's end to the
   submission of its tail, milliseconds pass: no tick. *)
ServeTick ==
  /\ pc \notin {"take_next", "taken", "claimed", "recording"} /\ pump = "asleep"
  /\ ~(pc = "waiting" /\ left["wake"] = 0)
  /\ \A r \in Requests : ~TailOwed(r)
  /\ Tick
  /\ clockQuiet' = Down(clockQuiet) /\ trafficQuiet' = Down(trafficQuiet)
  /\ UNCHANGED <<stage, foregroundActive, pump>>

-----------------------------------------------------------------------------
(* _idle_persistence_pump_loop: one tick of it is three reads, each under   *)
(* locks of its own, and the arming.  A request counts and stamps under one *)
(* lock: the clocks, read after the count, are as good as read with it.    *)

ForegroundPendingOrActive == foreground # {} \/ activeKind = "foreground"
RequestIdle == ~foregroundActive /\ clockQuiet = 0
PumpGate == persistence # {} /\ RequestIdle /\ ~ForegroundPendingOrActive

(* The next of the reads says yes; or it says no, and the loop sleeps again. *)
PumpReads(from, sees, to) ==
  /\ pump = from /\ pump' = IF sees THEN to ELSE "asleep"
  /\ UNCHANGED <<vars, stage, clockQuiet, trafficQuiet, foregroundActive>>

PumpCheck ==
  \/ stage = "serving" /\ persistence # {} /\ PumpReads("asleep", TRUE, "pending")
  \/ PumpReads("pending", RequestIdle, "quiet")
  \/ PumpReads("quiet", ~ForegroundPendingOrActive, "idle")

PumpArm ==
  /\ pump = "idle"
  /\ pump' = "asleep"
  /\ PumpPersistence(1) \/ (persistence = {} /\ UNCHANGED vars)
  /\ UNCHANGED <<stage, clockQuiet, trafficQuiet, foregroundActive>>

-----------------------------------------------------------------------------
(* The lifespan's exit: _shutdown_flush_cold_writes, then the shutdown.    *)

BeginFlush ==
  /\ stage = "serving" /\ pump = "asleep"
  /\ stage' = "flushing"
  /\ UNCHANGED <<vars, clockQuiet, trafficQuiet, foregroundActive, pump>>

(* _persistence_pending() > 0 or _persistence_active() *)
FlushSeesWork == persistence # {} \/ activeKind = "idle_persistence"

FlushPump ==
  /\ stage = "flushing" /\ FlushSeesWork
  /\ PumpPersistence(4)
  /\ UNCHANGED serveVars

(* The loop ends: nothing left to wait for, or its deadline. *)
EndFlush(timedOut) ==
  /\ stage = "flushing"
  /\ timedOut \/ ~FlushSeesWork
  /\ stage' = IF timedOut THEN "timed_out" ELSE "flushed"
  /\ UNCHANGED <<vars, clockQuiet, trafficQuiet, foregroundActive, pump>>

ShutdownScheduler ==
  /\ stage \in {"flushed", "timed_out"}
  /\ stage' = "down"
  /\ Shutdown(TRUE)
  /\ UNCHANGED <<clockQuiet, trafficQuiet, foregroundActive, pump>>

ServeNext ==
  \/ \E r \in Requests : BeginRequest(r) \/ SubmitTail(r) \/ CancelInlineTail(r)
  \/ \E i \in Items : SubmitRung(i) \/ AbortPostcommit(i) \/ DispatchEncode(i)
  \/ (\E counts \in BOOLEAN : ServeStart(counts)) \/ ServeFinish
  \/ OwnerStep \/ ServeTick
  \/ PumpCheck \/ PumpArm
  \/ BeginFlush \/ FlushPump \/ (\E timedOut \in BOOLEAN : EndFlush(timedOut))
  \/ ShutdownScheduler

ServeSpec == ServeInit /\ [][ServeNext]_allVars

-----------------------------------------------------------------------------

(* A persistence item is taken; r's postcommit is owed or still queued. *)
TakesEncode == item = NoItem /\ item' \in Persistence
TailPending(r) == TailOwed(r) \/ Tail[r] \in idle \cup foreground

(* The tail-gap fence: between the end of a generation and the start of its
   postcommit no SSD encode starts, unless the pump armed a slot for it. *)
TailGapFence ==
  [][TakesEncode /\ (\E r \in Requests : TailPending(r)) => pumpBudget' < pumpBudget]_allVars

(* "so an armed pump can never race a latency-critical tail": while the server
   serves, not even an armed slot lets an encode in ahead of a request's
   postcommit. *)
PumpNeverRacesTail ==
  [][TakesEncode /\ stage = "serving" => \A r \in Requests : ~TailPending(r)]_allVars

(* "warm rungs never stamp the traffic clock": with no request in flight or
   recent and encodes queued, the pump loop finds the server idle between
   the rungs of a chain. *)
IdleServerArms ==
  /\ stage = "serving" /\ persistence # {} /\ item = NoItem /\ trafficQuiet = 0
  /\ \A i \in Foreground : future[i] \notin {"pending", "running"}
  => PumpGate

(* "A popped encode no longer counts as pending but is still moving bytes;
   the flush must outwait it": a flush that ended by itself left no encode
   behind on the owner thread. *)
FlushOutwaitsEncode ==
  stage = "flushed" => ~(item \in Persistence /\ pc \in {"taken", "claimed", "running"})
-----------------------------------------------------------------------------
(* What makes the fence inductive: while a request's tail is owed, its
   generation's completion is still being recorded, or the quiet grace that
   starts then has not lost a tick. *)
FenceInv ==
  \A r \in Requests :
    TailOwed(r) => (pc = "recording" /\ item = Gen[r]) \/ left["quiet"] = QuietGrace
=============================================================================
