-------------------------- MODULE SmartFansProofs --------------------------
(***************************************************************************)
(* Theorems about SmartFans, for any set of requests and any number of     *)
(* changes of the fan mode: the safety properties, from one inductive      *)
(* invariant.  One lemma per action, one step per part of the invariant.   *)
(***************************************************************************)
EXTENDS SmartFans, TLAPS

(* A command is verified, lands without being verified, or fails. *)
LEMMA OutcomesAreBooleans ==
  ASSUME NEW o \in Outcome
  PROVE  o[1] \in BOOLEAN /\ o[2] \in BOOLEAN
<1>1. CASE o = <<TRUE, TRUE>>
  BY <1>1
<1>2. CASE o = <<FALSE, TRUE>>
  BY <1>2
<1>3. CASE o = <<FALSE, FALSE>>
  BY <1>3
<1> QED BY <1>1, <1>2, <1>3 DEF Outcome

(* A change of the leases forgets a failed ramp. *)
LEMMA BumpTypes ==
  ASSUME Bump
  PROVE  refused' = FALSE /\ overtaken' \in BOOLEAN
<1> DEFINE ramping == worker \in Ramping
<1>1. ramping \in BOOLEAN
  OBVIOUS
<1>2. overtaken' = ramping
  BY DEF Bump
<1> HIDE DEF ramping
<1>3. overtaken' \in BOOLEAN
  BY <1>1, <1>2
<1> QED BY <1>3 DEF Bump

(* A request reads the mode. *)
LEMMA ArriveKeeps ==
  ASSUME IInv, NEW q \in Request, Arrive(q)
  PROVE  IInv'
<1>1. TypeOK'
  BY DEF lease, books, thread, operator, Goto, Ramping, Arrive, TypeOK, RampIsFresh, IInv
<1>2. RampIsFresh' /\ RampIsReal' /\ CommandedIsReal'
  BY DEF lease, books, thread, operator, Goto, Ramping, Arrive, TypeOK, CommandedIsReal,
      RampIsFresh, RampIsReal, WindowCovers, IInv
<1>3. WindowCovers'
  BY DEF lease, books, thread, operator, Goto, Arrive, TypeOK, WindowCovers, IInv
<1> QED BY <1>1, <1>2, <1>3 DEF IInv

(* A lease is taken. *)
LEMMA BeginKeeps ==
  ASSUME IInv, NEW q \in Request, Begin(q)
  PROVE  IInv'
<1>1. TypeOK'
  <2>1. refused' \in BOOLEAN /\ overtaken' \in BOOLEAN /\ adrift' \in BOOLEAN
    BY BumpTypes DEF books, thread, operator, Goto, Begin, TypeOK, IInv
  <2>2. commanded' \in BOOLEAN /\ hooks' \in BOOLEAN /\ unverified' \in BOOLEAN
    BY DEF books, thread, operator, Goto, Ramping, Bump, Begin, TypeOK, IInv
  <2>3. ~(refused' /\ commanded')
    BY BumpTypes DEF books, thread, operator, Goto, Ramping, Begin, TypeOK, RampIsFresh,
        IInv
  <2>4. leases' \subseteq Request /\ covered' \subseteq Request
    BY DEF books, thread, operator, Goto, Ramping, Bump, Begin, TypeOK, IInv
  <2>5. /\ worker' \in {"loop", "restore", "restoring", "restored", "probing", "probed", "soaking",
                       "soaked"} \cup Ramping
        /\ reading' \in {"none", "ok", "failed", "busy", "idle", "hot", "cool"}
    BY DEF books, thread, operator, Goto, Ramping, Bump, Begin, TypeOK, IInv
  <2>6. /\ pc' \in [Request -> {"new", "arrived", "leased", "leaked"}]
        /\ mode' \in {"smart", "max", "default"}
        /\ switch' \in {"idle", "pinning", "clearing", "draining"} /\ switches' \in 0..Switches
    BY FansAssumption DEF books, thread, operator, Goto, Ramping, Bump, Begin, TypeOK, IInv
  <2>7. /\ fans' \in {"auto", "max"} /\ soak' \in {"probe", "release"}
        /\ idle' \in {"none", "fresh", "debounced", "capped"} /\ window' \in {"none", "open", "long"}
    BY DEF books, thread, operator, Goto, Ramping, Bump, Begin, TypeOK, IInv
  <2> QED BY <2>1, <2>2, <2>3, <2>4, <2>5, <2>6, <2>7 DEF TypeOK
<1>2. RampIsFresh' /\ RampIsReal' /\ CommandedIsReal'
  BY DEF books, thread, operator, Goto, Ramping, Bump, Begin, TypeOK, CommandedIsReal,
      RampIsFresh, RampIsReal, WindowCovers, IInv
<1>3. WindowCovers'
  BY DEF books, thread, operator, Goto, Ramping, Bump, Begin, TypeOK, WindowCovers, IInv
<1> QED BY <1>1, <1>2, <1>3 DEF IInv

(* A lease ends. *)
LEMMA EndKeeps ==
  ASSUME IInv, NEW q \in Request, NEW waits \in BOOLEAN, End(q, waits)
  PROVE  IInv'
<1>1. TypeOK'
  <2>1. refused' \in BOOLEAN /\ overtaken' \in BOOLEAN /\ adrift' \in BOOLEAN
    BY BumpTypes DEF books, thread, operator, Goto, End, TypeOK, IInv
  <2>2. commanded' \in BOOLEAN /\ hooks' \in BOOLEAN /\ unverified' \in BOOLEAN
    BY DEF books, thread, operator, Goto, Ramping, Bump, End, TypeOK, IInv
  <2>3. ~(refused' /\ commanded')
    BY BumpTypes DEF books, thread, operator, Goto, Ramping, End, TypeOK, RampIsFresh, IInv
  <2>4. leases' \subseteq Request /\ covered' \subseteq Request
    BY DEF books, thread, operator, Goto, Ramping, Bump, End, TypeOK, IInv
  <2>5. /\ worker' \in {"loop", "restore", "restoring", "restored", "probing", "probed", "soaking",
                       "soaked"} \cup Ramping
        /\ reading' \in {"none", "ok", "failed", "busy", "idle", "hot", "cool"}
    BY DEF books, thread, operator, Goto, Ramping, Bump, End, TypeOK, IInv
  <2>6. /\ pc' \in [Request -> {"new", "arrived", "leased", "leaked"}]
        /\ mode' \in {"smart", "max", "default"}
        /\ switch' \in {"idle", "pinning", "clearing", "draining"} /\ switches' \in 0..Switches
    BY FansAssumption DEF books, thread, operator, Goto, Ramping, Bump, End, TypeOK, IInv
  <2>7. /\ fans' \in {"auto", "max"} /\ soak' \in {"probe", "release"}
        /\ idle' \in {"none", "fresh", "debounced", "capped"} /\ window' \in {"none", "open", "long"}
    BY DEF books, thread, operator, Goto, Ramping, Bump, End, TypeOK, IInv
  <2> QED BY <2>1, <2>2, <2>3, <2>4, <2>5, <2>6, <2>7 DEF TypeOK
<1>2. RampIsFresh' /\ RampIsReal' /\ CommandedIsReal'
  BY DEF books, thread, operator, Goto, Ramping, Bump, End, TypeOK, CommandedIsReal,
      RampIsFresh, RampIsReal, WindowCovers, IInv
<1>3. WindowCovers'
  BY DEF books, thread, operator, Goto, Ramping, Bump, End, TypeOK, WindowCovers, IInv
<1> QED BY <1>1, <1>2, <1>3 DEF IInv

(* A lease nobody will end. *)
LEMMA LeakKeeps ==
  ASSUME IInv, NEW q \in Request, Leak(q)
  PROVE  IInv'
<1>1. TypeOK'
  BY DEF lease, books, thread, operator, Goto, Ramping, Leak, TypeOK, RampIsFresh, IInv
<1>2. RampIsFresh' /\ RampIsReal' /\ CommandedIsReal'
  BY DEF lease, books, thread, operator, Goto, Ramping, Leak, TypeOK, CommandedIsReal,
      RampIsFresh, RampIsReal, WindowCovers, IInv
<1>3. WindowCovers'
  BY DEF lease, books, thread, operator, Goto, Leak, TypeOK, WindowCovers, IInv
<1> QED BY <1>1, <1>2, <1>3 DEF IInv

(* The worker decides. *)
LEMMA LoopKeeps ==
  ASSUME IInv, Loop
  PROVE  IInv'
<1>1. TypeOK'
  BY DEF lease, books, operator, Leased, Ramping, Restorable, Decide, ProbeDecided,
      RampDecided, SoakDecided, SoakReleases, RestoreDecided, Loop, TypeOK, RampIsFresh,
      IInv
<1>2. RampIsFresh' /\ RampIsReal' /\ CommandedIsReal'
  BY DEF lease, books, operator, Leased, Ramping, Restorable, Decide, ProbeDecided,
      RampDecided, SoakDecided, SoakReleases, RestoreDecided, Loop, TypeOK, CommandedIsReal,
      RampIsFresh, RampIsReal, WindowCovers, IInv
<1>3. WindowCovers'
  BY DEF lease, books, operator, Leased, Restorable, Decide, ProbeDecided, RampDecided,
      SoakDecided, SoakReleases, RestoreDecided, Loop, TypeOK, WindowCovers, IInv
<1> QED BY <1>1, <1>2, <1>3 DEF IInv

(* The worker starts the idle clock. *)
LEMMA IdleNoticedKeeps ==
  ASSUME IInv, IdleNoticed
  PROVE  IInv'
<1>1. TypeOK'
  BY DEF books, thread, operator, Leased, Ramping, Restorable, IdleNoticed, TypeOK,
      RampIsFresh, IInv
<1>2. RampIsFresh' /\ RampIsReal' /\ CommandedIsReal'
  BY DEF books, thread, operator, Leased, Ramping, Restorable, IdleNoticed, TypeOK,
      CommandedIsReal, RampIsFresh, RampIsReal, WindowCovers, IInv
<1>3. WindowCovers'
  BY DEF books, thread, operator, Leased, Restorable, IdleNoticed, TypeOK, WindowCovers,
      IInv
<1> QED BY <1>1, <1>2, <1>3 DEF IInv

(* The ramp captures the generation. *)
LEMMA RampCaptureKeeps ==
  ASSUME IInv, RampCapture
  PROVE  IInv'
<1>1. TypeOK'
  <2>1. refused' \in BOOLEAN /\ overtaken' \in BOOLEAN /\ adrift' \in BOOLEAN
    BY DEF books, operator, RampCapture, TypeOK, IInv
  <2>2. commanded' \in BOOLEAN /\ hooks' \in BOOLEAN /\ unverified' \in BOOLEAN
    BY DEF books, operator, RampCapture, TypeOK, IInv
  <2>3. ~(refused' /\ commanded')
    BY DEF books, operator, RampCapture, TypeOK, RampIsFresh, Ramping, IInv
  <2>4. leases' \subseteq Request /\ covered' \subseteq Request
    BY DEF books, operator, RampCapture, TypeOK, IInv
  <2>5. /\ worker' \in {"loop", "restore", "restoring", "restored", "probing", "probed", "soaking",
                       "soaked"} \cup Ramping
        /\ reading' \in {"none", "ok", "failed", "busy", "idle", "hot", "cool"}
    BY DEF books, operator, RampCapture, Ramping, TypeOK, IInv
  <2>6. /\ pc' \in [Request -> {"new", "arrived", "leased", "leaked"}]
        /\ mode' \in {"smart", "max", "default"}
        /\ switch' \in {"idle", "pinning", "clearing", "draining"} /\ switches' \in 0..Switches
    BY FansAssumption DEF books, operator, RampCapture, TypeOK, IInv
  <2>7. /\ fans' \in {"auto", "max"} /\ soak' \in {"probe", "release"}
        /\ idle' \in {"none", "fresh", "debounced", "capped"} /\ window' \in {"none", "open", "long"}
    BY DEF books, operator, RampCapture, TypeOK, IInv
  <2> QED BY <2>1, <2>2, <2>3, <2>4, <2>5, <2>6, <2>7 DEF TypeOK
<1>2. RampIsFresh' /\ RampIsReal' /\ CommandedIsReal'
  BY DEF books, operator, Ramping, RampCapture, TypeOK, CommandedIsReal, RampIsFresh,
      RampIsReal, WindowCovers, IInv
<1>3. WindowCovers'
  BY DEF books, operator, RampCapture, TypeOK, WindowCovers, IInv
<1> QED BY <1>1, <1>2, <1>3 DEF IInv

(* It installs the exit hooks. *)
LEMMA RampHookKeeps ==
  ASSUME IInv, RampHook
  PROVE  IInv'
<1>1. TypeOK'
  <2>1. refused' \in BOOLEAN /\ overtaken' \in BOOLEAN /\ adrift' \in BOOLEAN
    BY DEF lease, operator, RampHook, TypeOK, IInv
  <2>2. commanded' \in BOOLEAN /\ hooks' \in BOOLEAN /\ unverified' \in BOOLEAN
    BY DEF lease, operator, RampHook, TypeOK, IInv
  <2>3. ~(refused' /\ commanded')
    BY DEF lease, operator, RampHook, TypeOK, RampIsFresh, Ramping, IInv
  <2>4. leases' \subseteq Request /\ covered' \subseteq Request
    BY DEF lease, operator, RampHook, TypeOK, IInv
  <2>5. /\ worker' \in {"loop", "restore", "restoring", "restored", "probing", "probed", "soaking",
                       "soaked"} \cup Ramping
        /\ reading' \in {"none", "ok", "failed", "busy", "idle", "hot", "cool"}
    BY DEF lease, operator, RampHook, Ramping, TypeOK, IInv
  <2>6. /\ pc' \in [Request -> {"new", "arrived", "leased", "leaked"}]
        /\ mode' \in {"smart", "max", "default"}
        /\ switch' \in {"idle", "pinning", "clearing", "draining"} /\ switches' \in 0..Switches
    BY FansAssumption DEF lease, operator, RampHook, TypeOK, IInv
  <2>7. /\ fans' \in {"auto", "max"} /\ soak' \in {"probe", "release"}
        /\ idle' \in {"none", "fresh", "debounced", "capped"} /\ window' \in {"none", "open", "long"}
    BY DEF lease, operator, RampHook, TypeOK, IInv
  <2> QED BY <2>1, <2>2, <2>3, <2>4, <2>5, <2>6, <2>7 DEF TypeOK
<1>2. RampIsFresh' /\ RampIsReal' /\ CommandedIsReal'
  BY DEF lease, operator, Ramping, RampHook, TypeOK, CommandedIsReal, RampIsFresh,
      RampIsReal, WindowCovers, IInv
<1>3. WindowCovers'
  BY DEF lease, operator, RampHook, TypeOK, WindowCovers, IInv
<1> QED BY <1>1, <1>2, <1>3 DEF IInv

(* It commands max. *)
LEMMA RampCommandKeeps ==
  ASSUME IInv, NEW ok \in BOOLEAN, NEW applied \in BOOLEAN, RampCommand(ok, applied)
  PROVE  IInv'
<1>1. TypeOK'
  BY DEF lease, books, operator, Ramping, RampCommand, TypeOK, RampIsFresh, IInv
<1>2. RampIsFresh' /\ RampIsReal' /\ CommandedIsReal'
  BY DEF lease, books, operator, Ramping, RampCommand, TypeOK, CommandedIsReal, RampIsFresh,
      RampIsReal, WindowCovers, IInv
<1>3. WindowCovers'
  BY DEF lease, books, operator, RampCommand, TypeOK, WindowCovers, IInv
<1> QED BY <1>1, <1>2, <1>3 DEF IInv

(* Its outcome is filed. *)
LEMMA RampFiledKeeps ==
  ASSUME IInv, RampFiled
  PROVE  IInv'
<1>1. TypeOK'
  <2>1. refused' \in BOOLEAN /\ overtaken' \in BOOLEAN /\ adrift' \in BOOLEAN
    BY DEF operator, RampFiled, TypeOK, IInv
  <2>2. commanded' \in BOOLEAN /\ hooks' \in BOOLEAN /\ unverified' \in BOOLEAN
    BY DEF operator, RampFiled, TypeOK, IInv
  <2>3. ~(refused' /\ commanded')
    BY DEF operator, RampFiled, TypeOK, RampIsFresh, Ramping, IInv
  <2>4. leases' \subseteq Request /\ covered' \subseteq Request
    BY DEF operator, RampFiled, TypeOK, IInv
  <2>5. /\ worker' \in {"loop", "restore", "restoring", "restored", "probing", "probed", "soaking",
                       "soaked"} \cup Ramping
        /\ reading' \in {"none", "ok", "failed", "busy", "idle", "hot", "cool"}
    BY DEF operator, RampFiled, Ramping, TypeOK, IInv
  <2>6. /\ pc' \in [Request -> {"new", "arrived", "leased", "leaked"}]
        /\ mode' \in {"smart", "max", "default"}
        /\ switch' \in {"idle", "pinning", "clearing", "draining"} /\ switches' \in 0..Switches
    BY FansAssumption DEF operator, RampFiled, TypeOK, IInv
  <2>7. /\ fans' \in {"auto", "max"} /\ soak' \in {"probe", "release"}
        /\ idle' \in {"none", "fresh", "debounced", "capped"} /\ window' \in {"none", "open", "long"}
    BY DEF operator, RampFiled, TypeOK, IInv
  <2> QED BY <2>1, <2>2, <2>3, <2>4, <2>5, <2>6, <2>7 DEF TypeOK
<1>2. RampIsFresh' /\ RampIsReal' /\ CommandedIsReal'
  BY DEF operator, Ramping, RampFiled, TypeOK, CommandedIsReal, RampIsFresh, RampIsReal,
      WindowCovers, IInv
<1>3. WindowCovers'
  BY DEF operator, RampFiled, TypeOK, WindowCovers, IInv
<1> QED BY <1>1, <1>2, <1>3 DEF IInv

(* The restore takes its cleanup, or finds a lease. *)
LEMMA RestoreTakeKeeps ==
  ASSUME IInv, RestoreTake
  PROVE  IInv'
<1>1. TypeOK'
  <2>1. refused' \in BOOLEAN /\ overtaken' \in BOOLEAN /\ adrift' \in BOOLEAN
    BY DEF lease, operator, Leased, RestoreTake, TypeOK, IInv
  <2>2. commanded' \in BOOLEAN /\ hooks' \in BOOLEAN /\ unverified' \in BOOLEAN
    BY DEF lease, operator, Leased, RestoreTake, TypeOK, IInv
  <2>3. ~(refused' /\ commanded')
    BY DEF lease, operator, Leased, RestoreTake, TypeOK, RampIsFresh, Ramping, IInv
  <2>4. leases' \subseteq Request /\ covered' \subseteq Request
    BY DEF lease, operator, Leased, RestoreTake, TypeOK, IInv
  <2>5. /\ worker' \in {"loop", "restore", "restoring", "restored", "probing", "probed", "soaking",
                       "soaked"} \cup Ramping
        /\ reading' \in {"none", "ok", "failed", "busy", "idle", "hot", "cool"}
    BY DEF lease, operator, Leased, RestoreTake, Ramping, TypeOK, IInv
  <2>6. /\ pc' \in [Request -> {"new", "arrived", "leased", "leaked"}]
        /\ mode' \in {"smart", "max", "default"}
        /\ switch' \in {"idle", "pinning", "clearing", "draining"} /\ switches' \in 0..Switches
    BY FansAssumption DEF lease, operator, Leased, RestoreTake, TypeOK, IInv
  <2>7. /\ fans' \in {"auto", "max"} /\ soak' \in {"probe", "release"}
        /\ idle' \in {"none", "fresh", "debounced", "capped"} /\ window' \in {"none", "open", "long"}
    BY DEF lease, operator, Leased, RestoreTake, TypeOK, IInv
  <2> QED BY <2>1, <2>2, <2>3, <2>4, <2>5, <2>6, <2>7 DEF TypeOK
<1>2. RampIsFresh' /\ RampIsReal' /\ CommandedIsReal'
  BY DEF lease, operator, Leased, Ramping, RestoreTake, TypeOK, CommandedIsReal,
      RampIsFresh, RampIsReal, WindowCovers, IInv
<1>3. WindowCovers'
  BY DEF lease, operator, Leased, RestoreTake, TypeOK, WindowCovers, IInv
<1> QED BY <1>1, <1>2, <1>3 DEF IInv

(* It commands the automatic curve. *)
LEMMA RestoreCommandKeeps ==
  ASSUME IInv, NEW ok \in BOOLEAN, NEW applied \in BOOLEAN, RestoreCommand(ok, applied)
  PROVE  IInv'
<1>1. TypeOK'
  BY DEF lease, books, operator, Ramping, RestoreCommand, TypeOK, RampIsFresh, IInv
<1>2. RampIsFresh' /\ RampIsReal' /\ CommandedIsReal'
  BY DEF lease, books, operator, Ramping, RestoreCommand, TypeOK, CommandedIsReal,
      RampIsFresh, RampIsReal, WindowCovers, IInv
<1>3. WindowCovers'
  BY DEF lease, books, operator, RestoreCommand, TypeOK, WindowCovers, IInv
<1> QED BY <1>1, <1>2, <1>3 DEF IInv

(* Its outcome is filed. *)
LEMMA RestoreFiledKeeps ==
  ASSUME IInv, RestoreFiled
  PROVE  IInv'
<1>1. TypeOK'
  <2>1. refused' \in BOOLEAN /\ overtaken' \in BOOLEAN /\ adrift' \in BOOLEAN
    BY DEF lease, operator, RestoreFiled, TypeOK, IInv
  <2>2. commanded' \in BOOLEAN /\ hooks' \in BOOLEAN /\ unverified' \in BOOLEAN
    BY DEF lease, operator, RestoreFiled, TypeOK, IInv
  <2>3. ~(refused' /\ commanded')
    BY DEF lease, operator, RestoreFiled, TypeOK, RampIsFresh, Ramping, IInv
  <2>4. leases' \subseteq Request /\ covered' \subseteq Request
    BY DEF lease, operator, RestoreFiled, TypeOK, IInv
  <2>5. /\ worker' \in {"loop", "restore", "restoring", "restored", "probing", "probed", "soaking",
                       "soaked"} \cup Ramping
        /\ reading' \in {"none", "ok", "failed", "busy", "idle", "hot", "cool"}
    BY DEF lease, operator, RestoreFiled, Ramping, TypeOK, IInv
  <2>6. /\ pc' \in [Request -> {"new", "arrived", "leased", "leaked"}]
        /\ mode' \in {"smart", "max", "default"}
        /\ switch' \in {"idle", "pinning", "clearing", "draining"} /\ switches' \in 0..Switches
    BY FansAssumption DEF lease, operator, RestoreFiled, TypeOK, IInv
  <2>7. /\ fans' \in {"auto", "max"} /\ soak' \in {"probe", "release"}
        /\ idle' \in {"none", "fresh", "debounced", "capped"} /\ window' \in {"none", "open", "long"}
    BY DEF lease, operator, RestoreFiled, TypeOK, IInv
  <2> QED BY <2>1, <2>2, <2>3, <2>4, <2>5, <2>6, <2>7 DEF TypeOK
<1>2. RampIsFresh' /\ RampIsReal' /\ CommandedIsReal'
  BY DEF lease, operator, Ramping, RestoreFiled, TypeOK, CommandedIsReal, RampIsFresh,
      RampIsReal, WindowCovers, IInv
<1>3. WindowCovers'
  BY DEF lease, operator, RestoreFiled, TypeOK, WindowCovers, IInv
<1> QED BY <1>1, <1>2, <1>3 DEF IInv

(* The engine's activity is read. *)
LEMMA ProbeReadKeeps ==
  ASSUME IInv, NEW busy \in BOOLEAN, ProbeRead(busy)
  PROVE  IInv'
<1>1. TypeOK'
  BY DEF lease, books, operator, Ramping, ProbeRead, TypeOK, RampIsFresh, IInv
<1>2. RampIsFresh' /\ RampIsReal' /\ CommandedIsReal'
  BY DEF lease, books, operator, Ramping, ProbeRead, TypeOK, CommandedIsReal, RampIsFresh,
      RampIsReal, WindowCovers, IInv
<1>3. WindowCovers'
  BY DEF lease, books, operator, ProbeRead, TypeOK, WindowCovers, IInv
<1> QED BY <1>1, <1>2, <1>3 DEF IInv

(* And filed: leases older than the idle window go. *)
LEMMA ProbeFiledKeeps ==
  ASSUME IInv, ProbeFiled
  PROVE  IInv'
<1>1. TypeOK'
  <2>1. refused' \in BOOLEAN /\ overtaken' \in BOOLEAN /\ adrift' \in BOOLEAN
    BY BumpTypes DEF books, operator, Leased, Close, ProbeFiled, TypeOK, IInv
  <2>2. commanded' \in BOOLEAN /\ hooks' \in BOOLEAN /\ unverified' \in BOOLEAN
    BY DEF books, operator, Leased, Ramping, Bump, Close, ProbeFiled, TypeOK, IInv
  <2>3. ~(refused' /\ commanded')
    BY BumpTypes DEF books, operator, Leased, Ramping, Close, ProbeFiled, TypeOK,
        RampIsFresh, IInv
  <2>4. leases' \subseteq Request /\ covered' \subseteq Request
    BY DEF books, operator, Leased, Ramping, Bump, Close, ProbeFiled, TypeOK, IInv
  <2>5. /\ worker' \in {"loop", "restore", "restoring", "restored", "probing", "probed", "soaking",
                       "soaked"} \cup Ramping
        /\ reading' \in {"none", "ok", "failed", "busy", "idle", "hot", "cool"}
    BY DEF books, operator, Leased, Ramping, Bump, Close, ProbeFiled, TypeOK, IInv
  <2>6. /\ pc' \in [Request -> {"new", "arrived", "leased", "leaked"}]
        /\ mode' \in {"smart", "max", "default"}
        /\ switch' \in {"idle", "pinning", "clearing", "draining"} /\ switches' \in 0..Switches
    BY FansAssumption DEF books, operator, Leased, Ramping, Bump, Close, ProbeFiled, TypeOK,
        IInv
  <2>7. /\ fans' \in {"auto", "max"} /\ soak' \in {"probe", "release"}
        /\ idle' \in {"none", "fresh", "debounced", "capped"} /\ window' \in {"none", "open", "long"}
    BY DEF books, operator, Leased, Ramping, Bump, Close, ProbeFiled, TypeOK, IInv
  <2> QED BY <2>1, <2>2, <2>3, <2>4, <2>5, <2>6, <2>7 DEF TypeOK
<1>2. RampIsFresh' /\ RampIsReal' /\ CommandedIsReal'
  BY DEF books, operator, Leased, Ramping, Bump, Close, ProbeFiled, TypeOK, CommandedIsReal,
      RampIsFresh, RampIsReal, WindowCovers, IInv
<1>3. WindowCovers'
  BY DEF books, operator, Leased, Ramping, Bump, Close, ProbeFiled, TypeOK, WindowCovers,
      IInv
<1> QED BY <1>1, <1>2, <1>3 DEF IInv

(* The die's heat is read. *)
LEMMA SoakReadKeeps ==
  ASSUME IInv, NEW hot \in BOOLEAN, SoakRead(hot)
  PROVE  IInv'
<1>1. TypeOK'
  BY DEF lease, books, operator, Ramping, SoakRead, TypeOK, RampIsFresh, IInv
<1>2. RampIsFresh' /\ RampIsReal' /\ CommandedIsReal'
  BY DEF lease, books, operator, Ramping, SoakRead, TypeOK, CommandedIsReal, RampIsFresh,
      RampIsReal, WindowCovers, IInv
<1>3. WindowCovers'
  BY DEF lease, books, operator, SoakRead, TypeOK, WindowCovers, IInv
<1> QED BY <1>1, <1>2, <1>3 DEF IInv

(* And filed. *)
LEMMA SoakFiledKeeps ==
  ASSUME IInv, SoakFiled
  PROVE  IInv'
<1>1. TypeOK'
  BY DEF books, operator, Ramping, SoakFiled, TypeOK, RampIsFresh, IInv
<1>2. RampIsFresh' /\ RampIsReal' /\ CommandedIsReal'
  BY DEF books, operator, Ramping, SoakFiled, TypeOK, CommandedIsReal, RampIsFresh,
      RampIsReal, WindowCovers, IInv
<1>3. WindowCovers'
  BY DEF books, operator, SoakFiled, TypeOK, WindowCovers, IInv
<1> QED BY <1>1, <1>2, <1>3 DEF IInv

(* The idle clock runs. *)
LEMMA IdleOnKeeps ==
  ASSUME IInv, IdleOn
  PROVE  IInv'
<1>1. TypeOK'
  BY DEF books, thread, operator, Ramping, IdleOn, TypeOK, RampIsFresh, IInv
<1>2. RampIsFresh' /\ RampIsReal' /\ CommandedIsReal'
  BY DEF books, thread, operator, Ramping, IdleOn, TypeOK, CommandedIsReal, RampIsFresh,
      RampIsReal, WindowCovers, IInv
<1>3. WindowCovers'
  BY DEF books, thread, operator, IdleOn, TypeOK, WindowCovers, IInv
<1> QED BY <1>1, <1>2, <1>3 DEF IInv

(* The idle window runs. *)
LEMMA WindowOnKeeps ==
  ASSUME IInv, WindowOn
  PROVE  IInv'
<1>1. TypeOK'
  BY DEF books, thread, operator, Ramping, WindowOn, TypeOK, RampIsFresh, IInv
<1>2. RampIsFresh' /\ RampIsReal' /\ CommandedIsReal'
  BY DEF books, thread, operator, Ramping, WindowOn, TypeOK, CommandedIsReal, RampIsFresh,
      RampIsReal, WindowCovers, IInv
<1>3. WindowCovers'
  BY DEF books, thread, operator, WindowOn, TypeOK, WindowCovers, IInv
<1> QED BY <1>1, <1>2, <1>3 DEF IInv

(* The endpoint detaches the controller. *)
LEMMA DetachKeeps ==
  ASSUME IInv, Detach
  PROVE  IInv'
<1>1. TypeOK'
  <2>1. refused' \in BOOLEAN /\ overtaken' \in BOOLEAN /\ adrift' \in BOOLEAN
    BY BumpTypes DEF thread, CallsFor, Detach, TypeOK, IInv
  <2>2. commanded' \in BOOLEAN /\ hooks' \in BOOLEAN /\ unverified' \in BOOLEAN
    BY DEF thread, Ramping, Bump, CallsFor, Detach, TypeOK, IInv
  <2>3. ~(refused' /\ commanded')
    BY BumpTypes DEF thread, Ramping, CallsFor, Detach, TypeOK, RampIsFresh, IInv
  <2>4. leases' \subseteq Request /\ covered' \subseteq Request
    BY DEF thread, Ramping, Bump, CallsFor, Detach, TypeOK, IInv
  <2>5. /\ worker' \in {"loop", "restore", "restoring", "restored", "probing", "probed", "soaking",
                       "soaked"} \cup Ramping
        /\ reading' \in {"none", "ok", "failed", "busy", "idle", "hot", "cool"}
    BY DEF thread, Ramping, Bump, CallsFor, Detach, TypeOK, IInv
  <2>6. /\ pc' \in [Request -> {"new", "arrived", "leased", "leaked"}]
        /\ mode' \in {"smart", "max", "default"}
        /\ switch' \in {"idle", "pinning", "clearing", "draining"} /\ switches' \in 0..Switches
    BY FansAssumption DEF thread, Ramping, Bump, CallsFor, Detach, TypeOK, IInv
  <2>7. /\ fans' \in {"auto", "max"} /\ soak' \in {"probe", "release"}
        /\ idle' \in {"none", "fresh", "debounced", "capped"} /\ window' \in {"none", "open", "long"}
    BY DEF thread, Ramping, Bump, CallsFor, Detach, TypeOK, IInv
  <2> QED BY <2>1, <2>2, <2>3, <2>4, <2>5, <2>6, <2>7 DEF TypeOK
<1>2. RampIsFresh' /\ RampIsReal' /\ CommandedIsReal'
  BY DEF thread, Ramping, Bump, CallsFor, Detach, TypeOK, CommandedIsReal, RampIsFresh,
      RampIsReal, WindowCovers, IInv
<1>3. WindowCovers'
  BY DEF thread, Ramping, Bump, CallsFor, Detach, TypeOK, WindowCovers, IInv
<1> QED BY <1>1, <1>2, <1>3 DEF IInv

(* And pins the fans. *)
LEMMA PinKeeps ==
  ASSUME IInv, NEW ok \in BOOLEAN, NEW applied \in BOOLEAN, Pin(ok, applied)
  PROVE  IInv'
<1>1. TypeOK'
  BY DEF lease, books, thread, Ramping, Pin, TypeOK, RampIsFresh, IInv
<1>2. RampIsFresh' /\ RampIsReal' /\ CommandedIsReal'
  BY DEF lease, books, thread, Ramping, Pin, TypeOK, CommandedIsReal, RampIsFresh,
      RampIsReal, WindowCovers, IInv
<1>3. WindowCovers'
  BY DEF lease, books, thread, Pin, TypeOK, WindowCovers, IInv
<1> QED BY <1>1, <1>2, <1>3 DEF IInv

(* The endpoint returns to Smart mode. *)
LEMMA BecomeSmartKeeps ==
  ASSUME IInv, BecomeSmart
  PROVE  IInv'
<1>1. TypeOK'
  <2>1. refused' \in BOOLEAN /\ overtaken' \in BOOLEAN /\ adrift' \in BOOLEAN
    BY DEF lease, books, thread, CallsFor, BecomeSmart, TypeOK, IInv
  <2>2. commanded' \in BOOLEAN /\ hooks' \in BOOLEAN /\ unverified' \in BOOLEAN
    BY DEF lease, books, thread, CallsFor, BecomeSmart, TypeOK, IInv
  <2>3. ~(refused' /\ commanded')
    BY DEF lease, books, thread, CallsFor, BecomeSmart, TypeOK, RampIsFresh, Ramping, IInv
  <2>4. leases' \subseteq Request /\ covered' \subseteq Request
    BY DEF lease, books, thread, CallsFor, BecomeSmart, TypeOK, IInv
  <2>5. /\ worker' \in {"loop", "restore", "restoring", "restored", "probing", "probed", "soaking",
                       "soaked"} \cup Ramping
        /\ reading' \in {"none", "ok", "failed", "busy", "idle", "hot", "cool"}
    BY DEF lease, books, thread, CallsFor, BecomeSmart, Ramping, TypeOK, IInv
  <2>6. /\ pc' \in [Request -> {"new", "arrived", "leased", "leaked"}]
        /\ mode' \in {"smart", "max", "default"}
        /\ switch' \in {"idle", "pinning", "clearing", "draining"} /\ switches' \in 0..Switches
    BY FansAssumption DEF lease, books, thread, CallsFor, BecomeSmart, TypeOK, IInv
  <2>7. /\ fans' \in {"auto", "max"} /\ soak' \in {"probe", "release"}
        /\ idle' \in {"none", "fresh", "debounced", "capped"} /\ window' \in {"none", "open", "long"}
    BY DEF lease, books, thread, CallsFor, BecomeSmart, TypeOK, IInv
  <2> QED BY <2>1, <2>2, <2>3, <2>4, <2>5, <2>6, <2>7 DEF TypeOK
<1>2. RampIsFresh' /\ RampIsReal' /\ CommandedIsReal'
  BY DEF lease, books, thread, Ramping, CallsFor, BecomeSmart, TypeOK, CommandedIsReal,
      RampIsFresh, RampIsReal, WindowCovers, IInv
<1>3. WindowCovers'
  BY DEF lease, books, thread, CallsFor, BecomeSmart, TypeOK, WindowCovers, IInv
<1> QED BY <1>1, <1>2, <1>3 DEF IInv

(* And drops every lease. *)
LEMMA ClearedKeeps ==
  ASSUME IInv, Cleared
  PROVE  IInv'
<1>1. TypeOK'
  <2>1. refused' \in BOOLEAN /\ overtaken' \in BOOLEAN /\ adrift' \in BOOLEAN
    BY BumpTypes DEF books, thread, RestoreNow, Cleared, TypeOK, IInv
  <2>2. commanded' \in BOOLEAN /\ hooks' \in BOOLEAN /\ unverified' \in BOOLEAN
    BY DEF books, thread, Ramping, Bump, RestoreNow, Cleared, TypeOK, IInv
  <2>3. ~(refused' /\ commanded')
    BY BumpTypes DEF books, thread, Ramping, RestoreNow, Cleared, TypeOK, RampIsFresh, IInv
  <2>4. leases' \subseteq Request /\ covered' \subseteq Request
    BY DEF books, thread, Ramping, Bump, RestoreNow, Cleared, TypeOK, IInv
  <2>5. /\ worker' \in {"loop", "restore", "restoring", "restored", "probing", "probed", "soaking",
                       "soaked"} \cup Ramping
        /\ reading' \in {"none", "ok", "failed", "busy", "idle", "hot", "cool"}
    BY DEF books, thread, Ramping, Bump, RestoreNow, Cleared, TypeOK, IInv
  <2>6. /\ pc' \in [Request -> {"new", "arrived", "leased", "leaked"}]
        /\ mode' \in {"smart", "max", "default"}
        /\ switch' \in {"idle", "pinning", "clearing", "draining"} /\ switches' \in 0..Switches
    BY FansAssumption DEF books, thread, Ramping, Bump, RestoreNow, Cleared, TypeOK, IInv
  <2>7. /\ fans' \in {"auto", "max"} /\ soak' \in {"probe", "release"}
        /\ idle' \in {"none", "fresh", "debounced", "capped"} /\ window' \in {"none", "open", "long"}
    BY DEF books, thread, Ramping, Bump, RestoreNow, Cleared, TypeOK, IInv
  <2> QED BY <2>1, <2>2, <2>3, <2>4, <2>5, <2>6, <2>7 DEF TypeOK
<1>2. RampIsFresh' /\ RampIsReal' /\ CommandedIsReal'
  BY DEF books, thread, Ramping, Bump, RestoreNow, Cleared, TypeOK, CommandedIsReal,
      RampIsFresh, RampIsReal, WindowCovers, IInv
<1>3. WindowCovers'
  BY DEF books, thread, Ramping, Bump, RestoreNow, Cleared, TypeOK, WindowCovers, IInv
<1> QED BY <1>1, <1>2, <1>3 DEF IInv

(* The endpoint leaves for Default. *)
LEMMA DrainKeeps ==
  ASSUME IInv, Drain
  PROVE  IInv'
<1>1. TypeOK'
  <2>1. refused' \in BOOLEAN /\ overtaken' \in BOOLEAN /\ adrift' \in BOOLEAN
    BY BumpTypes DEF books, thread, CallsFor, RestoreNow, Drain, TypeOK, IInv
  <2>2. commanded' \in BOOLEAN /\ hooks' \in BOOLEAN /\ unverified' \in BOOLEAN
    BY DEF books, thread, Ramping, Bump, CallsFor, RestoreNow, Drain, TypeOK, IInv
  <2>3. ~(refused' /\ commanded')
    BY BumpTypes DEF books, thread, Ramping, CallsFor, RestoreNow, Drain, TypeOK,
        RampIsFresh, IInv
  <2>4. leases' \subseteq Request /\ covered' \subseteq Request
    BY DEF books, thread, Ramping, Bump, CallsFor, RestoreNow, Drain, TypeOK, IInv
  <2>5. /\ worker' \in {"loop", "restore", "restoring", "restored", "probing", "probed", "soaking",
                       "soaked"} \cup Ramping
        /\ reading' \in {"none", "ok", "failed", "busy", "idle", "hot", "cool"}
    BY DEF books, thread, Ramping, Bump, CallsFor, RestoreNow, Drain, TypeOK, IInv
  <2>6. /\ pc' \in [Request -> {"new", "arrived", "leased", "leaked"}]
        /\ mode' \in {"smart", "max", "default"}
        /\ switch' \in {"idle", "pinning", "clearing", "draining"} /\ switches' \in 0..Switches
    BY FansAssumption DEF books, thread, Ramping, Bump, CallsFor, RestoreNow, Drain, TypeOK,
        IInv
  <2>7. /\ fans' \in {"auto", "max"} /\ soak' \in {"probe", "release"}
        /\ idle' \in {"none", "fresh", "debounced", "capped"} /\ window' \in {"none", "open", "long"}
    BY DEF books, thread, Ramping, Bump, CallsFor, RestoreNow, Drain, TypeOK, IInv
  <2> QED BY <2>1, <2>2, <2>3, <2>4, <2>5, <2>6, <2>7 DEF TypeOK
<1>2. RampIsFresh' /\ RampIsReal' /\ CommandedIsReal'
  BY DEF books, thread, Ramping, Bump, CallsFor, RestoreNow, Drain, TypeOK, CommandedIsReal,
      RampIsFresh, RampIsReal, WindowCovers, IInv
<1>3. WindowCovers'
  BY DEF books, thread, Ramping, Bump, CallsFor, RestoreNow, Drain, TypeOK, WindowCovers,
      IInv
<1> QED BY <1>1, <1>2, <1>3 DEF IInv

(* And commands the automatic curve. *)
LEMMA BecomeDefaultKeeps ==
  ASSUME IInv, NEW ok \in BOOLEAN, NEW applied \in BOOLEAN, BecomeDefault(ok, applied)
  PROVE  IInv'
<1>1. TypeOK'
  BY DEF lease, books, thread, Ramping, BecomeDefault, TypeOK, RampIsFresh, IInv
<1>2. RampIsFresh' /\ RampIsReal' /\ CommandedIsReal'
  BY DEF lease, books, thread, Ramping, BecomeDefault, TypeOK, CommandedIsReal, RampIsFresh,
      RampIsReal, WindowCovers, IInv
<1>3. WindowCovers'
  BY DEF lease, books, thread, BecomeDefault, TypeOK, WindowCovers, IInv
<1> QED BY <1>1, <1>2, <1>3 DEF IInv

-----------------------------------------------------------------------------
(* The theorems.                                                           *)

LEMMA InitHolds == Init => IInv
<1> SUFFICES ASSUME Init PROVE IInv
  OBVIOUS
<1>1. TypeOK
  <2>1. pc \in [Request -> {"new", "arrived", "leased", "leaked"}] /\ switches \in 0..Switches
    BY FansAssumption DEF Init
  <2>2. ~refused /\ refused \in BOOLEAN /\ overtaken \in BOOLEAN /\ adrift \in BOOLEAN
    BY DEF Init
  <2>3. commanded \in BOOLEAN /\ hooks \in BOOLEAN /\ unverified \in BOOLEAN
    BY DEF Init
  <2> QED BY <2>1, <2>2, <2>3 DEF Init, TypeOK
<1>2. RampIsFresh /\ RampIsReal /\ CommandedIsReal
  BY DEF Init, RampIsFresh, Ramping, RampIsReal, CommandedIsReal
<1>3. WindowCovers
  BY DEF Init, WindowCovers
<1> QED BY <1>1, <1>2, <1>3 DEF IInv

LEMMA StutterKeeps == IInv /\ UNCHANGED vars => IInv'
BY DEF IInv, TypeOK, RampIsFresh, RampIsReal, WindowCovers, CommandedIsReal, vars, lease,
   books, thread, operator

LEMMA NextKeeps == IInv /\ [Next]_vars => IInv'
<1> SUFFICES ASSUME IInv, [Next]_vars PROVE IInv'
  OBVIOUS
<1>1. CASE \E q \in Request : Client(q)
  BY <1>1, ArriveKeeps, BeginKeeps, EndKeeps, LeakKeeps DEF Client
<1>2. CASE Worker
  <2>1. \A o \in Outcome : o[1] \in BOOLEAN /\ o[2] \in BOOLEAN
    BY OutcomesAreBooleans
  <2>2. ASSUME NEW o \in Outcome, RampCommand(o[1], o[2]) \/ RestoreCommand(o[1], o[2])
        PROVE  IInv'
    BY <2>1, <2>2, RampCommandKeeps, RestoreCommandKeeps
  <2> QED BY <1>2, <2>2, LoopKeeps, IdleNoticedKeeps, RampCaptureKeeps, RampHookKeeps,
        RampFiledKeeps, RestoreTakeKeeps, RestoreFiledKeeps, ProbeReadKeeps, ProbeFiledKeeps,
        SoakReadKeeps, SoakFiledKeeps DEF Worker
<1>3. CASE IdleOn \/ WindowOn
  BY <1>3, IdleOnKeeps, WindowOnKeeps
<1>4. CASE Operator
  <2>1. \A o \in Outcome : o[1] \in BOOLEAN /\ o[2] \in BOOLEAN
    BY OutcomesAreBooleans
  <2>2. ASSUME NEW o \in Outcome, Pin(o[1], o[2]) \/ BecomeDefault(o[1], o[2])
        PROVE  IInv'
    BY <2>1, <2>2, PinKeeps, BecomeDefaultKeeps
  <2> QED BY <1>4, <2>2, DetachKeeps, BecomeSmartKeeps, ClearedKeeps, DrainKeeps DEF Operator
<1>5. CASE UNCHANGED vars
  BY <1>5, StutterKeeps
<1> QED BY <1>1, <1>2, <1>3, <1>4, <1>5 DEF Next

(* IInv is an invariant: no interleaving of leases, the worker's commands, the
   reconciler and the fan-mode endpoint breaks one of its parts. *)
THEOREM SpecIInv == Spec => []IInv
BY InitHolds, NextKeeps, PTL DEF Spec

(* Types; and a ramp that failed for the present leases is not repeated for
   them (_ramp_failed_generation), for any number of requests. *)
THEOREM TypeCorrect == Spec => []TypeOK
<1>1. IInv => TypeOK
  BY DEF IInv
<1> QED BY <1>1, SpecIInv, PTL

(* _commanded_max is not set over fans on the automatic curve, whatever fails
   and whoever takes over (_do_ramp, _do_restore, detach). *)
THEOREM CommandedMeansMax == Spec => []CommandedIsReal
<1>1. IInv => CommandedIsReal
  BY DEF IInv
<1> QED BY <1>1, SpecIInv, PTL

(* The reconciler (_do_probe_activity) drops no lease taken since its idle
   window opened, with any number of requests. *)
THEOREM ReconcilerSparesTheNew == Spec => DropsOnlyStale
<1>1. ASSUME IInv, ProbeFiled, leases' # leases
      PROVE  leases \subseteq covered
  <2>1. window = "long"
    BY <1>1 DEF ProbeFiled, Close
  <2> QED BY <1>1, <2>1 DEF IInv, WindowCovers
<1> QED BY <1>1, SpecIInv, PTL DEF Spec, DropsOnlyStale
=============================================================================
