------------------------- MODULE EngineSessionProofs -------------------------
(***************************************************************************)
(* Theorems about EngineSession, for any set of requests, any number of    *)
(* records and of polls.  Every action keeps the inductive invariant; one  *)
(* lemma per action, one step per part of the invariant it can disturb.    *)
(***************************************************************************)
EXTENDS EngineSession, TLAPS

(* The record a request owns is the one filed, unless it was cleared. *)
LEMMA OwnedIsFiled ==
  ASSUME IInv, NEW r \in Record \ cleared, owner[r] \in Request
  PROVE  r = registry
BY DEF IInv, TypeOK, Ownership, LiveRecords

(* The initial states satisfy the invariant. *)
LEMMA InitHolds == Init => IInv
<1> SUFFICES ASSUME Init PROVE IInv
  OBVIOUS
<1>1. Types
  <2>1. 0 \in 0..Polls /\ 0 \in 0..Records
    BY SessionAssumption
  <2> QED BY <2>1 DEF Init, Types, NoRecord, Places
<1>2. Ownership
  BY SessionAssumption DEF Init, Ownership, Owning
<1>3. LiveRecords /\ StaleIsIdle /\ ReleaseOwns /\ FlaggedWhileGenerating /\ WaitersMet
  BY DEF Init, LiveRecords, StaleIsIdle, ReleaseOwns, FlaggedWhileGenerating, WaitersMet,
      PreSlot, Owning, NoRecord
<1> QED BY <1>1, <1>2, <1>3 DEF IInv, TypeOK

-----------------------------------------------------------------------------
(* One lemma per action.                                                   *)

(* get_or_create: a new record is numbered past all others. *)
LEMMA LookupKeeps ==
  ASSUME IInv, NEW q \in Request, Lookup(q)
  PROVE  IInv'
<1>1. Types'
  <2>1. registry' \in Record /\ made' \in 0..Records
    BY SessionAssumption DEF Lookup, Types, TypeOK, IInv, Record, NoRecord
  <2>2. ref' \in [Request -> Record \cup {NoRecord}] /\ pc' \in [Request -> Places]
    BY <2>1 DEF Lookup, Goto, Types, TypeOK, IInv, Places, PreSlot
  <2> QED BY <2>1, <2>2 DEF Lookup, slot, Types, TypeOK, IInv
<1>2. Ownership'
  BY SessionAssumption DEF Record, NoRecord, slot, RegistryFree, Goto, Lookup, Owning,
      Types, Ownership, TypeOK, IInv
<1>3. LiveRecords'
  BY SessionAssumption DEF Record, NoRecord, slot, RegistryFree, Goto, Lookup, PreSlot,
      Owning, Types, TypeOK, LiveRecords, IInv
<1>4. StaleIsIdle'
  BY DEF NoRecord, slot, RegistryFree, Goto, Lookup, PreSlot, Types, TypeOK, StaleIsIdle,
      IInv
<1>5. FlaggedWhileGenerating'
  BY DEF NoRecord, slot, RegistryFree, Goto, Lookup, Types, TypeOK, FlaggedWhileGenerating,
      IInv
<1>6. WaitersMet'
  BY DEF NoRecord, slot, RegistryFree, Goto, Lookup, Types, TypeOK, WaitersMet, IInv
<1>7. ReleaseOwns'
  BY DEF slot, Lookup, ReleaseOwns, IInv
<1> QED BY <1>1, <1>2, <1>3, <1>4, <1>5, <1>6, <1>7 DEF IInv, TypeOK

(* The slot and its flag in one step. *)
LEMMA TryFreeKeeps ==
  ASSUME IInv, NEW q \in Request, TryFree(q)
  PROVE  IInv'
<1>1. Types'
  BY SessionAssumption DEF Record, NoRecord, GuardFree, Goto, Touch, HoldFor, TryFree,
      PreSlot, Owning, Places, Types, TypeOK, IInv
<1>2. Ownership'
  BY SessionAssumption DEF Record, GuardFree, Goto, Touch, HoldFor, TryFree, Owning, Types,
      Ownership, TypeOK, IInv
<1>3. LiveRecords'
  BY SessionAssumption DEF Record, GuardFree, Goto, Touch, HoldFor, TryFree, PreSlot,
      Owning, Types, TypeOK, LiveRecords, IInv
<1>4. StaleIsIdle'
  BY DEF NoRecord, GuardFree, Goto, Touch, HoldFor, TryFree, PreSlot, Types, TypeOK,
      StaleIsIdle, IInv
<1>5. ReleaseOwns'
  BY SessionAssumption DEF Record, GuardFree, Goto, Touch, HoldFor, TryFree, Types, TypeOK,
      ReleaseOwns, IInv
<1>6. FlaggedWhileGenerating'
  BY DEF Record, GuardFree, Goto, Touch, HoldFor, TryFree, PreSlot, Owning, Types, TypeOK,
      FlaggedWhileGenerating, LiveRecords, IInv
<1>7. WaitersMet'
  BY DEF GuardFree, Goto, Touch, HoldFor, TryFree, Types, TypeOK, WaitersMet, IInv
<1> QED BY <1>1, <1>2, <1>3, <1>4, <1>5, <1>6, <1>7 DEF IInv, TypeOK

(* A taken slot: the request waits for a release, or has met a request. *)
LEMMA TryTakenKeeps ==
  ASSUME IInv, NEW q \in Request, TryTaken(q)
  PROVE  IInv'
<1>1. Types'
  <2>1. pc' \in [Request -> Places] /\ ref' \in [Request -> Record \cup {NoRecord}]
    BY DEF TryTaken, Denied, Leave, Goto, Types, TypeOK, IInv, Places, PreSlot
  <2>2. polls' \in [Request -> 0..Polls] /\ met' \subseteq Request
    BY SessionAssumption DEF TryTaken, Denied, Leave, Types, TypeOK, IInv
  <2> QED BY <2>1, <2>2 DEF TryTaken, slot, Types, TypeOK, IInv
<1>2. Ownership'
  <2>1. \A p \in Request : p # q => pc'[p] = pc[p] /\ ref'[p] = ref[p]
    BY DEF TryTaken, Denied, Leave, Goto, Types, TypeOK, IInv
  <2>2. pc[q] \notin Owning /\ pc'[q] \notin Owning
    BY DEF TryTaken, Denied, Leave, Goto, Types, TypeOK, IInv, Owning
  <2> QED BY <2>1, <2>2 DEF TryTaken, slot, Ownership, TypeOK, IInv
<1>3. LiveRecords'
  BY SessionAssumption DEF Record, NoRecord, slot, GuardFree, Goto, Leave, Denied, TryTaken,
      PreSlot, Owning, Types, TypeOK, LiveRecords, IInv
<1>4. StaleIsIdle'
  BY DEF NoRecord, slot, GuardFree, Goto, Leave, Denied, TryTaken, PreSlot, Types, TypeOK,
      StaleIsIdle, IInv
<1>5. FlaggedWhileGenerating'
  BY DEF NoRecord, slot, GuardFree, Goto, Leave, Denied, TryTaken, Types, TypeOK,
      FlaggedWhileGenerating, IInv
<1>6. WaitersMet'
  <2>1. \A p \in Request : p # q => pc'[p] = pc[p]
    BY DEF TryTaken, Denied, Leave, Goto, Types, TypeOK, IInv
  <2>2. ref[q] \in Record
    BY DEF TryTaken, LiveRecords, IInv, PreSlot
  <2>3. pc'[q] \in {"waiting", "forked"} => q \in met'
    BY <2>2 DEF TryTaken, Goto, Types, TypeOK, IInv
  <2>4. pc'[q] \in {"awaiting", "waiting", "forked"}
    BY DEF TryTaken, Denied, Leave, Goto, Types, TypeOK, IInv
  <2> QED BY <2>1, <2>3, <2>4 DEF TryTaken, WaitersMet, IInv
<1>7. ReleaseOwns'
  BY DEF slot, TryTaken, ReleaseOwns, IInv
<1> QED BY <1>1, <1>2, <1>3, <1>4, <1>5, <1>6, <1>7 DEF IInv, TypeOK

(* A waiting acquire takes the slot of a record nobody may drop. *)
LEMMA AcquireKeeps ==
  ASSUME IInv, NEW q \in Request, Acquire(q)
  PROVE  IInv'
<1>1. Types'
  BY SessionAssumption DEF Record, NoRecord, Goto, Acquire, PreSlot, Owning, Places, Types,
      TypeOK, IInv
<1>2. Ownership'
  BY SessionAssumption DEF Record, Goto, Acquire, Owning, Types, Ownership, TypeOK, IInv
<1>3. LiveRecords'
  BY SessionAssumption DEF Record, Goto, Acquire, PreSlot, Owning, Types, TypeOK,
      LiveRecords, IInv
<1>4. StaleIsIdle'
  BY DEF NoRecord, Goto, Acquire, PreSlot, Types, TypeOK, StaleIsIdle, IInv
<1>5. ReleaseOwns'
  BY SessionAssumption DEF Record, Goto, Acquire, Types, TypeOK, ReleaseOwns, IInv
<1>6. FlaggedWhileGenerating'
  BY DEF Goto, Acquire, Types, TypeOK, FlaggedWhileGenerating, IInv
<1>7. WaitersMet'
  BY DEF Goto, Acquire, Types, TypeOK, WaitersMet, IInv
<1> QED BY <1>1, <1>2, <1>3, <1>4, <1>5, <1>6, <1>7 DEF IInv, TypeOK

(* The wait for a release runs out. *)
LEMMA AwaitTimeoutKeeps ==
  ASSUME IInv, NEW q \in Request, AwaitTimeout(q)
  PROVE  IInv'
<1>1. Types'
  <2>1. pc' \in [Request -> Places] /\ ref' \in [Request -> Record \cup {NoRecord}]
    BY DEF AwaitTimeout, Denied, Leave, Goto, Types, TypeOK, IInv, Places, PreSlot
  <2>2. polls' \in [Request -> 0..Polls]
    BY SessionAssumption DEF AwaitTimeout, Denied, Leave, Types, TypeOK, IInv
  <2> QED BY <2>1, <2>2 DEF AwaitTimeout, slot, Types, TypeOK, IInv
<1>2. Ownership'
  BY SessionAssumption DEF Record, NoRecord, slot, Goto, Leave, Denied, AwaitTimeout,
      Owning, Types, Ownership, TypeOK, IInv
<1>3. LiveRecords'
  BY SessionAssumption DEF Record, NoRecord, slot, Goto, Leave, Denied, AwaitTimeout,
      PreSlot, Owning, Types, TypeOK, LiveRecords, IInv
<1>4. StaleIsIdle'
  BY DEF NoRecord, slot, Goto, Leave, Denied, AwaitTimeout, PreSlot, Types, TypeOK,
      StaleIsIdle, IInv
<1>5. FlaggedWhileGenerating'
  BY DEF NoRecord, slot, Goto, Leave, Denied, AwaitTimeout, Types, TypeOK,
      FlaggedWhileGenerating, IInv
<1>6. WaitersMet'
  BY DEF NoRecord, slot, Goto, Leave, Denied, AwaitTimeout, Types, TypeOK, WaitersMet, IInv
<1>7. ReleaseOwns'
  BY DEF slot, AwaitTimeout, ReleaseOwns, IInv
<1> QED BY <1>1, <1>2, <1>3, <1>4, <1>5, <1>6, <1>7 DEF IInv, TypeOK

(* The flag follows the slot. *)
LEMMA HoldKeeps ==
  ASSUME IInv, NEW q \in Request, Hold(q)
  PROVE  IInv'
<1>1. Types'
  BY SessionAssumption DEF Record, NoRecord, GuardFree, Goto, Touch, HoldFor, Hold, PreSlot,
      Owning, Places, Types, TypeOK, IInv
<1>2. Ownership'
  BY SessionAssumption DEF Record, GuardFree, Goto, Touch, HoldFor, Hold, Owning, Types,
      Ownership, TypeOK, IInv
<1>3. LiveRecords'
  BY SessionAssumption DEF Record, GuardFree, Goto, Touch, HoldFor, Hold, PreSlot, Owning,
      Types, TypeOK, LiveRecords, IInv
<1>4. StaleIsIdle'
  BY DEF NoRecord, GuardFree, Goto, Touch, HoldFor, Hold, PreSlot, Owning, Types, TypeOK,
      StaleIsIdle, IInv
<1>5. FlaggedWhileGenerating'
  BY DEF Record, GuardFree, Goto, Touch, HoldFor, Hold, PreSlot, Owning, Types, TypeOK,
      FlaggedWhileGenerating, LiveRecords, IInv
<1>6. WaitersMet'
  BY DEF GuardFree, Goto, Touch, HoldFor, Hold, Types, TypeOK, WaitersMet, IInv
<1>7. ReleaseOwns'
  BY DEF Hold, ReleaseOwns, IInv
<1> QED BY <1>1, <1>2, <1>3, <1>4, <1>5, <1>6, <1>7 DEF IInv, TypeOK

(* A refusal. *)
LEMMA RefuseKeeps ==
  ASSUME IInv, NEW q \in Request, Refuse(q)
  PROVE  IInv'
<1>1. Types'
  BY SessionAssumption DEF Record, NoRecord, slot, Goto, Leave, HolderCancelled, Refuse,
      PreSlot, Owning, Places, Types, TypeOK, IInv
<1>2. Ownership'
  BY SessionAssumption DEF Record, NoRecord, slot, Goto, Leave, HolderCancelled, Refuse,
      Owning, Types, Ownership, TypeOK, IInv
<1>3. LiveRecords'
  BY SessionAssumption DEF Record, NoRecord, slot, Goto, Leave, HolderCancelled, Refuse,
      PreSlot, Owning, Types, TypeOK, LiveRecords, IInv
<1>4. StaleIsIdle'
  BY DEF NoRecord, slot, Goto, Leave, HolderCancelled, Refuse, PreSlot, Types, TypeOK,
      StaleIsIdle, IInv
<1>5. FlaggedWhileGenerating'
  BY DEF NoRecord, slot, Goto, Leave, HolderCancelled, Refuse, Types, TypeOK,
      FlaggedWhileGenerating, IInv
<1>6. WaitersMet'
  BY DEF NoRecord, slot, Goto, Leave, HolderCancelled, Refuse, Types, TypeOK, WaitersMet,
      IInv
<1>7. ReleaseOwns'
  BY DEF slot, Refuse, ReleaseOwns, IInv
<1> QED BY <1>1, <1>2, <1>3, <1>4, <1>5, <1>6, <1>7 DEF IInv, TypeOK

(* A poll begins. *)
LEMMA PollKeeps ==
  ASSUME IInv, NEW q \in Request, Poll(q)
  PROVE  IInv'
<1>1. Types'
  BY SessionAssumption DEF Record, NoRecord, slot, Goto, HolderCancelled, Poll, PreSlot,
      Owning, Places, Types, TypeOK, IInv
<1>2. Ownership'
  BY SessionAssumption DEF Record, slot, Goto, HolderCancelled, Poll, Owning, Types,
      Ownership, TypeOK, IInv
<1>3. LiveRecords'
  BY SessionAssumption DEF Record, slot, Goto, HolderCancelled, Poll, PreSlot, Owning,
      Types, TypeOK, LiveRecords, IInv
<1>4. StaleIsIdle'
  BY DEF NoRecord, slot, Goto, HolderCancelled, Poll, PreSlot, Types, TypeOK, StaleIsIdle,
      IInv
<1>5. FlaggedWhileGenerating'
  BY DEF slot, Goto, HolderCancelled, Poll, Types, TypeOK, FlaggedWhileGenerating, IInv
<1>6. WaitersMet'
  BY DEF slot, Goto, HolderCancelled, Poll, Types, TypeOK, WaitersMet, IInv
<1>7. ReleaseOwns'
  BY DEF slot, Poll, ReleaseOwns, IInv
<1> QED BY <1>1, <1>2, <1>3, <1>4, <1>5, <1>6, <1>7 DEF IInv, TypeOK

(* A poll ends. *)
LEMMA PollTimeoutKeeps ==
  ASSUME IInv, NEW q \in Request, PollTimeout(q)
  PROVE  IInv'
<1>1. Types'
  BY SessionAssumption DEF Record, NoRecord, slot, Goto, PollTimeout, PreSlot, Owning,
      Places, Types, TypeOK, IInv
<1>2. Ownership'
  BY SessionAssumption DEF Record, slot, Goto, PollTimeout, Owning, Types, Ownership,
      TypeOK, IInv
<1>3. LiveRecords'
  BY SessionAssumption DEF Record, slot, Goto, PollTimeout, PreSlot, Owning, Types, TypeOK,
      LiveRecords, IInv
<1>4. StaleIsIdle'
  BY DEF NoRecord, slot, Goto, PollTimeout, PreSlot, Types, TypeOK, StaleIsIdle, IInv
<1>5. FlaggedWhileGenerating'
  BY DEF slot, Goto, PollTimeout, Types, TypeOK, FlaggedWhileGenerating, IInv
<1>6. WaitersMet'
  BY DEF slot, Goto, PollTimeout, Types, TypeOK, WaitersMet, IInv
<1>7. ReleaseOwns'
  BY DEF slot, PollTimeout, ReleaseOwns, IInv
<1> QED BY <1>1, <1>2, <1>3, <1>4, <1>5, <1>6, <1>7 DEF IInv, TypeOK

(* The flag cleared is the request's own. *)
LEMMA UnflagKeeps ==
  ASSUME IInv, NEW q \in Request, Unflag(q)
  PROVE  IInv'
<1>1. Types'
  BY SessionAssumption DEF Record, NoRecord, Goto, Touch, Unflag, PreSlot, Owning, Places,
      Types, TypeOK, IInv
<1>2. Ownership'
  BY SessionAssumption DEF Record, Goto, Touch, Unflag, Owning, Types, Ownership, TypeOK,
      IInv
<1>3. LiveRecords'
  BY SessionAssumption DEF Record, Goto, Touch, Unflag, PreSlot, Owning, Types, TypeOK,
      LiveRecords, IInv
<1>4. StaleIsIdle'
  <2>1. ref[q] \in Record /\ owner[ref[q]] = q
    BY DEF Unflag, LiveRecords, Ownership, TypeOK, IInv, Owning
  <2>2. sweep = "dropping" => ref[q] # registry
    BY <2>1, SessionAssumption DEF StaleIsIdle, IInv
  <2>3. \A p \in Request : pc'[p] \in PreSlot => pc[p] \in PreSlot
    BY DEF Unflag, Goto, Types, TypeOK, IInv, PreSlot
  <2> QED BY <2>2, <2>3 DEF Unflag, Touch, StaleIsIdle, IInv
<1>5. FlaggedWhileGenerating'
  BY DEF Record, Goto, Touch, Unflag, Owning, Types, Ownership, TypeOK,
      FlaggedWhileGenerating, IInv
<1>6. WaitersMet'
  BY DEF Goto, Touch, Unflag, Types, TypeOK, WaitersMet, IInv
<1>7. ReleaseOwns'
  BY DEF Unflag, ReleaseOwns, IInv
<1> QED BY <1>1, <1>2, <1>3, <1>4, <1>5, <1>6, <1>7 DEF IInv, TypeOK

(* The lock given back is the request's own. *)
LEMMA GiveBackKeeps ==
  ASSUME IInv, NEW q \in Request, GiveBack(q)
  PROVE  IInv'
<1>1. Types'
  <2>1. pc' \in [Request -> Places] /\ ref' \in [Request -> Record \cup {NoRecord}]
    BY DEF GiveBack, Leave, Goto, Types, TypeOK, IInv, Places
  <2>2. polls' \in [Request -> 0..Polls]
    <3>1. 0 \in 0..Polls
      BY SessionAssumption
    <3> QED BY <3>1 DEF GiveBack, Leave, Types, TypeOK, IInv
  <2>3. owner' \in [Record -> Request \cup {"release", NoOne}]
    BY DEF GiveBack, Types, TypeOK, IInv
  <2> QED BY <2>1, <2>2, <2>3 DEF GiveBack, Types, TypeOK, IInv
<1>2. Ownership'
  BY SessionAssumption DEF Record, NoRecord, Goto, Leave, GiveBack, Owning, Types,
      Ownership, TypeOK, IInv
<1>3. LiveRecords'
  BY SessionAssumption DEF Record, NoRecord, Goto, Leave, GiveBack, PreSlot, Owning, Types,
      TypeOK, LiveRecords, IInv
<1>4. StaleIsIdle'
  BY DEF NoRecord, Goto, Leave, GiveBack, PreSlot, Types, TypeOK, StaleIsIdle, IInv
<1>5. ReleaseOwns'
  <2>1. ref[q] \in Record /\ owner[ref[q]] = q
    BY DEF GiveBack, LiveRecords, Ownership, TypeOK, IInv, Owning
  <2>2. release = "holding" => held # ref[q]
    BY <2>1, SessionAssumption DEF ReleaseOwns, IInv
  <2> QED BY <2>2 DEF GiveBack, ReleaseOwns, Types, TypeOK, IInv
<1>6. FlaggedWhileGenerating'
  BY DEF NoRecord, Goto, Leave, GiveBack, Types, TypeOK, FlaggedWhileGenerating, IInv
<1>7. WaitersMet'
  BY DEF NoRecord, Goto, Leave, GiveBack, Types, TypeOK, WaitersMet, IInv
<1> QED BY <1>1, <1>2, <1>3, <1>4, <1>5, <1>6, <1>7 DEF IInv, TypeOK

(* A cancel signal. *)
LEMMA StopKeeps ==
  ASSUME IInv, NEW q \in Request, Stop(q)
  PROVE  IInv'
<1>1. Types'
  BY SessionAssumption DEF Record, NoRecord, slot, request, Stop, PreSlot, Owning, Places,
      Types, TypeOK, IInv
<1>2. Ownership' /\ LiveRecords' /\ StaleIsIdle' /\ ReleaseOwns' /\ FlaggedWhileGenerating' /\ WaitersMet'
  BY DEF slot, request, Stop, Ownership, TypeOK, FlaggedWhileGenerating, LiveRecords,
      StaleIsIdle, ReleaseOwns, WaitersMet, IInv
<1> QED BY <1>1, <1>2 DEF IInv, TypeOK

(* The release looks the record up. *)
LEMMA ReleaseLookKeeps ==
  ASSUME IInv, ReleaseLook
  PROVE  IInv'
<1>1. Types'
  BY SessionAssumption DEF Record, NoRecord, slot, request, RegistryFree, ReleaseLook,
      PreSlot, Owning, Places, Types, TypeOK, IInv
<1>2. ReleaseOwns'
  BY DEF Record, NoRecord, slot, request, RegistryFree, ReleaseLook, Types, TypeOK,
      ReleaseOwns, IInv
<1>3. Ownership' /\ LiveRecords' /\ StaleIsIdle' /\ FlaggedWhileGenerating' /\ WaitersMet'
  BY DEF slot, request, ReleaseLook, Ownership, TypeOK, FlaggedWhileGenerating, LiveRecords,
      StaleIsIdle, WaitersMet, IInv
<1> QED BY <1>1, <1>2, <1>3 DEF IInv, TypeOK

(* The release takes a free slot. *)
LEMMA ReleaseHoldKeeps ==
  ASSUME IInv, ReleaseHold
  PROVE  IInv'
<1>1. Types'
  BY SessionAssumption DEF Record, NoRecord, request, GuardFree, ReleaseHold, PreSlot,
      Owning, Places, Types, TypeOK, IInv
<1>2. Ownership'
  BY SessionAssumption DEF Record, request, GuardFree, ReleaseHold, Owning, Types,
      Ownership, TypeOK, IInv
<1>3. StaleIsIdle'
  BY DEF NoRecord, request, GuardFree, ReleaseHold, PreSlot, Types, TypeOK, StaleIsIdle,
      IInv
<1>4. ReleaseOwns'
  BY DEF Record, request, GuardFree, ReleaseHold, Types, TypeOK, ReleaseOwns, IInv
<1>5. FlaggedWhileGenerating'
  BY DEF request, GuardFree, ReleaseHold, Types, TypeOK, FlaggedWhileGenerating, IInv
<1>6. LiveRecords' /\ WaitersMet'
  BY DEF request, ReleaseHold, LiveRecords, WaitersMet, IInv
<1> QED BY <1>1, <1>2, <1>3, <1>4, <1>5, <1>6 DEF IInv, TypeOK

(* The release finds it taken. *)
LEMMA ReleaseSkipKeeps ==
  ASSUME IInv, ReleaseSkip
  PROVE  IInv'
<1>1. Types'
  BY SessionAssumption DEF Record, NoRecord, slot, request, GuardFree, ReleaseSkip, PreSlot,
      Owning, Places, Types, TypeOK, IInv
<1>2. ReleaseOwns'
  BY DEF Record, NoRecord, slot, request, GuardFree, ReleaseSkip, Types, TypeOK,
      ReleaseOwns, IInv
<1>3. Ownership' /\ LiveRecords' /\ StaleIsIdle' /\ FlaggedWhileGenerating' /\ WaitersMet'
  BY DEF slot, request, ReleaseSkip, Ownership, TypeOK, FlaggedWhileGenerating, LiveRecords,
      StaleIsIdle, WaitersMet, IInv
<1> QED BY <1>1, <1>2, <1>3 DEF IInv, TypeOK

(* The release gives back what it holds. *)
LEMMA ReleaseEndKeeps ==
  ASSUME IInv, ReleaseEnd
  PROVE  IInv'
<1>1. Types'
  BY SessionAssumption DEF Record, NoRecord, request, GuardFree, ReleaseEnd, PreSlot,
      Owning, Places, Types, TypeOK, IInv
<1>2. Ownership'
  <2>1. owner[held] = "release" /\ held \in Record
    BY DEF ReleaseEnd, ReleaseOwns, IInv
  <2>2. ASSUME NEW p \in Request, NEW r \in Record
        PROVE  (owner'[r] = p) = (owner[r] = p)
    BY <2>1, SessionAssumption DEF ReleaseEnd, Types, TypeOK, IInv
  <2> QED BY <2>2 DEF ReleaseEnd, request, Ownership, TypeOK, IInv
<1>3. StaleIsIdle'
  BY DEF NoRecord, request, GuardFree, ReleaseEnd, PreSlot, Types, TypeOK, StaleIsIdle, IInv
<1>4. ReleaseOwns'
  BY DEF Record, NoRecord, request, GuardFree, ReleaseEnd, Types, TypeOK, ReleaseOwns, IInv
<1>5. FlaggedWhileGenerating'
  <2>1. owner[held] = "release" /\ held \in Record
    BY DEF ReleaseEnd, ReleaseOwns, IInv
  <2>2. ASSUME NEW p \in Request, pc[p] = "generating"
        PROVE  ref[p] # held /\ ref[p] \in Record
    BY <2>1, <2>2, SessionAssumption
       DEF LiveRecords, Ownership, TypeOK, IInv, Owning
  <2> QED BY <2>2 DEF ReleaseEnd, request, FlaggedWhileGenerating, Types, TypeOK, IInv
<1>6. LiveRecords' /\ WaitersMet'
  BY DEF request, ReleaseEnd, LiveRecords, WaitersMet, IInv
<1> QED BY <1>1, <1>2, <1>3, <1>4, <1>5, <1>6 DEF IInv, TypeOK

(* The release of a session without a record. *)
LEMMA ReleaseRegistryKeeps ==
  ASSUME IInv, ReleaseRegistry
  PROVE  IInv'
<1>1. Types'
  BY SessionAssumption DEF Record, NoRecord, slot, request, ReleaseRegistry, PreSlot,
      Owning, Places, Types, TypeOK, IInv
<1>2. ReleaseOwns'
  BY DEF Record, slot, request, ReleaseRegistry, Types, TypeOK, ReleaseOwns, IInv
<1>3. Ownership' /\ LiveRecords' /\ StaleIsIdle' /\ FlaggedWhileGenerating' /\ WaitersMet'
  BY DEF slot, request, ReleaseRegistry, Ownership, TypeOK, FlaggedWhileGenerating,
      LiveRecords, StaleIsIdle, WaitersMet, IInv
<1> QED BY <1>1, <1>2, <1>3 DEF IInv, TypeOK

(* A record grows stale only while nobody is on the way to its slot. *)
LEMMA AgeKeeps ==
  ASSUME IInv, Age
  PROVE  IInv'
<1>1. Types'
  BY SessionAssumption DEF Record, NoRecord, slot, request, PreSlot, Owning, Age, Places,
      Types, TypeOK, IInv
<1>2. StaleIsIdle'
  BY DEF NoRecord, slot, request, PreSlot, Age, Types, TypeOK, StaleIsIdle, IInv
<1>3. Ownership' /\ LiveRecords' /\ ReleaseOwns' /\ FlaggedWhileGenerating' /\ WaitersMet'
  BY DEF slot, request, Age, Ownership, TypeOK, FlaggedWhileGenerating, LiveRecords,
      ReleaseOwns, WaitersMet, IInv
<1> QED BY <1>1, <1>2, <1>3 DEF IInv, TypeOK

(* The sweep checks a stale record. *)
LEMMA SweepCheckKeeps ==
  ASSUME IInv, SweepCheck
  PROVE  IInv'
<1>1. Types'
  BY SessionAssumption DEF Record, NoRecord, slot, request, RegistryFree, PreSlot, Owning,
      InUse, SweepCheck, Places, Types, TypeOK, IInv
<1>2. StaleIsIdle'
  BY DEF NoRecord, slot, request, RegistryFree, PreSlot, InUse, SweepCheck, Types, TypeOK,
      StaleIsIdle, IInv
<1>3. Ownership' /\ LiveRecords' /\ ReleaseOwns' /\ FlaggedWhileGenerating' /\ WaitersMet'
  BY DEF slot, request, SweepCheck, Ownership, TypeOK, FlaggedWhileGenerating, LiveRecords,
      ReleaseOwns, WaitersMet, IInv
<1> QED BY <1>1, <1>2, <1>3 DEF IInv, TypeOK

(* The record dropped is one nobody uses. *)
LEMMA SweepDropKeeps ==
  ASSUME IInv, SweepDrop
  PROVE  IInv'
<1>1. Types'
  BY SessionAssumption DEF Record, NoRecord, slot, request, PreSlot, Owning, SweepDrop,
      Places, Types, TypeOK, IInv
<1>2. LiveRecords'
  <2>1. ASSUME NEW q \in Request, pc[q] \in PreSlot \cup Owning
        PROVE  ref[q] # registry
    <3>1. CASE pc[q] \in PreSlot
      BY <3>1 DEF SweepDrop, StaleIsIdle, IInv
    <3>2. CASE pc[q] \in Owning
      <4>1. registry \in Record /\ owner[registry] = NoOne
        BY DEF SweepDrop, StaleIsIdle, Types, TypeOK, IInv
      <4> QED BY <3>2, <4>1, SessionAssumption DEF Ownership, TypeOK, IInv
    <3> QED BY <2>1, <3>1, <3>2
  <2>2. registry' <= made'
    BY SessionAssumption DEF SweepDrop, Types, TypeOK, IInv, NoRecord
  <2> QED BY <2>1, <2>2 DEF SweepDrop, slot, request, LiveRecords, IInv
<1>3. StaleIsIdle'
  BY DEF NoRecord, slot, request, PreSlot, SweepDrop, Types, TypeOK, StaleIsIdle, IInv
<1>4. Ownership' /\ ReleaseOwns' /\ FlaggedWhileGenerating' /\ WaitersMet'
  BY DEF slot, request, SweepDrop, Ownership, TypeOK, FlaggedWhileGenerating, ReleaseOwns,
      WaitersMet, IInv
<1> QED BY <1>1, <1>2, <1>3, <1>4 DEF IInv, TypeOK

(* A clear files the record as cleared. *)
LEMMA ClearKeeps ==
  ASSUME IInv, Clear
  PROVE  IInv'
<1>1. Types'
  BY SessionAssumption DEF Record, NoRecord, slot, request, RegistryFree, PreSlot, Owning,
      Clear, Places, Types, TypeOK, IInv
<1>2. LiveRecords'
  BY SessionAssumption DEF Record, NoRecord, slot, request, RegistryFree, PreSlot, Owning,
      Clear, Types, TypeOK, LiveRecords, IInv
<1>3. StaleIsIdle'
  BY DEF NoRecord, slot, request, RegistryFree, PreSlot, Clear, Types, TypeOK, StaleIsIdle,
      IInv
<1>4. Ownership' /\ ReleaseOwns' /\ FlaggedWhileGenerating' /\ WaitersMet'
  BY DEF slot, request, Clear, Ownership, TypeOK, FlaggedWhileGenerating, ReleaseOwns,
      WaitersMet, IInv
<1> QED BY <1>1, <1>2, <1>3, <1>4 DEF IInv, TypeOK

LEMMA StutterKeeps == IInv /\ UNCHANGED vars => IInv'
<1> SUFFICES ASSUME IInv, UNCHANGED vars PROVE IInv'
  OBVIOUS
<1> USE DEF vars, slot, request
<1>1. Types' /\ Ownership'
  BY DEF IInv, TypeOK, Types, Ownership
<1>2. LiveRecords' /\ StaleIsIdle'
  BY DEF IInv, LiveRecords, StaleIsIdle
<1>3. ReleaseOwns' /\ FlaggedWhileGenerating' /\ WaitersMet'
  BY DEF IInv, ReleaseOwns, FlaggedWhileGenerating, WaitersMet
<1> QED BY <1>1, <1>2, <1>3 DEF IInv, TypeOK

-----------------------------------------------------------------------------
(* The theorems.                                                           *)

(* IInv is an invariant: no interleaving of requests, releases, sweeps and
   clears (get_or_create to end_generation) breaks one of its parts. *)
THEOREM SpecIInv == Spec => []IInv
<1>1. Init => IInv
  BY InitHolds
<1>2. IInv /\ [Next]_vars => IInv'
  <2> SUFFICES ASSUME IInv, [Next]_vars PROVE IInv'
    OBVIOUS
  <2>1. CASE \E q \in Request : Step(q) \/ Stop(q)
    BY <2>1, LookupKeeps, TryFreeKeeps, TryTakenKeeps, AcquireKeeps, AwaitTimeoutKeeps,
        HoldKeeps, RefuseKeeps, PollKeeps, PollTimeoutKeeps, UnflagKeeps, GiveBackKeeps,
        StopKeeps
       DEF Step
  <2>2. CASE Release
    BY <2>2, ReleaseLookKeeps, ReleaseHoldKeeps, ReleaseSkipKeeps, ReleaseEndKeeps,
        ReleaseRegistryKeeps
       DEF Release
  <2>3. CASE Sweep \/ Clear \/ Age
    BY <2>3, SweepCheckKeeps, SweepDropKeeps, ClearKeeps, AgeKeeps DEF Sweep
  <2>4. CASE UNCHANGED vars
    BY <2>4, StutterKeeps
  <2> QED BY <2>1, <2>2, <2>3, <2>4 DEF Next
<1> QED BY <1>1, <1>2, PTL DEF Spec

(* Types, and who owns which record's slot, for every value of the constants. *)
THEOREM TypeCorrect == Spec => []TypeOK
<1>1. IInv => TypeOK
  BY DEF IInv
<1> QED BY <1>1, SpecIInv, PTL

(* Two generations never hold a slot of the session at once, clears aside, and
   a generation's record is in flight (evict_stale against a waiting acquire,
   end_generation against the next holder). *)
THEOREM OneGenerationPerSession == Spec => []OneGeneration
<1>1. IInv => OneGeneration
  <2> SUFFICES ASSUME IInv PROVE OneGeneration
    OBVIOUS
  <2>1. ASSUME NEW r1 \in Record \ cleared, NEW r2 \in Record \ cleared,
               owner[r1] \in Request, owner[r2] \in Request
        PROVE  r1 = r2
    BY <2>1, OwnedIsFiled
  <2> QED BY <2>1 DEF OneGeneration, IInv
<1> QED BY <1>1, SpecIInv, PTL

(* A memory release alone makes no request a refused or a forked one
   (try_begin_generation waits for it). *)
THEOREM RefusalsHaveACause == Spec => []RefusedByAGeneration
<1>1. IInv => RefusedByAGeneration
  BY DEF IInv, WaitersMet, RefusedByAGeneration
<1> QED BY <1>1, SpecIInv, PTL
=============================================================================
