------------------------------ MODULE ColdTier ------------------------------
(***************************************************************************)
(* The SSD store of the session bank (mtplx/cache_bank/cold_tier.py and    *)
(* reconcile.py): content-addressed blobs, one directory per entry whose   *)
(* payload names its blobs, and a manifest whose rows are what a restore   *)
(* may use.  The writer thread and the model owner's spill write entries   *)
(* and then retire older ones; a reconcile walk deletes what no row        *)
(* reaches; an operator archives the store; the process may be killed.     *)
(***************************************************************************)
EXTENDS Integers, FiniteSets

CONSTANTS
  Entry,       \* entry ids, one per saved prefix
  Blob,        \* digests
  Needs,       \* entry -> the blobs its payload names
  Cap,         \* the rows the store may keep once its writes have settled
  Archiving    \* whether an operator may archive the store

ASSUME ColdAssumption ==
  /\ IsFiniteSet(Entry) /\ Needs \in [Entry -> SUBSET Blob]
  /\ Cap \in Nat \ {0} /\ Archiving \in BOOLEAN

Thread == {"writer", "spill"}
Scanner == Thread \cup {"walk"}
NoThread == "none"
NoEntry == "no entry"

VARIABLES
  rows, dirs, blobs,  \* on disk: manifest rows, entry directories, blob files
  lock,        \* who holds _base_lock across a step
  pc,          \* where each writing thread is
  ent,         \* the entry it writes
  todo,        \* the blobs it has still to write
  prey,        \* the entry it is retiring
  victims, current, garbage,  \* its eviction pass: rows listed, count, blobs retired
  kept,        \* the blobs its scan of the manifest found referenced
  moved,       \* scanner -> _store_generation has changed since it read it
  wpc, wRows, wBlobs, batch,  \* the walk: place, manifest it read, candidates
  torn, spoiled, crossed, quiet  \* history, see "the ways a row is torn" below

disk == <<rows, dirs, blobs>>
work == <<pc, ent, todo>>
pass == <<prey, victims, current, garbage, kept>>
walk == <<wpc, wRows, wBlobs, batch>>
history == <<torn, spoiled, crossed, quiet>>
vars == <<disk, lock, work, pass, moved, walk, history>>

Init ==
  /\ rows = {} /\ dirs = {} /\ blobs = {} /\ lock = NoThread
  /\ pc = [t \in Thread |-> "idle"] /\ ent = [t \in Thread |-> NoEntry] /\ prey = ent
  /\ todo = [t \in Thread |-> {}] /\ victims = [t \in Thread |-> {}]
  /\ current = [t \in Thread |-> 0] /\ garbage = [t \in Thread |-> {}]
  /\ kept = [t \in Thread |-> {}] /\ moved = [s \in Scanner |-> FALSE]
  /\ wpc = "idle" /\ wRows = {} /\ wBlobs = {} /\ batch = {}
  /\ torn = {} /\ spoiled = {} /\ crossed = {} /\ quiet = FALSE

Unlocked == lock = NoThread
Named(E) == UNION {Needs[e] : e \in E}

(* The blobs a read of the manifest and of its payloads finds. *)
Referenced == Named(rows \cap dirs)

(* Who holds a value of _store_generation to compare with a later one. *)
Scanning ==
  {t \in Thread : pc[t] \in {"scan", "sweep"}}
    \cup (IF wpc \in {"idle", "read"} THEN {} ELSE {"walk"})

(* _invalidate_disk_usage_cache: every mutation bumps _store_generation. *)
Bump == moved' = [s \in Scanner |-> s \in Scanning]

Settling == {"settle", "listing", "evicting", "removing", "purge", "scan", "sweep"}
Holding(t) ==
  pc[t] \in {"claimed", "writing", "installing"} \/ (t = "writer" /\ pc[t] \in Settling)

(* _inflight_entry_dirs and _inflight_blob_hashes.  The writer claims all its
   digests at once and keeps the claim until it has settled; a spill claims
   each digest as it comes to it and lets go once its row is installed. *)
ClaimedDirs == {ent[t] : t \in {u \in Thread : Holding(u)}}
ClaimedBlobs ==
  UNION {IF t = "writer" THEN Needs[ent[t]] ELSE Needs[ent[t]] \ todo[t] :
           t \in {u \in Thread : Holding(u)}}

(* The blobs an entry has in common with another: what the writer's memo of
   the session's last entry may offer it (reused_blobs). *)
Shared(e) == {b \in Needs[e] : \E other \in Entry \ {e} : b \in Needs[other]}

-----------------------------------------------------------------------------
(* Writing an entry.                                                       *)

(* Both writers first set aside a directory no row names; an entry that is
   there already is only touched.  A write may reuse blobs an earlier write
   of its session left (reused_blobs).  A spill has its room reserved and
   its directory claimed in the same critical section. *)
Start(t, e, reused) ==
  /\ pc[t] = "idle" /\ Unlocked /\ e \notin dirs \cap rows
  /\ t = "spill" => reused = {}
  /\ dirs' = dirs \ {e}
  /\ IF e \in dirs THEN Bump ELSE UNCHANGED moved
  /\ ent' = [ent EXCEPT ![t] = e] /\ todo' = [todo EXCEPT ![t] = Needs[e] \ reused]
  /\ pc' = [pc EXCEPT ![t] = IF t = "writer" THEN "planned" ELSE "writing"]
  /\ quiet' = FALSE
  /\ UNCHANGED <<rows, blobs, lock, pass, walk, torn, spoiled, crossed>>

Goto(t, place) == pc' = [pc EXCEPT ![t] = place]

(* The end of a write or of its eviction pass: its locals and claims go. *)
Rest(t) ==
  /\ Goto(t, "idle")
  /\ ent' = [ent EXCEPT ![t] = NoEntry] /\ todo' = [todo EXCEPT ![t] = {}]
  /\ prey' = [prey EXCEPT ![t] = NoEntry] /\ victims' = [victims EXCEPT ![t] = {}]
  /\ current' = [current EXCEPT ![t] = 0] /\ garbage' = [garbage EXCEPT ![t] = {}]
  /\ kept' = [kept EXCEPT ![t] = {}]
  /\ spoiled' = spoiled \ {t} /\ crossed' = crossed \ {t}

(* _claim_inflight, before the writer looks at the blobs it reuses. *)
Claim(t) ==
  /\ pc[t] = "planned" /\ Unlocked /\ Goto(t, "claimed")
  /\ UNCHANGED <<disk, lock, ent, todo, pass, moved, walk, history>>

(* Mutant: the blobs to reuse are not looked for. *)
AdmitBlindly(t) ==
  /\ pc[t] = "claimed" /\ Unlocked /\ Goto(t, "writing")
  /\ UNCHANGED <<disk, lock, ent, todo, pass, moved, walk, history>>

(* Every blob this write reuses is still there, and the disk has room. *)
Admit(t) ==
  /\ pc[t] = "claimed" /\ Unlocked
  /\ Needs[ent[t]] \ todo[t] \subseteq blobs
  /\ Goto(t, "writing")
  /\ UNCHANGED <<disk, lock, ent, todo, pass, moved, walk, history>>

(* _write_blob: a temporary file renamed into place, or a blob found there. *)
WriteBlob(t, b) ==
  /\ pc[t] = "writing" /\ b \in todo[t]
  /\ blobs' = blobs \cup {b} /\ todo' = [todo EXCEPT ![t] = @ \ {b}]
  /\ UNCHANGED <<rows, dirs, lock, pc, ent, pass, moved, walk, history>>

(* No room, a reused blob gone, a disk error, a foreground request. *)
GiveUp(t) ==
  /\ pc[t] \in {"planned", "claimed", "writing"} /\ Rest(t)
  /\ UNCHANGED <<disk, lock, moved, walk, torn, quiet>>

(* _install_entry: the directory, then the row.  The lock is held between. *)
InstallDir(t) ==
  /\ pc[t] = "writing" /\ todo[t] = {} /\ Unlocked /\ ent[t] \notin dirs \cap rows
  /\ dirs' = dirs \cup {ent[t]}
  /\ lock' = t /\ Goto(t, "installing")
  /\ UNCHANGED <<rows, blobs, ent, todo, pass, moved, walk, history>>

(* Another thread has installed the same entry meanwhile. *)
InstallPresent(t) ==
  /\ pc[t] = "writing" /\ todo[t] = {} /\ Unlocked /\ ent[t] \in dirs \cap rows
  /\ Goto(t, "settle")
  /\ spoiled' = spoiled \ {t} /\ crossed' = crossed \ {t}
  /\ UNCHANGED <<disk, lock, ent, todo, pass, moved, walk, torn, quiet>>

(* The ways a row is torn: the store was archived away under the write, or
   the row landed between the walk's read of the manifest and its read of
   the generation. *)
TornNow(t) == t \in spoiled \/ wpc = "read"

InstallRow(t) ==
  /\ pc[t] = "installing"
  /\ rows' = rows \cup {ent[t]} /\ Bump
  /\ torn' = IF TornNow(t) THEN torn \cup {ent[t]} ELSE torn \ {ent[t]}
  /\ lock' = NoThread /\ Goto(t, "settle")
  /\ spoiled' = spoiled \ {t} /\ crossed' = crossed \ {t}
  /\ UNCHANGED <<dirs, blobs, ent, todo, pass, walk, quiet>>

(* Mutant: the lock is left held on the failing path. *)
InstallFailsLocked(t) ==
  /\ pc[t] = "installing"
  /\ dirs' \in {dirs, dirs \ {ent[t]}} /\ Bump
  /\ Rest(t)
  /\ UNCHANGED <<rows, blobs, lock, walk, torn, quiet>>

(* SQLite refuses the row: the directory is set aside, if the disk lets it. *)
InstallFails(t) ==
  /\ pc[t] = "installing"
  /\ dirs' \in {dirs, dirs \ {ent[t]}} /\ Bump
  /\ lock' = NoThread /\ Rest(t)
  /\ UNCHANGED <<rows, blobs, walk, torn, quiet>>

-----------------------------------------------------------------------------
(* _settle_to_cap and _evict_until_room: retire older entries.  Restores   *)
(* touch rows at any time, so any order of the rows is an LRU order.       *)

SettleNothing(t) ==
  /\ pc[t] = "settle" /\ Unlocked /\ Cardinality(rows) <= Cap /\ Rest(t)
  /\ UNCHANGED <<disk, lock, moved, walk, torn, quiet>>

SettleBegin(t) ==
  /\ pc[t] = "settle" /\ Unlocked /\ Cardinality(rows) > Cap /\ Goto(t, "listing")
  /\ current' = [current EXCEPT ![t] = Cardinality(rows)]
  /\ UNCHANGED <<disk, lock, ent, todo, prey, victims, garbage, kept, moved, walk, history>>

(* The rows are counted under the lock and listed after it. *)
ListVictims(t) ==
  /\ pc[t] = "listing" /\ Goto(t, "evicting")
  /\ victims' = [victims EXCEPT ![t] = rows]
  /\ UNCHANGED <<disk, lock, ent, todo, prey, current, garbage, kept, moved, walk, history>>

(* The threads whose entry is installed and whose pass has yet to end. *)
Settled == {t \in Thread : pc[t] \in {"settle", "listing", "evicting", "removing"}}

Spared(t, v) == v = ent[t] \/ v \in ClaimedDirs \/ v \notin rows

(* Mutant: the entry just installed is a victim like any other. *)
SparedNotKeep(t, v) == v \in ClaimedDirs \/ v \notin rows

Skip(t, v) ==
  /\ pc[t] = "evicting" /\ Unlocked /\ current[t] > Cap /\ v \in victims[t] /\ Spared(t, v)
  /\ victims' = [victims EXCEPT ![t] = @ \ {v}]
  /\ UNCHANGED <<disk, lock, work, prey, current, garbage, kept, moved, walk, history>>

(* Mutant: the entry this write installed is retired as well. *)
RetireAny(t, v) ==
  /\ pc[t] = "evicting" /\ Unlocked /\ current[t] > Cap /\ v \in victims[t]
  /\ ~SparedNotKeep(t, v)
  /\ rows' = rows \ {v} /\ torn' = torn \ {v}
  /\ garbage' = [garbage EXCEPT ![t] = @ \cup Named({v} \cap dirs)]
  /\ victims' = [victims EXCEPT ![t] = @ \ {v}] /\ prey' = [prey EXCEPT ![t] = v]
  /\ lock' = t /\ Goto(t, "removing")
  /\ crossed' = crossed \cup (Settled \ {t})
  /\ UNCHANGED <<dirs, blobs, ent, todo, current, kept, moved, walk, spoiled, quiet>>

(* _retire_entry_row: the row, then the directory.  The lock is held between. *)
Retire(t, v) ==
  /\ pc[t] = "evicting" /\ Unlocked /\ current[t] > Cap /\ v \in victims[t] /\ ~Spared(t, v)
  /\ rows' = rows \ {v} /\ torn' = torn \ {v}
  /\ garbage' = [garbage EXCEPT ![t] = @ \cup Named({v} \cap dirs)]
  /\ victims' = [victims EXCEPT ![t] = @ \ {v}] /\ prey' = [prey EXCEPT ![t] = v]
  /\ lock' = t /\ Goto(t, "removing")
  /\ crossed' = crossed \cup (Settled \ {t})
  /\ UNCHANGED <<dirs, blobs, ent, todo, current, kept, moved, walk, spoiled, quiet>>

(* The directory goes; or the disk refuses, and the pass is deferred. *)
RemoveDir(t, ok) ==
  /\ pc[t] = "removing"
  /\ dirs' = IF ok THEN dirs \ {prey[t]} ELSE dirs
  /\ Bump /\ lock' = NoThread
  /\ IF ok
     THEN /\ Goto(t, "evicting")
          /\ current' = [current EXCEPT ![t] = @ - 1] /\ prey' = [prey EXCEPT ![t] = NoEntry]
          /\ UNCHANGED <<ent, todo, victims, garbage, kept, spoiled, crossed>>
     ELSE Rest(t)
  /\ UNCHANGED <<rows, blobs, walk, torn, quiet>>

EvictEnds(t) ==
  /\ pc[t] = "evicting" /\ (current[t] <= Cap \/ victims[t] = {})
  /\ IF garbage[t] = {}
     THEN Rest(t)
     ELSE /\ Goto(t, "purge") /\ crossed' = crossed \ {t}
          /\ current' = [current EXCEPT ![t] = 0] /\ victims' = [victims EXCEPT ![t] = {}]
          /\ UNCHANGED <<ent, todo, prey, garbage, kept, spoiled>>
  /\ UNCHANGED <<disk, lock, moved, walk, torn, quiet>>

(* A foreground request or close() ends the pass. *)
Yield(t) ==
  /\ pc[t] \in {"evicting", "purge", "scan"} /\ Rest(t)
  /\ moved' = [moved EXCEPT ![t] = FALSE]
  /\ UNCHANGED <<disk, lock, walk, torn, quiet>>

(* _delete_unreferenced_blobs: the generation is read before the manifest,
   and the two are compared under the lock before anything is deleted. *)
PurgeObserve(t) ==
  /\ pc[t] = "purge" /\ Goto(t, "scan")
  /\ moved' = [moved EXCEPT ![t] = FALSE]
  /\ UNCHANGED <<disk, lock, ent, todo, pass, walk, history>>

PurgeScan(t) ==
  /\ pc[t] = "scan" /\ Goto(t, "sweep")
  /\ kept' = [kept EXCEPT ![t] = Referenced]
  /\ UNCHANGED <<disk, lock, ent, todo, prey, victims, current, garbage, moved, walk, history>>

(* Mutant: the claims of writes in flight are not consulted. *)
SweepClaimed(t, left) ==
  /\ pc[t] = "sweep" /\ Unlocked
  /\ moved' = [moved EXCEPT ![t] = FALSE]
  /\ IF moved[t]
     THEN /\ Goto(t, "purge") /\ kept' = [kept EXCEPT ![t] = {}]
          /\ UNCHANGED <<blobs, ent, todo, prey, victims, current, garbage, spoiled, crossed>>
     ELSE blobs' = blobs \ (garbage[t] \ (left \cup kept[t])) /\ Rest(t)
  /\ UNCHANGED <<rows, dirs, lock, walk, torn, quiet>>

(* left: the blobs whose removal the disk refuses; they stay. *)
Sweep(t, left) ==
  /\ pc[t] = "sweep" /\ Unlocked
  /\ moved' = [moved EXCEPT ![t] = FALSE]
  /\ IF moved[t]
     THEN /\ Goto(t, "purge") /\ kept' = [kept EXCEPT ![t] = {}]
          /\ UNCHANGED <<blobs, ent, todo, prey, victims, current, garbage, spoiled, crossed>>
     ELSE /\ blobs' = blobs \ (garbage[t] \ (left \cup kept[t] \cup ClaimedBlobs))
          /\ Rest(t)
  /\ UNCHANGED <<rows, dirs, lock, walk, torn, quiet>>

-----------------------------------------------------------------------------
(* reconcile_store in delete mode; one pass at a time, on a thread of its  *)
(* own or on the writer's between two of its steps.                        *)

WalkTo(place) == wpc' = place

(* The walk's answer is out: its locals go. *)
WalkEnds ==
  /\ WalkTo("idle") /\ wRows' = {} /\ wBlobs' = {} /\ batch' = {}
  /\ moved' = [moved EXCEPT !["walk"] = FALSE] /\ quiet' = FALSE

(* read_manifest, first half: the rows and their payloads. *)
WalkRead ==
  /\ wpc = "idle" /\ WalkTo("read")
  /\ wRows' = rows /\ wBlobs' = Referenced
  /\ quiet' = (\A t \in Thread : pc[t] = "idle")
  /\ UNCHANGED <<disk, lock, work, pass, moved, batch, torn, spoiled, crossed>>

(* Second half: the generation, read after the manifest and without the lock. *)
WalkObserve ==
  /\ wpc = "read" /\ WalkTo("dirs")
  /\ moved' = [moved EXCEPT !["walk"] = FALSE]
  /\ UNCHANGED <<disk, lock, work, pass, wRows, wBlobs, batch, history>>

WalkDirs ==
  /\ wpc = "dirs" /\ WalkTo("dirBatch")
  /\ batch' = dirs \ wRows /\ wRows' = {}
  /\ UNCHANGED <<disk, lock, work, pass, moved, wBlobs, history>>

(* refresh_manifest_if_changed, under the lock.  A candidate is one that the
   manifest as last read does not reach, so only what is new can save it. *)
FreshRows == IF moved["walk"] THEN rows ELSE {}
FreshBlobs == IF moved["walk"] THEN Referenced ELSE {}

(* remove(): what the disk refuses to delete, left, stays for the next walk. *)
SettleDirs(left) ==
  /\ wpc = "dirBatch" /\ WalkTo("blobs") /\ batch' = {}
  /\ quiet' = (quiet /\ left = {})
  /\ IF batch = {}
     THEN UNCHANGED <<dirs, wBlobs, moved>>
     ELSE /\ Unlocked /\ dirs' = dirs \ (batch \ (left \cup FreshRows \cup ClaimedDirs))
          /\ wBlobs' = IF moved["walk"] THEN Referenced ELSE wBlobs
          /\ moved' = [moved EXCEPT !["walk"] = FALSE]
  /\ UNCHANGED <<rows, blobs, lock, work, pass, wRows, torn, spoiled, crossed>>

WalkBlobs ==
  /\ wpc = "blobs" /\ WalkTo("blobBatch")
  /\ batch' = blobs \ wBlobs /\ wBlobs' = {}
  /\ UNCHANGED <<disk, lock, work, pass, moved, wRows, history>>

(* Mutant: only the blobs of the directories the walk found are deleted. *)
SettleNoBlobs(left) ==
  /\ wpc = "blobBatch" /\ WalkEnds
  /\ UNCHANGED <<disk, lock, work, pass, torn, spoiled, crossed>>

SettleBlobs(left) ==
  /\ wpc = "blobBatch" /\ WalkEnds /\ (batch = {} \/ Unlocked)
  /\ blobs' = blobs \ (batch \ (left \cup FreshBlobs \cup ClaimedBlobs))
  /\ UNCHANGED <<rows, dirs, lock, work, pass, torn, spoiled, crossed>>

(* close() while the walk visits files. *)
WalkStops ==
  /\ wpc \in {"dirs", "blobs"} /\ WalkEnds
  /\ UNCHANGED <<disk, lock, work, pass, torn, spoiled, crossed>>

-----------------------------------------------------------------------------
(* archive(): the store is renamed away, whatever its flush answered.      *)
Archive ==
  /\ Archiving /\ Unlocked /\ rows \cup dirs \cup blobs # {}
  /\ rows' = {} /\ dirs' = {} /\ blobs' = {} /\ torn' = {}
  /\ spoiled' = spoiled \cup {t \in Thread : pc[t] = "writing" /\ todo[t] # Needs[ent[t]]}
  /\ crossed' = Settled /\ quiet' = FALSE
  /\ UNCHANGED <<lock, work, pass, moved, walk>>

(* The process is killed, at any point, and starts again. *)
Crash ==
  /\ pc' = [t \in Thread |-> "idle"] /\ lock' = NoThread
  /\ ent' = [t \in Thread |-> NoEntry] /\ prey' = ent'
  /\ todo' = [t \in Thread |-> {}] /\ victims' = [t \in Thread |-> {}]
  /\ current' = [t \in Thread |-> 0] /\ garbage' = [t \in Thread |-> {}]
  /\ kept' = [t \in Thread |-> {}] /\ moved' = [s \in Scanner |-> FALSE]
  /\ wpc' = "idle" /\ wRows' = {} /\ wBlobs' = {} /\ batch' = {}
  /\ spoiled' = {} /\ crossed' = {} /\ quiet' = FALSE
  /\ UNCHANGED <<disk, torn>>

Write(t) ==
  \/ \E e \in Entry : \E reused \in SUBSET Shared(e) : Start(t, e, reused)
  \/ Claim(t) \/ Admit(t) \/ (\E b \in Blob : WriteBlob(t, b)) \/ GiveUp(t)
  \/ InstallDir(t) \/ InstallPresent(t) \/ InstallRow(t) \/ InstallFails(t)

Settle(t) ==
  \/ SettleNothing(t) \/ SettleBegin(t) \/ ListVictims(t) \/ (\E v \in Entry : Skip(t, v) \/ Retire(t, v))
  \/ (\E ok \in BOOLEAN : RemoveDir(t, ok)) \/ EvictEnds(t) \/ Yield(t)
  \/ PurgeObserve(t) \/ PurgeScan(t) \/ (\E left \in SUBSET Blob : Sweep(t, left))

Walk ==
  \/ WalkRead \/ WalkObserve
  \/ WalkDirs \/ (\E left \in SUBSET batch : SettleDirs(left))
  \/ WalkBlobs \/ (\E left \in SUBSET batch : SettleBlobs(left))
  \/ WalkStops

Next == (\E t \in Thread : Write(t) \/ Settle(t)) \/ Walk \/ Archive \/ Crash

Spec == Init /\ [][Next]_vars

-----------------------------------------------------------------------------
Places == {"idle", "planned", "claimed", "writing", "installing"} \cup Settling

Types ==
  /\ rows \subseteq Entry /\ dirs \subseteq Entry /\ blobs \subseteq Blob
  /\ lock \in Thread \cup {NoThread} /\ pc \in [Thread -> Places]
  /\ ent \in [Thread -> Entry \cup {NoEntry}] /\ prey \in [Thread -> Entry \cup {NoEntry}]
  /\ todo \in [Thread -> SUBSET Blob] /\ garbage \in [Thread -> SUBSET Blob]
  /\ kept \in [Thread -> SUBSET Blob] /\ victims \in [Thread -> SUBSET Entry]
  /\ current \in [Thread -> Int] /\ moved \in [Scanner -> BOOLEAN]
  /\ wpc \in {"idle", "read", "dirs", "dirBatch", "blobs", "blobBatch"}
  /\ wRows \subseteq Entry /\ wBlobs \subseteq Blob /\ batch \subseteq Entry \cup Blob
  /\ torn \subseteq Entry /\ spoiled \subseteq Thread /\ crossed \subseteq Thread
  /\ quiet \in BOOLEAN

LockDiscipline == \A t \in Thread : (lock = t) = (pc[t] \in {"installing", "removing"})

(* Type correctness of the store, its threads and its walk; and a step that
   found _base_lock free has left it free, except between the two halves of
   an install or of a retirement, which one thread holds at a time. *)
TypeOK == Types /\ LockDiscipline

Whole(e) == e \in dirs /\ Needs[e] \subseteq blobs

(* "A row always names a directory whose payload and blobs are complete":
   whatever the writers, the evictions, the walk and a kill do, a restore
   that finds a row finds all of its entry, except where the row was torn in
   one of the two ways TornNow names. *)
RowsAreWhole == \A e \in rows \ torn : Whole(e)

(* The same as the comment at _install_entry has it, without exception. *)
CommittedRowsAreWhole == \A e \in rows : Whole(e)

(* A write retires older entries only while its own is installed, so that
   replacing a conversation's copy never leaves it none, unless the pass of
   the other thread, or an archive, has crossed it. *)
EvictionLeavesACopy ==
  [][\A t \in Thread :
       pc[t] = "evicting" /\ pc'[t] = "removing" /\ t \notin crossed => ent[t] \in rows']_vars

(* A walk that no write overlaps, and to which the disk refuses nothing, leaves
   nothing the manifest does not reach, whatever a kill, a failed write or an
   earlier refusal had left behind. *)
WalkReclaims ==
  [][quiet /\ SettleBlobs({})
       => dirs' \subseteq rows' /\ blobs' \subseteq Named(rows')]_vars
-----------------------------------------------------------------------------
(* The inductive invariant behind them.                                    *)

Sound == rows \ torn

Working == \A t \in Thread : pc[t] # "idle" => ent[t] \in Entry

(* What the holder of _base_lock is in the middle of. *)
LockedWork ==
  \A t \in Thread :
    /\ pc[t] = "installing" => todo[t] = {} /\ ent[t] \in dirs /\ ent[t] \notin Sound
    /\ pc[t] = "removing" => prey[t] \notin rows

(* The blobs a write has written or found stay until its row is in. *)
WritesKeepBlobs ==
  \A t \in Thread :
    pc[t] \in {"writing", "installing"} /\ t \notin spoiled => Needs[ent[t]] \ todo[t] \subseteq blobs

(* A purge that has seen no change since its scan knows every blob in use. *)
ScansSeeRows ==
  \A t \in Thread : pc[t] = "sweep" /\ ~moved[t] => Named(Sound) \subseteq kept[t]

(* So does the walk, and its candidates are none of them. *)
WalkCurrent == wpc = "read" \/ ~moved["walk"]

WalkSeesRows ==
  WalkCurrent =>
    /\ wpc \in {"read", "dirs"} => Sound \subseteq wRows
    /\ wpc = "dirBatch" => Sound \cap batch = {}
    /\ wpc \in {"read", "dirs", "dirBatch", "blobs"} => Named(Sound) \subseteq wBlobs
    /\ wpc = "blobBatch" => Named(Sound) \cap batch = {}

(* The entry a settling write installed is there until another pass crosses it. *)
InstalledStays == \A t \in Settled \ crossed : ent[t] \in rows

(* What a walk nothing overlaps knows. *)
QuietWalk ==
  quiet =>
    /\ \A t \in Thread : pc[t] = "idle"
    /\ wpc \in {"read", "dirs"} => wRows = rows
    /\ wpc = "dirBatch" => batch = dirs \ rows
    /\ wpc \in {"read", "dirs", "dirBatch", "blobs"} => wBlobs = Referenced
    /\ wpc \in {"blobs", "blobBatch"} => dirs \subseteq rows
    /\ wpc = "blobBatch" => batch = blobs \ Referenced

IInv ==
  /\ TypeOK /\ Working /\ LockedWork /\ WritesKeepBlobs /\ RowsAreWhole
  /\ ScansSeeRows /\ WalkSeesRows /\ InstalledStays /\ QuietWalk
=============================================================================
