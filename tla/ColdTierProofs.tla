--------------------------- MODULE ColdTierProofs ---------------------------
(***************************************************************************)
(* Theorems about ColdTier, for any finite set of entries, any blobs they  *)
(* share and any cap.  Every action keeps the inductive invariant; one     *)
(* lemma per action, one step per part of the invariant it can disturb.    *)
(***************************************************************************)
EXTENDS ColdTier, FiniteSetTheorems, TLAPS

-----------------------------------------------------------------------------
(* Lemmas about the operators of the model.                                *)

(* The blobs a set of entries names. *)
LEMMA NamedMember ==
  ASSUME NEW E, NEW b
  PROVE  b \in Named(E) <=> \E e \in E : b \in Needs[e]
BY DEF Named

LEMMA NamedMonotone ==
  ASSUME NEW E, NEW F, E \subseteq F
  PROVE  Named(E) \subseteq Named(F)
BY DEF Named

LEMMA NamedIsBlobs ==
  ASSUME NEW E \in SUBSET Entry
  PROVE  Named(E) \subseteq Blob
BY ColdAssumption DEF Named

(* A read of the manifest finds every blob of every sound row. *)
LEMMA ReferencedIsSound ==
  ASSUME RowsAreWhole
  PROVE  Named(Sound) \subseteq Referenced
BY DEF Named, Referenced, RowsAreWhole, Sound, Whole

(* The claims of a write cover what it has put on disk or found there. *)
LEMMA ClaimsCover ==
  ASSUME NEW t \in Thread, pc[t] \in {"writing", "installing"}
  PROVE  Needs[ent[t]] \ todo[t] \subseteq ClaimedBlobs
BY DEF ClaimedBlobs, Holding

(* With every thread idle nothing is claimed. *)
LEMMA IdleClaimsNothing ==
  ASSUME \A t \in Thread : pc[t] = "idle"
  PROVE  ClaimedDirs = {} /\ ClaimedBlobs = {}
BY DEF ClaimedDirs, ClaimedBlobs, Holding, Settling

(* A thread that found the lock free is between no two halves of anything. *)
LEMMA UnlockedMeansOutside ==
  ASSUME IInv, Unlocked
  PROVE  \A u \in Thread : pc[u] \notin {"installing", "removing"}
BY DEF IInv, TypeOK, LockDiscipline, Unlocked, Thread, NoThread

(* A thread between the two halves is the only one. *)
LEMMA LockHolderIsAlone ==
  ASSUME IInv, NEW t \in Thread, pc[t] \in {"installing", "removing"}
  PROVE  /\ lock = t
         /\ \A u \in Thread \ {t} : pc[u] \notin {"installing", "removing"}
BY DEF IInv, TypeOK, LockDiscipline

(* What a thread does that moves on, or comes to rest, and what it leaves the
   others. *)
LEMMA GotoThreads ==
  ASSUME Types, NEW t \in Thread, NEW place \in Places, Goto(t, place)
  PROVE  /\ pc' \in [Thread -> Places] /\ pc'[t] = place
         /\ \A u \in Thread \ {t} : pc'[u] = pc[u]
BY DEF Types, Goto

LEMMA RestTypes ==
  ASSUME Types, NEW t \in Thread, Rest(t)
  PROVE  /\ pc' \in [Thread -> Places]
         /\ ent' \in [Thread -> Entry \cup {NoEntry}] /\ prey' \in [Thread -> Entry \cup {NoEntry}]
         /\ todo' \in [Thread -> SUBSET Blob] /\ victims' \in [Thread -> SUBSET Entry]
         /\ garbage' \in [Thread -> SUBSET Blob] /\ kept' \in [Thread -> SUBSET Blob]
         /\ current' \in [Thread -> Int]
         /\ spoiled' \subseteq Thread /\ crossed' \subseteq Thread
<1>1. pc' \in [Thread -> Places]
  BY DEF Types, Rest, Goto, Places
<1>2. ent' \in [Thread -> Entry \cup {NoEntry}] /\ prey' \in [Thread -> Entry \cup {NoEntry}]
  BY DEF Types, Rest
<1>3. todo' \in [Thread -> SUBSET Blob] /\ garbage' \in [Thread -> SUBSET Blob]
  BY DEF Types, Rest
<1>4. kept' \in [Thread -> SUBSET Blob] /\ victims' \in [Thread -> SUBSET Entry]
  BY DEF Types, Rest
<1>5. current' \in [Thread -> Int]
  BY DEF Types, Rest
<1>6. spoiled' \subseteq Thread /\ crossed' \subseteq Thread
  BY DEF Types, Rest
<1> QED BY <1>1, <1>2, <1>3, <1>4, <1>5, <1>6

LEMMA RestThreads ==
  ASSUME Types, NEW t \in Thread, Rest(t)
  PROVE  /\ pc'[t] = "idle"
         /\ \A u \in Thread \ {t} :
              /\ pc'[u] = pc[u] /\ ent'[u] = ent[u] /\ todo'[u] = todo[u]
              /\ prey'[u] = prey[u] /\ kept'[u] = kept[u]
              /\ u \in spoiled' <=> u \in spoiled
              /\ u \in crossed' <=> u \in crossed
BY DEF Types, Rest, Goto

(* A mutation is seen by everyone who holds a generation. *)
LEMMA BumpIsSeen ==
  ASSUME Types, Bump
  PROVE  /\ moved' \in [Scanner -> BOOLEAN]
         /\ \A u \in Thread : pc[u] \in {"scan", "sweep"} => moved'[u]
         /\ wpc \notin {"idle", "read"} => moved'["walk"]
<1>1. \A s \in Scanner : moved'[s] = (s \in Scanning)
  BY DEF Bump
<1>2. moved' \in [Scanner -> BOOLEAN]
  BY DEF Bump
<1>3. ASSUME NEW u \in Thread, pc[u] \in {"scan", "sweep"}
      PROVE  moved'[u]
  BY <1>1, <1>3 DEF Scanning, Scanner
<1>4. ASSUME wpc \notin {"idle", "read"}
      PROVE  moved'["walk"]
  <2>1. "walk" \in Scanner
    BY DEF Scanner
  <2>2. "walk" \in Scanning
    BY <1>4 DEF Scanning
  <2> QED BY <1>1, <2>1, <2>2
<1> QED BY <1>2, <1>3, <1>4

(* A purge's scan stays good while no row is added behind it. *)
LEMMA ScansStay ==
  ASSUME IInv,
         \A u \in Thread : pc'[u] = "sweep" /\ ~moved'[u] =>
           pc[u] = "sweep" /\ ~moved[u] /\ kept'[u] = kept[u] /\ Sound' \subseteq Sound
  PROVE  ScansSeeRows'
<1> SUFFICES ASSUME NEW u \in Thread, pc'[u] = "sweep", ~moved'[u]
             PROVE  Named(Sound') \subseteq kept'[u]
  BY DEF ScansSeeRows, Named
<1>1. Named(Sound') \subseteq Named(Sound)
  BY NamedMonotone
<1> QED BY <1>1 DEF IInv, ScansSeeRows

(* And so does what the walk has read. *)
LEMMA WalkStays ==
  ASSUME IInv, UNCHANGED walk,
         wpc = "read" => Sound' \subseteq Sound,
         wpc \notin {"idle", "read"} /\ ~moved'["walk"] => ~moved["walk"] /\ Sound' \subseteq Sound
  PROVE  WalkSeesRows'
<1> SUFFICES ASSUME WalkCurrent', wpc # "idle" PROVE WalkSeesRows'
  BY DEF WalkSeesRows, walk
<1>1. WalkCurrent /\ Sound' \subseteq Sound
  BY DEF WalkCurrent, walk
<1>2. Named(Sound') \subseteq Named(Sound)
  BY <1>1, NamedMonotone
<1>3. Named(Sound)' = Named(Sound')
  BY DEF Named
<1> QED BY <1>1, <1>2, <1>3 DEF IInv, WalkSeesRows, walk

(* Wherever the end of a pass leaves its thread, it disturbs no other. *)
LEMMA EvictEndsLeaves ==
  ASSUME IInv, NEW t \in Thread, EvictEnds(t)
  PROVE  /\ pc[t] = "evicting" /\ pc'[t] \in {"purge", "idle"}
         /\ \A u \in Thread \ {t} :
              /\ pc'[u] = pc[u] /\ ent'[u] = ent[u] /\ todo'[u] = todo[u]
              /\ prey'[u] = prey[u] /\ kept'[u] = kept[u]
              /\ u \in spoiled' <=> u \in spoiled
              /\ u \in crossed' <=> u \in crossed
<1>1. CASE garbage[t] = {}
  BY <1>1, RestThreads DEF EvictEnds, TypeOK, IInv
<1>2. CASE garbage[t] # {}
  BY <1>2, GotoThreads DEF EvictEnds, Places, Settling, TypeOK, IInv
<1> QED BY <1>1, <1>2

(* Wherever a sweep leaves its thread, it disturbs no other. *)
LEMMA SweepLeaves ==
  ASSUME IInv, NEW t \in Thread, NEW left, Sweep(t, left)
  PROVE  /\ pc[t] = "sweep" /\ pc'[t] \in {"purge", "idle"}
         /\ \A u \in Thread \ {t} :
              /\ pc'[u] = pc[u] /\ ent'[u] = ent[u] /\ todo'[u] = todo[u]
              /\ prey'[u] = prey[u] /\ kept'[u] = kept[u]
              /\ u \in spoiled' <=> u \in spoiled
              /\ u \in crossed' <=> u \in crossed
<1>1. CASE moved[t]
  <2>1. \A u \in Thread \ {t} : kept'[u] = kept[u]
    BY <1>1 DEF Sweep, Types, TypeOK, IInv
  <2> QED BY <1>1, <2>1, GotoThreads DEF Sweep, Places, Settling, TypeOK, IInv
<1>2. CASE ~moved[t]
  BY <1>2, RestThreads DEF Sweep, TypeOK, IInv
<1> QED BY <1>1, <1>2

(* The directories the walk deletes are no sound row's. *)
LEMMA SettleDirsSpares ==
  ASSUME IInv, NEW left, SettleDirs(left)
  PROVE  Sound \cap (dirs \ dirs') = {}
<1>1. CASE moved["walk"] \/ batch = {}
  BY <1>1 DEF SettleDirs, FreshRows, Sound
<1>2. CASE ~moved["walk"]
  <2>1. Sound \cap batch = {}
    BY <1>2 DEF SettleDirs, WalkSeesRows, WalkCurrent, IInv
  <2> QED BY <2>1 DEF SettleDirs
<1> QED BY <1>1, <1>2

-----------------------------------------------------------------------------
(* One lemma per action.                                                   *)

(* A write begins: what it sets aside is a directory no row names. *)
LEMMA StartKeeps ==
  ASSUME IInv, NEW t \in Thread, NEW e \in Entry, NEW r \in SUBSET Shared(e), Start(t, e, r)
  PROVE  IInv'
<1>1. Types'
  <2>1. moved' \in [Scanner -> BOOLEAN]
    BY BumpIsSeen DEF Start, Types, TypeOK, IInv
  <2>2. ent' \in [Thread -> Entry \cup {NoEntry}] /\ todo' \in [Thread -> SUBSET Blob]
    BY ColdAssumption DEF Start, Types, TypeOK, IInv
  <2>3. pc' \in [Thread -> Places]
    BY DEF Start, Places, Types, TypeOK, IInv
  <2> QED BY <2>1, <2>2, <2>3 DEF Start, pass, walk, Types, TypeOK, IInv
<1>2. LockDiscipline'
  BY DEF Thread, Scanner, NoThread, pass, walk, Unlocked, Scanning, Bump, Start, Types,
      LockDiscipline, TypeOK, IInv
<1>3. Working'
  BY DEF Thread, Scanner, NoThread, pass, walk, Unlocked, Scanning, Bump, Start, Types,
      TypeOK, Working, IInv
<1>4. LockedWork'
  <2>1. \A u \in Thread : pc[u] \notin {"installing", "removing"}
    BY UnlockedMeansOutside DEF Start
  <2>2. \A u \in Thread : pc'[u] \notin {"installing", "removing"}
    BY <2>1 DEF Start, Types, TypeOK, IInv
  <2> QED BY <2>2 DEF LockedWork
<1>5. WritesKeepBlobs'
  BY DEF Thread, Scanner, NoThread, pass, walk, Unlocked, Scanning, Bump, Start, Types,
      TypeOK, WritesKeepBlobs, IInv
<1>6. RowsAreWhole'
  BY DEF Thread, Scanner, NoThread, pass, walk, Unlocked, Scanning, Bump, Start, Types,
      TypeOK, Whole, RowsAreWhole, IInv
<1>7. ScansSeeRows'
  <2>1. \A u \in Thread : pc'[u] = "sweep" => pc[u] = "sweep"
    BY DEF Start, Types, TypeOK, IInv
  <2>2. \A u \in Thread : pc[u] = "sweep" /\ ~moved'[u] => ~moved[u]
    BY BumpIsSeen DEF Start, TypeOK, IInv
  <2> QED BY <2>1, <2>2, ScansStay DEF Start, pass, Sound
<1>8. WalkSeesRows'
  <2>1. wpc \notin {"idle", "read"} /\ ~moved'["walk"] => ~moved["walk"]
    BY BumpIsSeen DEF Start, TypeOK, IInv
  <2> QED BY <2>1, WalkStays DEF Start, Sound
<1>9. InstalledStays'
  BY DEF Thread, Scanner, NoThread, pass, walk, Unlocked, Scanning, Bump, Start, Settled,
      Types, TypeOK, InstalledStays, IInv
<1>10. QuietWalk'
  BY DEF Thread, Scanner, NoThread, pass, walk, Unlocked, Scanning, Bump, Start, Types,
      TypeOK, QuietWalk, IInv
<1> QED BY <1>1, <1>2, <1>3, <1>4, <1>5, <1>6, <1>7, <1>8, <1>9, <1>10 DEF IInv, TypeOK

(* The writer claims its digests. *)
LEMMA ClaimKeeps ==
  ASSUME IInv, NEW t \in Thread, Claim(t)
  PROVE  IInv'
<1>1. Types'
  BY DEF Thread, Scanner, NoThread, NoEntry, disk, pass, walk, history, Unlocked, Settling,
      Goto, Claim, Places, Types, TypeOK, IInv
<1>2. LockDiscipline'
  BY DEF Thread, NoThread, disk, pass, walk, history, Unlocked, Goto, Claim, Types,
      LockDiscipline, TypeOK, IInv
<1>3. Working'
  BY DEF Thread, NoThread, disk, pass, walk, history, Unlocked, Goto, Claim, Types, TypeOK,
      Working, IInv
<1>4. LockedWork'
  BY DEF Thread, NoThread, disk, pass, walk, history, Unlocked, Goto, Claim, Types, TypeOK,
      Sound, LockedWork, IInv
<1>5. WritesKeepBlobs'
  BY DEF Thread, NoThread, disk, pass, walk, history, Unlocked, Goto, Claim, Types, TypeOK,
      WritesKeepBlobs, IInv
<1>6. ScansSeeRows'
  BY DEF Thread, NoThread, disk, pass, walk, history, Unlocked, Goto, Claim, Types, TypeOK,
      Sound, ScansSeeRows, IInv
<1>7. InstalledStays'
  BY DEF Thread, NoThread, disk, pass, walk, history, Unlocked, Goto, Claim, Settled, Types,
      TypeOK, InstalledStays, IInv
<1>8. QuietWalk'
  BY DEF Thread, NoThread, disk, pass, walk, history, Unlocked, Goto, Claim, Types, TypeOK,
      QuietWalk, IInv
<1>9. RowsAreWhole' /\ WalkSeesRows'
  BY DEF disk, pass, walk, history, Unlocked, Goto, Claim, TypeOK, Whole, RowsAreWhole,
      Sound, WalkCurrent, WalkSeesRows, IInv
<1> QED BY <1>1, <1>2, <1>3, <1>4, <1>5, <1>6, <1>7, <1>8, <1>9 DEF IInv, TypeOK

(* The writer finds the blobs it reuses. *)
LEMMA AdmitKeeps ==
  ASSUME IInv, NEW t \in Thread, Admit(t)
  PROVE  IInv'
<1>1. Types'
  BY DEF Thread, Scanner, NoThread, NoEntry, disk, pass, walk, history, Unlocked, Settling,
      Goto, Admit, Places, Types, TypeOK, IInv
<1>2. LockDiscipline'
  BY DEF Thread, NoThread, disk, pass, walk, history, Unlocked, Goto, Admit, Types,
      LockDiscipline, TypeOK, IInv
<1>3. Working'
  BY DEF Thread, NoThread, disk, pass, walk, history, Unlocked, Goto, Admit, Types, TypeOK,
      Working, IInv
<1>4. LockedWork'
  BY DEF Thread, NoThread, disk, pass, walk, history, Unlocked, Goto, Admit, Types, TypeOK,
      Sound, LockedWork, IInv
<1>5. WritesKeepBlobs'
  BY DEF Thread, NoThread, disk, pass, walk, history, Unlocked, Goto, Admit, Types, TypeOK,
      WritesKeepBlobs, IInv
<1>6. ScansSeeRows'
  BY DEF Thread, NoThread, disk, pass, walk, history, Unlocked, Goto, Admit, Types, TypeOK,
      Sound, ScansSeeRows, IInv
<1>7. InstalledStays'
  BY DEF Thread, NoThread, disk, pass, walk, history, Unlocked, Goto, Admit, Settled, Types,
      TypeOK, InstalledStays, IInv
<1>8. QuietWalk'
  BY DEF Thread, NoThread, disk, pass, walk, history, Unlocked, Goto, Admit, Types, TypeOK,
      QuietWalk, IInv
<1>9. RowsAreWhole' /\ WalkSeesRows'
  BY DEF disk, pass, walk, history, Unlocked, Goto, Admit, TypeOK, Whole, RowsAreWhole,
      Sound, WalkCurrent, WalkSeesRows, IInv
<1> QED BY <1>1, <1>2, <1>3, <1>4, <1>5, <1>6, <1>7, <1>8, <1>9 DEF IInv, TypeOK

(* A blob is written. *)
LEMMA WriteBlobKeeps ==
  ASSUME IInv, NEW t \in Thread, NEW b \in Blob, WriteBlob(t, b)
  PROVE  IInv'
<1>1. Types'
  BY DEF Thread, Scanner, NoThread, NoEntry, pass, walk, history, Settling, WriteBlob,
      Places, Types, TypeOK, IInv
<1>2. LockedWork'
  BY DEF Thread, pass, walk, history, WriteBlob, Types, TypeOK, Sound, LockedWork, IInv
<1>3. WritesKeepBlobs'
  BY DEF Thread, pass, walk, history, WriteBlob, Types, TypeOK, WritesKeepBlobs, IInv
<1>4. RowsAreWhole'
  BY DEF Thread, pass, walk, history, WriteBlob, Types, TypeOK, Whole, RowsAreWhole, IInv
<1>5. WalkSeesRows'
  BY DEF Thread, pass, walk, history, WriteBlob, Types, TypeOK, Sound, WalkCurrent,
      WalkSeesRows, IInv
<1>6. QuietWalk'
  BY DEF Thread, pass, walk, history, WriteBlob, Types, TypeOK, QuietWalk, IInv
<1>7. LockDiscipline' /\ Working' /\ ScansSeeRows' /\ InstalledStays'
  BY DEF pass, walk, history, WriteBlob, Settled, LockDiscipline, TypeOK, Sound, Working,
      ScansSeeRows, InstalledStays, IInv
<1> QED BY <1>1, <1>2, <1>3, <1>4, <1>5, <1>6, <1>7 DEF IInv, TypeOK

(* A write is abandoned. *)
LEMMA GiveUpKeeps ==
  ASSUME IInv, NEW t \in Thread, GiveUp(t)
  PROVE  IInv'
<1>1. Types'
  BY RestTypes DEF GiveUp, disk, walk, Types, TypeOK, IInv
<1>2. LockDiscipline'
  BY RestThreads DEF GiveUp, LockDiscipline, TypeOK, IInv
<1>3. Working'
  BY DEF Thread, NoEntry, disk, walk, Goto, Rest, GiveUp, Types, TypeOK, Working, IInv
<1>4. LockedWork'
  BY DEF Thread, NoEntry, disk, walk, Goto, Rest, GiveUp, Types, TypeOK, Sound, LockedWork,
      IInv
<1>5. WritesKeepBlobs'
  BY DEF Thread, NoEntry, disk, walk, Goto, Rest, GiveUp, Types, TypeOK, WritesKeepBlobs,
      IInv
<1>6. ScansSeeRows'
  BY DEF Thread, NoEntry, disk, walk, Goto, Rest, GiveUp, Types, TypeOK, Sound,
      ScansSeeRows, IInv
<1>7. InstalledStays'
  BY DEF Thread, NoEntry, disk, walk, Goto, Rest, GiveUp, Settled, Types, TypeOK,
      InstalledStays, IInv
<1>8. QuietWalk'
  BY DEF Thread, NoEntry, disk, walk, Goto, Rest, GiveUp, Types, TypeOK, QuietWalk, IInv
<1>9. RowsAreWhole' /\ WalkSeesRows'
  BY DEF disk, walk, Goto, Rest, GiveUp, TypeOK, Whole, RowsAreWhole, Sound, WalkCurrent,
      WalkSeesRows, IInv
<1> QED BY <1>1, <1>2, <1>3, <1>4, <1>5, <1>6, <1>7, <1>8, <1>9 DEF IInv, TypeOK

(* The directory lands; the lock is held until the row does. *)
LEMMA InstallDirKeeps ==
  ASSUME IInv, NEW t \in Thread, InstallDir(t)
  PROVE  IInv'
<1>1. Types'
  <2>1. ent[t] \in Entry
    BY DEF InstallDir, Working, IInv
  <2>2. pc' \in [Thread -> Places]
    BY GotoThreads DEF InstallDir, Places, TypeOK, IInv
  <2> QED BY <2>1, <2>2 DEF InstallDir, pass, walk, history, Types, TypeOK, IInv
<1>2. LockDiscipline'
  BY DEF Thread, NoThread, pass, walk, history, Unlocked, Goto, InstallDir, Types,
      LockDiscipline, TypeOK, IInv
<1>3. Working'
  BY DEF Thread, NoThread, pass, walk, history, Unlocked, Goto, InstallDir, Types, TypeOK,
      Working, IInv
<1>4. LockedWork'
  <2>1. \A u \in Thread : pc[u] \notin {"installing", "removing"}
    BY UnlockedMeansOutside DEF InstallDir
  <2>2. pc'[t] = "installing" /\ \A u \in Thread \ {t} : pc'[u] = pc[u]
    BY GotoThreads DEF InstallDir, Places, TypeOK, IInv
  <2>3. ent[t] \notin Sound
    BY DEF InstallDir, RowsAreWhole, Whole, Sound, IInv
  <2> QED BY <2>1, <2>2, <2>3 DEF InstallDir, history, Sound, LockedWork
<1>5. WritesKeepBlobs'
  BY DEF Thread, NoThread, pass, walk, history, Unlocked, Goto, InstallDir, Types, TypeOK,
      WritesKeepBlobs, IInv
<1>6. RowsAreWhole'
  BY DEF Thread, NoThread, pass, walk, history, Unlocked, Goto, InstallDir, Types, TypeOK,
      Whole, RowsAreWhole, IInv
<1>7. ScansSeeRows'
  BY DEF Thread, NoThread, pass, walk, history, Unlocked, Goto, InstallDir, Types, TypeOK,
      Sound, ScansSeeRows, IInv
<1>8. WalkSeesRows'
  BY DEF Thread, NoThread, pass, walk, history, Unlocked, Goto, InstallDir, Types, TypeOK,
      Sound, WalkCurrent, WalkSeesRows, IInv
<1>9. InstalledStays'
  BY DEF Thread, NoThread, pass, walk, history, Unlocked, Goto, InstallDir, Settled, Types,
      TypeOK, InstalledStays, IInv
<1>10. QuietWalk'
  BY DEF Thread, NoThread, pass, walk, history, Unlocked, Goto, InstallDir, Types, TypeOK,
      QuietWalk, IInv
<1> QED BY <1>1, <1>2, <1>3, <1>4, <1>5, <1>6, <1>7, <1>8, <1>9, <1>10 DEF IInv, TypeOK

(* The entry is there already. *)
LEMMA InstallPresentKeeps ==
  ASSUME IInv, NEW t \in Thread, InstallPresent(t)
  PROVE  IInv'
<1>1. Types'
  BY DEF Thread, Scanner, NoThread, NoEntry, disk, pass, walk, Unlocked, Settling, Goto,
      InstallPresent, Places, Types, TypeOK, IInv
<1>2. LockDiscipline'
  BY DEF Thread, NoThread, disk, pass, walk, Unlocked, Goto, InstallPresent, Types,
      LockDiscipline, TypeOK, IInv
<1>3. Working'
  BY DEF Thread, NoThread, disk, pass, walk, Unlocked, Goto, InstallPresent, Types, TypeOK,
      Working, IInv
<1>4. LockedWork'
  BY DEF Thread, NoThread, disk, pass, walk, Unlocked, Goto, InstallPresent, Types, TypeOK,
      Sound, LockedWork, IInv
<1>5. WritesKeepBlobs'
  BY DEF Thread, NoThread, disk, pass, walk, Unlocked, Goto, InstallPresent, Types, TypeOK,
      WritesKeepBlobs, IInv
<1>6. ScansSeeRows'
  BY DEF Thread, NoThread, disk, pass, walk, Unlocked, Goto, InstallPresent, Types, TypeOK,
      Sound, ScansSeeRows, IInv
<1>7. InstalledStays'
  BY DEF Thread, NoThread, disk, pass, walk, Unlocked, Goto, InstallPresent, Settled, Types,
      TypeOK, InstalledStays, IInv
<1>8. QuietWalk'
  BY DEF Thread, NoThread, disk, pass, walk, Unlocked, Goto, InstallPresent, Types, TypeOK,
      QuietWalk, IInv
<1>9. RowsAreWhole' /\ WalkSeesRows'
  BY DEF disk, pass, walk, Unlocked, Goto, InstallPresent, TypeOK, Whole, RowsAreWhole,
      Sound, WalkCurrent, WalkSeesRows, IInv
<1> QED BY <1>1, <1>2, <1>3, <1>4, <1>5, <1>6, <1>7, <1>8, <1>9 DEF IInv, TypeOK

(* The row lands, on a whole entry unless it is torn. *)
LEMMA InstallRowKeeps ==
  ASSUME IInv, NEW t \in Thread, InstallRow(t)
  PROVE  IInv'
<1>1. Types'
  <2>1. ent[t] \in Entry
    BY DEF InstallRow, Working, IInv
  <2>2. pc' \in [Thread -> Places]
    BY GotoThreads DEF InstallRow, Places, Settling, TypeOK, IInv
  <2>3. moved' \in [Scanner -> BOOLEAN]
    BY BumpIsSeen DEF InstallRow, TypeOK, IInv
  <2> QED BY <2>1, <2>2, <2>3 DEF InstallRow, pass, walk, Types, TypeOK, IInv
<1>2. LockDiscipline'
  BY DEF Thread, Scanner, NoThread, pass, walk, Scanning, Bump, Goto, TornNow, InstallRow,
      Types, LockDiscipline, TypeOK, IInv
<1>3. Working'
  BY DEF Thread, Scanner, NoThread, pass, walk, Scanning, Bump, Goto, TornNow, InstallRow,
      Types, TypeOK, Working, IInv
<1>4. LockedWork'
  <2>1. \A u \in Thread \ {t} : pc[u] \notin {"installing", "removing"}
    BY LockHolderIsAlone DEF InstallRow
  <2>2. pc'[t] = "settle" /\ \A u \in Thread \ {t} : pc'[u] = pc[u]
    BY GotoThreads DEF InstallRow, Places, Settling, TypeOK, IInv
  <2> QED BY <2>1, <2>2 DEF LockedWork
<1>5. WritesKeepBlobs'
  BY DEF Thread, Scanner, NoThread, pass, walk, Scanning, Bump, Goto, TornNow, InstallRow,
      Types, TypeOK, WritesKeepBlobs, IInv
<1>6. RowsAreWhole'
  <2>1. ent[t] \in dirs /\ todo[t] = {}
    BY DEF InstallRow, LockedWork, IInv
  <2>2. t \notin spoiled => Needs[ent[t]] \subseteq blobs
    BY <2>1 DEF InstallRow, WritesKeepBlobs, IInv
  <2>3. ent[t] \in rows' \ torn' => Whole(ent[t])
    BY <2>1, <2>2 DEF InstallRow, TornNow, Whole
  <2>4. \A e \in rows' \ torn' : e = ent[t] \/ e \in rows \ torn
    BY DEF InstallRow
  <2> QED BY <2>3, <2>4 DEF InstallRow, RowsAreWhole, Whole, IInv
<1>7. ScansSeeRows'
  <2>1. pc'[t] = "settle" /\ \A u \in Thread \ {t} : pc'[u] = pc[u]
    BY GotoThreads DEF InstallRow, Places, Settling, TypeOK, IInv
  <2>2. \A u \in Thread : pc[u] = "sweep" => moved'[u]
    BY BumpIsSeen DEF InstallRow, TypeOK, IInv
  <2> QED BY <2>1, <2>2, ScansStay
<1>8. WalkSeesRows'
  <2>1. wpc \notin {"idle", "read"} => moved'["walk"]
    BY BumpIsSeen DEF InstallRow, TypeOK, IInv
  <2>2. wpc = "read" => Sound' \subseteq Sound
    BY DEF InstallRow, TornNow, Sound
  <2> QED BY <2>1, <2>2, WalkStays DEF InstallRow
<1>9. InstalledStays'
  BY DEF Thread, Scanner, NoThread, pass, walk, Scanning, Bump, Goto, TornNow, InstallRow,
      Settled, Types, TypeOK, InstalledStays, IInv
<1>10. QuietWalk'
  BY DEF Thread, Scanner, NoThread, pass, walk, Scanning, Bump, Goto, TornNow, InstallRow,
      Types, TypeOK, QuietWalk, IInv
<1> QED BY <1>1, <1>2, <1>3, <1>4, <1>5, <1>6, <1>7, <1>8, <1>9, <1>10 DEF IInv, TypeOK

(* The row does not land, and the directory may stay. *)
LEMMA InstallFailsKeeps ==
  ASSUME IInv, NEW t \in Thread, InstallFails(t)
  PROVE  IInv'
<1>1. Types'
  <2>1. moved' \in [Scanner -> BOOLEAN]
    BY BumpIsSeen DEF InstallFails, TypeOK, IInv
  <2>2. dirs' \subseteq Entry
    BY DEF InstallFails, Types, TypeOK, IInv
  <2> QED BY <2>1, <2>2, RestTypes DEF InstallFails, walk, Types, TypeOK, IInv
<1>2. LockDiscipline'
  <2>1. \A u \in Thread \ {t} : pc[u] \notin {"installing", "removing"}
    BY LockHolderIsAlone DEF InstallFails
  <2>2. pc'[t] = "idle" /\ \A u \in Thread \ {t} : pc'[u] = pc[u]
    BY RestThreads DEF InstallFails, TypeOK, IInv
  <2> QED BY <2>1, <2>2 DEF InstallFails, LockDiscipline, Thread, NoThread
<1>3. Working'
  BY DEF Thread, Scanner, NoThread, NoEntry, walk, Scanning, Bump, Goto, Rest, InstallFails,
      Types, TypeOK, Working, IInv
<1>4. LockedWork'
  <2>1. \A u \in Thread \ {t} : pc[u] \notin {"installing", "removing"}
    BY LockHolderIsAlone DEF InstallFails
  <2>2. pc'[t] = "idle" /\ \A u \in Thread \ {t} : pc'[u] = pc[u]
    BY RestThreads DEF InstallFails, TypeOK, IInv
  <2> QED BY <2>1, <2>2 DEF LockedWork
<1>5. WritesKeepBlobs'
  BY DEF Thread, Scanner, NoThread, NoEntry, walk, Scanning, Bump, Goto, Rest, InstallFails,
      Types, TypeOK, WritesKeepBlobs, IInv
<1>6. RowsAreWhole'
  <2>1. ent[t] \notin Sound
    BY DEF InstallFails, LockedWork, IInv
  <2> QED BY <2>1 DEF InstallFails, RowsAreWhole, Whole, Sound, IInv
<1>7. ScansSeeRows'
  <2>1. pc'[t] = "idle" /\ \A u \in Thread \ {t} : pc'[u] = pc[u]
    BY RestThreads DEF InstallFails, TypeOK, IInv
  <2>2. \A u \in Thread : pc[u] = "sweep" => moved'[u]
    BY BumpIsSeen DEF InstallFails, TypeOK, IInv
  <2> QED BY <2>1, <2>2, ScansStay
<1>8. WalkSeesRows'
  <2>1. wpc \notin {"idle", "read"} => moved'["walk"]
    BY BumpIsSeen DEF InstallFails, TypeOK, IInv
  <2> QED BY <2>1, WalkStays DEF InstallFails, Sound
<1>9. InstalledStays'
  BY DEF Thread, Scanner, NoThread, NoEntry, walk, Scanning, Bump, Goto, Rest, InstallFails,
      Settled, Types, TypeOK, InstalledStays, IInv
<1>10. QuietWalk'
  BY DEF Thread, Scanner, NoThread, NoEntry, walk, Scanning, Bump, Goto, Rest, InstallFails,
      Types, TypeOK, QuietWalk, IInv
<1> QED BY <1>1, <1>2, <1>3, <1>4, <1>5, <1>6, <1>7, <1>8, <1>9, <1>10 DEF IInv, TypeOK

(* The store is within its cap. *)
LEMMA SettleNothingKeeps ==
  ASSUME IInv, NEW t \in Thread, SettleNothing(t)
  PROVE  IInv'
<1>1. Types'
  BY RestTypes DEF SettleNothing, disk, walk, Types, TypeOK, IInv
<1>2. LockDiscipline'
  BY RestThreads DEF SettleNothing, LockDiscipline, TypeOK, IInv
<1>3. Working'
  BY DEF Thread, NoThread, NoEntry, disk, walk, Unlocked, Goto, Rest, SettleNothing, Types,
      TypeOK, Working, IInv
<1>4. LockedWork'
  BY DEF Thread, NoThread, NoEntry, disk, walk, Unlocked, Goto, Rest, SettleNothing, Types,
      TypeOK, Sound, LockedWork, IInv
<1>5. WritesKeepBlobs'
  BY DEF Thread, NoThread, NoEntry, disk, walk, Unlocked, Goto, Rest, SettleNothing, Types,
      TypeOK, WritesKeepBlobs, IInv
<1>6. ScansSeeRows'
  BY DEF Thread, NoThread, NoEntry, disk, walk, Unlocked, Goto, Rest, SettleNothing, Types,
      TypeOK, Sound, ScansSeeRows, IInv
<1>7. InstalledStays'
  BY DEF Thread, NoThread, NoEntry, disk, walk, Unlocked, Goto, Rest, SettleNothing,
      Settled, Types, TypeOK, InstalledStays, IInv
<1>8. QuietWalk'
  BY DEF Thread, NoThread, NoEntry, disk, walk, Unlocked, Goto, Rest, SettleNothing, Types,
      TypeOK, QuietWalk, IInv
<1>9. RowsAreWhole' /\ WalkSeesRows'
  BY DEF disk, walk, Unlocked, Goto, Rest, SettleNothing, TypeOK, Whole, RowsAreWhole,
      Sound, WalkCurrent, WalkSeesRows, IInv
<1> QED BY <1>1, <1>2, <1>3, <1>4, <1>5, <1>6, <1>7, <1>8, <1>9 DEF IInv, TypeOK

(* An eviction pass begins. *)
LEMMA SettleBeginKeeps ==
  ASSUME IInv, NEW t \in Thread, SettleBegin(t)
  PROVE  IInv'
<1>1. Types'
  <2>1. pc' \in [Thread -> Places]
    BY GotoThreads DEF SettleBegin, Places, Settling, TypeOK, IInv
  <2>2. Cardinality(rows) \in Int
    BY ColdAssumption, FS_Subset, FS_CardinalityType DEF Types, TypeOK, IInv
  <2>3. current' \in [Thread -> Int]
    BY <2>2 DEF SettleBegin, Types, TypeOK, IInv
  <2> QED BY <2>1, <2>3 DEF SettleBegin, disk, walk, history, Types, TypeOK, IInv
<1>2. LockDiscipline'
  BY DEF Thread, NoThread, disk, walk, history, Unlocked, Goto, SettleBegin, Types,
      LockDiscipline, TypeOK, IInv
<1>3. Working'
  BY DEF Thread, NoThread, disk, walk, history, Unlocked, Goto, SettleBegin, Types, TypeOK,
      Working, IInv
<1>4. LockedWork'
  BY DEF Thread, NoThread, disk, walk, history, Unlocked, Goto, SettleBegin, Types, TypeOK,
      Sound, LockedWork, IInv
<1>5. WritesKeepBlobs'
  BY DEF Thread, NoThread, disk, walk, history, Unlocked, Goto, SettleBegin, Types, TypeOK,
      WritesKeepBlobs, IInv
<1>6. ScansSeeRows'
  BY DEF Thread, NoThread, disk, walk, history, Unlocked, Goto, SettleBegin, Types, TypeOK,
      Sound, ScansSeeRows, IInv
<1>7. InstalledStays'
  BY DEF Thread, NoThread, disk, walk, history, Unlocked, Goto, SettleBegin, Settled, Types,
      TypeOK, InstalledStays, IInv
<1>8. QuietWalk'
  BY DEF Thread, NoThread, disk, walk, history, Unlocked, Goto, SettleBegin, Types, TypeOK,
      QuietWalk, IInv
<1>9. RowsAreWhole' /\ WalkSeesRows'
  BY DEF disk, walk, history, Unlocked, Goto, SettleBegin, TypeOK, Whole, RowsAreWhole,
      Sound, WalkCurrent, WalkSeesRows, IInv
<1> QED BY <1>1, <1>2, <1>3, <1>4, <1>5, <1>6, <1>7, <1>8, <1>9 DEF IInv, TypeOK

(* Its victims are listed. *)
LEMMA ListVictimsKeeps ==
  ASSUME IInv, NEW t \in Thread, ListVictims(t)
  PROVE  IInv'
<1>1. Types'
  <2>1. pc' \in [Thread -> Places]
    BY GotoThreads DEF ListVictims, Places, Settling, TypeOK, IInv
  <2>2. victims' \in [Thread -> SUBSET Entry]
    BY DEF ListVictims, Types, TypeOK, IInv
  <2> QED BY <2>1, <2>2 DEF ListVictims, disk, walk, history, Types, TypeOK, IInv
<1>2. LockDiscipline'
  BY DEF Thread, NoThread, disk, walk, history, Goto, ListVictims, Types,
      LockDiscipline, TypeOK, IInv
<1>3. Working'
  BY DEF Thread, NoThread, disk, walk, history, Goto, ListVictims, Types, TypeOK,
      Working, IInv
<1>4. LockedWork'
  BY DEF Thread, NoThread, disk, walk, history, Goto, ListVictims, Types, TypeOK,
      Sound, LockedWork, IInv
<1>5. WritesKeepBlobs'
  BY DEF Thread, NoThread, disk, walk, history, Goto, ListVictims, Types, TypeOK,
      WritesKeepBlobs, IInv
<1>6. ScansSeeRows'
  BY DEF Thread, NoThread, disk, walk, history, Goto, ListVictims, Types, TypeOK,
      Sound, ScansSeeRows, IInv
<1>7. InstalledStays'
  BY DEF Thread, NoThread, disk, walk, history, Goto, ListVictims, Settled, Types,
      TypeOK, InstalledStays, IInv
<1>8. QuietWalk'
  BY DEF Thread, NoThread, disk, walk, history, Goto, ListVictims, Types, TypeOK,
      QuietWalk, IInv
<1>9. RowsAreWhole' /\ WalkSeesRows'
  BY DEF disk, walk, history, Goto, ListVictims, TypeOK, Whole, RowsAreWhole,
      Sound, WalkCurrent, WalkSeesRows, IInv
<1> QED BY <1>1, <1>2, <1>3, <1>4, <1>5, <1>6, <1>7, <1>8, <1>9 DEF IInv, TypeOK

(* A victim is spared. *)
LEMMA SkipKeeps ==
  ASSUME IInv, NEW t \in Thread, NEW v \in Entry, Skip(t, v)
  PROVE  IInv'
<1>1. Types'
  BY DEF Thread, Scanner, NoThread, NoEntry, disk, work, walk, history, Unlocked, Settling,
      Holding, Spared, Skip, Places, Types, TypeOK, IInv
<1>2. LockDiscipline' /\ Working' /\ LockedWork' /\ WritesKeepBlobs' /\
     RowsAreWhole' /\ ScansSeeRows' /\ WalkSeesRows' /\
     InstalledStays' /\ QuietWalk'
  BY DEF disk, work, walk, history, Unlocked, Referenced, Settled, Skip, LockDiscipline,
      TypeOK, Whole, RowsAreWhole, Sound, Working, LockedWork, WritesKeepBlobs,
      ScansSeeRows, WalkCurrent, WalkSeesRows, InstalledStays, QuietWalk, IInv
<1> QED BY <1>1, <1>2 DEF IInv, TypeOK

(* A row goes, and its blobs become the pass's garbage. *)
LEMMA RetireKeeps ==
  ASSUME IInv, NEW t \in Thread, NEW v \in Entry, Retire(t, v)
  PROVE  IInv'
<1>1. Types'
  <2>1. pc' \in [Thread -> Places]
    BY GotoThreads DEF Retire, Places, Settling, TypeOK, IInv
  <2>2. Named({v} \cap dirs) \subseteq Blob
    BY NamedIsBlobs
  <2>3. garbage' \in [Thread -> SUBSET Blob] /\ victims' \in [Thread -> SUBSET Entry]
    BY <2>2 DEF Retire, Types, TypeOK, IInv
  <2>4. prey' \in [Thread -> Entry \cup {NoEntry}] /\ crossed' \subseteq Thread
    BY DEF Retire, Settled, Types, TypeOK, IInv
  <2> QED BY <2>1, <2>3, <2>4 DEF Retire, walk, Types, TypeOK, IInv
<1>2. LockDiscipline'
  BY DEF Thread, NoThread, walk, Unlocked, Settling, Holding, Goto, Settled, Spared, Retire,
      Types, LockDiscipline, TypeOK, IInv
<1>3. Working'
  BY DEF Thread, NoThread, walk, Unlocked, Settling, Holding, Goto, Settled, Spared, Retire,
      Types, TypeOK, Working, IInv
<1>4. LockedWork'
  BY DEF Thread, NoThread, walk, Unlocked, Settling, Holding, Goto, Settled, Spared, Retire,
      Types, TypeOK, Sound, LockedWork, IInv
<1>5. WritesKeepBlobs'
  BY DEF Thread, NoThread, walk, Unlocked, Settling, Holding, Goto, Settled, Spared, Retire,
      Types, TypeOK, WritesKeepBlobs, IInv
<1>6. RowsAreWhole'
  BY DEF Thread, NoThread, walk, Unlocked, Settling, Holding, Goto, Settled, Spared, Retire,
      Types, TypeOK, Whole, RowsAreWhole, IInv
<1>7. ScansSeeRows'
  <2>1. pc'[t] = "removing" /\ \A u \in Thread \ {t} : pc'[u] = pc[u]
    BY GotoThreads DEF Retire, Places, Settling, TypeOK, IInv
  <2>2. Sound' \subseteq Sound
    BY DEF Retire, Sound
  <2> QED BY <2>1, <2>2, ScansStay DEF Retire
<1>8. WalkSeesRows'
  <2>1. Sound' \subseteq Sound
    BY DEF Retire, Sound
  <2> QED BY <2>1, WalkStays DEF Retire
<1>9. InstalledStays'
  BY DEF Thread, NoThread, walk, Unlocked, Settling, Holding, Goto, Settled, Spared, Retire,
      Types, TypeOK, InstalledStays, IInv
<1>10. QuietWalk'
  BY DEF Thread, NoThread, walk, Unlocked, Settling, Holding, Goto, Settled, Spared, Retire,
      Types, TypeOK, QuietWalk, IInv
<1> QED BY <1>1, <1>2, <1>3, <1>4, <1>5, <1>6, <1>7, <1>8, <1>9, <1>10 DEF IInv, TypeOK

(* The directory of a retired row goes. *)
LEMMA RemoveDirKeeps ==
  ASSUME IInv, NEW t \in Thread, NEW ok \in BOOLEAN, RemoveDir(t, ok)
  PROVE  IInv'
<1>1. Types'
  <2>1. moved' \in [Scanner -> BOOLEAN] /\ dirs' \subseteq Entry
    BY BumpIsSeen DEF RemoveDir, Types, TypeOK, IInv
  <2>2. CASE ok
    <3>1. pc' \in [Thread -> Places]
      BY <2>2, GotoThreads DEF RemoveDir, Places, Settling, TypeOK, IInv
    <3>2. current' \in [Thread -> Int] /\ prey' \in [Thread -> Entry \cup {NoEntry}]
      BY <2>2 DEF RemoveDir, Types, TypeOK, IInv
    <3> QED BY <2>1, <2>2, <3>1, <3>2 DEF RemoveDir, walk, Types, TypeOK, IInv
  <2>3. CASE ~ok
    BY <2>1, <2>3, RestTypes DEF RemoveDir, walk, Types, TypeOK, IInv
  <2> QED BY <2>2, <2>3
<1>2. LockDiscipline'
  <2>1. \A u \in Thread \ {t} : pc[u] \notin {"installing", "removing"}
    BY LockHolderIsAlone DEF RemoveDir
  <2>2. pc'[t] \in {"evicting", "idle"} /\ \A u \in Thread \ {t} : pc'[u] = pc[u]
    <3>1. CASE ok
      BY <3>1, GotoThreads DEF RemoveDir, Places, Settling, TypeOK, IInv
    <3>2. CASE ~ok
      BY <3>2, RestThreads DEF RemoveDir, TypeOK, IInv
    <3> QED BY <3>1, <3>2
  <2> QED BY <2>1, <2>2 DEF RemoveDir, LockDiscipline, Thread, NoThread
<1>3. Working'
  BY DEF Thread, Scanner, NoThread, NoEntry, walk, Scanning, Bump, Goto, Rest, RemoveDir,
      Types, TypeOK, Working, IInv
<1>4. LockedWork'
  <2>1. \A u \in Thread \ {t} : pc[u] \notin {"installing", "removing"}
    BY LockHolderIsAlone DEF RemoveDir
  <2>2. pc'[t] \in {"evicting", "idle"} /\ \A u \in Thread \ {t} : pc'[u] = pc[u]
    <3>1. CASE ok
      BY <3>1, GotoThreads DEF RemoveDir, Places, Settling, TypeOK, IInv
    <3>2. CASE ~ok
      BY <3>2, RestThreads DEF RemoveDir, TypeOK, IInv
    <3> QED BY <3>1, <3>2
  <2> QED BY <2>1, <2>2 DEF LockedWork
<1>5. WritesKeepBlobs'
  <2>1. pc'[t] \in {"evicting", "idle"} /\ \A u \in Thread \ {t} : pc'[u] = pc[u]
    <3>1. CASE ok
      BY <3>1, GotoThreads DEF RemoveDir, Places, Settling, TypeOK, IInv
    <3>2. CASE ~ok
      BY <3>2, RestThreads DEF RemoveDir, TypeOK, IInv
    <3> QED BY <3>1, <3>2
  <2>2. \A u \in Thread \ {t} :
          ent'[u] = ent[u] /\ todo'[u] = todo[u] /\ (u \in spoiled' <=> u \in spoiled)
    BY RestThreads DEF RemoveDir, TypeOK, IInv
  <2> QED BY <2>1, <2>2 DEF RemoveDir, WritesKeepBlobs, IInv
<1>6. RowsAreWhole'
  <2>1. prey[t] \notin rows
    BY DEF RemoveDir, LockedWork, IInv
  <2> QED BY <2>1 DEF RemoveDir, RowsAreWhole, Whole, IInv
<1>7. ScansSeeRows'
  <2>1. pc'[t] \in {"evicting", "idle"} /\ \A u \in Thread \ {t} : pc'[u] = pc[u]
    <3>1. CASE ok
      BY <3>1, GotoThreads DEF RemoveDir, Places, Settling, TypeOK, IInv
    <3>2. CASE ~ok
      BY <3>2, RestThreads DEF RemoveDir, TypeOK, IInv
    <3> QED BY <3>1, <3>2
  <2>2. \A u \in Thread : pc[u] = "sweep" => moved'[u]
    BY BumpIsSeen DEF RemoveDir, TypeOK, IInv
  <2> QED BY <2>1, <2>2, ScansStay
<1>8. WalkSeesRows'
  <2>1. wpc \notin {"idle", "read"} => moved'["walk"]
    BY BumpIsSeen DEF RemoveDir, TypeOK, IInv
  <2> QED BY <2>1, WalkStays DEF RemoveDir, Sound
<1>9. InstalledStays'
  <2>1. CASE ok
    BY <2>1, GotoThreads
       DEF RemoveDir, Places, Settling, Settled, InstalledStays, Types, TypeOK, IInv
  <2>2. CASE ~ok
    BY <2>2, RestThreads DEF RemoveDir, Settled, InstalledStays, TypeOK, IInv
  <2> QED BY <2>1, <2>2
<1>10. QuietWalk'
  BY DEF Thread, Scanner, NoThread, NoEntry, walk, Scanning, Bump, Goto, Rest, RemoveDir,
      Types, TypeOK, QuietWalk, IInv
<1> QED BY <1>1, <1>2, <1>3, <1>4, <1>5, <1>6, <1>7, <1>8, <1>9, <1>10 DEF IInv, TypeOK

(* The pass has room. *)
LEMMA EvictEndsKeeps ==
  ASSUME IInv, NEW t \in Thread, EvictEnds(t)
  PROVE  IInv'
<1>1. Types'
  <2>1. CASE garbage[t] = {}
    BY <2>1, RestTypes DEF EvictEnds, disk, walk, Types, TypeOK, IInv
  <2>2. CASE garbage[t] # {}
    <3>1. pc' \in [Thread -> Places]
      BY <2>2, GotoThreads DEF EvictEnds, Places, Settling, TypeOK, IInv
    <3>2. current' \in [Thread -> Int] /\ victims' \in [Thread -> SUBSET Entry]
      BY <2>2 DEF EvictEnds, Types, TypeOK, IInv
    <3> QED BY <2>2, <3>1, <3>2 DEF EvictEnds, disk, walk, Types, TypeOK, IInv
  <2> QED BY <2>1, <2>2
<1>2. LockDiscipline'
  BY EvictEndsLeaves DEF EvictEnds, LockDiscipline, TypeOK, IInv
<1>3. Working'
  BY DEF Thread, NoEntry, disk, walk, Goto, Rest, EvictEnds, Types, TypeOK, Working, IInv
<1>4. LockedWork'
  BY EvictEndsLeaves DEF EvictEnds, disk, Sound, LockedWork, IInv
<1>5. WritesKeepBlobs'
  BY EvictEndsLeaves DEF EvictEnds, disk, WritesKeepBlobs, IInv
<1>6. ScansSeeRows'
  BY EvictEndsLeaves, ScansStay DEF EvictEnds, disk, Sound
<1>7. InstalledStays'
  BY EvictEndsLeaves DEF EvictEnds, disk, Settled, InstalledStays, IInv
<1>8. QuietWalk'
  BY DEF Thread, NoEntry, disk, walk, Goto, Rest, EvictEnds, Types, TypeOK, QuietWalk, IInv
<1>9. RowsAreWhole' /\ WalkSeesRows'
  BY DEF disk, walk, Goto, Rest, EvictEnds, TypeOK, Whole, RowsAreWhole, Sound, WalkCurrent,
      WalkSeesRows, IInv
<1> QED BY <1>1, <1>2, <1>3, <1>4, <1>5, <1>6, <1>7, <1>8, <1>9 DEF IInv, TypeOK

(* The pass is interrupted. *)
LEMMA YieldKeeps ==
  ASSUME IInv, NEW t \in Thread, Yield(t)
  PROVE  IInv'
<1>1. Types'
  <2>1. moved' \in [Scanner -> BOOLEAN]
    BY DEF Yield, Types, TypeOK, IInv
  <2> QED BY <2>1, RestTypes DEF Yield, disk, walk, Types, TypeOK, IInv
<1>2. LockDiscipline'
  BY RestThreads DEF Yield, LockDiscipline, TypeOK, IInv
<1>3. Working'
  BY DEF Thread, NoEntry, disk, walk, Goto, Rest, Yield, Types, TypeOK, Working, IInv
<1>4. LockedWork'
  BY DEF Thread, NoEntry, disk, walk, Goto, Rest, Yield, Types, TypeOK, Sound, LockedWork,
      IInv
<1>5. WritesKeepBlobs'
  BY DEF Thread, NoEntry, disk, walk, Goto, Rest, Yield, Types, TypeOK, WritesKeepBlobs,
      IInv
<1>6. ScansSeeRows'
  <2>1. \A u \in Thread \ {t} : moved'[u] = moved[u]
    BY DEF Yield, Types, TypeOK, IInv, Scanner
  <2> QED BY <2>1, RestThreads, ScansStay DEF Yield, disk, Sound, TypeOK, IInv
<1>7. WalkSeesRows'
  <2>1. moved'["walk"] = moved["walk"]
    BY DEF Yield, Types, TypeOK, IInv, Scanner, Thread
  <2> QED BY <2>1, WalkStays DEF Yield, disk, walk, Sound
<1>8. InstalledStays'
  BY DEF Thread, NoEntry, disk, walk, Goto, Rest, Settled, Yield, Types, TypeOK,
      InstalledStays, IInv
<1>9. QuietWalk'
  BY DEF Thread, NoEntry, disk, walk, Goto, Rest, Yield, Types, TypeOK, QuietWalk, IInv
<1>10. RowsAreWhole'
  BY DEF disk, walk, Goto, Rest, Yield, TypeOK, Whole, RowsAreWhole, IInv
<1> QED BY <1>1, <1>2, <1>3, <1>4, <1>5, <1>6, <1>7, <1>8, <1>9, <1>10 DEF IInv, TypeOK

(* The purge reads the generation. *)
LEMMA PurgeObserveKeeps ==
  ASSUME IInv, NEW t \in Thread, PurgeObserve(t)
  PROVE  IInv'
<1>1. Types'
  BY DEF Thread, Scanner, NoThread, NoEntry, disk, pass, walk, history, Settling, Goto,
      PurgeObserve, Places, Types, TypeOK, IInv
<1>2. LockDiscipline'
  BY DEF Thread, disk, pass, walk, history, Goto, PurgeObserve, Types, LockDiscipline,
      TypeOK, IInv
<1>3. Working'
  BY DEF Thread, disk, pass, walk, history, Goto, PurgeObserve, Types, TypeOK, Working, IInv
<1>4. LockedWork'
  BY DEF Thread, disk, pass, walk, history, Goto, PurgeObserve, Types, TypeOK, Sound,
      LockedWork, IInv
<1>5. WritesKeepBlobs'
  BY DEF Thread, disk, pass, walk, history, Goto, PurgeObserve, Types, TypeOK,
      WritesKeepBlobs, IInv
<1>6. ScansSeeRows'
  <2>1. \A u \in Thread \ {t} : moved'[u] = moved[u] /\ pc'[u] = pc[u]
    BY DEF PurgeObserve, Goto, Types, TypeOK, IInv, Scanner
  <2>2. pc'[t] = "scan"
    BY DEF PurgeObserve, Goto, Types, TypeOK, IInv
  <2> QED BY <2>1, <2>2, ScansStay DEF PurgeObserve, disk, pass, history, Sound
<1>7. WalkSeesRows'
  <2>1. moved'["walk"] = moved["walk"]
    BY DEF PurgeObserve, Types, TypeOK, IInv, Scanner, Thread
  <2> QED BY <2>1, WalkStays DEF PurgeObserve, disk, walk, history, Sound
<1>8. InstalledStays'
  BY DEF Thread, disk, pass, walk, history, Goto, Settled, PurgeObserve, Types, TypeOK,
      InstalledStays, IInv
<1>9. QuietWalk'
  BY DEF Thread, disk, pass, walk, history, Goto, PurgeObserve, Types, TypeOK, QuietWalk,
      IInv
<1>10. RowsAreWhole'
  BY DEF disk, pass, walk, history, Goto, PurgeObserve, TypeOK, Whole, RowsAreWhole, IInv
<1> QED BY <1>1, <1>2, <1>3, <1>4, <1>5, <1>6, <1>7, <1>8, <1>9, <1>10 DEF IInv, TypeOK

(* The purge reads the manifest. *)
LEMMA PurgeScanKeeps ==
  ASSUME IInv, NEW t \in Thread, PurgeScan(t)
  PROVE  IInv'
<1>1. Types'
  <2>1. pc' \in [Thread -> Places]
    BY GotoThreads DEF PurgeScan, Places, Settling, TypeOK, IInv
  <2>2. Referenced \subseteq Blob
    BY NamedIsBlobs DEF Referenced, Types, TypeOK, IInv
  <2>3. kept' \in [Thread -> SUBSET Blob]
    BY <2>2 DEF PurgeScan, Types, TypeOK, IInv
  <2> QED BY <2>1, <2>3 DEF PurgeScan, disk, walk, history, Types, TypeOK, IInv
<1>2. LockDiscipline'
  BY DEF Thread, disk, walk, history, Goto, PurgeScan, Types, LockDiscipline, TypeOK, IInv
<1>3. Working'
  BY DEF Thread, disk, walk, history, Goto, PurgeScan, Types, TypeOK, Working, IInv
<1>4. LockedWork'
  BY DEF Thread, disk, walk, history, Goto, PurgeScan, Types, TypeOK, Sound, LockedWork,
      IInv
<1>5. WritesKeepBlobs'
  BY DEF Thread, disk, walk, history, Goto, PurgeScan, Types, TypeOK, WritesKeepBlobs, IInv
<1>6. ScansSeeRows'
  <2>1. Named(Sound') = Named(Sound)
    BY DEF PurgeScan, disk, history, Sound, Named
  <2>2. kept'[t] = Referenced /\ \A u \in Thread \ {t} : kept'[u] = kept[u]
    BY DEF PurgeScan, Types, TypeOK, IInv
  <2>3. \A u \in Thread \ {t} : pc'[u] = pc[u]
    BY GotoThreads DEF PurgeScan, Places, Settling, TypeOK, IInv
  <2>4. Named(Sound') \subseteq kept'[t]
    BY <2>1, <2>2, ReferencedIsSound DEF IInv
  <2>5. ASSUME NEW u \in Thread \ {t}, pc'[u] = "sweep", ~moved'[u]
        PROVE  Named(Sound') \subseteq kept'[u]
    BY <2>1, <2>2, <2>3, <2>5 DEF PurgeScan, ScansSeeRows, IInv
  <2> QED BY <2>4, <2>5 DEF ScansSeeRows, Named
<1>7. InstalledStays'
  BY DEF Thread, disk, walk, history, Goto, Settled, PurgeScan, Types, TypeOK,
      InstalledStays, IInv
<1>8. QuietWalk'
  BY DEF Thread, disk, walk, history, Goto, PurgeScan, Types, TypeOK, QuietWalk, IInv
<1>9. RowsAreWhole' /\ WalkSeesRows'
  BY DEF disk, walk, history, Goto, PurgeScan, TypeOK, Whole, RowsAreWhole, Sound,
      WalkCurrent, WalkSeesRows, IInv
<1> QED BY <1>1, <1>2, <1>3, <1>4, <1>5, <1>6, <1>7, <1>8, <1>9 DEF IInv, TypeOK

(* The purge deletes what its scan, if still current, did not find. *)
LEMMA SweepKeeps ==
  ASSUME IInv, NEW t \in Thread, NEW left, Sweep(t, left)
  PROVE  IInv'
<1>1. Types'
  <2>1. moved' \in [Scanner -> BOOLEAN]
    BY DEF Sweep, Types, TypeOK, IInv
  <2>2. CASE moved[t]
    <3>1. pc' \in [Thread -> Places]
      BY <2>2, GotoThreads DEF Sweep, Places, Settling, TypeOK, IInv
    <3>2. kept' \in [Thread -> SUBSET Blob]
      BY <2>2 DEF Sweep, Types, TypeOK, IInv
    <3> QED BY <2>1, <2>2, <3>1, <3>2 DEF Sweep, walk, Types, TypeOK, IInv
  <2>3. CASE ~moved[t]
    <3>1. blobs' \subseteq Blob
      BY <2>3 DEF Sweep, Types, TypeOK, IInv
    <3> QED BY <2>1, <2>3, <3>1, RestTypes DEF Sweep, walk, Types, TypeOK, IInv
  <2> QED BY <2>2, <2>3
<1>2. LockDiscipline'
  <2>1. lock' = lock /\ lock # t
    BY DEF Sweep, Unlocked, Thread, NoThread
  <2>2. pc'[t] \notin {"installing", "removing"} /\ \A u \in Thread \ {t} : pc'[u] = pc[u]
    BY SweepLeaves
  <2> QED BY <2>1, <2>2 DEF LockDiscipline, TypeOK, IInv
<1>3. Working'
  BY DEF Thread, NoThread, NoEntry, walk, Unlocked, Settling, Holding, Goto, Rest, Sweep,
      Types, TypeOK, Working, IInv
<1>4. LockedWork'
  BY SweepLeaves DEF Sweep, Sound, LockedWork, IInv
<1>5. WritesKeepBlobs'
  <2> SUFFICES ASSUME NEW u \in Thread, pc'[u] \in {"writing", "installing"}, u \notin spoiled'
               PROVE  Needs[ent'[u]] \ todo'[u] \subseteq blobs'
    BY DEF WritesKeepBlobs
  <2>1. /\ u # t /\ pc[u] \in {"writing", "installing"} /\ u \notin spoiled
        /\ ent'[u] = ent[u] /\ todo'[u] = todo[u]
    BY SweepLeaves
  <2>2. Needs[ent[u]] \ todo[u] \subseteq ClaimedBlobs
    BY <2>1, ClaimsCover
  <2>3. Needs[ent[u]] \ todo[u] \subseteq blobs
    BY <2>1 DEF WritesKeepBlobs, IInv
  <2> QED BY <2>1, <2>2, <2>3 DEF Sweep
<1>6. RowsAreWhole'
  <2> SUFFICES ASSUME NEW e \in rows \ torn
               PROVE  e \in dirs /\ Needs[e] \subseteq blobs'
    BY DEF Sweep, RowsAreWhole, Whole
  <2>1. e \in dirs /\ Needs[e] \subseteq blobs
    BY DEF RowsAreWhole, Whole, IInv
  <2>2. CASE moved[t]
    BY <2>1, <2>2 DEF Sweep
  <2>3. CASE ~moved[t]
    <3>1. Needs[e] \subseteq Named(Sound)
      BY NamedMember DEF Sound
    <3>2. Named(Sound) \subseteq kept[t]
      BY <2>3 DEF Sweep, ScansSeeRows, IInv
    <3> QED BY <2>1, <2>3, <3>1, <3>2 DEF Sweep
  <2> QED BY <2>2, <2>3
<1>7. ScansSeeRows'
  <2>1. \A u \in Thread \ {t} : moved'[u] = moved[u]
    BY DEF Sweep, Types, TypeOK, IInv, Scanner
  <2> QED BY <2>1, SweepLeaves, ScansStay DEF Sweep, Sound
<1>8. WalkSeesRows'
  <2>1. moved'["walk"] = moved["walk"]
    BY DEF Sweep, Types, TypeOK, IInv, Scanner, Thread
  <2> QED BY <2>1, WalkStays DEF Sweep, disk, walk, Sound
<1>9. InstalledStays'
  BY SweepLeaves DEF Sweep, Settled, InstalledStays, IInv
<1>10. QuietWalk'
  BY DEF Thread, NoThread, NoEntry, walk, Unlocked, Settling, Holding, Goto, Rest, Sweep,
      Types, TypeOK, QuietWalk, IInv
<1> QED BY <1>1, <1>2, <1>3, <1>4, <1>5, <1>6, <1>7, <1>8, <1>9, <1>10 DEF IInv, TypeOK

(* The walk reads the manifest. *)
LEMMA WalkReadKeeps ==
  ASSUME IInv, WalkRead
  PROVE  IInv'
<1>1. Types'
  <2>1. Referenced \subseteq Blob
    BY NamedIsBlobs DEF Referenced, Types, TypeOK, IInv
  <2> QED BY <2>1 DEF WalkRead, WalkTo, disk, work, pass, Types, TypeOK, IInv
<1>2. WalkSeesRows'
  <2>1. Named(Sound') = Named(Sound) /\ Sound' = Sound
    BY DEF WalkRead, disk, Sound, Named
  <2>2. Named(Sound') \subseteq wBlobs'
    BY <2>1, ReferencedIsSound DEF WalkRead, IInv
  <2>3. Sound' \subseteq wRows'
    BY <2>1 DEF WalkRead, Sound
  <2>4. wpc' = "read"
    BY DEF WalkRead, WalkTo
  <2> QED BY <2>2, <2>3, <2>4 DEF WalkSeesRows, Named
<1>3. QuietWalk'
  <2>1. Referenced' = Referenced
    BY DEF WalkRead, disk, Referenced, Named
  <2>2. wpc' = "read" /\ wRows' = rows' /\ wBlobs' = Referenced'
    BY <2>1 DEF WalkRead, WalkTo, disk
  <2>3. quiet' => \A u \in Thread : pc'[u] = "idle"
    BY DEF WalkRead, work
  <2> QED BY <2>2, <2>3 DEF QuietWalk
<1>4. LockDiscipline' /\ Working' /\ LockedWork' /\ WritesKeepBlobs' /\
     RowsAreWhole' /\ ScansSeeRows' /\ InstalledStays'
  BY DEF disk, work, pass, Settled, WalkTo, WalkRead, LockDiscipline, TypeOK, Whole,
      RowsAreWhole, Sound, Working, LockedWork, WritesKeepBlobs, ScansSeeRows,
      InstalledStays, IInv
<1> QED BY <1>1, <1>2, <1>3, <1>4 DEF IInv, TypeOK

(* The walk reads the generation. *)
LEMMA WalkObserveKeeps ==
  ASSUME IInv, WalkObserve
  PROVE  IInv'
<1>1. Types'
  BY DEF Thread, Scanner, NoThread, NoEntry, disk, work, pass, walk, history, Settling,
      WalkTo, WalkObserve, Places, Types, TypeOK, IInv
<1>2. ScansSeeRows'
  <2>1. \A u \in Thread : moved'[u] = moved[u]
    BY DEF WalkObserve, Types, TypeOK, IInv, Scanner, Thread
  <2> QED BY <2>1, ScansStay DEF WalkObserve, disk, work, pass, history, Sound
<1>3. WalkSeesRows'
  BY DEF Thread, disk, work, pass, walk, history, WalkTo, WalkObserve, Types, TypeOK, Sound,
      WalkCurrent, WalkSeesRows, IInv
<1>4. QuietWalk'
  <2>1. Referenced' = Referenced
    BY DEF WalkObserve, disk, Referenced, Named
  <2> QED BY <2>1 DEF WalkObserve, WalkTo, disk, work, history, QuietWalk, IInv
<1>5. LockDiscipline' /\ Working' /\ LockedWork' /\ WritesKeepBlobs' /\
     RowsAreWhole' /\ InstalledStays'
  BY DEF disk, work, pass, walk, history, Settled, WalkTo, WalkObserve, LockDiscipline,
      TypeOK, Whole, RowsAreWhole, Sound, Working, LockedWork, WritesKeepBlobs,
      InstalledStays, IInv
<1> QED BY <1>1, <1>2, <1>3, <1>4, <1>5 DEF IInv, TypeOK

(* The walk's directory candidates. *)
LEMMA WalkDirsKeeps ==
  ASSUME IInv, WalkDirs
  PROVE  IInv'
<1>1. Types'
  BY DEF Thread, Scanner, NoThread, NoEntry, disk, work, pass, walk, history, Settling,
      WalkTo, WalkDirs, Places, Types, TypeOK, IInv
<1>2. WalkSeesRows'
  BY DEF Thread, disk, work, pass, walk, history, WalkTo, WalkDirs, Types, TypeOK, Sound,
      WalkCurrent, WalkSeesRows, IInv
<1>3. QuietWalk'
  <2>1. Referenced' = Referenced
    BY DEF WalkDirs, disk, Referenced, Named
  <2> QED BY <2>1 DEF WalkDirs, WalkTo, disk, work, history, QuietWalk, IInv
<1>4. LockDiscipline' /\ Working' /\ LockedWork' /\ WritesKeepBlobs' /\
     RowsAreWhole' /\ ScansSeeRows' /\ InstalledStays'
  BY DEF disk, work, pass, history, Settled, WalkTo, WalkDirs, LockDiscipline, TypeOK,
      Whole, RowsAreWhole, Sound, Working, LockedWork, WritesKeepBlobs, ScansSeeRows,
      InstalledStays, IInv
<1> QED BY <1>1, <1>2, <1>3, <1>4 DEF IInv, TypeOK

(* The walk deletes directories. *)
LEMMA SettleDirsKeeps ==
  ASSUME IInv, NEW left, SettleDirs(left)
  PROVE  IInv'
<1>1. Types'
  <2>1. Referenced \subseteq Blob
    BY NamedIsBlobs DEF Referenced, Types, TypeOK, IInv
  <2>2. dirs' \subseteq Entry /\ wBlobs' \subseteq Blob
    BY <2>1 DEF SettleDirs, Types, TypeOK, IInv
  <2>3. moved' \in [Scanner -> BOOLEAN]
    BY DEF SettleDirs, Types, TypeOK, IInv
  <2> QED BY <2>2, <2>3 DEF SettleDirs, WalkTo, work, pass, history, Types, TypeOK, IInv
<1>2. LockedWork'
  <2>1. CASE batch = {}
    BY <2>1 DEF SettleDirs, work, pass, history, Sound, LockedWork, IInv
  <2>2. CASE batch # {}
    BY <2>2, UnlockedMeansOutside DEF SettleDirs, work, LockedWork
  <2> QED BY <2>1, <2>2
<1>3. RowsAreWhole'
  <2>1. Sound \subseteq dirs'
    BY SettleDirsSpares DEF IInv, RowsAreWhole, Whole, Sound, SettleDirs
  <2> QED BY <2>1 DEF SettleDirs, history, Sound, RowsAreWhole, Whole, IInv
<1>4. ScansSeeRows'
  <2>1. \A u \in Thread : moved'[u] = moved[u]
    BY DEF SettleDirs, Types, TypeOK, IInv, Scanner, Thread
  <2> QED BY <2>1, ScansStay DEF SettleDirs, work, pass, history, Sound
<1>5. WalkSeesRows'
  <2>1. Named(Sound') = Named(Sound)
    BY DEF SettleDirs, history, Sound, Named
  <2>2. wpc' = "blobs"
    BY DEF SettleDirs, WalkTo
  <2> SUFFICES ASSUME ~moved'["walk"] PROVE Named(Sound) \subseteq wBlobs'
    BY <2>1, <2>2 DEF WalkSeesRows, WalkCurrent, Named
  <2>3. CASE batch # {} /\ moved["walk"]
    BY <2>3, ReferencedIsSound DEF SettleDirs, IInv
  <2>4. CASE batch = {} \/ ~moved["walk"]
    <3>1. WalkCurrent /\ wBlobs' = wBlobs /\ wpc = "dirBatch"
      BY <2>4 DEF SettleDirs, WalkCurrent
    <3> QED BY <3>1 DEF WalkSeesRows, IInv
  <2> QED BY <2>3, <2>4
<1>6. QuietWalk'
  <2> SUFFICES ASSUME quiet, left = {} PROVE QuietWalk'
    BY DEF SettleDirs, QuietWalk
  <2>1. ClaimedDirs = {} /\ \A u \in Thread : pc[u] = "idle"
    BY IdleClaimsNothing DEF QuietWalk, IInv
  <2>2. batch = dirs \ rows /\ wBlobs = Referenced
    BY DEF SettleDirs, QuietWalk, IInv
  <2>3. dirs' = dirs \cap rows
    BY <2>1, <2>2 DEF SettleDirs, FreshRows
  <2>4. Referenced' = Referenced
    BY <2>3 DEF SettleDirs, Referenced, Named
  <2>5. wBlobs' = Referenced'
    BY <2>2, <2>4 DEF SettleDirs
  <2> QED BY <2>1, <2>3, <2>5 DEF SettleDirs, WalkTo, work, QuietWalk
<1>7. LockDiscipline' /\ Working' /\ WritesKeepBlobs' /\ InstalledStays'
  BY DEF work, pass, walk, history, Unlocked, Settled, WalkTo, SettleDirs, LockDiscipline,
      TypeOK, Working, WritesKeepBlobs, InstalledStays, IInv
<1> QED BY <1>1, <1>2, <1>3, <1>4, <1>5, <1>6, <1>7 DEF IInv, TypeOK

(* The walk's blob candidates. *)
LEMMA WalkBlobsKeeps ==
  ASSUME IInv, WalkBlobs
  PROVE  IInv'
<1>1. Types'
  BY DEF Thread, Scanner, NoThread, NoEntry, disk, work, pass, walk, history, Settling,
      WalkTo, WalkBlobs, Places, Types, TypeOK, IInv
<1>2. WalkSeesRows'
  BY DEF Thread, disk, work, pass, walk, history, WalkTo, WalkBlobs, Types, TypeOK, Sound,
      WalkCurrent, WalkSeesRows, IInv
<1>3. QuietWalk'
  <2>1. Referenced' = Referenced
    BY DEF WalkBlobs, disk, Referenced, Named
  <2> QED BY <2>1 DEF WalkBlobs, WalkTo, disk, work, history, QuietWalk, IInv
<1>4. LockDiscipline' /\ Working' /\ LockedWork' /\ WritesKeepBlobs' /\
     RowsAreWhole' /\ ScansSeeRows' /\ InstalledStays'
  BY DEF disk, work, pass, history, Settled, WalkTo, WalkBlobs, LockDiscipline, TypeOK,
      Whole, RowsAreWhole, Sound, Working, LockedWork, WritesKeepBlobs, ScansSeeRows,
      InstalledStays, IInv
<1> QED BY <1>1, <1>2, <1>3, <1>4 DEF IInv, TypeOK

(* The walk deletes blobs. *)
LEMMA SettleBlobsKeeps ==
  ASSUME IInv, NEW left, SettleBlobs(left)
  PROVE  IInv'
<1>1. Types'
  BY DEF Thread, Scanner, NoThread, NoEntry, work, pass, walk, Unlocked, Settling, Holding,
      WalkTo, WalkEnds, FreshBlobs, SettleBlobs, Places, Types, TypeOK, IInv
<1>2. WritesKeepBlobs'
  <2> SUFFICES ASSUME NEW u \in Thread, pc[u] \in {"writing", "installing"}, u \notin spoiled
               PROVE  Needs[ent[u]] \ todo[u] \subseteq blobs'
    BY DEF SettleBlobs, work, WritesKeepBlobs
  <2>1. Needs[ent[u]] \ todo[u] \subseteq ClaimedBlobs
    BY ClaimsCover
  <2>2. Needs[ent[u]] \ todo[u] \subseteq blobs
    BY DEF WritesKeepBlobs, IInv
  <2> QED BY <2>1, <2>2 DEF SettleBlobs
<1>3. RowsAreWhole'
  <2> SUFFICES ASSUME NEW e \in rows \ torn
               PROVE  e \in dirs /\ Needs[e] \subseteq blobs'
    BY DEF SettleBlobs, RowsAreWhole, Whole
  <2>1. e \in dirs /\ Needs[e] \subseteq blobs
    BY DEF RowsAreWhole, Whole, IInv
  <2>2. Needs[e] \subseteq Named(Sound)
    BY NamedMember DEF Sound
  <2>3. CASE moved["walk"]
    BY <2>1, <2>2, <2>3, ReferencedIsSound DEF SettleBlobs, FreshBlobs, IInv
  <2>4. CASE ~moved["walk"]
    <3>1. Named(Sound) \cap batch = {}
      BY <2>4 DEF SettleBlobs, WalkCurrent, WalkSeesRows, IInv
    <3> QED BY <2>1, <2>2, <3>1 DEF SettleBlobs
  <2> QED BY <2>3, <2>4
<1>4. ScansSeeRows'
  <2>1. \A u \in Thread : moved'[u] = moved[u]
    BY DEF SettleBlobs, WalkEnds, Types, TypeOK, IInv, Scanner, Thread
  <2> QED BY <2>1, ScansStay DEF SettleBlobs, work, pass, Sound
<1>5. WalkSeesRows'
  BY DEF Thread, NoThread, work, pass, walk, Unlocked, Settling, Holding, WalkTo, WalkEnds,
      FreshBlobs, SettleBlobs, Types, TypeOK, Sound, WalkCurrent, WalkSeesRows, IInv
<1>6. QuietWalk'
  BY DEF Thread, NoThread, work, pass, walk, Unlocked, Settling, Holding, WalkTo, WalkEnds,
      FreshBlobs, SettleBlobs, Types, TypeOK, QuietWalk, IInv
<1>7. LockDiscipline' /\ Working' /\ LockedWork' /\ InstalledStays'
  BY DEF work, pass, walk, Unlocked, Settled, WalkTo, WalkEnds, SettleBlobs, LockDiscipline,
      TypeOK, Sound, Working, LockedWork, InstalledStays, IInv
<1> QED BY <1>1, <1>2, <1>3, <1>4, <1>5, <1>6, <1>7 DEF IInv, TypeOK

(* The walk is interrupted. *)
LEMMA WalkStopsKeeps ==
  ASSUME IInv, WalkStops
  PROVE  IInv'
<1>1. Types'
  BY DEF Thread, Scanner, NoThread, NoEntry, disk, work, pass, walk, Settling, WalkTo,
      WalkEnds, WalkStops, Places, Types, TypeOK, IInv
<1>2. ScansSeeRows'
  <2>1. \A u \in Thread : moved'[u] = moved[u]
    BY DEF WalkStops, WalkEnds, Types, TypeOK, IInv, Scanner, Thread
  <2> QED BY <2>1, ScansStay DEF WalkStops, WalkEnds, disk, work, pass, Sound
<1>3. WalkSeesRows'
  BY DEF Thread, disk, work, pass, walk, WalkTo, WalkEnds, WalkStops, Types, TypeOK, Sound,
      WalkCurrent, WalkSeesRows, IInv
<1>4. QuietWalk'
  BY DEF Thread, disk, work, pass, walk, WalkTo, WalkEnds, WalkStops, Types, TypeOK,
      QuietWalk, IInv
<1>5. LockDiscipline' /\ Working' /\ LockedWork' /\ WritesKeepBlobs' /\
     RowsAreWhole' /\ InstalledStays'
  BY DEF disk, work, pass, walk, Settled, WalkTo, WalkEnds, WalkStops, LockDiscipline,
      TypeOK, Whole, RowsAreWhole, Sound, Working, LockedWork, WritesKeepBlobs,
      InstalledStays, IInv
<1> QED BY <1>1, <1>2, <1>3, <1>4, <1>5 DEF IInv, TypeOK

(* The store is renamed away. *)
LEMMA ArchiveKeeps ==
  ASSUME IInv, Archive
  PROVE  IInv'
<1>1. Types'
  BY DEF Thread, Scanner, NoThread, NoEntry, work, pass, walk, Unlocked, Settling, Settled,
      Archive, Places, Types, TypeOK, IInv
<1>2. LockedWork'
  BY UnlockedMeansOutside DEF Archive, work, LockedWork
<1>3. WritesKeepBlobs'
  <2> SUFFICES ASSUME NEW u \in Thread, pc[u] \in {"writing", "installing"}, u \notin spoiled'
               PROVE  Needs[ent[u]] \ todo[u] = {}
    BY DEF Archive, work, WritesKeepBlobs
  <2>1. pc[u] = "writing"
    BY UnlockedMeansOutside DEF Archive
  <2> QED BY <2>1 DEF Archive
<1>4. RowsAreWhole'
  BY DEF Thread, NoThread, work, pass, walk, Unlocked, Settled, Archive, Types, TypeOK,
      Whole, RowsAreWhole, IInv
<1>5. ScansSeeRows'
  BY ScansStay DEF Archive, work, pass, Sound
<1>6. WalkSeesRows'
  BY WalkStays DEF Archive, walk, Sound
<1>7. InstalledStays'
  BY DEF Thread, NoThread, work, pass, walk, Unlocked, Settled, Archive, Types, TypeOK,
      InstalledStays, IInv
<1>8. QuietWalk'
  BY DEF Thread, NoThread, work, pass, walk, Unlocked, Settled, Archive, Types, TypeOK,
      QuietWalk, IInv
<1>9. LockDiscipline' /\ Working'
  BY DEF work, pass, walk, Unlocked, Archive, LockDiscipline, TypeOK, Working, IInv
<1> QED BY <1>1, <1>2, <1>3, <1>4, <1>5, <1>6, <1>7, <1>8, <1>9 DEF IInv, TypeOK

(* The process is killed and starts again. *)
LEMMA CrashKeeps ==
  ASSUME IInv, Crash
  PROVE  IInv'
<1>1. Types'
  <2>1. pc' \in [Thread -> Places] /\ current' \in [Thread -> Int]
    BY DEF Crash, Places
  <2>2. /\ ent' \in [Thread -> Entry \cup {NoEntry}] /\ prey' \in [Thread -> Entry \cup {NoEntry}]
        /\ todo' \in [Thread -> SUBSET Blob] /\ garbage' \in [Thread -> SUBSET Blob]
        /\ kept' \in [Thread -> SUBSET Blob] /\ victims' \in [Thread -> SUBSET Entry]
    BY DEF Crash
  <2>3. moved' \in [Scanner -> BOOLEAN]
    BY DEF Crash
  <2> QED BY <2>1, <2>2, <2>3 DEF Crash, disk, Types, TypeOK, IInv
<1>2. LockDiscipline'
  BY DEF Crash, LockDiscipline, Thread, NoThread
<1>3. Working'
  BY DEF Thread, Scanner, NoThread, NoEntry, disk, walk, Crash, Types, TypeOK, Working, IInv
<1>4. LockedWork'
  BY DEF Thread, Scanner, NoThread, NoEntry, disk, walk, Crash, Types, TypeOK, Sound,
      LockedWork, IInv
<1>5. WritesKeepBlobs'
  BY DEF Thread, Scanner, NoThread, NoEntry, disk, walk, Crash, Types, TypeOK,
      WritesKeepBlobs, IInv
<1>6. ScansSeeRows'
  BY DEF Thread, Scanner, NoThread, NoEntry, disk, walk, Crash, Types, TypeOK, Sound,
      ScansSeeRows, IInv
<1>7. WalkSeesRows'
  BY DEF Thread, Scanner, NoThread, NoEntry, disk, walk, Crash, Types, TypeOK, Sound,
      WalkCurrent, WalkSeesRows, IInv
<1>8. InstalledStays'
  BY DEF Thread, Scanner, NoThread, NoEntry, disk, walk, Settled, Crash, Types, TypeOK,
      InstalledStays, IInv
<1>9. QuietWalk'
  BY DEF Thread, Scanner, NoThread, NoEntry, disk, walk, Crash, Types, TypeOK, QuietWalk,
      IInv
<1>10. RowsAreWhole'
  BY DEF disk, walk, Crash, TypeOK, Whole, RowsAreWhole, IInv
<1> QED BY <1>1, <1>2, <1>3, <1>4, <1>5, <1>6, <1>7, <1>8, <1>9, <1>10 DEF IInv, TypeOK

LEMMA InitHolds == Init => IInv
<1> SUFFICES ASSUME Init PROVE IInv
  OBVIOUS
<1>1. Types
  <2>1. pc \in [Thread -> Places] /\ current \in [Thread -> Int] /\ moved \in [Scanner -> BOOLEAN]
    BY DEF Init, Places
  <2>2. /\ ent \in [Thread -> Entry \cup {NoEntry}] /\ prey \in [Thread -> Entry \cup {NoEntry}]
        /\ todo \in [Thread -> SUBSET Blob] /\ garbage \in [Thread -> SUBSET Blob]
        /\ kept \in [Thread -> SUBSET Blob] /\ victims \in [Thread -> SUBSET Entry]
    BY DEF Init
  <2> QED BY <2>1, <2>2 DEF Init, Types
<1>2. LockDiscipline /\ Working /\ LockedWork /\ WritesKeepBlobs
  BY DEF Init, Thread, NoThread, LockDiscipline, Working, LockedWork, WritesKeepBlobs
<1>3. RowsAreWhole /\ ScansSeeRows
  BY DEF Init, RowsAreWhole, ScansSeeRows
<1>4. WalkSeesRows /\ InstalledStays /\ QuietWalk
  BY DEF Init, WalkSeesRows, InstalledStays, Settled, QuietWalk
<1> QED BY <1>1, <1>2, <1>3, <1>4 DEF IInv, TypeOK

LEMMA StutterKeeps == IInv /\ UNCHANGED vars => IInv'
<1> SUFFICES ASSUME IInv, UNCHANGED vars PROVE IInv'
  OBVIOUS
<1> USE DEF vars, disk, work, pass, walk, history
<1>1. Types' /\ LockDiscipline' /\ Working'
  BY DEF IInv, TypeOK, Types, LockDiscipline, Working
<1>2. LockedWork' /\ WritesKeepBlobs' /\ RowsAreWhole' /\ InstalledStays'
  BY DEF IInv, LockedWork, WritesKeepBlobs, RowsAreWhole, Whole, InstalledStays, Settled, Sound
<1>3. ScansSeeRows' /\ WalkSeesRows'
  BY DEF IInv, ScansSeeRows, WalkSeesRows, WalkCurrent, Sound, Named
<1>4. QuietWalk'
  BY DEF IInv, QuietWalk, Referenced, Named
<1> QED BY <1>1, <1>2, <1>3, <1>4 DEF IInv, TypeOK

-----------------------------------------------------------------------------
(* The theorems.                                                           *)

(* IInv is an invariant: no interleaving of the writer, a spill, their
   eviction passes, a reconcile walk, an archive and a kill breaks one of its
   parts. *)
THEOREM SpecIInv == Spec => []IInv
<1>1. Init => IInv
  BY InitHolds
<1>2. IInv /\ [Next]_vars => IInv'
  <2> SUFFICES ASSUME IInv, [Next]_vars PROVE IInv'
    OBVIOUS
  <2>1. CASE \E t \in Thread : Write(t)
    BY <2>1, StartKeeps, ClaimKeeps, AdmitKeeps, WriteBlobKeeps, GiveUpKeeps, InstallDirKeeps,
        InstallPresentKeeps, InstallRowKeeps, InstallFailsKeeps DEF Write
  <2>2. CASE \E t \in Thread : Settle(t)
    BY <2>2, SettleNothingKeeps, SettleBeginKeeps, ListVictimsKeeps, SkipKeeps, RetireKeeps, RemoveDirKeeps,
        EvictEndsKeeps, YieldKeeps, PurgeObserveKeeps, PurgeScanKeeps, SweepKeeps DEF Settle
  <2>3. CASE Walk
    BY <2>3, WalkReadKeeps, WalkObserveKeeps, WalkDirsKeeps, SettleDirsKeeps, WalkBlobsKeeps,
        SettleBlobsKeeps, WalkStopsKeeps DEF Walk
  <2>4. CASE Archive \/ Crash
    BY <2>4, ArchiveKeeps, CrashKeeps
  <2>5. CASE UNCHANGED vars
    BY <2>5, StutterKeeps
  <2> QED BY <2>1, <2>2, <2>3, <2>4, <2>5 DEF Next
<1> QED BY <1>1, <1>2, PTL DEF Spec

(* Types, and who is in the middle of what when _base_lock is held. *)
THEOREM TypeCorrect == Spec => []TypeOK
<1>1. IInv => TypeOK
  BY DEF IInv
<1> QED BY <1>1, SpecIInv, PTL

(* A row that is not torn names a directory and blobs that are all there
   (_install_entry, _delete_unreferenced_blobs, the walk's settles, a kill
   anywhere), whatever the entries have in common. *)
THEOREM RowsStayWhole == Spec => []RowsAreWhole
<1>1. IInv => RowsAreWhole
  BY DEF IInv
<1> QED BY <1>1, SpecIInv, PTL

(* Only Retire takes a thread from looking for victims to removing one. *)
LEMMA OnlyRetireRemoves ==
  ASSUME IInv, Next, NEW t \in Thread, pc[t] = "evicting", pc'[t] = "removing"
  PROVE  \E v \in Entry : Retire(t, v)
<1>1. ASSUME NEW u \in Thread, Write(u) PROVE u # t /\ pc'[t] = pc[t]
  BY <1>1 DEF Write, Start, Claim, Admit, WriteBlob, GiveUp, InstallDir, InstallPresent,
      InstallRow, InstallFails, Goto, Rest, IInv, TypeOK, Types
<1>2. ASSUME NEW u \in Thread \ {t}, Settle(u) PROVE pc'[t] = pc[t]
  BY <1>2 DEF Settle, SettleNothing, SettleBegin, ListVictims, Skip, Retire, RemoveDir, EvictEnds, Yield,
      PurgeObserve, PurgeScan, Sweep, Goto, Rest, work, IInv, TypeOK, Types
<1>3. ASSUME Settle(t) PROVE \E v \in Entry : Retire(t, v)
  BY <1>3 DEF Settle, SettleNothing, SettleBegin, ListVictims, Skip, RemoveDir, EvictEnds, Yield,
      PurgeObserve, PurgeScan, Sweep, Goto, Rest, work, IInv, TypeOK, Types
<1>4. ASSUME Walk PROVE pc'[t] = pc[t]
  BY <1>4 DEF Walk, WalkRead, WalkObserve, WalkDirs, SettleDirs, WalkBlobs, SettleBlobs,
      WalkStops, work
<1>5. ASSUME Archive \/ Crash PROVE pc'[t] # "removing"
  BY <1>5 DEF Archive, Crash, work
<1> QED BY <1>1, <1>2, <1>3, <1>4, <1>5 DEF Next

(* An eviction pass retires nothing while its own write's row is gone
   (_settle_to_cap spares keep_hash), other passes and an archive aside. *)
THEOREM PassesLeaveACopy == Spec => EvictionLeavesACopy
<1>1. ASSUME IInv, Next
      PROVE  \A t \in Thread :
               pc[t] = "evicting" /\ pc'[t] = "removing" /\ t \notin crossed => ent[t] \in rows'
  <2> SUFFICES ASSUME NEW t \in Thread, pc[t] = "evicting", pc'[t] = "removing", t \notin crossed
               PROVE  ent[t] \in rows'
    OBVIOUS
  <2>1. PICK v \in Entry : Retire(t, v)
    BY <1>1, OnlyRetireRemoves
  <2>2. v # ent[t]
    BY <2>1 DEF Retire, Spared
  <2>3. ent[t] \in rows
    BY <1>1 DEF IInv, InstalledStays, Settled
  <2> QED BY <2>1, <2>2, <2>3 DEF Retire
<1> QED BY <1>1, SpecIInv, PTL DEF Spec, EvictionLeavesACopy

(* A walk nothing overlaps leaves no directory without a row and no blob that
   no row names (reconcile_store's two settles), after a kill or not. *)
THEOREM QuietWalkReclaims == Spec => WalkReclaims
<1>1. ASSUME IInv, quiet, SettleBlobs({})
      PROVE  dirs' \subseteq rows' /\ blobs' \subseteq Named(rows')
  <2>1. /\ \A t \in Thread : pc[t] = "idle"
        /\ dirs \subseteq rows /\ batch = blobs \ Referenced
    BY <1>1 DEF IInv, QuietWalk, SettleBlobs
  <2>2. ClaimedBlobs = {}
    BY <2>1, IdleClaimsNothing
  <2>3. Referenced \subseteq Named(rows)
    BY NamedMonotone DEF Referenced
  <2>4. FreshBlobs \subseteq Referenced
    BY DEF FreshBlobs
  <2>5. blobs' \subseteq Referenced
    BY <1>1, <2>1, <2>2, <2>4 DEF SettleBlobs
  <2>6. Named(rows') = Named(rows)
    BY <1>1 DEF SettleBlobs, Named
  <2> QED BY <1>1, <2>1, <2>3, <2>5, <2>6 DEF SettleBlobs
<1> QED BY <1>1, SpecIInv, PTL DEF Spec, WalkReclaims
=============================================================================
