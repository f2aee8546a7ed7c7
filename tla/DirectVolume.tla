--------------------------- MODULE DirectVolume ---------------------------
(***************************************************************************)
(* The vold DirectVolume of src/vold/DirectVolume.cpp: one whole-disk      *)
(* volume (mPartIdx = -1) that tracks its disk's major/minor, the minors   *)
(* of its partitions and a pending-partition bitmap from kernel block      *)
(* uevents, and drives mState from them.                                   *)
(*                                                                         *)
(* Three actors interleave:                                                *)
(*  - the kernel, which inserts, removes and rescans the medium and queues *)
(*    the block uevents that describe it (environment);                    *)
(*  - the netlink thread, which runs DirectVolume::handleBlockEvent on one *)
(*    queued event at a time, each handler to completion;                  *)
(*  - the framework command thread, which runs Volume::mountVol,           *)
(*    unmountVol and formatVol (Volume.cpp is not under src/: those steps  *)
(*    are modelled from the spec) and reads and writes the same mState.    *)
(***************************************************************************)
EXTENDS Integers, Sequences, SequencesExt, FiniteSets, Bitwise

CONSTANTS
  MAX_PARTITIONS,   \* size of mPartMinors[] (DirectVolume.h)
  MAX_PARTS,        \* size of the deviceNodes[] array mountVol passes
  DiskMajor,        \* the major number the kernel gives this slot
  KernelPartCounts, \* partition counts a medium may have
  NpartsChoices,    \* whether the kernel's disk uevent carries NPARTS
  SizeChoices,      \* sysfs size of an inserted disk: 0 = empty reader
  MaxInsertions,    \* bound on physical insertions
  MaxRescans,       \* bound on rescans plus partition attribute changes
  MaxShares,        \* bound on this volume's share requests
  MaxOtherShares,   \* bound on another volume's share requests
  LunWriteMayFail   \* whether write() to a lun file may fail (EBUSY)

ASSUME MAX_PARTITIONS \in Nat \ {0} /\ MAX_PARTS \in Nat \ {0}
ASSUME KernelPartCounts \subseteq Nat /\ NpartsChoices \subseteq BOOLEAN
ASSUME SizeChoices \subseteq Nat
ASSUME MaxShares \in Nat /\ MaxOtherShares \in Nat /\ LunWriteMayFail \in BOOLEAN

NoParam == -1            \* findParam() returned NULL
Uninit  == -2            \* an element of deviceNodes[] nobody wrote
EmptyLun == -3           \* a lun file with no backing file
OtherLun == -4           \* a lun file holding another volume's node
Luns == 0..2             \* usb_mass_storage/lun0..lun2/file

States == {"NoMedia", "Idle", "Pending", "Checking", "Mounted",
           "Formatting", "Shared"}

VARIABLES
  mState,                \* Volume::mState
  mDiskMajor, mDiskMinor,
  mDiskNumParts,
  mPartMinors,           \* [1..MAX_PARTITIONS -> Int]: index = part_num
  mPendingPartMap,
  mInsertBroadCasted,
  mCurrentlyMountedKdev, \* Volume::mCurrentlyMountedKdev, -1 = none
  outOfBounds,           \* mPartMinors[] was written past its end (UB)
  cmd,                   \* command thread: [pc, nodes, node]
  bcast,                 \* history: broadcasts sent to the framework
  kdisk,                 \* kernel: the medium in the slot
  queue,                 \* kernel: block uevents not yet handled
  insertions, rescans,   \* kernel: insertions; rescans and attribute changes
  lun,                   \* [Luns -> dev_t | EmptyLun | OtherLun]
  shareLun,              \* history: the lun our last share wrote, or -1
  shares,                \* this volume's share requests so far
  otherShared,           \* the other volume is Shared
  otherShares            \* the other volume's share requests so far

voldVars == <<mState, mDiskMajor, mDiskMinor, mDiskNumParts, mPartMinors,
              mPendingPartMap, mInsertBroadCasted, mCurrentlyMountedKdev,
              outOfBounds>>
kernVars == <<kdisk, queue, insertions, rescans>>
usbVars  == <<lun, shareLun, shares, otherShared, otherShares>>
vars == <<voldVars, cmd, bcast, kernVars, usbVars>>

(* linux/kdev_t.h MKDEV(ma,mi) = ((ma)<<8 | (mi)); a minor of -1 sets     *)
(* every bit, giving the same value as the -1 "none" sentinel.            *)
MKDEV(ma, mi) == IF ma < 0 \/ mi < 0 THEN -1 ELSE ma * 256 + mi

Event == [action : {"add", "remove", "change"},
          devtype : {"disk", "partition"}, minor : Nat,
          nparts : Nat \cup {NoParam}, partn : Nat \cup {NoParam}]

-----------------------------------------------------------------------------
(* Kernel (environment).                                                   *)

DiskEv(a, n, np) == [action |-> a, devtype |-> "disk", minor |-> 0,
                     nparts |-> IF np THEN n ELSE NoParam, partn |-> NoParam]
PartEv(a, i) == [action |-> a, devtype |-> "partition", minor |-> i,
                 nparts |-> NoParam, partn |-> i]
PartEvs(a, n) == [i \in 1..n |-> PartEv(a, i)]

\* A medium is inserted: the disk uevent, then one per partition.
KInsert ==
  /\ ~kdisk.present /\ insertions < MaxInsertions
  /\ \E k \in KernelPartCounts, np \in NpartsChoices, sz \in SizeChoices :
       LET n == IF sz = 0 THEN 0 ELSE k   \* an empty reader has no partitions
       IN /\ kdisk' = [present |-> TRUE, parts |-> n, nparts |-> np, size |-> sz]
          /\ queue' = queue \o <<DiskEv("add", n, np)>> \o PartEvs("add", n)
  /\ insertions' = insertions + 1
  /\ UNCHANGED <<voldVars, cmd, bcast, usbVars, rescans>>

\* The medium is pulled: partitions go first, then the disk.
KRemove ==
  /\ kdisk.present
  /\ kdisk' = [kdisk EXCEPT !.present = FALSE]
  /\ queue' = queue \o PartEvs("remove", kdisk.parts)
                    \o <<DiskEv("remove", kdisk.parts, kdisk.nparts)>>
  /\ UNCHANGED <<voldVars, cmd, bcast, usbVars, insertions, rescans>>

\* The partition table is re-read (or media appears in a reader): a disk
\* change, the old partitions removed, the new ones added.
KRescan ==
  /\ kdisk.present /\ rescans < MaxRescans
  /\ \E n \in KernelPartCounts :
       /\ kdisk' = [kdisk EXCEPT !.parts = n, !.size = 1]
       /\ queue' = queue \o <<DiskEv("change", n, kdisk.nparts)>>
                         \o PartEvs("remove", kdisk.parts) \o PartEvs("add", n)
  /\ rescans' = rescans + 1
  /\ UNCHANGED <<voldVars, cmd, bcast, usbVars, insertions>>

\* An attribute of a present partition changes (e.g. its read-only flag).
KPartitionChange ==
  /\ kdisk.present /\ rescans < MaxRescans
  /\ \E i \in 1..kdisk.parts : queue' = Append(queue, PartEv("change", i))
  /\ rescans' = rescans + 1
  /\ UNCHANGED <<voldVars, cmd, bcast, usbVars, kdisk, insertions>>

\* The sysfs node of an event's device exists now only if the device does.
SysfsExists(e) == kdisk.present /\ (e.devtype = "disk" \/ e.minor <= kdisk.parts)
SysfsSize(e) == IF e.devtype = "disk" THEN kdisk.size ELSE 1

-----------------------------------------------------------------------------
(* The netlink thread: DirectVolume's handlers.                            *)

Broadcast(code) == bcast' = Append(bcast, code)

(* handleDiskChanged's loop: partmask |= (1 << i) for i in 1..n.          *)
DiskChangedMask(n) ==
  LET f[i \in 0..n] == IF i = 0 THEN 0 ELSE f[i - 1] | 2^i IN f[n]
(* handleDiskAdded's loop: partmask = (partmask << 1), from 0.            *)
DiskAddedMask(n) ==
  LET f[i \in 0..n] == IF i = 0 THEN 0 ELSE 2 * f[i - 1] IN f[n]

(* handlePartitionAdded: mPendingPartMap = (mPendingPartMap >> 1).        *)
ClearPendingBitDecrement(m) == m - 1
ClearPendingBit(m) == m \div 2

NumPartsOf(e) == IF e.nparts = NoParam THEN 1 ELSE e.nparts

(* Without NPARTS the disk is announced at once; with it, the broadcast   *)
(* waits for the first partition uevent.                                  *)
DiskInsertedOnDiskAdd(e) ==
  IF e.nparts = NoParam
    THEN Broadcast("DiskInserted") /\ mInsertBroadCasted' = TRUE
    ELSE UNCHANGED bcast /\ mInsertBroadCasted' = FALSE

(* The first partition uevent of an insertion announces the disk.         *)
DiskInsertedOnPartitionAdd ==
  IF ~mInsertBroadCasted THEN Broadcast("DiskInserted") /\ mInsertBroadCasted' = TRUE
                         ELSE UNCHANGED <<bcast, mInsertBroadCasted>>

handleDiskAdded(e) ==
  /\ mDiskMajor' = DiskMajor /\ mDiskMinor' = e.minor
  /\ mDiskNumParts' = NumPartsOf(e)
  /\ mPendingPartMap' = DiskAddedMask(NumPartsOf(e))
  /\ mState' = IF NumPartsOf(e) = 0 THEN "Idle" ELSE "Pending"
  /\ DiskInsertedOnDiskAdd(e)
  /\ UNCHANGED <<mPartMinors, mCurrentlyMountedKdev, outOfBounds>>

handlePartitionAdded(e) ==
  LET part_num == IF e.partn = NoParam THEN 1 ELSE e.partn
      pending  == ClearPendingBit(mPendingPartMap)
  IN
  /\ mDiskNumParts' = IF part_num > mDiskNumParts THEN part_num
                                                   ELSE mDiskNumParts
  /\ IF DiskMajor # mDiskMajor
       THEN UNCHANGED <<mPartMinors, mPendingPartMap, mInsertBroadCasted,
                        mState, bcast, outOfBounds>>
       ELSE
       /\ IF part_num \in 1..MAX_PARTITIONS
            THEN mPartMinors' = [mPartMinors EXCEPT ![part_num] = e.minor]
                 /\ UNCHANGED outOfBounds
            ELSE outOfBounds' = TRUE /\ UNCHANGED mPartMinors
       /\ mPendingPartMap' = pending
       /\ DiskInsertedOnPartitionAdd
       /\ mState' = IF pending = 0 /\ mState \notin {"Formatting", "Checking"}
                      THEN "Idle" ELSE mState
  /\ UNCHANGED <<mDiskMajor, mDiskMinor, mCurrentlyMountedKdev>>

handleDiskChanged(e) ==
  IF DiskMajor # mDiskMajor \/ e.minor # mDiskMinor
    THEN UNCHANGED <<voldVars, bcast>>
    ELSE
    /\ mDiskNumParts' = NumPartsOf(e)
    /\ mPendingPartMap' = DiskChangedMask(NumPartsOf(e))
    /\ mState' = CASE mState = "Formatting" -> mState
                   [] NumPartsOf(e) = 0      -> "Idle"
                   [] OTHER                  -> "Pending"
    /\ UNCHANGED <<mDiskMajor, mDiskMinor, mPartMinors, mInsertBroadCasted,
                   mCurrentlyMountedKdev, outOfBounds, bcast>>

handleDiskRemoved(e) ==
  /\ Broadcast("DiskRemoved")
  /\ mInsertBroadCasted' = FALSE
  /\ mState' = "NoMedia"
  /\ UNCHANGED <<mDiskMajor, mDiskMinor, mDiskNumParts, mPartMinors,
                 mPendingPartMap, mCurrentlyMountedKdev, outOfBounds>>

(* Volume::unmountVol(force): success -> Idle and the kdev cleared;       *)
(* failure (busy) -> back to Mounted.  Modelled from the spec.            *)
UnmountOutcome ==
  \/ mState' = "Idle" /\ mCurrentlyMountedKdev' = -1
  \/ mState' = "Mounted" /\ UNCHANGED mCurrentlyMountedKdev

(* (dev_t) MKDEV(major, minor) == mCurrentlyMountedKdev                   *)
IsMountedPartition(e) == MKDEV(DiskMajor, e.minor) = mCurrentlyMountedKdev

handlePartitionRemoved(e) ==
  IF mState # "Mounted" \/ ~IsMountedPartition(e)
    THEN UNCHANGED <<voldVars, bcast>>
    ELSE
    /\ Broadcast("BadRemoval")
    /\ UnmountOutcome
    /\ UNCHANGED <<mDiskMajor, mDiskMinor, mDiskNumParts, mPartMinors,
                   mPendingPartMap, mInsertBroadCasted, outOfBounds>>

(* handleBlockEvent: the size probe first (a device whose sysfs size      *)
(* reads <= 0 is dropped; a missing sysfs node is not), then dispatch on  *)
(* action and DEVTYPE.  handlePartitionChanged only logs.                 *)
SizeProbeDrops(e) == SysfsExists(e) /\ SysfsSize(e) <= 0

handleBlockEvent(e) ==
  IF SizeProbeDrops(e) THEN UNCHANGED <<voldVars, bcast>>
  ELSE CASE e.action = "add"    /\ e.devtype = "disk" -> handleDiskAdded(e)
         [] e.action = "add"    -> handlePartitionAdded(e)
         [] e.action = "remove" /\ e.devtype = "disk" -> handleDiskRemoved(e)
         [] e.action = "remove" -> handlePartitionRemoved(e)
         [] e.action = "change" /\ e.devtype = "disk" -> handleDiskChanged(e)
         [] OTHER               -> UNCHANGED <<voldVars, bcast>>

Deliver ==
  /\ queue # <<>>
  /\ handleBlockEvent(Head(queue))
  /\ queue' = Tail(queue)
  /\ UNCHANGED <<cmd, kdisk, insertions, rescans, usbVars>>

-----------------------------------------------------------------------------
(* The command thread: Volume::mountVol / unmountVol / formatVol.          *)

(* getDeviceNodes(devs, max) for mPartIdx == -1: the disk itself when     *)
(* mDiskNumParts is 0, else mDiskNumParts nodes of which only the first   *)
(* max are written; the count returned is mDiskNumParts regardless.       *)
getDeviceNodes(max) ==
  IF mDiskNumParts = 0 THEN <<MKDEV(mDiskMajor, mDiskMinor)>>
  ELSE [i \in 1..mDiskNumParts |->
          IF i > max \/ i > MAX_PARTITIONS THEN Uninit
          ELSE MKDEV(mDiskMajor, mPartMinors[i])]

\* A vold node opens only if a live block device is behind it.
NodeLive(d) ==
  /\ kdisk.present /\ kdisk.size > 0 /\ d >= 0
  /\ d \div 256 = DiskMajor /\ d % 256 <= kdisk.parts

MountBegin ==
  /\ cmd.pc = "none" /\ mState = "Idle"
  /\ cmd' = [pc |-> "checking", nodes |-> getDeviceNodes(MAX_PARTS), node |-> -1]
  /\ mState' = "Checking"
  /\ UNCHANGED <<mDiskMajor, mDiskMinor, mDiskNumParts, mPartMinors,
                 mPendingPartMap, mInsertBroadCasted, mCurrentlyMountedKdev,
                 outOfBounds, bcast, kernVars, usbVars>>

(* Fat::check of the nodes in order: the first k-1 are "not FAT" and are  *)
(* skipped; node k is clean and mount(2) succeeds, or its check fails     *)
(* hard; or every node was skipped.  A dead node always fails hard.       *)
MountCheck ==
  /\ cmd.pc = "checking"
  /\ \E k \in 1..Len(cmd.nodes) + 1 :
       /\ \A j \in 1..k-1 : NodeLive(cmd.nodes[j])
       /\ \/ /\ k <= Len(cmd.nodes) /\ NodeLive(cmd.nodes[k])
             /\ cmd' = [cmd EXCEPT !.pc = "mounting", !.node = cmd.nodes[k]]
             /\ UNCHANGED mState
          \/ /\ cmd' = [cmd EXCEPT !.pc = "none"]
             /\ mState' = "Idle"
  /\ UNCHANGED <<mDiskMajor, mDiskMinor, mDiskNumParts, mPartMinors,
                 mPendingPartMap, mInsertBroadCasted, mCurrentlyMountedKdev,
                 outOfBounds, bcast, kernVars, usbVars>>

\* mount(2) returned: setState(Mounted), whatever the state is now.
MountPublish ==
  /\ cmd.pc = "mounting"
  /\ mState' = "Mounted" /\ mCurrentlyMountedKdev' = cmd.node
  /\ cmd' = [cmd EXCEPT !.pc = "none"]
  /\ UNCHANGED <<mDiskMajor, mDiskMinor, mDiskNumParts, mPartMinors,
                 mPendingPartMap, mInsertBroadCasted, outOfBounds, bcast,
                 kernVars, usbVars>>

Unmount ==
  /\ cmd.pc = "none" /\ mState = "Mounted"
  /\ UnmountOutcome
  /\ UNCHANGED <<mDiskMajor, mDiskMinor, mDiskNumParts, mPartMinors,
                 mPendingPartMap, mInsertBroadCasted, outOfBounds, cmd, bcast,
                 kernVars, usbVars>>

FormatBegin ==
  /\ cmd.pc = "none" /\ mState = "Idle"
  /\ cmd' = [cmd EXCEPT !.pc = "formatting"]
  /\ mState' = "Formatting"
  /\ UNCHANGED <<mDiskMajor, mDiskMinor, mDiskNumParts, mPartMinors,
                 mPendingPartMap, mInsertBroadCasted, mCurrentlyMountedKdev,
                 outOfBounds, bcast, kernVars, usbVars>>

FormatEnd ==
  /\ cmd.pc = "formatting"
  /\ cmd' = [cmd EXCEPT !.pc = "none"]
  /\ mState' = "Idle"
  /\ UNCHANGED <<mDiskMajor, mDiskMinor, mDiskNumParts, mPartMinors,
                 mPendingPartMap, mInsertBroadCasted, mCurrentlyMountedKdev,
                 outOfBounds, bcast, kernVars, usbVars>>

-----------------------------------------------------------------------------
(* The share coordinator: DirectVolume::handleVolumeShared/Unshared, run  *)
(* on the command thread by VolumeManager::shareVolume/unshareVolume when *)
(* the volume is Idle/Shared (that guard is VolumeManager's, from the     *)
(* spec).  Another volume runs the same code over the same lun files.     *)

(* read(fd, buff, 10); !strcmp(buff, "/dev/block"): every node vold       *)
(* writes starts with /dev/block, so any backing file counts.             *)
LunOccupied(c) == c # EmptyLun

(* lun0 if free, else lun1 if free, else lun2, which is never probed.     *)
ShareLun == IF ~LunOccupied(lun[0]) THEN 0
            ELSE IF ~LunOccupied(lun[1]) THEN 1 ELSE 2

(* Write nodepath to the chosen lun; a failed write is only logged.       *)
WriteLun(d) ==
  /\ shareLun' = ShareLun
  /\ \/ lun' = [lun EXCEPT ![ShareLun] = d]
     \/ LunWriteMayFail /\ UNCHANGED lun

(* Fat::check of each device node in order: "not FAT" (ENODATA) skips to  *)
(* the next, any other failure aborts with the state unchanged, a clean   *)
(* node is d.  If every node is skipped, d stays NULL and "0:0" is        *)
(* exported.  A dead node cannot be skipped: its check fails hard.        *)
handleVolumeShared ==
  /\ cmd.pc = "none" /\ mState = "Idle" /\ shares < MaxShares
  /\ shares' = shares + 1
  /\ LET nodes == getDeviceNodes(MAX_PARTS) IN
     \E k \in 1..Len(nodes) + 1 :
       /\ \A j \in 1..k-1 : NodeLive(nodes[j])
       /\ \/ /\ k <= Len(nodes)
             /\ UNCHANGED <<mState, lun, shareLun>>
          \/ /\ k <= Len(nodes) => NodeLive(nodes[k])
             /\ WriteLun(IF k <= Len(nodes) THEN nodes[k] ELSE MKDEV(0, 0))
             /\ mState' = "Shared"
  /\ UNCHANGED <<mDiskMajor, mDiskMinor, mDiskNumParts, mPartMinors,
                 mPendingPartMap, mInsertBroadCasted, mCurrentlyMountedKdev,
                 outOfBounds, cmd, bcast, kernVars, otherShared, otherShares>>

\* The lun files are left as they are.
handleVolumeUnshared ==
  /\ cmd.pc = "none" /\ mState = "Shared"
  /\ mState' = "Idle"
  /\ UNCHANGED <<mDiskMajor, mDiskMinor, mDiskNumParts, mPartMinors,
                 mPendingPartMap, mInsertBroadCasted, mCurrentlyMountedKdev,
                 outOfBounds, cmd, bcast, kernVars, usbVars>>

\* The other volume (environment) shares with the same probe, or unshares.
OtherShare ==
  /\ ~otherShared /\ otherShares < MaxOtherShares
  /\ lun' = [lun EXCEPT ![ShareLun] = OtherLun]
  /\ otherShared' = TRUE /\ otherShares' = otherShares + 1
  /\ UNCHANGED <<voldVars, cmd, bcast, kernVars, shareLun, shares>>

OtherUnshare ==
  /\ otherShared /\ otherShared' = FALSE
  /\ UNCHANGED <<voldVars, cmd, bcast, kernVars, lun, shareLun, shares,
                 otherShares>>

-----------------------------------------------------------------------------

(* The DirectVolume constructor and Volume's: NoMedia, nothing tracked.   *)
Init ==
  /\ mState = "NoMedia"
  /\ mDiskMajor = -1 /\ mDiskMinor = -1 /\ mDiskNumParts = 0
  /\ mPartMinors = [i \in 1..MAX_PARTITIONS |-> -1]
  /\ mPendingPartMap = 0 /\ mInsertBroadCasted = FALSE
  /\ mCurrentlyMountedKdev = -1 /\ outOfBounds = FALSE
  /\ cmd = [pc |-> "none", nodes |-> <<>>, node |-> -1]
  /\ bcast = <<>>
  /\ kdisk = [present |-> FALSE, parts |-> 0, nparts |-> TRUE, size |-> 1]
  /\ queue = <<>> /\ insertions = 0 /\ rescans = 0
  /\ lun = [l \in Luns |-> EmptyLun] /\ shareLun = -1 /\ shares = 0
  /\ otherShared = FALSE /\ otherShares = 0

Kernel  == KInsert \/ KRemove \/ KRescan \/ KPartitionChange
Command == MountBegin \/ MountCheck \/ MountPublish \/ Unmount
           \/ FormatBegin \/ FormatEnd

Share == handleVolumeShared \/ handleVolumeUnshared \/ OtherShare \/ OtherUnshare

Next == Kernel \/ Deliver \/ Command \/ Share

(* The netlink thread always reads the next uevent, and a started mount   *)
(* or format runs to its end; user commands and the kernel need not act.  *)
Fairness == WF_vars(Deliver) /\ WF_vars(MountCheck) /\ WF_vars(MountPublish)
            /\ WF_vars(FormatEnd)

Spec == Init /\ [][Next]_vars /\ Fairness

-----------------------------------------------------------------------------
(* Properties.                                                             *)

TypeOK ==
  /\ mState \in States
  /\ mDiskMajor \in {-1, DiskMajor} /\ mDiskMinor \in {-1, 0}
  /\ mDiskNumParts \in Nat
  /\ mPartMinors \in [1..MAX_PARTITIONS -> {-1} \cup Nat]
  /\ mPendingPartMap \in Nat /\ mInsertBroadCasted \in BOOLEAN
  /\ mCurrentlyMountedKdev \in Int /\ outOfBounds \in BOOLEAN
  /\ cmd.pc \in {"none", "checking", "mounting", "formatting"}
  /\ bcast \in Seq({"DiskInserted", "DiskRemoved", "BadRemoval"})
  /\ queue \in Seq(Event)
  /\ lun \in [Luns -> Int] /\ shareLun \in {-1} \cup Luns
  /\ shares \in Nat /\ otherShared \in BOOLEAN /\ otherShares \in Nat

QueuedDiskRemove == \E i \in 1..Len(queue) :
                      queue[i].action = "remove" /\ queue[i].devtype = "disk"

StateMatchesMedia ==
  mState # "NoMedia" => (kdisk.present \/ QueuedDiskRemove)

\* The lun a Shared volume's export sits in, or -1.
InUse(l) == \/ otherShared /\ lun[l] = OtherLun
            \/ mState = "Shared" /\ l = shareLun

(* No share, of this volume or the other, overwrites a lun that a volume  *)
(* which is still Shared is exported through (spec 4.3: an occupied slot  *)
(* makes the coordinator advance).                                        *)
NoExportClobbered ==
  [][ \A l \in Luns : InUse(l) => lun'[l] = lun[l] ]_vars

(* A Mounted volume becomes Idle only by an unmount, which releases       *)
(* mCurrentlyMountedKdev; no uevent handler silently forgets the mount.   *)
LeavesMountedOnlyByUnmount ==
  [][ (mState = "Mounted" /\ mState' = "Idle") => mCurrentlyMountedKdev' = -1 ]_vars

=============================================================================
