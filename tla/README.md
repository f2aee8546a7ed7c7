# TLA+ models of onyx-intl/platform_system

This directory holds TLA+ models of the platform daemons under `src/`. TLC
checks them. The spec (`spec.md`) names the vold volume lifecycle as the core
of the system. The display daemon (dispd), netd's soft-AP controller, the
touchscreen calibrator and the Atheros ART serial agent are modelled too.

## Inventory

| Component | Source | State | Operations | Interacts with |
|---|---|---|---|---|
| vold DirectVolume: topology tracker and state machine | `src/vold/DirectVolume.cpp` | `mState`, `mDiskMajor/Minor`, `mDiskNumParts`, `mPartMinors[]`, `mPendingPartMap`, `mInsertBroadCasted`, `mCurrentlyMountedKdev` (from Volume) | `handleBlockEvent` (size probe, dispatch), `handleDiskAdded/Changed/Removed`, `handlePartitionAdded/Changed/Removed`, `getDeviceNodes` | The kernel, through netlink block uevents. The framework, through broadcasts. The command thread (`Volume::mountVol/unmountVol/formatVol`), which reads and writes the same `mState` |
| vold share coordinator | `src/vold/DirectVolume.cpp` 79-173 | The USB mass-storage lun files `lun0..lun2/file` | `handleVolumeShared`, `handleVolumeUnshared` | Fat::check, the lun files (also written by other volumes), `mState` |
| dispd uevent parser and dispatch | `src/dispd/uevent.c`, `dvi_detection.c` | One `struct uevent` per datagram | `process_uevent_message`, `simulate_uevent`, `dispatch_uevent`, `get_uevent_param`, the switch, DVI and HDMI handlers, `needDisplaySwitch`, `dvi_detection_bootstrap` | sysfs, the display manager |
| dispd display state | `src/dispd/disp.c`, `dispmgr.c`, headers | `disp_connected`, `disp_enabled` | `disp_connected_set`, `disp_enabled_set`, `disp_send_status` | `send_msg` to the framework, system properties |
| dispd command dispatch | `src/dispd/cmd_dispatch.c` | None (it only parses a buffer) | `process_framework_command`, `dispatch_cmd`, `do_set_disp_enable`, `do_send_disp_status` | The display manager |
| netd SoftapController | `src/netd/SoftapController.cpp` | `mPid`, `mSock`, `ctrl_conn`, `mProfileValid`, the hostapd init property | `startDriver`, `stopDriver`, `startSoftap`, `stopSoftap`, `setSoftap`, `fwReloadSoftap`, `wifi_start/stop_hostapd` (polling with a timeout) | init (`ctl.start`/`ctl.stop`), hostapd's control socket |
| Touchscreen calibrator | `src/core/ts_calibrator/ts_calibrator.c` | `tx[3]`, `ty[3]`, `step`, the saved file, the driver parameter | `main`, `check_conf`, `get_input`, `do_calibration`, `save_conf`, `write_conf` | The user, the kernel input core, framebuffer, files |
| ART serial agent | `artserialagent.c/.h` | `line[]`, `pktlen`, `len`, `pos`, `fragsize` | The packet loop of `main`, `com_recv`, `com_send`, `art_htc_raw_write/read` | The ART host on the serial line, the AR6002 through the driver |
| athtestcmd | `athtestcmd.c` | None between runs | Builds one ioctl from argv | The driver |

### What is hard

The vold volume is where the hard behaviour is. Three actors change it, and
their steps interleave:

1. The **kernel** inserts, removes or rescans a medium. It queues the
   matching block uevents: a disk uevent, then one per partition; on removal
   the partitions first, then the disk.
2. The **netlink thread** runs `handleBlockEvent` on one queued uevent at a
   time.
3. The **command thread** runs `mountVol`, `unmountVol` and `formatVol` on
   framework request. It sets `mState` (Checking, Mounted, Idle, Formatting)
   with no lock against the netlink thread. `handlePartitionAdded`'s test for
   `Formatting`/`Checking` shows that the code expects this.

The hard behaviours are these: uevents of an old medium handled after a new
one appears, or out of order; a removal during a file-system check; the
bitmap bookkeeping at the edges (NPARTS absent, 0, or larger than the
arrays); and broadcasts that must happen exactly once per insertion. The
hazards in `PROJECT.json` list each one at the line where it bites.

The correctness properties of each component:

* **DirectVolume**: each insertion is announced to the framework at most
  once (`replug` shows it is not). The state says "media" only while there
  is media (`mount_race`). A Mounted volume leaves Mounted only by an unmount
  (`remount`). Each insertion is also announced at least once, and a Pending
  volume leaves Pending; these fail along paths the project lists as hazards
  without a run.
* **Share coordinator**: Shared means a lun exports this volume's live
  partition. Another volume's export is never overwritten. A volume is
  exported on at most one lun.
* **dispd**: the framework learns every state change, in an order in which
  an enabled display is never connected-off. The last connected/disconnected
  and enabled/disabled messages sent agree with the state. The connection
  state follows the cable. No uevent crashes the daemon. No command is lost.
* **SoftapController**: a hostapd the controller counts as started serves
  the file on disk, unless the framework was told -1. A hostapd that the
  controller does not count as started is eventually stopped (`untracked`
  shows it is not).
* **Touchscreen calibrator**: each cross's sample is where the finger was
  lifted. The calibration written to the driver maps each touch onto its
  cross. The calibration finishes once the third touch is lifted.

## Modules

### `DirectVolume.tla` (with `MCDirectVolume.tla`)

How the model's state corresponds to the code:

* The variables named `m...` are DirectVolume's members under their own
  names. `mPartMinors` is indexed by `part_num` (the code indexes it by
  `part_num - 1`).
* `outOfBounds` records the undefined behaviour of writing `mPartMinors` out
  of range.
* `bcast` is a history variable: the broadcasts the framework has been sent.
* `cmd` is the command thread's program counter.
* `kdisk`, `queue`, `insertions` and `rescans` are the kernel.

How the actions correspond to the code:

* `Deliver` runs `handleBlockEvent` on the uevent at the head of the queue,
  because the netlink socket delivers in order.
  `handleBlockEvent` first applies the size probe, then dispatches to one
  handler operator per C++ handler. Each handler is a whole handler,
  broadcast included.
* `MountBegin`, `MountCheck` and `MountPublish` are `Volume::mountVol`, and
  `Unmount` and `UnmountOutcome` are `unmountVol`. `FormatBegin` and
  `FormatEnd` are `formatVol`. Volume.cpp is not under `src/`, so these are
  modelled from the spec and marked `spec_modelled` in the map.
* `handleVolumeShared` and `handleVolumeUnshared` are the share
  coordinator. `lun[0..2]` holds the content of the three lun files: empty,
  a node of this volume, or `OtherLun` (another volume's export).
  `shareLun` is the lun this volume last wrote. `OtherShare` and
  `OtherUnshare` are a second volume running the same code on the same
  luns. Opening a lun file is assumed to succeed. The `write()` may fail
  when `LunWriteMayFail` holds.
* The mask loops are translated literally, `DiskAddedMask` and
  `DiskChangedMask`. `MKDEV` of an unset major or minor (-1) is -1, which
  differs from C's `(-1 << 8) | minor`. Nothing compares such a value with a
  real device.

Fairness: weak fairness on `Deliver`, because the netlink thread blocks on
the socket and handles every uevent. Weak fairness also on `MountCheck`,
`MountPublish` and `FormatEnd`, because a started command runs to its end.
Kernel events and user commands get no fairness. Deadlock is not checked
(`CHECK_DEADLOCK FALSE`): the daemon blocks in `recv` forever once the
bounded kernel has nothing more to say.

Bounds (`MCDirectVolume`, cfgs): `MAX_PARTITIONS = MAX_PARTS = 2` (4 in
vold), major 179, at most 2 insertions and 1 rescan, and 0-2 partitions.
`all_media` allows one share of this volume
and one of another volume, with write failures. `lun_clobber` uses enough
shares to fill the three luns. `replug` has only unpartitioned media,
empty or not, inserted twice (60 states). The bugs all show at 1-2 partitions and one
insertion; the second insertion exercises the state left over from the
first.

### `DispState.tla` and `Dispd.tla` (with `MCDispd.tla`)

dispd has three parts. The uevent side parses a kernel datagram and
dispatches it to a display handler. The command side reads the framework's
NUL-terminated commands. Both call the display state in `disp.c`. It tells
the framework every change through `send_msg`.

* `DispState` holds `disp_connected`, `disp_enabled`, the property
  `rw.SECOND_DISPLAY_CONNECTED` and `sent`, the messages sent. It is a
  record. Each C function of `disp.c` and `dispmgr.c` is an operator from a
  record to a record. A handler that calls several of them is their
  composition.
* `Dispd` has these parts:
  * The datagrams are sequences of key/value lines.
  * `process_uevent_message` is a fold of `ParseLine` over them.
  * `dispatch_uevent` scans `DispatchTable` in order. An entry matches when
    its devpath equals the event's path, or else when its subsystem matches;
    the subsystem test is a `strcmp` that crashes on a NULL subsystem.
  * Each handler returns the set of its possible outcomes `[disp, crash]`.
  * `needDisplaySwitch` reads the boards' framebuffer names. On a board with
    neither secondary display it calls `fclose(NULL)`, which is undefined
    behaviour, so it either crashes or returns 0.
  * The board (`Boards`) is chosen at Init.
* Framework commands are items of a byte stream: a name and the number of
  its bytes not yet read. `process_framework_command` takes at most
  `BufSize = 100` bytes (`ReadFrom`). It dispatches every item whose NUL is
  inside them. The part of a command cut by the read is dropped, and the
  remainder reaches the next read without its name.
* Actions:
  * `Plug`, `OtherUevent` and `FrameworkWrite` are the cable's driver,
    other drivers and the framework.
  * `Bootstrap` is `dvi_detection_bootstrap` at start-up.
  * `HandleUevent` and `HandleCommand` are one pass of dispd's loop on
    either socket.

`dispd.c`, with the main loop and `send_msg`, is not in this tree. The
model assumes what its callers show: a single-threaded loop that serves
whichever socket is readable, and a `send_msg` that delivers. Fairness is
weak fairness on `Bootstrap`, `HandleUevent` and `HandleCommand`. Cable
plugs, other uevents and commands get none.

Bounds:

* `dispd` runs all four boards, 2 plugs, 1 other uevent (`h2w` or
  `battery`) and 3 commands (92,000 states).
* Three commands fit one read, so `dispd` never splits one. The split
  needs more than 100 bytes queued, about six commands. `CommandsNotLost`
  states that no command is lost, and its hazard in `PROJECT.json` says why
  no run checks it.
* `switch_add` adds the `switch_add` datagram on the dvi_det board.

### `SoftapController.tla`

This module covers netd's soft-AP controller, ATH_SDK build, and the two
processes it drives.

* Netd's state is `mPid`, `mSock`, `ctrl_conn` and `mProfileValid`.
* `pc`, `count` and `serial0` record where a call waits in a polling loop,
  how many polls are left, and the property serial it noted.
* `cfgFile` is the version of `hostapd.conf` on disk: absent, the template,
  or the k-th `setSoftap`.
* The init process is `prop` (`init.svc.hostapd`), its `serial` and
  `ctlq`, the queue of `ctl.start` and `ctl.stop` requests it has not
  handled.
* Hostapd is `alive`, `sockReady` (its control socket exists) and `loaded`
  (the config version it read).

The actions:

* `startDriver`, `startSoftap`, `stopSoftap` and `setSoftap` are the
  framework's calls.
* `StartPoll` and `StopPoll` are one iteration each of
  `wifi_start_hostapd`'s and `wifi_stop_hostapd`'s loops. `MaxPolls`
  stands for 200 and 50 iterations.
* `Connect` is `wifi_connect_to_hostapd` after the `usleep(100000)`, with
  the rest of `startSoftap`.
* `InitCtl`, `HostapdReady` and `HostapdExit` are init and hostapd. They
  are modelled from how init and hostapd behave, since neither is in this
  tree.

netd serves one command at a time. Fairness is weak fairness on the
controller's own steps, on init's handling of its queue, on hostapd opening
its socket, and on the exit of a hostapd that has no config. The framework
gets no fairness, and neither does a crash.

`wpa_ctrl_reload` is not in this tree. `wifi_load_profile` returns the set
of its outcomes: the value returned and the file hostapd serves afterwards.
Without a connection, or with hostapd gone or not listening, the reload
fails. A hostapd that gets the request may re-read the file and answer OK.
It may also answer FAIL and keep the old file, or answer too late after
re-reading it. `lastSetRet` is a history variable: what the last `setSoftap`
returned.

Bounds: `softap` uses 3 polls, 6 calls and 2 config writes, with the
constructor's socket working or not. This covers a timeout with a queued
`ctl.start`, a second start, a stop and a rewrite. `HostapdMayCrash` is
off in `softap`: after a crash the code keeps a dead `ctrl_conn` and
reports every reload as -1, with no recovery claimed. It is listed as a
hazard.

### `TsCalibrator.tla` (with `MCTsCalibrator.tla`)

The calibrator runs once at boot. `main` reads `ro.calibration`, then calls
`check_conf`. That applies `/data/system/calibration` through `write_conf`
if the file parses as seven ints. Otherwise `main` opens the framebuffer and
finds the touchscreen; each step can fail and end the program. It then runs
`do_calibration`: for each of three crosses, `get_input` reads until a touch
is released; then the seven values are solved, saved and written.

* The calibrator's state:
  * `pc` and `tgt` (the cross being sampled);
  * `tx` and `ty`, the `int` locals that `get_input` writes through
    pointers. They start as the model value `Uninit`.
  * `step`;
  * `conf`, the file, and `driver`, the sysfs parameter.
* The user touches near the drawn cross, once (`Press`). They may move once
  (`Move`) and then lift the finger (`Release`). `TouchAt[i]` is the raw
  points the panel may report near cross `i`. `truth` records the point of
  lift-off.
* The kernel input core queues events in `evq`. It passes an ABS event only
  when the value differs from the last one (`lastX`, `lastY`).
* `Read` is one `read()`, which returns any non-empty prefix of the queue.
  `get_input` is a `FoldLeft` of `HandleEvent` over that batch, with the
  `EV_SYN` case falling through into the `EV_KEY` test as in the C. A SYN
  after the release returns, and the rest of the batch is dropped. After the
  third cross, `do_calibration`, `save_conf` and `write_conf` run in the
  same step, as they do in the code. A read of an `Uninit` local is a choice
  from `UninitValues`.
* The build's `int` is 32 bits, and so are TLC's integers. An overflow in
  the arithmetic stops TLC with an error, so a completed run shows that no
  intermediate overflowed. The driver's mapping is `test_calibration`'s
  formula, with C's truncating division (`CDiv`).

Fairness: weak fairness on `Read`, because `get_input` blocks in `read()`
and wakes on queued events, and on `Release`, because a user who touched
lifts the finger. Touching gets none.

Bounds:

* `calibrate` uses an 800x480 screen and two raw points per cross, with no
  shared coordinate, so the input core drops no event. `GetInputReturnsTouch`
  is claimed for such touches only. It also covers the three kinds of saved file and I/O
  failures (913 states).
* `suppressed` gives the second cross a point with the raw x of the first.

### `ArtSerialAgent.tla` (with `MCArtSerialAgent.tla`)

The agent is built with `ART_PORT_COM` (`#if 1`), so the TCP functions are
compiled out. `main` checks its arguments, opens the raw HTC pipe and the
serial port, and validates `fragsize`. It then loops:

1. Read a 4-byte length and a body from the host.
2. End on a disconnect or close command (`line[2]`).
3. Write the body to the device in fragments, advancing by what each write
   returned.
4. Read the device's 4-byte reply length and body, and send both to the
   host.

* The state is `main`'s (`pc`, `fragsize`, `line`, `pktlen`, `len`, `pos`),
  plus:
  * `rx` and `tx`, the serial line in each direction;
  * `devIn` and `devOut`, the bytes the device accepted and the reply bytes
    the driver holds;
  * the histories `sent`, `written`, `replies` and `relayed`.
* `com_recv` loops until it has the bytes it asked for, so a read of n
  bytes is one step once n bytes have arrived. `line[]` keeps what earlier
  reads left in it, so the close test sees stale bytes after a short body.
* `HostSend` and `DeviceReply` are the other actors. The device answers a
  command once all of it has been written.

Fairness: weak fairness on the agent's loop, which blocks only in reads, and
on the device's reply. The host gets none.

Bounds: `relay` has 3 packets, `LineSize` 8 and `fragsize` 4 (or 6, which
is rejected). With short writes, a six-byte command takes two to six writes
(2,057 states). Left out: the driver's short reply read (lines 652-656),
because the driver is not in this tree; a failing raw write, which spins the
loop; and oversized lengths. These are hazards in `PROJECT.json`.

### Runs

| Run | Expect | What it shows |
|---|---|---|
| `all_media` | pass | Every medium kind (0-2 partitions, NPARTS or not, empty readers, a rescan or attribute change), two insertions, commands racing the uevents, shares with another volume and failing lun writes. The type invariant holds over all of it (6 million states). |
| `replug` | violation | An empty reader is plugged in again before the old disk's remove uevent is handled. The size probe reads the new size-0 node and drops the remove, and the next add announces the disk a second time. |
| `mount_race` | violation | A removal during the fsck leaves the volume Idle on an empty slot. |
| `lun_clobber` | violation | When lun0 and lun1 are occupied, lun2 is written without a probe, and another volume's live export is overwritten. |
| `remount` | violation | `handleDiskAdded`'s mask is always 0, so a two-partition disk is Idle after its first partition and can be mounted. The second partition's uevent then resets the Mounted volume to Idle. |
| `dispd` | pass | Plugs, other uevents, commands and the bootstrap in any order, on four boards. The framework's last messages match the state, no message order shows an enabled display while disconnected, and the connection follows the cable. |
| `switch_add` | violation | A switch uevent without `SWITCH_NAME` (a switch device being added) crashes dispd in `strcmp(NULL)`. |
| `calibrate` | pass | Any batching of the input events, any saved file, failing I/O. `get_input` returns the lift-off point, the driver's calibration maps each touch onto its cross, and the calibration finishes. |
| `suppressed` | violation | A touch at the raw x of the previous one: the input core drops the ABS_X event, `tx[1]` stays uninitialized, and the saved calibration is garbage. |
| `relay` | pass | Three host packets (empty, short, two fragments, disconnect), raw writes that take any part of a fragment, start-up failures, a bad fragsize. The device gets exactly the command bodies in order, the host gets each reply framed once in order, and every command is answered unless the agent exited. |
| `softap` | pass | Timeouts, early connects, stale `ctl.start` requests, config rewrites, and reloads that are applied, rejected or answered late. A hostapd counted as started serves the file on disk unless the last `setSoftap` returned -1 (28,000 states). |
| `untracked` | violation | `startSoftap` returns -1 after its `ctl.start` started hostapd. In TLC's trace, the connect comes before hostapd's control socket; a start-poll timeout or a failed reload leads to the same state. `mPid` stays 0, and `stopSoftap` says "already stopped" while that hostapd runs on. |

Several DirectVolume paths are reached by `all_media` but no run reports
them:

* A PARTN above MAX_PARTITIONS is recorded in `outOfBounds`.
* A disk with NPARTS=0, or a dropped size-0 add, is never announced.
* After a rescan the pending mask never clears, so the volume stays Pending.
* A share exports node 0:0 when no partition passes `Fat::check`.

`PROJECT.json` lists each of them as a hazard, with a note. SoftapController
has one more: a failed reload in `startSoftap` leaves `ctrl_conn` open with
`mPid` 0, and the next `startSoftap` leaks it.

Unshare leaves this volume's node in the lun file, as spec 4.3 says it
should, so the next share exports the volume on a second lun. The spec
accepts this, so no run reports it; `PROJECT.json` lists it as a hazard.

## Plan

1. **An abstract volume lifecycle** (`VolumeLifecycle.tla`): the state table
   of spec 4.2 as an abstract machine. `DirectVolume` would refine it under
   `INSTANCE ... WITH` in a sequential configuration.
2. **SoftapController, non-ATH build**: `addParam`'s bound as a pure
   operator, if `SoftapController.h`'s `mBuf` size becomes available.
3. Violations found while modelling that have no run yet:
   * a DirectVolume disk with NPARTS=0 is never announced;
   * the volume is stuck in Pending after a rescan;
   * the softap connection leaks after a failed reload;
   * dispd loses the command cut at the 100-byte read boundary
     (`CommandsNotLost`).

   Each is a hazard in `PROJECT.json`, and each needs only a property and a
   cfg that reaches its path.

## Not modelled

* The statement-level interleaving inside one DirectVolume handler (the
  handlers are atomic).
* Device-node creation failures, which are only logged.
* `cleanupAsec`, which has no effect on the modelled state.
* Netlink actions other than add, remove and change.
* The uevent string parsing in NetlinkEvent, which is not under `src/`.
* dispd: malformed datagrams (only the kernel writes the uevent socket),
  `send_msg` failures and the main loop (`dispd.c` is not in this tree),
  and command strings other than the three the framework sends.
* SoftapController: the non-ATH ioctl paths and `getPrivFuncNum`, which
  need `SoftapController.h` and the driver. `stopDriver` and
  `fwReloadSoftap` change no state in the ATH_SDK build.
* Touchscreen calibrator: `draw_cross` and `log_write`, which only write
  pixels and log lines. Collinear touches and 12-bit raw values, which would
  divide by zero or overflow; these are listed as hazards.
* athtestcmd. It is a one-shot command-line tool: `main` parses argv into
  one `TCMD_*` structure and issues one ioctl. Its validators (`freqValid`,
  `rateValid`, `pktSzValid` and the rest) are functions of a single
  argument. Nothing runs concurrently, and no state persists between runs.
* The ART serial agent's `ART_PORT_SOCKET` build (compiled out), `daemon()`
  (never called) and `art_print_buf` (printing only).
* An abstract specification with a refinement. A DisplayLink abstraction of dispd would restate
  the two guards of `disp.c` that `FrameworkViewOrdered` and
  `FrameworkViewCurrent` already check, so it is not kept. Plan item 1 is
  the candidate.
