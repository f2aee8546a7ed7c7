-------------------------- MODULE SoftapController --------------------------
(***************************************************************************)
(* netd's SoftapController, ATH_SDK build (SoftapController.cpp), with the *)
(* two processes it drives: init, which starts and stops the hostapd       *)
(* service on "ctl.start"/"ctl.stop" and publishes init.svc.hostapd, and  *)
(* hostapd itself, which reads the config file when it starts, opens its   *)
(* control socket some time later and re-reads the file on a reload.      *)
(*                                                                         *)
(* The framework calls the controller one command at a time.  A call that *)
(* only computes is one step; the two calls that wait on init              *)
(* (wifi_start_hostapd's and wifi_stop_hostapd's polling loops) are a      *)
(* step that sends the request and then one step per poll, so that init   *)
(* and hostapd move between the polls, as they do during the usleep().    *)
(***************************************************************************)
EXTENDS Integers, Sequences

CONSTANTS
  MaxPolls,         \* iterations of either polling loop (200 and 50 in the code)
  MaxCalls,         \* framework calls explored
  MaxConfigs,       \* setSoftap() config files written
  SockChoices,      \* whether socket() in the constructor succeeded
  HostapdMayCrash   \* whether hostapd may exit on its own

NULL   == "NULL"
Absent == -1        \* no HOSTAPD_CONFIG_FILE; 0 is the template copy

VARIABLES
  mPid, mSock, ctrl_conn, mProfileValid,   \* the controller
  pc, count, serial0,                      \* where a waiting call is
  cfgFile,                                 \* version of the config file on disk
  prop, serial, ctlq,                      \* init: init.svc.hostapd and its queue
  alive, sockReady, loaded,                \* hostapd
  calls, lastRet,
  lastSetRet                               \* history: what the last setSoftap() returned

ctl  == <<mPid, mSock, ctrl_conn, mProfileValid, pc, count, serial0>>
env  == <<prop, serial, ctlq, alive, sockReady, loaded>>
vars == <<ctl, cfgFile, env, calls, lastRet, lastSetRet>>

\* The constructor: mPid 0, the datagram socket, no profile, no connection.
Init ==
  /\ mPid = 0 /\ mSock \in SockChoices /\ ctrl_conn = NULL /\ mProfileValid = 0
  /\ pc = "idle" /\ count = 0 /\ serial0 = 0
  /\ cfgFile \in {Absent, 0}
  /\ prop = "none" /\ serial = 0 /\ ctlq = <<>>
  /\ alive = FALSE /\ sockReady = FALSE /\ loaded = Absent
  /\ calls = 0 /\ lastRet = 0 /\ lastSetRet = 0

\* A framework call: the controller is idle and the bound is not reached.
Call == pc = "idle" /\ calls < MaxCalls /\ calls' = calls + 1

\* The call returns r to the framework.
Return(r) == pc' = "idle" /\ lastRet' = r

(***************************************************************************)
(* startDriver(): ensure_config_file_exists() copies the template when the *)
(* file is absent; the copy may fail and is then unlinked.                 *)
(***************************************************************************)
ensure_config_file_exists ==
  IF cfgFile # Absent THEN {[file |-> cfgFile, r |-> 0]}
  ELSE {[file |-> 0, r |-> 0], [file |-> Absent, r |-> -1]}

startDriver ==
  /\ Call
  /\ IF ~mSock THEN Return(-1) /\ UNCHANGED cfgFile
     ELSE \E e \in ensure_config_file_exists : cfgFile' = e.file /\ Return(e.r)
  /\ UNCHANGED <<ctl, env, lastSetRet>>

(***************************************************************************)
(* wifi_load_profile(started): a reload over ctrl_conn when the softap is  *)
(* started and a profile was written, else 0.  The outcomes are records    *)
(* of the value returned and the file hostapd serves afterwards.           *)
(* wpa_ctrl_reload() is not in this tree: without a connection, or with a  *)
(* hostapd that is gone or not listening yet, it fails; a hostapd that     *)
(* gets the request may re-read the file and answer OK, answer FAIL and   *)
(* keep the old one, or answer too late, after re-reading it.              *)
(***************************************************************************)
wifi_load_profile(started, conn, valid, file) ==
  LET ok   == [r |-> 0, loaded |-> file]
      fail == [r |-> -1, loaded |-> loaded]
  IN CASE ~(started /\ valid = 1)               -> {[r |-> 0, loaded |-> loaded]}
       [] conn = NULL \/ ~alive \/ ~sockReady -> {fail}
       [] OTHER                                -> {ok, fail, [ok EXCEPT !.r = -1]}

(***************************************************************************)
(* startSoftap(), first part: "Softap already started" when mPid is set;   *)
(* wifi_start_hostapd() returns at once when init.svc.hostapd is already   *)
(* "running", otherwise it notes the property's serial (0 when it does not *)
(* exist yet), sends ctl.start and polls.                                  *)
(***************************************************************************)
startSoftap ==
  /\ Call
  /\ CASE mPid # 0 -> Return(0) /\ UNCHANGED <<pc, count, serial0, ctlq>>
       [] ~mSock   -> Return(-1) /\ UNCHANGED <<pc, count, serial0, ctlq>>
       [] prop = "running" ->
            pc' = "connect" /\ UNCHANGED <<count, serial0, ctlq, lastRet>>
       [] OTHER ->
            /\ serial0' = serial /\ ctlq' = Append(ctlq, "start")
            /\ pc' = "start_wait" /\ count' = MaxPolls
            /\ UNCHANGED lastRet
  /\ UNCHANGED <<mPid, mSock, ctrl_conn, mProfileValid, cfgFile,
                 prop, serial, alive, sockReady, loaded, lastSetRet>>

(* One iteration of wifi_start_hostapd()'s loop: "running" ends the wait,  *)
(* "stopped" under a new serial is a start that failed, and the last       *)
(* iteration gives up; a failure returns -1 from startSoftap().            *)
StartPoll ==
  /\ pc = "start_wait"
  /\ CASE prop = "running" -> pc' = "connect" /\ UNCHANGED <<count, lastRet>>
       [] prop = "stopped" /\ serial # serial0 -> Return(-1) /\ UNCHANGED count
       [] count > 1 -> count' = count - 1 /\ UNCHANGED <<pc, lastRet>>
       [] OTHER -> Return(-1) /\ count' = 0
  /\ UNCHANGED <<mPid, mSock, ctrl_conn, mProfileValid, serial0, cfgFile, env, calls, lastSetRet>>

(***************************************************************************)
(* startSoftap(), after the usleep(100000): wifi_connect_to_hostapd()      *)
(* needs "running" and hostapd's control socket (wpa_ctrl_open and        *)
(* wpa_ctrl_attach; a failed attach closes the connection again); then    *)
(* wifi_load_profile(true); mPid is set only when all of it succeeded.     *)
(***************************************************************************)
Connect ==
  /\ pc = "connect"
  /\ LET conn == IF prop = "running" /\ alive /\ sockReady THEN "open" ELSE NULL
         outs == IF conn = NULL THEN {[r |-> -1, loaded |-> loaded]}
                 ELSE wifi_load_profile(TRUE, conn, mProfileValid, cfgFile)
     IN /\ ctrl_conn' = IF prop = "running" THEN conn ELSE ctrl_conn
        /\ \E o \in outs :
             /\ loaded' = o.loaded
             /\ mPid' = IF o.r = 0 THEN 1 ELSE 0
             /\ Return(o.r)
  /\ UNCHANGED <<mSock, mProfileValid, count, serial0, cfgFile,
                 prop, serial, ctlq, alive, sockReady, calls, lastSetRet>>

(***************************************************************************)
(* stopSoftap(): nothing when mPid is 0; otherwise it closes ctrl_conn and *)
(* wifi_stop_hostapd() returns at once when the property is "stopped",     *)
(* otherwise it sends ctl.stop and polls.  mPid becomes 0 whatever the     *)
(* outcome.                                                                *)
(***************************************************************************)
stopSoftap ==
  /\ Call
  /\ CASE mPid = 0 -> Return(0) /\ UNCHANGED <<mPid, ctrl_conn, count, ctlq>>
       [] ~mSock   -> Return(-1) /\ UNCHANGED <<mPid, ctrl_conn, count, ctlq>>
       [] prop = "stopped" ->
            ctrl_conn' = NULL /\ mPid' = 0 /\ Return(0) /\ UNCHANGED <<count, ctlq>>
       [] OTHER ->
            /\ ctrl_conn' = NULL /\ ctlq' = Append(ctlq, "stop")
            /\ pc' = "stop_wait" /\ count' = MaxPolls
            /\ UNCHANGED <<mPid, lastRet>>
  /\ UNCHANGED <<mSock, mProfileValid, serial0, cfgFile,
                 prop, serial, alive, sockReady, loaded, lastSetRet>>

\* Mutant: the loop bound off by one, one poll more than the counter holds.
StopPoll_OffByOne ==
  /\ pc = "stop_wait"
  /\ CASE prop = "stopped" -> mPid' = 0 /\ Return(0) /\ UNCHANGED count
       [] count >= 0 -> count' = count - 1 /\ UNCHANGED <<mPid, pc, lastRet>>
       [] OTHER -> mPid' = 0 /\ Return(-1) /\ count' = 0
  /\ UNCHANGED <<mSock, ctrl_conn, mProfileValid, serial0, cfgFile, env, calls, lastSetRet>>

\* One iteration of wifi_stop_hostapd()'s loop; its end is stopSoftap's end.
StopPoll ==
  /\ pc = "stop_wait"
  /\ CASE prop = "stopped" -> mPid' = 0 /\ Return(0) /\ UNCHANGED count
       [] count > 1 -> count' = count - 1 /\ UNCHANGED <<mPid, pc, lastRet>>
       [] OTHER -> mPid' = 0 /\ Return(-1) /\ count' = 0
  /\ UNCHANGED <<mSock, ctrl_conn, mProfileValid, serial0, cfgFile, env, calls, lastSetRet>>

(***************************************************************************)
(* setSoftap(): missing arguments or a file that cannot be created return *)
(* -1; otherwise the file is rewritten (a new version), mProfileValid is   *)
(* set and wifi_load_profile(isSoftapStarted()) pushes it to hostapd.     *)
(***************************************************************************)
\* Mutant: the profile loaded before mProfileValid is set.
setSoftap_LoadFirst ==
  /\ Call
  /\ \/ /\ Return(-1) /\ lastSetRet' = -1
        /\ UNCHANGED <<cfgFile, mProfileValid, loaded>>
     \/ /\ mSock /\ cfgFile < MaxConfigs
        /\ cfgFile' = (IF cfgFile = Absent THEN 0 ELSE cfgFile) + 1
        /\ mProfileValid' = 1
        /\ \E o \in wifi_load_profile(mPid # 0, ctrl_conn, mProfileValid, cfgFile') :
             loaded' = o.loaded /\ Return(o.r) /\ lastSetRet' = o.r
  /\ UNCHANGED <<mPid, mSock, ctrl_conn, count, serial0,
                 prop, serial, ctlq, alive, sockReady>>

setSoftap ==
  /\ Call
  /\ \/ /\ Return(-1) /\ lastSetRet' = -1   \* mSock < 0, argc < 4 or open() fails
        /\ UNCHANGED <<cfgFile, mProfileValid, loaded>>
     \/ /\ mSock /\ cfgFile < MaxConfigs
        /\ cfgFile' = (IF cfgFile = Absent THEN 0 ELSE cfgFile) + 1
        /\ mProfileValid' = 1
        /\ \E o \in wifi_load_profile(mPid # 0, ctrl_conn, 1, cfgFile') :
             loaded' = o.loaded /\ Return(o.r) /\ lastSetRet' = o.r
  /\ UNCHANGED <<mPid, mSock, ctrl_conn, count, serial0,
                 prop, serial, ctlq, alive, sockReady>>

(***************************************************************************)
(* init.  ctl.start of a stopped service forks hostapd, which reads the    *)
(* config file, and sets "running"; ctl.stop kills it and sets "stopped"; *)
(* either request for a service already in that state changes nothing.    *)
(* Each change of the property moves its serial.                           *)
(***************************************************************************)
InitCtl ==
  /\ ctlq # <<>>
  /\ ctlq' = Tail(ctlq)
  /\ IF Head(ctlq) = "start" /\ ~alive
       THEN /\ alive' = TRUE /\ sockReady' = FALSE /\ loaded' = cfgFile
            /\ prop' = "running" /\ serial' = serial + 1
     ELSE IF Head(ctlq) = "stop" /\ alive
       THEN /\ alive' = FALSE /\ sockReady' = FALSE
            /\ prop' = "stopped" /\ serial' = serial + 1 /\ UNCHANGED loaded
     ELSE UNCHANGED <<alive, sockReady, loaded, prop, serial>>
  /\ UNCHANGED <<ctl, cfgFile, calls, lastRet, lastSetRet>>

\* hostapd, with a config file, opens its control socket.
HostapdReady ==
  /\ alive /\ ~sockReady /\ loaded # Absent
  /\ sockReady' = TRUE
  /\ UNCHANGED <<ctl, cfgFile, prop, serial, ctlq, alive, loaded, calls, lastRet, lastSetRet>>

\* hostapd exits (at once without a config file); init sets "stopped".
HostapdExit ==
  /\ alive /\ (loaded = Absent \/ HostapdMayCrash)
  /\ alive' = FALSE /\ sockReady' = FALSE
  /\ prop' = "stopped" /\ serial' = serial + 1
  /\ UNCHANGED <<ctl, cfgFile, ctlq, loaded, calls, lastRet, lastSetRet>>

Framework == startDriver \/ startSoftap \/ stopSoftap \/ setSoftap
Controller == StartPoll \/ Connect \/ StopPoll
Environment == InitCtl \/ HostapdReady \/ HostapdExit

Next == Framework \/ Controller \/ Environment

(* The controller's own steps, init, hostapd's start-up and its exit      *)
(* without a config file all happen eventually; the framework need not    *)
(* call again, and a crash need not come.                                  *)
Fairness == /\ WF_vars(Controller) /\ WF_vars(InitCtl) /\ WF_vars(HostapdReady)
            /\ WF_vars(loaded = Absent /\ HostapdExit)

Spec == Init /\ [][Next]_vars /\ Fairness

-----------------------------------------------------------------------------
TypeOK ==
  /\ mPid \in {0, 1} /\ mSock \in BOOLEAN /\ ctrl_conn \in {NULL, "open"}
  /\ mProfileValid \in {0, 1}
  /\ pc \in {"idle", "start_wait", "connect", "stop_wait"}
  /\ count \in 0..MaxPolls /\ serial0 \in Nat
  /\ cfgFile \in {Absent} \cup 0..MaxConfigs
  /\ prop \in {"none", "running", "stopped"} /\ serial \in Nat
  /\ ctlq \in Seq({"start", "stop"})
  /\ alive \in BOOLEAN /\ sockReady \in BOOLEAN /\ loaded \in {Absent} \cup 0..MaxConfigs
  /\ lastRet \in {0, -1} /\ lastSetRet \in {0, -1}

(* A started softap never serves an old configuration silently: when a  *)
(* hostapd the controller counts as started runs another file than the   *)
(* one on disk, the last setSoftap() told the framework -1.  This takes   *)
(* the reload in startSoftap() as well as setSoftap()'s, whatever order   *)
(* the calls, the poll timeouts, hostapd's start and its answers came in. *)
NoSilentStaleConfig ==
  (pc = "idle" /\ mPid # 0 /\ alive /\ loaded # cfgFile) => lastSetRet = -1

=============================================================================
