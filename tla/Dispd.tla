------------------------------- MODULE Dispd -------------------------------
(***************************************************************************)
(* dispd: the uevent parser and dispatcher (uevent.c), the DVI bootstrap   *)
(* (dvi_detection.c) and the framework command reader (cmd_dispatch.c),    *)
(* driving the display state of DispState.                                 *)
(*                                                                         *)
(* One thread serves both sockets.  A uevent datagram and a read of the    *)
(* framework stream are each handled whole, in whatever order they become  *)
(* readable.  The hardware (a cable, other devices sending uevents) and    *)
(* the framework (writing commands) run concurrently with it.              *)
(***************************************************************************)
EXTENDS Integers, Sequences, SequencesExt, DispState

CONSTANTS
  Boards,        \* the hardware dispd may run on (records, see BoardType)
  OtherEvents,   \* uevents of other devices that may arrive
  MaxPlugs,      \* bound on cable plugs and unplugs
  MaxOthers,     \* bound on other devices' uevents
  MaxCmds        \* bound on commands the framework writes

\* A board: whether the mxc_ddc (DVI) and sii902x (HDMI) devices exist, so
\* that their fb_name and cable_state files do, and whether the secondary
\* framebuffer's name differs from fb0's; and which driver reports the
\* cable: mxc_ddc, sii902x, or the dvi_det switch.
BoardType == [ddc : BOOLEAN, sii : BOOLEAN, differ : BOOLEAN,
              plug : {"ddc", "sii", "switch"}]

ASSUME Boards \subseteq BoardType
ASSUME OtherEvents \subseteq {"h2w", "battery", "switch_add"}
ASSUME {MaxPlugs, MaxOthers, MaxCmds} \subseteq Nat

NULL == "NULL"
DdcPath    == "/devices/platform/mxc_ddc.0"
SiiPath    == "/devices/platform/sii902x.0"
DviDetPath == "/devices/virtual/switch/dvi_det"

(***************************************************************************)
(* Datagrams.  A line is its key (the text before '=') and its value; the  *)
(* first line is "action@devpath", kept as key "@".  The parser compares   *)
(* keys with strncmp on a prefix, which over these keys is equality.       *)
(***************************************************************************)
Line(k, v) == [key |-> k, val |-> v]

Kernel(path, action, subsys, params) ==
  <<Line("@", path), Line("ACTION", action), Line("DEVPATH", path),
    Line("SUBSYSTEM", subsys)>> \o params \o <<Line("SEQNUM", "1")>>

\* What the cable's driver sends on a plug (TRUE) or an unplug.
PlugDatagram(b, plugged) ==
  CASE b.plug = "ddc" ->
         Kernel(DdcPath, "change", "platform",
                <<Line("EVENT", IF plugged THEN "plugin" ELSE "plugout")>>)
    [] b.plug = "sii" ->
         Kernel(SiiPath, "change", "platform",
                <<Line("EVENT", IF plugged THEN "plugin" ELSE "plugout")>>)
    [] b.plug = "switch" ->
         Kernel(DviDetPath, "change", "switch",
                <<Line("SWITCH_NAME", "dvi_det"),
                  Line("SWITCH_STATE", IF plugged THEN "online" ELSE "offline")>>)

\* Other devices: the headset switch changing state, a battery update, and
\* a switch device being added (its add uevent has no SWITCH_NAME/STATE).
OtherDatagram(o) ==
  CASE o = "h2w" ->
         Kernel("/devices/virtual/switch/h2w", "change", "switch",
                <<Line("SWITCH_NAME", "h2w"), Line("SWITCH_STATE", "1")>>)
    [] o = "battery" ->
         Kernel("/devices/platform/battery", "change", "power_supply",
                <<Line("POWER_SUPPLY_CAPACITY", "50")>>)
    [] o = "switch_add" ->
         Kernel("/devices/virtual/switch/hdmi", "add", "switch", <<>>)

\* process_uevent_message's loop: the first line gives the path, ACTION
\* and SEQNUM lines are consumed (no handler reads them), SUBSYSTEM sets
\* the subsystem, and every other line becomes the next param[].
ParseLine(ev, l) ==
  IF l.key \in {"ACTION", "SEQNUM"} THEN ev
  ELSE IF l.key = "SUBSYSTEM" THEN [ev EXCEPT !.subsystem = l.val]
  ELSE [ev EXCEPT !.param = Append(@, l)]

process_uevent_message(d) ==
  FoldLeft(ParseLine, [path |-> d[1].val, subsystem |-> NULL, param |-> <<>>],
           Tail(d))

\* Mutant: the pointer returned one byte early, at the '='.
get_uevent_param_AtEquals(ev, name) ==
  LET i == SelectInSeq(ev.param, LAMBDA p : p.key = name)
  IN IF i = 0 THEN NULL ELSE "=" \o ev.param[i].val

\* get_uevent_param(): the value of the first param named name, or NULL.
get_uevent_param(ev, name) ==
  LET i == SelectInSeq(ev.param, LAMBDA p : p.key = name)
  IN IF i = 0 THEN NULL ELSE ev.param[i].val

(***************************************************************************)
(* Handlers.  A handler yields the set of its possible outcomes: the       *)
(* display state after it, and whether dispd crashed (a NULL passed to     *)
(* strcmp or to a stdio call).                                             *)
(***************************************************************************)
Ok(s)    == [disp |-> s, crash |-> FALSE]
Crash(s) == [disp |-> s, crash |-> TRUE]
NeedCrash == -1

(* needDisplaySwitch(): 1 when the secondary framebuffer (mxc_ddc's, else *)
(* sii902x's fb_name) differs from fb0.  With neither file, fclose(NULL)  *)
(* is undefined: it crashes, or returns and the result is 0.              *)
needDisplaySwitch(b) ==
  IF ~b.ddc /\ ~b.sii THEN {NeedCrash, 0}
  ELSE IF b.differ THEN {1} ELSE {0}

\* The common tail of the handlers: switch only when needed, on `on`.
SwitchTo(s, n, state, on) ==
  IF n = NeedCrash \/ (n = 1 /\ state = NULL) THEN Crash(s)
  ELSE IF n = 0 THEN Ok(s)
  ELSE Ok(dispmgr_connected_set(s, state = on))

(* handle_switch_event(): strcmp(name, "dvi_det") first, then the switch  *)
(* need, then strcmp(state, "online").                                    *)
handle_switch_event(s, ev, b) ==
  LET name  == get_uevent_param(ev, "SWITCH_NAME")
      state == get_uevent_param(ev, "SWITCH_STATE")
  IN IF name = NULL THEN {Crash(s)}
     ELSE IF name # "dvi_det" THEN {Ok(s)}
     ELSE {SwitchTo(s, n, state, "online") : n \in needDisplaySwitch(b)}

\* handle_dvi_event(): the switch need, then strcmp(EVENT, "plugin").
handle_dvi_event(s, ev, b) ==
  LET state == get_uevent_param(ev, "EVENT")
  IN {SwitchTo(s, n, state, "plugin") : n \in needDisplaySwitch(b)}

\* handle_sii9022_event(): the same code for the HDMI transmitter.
handle_sii9022_event(s, ev, b) ==
  LET state == get_uevent_param(ev, "EVENT")
  IN {SwitchTo(s, n, state, "plugin") : n \in needDisplaySwitch(b)}

DispatchTable ==
  <<[subsystem |-> "switch",  devpath |-> NULL,    h |-> "switch"],
    [subsystem |-> "mxc_ddc", devpath |-> DdcPath, h |-> "dvi"],
    [subsystem |-> "sii902x", devpath |-> SiiPath, h |-> "sii"]>>

Handle(h, s, ev, b) ==
  CASE h = "switch" -> handle_switch_event(s, ev, b)
    [] h = "dvi"    -> handle_dvi_event(s, ev, b)
    [] h = "sii"    -> handle_sii9022_event(s, ev, b)

(* dispatch_uevent(): the table is scanned in order.  An entry handles   *)
(* the event when its devpath equals the event's path or, failing that,  *)
(* its subsystem equals the event's; the subsystem test is a strcmp that *)
(* crashes on a NULL subsystem.  No entry: nothing happens.              *)
PathMatch(t, ev) == t.devpath # NULL /\ t.devpath = ev.path

Decides(t, ev) == PathMatch(t, ev) \/ ev.subsystem = NULL
                    \/ t.subsystem = ev.subsystem

dispatch_uevent(s, ev, b) ==
  LET i == SelectInSeq(DispatchTable, LAMBDA t : Decides(t, ev))
  IN IF i = 0 THEN {Ok(s)}
     ELSE IF ~PathMatch(DispatchTable[i], ev) /\ ev.subsystem = NULL
       THEN {Crash(s)}
     ELSE Handle(DispatchTable[i].h, s, ev, b)

\* simulate_uevent() with a valid action: the event built from arguments.
simulate_uevent(subsys, path, params) ==
  [path |-> path, subsystem |-> subsys, param |-> params]

(* dvi_detection_bootstrap(): without mxc_ddc's cable_state it returns an *)
(* error; else it simulates an mxc_ddc add carrying EVENT=<cable_state>.  *)
dvi_detection_bootstrap(s, b, plugged) ==
  IF ~b.ddc THEN {Ok(s)}
  ELSE dispatch_uevent(s, simulate_uevent("mxc_ddc", DdcPath,
                         <<Line("EVENT", IF plugged THEN "plugin" ELSE "plugout")>>), b)

(***************************************************************************)
(* Framework commands.  The framework writes NUL-terminated commands into  *)
(* a stream socket; a pending command is its name and the bytes of it not  *)
(* yet read (the NUL included).                                            *)
(***************************************************************************)
Cmds == {"enable_display", "disable_display", "send_display_status"}
CmdLen == [c \in Cmds |-> CASE c = "enable_display"      -> 14
                            [] c = "disable_display"     -> 15
                            [] c = "send_display_status" -> 19]
BufSize == 100   \* read(socket, buffer, sizeof(buffer) - 1) with buffer[101]

Whole(it) == it.len = CmdLen[it.c] + 1

(* dispatch_cmd(): the first table entry that is a prefix of the string   *)
(* runs.  A fragment (the tail of a command whose head an earlier read    *)
(* took) starts with no command name, so it runs nothing.                 *)
(* do_set_disp_enable() enables only on an exact "enable_display".        *)
dispatch_cmd(s, it) ==
  IF ~Whole(it) THEN s
  ELSE CASE it.c = "enable_display"      -> dispmgr_enable_disp(s, TRUE)
         [] it.c = "disable_display"     -> dispmgr_enable_disp(s, FALSE)
         [] it.c = "send_display_status" -> disp_send_status(s)

(* One read(): up to BufSize bytes off the front of the stream.  Every    *)
(* string whose NUL falls inside them is dispatched; the bytes after the  *)
(* last NUL are dropped (the loop only dispatches at a NUL), so a command *)
(* the read cuts in two loses its head here and its tail in the next.     *)
RECURSIVE ReadFrom(_, _, _)
ReadFrom(q, room, got) ==
  IF q = <<>> \/ room = 0 THEN [got |-> got, rest |-> q]
  ELSE IF Head(q).len <= room
         THEN ReadFrom(Tail(q), room - Head(q).len, Append(got, Head(q)))
       ELSE [got |-> got, rest |-> <<[Head(q) EXCEPT !.len = @ - room]>> \o Tail(q)]

process_framework_command(s, q) ==
  LET r == ReadFrom(q, BufSize, <<>>)
  IN [disp |-> FoldLeft(dispatch_cmd, s, r.got), rest |-> r.rest,
      done |-> [i \in 1..Len(SelectSeq(r.got, Whole)) |->
                  SelectSeq(r.got, Whole)[i].c]]

(***************************************************************************)
(* The system.                                                             *)
(***************************************************************************)
VARIABLES
  board,     \* the hardware (fixed)
  cable,     \* the display cable is plugged
  booted,    \* dvi_detection_bootstrap has run
  crashed,   \* dispd has crashed
  disp,      \* the DispState record
  uq,        \* datagrams queued on the uevent socket
  cq,        \* bytes queued on the framework socket, as pending commands
  plugs, others,
  written,   \* history: the commands the framework wrote
  executed   \* history: the commands dispatch_cmd ran

vars == <<board, cable, booted, crashed, disp, uq, cq, plugs, others,
          written, executed>>

Init ==
  /\ board \in Boards
  /\ cable \in BOOLEAN
  /\ booted = FALSE /\ crashed = FALSE
  /\ disp = DispInit
  /\ uq = <<>> /\ cq = <<>>
  /\ plugs = 0 /\ others = 0
  /\ written = <<>> /\ executed = <<>>

\* Apply one outcome of a handler.
Take(o) == /\ disp' = o.disp
           /\ crashed' = o.crash

\* The cable is plugged in or pulled out; its driver sends a uevent.
Plug ==
  /\ plugs < MaxPlugs
  /\ cable' = ~cable
  /\ uq' = Append(uq, PlugDatagram(board, ~cable))
  /\ plugs' = plugs + 1
  /\ UNCHANGED <<board, booted, crashed, disp, cq, others, written, executed>>

\* Another device sends a uevent.
OtherUevent ==
  /\ others < MaxOthers
  /\ \E o \in OtherEvents : uq' = Append(uq, OtherDatagram(o))
  /\ others' = others + 1
  /\ UNCHANGED <<board, cable, booted, crashed, disp, cq, plugs, written, executed>>

\* The framework writes one command.
FrameworkWrite ==
  /\ Len(written) < MaxCmds
  /\ \E c \in Cmds : /\ cq' = Append(cq, [c |-> c, len |-> CmdLen[c] + 1])
                     /\ written' = Append(written, c)
  /\ UNCHANGED <<board, cable, booted, crashed, disp, uq, plugs, others, executed>>

\* Start-up: dvi_detection_bootstrap reads the cable state.
Bootstrap ==
  /\ ~booted
  /\ booted' = TRUE
  /\ \E o \in dvi_detection_bootstrap(disp, board, cable) : Take(o)
  /\ UNCHANGED <<board, cable, uq, cq, plugs, others, written, executed>>

\* The uevent socket is readable: process_uevent_message.
HandleUevent ==
  /\ booted /\ ~crashed /\ uq # <<>>
  /\ \E ev \in {process_uevent_message(Head(uq))} :
       \E o \in dispatch_uevent(disp, ev, board) : Take(o)
  /\ uq' = Tail(uq)
  /\ UNCHANGED <<board, cable, booted, cq, plugs, others, written, executed>>

\* The framework socket is readable: process_framework_command.
HandleCommand ==
  /\ booted /\ ~crashed /\ cq # <<>>
  /\ \E r \in {process_framework_command(disp, cq)} :
        /\ disp' = r.disp
        /\ cq' = r.rest
        /\ executed' = executed \o r.done
  /\ UNCHANGED <<board, cable, booted, crashed, uq, plugs, others, written>>

Next == Plug \/ OtherUevent \/ FrameworkWrite \/ Bootstrap \/ HandleUevent
          \/ HandleCommand

\* dispd's loop serves both sockets whenever they are readable.
Fairness == WF_vars(Bootstrap) /\ WF_vars(HandleUevent) /\ WF_vars(HandleCommand)

Spec == Init /\ [][Next]_vars /\ Fairness

(***************************************************************************)
(* Properties.                                                             *)
(***************************************************************************)
TypeOK ==
  /\ board \in BoardType /\ cable \in BOOLEAN
  /\ booted \in BOOLEAN /\ crashed \in BOOLEAN
  /\ disp.disp_connected \in BOOLEAN /\ disp.disp_enabled \in BOOLEAN
  /\ disp.prop \in {"unset", "0", "1"} /\ disp.sent \in Seq(Msgs)
  /\ \A i \in 1..Len(cq) : cq[i].c \in Cmds /\ cq[i].len \in 1..CmdLen[cq[i].c] + 1
  /\ plugs \in 0..MaxPlugs /\ others \in 0..MaxOthers

\* The last message of a kind the framework has been sent, or "none".
LastOf(kind) ==
  LET i == SelectLastInSeq(disp.sent, LAMBDA m : m \in kind)
  IN IF i = 0 THEN "none" ELSE disp.sent[i]

ConnKind    == {"disp_connected", "disp_disconnected"}
EnabledKind == {"disp_enabled", "disp_disabled"}

(* What the framework last heard is what dispd holds: disp_connected_set  *)
(* and disp_enabled_set announce every change they make and nothing they  *)
(* refuse, and the implied disable of an unplug is announced too.         *)
FrameworkViewCurrent ==
  /\ LastOf(ConnKind) \in {"none", ConnMsg(disp.disp_connected)}
  /\ LastOf(EnabledKind) \in {"none", EnabledMsg(disp.disp_enabled)}

(* Read in order, the messages never show the framework an enabled        *)
(* display that is disconnected: disp_connected_set(false) sends          *)
(* "disp_disabled" before "disp_disconnected", and disp_enabled_set       *)
(* refuses to enable while disconnected.                                  *)
FrameworkViewOrdered ==
  LET Hear(v, m) == LET w == IF m \in ConnKind THEN [v EXCEPT !.conn = m]
                                               ELSE [v EXCEPT !.en = m]
                    IN [w EXCEPT !.ok = @ /\ (w.en = "disp_enabled"
                                               => w.conn = "disp_connected")]
  IN FoldLeft(Hear, [conn |-> "none", en |-> "none", ok |-> TRUE], disp.sent).ok

(* On a board that needs the switch and has the DVI cable_state file,     *)
(* dispd's disp_connected follows the cable: the bootstrap reads the      *)
(* state at start-up and every plug uevent is handled.                    *)
ConnectedFollowsCable ==
  (board.ddc /\ board.differ) =>
    \A c \in BOOLEAN : (cable = c) ~> (disp.disp_connected = c \/ cable # c)

(* dispd never dereferences NULL: no uevent crashes it.                   *)
NoCrash == ~crashed

(* Every command the framework writes is run, in order: what dispd has    *)
(* run, followed by what is still queued, is what the framework wrote.    *)
CommandsNotLost ==
  written = executed \o [i \in 1..Len(cq) |-> cq[i].c]

=============================================================================
