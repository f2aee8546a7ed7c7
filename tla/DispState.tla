----------------------------- MODULE DispState -----------------------------
(***************************************************************************)
(* dispd's display state: disp.c and the dispmgr.c wrappers around it.     *)
(*                                                                         *)
(* The two statics disp_connected and disp_enabled, the system property    *)
(* rw.SECOND_DISPLAY_CONNECTED and the messages send_msg() has sent to the *)
(* framework are one record.  Every C function is an operator from a       *)
(* record to the record after the call, so that a handler that calls      *)
(* several of them (a uevent handler, a batch of framework commands) is    *)
(* their composition, and Dispd.tla applies it in one step.                *)
(***************************************************************************)
EXTENDS Sequences

\* The four DISPD_EVT_* strings of disp.h.
Msgs == {"disp_connected", "disp_disconnected", "disp_enabled", "disp_disabled"}

\* The statics at program start; the property has not been set yet.
DispInit == [disp_connected |-> FALSE, disp_enabled |-> FALSE,
             prop |-> "unset", sent |-> <<>>]

\* send_msg(): the message reaches the framework (dispd.c, which holds the
\* socket, is not part of this tree).
send_msg(s, m) == [s EXCEPT !.sent = Append(@, m)]

ConnMsg(b)   == IF b THEN "disp_connected" ELSE "disp_disconnected"
EnabledMsg(b) == IF b THEN "disp_enabled" ELSE "disp_disabled"

\* Mutant: the property written as "true"/"false".
disp_connected_set_WordProp(s, enabled) ==
  LET s1 == [s EXCEPT !.disp_connected = enabled]
      s2 == IF ~enabled /\ s1.disp_enabled
              THEN send_msg([s1 EXCEPT !.disp_enabled = FALSE], "disp_disabled")
              ELSE s1
  IN send_msg([s2 EXCEPT !.prop = IF enabled THEN "true" ELSE "false"],
              ConnMsg(enabled))

\* Mutant: the connection message sent before the implied disable.
disp_connected_set_NotifyFirst(s, enabled) ==
  LET s1 == send_msg([s EXCEPT !.disp_connected = enabled,
                               !.prop = IF enabled THEN "1" ELSE "0"],
                     ConnMsg(enabled))
  IN IF ~enabled /\ s1.disp_enabled
       THEN send_msg([s1 EXCEPT !.disp_enabled = FALSE], "disp_disabled")
       ELSE s1

(* disp_connected_set(): a disconnection also disables an enabled display *)
(* and says so first; then the property and the connection message.       *)
disp_connected_set(s, enabled) ==
  LET s1 == [s EXCEPT !.disp_connected = enabled]
      s2 == IF ~enabled /\ s1.disp_enabled
              THEN send_msg([s1 EXCEPT !.disp_enabled = FALSE], "disp_disabled")
              ELSE s1
  IN send_msg([s2 EXCEPT !.prop = IF enabled THEN "1" ELSE "0"],
              ConnMsg(enabled))

\* Mutant: the message sent before the connection check.
disp_enabled_set_NotifyFirst(s, enabled) ==
  LET s1 == send_msg(s, EnabledMsg(enabled))
  IN IF enabled /\ ~s.disp_connected THEN s1
     ELSE [s1 EXCEPT !.disp_enabled = enabled]

(* disp_enabled_set(): enabling a display that is not connected fails     *)
(* (-1) and changes nothing; otherwise the state is set and announced.    *)
disp_enabled_set(s, enabled) ==
  IF enabled /\ ~s.disp_connected THEN s
  ELSE send_msg([s EXCEPT !.disp_enabled = enabled], EnabledMsg(enabled))

\* disp_send_status(): the connection message, then the enabled message.
disp_send_status(s) ==
  send_msg(send_msg(s, ConnMsg(s.disp_connected)), EnabledMsg(s.disp_enabled))

\* dispmgr.c: plain wrappers.
dispmgr_enable_disp(s, enabled) == disp_enabled_set(s, enabled)
dispmgr_connected_set(s, enabled) == disp_connected_set(s, enabled)
=============================================================================
