---------------------------- MODULE TsCalibrator ----------------------------
(***************************************************************************)
(* The touchscreen calibrator (src/core/ts_calibrator/ts_calibrator.c).    *)
(*                                                                         *)
(* main() first tries the saved calibration (check_conf); without one it   *)
(* draws three crosses and, for each, reads the touchscreen's input events *)
(* in get_input() until a touch is released, then solves for the seven    *)
(* calibration values (do_calibration), saves them and writes them to the *)
(* driver.  The user and the kernel's input core are the other actors:    *)
(* the user touches near the cross that is drawn, and the input core      *)
(* queues the events, dropping an ABS event whose value has not changed   *)
(* since the last one it passed.  read() returns any non-empty prefix of   *)
(* the queue.                                                              *)
(***************************************************************************)
EXTENDS Integers, Sequences, SequencesExt

CONSTANTS
  XRes, YRes,      \* info.xres, info.yres from FBIOGET_VSCREENINFO
  TouchAt,         \* TouchAt[i]: the raw points the panel may report near cross i
  ConfChoices,     \* /data/system/calibration at start: the ints it holds (<<>> if absent)
  UninitValues,    \* what a read of an uninitialized int may yield
  IoMayFail,       \* whether open()/ioctl() of the files and devices may fail
  Uninit           \* a model value: an int local that nothing has written

Targets == 1..3
NoPoint == [x |-> -1, y |-> -1]

\* The build's int is 32 bits wide, and so are TLC's integers: an int
\* expression of the code that overflows stops TLC with an overflow error,
\* so the arithmetic below is C's wherever a run completes.

\* C division truncates toward zero; \div floors.
CDiv(a, b) == IF (a >= 0) = (b > 0) THEN a \div b ELSE -((-a) \div b)

\* Input events: EV_ABS with code REL_X/REL_Y (equal to ABS_X/ABS_Y), EV_KEY
\* BTN_TOUCH and EV_SYN SYN_REPORT.
Abs(c, v) == [type |-> "ABS", code |-> c, value |-> v]
Key(v)    == [type |-> "KEY", code |-> "BTN_TOUCH", value |-> v]
Syn       == [type |-> "SYN", code |-> "SYN_REPORT", value |-> 0]

VARIABLES
  conf, driver,            \* the saved file and the driver's parameter (<<>>: unset)
  pc, tgt, tx, ty, step,   \* the calibrator
  evq, lastX, lastY,       \* the input core: queued events, last ABS values
  touching, moved, touched, truth, \* the user
  calibrated

vars == <<conf, driver, pc, tgt, tx, ty, step, evq, lastX, lastY,
          touching, moved, touched, truth, calibrated>>
user == <<touching, moved, touched, truth>>

(***************************************************************************)
(* The expected points of do_calibration().                               *)
(***************************************************************************)
dx == <<XRes \div 4, XRes \div 2, XRes - XRes \div 4>>
dy == <<YRes \div 2, YRes \div 4, YRes - YRes \div 4>>

(***************************************************************************)
(* get_input(): one batch of events from one read().  EV_SYN has no break *)
(* and falls into the EV_KEY test.  A SYN after the release returns; the  *)
(* rest of the batch is not looked at.                                     *)
(***************************************************************************)
\* Mutant: return at the first SYN, the release not awaited.
HandleEventNoStep(st, e) ==
  IF st.ret THEN st
  ELSE IF e.type = "SYN" THEN [st EXCEPT !.ret = TRUE]
  ELSE IF e.type = "KEY" /\ e.code = "BTN_TOUCH" /\ e.value = 0 THEN [st EXCEPT !.step = TRUE]
  ELSE IF e.type = "ABS" /\ e.code = "X" THEN [st EXCEPT !.px = e.value]
  ELSE IF e.type = "ABS" /\ e.code = "Y" THEN [st EXCEPT !.py = e.value]
  ELSE st

HandleEvent(st, e) ==
  IF st.ret THEN st
  ELSE IF e.type = "SYN" /\ st.step THEN [st EXCEPT !.ret = TRUE]
  ELSE IF e.type \in {"SYN", "KEY"}
    THEN IF e.code = "BTN_TOUCH" /\ e.value = 0 THEN [st EXCEPT !.step = TRUE] ELSE st
  ELSE IF e.type = "ABS" /\ e.code = "X" THEN [st EXCEPT !.px = e.value]
  ELSE IF e.type = "ABS" /\ e.code = "Y" THEN [st EXCEPT !.py = e.value]
  ELSE st

\* step is declared outside get_input's read loop, so a release seen in one
\* batch is remembered until a SYN of a later batch returns.
\* Mutant: step reset for each read(), as if declared inside the loop.
KeepStep_PerRead(r) == FALSE

KeepStep(r) == r.step /\ ~r.ret

get_input(batch, px, py, stp) ==
  FoldLeft(HandleEvent, [px |-> px, py |-> py, step |-> stp, ret |-> FALSE], batch)

(***************************************************************************)
(* do_calibration(): Cramer's rule for the affine map from the touched    *)
(* points t to the expected points d; delta is the common divisor.        *)
(***************************************************************************)
\* Mutant: delta_y[1] with the indices of its last factor slipped.
do_calibration_Slip(t, u) ==
  LET delta == (t[1] - t[3]) * (u[2] - u[3]) - (t[2] - t[3]) * (u[1] - u[3])
  IN  [i \in 1..7 |-> (CASE i = 1 -> (dx[1] - dx[3]) * (u[2] - u[3]) - (dx[2] - dx[3]) * (u[1] - u[3])
       [] i = 2 -> (t[1] - t[3]) * (dx[2] - dx[3]) - (t[2] - t[3]) * (dx[1] - dx[3])
       [] i = 3 -> dx[1] * (t[2] * u[3] - t[3] * u[2]) - dx[2] * (t[1] * u[3] - t[3] * u[1])
                     + dx[3] * (t[1] * u[2] - t[2] * u[1])
       [] i = 4 -> (dy[1] - dy[3]) * (u[2] - u[3]) - (dy[2] - dy[3]) * (u[1] - u[3])
       [] i = 5 -> (t[1] - t[3]) * (dy[2] - dy[3]) - (t[2] - t[3]) * (dy[1] - dy[2])
       [] i = 6 -> dy[1] * (t[2] * u[3] - t[3] * u[2]) - dy[2] * (t[1] * u[3] - t[3] * u[1])
                     + dy[3] * (t[1] * u[2] - t[2] * u[1])
       [] i = 7 -> delta)]

do_calibration(t, u) ==
  LET delta == (t[1] - t[3]) * (u[2] - u[3]) - (t[2] - t[3]) * (u[1] - u[3])
  IN  [i \in 1..7 |-> (CASE i = 1 -> (dx[1] - dx[3]) * (u[2] - u[3]) - (dx[2] - dx[3]) * (u[1] - u[3])
       [] i = 2 -> (t[1] - t[3]) * (dx[2] - dx[3]) - (t[2] - t[3]) * (dx[1] - dx[3])
       [] i = 3 -> dx[1] * (t[2] * u[3] - t[3] * u[2]) - dx[2] * (t[1] * u[3] - t[3] * u[1])
                     + dx[3] * (t[1] * u[2] - t[2] * u[1])
       [] i = 4 -> (dy[1] - dy[3]) * (u[2] - u[3]) - (dy[2] - dy[3]) * (u[1] - u[3])
       [] i = 5 -> (t[1] - t[3]) * (dy[2] - dy[3]) - (t[2] - t[3]) * (dy[1] - dy[3])
       [] i = 6 -> dy[1] * (t[2] * u[3] - t[3] * u[2]) - dy[2] * (t[1] * u[3] - t[3] * u[1])
                     + dy[3] * (t[1] * u[2] - t[2] * u[1])
       [] i = 7 -> delta)]

\* write_conf(): the driver's parameter takes the seven values, unless the
\* open() of /sys/module/<dev>/parameters/calibration fails (logged only).
write_conf(old, data) == IF IoMayFail THEN {data, old} ELSE {data}

\* save_conf(): /data/system/calibration is truncated and rewritten, unless
\* its open() fails (logged only, the old file stays).
save_conf(old, data) == IF IoMayFail THEN {data, old} ELSE {data}

(***************************************************************************)
(* test_calibration()'s formula, which is the driver's: a raw point maps  *)
(* to ((c0 x + c1 y + c2) / c6, (c3 x + c4 y + c5) / c6) in int.          *)
(***************************************************************************)
test_calibration(c, p) ==
  <<CDiv((c[1] * p.x + c[2] * p.y + c[3]), c[7]),
    CDiv((c[4] * p.x + c[5] * p.y + c[6]), c[7])>>

-----------------------------------------------------------------------------
Init ==
  /\ conf \in ConfChoices /\ driver = <<>>
  /\ pc = "start" /\ tgt = 1 /\ step = FALSE
  /\ tx = [i \in Targets |-> Uninit] /\ ty = [i \in Targets |-> Uninit]
  /\ evq = <<>> /\ lastX = 0 /\ lastY = 0
  /\ touching = FALSE /\ moved = FALSE /\ touched = 0
  /\ truth = [i \in Targets |-> NoPoint]
  /\ calibrated = FALSE

(***************************************************************************)
(* main() up to the calibration: ro.calibration must be "1"; check_conf() *)
(* writes a saved file that parses as seven ints to the driver and ends   *)
(* the program; otherwise the framebuffer is opened and mapped and the    *)
(* touchscreen is searched for, any of which may fail and end it.         *)
(***************************************************************************)
\* Mutant: a file with fewer than seven values accepted.
check_conf_Partial == Len(conf) > 0

check_conf == Len(conf) = 7

Start ==
  /\ pc = "start"
  /\ \/ pc' = "done" /\ UNCHANGED driver                     \* ro.calibration # "1"
     \/ check_conf /\ pc' = "done" /\ driver' \in write_conf(driver, conf)
     \/ ~check_conf /\ IoMayFail /\ pc' = "done" /\ UNCHANGED driver
     \/ ~check_conf /\ pc' = "input" /\ UNCHANGED driver
  /\ UNCHANGED <<conf, tgt, tx, ty, step, evq, lastX, lastY, user, calibrated>>

(***************************************************************************)
(* One read() in get_input() for cross tgt, writing through &tx[tgt] and   *)
(* &ty[tgt].  When the third touch is in, do_calibration() runs with       *)
(* whatever tx[] and ty[] hold, save_conf() and write_conf() follow.       *)
(***************************************************************************)
Read ==
  /\ pc = "input" /\ evq # <<>>
  /\ \E k \in 1..Len(evq) :
     \E r \in {get_input(SubSeq(evq, 1, k), tx[tgt], ty[tgt], step)} :
     \E ux \in [Targets -> UninitValues], uy \in [Targets -> UninitValues] :
       LET ntx == [tx EXCEPT ![tgt] = r.px]
           nty == [ty EXCEPT ![tgt] = r.py]
           cal == do_calibration([i \in Targets |-> IF ntx[i] = Uninit THEN ux[i] ELSE ntx[i]],
                                 [i \in Targets |-> IF nty[i] = Uninit THEN uy[i] ELSE nty[i]])
       IN /\ evq' = SubSeq(evq, k + 1, Len(evq))
          /\ tx' = ntx /\ ty' = nty
          /\ step' = KeepStep(r)
          /\ IF r.ret /\ tgt = 3
               THEN /\ conf' \in save_conf(conf, cal) /\ driver' \in write_conf(driver, cal)
                    /\ calibrated' = TRUE /\ pc' = "done" /\ UNCHANGED tgt
             ELSE /\ tgt' = IF r.ret THEN tgt + 1 ELSE tgt
                  /\ UNCHANGED <<conf, driver, calibrated, pc>>
  /\ UNCHANGED <<lastX, lastY, user>>

(***************************************************************************)
(* The user and the input core.  The user touches near the cross that is  *)
(* drawn, once, may move the finger once, and lifts it.  The input core    *)
(* passes an ABS value only when it differs from the last one.             *)
(***************************************************************************)
Report(p) == (IF p.x # lastX THEN <<Abs("X", p.x)>> ELSE <<>>)
             \o (IF p.y # lastY THEN <<Abs("Y", p.y)>> ELSE <<>>)

Press ==
  /\ pc = "input" /\ ~touching /\ touched = tgt - 1
  /\ \E p \in TouchAt[tgt] :
       /\ evq' = evq \o Report(p) \o <<Key(1), Syn>>
       /\ lastX' = p.x /\ lastY' = p.y
  /\ touching' = TRUE /\ moved' = FALSE
  /\ UNCHANGED <<conf, driver, pc, tgt, tx, ty, step, touched, truth, calibrated>>

Move ==
  /\ touching /\ ~moved
  /\ \E q \in TouchAt[tgt] \ {[x |-> lastX, y |-> lastY]} :
       /\ evq' = evq \o Report(q) \o <<Syn>>
       /\ lastX' = q.x /\ lastY' = q.y
  /\ moved' = TRUE
  /\ UNCHANGED <<conf, driver, pc, tgt, tx, ty, step, touching, touched, truth, calibrated>>

Release ==
  /\ touching
  /\ evq' = evq \o <<Key(0), Syn>>
  /\ touching' = FALSE /\ touched' = touched + 1
  /\ truth' = [truth EXCEPT ![touched + 1] = [x |-> lastX, y |-> lastY]]
  /\ UNCHANGED <<conf, driver, pc, tgt, tx, ty, step, lastX, lastY, moved, calibrated>>

Next == Start \/ Read \/ Press \/ Move \/ Release

\* get_input() blocks in read() and wakes on every queued event; a user
\* who has touched lifts the finger.
Spec == Init /\ [][Next]_vars /\ WF_vars(Read) /\ WF_vars(Release)

-----------------------------------------------------------------------------
TypeOK ==
  /\ pc \in {"start", "input", "done"} /\ tgt \in Targets
  /\ \A i \in Targets : tx[i] \in Int \cup {Uninit} /\ ty[i] \in Int \cup {Uninit}
  /\ step \in BOOLEAN /\ touching \in BOOLEAN /\ moved \in BOOLEAN
  /\ touched \in 0..3 /\ calibrated \in BOOLEAN
  /\ DOMAIN driver \in {{}, 1..7} /\ \A i \in DOMAIN driver : driver[i] \in Int

(* get_input() for cross i gives the point where the finger was lifted,  *)
(* whatever batches read() returned and however the finger moved, for    *)
(* touches whose raw x and y each differ from the values reported before *)
(* them, so that the input core passes every ABS event on.  A touch that  *)
(* repeats a value loses its event (see the suppressed run).              *)
GetInputReturnsTouch ==
  \A i \in Targets : (i < tgt \/ calibrated) => <<tx[i], ty[i]>> = <<truth[i].x, truth[i].y>>

(* The calibration do_calibration() writes to the driver maps each of the *)
(* three touched points onto the cross it was touched for, under the      *)
(* driver's int arithmetic (test_calibration's formula).                  *)
CalibrationMapsTargets ==
  (calibrated /\ driver # <<>>) =>
    \A i \in Targets : driver[7] # 0 /\ test_calibration(driver, truth[i]) = <<dx[i], dy[i]>>

(* Once the user has lifted the finger from the third cross, get_input()  *)
(* returns for it and the calibration finishes, however read() splits the *)
(* queued events into batches.                                              *)
TouchesComplete == (touched = 3) ~> (pc = "done")
=============================================================================
