---------------------------- MODULE D4xxControls ----------------------------
(***************************************************************************)
(* The control and firmware update side of the RealSense D4xx driver       *)
(* (drivers/media/i2c/d4xx.c).                                              *)
(*                                                                         *)
(* The driver talks to the camera's firmware through one mailbox: a buffer *)
(* that holds first the request and then the response, an execute register *)
(* and a status register.  Control setters (ds5_s_ctrl) and the firmware   *)
(* update (ds5_dfu_device_write) hold state->mutex over a transaction; the *)
(* volatile getters (ds5_g_volatile_ctrl) do not.  Every control call also *)
(* sets the flags is_depth, is_rgb, is_y8, is_imu, the driver's idea of    *)
(* the sensor it is talking about, and does so before it takes the mutex.  *)
(* The calls made through one control handler are serialised by the lock   *)
(* of that handler; those of different handlers are not.                   *)
(***************************************************************************)
EXTENDS Naturals, FiniteSets

CONSTANTS
    Handlers,       \* the control handlers in use: sensors, and "mux"
    Kinds,          \* the kinds of control calls made
    Budgets,        \* bound: how many calls of each class are made
    MaxFaults,      \* bound: failing transfers and late firmware
    Free            \* nobody holds the mutex

Sensors == {"depth", "rgb", "ir", "imu"}

\* "reg", "read": a register; "cmd", "block", "table", "hwmc": a request and its
\* outcome; "send", "fetch": one half each; "once", "log": volatile readings.
\* Setters work under the mutex, getters without it.
Setters == {"reg", "cmd", "block", "table", "hwmc", "send"}
Getters == {"read", "fetch", "once", "log"}

ASSUME HandlersAssumption == Handlers \subseteq Sensors \cup {"mux"}
ASSUME KindsAssumption == Kinds \subseteq Setters \cup Getters
Classes == {"control", "video", "update", "stream", "format"}

ASSUME BoundsAssumption == Budgets \subseteq [Classes -> Nat] /\ MaxFaults \in Nat
ASSUME FreeAssumption == Free \notin Handlers \cup {"dfu", "user", "lost"}

VARIABLES
    sel,            \* the sensor the is_* flags select
    mutex,          \* who holds state->mutex; "lost" when nobody can release it
    call,           \* what every handler is doing: [kind, pc, got]
    box,            \* the mailbox: whose content it holds, and whether executed
    crossed,        \* whose transaction an unlocked one came between
    flag,           \* dfu_dev.dfu_state_flag
    session,        \* state of the open update file: [pc, left, tail, sent]
    image,          \* what the firmware received: [mode, blocks]
    registered,     \* the probe found working firmware and registered the video
                    \* devices; in its recovery state it did not
    video,          \* video handles: [checked, stale, open, raced]: openers past
                    \* their check, those whose check is older than the update
                    \* session, open handles, and whether one was opened by them
    calls,          \* the calls of every class still to be made
    faults          \* faults so far

controlVars == <<sel, mutex, call, box, crossed, flag, session, image,
                 registered, video, calls, faults>>

Blank == [by |-> Free, form |-> "none", done |-> TRUE]
Idle == [kind |-> "reg", pc |-> "idle", got |-> Blank]
Shut == [pc |-> "shut", left |-> 0, tail |-> FALSE, sent |-> 0]
NoVideo == [checked |-> 0, stale |-> 0, open |-> 0, raced |-> FALSE]

Transacts(k) == k \notin {"reg", "read", "fetch"}

May(n) == faults + n <= MaxFaults
Fault(b) == /\ b => May(1)
            /\ faults' = faults + (IF b THEN 1 ELSE 0)

NewCall(c) == calls[c] > 0 /\ calls' = [calls EXCEPT ![c] = @ - 1]

-----------------------------------------------------------------------------
(***************************************************************************)
(* The mailbox.                                                            *)
(***************************************************************************)
\* Those with a request in the mailbox that is not answered yet, or whose
\* answer they have not read.
Pending == {h \in Handlers : call[h].pc \in {"poll", "answer"}}
           \cup (IF session.pc = "switch" THEN {"dfu"} ELSE {})

Locked(h) == h = "dfu" \/ call[h].kind \in Setters

\* A request of h is written over whatever the mailbox holds, and executed.
\* Somebody else's transaction may be under way when one of the two is not
\* under the mutex.
Between(h) == {o \in Pending \ {h} : ~(Locked(h) /\ Locked(o))}

Request(h) ==
    /\ box' = [by |-> h, form |-> "request", done |-> FALSE]
    /\ crossed' = (crossed \ {h}) \cup Between(h)

\* The data of a request were written and the execute register was not: they
\* stand in the place of the last answer, whose status stays, and are nobody's
\* answer.  An answer still to come is written over them, and after an error
\* the status keeps the data from being read.
Unexecuted == IF box.done /\ box.form # "error" THEN Blank ELSE box

\* The firmware answers.
Execute == /\ ~box.done
           /\ \E f \in {"response", "error"} :
                /\ Fault(f = "error")
                /\ box' = [box EXCEPT !.form = f, !.done = TRUE]
           /\ UNCHANGED <<registered, sel, mutex, call, crossed, flag, session,
                          image, video, calls>>

-----------------------------------------------------------------------------
(***************************************************************************)
(* Controls.                                                               *)
(***************************************************************************)
\* ds5_s_ctrl() or ds5_g_volatile_ctrl() is entered: the flags are set to the
\* sensor of the handler (the mux handler has none and keeps them), and the
\* base of the registers is read from them.  The IMU has nothing to set.
Enter(h, k) ==
    /\ call[h].pc = "idle"
    /\ NewCall("control")
    /\ sel' = IF h = "mux" THEN sel ELSE h
    /\ call' = [call EXCEPT ![h] =
           IF k \in Setters /\ sel' = "imu" THEN Idle
           ELSE [kind |-> k, got |-> Blank,
                 pc |-> IF k \in Setters THEN "lock"
                        ELSE IF Transacts(k) THEN "request"
                        ELSE IF k = "fetch" THEN "poll" ELSE "done"]]
    /\ crossed' = crossed \ {h}
    /\ UNCHANGED <<registered, mutex, box, flag, session, image, video,
                   faults>>

\* Mutant: setters do not wait for the mutex.
BadLock(h) ==
    /\ call[h].pc = "lock"
    /\ mutex' = h
    /\ call' = [call EXCEPT ![h].pc =
                    IF Transacts(call[h].kind) THEN "request" ELSE "done"]
    /\ UNCHANGED <<registered, sel, box, crossed, flag, session, image, video,
                   calls, faults>>

Lock(h) ==
    /\ call[h].pc = "lock" /\ mutex = Free
    /\ mutex' = h
    /\ call' = [call EXCEPT ![h].pc =
                    IF Transacts(call[h].kind) THEN "request" ELSE "done"]
    /\ UNCHANGED <<registered, sel, box, crossed, flag, session, image, video,
                   calls, faults>>

\* ds5_send_hwmc() and its siblings: the data of the request, and the execute
\* register.  A write that fails, the first or the second, ends the call, as
\* does a request nobody waits for; HWMC ignores the failure and goes on to the
\* response, whosever it is.
Send(h) ==
    /\ call[h].pc = "request"
    /\ \E sent \in {"all", "data", "nothing"} :
         /\ Fault(sent # "all")
         /\ IF sent = "all" THEN Request(h)
            ELSE /\ box' = IF sent = "data" THEN Unexecuted ELSE box
                 /\ crossed' = crossed
                        \cup (IF call[h].kind = "hwmc" THEN {h} ELSE {})
                        \cup (IF sent = "data" THEN Between(h) ELSE {})
         /\ call' = [call EXCEPT ![h].pc =
                IF sent # "all" /\ call[h].kind # "hwmc" THEN "failed"
                ELSE IF call[h].kind = "send" THEN "done" ELSE "poll"]
    /\ UNCHANGED <<registered, sel, mutex, flag, session, image, video, calls>>

\* The status is read until it is no longer "in progress": up to a hundred
\* times by setters, some tens of times for the log, and just once by the
\* calibration and version getters, whose loop ends with the first transfer
\* that succeeds.  The log is read out whether or not it was ready, and a
\* calibration table counts as written whatever the status says.
Poll(h) ==
    /\ call[h].pc = "poll"
    /\ \E late \in BOOLEAN :
         /\ late \/ box.done
         /\ late /\ call[h].kind # "once" => May(1)
         /\ faults' = faults + (IF late /\ call[h].kind # "once" THEN 1 ELSE 0)
         /\ call' = [call EXCEPT ![h].pc =
                IF call[h].kind \in {"log", "table"} THEN "answer"
                ELSE IF ~box.done \/ box.form = "error" \/ late THEN "failed"
                ELSE "answer"]
    /\ UNCHANGED <<registered, sel, mutex, box, crossed, flag, session, image,
                   video, calls>>

\* The response is read out of the mailbox.
ReadOut(h) ==
    /\ call[h].pc = "answer"
    /\ \E bad \in BOOLEAN :
         /\ Fault(bad)
         /\ call' = [call EXCEPT ![h].pc = IF bad THEN "failed" ELSE "done",
                                 ![h].got = IF bad THEN Blank ELSE box]
    /\ UNCHANGED <<registered, sel, mutex, box, crossed, flag, session, image,
                   video, calls>>

\* Mutant: every failing command returns with the mutex held.
BadReturn(h) ==
    /\ call[h].pc \in {"done", "failed"}
    /\ call' = [call EXCEPT ![h].pc = "idle", ![h].kind = "reg"]
    /\ mutex' = IF mutex # h THEN mutex
                ELSE IF call[h].pc = "failed" THEN h ELSE Free
    /\ UNCHANGED <<registered, sel, box, crossed, flag, session, image, video,
                   calls, faults>>

\* The call returns.  The commands that read or write a block of the memory
\* return from the middle of ds5_s_ctrl() when they fail, with the mutex held.
Return(h) ==
    /\ call[h].pc \in {"done", "failed"}
    /\ call' = [call EXCEPT ![h].pc = "idle", ![h].kind = "reg"]
    /\ mutex' = IF mutex # h THEN mutex
                ELSE IF call[h].kind = "block" /\ call[h].pc = "failed"
                     THEN "lost" ELSE Free
    /\ UNCHANGED <<registered, sel, box, crossed, flag, session, image, video,
                   calls, faults>>

-----------------------------------------------------------------------------
(***************************************************************************)
(* Firmware update and video handles.                                      *)
(***************************************************************************)
\* ds5_mux_open(): the check of the update's state and the count of handles
\* are two steps, under no lock; ds5_mux_close().
VideoCheck ==
    /\ registered /\ NewCall("video")
    /\ flag = "idle"
    /\ video' = [video EXCEPT !.checked = @ + 1]
    /\ UNCHANGED <<registered, sel, mutex, call, box, crossed, flag, session,
                   image, faults>>

VideoOpen ==
    /\ \/ /\ video.checked > 0
          /\ video' = [video EXCEPT !.checked = @ - 1, !.open = @ + 1]
       \/ /\ video.stale > 0
          /\ video' = [video EXCEPT !.stale = @ - 1, !.open = @ + 1,
                                    !.raced = TRUE]
    /\ UNCHANGED <<registered, sel, mutex, call, box, crossed, flag, session,
                   image, calls, faults>>

VideoClose ==
    /\ video.open > 0
    /\ video' = [video EXCEPT !.open = @ - 1]
    /\ UNCHANGED <<registered, sel, mutex, call, box, crossed, flag, session,
                   image, calls, faults>>

\* ds5_dfu_device_open() is refused while any handle is counted.
DfuOpen ==
    /\ session.pc = "shut" /\ video.open = 0
    /\ NewCall("update")
    /\ session' = [session EXCEPT !.pc = "open"]
    /\ flag' = IF flag = "recovery" THEN flag ELSE "open"
    /\ video' = [video EXCEPT !.stale = @ + video.checked, !.checked = 0]
    /\ UNCHANGED <<registered, sel, mutex, call, box, crossed, image, faults>>

\* ds5_dfu_device_write() of a number of whole blocks and perhaps a partial
\* one.  In a state that takes no blocks the call goes to the error path.
DfuWrite ==
    /\ session.pc = "open" /\ mutex = Free
    /\ NewCall("update")
    /\ mutex' = "dfu"
    /\ \E n \in 0 .. 1, tail \in BOOLEAN :
         session' = [session EXCEPT !.left = n, !.tail = tail, !.pc =
             CASE flag = "open" -> "start"
               [] flag = "recovery" -> "detach"
               [] flag = "progress" -> "blocks"
               [] OTHER -> "error"]
    /\ UNCHANGED <<registered, sel, call, box, crossed, flag, image, video,
                   faults>>

\* ds5_dfu_switch_to_dfu() sends its request through the mailbox.
DfuSwitch ==
    /\ session.pc = "start"
    /\ \E sent \in {"all", "data", "nothing"} :
         /\ Fault(sent # "all")
         /\ IF sent = "all"
            THEN /\ Request("dfu")
                 /\ image' = IF image.mode = "run"
                             THEN [mode |-> "dfu", blocks |-> 0] ELSE image
            ELSE /\ box' = IF sent = "data" THEN Unexecuted ELSE box
                 /\ crossed' = crossed
                        \cup (IF sent = "data" THEN Between("dfu") ELSE {})
                 /\ UNCHANGED image
         /\ session' = [session EXCEPT !.pc =
                            IF sent = "all" THEN "switch" ELSE "error"]
    /\ UNCHANGED <<registered, sel, mutex, call, flag, video, calls>>

\* The firmware of the update has started, or is given up.
DfuBoot ==
    /\ session.pc = "switch"
    /\ \E bad \in BOOLEAN :
         /\ Fault(bad)
         /\ session' = [session EXCEPT !.pc = IF bad THEN "error" ELSE "detach"]
    /\ UNCHANGED <<registered, sel, mutex, call, box, crossed, flag, image,
                   video, calls>>

\* Mutant: any state of the update protocol is taken for idle.
BadDfuDetach ==
    /\ session.pc = "detach"
    /\ flag' = "progress"
    /\ session' = [session EXCEPT !.pc = "blocks", !.sent = 0]
    /\ UNCHANGED <<registered, sel, mutex, call, box, crossed, image, video,
                   calls, faults>>

\* ds5_dfu_detach() expects the idle state of the update protocol, which the
\* firmware is not in when an earlier download was left half way.
DfuDetach ==
    /\ session.pc = "detach"
    /\ \E ok \in BOOLEAN :
         /\ ok => image = [mode |-> "dfu", blocks |-> 0]
         /\ Fault(~ok /\ image = [mode |-> "dfu", blocks |-> 0])
         /\ flag' = IF ok THEN "progress" ELSE flag
         /\ session' = IF ok THEN [session EXCEPT !.pc = "blocks", !.sent = 0]
                       ELSE [session EXCEPT !.pc = "error"]
    /\ UNCHANGED <<registered, sel, mutex, call, box, crossed, image, video,
                   calls>>

\* One block, whole or partial: it may be lost on the way, or the firmware may
\* refuse it after it has taken it.
Block(next) ==
    \E ok \in BOOLEAN, taken \in BOOLEAN :
        /\ ok => taken
        /\ Fault(~ok)
        /\ image' = IF taken THEN [image EXCEPT !.blocks = @ + 1] ELSE image
        /\ session' = [session EXCEPT !.pc = IF ok THEN next ELSE "error",
                          !.left = IF @ > 0 THEN @ - 1 ELSE 0,
                          !.sent = IF ok THEN @ + 1 ELSE @]

DfuBlock ==
    /\ session.pc = "blocks"
    /\ \/ session.left > 0 /\ Block("blocks")
       \/ session.left = 0 /\ session.tail /\ Block("complete")
       \/ /\ session.left = 0 /\ ~session.tail
          /\ session' = [session EXCEPT !.pc = "finish"]
          /\ UNCHANGED <<registered, image, faults>>
    /\ UNCHANGED <<registered, sel, mutex, call, box, crossed, flag, video,
                   calls>>

\* The partial block ends the image: "download complete", and the firmware is
\* expected to enter its manifest state.
DfuComplete ==
    /\ session.pc = "complete"
    /\ \E ok \in BOOLEAN, taken \in BOOLEAN :
         /\ ok => taken
         /\ Fault(~ok)
         /\ image' = IF taken THEN [image EXCEPT !.mode = "manifest"] ELSE image
         /\ flag' = IF ok THEN "done" ELSE flag
         /\ session' = [session EXCEPT !.pc = IF ok THEN "finish" ELSE "error"]
    /\ UNCHANGED <<registered, sel, mutex, call, box, crossed, video, calls>>

\* The error path resets the protocol; only a reset that fails leaves a trace.
DfuError ==
    /\ session.pc = "error"
    /\ \E bad \in BOOLEAN :
         /\ Fault(bad)
         /\ flag' = IF bad THEN "error" ELSE "idle"
         /\ image' = IF bad \/ image.mode = "run" THEN image
                     ELSE [mode |-> "dfu", blocks |-> 0]
    /\ session' = [session EXCEPT !.pc = "finish"]
    /\ UNCHANGED <<registered, sel, mutex, call, box, crossed, video, calls>>

DfuFinish ==
    /\ session.pc = "finish"
    /\ mutex' = Free
    /\ session' = [session EXCEPT !.pc = "open"]
    /\ UNCHANGED <<registered, sel, call, box, crossed, flag, image, video,
                   calls, faults>>

\* ds5_dfu_device_release() sets the state to idle before it looks whether the
\* update was done, so the video devices are never registered after it.
DfuRelease ==
    /\ session.pc = "open"
    /\ session' = [session EXCEPT !.pc = "shut"]
    /\ flag' = IF flag = "recovery" THEN flag ELSE "idle"
    /\ video' = [video EXCEPT !.checked = @ + video.stale, !.stale = 0,
                              !.raced = FALSE]
    /\ UNCHANGED <<registered, sel, mutex, call, box, crossed, image, calls,
                   faults>>

-----------------------------------------------------------------------------
\* After the probe; a camera in recovery has only the update device.
InitControls ==
    /\ sel = "depth" /\ mutex = Free
    /\ call = [h \in Handlers |-> Idle]
    /\ box = Blank /\ crossed = {}
    /\ registered \in BOOLEAN
    /\ flag = IF registered THEN "idle" ELSE "recovery"
    /\ session = Shut
    /\ image = [mode |-> IF registered THEN "run" ELSE "dfu", blocks |-> 0]
    /\ video = NoVideo
    /\ calls \in Budgets /\ faults = 0

Advance(h) == Lock(h) \/ Send(h) \/ Poll(h) \/ ReadOut(h) \/ Return(h)

Update == \/ DfuSwitch \/ DfuBoot \/ DfuDetach \/ DfuBlock \/ DfuComplete
          \/ DfuError \/ DfuFinish

=============================================================================
