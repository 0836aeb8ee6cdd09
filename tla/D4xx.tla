-------------------------------- MODULE D4xx --------------------------------
(***************************************************************************)
(* The RealSense D4xx driver (drivers/media/i2c/d4xx.c) as a whole: the    *)
(* controls and the firmware update of D4xxControls, with the four streams *)
(* of the camera beside them.                                              *)
(*                                                                         *)
(* Streams are enabled and disabled on the mux subdevice one call at a     *)
(* time (V4L2 holds its state lock), but without state->mutex.  Formats    *)
(* are set on the subdevices of the sensors.  The firmware is told by      *)
(* registers: a data type per stream, and a start or stop word.  The only  *)
(* answer is a status that is polled for a bounded time.                   *)
(***************************************************************************)
EXTENDS D4xxControls

CONSTANTS Active    \* the sensors whose streams are used

ASSUME ActiveAssumption == Active \subseteq Sensors

VARIABLES
    streaming,      \* sensor->streaming
    format,         \* sensor->config.format, by its data type
    lastSet,        \* mux.last_set, the sensor the mux speaks for
    stream,         \* the call under way on the mux: [pc, s, prev, on]
    enabled,        \* the streams V4L2 takes for enabled
    setting,        \* the format call under way: [s, f], or NoSetting
    fw,             \* the firmware's streams: [told, runs, dt]
    disturbed,      \* sensors configured while somebody else changed the state
    unheard         \* sensors for which a start or stop word was lost

streamVars == <<streaming, format, lastSet, stream, enabled, setting, fw, disturbed, unheard>>
vars == <<controlVars, streamVars>>

-----------------------------------------------------------------------------
\* Data types a stream can be set to: 0x1e, 0x2a and 0x24.
Formats == {"yuv422", "raw8", "rgb888"}
FormatsOf(s) == CASE s = "depth" -> {"yuv422", "raw8"}
                  [] s = "ir" -> Formats
                  [] s = "rgb" -> {"yuv422"}
                  [] OTHER -> {"raw8"}
DefaultFormat(s) == CASE s = "depth" -> "yuv422"
                      [] s = "rgb" -> "yuv422"
                      [] OTHER -> "raw8"

NoSetting == [s |-> Free, f |-> Free]
Quiet == [pc |-> "idle", s |-> "depth", prev |-> FALSE, on |-> FALSE]

\* vc_to_sensor() of the lowest bit of the mask: depth, rgb, ir, imu.
VcOf(s) == CASE s = "depth" -> 0 [] s = "rgb" -> 1 [] s = "ir" -> 2 [] OTHER -> 3
Lowest(m) == CHOOSE s \in m : \A o \in m : VcOf(s) <= VcOf(o)

\* The data type ds5_sub_configure() writes: depth and interleaved infrared
\* have types of their own, infrared being recognised by the flags.
DataType(s, f, is) == IF s = "depth" THEN "0x31"
                      ELSE IF is = "ir" /\ f = "yuv422" THEN "0x32" ELSE f

\* What ds5_mux_get_frame_desc() announces for the stream.
FrameDesc(s) == [vc |-> VcOf(s), dt |-> format[s]]

-----------------------------------------------------------------------------
\* ds5_sensor_set_stream() is entered for a set of streams: only the lowest is
\* looked at, and since no error is returned V4L2 takes them all for done.
\* The flag and the selection change before anything else.
Toggle(m, on) ==
    /\ stream.pc = "idle"
    /\ IF on THEN m \cap enabled = {} ELSE m \subseteq enabled
    /\ NewCall("stream")
    /\ enabled' = IF on THEN enabled \cup m ELSE enabled \ m
    /\ LET s == Lowest(m) IN
         /\ stream' = [pc |-> IF on THEN "configure" ELSE "stop",
                       s |-> s, prev |-> streaming[s], on |-> on]
         /\ streaming' = [streaming EXCEPT ![s] = on]
         /\ sel' = s /\ lastSet' = s
         /\ disturbed' = IF streaming[s] THEN disturbed ELSE disturbed \ {s}
    /\ UNCHANGED <<registered, mutex, call, box, crossed, flag, session, image,
                   video, faults, format, setting, fw, unheard>>

\* Back to the value before the call; the caller is told nothing.
Restore(s) == streaming' = [streaming EXCEPT ![s] = stream.prev]
Close == stream' = Quiet

KeepRest == UNCHANGED <<registered, sel, mutex, call, box, crossed, flag,
                        session, image, video, calls, lastSet, format, enabled,
                        setting>>

\* Mutant: the selection of the sensor is not looked at.
BadConfigure ==
    /\ stream.pc = "configure"
    /\ fw' = [fw EXCEPT ![stream.s].dt =
                  DataType(stream.s, format[stream.s], "depth")]
    /\ stream' = [stream EXCEPT !.pc = "start"]
    /\ KeepRest
    /\ UNCHANGED <<streaming, faults, disturbed, unheard>>

\* ds5_sub_configure(): the data type, and then rate and size.
Configure ==
    /\ stream.pc = "configure"
    /\ \E bad \in BOOLEAN, written \in BOOLEAN :
         /\ ~bad => written
         /\ Fault(bad)
         /\ fw' = IF written
                  THEN [fw EXCEPT ![stream.s].dt =
                            DataType(stream.s, format[stream.s], sel)]
                  ELSE fw
         /\ IF bad THEN Restore(stream.s) /\ Close
            ELSE /\ stream' = [stream EXCEPT !.pc = "start"]
                 /\ UNCHANGED streaming
    /\ KeepRest /\ UNCHANGED <<disturbed, unheard>>

\* The start word; the firmware may be slow to follow it.
Start ==
    /\ stream.pc = "start"
    /\ \E bad \in BOOLEAN :
         /\ Fault(bad)
         /\ IF bad
            THEN Restore(stream.s) /\ Close /\ UNCHANGED fw
            ELSE /\ fw' = [fw EXCEPT ![stream.s].told = TRUE]
                 /\ stream' = [stream EXCEPT !.pc = "poll"]
                 /\ UNCHANGED streaming
    /\ KeepRest /\ UNCHANGED <<disturbed, unheard>>

\* The status says "streaming"; after a failed read it is whatever the stack
\* held, and may say so too soon.
Started ==
    /\ stream.pc = "poll"
    /\ \E bad \in BOOLEAN :
         /\ bad \/ fw[stream.s].runs
         /\ Fault(bad)
    /\ Close
    /\ KeepRest
    /\ UNCHANGED <<streaming, fw, disturbed, unheard>>

\* Mutant: the firmware is not told that its late start is not wanted.
BadGiveUp ==
    /\ stream.pc = "poll"
    /\ May(1) /\ faults' = faults + 1
    /\ Restore(stream.s) /\ Close
    /\ KeepRest
    /\ UNCHANGED <<fw, unheard, disturbed>>

\* The polls are used up: the firmware is told to stop, and the call fails.
GiveUp ==
    /\ stream.pc = "poll"
    /\ \E bad \in BOOLEAN :
         /\ May(IF bad THEN 2 ELSE 1)
         /\ faults' = faults + (IF bad THEN 2 ELSE 1)
         /\ fw' = IF bad THEN fw
                  ELSE [fw EXCEPT ![stream.s].told = FALSE,
                                  ![stream.s].runs = FALSE]
         /\ unheard' = IF bad \/ stream.prev THEN unheard \cup {stream.s}
                       ELSE unheard
    /\ Restore(stream.s) /\ Close
    /\ KeepRest /\ UNCHANGED <<disturbed>>

\* The stop word.  When it is lost the flag goes back to what it was.
Stop ==
    /\ stream.pc = "stop"
    /\ \E bad \in BOOLEAN :
         /\ Fault(bad)
         /\ IF bad THEN Restore(stream.s) /\ UNCHANGED fw
            ELSE /\ fw' = [fw EXCEPT ![stream.s].told = FALSE,
                                     ![stream.s].runs = FALSE]
                 /\ UNCHANGED streaming
         /\ unheard' = IF bad THEN unheard ELSE unheard \ {stream.s}
    /\ Close
    /\ KeepRest /\ UNCHANGED <<disturbed>>

\* The firmware begins to stream.
FirmwareStarts ==
    \E s \in Active :
        /\ fw[s].told /\ ~fw[s].runs
        /\ fw' = [fw EXCEPT ![s].runs = TRUE]
        /\ UNCHANGED <<controlVars, streaming, format, lastSet, stream,
                       enabled, setting, disturbed, unheard>>

-----------------------------------------------------------------------------
\* Whoever changes the selection or a format while a stream is being configured
\* disturbs it.
Disturb(is, s) == disturbed' = IF /\ stream.pc = "configure"
                                  /\ is # stream.s \/ s = stream.s
                               THEN disturbed \cup {stream.s} ELSE disturbed

\* ds5_sensor_set_fmt() selects the sensor, and then waits for the mutex to
\* change its format, whether the format was tried or set.
EnterFormat ==
    /\ setting = NoSetting
    /\ NewCall("format")
    /\ \E s \in Active : \E f \in FormatsOf(s) :
         /\ setting' = [s |-> s, f |-> f]
         /\ sel' = s /\ lastSet' = s
         /\ Disturb(s, Free)
    /\ UNCHANGED <<registered, mutex, call, box, crossed, flag, session, image,
                   video, faults, streaming, format, stream, enabled, fw,
                   unheard>>

SetFormat ==
    /\ setting # NoSetting
    /\ mutex = Free
    /\ format' = [format EXCEPT ![setting.s] = setting.f]
    /\ lastSet' = setting.s
    /\ setting' = NoSetting
    /\ disturbed' = disturbed \cup {setting.s}
    /\ UNCHANGED <<controlVars, streaming, stream, enabled, fw, unheard>>

\* ds5_mux_get_fmt() selects the sensor it is asked about, under the mutex and,
\* like ds5_mux_set_fmt() and the stream calls, under V4L2's state lock.
GetFormat ==
    /\ stream.pc = "idle" /\ mutex = Free
    /\ NewCall("format")
    /\ \E s \in Active : sel' = s /\ lastSet' = s
    /\ UNCHANGED <<registered, mutex, call, box, crossed, flag, session, image,
                   video, faults, streaming, format, stream, enabled, setting,
                   fw, disturbed, unheard>>

\* ds5_mux_set_fmt() selects the sensor that was set last, and changes nothing
\* the streams are programmed from.
MuxSetFormat ==
    /\ stream.pc = "idle"
    /\ NewCall("format")
    /\ sel' = lastSet
    /\ UNCHANGED <<registered, mutex, call, box, crossed, flag, session, image,
                   video, faults, streamVars>>

\* A control call sets the selection under the feet of a stream.
Control(h, k) == /\ Enter(h, k)
                 /\ Disturb(sel', Free)
                 /\ UNCHANGED <<streaming, format, lastSet, stream, enabled,
                                setting, fw, unheard>>

-----------------------------------------------------------------------------
\* ds5_sensor_config_init(): the formats of every sensor; nothing streams.
InitSensors == /\ streaming = [s \in Active |-> FALSE]
               /\ format = [s \in Active |-> DefaultFormat(s)]

\* ds5_hw_init() has told every stream to stop.
InitFirmware ==
    fw = [s \in Active |-> [told |-> FALSE, runs |-> FALSE, dt |-> "none"]]

Init ==
    /\ InitControls /\ InitSensors /\ InitFirmware
    /\ lastSet = "depth"
    /\ stream = Quiet /\ enabled = {}
    /\ setting = NoSetting
    /\ disturbed = {} /\ unheard = {}

ControlStep == /\ \/ \E h \in Handlers : Advance(h)
                  \/ Execute
                  \/ VideoCheck \/ VideoOpen \/ VideoClose
                  \/ DfuOpen \/ DfuWrite \/ Update \/ DfuRelease
               /\ UNCHANGED streamVars

StreamStep == Configure \/ Start \/ Started \/ GiveUp \/ Stop

Next == \/ ControlStep
        \/ registered /\ \E h \in Handlers, k \in Kinds : Control(h, k)
        \/ registered /\ \E m \in (SUBSET Active) \ {{}}, on \in BOOLEAN : Toggle(m, on)
        \/ StreamStep \/ FirmwareStarts
        \/ registered /\ (EnterFormat \/ GetFormat \/ MuxSetFormat)
        \/ SetFormat

\* Calls run on; the firmware answers in the end.
Fairness == /\ \A h \in Handlers : WF_vars(Advance(h) /\ UNCHANGED streamVars)
            /\ WF_vars(Execute /\ UNCHANGED streamVars)
            /\ WF_vars(Update /\ UNCHANGED streamVars)
            /\ WF_vars(StreamStep)
            /\ WF_vars(FirmwareStarts)
            /\ WF_vars(SetFormat)

Spec == Init /\ [][Next]_vars /\ Fairness

-----------------------------------------------------------------------------
\* The variables of the streams, and of the controls and the update, keep their
\* types.
D4xxTypeOK ==
    /\ sel \in Sensors
    /\ mutex \in Handlers \cup {Free, "dfu", "lost"}
    /\ \A h \in Handlers : call[h].kind \in Setters \cup Getters
    /\ box.by \in Handlers \cup {Free, "dfu"}
    /\ crossed \subseteq Handlers \cup {"dfu"}
    /\ registered \in BOOLEAN
    /\ flag \in {"idle", "recovery", "open", "progress", "done", "error"}
    /\ image.mode \in {"run", "dfu", "manifest"}
    /\ calls \in [Classes -> Nat] /\ faults \in 0 .. MaxFaults
    /\ lastSet \in Sensors /\ streaming \in [Active -> BOOLEAN] /\ enabled \subseteq Active
    /\ \A s \in Active : format[s] \in FormatsOf(s)
    /\ disturbed \subseteq Active /\ unheard \subseteq Active

\* Whoever has carried out a command through the mailbox got the firmware's
\* answer to that command.  The only transactions that may come between are
\* those of the volatile getters, which do not take the mutex, and the only
\* other way to a wrong answer is HWMC's, which asks for the response although
\* its request was not written (ds5_send_hwmc(), ds5_get_hwmc()).
OwnAnswer ==
    \A h \in Handlers :
        /\ call[h].pc = "done"
        /\ call[h].kind \in {"cmd", "block", "hwmc", "once"}
        /\ h \notin crossed
        => call[h].got.by = h /\ call[h].got.form = "response"

\* The firmware has ended its download only with exactly the blocks this
\* update sent, none lost, repeated or left over from an update that broke off
\* (ds5_dfu_device_write(), ds5_dfu_detach()); and no video handle is open while
\* an image is downloaded, unless its opener had passed the check before the
\* update was opened (ds5_mux_open(), ds5_dfu_device_open()).
UpdateSound ==
    /\ image.mode = "manifest" => image.blocks = session.sent
    /\ flag = "progress" => video.open = 0 \/ video.raced

\* Between calls sensor->streaming says what the firmware was last told, unless
\* the stop after a late start was lost or met a stream that was on already.
FlagAgrees ==
    stream.pc = "idle" =>
        \A s \in Active \ unheard : streaming[s] = fw[s].told

\* A stream that is on has the data type of its sensor and format, unless some
\* other call changed the selection or the format meanwhile
\* (ds5_sub_configure()).
DataTypeRight ==
    stream.pc = "idle" =>
        \A s \in Active \ disturbed :
            streaming[s] => fw[s].dt = DataType(s, format[s], s)

\* Every call returns, given a firmware that answers, unless a failed command
\* for a memory block has left with the mutex (ds5_s_ctrl()).
CallsEnd ==
    /\ \A h \in Handlers :
         call[h].pc # "idle" ~> call[h].pc = "idle" \/ mutex = "lost"
    /\ session.pc \notin {"open", "shut"} ~> session.pc \in {"open", "shut"}
    /\ stream.pc # "idle" ~> stream.pc = "idle"

=============================================================================
