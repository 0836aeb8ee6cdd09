------------------------------- MODULE Sensors -------------------------------
(***************************************************************************)
(* The stream handlers of the camera sensor drivers behind the serializer: *)
(* isx031.c, ar0234.c, imx586.c, imx415.c, ar0830.c, and ar0233.c and its  *)
(* copy ar0820.c, whose register accesses are still stubs.  A behaviour    *)
(* runs one of them: probe, format, control, start, stop, system and       *)
(* runtime power management, and unbind, with calls that fail.             *)
(*                                                                         *)
(* Stream, format and control handlers hold the driver's mutex or the lock *)
(* of the subdevice state, and sleep has the system to itself, so each is  *)
(* one step that takes the context d through its calls in order.  One      *)
(* call may fail in it, once or every time, d.op and d.left; d.err is the  *)
(* return value.  A list of registers that fails is written in part.       *)
(*                                                                         *)
(* The V4L2 core (external) only starts what it takes for stopped and only *)
(* stops what it takes for started.  It takes a failed .disable_streams()  *)
(* as still started and a failed .s_stream(0) as stopped.                  *)
(***************************************************************************)
EXTENDS Integers

CONSTANTS
    Drivers,     \* the drivers of the behaviours, among AllDrivers
    Modes,       \* supported_modes[]; only isx031 has more than one
    Default,     \* the first of them
    MaxFaults,   \* bound on the handlers in which a call fails
    MaxNaps,     \* bound on the system sleeps
    MaxUsage     \* bound on the usage count, that some drivers leak

AllDrivers == {"isx031", "ar0234", "imx586", "imx415", "ar0830", "ar0233", "ar0820"}

ASSUME SensorsAssumption ==
    /\ Drivers \subseteq AllDrivers
    /\ Default \in Modes
    /\ MaxUsage \in Nat

VARIABLES
    driver,      \* the driver, and hasReset: its board has a reset line
    hasReset,
    bound,       \* the driver is probed
    started,     \* the core has the stream started
    d,           \* driver memory and sensor, see Fresh
    asleep,
    disturbed,   \* a call failed, or the system slept; a removal keeps the usage count
    faults, naps

vars == <<driver, hasReset, bound, started, d, asleep, disturbed, faults, naps>>

Unset == "unset"   \* the mode of a sensor after reset
Mixed == "mixed"   \* the mode after part of a list
NoMode == "none"

Fresh ==
    [usage     |-> 0,        \* runtime power management's usage count
     streaming |-> FALSE,    \* the driver's flag; imx415 and ar0830 have none
     grab      |-> FALSE,    \* the flip controls are grabbed
     cur       |-> Default,  \* cur_mode and pre_mode
     pre       |-> NoMode,
     ctl       |-> 0,        \* the control handler's value
     on        |-> FALSE,    \* the sensor: it streams, its mode and its gain
     mode      |-> Unset,
     gain      |-> 0,
     dead      |-> FALSE,    \* in reset or without power
     at        |-> NoMode,   \* history: the mode set when the stream started,
     lapse     |-> NoMode,   \* a mode the driver takes for the written one,
     blind     |-> FALSE,    \* and a stream that was reported and does not run
     err |-> FALSE, op |-> "none", left |-> 0]

RegOps == {"list", "ctrl", "on", "off", "state", "init"}
Ops    == RegOps \cup {"get", "gpio"}

Try(x, op, done) ==
    IF x.err THEN x
    ELSE IF x.op = op /\ x.left > 0 THEN [x EXCEPT !.err = TRUE, !.left = @ - 1]
    ELSE IF x.dead /\ op \in RegOps THEN [x EXCEPT !.err = TRUE]
    ELSE done

Failed(x)  == [x EXCEPT !.err = TRUE]
Ignored(x) == [x EXCEPT !.err = FALSE]

\* pm_runtime_resume_and_get() and pm_runtime_put(): external.
Get(x) == Try(x, "get", [x EXCEPT !.usage = @ + 1])
Put(x) == [x EXCEPT !.usage = @ - 1]

\* A sensor that was reset.
Lost(x) == [x EXCEPT !.on = FALSE, !.mode = Unset, !.gain = 0]

WriteList(x) ==
    LET e == Try(x, "list", [x EXCEPT !.mode = x.cur])
    IN  IF e.err /\ ~x.err /\ ~x.dead THEN [e EXCEPT !.mode = Mixed] ELSE e

\* __v4l2_ctrl_handler_setup() with the driver's s_ctrl(), the usage count
\* being held.
Controls(x) == Try(x, "ctrl", [x EXCEPT !.gain = x.ctl])

----------------------------------------------------------------------------
(* isx031 *)

\* The state is read again after the transition: it can fail with the
\* transition made.
Isx031Transit(x, on) ==
    LET e == Try(x, IF on THEN "on" ELSE "off", [x EXCEPT !.on = on])
    IN  Try(e, "state", e)

Isx031Init(x) ==
    LET e == Try(x, "state", x)
        f == IF e.on THEN Isx031Transit(e, FALSE) ELSE e
        g == Try(f, "init", f)
    IN  IF g.err /\ ~f.err /\ ~f.dead THEN [g EXCEPT !.mode = Mixed] ELSE g

\* Mutant: pre_mode is set before the list is written.
Isx031StartEager(x) ==
    IF x.cur = x.pre THEN Isx031Transit(x, TRUE)
    ELSE LET e == WriteList(x)
         IN  IF e.err THEN [e EXCEPT !.lapse = x.pre, !.pre = x.cur]
             ELSE Isx031Transit([e EXCEPT !.pre = x.cur, !.lapse = NoMode], TRUE)

\* The handler's one control is read-only and its s_ctrl() returns 0, so setting
\* up the controls cannot fail.
Isx031Start(x) ==
    IF x.cur = x.pre THEN Isx031Transit(x, TRUE)
    ELSE LET e == WriteList(x)
         IN  IF e.err THEN [e EXCEPT !.lapse = x.pre]
             ELSE Isx031Transit([e EXCEPT !.pre = x.cur, !.lapse = NoMode], TRUE)

\* It returns nothing.
Isx031Stop(x) == Ignored(Isx031Transit(Ignored(x), FALSE))

Isx031Stream(x, enable) ==
    IF x.streaming = enable THEN x
    ELSE IF ~enable THEN [Put(Isx031Stop(x)) EXCEPT !.streaming = FALSE]
    ELSE LET g == Get(x)
             s == Isx031Start(g)
         IN  IF g.err THEN g
             ELSE IF s.err THEN Failed(Put(Isx031Stop(s)))
             ELSE [s EXCEPT !.streaming = TRUE]

\* The flag stays, for the resume.
Isx031Suspend(x) == IF x.streaming THEN Isx031Stop(x) ELSE x

\* cur_mode is written, pre_mode stays.  A restart that fails keeps the usage
\* count.
Isx031Resume(x) ==
    LET id == Try(x, "state", x)
        w  == WriteList(Isx031Init(id))
        r  == [w EXCEPT !.lapse = IF w.err \/ x.cur # x.pre THEN x.pre ELSE @]
        s  == Isx031Start(r)
    IN  IF ~x.streaming THEN r
        ELSE IF r.err THEN [r EXCEPT !.blind = TRUE]
        ELSE IF s.err THEN Failed([Isx031Stop(s) EXCEPT !.streaming = FALSE,
                                                        !.blind = TRUE])
        ELSE [s EXCEPT !.at = x.cur]

Isx031Probe(x) ==
    LET w == WriteList(Isx031Init(Try(x, "state", x)))
    IN  IF w.err THEN w ELSE [w EXCEPT !.pre = w.cur]

----------------------------------------------------------------------------
(* ar0234 *)

Ar0234Start(x) ==
    LET r == Try(x, "init", Lost(x))
        e == Controls(WriteList(r))
    IN  Try(e, "on", [e EXCEPT !.on = TRUE, !.streaming = TRUE])

Ar0234Stop(x) == Try(x, "off", [x EXCEPT !.on = FALSE, !.streaming = FALSE])

\* A start that fails returns what the stop returns.
Ar0234Stream(x, enable) ==
    IF x.streaming = enable THEN x
    ELSE IF enable
    THEN LET g == Get(x)
             s == Ar0234Start(g)
             t == Ar0234Stop(Ignored(s))
         IN  IF g.err THEN g
             ELSE IF s.err THEN [Put(t) EXCEPT !.blind = ~t.err]
             ELSE [s EXCEPT !.grab = TRUE]
    ELSE LET t == Ar0234Stop(x)
         IN  IF t.err THEN t ELSE [Put(t) EXCEPT !.grab = FALSE]

\* The flag goes, so the resume does not restart the stream.
Ar0234Suspend(x) ==
    IF x.streaming
    THEN LET t == Ar0234Stop(x) IN Ignored([t EXCEPT !.blind = @ \/ ~t.err])
    ELSE x

Ar0234Resume(x) ==
    LET s == Ar0234Start(x)
    IN  IF ~x.streaming THEN x
        ELSE IF s.err THEN [Ignored(Ar0234Stop(Ignored(s))) EXCEPT !.blind = TRUE]
        ELSE s

Ar0234Probe(x) == Try(x, "state", x)

----------------------------------------------------------------------------
(* imx586 *)

\* It takes a reference of its own, that the stop does not give back.
Imx586Start(x) ==
    LET g == Get(x)
        e == Controls(WriteList(g))
        s == Try(e, "on", [e EXCEPT !.on = TRUE, !.streaming = TRUE])
    IN  IF s.err /\ ~g.err THEN Put(s) ELSE s

Imx586Stop(x) ==
    [Try(x, "off", [x EXCEPT !.on = FALSE]) EXCEPT !.streaming = FALSE]

\* Mutant: the reference is given back whether it was taken or not.
Imx586StreamPut(x, enable) ==
    IF x.streaming = enable THEN x
    ELSE IF enable
    THEN LET g == Get(x)
             s == Imx586Start(g)
             t == Imx586Stop(Ignored(s))
         IN  IF g.err THEN Put(g)
             ELSE IF ~s.err THEN [s EXCEPT !.grab = TRUE]
             ELSE IF t.err THEN t
             ELSE [Put(t) EXCEPT !.grab = TRUE, !.blind = TRUE]
    ELSE LET t == Imx586Stop(x)
         IN  IF t.err THEN t ELSE [Put(t) EXCEPT !.grab = FALSE]

Imx586Stream(x, enable) ==
    IF x.streaming = enable THEN x
    ELSE IF enable
    THEN LET g == Get(x)
             s == Imx586Start(g)
             t == Imx586Stop(Ignored(s))
         IN  IF g.err THEN g
             ELSE IF ~s.err THEN [s EXCEPT !.grab = TRUE]
             ELSE IF t.err THEN t
             ELSE [Put(t) EXCEPT !.grab = TRUE, !.blind = TRUE]
    ELSE LET t == Imx586Stop(x)
         IN  IF t.err THEN t ELSE [Put(t) EXCEPT !.grab = FALSE]

Imx586Suspend(x) ==
    IF x.streaming THEN Ignored([Imx586Stop(x) EXCEPT !.blind = TRUE]) ELSE x

\* The flag is never set here: the suspend cleared it.
Imx586Resume(x) ==
    LET s == Imx586Start(x)
    IN  IF ~x.streaming THEN x
        ELSE IF s.err THEN Ignored(Imx586Stop(Ignored(s))) ELSE s

Imx586Probe(x) == Try(x, "state", x)

----------------------------------------------------------------------------
(* imx415 *)

\* The errors of the mode's registers are dropped.
Imx415Setup(x) ==
    LET e == Try(x, "init", x)
        m == WriteList(e)
    IN  IF e.err THEN e
        ELSE IF m.err THEN Ignored([m EXCEPT !.lapse = x.cur])
        ELSE [m EXCEPT !.lapse = NoMode]

Imx415On(x) == Try(x, "on", [x EXCEPT !.on = TRUE])

\* The second write can fail with the stream stopped.
Imx415Off(x) ==
    LET e == Try(x, "off", [x EXCEPT !.on = FALSE]) IN Try(e, "state", e)

Imx415Stream(x, enable) ==
    IF ~enable THEN Put(Imx415Off(x))
    ELSE LET g == Get(x)
             s == Imx415On(Controls(Imx415Setup(g)))
         IN  IF g.err THEN g ELSE IF s.err THEN Lost(Put(s)) ELSE s

\* pm_runtime_force_suspend() and pm_runtime_force_resume() power the sensor
\* off, and on again when it was in use.  Nothing restarts the stream.
Imx415Suspend(x) == [Lost(x) EXCEPT !.dead = TRUE, !.blind = x.usage > 0]
Imx415Resume(x) ==
    IF x.usage > 0 THEN Try(x, "get", [x EXCEPT !.dead = FALSE])
    ELSE [x EXCEPT !.dead = FALSE]

Imx415Probe(x) == LET e == Try(x, "get", x) IN Try(e, "state", e)

----------------------------------------------------------------------------
(* ar0830 *)

\* The status is polled after the write, and what the poll returns is returned
\* whatever became of the write: a write that fails goes unnoticed when the
\* sensor is in the wanted state already, and is a time-out when it is not; the
\* poll can fail with the write made.  A sensor without its firmware answers
\* too, and does not stream.
Ar0830Stall(x, stall) ==
    LET done == [x EXCEPT !.on = ~stall /\ x.mode # Unset]
        w    == Try(x, IF stall THEN "off" ELSE "on", done)
        e    == IF ~x.err /\ done = x THEN Ignored(w) ELSE w
    IN  Try(e, "state", e)

\* The controls the handler sets up then write no register and cannot fail:
\* s_ctrl() does nothing for a gain, and the others are read-only.
Ar0830Start(x) ==
    LET g == Get(x)
        s == Ar0830Stall(g, FALSE)
    IN  IF g.err THEN g ELSE IF s.err THEN Put(s)
        ELSE [s EXCEPT !.blind = ~s.on]

\* A stall that fails keeps the reference.
Ar0830Stop(x) == LET e == Ar0830Stall(x, TRUE) IN IF e.err THEN e ELSE Put(e)

Ar0830Stream(x, enable) == IF enable THEN Ar0830Start(x) ELSE Ar0830Stop(x)

\* The firmware is loaded and the sensor streams until it is stalled.
Ar0830BoardSetup(x) == Try(x, "init", [x EXCEPT !.on = TRUE, !.mode = x.cur])

\* A stream that ran is not restarted.
Ar0830Suspend(x) == [x EXCEPT !.blind = @ \/ x.on]
Ar0830Resume(x) ==
    IF x.mode # Unset THEN x ELSE Ar0830Stall(Ar0830BoardSetup(x), TRUE)

Ar0830Probe(x) == Ar0830Stall(Ar0830BoardSetup(x), TRUE)

----------------------------------------------------------------------------
(* ar0233: identification, start and stop are stubs *)

Ar0233Stream(x, enable) ==
    IF x.streaming = enable THEN x
    ELSE IF ~enable THEN [Put(x) EXCEPT !.streaming = FALSE]
    ELSE LET g == Get(x)
         IN  IF g.err THEN g ELSE [g EXCEPT !.streaming = TRUE, !.blind = x.dead]

\* The sensor streams by itself once it is out of reset.
Ar0233Awake(x)   == [x EXCEPT !.on = TRUE, !.mode = x.cur, !.gain = x.ctl]
Ar0233Suspend(x) == x
Ar0233Resume(x)  == Ar0233Awake(x)
Ar0233Probe(x)   == Ar0233Awake(x)

\* ar0820: the same code under another name.
Ar0820Stream(x, enable) == Ar0233Stream(x, enable)
Ar0820Suspend(x) == Ar0233Suspend(x)
Ar0820Resume(x)  == Ar0233Resume(x)
Ar0820Probe(x)   == Ar0233Probe(x)

----------------------------------------------------------------------------
(* The driver's operations *)

SetStream(x, enable) ==
    CASE driver = "isx031" -> Isx031Stream(x, enable)
      [] driver = "ar0234" -> Ar0234Stream(x, enable)
      [] driver = "imx586" -> Imx586Stream(x, enable)
      [] driver = "imx415" -> Imx415Stream(x, enable)
      [] driver = "ar0830" -> Ar0830Stream(x, enable)
      [] driver = "ar0233" -> Ar0233Stream(x, enable)
      [] driver = "ar0820" -> Ar0820Stream(x, enable)

DriverSuspend(x) ==
    CASE driver = "isx031" -> Isx031Suspend(x)
      [] driver = "ar0234" -> Ar0234Suspend(x)
      [] driver = "imx586" -> Imx586Suspend(x)
      [] driver = "imx415" -> Imx415Suspend(x)
      [] driver = "ar0830" -> Ar0830Suspend(x)
      [] driver = "ar0233" -> Ar0233Suspend(x)
      [] driver = "ar0820" -> Ar0820Suspend(x)

DriverResume(x) ==
    CASE driver = "isx031" -> Isx031Resume(x)
      [] driver = "ar0234" -> Ar0234Resume(x)
      [] driver = "imx586" -> Imx586Resume(x)
      [] driver = "imx415" -> Imx415Resume(x)
      [] driver = "ar0830" -> Ar0830Resume(x)
      [] driver = "ar0233" -> Ar0233Resume(x)
      [] driver = "ar0820" -> Ar0820Resume(x)

DriverProbe(x) ==
    CASE driver = "isx031" -> Isx031Probe(x)
      [] driver = "ar0234" -> Ar0234Probe(x)
      [] driver = "imx586" -> Imx586Probe(x)
      [] driver = "imx415" -> Imx415Probe(x)
      [] driver = "ar0830" -> Ar0830Probe(x)
      [] driver = "ar0233" -> Ar0233Probe(x)
      [] driver = "ar0820" -> Ar0820Probe(x)

\* Only these have .enable_streams() and .disable_streams().
StreamOps   == {"isx031", "ar0234", "ar0233", "ar0820"}
OwnPower    == driver = "imx415"   \* its power callbacks are its own
HasControls == driver \in {"ar0234", "imx586", "imx415"}

----------------------------------------------------------------------------
(* Steps *)

Init ==
    /\ driver \in Drivers
    /\ hasReset \in (IF driver \in {"imx415", "ar0830"} THEN {TRUE} ELSE BOOLEAN)
    /\ bound = FALSE
    /\ started = FALSE
    /\ d = Fresh
    /\ asleep = FALSE
    /\ disturbed = FALSE
    /\ faults = 0
    /\ naps = 0

\* The outcomes of a handler: without a failure, with a call that fails once,
\* and with one that always fails.  Failures that are not met do not count.
Always == 99
Chances == {<<"none", 0>>}
    \cup (IF faults < MaxFaults THEN Ops \X {1, Always} ELSE {})
Faulty(x)  == [d EXCEPT !.op = x[1], !.left = x[2], !.err = FALSE]
Settled(x) == [x EXCEPT !.err = FALSE, !.op = "none", !.left = 0]

Counted(x, e) ==
    /\ x[1] = "none" \/ e.left < x[2]
    /\ e.usage <= MaxUsage
    /\ faults' = faults + (IF x[1] = "none" THEN 0 ELSE 1)

Probe == \E x \in Chances :
    LET e == DriverProbe([Faulty(x) EXCEPT !.mode = Unset, !.on = FALSE])
    IN  /\ ~bound
        /\ ~asleep
        /\ Counted(x, e)
        /\ bound' = ~e.err
        /\ d' = IF e.err THEN [Fresh EXCEPT !.usage = d.usage] ELSE Settled(e)
        /\ UNCHANGED <<driver, hasReset, started, asleep, disturbed, naps>>

Remove ==
    /\ bound
    /\ ~started
    /\ ~asleep
    /\ bound' = FALSE
    /\ d' = [Fresh EXCEPT !.usage = d.usage]
    /\ UNCHANGED <<driver, hasReset, started, asleep, disturbed, faults, naps>>

Start == \E x \in Chances :
    LET e == SetStream([Faulty(x) EXCEPT !.at = d.cur, !.blind = FALSE], TRUE)
    IN  /\ bound
        /\ ~started
        /\ ~asleep
        /\ Counted(x, e)
        /\ d' = Settled(e)
        /\ started' = ~e.err
        /\ disturbed' = (disturbed \/ x[1] # "none")
        /\ UNCHANGED <<driver, hasReset, bound, asleep, naps>>

Stop == \E x \in Chances :
    LET e == SetStream(Faulty(x), FALSE)
    IN  /\ started
        /\ ~asleep
        /\ Counted(x, e)
        /\ d' = Settled(e)
        /\ started' = (e.err /\ driver \in StreamOps)
        /\ disturbed' = (disturbed \/ x[1] # "none")
        /\ UNCHANGED <<driver, hasReset, bound, asleep, naps>>

\* Formats may be set while the sensor streams.
SetFormat == \E m \in Modes :
    /\ bound
    /\ driver = "isx031"
    /\ ~asleep
    /\ d' = [d EXCEPT !.cur = m]
    /\ UNCHANGED <<driver, hasReset, bound, started, asleep, disturbed, faults, naps>>

\* A control is written when the sensor is in use, else only remembered.
SetCtrl == \E v \in {0, 1}, x \in Chances :
    LET e == IF d.usage = 0 THEN [Faulty(x) EXCEPT !.ctl = v]
             ELSE Try(Faulty(x), "ctrl", [Faulty(x) EXCEPT !.ctl = v, !.gain = v])
    IN  /\ bound
        /\ HasControls
        /\ ~asleep
        /\ Counted(x, e)
        /\ d' = Settled(e)
        /\ disturbed' = (disturbed \/ x[1] # "none")
        /\ UNCHANGED <<driver, hasReset, bound, started, asleep, naps>>

\* imx415's autosuspend.
RuntimeSuspend ==
    /\ bound
    /\ OwnPower
    /\ ~asleep
    /\ d.usage = 0
    /\ d.mode # Unset
    /\ d' = Lost(d)
    /\ UNCHANGED <<driver, hasReset, bound, started, asleep, disturbed, faults, naps>>

\* The reset line is asserted after the handler's own work, and released
\* before it in the resume.
Suspend == \E x \in Chances :
    LET e == DriverSuspend(Faulty(x))
    IN  /\ bound
        /\ ~asleep
        /\ naps < MaxNaps
        /\ Counted(x, e)
        /\ d' = IF hasReset THEN [Settled(Lost(e)) EXCEPT !.dead = TRUE] ELSE Settled(e)
        /\ asleep' = TRUE
        /\ disturbed' = TRUE
        /\ naps' = naps + 1
        /\ UNCHANGED <<driver, hasReset, bound, started>>

\* A line that does not rise, or a handler that fails, leaves a stream the
\* core has started without a sensor.
Resume == \E x \in Chances :
    LET f == Faulty(x)
        g == IF hasReset /\ ~OwnPower THEN Try(f, "gpio", [f EXCEPT !.dead = FALSE]) ELSE f
        e == IF g.err THEN [g EXCEPT !.blind = TRUE] ELSE DriverResume(g)
    IN  /\ asleep
        /\ Counted(x, e)
        /\ d' = [Settled(e) EXCEPT !.lapse = IF g.err THEN d.pre ELSE @]
        /\ asleep' = FALSE
        /\ UNCHANGED <<driver, hasReset, bound, started, disturbed, naps>>

Next ==
    \/ Probe \/ Remove \/ Start \/ Stop \/ SetFormat \/ SetCtrl
    \/ RuntimeSuspend \/ Suspend \/ Resume

Spec == Init /\ [][Next]_vars

----------------------------------------------------------------------------
(* Properties *)

\* A stream the core has started comes from a sensor that streams, in the mode
\* set when it started and with the controls' values.  Excepted are streams
\* whose loss the driver does not report, blind: a start that failed and
\* returned the stop's success, and the sleep of a driver that does not
\* restart; and modes the driver takes for written, lapse: isx031's resume
\* writes cur_mode without setting pre_mode, a list that failed part-way is
\* not written again when the format goes back to pre_mode, and imx415 drops
\* the list's errors.
StreamsAsSet ==
    started /\ ~asleep /\ ~d.blind =>
        /\ d.on
        /\ d.mode = d.at \/ d.lapse = d.at
        /\ HasControls => d.gain = d.ctl

\* A sensor its driver has streaming is held in use, no reference is given
\* back that was not taken, and after undisturbed streams the sensor is off,
\* out of use and its flips are free.  imx586 keeps a reference for every
\* start.
HeldThenReleased ==
    /\ d.usage >= 0
    /\ d.streaming => d.usage > 0
    /\ bound /\ ~started /\ ~disturbed =>
        /\ driver # "imx586" => d.usage = 0
        /\ ~d.grab
        /\ driver \notin {"ar0233", "ar0820"} => ~d.on

\* A sensor streams in the mode the format names: start_streaming() says
\* "Apply mode registers only if mode changed".
ModeApplied == started /\ ~asleep /\ d.on => d.mode = d.at
=============================================================================
