---------------------------- MODULE SensorsProofs ----------------------------
(***************************************************************************)
(* Proofs about Sensors: StreamsAsSet and HeldThenReleased hold for every  *)
(* driver, any number of calls that fail once or always, sleeps and        *)
(* leaked references.                                                      *)
(*                                                                         *)
(* The invariant, Good, relates the core's belief, the driver's flag, the  *)
(* usage count, what the driver knows of the sensor's mode and the sensor. *)
(* A handler takes the context through its calls, so the proof has a lemma *)
(* on the outcome of each call, one of each handler of each driver on what *)
(* it makes of Good, and one of each step.                                 *)
(***************************************************************************)
EXTENDS Sensors, TLAPS

Values == {0, 1}
Kinds  == Modes \cup {NoMode}

Ctx == [usage : Int, streaming : BOOLEAN, grab : BOOLEAN, cur : Modes, pre : Kinds,
        ctl : Values, on : BOOLEAN, mode : Modes \cup {Unset, Mixed}, gain : Values,
        dead : BOOLEAN, at : Kinds, lapse : Kinds, blind : BOOLEAN, err : BOOLEAN,
        op : Ops \cup {"none"}, left : Nat]

\* What a call to the sensor leaves alone, and one that moves the usage count.
SameFlags(e, x) ==
    /\ e.streaming = x.streaming /\ e.grab = x.grab
    /\ e.cur = x.cur /\ e.pre = x.pre /\ e.ctl = x.ctl /\ e.dead = x.dead
    /\ e.at = x.at /\ e.lapse = x.lapse /\ e.blind = x.blind /\ e.op = x.op

SameMemory(e, x) == e.usage = x.usage /\ SameFlags(e, x)

SameSensor(e, x) == e.on = x.on /\ e.mode = x.mode /\ e.gain = x.gain

\* Nothing fails.
Smooth(x) == x.op = "none" /\ ~ x.dead /\ ~ x.err

----------------------------------------------------------------------------
(* The calls *)

LEMMA TryOutcome ==
    ASSUME NEW x \in Ctx, NEW op \in Ops, NEW y \in Ctx
    PROVE  /\ Try(x, op, y) \in Ctx
           /\ \/ Try(x, op, y) = y
              \/ /\ Try(x, op, y).err
                 /\ SameMemory(Try(x, op, y), x) /\ SameSensor(Try(x, op, y), x)
           /\ x.err => Try(x, op, y) = x
           /\ Smooth(x) => Try(x, op, y) = y
<1>1. CASE x.err
  BY <1>1 DEF Try, SameMemory, SameFlags, SameSensor, Smooth
<1>2. CASE ~ x.err /\ x.op = op /\ x.left > 0
  <2>1. Try(x, op, y) = [x EXCEPT !.err = TRUE, !.left = @ - 1]
    BY <1>2 DEF Try
  <2>2. x.left - 1 \in Nat
    BY <1>2 DEF Ctx
  <2>3. op # "none"
    BY DEF Ops, RegOps
  <2> QED
    BY <1>2, <2>1, <2>2, <2>3 DEF SameMemory, SameFlags, SameSensor, Smooth, Ctx
<1>3. CASE ~ x.err /\ ~ (x.op = op /\ x.left > 0) /\ x.dead /\ op \in RegOps
  <2>1. Try(x, op, y) = [x EXCEPT !.err = TRUE]
    BY <1>3 DEF Try
  <2> QED
    BY <1>3, <2>1 DEF SameMemory, SameFlags, SameSensor, Smooth, Ctx
<1>4. CASE ~ x.err /\ ~ (x.op = op /\ x.left > 0) /\ ~ (x.dead /\ op \in RegOps)
  BY <1>4 DEF Try, Smooth
<1> QED
  BY <1>1, <1>2, <1>3, <1>4

LEMMA GetOutcome ==
    ASSUME NEW x \in Ctx
    PROVE  /\ Get(x) \in Ctx /\ SameSensor(Get(x), x)
           /\ SameFlags(Get(x), x)
           /\ ~ Get(x).err => ~ x.err /\ Get(x).usage = x.usage + 1
           /\ Get(x).err => Get(x).usage = x.usage
           /\ Smooth(x) => ~ Get(x).err
<1> DEFINE y == [x EXCEPT !.usage = @ + 1]
<1>1. y \in Ctx /\ y.err = x.err /\ SameSensor(y, x) /\ SameFlags(y, x) /\ y.usage = x.usage + 1
  BY DEF Ctx, SameSensor, SameFlags
<1>2. "get" \in Ops
  BY DEF Ops
<1>3. Get(x) = Try(x, "get", y)
  BY DEF Get
<1> HIDE DEF y
<1>4. /\ Get(x) \in Ctx
      /\ \/ Get(x) = y
         \/ Get(x).err /\ SameMemory(Get(x), x) /\ SameSensor(Get(x), x)
      /\ x.err => Get(x) = x
      /\ Smooth(x) => Get(x) = y
  BY <1>1, <1>2, <1>3, TryOutcome
<1> QED
  BY <1>1, <1>4 DEF Smooth, SameMemory

LEMMA PutOutcome ==
    ASSUME NEW x \in Ctx
    PROVE  /\ Put(x) \in Ctx /\ SameSensor(Put(x), x)
           /\ Put(x).usage = x.usage - 1
           /\ SameFlags(Put(x), x) /\ Put(x).err = x.err
<1>1. PICK n \in Int : n = x.usage - 1
  BY DEF Ctx
<1>2. Put(x) = [x EXCEPT !.usage = n]
  BY <1>1 DEF Put
<1> QED
  BY <1>1, <1>2 DEF SameMemory, SameFlags, SameSensor, Ctx

LEMMA ListOutcome ==
    ASSUME NEW x \in Ctx
    PROVE  /\ WriteList(x) \in Ctx /\ SameMemory(WriteList(x), x)
           /\ WriteList(x).on = x.on /\ WriteList(x).gain = x.gain
           /\ ~ WriteList(x).err => ~ x.err /\ WriteList(x).mode = x.cur
           /\ x.err => WriteList(x) = x
           /\ Smooth(x) => ~ WriteList(x).err
<1> DEFINE y == [x EXCEPT !.mode = x.cur]
<1>1. y \in Ctx /\ y.err = x.err /\ SameMemory(y, x) /\ y.mode = x.cur /\ y.on = x.on /\ y.gain = x.gain
  BY DEF Ctx, SameMemory, SameFlags
<1>2. "list" \in Ops
  BY DEF Ops, RegOps
<1> HIDE DEF y
<1>3. PICK e : e = Try(x, "list", y)
  OBVIOUS
<1>4. /\ e \in Ctx
      /\ e = y \/ (e.err /\ SameMemory(e, x) /\ SameSensor(e, x))
      /\ x.err => e = x
      /\ Smooth(x) => e = y
  BY <1>1, <1>2, <1>3, TryOutcome
<1>5. WriteList(x) = IF e.err /\ ~ x.err /\ ~ x.dead THEN [e EXCEPT !.mode = Mixed] ELSE e
  BY <1>3 DEF WriteList, y
<1>6. SameMemory(e, x) /\ e.on = x.on /\ e.gain = x.gain /\ (~ e.err => ~ x.err /\ e.mode = x.cur)
  BY <1>1, <1>4 DEF SameMemory, SameFlags, SameSensor
<1>7. [e EXCEPT !.mode = Mixed] \in Ctx /\ SameMemory([e EXCEPT !.mode = Mixed], x)
      /\ [e EXCEPT !.mode = Mixed].on = x.on /\ [e EXCEPT !.mode = Mixed].gain = x.gain
      /\ [e EXCEPT !.mode = Mixed].err = e.err
  BY <1>4, <1>6 DEF Ctx, SameMemory, SameFlags
<1> QED
  BY <1>1, <1>4, <1>5, <1>6, <1>7 DEF Smooth

LEMMA ControlsOutcome ==
    ASSUME NEW x \in Ctx
    PROVE  /\ Controls(x) \in Ctx /\ SameMemory(Controls(x), x)
           /\ Controls(x).on = x.on /\ Controls(x).mode = x.mode
           /\ ~ Controls(x).err => ~ x.err /\ Controls(x).gain = x.ctl
           /\ x.err => Controls(x) = x
           /\ Smooth(x) => ~ Controls(x).err
<1> DEFINE y == [x EXCEPT !.gain = x.ctl]
<1>1. y \in Ctx /\ y.err = x.err /\ SameMemory(y, x) /\ y.gain = x.ctl /\ y.on = x.on
      /\ y.mode = x.mode
  BY DEF Ctx, SameMemory, SameFlags
<1>2. "ctrl" \in Ops
  BY DEF Ops, RegOps
<1>3. Controls(x) = Try(x, "ctrl", y)
  BY DEF Controls
<1> HIDE DEF y
<1> QED
  BY <1>1, <1>2, <1>3, TryOutcome DEF SameMemory, SameFlags, SameSensor, Smooth

LEMMA SwitchOutcome ==
    ASSUME NEW x \in Ctx, NEW op \in Ops, NEW v \in BOOLEAN, NEW e,
           e = Try(x, op, [x EXCEPT !.on = v])
    PROVE  /\ e \in Ctx /\ SameMemory(e, x) /\ e.mode = x.mode /\ e.gain = x.gain
           /\ ~ e.err => ~ x.err /\ e.on = v
           /\ x.err => e = x
           /\ Smooth(x) => ~ e.err
<1> DEFINE y == [x EXCEPT !.on = v]
<1>1. y \in Ctx /\ y.err = x.err /\ SameMemory(y, x) /\ y.mode = x.mode /\ y.on = v
      /\ y.gain = x.gain
  BY DEF Ctx, SameMemory, SameFlags
<1>2. e = Try(x, op, y)
  OBVIOUS
<1> HIDE DEF y
<1> QED
  BY <1>1, <1>2, TryOutcome DEF SameMemory, SameFlags, SameSensor, Smooth

LEMMA CheckOutcome ==
    ASSUME NEW x \in Ctx, NEW op \in Ops
    PROVE  /\ Try(x, op, x) \in Ctx /\ SameMemory(Try(x, op, x), x) /\ SameSensor(Try(x, op, x), x)
           /\ ~ Try(x, op, x).err => ~ x.err
           /\ x.err => Try(x, op, x) = x
           /\ Smooth(x) => ~ Try(x, op, x).err
BY TryOutcome DEF SameMemory, SameFlags, SameSensor, Smooth

LEMMA OpNames == Ops = {"list", "ctrl", "on", "off", "state", "init", "get", "gpio"}
BY DEF Ops, RegOps

----------------------------------------------------------------------------
(* The invariant *)

Flagged == driver \notin {"imx415", "ar0830"}
Stub    == driver \in {"ar0233", "ar0820"}

\* In these s, a, b and q stand for started, asleep, bound and disturbed.  A
\* stream that runs has its reference, and is not stopped twice.
UsageGood(x, s) ==
    /\ x.usage >= 0
    /\ x.streaming => x.usage > 0
    /\ s /\ ~ Flagged => x.usage > 0

\* The driver's flag is the core's belief, but where a stream was lost.
FlagGood(x, s, a) ==
    /\ x.streaming => s /\ Flagged
    /\ s /\ ~ x.streaming /\ (Flagged \/ a) => x.blind
    /\ driver = "imx586" /\ a => ~ x.streaming
    /\ driver \notin {"ar0234", "imx586"} => ~ x.grab

\* isx031 knows which mode it wrote; the others have one mode.
ModeGood(x, s, a, b) ==
    /\ driver # "isx031" => x.cur = Default /\ (s => x.at = Default)
    /\ driver = "isx031" /\ b /\ ~ a => x.mode = x.pre \/ x.lapse = x.pre
    /\ driver = "ar0830" => x.mode \in {Unset, Default}
    /\ Stub /\ b /\ ~ a /\ ~ x.dead => x.on /\ x.mode = Default

SetGood(x, s, a) ==
    s /\ ~ a /\ ~ x.blind =>
        /\ x.on
        /\ x.mode = x.at \/ x.lapse = x.at
        /\ HasControls => x.gain = x.ctl

QuietGood(x, s, a, b, q) ==
    ~ q =>
        /\ ~ a /\ ~ x.dead
        /\ Flagged /\ s => x.streaming
        /\ driver # "imx586" => x.usage = IF s THEN 1 ELSE 0
        /\ x.grab => s
        /\ b /\ ~ s /\ ~ Stub => ~ x.on

Good(x, s, a, b, q) ==
    /\ UsageGood(x, s) /\ FlagGood(x, s, a) /\ ModeGood(x, s, a, b)
    /\ SetGood(x, s, a) /\ QuietGood(x, s, a, b, q)

\* A handler is called, and the calls it makes fail only when disturbed.
Ready(x, q) == x \in Ctx /\ ~ x.err /\ (~ q => x.op = "none")

Started(e, q)    == e \in Ctx /\ Good(e, ~ e.err, FALSE, TRUE, q)
Stopped(e, q)    == e \in Ctx /\ Good(e, e.err /\ driver \in StreamOps, FALSE, TRUE, q)
Suspended(e, s)  == e \in Ctx /\ Good(e, s, TRUE, TRUE, TRUE)
Resumed(e, s)    == e \in Ctx /\ Good(e, s, FALSE, TRUE, TRUE)
Probed(e, q)     == e \in Ctx /\ (~ e.err => Good(e, FALSE, FALSE, TRUE, q))

----------------------------------------------------------------------------
(* isx031 *)

LEMMA TransitOutcome ==
    ASSUME NEW x \in Ctx, NEW v \in BOOLEAN, NEW e, e = Isx031Transit(x, v)
    PROVE  /\ e \in Ctx /\ SameMemory(e, x) /\ e.mode = x.mode /\ e.gain = x.gain
           /\ ~ e.err => ~ x.err /\ e.on = v
           /\ x.err => e = x
           /\ Smooth(x) => ~ e.err
<1>1. PICK op \in Ops : op = IF v THEN "on" ELSE "off"
  BY OpNames
<1>2. PICK f : f = Try(x, op, [x EXCEPT !.on = v])
  OBVIOUS
<1>3. /\ f \in Ctx /\ SameMemory(f, x) /\ f.mode = x.mode /\ f.gain = x.gain
      /\ ~ f.err => ~ x.err /\ f.on = v
      /\ x.err => f = x
      /\ Smooth(x) => ~ f.err
  BY <1>2, SwitchOutcome
<1>4. e = Try(f, "state", f) /\ "state" \in Ops
  BY <1>1, <1>2, OpNames DEF Isx031Transit
<1> QED
  BY <1>3, <1>4, CheckOutcome DEF SameMemory, SameFlags, SameSensor, Smooth

LEMMA Isx031InitOutcome ==
    ASSUME NEW x \in Ctx, NEW e, e = Isx031Init(x)
    PROVE  /\ e \in Ctx /\ SameMemory(e, x)
           /\ ~ e.err => ~ x.err /\ ~ e.on
<1>1. PICK i : i = Try(x, "state", x)
  OBVIOUS
<1>2. i \in Ctx /\ SameMemory(i, x) /\ (~ i.err => ~ x.err)
  BY <1>1, CheckOutcome, OpNames
<1>3. PICK f : f = IF i.on THEN Isx031Transit(i, FALSE) ELSE i
  OBVIOUS
<1>4. f \in Ctx /\ SameMemory(f, x) /\ (~ f.err => ~ x.err /\ ~ f.on)
  <2>1. CASE i.on
    <3>1. f = Isx031Transit(i, FALSE)
      BY <1>3, <2>1
    <3>2. f \in Ctx /\ SameMemory(f, i) /\ (~ f.err => ~ i.err /\ f.on = FALSE)
      BY <1>2, <3>1, TransitOutcome
    <3> QED
      BY <1>2, <3>2 DEF SameMemory, SameFlags
  <2>2. CASE ~ i.on
    BY <1>2, <1>3, <2>2
  <2> QED
    BY <2>1, <2>2
<1>5. PICK g : g = Try(f, "init", f)
  OBVIOUS
<1>6. g \in Ctx /\ SameMemory(g, x) /\ (~ g.err => ~ x.err /\ ~ g.on)
  BY <1>4, <1>5, CheckOutcome, OpNames DEF SameMemory, SameFlags, SameSensor
<1>7. e = IF g.err /\ ~ f.err /\ ~ f.dead THEN [g EXCEPT !.mode = Mixed] ELSE g
  BY <1>1, <1>3, <1>5 DEF Isx031Init
<1>8. [g EXCEPT !.mode = Mixed] \in Ctx /\ SameMemory([g EXCEPT !.mode = Mixed], x)
      /\ [g EXCEPT !.mode = Mixed].err = g.err
  BY <1>6 DEF Ctx, SameMemory, SameFlags
<1> QED
  BY <1>6, <1>7, <1>8

\* What a start of isx031 leaves alone.
SameButMode(e, x) ==
    /\ e.usage = x.usage /\ e.streaming = x.streaming /\ e.grab = x.grab
    /\ e.cur = x.cur /\ e.ctl = x.ctl /\ e.dead = x.dead /\ e.at = x.at
    /\ e.blind = x.blind /\ e.op = x.op

Known(x) == x.mode = x.pre \/ x.lapse = x.pre

LEMMA Isx031StartOutcome ==
    ASSUME NEW x \in Ctx, Known(x), NEW e, e = Isx031Start(x)
    PROVE  /\ e \in Ctx /\ SameButMode(e, x) /\ Known(e)
           /\ ~ e.err => ~ x.err /\ e.on /\ e.pre = e.cur /\ (x.mode = x.cur => e.mode = e.cur)
           /\ Smooth(x) => ~ e.err
<1>1. CASE x.cur = x.pre
  <2>1. e = Isx031Transit(x, TRUE)
    BY <1>1 DEF Isx031Start
  <2>2. /\ e \in Ctx /\ SameMemory(e, x) /\ e.mode = x.mode
        /\ ~ e.err => ~ x.err /\ e.on = TRUE
        /\ Smooth(x) => ~ e.err
    BY <2>1, TransitOutcome
  <2> QED
    BY <1>1, <2>2 DEF SameMemory, SameFlags, SameButMode, Known
<1>2. CASE x.cur # x.pre
  <2>1. PICK w : w = WriteList(x)
    OBVIOUS
  <2>2. /\ w \in Ctx /\ SameMemory(w, x)
        /\ ~ w.err => ~ x.err /\ w.mode = x.cur
        /\ Smooth(x) => ~ w.err
    BY <2>1, ListOutcome
  <2>3. CASE w.err
    <3>1. e = [w EXCEPT !.lapse = x.pre]
      BY <1>2, <2>1, <2>3 DEF Isx031Start
    <3> QED
      BY <2>2, <2>3, <3>1 DEF SameMemory, SameFlags, SameButMode, Known, Ctx
  <2>4. CASE ~ w.err
    <3>1. PICK y : y = [w EXCEPT !.pre = x.cur, !.lapse = NoMode]
      OBVIOUS
    <3>2. y \in Ctx /\ SameButMode(y, x) /\ y.mode = y.pre /\ y.pre = y.cur /\ y.err = w.err
      BY <2>2, <2>4, <3>1 DEF SameMemory, SameFlags, SameButMode, Ctx, Kinds
    <3>3. e = Isx031Transit(y, TRUE)
      BY <1>2, <2>1, <2>4, <2>2, <3>1 DEF Isx031Start, SameMemory, SameFlags
    <3>4. e \in Ctx /\ SameMemory(e, y) /\ e.mode = y.mode
          /\ (~ e.err => e.on) /\ (Smooth(y) => ~ e.err)
      BY <3>2, <3>3, TransitOutcome
    <3> QED
      BY <2>2, <2>4, <3>2, <3>4 DEF SameMemory, SameFlags, SameButMode, Known, Smooth
  <2> QED
    BY <2>3, <2>4
<1> QED
  BY <1>1, <1>2

LEMMA Isx031StopOutcome ==
    ASSUME NEW x \in Ctx, NEW e, e = Isx031Stop(x)
    PROVE  /\ e \in Ctx /\ SameMemory(e, x) /\ e.mode = x.mode /\ ~ e.err
           /\ x.op = "none" /\ ~ x.dead => ~ e.on
<1>1. PICK y : y = Ignored(x)
  OBVIOUS
<1>2. y \in Ctx /\ SameMemory(y, x) /\ y.mode = x.mode /\ ~ y.err
  BY <1>1 DEF Ignored, Ctx, SameMemory, SameFlags
<1>3. PICK f : f = Isx031Transit(y, FALSE)
  OBVIOUS
<1>4. f \in Ctx /\ SameMemory(f, y) /\ f.mode = y.mode
      /\ (~ f.err => ~ f.on) /\ (Smooth(y) => ~ f.err)
  BY <1>2, <1>3, TransitOutcome
<1>5. e = [f EXCEPT !.err = FALSE]
  BY <1>1, <1>3 DEF Isx031Stop, Ignored
<1> QED
  <2>1. e \in Ctx /\ SameMemory(e, f) /\ e.mode = f.mode /\ e.on = f.on /\ ~ e.err
    BY <1>4, <1>5 DEF SameMemory, SameFlags, Ctx
  <2>2. x.op = "none" /\ ~ x.dead => Smooth(y)
    BY <1>2 DEF SameMemory, SameFlags, Smooth
  <2> QED
    BY <1>2, <1>4, <2>1, <2>2 DEF SameMemory, SameFlags

LEMMA Counting ==
    \A n, m \in Int :
        /\ n >= 0 /\ m = n + 1 => m > 0 /\ m >= 0 /\ (n = 0 => m = 1)
        /\ m = n + 1 => m - 1 = n
        /\ n > 0 /\ m = n - 1 => m >= 0 /\ (n = 1 => m = 0)
OBVIOUS

LEMMA Isx031Starts ==
    ASSUME driver = "isx031", NEW q \in BOOLEAN, NEW x, Ready(x, q),
           Good(x, FALSE, FALSE, TRUE, q), ~ x.blind, x.at = x.cur
    PROVE  Started(Isx031Stream(x, TRUE), q)
<1> DEFINE e == Isx031Stream(x, TRUE)
<1>1. x \in Ctx /\ ~ x.err /\ x.streaming = FALSE /\ Known(x) /\ x.usage >= 0 /\ ~ x.grab
  BY DEF Ready, Good, FlagGood, ModeGood, UsageGood, Known, Ctx
<1>2. ~ q => Smooth(x) /\ x.usage = 0 /\ ~ x.grab /\ ~ x.on
  BY <1>1 DEF Ready, Good, QuietGood, Smooth, Stub
<1>3. PICK g : g = Get(x)
  OBVIOUS
<1>4. /\ g \in Ctx /\ SameSensor(g, x)
      /\ SameFlags(g, x)
      /\ ~ g.err => g.usage = x.usage + 1
      /\ g.err => g.usage = x.usage
      /\ Smooth(x) => ~ g.err
  BY <1>1, <1>3, GetOutcome
<1>5. CASE g.err
  <2>1. e = g
    BY <1>1, <1>3, <1>5 DEF Isx031Stream
  <2>2. e \in Ctx /\ e.err = TRUE /\ e.usage = x.usage /\ e.streaming = FALSE /\ ~ e.grab
    BY <1>1, <1>4, <1>5, <2>1 DEF SameFlags, Ctx
  <2>3. Known(e)
    BY <1>1, <1>4, <2>1 DEF Known, SameFlags, SameSensor
  <2>4. q
    BY <1>2, <1>4, <1>5
  <2> QED
    BY <1>1, <2>2, <2>3, <2>4 DEF Started, Good, UsageGood, FlagGood, ModeGood, SetGood,
       QuietGood, Known, Stub, Flagged
<1>6. CASE ~ g.err
  <2>1. Known(g) /\ g.usage = x.usage + 1 /\ g.streaming = FALSE /\ g.at = g.cur /\ ~ g.blind
        /\ g.op = x.op /\ g.dead = x.dead /\ g.grab = x.grab
    BY <1>1, <1>4, <1>6 DEF Known, SameFlags, SameSensor
  <2>2. PICK s : s = Isx031Start(g)
    OBVIOUS
  <2>3. /\ s \in Ctx /\ SameButMode(s, g) /\ Known(s)
        /\ ~ s.err => s.on /\ s.pre = s.cur
        /\ Smooth(g) => ~ s.err
    BY <1>4, <2>1, <2>2, Isx031StartOutcome
  <2>4. CASE s.err
    <3>1. PICK t : t = Isx031Stop(s)
      OBVIOUS
    <3>2. t \in Ctx /\ SameMemory(t, s) /\ t.mode = s.mode
      BY <2>3, <3>1, Isx031StopOutcome
    <3>3. PICK u : u = Put(t)
      OBVIOUS
    <3>4. e = [u EXCEPT !.err = TRUE]
      BY <1>1, <1>3, <1>6, <2>2, <2>4, <3>1, <3>3 DEF Isx031Stream, Failed
    <3>5. /\ u \in Ctx /\ u.usage = x.usage /\ u.streaming = FALSE /\ Known(u) /\ ~ u.grab
      <4>1. u \in Ctx /\ u.usage = t.usage - 1 /\ SameFlags(u, t) /\ SameSensor(u, t)
        BY <3>2, <3>3, PutOutcome
      <4>2. t.usage = x.usage + 1 /\ x.usage \in Int
        BY <1>1, <2>1, <2>3, <3>2 DEF SameMemory, SameFlags, SameButMode, Ctx
      <4> QED
        BY <1>1, <2>1, <2>3, <3>2, <4>1, <4>2
           DEF SameMemory, SameFlags, SameButMode, SameSensor, Known
    <3>6. q
      BY <1>2, <1>6, <2>1, <2>3, <2>4 DEF Smooth
    <3>7. /\ e \in Ctx /\ e.err /\ e.usage = x.usage /\ e.streaming = FALSE /\ Known(e) /\ ~ e.grab
      BY <3>4, <3>5 DEF Ctx, Known
    <3> QED
      BY <1>1, <3>6, <3>7 DEF Started, Good, UsageGood, FlagGood, ModeGood, SetGood,
         QuietGood, Flagged, Stub, Known
  <2>5. CASE ~ s.err
    <3>1. e = [s EXCEPT !.streaming = TRUE]
      BY <1>1, <1>3, <1>6, <2>2, <2>5 DEF Isx031Stream
    <3>2. e \in Ctx /\ ~ e.err /\ e.streaming = TRUE /\ e.usage = s.usage /\ e.mode = s.mode
          /\ e.lapse = s.lapse /\ e.pre = s.pre /\ e.at = s.at /\ e.on = s.on /\ e.dead = s.dead
          /\ e.grab = s.grab
      BY <2>3, <2>5, <3>1 DEF Ctx
    <3>3. s.usage = x.usage + 1 /\ s.pre = s.at /\ s.dead = x.dead /\ ~ s.grab
      BY <1>1, <2>1, <2>3, <2>5 DEF SameButMode
    <3>4. Known(e) /\ e.pre = e.at /\ e.on /\ ~ e.grab
      BY <2>3, <2>5, <3>2, <3>3 DEF Known
    <3>5. e.usage > 0 /\ e.usage >= 0 /\ (x.usage = 0 => e.usage = 1)
      <4>1. e.usage = x.usage + 1 /\ x.usage \in Int /\ e.usage \in Int /\ x.usage >= 0
        BY <1>1, <3>2, <3>3 DEF Ctx
      <4> QED
        BY <4>1, Counting
    <3>6. ~ q => ~ e.dead /\ e.usage = 1
      BY <1>2, <3>2, <3>3, <3>5 DEF Smooth
    <3> QED
      BY <3>2, <3>4, <3>5, <3>6 DEF Started, Good, UsageGood, FlagGood, ModeGood, SetGood,
         QuietGood, Flagged, Stub, Known, HasControls
  <2> QED
    BY <2>4, <2>5
<1> QED
  BY <1>5, <1>6

LEMMA Isx031Stops ==
    ASSUME driver = "isx031", NEW q \in BOOLEAN, NEW x, Ready(x, q),
           Good(x, TRUE, FALSE, TRUE, q)
    PROVE  Stopped(Isx031Stream(x, FALSE), q)
<1> DEFINE e == Isx031Stream(x, FALSE)
<1>1. x \in Ctx /\ ~ x.err /\ ~ x.grab /\ Known(x) /\ x.usage >= 0
      /\ (x.streaming => x.usage > 0)
  BY DEF Ready, Good, FlagGood, ModeGood, UsageGood, Known
<1>2. ~ q => Smooth(x) /\ x.usage = 1 /\ x.streaming
  BY <1>1 DEF Ready, Good, QuietGood, Smooth, Flagged
<1>3. CASE x.streaming = FALSE
  <2>1. e = x
    BY <1>3 DEF Isx031Stream
  <2> QED
    BY <1>1, <1>2, <1>3, <2>1 DEF Stopped, Good, UsageGood, FlagGood, ModeGood, SetGood,
       QuietGood, Flagged, Stub, Known
<1>4. CASE x.streaming = TRUE
  <2>1. PICK t : t = Isx031Stop(x)
    OBVIOUS
  <2>2. t \in Ctx /\ SameMemory(t, x) /\ t.mode = x.mode /\ ~ t.err /\ (Smooth(x) => ~ t.on)
    BY <1>1, <2>1, Isx031StopOutcome DEF Smooth
  <2>3. PICK u : u = Put(t)
    OBVIOUS
  <2>4. u \in Ctx /\ SameSensor(u, t) /\ u.usage = t.usage - 1 /\ SameFlags(u, t) /\ u.err = t.err
    BY <2>2, <2>3, PutOutcome
  <2>5. e = [u EXCEPT !.streaming = FALSE]
    BY <1>4, <2>1, <2>3 DEF Isx031Stream
  <2>6. /\ e \in Ctx /\ e.err = u.err /\ e.usage = u.usage /\ e.streaming = FALSE /\ e.on = u.on
        /\ e.mode = u.mode /\ e.pre = u.pre /\ e.lapse = u.lapse /\ e.dead = u.dead
        /\ e.grab = u.grab
    BY <2>4, <2>5 DEF Ctx
  <2>7. Known(e) /\ ~ e.err /\ ~ e.grab
    BY <1>1, <2>2, <2>4, <2>6 DEF SameMemory, SameFlags, SameSensor, Known
  <2>8. e.usage >= 0 /\ (x.usage = 1 => e.usage = 0)
    <3>1. e.usage = x.usage - 1 /\ x.usage \in Int /\ e.usage \in Int /\ x.usage > 0
      BY <1>1, <1>4, <2>2, <2>4, <2>6 DEF SameMemory, Ctx
    <3> QED
      BY <3>1, Counting
  <2>9. ~ q => ~ e.on /\ ~ e.dead
    <3>1. e.on = t.on /\ e.dead = x.dead
      BY <2>2, <2>4, <2>6 DEF SameMemory, SameFlags, SameSensor
    <3> QED
      BY <1>2, <2>2, <3>1 DEF Smooth
  <2> QED
    BY <1>2, <2>6, <2>7, <2>8, <2>9 DEF Stopped, Good, UsageGood, FlagGood, ModeGood, SetGood,
       QuietGood, Flagged, Stub, Known
<1> QED
  BY <1>1, <1>3, <1>4 DEF Ctx

LEMMA Isx031Suspends ==
    ASSUME driver = "isx031", NEW c \in BOOLEAN, NEW x \in Ctx, Good(x, c, FALSE, TRUE, TRUE)
    PROVE  Suspended(Isx031Suspend(x), c)
<1>1. PICK t : t = Isx031Stop(x)
  OBVIOUS
<1>2. t \in Ctx /\ SameMemory(t, x)
  BY <1>1, Isx031StopOutcome
<1>3. Isx031Suspend(x) \in {x, t}
  BY <1>1 DEF Isx031Suspend
<1>4. Good(x, c, TRUE, TRUE, TRUE)
  BY DEF Good, UsageGood, FlagGood, ModeGood, SetGood, QuietGood, Stub, Flagged
<1>5. Good(t, c, TRUE, TRUE, TRUE)
  BY <1>2, <1>4 DEF Good, UsageGood, FlagGood, ModeGood, SetGood, QuietGood, Stub, Flagged,
     SameMemory, SameFlags
<1> QED
  BY <1>2, <1>3, <1>4, <1>5 DEF Suspended

LEMMA Isx031Resumes ==
    ASSUME driver = "isx031", NEW c \in BOOLEAN, NEW x \in Ctx, Good(x, c, TRUE, TRUE, TRUE)
    PROVE  Resumed(Isx031Resume(x), c)
<1> DEFINE e == Isx031Resume(x)
<1>1. PICK i : i = Try(x, "state", x)
  OBVIOUS
<1>2. i \in Ctx /\ SameMemory(i, x)
  BY <1>1, CheckOutcome, OpNames
<1>3. PICK j : j = Isx031Init(i)
  OBVIOUS
<1>4. j \in Ctx /\ SameMemory(j, x)
  BY <1>2, <1>3, Isx031InitOutcome DEF SameMemory, SameFlags
<1>5. PICK w : w = WriteList(j)
  OBVIOUS
<1>6. w \in Ctx /\ SameMemory(w, x) /\ (~ w.err => w.mode = w.cur)
  BY <1>4, <1>5, ListOutcome DEF SameMemory, SameFlags
<1>7. PICK r : r = [w EXCEPT !.lapse = IF w.err \/ x.cur # x.pre THEN x.pre ELSE @]
  OBVIOUS
<1>8. r \in Ctx /\ SameButMode(r, x) /\ r.pre = x.pre /\ r.mode = w.mode /\ r.err = w.err
      /\ (w.err \/ x.cur # x.pre => r.lapse = x.pre)
  BY <1>6, <1>7 DEF SameMemory, SameFlags, SameButMode, Ctx
<1>9. Known(r) /\ (~ r.err => r.mode = r.cur)
  BY <1>6, <1>8 DEF SameMemory, SameFlags, SameButMode, Known
<1>10. /\ x.usage >= 0 /\ (x.streaming => x.usage > 0 /\ c) /\ ~ x.grab
       /\ c /\ ~ x.streaming => x.blind
  BY DEF Good, UsageGood, FlagGood, Flagged
<1>11. CASE ~ x.streaming
  <2>1. e = r
    BY <1>1, <1>3, <1>5, <1>7, <1>11 DEF Isx031Resume
  <2>2. e \in Ctx /\ e.usage = x.usage /\ ~ e.streaming /\ ~ e.grab /\ (c => e.blind)
    BY <1>8, <1>10, <1>11, <2>1 DEF SameButMode
  <2> QED
    BY <1>9, <1>10, <2>1, <2>2 DEF Resumed, Good, UsageGood, FlagGood, ModeGood, SetGood,
       QuietGood, Flagged, Stub, Known
<1>12. CASE x.streaming /\ r.err
  <2>1. e = [r EXCEPT !.blind = TRUE]
    BY <1>1, <1>3, <1>5, <1>7, <1>12 DEF Isx031Resume
  <2>2. e \in Ctx /\ e.usage = x.usage /\ e.streaming /\ ~ e.grab /\ e.blind /\ Known(e)
    BY <1>8, <1>9, <1>10, <1>12, <2>1 DEF SameButMode, Known, Ctx
  <2> QED
    BY <1>10, <1>12, <2>2 DEF Resumed, Good, UsageGood, FlagGood, ModeGood, SetGood,
       QuietGood, Flagged, Stub, Known
<1>13. CASE x.streaming /\ ~ r.err
  <2>1. PICK s : s = Isx031Start(r)
    OBVIOUS
  <2>2. s \in Ctx /\ SameButMode(s, x) /\ Known(s) /\ (~ s.err => s.on /\ s.mode = s.cur)
    <3>1. /\ s \in Ctx /\ SameButMode(s, r) /\ Known(s)
          /\ ~ s.err => s.on /\ (r.mode = r.cur => s.mode = s.cur)
      BY <1>8, <1>9, <2>1, Isx031StartOutcome
    <3> QED
      BY <1>8, <1>9, <1>13, <3>1 DEF SameButMode
  <2>3. CASE s.err
    <3>1. PICK t : t = Isx031Stop(s)
      OBVIOUS
    <3>2. t \in Ctx /\ SameMemory(t, s) /\ t.mode = s.mode
      BY <2>2, <3>1, Isx031StopOutcome
    <3>3. PICK u : u = [t EXCEPT !.streaming = FALSE, !.blind = TRUE]
      OBVIOUS
    <3>4. e = [u EXCEPT !.err = TRUE]
      BY <1>1, <1>3, <1>5, <1>7, <1>13, <2>1, <2>3, <3>1, <3>3 DEF Isx031Resume, Failed
    <3>5. e \in Ctx /\ e.usage = t.usage /\ e.streaming = FALSE /\ e.blind = TRUE
          /\ e.grab = t.grab /\ e.mode = t.mode /\ e.pre = t.pre /\ e.lapse = t.lapse
      BY <3>2, <3>3, <3>4 DEF Ctx
    <3>6. Known(e) /\ e.usage = x.usage /\ ~ e.grab
      BY <1>10, <2>2, <3>2, <3>5 DEF SameMemory, SameFlags, SameButMode, Known
    <3> QED
      BY <1>10, <3>5, <3>6 DEF Resumed, Good, UsageGood, FlagGood, ModeGood, SetGood,
         QuietGood, Flagged, Stub, Known
  <2>4. CASE ~ s.err
    <3>1. e = [s EXCEPT !.at = x.cur]
      BY <1>1, <1>3, <1>5, <1>7, <1>13, <2>1, <2>4 DEF Isx031Resume
    <3>2. e \in Ctx /\ e.usage = s.usage /\ e.streaming = s.streaming /\ e.grab = s.grab
          /\ e.on = s.on /\ e.mode = s.mode /\ e.at = x.cur /\ e.pre = s.pre /\ e.lapse = s.lapse
      BY <2>2, <3>1 DEF Ctx, Kinds
    <3>3. e.usage = x.usage /\ e.streaming /\ ~ e.grab /\ Known(e) /\ e.on /\ e.mode = e.at
      BY <1>10, <1>13, <2>2, <2>4, <3>2 DEF SameButMode, Known
    <3> QED
      BY <1>10, <1>13, <3>2, <3>3 DEF Resumed, Good, UsageGood, FlagGood, ModeGood, SetGood,
         QuietGood, Flagged, Stub, Known, HasControls
  <2> QED
    BY <2>3, <2>4
<1> QED
  BY <1>11, <1>12, <1>13

LEMMA Isx031Probes ==
    ASSUME driver = "isx031", NEW q \in BOOLEAN, NEW x \in Ctx,
           Good(x, FALSE, FALSE, FALSE, q)
    PROVE  Probed(Isx031Probe(x), q)
<1>1. PICK i : i = Try(x, "state", x)
  OBVIOUS
<1>2. i \in Ctx /\ SameMemory(i, x)
  BY <1>1, CheckOutcome, OpNames
<1>3. PICK j : j = Isx031Init(i)
  OBVIOUS
<1>4. j \in Ctx /\ SameMemory(j, x) /\ (~ j.err => ~ j.on)
  BY <1>2, <1>3, Isx031InitOutcome DEF SameMemory, SameFlags
<1>5. PICK w : w = WriteList(j)
  OBVIOUS
<1>6. w \in Ctx /\ SameMemory(w, x) /\ (~ w.err => w.mode = w.cur /\ ~ w.on)
  BY <1>4, <1>5, ListOutcome DEF SameMemory, SameFlags
<1>7. Isx031Probe(x) = IF w.err THEN w ELSE [w EXCEPT !.pre = w.cur]
  BY <1>1, <1>3, <1>5 DEF Isx031Probe
<1>8. /\ x.usage >= 0 /\ ~ x.streaming /\ ~ x.grab
      /\ ~ q => x.usage = 0 /\ ~ x.dead
  BY DEF Good, UsageGood, FlagGood, QuietGood, Flagged
<1>9. CASE ~ w.err
  <2>1. PICK e : e = [w EXCEPT !.pre = w.cur]
    OBVIOUS
  <2>2. e \in Ctx /\ e.usage = x.usage /\ e.streaming = x.streaming /\ e.grab = x.grab
        /\ e.dead = x.dead /\ e.mode = e.pre /\ ~ e.on
    BY <1>6, <1>9, <2>1 DEF SameMemory, SameFlags, Ctx, Kinds
  <2>3. Good(e, FALSE, FALSE, TRUE, q)
    BY <1>8, <2>2 DEF Good, UsageGood, FlagGood, ModeGood, SetGood, QuietGood, Flagged, Stub
  <2> QED
    BY <1>7, <1>9, <2>1, <2>2, <2>3 DEF Probed
<1> QED
  BY <1>6, <1>7, <1>9 DEF Probed

----------------------------------------------------------------------------
(* ar0234 *)

LEMMA LostOutcome ==
    ASSUME NEW x \in Ctx
    PROVE  /\ Lost(x) \in Ctx /\ SameMemory(Lost(x), x) /\ Lost(x).err = x.err
           /\ ~ Lost(x).on /\ Lost(x).mode = Unset
BY DEF Lost, Ctx, SameMemory, SameFlags, Values

\* What changing a stream with its flag leaves alone.
SameButFlag(e, x) ==
    /\ e.usage = x.usage /\ e.grab = x.grab
    /\ e.cur = x.cur /\ e.pre = x.pre /\ e.ctl = x.ctl /\ e.dead = x.dead
    /\ e.at = x.at /\ e.lapse = x.lapse /\ e.blind = x.blind /\ e.op = x.op

LEMMA RunOutcome ==
    ASSUME NEW x \in Ctx, NEW op \in Ops, NEW y \in Ctx, SameButFlag(y, x),
           y.mode = x.mode, y.gain = x.gain, y.err = x.err
    PROVE  /\ Try(x, op, y) \in Ctx /\ SameButFlag(Try(x, op, y), x)
           /\ Try(x, op, y).mode = x.mode /\ Try(x, op, y).gain = x.gain
           /\ ~ Try(x, op, y).err => ~ x.err /\ Try(x, op, y) = y
           /\ Try(x, op, y).err => Try(x, op, y).on = x.on /\ Try(x, op, y).streaming = x.streaming
           /\ Smooth(x) => ~ Try(x, op, y).err
<1>1. PICK e : e = Try(x, op, y)
  OBVIOUS
<1>2. /\ e \in Ctx
      /\ e = y \/ (e.err /\ SameMemory(e, x) /\ SameSensor(e, x))
      /\ x.err => e = x
      /\ Smooth(x) => e = y
  BY <1>1, TryOutcome
<1>3. CASE e = y /\ ~ x.err
  BY <1>1, <1>2, <1>3
<1>4. CASE e.err /\ SameMemory(e, x) /\ SameSensor(e, x)
  BY <1>1, <1>2, <1>4 DEF SameMemory, SameFlags, SameSensor, SameButFlag, Smooth
<1>5. CASE x.err
  BY <1>1, <1>2, <1>5 DEF SameButFlag, Smooth
<1> QED
  BY <1>2, <1>3, <1>4, <1>5

LEMMA Ar0234StartOutcome ==
    ASSUME NEW x \in Ctx, NEW e, e = Ar0234Start(x)
    PROVE  /\ e \in Ctx /\ SameButFlag(e, x)
           /\ ~ e.err => ~ x.err /\ e.on /\ e.streaming /\ e.mode = x.cur /\ e.gain = x.ctl
           /\ e.err => e.streaming = x.streaming
           /\ Smooth(x) => ~ e.err
<1>1. PICK r : r = Try(x, "init", Lost(x))
  OBVIOUS
<1>2. r \in Ctx /\ SameMemory(r, x) /\ (~ r.err => ~ x.err) /\ (Smooth(x) => ~ r.err)
  <2>1. /\ r \in Ctx
        /\ r = Lost(x) \/ (r.err /\ SameMemory(r, x) /\ SameSensor(r, x))
        /\ x.err => r = x
        /\ Smooth(x) => r = Lost(x)
    BY <1>1, LostOutcome, TryOutcome, OpNames
  <2> QED
    BY <2>1, LostOutcome DEF Smooth
<1>3. PICK w : w = WriteList(r)
  OBVIOUS
<1>4. /\ w \in Ctx /\ SameMemory(w, x) /\ (~ w.err => ~ x.err /\ w.mode = x.cur)
      /\ Smooth(x) => ~ w.err
  <2>1. /\ w \in Ctx /\ SameMemory(w, r)
        /\ ~ w.err => ~ r.err /\ w.mode = r.cur
        /\ Smooth(r) => ~ w.err
    BY <1>2, <1>3, ListOutcome
  <2> QED
    BY <1>2, <2>1 DEF SameMemory, SameFlags, Smooth
<1>5. PICK y : y = Controls(w)
  OBVIOUS
<1>6. /\ y \in Ctx /\ SameMemory(y, x)
      /\ ~ y.err => ~ x.err /\ y.mode = x.cur /\ y.gain = x.ctl
      /\ Smooth(x) => ~ y.err
  <2>1. /\ y \in Ctx /\ SameMemory(y, w) /\ y.mode = w.mode
        /\ ~ y.err => ~ w.err /\ y.gain = w.ctl
        /\ Smooth(w) => ~ y.err
    BY <1>4, <1>5, ControlsOutcome
  <2> QED
    BY <1>4, <2>1 DEF SameMemory, SameFlags, Smooth
<1>7. PICK z : z = [y EXCEPT !.on = TRUE, !.streaming = TRUE]
  OBVIOUS
<1>8. /\ e \in Ctx /\ SameButFlag(e, y) /\ e.mode = y.mode /\ e.gain = y.gain
      /\ ~ e.err => ~ y.err /\ e.on /\ e.streaming
      /\ e.err => e.streaming = y.streaming
      /\ Smooth(y) => ~ e.err
  <2>1. e = Try(y, "on", z) /\ "on" \in Ops
    BY <1>1, <1>3, <1>5, <1>7, OpNames DEF Ar0234Start
  <2>2. /\ z \in Ctx /\ SameButFlag(z, y) /\ z.mode = y.mode /\ z.gain = y.gain
        /\ z.err = y.err /\ z.on /\ z.streaming
    BY <1>6, <1>7 DEF Ctx, SameButFlag
  <2> QED
    BY <1>6, <2>1, <2>2, RunOutcome
<1> QED
  BY <1>6, <1>8 DEF SameMemory, SameFlags, SameButFlag, Smooth

LEMMA Ar0234StopOutcome ==
    ASSUME NEW x \in Ctx, NEW e, e = Ar0234Stop(x)
    PROVE  /\ e \in Ctx /\ SameButFlag(e, x) /\ e.mode = x.mode /\ e.gain = x.gain
           /\ ~ e.err => ~ e.on /\ ~ e.streaming
           /\ e.err => e.on = x.on /\ e.streaming = x.streaming
           /\ Smooth(x) => ~ e.err
<1>1. PICK z : z = [x EXCEPT !.on = FALSE, !.streaming = FALSE]
  OBVIOUS
<1>2. e = Try(x, "off", z) /\ "off" \in Ops
  BY <1>1, OpNames DEF Ar0234Stop
<1>3. /\ z \in Ctx /\ SameButFlag(z, x) /\ z.mode = x.mode /\ z.gain = x.gain
      /\ z.err = x.err /\ ~ z.on /\ ~ z.streaming
  BY <1>1 DEF Ctx, SameButFlag
<1> QED
  BY <1>2, <1>3, RunOutcome

LEMMA IgnoredOutcome ==
    ASSUME NEW x \in Ctx
    PROVE  /\ Ignored(x) \in Ctx /\ SameMemory(Ignored(x), x) /\ SameSensor(Ignored(x), x)
           /\ ~ Ignored(x).err
BY DEF Ignored, Ctx, SameMemory, SameFlags, SameSensor

LEMMA Ar0234Starts ==
    ASSUME driver = "ar0234", NEW q \in BOOLEAN, NEW x, Ready(x, q),
           Good(x, FALSE, FALSE, TRUE, q), ~ x.blind, x.at = x.cur
    PROVE  Started(Ar0234Stream(x, TRUE), q)
<1> DEFINE e == Ar0234Stream(x, TRUE)
<1>1. x \in Ctx /\ ~ x.err /\ x.streaming = FALSE /\ x.usage >= 0 /\ x.cur = Default
  BY DEF Ready, Good, FlagGood, ModeGood, UsageGood, Ctx
<1>2. ~ q => Smooth(x) /\ x.usage = 0 /\ ~ x.grab
  BY <1>1 DEF Ready, Good, QuietGood, Smooth, Stub
<1>3. PICK g : g = Get(x)
  OBVIOUS
<1>4. /\ g \in Ctx /\ SameFlags(g, x)
      /\ ~ g.err => g.usage = x.usage + 1
      /\ g.err => g.usage = x.usage
      /\ Smooth(x) => ~ g.err
  BY <1>1, <1>3, GetOutcome
<1>5. CASE g.err
  <2>1. e = g
    BY <1>1, <1>3, <1>5 DEF Ar0234Stream
  <2>2. e \in Ctx /\ e.err = TRUE /\ e.usage = x.usage /\ e.streaming = FALSE /\ e.cur = Default
    BY <1>1, <1>4, <1>5, <2>1 DEF SameFlags
  <2>3. q
    BY <1>2, <1>4, <1>5
  <2> QED
    BY <1>1, <2>2, <2>3 DEF Started, Good, UsageGood, FlagGood, ModeGood, SetGood, QuietGood,
       Stub, Flagged
<1>6. CASE ~ g.err
  <2>1. PICK s : s = Ar0234Start(g)
    OBVIOUS
  <2>2. /\ s \in Ctx /\ SameButFlag(s, g)
        /\ ~ s.err => s.on /\ s.streaming /\ s.mode = g.cur /\ s.gain = g.ctl
        /\ s.err => s.streaming = g.streaming
        /\ Smooth(g) => ~ s.err
    BY <1>4, <2>1, Ar0234StartOutcome
  <2>3. s.usage = x.usage + 1 /\ s.at = Default /\ s.cur = Default /\ s.dead = x.dead
    BY <1>1, <1>4, <1>6, <2>2 DEF SameFlags, SameButFlag
  <2>4. CASE s.err
    <3>1. PICK t : t = Ar0234Stop(Ignored(s))
      OBVIOUS
    <3>2. t \in Ctx /\ SameButFlag(t, s) /\ ~ t.streaming
      <4>0. Ignored(s) \in Ctx /\ SameMemory(Ignored(s), s)
        BY <2>2, IgnoredOutcome
      <4>1. /\ t \in Ctx /\ SameButFlag(t, Ignored(s))
            /\ ~ t.err => ~ t.streaming
            /\ t.err => t.streaming = Ignored(s).streaming
        BY <4>0, <3>1, Ar0234StopOutcome
      <4>2. ~ Ignored(s).streaming
        BY <1>1, <1>4, <2>2, <2>4, <4>0 DEF SameMemory, SameFlags
      <4> QED
        BY <4>0, <4>1, <4>2 DEF SameMemory, SameFlags, SameButFlag
    <3>3. PICK u : u = Put(t)
      OBVIOUS
    <3>4. u \in Ctx /\ u.usage = t.usage - 1 /\ SameFlags(u, t) /\ u.err = t.err
      BY <3>2, <3>3, PutOutcome
    <3>5. e = [u EXCEPT !.blind = ~ t.err]
      BY <1>1, <1>3, <1>6, <2>1, <2>4, <3>1, <3>3 DEF Ar0234Stream
    <3>6. e \in Ctx /\ e.usage = u.usage /\ e.streaming = u.streaming /\ e.err = u.err
          /\ e.blind = ~ t.err /\ e.cur = u.cur /\ e.at = u.at
      BY <3>2, <3>4, <3>5 DEF Ctx
    <3>7. e.usage = x.usage
      <4>1. t.usage = x.usage + 1 /\ x.usage \in Int /\ t.usage \in Int
        BY <1>1, <2>3, <3>2 DEF SameButFlag, Ctx
      <4>2. e.usage = t.usage - 1
        BY <3>4, <3>6
      <4> QED
        BY <4>1, <4>2, Counting
    <3>8. ~ e.streaming /\ (~ e.err => e.blind) /\ e.cur = Default /\ e.at = Default
      BY <2>3, <3>2, <3>4, <3>6 DEF SameFlags, SameButFlag
    <3>9. q
      BY <1>2, <1>4, <1>6, <2>2, <2>4 DEF Smooth, SameFlags
    <3> QED
      BY <1>1, <3>6, <3>7, <3>8, <3>9 DEF Started, Good, UsageGood, FlagGood, ModeGood, SetGood,
         QuietGood, Stub, Flagged
  <2>5. CASE ~ s.err
    <3>1. e = [s EXCEPT !.grab = TRUE]
      BY <1>1, <1>3, <1>6, <2>1, <2>5 DEF Ar0234Stream
    <3>2. e \in Ctx /\ ~ e.err /\ e.usage = s.usage /\ e.streaming = s.streaming /\ e.on = s.on
          /\ e.mode = s.mode /\ e.gain = s.gain /\ e.ctl = s.ctl /\ e.cur = s.cur /\ e.at = s.at
          /\ e.dead = s.dead
      BY <2>2, <2>5, <3>1 DEF Ctx
    <3>3. e.streaming /\ e.on /\ e.mode = e.at /\ e.gain = e.ctl /\ e.cur = Default
          /\ e.at = Default /\ e.dead = x.dead
      BY <1>1, <1>4, <2>2, <2>3, <2>5, <3>2 DEF SameFlags, SameButFlag
    <3>4. e.usage > 0 /\ e.usage >= 0 /\ (x.usage = 0 => e.usage = 1)
      <4>1. e.usage = x.usage + 1 /\ x.usage \in Int /\ e.usage \in Int /\ x.usage >= 0
        BY <1>1, <2>3, <3>2 DEF Ctx
      <4> QED
        BY <4>1, Counting
    <3>5. ~ q => e.usage = 1 /\ ~ e.dead
      BY <1>2, <3>3, <3>4 DEF Smooth
    <3> QED
      BY <3>2, <3>3, <3>4, <3>5 DEF Started, Good, UsageGood, FlagGood, ModeGood, SetGood,
         QuietGood, Stub, Flagged
  <2> QED
    BY <2>4, <2>5
<1> QED
  BY <1>5, <1>6

LEMMA Ar0234Stops ==
    ASSUME driver = "ar0234", NEW q \in BOOLEAN, NEW x, Ready(x, q),
           Good(x, TRUE, FALSE, TRUE, q)
    PROVE  Stopped(Ar0234Stream(x, FALSE), q)
<1> DEFINE e == Ar0234Stream(x, FALSE)
<1>1. /\ x \in Ctx /\ ~ x.err /\ x.usage >= 0 /\ (x.streaming => x.usage > 0)
      /\ x.cur = Default /\ x.at = Default
  BY DEF Ready, Good, UsageGood, ModeGood
<1>2. ~ q => Smooth(x) /\ x.usage = 1 /\ x.streaming
  BY <1>1 DEF Ready, Good, QuietGood, Smooth, Flagged
<1>3. SetGood(x, TRUE, FALSE)
  BY DEF Good
<1>4. CASE x.streaming = FALSE
  <2>1. e = x
    BY <1>4 DEF Ar0234Stream
  <2> QED
    BY <1>1, <1>2, <1>4, <2>1 DEF Stopped, Good, UsageGood, FlagGood, ModeGood, SetGood,
       QuietGood, Flagged, Stub
<1>5. CASE x.streaming = TRUE
  <2>1. PICK t : t = Ar0234Stop(x)
    OBVIOUS
  <2>2. /\ t \in Ctx /\ SameButFlag(t, x) /\ t.mode = x.mode /\ t.gain = x.gain
        /\ ~ t.err => ~ t.on /\ ~ t.streaming
        /\ t.err => t.on = x.on /\ t.streaming = x.streaming
        /\ Smooth(x) => ~ t.err
    BY <1>1, <2>1, Ar0234StopOutcome
  <2>3. CASE t.err
    <3>1. e = t /\ "ar0234" \in StreamOps
      BY <1>5, <2>1, <2>3 DEF Ar0234Stream, StreamOps
    <3>2. q
      BY <1>2, <2>2, <2>3
    <3>3. t.streaming /\ t.usage > 0 /\ t.usage >= 0 /\ t.cur = Default /\ t.at = Default
          /\ SetGood(t, TRUE, FALSE)
      BY <1>1, <1>3, <1>5, <2>2, <2>3 DEF SameButFlag, SetGood
    <3> QED
      BY <2>2, <2>3, <3>1, <3>2, <3>3 DEF Stopped, Good, UsageGood, FlagGood, ModeGood,
         QuietGood, Flagged, Stub
  <2>4. CASE ~ t.err
    <3>1. PICK u : u = Put(t)
      OBVIOUS
    <3>2. u \in Ctx /\ SameSensor(u, t) /\ u.usage = t.usage - 1 /\ SameFlags(u, t) /\ u.err = t.err
      BY <2>2, <3>1, PutOutcome
    <3>3. e = [u EXCEPT !.grab = FALSE]
      BY <1>5, <2>1, <2>4, <3>1 DEF Ar0234Stream
    <3>4. /\ e \in Ctx /\ e.err = u.err /\ e.usage = u.usage /\ e.streaming = u.streaming
          /\ e.on = u.on /\ ~ e.grab /\ e.dead = u.dead /\ e.cur = u.cur
      BY <3>2, <3>3 DEF Ctx
    <3>5. ~ e.err /\ ~ e.streaming /\ ~ e.on /\ e.dead = x.dead /\ e.cur = Default
      BY <1>1, <2>2, <2>4, <3>2, <3>4 DEF SameButFlag, SameFlags, SameSensor
    <3>6. e.usage >= 0 /\ (x.usage = 1 => e.usage = 0)
      <4>1. e.usage = x.usage - 1 /\ x.usage \in Int /\ e.usage \in Int /\ x.usage > 0
        BY <1>1, <1>5, <2>2, <3>2, <3>4 DEF SameButFlag, Ctx
      <4> QED
        BY <4>1, Counting
    <3>7. ~ q => e.usage = 0 /\ ~ e.dead
      BY <1>2, <3>5, <3>6 DEF Smooth
    <3> QED
      BY <3>4, <3>5, <3>6, <3>7 DEF Stopped, Good, UsageGood, FlagGood, ModeGood, SetGood,
         QuietGood, Flagged, Stub
  <2> QED
    BY <2>3, <2>4
<1> QED
  BY <1>1, <1>4, <1>5 DEF Ctx

LEMMA Ar0234Suspends ==
    ASSUME driver = "ar0234", NEW c \in BOOLEAN, NEW x \in Ctx, Good(x, c, FALSE, TRUE, TRUE)
    PROVE  Suspended(Ar0234Suspend(x), c)
<1> DEFINE e == Ar0234Suspend(x)
<1>1. /\ x.usage >= 0 /\ (x.streaming => x.usage > 0 /\ c) /\ (c /\ ~ x.streaming => x.blind)
      /\ x.cur = Default /\ (c => x.at = Default)
  BY DEF Good, UsageGood, FlagGood, ModeGood, Flagged
<1>2. CASE ~ x.streaming
  BY <1>1, <1>2 DEF Ar0234Suspend, Suspended, Good, UsageGood, FlagGood, ModeGood, SetGood,
     QuietGood, Flagged, Stub
<1>3. CASE x.streaming
  <2>1. PICK t : t = Ar0234Stop(x)
    OBVIOUS
  <2>2. /\ t \in Ctx /\ SameButFlag(t, x)
        /\ ~ t.err => ~ t.streaming
        /\ t.err => t.streaming = x.streaming
    BY <2>1, Ar0234StopOutcome
  <2>3. PICK b \in BOOLEAN : b <=> t.blind \/ ~ t.err
    OBVIOUS
  <2>4. b = (t.blind \/ ~ t.err)
    BY <2>3
  <2>5. e = [t EXCEPT !.blind = b, !.err = FALSE]
    BY <1>3, <2>1, <2>4 DEF Ar0234Suspend, Ignored
  <2>6. e \in Ctx /\ e.usage = t.usage /\ e.streaming = t.streaming /\ e.blind = b
        /\ e.cur = t.cur /\ e.at = t.at
    BY <2>2, <2>5 DEF Ctx
  <2>7. e.usage = x.usage /\ (~ e.streaming => e.blind) /\ e.cur = x.cur /\ e.at = x.at
    BY <1>3, <2>2, <2>3, <2>6 DEF SameButFlag
  <2> QED
    BY <1>1, <1>3, <2>6, <2>7 DEF Suspended, Good, UsageGood, FlagGood, ModeGood, SetGood,
       QuietGood, Flagged, Stub
<1> QED
  BY <1>2, <1>3

LEMMA Ar0234Resumes ==
    ASSUME driver = "ar0234", NEW c \in BOOLEAN, NEW x \in Ctx, Good(x, c, TRUE, TRUE, TRUE)
    PROVE  Resumed(Ar0234Resume(x), c)
<1> DEFINE e == Ar0234Resume(x)
<1>1. /\ x.usage >= 0 /\ (x.streaming => x.usage > 0 /\ c) /\ (c /\ ~ x.streaming => x.blind)
      /\ x.cur = Default /\ (c => x.at = Default)
  BY DEF Good, UsageGood, FlagGood, ModeGood, Flagged
<1>2. CASE ~ x.streaming
  BY <1>1, <1>2 DEF Ar0234Resume, Resumed, Good, UsageGood, FlagGood, ModeGood, SetGood,
     QuietGood, Flagged, Stub
<1>3. CASE x.streaming
  <2>1. PICK s : s = Ar0234Start(x)
    OBVIOUS
  <2>2. /\ s \in Ctx /\ SameButFlag(s, x)
        /\ ~ s.err => s.on /\ s.streaming /\ s.mode = x.cur /\ s.gain = x.ctl
    BY <2>1, Ar0234StartOutcome
  <2>3. CASE ~ s.err
    <3>1. e = s
      BY <1>3, <2>1, <2>3 DEF Ar0234Resume
    <3> QED
      BY <1>1, <1>3, <2>2, <2>3, <3>1 DEF Resumed, Good, UsageGood, FlagGood, ModeGood, SetGood,
         QuietGood, Flagged, Stub, SameButFlag
  <2>4. CASE s.err
    <3>1. PICK i : i = Ignored(s)
      OBVIOUS
    <3>2. i \in Ctx /\ SameMemory(i, s)
      BY <2>2, <3>1, IgnoredOutcome
    <3>3. PICK t : t = Ar0234Stop(i)
      OBVIOUS
    <3>4. t \in Ctx /\ SameButFlag(t, i)
      BY <3>2, <3>3, Ar0234StopOutcome
    <3>5. e = [t EXCEPT !.err = FALSE, !.blind = TRUE]
      BY <1>3, <2>1, <2>4, <3>1, <3>3 DEF Ar0234Resume, Ignored
    <3>6. e \in Ctx /\ e.usage = t.usage /\ e.blind /\ e.cur = t.cur /\ e.at = t.at
      BY <3>4, <3>5 DEF Ctx
    <3>7. e.usage = x.usage /\ e.cur = x.cur /\ e.at = x.at
      BY <2>2, <3>2, <3>4, <3>6 DEF SameButFlag, SameMemory, SameFlags
    <3> QED
      BY <1>1, <1>3, <3>6, <3>7 DEF Resumed, Good, UsageGood, FlagGood, ModeGood, SetGood,
         QuietGood, Flagged, Stub
  <2> QED
    BY <2>3, <2>4
<1> QED
  BY <1>2, <1>3

LEMMA Ar0234Probes ==
    ASSUME driver = "ar0234", NEW q \in BOOLEAN, NEW x \in Ctx,
           Good(x, FALSE, FALSE, FALSE, q), ~ x.on
    PROVE  Probed(Ar0234Probe(x), q)
<1>1. PICK e : e = Ar0234Probe(x)
  OBVIOUS
<1>2. e \in Ctx /\ SameMemory(e, x) /\ SameSensor(e, x)
  BY <1>1, CheckOutcome, OpNames DEF Ar0234Probe
<1> QED
  BY <1>1, <1>2 DEF Probed, Good, UsageGood, FlagGood, ModeGood, SetGood, QuietGood,
     Flagged, Stub, SameMemory, SameFlags, SameSensor

----------------------------------------------------------------------------
(* imx586 *)

\* What a start that takes a reference leaves alone.
SameButUse(e, x) ==
    /\ e.grab = x.grab /\ e.cur = x.cur /\ e.ctl = x.ctl /\ e.dead = x.dead
    /\ e.at = x.at /\ e.blind = x.blind /\ e.op = x.op

LEMMA Imx586StartOutcome ==
    ASSUME NEW x \in Ctx, NEW e, e = Imx586Start(x)
    PROVE  /\ e \in Ctx /\ SameButUse(e, x)
           /\ ~ e.err => /\ ~ x.err /\ e.on /\ e.streaming /\ e.mode = x.cur
                         /\ e.gain = x.ctl /\ e.usage = x.usage + 1
           /\ e.err => e.streaming = x.streaming /\ e.usage = x.usage
           /\ Smooth(x) => ~ e.err
<1>1. PICK g : g = Get(x)
  OBVIOUS
<1>2. /\ g \in Ctx /\ SameFlags(g, x)
      /\ ~ g.err => ~ x.err /\ g.usage = x.usage + 1
      /\ g.err => g.usage = x.usage
      /\ Smooth(x) => ~ g.err
  BY <1>1, GetOutcome
<1>3. PICK w : w = WriteList(g)
  OBVIOUS
<1>4. /\ w \in Ctx /\ SameMemory(w, g) /\ (~ w.err => ~ g.err /\ w.mode = g.cur)
      /\ g.err => w = g
      /\ Smooth(g) => ~ w.err
  BY <1>2, <1>3, ListOutcome
<1>5. PICK y : y = Controls(w)
  OBVIOUS
<1>6. /\ y \in Ctx /\ SameMemory(y, w) /\ y.mode = w.mode
      /\ ~ y.err => ~ w.err /\ y.gain = w.ctl
      /\ w.err => y = w
      /\ Smooth(w) => ~ y.err
  BY <1>4, <1>5, ControlsOutcome
<1>7. PICK z : z = [y EXCEPT !.on = TRUE, !.streaming = TRUE]
  OBVIOUS
<1>8. PICK s : s = Try(y, "on", z)
  OBVIOUS
<1>9. /\ s \in Ctx /\ SameButFlag(s, y) /\ s.mode = y.mode /\ s.gain = y.gain
      /\ ~ s.err => ~ y.err /\ s.on /\ s.streaming
      /\ s.err => s.streaming = y.streaming
      /\ Smooth(y) => ~ s.err
  <2>1. "on" \in Ops
    BY OpNames
  <2>2. /\ z \in Ctx /\ SameButFlag(z, y) /\ z.mode = y.mode /\ z.gain = y.gain
        /\ z.err = y.err /\ z.on /\ z.streaming
    BY <1>6, <1>7 DEF Ctx, SameButFlag
  <2> QED
    BY <1>6, <1>8, <2>1, <2>2, RunOutcome
<1>10. SameButUse(s, x) /\ s.usage = g.usage /\ (s.err => s.streaming = x.streaming)
  BY <1>2, <1>4, <1>6, <1>9 DEF SameFlags, SameMemory, SameButFlag, SameButUse
<1>11. CASE ~ s.err
  <2>1. e = s
    BY <1>1, <1>3, <1>5, <1>7, <1>8, <1>11 DEF Imx586Start
  <2>2. ~ y.err /\ ~ w.err /\ ~ g.err
    BY <1>4, <1>6, <1>9, <1>11
  <2>3. e.mode = x.cur /\ e.gain = x.ctl
    BY <1>2, <1>4, <1>6, <1>9, <2>1, <2>2 DEF SameFlags, SameMemory
  <2> QED
    BY <1>2, <1>9, <1>10, <1>11, <2>1, <2>2, <2>3
<1>12. CASE s.err
  <2>1. ~ Smooth(x)
    BY <1>2, <1>4, <1>6, <1>9, <1>12 DEF SameFlags, SameMemory, Smooth
  <2>2. CASE g.err
    <3>1. e = s
      BY <1>1, <1>3, <1>5, <1>7, <1>8, <2>2 DEF Imx586Start
    <3> QED
      BY <1>2, <1>9, <1>10, <1>12, <2>1, <2>2, <3>1
  <2>3. CASE ~ g.err
    <3>1. e = Put(s)
      BY <1>1, <1>3, <1>5, <1>7, <1>8, <1>12, <2>3 DEF Imx586Start
    <3>2. e \in Ctx /\ e.usage = s.usage - 1 /\ SameFlags(e, s) /\ e.err = s.err
      BY <1>9, <3>1, PutOutcome
    <3>3. e.usage = x.usage
      <4>1. s.usage = x.usage + 1 /\ x.usage \in Int /\ s.usage \in Int
        BY <1>2, <1>9, <1>10, <2>3 DEF Ctx
      <4> QED
        BY <3>2, <4>1, Counting
    <3>4. SameButUse(e, x) /\ e.streaming = x.streaming
      BY <1>10, <1>12, <3>2 DEF SameButUse, SameFlags
    <3> QED
      BY <1>12, <2>1, <3>2, <3>3, <3>4
  <2> QED
    BY <2>2, <2>3
<1> QED
  BY <1>11, <1>12

LEMMA Imx586StopOutcome ==
    ASSUME NEW x \in Ctx, NEW e, e = Imx586Stop(x)
    PROVE  /\ e \in Ctx /\ e.usage = x.usage /\ SameButUse(e, x)
           /\ ~ e.streaming
           /\ ~ e.err => ~ e.on
           /\ Smooth(x) => ~ e.err
<1>1. PICK t : t = Try(x, "off", [x EXCEPT !.on = FALSE])
  OBVIOUS
<1>2. /\ t \in Ctx /\ SameMemory(t, x)
      /\ ~ t.err => t.on = FALSE
      /\ Smooth(x) => ~ t.err
  <2>1. PICK v \in BOOLEAN : v = FALSE
    OBVIOUS
  <2>2. t = Try(x, "off", [x EXCEPT !.on = v]) /\ "off" \in Ops
    BY <1>1, <2>1, OpNames
  <2>3. /\ t \in Ctx /\ SameMemory(t, x)
        /\ ~ t.err => t.on = v
        /\ Smooth(x) => ~ t.err
    BY <2>2, SwitchOutcome
  <2> QED
    BY <2>1, <2>3
<1>3. e = [t EXCEPT !.streaming = FALSE]
  BY <1>1 DEF Imx586Stop
<1> QED
  BY <1>2, <1>3 DEF SameMemory, SameFlags, SameButUse, Ctx

LEMMA Imx586Starts ==
    ASSUME driver = "imx586", NEW q \in BOOLEAN, NEW x, Ready(x, q),
           Good(x, FALSE, FALSE, TRUE, q), ~ x.blind, x.at = x.cur
    PROVE  Started(Imx586Stream(x, TRUE), q)
<1> DEFINE e == Imx586Stream(x, TRUE)
<1>1. x \in Ctx /\ ~ x.err /\ x.streaming = FALSE /\ x.usage >= 0 /\ x.cur = Default
  BY DEF Ready, Good, FlagGood, ModeGood, UsageGood, Ctx
<1>2. ~ q => Smooth(x)
  BY <1>1 DEF Ready, Good, QuietGood, Smooth
<1>3. PICK g : g = Get(x)
  OBVIOUS
<1>4. /\ g \in Ctx /\ SameFlags(g, x)
      /\ ~ g.err => g.usage = x.usage + 1
      /\ g.err => g.usage = x.usage
      /\ Smooth(x) => ~ g.err
  BY <1>1, <1>3, GetOutcome
<1>5. CASE g.err
  <2>1. e = g
    BY <1>1, <1>3, <1>5 DEF Imx586Stream
  <2>2. e \in Ctx /\ e.err = TRUE /\ e.usage = x.usage /\ e.streaming = FALSE /\ e.cur = Default
    BY <1>1, <1>4, <1>5, <2>1 DEF SameFlags
  <2>3. q
    BY <1>2, <1>4, <1>5
  <2> QED
    BY <1>1, <2>2, <2>3 DEF Started, Good, UsageGood, FlagGood, ModeGood, SetGood, QuietGood,
       Stub, Flagged
<1>6. CASE ~ g.err
  <2>1. PICK s : s = Imx586Start(g)
    OBVIOUS
  <2>2. /\ s \in Ctx /\ SameButUse(s, g)
        /\ ~ s.err => /\ s.on /\ s.streaming /\ s.mode = g.cur
                      /\ s.gain = g.ctl /\ s.usage = g.usage + 1
        /\ s.err => s.streaming = g.streaming /\ s.usage = g.usage
        /\ Smooth(g) => ~ s.err
    BY <1>4, <2>1, Imx586StartOutcome
  <2>3. s.at = Default /\ s.cur = Default /\ s.dead = x.dead /\ s.grab = x.grab
    BY <1>1, <1>4, <1>6, <2>2 DEF SameFlags, SameButUse
  <2>4. g.usage = x.usage + 1 /\ g.usage \in Int /\ x.usage \in Int /\ s.usage \in Int
    BY <1>1, <1>4, <1>6, <2>2 DEF Ctx
  <2>5. CASE s.err
    <3>1. PICK i : i = Ignored(s)
      OBVIOUS
    <3>2. i \in Ctx /\ SameMemory(i, s)
      BY <2>2, <3>1, IgnoredOutcome
    <3>3. PICK t : t = Imx586Stop(i)
      OBVIOUS
    <3>4. t \in Ctx /\ t.usage = i.usage /\ SameButUse(t, i) /\ ~ t.streaming
      BY <3>2, <3>3, Imx586StopOutcome
    <3>5. t.usage = g.usage /\ t.cur = Default /\ t.at = Default
      BY <2>2, <2>3, <2>5, <3>2, <3>4 DEF SameMemory, SameFlags, SameButUse
    <3>6. q
      BY <1>2, <1>4, <1>6, <2>2, <2>5 DEF Smooth, SameFlags
    <3>7. CASE t.err
      <4>1. e = t
        BY <1>1, <1>3, <1>6, <2>1, <2>5, <3>1, <3>3, <3>7 DEF Imx586Stream
      <4>2. t.usage >= 0
        BY <1>1, <2>4, <3>5, Counting
      <4> QED
        BY <3>4, <3>5, <3>6, <3>7, <4>1, <4>2 DEF Started, Good, UsageGood, FlagGood, ModeGood,
           SetGood, QuietGood, Stub, Flagged
    <3>8. CASE ~ t.err
      <4>1. PICK u : u = Put(t)
        OBVIOUS
      <4>2. u \in Ctx /\ u.usage = t.usage - 1 /\ SameFlags(u, t) /\ u.err = t.err
        BY <3>4, <4>1, PutOutcome
      <4>3. e = [u EXCEPT !.grab = TRUE, !.blind = TRUE]
        BY <1>1, <1>3, <1>6, <2>1, <2>5, <3>1, <3>3, <3>8, <4>1 DEF Imx586Stream
      <4>4. e \in Ctx /\ ~ e.err /\ e.usage = u.usage /\ e.streaming = u.streaming /\ e.blind
            /\ e.cur = u.cur /\ e.at = u.at
        BY <3>8, <4>2, <4>3 DEF Ctx
      <4>5. e.usage = x.usage
        BY <2>4, <3>5, <4>2, <4>4, Counting
      <4>6. ~ e.streaming /\ e.cur = Default /\ e.at = Default
        BY <3>4, <3>5, <4>2, <4>4 DEF SameFlags
      <4> QED
        BY <1>1, <3>6, <4>4, <4>5, <4>6 DEF Started, Good, UsageGood, FlagGood, ModeGood,
           SetGood, QuietGood, Stub, Flagged
    <3> QED
      BY <3>7, <3>8
  <2>6. CASE ~ s.err
    <3>1. e = [s EXCEPT !.grab = TRUE]
      BY <1>1, <1>3, <1>6, <2>1, <2>6 DEF Imx586Stream
    <3>2. e \in Ctx /\ ~ e.err /\ e.usage = s.usage /\ e.streaming = s.streaming /\ e.on = s.on
          /\ e.mode = s.mode /\ e.gain = s.gain /\ e.ctl = s.ctl /\ e.cur = s.cur /\ e.at = s.at
          /\ e.dead = s.dead
      BY <2>2, <2>6, <3>1 DEF Ctx
    <3>3. e.streaming /\ e.on /\ e.mode = e.at /\ e.gain = e.ctl /\ e.cur = Default
          /\ e.at = Default /\ e.dead = x.dead
      BY <1>1, <1>4, <2>2, <2>3, <2>6, <3>2 DEF SameFlags, SameButUse
    <3>4. e.usage > 0 /\ e.usage >= 0
      <4>1. g.usage >= 0
        BY <1>1, <2>4, Counting
      <4>2. s.usage = g.usage + 1
        BY <2>2, <2>6
      <4> QED
        BY <2>4, <3>2, <4>1, <4>2, Counting
    <3>5. ~ q => ~ e.dead
      BY <1>2, <3>3 DEF Smooth
    <3> QED
      BY <3>2, <3>3, <3>4, <3>5 DEF Started, Good, UsageGood, FlagGood, ModeGood, SetGood,
         QuietGood, Stub, Flagged
  <2> QED
    BY <2>5, <2>6
<1> QED
  BY <1>5, <1>6

LEMMA Imx586Stops ==
    ASSUME driver = "imx586", NEW q \in BOOLEAN, NEW x, Ready(x, q),
           Good(x, TRUE, FALSE, TRUE, q)
    PROVE  Stopped(Imx586Stream(x, FALSE), q)
<1> DEFINE e == Imx586Stream(x, FALSE)
<1>1. /\ x \in Ctx /\ ~ x.err /\ x.usage >= 0 /\ (x.streaming => x.usage > 0)
      /\ x.cur = Default /\ "imx586" \notin StreamOps
  BY DEF Ready, Good, UsageGood, ModeGood, StreamOps
<1>2. ~ q => Smooth(x) /\ x.streaming
  BY <1>1 DEF Ready, Good, QuietGood, Smooth, Flagged
<1>3. CASE x.streaming = FALSE
  <2>1. e = x
    BY <1>3 DEF Imx586Stream
  <2> QED
    BY <1>1, <1>2, <1>3, <2>1 DEF Stopped, Good, UsageGood, FlagGood, ModeGood, SetGood,
       QuietGood, Flagged, Stub
<1>4. CASE x.streaming = TRUE
  <2>1. PICK t : t = Imx586Stop(x)
    OBVIOUS
  <2>2. /\ t \in Ctx /\ t.usage = x.usage /\ SameButUse(t, x) /\ ~ t.streaming
        /\ ~ t.err => ~ t.on
        /\ Smooth(x) => ~ t.err
    BY <1>1, <2>1, Imx586StopOutcome
  <2>3. CASE t.err
    <3>1. e = t
      BY <1>4, <2>1, <2>3 DEF Imx586Stream
    <3>2. q
      BY <1>2, <2>2, <2>3
    <3>3. t.cur = Default /\ t.usage >= 0
      BY <1>1, <2>2 DEF SameButUse
    <3> QED
      BY <1>1, <2>2, <2>3, <3>1, <3>2, <3>3 DEF Stopped, Good, UsageGood, FlagGood, ModeGood,
         SetGood, QuietGood, Flagged, Stub
  <2>4. CASE ~ t.err
    <3>1. PICK u : u = Put(t)
      OBVIOUS
    <3>2. u \in Ctx /\ SameSensor(u, t) /\ u.usage = t.usage - 1 /\ SameFlags(u, t) /\ u.err = t.err
      BY <2>2, <3>1, PutOutcome
    <3>3. e = [u EXCEPT !.grab = FALSE]
      BY <1>4, <2>1, <2>4, <3>1 DEF Imx586Stream
    <3>4. /\ e \in Ctx /\ e.err = u.err /\ e.usage = u.usage /\ e.streaming = u.streaming
          /\ e.on = u.on /\ ~ e.grab /\ e.dead = u.dead /\ e.cur = u.cur
      BY <3>2, <3>3 DEF Ctx
    <3>5. ~ e.err /\ ~ e.streaming /\ ~ e.on /\ e.dead = x.dead /\ e.cur = Default
      BY <1>1, <2>2, <2>4, <3>2, <3>4 DEF SameButUse, SameFlags, SameSensor
    <3>6. e.usage >= 0
      <4>1. e.usage = x.usage - 1 /\ x.usage \in Int /\ e.usage \in Int /\ x.usage > 0
        BY <1>1, <1>4, <2>2, <3>2, <3>4 DEF Ctx
      <4> QED
        BY <4>1, Counting
    <3>7. ~ q => ~ e.dead
      BY <1>2, <3>5 DEF Smooth
    <3> QED
      BY <3>4, <3>5, <3>6, <3>7 DEF Stopped, Good, UsageGood, FlagGood, ModeGood, SetGood,
         QuietGood, Flagged, Stub
  <2> QED
    BY <2>3, <2>4
<1> QED
  BY <1>1, <1>3, <1>4 DEF Ctx

LEMMA Imx586Suspends ==
    ASSUME driver = "imx586", NEW c \in BOOLEAN, NEW x \in Ctx, Good(x, c, FALSE, TRUE, TRUE)
    PROVE  Suspended(Imx586Suspend(x), c)
<1>1. /\ x.usage >= 0 /\ (c /\ ~ x.streaming => x.blind)
      /\ x.cur = Default /\ (c => x.at = Default) /\ ~ (x.streaming /\ ~ c)
  BY DEF Good, UsageGood, FlagGood, ModeGood, Flagged
<1>2. CASE ~ x.streaming
  BY <1>1, <1>2 DEF Imx586Suspend, Suspended, Good, UsageGood, FlagGood, ModeGood, SetGood,
     QuietGood, Flagged, Stub
<1>3. CASE x.streaming
  <2>1. PICK t : t = Imx586Stop(x)
    OBVIOUS
  <2>2. t \in Ctx /\ t.usage = x.usage /\ SameButUse(t, x) /\ ~ t.streaming
    BY <2>1, Imx586StopOutcome
  <2>3. PICK e : e = Imx586Suspend(x)
    OBVIOUS
  <2>4. e = [t EXCEPT !.blind = TRUE, !.err = FALSE]
    BY <1>3, <2>1, <2>3 DEF Imx586Suspend, Ignored
  <2>5. e \in Ctx /\ e.usage = t.usage /\ ~ e.streaming /\ e.blind /\ e.cur = t.cur /\ e.at = t.at
    BY <2>2, <2>4 DEF Ctx
  <2>6. e.usage >= 0 /\ e.cur = Default /\ (c => e.at = Default)
    BY <1>1, <2>2, <2>5 DEF SameButUse
  <2> QED
    BY <2>3, <2>5, <2>6 DEF Suspended, Good, UsageGood, FlagGood, ModeGood, SetGood,
       QuietGood, Flagged, Stub
<1> QED
  BY <1>2, <1>3

LEMMA Imx586Resumes ==
    ASSUME driver = "imx586", NEW c \in BOOLEAN, NEW x \in Ctx, Good(x, c, TRUE, TRUE, TRUE)
    PROVE  Resumed(Imx586Resume(x), c)
BY DEF Imx586Resume, Resumed, Good, UsageGood, FlagGood, ModeGood, SetGood, QuietGood,
   Flagged, Stub

LEMMA Imx586Probes ==
    ASSUME driver = "imx586", NEW q \in BOOLEAN, NEW x \in Ctx,
           Good(x, FALSE, FALSE, FALSE, q), ~ x.on
    PROVE  Probed(Imx586Probe(x), q)
<1>1. PICK e : e = Imx586Probe(x)
  OBVIOUS
<1>2. e \in Ctx /\ SameMemory(e, x) /\ SameSensor(e, x)
  BY <1>1, CheckOutcome, OpNames DEF Imx586Probe
<1> QED
  BY <1>1, <1>2 DEF Probed, Good, UsageGood, FlagGood, ModeGood, SetGood, QuietGood,
     Flagged, Stub, SameMemory, SameFlags, SameSensor

----------------------------------------------------------------------------
(* imx415 *)

LEMMA Imx415SetupOutcome ==
    ASSUME NEW x \in Ctx, NEW e, e = Imx415Setup(x)
    PROVE  /\ e \in Ctx /\ SameButMode(e, x)
           /\ ~ e.err => ~ x.err /\ (e.mode = x.cur \/ e.lapse = x.cur)
           /\ Smooth(x) => ~ e.err
<1>1. PICK i : i = Try(x, "init", x)
  OBVIOUS
<1>2. i \in Ctx /\ SameMemory(i, x) /\ (~ i.err => ~ x.err) /\ (Smooth(x) => ~ i.err)
  BY <1>1, CheckOutcome, OpNames
<1>3. PICK m : m = WriteList(i)
  OBVIOUS
<1>4. m \in Ctx /\ SameMemory(m, x) /\ (~ m.err => m.mode = x.cur)
  BY <1>2, <1>3, ListOutcome DEF SameMemory, SameFlags
<1>5. CASE i.err
  BY <1>1, <1>2, <1>5 DEF Imx415Setup, SameMemory, SameFlags, SameButMode
<1>6. CASE ~ i.err /\ m.err
  <2>1. e = [m EXCEPT !.lapse = x.cur, !.err = FALSE]
    BY <1>1, <1>3, <1>6 DEF Imx415Setup, Ignored
  <2>2. x.cur \in Kinds
    BY DEF Ctx, Kinds
  <2>3. /\ e \in Ctx /\ e.lapse = x.cur /\ ~ e.err /\ e.usage = m.usage
        /\ e.streaming = m.streaming /\ e.grab = m.grab /\ e.cur = m.cur /\ e.ctl = m.ctl
        /\ e.dead = m.dead /\ e.at = m.at /\ e.blind = m.blind /\ e.op = m.op
    BY <1>4, <2>1, <2>2 DEF Ctx
  <2>4. SameButMode(e, x)
    BY <1>4, <2>3 DEF SameMemory, SameFlags, SameButMode
  <2> QED
    BY <1>2, <1>6, <2>3, <2>4
<1>7. CASE ~ i.err /\ ~ m.err
  <2>1. e = [m EXCEPT !.lapse = NoMode]
    BY <1>1, <1>3, <1>7 DEF Imx415Setup
  <2> QED
    BY <1>2, <1>4, <1>7, <2>1 DEF Ctx, Kinds, SameMemory, SameFlags, SameButMode
<1> QED
  BY <1>5, <1>6, <1>7

LEMMA Imx415OffOutcome ==
    ASSUME NEW x \in Ctx, NEW e, e = Imx415Off(x)
    PROVE  /\ e \in Ctx /\ SameMemory(e, x)
           /\ ~ e.err => ~ e.on
           /\ Smooth(x) => ~ e.err
<1>1. PICK v \in BOOLEAN : v = FALSE
  OBVIOUS
<1>2. PICK f : f = Try(x, "off", [x EXCEPT !.on = v])
  OBVIOUS
<1>3. "off" \in Ops /\ "state" \in Ops
  BY OpNames
<1>4. f \in Ctx /\ SameMemory(f, x) /\ (~ f.err => f.on = v) /\ (Smooth(x) => ~ f.err)
  BY <1>2, <1>3, SwitchOutcome
<1>5. e = Try(f, "state", f)
  BY <1>1, <1>2 DEF Imx415Off
<1>6. /\ e \in Ctx /\ SameMemory(e, f) /\ SameSensor(e, f)
      /\ ~ e.err => ~ f.err
      /\ Smooth(f) => ~ e.err
  BY <1>3, <1>4, <1>5, CheckOutcome
<1> QED
  BY <1>1, <1>4, <1>6 DEF SameMemory, SameFlags, SameSensor, Smooth

LEMMA Imx415Starts ==
    ASSUME driver = "imx415", NEW q \in BOOLEAN, NEW x, Ready(x, q),
           Good(x, FALSE, FALSE, TRUE, q), ~ x.blind, x.at = x.cur
    PROVE  Started(Imx415Stream(x, TRUE), q)
<1> DEFINE e == Imx415Stream(x, TRUE)
<1>1. x \in Ctx /\ ~ x.err /\ ~ x.streaming /\ x.usage >= 0 /\ x.cur = Default /\ ~ x.grab
  BY DEF Ready, Good, FlagGood, ModeGood, UsageGood, Ctx
<1>2. ~ q => Smooth(x) /\ x.usage = 0 /\ ~ x.on
  BY <1>1 DEF Ready, Good, QuietGood, Smooth, Stub
<1>3. PICK g : g = Get(x)
  OBVIOUS
<1>4. /\ g \in Ctx /\ SameFlags(g, x) /\ SameSensor(g, x)
      /\ ~ g.err => g.usage = x.usage + 1
      /\ g.err => g.usage = x.usage
      /\ Smooth(x) => ~ g.err
  BY <1>1, <1>3, GetOutcome
<1>5. CASE g.err
  <2>1. e = g
    BY <1>3, <1>5 DEF Imx415Stream
  <2>2. e \in Ctx /\ e.err /\ e.usage = x.usage /\ ~ e.streaming /\ e.cur = Default /\ ~ e.grab
    BY <1>1, <1>4, <1>5, <2>1 DEF SameFlags
  <2>3. q
    BY <1>2, <1>4, <1>5
  <2> QED
    BY <1>1, <2>2, <2>3 DEF Started, Good, UsageGood, FlagGood, ModeGood, SetGood, QuietGood,
       Stub, Flagged
<1>6. CASE ~ g.err
  <2>1. PICK m : m = Imx415Setup(g)
    OBVIOUS
  <2>2. /\ m \in Ctx /\ SameButMode(m, g)
        /\ ~ m.err => m.mode = g.cur \/ m.lapse = g.cur
        /\ Smooth(g) => ~ m.err
    BY <1>4, <2>1, Imx415SetupOutcome
  <2>3. PICK y : y = Controls(m)
    OBVIOUS
  <2>4. /\ y \in Ctx /\ SameMemory(y, m) /\ y.mode = m.mode
        /\ ~ y.err => ~ m.err /\ y.gain = m.ctl
        /\ Smooth(m) => ~ y.err
    BY <2>2, <2>3, ControlsOutcome
  <2>5. PICK s : s = Imx415On(y)
    OBVIOUS
  <2>6. /\ s \in Ctx /\ SameMemory(s, y) /\ s.mode = y.mode /\ s.gain = y.gain
        /\ ~ s.err => ~ y.err /\ s.on
        /\ Smooth(y) => ~ s.err
    <3>1. PICK v \in BOOLEAN : v = TRUE
      OBVIOUS
    <3>2. s = Try(y, "on", [y EXCEPT !.on = v]) /\ "on" \in Ops
      BY <2>5, <3>1, OpNames DEF Imx415On
    <3>3. /\ s \in Ctx /\ SameMemory(s, y) /\ s.mode = y.mode /\ s.gain = y.gain
          /\ ~ s.err => ~ y.err /\ s.on = v
          /\ Smooth(y) => ~ s.err
      BY <2>4, <3>2, SwitchOutcome
    <3> QED
      BY <3>1, <3>3
  <2>7. /\ s.usage = g.usage /\ s.streaming = x.streaming /\ s.grab = x.grab /\ s.cur = x.cur
        /\ s.at = x.at /\ s.dead = x.dead /\ s.ctl = x.ctl
    BY <1>4, <2>2, <2>4, <2>6 DEF SameFlags, SameMemory, SameButMode
  <2>8. Smooth(x) => ~ s.err
    BY <1>4, <1>6, <2>2, <2>4, <2>6 DEF SameFlags, SameMemory, SameButMode, Smooth
  <2>9. g.usage = x.usage + 1 /\ g.usage \in Int /\ x.usage \in Int
    BY <1>1, <1>4, <1>6 DEF Ctx
  <2>10. CASE s.err
    <3>1. PICK u : u = Put(s)
      OBVIOUS
    <3>2. u \in Ctx /\ u.usage = s.usage - 1 /\ SameFlags(u, s) /\ u.err = s.err
      BY <2>6, <3>1, PutOutcome
    <3>3. e = Lost(u)
      BY <1>3, <1>6, <2>1, <2>3, <2>5, <2>10, <3>1 DEF Imx415Stream
    <3>4. e \in Ctx /\ SameMemory(e, u) /\ e.err = u.err
      BY <3>2, <3>3, LostOutcome
    <3>5. e.usage = x.usage
      BY <2>7, <2>9, <3>2, <3>4, Counting DEF SameMemory
    <3>6. e.err /\ ~ e.streaming /\ ~ e.grab /\ e.cur = Default
      BY <1>1, <2>7, <2>10, <3>2, <3>4 DEF SameMemory, SameFlags
    <3>7. q
      BY <1>2, <2>8, <2>10
    <3> QED
      BY <1>1, <3>4, <3>5, <3>6, <3>7 DEF Started, Good, UsageGood, FlagGood, ModeGood, SetGood,
         QuietGood, Stub, Flagged
  <2>11. CASE ~ s.err
    <3>1. e = s
      BY <1>3, <1>6, <2>1, <2>3, <2>5, <2>11 DEF Imx415Stream
    <3>2. e.on /\ (e.mode = e.at \/ e.lapse = e.at) /\ e.gain = e.ctl
      <4>1. ~ y.err /\ ~ m.err
        BY <2>4, <2>6, <2>11
      <4>2. g.cur = s.at /\ s.lapse = m.lapse /\ m.ctl = s.ctl
        BY <1>4, <2>4, <2>6, <2>7 DEF SameFlags, SameMemory
      <4> QED
        BY <2>2, <2>4, <2>6, <2>11, <3>1, <4>1, <4>2
    <3>3. e.usage > 0 /\ e.usage >= 0 /\ (x.usage = 0 => e.usage = 1)
      BY <1>1, <2>7, <2>9, <3>1, Counting
    <3>4. ~ q => e.usage = 1 /\ ~ e.dead
      BY <1>2, <2>7, <3>1, <3>3 DEF Smooth
    <3>5. e \in Ctx /\ ~ e.err /\ ~ e.streaming /\ ~ e.grab /\ e.cur = Default /\ e.at = Default
      BY <1>1, <2>6, <2>7, <2>11, <3>1
    <3> QED
      BY <3>2, <3>3, <3>4, <3>5 DEF Started, Good, UsageGood, FlagGood, ModeGood, SetGood,
         QuietGood, Stub, Flagged
  <2> QED
    BY <2>10, <2>11
<1> QED
  BY <1>5, <1>6

LEMMA Imx415Stops ==
    ASSUME driver = "imx415", NEW q \in BOOLEAN, NEW x, Ready(x, q),
           Good(x, TRUE, FALSE, TRUE, q)
    PROVE  Stopped(Imx415Stream(x, FALSE), q)
<1>1. /\ x \in Ctx /\ ~ x.err /\ x.usage > 0 /\ ~ x.streaming /\ x.cur = Default /\ ~ x.grab
      /\ "imx415" \notin StreamOps
  BY DEF Ready, Good, UsageGood, FlagGood, ModeGood, Flagged, StreamOps
<1>2. ~ q => Smooth(x) /\ x.usage = 1
  BY <1>1 DEF Ready, Good, QuietGood, Smooth
<1>3. PICK t : t = Imx415Off(x)
  OBVIOUS
<1>4. t \in Ctx /\ SameMemory(t, x) /\ (~ t.err => ~ t.on) /\ (Smooth(x) => ~ t.err)
  BY <1>1, <1>3, Imx415OffOutcome
<1>5. PICK e : e = Imx415Stream(x, FALSE)
  OBVIOUS
<1>6. e = Put(t)
  BY <1>3, <1>5 DEF Imx415Stream
<1>7. e \in Ctx /\ SameSensor(e, t) /\ e.usage = t.usage - 1 /\ SameFlags(e, t) /\ e.err = t.err
  BY <1>4, <1>6, PutOutcome
<1>8. e.usage >= 0 /\ (x.usage = 1 => e.usage = 0)
  <2>1. e.usage = x.usage - 1 /\ x.usage \in Int /\ e.usage \in Int
    BY <1>1, <1>4, <1>7 DEF SameMemory, Ctx
  <2> QED
    BY <1>1, <2>1, Counting
<1>9. ~ e.streaming /\ ~ e.grab /\ e.cur = Default /\ e.dead = x.dead /\ (~ e.err => ~ e.on)
  BY <1>1, <1>4, <1>7 DEF SameMemory, SameFlags, SameSensor
<1>10. ~ q => e.usage = 0 /\ ~ e.dead /\ ~ e.on
  BY <1>2, <1>4, <1>7, <1>8, <1>9 DEF Smooth
<1> QED
  BY <1>1, <1>5, <1>7, <1>8, <1>9, <1>10 DEF Stopped, Good, UsageGood, FlagGood, ModeGood,
     SetGood, QuietGood, Flagged, Stub

LEMMA Imx415Suspends ==
    ASSUME driver = "imx415", NEW c \in BOOLEAN, NEW x \in Ctx, Good(x, c, FALSE, TRUE, TRUE)
    PROVE  Suspended(Imx415Suspend(x), c)
<1>1. /\ x.usage >= 0 /\ (c => x.usage > 0) /\ ~ x.streaming /\ ~ x.grab
      /\ x.cur = Default /\ (c => x.at = Default)
  BY DEF Good, UsageGood, FlagGood, ModeGood, Flagged
<1>2. PICK b \in BOOLEAN : b <=> x.usage > 0
  OBVIOUS
<1>3. b = (x.usage > 0)
  BY <1>2
<1>4. PICK y : y = Lost(x)
  OBVIOUS
<1>5. y \in Ctx /\ SameMemory(y, x)
  BY <1>4, LostOutcome
<1>6. PICK e : e = Imx415Suspend(x)
  OBVIOUS
<1>7. e = [y EXCEPT !.dead = TRUE, !.blind = b]
  BY <1>3, <1>4, <1>6 DEF Imx415Suspend
<1>8. /\ e \in Ctx /\ e.usage = y.usage /\ e.streaming = y.streaming /\ e.grab = y.grab
      /\ e.cur = y.cur /\ e.at = y.at /\ e.blind = b
  BY <1>5, <1>7 DEF Ctx
<1>9. /\ e.usage = x.usage /\ ~ e.streaming /\ ~ e.grab /\ e.cur = Default
      /\ e.at = x.at /\ (c => e.blind)
  BY <1>1, <1>2, <1>5, <1>8 DEF SameMemory, SameFlags
<1> QED
  BY <1>1, <1>6, <1>8, <1>9 DEF Suspended, Good, UsageGood, FlagGood, ModeGood, SetGood,
     QuietGood, Flagged, Stub

LEMMA Imx415Resumes ==
    ASSUME driver = "imx415", NEW c \in BOOLEAN, NEW x \in Ctx, Good(x, c, TRUE, TRUE, TRUE)
    PROVE  Resumed(Imx415Resume(x), c)
<1>1. /\ x.usage >= 0 /\ (c => x.usage > 0) /\ ~ x.streaming /\ ~ x.grab
      /\ x.cur = Default /\ (c => x.at = Default) /\ (c => x.blind)
  BY DEF Good, UsageGood, FlagGood, ModeGood, Flagged
<1>2. PICK y : y = [x EXCEPT !.dead = FALSE]
  OBVIOUS
<1>3. /\ y \in Ctx /\ y.usage = x.usage /\ y.streaming = x.streaming /\ y.grab = x.grab
      /\ y.cur = x.cur /\ y.at = x.at /\ y.blind = x.blind
  BY <1>2 DEF Ctx
<1>4. PICK e : e = Imx415Resume(x)
  OBVIOUS
<1>5. e = Try(x, "get", y) \/ e = y
  BY <1>2, <1>4 DEF Imx415Resume
<1>6. e = y \/ (e \in Ctx /\ SameMemory(e, x))
  BY <1>3, <1>5, TryOutcome, OpNames
<1>7. /\ e \in Ctx /\ e.usage = x.usage /\ ~ e.streaming /\ ~ e.grab /\ e.cur = Default
      /\ e.at = x.at /\ e.blind = x.blind
  BY <1>1, <1>3, <1>6 DEF SameMemory, SameFlags
<1> QED
  BY <1>1, <1>4, <1>7 DEF Resumed, Good, UsageGood, FlagGood, ModeGood, SetGood,
     QuietGood, Flagged, Stub

LEMMA Imx415Probes ==
    ASSUME driver = "imx415", NEW q \in BOOLEAN, NEW x \in Ctx,
           Good(x, FALSE, FALSE, FALSE, q), ~ x.on
    PROVE  Probed(Imx415Probe(x), q)
<1>1. PICK i : i = Try(x, "get", x)
  OBVIOUS
<1>2. i \in Ctx /\ SameMemory(i, x) /\ SameSensor(i, x)
  BY <1>1, CheckOutcome, OpNames
<1>3. PICK e : e = Imx415Probe(x)
  OBVIOUS
<1>4. e \in Ctx /\ SameMemory(e, i) /\ SameSensor(e, i)
  BY <1>1, <1>2, <1>3, CheckOutcome, OpNames DEF Imx415Probe
<1> QED
  BY <1>2, <1>3, <1>4 DEF Probed, Good, UsageGood, FlagGood, ModeGood, SetGood, QuietGood,
     Flagged, Stub, SameMemory, SameFlags, SameSensor

----------------------------------------------------------------------------
(* ar0830 *)

LEMMA StallOutcome ==
    ASSUME NEW x \in Ctx, NEW stall \in BOOLEAN, NEW e, e = Ar0830Stall(x, stall)
    PROVE  /\ e \in Ctx /\ SameMemory(e, x) /\ e.mode = x.mode
           /\ ~ e.err => ~ x.err /\ (e.on <=> ~ stall /\ x.mode # Unset)
           /\ Smooth(x) => ~ e.err
<1>1. PICK op \in Ops : op = IF stall THEN "off" ELSE "on"
  BY OpNames
<1>2. PICK v \in BOOLEAN : v <=> ~ stall /\ x.mode # Unset
  OBVIOUS
<1>3. v = (~ stall /\ x.mode # Unset)
  BY <1>2
<1>4. PICK w : w = Try(x, op, [x EXCEPT !.on = v])
  OBVIOUS
<1>5. /\ w \in Ctx /\ SameMemory(w, x) /\ w.mode = x.mode
      /\ ~ w.err => ~ x.err /\ w.on = v
      /\ Smooth(x) => ~ w.err
  BY <1>4, SwitchOutcome
<1>6. PICK f : f = IF ~ x.err /\ [x EXCEPT !.on = v] = x THEN Ignored(w) ELSE w
  OBVIOUS
<1>7. /\ f \in Ctx /\ SameMemory(f, x) /\ f.mode = x.mode
      /\ ~ f.err => ~ x.err /\ f.on = v
      /\ Smooth(x) => ~ f.err
  <2>1. CASE f = w
    BY <1>5, <2>1
  <2>2. CASE f = Ignored(w) /\ ~ x.err /\ [x EXCEPT !.on = v] = x
    <3>1. x.on = v
      <4>1. [x EXCEPT !.on = v].on = v
        BY DEF Ctx
      <4> QED
        BY <2>2, <4>1
    <3>2. w.on = v
      <4>1. Try(x, op, x) = w
        BY <1>4, <2>2
      <4>2. SameSensor(w, x)
        BY <4>1, CheckOutcome
      <4> QED
        BY <3>1, <4>2 DEF SameSensor
    <3>3. f \in Ctx /\ SameMemory(f, w) /\ SameSensor(f, w) /\ ~ f.err
      BY <1>5, <2>2, IgnoredOutcome
    <3> QED
      BY <1>5, <2>2, <3>2, <3>3 DEF SameMemory, SameFlags, SameSensor
  <2> QED
    BY <1>6, <2>1, <2>2
<1>8. e = Try(f, "state", f) /\ "state" \in Ops
  BY <1>1, <1>3, <1>4, <1>6, OpNames DEF Ar0830Stall
<1>9. /\ e \in Ctx /\ SameMemory(e, f) /\ SameSensor(e, f)
      /\ ~ e.err => ~ f.err
      /\ Smooth(f) => ~ e.err
  BY <1>7, <1>8, CheckOutcome
<1> QED
  BY <1>2, <1>7, <1>9 DEF SameMemory, SameFlags, SameSensor, Smooth

LEMMA BoardSetupOutcome ==
    ASSUME NEW x \in Ctx, x.cur = Default, x.mode \in {Unset, Default},
           NEW e, e = Ar0830BoardSetup(x)
    PROVE  e \in Ctx /\ SameMemory(e, x) /\ e.mode \in {Unset, Default}
<1>1. PICK y : y = [x EXCEPT !.on = TRUE, !.mode = x.cur]
  OBVIOUS
<1>2. y \in Ctx /\ SameMemory(y, x) /\ y.mode = Default
  BY <1>1 DEF Ctx, SameMemory, SameFlags
<1>3. e = Try(x, "init", y) /\ "init" \in Ops
  BY <1>1, OpNames DEF Ar0830BoardSetup
<1>4. e \in Ctx /\ (e = y \/ (SameMemory(e, x) /\ SameSensor(e, x)))
  BY <1>2, <1>3, TryOutcome
<1> QED
  BY <1>2, <1>4 DEF SameSensor

LEMMA Ar0830Starts ==
    ASSUME driver = "ar0830", NEW q \in BOOLEAN, NEW x, Ready(x, q),
           Good(x, FALSE, FALSE, TRUE, q), ~ x.blind, x.at = x.cur
    PROVE  Started(Ar0830Stream(x, TRUE), q)
<1>1. /\ x \in Ctx /\ ~ x.err /\ ~ x.streaming /\ x.usage >= 0 /\ x.cur = Default /\ ~ x.grab
      /\ x.mode \in {Unset, Default}
  BY DEF Ready, Good, FlagGood, ModeGood, UsageGood, Ctx
<1>2. ~ q => Smooth(x) /\ x.usage = 0
  BY <1>1 DEF Ready, Good, QuietGood, Smooth
<1>3. PICK g : g = Get(x)
  OBVIOUS
<1>4. /\ g \in Ctx /\ SameFlags(g, x) /\ SameSensor(g, x)
      /\ ~ g.err => g.usage = x.usage + 1
      /\ g.err => g.usage = x.usage
      /\ Smooth(x) => ~ g.err
  BY <1>1, <1>3, GetOutcome
<1>5. PICK e : e = Ar0830Stream(x, TRUE)
  OBVIOUS
<1>6. CASE g.err
  <2>1. e = g
    BY <1>3, <1>5, <1>6 DEF Ar0830Stream, Ar0830Start
  <2>2. e \in Ctx /\ e.err /\ e.usage = x.usage /\ ~ e.streaming /\ e.cur = Default /\ ~ e.grab
        /\ e.mode \in {Unset, Default}
    BY <1>1, <1>4, <1>6, <2>1 DEF SameFlags, SameSensor
  <2>3. q
    BY <1>2, <1>4, <1>6
  <2> QED
    BY <1>1, <1>5, <2>2, <2>3 DEF Started, Good, UsageGood, FlagGood, ModeGood, SetGood,
       QuietGood, Stub, Flagged
<1>7. CASE ~ g.err
  <2>1. PICK s : s = Ar0830Stall(g, FALSE)
    OBVIOUS
  <2>2. /\ s \in Ctx /\ SameMemory(s, g) /\ s.mode = g.mode
        /\ ~ s.err => (s.on <=> g.mode # Unset)
        /\ Smooth(g) => ~ s.err
    <3>1. PICK v \in BOOLEAN : v = FALSE
      OBVIOUS
    <3> QED
      BY <1>4, <2>1, <3>1, StallOutcome
  <2>3. /\ s.usage = g.usage /\ s.streaming = x.streaming /\ s.grab = x.grab /\ s.cur = x.cur
        /\ s.at = x.at /\ s.dead = x.dead /\ s.mode \in {Unset, Default}
    BY <1>1, <1>4, <2>2 DEF SameFlags, SameMemory, SameSensor
  <2>4. Smooth(x) => ~ s.err
    BY <1>4, <1>7, <2>2 DEF SameFlags, Smooth
  <2>5. g.usage = x.usage + 1 /\ g.usage \in Int /\ x.usage \in Int
    BY <1>1, <1>4, <1>7 DEF Ctx
  <2>6. CASE s.err
    <3>1. e = Put(s)
      BY <1>3, <1>5, <1>7, <2>1, <2>6 DEF Ar0830Stream, Ar0830Start
    <3>2. e \in Ctx /\ e.usage = s.usage - 1 /\ SameFlags(e, s) /\ SameSensor(e, s) /\ e.err = s.err
      BY <2>2, <3>1, PutOutcome
    <3>3. e.usage = x.usage
      BY <2>3, <2>5, <3>2, Counting
    <3>4. e.err /\ ~ e.streaming /\ ~ e.grab /\ e.cur = Default /\ e.mode \in {Unset, Default}
      BY <1>1, <2>3, <2>6, <3>2 DEF SameFlags, SameSensor
    <3>5. q
      BY <1>2, <2>4, <2>6
    <3> QED
      BY <1>1, <1>5, <3>2, <3>3, <3>4, <3>5 DEF Started, Good, UsageGood, FlagGood, ModeGood,
         SetGood, QuietGood, Stub, Flagged
  <2>7. CASE ~ s.err
    <3>1. PICK v \in BOOLEAN : v <=> ~ s.on
      OBVIOUS
    <3>2. v = (~ s.on)
      BY <3>1
    <3>3. e = [s EXCEPT !.blind = v]
      BY <1>3, <1>5, <1>7, <2>1, <2>7, <3>2 DEF Ar0830Stream, Ar0830Start
    <3>4. /\ e \in Ctx /\ e.err = s.err /\ e.usage = s.usage /\ e.streaming = s.streaming
          /\ e.grab = s.grab /\ e.cur = s.cur /\ e.at = s.at /\ e.dead = s.dead
          /\ e.mode = s.mode /\ e.on = s.on /\ e.blind = v
      BY <2>2, <3>3 DEF Ctx
    <3>5. ~ e.blind => e.on /\ e.mode = e.at
      <4>1. s.on => s.mode = Default
        BY <2>2, <2>3, <2>7
      <4> QED
        BY <1>1, <2>3, <3>1, <3>4, <4>1
    <3>6. e.usage > 0 /\ e.usage >= 0 /\ (x.usage = 0 => e.usage = 1)
      BY <1>1, <2>3, <2>5, <3>4, Counting
    <3>7. /\ ~ e.err /\ ~ e.streaming /\ ~ e.grab /\ e.cur = Default /\ e.at = Default
          /\ e.mode \in {Unset, Default} /\ e.dead = x.dead
      BY <1>1, <2>3, <2>7, <3>4
    <3>8. ~ q => e.usage = 1 /\ ~ e.dead
      BY <1>2, <3>6, <3>7 DEF Smooth
    <3> QED
      BY <1>5, <3>4, <3>5, <3>6, <3>7, <3>8 DEF Started, Good, UsageGood, FlagGood, ModeGood,
         SetGood, QuietGood, Stub, Flagged, HasControls
  <2> QED
    BY <2>6, <2>7
<1> QED
  BY <1>6, <1>7

LEMMA Ar0830Stops ==
    ASSUME driver = "ar0830", NEW q \in BOOLEAN, NEW x, Ready(x, q),
           Good(x, TRUE, FALSE, TRUE, q)
    PROVE  Stopped(Ar0830Stream(x, FALSE), q)
<1>1. /\ x \in Ctx /\ ~ x.err /\ x.usage > 0 /\ ~ x.streaming /\ x.cur = Default /\ ~ x.grab
      /\ x.mode \in {Unset, Default} /\ x.usage >= 0 /\ "ar0830" \notin StreamOps
  BY DEF Ready, Good, UsageGood, FlagGood, ModeGood, Flagged, StreamOps
<1>2. ~ q => Smooth(x) /\ x.usage = 1
  BY <1>1 DEF Ready, Good, QuietGood, Smooth
<1>3. PICK t : t = Ar0830Stall(x, TRUE)
  OBVIOUS
<1>4. t \in Ctx /\ SameMemory(t, x) /\ t.mode = x.mode /\ (~ t.err => ~ t.on) /\ (Smooth(x) => ~ t.err)
  <2>1. PICK v \in BOOLEAN : v = TRUE
    OBVIOUS
  <2> QED
    BY <1>1, <1>3, <2>1, StallOutcome
<1>5. PICK e : e = Ar0830Stream(x, FALSE)
  OBVIOUS
<1>6. CASE t.err
  <2>1. e = t
    BY <1>3, <1>5, <1>6 DEF Ar0830Stream, Ar0830Stop
  <2>2. q
    BY <1>2, <1>4, <1>6
  <2>3. e.usage >= 0 /\ ~ e.streaming /\ ~ e.grab /\ e.cur = Default /\ e.mode \in {Unset, Default}
    BY <1>1, <1>4, <2>1 DEF SameMemory, SameFlags
  <2> QED
    BY <1>1, <1>4, <1>5, <2>1, <2>2, <2>3 DEF Stopped, Good, UsageGood, FlagGood, ModeGood,
       SetGood, QuietGood, Flagged, Stub
<1>7. CASE ~ t.err
  <2>1. e = Put(t)
    BY <1>3, <1>5, <1>7 DEF Ar0830Stream, Ar0830Stop
  <2>2. e \in Ctx /\ SameSensor(e, t) /\ e.usage = t.usage - 1 /\ SameFlags(e, t) /\ e.err = t.err
    BY <1>4, <2>1, PutOutcome
  <2>3. e.usage >= 0 /\ (x.usage = 1 => e.usage = 0)
    <3>1. e.usage = x.usage - 1 /\ x.usage \in Int /\ e.usage \in Int
      BY <1>1, <1>4, <2>2 DEF SameMemory, Ctx
    <3> QED
      BY <1>1, <3>1, Counting
  <2>4. /\ ~ e.streaming /\ ~ e.grab /\ e.cur = Default /\ e.dead = x.dead /\ ~ e.on /\ ~ e.err
        /\ e.mode \in {Unset, Default}
    BY <1>1, <1>4, <1>7, <2>2 DEF SameMemory, SameFlags, SameSensor
  <2>5. ~ q => e.usage = 0 /\ ~ e.dead
    BY <1>2, <2>3, <2>4 DEF Smooth
  <2> QED
    BY <1>5, <2>2, <2>3, <2>4, <2>5 DEF Stopped, Good, UsageGood, FlagGood, ModeGood,
       SetGood, QuietGood, Flagged, Stub
<1> QED
  BY <1>6, <1>7

LEMMA Ar0830Suspends ==
    ASSUME driver = "ar0830", NEW c \in BOOLEAN, NEW x \in Ctx, Good(x, c, FALSE, TRUE, TRUE)
    PROVE  Suspended(Ar0830Suspend(x), c)
<1>1. /\ x.usage >= 0 /\ (c => x.usage > 0) /\ ~ x.streaming /\ ~ x.grab
      /\ x.cur = Default /\ (c => x.at = Default) /\ x.mode \in {Unset, Default}
      /\ c => x.blind \/ x.on
  BY DEF Good, UsageGood, FlagGood, ModeGood, SetGood, Flagged
<1>2. PICK b \in BOOLEAN : b <=> x.blind \/ x.on
  OBVIOUS
<1>3. b = (x.blind \/ x.on)
  BY <1>2
<1>4. PICK e : e = Ar0830Suspend(x)
  OBVIOUS
<1>5. e = [x EXCEPT !.blind = b]
  BY <1>3, <1>4 DEF Ar0830Suspend
<1>6. /\ e \in Ctx /\ e.usage = x.usage /\ e.streaming = x.streaming /\ e.grab = x.grab
      /\ e.cur = x.cur /\ e.at = x.at /\ e.blind = b /\ e.mode = x.mode
  BY <1>5 DEF Ctx
<1> QED
  BY <1>1, <1>2, <1>4, <1>6 DEF Suspended, Good, UsageGood, FlagGood, ModeGood, SetGood,
     QuietGood, Flagged, Stub

LEMMA Ar0830Resumes ==
    ASSUME driver = "ar0830", NEW c \in BOOLEAN, NEW x \in Ctx, Good(x, c, TRUE, TRUE, TRUE)
    PROVE  Resumed(Ar0830Resume(x), c)
<1>1. /\ x.usage >= 0 /\ (c => x.usage > 0) /\ ~ x.streaming /\ ~ x.grab
      /\ x.cur = Default /\ (c => x.at = Default) /\ (c => x.blind) /\ x.mode \in {Unset, Default}
  BY DEF Good, UsageGood, FlagGood, ModeGood, Flagged
<1>2. PICK y : y = Ar0830BoardSetup(x)
  OBVIOUS
<1>3. y \in Ctx /\ SameMemory(y, x) /\ y.mode \in {Unset, Default}
  BY <1>1, <1>2, BoardSetupOutcome
<1>4. PICK z : z = Ar0830Stall(y, TRUE)
  OBVIOUS
<1>5. z \in Ctx /\ SameMemory(z, y) /\ z.mode = y.mode
  <2>1. PICK v \in BOOLEAN : v = TRUE
    OBVIOUS
  <2> QED
    BY <1>3, <1>4, <2>1, StallOutcome
<1>6. PICK e : e = Ar0830Resume(x)
  OBVIOUS
<1>7. e \in {x, z}
  BY <1>2, <1>4, <1>6 DEF Ar0830Resume
<1>8. /\ e \in Ctx /\ e.usage = x.usage /\ ~ e.streaming /\ ~ e.grab /\ e.cur = Default
      /\ e.at = x.at /\ e.blind = x.blind /\ e.mode \in {Unset, Default}
  BY <1>1, <1>3, <1>5, <1>7 DEF SameMemory, SameFlags
<1> QED
  BY <1>1, <1>6, <1>8 DEF Resumed, Good, UsageGood, FlagGood, ModeGood, SetGood,
     QuietGood, Flagged, Stub

LEMMA Ar0830Probes ==
    ASSUME driver = "ar0830", NEW q \in BOOLEAN, NEW x \in Ctx,
           Good(x, FALSE, FALSE, FALSE, q), ~ x.on
    PROVE  Probed(Ar0830Probe(x), q)
<1>1. PICK y : y = Ar0830BoardSetup(x)
  OBVIOUS
<1>2. y \in Ctx /\ SameMemory(y, x) /\ y.mode \in {Unset, Default}
  BY <1>1, BoardSetupOutcome DEF Good, ModeGood
<1>3. PICK e : e = Ar0830Probe(x)
  OBVIOUS
<1>4. e \in Ctx /\ SameMemory(e, y) /\ e.mode = y.mode /\ (~ e.err => ~ e.on)
  <2>1. PICK v \in BOOLEAN : v = TRUE
    OBVIOUS
  <2> QED
    BY <1>1, <1>2, <1>3, <2>1, StallOutcome DEF Ar0830Probe
<1> QED
  BY <1>2, <1>3, <1>4 DEF Probed, Good, UsageGood, FlagGood, ModeGood, SetGood, QuietGood,
     Flagged, Stub, SameMemory, SameFlags

----------------------------------------------------------------------------
(* ar0233 and ar0820 *)

LEMMA StubStarts ==
    ASSUME Stub, NEW q \in BOOLEAN, NEW x, Ready(x, q),
           Good(x, FALSE, FALSE, TRUE, q), ~ x.blind, x.at = x.cur
    PROVE  Started(Ar0233Stream(x, TRUE), q)
<1>1. /\ x \in Ctx /\ ~ x.err /\ x.streaming = FALSE /\ x.usage >= 0 /\ x.cur = Default /\ ~ x.grab
      /\ ~ x.dead => x.on /\ x.mode = Default
  BY DEF Ready, Good, FlagGood, ModeGood, UsageGood, Ctx, Stub
<1>2. ~ q => Smooth(x) /\ x.usage = 0
  BY <1>1 DEF Ready, Good, QuietGood, Smooth, Stub
<1>3. PICK g : g = Get(x)
  OBVIOUS
<1>4. /\ g \in Ctx /\ SameFlags(g, x) /\ SameSensor(g, x)
      /\ ~ g.err => g.usage = x.usage + 1
      /\ g.err => g.usage = x.usage
      /\ Smooth(x) => ~ g.err
  BY <1>1, <1>3, GetOutcome
<1>5. PICK e : e = Ar0233Stream(x, TRUE)
  OBVIOUS
<1>6. CASE g.err
  <2>1. e = g
    BY <1>1, <1>3, <1>5, <1>6 DEF Ar0233Stream
  <2>2. e \in Ctx /\ e.err /\ e.usage = x.usage /\ ~ e.streaming /\ e.cur = Default /\ ~ e.grab
        /\ (~ e.dead => e.on /\ e.mode = Default)
    BY <1>1, <1>4, <1>6, <2>1 DEF SameFlags, SameSensor
  <2>3. q
    BY <1>2, <1>4, <1>6
  <2> QED
    BY <1>1, <1>5, <2>2, <2>3 DEF Started, Good, UsageGood, FlagGood, ModeGood, SetGood,
       QuietGood, Stub, Flagged
<1>7. CASE ~ g.err
  <2>1. PICK v \in BOOLEAN : v = x.dead
    BY <1>1 DEF Ctx
  <2>2. e = [g EXCEPT !.streaming = TRUE, !.blind = v]
    BY <1>1, <1>3, <1>5, <1>7, <2>1 DEF Ar0233Stream
  <2>3. /\ e \in Ctx /\ e.err = g.err /\ e.usage = g.usage /\ e.streaming /\ e.blind = v
        /\ e.grab = g.grab /\ e.cur = g.cur /\ e.at = g.at /\ e.dead = g.dead /\ e.on = g.on
        /\ e.mode = g.mode
    BY <1>4, <2>2 DEF Ctx
  <2>4. /\ ~ e.err /\ ~ e.grab /\ e.cur = Default /\ e.at = Default /\ e.dead = x.dead
        /\ ~ e.dead => e.on /\ e.mode = Default
        /\ e.blind = e.dead
    BY <1>1, <1>4, <1>7, <2>1, <2>3 DEF SameFlags, SameSensor
  <2>5. e.usage > 0 /\ e.usage >= 0 /\ (x.usage = 0 => e.usage = 1)
    <3>1. e.usage = x.usage + 1 /\ x.usage \in Int /\ e.usage \in Int
      BY <1>1, <1>4, <1>7, <2>3 DEF Ctx
    <3> QED
      BY <1>1, <3>1, Counting
  <2>6. ~ q => e.usage = 1 /\ ~ e.dead
    BY <1>2, <2>4, <2>5 DEF Smooth
  <2> QED
    BY <1>5, <2>3, <2>4, <2>5, <2>6 DEF Started, Good, UsageGood, FlagGood, ModeGood, SetGood,
       QuietGood, Stub, Flagged, HasControls
<1> QED
  BY <1>6, <1>7

LEMMA StubStops ==
    ASSUME Stub, NEW q \in BOOLEAN, NEW x, Ready(x, q), Good(x, TRUE, FALSE, TRUE, q)
    PROVE  Stopped(Ar0233Stream(x, FALSE), q)
<1>1. /\ x \in Ctx /\ ~ x.err /\ x.usage >= 0 /\ (x.streaming => x.usage > 0) /\ ~ x.grab
      /\ x.cur = Default /\ x.at = Default /\ (~ x.dead => x.on /\ x.mode = Default)
  BY DEF Ready, Good, UsageGood, FlagGood, ModeGood, Stub
<1>2. ~ q => Smooth(x) /\ x.streaming /\ x.usage = 1
  BY <1>1 DEF Ready, Good, QuietGood, Smooth, Flagged, Stub
<1>3. PICK e : e = Ar0233Stream(x, FALSE)
  OBVIOUS
<1>4. CASE x.streaming = FALSE
  <2>1. e = x
    BY <1>3, <1>4 DEF Ar0233Stream
  <2> QED
    BY <1>1, <1>2, <1>3, <1>4, <2>1 DEF Stopped, Good, UsageGood, FlagGood, ModeGood, SetGood,
       QuietGood, Flagged, Stub
<1>5. CASE x.streaming = TRUE
  <2>1. PICK u : u = Put(x)
    OBVIOUS
  <2>2. u \in Ctx /\ SameSensor(u, x) /\ u.usage = x.usage - 1 /\ SameFlags(u, x) /\ u.err = x.err
    BY <1>1, <2>1, PutOutcome
  <2>3. e = [u EXCEPT !.streaming = FALSE]
    BY <1>3, <1>5, <2>1 DEF Ar0233Stream
  <2>4. /\ e \in Ctx /\ e.err = u.err /\ e.usage = u.usage /\ ~ e.streaming /\ e.grab = u.grab
        /\ e.cur = u.cur /\ e.dead = u.dead /\ e.on = u.on /\ e.mode = u.mode
    BY <2>2, <2>3 DEF Ctx
  <2>5. e.usage >= 0 /\ (x.usage = 1 => e.usage = 0)
    <3>1. e.usage = x.usage - 1 /\ x.usage \in Int /\ e.usage \in Int /\ x.usage > 0
      BY <1>1, <1>5, <2>2, <2>4 DEF Ctx
    <3> QED
      BY <3>1, Counting
  <2>6. /\ ~ e.err /\ ~ e.grab /\ e.cur = Default /\ e.dead = x.dead
        /\ ~ e.dead => e.on /\ e.mode = Default
    BY <1>1, <2>2, <2>4 DEF SameFlags, SameSensor
  <2>7. ~ q => e.usage = 0 /\ ~ e.dead
    BY <1>2, <2>5, <2>6 DEF Smooth
  <2> QED
    BY <1>3, <2>4, <2>5, <2>6, <2>7 DEF Stopped, Good, UsageGood, FlagGood, ModeGood, SetGood,
       QuietGood, Flagged, Stub
<1> QED
  BY <1>1, <1>4, <1>5 DEF Ctx

LEMMA StubSuspends ==
    ASSUME Stub, NEW c \in BOOLEAN, NEW x \in Ctx, Good(x, c, FALSE, TRUE, TRUE)
    PROVE  Suspended(Ar0233Suspend(x), c)
BY DEF Ar0233Suspend, Suspended, Good, UsageGood, FlagGood, ModeGood, SetGood, QuietGood,
   Flagged, Stub

LEMMA AwakeOutcome ==
    ASSUME NEW x \in Ctx, NEW e, e = Ar0233Awake(x)
    PROVE  /\ e \in Ctx /\ SameMemory(e, x) /\ e.err = x.err
           /\ e.on /\ e.mode = x.cur /\ e.gain = x.ctl
BY DEF Ar0233Awake, Ctx, SameMemory, SameFlags

LEMMA StubResumes ==
    ASSUME Stub, NEW c \in BOOLEAN, NEW x \in Ctx, Good(x, c, TRUE, TRUE, TRUE)
    PROVE  Resumed(Ar0233Resume(x), c)
<1>1. /\ x.usage >= 0 /\ (x.streaming => x.usage > 0 /\ c) /\ (c /\ ~ x.streaming => x.blind)
      /\ ~ x.grab /\ x.cur = Default /\ (c => x.at = Default)
  BY DEF Good, UsageGood, FlagGood, ModeGood, Flagged, Stub
<1>2. PICK e : e = Ar0233Resume(x)
  OBVIOUS
<1>3. e \in Ctx /\ SameMemory(e, x) /\ e.on /\ e.mode = x.cur
  BY <1>2, AwakeOutcome DEF Ar0233Resume
<1> QED
  BY <1>1, <1>2, <1>3 DEF Resumed, Good, UsageGood, FlagGood, ModeGood, SetGood, QuietGood,
     Flagged, Stub, HasControls, SameMemory, SameFlags

LEMMA StubProbes ==
    ASSUME Stub, NEW q \in BOOLEAN, NEW x \in Ctx, Good(x, FALSE, FALSE, FALSE, q)
    PROVE  Probed(Ar0233Probe(x), q)
<1>1. PICK e : e = Ar0233Probe(x)
  OBVIOUS
<1>2. e \in Ctx /\ SameMemory(e, x) /\ e.on /\ e.mode = x.cur
  BY <1>1, AwakeOutcome DEF Ar0233Probe
<1> QED
  BY <1>1, <1>2 DEF Probed, Good, UsageGood, FlagGood, ModeGood, SetGood, QuietGood,
     Flagged, Stub, SameMemory, SameFlags

----------------------------------------------------------------------------
(* The driver's operations *)

LEMMA DriverStarts ==
    ASSUME driver \in AllDrivers, NEW q \in BOOLEAN, NEW x, Ready(x, q),
           Good(x, FALSE, FALSE, TRUE, q), ~ x.blind, x.at = x.cur
    PROVE  Started(SetStream(x, TRUE), q)
<1>1. CASE driver = "isx031"
  BY <1>1, Isx031Starts DEF SetStream
<1>2. CASE driver = "ar0234"
  BY <1>2, Ar0234Starts DEF SetStream
<1>3. CASE driver = "imx586"
  BY <1>3, Imx586Starts DEF SetStream
<1>4. CASE driver = "imx415"
  BY <1>4, Imx415Starts DEF SetStream
<1>5. CASE driver = "ar0830"
  BY <1>5, Ar0830Starts DEF SetStream
<1>6. CASE driver \in {"ar0233", "ar0820"}
  BY <1>6, StubStarts DEF SetStream, Ar0820Stream, Stub
<1> QED
  BY <1>1, <1>2, <1>3, <1>4, <1>5, <1>6 DEF AllDrivers

LEMMA DriverStops ==
    ASSUME driver \in AllDrivers, NEW q \in BOOLEAN, NEW x, Ready(x, q),
           Good(x, TRUE, FALSE, TRUE, q)
    PROVE  Stopped(SetStream(x, FALSE), q)
<1>1. CASE driver = "isx031"
  BY <1>1, Isx031Stops DEF SetStream
<1>2. CASE driver = "ar0234"
  BY <1>2, Ar0234Stops DEF SetStream
<1>3. CASE driver = "imx586"
  BY <1>3, Imx586Stops DEF SetStream
<1>4. CASE driver = "imx415"
  BY <1>4, Imx415Stops DEF SetStream
<1>5. CASE driver = "ar0830"
  BY <1>5, Ar0830Stops DEF SetStream
<1>6. CASE driver \in {"ar0233", "ar0820"}
  BY <1>6, StubStops DEF SetStream, Ar0820Stream, Stub
<1> QED
  BY <1>1, <1>2, <1>3, <1>4, <1>5, <1>6 DEF AllDrivers

LEMMA DriverSuspends ==
    ASSUME driver \in AllDrivers, NEW c \in BOOLEAN, NEW x \in Ctx, Good(x, c, FALSE, TRUE, TRUE)
    PROVE  Suspended(DriverSuspend(x), c)
<1>1. CASE driver = "isx031"
  BY <1>1, Isx031Suspends DEF DriverSuspend
<1>2. CASE driver = "ar0234"
  BY <1>2, Ar0234Suspends DEF DriverSuspend
<1>3. CASE driver = "imx586"
  BY <1>3, Imx586Suspends DEF DriverSuspend
<1>4. CASE driver = "imx415"
  BY <1>4, Imx415Suspends DEF DriverSuspend
<1>5. CASE driver = "ar0830"
  BY <1>5, Ar0830Suspends DEF DriverSuspend
<1>6. CASE driver \in {"ar0233", "ar0820"}
  BY <1>6, StubSuspends DEF DriverSuspend, Ar0820Suspend, Stub
<1> QED
  BY <1>1, <1>2, <1>3, <1>4, <1>5, <1>6 DEF AllDrivers

LEMMA DriverResumes ==
    ASSUME driver \in AllDrivers, NEW c \in BOOLEAN, NEW x \in Ctx, Good(x, c, TRUE, TRUE, TRUE)
    PROVE  Resumed(DriverResume(x), c)
<1>1. CASE driver = "isx031"
  BY <1>1, Isx031Resumes DEF DriverResume
<1>2. CASE driver = "ar0234"
  BY <1>2, Ar0234Resumes DEF DriverResume
<1>3. CASE driver = "imx586"
  BY <1>3, Imx586Resumes DEF DriverResume
<1>4. CASE driver = "imx415"
  BY <1>4, Imx415Resumes DEF DriverResume
<1>5. CASE driver = "ar0830"
  BY <1>5, Ar0830Resumes DEF DriverResume
<1>6. CASE driver \in {"ar0233", "ar0820"}
  BY <1>6, StubResumes DEF DriverResume, Ar0820Resume, Stub
<1> QED
  BY <1>1, <1>2, <1>3, <1>4, <1>5, <1>6 DEF AllDrivers

LEMMA DriverProbes ==
    ASSUME driver \in AllDrivers, NEW q \in BOOLEAN, NEW x \in Ctx,
           Good(x, FALSE, FALSE, FALSE, q), ~ x.on
    PROVE  Probed(DriverProbe(x), q)
<1>1. CASE driver = "isx031"
  BY <1>1, Isx031Probes DEF DriverProbe
<1>2. CASE driver = "ar0234"
  BY <1>2, Ar0234Probes DEF DriverProbe
<1>3. CASE driver = "imx586"
  BY <1>3, Imx586Probes DEF DriverProbe
<1>4. CASE driver = "imx415"
  BY <1>4, Imx415Probes DEF DriverProbe
<1>5. CASE driver = "ar0830"
  BY <1>5, Ar0830Probes DEF DriverProbe
<1>6. CASE driver \in {"ar0233", "ar0820"}
  BY <1>6, StubProbes DEF DriverProbe, Ar0820Probe, Stub
<1> QED
  BY <1>1, <1>2, <1>3, <1>4, <1>5, <1>6 DEF AllDrivers

----------------------------------------------------------------------------
(* The steps *)

\* Contexts that differ in the outcome of the handler only.
SameBut(y, x) ==
    /\ y.usage = x.usage /\ y.streaming = x.streaming /\ y.grab = x.grab
    /\ y.cur = x.cur /\ y.pre = x.pre /\ y.ctl = x.ctl /\ y.on = x.on
    /\ y.mode = x.mode /\ y.gain = x.gain /\ y.dead = x.dead /\ y.at = x.at
    /\ y.lapse = x.lapse /\ y.blind = x.blind

LEMMA GoodSameBut ==
    ASSUME NEW x, NEW y, NEW s \in BOOLEAN, NEW a \in BOOLEAN, NEW b \in BOOLEAN,
           NEW q \in BOOLEAN, NEW p \in BOOLEAN, Good(x, s, a, b, q), q => p, SameBut(y, x)
    PROVE  Good(y, s, a, b, p)
<1>1. UsageGood(y, s) /\ FlagGood(y, s, a)
  BY DEF Good, UsageGood, FlagGood, SameBut
<1>2. ModeGood(y, s, a, b)
  BY DEF Good, ModeGood, SameBut
<1>3. SetGood(y, s, a)
  BY DEF Good, SetGood, SameBut
<1>4. QuietGood(y, s, a, b, p)
  BY DEF Good, QuietGood, SameBut
<1> QED
  BY <1>1, <1>2, <1>3, <1>4 DEF Good

LEMMA FaultyOutcome ==
    ASSUME d \in Ctx, NEW x \in Chances, NEW f, f = Faulty(x)
    PROVE  f \in Ctx /\ SameBut(f, d) /\ ~ f.err /\ f.op = x[1]
<1>1. x[1] \in Ops \cup {"none"} /\ x[2] \in Nat
  BY DEF Chances, Always
<1> QED
  BY <1>1 DEF Faulty, Ctx, SameBut

LEMMA SettledOutcome ==
    ASSUME NEW x \in Ctx, NEW y, y = Settled(x)
    PROVE  y \in Ctx /\ SameBut(y, x) /\ ~ y.err
BY DEF Settled, Ctx, SameBut

SensorsTypeInv ==
    /\ driver \in AllDrivers /\ hasReset \in BOOLEAN
    /\ bound \in BOOLEAN /\ started \in BOOLEAN /\ asleep \in BOOLEAN /\ disturbed \in BOOLEAN
    /\ d \in Ctx /\ ~ d.err

\* The inductive invariant.
SensorsInv ==
    /\ SensorsTypeInv
    /\ Good(d, started, asleep, bound, disturbed)
    /\ started \/ asleep => bound
    /\ asleep /\ hasReset => d.dead

LEMMA GoodNext ==
    ASSUME driver' = driver, NEW y, NEW s, NEW a, NEW b, NEW q, Good(y, s, a, b, q),
           y = d', s = started', a = asleep', b = bound', q = disturbed'
    PROVE  Good(d, started, asleep, bound, disturbed)'
BY DEF Good, UsageGood, FlagGood, ModeGood, SetGood, QuietGood, Flagged, Stub, HasControls

LEMMA FreshGood ==
    ASSUME NEW n \in Int, n >= 0, NEW q \in BOOLEAN, ~ q /\ driver # "imx586" => n = 0,
           NEW e, e = [Fresh EXCEPT !.usage = n]
    PROVE  e \in Ctx /\ ~ e.err /\ Good(e, FALSE, FALSE, FALSE, q)
<1>1. Default \in Modes
  BY SensorsAssumption
<1>2. /\ e \in Ctx /\ ~ e.err /\ e.usage = n /\ ~ e.streaming /\ ~ e.grab /\ e.cur = Default
      /\ ~ e.dead /\ e.mode = Unset
  BY <1>1 DEF Fresh, Ctx, Kinds, Values
<1> QED
  BY <1>2 DEF Good, UsageGood, FlagGood, ModeGood, SetGood, QuietGood

LEMMA InitSensors == Init => SensorsInv
<1> SUFFICES ASSUME Init
             PROVE  SensorsInv
  OBVIOUS
<1>1. Default \in Modes /\ d = Fresh
  BY SensorsAssumption DEF Init
<1>2. /\ d \in Ctx /\ ~ d.err /\ d.usage = 0 /\ ~ d.streaming /\ ~ d.grab /\ d.cur = Default
      /\ ~ d.dead /\ d.mode = Unset
  BY <1>1 DEF Fresh, Ctx, Kinds, Values
<1>3. Good(d, FALSE, FALSE, FALSE, FALSE)
  BY <1>2 DEF Good, UsageGood, FlagGood, ModeGood, SetGood, QuietGood
<1>4. SensorsTypeInv
  BY <1>2, SensorsAssumption DEF Init, SensorsTypeInv
<1> QED
  BY <1>3, <1>4 DEF Init, SensorsInv

LEMMA StartStep == SensorsInv /\ Start => SensorsInv'
<1> SUFFICES ASSUME SensorsInv, Start
             PROVE  SensorsInv'
  OBVIOUS
<1> DEFINE f(x) == Faulty(x)
           y(x) == [Faulty(x) EXCEPT !.at = d.cur, !.blind = FALSE]
<1>1. PICK x \in Chances :
        LET e == SetStream(y(x), TRUE)
        IN  /\ bound /\ ~ started /\ ~ asleep
            /\ d' = Settled(e) /\ started' = ~ e.err
            /\ disturbed' = (disturbed \/ x[1] # "none")
            /\ UNCHANGED <<driver, hasReset, bound, asleep, naps>>
  BY DEF Start
<1>2. PICK z : z = y(x)
  OBVIOUS
<1>3. PICK e : e = SetStream(z, TRUE)
  OBVIOUS
<1>4. /\ bound /\ ~ started /\ ~ asleep /\ d' = Settled(e) /\ started' = ~ e.err
      /\ disturbed' = (disturbed \/ x[1] # "none")
      /\ UNCHANGED <<driver, hasReset, bound, asleep>>
  BY <1>1, <1>2, <1>3
<1>5. PICK q \in BOOLEAN : q = disturbed'
  BY <1>4 DEF SensorsInv, SensorsTypeInv
<1>6. f(x) \in Ctx /\ SameBut(f(x), d) /\ ~ f(x).err /\ f(x).op = x[1]
  BY FaultyOutcome DEF SensorsInv, SensorsTypeInv
<1>7. d.cur \in Kinds /\ Good(d, FALSE, FALSE, TRUE, disturbed) /\ disturbed \in BOOLEAN
  <2>1. d.cur \in Kinds /\ disturbed \in BOOLEAN
    BY DEF SensorsInv, SensorsTypeInv, Ctx, Kinds
  <2>2. started = FALSE /\ asleep = FALSE /\ bound = TRUE
    BY <1>4 DEF SensorsInv, SensorsTypeInv
  <2> QED
    BY <2>1, <2>2 DEF SensorsInv
<1>8. Good(f(x), FALSE, FALSE, TRUE, q)
  BY <1>4, <1>5, <1>6, <1>7, GoodSameBut
<1>9. /\ z \in Ctx /\ ~ z.err /\ z.op = x[1] /\ ~ z.blind /\ z.at = d.cur /\ z.cur = d.cur
      /\ z.usage = f(x).usage /\ z.streaming = f(x).streaming /\ z.grab = f(x).grab
      /\ z.mode = f(x).mode /\ z.pre = f(x).pre /\ z.lapse = f(x).lapse /\ z.on = f(x).on
      /\ z.dead = f(x).dead /\ f(x).cur = d.cur
  BY <1>2, <1>6, <1>7 DEF Ctx, SameBut
<1>10. Good(z, FALSE, FALSE, TRUE, q)
  BY <1>8, <1>9 DEF Good, UsageGood, FlagGood, ModeGood, SetGood, QuietGood
<1>11. ~ q => z.op = "none"
  BY <1>4, <1>5, <1>9
<1>12. Started(e, q)
  BY <1>3, <1>9, <1>10, <1>11, DriverStarts DEF Ready, SensorsInv, SensorsTypeInv
<1>13. PICK w : w = Settled(e)
  OBVIOUS
<1>14. PICK s \in BOOLEAN : s = ~ e.err
  BY <1>12 DEF Started, Ctx
<1>15. w \in Ctx /\ ~ w.err /\ Good(w, s, FALSE, TRUE, q)
  BY <1>12, <1>13, <1>14, SettledOutcome, GoodSameBut DEF Started
<1>16. /\ w = d' /\ s = started' /\ FALSE = asleep' /\ TRUE = bound' /\ driver' = driver
       /\ hasReset' = hasReset
  BY <1>4, <1>13, <1>14 DEF SensorsInv, SensorsTypeInv
<1>17. Good(d, started, asleep, bound, disturbed)'
  BY <1>5, <1>15, <1>16, GoodNext
<1>18. SensorsTypeInv'
  BY <1>5, <1>15, <1>16 DEF SensorsInv, SensorsTypeInv
<1> QED
  BY <1>16, <1>17, <1>18 DEF SensorsInv

LEMMA StopStep == SensorsInv /\ Stop => SensorsInv'
<1> SUFFICES ASSUME SensorsInv, Stop
             PROVE  SensorsInv'
  OBVIOUS
<1>1. PICK x \in Chances :
        LET e == SetStream(Faulty(x), FALSE)
        IN  /\ started /\ ~ asleep
            /\ d' = Settled(e) /\ started' = (e.err /\ driver \in StreamOps)
            /\ disturbed' = (disturbed \/ x[1] # "none")
            /\ UNCHANGED <<driver, hasReset, bound, asleep, naps>>
  BY DEF Stop
<1>2. PICK z : z = Faulty(x)
  OBVIOUS
<1>3. PICK e : e = SetStream(z, FALSE)
  OBVIOUS
<1>4. /\ started /\ ~ asleep /\ d' = Settled(e) /\ started' = (e.err /\ driver \in StreamOps)
      /\ disturbed' = (disturbed \/ x[1] # "none")
      /\ UNCHANGED <<driver, hasReset, bound, asleep>>
  BY <1>1, <1>2, <1>3
<1>5. PICK q \in BOOLEAN : q = disturbed'
  BY <1>4 DEF SensorsInv, SensorsTypeInv
<1>6. z \in Ctx /\ SameBut(z, d) /\ ~ z.err /\ z.op = x[1]
  BY <1>2, FaultyOutcome DEF SensorsInv, SensorsTypeInv
<1>7. Good(d, TRUE, FALSE, TRUE, disturbed) /\ disturbed \in BOOLEAN /\ bound = TRUE
  <2>1. disturbed \in BOOLEAN
    BY DEF SensorsInv, SensorsTypeInv
  <2>2. started = TRUE /\ asleep = FALSE /\ bound = TRUE
    BY <1>4 DEF SensorsInv, SensorsTypeInv
  <2> QED
    BY <2>1, <2>2 DEF SensorsInv
<1>8. Good(z, TRUE, FALSE, TRUE, q)
  BY <1>4, <1>5, <1>6, <1>7, GoodSameBut
<1>9. ~ q => z.op = "none"
  BY <1>4, <1>5, <1>6
<1>10. Stopped(e, q)
  BY <1>3, <1>6, <1>8, <1>9, DriverStops DEF Ready, SensorsInv, SensorsTypeInv
<1>11. PICK w : w = Settled(e)
  OBVIOUS
<1>12. PICK s \in BOOLEAN : s = (e.err /\ driver \in StreamOps)
  BY <1>10 DEF Stopped, Ctx
<1>13. w \in Ctx /\ ~ w.err /\ Good(w, s, FALSE, TRUE, q)
  BY <1>10, <1>11, <1>12, SettledOutcome, GoodSameBut DEF Stopped
<1>14. /\ w = d' /\ s = started' /\ FALSE = asleep' /\ TRUE = bound' /\ driver' = driver
       /\ hasReset' = hasReset
  BY <1>4, <1>7, <1>11, <1>12 DEF SensorsInv, SensorsTypeInv
<1>15. Good(d, started, asleep, bound, disturbed)'
  BY <1>5, <1>13, <1>14, GoodNext
<1>16. SensorsTypeInv'
  BY <1>5, <1>13, <1>14 DEF SensorsInv, SensorsTypeInv
<1> QED
  BY <1>14, <1>15, <1>16 DEF SensorsInv

LEMMA ProbeStep == SensorsInv /\ Probe => SensorsInv'
<1> SUFFICES ASSUME SensorsInv, Probe
             PROVE  SensorsInv'
  OBVIOUS
<1>1. PICK x \in Chances :
        LET e == DriverProbe([Faulty(x) EXCEPT !.mode = Unset, !.on = FALSE])
        IN  /\ ~ bound /\ ~ asleep /\ bound' = ~ e.err
            /\ d' = IF e.err THEN [Fresh EXCEPT !.usage = d.usage] ELSE Settled(e)
            /\ UNCHANGED <<driver, hasReset, started, asleep, disturbed, naps>>
  BY DEF Probe
<1>2. PICK f : f = Faulty(x)
  OBVIOUS
<1>3. PICK z : z = [f EXCEPT !.mode = Unset, !.on = FALSE]
  OBVIOUS
<1>4. PICK e : e = DriverProbe(z)
  OBVIOUS
<1>5. /\ ~ bound /\ ~ asleep /\ bound' = ~ e.err
      /\ d' = IF e.err THEN [Fresh EXCEPT !.usage = d.usage] ELSE Settled(e)
      /\ UNCHANGED <<driver, hasReset, started, asleep, disturbed>>
  BY <1>1, <1>2, <1>3, <1>4
<1>6. PICK q \in BOOLEAN : q = disturbed
  BY DEF SensorsInv, SensorsTypeInv
<1>7. Good(d, FALSE, FALSE, FALSE, q) /\ started = FALSE /\ asleep = FALSE
  <2>1. started = FALSE /\ asleep = FALSE /\ bound = FALSE
    BY <1>5 DEF SensorsInv, SensorsTypeInv
  <2> QED
    BY <1>6, <2>1 DEF SensorsInv
<1>8. f \in Ctx /\ SameBut(f, d)
  BY <1>2, FaultyOutcome DEF SensorsInv, SensorsTypeInv
<1>9. Good(f, FALSE, FALSE, FALSE, q)
  BY <1>7, <1>8, GoodSameBut
<1>10. /\ z \in Ctx /\ ~ z.on /\ z.mode = Unset /\ z.usage = f.usage /\ z.streaming = f.streaming
       /\ z.grab = f.grab /\ z.cur = f.cur /\ z.dead = f.dead
  BY <1>3, <1>8 DEF Ctx
<1>11. Good(z, FALSE, FALSE, FALSE, q)
  BY <1>9, <1>10 DEF Good, UsageGood, FlagGood, ModeGood, SetGood, QuietGood
<1>12. Probed(e, q)
  BY <1>4, <1>10, <1>11, DriverProbes DEF SensorsInv, SensorsTypeInv
<1>13. CASE e.err
  <2>1. PICK w : w = [Fresh EXCEPT !.usage = d.usage]
    OBVIOUS
  <2>2. d.usage \in Int /\ d.usage >= 0 /\ (~ q /\ driver # "imx586" => d.usage = 0)
    BY <1>7 DEF SensorsInv, SensorsTypeInv, Ctx, Good, UsageGood, QuietGood
  <2>3. w \in Ctx /\ ~ w.err /\ Good(w, FALSE, FALSE, FALSE, q)
    BY <2>1, <2>2, FreshGood
  <2>4. /\ w = d' /\ FALSE = started' /\ FALSE = asleep' /\ FALSE = bound' /\ driver' = driver
        /\ hasReset' = hasReset /\ q = disturbed'
    BY <1>5, <1>6, <1>7, <1>13, <2>1
  <2>5. Good(d, started, asleep, bound, disturbed)'
    BY <2>3, <2>4, GoodNext
  <2>6. SensorsTypeInv'
    BY <2>3, <2>4 DEF SensorsInv, SensorsTypeInv
  <2> QED
    BY <2>4, <2>5, <2>6 DEF SensorsInv
<1>14. CASE ~ e.err
  <2>1. PICK w : w = Settled(e)
    OBVIOUS
  <2>2. w \in Ctx /\ ~ w.err /\ Good(w, FALSE, FALSE, TRUE, q)
    BY <1>12, <1>14, <2>1, SettledOutcome, GoodSameBut DEF Probed
  <2>3. /\ w = d' /\ FALSE = started' /\ FALSE = asleep' /\ TRUE = bound' /\ driver' = driver
        /\ hasReset' = hasReset /\ q = disturbed'
    BY <1>5, <1>6, <1>7, <1>14, <2>1
  <2>4. Good(d, started, asleep, bound, disturbed)'
    BY <2>2, <2>3, GoodNext
  <2>5. SensorsTypeInv'
    BY <2>2, <2>3 DEF SensorsInv, SensorsTypeInv
  <2> QED
    BY <2>3, <2>4, <2>5 DEF SensorsInv
<1> QED
  BY <1>13, <1>14

LEMMA RemoveStep == SensorsInv /\ Remove => SensorsInv'
<1> SUFFICES ASSUME SensorsInv, Remove
             PROVE  SensorsInv'
  OBVIOUS
<1>1. /\ bound = TRUE /\ started = FALSE /\ asleep = FALSE /\ bound' = FALSE
      /\ d' = [Fresh EXCEPT !.usage = d.usage]
      /\ UNCHANGED <<driver, hasReset, started, asleep, disturbed>>
  BY DEF Remove, SensorsInv, SensorsTypeInv
<1>2. PICK q \in BOOLEAN : q = disturbed
  BY DEF SensorsInv, SensorsTypeInv
<1>3. Good(d, FALSE, FALSE, TRUE, q)
  BY <1>1, <1>2 DEF SensorsInv
<1>4. d.usage \in Int /\ d.usage >= 0 /\ (~ q /\ driver # "imx586" => d.usage = 0)
  BY <1>3 DEF SensorsInv, SensorsTypeInv, Ctx, Good, UsageGood, QuietGood
<1>5. PICK w : w = d'
  OBVIOUS
<1>6. w \in Ctx /\ ~ w.err /\ Good(w, FALSE, FALSE, FALSE, q)
  BY <1>1, <1>4, <1>5, FreshGood
<1>7. /\ w = d' /\ FALSE = started' /\ FALSE = asleep' /\ FALSE = bound' /\ driver' = driver
      /\ hasReset' = hasReset /\ q = disturbed'
  BY <1>1, <1>2, <1>5
<1>8. Good(d, started, asleep, bound, disturbed)'
  BY <1>6, <1>7, GoodNext
<1>9. SensorsTypeInv'
  BY <1>6, <1>7 DEF SensorsInv, SensorsTypeInv
<1> QED
  BY <1>7, <1>8, <1>9 DEF SensorsInv

LEMMA SetFormatStep == SensorsInv /\ SetFormat => SensorsInv'
<1> SUFFICES ASSUME SensorsInv, SetFormat
             PROVE  SensorsInv'
  OBVIOUS
<1>1. PICK m \in Modes : d' = [d EXCEPT !.cur = m]
  BY DEF SetFormat
<1>2. /\ driver = "isx031"
      /\ UNCHANGED <<driver, hasReset, bound, started, asleep, disturbed>>
  BY DEF SetFormat
<1>3. PICK w : w = d'
  OBVIOUS
<1>4. /\ w \in Ctx /\ ~ w.err /\ w.usage = d.usage /\ w.streaming = d.streaming /\ w.grab = d.grab
      /\ w.pre = d.pre /\ w.ctl = d.ctl /\ w.on = d.on /\ w.mode = d.mode /\ w.gain = d.gain
      /\ w.dead = d.dead /\ w.at = d.at /\ w.lapse = d.lapse /\ w.blind = d.blind
  BY <1>1, <1>3 DEF SensorsInv, SensorsTypeInv, Ctx
<1>5. Good(w, started, asleep, bound, disturbed)
  BY <1>2, <1>4 DEF SensorsInv, Good, UsageGood, FlagGood, ModeGood, SetGood, QuietGood, Stub
<1>6. Good(d, started, asleep, bound, disturbed)'
  BY <1>2, <1>3, <1>5, GoodNext
<1>7. SensorsTypeInv'
  BY <1>2, <1>3, <1>4 DEF SensorsInv, SensorsTypeInv
<1> QED
  BY <1>2, <1>3, <1>4, <1>6, <1>7 DEF SensorsInv

LEMMA SetCtrlStep == SensorsInv /\ SetCtrl => SensorsInv'
<1> SUFFICES ASSUME SensorsInv, SetCtrl
             PROVE  SensorsInv'
  OBVIOUS
<1>1. PICK v \in Values, x \in Chances :
        LET e == IF d.usage = 0 THEN [Faulty(x) EXCEPT !.ctl = v]
                 ELSE Try(Faulty(x), "ctrl", [Faulty(x) EXCEPT !.ctl = v, !.gain = v])
        IN  /\ d' = Settled(e)
            /\ disturbed' = (disturbed \/ x[1] # "none")
            /\ UNCHANGED <<driver, hasReset, bound, started, asleep, naps>>
  BY DEF SetCtrl, Values
<1>2. HasControls /\ asleep = FALSE /\ bound = TRUE
  BY DEF SetCtrl, SensorsInv, SensorsTypeInv
<1>3. PICK f : f = Faulty(x)
  OBVIOUS
<1>4. PICK y : y = [f EXCEPT !.ctl = v]
  OBVIOUS
<1>5. PICK z : z = [f EXCEPT !.ctl = v, !.gain = v]
  OBVIOUS
<1>6. PICK e : e = IF d.usage = 0 THEN y ELSE Try(f, "ctrl", z)
  OBVIOUS
<1>7. /\ d' = Settled(e) /\ disturbed' = (disturbed \/ x[1] # "none")
      /\ UNCHANGED <<driver, hasReset, bound, started, asleep>>
  BY <1>1, <1>3, <1>4, <1>5, <1>6
<1>8. PICK q \in BOOLEAN : q = disturbed'
  BY <1>7 DEF SensorsInv, SensorsTypeInv
<1>9. PICK s \in BOOLEAN : s = started
  BY DEF SensorsInv, SensorsTypeInv
<1>10. f \in Ctx /\ SameBut(f, d)
  BY <1>3, FaultyOutcome DEF SensorsInv, SensorsTypeInv
<1>11. Good(d, s, FALSE, TRUE, disturbed) /\ disturbed \in BOOLEAN
  BY <1>2, <1>9 DEF SensorsInv, SensorsTypeInv
<1>12. Good(f, s, FALSE, TRUE, q)
  BY <1>7, <1>8, <1>10, <1>11, GoodSameBut
<1>13. e \in Ctx /\ Good(e, s, FALSE, TRUE, q)
  <2>1. CASE d.usage = 0
    <3>1. /\ y \in Ctx /\ y.usage = f.usage /\ y.streaming = f.streaming /\ y.grab = f.grab
          /\ y.cur = f.cur /\ y.pre = f.pre /\ y.on = f.on /\ y.mode = f.mode
          /\ y.dead = f.dead /\ y.at = f.at /\ y.lapse = f.lapse /\ y.blind = f.blind
      BY <1>4, <1>10 DEF Ctx
    <3>2. f.usage = 0
      BY <1>10, <2>1 DEF SameBut
    <3>3. s => f.blind
      BY <1>2, <1>12, <3>2 DEF Good, UsageGood, FlagGood, Flagged
    <3>4. Good(y, s, FALSE, TRUE, q)
      BY <1>12, <3>1, <3>3 DEF Good, UsageGood, FlagGood, ModeGood, SetGood, QuietGood
    <3> QED
      BY <1>6, <2>1, <3>1, <3>4
  <2>2. CASE d.usage # 0
    <3>1. /\ z \in Ctx /\ z.usage = f.usage /\ z.streaming = f.streaming /\ z.grab = f.grab
          /\ z.cur = f.cur /\ z.pre = f.pre /\ z.on = f.on /\ z.mode = f.mode
          /\ z.dead = f.dead /\ z.at = f.at /\ z.lapse = f.lapse /\ z.blind = f.blind
          /\ z.gain = z.ctl
      BY <1>5, <1>10 DEF Ctx
    <3>2. Good(z, s, FALSE, TRUE, q)
      BY <1>12, <3>1 DEF Good, UsageGood, FlagGood, ModeGood, SetGood, QuietGood
    <3>3. e = Try(f, "ctrl", z) /\ "ctrl" \in Ops
      BY <1>6, <2>2, OpNames
    <3>4. e \in Ctx /\ (e = z \/ (SameMemory(e, f) /\ SameSensor(e, f)))
      BY <1>10, <3>1, <3>3, TryOutcome
    <3>5. SameMemory(e, f) /\ SameSensor(e, f) => SameBut(e, f)
      BY DEF SameMemory, SameFlags, SameSensor, SameBut
    <3>6. SameBut(e, f) => Good(e, s, FALSE, TRUE, q)
      BY <1>12, GoodSameBut
    <3> QED
      BY <3>2, <3>4, <3>5, <3>6
  <2> QED
    BY <2>1, <2>2
<1>14. PICK w : w = Settled(e)
  OBVIOUS
<1>15. w \in Ctx /\ ~ w.err /\ Good(w, s, FALSE, TRUE, q)
  BY <1>13, <1>14, SettledOutcome, GoodSameBut
<1>16. /\ w = d' /\ s = started' /\ FALSE = asleep' /\ TRUE = bound' /\ driver' = driver
       /\ hasReset' = hasReset
  BY <1>2, <1>7, <1>9, <1>14
<1>17. Good(d, started, asleep, bound, disturbed)'
  BY <1>8, <1>15, <1>16, GoodNext
<1>18. SensorsTypeInv'
  BY <1>8, <1>15, <1>16 DEF SensorsInv, SensorsTypeInv
<1> QED
  BY <1>16, <1>17, <1>18 DEF SensorsInv

LEMMA RuntimeSuspendStep == SensorsInv /\ RuntimeSuspend => SensorsInv'
<1> SUFFICES ASSUME SensorsInv, RuntimeSuspend
             PROVE  SensorsInv'
  OBVIOUS
<1>1. /\ bound = TRUE /\ driver = "imx415" /\ asleep = FALSE /\ d.usage = 0 /\ d' = Lost(d)
      /\ UNCHANGED <<driver, hasReset, bound, started, asleep, disturbed>>
  BY DEF RuntimeSuspend, OwnPower, SensorsInv, SensorsTypeInv
<1>2. PICK q \in BOOLEAN : q = disturbed
  BY DEF SensorsInv, SensorsTypeInv
<1>3. started = FALSE
  BY <1>1 DEF SensorsInv, SensorsTypeInv, Good, UsageGood, Flagged
<1>4. Good(d, FALSE, FALSE, TRUE, q)
  BY <1>1, <1>2, <1>3 DEF SensorsInv
<1>5. PICK w : w = Lost(d)
  OBVIOUS
<1>6. w \in Ctx /\ SameMemory(w, d) /\ w.err = d.err /\ ~ w.on
  BY <1>5, LostOutcome DEF SensorsInv, SensorsTypeInv
<1>7. Good(w, FALSE, FALSE, TRUE, q)
  BY <1>1, <1>4, <1>6 DEF Good, UsageGood, FlagGood, ModeGood, SetGood, QuietGood, Stub,
     SameMemory, SameFlags
<1>8. /\ w = d' /\ FALSE = started' /\ FALSE = asleep' /\ TRUE = bound' /\ driver' = driver
      /\ hasReset' = hasReset /\ q = disturbed'
  BY <1>1, <1>2, <1>3, <1>5
<1>9. Good(d, started, asleep, bound, disturbed)'
  BY <1>7, <1>8, GoodNext
<1>10. SensorsTypeInv'
  BY <1>6, <1>8 DEF SensorsInv, SensorsTypeInv
<1> QED
  BY <1>8, <1>9, <1>10 DEF SensorsInv

LEMMA SuspendStep == SensorsInv /\ Suspend => SensorsInv'
<1> SUFFICES ASSUME SensorsInv, Suspend
             PROVE  SensorsInv'
  OBVIOUS
<1>1. PICK x \in Chances :
        LET e == DriverSuspend(Faulty(x))
        IN  /\ bound /\ ~ asleep
            /\ d' = IF hasReset THEN [Settled(Lost(e)) EXCEPT !.dead = TRUE] ELSE Settled(e)
            /\ asleep' = TRUE /\ disturbed' = TRUE
            /\ UNCHANGED <<driver, hasReset, bound, started>>
  BY DEF Suspend
<1>2. PICK f : f = Faulty(x)
  OBVIOUS
<1>3. PICK e : e = DriverSuspend(f)
  OBVIOUS
<1>4. /\ bound = TRUE /\ asleep = FALSE /\ asleep' = TRUE /\ disturbed' = TRUE
      /\ d' = IF hasReset THEN [Settled(Lost(e)) EXCEPT !.dead = TRUE] ELSE Settled(e)
      /\ UNCHANGED <<driver, hasReset, bound, started>>
  BY <1>1, <1>2, <1>3 DEF SensorsInv, SensorsTypeInv
<1>5. PICK c \in BOOLEAN : c = started
  BY DEF SensorsInv, SensorsTypeInv
<1>6. Good(d, c, FALSE, TRUE, disturbed) /\ disturbed \in BOOLEAN
  BY <1>4, <1>5 DEF SensorsInv, SensorsTypeInv
<1>7. f \in Ctx /\ SameBut(f, d)
  BY <1>2, FaultyOutcome DEF SensorsInv, SensorsTypeInv
<1>8. Good(f, c, FALSE, TRUE, TRUE)
  BY <1>6, <1>7, GoodSameBut
<1>9. e \in Ctx /\ Good(e, c, TRUE, TRUE, TRUE)
  BY <1>3, <1>7, <1>8, DriverSuspends DEF Suspended, SensorsInv, SensorsTypeInv
<1>10. PICK w : w = d'
  OBVIOUS
<1>11. w \in Ctx /\ ~ w.err /\ Good(w, c, TRUE, TRUE, TRUE) /\ (hasReset => w.dead)
  <2>1. CASE ~ hasReset
    <3>1. w = Settled(e)
      BY <1>4, <1>10, <2>1
    <3> QED
      BY <1>9, <2>1, <3>1, SettledOutcome, GoodSameBut
  <2>2. CASE hasReset
    <3>1. PICK l : l = Lost(e)
      OBVIOUS
    <3>2. l \in Ctx /\ SameMemory(l, e) /\ l.mode = Unset
      BY <1>9, <3>1, LostOutcome
    <3>3. PICK z : z = Settled(l)
      OBVIOUS
    <3>4. z \in Ctx /\ SameBut(z, l) /\ ~ z.err
      BY <3>2, <3>3, SettledOutcome
    <3>5. w = [z EXCEPT !.dead = TRUE]
      BY <1>4, <1>10, <2>2, <3>1, <3>3
    <3>6. /\ w \in Ctx /\ ~ w.err /\ w.dead /\ w.mode = z.mode /\ w.usage = z.usage
          /\ w.streaming = z.streaming /\ w.grab = z.grab /\ w.cur = z.cur /\ w.at = z.at
          /\ w.blind = z.blind
      BY <3>4, <3>5 DEF Ctx
    <3>7. /\ w.mode = Unset /\ w.usage = e.usage /\ w.streaming = e.streaming /\ w.grab = e.grab
          /\ w.cur = e.cur /\ w.at = e.at /\ w.blind = e.blind
      BY <3>2, <3>4, <3>6 DEF SameBut, SameMemory, SameFlags
    <3> QED
      BY <1>9, <3>6, <3>7 DEF Good, UsageGood, FlagGood, ModeGood, SetGood, QuietGood
  <2> QED
    BY <2>1, <2>2
<1>12. /\ w = d' /\ c = started' /\ TRUE = asleep' /\ TRUE = bound' /\ TRUE = disturbed'
       /\ driver' = driver /\ hasReset' = hasReset
  BY <1>4, <1>5, <1>10
<1>13. Good(d, started, asleep, bound, disturbed)'
  BY <1>11, <1>12, GoodNext
<1>14. SensorsTypeInv'
  BY <1>11, <1>12 DEF SensorsInv, SensorsTypeInv
<1> QED
  BY <1>11, <1>12, <1>13, <1>14 DEF SensorsInv

LEMMA ResumeStep == SensorsInv /\ Resume => SensorsInv'
<1> SUFFICES ASSUME SensorsInv, Resume
             PROVE  SensorsInv'
  OBVIOUS
<1>1. PICK x \in Chances :
        LET f == Faulty(x)
            g == IF hasReset /\ ~ OwnPower THEN Try(f, "gpio", [f EXCEPT !.dead = FALSE]) ELSE f
            e == IF g.err THEN [g EXCEPT !.blind = TRUE] ELSE DriverResume(g)
        IN  /\ asleep /\ asleep' = FALSE
            /\ d' = [Settled(e) EXCEPT !.lapse = IF g.err THEN d.pre ELSE @]
            /\ UNCHANGED <<driver, hasReset, bound, started, disturbed>>
  BY DEF Resume
<1>2. PICK f : f = Faulty(x)
  OBVIOUS
<1>3. PICK y : y = [f EXCEPT !.dead = FALSE]
  OBVIOUS
<1>4. PICK g : g = IF hasReset /\ ~ OwnPower THEN Try(f, "gpio", y) ELSE f
  OBVIOUS
<1>5. PICK e : e = IF g.err THEN [g EXCEPT !.blind = TRUE] ELSE DriverResume(g)
  OBVIOUS
<1>6. PICK z : z = Settled(e)
  OBVIOUS
<1>7. /\ asleep = TRUE /\ asleep' = FALSE
      /\ d' = [z EXCEPT !.lapse = IF g.err THEN d.pre ELSE @]
      /\ UNCHANGED <<driver, hasReset, bound, started, disturbed>>
  BY <1>1, <1>2, <1>3, <1>4, <1>5, <1>6 DEF SensorsInv, SensorsTypeInv
<1>8. PICK c \in BOOLEAN : c = started
  BY DEF SensorsInv, SensorsTypeInv
<1>9. bound = TRUE /\ disturbed = TRUE
  BY <1>7 DEF SensorsInv, SensorsTypeInv, Good, QuietGood
<1>10. Good(d, c, TRUE, TRUE, TRUE)
  BY <1>7, <1>8, <1>9 DEF SensorsInv
<1>11. f \in Ctx /\ SameBut(f, d) /\ ~ f.err
  BY <1>2, FaultyOutcome DEF SensorsInv, SensorsTypeInv
<1>12. Good(f, c, TRUE, TRUE, TRUE)
  BY <1>10, <1>11, GoodSameBut
<1>13. y \in Ctx /\ y.err = f.err /\ Good(y, c, TRUE, TRUE, TRUE)
  <2>1. /\ y \in Ctx /\ y.err = f.err /\ y.usage = f.usage /\ y.streaming = f.streaming
        /\ y.grab = f.grab /\ y.cur = f.cur /\ y.at = f.at /\ y.blind = f.blind /\ y.mode = f.mode
    BY <1>3, <1>11 DEF Ctx
  <2> QED
    BY <1>12, <2>1 DEF Good, UsageGood, FlagGood, ModeGood, SetGood, QuietGood
\* A line that does not rise leaves the sensor in reset.
<1>14. /\ g \in Ctx /\ Good(g, c, TRUE, TRUE, TRUE)
       /\ g.err => SameBut(g, f) /\ hasReset
  <2>1. CASE hasReset /\ ~ OwnPower
    <3>1. g = Try(f, "gpio", y) /\ "gpio" \in Ops
      BY <1>4, <2>1, OpNames
    <3>2. g \in Ctx /\ (g = y \/ (SameMemory(g, f) /\ SameSensor(g, f)))
      BY <1>11, <1>13, <3>1, TryOutcome
    <3>3. SameMemory(g, f) /\ SameSensor(g, f) => SameBut(g, f)
      BY DEF SameMemory, SameFlags, SameSensor, SameBut
    <3>4. SameBut(g, f) => Good(g, c, TRUE, TRUE, TRUE)
      BY <1>12, GoodSameBut
    <3> QED
      BY <1>11, <1>13, <2>1, <3>2, <3>3, <3>4
  <2>2. CASE ~ (hasReset /\ ~ OwnPower)
    BY <1>4, <1>11, <1>12, <2>2
  <2> QED
    BY <2>1, <2>2
<1>15. PICK w : w = d'
  OBVIOUS
<1>16. w \in Ctx /\ ~ w.err /\ Good(w, c, FALSE, TRUE, TRUE)
  <2>1. CASE g.err
    <3>1. e = [g EXCEPT !.blind = TRUE]
      BY <1>5, <2>1
    <3>2. /\ e \in Ctx /\ e.blind /\ e.usage = g.usage /\ e.streaming = g.streaming
          /\ e.grab = g.grab /\ e.cur = g.cur /\ e.pre = g.pre /\ e.dead = g.dead
          /\ e.mode = g.mode /\ e.at = g.at
      BY <1>14, <3>1 DEF Ctx
    <3>3. z \in Ctx /\ SameBut(z, e) /\ ~ z.err
      BY <1>6, <3>2, SettledOutcome
    <3>4. w = [z EXCEPT !.lapse = d.pre] /\ d.pre \in Kinds
      BY <1>7, <1>15, <2>1 DEF SensorsInv, SensorsTypeInv, Ctx
    <3>5. /\ w \in Ctx /\ ~ w.err /\ w.lapse = d.pre /\ w.blind = z.blind /\ w.usage = z.usage
          /\ w.streaming = z.streaming /\ w.grab = z.grab /\ w.cur = z.cur /\ w.pre = z.pre
          /\ w.dead = z.dead /\ w.mode = z.mode /\ w.at = z.at
      BY <3>3, <3>4 DEF Ctx
    <3>6. d.dead
      BY <1>7, <1>14, <2>1 DEF SensorsInv
    <3>7. g.pre = d.pre /\ g.dead = d.dead
      BY <1>11, <1>14, <2>1 DEF SameBut
    <3>8. /\ z.blind /\ z.pre = g.pre /\ z.dead = g.dead
          /\ z.usage = g.usage /\ z.streaming = g.streaming /\ z.grab = g.grab
          /\ z.cur = g.cur /\ z.mode = g.mode /\ z.at = g.at
      BY <3>2, <3>3 DEF SameBut
    <3>9. /\ w.blind /\ w.lapse = w.pre /\ w.dead
          /\ w.usage = g.usage /\ w.streaming = g.streaming /\ w.grab = g.grab
          /\ w.cur = g.cur /\ w.mode = g.mode /\ w.at = g.at
      BY <3>5, <3>6, <3>7, <3>8
    <3> QED
      BY <1>14, <3>5, <3>9 DEF Good, UsageGood, FlagGood, ModeGood, SetGood, QuietGood
  <2>2. CASE ~ g.err
    <3>1. e \in Ctx /\ Good(e, c, FALSE, TRUE, TRUE)
      BY <1>5, <1>14, <2>2, DriverResumes DEF Resumed, SensorsInv, SensorsTypeInv
    <3>2. z \in Ctx /\ SameBut(z, e) /\ ~ z.err
      BY <1>6, <3>1, SettledOutcome
    <3>3. PICK l \in Kinds : l = z.lapse
      BY <3>2 DEF Ctx
    <3>4. w = [z EXCEPT !.lapse = l]
      BY <1>7, <1>15, <2>2, <3>3
    <3>5. w \in Ctx /\ SameBut(w, z) /\ ~ w.err
      BY <3>2, <3>3, <3>4 DEF Ctx, SameBut
    <3>6. SameBut(w, e)
      BY <3>2, <3>5 DEF SameBut
    <3> QED
      BY <3>1, <3>5, <3>6, GoodSameBut
  <2> QED
    BY <2>1, <2>2
<1>17. /\ w = d' /\ c = started' /\ FALSE = asleep' /\ TRUE = bound' /\ TRUE = disturbed'
       /\ driver' = driver /\ hasReset' = hasReset
  BY <1>7, <1>8, <1>9, <1>15
<1>18. Good(d, started, asleep, bound, disturbed)'
  BY <1>16, <1>17, GoodNext
<1>19. SensorsTypeInv'
  BY <1>16, <1>17 DEF SensorsInv, SensorsTypeInv
<1> QED
  BY <1>17, <1>18, <1>19 DEF SensorsInv

LEMMA SensorsStep == SensorsInv /\ [Next]_vars => SensorsInv'
<1> SUFFICES ASSUME SensorsInv, [Next]_vars
             PROVE  SensorsInv'
  OBVIOUS
<1>1. CASE UNCHANGED vars
  BY <1>1 DEF vars, SensorsInv, SensorsTypeInv, Good, UsageGood, FlagGood, ModeGood, SetGood,
     QuietGood, Flagged, Stub, HasControls
<1>2. CASE Probe
  BY <1>2, ProbeStep
<1>3. CASE Remove
  BY <1>3, RemoveStep
<1>4. CASE Start
  BY <1>4, StartStep
<1>5. CASE Stop
  BY <1>5, StopStep
<1>6. CASE SetFormat
  BY <1>6, SetFormatStep
<1>7. CASE SetCtrl
  BY <1>7, SetCtrlStep
<1>8. CASE RuntimeSuspend
  BY <1>8, RuntimeSuspendStep
<1>9. CASE Suspend
  BY <1>9, SuspendStep
<1>10. CASE Resume
  BY <1>10, ResumeStep
<1> QED
  BY <1>1, <1>2, <1>3, <1>4, <1>5, <1>6, <1>7, <1>8, <1>9, <1>10 DEF Next

LEMMA SensorsInvariant == Spec => []SensorsInv
BY InitSensors, SensorsStep, PTL DEF Spec

----------------------------------------------------------------------------
(* Theorems *)

\* For every driver, any number of failing calls and sleeps and whatever is
\* left of a failed one: a stream that the core has started, and whose loss
\* the driver did not hide, comes from a sensor that streams in the mode set
\* when it started, with the controls' values.
THEOREM StreamsAlwaysAsSet == Spec => []StreamsAsSet
<1>1. SensorsInv => StreamsAsSet
  BY DEF SensorsInv, Good, SetGood, StreamsAsSet
<1> QED
  BY <1>1, SensorsInvariant, PTL

\* The references of runtime power management are balanced: a sensor its
\* driver has streaming is held, none is given back that was not taken, and
\* after undisturbed streams the sensor is off, out of use and its flips are
\* free, but for the references imx586 keeps.
THEOREM HoldsAlwaysReleased == Spec => []HeldThenReleased
<1>1. SensorsInv => HeldThenReleased
  BY DEF SensorsInv, SensorsTypeInv, Ctx, Good, UsageGood, QuietGood, HeldThenReleased, Stub
<1> QED
  BY <1>1, SensorsInvariant, PTL
=============================================================================
