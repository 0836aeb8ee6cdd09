----------------------------- MODULE D4xxProofs -----------------------------
(***************************************************************************)
(* Proofs about D4xx for any control handlers, any calls made through them *)
(* and any number of faults: the firmware update, the mailbox, the flags   *)
(* of the streams and their data types.                                    *)
(***************************************************************************)
EXTENDS D4xx, TLAPS

----------------------------------------------------------------------------
(* The firmware update *)

SessionPcs == {"shut", "open", "start", "switch", "detach", "blocks", "complete", "error", "finish"}
Flags      == {"idle", "recovery", "open", "progress", "done", "error"}

VideoTypes   == [checked : Nat, stale : Nat, open : Nat, raced : BOOLEAN]
SessionTypes == [pc : SessionPcs, left : Nat, tail : BOOLEAN, sent : Nat]

UpdateTypes ==
    /\ session \in SessionTypes
    /\ image \in [mode : {"run", "dfu", "manifest"}, blocks : Nat]
    /\ video \in VideoTypes
    /\ flag \in Flags

\* Where an update is, by the flag; what the firmware then holds.
UpdatePlace ==
    /\ session.pc \in {"start", "switch", "detach"} => flag \in {"open", "recovery"}
    /\ session.pc \in {"blocks", "complete"} => flag = "progress"
    /\ flag = "progress" => session.pc \in {"open", "blocks", "complete", "error", "finish"}

BlocksCounted ==
    /\ flag = "progress" /\ session.pc # "error" =>
          image.mode = "dfu" /\ image.blocks = session.sent
    /\ image.mode = "manifest" => image.blocks = session.sent

\* An update that may still take blocks was opened with no video handle open.
NoVideoBeside ==
    session.pc # "shut" /\ flag \in {"open", "progress", "recovery"} =>
        video.checked = 0 /\ (video.open = 0 \/ video.raced)

UpdateInv == UpdateTypes /\ UpdatePlace /\ BlocksCounted /\ NoVideoBeside

LEMMA UpdateInit == Init => UpdateInv
BY DEF Init, InitControls, Shut, NoVideo, UpdateInv, UpdateTypes, UpdatePlace, BlocksCounted,
       NoVideoBeside, SessionPcs, Flags, VideoTypes, SessionTypes

\* Records whose fields are replaced one by one.
LEMMA VideoFields ==
    ASSUME NEW v \in VideoTypes, NEW c \in Nat, NEW s \in Nat, NEW o \in Nat, NEW r \in BOOLEAN
    PROVE  /\ [v EXCEPT !.checked = c] \in VideoTypes
           /\ [v EXCEPT !.open = o] \in VideoTypes
           /\ [v EXCEPT !.checked = c, !.open = o] \in VideoTypes
           /\ [v EXCEPT !.stale = s, !.open = o, !.raced = r] \in VideoTypes
           /\ [v EXCEPT !.stale = s, !.checked = c] \in VideoTypes
           /\ [v EXCEPT !.checked = c, !.stale = s, !.raced = r] \in VideoTypes
BY DEF VideoTypes

LEMMA SessionPc ==
    ASSUME NEW v \in SessionTypes, NEW p \in SessionPcs
    PROVE  /\ [v EXCEPT !.pc = p] \in SessionTypes
           /\ [v EXCEPT !.pc = p].pc = p /\ [v EXCEPT !.pc = p].sent = v.sent
BY DEF SessionTypes

LEMMA VideoKeeps ==
    UpdateInv /\ (VideoCheck \/ VideoOpen \/ VideoClose) => UpdateInv'
<1> SUFFICES ASSUME UpdateInv, VideoCheck \/ VideoOpen \/ VideoClose PROVE UpdateInv'
  OBVIOUS
<1> USE DEF UpdateInv
<1>1. UNCHANGED <<session, image, flag>>
  BY DEF VideoCheck, VideoOpen, VideoClose
<1>2. video \in VideoTypes /\ video.checked \in Nat /\ video.stale \in Nat /\ video.open \in Nat
  BY DEF UpdateTypes, VideoTypes
<1>3. CASE VideoCheck
  <2>1. video' = [video EXCEPT !.checked = video.checked + 1] /\ flag = "idle"
    BY <1>3 DEF VideoCheck
  <2>2. video.checked + 1 \in Nat
    BY <1>2
  <2>3. video' \in VideoTypes
    BY <1>2, <2>1, <2>2, VideoFields
  <2> QED
    BY <1>1, <2>1, <2>3 DEF UpdateTypes, UpdatePlace, BlocksCounted, NoVideoBeside
<1>4. CASE VideoOpen
  <2>1. CASE /\ video.checked > 0
             /\ video' = [video EXCEPT !.checked = video.checked - 1, !.open = video.open + 1]
    <3>1. video.checked # 0 /\ video.checked - 1 \in Nat /\ video.open + 1 \in Nat
      BY <1>2, <2>1
    <3>2. video' \in VideoTypes
      BY <1>2, <2>1, <3>1, VideoFields
    <3> QED
      BY <1>1, <3>1, <3>2 DEF UpdateTypes, UpdatePlace, BlocksCounted, NoVideoBeside
  <2>2. CASE /\ video.stale > 0
             /\ video' = [video EXCEPT !.stale = video.stale - 1, !.open = video.open + 1, !.raced = TRUE]
    <3>1. video.stale - 1 \in Nat /\ video.open + 1 \in Nat
      BY <1>2, <2>2
    <3>2. video' \in VideoTypes
      BY <1>2, <2>2, <3>1, VideoFields
    <3>3. video'.raced /\ video'.checked = video.checked
      BY <1>2, <2>2 DEF VideoTypes
    <3> QED
      BY <1>1, <3>2, <3>3 DEF UpdateTypes, UpdatePlace, BlocksCounted, NoVideoBeside
  <2> QED
    BY <1>4, <2>1, <2>2 DEF VideoOpen
<1>5. CASE VideoClose
  <2>1. video.open > 0 /\ video' = [video EXCEPT !.open = video.open - 1]
    BY <1>5 DEF VideoClose
  <2>2. video.open # 0 /\ video.open - 1 \in Nat
    BY <1>2, <2>1
  <2>3. video' \in VideoTypes
    BY <1>2, <2>1, <2>2, VideoFields
  <2>4. video'.raced = video.raced /\ video'.checked = video.checked
    BY <1>2, <2>1 DEF VideoTypes
  <2> QED
    BY <1>1, <2>2, <2>3, <2>4 DEF UpdateTypes, UpdatePlace, BlocksCounted, NoVideoBeside
<1> QED
  BY <1>3, <1>4, <1>5

LEMMA SessionKeeps ==
    UpdateInv /\ (DfuOpen \/ DfuWrite \/ DfuRelease) => UpdateInv'
<1> SUFFICES ASSUME UpdateInv, DfuOpen \/ DfuWrite \/ DfuRelease PROVE UpdateInv'
  OBVIOUS
<1> USE DEF UpdateInv
<1>1. UNCHANGED image /\ session \in SessionTypes /\ video \in VideoTypes /\ flag \in Flags
  BY DEF DfuOpen, DfuWrite, DfuRelease, UpdateTypes
<1>2. video.checked \in Nat /\ video.stale \in Nat /\ video.open \in Nat
  BY <1>1 DEF VideoTypes
<1>3. 0 \in Nat /\ video.checked + video.stale \in Nat /\ video.stale + video.checked \in Nat
  BY <1>2
<1>4. CASE DfuOpen
  <2>1. /\ session.pc = "shut" /\ video.open = 0
        /\ session' = [session EXCEPT !.pc = "open"]
        /\ flag' \in {"recovery", "open"}
        /\ video' = [video EXCEPT !.stale = video.stale + video.checked, !.checked = 0]
    BY <1>4 DEF DfuOpen
  <2>2. "open" \in SessionPcs /\ flag' \in Flags
    BY <2>1 DEF SessionPcs, Flags
  <2>3. session' \in SessionTypes /\ session'.pc = "open" /\ session'.sent = session.sent
    BY <1>1, <2>1, <2>2, SessionPc
  <2>4. video' \in VideoTypes
    BY <1>1, <1>3, <2>1, VideoFields
  <2>5. video'.checked = 0 /\ video'.open = 0
    BY <1>1, <2>1 DEF VideoTypes
  <2> QED
    BY <1>1, <2>1, <2>2, <2>3, <2>4, <2>5 DEF UpdateTypes, UpdatePlace, BlocksCounted, NoVideoBeside
<1>5. CASE DfuWrite
  <2>1. PICK n \in 0 .. 1, tail \in BOOLEAN :
            session' = [session EXCEPT !.left = n, !.tail = tail, !.pc =
                CASE flag = "open" -> "start"
                  [] flag = "recovery" -> "detach"
                  [] flag = "progress" -> "blocks"
                  [] OTHER -> "error"]
    BY <1>5 DEF DfuWrite
  <2>2. UNCHANGED <<flag, video>> /\ session.pc = "open"
    BY <1>5 DEF DfuWrite
  <2>3. PICK p \in SessionPcs :
            /\ session' = [session EXCEPT !.left = n, !.tail = tail, !.pc = p]
            /\ p \in {"start", "detach", "blocks", "error"}
            /\ p = "start" => flag = "open"
            /\ p = "detach" => flag = "recovery"
            /\ p = "blocks" <=> flag = "progress"
    BY <2>1 DEF SessionPcs
  <2>4. n \in Nat
    OBVIOUS
  <2>5. session' \in SessionTypes /\ session'.pc = p /\ session'.sent = session.sent
    BY <1>1, <2>3, <2>4 DEF SessionTypes
  <2> QED
    BY <1>1, <2>2, <2>3, <2>5 DEF UpdateTypes, UpdatePlace, BlocksCounted, NoVideoBeside
<1>6. CASE DfuRelease
  <2>1. /\ session.pc = "open"
        /\ session' = [session EXCEPT !.pc = "shut"]
        /\ flag' \in {"recovery", "idle"}
        /\ video' = [video EXCEPT !.checked = video.checked + video.stale, !.stale = 0, !.raced = FALSE]
    BY <1>6 DEF DfuRelease
  <2>2. "shut" \in SessionPcs /\ flag' \in Flags
    BY <2>1 DEF SessionPcs, Flags
  <2>3. session' \in SessionTypes /\ session'.pc = "shut" /\ session'.sent = session.sent
    BY <1>1, <2>1, <2>2, SessionPc
  <2>4. video' \in VideoTypes
    BY <1>1, <1>3, <2>1, VideoFields
  <2> QED
    BY <1>1, <2>1, <2>2, <2>3, <2>4 DEF UpdateTypes, UpdatePlace, BlocksCounted, NoVideoBeside
<1> QED
  BY <1>4, <1>5, <1>6

LEMMA UpdateKeeps == UpdateInv /\ Update => UpdateInv'
<1> SUFFICES ASSUME UpdateInv, Update PROVE UpdateInv'
  OBVIOUS
<1> USE DEF UpdateInv
<1>1. UNCHANGED video /\ session \in SessionTypes /\ flag \in Flags /\ video \in VideoTypes
  BY DEF Update, DfuSwitch, DfuBoot, DfuDetach, DfuBlock, DfuComplete, DfuError, DfuFinish,
         UpdateTypes
<1>2. /\ image \in [mode : {"run", "dfu", "manifest"}, blocks : Nat]
      /\ image.mode \in {"run", "dfu", "manifest"} /\ image.blocks \in Nat /\ session.sent \in Nat
  BY <1>1 DEF UpdateTypes, SessionTypes
<1>3. [mode |-> "dfu", blocks |-> 0] \in [mode : {"run", "dfu", "manifest"}, blocks : Nat]
  OBVIOUS
<1>4. {"error", "switch", "detach", "blocks", "finish", "open", "complete"} \subseteq SessionPcs
  BY DEF SessionPcs
<1>5. CASE DfuSwitch
  <2>1. UNCHANGED flag /\ session.pc = "start"
    BY <1>5 DEF DfuSwitch
  <2>2. PICK p \in {"error", "switch"} : session' = [session EXCEPT !.pc = p]
    BY <1>5 DEF DfuSwitch
  <2>3. image' = image \/ image' = [mode |-> "dfu", blocks |-> 0]
    BY <1>5 DEF DfuSwitch
  <2>4. session' \in SessionTypes /\ session'.pc = p /\ session'.sent = session.sent
    BY <1>1, <1>4, <2>2, SessionPc
  <2> QED
    BY <1>1, <1>2, <1>3, <2>1, <2>3, <2>4 DEF UpdateTypes, UpdatePlace, BlocksCounted, NoVideoBeside
<1>6. CASE DfuBoot
  <2>1. UNCHANGED <<flag, image>> /\ session.pc = "switch"
    BY <1>6 DEF DfuBoot
  <2>2. PICK p \in {"error", "detach"} : session' = [session EXCEPT !.pc = p]
    BY <1>6 DEF DfuBoot
  <2>3. session' \in SessionTypes /\ session'.pc = p /\ session'.sent = session.sent
    BY <1>1, <1>4, <2>2, SessionPc
  <2> QED
    BY <1>1, <1>2, <2>1, <2>3 DEF UpdateTypes, UpdatePlace, BlocksCounted, NoVideoBeside
<1>7. CASE DfuDetach
  <2>1. UNCHANGED image /\ session.pc = "detach" /\ flag \in {"open", "recovery"}
    BY <1>7 DEF DfuDetach, UpdatePlace
  <2>2. CASE /\ image = [mode |-> "dfu", blocks |-> 0] /\ flag' = "progress"
             /\ session' = [session EXCEPT !.pc = "blocks", !.sent = 0]
    <3>1. session' \in SessionTypes /\ session'.pc = "blocks" /\ session'.sent = 0
      BY <1>1, <1>4, <2>2 DEF SessionTypes
    <3> QED
      BY <1>1, <1>2, <2>1, <2>2, <3>1 DEF UpdateTypes, UpdatePlace, BlocksCounted, NoVideoBeside, Flags
  <2>3. CASE flag' = flag /\ session' = [session EXCEPT !.pc = "error"]
    <3>1. session' \in SessionTypes /\ session'.pc = "error" /\ session'.sent = session.sent
      BY <1>1, <1>4, <2>3, SessionPc
    <3> QED
      BY <1>1, <1>2, <2>1, <2>3, <3>1 DEF UpdateTypes, UpdatePlace, BlocksCounted, NoVideoBeside
  <2> QED
    BY <1>7, <2>2, <2>3 DEF DfuDetach
<1>8. CASE DfuBlock
  <2>1. UNCHANGED flag /\ session.pc = "blocks" /\ flag = "progress"
    BY <1>8 DEF DfuBlock, UpdatePlace
  <2>2. image.mode = "dfu" /\ image.blocks = session.sent
    BY <2>1 DEF BlocksCounted
  <2>3. ASSUME NEW next \in {"blocks", "complete"}, Block(next) PROVE UpdateInv'
    <3>1. PICK ok \in BOOLEAN, taken \in BOOLEAN :
              /\ ok => taken
              /\ image' = IF taken THEN [image EXCEPT !.blocks = image.blocks + 1] ELSE image
              /\ session' = [session EXCEPT !.pc = IF ok THEN next ELSE "error",
                                !.left = IF session.left > 0 THEN session.left - 1 ELSE 0,
                                !.sent = IF ok THEN session.sent + 1 ELSE session.sent]
      BY <2>3 DEF Block
    <3>2. PICK p \in SessionPcs, l \in Nat, n \in Nat :
              /\ session' = [session EXCEPT !.pc = p, !.left = l, !.sent = n]
              /\ ok => p = next /\ n = session.sent + 1
              /\ ~ok => p = "error"
      <4>1. session.left \in Nat
        BY <1>1 DEF SessionTypes
      <4>2. (IF session.left > 0 THEN session.left - 1 ELSE 0) \in Nat
        BY <4>1
      <4>3. (IF ok THEN session.sent + 1 ELSE session.sent) \in Nat
        BY <1>2
      <4>4. (IF ok THEN next ELSE "error") \in SessionPcs
        BY <1>4
      <4> QED
        BY <3>1, <4>2, <4>3, <4>4
    <3>3. session' \in SessionTypes /\ session'.pc = p /\ session'.sent = n
      BY <1>1, <3>2 DEF SessionTypes
    <3>4. /\ image' \in [mode : {"run", "dfu", "manifest"}, blocks : Nat]
          /\ image'.mode = "dfu"
          /\ ok => image'.blocks = image.blocks + 1
      <4>1. image.blocks + 1 \in Nat
        BY <1>2
      <4>2. ASSUME NEW m \in Nat
            PROVE  /\ [image EXCEPT !.blocks = m] \in [mode : {"run", "dfu", "manifest"}, blocks : Nat]
                   /\ [image EXCEPT !.blocks = m].mode = image.mode
                   /\ [image EXCEPT !.blocks = m].blocks = m
        BY <1>2
      <4> QED
        BY <1>2, <2>2, <3>1, <4>1, <4>2
    <3>5. BlocksCounted'
      BY <2>1, <2>2, <3>2, <3>3, <3>4 DEF BlocksCounted
    <3> QED
      BY <1>1, <2>1, <3>2, <3>3, <3>4, <3>5 DEF UpdateTypes, UpdatePlace, NoVideoBeside
  <2>4. CASE session' = [session EXCEPT !.pc = "finish"] /\ UNCHANGED image
    <3>1. session' \in SessionTypes /\ session'.pc = "finish" /\ session'.sent = session.sent
      BY <1>1, <1>4, <2>4, SessionPc
    <3> QED
      BY <1>1, <1>2, <2>1, <2>2, <2>4, <3>1 DEF UpdateTypes, UpdatePlace, BlocksCounted, NoVideoBeside
  <2> QED
    BY <1>8, <2>3, <2>4 DEF DfuBlock
<1>9. CASE DfuComplete
  <2>1. session.pc = "complete" /\ flag = "progress"
    BY <1>9 DEF DfuComplete, UpdatePlace
  <2>2. image.mode = "dfu" /\ image.blocks = session.sent
    BY <2>1 DEF BlocksCounted
  <2>3. PICK p \in {"finish", "error"} :
            /\ session' = [session EXCEPT !.pc = p]
            /\ IF p = "finish" THEN flag' = "done" ELSE flag' = flag
            /\ image' = image \/ image' = [image EXCEPT !.mode = "manifest"]
    BY <1>9 DEF DfuComplete
  <2>4. session' \in SessionTypes /\ session'.pc = p /\ session'.sent = session.sent
    BY <1>1, <1>4, <2>3, SessionPc
  <2>5. /\ image' \in [mode : {"run", "dfu", "manifest"}, blocks : Nat]
        /\ image'.blocks = image.blocks
    BY <1>2, <2>3
  <2>6. flag' \in Flags /\ (p = "finish" => flag' = "done")
    BY <1>1, <2>3 DEF Flags
  <2> QED
    BY <1>1, <2>1, <2>2, <2>3, <2>4, <2>5, <2>6 DEF UpdateTypes, UpdatePlace, BlocksCounted, NoVideoBeside
<1>10. CASE DfuError
  <2>1. session.pc = "error" /\ session' = [session EXCEPT !.pc = "finish"]
    BY <1>10 DEF DfuError
  <2>2. flag' \in {"error", "idle"}
    BY <1>10 DEF DfuError
  <2>3. image' = image \/ image' = [mode |-> "dfu", blocks |-> 0]
    BY <1>10 DEF DfuError
  <2>4. session' \in SessionTypes /\ session'.pc = "finish" /\ session'.sent = session.sent
    BY <1>1, <1>4, <2>1, SessionPc
  <2> QED
    BY <1>1, <1>2, <1>3, <2>2, <2>3, <2>4
       DEF UpdateTypes, UpdatePlace, BlocksCounted, NoVideoBeside, Flags
<1>11. CASE DfuFinish
  <2>1. /\ UNCHANGED <<flag, image>> /\ session.pc = "finish"
        /\ session' = [session EXCEPT !.pc = "open"]
    BY <1>11 DEF DfuFinish
  <2>2. session' \in SessionTypes /\ session'.pc = "open" /\ session'.sent = session.sent
    BY <1>1, <1>4, <2>1, SessionPc
  <2> QED
    BY <1>1, <1>2, <2>1, <2>2 DEF UpdateTypes, UpdatePlace, BlocksCounted, NoVideoBeside
<1> QED
  BY <1>5, <1>6, <1>7, <1>8, <1>9, <1>10, <1>11 DEF Update

\* Everything else leaves the update and the video handles alone.
ElsewhereStep ==
    \/ \E h \in Handlers : Advance(h)
    \/ Execute
    \/ \E h \in Handlers, k \in Kinds : Control(h, k)
    \/ \E m \in (SUBSET Active) \ {{}}, on \in BOOLEAN : Toggle(m, on)
    \/ StreamStep \/ FirmwareStarts
    \/ EnterFormat \/ GetFormat \/ MuxSetFormat \/ SetFormat

LEMMA ElsewhereKeeps == ElsewhereStep => UNCHANGED <<session, image, video, flag>>
<1> SUFFICES ASSUME ElsewhereStep PROVE UNCHANGED <<session, image, video, flag>>
  OBVIOUS
<1>1. ASSUME NEW h \in Handlers, Advance(h) PROVE UNCHANGED <<session, image, video, flag>>
  BY <1>1 DEF Advance, Lock, Send, Poll, ReadOut, Return
<1>2. CASE Execute
  BY <1>2 DEF Execute
<1>3. ASSUME NEW h \in Handlers, NEW k \in Kinds, Control(h, k)
      PROVE  UNCHANGED <<session, image, video, flag>>
  BY <1>3 DEF Control, Enter
<1>4. ASSUME NEW m \in (SUBSET Active) \ {{}}, NEW on \in BOOLEAN, Toggle(m, on)
      PROVE  UNCHANGED <<session, image, video, flag>>
  BY <1>4 DEF Toggle
<1>5. CASE StreamStep
  BY <1>5 DEF StreamStep, Configure, Start, Started, GiveUp, Stop, KeepRest
<1>6. CASE FirmwareStarts \/ EnterFormat \/ GetFormat \/ MuxSetFormat \/ SetFormat
  BY <1>6 DEF FirmwareStarts, EnterFormat, GetFormat, MuxSetFormat, SetFormat, controlVars
<1> QED
  BY <1>1, <1>2, <1>3, <1>4, <1>5, <1>6 DEF ElsewhereStep

LEMMA UpdateInvariant == Spec => []UpdateInv
<1>1. UpdateInv /\ [Next]_vars => UpdateInv'
  <2> SUFFICES ASSUME UpdateInv, [Next]_vars PROVE UpdateInv'
    OBVIOUS
  <2>1. CASE UNCHANGED <<session, image, video, flag>>
    BY <2>1 DEF UpdateInv, UpdateTypes, UpdatePlace, BlocksCounted, NoVideoBeside
  <2>2. UNCHANGED vars => UNCHANGED <<session, image, video, flag>>
    BY DEF vars, controlVars
  <2>3. Next => \/ ElsewhereStep
                \/ VideoCheck \/ VideoOpen \/ VideoClose
                \/ DfuOpen \/ DfuWrite \/ Update \/ DfuRelease
    BY DEF Next, ControlStep, ElsewhereStep
  <2> QED
    BY <2>1, <2>2, <2>3, ElsewhereKeeps, VideoKeeps, SessionKeeps, UpdateKeeps
<1> QED
  BY <1>1, UpdateInit, PTL DEF Spec

(* However updates are opened, cut into writes, broken off and repeated,   *)
(* the firmware ends a download only with exactly the blocks of this one,  *)
(* and no video handle is open during it but those that raced its opening  *)
(* (ds5_dfu_device_write(), ds5_mux_open()).                               *)
THEOREM UpdateAlwaysSound == Spec => []UpdateSound
<1>1. UpdateInv => UpdateSound
  BY DEF UpdateInv, UpdatePlace, BlocksCounted, NoVideoBeside, UpdateSound
<1> QED
  BY <1>1, UpdateInvariant, PTL

----------------------------------------------------------------------------
(* The streams: their flags and their data types *)

DataTypes  == Formats \cup {"none", "0x31", "0x32"}
FwStreams  == [told : BOOLEAN, runs : BOOLEAN, dt : DataTypes]
StreamPcs  == {"idle", "configure", "start", "poll", "stop"}
StreamCall == [pc : StreamPcs, s : Sensors, prev : BOOLEAN, on : BOOLEAN]

StreamTypes ==
    /\ streaming \in [Active -> BOOLEAN]
    /\ format \in [Active -> Formats]
    /\ fw \in [Active -> FwStreams]
    /\ stream \in StreamCall
    /\ stream.pc # "idle" => stream.s \in Active
    /\ setting # NoSetting => setting.s \in Active /\ setting.f \in Formats

\* No call for the stream of s is under way.
Rest(s) == stream.pc = "idle" \/ stream.s # s

\* The flag of a stream at rest, and of one whose call is under way: what the
\* call goes back to when it fails is what the firmware was last told.
FlagPlace ==
    /\ \A s \in Active \ unheard : Rest(s) => streaming[s] = fw[s].told
    /\ stream.pc \in {"configure", "start", "stop"} /\ stream.s \notin unheard =>
           stream.prev = fw[stream.s].told
    /\ stream.pc = "poll" => fw[stream.s].told
    /\ stream.pc \in {"configure", "start", "poll"} => streaming[stream.s]
    /\ stream.pc = "stop" => ~streaming[stream.s]

TypeRight(s) == fw[s].dt = DataType(s, format[s], s)

\* The same of the data type; while a stream is configured, the flags select
\* its sensor.
DataPlace ==
    /\ \A s \in Active \ disturbed : Rest(s) /\ streaming[s] => TypeRight(s)
    /\ stream.pc \in {"configure", "stop"} /\ stream.s \notin disturbed /\ stream.prev =>
           TypeRight(stream.s)
    /\ stream.pc \in {"start", "poll"} /\ stream.s \notin disturbed => TypeRight(stream.s)
    /\ stream.pc = "configure" /\ stream.s \notin disturbed => sel = stream.s

StreamInv == StreamTypes /\ FlagPlace /\ DataPlace

LEMMA FormatsKnown ==
    /\ \A s : FormatsOf(s) \subseteq Formats
    /\ \A s : DefaultFormat(s) \in Formats
    /\ \A s, is : \A f \in Formats : DataType(s, f, is) \in DataTypes
BY DEF FormatsOf, DefaultFormat, DataType, Formats, DataTypes

LEMMA LowestIn == ASSUME NEW m \in (SUBSET Active) \ {{}} PROVE Lowest(m) \in m
<1>1. m \subseteq Sensors /\ m # {}
  <2>1. m \in SUBSET Active /\ m \notin {{}}
    OBVIOUS
  <2>2. m \subseteq Active
    BY <2>1
  <2>3. m # {}
    BY <2>1
  <2> QED
    BY <2>2, <2>3, ActiveAssumption
<1>2. \E s \in m : \A o \in m : VcOf(s) <= VcOf(o)
  <2>1. CASE "depth" \in m
    BY <1>1, <2>1 DEF VcOf, Sensors
  <2>2. CASE "depth" \notin m /\ "rgb" \in m
    BY <1>1, <2>2 DEF VcOf, Sensors
  <2>3. CASE "depth" \notin m /\ "rgb" \notin m /\ "ir" \in m
    BY <1>1, <2>3 DEF VcOf, Sensors
  <2>4. CASE "depth" \notin m /\ "rgb" \notin m /\ "ir" \notin m
    BY <1>1, <2>4 DEF VcOf, Sensors
  <2> QED
    BY <2>1, <2>2, <2>3, <2>4
<1> QED
  BY <1>2 DEF Lowest

\* What the assignments to the firmware's streams change.
LEMMA FwTyped ==
    ASSUME NEW s \in Active, fw \in [Active -> FwStreams], NEW d \in DataTypes
    PROVE  /\ [fw EXCEPT ![s].dt = d] \in [Active -> FwStreams]
           /\ \A o \in Active : [fw EXCEPT ![s].dt = d][o].told = fw[o].told
           /\ \A o \in Active : [fw EXCEPT ![s].dt = d][o].dt = IF o = s THEN d ELSE fw[o].dt
BY DEF FwStreams

LEMMA FwChanges ==
    ASSUME NEW s \in Active, fw \in [Active -> FwStreams]
    PROVE  /\ [fw EXCEPT ![s].told = TRUE] \in [Active -> FwStreams]
           /\ \A o \in Active : [fw EXCEPT ![s].told = TRUE][o].told = (o = s \/ fw[o].told)
           /\ \A o \in Active : [fw EXCEPT ![s].told = TRUE][o].dt = fw[o].dt
           /\ [fw EXCEPT ![s].runs = TRUE] \in [Active -> FwStreams]
           /\ \A o \in Active : /\ [fw EXCEPT ![s].runs = TRUE][o].told = fw[o].told
                                /\ [fw EXCEPT ![s].runs = TRUE][o].dt = fw[o].dt
BY DEF FwStreams

LEMMA FwStops ==
    ASSUME NEW s \in Active, fw \in [Active -> FwStreams]
    PROVE  /\ [fw EXCEPT ![s].told = FALSE, ![s].runs = FALSE] \in [Active -> FwStreams]
           /\ \A o \in Active :
                [fw EXCEPT ![s].told = FALSE, ![s].runs = FALSE][o].told = (o # s /\ fw[o].told)
           /\ \A o \in Active :
                [fw EXCEPT ![s].told = FALSE, ![s].runs = FALSE][o].dt = fw[o].dt
BY DEF FwStreams

LEMMA StreamInit == Init => StreamInv
<1> SUFFICES ASSUME Init PROVE StreamInv
  OBVIOUS
<1>1. StreamTypes
  BY FormatsKnown DEF Init, InitSensors, InitFirmware, StreamTypes, FwStreams, DataTypes, StreamCall, StreamPcs, Quiet,
                      Sensors
<1>2. \A s \in Active : streaming[s] = FALSE /\ fw[s].told = FALSE
  BY DEF Init, InitSensors, InitFirmware
<1> QED
  BY <1>1, <1>2 DEF Init, StreamInv, FlagPlace, DataPlace, Rest, Quiet

\* Steps that change neither the streams nor what selects their sensor.
LEMMA StreamApart ==
    StreamInv /\ UNCHANGED <<streaming, format, fw, stream, setting, unheard, disturbed, sel>> => StreamInv'
BY DEF StreamInv, StreamTypes, FlagPlace, DataPlace, Rest, TypeRight

\* Steps that change the selection, and say so.
LEMMA StreamSelected ==
    ASSUME StreamInv, UNCHANGED <<streaming, format, fw, stream, unheard>>,
           setting' = setting \/ (setting'.s \in Active /\ setting'.f \in Formats),
           disturbed \subseteq disturbed',
           stream.pc = "configure" /\ sel' # stream.s => stream.s \in disturbed'
    PROVE  StreamInv'
BY DEF StreamInv, StreamTypes, FlagPlace, DataPlace, Rest, TypeRight

LEMMA ControlApart == ControlStep => UNCHANGED <<streaming, format, fw, stream, setting, unheard, disturbed, sel>>
<1> SUFFICES ASSUME ControlStep PROVE UNCHANGED sel
  BY DEF ControlStep, streamVars
<1>1. ASSUME NEW h \in Handlers, Advance(h) PROVE UNCHANGED sel
  BY <1>1 DEF Advance, Lock, Send, Poll, ReadOut, Return
<1>2. CASE Execute
  BY <1>2 DEF Execute
<1>3. CASE VideoCheck \/ VideoOpen \/ VideoClose \/ DfuOpen \/ DfuWrite \/ DfuRelease
  BY <1>3 DEF VideoCheck, VideoOpen, VideoClose, DfuOpen, DfuWrite, DfuRelease
<1>4. CASE Update
  BY <1>4 DEF Update, DfuSwitch, DfuBoot, DfuDetach, DfuBlock, DfuComplete, DfuError, DfuFinish
<1> QED
  BY <1>1, <1>2, <1>3, <1>4 DEF ControlStep

LEMMA FormatKeeps ==
    StreamInv /\ (EnterFormat \/ GetFormat \/ MuxSetFormat \/ SetFormat) => StreamInv'
<1> SUFFICES ASSUME StreamInv, EnterFormat \/ GetFormat \/ MuxSetFormat \/ SetFormat PROVE StreamInv'
  OBVIOUS
<1>1. CASE EnterFormat
  <2>1. UNCHANGED <<streaming, format, fw, stream, unheard>>
    BY <1>1 DEF EnterFormat
  <2>2. PICK s \in Active : /\ sel' = s
                            /\ Disturb(s, Free)
                            /\ \E f \in FormatsOf(s) : setting' = [s |-> s, f |-> f]
    BY <1>1 DEF EnterFormat
  <2>3. setting'.s \in Active /\ setting'.f \in Formats
    BY <2>2, FormatsKnown
  <2>4. disturbed \subseteq disturbed' /\ (stream.pc = "configure" /\ sel' # stream.s => stream.s \in disturbed')
    BY <2>2 DEF Disturb
  <2> QED
    BY <2>1, <2>3, <2>4, StreamSelected
<1>2. CASE GetFormat
  <2>1. stream.pc = "idle" /\ UNCHANGED <<streaming, format, fw, stream, setting, unheard, disturbed>>
    BY <1>2 DEF GetFormat
  <2> QED
    BY <2>1, StreamSelected
<1>3. CASE MuxSetFormat
  <2>1. stream.pc = "idle" /\ UNCHANGED <<streaming, format, fw, stream, setting, unheard, disturbed>>
    BY <1>3 DEF MuxSetFormat, streamVars
  <2> QED
    BY <2>1, StreamSelected
<1>4. CASE SetFormat
  <2>1. /\ UNCHANGED <<streaming, fw, stream, unheard, sel>>
        /\ setting # NoSetting /\ setting' = NoSetting
        /\ format' = [format EXCEPT ![setting.s] = setting.f]
        /\ disturbed' = disturbed \cup {setting.s}
    BY <1>4 DEF SetFormat, controlVars
  <2>2. setting.s \in Active /\ setting.f \in Formats /\ format \in [Active -> Formats]
    BY <2>1 DEF StreamInv, StreamTypes
  <2>3. format' \in [Active -> Formats] /\ \A s \in Active : s \notin disturbed' => format'[s] = format[s]
    BY <2>1, <2>2
  <2>4. StreamTypes' /\ FlagPlace'
    BY <2>1, <2>3 DEF StreamInv, StreamTypes, FlagPlace, Rest
  <2>5. \A s \in Active \ disturbed' : TypeRight(s) => TypeRight(s)'
    BY <2>1, <2>3 DEF TypeRight
  <2>6. DataPlace'
    BY <2>1, <2>5 DEF StreamInv, StreamTypes, DataPlace, Rest
  <2> QED
    BY <2>4, <2>6 DEF StreamInv
<1> QED
  BY <1>1, <1>2, <1>3, <1>4

LEMMA ControlKeeps ==
    ASSUME StreamInv, NEW h \in Handlers, NEW k \in Kinds, Control(h, k) PROVE StreamInv'
<1>1. UNCHANGED <<streaming, format, fw, stream, setting, unheard>> /\ Disturb(sel', Free)
  BY DEF Control
<1>2. disturbed \subseteq disturbed' /\ (stream.pc = "configure" /\ sel' # stream.s => stream.s \in disturbed')
  BY <1>1 DEF Disturb
<1> QED
  BY <1>1, <1>2, StreamSelected

LEMMA ToggleKeeps ==
    ASSUME StreamInv, NEW m \in (SUBSET Active) \ {{}}, NEW on \in BOOLEAN, Toggle(m, on) PROVE StreamInv'
<1> DEFINE s == Lowest(m)
<1>1. s \in Active
  <2>1. s \in m
    BY LowestIn
  <2> QED
    BY <2>1
<1> HIDE DEF s
<1>2. /\ stream.pc = "idle" /\ UNCHANGED <<format, fw, setting, unheard>>
      /\ stream' = [pc |-> IF on THEN "configure" ELSE "stop", s |-> s, prev |-> streaming[s], on |-> on]
      /\ streaming' = [streaming EXCEPT ![s] = on]
      /\ sel' = s
      /\ disturbed' = IF streaming[s] THEN disturbed ELSE disturbed \ {s}
  BY DEF Toggle, s
<1>3. streaming \in [Active -> BOOLEAN]
  BY DEF StreamInv, StreamTypes
<1>4. streaming' \in [Active -> BOOLEAN] /\ streaming'[s] = on
      /\ \A o \in Active : o # s => streaming'[o] = streaming[o]
  BY <1>1, <1>2, <1>3
<1>5. /\ stream' \in StreamCall /\ stream'.s = s /\ stream'.prev = streaming[s]
      /\ (on => stream'.pc = "configure") /\ (~on => stream'.pc = "stop")
  <2>1. s \in Sensors
    BY <1>1, ActiveAssumption
  <2>2. streaming[s] \in BOOLEAN
    BY <1>1, <1>3
  <2> QED
    BY <1>2, <2>1, <2>2 DEF StreamCall, StreamPcs
<1>6. StreamTypes'
  BY <1>1, <1>2, <1>4, <1>5 DEF StreamInv, StreamTypes
<1>7. FlagPlace'
  BY <1>1, <1>2, <1>4, <1>5 DEF StreamInv, FlagPlace, Rest
<1>8. \A o \in Active : TypeRight(o)' = TypeRight(o)
  BY <1>2 DEF TypeRight
<1>9. DataPlace'
  BY <1>1, <1>2, <1>4, <1>5, <1>8 DEF StreamInv, DataPlace, Rest
<1> QED
  BY <1>6, <1>7, <1>9 DEF StreamInv

LEMMA StreamStepKeeps == StreamInv /\ (StreamStep \/ FirmwareStarts) => StreamInv'
<1> SUFFICES ASSUME StreamInv, StreamStep \/ FirmwareStarts PROVE StreamInv'
  OBVIOUS
<1>1. /\ UNCHANGED <<sel, format, setting, disturbed>>
      /\ streaming \in [Active -> BOOLEAN] /\ fw \in [Active -> FwStreams] /\ format \in [Active -> Formats]
      /\ stream \in StreamCall
  BY DEF StreamStep, Configure, Start, Started, GiveUp, Stop, FirmwareStarts, KeepRest, controlVars, StreamInv,
         StreamTypes
<1>2. CASE FirmwareStarts
  <2>1. PICK s \in Active : fw' = [fw EXCEPT ![s].runs = TRUE]
    BY <1>2 DEF FirmwareStarts
  <2>2. UNCHANGED <<streaming, stream, unheard>>
    BY <1>2 DEF FirmwareStarts
  <2>4. fw' \in [Active -> FwStreams] /\ \A o \in Active : fw'[o].told = fw[o].told /\ fw'[o].dt = fw[o].dt
    BY <1>1, <2>1, FwChanges
  <2> QED
    BY <1>1, <2>2, <2>4 DEF StreamInv, StreamTypes, FlagPlace, DataPlace, Rest, TypeRight
<1>3. CASE StreamStep
  <2>0. PICK s \in Active : s = stream.s
    BY <1>3 DEF StreamStep, Configure, Start, Started, GiveUp, Stop, StreamInv, StreamTypes
  <2>1. Quiet \in StreamCall /\ Quiet.pc = "idle" /\ stream.prev \in BOOLEAN
    BY <2>0, <1>1 DEF Quiet, StreamCall, StreamPcs, Sensors
  <2>2. /\ [streaming EXCEPT ![s] = stream.prev] \in [Active -> BOOLEAN]
        /\ [streaming EXCEPT ![s] = stream.prev][s] = stream.prev
        /\ \A o \in Active : o # s => [streaming EXCEPT ![s] = stream.prev][o] = streaming[o]
    BY <1>1, <2>0, <2>1
  <2>3. \A p \in StreamPcs : /\ [stream EXCEPT !.pc = p] \in StreamCall
                             /\ [stream EXCEPT !.pc = p].pc = p /\ [stream EXCEPT !.pc = p].s = s
                             /\ [stream EXCEPT !.pc = p].prev = stream.prev
    BY <2>0, <1>1 DEF StreamCall
  <2>4. CASE Configure
    <3>1. PICK bad \in BOOLEAN, written \in BOOLEAN :
              /\ ~bad => written
              /\ fw' = IF written
                       THEN [fw EXCEPT ![s].dt = DataType(s, format[s], sel)] ELSE fw
              /\ IF bad THEN streaming' = [streaming EXCEPT ![s] = stream.prev] /\ stream' = Quiet
                 ELSE stream' = [stream EXCEPT !.pc = "start"] /\ UNCHANGED streaming
      BY <2>0, <2>4 DEF Configure, Restore, Close
    <3>2. stream.pc = "configure" /\ UNCHANGED unheard
      BY <2>0, <2>4 DEF Configure
    <3>3. /\ fw' \in [Active -> FwStreams] /\ \A o \in Active : fw'[o].told = fw[o].told
          /\ \A o \in Active : o # s => fw'[o].dt = fw[o].dt
          /\ written => fw'[s].dt = DataType(s, format[s], sel)
          /\ ~written => fw'[s].dt = fw[s].dt
      <4>1. DataType(s, format[s], sel) \in DataTypes
        BY <1>1, <2>0, FormatsKnown
      <4>2. CASE ~written
        BY <2>0, <1>1, <3>1, <4>2
      <4>3. CASE written
        <5>1. fw' = [fw EXCEPT ![s].dt = DataType(s, format[s], sel)]
          BY <2>0, <3>1, <4>3
        <5>3. fw' \in [Active -> FwStreams] /\ \A o \in Active : fw'[o].told = fw[o].told
          BY <1>1, <4>1, <5>1, FwTyped
        <5>4. \A o \in Active : fw'[o].dt = IF o = s THEN DataType(s, format[s], sel) ELSE fw[o].dt
          BY <1>1, <4>1, <5>1, FwTyped
        <5> QED
          BY <4>3, <5>3, <5>4
      <4> QED
        BY <4>2, <4>3
    <3>4. /\ s \notin disturbed => sel = s
          /\ \A o \in Active : o # s => TypeRight(o)' = TypeRight(o)
          /\ s \notin disturbed /\ written => TypeRight(s)'
          /\ ~written /\ TypeRight(s) => TypeRight(s)'
      <4>1. s \notin disturbed => sel = s
        BY <2>0, <3>2 DEF StreamInv, DataPlace
      <4>2. \A o \in Active : o # s => TypeRight(o)' = TypeRight(o)
        BY <2>0, <1>1, <3>3 DEF TypeRight
      <4>3. TypeRight(s)' <=> fw'[s].dt = DataType(s, format[s], s)
        BY <2>0, <1>1, <3>1 DEF TypeRight
      <4> QED
        BY <3>3, <4>1, <4>2, <4>3 DEF TypeRight
    <3>5. CASE bad
      <4>1. StreamTypes'
        BY <2>0, <1>1, <2>1, <2>2, <3>1, <3>3, <3>5 DEF StreamInv, StreamTypes
      <4>2. FlagPlace'
        BY <1>1, <2>0, <2>1, <2>2, <3>1, <3>2, <3>3, <3>5 DEF StreamInv, FlagPlace, Rest
      <4>3. DataPlace'
        BY <1>1, <2>0, <2>1, <2>2, <3>1, <3>2, <3>4, <3>5 DEF StreamInv, DataPlace, Rest
      <4> QED
        BY <4>1, <4>2, <4>3 DEF StreamInv
    <3>6. CASE ~bad
      <4>0. stream' \in StreamCall /\ stream'.pc = "start" /\ stream'.s = s /\ stream'.prev = stream.prev
        BY <2>0, <2>3, <3>1, <3>6 DEF StreamPcs
      <4>1. StreamTypes'
        BY <1>1, <2>0, <3>1, <3>3, <3>6, <4>0 DEF StreamInv, StreamTypes
      <4>2. FlagPlace'
        BY <1>1, <2>0, <3>1, <3>2, <3>3, <3>6, <4>0 DEF StreamInv, FlagPlace, Rest
      <4>3. DataPlace'
        BY <1>1, <2>0, <3>1, <3>2, <3>4, <3>6, <4>0 DEF StreamInv, DataPlace, Rest
      <4> QED
        BY <4>1, <4>2, <4>3 DEF StreamInv
    <3> QED
      BY <3>5, <3>6
  <2>5. CASE Start
    <3>1. stream.pc = "start" /\ UNCHANGED unheard
      BY <2>0, <2>5 DEF Start
    <3>2. CASE streaming' = [streaming EXCEPT ![s] = stream.prev] /\ stream' = Quiet /\ UNCHANGED fw
      <4>1. StreamTypes'
        BY <2>0, <1>1, <2>1, <2>2, <3>2 DEF StreamInv, StreamTypes
      <4>2. FlagPlace'
        BY <1>1, <2>0, <2>1, <2>2, <3>1, <3>2 DEF StreamInv, FlagPlace, Rest
      <4>3. DataPlace'
        BY <1>1, <2>0, <2>1, <2>2, <3>1, <3>2 DEF StreamInv, DataPlace, Rest, TypeRight
      <4> QED
        BY <4>1, <4>2, <4>3 DEF StreamInv
    <3>3. CASE /\ fw' = [fw EXCEPT ![s].told = TRUE]
               /\ stream' = [stream EXCEPT !.pc = "poll"] /\ UNCHANGED streaming
      <4>0. stream' \in StreamCall /\ stream'.pc = "poll" /\ stream'.s = s /\ stream'.prev = stream.prev
        BY <2>0, <2>3, <3>3 DEF StreamPcs
      <4>1. /\ fw' \in [Active -> FwStreams]
            /\ \A o \in Active : fw'[o].told = (o = s \/ fw[o].told) /\ fw'[o].dt = fw[o].dt
        <5>1. "none" \in DataTypes
          BY <2>0 DEF DataTypes
        <5> QED
          BY <1>1, <2>0, <3>3, <5>1, FwChanges
      <4>2. StreamTypes'
        BY <1>1, <2>0, <3>3, <4>0, <4>1 DEF StreamInv, StreamTypes
      <4>3. /\ fw'[s].told = TRUE
            /\ \A o \in Active : o # s => fw'[o].told = fw[o].told
        BY <1>1, <2>0, <4>1 DEF FwStreams
      <4>4. FlagPlace'
        <5>1. streaming' = streaming /\ streaming[s]
          BY <2>0, <3>1, <3>3 DEF StreamInv, FlagPlace
        <5> QED
          BY <2>0, <3>1, <4>0, <4>3, <5>1 DEF StreamInv, FlagPlace, Rest
      <4>5. DataPlace'
        BY <1>1, <2>0, <3>1, <3>3, <4>0, <4>1 DEF StreamInv, DataPlace, Rest, TypeRight
      <4> QED
        BY <4>2, <4>4, <4>5 DEF StreamInv
    <3> QED
      BY <2>0, <2>5, <3>2, <3>3 DEF Start, Restore, Close
  <2>6. CASE Started
    <3>1. stream.pc = "poll" /\ UNCHANGED <<unheard, streaming, fw>> /\ stream' = Quiet
      BY <2>0, <2>6 DEF Started, Close
    <3>2. StreamTypes' /\ DataPlace'
      BY <1>1, <2>0, <2>1, <3>1 DEF StreamInv, StreamTypes, DataPlace, Rest, TypeRight
    <3>3. streaming[s] = fw[s].told
      BY <1>1, <2>0, <3>1 DEF StreamInv, FlagPlace, FwStreams
    <3>4. FlagPlace'
      BY <1>1, <2>0, <2>1, <3>1, <3>3 DEF StreamInv, FlagPlace, Rest
    <3> QED
      BY <3>2, <3>4 DEF StreamInv
  <2>7. CASE GiveUp \/ Stop
    <3>1. /\ stream' = Quiet
          /\ \/ streaming' = [streaming EXCEPT ![s] = stream.prev]
             \/ stream.pc = "stop" /\ UNCHANGED streaming
          /\ \/ UNCHANGED fw
             \/ fw' = [fw EXCEPT ![s].told = FALSE, ![s].runs = FALSE]
      BY <2>0, <2>7 DEF GiveUp, Stop, Restore, Close
    <3>2. /\ fw' \in [Active -> FwStreams]
          /\ \A o \in Active : fw'[o].dt = fw[o].dt
          /\ \A o \in Active : o # s => fw'[o].told = fw[o].told
      <4>1. CASE UNCHANGED fw
        BY <2>0, <1>1, <4>1
      <4>2. CASE fw' = [fw EXCEPT ![s].told = FALSE, ![s].runs = FALSE]
        BY <1>1, <2>0, <4>2, FwStops DEF FwStreams
      <4> QED
        BY <3>1, <4>1, <4>2
    <3>3. /\ streaming' \in [Active -> BOOLEAN]
          /\ \A o \in Active : o # s => streaming'[o] = streaming[o]
      BY <2>0, <1>1, <2>2, <3>1
    <3>4. s \in Active \ unheard' => streaming'[s] = fw'[s].told
      <4>0. [fw EXCEPT ![s].told = FALSE, ![s].runs = FALSE][s].told = FALSE
        BY <1>1, <2>0 DEF FwStreams
      <4>1. CASE GiveUp
        <5>1. streaming'[s] = stream.prev
          BY <2>0, <2>2, <4>1 DEF GiveUp, Restore
        <5>2. s \notin unheard' =>
                 stream.prev = FALSE /\ fw' = [fw EXCEPT ![s].told = FALSE, ![s].runs = FALSE]
          BY <2>0, <2>1, <4>1 DEF GiveUp
        <5> QED
          BY <4>0, <5>1, <5>2
      <4>2. CASE Stop
        <5>1. CASE streaming' = [streaming EXCEPT ![s] = stream.prev] /\ UNCHANGED <<fw, unheard>>
          BY <2>0, <2>2, <4>2, <5>1 DEF Stop, StreamInv, FlagPlace
        <5>2. CASE UNCHANGED streaming /\ fw' = [fw EXCEPT ![s].told = FALSE, ![s].runs = FALSE]
          <6>1. streaming[s] = FALSE
            BY <1>1, <2>0, <4>2 DEF Stop, StreamInv, FlagPlace
          <6> QED
            BY <4>0, <5>2, <6>1
        <5> QED
          BY <2>0, <4>2, <5>1, <5>2 DEF Stop, Restore
      <4> QED
        BY <2>7, <4>1, <4>2
    <3>5. \A o \in Active : o # s => (o \in unheard' <=> o \in unheard)
      BY <2>0, <2>7 DEF GiveUp, Stop
    <3>6. StreamTypes'
      BY <2>0, <1>1, <2>1, <3>1, <3>2, <3>3 DEF StreamInv, StreamTypes
    <3>7. FlagPlace'
      BY <2>0, <2>1, <3>1, <3>2, <3>3, <3>4, <3>5 DEF StreamInv, FlagPlace, Rest
    <3>8. DataPlace'
      <4>1. s \notin disturbed /\ streaming'[s] => TypeRight(s)
        BY <2>0, <2>2, <2>7, <3>1 DEF StreamInv, DataPlace, FlagPlace, GiveUp, Stop
      <4> QED
        BY <1>1, <2>0, <2>1, <3>1, <3>2, <3>3, <4>1 DEF StreamInv, DataPlace, Rest, TypeRight
    <3> QED
      BY <3>6, <3>7, <3>8 DEF StreamInv
  <2> QED
    BY <1>3, <2>4, <2>5, <2>6, <2>7 DEF StreamStep
<1> QED
  BY <1>2, <1>3

LEMMA StreamInvariant == Spec => []StreamInv
<1>1. StreamInv /\ [Next]_vars => StreamInv'
  <2> SUFFICES ASSUME StreamInv, [Next]_vars PROVE StreamInv'
    OBVIOUS
  <2>1. CASE UNCHANGED vars
    BY <2>1, StreamApart DEF vars, streamVars, controlVars
  <2>2. CASE ControlStep
    BY <2>2, ControlApart, StreamApart
  <2>3. ASSUME NEW h \in Handlers, NEW k \in Kinds, Control(h, k) PROVE StreamInv'
    BY <2>3, ControlKeeps
  <2>4. ASSUME NEW m \in (SUBSET Active) \ {{}}, NEW on \in BOOLEAN, Toggle(m, on) PROVE StreamInv'
    BY <2>4, ToggleKeeps
  <2>5. CASE StreamStep \/ FirmwareStarts
    BY <2>5, StreamStepKeeps
  <2>6. CASE EnterFormat \/ GetFormat \/ MuxSetFormat \/ SetFormat
    BY <2>6, FormatKeeps
  <2> QED
    BY <2>1, <2>2, <2>3, <2>4, <2>5, <2>6 DEF Next
<1> QED
  BY <1>1, StreamInit, PTL DEF Spec

(* Whatever controls, formats and updates are called beside the streams,   *)
(* and wherever a transfer fails, sensor->streaming agrees between calls    *)
(* with what the firmware was last told, but where a stop was lost          *)
(* (ds5_mux_s_stream()).                                                    *)
THEOREM FlagAlwaysAgrees == Spec => []FlagAgrees
<1>1. StreamInv => FlagAgrees
  BY DEF StreamInv, FlagPlace, Rest, FlagAgrees
<1> QED
  BY <1>1, StreamInvariant, PTL

(* A stream that is on, and that nobody disturbed while it was configured,  *)
(* has the data type of its sensor and its format (ds5_sub_configure()).    *)
THEOREM DataTypesRight == Spec => []DataTypeRight
<1>1. StreamInv => DataTypeRight
  BY DEF StreamInv, DataPlace, Rest, TypeRight, DataTypeRight
<1> QED
  BY <1>1, StreamInvariant, PTL

----------------------------------------------------------------------------
(* The mailbox *)

Asking == {"cmd", "block", "hwmc", "once"}
Parties == Handlers \cup {Free, "dfu"}
Boxes  == [by : Parties, form : {"none", "request", "response", "error"}, done : BOOLEAN]
Pcs    == {"idle", "lock", "request", "poll", "answer", "done", "failed"}
Calls  == [kind : Setters \cup Getters, pc : Pcs, got : Boxes]

MailTypes == call \in [Handlers -> Calls] /\ box \in Boxes

\* Setters that talk to the firmware hold the mutex, and so does the update.
Owners ==
    /\ \A h \in Handlers :
         call[h].kind \in Setters /\ call[h].pc \in {"request", "poll", "answer"} => mutex = h
    /\ session.pc \notin {"shut", "open"} => mutex = "dfu"

Boxed ==
    /\ box.form = "request" => box.done = FALSE
    /\ box.form = "none" => box.by = Free

\* Whose transaction nobody came between finds its own request in the mailbox,
\* and then its own answer.
Answered(h) ==
    /\ call[h].pc \in {"poll", "answer"} => box.by = h
    /\ call[h].pc = "answer" => box.form = "response" /\ box.done = TRUE
    /\ call[h].pc = "done" => call[h].got.by = h /\ call[h].got.form = "response"

Answers == \A h \in Handlers \ crossed : call[h].kind \in Asking => Answered(h)

MailInv == MailTypes /\ Owners /\ Boxed /\ Answers

LEMMA NamesApart == "dfu" \notin Handlers /\ Free \notin Handlers /\ Free # "dfu" /\ "lost" \notin Handlers
BY HandlersAssumption, FreeAssumption DEF Sensors

LEMMA MailInit == Init => MailInv
<1> SUFFICES ASSUME Init PROVE MailInv
  OBVIOUS
<1>1. Blank \in Boxes /\ Blank.form = "none" /\ Blank.by = Free
  BY DEF Blank, Boxes, Parties
<1>2. Idle \in Calls /\ Idle.pc = "idle"
  BY <1>1 DEF Idle, Calls, Setters, Getters, Pcs
<1>3. call = [h \in Handlers |-> Idle] /\ box = Blank /\ session.pc = "shut"
  BY DEF Init, InitControls, Shut
<1> QED
  BY <1>1, <1>2, <1>3 DEF MailInv, MailTypes, Owners, Boxed, Answers, Answered

\* What an assignment to one call changes.
LEMMA CallChanges ==
    ASSUME MailTypes, NEW h \in Handlers, NEW p \in Pcs
    PROVE  /\ [call EXCEPT ![h].pc = p] \in [Handlers -> Calls]
           /\ [call EXCEPT ![h].pc = p][h].pc = p
           /\ [call EXCEPT ![h].pc = p][h].kind = call[h].kind
           /\ [call EXCEPT ![h].pc = p][h].got = call[h].got
           /\ \A o \in Handlers : o # h => [call EXCEPT ![h].pc = p][o] = call[o]
BY DEF MailTypes, Calls

\* A step of the call of h that leaves the mailbox alone.
LEMMA OwnStep ==
    ASSUME MailInv, NEW h \in Handlers, UNCHANGED <<box, session>>, crossed \subseteq crossed',
           call' \in [Handlers -> Calls],
           \A o \in Handlers : o # h => call'[o] = call[o],
           mutex' = mutex \/ mutex = h \/ mutex = Free,
           call'[h].kind \in Setters /\ call'[h].pc \in {"request", "poll", "answer"} => mutex' = h,
           h \notin crossed' /\ call'[h].kind \in Asking => Answered(h)'
    PROVE  MailInv'
<1>1. MailTypes' /\ Boxed'
  BY DEF MailInv, MailTypes, Boxed
<1>2. Owners'
  BY NamesApart DEF MailInv, Owners
<1>3. ASSUME NEW o \in Handlers \ crossed', call'[o].kind \in Asking PROVE Answered(o)'
  <2>1. CASE o = h
    BY <1>3, <2>1
  <2>2. CASE o # h
    BY <1>3, <2>2 DEF MailInv, Answers, Answered
  <2> QED
    BY <2>1, <2>2
<1> QED
  BY <1>1, <1>2, <1>3 DEF MailInv, Answers

LEMMA LockKeeps == ASSUME MailInv, NEW h \in Handlers, Lock(h) PROVE MailInv'
<1>1. MailTypes
  BY DEF MailInv
<1>2. PICK p \in {"request", "done"} :
          /\ call' = [call EXCEPT ![h].pc = p]
          /\ p = "done" <=> ~Transacts(call[h].kind)
  BY DEF Lock
<1>3. /\ mutex = Free /\ mutex' = h /\ UNCHANGED <<box, session, crossed>>
  BY DEF Lock
<1>4. p \in Pcs
  BY DEF Pcs
<1>5. /\ call' \in [Handlers -> Calls] /\ call'[h].pc = p /\ call'[h].kind = call[h].kind
      /\ \A o \in Handlers : o # h => call'[o] = call[o]
  BY <1>1, <1>2, <1>4, CallChanges
<1>6. call[h].kind \in Asking => p = "request"
  BY <1>2 DEF Asking, Transacts
<1>7. h \notin crossed' /\ call'[h].kind \in Asking => Answered(h)'
  BY <1>5, <1>6 DEF Answered
<1> QED
  BY <1>3, <1>5, <1>7, OwnStep

\* A request is written over the mailbox: those whose transaction is under way
\* and whom it does not cross would have to hold the mutex as well.
LEMMA RequestCrosses ==
    ASSUME MailInv, NEW h \in Handlers \cup {"dfu"}, Between(h) \subseteq crossed',
           h = "dfu" => mutex = "dfu",
           h \in Handlers /\ Locked(h) => mutex = h,
           NEW o \in Handlers \ crossed', o # h, call[o].kind \in Asking
    PROVE  call[o].pc \notin {"poll", "answer"}
<1> SUFFICES ASSUME call[o].pc \in {"poll", "answer"} PROVE FALSE
  OBVIOUS
<1>1. o \in Pending \ {h}
  BY DEF Pending
<1>2. Locked(h) /\ Locked(o)
  BY <1>1 DEF Between
<1>3. o # "dfu"
  BY NamesApart
<1>4. call[o].kind \in Setters
  BY <1>2, <1>3 DEF Locked
<1>5. mutex = o
  BY <1>4 DEF MailInv, Owners
<1> QED
  BY <1>2, <1>3, <1>5

LEMMA SendKeeps == ASSUME MailInv, NEW h \in Handlers, Send(h) PROVE MailInv'
<1>1. MailTypes /\ call[h].pc = "request" /\ UNCHANGED <<mutex, session>>
  BY DEF MailInv, Send
<1>2. PICK bad \in BOOLEAN :
          /\ IF ~bad THEN Request(h)
             ELSE \/ /\ box' = Unexecuted /\ Between(h) \subseteq crossed'
                     /\ crossed \subseteq crossed'
                     /\ call[h].kind = "hwmc" => h \in crossed'
                  \/ /\ UNCHANGED box /\ crossed \subseteq crossed'
                     /\ call[h].kind = "hwmc" => h \in crossed'
          /\ call' = [call EXCEPT ![h].pc =
                 IF bad /\ call[h].kind # "hwmc" THEN "failed"
                 ELSE IF call[h].kind = "send" THEN "done" ELSE "poll"]
  <2>1. PICK sent \in {"all", "data", "nothing"} :
            /\ IF sent = "all" THEN Request(h)
               ELSE /\ box' = IF sent = "data" THEN Unexecuted ELSE box
                    /\ crossed' = crossed
                           \cup (IF call[h].kind = "hwmc" THEN {h} ELSE {})
                           \cup (IF sent = "data" THEN Between(h) ELSE {})
            /\ call' = [call EXCEPT ![h].pc =
                   IF sent # "all" /\ call[h].kind # "hwmc" THEN "failed"
                   ELSE IF call[h].kind = "send" THEN "done" ELSE "poll"]
    BY DEF Send
  <2>2. PICK bad \in BOOLEAN : bad <=> sent # "all"
    OBVIOUS
  <2> WITNESS bad \in BOOLEAN
  <2> QED
    BY <2>1, <2>2
<1>3. PICK p \in {"failed", "done", "poll"} :
          /\ call' = [call EXCEPT ![h].pc = p]
          /\ p = "done" => call[h].kind = "send"
          /\ bad /\ p = "poll" => call[h].kind = "hwmc"
  BY <1>2
<1>4. p \in Pcs
  BY DEF Pcs
<1>5. /\ call' \in [Handlers -> Calls] /\ call'[h].pc = p /\ call'[h].kind = call[h].kind
      /\ \A o \in Handlers : o # h => call'[o] = call[o]
  BY <1>1, <1>3, <1>4, CallChanges
<1>6. call[h].kind \in Setters => mutex = h
  BY <1>1 DEF MailInv, Owners
<1>7. call[h].kind \in Asking => p # "done"
  BY <1>3 DEF Asking
<1>8. Locked(h) => mutex = h
  BY <1>6, NamesApart DEF Locked
<1>9. CASE bad
  <2>1. h \notin crossed' /\ call'[h].kind \in Asking => Answered(h)'
    BY <1>2, <1>3, <1>5, <1>7, <1>9 DEF Answered
  <2>2. crossed \subseteq crossed'
    BY <1>2, <1>9
  <2>3. CASE UNCHANGED box
    BY <1>1, <1>5, <1>6, <2>1, <2>2, <2>3, OwnStep
  <2>4. CASE box' = Unexecuted /\ Between(h) \subseteq crossed'
    <3>1. MailTypes' /\ Boxed'
      BY <1>5, <2>4 DEF MailInv, MailTypes, Boxed, Unexecuted, Blank, Boxes, Parties
    <3>2. Owners'
      BY <1>1, <1>5, <1>6 DEF MailInv, Owners
    <3>3. ASSUME NEW o \in Handlers \ crossed', call'[o].kind \in Asking PROVE Answered(o)'
      <4>1. CASE o = h
        BY <2>1, <3>3, <4>1
      <4>2. CASE o # h
        <5>1. call'[o] = call[o]
          BY <1>5, <3>3, <4>2
        <5>2. call[o].pc \notin {"poll", "answer"}
          BY <1>8, <2>4, <3>3, <4>2, <5>1, NamesApart, RequestCrosses
        <5>3. Answered(o)
          BY <2>2, <3>3, <5>1 DEF MailInv, Answers
        <5> QED
          BY <5>1, <5>2, <5>3 DEF Answered
      <4> QED
        BY <4>1, <4>2
    <3> QED
      BY <3>1, <3>2, <3>3 DEF MailInv, Answers
  <2> QED
    BY <1>2, <1>9, <2>3, <2>4
<1>10. CASE ~bad
  <2>1. Request(h)
    BY <1>2, <1>10
  <2>2. box' = [by |-> h, form |-> "request", done |-> FALSE]
    BY <2>1 DEF Request
  <2>3. MailTypes' /\ Boxed'
    BY <1>5, <2>2 DEF MailTypes, Boxed, Boxes, Parties
  <2>4. Owners'
    BY <1>1, <1>5, <1>6 DEF MailInv, Owners
  <2>5. ASSUME NEW o \in Handlers \ crossed', call'[o].kind \in Asking PROVE Answered(o)'
    <3>1. CASE o = h
      BY <1>5, <1>7, <2>2, <2>5, <3>1 DEF Answered
    <3>2. CASE o # h
      <4>1. call[o].pc \notin {"poll", "answer"}
        <5>1. h # "dfu"
          BY NamesApart
        <5>2. Locked(h) => mutex = h
          BY <1>6, <5>1 DEF Locked
        <5> QED
          BY <1>5, <2>1, <2>5, <3>2, <5>1, <5>2, RequestCrosses DEF Request
      <4>2. crossed \subseteq crossed' \cup {h}
        BY <2>1 DEF Request
      <4>3. call'[o] = call[o] /\ Answered(o)
        BY <1>5, <2>5, <3>2, <4>2 DEF MailInv, Answers
      <4> QED
        BY <4>1, <4>3 DEF Answered
    <3> QED
      BY <3>1, <3>2
  <2> QED
    BY <2>3, <2>4, <2>5 DEF MailInv, Answers
<1> QED
  BY <1>9, <1>10

LEMMA PollKeeps == ASSUME MailInv, NEW h \in Handlers, Poll(h) PROVE MailInv'
<1>1. MailTypes /\ call[h].pc = "poll" /\ UNCHANGED <<mutex, session, box, crossed>>
  BY DEF MailInv, Poll
<1>2. PICK late \in BOOLEAN :
          call' = [call EXCEPT ![h].pc =
              IF call[h].kind \in {"log", "table"} THEN "answer"
              ELSE IF ~box.done \/ box.form = "error" \/ late THEN "failed" ELSE "answer"]
  BY DEF Poll
<1>3. PICK p \in {"answer", "failed"} :
          /\ call' = [call EXCEPT ![h].pc = p]
          /\ p = "answer" /\ call[h].kind \notin {"log", "table"} => box.done /\ box.form # "error"
  BY <1>2
<1>4. p \in Pcs
  BY DEF Pcs
<1>5. /\ call' \in [Handlers -> Calls] /\ call'[h].pc = p /\ call'[h].kind = call[h].kind
      /\ \A o \in Handlers : o # h => call'[o] = call[o]
  BY <1>1, <1>3, <1>4, CallChanges
<1>6. call[h].kind \in Setters => mutex = h
  BY <1>1 DEF MailInv, Owners
<1>7. ASSUME h \notin crossed', call'[h].kind \in Asking PROVE Answered(h)'
  <2>1. h \notin crossed /\ call[h].kind \in Asking /\ call[h].kind \notin {"log", "table"}
    BY <1>1, <1>5, <1>7 DEF Asking
  <2>2. box.by = h
    BY <1>1, <2>1 DEF MailInv, Answers, Answered
  <2>3. p = "answer" => box.done = TRUE /\ box.form = "response"
    <3>1. box.form \in {"none", "request", "response", "error"} /\ box.done \in BOOLEAN
      BY <1>1 DEF MailTypes, Boxes
    <3>2. box.form # "none"
      BY <2>2, NamesApart DEF MailInv, Boxed
    <3> QED
      BY <1>3, <2>1, <3>1, <3>2 DEF MailInv, Boxed
  <2> QED
    BY <1>1, <1>5, <2>2, <2>3 DEF Answered
<1> QED
  BY <1>1, <1>5, <1>6, <1>7, OwnStep

LEMMA ReadOutKeeps == ASSUME MailInv, NEW h \in Handlers, ReadOut(h) PROVE MailInv'
<1>1. MailTypes /\ call[h].pc = "answer" /\ UNCHANGED <<mutex, session, box, crossed>>
  BY DEF MailInv, ReadOut
<1>2. PICK bad \in BOOLEAN :
          call' = [call EXCEPT ![h].pc = IF bad THEN "failed" ELSE "done",
                               ![h].got = IF bad THEN Blank ELSE box]
  BY DEF ReadOut
<1>3. PICK p \in {"failed", "done"}, g \in Boxes :
          /\ call' = [call EXCEPT ![h].pc = p, ![h].got = g]
          /\ p = "done" => g = box
  <2>1. Blank \in Boxes /\ box \in Boxes
    BY <1>1 DEF Blank, Boxes, Parties, MailTypes
  <2>2. CASE bad
    BY <1>2, <2>1, <2>2
  <2>3. CASE ~bad
    BY <1>2, <2>1, <2>3
  <2> QED
    BY <2>2, <2>3
<1>4. /\ call' \in [Handlers -> Calls] /\ call'[h].pc = p /\ call'[h].kind = call[h].kind
      /\ call'[h].got = g
      /\ \A o \in Handlers : o # h => call'[o] = call[o]
  BY <1>1, <1>3 DEF MailTypes, Calls, Pcs
<1>5. ASSUME h \notin crossed', call'[h].kind \in Asking PROVE Answered(h)'
  <2>1. box.by = h /\ box.form = "response"
    BY <1>1, <1>4, <1>5 DEF MailInv, Answers, Answered
  <2> QED
    BY <1>3, <1>4, <2>1 DEF Answered
<1> QED
  BY <1>1, <1>4, <1>5, OwnStep

LEMMA ReturnKeeps == ASSUME MailInv, NEW h \in Handlers, Return(h) PROVE MailInv'
<1>1. MailTypes /\ UNCHANGED <<session, box, crossed>>
  BY DEF MailInv, Return
<1>2. call' = [call EXCEPT ![h].pc = "idle", ![h].kind = "reg"]
  BY DEF Return
<1>3. /\ call' \in [Handlers -> Calls] /\ call'[h].pc = "idle" /\ call'[h].kind = "reg"
      /\ \A o \in Handlers : o # h => call'[o] = call[o]
  BY <1>1, <1>2 DEF MailTypes, Calls, Pcs, Setters
<1>4. UNCHANGED mutex \/ mutex = h
  BY DEF Return
<1>5. MailTypes' /\ Boxed'
  BY <1>1, <1>3 DEF MailInv, MailTypes, Boxed
<1>6. Owners'
  BY <1>1, <1>3, <1>4, NamesApart DEF MailInv, Owners
<1>7. Answers'
  <2>1. "reg" \notin Asking
    BY DEF Asking
  <2> QED
    BY <1>1, <1>3, <2>1 DEF MailInv, Answers, Answered
<1> QED
  BY <1>5, <1>6, <1>7 DEF MailInv

LEMMA EnterKeeps == ASSUME MailInv, NEW h \in Handlers, NEW k \in Kinds, Control(h, k) PROVE MailInv'
<1>1. MailTypes /\ UNCHANGED <<session, box, mutex>> /\ crossed' = crossed \ {h}
  BY DEF MailInv, Control, Enter
<1>2. k \in Setters \cup Getters
  BY KindsAssumption
<1>3. Idle \in Calls /\ Blank \in Boxes
  BY DEF Idle, Blank, Calls, Boxes, Parties, Setters, Pcs
<1>4. PICK c \in Calls :
          /\ call' = [call EXCEPT ![h] = c]
          /\ c.kind \in Setters => c.pc \in {"idle", "lock"}
          /\ c.kind \in Asking => c.pc \in {"idle", "lock", "request"}
  <2>1. CASE k \in Setters /\ sel' = "imu"
    <3>1. call' = [call EXCEPT ![h] = Idle]
      BY <2>1 DEF Control, Enter
    <3> QED
      BY <1>3, <3>1 DEF Idle
  <2>2. CASE ~(k \in Setters /\ sel' = "imu")
    <3> DEFINE p == IF k \in Setters THEN "lock"
                    ELSE IF Transacts(k) THEN "request"
                    ELSE IF k = "fetch" THEN "poll" ELSE "done"
    <3>1. call' = [call EXCEPT ![h] = [kind |-> k, got |-> Blank, pc |-> p]]
      BY <2>2 DEF Control, Enter
    <3>2. [kind |-> k, got |-> Blank, pc |-> p] \in Calls
      BY <1>2, <1>3 DEF Calls, Pcs
    <3>3. k \in Setters => p = "lock"
      OBVIOUS
    <3>4. k \in Asking => p \in {"lock", "request"}
      BY DEF Asking, Transacts
    <3> HIDE DEF p
    <3> QED
      BY <3>1, <3>2, <3>3, <3>4
  <2> QED
    BY <2>1, <2>2
<1>5. /\ call' \in [Handlers -> Calls] /\ call'[h] = c
      /\ \A o \in Handlers : o # h => call'[o] = call[o]
  BY <1>1, <1>4 DEF MailTypes
<1>6. MailTypes' /\ Boxed'
  BY <1>1, <1>5 DEF MailInv, MailTypes, Boxed
<1>7. Owners'
  BY <1>1, <1>4, <1>5 DEF MailInv, Owners
<1>8. Answers'
  BY <1>1, <1>4, <1>5 DEF MailInv, Answers, Answered
<1> QED
  BY <1>6, <1>7, <1>8 DEF MailInv

LEMMA ExecuteKeeps == MailInv /\ Execute => MailInv'
<1> SUFFICES ASSUME MailInv, Execute PROVE MailInv'
  OBVIOUS
<1>1. ~box.done /\ UNCHANGED <<call, crossed, mutex, session>>
  BY DEF Execute
<1>2. PICK f \in {"response", "error"} : box' = [box EXCEPT !.form = f, !.done = TRUE]
  BY DEF Execute
<1>3. box' \in Boxes /\ box'.by = box.by /\ box'.form \in {"response", "error"}
  BY <1>2 DEF MailInv, MailTypes, Boxes
<1> QED
  BY <1>1, <1>3 DEF MailInv, MailTypes, Owners, Boxed, Answers, Answered

\* Steps of the update file, and of the video handles.
LEMMA MailUpdateKeeps ==
    ASSUME MailInv, UpdateTypes,
           VideoCheck \/ VideoOpen \/ VideoClose \/ DfuOpen \/ DfuWrite \/ Update \/ DfuRelease
    PROVE  MailInv'
<1>1. session \in SessionTypes /\ UNCHANGED call
  BY DEF UpdateTypes, VideoCheck, VideoOpen, VideoClose, DfuOpen, DfuWrite, Update, DfuRelease,
         DfuSwitch, DfuBoot, DfuDetach, DfuBlock, DfuComplete, DfuError, DfuFinish
<1>2. CASE DfuSwitch
  <2>1. session.pc = "start" /\ mutex = "dfu" /\ UNCHANGED mutex
    BY <1>2 DEF DfuSwitch, MailInv, Owners
  <2>2. Owners'
    BY <1>1, <2>1 DEF MailInv, Owners
  <2>3. CASE UNCHANGED box /\ UNCHANGED crossed
    BY <1>1, <2>2, <2>3 DEF MailInv, MailTypes, Boxed, Answers, Answered
  <2>5. CASE box' = Unexecuted /\ crossed \cup Between("dfu") = crossed'
    <3>2. MailTypes' /\ Boxed'
      BY <1>1, <2>5 DEF MailInv, MailTypes, Boxed, Unexecuted, Blank, Boxes, Parties
    <3>3. ASSUME NEW o \in Handlers \ crossed', call'[o].kind \in Asking PROVE Answered(o)'
      <4>1. o # "dfu" /\ o \notin crossed /\ call[o].kind \in Asking
        BY <1>1, <2>5, <3>3, NamesApart
      <4>2. call[o].pc \notin {"poll", "answer"}
        BY <2>1, <2>5, <3>3, <4>1, NamesApart, RequestCrosses
      <4> QED
        BY <1>1, <4>1, <4>2 DEF MailInv, Answers, Answered
    <3> QED
      BY <2>2, <3>2, <3>3 DEF MailInv, Answers
  <2>4. CASE Request("dfu")
    <3>1. box' = [by |-> "dfu", form |-> "request", done |-> FALSE] /\ crossed \ {"dfu"} \subseteq crossed'
      BY <2>4 DEF Request
    <3>2. MailTypes' /\ Boxed'
      BY <1>1, <3>1 DEF MailInv, MailTypes, Boxed, Boxes, Parties
    <3>3. ASSUME NEW o \in Handlers \ crossed', call'[o].kind \in Asking PROVE Answered(o)'
      <4>1. o # "dfu" /\ o \notin crossed /\ call[o].kind \in Asking
        BY <1>1, <3>1, <3>3, NamesApart
      <4>2. call[o].pc \notin {"poll", "answer"}
        <5> SUFFICES ASSUME call[o].pc \in {"poll", "answer"} PROVE FALSE
          OBVIOUS
        <5>1. o \in Pending \ {"dfu"}
          BY <4>1 DEF Pending
        <5>2. Locked(o)
          BY <2>4, <3>3, <5>1 DEF Request, Between
        <5>3. mutex = o
          BY <4>1, <5>2 DEF Locked, MailInv, Owners
        <5> QED
          BY <2>1, <4>1, <5>3
      <4> QED
        BY <1>1, <4>1, <4>2 DEF MailInv, Answers, Answered
    <3> QED
      BY <2>2, <3>2, <3>3 DEF MailInv, Answers
  <2> QED
    BY <1>2, <2>3, <2>4, <2>5 DEF DfuSwitch
<1>3. CASE ~DfuSwitch
  <2>1. UNCHANGED <<box, crossed>>
    BY <1>3 DEF VideoCheck, VideoOpen, VideoClose, DfuOpen, DfuWrite, Update, DfuRelease,
                DfuBoot, DfuDetach, DfuBlock, DfuComplete, DfuError, DfuFinish
  <2>2. Owners'
    <3>1. CASE VideoCheck \/ VideoOpen \/ VideoClose
      BY <1>1, <3>1 DEF VideoCheck, VideoOpen, VideoClose, MailInv, Owners
    <3>2. CASE DfuOpen \/ DfuRelease
      <4>1. UNCHANGED mutex /\ session'.pc \in {"open", "shut"}
        BY <1>1, <3>2 DEF DfuOpen, DfuRelease, SessionTypes
      <4> QED
        BY <1>1, <4>1 DEF MailInv, Owners
    <3>3. CASE DfuWrite
      BY <1>1, <3>3, NamesApart DEF DfuWrite, MailInv, Owners
    <3>4. CASE DfuFinish
      <4>1. session.pc = "finish" /\ mutex' = Free /\ session'.pc = "open"
        BY <1>1, <3>4 DEF DfuFinish, SessionTypes
      <4> QED
        BY <1>1, <4>1, NamesApart DEF MailInv, Owners
    <3>5. CASE DfuBoot \/ DfuDetach \/ DfuBlock \/ DfuComplete \/ DfuError
      <4>1. UNCHANGED mutex /\ session.pc \notin {"shut", "open"}
        BY <3>5 DEF DfuBoot, DfuDetach, DfuBlock, DfuComplete, DfuError
      <4> QED
        BY <1>1, <4>1 DEF MailInv, Owners
    <3> QED
      BY <1>3, <3>1, <3>2, <3>3, <3>4, <3>5 DEF Update
  <2> QED
    BY <1>1, <2>1, <2>2 DEF MailInv, MailTypes, Boxed, Answers, Answered
<1> QED
  BY <1>2, <1>3

LEMMA MailInvariant == Spec => []MailInv
<1>1. MailInv /\ UpdateInv /\ [Next]_vars => MailInv'
  <2> SUFFICES ASSUME MailInv, UpdateInv, [Next]_vars PROVE MailInv'
    OBVIOUS
  <2>1. CASE UNCHANGED <<call, box, crossed, mutex, session>>
    BY <2>1 DEF MailInv, MailTypes, Owners, Boxed, Answers, Answered
  <2>2. UNCHANGED vars => UNCHANGED <<call, box, crossed, mutex, session>>
    BY DEF vars, controlVars
  <2>3. ASSUME NEW h \in Handlers, Advance(h) PROVE MailInv'
    BY <2>3, LockKeeps, SendKeeps, PollKeeps, ReadOutKeeps, ReturnKeeps DEF Advance
  <2>4. CASE ControlStep
    BY <2>3, <2>4, ExecuteKeeps, MailUpdateKeeps DEF ControlStep, UpdateInv
  <2>5. ASSUME NEW h \in Handlers, NEW k \in Kinds, Control(h, k) PROVE MailInv'
    BY <2>5, EnterKeeps
  <2>6. ASSUME NEW m \in (SUBSET Active) \ {{}}, NEW on \in BOOLEAN, Toggle(m, on)
        PROVE  UNCHANGED <<call, box, crossed, mutex, session>>
    BY <2>6 DEF Toggle
  <2>7. StreamStep => UNCHANGED <<call, box, crossed, mutex, session>>
    BY DEF StreamStep, Configure, Start, Started, GiveUp, Stop, KeepRest
  <2>8. FirmwareStarts \/ EnterFormat \/ GetFormat \/ MuxSetFormat \/ SetFormat =>
            UNCHANGED <<call, box, crossed, mutex, session>>
    BY DEF FirmwareStarts, EnterFormat, GetFormat, MuxSetFormat, SetFormat, controlVars
  <2> QED
    BY <2>1, <2>2, <2>4, <2>5, <2>6, <2>7, <2>8 DEF Next
<1> QED
  BY <1>1, MailInit, UpdateInvariant, PTL DEF Spec

(* Whoever carried out a command through the mailbox, from any number of    *)
(* control handlers and beside a firmware update, got the answer to that    *)
(* command, unless a transaction outside the mutex came between             *)
(* (ds5_s_ctrl(), ds5_get_hwmc()).                                          *)
THEOREM AnswersAreOwn == Spec => []OwnAnswer
<1>1. MailInv => OwnAnswer
  BY DEF MailInv, Answers, Answered, Asking, OwnAnswer
<1> QED
  BY <1>1, MailInvariant, PTL
=============================================================================
