------------------------------- MODULE MaxSer -------------------------------
(***************************************************************************)
(* The GMSL2 serializer framework (max_ser.c) on its chips (max96717.c):   *)
(* routing, the pipe that carries each stream, the virtual channel each    *)
(* pipe sends on, enabling and disabling streams with the error path, the  *)
(* test pattern, suspend and resume, and the I2C translations.             *)
(*                                                                         *)
(* Every handler runs under the lock of the subdevice's active state, so   *)
(* it is one step here: it takes the context "c" (driver memory, chip      *)
(* registers and cameras) through the calls it makes, in their order.  A   *)
(* handler may meet one failing call, c.fault, which fails once; c.err is  *)
(* the return value of the function that runs.                             *)
(*                                                                         *)
(* A scene is a chip with its firmware configuration, the routings user    *)
(* space may set and what the cameras may describe.  Bounds: MaxFaults     *)
(* failing calls, MaxSuspends suspends.                                    *)
(***************************************************************************)
EXTENDS MaxSerdesBpp, Integers, Sequences

CONSTANTS Scenes, MaxFaults, MaxSuspends

\* The chips of max96717.c: pipes, PHYs, modes, and whether they remap VCs.
Max9295a == [pipes |-> 4, phys |-> 1, modes |-> {"pixel"}, remap |-> FALSE]
Max9295d == [pipes |-> 4, phys |-> 2, modes |-> {"pixel"}, remap |-> TRUE]
Max96717 == [pipes |-> 1, phys |-> 1, modes |-> {"pixel", "tunnel"}, remap |-> FALSE]

Vcs     == 0 .. 3      \* MAX_SERDES_VC_ID_NUM
Tpg     == -1          \* the pad of the test pattern
Source  == -2          \* the source pad
Entries == [vc : Vcs, bpp : Bpps]     \* what a camera describes of a stream
NoEntry == [vc |-> -1, bpp |-> NoBpp]  \* the frame descriptor lacks the stream
NoRemap == [src |-> -1, dst |-> -1]    \* no channel assigned to a pipe
NoFault == <<>>
Slots   == 0 .. 1      \* num_i2c_xlates
Empty   == "empty"     \* a translation slot not in use

\* A routing the framework accepts (V4L2_SUBDEV_ROUTING_ONLY_1_TO_1); one of the
\* test pattern has no other route (max_serdes_validate_tpg_routing).
ValidRouting(table, chip) ==
    /\ table \in Seq([pad : 0 .. chip.phys - 1 \cup {Tpg}, sink : Nat, source : Nat])
    /\ \A m, n \in DOMAIN table :
         m # n => /\ table[m].pad # Tpg
                  /\ table[m].source # table[n].source
                  /\ table[m].pad = table[n].pad => table[m].sink # table[n].sink

\* max_ser_init_state() routes stream 0 of the first PHY.
DefaultRouting == <<[pad |-> 0, sink |-> 0, source |-> 0]>>

\* A camera describes the streams that can be routed, or lacks some of them.
Describes(d, table) ==
    \A n \in DOMAIN table :
        table[n].pad # Tpg => /\ <<table[n].pad, table[n].sink>> \in DOMAIN d
                              /\ d[<<table[n].pad, table[n].sink>>] \in Entries \cup {NoEntry}

ASSUME SceneAssumption ==
    \A x \in Scenes :
        /\ x.chip \in {Max9295a, Max9295d, Max96717}
        /\ x.preset \in [0 .. x.chip.pipes - 1 -> SUBSET Nat]
        /\ \A table \in x.routings : ValidRouting(table, x.chip)
        /\ \A d \in x.descs, table \in x.routings \cup {DefaultRouting} : Describes(d, table)
        /\ x.doubles \subseteq SUBSET Bpps

VARIABLES
    scene,     \* the chip and its surroundings
    routing,   \* the active routing table
    desc,      \* the camera's frame descriptor entry of each sink stream
    sw,        \* what the driver remembers
    hw,        \* the registers of the serializer
    cam,       \* the streams each camera has on
    asleep,
    stale,     \* pipes and PHYs that were on when the system was suspended, and
               \* whether the resume failed and left registers unwritten
    harmed,    \* PHYs touched by a failed disable and not restarted since
    faults, suspends

vars == <<scene, routing, desc, sw, hw, cam, asleep, stale, harmed, faults, suspends>>

Pipes == 0 .. scene.chip.pipes - 1
Phys  == 0 .. scene.chip.phys - 1
Pads  == Phys \cup {Tpg, Source}

----------------------------------------------------------------------------
(* Routes *)

\* max_ser_find_phy_pipe(): the first pipe of the PHY whose preset channels
\* meet the streams, else its first pipe.
FindPipe(h, streams) ==
    LET mine == {q \in Pipes : q % scene.chip.phys = h}
        fits == {q \in mine : streams = {} \/ scene.preset[q] = {}
                              \/ scene.preset[q] \cap streams # {}}
    IN  Least(IF fits # {} THEN fits ELSE mine)

\* max_ser_route_to_hw(): the pipe of a route and what its camera describes.
\* An entry that cannot be told makes the call fail.
PipeOf(r)   == IF r.pad = Tpg THEN 0 ELSE FindPipe(r.pad, {r.sink})
Resolves(r) == IF r.pad = Tpg THEN sw.tpgEntry ELSE desc[<<r.pad, r.sink>>] # NoEntry
Vc(r)       == IF r.pad = Tpg THEN 0 ELSE desc[<<r.pad, r.sink>>].vc
Bpp(r)      == IF r.pad = Tpg THEN 24 ELSE desc[<<r.pad, r.sink>>].bpp

Routes(table) == {table[n] : n \in DOMAIN table}
IsOn(r, masks) == r.sink \in masks[r.pad]
LiveOn(q, masks) == {r \in Routes(routing) : IsOn(r, masks) /\ PipeOf(r) = q}

----------------------------------------------------------------------------
(* Calls that may fail *)

Try(c, op, done) ==
    IF c.err THEN c
    ELSE IF c.fault = op THEN [c EXCEPT !.err = TRUE, !.fault = NoFault]
    ELSE done

Failed(c)  == [c EXCEPT !.err = TRUE]
Cleared(c) == [c EXCEPT !.err = FALSE]   \* an error label: its calls run anyway

SetPhyActive(c, h, on) ==
    Try(c, <<"phy", h>>, [c EXCEPT !.hw.phy[h] = on, !.sw.active[h] = on])
SetPipeVcs(c, q, vcs) == Try(c, <<"vcs", q>>, [c EXCEPT !.hw.vcs[q] = vcs])
SetPipeDts(c, q, dts) == Try(c, <<"dts", q>>, [c EXCEPT !.hw.dts[q] = dts])
\* Skipped when the pipe already has the mode.
SetPipeMode(c, q, mode) ==
    IF mode = c.sw.mode[q] THEN c ELSE Try(c, <<"mode", q>>, [c EXCEPT !.hw.mode[q] = mode])
SetPipeEnable(c, q, on) ==
    Try(c, <<"enable", q>>, [c EXCEPT !.hw.enabled[q] = on, !.sw.enabled[q] = on])

----------------------------------------------------------------------------
(* Pipes and PHYs *)

\* max_ser_get_pipe_vcs_dts(): channels and data types the pipe lets through.
VcsOf(q, masks) == IF sw.gmsl # "pixel" THEN {} ELSE {Vc(r) : r \in LiveOn(q, masks)}
DtsOf(q, masks) == IF sw.gmsl # "pixel" THEN {} ELSE {Bpp(r) : r \in LiveOn(q, masks)}

\* max_ser_get_pipe_mode(), over every route of the pipe, enabled or not.  For
\* a pipe with none the lowest and highest bit of 0 are taken: c.junk is
\* whether they come out different, which makes a bpp of one of them.
NoMode == [double |-> NoBpp, soft |-> 0, bpp |-> 0]
BppsOf(q) == {Bpp(r) : r \in {x \in Routes(routing) : PipeOf(x) = q}}
ModeOf(c, q) ==
    LET tpg == q = 0 /\ \E r \in Routes(routing) : r.pad = Tpg
        mode(dbl, sent) ==
          [double |-> dbl, soft |-> IF dbl = NoBpp THEN 0 ELSE Least(sent),
           bpp |-> IF Cardinality(sent) > 1 \/ tpg THEN Greatest(sent) ELSE 0]
        doubling(bpps, dbl) == mode(dbl, AfterDoubling(bpps, dbl))
        carrying(bpps) ==
          IF bpps = {} THEN [NoMode EXCEPT !.bpp = IF c.junk THEN 63 ELSE 0]
          ELSE doubling(bpps, Doubled(bpps, sw.double))
    IN  IF sw.gmsl # "pixel" THEN NoMode ELSE carrying(BppsOf(q))

\* In pixel mode every route is looked up, so one that fails fails the pipe.
PipeKnown(q) ==
    \/ sw.gmsl # "pixel"
    \/ /\ \A r \in Routes(routing) : Resolves(r)
       /\ Streamable(BppsOf(q), sw.double)

\* max_ser_update_pipe(), with the settings computed first.  The call that would
\* restore the mode is skipped by SetPipeMode(): the mode to restore is the one
\* remembered.
RememberPipe(c, q, new) ==
    IF c.err THEN Failed(SetPipeVcs(Cleared(c), q, c.sw.vcs[q]))
    ELSE [c EXCEPT !.sw.vcs[q] = new.vcs, !.sw.mode[q] = new.mode, !.sw.dts[q] = new.dts]
FillPipe(c, q, new) ==
    IF c.err THEN c
    ELSE RememberPipe(SetPipeDts(SetPipeMode(c, q, new.mode), q, new.dts), q, new)
WritePipe(c, q, new) == FillPipe(SetPipeVcs(c, q, new.vcs), q, new)
UpdatePipe(c, q, masks) ==
    IF PipeKnown(q)
    THEN WritePipe(c, q, [vcs |-> VcsOf(q, masks), mode |-> ModeOf(c, q), dts |-> DtsOf(q, masks)])
    ELSE Failed(c)

\* max_ser_update_pipe_enable().  Mutant: the remembered state is not consulted
\* but the streams that were on.
UpdatePipeEnableByMask(c, q, masks) ==
    LET on == LiveOn(q, masks) # {}
    IN  IF on = (LiveOn(q, c.sw.on) # {}) THEN c ELSE SetPipeEnable(c, q, on)
UpdatePipeEnable(c, q, masks) ==
    LET on == LiveOn(q, masks) # {}
    IN  IF \E n \in DOMAIN routing :
             /\ IsOn(routing[n], masks) /\ ~Resolves(routing[n])
             /\ \A k \in 1 .. n - 1 : routing[k] \notin LiveOn(q, masks)
        THEN Failed(c)
        ELSE IF on = c.sw.enabled[q] THEN c ELSE SetPipeEnable(c, q, on)

\* Whether the masks turn the PHY on or off.
Starts(c, h, masks) == masks[h] # {} /\ c.sw.on[h] = {}
Stops(c, h, masks)  == masks[h] = {} /\ c.sw.on[h] # {}

\* The error labels of max_ser_update_phy(): what comes after them fails.
RevertPhy(c, h, masks) ==
    Failed(IF Stops(c, h, masks) THEN SetPhyActive(Cleared(c), h, TRUE) ELSE c)
RevertPipe(c, q)   == UpdatePipe(Cleared(c), q, c.sw.on)
RevertEnable(c, q) == UpdatePipeEnable(Cleared(c), q, c.sw.on)

\* max_ser_update_phy(): one pipe of the PHY is updated, the one that suits the
\* streams that are on.
PhyStarted(c, h, q, masks) ==
    IF c.err THEN RevertPhy(RevertPipe(RevertEnable(c, q), q), h, masks) ELSE c
PhyEnabled(c, h, q, masks) ==
    IF c.err THEN RevertPhy(RevertPipe(c, q), h, masks)
    ELSE PhyStarted(IF Starts(c, h, masks) THEN SetPhyActive(c, h, TRUE) ELSE c, h, q, masks)
PhyFilled(c, h, q, masks) ==
    IF c.err THEN RevertPhy(c, h, masks)
    ELSE PhyEnabled(UpdatePipeEnable(c, q, masks), h, q, masks)
PhyStopped(c, h, q, masks) ==
    IF c.err THEN c ELSE PhyFilled(UpdatePipe(c, q, masks), h, q, masks)
UpdatePhy(c, h, masks) ==
    PhyStopped(IF Stops(c, h, masks) THEN SetPhyActive(c, h, FALSE) ELSE c,
               h, FindPipe(h, masks[h]), masks)

\* max_ser_update_phys(), one or two of them: a failure undoes the PHY before
\* the one that failed.  In the undo, and in that of the caller, the masks are
\* those remembered, so no PHY counts as changed and none is switched.
SecondPhyDone(c) == IF c.err THEN Failed(UpdatePhy(Cleared(c), 0, c.sw.on)) ELSE c
FirstPhyDone(c, masks) ==
    IF c.err \/ scene.chip.phys = 1 THEN c ELSE SecondPhyDone(UpdatePhy(c, 1, masks))
UpdatePhys(c, masks) == FirstPhyDone(UpdatePhy(c, 0, masks), masks)

----------------------------------------------------------------------------
(* Virtual channels *)

\* max_ser_assign_vc_remaps(): a pipe keeps the channel it once got; a new pipe
\* gets that of its first route, or the lowest free one when another pipe has
\* it.  There are as many channels as pipes, four at most.  A route that cannot
\* be looked up leaves all as it was.
UsedVcs(remaps) == {remaps[p].dst : p \in {x \in Pipes : remaps[x] # NoRemap}}
AssignTo(remaps, r) ==
    [remaps EXCEPT ![PipeOf(r)] =
        [src |-> Vc(r),
         dst |-> IF Vc(r) \in UsedVcs(remaps) THEN Least(Vcs \ UsedVcs(remaps)) ELSE Vc(r)]]

\* The routes are taken in their order, so the pipes in that of their first.
NewRoutes(remaps, table) ==
    {n \in DOMAIN table : table[n].pad # Tpg /\ remaps[PipeOf(table[n])] = NoRemap}
AssignNext(remaps, table) ==
    IF NewRoutes(remaps, table) = {} THEN remaps
    ELSE AssignTo(remaps, table[Least(NewRoutes(remaps, table))])
Assign(remaps, table) ==
    IF ~scene.chip.remap \/ \E r \in Routes(table) : ~Resolves(r) THEN remaps
    ELSE AssignNext(AssignNext(AssignNext(AssignNext(remaps, table), table), table), table)

\* max_ser_update_vc_remaps(): the channels that differ are written pipe by
\* pipe, then enabled together.  Mutant: enabled for the pipes that were on.
UpdateVcRemapsOfLive(c) ==
    LET remaps == Assign(c.sw.remaps, routing)
        moved  == {q \in Pipes : remaps[q].src # remaps[q].dst /\ LiveOn(q, c.sw.on) # {}}
    IN  IF c.err \/ ~scene.chip.remap THEN c
        ELSE [c EXCEPT !.sw.remaps = remaps, !.hw.softEnable = moved,
                       !.hw.soft = [q \in Pipes |-> IF q \in moved THEN remaps[q].dst ELSE @[q]]]
Moved(remaps) == {q \in Pipes : remaps[q] # NoRemap /\ remaps[q].src # remaps[q].dst}
WriteRemap(c, q) ==
    IF q \in Moved(c.sw.remaps)
    THEN Try(c, <<"soft", q>>, [c EXCEPT !.hw.soft[q] = c.sw.remaps[q].dst]) ELSE c
EnableRemaps(c) == Try(c, <<"softEnable">>, [c EXCEPT !.hw.softEnable = Moved(c.sw.remaps)])
WriteRemaps(c) == EnableRemaps(WriteRemap(WriteRemap(WriteRemap(WriteRemap(c, 0), 1), 2), 3))
UpdateVcRemaps(c) ==
    IF c.err \/ ~scene.chip.remap THEN c
    ELSE WriteRemaps([c EXCEPT !.sw.remaps = Assign(@, routing)])

\* max_ser_get_frame_desc_state(): the channel the deserializer is told.
Announced(r) ==
    IF sw.remaps[PipeOf(r)] # NoRemap THEN sw.remaps[PipeOf(r)].dst ELSE Vc(r)
\* The channel the frames of the route arrive on.
OnWire(r) == IF PipeOf(r) \in hw.softEnable THEN hw.soft[PipeOf(r)] ELSE Vc(r)

----------------------------------------------------------------------------
(* Enabling and disabling streams *)

\* max_ser_update_tpg().
UpdateTpg(c, masks) ==
    LET on == {r \in Routes(routing) : IsOn(r, masks)}
        tpg == \E r \in on : r.pad = Tpg
    IN  IF c.err THEN c
        ELSE IF \E r \in on : ~Resolves(r) THEN Failed(c)
        ELSE IF tpg = c.sw.tpg THEN c
        ELSE Try(c, <<"tpg">>, [c EXCEPT !.hw.tpg = tpg, !.sw.tpg = tpg])

\* max_serdes_xlate_enable_disable_streams(): camera by camera; when the second
\* fails the first is put back.
SetCam(c, h, rs, on) ==
    LET streams == {r.sink : r \in {x \in rs : x.pad = h}}
    IN  IF streams = {} THEN c
        ELSE Try(c, <<"cam", h>>,
               [c EXCEPT !.cam[h] = IF on THEN @ \cup streams ELSE @ \ streams])
SecondCamDone(c, rs, on) == IF c.err THEN Failed(SetCam(Cleared(c), 0, rs, ~on)) ELSE c
FirstCamDone(c, rs, on) ==
    IF c.err \/ scene.chip.phys = 1 THEN c ELSE SecondCamDone(SetCam(c, 1, rs, on), rs, on)
UpdateCams(c, rs, on) == FirstCamDone(SetCam(c, 0, rs, on), rs, on)

Requested(streams) == {r \in Routes(routing) : r.source \in streams}

\* max_serdes_get_streams_masks() of the serializer's pads.
NewMasks(streams, on) ==
    LET change(old, new) == IF on THEN old \cup new ELSE old \ new
    IN  [p \in Pads |-> change(sw.on[p],
           IF p = Source THEN streams ELSE {r.sink : r \in {x \in Requested(streams) : x.pad = p}})]

\* The error labels of max_ser_update_streams().
RevertCams(c, rs, on) == Failed(IF on THEN c ELSE UpdateCams(Cleared(c), rs, TRUE))
RevertTpg(c)    == UpdateTpg(Cleared(c), c.sw.on)
RevertPhys(c)   == UpdatePhys(Cleared(c), c.sw.on)
RevertRemaps(c) == UpdateVcRemaps(Cleared(c))

\* max_ser_update_streams(): the cameras last on the way up, first on the way
\* down.
CamsStarted(c, masks, rs, on) ==
    IF c.err THEN RevertCams(RevertTpg(RevertPhys(RevertRemaps(c))), rs, on)
    ELSE [c EXCEPT !.sw.on = masks]
RemapsUpdated(c, masks, rs, on) ==
    IF c.err THEN RevertCams(RevertTpg(RevertPhys(c)), rs, on)
    ELSE CamsStarted(IF on THEN UpdateCams(c, rs, TRUE) ELSE c, masks, rs, on)
PhysUpdated(c, masks, rs, on) ==
    IF c.err THEN RevertCams(RevertTpg(c), rs, on)
    ELSE RemapsUpdated(UpdateVcRemaps(c), masks, rs, on)
TpgUpdated(c, masks, rs, on) ==
    IF c.err THEN RevertCams(c, rs, on)
    ELSE PhysUpdated(UpdatePhys(c, masks), masks, rs, on)
CamsStopped(c, masks, rs, on) ==
    IF c.err THEN c ELSE TpgUpdated(UpdateTpg(c, masks), masks, rs, on)
UpdateStreams(c, streams, on) ==
    CamsStopped(IF on THEN c ELSE UpdateCams(c, Requested(streams), FALSE),
                NewMasks(streams, on), Requested(streams), on)

----------------------------------------------------------------------------
(* Initial state: after max_ser_probe() and the registration *)

HwReset ==
    [phy |-> [h \in Phys |-> FALSE], enabled |-> [q \in Pipes |-> FALSE],
     vcs |-> [q \in Pipes |-> {}], mode |-> [q \in Pipes |-> NoMode],
     dts |-> [q \in Pipes |-> {}], soft |-> [q \in Pipes |-> 0], softEnable |-> {},
     tpg |-> FALSE, tunnel |-> FALSE, xlates |-> [i \in Slots |-> Empty]]

\* The default routing is set while no camera is bound, whose entry is then all
\* zero.
FirstRemaps ==
    [q \in Pipes |-> IF scene.chip.remap /\ q = FindPipe(0, {0})
                     THEN [src |-> 0, dst |-> 0] ELSE NoRemap]

SwReset ==
    [on |-> [p \in Pads |-> {}], active |-> HwReset.phy, enabled |-> HwReset.enabled,
     vcs |-> HwReset.vcs, mode |-> HwReset.mode, dts |-> HwReset.dts,
     remaps |-> FirstRemaps, double |-> {}, gmsl |-> "pixel",
     tpg |-> FALSE, tpgEntry |-> FALSE, xlates |-> HwReset.xlates]

Init ==
    /\ scene \in Scenes
    /\ desc \in scene.descs
    /\ routing = DefaultRouting
    /\ sw = SwReset /\ hw = HwReset
    /\ cam = [h \in Phys |-> {}]
    /\ asleep = FALSE
    /\ stale = [pipes |-> {}, phys |-> {}, unwritten |-> FALSE] /\ harmed = {}
    /\ faults = 0 /\ suspends = 0

----------------------------------------------------------------------------
(* Actions *)

Active == sw.on[Source] # {}
Ops == ({"phy", "cam"} \X Phys) \cup ({"vcs", "mode", "dts", "enable", "soft"} \X Pipes)
       \cup {<<"softEnable">>, <<"tpg">>, <<"xlate">>}
Faults == IF faults < MaxFaults THEN Ops \cup {NoFault} ELSE {NoFault}

Context(fault, junk) ==
    [sw |-> sw, hw |-> hw, cam |-> cam, fault |-> fault, junk |-> junk, err |-> FALSE]

\* A fault that no call of the handler met is not counted.
Finish(c, fault) ==
    /\ sw' = c.sw /\ hw' = c.hw /\ cam' = c.cam
    /\ faults' = IF fault # NoFault /\ c.fault = NoFault THEN faults + 1 ELSE faults
    /\ fault # NoFault => c.fault = NoFault

\* max_ser_enable_streams() and max_ser_disable_streams().
Enable(streams) ==
    /\ ~asleep
    /\ streams # {} /\ streams \subseteq {r.source : r \in Routes(routing)} \ sw.on[Source]
    /\ LET end(c, fault) ==
             /\ Finish(c, fault)
             /\ harmed' = IF c.err THEN harmed
                          ELSE {h \in harmed : sw.on[h] # {} \/ c.sw.on[h] = {}}
       IN  \E fault \in Faults, junk \in BOOLEAN :
              end(UpdateStreams(Context(fault, junk), streams, TRUE), fault)
    /\ UNCHANGED <<scene, routing, desc, asleep, stale, suspends>>

Disable(streams) ==
    /\ ~asleep
    /\ streams # {} /\ streams \subseteq sw.on[Source]
    /\ LET end(c, fault) ==
             /\ Finish(c, fault)
             /\ harmed' = IF c.err THEN harmed \cup {r.pad : r \in Requested(streams)} ELSE harmed
             /\ stale' = [pipes |-> {q \in stale.pipes : c.sw.enabled[q]},
                          phys |-> {h \in stale.phys : c.sw.active[h]},
                          unwritten |-> stale.unwritten]
       IN  \E fault \in Faults, junk \in BOOLEAN :
              end(UpdateStreams(Context(fault, junk), streams, FALSE), fault)
    /\ UNCHANGED <<scene, routing, desc, asleep, suspends>>

\* __max_ser_set_routing().  A TRY routing has a state, and a lock, of its own,
\* but the channels it assigns are the driver's.
SetRouting(table, active) ==
    /\ ~asleep /\ (active => ~Active)
    /\ LET tpg == \E r \in Routes(table) : r.pad = Tpg
       IN  sw' = [sw EXCEPT !.remaps = IF tpg THEN @ ELSE Assign(@, table),
                            !.tpgEntry = IF active THEN tpg ELSE @]
    /\ routing' = IF active THEN table ELSE routing
    /\ UNCHANGED <<scene, desc, hw, cam, asleep, stale, harmed, faults, suspends>>

\* max_ser_set_fmt() and max_ser_set_frame_interval() on the pad of the pattern.
\* The interval is matched with its numerator and denominator swapped, so one
\* that is accepted names no entry afterwards.
SetTpg(entry) ==
    /\ ~asleep /\ ~Active
    /\ \E r \in Routes(routing) : r.pad = Tpg
    /\ sw' = [sw EXCEPT !.tpgEntry = entry]
    /\ UNCHANGED <<scene, routing, desc, hw, cam, asleep, stale, harmed, faults, suspends>>

\* A camera with no stream on describes its streams differently, or not at all.
ChangeDesc ==
    /\ ~asleep
    /\ desc' \in scene.descs \ {desc}
    /\ \A x \in DOMAIN desc : desc'[x] # desc[x] => cam[x[1]] = {}
    /\ UNCHANGED <<scene, routing, sw, hw, cam, asleep, stale, harmed, faults, suspends>>

\* max_ser_set_double_bpps() and max_ser_set_mode(), called by the deserializer;
\* its mode follows its routing, which it changes with no stream on.
SetDoubleBpps(bpps) ==
    /\ ~asleep
    /\ sw' = [sw EXCEPT !.double = bpps]
    /\ UNCHANGED <<scene, routing, desc, hw, cam, asleep, stale, harmed, faults, suspends>>
SetMode(mode) ==
    /\ ~asleep /\ ~Active
    /\ mode \in scene.chip.modes /\ mode # sw.gmsl
    /\ sw' = [sw EXCEPT !.gmsl = mode]
    /\ hw' = [hw EXCEPT !.tunnel = mode = "tunnel"]
    /\ UNCHANGED <<scene, routing, desc, cam, asleep, stale, harmed, faults, suspends>>

\* max_ser_i2c_atr_attach_addr() and detach_addr(), which frees the slot even
\* when the write fails.
Attach(addr) ==
    LET free == {i \in Slots : sw.xlates[i] = Empty}
    IN  /\ ~asleep
        /\ \A i \in Slots : sw.xlates[i] # addr
        /\ free # {}
        /\ \E fault \in Faults :
              Finish(Try(Context(fault, FALSE), <<"xlate">>,
                         [Context(fault, FALSE) EXCEPT !.hw.xlates[Least(free)] = addr,
                                                       !.sw.xlates[Least(free)] = addr]), fault)
        /\ UNCHANGED <<scene, routing, desc, asleep, stale, harmed, suspends>>
Detach(addr) ==
    /\ ~asleep
    /\ \E i \in Slots, fault \in Faults :
          /\ sw.xlates[i] = addr
          /\ Finish([Try(Context(fault, FALSE), <<"xlate">>,
                         [Context(fault, FALSE) EXCEPT !.hw.xlates[i] = Empty])
                     EXCEPT !.sw.xlates[i] = Empty], fault)
    /\ UNCHANGED <<scene, routing, desc, asleep, stale, harmed, suspends>>

\* max_ser_suspend() turns off what is on and remembers all of it as on; the
\* registers are then lost with the power of the link.
Suspend ==
    /\ ~asleep /\ suspends < MaxSuspends
    /\ asleep' = TRUE /\ suspends' = suspends + 1
    /\ hw' = HwReset
    /\ stale' = [pipes |-> {q \in Pipes : sw.enabled[q]}, phys |-> {h \in Phys : sw.active[h]},
                 unwritten |-> FALSE]
    /\ UNCHANGED <<scene, routing, desc, sw, cam, harmed, faults>>

\* max_ser_resume(): max_ser_init(), the translations and the tunnel mode.
\* Mutant: the translations are not written again.
ResumeNoXlates ==
    /\ asleep /\ asleep' = FALSE
    /\ hw' = [HwReset EXCEPT !.mode = sw.mode, !.tunnel = sw.gmsl = "tunnel"]
    /\ UNCHANGED <<scene, routing, desc, sw, cam, stale, harmed, faults, suspends>>
Resume ==
    /\ asleep /\ asleep' = FALSE
    /\ hw' = [HwReset EXCEPT !.mode = sw.mode, !.tunnel = sw.gmsl = "tunnel",
                             !.xlates = sw.xlates]
    /\ UNCHANGED <<scene, routing, desc, sw, cam, stale, harmed, faults, suspends>>

\* A resume that fails does not go on: in max_ser_init(), pipe by pipe, at a
\* translation or at the tunnel mode.  What it did not write is off or empty,
\* as after power-up, and the driver's memory stays as it is.
ResumeFails ==
    /\ asleep /\ asleep' = FALSE
    /\ faults < MaxFaults /\ faults' = faults + 1
    /\ \/ \E n \in 0 .. scene.chip.pipes :
             hw' = [HwReset EXCEPT
                      !.mode = [q \in Pipes |-> IF q < n THEN sw.mode[q] ELSE NoMode]]
       \/ \E i \in Slots :
             /\ sw.xlates[i] # Empty
             /\ hw' = [HwReset EXCEPT
                         !.mode = sw.mode,
                         !.xlates = [k \in Slots |-> IF k < i THEN sw.xlates[k] ELSE Empty]]
       \/ /\ sw.gmsl = "tunnel"
          /\ hw' = [HwReset EXCEPT !.mode = sw.mode, !.xlates = sw.xlates]
    /\ stale' = [stale EXCEPT !.unwritten = TRUE]
    /\ UNCHANGED <<scene, routing, desc, sw, cam, harmed, suspends>>

Next ==
    \/ \E streams \in SUBSET {r.source : r \in Routes(routing)} :
          Enable(streams) \/ Disable(streams)
    \/ \E table \in scene.routings, active \in BOOLEAN : SetRouting(table, active)
    \/ \E entry \in BOOLEAN : SetTpg(entry)
    \/ \E bpps \in scene.doubles : SetDoubleBpps(bpps)
    \/ \E mode \in {"pixel", "tunnel"} : SetMode(mode)
    \/ \E addr \in scene.addrs : Attach(addr) \/ Detach(addr)
    \/ ChangeDesc \/ Suspend \/ Resume \/ ResumeFails

Spec == Init /\ [][Next]_vars

----------------------------------------------------------------------------
(* Properties *)

\* The enabled streams whose PHY is not in a state a failed disable or a
\* suspend while streaming left behind.
Healthy ==
    {r \in Routes(routing) :
       /\ IsOn(r, sw.on) /\ r.pad \notin harmed /\ Resolves(r)
       /\ r.pad \notin stale.phys /\ PipeOf(r) \notin stale.pipes}

(* Streams flow: awake, every enabled stream has its camera on, its PHY    *)
(* active and its pipe enabled, and its frames arrive on the channel the   *)
(* deserializer is told; a pipe that carries no enabled stream is off.     *)
StreamsFlow ==
    ~asleep =>
        /\ \A r \in Healthy :
              /\ hw.enabled[PipeOf(r)]
              /\ IF r.pad = Tpg THEN hw.tpg ELSE hw.phy[r.pad] /\ r.sink \in cam[r.pad]
              /\ Announced(r) = OnWire(r)
        /\ \A q \in Pipes : LiveOn(q, sw.on) = {} => ~hw.enabled[q]

(* Pipes of a serializer that remaps channels share one link, where the    *)
(* deserializer tells their frames apart by channel only.                  *)
NoCollision ==
    scene.chip.remap => \A r, t \in Healthy :
        PipeOf(r) # PipeOf(t) => OnWire(r) # OnWire(t)

(* What the driver remembers is what the registers hold, except for what   *)
(* was on when the system was suspended and has not been turned off since, *)
(* after a resume that failed, for the tunnel mode and the translations,   *)
(* and, after a failed call, for what UpdatePipe() does not restore.       *)
CachesAgree ==
    ~asleep =>
        /\ \A q \in Pipes \ stale.pipes : hw.enabled[q] = sw.enabled[q]
        /\ \A h \in Phys \ stale.phys : hw.phy[h] = sw.active[h]
        /\ ~stale.unwritten =>
              /\ hw.tunnel = (sw.gmsl = "tunnel")
              /\ \A i \in Slots : sw.xlates[i] # Empty => hw.xlates[i] = sw.xlates[i]
        /\ faults = 0 => \A q \in Pipes \ stale.pipes :
              hw.vcs[q] = sw.vcs[q] /\ hw.mode[q] = sw.mode[q] /\ hw.dts[q] = sw.dts[q]
=============================================================================
