--------------------------- MODULE MaxDesStreams ---------------------------
(***************************************************************************)
(* Enabling and disabling streams on the GMSL2 deserializer                *)
(* (max_des_update_streams), with the register writes it makes, the        *)
(* software caches that let it skip some of them, the failure of any of    *)
(* them and the error path that undoes the earlier ones, and the loss of   *)
(* every register in a system suspend.                                     *)
(*                                                                         *)
(* The module extends MaxDesRemap: the routing table, the pipe assignments *)
(* and the remap context are its variables and populating is its steps.    *)
(* Every later step of the handler is an action here; "stage" is the place *)
(* in max_des_update_streams() where the running call is.                  *)
(*                                                                         *)
(* Bounds: MaxFaults failing calls in a behaviour, MaxSuspends suspends.   *)
(* Not modelled: the bpp doubling registers (set_modes may fail, what it   *)
(* writes is not represented), set_pipe_vc_remap, which no chip has, and   *)
(* stream autoselect (a pipe that takes every stream of its link), which   *)
(* suits one camera per link only.                                         *)
(***************************************************************************)
EXTENDS MaxDesRemap

CONSTANTS
    EnabledPhys,     \* PHYs with an endpoint
    HasPipePhy,      \* whether the chip installs ops->set_pipe_phy
    HasTunnelPhy,    \* ops->set_pipe_tunnel_phy
    HasPipeLink,     \* ops->set_pipe_link
    UniqueIds,       \* ops->needs_unique_stream_id
    SerPipes,        \* number of pipes of the serializer of each enabled link
    MaxFaults,       \* bound on the calls that fail
    MaxSuspends      \* bound on the system suspends

NoPhy == -1     \* a PHY register at its reset value, or no PHY at all

\* Serializers that remap VCs are pixel-only chips, so max_des_set_vc_remaps(),
\* which only acts in tunnel mode on such serializers, never has anything to push.
ASSUME SerializerAssumption ==
    /\ \A l \in SerVcRemap : SerModes[l] = {"pixel"}
    /\ SerPipes \in [Enabled -> 1 .. NumStreams]
    /\ ~ DesVcRemap

\* Media links only reach sink pads with an endpoint and enabled PHYs.
ASSUME EndpointAssumption ==
    /\ EnabledPhys \subseteq Phys
    /\ \A r \in Routings : \A n \in DOMAIN r :
          r[n].sink \in Enabled \cup {Tpg} /\ r[n].phy \in EnabledPhys

ASSUME SwitchAssumption ==
    /\ {HasPipePhy, HasTunnelPhy, HasPipeLink, UniqueIds} \subseteq BOOLEAN
    /\ MaxFaults \in Nat /\ MaxSuspends \in Nat

VARIABLES
    sw,        \* what the driver remembers, see SwInit
    hw,        \* the registers of the deserializer, see HwReset
    ser,       \* the serializers: mode, stream id of each pipe, streams enabled
    call,      \* the request being served
    stage,     \* where the call is; "off" before and after the register writes
    desc,      \* what get_frame_desc() last told for each PHY
    faults,    \* calls that have failed so far
    suspends,  \* system suspends so far
    asleep,    \* the system is suspended
    written    \* pipes whose output registers the last step wrote

own     == <<sw, hw, ser, call, stage, desc, faults, suspends, asleep, written>>
allVars == <<vars, own>>

----------------------------------------------------------------------------
(* Reading the state *)

RouteSet == {routing[n] : n \in DOMAIN routing}

\* Stream masks: the streams that are on at the sink pads and at the source pads.
Off == [sink |-> {}, src |-> {}]

Requested == {r \in RouteSet : r.phy = call.phy /\ r.source \in call.streams}
SinksOf(R) == {<<r.sink, r.stream>> : r \in R}

\* The streams max_serdes_xlate_enable_disable_streams() passes to serializers.
\* Mutants: without the check for the test pattern; every stream of the pad.
SourceStreamsWithTpg == SinksOf(Requested)
SourceStreamsOfPad   == SinksOf({r \in RouteSet : r.phy = call.phy /\ r.sink # Tpg})
SourceStreams        == SinksOf({r \in Requested : r.sink # Tpg})

\* max_serdes_get_streams_masks().  Mutant: a disable clears the whole pad.
NewMasksOfPad ==
    [sink |-> IF call.enable THEN sw.on.sink \cup SinksOf(Requested)
              ELSE sw.on.sink \ SinksOf({r \in RouteSet : r.phy = call.phy}),
     src |-> LET srcs == {<<call.phy, s>> : s \in call.streams}
             IN  IF call.enable THEN sw.on.src \cup srcs ELSE sw.on.src \ srcs]
NewMasks ==
    LET sinks == SinksOf(Requested)
        srcs  == {<<call.phy, s>> : s \in call.streams}
    IN  IF call.enable
        THEN [sink |-> sw.on.sink \cup sinks, src |-> sw.on.src \cup srcs]
        ELSE [sink |-> sw.on.sink \ sinks, src |-> sw.on.src \ srcs]

Live(masks) == {r \in RouteSet : <<r.sink, r.stream>> \in masks.sink}
LiveOn(p, masks) == {r \in Live(masks) : CarriedBy(r, p)}

DstVc(p, r) == CHOOSE v \in Vcs :
    [pipe |-> p, phy |-> r.phy, src |-> SrcVc(r), dst |-> v] \in vcMap

UnusedPhy ==
    IF Phys = EnabledPhys THEN NoPhy
    ELSE CHOOSE h \in Phys : IsLowest(h, Phys \ EnabledPhys)

FirstPhy(p) == IF PhysOf(p) = {} THEN NoPhy ELSE CHOOSE h \in Phys : IsLowest(h, PhysOf(p))

\* The PHY set_pipes_phy() wants a pipe to be routed to.
\* Mutant: the unused PHY whatever the mode.
PhyForUnused(p) == IF UnusedPhy # NoPhy THEN UnusedPhy ELSE FirstPhy(p)
PhyFor(p) ==
    IF UnusedPhy # NoPhy /\ (mode # "tunnel" \/ FirstPhy(p) = NoPhy)
    THEN UnusedPhy ELSE FirstPhy(p)

(* max_des_get_pipe_remaps(): the entries of the streams the pipe carries, *)
(* and one that sends the test pattern seen by the other pipes away.       *)
RemapsFor(p, masks) ==
    IF mode # "pixel" THEN {}
    ELSE {[src |-> SrcVc(r), dst |-> DstVc(p, r), phy |-> r.phy] : r \in LiveOn(p, masks)}
         \cup {[src |-> 0, dst |-> 0, phy |-> UnusedPhy] :
                 r \in {x \in Live(masks) : x.sink = Tpg /\ p # 0 /\ ~HasPipePhy
                                            /\ UnusedPhy # NoPhy}}

TpgFor(masks) == \E r \in Live(masks) : r.sink = Tpg

----------------------------------------------------------------------------
(* Initial state: after max_des_probe() *)

HwReset ==
    [out |-> FALSE,                               \* CSI-2 outputs enabled
     en |-> [p \in Pipes |-> FALSE],              \* pipe enables
     link |-> HomeLink,                           \* link each pipe listens to
     id |-> [p \in Pipes |-> IF UniqueIds THEN p ELSE 0],   \* stream id it takes
     remap |-> [p \in Pipes |-> {}],              \* enabled remap entries
     ctrl |-> [p \in Pipes |-> NoPhy],            \* pixel mode PHY register
     tun |-> [p \in Pipes |-> NoPhy],             \* tunnel mode PHY register
     tunnel |-> [p \in Pipes |-> FALSE],          \* tunnel mode enables
     tpg |-> FALSE]                               \* test pattern running

\* "none" marks a remap table that was never allocated.
SwInit ==
    [on |-> Off,                                  \* priv->streams_masks
     active |-> FALSE,                            \* des->active
     pending |-> FALSE,                           \* resume_reconfigure_pending
     phy |-> [p \in Pipes |-> 0],                 \* pipe->phy_id
     prog |-> [p \in Pipes |-> FALSE],            \* pipe->phy_programmed
     known |-> [p \in Pipes |-> FALSE],           \* pipe->remaps is not NULL
     remap |-> [p \in Pipes |-> {}],              \* pipe->remaps
     en |-> [p \in Pipes |-> FALSE],              \* pipe->enabled
     id |-> [p \in Pipes |-> IF UniqueIds THEN p ELSE 0],   \* pipe->stream_id
     tpg |-> FALSE]                               \* des->tpg_entry

NoCall == [phy |-> NoPhy, streams |-> {}, enable |-> FALSE, masks |-> Off, done |-> {}, limit |-> 0]

\* max_ser_probe() and max_ser_init(): a pipe has the id of its number.
SerInit ==
    [mode |-> [l \in Enabled |-> "pixel"],
     id |-> [x \in Enabled \X Streams |-> x[2]],
     on |-> {}]

StreamsInit ==
    /\ Init
    /\ sw = SwInit /\ hw = HwReset /\ ser = SerInit
    /\ call = NoCall /\ stage = "off" /\ desc = {}
    /\ faults = 0 /\ suspends = 0 /\ asleep = FALSE /\ written = {}

----------------------------------------------------------------------------
(* Calls that do not stream *)

Idle == pc = "idle" /\ stage = "off" /\ ~asleep

NoFault == UNCHANGED faults
Fault   == faults < MaxFaults /\ faults' = faults + 1

\* set_routing(ACTIVE) returns -EBUSY while the deserializer is active.
ChangeRouting ==
    /\ Idle /\ ~ sw.active
    /\ SetRouting
    /\ desc' = {} /\ written' = {}
    /\ UNCHANGED <<sw, hw, ser, call, stage, faults, suspends, asleep>>

\* A serializer refuses to be rerouted only while one of its streams is on.
RerouteSerializer ==
    /\ Idle
    /\ ChangeFrameDesc
    /\ \A x \in Links \X Streams : fd'[x] # fd[x] =>
          \A s \in Streams : <<x[1], s>> \notin ser.on \cup sw.on.sink
    /\ desc' = {} /\ written' = {}
    /\ UNCHANGED <<sw, hw, ser, call, stage, faults, suspends, asleep>>

StartGetDesc ==
    /\ Idle
    /\ \E h \in EnabledPhys : call' = [NoCall EXCEPT !.phy = h]
    /\ BeginGetDesc
    /\ written' = {}
    /\ UNCHANGED <<sw, hw, ser, stage, desc, faults, suspends, asleep>>

\* The VC a route arrives on, as max_des_get_frame_desc_state() tells it.
DescVc(r) == CHOOSE v \in Vcs : \E p \in Pipes : CarriedBy(r, p) /\ v = DstVc(p, r)

\* max_des_get_frame_desc_state(), after populating.
EndGetDesc ==
    /\ pc \in {"populated", "failed"} /\ ~ fresh
    /\ desc' = {d \in desc : d.phy # call.phy} \cup
               (IF pc = "failed" THEN {}
                ELSE {[phy |-> r.phy, source |-> r.source, vc |-> DescVc(r)] :
                         r \in {x \in RouteSet : x.phy = call.phy}})
    /\ Return
    /\ call' = NoCall /\ written' = {}
    /\ UNCHANGED <<sw, hw, ser, stage, faults, suspends, asleep>>

(* A request the V4L2 core lets through: routed streams of a source pad,   *)
(* all of them off to be enabled, all of them on to be disabled.           *)
StartUpdate ==
    /\ Idle
    /\ \E h \in EnabledPhys : \E S \in SUBSET {r.source : r \in {x \in RouteSet : x.phy = h}},
          e \in BOOLEAN :
          /\ S # {} /\ \A s \in S : (<<h, s>> \in sw.on.src) = ~ e
          /\ call' = [NoCall EXCEPT !.phy = h, !.streams = S, !.enable = e]
    /\ BeginUpdate
    /\ written' = {}
    /\ UNCHANGED <<sw, hw, ser, stage, desc, faults, suspends, asleep>>

PopulateStep ==
    /\ Populate
    /\ written' = {}
    /\ UNCHANGED <<sw, hw, ser, call, stage, desc, faults, suspends, asleep>>

\* Populating failed, or the bpps cannot share a PHY (populate_mode_context).
Reject ==
    /\ pc \in {"populated", "failed"} /\ fresh /\ stage = "off"
    /\ Return
    /\ call' = NoCall /\ written' = {}
    /\ UNCHANGED <<sw, hw, ser, stage, desc, faults, suspends, asleep>>

(* A system suspend: the outputs are stopped and the power goes, behind    *)
(* the back of the cached state.  The serializers turn their pipes off and *)
(* come back with their own defaults, but for the mode.                    *)
Suspend ==
    /\ Idle /\ suspends < MaxSuspends
    /\ suspends' = suspends + 1 /\ asleep' = TRUE
    /\ hw' = HwReset /\ ser' = [SerInit EXCEPT !.mode = ser.mode]
    /\ written' = {}
    /\ UNCHANGED <<vars, sw, call, stage, desc, faults>>

(* max_des_resume(): max_des_init() gives the registers their cached       *)
(* values with every pipe and output off; the next update is to reprogram  *)
(* the rest.  When it fails the power is cut again, and the cameras stay   *)
(* out of reach.                                                           *)
Resume ==
    /\ asleep
    /\ \/ /\ asleep' = FALSE /\ NoFault
          /\ hw' = [HwReset EXCEPT !.id = sw.id, !.remap = sw.remap,
                                   !.link = IF HasPipeLink THEN linkOf ELSE @]
          /\ sw' = [sw EXCEPT !.prog = [p \in Pipes |-> FALSE], !.pending = TRUE]
       \/ Fault /\ UNCHANGED <<asleep, hw, sw>>
    /\ written' = {}
    /\ UNCHANGED <<vars, ser, call, stage, desc, suspends>>

----------------------------------------------------------------------------
(* The stages of max_des_update_streams() *)

Goto(s) == stage' = s
At(s)   == stage = s /\ pc = "populated"

\* The parts of the state that the steps of the stages leave alone.
Quiet == UNCHANGED <<vars, desc, suspends, asleep>>

\* A pipe the running loop comes to next, in increasing order.
NextPipe(p) == IsLowest(p, Pipes \ call.done)
Visit(p)    == call' = [call EXCEPT !.done = @ \cup {p}]
LoopEnds    == call.done = Pipes
Rewind      == call' = [call EXCEPT !.done = {}]

StartWrites ==
    /\ pc = "populated" /\ fresh /\ stage = "off"
    /\ Goto("phys") /\ call' = [call EXCEPT !.masks = NewMasks]
    /\ written' = {} /\ NoFault /\ Quiet /\ UNCHANGED <<sw, hw, ser>>

\* One pipe of max_des_set_pipes_phy(): skipped when the snapshot says so.
SetPipePhy ==
    /\ At("phys") /\ ~ LoopEnds
    /\ \E p \in Pipes :
          LET h    == PhyFor(p)
              skip == h = NoPhy \/ (sw.prog[p] /\ sw.phy[p] = h)
              pix  == mode = "pixel" /\ HasPipePhy
              tun  == mode = "tunnel" /\ HasTunnelPhy
          IN  /\ NextPipe(p) /\ (HasPipePhy \/ HasTunnelPhy)
              /\ \/ /\ skip \/ ~ (pix \/ tun)
                    /\ sw' = [sw EXCEPT !.phy[p] = h]
                    /\ written' = {} /\ NoFault /\ Visit(p) /\ UNCHANGED <<hw, stage>>
                 \/ /\ ~ skip /\ (pix \/ tun)
                    /\ hw' = IF pix THEN [hw EXCEPT !.ctrl[p] = h] ELSE [hw EXCEPT !.tun[p] = h]
                    /\ sw' = [sw EXCEPT !.phy[p] = h, !.prog[p] = TRUE]
                    /\ written' = {p} /\ NoFault /\ Visit(p) /\ UNCHANGED stage
                 \/ /\ ~ skip /\ (pix \/ tun)
                    /\ Fault /\ Goto("free") /\ written' = {} /\ UNCHANGED <<sw, hw, call>>
    /\ Quiet /\ UNCHANGED ser

PhysDone ==
    /\ At("phys") /\ (LoopEnds \/ ~ (HasPipePhy \/ HasTunnelPhy))
    /\ Goto("tunnel") /\ Rewind
    /\ written' = {} /\ NoFault /\ Quiet /\ UNCHANGED <<sw, hw, ser>>

\* max_des_set_tunnel(), deserializer half: one pipe.
SetPipeTunnel ==
    /\ At("tunnel") /\ ~ LoopEnds
    /\ \E p \in Pipes :
          /\ NextPipe(p)
          /\ \/ /\ hw' = [hw EXCEPT !.tunnel[p] = (mode = "tunnel")]
                /\ NoFault /\ Visit(p) /\ UNCHANGED stage
             \/ Fault /\ Goto("free") /\ UNCHANGED <<hw, call>>
    /\ written' = {} /\ Quiet /\ UNCHANGED <<sw, ser>>

(* Serializer half, in link order: a failure leaves the links before the   *)
(* failing one in the new mode.                                            *)
SetSerModes ==
    /\ At("tunnel") /\ LoopEnds
    /\ LET links == {c[1] : c \in Consulted}
           Upto(n) == [ser EXCEPT !.mode = [l \in Enabled |->
                          IF l \in links /\ l < n THEN mode ELSE @[l]]]
       IN  \/ (ser' = Upto(NumLinks) /\ NoFault /\ Goto("modes"))
           \/ \E l \in links : ser' = Upto(l) /\ Fault /\ Goto("free")
    /\ Rewind
    /\ written' = {} /\ Quiet /\ UNCHANGED <<sw, hw>>

\* max_des_set_modes() and max_des_set_vc_remaps().
SetModes ==
    /\ At("modes")
    /\ (NoFault /\ Goto("ids")) \/ (Fault /\ Goto("free"))
    /\ written' = {} /\ Quiet /\ UNCHANGED <<sw, hw, ser, call>>

\* The stream id of an assigned pipe.  Mutant: unique ids are ignored.
StreamAsId(p) == strm[p]
WantedId(p)   == IF UniqueIds THEN sw.id[p] ELSE strm[p]

(* One pipe of max_des_set_pipes_stream_id(): the serializer pipe with the *)
(* number of the stream is given the id, then the deserializer's pipe.     *)
SetPipeStreamId ==
    /\ At("ids") /\ ~ LoopEnds
    /\ \E p \in Pipes :
          LET l  == linkOf[p]
              x  == <<l, strm[p]>>
              id == WantedId(p)
              named == [ser EXCEPT !.id[x] = id]
          IN  /\ NextPipe(p)
              /\ \/ /\ strm[p] = Unassigned \/ l \notin Enabled
                    /\ NoFault /\ Visit(p) /\ UNCHANGED <<stage, sw, hw, ser>>
                 \/ /\ strm[p] # Unassigned /\ l \in Enabled /\ strm[p] >= SerPipes[l]
                    /\ NoFault /\ Goto("free") /\ UNCHANGED <<call, sw, hw, ser>>
                 \/ /\ strm[p] # Unassigned /\ l \in Enabled /\ strm[p] < SerPipes[l]
                    /\ \/ /\ ser' = named /\ hw' = [hw EXCEPT !.id[p] = id]
                          /\ sw' = [sw EXCEPT !.id[p] = id]
                          /\ NoFault /\ Visit(p) /\ UNCHANGED stage
                       \/ /\ ser' \in {ser, named}
                          /\ Fault /\ Goto("free") /\ UNCHANGED <<call, sw, hw>>
    /\ written' = {} /\ Quiet

IdsDone ==
    /\ At("ids") /\ LoopEnds
    /\ Goto(IF call.enable THEN "actOff" ELSE "srcOff") /\ Rewind
    /\ written' = {} /\ NoFault /\ Quiet /\ UNCHANGED <<sw, hw, ser>>

\* v4l2_subdev_disable_streams() on the serializers; a failure undoes itself.
DisableSources ==
    /\ At("srcOff")
    /\ \/ ser' = [ser EXCEPT !.on = @ \ SourceStreams] /\ NoFault /\ Goto("actOff")
       \/ SourceStreams # {} /\ UNCHANGED ser /\ Fault /\ Goto("free")
    /\ written' = {} /\ Quiet /\ UNCHANGED <<sw, hw, call>>

\* Whether max_des_update_active() has nothing to do.
\* Mutant: the reprogramming due after a resume is forgotten.
ActiveSkipCached(act, expected) == act # expected \/ sw.active = act
ActiveSkip(act, expected) == act # expected \/ (~ sw.pending /\ sw.active = act)

(* max_des_update_active(masks, expected), going on to "next", or to       *)
(* "error" when set_enable() fails.                                        *)
UpdateActive(masks, expected, next, error) ==
    LET act  == masks.src # {}
        skip == ActiveSkip(act, expected)
    IN  /\ \/ skip /\ NoFault /\ Goto(next) /\ UNCHANGED <<sw, hw>>
           \/ /\ ~ skip /\ NoFault /\ Goto(next)
              /\ hw' = [hw EXCEPT !.out = act] /\ sw' = [sw EXCEPT !.active = act]
           \/ ~ skip /\ Fault /\ Goto(error) /\ UNCHANGED <<sw, hw>>
        /\ written' = {} /\ Quiet /\ UNCHANGED <<ser, call>>

StopOutput  == At("actOff") /\ UpdateActive(call.masks, FALSE, "links", "revSrc")
StartOutput == At("actOn") /\ UpdateActive(call.masks, TRUE, "srcOn", "revTpg")

----------------------------------------------------------------------------
(* max_des_update_links(): the pipes, link by link *)

Now == [sw |-> sw, hw |-> hw]

\* max_des_update_pipe_remaps() when every write succeeds.  Mutants: the
\* table is always rewritten; the new table is not remembered.
RemapsNeverSkipped(x, m, p) == FALSE
RemapsSkip(x, m, p) == ~ x.sw.pending /\ x.sw.known[p] /\ x.sw.remap[p] = m
AfterRemapsForgotten(x, m, p) ==
    IF RemapsSkip(x, m, p) THEN x
    ELSE [sw |-> [x.sw EXCEPT !.known[p] = TRUE], hw |-> [x.hw EXCEPT !.remap[p] = m]]
AfterRemaps(x, m, p) ==
    IF RemapsSkip(x, m, p) THEN x
    ELSE [sw |-> [x.sw EXCEPT !.remap[p] = m, !.known[p] = TRUE],
          hw |-> [x.hw EXCEPT !.remap[p] = m]]

(* And when one fails: the entries are written before the mask of enabled  *)
(* ones, so an old entry may be overwritten while it is still enabled.     *)
TornRemaps(m, p) == {hw.remap[p]} \cup (IF hw.remap[p] # {} /\ m # {} THEN {m} ELSE {})

\* max_des_update_pipe_enable() when every write succeeds.
EnableSkip(x, e, p) == ~ x.sw.pending /\ x.sw.en[p] = e
IdFor(x, masks, p) ==
    IF UniqueIds THEN x.sw.id[p]
    ELSE CHOOSE s \in Streams : \E r \in LiveOn(p, masks) : s = r.stream

\* Mutant: the link of a pipe is not programmed when it is enabled.
LinkKept(x, p) == x.hw
Linked(x, p) == IF HasPipeLink THEN [x.hw EXCEPT !.link[p] = linkOf[p]] ELSE x.hw
AfterLinkId(x, masks, p) ==
    [sw |-> [x.sw EXCEPT !.id[p] = IdFor(x, masks, p)],
     hw |-> [Linked(x, p) EXCEPT !.id[p] = IdFor(x, masks, p)]]
AfterEnable(x, masks, p) ==
    LET e == LiveOn(p, masks) # {}
        y == IF e THEN AfterLinkId(x, masks, p) ELSE x
    IN  IF EnableSkip(x, e, p) THEN x
        ELSE [sw |-> [y.sw EXCEPT !.en[p] = e], hw |-> [y.hw EXCEPT !.en[p] = e]]

\* What max_des_update_pipe() has reached when it fails, its own undoing made.
FailedPipe(masks, p) ==
    LET m == RemapsFor(p, masks)
        e == LiveOn(p, masks) # {}
        x == AfterRemaps(Now, m, p)
        y == AfterLinkId(x, masks, p)
        reached == IF e THEN {x, [x EXCEPT !.hw = Linked(x, p)],
                              [y EXCEPT !.hw.id = x.hw.id], y}
                   ELSE {x}
    IN  {[sw |-> sw, hw |-> [hw EXCEPT !.remap[p] = t]] :
            t \in IF RemapsSkip(Now, m, p) THEN {} ELSE TornRemaps(m, p)}
        \cup {AfterRemaps(z, RemapsFor(p, sw.on), p) :
                 z \in IF EnableSkip(x, e, p) THEN {} ELSE reached}

\* The order of the loops: by link, then by pipe.
LinkOrder(p, S) ==
    p \in S /\ \A q \in S : linkOf[p] < linkOf[q] \/ (linkOf[p] = linkOf[q] /\ p <= q)

Become(x) == sw' = x.sw /\ hw' = x.hw

Touched(masks, p) ==
    IF RemapsSkip(Now, RemapsFor(p, masks), p) /\ EnableSkip(Now, LiveOn(p, masks) # {}, p)
    THEN {} ELSE {p}

\* One pipe of an update towards "masks"; a failure goes back over the links.
UpdatePipe(masks) ==
    /\ ~ LoopEnds
    /\ \E p \in Pipes :
          /\ LinkOrder(p, Pipes \ call.done)
          /\ written' = Touched(masks, p)
          /\ \/ /\ Become(AfterEnable(AfterRemaps(Now, RemapsFor(p, masks), p), masks, p))
                /\ NoFault /\ Visit(p) /\ UNCHANGED stage
             \/ /\ \E x \in FailedPipe(masks, p) : Become(x)
                /\ Fault /\ Goto("undo")
                /\ call' = [call EXCEPT !.done = {}, !.limit = linkOf[p]]
    /\ Quiet /\ UNCHANGED ser

UpdateLinks == At("links") /\ UpdatePipe(call.masks)
LinksDone ==
    /\ At("links") /\ LoopEnds /\ Goto("tpg") /\ Rewind
    /\ written' = {} /\ NoFault /\ Quiet /\ UNCHANGED <<sw, hw, ser>>

(* The error loop of max_des_update_links(): the links before the failing  *)
(* one go back to the committed masks, a pipe that fails ends its link.    *)
ToUndo == {p \in Pipes \ call.done : linkOf[p] < call.limit}

UndoPipe ==
    /\ At("undo")
    /\ \E p \in Pipes :
          /\ LinkOrder(p, ToUndo)
          /\ written' = Touched(sw.on, p)
          /\ \/ /\ Become(AfterEnable(AfterRemaps(Now, RemapsFor(p, sw.on), p), sw.on, p))
                /\ NoFault /\ Visit(p)
             \/ /\ \E x \in FailedPipe(sw.on, p) : Become(x)
                /\ Fault /\ call' = [call EXCEPT !.done = @ \cup PipesOf(linkOf[p])]
    /\ Quiet /\ UNCHANGED <<ser, stage>>

UndoDone ==
    /\ At("undo") /\ ToUndo = {} /\ Goto("revActOn") /\ Rewind
    /\ written' = {} /\ NoFault /\ Quiet /\ UNCHANGED <<sw, hw, ser>>

\* max_des_update_tpg(masks)
UpdateTpg(masks, next, error) ==
    /\ \/ TpgFor(masks) = sw.tpg /\ NoFault /\ Goto(next) /\ UNCHANGED <<sw, hw>>
       \/ /\ TpgFor(masks) # sw.tpg /\ NoFault /\ Goto(next)
          /\ sw' = [sw EXCEPT !.tpg = TpgFor(masks)] /\ hw' = [hw EXCEPT !.tpg = TpgFor(masks)]
       \/ TpgFor(masks) # sw.tpg /\ Fault /\ Goto(error) /\ UNCHANGED <<sw, hw>>
    /\ written' = {} /\ Quiet /\ UNCHANGED <<ser, call>>

SetTpg == At("tpg") /\ UpdateTpg(call.masks, "actOn", "revLinks")

\* v4l2_subdev_enable_streams() on the serializers; a failure undoes itself.
EnableSources ==
    /\ At("srcOn")
    /\ \/ /\ ser' = IF call.enable THEN [ser EXCEPT !.on = @ \cup SourceStreams] ELSE ser
          /\ NoFault /\ Goto("commit")
       \/ call.enable /\ SourceStreams # {} /\ UNCHANGED ser /\ Fault /\ Goto("revActOff")
    /\ written' = {} /\ Quiet /\ UNCHANGED <<sw, hw, call>>

Commit ==
    /\ At("commit")
    /\ sw' = [sw EXCEPT !.on = call.masks, !.pending = FALSE]
    /\ Goto("off") /\ Return /\ call' = NoCall
    /\ written' = {} /\ NoFault /\ UNCHANGED <<hw, ser, desc, suspends, asleep>>

----------------------------------------------------------------------------
(* The error path: each label undoes one stage and falls to the next *)

\* Mutant: the output is left enabled when the sources cannot be started.
UndoActiveSkipped ==
    /\ At("revActOff") /\ Goto("revTpg")
    /\ written' = {} /\ NoFault /\ Quiet /\ UNCHANGED <<sw, hw, ser, call>>
UndoActiveEnable == At("revActOff") /\ UpdateActive(sw.on, FALSE, "revTpg", "revTpg")
UndoTpg == At("revTpg") /\ UpdateTpg(sw.on, "revLinks", "revLinks")
UndoLinks == At("revLinks") /\ UpdatePipe(sw.on)
UndoLinksDone ==
    /\ At("revLinks") /\ LoopEnds /\ Goto("revActOn") /\ Rewind
    /\ written' = {} /\ NoFault /\ Quiet /\ UNCHANGED <<sw, hw, ser>>
UndoActiveDisable == At("revActOn") /\ UpdateActive(sw.on, TRUE, "revSrc", "revSrc")
UndoSources ==
    /\ At("revSrc") /\ Goto("free")
    /\ \/ /\ ser' = IF call.enable THEN ser ELSE [ser EXCEPT !.on = @ \cup SourceStreams]
          /\ NoFault
       \/ ~ call.enable /\ SourceStreams # {} /\ UNCHANGED ser /\ Fault
    /\ written' = {} /\ Quiet /\ UNCHANGED <<sw, hw, call>>

\* The call returns its error; the committed masks are as they were.
GiveUp ==
    /\ At("free")
    /\ Goto("off") /\ Return /\ call' = NoCall
    /\ written' = {} /\ NoFault /\ UNCHANGED <<sw, hw, ser, desc, suspends, asleep>>

HandlerStep ==
    \/ StartWrites \/ SetPipePhy \/ PhysDone \/ SetPipeTunnel \/ SetSerModes \/ SetModes
    \/ SetPipeStreamId \/ IdsDone \/ DisableSources \/ StopOutput \/ UpdateLinks
    \/ LinksDone \/ SetTpg \/ StartOutput \/ EnableSources \/ Commit
    \/ UndoActiveEnable \/ UndoTpg \/ UndoLinks \/ UndoLinksDone \/ UndoPipe
    \/ UndoDone \/ UndoActiveDisable \/ UndoSources \/ GiveUp

StreamsNext ==
    \/ ChangeRouting \/ RerouteSerializer \/ StartGetDesc \/ EndGetDesc
    \/ StartUpdate \/ PopulateStep \/ Reject \/ Suspend \/ Resume
    \/ HandlerStep

StreamsSpec == StreamsInit /\ [][StreamsNext]_allVars
----------------------------------------------------------------------------
(* What the receiver sees: the streams that physically leave the chip *)

\* The sources that send: serializer streams, and the pattern generator.
Sending == ser.on \cup (IF hw.tpg THEN {<<Tpg, 0>>} ELSE {})

SentVc(x) == SrcVc([sink |-> x[1], stream |-> x[2]])

(* A pipe takes the stream with its id that comes from its link, in the    *)
(* mode it is in; a chip whose stream ids are unique does not look at the  *)
(* link; the test pattern reaches every pipe.                              *)
Enters(x, p) ==
    /\ hw.en[p]
    /\ x[1] # Tpg =>
          /\ ser.id[x] = hw.id[p]
          /\ UniqueIds \/ hw.link[p] = x[1]
          /\ hw.tunnel[p] = (ser.mode[x[1]] = "tunnel")

\* Where a pipe sends a source VC: through its remap entry, or as it came.
Exits(p, v) ==
    IF hw.tunnel[p] THEN {<<hw.tun[p], v>>}
    ELSE LET hits == {m \in hw.remap[p] : m.src = v}
         IN  IF hits = {} THEN {<<hw.ctrl[p], v>>} ELSE {<<m.phy, m.dst>> : m \in hits}

Image(x, o) == [sink |-> x[1], stream |-> x[2], phy |-> o[1], vc |-> o[2]]

Delivered ==
    IF ~ hw.out THEN {}
    ELSE UNION {{Image(c[1], o) : o \in {e \in Exits(c[2], SentVc(c[1])) : e[1] \in EnabledPhys}} :
                   c \in {b \in Sending \X Pipes : Enters(b[1], b[2])}}

\* What the routing table and the VC map of the running call promise.
Promised(masks) ==
    {Image(<<r.sink, r.stream>>,
           <<r.phy, CHOOSE v \in Vcs : \E p \in Pipes : CarriedBy(r, p) /\ v = DstVc(p, r)>>) :
        r \in {x \in Live(masks) : <<x.sink, x.stream>> \in Sending}}

----------------------------------------------------------------------------
(* Properties *)

StreamsTypeOK ==
    /\ sw.on \in [sink : SUBSET (Sinks \X Streams), src : SUBSET (EnabledPhys \X Nat)]
    /\ sw.phy \in [Pipes -> Phys \cup {NoPhy}] /\ sw.id \in [Pipes -> Nat]
    /\ {sw.active, sw.pending, sw.tpg, hw.out, hw.tpg, asleep} \subseteq BOOLEAN
    /\ {sw.prog, sw.known, sw.en, hw.en, hw.tunnel} \subseteq [Pipes -> BOOLEAN]
    /\ hw.link \in [Pipes -> Links] /\ hw.id \in [Pipes -> Nat]
    /\ {hw.ctrl, hw.tun} \subseteq [Pipes -> Phys \cup {NoPhy}]
    /\ ser.mode \in [Enabled -> Modes] /\ ser.on \subseteq Enabled \X Streams
    /\ written \subseteq Pipes /\ faults \in 0 .. MaxFaults /\ suspends \in 0 .. MaxSuspends

(* Two streams never leave on one virtual channel of one PHY, at no step   *)
(* of an update, of its error path, or of the first update after a resume: *)
(* the sources are stopped before their pipes are torn down and started    *)
(* after they are set up (order of the calls in max_des_update_streams()). *)
NoCollision ==
    \A a, b \in Delivered :
        a.phy = b.phy /\ a.vc = b.vc => <<a.sink, a.stream>> = <<b.sink, b.stream>>

(* When an update succeeds, every stream that is on and sends arrives on   *)
(* the PHY and VC of the routing, and nothing else does, whatever failed   *)
(* updates, other routings and suspends have left in registers and caches. *)
(* Two things are known to break it: a failed update that leaves a pipe    *)
(* enabled which another routing gives to another link (PipeLinkMatches),  *)
(* and a change of mode on a chip without an unused PHY                    *)
(* (RoutingRegisterMatches).                                               *)
CommitDelivers == At("commit") => Delivered = Promised(call.masks)

(* An update, successful or not, does not interrupt the streams it is not  *)
(* about: not when the output is switched, not when pipes are rewritten.   *)
SiblingsFlow ==
    [][\A a \in Delivered :
          (stage # "off" \/ stage' # "off") /\ <<a.sink, a.stream>> \notin SinksOf(Requested)
            => a \in Delivered']_allVars

(* The output registers of a pipe in which a stream flows that the call is *)
(* not about are only written to reprogram everything after a resume: a    *)
(* rewrite would disturb the packets in flight ("That glitch corrupts the  *)
(* sibling's in-flight packets", max_des_update_pipe_remaps()).            *)
NoGlitch ==
    [][~ sw.pending /\ hw.out =>
          \A p \in written' : \A x \in Sending :
              Enters(x, p) => x \in SinksOf(Requested)]_allVars

(* Between calls the outputs are on exactly when a stream is: set_routing  *)
(* is refused while one flows, and is not refused for ever after.  One     *)
(* failing call cannot break it; the error path ignores a second one.      *)
MasksActive == Idle => sw.active = (sw.on.src # {})

(* The abstract switch of StreamSwitch is implemented, failed calls, the   *)
(* error path and suspends included: the streams of the running call are   *)
(* those it writes registers for, the flowing ones those that arrive.      *)
Switched == INSTANCE StreamSwitch WITH
    Stream  <- Sinks \X Streams,
    on      <- sw.on.sink,
    flowing <- {<<a.sink, a.stream>> : a \in Delivered},
    asked   <- IF stage = "off" THEN {} ELSE SinksOf(Requested)

ImplementsSwitch == Switched!SwitchSpec

(* Between calls the caches that let the driver skip writes tell the truth *)
(* of the registers, unless a reprogramming is due.                        *)
CachesSound ==
    Idle /\ ~ sw.pending =>
        /\ \A p \in Pipes : sw.known[p] => hw.remap[p] = sw.remap[p]
        /\ hw.en = sw.en /\ hw.tpg = sw.tpg /\ hw.out = sw.active

(* "Skip rewriting the pipe->PHY routing register when it is already       *)
(* programmed to this PHY": when max_des_set_pipes_phy() is done, the      *)
(* register of the chosen mode holds the PHY of every pipe that has one.   *)
RoutingRegisterMatches ==
    At("tunnel") => \A p \in Pipes : PhyFor(p) # NoPhy =>
        /\ mode = "tunnel" /\ HasTunnelPhy => hw.tun[p] = PhyFor(p)
        /\ mode = "pixel" /\ HasPipePhy => hw.ctrl[p] = PhyFor(p)

(* "ensure the hardware link and stream_id registers match the software    *)
(* state ... when a pipe has been dynamically reassigned to a different    *)
(* link" (max_des_update_pipe_enable()): a pipe that an update has enabled *)
(* listens to the link the driver believes it does.  Not so for a pipe     *)
(* that a failed update left enabled before the routing gave it to another *)
(* link: the shortcut of max_des_update_pipe_enable() skips its link.      *)
PipeLinkMatches ==
    At("commit") /\ ~ UniqueIds => \A p \in Pipes : hw.en[p] => hw.link[p] = linkOf[p]

(* A frame descriptor tells the VCs on which the streams then arrive, as   *)
(* long as neither the routing nor a serializer changes ("the correct      *)
(* post-remap VC even before enable_streams() is called", max_ser.c).      *)
(* max_des.c breaks it: the descriptor is computed on the assignments that *)
(* the calls before it have left, the update on assignments of its own.    *)
FrameDescKept ==
    At("commit") => \A q \in desc : \A r \in RouteSet : \A a \in Delivered :
        r.phy = q.phy /\ r.source = q.source /\ <<a.sink, a.stream>> = <<r.sink, r.stream>>
            => a.vc = q.vc
=============================================================================
