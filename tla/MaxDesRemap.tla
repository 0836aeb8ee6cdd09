---------------------------- MODULE MaxDesRemap ----------------------------
(***************************************************************************)
(* How the GMSL2 deserializer framework (max_des.c) turns a routing table  *)
(* into an assignment of video pipes and of CSI-2 virtual channels.        *)
(*                                                                         *)
(* The computation is max_des_populate_remap_context().  Two callers run   *)
(* it under the active state lock: update_streams() after it has rebuilt   *)
(* the pipe assignments from scratch, and get_frame_desc() on whatever     *)
(* assignments the previous call has left behind.  It walks the active     *)
(* routes twice: a usage pass gives every route a pipe (searching,         *)
(* claiming or stealing one), a mapping pass gives every source virtual    *)
(* channel a destination virtual channel on its PHY.  Every route of a     *)
(* pass is one step, so that what holds between two routes can be stated.  *)
(***************************************************************************)
EXTENDS Integers, Sequences, FiniteSets

CONSTANTS
    NumLinks,     \* des->ops->num_links
    NumPipes,     \* des->ops->num_pipes
    NumPhys,      \* des->ops->num_phys
    NumStreams,   \* MAX_SERDES_STREAMS_NUM
    NumVcs,       \* MAX_SERDES_VC_ID_NUM
    Enabled,      \* links with an endpoint, hence with a bound serializer
    DesModes,     \* des->ops->modes
    TpgMode,      \* des->ops->tpg_mode
    DesVcRemap,   \* whether des->ops->set_pipe_vc_remap exists
    SerModes,     \* modes of the serializer of each enabled link
    SerVcRemap,   \* enabled links whose serializer implements set_vc_remap
    Routings,     \* the routing tables user space may install
    FrameDescs    \* what the serializers may report, see SrcVc

Links   == 0 .. NumLinks - 1
Pipes   == 0 .. NumPipes - 1
Phys    == 0 .. NumPhys - 1
Streams == 0 .. NumStreams - 1
Vcs     == 0 .. NumVcs - 1
Modes   == {"pixel", "tunnel"}

Tpg        == NumLinks     \* the sink pad of the test pattern generator
Unassigned == -1           \* pipe->assigned_stream of a free pipe
NoEntry    == -1           \* the serializer reports no such stream

Sinks  == Links \cup {Tpg}
Route  == [sink : Sinks, stream : Streams, phy : Phys, source : Nat]
VcMap  == [pipe : Pipes, phy : Phys, src : Vcs, dst : Vcs]

\* A reported channel may also be one the driver has no room for (NumVcs).
Reported == Vcs \cup {NumVcs, NoEntry}

(***************************************************************************)
(* What v4l2_subdev_routing_validate() and max_serdes_validate_tpg_routing *)
(* leave of the routing tables: streams are connected one to one, all the  *)
(* streams of a sink pad leave through the same source pad, and a test     *)
(* pattern route is the only route.                                        *)
(***************************************************************************)
ValidRouting(r) ==
    /\ \A m, n \in DOMAIN r : m # n =>
          /\ <<r[m].sink, r[m].stream>> # <<r[n].sink, r[n].stream>>
          /\ <<r[m].phy, r[m].source>> # <<r[n].phy, r[n].source>>
          /\ r[m].sink = r[n].sink => r[m].phy = r[n].phy
    /\ \A n \in DOMAIN r : r[n].sink = Tpg => Len(r) = 1 /\ r[n].stream = 0

ASSUME SizesAssumption ==
    /\ NumLinks \in Nat \ {0} /\ NumPhys \in Nat \ {0}
    /\ NumStreams \in Nat \ {0} /\ NumVcs \in Nat \ {0}
    /\ NumPipes \in Nat /\ NumLinks <= NumPipes

ASSUME ChipAssumption ==
    /\ Enabled \subseteq Links
    /\ DesModes \subseteq Modes /\ TpgMode \in Modes /\ DesVcRemap \in BOOLEAN
    /\ SerModes \in [Enabled -> SUBSET Modes]
    /\ SerVcRemap \subseteq Enabled

ASSUME InputAssumption ==
    /\ Routings \subseteq {r \in Seq(Route) : ValidRouting(r)}
    /\ FrameDescs \subseteq [Links \X Streams -> Reported]

VARIABLES
    routing,    \* the active routes, in table order
    fd,         \* frame descriptors: the VC of each stream of each link
    linkOf,     \* pipe->link_id
    strm,       \* pipe->assigned_stream
    pc,         \* where the running call is; "idle" when none runs
    fresh,      \* the running call is update_streams(), which reset first
    i,          \* the route the running pass is at
    inUse,      \* context->pipe_in_use
    modes,      \* the modes found by max_des_get_supported_modes()
    dstVcs,     \* context->dst_vc_ids_masks
    vcMap,      \* context->vc_ids_map and vc_ids_masks, as a relation
    remapped,   \* context->vc_ids_remapped
    mode,       \* context->mode
    err         \* why the call failed, "none" otherwise

input   == <<routing, fd>>
assign  == <<linkOf, strm>>
context == <<inUse, modes, dstVcs, vcMap, remapped, mode>>
vars    == <<input, assign, pc, fresh, i, context, err>>

----------------------------------------------------------------------------
(* Reading the state *)

IsLowest(p, S) == p \in S /\ \A q \in S : p <= q

PipesOf(l)     == {p \in Pipes : linkOf[p] = l}
Assigned(l, s) == {p \in PipesOf(l) : strm[p] = s}
Free(l)        == Assigned(l, Unassigned)
Spare(l)       == {p \in Pipes : linkOf[p] # l /\ strm[p] = Unassigned}

\* The three searches of max_des_find_link_pipe(), in their order.  Mutants:
\* without the search for the stream; stealing first; without stealing.
CandidatesAgain(l, s) == IF Free(l) # {} THEN Free(l) ELSE Spare(l)
CandidatesStealFirst(l, s) ==
    IF Assigned(l, s) # {} THEN Assigned(l, s)
    ELSE IF Spare(l) # {} THEN Spare(l) ELSE Free(l)
CandidatesNoSteal(l, s) == IF Assigned(l, s) # {} THEN Assigned(l, s) ELSE Free(l)
Candidates(l, s) ==
    IF Assigned(l, s) # {} THEN Assigned(l, s)
    ELSE IF Free(l) # {} THEN Free(l) ELSE Spare(l)

\* The pipe that carries a route whose pipe has been found.  Mutant: it is
\* looked up by link only.
CarriedByLink(r, p) == IF r.sink = Tpg THEN p = 0 ELSE IsLowest(p, PipesOf(r.sink))
CarriedBy(r, p) ==
    IF r.sink = Tpg THEN p = 0 ELSE IsLowest(p, Assigned(r.sink, r.stream))

\* The source VC of a route; a link without a serializer reads as zeros.
SrcVc(r) == IF r.sink \in Enabled THEN fd[<<r.sink, r.stream>>] ELSE 0

HasTpg == \E n \in DOMAIN routing : routing[n].sink = Tpg

PhysOf(p) == {h \in Phys : \E m \in vcMap : m.pipe = p /\ m.phy = h}

\* The links the mode decisions look at, each with the one pipe they ask:
\* the lowest pipe of the link, provided a route uses it.
Consulted == {c \in Enabled \X Pipes : IsLowest(c[2], PipesOf(c[1])) /\ c[2] \in inUse}

SupportedModes ==
    {m \in (IF HasTpg THEN {TpgMode} ELSE DesModes) :
        \A c \in Consulted : m \in SerModes[c[1]]}

KeepVc(r) == modes # {"pixel"} /\ ~DesVcRemap /\ r.sink \notin SerVcRemap

CanTunnel ==
    \A c \in Consulted :
        /\ \E h \in Phys : PhysOf(c[2]) = {h}
        /\ c[2] \in remapped => c[1] \in SerVcRemap \/ DesVcRemap

\* The destination VC a mapping takes: the same one, or the lowest free one.
\* Mutant: the same one whenever VCs are to be kept.
IsDstVcKept(v, r) == IF KeepVc(r) THEN v = SrcVc(r) ELSE IsLowest(v, Vcs \ dstVcs[r.phy])
IsDstVc(v, r) ==
    IF KeepVc(r) /\ SrcVc(r) \notin dstVcs[r.phy]
    THEN v = SrcVc(r)
    ELSE IsLowest(v, Vcs \ dstVcs[r.phy])

IsMapped(p, h, s) == \E m \in vcMap : m.pipe = p /\ m.phy = h /\ m.src = s

----------------------------------------------------------------------------
(* The steps *)

NoVcs    == [h \in Phys |-> {}]
\* The links of max_des_reset_pipe_assignments().  Mutant: without the modulo.
HomeLinkByIndex == [p \in Pipes |-> p]
HomeLink == [p \in Pipes |-> p % NumLinks]

AllFree  == [p \in Pipes |-> Unassigned]

Init ==
    /\ routing \in Routings /\ fd \in FrameDescs
    /\ linkOf = HomeLink /\ strm = AllFree
    /\ pc = "idle" /\ fresh = FALSE /\ i = 1 /\ err = "none"
    /\ inUse = {} /\ modes = {} /\ dstVcs = NoVcs
    /\ vcMap = {} /\ remapped = {} /\ mode = "pixel"

\* set_routing(): the new table does not touch the pipe assignments.
SetRouting ==
    /\ pc = "idle"
    /\ routing' \in Routings
    /\ UNCHANGED <<fd, assign, pc, fresh, i, context, err>>

\* A serializer is reconfigured and reports other channels from now on.
ChangeFrameDesc ==
    /\ pc = "idle"
    /\ fd' \in FrameDescs
    /\ UNCHANGED <<routing, assign, pc, fresh, i, context, err>>

Begin ==
    /\ pc = "idle"
    /\ pc' = "usage" /\ i' = 1
    /\ UNCHANGED <<input, context, err>>

\* max_des_update_streams(): max_des_reset_pipe_assignments() comes first.
BeginUpdate  == Begin /\ fresh' = TRUE /\ linkOf' = HomeLink /\ strm' = AllFree

\* max_des_get_frame_desc(): no reset.
BeginGetDesc == Begin /\ fresh' = FALSE /\ UNCHANGED assign

Fail(why) == pc' = "failed" /\ err' = why

\* One route of max_des_populate_remap_usage() that is the test pattern.
UseTpg ==
    /\ pc = "usage" /\ i <= Len(routing) /\ routing[i].sink = Tpg
    /\ inUse' = inUse \cup {0}
    /\ i' = i + 1
    /\ UNCHANGED <<input, assign, pc, fresh, modes, dstVcs, vcMap, remapped, mode, err>>

(* One route that comes from a link: claim its pipe, then look its stream *)
(* up in the frame descriptor; the claim stays when the look-up fails.    *)
UseLink ==
    /\ pc = "usage" /\ i <= Len(routing) /\ routing[i].sink # Tpg
    /\ \E p \in Pipes :
          /\ IsLowest(p, Candidates(routing[i].sink, routing[i].stream))
          /\ linkOf' = [linkOf EXCEPT ![p] = routing[i].sink]
          /\ strm' = [strm EXCEPT ![p] = routing[i].stream]
          /\ IF SrcVc(routing[i]) = NoEntry
             THEN Fail("noStream") /\ UNCHANGED <<i, inUse>>
             ELSE i' = i + 1 /\ inUse' = inUse \cup {p} /\ UNCHANGED <<pc, err>>
    /\ UNCHANGED <<input, fresh, modes, dstVcs, vcMap, remapped, mode>>

(* No pipe is left for the route, -ENOENT; or the test pattern has a frame *)
(* interval that no table entry has, -EINVAL: max_des_set_frame_interval() *)
(* looks for the reciprocal of the interval it stores.                     *)
UseNothing ==
    /\ pc = "usage" /\ i <= Len(routing)
    /\ \/ /\ routing[i].sink # Tpg
          /\ Candidates(routing[i].sink, routing[i].stream) = {}
          /\ Fail("noPipe")
       \/ routing[i].sink = Tpg /\ Fail("noStream")
    /\ UNCHANGED <<input, assign, fresh, i, context>>

\* max_des_get_supported_modes(), between the two passes.
FindModes ==
    /\ pc = "usage" /\ i > Len(routing)
    /\ modes' = SupportedModes
    /\ IF SupportedModes = {} THEN Fail("noMode") ELSE pc' = "map" /\ UNCHANGED err
    /\ i' = 1
    /\ UNCHANGED <<input, assign, fresh, inUse, dstVcs, vcMap, remapped, mode>>

\* One route of the mapping pass: max_des_map_src_dst_vc_id().
MapVc ==
    /\ pc = "map" /\ i <= Len(routing)
    /\ \E p \in Pipes : CarriedBy(routing[i], p) /\
          LET r == routing[i]
          IN  /\ SrcVc(r) \in Vcs
              /\ \/ IsMapped(p, r.phy, SrcVc(r)) /\ UNCHANGED <<dstVcs, vcMap, remapped>>
                 \/ /\ ~ IsMapped(p, r.phy, SrcVc(r))
                    /\ \E v \in Vcs :
                          /\ IsDstVc(v, r)
                          /\ dstVcs' = [dstVcs EXCEPT ![r.phy] = @ \cup {v}]
                          /\ vcMap' = vcMap \cup
                                {[pipe |-> p, phy |-> r.phy, src |-> SrcVc(r), dst |-> v]}
                          /\ remapped' = IF v = SrcVc(r) THEN remapped ELSE remapped \cup {p}
    /\ i' = i + 1
    /\ UNCHANGED <<input, assign, pc, fresh, inUse, modes, mode, err>>

(* The source VC is out of range, or every VC of the PHY is taken and the *)
(* route still needs one: -E2BIG.                                         *)
MapTooBig ==
    /\ pc = "map" /\ i <= Len(routing)
    /\ \E p \in Pipes : CarriedBy(routing[i], p) /\
          LET r == routing[i]
          IN  \/ SrcVc(r) \notin Vcs
              \/ /\ ~ IsMapped(p, r.phy, SrcVc(r))
                 /\ Vcs \subseteq dstVcs[r.phy]
    /\ Fail("tooBig")
    /\ UNCHANGED <<input, assign, fresh, i, context>>

\* max_des_populate_remap_context_mode(), after the mapping pass.
ChooseMode ==
    /\ pc = "map" /\ i > Len(routing)
    /\ mode' = IF modes # {"pixel"} /\ CanTunnel THEN "tunnel" ELSE "pixel"
    /\ pc' = "populated"
    /\ UNCHANGED <<input, assign, fresh, i, inUse, modes, dstVcs, vcMap, remapped, err>>

\* The caller returns: the context was on its stack.
Return ==
    /\ pc \in {"populated", "failed"}
    /\ pc' = "idle" /\ fresh' = FALSE /\ i' = 1 /\ err' = "none"
    /\ inUse' = {} /\ modes' = {} /\ dstVcs' = NoVcs
    /\ vcMap' = {} /\ remapped' = {} /\ mode' = "pixel"
    /\ UNCHANGED <<input, assign>>

Populate == UseTpg \/ UseLink \/ UseNothing \/ FindModes
            \/ MapVc \/ MapTooBig \/ ChooseMode

Next == SetRouting \/ ChangeFrameDesc \/ BeginUpdate \/ BeginGetDesc \/ Populate \/ Return

Spec == Init /\ [][Next]_vars
----------------------------------------------------------------------------
(* Properties *)

(* Every variable stays in its range.                                      *)
TypeOK ==
    /\ routing \in Routings /\ fd \in FrameDescs
    /\ linkOf \in [Pipes -> Links] /\ strm \in [Pipes -> Streams \cup {Unassigned}]
    /\ pc \in {"idle", "usage", "map", "populated", "failed"}
    /\ fresh \in BOOLEAN /\ i \in 1 .. Len(routing) + 1
    /\ inUse \subseteq Pipes /\ modes \subseteq Modes /\ mode \in Modes
    /\ dstVcs \in [Phys -> SUBSET Vcs] /\ vcMap \subseteq VcMap
    /\ remapped \subseteq Pipes
    /\ err \in {"none", "noStream", "noPipe", "noMode", "tooBig"}

(* No two pipes are ever assigned the same stream of the same link: what   *)
(* the first search of max_des_find_link_pipe() finds is the only one,     *)
(* whatever was claimed or stolen before, and by whichever caller.         *)
PipeNotShared ==
    \A p, q \in Pipes :
        strm[p] # Unassigned /\ strm[p] = strm[q] /\ linkOf[p] = linkOf[q] => p = q

(* A link's assigned pipes come before its free ones, so the pipe that     *)
(* max_des_find_link_pipe(link, -1) returns is an assigned one whenever    *)
(* the link has any: max_des_link_to_hw() asks no idle pipe about a link   *)
(* that carries a stream.                                                  *)
LowestPipeSpeaks ==
    \A p, q \in Pipes :
        linkOf[p] = linkOf[q] /\ strm[p] # Unassigned /\ strm[q] = Unassigned => p < q

(* Two source channels never get the same virtual channel of a PHY, and a  *)
(* source channel never gets two: what max_des_map_src_dst_vc_id() hands   *)
(* out lets the receiver tell the streams apart.                           *)
VcsDistinct ==
    \A m, n \in vcMap :
        m.phy = n.phy /\ (m.dst = n.dst \/ <<m.pipe, m.src>> = <<n.pipe, n.src>>) => m = n

(* The VC masks of the PHYs are exactly the channels the map uses, so -E2BIG *)
(* is only returned for a PHY whose channels are really all carried.       *)
MasksExact == \A h \in Phys : dstVcs[h] = {m.dst : m \in {n \in vcMap : n.phy = h}}

(* Stealing never depletes the pipes: after a reset, an update fails for   *)
(* want of a pipe only when the table has more routes than the chip has    *)
(* pipes (the comment in max_des_find_link_pipe() tells of the restart     *)
(* that failed for the second stream of a link).                           *)
NeverDepleted == fresh /\ err = "noPipe" => Len(routing) > NumPipes

(* Every link that carries a route of an update has its say in the choice  *)
(* of the mode: max_des_get_supported_modes() skips no serializer in use.  *)
EveryLinkConsulted ==
    fresh /\ pc = "map" =>
        \A n \in DOMAIN routing :
            routing[n].sink \in Enabled => \E p \in Pipes : <<routing[n].sink, p>> \in Consulted

(* A populated pipe carries one stream to one PHY, so a remap table never  *)
(* has to hold two streams and a tunnelled pipe has one destination.       *)
OneStreamPerPipe == \A m, n \in vcMap : m.pipe = n.pipe => m = n
=============================================================================
