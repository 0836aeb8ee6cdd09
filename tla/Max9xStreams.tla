---------------------------- MODULE Max9xStreams ----------------------------
(***************************************************************************)
(* Starting and stopping streams in the max9x driver (max9x/serdes.c) on   *)
(* its deserializers (max9296.c, max96724.c) and serializers (max9295.c,   *)
(* max96717.c), with the CSI port they share, routing, suspend and resume. *)
(*                                                                         *)
(* Platform data gives each link a pipe of its own with three maps, all to *)
(* the one CSI port of the board.  A map remembers whether it holds the    *)
(* port (is_csi_enabled), the port counts its holders (usecount) and its   *)
(* PHY runs while there are any.                                           *)
(*                                                                         *)
(* Stream handlers and routing run under the lock of the subdevice's       *)
(* active state, and suspend and resume have the system to themselves, so  *)
(* each is one step: it takes the context c through its calls in order.    *)
(* One call may fail, once or every time, c.op and c.left; c.err is the    *)
(* return value.  A write that fails does not reach the chip.              *)
(***************************************************************************)
EXTENDS Integers, FiniteSets

CONSTANTS
    Scenes,      \* deserializers with the routings user space may set
    MaxFaults,   \* bound on the failing calls
    MaxNaps      \* bound on the suspends

SerialLinks == 0 .. 3   \* MAX96724_NUM_SERIAL_LINKS; a MAX9296 has two of them
Maps        == 0 .. 2   \* num_maps of parse_serdes_pdata()

\* The routings the core accepts lead each source stream to a link's stream of
\* its own (V4L2_SUBDEV_ROUTING_ONLY_1_TO_1).
ValidRouting(r, links) ==
    /\ \A s \in DOMAIN r : r[s] \in links \X Nat
    /\ \A s, t \in DOMAIN r : r[s] = r[t] => s = t

ASSUME SceneAssumption ==
    \A x \in Scenes :
        /\ x.chip \in {"max9296", "max96724"} /\ x.links \in SUBSET SerialLinks
        /\ \A r \in x.routings \cup {x.default} : ValidRouting(r, x.links)

VARIABLES
    scene,     \* the chip, the links and the routings
    routing,   \* source stream -> <<link, stream>>, the deserializer's routes
    started,   \* source streams the core has enabled on the deserializer
    c,         \* driver memory, registers, serializers and cameras, see Reset
    asleep,
    cut,       \* streams an ended sibling or a sleep may have interrupted
    torn,      \* the routing was replaced under running streams
    faults, naps

vars == <<scene, routing, started, c, asleep, cut, torn, faults, naps>>

Links == scene.links
LinkOf(s) == routing[s][1]

----------------------------------------------------------------------------
(* The context *)

Reset ==
    [phy     |-> FALSE,   \* the PHY of the CSI port is on
     count   |-> 0,       \* csi_link.usecount
     flags   |-> {},      \* <<link, map>> with is_csi_enabled
     pipes   |-> {},      \* links whose pipe and maps are on
     up      |-> {},      \* serial_link[].regulator_enabled
     enabled |-> Links,   \* serial_link[].enabled
     bound   |-> {},      \* links whose serializer was probed
     ser     |-> {},      \* links whose serializer transmits its pipe
     cams    |-> {},      \* links whose camera the core has started
     serOn   |-> {},      \* <<link, stream>> enabled on the serializers
     spoiled |-> FALSE,   \* a failure of the CSI port was only logged
     err |-> FALSE, op |-> "none", left |-> 0]

Ops == {"phyOn", "phyOff", "dpllOff", "pipeOn", "pipeOff", "lock",
        "configure", "wake", "camera"}

Try(d, op, done) ==
    IF d.err THEN d
    ELSE IF d.op = op /\ d.left > 0 THEN [d EXCEPT !.err = TRUE, !.left = @ - 1]
    ELSE done

\* A call made in a context that is computed once.
In(Call(_), d) == CHOOSE e \in {Call(x) : x \in {d}} : TRUE

\* The loops over the maps of a pipe and over the serial links there are.
EachMap(Call(_, _), d) == Call(Call(Call(d, 0), 1), 2)

OnLink(Call(_, _), d, l) == IF l \in Links THEN In(LAMBDA x : Call(x, l), d) ELSE d
EachLink(Call(_, _), d) ==
    OnLink(Call, OnLink(Call, OnLink(Call, OnLink(Call, d, 0), 1), 2), 3)

Failed(d)  == [d EXCEPT !.err = TRUE]
Ignored(d) == [d EXCEPT !.err = FALSE]

\* The outcomes of a handler: without a failure, with a call that fails once,
\* and with one that always fails.  Failures that are not met do not count.
Always == 99
Faulty(op, n) == [c EXCEPT !.op = op, !.left = n, !.err = FALSE]
Settled(d) == [d EXCEPT !.err = FALSE, !.op = "none", !.left = 0]
Chances == {<<"none", 0>>}
    \cup (IF faults < MaxFaults THEN Ops \X {1, Always} ELSE {})
Counted(x, d) ==
    /\ x[1] = "none" \/ d.left < x[2]
    /\ faults' = faults + (IF x[1] = "none" THEN 0 ELSE 1)

----------------------------------------------------------------------------
(* The CSI port: set_csi_link_enabled() of both chips *)

CsiOn(d) ==
    LET e == IF d.count = 0 THEN Try(d, "phyOn", [d EXCEPT !.phy = TRUE]) ELSE d
    IN  IF e.err THEN e ELSE [e EXCEPT !.count = @ + 1]

\* The MAX9296 turns its PLL off after the PHY: when that fails the last user
\* stays counted although the PHY is off.
PhyOff(d) ==
    LET e == Try(d, "phyOff", [d EXCEPT !.phy = FALSE])
    IN  IF scene.chip = "max9296" THEN Try(e, "dpllOff", e) ELSE e

\* Mutant: the first map that leaves takes the PHY with it.
CsiOffAtOnce(d) ==
    LET e == IF d.count > 0 THEN PhyOff(d) ELSE d
    IN  IF e.err THEN e ELSE [e EXCEPT !.count = IF @ > 0 THEN @ - 1 ELSE 0]

CsiOff(d) ==
    LET e == IF d.count = 1 THEN PhyOff(d) ELSE d
    IN  IF e.err THEN e ELSE [e EXCEPT !.count = IF @ > 0 THEN @ - 1 ELSE 0]

\* max9x_des_s_csi_link(), for every map of the link's pipe and whatever other
\* streams of the link are on.  A failure is a warning, the flag is changed
\* all the same.  Mutant: the flag is only ever set.
MapCsiSticky(d, l, m, on) ==
    IF on = (<<l, m>> \in d.flags) THEN d
    ELSE LET e == IF on THEN CsiOn(d) ELSE CsiOff(d)
         IN  [e EXCEPT !.flags = @ \cup {<<l, m>>}, !.err = FALSE,
                       !.spoiled = @ \/ e.err]

MapCsi(d, l, m, on) ==
    IF on = (<<l, m>> \in d.flags) THEN d
    ELSE LET e == IF on THEN CsiOn(d) ELSE CsiOff(d)
         IN  [e EXCEPT !.flags = IF on THEN @ \cup {<<l, m>>} ELSE @ \ {<<l, m>>},
                       !.err = FALSE, !.spoiled = @ \/ e.err]

LinkCsi(d, l, on) == EachMap(LAMBDA x, m : MapCsi(x, l, m, on), d)

----------------------------------------------------------------------------
(* Streams *)

\* max9x_get_corresponding_pad_and_stream() on a serializer, whose routing is
\* the default of max9x_init_state() or one with a second stream.
SerRouted(r) == r[2] \in scene.serStreams

\* _max9x_s_remote_stream(), the serializer's half included: the core refuses
\* a stream that is in the state asked for, starts a camera once, and takes
\* the stop of a camera for done.
RemoteOn(d, r) ==
    IF r[1] \notin d.bound \/ r \in d.serOn \/ ~SerRouted(r) THEN Failed(d)
    ELSE LET e == IF r[1] \in d.cams THEN d
                  ELSE IF r[1] \notin d.ser THEN Failed(d)
                  ELSE Try(d, "camera", [d EXCEPT !.cams = @ \cup {r[1]}])
         IN  IF e.err THEN e ELSE [e EXCEPT !.serOn = @ \cup {r}]

RemoteOff(d, r) ==
    IF r[1] \notin d.bound \/ r \notin d.serOn \/ ~SerRouted(r) THEN Failed(d)
    ELSE [d EXCEPT !.cams = @ \ {r[1]}, !.serOn = @ \ {r}]

\* _max9x_des_set_stream(): the port before the camera on the way up, and left
\* on when the camera fails; after it on the way down.
StreamOn(d, r) == RemoteOn(LinkCsi(d, r[1], TRUE), r)
StreamOff(d, r) ==
    LET e == RemoteOff(d, r) IN IF e.err THEN e ELSE LinkCsi(e, r[1], FALSE)

----------------------------------------------------------------------------
(* Serial links *)

\* set_serial_link_routing(): the MAX96724 takes the port for every map.
TakeMap(d, l, m) ==
    IF d.err \/ <<l, m>> \in d.flags THEN d
    ELSE LET e == CsiOn(d) IN
         IF e.err THEN e ELSE [e EXCEPT !.flags = @ \cup {<<l, m>>}]
Take(d, l) == EachMap(LAMBDA x, m : TakeMap(x, l, m), d)

Routed9296(d, l)  == Try(d, "pipeOn", [d EXCEPT !.pipes = @ \cup {l}])
Routed96724(d, l) ==
    LET e == Take(d, l) IN Try(e, "pipeOn", [e EXCEPT !.pipes = @ \cup {l}])

\* enable_serial_link(): the MAX9296 waits for the lock of the link before it
\* routes its pipe, the MAX96724 afterwards.
Enable9296(d, l)  == Routed9296(Try(d, "lock", d), l)
Enable96724(d, l) == LET e == Routed96724(d, l) IN Try(e, "lock", e)

\* disable_serial_link(): an error leaves the remaining maps on the port.
GiveMap(d, l, m) ==
    IF d.err \/ <<l, m>> \notin d.flags THEN d
    ELSE LET e == CsiOff(d) IN
         IF e.err THEN e ELSE [e EXCEPT !.flags = @ \ {<<l, m>>}]
Disable9296(d, l) ==
    EachMap(LAMBDA x, m : GiveMap(x, l, m), Try(d, "pipeOff", [d EXCEPT !.pipes = @ \ {l}]))

\* It also takes the link down.
Disable96724(d, l) == LET e == Disable9296(d, l) IN Try(e, "lock", e)

ChipEnable(d, l)  == IF scene.chip = "max9296" THEN Enable9296(d, l) ELSE Enable96724(d, l)
ChipDisable(d, l) == IF scene.chip = "max9296" THEN Disable9296(d, l) ELSE Disable96724(d, l)

\* max9x_enable_serial_link() and max9x_disable_serial_link().
EnableLink(d, l) == ChipEnable([d EXCEPT !.up = @ \cup {l}], l)
DisableLink(d, l) ==
    IF l \in d.up THEN [Ignored(ChipDisable(d, l)) EXCEPT !.up = @ \ {l}] ELSE d

\* max9x_create_adapters() and max9x_create_adapters_resume(): five attempts,
\* after which the link is given up for good.
Attempt(d, l) == IF d.err THEN EnableLink(Ignored(d), l) ELSE d
Attempts(d, l) ==
    In(LAMBDA y : Attempt(Attempt(y, l), l),
        In(LAMBDA x : Attempt(Attempt(x, l), l), EnableLink(Ignored(d), l)))
BringUp(d, l) ==
    IF l \notin d.enabled THEN d
    ELSE LET e == Attempts(d, l)
         IN  IF e.err THEN [DisableLink(Ignored(e), l) EXCEPT !.enabled = @ \ {l}] ELSE e

\* configure_csi_dphy() turns the PHYs off whatever the use counts say.
Configure9296(d)  == Try(d, "configure", [d EXCEPT !.phy = FALSE])
Configure96724(d) == Try(d, "configure", [d EXCEPT !.phy = FALSE])

\* max9296_enable() and max96724_enable().
TurnOff(d, l) == IF d.err THEN d ELSE ChipDisable(d, l)
AllOff(d) == EachLink(TurnOff, d)
Enabled9296(d)  == Configure9296(AllOff(d))
Enabled96724(d) == Configure96724(AllOff(d))
Power(d) == IF scene.chip = "max9296" THEN Enabled9296(d) ELSE Enabled96724(d)

\* enable_serial_link() of max9295.c and max96717.c, for the link of each
\* serializer that can be reached.
Wake(d, l) ==
    IF l \notin d.enabled THEN d ELSE Ignored(Try(d, "wake", [d EXCEPT !.ser = @ \cup {l}]))
Serialize(d) == EachLink(Wake, d)

----------------------------------------------------------------------------
(* Initial states: after probing *)

\* A serializer that was not found is not bound.
Probed(d) ==
    LET e == Serialize(EachLink(BringUp, Power(d)))
    IN  [e EXCEPT !.bound = e.ser]

Init ==
    /\ scene \in Scenes
    /\ routing = scene.default
    /\ started = {} /\ asleep = FALSE /\ cut = {} /\ torn = FALSE /\ naps = 0
    /\ \E op \in {"none", "lock", "wake"} :
         /\ c = Settled(Probed([Reset EXCEPT !.op = op, !.left = IF op = "lock" THEN 5 ELSE 1]))
         /\ faults = 0

----------------------------------------------------------------------------
(* Handlers *)

Siblings(s) == {x \in started \ {s} : LinkOf(x) = LinkOf(s)}

Start(s) ==
    /\ ~asleep /\ s \in DOMAIN routing \ started
    /\ \E x \in Chances :
         LET d == StreamOn(Faulty(x[1], x[2]), routing[s]) IN
         /\ Counted(x, d)
         /\ c' = Settled(d)
         /\ IF d.err THEN UNCHANGED <<started, cut>>
            ELSE started' = started \cup {s} /\ cut' = cut \ {s}
    /\ UNCHANGED <<scene, routing, asleep, torn, naps>>

Stop(s) ==
    /\ ~asleep /\ s \in DOMAIN routing \cap started
    /\ \E x \in Chances :
         LET d == StreamOff(Faulty(x[1], x[2]), routing[s]) IN
         /\ Counted(x, d)
         /\ c' = Settled(d)
         /\ IF d.err THEN UNCHANGED <<started, cut>>
            ELSE started' = started \ {s} /\ cut' = cut \cup Siblings(s)
    /\ UNCHANGED <<scene, routing, asleep, torn, naps>>

\* max9x_set_routing() does not ask whether streams run, and new routes come
\* with stream states that say they do not.
SetRouting(table) ==
    /\ ~asleep /\ table # routing
    /\ routing' = table /\ started' = {} /\ cut' = {}
    /\ torn' = (torn \/ started # {})
    /\ UNCHANGED <<scene, c, asleep, faults, naps>>

\* max9x_common_suspend(), of the serializers first; errors are ignored.
Suspend ==
    /\ ~asleep /\ naps < MaxNaps
    /\ asleep' = TRUE /\ naps' = naps + 1
    /\ \E x \in Chances :
         LET d == EachLink(DisableLink, [Faulty(x[1], x[2]) EXCEPT !.ser = {}]) IN
         Counted(x, d) /\ c' = Settled(d)
    /\ UNCHANGED <<scene, routing, started, cut, torn>>

\* max9x_common_resume(), of the deserializer first.
Resumed(d) ==
    LET e == Power(d) IN IF e.err THEN e ELSE Serialize(EachLink(BringUp, e))

Resume ==
    /\ asleep /\ asleep' = FALSE
    /\ \E x \in Chances :
         LET d == Resumed(Faulty(x[1], x[2])) IN
         /\ Counted(x, d)
         /\ c' = Settled(d)
         /\ cut' = cut \cup {s \in started :
                        scene.chip = "max9296" \/ d.err \/ LinkOf(s) \notin d.ser}
    /\ UNCHANGED <<scene, routing, started, torn, naps>>

Next ==
    \/ \E s \in DOMAIN routing : Start(s) \/ Stop(s)
    \/ \E table \in scene.routings : SetRouting(table)
    \/ Suspend \/ Resume

Spec == Init /\ [][Next]_vars

----------------------------------------------------------------------------
(* Properties *)

\* Everything the frames of link l pass is on.
Flows(d, l) == d.phy /\ l \in d.pipes \cap d.ser \cap d.cams

\* A stream that was started flows until it is stopped: through starts, failed
\* starts and stops of the streams of other links, through failed stops of its
\* own, and on a MAX96724 through suspend and resume.  Excepted: streams cut by
\* the end of a sibling on their link or by the sleep of a MAX9296, a link whose
\* serializer did not wake, and a port one of whose failures was only logged.
StreamsFlow ==
    ~asleep /\ ~c.spoiled =>
        \A s \in started \ cut : LinkOf(s) \in c.ser => Flows(c, LinkOf(s))

\* A stream that is off can be started whatever failed before: an attempt that
\* meets no failure succeeds, and the stream then flows.  Excepted: a link
\* whose serializer was not found or did not wake, a port as above, and a
\* routing replaced under running streams, which nothing can stop any more.
RetryWorks ==
    ~asleep /\ ~c.spoiled /\ ~torn =>
        \A s \in DOMAIN routing \ started :
            LinkOf(s) \in c.bound \cap c.ser /\ SerRouted(routing[s]) =>
                LET d == StreamOn(c, routing[s]) IN ~d.err /\ Flows(d, LinkOf(s))
=============================================================================
