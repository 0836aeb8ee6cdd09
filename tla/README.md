# Verification of the MIPI CSI camera reference drivers

TLA+ modules, model-checking configurations and machine-checked proofs for the
Linux camera drivers of this repository. Paths below are relative to the
repository's root; `maxim-serdes` and `max9x` are the directories of that name
under `drivers/media/i2c`.

## 1. The system

A camera sends its images over a GMSL coaxial *link*: a *serializer* chip packs
the CSI-2 output of one or more sensors into the link, a *deserializer* chip
takes several links and puts their streams out on CSI-2 *PHYs* to the SoC. Each
chip is a V4L2 sub-device; user space installs routing tables on them, opens a
stream at the far end, and the request travels upstream from sub-device to
sub-device by calls (`v4l2_subdev_enable_streams`), each under the state lock of
its sub-device. Between calls, system suspend cuts the power of everything.

| component | state it keeps | operations | hard behaviour |
|---|---|---|---|
| `max_des.c`: assignment of pipes and channels | link and stream of each pipe; remap context of a call | `set_routing`, `populate_remap_context`, `get_frame_desc` | assignments are claimed and stolen route by route, and outlive the call |
| `max_des.c`: streams | stream masks, output enable, caches of every register group | `update_streams` and its error labels, `suspend`, `resume` | partial failure at any call; writes skipped because of caches; other streams must not be disturbed |
| `max_des.c`, `max_serdes.c`: bits per pixel | 8/10/12 bit doubling per pipe and PHY | `populate_mode_context`, `process_bpps`, `set_modes` | boundary rules |
| `max_des.c`: links | selected links, GMSL version, serializer address, supply of each link | probe, ATR/mux attach, `suspend`, `resume` replay | serializers that share one power-up address; version search; a step that fails or times out |
| `max_ser.c` | pipes, data types, VC remaps, ATR translations | `update_streams`, `assign_vc_remaps`, `suspend`/`resume` | shared pipes of a PHY, remaps that are never given back |
| chip drivers of `maxim-serdes` | registers | the optional operations the frameworks call | which operations a chip really installs |
| `max9x/serdes.c` | isolated link, selected channel, stream tables | `isolate`/`select`, remapping, adapters, streams, resume | several devices compete for the isolation, with time-outs and error paths |
| `d4xx.c` | stream flags and formats, selected sensor, firmware mailbox, update state | start/stop, formats, controls through the mailbox, DFU character device | callers that do not all take the mutex, polling a firmware with a bound, an update cut into writes |
| sensors (`isx031.c`, ...) | streaming flag, cached mode | `set_stream`, `suspend`, `resume` | stale cached mode, retries |
| `lt6911*.c` | current video mode | interrupt thread, streaming, timings | source changes under a running stream |
| `ipu-acpi*.c` | platform data | one pass over firmware tables | index limits |

What makes each correct:

* *assignment*: no two pipes carry one stream, no two source channels share a
  destination channel, an update has a pipe for every route if the chip has, and
  every serializer that carries a route has its say in the choice of the mode;
* *streams*: a successful call delivers what was asked, a failing one takes
  nothing over, neither disturbs other streams, two streams never meet on a
  channel, and the caches agree with the registers between calls;
* *max9x isolation*: at most one link is visible while a serializer answers at
  its default address, whoever waits gets it or gives up, and it is given back;
* *bpp*: a serializer doubles exactly the formats its deserializer expects, and
  every PHY's memory map is the one its streams need;
* *serializer*: what is enabled flows on the channel that is announced, pipes of
  one link are told apart by channel, memory agrees with the registers;
* *links*: the alias of every serializer is answered by it alone, whatever
  attempt failed and after every resume;
* *max9x streams*: a started stream flows until it is stopped, and a start that
  failed can be repeated;
* *d4xx*: whoever sends a command gets the answer to it, an image is complete
  before it is activated, the flag of a stream is what the firmware was told,
  and every call returns;
* *sensors*: a stream comes from a sensor set as asked; references and grabbed
  controls are given back;
* *bridges*: the cached mode is the device's.

`PROJECT.json` lists every component with what is modelled of it, and the
hazards of the code, line by line.

## 2. The modules

| module | models | state |
|---|---|---|
| `MaxDesRemap` | `max_des_populate_remap_context()` and its two callers | `routing`, `fd` (inputs), `linkOf`, `strm` (pipe assignments), the remap context of the running call, its place (`pc`, `i`) |
| `StreamSwitch` | what the deserializer promises the capture side | `on`, `flowing`, `asked` |
| `MaxDesStreams` | `max_des_update_streams()`, `get_frame_desc()`, `set_routing()`, `suspend`, `resume`; extends `MaxDesRemap` | `sw` (what the driver remembers), `hw` (registers), `ser` (serializers), `call`, `stage` |
| `MaxSerdesBpp` | `max_serdes_process_bpps()`: which bpps can share a pipe | operators only |
| `MaxDesBpp` | bpp negotiation of `max_des.c` with its serializers; extends `MaxSerdesBpp` | the scene (`linkOf`, `phyOf`, `load`), `ctx`, what was written (`phyMode`, `pipeMode`, `allowed`, `serDouble`), `stage` |
| `MaxDesLinks` | how `max_des.c` finds, resets and readdresses the serializers | `sel`, `rate` (chip), `ser` (serializers), `uses` (supplies), `xlate` (driver), `job` (attach under way), `todo`, `state` |
| `MaxSer` | `max_ser.c` on the chips of `max96717.c`; extends `MaxSerdesBpp` | `routing`, `desc` (inputs), `sw`, `hw`, `cam`, what failures and sleep left behind (`stale`, `harmed`) |
| `Max9xIsolate` | bring-up and resume of the serializers behind one deserializer in `max9x/serdes.c` | `translated` (the board), `main`, `next` (the deserializer's thread), `isolated`, `selected`, `wired`, `at` (addresses), `pc`, `ret` of each resume |
| `Max9xStreams` | streams, routing, CSI port and power of `max9x` | `routing`, `started` (the core's view), `c` (memory and registers of all chips) |
| `D4xxControls` | controls, mailbox, firmware update and video handles of `d4xx.c` | `sel`, `mutex`, `call`, `box`, `flag`, `session`, `image`, `video` |
| `D4xx` | the whole driver: the streams beside the controls; extends `D4xxControls` | `streaming`, `format`, `lastSet`, `stream`, `enabled`, `setting`, `fw` |
| `Sensors` | `isx031.c`, `ar0234.c`, `imx586.c`, `imx415.c`, `ar0830.c`, `ar0233.c`, `ar0820.c` | `driver`, `bound`, `started`, `d` (memory and sensor) |
| `MaxDesStreamsProofs` (of `MaxDesRemap` too), `MaxDesBppProofs`, `MaxDesLinksProofs`, `MaxSerProofs`, `Max9xIsolateProofs`, `Max9xStreamsProofs`, `D4xxProofs`, `SensorsProofs` | theorems | |
| `MC...` | instances for TLC | |

`MaxDesStreams`, `MaxSer`, `Max9xStreams` and `Sensors` are the stages of one
pipeline. They meet at `enable_streams`, where each stage sees the next one
either succeed or fail; that is how the next stage appears in each module.

**MaxDesRemap.** A call walks the routing table twice. The usage pass gives
every route a pipe: the one already assigned to its stream, else the link's
lowest free one, else the lowest free one of any other link (`Candidates`,
`UseLink`, `UseTpg`, `UseNothing`). Then the modes all used serializers support
are found (`FindModes`), the mapping pass gives every source channel a channel
of its PHY (`MapVc`, `MapTooBig`) and the mode is chosen (`ChooseMode`). One
route of a pass is one action. `update_streams` resets the assignments first
(`BeginUpdate`), `get_frame_desc` does not (`BeginGetDesc`). The frame
descriptors of the serializers are an input that changes between calls.
Data are abstracted to what the computation compares: a route is its sink pad
and stream, its PHY and its source stream; a frame descriptor entry is its
virtual channel.

**MaxDesStreams.** `stage` is the place in `max_des_update_streams()`; each
loop over pipes is one action per pipe, each group of register writes succeeds
or fails, a failure may leave what had been written before it. The error labels
are actions of their own (`UndoActiveEnable` ... `GiveUp`). `sw` holds the
caches (`pipe->remaps`, `pipe->enabled`, `pipe->phy_id` with `phy_programmed`,
`stream_id`, `active`, `tpg_entry`) and `hw` the registers they stand for.
`Delivered` is what a receiver sees: the streams that serializers send, that a
pipe takes (link, id, mode) and puts out through its remap entry, its PHY
register or its tunnel register. Which optional operations a chip has are
constants (`HasPipePhy`, `HasTunnelPhy`, `HasPipeLink`, `UniqueIds`):

| chip | modes | phy / tunnel phy / link ops | unique ids |
|---|---|---|---|
| max96724 | pixel, tunnel | yes / yes / yes | no |
| max96712 | pixel | no / no / yes | no |
| max9296a | pixel | no / no / no | yes |
| max96716a | pixel, tunnel | no / yes / no (provided, not installed) | no |

**StreamSwitch** is the abstract specification: groups of streams are switched
by one call at a time; success means done, failure means nothing taken over,
other streams are never interrupted; power may be lost between calls.
`MaxDesStreams` implements it under the mapping `Switched`.

**Max9xIsolate.** `main` is the deserializer's thread: `create_adapters()` at
probe (`ProbeEnable` ... `ProbeUnwind`), `registered()` with the probe of each
serializer (`RegisterIsolate`, `RegisterAttach`, `RegisterDetach`), `Suspend`,
and its own resume (`ResumeDes`, `Relink`). `pc[l]` is the resume of the
serializer on link `l`; every register access of `max9x_common_resume()` is a
step, because `isolate_mutex` protects the lock word only and not what is done
under it. The kernel resumes I2C clients asynchronously, parents first, so the
serializers of one deserializer run concurrently. A bus transfer through the
multiplexer is atomic (the mux lock is held from select to deselect), hence one
step; what it reaches is `Reached`: the one selected link on a MAX96724, the
links wired by `LINK_CFG` on a MAX9296. An address is abstracted to "the default
one" or "the one of link l"; `translated` holds the links whose serializer has one
of its own, a choice of the board. `Fault` is an access that fails with all its
retries, `GivesUp` a wait that ends after ten seconds: always possible when
nobody will ever free the isolation, and with `MayOverrun` also while the holder
works. Not modelled: sensors behind a serializer, links without a serializer,
allocation failures other than those of the clients and maps that
`remap_serializers()` makes itself, removal of the driver; a registration that
fails half way ends in the phase `failed`.

Left out of `MaxDesStreams`: the bpp registers (`set_modes` can fail, what it
writes is not represented); `set_pipe_vc_remap`, which no chip installs;
`max_ser_get_stream_id()`, the fall-back for serializers with a fixed id;
stream autoselect, which suits links with a single camera; unregistering.
Serializers that remap channels only support pixel mode (assumption
`SerializerAssumption`), so `max_des_set_vc_remaps()` has nothing to push.

**MaxDesBpp.** A scene distributes sets of bpps over pipes, links and PHYs. One
update then collects the bpps of each PHY and pipe stream by stream (`Collect`,
in any order), settles what is doubled (`Settle`, the padding rules of
`max_des_populate_mode_context()`), writes it (`WriteModes`), tells each
serializer what it may double (`Tell`), and each serializer works out its own
pipes with the same rules (`SerEnable`). `SplitLinks` says whether the pipes of
one link may go to different PHYs.

**MaxDesLinks.** One action is one call that reaches the chip or a serializer,
so a call can fail and a wait can time out anywhere: `SetLinkVersion`,
`SelectOne`, `WaitEither`, `SerReset`, `WaitPowerUp`, `SerChangeAddress`,
`WaitMoved`, `SerFixTxIds`, `Attached`. `Probe` and `Resume` turn the supplies
on one by one; `Reattach` replays the attachments of a suspend. A serializer
answers at an address when its link is selected and runs at its version; that is
`Answering`. Versions that a chip shares between links (`single`) and the search
over the versions are as in `max_des_ser_attach_addr()`. After a failed probe or
resume the device is in the state `failed` or `stuck`, which ends the behaviour.

**MaxSer.** Every handler runs under the lock of the sub-device's active state
and is one step, but inside it takes a context through the calls it makes, in
their order, and one of them may fail (`c.fault`), so each error label is taken
from each place that leads to it. `Enable` and `Disable` are
`max_ser_update_streams()`; the others are the routing, the test pattern, the
doubled bpps and the mode that the deserializer sets, ATR translations, suspend
and resume, which may fail part-way (`ResumeFails`: `stale.unwritten` marks the
translations and the mode it did not write). The frame descriptor of the camera changes between calls
(`ChangeDesc`).

**Max9xStreams.** In the same style, for the deserializers and serializers of
`max9x`: a start walks the routing, enables the CSI port of each map with its
use count, the pipes, the serializer and the camera, and a failure leaves what
the code leaves. One call may fail once or every time.

**D4xxControls, D4xx.** The mailbox is one buffer (`box`) that holds a request
or the answer to it; a request whose execute register could not be written leaves
its data there (`Unexecuted`). Setters and the update hold `mutex` over a transaction
(`Lock` ... `Return`), volatile getters do not; calls through one control handler
are serialised, those of two handlers are not. `Request` records whose
transaction was `crossed` by one that does not take the mutex. The update file
is a state machine (`session`) beside the driver's own flag (`flag`) and what
the firmware holds (`image`); `VideoCheck` and `VideoOpen` are two steps because
nothing locks the check against the opening. A stream call is cut where the
driver talks to the firmware or where others may change what it reads:
`Configure`, `Start`, `Started` or `GiveUp`, and `Stop`. Format calls select a
sensor first and take the mutex later (`EnterFormat`, `SetFormat`). `Disturb`
records a selection or format changed under a stream being configured.

**Sensors.** One behaviour is one driver. The V4L2 core around it is external: it
starts only what it takes for stopped, and what it believes after a failure
depends on the operation the driver implements. A register list that fails is
written in part.

## 3. The runs

| run | instance | shows |
|---|---|---|
| `remap` | 2 links, 3 pipes, 2 PHYs, 2 streams, 2 channels; every valid table of up to 4 routes | no sharing of pipes or channels, no depletion, every serializer consulted |
| `streams` | 2 links, 3 pipes, 3 PHYs of which 2 have endpoints, pixel and tunnel mode; four tables, of which one makes link 1 steal a pipe of link 0; 1 failing call, 1 suspend | delivery, no collision, siblings undisturbed, caches sound, pipes listen to their new link, refinement of `StreamSwitch` |
| `stale_desc` | the same chip with a serializer that only has pixel mode, two tables of one link; no failure, no suspend | a disagreement, see below |
| `bpp` | 3 pipes, 2 links, 2 PHYs, 8 sets of bpps, every distribution | both ends double the same streams, memory maps fit |
| `links` | 7 boards of 1 to 3 links, warm or cold, fast, slow and missing serializers; 3 faults, 2 resumes | every alias answered by its serializer alone, nobody else's serializer is touched |
| `ser` | MAX9295A, MAX9295D and MAX96717 with changing routings, descriptors, bpps and test pattern; 1 failing call, 1 suspend | what is enabled flows, on a channel of its own; memory agrees with the registers |
| `second_pipe` | MAX9295A with the D457's presets; no failure | a disagreement, see below |
| `max9296` | 2 links, both, one or none of them with an address of its own; 4 failures, 2 suspends | one serializer per address, exclusive isolation, serializers registered exactly when every link translates, every link back on the bus, every resume ends |
| `m9streams` | MAX9296 and MAX96724 with 2 links, swapped routings or a second stream on one link; 2 failures, 2 suspends | started streams flow until stopped, a failed start can be repeated |
| `d4xx` | control handlers of depth and mux, depth and infrared streams; six mixes of calls; 2 faults | answers, updates, flags and data types are right, every call returns |
| `sensors` | all seven drivers; 3 failing handlers, 2 sleeps | a stream comes from a sensor set as asked; references and grabs are given back |
| `mode_applied` | `isx031` with two modes; 1 sleep, no failure | a disagreement, see below |

*Bounds.* Three pipes and two links are the smallest sizes in which a link has
two pipes, another has one, and a third stream must steal; four routes are more
than the pipes, so exhaustion happens. Two channels make `-E2BIG` and every
rule of the channel mapping happen. In the stream runs three different tables
(two cameras on one link and one on the other; the same cameras on other PHYs
and pipes; test pattern) are enough for every cache to be stale in some way.
One failing call reaches every error label; a second inside the error path is
outside what the code promises (a remap table that fails half way and then fails to
be undone is taken for the cached one). One suspend between any two calls. The table that
steals a pipe is explored only while no call has failed (`MCStealsCalmly`, a
constraint of the run): after a fault under it two weaknesses of the code meet,
which `MCMissedRelink.cfg` shows apart.

`MCLoads` has one set for every rule of `max_serdes_process_bpps()`: nothing, 8
alone, 8 padded to 16, 10 and 12 alone, together and with their double, and the
refused 24; three pipes put two on one link and one on the other, or two on one
PHY, in all ways. The boards of `links` have one version register or one per
link, supplies for all, some or no links, a link without an endpoint and one
without a serializer. Three faults let one attachment fail twice at different
versions and another once. The scenes of `ser` have a second stream that is
described with another channel, another bpp or not at all; on the MAX9295D two
PHYs share the link. In `m9streams` the same two links share the one port, so a
use count reaches two; two failures are the start that fails and the clean-up
that does too.

For `d4xx` the mixes of `MCBudgets` put together those calls that meet in the
driver's state: three controls of two handlers; a control and an update; video
handles and an update opened again; a control and a stream; streams and formats;
four stream calls and a format. Two faults are what a late start whose stop word
is lost needs. For `sensors` two modes are what a stale mode needs, and the usage
count is bounded by six, more than three failing handlers can leak.

For `max9x` isolation, two links are all a MAX9296 has, and `Boards` has every
choice of links with an address of their own. Two failures are the
least that leave a link isolated for good (an access, then the reset of the
address), four let it happen in both cycles; two cycles are needed for a lock
word left by one to be met by the next.

*Assumptions.* The named assumptions on the constants are evaluated by TLC in
these runs.

*Fairness.* `Max9xIsolate` assumes that every started resume is scheduled again
as long as it can take a step (`FairSpec`): each is a kernel thread whose waits
are bounded polls. Weak fairness suffices since a resume asks for the isolation
only once. `D4xx` assumes that a call that has been entered runs on
(`Advance`, `Update`, `StreamStep`, `SetFormat`: threads in the kernel that only
sleep for bounded times or wait for `mutex`) and that the firmware answers a
request and follows a start word in the end (`Execute`, `FirmwareStarts`). The
mutex is fair in the kernel, but nothing here depends on it: calls are finitely
many. The other modules assume none: a call there is a finite sequence of
synchronous steps under one lock, and they state no liveness.

Deadlock is checked where a behaviour can always go on. It is not in the runs
whose behaviours end: with the last allowed suspend or in the phase `failed`
(`max9296`, `links`), when the calls are used up (`d4xx`), or after the one
update of a scene (`bpp`).

*Exceptions stated in the properties.* Some properties name states in which the
code promises nothing, and say so where they are defined: after a port failure
that is only logged, a routing replaced under running streams, or a sibling cut
by the end of a stream (`Max9xStreams`); after a PHY was left half off or
suspended while streaming (`MaxSer`); a transaction crossed by a getter outside
the mutex, a selection changed under a stream being configured, a stop word that
was lost (`D4xx`); streams whose loss a driver does not report (`Sensors`). Each
of these is a weakness of the code; the ghost variable that marks it is set where
the code goes wrong and nowhere else.

*Disagreements found* (each is a run that TLC must find violated, with the
quoted text in `PROJECT.json`):

* `isx031_resume()` writes the registers of the current mode without updating
  the mode it compares with, so a later start may take registers for written that
  are not (`mode_applied`);
* `max_ser_update_phy()` sets up one pipe per PHY, so with a pipe for each stream
  the second stream of a camera never flows (`second_pipe`);
* `max_des_get_frame_desc()` runs the assignment search on the pipes the last call
  left, `max_des_update_streams()` on none: after a routing change an idle pipe
  speaks for the link, its serializer is not asked and tunnel mode is assumed
  where the update chooses pixel mode, so the stream arrives on another channel
  than the one announced (`stale_desc`).

*Further configurations.* These are kept beside the runs above; run them with
`tlc -config <file> <module>`.

| file, module | outcome |
|---|---|
| `MCUniqueIds.cfg`, `MCMaxDesStreams` | holds: with pixel mode, no link or PHY operation and unique ids (MAX9296A), ids follow the pipes through stealing routings; an instance of the hypotheses of `MaxDesStreamsProofs`, with every property of `streams` |
| `MCMax9x96724.cfg`, `Max9xIsolate` | holds: four links of a MAX96724 resume together |
| `MCTunnelPhy.cfg`, `MCMaxDesStreams` | violated: one `phy_programmed` flag guards two registers, so after a change of mode the routing register of the new mode may never be written |
| `MCPipeLink.cfg`, `MCMaxDesStreams` | violated: `max9296a_probe()` does not install `set_pipe_link` for max96716a |
| `MCMissedRelink.cfg`, `MCMaxDesStreams` | violated: pipes of the failing link are not undone, and after a routing change the enabled cache hides that the pipe listens to the wrong link |
| `MCMax9xOverrun.cfg`, `Max9xIsolate` | violated: a resume that gives up waiting for the isolation clears the one of its sibling, whose next write moves both serializers to one address |

*Further hazards.* `PROJECT.json` lists the thirty-nine most important ones, each with what the runs except of it. Others
that the survey met, and what the models say of them:

* a second failure inside an error path of `max_des_update_streams()`
  (`max_des.c:2716`), or in restoring a pipe's mode (`max_ser.c:1131`), leaves
  registers and memory apart; the properties are stated for one failing call;
* a failed resume cuts the supplies, and every later suspend is refused
  (`max_des.c:3522`): reachable in `MaxDesLinks` as the state `stuck`;
* `max9x/serdes.c:670`: the resume of a dead serializer may report success with
  its serializer at the default address; `Addressable` excepts that return;
* `max9x/serdes.c:1371`: stopping one of two streams of a link stops both;
* `d4xx.c:2705`: the result of a start is dropped and only the lowest stream of a
  mask is looked at, so the core believes streams enabled that do not run;
  `FlagAgrees` is about the driver's own flag;
* `d4xx.c:4867`: the re-initialisation after a recovery never runs;
* `d4xx.c:1399`: a TRY format changes the active one;
* leaks and lifetimes: `max_des.c:2660`, `max_des.c:1920`, `d4xx.c:5159`,
  `ar0830.c:1148`, `max9x/serdes.c:517`, outside the models;
* `max_des.c:2157`: a frame interval for the test pattern is looked up as its
  reciprocal and stored as it is, so a later look-up fails: the branch of
  `UseNothing` for the test pattern;
* `imx586.c:582`: every start keeps a usage reference; `HeldThenReleased` excepts
  that driver.

## 4. The proofs

`MaxDesStreamsProofs` begins with `MaxDesRemap` and proves of it for every number
of links, pipes, PHYs, streams and channels, every set of routings and frame descriptors allowed by the named
assumptions of `MaxDesRemap`:

* `TypeCorrect`: `Spec => []TypeOK`. The invariant is inductive once it also
  says that a running mapping pass has a pipe for what it looks up (`TypeInv`).
* `PipesNotShared` and `LowestPipesSpeak`. Neither invariant is inductive alone:
  that stealing takes a pipe only when the link has no free one keeps the order,
  and the order is what makes the lowest pipe the one that is found; `AssignInv`
  is their conjunction, `ClaimKeepsAssignment` its one difficult step.
* `VcsNeverCollide`: the channel map never repeats a channel. It needs that the
  masks of the PHYs are exactly the channels in the map (`MasksExact`, part of
  `VcInv`).

* `StreamsNeverShareAPipe` (`OneStreamPerPipe`), when every stream of a routing
  table has a source of its own. `MappedInv`: each entry of the map comes from a
  route that the mapping pass has visited and that the pipe carries, and the
  assignment has not changed since.
* `PipesNeverDepleted`. After the reset the usage pass has assigned no more pipes
  than it has visited routes (`FewAssigned`); a route left without a pipe found
  all of them assigned, so there are more routes than pipes, by the theorems on
  cardinality.
* `LinksAlwaysConsulted`. Every assigned pipe is in use and every visited route
  has one (`UsageInv`); since the lowest pipe of a link speaks for it
  (`AssignInv`), that pipe is asked whether it can tunnel.
* `UpdatesRepeatAssignments` and `MapsRepeatChannels`, which compare two calls
  under one routing table. `FinalPlan` is the assignment a whole pass reaches
  from the reset; `PlanInv` says that the running call agrees with it as far as
  it has come, and with `IsPlan` the plan is unique, because two that differ
  would differ first after some route, which leaves them equal. `ChannelInv` says
  the same of the channels of a chip with pixel mode only. This is what lets the
  streams that already run keep their pipes through an update.

Of `MaxDesStreams` it proves for every chip, routing and number of faults:

* `StreamsComputeRemaps`: switching streams implements the specification of
  `MaxDesRemap`, so all of the above holds while streams are switched.
* `OutputsFollowStreams` (`MasksActive`) if at most one call fails: the output
  enable follows the masks through every error label. With a second failure,
  inside an error label, it does not.

Its last part is about the chips whose pipes cannot come to listen to a
wrong stream behind the driver's back: pixel mode only (`PixelOnly`), with
unique stream ids or a link register per pipe (`ChipSelects`): MAX9296A and
MAX96712. As long as no call has failed (`faults = 0 =>`):

* `ArrivalsNeverCollide`, `UpdatesDeliver`, `PipesKeepTheirLinks`,
  `CachesTellTheTruth`, `FrameDescsStayTrue`; and with no failing calls at all
  the action properties `SiblingsKeepFlowing` and `NothingGlitches` and the
  refinement `SwitchImplemented` of `StreamSwitch`.
* The invariant has two halves. `Base` knows the computation: the assignment and
  the map of a call are those of its table, whatever was there before. `FlowInv`
  follows the update stage by stage and says which registers already show the
  new masks and which still the old ones: what each cache stands for
  (`CacheInv`, `PipesInv`, `IdsInv`, `ModeInv`), what the serializers send
  (`SourcesInv`, `TpgInv`) and when the outputs are on (`OutInv`). A stream the
  update is not about has the same pipe, map entry and id in both, which is
  `UpdatesRepeatAssignments`, so each step leaves it flowing.
* The hypotheses are needed. In tunnel mode the routing register of a PHY may
  never be written (`MCTunnelPhy.cfg`), `CanTunnel` asks the lowest pipe of a
  link only, and a chip that keeps channels lets another link's routing change
  the channel of a running stream; after a fault in `max_des_update_links()` a
  pipe stays enabled on its old link (`MCMissedRelink.cfg`). Between these, the
  run `streams` checks what still holds.

`MaxDesBppProofs` proves for any pipes, links, PHYs and loads, on the condition
that the pipes of one link go to one PHY (`SplitLinks = FALSE`, a hypothesis of
the theorems):

* `DoublingAlwaysAgrees` and `MapsAlwaysFit`. The invariant `BppInv` says what
  each stage knows: while streams are collected, the context is the function of
  those already seen (`Collecting`); then that it is settled; then that each
  register is the function of the context that is written. The core is
  arithmetic: whatever the order, the bpp a PHY doubles is one that each of its
  pipes can double, so the serializer, which is told the union over its link,
  cannot choose another. With two PHYs on one link that union may hold a bpp
  the other PHY does not double, which is why the condition is needed.

`MaxDesLinksProofs` proves for any boards, any failing calls and any number of
suspends:

* `AliasesAlwaysAnswered` and `OnlyOwnLinkTouched`. `LinksInv` says which
  addresses a serializer can have at all, its power-up one and its alias
  (`AddressInv`), what the driver has learnt of a link (`XlateInv`), that an
  attachment runs during a probe or a resume only and on the selected link
  (`JobInv`), and that a link that is neither being attached, nor still to be
  visited, nor lost stays `Settled`: at its target address and version
  (`SettledInv`). The supply, the progress of the loops and the links done have a
  part each.

`MaxSerProofs` proves for every chip of `max96717.c`, any presets, routings, frame
descriptors and doubled bpps, any number of failing calls and any suspends:

* `CachesAlwaysAgree`. `TypeOK` is inductive by one lemma on each call and one on
  each function (`TpgUpdates`, `RemapUpdates` ... `StreamsDo`), from the bottom of
  `max_ser_update_streams()` to the top, error labels included. On the way up
  through the functions the lemmas carry what a call never touches (`Beside...`)
  and that registers and memory are written together (`Settled`); `Holds` is what
  every call of the update keeps, so the whole update keeps it. The filters of a
  pipe agree only while no call has failed (`Quiet`): `max_ser_update_pipe()` does
  not restore them all. What a failed resume did not write is excepted until the
  next sleep (`stale.unwritten`). `CachesInv` adds what a suspend leaves: while asleep
  everything that was on is `stale`, and the translations wait to be restored.
* `StreamsAlwaysFlow` and `ChannelsNeverCollide`, for `Orderly` scenes: what the
  properties leave out (streams whose camera has no descriptor, PHYs `harmed` by
  a failed disable, what was on across a suspend) is all that can be off.
  `Orderly` speaks of the inputs only. The presets of the pipes must leave every
  stream on the first pipe of its PHY (`FirstPipeServes`): on the scene of
  `MCSecondPipe.cfg` they do not, and the property is violated. On the chip that
  remaps channels a camera must keep to one channel, the first camera to 0
  (`KeepsChannels`), since the driver asks for the channel once and keeps the
  answer. Every scene of `MCMaxSer.cfg` is `Orderly`. The invariant `FlowInv`,
  beside `CachesInv` and `TypeOK`, says that a pipe is remembered as on exactly
  when the masks enable a stream on it (`Follow`), that every stream of the masks
  can be looked up (`Known`), that the test pattern runs only when remembered and
  on a pipe that is not stale (`TpgAgree`), that every camera streams its mask and
  its PHY is active unless `harmed`, that a channel is rewritten only to the one
  assigned (`Softly`), and that on a remapping chip every pipe with a stream has
  a channel and sends on it unless stale (`Sent`), no two pipes on the
  same one (`GoodRemaps`). What one update does is stated by an effect operator
  per function (`Follows`, and `Undone` and `Done` for the error labels and the
  success), so that a failing call half way is undone to the state it started from.

`Max9xIsolateProofs` proves for both chips, every number of links (two at most
on a MAX9296, `ChipAssumption`), every set of boards (which links translate
addresses) and any number of failures and suspends:

* `TypeCorrect`: `Spec => []TypeOK`.
* `IsolationIsHeld` and `IsolationHandedBack`, when waits do not run out under a
  holder at work (`MayOverrun = FALSE`; `MCMax9xOverrun.cfg` shows that it is
  needed). Each property needs the other: a wait can only be refused for good
  when the lock word is somebody's who is over, and nobody who is over keeps it.
  Also needed: no channel stays selected once a serializer is registered
  (`SelectionFree`), or a wait could end although the isolation is free.
* `NoTwinsEver` and `ResumedAddressable`, under the same condition but also
  after a link was left isolated. The invariant `AddrInv` says that a resume at
  work on a MAX9296 is the only one wired (`WorkAlone`) and that one on its way
  out without owning the isolation was refused by a resume that is over
  (`WayOut`); with two links there is then no third whose isolation the
  unconditional deisolation could take. Every serializer is therefore at the
  default address or at its own (`OwnAddress`).

* `EverySerializerRegistered`, on every board, without a failure: the serializers
  of all links are registered if all translate addresses, and none at all
  otherwise. In the first case `SmoothInv` says what each step of a probe, a
  registration and a service has achieved, and that it owns the isolation where
  it relies on it. In the second `StrandedInv` follows the probe: it goes as well
  up to the first link that keeps the physical address (`Fresh`); that link stays
  isolated and selected, so the links after it are passed over (`Barred`); the
  registration is refused its first link (`Refused`) and the system is up without
  a serializer (`Deserted`).
* `LinksAlwaysRestored`, without a failure and when no wait runs out under a
  holder at work (`MCMax9xOverrun.cfg` shows that this is needed). `RestoreInv`
  adds that the links are all wired whenever nobody has isolated one
  (`LinksKnown`) and that a finished resume is not undone (`NeverUndone`). It
  rests on `LockInv`: whoever gives the isolation back wires all links first. On
  a board without a serializer it rests on `Deserted`.

`Max9xStreamsProofs` proves for any boards and routings of either chip, any
number of calls that fail once or every time, and any number of suspends:

* `StreamsAlwaysFlow` (`StreamsFlow`) and `RetriesAlwaysWork` (`RetryWorks`).
  `FlowInv` has three parts. `LinkInv`: while no failure of the port was only
  logged, its count is the number of maps that hold it (`PortGood`), and while
  any link transmits the PHY runs as long as a map holds the port (`PhyGood`); a
  link that transmits has its pipe on. `StreamInv`: a stream that was started
  and not interrupted has its camera and, if its link transmits, all maps of the
  link. `RouteInv`: what is enabled on a serializer is a route of a started
  stream, unless the routing was torn; that is why a stream that is off can be
  started. The count is the crux: the maps of a link are given back one by one,
  and the PHY may go off only with the last holder of any link.
* The loops of the driver are compositions of calls (three maps, four links,
  five attempts), so what a loop does follows from what one call does, without
  induction: one lemma on each call, on the loop and on the handler.

`D4xxProofs` proves for any control handlers and sensors, any calls and any
number of faults:

* `UpdateAlwaysSound`. The driver's flag, the place of the update and what the
  firmware holds are three pieces of state that errors set apart. `UpdateInv`
  says which combinations occur: a flag that says "in progress" has the firmware
  in download with exactly the blocks sent (`BlocksCounted`), except on the way
  out of an error; and an update that may still take blocks found no video
  handle (`NoVideoBeside`).
* `AnswersAreOwn`. A setter that talks to the firmware holds the mutex and so
  does the update (`Owners`); so a request written over somebody's transaction
  is one outside the mutex, which marks it crossed (`RequestCrosses`).
  Whoever is not crossed finds its own request in the mailbox while it polls, and
  its own answer after that (`Answered`).
* `FlagAlwaysAgrees` and `DataTypesRight`. During a call the flag already has its
  new value, so the invariants are about the value the call goes back to:
  `FlagPlace` says that it is what the firmware was last told, `DataPlace` that
  the data type is right once configured, and that nobody has changed the
  selection under a configuration that is not disturbed.

`SensorsProofs` proves for every driver, any set of modes, any number of calls
that fail once or every time, and any sleeps:

* `StreamsAlwaysAsSet` and `HoldsAlwaysReleased`. `Good` relates the core's
  belief to the driver's flag (`FlagGood`: they agree except where the loss of a
  stream was hidden), the flag to the usage count (`UsageGood`), and what the
  driver takes for written to what the sensor holds (`ModeGood`: isx031 knows the
  mode it wrote or has lapsed from it). Each handler is a chain of calls any of
  which may fail, so there is a lemma on the outcome of a call, one on each
  handler of each driver (`Isx031Starts` ... `StubProbes`), and one on each step.
  The second theorem needs `QuietGood`, what holds while nothing was disturbed:
  one reference while started, none otherwise.

*Model-checked only*: `MaxSer` on scenes that are not `Orderly`; `MaxDesStreams`
in tunnel mode and after faults, the masks excepted; and the liveness properties `ResumesFinish` and
`CallsEnd`, which are out of the prover's reach. No module with a theorem uses a
recursive operator, and no proof uses the library's induction theorems: where two
sequences are compared, the proof takes the first place at which they differ.

## 5. Not modelled

* `lt6911*.c`: an interrupt thread changes the current timings under a running
  stream. It is the next component to model.
* `ipu-acpi*.c`: one pass over firmware tables at probe, no state afterwards.
* Register encodings, PLL, PHY timings, deskew and lane maps, the pin controller
  and clock output of `max96717.c`, GPIO translations, line faults and sysfs of
  `max9x`: data without control that other parts depend on.
* Registration with V4L2, unbinding, and the lifetime of objects (the sensors'
  removal excepted): what the framework does with a half registered device is
  not in this repository.
* The frame descriptors of `max9x`, the selection rectangles and test patterns of
  the sensors, the calibration tables and the values of the controls of `d4xx`.
* Kernel patches, ACPI tables, scripts and documentation are no program.

## 6. Plan

1. Done: the modules above and their proofs.
2. Next to model: `lt6911` source changes against streaming and timing queries;
   frame descriptors of `max9x`; registration and unbinding of `d4xx`.
3. To compose: `MaxSer` under `MaxDesStreams`, so that the mode and the channel
   remaps that the deserializer pushes meet the serializer's own state; an
   abstract `StreamSwitch` refinement of `MaxSer`.
4. Next to prove: the properties of `MaxDesStreams` after one fault on a MAX9296A.
