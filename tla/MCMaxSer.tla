------------------------------- MODULE MCMaxSer -------------------------------
(***************************************************************************)
(* Instances of MaxSer: a scene per chip of max96717.c.                    *)
(***************************************************************************)
EXTENDS MaxSer

To(h, s, n) == [pad |-> h, sink |-> s, source |-> n]
TpgRouting  == <<To(Tpg, 0, 0)>>

\* The firmware's default: every pipe is for channel 0.
ForAll0 == [q \in 0 .. 3 |-> {0}]

\* One camera with two streams on channels of their own; it may not describe
\* the second one, or describe it with another bpp.
TwoStreams ==
    {[x \in {0} \X {0, 1} |-> IF x[2] = 0 THEN [vc |-> 0, bpp |-> 10] ELSE e] :
       e \in {[vc |-> 1, bpp |-> 20], [vc |-> 1, bpp |-> 10], NoEntry}}

\* A camera on each PHY, both on channel 0; the second may not be ready.
TwoCameras ==
    {[x \in {0, 1} \X {0} |-> IF x[1] = 0 THEN [vc |-> 0, bpp |-> 16] ELSE e] :
       e \in {[vc |-> 0, bpp |-> 16], NoEntry}}

\* The RealSense camera: one pipe per stream, depth on channel 0, colour on 1.
Preset4 == [q \in 0 .. 3 |-> {q}]

SceneA ==
    [chip |-> Max9295a, preset |-> ForAll0, descs |-> TwoStreams,
     routings |-> {<<To(0, 0, 0), To(0, 1, 1)>>, <<To(0, 1, 0)>>, TpgRouting},
     doubles |-> {{}, {10}}, addrs |-> {}]
SceneD ==
    [chip |-> Max9295d, preset |-> ForAll0, descs |-> TwoCameras,
     routings |-> {<<To(0, 0, 0), To(1, 0, 1)>>, <<To(1, 0, 0)>>, TpgRouting},
     doubles |-> {{}}, addrs |-> {}]
Scene717 ==
    [chip |-> Max96717, preset |-> [q \in {0} |-> {}], descs |-> TwoStreams,
     routings |-> {<<To(0, 0, 0), To(0, 1, 1)>>},
     doubles |-> {{}}, addrs |-> {"eeprom", "camera", "isp"}]
SceneD457 ==
    [SceneA EXCEPT !.preset = Preset4, !.routings = {<<To(0, 0, 0), To(0, 1, 1)>>},
                   !.descs = {[x \in {0} \X {0, 1} |-> [vc |-> x[2], bpp |-> 16]]}]
MCScenes     == {SceneA, SceneD, Scene717}
D457Scenes   == {SceneD457}
=============================================================================
