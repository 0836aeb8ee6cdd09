------------------------- MODULE Max9xStreamsProofs -------------------------
(***************************************************************************)
(* Proofs about Max9xStreams.                                              *)
(***************************************************************************)
EXTENDS Max9xStreams, TLAPS, FiniteSetTheorems

\* Contexts of a scene with these links.
Context(links) ==
    [phy : BOOLEAN, count : Nat, flags : SUBSET (links \X Maps), pipes : SUBSET links,
     up : SUBSET links, enabled : SUBSET links, bound : SUBSET links, ser : SUBSET links,
     cams : SUBSET links, serOn : SUBSET (links \X Nat), spoiled : BOOLEAN,
     err : BOOLEAN, op : Ops \cup {"none"}, left : Nat]

TypeOK ==
    /\ scene \in Scenes
    /\ routing \in scene.routings \cup {scene.default}
    /\ started \in SUBSET DOMAIN routing
    /\ c \in Context(Links) /\ c.op = "none" /\ ~c.err
    /\ asleep \in BOOLEAN /\ torn \in BOOLEAN
    /\ faults \in Nat /\ naps \in Nat

\* The port counts the maps that hold it.
PortGood(d) == ~d.spoiled => d.count = Cardinality(d.flags)

\* Its PHY runs while anybody does.
PhyGood(d) == ~d.spoiled /\ d.count > 0 => d.phy

\* A link that transmits has its pipe on, and the PHY follows the count.  While
\* no link does, a failed sleep or resume may have left the PHY behind.
LinkInv ==
    /\ PortGood(c)
    /\ c.ser # {} => PhyGood(c)
    /\ c.ser \subseteq c.pipes
    /\ asleep => c.ser = {}

\* A stream that nothing interrupted has its camera, and its link, if it
\* transmits, all maps on the port.
StreamInv ==
    \A s \in started \ cut :
        /\ LinkOf(s) \in c.cams
        /\ ~c.spoiled /\ LinkOf(s) \in c.ser => {LinkOf(s)} \X Maps \subseteq c.flags

\* The serializers run no stream but those the deserializer's core knows of.
RouteInv == ~torn => c.serOn \subseteq {routing[s] : s \in started}

FlowInv == TypeOK /\ LinkInv /\ StreamInv /\ RouteInv

----------------------------------------------------------------------------
(* Sets of maps *)

Ctx == Context(Links)

LEMMA LinksKnown == TypeOK => Links \in SUBSET SerialLinks
BY SceneAssumption DEF TypeOK, Links

LEMMA FlagsFinite ==
    ASSUME Links \in SUBSET SerialLinks, NEW F \in SUBSET (Links \X Maps)
    PROVE  IsFiniteSet(F) /\ Cardinality(F) \in Nat
<1>1. IsFiniteSet(0 .. 3) /\ IsFiniteSet(0 .. 2)
  <2> USE FS_Interval
  <2>1. 0 \in Int /\ 2 \in Int /\ 3 \in Int
    OBVIOUS
  <2>2. IsFiniteSet(0 .. 3)
    BY <2>1, Zenon
  <2>3. IsFiniteSet(0 .. 2)
    BY <2>1, Zenon
  <2> QED
    BY <2>2, <2>3
<1>2. IsFiniteSet(Links \X Maps)
  BY <1>1, FS_Subset, FS_Product DEF SerialLinks, Maps
<1> QED
  BY <1>2, FS_Subset, FS_CardinalityType

\* The port is counted right when a map is added or removed.
LEMMA Holders ==
    ASSUME Links \in SUBSET SerialLinks, NEW F \in SUBSET (Links \X Maps), NEW x
    PROVE  /\ x \notin F => Cardinality(F \cup {x}) = Cardinality(F) + 1
           /\ x \in F => Cardinality(F \ {x}) = Cardinality(F) - 1 /\ Cardinality(F) > 0
           /\ F = {} <=> Cardinality(F) = 0
<1>1. IsFiniteSet(F) /\ Cardinality(F) \in Nat
  BY FlagsFinite
<1>2. x \notin F => Cardinality(F \cup {x}) = Cardinality(F) + 1
  BY <1>1, FS_AddElement
<1>3. x \in F => Cardinality(F \ {x}) = Cardinality(F) - 1
  BY <1>1, FS_RemoveElement
<1>4. F = {} <=> Cardinality(F) = 0
  BY <1>1, FS_EmptySet
<1> QED
  BY <1>1, <1>2, <1>3, <1>4

----------------------------------------------------------------------------
(* One call *)

SamePort(d, e) ==
    e.phy = d.phy /\ e.count = d.count /\ e.flags = d.flags /\ e.spoiled = d.spoiled
SameSource(d, e) ==
    /\ e.bound = d.bound /\ e.cams = d.cams /\ e.serOn = d.serOn /\ e.op = d.op
SameLinks(d, e) ==
    /\ SameSource(d, e) /\ e.ser = d.ser
    /\ e.pipes = d.pipes /\ e.up = d.up /\ e.enabled = d.enabled

\* A call that fails, or is not made after a failure, changes nothing.
LEMMA TryOutcome ==
    ASSUME NEW d \in Ctx, NEW op, NEW done \in Ctx
    PROVE  LET e == Try(d, op, done) IN
           /\ e \in Ctx
           /\ \/ e.err /\ SamePort(d, e) /\ SameLinks(d, e)
              \/ ~d.err /\ e = done
           /\ ~d.err /\ (d.op = "none" /\ op # "none") => e = done
<1> DEFINE e == Try(d, op, done)
<1>1. CASE d.err
  BY <1>1 DEF Try, SamePort, SameLinks, SameSource
<1>2. CASE ~d.err /\ d.op = op /\ d.left > 0
  <2>1. e = [d EXCEPT !.err = TRUE, !.left = @ - 1]
    BY <1>2 DEF Try
  <2>2. d.left - 1 \in Nat
    BY <1>2 DEF Ctx, Context
  <2>3. e \in Ctx
    BY <2>1, <2>2 DEF Ctx, Context
  <2>4. e.err /\ SamePort(d, e) /\ SameLinks(d, e)
    BY <2>1 DEF Ctx, Context, SamePort, SameLinks, SameSource
  <2> QED
    BY <1>2, <2>3, <2>4
<1>3. CASE ~d.err /\ ~(d.op = op /\ d.left > 0)
  BY <1>3 DEF Try
<1> QED
  BY <1>1, <1>2, <1>3

----------------------------------------------------------------------------
(* The CSI port *)

LEMMA CsiOnDoes ==
    ASSUME NEW d \in Ctx
    PROVE  LET e == CsiOn(d) IN
           /\ e \in Ctx /\ SameLinks(d, e)
           /\ e.flags = d.flags /\ e.spoiled = d.spoiled
           /\ e.err => e.count = d.count /\ e.phy = d.phy
           /\ ~e.err => /\ ~d.err /\ e.count = d.count + 1
                        /\ IF d.count = 0 THEN e.phy ELSE e.phy = d.phy
           /\ ~d.err /\ d.op = "none" => ~e.err
<1> DEFINE on == [d EXCEPT !.phy = TRUE]
           a  == IF d.count = 0 THEN Try(d, "phyOn", on) ELSE d
           e  == CsiOn(d)
<1>1. on \in Ctx /\ on.phy /\ on.count = d.count /\ on.flags = d.flags
        /\ on.spoiled = d.spoiled /\ SameLinks(d, on) /\ on.err = d.err
  BY DEF Ctx, Context, SameLinks, SameSource
<1>2. /\ a \in Ctx /\ a.count = d.count /\ a.flags = d.flags /\ a.spoiled = d.spoiled
      /\ SameLinks(d, a)
      /\ a.err => a.phy = d.phy
      /\ ~a.err => ~d.err /\ IF d.count = 0 THEN a.phy ELSE a.phy = d.phy
      /\ ~d.err /\ d.op = "none" => ~a.err
  <2>1. CASE d.count = 0
    <3> HIDE DEF on
    <3>1. PICK t : t = Try(d, "phyOn", on)
      OBVIOUS
    <3>2. /\ t \in Ctx
          /\ \/ t.err /\ SamePort(d, t) /\ SameLinks(d, t)
             \/ ~d.err /\ t = on
          /\ ~d.err /\ d.op = "none" => t = on
      BY <1>1, <3>1, TryOutcome
    <3>3. a = t
      BY <2>1, <3>1
    <3> HIDE DEF a
    <3> QED
      BY <2>1, <3>2, <3>3, <1>1 DEF SamePort
  <2>2. CASE d.count # 0
    BY <2>2 DEF SameLinks, SameSource
  <2> QED
    BY <2>1, <2>2
<1>3. e = IF a.err THEN a ELSE [a EXCEPT !.count = @ + 1]
  BY DEF CsiOn
<1> HIDE DEF a, on, e
<1>4. CASE a.err
  <2>1. e = a
    BY <1>3, <1>4
  <2> QED
    BY <1>2, <1>4, <2>1 DEF e
<1>5. CASE ~a.err
  <2>1. a.count + 1 \in Nat
    BY <1>2 DEF Ctx, Context
  <2>2. e = [a EXCEPT !.count = a.count + 1]
    BY <1>3, <1>5 DEF Ctx, Context
  <2>3. e \in Ctx /\ e.count = a.count + 1 /\ e.flags = a.flags /\ e.spoiled = a.spoiled
          /\ e.phy = a.phy /\ e.err = a.err /\ SameLinks(a, e)
    BY <1>2, <2>1, <2>2 DEF Ctx, Context, SameLinks, SameSource
  <2> QED
    BY <1>2, <1>5, <2>3 DEF e, SameLinks, SameSource
<1> QED
  BY <1>4, <1>5

\* The PHY of a MAX9296 may be off although its use count was not lowered.
LEMMA PhyOffDoes ==
    ASSUME NEW d \in Ctx
    PROVE  LET e == PhyOff(d) IN
           /\ e \in Ctx /\ SameLinks(d, e)
           /\ e.flags = d.flags /\ e.spoiled = d.spoiled /\ e.count = d.count
           /\ e.err /\ scene.chip # "max9296" => e.phy = d.phy
           /\ ~e.err => ~d.err
           /\ ~d.err /\ d.op = "none" => ~e.err
<1> DEFINE off == [d EXCEPT !.phy = FALSE]
           a   == Try(d, "phyOff", off)
           b   == Try(a, "dpllOff", a)
<1>1. off \in Ctx /\ off.count = d.count /\ off.flags = d.flags
        /\ off.spoiled = d.spoiled /\ SameLinks(d, off) /\ off.err = d.err
  BY DEF Ctx, Context, SameLinks, SameSource
<1> HIDE DEF off
<1>2. /\ a \in Ctx
      /\ \/ a.err /\ SamePort(d, a) /\ SameLinks(d, a)
         \/ ~d.err /\ a = off
      /\ ~d.err /\ d.op = "none" => a = off
  BY <1>1, TryOutcome
<1> HIDE DEF a
<1>3. /\ a.count = d.count /\ a.flags = d.flags /\ a.spoiled = d.spoiled /\ SameLinks(d, a)
      /\ a.err => a.phy = d.phy
      /\ ~a.err => ~d.err
      /\ ~d.err /\ d.op = "none" => ~a.err
  BY <1>1, <1>2 DEF SamePort
<1>4. /\ b \in Ctx
      /\ \/ b.err /\ SamePort(a, b) /\ SameLinks(a, b)
         \/ ~a.err /\ b = a
      /\ ~a.err /\ a.op = "none" => b = a
  BY <1>2, TryOutcome
<1>5. PhyOff(d) = IF scene.chip = "max9296" THEN b ELSE a
  BY DEF PhyOff, a, off
<1> HIDE DEF b
<1>6. CASE scene.chip = "max9296"
  <2>1. PhyOff(d) = b
    BY <1>5, <1>6
  <2> QED
    BY <1>3, <1>4, <1>6, <2>1 DEF SamePort, SameLinks, SameSource
<1>7. CASE scene.chip # "max9296"
  <2>1. PhyOff(d) = a
    BY <1>5, <1>7
  <2> QED
    BY <1>2, <1>3, <2>1
<1> QED
  BY <1>6, <1>7

LEMMA CsiOffDoes ==
    ASSUME NEW d \in Ctx
    PROVE  LET e == CsiOff(d) IN
           /\ e \in Ctx /\ SameLinks(d, e)
           /\ e.flags = d.flags /\ e.spoiled = d.spoiled
           /\ e.err => e.count = d.count
           /\ e.err /\ scene.chip # "max9296" => e.phy = d.phy
           /\ ~e.err => /\ ~d.err
                        /\ d.count > 0 => e.count = d.count - 1
                        /\ d.count # 1 => e.phy = d.phy
           /\ ~d.err /\ d.op = "none" => ~e.err
<1> DEFINE a == IF d.count = 1 THEN PhyOff(d) ELSE d
           e == CsiOff(d)
<1>1. /\ a \in Ctx /\ SameLinks(d, a)
      /\ a.flags = d.flags /\ a.spoiled = d.spoiled /\ a.count = d.count
      /\ a.err /\ scene.chip # "max9296" => a.phy = d.phy
      /\ d.count # 1 => a.phy = d.phy
      /\ ~a.err => ~d.err
      /\ ~d.err /\ d.op = "none" => ~a.err
  <2>1. CASE d.count = 1
    BY <2>1, PhyOffDoes
  <2>2. CASE d.count # 1
    BY <2>2 DEF SameLinks, SameSource
  <2> QED
    BY <2>1, <2>2
<1>2. e = IF a.err THEN a ELSE [a EXCEPT !.count = IF a.count > 0 THEN a.count - 1 ELSE 0]
  BY <1>1 DEF CsiOff, Ctx, Context
<1> HIDE DEF a, e
<1>3. CASE a.err
  <2>1. e = a
    BY <1>2, <1>3
  <2> QED
    BY <1>1, <1>3, <2>1 DEF e
<1>4. CASE ~a.err
  <2>1. PICK n : n = IF a.count > 0 THEN a.count - 1 ELSE 0
    OBVIOUS
  <2>2. n \in Nat /\ (a.count > 0 => n = a.count - 1)
    BY <1>1, <2>1 DEF Ctx, Context
  <2>3. e = [a EXCEPT !.count = n]
    BY <1>2, <1>4, <2>1
  <2>4. e \in Ctx /\ e.count = n /\ e.flags = a.flags /\ e.spoiled = a.spoiled
          /\ e.phy = a.phy /\ e.err = a.err /\ SameLinks(a, e)
    BY <1>1, <2>2, <2>3 DEF Ctx, Context, SameLinks, SameSource
  <2> QED
    BY <1>1, <1>4, <2>2, <2>4 DEF e, SameLinks, SameSource
<1> QED
  BY <1>3, <1>4

\* What taking and giving up one more map does to the port.
LEMMA PortTaken ==
    ASSUME Links \in SUBSET SerialLinks, NEW d \in Ctx, NEW e \in Ctx, NEW x,
           x \notin d.flags, e.flags = d.flags \cup {x}, e.spoiled = d.spoiled,
           e.count = d.count + 1, IF d.count = 0 THEN e.phy ELSE e.phy = d.phy
    PROVE  /\ PortGood(d) => PortGood(e)
           /\ PhyGood(d) => PhyGood(e)
<1>1. d.flags \in SUBSET (Links \X Maps) /\ d.count \in Nat
  BY DEF Ctx, Context
<1>2. Cardinality(e.flags) = Cardinality(d.flags) + 1
  BY <1>1, Holders
<1> QED
  BY <1>1, <1>2 DEF PortGood, PhyGood

LEMMA PortGiven ==
    ASSUME Links \in SUBSET SerialLinks, NEW d \in Ctx, NEW e \in Ctx, NEW x,
           x \in d.flags, e.flags = d.flags \ {x}, e.spoiled = d.spoiled,
           d.count > 0 => e.count = d.count - 1, d.count # 1 => e.phy = d.phy
    PROVE  /\ PortGood(d) => PortGood(e)
           /\ PortGood(d) /\ PhyGood(d) => PhyGood(e)
<1>1. d.flags \in SUBSET (Links \X Maps) /\ d.count \in Nat /\ e.count \in Nat
  BY DEF Ctx, Context
<1>2. Cardinality(d.flags \ {x}) = Cardinality(d.flags) - 1 /\ Cardinality(d.flags) > 0
  BY <1>1, Holders
<1> QED
  BY <1>1, <1>2 DEF PortGood, PhyGood

\* Maps were given the port or taken from it; a failure is only remembered.
Switched(d, e, maps, on) ==
    /\ e.flags = IF on THEN d.flags \cup maps ELSE d.flags \ maps
    /\ d.spoiled => e.spoiled
    /\ d.op = "none" => e.spoiled = d.spoiled

LEMMA MapCsiDoes ==
    ASSUME Links \in SUBSET SerialLinks, NEW d \in Ctx, ~d.err, NEW l \in Links, NEW m \in Maps,
           NEW on \in BOOLEAN
    PROVE  LET e == MapCsi(d, l, m, on) IN
           /\ e \in Ctx /\ SameLinks(d, e) /\ ~e.err
           /\ Switched(d, e, {<<l, m>>}, on)
           /\ PortGood(d) => PortGood(e)
           /\ PortGood(d) /\ PhyGood(d) => PhyGood(e)
<1> DEFINE a == IF on THEN CsiOn(d) ELSE CsiOff(d)
           F == IF on THEN d.flags \cup {<<l, m>>} ELSE d.flags \ {<<l, m>>}
           e == MapCsi(d, l, m, on)
<1>0. d.flags \in SUBSET (Links \X Maps) /\ F \in SUBSET (Links \X Maps)
  BY DEF Ctx, Context
<1>1. CASE on = (<<l, m>> \in d.flags)
  <2>1. e = d
    BY <1>1 DEF MapCsi
  <2>2. F = d.flags
    BY <1>1
  <2> QED
    BY <2>1, <2>2 DEF SameLinks, SameSource, Switched
<1>2. CASE on # (<<l, m>> \in d.flags)
  <2>1. /\ a \in Ctx /\ SameLinks(d, a) /\ a.flags = d.flags /\ a.spoiled = d.spoiled
        /\ d.op = "none" => ~a.err
    BY CsiOnDoes, CsiOffDoes
  <2>2. e = [a EXCEPT !.flags = F, !.err = FALSE, !.spoiled = a.spoiled \/ a.err]
    <3>1. e = [a EXCEPT !.flags = IF on THEN @ \cup {<<l, m>>} ELSE @ \ {<<l, m>>},
                        !.err = FALSE, !.spoiled = @ \/ a.err]
      BY <1>2 DEF MapCsi
    <3> HIDE DEF a
    <3>2. (IF on THEN a.flags \cup {<<l, m>>} ELSE a.flags \ {<<l, m>>}) = F
      BY <2>1
    <3> HIDE DEF F
    <3> QED
      BY <2>1, <3>1, <3>2 DEF Ctx, Context
  <2> HIDE DEF F, e
  <2>3. PICK b \in BOOLEAN : b <=> (a.spoiled \/ a.err)
    OBVIOUS
  <2>4. e = [a EXCEPT !.flags = F, !.err = FALSE, !.spoiled = b]
    <3>1. b = (a.spoiled \/ a.err)
      BY <2>1, <2>3 DEF Ctx, Context
    <3> QED
      BY <2>2, <3>1
  <2> HIDE DEF a
  <2>5. e \in Ctx /\ e.flags = F /\ ~e.err /\ e.spoiled = b /\ SameLinks(a, e)
          /\ e.count = a.count /\ e.phy = a.phy
    BY <1>0, <2>1, <2>4 DEF Ctx, Context, SameLinks, SameSource
  <2>6. SameLinks(d, e)
    BY <2>1, <2>5 DEF SameLinks, SameSource
  <2>7. e.flags = IF on THEN d.flags \cup {<<l, m>>} ELSE d.flags \ {<<l, m>>}
    BY <2>5 DEF F
  <2>8. (d.spoiled => e.spoiled) /\ (d.op = "none" => e.spoiled = d.spoiled)
    BY <2>1, <2>3, <2>5 DEF Ctx, Context
  <2>9. (PortGood(d) => PortGood(e)) /\ (PortGood(d) /\ PhyGood(d) => PhyGood(e))
    <3>1. CASE e.spoiled
      BY <3>1 DEF PortGood, PhyGood
    <3>2. CASE ~e.spoiled /\ on
      <4>1. ~a.err /\ a = CsiOn(d) /\ e.spoiled = d.spoiled
        BY <2>1, <2>3, <2>5, <3>2 DEF a, Ctx, Context
      <4>2. e.count = d.count + 1 /\ IF d.count = 0 THEN e.phy ELSE e.phy = d.phy
        BY <2>5, <4>1, CsiOnDoes
      <4>3. <<l, m>> \notin d.flags /\ e.flags = d.flags \cup {<<l, m>>}
        BY <1>2, <2>7, <3>2
      <4> QED
        BY <2>5, <4>1, <4>2, <4>3, PortTaken
    <3>3. CASE ~e.spoiled /\ ~on
      <4>1. ~a.err /\ a = CsiOff(d) /\ e.spoiled = d.spoiled
        BY <2>1, <2>3, <2>5, <3>3 DEF a, Ctx, Context
      <4>2. (d.count > 0 => e.count = d.count - 1) /\ (d.count # 1 => e.phy = d.phy)
        BY <2>5, <4>1, CsiOffDoes
      <4>3. <<l, m>> \in d.flags /\ e.flags = d.flags \ {<<l, m>>}
        BY <1>2, <2>7, <3>3
      <4> QED
        BY <2>5, <4>1, <4>2, <4>3, PortGiven
    <3> QED
      BY <3>1, <3>2, <3>3
  <2> QED
    BY <2>5, <2>6, <2>7, <2>8, <2>9 DEF e, Switched
<1> QED
  BY <1>1, <1>2

LEMMA LinkCsiDoes ==
    ASSUME Links \in SUBSET SerialLinks, NEW d \in Ctx, ~d.err, NEW l \in Links,
           NEW on \in BOOLEAN
    PROVE  LET e == LinkCsi(d, l, on) IN
           /\ e \in Ctx /\ SameLinks(d, e) /\ ~e.err
           /\ Switched(d, e, {l} \X Maps, on)
           /\ PortGood(d) => PortGood(e)
           /\ PortGood(d) /\ PhyGood(d) => PhyGood(e)
<1>0. Maps = {0, 1, 2} /\ 0 \in Maps /\ 1 \in Maps /\ 2 \in Maps
  BY DEF Maps
<1>1. PICK x : x = MapCsi(d, l, 0, on)
  OBVIOUS
<1>2. PICK y : y = MapCsi(x, l, 1, on)
  OBVIOUS
<1>3. PICK z : z = MapCsi(y, l, 2, on)
  OBVIOUS
<1>4. LinkCsi(d, l, on) = z
  BY <1>1, <1>2, <1>3 DEF LinkCsi, EachMap
<1>5. /\ x \in Ctx /\ SameLinks(d, x) /\ ~x.err
      /\ Switched(d, x, {<<l, 0>>}, on)
      /\ PortGood(d) => PortGood(x)
      /\ PortGood(d) /\ PhyGood(d) => PhyGood(x)
  BY <1>0, <1>1, MapCsiDoes
<1>6. /\ y \in Ctx /\ SameLinks(x, y) /\ ~y.err
      /\ Switched(x, y, {<<l, 1>>}, on)
      /\ PortGood(x) => PortGood(y)
      /\ PortGood(x) /\ PhyGood(x) => PhyGood(y)
  BY <1>0, <1>2, <1>5, MapCsiDoes
<1>7. /\ z \in Ctx /\ SameLinks(y, z) /\ ~z.err
      /\ Switched(y, z, {<<l, 2>>}, on)
      /\ PortGood(y) => PortGood(z)
      /\ PortGood(y) /\ PhyGood(y) => PhyGood(z)
  BY <1>0, <1>3, <1>6, MapCsiDoes
<1>8. SameLinks(d, z)
  BY <1>5, <1>6, <1>7 DEF SameLinks, SameSource
<1>9. z.flags = IF on THEN d.flags \cup ({l} \X Maps) ELSE d.flags \ ({l} \X Maps)
  <2>1. {l} \X Maps = {<<l, 0>>, <<l, 1>>, <<l, 2>>}
    BY <1>0
  <2> QED
    BY <1>5, <1>6, <1>7, <2>1 DEF Switched
<1>10. (d.spoiled => z.spoiled) /\ (d.op = "none" => z.spoiled = d.spoiled)
  BY <1>5, <1>6, <1>7 DEF SameLinks, SameSource, Switched
<1>11. Switched(d, z, {l} \X Maps, on)
  BY <1>9, <1>10 DEF Switched
<1> QED
  BY <1>4, <1>5, <1>6, <1>7, <1>8, <1>11

----------------------------------------------------------------------------
(* Serial links *)

\* What the handling of serial links leaves alone.
SameRest(d, e) == SameSource(d, e) /\ e.ser = d.ser /\ e.spoiled = d.spoiled

\* The handling of link l leaves the others alone.
LinkOnly(d, e, l) ==
    /\ d.pipes \ {l} \subseteq e.pipes
    /\ d.flags \ ({l} \X Maps) \subseteq e.flags
    /\ e.flags \subseteq d.flags \cup ({l} \X Maps)
    /\ d.enabled \ {l} \subseteq e.enabled /\ e.enabled \subseteq d.enabled

\* A MAX9296 gives the port to streams only, so none holds it during bring-up,
\* where a failure to release it is not noticed.
Bare(d)  == scene.chip = "max9296" => d.flags = {}
Sound(d) == PortGood(d) /\ PhyGood(d) /\ Bare(d)
PortKept(d, e) == (PortGood(d) => PortGood(e)) /\ (Sound(d) => Sound(e))

\* A link that was brought up.
Ready(e, l) == l \in e.pipes /\ (scene.chip # "max9296" => {l} \X Maps \subseteq e.flags)

LEMMA TakeMapDoes ==
    ASSUME Links \in SUBSET SerialLinks, scene.chip # "max9296",
           NEW d \in Ctx, NEW l \in Links, NEW m \in Maps
    PROVE  LET e == TakeMap(d, l, m) IN
           /\ e \in Ctx /\ SameLinks(d, e) /\ e.spoiled = d.spoiled
           /\ d.flags \subseteq e.flags /\ e.flags \subseteq d.flags \cup {<<l, m>>}
           /\ ~e.err => ~d.err /\ <<l, m>> \in e.flags
           /\ PortKept(d, e)
<1> DEFINE a == CsiOn(d)
           e == TakeMap(d, l, m)
<1>0. d.flags \in SUBSET (Links \X Maps)
  BY DEF Ctx, Context
<1>1. CASE d.err \/ <<l, m>> \in d.flags
  <2>1. e = d
    BY <1>1 DEF TakeMap
  <2> QED
    BY <1>1, <2>1 DEF SameLinks, SameSource, PortKept
<1>2. CASE ~(d.err \/ <<l, m>> \in d.flags) /\ a.err
  <2>1. e = a
    BY <1>2 DEF TakeMap
  <2>2. /\ e \in Ctx /\ SameLinks(d, e) /\ e.flags = d.flags /\ e.spoiled = d.spoiled
        /\ e.count = d.count /\ e.phy = d.phy
    BY <1>2, <2>1, CsiOnDoes
  <2>3. PortKept(d, e)
    BY <2>2 DEF PortKept, Sound, PortGood, PhyGood, Bare
  <2> QED
    BY <1>2, <2>1, <2>2, <2>3
<1>3. CASE ~(d.err \/ <<l, m>> \in d.flags) /\ ~a.err
  <2>1. e = [a EXCEPT !.flags = @ \cup {<<l, m>>}]
    BY <1>3 DEF TakeMap
  <2>2. /\ a \in Ctx /\ SameLinks(d, a) /\ a.flags = d.flags /\ a.spoiled = d.spoiled
        /\ a.count = d.count + 1 /\ IF d.count = 0 THEN a.phy ELSE a.phy = d.phy
    BY <1>3, CsiOnDoes
  <2> HIDE DEF a, e
  <2>3. e = [a EXCEPT !.flags = d.flags \cup {<<l, m>>}]
    BY <2>1, <2>2 DEF Ctx, Context
  <2>4. /\ e \in Ctx /\ SameLinks(a, e) /\ e.flags = d.flags \cup {<<l, m>>}
        /\ e.spoiled = a.spoiled /\ e.count = a.count /\ e.phy = a.phy /\ e.err = a.err
    BY <1>0, <2>2, <2>3 DEF Ctx, Context, SameLinks, SameSource
  <2>5. SameLinks(d, e)
    BY <2>2, <2>4 DEF SameLinks, SameSource
  <2>6. /\ PortGood(d) => PortGood(e)
        /\ PhyGood(d) => PhyGood(e)
    <3>1. e.count = d.count + 1 /\ IF d.count = 0 THEN e.phy ELSE e.phy = d.phy
      BY <2>2, <2>4
    <3>2. e.spoiled = d.spoiled
      BY <2>2, <2>4
    <3> QED
      BY <1>3, <2>4, <3>1, <3>2, PortTaken
  <2>7. PortKept(d, e)
    BY <2>6 DEF PortKept, Sound, Bare
  <2> QED
    BY <1>3, <2>2, <2>4, <2>5, <2>7 DEF e
<1> QED
  BY <1>1, <1>2, <1>3

LEMMA GiveMapDoes ==
    ASSUME Links \in SUBSET SerialLinks, NEW d \in Ctx, NEW l \in Links, NEW m \in Maps
    PROVE  LET e == GiveMap(d, l, m) IN
           /\ e \in Ctx /\ SameLinks(d, e) /\ e.spoiled = d.spoiled
           /\ e.flags \subseteq d.flags /\ d.flags \ {<<l, m>>} \subseteq e.flags
           /\ ~e.err => ~d.err /\ <<l, m>> \notin e.flags
           /\ PortKept(d, e)
<1> DEFINE a == CsiOff(d)
           e == GiveMap(d, l, m)
<1>0. d.flags \in SUBSET (Links \X Maps)
  BY DEF Ctx, Context
<1>1. CASE d.err \/ <<l, m>> \notin d.flags
  <2>1. e = d
    BY <1>1 DEF GiveMap
  <2> QED
    BY <1>1, <2>1 DEF SameLinks, SameSource, PortKept
<1>2. CASE ~(d.err \/ <<l, m>> \notin d.flags) /\ a.err
  <2>1. e = a
    BY <1>2 DEF GiveMap
  <2>2. /\ e \in Ctx /\ SameLinks(d, e) /\ e.flags = d.flags /\ e.spoiled = d.spoiled
        /\ e.count = d.count
        /\ scene.chip # "max9296" => e.phy = d.phy
    BY <1>2, <2>1, CsiOffDoes
  <2>3. PortKept(d, e)
    BY <1>2, <2>2 DEF PortKept, Sound, PortGood, PhyGood, Bare
  <2> QED
    BY <1>2, <2>1, <2>2, <2>3
<1>3. CASE ~(d.err \/ <<l, m>> \notin d.flags) /\ ~a.err
  <2>1. e = [a EXCEPT !.flags = @ \ {<<l, m>>}]
    BY <1>3 DEF GiveMap
  <2>2. /\ a \in Ctx /\ SameLinks(d, a) /\ a.flags = d.flags /\ a.spoiled = d.spoiled
        /\ d.count > 0 => a.count = d.count - 1
        /\ d.count # 1 => a.phy = d.phy
    BY <1>3, CsiOffDoes
  <2> HIDE DEF a, e
  <2>3. e = [a EXCEPT !.flags = d.flags \ {<<l, m>>}]
    BY <2>1, <2>2 DEF Ctx, Context
  <2>4. /\ e \in Ctx /\ SameLinks(a, e) /\ e.flags = d.flags \ {<<l, m>>}
        /\ e.spoiled = a.spoiled /\ e.count = a.count /\ e.phy = a.phy /\ e.err = a.err
    BY <1>0, <2>2, <2>3 DEF Ctx, Context, SameLinks, SameSource
  <2>5. SameLinks(d, e)
    BY <2>2, <2>4 DEF SameLinks, SameSource
  <2>6. /\ PortGood(d) => PortGood(e)
        /\ PortGood(d) /\ PhyGood(d) => PhyGood(e)
    <3>1. (d.count > 0 => e.count = d.count - 1) /\ (d.count # 1 => e.phy = d.phy)
      BY <2>2, <2>4
    <3>2. e.spoiled = d.spoiled
      BY <2>2, <2>4
    <3> QED
      BY <1>3, <2>4, <3>1, <3>2, PortGiven
  <2>7. PortKept(d, e)
    BY <2>4, <2>6 DEF PortKept, Sound, Bare
  <2> QED
    BY <1>3, <2>2, <2>4, <2>5, <2>7 DEF e
<1> QED
  BY <1>1, <1>2, <1>3

LEMMA PairsOfLink ==
    ASSUME NEW l
    PROVE  {l} \X Maps = {<<l, 0>>, <<l, 1>>, <<l, 2>>} /\ 0 \in Maps /\ 1 \in Maps /\ 2 \in Maps
<1>1. Maps = {0, 1, 2}
  BY DEF Maps
<1> QED
  BY <1>1

LEMMA TakeDoes ==
    ASSUME Links \in SUBSET SerialLinks, scene.chip # "max9296", NEW d \in Ctx, NEW l \in Links
    PROVE  LET e == Take(d, l) IN
           /\ e \in Ctx /\ SameLinks(d, e) /\ e.spoiled = d.spoiled
           /\ d.flags \subseteq e.flags /\ e.flags \subseteq d.flags \cup ({l} \X Maps)
           /\ ~e.err => ~d.err /\ {l} \X Maps \subseteq e.flags
           /\ PortKept(d, e)
<1>1. PICK x : x = TakeMap(d, l, 0)
  OBVIOUS
<1>2. PICK y : y = TakeMap(x, l, 1)
  OBVIOUS
<1>3. PICK z : z = TakeMap(y, l, 2)
  OBVIOUS
<1>4. Take(d, l) = z
  BY <1>1, <1>2, <1>3 DEF Take, EachMap
<1>5. /\ x \in Ctx /\ SameLinks(d, x) /\ x.spoiled = d.spoiled
      /\ d.flags \subseteq x.flags /\ x.flags \subseteq d.flags \cup {<<l, 0>>}
      /\ ~x.err => ~d.err /\ <<l, 0>> \in x.flags
      /\ PortKept(d, x)
  BY <1>1, PairsOfLink, TakeMapDoes
<1>6. /\ y \in Ctx /\ SameLinks(x, y) /\ y.spoiled = x.spoiled
      /\ x.flags \subseteq y.flags /\ y.flags \subseteq x.flags \cup {<<l, 1>>}
      /\ ~y.err => ~x.err /\ <<l, 1>> \in y.flags
      /\ PortKept(x, y)
  BY <1>2, <1>5, PairsOfLink, TakeMapDoes
<1>7. /\ z \in Ctx /\ SameLinks(y, z) /\ z.spoiled = y.spoiled
      /\ y.flags \subseteq z.flags /\ z.flags \subseteq y.flags \cup {<<l, 2>>}
      /\ ~z.err => ~y.err /\ <<l, 2>> \in z.flags
      /\ PortKept(y, z)
  BY <1>3, <1>6, PairsOfLink, TakeMapDoes
<1>8. SameLinks(d, z) /\ z.spoiled = d.spoiled /\ PortKept(d, z)
  BY <1>5, <1>6, <1>7 DEF SameLinks, SameSource, PortKept
<1>9. /\ d.flags \subseteq z.flags /\ z.flags \subseteq d.flags \cup ({l} \X Maps)
      /\ ~z.err => ~d.err /\ {l} \X Maps \subseteq z.flags
  BY <1>5, <1>6, <1>7, PairsOfLink
<1> QED
  BY <1>4, <1>7, <1>8, <1>9

LEMMA GiveDoes ==
    ASSUME Links \in SUBSET SerialLinks, NEW d \in Ctx, NEW l \in Links
    PROVE  LET e == EachMap(LAMBDA x, m : GiveMap(x, l, m), d) IN
           /\ e \in Ctx /\ SameLinks(d, e) /\ e.spoiled = d.spoiled
           /\ e.flags \subseteq d.flags /\ d.flags \ ({l} \X Maps) \subseteq e.flags
           /\ ~e.err => ~d.err /\ e.flags \cap ({l} \X Maps) = {}
           /\ PortKept(d, e)
<1>1. PICK x : x = GiveMap(d, l, 0)
  OBVIOUS
<1>2. PICK y : y = GiveMap(x, l, 1)
  OBVIOUS
<1>3. PICK z : z = GiveMap(y, l, 2)
  OBVIOUS
<1>4. EachMap(LAMBDA w, m : GiveMap(w, l, m), d) = z
  BY <1>1, <1>2, <1>3 DEF EachMap
<1>5. /\ x \in Ctx /\ SameLinks(d, x) /\ x.spoiled = d.spoiled
      /\ x.flags \subseteq d.flags /\ d.flags \ {<<l, 0>>} \subseteq x.flags
      /\ ~x.err => ~d.err /\ <<l, 0>> \notin x.flags
      /\ PortKept(d, x)
  BY <1>1, PairsOfLink, GiveMapDoes
<1>6. /\ y \in Ctx /\ SameLinks(x, y) /\ y.spoiled = x.spoiled
      /\ y.flags \subseteq x.flags /\ x.flags \ {<<l, 1>>} \subseteq y.flags
      /\ ~y.err => ~x.err /\ <<l, 1>> \notin y.flags
      /\ PortKept(x, y)
  BY <1>2, <1>5, PairsOfLink, GiveMapDoes
<1>7. /\ z \in Ctx /\ SameLinks(y, z) /\ z.spoiled = y.spoiled
      /\ z.flags \subseteq y.flags /\ y.flags \ {<<l, 2>>} \subseteq z.flags
      /\ ~z.err => ~y.err /\ <<l, 2>> \notin z.flags
      /\ PortKept(y, z)
  BY <1>3, <1>6, PairsOfLink, GiveMapDoes
<1>8. SameLinks(d, z) /\ z.spoiled = d.spoiled /\ PortKept(d, z)
  BY <1>5, <1>6, <1>7 DEF SameLinks, SameSource, PortKept
<1>9. /\ z.flags \subseteq d.flags /\ d.flags \ ({l} \X Maps) \subseteq z.flags
      /\ ~z.err => ~d.err /\ z.flags \cap ({l} \X Maps) = {}
  BY <1>5, <1>6, <1>7, PairsOfLink
<1> QED
  BY <1>4, <1>7, <1>8, <1>9

LEMMA EnableDoes ==
    ASSUME Links \in SUBSET SerialLinks, NEW d \in Ctx, NEW l \in Links
    PROVE  LET e == ChipEnable(d, l) IN
           /\ e \in Ctx /\ SameRest(d, e) /\ e.up = d.up
           /\ LinkOnly(d, e, l) /\ e.enabled = d.enabled
           /\ ~e.err => Ready(e, l)
           /\ PortKept(d, e)
<1>1. CASE scene.chip = "max9296"
  <2> DEFINE a  == Try(d, "lock", d)
             on == [a EXCEPT !.pipes = @ \cup {l}]
             e  == Try(a, "pipeOn", on)
  <2>1. /\ a \in Ctx
        /\ \/ a.err /\ SamePort(d, a) /\ SameLinks(d, a)
           \/ ~d.err /\ a = d
    BY TryOutcome
  <2> HIDE DEF a
  <2>2. SamePort(d, a) /\ SameLinks(d, a)
    BY <2>1 DEF SamePort, SameLinks, SameSource
  <2>3. on = [a EXCEPT !.pipes = a.pipes \cup {l}]
    BY <2>1 DEF Ctx, Context
  <2> HIDE DEF on
  <2>4. on \in Ctx /\ SamePort(a, on) /\ SameRest(a, on) /\ on.up = a.up
          /\ on.enabled = a.enabled /\ on.pipes = a.pipes \cup {l}
    BY <2>1, <2>3 DEF Ctx, Context, SamePort, SameRest, SameSource
  <2>5. /\ e \in Ctx
        /\ \/ e.err /\ SamePort(a, e) /\ SameLinks(a, e)
           \/ ~a.err /\ e = on
    BY <2>1, <2>4, TryOutcome
  <2> HIDE DEF e
  <2>6. SamePort(d, e) /\ SameRest(d, e) /\ e.up = d.up /\ e.enabled = d.enabled
          /\ d.pipes \subseteq e.pipes /\ (~e.err => l \in e.pipes)
    BY <2>2, <2>4, <2>5 DEF SamePort, SameLinks, SameRest, SameSource
  <2>7. ChipEnable(d, l) = e
    BY <1>1 DEF ChipEnable, Enable9296, Routed9296, a, on, e
  <2>8. LinkOnly(d, e, l) /\ PortKept(d, e)
    BY <2>6 DEF SamePort, LinkOnly, PortKept, Sound, PortGood, PhyGood, Bare
  <2> QED
    BY <1>1, <2>5, <2>6, <2>7, <2>8 DEF Ready
<1>2. CASE scene.chip # "max9296"
  <2> DEFINE a  == Take(d, l)
             on == [a EXCEPT !.pipes = @ \cup {l}]
             b  == Try(a, "pipeOn", on)
             e  == Try(b, "lock", b)
  <2>1. /\ a \in Ctx /\ SameLinks(d, a) /\ a.spoiled = d.spoiled
        /\ d.flags \subseteq a.flags /\ a.flags \subseteq d.flags \cup ({l} \X Maps)
        /\ ~a.err => {l} \X Maps \subseteq a.flags
        /\ PortKept(d, a)
    BY <1>2, TakeDoes
  <2> HIDE DEF a
  <2>2. on = [a EXCEPT !.pipes = a.pipes \cup {l}]
    BY <2>1 DEF Ctx, Context
  <2> HIDE DEF on
  <2>3. on \in Ctx /\ SamePort(a, on) /\ SameRest(a, on) /\ on.up = a.up
          /\ on.enabled = a.enabled /\ on.pipes = a.pipes \cup {l}
    BY <2>1, <2>2 DEF Ctx, Context, SamePort, SameRest, SameSource
  <2>4. /\ b \in Ctx
        /\ \/ b.err /\ SamePort(a, b) /\ SameLinks(a, b)
           \/ ~a.err /\ b = on
    BY <2>1, <2>3, TryOutcome
  <2> HIDE DEF b
  <2>5. /\ e \in Ctx
        /\ \/ e.err /\ SamePort(b, e) /\ SameLinks(b, e)
           \/ ~b.err /\ e = b
    BY <2>4, TryOutcome
  <2> HIDE DEF e
  <2>6. SamePort(a, e) /\ SameRest(a, e) /\ e.up = a.up /\ e.enabled = a.enabled
          /\ a.pipes \subseteq e.pipes /\ (~e.err => ~a.err /\ l \in e.pipes)
    BY <2>3, <2>4, <2>5 DEF SamePort, SameLinks, SameRest, SameSource
  <2>7. ChipEnable(d, l) = e
    BY <1>2 DEF ChipEnable, Enable96724, Routed96724, a, b, on, e
  <2>8. SameRest(d, e) /\ e.up = d.up /\ e.enabled = d.enabled /\ e.flags = a.flags
          /\ d.pipes \subseteq e.pipes
    BY <2>1, <2>6 DEF SamePort, SameLinks, SameRest, SameSource
  <2>9. LinkOnly(d, e, l)
    BY <2>1, <2>8 DEF LinkOnly
  <2>10. PortKept(d, e)
    BY <1>2, <2>1, <2>6 DEF SamePort, PortKept, Sound, PortGood, PhyGood, Bare
  <2> QED
    BY <2>1, <2>5, <2>6, <2>7, <2>8, <2>9, <2>10 DEF Ready
<1> QED
  BY <1>1, <1>2

LEMMA DisableDoes ==
    ASSUME Links \in SUBSET SerialLinks, NEW d \in Ctx, NEW l \in Links
    PROVE  LET e == ChipDisable(d, l) IN
           /\ e \in Ctx /\ SameRest(d, e) /\ e.up = d.up
           /\ LinkOnly(d, e, l) /\ e.enabled = d.enabled
           /\ e.flags \subseteq d.flags
           /\ ~e.err => e.flags \cap ({l} \X Maps) = {}
           /\ PortKept(d, e)
<1> DEFINE off == [d EXCEPT !.pipes = @ \ {l}]
           a   == Try(d, "pipeOff", off)
           b   == EachMap(LAMBDA x, m : GiveMap(x, l, m), a)
           e   == Try(b, "lock", b)
<1>1. off = [d EXCEPT !.pipes = d.pipes \ {l}]
  BY DEF Ctx, Context
<1> HIDE DEF off
<1>2. off \in Ctx /\ SamePort(d, off) /\ SameRest(d, off) /\ off.up = d.up
        /\ off.enabled = d.enabled /\ off.pipes = d.pipes \ {l}
  BY <1>1 DEF Ctx, Context, SamePort, SameRest, SameSource
<1>3. /\ a \in Ctx
      /\ \/ a.err /\ SamePort(d, a) /\ SameLinks(d, a)
         \/ ~d.err /\ a = off
  BY <1>2, TryOutcome
<1> HIDE DEF a
<1>4. SamePort(d, a) /\ SameRest(d, a) /\ a.up = d.up /\ a.enabled = d.enabled
        /\ d.pipes \ {l} \subseteq a.pipes
  BY <1>2, <1>3 DEF SamePort, SameLinks, SameRest, SameSource
<1>5. /\ b \in Ctx /\ SameLinks(a, b) /\ b.spoiled = a.spoiled
      /\ b.flags \subseteq a.flags /\ a.flags \ ({l} \X Maps) \subseteq b.flags
      /\ ~b.err => ~a.err /\ b.flags \cap ({l} \X Maps) = {}
      /\ PortKept(a, b)
  BY <1>3, GiveDoes
<1> HIDE DEF b
<1>6. /\ SameRest(d, b) /\ b.up = d.up /\ b.enabled = d.enabled
      /\ d.pipes \ {l} \subseteq b.pipes
      /\ b.flags \subseteq d.flags /\ d.flags \ ({l} \X Maps) \subseteq b.flags
  BY <1>4, <1>5 DEF SamePort, SameLinks, SameRest, SameSource
<1>7. PortKept(d, b)
  BY <1>4, <1>5 DEF SamePort, PortKept, Sound, PortGood, PhyGood, Bare
<1>8. LinkOnly(d, b, l)
  BY <1>6 DEF LinkOnly
<1>9. CASE scene.chip = "max9296"
  <2>1. ChipDisable(d, l) = b
    BY <1>9 DEF ChipDisable, Disable9296, a, b, off
  <2> QED
    BY <1>5, <1>6, <1>7, <1>8, <2>1
<1>10. CASE scene.chip # "max9296"
  <2>1. ChipDisable(d, l) = e
    BY <1>10 DEF ChipDisable, Disable96724, Disable9296, a, b, e, off
  <2>2. /\ e \in Ctx
        /\ \/ e.err /\ SamePort(b, e) /\ SameLinks(b, e)
           \/ ~b.err /\ e = b
    BY <1>5, TryOutcome
  <2> HIDE DEF e
  <2>3. SamePort(b, e) /\ SameLinks(b, e) /\ (~e.err => ~b.err)
    BY <2>2 DEF SamePort, SameLinks, SameSource
  <2>4. /\ SameRest(d, e) /\ e.up = d.up /\ e.enabled = d.enabled
        /\ e.pipes = b.pipes /\ e.flags = b.flags
    BY <1>6, <2>3 DEF SamePort, SameLinks, SameRest, SameSource
  <2>5. LinkOnly(d, e, l)
    BY <1>6, <2>4 DEF LinkOnly
  <2>6. PortKept(d, e)
    BY <1>7, <2>3 DEF SamePort, PortKept, Sound, PortGood, PhyGood, Bare
  <2> QED
    BY <1>5, <1>6, <2>1, <2>2, <2>3, <2>4, <2>5, <2>6
<1> QED
  BY <1>9, <1>10

\* The handling of one link, which says whether it got ready.
Handled(d, e, l) ==
    e \in Ctx /\ SameRest(d, e) /\ LinkOnly(d, e, l) /\ PortKept(d, e)

LEMMA HandledTwice ==
    ASSUME NEW d, NEW e, NEW f, NEW l, Handled(d, e, l), Handled(e, f, l)
    PROVE  Handled(d, f, l)
<1>1. SameRest(d, f) /\ PortKept(d, f)
  BY DEF Handled, SameRest, SameSource, PortKept
<1>2. LinkOnly(d, f, l)
  BY DEF Handled, LinkOnly
<1> QED
  BY <1>1, <1>2 DEF Handled

\* Bookkeeping around a call.
LEMMA BookKeeping ==
    ASSUME NEW d \in Ctx, NEW l \in Links
    PROVE  /\ Handled(d, Ignored(d), l) /\ ~Ignored(d).err
           /\ Ignored(d).enabled = d.enabled /\ Ignored(d).up = d.up
           /\ Ignored(d).pipes = d.pipes /\ Ignored(d).flags = d.flags
           /\ Handled(d, [d EXCEPT !.up = @ \cup {l}], l)
           /\ [d EXCEPT !.up = @ \cup {l}].enabled = d.enabled
           /\ Handled(d, [d EXCEPT !.up = @ \ {l}], l)
           /\ [d EXCEPT !.up = @ \ {l}].enabled = d.enabled
           /\ [d EXCEPT !.up = @ \ {l}].flags = d.flags
           /\ Handled(d, [d EXCEPT !.enabled = @ \ {l}], l)
           /\ l \notin [d EXCEPT !.enabled = @ \ {l}].enabled
<1> DEFINE a == [d EXCEPT !.err = FALSE]
           b == [d EXCEPT !.up = @ \cup {l}]
           f == [d EXCEPT !.up = @ \ {l}]
           g == [d EXCEPT !.enabled = @ \ {l}]
<1> USE DEF Ctx, Context, SameRest, SameSource, SamePort
<1>1. /\ a \in Ctx /\ SameRest(d, a) /\ SamePort(d, a) /\ a.enabled = d.enabled
      /\ a.pipes = d.pipes /\ a.up = d.up /\ ~a.err
  OBVIOUS
<1>2. /\ b \in Ctx /\ SameRest(d, b) /\ SamePort(d, b) /\ b.enabled = d.enabled
      /\ b.pipes = d.pipes
  OBVIOUS
<1>3. /\ f \in Ctx /\ SameRest(d, f) /\ SamePort(d, f) /\ f.enabled = d.enabled
      /\ f.pipes = d.pipes
  OBVIOUS
<1>4. /\ g \in Ctx /\ SameRest(d, g) /\ SamePort(d, g) /\ g.enabled = d.enabled \ {l}
      /\ g.pipes = d.pipes
  OBVIOUS
<1>5. Ignored(d) = a
  BY DEF Ignored
<1> HIDE DEF a, b, f, g, Ctx, Context, SameRest, SameSource
<1>6. ASSUME NEW e \in Ctx, SameRest(d, e), SamePort(d, e), e.pipes = d.pipes,
             d.enabled \ {l} \subseteq e.enabled, e.enabled \subseteq d.enabled
      PROVE  Handled(d, e, l)
  BY <1>6 DEF Handled, LinkOnly, PortKept, Sound, PortGood, PhyGood, Bare
<1>7. Handled(d, a, l) /\ Handled(d, b, l) /\ Handled(d, f, l) /\ Handled(d, g, l)
  BY <1>1, <1>2, <1>3, <1>4, <1>6
<1>8. f.flags = d.flags /\ a.flags = d.flags
  BY <1>1, <1>3
<1> HIDE DEF Ignored
<1> QED
  BY <1>1, <1>2, <1>3, <1>4, <1>5, <1>7, <1>8 DEF a, b, f, g

LEMMA EnableLinkDoes ==
    ASSUME Links \in SUBSET SerialLinks, NEW d \in Ctx, NEW l \in Links
    PROVE  LET e == EnableLink(d, l) IN
           /\ Handled(d, e, l) /\ e.enabled = d.enabled
           /\ ~e.err => Ready(e, l)
<1>1. PICK a : a = [d EXCEPT !.up = @ \cup {l}]
  OBVIOUS
<1>2. PICK e : e = ChipEnable(a, l)
  OBVIOUS
<1>3. EnableLink(d, l) = e
  BY <1>1, <1>2 DEF EnableLink
<1>4. Handled(d, a, l) /\ a.enabled = d.enabled
  BY <1>1, BookKeeping
<1>5. a \in Ctx
  BY <1>4 DEF Handled
<1>6. /\ e \in Ctx /\ SameRest(a, e) /\ e.enabled = a.enabled
      /\ LinkOnly(a, e, l) /\ (~e.err => Ready(e, l)) /\ PortKept(a, e)
  BY <1>2, <1>5, EnableDoes
<1>7. Handled(a, e, l)
  BY <1>6 DEF Handled
<1> QED
  BY <1>3, <1>4, <1>6, <1>7, HandledTwice

LEMMA DisableLinkDoes ==
    ASSUME Links \in SUBSET SerialLinks, NEW d \in Ctx, NEW l \in Links
    PROVE  LET e == DisableLink(d, l) IN
           Handled(d, e, l) /\ e.enabled = d.enabled /\ e.flags \subseteq d.flags
<1>1. CASE l \notin d.up
  <2>1. DisableLink(d, l) = d
    BY <1>1 DEF DisableLink
  <2> QED
    BY <2>1 DEF Handled, SameRest, SameSource, LinkOnly, PortKept
<1>2. CASE l \in d.up
  <2>1. PICK a : a = ChipDisable(d, l)
    OBVIOUS
  <2>2. PICK b : b = Ignored(a)
    OBVIOUS
  <2>3. PICK e : e = [b EXCEPT !.up = @ \ {l}]
    OBVIOUS
  <2>4. DisableLink(d, l) = e
    BY <1>2, <2>1, <2>2, <2>3 DEF DisableLink
  <2>5. /\ a \in Ctx /\ SameRest(d, a) /\ LinkOnly(d, a, l) /\ a.enabled = d.enabled
        /\ a.flags \subseteq d.flags /\ PortKept(d, a)
    BY <2>1, DisableDoes
  <2>6. Handled(d, a, l)
    BY <2>5 DEF Handled
  <2>7. Handled(a, b, l) /\ b.enabled = a.enabled /\ b.flags = a.flags
    BY <2>2, <2>5, BookKeeping
  <2>8. b \in Ctx
    BY <2>7 DEF Handled
  <2>9. Handled(b, e, l) /\ e.enabled = b.enabled /\ e.flags = b.flags
    BY <2>3, <2>8, BookKeeping
  <2>10. Handled(d, e, l)
    BY <2>6, <2>7, <2>9, HandledTwice
  <2> QED
    BY <2>4, <2>5, <2>7, <2>9, <2>10
<1> QED
  BY <1>1, <1>2

LEMMA AttemptDoes ==
    ASSUME Links \in SUBSET SerialLinks, NEW d \in Ctx, NEW l \in Links, ~d.err => Ready(d, l)
    PROVE  LET e == Attempt(d, l) IN
           /\ e \in Ctx /\ Handled(d, e, l) /\ e.enabled = d.enabled
           /\ ~e.err => Ready(e, l)
<1>1. CASE ~d.err
  <2>1. Attempt(d, l) = d
    BY <1>1 DEF Attempt
  <2> QED
    BY <1>1, <2>1 DEF Handled, SameRest, SameSource, LinkOnly, PortKept
<1>2. CASE d.err
  <2>1. PICK a : a = Ignored(d)
    OBVIOUS
  <2>2. PICK e : e = EnableLink(a, l)
    OBVIOUS
  <2>3. Attempt(d, l) = e
    BY <1>2, <2>1, <2>2 DEF Attempt
  <2>4. Handled(d, a, l) /\ a.enabled = d.enabled
    BY <2>1, BookKeeping
  <2>5. a \in Ctx
    BY <2>4 DEF Handled
  <2>6. Handled(a, e, l) /\ e.enabled = a.enabled /\ (~e.err => Ready(e, l))
    BY <2>2, <2>5, EnableLinkDoes
  <2>7. Handled(d, e, l)
    BY <2>4, <2>6, HandledTwice
  <2> QED
    BY <2>3, <2>4, <2>6, <2>7 DEF Handled
<1> QED
  BY <1>1, <1>2

LEMMA AttemptsDo ==
    ASSUME Links \in SUBSET SerialLinks, NEW d \in Ctx, NEW l \in Links
    PROVE  LET e == Attempts(d, l) IN
           /\ e \in Ctx /\ Handled(d, e, l) /\ e.enabled = d.enabled
           /\ ~e.err => Ready(e, l)
<1>0. PICK z : z = Ignored(d)
  OBVIOUS
<1>1. PICK a : a = EnableLink(z, l)
  OBVIOUS
<1>2. PICK b : b = Attempt(a, l)
  OBVIOUS
<1>3. PICK f : f = Attempt(b, l)
  OBVIOUS
<1>4. PICK g : g = Attempt(f, l)
  OBVIOUS
<1>5. PICK h : h = Attempt(g, l)
  OBVIOUS
<1>6. Attempts(d, l) = h
  <2>1. f = Attempt(Attempt(a, l), l) /\ h = Attempt(Attempt(f, l), l)
    BY <1>2, <1>3, <1>4, <1>5
  <2>2. In(LAMBDA x : Attempt(Attempt(x, l), l), a) = f
    BY <2>1 DEF In
  <2>3. In(LAMBDA y : Attempt(Attempt(y, l), l), f) = h
    BY <2>1 DEF In
  <2>4. Attempts(d, l) = In(LAMBDA y : Attempt(Attempt(y, l), l),
                            In(LAMBDA x : Attempt(Attempt(x, l), l), a))
    BY <1>0, <1>1 DEF Attempts
  <2> QED
    BY <2>2, <2>3, <2>4
<1>7. Handled(d, z, l) /\ z.enabled = d.enabled
  BY <1>0, BookKeeping
<1>8. z \in Ctx
  BY <1>7 DEF Handled
<1>9. Handled(z, a, l) /\ a.enabled = z.enabled /\ (~a.err => Ready(a, l))
  BY <1>1, <1>8, EnableLinkDoes
<1>10. a \in Ctx
  BY <1>9 DEF Handled
<1>11. b \in Ctx /\ Handled(a, b, l) /\ b.enabled = a.enabled /\ (~b.err => Ready(b, l))
  BY <1>2, <1>9, <1>10, AttemptDoes
<1>12. f \in Ctx /\ Handled(b, f, l) /\ f.enabled = b.enabled /\ (~f.err => Ready(f, l))
  BY <1>3, <1>11, AttemptDoes
<1>13. g \in Ctx /\ Handled(f, g, l) /\ g.enabled = f.enabled /\ (~g.err => Ready(g, l))
  BY <1>4, <1>12, AttemptDoes
<1>14. h \in Ctx /\ Handled(g, h, l) /\ h.enabled = g.enabled /\ (~h.err => Ready(h, l))
  BY <1>5, <1>13, AttemptDoes
<1>15. Handled(d, a, l)
  BY <1>7, <1>9, HandledTwice
<1>16. Handled(d, f, l)
  BY <1>11, <1>12, <1>15, HandledTwice
<1>17. Handled(d, h, l)
  BY <1>13, <1>14, <1>16, HandledTwice
<1> QED
  BY <1>6, <1>7, <1>9, <1>11, <1>12, <1>13, <1>14, <1>17

\* A link that is still in use after bring-up is ready.
LEMMA BringUpDoes ==
    ASSUME Links \in SUBSET SerialLinks, NEW d \in Ctx, NEW l \in Links
    PROVE  LET e == BringUp(d, l) IN
           Handled(d, e, l) /\ (l \in e.enabled => Ready(e, l))
<1>1. CASE l \notin d.enabled
  <2>1. BringUp(d, l) = d
    BY <1>1 DEF BringUp
  <2> QED
    BY <1>1, <2>1 DEF Handled, SameRest, SameSource, LinkOnly, PortKept
<1>2. CASE l \in d.enabled
  <2>1. PICK a : a = Attempts(d, l)
    OBVIOUS
  <2>2. a \in Ctx /\ Handled(d, a, l) /\ a.enabled = d.enabled /\ (~a.err => Ready(a, l))
    BY <2>1, AttemptsDo
  <2>3. CASE ~a.err
    <3>1. BringUp(d, l) = a
      BY <1>2, <2>1, <2>3 DEF BringUp
    <3> QED
      BY <2>2, <2>3, <3>1
  <2>4. CASE a.err
    <3>1. PICK b : b = Ignored(a)
      OBVIOUS
    <3>2. PICK f : f = DisableLink(b, l)
      OBVIOUS
    <3>3. PICK e : e = [f EXCEPT !.enabled = @ \ {l}]
      OBVIOUS
    <3>4. BringUp(d, l) = e
      BY <1>2, <2>1, <2>4, <3>1, <3>2, <3>3 DEF BringUp
    <3>5. Handled(a, b, l)
      BY <2>2, <3>1, BookKeeping
    <3>6. b \in Ctx
      BY <3>5 DEF Handled
    <3>7. Handled(b, f, l)
      BY <3>2, <3>6, DisableLinkDoes
    <3>8. f \in Ctx
      BY <3>7 DEF Handled
    <3>9. Handled(f, e, l) /\ l \notin e.enabled
      BY <3>3, <3>8, BookKeeping
    <3>10. Handled(d, b, l)
      BY <2>2, <3>5, HandledTwice
    <3>11. Handled(b, e, l)
      BY <3>7, <3>9, HandledTwice
    <3> QED
      BY <3>4, <3>9, <3>10, <3>11, HandledTwice
  <2> QED
    BY <2>3, <2>4
<1> QED
  BY <1>1, <1>2

----------------------------------------------------------------------------
(* The loops over the links *)

\* The links S were brought up.
BroughtUp(d, e, S) ==
    /\ e \in Ctx /\ SameRest(d, e) /\ PortKept(d, e)
    /\ \A k \in e.enabled \cap S : Ready(e, k)

LEMMA BringUpNext ==
    ASSUME Links \in SUBSET SerialLinks, NEW d, NEW e, NEW S, NEW l, BroughtUp(d, e, S)
    PROVE  BroughtUp(d, OnLink(BringUp, e, l), S \cup {l})
<1>0. e \in Ctx
  BY DEF BroughtUp
<1>1. CASE l \notin Links
  <2>1. OnLink(BringUp, e, l) = e
    BY <1>1 DEF OnLink
  <2>2. l \notin e.enabled
    BY <1>0, <1>1 DEF Ctx, Context
  <2> QED
    BY <2>1, <2>2 DEF BroughtUp
<1>2. CASE l \in Links
  <2>1. PICK f : f = BringUp(e, l)
    OBVIOUS
  <2>2. In(LAMBDA x : BringUp(x, l), e) = f
    BY <2>1 DEF In
  <2>3. OnLink(BringUp, e, l) = f
    BY <1>2, <2>2 DEF OnLink
  <2>4. Handled(e, f, l) /\ (l \in f.enabled => Ready(f, l))
    BY <1>0, <1>2, <2>1, BringUpDoes
  <2>5. f \in Ctx /\ SameRest(d, f) /\ PortKept(d, f)
    BY <2>4 DEF BroughtUp, Handled, SameRest, SameSource, PortKept
  <2>6. ASSUME NEW k \in f.enabled \cap (S \cup {l}), k # l PROVE Ready(f, k)
    <3>1. k \in e.enabled \cap S
      BY <2>4, <2>6 DEF Handled, LinkOnly
    <3>2. Ready(e, k)
      BY <3>1 DEF BroughtUp
    <3>3. ({k} \X Maps) \cap ({l} \X Maps) = {}
      BY <2>6
    <3> QED
      BY <2>4, <2>6, <3>2, <3>3 DEF Handled, LinkOnly, Ready
  <2> QED
    BY <2>3, <2>4, <2>5, <2>6 DEF BroughtUp
<1> QED
  BY <1>1, <1>2

LEMMA AllBroughtUp ==
    ASSUME Links \in SUBSET SerialLinks, NEW d \in Ctx
    PROVE  LET e == EachLink(BringUp, d) IN
           e \in Ctx /\ SameRest(d, e) /\ PortKept(d, e) /\ \A k \in e.enabled : Ready(e, k)
<1>1. PICK a : a = OnLink(BringUp, d, 0)
  OBVIOUS
<1>2. PICK b : b = OnLink(BringUp, a, 1)
  OBVIOUS
<1>3. PICK f : f = OnLink(BringUp, b, 2)
  OBVIOUS
<1>4. PICK e : e = OnLink(BringUp, f, 3)
  OBVIOUS
<1>5. EachLink(BringUp, d) = e
  BY <1>1, <1>2, <1>3, <1>4 DEF EachLink
<1>6. BroughtUp(d, d, {})
  BY DEF BroughtUp, SameRest, SameSource, PortKept
<1>7. BroughtUp(d, a, {} \cup {0})
  BY <1>1, <1>6, BringUpNext
<1>8. BroughtUp(d, b, ({} \cup {0}) \cup {1})
  BY <1>2, <1>7, BringUpNext
<1>9. BroughtUp(d, f, (({} \cup {0}) \cup {1}) \cup {2})
  BY <1>3, <1>8, BringUpNext
<1>10. BroughtUp(d, e, ((({} \cup {0}) \cup {1}) \cup {2}) \cup {3})
  BY <1>4, <1>9, BringUpNext
<1>11. e.enabled \subseteq ((({} \cup {0}) \cup {1}) \cup {2}) \cup {3}
  <2>1. e.enabled \subseteq 0 .. 3
    BY <1>10 DEF BroughtUp, Ctx, Context, SerialLinks
  <2> QED
    BY <2>1
<1> QED
  BY <1>5, <1>10, <1>11 DEF BroughtUp

\* The links S were turned off, if nothing failed.
TurnedOff(d, e, S) ==
    /\ e \in Ctx /\ SameRest(d, e) /\ e.enabled = d.enabled /\ e.flags \subseteq d.flags
    /\ PortGood(d) => PortGood(e)
    /\ ~e.err => \A k \in S, m \in Maps : <<k, m>> \notin e.flags

LEMMA TurnOffNext ==
    ASSUME Links \in SUBSET SerialLinks, NEW d, NEW e, NEW S, NEW l, TurnedOff(d, e, S)
    PROVE  TurnedOff(d, OnLink(TurnOff, e, l), S \cup {l})
<1>0. e \in Ctx
  BY DEF TurnedOff
<1>1. CASE l \notin Links
  <2>1. OnLink(TurnOff, e, l) = e
    BY <1>1 DEF OnLink
  <2>2. \A m \in Maps : <<l, m>> \notin e.flags
    BY <1>0, <1>1 DEF Ctx, Context
  <2> QED
    BY <2>1, <2>2 DEF TurnedOff
<1>2. CASE l \in Links
  <2>1. PICK f : f = TurnOff(e, l)
    OBVIOUS
  <2>2. In(LAMBDA x : TurnOff(x, l), e) = f
    BY <2>1 DEF In
  <2>3. OnLink(TurnOff, e, l) = f
    BY <1>2, <2>2 DEF OnLink
  <2>4. CASE e.err
    <3>1. f = e
      BY <2>1, <2>4 DEF TurnOff
    <3> QED
      BY <2>3, <2>4, <3>1 DEF TurnedOff
  <2>5. CASE ~e.err
    <3>1. f = ChipDisable(e, l)
      BY <2>1, <2>5 DEF TurnOff
    <3>2. /\ f \in Ctx /\ SameRest(e, f) /\ f.enabled = e.enabled /\ f.flags \subseteq e.flags
          /\ ~f.err => f.flags \cap ({l} \X Maps) = {}
          /\ PortKept(e, f)
      BY <1>0, <1>2, <3>1, DisableDoes
    <3>3. SameRest(d, f) /\ f.enabled = d.enabled /\ f.flags \subseteq d.flags
            /\ (PortGood(d) => PortGood(f))
      BY <3>2 DEF TurnedOff, SameRest, SameSource, PortKept
    <3>4. ASSUME ~f.err, NEW k \in S \cup {l}, NEW m \in Maps PROVE <<k, m>> \notin f.flags
      <4>1. CASE k = l
        BY <3>2, <3>4, <4>1
      <4>2. CASE k \in S
        BY <2>5, <3>2, <4>2 DEF TurnedOff
      <4> QED
        BY <3>4, <4>1, <4>2
    <3> QED
      BY <2>3, <3>2, <3>3, <3>4 DEF TurnedOff
  <2> QED
    BY <2>4, <2>5
<1> QED
  BY <1>1, <1>2

LEMMA AllTurnedOff ==
    ASSUME Links \in SUBSET SerialLinks, NEW d \in Ctx
    PROVE  LET e == AllOff(d) IN
           /\ e \in Ctx /\ SameRest(d, e) /\ e.enabled = d.enabled /\ e.flags \subseteq d.flags
           /\ PortGood(d) => PortGood(e)
           /\ ~e.err => e.flags = {}
<1>1. PICK a : a = OnLink(TurnOff, d, 0)
  OBVIOUS
<1>2. PICK b : b = OnLink(TurnOff, a, 1)
  OBVIOUS
<1>3. PICK f : f = OnLink(TurnOff, b, 2)
  OBVIOUS
<1>4. PICK e : e = OnLink(TurnOff, f, 3)
  OBVIOUS
<1>5. AllOff(d) = e
  BY <1>1, <1>2, <1>3, <1>4 DEF AllOff, EachLink
<1>6. TurnedOff(d, d, {})
  BY DEF TurnedOff, SameRest, SameSource
<1>7. TurnedOff(d, a, {} \cup {0})
  BY <1>1, <1>6, TurnOffNext
<1>8. TurnedOff(d, b, ({} \cup {0}) \cup {1})
  BY <1>2, <1>7, TurnOffNext
<1>9. TurnedOff(d, f, (({} \cup {0}) \cup {1}) \cup {2})
  BY <1>3, <1>8, TurnOffNext
<1>10. TurnedOff(d, e, ((({} \cup {0}) \cup {1}) \cup {2}) \cup {3})
  BY <1>4, <1>9, TurnOffNext
<1>11. ~e.err => e.flags = {}
  <2>1. e.flags \subseteq (0 .. 3) \X Maps
    BY <1>10 DEF TurnedOff, Ctx, Context, SerialLinks
  <2>2. 0 .. 3 = ((({} \cup {0}) \cup {1}) \cup {2}) \cup {3}
    OBVIOUS
  <2> QED
    BY <1>10, <2>1, <2>2 DEF TurnedOff
<1> QED
  BY <1>5, <1>10, <1>11 DEF TurnedOff

LEMMA EmptyPort ==
    ASSUME Links \in SUBSET SerialLinks, NEW d \in Ctx, PortGood(d), d.flags = {}
    PROVE  Sound(d)
<1>1. Cardinality(d.flags) = 0
  BY Holders
<1> QED
  BY <1>1 DEF Sound, PortGood, PhyGood, Bare

\* A deserializer that was switched on has given up the port.
LEMMA PowerDoes ==
    ASSUME Links \in SUBSET SerialLinks, NEW d \in Ctx
    PROVE  LET e == Power(d) IN
           /\ e \in Ctx /\ SameRest(d, e) /\ e.enabled = d.enabled /\ e.flags \subseteq d.flags
           /\ PortGood(d) => PortGood(e) /\ (~e.err => Sound(e))
<1>1. PICK a : a = AllOff(d)
  OBVIOUS
<1>2. PICK off : off = [a EXCEPT !.phy = FALSE]
  OBVIOUS
<1>3. PICK e : e = Try(a, "configure", off)
  OBVIOUS
<1>4. Power(d) = e
  BY <1>1, <1>2, <1>3
     DEF Power, Enabled9296, Enabled96724, Configure9296, Configure96724
<1>5. /\ a \in Ctx /\ SameRest(d, a) /\ a.enabled = d.enabled /\ a.flags \subseteq d.flags
      /\ PortGood(d) => PortGood(a)
      /\ ~a.err => a.flags = {}
  BY <1>1, AllTurnedOff
<1>6. off \in Ctx /\ SameRest(a, off) /\ off.enabled = a.enabled /\ off.flags = a.flags
        /\ off.count = a.count
  BY <1>2, <1>5 DEF Ctx, Context, SameRest, SameSource
<1>7. /\ e \in Ctx
      /\ \/ e.err /\ SamePort(a, e) /\ SameLinks(a, e)
         \/ ~a.err /\ e = off
  BY <1>3, <1>5, <1>6, TryOutcome
<1>8. SameRest(a, e) /\ e.enabled = a.enabled /\ e.flags = a.flags /\ e.count = a.count
        /\ (~e.err => ~a.err)
  BY <1>6, <1>7 DEF SamePort, SameLinks, SameRest, SameSource
<1>9. SameRest(d, e) /\ e.enabled = d.enabled /\ e.flags \subseteq d.flags
  BY <1>5, <1>8 DEF SameRest, SameSource
<1>10. PortGood(a) => PortGood(e)
  BY <1>8 DEF SameRest, PortGood
<1>11. PortGood(e) /\ ~e.err => Sound(e)
  <2>1. ~e.err => e.flags = {}
    BY <1>5, <1>8
  <2> QED
    BY <1>7, <2>1, EmptyPort
<1> QED
  BY <1>4, <1>5, <1>7, <1>9, <1>10, <1>11

\* A serializer that is reached and wakes transmits.
Woken(d, e) ==
    /\ e \in Ctx /\ SamePort(d, e) /\ SameSource(d, e)
    /\ e.pipes = d.pipes /\ e.up = d.up /\ e.enabled = d.enabled
    /\ e.ser \subseteq d.ser \cup d.enabled

LEMMA WakeNext ==
    ASSUME NEW d, NEW e, NEW l, Woken(d, e)
    PROVE  Woken(d, OnLink(Wake, e, l))
<1>0. e \in Ctx
  BY DEF Woken
<1>1. CASE l \notin Links
  BY <1>1 DEF OnLink
<1>2. CASE l \in Links
  <2>1. PICK f : f = Wake(e, l)
    OBVIOUS
  <2>2. In(LAMBDA x : Wake(x, l), e) = f
    BY <2>1 DEF In
  <2>3. OnLink(Wake, e, l) = f
    BY <1>2, <2>2 DEF OnLink
  <2>4. CASE l \notin e.enabled
    <3>1. f = e
      BY <2>1, <2>4 DEF Wake
    <3> QED
      BY <2>3, <3>1
  <2>5. CASE l \in e.enabled
    <3>1. PICK on : on = [e EXCEPT !.ser = @ \cup {l}]
      OBVIOUS
    <3>2. PICK t : t = Try(e, "wake", on)
      OBVIOUS
    <3>3. f = [t EXCEPT !.err = FALSE]
      BY <2>1, <2>5, <3>1, <3>2 DEF Wake, Ignored
    <3>4. on = [e EXCEPT !.ser = e.ser \cup {l}]
      BY <1>0, <3>1 DEF Ctx, Context
    <3>5. on \in Ctx /\ SamePort(e, on) /\ SameSource(e, on) /\ on.pipes = e.pipes
            /\ on.up = e.up /\ on.enabled = e.enabled /\ on.ser = e.ser \cup {l}
      BY <1>0, <1>2, <3>4 DEF Ctx, Context, SamePort, SameSource
    <3>6. /\ t \in Ctx
          /\ \/ t.err /\ SamePort(e, t) /\ SameLinks(e, t)
             \/ ~e.err /\ t = on
      BY <1>0, <3>2, <3>5, TryOutcome
    <3>7. /\ SamePort(e, t) /\ SameSource(e, t) /\ t.pipes = e.pipes
          /\ t.up = e.up /\ t.enabled = e.enabled /\ t.ser \subseteq e.ser \cup {l}
      BY <3>5, <3>6 DEF SamePort, SameLinks, SameSource
    <3>8. /\ f \in Ctx /\ SamePort(t, f) /\ SameSource(t, f) /\ f.pipes = t.pipes
          /\ f.up = t.up /\ f.enabled = t.enabled /\ f.ser = t.ser
      BY <3>3, <3>6 DEF Ctx, Context, SamePort, SameSource
    <3> QED
      BY <2>3, <2>5, <3>7, <3>8 DEF Woken, SamePort, SameSource
  <2> QED
    BY <2>4, <2>5
<1> QED
  BY <1>1, <1>2

LEMMA SerializeDoes ==
    ASSUME NEW d \in Ctx
    PROVE  Woken(d, Serialize(d))
<1>1. PICK a : a = OnLink(Wake, d, 0)
  OBVIOUS
<1>2. PICK b : b = OnLink(Wake, a, 1)
  OBVIOUS
<1>3. PICK f : f = OnLink(Wake, b, 2)
  OBVIOUS
<1>4. PICK e : e = OnLink(Wake, f, 3)
  OBVIOUS
<1>5. Serialize(d) = e
  BY <1>1, <1>2, <1>3, <1>4 DEF Serialize, EachLink
<1>6. Woken(d, d)
  BY DEF Woken, SamePort, SameSource
<1>7. Woken(d, a)
  BY <1>1, <1>6, WakeNext
<1>8. Woken(d, b)
  BY <1>2, <1>7, WakeNext
<1>9. Woken(d, f)
  BY <1>3, <1>8, WakeNext
<1> QED
  BY <1>4, <1>5, <1>9, WakeNext

\* All links went to sleep.
LEMMA SleepNext ==
    ASSUME Links \in SUBSET SerialLinks, NEW d \in Ctx, NEW l
    PROVE  LET e == OnLink(DisableLink, d, l) IN
           e \in Ctx /\ SameRest(d, e) /\ (PortGood(d) => PortGood(e))
<1>1. CASE l \notin Links
  BY <1>1 DEF OnLink, SameRest, SameSource
<1>2. CASE l \in Links
  <2>1. PICK f : f = DisableLink(d, l)
    OBVIOUS
  <2>2. In(LAMBDA x : DisableLink(x, l), d) = f
    BY <2>1 DEF In
  <2>3. OnLink(DisableLink, d, l) = f
    BY <1>2, <2>2 DEF OnLink
  <2>4. Handled(d, f, l)
    BY <1>2, <2>1, DisableLinkDoes
  <2> QED
    BY <2>3, <2>4 DEF Handled, PortKept
<1> QED
  BY <1>1, <1>2

LEMMA AllAsleep ==
    ASSUME Links \in SUBSET SerialLinks, NEW d \in Ctx
    PROVE  LET e == EachLink(DisableLink, d) IN
           e \in Ctx /\ SameRest(d, e) /\ (PortGood(d) => PortGood(e))
<1>1. PICK a : a = OnLink(DisableLink, d, 0)
  OBVIOUS
<1>2. PICK b : b = OnLink(DisableLink, a, 1)
  OBVIOUS
<1>3. PICK f : f = OnLink(DisableLink, b, 2)
  OBVIOUS
<1>4. PICK e : e = OnLink(DisableLink, f, 3)
  OBVIOUS
<1>5. EachLink(DisableLink, d) = e
  BY <1>1, <1>2, <1>3, <1>4 DEF EachLink
<1>6. a \in Ctx /\ SameRest(d, a) /\ (PortGood(d) => PortGood(a))
  BY <1>1, SleepNext
<1>7. b \in Ctx /\ SameRest(a, b) /\ (PortGood(a) => PortGood(b))
  BY <1>2, <1>6, SleepNext
<1>8. f \in Ctx /\ SameRest(b, f) /\ (PortGood(b) => PortGood(f))
  BY <1>3, <1>7, SleepNext
<1>9. e \in Ctx /\ SameRest(f, e) /\ (PortGood(f) => PortGood(e))
  BY <1>4, <1>8, SleepNext
<1>10. SameRest(d, e)
  BY <1>6, <1>7, <1>8, <1>9 DEF SameRest, SameSource
<1> QED
  BY <1>5, <1>6, <1>7, <1>8, <1>9, <1>10

\* What bring-up leaves behind: the links that transmit are ready.
LEMMA LinksBroughtUp ==
    ASSUME Links \in SUBSET SerialLinks, NEW d \in Ctx, d.ser = {}
    PROVE  LET e == Serialize(EachLink(BringUp, d)) IN
           /\ e \in Ctx /\ SameSource(d, e) /\ e.spoiled = d.spoiled
           /\ \A k \in e.ser : Ready(e, k)
           /\ PortGood(d) => PortGood(e)
           /\ Sound(d) => PhyGood(e)
<1>1. PICK a : a = EachLink(BringUp, d)
  OBVIOUS
<1>2. PICK e : e = Serialize(a)
  OBVIOUS
<1>3. Serialize(EachLink(BringUp, d)) = e
  BY <1>1, <1>2
<1>4. a \in Ctx /\ SameRest(d, a) /\ PortKept(d, a) /\ \A k \in a.enabled : Ready(a, k)
  BY <1>1, AllBroughtUp
<1>5. Woken(a, e)
  BY <1>2, <1>4, SerializeDoes
<1>6. \A k \in e.ser : Ready(e, k)
  BY <1>4, <1>5 DEF Woken, SamePort, SameRest, Ready
<1>7. SameSource(d, e) /\ e.spoiled = d.spoiled
  BY <1>4, <1>5 DEF Woken, SamePort, SameRest, SameSource
<1>8. (PortGood(a) => PortGood(e)) /\ (PhyGood(a) => PhyGood(e))
  BY <1>5 DEF Woken, SamePort, PortGood, PhyGood
<1>9. (PortGood(d) => PortGood(a)) /\ (Sound(d) => PhyGood(a))
  BY <1>4 DEF PortKept, Sound
<1> QED
  BY <1>3, <1>5, <1>6, <1>7, <1>8, <1>9 DEF Woken

LEMMA ResumedIs ==
    ASSUME Links \in SUBSET SerialLinks, NEW d \in Ctx, d.ser = {}, PortGood(d)
    PROVE  LET e == Resumed(d) IN
           /\ e \in Ctx /\ SameSource(d, e) /\ e.spoiled = d.spoiled /\ PortGood(e)
           /\ \A k \in e.ser : Ready(e, k)
           /\ e.ser # {} => PhyGood(e)
<1>1. PICK a : a = Power(d)
  OBVIOUS
<1>2. /\ a \in Ctx /\ SameRest(d, a) /\ PortGood(a)
      /\ ~a.err => Sound(a)
  BY <1>1, PowerDoes
<1>3. a.ser = {}
  BY <1>2 DEF SameRest
<1>4. CASE a.err
  <2>1. Resumed(d) = a
    BY <1>1, <1>4 DEF Resumed
  <2> QED
    BY <1>2, <1>3, <2>1 DEF SameRest
<1>5. CASE ~a.err
  <2>1. PICK e : e = Serialize(EachLink(BringUp, a))
    OBVIOUS
  <2>2. Resumed(d) = e
    BY <1>1, <1>5, <2>1 DEF Resumed
  <2>3. /\ e \in Ctx /\ SameSource(a, e) /\ e.spoiled = a.spoiled
        /\ \A k \in e.ser : Ready(e, k)
        /\ PortGood(a) => PortGood(e)
        /\ Sound(a) => PhyGood(e)
    BY <1>2, <1>3, <2>1, LinksBroughtUp
  <2>4. SameSource(d, e) /\ e.spoiled = d.spoiled
    BY <1>2, <2>3 DEF SameRest, SameSource
  <2> QED
    BY <1>2, <1>5, <2>2, <2>3, <2>4
<1> QED
  BY <1>4, <1>5

----------------------------------------------------------------------------
(* Streams *)

SameBoard(d, e) ==
    /\ e.pipes = d.pipes /\ e.up = d.up /\ e.enabled = d.enabled
    /\ e.bound = d.bound /\ e.ser = d.ser /\ e.op = d.op

LEMMA RemoteOnDoes ==
    ASSUME NEW d \in Ctx, ~d.err, NEW r \in Links \X Nat
    PROVE  LET e == RemoteOn(d, r) IN
           /\ e \in Ctx /\ SamePort(d, e) /\ SameBoard(d, e)
           /\ e.err => e.cams = d.cams /\ e.serOn = d.serOn
           /\ ~e.err => e.cams = d.cams \cup {r[1]} /\ e.serOn = d.serOn \cup {r}
           /\ /\ d.op = "none" /\ r[1] \in d.bound \cap d.ser
              /\ r \notin d.serOn /\ SerRouted(r)
              => ~e.err
<1> DEFINE t == [d EXCEPT !.err = TRUE]
           on == [d EXCEPT !.cams = @ \cup {r[1]}]
           w == Try(d, "camera", on)
           a == IF r[1] \in d.cams THEN d ELSE IF r[1] \notin d.ser THEN t ELSE w
           Refused == r[1] \notin d.bound \/ r \in d.serOn \/ ~SerRouted(r)
<1>0. r[1] \in Links
  OBVIOUS
<1>1. /\ t \in Ctx /\ SamePort(d, t) /\ SameBoard(d, t) /\ t.err
      /\ t.cams = d.cams /\ t.serOn = d.serOn
  BY DEF Ctx, Context, SamePort, SameBoard
<1>2. on = [d EXCEPT !.cams = d.cams \cup {r[1]}]
  BY DEF Ctx, Context
<1>3. /\ on \in Ctx /\ SamePort(d, on) /\ SameBoard(d, on) /\ on.err = d.err
      /\ on.cams = d.cams \cup {r[1]} /\ on.serOn = d.serOn
  <2> HIDE DEF on
  <2> QED
    BY <1>0, <1>2 DEF Ctx, Context, SamePort, SameBoard
<1> HIDE DEF on, t
<1>4. /\ w \in Ctx
      /\ \/ w.err /\ SamePort(d, w) /\ SameLinks(d, w)
         \/ ~d.err /\ w = on
      /\ ~d.err /\ d.op = "none" => w = on
  BY <1>3, TryOutcome
<1> HIDE DEF w
<1>5. /\ a \in Ctx /\ SamePort(d, a) /\ SameBoard(d, a) /\ a.serOn = d.serOn
      /\ a.err => a.cams = d.cams
      /\ ~a.err => a.cams = d.cams \cup {r[1]}
      /\ d.op = "none" /\ r[1] \in d.ser => ~a.err
  <2>1. CASE r[1] \in d.cams
    BY <2>1 DEF SamePort, SameBoard
  <2>2. CASE r[1] \notin d.cams /\ r[1] \notin d.ser
    BY <1>1, <2>2
  <2>3. CASE r[1] \notin d.cams /\ r[1] \in d.ser
    <3>1. a = w
      BY <2>3
    <3>2. w.err => SamePort(d, w) /\ SameBoard(d, w) /\ w.serOn = d.serOn /\ w.cams = d.cams
      BY <1>3, <1>4 DEF SameLinks, SameSource, SameBoard
    <3>3. ~w.err => w = on
      BY <1>4
    <3>4. d.op = "none" => ~w.err
      BY <1>3, <1>4
    <3> HIDE DEF a
    <3> QED
      BY <1>3, <1>4, <3>1, <3>2, <3>3, <3>4
  <2> QED
    BY <2>1, <2>2, <2>3
<1>6. RemoteOn(d, r) = IF Refused THEN t
                       ELSE IF a.err THEN a ELSE [a EXCEPT !.serOn = @ \cup {r}]
  BY DEF RemoteOn, Failed, a, w, on, t
<1> HIDE DEF a
<1>7. CASE Refused
  <2>1. RemoteOn(d, r) = t
    BY <1>6, <1>7
  <2> HIDE DEF Refused
  <2>2. ~(d.op = "none" /\ r[1] \in d.bound \cap d.ser /\ r \notin d.serOn /\ SerRouted(r))
    BY <1>7 DEF Refused
  <2> QED
    BY <1>1, <2>1, <2>2
<1>8. CASE ~Refused /\ a.err
  <2>1. RemoteOn(d, r) = a
    BY <1>6, <1>8
  <2> QED
    BY <1>5, <1>8, <2>1
<1>9. CASE ~Refused /\ ~a.err
  <2>1. PICK e : e = [a EXCEPT !.serOn = @ \cup {r}]
    OBVIOUS
  <2>2. RemoteOn(d, r) = e
    BY <1>6, <1>9, <2>1
  <2>3. e = [a EXCEPT !.serOn = d.serOn \cup {r}]
    BY <1>5, <2>1 DEF Ctx, Context
  <2>4. d.serOn \cup {r} \in SUBSET (Links \X Nat)
    BY DEF Ctx, Context
  <2>5. /\ e \in Ctx /\ SamePort(a, e) /\ SameBoard(a, e) /\ e.err = a.err
        /\ e.cams = a.cams /\ e.serOn = d.serOn \cup {r}
    BY <1>5, <2>3, <2>4 DEF Ctx, Context, SamePort, SameBoard
  <2>6. SamePort(d, e) /\ SameBoard(d, e)
    BY <1>5, <2>5 DEF SamePort, SameBoard
  <2> QED
    BY <1>5, <1>9, <2>2, <2>5, <2>6
<1> QED
  BY <1>7, <1>8, <1>9

LEMMA RemoteOffDoes ==
    ASSUME NEW d \in Ctx, ~d.err, NEW r \in Links \X Nat
    PROVE  LET e == RemoteOff(d, r) IN
           /\ e \in Ctx /\ SamePort(d, e) /\ SameBoard(d, e)
           /\ e.err => e.cams = d.cams /\ e.serOn = d.serOn
           /\ ~e.err => e.cams = d.cams \ {r[1]} /\ e.serOn = d.serOn \ {r}
<1> DEFINE t == [d EXCEPT !.err = TRUE]
           off == [d EXCEPT !.cams = @ \ {r[1]}, !.serOn = @ \ {r}]
           Refused == r[1] \notin d.bound \/ r \notin d.serOn \/ ~SerRouted(r)
<1>1. /\ t \in Ctx /\ SamePort(d, t) /\ SameBoard(d, t) /\ t.err
      /\ t.cams = d.cams /\ t.serOn = d.serOn
  BY DEF Ctx, Context, SamePort, SameBoard
<1>2. /\ off \in Ctx /\ SamePort(d, off) /\ SameBoard(d, off) /\ ~off.err
      /\ off.cams = d.cams \ {r[1]} /\ off.serOn = d.serOn \ {r}
  BY DEF Ctx, Context, SamePort, SameBoard
<1>3. RemoteOff(d, r) = IF Refused THEN t ELSE off
  BY DEF RemoteOff, Failed
<1> HIDE DEF t, off, Refused
<1> QED
  BY <1>1, <1>2, <1>3

\* A start, or an attempt at one, leaves the maps of the link on the port.
LEMMA StreamOnDoes ==
    ASSUME Links \in SUBSET SerialLinks, NEW d \in Ctx, ~d.err, NEW r \in Links \X Nat
    PROVE  LET e == StreamOn(d, r) IN
           /\ e \in Ctx /\ SameBoard(d, e)
           /\ e.flags = d.flags \cup ({r[1]} \X Maps)
           /\ d.spoiled => e.spoiled
           /\ e.err => e.cams = d.cams /\ e.serOn = d.serOn
           /\ ~e.err => e.cams = d.cams \cup {r[1]} /\ e.serOn = d.serOn \cup {r}
           /\ PortGood(d) => PortGood(e)
           /\ PortGood(d) /\ PhyGood(d) => PhyGood(e)
           /\ d.op = "none" => e.spoiled = d.spoiled
           /\ /\ d.op = "none" /\ r[1] \in d.bound \cap d.ser
              /\ r \notin d.serOn /\ SerRouted(r)
              => ~e.err
<1>0. r[1] \in Links /\ TRUE \in BOOLEAN
  OBVIOUS
<1>1. PICK v \in BOOLEAN : v = TRUE
  OBVIOUS
<1>2. PICK a : a = LinkCsi(d, r[1], v)
  OBVIOUS
<1>3. PICK e : e = RemoteOn(a, r)
  OBVIOUS
<1>4. StreamOn(d, r) = e
  BY <1>1, <1>2, <1>3 DEF StreamOn
<1>5. /\ a \in Ctx /\ SameLinks(d, a) /\ ~a.err
      /\ Switched(d, a, {r[1]} \X Maps, v)
      /\ PortGood(d) => PortGood(a)
      /\ PortGood(d) /\ PhyGood(d) => PhyGood(a)
  BY <1>0, <1>2, LinkCsiDoes
<1>6. /\ e \in Ctx /\ SamePort(a, e) /\ SameBoard(a, e)
      /\ e.err => e.cams = a.cams /\ e.serOn = a.serOn
      /\ ~e.err => e.cams = a.cams \cup {r[1]} /\ e.serOn = a.serOn \cup {r}
      /\ /\ a.op = "none" /\ r[1] \in a.bound \cap a.ser
         /\ r \notin a.serOn /\ SerRouted(r)
         => ~e.err
  BY <1>3, <1>5, RemoteOnDoes
<1>7. /\ a.flags = d.flags \cup ({r[1]} \X Maps)
      /\ d.spoiled => a.spoiled
      /\ d.op = "none" => a.spoiled = d.spoiled
  BY <1>1, <1>5 DEF Switched
<1>8. /\ a.cams = d.cams /\ a.serOn = d.serOn /\ a.op = d.op
      /\ a.bound = d.bound /\ a.ser = d.ser /\ SameBoard(d, a)
  BY <1>5 DEF SameLinks, SameSource, SameBoard
<1>9. SameBoard(d, e) /\ e.flags = a.flags /\ e.spoiled = a.spoiled
  BY <1>6, <1>8 DEF SameBoard, SamePort
<1>10. (PortGood(a) => PortGood(e)) /\ (PhyGood(a) => PhyGood(e))
  BY <1>6 DEF SamePort, PortGood, PhyGood
<1> QED
  BY <1>4, <1>5, <1>6, <1>7, <1>8, <1>9, <1>10

\* A stop that fails changes nothing.
LEMMA StreamOffDoes ==
    ASSUME Links \in SUBSET SerialLinks, NEW d \in Ctx, ~d.err, NEW r \in Links \X Nat
    PROVE  LET e == StreamOff(d, r) IN
           /\ e \in Ctx /\ SameBoard(d, e)
           /\ d.spoiled => e.spoiled
           /\ e.err => e.cams = d.cams /\ e.serOn = d.serOn /\ e.flags = d.flags
           /\ ~e.err => /\ e.cams = d.cams \ {r[1]} /\ e.serOn = d.serOn \ {r}
                        /\ e.flags = d.flags \ ({r[1]} \X Maps)
           /\ PortGood(d) => PortGood(e)
           /\ PortGood(d) /\ PhyGood(d) => PhyGood(e)
<1>0. r[1] \in Links
  OBVIOUS
<1>1. PICK v \in BOOLEAN : v = FALSE
  OBVIOUS
<1>2. PICK a : a = RemoteOff(d, r)
  OBVIOUS
<1>3. PICK b : b = LinkCsi(a, r[1], v)
  OBVIOUS
<1>4. StreamOff(d, r) = IF a.err THEN a ELSE b
  BY <1>1, <1>2, <1>3 DEF StreamOff
<1>5. /\ a \in Ctx /\ SamePort(d, a) /\ SameBoard(d, a)
      /\ a.err => a.cams = d.cams /\ a.serOn = d.serOn
      /\ ~a.err => a.cams = d.cams \ {r[1]} /\ a.serOn = d.serOn \ {r}
  BY <1>2, RemoteOffDoes
<1>6. (PortGood(d) => PortGood(a)) /\ (PhyGood(d) => PhyGood(a))
        /\ a.flags = d.flags /\ a.spoiled = d.spoiled
  BY <1>5 DEF SamePort, PortGood, PhyGood
<1>7. CASE a.err
  <2>1. StreamOff(d, r) = a
    BY <1>4, <1>7
  <2> QED
    BY <1>5, <1>6, <1>7, <2>1
<1>8. CASE ~a.err
  <2>1. StreamOff(d, r) = b
    BY <1>4, <1>8
  <2>2. /\ b \in Ctx /\ SameLinks(a, b) /\ ~b.err
        /\ Switched(a, b, {r[1]} \X Maps, v)
        /\ PortGood(a) => PortGood(b)
        /\ PortGood(a) /\ PhyGood(a) => PhyGood(b)
    BY <1>0, <1>3, <1>5, <1>8, LinkCsiDoes
  <2>3. b.flags = a.flags \ ({r[1]} \X Maps) /\ (a.spoiled => b.spoiled)
    BY <1>1, <2>2 DEF Switched
  <2>4. b.cams = a.cams /\ b.serOn = a.serOn /\ SameBoard(d, b)
    BY <1>5, <2>2 DEF SameLinks, SameSource, SameBoard
  <2> QED
    BY <1>5, <1>6, <1>8, <2>1, <2>2, <2>3, <2>4
<1> QED
  BY <1>7, <1>8

----------------------------------------------------------------------------
(* Handlers *)

SameAll(d, e) ==
    /\ SamePort(d, e) /\ e.cams = d.cams /\ e.serOn = d.serOn
    /\ e.pipes = d.pipes /\ e.up = d.up /\ e.enabled = d.enabled
    /\ e.bound = d.bound /\ e.ser = d.ser

LEMMA FaultyIs ==
    ASSUME TypeOK, NEW x \in Chances
    PROVE  LET e == Faulty(x[1], x[2]) IN e \in Ctx /\ SameAll(c, e) /\ ~e.err
<1>1. x[1] \in Ops \cup {"none"} /\ x[2] \in Nat
  BY DEF Chances, Always
<1> QED
  BY <1>1 DEF TypeOK, Ctx, Context, Faulty, SameAll, SamePort

LEMMA SettledIs ==
    ASSUME NEW d \in Ctx
    PROVE  LET e == Settled(d) IN e \in Ctx /\ SameAll(d, e) /\ ~e.err /\ e.op = "none"
BY DEF Ctx, Context, Settled, SameAll, SamePort

LEMMA SameGood ==
    ASSUME NEW d, NEW e, SameAll(d, e)
    PROVE  (PortGood(d) => PortGood(e)) /\ (PhyGood(d) => PhyGood(e))
BY DEF SameAll, SamePort, PortGood, PhyGood

LEMMA CountedIs ==
    ASSUME TypeOK, NEW x, NEW d, Counted(x, d)
    PROVE  faults' \in Nat
BY DEF TypeOK, Counted

\* A route goes from a link, and no two source streams share one.
LEMMA RoutesKnown ==
    ASSUME TypeOK
    PROVE  /\ \A s \in DOMAIN routing : routing[s] \in Links \X Nat
           /\ \A s, t \in DOMAIN routing : routing[s] = routing[t] => s = t
BY SceneAssumption DEF TypeOK, ValidRouting, Links

LEMMA FlowInit == Init => FlowInv
<1> SUFFICES ASSUME Init PROVE FlowInv
  OBVIOUS
<1>1. PICK op \in {"none", "lock", "wake"} :
        c = Settled(Probed([Reset EXCEPT !.op = op, !.left = IF op = "lock" THEN 5 ELSE 1]))
  BY DEF Init
<1>2. PICK d : d = [Reset EXCEPT !.op = op, !.left = IF op = "lock" THEN 5 ELSE 1]
  OBVIOUS
<1>3. PICK a : a = Power(d)
  OBVIOUS
<1>4. PICK b : b = Serialize(EachLink(BringUp, a))
  OBVIOUS
<1>5. PICK e : e = [b EXCEPT !.bound = b.ser]
  OBVIOUS
<1>6. Probed(d) = e
  BY <1>3, <1>4, <1>5 DEF Probed
<1>7. Links \in SUBSET SerialLinks
  BY SceneAssumption DEF Init, Links
<1>8. d \in Ctx /\ d.flags = {} /\ d.count = 0 /\ d.ser = {} /\ ~d.spoiled /\ d.serOn = {}
  <2>1. op \in Ops \cup {"none"}
    BY DEF Ops
  <2>2. PICK n \in Nat : n = IF op = "lock" THEN 5 ELSE 1
    OBVIOUS
  <2>3. d = [Reset EXCEPT !.op = op, !.left = n]
    BY <1>2, <2>2
  <2> QED
    BY <2>1, <2>3 DEF Reset, Ctx, Context
<1>9. PortGood(d)
  BY <1>7, <1>8, Holders DEF PortGood
<1>10. a \in Ctx /\ SameRest(d, a) /\ a.flags \subseteq d.flags /\ PortGood(a)
  BY <1>3, <1>7, <1>8, <1>9, PowerDoes
<1>11. a.ser = {} /\ Sound(a)
  BY <1>7, <1>8, <1>10, EmptyPort DEF SameRest
<1>12. /\ b \in Ctx /\ SameSource(a, b) /\ b.spoiled = a.spoiled
       /\ \A k \in b.ser : Ready(b, k)
       /\ PortGood(b) /\ PhyGood(b)
  <2>1. /\ b \in Ctx /\ SameSource(a, b) /\ b.spoiled = a.spoiled
        /\ \A k \in b.ser : Ready(b, k)
        /\ PortGood(a) => PortGood(b)
        /\ Sound(a) => PhyGood(b)
    BY <1>4, <1>7, <1>10, <1>11, LinksBroughtUp
  <2> QED
    BY <1>10, <1>11, <2>1
<1>13. /\ e \in Ctx /\ SamePort(b, e) /\ e.ser = b.ser /\ e.pipes = b.pipes
       /\ e.serOn = b.serOn
  BY <1>5, <1>12 DEF Ctx, Context, SamePort
<1>14. PortGood(e) /\ PhyGood(e) /\ e.ser \subseteq e.pipes /\ e.serOn = {}
  BY <1>8, <1>10, <1>12, <1>13
     DEF SamePort, PortGood, PhyGood, Ready, SameRest, SameSource
<1>15. /\ c \in Ctx /\ SameAll(e, c) /\ ~c.err /\ c.op = "none"
  BY <1>1, <1>2, <1>6, <1>13, SettledIs
<1>16. PortGood(c) /\ PhyGood(c) /\ c.ser \subseteq c.pipes /\ c.serOn = {}
  BY <1>14, <1>15, SameGood DEF SameAll
<1>17. /\ scene \in Scenes /\ routing = scene.default /\ started = {} /\ ~asleep
       /\ asleep \in BOOLEAN /\ torn \in BOOLEAN /\ naps = 0 /\ faults = 0
  BY DEF Init
<1>18. TypeOK
  BY <1>15, <1>17 DEF TypeOK, Ctx
<1> QED
  BY <1>16, <1>17, <1>18 DEF FlowInv, LinkInv, StreamInv, RouteInv

LEMMA StartStep ==
    ASSUME FlowInv, NEW s \in DOMAIN routing, Start(s) PROVE FlowInv'
<1> USE DEF FlowInv
<1>0. Links \in SUBSET SerialLinks /\ c \in Ctx /\ routing[s] \in Links \X Nat /\ s \notin started
  BY LinksKnown, RoutesKnown DEF TypeOK, Ctx, Start
<1>1. /\ ~asleep
      /\ UNCHANGED <<scene, routing, asleep, torn, naps>>
      /\ \E x \in Chances :
           LET d == StreamOn(Faulty(x[1], x[2]), routing[s]) IN
           /\ Counted(x, d)
           /\ c' = Settled(d)
           /\ IF d.err THEN UNCHANGED <<started, cut>>
              ELSE started' = started \cup {s} /\ cut' = cut \ {s}
  BY DEF Start
<1>2. PICK x \in Chances :
        LET d == StreamOn(Faulty(x[1], x[2]), routing[s]) IN
           /\ Counted(x, d)
           /\ c' = Settled(d)
           /\ IF d.err THEN UNCHANGED <<started, cut>>
              ELSE started' = started \cup {s} /\ cut' = cut \ {s}
  BY <1>1
<1>3. PICK a : a = Faulty(x[1], x[2])
  OBVIOUS
<1>4. PICK d : d = StreamOn(a, routing[s])
  OBVIOUS
<1>5. /\ Counted(x, d) /\ c' = Settled(d)
      /\ IF d.err THEN UNCHANGED <<started, cut>>
         ELSE started' = started \cup {s} /\ cut' = cut \ {s}
  BY <1>2, <1>3, <1>4
<1>6. a \in Ctx /\ SameAll(c, a) /\ ~a.err
  BY <1>3, FaultyIs
<1>7. PICK l : l = routing[s][1]
  OBVIOUS
<1>8. /\ d \in Ctx /\ SameBoard(a, d)
      /\ d.flags = a.flags \cup ({l} \X Maps)
      /\ a.spoiled => d.spoiled
      /\ d.err => d.cams = a.cams /\ d.serOn = a.serOn
      /\ ~d.err => d.cams = a.cams \cup {l} /\ d.serOn = a.serOn \cup {routing[s]}
      /\ PortGood(a) => PortGood(d)
      /\ PortGood(a) /\ PhyGood(a) => PhyGood(d)
  BY <1>0, <1>4, <1>6, <1>7, StreamOnDoes
<1>9. c' \in Ctx /\ SameAll(d, c') /\ ~c'.err /\ c'.op = "none"
  BY <1>5, <1>8, SettledIs
<1>10. /\ c'.pipes = c.pipes /\ c'.ser = c.ser
       /\ c'.flags = c.flags \cup ({l} \X Maps)
       /\ c.spoiled => c'.spoiled
       /\ d.err => c'.cams = c.cams /\ c'.serOn = c.serOn
       /\ ~d.err => c'.cams = c.cams \cup {l} /\ c'.serOn = c.serOn \cup {routing[s]}
  BY <1>6, <1>8, <1>9 DEF SameAll, SamePort, SameBoard
<1>11. TypeOK'
  <2>1. started' \in SUBSET DOMAIN routing'
    BY <1>1, <1>5 DEF TypeOK
  <2>2. faults' \in Nat
    BY <1>5, CountedIs
  <2> QED
    BY <1>1, <1>9, <2>1, <2>2 DEF TypeOK, Ctx, Links
<1>12. LinkInv'
  <2>1. PortGood(d) /\ (c.ser # {} => PhyGood(d))
    BY <1>6, <1>8, SameGood DEF LinkInv
  <2>2. PortGood(c') /\ (c.ser # {} => PhyGood(c'))
    BY <1>9, <2>1, SameGood
  <2> QED
    BY <1>1, <1>10, <2>2 DEF LinkInv, PortGood, PhyGood
<1>13. StreamInv'
  <2> SUFFICES ASSUME NEW t \in started' \ cut'
               PROVE  /\ LinkOf(t)' \in c'.cams
                      /\ ~c'.spoiled /\ LinkOf(t)' \in c'.ser => {LinkOf(t)'} \X Maps \subseteq c'.flags
    BY DEF StreamInv
  <2>1. LinkOf(t)' = LinkOf(t) /\ LinkOf(s) = l
    BY <1>1, <1>7 DEF LinkOf
  <2>2. CASE t \in started \ cut
    BY <1>10, <2>1, <2>2 DEF StreamInv
  <2>3. CASE t \notin started \ cut
    <3>1. t = s /\ ~d.err
      BY <1>5, <2>3
    <3> QED
      BY <1>10, <2>1, <3>1
  <2> QED
    BY <2>2, <2>3
<1>14. RouteInv'
  <2>1. CASE d.err
    BY <1>1, <1>5, <1>10, <2>1 DEF RouteInv
  <2>2. CASE ~d.err
    BY <1>1, <1>5, <1>10, <2>2 DEF RouteInv
  <2> QED
    BY <2>1, <2>2
<1> QED
  BY <1>11, <1>12, <1>13, <1>14

LEMMA StopStep ==
    ASSUME FlowInv, NEW s \in DOMAIN routing, Stop(s) PROVE FlowInv'
<1> USE DEF FlowInv
<1>0. Links \in SUBSET SerialLinks /\ c \in Ctx /\ routing[s] \in Links \X Nat /\ s \in started
  BY LinksKnown, RoutesKnown DEF TypeOK, Ctx, Stop
<1>1. /\ ~asleep
      /\ UNCHANGED <<scene, routing, asleep, torn, naps>>
      /\ \E x \in Chances :
           LET d == StreamOff(Faulty(x[1], x[2]), routing[s]) IN
           /\ Counted(x, d)
           /\ c' = Settled(d)
           /\ IF d.err THEN UNCHANGED <<started, cut>>
              ELSE started' = started \ {s} /\ cut' = cut \cup Siblings(s)
  BY DEF Stop
<1>2. PICK x \in Chances :
        LET d == StreamOff(Faulty(x[1], x[2]), routing[s]) IN
           /\ Counted(x, d)
           /\ c' = Settled(d)
           /\ IF d.err THEN UNCHANGED <<started, cut>>
              ELSE started' = started \ {s} /\ cut' = cut \cup Siblings(s)
  BY <1>1
<1>3. PICK a : a = Faulty(x[1], x[2])
  OBVIOUS
<1>4. PICK d : d = StreamOff(a, routing[s])
  OBVIOUS
<1>5. /\ Counted(x, d) /\ c' = Settled(d)
      /\ IF d.err THEN UNCHANGED <<started, cut>>
         ELSE started' = started \ {s} /\ cut' = cut \cup Siblings(s)
  BY <1>2, <1>3, <1>4
<1>6. a \in Ctx /\ SameAll(c, a) /\ ~a.err
  BY <1>3, FaultyIs
<1>7. PICK l : l = routing[s][1]
  OBVIOUS
<1>8. /\ d \in Ctx /\ SameBoard(a, d)
      /\ a.spoiled => d.spoiled
      /\ d.err => d.cams = a.cams /\ d.serOn = a.serOn /\ d.flags = a.flags
      /\ ~d.err => /\ d.cams = a.cams \ {l} /\ d.serOn = a.serOn \ {routing[s]}
                   /\ d.flags = a.flags \ ({l} \X Maps)
      /\ PortGood(a) => PortGood(d)
      /\ PortGood(a) /\ PhyGood(a) => PhyGood(d)
  BY <1>0, <1>4, <1>6, <1>7, StreamOffDoes
<1>9. c' \in Ctx /\ SameAll(d, c') /\ ~c'.err /\ c'.op = "none"
  BY <1>5, <1>8, SettledIs
<1>10. /\ c'.pipes = c.pipes /\ c'.ser = c.ser
       /\ c.spoiled => c'.spoiled
       /\ d.err => c'.cams = c.cams /\ c'.serOn = c.serOn /\ c'.flags = c.flags
       /\ ~d.err => /\ c'.cams = c.cams \ {l} /\ c'.serOn = c.serOn \ {routing[s]}
                    /\ c'.flags = c.flags \ ({l} \X Maps)
  BY <1>6, <1>8, <1>9 DEF SameAll, SamePort, SameBoard
<1>11. TypeOK'
  <2>1. started' \in SUBSET DOMAIN routing'
    BY <1>1, <1>5 DEF TypeOK
  <2>2. faults' \in Nat
    BY <1>5, CountedIs
  <2> QED
    BY <1>1, <1>9, <2>1, <2>2 DEF TypeOK, Ctx, Links
<1>12. LinkInv'
  <2>1. PortGood(d) /\ (c.ser # {} => PhyGood(d))
    BY <1>6, <1>8, SameGood DEF LinkInv
  <2>2. PortGood(c') /\ (c.ser # {} => PhyGood(c'))
    BY <1>9, <2>1, SameGood
  <2> QED
    BY <1>1, <1>10, <2>2 DEF LinkInv, PortGood, PhyGood
<1>13. StreamInv'
  <2> SUFFICES ASSUME NEW t \in started' \ cut'
               PROVE  /\ LinkOf(t)' \in c'.cams
                      /\ ~c'.spoiled /\ LinkOf(t)' \in c'.ser => {LinkOf(t)'} \X Maps \subseteq c'.flags
    BY DEF StreamInv
  <2>1. LinkOf(t)' = LinkOf(t) /\ LinkOf(s) = l
    BY <1>1, <1>7 DEF LinkOf
  <2>2. t \in started \ cut
    BY <1>5
  <2>3. CASE d.err
    BY <1>10, <2>1, <2>2, <2>3 DEF StreamInv
  <2>4. CASE ~d.err
    <3>1. LinkOf(t) # l
      BY <1>5, <2>1, <2>2, <2>4 DEF Siblings
    <3>2. ({LinkOf(t)} \X Maps) \cap ({l} \X Maps) = {}
      BY <3>1
    <3> QED
      BY <1>10, <2>1, <2>2, <2>4, <3>1, <3>2 DEF StreamInv
  <2> QED
    BY <2>3, <2>4
<1>14. RouteInv'
  <2>1. CASE d.err
    BY <1>1, <1>5, <1>10, <2>1 DEF RouteInv
  <2>2. CASE ~d.err
    BY <1>1, <1>5, <1>10, <2>2 DEF RouteInv
  <2> QED
    BY <2>1, <2>2
<1> QED
  BY <1>11, <1>12, <1>13, <1>14

\* New routes are those of streams the core takes for stopped.
LEMMA RoutingStep ==
    ASSUME FlowInv, NEW table \in scene.routings, SetRouting(table) PROVE FlowInv'
<1> USE DEF FlowInv
<1>1. TypeOK'
  BY DEF TypeOK, SetRouting, Links
<1>2. LinkInv'
  BY DEF LinkInv, SetRouting, PortGood, PhyGood
<1>3. StreamInv'
  BY DEF StreamInv, SetRouting
<1>4. RouteInv'
  BY DEF RouteInv, SetRouting
<1> QED
  BY <1>1, <1>2, <1>3, <1>4

LEMMA SuspendStep ==
    ASSUME FlowInv, Suspend PROVE FlowInv'
<1> USE DEF FlowInv
<1>0. Links \in SUBSET SerialLinks /\ c \in Ctx
  BY LinksKnown DEF TypeOK, Ctx
<1>1. /\ asleep' = TRUE /\ naps' \in Nat
      /\ UNCHANGED <<scene, routing, started, cut, torn>>
  BY DEF Suspend, TypeOK
<1>2. PICK x \in Chances :
        LET d == EachLink(DisableLink, [Faulty(x[1], x[2]) EXCEPT !.ser = {}]) IN
        Counted(x, d) /\ c' = Settled(d)
  BY DEF Suspend
<1>3. PICK a : a = Faulty(x[1], x[2])
  OBVIOUS
<1>4. PICK b : b = [a EXCEPT !.ser = {}]
  OBVIOUS
<1>5. PICK d : d = EachLink(DisableLink, b)
  OBVIOUS
<1>6. Counted(x, d) /\ c' = Settled(d)
  BY <1>2, <1>3, <1>4, <1>5
<1>7. a \in Ctx /\ SameAll(c, a) /\ ~a.err
  BY <1>3, FaultyIs
<1>8. /\ b \in Ctx /\ SamePort(a, b) /\ b.ser = {}
      /\ b.cams = a.cams /\ b.serOn = a.serOn
  BY <1>4, <1>7 DEF Ctx, Context, SamePort
<1>9. d \in Ctx /\ SameRest(b, d) /\ (PortGood(b) => PortGood(d))
  BY <1>0, <1>5, <1>8, AllAsleep
<1>10. c' \in Ctx /\ SameAll(d, c') /\ ~c'.err /\ c'.op = "none"
  BY <1>6, <1>9, SettledIs
<1>11. c'.ser = {} /\ c'.cams = c.cams /\ c'.serOn = c.serOn /\ c'.spoiled = c.spoiled
  BY <1>7, <1>8, <1>9, <1>10 DEF SameAll, SamePort, SameRest, SameSource
<1>12. PortGood(c')
  <2>1. PortGood(a)
    BY <1>7, SameGood DEF LinkInv
  <2>2. PortGood(b)
    BY <1>8, <2>1 DEF SamePort, PortGood
  <2> QED
    BY <1>9, <1>10, <2>2, SameGood
<1>13. TypeOK'
  <2>1. faults' \in Nat
    BY <1>6, CountedIs
  <2> QED
    BY <1>1, <1>10, <2>1 DEF TypeOK, Ctx, Links
<1>14. LinkInv'
  BY <1>11, <1>12 DEF LinkInv, PortGood
<1>15. StreamInv'
  BY <1>1, <1>11 DEF StreamInv, LinkOf
<1>16. RouteInv'
  BY <1>1, <1>11 DEF RouteInv
<1> QED
  BY <1>13, <1>14, <1>15, <1>16

LEMMA ResumeStep ==
    ASSUME FlowInv, Resume PROVE FlowInv'
<1> USE DEF FlowInv
<1>0. Links \in SUBSET SerialLinks /\ c \in Ctx /\ c.ser = {} /\ PortGood(c)
  BY LinksKnown DEF TypeOK, Ctx, LinkInv, Resume
<1>1. /\ asleep' = FALSE
      /\ UNCHANGED <<scene, routing, started, torn, naps>>
  BY DEF Resume
<1>2. PICK x \in Chances :
        LET d == Resumed(Faulty(x[1], x[2])) IN
         /\ Counted(x, d)
         /\ c' = Settled(d)
         /\ cut' = cut \cup {s \in started :
                        scene.chip = "max9296" \/ d.err \/ LinkOf(s) \notin d.ser}
  BY DEF Resume
<1>3. PICK a : a = Faulty(x[1], x[2])
  OBVIOUS
<1>4. PICK d : d = Resumed(a)
  OBVIOUS
<1>5. /\ Counted(x, d) /\ c' = Settled(d)
      /\ cut' = cut \cup {s \in started :
                     scene.chip = "max9296" \/ d.err \/ LinkOf(s) \notin d.ser}
  BY <1>2, <1>3, <1>4
<1>6. a \in Ctx /\ SameAll(c, a) /\ ~a.err
  BY <1>3, FaultyIs
<1>7. a.ser = {} /\ PortGood(a)
  BY <1>0, <1>6, SameGood DEF SameAll
<1>8. /\ d \in Ctx /\ SameSource(a, d) /\ d.spoiled = a.spoiled /\ PortGood(d)
      /\ \A k \in d.ser : Ready(d, k)
      /\ d.ser # {} => PhyGood(d)
  BY <1>0, <1>4, <1>6, <1>7, ResumedIs
<1>9. c' \in Ctx /\ SameAll(d, c') /\ ~c'.err /\ c'.op = "none"
  BY <1>5, <1>8, SettledIs
<1>10. /\ c'.cams = c.cams /\ c'.serOn = c.serOn /\ c'.ser = d.ser /\ c'.pipes = d.pipes
       /\ c'.flags = d.flags
  BY <1>6, <1>8, <1>9 DEF SameAll, SamePort, SameSource
<1>11. TypeOK'
  <2>1. faults' \in Nat
    BY <1>5, CountedIs
  <2> QED
    BY <1>1, <1>9, <2>1 DEF TypeOK, Ctx, Links
<1>12. LinkInv'
  <2>1. PortGood(c') /\ (d.ser # {} => PhyGood(c'))
    BY <1>8, <1>9, SameGood
  <2> QED
    BY <1>1, <1>8, <1>10, <2>1 DEF LinkInv, Ready, PortGood, PhyGood
<1>13. StreamInv'
  <2> SUFFICES ASSUME NEW t \in started' \ cut'
               PROVE  /\ LinkOf(t)' \in c'.cams
                      /\ ~c'.spoiled /\ LinkOf(t)' \in c'.ser => {LinkOf(t)'} \X Maps \subseteq c'.flags
    BY DEF StreamInv
  <2>1. LinkOf(t)' = LinkOf(t)
    BY <1>1 DEF LinkOf
  <2>2. t \in started \ cut /\ scene.chip # "max9296"
    BY <1>1, <1>5
  <2> QED
    BY <1>8, <1>10, <2>1, <2>2 DEF StreamInv, Ready
<1>14. RouteInv'
  BY <1>1, <1>10 DEF RouteInv
<1> QED
  BY <1>11, <1>12, <1>13, <1>14

LEMMA FlowStep == FlowInv /\ [Next]_vars => FlowInv'
<1> SUFFICES ASSUME FlowInv, [Next]_vars PROVE FlowInv'
  OBVIOUS
<1>1. ASSUME NEW s \in DOMAIN routing, Start(s) \/ Stop(s) PROVE FlowInv'
  BY <1>1, StartStep, StopStep
<1>2. ASSUME NEW table \in scene.routings, SetRouting(table) PROVE FlowInv'
  BY <1>2, RoutingStep
<1>3. CASE Suspend \/ Resume
  BY <1>3, SuspendStep, ResumeStep
<1>4. CASE UNCHANGED vars
  BY <1>4 DEF vars, FlowInv, TypeOK, LinkInv, StreamInv, RouteInv, PortGood, PhyGood, Links, LinkOf
<1> QED
  BY <1>1, <1>2, <1>3, <1>4 DEF Next

LEMMA FlowAlways == Spec => []FlowInv
BY FlowInit, FlowStep, PTL DEF Spec

\* A held port has its PHY on.
LEMMA HeldPort ==
    ASSUME Links \in SUBSET SerialLinks, NEW d \in Ctx, PortGood(d), PhyGood(d), ~d.spoiled,
           NEW l, {l} \X Maps \subseteq d.flags
    PROVE  d.phy
<1>1. <<l, 0>> \in d.flags
  BY PairsOfLink
<1>2. Cardinality(d.flags) > 0
  <2>1. d.flags \in SUBSET (Links \X Maps)
    BY DEF Ctx, Context
  <2> QED
    BY <1>1, <2>1, Holders
<1> QED
  BY <1>2 DEF PortGood, PhyGood

\* A stream that was started and not interrupted flows: serdes.c gives the port
\* to the maps of each stream's link, and no handler takes from a link what the
\* streams of it need without ending one of them.
THEOREM StreamsAlwaysFlow == Spec => []StreamsFlow
<1>1. FlowInv => StreamsFlow
  <2> SUFFICES ASSUME FlowInv, ~asleep, ~c.spoiled,
                      NEW s \in started \ cut, LinkOf(s) \in c.ser
               PROVE  Flows(c, LinkOf(s))
    BY DEF StreamsFlow
  <2>1. Links \in SUBSET SerialLinks /\ c \in Ctx
    BY LinksKnown DEF FlowInv, TypeOK, Ctx
  <2>2. PortGood(c) /\ PhyGood(c) /\ LinkOf(s) \in c.pipes
    BY DEF FlowInv, LinkInv
  <2>3. LinkOf(s) \in c.cams /\ {LinkOf(s)} \X Maps \subseteq c.flags
    BY DEF FlowInv, StreamInv
  <2>4. c.phy
    BY <2>1, <2>2, <2>3, HeldPort
  <2> QED
    BY <2>2, <2>3, <2>4 DEF Flows
<1> QED
  BY <1>1, FlowAlways, PTL

\* A stream that is off can be started whatever failed before, as
\* max9x_s_stream() leaves nothing of a failed start that refuses the next.
THEOREM RetriesAlwaysWork == Spec => []RetryWorks
<1>1. FlowInv => RetryWorks
  <2> SUFFICES ASSUME FlowInv, ~asleep, ~c.spoiled, ~torn,
                      NEW s \in DOMAIN routing \ started,
                      LinkOf(s) \in c.bound \cap c.ser, SerRouted(routing[s])
               PROVE  ~StreamOn(c, routing[s]).err /\ Flows(StreamOn(c, routing[s]), LinkOf(s))
    BY DEF RetryWorks
  <2>1. /\ Links \in SUBSET SerialLinks /\ c \in Ctx /\ ~c.err /\ c.op = "none"
        /\ routing[s] \in Links \X Nat
    BY LinksKnown, RoutesKnown DEF FlowInv, TypeOK, Ctx
  <2>2. PortGood(c) /\ PhyGood(c) /\ c.ser \subseteq c.pipes
    BY DEF FlowInv, LinkInv
  <2>3. routing[s] \notin c.serOn
    <3>1. c.serOn \subseteq {routing[t] : t \in started} /\ started \subseteq DOMAIN routing
      BY DEF FlowInv, RouteInv, TypeOK
    <3>2. \A t \in started : routing[t] # routing[s]
      BY <3>1, RoutesKnown DEF FlowInv
    <3> QED
      BY <3>1, <3>2
  <2>4. PICK l : l = routing[s][1]
    OBVIOUS
  <2>5. l = LinkOf(s) /\ l \in c.bound \cap c.ser
    BY <2>4 DEF LinkOf
  <2>6. PICK d : d = StreamOn(c, routing[s])
    OBVIOUS
  <2>7. /\ d \in Ctx /\ SameBoard(c, d) /\ ~d.err /\ d.spoiled = c.spoiled
        /\ d.flags = c.flags \cup ({l} \X Maps)
        /\ d.cams = c.cams \cup {l}
        /\ PortGood(d) /\ PhyGood(d)
    <3>1. /\ d \in Ctx /\ SameBoard(c, d)
          /\ d.flags = c.flags \cup ({l} \X Maps)
          /\ ~d.err => d.cams = c.cams \cup {l} /\ d.serOn = c.serOn \cup {routing[s]}
          /\ PortGood(c) => PortGood(d)
          /\ PortGood(c) /\ PhyGood(c) => PhyGood(d)
          /\ c.op = "none" => d.spoiled = c.spoiled
          /\ /\ c.op = "none" /\ l \in c.bound \cap c.ser
             /\ routing[s] \notin c.serOn /\ SerRouted(routing[s])
             => ~d.err
      BY <2>1, <2>4, <2>6, StreamOnDoes
    <3> QED
      BY <2>1, <2>2, <2>3, <2>5, <3>1
  <2>8. d.phy
    BY <2>1, <2>7, HeldPort
  <2>9. Flows(d, l)
    BY <2>2, <2>5, <2>7, <2>8 DEF Flows, SameBoard
  <2> QED
    BY <2>5, <2>6, <2>7, <2>9
<1> QED
  BY <1>1, FlowAlways, PTL
=============================================================================
