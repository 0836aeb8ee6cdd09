---------------------------- MODULE MaxSerProofs ----------------------------
(***************************************************************************)
(* Proofs about MaxSer: what the serializer's driver remembers is what its *)
(* registers hold, and the streams it has enabled flow, each on a channel  *)
(* of its own.                                                             *)
(***************************************************************************)
EXTENDS MaxSer, TLAPS, WellFoundedInduction

----------------------------------------------------------------------------
(* Types *)

\* The numbers of a mode: bpps and the extremes of sets of them.
Nums == Int \cup {Least(S) : S \in SUBSET Int} \cup {Greatest(S) : S \in SUBSET Int}
Modes == [double : Nums, soft : Nums, bpp : Nums]
Remaps == [src : Int, dst : Nums]

Registers ==
    [phy : [Phys -> BOOLEAN], enabled : [Pipes -> BOOLEAN],
     vcs : [Pipes -> SUBSET Int], mode : [Pipes -> Modes], dts : [Pipes -> SUBSET Int],
     soft : [Pipes -> Nums], softEnable : SUBSET Pipes,
     tpg : BOOLEAN, tunnel : BOOLEAN, xlates : [Slots -> scene.addrs \cup {Empty}]]

Memory ==
    [on : [Pads -> SUBSET Nat], active : [Phys -> BOOLEAN], enabled : [Pipes -> BOOLEAN],
     vcs : [Pipes -> SUBSET Int], mode : [Pipes -> Modes], dts : [Pipes -> SUBSET Int],
     remaps : [Pipes -> Remaps], double : SUBSET Bpps, gmsl : {"pixel", "tunnel"},
     tpg : BOOLEAN, tpgEntry : BOOLEAN, xlates : [Slots -> scene.addrs \cup {Empty}]]

Cams == [Phys -> SUBSET Nat]
Ctx ==
    [sw : Memory, hw : Registers, cam : Cams, fault : Ops \cup {NoFault},
     junk : BOOLEAN, err : BOOLEAN]

TypeOK ==
    /\ scene \in Scenes
    /\ routing \in scene.routings \cup {DefaultRouting}
    /\ desc \in scene.descs
    /\ sw \in Memory /\ hw \in Registers /\ cam \in Cams
    /\ asleep \in BOOLEAN
    /\ stale \in [pipes : SUBSET Pipes, phys : SUBSET Phys, unwritten : BOOLEAN]
    /\ harmed \in SUBSET Pads
    /\ faults \in Nat /\ suspends \in Nat

LEMMA Chips ==
    ASSUME scene \in Scenes
    PROVE  /\ \/ scene.chip.phys = 1 /\ Phys = {0}
              \/ scene.chip.phys = 2 /\ Phys = {0, 1}
           /\ \/ scene.chip.pipes = 1 /\ Pipes = {0} /\ Phys = {0}
              \/ scene.chip.pipes = 4 /\ Pipes = {0, 1, 2, 3}
           /\ Phys \subseteq Pipes /\ 0 \in Phys
           /\ scene.chip.remap \in BOOLEAN
           /\ scene.chip.remap => scene.chip.modes = {"pixel"} /\ Phys = {0, 1}
<1>1. scene.chip \in {Max9295a, Max9295d, Max96717}
  BY SceneAssumption
<1>0. 0 .. 0 = {0} /\ 0 .. 1 = {0, 1} /\ 0 .. 3 = {0, 1, 2, 3}
  OBVIOUS
<1>2. CASE scene.chip = Max9295a
  <2>1. scene.chip.phys = 1 /\ scene.chip.pipes = 4 /\ scene.chip.remap = FALSE
    BY <1>2 DEF Max9295a
  <2>2. Phys = 0 .. 0 /\ Pipes = 0 .. 3
    BY <2>1 DEF Phys, Pipes
  <2> QED
    BY <1>0, <2>1, <2>2
<1>3. CASE scene.chip = Max9295d
  <2>1. /\ scene.chip.phys = 2 /\ scene.chip.pipes = 4 /\ scene.chip.remap = TRUE
        /\ scene.chip.modes = {"pixel"}
    BY <1>3 DEF Max9295d
  <2>2. Phys = 0 .. 1 /\ Pipes = 0 .. 3
    BY <2>1 DEF Phys, Pipes
  <2> QED
    BY <1>0, <2>1, <2>2
<1>4. CASE scene.chip = Max96717
  <2>1. scene.chip.phys = 1 /\ scene.chip.pipes = 1 /\ scene.chip.remap = FALSE
    BY <1>4 DEF Max96717
  <2>2. Phys = 0 .. 0 /\ Pipes = 0 .. 0
    BY <2>1 DEF Phys, Pipes
  <2> QED
    BY <1>0, <2>1, <2>2
<1> QED
  BY <1>1, <1>2, <1>3, <1>4

LEMMA DefaultValid ==
    ASSUME scene \in Scenes
    PROVE  ValidRouting(DefaultRouting, scene.chip)
<1>1. scene.chip.phys \in {1, 2}
  BY Chips
<1>2. DefaultRouting \in Seq([pad : 0 .. scene.chip.phys - 1 \cup {Tpg}, sink : Nat, source : Nat])
  BY <1>1 DEF DefaultRouting
<1>3. DOMAIN DefaultRouting = {1}
  BY DEF DefaultRouting
<1> QED
  BY <1>2, <1>3 DEF ValidRouting

\* The routes of a table: a camera's route is described, and the pad of the
\* test pattern is a table of its own.
Tables == scene.routings \cup {DefaultRouting}

LEMMA TableKnown ==
    ASSUME TypeOK, NEW table \in Tables, NEW r \in Routes(table)
    PROVE  /\ r \in [pad : Phys \cup {Tpg}, sink : Nat, source : Nat]
           /\ r.pad # Tpg => /\ r.pad \in Phys /\ <<r.pad, r.sink>> \in DOMAIN desc
                             /\ desc[<<r.pad, r.sink>>] \in Entries \cup {NoEntry}
           /\ \A t \in Routes(table) :
                /\ r.source = t.source => r = t
                /\ r.pad = t.pad /\ r.sink = t.sink => r = t
                /\ r.pad = Tpg => r = t
<1>1. ValidRouting(table, scene.chip) /\ Describes(desc, table)
  BY DefaultValid, SceneAssumption DEF TypeOK, Tables
<1>2. PICK n \in DOMAIN table : r = table[n]
  BY DEF Routes
<1>3. PICK S : S = [pad : Phys \cup {Tpg}, sink : Nat, source : Nat]
  OBVIOUS
<1>4. r \in [pad : Phys \cup {Tpg}, sink : Nat, source : Nat]
  <2>1. table \in Seq(S)
    BY <1>1, <1>3 DEF ValidRouting, Phys
  <2>2. r \in S
    BY <1>2, <2>1
  <2> QED
    BY <1>3, <2>2
<1>5. r.pad # Tpg => /\ r.pad \in Phys /\ <<r.pad, r.sink>> \in DOMAIN desc
                     /\ desc[<<r.pad, r.sink>>] \in Entries \cup {NoEntry}
  BY <1>1, <1>2, <1>4 DEF Describes
<1>6. ASSUME NEW t \in Routes(table)
      PROVE  /\ r.source = t.source => r = t
             /\ r.pad = t.pad /\ r.sink = t.sink => r = t
             /\ r.pad = Tpg => r = t
  <2>1. PICK m \in DOMAIN table : t = table[m]
    BY DEF Routes
  <2> QED
    BY <1>1, <1>2, <2>1 DEF ValidRouting
<1> QED
  BY <1>4, <1>5, <1>6

LEMMA RouteKnown ==
    ASSUME TypeOK, NEW r \in Routes(routing)
    PROVE  /\ r \in [pad : Phys \cup {Tpg}, sink : Nat, source : Nat]
           /\ r.pad # Tpg => /\ r.pad \in Phys /\ <<r.pad, r.sink>> \in DOMAIN desc
                             /\ desc[<<r.pad, r.sink>>] \in Entries \cup {NoEntry}
           /\ \A t \in Routes(routing) :
                /\ r.source = t.source => r = t
                /\ r.pad = t.pad /\ r.sink = t.sink => r = t
                /\ r.pad = Tpg => r = t
<1>1. routing \in Tables
  BY DEF TypeOK, Tables
<1> QED
  BY <1>1, TableKnown

LEMMA VcTypes ==
    ASSUME TypeOK, NEW table \in Tables, NEW r \in Routes(table)
    PROVE  Vc(r) \in Int /\ (Resolves(r) => Vc(r) \in Vcs)
<1>1. \A e \in Entries \cup {NoEntry} : e.vc \in Int /\ (e # NoEntry => e.vc \in Vcs)
  BY DEF Entries, NoEntry, Vcs
<1>2. CASE r.pad = Tpg
  BY <1>2 DEF Vc, Vcs
<1>3. CASE r.pad # Tpg
  BY <1>1, <1>3, TableKnown DEF Vc, Resolves
<1> QED
  BY <1>2, <1>3

LEMMA EntryTypes ==
    ASSUME TypeOK, NEW r \in Routes(routing)
    PROVE  Vc(r) \in Int /\ Bpp(r) \in Int /\ (Resolves(r) => Vc(r) \in Vcs)
<1>1. \A e \in Entries \cup {NoEntry} : e.vc \in Int /\ e.bpp \in Int /\ (e # NoEntry => e.vc \in Vcs)
  BY DEF Entries, NoEntry, Vcs, Bpps, NoBpp
<1>2. CASE r.pad = Tpg
  BY <1>2 DEF Vc, Bpp, Vcs
<1>3. CASE r.pad # Tpg
  BY <1>1, <1>3, RouteKnown DEF Vc, Bpp, Resolves
<1> QED
  BY <1>2, <1>3

LEMMA ModeTypes ==
    ASSUME TypeOK, NEW c \in Ctx, NEW q
    PROVE  ModeOf(c, q) \in Modes
<1>1. Int \subseteq Nums /\ \A S \in SUBSET Int : Least(S) \in Nums /\ Greatest(S) \in Nums
  BY DEF Nums
<1>2. BppsOf(q) \in SUBSET Int
  BY EntryTypes DEF BppsOf
<1>3. NoMode \in Modes /\ [NoMode EXCEPT !.bpp = IF c.junk THEN 63 ELSE 0] \in Modes
  BY <1>1 DEF NoMode, Modes, NoBpp
<1>4. Doubled(BppsOf(q), sw.double) \in Int
  BY DEF Doubled, TypeOK, Memory, Bpps, NoBpp
<1>5. PICK dbl \in Int : dbl = Doubled(BppsOf(q), sw.double)
  BY <1>4
<1>6. AfterDoubling(BppsOf(q), dbl) \in SUBSET Int
  BY <1>2, <1>5 DEF AfterDoubling
<1>7. PICK sent \in SUBSET Int : sent = AfterDoubling(BppsOf(q), dbl)
  BY <1>6
<1>8. \A b \in BOOLEAN :
        [double |-> dbl, soft |-> IF dbl = NoBpp THEN 0 ELSE Least(sent),
         bpp |-> IF b THEN Greatest(sent) ELSE 0] \in Modes
  BY <1>1, <1>5, <1>7 DEF Modes
<1> DEFINE tpg == q = 0 /\ \E r \in Routes(routing) : r.pad = Tpg
<1>9. PICK b \in BOOLEAN : b = (Cardinality(sent) > 1 \/ tpg)
  OBVIOUS
<1>10. [double |-> dbl, soft |-> IF dbl = NoBpp THEN 0 ELSE Least(sent),
        bpp |-> IF Cardinality(sent) > 1 \/ tpg THEN Greatest(sent) ELSE 0] \in Modes
  BY <1>8, <1>9
<1> QED
  BY <1>3, <1>5, <1>7, <1>10 DEF ModeOf

----------------------------------------------------------------------------
(* What a call leaves alone *)

SameEnabled(c, e)  == e.sw.enabled = c.sw.enabled /\ e.hw.enabled = c.hw.enabled
SameActive(c, e)   == e.sw.active = c.sw.active /\ e.hw.phy = c.hw.phy
SameSettings(c, e) ==
    /\ e.sw.vcs = c.sw.vcs /\ e.sw.mode = c.sw.mode /\ e.sw.dts = c.sw.dts
    /\ e.hw.vcs = c.hw.vcs /\ e.hw.mode = c.hw.mode /\ e.hw.dts = c.hw.dts
SameTpg(c, e)    == e.sw.tpg = c.sw.tpg /\ e.hw.tpg = c.hw.tpg
SameRemaps(c, e) ==
    /\ e.sw.remaps = c.sw.remaps
    /\ e.hw.soft = c.hw.soft /\ e.hw.softEnable = c.hw.softEnable
SameCams(c, e)   == e.cam = c.cam

\* What no call of enabling and disabling touches but the last assignment.
SameRest(c, e) ==
    /\ e.sw.on = c.sw.on /\ e.sw.double = c.sw.double /\ e.sw.gmsl = c.sw.gmsl
    /\ e.sw.tpgEntry = c.sw.tpgEntry /\ e.sw.xlates = c.sw.xlates
    /\ e.hw.tunnel = c.hw.tunnel /\ e.hw.xlates = c.hw.xlates
    /\ e.junk = c.junk

\* All but the pipes and PHYs.
SameAround(c, e) ==
    SameTpg(c, e) /\ SameRemaps(c, e) /\ SameCams(c, e) /\ SameRest(c, e)

Same(c, e) ==
    SameEnabled(c, e) /\ SameActive(c, e) /\ SameSettings(c, e) /\ SameAround(c, e)

\* The fault of a handler is met once.
FaultStep(c, e) == e.fault = c.fault \/ e.fault = NoFault

----------------------------------------------------------------------------
(* One call *)

LEMMA Flagged ==
    ASSUME NEW c \in Ctx
    PROVE  /\ Failed(c) \in Ctx /\ Same(c, Failed(c)) /\ Failed(c).err /\ Failed(c).fault = c.fault
           /\ Cleared(c) \in Ctx /\ Same(c, Cleared(c)) /\ ~Cleared(c).err
           /\ Cleared(c).fault = c.fault
BY DEF Failed, Cleared, Ctx, Same, SameEnabled, SameActive, SameSettings, SameAround,
       SameTpg, SameRemaps, SameCams, SameRest

\* A call that fails, or is not made after a failure, changes nothing.
LEMMA TryOutcome ==
    ASSUME NEW c \in Ctx, NEW op, NEW done \in Ctx
    PROVE  LET e == Try(c, op, done) IN
           /\ e \in Ctx
           /\ c.err => e = c
           /\ ~c.err /\ c.fault = op => e.err /\ e.fault = NoFault /\ Same(c, e)
           /\ ~c.err /\ c.fault # op => e = done
<1> DEFINE e == Try(c, op, done)
<1>1. CASE c.err
  BY <1>1 DEF Try
<1>2. CASE ~c.err /\ c.fault = op
  <2>1. e = [c EXCEPT !.err = TRUE, !.fault = NoFault]
    BY <1>2 DEF Try
  <2>2. e \in Ctx /\ e.err /\ e.fault = NoFault
    BY <2>1 DEF Ctx
  <2>3. Same(c, e)
    BY <2>1 DEF Ctx, Same, SameEnabled, SameActive, SameSettings, SameAround,
                SameTpg, SameRemaps, SameCams, SameRest
  <2> QED
    BY <1>2, <2>2, <2>3
<1>3. CASE ~c.err /\ c.fault # op
  BY <1>3 DEF Try
<1> QED
  BY <1>1, <1>2, <1>3

LEMMA PhyActiveDoes ==
    ASSUME TypeOK, NEW c \in Ctx, NEW h \in Phys, NEW on \in BOOLEAN, ~c.err
    PROVE  LET e == SetPhyActive(c, h, on) IN
           /\ e \in Ctx /\ SameEnabled(c, e) /\ SameSettings(c, e) /\ SameAround(c, e)
           /\ e.err => c.fault = <<"phy", h>> /\ e.fault = NoFault /\ Same(c, e)
           /\ ~e.err => /\ c.fault # <<"phy", h>> /\ e.fault = c.fault
                        /\ e.sw.active = [c.sw.active EXCEPT ![h] = on]
                        /\ e.hw.phy = [c.hw.phy EXCEPT ![h] = on]
<1> DEFINE done == [c EXCEPT !.hw.phy[h] = on, !.sw.active[h] = on]
<1>1. PICK f : f = [c.hw EXCEPT !.phy = [c.hw.phy EXCEPT ![h] = on]]
  OBVIOUS
<1>2. PICK g : g = [c.sw EXCEPT !.active = [c.sw.active EXCEPT ![h] = on]]
  OBVIOUS
<1>3. done = [c EXCEPT !.hw = f, !.sw = g]
  BY <1>1, <1>2 DEF Ctx
<1>4. f \in Registers /\ g \in Memory
  BY <1>1, <1>2 DEF Ctx, Registers, Memory
<1>5. done \in Ctx /\ done.hw = f /\ done.sw = g /\ ~done.err
  BY <1>3, <1>4 DEF Ctx
<1>6. SameEnabled(c, done) /\ SameSettings(c, done) /\ SameAround(c, done) /\ done.fault = c.fault
  BY <1>1, <1>2, <1>3 DEF Ctx, Registers, Memory, SameEnabled, SameSettings, SameAround,
         SameTpg, SameRemaps, SameCams, SameRest
<1>7. /\ done.sw.active = [c.sw.active EXCEPT ![h] = on]
      /\ done.hw.phy = [c.hw.phy EXCEPT ![h] = on]
  BY <1>1, <1>2, <1>5 DEF Ctx, Registers, Memory
<1>8. PICK d \in Ctx : d = done
  BY <1>5
<1> HIDE DEF done
<1>9. SetPhyActive(c, h, on) = Try(c, <<"phy", h>>, d)
  BY <1>8 DEF SetPhyActive, done
<1>10. PICK e : e = SetPhyActive(c, h, on)
  OBVIOUS
<1>11. /\ e \in Ctx
       /\ c.fault = <<"phy", h>> => e.err /\ e.fault = NoFault /\ Same(c, e)
       /\ c.fault # <<"phy", h>> => e = d
  BY <1>9, <1>10, TryOutcome
<1>12. Same(c, e) => SameEnabled(c, e) /\ SameSettings(c, e) /\ SameAround(c, e)
  BY DEF Same
<1> QED
  BY <1>5, <1>6, <1>7, <1>8, <1>10, <1>11, <1>12

LEMMA PipeEnableDoes ==
    ASSUME TypeOK, NEW c \in Ctx, NEW q \in Pipes, NEW on \in BOOLEAN, ~c.err
    PROVE  LET e == SetPipeEnable(c, q, on) IN
           /\ e \in Ctx /\ SameActive(c, e) /\ SameSettings(c, e) /\ SameAround(c, e)
           /\ e.err => c.fault = <<"enable", q>> /\ e.fault = NoFault /\ Same(c, e)
           /\ ~e.err => /\ c.fault # <<"enable", q>> /\ e.fault = c.fault
                        /\ e.sw.enabled = [c.sw.enabled EXCEPT ![q] = on]
                        /\ e.hw.enabled = [c.hw.enabled EXCEPT ![q] = on]
<1> DEFINE done == [c EXCEPT !.hw.enabled[q] = on, !.sw.enabled[q] = on]
<1>1. PICK f : f = [c.hw EXCEPT !.enabled = [c.hw.enabled EXCEPT ![q] = on]]
  OBVIOUS
<1>2. PICK g : g = [c.sw EXCEPT !.enabled = [c.sw.enabled EXCEPT ![q] = on]]
  OBVIOUS
<1>3. done = [c EXCEPT !.hw = f, !.sw = g]
  BY <1>1, <1>2 DEF Ctx
<1>4. f \in Registers /\ g \in Memory
  BY <1>1, <1>2 DEF Ctx, Registers, Memory
<1>5. done \in Ctx /\ done.hw = f /\ done.sw = g /\ ~done.err
  BY <1>3, <1>4 DEF Ctx
<1>6. SameActive(c, done) /\ SameSettings(c, done) /\ SameAround(c, done) /\ done.fault = c.fault
  BY <1>1, <1>2, <1>3 DEF Ctx, Registers, Memory, SameActive, SameSettings, SameAround,
         SameTpg, SameRemaps, SameCams, SameRest
<1>7. /\ done.sw.enabled = [c.sw.enabled EXCEPT ![q] = on]
      /\ done.hw.enabled = [c.hw.enabled EXCEPT ![q] = on]
  BY <1>1, <1>2, <1>5 DEF Ctx, Registers, Memory
<1>8. PICK d \in Ctx : d = done
  BY <1>5
<1> HIDE DEF done
<1>9. SetPipeEnable(c, q, on) = Try(c, <<"enable", q>>, d)
  BY <1>8 DEF SetPipeEnable, done
<1>10. PICK e : e = SetPipeEnable(c, q, on)
  OBVIOUS
<1>11. /\ e \in Ctx
       /\ c.fault = <<"enable", q>> => e.err /\ e.fault = NoFault /\ Same(c, e)
       /\ c.fault # <<"enable", q>> => e = d
  BY <1>9, <1>10, TryOutcome
<1>12. Same(c, e) => SameActive(c, e) /\ SameSettings(c, e) /\ SameAround(c, e)
  BY DEF Same
<1> QED
  BY <1>5, <1>6, <1>7, <1>8, <1>10, <1>11, <1>12

LEMMA PipeVcsDo ==
    ASSUME TypeOK, NEW c \in Ctx, NEW q \in Pipes, NEW vcs \in SUBSET Int, ~c.err
    PROVE  LET e == SetPipeVcs(c, q, vcs) IN
           /\ e \in Ctx /\ SameEnabled(c, e) /\ SameActive(c, e) /\ SameAround(c, e)
           /\ e.err => c.fault = <<"vcs", q>> /\ e.fault = NoFault /\ Same(c, e)
           /\ ~e.err => /\ c.fault # <<"vcs", q>> /\ e.fault = c.fault
                        /\ e.hw.vcs = [c.hw.vcs EXCEPT ![q] = vcs]
                        /\ e.sw.vcs = c.sw.vcs /\ e.sw.mode = c.sw.mode /\ e.sw.dts = c.sw.dts
                        /\ e.hw.mode = c.hw.mode /\ e.hw.dts = c.hw.dts
<1> DEFINE done == [c EXCEPT !.hw.vcs[q] = vcs]
<1>1. PICK f : f = [c.hw EXCEPT !.vcs = [c.hw.vcs EXCEPT ![q] = vcs]]
  OBVIOUS
<1>2. PICK g : g = c.sw
  OBVIOUS
<1>3. done = [c EXCEPT !.hw = f, !.sw = g]
  BY <1>1, <1>2 DEF Ctx
<1>4. f \in Registers /\ g \in Memory
  BY <1>1, <1>2 DEF Ctx, Registers, Memory
<1>5. done \in Ctx /\ done.hw = f /\ done.sw = g /\ ~done.err
  BY <1>3, <1>4 DEF Ctx
<1>6. SameEnabled(c, done) /\ SameActive(c, done) /\ SameAround(c, done) /\ done.fault = c.fault
  BY <1>1, <1>2, <1>3 DEF Ctx, Registers, Memory, SameEnabled, SameActive, SameAround,
         SameTpg, SameRemaps, SameCams, SameRest
<1>7. /\ done.hw.vcs = [c.hw.vcs EXCEPT ![q] = vcs]
      /\ done.sw.vcs = c.sw.vcs /\ done.sw.mode = c.sw.mode /\ done.sw.dts = c.sw.dts
      /\ done.hw.mode = c.hw.mode /\ done.hw.dts = c.hw.dts
  BY <1>1, <1>2, <1>5 DEF Ctx, Registers, Memory
<1>8. PICK d \in Ctx : d = done
  BY <1>5
<1> HIDE DEF done
<1>9. SetPipeVcs(c, q, vcs) = Try(c, <<"vcs", q>>, d)
  BY <1>8 DEF SetPipeVcs, done
<1>10. PICK e : e = SetPipeVcs(c, q, vcs)
  OBVIOUS
<1>11. /\ e \in Ctx
       /\ c.fault = <<"vcs", q>> => e.err /\ e.fault = NoFault /\ Same(c, e)
       /\ c.fault # <<"vcs", q>> => e = d
  BY <1>9, <1>10, TryOutcome
<1>12. Same(c, e) => SameEnabled(c, e) /\ SameActive(c, e) /\ SameAround(c, e)
  BY DEF Same
<1> QED
  BY <1>5, <1>6, <1>7, <1>8, <1>10, <1>11, <1>12 DEF Same, SameSettings

LEMMA PipeDtsDo ==
    ASSUME TypeOK, NEW c \in Ctx, NEW q \in Pipes, NEW dts \in SUBSET Int, ~c.err
    PROVE  LET e == SetPipeDts(c, q, dts) IN
           /\ e \in Ctx /\ SameEnabled(c, e) /\ SameActive(c, e) /\ SameAround(c, e)
           /\ e.err => c.fault = <<"dts", q>> /\ e.fault = NoFault /\ Same(c, e)
           /\ ~e.err => /\ c.fault # <<"dts", q>> /\ e.fault = c.fault
                        /\ e.hw.dts = [c.hw.dts EXCEPT ![q] = dts]
                        /\ e.sw.vcs = c.sw.vcs /\ e.sw.mode = c.sw.mode /\ e.sw.dts = c.sw.dts
                        /\ e.hw.vcs = c.hw.vcs /\ e.hw.mode = c.hw.mode
<1> DEFINE done == [c EXCEPT !.hw.dts[q] = dts]
<1>1. PICK f : f = [c.hw EXCEPT !.dts = [c.hw.dts EXCEPT ![q] = dts]]
  OBVIOUS
<1>2. PICK g : g = c.sw
  OBVIOUS
<1>3. done = [c EXCEPT !.hw = f, !.sw = g]
  BY <1>1, <1>2 DEF Ctx
<1>4. f \in Registers /\ g \in Memory
  BY <1>1, <1>2 DEF Ctx, Registers, Memory
<1>5. done \in Ctx /\ done.hw = f /\ done.sw = g /\ ~done.err
  BY <1>3, <1>4 DEF Ctx
<1>6. SameEnabled(c, done) /\ SameActive(c, done) /\ SameAround(c, done) /\ done.fault = c.fault
  BY <1>1, <1>2, <1>3 DEF Ctx, Registers, Memory, SameEnabled, SameActive, SameAround,
         SameTpg, SameRemaps, SameCams, SameRest
<1>7. /\ done.hw.dts = [c.hw.dts EXCEPT ![q] = dts]
      /\ done.sw.vcs = c.sw.vcs /\ done.sw.mode = c.sw.mode /\ done.sw.dts = c.sw.dts
      /\ done.hw.vcs = c.hw.vcs /\ done.hw.mode = c.hw.mode
  BY <1>1, <1>2, <1>5 DEF Ctx, Registers, Memory
<1>8. PICK d \in Ctx : d = done
  BY <1>5
<1> HIDE DEF done
<1>9. SetPipeDts(c, q, dts) = Try(c, <<"dts", q>>, d)
  BY <1>8 DEF SetPipeDts, done
<1>10. PICK e : e = SetPipeDts(c, q, dts)
  OBVIOUS
<1>11. /\ e \in Ctx
       /\ c.fault = <<"dts", q>> => e.err /\ e.fault = NoFault /\ Same(c, e)
       /\ c.fault # <<"dts", q>> => e = d
  BY <1>9, <1>10, TryOutcome
<1>12. Same(c, e) => SameEnabled(c, e) /\ SameActive(c, e) /\ SameAround(c, e)
  BY DEF Same
<1> QED
  BY <1>5, <1>6, <1>7, <1>8, <1>10, <1>11, <1>12 DEF Same, SameSettings

LEMMA PipeModeDoes ==
    ASSUME TypeOK, NEW c \in Ctx, NEW q \in Pipes, NEW mode \in Modes, ~c.err,
           mode # c.sw.mode[q]
    PROVE  LET e == SetPipeMode(c, q, mode) IN
           /\ e \in Ctx /\ SameEnabled(c, e) /\ SameActive(c, e) /\ SameAround(c, e)
           /\ e.err => c.fault = <<"mode", q>> /\ e.fault = NoFault /\ Same(c, e)
           /\ ~e.err => /\ c.fault # <<"mode", q>> /\ e.fault = c.fault
                        /\ e.hw.mode = [c.hw.mode EXCEPT ![q] = mode]
                        /\ e.sw.vcs = c.sw.vcs /\ e.sw.mode = c.sw.mode /\ e.sw.dts = c.sw.dts
                        /\ e.hw.vcs = c.hw.vcs /\ e.hw.dts = c.hw.dts
<1> DEFINE done == [c EXCEPT !.hw.mode[q] = mode]
<1>1. PICK f : f = [c.hw EXCEPT !.mode = [c.hw.mode EXCEPT ![q] = mode]]
  OBVIOUS
<1>2. PICK g : g = c.sw
  OBVIOUS
<1>3. done = [c EXCEPT !.hw = f, !.sw = g]
  BY <1>1, <1>2 DEF Ctx
<1>4. f \in Registers /\ g \in Memory
  BY <1>1, <1>2 DEF Ctx, Registers, Memory
<1>5. done \in Ctx /\ done.hw = f /\ done.sw = g /\ ~done.err
  BY <1>3, <1>4 DEF Ctx
<1>6. SameEnabled(c, done) /\ SameActive(c, done) /\ SameAround(c, done) /\ done.fault = c.fault
  BY <1>1, <1>2, <1>3 DEF Ctx, Registers, Memory, SameEnabled, SameActive, SameAround,
         SameTpg, SameRemaps, SameCams, SameRest
<1>7. /\ done.hw.mode = [c.hw.mode EXCEPT ![q] = mode]
      /\ done.sw.vcs = c.sw.vcs /\ done.sw.mode = c.sw.mode /\ done.sw.dts = c.sw.dts
      /\ done.hw.vcs = c.hw.vcs /\ done.hw.dts = c.hw.dts
  BY <1>1, <1>2, <1>5 DEF Ctx, Registers, Memory
<1>8. PICK d \in Ctx : d = done
  BY <1>5
<1> HIDE DEF done
<1>9. SetPipeMode(c, q, mode) = Try(c, <<"mode", q>>, d)
  BY <1>8 DEF SetPipeMode, done
<1>10. PICK e : e = SetPipeMode(c, q, mode)
  OBVIOUS
<1>11. /\ e \in Ctx
       /\ c.fault = <<"mode", q>> => e.err /\ e.fault = NoFault /\ Same(c, e)
       /\ c.fault # <<"mode", q>> => e = d
  BY <1>9, <1>10, TryOutcome
<1>12. Same(c, e) => SameEnabled(c, e) /\ SameActive(c, e) /\ SameAround(c, e)
  BY DEF Same
<1> QED
  BY <1>5, <1>6, <1>7, <1>8, <1>10, <1>11, <1>12 DEF Same, SameSettings

Settings == [vcs : SUBSET Int, mode : Modes, dts : SUBSET Int]

LEMMA Remembered ==
    ASSUME TypeOK, NEW c \in Ctx, NEW q \in Pipes, NEW new \in Settings, ~c.err
    PROVE  LET e == RememberPipe(c, q, new) IN
           /\ e \in Ctx /\ SameEnabled(c, e) /\ SameActive(c, e) /\ SameAround(c, e)
           /\ ~e.err /\ e.fault = c.fault
           /\ e.sw.vcs = [c.sw.vcs EXCEPT ![q] = new.vcs]
           /\ e.sw.mode = [c.sw.mode EXCEPT ![q] = new.mode]
           /\ e.sw.dts = [c.sw.dts EXCEPT ![q] = new.dts]
           /\ e.hw.vcs = c.hw.vcs /\ e.hw.mode = c.hw.mode /\ e.hw.dts = c.hw.dts
<1>1. PICK g : g = [c.sw EXCEPT !.vcs = [c.sw.vcs EXCEPT ![q] = new.vcs],
                                !.mode = [c.sw.mode EXCEPT ![q] = new.mode],
                                !.dts = [c.sw.dts EXCEPT ![q] = new.dts]]
  OBVIOUS
<1>2. RememberPipe(c, q, new)
        = [c EXCEPT !.sw.vcs[q] = new.vcs, !.sw.mode[q] = new.mode, !.sw.dts[q] = new.dts]
  BY DEF RememberPipe
<1>3. [c EXCEPT !.sw.vcs[q] = new.vcs, !.sw.mode[q] = new.mode, !.sw.dts[q] = new.dts]
        = [c EXCEPT !.sw = g]
  BY <1>1 DEF Ctx, Memory
<1>4. g \in Memory
  BY <1>1 DEF Ctx, Memory, Settings
<1>5. PICK e : e = RememberPipe(c, q, new)
  OBVIOUS
<1>6. e = [c EXCEPT !.sw = g]
  BY <1>2, <1>3, <1>5
<1>7. e \in Ctx /\ e.sw = g /\ e.hw = c.hw /\ e.cam = c.cam /\ e.fault = c.fault
      /\ e.junk = c.junk /\ e.err = c.err
  BY <1>4, <1>6 DEF Ctx
<1>8. /\ g.vcs = [c.sw.vcs EXCEPT ![q] = new.vcs]
      /\ g.mode = [c.sw.mode EXCEPT ![q] = new.mode]
      /\ g.dts = [c.sw.dts EXCEPT ![q] = new.dts]
      /\ g.on = c.sw.on /\ g.active = c.sw.active /\ g.enabled = c.sw.enabled
      /\ g.remaps = c.sw.remaps /\ g.double = c.sw.double /\ g.gmsl = c.sw.gmsl
      /\ g.tpg = c.sw.tpg /\ g.tpgEntry = c.sw.tpgEntry /\ g.xlates = c.sw.xlates
  BY <1>1 DEF Ctx, Memory
<1>9. SameEnabled(c, e) /\ SameActive(c, e) /\ SameAround(c, e)
  BY <1>7, <1>8 DEF SameEnabled, SameActive, SameAround, SameTpg, SameRemaps, SameCams, SameRest
<1> QED
  BY <1>5, <1>7, <1>8, <1>9

LEMMA Chain ==
    ASSUME NEW c, NEW d, NEW e
    PROVE  /\ SameEnabled(c, d) /\ SameEnabled(d, e) => SameEnabled(c, e)
           /\ SameActive(c, d) /\ SameActive(d, e) => SameActive(c, e)
           /\ SameSettings(c, d) /\ SameSettings(d, e) => SameSettings(c, e)
           /\ SameAround(c, d) /\ SameAround(d, e) => SameAround(c, e)
           /\ Same(c, d) /\ Same(d, e) => Same(c, e)
           /\ FaultStep(c, d) /\ FaultStep(d, e) => FaultStep(c, e)
BY DEF SameEnabled, SameActive, SameSettings, SameAround, SameTpg, SameRemaps, SameCams,
       SameRest, Same, FaultStep

PipeFault(c, q, new) ==
    \/ c.fault = <<"vcs", q>> \/ c.fault = <<"dts", q>>
    \/ c.fault = <<"mode", q>> /\ new.mode # c.sw.mode[q]

LEMMA ModeStep ==
    ASSUME TypeOK, NEW c \in Ctx, NEW q \in Pipes, NEW mode \in Modes, ~c.err
    PROVE  LET e == SetPipeMode(c, q, mode) IN
           /\ e \in Ctx /\ SameEnabled(c, e) /\ SameActive(c, e) /\ SameAround(c, e)
           /\ e.err => /\ c.fault = <<"mode", q>> /\ mode # c.sw.mode[q]
                       /\ e.fault = NoFault /\ Same(c, e)
           /\ ~e.err => /\ c.fault # <<"mode", q>> \/ mode = c.sw.mode[q]
                        /\ e.fault = c.fault
                        /\ e.hw.mode = IF mode = c.sw.mode[q] THEN c.hw.mode
                                       ELSE [c.hw.mode EXCEPT ![q] = mode]
                        /\ e.sw = c.sw /\ e.hw.vcs = c.hw.vcs /\ e.hw.dts = c.hw.dts
<1>1. CASE mode = c.sw.mode[q]
  <2>1. SetPipeMode(c, q, mode) = c
    BY <1>1 DEF SetPipeMode
  <2> QED
    BY <1>1, <2>1 DEF SameEnabled, SameActive, SameAround, SameTpg, SameRemaps, SameCams, SameRest
<1>2. CASE mode # c.sw.mode[q]
  <2>1. PICK e : e = SetPipeMode(c, q, mode)
    OBVIOUS
  <2>2. /\ e \in Ctx /\ SameEnabled(c, e) /\ SameActive(c, e) /\ SameAround(c, e)
        /\ e.err => c.fault = <<"mode", q>> /\ e.fault = NoFault /\ Same(c, e)
        /\ ~e.err => /\ c.fault # <<"mode", q>> /\ e.fault = c.fault
                     /\ e.hw.mode = [c.hw.mode EXCEPT ![q] = mode]
                     /\ e.sw.vcs = c.sw.vcs /\ e.sw.mode = c.sw.mode /\ e.sw.dts = c.sw.dts
                     /\ e.hw.vcs = c.hw.vcs /\ e.hw.dts = c.hw.dts
    BY <1>2, <2>1, PipeModeDoes
  <2>3. ~e.err => e.sw = c.sw
    <3>1. ~e.err => /\ e.sw.vcs = c.sw.vcs /\ e.sw.mode = c.sw.mode /\ e.sw.dts = c.sw.dts
                    /\ e.sw.enabled = c.sw.enabled /\ e.sw.active = c.sw.active
                    /\ e.sw.tpg = c.sw.tpg /\ e.sw.remaps = c.sw.remaps /\ e.sw.on = c.sw.on
                    /\ e.sw.double = c.sw.double /\ e.sw.gmsl = c.sw.gmsl
                    /\ e.sw.tpgEntry = c.sw.tpgEntry /\ e.sw.xlates = c.sw.xlates
      BY <2>2 DEF SameEnabled, SameActive, SameAround, SameTpg, SameRemaps, SameCams, SameRest
    <3>2. e.sw \in Memory /\ c.sw \in Memory
      BY <2>2 DEF Ctx
    <3> QED
      BY <3>1, <3>2 DEF Memory
  <2> QED
    BY <1>2, <2>1, <2>2, <2>3
<1> QED
  BY <1>1, <1>2

\* What a pipe gets when its settings are written.
LEMMA PipeWritten ==
    ASSUME TypeOK, NEW c \in Ctx, NEW q \in Pipes, NEW new \in Settings, ~c.err
    PROVE  LET e == WritePipe(c, q, new) IN
           /\ e \in Ctx /\ SameEnabled(c, e) /\ SameActive(c, e) /\ SameAround(c, e)
           /\ e.err => PipeFault(c, q, new) /\ e.fault = NoFault /\ e.sw.mode = c.sw.mode
           /\ ~e.err => /\ ~PipeFault(c, q, new) /\ e.fault = c.fault
                        /\ e.sw.vcs = [c.sw.vcs EXCEPT ![q] = new.vcs]
                        /\ e.sw.mode = [c.sw.mode EXCEPT ![q] = new.mode]
                        /\ e.sw.dts = [c.sw.dts EXCEPT ![q] = new.dts]
                        /\ e.hw.vcs = [c.hw.vcs EXCEPT ![q] = new.vcs]
                        /\ e.hw.dts = [c.hw.dts EXCEPT ![q] = new.dts]
                        /\ e.hw.mode = IF new.mode = c.sw.mode[q] THEN c.hw.mode
                                       ELSE [c.hw.mode EXCEPT ![q] = new.mode]
<1>0. new.vcs \in SUBSET Int /\ new.mode \in Modes /\ new.dts \in SUBSET Int
  BY DEF Settings
<1>1. PICK e : e = WritePipe(c, q, new)
  OBVIOUS
<1>2. PICK a : a = SetPipeVcs(c, q, new.vcs)
  OBVIOUS
<1>3. /\ a \in Ctx /\ SameEnabled(c, a) /\ SameActive(c, a) /\ SameAround(c, a)
      /\ a.err => c.fault = <<"vcs", q>> /\ a.fault = NoFault /\ Same(c, a)
      /\ ~a.err => /\ c.fault # <<"vcs", q>> /\ a.fault = c.fault
                   /\ a.hw.vcs = [c.hw.vcs EXCEPT ![q] = new.vcs]
                   /\ a.sw.vcs = c.sw.vcs /\ a.sw.mode = c.sw.mode /\ a.sw.dts = c.sw.dts
                   /\ a.hw.mode = c.hw.mode /\ a.hw.dts = c.hw.dts
  BY <1>0, <1>2, PipeVcsDo
<1>4. e = FillPipe(a, q, new)
  BY <1>1, <1>2 DEF WritePipe
<1>5. CASE a.err
  <2>1. e = a
    BY <1>4, <1>5 DEF FillPipe
  <2>2. a.sw.mode = c.sw.mode
    BY <1>3, <1>5 DEF Same, SameSettings
  <2> QED
    BY <1>1, <1>3, <1>5, <2>1, <2>2 DEF PipeFault
<1>6. CASE ~a.err
  <2>1. PICK b : b = SetPipeMode(a, q, new.mode)
    OBVIOUS
  <2>2. /\ b \in Ctx /\ SameEnabled(a, b) /\ SameActive(a, b) /\ SameAround(a, b)
        /\ b.err => /\ a.fault = <<"mode", q>> /\ new.mode # a.sw.mode[q]
                    /\ b.fault = NoFault /\ Same(a, b)
        /\ ~b.err => /\ a.fault # <<"mode", q>> \/ new.mode = a.sw.mode[q]
                     /\ b.fault = a.fault
                     /\ b.hw.mode = IF new.mode = a.sw.mode[q] THEN a.hw.mode
                                    ELSE [a.hw.mode EXCEPT ![q] = new.mode]
                     /\ b.sw = a.sw /\ b.hw.vcs = a.hw.vcs /\ b.hw.dts = a.hw.dts
    BY <1>0, <1>3, <1>6, <2>1, ModeStep
  <2>3. PICK d : d = SetPipeDts(b, q, new.dts)
    OBVIOUS
  <2>4. e = RememberPipe(d, q, new)
    BY <1>4, <1>6, <2>1, <2>3 DEF FillPipe
  <2>5. SameEnabled(c, b) /\ SameActive(c, b) /\ SameAround(c, b)
    BY <1>3, <2>2, Chain
  \* The way out of an error: the channels are written again.
  <2>6. ASSUME d \in Ctx, d.err, d.fault = NoFault, SameEnabled(c, d), SameActive(c, d),
               SameAround(c, d), PipeFault(c, q, new), d.sw.mode = c.sw.mode
        PROVE  /\ e \in Ctx /\ SameEnabled(c, e) /\ SameActive(c, e) /\ SameAround(c, e)
               /\ e.err /\ e.fault = NoFault /\ e.sw.mode = c.sw.mode
    <3>1. PICK f : f = Cleared(d)
      OBVIOUS
    <3>2. f \in Ctx /\ Same(d, f) /\ ~f.err /\ f.fault = NoFault
      BY <2>6, <3>1, Flagged
    <3>3. d.sw.vcs[q] \in SUBSET Int
      BY <2>6 DEF Ctx, Memory
    <3>4. PICK g : g = SetPipeVcs(f, q, d.sw.vcs[q])
      OBVIOUS
    <3>5. /\ g \in Ctx /\ SameEnabled(f, g) /\ SameActive(f, g) /\ SameAround(f, g)
          /\ g.fault = NoFault
      BY <3>2, <3>3, <3>4, PipeVcsDo
    <3>13. g.err => Same(f, g)
      BY <3>2, <3>3, <3>4, PipeVcsDo
    <3>14. ~g.err => g.sw.mode = f.sw.mode
      BY <3>2, <3>3, <3>4, PipeVcsDo
    <3>6. e = Failed(g)
      BY <2>4, <2>6, <3>1, <3>4 DEF RememberPipe
    <3>7. e \in Ctx /\ Same(g, e) /\ e.err /\ e.fault = NoFault
      BY <3>5, <3>6, Flagged
    <3>8. SameEnabled(d, f) /\ SameActive(d, f) /\ SameAround(d, f)
      BY <3>2 DEF Same
    <3>9. SameEnabled(g, e) /\ SameActive(g, e) /\ SameAround(g, e)
      BY <3>7 DEF Same
    <3>10. SameEnabled(d, g) /\ SameActive(d, g) /\ SameAround(d, g)
      BY <3>5, <3>8, Chain
    <3>11. SameEnabled(d, e) /\ SameActive(d, e) /\ SameAround(d, e)
      BY <3>9, <3>10, Chain
    <3>12. e.sw.mode = c.sw.mode
      BY <2>6, <3>2, <3>7, <3>13, <3>14 DEF Same, SameSettings
    <3> QED
      BY <2>6, <3>7, <3>11, <3>12, Chain
  <2>7. CASE b.err
    <3>1. d = b
      BY <2>3, <2>7 DEF SetPipeDts, Try
    <3>2. PipeFault(c, q, new)
      BY <1>3, <1>6, <2>2, <2>7 DEF PipeFault
    <3>3. b.sw.mode = c.sw.mode
      BY <1>3, <1>6, <2>2, <2>7 DEF Same, SameSettings
    <3> QED
      BY <1>1, <2>2, <2>5, <2>6, <2>7, <3>1, <3>2, <3>3
  <2>8. CASE ~b.err
    <3>1. /\ d \in Ctx /\ SameEnabled(b, d) /\ SameActive(b, d) /\ SameAround(b, d)
          /\ d.err => b.fault = <<"dts", q>> /\ d.fault = NoFault /\ Same(b, d)
          /\ ~d.err => /\ b.fault # <<"dts", q>> /\ d.fault = b.fault
                       /\ d.hw.dts = [b.hw.dts EXCEPT ![q] = new.dts]
                       /\ d.sw.vcs = b.sw.vcs /\ d.sw.mode = b.sw.mode /\ d.sw.dts = b.sw.dts
                       /\ d.hw.vcs = b.hw.vcs /\ d.hw.mode = b.hw.mode
      BY <1>0, <2>2, <2>3, <2>8, PipeDtsDo
    <3>2. SameEnabled(c, d) /\ SameActive(c, d) /\ SameAround(c, d)
      BY <2>5, <3>1, Chain
    <3>3. CASE d.err
      <4>1. PipeFault(c, q, new)
        BY <1>3, <1>6, <2>2, <2>8, <3>1, <3>3 DEF PipeFault
      <4>2. d.sw.mode = c.sw.mode
        BY <1>3, <1>6, <2>2, <2>8, <3>1, <3>3 DEF Same, SameSettings
      <4> QED
        BY <1>1, <2>6, <3>1, <3>2, <3>3, <4>1, <4>2
    <3>4. CASE ~d.err
      <4>1. /\ e \in Ctx /\ SameEnabled(d, e) /\ SameActive(d, e) /\ SameAround(d, e)
            /\ ~e.err /\ e.fault = d.fault
            /\ e.sw.vcs = [d.sw.vcs EXCEPT ![q] = new.vcs]
            /\ e.sw.mode = [d.sw.mode EXCEPT ![q] = new.mode]
            /\ e.sw.dts = [d.sw.dts EXCEPT ![q] = new.dts]
            /\ e.hw.vcs = d.hw.vcs /\ e.hw.mode = d.hw.mode /\ e.hw.dts = d.hw.dts
        BY <2>4, <3>1, <3>4, Remembered
      <4>2. SameEnabled(c, e) /\ SameActive(c, e) /\ SameAround(c, e)
        BY <3>2, <4>1, Chain
      <4>3. ~PipeFault(c, q, new)
        BY <1>3, <1>6, <2>2, <2>8, <3>1, <3>4 DEF PipeFault
      <4>4. a.sw.mode[q] = c.sw.mode[q]
        BY <1>3, <1>6
      <4> QED
        BY <1>1, <1>3, <1>6, <2>2, <2>8, <3>1, <3>4, <4>1, <4>2, <4>3, <4>4
    <3> QED
      BY <3>3, <3>4
  <2> QED
    BY <2>7, <2>8
<1> QED
  BY <1>5, <1>6

----------------------------------------------------------------------------
(* A pipe *)

Wanted(c, q, masks) ==
    [vcs |-> VcsOf(q, masks), mode |-> ModeOf(c, q), dts |-> DtsOf(q, masks)]
Live(q, masks) == LiveOn(q, masks) # {}

LEMMA WantedTypes ==
    ASSUME TypeOK, NEW c \in Ctx, NEW q, NEW masks
    PROVE  Wanted(c, q, masks) \in Settings
<1>1. LiveOn(q, masks) \subseteq Routes(routing)
  BY DEF LiveOn
<1>2. VcsOf(q, masks) \in SUBSET Int /\ DtsOf(q, masks) \in SUBSET Int
  BY <1>1, EntryTypes DEF VcsOf, DtsOf
<1> QED
  BY <1>2, ModeTypes DEF Wanted, Settings

LEMMA NoFaultIsNone ==
    \A q : /\ NoFault # <<"vcs", q>> /\ NoFault # <<"dts", q>> /\ NoFault # <<"mode", q>>
           /\ NoFault # <<"enable", q>> /\ NoFault # <<"phy", q>> /\ NoFault # <<"cam", q>>
           /\ NoFault # <<"soft", q>> /\ NoFault # <<"softEnable">> /\ NoFault # <<"tpg">>
BY DEF NoFault

LEMMA PipeUpdates ==
    ASSUME TypeOK, NEW c \in Ctx, NEW q \in Pipes, NEW masks, ~c.err
    PROVE  LET e == UpdatePipe(c, q, masks)
               new == Wanted(c, q, masks) IN
           /\ e \in Ctx /\ SameEnabled(c, e) /\ SameActive(c, e) /\ SameAround(c, e)
           /\ FaultStep(c, e) /\ (e.err => e.sw.mode = c.sw.mode)
           /\ ~PipeKnown(q) => e.err /\ e.fault = c.fault /\ Same(c, e)
           /\ PipeKnown(q) /\ e.err => PipeFault(c, q, new) /\ e.fault = NoFault
           /\ ~e.err => /\ PipeKnown(q) /\ ~PipeFault(c, q, new) /\ e.fault = c.fault
                        /\ e.sw.vcs = [c.sw.vcs EXCEPT ![q] = new.vcs]
                        /\ e.sw.mode = [c.sw.mode EXCEPT ![q] = new.mode]
                        /\ e.sw.dts = [c.sw.dts EXCEPT ![q] = new.dts]
                        /\ e.hw.vcs = [c.hw.vcs EXCEPT ![q] = new.vcs]
                        /\ e.hw.dts = [c.hw.dts EXCEPT ![q] = new.dts]
                        /\ e.hw.mode = IF new.mode = c.sw.mode[q] THEN c.hw.mode
                                       ELSE [c.hw.mode EXCEPT ![q] = new.mode]
<1>1. PICK e : e = UpdatePipe(c, q, masks)
  OBVIOUS
<1>2. PICK new \in Settings : new = Wanted(c, q, masks)
  BY WantedTypes
<1>3. CASE PipeKnown(q)
  <2>1. e = WritePipe(c, q, new)
    BY <1>1, <1>2, <1>3 DEF UpdatePipe, Wanted
  <2>2. PICK w : w = WritePipe(c, q, new)
    OBVIOUS
  <2>3. /\ w \in Ctx /\ SameEnabled(c, w) /\ SameActive(c, w) /\ SameAround(c, w)
        /\ w.err => PipeFault(c, q, new) /\ w.fault = NoFault /\ w.sw.mode = c.sw.mode
        /\ ~w.err => /\ ~PipeFault(c, q, new) /\ w.fault = c.fault
                     /\ w.sw.vcs = [c.sw.vcs EXCEPT ![q] = new.vcs]
                     /\ w.sw.mode = [c.sw.mode EXCEPT ![q] = new.mode]
                     /\ w.sw.dts = [c.sw.dts EXCEPT ![q] = new.dts]
                     /\ w.hw.vcs = [c.hw.vcs EXCEPT ![q] = new.vcs]
                     /\ w.hw.dts = [c.hw.dts EXCEPT ![q] = new.dts]
                     /\ w.hw.mode = IF new.mode = c.sw.mode[q] THEN c.hw.mode
                                    ELSE [c.hw.mode EXCEPT ![q] = new.mode]
    BY <2>2, PipeWritten
  <2>4. FaultStep(c, e)
    BY <2>1, <2>2, <2>3 DEF FaultStep
  <2> QED
    BY <1>1, <1>2, <1>3, <2>1, <2>2, <2>3, <2>4
<1>4. CASE ~PipeKnown(q)
  <2>1. e = Failed(c)
    BY <1>1, <1>4 DEF UpdatePipe
  <2>2. e \in Ctx /\ Same(c, e) /\ e.err /\ e.fault = c.fault
    BY <2>1, Flagged
  <2> QED
    BY <1>1, <1>4, <2>2 DEF Same, SameSettings, FaultStep
<1> QED
  BY <1>3, <1>4

\* The streams of the masks that are on can be looked up.
Known(masks) == \A r \in Routes(routing) : IsOn(r, masks) => Resolves(r)

LEMMA PipeEnables ==
    ASSUME TypeOK, NEW c \in Ctx, NEW q \in Pipes, NEW masks, ~c.err
    PROVE  LET e == UpdatePipeEnable(c, q, masks) IN
           /\ e \in Ctx /\ SameActive(c, e) /\ SameSettings(c, e) /\ SameAround(c, e)
           /\ FaultStep(c, e)
           /\ e.err => /\ SameEnabled(c, e)
                       /\ \/ ~Known(masks) /\ e.fault = c.fault
                          \/ /\ c.fault = <<"enable", q>> /\ e.fault = NoFault
                             /\ c.sw.enabled[q] # Live(q, masks)
           /\ ~e.err => /\ e.fault = c.fault
                        /\ c.fault = <<"enable", q>> => c.sw.enabled[q] = Live(q, masks)
                        /\ e.sw.enabled = [c.sw.enabled EXCEPT ![q] = Live(q, masks)]
                        /\ e.hw.enabled = IF c.sw.enabled[q] = Live(q, masks) THEN c.hw.enabled
                                          ELSE [c.hw.enabled EXCEPT ![q] = Live(q, masks)]
<1>1. PICK e : e = UpdatePipeEnable(c, q, masks)
  OBVIOUS
<1>2. PICK on \in BOOLEAN : on = Live(q, masks)
  BY DEF Live
<1> DEFINE lost == \E n \in DOMAIN routing :
                      /\ IsOn(routing[n], masks) /\ ~Resolves(routing[n])
                      /\ \A k \in 1 .. n - 1 : routing[k] \notin LiveOn(q, masks)
<1>3. lost => ~Known(masks)
  BY DEF Known, Routes
<1>4. e = IF lost THEN Failed(c)
          ELSE IF on = c.sw.enabled[q] THEN c ELSE SetPipeEnable(c, q, on)
  BY <1>1, <1>2 DEF UpdatePipeEnable, Live
<1> HIDE DEF lost
<1>5. CASE lost
  <2>1. e \in Ctx /\ Same(c, e) /\ e.err /\ e.fault = c.fault
    BY <1>4, <1>5, Flagged
  <2> QED
    BY <1>1, <1>3, <1>5, <2>1 DEF Same, FaultStep
<1>6. CASE ~lost /\ on = c.sw.enabled[q]
  <2>1. e = c
    BY <1>4, <1>6
  <2>2. c.sw.enabled = [c.sw.enabled EXCEPT ![q] = on]
    BY <1>6 DEF Ctx, Memory
  <2>3. SameActive(c, e) /\ SameSettings(c, e) /\ SameAround(c, e) /\ FaultStep(c, e)
    BY <2>1 DEF SameActive, SameSettings, SameAround, SameTpg, SameRemaps, SameCams, SameRest,
                FaultStep
  <2> QED
    BY <1>1, <1>2, <1>6, <2>1, <2>2, <2>3
<1>7. CASE ~lost /\ on # c.sw.enabled[q]
  <2>1. PICK d : d = SetPipeEnable(c, q, on)
    OBVIOUS
  <2>2. /\ d \in Ctx /\ SameActive(c, d) /\ SameSettings(c, d) /\ SameAround(c, d)
        /\ d.err => c.fault = <<"enable", q>> /\ d.fault = NoFault /\ Same(c, d)
        /\ ~d.err => /\ c.fault # <<"enable", q>> /\ d.fault = c.fault
                     /\ d.sw.enabled = [c.sw.enabled EXCEPT ![q] = on]
                     /\ d.hw.enabled = [c.hw.enabled EXCEPT ![q] = on]
    BY <2>1, PipeEnableDoes
  <2>3. e = d
    BY <1>4, <1>7, <2>1
  <2>4. FaultStep(c, e)
    BY <2>2, <2>3 DEF FaultStep
  <2>5. d.err => SameEnabled(c, e)
    BY <2>2, <2>3 DEF Same
  <2> QED
    BY <1>1, <1>2, <1>7, <2>2, <2>3, <2>4, <2>5
<1> QED
  BY <1>5, <1>6, <1>7

----------------------------------------------------------------------------
(* The pipe of a PHY *)

LEMMA LeastFound ==
    ASSUME NEW S \in SUBSET {0, 1, 2, 3}, S # {}
    PROVE  Least(S) \in S /\ \A y \in S : Least(S) <= y
<1>1. \E x \in S : \A y \in S : x <= y
  <2>1. CASE 0 \in S
    BY <2>1
  <2>2. CASE 0 \notin S /\ 1 \in S
    BY <2>2
  <2>3. CASE 0 \notin S /\ 1 \notin S /\ 2 \in S
    BY <2>3
  <2>4. CASE 0 \notin S /\ 1 \notin S /\ 2 \notin S
    <3>1. S = {3}
      BY <2>4
    <3> QED
      BY <3>1
  <2> QED
    BY <2>1, <2>2, <2>3, <2>4
<1> QED
  BY <1>1 DEF Least

LEMMA LeastNat ==
    ASSUME NEW S \in SUBSET Nat, S # {}
    PROVE  Least(S) \in S /\ \A y \in S : Least(S) <= y
<1>1. PICK R : R = {ss \in Nat \X Nat : ss[1] < ss[2]}
  OBVIOUS
<1>2. IsWellFoundedOn(R, Nat)
  BY <1>1, NatLessThanWellFounded DEF OpToRel
<1>3. PICK x \in S : \A y \in S : ~ (<<y, x>> \in R)
  BY <1>2, WFMin
<1>4. ASSUME NEW y \in S
      PROVE  x <= y
  <2>1. x \in Nat /\ y \in Nat
    OBVIOUS
  <2>2. y < x => <<y, x>> \in R
    BY <1>1, <2>1
  <2> QED
    BY <1>3, <2>1, <2>2
<1> QED
  BY <1>4 DEF Least

LEMMA PipeFound ==
    ASSUME scene \in Scenes, NEW h \in Phys, NEW streams
    PROVE  FindPipe(h, streams) \in Pipes /\ FindPipe(h, streams) % scene.chip.phys = h
<1> DEFINE mine == {q \in Pipes : q % scene.chip.phys = h}
           fits == {q \in mine : streams = {} \/ scene.preset[q] = {}
                                 \/ scene.preset[q] \cap streams # {}}
           S == IF fits # {} THEN fits ELSE mine
<1>1. h \in mine
  <2>1. h \in Pipes /\ h % scene.chip.phys = h
    BY Chips
  <2> QED
    BY <2>1
<1>2. mine \subseteq {0, 1, 2, 3} /\ fits \subseteq mine
  BY Chips
<1>3. S \in SUBSET {0, 1, 2, 3} /\ S # {} /\ S \subseteq mine
  BY <1>1, <1>2
<1>4. FindPipe(h, streams) = Least(S)
  BY DEF FindPipe
<1> HIDE DEF S
<1>5. Least(S) \in S
  BY <1>3, LeastFound
<1> QED
  BY <1>3, <1>4, <1>5

----------------------------------------------------------------------------
(* The switches of pipes and PHYs agree with what is remembered of them *)

Agree(c) ==
    /\ \A q \in Pipes : /\ c.hw.enabled[q] => c.sw.enabled[q]
                        /\ q \notin stale.pipes => (c.sw.enabled[q] => c.hw.enabled[q])
    /\ \A h \in Phys : /\ c.hw.phy[h] => c.sw.active[h]
                       /\ h \notin stale.phys => (c.sw.active[h] => c.hw.phy[h])

Keeps(c, e) ==
    e \in Ctx /\ SameAround(c, e) /\ FaultStep(c, e) /\ (Agree(c) => Agree(e))

LEMMA KeepsChain ==
    ASSUME NEW c, NEW d, NEW e, Keeps(c, d), Keeps(d, e)
    PROVE  Keeps(c, e)
BY Chain DEF Keeps

LEMMA KeepsSame ==
    ASSUME NEW c, NEW e \in Ctx, Same(c, e), FaultStep(c, e)
    PROVE  Keeps(c, e)
BY DEF Keeps, Same, Agree, SameEnabled, SameActive

LEMMA KeepsFlags ==
    ASSUME NEW c \in Ctx
    PROVE  Keeps(c, c) /\ Keeps(c, Failed(c)) /\ Keeps(c, Cleared(c)) /\ ~Cleared(c).err
<1>1. Same(c, c) /\ FaultStep(c, c)
  BY DEF Same, SameEnabled, SameActive, SameSettings, SameAround, SameTpg, SameRemaps,
         SameCams, SameRest, FaultStep
<1>2. /\ Failed(c) \in Ctx /\ Same(c, Failed(c)) /\ FaultStep(c, Failed(c))
      /\ Cleared(c) \in Ctx /\ Same(c, Cleared(c)) /\ FaultStep(c, Cleared(c)) /\ ~Cleared(c).err
  BY Flagged DEF FaultStep
<1> QED
  BY <1>1, <1>2, KeepsSame

LEMMA KeepsPhy ==
    ASSUME TypeOK, NEW c \in Ctx, NEW h \in Phys, NEW on \in BOOLEAN, ~c.err
    PROVE  Keeps(c, SetPhyActive(c, h, on))
<1>1. PICK e : e = SetPhyActive(c, h, on)
  OBVIOUS
<1>2. /\ e \in Ctx /\ SameEnabled(c, e) /\ SameSettings(c, e) /\ SameAround(c, e)
      /\ e.err => c.fault = <<"phy", h>> /\ e.fault = NoFault /\ Same(c, e)
      /\ ~e.err => /\ c.fault # <<"phy", h>> /\ e.fault = c.fault
                   /\ e.sw.active = [c.sw.active EXCEPT ![h] = on]
                   /\ e.hw.phy = [c.hw.phy EXCEPT ![h] = on]
  BY <1>1, PhyActiveDoes
<1>3. FaultStep(c, e)
  BY <1>2 DEF FaultStep
<1>4. CASE e.err
  BY <1>1, <1>2, <1>3, <1>4, KeepsSame
<1>5. CASE ~e.err
  <2>1. c.sw.active \in [Phys -> BOOLEAN] /\ c.hw.phy \in [Phys -> BOOLEAN]
    BY DEF Ctx, Memory, Registers
  <2>2. \A k \in Phys : /\ e.sw.active[k] = IF k = h THEN on ELSE c.sw.active[k]
                        /\ e.hw.phy[k] = IF k = h THEN on ELSE c.hw.phy[k]
    BY <1>2, <1>5, <2>1
  <2>3. Agree(c) => Agree(e)
    BY <1>2, <2>2 DEF Agree, SameEnabled
  <2> QED
    BY <1>1, <1>2, <1>3, <2>3 DEF Keeps
<1> QED
  BY <1>4, <1>5

LEMMA KeepsUpdate ==
    ASSUME TypeOK, NEW c \in Ctx, NEW q \in Pipes, NEW masks, ~c.err
    PROVE  Keeps(c, UpdatePipe(c, q, masks))
<1>1. PICK e : e = UpdatePipe(c, q, masks)
  OBVIOUS
<1>2. e \in Ctx /\ SameEnabled(c, e) /\ SameActive(c, e) /\ SameAround(c, e) /\ FaultStep(c, e)
  BY <1>1, PipeUpdates
<1> QED
  BY <1>1, <1>2 DEF Keeps, Agree, SameEnabled, SameActive

LEMMA KeepsEnable ==
    ASSUME TypeOK, NEW c \in Ctx, NEW q \in Pipes, NEW masks, ~c.err
    PROVE  Keeps(c, UpdatePipeEnable(c, q, masks))
<1>1. PICK e : e = UpdatePipeEnable(c, q, masks)
  OBVIOUS
<1>2. PICK on \in BOOLEAN : on = Live(q, masks)
  BY DEF Live
<1>3. /\ e \in Ctx /\ SameActive(c, e) /\ SameSettings(c, e) /\ SameAround(c, e)
      /\ FaultStep(c, e)
      /\ e.err => SameEnabled(c, e)
      /\ ~e.err => /\ e.sw.enabled = [c.sw.enabled EXCEPT ![q] = on]
                   /\ e.hw.enabled = IF c.sw.enabled[q] = on THEN c.hw.enabled
                                     ELSE [c.hw.enabled EXCEPT ![q] = on]
  BY <1>1, <1>2, PipeEnables
<1>4. CASE e.err
  BY <1>1, <1>3, <1>4 DEF Keeps, Agree, SameEnabled, SameActive
<1>5. CASE ~e.err
  <2>1. c.sw.enabled \in [Pipes -> BOOLEAN] /\ c.hw.enabled \in [Pipes -> BOOLEAN]
    BY DEF Ctx, Memory, Registers
  <2>2. \A k \in Pipes :
           /\ e.sw.enabled[k] = IF k = q THEN on ELSE c.sw.enabled[k]
           /\ e.hw.enabled[k] = IF k = q /\ c.sw.enabled[q] # on THEN on ELSE c.hw.enabled[k]
    BY <1>3, <1>5, <2>1
  <2>3. Agree(c) => Agree(e)
    BY <1>3, <2>1, <2>2 DEF Agree, SameActive
  <2> QED
    BY <1>1, <1>3, <2>3 DEF Keeps
<1> QED
  BY <1>4, <1>5

LEMMA KeepsReverts ==
    ASSUME TypeOK, NEW c \in Ctx, NEW h \in Phys, NEW q \in Pipes, NEW masks
    PROVE  /\ Keeps(c, RevertPhy(c, h, masks)) /\ Keeps(c, RevertPipe(c, q))
           /\ Keeps(c, RevertEnable(c, q))
<1>1. PICK d : d = Cleared(c)
  OBVIOUS
<1>2. d \in Ctx /\ ~d.err /\ Keeps(c, d)
  BY <1>1, KeepsFlags, Flagged
<1>3. Keeps(c, RevertPipe(c, q))
  <2>1. RevertPipe(c, q) = UpdatePipe(d, q, c.sw.on)
    BY <1>1 DEF RevertPipe
  <2>2. Keeps(d, UpdatePipe(d, q, c.sw.on))
    BY <1>2, KeepsUpdate
  <2> QED
    BY <1>2, <2>1, <2>2, KeepsChain
<1>4. Keeps(c, RevertEnable(c, q))
  <2>1. RevertEnable(c, q) = UpdatePipeEnable(d, q, c.sw.on)
    BY <1>1 DEF RevertEnable
  <2>2. Keeps(d, UpdatePipeEnable(d, q, c.sw.on))
    BY <1>2, KeepsEnable
  <2> QED
    BY <1>2, <2>1, <2>2, KeepsChain
<1>5. Keeps(c, RevertPhy(c, h, masks))
  <2>1. CASE Stops(c, h, masks)
    <3>1. PICK e : e = SetPhyActive(d, h, TRUE)
      OBVIOUS
    <3>2. Keeps(d, e)
      BY <1>2, <3>1, KeepsPhy
    <3>3. Keeps(c, e) /\ e \in Ctx
      BY <1>2, <3>2, KeepsChain DEF Keeps
    <3>4. RevertPhy(c, h, masks) = Failed(e)
      BY <1>1, <2>1, <3>1 DEF RevertPhy
    <3>5. Keeps(e, Failed(e))
      BY <3>3, KeepsFlags
    <3> QED
      BY <3>3, <3>4, <3>5, KeepsChain
  <2>2. CASE ~Stops(c, h, masks)
    <3>1. RevertPhy(c, h, masks) = Failed(c)
      BY <2>2 DEF RevertPhy
    <3> QED
      BY <3>1, KeepsFlags
  <2> QED
    BY <2>1, <2>2
<1> QED
  BY <1>3, <1>4, <1>5

LEMMA KeepsUpdatePhy ==
    ASSUME TypeOK, NEW c \in Ctx, NEW h \in Phys, NEW masks, ~c.err
    PROVE  Keeps(c, UpdatePhy(c, h, masks))
<1>1. PICK q \in Pipes : q = FindPipe(h, masks[h])
  BY PipeFound DEF TypeOK
<1>2. ASSUME NEW d \in Ctx
      PROVE  Keeps(d, PhyStarted(d, h, q, masks))
  <2>1. PICK a : a = RevertEnable(d, q)
    OBVIOUS
  <2>2. a \in Ctx /\ Keeps(d, a)
    BY <2>1, KeepsReverts DEF Keeps
  <2>3. PICK b : b = RevertPipe(a, q)
    OBVIOUS
  <2>4. b \in Ctx /\ Keeps(a, b)
    BY <2>2, <2>3, KeepsReverts DEF Keeps
  <2>5. Keeps(b, RevertPhy(b, h, masks))
    BY <2>4, KeepsReverts
  <2>6. Keeps(d, b)
    BY <2>2, <2>4, KeepsChain
  <2>7. Keeps(d, RevertPhy(b, h, masks))
    BY <2>5, <2>6, KeepsChain
  <2>8. PhyStarted(d, h, q, masks) = IF d.err THEN RevertPhy(b, h, masks) ELSE d
    BY <2>1, <2>3 DEF PhyStarted
  <2> QED
    BY <2>7, <2>8, KeepsFlags
<1>3. ASSUME NEW d \in Ctx
      PROVE  Keeps(d, PhyEnabled(d, h, q, masks))
  <2>1. CASE d.err
    <3>1. PICK a : a = RevertPipe(d, q)
      OBVIOUS
    <3>2. a \in Ctx /\ Keeps(d, a)
      BY <3>1, KeepsReverts DEF Keeps
    <3>3. Keeps(a, RevertPhy(a, h, masks))
      BY <3>2, KeepsReverts
    <3>4. PhyEnabled(d, h, q, masks) = RevertPhy(a, h, masks)
      BY <2>1, <3>1 DEF PhyEnabled
    <3> QED
      BY <3>2, <3>3, <3>4, KeepsChain
  <2>2. CASE ~d.err
    <3>1. PICK a : a = IF Starts(d, h, masks) THEN SetPhyActive(d, h, TRUE) ELSE d
      OBVIOUS
    <3>2. Keeps(d, a) /\ a \in Ctx
      BY <2>2, <3>1, KeepsPhy, KeepsFlags DEF Keeps
    <3>3. Keeps(a, PhyStarted(a, h, q, masks))
      BY <1>2, <3>2
    <3>4. PhyEnabled(d, h, q, masks) = PhyStarted(a, h, q, masks)
      BY <2>2, <3>1 DEF PhyEnabled
    <3> QED
      BY <3>2, <3>3, <3>4, KeepsChain
  <2> QED
    BY <2>1, <2>2
<1>4. ASSUME NEW d \in Ctx
      PROVE  Keeps(d, PhyFilled(d, h, q, masks))
  <2>1. CASE d.err
    <3>1. PhyFilled(d, h, q, masks) = RevertPhy(d, h, masks)
      BY <2>1 DEF PhyFilled
    <3> QED
      BY <3>1, KeepsReverts
  <2>2. CASE ~d.err
    <3>1. PICK a : a = UpdatePipeEnable(d, q, masks)
      OBVIOUS
    <3>2. Keeps(d, a) /\ a \in Ctx
      BY <2>2, <3>1, KeepsEnable DEF Keeps
    <3>3. Keeps(a, PhyEnabled(a, h, q, masks))
      BY <1>3, <3>2
    <3>4. PhyFilled(d, h, q, masks) = PhyEnabled(a, h, q, masks)
      BY <2>2, <3>1 DEF PhyFilled
    <3> QED
      BY <3>2, <3>3, <3>4, KeepsChain
  <2> QED
    BY <2>1, <2>2
<1>5. ASSUME NEW d \in Ctx
      PROVE  Keeps(d, PhyStopped(d, h, q, masks))
  <2>1. CASE d.err
    BY <2>1, KeepsFlags DEF PhyStopped
  <2>2. CASE ~d.err
    <3>1. PICK a : a = UpdatePipe(d, q, masks)
      OBVIOUS
    <3>2. Keeps(d, a) /\ a \in Ctx
      BY <2>2, <3>1, KeepsUpdate DEF Keeps
    <3>3. Keeps(a, PhyFilled(a, h, q, masks))
      BY <1>4, <3>2
    <3>4. PhyStopped(d, h, q, masks) = PhyFilled(a, h, q, masks)
      BY <2>2, <3>1 DEF PhyStopped
    <3> QED
      BY <3>2, <3>3, <3>4, KeepsChain
  <2> QED
    BY <2>1, <2>2
<1>6. PICK a : a = IF Stops(c, h, masks) THEN SetPhyActive(c, h, FALSE) ELSE c
  OBVIOUS
<1>7. Keeps(c, a) /\ a \in Ctx
  BY <1>6, KeepsPhy, KeepsFlags DEF Keeps
<1>8. Keeps(a, PhyStopped(a, h, q, masks))
  BY <1>5, <1>7
<1>9. UpdatePhy(c, h, masks) = PhyStopped(a, h, q, masks)
  BY <1>1, <1>6 DEF UpdatePhy
<1> QED
  BY <1>7, <1>8, <1>9, KeepsChain

LEMMA KeepsUpdatePhys ==
    ASSUME TypeOK, NEW c \in Ctx, NEW masks, ~c.err
    PROVE  Keeps(c, UpdatePhys(c, masks))
<1>0. 0 \in Phys /\ (scene.chip.phys # 1 => 1 \in Phys)
  BY Chips DEF TypeOK
<1>1. PICK a : a = UpdatePhy(c, 0, masks)
  OBVIOUS
<1>2. Keeps(c, a) /\ a \in Ctx
  BY <1>0, <1>1, KeepsUpdatePhy DEF Keeps
<1>3. UpdatePhys(c, masks) = FirstPhyDone(a, masks)
  BY <1>1 DEF UpdatePhys
<1>4. CASE a.err \/ scene.chip.phys = 1
  BY <1>2, <1>3, <1>4 DEF FirstPhyDone
<1>5. CASE ~(a.err \/ scene.chip.phys = 1)
  <2>1. PICK b : b = UpdatePhy(a, 1, masks)
    OBVIOUS
  <2>2. Keeps(a, b) /\ b \in Ctx
    BY <1>0, <1>2, <1>5, <2>1, KeepsUpdatePhy DEF Keeps
  <2>3. Keeps(c, b)
    BY <1>2, <2>2, KeepsChain
  <2>4. UpdatePhys(c, masks) = SecondPhyDone(b)
    BY <1>3, <1>5, <2>1 DEF FirstPhyDone
  <2>5. PICK d : d = Cleared(b)
    OBVIOUS
  <2>6. d \in Ctx /\ ~d.err /\ Keeps(b, d)
    BY <2>2, <2>5, KeepsFlags DEF Keeps
  <2>7. PICK e : e = UpdatePhy(d, 0, b.sw.on)
    OBVIOUS
  <2>8. Keeps(d, e) /\ e \in Ctx
    BY <1>0, <2>6, <2>7, KeepsUpdatePhy DEF Keeps
  <2>9. Keeps(e, Failed(e))
    BY <2>8, KeepsFlags
  <2>10. SecondPhyDone(b) = IF b.err THEN Failed(e) ELSE b
    BY <2>5, <2>7 DEF SecondPhyDone
  <2>11. Keeps(b, e)
    BY <2>6, <2>8, KeepsChain
  <2>12. Keeps(b, Failed(e))
    BY <2>9, <2>11, KeepsChain
  <2>13. Keeps(c, Failed(e))
    BY <2>3, <2>12, KeepsChain
  <2> QED
    BY <2>3, <2>4, <2>10, <2>13
<1> QED
  BY <1>4, <1>5

----------------------------------------------------------------------------
(* The test pattern *)

TpgOn(masks) == \E r \in {x \in Routes(routing) : IsOn(x, masks)} : r.pad = Tpg
SamePipes(c, e) == SameEnabled(c, e) /\ SameActive(c, e) /\ SameSettings(c, e)

LEMMA SameItself ==
    ASSUME NEW c
    PROVE  /\ SamePipes(c, c) /\ SameTpg(c, c) /\ SameRemaps(c, c) /\ SameCams(c, c)
           /\ SameRest(c, c) /\ SameAround(c, c) /\ Same(c, c) /\ FaultStep(c, c)
BY DEF SamePipes, SameEnabled, SameActive, SameSettings, SameTpg, SameRemaps, SameCams,
       SameRest, SameAround, Same, FaultStep

LEMMA SameParts ==
    ASSUME NEW c, NEW e
    PROVE  /\ Same(c, e) <=> SamePipes(c, e) /\ SameAround(c, e)
           /\ SameAround(c, e) <=> SameTpg(c, e) /\ SameRemaps(c, e) /\ SameCams(c, e)
                                   /\ SameRest(c, e)
BY DEF SamePipes, SameAround, Same

LEMMA PartsChain ==
    ASSUME NEW c, NEW d, NEW e
    PROVE  /\ SamePipes(c, d) /\ SamePipes(d, e) => SamePipes(c, e)
           /\ SameTpg(c, d) /\ SameTpg(d, e) => SameTpg(c, e)
           /\ SameRemaps(c, d) /\ SameRemaps(d, e) => SameRemaps(c, e)
           /\ SameCams(c, d) /\ SameCams(d, e) => SameCams(c, e)
           /\ SameRest(c, d) /\ SameRest(d, e) => SameRest(c, e)
BY DEF SamePipes, SameEnabled, SameActive, SameSettings, SameTpg, SameRemaps, SameCams, SameRest

LEMMA TpgUpdates ==
    ASSUME TypeOK, NEW c \in Ctx, NEW masks, ~c.err
    PROVE  LET e == UpdateTpg(c, masks) IN
           /\ e \in Ctx /\ SamePipes(c, e) /\ SameRemaps(c, e) /\ SameCams(c, e) /\ SameRest(c, e)
           /\ FaultStep(c, e)
           /\ e.err => /\ SameTpg(c, e)
                       /\ \/ ~Known(masks) /\ e.fault = c.fault
                          \/ /\ c.fault = <<"tpg">> /\ e.fault = NoFault
                             /\ c.sw.tpg # TpgOn(masks)
           /\ ~e.err => /\ Known(masks) /\ e.fault = c.fault
                        /\ c.fault = <<"tpg">> => c.sw.tpg = TpgOn(masks)
                        /\ e.sw.tpg = TpgOn(masks)
                        /\ e.hw.tpg = IF c.sw.tpg = TpgOn(masks) THEN c.hw.tpg ELSE TpgOn(masks)
<1>1. PICK e : e = UpdateTpg(c, masks)
  OBVIOUS
<1>2. PICK tpg \in BOOLEAN : tpg = TpgOn(masks)
  BY DEF TpgOn
<1> DEFINE lost == \E r \in {x \in Routes(routing) : IsOn(x, masks)} : ~Resolves(r)
           done == [c EXCEPT !.hw.tpg = tpg, !.sw.tpg = tpg]
<1>3. lost <=> ~Known(masks)
  BY DEF Known
<1>4. e = IF lost THEN Failed(c)
          ELSE IF tpg = c.sw.tpg THEN c ELSE Try(c, <<"tpg">>, done)
  BY <1>1, <1>2 DEF UpdateTpg, TpgOn
<1>5. PICK f : f = [c.hw EXCEPT !.tpg = tpg]
  OBVIOUS
<1>6. PICK g : g = [c.sw EXCEPT !.tpg = tpg]
  OBVIOUS
<1>7. done = [c EXCEPT !.hw = f, !.sw = g]
  BY <1>5, <1>6 DEF Ctx
<1>8. f \in Registers /\ g \in Memory
  BY <1>5, <1>6 DEF Ctx, Registers, Memory
<1>9. done \in Ctx /\ done.hw = f /\ done.sw = g /\ ~done.err /\ done.fault = c.fault
  BY <1>7, <1>8 DEF Ctx
<1>10. /\ SamePipes(c, done) /\ SameRemaps(c, done) /\ SameCams(c, done) /\ SameRest(c, done)
       /\ done.sw.tpg = tpg /\ done.hw.tpg = tpg
  BY <1>5, <1>6, <1>7 DEF Ctx, Registers, Memory, SamePipes, SameEnabled, SameActive,
         SameSettings, SameRemaps, SameCams, SameRest
<1>11. PICK d \in Ctx : d = done
  BY <1>9
<1> HIDE DEF done, lost
<1>12. CASE lost
  <2>1. e \in Ctx /\ Same(c, e) /\ e.err /\ e.fault = c.fault
    BY <1>4, <1>12, Flagged
  <2>2. SamePipes(c, e) /\ SameRemaps(c, e) /\ SameCams(c, e) /\ SameRest(c, e) /\ SameTpg(c, e)
    BY <2>1, SameParts
  <2> QED
    BY <1>1, <1>3, <1>12, <2>1, <2>2 DEF FaultStep
<1>13. CASE ~lost /\ tpg = c.sw.tpg
  <2>1. e = c
    BY <1>4, <1>13
  <2> QED
    BY <1>1, <1>2, <1>3, <1>13, <2>1, SameItself
<1>14. CASE ~lost /\ tpg # c.sw.tpg
  <2>1. e = Try(c, <<"tpg">>, d)
    BY <1>4, <1>11, <1>14
  <2>2. PICK t : t = Try(c, <<"tpg">>, d)
    OBVIOUS
  <2>3. /\ t \in Ctx
        /\ c.fault = <<"tpg">> => t.err /\ t.fault = NoFault /\ Same(c, t)
        /\ c.fault # <<"tpg">> => t = d
    BY <2>2, TryOutcome
  <2>4. CASE c.fault = <<"tpg">>
    <3>1. /\ SamePipes(c, e) /\ SameRemaps(c, e) /\ SameCams(c, e) /\ SameRest(c, e)
          /\ SameTpg(c, e) /\ e \in Ctx /\ e.err /\ e.fault = NoFault
      BY <2>1, <2>2, <2>3, <2>4, SameParts
    <3> QED
      BY <1>1, <1>2, <1>14, <2>4, <3>1 DEF FaultStep
  <2>5. CASE c.fault # <<"tpg">>
    <3>1. e = d
      BY <2>1, <2>2, <2>3, <2>5
    <3> QED
      BY <1>1, <1>2, <1>3, <1>9, <1>10, <1>11, <1>14, <2>5, <3>1 DEF FaultStep
  <2> QED
    BY <2>4, <2>5
<1> QED
  BY <1>12, <1>13, <1>14

----------------------------------------------------------------------------
(* The cameras *)

Sinks(rs, h) == {r.sink : r \in {x \in rs : x.pad = h}}
Switched(old, rs, h, on) == IF on THEN old \cup Sinks(rs, h) ELSE old \ Sinks(rs, h)

CamEffect(c, e, h, rs, on) ==
    /\ e \in Ctx /\ SamePipes(c, e) /\ SameTpg(c, e) /\ SameRemaps(c, e) /\ SameRest(c, e)
    /\ FaultStep(c, e)
    /\ e.err => /\ e.fault = NoFault /\ SameCams(c, e)
                /\ c.fault = <<"cam", h>> /\ Sinks(rs, h) # {}
    /\ ~e.err => /\ e.fault = c.fault
                 /\ c.fault = <<"cam", h>> => Sinks(rs, h) = {}
                 /\ e.cam = [c.cam EXCEPT ![h] = Switched(c.cam[h], rs, h, on)]

LEMMA CamSet ==
    ASSUME TypeOK, NEW c \in Ctx, NEW h \in Phys, NEW rs \in SUBSET Routes(routing),
           NEW on \in BOOLEAN, ~c.err
    PROVE  CamEffect(c, SetCam(c, h, rs, on), h, rs, on)
<1>1. PICK e : e = SetCam(c, h, rs, on)
  OBVIOUS
<1>2. Sinks(rs, h) \in SUBSET Nat
  BY RouteKnown DEF Sinks
<1>3. PICK streams \in SUBSET Nat : streams = Sinks(rs, h)
  BY <1>2
<1>4. PICK k : k = [c.cam EXCEPT ![h] = Switched(c.cam[h], rs, h, on)]
  OBVIOUS
<1> DEFINE done == [c EXCEPT !.cam[h] = IF on THEN @ \cup streams ELSE @ \ streams]
<1>5. done = [c EXCEPT !.cam = k]
  BY <1>3, <1>4 DEF Ctx, Switched
<1>6. c.cam \in Cams /\ k \in Cams
  BY <1>3, <1>4 DEF Ctx, Cams, Switched
<1>7. done \in Ctx /\ done.cam = k /\ ~done.err /\ done.fault = c.fault
      /\ done.sw = c.sw /\ done.hw = c.hw /\ done.junk = c.junk
  BY <1>5, <1>6 DEF Ctx
<1>8. SamePipes(c, done) /\ SameTpg(c, done) /\ SameRemaps(c, done) /\ SameRest(c, done)
  BY <1>7 DEF SamePipes, SameEnabled, SameActive, SameSettings, SameTpg, SameRemaps, SameRest
<1>9. PICK d \in Ctx : d = done
  BY <1>7
<1>10. e = IF streams = {} THEN c ELSE Try(c, <<"cam", h>>, d)
  BY <1>1, <1>3, <1>9 DEF SetCam, Sinks
<1> HIDE DEF done
<1>11. CASE streams = {}
  <2>1. e = c
    BY <1>10, <1>11
  <2>2. c.cam = k
    BY <1>3, <1>4, <1>6, <1>11 DEF Cams, Switched
  <2> QED
    BY <1>1, <1>3, <1>4, <1>11, <2>1, <2>2, SameItself DEF CamEffect
<1>12. CASE streams # {}
  <2>1. PICK t : t = Try(c, <<"cam", h>>, d)
    OBVIOUS
  <2>2. /\ t \in Ctx
        /\ c.fault = <<"cam", h>> => t.err /\ t.fault = NoFault /\ Same(c, t)
        /\ c.fault # <<"cam", h>> => t = d
    BY <2>1, TryOutcome
  <2>3. e = t
    BY <1>10, <1>12, <2>1
  <2>4. CASE c.fault = <<"cam", h>>
    <3>1. /\ SamePipes(c, e) /\ SameTpg(c, e) /\ SameRemaps(c, e) /\ SameCams(c, e)
          /\ SameRest(c, e)
      BY <2>2, <2>3, <2>4, SameParts
    <3> QED
      BY <1>1, <1>3, <1>12, <2>2, <2>3, <2>4, <3>1 DEF FaultStep, CamEffect
  <2>5. CASE c.fault # <<"cam", h>>
    BY <1>1, <1>3, <1>4, <1>7, <1>8, <1>9, <2>2, <2>3, <2>5 DEF FaultStep, CamEffect
  <2> QED
    BY <2>4, <2>5
<1> QED
  BY <1>11, <1>12

\* What changes of a context when cameras are switched, and how.
BesideCams(c, e) ==
    e \in Ctx /\ SamePipes(c, e) /\ SameTpg(c, e) /\ SameRemaps(c, e) /\ SameRest(c, e)
CamsMoved(c, e, rs, on) ==
    \A h \in Phys : e.cam[h] = Switched(c.cam[h], rs, h, on)
\* The streams to switch are all off, or all on.
Switchable(c, rs, on) ==
    \A h \in Phys : IF on THEN Sinks(rs, h) \cap c.cam[h] = {} ELSE Sinks(rs, h) \subseteq c.cam[h]

LEMMA BesideCamsChain ==
    ASSUME NEW c, NEW d, NEW e, BesideCams(c, d), BesideCams(d, e)
    PROVE  BesideCams(c, e)
BY PartsChain DEF BesideCams

LEMMA CamsUpdates ==
    ASSUME TypeOK, NEW c \in Ctx, NEW rs \in SUBSET Routes(routing), NEW on \in BOOLEAN, ~c.err
    PROVE  LET e == UpdateCams(c, rs, on) IN
           /\ BesideCams(c, e) /\ FaultStep(c, e)
           /\ ~e.err => /\ e.fault = c.fault /\ CamsMoved(c, e, rs, on)
                        /\ \A h \in Phys : c.fault = <<"cam", h>> => Sinks(rs, h) = {}
           /\ e.err => /\ e.fault = NoFault
                       /\ \E h \in Phys : c.fault = <<"cam", h>> /\ Sinks(rs, h) # {}
                       /\ Switchable(c, rs, on) => SameCams(c, e)
<1>0. /\ 0 \in Phys
      /\ scene.chip.phys = 1 => Phys = {0}
      /\ scene.chip.phys # 1 => Phys = {0, 1} /\ 1 \in Phys
  BY Chips DEF TypeOK
<1>1. PICK e : e = UpdateCams(c, rs, on)
  OBVIOUS
<1>2. PICK a : a = SetCam(c, 0, rs, on)
  OBVIOUS
<1>3. /\ a \in Ctx /\ SamePipes(c, a) /\ SameTpg(c, a) /\ SameRemaps(c, a) /\ SameRest(c, a)
      /\ FaultStep(c, a)
      /\ a.err => /\ a.fault = NoFault /\ SameCams(c, a)
                  /\ c.fault = <<"cam", 0>> /\ Sinks(rs, 0) # {}
      /\ ~a.err => /\ a.fault = c.fault
                   /\ c.fault = <<"cam", 0>> => Sinks(rs, 0) = {}
                   /\ a.cam = [c.cam EXCEPT ![0] = Switched(c.cam[0], rs, 0, on)]
  BY <1>0, <1>2, CamSet DEF CamEffect
<1>4. e = IF a.err \/ scene.chip.phys = 1 THEN a ELSE SecondCamDone(SetCam(a, 1, rs, on), rs, on)
  BY <1>1, <1>2 DEF UpdateCams, FirstCamDone
<1>5. c.cam \in [Phys -> SUBSET Nat] /\ a.cam \in [Phys -> SUBSET Nat]
  BY <1>3 DEF Ctx, Cams
<1>6. CASE a.err
  <2>1. e = a
    BY <1>4, <1>6
  <2> QED
    BY <1>0, <1>1, <1>3, <1>6, <2>1 DEF BesideCams
<1>7. CASE ~a.err /\ scene.chip.phys = 1
  <2>1. e = a
    BY <1>4, <1>7
  <2>2. CamsMoved(c, a, rs, on)
    BY <1>0, <1>3, <1>5, <1>7 DEF CamsMoved
  <2> QED
    BY <1>0, <1>1, <1>3, <1>7, <2>1, <2>2 DEF BesideCams
<1>8. CASE ~a.err /\ scene.chip.phys # 1
  <2>0. 1 \in Phys /\ a \in Ctx /\ ~a.err
    BY <1>0, <1>3, <1>8
  <2>1. PICK b : b = SetCam(a, 1, rs, on)
    OBVIOUS
  <2>1a. CamEffect(a, b, 1, rs, on)
    BY <2>0, <2>1, CamSet
  <2>2. /\ b \in Ctx /\ SamePipes(a, b) /\ SameTpg(a, b) /\ SameRemaps(a, b) /\ SameRest(a, b)
        /\ FaultStep(a, b)
        /\ b.err => /\ b.fault = NoFault /\ SameCams(a, b)
                    /\ a.fault = <<"cam", 1>> /\ Sinks(rs, 1) # {}
        /\ ~b.err => /\ b.fault = a.fault
                     /\ a.fault = <<"cam", 1>> => Sinks(rs, 1) = {}
                     /\ b.cam = [a.cam EXCEPT ![1] = Switched(a.cam[1], rs, 1, on)]
    BY <2>1a DEF CamEffect
  <2>3. e = SecondCamDone(b, rs, on)
    BY <1>4, <1>8, <2>1
  <2>4. BesideCams(c, a) /\ BesideCams(a, b)
    BY <1>3, <2>2 DEF BesideCams
  <2>5. BesideCams(c, b)
    BY <2>4, BesideCamsChain
  <2>6. CASE ~b.err
    <3>1. e = b
      BY <2>3, <2>6 DEF SecondCamDone
    <3>2. \A h \in {0, 1} : b.cam[h] = Switched(c.cam[h], rs, h, on)
      <4>1. /\ a.cam = [c.cam EXCEPT ![0] = Switched(c.cam[0], rs, 0, on)]
            /\ b.cam = [a.cam EXCEPT ![1] = Switched(a.cam[1], rs, 1, on)]
        BY <1>3, <1>8, <2>2, <2>6
      <4>2. DOMAIN c.cam = {0, 1} /\ DOMAIN a.cam = {0, 1}
        BY <1>0, <1>5, <1>8
      <4>3. /\ a.cam[0] = Switched(c.cam[0], rs, 0, on)
            /\ a.cam[1] = c.cam[1] /\ b.cam[0] = a.cam[0]
            /\ b.cam[1] = Switched(a.cam[1], rs, 1, on)
        BY <4>1, <4>2
      <4> QED
        BY <4>3
    <3>3. CamsMoved(c, b, rs, on)
      BY <1>0, <1>8, <3>2 DEF CamsMoved
    <3>4. FaultStep(c, b)
      BY <1>3, <1>8, <2>2 DEF FaultStep
    <3> QED
      BY <1>0, <1>1, <1>3, <1>8, <2>2, <2>5, <2>6, <3>1, <3>3, <3>4
  <2>7. CASE b.err
    <3>1. PICK f : f = Cleared(b)
      OBVIOUS
    <3>2. f \in Ctx /\ Same(b, f) /\ ~f.err /\ f.fault = NoFault
      BY <2>2, <2>7, <3>1, Flagged
    <3>3. PICK notOn \in BOOLEAN : notOn = ~on
      OBVIOUS
    <3>4. PICK g : g = SetCam(f, 0, rs, notOn)
      OBVIOUS
    <3>4a. CamEffect(f, g, 0, rs, notOn)
      BY <1>0, <3>2, <3>4, CamSet
    <3>5. /\ g \in Ctx /\ SamePipes(f, g) /\ SameTpg(f, g) /\ SameRemaps(f, g) /\ SameRest(f, g)
          /\ g.err => f.fault = <<"cam", 0>>
          /\ ~g.err => /\ g.fault = f.fault
                       /\ g.cam = [f.cam EXCEPT ![0] = Switched(f.cam[0], rs, 0, notOn)]
      BY <3>4a DEF CamEffect
    <3>6. ~g.err
      BY <3>2, <3>5, NoFaultIsNone
    <3>7. e = Failed(g)
      BY <2>3, <2>7, <3>1, <3>3, <3>4 DEF SecondCamDone
    <3>8. e \in Ctx /\ Same(g, e) /\ e.err /\ e.fault = NoFault
      BY <3>2, <3>5, <3>6, <3>7, Flagged
    <3>9. BesideCams(b, f) /\ BesideCams(f, g) /\ BesideCams(g, e)
      BY <3>2, <3>5, <3>8, SameParts DEF BesideCams
    <3>10. BesideCams(c, e)
      BY <2>5, <3>9, BesideCamsChain
    <3>11. f.cam = a.cam /\ e.cam = g.cam
      BY <2>2, <2>7, <3>2, <3>8 DEF Same, SameAround, SameCams
    <3>12. ASSUME Switchable(c, rs, on)
           PROVE  e.cam = c.cam
      <4>1. IF on THEN Sinks(rs, 0) \cap c.cam[0] = {} ELSE Sinks(rs, 0) \subseteq c.cam[0]
        BY <1>0, <3>12 DEF Switchable
      <4>2. e.cam = [a.cam EXCEPT ![0] = Switched(a.cam[0], rs, 0, notOn)]
        BY <3>5, <3>6, <3>11
      <4>3. e.cam[0] = c.cam[0]
        <5>1. a.cam[0] = Switched(c.cam[0], rs, 0, on)
          BY <1>0, <1>3, <1>5, <1>8
        <5>2. e.cam[0] = Switched(a.cam[0], rs, 0, notOn)
          BY <1>0, <1>5, <4>2
        <5> QED
          BY <3>3, <4>1, <5>1, <5>2 DEF Switched
      <4>4. e.cam[1] = c.cam[1]
        BY <1>0, <1>3, <1>5, <1>8, <4>2
      <4>5. e.cam \in [Phys -> SUBSET Nat]
        BY <3>8 DEF Ctx, Cams
      <4> QED
        BY <1>0, <1>5, <1>8, <4>3, <4>4, <4>5
    <3> QED
      BY <1>0, <1>1, <1>3, <1>8, <2>2, <2>7, <3>8, <3>10, <3>12 DEF FaultStep, SameCams
  <2> QED
    BY <2>6, <2>7
<1> QED
  BY <1>6, <1>7, <1>8

----------------------------------------------------------------------------
(* Virtual channels *)

Remapping == [Pipes -> Remaps]

LEMMA NoRemapTyped == NoRemap \in Remaps
BY DEF NoRemap, Remaps, Nums

LEMMA AssignNextTyped ==
    ASSUME TypeOK, NEW remaps \in Remapping, NEW table \in Tables
    PROVE  AssignNext(remaps, table) \in Remapping
<1>1. CASE NewRoutes(remaps, table) = {}
  BY <1>1 DEF AssignNext
<1>2. CASE NewRoutes(remaps, table) # {}
  <2>1. PICK n : n = Least(NewRoutes(remaps, table))
    OBVIOUS
  <2>2. n \in DOMAIN table
    <3>1. ValidRouting(table, scene.chip)
      BY DefaultValid, SceneAssumption DEF TypeOK, Tables
    <3>2. DOMAIN table \subseteq Nat
      BY <3>1 DEF ValidRouting
    <3>3. NewRoutes(remaps, table) \in SUBSET Nat
      BY <3>2 DEF NewRoutes
    <3>4. n \in NewRoutes(remaps, table)
      BY <1>2, <2>1, <3>3, LeastNat
    <3> QED
      BY <3>4 DEF NewRoutes
  <2>3. PICK r \in Routes(table) : r = table[n]
    BY <2>2 DEF Routes
  <2>4. AssignNext(remaps, table) = AssignTo(remaps, r)
    BY <1>2, <2>1, <2>3 DEF AssignNext
  <2>5. PICK new : new = [src |-> Vc(r),
                          dst |-> IF Vc(r) \in UsedVcs(remaps) THEN Least(Vcs \ UsedVcs(remaps))
                                  ELSE Vc(r)]
    OBVIOUS
  <2>6. new \in Remaps
    <3>1. Vc(r) \in Int
      BY VcTypes
    <3>2. Vcs \ UsedVcs(remaps) \in SUBSET Int
      BY DEF Vcs
    <3>3. Vc(r) \in Nums /\ Least(Vcs \ UsedVcs(remaps)) \in Nums
      BY <3>1, <3>2 DEF Nums
    <3> QED
      BY <2>5, <3>1, <3>3 DEF Remaps
  <2>7. AssignTo(remaps, r) = [remaps EXCEPT ![PipeOf(r)] = new]
    BY <2>5 DEF AssignTo
  <2> QED
    BY <2>4, <2>6, <2>7 DEF Remapping
<1> QED
  BY <1>1, <1>2

LEMMA AssignTyped ==
    ASSUME TypeOK, NEW remaps \in Remapping, NEW table \in Tables
    PROVE  Assign(remaps, table) \in Remapping
<1>1. PICK a \in Remapping : a = AssignNext(remaps, table)
  BY AssignNextTyped
<1>2. PICK b \in Remapping : b = AssignNext(a, table)
  BY AssignNextTyped
<1>3. PICK d \in Remapping : d = AssignNext(b, table)
  BY AssignNextTyped
<1>4. PICK e \in Remapping : e = AssignNext(d, table)
  BY AssignNextTyped
<1>5. Assign(remaps, table) = remaps \/ Assign(remaps, table) = e
  BY <1>1, <1>2, <1>3, <1>4 DEF Assign
<1> QED
  BY <1>5

\* All but the registers and the memory of the channels.
BesideRemaps(c, e) ==
    e \in Ctx /\ SamePipes(c, e) /\ SameTpg(c, e) /\ SameCams(c, e) /\ SameRest(c, e)

\* One pipe's channel is written.
SoftEffect(c, e, q) ==
    /\ BesideRemaps(c, e) /\ FaultStep(c, e)
    /\ e.sw.remaps = c.sw.remaps /\ e.hw.softEnable = c.hw.softEnable
    /\ c.err => e = c
    /\ e.err => c.err \/ e.fault = NoFault
    /\ e.err => e.hw.soft = c.hw.soft
    /\ ~e.err => /\ e.fault = c.fault
                 /\ e.hw.soft = IF q \in Moved(c.sw.remaps)
                                THEN [c.hw.soft EXCEPT ![q] = c.sw.remaps[q].dst] ELSE c.hw.soft

LEMMA SoftDoes ==
    ASSUME TypeOK, NEW c \in Ctx, NEW q \in Pipes
    PROVE  SoftEffect(c, WriteRemap(c, q), q)
<1>1. PICK e : e = WriteRemap(c, q)
  OBVIOUS
<1>2. CASE q \notin Moved(c.sw.remaps)
  <2>1. e = c
    BY <1>1, <1>2 DEF WriteRemap
  <2> QED
    BY <1>1, <1>2, <2>1, SameItself DEF SoftEffect, BesideRemaps
<1>3. CASE q \in Moved(c.sw.remaps)
  <2>1. PICK f : f = [c.hw EXCEPT !.soft = [c.hw.soft EXCEPT ![q] = c.sw.remaps[q].dst]]
    OBVIOUS
  <2>2. PICK d : d = [c EXCEPT !.hw.soft[q] = c.sw.remaps[q].dst]
    OBVIOUS
  <2>3. d = [c EXCEPT !.hw = f]
    BY <2>1, <2>2 DEF Ctx
  <2>4. c.sw.remaps[q].dst \in Nums
    BY DEF Ctx, Memory, Remaps
  <2>5. f \in Registers
    BY <2>1, <2>4 DEF Ctx, Registers
  <2>6. d \in Ctx /\ d.hw = f /\ d.sw = c.sw /\ d.cam = c.cam /\ d.fault = c.fault
        /\ d.junk = c.junk /\ d.err = c.err
    BY <2>3, <2>5 DEF Ctx
  <2>7. /\ f.soft = [c.hw.soft EXCEPT ![q] = c.sw.remaps[q].dst]
        /\ f.phy = c.hw.phy /\ f.enabled = c.hw.enabled /\ f.vcs = c.hw.vcs /\ f.mode = c.hw.mode
        /\ f.dts = c.hw.dts /\ f.softEnable = c.hw.softEnable /\ f.tpg = c.hw.tpg
        /\ f.tunnel = c.hw.tunnel /\ f.xlates = c.hw.xlates
    BY <2>1 DEF Ctx, Registers
  <2>8. BesideRemaps(c, d)
    BY <2>6, <2>7 DEF BesideRemaps, SamePipes, SameEnabled, SameActive, SameSettings, SameTpg,
           SameCams, SameRest
  <2>9. e = Try(c, <<"soft", q>>, d)
    BY <1>1, <1>3, <2>2 DEF WriteRemap
  <2>10. /\ e \in Ctx
         /\ c.err => e = c
         /\ ~c.err /\ c.fault = <<"soft", q>> => e.err /\ e.fault = NoFault /\ Same(c, e)
         /\ ~c.err /\ c.fault # <<"soft", q>> => e = d
    BY <2>6, <2>9, TryOutcome
  <2>11. CASE c.err
    <3>1. e = c
      BY <2>10, <2>11
    <3> QED
      BY <1>1, <1>3, <2>11, <3>1, SameItself DEF SoftEffect, BesideRemaps
  <2>12. CASE ~c.err /\ c.fault = <<"soft", q>>
    <3>1. /\ SamePipes(c, e) /\ SameTpg(c, e) /\ SameCams(c, e) /\ SameRest(c, e)
          /\ SameRemaps(c, e) /\ e.err /\ e.fault = NoFault
      BY <2>10, <2>12, SameParts
    <3> QED
      BY <1>1, <1>3, <2>10, <2>12, <3>1 DEF SoftEffect, BesideRemaps, SameRemaps, FaultStep
  <2>13. CASE ~c.err /\ c.fault # <<"soft", q>>
    <3>1. e = d
      BY <2>10, <2>13
    <3> QED
      BY <1>1, <1>3, <2>6, <2>7, <2>8, <2>13, <3>1 DEF SoftEffect, FaultStep
  <2> QED
    BY <2>11, <2>12, <2>13
<1> QED
  BY <1>2, <1>3

LEMMA BesideRemapsChain ==
    ASSUME NEW c, NEW d, NEW e, BesideRemaps(c, d), BesideRemaps(d, e)
    PROVE  BesideRemaps(c, e)
BY PartsChain DEF BesideRemaps

\* The channels of the pipes in "S" are written.
SoftChain(c, e, S) ==
    /\ BesideRemaps(c, e) /\ FaultStep(c, e)
    /\ e.sw.remaps = c.sw.remaps /\ e.hw.softEnable = c.hw.softEnable
    /\ e.err => e.fault = NoFault
    /\ ~e.err => /\ e.fault = c.fault
                 /\ \A q \in Moved(c.sw.remaps) \cap S : e.hw.soft[q] = c.sw.remaps[q].dst
    /\ \A q \in Pipes : \/ e.hw.soft[q] = c.hw.soft[q]
                        \/ q \in Moved(c.sw.remaps) /\ e.hw.soft[q] = c.sw.remaps[q].dst

LEMMA SoftNext ==
    ASSUME TypeOK, NEW c \in Ctx, NEW d \in Ctx, NEW e, NEW S, NEW q \in Pipes,
           SoftChain(c, d, S), SoftEffect(d, e, q)
    PROVE  SoftChain(c, e, S \cup {q})
<1>1. BesideRemaps(c, e)
  BY BesideRemapsChain DEF SoftChain, SoftEffect
<1>2. FaultStep(c, e)
  BY Chain DEF SoftChain, SoftEffect
<1>3. d.sw.remaps = c.sw.remaps /\ d.hw.softEnable = c.hw.softEnable
  BY DEF SoftChain
<1>4. e.sw.remaps = c.sw.remaps /\ e.hw.softEnable = c.hw.softEnable
  BY <1>3 DEF SoftEffect
<1>5. PICK M \in SUBSET Pipes : M = Moved(c.sw.remaps)
  BY DEF Moved
<1>6. d.hw.soft \in [Pipes -> Nums]
  BY DEF Ctx, Registers
<1>7. CASE e.err
  <2>1. e.fault = NoFault /\ e.hw.soft = d.hw.soft
    BY <1>7 DEF SoftEffect, SoftChain
  <2>2. \A p \in Pipes : \/ e.hw.soft[p] = c.hw.soft[p]
                         \/ p \in M /\ e.hw.soft[p] = c.sw.remaps[p].dst
    BY <1>5, <2>1 DEF SoftChain
  <2> QED
    BY <1>1, <1>2, <1>4, <1>5, <1>7, <2>1, <2>2 DEF SoftChain
<1>8. CASE ~e.err
  <2>1. ~d.err
    BY <1>8 DEF SoftEffect
  <2>2. /\ e.fault = d.fault /\ d.fault = c.fault
        /\ e.hw.soft = IF q \in M THEN [d.hw.soft EXCEPT ![q] = c.sw.remaps[q].dst] ELSE d.hw.soft
    BY <1>3, <1>5, <1>8, <2>1 DEF SoftEffect, SoftChain
  <2>3. \A p \in Pipes : e.hw.soft[p] = IF p = q /\ q \in M THEN c.sw.remaps[q].dst
                                        ELSE d.hw.soft[p]
    BY <1>6, <2>2
  <2>4. /\ \A p \in M \cap S : d.hw.soft[p] = c.sw.remaps[p].dst
        /\ \A p \in Pipes : \/ d.hw.soft[p] = c.hw.soft[p]
                            \/ p \in M /\ d.hw.soft[p] = c.sw.remaps[p].dst
    BY <1>5, <2>1 DEF SoftChain
  <2>5. /\ \A p \in M \cap (S \cup {q}) : e.hw.soft[p] = c.sw.remaps[p].dst
        /\ \A p \in Pipes : \/ e.hw.soft[p] = c.hw.soft[p]
                            \/ p \in M /\ e.hw.soft[p] = c.sw.remaps[p].dst
    BY <1>5, <2>3, <2>4
  <2> QED
    BY <1>1, <1>2, <1>4, <1>5, <1>8, <2>2, <2>5 DEF SoftChain
<1> QED
  BY <1>7, <1>8

\* The pipes that send on another channel are told so together.
EnableEffect(c, e) ==
    /\ BesideRemaps(c, e) /\ FaultStep(c, e)
    /\ e.sw.remaps = c.sw.remaps /\ e.hw.soft = c.hw.soft
    /\ c.err => e = c
    /\ e.err => c.err \/ e.fault = NoFault
    /\ e.err => e.hw.softEnable = c.hw.softEnable
    /\ ~e.err => e.fault = c.fault /\ e.hw.softEnable = Moved(c.sw.remaps)

LEMMA EnableDoes ==
    ASSUME TypeOK, NEW c \in Ctx
    PROVE  EnableEffect(c, EnableRemaps(c))
<1>1. PICK e : e = EnableRemaps(c)
  OBVIOUS
<1>2. PICK M \in SUBSET Pipes : M = Moved(c.sw.remaps)
  BY DEF Moved
<1>3. PICK f : f = [c.hw EXCEPT !.softEnable = M]
  OBVIOUS
<1>4. PICK d : d = [c EXCEPT !.hw.softEnable = M]
  OBVIOUS
<1>5. d = [c EXCEPT !.hw = f]
  BY <1>3, <1>4 DEF Ctx
<1>6. f \in Registers
  BY <1>3 DEF Ctx, Registers
<1>7. d \in Ctx /\ d.hw = f /\ d.sw = c.sw /\ d.cam = c.cam /\ d.fault = c.fault
      /\ d.junk = c.junk /\ d.err = c.err
  BY <1>5, <1>6 DEF Ctx
<1>8. /\ f.softEnable = M /\ f.soft = c.hw.soft
      /\ f.phy = c.hw.phy /\ f.enabled = c.hw.enabled /\ f.vcs = c.hw.vcs /\ f.mode = c.hw.mode
      /\ f.dts = c.hw.dts /\ f.tpg = c.hw.tpg /\ f.tunnel = c.hw.tunnel /\ f.xlates = c.hw.xlates
  BY <1>3 DEF Ctx, Registers
<1>9. BesideRemaps(c, d)
  BY <1>7, <1>8 DEF BesideRemaps, SamePipes, SameEnabled, SameActive, SameSettings, SameTpg,
         SameCams, SameRest
<1>10. e = Try(c, <<"softEnable">>, d)
  BY <1>1, <1>2, <1>4 DEF EnableRemaps
<1>11. /\ e \in Ctx
       /\ c.err => e = c
       /\ ~c.err /\ c.fault = <<"softEnable">> => e.err /\ e.fault = NoFault /\ Same(c, e)
       /\ ~c.err /\ c.fault # <<"softEnable">> => e = d
  BY <1>7, <1>10, TryOutcome
<1>12. CASE c.err
  <2>1. e = c
    BY <1>11, <1>12
  <2> QED
    BY <1>1, <1>12, <2>1, SameItself DEF EnableEffect, BesideRemaps
<1>13. CASE ~c.err /\ c.fault = <<"softEnable">>
  <2>1. /\ SamePipes(c, e) /\ SameTpg(c, e) /\ SameCams(c, e) /\ SameRest(c, e)
        /\ SameRemaps(c, e) /\ e.err /\ e.fault = NoFault
    BY <1>11, <1>13, SameParts
  <2> QED
    BY <1>1, <1>11, <2>1 DEF EnableEffect, BesideRemaps, SameRemaps, FaultStep
<1>14. CASE ~c.err /\ c.fault # <<"softEnable">>
  <2>1. e = d
    BY <1>11, <1>14
  <2> QED
    BY <1>1, <1>2, <1>7, <1>8, <1>9, <1>14, <2>1 DEF EnableEffect, FaultStep
<1> QED
  BY <1>12, <1>13, <1>14

RemapEffect(c, e) ==
    /\ BesideRemaps(c, e) /\ FaultStep(c, e)
    /\ ~scene.chip.remap => e = c
    /\ scene.chip.remap =>
         /\ e.sw.remaps = Assign(c.sw.remaps, routing)
         /\ e.err => e.fault = NoFault /\ e.hw.softEnable = c.hw.softEnable
         /\ ~e.err => /\ e.fault = c.fault /\ e.hw.softEnable = Moved(e.sw.remaps)
                      /\ \A q \in Moved(e.sw.remaps) : e.hw.soft[q] = e.sw.remaps[q].dst
         /\ \A q \in Pipes : \/ e.hw.soft[q] = c.hw.soft[q]
                             \/ q \in Moved(e.sw.remaps) /\ e.hw.soft[q] = e.sw.remaps[q].dst

LEMMA RemapUpdates ==
    ASSUME TypeOK, NEW c \in Ctx, ~c.err
    PROVE  RemapEffect(c, UpdateVcRemaps(c))
<1>1. PICK e : e = UpdateVcRemaps(c)
  OBVIOUS
<1>2. CASE ~scene.chip.remap
  <2>1. e = c
    BY <1>1, <1>2 DEF UpdateVcRemaps
  <2> QED
    BY <1>1, <1>2, <2>1, SameItself DEF RemapEffect, BesideRemaps
<1>3. CASE scene.chip.remap
  <2>1. Pipes = {0, 1, 2, 3}
    BY <1>3, Chips DEF TypeOK
  <2>2. PICK m \in Remapping : m = Assign(c.sw.remaps, routing)
    BY AssignTyped DEF Ctx, Memory, TypeOK, Tables, Remapping
  <2>3. PICK d : d = [c EXCEPT !.sw.remaps = m]
    OBVIOUS
  <2>4. PICK g : g = [c.sw EXCEPT !.remaps = m]
    OBVIOUS
  <2>5. d = [c EXCEPT !.sw = g]
    BY <2>3, <2>4 DEF Ctx
  <2>6. g \in Memory
    BY <2>4 DEF Ctx, Memory, Remapping
  <2>7. d \in Ctx /\ d.hw = c.hw /\ d.sw = g /\ d.cam = c.cam /\ d.fault = c.fault
        /\ d.junk = c.junk /\ ~d.err
    BY <2>5, <2>6 DEF Ctx
  <2>8. /\ g.remaps = m /\ g.on = c.sw.on /\ g.active = c.sw.active /\ g.enabled = c.sw.enabled
        /\ g.vcs = c.sw.vcs /\ g.mode = c.sw.mode /\ g.dts = c.sw.dts /\ g.double = c.sw.double
        /\ g.gmsl = c.sw.gmsl /\ g.tpg = c.sw.tpg /\ g.tpgEntry = c.sw.tpgEntry
        /\ g.xlates = c.sw.xlates
    BY <2>4 DEF Ctx, Memory
  <2>9. BesideRemaps(c, d)
    BY <2>7, <2>8 DEF BesideRemaps, SamePipes, SameEnabled, SameActive, SameSettings, SameTpg,
           SameCams, SameRest
  <2>10. SoftChain(d, d, {})
    BY <2>7, SameItself DEF SoftChain, BesideRemaps
  <2>11. PICK d0 : d0 = WriteRemap(d, 0)
    OBVIOUS
  <2>12. SoftChain(d, d0, {} \cup {0}) /\ d0 \in Ctx
    <3>1. SoftEffect(d, d0, 0)
      BY <2>1, <2>7, <2>11, SoftDoes
    <3>2. SoftChain(d, d0, {} \cup {0})
      BY <2>1, <2>7, <2>10, <3>1, SoftNext
    <3> QED
      BY <3>2 DEF SoftChain, BesideRemaps
  <2>13. PICK d1 : d1 = WriteRemap(d0, 1)
    OBVIOUS
  <2>14. SoftChain(d, d1, {} \cup {0} \cup {1}) /\ d1 \in Ctx
    <3>1. SoftEffect(d0, d1, 1)
      BY <2>1, <2>12, <2>13, SoftDoes
    <3>2. SoftChain(d, d1, {} \cup {0} \cup {1})
      BY <2>1, <2>7, <2>12, <3>1, SoftNext
    <3> QED
      BY <3>2 DEF SoftChain, BesideRemaps
  <2>15. PICK d2 : d2 = WriteRemap(d1, 2)
    OBVIOUS
  <2>16. SoftChain(d, d2, {} \cup {0} \cup {1} \cup {2}) /\ d2 \in Ctx
    <3>1. SoftEffect(d1, d2, 2)
      BY <2>1, <2>14, <2>15, SoftDoes
    <3>2. SoftChain(d, d2, {} \cup {0} \cup {1} \cup {2})
      BY <2>1, <2>7, <2>14, <3>1, SoftNext
    <3> QED
      BY <3>2 DEF SoftChain, BesideRemaps
  <2>17. PICK d3 : d3 = WriteRemap(d2, 3)
    OBVIOUS
  <2>18. SoftChain(d, d3, {} \cup {0} \cup {1} \cup {2} \cup {3}) /\ d3 \in Ctx
    <3>1. SoftEffect(d2, d3, 3)
      BY <2>1, <2>16, <2>17, SoftDoes
    <3>2. SoftChain(d, d3, {} \cup {0} \cup {1} \cup {2} \cup {3})
      BY <2>1, <2>7, <2>16, <3>1, SoftNext
    <3> QED
      BY <3>2 DEF SoftChain, BesideRemaps
  <2>19. e = EnableRemaps(d3)
    BY <1>1, <1>3, <2>2, <2>3, <2>11, <2>13, <2>15, <2>17 DEF UpdateVcRemaps, WriteRemaps
  <2>20. EnableEffect(d3, e)
    BY <2>18, <2>19, EnableDoes
  <2>21. BesideRemaps(c, e)
    BY <2>9, <2>18, <2>20, BesideRemapsChain DEF SoftChain, EnableEffect
  <2>22. FaultStep(c, e)
    BY <2>7, <2>18, <2>20 DEF SoftChain, EnableEffect, FaultStep
  <2>23. d3.sw.remaps = m /\ e.sw.remaps = m /\ d3.hw.softEnable = c.hw.softEnable
         /\ e.hw.soft = d3.hw.soft
    BY <2>7, <2>8, <2>18, <2>20 DEF SoftChain, EnableEffect
  <2>24. PICK M \in SUBSET Pipes : M = Moved(m)
    BY DEF Moved
  <2>25. /\ d3.err => d3.fault = NoFault
         /\ ~d3.err => d3.fault = c.fault /\ \A q \in M : d3.hw.soft[q] = m[q].dst
         /\ \A q \in Pipes : \/ d3.hw.soft[q] = c.hw.soft[q]
                             \/ q \in M /\ d3.hw.soft[q] = m[q].dst
    BY <2>1, <2>7, <2>8, <2>18, <2>24 DEF SoftChain
  <2>26. /\ e.err => e.fault = NoFault /\ e.hw.softEnable = c.hw.softEnable
         /\ ~e.err => ~d3.err /\ e.fault = c.fault /\ e.hw.softEnable = M
    <3>1. CASE d3.err
      BY <2>20, <2>23, <2>25, <3>1 DEF EnableEffect
    <3>2. CASE ~d3.err
      BY <2>20, <2>23, <2>24, <2>25, <3>2 DEF EnableEffect
    <3> QED
      BY <3>1, <3>2
  <2> QED
    BY <1>1, <1>3, <2>2, <2>21, <2>22, <2>23, <2>24, <2>25, <2>26 DEF RemapEffect
<1> QED
  BY <1>2, <1>3

----------------------------------------------------------------------------
(* When no call fails, what is remembered of a pipe's settings is what its *)
(* registers hold, unless the pipe was on when the system was suspended; a *)
(* pipe that is off lets nothing through.                                  *)

Settled(c) ==
    /\ c.hw.mode = c.sw.mode
    /\ \A q \in Pipes : ~c.sw.enabled[q] => c.sw.vcs[q] = {} /\ c.sw.dts[q] = {}
    /\ \A q \in Pipes : ~(q \in stale.pipes /\ c.sw.enabled[q]) =>
                            c.hw.vcs[q] = c.sw.vcs[q] /\ c.hw.dts[q] = c.sw.dts[q]

\* The settings of a pipe are written, and remembered.
PipeAs(c, e, q, vcs, dts) ==
    /\ e.sw.vcs = [c.sw.vcs EXCEPT ![q] = vcs] /\ e.hw.vcs = [c.hw.vcs EXCEPT ![q] = vcs]
    /\ e.sw.dts = [c.sw.dts EXCEPT ![q] = dts] /\ e.hw.dts = [c.hw.dts EXCEPT ![q] = dts]
    /\ c.hw.mode = c.sw.mode => e.hw.mode = e.sw.mode

Quiet(e) == e \in Ctx /\ e.fault = NoFault

LEMMA QuietPhy ==
    ASSUME TypeOK, NEW c, Quiet(c), NEW h \in Phys, NEW on \in BOOLEAN, ~c.err
    PROVE  /\ Quiet(SetPhyActive(c, h, on)) /\ ~SetPhyActive(c, h, on).err
           /\ SameEnabled(c, SetPhyActive(c, h, on)) /\ SameSettings(c, SetPhyActive(c, h, on))
<1>1. PICK e : e = SetPhyActive(c, h, on)
  OBVIOUS
<1>2. c \in Ctx /\ c.fault = NoFault
  BY DEF Quiet
<1>3. /\ e \in Ctx /\ SameEnabled(c, e) /\ SameSettings(c, e) /\ SameAround(c, e)
      /\ e.err => c.fault = <<"phy", h>> /\ e.fault = NoFault /\ Same(c, e)
      /\ ~e.err => /\ c.fault # <<"phy", h>> /\ e.fault = c.fault
                   /\ e.sw.active = [c.sw.active EXCEPT ![h] = on]
                   /\ e.hw.phy = [c.hw.phy EXCEPT ![h] = on]
  BY <1>1, <1>2, PhyActiveDoes
<1> QED
  BY <1>1, <1>2, <1>3, NoFaultIsNone DEF Quiet

LEMMA QuietRevertPhy ==
    ASSUME TypeOK, NEW c, Quiet(c), NEW h \in Phys, NEW masks
    PROVE  /\ Quiet(RevertPhy(c, h, masks)) /\ SameEnabled(c, RevertPhy(c, h, masks))
           /\ SameSettings(c, RevertPhy(c, h, masks))
<1>1. PICK d : d = Cleared(c)
  OBVIOUS
<1>2. Quiet(d) /\ ~d.err /\ SameEnabled(c, d) /\ SameSettings(c, d)
  BY <1>1, Flagged DEF Quiet, Same
<1>3. PICK a : a = SetPhyActive(d, h, TRUE)
  OBVIOUS
<1>4. Quiet(a) /\ SameEnabled(d, a) /\ SameSettings(d, a)
  BY <1>2, <1>3, QuietPhy
<1>5. Quiet(Failed(a)) /\ SameEnabled(a, Failed(a)) /\ SameSettings(a, Failed(a))
  BY <1>4, Flagged DEF Quiet, Same
<1>6. Quiet(Failed(c)) /\ SameEnabled(c, Failed(c)) /\ SameSettings(c, Failed(c))
  BY Flagged DEF Quiet, Same
<1>7. SameEnabled(c, Failed(a)) /\ SameSettings(c, Failed(a))
  BY <1>2, <1>4, <1>5 DEF SameEnabled, SameSettings
<1>8. RevertPhy(c, h, masks) = IF Stops(c, h, masks) THEN Failed(a) ELSE Failed(c)
  BY <1>1, <1>3 DEF RevertPhy
<1> QED
  BY <1>5, <1>6, <1>7, <1>8

LEMMA QuietPipe ==
    ASSUME TypeOK, NEW c, Quiet(c), NEW q \in Pipes, NEW masks, ~c.err
    PROVE  LET e == UpdatePipe(c, q, masks) IN
           /\ Quiet(e) /\ SameEnabled(c, e)
           /\ ~PipeKnown(q) => e.err /\ SameSettings(c, e)
           /\ PipeKnown(q) => ~e.err /\ PipeAs(c, e, q, VcsOf(q, masks), DtsOf(q, masks))
<1>1. PICK e : e = UpdatePipe(c, q, masks)
  OBVIOUS
<1>2. PICK new : new = Wanted(c, q, masks)
  OBVIOUS
<1>3. c \in Ctx /\ c.fault = NoFault
  BY DEF Quiet
<1>4. /\ e \in Ctx /\ SameEnabled(c, e)
      /\ FaultStep(c, e)
      /\ ~PipeKnown(q) => e.err /\ e.fault = c.fault /\ Same(c, e)
      /\ PipeKnown(q) /\ e.err => PipeFault(c, q, new) /\ e.fault = NoFault
      /\ ~e.err => /\ PipeKnown(q)
                   /\ e.sw.vcs = [c.sw.vcs EXCEPT ![q] = new.vcs]
                   /\ e.sw.mode = [c.sw.mode EXCEPT ![q] = new.mode]
                   /\ e.sw.dts = [c.sw.dts EXCEPT ![q] = new.dts]
                   /\ e.hw.vcs = [c.hw.vcs EXCEPT ![q] = new.vcs]
                   /\ e.hw.dts = [c.hw.dts EXCEPT ![q] = new.dts]
                   /\ e.hw.mode = IF new.mode = c.sw.mode[q] THEN c.hw.mode
                                  ELSE [c.hw.mode EXCEPT ![q] = new.mode]
  BY <1>1, <1>2, <1>3, PipeUpdates
<1>5. ~PipeFault(c, q, new)
  BY <1>3, NoFaultIsNone DEF PipeFault
<1>6. e.fault = NoFault
  BY <1>3, <1>4 DEF FaultStep
<1>7. CASE ~PipeKnown(q)
  BY <1>1, <1>4, <1>6, <1>7 DEF Quiet, Same
<1>8. CASE PipeKnown(q)
  <2>1. ~e.err
    BY <1>4, <1>5, <1>8
  <2>2. new.vcs = VcsOf(q, masks) /\ new.dts = DtsOf(q, masks)
    BY <1>2 DEF Wanted
  <2>3. c.hw.mode = c.sw.mode => e.hw.mode = e.sw.mode
    <3>1. c.sw.mode \in [Pipes -> Modes]
      BY <1>3 DEF Ctx, Memory
    <3> QED
      BY <1>4, <2>1, <3>1
  <2> QED
    BY <1>1, <1>4, <1>6, <1>8, <2>1, <2>2, <2>3 DEF Quiet, PipeAs
<1> QED
  BY <1>7, <1>8

\* A pipe whose streams cannot be told, which in tunnel mode may be updated all
\* the same, lets nothing through.
LEMMA TunnelSettings ==
    ASSUME NEW q, NEW masks, NEW others, PipeKnown(q), ~Known(masks)
    PROVE  VcsOf(q, others) = {} /\ DtsOf(q, others) = {}
BY DEF PipeKnown, Known, VcsOf, DtsOf

LEMMA SettledBeside ==
    ASSUME NEW c, NEW e, SameEnabled(c, e), SameSettings(c, e), Settled(c)
    PROVE  Settled(e)
BY DEF Settled, SameEnabled, SameSettings

LEMMA SettledPipe ==
    ASSUME NEW c \in Ctx, NEW e \in Ctx, NEW q \in Pipes, NEW vcs, NEW dts,
           Settled(c), PipeAs(c, e, q, vcs, dts),
           \A p \in Pipes : p # q => e.sw.enabled[p] = c.sw.enabled[p],
           ~e.sw.enabled[q] => vcs = {} /\ dts = {}
    PROVE  Settled(e)
<1>1. /\ c.sw.vcs \in [Pipes -> SUBSET Int] /\ c.hw.vcs \in [Pipes -> SUBSET Int]
      /\ c.sw.dts \in [Pipes -> SUBSET Int] /\ c.hw.dts \in [Pipes -> SUBSET Int]
  BY DEF Ctx, Memory, Registers
<1>2. \A p \in Pipes : /\ e.sw.vcs[p] = IF p = q THEN vcs ELSE c.sw.vcs[p]
                       /\ e.hw.vcs[p] = IF p = q THEN vcs ELSE c.hw.vcs[p]
                       /\ e.sw.dts[p] = IF p = q THEN dts ELSE c.sw.dts[p]
                       /\ e.hw.dts[p] = IF p = q THEN dts ELSE c.hw.dts[p]
  BY <1>1 DEF PipeAs
<1>3. e.hw.mode = e.sw.mode
  BY DEF Settled, PipeAs
<1> QED
  BY <1>2, <1>3 DEF Settled

LEMMA SettledUpdatePhy ==
    ASSUME TypeOK, NEW c, Quiet(c), NEW h \in Phys, NEW masks, ~c.err, Settled(c)
    PROVE  Settled(UpdatePhy(c, h, masks))
<1>1. PICK q \in Pipes : q = FindPipe(h, masks[h])
  BY PipeFound DEF TypeOK
<1>2. PICK a : a = IF Stops(c, h, masks) THEN SetPhyActive(c, h, FALSE) ELSE c
  OBVIOUS
<1>3. Quiet(a) /\ ~a.err /\ SameEnabled(c, a) /\ SameSettings(c, a)
  BY <1>2, QuietPhy, SameItself DEF SamePipes
<1>4. Settled(a)
  BY <1>3, SettledBeside
<1>5. PICK b : b = UpdatePipe(a, q, masks)
  OBVIOUS
<1>6. /\ Quiet(b) /\ SameEnabled(a, b)
      /\ ~PipeKnown(q) => b.err /\ SameSettings(a, b)
      /\ PipeKnown(q) => ~b.err /\ PipeAs(a, b, q, VcsOf(q, masks), DtsOf(q, masks))
  BY <1>3, <1>5, QuietPipe
<1>7. UpdatePhy(c, h, masks) = PhyFilled(b, h, q, masks)
  BY <1>1, <1>2, <1>3, <1>5 DEF UpdatePhy, PhyStopped
<1>8. CASE ~PipeKnown(q)
  <2>1. PICK e : e = RevertPhy(b, h, masks)
    OBVIOUS
  <2>2. SameEnabled(b, e) /\ SameSettings(b, e)
    BY <1>6, <2>1, QuietRevertPhy
  <2>3. UpdatePhy(c, h, masks) = e
    BY <1>6, <1>7, <1>8, <2>1 DEF PhyFilled
  <2>4. Settled(b)
    BY <1>4, <1>6, <1>8, SettledBeside
  <2> QED
    BY <2>2, <2>3, <2>4, SettledBeside
<1>9. CASE PipeKnown(q)
  <2>1. ~b.err /\ PipeAs(a, b, q, VcsOf(q, masks), DtsOf(q, masks)) /\ b \in Ctx /\ a \in Ctx
    BY <1>3, <1>6, <1>9 DEF Quiet
  <2>2. PICK d : d = UpdatePipeEnable(b, q, masks)
    OBVIOUS
  <2>3. PICK live \in BOOLEAN : live = Live(q, masks)
    BY DEF Live
  <2>4. /\ d \in Ctx /\ SameSettings(b, d) /\ FaultStep(b, d)
        /\ d.err => /\ SameEnabled(b, d)
                    /\ \/ ~Known(masks) /\ d.fault = b.fault
                       \/ /\ b.fault = <<"enable", q>> /\ d.fault = NoFault
                          /\ b.sw.enabled[q] # live
        /\ ~d.err => /\ d.fault = b.fault
                     /\ d.sw.enabled = [b.sw.enabled EXCEPT ![q] = live]
    BY <2>1, <2>2, <2>3, PipeEnables
  <2>5. Quiet(d)
    BY <1>6, <2>4 DEF Quiet, FaultStep
  <2>6. UpdatePhy(c, h, masks) = PhyEnabled(d, h, q, masks)
    BY <1>7, <2>1, <2>2 DEF PhyFilled
  <2>7. CASE d.err
    <3>1. ~Known(masks)
      BY <1>6, <2>4, <2>7, NoFaultIsNone DEF Quiet
    <3>2. VcsOf(q, masks) = {} /\ DtsOf(q, masks) = {}
      BY <1>9, <3>1, TunnelSettings
    <3>3. PipeAs(a, d, q, {}, {})
      BY <2>1, <2>4, <3>2 DEF PipeAs, SameSettings
    <3>4. d.sw.enabled = a.sw.enabled
      BY <1>6, <2>4, <2>7 DEF SameEnabled
    <3>5. Settled(d)
      BY <1>4, <2>1, <2>4, <3>3, <3>4, SettledPipe
    <3>6. PICK f : f = Cleared(d)
      OBVIOUS
    <3>7. Quiet(f) /\ ~f.err /\ SameEnabled(d, f) /\ SameSettings(d, f)
      BY <2>4, <2>5, <3>6, Flagged DEF Quiet, Same
    <3>8. Settled(f)
      BY <3>5, <3>7, SettledBeside
    <3>9. PICK g : g = UpdatePipe(f, q, d.sw.on)
      OBVIOUS
    <3>10. Quiet(g) /\ SameEnabled(f, g) /\ PipeAs(f, g, q, VcsOf(q, d.sw.on), DtsOf(q, d.sw.on))
      BY <1>9, <3>7, <3>9, QuietPipe
    <3>11. PipeAs(f, g, q, {}, {})
      BY <1>9, <3>1, <3>10, TunnelSettings
    <3>12. Settled(g)
      BY <3>7, <3>8, <3>10, <3>11, SettledPipe DEF Quiet, SameEnabled
    <3>13. UpdatePhy(c, h, masks) = RevertPhy(g, h, masks)
      BY <2>6, <2>7, <3>6, <3>9 DEF PhyEnabled, RevertPipe
    <3>14. PICK e : e = RevertPhy(g, h, masks)
      OBVIOUS
    <3>15. SameEnabled(g, e) /\ SameSettings(g, e)
      BY <3>10, <3>14, QuietRevertPhy
    <3> QED
      BY <3>12, <3>13, <3>14, <3>15, SettledBeside
  <2>8. CASE ~d.err
    <3>1. PICK vcs : vcs = VcsOf(q, masks)
      OBVIOUS
    <3>2. PICK dts : dts = DtsOf(q, masks)
      OBVIOUS
    <3>3. PipeAs(a, d, q, vcs, dts)
      BY <2>1, <2>4, <3>1, <3>2 DEF PipeAs, SameSettings
    <3>4. ~live => vcs = {} /\ dts = {}
      BY <2>3, <3>1, <3>2 DEF Live, VcsOf, DtsOf
    <3>5. a.sw.enabled = b.sw.enabled /\ b.sw.enabled \in [Pipes -> BOOLEAN]
      BY <1>6, <2>1 DEF SameEnabled, Ctx, Memory
    <3>6. d.sw.enabled[q] = live /\ \A p \in Pipes : p # q => d.sw.enabled[p] = a.sw.enabled[p]
      BY <2>4, <2>8, <3>5
    <3>7. Settled(d)
      BY <1>4, <2>1, <2>4, <3>3, <3>4, <3>6, SettledPipe
    <3>8. PICK e : e = IF Starts(d, h, masks) THEN SetPhyActive(d, h, TRUE) ELSE d
      OBVIOUS
    <3>9. ~e.err /\ SameEnabled(d, e) /\ SameSettings(d, e)
      BY <2>5, <2>8, <3>8, QuietPhy, SameItself DEF SamePipes
    <3>10. UpdatePhy(c, h, masks) = e
      BY <2>6, <2>8, <3>8, <3>9 DEF PhyEnabled, PhyStarted
    <3> QED
      BY <3>7, <3>9, <3>10, SettledBeside
  <2> QED
    BY <2>7, <2>8
<1> QED
  BY <1>8, <1>9

LEMMA SettledUpdatePhys ==
    ASSUME TypeOK, NEW c, Quiet(c), NEW masks, ~c.err, Settled(c)
    PROVE  Settled(UpdatePhys(c, masks))
<1>0. 0 \in Phys /\ (scene.chip.phys # 1 => 1 \in Phys) /\ c \in Ctx
  BY Chips DEF TypeOK, Quiet
<1>1. PICK a : a = UpdatePhy(c, 0, masks)
  OBVIOUS
<1>2. Settled(a)
  BY <1>0, <1>1, SettledUpdatePhy
<1>3. Quiet(a)
  BY <1>0, <1>1, KeepsUpdatePhy DEF Quiet, Keeps, FaultStep
<1>4. UpdatePhys(c, masks) = FirstPhyDone(a, masks)
  BY <1>1 DEF UpdatePhys
<1>5. CASE a.err \/ scene.chip.phys = 1
  BY <1>2, <1>4, <1>5 DEF FirstPhyDone
<1>6. CASE ~(a.err \/ scene.chip.phys = 1)
  <2>1. PICK b : b = UpdatePhy(a, 1, masks)
    OBVIOUS
  <2>2. Settled(b)
    BY <1>0, <1>2, <1>3, <1>6, <2>1, SettledUpdatePhy
  <2>3. Quiet(b)
    BY <1>0, <1>3, <1>6, <2>1, KeepsUpdatePhy DEF Quiet, Keeps, FaultStep
  <2>4. PICK d : d = Cleared(b)
    OBVIOUS
  <2>5. Quiet(d) /\ ~d.err /\ Settled(d)
    BY <2>2, <2>3, <2>4, Flagged, SettledBeside DEF Quiet, Same
  <2>6. PICK e : e = UpdatePhy(d, 0, b.sw.on)
    OBVIOUS
  <2>7. Settled(e)
    BY <1>0, <2>5, <2>6, SettledUpdatePhy
  <2>8. e \in Ctx
    BY <1>0, <2>5, <2>6, KeepsUpdatePhy DEF Quiet, Keeps
  <2>9. Settled(Failed(e))
    BY <2>7, <2>8, Flagged, SettledBeside DEF Same
  <2>10. UpdatePhys(c, masks) = IF b.err THEN Failed(e) ELSE b
    BY <1>4, <1>6, <2>1, <2>4, <2>6 DEF FirstPhyDone, SecondPhyDone
  <2> QED
    BY <2>2, <2>9, <2>10
<1> QED
  BY <1>5, <1>6

----------------------------------------------------------------------------
(* Enabling and disabling streams keeps the switches in agreement *)

Holds(c, e) ==
    /\ e \in Ctx /\ SameRest(c, e) /\ FaultStep(c, e)
    /\ Agree(c) => Agree(e)
    /\ c.fault = NoFault /\ Settled(c) => Settled(e)

LEMMA HoldsChain ==
    ASSUME NEW c, NEW d, NEW e, Holds(c, d), Holds(d, e)
    PROVE  Holds(c, e)
<1>1. SameRest(c, e) /\ FaultStep(c, e)
  BY Chain, PartsChain DEF Holds
<1>2. c.fault = NoFault => d.fault = NoFault
  BY DEF Holds, FaultStep
<1> QED
  BY <1>1, <1>2 DEF Holds

LEMMA HoldsBeside ==
    ASSUME NEW c, NEW e \in Ctx, SamePipes(c, e), SameRest(c, e), FaultStep(c, e)
    PROVE  Holds(c, e)
<1>1. Agree(c) => Agree(e)
  BY DEF Agree, SamePipes, SameEnabled, SameActive
<1> QED
  BY <1>1, SettledBeside DEF Holds, SamePipes

LEMMA HoldsFlags ==
    ASSUME NEW c \in Ctx
    PROVE  /\ Holds(c, c) /\ Holds(c, Failed(c)) /\ Holds(c, Cleared(c))
           /\ ~Cleared(c).err /\ Cleared(c) \in Ctx
<1>1. /\ Failed(c) \in Ctx /\ Same(c, Failed(c)) /\ FaultStep(c, Failed(c))
      /\ Cleared(c) \in Ctx /\ Same(c, Cleared(c)) /\ FaultStep(c, Cleared(c)) /\ ~Cleared(c).err
  BY Flagged DEF FaultStep
<1> QED
  BY <1>1, SameParts, SameItself, HoldsBeside

LEMMA HoldsTpg ==
    ASSUME TypeOK, NEW c \in Ctx, NEW masks, ~c.err
    PROVE  Holds(c, UpdateTpg(c, masks))
<1>1. PICK e : e = UpdateTpg(c, masks)
  OBVIOUS
<1>2. e \in Ctx /\ SamePipes(c, e) /\ SameRest(c, e) /\ FaultStep(c, e)
  BY <1>1, TpgUpdates
<1> QED
  BY <1>1, <1>2, HoldsBeside

LEMMA HoldsRemaps ==
    ASSUME TypeOK, NEW c \in Ctx, ~c.err
    PROVE  Holds(c, UpdateVcRemaps(c))
<1>1. PICK e : e = UpdateVcRemaps(c)
  OBVIOUS
<1>2. RemapEffect(c, e)
  BY <1>1, RemapUpdates
<1>3. e \in Ctx /\ SamePipes(c, e) /\ SameRest(c, e) /\ FaultStep(c, e)
  BY <1>2 DEF RemapEffect, BesideRemaps
<1> QED
  BY <1>1, <1>3, HoldsBeside

LEMMA HoldsCams ==
    ASSUME TypeOK, NEW c \in Ctx, NEW rs \in SUBSET Routes(routing), NEW on \in BOOLEAN, ~c.err
    PROVE  Holds(c, UpdateCams(c, rs, on))
<1>1. PICK e : e = UpdateCams(c, rs, on)
  OBVIOUS
<1>2. BesideCams(c, e) /\ FaultStep(c, e)
  BY <1>1, CamsUpdates
<1> QED
  BY <1>1, <1>2, HoldsBeside DEF BesideCams

LEMMA HoldsPhys ==
    ASSUME TypeOK, NEW c \in Ctx, NEW masks, ~c.err
    PROVE  Holds(c, UpdatePhys(c, masks))
<1>1. PICK e : e = UpdatePhys(c, masks)
  OBVIOUS
<1>2. Keeps(c, e)
  BY <1>1, KeepsUpdatePhys
<1>3. c.fault = NoFault /\ Settled(c) => Settled(e)
  BY <1>1, SettledUpdatePhys DEF Quiet
<1> QED
  BY <1>1, <1>2, <1>3, SameParts DEF Keeps, Holds

LEMMA HoldsReverts ==
    ASSUME TypeOK, NEW c \in Ctx, NEW rs \in SUBSET Routes(routing), NEW on \in BOOLEAN
    PROVE  /\ Holds(c, RevertCams(c, rs, on)) /\ Holds(c, RevertTpg(c))
           /\ Holds(c, RevertPhys(c)) /\ Holds(c, RevertRemaps(c))
<1>1. PICK d : d = Cleared(c)
  OBVIOUS
<1>2. d \in Ctx /\ ~d.err /\ Holds(c, d)
  BY <1>1, HoldsFlags
<1>3. Holds(c, RevertTpg(c))
  BY <1>1, <1>2, HoldsTpg, HoldsChain DEF RevertTpg
<1>4. Holds(c, RevertPhys(c))
  BY <1>1, <1>2, HoldsPhys, HoldsChain DEF RevertPhys
<1>5. Holds(c, RevertRemaps(c))
  BY <1>1, <1>2, HoldsRemaps, HoldsChain DEF RevertRemaps
<1>6. Holds(c, RevertCams(c, rs, on))
  <2>1. PICK e : e = UpdateCams(d, rs, TRUE)
    OBVIOUS
  <2>2. Holds(d, e)
    BY <1>2, <2>1, HoldsCams
  <2>3. Holds(c, e) /\ e \in Ctx
    BY <1>2, <2>2, HoldsChain DEF Holds
  <2>4. Holds(c, Failed(e))
    BY <2>3, HoldsFlags, HoldsChain
  <2>5. Holds(c, Failed(c))
    BY HoldsFlags
  <2>6. RevertCams(c, rs, on) = IF on THEN Failed(c) ELSE Failed(e)
    BY <1>1, <2>1 DEF RevertCams
  <2> QED
    BY <2>4, <2>5, <2>6
<1> QED
  BY <1>3, <1>4, <1>5, <1>6

\* All the way through, up to what is remembered to be on.
LEMMA HoldsUpdateStreams ==
    ASSUME TypeOK, NEW c \in Ctx, NEW streams \in SUBSET Nat, NEW on \in BOOLEAN, ~c.err
    PROVE  \E d : /\ Holds(c, d)
                  /\ \/ UpdateStreams(c, streams, on) = d
                     \/ UpdateStreams(c, streams, on) = [d EXCEPT !.sw.on = NewMasks(streams, on)]
<1>1. PICK masks : masks = NewMasks(streams, on)
  OBVIOUS
<1>2. PICK rs \in SUBSET Routes(routing) : rs = Requested(streams)
  BY DEF Requested
<1>3. PICK e : e = UpdateStreams(c, streams, on)
  OBVIOUS
<1>4. SUFFICES \E d : Holds(c, d) /\ (e = d \/ e = [d EXCEPT !.sw.on = masks])
  BY <1>1, <1>3
<1>5. PICK a : a = IF on THEN c ELSE UpdateCams(c, rs, FALSE)
  OBVIOUS
<1>6. Holds(c, a) /\ a \in Ctx
  BY <1>5, HoldsCams, HoldsFlags DEF Holds
<1>7. e = CamsStopped(a, masks, rs, on)
  BY <1>1, <1>2, <1>3, <1>5 DEF UpdateStreams
<1>8. CASE a.err
  BY <1>6, <1>7, <1>8 DEF CamsStopped
<1>9. CASE ~a.err
  <2>1. PICK b : b = UpdateTpg(a, masks)
    OBVIOUS
  <2>2. Holds(c, b) /\ b \in Ctx
    BY <1>6, <1>9, <2>1, HoldsTpg, HoldsChain DEF Holds
  <2>3. e = TpgUpdated(b, masks, rs, on)
    BY <1>7, <1>9, <2>1 DEF CamsStopped
  <2>4. CASE b.err
    <3>1. e = RevertCams(b, rs, on)
      BY <2>3, <2>4 DEF TpgUpdated
    <3> QED
      BY <2>2, <3>1, HoldsReverts, HoldsChain
  <2>5. CASE ~b.err
    <3>1. PICK f : f = UpdatePhys(b, masks)
      OBVIOUS
    <3>2. Holds(c, f) /\ f \in Ctx
      BY <2>2, <2>5, <3>1, HoldsPhys, HoldsChain DEF Holds
    <3>3. e = PhysUpdated(f, masks, rs, on)
      BY <2>3, <2>5, <3>1 DEF TpgUpdated
    <3>4. CASE f.err
      <4>1. PICK g : g = RevertTpg(f)
        OBVIOUS
      <4>2. Holds(c, g) /\ g \in Ctx
        BY <3>2, <4>1, HoldsReverts, HoldsChain DEF Holds
      <4>3. e = RevertCams(g, rs, on)
        BY <3>3, <3>4, <4>1 DEF PhysUpdated
      <4> QED
        BY <4>2, <4>3, HoldsReverts, HoldsChain
    <3>5. CASE ~f.err
      <4>1. PICK g : g = UpdateVcRemaps(f)
        OBVIOUS
      <4>2. Holds(c, g) /\ g \in Ctx
        BY <3>2, <3>5, <4>1, HoldsRemaps, HoldsChain DEF Holds
      <4>3. e = RemapsUpdated(g, masks, rs, on)
        BY <3>3, <3>5, <4>1 DEF PhysUpdated
      <4>4. CASE g.err
        <5>1. PICK h : h = RevertPhys(g)
          OBVIOUS
        <5>2. Holds(c, h) /\ h \in Ctx
          BY <4>2, <5>1, HoldsReverts, HoldsChain DEF Holds
        <5>3. PICK k : k = RevertTpg(h)
          OBVIOUS
        <5>4. Holds(c, k) /\ k \in Ctx
          BY <5>2, <5>3, HoldsReverts, HoldsChain DEF Holds
        <5>5. e = RevertCams(k, rs, on)
          BY <4>3, <4>4, <5>1, <5>3 DEF RemapsUpdated
        <5> QED
          BY <5>4, <5>5, HoldsReverts, HoldsChain
      <4>5. CASE ~g.err
        <5>1. PICK h : h = IF on THEN UpdateCams(g, rs, TRUE) ELSE g
          OBVIOUS
        <5>2. Holds(g, h)
          BY <4>2, <4>5, <5>1, HoldsCams, HoldsFlags
        <5>3. Holds(c, h) /\ h \in Ctx
          BY <4>2, <5>2, HoldsChain DEF Holds
        <5>4. e = CamsStarted(h, masks, rs, on)
          BY <4>3, <4>5, <5>1 DEF RemapsUpdated
        <5>5. CASE ~h.err
          BY <5>3, <5>4, <5>5 DEF CamsStarted
        <5>6. CASE h.err
          <6>1. PICK k : k = RevertRemaps(h)
            OBVIOUS
          <6>2. Holds(c, k) /\ k \in Ctx
            BY <5>3, <6>1, HoldsReverts, HoldsChain DEF Holds
          <6>3. PICK l : l = RevertPhys(k)
            OBVIOUS
          <6>4. Holds(c, l) /\ l \in Ctx
            BY <6>2, <6>3, HoldsReverts, HoldsChain DEF Holds
          <6>5. PICK m : m = RevertTpg(l)
            OBVIOUS
          <6>6. Holds(c, m) /\ m \in Ctx
            BY <6>4, <6>5, HoldsReverts, HoldsChain DEF Holds
          <6>7. e = RevertCams(m, rs, on)
            BY <5>4, <5>6, <6>1, <6>3, <6>5 DEF CamsStarted
          <6> QED
            BY <6>6, <6>7, HoldsReverts, HoldsChain
        <5> QED
          BY <5>5, <5>6
      <4> QED
        BY <4>4, <4>5
    <3> QED
      BY <3>4, <3>5
  <2> QED
    BY <2>4, <2>5
<1> QED
  BY <1>8, <1>9

----------------------------------------------------------------------------
(* Types of the actions *)

StreamsEffect(c, e) ==
    /\ e \in Ctx /\ FaultStep(c, e)
    /\ Agree(c) => Agree(e)
    /\ c.fault = NoFault /\ Settled(c) => Settled(e)
    /\ e.sw.gmsl = c.sw.gmsl /\ e.sw.xlates = c.sw.xlates
    /\ e.hw.tunnel = c.hw.tunnel /\ e.hw.xlates = c.hw.xlates

LEMMA MasksTyped ==
    ASSUME TypeOK, NEW streams \in SUBSET Nat, NEW on \in BOOLEAN
    PROVE  NewMasks(streams, on) \in [Pads -> SUBSET Nat]
<1>1. \A p \in Pads : sw.on[p] \in SUBSET Nat
  BY DEF TypeOK, Memory
<1>2. \A p : {r.sink : r \in {x \in Requested(streams) : x.pad = p}} \in SUBSET Nat
  BY RouteKnown DEF Requested
<1> QED
  BY <1>1, <1>2 DEF NewMasks

LEMMA StreamsDo ==
    ASSUME TypeOK, NEW c \in Ctx, NEW streams \in SUBSET Nat, NEW on \in BOOLEAN, ~c.err
    PROVE  StreamsEffect(c, UpdateStreams(c, streams, on))
<1>1. PICK e : e = UpdateStreams(c, streams, on)
  OBVIOUS
<1>2. PICK masks \in [Pads -> SUBSET Nat] : masks = NewMasks(streams, on)
  BY MasksTyped
<1>3. PICK d : Holds(c, d) /\ (e = d \/ e = [d EXCEPT !.sw.on = masks])
  BY <1>1, <1>2, HoldsUpdateStreams
<1>4. StreamsEffect(c, d)
  BY <1>3 DEF Holds, SameRest, StreamsEffect
<1>5. PICK f : f = [d EXCEPT !.sw.on = masks]
  OBVIOUS
<1>6. PICK g : g = [d.sw EXCEPT !.on = masks]
  OBVIOUS
<1>7. d \in Ctx /\ f = [d EXCEPT !.sw = g]
  BY <1>3, <1>5, <1>6 DEF Holds, Ctx
<1>8. g \in Memory
  BY <1>6, <1>7 DEF Ctx, Memory
<1>9. f \in Ctx /\ f.sw = g /\ f.hw = d.hw /\ f.fault = d.fault
  BY <1>7, <1>8 DEF Ctx
<1>10. /\ g.enabled = d.sw.enabled /\ g.active = d.sw.active /\ g.vcs = d.sw.vcs
       /\ g.mode = d.sw.mode /\ g.dts = d.sw.dts /\ g.gmsl = d.sw.gmsl /\ g.xlates = d.sw.xlates
  BY <1>6, <1>7 DEF Ctx, Memory
<1>11. /\ Agree(d) => Agree(f)
       /\ Settled(d) => Settled(f)
  BY <1>9, <1>10 DEF Agree, Settled
<1>12. StreamsEffect(c, f)
  BY <1>4, <1>9, <1>10, <1>11 DEF StreamsEffect, FaultStep
<1> QED
  BY <1>1, <1>3, <1>4, <1>5, <1>12

LEMMA Contexts ==
    ASSUME TypeOK, NEW fault \in Faults, NEW junk \in BOOLEAN
    PROVE  /\ Context(fault, junk) \in Ctx
           /\ Context(fault, junk).sw = sw /\ Context(fault, junk).hw = hw
           /\ Context(fault, junk).cam = cam /\ Context(fault, junk).fault = fault
           /\ ~Context(fault, junk).err
<1>1. fault \in Ops \cup {NoFault}
  BY DEF Faults
<1> QED
  BY <1>1 DEF Context, Ctx, TypeOK

LEMMA SceneKept ==
    ASSUME scene' = scene
    PROVE  /\ Pipes' = Pipes /\ Phys' = Phys /\ Pads' = Pads
           /\ Registers' = Registers /\ Memory' = Memory /\ Cams' = Cams
BY DEF Pipes, Phys, Pads, Registers, Memory, Cams, Modes, Nums, Remaps

LEMMA Finished ==
    ASSUME TypeOK, scene' = scene, NEW c \in Ctx, NEW fault, Finish(c, fault)
    PROVE  /\ sw' \in Memory' /\ hw' \in Registers' /\ cam' \in Cams' /\ faults' \in Nat
           /\ sw' = c.sw /\ hw' = c.hw /\ cam' = c.cam
           /\ faults' = 0 => faults = 0 /\ fault = NoFault
BY SceneKept DEF Finish, Ctx, TypeOK

LEMMA TypesFromUnchanged ==
    ASSUME TypeOK, scene' = scene, routing' = routing, desc' = desc,
           sw' \in Memory', hw' \in Registers', cam' \in Cams', asleep' \in BOOLEAN,
           stale' \in [pipes : SUBSET Pipes, phys : SUBSET Phys, unwritten : BOOLEAN],
           harmed' \in SUBSET Pads, faults' \in Nat, suspends' \in Nat
    PROVE  TypeOK'
BY SceneKept DEF TypeOK

LEMMA SourcesAreNumbers ==
    ASSUME TypeOK
    PROVE  {r.source : r \in Routes(routing)} \in SUBSET Nat
BY RouteKnown

LEMMA EnableDoesThis ==
    ASSUME TypeOK, NEW streams \in SUBSET {r.source : r \in Routes(routing)}, Enable(streams)
    PROVE  \E fault \in Faults, junk \in BOOLEAN :
             LET c == Context(fault, junk)
                 e == UpdateStreams(c, streams, TRUE)
             IN  /\ StreamsEffect(c, e) /\ Finish(e, fault)
                 /\ harmed' = IF e.err THEN harmed
                              ELSE {h \in harmed : sw.on[h] # {} \/ e.sw.on[h] = {}}
<1>1. PICK fault \in Faults, junk \in BOOLEAN :
        /\ Finish(UpdateStreams(Context(fault, junk), streams, TRUE), fault)
        /\ harmed' = IF UpdateStreams(Context(fault, junk), streams, TRUE).err THEN harmed
                     ELSE {h \in harmed : \/ sw.on[h] # {}
                                          \/ UpdateStreams(Context(fault, junk), streams, TRUE).sw.on[h] = {}}
  BY DEF Enable
<1>2. PICK c : c = Context(fault, junk)
  OBVIOUS
<1>3. c \in Ctx /\ ~c.err
  BY <1>2, Contexts
<1>4. streams \in SUBSET Nat
  BY SourcesAreNumbers
<1>5. StreamsEffect(c, UpdateStreams(c, streams, TRUE))
  BY <1>3, <1>4, StreamsDo
<1> QED
  BY <1>1, <1>2, <1>5

LEMMA DisableDoesThis ==
    ASSUME TypeOK, NEW streams \in SUBSET {r.source : r \in Routes(routing)}, Disable(streams)
    PROVE  \E fault \in Faults, junk \in BOOLEAN :
             LET c == Context(fault, junk)
                 e == UpdateStreams(c, streams, FALSE)
             IN  /\ StreamsEffect(c, e) /\ Finish(e, fault)
                 /\ harmed' = IF e.err THEN harmed \cup {r.pad : r \in Requested(streams)} ELSE harmed
                 /\ stale' = [pipes |-> {q \in stale.pipes : e.sw.enabled[q]},
                              phys |-> {h \in stale.phys : e.sw.active[h]},
                              unwritten |-> stale.unwritten]
<1>1. PICK fault \in Faults, junk \in BOOLEAN :
        /\ Finish(UpdateStreams(Context(fault, junk), streams, FALSE), fault)
        /\ harmed' = IF UpdateStreams(Context(fault, junk), streams, FALSE).err
                     THEN harmed \cup {r.pad : r \in Requested(streams)} ELSE harmed
        /\ stale' = [pipes |-> {q \in stale.pipes :
                                  UpdateStreams(Context(fault, junk), streams, FALSE).sw.enabled[q]},
                     phys |-> {h \in stale.phys :
                                 UpdateStreams(Context(fault, junk), streams, FALSE).sw.active[h]},
                     unwritten |-> stale.unwritten]
  BY DEF Disable
<1>2. PICK c : c = Context(fault, junk)
  OBVIOUS
<1>3. c \in Ctx /\ ~c.err
  BY <1>2, Contexts
<1>4. streams \in SUBSET Nat
  BY SourcesAreNumbers
<1>5. StreamsEffect(c, UpdateStreams(c, streams, FALSE))
  BY <1>3, <1>4, StreamsDo
<1> QED
  BY <1>1, <1>2, <1>5

----------------------------------------------------------------------------
(* Translations *)

Translations == [Slots -> scene.addrs \cup {Empty}]
Translated(s, h) == \A i \in Slots : s[i] # Empty => h[i] = s[i]

\* Attaching or detaching an address changes the translations and nothing else.
XlateEffect ==
    /\ \E s, h \in Translations :
          /\ sw' = [sw EXCEPT !.xlates = s] /\ hw' = [hw EXCEPT !.xlates = h]
          /\ Translated(sw.xlates, hw.xlates) => Translated(s, h)
    /\ cam' = cam /\ faults' \in Nat /\ (faults' = 0 => faults = 0)
    /\ UNCHANGED <<scene, routing, desc, asleep, stale, harmed, suspends>>

LEMMA Attaches ==
    ASSUME TypeOK, NEW addr \in scene.addrs, Attach(addr)
    PROVE  XlateEffect
<1>1. PICK i : i = Least({k \in Slots : sw.xlates[k] = Empty})
  OBVIOUS
<1>2. i \in Slots
  <2>1. {k \in Slots : sw.xlates[k] = Empty} # {}
    BY DEF Attach
  <2>2. {k \in Slots : sw.xlates[k] = Empty} \in SUBSET Nat
    BY DEF Slots
  <2> QED
    BY <1>1, <2>1, <2>2, LeastNat
<1>3. PICK fault \in Faults :
        Finish(Try(Context(fault, FALSE), <<"xlate">>,
                   [Context(fault, FALSE) EXCEPT !.hw.xlates[i] = addr, !.sw.xlates[i] = addr]), fault)
  BY <1>1 DEF Attach
<1>4. UNCHANGED <<scene, routing, desc, asleep, stale, harmed, suspends>>
  BY DEF Attach
<1>5. PICK c : c = Context(fault, FALSE)
  OBVIOUS
<1>6. c \in Ctx /\ ~c.err /\ c.sw = sw /\ c.hw = hw /\ c.cam = cam /\ c.fault = fault
  BY <1>5, Contexts
<1>7. sw.xlates \in Translations /\ hw.xlates \in Translations
  BY DEF TypeOK, Memory, Registers, Translations
<1>8. PICK s : s = [sw.xlates EXCEPT ![i] = addr]
  OBVIOUS
<1>9. PICK h : h = [hw.xlates EXCEPT ![i] = addr]
  OBVIOUS
<1>10. s \in Translations /\ h \in Translations
  BY <1>2, <1>7, <1>8, <1>9 DEF Translations
<1>11. Translated(sw.xlates, hw.xlates) => Translated(s, h)
  BY <1>2, <1>7, <1>8, <1>9 DEF Translated, Translations
<1>12. PICK d : d = [c EXCEPT !.hw.xlates[i] = addr, !.sw.xlates[i] = addr]
  OBVIOUS
<1>13. PICK f : f = [hw EXCEPT !.xlates = h]
  OBVIOUS
<1>14. PICK g : g = [sw EXCEPT !.xlates = s]
  OBVIOUS
<1>15. d = [c EXCEPT !.hw = f, !.sw = g]
  BY <1>6, <1>8, <1>9, <1>12, <1>13, <1>14 DEF Ctx
<1>16. f \in Registers /\ g \in Memory
  BY <1>10, <1>13, <1>14 DEF TypeOK, Registers, Memory, Translations
<1>17. d \in Ctx /\ d.sw = g /\ d.hw = f /\ d.cam = cam
  BY <1>6, <1>15, <1>16 DEF Ctx
<1>18. PICK e : e = Try(c, <<"xlate">>, d)
  OBVIOUS
<1>19. /\ e \in Ctx
       /\ c.fault = <<"xlate">> => Same(c, e)
       /\ c.fault # <<"xlate">> => e = d
  BY <1>6, <1>17, <1>18, TryOutcome
<1>20. Finish(e, fault)
  BY <1>3, <1>5, <1>12, <1>18
<1>21. /\ sw' = e.sw /\ hw' = e.hw /\ cam' = e.cam /\ faults' \in Nat
       /\ faults' = 0 => faults = 0
  BY <1>4, <1>19, <1>20, Finished
<1>22. CASE c.fault # <<"xlate">>
  BY <1>4, <1>10, <1>11, <1>13, <1>14, <1>17, <1>19, <1>21, <1>22 DEF XlateEffect
<1>23. CASE c.fault = <<"xlate">>
  <2>1. e = [c EXCEPT !.err = TRUE, !.fault = NoFault]
    BY <1>6, <1>18, <1>23 DEF Try
  <2>2. e.sw = sw /\ e.hw = hw /\ e.cam = cam
    BY <1>6, <2>1 DEF Ctx
  <2>3. sw = [sw EXCEPT !.xlates = sw.xlates] /\ hw = [hw EXCEPT !.xlates = hw.xlates]
    BY DEF TypeOK, Memory, Registers
  <2> QED
    BY <1>4, <1>7, <1>21, <2>2, <2>3 DEF XlateEffect
<1> QED
  BY <1>22, <1>23

LEMMA Detaches ==
    ASSUME TypeOK, NEW addr \in scene.addrs, Detach(addr)
    PROVE  XlateEffect
<1>1. PICK i \in Slots, fault \in Faults :
        Finish([Try(Context(fault, FALSE), <<"xlate">>,
                    [Context(fault, FALSE) EXCEPT !.hw.xlates[i] = Empty])
                EXCEPT !.sw.xlates[i] = Empty], fault)
  BY DEF Detach
<1>2. UNCHANGED <<scene, routing, desc, asleep, stale, harmed, suspends>>
  BY DEF Detach
<1>3. PICK c : c = Context(fault, FALSE)
  OBVIOUS
<1>4. c \in Ctx /\ ~c.err /\ c.sw = sw /\ c.hw = hw /\ c.cam = cam /\ c.fault = fault
  BY <1>3, Contexts
<1>5. sw.xlates \in Translations /\ hw.xlates \in Translations
  BY DEF TypeOK, Memory, Registers, Translations
<1>6. PICK s : s = [sw.xlates EXCEPT ![i] = Empty]
  OBVIOUS
<1>7. PICK h : h = [hw.xlates EXCEPT ![i] = Empty]
  OBVIOUS
<1>8. s \in Translations /\ h \in Translations
  BY <1>5, <1>6, <1>7 DEF Translations
<1>9. Translated(sw.xlates, hw.xlates) => Translated(s, h) /\ Translated(s, hw.xlates)
  BY <1>5, <1>6, <1>7 DEF Translated, Translations
<1>10. PICK d : d = [c EXCEPT !.hw.xlates[i] = Empty]
  OBVIOUS
<1>11. PICK f : f = [hw EXCEPT !.xlates = h]
  OBVIOUS
<1>12. PICK g : g = [sw EXCEPT !.xlates = s]
  OBVIOUS
<1>13. d = [c EXCEPT !.hw = f]
  BY <1>4, <1>7, <1>10, <1>11 DEF Ctx
<1>14. f \in Registers /\ g \in Memory
  BY <1>8, <1>11, <1>12 DEF TypeOK, Registers, Memory, Translations
<1>15. d \in Ctx /\ d.sw = sw /\ d.hw = f /\ d.cam = cam
  BY <1>4, <1>13, <1>14 DEF Ctx
<1>16. PICK t : t = Try(c, <<"xlate">>, d)
  OBVIOUS
<1>17. /\ t \in Ctx
       /\ c.fault # <<"xlate">> => t = d
  BY <1>4, <1>15, <1>16, TryOutcome
<1>18. c.fault = <<"xlate">> => t = [c EXCEPT !.err = TRUE, !.fault = NoFault]
  BY <1>4, <1>16 DEF Try
<1>19. t.sw = sw /\ t.cam = cam /\ (t.hw = f \/ t.hw = hw)
  BY <1>4, <1>15, <1>17, <1>18 DEF Ctx
<1>20. PICK e : e = [t EXCEPT !.sw.xlates[i] = Empty]
  OBVIOUS
<1>21. e = [t EXCEPT !.sw = g]
  BY <1>6, <1>12, <1>17, <1>19, <1>20 DEF Ctx
<1>22. e \in Ctx /\ e.sw = g /\ e.hw = t.hw /\ e.cam = cam
  BY <1>14, <1>17, <1>19, <1>21 DEF Ctx
<1>23. Finish(e, fault)
  BY <1>1, <1>3, <1>10, <1>16, <1>20
<1>24. /\ sw' = e.sw /\ hw' = e.hw /\ cam' = e.cam /\ faults' \in Nat
       /\ faults' = 0 => faults = 0
  BY <1>2, <1>22, <1>23, Finished
<1>25. hw = [hw EXCEPT !.xlates = hw.xlates]
  BY DEF TypeOK, Registers
<1> QED
  BY <1>2, <1>5, <1>8, <1>9, <1>11, <1>12, <1>19, <1>22, <1>24, <1>25 DEF XlateEffect

LEMMA XlatesTyped ==
    ASSUME TypeOK, XlateEffect
    PROVE  TypeOK'
<1>1. UNCHANGED <<scene, routing, desc, asleep, stale, harmed, suspends>> /\ cam' = cam
      /\ faults' \in Nat
  BY DEF XlateEffect
<1>2. sw' \in Memory /\ hw' \in Registers
  BY DEF XlateEffect, TypeOK, Memory, Registers, Translations
<1> QED
  BY <1>1, <1>2, SceneKept, TypesFromUnchanged DEF TypeOK

----------------------------------------------------------------------------
(* Type correctness *)

LEMMA ResetTyped == HwReset \in Registers
<1>1. 0 \in Nums /\ NoMode \in Modes /\ Empty \in scene.addrs \cup {Empty}
  BY DEF NoMode, Modes, NoBpp, Nums
<1> QED
  BY <1>1 DEF HwReset, Registers

LEMMA InitTyped ==
    ASSUME Init
    PROVE  TypeOK
<1>1. scene \in Scenes
  BY DEF Init
<1>2. 0 \in Nums /\ Empty \in scene.addrs \cup {Empty}
  BY DEF Nums
<1>3. NoMode \in Modes
  BY <1>2 DEF NoMode, Modes, NoBpp, Nums
<1>4. HwReset \in Registers
  BY <1>2, <1>3 DEF HwReset, Registers
<1>5. FirstRemaps \in [Pipes -> Remaps]
  <2>1. [src |-> 0, dst |-> 0] \in Remaps
    BY <1>2 DEF Remaps
  <2> QED
    BY <2>1, NoRemapTyped DEF FirstRemaps
<1>6. SwReset \in Memory
  BY <1>3, <1>5 DEF SwReset, Memory, HwReset
<1> QED
  BY <1>4, <1>6 DEF Init, TypeOK, Cams

LEMMA StreamsTyped ==
    ASSUME TypeOK, NEW streams \in SUBSET {r.source : r \in Routes(routing)},
           Enable(streams) \/ Disable(streams)
    PROVE  TypeOK'
<1>1. CASE Enable(streams)
  <2>1. UNCHANGED <<scene, routing, desc, asleep, stale, suspends>>
    BY <1>1 DEF Enable
  <2>2. PICK e : /\ e \in Ctx /\ \E fault : Finish(e, fault)
                 /\ harmed' \subseteq harmed
    BY <1>1, EnableDoesThis DEF StreamsEffect
  <2>3. /\ sw' \in Memory' /\ hw' \in Registers' /\ cam' \in Cams' /\ faults' \in Nat
    BY <2>1, <2>2, Finished
  <2>4. harmed' \in SUBSET Pads
    BY <2>2 DEF TypeOK
  <2> QED
    BY <2>1, <2>3, <2>4, TypesFromUnchanged DEF TypeOK
<1>2. CASE Disable(streams)
  <2>1. UNCHANGED <<scene, routing, desc, asleep, suspends>>
    BY <1>2 DEF Disable
  <2>2. PICK e : /\ e \in Ctx /\ \E fault : Finish(e, fault)
                 /\ \/ harmed' = harmed
                    \/ harmed' = harmed \cup {r.pad : r \in Requested(streams)}
                 /\ stale' = [pipes |-> {q \in stale.pipes : e.sw.enabled[q]},
                              phys |-> {h \in stale.phys : e.sw.active[h]},
                              unwritten |-> stale.unwritten]
    BY <1>2, DisableDoesThis DEF StreamsEffect
  <2>3. /\ sw' \in Memory' /\ hw' \in Registers' /\ cam' \in Cams' /\ faults' \in Nat
    BY <2>1, <2>2, Finished
  <2>4. {r.pad : r \in Requested(streams)} \subseteq Pads
    BY RouteKnown DEF Requested, Pads
  <2>5. harmed' \in SUBSET Pads
    BY <2>2, <2>4 DEF TypeOK
  <2>6. stale' \in [pipes : SUBSET Pipes, phys : SUBSET Phys, unwritten : BOOLEAN]
    BY <2>2 DEF TypeOK
  <2> QED
    BY <2>1, <2>3, <2>5, <2>6, TypesFromUnchanged DEF TypeOK
<1> QED
  BY <1>1, <1>2

LEMMA RoutingTyped ==
    ASSUME TypeOK, NEW table \in scene.routings, NEW active \in BOOLEAN, SetRouting(table, active)
    PROVE  TypeOK'
<1>1. UNCHANGED <<scene, desc, hw, cam, asleep, stale, harmed, faults, suspends>>
  BY DEF SetRouting
<1>2. PICK tpg \in BOOLEAN : tpg = \E r \in Routes(table) : r.pad = Tpg
  OBVIOUS
<1>3. PICK m \in Remapping : m = IF tpg THEN sw.remaps ELSE Assign(sw.remaps, table)
  BY AssignTyped DEF TypeOK, Memory, Remapping, Tables
<1>4. sw' = [sw EXCEPT !.remaps = m, !.tpgEntry = IF active THEN tpg ELSE sw.tpgEntry]
  BY <1>2, <1>3 DEF SetRouting, TypeOK, Memory
<1>5. sw' \in Memory
  BY <1>4 DEF TypeOK, Memory, Remapping
<1>6. routing' \in scene.routings \cup {DefaultRouting}
  BY DEF SetRouting, TypeOK
<1> QED
  BY <1>1, <1>5, <1>6, SceneKept DEF TypeOK

\* A resume that fails leaves modes and translations of some kind, and all else
\* as after power-up.
LEMMA ResumeFailsWrites ==
    ASSUME TypeOK, ResumeFails
    PROVE  \E m \in [Pipes -> Modes], x \in Translations :
              hw' = [HwReset EXCEPT !.mode = m, !.xlates = x]
<1>1. NoMode \in Modes /\ sw.mode \in [Pipes -> Modes] /\ sw.xlates \in Translations
  BY DEF TypeOK, Memory, NoMode, Modes, NoBpp, Nums, Translations
<1>2. PICK e \in Translations : e = [i \in Slots |-> Empty]
  BY DEF Translations
<1>3. ASSUME NEW n, hw' = [HwReset EXCEPT
                             !.mode = [q \in Pipes |-> IF q < n THEN sw.mode[q] ELSE NoMode]]
      PROVE  \E m \in [Pipes -> Modes], x \in Translations :
                hw' = [HwReset EXCEPT !.mode = m, !.xlates = x]
  <2>1. PICK m \in [Pipes -> Modes] :
          m = [q \in Pipes |-> IF q < n THEN sw.mode[q] ELSE NoMode]
    BY <1>1
  <2>2. PICK h \in Registers : h = HwReset
    BY ResetTyped
  <2>3. h.xlates = e
    BY <1>2, <2>2 DEF HwReset
  <2>4. [h EXCEPT !.mode = m] = [h EXCEPT !.mode = m, !.xlates = e]
    BY <2>3 DEF Registers
  <2>5. hw' = [HwReset EXCEPT !.mode = m, !.xlates = e]
    BY <1>3, <2>1, <2>2, <2>4
  <2> QED
    BY <1>2, <2>1, <2>5
<1>4. ASSUME NEW i \in Slots,
             hw' = [HwReset EXCEPT !.mode = sw.mode,
                       !.xlates = [k \in Slots |-> IF k < i THEN sw.xlates[k] ELSE Empty]]
      PROVE  \E m \in [Pipes -> Modes], x \in Translations :
                hw' = [HwReset EXCEPT !.mode = m, !.xlates = x]
  <2>1. PICK x \in Translations : x = [k \in Slots |-> IF k < i THEN sw.xlates[k] ELSE Empty]
    BY <1>1 DEF Translations
  <2> QED
    BY <1>1, <1>4, <2>1
<1>5. CASE hw' = [HwReset EXCEPT !.mode = sw.mode, !.xlates = sw.xlates]
  BY <1>1, <1>5
<1> QED
  BY <1>3, <1>4, <1>5 DEF ResumeFails

LEMMA ResumeFailsSo ==
    ASSUME TypeOK, ResumeFails
    PROVE  /\ asleep /\ asleep' = FALSE /\ faults' = faults + 1 /\ faults' \in Nat /\ faults' # 0
           /\ stale' \in [pipes : SUBSET Pipes, phys : SUBSET Phys, unwritten : BOOLEAN]
           /\ stale'.pipes = stale.pipes /\ stale'.phys = stale.phys /\ stale'.unwritten = TRUE
           /\ hw' \in Registers /\ hw'.tpg = FALSE /\ hw'.softEnable = {}
           /\ \A q \in Pipes : ~hw'.enabled[q]
           /\ \A h \in Phys : ~hw'.phy[h]
<1>1. /\ asleep /\ asleep' = FALSE /\ faults' = faults + 1 /\ faults' \in Nat /\ faults' # 0
      /\ stale' \in [pipes : SUBSET Pipes, phys : SUBSET Phys, unwritten : BOOLEAN]
      /\ stale'.pipes = stale.pipes /\ stale'.phys = stale.phys /\ stale'.unwritten = TRUE
  <2>1. asleep /\ asleep' = FALSE /\ faults' = faults + 1 /\ stale' = [stale EXCEPT !.unwritten = TRUE]
    BY DEF ResumeFails
  <2>2. faults \in Nat /\ stale \in [pipes : SUBSET Pipes, phys : SUBSET Phys, unwritten : BOOLEAN]
    BY DEF TypeOK
  <2>3. faults' \in Nat /\ faults' # 0
    BY <2>1, <2>2
  <2>4. /\ stale' \in [pipes : SUBSET Pipes, phys : SUBSET Phys, unwritten : BOOLEAN]
        /\ stale'.pipes = stale.pipes /\ stale'.phys = stale.phys /\ stale'.unwritten = TRUE
    BY <2>1, <2>2
  <2> QED
    BY <2>1, <2>3, <2>4
<1>2. PICK m \in [Pipes -> Modes], x \in Translations :
        hw' = [HwReset EXCEPT !.mode = m, !.xlates = x]
  BY ResumeFailsWrites
<1>3. /\ hw'.phy = [h \in Phys |-> FALSE] /\ hw'.enabled = [q \in Pipes |-> FALSE]
      /\ hw'.tpg = FALSE /\ hw'.softEnable = {}
  BY <1>2 DEF HwReset
<1>4. PICK reset \in Registers : reset = HwReset
  BY ResetTyped
<1>5. [reset EXCEPT !.mode = m, !.xlates = x] \in Registers
  BY DEF Registers, Translations
<1> QED
  BY <1>1, <1>2, <1>3, <1>4, <1>5

LEMMA OthersTyped ==
    ASSUME TypeOK,
           \/ \E entry \in BOOLEAN : SetTpg(entry)
           \/ \E bpps \in scene.doubles : SetDoubleBpps(bpps)
           \/ \E mode \in {"pixel", "tunnel"} : SetMode(mode)
           \/ ChangeDesc \/ Suspend \/ Resume \/ ResumeFails
    PROVE  TypeOK'
<1>1. ASSUME NEW entry \in BOOLEAN, SetTpg(entry)
      PROVE  TypeOK'
  <2>1. sw' \in Memory
    BY <1>1 DEF SetTpg, TypeOK, Memory
  <2> QED
    BY <1>1, <2>1, SceneKept, TypesFromUnchanged DEF SetTpg, TypeOK
<1>2. ASSUME NEW bpps \in scene.doubles, SetDoubleBpps(bpps)
      PROVE  TypeOK'
  <2>1. bpps \in SUBSET Bpps
    BY SceneAssumption DEF TypeOK
  <2>2. sw' \in Memory
    BY <1>2, <2>1 DEF SetDoubleBpps, TypeOK, Memory
  <2> QED
    BY <1>2, <2>2, SceneKept, TypesFromUnchanged DEF SetDoubleBpps, TypeOK
<1>3. ASSUME NEW mode \in {"pixel", "tunnel"}, SetMode(mode)
      PROVE  TypeOK'
  <2>1. sw' \in Memory /\ hw' \in Registers
    BY <1>3 DEF SetMode, TypeOK, Memory, Registers
  <2> QED
    BY <1>3, <2>1, SceneKept, TypesFromUnchanged DEF SetMode, TypeOK
<1>4. CASE ChangeDesc
  <2>1. UNCHANGED <<scene, routing, sw, hw, cam, asleep, stale, harmed, faults, suspends>>
        /\ desc' \in scene.descs
    BY <1>4 DEF ChangeDesc
  <2> QED
    BY <2>1, SceneKept DEF TypeOK
<1>5. HwReset \in Registers
  BY ResetTyped
<1>6. CASE Suspend
  <2>1. /\ UNCHANGED <<scene, routing, desc, sw, cam, harmed, faults>>
        /\ asleep' = TRUE /\ suspends' = suspends + 1 /\ hw' = HwReset
        /\ stale' = [pipes |-> {q \in Pipes : sw.enabled[q]}, phys |-> {h \in Phys : sw.active[h]},
                     unwritten |-> FALSE]
    BY <1>6 DEF Suspend
  <2>2. stale' \in [pipes : SUBSET Pipes, phys : SUBSET Phys, unwritten : BOOLEAN]
    BY <2>1
  <2>3. suspends' \in Nat
    BY <2>1 DEF TypeOK
  <2> QED
    BY <1>5, <2>1, <2>2, <2>3, SceneKept, TypesFromUnchanged DEF TypeOK
<1>7. CASE Resume
  <2>1. /\ UNCHANGED <<scene, routing, desc, sw, cam, stale, harmed, faults, suspends>>
        /\ asleep' = FALSE
        /\ hw' = [HwReset EXCEPT !.mode = sw.mode, !.tunnel = sw.gmsl = "tunnel",
                                 !.xlates = sw.xlates]
    BY <1>7 DEF Resume
  <2>2. sw.mode \in [Pipes -> Modes] /\ sw.xlates \in [Slots -> scene.addrs \cup {Empty}]
    BY DEF TypeOK, Memory
  <2>3. PICK t \in BOOLEAN : t = (sw.gmsl = "tunnel")
    OBVIOUS
  <2>4. PICK reset \in Registers : reset = HwReset
    BY <1>5
  <2>5. [reset EXCEPT !.mode = sw.mode, !.tunnel = t, !.xlates = sw.xlates] \in Registers
    BY <2>2 DEF Registers
  <2>6. hw' \in Registers
    BY <2>1, <2>3, <2>4, <2>5
  <2> QED
    BY <2>1, <2>6, SceneKept, TypesFromUnchanged DEF TypeOK
<1>8. CASE ResumeFails
  <2>1. UNCHANGED <<scene, routing, desc, sw, cam, harmed, suspends>>
    BY <1>8 DEF ResumeFails
  <2> QED
    BY <1>8, <2>1, ResumeFailsSo, SceneKept, TypesFromUnchanged DEF TypeOK
<1> QED
  BY <1>1, <1>2, <1>3, <1>4, <1>6, <1>7, <1>8

LEMMA StepTyped ==
    ASSUME TypeOK, [Next]_vars
    PROVE  TypeOK'
<1>1. CASE UNCHANGED vars
  BY <1>1, SceneKept DEF vars, TypeOK
<1>2. CASE Next
  <2>1. ASSUME NEW addr \in scene.addrs, Attach(addr) \/ Detach(addr)
        PROVE  TypeOK'
    BY <2>1, Attaches, Detaches, XlatesTyped
  <2> QED
    BY <1>2, <2>1, StreamsTyped, RoutingTyped, OthersTyped DEF Next
<1> QED
  BY <1>1, <1>2

----------------------------------------------------------------------------
(* What is remembered is what the registers hold *)

Now == [sw |-> sw, hw |-> hw]
OffIsEmpty == \A q \in Pipes : ~sw.enabled[q] => sw.vcs[q] = {} /\ sw.dts[q] = {}

CachesInv ==
    /\ Agree(Now)
    /\ asleep => /\ stale.pipes = {q \in Pipes : sw.enabled[q]}
                 /\ stale.phys = {h \in Phys : sw.active[h]}
    /\ ~asleep /\ ~stale.unwritten =>
         hw.tunnel = (sw.gmsl = "tunnel") /\ Translated(sw.xlates, hw.xlates)
    /\ faults = 0 => OffIsEmpty /\ (~asleep => Settled(Now))

LEMMA CachesInit ==
    ASSUME Init
    PROVE  CachesInv
<1>1. sw = SwReset /\ hw = HwReset /\ asleep = FALSE
  BY DEF Init
<1>2. /\ sw.active = hw.phy /\ sw.enabled = hw.enabled /\ sw.vcs = hw.vcs /\ sw.mode = hw.mode
      /\ sw.dts = hw.dts /\ sw.xlates = hw.xlates /\ hw.tunnel = FALSE /\ sw.gmsl = "pixel"
      /\ \A q \in Pipes : sw.vcs[q] = {} /\ sw.dts[q] = {}
  BY <1>1 DEF SwReset, HwReset
<1>3. Agree(Now)
  BY <1>2 DEF Agree, Now
<1>4. OffIsEmpty /\ Settled(Now) /\ Translated(sw.xlates, hw.xlates)
  BY <1>2 DEF OffIsEmpty, Settled, Now, Translated
<1>5. hw.tunnel = (sw.gmsl = "tunnel")
  BY <1>2
<1> QED
  BY <1>1, <1>3, <1>4, <1>5 DEF CachesInv

LEMMA CachesStreams ==
    ASSUME TypeOK, CachesInv, NEW streams \in SUBSET {r.source : r \in Routes(routing)},
           Enable(streams) \/ Disable(streams)
    PROVE  CachesInv'
<1>0. UNCHANGED <<scene, routing, desc, asleep, suspends>> /\ ~asleep
  BY DEF Enable, Disable
<1>1. PICK fault \in Faults, junk \in BOOLEAN, e \in Ctx :
        /\ StreamsEffect(Context(fault, junk), e) /\ Finish(e, fault)
        /\ \/ stale' = stale
           \/ stale' = [pipes |-> {q \in stale.pipes : e.sw.enabled[q]},
                        phys |-> {h \in stale.phys : e.sw.active[h]},
                        unwritten |-> stale.unwritten]
  <2>1. \A c, e : StreamsEffect(c, e) => e \in Ctx
    BY DEF StreamsEffect
  <2>2. CASE Enable(streams)
    <3>1. stale' = stale
      BY <2>2 DEF Enable
    <3> QED
      BY <2>1, <2>2, <3>1, EnableDoesThis
  <2>3. CASE Disable(streams)
    BY <2>1, <2>3, DisableDoesThis
  <2> QED
    BY <2>2, <2>3
<1>2. PICK c : c = Context(fault, junk)
  OBVIOUS
<1>3. c \in Ctx /\ c.sw = sw /\ c.hw = hw /\ c.fault = fault
  BY <1>2, Contexts
<1>4. /\ e \in Ctx
      /\ Agree(c) => Agree(e)
      /\ c.fault = NoFault /\ Settled(c) => Settled(e)
      /\ e.sw.gmsl = sw.gmsl /\ e.sw.xlates = sw.xlates
      /\ e.hw.tunnel = hw.tunnel /\ e.hw.xlates = hw.xlates
  BY <1>1, <1>2, <1>3 DEF StreamsEffect
<1>5. /\ sw' = e.sw /\ hw' = e.hw
      /\ faults' = 0 => faults = 0 /\ fault = NoFault
  BY <1>0, <1>1, <1>4, Finished
<1>6. Agree(e)
  BY <1>3, <1>4 DEF CachesInv, Agree, Now
<1>7. Pipes' = Pipes /\ Phys' = Phys
  BY <1>0, SceneKept
<1>8. Agree(Now)'
  <2>1. \A q \in Pipes : q \notin stale'.pipes => q \notin stale.pipes \/ ~e.sw.enabled[q]
    BY <1>1
  <2>2. \A h \in Phys : h \notin stale'.phys => h \notin stale.phys \/ ~e.sw.active[h]
    BY <1>1
  <2> QED
    BY <1>5, <1>6, <1>7, <2>1, <2>2 DEF Agree, Now
<1>9. ~asleep' /\ ~stale'.unwritten =>
         hw'.tunnel = (sw'.gmsl = "tunnel") /\ Translated(sw'.xlates, hw'.xlates)
  <2>1. stale'.unwritten = stale.unwritten
    BY <1>1
  <2> QED
    BY <1>0, <1>4, <1>5, <2>1 DEF CachesInv
<1>10. ASSUME faults' = 0
       PROVE  OffIsEmpty' /\ Settled(Now)'
  <2>1. Settled(c)
    BY <1>0, <1>3, <1>5, <1>10 DEF CachesInv, Settled, Now
  <2>2. Settled(e)
    BY <1>3, <1>4, <1>5, <1>10, <2>1
  <2>3. \A q \in Pipes : ~(q \in stale'.pipes /\ e.sw.enabled[q])
                            => ~(q \in stale.pipes /\ e.sw.enabled[q])
    BY <1>1
  <2> QED
    BY <1>5, <1>7, <2>2, <2>3 DEF Settled, Now, OffIsEmpty
<1> QED
  BY <1>0, <1>8, <1>9, <1>10 DEF CachesInv

\* Nothing that CachesInv speaks of but, perhaps, what is translated.
LEMMA CachesBeside ==
    ASSUME TypeOK, CachesInv, scene' = scene, asleep' = asleep, stale' = stale,
           faults' = 0 => faults = 0,
           sw'.enabled = sw.enabled, sw'.active = sw.active, sw'.vcs = sw.vcs, sw'.mode = sw.mode,
           sw'.dts = sw.dts, hw'.enabled = hw.enabled, hw'.phy = hw.phy, hw'.vcs = hw.vcs,
           hw'.mode = hw.mode, hw'.dts = hw.dts,
           ~asleep /\ ~stale.unwritten =>
              /\ hw'.tunnel = (sw'.gmsl = "tunnel")
              /\ Translated(sw'.xlates, hw'.xlates)
    PROVE  CachesInv'
<1>1. Pipes' = Pipes /\ Phys' = Phys
  BY SceneKept
<1>2. Agree(Now)'
  BY <1>1 DEF CachesInv, Agree, Now
<1>3. faults' = 0 => OffIsEmpty' /\ (~asleep => Settled(Now)')
  BY <1>1 DEF CachesInv, OffIsEmpty, Settled, Now
<1> QED
  BY <1>1, <1>2, <1>3 DEF CachesInv

LEMMA CachesOthers ==
    ASSUME TypeOK, CachesInv,
           \/ \E table \in scene.routings, active \in BOOLEAN : SetRouting(table, active)
           \/ \E entry \in BOOLEAN : SetTpg(entry)
           \/ \E bpps \in scene.doubles : SetDoubleBpps(bpps)
           \/ \E mode \in {"pixel", "tunnel"} : SetMode(mode)
           \/ \E addr \in scene.addrs : Attach(addr) \/ Detach(addr)
           \/ ChangeDesc
    PROVE  CachesInv'
<1>0. sw \in Memory /\ hw \in Registers
  BY DEF TypeOK
<1>1. ASSUME NEW s, NEW h, sw' = s, hw' = h,
             scene' = scene, asleep' = asleep, stale' = stale, faults' = faults,
             s.enabled = sw.enabled, s.active = sw.active, s.vcs = sw.vcs, s.mode = sw.mode,
             s.dts = sw.dts, h.enabled = hw.enabled, h.phy = hw.phy, h.vcs = hw.vcs,
             h.mode = hw.mode, h.dts = hw.dts, s.xlates = sw.xlates, h.xlates = hw.xlates,
             (h.tunnel = hw.tunnel /\ s.gmsl = sw.gmsl) \/ h.tunnel = (s.gmsl = "tunnel")
      PROVE  CachesInv'
  <2>1. ~asleep /\ ~stale.unwritten => h.tunnel = (s.gmsl = "tunnel") /\ Translated(s.xlates, h.xlates)
    BY <1>1 DEF CachesInv
  <2> QED
    BY <1>1, <2>1, CachesBeside
<1>2. ASSUME NEW table \in scene.routings, NEW active \in BOOLEAN, SetRouting(table, active)
      PROVE  CachesInv'
  <2>1. UNCHANGED <<scene, desc, hw, cam, asleep, stale, harmed, faults, suspends>>
    BY <1>2 DEF SetRouting
  <2>2. PICK m, b : sw' = [sw EXCEPT !.remaps = m, !.tpgEntry = b]
    BY <1>2 DEF SetRouting
  <2>3. PICK s : s = sw'
    OBVIOUS
  <2>4. /\ s.enabled = sw.enabled /\ s.active = sw.active /\ s.vcs = sw.vcs /\ s.mode = sw.mode
        /\ s.dts = sw.dts /\ s.xlates = sw.xlates /\ s.gmsl = sw.gmsl
    BY <1>0, <2>2, <2>3 DEF Memory
  <2> QED
    BY <1>1, <2>1, <2>3, <2>4
<1>3. ASSUME NEW entry \in BOOLEAN, SetTpg(entry)
      PROVE  CachesInv'
  <2>1. UNCHANGED <<scene, routing, desc, hw, cam, asleep, stale, harmed, faults, suspends>>
        /\ sw' = [sw EXCEPT !.tpgEntry = entry]
    BY <1>3 DEF SetTpg
  <2>2. PICK s : s = sw'
    OBVIOUS
  <2>3. /\ s.enabled = sw.enabled /\ s.active = sw.active /\ s.vcs = sw.vcs /\ s.mode = sw.mode
        /\ s.dts = sw.dts /\ s.xlates = sw.xlates /\ s.gmsl = sw.gmsl
    BY <1>0, <2>1, <2>2 DEF Memory
  <2> QED
    BY <1>1, <2>1, <2>2, <2>3
<1>4. ASSUME NEW bpps, SetDoubleBpps(bpps)
      PROVE  CachesInv'
  <2>1. UNCHANGED <<scene, routing, desc, hw, cam, asleep, stale, harmed, faults, suspends>>
        /\ sw' = [sw EXCEPT !.double = bpps]
    BY <1>4 DEF SetDoubleBpps
  <2>2. PICK s : s = sw'
    OBVIOUS
  <2>3. /\ s.enabled = sw.enabled /\ s.active = sw.active /\ s.vcs = sw.vcs /\ s.mode = sw.mode
        /\ s.dts = sw.dts /\ s.xlates = sw.xlates /\ s.gmsl = sw.gmsl
    BY <1>0, <2>1, <2>2 DEF Memory
  <2> QED
    BY <1>1, <2>1, <2>2, <2>3
<1>5. ASSUME NEW mode, SetMode(mode)
      PROVE  CachesInv'
  <2>1. /\ UNCHANGED <<scene, routing, desc, cam, asleep, stale, harmed, faults, suspends>>
        /\ sw' = [sw EXCEPT !.gmsl = mode] /\ hw' = [hw EXCEPT !.tunnel = mode = "tunnel"]
    BY <1>5 DEF SetMode
  <2>2. PICK s : s = sw'
    OBVIOUS
  <2>3. PICK h : h = hw'
    OBVIOUS
  <2>4. /\ s.enabled = sw.enabled /\ s.active = sw.active /\ s.vcs = sw.vcs /\ s.mode = sw.mode
        /\ s.dts = sw.dts /\ s.xlates = sw.xlates /\ s.gmsl = mode
    BY <1>0, <2>1, <2>2 DEF Memory
  <2>5. /\ h.enabled = hw.enabled /\ h.phy = hw.phy /\ h.vcs = hw.vcs /\ h.mode = hw.mode
        /\ h.dts = hw.dts /\ h.xlates = hw.xlates /\ h.tunnel = (mode = "tunnel")
    BY <1>0, <2>1, <2>3 DEF Registers
  <2>6. h.tunnel = (s.gmsl = "tunnel")
    BY <2>4, <2>5
  <2>7. Translated(sw.xlates, hw.xlates) => Translated(s.xlates, h.xlates)
    BY <2>4, <2>5
  <2>8. ~asleep /\ ~stale.unwritten => h.tunnel = (s.gmsl = "tunnel") /\ Translated(s.xlates, h.xlates)
    BY <2>6, <2>7 DEF CachesInv
  <2> QED
    BY <2>1, <2>2, <2>3, <2>4, <2>5, <2>8, CachesBeside
<1>6. ASSUME XlateEffect
      PROVE  CachesInv'
  <2>1. UNCHANGED <<scene, routing, desc, asleep, stale, harmed, suspends>>
        /\ (faults' = 0 => faults = 0)
    BY <1>6 DEF XlateEffect
  <2>2. PICK x, y : /\ sw' = [sw EXCEPT !.xlates = x] /\ hw' = [hw EXCEPT !.xlates = y]
                    /\ Translated(sw.xlates, hw.xlates) => Translated(x, y)
    BY <1>6 DEF XlateEffect
  <2>3. PICK s : s = sw'
    OBVIOUS
  <2>4. PICK h : h = hw'
    OBVIOUS
  <2>5. /\ s.enabled = sw.enabled /\ s.active = sw.active /\ s.vcs = sw.vcs /\ s.mode = sw.mode
        /\ s.dts = sw.dts /\ s.xlates = x /\ s.gmsl = sw.gmsl
    BY <1>0, <2>2, <2>3 DEF Memory
  <2>6. /\ h.enabled = hw.enabled /\ h.phy = hw.phy /\ h.vcs = hw.vcs /\ h.mode = hw.mode
        /\ h.dts = hw.dts /\ h.xlates = y /\ h.tunnel = hw.tunnel
    BY <1>0, <2>2, <2>4 DEF Registers
  <2>7. ~asleep /\ ~stale.unwritten => h.tunnel = (s.gmsl = "tunnel") /\ Translated(s.xlates, h.xlates)
    BY <2>2, <2>5, <2>6 DEF CachesInv
  <2> QED
    BY <2>1, <2>3, <2>4, <2>5, <2>6, <2>7, CachesBeside
<1>7. CASE ChangeDesc
  <2>1. UNCHANGED <<scene, routing, sw, hw, cam, asleep, stale, harmed, faults, suspends>>
    BY <1>7 DEF ChangeDesc
  <2> QED
    BY <1>1, <2>1
<1> QED
  BY <1>2, <1>3, <1>4, <1>5, <1>6, <1>7, Attaches, Detaches

LEMMA CachesPower ==
    ASSUME TypeOK, CachesInv, Suspend \/ Resume \/ ResumeFails
    PROVE  CachesInv'
<1>0. sw \in Memory
  BY DEF TypeOK
<1>1. CASE Suspend
  <2>1. /\ UNCHANGED <<scene, routing, desc, sw, cam, harmed, faults>>
        /\ asleep' = TRUE /\ hw' = HwReset
        /\ stale' = [pipes |-> {q \in Pipes : sw.enabled[q]}, phys |-> {h \in Phys : sw.active[h]},
                     unwritten |-> FALSE]
    BY <1>1 DEF Suspend
  <2>2. Pipes' = Pipes /\ Phys' = Phys
    BY <2>1, SceneKept
  <2>3. /\ stale'.pipes = {q \in Pipes : sw.enabled[q]}
        /\ stale'.phys = {h \in Phys : sw.active[h]}
    BY <2>1
  <2>4. \A q \in Pipes : ~hw'.enabled[q]
    BY <2>1 DEF HwReset
  <2>5. \A h \in Phys : ~hw'.phy[h]
    BY <2>1 DEF HwReset
  <2>6. Agree(Now)'
    BY <2>1, <2>2, <2>3, <2>4, <2>5 DEF Agree, Now
  <2> QED
    BY <2>1, <2>2, <2>3, <2>6 DEF CachesInv, OffIsEmpty
<1>2. CASE Resume
  <2>1. /\ UNCHANGED <<scene, routing, desc, sw, cam, stale, harmed, faults, suspends>>
        /\ asleep' = FALSE /\ asleep
        /\ hw' = [HwReset EXCEPT !.mode = sw.mode, !.tunnel = sw.gmsl = "tunnel",
                                 !.xlates = sw.xlates]
    BY <1>2 DEF Resume
  <2>2. Pipes' = Pipes /\ Phys' = Phys
    BY <2>1, SceneKept
  <2>3. /\ \A q \in Pipes : ~hw'.enabled[q] /\ hw'.vcs[q] = {} /\ hw'.dts[q] = {}
        /\ \A h \in Phys : ~hw'.phy[h]
        /\ hw'.mode = sw.mode /\ hw'.tunnel = (sw.gmsl = "tunnel") /\ hw'.xlates = sw.xlates
    BY <2>1 DEF HwReset
  <2>4. /\ stale.pipes = {q \in Pipes : sw.enabled[q]}
        /\ stale.phys = {h \in Phys : sw.active[h]}
    BY <2>1 DEF CachesInv
  <2>5. Agree(Now)'
    BY <2>1, <2>2, <2>3, <2>4 DEF Agree, Now
  <2>6. faults = 0 => OffIsEmpty' /\ Settled(Now)'
    BY <2>1, <2>2, <2>3, <2>4 DEF CachesInv, OffIsEmpty, Settled, Now
  <2> QED
    BY <2>1, <2>3, <2>5, <2>6 DEF CachesInv, Translated
<1>3. CASE ResumeFails
  <2>1. UNCHANGED <<scene, sw>>
    BY <1>3 DEF ResumeFails
  <2>2. Pipes' = Pipes /\ Phys' = Phys
    BY <2>1, SceneKept
  <2>3. /\ \A q \in Pipes : ~hw'.enabled[q]
        /\ \A h \in Phys : ~hw'.phy[h]
        /\ asleep /\ asleep' = FALSE /\ faults' # 0
        /\ stale'.pipes = stale.pipes /\ stale'.phys = stale.phys /\ stale'.unwritten = TRUE
    BY <1>3, ResumeFailsSo
  <2>4. /\ stale.pipes = {q \in Pipes : sw.enabled[q]}
        /\ stale.phys = {h \in Phys : sw.active[h]}
    BY <2>3 DEF CachesInv
  <2>5. Agree(Now)'
    BY <2>1, <2>2, <2>3, <2>4 DEF Agree, Now
  <2> QED
    BY <2>3, <2>5 DEF CachesInv
<1> QED
  BY <1>1, <1>2, <1>3

LEMMA CachesStep ==
    ASSUME TypeOK, CachesInv, [Next]_vars
    PROVE  CachesInv'
<1>1. CASE UNCHANGED vars
  <2>1. UNCHANGED <<scene, asleep, stale, faults, sw, hw>>
    BY <1>1 DEF vars
  <2>2. ~asleep /\ ~stale.unwritten => hw'.tunnel = (sw'.gmsl = "tunnel") /\ Translated(sw'.xlates, hw'.xlates)
    BY <2>1 DEF CachesInv
  <2> QED
    BY <2>1, <2>2, CachesBeside
<1>2. CASE Next
  BY <1>2, CachesStreams, CachesOthers, CachesPower DEF Next
<1> QED
  BY <1>1, <1>2

\* What the driver remembers of pipes, PHYs, translations and the mode is what
\* the registers hold, whatever calls fail and however often the system sleeps,
\* but for what was on when it went to sleep and, until the next sleep, for the
\* translations and the mode that a failed resume did not write.
THEOREM CachesAlwaysAgree == Spec => []CachesAgree
<1>1. Init => TypeOK /\ CachesInv
  BY InitTyped, CachesInit
<1>2. TypeOK /\ CachesInv /\ [Next]_vars => TypeOK' /\ CachesInv'
  BY StepTyped, CachesStep
<1>3. TypeOK /\ CachesInv => CachesAgree
  <2>1. SUFFICES ASSUME TypeOK, CachesInv, ~asleep
                 PROVE  CachesAgree
    BY DEF CachesAgree
  <2>2. /\ \A q \in Pipes \ stale.pipes : hw.enabled[q] = sw.enabled[q]
        /\ \A h \in Phys \ stale.phys : hw.phy[h] = sw.active[h]
    <3>1. /\ \A q \in Pipes : hw.enabled[q] \in BOOLEAN /\ sw.enabled[q] \in BOOLEAN
          /\ \A h \in Phys : hw.phy[h] \in BOOLEAN /\ sw.active[h] \in BOOLEAN
      BY <2>1 DEF TypeOK, Memory, Registers
    <3>2. Agree(Now)
      BY <2>1 DEF CachesInv
    <3> QED
      BY <3>1, <3>2 DEF Agree, Now
  <2>3. faults = 0 => \A q \in Pipes \ stale.pipes :
           hw.vcs[q] = sw.vcs[q] /\ hw.mode[q] = sw.mode[q] /\ hw.dts[q] = sw.dts[q]
    BY <2>1 DEF CachesInv, Settled, Now
  <2> QED
    BY <2>1, <2>2, <2>3 DEF CachesInv, CachesAgree, Translated
<1> QED
  BY <1>1, <1>2, <1>3, PTL DEF Spec

----------------------------------------------------------------------------
(* Scenes whose streams flow                                               *)
(*                                                                         *)
(* Which pipe a stream is looked up on depends on the channels preset for  *)
(* the pipes.  The firmware's presets leave every stream on the first pipe *)
(* of its PHY; where they do not, a second pipe is enabled for a stream    *)
(* and never updated again.  A chip that remaps channels asks the camera's *)
(* channel when it assigns one and keeps the answer, so a camera sends all *)
(* its streams on one channel, the first camera on the one remembered from *)
(* before it was bound.                                                    *)

FirstPipeServes(x) ==
    \A q \in 0 .. x.chip.pipes - 1 :
        /\ x.preset[q] \subseteq x.preset[q % x.chip.phys]
        /\ x.preset[q] = {} => x.preset[q % x.chip.phys] = {}

SendsOn(x, vc) ==
    /\ vc \in [0 .. x.chip.phys - 1 -> Vcs] /\ vc[0] = 0
    /\ \A d \in x.descs : \A y \in DOMAIN d : d[y] # NoEntry => d[y].vc = vc[y[1]]
KeepsChannels(x) == x.chip.remap => \E vc : SendsOn(x, vc)

Orderly == FirstPipeServes(scene) /\ KeepsChannels(scene)

\* The channel of each camera.
Channels == CHOOSE vc : SendsOn(scene, vc)

LEMMA FirstPipe ==
    ASSUME scene \in Scenes, FirstPipeServes(scene), NEW h \in Phys, NEW streams
    PROVE  FindPipe(h, streams) = h
<1> DEFINE mine == {q \in Pipes : q % scene.chip.phys = h}
           fits == {q \in mine : streams = {} \/ scene.preset[q] = {}
                                 \/ scene.preset[q] \cap streams # {}}
           S == IF fits # {} THEN fits ELSE mine
<1>1. h \in mine /\ \A q \in mine : h <= q
  <2>1. \/ scene.chip.phys = 1 /\ Phys = {0}
        \/ scene.chip.phys = 2 /\ Phys = {0, 1}
    BY Chips
  <2>2. Phys \subseteq Pipes /\ Pipes \subseteq {0, 1, 2, 3}
    BY Chips
  <2>3. h % scene.chip.phys = h
    BY <2>1
  <2>4. \A q \in {0, 1, 2, 3} : q % scene.chip.phys = h => h <= q
    BY <2>1
  <2> QED
    BY <2>2, <2>3, <2>4
<1>2. mine \subseteq {0, 1, 2, 3} /\ fits \subseteq mine
  BY Chips
<1>3. fits # {} => h \in fits
  <2>1. SUFFICES ASSUME NEW q \in fits PROVE h \in fits
    OBVIOUS
  <2>2. q \in Pipes /\ q % scene.chip.phys = h
    BY <2>1
  <2>3. /\ scene.preset[q] \subseteq scene.preset[h]
        /\ scene.preset[q] = {} => scene.preset[h] = {}
    BY <2>2 DEF FirstPipeServes, Pipes
  <2> QED
    BY <1>1, <2>1, <2>3
<1>4. S \in SUBSET {0, 1, 2, 3} /\ h \in S /\ \A q \in S : h <= q
  BY <1>1, <1>2, <1>3
<1>5. FindPipe(h, streams) = Least(S)
  BY DEF FindPipe
<1> HIDE DEF S
<1>6. Least(S) \in S /\ Least(S) <= h
  BY <1>4, LeastFound
<1>7. h <= Least(S) /\ Least(S) \in {0, 1, 2, 3} /\ h \in {0, 1, 2, 3}
  BY <1>4, <1>6
<1> QED
  BY <1>5, <1>6, <1>7

LEMMA PipeOfRoute ==
    ASSUME TypeOK, Orderly, NEW table \in Tables, NEW r \in Routes(table)
    PROVE  /\ r.pad = Tpg => PipeOf(r) = 0
           /\ r.pad # Tpg => PipeOf(r) = r.pad /\ r.pad \in Phys
           /\ PipeOf(r) \in Phys
<1>1. 0 \in Phys
  BY Chips DEF TypeOK
<1>2. r.pad # Tpg => r.pad \in Phys
  BY TableKnown
<1>3. r.pad # Tpg => PipeOf(r) = r.pad
  BY <1>2, FirstPipe DEF PipeOf, Orderly, TypeOK
<1> QED
  BY <1>1, <1>2, <1>3 DEF PipeOf

LEMMA RoutingKnown ==
    ASSUME TypeOK
    PROVE  routing \in Tables
BY DEF TypeOK, Tables

LEMMA LiveOnPhys ==
    ASSUME TypeOK, Orderly, NEW q, NEW masks, Live(q, masks)
    PROVE  q \in Phys
BY PipeOfRoute, RoutingKnown DEF Live, LiveOn

LEMMA OnIsLive ==
    ASSUME NEW r \in Routes(routing), NEW masks, IsOn(r, masks)
    PROVE  Live(PipeOf(r), masks)
BY DEF Live, LiveOn

LEMMA PatternIsLive ==
    ASSUME NEW masks, TpgOn(masks)
    PROVE  Live(0, masks)
BY OnIsLive DEF TpgOn, PipeOf

LEMMA ChannelKnown ==
    ASSUME TypeOK, Orderly, scene.chip.remap, NEW table \in Tables, NEW r \in Routes(table),
           Resolves(r)
    PROVE  Vc(r) = Channels[PipeOf(r)]
<1>1. SendsOn(scene, Channels)
  BY DEF Orderly, KeepsChannels, Channels
<1>2. CASE r.pad = Tpg
  BY <1>1, <1>2 DEF SendsOn, Vc, PipeOf
<1>3. CASE r.pad # Tpg
  <2>1. PICK y : y = <<r.pad, r.sink>>
    OBVIOUS
  <2>2. y \in DOMAIN desc /\ y[1] = r.pad
    BY <1>3, <2>1, TableKnown
  <2>3. desc[y] # NoEntry /\ desc \in scene.descs
    BY <1>3, <2>1 DEF Resolves, TypeOK
  <2>4. desc[y].vc = Channels[r.pad]
    BY <1>1, <2>2, <2>3 DEF SendsOn
  <2> QED
    BY <1>3, <2>1, <2>4, PipeOfRoute DEF Vc
<1> QED
  BY <1>2, <1>3

\* The streams that are on at each pad are those of the requested sources.
OnOf(masks) ==
    /\ masks[Source] \subseteq {r.source : r \in Routes(routing)}
    /\ \A p \in Phys \cup {Tpg} : masks[p] = Sinks(Requested(masks[Source]), p)

LEMMA OnIsRequested ==
    ASSUME TypeOK, NEW masks, OnOf(masks), NEW r \in Routes(routing)
    PROVE  IsOn(r, masks) <=> r.source \in masks[Source]
<1>1. r.pad \in Phys \cup {Tpg}
  BY RouteKnown
<1>2. masks[r.pad] = Sinks(Requested(masks[Source]), r.pad)
  BY <1>1 DEF OnOf
<1>3. ASSUME r.sink \in masks[r.pad]
      PROVE  r.source \in masks[Source]
  <2>1. PICK t \in Requested(masks[Source]) : t.pad = r.pad /\ t.sink = r.sink
    BY <1>2, <1>3 DEF Sinks
  <2>2. t \in Routes(routing) /\ t.source \in masks[Source]
    BY <2>1 DEF Requested
  <2>3. r = t
    BY <2>1, <2>2, RouteKnown
  <2> QED
    BY <2>2, <2>3
<1>4. ASSUME r.source \in masks[Source]
      PROVE  r.sink \in masks[r.pad]
  BY <1>2, <1>4 DEF Sinks, Requested
<1> QED
  BY <1>3, <1>4 DEF IsOn

LEMMA PadsApart ==
    ASSUME scene \in Scenes
    PROVE  Source \notin Phys \cup {Tpg} /\ Phys \cup {Tpg} \subseteq Pads /\ Source \in Pads
           /\ Tpg \notin Phys
<1>1. Phys = {0} \/ Phys = {0, 1}
  BY Chips
<1> QED
  BY <1>1 DEF Pads, Source, Tpg

\* A request changes the streams of each pad by its own.
Requests(masks, streams, on) ==
    /\ OnOf(masks)
    /\ \A p \in Phys \cup {Tpg} : masks[p] = Switched(sw.on[p], Requested(streams), p, on)

LEMMA MasksOfRequest ==
    ASSUME TypeOK, OnOf(sw.on), NEW streams \in SUBSET {r.source : r \in Routes(routing)},
           NEW on \in BOOLEAN
    PROVE  Requests(NewMasks(streams, on), streams, on)
<1>1. PICK masks : masks = NewMasks(streams, on)
  OBVIOUS
<1>2. /\ Source \notin Phys \cup {Tpg} /\ Phys \cup {Tpg} \subseteq Pads /\ Source \in Pads
  BY PadsApart DEF TypeOK
<1>3. \A p \in Phys \cup {Tpg} :
        masks[p] = IF on THEN sw.on[p] \cup Sinks(Requested(streams), p)
                   ELSE sw.on[p] \ Sinks(Requested(streams), p)
  BY <1>1, <1>2 DEF NewMasks, Sinks
<1>4. masks[Source] = IF on THEN sw.on[Source] \cup streams ELSE sw.on[Source] \ streams
  BY <1>1, <1>2 DEF NewMasks
<1>5. masks[Source] \subseteq {r.source : r \in Routes(routing)}
  BY <1>4 DEF OnOf
<1>6. ASSUME NEW p \in Phys \cup {Tpg}
      PROVE  masks[p] = Sinks(Requested(masks[Source]), p)
  <2>1. PICK R : R = Routes(routing)
    OBVIOUS
  <2>2. \A S : Sinks(Requested(S), p) = {r.sink : r \in {x \in R : x.source \in S /\ x.pad = p}}
    BY <2>1 DEF Sinks, Requested
  <2>3. ASSUME NEW r \in R, NEW t \in R, r.pad = p, t.pad = p, r.sink = t.sink
        PROVE  r.source = t.source
    <3>1. r \in Routes(routing) /\ t \in Routes(routing)
      BY <2>1
    <3>2. r = t
      BY <2>3, <3>1, RouteKnown
    <3> QED
      BY <3>2
  <2>4. sw.on[p] = {r.sink : r \in {x \in R : x.source \in sw.on[Source] /\ x.pad = p}}
    BY <2>2 DEF OnOf
  <2>5. CASE on
    <3>1. masks[p] = {r.sink : r \in {x \in R : x.source \in sw.on[Source] /\ x.pad = p}}
                     \cup {r.sink : r \in {x \in R : x.source \in streams /\ x.pad = p}}
      BY <1>3, <2>2, <2>4, <2>5
    <3>2. masks[Source] = sw.on[Source] \cup streams
      BY <1>4, <2>5
    <3>3. masks[p] = {r.sink : r \in {x \in R : x.source \in sw.on[Source] \cup streams /\ x.pad = p}}
      BY <3>1
    <3> QED
      BY <2>2, <3>2, <3>3
  <2>6. CASE ~on
    <3>1. masks[p] = {r.sink : r \in {x \in R : x.source \in sw.on[Source] /\ x.pad = p}}
                     \ {r.sink : r \in {x \in R : x.source \in streams /\ x.pad = p}}
      BY <1>3, <2>2, <2>4, <2>6
    <3>2. masks[Source] = sw.on[Source] \ streams
      BY <1>4, <2>6
    <3> QED
      BY <2>2, <2>3, <3>1, <3>2
  <2> QED
    BY <2>5, <2>6
<1> QED
  BY <1>1, <1>3, <1>5, <1>6 DEF OnOf, Requests, Switched

----------------------------------------------------------------------------
(* What updating one PHY, with its first pipe, comes to *)

\* Pipes and PHYs other than "h" are left alone.
OnlyPhy(c, e, h) ==
    /\ e \in Ctx /\ SameAround(c, e) /\ FaultStep(c, e)
    /\ \A q \in Pipes \ {h} : e.sw.enabled[q] = c.sw.enabled[q] /\ e.sw.mode[q] = c.sw.mode[q]
    /\ \A g \in Phys \ {h} : e.sw.active[g] = c.sw.active[g]

LEMMA OnlyPhyChain ==
    ASSUME NEW c, NEW d, NEW e, NEW h, OnlyPhy(c, d, h), OnlyPhy(d, e, h)
    PROVE  OnlyPhy(c, e, h)
<1>1. SameAround(c, e) /\ FaultStep(c, e)
  BY Chain DEF OnlyPhy
<1> QED
  BY <1>1 DEF OnlyPhy

LEMMA OnlyPhySame ==
    ASSUME NEW c, NEW e \in Ctx, NEW h, Same(c, e), FaultStep(c, e)
    PROVE  OnlyPhy(c, e, h)
BY DEF OnlyPhy, Same, SameEnabled, SameActive, SameSettings

LEMMA OnlyPhyFlags ==
    ASSUME NEW c \in Ctx, NEW h
    PROVE  OnlyPhy(c, c, h) /\ OnlyPhy(c, Failed(c), h) /\ OnlyPhy(c, Cleared(c), h)
<1>1. FaultStep(c, Failed(c)) /\ FaultStep(c, Cleared(c)) /\ FaultStep(c, c) /\ Same(c, c)
  BY Flagged, SameItself DEF FaultStep
<1> QED
  BY <1>1, Flagged, OnlyPhySame

\* A call that switches the PHY.
LEMMA OnlyPhyActive ==
    ASSUME TypeOK, NEW c \in Ctx, NEW h \in Phys, NEW on \in BOOLEAN, ~c.err
    PROVE  LET e == SetPhyActive(c, h, on) IN
           /\ OnlyPhy(c, e, h) /\ e.sw.enabled = c.sw.enabled /\ e.sw.mode = c.sw.mode
           /\ e.err => e.fault = NoFault /\ e.sw.active = c.sw.active
           /\ ~e.err => c.fault # <<"phy", h>> /\ e.fault = c.fault /\ e.sw.active[h] = on
<1>1. PICK e : e = SetPhyActive(c, h, on)
  OBVIOUS
<1>2. /\ e \in Ctx /\ SameEnabled(c, e) /\ SameSettings(c, e) /\ SameAround(c, e)
      /\ e.err => e.fault = NoFault /\ Same(c, e)
      /\ ~e.err => /\ c.fault # <<"phy", h>> /\ e.fault = c.fault
                   /\ e.sw.active = [c.sw.active EXCEPT ![h] = on]
  BY <1>1, PhyActiveDoes
<1>3. c.sw.active \in [Phys -> BOOLEAN]
  BY DEF Ctx, Memory
<1>4. e.sw.enabled = c.sw.enabled /\ e.sw.mode = c.sw.mode
  BY <1>2 DEF SameEnabled, SameSettings
<1>5. e.err => e.sw.active = c.sw.active
  BY <1>2 DEF Same, SameActive
<1>6. ~e.err => e.sw.active[h] = on /\ \A g \in Phys \ {h} : e.sw.active[g] = c.sw.active[g]
  BY <1>2, <1>3
<1>7. FaultStep(c, e)
  BY <1>2 DEF FaultStep
<1>8. OnlyPhy(c, e, h)
  BY <1>2, <1>4, <1>5, <1>6, <1>7 DEF OnlyPhy
<1> QED
  BY <1>1, <1>2, <1>4, <1>5, <1>6, <1>8

\* The mode a pipe wants is told by the routing.
LEMMA SameMode ==
    ASSUME NEW c, NEW d, NEW q, c.junk = d.junk
    PROVE  ModeOf(c, q) = ModeOf(d, q)
BY DEF ModeOf

\* No call of the PHY would fail: its streams are known, and the pending fault
\* is not one that was to be met.
PhyPassed(c, h, masks) ==
    /\ PipeKnown(h)
    /\ c.fault # <<"vcs", h>> /\ c.fault # <<"dts", h>>
    /\ c.fault = <<"mode", h>> => c.sw.mode[h] = ModeOf(c, h)
    /\ c.fault = <<"enable", h>> => c.sw.enabled[h] = Live(h, masks)

LEMMA OnlyPhyPipe ==
    ASSUME TypeOK, NEW c \in Ctx, NEW h \in Phys, NEW masks, ~c.err
    PROVE  LET e == UpdatePipe(c, h, masks) IN
           /\ OnlyPhy(c, e, h) /\ e.sw.enabled = c.sw.enabled /\ e.sw.active = c.sw.active
           /\ ~e.err => /\ e.fault = c.fault /\ e.sw.mode[h] = ModeOf(c, h) /\ PipeKnown(h)
                        /\ c.fault # <<"vcs", h>> /\ c.fault # <<"dts", h>>
                        /\ c.fault = <<"mode", h>> => c.sw.mode[h] = ModeOf(c, h)
           /\ PhyPassed(c, h, masks) => ~e.err
<1>0. h \in Pipes
  BY Chips DEF TypeOK
<1>1. PICK e : e = UpdatePipe(c, h, masks)
  OBVIOUS
<1>2. PICK new : new = Wanted(c, h, masks)
  OBVIOUS
<1>3. new.mode = ModeOf(c, h)
  BY <1>2 DEF Wanted
<1>4. /\ e \in Ctx /\ SameEnabled(c, e) /\ SameActive(c, e) /\ SameAround(c, e) /\ FaultStep(c, e)
      /\ e.err => e.sw.mode = c.sw.mode
      /\ ~PipeKnown(h) => e.err /\ Same(c, e)
      /\ PipeKnown(h) /\ e.err => PipeFault(c, h, new)
      /\ ~e.err => /\ PipeKnown(h) /\ ~PipeFault(c, h, new) /\ e.fault = c.fault
                   /\ e.sw.mode = [c.sw.mode EXCEPT ![h] = new.mode]
  BY <1>0, <1>1, <1>2, PipeUpdates
<1>5. e.sw.enabled = c.sw.enabled /\ e.sw.active = c.sw.active
  BY <1>4 DEF SameEnabled, SameActive
<1>6. c.sw.mode \in [Pipes -> Modes]
  BY DEF Ctx, Memory
<1>7. \A q \in Pipes \ {h} : e.sw.mode[q] = c.sw.mode[q]
  BY <1>4, <1>6
<1>8. OnlyPhy(c, e, h)
  BY <1>4, <1>5, <1>7 DEF OnlyPhy
<1>9. ~e.err => e.sw.mode[h] = ModeOf(c, h)
  BY <1>0, <1>3, <1>4, <1>6
<1> QED
  BY <1>1, <1>3, <1>4, <1>5, <1>8, <1>9 DEF PipeFault, PhyPassed

LEMMA OnlyPhyEnable ==
    ASSUME TypeOK, NEW c \in Ctx, NEW h \in Phys, NEW masks, ~c.err
    PROVE  LET e == UpdatePipeEnable(c, h, masks) IN
           /\ OnlyPhy(c, e, h) /\ e.sw.mode = c.sw.mode /\ e.sw.active = c.sw.active
           /\ e.err => e.sw.enabled[h] = c.sw.enabled[h]
           /\ ~e.err => /\ e.fault = c.fault /\ e.sw.enabled[h] = Live(h, masks)
                        /\ c.fault = <<"enable", h>> => c.sw.enabled[h] = Live(h, masks)
           /\ Known(masks) /\ (c.fault = <<"enable", h>> => c.sw.enabled[h] = Live(h, masks)) => ~e.err
<1>0. h \in Pipes
  BY Chips DEF TypeOK
<1>1. PICK e : e = UpdatePipeEnable(c, h, masks)
  OBVIOUS
<1>2. PICK on \in BOOLEAN : on = Live(h, masks)
  BY DEF Live
<1>3. /\ e \in Ctx /\ SameActive(c, e) /\ SameSettings(c, e) /\ SameAround(c, e) /\ FaultStep(c, e)
      /\ e.err => /\ SameEnabled(c, e)
                  /\ ~Known(masks) \/ (c.fault = <<"enable", h>> /\ c.sw.enabled[h] # on)
      /\ ~e.err => /\ e.fault = c.fault
                   /\ c.fault = <<"enable", h>> => c.sw.enabled[h] = on
                   /\ e.sw.enabled = [c.sw.enabled EXCEPT ![h] = on]
  BY <1>0, <1>1, <1>2, PipeEnables
<1>4. c.sw.enabled \in [Pipes -> BOOLEAN]
  BY DEF Ctx, Memory
<1>5. e.sw.mode = c.sw.mode /\ e.sw.active = c.sw.active
  BY <1>3 DEF SameSettings, SameActive
<1>6. e.err => e.sw.enabled = c.sw.enabled
  BY <1>3 DEF SameEnabled
<1>7. ~e.err => e.sw.enabled[h] = on /\ \A q \in Pipes \ {h} : e.sw.enabled[q] = c.sw.enabled[q]
  BY <1>0, <1>3, <1>4
<1>8. OnlyPhy(c, e, h)
  BY <1>3, <1>5, <1>6, <1>7 DEF OnlyPhy
<1> QED
  BY <1>1, <1>2, <1>3, <1>5, <1>6, <1>7, <1>8

\* The error labels put the pipe and the PHY back.
RevertedPhy(c, e, h, masks) ==
    /\ OnlyPhy(c, e, h) /\ e.err /\ e.sw.enabled[h] = c.sw.enabled[h]
    /\ c.sw.active[h] => e.sw.active[h]
    /\ Stops(c, h, masks) /\ c.fault # <<"phy", h>> => e.sw.active[h]

LEMMA PhyReverts ==
    ASSUME TypeOK, NEW c \in Ctx, NEW h \in Phys, NEW masks
    PROVE  RevertedPhy(c, RevertPhy(c, h, masks), h, masks)
<1>1. PICK d : d = Cleared(c)
  OBVIOUS
<1>2. d \in Ctx /\ ~d.err /\ Same(c, d) /\ d.fault = c.fault /\ OnlyPhy(c, d, h)
  BY <1>1, Flagged, OnlyPhyFlags
<1>3. PICK b : b = SetPhyActive(d, h, TRUE)
  OBVIOUS
<1>4. /\ OnlyPhy(d, b, h) /\ b.sw.enabled = d.sw.enabled
      /\ b.err => b.sw.active = d.sw.active
      /\ ~b.err => b.sw.active[h] = TRUE
      /\ d.fault # <<"phy", h>> => ~b.err
  <2>1. PICK on \in BOOLEAN : on = TRUE
    OBVIOUS
  <2>2. b = SetPhyActive(d, h, on)
    BY <1>3, <2>1
  <2>3. d.fault # <<"phy", h>> => ~b.err
    BY <1>2, <2>2, PhyActiveDoes
  <2>4. /\ OnlyPhy(d, b, h) /\ b.sw.enabled = d.sw.enabled
        /\ b.err => b.sw.active = d.sw.active
        /\ ~b.err => b.sw.active[h] = on
    BY <1>2, <2>2, OnlyPhyActive
  <2> QED
    BY <2>1, <2>3, <2>4
<1>5. PICK f : f = IF Stops(c, h, masks) THEN b ELSE c
  OBVIOUS
<1>6. d.sw.enabled = c.sw.enabled /\ d.sw.active = c.sw.active
  BY <1>2 DEF Same, SameEnabled, SameActive
<1>7. /\ OnlyPhy(c, f, h) /\ f.sw.enabled[h] = c.sw.enabled[h]
      /\ c.sw.active[h] => f.sw.active[h]
      /\ Stops(c, h, masks) /\ c.fault # <<"phy", h>> => f.sw.active[h]
  BY <1>2, <1>4, <1>5, <1>6, OnlyPhyChain, OnlyPhyFlags
<1>8. f \in Ctx
  BY <1>7 DEF OnlyPhy
<1>9. PICK e : e = Failed(f)
  OBVIOUS
<1>10. e \in Ctx /\ e.err /\ Same(f, e) /\ OnlyPhy(f, e, h)
  BY <1>8, <1>9, Flagged, OnlyPhyFlags
<1>11. e.sw.enabled = f.sw.enabled /\ e.sw.active = f.sw.active
  BY <1>10 DEF Same, SameEnabled, SameActive
<1>12. RevertPhy(c, h, masks) = e
  BY <1>1, <1>3, <1>5, <1>9 DEF RevertPhy
<1>13. OnlyPhy(c, e, h)
  BY <1>7, <1>10, OnlyPhyChain
<1> QED
  BY <1>7, <1>10, <1>11, <1>12, <1>13 DEF RevertedPhy

LEMMA PipeReverts ==
    ASSUME TypeOK, NEW c \in Ctx, NEW h \in Phys
    PROVE  LET e == RevertPipe(c, h) IN
           OnlyPhy(c, e, h) /\ e.sw.enabled = c.sw.enabled /\ e.sw.active = c.sw.active
<1>1. PICK d : d = Cleared(c)
  OBVIOUS
<1>2. d \in Ctx /\ ~d.err /\ Same(c, d) /\ OnlyPhy(c, d, h)
  BY <1>1, Flagged, OnlyPhyFlags
<1>3. PICK e : e = UpdatePipe(d, h, c.sw.on)
  OBVIOUS
<1>4. OnlyPhy(d, e, h) /\ e.sw.enabled = d.sw.enabled /\ e.sw.active = d.sw.active
  BY <1>2, <1>3, OnlyPhyPipe
<1>5. d.sw.enabled = c.sw.enabled /\ d.sw.active = c.sw.active
  BY <1>2 DEF Same, SameEnabled, SameActive
<1>6. RevertPipe(c, h) = e
  BY <1>1, <1>3 DEF RevertPipe
<1>7. OnlyPhy(c, e, h)
  BY <1>2, <1>4, OnlyPhyChain
<1> QED
  BY <1>4, <1>5, <1>6, <1>7

LEMMA EnableReverts ==
    ASSUME TypeOK, NEW c \in Ctx, NEW h \in Phys
    PROVE  LET e == RevertEnable(c, h) IN
           /\ OnlyPhy(c, e, h) /\ e.sw.active = c.sw.active
           /\ Known(c.sw.on) /\ c.fault # <<"enable", h>> => e.sw.enabled[h] = Live(h, c.sw.on)
<1>1. PICK d : d = Cleared(c)
  OBVIOUS
<1>2. d \in Ctx /\ ~d.err /\ Same(c, d) /\ OnlyPhy(c, d, h) /\ d.fault = c.fault
  BY <1>1, Flagged, OnlyPhyFlags
<1>3. PICK on : on = c.sw.on
  OBVIOUS
<1>4. PICK e : e = UpdatePipeEnable(d, h, on)
  OBVIOUS
<1>5. /\ OnlyPhy(d, e, h) /\ e.sw.active = d.sw.active
      /\ ~e.err => e.sw.enabled[h] = Live(h, on)
      /\ Known(on) /\ d.fault # <<"enable", h>> => ~e.err
  BY <1>2, <1>4, OnlyPhyEnable
<1>6. d.sw.active = c.sw.active
  BY <1>2 DEF Same, SameActive
<1>7. RevertEnable(c, h) = e
  BY <1>1, <1>3, <1>4 DEF RevertEnable
<1>8. OnlyPhy(c, e, h)
  BY <1>2, <1>5, OnlyPhyChain
<1> QED
  BY <1>2, <1>3, <1>5, <1>6, <1>7, <1>8

\* A PHY updated ...
DonePhy(c, e, h, masks) ==
    /\ ~e.err /\ e.fault = c.fault
    /\ PhyPassed(c, h, masks) /\ e.sw.mode[h] = ModeOf(c, h) /\ e.sw.enabled[h] = Live(h, masks)
    /\ Starts(c, h, masks) => e.sw.active[h]
    /\ c.sw.active[h] /\ ~Stops(c, h, masks) => e.sw.active[h]
\* ... or one that could not be, as it was.
UndonePhy(c, e, h) ==
    e.err /\ e.sw.enabled[h] = Live(h, c.sw.on) /\ (c.sw.active[h] => e.sw.active[h])

\* Nothing is done to a pipe and PHY which is as it shall be.
Undisturbed(c, h, masks) == masks = c.sw.on /\ Known(masks) /\ PhyPassed(c, h, masks)

PhyEffect(c, e, h, masks) ==
    /\ OnlyPhy(c, e, h)
    /\ ~e.err => DonePhy(c, e, h, masks)
    /\ e.err => /\ ~Undisturbed(c, h, masks)
                /\ Known(c.sw.on) /\ c.sw.enabled[h] = Live(h, c.sw.on) => UndonePhy(c, e, h)

LEMMA OnlyPhyParts ==
    ASSUME NEW c, NEW e, NEW h, OnlyPhy(c, e, h)
    PROVE  /\ e \in Ctx /\ e.sw.on = c.sw.on /\ e.junk = c.junk
           /\ e.fault = c.fault \/ e.fault = NoFault
           /\ \A g, masks : (Starts(e, g, masks) <=> Starts(c, g, masks))
                            /\ (Stops(e, g, masks) <=> Stops(c, g, masks))
BY DEF OnlyPhy, SameAround, SameRest, FaultStep, Starts, Stops

\* From where the pipe is enabled.
EndingEffect(c, e, h, masks) ==
    /\ OnlyPhy(c, e, h)
    /\ ~e.err => /\ e.fault = c.fault /\ e.sw.mode = c.sw.mode /\ e.sw.enabled = c.sw.enabled
                 /\ Starts(c, h, masks) => e.sw.active[h]
    /\ e.err => /\ Starts(c, h, masks)
                /\ Known(c.sw.on) => e.sw.enabled[h] = Live(h, c.sw.on)
    /\ c.sw.active[h] => e.sw.active[h]

LEMMA PhyEnding ==
    ASSUME TypeOK, NEW c \in Ctx, NEW h \in Phys, NEW masks, ~c.err
    PROVE  LET d == IF Starts(c, h, masks) THEN SetPhyActive(c, h, TRUE) ELSE c
           IN  EndingEffect(c, PhyStarted(d, h, h, masks), h, masks)
<1>1. PICK d : d = IF Starts(c, h, masks) THEN SetPhyActive(c, h, TRUE) ELSE c
  OBVIOUS
<1>2. PICK e : e = PhyStarted(d, h, h, masks)
  OBVIOUS
<1>3. CASE ~Starts(c, h, masks)
  <2>1. d = c /\ e = c
    BY <1>1, <1>2, <1>3 DEF PhyStarted
  <2> QED
    BY <1>1, <1>2, <1>3, <2>1, OnlyPhyFlags DEF EndingEffect
<1>4. CASE Starts(c, h, masks)
  <2>1. PICK on \in BOOLEAN : on = TRUE
    OBVIOUS
  <2>2. d = SetPhyActive(c, h, on)
    BY <1>1, <1>4, <2>1
  <2>3. /\ OnlyPhy(c, d, h) /\ d.sw.enabled = c.sw.enabled /\ d.sw.mode = c.sw.mode
        /\ d.err => d.fault = NoFault /\ d.sw.active = c.sw.active
        /\ ~d.err => d.fault = c.fault /\ d.sw.active[h] = on
    BY <2>2, OnlyPhyActive
  <2>4. CASE ~d.err
    <3>1. e = d
      BY <1>2, <2>4 DEF PhyStarted
    <3> QED
      BY <1>1, <1>2, <2>1, <2>3, <2>4, <3>1 DEF EndingEffect
  <2>5. CASE d.err
    <3>1. d \in Ctx /\ d.sw.on = c.sw.on /\ ~Stops(d, h, masks)
      BY <1>4, <2>3, OnlyPhyParts DEF Starts, Stops
    <3>2. PICK a : a = RevertEnable(d, h)
      OBVIOUS
    <3>3. /\ OnlyPhy(d, a, h) /\ a.sw.active = d.sw.active
          /\ Known(d.sw.on) /\ d.fault # <<"enable", h>> => a.sw.enabled[h] = Live(h, d.sw.on)
      BY <3>1, <3>2, EnableReverts
    <3>4. a \in Ctx
      BY <3>3 DEF OnlyPhy
    <3>5. PICK b : b = RevertPipe(a, h)
      OBVIOUS
    <3>6. OnlyPhy(a, b, h) /\ b.sw.enabled = a.sw.enabled /\ b.sw.active = a.sw.active
      BY <3>4, <3>5, PipeReverts
    <3>7. b \in Ctx
      BY <3>6 DEF OnlyPhy
    <3>8. PICK f : f = RevertPhy(b, h, masks)
      OBVIOUS
    <3>9. RevertedPhy(b, f, h, masks)
      BY <3>7, <3>8, PhyReverts
    <3>10. e = f
      BY <1>2, <2>5, <3>2, <3>5, <3>8 DEF PhyStarted
    <3>11. OnlyPhy(b, f, h) /\ f.err /\ f.sw.enabled[h] = b.sw.enabled[h]
           /\ (b.sw.active[h] => f.sw.active[h])
      BY <3>9 DEF RevertedPhy
    <3>12. OnlyPhy(c, f, h)
      BY <2>3, <3>3, <3>6, <3>11, OnlyPhyChain
    <3>13. Known(c.sw.on) => f.sw.enabled[h] = Live(h, c.sw.on)
      BY <2>3, <2>5, <3>1, <3>3, <3>6, <3>11, NoFaultIsNone
    <3>14. c.sw.active[h] => f.sw.active[h]
      BY <2>3, <2>5, <3>3, <3>6, <3>11
    <3> QED
      BY <1>1, <1>2, <1>4, <3>10, <3>11, <3>12, <3>13, <3>14 DEF EndingEffect
  <2> QED
    BY <2>4, <2>5
<1> QED
  BY <1>3, <1>4

\* From where the pipe is filled.
GoingEffect(c, e, h, masks) ==
    /\ OnlyPhy(c, e, h)
    /\ ~e.err => /\ e.fault = c.fault /\ e.sw.mode = c.sw.mode
                 /\ e.sw.enabled[h] = Live(h, masks)
                 /\ c.fault = <<"enable", h>> => c.sw.enabled[h] = Live(h, masks)
                 /\ Starts(c, h, masks) => e.sw.active[h]
    /\ e.err => /\ \/ ~Known(masks) \/ Starts(c, h, masks)
                   \/ (c.fault = <<"enable", h>> /\ c.sw.enabled[h] # Live(h, masks))
                /\ Known(c.sw.on) /\ c.sw.enabled[h] = Live(h, c.sw.on) =>
                     e.sw.enabled[h] = Live(h, c.sw.on)
                /\ Stops(c, h, masks) /\ c.fault # <<"phy", h>> => e.sw.active[h]
    /\ c.sw.active[h] => e.sw.active[h]

LEMMA PhyGoesOn ==
    ASSUME TypeOK, NEW c \in Ctx, NEW h \in Phys, NEW masks, ~c.err
    PROVE  GoingEffect(c, PhyFilled(c, h, h, masks), h, masks)
<1>0. PICK on \in BOOLEAN : on = Live(h, masks)
  BY DEF Live
<1>1. PICK a : a = UpdatePipeEnable(c, h, masks)
  OBVIOUS
<1>2. /\ OnlyPhy(c, a, h) /\ a.sw.mode = c.sw.mode /\ a.sw.active = c.sw.active
      /\ a.err => a.sw.enabled[h] = c.sw.enabled[h]
      /\ ~a.err => /\ a.fault = c.fault /\ a.sw.enabled[h] = on
                   /\ c.fault = <<"enable", h>> => c.sw.enabled[h] = on
      /\ Known(masks) /\ (c.fault = <<"enable", h>> => c.sw.enabled[h] = on) => ~a.err
  BY <1>0, <1>1, OnlyPhyEnable
<1>3. /\ a \in Ctx /\ a.sw.on = c.sw.on /\ (a.fault = c.fault \/ a.fault = NoFault)
      /\ Starts(a, h, masks) <=> Starts(c, h, masks)
      /\ Stops(a, h, masks) <=> Stops(c, h, masks)
  BY <1>2, OnlyPhyParts
<1>4. PICK e : e = PhyEnabled(a, h, h, masks)
  OBVIOUS
<1>5. PhyFilled(c, h, h, masks) = e
  BY <1>1, <1>4 DEF PhyFilled
<1>6. CASE a.err
  <2>1. PICK b : b = RevertPipe(a, h)
    OBVIOUS
  <2>2. OnlyPhy(a, b, h) /\ b.sw.enabled = a.sw.enabled /\ b.sw.active = a.sw.active
    BY <1>3, <2>1, PipeReverts
  <2>3. /\ b \in Ctx /\ (b.fault = a.fault \/ b.fault = NoFault)
        /\ Stops(b, h, masks) <=> Stops(a, h, masks)
    BY <2>2, OnlyPhyParts
  <2>4. e = RevertPhy(b, h, masks)
    BY <1>4, <1>6, <2>1 DEF PhyEnabled
  <2>5. /\ OnlyPhy(b, e, h) /\ e.err /\ e.sw.enabled[h] = b.sw.enabled[h]
        /\ b.sw.active[h] => e.sw.active[h]
        /\ Stops(b, h, masks) /\ b.fault # <<"phy", h>> => e.sw.active[h]
    BY <2>3, <2>4, PhyReverts DEF RevertedPhy
  <2>6. OnlyPhy(c, e, h)
    BY <1>2, <2>2, <2>5, OnlyPhyChain
  <2>7. c.fault # <<"phy", h>> => b.fault # <<"phy", h>>
    BY <1>3, <2>3, NoFaultIsNone
  <2> QED
    BY <1>0, <1>2, <1>3, <1>5, <1>6, <2>2, <2>3, <2>5, <2>6, <2>7 DEF GoingEffect
<1>7. CASE ~a.err
  <2>1. PICK d : d = IF Starts(a, h, masks) THEN SetPhyActive(a, h, TRUE) ELSE a
    OBVIOUS
  <2>2. e = PhyStarted(d, h, h, masks)
    BY <1>4, <1>7, <2>1 DEF PhyEnabled
  <2>3. EndingEffect(a, e, h, masks)
    BY <1>3, <1>7, <2>1, <2>2, PhyEnding
  <2>4. OnlyPhy(c, e, h)
    BY <1>2, <2>3, OnlyPhyChain DEF EndingEffect
  <2>5. Starts(c, h, masks) => ~Stops(c, h, masks)
    BY DEF Starts, Stops
  <2>6. c.sw.active[h] => e.sw.active[h]
    BY <1>2, <2>3 DEF EndingEffect
  <2>7. CASE ~e.err
    <3>1. /\ e.fault = a.fault /\ e.sw.mode = a.sw.mode /\ e.sw.enabled = a.sw.enabled
          /\ Starts(a, h, masks) => e.sw.active[h]
      BY <2>3, <2>7 DEF EndingEffect
    <3> QED
      BY <1>0, <1>2, <1>3, <1>5, <1>7, <2>4, <2>6, <2>7, <3>1 DEF GoingEffect
  <2>8. CASE e.err
    <3>1. Starts(a, h, masks) /\ (Known(a.sw.on) => e.sw.enabled[h] = Live(h, a.sw.on))
      BY <2>3, <2>8 DEF EndingEffect
    <3> QED
      BY <1>3, <1>5, <2>4, <2>5, <2>6, <2>8, <3>1 DEF GoingEffect
  <2> QED
    BY <2>7, <2>8
<1> QED
  BY <1>6, <1>7

LEMMA PhyUpdates ==
    ASSUME TypeOK, Orderly, NEW c \in Ctx, NEW h \in Phys, NEW masks, ~c.err
    PROVE  PhyEffect(c, UpdatePhy(c, h, masks), h, masks)
<1>1. PICK a : a = IF Stops(c, h, masks) THEN SetPhyActive(c, h, FALSE) ELSE c
  OBVIOUS
<1>2. /\ OnlyPhy(c, a, h) /\ a.sw.enabled = c.sw.enabled /\ a.sw.mode = c.sw.mode
      /\ ~Stops(c, h, masks) => a = c
      /\ a.err => a.sw.active = c.sw.active /\ Stops(c, h, masks)
      /\ ~a.err => a.fault = c.fault /\ (Stops(c, h, masks) => c.fault # <<"phy", h>>)
  <2>1. CASE Stops(c, h, masks)
    <3>1. PICK off \in BOOLEAN : off = FALSE
      OBVIOUS
    <3>2. a = SetPhyActive(c, h, off)
      BY <1>1, <2>1, <3>1
    <3> QED
      BY <2>1, <3>2, OnlyPhyActive
  <2>2. CASE ~Stops(c, h, masks)
    BY <1>1, <2>2, OnlyPhyFlags
  <2> QED
    BY <2>1, <2>2
<1>3. /\ a \in Ctx /\ a.sw.on = c.sw.on /\ a.junk = c.junk
      /\ Starts(a, h, masks) <=> Starts(c, h, masks)
      /\ Stops(a, h, masks) <=> Stops(c, h, masks)
  BY <1>2, OnlyPhyParts
<1>4. PICK e : e = PhyStopped(a, h, h, masks)
  OBVIOUS
<1>5. UpdatePhy(c, h, masks) = e
  <2>1. FindPipe(h, masks[h]) = h
    BY FirstPipe DEF Orderly, TypeOK
  <2> QED
    BY <1>1, <1>4, <2>1 DEF UpdatePhy
<1>6. Undisturbed(c, h, masks) => a = c /\ ~Starts(c, h, masks)
  BY <1>2 DEF Undisturbed, Stops, Starts
<1>7. CASE a.err
  <2>1. e = a
    BY <1>4, <1>7 DEF PhyStopped
  <2>2. ~Undisturbed(c, h, masks)
    BY <1>6, <1>7
  <2>3. c.sw.enabled[h] = Live(h, c.sw.on) => UndonePhy(c, e, h)
    BY <1>2, <1>7, <2>1 DEF UndonePhy
  <2> QED
    BY <1>2, <1>5, <1>7, <2>1, <2>2, <2>3 DEF PhyEffect
<1>8. CASE ~a.err
  <2>1. PICK b : b = UpdatePipe(a, h, masks)
    OBVIOUS
  <2>2. /\ OnlyPhy(a, b, h) /\ b.sw.enabled = a.sw.enabled /\ b.sw.active = a.sw.active
        /\ ~b.err => /\ b.fault = a.fault /\ b.sw.mode[h] = ModeOf(a, h) /\ PipeKnown(h)
                     /\ a.fault # <<"vcs", h>> /\ a.fault # <<"dts", h>>
                     /\ a.fault = <<"mode", h>> => a.sw.mode[h] = ModeOf(a, h)
        /\ PhyPassed(a, h, masks) => ~b.err
    BY <1>3, <1>8, <2>1, OnlyPhyPipe
  <2>3. /\ b \in Ctx /\ b.sw.on = a.sw.on /\ (b.fault = a.fault \/ b.fault = NoFault)
        /\ Starts(b, h, masks) <=> Starts(a, h, masks)
        /\ Stops(b, h, masks) <=> Stops(a, h, masks)
    BY <2>2, OnlyPhyParts
  <2>4. e = PhyFilled(b, h, h, masks)
    BY <1>4, <1>8, <2>1 DEF PhyStopped
  <2>5. OnlyPhy(c, b, h)
    BY <1>2, <2>2, OnlyPhyChain
  <2>6. Undisturbed(c, h, masks) => ~b.err
    BY <1>6, <2>2 DEF Undisturbed
  <2>7. Stops(c, h, masks) => b.fault # <<"phy", h>>
    BY <1>2, <1>8, <2>3, NoFaultIsNone
  <2>8. ModeOf(a, h) = ModeOf(c, h)
    BY <1>3, SameMode
  <2>9. CASE b.err
    <3>1. e = RevertPhy(b, h, masks)
      BY <2>4, <2>9 DEF PhyFilled
    <3>2. /\ OnlyPhy(b, e, h) /\ e.err /\ e.sw.enabled[h] = b.sw.enabled[h]
          /\ b.sw.active[h] => e.sw.active[h]
          /\ Stops(b, h, masks) /\ b.fault # <<"phy", h>> => e.sw.active[h]
      BY <2>3, <3>1, PhyReverts DEF RevertedPhy
    <3>3. OnlyPhy(c, e, h)
      BY <2>5, <3>2, OnlyPhyChain
    <3>4. c.sw.active[h] => e.sw.active[h]
      BY <1>2, <1>3, <2>2, <2>3, <2>7, <3>2
    <3>5. c.sw.enabled[h] = Live(h, c.sw.on) => UndonePhy(c, e, h)
      BY <1>2, <2>2, <3>2, <3>4 DEF UndonePhy
    <3> QED
      BY <1>5, <2>6, <2>9, <3>2, <3>3, <3>5 DEF PhyEffect
  <2>10. CASE ~b.err
    <3>1. GoingEffect(b, e, h, masks)
      BY <2>3, <2>4, <2>10, PhyGoesOn
    <3>2. OnlyPhy(c, e, h)
      BY <2>5, <3>1, OnlyPhyChain DEF GoingEffect
    <3>3. b.sw.active[h] => e.sw.active[h]
      BY <3>1 DEF GoingEffect
    <3>4. CASE ~e.err
      <4>1. /\ e.fault = b.fault /\ e.sw.mode = b.sw.mode /\ e.sw.enabled[h] = Live(h, masks)
            /\ b.fault = <<"enable", h>> => b.sw.enabled[h] = Live(h, masks)
            /\ Starts(b, h, masks) => e.sw.active[h]
        BY <3>1, <3>4 DEF GoingEffect
      <4>2. PhyPassed(c, h, masks)
        BY <1>2, <1>8, <2>2, <2>8, <2>10, <4>1 DEF PhyPassed
      <4>3. e.fault = c.fault /\ e.sw.mode[h] = ModeOf(c, h)
        BY <1>2, <1>8, <2>2, <2>8, <2>10, <4>1
      <4>4. Starts(c, h, masks) => e.sw.active[h]
        BY <1>3, <2>3, <4>1
      <4>5. c.sw.active[h] /\ ~Stops(c, h, masks) => e.sw.active[h]
        BY <1>2, <2>2, <3>3
      <4>6. DonePhy(c, e, h, masks)
        BY <3>4, <4>1, <4>2, <4>3, <4>4, <4>5 DEF DonePhy
      <4> QED
        BY <1>5, <3>2, <3>4, <4>6 DEF PhyEffect
    <3>5. CASE e.err
      <4>1. /\ \/ ~Known(masks) \/ Starts(b, h, masks)
               \/ (b.fault = <<"enable", h>> /\ b.sw.enabled[h] # Live(h, masks))
            /\ Known(b.sw.on) /\ b.sw.enabled[h] = Live(h, b.sw.on) => e.sw.enabled[h] = Live(h, b.sw.on)
            /\ Stops(b, h, masks) /\ b.fault # <<"phy", h>> => e.sw.active[h]
        BY <3>1, <3>5 DEF GoingEffect
      <4>2. ~Undisturbed(c, h, masks)
        BY <1>2, <1>3, <1>6, <1>8, <2>2, <2>3, <2>10, <4>1 DEF Undisturbed, PhyPassed
      <4>3. c.sw.active[h] => e.sw.active[h]
        BY <1>2, <1>3, <2>2, <2>3, <2>7, <3>3, <4>1
      <4>4. Known(c.sw.on) /\ c.sw.enabled[h] = Live(h, c.sw.on) => UndonePhy(c, e, h)
        BY <1>2, <1>3, <2>2, <2>3, <3>5, <4>1, <4>3 DEF UndonePhy
      <4> QED
        BY <1>5, <3>2, <3>5, <4>2, <4>4 DEF PhyEffect
    <3> QED
      BY <3>4, <3>5
  <2> QED
    BY <2>9, <2>10
<1> QED
  BY <1>7, <1>8

----------------------------------------------------------------------------
(* Both PHYs *)

\* The pipes follow the masks.
Follow(c, masks) == \A q \in Pipes : c.sw.enabled[q] = Live(q, masks)
\* A PHY stays active unless the masks turn it off.
ActiveKept(c, e, masks) ==
    \A h \in Phys : c.sw.active[h] /\ ~Stops(c, h, masks) => e.sw.active[h]

OnlyPhys(c, e, masks) ==
    e \in Ctx /\ SameAround(c, e) /\ FaultStep(c, e) /\ ActiveKept(c, e, masks)

PhysEffect(c, e, masks) ==
    /\ OnlyPhys(c, e, masks)
    /\ e.err => Follow(e, c.sw.on)
    /\ ~e.err => /\ e.fault = c.fault /\ Follow(e, masks)
                 /\ \A h \in Phys : /\ PhyPassed(c, h, masks) /\ e.sw.mode[h] = ModeOf(c, h)
                                    /\ Starts(c, h, masks) => e.sw.active[h]

\* Only the pipes that are first of a PHY carry streams.
LEMMA FollowAll ==
    ASSUME TypeOK, Orderly, NEW c, NEW e, NEW old, NEW masks, Follow(c, old),
           \A q \in Pipes \ Phys : e.sw.enabled[q] = c.sw.enabled[q],
           \A h \in Phys : e.sw.enabled[h] = Live(h, masks)
    PROVE  Follow(e, masks)
<1>1. SUFFICES ASSUME NEW q \in Pipes \ Phys
               PROVE  e.sw.enabled[q] = Live(q, masks)
  BY DEF Follow
<1>2. e.sw.enabled[q] = Live(q, old)
  BY <1>1 DEF Follow
<1>3. ~Live(q, old) /\ ~Live(q, masks)
  BY <1>1, LiveOnPhys
<1>4. Live(q, old) \in BOOLEAN /\ Live(q, masks) \in BOOLEAN
  BY DEF Live
<1> QED
  BY <1>2, <1>3, <1>4

\* What one PHY's update says of both.
LEMMA OnePhy ==
    ASSUME TypeOK, NEW c, NEW e, NEW h \in Phys, NEW masks, OnlyPhy(c, e, h),
           c.sw.active[h] /\ ~Stops(c, h, masks) => e.sw.active[h]
    PROVE  OnlyPhys(c, e, masks)
<1>1. ActiveKept(c, e, masks)
  BY DEF ActiveKept, OnlyPhy
<1> QED
  BY <1>1 DEF OnlyPhy, OnlyPhys

LEMMA OnlyPhysChain ==
    ASSUME NEW c, NEW d, NEW e, NEW masks, OnlyPhys(c, d, masks), OnlyPhys(d, e, masks)
    PROVE  OnlyPhys(c, e, masks)
<1>1. SameAround(c, e) /\ FaultStep(c, e)
  BY Chain DEF OnlyPhys
<1>2. d.sw.on = c.sw.on
  BY DEF OnlyPhys, SameAround, SameRest
<1>3. ActiveKept(c, e, masks)
  BY <1>2 DEF OnlyPhys, ActiveKept, Stops
<1> QED
  BY <1>1, <1>3 DEF OnlyPhys

LEMMA PhysUpdates ==
    ASSUME TypeOK, Orderly, NEW c \in Ctx, NEW masks, ~c.err,
           Known(c.sw.on), Follow(c, c.sw.on)
    PROVE  PhysEffect(c, UpdatePhys(c, masks), masks)
<1>0. /\ 0 \in Phys /\ (scene.chip.phys = 1 => Phys = {0}) /\ (scene.chip.phys # 1 => Phys = {0, 1})
      /\ Phys \subseteq Pipes
  BY Chips DEF TypeOK
<1>1. PICK a : a = UpdatePhy(c, 0, masks)
  OBVIOUS
<1>2. PhyEffect(c, a, 0, masks)
  BY <1>0, <1>1, PhyUpdates
<1>3. OnlyPhy(c, a, 0)
  BY <1>2 DEF PhyEffect
<1>4. /\ a \in Ctx /\ a.sw.on = c.sw.on /\ a.junk = c.junk
      /\ \A h : (Starts(a, h, masks) <=> Starts(c, h, masks))
                /\ (Stops(a, h, masks) <=> Stops(c, h, masks))
  BY <1>3, OnlyPhyParts
<1>5. PICK e : e = UpdatePhys(c, masks)
  OBVIOUS
<1>6. e = FirstPhyDone(a, masks)
  BY <1>1, <1>5 DEF UpdatePhys
<1>7. CASE a.err
  <2>1. e = a
    BY <1>6, <1>7 DEF FirstPhyDone
  <2>2. c.sw.enabled[0] = Live(0, c.sw.on)
    BY <1>0 DEF Follow
  <2>3. a.sw.enabled[0] = Live(0, c.sw.on) /\ (c.sw.active[0] => a.sw.active[0])
    BY <1>2, <1>7, <2>2 DEF PhyEffect, UndonePhy
  <2>4. OnlyPhys(c, a, masks)
    BY <1>0, <1>3, <2>3, OnePhy
  <2>5. /\ \A q \in Pipes \ Phys : a.sw.enabled[q] = c.sw.enabled[q]
        /\ \A h \in Phys : a.sw.enabled[h] = Live(h, c.sw.on)
    BY <1>0, <1>3, <2>3 DEF OnlyPhy, Follow
  <2>6. Follow(a, c.sw.on)
    BY <2>5, FollowAll
  <2> QED
    BY <1>5, <1>7, <2>1, <2>4, <2>6 DEF PhysEffect
<1>8. CASE ~a.err
  <2>1. DonePhy(c, a, 0, masks)
    BY <1>2, <1>8 DEF PhyEffect
  <2>2. /\ a.fault = c.fault /\ PhyPassed(c, 0, masks) /\ a.sw.mode[0] = ModeOf(c, 0)
        /\ a.sw.enabled[0] = Live(0, masks)
        /\ Starts(c, 0, masks) => a.sw.active[0]
        /\ c.sw.active[0] /\ ~Stops(c, 0, masks) => a.sw.active[0]
    BY <2>1 DEF DonePhy
  <2>3. OnlyPhys(c, a, masks)
    BY <1>0, <1>3, <2>2, OnePhy
  <2>4. CASE scene.chip.phys = 1
    <3>1. e = a
      BY <1>6, <2>4 DEF FirstPhyDone
    <3>2. /\ \A q \in Pipes \ Phys : a.sw.enabled[q] = c.sw.enabled[q]
          /\ \A h \in Phys : a.sw.enabled[h] = Live(h, masks)
      BY <1>0, <1>3, <2>2, <2>4 DEF OnlyPhy
    <3>3. Follow(a, masks)
      BY <3>2, FollowAll
    <3> QED
      BY <1>0, <1>5, <1>8, <2>2, <2>3, <2>4, <3>1, <3>3 DEF PhysEffect
  <2>5. CASE scene.chip.phys # 1
    <3>0. Phys = {0, 1} /\ 0 \in Pipes \ {1} /\ 0 \in Phys \ {1} /\ 1 \in Phys /\ 1 \in Pipes \ {0}
          /\ 1 \in Phys \ {0}
      BY <1>0, <2>5
    <3>1. PICK b : b = UpdatePhy(a, 1, masks)
      OBVIOUS
    <3>2. PhyEffect(a, b, 1, masks)
      BY <1>4, <1>8, <3>0, <3>1, PhyUpdates
    <3>3. OnlyPhy(a, b, 1)
      BY <3>2 DEF PhyEffect
    <3>4. /\ b \in Ctx /\ b.sw.on = a.sw.on /\ b.junk = a.junk
          /\ (b.fault = a.fault \/ b.fault = NoFault)
      BY <3>3, OnlyPhyParts
    <3>5. /\ a.sw.enabled[1] = c.sw.enabled[1] /\ a.sw.mode[1] = c.sw.mode[1]
          /\ a.sw.active[1] = c.sw.active[1]
          /\ b.sw.enabled[0] = a.sw.enabled[0] /\ b.sw.mode[0] = a.sw.mode[0]
          /\ b.sw.active[0] = a.sw.active[0]
      BY <1>3, <3>0, <3>3 DEF OnlyPhy
    <3>6. e = SecondPhyDone(b)
      BY <1>6, <1>8, <2>5, <3>1 DEF FirstPhyDone
    <3>7. \A q \in Pipes \ Phys : b.sw.enabled[q] = c.sw.enabled[q]
      BY <1>3, <3>0, <3>3 DEF OnlyPhy
    <3>8. ModeOf(a, 1) = ModeOf(c, 1)
      BY <1>4, SameMode
    <3>9. c.sw.enabled[1] = Live(1, c.sw.on) /\ c.sw.enabled[0] = Live(0, c.sw.on)
      BY <1>0, <3>0 DEF Follow
    <3>10. CASE ~b.err
      <4>1. e = b
        BY <3>6, <3>10 DEF SecondPhyDone
      <4>2. DonePhy(a, b, 1, masks)
        BY <3>2, <3>10 DEF PhyEffect
      <4>3. /\ b.fault = a.fault /\ PhyPassed(a, 1, masks) /\ b.sw.mode[1] = ModeOf(a, 1)
            /\ b.sw.enabled[1] = Live(1, masks)
            /\ Starts(a, 1, masks) => b.sw.active[1]
            /\ a.sw.active[1] /\ ~Stops(a, 1, masks) => b.sw.active[1]
        BY <4>2 DEF DonePhy
      <4>4. PhyPassed(c, 1, masks)
        BY <2>2, <3>5, <3>8, <4>3 DEF PhyPassed
      <4>5. OnlyPhys(a, b, masks)
        BY <3>0, <3>3, <4>3, OnePhy
      <4>6. OnlyPhys(c, b, masks)
        BY <2>3, <4>5, OnlyPhysChain
      <4>7. \A h \in Phys : b.sw.enabled[h] = Live(h, masks)
        BY <2>2, <3>0, <3>5, <4>3
      <4>8. Follow(b, masks)
        BY <3>7, <4>7, FollowAll
      <4>9. \A h \in Phys : /\ PhyPassed(c, h, masks) /\ b.sw.mode[h] = ModeOf(c, h)
                            /\ Starts(c, h, masks) => b.sw.active[h]
        BY <1>4, <2>2, <3>0, <3>5, <3>8, <4>3, <4>4
      <4> QED
        BY <1>5, <2>2, <3>10, <4>1, <4>3, <4>6, <4>8, <4>9 DEF PhysEffect
    <3>11. CASE b.err
      <4>1. b.sw.enabled[1] = Live(1, c.sw.on) /\ (a.sw.active[1] => b.sw.active[1])
        BY <1>4, <3>2, <3>5, <3>9, <3>11 DEF PhyEffect, UndonePhy
      <4>2. OnlyPhys(a, b, masks)
        BY <3>0, <3>3, <4>1, OnePhy
      <4>3. PICK d : d = Cleared(b)
        OBVIOUS
      <4>4. d \in Ctx /\ ~d.err /\ Same(b, d) /\ d.fault = b.fault
        BY <3>4, <4>3, Flagged
      <4>5. /\ d.sw.on = c.sw.on /\ d.junk = c.junk /\ d.sw.enabled = b.sw.enabled
            /\ d.sw.mode = b.sw.mode /\ d.sw.active = b.sw.active
        BY <1>4, <3>4, <4>4 DEF Same, SameEnabled, SameActive, SameSettings, SameAround, SameRest
      <4>6. PICK on : on = c.sw.on
        OBVIOUS
      <4>7. PICK f : f = UpdatePhy(d, 0, on)
        OBVIOUS
      <4>8. PhyEffect(d, f, 0, on)
        BY <1>0, <4>4, <4>7, PhyUpdates
      <4>9. ModeOf(d, 0) = ModeOf(c, 0)
        BY <4>5, SameMode
      <4>10. PhyPassed(d, 0, on)
        BY <2>2, <3>4, <3>5, <3>9, <4>4, <4>5, <4>6, <4>9, NoFaultIsNone DEF PhyPassed
      <4>11. Undisturbed(d, 0, on)
        BY <4>5, <4>6, <4>10 DEF Undisturbed
      <4>12. ~f.err /\ DonePhy(d, f, 0, on) /\ OnlyPhy(d, f, 0)
        BY <4>8, <4>11 DEF PhyEffect
      <4>13. f.sw.enabled[0] = Live(0, on) /\ (d.sw.active[0] => f.sw.active[0])
        BY <4>5, <4>6, <4>12 DEF DonePhy, Stops
      <4>14. e = Failed(f)
        BY <3>4, <3>6, <3>11, <4>3, <4>5, <4>6, <4>7, <1>4 DEF SecondPhyDone
      <4>15. f \in Ctx
        BY <4>12 DEF OnlyPhy
      <4>16. e \in Ctx /\ e.err /\ Same(f, e) /\ e.fault = f.fault
        BY <4>14, <4>15, Flagged
      <4>17. OnlyPhys(d, f, masks)
        BY <1>0, <4>12, <4>13, OnePhy
      <4>18. \A x, y : Same(x, y) /\ y \in Ctx /\ FaultStep(x, y) => OnlyPhys(x, y, masks)
        BY DEF OnlyPhys, Same, SameActive, ActiveKept
      <4>19. OnlyPhys(b, d, masks) /\ OnlyPhys(f, e, masks)
        BY <4>4, <4>16, <4>18 DEF FaultStep
      <4>20. OnlyPhys(a, d, masks)
        BY <4>2, <4>19, OnlyPhysChain
      <4>21. OnlyPhys(a, f, masks)
        BY <4>17, <4>20, OnlyPhysChain
      <4>22. OnlyPhys(a, e, masks)
        BY <4>19, <4>21, OnlyPhysChain
      <4>23. OnlyPhys(c, e, masks)
        BY <2>3, <4>22, OnlyPhysChain
      <4>24. e.sw.enabled = f.sw.enabled
        BY <4>16 DEF Same, SameEnabled
      <4>25. \A q \in Pipes \ {0} : f.sw.enabled[q] = b.sw.enabled[q]
        BY <4>5, <4>12 DEF OnlyPhy
      <4>26. /\ \A q \in Pipes \ Phys : e.sw.enabled[q] = c.sw.enabled[q]
             /\ \A h \in Phys : e.sw.enabled[h] = Live(h, on)
        BY <3>0, <3>7, <4>1, <4>6, <4>13, <4>24, <4>25
      <4>27. Follow(e, on)
        BY <4>26, FollowAll
      <4> QED
        BY <1>5, <4>6, <4>16, <4>23, <4>27 DEF PhysEffect
    <3> QED
      BY <3>10, <3>11
  <2> QED
    BY <2>4, <2>5
<1> QED
  BY <1>7, <1>8

\* Going back to the streams that were on meets no fault.
LEMMA PhysGoBack ==
    ASSUME TypeOK, Orderly, NEW c \in Ctx, NEW old, Follow(c, old), ~c.err, NEW on, on = c.sw.on,
           Known(on), \A h \in Phys : PhyPassed(c, h, on)
    PROVE  LET e == UpdatePhys(c, on) IN
           OnlyPhys(c, e, on) /\ Follow(e, on) /\ ~e.err
<1>0. /\ 0 \in Phys /\ (scene.chip.phys = 1 => Phys = {0}) /\ (scene.chip.phys # 1 => Phys = {0, 1})
      /\ Phys \subseteq Pipes
  BY Chips DEF TypeOK
<1>1. PICK a : a = UpdatePhy(c, 0, on)
  OBVIOUS
<1>2. PhyEffect(c, a, 0, on)
  BY <1>0, <1>1, PhyUpdates
<1>3. Undisturbed(c, 0, on)
  BY <1>0 DEF Undisturbed
<1>4. ~a.err /\ OnlyPhy(c, a, 0) /\ DonePhy(c, a, 0, on)
  BY <1>2, <1>3 DEF PhyEffect
<1>5. /\ a.fault = c.fault /\ a.sw.enabled[0] = Live(0, on)
      /\ c.sw.active[0] /\ ~Stops(c, 0, on) => a.sw.active[0]
  BY <1>4 DEF DonePhy
<1>6. OnlyPhys(c, a, on)
  BY <1>0, <1>4, <1>5, OnePhy
<1>7. a \in Ctx /\ a.sw.on = c.sw.on /\ a.junk = c.junk
  BY <1>4, OnlyPhyParts
<1>8. PICK e : e = UpdatePhys(c, on)
  OBVIOUS
<1>9. e = FirstPhyDone(a, on)
  BY <1>1, <1>8 DEF UpdatePhys
<1>10. CASE scene.chip.phys = 1
  <2>1. e = a
    BY <1>9, <1>10 DEF FirstPhyDone
  <2>2. /\ \A q \in Pipes \ Phys : a.sw.enabled[q] = c.sw.enabled[q]
        /\ \A h \in Phys : a.sw.enabled[h] = Live(h, on)
    BY <1>0, <1>4, <1>5, <1>10 DEF OnlyPhy
  <2>3. Follow(a, on)
    BY <2>2, FollowAll
  <2> QED
    BY <1>4, <1>6, <1>8, <2>1, <2>3
<1>11. CASE scene.chip.phys # 1
  <2>0. Phys = {0, 1} /\ 0 \in Pipes \ {1} /\ 0 \in Phys \ {1} /\ 1 \in Phys /\ 1 \in Pipes \ {0}
        /\ 1 \in Phys \ {0}
    BY <1>0, <1>11
  <2>1. PICK b : b = UpdatePhy(a, 1, on)
    OBVIOUS
  <2>2. PhyEffect(a, b, 1, on)
    BY <1>4, <1>7, <2>0, <2>1, PhyUpdates
  <2>3. a.sw.enabled[1] = c.sw.enabled[1] /\ a.sw.mode[1] = c.sw.mode[1]
    BY <1>4, <2>0 DEF OnlyPhy
  <2>4. PhyPassed(c, 1, on) /\ ModeOf(a, 1) = ModeOf(c, 1)
    BY <1>7, <2>0, SameMode
  <2>5. PhyPassed(a, 1, on)
    BY <1>5, <2>3, <2>4 DEF PhyPassed
  <2>6. Undisturbed(a, 1, on)
    BY <1>7, <2>5 DEF Undisturbed
  <2>7. ~b.err /\ OnlyPhy(a, b, 1) /\ DonePhy(a, b, 1, on)
    BY <2>2, <2>6 DEF PhyEffect
  <2>8. /\ b.sw.enabled[1] = Live(1, on)
        /\ a.sw.active[1] /\ ~Stops(a, 1, on) => b.sw.active[1]
    BY <2>7 DEF DonePhy
  <2>9. OnlyPhys(a, b, on)
    BY <2>0, <2>7, <2>8, OnePhy
  <2>10. OnlyPhys(c, b, on)
    BY <1>6, <2>9, OnlyPhysChain
  <2>11. e = b
    BY <1>4, <1>9, <1>11, <2>1, <2>7 DEF FirstPhyDone, SecondPhyDone
  <2>12. /\ \A q \in Pipes \ Phys : b.sw.enabled[q] = c.sw.enabled[q]
         /\ b.sw.enabled[0] = a.sw.enabled[0]
    BY <1>4, <2>0, <2>7 DEF OnlyPhy
  <2>13. \A h \in Phys : b.sw.enabled[h] = Live(h, on)
    BY <1>5, <2>0, <2>8, <2>12
  <2>14. Follow(b, on)
    BY <2>12, <2>13, FollowAll
  <2> QED
    BY <1>8, <2>7, <2>10, <2>11, <2>14
<1> QED
  BY <1>10, <1>11

----------------------------------------------------------------------------
(* The channels a remapping chip assigns *)

\* Every pipe with a channel is the first of a PHY, and has one of its own.
Assigned(m, q) == m[q] # NoRemap
GoodRemaps(m) ==
    /\ Assigned(m, 0)
    /\ \A q \in Pipes : Assigned(m, q) => /\ q \in Phys /\ m[q].src = Channels[q]
                                          /\ m[q].dst \in Vcs
    /\ \A p, q \in Pipes : p # q /\ Assigned(m, p) /\ Assigned(m, q) => m[p].dst # m[q].dst
\* What was assigned stays.
Extends(m, n) == \A q \in Pipes : Assigned(m, q) => n[q] = m[q]

LEMMA AssignNextGood ==
    ASSUME TypeOK, Orderly, scene.chip.remap, NEW m \in Remapping, GoodRemaps(m),
           NEW table \in Tables, \A r \in Routes(table) : Resolves(r)
    PROVE  LET n == AssignNext(m, table) IN
           /\ n \in Remapping /\ GoodRemaps(n) /\ Extends(m, n)
           /\ \A r \in Routes(table) : Assigned(n, PipeOf(r))
<1>0. Phys = {0, 1} /\ Pipes = {0, 1, 2, 3} /\ Vcs = {0, 1, 2, 3}
  <2>1. 0 .. 3 = {0, 1, 2, 3}
    OBVIOUS
  <2> QED
    BY <2>1, Chips DEF TypeOK, Vcs
<1>1. PICK n \in Remapping : n = AssignNext(m, table)
  BY AssignNextTyped
<1>2. \A r \in Routes(table) : /\ PipeOf(r) \in Phys /\ Vc(r) = Channels[PipeOf(r)]
                               /\ Vc(r) \in Vcs /\ (r.pad = Tpg => PipeOf(r) = 0)
  <2>1. SUFFICES ASSUME NEW r \in Routes(table)
                 PROVE  /\ PipeOf(r) \in Phys /\ Vc(r) = Channels[PipeOf(r)]
                        /\ Vc(r) \in Vcs /\ (r.pad = Tpg => PipeOf(r) = 0)
    OBVIOUS
  <2> QED
    BY PipeOfRoute, ChannelKnown, VcTypes
<1>3. CASE NewRoutes(m, table) = {}
  <2>1. n = m
    BY <1>1, <1>3 DEF AssignNext
  <2>2. ASSUME NEW r \in Routes(table)
        PROVE  Assigned(m, PipeOf(r))
    <3>1. PICK k \in DOMAIN table : r = table[k]
      BY DEF Routes
    <3>2. r.pad # Tpg => m[PipeOf(r)] # NoRemap
      BY <1>3, <3>1 DEF NewRoutes
    <3> QED
      BY <1>2, <3>2 DEF Assigned, GoodRemaps
  <2> QED
    BY <1>1, <2>1, <2>2 DEF Extends
<1>4. CASE NewRoutes(m, table) # {}
  <2>1. NewRoutes(m, table) \in SUBSET Nat
    <3>0. ValidRouting(table, scene.chip)
      BY DefaultValid, SceneAssumption DEF TypeOK, Tables
    <3>1. DOMAIN table \subseteq Nat
      BY <3>0 DEF ValidRouting
    <3> QED
      BY <3>1 DEF NewRoutes
  <2>2. PICK k : k = Least(NewRoutes(m, table))
    OBVIOUS
  <2>3. k \in NewRoutes(m, table)
    BY <1>4, <2>1, <2>2, LeastNat
  <2>4. PICK r \in Routes(table) : r = table[k] /\ m[PipeOf(r)] = NoRemap
    BY <2>3 DEF NewRoutes, Routes
  <2>5. PICK q \in Phys : q = PipeOf(r)
    BY <1>2
  <2>6. q = 1 /\ ~Assigned(m, q)
    BY <1>0, <2>4, <2>5 DEF GoodRemaps, Assigned
  <2>7. PICK used : used = UsedVcs(m)
    OBVIOUS
  <2>8. \A p \in Pipes : Assigned(m, p) <=> p = 0
    BY <1>0, <2>6 DEF GoodRemaps
  <2>9. used = {m[0].dst} /\ m[0].dst \in Vcs
    BY <1>0, <2>7, <2>8 DEF UsedVcs, Assigned, GoodRemaps
  <2>10. PICK dst : dst = IF Vc(r) \in used THEN Least(Vcs \ used) ELSE Vc(r)
    OBVIOUS
  <2>11. dst \in Vcs /\ dst # m[0].dst
    <3>1. Vcs \ used # {} /\ Vcs \ used \in SUBSET {0, 1, 2, 3}
      BY <1>0, <2>9
    <3>2. Least(Vcs \ used) \in Vcs \ used
      BY <3>1, LeastFound
    <3> QED
      BY <1>2, <2>9, <2>10, <3>2
  <2>12. PICK v : v = [src |-> Vc(r), dst |-> dst]
    OBVIOUS
  <2>13. n = [m EXCEPT ![q] = v]
    BY <1>1, <1>4, <2>2, <2>4, <2>5, <2>7, <2>10, <2>12 DEF AssignNext, AssignTo
  <2>14. v.src = Channels[q] /\ v.dst = dst /\ v # NoRemap
    <3>1. v.src = Vc(r) /\ v.dst = dst
      BY <2>12
    <3>2. NoRemap.dst = -1 /\ -1 \notin Vcs
      BY <1>0 DEF NoRemap
    <3> QED
      BY <1>2, <2>5, <2>11, <3>1, <3>2
  <2>15. DOMAIN m = Pipes
    BY DEF Remapping
  <2>16. n[q] = v /\ \A p \in Pipes \ {q} : n[p] = m[p]
    BY <1>0, <2>5, <2>13, <2>15
  <2>17. \A p \in Pipes : Assigned(n, p) <=> p = 0 \/ p = 1
    BY <1>0, <2>6, <2>8, <2>14, <2>16 DEF Assigned
  <2>18. GoodRemaps(n)
    BY <1>0, <2>6, <2>8, <2>11, <2>14, <2>16, <2>17 DEF GoodRemaps
  <2>19. Extends(m, n)
    BY <2>6, <2>16 DEF Extends
  <2>20. \A t \in Routes(table) : Assigned(n, PipeOf(t))
    BY <1>0, <1>2, <2>17
  <2> QED
    BY <1>1, <2>18, <2>19, <2>20
<1> QED
  BY <1>3, <1>4

AssignEffect(m, n, table) ==
    /\ n \in Remapping /\ Extends(m, n)
    /\ scene.chip.remap /\ GoodRemaps(m) => GoodRemaps(n)
    /\ scene.chip.remap /\ GoodRemaps(m) /\ (\A r \in Routes(table) : Resolves(r)) =>
         \A r \in Routes(table) : Assigned(n, PipeOf(r))

LEMMA AssignGood ==
    ASSUME TypeOK, Orderly, NEW m \in Remapping, scene.chip.remap => GoodRemaps(m),
           NEW table \in Tables
    PROVE  AssignEffect(m, Assign(m, table), table)
<1>1. Extends(m, m) /\ \A k, l, n : Extends(k, l) /\ Extends(l, n) => Extends(k, n)
  BY DEF Extends, Assigned
<1>2. CASE ~scene.chip.remap \/ \E r \in Routes(table) : ~Resolves(r)
  <2>1. Assign(m, table) = m
    BY <1>2 DEF Assign
  <2> QED
    BY <1>1, <1>2, <2>1 DEF AssignEffect
<1>3. CASE ~(~scene.chip.remap \/ \E r \in Routes(table) : ~Resolves(r))
  <2>0. scene.chip.remap /\ \A r \in Routes(table) : Resolves(r)
    BY <1>3
  <2>1. PICK a : a = AssignNext(m, table)
    OBVIOUS
  <2>2. a \in Remapping /\ GoodRemaps(a) /\ Extends(m, a)
    BY <2>0, <2>1, AssignNextGood
  <2>3. PICK b : b = AssignNext(a, table)
    OBVIOUS
  <2>4. b \in Remapping /\ GoodRemaps(b) /\ Extends(a, b)
    BY <2>0, <2>2, <2>3, AssignNextGood
  <2>5. PICK c : c = AssignNext(b, table)
    OBVIOUS
  <2>6. c \in Remapping /\ GoodRemaps(c) /\ Extends(b, c)
    BY <2>0, <2>4, <2>5, AssignNextGood
  <2>7. PICK d : d = AssignNext(c, table)
    OBVIOUS
  <2>8. d \in Remapping /\ GoodRemaps(d) /\ Extends(c, d)
        /\ \A r \in Routes(table) : Assigned(d, PipeOf(r))
    BY <2>0, <2>6, <2>7, AssignNextGood
  <2>9. Assign(m, table) = d
    BY <1>3, <2>1, <2>3, <2>5, <2>7 DEF Assign
  <2>10. Extends(m, d)
    BY <1>1, <2>2, <2>4, <2>6, <2>8
  <2> QED
    BY <2>0, <2>8, <2>9, <2>10 DEF AssignEffect
<1> QED
  BY <1>2, <1>3

----------------------------------------------------------------------------
(* The way back of a request that fails *)

\* The pattern is on only when it is remembered as on, and the other way round
\* unless its pipe was on when the system was suspended.
TpgAgree(c) == (c.hw.tpg => c.sw.tpg) /\ (0 \notin stale.pipes => (c.sw.tpg => c.hw.tpg))
\* The pipes whose frames change their channel send on the one assigned.
Softly(c) ==
    /\ ~scene.chip.remap => c.hw.softEnable = {} /\ \A q \in Pipes : ~Assigned(c.sw.remaps, q)
    /\ scene.chip.remap => /\ GoodRemaps(c.sw.remaps)
                           /\ c.hw.softEnable \subseteq Moved(c.sw.remaps)
                           /\ \A q \in c.hw.softEnable : c.hw.soft[q] = c.sw.remaps[q].dst
SoftKept(c, e) ==
    Softly(c) => /\ Softly(e) /\ Extends(c.sw.remaps, e.sw.remaps)
                 /\ c.hw.softEnable \subseteq e.hw.softEnable

\* What every call keeps.
Follows(c, e, masks) ==
    /\ e \in Ctx /\ SameRest(c, e) /\ FaultStep(c, e) /\ ActiveKept(c, e, masks)
    /\ TpgAgree(c) => TpgAgree(e)
    /\ SoftKept(c, e)

LEMMA FollowsChain ==
    ASSUME NEW c, NEW d, NEW e, NEW masks, Follows(c, d, masks), Follows(d, e, masks)
    PROVE  Follows(c, e, masks)
<1>1. SameRest(c, e) /\ FaultStep(c, e)
  BY PartsChain, Chain DEF Follows
<1>2. d.sw.on = c.sw.on
  BY DEF Follows, SameRest
<1>3. ActiveKept(c, e, masks)
  BY <1>2 DEF Follows, ActiveKept, Stops
<1>4. SoftKept(c, e)
  <2>1. \A k, l, n : Extends(k, l) /\ Extends(l, n) => Extends(k, n)
    BY DEF Extends, Assigned
  <2> QED
    BY <2>1 DEF Follows, SoftKept
<1> QED
  BY <1>1, <1>3, <1>4 DEF Follows

\* Calls that leave the pattern, the PHYs or the channels alone keep them.
LEMMA FollowsParts ==
    ASSUME NEW c, NEW e, NEW masks
    PROVE  /\ SameTpg(c, e) => (TpgAgree(c) => TpgAgree(e))
           /\ SamePipes(c, e) => ActiveKept(c, e, masks)
           /\ SameRemaps(c, e) => SoftKept(c, e)
<1>1. SameTpg(c, e) => (TpgAgree(c) => TpgAgree(e))
  BY DEF SameTpg, TpgAgree
<1>2. SamePipes(c, e) => ActiveKept(c, e, masks)
  BY DEF SamePipes, SameActive, ActiveKept
<1>3. SameRemaps(c, e) => SoftKept(c, e)
  BY DEF SameRemaps, SoftKept, Softly, Extends
<1> QED
  BY <1>1, <1>2, <1>3

LEMMA FollowsSame ==
    ASSUME NEW c, NEW e \in Ctx, NEW masks, Same(c, e), FaultStep(c, e)
    PROVE  Follows(c, e, masks)
BY FollowsParts, SameParts DEF Follows

\* What is needed to put the cameras back, the pattern, and the pipes.
CamsBack(c, rs, on) ==
    \A h \in Phys : IF on THEN c.cam[h] = c.sw.on[h]
                    ELSE /\ c.cam[h] = c.sw.on[h] \ Sinks(rs, h)
                         /\ Sinks(rs, h) \subseteq c.sw.on[h]
                         /\ c.fault = <<"cam", h>> => Sinks(rs, h) = {}
TpgBack(c) == Known(c.sw.on) /\ (c.fault = <<"tpg">> => c.sw.tpg = TpgOn(c.sw.on))
PhysBack(c) == \A h \in Phys : PhyPassed(c, h, c.sw.on)

\* A request that failed left the streams as they were.
Undone(c, e, masks) ==
    /\ Follows(c, e, masks) /\ e.err /\ Follow(e, c.sw.on) /\ e.sw.tpg = TpgOn(c.sw.on)
    /\ \A h \in Phys : e.cam[h] = c.sw.on[h]

LEMMA UndoneFrom ==
    ASSUME NEW c, NEW d, NEW e, NEW masks, Follows(c, d, masks), Undone(d, e, masks)
    PROVE  Undone(c, e, masks)
<1>1. d.sw.on = c.sw.on
  BY DEF Follows, SameRest
<1>2. Follows(c, e, masks)
  BY FollowsChain DEF Undone
<1> QED
  BY <1>1, <1>2 DEF Undone

LEMMA CamsRevert ==
    ASSUME TypeOK, NEW c \in Ctx, NEW rs \in SUBSET Routes(routing), NEW on \in BOOLEAN, NEW masks,
           CamsBack(c, rs, on), Follow(c, c.sw.on), c.sw.tpg = TpgOn(c.sw.on)
    PROVE  Undone(c, RevertCams(c, rs, on), masks)
<1>1. PICK e : e = RevertCams(c, rs, on)
  OBVIOUS
<1>2. CASE on
  <2>1. e = Failed(c)
    BY <1>1, <1>2 DEF RevertCams
  <2>2. e \in Ctx /\ Same(c, e) /\ e.err /\ e.fault = c.fault
    BY <2>1, Flagged
  <2>3. Follows(c, e, masks)
    BY <2>2, FollowsSame DEF FaultStep
  <2>4. e.sw.enabled = c.sw.enabled /\ e.sw.tpg = c.sw.tpg /\ e.cam = c.cam
    BY <2>2 DEF Same, SameEnabled, SameAround, SameTpg, SameCams
  <2> QED
    BY <1>1, <1>2, <2>2, <2>3, <2>4 DEF Undone, Follow, CamsBack
<1>3. CASE ~on
  <2>1. PICK d : d = Cleared(c)
    OBVIOUS
  <2>2. d \in Ctx /\ Same(c, d) /\ ~d.err /\ d.fault = c.fault
    BY <2>1, Flagged
  <2>3. PICK up \in BOOLEAN : up = TRUE
    OBVIOUS
  <2>4. PICK a : a = UpdateCams(d, rs, up)
    OBVIOUS
  <2>5. /\ BesideCams(d, a) /\ FaultStep(d, a)
        /\ ~a.err => CamsMoved(d, a, rs, up)
        /\ a.err => \E h \in Phys : d.fault = <<"cam", h>> /\ Sinks(rs, h) # {}
    BY <2>2, <2>4, CamsUpdates
  <2>6. ~a.err
    BY <1>3, <2>2, <2>5 DEF CamsBack
  <2>7. PICK f : f = Failed(a)
    OBVIOUS
  <2>8. a \in Ctx
    BY <2>5 DEF BesideCams
  <2>9. f \in Ctx /\ Same(a, f) /\ f.err /\ f.fault = a.fault
    BY <2>7, <2>8, Flagged
  <2>10. e = f
    BY <1>1, <1>3, <2>1, <2>3, <2>4, <2>7 DEF RevertCams
  <2>11. Follows(c, d, masks) /\ Follows(a, f, masks)
    BY <2>2, <2>9, FollowsSame DEF FaultStep
  <2>12. Follows(d, a, masks)
    BY <2>5, <2>8, FollowsParts DEF BesideCams, Follows
  <2>13. Follows(c, f, masks)
    BY <2>11, <2>12, FollowsChain
  <2>14. f.sw.enabled = c.sw.enabled /\ f.sw.tpg = c.sw.tpg /\ f.cam = a.cam /\ d.cam = c.cam
    BY <2>2, <2>5, <2>9 DEF Same, SameEnabled, SameAround, SameTpg, SameCams, BesideCams, SamePipes
  <2>15. \A h \in Phys : f.cam[h] = c.sw.on[h]
    BY <1>3, <2>3, <2>5, <2>6, <2>14 DEF CamsMoved, Switched, CamsBack
  <2> QED
    BY <1>1, <2>9, <2>10, <2>13, <2>14, <2>15 DEF Undone, Follow
<1> QED
  BY <1>2, <1>3

LEMMA TpgRevert ==
    ASSUME TypeOK, NEW c \in Ctx, NEW rs \in SUBSET Routes(routing), NEW on \in BOOLEAN, NEW masks,
           CamsBack(c, rs, on), Follow(c, c.sw.on), TpgBack(c)
    PROVE  Undone(c, RevertCams(RevertTpg(c), rs, on), masks)
<1>1. PICK d : d = Cleared(c)
  OBVIOUS
<1>2. d \in Ctx /\ Same(c, d) /\ ~d.err /\ d.fault = c.fault
  BY <1>1, Flagged
<1>3. PICK old : old = c.sw.on
  OBVIOUS
<1>4. d.sw.on = old /\ d.sw.tpg = c.sw.tpg /\ d.cam = c.cam /\ d.sw.enabled = c.sw.enabled
  BY <1>2, <1>3 DEF Same, SameEnabled, SameAround, SameTpg, SameCams, SameRest
<1>5. PICK a : a = UpdateTpg(d, old)
  OBVIOUS
<1>6. /\ a \in Ctx /\ SamePipes(d, a) /\ SameRemaps(d, a) /\ SameCams(d, a) /\ SameRest(d, a)
      /\ FaultStep(d, a)
      /\ a.err => ~Known(old) \/ (d.fault = <<"tpg">> /\ d.sw.tpg # TpgOn(old))
      /\ ~a.err => /\ a.sw.tpg = TpgOn(old)
                   /\ a.hw.tpg = IF d.sw.tpg = TpgOn(old) THEN d.hw.tpg ELSE TpgOn(old)
  BY <1>2, <1>5, TpgUpdates
<1>7. ~a.err
  BY <1>2, <1>3, <1>4, <1>6 DEF TpgBack
<1>8. TpgAgree(d) => TpgAgree(a)
  BY <1>6, <1>7 DEF TpgAgree
<1>9. Follows(d, a, masks)
  BY <1>6, <1>8, FollowsParts DEF Follows
<1>10. Follows(c, d, masks)
  BY <1>2, FollowsSame DEF FaultStep
<1>11. Follows(c, a, masks)
  BY <1>9, <1>10, FollowsChain
<1>12. a = RevertTpg(c)
  BY <1>1, <1>3, <1>4, <1>5 DEF RevertTpg
<1>13. /\ a.sw.on = old /\ a.cam = c.cam /\ a.sw.enabled = c.sw.enabled
       /\ a.fault = c.fault \/ a.fault = NoFault
  BY <1>2, <1>4, <1>6 DEF SameCams, SameRest, SamePipes, SameEnabled, FaultStep
<1>14. CamsBack(a, rs, on)
  BY <1>3, <1>13, NoFaultIsNone DEF CamsBack
<1>15. Follow(a, a.sw.on) /\ a.sw.tpg = TpgOn(a.sw.on)
  BY <1>3, <1>6, <1>7, <1>13 DEF Follow
<1>16. PICK e : e = RevertCams(a, rs, on)
  OBVIOUS
<1>17. Undone(a, e, masks)
  BY <1>6, <1>14, <1>15, <1>16, CamsRevert
<1>18. Undone(c, e, masks)
  BY <1>11, <1>17, UndoneFrom
<1> QED
  BY <1>12, <1>16, <1>18

LEMMA PhysRevert ==
    ASSUME TypeOK, Orderly, NEW c \in Ctx, NEW rs \in SUBSET Routes(routing), NEW on \in BOOLEAN,
           NEW masks, NEW new, CamsBack(c, rs, on), Follow(c, new), TpgBack(c), PhysBack(c)
    PROVE  Undone(c, RevertCams(RevertTpg(RevertPhys(c)), rs, on), masks)
<1>1. PICK d : d = Cleared(c)
  OBVIOUS
<1>2. d \in Ctx /\ Same(c, d) /\ ~d.err /\ d.fault = c.fault
  BY <1>1, Flagged
<1>3. PICK old : old = c.sw.on
  OBVIOUS
<1>4. /\ d.sw.on = old /\ d.sw.tpg = c.sw.tpg /\ d.cam = c.cam /\ d.sw.enabled = c.sw.enabled
      /\ d.sw.mode = c.sw.mode /\ d.junk = c.junk
  BY <1>2, <1>3 DEF Same, SameEnabled, SameSettings, SameAround, SameTpg, SameCams, SameRest
<1>5. \A h \in Phys : PhyPassed(d, h, old)
  BY <1>2, <1>3, <1>4, SameMode DEF PhysBack, PhyPassed
<1>6. Follow(d, new) /\ Known(old)
  BY <1>3, <1>4 DEF Follow, TpgBack
<1>7. PICK a : a = UpdatePhys(d, old)
  OBVIOUS
<1>8. OnlyPhys(d, a, old) /\ Follow(a, old)
  BY <1>2, <1>4, <1>5, <1>6, <1>7, PhysGoBack
<1>9. a \in Ctx /\ SameAround(d, a) /\ FaultStep(d, a) /\ ActiveKept(d, a, old)
  BY <1>8 DEF OnlyPhys
<1>10. /\ SameTpg(d, a) /\ SameRemaps(d, a) /\ SameCams(d, a) /\ SameRest(d, a)
  BY <1>9, SameParts
<1>11. ActiveKept(d, a, masks)
  BY <1>4, <1>9 DEF ActiveKept, Stops
<1>12. Follows(d, a, masks)
  BY <1>9, <1>10, <1>11, FollowsParts DEF Follows
<1>13. Follows(c, d, masks)
  BY <1>2, FollowsSame DEF FaultStep
<1>14. Follows(c, a, masks)
  BY <1>12, <1>13, FollowsChain
<1>15. a = RevertPhys(c)
  BY <1>1, <1>3, <1>4, <1>7 DEF RevertPhys
<1>16. /\ a.sw.on = old /\ a.cam = c.cam /\ a.sw.tpg = c.sw.tpg
       /\ a.fault = c.fault \/ a.fault = NoFault
  BY <1>2, <1>4, <1>9, <1>10 DEF SameCams, SameRest, SameTpg, FaultStep
<1>17. CamsBack(a, rs, on)
  BY <1>3, <1>16, NoFaultIsNone DEF CamsBack
<1>18. TpgBack(a)
  BY <1>3, <1>16, NoFaultIsNone DEF TpgBack
<1>19. Follow(a, a.sw.on)
  BY <1>8, <1>16
<1>20. PICK e : e = RevertCams(RevertTpg(a), rs, on)
  OBVIOUS
<1>21. Undone(a, e, masks)
  BY <1>9, <1>17, <1>18, <1>19, <1>20, TpgRevert
<1>22. Undone(c, e, masks)
  BY <1>14, <1>21, UndoneFrom
<1> QED
  BY <1>15, <1>20, <1>22

\* Writing the channels assigns more of them and takes none back.
RemapsDone(e) ==
    scene.chip.remap /\ (\A r \in Routes(routing) : Resolves(r)) =>
      /\ \A r \in Routes(routing) : Assigned(e.sw.remaps, PipeOf(r))
      /\ e.hw.softEnable = Moved(e.sw.remaps)

LEMMA RemapsFollow ==
    ASSUME TypeOK, Orderly, NEW c \in Ctx, NEW masks, Softly(c), ~c.err
    PROVE  LET e == UpdateVcRemaps(c) IN
           /\ Follows(c, e, masks) /\ BesideRemaps(c, e) /\ (~e.err => RemapsDone(e))
<1>1. PICK e : e = UpdateVcRemaps(c)
  OBVIOUS
<1>2. RemapEffect(c, e)
  BY <1>1, RemapUpdates
<1>3. BesideRemaps(c, e) /\ FaultStep(c, e)
  BY <1>2 DEF RemapEffect
<1>4. e \in Ctx /\ SamePipes(c, e) /\ SameTpg(c, e) /\ SameRest(c, e)
  BY <1>3 DEF BesideRemaps
<1>5. SoftKept(c, e) /\ (~e.err => RemapsDone(e))
  <2>1. CASE ~scene.chip.remap
    <3>1. e = c
      BY <1>2, <2>1 DEF RemapEffect
    <3> QED
      BY <2>1, <3>1, SameItself, FollowsParts DEF RemapsDone
  <2>2. CASE scene.chip.remap
    <3>1. PICK m \in Remapping : m = c.sw.remaps
      BY DEF Ctx, Memory, Remapping
    <3>2. GoodRemaps(m) /\ c.hw.softEnable \subseteq Moved(m)
          /\ \A q \in c.hw.softEnable : c.hw.soft[q] = m[q].dst
      BY <2>2, <3>1 DEF Softly
    <3>3. PICK n : n = Assign(m, routing)
      OBVIOUS
    <3>4. AssignEffect(m, n, routing)
      BY <3>2, <3>3, AssignGood, RoutingKnown
    <3>5. /\ n \in Remapping /\ Extends(m, n) /\ GoodRemaps(n)
          /\ (\A r \in Routes(routing) : Resolves(r)) =>
               \A r \in Routes(routing) : Assigned(n, PipeOf(r))
      BY <2>2, <3>2, <3>4 DEF AssignEffect
    <3>6. /\ e.sw.remaps = n
          /\ e.err => e.hw.softEnable = c.hw.softEnable
          /\ ~e.err => e.hw.softEnable = Moved(n) /\ \A q \in Moved(n) : e.hw.soft[q] = n[q].dst
          /\ \A q \in Pipes : \/ e.hw.soft[q] = c.hw.soft[q]
                              \/ q \in Moved(n) /\ e.hw.soft[q] = n[q].dst
      BY <1>2, <2>2, <3>1, <3>3 DEF RemapEffect
    <3>7. Moved(m) \subseteq Moved(n) /\ \A q \in Moved(m) : n[q] = m[q]
      BY <3>5 DEF Moved, Extends, Assigned
    <3>8. Moved(m) \subseteq Pipes
      BY DEF Moved
    <3>9. \A q \in c.hw.softEnable : e.hw.soft[q] = n[q].dst
      BY <3>2, <3>6, <3>7, <3>8
    <3>10. e.hw.softEnable \subseteq Moved(n) /\ c.hw.softEnable \subseteq e.hw.softEnable
           /\ \A q \in e.hw.softEnable : e.hw.soft[q] = n[q].dst
      BY <3>2, <3>6, <3>7, <3>9
    <3>11. Softly(e)
      BY <2>2, <3>5, <3>6, <3>10 DEF Softly
    <3>12. SoftKept(c, e)
      BY <3>1, <3>5, <3>6, <3>10, <3>11 DEF SoftKept
    <3>13. ~e.err => RemapsDone(e)
      BY <3>5, <3>6 DEF RemapsDone
    <3> QED
      BY <3>12, <3>13
  <2> QED
    BY <2>1, <2>2
<1>6. Follows(c, e, masks)
  BY <1>3, <1>4, <1>5, FollowsParts DEF Follows
<1> QED
  BY <1>1, <1>3, <1>5, <1>6

LEMMA RemapsRevert ==
    ASSUME TypeOK, Orderly, NEW c \in Ctx, NEW rs \in SUBSET Routes(routing), NEW on \in BOOLEAN,
           NEW masks, NEW new, CamsBack(c, rs, on), Follow(c, new), TpgBack(c), PhysBack(c), Softly(c)
    PROVE  Undone(c, RevertCams(RevertTpg(RevertPhys(RevertRemaps(c))), rs, on), masks)
<1>1. PICK d : d = Cleared(c)
  OBVIOUS
<1>2. d \in Ctx /\ Same(c, d) /\ ~d.err /\ d.fault = c.fault
  BY <1>1, Flagged
<1>3. Follows(c, d, masks)
  BY <1>2, FollowsSame DEF FaultStep
<1>4. Softly(d)
  BY <1>3 DEF Follows, SoftKept
<1>5. PICK a : a = UpdateVcRemaps(d)
  OBVIOUS
<1>6. Follows(d, a, masks) /\ BesideRemaps(d, a)
  BY <1>2, <1>4, <1>5, RemapsFollow
<1>7. Follows(c, a, masks)
  BY <1>3, <1>6, FollowsChain
<1>8. a \in Ctx /\ (a.fault = c.fault \/ a.fault = NoFault)
  BY <1>2, <1>6 DEF Follows, FaultStep
<1>9. /\ a.sw.on = c.sw.on /\ a.cam = c.cam /\ a.sw.tpg = c.sw.tpg /\ a.sw.enabled = c.sw.enabled
      /\ a.sw.mode = c.sw.mode /\ a.junk = c.junk
  BY <1>2, <1>6 DEF BesideRemaps, Same, SamePipes, SameEnabled, SameSettings, SameAround, SameTpg,
     SameCams, SameRest
<1>10. CamsBack(a, rs, on)
  BY <1>8, <1>9, NoFaultIsNone DEF CamsBack
<1>11. TpgBack(a)
  BY <1>8, <1>9, NoFaultIsNone DEF TpgBack
<1>12. Follow(a, new)
  BY <1>9 DEF Follow
<1>13. PhysBack(a)
  BY <1>8, <1>9, NoFaultIsNone, SameMode DEF PhysBack, PhyPassed
<1>14. a = RevertRemaps(c)
  BY <1>1, <1>5 DEF RevertRemaps
<1>15. PICK e : e = RevertCams(RevertTpg(RevertPhys(a)), rs, on)
  OBVIOUS
<1>16. Undone(a, e, masks)
  BY <1>8, <1>10, <1>11, <1>12, <1>13, <1>15, PhysRevert
<1>17. Undone(c, e, masks)
  BY <1>7, <1>16, UndoneFrom
<1> QED
  BY <1>14, <1>15, <1>17

----------------------------------------------------------------------------
(* A request, all the way *)

\* The streams that are on flow.
Flowing(c) ==
    /\ Known(c.sw.on) /\ Follow(c, c.sw.on) /\ c.sw.tpg = TpgOn(c.sw.on) /\ Softly(c)
    /\ \A h \in Phys : c.cam[h] = c.sw.on[h]
\* The request is for streams that are off, or on.
Asks(c, masks, rs, on) ==
    /\ Switchable(c, rs, on)
    /\ \A h \in Phys : masks[h] = Switched(c.sw.on[h], rs, h, on)

\* A request carried out, but for the last assignment.
Done(c, e, masks) ==
    /\ Follows(c, e, masks) /\ ~e.err /\ Known(masks) /\ Follow(e, masks)
    /\ e.sw.tpg = TpgOn(masks) /\ RemapsDone(e)
    /\ \A h \in Phys : PipeKnown(h) /\ e.cam[h] = masks[h] /\ (Starts(c, h, masks) => e.sw.active[h])

StreamsOutcome(c, e, masks) ==
    \/ Undone(c, e, masks)
    \/ \E d : Done(c, d, masks) /\ e = [d EXCEPT !.sw.on = masks]

LEMMA RequestDone ==
    ASSUME TypeOK, Orderly, NEW c \in Ctx, ~c.err, Flowing(c), NEW streams, NEW on \in BOOLEAN,
           Asks(c, NewMasks(streams, on), Requested(streams), on)
    PROVE  StreamsOutcome(c, UpdateStreams(c, streams, on), NewMasks(streams, on))
<1>1. PICK masks : masks = NewMasks(streams, on)
  OBVIOUS
<1>2. PICK rs \in SUBSET Routes(routing) : rs = Requested(streams)
  BY DEF Requested
<1>3. PICK old : old = c.sw.on
  OBVIOUS
<1>4. PICK e : e = UpdateStreams(c, streams, on)
  OBVIOUS
<1>5. Switchable(c, rs, on) /\ \A h \in Phys : masks[h] = Switched(old[h], rs, h, on)
  BY <1>1, <1>2, <1>3 DEF Asks
<1>6. /\ Known(old) /\ Follow(c, old) /\ c.sw.tpg = TpgOn(old) /\ Softly(c)
      /\ \A h \in Phys : c.cam[h] = old[h]
  BY <1>3 DEF Flowing
\* The cameras, on the way down.
<1>7. PICK a : a = IF on THEN c ELSE UpdateCams(c, rs, FALSE)
  OBVIOUS
<1>8. e = CamsStopped(a, masks, rs, on)
  BY <1>1, <1>2, <1>4, <1>7 DEF UpdateStreams
<1>9. /\ BesideCams(c, a) /\ FaultStep(c, a)
      /\ a.err => \A h \in Phys : a.cam[h] = old[h]
      /\ ~a.err => /\ a.fault = c.fault /\ CamsBack(a, rs, on)
                   /\ \A h \in Phys : a.cam[h] = IF on THEN old[h] ELSE masks[h]
  <2>1. CASE on
    <3>1. a = c
      BY <1>7, <2>1
    <3> QED
      BY <1>3, <1>6, <2>1, <3>1, SameItself DEF BesideCams, CamsBack
  <2>2. CASE ~on
    <3>1. PICK off \in BOOLEAN : off = FALSE
      OBVIOUS
    <3>2. a = UpdateCams(c, rs, off) /\ on = off
      BY <1>7, <2>2, <3>1
    <3>3. /\ BesideCams(c, a) /\ FaultStep(c, a)
          /\ ~a.err => /\ a.fault = c.fault /\ CamsMoved(c, a, rs, off)
                       /\ \A h \in Phys : c.fault = <<"cam", h>> => Sinks(rs, h) = {}
          /\ a.err => (Switchable(c, rs, off) => SameCams(c, a))
      BY <3>2, CamsUpdates
    <3>4. \A h \in Phys : Sinks(rs, h) \subseteq old[h] /\ masks[h] = old[h] \ Sinks(rs, h)
      BY <1>5, <1>6, <2>2 DEF Switchable, Switched
    <3>5. a.sw.on = old
      BY <1>3, <3>3 DEF BesideCams, SameRest
    <3>6. ~a.err => \A h \in Phys : a.cam[h] = old[h] \ Sinks(rs, h)
      BY <1>6, <3>1, <3>3 DEF CamsMoved, Switched
    <3>7. ~a.err => CamsBack(a, rs, on)
      BY <2>2, <3>3, <3>4, <3>5, <3>6 DEF CamsBack
    <3>8. a.err => \A h \in Phys : a.cam[h] = old[h]
      BY <1>5, <1>6, <3>2, <3>3 DEF SameCams
    <3> QED
      BY <2>2, <3>3, <3>4, <3>6, <3>7, <3>8
  <2> QED
    BY <2>1, <2>2
<1>10. a \in Ctx /\ SamePipes(c, a) /\ SameTpg(c, a) /\ SameRemaps(c, a) /\ SameRest(c, a)
  BY <1>9 DEF BesideCams
<1>11. Follows(c, a, masks)
  BY <1>9, <1>10, FollowsParts DEF Follows
<1>12. a.sw.on = old /\ a.sw.tpg = TpgOn(old) /\ a.sw.enabled = c.sw.enabled /\ Follow(a, old)
  BY <1>3, <1>6, <1>10 DEF SameRest, SameTpg, SamePipes, SameEnabled, Follow
<1>13. CASE a.err
  <2>1. e = a
    BY <1>8, <1>13 DEF CamsStopped
  <2>2. Undone(c, a, masks)
    BY <1>3, <1>9, <1>11, <1>12, <1>13 DEF Undone
  <2> QED
    BY <1>1, <1>4, <2>1, <2>2 DEF StreamsOutcome
<1>14. CASE ~a.err
  \* The test pattern.
  <2>1. PICK b : b = UpdateTpg(a, masks)
    OBVIOUS
  <2>2. e = TpgUpdated(b, masks, rs, on)
    BY <1>8, <1>14, <2>1 DEF CamsStopped
  <2>3. /\ b \in Ctx /\ SamePipes(a, b) /\ SameRemaps(a, b) /\ SameCams(a, b) /\ SameRest(a, b)
        /\ FaultStep(a, b)
        /\ b.err => SameTpg(a, b)
        /\ ~b.err => /\ Known(masks) /\ b.fault = a.fault
                     /\ a.fault = <<"tpg">> => a.sw.tpg = TpgOn(masks)
                     /\ b.sw.tpg = TpgOn(masks)
                     /\ b.hw.tpg = IF a.sw.tpg = TpgOn(masks) THEN a.hw.tpg ELSE TpgOn(masks)
    BY <1>10, <1>14, <2>1, TpgUpdates
  <2>4. TpgAgree(a) => TpgAgree(b)
    BY <2>3, FollowsParts DEF TpgAgree
  <2>5. Follows(a, b, masks)
    BY <2>3, <2>4, FollowsParts DEF Follows
  <2>6. Follows(c, b, masks)
    BY <1>11, <2>5, FollowsChain
  <2>7. /\ b.sw.on = old /\ b.cam = a.cam /\ b.sw.enabled = a.sw.enabled /\ Follow(b, old)
        /\ b.fault = a.fault \/ b.fault = NoFault
    BY <1>12, <2>3 DEF SameRest, SamePipes, SameEnabled, SameCams, Follow, FaultStep
  <2>8. CamsBack(b, rs, on)
    BY <1>9, <1>12, <1>14, <2>7, NoFaultIsNone DEF CamsBack
  <2>9. CASE b.err
    <3>1. e = RevertCams(b, rs, on)
      BY <2>2, <2>9 DEF TpgUpdated
    <3>2. b.sw.tpg = TpgOn(b.sw.on) /\ Follow(b, b.sw.on)
      BY <1>12, <2>3, <2>7, <2>9 DEF SameTpg
    <3>3. Undone(b, e, masks)
      BY <2>3, <2>8, <3>1, <3>2, CamsRevert
    <3>4. Undone(c, e, masks)
      BY <2>6, <3>3, UndoneFrom
    <3> QED
      BY <1>1, <1>4, <3>4 DEF StreamsOutcome
  <2>10. CASE ~b.err
    \* The pipes and PHYs.
    <3>1. TpgBack(b) /\ Known(masks) /\ b.sw.tpg = TpgOn(masks)
      BY <1>6, <1>12, <2>3, <2>7, <2>10 DEF TpgBack
    <3>2. PICK d : d = UpdatePhys(b, masks)
      OBVIOUS
    <3>3. e = PhysUpdated(d, masks, rs, on)
      BY <2>2, <2>10, <3>2 DEF TpgUpdated
    <3>4. PhysEffect(b, d, masks)
      BY <1>6, <2>3, <2>7, <2>10, <3>2, PhysUpdates
    <3>5. d \in Ctx /\ SameAround(b, d) /\ FaultStep(b, d) /\ ActiveKept(b, d, masks)
      BY <3>4 DEF PhysEffect, OnlyPhys
    <3>6. SameTpg(b, d) /\ SameRemaps(b, d) /\ SameCams(b, d) /\ SameRest(b, d)
      BY <3>5, SameParts
    <3>7. Follows(b, d, masks)
      BY <3>5, <3>6, FollowsParts DEF Follows
    <3>8. Follows(c, d, masks)
      BY <2>6, <3>7, FollowsChain
    <3>9. /\ d.sw.on = old /\ d.cam = a.cam /\ d.sw.tpg = TpgOn(masks) /\ d.junk = b.junk
          /\ d.fault = b.fault \/ d.fault = NoFault
      BY <2>7, <3>1, <3>5, <3>6 DEF SameRest, SameCams, SameTpg, FaultStep
    <3>10. CamsBack(d, rs, on)
      BY <2>7, <2>8, <3>9, NoFaultIsNone DEF CamsBack
    <3>11. TpgBack(d)
      BY <2>7, <3>1, <3>9, NoFaultIsNone DEF TpgBack
    <3>12. CASE d.err
      <4>1. e = RevertCams(RevertTpg(d), rs, on)
        BY <3>3, <3>12 DEF PhysUpdated
      <4>2. Follow(d, d.sw.on)
        BY <2>7, <3>4, <3>9, <3>12 DEF PhysEffect
      <4>3. Undone(d, e, masks)
        BY <3>5, <3>10, <3>11, <4>1, <4>2, TpgRevert
      <4>4. Undone(c, e, masks)
        BY <3>8, <4>3, UndoneFrom
      <4> QED
        BY <1>1, <1>4, <4>4 DEF StreamsOutcome
    <3>13. CASE ~d.err
      \* The channels.
      <4>1. /\ d.fault = b.fault /\ Follow(d, masks)
            /\ \A h \in Phys : /\ PhyPassed(b, h, masks) /\ d.sw.mode[h] = ModeOf(b, h)
                               /\ Starts(b, h, masks) => d.sw.active[h]
        BY <3>4, <3>13 DEF PhysEffect
      <4>2. PhysBack(d)
        <5>1. Phys \subseteq Pipes
          BY Chips DEF TypeOK
        <5>2. SUFFICES ASSUME NEW h \in Phys
                       PROVE  PhyPassed(d, h, old)
          BY <3>9 DEF PhysBack
        <5>3. d.sw.mode[h] = ModeOf(d, h)
          BY <3>9, <4>1, SameMode
        <5>4. b.sw.enabled[h] = Live(h, old) /\ d.sw.enabled[h] = Live(h, masks)
          BY <2>7, <4>1, <5>1 DEF Follow
        <5> QED
          BY <4>1, <5>3, <5>4 DEF PhyPassed
      <4>3. \A h \in Phys : PipeKnown(h) /\ (Starts(c, h, masks) => d.sw.active[h])
        BY <1>3, <2>7, <4>1 DEF PhyPassed, Starts
      <4>4. PICK f : f = UpdateVcRemaps(d)
        OBVIOUS
      <4>5. e = RemapsUpdated(f, masks, rs, on)
        BY <3>3, <3>13, <4>4 DEF PhysUpdated
      <4>6. Softly(d)
        BY <1>6, <3>8 DEF Follows, SoftKept
      <4>7. Follows(d, f, masks) /\ BesideRemaps(d, f) /\ (~f.err => RemapsDone(f))
        BY <3>5, <3>13, <4>4, <4>6, RemapsFollow
      <4>8. Follows(c, f, masks)
        BY <3>8, <4>7, FollowsChain
      <4>9. f \in Ctx /\ (f.fault = d.fault \/ f.fault = NoFault)
        BY <4>7 DEF Follows, FaultStep
      <4>10. /\ f.sw.on = old /\ f.cam = d.cam /\ f.sw.tpg = d.sw.tpg
             /\ f.sw.enabled = d.sw.enabled /\ f.sw.mode = d.sw.mode /\ f.sw.active = d.sw.active
             /\ f.junk = d.junk
        BY <3>9, <4>7 DEF BesideRemaps, SamePipes, SameEnabled, SameActive, SameSettings, SameTpg,
           SameCams, SameRest
      <4>11. CamsBack(f, rs, on)
        BY <3>9, <3>10, <4>9, <4>10, NoFaultIsNone DEF CamsBack
      <4>12. TpgBack(f)
        BY <3>9, <3>11, <4>9, <4>10, NoFaultIsNone DEF TpgBack
      <4>13. PhysBack(f)
        BY <3>9, <4>2, <4>9, <4>10, NoFaultIsNone, SameMode DEF PhysBack, PhyPassed
      <4>14. Follow(f, masks)
        BY <4>1, <4>10 DEF Follow
      <4>15. CASE f.err
        <5>1. e = RevertCams(RevertTpg(RevertPhys(f)), rs, on)
          BY <4>5, <4>15 DEF RemapsUpdated
        <5>2. Undone(f, e, masks)
          BY <4>9, <4>11, <4>12, <4>13, <4>14, <5>1, PhysRevert
        <5>3. Undone(c, e, masks)
          BY <4>8, <5>2, UndoneFrom
        <5> QED
          BY <1>1, <1>4, <5>3 DEF StreamsOutcome
      <4>16. CASE ~f.err
        \* The cameras, on the way up.
        <5>1. PICK g : g = IF on THEN UpdateCams(f, rs, TRUE) ELSE f
          OBVIOUS
        <5>2. e = CamsStarted(g, masks, rs, on)
          BY <4>5, <4>16, <5>1 DEF RemapsUpdated
        <5>3. /\ BesideCams(f, g) /\ FaultStep(f, g)
              /\ g.err => on /\ \A h \in Phys : g.cam[h] = old[h]
              /\ ~g.err => \A h \in Phys : g.cam[h] = masks[h]
          <6>1. CASE on
            <7>1. PICK up \in BOOLEAN : up = TRUE
              OBVIOUS
            <7>2. g = UpdateCams(f, rs, up) /\ on = up
              BY <5>1, <6>1, <7>1
            <7>3. /\ BesideCams(f, g) /\ FaultStep(f, g)
                  /\ ~g.err => CamsMoved(f, g, rs, up)
                  /\ g.err => (Switchable(f, rs, up) => SameCams(f, g))
              BY <4>9, <4>16, <7>2, CamsUpdates
            <7>4. \A h \in Phys : f.cam[h] = old[h] /\ c.cam[h] = old[h]
              BY <1>6, <1>9, <1>14, <3>9, <4>10, <6>1
            <7>5. Switchable(f, rs, up)
              BY <1>5, <7>2, <7>4 DEF Switchable
            <7>6. ~g.err => \A h \in Phys : g.cam[h] = masks[h]
              BY <1>5, <7>2, <7>3, <7>4 DEF CamsMoved
            <7> QED
              BY <6>1, <7>3, <7>4, <7>5, <7>6 DEF SameCams
          <6>2. CASE ~on
            <7>1. g = f
              BY <5>1, <6>2
            <7>2. \A h \in Phys : f.cam[h] = masks[h]
              BY <1>9, <1>14, <3>9, <4>10, <6>2
            <7> QED
              BY <4>9, <4>16, <7>1, <7>2, SameItself DEF BesideCams
          <6> QED
            BY <6>1, <6>2
        <5>4. g \in Ctx /\ SamePipes(f, g) /\ SameTpg(f, g) /\ SameRemaps(f, g) /\ SameRest(f, g)
          BY <5>3 DEF BesideCams
        <5>5. Follows(f, g, masks)
          BY <5>3, <5>4, FollowsParts DEF Follows
        <5>6. Follows(c, g, masks)
          BY <4>8, <5>5, FollowsChain
        <5>7. /\ g.sw.on = old /\ g.sw.tpg = TpgOn(masks) /\ g.sw.enabled = f.sw.enabled
              /\ g.sw.mode = f.sw.mode /\ g.sw.active = d.sw.active /\ g.junk = f.junk
              /\ g.sw.remaps = f.sw.remaps /\ g.hw.softEnable = f.hw.softEnable
              /\ g.fault = f.fault \/ g.fault = NoFault
          BY <3>9, <4>10, <5>3, <5>4 DEF SamePipes, SameEnabled, SameActive, SameSettings, SameTpg,
             SameRemaps, SameRest, FaultStep
        <5>8. Follow(g, masks)
          BY <4>14, <5>7 DEF Follow
        <5>9. CASE g.err
          <6>1. e = RevertCams(RevertTpg(RevertPhys(RevertRemaps(g))), rs, on)
            BY <5>2, <5>9 DEF CamsStarted
          <6>2. CamsBack(g, rs, on)
            BY <5>3, <5>7, <5>9 DEF CamsBack
          <6>3. TpgBack(g)
            BY <4>10, <4>12, <3>9, <5>7, NoFaultIsNone DEF TpgBack
          <6>4. PhysBack(g)
            BY <4>10, <4>13, <5>7, NoFaultIsNone, SameMode DEF PhysBack, PhyPassed
          <6>5. Softly(g)
            BY <1>6, <5>6 DEF Follows, SoftKept
          <6>6. Undone(g, e, masks)
            BY <5>4, <5>8, <6>1, <6>2, <6>3, <6>4, <6>5, RemapsRevert
          <6>7. Undone(c, e, masks)
            BY <5>6, <6>6, UndoneFrom
          <6> QED
            BY <1>1, <1>4, <6>7 DEF StreamsOutcome
        <5>10. CASE ~g.err
          <6>1. e = [g EXCEPT !.sw.on = masks]
            BY <5>2, <5>10 DEF CamsStarted
          <6>2. RemapsDone(g)
            BY <4>7, <4>16, <5>7 DEF RemapsDone
          <6>3. Done(c, g, masks)
            BY <3>1, <4>3, <5>3, <5>6, <5>7, <5>8, <5>10, <6>2 DEF Done
          <6> QED
            BY <1>1, <1>4, <6>1, <6>3 DEF StreamsOutcome
        <5> QED
          BY <5>9, <5>10
      <4> QED
        BY <4>15, <4>16
    <3> QED
      BY <3>12, <3>13
  <2> QED
    BY <2>9, <2>10
<1> QED
  BY <1>13, <1>14

----------------------------------------------------------------------------
(* The streams that are on flow *)

\* A pipe that carries a stream has a channel, and sends on it unless it was on
\* when the system was suspended.
Sent(c, masks) ==
    \A q \in Pipes : Live(q, masks) =>
        /\ Assigned(c.sw.remaps, q)
        /\ q \notin stale.pipes /\ q \in Moved(c.sw.remaps) => q \in c.hw.softEnable

FlowInv ==
    /\ OnOf(sw.on) /\ Known(sw.on) /\ Follow(Now, sw.on) /\ sw.tpg = TpgOn(sw.on)
    /\ TpgAgree(Now) /\ Softly(Now)
    /\ \A h \in Phys : cam[h] = sw.on[h] /\ (sw.on[h] # {} /\ h \notin harmed => sw.active[h])
    /\ scene.chip.remap => sw.gmsl = "pixel" /\ Sent(Now, sw.on)

\* What the routes come to while the routing stays.
LEMMA RoutesKept ==
    ASSUME scene' = scene, routing' = routing
    PROVE  /\ Pipes' = Pipes /\ Phys' = Phys /\ Routes(routing)' = Routes(routing)
           /\ \A r : PipeOf(r)' = PipeOf(r)
           /\ \A q, m : Live(q, m)' <=> Live(q, m)
           /\ \A m : (TpgOn(m)' <=> TpgOn(m)) /\ (OnOf(m)' <=> OnOf(m))
<1>1. Pipes' = Pipes /\ Phys' = Phys
  BY SceneKept
<1>2. Routes(routing)' = Routes(routing)
  BY DEF Routes
<1>3. \A r : PipeOf(r)' = PipeOf(r)
  BY <1>1 DEF PipeOf, FindPipe
<1>4. \A q, m : Live(q, m)' <=> Live(q, m)
  BY <1>2, <1>3 DEF Live, LiveOn, IsOn
<1>5. \A m : (TpgOn(m)' <=> TpgOn(m))
  BY <1>2 DEF TpgOn, IsOn
<1>6. \A m : (OnOf(m)' <=> OnOf(m))
  BY <1>1, <1>2 DEF OnOf, Sinks, Requested
<1> QED
  BY <1>1, <1>2, <1>3, <1>4, <1>5, <1>6

LEMMA KnownKept ==
    ASSUME routing' = routing, desc' = desc, sw'.tpgEntry = sw.tpgEntry
    PROVE  \A m : Known(m)' <=> Known(m)
BY DEF Known, Routes, IsOn, Resolves

LEMMA SoftlyKept ==
    ASSUME scene' = scene
    PROVE  /\ \A c : Softly(c)' <=> Softly(c)
           /\ \A m : GoodRemaps(m)' <=> GoodRemaps(m)
           /\ \A m, n : Extends(m, n)' <=> Extends(m, n)
           /\ \A m : Moved(m)' = Moved(m)
<1>1. Pipes' = Pipes /\ Phys' = Phys
  BY SceneKept
<1>2. Channels' = Channels
  BY DEF Channels, SendsOn
<1>3. \A m : Moved(m)' = Moved(m)
  BY <1>1 DEF Moved
<1>4. \A m : GoodRemaps(m)' <=> GoodRemaps(m)
  BY <1>1, <1>2 DEF GoodRemaps, Assigned
<1>5. \A m, n : Extends(m, n)' <=> Extends(m, n)
  BY <1>1 DEF Extends, Assigned
<1>6. \A c : Softly(c)' <=> Softly(c)
  BY <1>1, <1>3, <1>4 DEF Softly, Assigned
<1> QED
  BY <1>3, <1>4, <1>5, <1>6

\* A pattern that is not wanted is off, so its pipe may stop being stale.
LEMMA TpgStale ==
    ASSUME TypeOK, Orderly, scene' = scene, routing' = routing, NEW e, TpgAgree(e),
           0 \notin stale'.pipes => 0 \notin stale.pipes \/ ~e.sw.tpg
    PROVE  TpgAgree(e)'
BY DEF TpgAgree

LEMMA TpgOnLive ==
    ASSUME TypeOK, NEW c, NEW masks, Follow(c, masks), TpgOn(masks)
    PROVE  0 \in Pipes /\ c.sw.enabled[0]
<1>1. 0 \in Pipes
  BY Chips DEF TypeOK
<1> QED
  BY <1>1, PatternIsLive DEF Follow

\* What holds of a context holds of the state it becomes.
LEMMA FlowHolds ==
    ASSUME TypeOK, Orderly, NEW e, scene' = scene, routing' = routing,
           sw' = e.sw, hw' = e.hw, cam' = e.cam, Known(sw.on)',
           OnOf(e.sw.on), Follow(e, e.sw.on), e.sw.tpg = TpgOn(e.sw.on), Softly(e),
           \A h \in Phys : /\ e.cam[h] = e.sw.on[h]
                           /\ e.sw.on[h] # {} /\ h \notin harmed' => e.sw.active[h],
           TpgAgree(Now)', scene.chip.remap => e.sw.gmsl = "pixel" /\ Sent(Now, sw.on)'
    PROVE  FlowInv'
<1>1. Pipes' = Pipes /\ Phys' = Phys
  BY SceneKept
<1>2. PICK n : n = [sw |-> e.sw, hw |-> e.hw]
  OBVIOUS
<1>3. n.sw = e.sw /\ n.hw = e.hw /\ Now' = n
  BY <1>2 DEF Now
<1>4. OnOf(sw.on)' /\ sw'.tpg = TpgOn(sw.on)'
  <2>1. OnOf(sw.on)'
    BY RoutesKept
  <2>2. TpgOn(sw.on)' <=> TpgOn(e.sw.on)
    BY RoutesKept
  <2>3. TpgOn(sw.on)' \in BOOLEAN /\ TpgOn(e.sw.on) \in BOOLEAN
    BY DEF TpgOn
  <2> QED
    BY <2>1, <2>2, <2>3
<1>5. Follow(Now, sw.on)'
  <2>1. SUFFICES ASSUME NEW q \in Pipes
                 PROVE  sw'.enabled[q] = Live(q, sw.on)'
    BY <1>1 DEF Follow, Now
  <2>2. Live(q, sw.on)' <=> Live(q, e.sw.on)
    BY RoutesKept
  <2>3. Live(q, sw.on)' \in BOOLEAN /\ Live(q, e.sw.on) \in BOOLEAN
    BY DEF Live
  <2> QED
    BY <2>2, <2>3 DEF Follow
<1>6. Softly(Now)'
  <2>1. Softly(n)
    BY <1>3 DEF Softly
  <2>2. Softly(n)'
    BY <2>1, SoftlyKept
  <2> QED
    BY <1>3, <2>2 DEF Softly
<1>7. \A h \in Phys' : cam'[h] = sw'.on[h] /\ (sw'.on[h] # {} /\ h \notin harmed' => sw'.active[h])
  BY <1>1
<1> QED
  BY <1>4, <1>5, <1>6, <1>7 DEF FlowInv

LEMMA FlowBecomes ==
    ASSUME TypeOK, Orderly, NEW e, scene' = scene, routing' = routing,
           sw' = e.sw, hw' = e.hw, cam' = e.cam, Known(sw.on)',
           \A q \in Pipes : q \notin stale'.pipes => q \notin stale.pipes \/ ~e.sw.enabled[q],
           OnOf(e.sw.on), Follow(e, e.sw.on), e.sw.tpg = TpgOn(e.sw.on),
           TpgAgree(e), Softly(e),
           \A h \in Phys : /\ e.cam[h] = e.sw.on[h]
                           /\ e.sw.on[h] # {} /\ h \notin harmed' => e.sw.active[h],
           scene.chip.remap => e.sw.gmsl = "pixel" /\ Sent(e, e.sw.on)
    PROVE  FlowInv'
<1>1. Pipes' = Pipes
  BY SceneKept
<1>2. TpgAgree(Now)'
  <2>1. PICK n : n = [sw |-> e.sw, hw |-> e.hw]
    OBVIOUS
  <2>2. n.sw = e.sw /\ n.hw = e.hw /\ Now' = n
    BY <2>1 DEF Now
  <2>3. TpgAgree(n)
    BY <2>2 DEF TpgAgree
  <2>4. 0 \notin stale'.pipes => 0 \notin stale.pipes \/ ~n.sw.tpg
    <3>1. n.sw.tpg => 0 \in Pipes /\ e.sw.enabled[0]
      BY <2>2, TpgOnLive
    <3> QED
      BY <3>1
  <2>5. TpgAgree(n)'
    BY <2>3, <2>4, TpgStale
  <2> QED
    BY <2>2, <2>5 DEF TpgAgree
<1>3. ASSUME scene.chip.remap
      PROVE  e.sw.gmsl = "pixel" /\ Sent(Now, sw.on)'
  <2>1. ASSUME NEW q \in Pipes, Live(q, sw.on)'
        PROVE  /\ Assigned(e.sw.remaps, q)
               /\ q \notin stale'.pipes /\ q \in Moved(e.sw.remaps) => q \in e.hw.softEnable
    <3>1. Live(q, e.sw.on)
      BY <2>1, RoutesKept
    <3>2. e.sw.enabled[q]
      BY <3>1 DEF Follow
    <3> QED
      BY <1>3, <3>1, <3>2 DEF Sent
  <2>2. \A m : Moved(m)' = Moved(m)
    BY SoftlyKept
  <2>3. Moved(sw.remaps)' = Moved(e.sw.remaps)
    BY <2>2
  <2> QED
    BY <1>1, <1>3, <2>1, <2>3 DEF Sent, Now, Assigned
<1> QED
  BY <1>2, <1>3, FlowHolds

LEMMA RequestAsks ==
    ASSUME TypeOK, OnOf(sw.on), NEW streams \in SUBSET {r.source : r \in Routes(routing)},
           NEW on \in BOOLEAN, on => streams \cap sw.on[Source] = {},
           ~on => streams \subseteq sw.on[Source],
           NEW c, c.sw = sw, \A h \in Phys : c.cam[h] = sw.on[h]
    PROVE  Asks(c, NewMasks(streams, on), Requested(streams), on)
<1>1. PICK masks : masks = NewMasks(streams, on)
  OBVIOUS
<1>2. PICK rs : rs = Requested(streams)
  OBVIOUS
<1>3. \A p \in Phys \cup {Tpg} :
        masks[p] = IF on THEN sw.on[p] \cup Sinks(rs, p) ELSE sw.on[p] \ Sinks(rs, p)
  BY <1>1, <1>2, MasksOfRequest DEF Requests, Switched
<1>4. ASSUME NEW h \in Phys, NEW s \in Sinks(rs, h)
      PROVE  on <=> s \notin sw.on[h]
  <2>1. PICK r \in Routes(routing) : r.source \in streams /\ r.pad = h /\ r.sink = s
    BY <1>2, <1>4 DEF Sinks, Requested
  <2>2. IsOn(r, sw.on) <=> r.source \in sw.on[Source]
    BY OnIsRequested
  <2>3. s \in sw.on[h] <=> r.source \in sw.on[Source]
    BY <2>1, <2>2 DEF IsOn
  <2> QED
    BY <2>1, <2>3
<1>5. \A h \in Phys : IF on THEN Sinks(rs, h) \cap c.cam[h] = {} ELSE Sinks(rs, h) \subseteq c.cam[h]
  BY <1>4
<1> QED
  BY <1>1, <1>2, <1>3, <1>5 DEF Asks, Switchable, Switched

\* A request that fails may leave a PHY it would have turned off inactive: that
\* PHY is harmed until it is restarted.
LEMMA FlowRequest ==
    ASSUME TypeOK, Orderly, FlowInv, NEW c \in Ctx, c.sw = sw, c.hw = hw, c.cam = cam,
           NEW masks \in [Pads -> SUBSET Nat], OnOf(masks), NEW e, StreamsOutcome(c, e, masks),
           UNCHANGED <<scene, routing, desc>>, sw' = e.sw, hw' = e.hw, cam' = e.cam,
           \A q \in Pipes : q \notin stale'.pipes => q \notin stale.pipes \/ ~e.sw.enabled[q],
           \A h \in Phys : e.err /\ sw.on[h] # {} /\ h \notin harmed' =>
                             h \notin harmed /\ masks[h] # {},
           \A h \in Phys : ~e.err /\ masks[h] # {} /\ h \notin harmed' =>
                             sw.on[h] = {} \/ h \notin harmed
    PROVE  FlowInv'
<1>0. /\ OnOf(sw.on) /\ Known(sw.on) /\ TpgAgree(c) /\ Softly(c)
      /\ \A h \in Phys : sw.on[h] # {} /\ h \notin harmed => sw.active[h]
      /\ scene.chip.remap => sw.gmsl = "pixel" /\ Sent(c, sw.on)
  BY DEF FlowInv, TpgAgree, Softly, Sent, Now
<1>1. CASE Undone(c, e, masks)
  <2>1. /\ Follows(c, e, masks) /\ e.err /\ Follow(e, sw.on) /\ e.sw.tpg = TpgOn(sw.on)
        /\ \A h \in Phys : e.cam[h] = sw.on[h]
    BY <1>1 DEF Undone
  <2>2. /\ e \in Ctx /\ SameRest(c, e) /\ ActiveKept(c, e, masks) /\ TpgAgree(e)
        /\ Softly(e) /\ Extends(sw.remaps, e.sw.remaps) /\ c.hw.softEnable \subseteq e.hw.softEnable
    BY <1>0, <2>1 DEF Follows, SoftKept
  <2>3. e.sw.on = sw.on /\ e.sw.tpgEntry = sw.tpgEntry /\ e.sw.gmsl = sw.gmsl
    BY <2>2 DEF SameRest
  <2>4. \A h \in Phys : e.sw.on[h] # {} /\ h \notin harmed' => e.sw.active[h]
    BY <1>0, <2>1, <2>2, <2>3 DEF ActiveKept, Stops
  <2>5. scene.chip.remap => Sent(e, e.sw.on)
    <3>1. SUFFICES ASSUME scene.chip.remap, NEW q \in Pipes, Live(q, sw.on)
                   PROVE  /\ Assigned(e.sw.remaps, q)
                          /\ q \notin stale.pipes /\ q \in Moved(e.sw.remaps) =>
                               q \in e.hw.softEnable
      BY <2>3 DEF Sent
    <3>2. Assigned(sw.remaps, q) /\ e.sw.remaps[q] = sw.remaps[q]
      BY <1>0, <2>2, <3>1 DEF Sent, Extends
    <3> QED
      BY <1>0, <2>2, <3>1, <3>2 DEF Sent, Assigned, Moved
  <2>6. Known(sw.on)'
    BY <1>0, <2>3, KnownKept
  <2> QED
    BY <1>0, <2>1, <2>2, <2>3, <2>4, <2>5, <2>6, FlowBecomes
<1>2. CASE \E d : Done(c, d, masks) /\ e = [d EXCEPT !.sw.on = masks]
  <2>1. PICK d : Done(c, d, masks) /\ e = [d EXCEPT !.sw.on = masks]
    BY <1>2
  <2>2. /\ Follows(c, d, masks) /\ ~d.err /\ Known(masks) /\ Follow(d, masks)
        /\ d.sw.tpg = TpgOn(masks) /\ RemapsDone(d)
        /\ \A h \in Phys : PipeKnown(h) /\ d.cam[h] = masks[h] /\ (Starts(c, h, masks) => d.sw.active[h])
    BY <2>1 DEF Done
  <2>3. d \in Ctx /\ SameRest(c, d) /\ ActiveKept(c, d, masks) /\ TpgAgree(d) /\ Softly(d)
    BY <1>0, <2>2 DEF Follows, SoftKept
  <2>4. PICK g : g = [d.sw EXCEPT !.on = masks]
    OBVIOUS
  <2>5. e = [d EXCEPT !.sw = g]
    BY <2>1, <2>3, <2>4 DEF Ctx
  <2>6. e.sw = g /\ e.hw = d.hw /\ e.cam = d.cam /\ e.err = d.err
    BY <2>3, <2>5 DEF Ctx
  <2>7. /\ g.on = masks /\ g.enabled = d.sw.enabled /\ g.active = d.sw.active /\ g.tpg = d.sw.tpg
        /\ g.remaps = d.sw.remaps /\ g.tpgEntry = d.sw.tpgEntry /\ g.gmsl = d.sw.gmsl
    BY <2>3, <2>4 DEF Ctx, Memory
  <2>8. e.sw.on = masks /\ e.sw.tpgEntry = sw.tpgEntry /\ e.sw.gmsl = sw.gmsl
    BY <2>3, <2>6, <2>7 DEF SameRest
  <2>9. Follow(e, e.sw.on) /\ TpgAgree(e) /\ Softly(e) /\ e.sw.tpg = TpgOn(e.sw.on)
    BY <2>2, <2>3, <2>6, <2>7 DEF Follow, TpgAgree, Softly
  <2>10. ASSUME NEW h \in Phys, masks[h] # {}, h \notin harmed'
         PROVE  e.sw.active[h]
    <3>1. CASE sw.on[h] = {}
      <4>1. Starts(c, h, masks)
        BY <2>10, <3>1 DEF Starts
      <4> QED
        BY <2>2, <2>6, <2>7, <4>1
    <3>2. CASE sw.on[h] # {}
      <4>1. sw.active[h] /\ ~Stops(c, h, masks)
        BY <1>0, <2>2, <2>6, <2>10, <3>2 DEF Stops
      <4> QED
        BY <2>3, <2>6, <2>7, <4>1 DEF ActiveKept
    <3> QED
      BY <3>1, <3>2
  <2>11. ASSUME scene.chip.remap
         PROVE  e.sw.gmsl = "pixel" /\ Sent(e, e.sw.on)
    <3>1. 0 \in Phys
      BY Chips DEF TypeOK
    <3>2. sw.gmsl = "pixel" /\ \A r \in Routes(routing) : Resolves(r)
      BY <1>0, <2>2, <2>11, <3>1 DEF PipeKnown
    <3>3. /\ \A r \in Routes(routing) : Assigned(d.sw.remaps, PipeOf(r))
          /\ d.hw.softEnable = Moved(d.sw.remaps)
      BY <2>2, <2>11, <3>2 DEF RemapsDone
    <3>4. \A q : Live(q, masks) => Assigned(d.sw.remaps, q)
      BY <3>3 DEF Live, LiveOn
    <3> QED
      BY <2>6, <2>7, <2>8, <3>2, <3>3, <3>4 DEF Sent
  <2>12. \A h \in Phys : /\ e.cam[h] = e.sw.on[h]
                         /\ e.sw.on[h] # {} /\ h \notin harmed' => e.sw.active[h]
    BY <2>2, <2>6, <2>8, <2>10
  <2>13. Known(sw.on)'
    BY <2>2, <2>8, KnownKept
  <2> QED
    BY <2>2, <2>8, <2>9, <2>11, <2>12, <2>13, FlowBecomes
<1> QED
  BY <1>1, <1>2 DEF StreamsOutcome

LEMMA FlowStreams ==
    ASSUME TypeOK, Orderly, FlowInv, NEW streams \in SUBSET {r.source : r \in Routes(routing)},
           Enable(streams) \/ Disable(streams)
    PROVE  FlowInv'
<1>0. UNCHANGED <<scene, routing, desc>>
  BY DEF Enable, Disable
<1>1. OnOf(sw.on) /\ \A h \in Phys : cam[h] = sw.on[h]
  BY DEF FlowInv
<1>2. \A h \in Phys : h \in Pads /\ h \in Phys \cup {Tpg}
  BY DEF Pads
<1>3. ASSUME NEW on \in BOOLEAN, on => streams \cap sw.on[Source] = {},
             ~on => streams \subseteq sw.on[Source],
             NEW fault \in Faults, NEW junk \in BOOLEAN, NEW e,
             e = UpdateStreams(Context(fault, junk), streams, on)
      PROVE  LET masks == NewMasks(streams, on)
                 c == Context(fault, junk)
             IN  /\ c \in Ctx /\ c.sw = sw /\ c.hw = hw /\ c.cam = cam
                 /\ masks \in [Pads -> SUBSET Nat] /\ OnOf(masks) /\ StreamsOutcome(c, e, masks)
                 /\ \A h \in Phys :
                      masks[h] = IF on THEN sw.on[h] \cup Sinks(Requested(streams), h)
                                 ELSE sw.on[h] \ Sinks(Requested(streams), h)
  <2>1. PICK masks : masks = NewMasks(streams, on)
    OBVIOUS
  <2>2. PICK c : c = Context(fault, junk)
    OBVIOUS
  <2>3. c \in Ctx /\ c.sw = sw /\ c.hw = hw /\ c.cam = cam /\ ~c.err
    BY <2>2, Contexts
  <2>4. masks \in [Pads -> SUBSET Nat]
    BY <2>1, MasksTyped, SourcesAreNumbers
  <2>5. OnOf(masks) /\ \A h \in Phys :
                         masks[h] = IF on THEN sw.on[h] \cup Sinks(Requested(streams), h)
                                    ELSE sw.on[h] \ Sinks(Requested(streams), h)
    BY <1>1, <1>2, <2>1, MasksOfRequest DEF Requests, Switched
  <2>6. Asks(c, NewMasks(streams, on), Requested(streams), on)
    BY <1>1, <1>3, <2>3, RequestAsks
  <2>7. Flowing(c)
    BY <1>1, <2>3 DEF FlowInv, Flowing, Now, Follow, Softly
  <2>8. StreamsOutcome(c, e, NewMasks(streams, on))
    BY <1>3, <2>2, <2>3, <2>6, <2>7, RequestDone
  <2> QED
    BY <2>1, <2>2, <2>3, <2>4, <2>5, <2>8
<1>4. CASE Enable(streams)
  <2>1. PICK on \in BOOLEAN : on = TRUE
    OBVIOUS
  <2>2. PICK fault \in Faults, junk \in BOOLEAN :
          /\ Finish(UpdateStreams(Context(fault, junk), streams, TRUE), fault)
          /\ harmed' = IF UpdateStreams(Context(fault, junk), streams, TRUE).err THEN harmed
                       ELSE {h \in harmed :
                              \/ sw.on[h] # {}
                              \/ UpdateStreams(Context(fault, junk), streams, TRUE).sw.on[h] = {}}
    BY <1>4, EnableDoesThis
  <2>3. PICK e : e = UpdateStreams(Context(fault, junk), streams, TRUE)
    OBVIOUS
  <2>4. /\ sw' = e.sw /\ hw' = e.hw /\ cam' = e.cam /\ stale' = stale
        /\ harmed' = IF e.err THEN harmed ELSE {h \in harmed : sw.on[h] # {} \/ e.sw.on[h] = {}}
    BY <1>4, <2>2, <2>3 DEF Finish, Enable
  <2>5. streams \cap sw.on[Source] = {} /\ e = UpdateStreams(Context(fault, junk), streams, on)
    BY <1>4, <2>1, <2>3 DEF Enable
  <2>6. PICK masks : masks = NewMasks(streams, on)
    OBVIOUS
  <2>7. PICK c : c = Context(fault, junk)
    OBVIOUS
  <2>8. /\ c \in Ctx /\ c.sw = sw /\ c.hw = hw /\ c.cam = cam
        /\ masks \in [Pads -> SUBSET Nat] /\ OnOf(masks) /\ StreamsOutcome(c, e, masks)
        /\ \A h \in Phys : masks[h] = sw.on[h] \cup Sinks(Requested(streams), h)
    BY <1>3, <2>1, <2>3, <2>5, <2>6, <2>7
  <2>9. \A h \in Phys : e.err /\ sw.on[h] # {} /\ h \notin harmed' => h \notin harmed /\ masks[h] # {}
    BY <2>4, <2>8
  <2>10. \A h \in Phys : ~e.err /\ masks[h] # {} /\ h \notin harmed' =>
                           sw.on[h] = {} \/ h \notin harmed
    BY <2>4
  <2> QED
    BY <1>0, <2>4, <2>8, <2>9, <2>10, FlowRequest
<1>5. CASE Disable(streams)
  <2>1. PICK on \in BOOLEAN : on = FALSE
    OBVIOUS
  <2>2. PICK fault \in Faults, junk \in BOOLEAN :
          /\ Finish(UpdateStreams(Context(fault, junk), streams, on), fault)
          /\ harmed' = IF UpdateStreams(Context(fault, junk), streams, on).err
                       THEN harmed \cup {r.pad : r \in Requested(streams)} ELSE harmed
          /\ stale' = [pipes |-> {q \in stale.pipes :
                                    UpdateStreams(Context(fault, junk), streams, on).sw.enabled[q]},
                       phys |-> {h \in stale.phys :
                                   UpdateStreams(Context(fault, junk), streams, on).sw.active[h]},
                       unwritten |-> stale.unwritten]
    BY <1>5, <2>1, DisableDoesThis
  <2>3. PICK e : e = UpdateStreams(Context(fault, junk), streams, on)
    OBVIOUS
  <2>4. /\ sw' = e.sw /\ hw' = e.hw /\ cam' = e.cam
        /\ stale'.pipes = {q \in stale.pipes : e.sw.enabled[q]}
        /\ harmed' = IF e.err THEN harmed \cup {r.pad : r \in Requested(streams)} ELSE harmed
    BY <2>2, <2>3 DEF Finish
  <2>5. streams \subseteq sw.on[Source]
    BY <1>5 DEF Disable
  <2>6. PICK masks : masks = NewMasks(streams, on)
    OBVIOUS
  <2>7. PICK c : c = Context(fault, junk)
    OBVIOUS
  <2>8. /\ c \in Ctx /\ c.sw = sw /\ c.hw = hw /\ c.cam = cam
        /\ masks \in [Pads -> SUBSET Nat] /\ OnOf(masks) /\ StreamsOutcome(c, e, masks)
        /\ \A h \in Phys : masks[h] = sw.on[h] \ Sinks(Requested(streams), h)
    BY <1>3, <2>1, <2>3, <2>5, <2>6, <2>7
  <2>9. ASSUME NEW h \in Phys, e.err, sw.on[h] # {}, h \notin harmed'
        PROVE  h \notin harmed /\ masks[h] # {}
    <3>1. h \notin {r.pad : r \in Requested(streams)} /\ h \notin harmed
      BY <2>4, <2>9
    <3>2. Sinks(Requested(streams), h) = {}
      BY <3>1 DEF Sinks
    <3> QED
      BY <2>8, <2>9, <3>1, <3>2
  <2>10. \A h \in Phys : ~e.err /\ masks[h] # {} /\ h \notin harmed' =>
                           sw.on[h] = {} \/ h \notin harmed
    BY <2>4
  <2>11. \A q \in Pipes : q \notin stale'.pipes => q \notin stale.pipes \/ ~e.sw.enabled[q]
    BY <2>4
  <2> QED
    BY <1>0, <2>4, <2>8, <2>9, <2>10, <2>11, FlowRequest
<1> QED
  BY <1>4, <1>5

\* What the streams need is left alone, or more channels are assigned.
LEMMA FlowBeside ==
    ASSUME TypeOK, Orderly, FlowInv, scene' = scene, routing' = routing, stale' = stale,
           harmed' = harmed, cam' = cam, NEW s, NEW h, sw' = s, hw' = h,
           s.on = sw.on, s.enabled = sw.enabled, s.active = sw.active, s.tpg = sw.tpg,
           h.tpg = hw.tpg, h.soft = hw.soft, h.softEnable = hw.softEnable,
           NEW m, s.remaps = m, \/ m = sw.remaps
                                \/ scene.chip.remap /\ GoodRemaps(m) /\ Extends(sw.remaps, m),
           Known(sw.on)', scene.chip.remap => s.gmsl = "pixel"
    PROVE  FlowInv'
<1>1. PICK e : e = [sw |-> s, hw |-> h, cam |-> cam]
  OBVIOUS
<1>2. e.sw = s /\ e.hw = h /\ e.cam = cam
  BY <1>1
<1>3. /\ OnOf(sw.on) /\ Follow(Now, sw.on) /\ sw.tpg = TpgOn(sw.on) /\ TpgAgree(Now) /\ Softly(Now)
      /\ \A g \in Phys : cam[g] = sw.on[g] /\ (sw.on[g] # {} /\ g \notin harmed => sw.active[g])
      /\ scene.chip.remap => Sent(Now, sw.on)
  BY DEF FlowInv
<1>4. Follow(e, e.sw.on) /\ TpgAgree(e)
  BY <1>2, <1>3 DEF Follow, TpgAgree, Now
<1>5. Extends(sw.remaps, m)
  BY DEF Extends
<1>6. Moved(sw.remaps) \subseteq Moved(m) /\ \A q \in Moved(sw.remaps) : m[q] = sw.remaps[q]
  BY <1>5 DEF Moved, Extends, Assigned
<1>7. Softly(e)
  <2>1. CASE m = sw.remaps
    BY <1>2, <1>3, <2>1 DEF Softly, Now
  <2>2. CASE scene.chip.remap /\ GoodRemaps(m) /\ Extends(sw.remaps, m)
    BY <1>2, <1>3, <1>6, <2>2 DEF Softly, Now
  <2> QED
    BY <2>1, <2>2
<1>8. ASSUME scene.chip.remap
      PROVE  Sent(e, e.sw.on)
  <2>1. SUFFICES ASSUME NEW q \in Pipes, Live(q, sw.on)
                 PROVE  /\ Assigned(m, q)
                        /\ q \notin stale.pipes /\ q \in Moved(m) => q \in hw.softEnable
    BY <1>2 DEF Sent
  <2>2. Assigned(sw.remaps, q) /\ m[q] = sw.remaps[q]
    BY <1>3, <1>5, <1>8, <2>1 DEF Sent, Now, Extends
  <2> QED
    BY <1>3, <1>8, <2>1, <2>2 DEF Sent, Now, Assigned, Moved
<1>9. \A q \in Pipes : q \notin stale'.pipes => q \notin stale.pipes \/ ~e.sw.enabled[q]
  OBVIOUS
<1> QED
  BY <1>2, <1>3, <1>4, <1>7, <1>8, <1>9, FlowBecomes

\* With no stream on, whatever the routing is, no route is.
LEMMA NothingOn ==
    ASSUME TypeOK, OnOf(sw.on), ~Active
    PROVE  /\ \A p \in Phys \cup {Tpg} : sw.on[p] = {}
           /\ sw.on[Source] = {}
<1>1. sw.on[Source] = {}
  BY DEF Active
<1>2. \A p : Sinks(Requested({}), p) = {}
  BY DEF Sinks, Requested
<1> QED
  BY <1>1, <1>2 DEF OnOf

LEMMA NoneOn ==
    ASSUME TypeOK, NEW masks, \A p \in Phys \cup {Tpg} : masks[p] = {}, NEW r \in Routes(routing)
    PROVE  ~IsOn(r, masks)
BY RouteKnown DEF IsOn

LEMMA FlowRouting ==
    ASSUME TypeOK, Orderly, FlowInv, TypeOK', NEW table \in scene.routings, NEW active \in BOOLEAN,
           SetRouting(table, active)
    PROVE  FlowInv'
<1>1. /\ UNCHANGED <<scene, desc, hw, cam, asleep, stale, harmed, faults, suspends>>
      /\ routing' = IF active THEN table ELSE routing
      /\ active => ~Active
  BY DEF SetRouting
<1>2. /\ OnOf(sw.on) /\ Known(sw.on) /\ Follow(Now, sw.on) /\ sw.tpg = TpgOn(sw.on)
      /\ TpgAgree(Now) /\ Softly(Now)
      /\ \A h \in Phys : cam[h] = sw.on[h] /\ (sw.on[h] # {} /\ h \notin harmed => sw.active[h])
      /\ scene.chip.remap => sw.gmsl = "pixel" /\ Sent(Now, sw.on)
  BY DEF FlowInv
<1>3. sw \in Memory /\ sw.remaps \in Remapping
  BY DEF TypeOK, Memory, Remapping
<1>4. PICK b \in BOOLEAN : b = \E r \in Routes(table) : r.pad = Tpg
  OBVIOUS
<1>5. PICK m : m = IF b THEN sw.remaps ELSE Assign(sw.remaps, table)
  OBVIOUS
<1>6. PICK t : t = IF active THEN b ELSE sw.tpgEntry
  OBVIOUS
<1>7. sw' = [sw EXCEPT !.remaps = m, !.tpgEntry = t]
  BY <1>4, <1>5, <1>6 DEF SetRouting
<1>8. PICK s : s = sw'
  OBVIOUS
<1>9. /\ s.on = sw.on /\ s.enabled = sw.enabled /\ s.active = sw.active /\ s.tpg = sw.tpg
      /\ s.remaps = m /\ s.gmsl = sw.gmsl /\ s.tpgEntry = t
  BY <1>3, <1>7, <1>8 DEF Memory
<1>10. m = sw.remaps \/ (scene.chip.remap /\ GoodRemaps(m) /\ Extends(sw.remaps, m))
  <2>1. CASE b \/ ~scene.chip.remap
    BY <1>5, <2>1 DEF Assign
  <2>2. CASE ~b /\ scene.chip.remap
    <3>1. GoodRemaps(sw.remaps) /\ table \in Tables
      BY <1>2, <2>2 DEF Softly, Now, Tables
    <3>2. AssignEffect(sw.remaps, m, table)
      BY <1>3, <1>5, <2>2, <3>1, AssignGood
    <3> QED
      BY <2>2, <3>1, <3>2 DEF AssignEffect
  <2> QED
    BY <2>1, <2>2
<1>11. CASE ~active
  <2>1. routing' = routing /\ s.tpgEntry = sw.tpgEntry
    BY <1>1, <1>6, <1>9, <1>11
  <2>2. Known(sw.on)'
    BY <1>1, <1>2, <1>8, <1>9, <2>1, KnownKept
  <2> QED
    BY <1>1, <1>2, <1>8, <1>9, <1>10, <2>1, <2>2, FlowBeside
<1>12. CASE active
  <2>1. /\ \A p \in Phys \cup {Tpg} : sw.on[p] = {}
        /\ sw.on[Source] = {}
    BY <1>1, <1>2, <1>12, NothingOn
  <2>2. Phys' = Phys /\ Pipes' = Pipes
    BY <1>1, SceneKept
  <2>3. \A r \in Routes(routing)' : ~IsOn(r, sw.on)'
    <3>1. \A r \in Routes(routing)' : r.pad \in Phys \cup {Tpg}
      <4>1. \A r \in Routes(routing) : r.pad \in Phys \cup {Tpg}
        BY RouteKnown
      <4>2. \A r \in Routes(table) : r.pad \in Phys \cup {Tpg}
        BY TableKnown DEF Tables
      <4>3. Routes(routing)' = Routes(table)
        BY <1>1, <1>12 DEF Routes
      <4> QED
        BY <4>2, <4>3
    <3> QED
      BY <1>8, <1>9, <2>1, <3>1 DEF IsOn
  <2>4. \A r \in Routes(routing) : ~IsOn(r, sw.on)
    BY <2>1, NoneOn
  <2>5. \A q : ~Live(q, sw.on) /\ ~Live(q, sw.on)' /\ ~TpgOn(sw.on) /\ ~TpgOn(sw.on)'
    BY <2>3, <2>4 DEF Live, LiveOn, TpgOn
  <2>6. Known(sw.on)'
    BY <2>3 DEF Known
  <2>7. OnOf(sw.on)'
    <3>1. \A p : Sinks(Requested({}), p)' = {}
      BY DEF Sinks, Requested
    <3> QED
      BY <1>8, <1>9, <2>1, <2>2, <3>1 DEF OnOf
  <2>8. Follow(Now, sw.on)'
    <3>1. \A q \in Pipes : sw.enabled[q] = FALSE
      <4>1. SUFFICES ASSUME NEW q \in Pipes
                     PROVE  sw.enabled[q] = FALSE
        OBVIOUS
      <4>2. sw.enabled[q] = Live(q, sw.on) /\ Live(q, sw.on) \in BOOLEAN
        BY <1>2 DEF Follow, Now, Live
      <4> QED
        BY <2>5, <4>2
    <3>2. \A q \in Pipes : Live(q, sw.on)' = FALSE
      <4>1. SUFFICES ASSUME NEW q \in Pipes
                     PROVE  Live(q, sw.on)' = FALSE
        OBVIOUS
      <4>2. Live(q, sw.on)' \in BOOLEAN
        BY DEF Live
      <4> QED
        BY <2>5, <4>2
    <3> QED
      BY <1>8, <1>9, <2>2, <3>1, <3>2 DEF Follow, Now
  <2>9. sw'.tpg = TpgOn(sw.on)'
    <3>1. TpgOn(sw.on) \in BOOLEAN /\ TpgOn(sw.on)' \in BOOLEAN
      BY DEF TpgOn
    <3> QED
      BY <1>2, <1>8, <1>9, <2>5, <3>1
  <2>10. TpgAgree(Now)'
    BY <1>1, <1>2, <1>8, <1>9 DEF TpgAgree, Now
  <2>11. Softly(Now)'
    <3>1. PICK n : n = [sw |-> s, hw |-> hw]
      OBVIOUS
    <3>2. n.sw = s /\ n.hw = hw /\ Now' = n
      BY <1>1, <1>8, <3>1 DEF Now
    <3>3. Moved(sw.remaps) \subseteq Moved(m) /\ \A q \in Moved(sw.remaps) : m[q] = sw.remaps[q]
      BY <1>10 DEF Moved, Extends, Assigned
    <3>4. Softly(n)
      <4>1. CASE m = sw.remaps
        BY <1>2, <1>9, <3>2, <4>1 DEF Softly, Now
      <4>2. CASE scene.chip.remap /\ GoodRemaps(m) /\ Extends(sw.remaps, m)
        BY <1>2, <1>9, <3>2, <3>3, <4>2 DEF Softly, Now
      <4> QED
        BY <1>10, <4>1, <4>2
    <3>5. Softly(n)'
      BY <1>1, <3>4, SoftlyKept
    <3> QED
      BY <3>2, <3>5 DEF Softly
  <2>12. \A h \in Phys' : cam'[h] = sw'.on[h]
                          /\ (sw'.on[h] # {} /\ h \notin harmed' => sw'.active[h])
    BY <1>1, <1>2, <1>8, <1>9, <2>2
  <2>13. scene'.chip.remap => sw'.gmsl = "pixel" /\ Sent(Now, sw.on)'
    BY <1>1, <1>2, <1>8, <1>9, <2>5 DEF Sent
  <2> QED
    BY <2>6, <2>7, <2>8, <2>9, <2>10, <2>11, <2>12, <2>13 DEF FlowInv
<1> QED
  BY <1>11, <1>12

LEMMA FlowOthers ==
    ASSUME TypeOK, Orderly, FlowInv,
           \/ \E entry \in BOOLEAN : SetTpg(entry)
           \/ \E bpps \in scene.doubles : SetDoubleBpps(bpps)
           \/ \E mode \in {"pixel", "tunnel"} : SetMode(mode)
           \/ \E addr \in scene.addrs : Attach(addr) \/ Detach(addr)
           \/ ChangeDesc
    PROVE  FlowInv'
<1>0. sw \in Memory /\ hw \in Registers
  BY DEF TypeOK
<1>1. /\ OnOf(sw.on) /\ Known(sw.on) /\ (\A h \in Phys : cam[h] = sw.on[h])
      /\ scene.chip.remap => sw.gmsl = "pixel"
  BY DEF FlowInv
<1>2. ASSUME NEW entry \in BOOLEAN, SetTpg(entry)
      PROVE  FlowInv'
  <2>1. /\ UNCHANGED <<scene, routing, desc, hw, cam, asleep, stale, harmed, faults, suspends>>
        /\ sw' = [sw EXCEPT !.tpgEntry = entry] /\ ~Active
    BY <1>2 DEF SetTpg
  <2>2. PICK s : s = sw'
    OBVIOUS
  <2>3. /\ s.on = sw.on /\ s.enabled = sw.enabled /\ s.active = sw.active /\ s.tpg = sw.tpg
        /\ s.remaps = sw.remaps /\ s.gmsl = sw.gmsl
    BY <1>0, <2>1, <2>2 DEF Memory
  <2>4. \A r \in Routes(routing) : ~IsOn(r, sw.on)
    BY <1>1, <2>1, NothingOn, NoneOn
  <2>5. Known(sw.on)'
    BY <2>1, <2>2, <2>3, <2>4 DEF Known, IsOn, Routes
  <2> QED
    BY <1>1, <2>1, <2>2, <2>3, <2>5, FlowBeside
<1>3. ASSUME NEW bpps, SetDoubleBpps(bpps)
      PROVE  FlowInv'
  <2>1. UNCHANGED <<scene, routing, desc, hw, cam, asleep, stale, harmed, faults, suspends>>
        /\ sw' = [sw EXCEPT !.double = bpps]
    BY <1>3 DEF SetDoubleBpps
  <2>2. PICK s : s = sw'
    OBVIOUS
  <2>3. /\ s.on = sw.on /\ s.enabled = sw.enabled /\ s.active = sw.active /\ s.tpg = sw.tpg
        /\ s.remaps = sw.remaps /\ s.gmsl = sw.gmsl /\ s.tpgEntry = sw.tpgEntry
    BY <1>0, <2>1, <2>2 DEF Memory
  <2>4. Known(sw.on)'
    BY <1>1, <2>1, <2>2, <2>3, KnownKept
  <2> QED
    BY <1>1, <2>1, <2>2, <2>3, <2>4, FlowBeside
<1>4. ASSUME NEW mode, SetMode(mode)
      PROVE  FlowInv'
  <2>1. /\ UNCHANGED <<scene, routing, desc, cam, asleep, stale, harmed, faults, suspends>>
        /\ sw' = [sw EXCEPT !.gmsl = mode] /\ hw' = [hw EXCEPT !.tunnel = mode = "tunnel"]
        /\ mode \in scene.chip.modes /\ mode # sw.gmsl
    BY <1>4 DEF SetMode
  <2>2. PICK s : s = sw'
    OBVIOUS
  <2>3. PICK h : h = hw'
    OBVIOUS
  <2>4. /\ s.on = sw.on /\ s.enabled = sw.enabled /\ s.active = sw.active /\ s.tpg = sw.tpg
        /\ s.remaps = sw.remaps /\ s.tpgEntry = sw.tpgEntry
    BY <1>0, <2>1, <2>2 DEF Memory
  <2>5. h.tpg = hw.tpg /\ h.soft = hw.soft /\ h.softEnable = hw.softEnable
    BY <1>0, <2>1, <2>3 DEF Registers
  \* A chip that remaps channels has one mode.
  <2>6. ~scene.chip.remap
    BY <1>1, <2>1, Chips DEF TypeOK
  <2>7. Known(sw.on)'
    BY <1>1, <2>1, <2>2, <2>4, KnownKept
  <2> QED
    BY <2>1, <2>2, <2>3, <2>4, <2>5, <2>6, <2>7, FlowBeside
<1>5. ASSUME XlateEffect
      PROVE  FlowInv'
  <2>1. UNCHANGED <<scene, routing, desc, asleep, stale, harmed, suspends>> /\ cam' = cam
    BY <1>5 DEF XlateEffect
  <2>2. PICK x, y : sw' = [sw EXCEPT !.xlates = x] /\ hw' = [hw EXCEPT !.xlates = y]
    BY <1>5 DEF XlateEffect
  <2>3. PICK s : s = sw'
    OBVIOUS
  <2>4. PICK h : h = hw'
    OBVIOUS
  <2>5. /\ s.on = sw.on /\ s.enabled = sw.enabled /\ s.active = sw.active /\ s.tpg = sw.tpg
        /\ s.remaps = sw.remaps /\ s.gmsl = sw.gmsl /\ s.tpgEntry = sw.tpgEntry
    BY <1>0, <2>2, <2>3 DEF Memory
  <2>6. h.tpg = hw.tpg /\ h.soft = hw.soft /\ h.softEnable = hw.softEnable
    BY <1>0, <2>2, <2>4 DEF Registers
  <2>7. Known(sw.on)'
    BY <1>1, <2>1, <2>3, <2>5, KnownKept
  <2> QED
    BY <1>1, <2>1, <2>3, <2>4, <2>5, <2>6, <2>7, FlowBeside
<1>6. CASE ChangeDesc
  <2>1. /\ UNCHANGED <<scene, routing, sw, hw, cam, asleep, stale, harmed, faults, suspends>>
        /\ \A x \in DOMAIN desc : desc'[x] # desc[x] => cam[x[1]] = {}
    BY <1>6 DEF ChangeDesc
  \* A camera that has streams on describes them as before.
  <2>2. ASSUME NEW r \in Routes(routing), IsOn(r, sw.on)
        PROVE  Resolves(r)'
    <3>1. Resolves(r)
      BY <1>1, <2>2 DEF Known
    <3>2. CASE r.pad = Tpg
      BY <2>1, <3>1, <3>2 DEF Resolves
    <3>3. CASE r.pad # Tpg
      <4>1. PICK y : y = <<r.pad, r.sink>>
        OBVIOUS
      <4>2. y \in DOMAIN desc /\ y[1] = r.pad /\ r.pad \in Phys
        BY <3>3, <4>1, RouteKnown
      <4>3. cam[r.pad] # {}
        BY <1>1, <2>2, <4>2 DEF IsOn
      <4>4. desc'[y] = desc[y]
        BY <2>1, <4>2, <4>3
      <4> QED
        BY <3>1, <3>3, <4>1, <4>4 DEF Resolves
    <3> QED
      BY <3>2, <3>3
  <2>3. Known(sw.on)'
    BY <2>1, <2>2 DEF Known, IsOn, Routes
  <2> QED
    BY <1>1, <2>1, <2>3, FlowBeside
<1> QED
  BY <1>2, <1>3, <1>4, <1>5, <1>6, Attaches, Detaches

\* Asleep, and until it is turned off, all that carries a stream is stale.
LEMMA FlowPower ==
    ASSUME TypeOK, Orderly, CachesInv, FlowInv, Suspend \/ Resume \/ ResumeFails
    PROVE  FlowInv'
<1>1. /\ UNCHANGED <<scene, routing, desc, sw, cam, harmed>>
      /\ hw'.tpg = FALSE /\ hw'.softEnable = {}
  <2>0. PICK h : h = HwReset
    OBVIOUS
  <2>1. h.tpg = FALSE /\ h.softEnable = {}
    BY <2>0 DEF HwReset
  <2>2. CASE Suspend
    BY <2>0, <2>1, <2>2 DEF Suspend
  <2>3. CASE Resume
    <3>1. PICK g : g = [h EXCEPT !.mode = sw.mode, !.tunnel = sw.gmsl = "tunnel",
                                 !.xlates = sw.xlates]
      OBVIOUS
    <3>2. hw' = g
      BY <2>0, <2>3, <3>1 DEF Resume
    <3>3. g.tpg = FALSE /\ g.softEnable = {}
      <4>1. h = [phy |-> h.phy, enabled |-> h.enabled, vcs |-> h.vcs, mode |-> h.mode,
                 dts |-> h.dts, soft |-> h.soft, softEnable |-> {}, tpg |-> FALSE,
                 tunnel |-> h.tunnel, xlates |-> h.xlates]
        BY <2>0 DEF HwReset
      <4> QED
        BY <3>1, <4>1
    <3> QED
      BY <2>3, <3>2, <3>3 DEF Resume
  <2>4. CASE ResumeFails
    <3>1. UNCHANGED <<scene, routing, desc, sw, cam, harmed>>
      BY <2>4 DEF ResumeFails
    <3> QED
      BY <2>4, <3>1, ResumeFailsSo
  <2> QED
    BY <2>2, <2>3, <2>4
<1>2. stale'.pipes = {q \in Pipes : sw.enabled[q]}
  <2>1. CASE Suspend
    BY <2>1 DEF Suspend
  <2>2. CASE Resume
    BY <2>2 DEF Resume, CachesInv
  <2>3. CASE ResumeFails
    BY <2>3, ResumeFailsSo DEF CachesInv
  <2> QED
    BY <2>1, <2>2, <2>3
<1>3. /\ OnOf(sw.on) /\ Known(sw.on) /\ Follow(Now, sw.on) /\ sw.tpg = TpgOn(sw.on) /\ Softly(Now)
      /\ \A h \in Phys : cam[h] = sw.on[h] /\ (sw.on[h] # {} /\ h \notin harmed => sw.active[h])
      /\ scene.chip.remap => sw.gmsl = "pixel" /\ Sent(Now, sw.on)
  BY DEF FlowInv
<1>4. PICK e : e = [sw |-> sw', hw |-> hw', cam |-> cam']
  OBVIOUS
<1>5. e.sw = sw /\ e.hw = hw' /\ e.cam = cam
  BY <1>1, <1>4
<1>6. Known(sw.on)'
  BY <1>1, <1>3, KnownKept
<1>7. Follow(e, e.sw.on) /\ Softly(e)
  BY <1>1, <1>3, <1>5 DEF Follow, Softly, Now
<1>8. TpgAgree(Now)'
  <2>1. sw.tpg => 0 \in Pipes /\ e.sw.enabled[0]
    BY <1>3, <1>5, <1>7, TpgOnLive
  <2>2. 0 \notin stale'.pipes => ~sw.tpg
    BY <1>2, <1>5, <2>1
  <2> QED
    BY <1>1, <2>2 DEF TpgAgree, Now
<1>9. ASSUME scene.chip.remap
      PROVE  Sent(Now, sw.on)'
  <2>1. ASSUME NEW q \in Pipes, Live(q, sw.on)'
        PROVE  q \in stale'.pipes /\ Assigned(sw.remaps, q)
    <3>1. Live(q, sw.on)
      BY <1>1, <2>1, RoutesKept
    <3> QED
      BY <1>2, <1>3, <1>9, <3>1 DEF Follow, Now, Sent
  <2>2. Pipes' = Pipes
    BY <1>1, SceneKept
  <2> QED
    BY <1>1, <2>1, <2>2 DEF Sent, Now, Assigned
<1> QED
  BY <1>1, <1>3, <1>5, <1>6, <1>7, <1>8, <1>9, FlowHolds

LEMMA FlowInit ==
    ASSUME Init, Orderly
    PROVE  FlowInv
<1>0. TypeOK
  BY InitTyped
<1>1. sw = SwReset /\ hw = HwReset /\ cam = [h \in Phys |-> {}]
  BY DEF Init
<1>2. /\ sw.on = [p \in Pads |-> {}] /\ sw.enabled = [q \in Pipes |-> FALSE]
      /\ sw.remaps = FirstRemaps /\ sw.gmsl = "pixel" /\ sw.tpg = FALSE
      /\ hw.tpg = FALSE /\ hw.softEnable = {}
  BY <1>1 DEF SwReset, HwReset
<1>3. Phys \cup {Tpg} \subseteq Pads /\ Source \in Pads
  BY <1>0, PadsApart DEF TypeOK
<1>4. (\A p \in Phys \cup {Tpg} : sw.on[p] = {}) /\ sw.on[Source] = {}
  BY <1>2, <1>3
<1>5. \A r \in Routes(routing) : ~IsOn(r, sw.on)
  BY <1>0, <1>4, NoneOn
<1>6. \A q : ~Live(q, sw.on) /\ ~TpgOn(sw.on) /\ Live(q, sw.on) \in BOOLEAN /\ TpgOn(sw.on) \in BOOLEAN
  BY <1>5 DEF Live, LiveOn, TpgOn
<1>7. OnOf(sw.on) /\ Known(sw.on)
  <2>1. \A p : Sinks(Requested({}), p) = {}
    BY DEF Sinks, Requested
  <2> QED
    BY <1>4, <1>5, <2>1 DEF OnOf, Known
<1>8. Follow(Now, sw.on) /\ sw.tpg = TpgOn(sw.on) /\ TpgAgree(Now)
  <2>1. \A q \in Pipes : sw.enabled[q] = Live(q, sw.on)
    <3>1. SUFFICES ASSUME NEW q \in Pipes
                   PROVE  sw.enabled[q] = Live(q, sw.on)
      OBVIOUS
    <3>2. sw.enabled[q] = FALSE
      BY <1>2
    <3> QED
      BY <1>6, <3>2
  <2>2. sw.tpg = TpgOn(sw.on)
    BY <1>2, <1>6
  <2> QED
    BY <1>2, <2>1, <2>2 DEF Follow, Now, TpgAgree
<1>9. Softly(Now)
  <2>1. CASE ~scene.chip.remap
    BY <1>2, <2>1 DEF Softly, Now, FirstRemaps, Assigned
  <2>2. CASE scene.chip.remap
    <3>1. Phys = {0, 1} /\ Pipes = {0, 1, 2, 3} /\ 0 \in Vcs
      BY <1>0, <2>2, Chips DEF TypeOK, Vcs
    <3>2. FindPipe(0, {0}) = 0
      BY <1>0, <3>1, FirstPipe DEF TypeOK, Orderly
    <3>3. Channels[0] = 0
      <4>1. SendsOn(scene, Channels)
        BY <2>2 DEF Orderly, KeepsChannels, Channels
      <4> QED
        BY <4>1 DEF SendsOn
    <3>4. PICK m : m = FirstRemaps
      OBVIOUS
    <3>5. m = [q \in Pipes |-> IF q = 0 THEN [src |-> 0, dst |-> 0] ELSE NoRemap]
      BY <2>2, <3>2, <3>4 DEF FirstRemaps
    <3>6. m[0].src = 0 /\ m[0].dst = 0 /\ Assigned(m, 0)
      BY <3>1, <3>5 DEF Assigned, NoRemap
    <3>7. \A q \in Pipes : Assigned(m, q) <=> q = 0
      BY <3>5, <3>6 DEF Assigned
    <3>8. GoodRemaps(m)
      BY <3>1, <3>3, <3>6, <3>7 DEF GoodRemaps
    <3> QED
      BY <1>2, <2>2, <3>4, <3>8 DEF Softly, Now
  <2> QED
    BY <2>1, <2>2
<1>10. \A h \in Phys : cam[h] = sw.on[h] /\ sw.on[h] = {}
  BY <1>1, <1>4
<1>11. Sent(Now, sw.on)
  BY <1>6 DEF Sent
<1> QED
  BY <1>2, <1>7, <1>8, <1>9, <1>10, <1>11 DEF FlowInv

\* The firmware's configuration and the cameras stay what they are.
StreamsInv == TypeOK /\ CachesInv /\ (Orderly => FlowInv)

LEMMA StreamsStep ==
    ASSUME StreamsInv, [Next]_vars
    PROVE  StreamsInv'
<1>1. TypeOK /\ CachesInv /\ TypeOK' /\ CachesInv'
  BY StepTyped, CachesStep DEF StreamsInv
<1>2. scene' = scene
  <2>1. CASE UNCHANGED vars
    BY <2>1 DEF vars
  <2>2. CASE Next
    BY <2>2 DEF Next, Enable, Disable, SetRouting, SetTpg, SetDoubleBpps, SetMode, Attach, Detach,
           ChangeDesc, Suspend, Resume, ResumeFails
  <2> QED
    BY <2>1, <2>2
<1>3. Orderly' <=> Orderly
  BY <1>2 DEF Orderly
<1>4. ASSUME Orderly
      PROVE  FlowInv'
  <2>1. FlowInv
    BY <1>4 DEF StreamsInv
  <2>2. CASE UNCHANGED vars
    <3>1. /\ scene' = scene /\ routing' = routing /\ stale' = stale /\ harmed' = harmed /\ cam' = cam
          /\ sw' = sw /\ hw' = hw /\ desc' = desc
      BY <2>2 DEF vars
    <3>2. Known(sw.on)' /\ (scene.chip.remap => sw.gmsl = "pixel")
      BY <2>1, <3>1, KnownKept DEF FlowInv
    <3> QED
      BY <1>1, <1>4, <2>1, <3>1, <3>2, FlowBeside
  <2>3. CASE Next
    BY <1>1, <1>4, <2>1, <2>3, FlowStreams, FlowRouting, FlowOthers, FlowPower DEF Next
  <2> QED
    BY <2>2, <2>3
<1> QED
  BY <1>1, <1>3, <1>4 DEF StreamsInv

\* A stream whose PHY and pipe are as they were left arrives on the channel
\* the deserializer is told, which is the one assigned to its pipe if one is.
LEMMA ArrivesAsAnnounced ==
    ASSUME TypeOK, Orderly, FlowInv, NEW r \in Healthy
    PROVE  /\ r \in Routes(routing) /\ PipeOf(r) \in Phys /\ Live(PipeOf(r), sw.on)
           /\ Announced(r) = OnWire(r)
           /\ scene.chip.remap => Assigned(sw.remaps, PipeOf(r))
                                  /\ OnWire(r) = sw.remaps[PipeOf(r)].dst
<1>1. /\ r \in Routes(routing) /\ IsOn(r, sw.on) /\ Resolves(r) /\ PipeOf(r) \notin stale.pipes
  BY DEF Healthy
<1>2. PICK q \in Phys : q = PipeOf(r)
  BY <1>1, PipeOfRoute, RoutingKnown
<1>3. q \in Pipes
  BY Chips DEF TypeOK
<1>4. Live(q, sw.on)
  BY <1>1, <1>2, OnIsLive
<1>5. CASE ~scene.chip.remap
  <2>1. hw.softEnable = {} /\ sw.remaps[q] = NoRemap
    BY <1>3, <1>5 DEF FlowInv, Softly, Now, Assigned
  <2> QED
    BY <1>1, <1>2, <1>4, <1>5, <2>1 DEF Announced, OnWire
<1>6. CASE scene.chip.remap
  <2>1. /\ Assigned(sw.remaps, q) /\ (q \in Moved(sw.remaps) => q \in hw.softEnable)
        /\ GoodRemaps(sw.remaps)
        /\ q \in hw.softEnable => hw.soft[q] = sw.remaps[q].dst
    BY <1>1, <1>2, <1>3, <1>4, <1>6 DEF FlowInv, Softly, Sent, Now
  <2>2. Vc(r) = Channels[q] /\ sw.remaps[q].src = Channels[q]
    BY <1>1, <1>2, <1>3, <1>6, <2>1, ChannelKnown, RoutingKnown DEF GoodRemaps
  <2>3. q \notin hw.softEnable => sw.remaps[q].src = sw.remaps[q].dst
    BY <1>3, <2>1 DEF Moved, Assigned
  <2>4. Announced(r) = sw.remaps[q].dst
    BY <1>2, <2>1 DEF Announced, Assigned
  <2>5. OnWire(r) = sw.remaps[q].dst
    BY <1>2, <2>1, <2>2, <2>3 DEF OnWire
  <2> QED
    BY <1>1, <1>2, <1>4, <2>1, <2>4, <2>5
<1> QED
  BY <1>5, <1>6

\* Whatever calls fail on the way, awake, every stream that is enabled has its
\* camera on, its PHY active and its pipe enabled, and arrives on the channel
\* announced, except on a PHY that a failed disable or a sleep while streaming
\* left behind; a pipe that carries none is off.
THEOREM StreamsAlwaysFlow == Spec => [](Orderly => StreamsFlow)
<1>1. Init => StreamsInv
  BY InitTyped, CachesInit, FlowInit DEF StreamsInv
<1>2. StreamsInv /\ [Next]_vars => StreamsInv'
  BY StreamsStep
<1>3. StreamsInv => (Orderly => StreamsFlow)
  <2>1. SUFFICES ASSUME TypeOK, CachesInv, Orderly, FlowInv, ~asleep
                 PROVE  StreamsFlow
    BY DEF StreamsInv, StreamsFlow
  <2>2. Phys \subseteq Pipes /\ Agree(Now)
    BY <2>1, Chips DEF TypeOK, CachesInv
  <2>3. ASSUME NEW r \in Healthy
        PROVE  /\ hw.enabled[PipeOf(r)]
               /\ IF r.pad = Tpg THEN hw.tpg ELSE hw.phy[r.pad] /\ r.sink \in cam[r.pad]
               /\ Announced(r) = OnWire(r)
    <3>1. /\ r \in Routes(routing) /\ PipeOf(r) \in Phys /\ Live(PipeOf(r), sw.on)
          /\ Announced(r) = OnWire(r)
      BY <2>1, <2>3, ArrivesAsAnnounced
    <3>2. /\ IsOn(r, sw.on) /\ r.pad \notin harmed /\ r.pad \notin stale.phys
          /\ PipeOf(r) \notin stale.pipes
      BY <2>3 DEF Healthy
    <3>3. sw.enabled[PipeOf(r)]
      BY <2>1, <2>2, <3>1 DEF FlowInv, Follow, Now
    <3>4. hw.enabled[PipeOf(r)]
      BY <2>2, <3>1, <3>2, <3>3 DEF Agree, Now
    <3>5. CASE r.pad = Tpg
      <4>1. TpgOn(sw.on) /\ 0 \notin stale.pipes
        BY <3>1, <3>2, <3>5 DEF TpgOn, PipeOf
      <4>2. hw.tpg
        BY <2>1, <4>1 DEF FlowInv, TpgAgree, Now
      <4> QED
        BY <3>1, <3>4, <3>5, <4>2
    <3>6. CASE r.pad # Tpg
      <4>1. r.pad \in Phys
        BY <2>1, <3>1, <3>6, RouteKnown
      <4>2. r.sink \in sw.on[r.pad]
        BY <3>2 DEF IsOn
      <4>3. sw.active[r.pad] /\ r.sink \in cam[r.pad]
        BY <2>1, <3>2, <4>1, <4>2 DEF FlowInv
      <4>4. hw.phy[r.pad]
        BY <2>2, <3>2, <4>1, <4>3 DEF Agree, Now
      <4> QED
        BY <3>1, <3>4, <3>6, <4>3, <4>4
    <3> QED
      BY <3>5, <3>6
  <2>4. ASSUME NEW q \in Pipes, LiveOn(q, sw.on) = {}
        PROVE  ~hw.enabled[q]
    <3>1. ~sw.enabled[q]
      BY <2>1, <2>4 DEF FlowInv, Follow, Now, Live
    <3> QED
      BY <2>2, <3>1 DEF Agree, Now
  <2> QED
    BY <2>3, <2>4 DEF StreamsFlow
<1> QED
  BY <1>1, <1>2, <1>3, PTL DEF Spec

\* No two pipes of a serializer that remaps channels ever send on the same one.
THEOREM ChannelsNeverCollide == Spec => [](Orderly => NoCollision)
<1>1. Init => StreamsInv
  BY InitTyped, CachesInit, FlowInit DEF StreamsInv
<1>2. StreamsInv /\ [Next]_vars => StreamsInv'
  BY StreamsStep
<1>3. StreamsInv => (Orderly => NoCollision)
  <2>1. SUFFICES ASSUME TypeOK, Orderly, FlowInv, scene.chip.remap,
                        NEW r \in Healthy, NEW t \in Healthy, PipeOf(r) # PipeOf(t)
                 PROVE  OnWire(r) # OnWire(t)
    BY DEF StreamsInv, NoCollision
  <2>2. /\ PipeOf(r) \in Phys /\ Assigned(sw.remaps, PipeOf(r))
        /\ OnWire(r) = sw.remaps[PipeOf(r)].dst
    BY <2>1, ArrivesAsAnnounced
  <2>3. /\ PipeOf(t) \in Phys /\ Assigned(sw.remaps, PipeOf(t))
        /\ OnWire(t) = sw.remaps[PipeOf(t)].dst
    BY <2>1, ArrivesAsAnnounced
  <2>4. GoodRemaps(sw.remaps) /\ Phys \subseteq Pipes
    BY <2>1, Chips DEF FlowInv, Softly, Now, TypeOK
  <2> QED
    BY <2>1, <2>2, <2>3, <2>4 DEF GoodRemaps
<1> QED
  BY <1>1, <1>2, <1>3, PTL DEF Spec
=============================================================================
