--------------------------- MODULE MaxDesBppProofs ---------------------------
(***************************************************************************)
(* Proofs about MaxDesBpp for every number of pipes, links and PHYs and    *)
(* every set of bpps the pipes may carry: when the pipes of a link go to   *)
(* one PHY, the two ends agree and the memory maps fit.                    *)
(***************************************************************************)
EXTENDS MaxDesBpp, TLAPS

----------------------------------------------------------------------------
(* What max_serdes_process_bpps() doubles *)

LEMMA LeastOf ==
    ASSUME NEW S \in SUBSET Bpps, S # {}
    PROVE  Least(S) \in S /\ \A y \in S : Least(S) <= y
<1>1. \E x \in S : \A y \in S : x <= y
  <2>1. SUFFICES ASSUME \A x \in S : \E y \in S : y < x PROVE FALSE
    BY DEF Bpps
  <2>2. 8 \notin S /\ 10 \notin S /\ 12 \notin S /\ 14 \notin S
    BY <2>1 DEF Bpps
  <2>3. 16 \notin S /\ 18 \notin S /\ 20 \notin S /\ 24 \notin S
    BY <2>1, <2>2 DEF Bpps
  <2> QED
    BY <2>2, <2>3 DEF Bpps
<1> QED
  BY <1>1 DEF Least

LEMMA GreatestOf ==
    ASSUME NEW S \in SUBSET Bpps, S # {}
    PROVE  Greatest(S) \in S /\ \A y \in S : y <= Greatest(S)
<1>1. \E x \in S : \A y \in S : y <= x
  <2>1. SUFFICES ASSUME \A x \in S : \E y \in S : x < y PROVE FALSE
    BY DEF Bpps
  <2>2. 24 \notin S /\ 20 \notin S /\ 18 \notin S /\ 16 \notin S
    BY <2>1 DEF Bpps
  <2>3. 14 \notin S /\ 12 \notin S /\ 10 \notin S /\ 8 \notin S
    BY <2>1, <2>2 DEF Bpps
  <2> QED
    BY <2>2, <2>3 DEF Bpps
<1> QED
  BY <1>1 DEF Greatest

LEMMA DoubledAllowed ==
    ASSUME NEW S \in SUBSET Bpps, NEW A \in SUBSET Bpps, Doubled(S, A) # NoBpp
    PROVE  /\ Doubled(S, A) \in A /\ Doubled(S, A) \in S
           /\ Doubled(S, A) = Doubled(S, Bpps)
<1>1. CanDouble(S) /\ S # {} /\ Least(S) \in A /\ Doubled(S, A) = Least(S)
  BY DEF Doubled, CanDouble
<1> QED
  BY <1>1, LeastOf DEF Doubled

\* A bpp of the pipe that a full allowance doubles is doubled when allowed.
LEMMA AllowedDoubles ==
    ASSUME NEW S \in SUBSET Bpps, NEW A \in SUBSET Bpps,
           NEW b \in S, b = Doubled(S, Bpps), b \in A
    PROVE  Doubled(S, A) = b /\ b # NoBpp /\ b = Least(S)
<1>1. b # NoBpp
  BY DEF Bpps, NoBpp
<1> QED
  BY <1>1 DEF Doubled

\* A pipe that carries 8 bpp doubled carries it alone or pads it.
LEMMA EightAlone ==
    ASSUME NEW S \in SUBSET Bpps, S # {}, Least(S) = 8
    PROVE  S = {8} \/ Greatest(S) > 8
<1>1. Least(S) \in S /\ \A y \in S : y <= Greatest(S)
  BY LeastOf, GreatestOf
<1>2. \A y \in S : y # 8 => y > 8
  BY DEF Bpps
<1>3. Greatest(S) \in S
  BY GreatestOf
<1>4. CASE \E y \in S : y # 8
  <2>1. PICK y \in S : y # 8
    BY <1>4
  <2>2. y > 8 /\ y \in Nat
    BY <2>1, <1>2 DEF Bpps
  <2>3. y <= Greatest(S)
    BY <1>1
  <2>4. Bpps \subseteq Nat
    BY DEF Bpps
  <2>5. Greatest(S) \in Nat
    BY <1>3, <2>4
  <2> QED
    BY <2>2, <2>3, <2>5
<1> QED
  BY <1>1, <1>4

LEMMA EightShared ==
    ASSUME NEW S \in SUBSET Bpps, S = {8}
    PROVE  ~ (Greatest(S) > 8)
BY GreatestOf

----------------------------------------------------------------------------
(* The inductive invariant *)

OneScene ==
    /\ linkOf \in [Pipes -> Links] /\ phyOf \in [Pipes -> Phys] /\ load \in [Pipes -> Loads]
    /\ SplitLinks \/ \A p, q \in Pipes : linkOf[p] = linkOf[q] => phyOf[p] = phyOf[q]

ContextTypes ==
    /\ ctx = [phys |-> ctx.phys, pipes |-> ctx.pipes, plain |-> ctx.plain, todo |-> ctx.todo,
              sharedPhys |-> ctx.sharedPhys, sharedPipes |-> ctx.sharedPipes,
              alone |-> ctx.alone]
    /\ ctx.phys \in [Phys -> SUBSET Bpps] /\ ctx.plain \in [Phys -> SUBSET Bpps]
    /\ ctx.pipes \in [Pipes -> SUBSET Bpps] /\ ctx.todo \subseteq Streams
    /\ ctx.sharedPhys \subseteq Phys /\ ctx.sharedPipes \subseteq Pipes

Twice(p, b)  == b \in load[p] /\ b = Doubled(load[p], Bpps)
Padded(p)    == load[p] # {} /\ Least(load[p]) = 8 /\ Greatest(load[p]) > 8

\* What the context holds was put there by a stream.
FromStreams ==
    /\ \A p \in Pipes : \A b \in ctx.pipes[p] : Twice(p, b) /\ b \in ctx.phys[phyOf[p]]
    /\ \A h \in Phys : \A b \in ctx.phys[h] : \E p \in Pipes : phyOf[p] = h /\ Twice(p, b)
    /\ \A h \in ctx.sharedPhys : \E p \in Pipes : phyOf[p] = h /\ Padded(p)
    /\ \A p \in ctx.sharedPipes : Padded(p)

\* What a stream has put into the context once it is collected.
Counted(p, b) ==
    /\ IF Twice(p, b) THEN b \in ctx.pipes[p] ELSE b \in ctx.plain[phyOf[p]]
    /\ Padded(p) => phyOf[p] \in ctx.sharedPhys /\ p \in ctx.sharedPipes
    /\ load[p] = {8} => phyOf[p] \in ctx.alone

Collecting ==
    stage = "collect" => \A s \in Streams : s \in ctx.todo \/ Counted(s[1], s[2])

\* What is doubled on a PHY is doubled by every stream of it with that bpp.
Settled ==
    /\ \A p \in Pipes : \A b \in load[p] :
          b \in ctx.phys[phyOf[p]] => Twice(p, b) /\ b \in ctx.pipes[p]
    /\ \A p \in Pipes : Padded(p) => phyOf[p] \in ctx.sharedPhys /\ p \in ctx.sharedPipes
    /\ \A p \in Pipes : load[p] = {8} => phyOf[p] \notin ctx.sharedPhys

\* A serializer that has a pipe to receive it knows what all of them double.
Told ==
    \A p \in Pipes :
        allowed[linkOf[p]] = UNION {ctx.pipes[q] : q \in {r \in Pipes : linkOf[r] = linkOf[p]}}

BppInv ==
    /\ OneScene
    /\ ContextTypes
    /\ FromStreams
    /\ Collecting
    /\ stage \in {"write", "tell", "enable", "flowing"} => Settled
    /\ stage \in {"tell", "enable", "flowing"} =>
          /\ phyMode = [h \in Phys |-> PhyModeOf(h)]
          /\ pipeMode = [p \in Pipes |-> PipeModeOf(p)]
    /\ stage \in {"enable", "flowing"} => Told
    /\ stage = "flowing" => serDouble = [p \in Pipes |-> Doubled(load[p], allowed[linkOf[p]])]

LEMMA BppInit == Init => BppInv
<1> SUFFICES ASSUME Init PROVE BppInv
  OBVIOUS
<1>1. OneScene
  BY DEF Init, Scenes, OneScene
<1>2. ContextTypes
  BY DEF Init, NoContext, ContextTypes
<1>3. FromStreams
  BY <1>1 DEF Init, NoContext, FromStreams
<1> QED
  BY <1>1, <1>2, <1>3 DEF Init, BppInv, Collecting

\* A pass starts from an empty context.
LEMMA BeginKeeps == BppInv /\ Begin => BppInv'
<1> SUFFICES ASSUME BppInv, Begin PROVE BppInv'
  OBVIOUS
<1>1. OneScene'
  BY DEF BppInv, Begin, scene, OneScene
<1>2. ContextTypes'
  BY DEF Begin, NoContext, scene, ContextTypes, Streams
<1>3. FromStreams'
  BY <1>1 DEF Begin, NoContext, FromStreams, OneScene
<1>4. Collecting'
  BY DEF Begin, NoContext, scene, Collecting, Streams
<1> QED
  BY <1>1, <1>2, <1>3, <1>4 DEF Begin, BppInv

LEMMA CollectKeeps ==
    ASSUME BppInv, NEW s \in Pipes \X Bpps, Collect(s) PROVE BppInv'
<1> DEFINE p == s[1]
           b == s[2]
           h == phyOf[p]
           twice == b = Doubled(load[p], Bpps)
           shared == Least(load[p]) = 8 /\ Greatest(load[p]) > 8
<1>0. /\ p \in Pipes /\ b \in Bpps /\ h \in Phys /\ s = <<p, b>> /\ b \in load[p]
      /\ stage = "collect" /\ UNCHANGED scene
  BY DEF BppInv, OneScene, ContextTypes, Collect, Streams
<1>1. CASE ~Streamable(load[p], Bpps)
  <2>1. UNCHANGED <<linkOf, phyOf, load, ctx>> /\ stage' = "refused"
    BY <1>1 DEF Collect, scene
  <2> QED
    BY <2>1 DEF BppInv, OneScene, ContextTypes, FromStreams, Collecting, Streams,
                Twice, Padded
<1>2. CASE Streamable(load[p], Bpps)
  <2>1. /\ ctx'.todo = ctx.todo \ {s}
        /\ ctx'.phys = [ctx.phys EXCEPT ![h] = IF twice THEN @ \cup {b} ELSE @]
        /\ ctx'.pipes = [ctx.pipes EXCEPT ![p] = IF twice THEN @ \cup {b} ELSE @]
        /\ ctx'.plain = [ctx.plain EXCEPT ![h] = IF twice THEN @ ELSE @ \cup {b}]
        /\ ctx'.sharedPhys = IF shared THEN ctx.sharedPhys \cup {h} ELSE ctx.sharedPhys
        /\ ctx'.sharedPipes = IF shared THEN ctx.sharedPipes \cup {p} ELSE ctx.sharedPipes
        /\ ctx'.alone = IF load[p] = {8} THEN ctx.alone \cup {h} ELSE ctx.alone
        /\ ctx' = [phys |-> ctx'.phys, pipes |-> ctx'.pipes, plain |-> ctx'.plain,
                   todo |-> ctx'.todo, sharedPhys |-> ctx'.sharedPhys,
                   sharedPipes |-> ctx'.sharedPipes, alone |-> ctx'.alone]
        /\ UNCHANGED <<stage, linkOf, phyOf, load>>
    BY <1>2, <1>0 DEF Collect, BppInv, ContextTypes, scene
  <2>2. OneScene'
    BY <2>1 DEF BppInv, OneScene
  <2>3. ContextTypes'
    BY <2>1, <1>0 DEF BppInv, ContextTypes, Streams
  <2>4. FromStreams'
    BY <2>1, <1>0 DEF BppInv, ContextTypes, FromStreams, OneScene, Twice, Padded
  <2>5. Collecting'
    BY <2>1, <1>0 DEF BppInv, ContextTypes, Collecting, Streams, Counted, OneScene,
                      Twice, Padded
  <2> QED
    BY <2>1, <2>2, <2>3, <2>4, <2>5, <1>0 DEF BppInv
<1> QED
  BY <1>1, <1>2

\* What some stream of a PHY does not double is taken from the doubled ones.
LEMMA SettleKeeps == BppInv /\ Settle => BppInv'
<1> SUFFICES ASSUME BppInv, Settle PROVE BppInv'
  OBVIOUS
<1>0. /\ stage = "collect" /\ ctx.todo = {} /\ UNCHANGED <<linkOf, phyOf, load>>
      /\ OneScene /\ ContextTypes /\ FromStreams /\ Collecting
  BY DEF BppInv, Settle, scene
<1>c. \A p \in Pipes : \A b \in load[p] : Counted(p, b)
  <2>1. ASSUME NEW p \in Pipes, NEW b \in load[p] PROVE <<p, b>> \in Streams
    BY <1>0, BppAssumption DEF Streams, OneScene
  <2> QED
    BY <2>1, <1>0 DEF Collecting
<1>1. CASE ctx.sharedPhys \cap ctx.alone # {}
  <2>1. UNCHANGED <<linkOf, phyOf, load, ctx>> /\ stage' = "refused"
    BY <1>1 DEF Settle, scene
  <2> QED
    BY <2>1 DEF BppInv, OneScene, ContextTypes, FromStreams, Collecting, Streams,
                Twice, Padded
<1>2. CASE ctx.sharedPhys \cap ctx.alone = {}
  <2> DEFINE phys == [h \in Phys |-> ctx.phys[h] \ ctx.plain[h]]
             pipes == [p \in Pipes |-> ctx.pipes[p] \cap phys[phyOf[p]]]
  <2>1. /\ ctx' = [ctx EXCEPT !.phys = phys, !.pipes = pipes]
        /\ stage' = "write"
    BY <1>2, <1>0 DEF Settle, ContextTypes
  <2>2. /\ ctx'.phys = phys /\ ctx'.pipes = pipes /\ ctx'.todo = {}
        /\ ctx'.plain = ctx.plain /\ ctx'.sharedPhys = ctx.sharedPhys
        /\ ctx'.sharedPipes = ctx.sharedPipes /\ ctx'.alone = ctx.alone
    BY <2>1, <1>0 DEF ContextTypes
  <2>3. OneScene'
    BY <1>0 DEF OneScene
  <2>4. ContextTypes'
    BY <2>1, <2>2, <1>0 DEF ContextTypes, OneScene
  <2>5. FromStreams'
    BY <2>2, <1>0 DEF ContextTypes, FromStreams, OneScene, Twice, Padded
  <2>6. Settled'
    <3>1. ASSUME NEW p \in Pipes, NEW b \in load[p], b \in phys[phyOf[p]]
          PROVE  Twice(p, b) /\ b \in pipes[p]
      BY <3>1, <1>c, <1>0 DEF Counted, OneScene
    <3>2. ASSUME NEW p \in Pipes, load[p] # {}
          PROVE  /\ Padded(p) => phyOf[p] \in ctx.sharedPhys /\ p \in ctx.sharedPipes
                 /\ load[p] = {8} => phyOf[p] \in ctx.alone
      BY <3>2, <1>c DEF Counted
    <3>3. \A p \in Pipes : load[p] = {8} => phyOf[p] \notin ctx.sharedPhys
      BY <3>2, <1>2
    <3>4. \A p \in Pipes : Padded(p) => phyOf[p] \in ctx.sharedPhys /\ p \in ctx.sharedPipes
      BY <3>2 DEF Padded
    <3> QED
      BY <3>1, <3>3, <3>4, <2>2, <1>0 DEF Settled, Twice, Padded
  <2> QED
    BY <2>1, <2>3, <2>4, <2>5, <2>6 DEF BppInv, Collecting
<1> QED
  BY <1>1, <1>2

\* The steps after the pass leave the context as it is.
LEMMA LaterKeeps == BppInv /\ (WriteModes \/ Tell \/ SerEnable) => BppInv'
<1> SUFFICES ASSUME BppInv, WriteModes \/ Tell \/ SerEnable PROVE BppInv'
  OBVIOUS
<1>1. UNCHANGED <<linkOf, phyOf, load, ctx>> /\ stage' # "collect"
  BY DEF WriteModes, Tell, SerEnable, scene
<1>2. /\ OneScene' /\ ContextTypes' /\ FromStreams' /\ Collecting'
      /\ Settled => Settled'
      /\ (UNCHANGED allowed => (Told <=> Told'))
      /\ \A h \in Phys : PhyModeOf(h)' = PhyModeOf(h)
      /\ \A p \in Pipes : PipeModeOf(p)' = PipeModeOf(p)
  BY <1>1 DEF BppInv, OneScene, ContextTypes, FromStreams, Collecting, Streams, Twice,
              Padded, Settled, Told, PhyModeOf, PipeModeOf
<1>3. CASE WriteModes
  BY <1>1, <1>2, <1>3 DEF BppInv, WriteModes
<1>4. CASE Tell
  BY <1>1, <1>2, <1>4 DEF BppInv, OneScene, Tell, Told
<1>5. CASE SerEnable
  BY <1>1, <1>2, <1>5 DEF BppInv, SerEnable, scene
<1> QED
  BY <1>3, <1>4, <1>5

LEMMA BppInvariant == Spec => []BppInv
<1>1. BppInv /\ [Next]_vars => BppInv'
  <2> SUFFICES ASSUME BppInv, [Next]_vars PROVE BppInv'
    OBVIOUS
  <2>1. CASE UNCHANGED vars
    BY <2>1 DEF vars, BppInv, OneScene, ContextTypes, FromStreams, Collecting, Streams,
                Counted, Twice, Padded, Settled, Told, PhyModeOf, PipeModeOf
  <2>2. CASE Next
    BY <2>2, BeginKeeps, CollectKeeps, SettleKeeps, LaterKeeps DEF Next
  <2> QED
    BY <2>1, <2>2
<1> QED
  BY <1>1, BppInit, PTL DEF Spec

----------------------------------------------------------------------------
(* The theorems *)

\* While frames flow: the serializer doubles what is left in the context.
LEMMA DoublesLeft ==
    ASSUME BppInv, SplitLinks = FALSE, stage = "flowing", NEW p \in Pipes
    PROVE  /\ \A b \in ctx.pipes[p] : serDouble[p] = b /\ b # NoBpp
           /\ serDouble[p] # NoBpp => serDouble[p] \in ctx.pipes[p]
<1>1. /\ OneScene /\ ContextTypes /\ FromStreams /\ Settled /\ Told
      /\ load[p] \in SUBSET Bpps /\ linkOf[p] \in Links /\ phyOf[p] \in Phys
      /\ serDouble[p] = Doubled(load[p], allowed[linkOf[p]])
  BY BppAssumption DEF BppInv, OneScene
<1>2. /\ allowed[linkOf[p]] = UNION {ctx.pipes[q] : q \in {r \in Pipes : linkOf[r] = linkOf[p]}}
      /\ allowed[linkOf[p]] \in SUBSET Bpps
  <2>1. allowed[linkOf[p]] = UNION {ctx.pipes[q] : q \in {r \in Pipes : linkOf[r] = linkOf[p]}}
    BY <1>1 DEF Told
  <2>2. \A q \in Pipes : ctx.pipes[q] \subseteq Bpps
    BY <1>1 DEF ContextTypes
  <2> QED
    BY <2>1, <2>2
<1>3. ASSUME NEW b \in ctx.pipes[p] PROVE serDouble[p] = b /\ b # NoBpp
  <2>1. b \in load[p] /\ b = Doubled(load[p], Bpps) /\ b \in allowed[linkOf[p]]
    BY <1>1, <1>2 DEF FromStreams, Twice
  <2> QED
    BY <2>1, <1>1, <1>2, AllowedDoubles
<1>4. ASSUME serDouble[p] # NoBpp PROVE serDouble[p] \in ctx.pipes[p]
  <2>1. serDouble[p] \in allowed[linkOf[p]] /\ serDouble[p] \in load[p]
    <3>1. PICK A \in SUBSET Bpps : A = allowed[linkOf[p]]
      BY <1>2
    <3>2. PICK S \in SUBSET Bpps : S = load[p]
      BY <1>1
    <3>3. Doubled(S, A) # NoBpp
      BY <1>1, <1>4, <3>1, <3>2
    <3>4. Doubled(S, A) \in A /\ Doubled(S, A) \in S
      BY <3>3, DoubledAllowed
    <3> QED
      BY <1>1, <3>1, <3>2, <3>4
  <2>2. PICK q \in Pipes : linkOf[q] = linkOf[p] /\ serDouble[p] \in ctx.pipes[q]
    BY <2>1, <1>2
  <2>3. phyOf[q] = phyOf[p]
    BY <2>2, <1>1 DEF OneScene
  <2>4. serDouble[p] \in ctx.phys[phyOf[p]]
    BY <2>2, <2>3, <1>1 DEF FromStreams
  <2> QED
    BY <2>1, <2>4, <1>1 DEF Settled
<1> QED
  BY <1>3, <1>4

(* When all pipes of a link go to one PHY, both ends of max_des_set_modes() *)
(* and max_ser_get_pipe_mode() double the same bpps, and a PHY never mixes *)
(* the doubled and the undoubled form of one.                              *)
THEOREM DoublingAlwaysAgrees ==
    ASSUME SplitLinks = FALSE PROVE Spec => []DoublingAgrees
<1>1. BppInv => DoublingAgrees
  <2> SUFFICES ASSUME BppInv, stage = "flowing"
               PROVE  /\ \A p \in Pipes :
                            ctx.pipes[p] = (IF serDouble[p] = NoBpp THEN {} ELSE {serDouble[p]})
                      /\ \A p, q \in Pipes : phyOf[p] = phyOf[q] /\ serDouble[p] # NoBpp
                            => serDouble[p] \notin load[q] \/ serDouble[q] = serDouble[p]
    BY DEF DoublingAgrees
  <2>1. ASSUME NEW p \in Pipes
        PROVE  ctx.pipes[p] = (IF serDouble[p] = NoBpp THEN {} ELSE {serDouble[p]})
    BY DoublesLeft
  <2>2. ASSUME NEW p \in Pipes, NEW q \in Pipes, phyOf[p] = phyOf[q],
               serDouble[p] # NoBpp, serDouble[p] \in load[q]
        PROVE  serDouble[q] = serDouble[p]
    <3>1. serDouble[p] \in ctx.pipes[p]
      BY <2>2, DoublesLeft
    <3>2. FromStreams /\ Settled
      BY DEF BppInv
    <3>3. serDouble[p] \in ctx.phys[phyOf[q]]
      BY <3>1, <3>2, <2>2 DEF FromStreams
    <3>4. serDouble[p] \in ctx.pipes[q]
      BY <3>2, <3>3, <2>2 DEF Settled
    <3> QED
      BY <3>4, DoublesLeft
  <2> QED
    BY <2>1, <2>2
<1> QED
  BY <1>1, BppInvariant, PTL

\* While frames flow: a bpp is in the context of a PHY when a pipe doubles it.
LEMMA FedWhenDoubled ==
    ASSUME BppInv, SplitLinks = FALSE, stage = "flowing", NEW h \in Phys, NEW b \in Bpps
    PROVE  b \in ctx.phys[h] <=> \E p \in Pipes : phyOf[p] = h /\ serDouble[p] = b
<1>0. FromStreams /\ Settled /\ b # NoBpp
  BY DEF BppInv, Bpps, NoBpp
<1>1. ASSUME b \in ctx.phys[h] PROVE \E p \in Pipes : phyOf[p] = h /\ serDouble[p] = b
  <2>1. PICK p \in Pipes : phyOf[p] = h /\ b \in load[p]
    BY <1>0, <1>1 DEF FromStreams, Twice
  <2>2. b \in ctx.pipes[p]
    BY <1>0, <1>1, <2>1 DEF Settled
  <2> QED
    BY <2>1, <2>2, DoublesLeft
<1>2. ASSUME NEW p \in Pipes, phyOf[p] = h, serDouble[p] = b PROVE b \in ctx.phys[h]
  BY <1>0, <1>2, DoublesLeft DEF FromStreams
<1> QED
  BY <1>1, <1>2

\* Its 8 bpp is padded when and only when pipe and PHY are marked for it.
LEMMA PaddedWhenMarked ==
    ASSUME BppInv, SplitLinks = FALSE, stage = "flowing", NEW p \in Pipes, serDouble[p] = 8
    PROVE  /\ load[p] = {8} <=> p \notin ctx.sharedPipes
           /\ load[p] = {8} <=> phyOf[p] \notin ctx.sharedPhys
<1>1. /\ FromStreams /\ Settled /\ load[p] \in SUBSET Bpps
  BY BppAssumption DEF BppInv, OneScene
<1>2. 8 \in load[p] /\ 8 = Doubled(load[p], Bpps)
  <2>1. serDouble[p] # NoBpp
    BY DEF NoBpp
  <2>2. 8 \in ctx.pipes[p]
    BY <2>1, DoublesLeft
  <2> QED
    BY <1>1, <2>2 DEF FromStreams, Twice
<1>3. Least(load[p]) = 8
  BY <1>1, <1>2, AllowedDoubles
<1>4. load[p] # {8} => Padded(p)
  BY <1>1, <1>2, <1>3, EightAlone DEF Padded
<1>5. load[p] = {8} => ~Padded(p)
  BY <1>1, EightShared DEF Padded
<1> QED
  BY <1>1, <1>4, <1>5 DEF Settled, FromStreams

(* The memory map that max_des_set_modes() gives a PHY is the one its      *)
(* streams need, the padded 8 bpp one included.                            *)
THEOREM MapsAlwaysFit ==
    ASSUME SplitLinks = FALSE PROVE Spec => []MapsFit
<1>1. BppInv => MapsFit
  <2> SUFFICES ASSUME BppInv, stage = "flowing", NEW h \in Phys
               PROVE  LET fed(b) == {p \in Pipes : phyOf[p] = h /\ serDouble[p] = b}
                      IN  /\ "alt_10" \in phyMode[h] <=> fed(10) # {}
                          /\ "alt_12" \in phyMode[h] <=> fed(12) # {}
                          /\ "alt2_8" \in phyMode[h] <=> \E p \in fed(8) : load[p] # {8}
                          /\ "alt_8" \in phyMode[h] <=> \E p \in fed(8) : load[p] = {8}
                          /\ \A p \in fed(8) : pipeMode[p] <=> load[p] = {8}
    BY DEF MapsFit
  <2> DEFINE fed(b) == {p \in Pipes : phyOf[p] = h /\ serDouble[p] = b}
  <2>1. /\ phyMode[h] = PhyModeOf(h)
        /\ \A p \in Pipes : pipeMode[p] = PipeModeOf(p)
        /\ FromStreams
    BY DEF BppInv
  <2>2. ASSUME NEW b \in Bpps PROVE b \in ctx.phys[h] <=> fed(b) # {}
    <3>1. b \in ctx.phys[h] <=> \E p \in Pipes : phyOf[p] = h /\ serDouble[p] = b
      BY FedWhenDoubled
    <3> QED
      BY <3>1
  <2>3. 8 \in Bpps /\ 10 \in Bpps /\ 12 \in Bpps
    BY DEF Bpps
  <2>4. \A p \in fed(8) : /\ load[p] = {8} <=> p \notin ctx.sharedPipes
                          /\ load[p] = {8} <=> h \notin ctx.sharedPhys
    BY PaddedWhenMarked
  <2>5. "alt_10" \in phyMode[h] <=> fed(10) # {}
    BY <2>1, <2>2, <2>3 DEF PhyModeOf
  <2>6. "alt_12" \in phyMode[h] <=> fed(12) # {}
    BY <2>1, <2>2, <2>3 DEF PhyModeOf
  <2>7. /\ "alt2_8" \in phyMode[h] <=> 8 \in ctx.phys[h] /\ h \in ctx.sharedPhys
        /\ "alt_8" \in phyMode[h] <=> 8 \in ctx.phys[h] /\ h \notin ctx.sharedPhys
    BY <2>1 DEF PhyModeOf
  <2>8. \A p \in fed(8) : pipeMode[p] <=> load[p] = {8}
    <3>1. 8 # NoBpp
      BY DEF NoBpp
    <3>2. ASSUME NEW p \in fed(8) PROVE 8 \in ctx.pipes[p]
      BY <3>1, DoublesLeft
    <3> QED
      BY <3>2, <2>1, <2>4 DEF PipeModeOf
  <2>9. 8 \in ctx.phys[h] <=> fed(8) # {}
    BY <2>2, <2>3
  <2> HIDE DEF fed
  <2>10. /\ "alt2_8" \in phyMode[h] <=> \E p \in fed(8) : load[p] # {8}
         /\ "alt_8" \in phyMode[h] <=> \E p \in fed(8) : load[p] = {8}
    BY <2>4, <2>7, <2>9
  <2> QED
    BY <2>5, <2>6, <2>8, <2>10 DEF fed
<1> QED
  BY <1>1, BppInvariant, PTL
=============================================================================
