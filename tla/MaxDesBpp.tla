----------------------------- MODULE MaxDesBpp -----------------------------
(***************************************************************************)
(* Agreeing on doubled bpps between the deserializer and its serializers:  *)
(* max_des_populate_mode_context() decides from the bpps of every pipe     *)
(* what is doubled on each pipe and PHY, max_des_set_modes() writes it and *)
(* tells each serializer what it may double, and each serializer works out *)
(* its own pipes when their streams are enabled (max_ser_get_pipe_mode).   *)
(*                                                                         *)
(* A scene gives each deserializer pipe its link, its PHY and the bpps of  *)
(* the streams it carries; a pipe that is not in use carries none.  The    *)
(* pipes of one link are distinct pipes of its serializer.  Every register *)
(* is written again from the scene of an update, so one update from each   *)
(* scene is what there is to see.                                          *)
(***************************************************************************)
EXTENDS MaxSerdesBpp, Sequences

CONSTANTS
    Pipes,      \* pipes of the deserializer
    Links,      \* its enabled links, each with a serializer
    Phys,       \* its CSI-2 PHYs
    Loads,      \* the sets of bpps a pipe may carry
    SplitLinks  \* whether the pipes of one link may go to different PHYs

ASSUME BppAssumption ==
    /\ IsFiniteSet(Pipes) /\ Loads \subseteq SUBSET Bpps /\ {} \in Loads
    /\ SplitLinks \in BOOLEAN

VARIABLES
    linkOf, phyOf, load,  \* the scene: link, PHY and bpps of each pipe
    ctx,        \* the mode context of the running update
    phyMode,    \* memory map alternates written to each PHY
    pipeMode,   \* doubling written to each deserializer pipe
    allowed,    \* bpps each serializer was told it may double
    serDouble,  \* the bpp the serializer doubles on each pipe
    stage

scene == <<linkOf, phyOf, load>>
vars  == <<linkOf, phyOf, load, ctx, phyMode, pipeMode, allowed, serDouble, stage>>

NoContext ==
    [phys |-> [h \in Phys |-> {}], pipes |-> [p \in Pipes |-> {}],
     plain |-> [h \in Phys |-> {}], todo |-> {},
     sharedPhys |-> {}, sharedPipes |-> {}, alone |-> {}]

Scenes ==
    {s \in [link : [Pipes -> Links], phy : [Pipes -> Phys], load : [Pipes -> Loads]] :
       SplitLinks \/ \A p, q \in Pipes : s.link[p] = s.link[q] => s.phy[p] = s.phy[q]}

Init ==
    /\ \E s \in Scenes : linkOf = s.link /\ phyOf = s.phy /\ load = s.load
    /\ ctx = NoContext
    /\ phyMode = [h \in Phys |-> {}]
    /\ pipeMode = [p \in Pipes |-> FALSE]
    /\ allowed = [l \in Links |-> {}]
    /\ serDouble = [p \in Pipes |-> NoBpp]
    /\ stage = "idle"

Streams == {s \in Pipes \X Bpps : s[2] \in load[s[1]]}

----------------------------------------------------------------------------
(* max_des_populate_mode_context() *)

\* The first pass over the routes: the bpps of each pipe are gathered.
Begin ==
    /\ stage = "idle"
    /\ ctx' = [NoContext EXCEPT !.todo = Streams]
    /\ stage' = "collect"
    /\ UNCHANGED <<scene, phyMode, pipeMode, allowed, serDouble>>

(* The second pass, one route: a combination no pipe can carry is refused, *)
(* else the stream counts as doubled or not for its pipe and its PHY.      *)
(* Mutant: the undoubled streams of the PHYs are not recorded.             *)
CollectOnlyDoubled(s) ==
    LET p == s[1]
        b == s[2]
    IN  /\ stage = "collect" /\ s \in ctx.todo
        /\ IF ~Streamable(load[p], Bpps)
           THEN UNCHANGED ctx /\ stage' = "refused"
           ELSE /\ ctx' = [ctx EXCEPT
                     !.todo = @ \ {s},
                     !.phys[phyOf[p]] = IF b = Doubled(load[p], Bpps) THEN @ \cup {b} ELSE @,
                     !.pipes[p] = IF b = Doubled(load[p], Bpps) THEN @ \cup {b} ELSE @]
                /\ UNCHANGED stage
        /\ UNCHANGED <<scene, phyMode, pipeMode, allowed, serDouble>>
Collect(s) ==
    LET p == s[1]
        b == s[2]
        h == phyOf[p]
        twice  == b = Doubled(load[p], Bpps)
        shared == Least(load[p]) = 8 /\ Greatest(load[p]) > 8
    IN  /\ stage = "collect" /\ s \in ctx.todo
        /\ IF ~Streamable(load[p], Bpps)
           THEN UNCHANGED ctx /\ stage' = "refused"
           ELSE /\ ctx' = [ctx EXCEPT
                     !.todo  = @ \ {s},
                     !.phys[h]  = IF twice THEN @ \cup {b} ELSE @,
                     !.pipes[p] = IF twice THEN @ \cup {b} ELSE @,
                     !.plain[h] = IF twice THEN @ ELSE @ \cup {b},
                     !.sharedPhys  = IF shared THEN @ \cup {h} ELSE @,
                     !.sharedPipes = IF shared THEN @ \cup {p} ELSE @,
                     !.alone = IF load[p] = {8} THEN @ \cup {h} ELSE @]
                /\ UNCHANGED stage
        /\ UNCHANGED <<scene, phyMode, pipeMode, allowed, serDouble>>

(* After the pass: 8 bpp padded to 16 and not padded cannot share a PHY.   *)
(* What some stream of a PHY does not double is not doubled on it at all,  *)
(* nor on the pipes that feed it.                                          *)
Settle ==
    /\ stage = "collect" /\ ctx.todo = {}
    /\ IF ctx.sharedPhys \cap ctx.alone # {}
       THEN UNCHANGED ctx /\ stage' = "refused"
       ELSE LET phys == [h \in Phys |-> ctx.phys[h] \ ctx.plain[h]]
            IN  /\ ctx' = [ctx EXCEPT !.phys = phys,
                             !.pipes = [p \in Pipes |-> @[p] \cap phys[phyOf[p]]]]
                /\ stage' = "write"
    /\ UNCHANGED <<scene, phyMode, pipeMode, allowed, serDouble>>

----------------------------------------------------------------------------
(* max_des_set_modes() *)

\* max_des_get_phy_mode(): the memory maps of the doubled streams of a PHY.
PhyModeOf(h) ==
    (IF 8 \notin ctx.phys[h] THEN {}
     ELSE IF h \in ctx.sharedPhys THEN {"alt2_8"} ELSE {"alt_8"})
    \cup (IF 10 \in ctx.phys[h] THEN {"alt_10"} ELSE {})
    \cup (IF 12 \in ctx.phys[h] THEN {"alt_12"} ELSE {})

\* max_des_get_pipe_mode(): only 8 bpp alone on its pipe is doubled here.
PipeModeOf(p) == 8 \in ctx.pipes[p] /\ p \notin ctx.sharedPipes

WriteModes ==
    /\ stage = "write"
    /\ phyMode' = [h \in Phys |-> PhyModeOf(h)]
    /\ pipeMode' = [p \in Pipes |-> PipeModeOf(p)]
    /\ stage' = "tell"
    /\ UNCHANGED <<scene, ctx, allowed, serDouble>>

\* Each serializer is told the doubled bpps of all the pipes of its link; one
\* whose link has no pipe is passed over.  Mutant: those of one pipe only.
TellOnePipe ==
    /\ stage = "tell"
    /\ allowed' = [l \in Links |->
          IF \A p \in Pipes : linkOf[p] # l THEN allowed[l]
          ELSE ctx.pipes[CHOOSE p \in Pipes : linkOf[p] = l]]
    /\ stage' = "enable"
    /\ UNCHANGED <<scene, ctx, phyMode, pipeMode, serDouble>>
Tell ==
    /\ stage = "tell"
    /\ allowed' = [l \in Links |->
          IF \A p \in Pipes : linkOf[p] # l THEN allowed[l]
          ELSE UNION {ctx.pipes[p] : p \in {q \in Pipes : linkOf[q] = l}}]
    /\ stage' = "enable"
    /\ UNCHANGED <<scene, ctx, phyMode, pipeMode, serDouble>>

----------------------------------------------------------------------------
(* Serializers *)

\* The serializers' pipes: a combination that cannot be sent without the
\* doubling that was not allowed fails the request there.
SerEnable ==
    /\ stage = "enable"
    /\ IF \A p \in Pipes : Streamable(load[p], allowed[linkOf[p]])
       THEN /\ serDouble' = [p \in Pipes |-> Doubled(load[p], allowed[linkOf[p]])]
            /\ stage' = "flowing"
       ELSE stage' = "refused" /\ UNCHANGED serDouble
    /\ UNCHANGED <<scene, ctx, phyMode, pipeMode, allowed>>

Next ==
    \/ Begin \/ Settle \/ WriteModes \/ Tell \/ SerEnable
    \/ \E s \in Pipes \X Bpps : Collect(s)

Spec == Init /\ [][Next]_vars

----------------------------------------------------------------------------
(* Properties *)

(* Both ends agree: while frames flow, a serializer pipe doubles a bpp     *)
(* exactly when the deserializer decided so for the pipe that receives it, *)
(* and a PHY never carries the same bpp both doubled and not doubled.      *)
DoublingAgrees ==
    stage = "flowing" =>
        /\ \A p \in Pipes : ctx.pipes[p] = (IF serDouble[p] = NoBpp THEN {} ELSE {serDouble[p]})
        /\ \A p, q \in Pipes : phyOf[p] = phyOf[q] /\ serDouble[p] # NoBpp
              => serDouble[p] \notin load[q] \/ serDouble[q] = serDouble[p]

(* The memory map of a PHY is the one its streams need: an alternate map   *)
(* for a bpp when and only when frames of that bpp arrive doubled, and for *)
(* 8 bpp the padded one when and only when a pipe pads it.                 *)
MapsFit ==
    stage = "flowing" => \A h \in Phys :
        LET fed(b) == {p \in Pipes : phyOf[p] = h /\ serDouble[p] = b}
        IN  /\ "alt_10" \in phyMode[h] <=> fed(10) # {}
            /\ "alt_12" \in phyMode[h] <=> fed(12) # {}
            /\ "alt2_8" \in phyMode[h] <=> \E p \in fed(8) : load[p] # {8}
            /\ "alt_8" \in phyMode[h] <=> \E p \in fed(8) : load[p] = {8}
            /\ \A p \in fed(8) : pipeMode[p] <=> load[p] = {8}
=============================================================================
