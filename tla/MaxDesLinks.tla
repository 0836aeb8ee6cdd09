----------------------------- MODULE MaxDesLinks -----------------------------
(***************************************************************************)
(* How the deserializer core of max_des.c finds the serializers behind its *)
(* GMSL links: every serializer powers up at the same I2C address, so one  *)
(* link is selected at a time, a link version is tried, the serializer is  *)
(* reset and moved to its alias, and in the end all links are selected.    *)
(* Suspend cuts the serializers' supply; resume does it all again.         *)
(*                                                                         *)
(* One action is one call that reaches the chip or a serializer, so that a *)
(* call can fail or a wait can time out anywhere.                          *)
(***************************************************************************)
EXTENDS Integers, FiniteSets, FiniteSetsExt

CONSTANTS
    Scenes,       \* deserializer, links and serializers: chosen at Init
    MaxFaults,    \* calls that fail and waits that time out
    MaxResumes    \* bound on suspend/resume cycles

(* A scene is a record                                                     *)
(*   links, enabled  the chip's links, and those an endpoint is parsed for *)
(*   versions, single, fix, atr  struct max_des_ops                        *)
(*   rate   per link: the version its serializer is strapped for, or NoSer *)
(*   powerUp, alias  per link: the addresses of its client                 *)
(*   pocs   the links with a supply of their own                           *)
NoSer == -1
MAX_SERDES_GMSL_MAX == 2
MAX_DES_NUM_LINKS == 4

(* The chips with several links translate addresses, to aliases that no    *)
(* device of the bus has; a chip with one link keeps the address.          *)
ASSUME ScenesAssumption ==
    \A s \in Scenes :
        /\ s.links # {} /\ s.links \subseteq 0 .. MAX_DES_NUM_LINKS - 1
        /\ s.enabled \subseteq s.links /\ s.pocs \subseteq s.links
        /\ s.versions # {} /\ s.versions \subseteq 0 .. MAX_SERDES_GMSL_MAX
        /\ s.powerUp \in [s.links -> Nat] /\ s.alias \in [s.links -> Nat]
        /\ ~ s.atr => Cardinality(s.links) = 1
        /\ s.atr => \A l, m \in s.links : /\ s.alias[l] # s.powerUp[m]
                                          /\ s.alias[l] = s.alias[m] => l = m

VARIABLES
    scene,
    state,     \* how far the driver is with the device
    sel,       \* links selected in the chip
    rate,      \* per link: the chip's version register
    ser,       \* per link: [addr, id] of the serializer
    uses,      \* per link: enable count of its supply
    xlate,     \* per link: link->ser_xlate and link->version
    job,       \* the attach under way
    todo,      \* links the running loop has yet to visit
    lost,      \* links the last resume gave up on
    budget     \* faults and resumes left

vars == <<scene, state, sel, rate, ser, uses, xlate, job, todo, lost, budget>>

Idle == [link |-> -1, stage |-> "none", version |-> -1, again |-> FALSE,
         addr |-> -1, alias |-> -1, re |-> FALSE]
NoXlate == [en |-> FALSE, src |-> -1, dst |-> -1, version |-> -1]
PoweredUp(l) == [addr |-> scene.powerUp[l], id |-> scene.powerUp[l]]

-----------------------------------------------------------------------------
(* The wires.                                                              *)

(* The version the receiver of a link runs at: one register for both links *)
(* of a chip that needs a single version.                                  *)
RateOf(l) == rate[IF scene.single THEN Min(scene.links) ELSE l]

Powered(l) == l \notin scene.pocs \/ uses[l] > 0

(* The serializers that answer at an address.                              *)
Answering(a) == {l \in sel : /\ scene.rate[l] # NoSer
                             /\ scene.rate[l] = RateOf(l)
                             /\ Powered(l)
                             /\ ser[l].addr = a}

(* A call that fails, or a serializer that does not answer in time.        *)
Fault == /\ budget.faults > 0
         /\ budget' = [budget EXCEPT !.faults = @ - 1]

(* A chip with one link has nothing to select.                             *)
SelectLinks(mask) == sel' = IF Cardinality(scene.links) = 1 THEN sel ELSE mask

WriteRate(l, v) ==
    rate' = [rate EXCEPT ![IF scene.single THEN Min(scene.links) ELSE l] = v]

-----------------------------------------------------------------------------
(* Supplies.                                                               *)

(* The links a sweep over the supplies calls, up to the one that fails.    *)
Supplies(fails) == {l \in scene.enabled \cap scene.pocs : \A f \in fails : l < f}

(* The switch of one direction; fails is {} or the link whose call fails.  *)
UpdatePocs(enable, fails) ==
    /\ uses' = [l \in scene.links |->
                  IF l \notin Supplies(fails) THEN uses[l]
                  ELSE IF enable THEN uses[l] + 1 ELSE uses[l] - 1]
    /\ ser' = [l \in scene.links |->
                  IF ~enable /\ l \in Supplies(fails) /\ uses[l] = 1
                    THEN PoweredUp(l) ELSE ser[l]]

(* A supply that is already off refuses to be disabled again.              *)
Unbalanced == {l \in scene.enabled \cap scene.pocs : uses[l] = 0}

-----------------------------------------------------------------------------
(* Attaching one serializer.                                               *)

(* Mutant: a chip with a single version offers each link the whole range.  *)
FindVersionRangeAnew(l) == 0 .. MAX_SERDES_GMSL_MAX

(* The versions to try; a first serializer fixes it for the others.        *)
FindVersionRange(l) ==
    LET bound == {m \in scene.enabled : xlate[m].en} IN
    IF scene.single /\ bound # {}
      THEN {xlate[Min(bound)].version}
      ELSE 0 .. MAX_SERDES_GMSL_MAX

Versions(l) == scene.versions \cap (IF xlate[l].en THEN {xlate[l].version}
                                                   ELSE FindVersionRange(l))

SerAttachAddr(l, addr, alias) ==
    job' = [link |-> l, stage |-> "version", version |-> Max(Versions(l)),
            again |-> FALSE, addr |-> addr, alias |-> alias, re |-> xlate[l].en]

(* An attempt failed: a reattach has one more, then a lower version.       *)
Retry ==
    LET lower == {v \in Versions(job.link) : v < job.version} IN
    IF job.re /\ ~job.again
      THEN /\ job' = [job EXCEPT !.again = TRUE, !.stage = "select"]
           /\ UNCHANGED lost
      ELSE IF lower # {}
             THEN /\ job' = [job EXCEPT !.version = Max(lower), !.stage = "version",
                                        !.again = FALSE]
                  /\ UNCHANGED lost
             ELSE /\ job' = Idle
                  /\ lost' = lost \cup {job.link}

At(stage) == job.stage = stage
Go(stage) == job' = [job EXCEPT !.stage = stage]

(* Setting the version fails the whole attach, not the attempt.            *)
SetLinkVersion ==
    /\ At("version")
    /\ \/ /\ WriteRate(job.link, job.version)
          /\ Go("select")
          /\ UNCHANGED <<lost, budget>>
       \/ /\ Fault
          /\ job' = Idle
          /\ lost' = lost \cup {job.link}
          /\ UNCHANGED rate
    /\ UNCHANGED <<scene, state, sel, ser, uses, xlate, todo>>

(* Mutant: the link joins those that are selected already.                 *)
SelectOneMore ==
    /\ At("select")
    /\ \/ SelectLinks(sel \cup {job.link}) /\ Go("find") /\ UNCHANGED <<lost, budget>>
       \/ Fault /\ Retry /\ UNCHANGED sel
    /\ UNCHANGED <<scene, state, rate, ser, uses, xlate, todo>>

SelectOne ==
    /\ At("select")
    /\ \/ SelectLinks({job.link}) /\ Go("find") /\ UNCHANGED <<lost, budget>>
       \/ Fault /\ Retry /\ UNCHANGED sel
    /\ UNCHANGED <<scene, state, rate, ser, uses, xlate, todo>>

(* max_ser_wait_for_multiple, max_ser_wait: until something answers. What  *)
(* is read is the serializer's own address, never 0.                       *)
WaitFor(stage, addrs, next) ==
    /\ At(stage)
    /\ \/ \E a \in addrs : Answering(a) # {}
          /\ Go(next)
          /\ UNCHANGED <<lost, budget>>
       \/ /\ \A a \in addrs : Answering(a) = {}
          /\ Retry
          /\ UNCHANGED budget
       \/ Fault /\ Retry
    /\ UNCHANGED <<scene, state, sel, rate, ser, uses, xlate, todo>>

WaitEither  == WaitFor("find", {job.addr, job.alias}, "reset")
WaitPowerUp == WaitFor("boot", {job.addr}, "move")
WaitMoved   == WaitFor("moved", {job.alias}, IF scene.fix THEN "fix" ELSE "done")

(* A register write to an address reaches everything that answers there.   *)
Write(stage, a, effect(_), next) ==
    /\ At(stage)
    /\ \/ /\ Answering(a) # {}
          /\ ser' = [l \in scene.links |-> IF l \in Answering(a) THEN effect(l) ELSE ser[l]]
          /\ Go(next)
          /\ UNCHANGED <<lost, budget>>
       \/ /\ Answering(a) = {}
          /\ Retry
          /\ UNCHANGED <<ser, budget>>
       \/ Fault /\ Retry /\ UNCHANGED ser
    /\ UNCHANGED <<scene, state, sel, rate, uses, xlate, todo>>

(* The wait tries the power-up address first and remembers what answered.  *)
SerReset == LET current == IF Answering(job.addr) # {} THEN job.addr ELSE job.alias
            IN Write("reset", current, PoweredUp, "boot")

SerChangeAddress ==
    LET Moved(l) == [ser[l] EXCEPT !.addr = job.alias]
    IN Write("move", job.addr, Moved, "moved")

SerFixTxIds ==
    LET Fixed(l) == [ser[l] EXCEPT !.id = job.alias]
    IN Write("fix", job.alias, Fixed, "done")

Attached ==
    /\ At("done")
    /\ xlate' = [xlate EXCEPT ![job.link] =
                   [en |-> TRUE, src |-> job.alias, dst |-> job.addr,
                    version |-> job.version]]
    /\ job' = Idle
    /\ lost' = lost \ {job.link}
    /\ UNCHANGED <<scene, state, sel, rate, ser, uses, todo, budget>>

-----------------------------------------------------------------------------
(* Probe.                                                                  *)

Init ==
    /\ scene \in Scenes
    /\ state = "off"
    /\ sel = scene.links
    /\ rate = [l \in scene.links |-> 1]
    (* A warm boot finds serializers that keep the alias of the last one.  *)
    /\ \E warm \in SUBSET scene.links :
         ser = [l \in scene.links |->
                  IF l \in warm \ scene.pocs THEN [addr |-> scene.alias[l], id |-> scene.alias[l]]
                                             ELSE PoweredUp(l)]
    /\ uses = [l \in scene.links |-> 0]
    /\ xlate = [l \in scene.links |-> NoXlate]
    /\ job = Idle /\ todo = {} /\ lost = {}
    /\ budget = [faults |-> MaxFaults, resumes |-> MaxResumes]

(* max_des_probe up to the adapters.                                       *)
Probe ==
    /\ state = "off"
    /\ \/ /\ UpdatePocs(TRUE, {})
          /\ state' = "probing"
          /\ todo' = scene.enabled
          /\ UNCHANGED budget
       \/ \E l \in scene.enabled \cap scene.pocs :
          /\ Fault
          /\ UpdatePocs(TRUE, {l})
          /\ state' = "failed"
          /\ UNCHANGED todo
    /\ UNCHANGED <<scene, sel, rate, xlate, job, lost>>

(* The loop of max_des_i2c_atr_init or max_des_i2c_mux_init: adding a      *)
(* link's adapter creates its client, which asks for the alias (the mux    *)
(* keeps the address). A refused alias does not stop the loop.             *)
AddAdapter ==
    /\ state = "probing" /\ job = Idle /\ todo # {}
    /\ LET l == Min(todo) IN
       /\ SerAttachAddr(l, scene.powerUp[l],
                        IF scene.atr THEN scene.alias[l] ELSE scene.powerUp[l])
       /\ todo' = todo \ {l}
    /\ UNCHANGED <<scene, state, sel, rate, ser, uses, xlate, lost, budget>>

(* The end of max_des_i2c_atr_init; the mux selects at every transfer.     *)
AdaptersAdded ==
    /\ state = "probing" /\ job = Idle /\ todo = {}
    /\ \/ /\ (IF scene.atr THEN SelectLinks(scene.enabled) ELSE UNCHANGED sel)
          /\ state' = "ready"
          /\ UNCHANGED <<uses, ser, budget>>
       \/ /\ scene.atr
          /\ Fault
          /\ state' = "failed"
          /\ UpdatePocs(FALSE, {})
          /\ UNCHANGED sel
    /\ lost' = {}
    /\ UNCHANGED <<scene, rate, xlate, job, todo>>

-----------------------------------------------------------------------------
(* Power management.                                                       *)

(* max_des_suspend; a supply that refuses leaves the device running with   *)
(* the ones before it cut.                                                 *)
Suspend ==
    /\ state \in {"ready", "limp"} /\ budget.resumes > 0
    /\ \/ /\ Unbalanced = {}
          /\ UpdatePocs(FALSE, {})
          /\ state' = "suspended"
          /\ UNCHANGED budget
       \/ /\ Unbalanced # {}
          /\ UpdatePocs(FALSE, {Min(Unbalanced)})
          /\ state' = "stuck"
          /\ UNCHANGED budget
       \/ \E l \in (scene.enabled \cap scene.pocs) \ Unbalanced :
          /\ Fault
          /\ \A m \in Unbalanced : l < m
          /\ UpdatePocs(FALSE, {l})
          /\ state' = "stuck"
    /\ UNCHANGED <<scene, sel, rate, xlate, job, todo, lost>>

(* The chip driver resets the chip, then max_des_resume starts.            *)
Resume ==
    /\ state = "suspended"
    /\ sel' = scene.links
    /\ rate' = [l \in scene.links |-> 1]
    /\ lost' = {}
    /\ \/ /\ UpdatePocs(TRUE, {})
          /\ state' = "resuming"
          /\ todo' = {l \in scene.enabled : xlate[l].en}
          /\ budget' = [budget EXCEPT !.resumes = @ - 1]
       \/ /\ budget.faults > 0
          /\ budget' = [budget EXCEPT !.faults = @ - 1, !.resumes = @ - 1]
          /\ \/ \E l \in scene.enabled \cap scene.pocs : UpdatePocs(TRUE, {l})
             \/ UNCHANGED <<uses, ser>>      \* max_des_init failed: supplies off again
          /\ state' = "limp"
          /\ UNCHANGED todo
    /\ UNCHANGED <<scene, xlate, job>>

Reattach ==
    /\ state = "resuming" /\ job = Idle /\ todo # {}
    /\ LET l == Min(todo) IN
       /\ SerAttachAddr(l, xlate[l].dst, xlate[l].src)
       /\ todo' = todo \ {l}
    /\ UNCHANGED <<scene, state, sel, rate, ser, uses, xlate, lost, budget>>

(* A link that was given up on is only logged.                             *)
Resumed ==
    /\ state = "resuming" /\ job = Idle /\ todo = {}
    /\ \/ /\ SelectLinks(scene.enabled)
          /\ state' = "ready"
          /\ UNCHANGED <<uses, ser, budget>>
       \/ /\ Fault
          /\ state' = "limp"
          /\ UpdatePocs(FALSE, {})
          /\ UNCHANGED sel
    /\ UNCHANGED <<scene, rate, xlate, job, todo, lost>>

Next == \/ Probe \/ AddAdapter \/ AdaptersAdded
        \/ SetLinkVersion \/ SelectOne \/ WaitEither \/ SerReset \/ WaitPowerUp
        \/ SerChangeAddress \/ WaitMoved \/ SerFixTxIds \/ Attached
        \/ Suspend \/ Resume \/ Reattach \/ Resumed

Spec == Init /\ [][Next]_vars

-----------------------------------------------------------------------------
(* Properties.                                                             *)

(* With the device ready, the alias of every serializer that was attached  *)
(* is answered by that serializer and no other, at the version and with    *)
(* the transmitter ids it was given: whatever versions the other links     *)
(* were tried at, whichever attempts failed, and after every resume that   *)
(* did not give the link up (max_des_ser_attach_addr, max_des_resume).     *)
AliasesAnswered ==
    state = "ready" =>
        \A l \in scene.enabled \ lost :
            xlate[l].en => /\ Answering(xlate[l].src) = {l}
                           /\ scene.fix => ser[l].id = xlate[l].src

(* A serializer is reset or moved only while its own link is being         *)
(* attached: the writes go to an address that all of them power up with,   *)
(* and only the selection of one link keeps them apart                     *)
(* (max_des_init_link_ser_xlate).                                          *)
OnlyOwnLink ==
    [][\A l \in scene.links :
         ser'[l] # ser[l] => job.link = l \/ (job = Idle /\ uses'[l] < uses[l])]_vars
=============================================================================
