------------------------- MODULE MaxDesLinksProofs -------------------------
(***************************************************************************)
(* Proofs about MaxDesLinks for every chip of up to four links, every      *)
(* choice of serializers, versions, supplies and addresses, and any number *)
(* of faults and of suspend/resume cycles.                                 *)
(***************************************************************************)
EXTENDS MaxDesLinks, FiniteSetTheorems, TLAPS

----------------------------------------------------------------------------
(* The inductive invariant                                                 *)

Stages == {"none", "version", "select", "find", "reset", "boot", "move", "moved", "fix", "done"}
Jobs == [link : Int, stage : Stages, version : Int, again : BOOLEAN,
         addr : Int, alias : Int, re : BOOLEAN]
Xlates == [en : BOOLEAN, src : Int, dst : Int, version : Int]

TypeInv ==
    /\ scene \in Scenes
    /\ sel \subseteq scene.links
    /\ rate \in [scene.links -> Int]
    /\ ser \in [scene.links -> [addr : Nat, id : Nat]]
    /\ uses \in [scene.links -> Int]
    /\ xlate \in [scene.links -> Xlates]
    /\ job \in Jobs
    /\ todo \subseteq scene.enabled
    /\ lost \subseteq scene.enabled

\* The address the client of a link is to have in the end.
Target(l) == IF scene.atr THEN scene.alias[l] ELSE scene.powerUp[l]

\* The serializer of a link runs at the link's rate and has its target.
Reached(l) == /\ scene.rate[l] # NoSer /\ scene.rate[l] = RateOf(l)
              /\ Powered(l)
              /\ ser[l].addr = Target(l)

Settled(l) == /\ Reached(l)
              /\ RateOf(l) = xlate[l].version
              /\ scene.fix => ser[l].id = Target(l)

Active == job.stage # "none"

\* A serializer has no address but the one of its power-up and its alias.
AddressInv == \A l \in scene.links : ser[l].addr \in {scene.powerUp[l], scene.alias[l]}

\* What was learnt about a link is its own; one version for all if need be.
XlateInv ==
    /\ \A l \in scene.links : xlate[l].en =>
          /\ l \in scene.enabled
          /\ xlate[l].src = Target(l) /\ xlate[l].dst = scene.powerUp[l]
          /\ xlate[l].version \in scene.versions
    /\ scene.single => \A l, m \in scene.links :
          xlate[l].en /\ xlate[m].en => xlate[l].version = xlate[m].version

\* An attach runs only during probe and resume, on the selected link.
JobInv ==
    /\ state \notin {"probing", "resuming"} => job = Idle
    /\ ~ Active => job = Idle
    /\ Active => /\ job.link \in scene.enabled \ todo
                 /\ job.version \in Versions(job.link)
                 /\ job.addr = scene.powerUp[job.link]
                 /\ job.alias = Target(job.link)
    /\ job.stage \notin {"none", "version", "select"} => sel = {job.link}
    /\ job.stage \notin {"none", "version"} => RateOf(job.link) = job.version

\* What the last stages of an attach have found out.
DoneInv ==
    /\ job.stage \in {"fix", "done"} => Reached(job.link)
    /\ job.stage = "done" /\ scene.fix => ser[job.link].id = job.alias

SupplyInv ==
    /\ state = "off" => \A l \in scene.links : uses[l] = 0
    /\ state \in {"probing", "resuming", "ready"} =>
          \A l \in scene.enabled \cap scene.pocs : uses[l] = 1
    /\ state = "suspended" => \A l \in scene.enabled \cap scene.pocs : uses[l] = 0
    /\ state = "limp" /\ scene.enabled \cap scene.pocs # {} =>
          \E l \in scene.enabled \cap scene.pocs : uses[l] = 0

\* Only links that were attached are known, and a resume visits them all.
ProgressInv ==
    /\ state = "off" => \A l \in scene.links : ~ xlate[l].en
    /\ state = "probing" => \A l \in todo \cup lost \cup {job.link} :
                               l \in scene.links => ~ xlate[l].en
    /\ state = "resuming" => \A l \in todo : xlate[l].en
    /\ state = "ready" => /\ todo = {} /\ scene.enabled \subseteq sel
                          /\ sel = scene.enabled \/ Cardinality(scene.links) = 1

\* A link that is not being attached or waiting for it is as it was left.
SettledInv ==
    state \in {"probing", "resuming", "ready"} =>
        \A l \in scene.enabled \ (lost \cup todo \cup {job.link}) :
            xlate[l].en => Settled(l)

SingleInv == Cardinality(scene.links) = 1 => sel = scene.links

LinksInv == /\ TypeInv /\ SingleInv /\ AddressInv /\ XlateInv /\ JobInv /\ DoneInv
            /\ SupplyInv /\ ProgressInv /\ SettledInv
----------------------------------------------------------------------------
(* Sets of links and of versions                                           *)

\* What the scenes assume, for the scene at hand.
LEMMA SceneFacts ==
    ASSUME TypeInv
    PROVE  /\ scene.links # {} /\ scene.links \subseteq 0 .. 3
           /\ scene.enabled \subseteq scene.links /\ scene.pocs \subseteq scene.links
           /\ scene.versions # {} /\ scene.versions \subseteq 0 .. 2
           /\ scene.powerUp \in [scene.links -> Nat] /\ scene.alias \in [scene.links -> Nat]
           /\ ~ scene.atr => Cardinality(scene.links) = 1
           /\ scene.atr => \A l, m \in scene.links :
                 scene.alias[l] # scene.powerUp[m] /\ (scene.alias[l] = scene.alias[m] => l = m)
BY ScenesAssumption DEF TypeInv, MAX_DES_NUM_LINKS, MAX_SERDES_GMSL_MAX

\* The lowest link of a set that has one.
LEMMA MinIsMember == \A S : S \subseteq 0 .. 3 /\ S # {} => Min(S) \in S
<1> SUFFICES ASSUME NEW S, S \subseteq 0 .. 3, S # {} PROVE Min(S) \in S
  OBVIOUS
<1>1. \E x \in S : \A y \in S : x =< y
  <2>1. 0 .. 3 = {0, 1, 2, 3}
    OBVIOUS
  <2>2. CASE 0 \in S
    BY <2>2
  <2>3. CASE 0 \notin S /\ 1 \in S
    BY <2>1, <2>3
  <2>4. CASE 0 \notin S /\ 1 \notin S /\ 2 \in S
    <3>1. \A y \in S : y = 2 \/ y = 3
      BY <2>1, <2>4
    <3> QED
      BY <2>4, <3>1
  <2>5. CASE 0 \notin S /\ 1 \notin S /\ 2 \notin S
    <3>1. \A y \in S : y = 3
      BY <2>1, <2>5
    <3>2. PICK x \in S : TRUE
      OBVIOUS
    <3> QED
      BY <3>1, <3>2
  <2> QED
    BY <2>2, <2>3, <2>4, <2>5
<1> QED
  BY <1>1 DEF Min

\* The highest version of a set that has one.
LEMMA MaxIsMember == \A S : S \subseteq 0 .. 2 /\ S # {} => Max(S) \in S
<1> SUFFICES ASSUME NEW S, S \subseteq 0 .. 2, S # {} PROVE Max(S) \in S
  OBVIOUS
<1>1. \E x \in S : \A y \in S : x >= y
  <2>1. 0 .. 2 = {0, 1, 2}
    OBVIOUS
  <2>2. CASE 2 \in S
    BY <2>1, <2>2
  <2>3. CASE 2 \notin S /\ 1 \in S
    BY <2>1, <2>3
  <2>4. CASE 2 \notin S /\ 1 \notin S
    <3>1. \A y \in S : y = 0
      BY <2>1, <2>4
    <3>2. PICK x \in S : TRUE
      OBVIOUS
    <3> QED
      BY <3>1, <3>2
  <2> QED
    BY <2>2, <2>3, <2>4
<1> QED
  BY <1>1 DEF Max

\* A chip with one link has that link for all of its sets of links.
LEMMA OnlyLink ==
    ASSUME TypeInv, Cardinality(scene.links) = 1
    PROVE  \A l, m \in scene.links : l = m
<1>1. 0 \in Int /\ 3 \in Int
  OBVIOUS
<1>2. IsFiniteSet(0 .. 3)
  BY <1>1, FS_Interval, Zenon
<1>3. IsFiniteSet(scene.links)
  BY <1>2, SceneFacts, FS_Subset
<1>4. PICK x : scene.links = {x}
  BY <1>3, FS_Singleton
<1> QED
  BY <1>4

\* Of the versions to try there is one at least, and where the chip has one
\* version for all links none but that of the links attached before.
LEMMA VersionsToTry ==
    ASSUME TypeInv, XlateInv, NEW l \in scene.enabled
    PROVE  /\ Versions(l) \subseteq scene.versions /\ Versions(l) # {}
           /\ \A m \in scene.links : xlate[m].en /\ (scene.single \/ m = l) =>
                 Versions(l) \subseteq {xlate[m].version}
<1> DEFINE bound == {m \in scene.enabled : xlate[m].en}
<1>0. l \in scene.links
  BY SceneFacts
<1>1. \A m \in scene.links : xlate[m].en => m \in bound
  BY DEF XlateInv
<1>2. bound # {} => Min(bound) \in bound
  BY MinIsMember, SceneFacts
<1>3. bound \subseteq scene.links
  BY SceneFacts
<1>4. FindVersionRange(l) = IF scene.single /\ bound # {} THEN {xlate[Min(bound)].version}
                                                         ELSE 0 .. 2
  BY DEF FindVersionRange, MAX_SERDES_GMSL_MAX
<1> HIDE DEF bound
<1>5. CASE xlate[l].en
  <2>1. Versions(l) = scene.versions \cap {xlate[l].version}
    BY <1>5 DEF Versions
  <2>2. xlate[l].version \in scene.versions
    BY <1>0, <1>5 DEF XlateInv
  <2> QED
    BY <1>0, <1>5, <2>1, <2>2 DEF XlateInv
<1>6. CASE ~ xlate[l].en /\ scene.single /\ bound # {}
  <2>1. Versions(l) = scene.versions \cap {xlate[Min(bound)].version}
    BY <1>4, <1>6 DEF Versions
  <2>2. Min(bound) \in scene.links /\ xlate[Min(bound)].en
    BY <1>2, <1>3, <1>6 DEF bound
  <2>3. xlate[Min(bound)].version \in scene.versions
    BY <2>2 DEF XlateInv
  <2> QED
    BY <1>6, <2>1, <2>2, <2>3 DEF XlateInv
<1>7. CASE ~ xlate[l].en /\ ~ (scene.single /\ bound # {})
  <2>1. Versions(l) = scene.versions
    BY <1>4, <1>7, SceneFacts DEF Versions
  <2> QED
    BY <1>1, <1>7, <2>1, SceneFacts
<1> QED
  BY <1>5, <1>6, <1>7

----------------------------------------------------------------------------
(* Initial states                                                          *)

\* Before the probe nothing is attached, and an address is one of two.
LEMMA LinksInit == Init => LinksInv
<1> SUFFICES ASSUME Init PROVE LinksInv
  OBVIOUS
<1>1. /\ scene \in Scenes /\ sel = scene.links /\ state = "off"
      /\ rate = [l \in scene.links |-> 1] /\ uses = [l \in scene.links |-> 0]
      /\ xlate = [l \in scene.links |-> NoXlate]
      /\ job = Idle /\ todo = {} /\ lost = {}
  BY DEF Init
<1>2. PICK warm \in SUBSET scene.links :
        ser = [l \in scene.links |->
                 IF l \in warm \ scene.pocs THEN [addr |-> scene.alias[l], id |-> scene.alias[l]]
                                            ELSE PoweredUp(l)]
  BY DEF Init
<1>3. scene.powerUp \in [scene.links -> Nat] /\ scene.alias \in [scene.links -> Nat]
  BY <1>1, ScenesAssumption
<1>4. ser \in [scene.links -> [addr : Nat, id : Nat]] /\ AddressInv
  BY <1>2, <1>3 DEF PoweredUp, AddressInv
<1>5. Idle \in Jobs /\ NoXlate \in Xlates /\ Idle.stage = "none" /\ NoXlate.en = FALSE
  BY DEF Idle, Jobs, Stages, NoXlate, Xlates
<1>6. TypeInv
  BY <1>1, <1>4, <1>5 DEF TypeInv
<1> QED
  BY <1>1, <1>4, <1>5, <1>6 DEF LinksInv, SingleInv, XlateInv, JobInv, Active, DoneInv,
     SupplyInv, ProgressInv, SettledInv

----------------------------------------------------------------------------
(* The steps of an attach                                                  *)

\* While a link is attached, the rest of the world waits.
Waiting == UNCHANGED <<scene, state, uses, xlate, todo>>

\* The device is being probed or resumed whenever an attach is under way.
LEMMA AttachContext ==
    ASSUME LinksInv, Active
    PROVE  /\ state \in {"probing", "resuming"}
           /\ job.link \in scene.enabled /\ job.link \in scene.links /\ job.link \notin todo
           /\ Versions(job.link) \subseteq scene.versions
           /\ state = "probing" => ~ xlate[job.link].en
<1>1. Idle.stage = "none"
  BY DEF Idle
<1>2. state \in {"probing", "resuming"} /\ job.link \in scene.enabled /\ job.link \notin todo
  BY <1>1 DEF LinksInv, JobInv, Active
<1>3. job.link \in scene.links
  BY <1>2, SceneFacts DEF LinksInv
<1> QED
  BY <1>2, <1>3, VersionsToTry DEF LinksInv, ProgressInv

\* The parts that only the waiting variables are about.
LEMMA WaitingKeeps ==
    ASSUME LinksInv, Active, Waiting
    PROVE  /\ XlateInv' /\ SupplyInv'
           /\ \A l : Versions(l)' = Versions(l) /\ Target(l)' = Target(l)
<1>1. XlateInv' /\ \A l : Versions(l)' = Versions(l) /\ Target(l)' = Target(l)
  BY DEF Waiting, LinksInv, XlateInv, Versions, FindVersionRange, Target
<1>2. SupplyInv'
  BY DEF Waiting, LinksInv, SupplyInv
<1> QED
  BY <1>1, <1>2

\* An attach that is given up.
LEMMA GivingUpKeeps ==
    ASSUME LinksInv, Active, Waiting, UNCHANGED <<sel, ser>>,
           rate' \in [scene.links -> Int],
           job' = Idle, lost' = lost \cup {job.link},
           \A l \in scene.links \ {job.link} :
              xlate[l].en /\ l \notin lost \cup todo => RateOf(l)' = RateOf(l)
    PROVE  LinksInv'
<1>1. /\ state \in {"probing", "resuming"}
      /\ job.link \in scene.enabled /\ job.link \in scene.links
      /\ state = "probing" => ~ xlate[job.link].en
  BY AttachContext
<1>2. Idle.stage = "none" /\ Idle \in Jobs /\ Idle.link \notin scene.links
  BY SceneFacts DEF Idle, Jobs, Stages, LinksInv
<1>3. TypeInv'
  BY <1>1, <1>2 DEF TypeInv, LinksInv, Waiting
<1>4. SingleInv' /\ AddressInv'
  BY DEF LinksInv, SingleInv, AddressInv, Waiting
<1>5. JobInv' /\ DoneInv'
  BY <1>2 DEF JobInv, DoneInv, Active
<1>6. ProgressInv'
  BY <1>1, <1>2 DEF LinksInv, ProgressInv, Waiting
<1>7. SettledInv'
  <2> SUFFICES ASSUME NEW l \in scene.enabled, l \notin lost, l # job.link, l \notin todo,
                      xlate[l].en
               PROVE  Settled(l)'
    BY <1>1 DEF SettledInv, Waiting
  <2>1. Settled(l) /\ l \in scene.links
    BY <1>1, SceneFacts DEF LinksInv, SettledInv
  <2>2. RateOf(l)' = RateOf(l)
    BY <2>1
  <2> QED
    BY <2>1, <2>2 DEF Settled, Reached, Powered, Target, Waiting
<1> QED
  BY <1>3, <1>4, <1>5, <1>6, <1>7, WaitingKeeps DEF LinksInv

\* Another attempt, or none.
LEMMA RetryKeeps ==
    ASSUME LinksInv, Active, Retry, Waiting, UNCHANGED <<sel, ser, rate>>,
           job.stage # "version"
    PROVE  LinksInv'
<1>1. /\ state \in {"probing", "resuming"}
      /\ job.link \in scene.enabled /\ job.link \in scene.links /\ job.link \notin todo
      /\ Versions(job.link) \subseteq scene.versions
  BY AttachContext
<1>2. \A l : RateOf(l)' = RateOf(l)
  BY DEF RateOf, Waiting
<1>3. TypeInv /\ job \in Jobs
  BY DEF LinksInv, TypeInv
<1>4. CASE job' = Idle /\ lost' = lost \cup {job.link}
  <2>1. rate' \in [scene.links -> Int]
    BY DEF LinksInv, TypeInv
  <2> QED
    BY <1>2, <1>4, <2>1, GivingUpKeeps
<1>5. ASSUME lost' = lost, job' \in Jobs,
             UNCHANGED <<job.link, job.addr, job.alias>>,
             job'.stage \in {"version", "select"}, job'.version \in Versions(job.link),
             job'.stage = "select" => job'.version = job.version
      PROVE  LinksInv'
  <2>1. TypeInv'
    BY <1>5 DEF LinksInv, TypeInv, Waiting
  <2>2. SingleInv' /\ AddressInv' /\ ProgressInv'
    BY <1>5 DEF LinksInv, SingleInv, AddressInv, ProgressInv, Waiting
  <2>3. JobInv'
    BY <1>1, <1>2, <1>5, WaitingKeeps DEF LinksInv, JobInv, Active, Waiting
  <2>4. DoneInv'
    BY <1>5 DEF DoneInv
  <2>5. SettledInv'
    BY <1>2, <1>5 DEF LinksInv, SettledInv, Settled, Reached, Powered, Target, Waiting
  <2> QED
    BY <2>1, <2>2, <2>3, <2>4, <2>5, WaitingKeeps DEF LinksInv
<1>6. CASE job' = [job EXCEPT !.again = TRUE, !.stage = "select"] /\ lost' = lost
  <2>1. job.version \in Versions(job.link)
    BY DEF LinksInv, JobInv
  <2> QED
    BY <1>3, <1>5, <1>6, <2>1 DEF Jobs, Stages
<1>7. CASE \E v \in Versions(job.link) :
              /\ job' = [job EXCEPT !.version = v, !.stage = "version", !.again = FALSE]
              /\ lost' = lost
  <2>1. PICK v \in Versions(job.link) :
              job' = [job EXCEPT !.version = v, !.stage = "version", !.again = FALSE]
    BY <1>7
  <2>2. v \in Int
    BY <1>1, <1>3, SceneFacts
  <2> QED
    BY <1>3, <1>5, <1>7, <2>1, <2>2 DEF Jobs, Stages
<1>8. {v \in Versions(job.link) : v < job.version} # {} =>
          Max({v \in Versions(job.link) : v < job.version}) \in Versions(job.link)
  BY <1>1, <1>3, SceneFacts, MaxIsMember
<1> QED
  BY <1>4, <1>6, <1>7, <1>8 DEF Retry

\* A step that succeeds: the stage moves on, and if the selection or the
\* addressed serializer changes it is the one of the link being attached.
LEMMA ProgressKeeps ==
    ASSUME LinksInv, Active, Waiting, UNCHANGED <<rate, lost>>,
           NEW next \in Stages \ {"none", "version"}, Go(next), job.stage # "version",
           sel' = sel \/ sel' = {job.link}, SingleInv',
           next # "select" => sel' = {job.link},
           ser' \in [scene.links -> [addr : Nat, id : Nat]],
           \A l \in scene.links : l # job.link => ser'[l] = ser[l],
           ser'[job.link].addr \in {scene.powerUp[job.link], scene.alias[job.link]},
           next \in {"fix", "done"} => Reached(job.link)',
           next = "done" /\ scene.fix => ser'[job.link].id = job.alias
    PROVE  LinksInv'
<1>1. /\ state \in {"probing", "resuming"}
      /\ job.link \in scene.enabled /\ job.link \in scene.links /\ job.link \notin todo
  BY AttachContext
<1>2. job \in Jobs
  BY DEF LinksInv, TypeInv
<1>3. /\ job' \in Jobs /\ job'.stage = next /\ job'.version = job.version
      /\ UNCHANGED <<job.link, job.addr, job.alias>>
  BY <1>2 DEF Go, Jobs, Stages
<1>4. \A l : RateOf(l)' = RateOf(l)
  BY DEF RateOf, Waiting
<1>5. TypeInv'
  BY <1>1, <1>3 DEF LinksInv, TypeInv, Waiting
<1>6. AddressInv'
  BY DEF LinksInv, AddressInv, Waiting
<1>7. ProgressInv'
  BY <1>1, <1>3 DEF LinksInv, ProgressInv, Waiting
<1>8. JobInv'
  BY <1>1, <1>3, <1>4, WaitingKeeps DEF LinksInv, JobInv, Active, Waiting
<1>9. DoneInv'
  BY <1>3 DEF DoneInv, Waiting, Reached, RateOf, Powered, Target
<1>10. SettledInv'
  <2> SUFFICES ASSUME NEW l \in scene.enabled, l \notin lost, l # job.link, l \notin todo,
                      xlate[l].en
               PROVE  Settled(l)'
    BY <1>1, <1>3 DEF SettledInv, Waiting
  <2>1. Settled(l) /\ l \in scene.links
    BY <1>1, SceneFacts DEF LinksInv, SettledInv
  <2>2. ser'[l] = ser[l]
    BY <2>1
  <2> QED
    BY <1>4, <2>1, <2>2 DEF Settled, Reached, Powered, Target, Waiting
<1> QED
  BY <1>5, <1>6, <1>7, <1>8, <1>9, <1>10, WaitingKeeps DEF LinksInv

\* What the stages that write to a serializer know.
LEMMA SelectedFacts ==
    ASSUME LinksInv, job.stage \notin {"none", "version", "select"}
    PROVE  /\ Active /\ sel = {job.link} /\ job.link \in scene.links
           /\ job.alias = Target(job.link) /\ job.addr = scene.powerUp[job.link]
           /\ \A a : Answering(a) # {} =>
                 /\ Answering(a) = {job.link}
                 /\ scene.rate[job.link] # NoSer /\ scene.rate[job.link] = RateOf(job.link)
                 /\ Powered(job.link) /\ ser[job.link].addr = a
<1>1. Active /\ job.link \in scene.links
  BY AttachContext DEF Active
<1>2. sel = {job.link} /\ job.alias = Target(job.link) /\ job.addr = scene.powerUp[job.link]
  BY <1>1 DEF LinksInv, JobInv
<1> QED
  BY <1>1, <1>2 DEF Answering

\* A register write reaches the serializer of the link being attached only.
LEMMA OneIsWritten ==
    ASSUME LinksInv, job.stage \notin {"none", "version", "select"},
           NEW a, Answering(a) # {}, NEW f,
           ser' = [l \in scene.links |-> IF l \in Answering(a) THEN f[l] ELSE ser[l]],
           f[job.link] \in [addr : Nat, id : Nat]
    PROVE  /\ ser' \in [scene.links -> [addr : Nat, id : Nat]]
           /\ \A l \in scene.links : l # job.link => ser'[l] = ser[l]
           /\ ser'[job.link] = f[job.link]
<1>1. Answering(a) = {job.link} /\ job.link \in scene.links
  BY SelectedFacts
<1>2. ser \in [scene.links -> [addr : Nat, id : Nat]]
  BY DEF LinksInv, TypeInv
<1> QED
  BY <1>1, <1>2

\* Where the serializer still answers as before, a later stage is reached.
LEMMA AttachStep ==
    ASSUME LinksInv, Active,
           \/ SetLinkVersion \/ SelectOne \/ WaitEither \/ SerReset \/ WaitPowerUp
           \/ SerChangeAddress \/ WaitMoved \/ SerFixTxIds
    PROVE  LinksInv'
<1> USE DEF At
<1>1. /\ state \in {"probing", "resuming"}
      /\ job.link \in scene.enabled /\ job.link \in scene.links /\ job.link \notin todo
      /\ Versions(job.link) \subseteq scene.versions
  BY AttachContext
<1>2. /\ TypeInv /\ job \in Jobs /\ ser \in [scene.links -> [addr : Nat, id : Nat]]
      /\ rate \in [scene.links -> Int] /\ SingleInv
      /\ ser[job.link].addr \in {scene.powerUp[job.link], scene.alias[job.link]}
  BY <1>1 DEF LinksInv, TypeInv, AddressInv
<1>3. ASSUME Waiting, UNCHANGED <<rate, lost, sel, ser>>,
             NEW next \in Stages \ {"none", "version", "select"}, Go(next),
             job.stage \notin {"none", "version", "select"},
             next \in {"fix", "done"} => Reached(job.link),
             next = "done" => ~ scene.fix
      PROVE  LinksInv'
  <2>1. SingleInv' /\ sel' = {job.link}
    BY <1>2, <1>3, SelectedFacts DEF SingleInv, Waiting
  <2>2. next \in {"fix", "done"} => Reached(job.link)'
    BY <1>3 DEF Reached, RateOf, Powered, Target, Waiting, Go
  <2> QED
    BY <1>2, <1>3, <2>1, <2>2, ProgressKeeps
<1>4. CASE SetLinkVersion
  <2>1. Waiting /\ UNCHANGED <<sel, ser>> /\ job.stage = "version"
    BY <1>4 DEF SetLinkVersion, Waiting
  <2>2. CASE /\ job' = Idle /\ lost' = lost \cup {job.link} /\ UNCHANGED rate
    <3>1. \A l : RateOf(l)' = RateOf(l)
      BY <2>1, <2>2 DEF RateOf, Waiting
    <3>2. rate' \in [scene.links -> Int]
      BY <1>2, <2>2
    <3> QED
      BY <2>1, <2>2, <3>1, <3>2, GivingUpKeeps
  <2>3. CASE WriteRate(job.link, job.version) /\ Go("select") /\ UNCHANGED lost
    <3>1. Min(scene.links) \in scene.links
      BY <1>2, SceneFacts, MinIsMember
    <3>2. job.version \in Versions(job.link) /\ job.version \in Int
      BY <1>2 DEF LinksInv, JobInv, Jobs
    <3>3. rate' \in [scene.links -> Int]
      BY <1>2, <2>3, <3>1, <3>2 DEF WriteRate
    <3>6. /\ job' \in Jobs /\ job'.stage = "select" /\ job'.version = job.version
          /\ UNCHANGED <<job.link, job.addr, job.alias>>
      BY <1>2, <2>3 DEF Go, Jobs, Stages
    <3>4. RateOf(job.link)' = job.version
      BY <1>1, <1>2, <2>1, <2>3, <3>1, <3>6 DEF WriteRate, RateOf, Waiting
    <3>5. ASSUME NEW l \in scene.links, l # job.link, xlate[l].en, Settled(l)
          PROVE  RateOf(l)' = RateOf(l)
      <4>1. CASE scene.single
        <5>1. Versions(job.link) \subseteq {xlate[l].version}
          BY <1>1, <3>5, <4>1, VersionsToTry DEF LinksInv
        <5>2. job.version = RateOf(l)
          BY <3>2, <3>5, <5>1 DEF Settled
        <5>3. RateOf(l)' = RateOf(job.link)'
          BY <2>1, <4>1 DEF RateOf, Waiting
        <5> QED
          BY <3>4, <5>2, <5>3
      <4>2. CASE ~ scene.single
        BY <1>1, <1>2, <2>1, <2>3, <3>5, <4>2 DEF WriteRate, RateOf, Waiting
      <4> QED
        BY <4>1, <4>2
    <3>7. TypeInv'
      BY <2>1, <2>3, <3>3, <3>6 DEF LinksInv, TypeInv, Waiting
    <3>8. SingleInv' /\ AddressInv' /\ ProgressInv'
      BY <2>1, <2>3, <3>6 DEF LinksInv, SingleInv, AddressInv, ProgressInv, Waiting
    <3>9. JobInv'
      BY <1>1, <2>1, <3>4, <3>6, WaitingKeeps DEF LinksInv, JobInv, Active, Waiting
    <3>10. DoneInv'
      BY <3>6 DEF DoneInv
    <3>11. SettledInv'
      <4> SUFFICES ASSUME NEW l \in scene.enabled, l \notin lost, l # job.link, l \notin todo,
                          xlate[l].en
                   PROVE  Settled(l)'
        BY <1>1, <2>1, <2>3, <3>6 DEF SettledInv, Waiting
      <4>1. Settled(l) /\ l \in scene.links
        BY <1>1, <1>2, SceneFacts DEF LinksInv, SettledInv
      <4>2. RateOf(l)' = RateOf(l)
        BY <3>5, <4>1
      <4> QED
        BY <2>1, <4>1, <4>2 DEF Settled, Reached, Powered, Target, Waiting
    <3> QED
      BY <2>1, <3>7, <3>8, <3>9, <3>10, <3>11, WaitingKeeps DEF LinksInv
  <2> QED
    BY <1>4, <2>2, <2>3 DEF SetLinkVersion
<1>5. CASE SelectOne
  <2>1. Waiting /\ UNCHANGED <<rate, ser>> /\ job.stage = "select"
    BY <1>5 DEF SelectOne, Waiting
  <2>2. CASE Retry /\ UNCHANGED sel
    BY <2>1, <2>2, RetryKeeps
  <2>3. CASE SelectLinks({job.link}) /\ Go("find") /\ UNCHANGED lost
    <3>1. Cardinality(scene.links) = 1 => scene.links = {job.link}
      BY <1>1, <1>2, OnlyLink
    <3>2. sel' = {job.link}
      BY <1>2, <2>3, <3>1 DEF SelectLinks, SingleInv
    <3>3. SingleInv'
      BY <2>1, <3>1, <3>2 DEF SingleInv, Waiting
    <3>4. "find" \in Stages \ {"none", "version"}
      BY DEF Stages
    <3>5. /\ ser' \in [scene.links -> [addr : Nat, id : Nat]]
          /\ \A l \in scene.links : l # job.link => ser'[l] = ser[l]
          /\ ser'[job.link].addr \in {scene.powerUp[job.link], scene.alias[job.link]}
      BY <1>2, <2>1
    <3> QED
      BY <2>1, <2>3, <3>2, <3>3, <3>4, <3>5, ProgressKeeps
  <2> QED
    BY <1>5, <2>2, <2>3 DEF SelectOne
<1>6. CASE WaitEither
  <2>1. /\ Waiting /\ UNCHANGED <<rate, ser, sel>> /\ job.stage = "find"
        /\ Retry \/ (Go("reset") /\ UNCHANGED lost)
    BY <1>6 DEF WaitEither, WaitFor, Waiting
  <2>2. "reset" \in Stages \ {"none", "version", "select"}
    BY DEF Stages
  <2> QED
    BY <1>3, <2>1, <2>2, RetryKeeps
<1>7. CASE WaitPowerUp
  <2>1. /\ Waiting /\ UNCHANGED <<rate, ser, sel>> /\ job.stage = "boot"
        /\ Retry \/ (Go("move") /\ UNCHANGED lost)
    BY <1>7 DEF WaitPowerUp, WaitFor, Waiting
  <2>2. "move" \in Stages \ {"none", "version", "select"}
    BY DEF Stages
  <2> QED
    BY <1>3, <2>1, <2>2, RetryKeeps
<1>8. CASE WaitMoved
  <2> DEFINE next == IF scene.fix THEN "fix" ELSE "done"
  <2>1. /\ Waiting /\ UNCHANGED <<rate, ser, sel>> /\ job.stage = "moved"
        /\ \/ Retry
           \/ Answering(job.alias) # {} /\ Go(next) /\ UNCHANGED lost
    BY <1>8 DEF WaitMoved, WaitFor, Waiting
  <2>2. next \in Stages \ {"none", "version", "select"} /\ (next = "done" => ~ scene.fix)
    BY DEF Stages
  <2>3. Answering(job.alias) # {} => Reached(job.link)
    BY <2>1, SelectedFacts DEF Reached
  <2> HIDE DEF next
  <2> QED
    BY <1>3, <2>1, <2>2, <2>3, RetryKeeps
<1>9. ASSUME Waiting, UNCHANGED <<rate, lost, sel>>,
             NEW next \in {"boot", "moved", "done"}, Go(next),
             job.stage \notin {"none", "version", "select"},
             NEW a, Answering(a) # {}, NEW v \in [addr : Nat, id : Nat],
             ser' = [l \in scene.links |-> IF l \in Answering(a) THEN v ELSE ser[l]],
             v.addr \in {scene.powerUp[job.link], scene.alias[job.link]},
             next = "done" => v.addr = a /\ a = job.alias /\ v.id = job.alias
      PROVE  LinksInv'
  <2> DEFINE f == [l \in scene.links |-> v]
  <2>1. f[job.link] = v
    BY <1>1
  <2>2. ser' = [l \in scene.links |-> IF l \in Answering(a) THEN f[l] ELSE ser[l]]
    BY <1>9
  <2> HIDE DEF f
  <2>3. /\ ser' \in [scene.links -> [addr : Nat, id : Nat]]
        /\ \A l \in scene.links : l # job.link => ser'[l] = ser[l]
        /\ ser'[job.link] = v
    BY <1>9, <2>1, <2>2, OneIsWritten
  <2>4. next = "done" => Reached(job.link)'
    <3> SUFFICES ASSUME next = "done" PROVE Reached(job.link)'
      OBVIOUS
    <3>1. /\ scene.rate[job.link] # NoSer /\ scene.rate[job.link] = RateOf(job.link)
          /\ Powered(job.link) /\ job.alias = Target(job.link)
      BY <1>9, SelectedFacts
    <3>2. PICK k \in scene.links : k = job.link
      BY <1>1
    <3>3. Reached(k)'
      BY <1>9, <2>3, <3>1, <3>2 DEF Reached, RateOf, Powered, Target, Waiting
    <3>4. job'.link = k
      BY <1>2, <1>9, <3>2 DEF Go, Jobs
    <3> QED
      BY <3>3, <3>4
  <2>5. SingleInv' /\ sel' = {job.link}
    BY <1>2, <1>9, SelectedFacts DEF SingleInv, Waiting
  <2>6. next \in Stages \ {"none", "version", "select"}
    BY <1>9 DEF Stages
  <2> QED
    BY <1>9, <2>3, <2>4, <2>5, <2>6, ProgressKeeps
<1>10. CASE SerReset
  <2>1. PICK a : /\ Write("reset", a, PoweredUp, "boot")
    BY <1>10 DEF SerReset
  <2>2. /\ Waiting /\ UNCHANGED <<rate, sel>> /\ job.stage = "reset"
        /\ \/ Retry /\ UNCHANGED ser
           \/ /\ Go("boot") /\ UNCHANGED lost /\ Answering(a) # {}
              /\ ser' = [l \in scene.links |->
                            IF l \in Answering(a) THEN PoweredUp(l) ELSE ser[l]]
    BY <2>1 DEF Write, Waiting
  <2>3. Answering(a) # {} => Answering(a) = {job.link}
    BY <2>2, SelectedFacts
  <2>4. PoweredUp(job.link) \in [addr : Nat, id : Nat]
    BY <1>1, <1>2, SceneFacts DEF PoweredUp
  <2>5. CASE Retry /\ UNCHANGED ser
    BY <2>2, <2>5, RetryKeeps
  <2>6. CASE ~ (Retry /\ UNCHANGED ser)
    <3>1. ser' = [l \in scene.links |->
                     IF l \in Answering(a) THEN PoweredUp(job.link) ELSE ser[l]]
      BY <2>2, <2>3, <2>6
    <3>2. PoweredUp(job.link).addr = scene.powerUp[job.link]
      BY DEF PoweredUp
    <3> QED
      BY <1>9, <2>2, <2>4, <2>6, <3>1, <3>2
  <2> QED
    BY <2>5, <2>6
<1>11. CASE SerChangeAddress
  <2> DEFINE v == [ser[job.link] EXCEPT !.addr = job.alias]
  <2>1. /\ Waiting /\ UNCHANGED <<rate, sel>> /\ job.stage = "move"
        /\ \/ Retry /\ UNCHANGED ser
           \/ /\ Go("moved") /\ UNCHANGED lost /\ Answering(job.addr) # {}
              /\ ser' = [l \in scene.links |->
                            IF l \in Answering(job.addr)
                              THEN [ser[l] EXCEPT !.addr = job.alias] ELSE ser[l]]
    BY <1>11 DEF SerChangeAddress, Write, Waiting
  <2>2. Answering(job.addr) # {} => Answering(job.addr) = {job.link}
    BY <2>1, SelectedFacts
  <2>3. job.alias = Target(job.link)
    BY <2>1, SelectedFacts
  <2>4. v \in [addr : Nat, id : Nat] /\ v.addr \in {scene.powerUp[job.link], scene.alias[job.link]}
    BY <1>1, <1>2, <2>3, SceneFacts DEF Target
  <2>5. CASE Retry /\ UNCHANGED ser
    BY <2>1, <2>5, RetryKeeps
  <2>6. CASE ~ (Retry /\ UNCHANGED ser)
    <3>1. ser' = [l \in scene.links |-> IF l \in Answering(job.addr) THEN v ELSE ser[l]]
      BY <2>1, <2>2, <2>6
    <3> HIDE DEF v
    <3> QED
      BY <1>9, <2>1, <2>4, <2>6, <3>1
  <2> QED
    BY <2>5, <2>6
<1>12. CASE SerFixTxIds
  <2> DEFINE v == [ser[job.link] EXCEPT !.id = job.alias]
  <2>1. /\ Waiting /\ UNCHANGED <<rate, sel>> /\ job.stage = "fix"
        /\ \/ Retry /\ UNCHANGED ser
           \/ /\ Go("done") /\ UNCHANGED lost /\ Answering(job.alias) # {}
              /\ ser' = [l \in scene.links |->
                            IF l \in Answering(job.alias)
                              THEN [ser[l] EXCEPT !.id = job.alias] ELSE ser[l]]
    BY <1>12 DEF SerFixTxIds, Write, Waiting
  <2>2. Answering(job.alias) # {} =>
            Answering(job.alias) = {job.link} /\ ser[job.link].addr = job.alias
    BY <2>1, SelectedFacts
  <2>3. job.alias = Target(job.link)
    BY <2>1, SelectedFacts
  <2>4. /\ v \in [addr : Nat, id : Nat] /\ v.id = job.alias /\ v.addr = ser[job.link].addr
    BY <1>1, <1>2, <2>3, SceneFacts DEF Target
  <2>5. CASE Retry /\ UNCHANGED ser
    BY <2>1, <2>5, RetryKeeps
  <2>6. CASE ~ (Retry /\ UNCHANGED ser)
    <3>1. ser' = [l \in scene.links |-> IF l \in Answering(job.alias) THEN v ELSE ser[l]]
      BY <2>1, <2>2, <2>6
    <3> HIDE DEF v
    <3>2. v.addr = job.alias /\ v.addr \in {scene.powerUp[job.link], scene.alias[job.link]}
      BY <1>2, <2>1, <2>2, <2>4, <2>6
    <3> QED
      BY <1>9, <2>1, <2>4, <2>6, <3>1, <3>2
  <2> QED
    BY <2>5, <2>6
<1> QED
  BY <1>4, <1>5, <1>6, <1>7, <1>8, <1>10, <1>11, <1>12

\* The attach ends: what is remembered is what was reached.
LEMMA AttachedStep ==
    ASSUME LinksInv, Attached
    PROVE  LinksInv'
<1>1. /\ job.stage = "done" /\ Active /\ job' = Idle /\ lost' = lost \ {job.link}
      /\ UNCHANGED <<scene, state, sel, rate, ser, uses, todo>>
  BY DEF Attached, At, Active
<1>2. /\ state \in {"probing", "resuming"}
      /\ job.link \in scene.enabled /\ job.link \in scene.links /\ job.link \notin todo
      /\ Versions(job.link) \subseteq scene.versions
  BY <1>1, AttachContext
<1>3. PICK k \in scene.links : k = job.link
  BY <1>2
<1>4. /\ job.version \in Versions(k) /\ job.version \in scene.versions
      /\ job.addr = scene.powerUp[k] /\ job.alias = Target(k) /\ RateOf(k) = job.version
      /\ job.version \in Int /\ job.addr \in Int /\ job.alias \in Int
  BY <1>1, <1>2, <1>3 DEF LinksInv, TypeInv, Jobs, JobInv
<1>5. xlate' = [xlate EXCEPT ![k] = [en |-> TRUE, src |-> Target(k), dst |-> scene.powerUp[k],
                                     version |-> job.version]]
  BY <1>3, <1>4 DEF Attached
<1>6. xlate \in [scene.links -> Xlates]
  BY DEF LinksInv, TypeInv
<1>7. /\ \A l \in scene.links : l # k => xlate'[l] = xlate[l]
      /\ xlate'[k].en /\ xlate'[k].src = Target(k) /\ xlate'[k].dst = scene.powerUp[k]
      /\ xlate'[k].version = job.version
  BY <1>5, <1>6
<1>8. Idle.stage = "none" /\ Idle \in Jobs /\ Idle.link \notin scene.links
  BY SceneFacts DEF Idle, Jobs, Stages, LinksInv
<1>9. TypeInv'
  <2>1. xlate' \in [scene.links -> Xlates]
    BY <1>4, <1>5, <1>6 DEF Xlates
  <2> QED
    BY <1>1, <1>8, <2>1 DEF LinksInv, TypeInv
<1>10. SingleInv' /\ AddressInv' /\ SupplyInv'
  BY <1>1 DEF LinksInv, SingleInv, AddressInv, SupplyInv
<1>11. XlateInv'
  <2>1. \A l \in scene.links : Target(l)' = Target(l)
    BY <1>1 DEF Target
  <2>2. \A m \in scene.links : xlate[m].en /\ scene.single => xlate[m].version = job.version
    BY <1>2, <1>3, <1>4, VersionsToTry DEF LinksInv
  <2>3. \A l \in scene.links : xlate'[l].en =>
          /\ l \in scene.enabled
          /\ xlate'[l].src = Target(l) /\ xlate'[l].dst = scene.powerUp[l]
          /\ xlate'[l].version \in scene.versions
    BY <1>2, <1>3, <1>4, <1>7 DEF LinksInv, XlateInv
  <2>4. scene.single => \A l \in scene.links : xlate'[l].en => xlate'[l].version = job.version
    BY <1>7, <2>2
  <2> QED
    BY <1>1, <2>1, <2>3, <2>4 DEF XlateInv
<1>12. JobInv' /\ DoneInv'
  BY <1>1, <1>8 DEF JobInv, DoneInv, Active
<1>13. ProgressInv'
  <2>1. \A l \in todo \cup lost : l \in scene.links /\ l # k => xlate'[l] = xlate[l]
    BY <1>7
  <2>2. state' = "probing" => \A l \in todo' \cup lost' \cup {job'.link} :
                                 l \in scene.links => ~ xlate'[l].en
    <3> SUFFICES ASSUME state' = "probing", NEW l \in scene.links,
                        l \in todo \/ (l \in lost /\ l # k)
                 PROVE  ~ xlate'[l].en
      BY <1>1, <1>3, <1>8
    <3>1. state = "probing" /\ l # k
      BY <1>1, <1>2, <1>3
    <3>2. ~ xlate[l].en
      BY <3>1 DEF LinksInv, ProgressInv
    <3> QED
      BY <2>1, <3>1, <3>2
  <2>3. state' = "resuming" => \A l \in todo' : xlate'[l].en
    <3> SUFFICES ASSUME state = "resuming", NEW l \in todo PROVE xlate'[l].en
      BY <1>1
    <3>1. l \in scene.links /\ l # k /\ xlate[l].en
      BY <1>2, <1>3, SceneFacts DEF LinksInv, TypeInv, ProgressInv
    <3> QED
      BY <2>1, <3>1
  <2> QED
    BY <1>1, <1>2, <2>2, <2>3 DEF ProgressInv
<1>14. SettledInv'
  <2> SUFFICES ASSUME NEW l \in scene.enabled, l \notin lost', l \notin todo, xlate'[l].en
               PROVE  Settled(l)'
    BY <1>1 DEF SettledInv
  <2>0. l \in scene.links
    BY SceneFacts DEF LinksInv
  <2>1. CASE l # k
    <3>1. xlate'[l] = xlate[l] /\ Settled(l)
      BY <1>1, <1>2, <1>3, <1>7, <2>0, <2>1 DEF LinksInv, SettledInv
    <3> QED
      BY <1>1, <3>1 DEF Settled, Reached, RateOf, Powered, Target
  <2>2. CASE l = k
    <3>1. Reached(k) /\ (scene.fix => ser[k].id = Target(k))
      BY <1>1, <1>3, <1>4 DEF LinksInv, DoneInv
    <3> QED
      BY <1>1, <1>4, <1>7, <2>2, <3>1 DEF Settled, Reached, RateOf, Powered, Target
  <2> QED
    BY <2>1, <2>2
<1> QED
  BY <1>9, <1>10, <1>11, <1>12, <1>13, <1>14 DEF LinksInv

----------------------------------------------------------------------------
(* The steps between two attaches                                          *)

\* Another attach begins, with the highest version there is to try.
LEMMA BeginKeeps ==
    ASSUME LinksInv, ~ Active, state \in {"probing", "resuming"},
           NEW l \in todo, todo' = todo \ {l},
           SerAttachAddr(l, scene.powerUp[l], Target(l)),
           UNCHANGED <<scene, state, sel, rate, ser, uses, xlate, lost>>
    PROVE  LinksInv'
<1>1. l \in scene.enabled /\ l \in scene.links /\ l \in Int
  BY SceneFacts DEF LinksInv, TypeInv
<1>2. Max(Versions(l)) \in Versions(l) /\ Max(Versions(l)) \in Int
  BY <1>1, VersionsToTry, SceneFacts, MaxIsMember DEF LinksInv
<1>3. /\ job' = [link |-> l, stage |-> "version", version |-> Max(Versions(l)), again |-> FALSE,
                 addr |-> scene.powerUp[l], alias |-> Target(l), re |-> xlate[l].en]
  BY DEF SerAttachAddr
<1>4. scene.powerUp[l] \in Int /\ Target(l) \in Int
  BY <1>1, SceneFacts DEF LinksInv, Target
<1>5. xlate[l].en \in BOOLEAN
  BY <1>1 DEF LinksInv, TypeInv, Xlates
<1>6. TypeInv'
  BY <1>1, <1>2, <1>3, <1>4, <1>5 DEF LinksInv, TypeInv, Jobs, Stages
<1>7. SingleInv' /\ AddressInv' /\ SupplyInv' /\ XlateInv'
  BY DEF LinksInv, SingleInv, AddressInv, SupplyInv, XlateInv, Target
<1>8. \A m : Versions(m)' = Versions(m) /\ Target(m)' = Target(m)
  BY DEF Versions, FindVersionRange, Target
<1>9. JobInv' /\ DoneInv'
  BY <1>1, <1>2, <1>3, <1>8 DEF JobInv, DoneInv, Active
<1>10. ProgressInv'
  BY <1>3 DEF LinksInv, ProgressInv
<1>11. SettledInv'
  <2> SUFFICES ASSUME NEW m \in scene.enabled, m \notin lost, m \notin todo', m # l,
                      xlate[m].en
               PROVE  Settled(m)'
    BY <1>3 DEF SettledInv
  <2>1. m # job.link
    BY SceneFacts DEF LinksInv, JobInv, Idle
  <2>2. Settled(m)
    BY <2>1 DEF LinksInv, SettledInv
  <2> QED
    BY <2>2 DEF Settled, Reached, RateOf, Powered, Target
<1> QED
  BY <1>6, <1>7, <1>9, <1>10, <1>11 DEF LinksInv

\* The loops of probe and resume hand over the addresses they should.
LEMMA BeginStep ==
    ASSUME LinksInv, AddAdapter \/ Reattach
    PROVE  LinksInv'
<1>1. /\ state \in {"probing", "resuming"} /\ job = Idle /\ todo # {}
      /\ UNCHANGED <<scene, state, sel, rate, ser, uses, xlate, lost>>
      /\ todo' = todo \ {Min(todo)}
  BY DEF AddAdapter, Reattach
<1>2. ~ Active
  BY <1>1 DEF Active, Idle
<1>3. PICK l \in todo : l = Min(todo)
  BY <1>1, MinIsMember, SceneFacts DEF LinksInv, TypeInv
<1>4. CASE AddAdapter
  BY <1>1, <1>2, <1>3, <1>4, BeginKeeps DEF AddAdapter, Target
<1>5. CASE Reattach
  <2>1. SerAttachAddr(l, xlate[l].dst, xlate[l].src)
    BY <1>3, <1>5 DEF Reattach
  <2>2. xlate[l].en /\ l \in scene.links
    BY <1>5, SceneFacts DEF LinksInv, TypeInv, ProgressInv, Reattach
  <2>3. xlate[l].dst = scene.powerUp[l] /\ xlate[l].src = Target(l)
    BY <2>2 DEF LinksInv, XlateInv
  <2> QED
    BY <1>1, <1>2, <1>3, <2>1, <2>3, BeginKeeps
<1> QED
  BY <1>4, <1>5

\* The supplies after a sweep: which links it switched, and how often.
LEMMA SweepEffect ==
    ASSUME LinksInv, NEW enable \in BOOLEAN, NEW fails \in SUBSET scene.links,
           UpdatePocs(enable, fails)
    PROVE  /\ uses' \in [scene.links -> Int]
           /\ ser' \in [scene.links -> [addr : Nat, id : Nat]]
           /\ \A l \in scene.links :
                 /\ l \notin Supplies(fails) => uses'[l] = uses[l]
                 /\ l \in Supplies(fails) => uses'[l] = uses[l] + (IF enable THEN 1 ELSE -1)
                 /\ ser'[l] # ser[l] => ~ enable /\ uses'[l] < uses[l]
                 /\ ser'[l].addr \in {scene.powerUp[l], scene.alias[l]}
           /\ enable => ser' = ser
           /\ fails = {} => Supplies(fails) = scene.enabled \cap scene.pocs
           /\ \A f \in fails : f \notin Supplies(fails)
<1>1. /\ uses \in [scene.links -> Int] /\ ser \in [scene.links -> [addr : Nat, id : Nat]]
      /\ scene.powerUp \in [scene.links -> Nat] /\ scene.links \subseteq 0 .. 3
      /\ scene.enabled \subseteq scene.links
      /\ \A l \in scene.links : ser[l].addr \in {scene.powerUp[l], scene.alias[l]}
  BY SceneFacts DEF LinksInv, TypeInv, AddressInv
<1>2. uses' = [l \in scene.links |->
                 IF l \notin Supplies(fails) THEN uses[l]
                 ELSE IF enable THEN uses[l] + 1 ELSE uses[l] - 1]
  BY DEF UpdatePocs
<1>3. ser' = [l \in scene.links |->
                 IF ~enable /\ l \in Supplies(fails) /\ uses[l] = 1
                   THEN PoweredUp(l) ELSE ser[l]]
  BY DEF UpdatePocs
<1>4. \A l \in scene.links : /\ PoweredUp(l) \in [addr : Nat, id : Nat]
                             /\ PoweredUp(l).addr = scene.powerUp[l]
  BY <1>1 DEF PoweredUp
<1>5. uses' \in [scene.links -> Int] /\ ser' \in [scene.links -> [addr : Nat, id : Nat]]
  BY <1>1, <1>2, <1>3, <1>4
<1>6. ASSUME NEW l \in scene.links
      PROVE  /\ l \notin Supplies(fails) => uses'[l] = uses[l]
             /\ l \in Supplies(fails) => uses'[l] = uses[l] + (IF enable THEN 1 ELSE -1)
             /\ ser'[l] # ser[l] => ~ enable /\ uses'[l] < uses[l]
             /\ ser'[l].addr \in {scene.powerUp[l], scene.alias[l]}
  <2>1. uses[l] \in Int
    BY <1>1
  <2> QED
    BY <1>1, <1>2, <1>3, <1>4, <2>1
<1>7. enable => ser' = ser
  BY <1>1, <1>3
<1>8. fails = {} => Supplies(fails) = scene.enabled \cap scene.pocs
  BY DEF Supplies
<1>9. \A f \in fails : f \notin Supplies(fails)
  BY <1>1 DEF Supplies
<1> QED
  BY <1>5, <1>6, <1>7, <1>8, <1>9

\* A step to a state in which nothing is promised but the supplies.
LEMMA StoppedKeeps ==
    ASSUME LinksInv, job = Idle, UNCHANGED <<scene, xlate, job>>,
           state' \notin {"off", "probing", "resuming", "ready"},
           sel' \subseteq scene.links, SingleInv', rate' \in [scene.links -> Int],
           ser' \in [scene.links -> [addr : Nat, id : Nat]],
           \A l \in scene.links : ser'[l].addr \in {scene.powerUp[l], scene.alias[l]},
           uses' \in [scene.links -> Int],
           todo' \subseteq scene.enabled, lost' \subseteq scene.enabled,
           state' = "suspended" => \A l \in scene.enabled \cap scene.pocs : uses'[l] = 0,
           state' = "limp" /\ scene.enabled \cap scene.pocs # {} =>
               \E l \in scene.enabled \cap scene.pocs : uses'[l] = 0
    PROVE  LinksInv'
<1>1. TypeInv' /\ AddressInv'
  BY DEF LinksInv, TypeInv, AddressInv
<1>2. XlateInv'
  BY DEF LinksInv, XlateInv, Target
<1>3. JobInv' /\ DoneInv'
  BY DEF JobInv, DoneInv, Active, Idle
<1>4. SupplyInv' /\ ProgressInv' /\ SettledInv'
  BY DEF SupplyInv, ProgressInv, SettledInv
<1> QED
  BY <1>1, <1>2, <1>3, <1>4 DEF LinksInv

\* The probe turns every supply on, or fails.
LEMMA ProbeStep ==
    ASSUME LinksInv, Probe
    PROVE  LinksInv'
<1>1. /\ state = "off" /\ job = Idle /\ UNCHANGED <<scene, sel, rate, xlate, job, lost>>
      /\ \A l \in scene.links : uses[l] = 0 /\ ~ xlate[l].en
  BY DEF Probe, LinksInv, JobInv, SupplyInv, ProgressInv
<1>2. /\ sel \subseteq scene.links /\ SingleInv /\ rate \in [scene.links -> Int]
      /\ todo \subseteq scene.enabled /\ lost \subseteq scene.enabled
      /\ scene.enabled \subseteq scene.links
  BY SceneFacts DEF LinksInv, TypeInv
<1>3. SingleInv'
  BY <1>1, <1>2 DEF SingleInv
<1>4. ASSUME NEW l \in scene.links, UpdatePocs(TRUE, {l}), state' = "failed", todo' = todo
      PROVE  LinksInv'
  <2>1. /\ uses' \in [scene.links -> Int]
        /\ ser' \in [scene.links -> [addr : Nat, id : Nat]]
        /\ \A m \in scene.links : ser'[m].addr \in {scene.powerUp[m], scene.alias[m]}
    BY <1>4, SweepEffect
  <2> QED
    BY <1>1, <1>2, <1>3, <1>4, <2>1, StoppedKeeps
<1>5. ASSUME UpdatePocs(TRUE, {}), state' = "probing", todo' = scene.enabled
      PROVE  LinksInv'
  <2>1. /\ uses' \in [scene.links -> Int] /\ ser' = ser
        /\ \A l \in scene.links : l \in Supplies({}) => uses'[l] = uses[l] + 1
        /\ Supplies({}) = scene.enabled \cap scene.pocs
    BY <1>5, SweepEffect
  <2>2. TypeInv' /\ AddressInv'
    BY <1>1, <1>2, <1>5, <2>1 DEF LinksInv, TypeInv, AddressInv
  <2>3. XlateInv'
    BY <1>1 DEF LinksInv, XlateInv, Target
  <2>4. JobInv' /\ DoneInv'
    BY <1>1 DEF JobInv, DoneInv, Active, Idle
  <2>5. SupplyInv'
    BY <1>1, <1>2, <1>5, <2>1 DEF SupplyInv
  <2>6. ProgressInv' /\ SettledInv'
    BY <1>1, <1>2, <1>5 DEF ProgressInv, SettledInv
  <2> QED
    BY <1>3, <2>2, <2>3, <2>4, <2>5, <2>6 DEF LinksInv
<1> QED
  BY <1>2, <1>4, <1>5 DEF Probe

\* Only balanced supplies are ever cut: a device that is limping is stuck.
LEMMA SuspendStep ==
    ASSUME LinksInv, Suspend
    PROVE  LinksInv'
<1> DEFINE On == scene.enabled \cap scene.pocs
<1>1. /\ state \in {"ready", "limp"} /\ job = Idle
      /\ UNCHANGED <<scene, sel, rate, xlate, job, todo, lost>>
  BY DEF Suspend, LinksInv, JobInv
<1>2. /\ sel \subseteq scene.links /\ SingleInv /\ rate \in [scene.links -> Int]
      /\ todo \subseteq scene.enabled /\ lost \subseteq scene.enabled
      /\ scene.enabled \subseteq scene.links /\ uses \in [scene.links -> Int]
  BY SceneFacts DEF LinksInv, TypeInv
<1>3. SingleInv'
  BY <1>1, <1>2 DEF SingleInv
<1>4. ASSUME NEW l \in scene.links, UpdatePocs(FALSE, {l}), state' = "stuck"
      PROVE  LinksInv'
  <2>1. /\ uses' \in [scene.links -> Int]
        /\ ser' \in [scene.links -> [addr : Nat, id : Nat]]
        /\ \A m \in scene.links : ser'[m].addr \in {scene.powerUp[m], scene.alias[m]}
    BY <1>4, SweepEffect
  <2> QED
    BY <1>1, <1>2, <1>3, <1>4, <2>1, StoppedKeeps
<1>5. ASSUME Unbalanced = {}, UpdatePocs(FALSE, {}), state' = "suspended"
      PROVE  LinksInv'
  <2>1. /\ uses' \in [scene.links -> Int]
        /\ ser' \in [scene.links -> [addr : Nat, id : Nat]]
        /\ \A m \in scene.links : ser'[m].addr \in {scene.powerUp[m], scene.alias[m]}
        /\ \A l \in scene.links : l \in On => uses'[l] = uses[l] - 1
    BY <1>2, <1>5, SweepEffect
  <2>2. \A l \in On : uses[l] # 0
    BY <1>5 DEF Unbalanced
  <2>3. state = "limp" => On = {}
    BY <2>2 DEF LinksInv, SupplyInv
  <2>4. state = "ready" => \A l \in On : uses[l] = 1
    BY DEF LinksInv, SupplyInv
  <2>5. \A l \in On : uses'[l] = 0
    BY <1>1, <1>2, <2>1, <2>3, <2>4
  <2> QED
    BY <1>1, <1>2, <1>3, <1>5, <2>1, <2>5, StoppedKeeps
<1>6. Unbalanced # {} => Min(Unbalanced) \in scene.links
  BY <1>2, MinIsMember, SceneFacts DEF Unbalanced, LinksInv
<1> QED
  BY <1>2, <1>4, <1>5, <1>6 DEF Suspend

\* A resume forgets the links it gave up on and visits all of them.
LEMMA ResumeStep ==
    ASSUME LinksInv, Resume
    PROVE  LinksInv'
<1> DEFINE On == scene.enabled \cap scene.pocs
<1>1. /\ state = "suspended" /\ job = Idle /\ UNCHANGED <<scene, xlate, job>>
      /\ sel' = scene.links /\ rate' = [l \in scene.links |-> 1] /\ lost' = {}
      /\ \A l \in On : uses[l] = 0
  BY DEF Resume, LinksInv, JobInv, SupplyInv
<1>2. /\ todo \subseteq scene.enabled /\ scene.enabled \subseteq scene.links
      /\ uses \in [scene.links -> Int] /\ ser \in [scene.links -> [addr : Nat, id : Nat]]
      /\ \A m \in scene.links : ser[m].addr \in {scene.powerUp[m], scene.alias[m]}
  BY SceneFacts DEF LinksInv, TypeInv, AddressInv
<1>3. SingleInv' /\ sel' \subseteq scene.links /\ rate' \in [scene.links -> Int]
  BY <1>1 DEF SingleInv
<1>4. ASSUME NEW l \in On, UpdatePocs(TRUE, {l}), state' = "limp", todo' = todo
      PROVE  LinksInv'
  <2>1. /\ uses' \in [scene.links -> Int]
        /\ ser' \in [scene.links -> [addr : Nat, id : Nat]]
        /\ \A m \in scene.links : ser'[m].addr \in {scene.powerUp[m], scene.alias[m]}
        /\ \A m \in scene.links : m \notin Supplies({l}) => uses'[m] = uses[m]
        /\ \A f \in {l} : f \notin Supplies({l})
    <3>1. {l} \in SUBSET scene.links
      BY <1>2, <1>4
    <3> QED
      BY <1>4, <3>1, SweepEffect
  <2>2. uses'[l] = 0
    BY <1>1, <1>2, <1>4, <2>1
  <2>3. \E k \in scene.enabled \cap scene.pocs : uses'[k] = 0
    BY <2>2
  <2> QED
    BY <1>1, <1>2, <1>3, <1>4, <2>1, <2>3, StoppedKeeps
<1>5. ASSUME UNCHANGED <<uses, ser>>, state' = "limp", todo' = todo
      PROVE  LinksInv'
  <2>1. On # {} => \E k \in scene.enabled \cap scene.pocs : uses'[k] = 0
    BY <1>1, <1>5
  <2> QED
    BY <1>1, <1>2, <1>3, <1>5, <2>1, StoppedKeeps
<1>6. ASSUME UpdatePocs(TRUE, {}), state' = "resuming",
             todo' = {l \in scene.enabled : xlate[l].en}
      PROVE  LinksInv'
  <2>1. /\ uses' \in [scene.links -> Int] /\ ser' = ser
        /\ \A l \in scene.links : l \in Supplies({}) => uses'[l] = uses[l] + 1
        /\ Supplies({}) = On
    BY <1>6, SweepEffect
  <2>2. TypeInv' /\ AddressInv'
    BY <1>1, <1>2, <1>3, <1>6, <2>1 DEF LinksInv, TypeInv, AddressInv
  <2>3. XlateInv'
    BY <1>1 DEF LinksInv, XlateInv, Target
  <2>4. JobInv' /\ DoneInv'
    BY <1>1 DEF JobInv, DoneInv, Active, Idle
  <2>5. SupplyInv'
    BY <1>1, <1>2, <1>6, <2>1 DEF SupplyInv
  <2>6. ProgressInv' /\ SettledInv'
    BY <1>1, <1>2, <1>6 DEF ProgressInv, SettledInv
  <2> QED
    BY <1>3, <2>2, <2>3, <2>4, <2>5, <2>6 DEF LinksInv
<1> QED
  BY <1>4, <1>5, <1>6 DEF Resume

\* The adapters are added or the links restored: all links are selected.
LEMMA ReadyStep ==
    ASSUME LinksInv, AdaptersAdded \/ Resumed
    PROVE  LinksInv'
<1> DEFINE On == scene.enabled \cap scene.pocs
<1>1. /\ state \in {"probing", "resuming"} /\ job = Idle /\ todo = {}
      /\ UNCHANGED <<scene, rate, xlate, job, todo>>
      /\ lost' = lost \/ (state = "probing" /\ lost' = {})
  BY DEF AdaptersAdded, Resumed
<1>2. /\ sel \subseteq scene.links /\ SingleInv /\ rate \in [scene.links -> Int]
      /\ todo \subseteq scene.enabled /\ lost \subseteq scene.enabled
      /\ scene.enabled \subseteq scene.links /\ uses \in [scene.links -> Int]
      /\ \A l \in On : uses[l] = 1
  BY <1>1, SceneFacts DEF LinksInv, TypeInv, SupplyInv
<1>3. ASSUME UpdatePocs(FALSE, {}), state' \in {"failed", "limp"}, sel' = sel
      PROVE  LinksInv'
  <2>1. /\ uses' \in [scene.links -> Int]
        /\ ser' \in [scene.links -> [addr : Nat, id : Nat]]
        /\ \A m \in scene.links : ser'[m].addr \in {scene.powerUp[m], scene.alias[m]}
        /\ \A l \in scene.links : l \in On => uses'[l] = uses[l] - 1
    BY <1>2, <1>3, SweepEffect
  <2>2. \A l \in On : uses'[l] = 0
    BY <1>2, <2>1
  <2>3. SingleInv'
    BY <1>1, <1>2, <1>3 DEF SingleInv
  <2> QED
    BY <1>1, <1>2, <1>3, <2>1, <2>2, <2>3, StoppedKeeps
<1>4. ASSUME state' = "ready", UNCHANGED <<uses, ser>>,
             \/ SelectLinks(scene.enabled)
             \/ ~ scene.atr /\ sel' = sel
      PROVE  LinksInv'
  <2>0. ~ scene.atr => Cardinality(scene.links) = 1
    BY SceneFacts DEF LinksInv
  <2>1. \/ (sel' = scene.enabled /\ Cardinality(scene.links) # 1)
        \/ (sel' = scene.links /\ Cardinality(scene.links) = 1)
    BY <1>2, <1>4, <2>0 DEF SelectLinks, SingleInv
  <2>2. TypeInv' /\ AddressInv' /\ SingleInv'
    BY <1>1, <1>2, <1>4, <2>1 DEF LinksInv, TypeInv, AddressInv, SingleInv
  <2>3. XlateInv'
    BY <1>1 DEF LinksInv, XlateInv, Target
  <2>4. JobInv' /\ DoneInv'
    BY <1>1 DEF JobInv, DoneInv, Active, Idle
  <2>5. SupplyInv'
    BY <1>1, <1>2, <1>4 DEF SupplyInv
  <2>6. ProgressInv'
    BY <1>1, <1>2, <1>4, <2>1 DEF ProgressInv
  <2>7. SettledInv'
    <3> SUFFICES ASSUME NEW l \in scene.enabled, l \notin lost', xlate[l].en
                 PROVE  Settled(l)'
      BY <1>1, <1>4 DEF SettledInv
    <3>1. l \notin lost /\ l # job.link
      BY <1>1, <1>2, SceneFacts DEF LinksInv, ProgressInv, Idle
    <3>2. Settled(l)
      BY <1>1, <3>1 DEF LinksInv, SettledInv
    <3> QED
      BY <1>1, <1>4, <3>2 DEF Settled, Reached, RateOf, Powered, Target
  <2> QED
    BY <2>2, <2>3, <2>4, <2>5, <2>6, <2>7 DEF LinksInv
<1> QED
  BY <1>1, <1>3, <1>4 DEF AdaptersAdded, Resumed

----------------------------------------------------------------------------
(* The invariant and the two properties                                    *)

\* Every step of the attach but the last needs one under way.
LEMMA LinksStep == LinksInv /\ [Next]_vars => LinksInv'
<1> SUFFICES ASSUME LinksInv, [Next]_vars PROVE LinksInv'
  OBVIOUS
<1>1. CASE \/ SetLinkVersion \/ SelectOne \/ WaitEither \/ SerReset \/ WaitPowerUp
           \/ SerChangeAddress \/ WaitMoved \/ SerFixTxIds
  <2>1. Active
    BY <1>1 DEF Active, At, SetLinkVersion, SelectOne, WaitEither, SerReset, WaitPowerUp,
                SerChangeAddress, WaitMoved, SerFixTxIds, WaitFor, Write
  <2> QED
    BY <1>1, <2>1, AttachStep
<1>2. CASE UNCHANGED vars
  <2>1. TypeInv' /\ SingleInv' /\ AddressInv' /\ XlateInv' /\ SupplyInv' /\ ProgressInv'
    BY <1>2 DEF LinksInv, vars, TypeInv, SingleInv, AddressInv, XlateInv, SupplyInv,
                ProgressInv, Target
  <2>2. JobInv'
    BY <1>2 DEF LinksInv, vars, JobInv, Active, Target, Versions, FindVersionRange, RateOf
  <2>3. DoneInv' /\ SettledInv'
    BY <1>2 DEF LinksInv, vars, DoneInv, SettledInv, Settled, Reached, RateOf, Powered, Target
  <2> QED
    BY <2>1, <2>2, <2>3 DEF LinksInv
<1> QED
  BY <1>1, <1>2, AttachedStep, BeginStep, ProbeStep, SuspendStep, ResumeStep, ReadyStep
     DEF Next

\* The inductive invariant holds.
LEMMA LinksCorrect == Spec => []LinksInv
BY LinksInit, LinksStep, PTL DEF Spec

(* With the device ready, every alias is answered by its serializer alone. *)
THEOREM AliasesAlwaysAnswered == Spec => []AliasesAnswered
<1>1. LinksInv => AliasesAnswered
  <2> SUFFICES ASSUME LinksInv, state = "ready", NEW l \in scene.enabled \ lost, xlate[l].en
               PROVE  /\ Answering(xlate[l].src) = {l}
                      /\ scene.fix => ser[l].id = xlate[l].src
    BY DEF AliasesAnswered
  <2>1. job = Idle /\ todo = {} /\ l \in sel /\ l \in scene.links /\ sel \subseteq scene.links
    BY SceneFacts DEF LinksInv, TypeInv, JobInv, ProgressInv
  <2>2. Settled(l) /\ xlate[l].src = Target(l)
    BY <2>1, SceneFacts DEF LinksInv, SettledInv, XlateInv, Idle
  <2>3. l \in Answering(Target(l))
    BY <2>1, <2>2 DEF Settled, Reached, Answering
  <2>4. ASSUME NEW m \in Answering(Target(l)) PROVE m = l
    <3>1. m \in scene.links /\ ser[m].addr = Target(l)
      BY <2>1, <2>4 DEF Answering
    <3>2. CASE scene.atr
      <4>1. ser[m].addr \in {scene.powerUp[m], scene.alias[m]}
        BY <3>1 DEF LinksInv, AddressInv
      <4> QED
        BY <2>1, <3>1, <3>2, <4>1, SceneFacts DEF Target, LinksInv
    <3>3. CASE ~ scene.atr
      BY <2>1, <3>1, <3>3, SceneFacts, OnlyLink DEF LinksInv
    <3> QED
      BY <3>2, <3>3
  <2> QED
    BY <2>2, <2>3, <2>4 DEF Settled
<1> QED
  BY <1>1, LinksCorrect, PTL

(* No serializer is reset or moved but the one of the link being attached, *)
(* or one whose supply is cut.                                             *)
THEOREM OnlyOwnLinkTouched == Spec => OnlyOwnLink
<1> DEFINE Own == \A l \in scene.links :
                     ser'[l] # ser[l] => job.link = l \/ (job = Idle /\ uses'[l] < uses[l])
<1>1. LinksInv /\ [Next]_vars => [Own]_vars
  <2> SUFFICES ASSUME LinksInv, Next, NEW l \in scene.links, ser'[l] # ser[l]
               PROVE  job.link = l \/ (job = Idle /\ uses'[l] < uses[l])
    BY DEF vars
  <2>1. CASE SerReset \/ SerChangeAddress \/ SerFixTxIds
    <3>1. job.stage \notin {"none", "version", "select"}
      BY <2>1 DEF SerReset, SerChangeAddress, SerFixTxIds, Write, At
    <3>2. PICK a : Answering(a) # {} /\ l \in Answering(a)
      BY <2>1 DEF SerReset, SerChangeAddress, SerFixTxIds, Write
    <3> QED
      BY <3>1, <3>2, SelectedFacts
  <2>2. CASE Probe \/ Suspend \/ Resume \/ AdaptersAdded \/ Resumed
    <3>1. job = Idle
      BY <2>2 DEF Probe, Suspend, Resume, AdaptersAdded, Resumed, LinksInv, JobInv
    <3>2. ASSUME NEW enable \in BOOLEAN, NEW fails \in SUBSET scene.links,
                 UpdatePocs(enable, fails)
          PROVE  uses'[l] < uses[l]
      BY <3>2, SweepEffect
    <3>3. UpdatePocs(TRUE, {}) \/ UpdatePocs(FALSE, {}) => uses'[l] < uses[l]
      BY <3>2
    <3>4. \A k \in scene.links :
              UpdatePocs(TRUE, {k}) \/ UpdatePocs(FALSE, {k}) => uses'[l] < uses[l]
      BY <3>2
    <3>5. Unbalanced # {} => Min(Unbalanced) \in scene.links
      BY MinIsMember, SceneFacts DEF Unbalanced, LinksInv
    <3>6. scene.enabled \subseteq scene.links
      BY SceneFacts DEF LinksInv
    <3>7. \/ UpdatePocs(TRUE, {}) \/ UpdatePocs(FALSE, {})
          \/ \E k \in scene.links : UpdatePocs(TRUE, {k}) \/ UpdatePocs(FALSE, {k})
      BY <2>2, <3>5, <3>6 DEF Probe, Suspend, Resume, AdaptersAdded, Resumed
    <3> QED
      BY <3>1, <3>3, <3>4, <3>7
  <2>3. CASE \/ SetLinkVersion \/ SelectOne \/ WaitEither \/ WaitPowerUp \/ WaitMoved
             \/ Attached \/ AddAdapter \/ Reattach
    BY <2>3 DEF SetLinkVersion, SelectOne, WaitEither, WaitPowerUp, WaitMoved, WaitFor,
                Attached, AddAdapter, Reattach
  <2> QED
    BY <2>1, <2>2, <2>3 DEF Next
<1> QED
  BY <1>1, LinksCorrect, PTL DEF Spec, OnlyOwnLink
=============================================================================
