------------------------ MODULE MaxDesStreamsProofs ------------------------
(***************************************************************************)
(* Proofs about the routing computation (MaxDesRemap) and about switching  *)
(* streams with it (MaxDesStreams), for every number of links, pipes, PHYs *)
(* and virtual channels, every chip description and every set of valid     *)
(* routing tables.                                                         *)
(***************************************************************************)
EXTENDS MaxDesStreams, FiniteSetTheorems, WellFoundedInduction, TLAPS

----------------------------------------------------------------------------
(* The data the steps read *)

\* A routing table is a sequence of routes, and the pass is at one of them.
LEMMA RouteType ==
    ASSUME TypeOK
    PROVE  /\ routing \in Seq(Route) /\ Len(routing) \in Nat /\ i \in Nat \ {0}
           /\ i <= Len(routing) => routing[i] \in Route
<1>1. routing \in Seq(Route)
  BY InputAssumption DEF TypeOK
<1>2. Len(routing) \in Nat /\ i \in Nat \ {0}
  BY <1>1 DEF TypeOK
<1> QED
  BY <1>1, <1>2

\* A pipe index taken modulo the number of links is a link index.
LEMMA HomeLinkType == HomeLink \in [Pipes -> Links]
<1>1. ASSUME NEW p \in Pipes PROVE p % NumLinks \in Links
  BY <1>1, SizesAssumption DEF Pipes, Links
<1> QED
  BY <1>1 DEF HomeLink

\* What the serializer reports for a route, or zero for a route without one.
LEMMA SrcVcType ==
    ASSUME TypeOK, NEW r \in Route
    PROVE  SrcVc(r) \in Reported
<1>1. fd \in [Links \X Streams -> Reported]
  BY InputAssumption DEF TypeOK
<1>2. CASE r.sink \in Enabled
  <2>1. r.sink \in Links /\ r.stream \in Streams
    BY <1>2, ChipAssumption DEF Route
  <2> QED
    BY <1>1, <1>2, <2>1 DEF SrcVc
<1>3. CASE r.sink \notin Enabled
  BY <1>3, SizesAssumption DEF SrcVc, Reported, Vcs
<1> QED
  BY <1>2, <1>3

----------------------------------------------------------------------------
(* Type correctness *)

\* TypeOK is inductive together with the pass counter being rewound when no
\* call runs, which is when the routing table may change its length.
TypeInv == TypeOK /\ (pc = "idle" => i = 1)

LEMMA TypeInit == Init => TypeInv
<1> SUFFICES ASSUME Init PROVE TypeInv
  OBVIOUS
<1>1. routing \in Seq(Route) /\ Len(routing) \in Nat
  BY InputAssumption DEF Init
<1>2. linkOf \in [Pipes -> Links] /\ strm \in [Pipes -> Streams \cup {Unassigned}]
  BY HomeLinkType DEF Init, AllFree
<1>3. dstVcs \in [Phys -> SUBSET Vcs]
  BY DEF Init, NoVcs
<1>4. 1 \in 1 .. Len(routing) + 1
  BY <1>1
<1> QED
  BY <1>2, <1>3, <1>4 DEF Init, TypeInv, TypeOK, Modes

LEMMA TypeStep == TypeInv /\ [Next]_vars => TypeInv'
<1> SUFFICES ASSUME TypeInv, [Next]_vars PROVE TypeInv'
  OBVIOUS
<1> USE DEF TypeInv, Fail, input, assign, context
<1>0. TypeOK /\ Len(routing) \in Nat /\ i \in Nat \ {0}
  BY RouteType
<1>1. CASE SetRouting
  <2>1. routing' \in Seq(Route) /\ Len(routing') \in Nat
    BY <1>1, InputAssumption DEF SetRouting
  <2>2. 1 \in 1 .. Len(routing') + 1
    BY <2>1
  <2> QED
    BY <1>0, <1>1, <2>2 DEF SetRouting, TypeOK
<1>2. CASE ChangeFrameDesc
  BY <1>0, <1>2 DEF ChangeFrameDesc, TypeOK
<1>3. CASE BeginUpdate
  BY <1>0, <1>3, HomeLinkType DEF BeginUpdate, Begin, TypeOK, AllFree
<1>4. CASE BeginGetDesc
  BY <1>0, <1>4 DEF BeginGetDesc, Begin, TypeOK
<1>5. CASE UseTpg
  <2>1. 0 \in Pipes
    BY SizesAssumption DEF Pipes
  <2> QED
    BY <1>0, <1>5, <2>1 DEF UseTpg, TypeOK
<1>6. CASE UseLink
  <2>1. routing[i] \in Route /\ routing[i].sink \in Links /\ routing[i].stream \in Streams
    BY <1>0, <1>6, RouteType DEF UseLink, Route, Sinks
  <2>2. PICK p \in Pipes :
          /\ linkOf' = [linkOf EXCEPT ![p] = routing[i].sink]
          /\ strm' = [strm EXCEPT ![p] = routing[i].stream]
          /\ \/ Fail("noStream") /\ UNCHANGED <<i, inUse>>
             \/ i' = i + 1 /\ inUse' = inUse \cup {p} /\ UNCHANGED <<pc, err>>
    BY <1>6 DEF UseLink
  <2>3. linkOf' \in [Pipes -> Links] /\ strm' \in [Pipes -> Streams \cup {Unassigned}]
    BY <1>0, <2>1, <2>2 DEF TypeOK
  <2>4. inUse' \subseteq Pipes /\ i' \in 1 .. Len(routing) + 1
    BY <1>0, <1>6, <2>2 DEF UseLink, TypeOK
  <2>5. /\ pc' \in {"usage", "failed"}
        /\ err' \in {"none", "noStream", "noPipe", "noMode", "tooBig"}
    BY <1>0, <1>6, <2>2 DEF UseLink, TypeOK
  <2> QED
    BY <1>0, <1>6, <2>3, <2>4, <2>5 DEF UseLink, TypeOK
<1>7. CASE UseNothing
  BY <1>0, <1>7 DEF UseNothing, TypeOK
<1>8. CASE FindModes
  <2>1. SupportedModes \subseteq Modes
    BY ChipAssumption DEF SupportedModes, Modes
  <2> QED
    BY <1>0, <1>8, <2>1 DEF FindModes, TypeOK
<1>9. CASE MapVc
  <2>1. routing[i] \in Route /\ routing[i].phy \in Phys
    BY <1>0, <1>9, RouteType DEF MapVc, Route
  <2>2. /\ dstVcs' \in [Phys -> SUBSET Vcs]
        /\ vcMap' \subseteq VcMap /\ remapped' \subseteq Pipes
    BY <1>0, <1>9, <2>1 DEF MapVc, TypeOK, VcMap
  <2> QED
    BY <1>0, <1>9, <2>2 DEF MapVc, TypeOK
<1>10. CASE MapTooBig
  BY <1>0, <1>10 DEF MapTooBig, TypeOK
<1>11. CASE ChooseMode
  BY <1>0, <1>11 DEF ChooseMode, TypeOK, Modes
<1>12. CASE Return
  <2>1. 1 \in 1 .. Len(routing) + 1
    BY <1>0
  <2>2. NoVcs \in [Phys -> SUBSET Vcs]
    BY DEF NoVcs
  <2> QED
    BY <1>0, <1>12, <2>1, <2>2 DEF Return, TypeOK, Modes
<1>13. CASE UNCHANGED vars
  BY <1>0, <1>13 DEF vars, TypeOK
<1> QED
  BY <1>1, <1>2, <1>3, <1>4, <1>5, <1>6, <1>7, <1>8, <1>9, <1>10, <1>11, <1>12, <1>13
     DEF Next, Populate

(* Whatever the chip and the routing tables, the computation keeps every   *)
(* index, mask and map in range.                                           *)
THEOREM TypeCorrect == Spec => []TypeOK
<1>1. Spec => []TypeInv
  BY TypeInit, TypeStep, PTL DEF Spec
<1>2. TypeInv => TypeOK
  BY DEF TypeInv
<1> QED
  BY <1>1, <1>2, PTL
----------------------------------------------------------------------------
(* The assignment of pipes to streams *)

\* Both facts about the assignment, which only UseLink and the reset change.
AssignInv == PipeNotShared /\ LowestPipeSpeaks

\* Claiming the pipe the search returns keeps the assignment sound.
LEMMA ClaimKeepsAssignment ==
    ASSUME TypeOK, AssignInv, UseLink
    PROVE  AssignInv'
<1> DEFINE l == routing[i].sink
           s == routing[i].stream
<1>1. l \in Links /\ s \in Streams
  BY RouteType DEF UseLink, Route, Sinks
<1>2. PICK p \in Pipes :
        /\ IsLowest(p, Candidates(l, s))
        /\ linkOf' = [linkOf EXCEPT ![p] = l]
        /\ strm' = [strm EXCEPT ![p] = s]
  BY DEF UseLink
<1>3. linkOf \in [Pipes -> Links] /\ strm \in [Pipes -> Streams \cup {Unassigned}]
  BY DEF TypeOK
<1>4. s # Unassigned
  BY <1>1 DEF Streams, Unassigned
<1> HIDE DEF l, s
<1>5. CASE Assigned(l, s) # {}
  <2>1. linkOf[p] = l /\ strm[p] = s
    BY <1>2, <1>5 DEF Candidates, IsLowest, Assigned, PipesOf
  <2>2. linkOf' = linkOf /\ strm' = strm
    BY <1>2, <1>3, <2>1
  <2> QED
    BY <2>2 DEF AssignInv, PipeNotShared, LowestPipeSpeaks
<1>6. CASE Assigned(l, s) = {} /\ Free(l) # {}
  <2>1. linkOf[p] = l /\ strm[p] = Unassigned
    BY <1>2, <1>6 DEF Candidates, IsLowest, Free, Assigned, PipesOf
  <2>2. \A q \in Pipes : linkOf[q] = l /\ strm[q] = Unassigned => p <= q
    BY <1>2, <1>6 DEF Candidates, IsLowest, Free, Assigned, PipesOf
  <2>3. \A q \in Pipes : ~ (linkOf[q] = l /\ strm[q] = s)
    BY <1>6 DEF Assigned, PipesOf
  <2>4. PipeNotShared'
    BY <1>2, <1>3, <1>4, <2>1, <2>3 DEF AssignInv, PipeNotShared
  <2>5. LowestPipeSpeaks'
    BY <1>2, <1>3, <1>4, <2>1, <2>2, SizesAssumption
       DEF AssignInv, LowestPipeSpeaks, Pipes
  <2> QED
    BY <2>4, <2>5 DEF AssignInv
<1>7. CASE Assigned(l, s) = {} /\ Free(l) = {}
  <2>1. linkOf[p] # l /\ strm[p] = Unassigned
    BY <1>2, <1>7 DEF Candidates, IsLowest, Spare
  <2>2. \A q \in Pipes : linkOf[q] = l => strm[q] # Unassigned /\ strm[q] # s
    BY <1>7 DEF Assigned, Free, PipesOf
  <2>3. PipeNotShared'
    BY <1>2, <1>3, <1>4, <2>1, <2>2 DEF AssignInv, PipeNotShared
  <2>4. LowestPipeSpeaks'
    BY <1>2, <1>3, <1>4, <2>1, <2>2 DEF AssignInv, LowestPipeSpeaks
  <2> QED
    BY <2>3, <2>4 DEF AssignInv
<1> QED
  BY <1>5, <1>6, <1>7

LEMMA AssignStep == TypeInv /\ AssignInv /\ [Next]_vars => AssignInv'
<1> SUFFICES ASSUME TypeInv, AssignInv, [Next]_vars PROVE AssignInv'
  OBVIOUS
<1>1. CASE BeginUpdate
  <2>1. \A p \in Pipes : strm'[p] = Unassigned
    BY <1>1 DEF BeginUpdate, AllFree
  <2> QED
    BY <2>1 DEF AssignInv, PipeNotShared, LowestPipeSpeaks
<1>2. CASE UseLink
  BY <1>2, ClaimKeepsAssignment DEF TypeInv
<1>3. CASE UNCHANGED assign
  BY <1>3 DEF assign, AssignInv, PipeNotShared, LowestPipeSpeaks
<1>4. \/ BeginUpdate \/ UseLink \/ UNCHANGED assign
  BY DEF Next, Populate, vars, SetRouting, ChangeFrameDesc, BeginGetDesc, UseTpg,
         UseNothing, FindModes, MapVc, MapTooBig, ChooseMode, Return
<1> QED
  BY <1>1, <1>2, <1>3, <1>4

\* The assignment facts, as one invariant.
LEMMA AssignCorrect == Spec => []AssignInv
<1>1. Init => AssignInv
  BY DEF Init, AllFree, AssignInv, PipeNotShared, LowestPipeSpeaks
<1>2. Spec => []TypeInv
  BY TypeInit, TypeStep, PTL DEF Spec
<1> QED
  BY <1>1, <1>2, AssignStep, PTL DEF Spec

(* No two pipes ever carry the same stream of the same link.               *)
THEOREM PipesNotShared == Spec => []PipeNotShared
<1>1. AssignInv => PipeNotShared
  BY DEF AssignInv
<1> QED
  BY <1>1, AssignCorrect, PTL

(* The pipe that stands for a link in the mode decisions is never an idle  *)
(* one while the link carries a stream.                                    *)
THEOREM LowestPipesSpeak == Spec => []LowestPipeSpeaks
<1>1. AssignInv => LowestPipeSpeaks
  BY DEF AssignInv
<1> QED
  BY <1>1, AssignCorrect, PTL

----------------------------------------------------------------------------
(* The virtual channels *)

\* A new channel is outside the mask of its PHY, and the mask holds all the
\* channels the map uses: that is why it collides with none.
VcInv == MasksExact /\ VcsDistinct

\* What IsDstVc chooses is a channel the PHY does not use yet.
LEMMA NewVcIsFree ==
    ASSUME TypeOK, NEW r \in Route, SrcVc(r) \in Vcs, NEW v \in Vcs, IsDstVc(v, r)
    PROVE  v \notin dstVcs[r.phy]
BY DEF IsDstVc, IsLowest

LEMMA VcStep == TypeInv /\ VcInv /\ [Next]_vars => VcInv'
<1> SUFFICES ASSUME TypeInv, VcInv, [Next]_vars PROVE VcInv'
  OBVIOUS
<1> USE DEF TypeInv
<1>1. CASE MapVc
  <2> DEFINE r == routing[i]
  <2>1. r \in Route /\ r.phy \in Phys /\ dstVcs \in [Phys -> SUBSET Vcs]
    BY <1>1, RouteType DEF MapVc, Route, TypeOK
  <2>2. PICK p \in Pipes :
          /\ SrcVc(r) \in Vcs
          /\ \/ UNCHANGED <<dstVcs, vcMap>>
             \/ /\ ~ IsMapped(p, r.phy, SrcVc(r))
                /\ \E v \in Vcs :
                      /\ IsDstVc(v, r)
                      /\ dstVcs' = [dstVcs EXCEPT ![r.phy] = @ \cup {v}]
                      /\ vcMap' = vcMap \cup
                            {[pipe |-> p, phy |-> r.phy, src |-> SrcVc(r), dst |-> v]}
    BY <1>1 DEF MapVc
  <2>3. CASE UNCHANGED <<dstVcs, vcMap>>
    BY <2>3 DEF VcInv, MasksExact, VcsDistinct
  <2>4. CASE ~ UNCHANGED <<dstVcs, vcMap>>
    <3>1. PICK v \in Vcs :
            /\ IsDstVc(v, r)
            /\ dstVcs' = [dstVcs EXCEPT ![r.phy] = @ \cup {v}]
            /\ vcMap' = vcMap \cup
                  {[pipe |-> p, phy |-> r.phy, src |-> SrcVc(r), dst |-> v]}
      BY <2>2, <2>4
    <3>2. ~ IsMapped(p, r.phy, SrcVc(r))
      BY <2>2, <2>4
    <3>3. v \notin dstVcs[r.phy]
      BY <2>1, <2>2, <3>1, NewVcIsFree
    <3> DEFINE new == [pipe |-> p, phy |-> r.phy, src |-> SrcVc(r), dst |-> v]
    <3>4. \A m \in vcMap : m.dst \in dstVcs[m.phy] /\ m.phy \in Phys
      BY DEF VcInv, MasksExact, TypeOK, VcMap
    <3>5. \A m \in vcMap : m.phy = new.phy =>
              m.dst # new.dst /\ <<m.pipe, m.src>> # <<new.pipe, new.src>>
      BY <3>2, <3>3, <3>4 DEF IsMapped
    <3>6. VcsDistinct'
      BY <3>1, <3>5 DEF VcInv, VcsDistinct
    <3>7. ASSUME NEW h \in Phys
          PROVE  dstVcs'[h] = {m.dst : m \in {n \in vcMap' : n.phy = h}}
      <4>1. dstVcs[h] = {m.dst : m \in {n \in vcMap : n.phy = h}}
        BY DEF VcInv, MasksExact
      <4>2. CASE h = r.phy
        <5>1. dstVcs'[h] = dstVcs[h] \cup {v}
          BY <2>1, <3>1, <4>2
        <5>2. \A m : m \in vcMap' <=> m \in vcMap \/ m = new
          BY <3>1
        <5>3. new.phy = h /\ new.dst = v
          BY <4>2
        <5> HIDE DEF new
        <5> QED
          BY <4>1, <5>1, <5>2, <5>3
      <4>3. CASE h # r.phy
        <5>1. dstVcs'[h] = dstVcs[h]
          BY <2>1, <3>1, <4>3
        <5>2. {n \in vcMap' : n.phy = h} = {n \in vcMap : n.phy = h}
          BY <3>1, <4>3
        <5> QED
          BY <4>1, <5>1, <5>2
      <4> QED
        BY <4>2, <4>3
    <3> QED
      BY <3>6, <3>7 DEF VcInv, MasksExact
  <2> QED
    BY <2>3, <2>4
<1>2. CASE Return
  BY <1>2 DEF Return, NoVcs, VcInv, MasksExact, VcsDistinct
<1>3. CASE UNCHANGED <<dstVcs, vcMap>>
  BY <1>3 DEF VcInv, MasksExact, VcsDistinct
<1>4. \/ MapVc \/ Return \/ UNCHANGED <<dstVcs, vcMap>>
  BY DEF Next, Populate, vars, context, SetRouting, ChangeFrameDesc, Begin, BeginUpdate,
         BeginGetDesc, UseTpg, UseLink, UseNothing, FindModes, MapTooBig, ChooseMode
<1> QED
  BY <1>1, <1>2, <1>3, <1>4

\* The channel facts, as one invariant.
LEMMA VcCorrect == Spec => []VcInv
<1>1. Init => VcInv
  BY DEF Init, NoVcs, VcInv, MasksExact, VcsDistinct
<1>2. Spec => []TypeInv
  BY TypeInit, TypeStep, PTL DEF Spec
<1> QED
  BY <1>1, <1>2, VcStep, PTL DEF Spec

(* No two source channels ever share a virtual channel of a CSI-2 output.  *)
THEOREM VcsNeverCollide == Spec => []VcsDistinct
<1>1. VcInv => VcsDistinct
  BY DEF VcInv
<1> QED
  BY <1>1, VcCorrect, PTL
----------------------------------------------------------------------------
(* The pipes of a context *)

\* A pipe carries at most one route: two routes with one pipe are the same,
\* because a link's streams are routed once.
LEMMA OneRoutePerPipe ==
    ASSUME TypeOK, NEW m \in DOMAIN routing, NEW n \in DOMAIN routing, NEW p \in Pipes,
           CarriedBy(routing[m], p), CarriedBy(routing[n], p)
    PROVE  m = n
<1> SUFFICES ASSUME m # n PROVE FALSE
  OBVIOUS
<1>1. routing \in Seq(Route) /\ ValidRouting(routing)
  BY InputAssumption DEF TypeOK
<1>2. m \in 1 .. Len(routing) /\ n \in 1 .. Len(routing) /\ Len(routing) \in Nat
  BY <1>1
<1>3. Len(routing) # 1
  BY <1>2
<1>4. routing[m].sink # Tpg /\ routing[n].sink # Tpg
  BY <1>1, <1>3 DEF ValidRouting
<1>5. routing[m].sink = routing[n].sink /\ routing[m].stream = routing[n].stream
  BY <1>4 DEF CarriedBy, IsLowest, Assigned, PipesOf
<1> QED
  BY <1>1, <1>5 DEF ValidRouting

\* Every entry of the map comes from a route that the mapping pass has
\* visited, and the assignment has not changed since.
MappedInv ==
    /\ pc \in {"idle", "usage"} => vcMap = {}
    /\ \A m \in vcMap : \E n \in DOMAIN routing : n < i /\ CarriedBy(routing[n], m.pipe)
    /\ OneStreamPerPipe

LEMMA MappedStep == TypeInv /\ MappedInv /\ [Next]_vars => MappedInv'
<1> SUFFICES ASSUME TypeInv, MappedInv, [Next]_vars PROVE MappedInv'
  OBVIOUS
<1> USE DEF TypeInv
<1>0. \A m \in vcMap : m.pipe \in Pipes
  BY DEF TypeOK, VcMap
<1>1. CASE MapVc
  <2>1. /\ i \in Nat /\ i \in DOMAIN routing /\ i' = i + 1 /\ pc' = pc /\ pc = "map"
        /\ UNCHANGED <<routing, linkOf, strm>>
    BY <1>1, RouteType DEF MapVc, input, assign
  <2>2. PICK p \in Pipes :
          /\ CarriedBy(routing[i], p)
          /\ \/ UNCHANGED vcMap
             \/ \E v \in Vcs : vcMap' = vcMap \cup
                  {[pipe |-> p, phy |-> routing[i].phy, src |-> SrcVc(routing[i]), dst |-> v]}
    BY <1>1 DEF MapVc
  <2>4. \A n \in DOMAIN routing : \A q : CarriedBy(routing[n], q) => CarriedBy(routing[n], q)'
    BY <2>1 DEF CarriedBy, IsLowest, Assigned, PipesOf
  <2>5. \A n \in DOMAIN routing : n \in Nat
    BY InputAssumption DEF TypeOK
  <2>6. \A m \in vcMap : m.pipe # p
    <3> SUFFICES ASSUME NEW m \in vcMap, m.pipe = p PROVE FALSE
      OBVIOUS
    <3>1. PICK n \in DOMAIN routing : n < i /\ CarriedBy(routing[n], m.pipe)
      BY DEF MappedInv
    <3>2. n = i
      BY <2>1, <2>2, <3>1, OneRoutePerPipe
    <3> QED
      BY <2>1, <3>1, <3>2
  <2>7. \A m \in vcMap' : m \in vcMap \/ (m.pipe = p /\ \A x \in vcMap' : x \in vcMap \/ x = m)
    BY <2>2
  <2>8. OneStreamPerPipe'
    BY <2>6, <2>7 DEF MappedInv, OneStreamPerPipe
  <2>9. \A m \in vcMap' : \E n \in DOMAIN routing : n < i' /\ CarriedBy(routing[n], m.pipe)
    BY <2>1, <2>2, <2>5, <2>7 DEF MappedInv
  <2> QED
    BY <2>1, <2>4, <2>8, <2>9 DEF MappedInv
<1>2. CASE ~ MapVc /\ vcMap = {}
  <2>1. vcMap' = {}
    BY <1>2 DEF Next, Populate, vars, context, SetRouting, ChangeFrameDesc, Begin,
       BeginUpdate, BeginGetDesc, UseTpg, UseLink, UseNothing, FindModes, MapTooBig,
       ChooseMode, Return
  <2> QED
    BY <2>1 DEF MappedInv, OneStreamPerPipe
<1>3. CASE ~ MapVc /\ vcMap # {}
  <2>1. pc \notin {"idle", "usage"}
    BY <1>3 DEF MappedInv
  <2>2. CASE Return
    BY <2>2 DEF Return, MappedInv, OneStreamPerPipe
  <2>3. CASE MapTooBig \/ ChooseMode \/ UNCHANGED vars
    <3>1. UNCHANGED <<routing, linkOf, strm, i, vcMap>> /\ pc' \notin {"idle", "usage"}
      BY <2>1, <2>3 DEF MapTooBig, ChooseMode, vars, input, assign, context, Fail
    <3> QED
      BY <3>1, <2>1 DEF MappedInv, OneStreamPerPipe, CarriedBy, IsLowest, Assigned, PipesOf
  <2> QED
    BY <1>3, <2>1, <2>2, <2>3 DEF Next, Populate, SetRouting, ChangeFrameDesc, Begin,
       BeginUpdate, BeginGetDesc, UseTpg, UseLink, UseNothing, FindModes
<1> QED
  BY <1>1, <1>2, <1>3

(* A pipe carries one stream to one PHY, whichever call computed the       *)
(* context and whatever assignments it started from.                       *)
THEOREM StreamsNeverShareAPipe == Spec => []OneStreamPerPipe
<1>1. Init => MappedInv
  BY DEF Init, MappedInv, OneStreamPerPipe
<1>2. Spec => []TypeInv
  BY TypeInit, TypeStep, PTL DEF Spec
<1>3. MappedInv => OneStreamPerPipe
  BY DEF MappedInv
<1> QED
  BY <1>1, <1>2, <1>3, MappedStep, PTL DEF Spec

----------------------------------------------------------------------------
(* Updates, which start from a reset *)

AssignedPipes == {p \in Pipes : strm[p] # Unassigned}

\* The pass has assigned no more pipes than it has visited routes.
FewAssigned ==
    fresh /\ pc = "usage" => IsFiniteSet(AssignedPipes) /\ Cardinality(AssignedPipes) <= i - 1

DepletedInv == FewAssigned /\ NeverDepleted /\ (err # "none" => pc = "failed")

LEMMA DepletedStep == TypeInv /\ DepletedInv /\ [Next]_vars => DepletedInv'
<1> SUFFICES ASSUME TypeInv, DepletedInv, [Next]_vars PROVE DepletedInv'
  OBVIOUS
<1> USE DEF TypeInv
<1>0. i \in Nat \ {0} /\ Len(routing) \in Nat
  BY RouteType
<1>1. CASE BeginUpdate
  <2>1. AssignedPipes' = {}
    BY <1>1 DEF BeginUpdate, AllFree, AssignedPipes
  <2>2. i' = 1 /\ err' = err /\ pc = "idle"
    BY <1>1 DEF BeginUpdate, Begin
  <2>3. err = "none"
    BY <2>2 DEF DepletedInv
  <2>4. FewAssigned'
    BY <2>1, <2>2, FS_EmptySet DEF FewAssigned
  <2> QED
    BY <2>2, <2>3, <2>4 DEF DepletedInv, NeverDepleted
<1>2. CASE UseLink
  <2>1. PICK p \in Pipes : strm' = [strm EXCEPT ![p] = routing[i].stream]
    BY <1>2 DEF UseLink
  <2>2. routing[i].stream # Unassigned
    BY <1>2, RouteType DEF UseLink, Route, Streams, Unassigned
  <2>3. strm \in [Pipes -> Streams \cup {Unassigned}]
    BY DEF TypeOK
  <2>4. AssignedPipes' = AssignedPipes \cup {p}
    BY <2>1, <2>2, <2>3 DEF AssignedPipes
  <2>5. /\ fresh' = fresh /\ pc = "usage" /\ routing' = routing
        /\ \/ pc' = "usage" /\ i' = i + 1 /\ err' = err
           \/ pc' = "failed" /\ err' = "noStream"
    BY <1>2 DEF UseLink, Fail, input
  <2>6. FewAssigned'
    <3> SUFFICES ASSUME fresh', pc' = "usage"
                 PROVE  IsFiniteSet(AssignedPipes') /\ Cardinality(AssignedPipes') <= i' - 1
      BY DEF FewAssigned
    <3>1. IsFiniteSet(AssignedPipes) /\ Cardinality(AssignedPipes) <= i - 1
      BY <2>5 DEF DepletedInv, FewAssigned
    <3>2. Cardinality(AssignedPipes) \in Nat
      BY <3>1, FS_CardinalityType
    <3>6. /\ IsFiniteSet(AssignedPipes \cup {p})
          /\ Cardinality(AssignedPipes \cup {p}) =
                IF p \in AssignedPipes THEN Cardinality(AssignedPipes)
                                       ELSE Cardinality(AssignedPipes) + 1
      BY <3>1, FS_AddElement
    <3>3. /\ IsFiniteSet(AssignedPipes \cup {p})
          /\ Cardinality(AssignedPipes \cup {p}) <= Cardinality(AssignedPipes) + 1
      BY <3>2, <3>6
    <3>4. Cardinality(AssignedPipes \cup {p}) \in Nat
      BY <3>3, FS_CardinalityType
    <3>5. i' = i + 1
      BY <2>5
    <3> HIDE DEF AssignedPipes
    <3> QED
      BY <1>0, <2>4, <3>1, <3>2, <3>3, <3>4, <3>5
  <2> QED
    BY <2>5, <2>6 DEF DepletedInv, NeverDepleted
<1>3. CASE UseNothing
  <2>1. CASE routing[i].sink = Tpg
    BY <1>3, <2>1 DEF UseNothing, Fail, input, DepletedInv, FewAssigned, NeverDepleted
  <2>2. CASE routing[i].sink # Tpg
    <3> DEFINE l == routing[i].sink
               s == routing[i].stream
    <3>1. /\ pc = "usage" /\ pc' = "failed" /\ UNCHANGED <<fresh, routing>>
          /\ i <= Len(routing) /\ l # Tpg /\ Candidates(l, s) = {}
      BY <1>3, <2>2 DEF UseNothing, Fail, input
    <3>2. l \in Links /\ s \in Streams
      BY <3>1, RouteType DEF Route, Sinks
    <3> HIDE DEF l, s
    <3>3. s # Unassigned
      BY <3>2 DEF Streams, Unassigned
    <3>4. Assigned(l, s) = {} /\ Free(l) = {} /\ Spare(l) = {}
      BY <3>1 DEF Candidates
    <3>5. AssignedPipes = Pipes
      BY <3>3, <3>4 DEF Assigned, Free, Spare, PipesOf, AssignedPipes
    <3>6. Cardinality(Pipes) = NumPipes
      BY FS_Interval, SizesAssumption DEF Pipes
    <3>7. fresh => Len(routing) > NumPipes
      BY <1>0, <3>1, <3>5, <3>6, SizesAssumption DEF DepletedInv, FewAssigned
    <3> QED
      BY <3>1, <3>7 DEF DepletedInv, FewAssigned, NeverDepleted
  <2> QED
    BY <2>1, <2>2
<1>4. CASE UseTpg
  <2>1. /\ UNCHANGED <<strm, fresh, pc, err, routing>> /\ i' = i + 1
        /\ AssignedPipes' = AssignedPipes
    BY <1>4 DEF UseTpg, input, assign, AssignedPipes
  <2>2. IsFiniteSet(AssignedPipes) => Cardinality(AssignedPipes) \in Nat
    BY FS_CardinalityType
  <2>3. FewAssigned'
    BY <1>0, <2>1, <2>2 DEF DepletedInv, FewAssigned
  <2> QED
    BY <2>1, <2>3 DEF DepletedInv, NeverDepleted
<1>5. CASE SetRouting \/ ChangeFrameDesc \/ BeginGetDesc \/ Return
  <2>1. pc' # "usage" \/ ~ fresh'
    BY <1>5 DEF SetRouting, ChangeFrameDesc, BeginGetDesc, Begin, Return
  <2>2. err' = "none"
    BY <1>5 DEF SetRouting, ChangeFrameDesc, BeginGetDesc, Begin, Return, DepletedInv
  <2> QED
    BY <2>1, <2>2 DEF DepletedInv, FewAssigned, NeverDepleted
<1>6. CASE FindModes \/ MapVc \/ MapTooBig \/ ChooseMode
  <2>1. /\ pc' # "usage" /\ UNCHANGED <<fresh, routing>>
        /\ \/ err' = err /\ pc # "failed"
           \/ pc' = "failed" /\ err' # "noPipe"
    BY <1>6 DEF FindModes, MapVc, MapTooBig, ChooseMode, Fail, input
  <2> QED
    BY <2>1 DEF DepletedInv, FewAssigned, NeverDepleted
<1>7. CASE UNCHANGED vars
  BY <1>7 DEF vars, input, assign, DepletedInv, FewAssigned, NeverDepleted, AssignedPipes
<1> QED
  BY <1>1, <1>2, <1>3, <1>4, <1>5, <1>6, <1>7 DEF Next, Populate

(* After a reset a route finds no pipe only when there are more routes     *)
(* than pipes: stealing and reuse never waste one.                         *)
THEOREM PipesNeverDepleted == Spec => []NeverDepleted
<1>1. Init => DepletedInv
  BY DEF Init, DepletedInv, FewAssigned, NeverDepleted
<1>2. Spec => []TypeInv
  BY TypeInit, TypeStep, PTL DEF Spec
<1>3. DepletedInv => NeverDepleted
  BY DEF DepletedInv
<1> QED
  BY <1>1, <1>2, <1>3, DepletedStep, PTL DEF Spec

\* What an update knows of its assignments: every assigned pipe is in use,
\* and every route visited has one.
UsageInv ==
    fresh /\ pc \in {"usage", "map"} =>
        /\ AssignedPipes \subseteq inUse
        /\ \A n \in DOMAIN routing :
              (pc = "usage" => n < i) /\ routing[n].sink # Tpg =>
                  Assigned(routing[n].sink, routing[n].stream) # {}

\* A route's stream can be told from a free pipe's, and its link from the
\* test pattern's pad.
LEMMA RouteIsAssignable ==
    ASSUME TypeOK, NEW n \in DOMAIN routing
    PROVE  /\ routing[n].stream # Unassigned
           /\ routing[n].sink \in Enabled => routing[n].sink # Tpg
<1>1. routing \in Seq(Route)
  BY InputAssumption DEF TypeOK
<1>2. routing[n] \in Route
  BY <1>1
<1>3. routing[n].stream \in Streams
  BY <1>2 DEF Route
<1>4. Tpg \notin Links /\ Unassigned \notin Streams
  BY SizesAssumption DEF Links, Tpg, Streams, Unassigned
<1> QED
  BY <1>3, <1>4, ChipAssumption

LEMMA UsageStep == TypeInv /\ UsageInv /\ [Next]_vars => UsageInv'
<1> SUFFICES ASSUME TypeInv, UsageInv, [Next]_vars,
                    fresh', pc' \in {"usage", "map"}
             PROVE  UsageInv'
  BY DEF UsageInv
<1> USE DEF TypeInv
<1>0. /\ i \in Nat \ {0} /\ \A n \in DOMAIN routing : n \in Nat \ {0} /\ n <= Len(routing)
      /\ Len(routing) \in Nat
  BY RouteType
<1>1. CASE BeginUpdate
  <2>1. AssignedPipes' = {} /\ i' = 1 /\ pc' = "usage" /\ routing' = routing
    BY <1>1 DEF BeginUpdate, Begin, AllFree, AssignedPipes, input
  <2> QED
    BY <1>0, <2>1 DEF UsageInv
<1>2. CASE UseLink
  <2> DEFINE l == routing[i].sink
             s == routing[i].stream
  <2>1. PICK p \in Pipes :
          /\ IsLowest(p, Candidates(l, s))
          /\ linkOf' = [linkOf EXCEPT ![p] = l]
          /\ strm' = [strm EXCEPT ![p] = s]
          /\ pc' = "usage" => i' = i + 1 /\ inUse' = inUse \cup {p}
    BY <1>2 DEF UseLink, Fail
  <2>2. pc' = "usage" /\ pc = "usage" /\ UNCHANGED <<routing, fresh>> /\ i <= Len(routing)
    BY <1>2 DEF UseLink, Fail, input
  <2>3. linkOf \in [Pipes -> Links] /\ strm \in [Pipes -> Streams \cup {Unassigned}]
    BY DEF TypeOK
  <2>4. (linkOf[p] = l /\ strm[p] = s) \/ strm[p] = Unassigned
    BY <2>1 DEF IsLowest, Candidates, Assigned, Free, Spare, PipesOf
  <2>5. AssignedPipes' \subseteq AssignedPipes \cup {p}
    BY <2>1, <2>3 DEF AssignedPipes
  <2>6. \A q \in Pipes : strm[q] # Unassigned => linkOf'[q] = linkOf[q] /\ strm'[q] = strm[q]
    BY <2>1, <2>3, <2>4
  <2>7. \A k, t : t # Unassigned /\ Assigned(k, t) # {} =>
            {q \in Pipes : linkOf'[q] = k /\ strm'[q] = t} # {}
    BY <2>6 DEF Assigned, PipesOf
  <2>8. \A n \in DOMAIN routing : routing[n].stream # Unassigned
    BY RouteIsAssignable
  <2>9. \A n \in DOMAIN routing : n < i' /\ routing[n].sink # Tpg =>
            {q \in Pipes : linkOf'[q] = routing[n].sink /\ strm'[q] = routing[n].stream} # {}
    <3> SUFFICES ASSUME NEW n \in DOMAIN routing, n < i', routing[n].sink # Tpg
                 PROVE  {q \in Pipes : linkOf'[q] = routing[n].sink /\ strm'[q] = routing[n].stream} # {}
      OBVIOUS
    <3>1. CASE n = i
      BY <3>1, <2>1, <2>3
    <3>2. CASE n # i
      <4>1. n < i
        BY <1>0, <2>1, <2>2, <3>2
      <4> QED
        BY <2>2, <2>7, <2>8, <4>1 DEF UsageInv
    <3> QED
      BY <3>1, <3>2
  <2>10. AssignedPipes' \subseteq inUse'
    BY <2>1, <2>2, <2>5 DEF UsageInv
  <2> QED
    BY <2>2, <2>9, <2>10 DEF UsageInv, Assigned, PipesOf
<1>3. CASE UseTpg
  <2>1. /\ UNCHANGED <<routing, linkOf, strm, pc, fresh>> /\ i' = i + 1
        /\ inUse \subseteq inUse' /\ pc = "usage" /\ routing[i].sink = Tpg
    BY <1>3 DEF UseTpg, input, assign
  <2>2. \A n \in DOMAIN routing : n < i' => n < i \/ n = i
    BY <1>0, <2>1
  <2> QED
    BY <2>1, <2>2 DEF UsageInv, AssignedPipes, Assigned, PipesOf
<1>4. CASE FindModes
  <2>1. /\ UNCHANGED <<routing, linkOf, strm, fresh, inUse>>
        /\ pc = "usage" /\ pc' = "map" /\ i > Len(routing)
    BY <1>4 DEF FindModes, input, assign, Fail
  <2>2. \A n \in DOMAIN routing : n < i
    BY <1>0, <2>1
  <2> QED
    BY <2>1, <2>2 DEF UsageInv, AssignedPipes, Assigned, PipesOf
<1>5. CASE MapVc \/ UNCHANGED vars
  <2>1. UNCHANGED <<routing, linkOf, strm, fresh, inUse, pc>> /\ (pc = "usage" => i' = i)
    BY <1>5 DEF MapVc, vars, input, assign, context
  <2> QED
    BY <2>1 DEF UsageInv, AssignedPipes, Assigned, PipesOf
<1>6. \/ BeginUpdate \/ UseLink \/ UseTpg \/ FindModes \/ MapVc \/ UNCHANGED vars
  BY DEF Next, Populate, SetRouting, ChangeFrameDesc, Begin, BeginGetDesc, UseNothing,
         MapTooBig, ChooseMode, Return, Fail
<1> QED
  BY <1>1, <1>2, <1>3, <1>4, <1>5, <1>6

\* A set of pipes that has a member has a lowest one.
LEMMA LowestExists ==
    ASSUME NEW S \in SUBSET Pipes, S # {}
    PROVE  \E p \in S : IsLowest(p, S)
<1>1. S \subseteq Nat
  BY SizesAssumption DEF Pipes
<1>2. PICK p \in S : \A q \in S : ~ (<<q, p>> \in OpToRel(<, Nat))
  BY <1>1, NatLessThanWellFounded, WFMin
<1>3. \A q \in S : ~ (q < p)
  BY <1>1, <1>2 DEF OpToRel
<1> QED
  BY <1>1, <1>3 DEF IsLowest

(* When an update has given every route its pipe, the mode decision asks   *)
(* the serializer of every link that carries one.                          *)
THEOREM LinksAlwaysConsulted == Spec => []EveryLinkConsulted
<1>1. Init => UsageInv
  BY DEF Init, UsageInv
<1>2. Spec => []TypeInv
  BY TypeInit, TypeStep, PTL DEF Spec
<1>3. TypeInv /\ AssignInv /\ UsageInv => EveryLinkConsulted
  <2> SUFFICES ASSUME TypeInv, AssignInv, UsageInv, fresh, pc = "map",
                      NEW n \in DOMAIN routing, routing[n].sink \in Enabled
               PROVE  \E p \in Pipes : <<routing[n].sink, p>> \in Consulted
    BY DEF EveryLinkConsulted
  <2> DEFINE l == routing[n].sink
  <2>1. l # Tpg
    BY RouteIsAssignable DEF TypeInv
  <2>2. PICK q \in Pipes : linkOf[q] = l /\ strm[q] = routing[n].stream
    BY <2>1 DEF UsageInv, Assigned, PipesOf
  <2>3. routing[n].stream # Unassigned
    BY RouteIsAssignable DEF TypeInv
  <2>4. PipesOf(l) \subseteq Pipes /\ q \in PipesOf(l)
    BY <2>2 DEF PipesOf
  <2>5. PICK p \in PipesOf(l) : IsLowest(p, PipesOf(l))
    BY <2>4, LowestExists
  <2>6. strm[p] # Unassigned
    <3> SUFFICES ASSUME strm[p] = Unassigned PROVE FALSE
      OBVIOUS
    <3>1. q < p /\ p <= q
      BY <2>2, <2>3, <2>4, <2>5 DEF AssignInv, LowestPipeSpeaks, IsLowest, PipesOf
    <3> QED
      BY <3>1, <2>4, <2>5, SizesAssumption DEF Pipes
  <2>7. p \in inUse /\ p \in Pipes
    BY <2>4, <2>5, <2>6 DEF UsageInv, AssignedPipes
  <2> QED
    BY <2>5, <2>7 DEF Consulted
<1> QED
  BY <1>1, <1>2, <1>3, UsageStep, AssignCorrect, PTL DEF Spec

----------------------------------------------------------------------------
(* What an update computes depends on the table only *)

\* An assignment of the pipes as a value, <<links, streams>>, and what the
\* first pass makes of it for one route.
AssignedIn(a, l, s) == {p \in Pipes : a[1][p] = l /\ a[2][p] = s}
SpareIn(a, l)       == {p \in Pipes : a[1][p] # l /\ a[2][p] = Unassigned}
CandidatesIn(a, l, s) ==
    IF AssignedIn(a, l, s) # {} THEN AssignedIn(a, l, s)
    ELSE IF AssignedIn(a, l, Unassigned) # {} THEN AssignedIn(a, l, Unassigned)
    ELSE SpareIn(a, l)

Claims(a, r, b) ==
    \/ r.sink = Tpg /\ b = a
    \/ /\ r.sink # Tpg
       /\ \E p \in Pipes :
             /\ IsLowest(p, CandidatesIn(a, r.sink, r.stream))
             /\ b = <<[a[1] EXCEPT ![p] = r.sink], [a[2] EXCEPT ![p] = r.stream]>>

\* The assignments after each of the first n routes of a table, from a reset.
IsPlan(f, r, n) ==
    /\ f[0] = <<HomeLink, AllFree>>
    /\ \A k \in 1 .. n : Claims(f[k - 1], r[k], f[k])

FinalPlan(r) == CHOOSE a : \E f : IsPlan(f, r, Len(r)) /\ a = f[Len(r)]

LEMMA LowestOnce ==
    ASSUME NEW S \in SUBSET Nat, NEW p, NEW q, IsLowest(p, S), IsLowest(q, S)
    PROVE  p = q
BY DEF IsLowest

LEMMA ClaimsOnce ==
    ASSUME NEW a, NEW r, NEW b, NEW c, Claims(a, r, b), Claims(a, r, c)
    PROVE  b = c
<1>1. CandidatesIn(a, r.sink, r.stream) \in SUBSET Nat
  BY SizesAssumption DEF CandidatesIn, AssignedIn, SpareIn, Pipes
<1> QED
  BY <1>1, LowestOnce DEF Claims

\* A natural number with a property has a lowest one below it with the property.
LEMMA FirstOf ==
    ASSUME NEW S \in SUBSET Nat, S # {}
    PROVE  \E k \in S : \A j \in Nat : j < k => j \notin S
<1>1. PICK k \in S : \A j \in S : ~ (<<j, k>> \in OpToRel(<, Nat))
  BY NatLessThanWellFounded, WFMin
<1>2. \A j \in S : ~ (j < k)
  BY <1>1 DEF OpToRel
<1> QED
  BY <1>2

LEMMA PlanUnique ==
    ASSUME NEW f, NEW g, NEW r, NEW n \in Nat, IsPlan(f, r, n), IsPlan(g, r, n)
    PROVE  f[n] = g[n]
<1> DEFINE S == {k \in 0 .. n : f[k] # g[k]}
<1> SUFFICES ASSUME S # {} PROVE FALSE
  OBVIOUS
<1>1. PICK k \in S : \A j \in Nat : j < k => j \notin S
  <2>1. S \in SUBSET Nat
    OBVIOUS
  <2> HIDE DEF S
  <2> QED
    BY <2>1, FirstOf
<1>2. k # 0 /\ k \in 0 .. n
  BY DEF IsPlan
<1>3. k \in 1 .. n /\ k - 1 \in 0 .. n /\ k - 1 < k
  BY <1>2
<1>4. f[k - 1] = g[k - 1]
  BY <1>1, <1>3
<1>5. f[k] = g[k]
  BY <1>3, <1>4, ClaimsOnce DEF IsPlan
<1> QED
  BY <1>5

LEMMA PlanExtends ==
    ASSUME NEW f, NEW r, NEW n \in Nat, IsPlan(f, r, n), NEW b, Claims(f[n], r[n + 1], b)
    PROVE  \E g : IsPlan(g, r, n + 1) /\ g[n + 1] = b
<1> DEFINE g == [k \in 0 .. n + 1 |-> IF k = n + 1 THEN b ELSE f[k]]
<1>1. \A k \in 0 .. n : g[k] = f[k]
  OBVIOUS
<1>2. g[n + 1] = b
  OBVIOUS
<1>3. \A k \in 1 .. n + 1 : Claims(g[k - 1], r[k], g[k])
  <2> TAKE k \in 1 .. n + 1
  <2>1. k - 1 \in 0 .. n
    OBVIOUS
  <2>2. CASE k = n + 1
    <3>1. k - 1 = n
      BY <2>2
    <3>2. g[k - 1] = f[n]
      BY <1>1, <2>1, <3>1
    <3> QED
      BY <1>2, <2>2, <3>2
  <2>3. CASE k # n + 1
    <3>1. k \in 1 .. n /\ k \in 0 .. n
      BY <2>3
    <3> HIDE DEF g
    <3> QED
      BY <1>1, <2>1, <3>1 DEF IsPlan
  <2> QED
    BY <2>2, <2>3
<1>4. g[0] = <<HomeLink, AllFree>>
  BY <1>1 DEF IsPlan
<1> HIDE DEF g
<1> QED
  BY <1>2, <1>3, <1>4 DEF IsPlan

PlanInv ==
    /\ fresh /\ pc = "usage" =>
          \E f : IsPlan(f, routing, i - 1) /\ f[i - 1] = <<linkOf, strm>>
    /\ fresh /\ pc \in {"map", "populated"} =>
          \E f : IsPlan(f, routing, Len(routing)) /\ f[Len(routing)] = <<linkOf, strm>>

LEMMA PlanStep == TypeInv /\ PlanInv /\ [Next]_vars => PlanInv'
<1> SUFFICES ASSUME TypeInv, PlanInv, [Next]_vars PROVE PlanInv'
  OBVIOUS
<1> USE DEF TypeInv
<1>0. i \in Nat \ {0} /\ Len(routing) \in Nat /\ i <= Len(routing) + 1
  BY RouteType DEF TypeOK
<1>1. CASE BeginUpdate
  <2>1. pc' = "usage" /\ i' = 1 /\ linkOf' = HomeLink /\ strm' = AllFree
    BY <1>1 DEF BeginUpdate, Begin
  <2> DEFINE f == [k \in {0} |-> <<HomeLink, AllFree>>]
  <2>2. IsPlan(f, routing', 0) /\ f[0] = <<HomeLink, AllFree>>
    BY DEF IsPlan
  <2> HIDE DEF f
  <2> QED
    BY <2>1, <2>2 DEF PlanInv
<1>2. CASE UseTpg \/ UseLink
  <2> SUFFICES ASSUME fresh', pc' = "usage"
               PROVE  \E f : IsPlan(f, routing', i' - 1) /\ f[i' - 1] = <<linkOf', strm'>>
    BY <1>2 DEF PlanInv, UseTpg, UseLink, Fail
  <2>1. /\ fresh /\ pc = "usage" /\ i' = i + 1 /\ routing' = routing
        /\ Claims(<<linkOf, strm>>, routing[i], <<linkOf', strm'>>)
    <3>1. CASE UseTpg
      BY <3>1 DEF UseTpg, Claims, input, assign
    <3>2. CASE UseLink
      <4>1. CandidatesIn(<<linkOf, strm>>, routing[i].sink, routing[i].stream)
              = Candidates(routing[i].sink, routing[i].stream)
        BY DEF CandidatesIn, Candidates, AssignedIn, SpareIn, Assigned, Free, Spare, PipesOf
      <4>2. /\ fresh /\ pc = "usage" /\ i' = i + 1 /\ routing' = routing
            /\ routing[i].sink # Tpg
        BY <3>2 DEF UseLink, input, Fail
      <4>3. PICK p \in Pipes :
              /\ IsLowest(p, Candidates(routing[i].sink, routing[i].stream))
              /\ linkOf' = [linkOf EXCEPT ![p] = routing[i].sink]
              /\ strm' = [strm EXCEPT ![p] = routing[i].stream]
        BY <3>2 DEF UseLink
      <4> QED
        BY <4>1, <4>2, <4>3 DEF Claims
    <3> QED
      BY <1>2, <3>1, <3>2
  <2>2. PICK f : IsPlan(f, routing, i - 1) /\ f[i - 1] = <<linkOf, strm>>
    BY <2>1 DEF PlanInv
  <2>3. PICK n \in Nat : n = i - 1
    BY <1>0
  <2>4. i = n + 1 /\ i' - 1 = n + 1
    BY <1>0, <2>1, <2>3
  <2>5. \E g : IsPlan(g, routing, n + 1) /\ g[n + 1] = <<linkOf', strm'>>
    <3>1. IsPlan(f, routing, n) /\ Claims(f[n], routing[n + 1], <<linkOf', strm'>>)
      BY <2>1, <2>2, <2>3, <2>4
    <3> QED
      BY <3>1, PlanExtends
  <2> QED
    BY <2>1, <2>4, <2>5
<1>3. CASE FindModes
  <2> SUFFICES ASSUME fresh', pc' = "map"
               PROVE  \E f : IsPlan(f, routing', Len(routing')) /\ f[Len(routing')] = <<linkOf', strm'>>
    BY <1>3 DEF PlanInv, FindModes, Fail
  <2>1. fresh /\ pc = "usage" /\ i > Len(routing) /\ UNCHANGED <<routing, linkOf, strm>>
    BY <1>3 DEF FindModes, input, assign
  <2>2. i - 1 = Len(routing)
    BY <1>0, <2>1
  <2> QED
    BY <2>1, <2>2 DEF PlanInv
<1>4. CASE MapVc \/ ChooseMode \/ UNCHANGED vars
  <2>1. /\ UNCHANGED <<routing, linkOf, strm, fresh>>
        /\ \/ pc = "map" /\ pc' \in {"map", "populated"}
           \/ pc' = pc /\ i' = i
    BY <1>4 DEF MapVc, ChooseMode, vars, input, assign
  <2> QED
    BY <2>1 DEF PlanInv
<1>5. CASE ~ fresh' \/ pc' \notin {"usage", "map", "populated"}
  BY <1>5 DEF PlanInv
<1> QED
  BY <1>1, <1>2, <1>3, <1>4, <1>5 DEF Next, Populate, SetRouting, ChangeFrameDesc, BeginGetDesc,
     UseNothing, MapTooBig, Return, Fail, PlanInv

\* The pipes of an update, once every route has one.
AssignmentFollowsTable ==
    fresh /\ pc \in {"map", "populated"} => <<linkOf, strm>> = FinalPlan(routing)

LEMMA PlanIsFinal == TypeInv /\ PlanInv => AssignmentFollowsTable
<1> SUFFICES ASSUME TypeInv, PlanInv, fresh, pc \in {"map", "populated"}
             PROVE  <<linkOf, strm>> = FinalPlan(routing)
  BY DEF AssignmentFollowsTable
<1>1. Len(routing) \in Nat
  BY RouteType DEF TypeInv
<1>2. \E f : IsPlan(f, routing, Len(routing)) /\ <<linkOf, strm>> = f[Len(routing)]
  BY DEF PlanInv
<1>3. ASSUME NEW a, \E f : IsPlan(f, routing, Len(routing)) /\ a = f[Len(routing)]
      PROVE  a = <<linkOf, strm>>
  BY <1>1, <1>2, <1>3, PlanUnique
<1> QED
  BY <1>2, <1>3 DEF FinalPlan

LEMMA PlanCorrect == Spec => [](TypeInv /\ PlanInv)
<1>1. Init => PlanInv
  BY DEF Init, PlanInv
<1> QED
  BY <1>1, TypeInit, TypeStep, PlanStep, PTL DEF Spec

(* Two updates with the same table assign the same pipes: the assignment   *)
(* that max_des_update_streams() writes registers by is a function of the  *)
(* table, whatever the cameras reported and whatever was claimed between   *)
(* the two, so a running stream is never moved to another pipe.            *)
THEOREM UpdatesRepeatAssignments == Spec => []AssignmentFollowsTable
BY PlanCorrect, PlanIsFinal, PTL

----------------------------------------------------------------------------
(* The channels of a deserializer that works in pixel mode only            *)

\* A chip like MAX9296A and MAX96712: no tunnel mode, neither for links nor
\* for the test pattern.
PixelOnly == DesModes = {"pixel"} /\ TpgMode = "pixel"

\* The channels taken on each PHY after each of the first n routes.
IsChannels(g, r, n) ==
    /\ g[0] = NoVcs /\ \A k \in 0 .. n : g[k] \in [Phys -> SUBSET Vcs]
    /\ \A k \in 1 .. n : \E v \in Vcs :
          /\ IsLowest(v, Vcs \ g[k - 1][r[k].phy])
          /\ g[k] = [g[k - 1] EXCEPT ![r[k].phy] = @ \cup {v}]

\* The channel of the route number k.
Channel(r, k) ==
    CHOOSE v : \E g : IsChannels(g, r, k) /\ IsLowest(v, Vcs \ g[k - 1][r[k].phy])

HasChannels(r) == \E g : IsChannels(g, r, Len(r))

LEMMA ChannelsUnique ==
    ASSUME NEW f, NEW g, NEW r, NEW m \in Nat, NEW n \in Nat, IsChannels(f, r, m),
           IsChannels(g, r, n), NEW k \in 0 .. m, k <= n
    PROVE  f[k] = g[k]
<1> DEFINE S == {j \in 0 .. k : f[j] # g[j]}
<1> SUFFICES ASSUME S # {} PROVE FALSE
  BY DEF S
<1>1. PICK j \in S : \A x \in Nat : x < j => x \notin S
  <2>1. S \in SUBSET Nat
    OBVIOUS
  <2> HIDE DEF S
  <2> QED
    BY <2>1, FirstOf
<1>2. j # 0 /\ j \in 0 .. k
  BY DEF IsChannels
<1>3. j \in 1 .. m /\ j \in 1 .. n /\ j - 1 \in 0 .. k /\ j - 1 < j
  BY <1>2
<1>4. f[j - 1] = g[j - 1]
  BY <1>1, <1>3
<1>5. \A v, w : IsLowest(v, Vcs \ f[j - 1][r[j].phy]) /\ IsLowest(w, Vcs \ f[j - 1][r[j].phy])
                  => v = w
  <2>1. Vcs \ f[j - 1][r[j].phy] \in SUBSET Nat
    BY DEF Vcs
  <2> QED
    BY <2>1, LowestOnce
<1>6. f[j] = g[j]
  BY <1>3, <1>4, <1>5 DEF IsChannels
<1> QED
  BY <1>6

\* A prefix of the channels of a table.
LEMMA ChannelsPrefix ==
    ASSUME NEW g, NEW r, NEW n \in Nat, IsChannels(g, r, n), NEW k \in 0 .. n
    PROVE  IsChannels(g, r, k)
<1>1. \A j \in 0 .. k : j \in 0 .. n
  OBVIOUS
<1>2. \A j \in 1 .. k : j \in 1 .. n
  OBVIOUS
<1> QED
  BY <1>1, <1>2 DEF IsChannels

\* The channel of a route is the one that every computation gives it.
LEMMA ChannelIs ==
    ASSUME NEW g, NEW r, NEW n \in Nat, IsChannels(g, r, n), NEW k \in 1 .. n
    PROVE  /\ Channel(r, k) \in Vcs
           /\ IsLowest(Channel(r, k), Vcs \ g[k - 1][r[k].phy])
           /\ r[k].phy \in Phys => Channel(r, k) \in g[k][r[k].phy]
<1>1. PICK v \in Vcs : /\ IsLowest(v, Vcs \ g[k - 1][r[k].phy])
                       /\ g[k] = [g[k - 1] EXCEPT ![r[k].phy] = @ \cup {v}]
  BY DEF IsChannels
<1>2. k \in Nat /\ k \in 0 .. n /\ k - 1 \in 0 .. k /\ k - 1 \in Nat
  OBVIOUS
<1>3. IsChannels(g, r, k)
  BY <1>2, ChannelsPrefix
<1>4. ASSUME NEW w, \E h : IsChannels(h, r, k) /\ IsLowest(w, Vcs \ h[k - 1][r[k].phy])
      PROVE  w = v
  <2>1. PICK h : IsChannels(h, r, k) /\ IsLowest(w, Vcs \ h[k - 1][r[k].phy])
    BY <1>4
  <2>2. h[k - 1] = g[k - 1]
    <3>1. k - 1 <= k
      BY <1>2
    <3> QED
      BY <1>2, <1>3, <2>1, <3>1, ChannelsUnique
  <2>3. Vcs \ g[k - 1][r[k].phy] \in SUBSET Nat
    BY DEF Vcs
  <2> QED
    BY <1>1, <2>1, <2>2, <2>3, LowestOnce
<1>5. Channel(r, k) = v
  <2>1. \E h : IsChannels(h, r, k) /\ IsLowest(v, Vcs \ h[k - 1][r[k].phy])
    BY <1>1, <1>3
  <2> QED
    BY <1>4, <2>1 DEF Channel
<1>6. g[k - 1] \in [Phys -> SUBSET Vcs]
  <2>1. k - 1 \in 0 .. n
    OBVIOUS
  <2> QED
    BY <2>1 DEF IsChannels
<1>7. r[k].phy \in Phys => v \in g[k][r[k].phy]
  BY <1>1, <1>6
<1> QED
  BY <1>1, <1>5, <1>7

\* Two routes to one PHY have different channels.
LEMMA ChannelsDiffer ==
    ASSUME NEW r \in Seq(Route), HasChannels(r), NEW j \in DOMAIN r, NEW k \in DOMAIN r,
           j < k, r[j].phy = r[k].phy
    PROVE  Channel(r, j) # Channel(r, k)
<1> DEFINE n == Len(r)
           h == r[k].phy
           v == Channel(r, j)
<1>0. n \in Nat /\ j \in 1 .. n /\ k \in 1 .. n /\ h \in Phys
  <2>1. r[k] \in Route
    OBVIOUS
  <2> QED
    BY <2>1 DEF Route
<1>1. PICK g : IsChannels(g, r, n)
  BY DEF HasChannels
<1>2. v \in g[j][h]
  <2>1. ASSUME NEW m \in Nat, IsChannels(g, r, m), j \in 1 .. m, r[j].phy \in Phys
        PROVE  v \in g[j][r[j].phy]
    BY <2>1, ChannelIs
  <2> QED
    BY <1>0, <1>1, <2>1
<1>3. v \in g[k - 1][h]
  <2> DEFINE S == {x \in j .. k - 1 : v \notin g[x][h]}
  <2> SUFFICES ASSUME S # {} PROVE FALSE
    <3>1. k - 1 \in j .. k - 1
      BY <1>0
    <3> QED
      BY <3>1 DEF S
  <2>1. PICK x \in S : \A y \in Nat : y < x => y \notin S
    <3>1. S \in SUBSET Nat
      BY <1>0
    <3> HIDE DEF S
    <3> QED
      BY <3>1, FirstOf
  <2>2. x # j /\ x \in j .. k - 1
    BY <1>2, <2>1
  <2>3. /\ x \in 1 .. n /\ x - 1 \in j .. k - 1 /\ x - 1 \in Nat /\ x - 1 < x /\ x - 1 \in 0 .. n
    BY <1>0, <2>2
  <2>4. v \in g[x - 1][h]
    BY <2>1, <2>3
  <2>5. PICK w \in Vcs : g[x] = [g[x - 1] EXCEPT ![r[x].phy] = @ \cup {w}]
    BY <1>1, <2>3 DEF IsChannels
  <2>6. g[x - 1] \in [Phys -> SUBSET Vcs]
    BY <1>1, <2>3 DEF IsChannels
  <2>7. v \in g[x][h]
    BY <1>0, <2>4, <2>5, <2>6
  <2> QED
    BY <2>1, <2>7
<1>4. Channel(r, k) \notin g[k - 1][h]
  <2>1. IsLowest(Channel(r, k), Vcs \ g[k - 1][h])
    BY <1>0, <1>1, ChannelIs
  <2> QED
    BY <2>1 DEF IsLowest
<1> QED
  BY <1>3, <1>4

LEMMA ChannelsExtend ==
    ASSUME NEW f, NEW r, NEW n \in Nat, IsChannels(f, r, n), r[n + 1].phy \in Phys,
           NEW v \in Vcs, IsLowest(v, Vcs \ f[n][r[n + 1].phy])
    PROVE  \E g : /\ IsChannels(g, r, n + 1)
                  /\ g[n + 1] = [f[n] EXCEPT ![r[n + 1].phy] = @ \cup {v}]
                  /\ \A k \in 0 .. n : g[k] = f[k]
<1> DEFINE b == [f[n] EXCEPT ![r[n + 1].phy] = @ \cup {v}]
           g == [k \in 0 .. n + 1 |-> IF k = n + 1 THEN b ELSE f[k]]
<1>1. \A k \in 0 .. n : g[k] = f[k]
  OBVIOUS
<1>2. g[n + 1] = b
  OBVIOUS
<1>3. f[n] \in [Phys -> SUBSET Vcs]
  BY DEF IsChannels
<1>4. b \in [Phys -> SUBSET Vcs]
  BY <1>3
<1> HIDE DEF g
<1>5. \A k \in 0 .. n + 1 : g[k] \in [Phys -> SUBSET Vcs]
  <2> TAKE k \in 0 .. n + 1
  <2>1. k = n + 1 \/ k \in 0 .. n
    OBVIOUS
  <2> HIDE DEF b
  <2> QED
    BY <1>1, <1>2, <1>4, <2>1 DEF IsChannels
<1>6. \A k \in 1 .. n + 1 : \E w \in Vcs :
          /\ IsLowest(w, Vcs \ g[k - 1][r[k].phy])
          /\ g[k] = [g[k - 1] EXCEPT ![r[k].phy] = @ \cup {w}]
  <2> TAKE k \in 1 .. n + 1
  <2>1. k - 1 \in 0 .. n /\ (k = n + 1 => k - 1 = n) /\ (k # n + 1 => k \in 1 .. n /\ k \in 0 .. n)
    OBVIOUS
  <2>2. CASE k = n + 1
    <3>1. g[k - 1] = f[n]
      BY <1>1, <2>1, <2>2
    <3> QED
      BY <1>2, <2>2, <3>1
  <2>3. CASE k # n + 1
    <3>1. g[k - 1] = f[k - 1] /\ g[k] = f[k] /\ k \in 1 .. n
      BY <1>1, <2>1, <2>3
    <3> QED
      BY <3>1 DEF IsChannels
  <2> QED
    BY <2>2, <2>3
<1>7. g[0] = NoVcs
  BY <1>1 DEF IsChannels
<1> QED
  BY <1>1, <1>2, <1>5, <1>6, <1>7 DEF IsChannels

\* Pixel mode is all such a chip ever chooses.
PixelInv ==
    /\ modes \subseteq {"pixel"} /\ mode = "pixel"
    /\ pc \in {"map", "populated"} => modes = {"pixel"}

LEMMA PixelStep == ASSUME PixelOnly, PixelInv, [Next]_vars PROVE PixelInv'
<1>1. CASE FindModes
  <2>1. SupportedModes \subseteq {"pixel"}
    BY DEF PixelOnly, SupportedModes
  <2>2. SupportedModes = {"pixel"} \/ SupportedModes = {}
    BY <2>1
  <2>3. modes' = SupportedModes /\ mode' = mode
        /\ (SupportedModes = {} => pc' = "failed")
    BY <1>1, Zenon DEF FindModes, Fail
  <2> QED
    BY <2>1, <2>2, <2>3 DEF PixelInv
<1>2. CASE ~ FindModes
  BY <1>2 DEF Next, Populate, SetRouting, ChangeFrameDesc, Begin, BeginUpdate, BeginGetDesc,
     UseTpg, UseLink, UseNothing, MapVc, MapTooBig, ChooseMode, Return, Fail, PixelInv, vars,
     context
<1> QED
  BY <1>1, <1>2

MapEntry(p, k) ==
    [pipe |-> p, phy |-> routing[k].phy, src |-> SrcVc(routing[k]), dst |-> Channel(routing, k)]

(* The mapping pass hands out the channels in table order, to routes that  *)
(* have a pipe each.                                                       *)
ChannelInv ==
    /\ pc \in {"map", "populated"} =>
          /\ \E g : IsChannels(g, routing, i - 1) /\ g[i - 1] = dstVcs
          /\ \A k \in 1 .. i - 1 : \E p \in Pipes :
                CarriedBy(routing[k], p) /\ MapEntry(p, k) \in vcMap
    /\ pc = "populated" => i = Len(routing) + 1

\* One route of the mapping pass takes the lowest channel its PHY has left.
LEMMA MapTakesChannel ==
    ASSUME TypeInv, PixelInv, MappedInv, ChannelInv, MapVc
    PROVE  ChannelInv'
<1> USE DEF TypeInv
<1>0. /\ i \in Nat \ {0} /\ Len(routing) \in Nat /\ i \in 1 .. Len(routing)
      /\ i' = i + 1 /\ pc' = pc /\ pc = "map" /\ UNCHANGED <<routing, fd, linkOf, strm>>
  BY RouteType DEF MapVc, input, assign, TypeOK
<1>1. routing[i] \in Route /\ routing[i].phy \in Phys
  BY <1>0, RouteType DEF Route
<1>2. PICK p \in Pipes :
        /\ CarriedBy(routing[i], p) /\ SrcVc(routing[i]) \in Vcs
        /\ \/ IsMapped(p, routing[i].phy, SrcVc(routing[i]))
           \/ \E v \in Vcs :
                 /\ IsDstVc(v, routing[i])
                 /\ dstVcs' = [dstVcs EXCEPT ![routing[i].phy] = @ \cup {v}]
                 /\ vcMap' = vcMap \cup {[pipe |-> p, phy |-> routing[i].phy,
                                          src |-> SrcVc(routing[i]), dst |-> v]}
  BY DEF MapVc
<1>3. ~ IsMapped(p, routing[i].phy, SrcVc(routing[i]))
  <2> SUFFICES ASSUME NEW m \in vcMap, m.pipe = p PROVE FALSE
    BY DEF IsMapped
  <2>1. PICK n \in DOMAIN routing : n < i /\ CarriedBy(routing[n], m.pipe)
    BY DEF MappedInv
  <2>2. i \in DOMAIN routing
    BY <1>0, RouteType
  <2>3. n = i
    BY <1>2, <2>1, <2>2, OneRoutePerPipe
  <2> QED
    BY <1>0, <2>1, <2>3
<1>4. PICK v \in Vcs :
        /\ IsDstVc(v, routing[i])
        /\ dstVcs' = [dstVcs EXCEPT ![routing[i].phy] = @ \cup {v}]
        /\ vcMap' = vcMap \cup {[pipe |-> p, phy |-> routing[i].phy,
                                 src |-> SrcVc(routing[i]), dst |-> v]}
  BY <1>2, <1>3
<1>5. IsLowest(v, Vcs \ dstVcs[routing[i].phy])
  <2>1. ~ KeepVc(routing[i])
    BY <1>0 DEF KeepVc, PixelInv
  <2> QED
    BY <1>4, <2>1 DEF IsDstVc
<1>6. PICK n \in Nat : n = i - 1
  BY <1>0
<1>7. i = n + 1 /\ i' - 1 = n + 1
  BY <1>0, <1>6
<1>8. PICK f : IsChannels(f, routing, n) /\ f[n] = dstVcs
  BY <1>0, <1>6 DEF ChannelInv
<1>9. PICK g : /\ IsChannels(g, routing, n + 1) /\ g[n] = f[n]
               /\ g[n + 1] = [f[n] EXCEPT ![routing[n + 1].phy] = @ \cup {v}]
  <2>1. /\ IsChannels(f, routing, n) /\ routing[n + 1].phy \in Phys /\ v \in Vcs
        /\ IsLowest(v, Vcs \ f[n][routing[n + 1].phy])
    BY <1>1, <1>5, <1>7, <1>8
  <2>2. \E g : /\ IsChannels(g, routing, n + 1)
               /\ g[n + 1] = [f[n] EXCEPT ![routing[n + 1].phy] = @ \cup {v}]
               /\ \A k \in 0 .. n : g[k] = f[k]
    BY <2>1, ChannelsExtend
  <2> QED
    BY <2>2
<1>10. g[n + 1] = dstVcs'
  BY <1>4, <1>7, <1>8, <1>9
<1>11. Channel(routing, i) = v
  <2>1. IsLowest(Channel(routing, n + 1), Vcs \ g[n][routing[n + 1].phy])
    <3>1. n + 1 \in Nat /\ n + 1 \in 1 .. n + 1 /\ (n + 1) - 1 = n
      OBVIOUS
    <3>2. IsLowest(Channel(routing, n + 1), Vcs \ g[(n + 1) - 1][routing[n + 1].phy])
      BY <1>9, <3>1, ChannelIs
    <3> QED
      BY <3>1, <3>2
  <2>2. IsLowest(v, Vcs \ g[n][routing[n + 1].phy])
    BY <1>5, <1>7, <1>8, <1>9
  <2>3. Vcs \ g[n][routing[n + 1].phy] \in SUBSET Nat
    BY DEF Vcs
  <2> QED
    BY <1>7, <2>1, <2>2, <2>3, LowestOnce
<1>12. MapEntry(p, i) \in vcMap'
  BY <1>4, <1>11 DEF MapEntry
<1>13. \A k \in 1 .. i' - 1 : \E q \in Pipes : CarriedBy(routing[k], q) /\ MapEntry(q, k) \in vcMap'
  <2> TAKE k \in 1 .. i' - 1
  <2>1. CASE k = i
    BY <1>2, <1>12, <2>1
  <2>2. CASE k # i
    <3>1. k \in 1 .. i - 1
      BY <1>0, <2>2
    <3>2. vcMap \subseteq vcMap'
      BY <1>4
    <3> QED
      BY <1>0, <3>1, <3>2 DEF ChannelInv
  <2> QED
    BY <2>1, <2>2
<1>14. \A k, q : MapEntry(q, k)' = MapEntry(q, k)
  BY <1>0 DEF MapEntry, SrcVc
<1>15. \A k, q : CarriedBy(routing[k], q)' = CarriedBy(routing[k], q)
  BY <1>0 DEF CarriedBy, Assigned, PipesOf
<1> QED
  BY <1>0, <1>7, <1>9, <1>10, <1>13, <1>14, <1>15 DEF ChannelInv

LEMMA ChannelStep ==
    ASSUME PixelOnly, TypeInv, PixelInv, VcInv, MappedInv, ChannelInv, [Next]_vars
    PROVE  ChannelInv'
<1> USE DEF TypeInv
<1>0. /\ i \in Nat \ {0} /\ Len(routing) \in Nat /\ i <= Len(routing) + 1
  BY RouteType DEF TypeOK
<1>1. CASE MapVc
  BY <1>1, MapTakesChannel
<1>2. CASE FindModes
  <2> SUFFICES ASSUME pc' = "map" PROVE ChannelInv'
    BY <1>2 DEF ChannelInv, FindModes, Fail
  <2>1. pc = "usage" /\ i' = 1 /\ dstVcs' = dstVcs
    BY <1>2 DEF FindModes
  <2>2. vcMap = {} /\ dstVcs \in [Phys -> SUBSET Vcs]
    BY <2>1 DEF MappedInv, TypeOK
  <2>3. dstVcs = NoVcs
    BY <2>2 DEF VcInv, MasksExact, NoVcs
  <2> DEFINE g == [k \in {0} |-> NoVcs]
  <2>4. IsChannels(g, routing', 0) /\ g[0] = dstVcs'
    <3>1. \A k \in 0 .. 0 : g[k] = NoVcs
      OBVIOUS
    <3>2. g[0] = NoVcs
      OBVIOUS
    <3>3. \A k \in 1 .. 0 : FALSE
      OBVIOUS
    <3> HIDE DEF g
    <3> QED
      BY <2>1, <2>2, <2>3, <3>1, <3>2, <3>3 DEF IsChannels
  <2>5. \A k \in 1 .. i' - 1 : FALSE
    BY <2>1
  <2> HIDE DEF g
  <2>6. i' - 1 = 0 /\ pc' # "populated"
    BY <2>1
  <2> QED
    BY <2>4, <2>5, <2>6 DEF ChannelInv
<1>3. CASE ChooseMode \/ UNCHANGED vars
  <2>1. /\ UNCHANGED <<routing, fd, linkOf, strm, i, dstVcs, vcMap>>
        /\ \/ pc = "map" /\ pc' = "populated" /\ i > Len(routing)
           \/ pc' = pc
    BY <1>3 DEF ChooseMode, vars, input, assign, context
  <2>2. \A k, q : MapEntry(q, k)' = MapEntry(q, k)
    BY <2>1 DEF MapEntry, SrcVc
  <2>3. \A k, q : CarriedBy(routing[k], q)' = CarriedBy(routing[k], q)
    BY <2>1 DEF CarriedBy, Assigned, PipesOf
  <2> QED
    BY <1>0, <2>1, <2>2, <2>3 DEF ChannelInv
<1>4. CASE pc' \notin {"map", "populated"}
  BY <1>4 DEF ChannelInv
<1> QED
  BY <1>1, <1>2, <1>3, <1>4 DEF Next, Populate, SetRouting, ChangeFrameDesc, Begin, BeginUpdate,
     BeginGetDesc, UseTpg, UseLink, UseNothing, MapTooBig, Return, Fail, ChannelInv

\* What a populated context says of a route: its pipe is unique and its
\* channel is the one of the table.
LEMMA DstVcIs ==
    ASSUME TypeInv, AssignInv, MappedInv, ChannelInv, pc = "populated",
           NEW k \in DOMAIN routing
    PROVE  /\ \E p \in Pipes : CarriedBy(routing[k], p)
           /\ \A p \in Pipes : CarriedBy(routing[k], p) =>
                 \A v \in Vcs : [pipe |-> p, phy |-> routing[k].phy,
                                 src |-> SrcVc(routing[k]), dst |-> v] \in vcMap
                                  <=> v = Channel(routing, k)
           /\ Channel(routing, k) \in Vcs /\ SrcVc(routing[k]) \in Vcs
           /\ HasChannels(routing)
<1> USE DEF TypeInv
<1>0. k \in 1 .. i - 1 /\ i - 1 = Len(routing) /\ Len(routing) \in Nat
  BY RouteType DEF ChannelInv
<1>1. PICK p \in Pipes : CarriedBy(routing[k], p) /\ MapEntry(p, k) \in vcMap
  BY <1>0 DEF ChannelInv
<1>2. \A q \in Pipes : CarriedBy(routing[k], q) => q = p
  <2> SUFFICES ASSUME NEW q \in Pipes, CarriedBy(routing[k], q) PROVE q = p
    OBVIOUS
  <2>1. Assigned(routing[k].sink, routing[k].stream) \in SUBSET Nat
    BY SizesAssumption DEF Assigned, PipesOf, Pipes
  <2> QED
    BY <1>1, <2>1, LowestOnce DEF CarriedBy
<1>3. MapEntry(p, k) \in VcMap
  BY <1>1 DEF TypeOK
<1>4. Channel(routing, k) \in Vcs /\ SrcVc(routing[k]) \in Vcs
  BY <1>3 DEF MapEntry, VcMap
<1>5. ASSUME NEW v \in Vcs, [pipe |-> p, phy |-> routing[k].phy,
                             src |-> SrcVc(routing[k]), dst |-> v] \in vcMap
      PROVE  v = Channel(routing, k)
  BY <1>1, <1>5 DEF MappedInv, OneStreamPerPipe, MapEntry
<1>6. HasChannels(routing)
  BY <1>0 DEF ChannelInv, HasChannels
<1> QED
  BY <1>1, <1>2, <1>4, <1>5, <1>6 DEF MapEntry

(* On such a chip the channels are a function of the table too: every call *)
(* that maps the table, get_frame_desc() or update_streams(), gives a      *)
(* route the same channel, whatever pipes it found and whatever other      *)
(* channels the cameras report by then.                                    *)
ChannelsFollowTable ==
    pc = "populated" =>
        \A k \in DOMAIN routing : \E p \in Pipes :
            CarriedBy(routing[k], p) /\ MapEntry(p, k) \in vcMap

LEMMA ChannelsCorrect ==
    ASSUME PixelOnly
    PROVE  Spec => [](TypeInv /\ AssignInv /\ MappedInv /\ PixelInv /\ ChannelInv)
<1>1. Init => MappedInv /\ PixelInv /\ ChannelInv
  BY DEF Init, MappedInv, OneStreamPerPipe, PixelInv, ChannelInv
<1>2. TypeInv /\ AssignInv /\ VcInv /\ MappedInv /\ PixelInv /\ ChannelInv /\ [Next]_vars
        => MappedInv' /\ PixelInv' /\ ChannelInv'
  BY MappedStep, PixelStep, ChannelStep
<1>3. Spec => []TypeInv
  BY TypeInit, TypeStep, PTL DEF Spec
<1> QED
  BY <1>1, <1>2, <1>3, AssignCorrect, VcCorrect, PTL DEF Spec

THEOREM MapsRepeatChannels == ASSUME PixelOnly PROVE Spec => []ChannelsFollowTable
<1>1. TypeInv /\ ChannelInv => ChannelsFollowTable
  <2> SUFFICES ASSUME TypeInv, ChannelInv, pc = "populated", NEW k \in DOMAIN routing
               PROVE  \E p \in Pipes : CarriedBy(routing[k], p) /\ MapEntry(p, k) \in vcMap
    BY DEF ChannelsFollowTable
  <2>1. k \in 1 .. i - 1
    BY RouteType DEF ChannelInv, TypeInv
  <2> QED
    BY <2>1 DEF ChannelInv
<1> QED
  BY <1>1, ChannelsCorrect, PTL

----------------------------------------------------------------------------
(* The routing computation goes on as MaxDesRemap describes it *)

LEMMA HandlerAssigns ==
    ASSUME HandlerStep
    PROVE  UNCHANGED vars \/ Return
BY DEF HandlerStep, StartWrites, SetPipePhy, PhysDone, SetPipeTunnel, SetSerModes, SetModes,
       SetPipeStreamId, IdsDone, DisableSources, StopOutput, UpdateLinks, LinksDone, SetTpg,
       StartOutput, EnableSources, Commit, UndoActiveEnable, UndoTpg, UndoLinks, UndoLinksDone,
       UndoPipe, UndoDone, UndoActiveDisable, UndoSources, GiveUp, UpdateActive, UpdatePipe,
       UpdateTpg, Quiet

LEMMA RemapStep ==
    ASSUME [StreamsNext]_allVars
    PROVE  [Next]_vars
<1>1. CASE UNCHANGED allVars
  BY <1>1 DEF allVars
<1>2. CASE HandlerStep
  BY <1>2, HandlerAssigns DEF Next
<1>3. CASE ChangeRouting \/ RerouteSerializer
  BY <1>3 DEF ChangeRouting, RerouteSerializer, Next
<1>4. CASE StartGetDesc \/ EndGetDesc \/ StartUpdate \/ Reject
  BY <1>4 DEF StartGetDesc, EndGetDesc, StartUpdate, Reject, Next
<1>5. CASE PopulateStep
  BY <1>5 DEF PopulateStep, Next
<1>6. CASE Suspend \/ Resume
  BY <1>6 DEF Suspend, Resume
<1> QED
  BY <1>1, <1>2, <1>3, <1>4, <1>5, <1>6 DEF StreamsNext

(* Enabling and disabling streams, failures and suspends included, only    *)
(* uses the routing computation as specified: whatever is proved of it     *)
(* holds while streams are switched.                                       *)
THEOREM StreamsComputeRemaps == StreamsSpec => Spec
<1>1. StreamsInit => Init
  BY DEF StreamsInit
<1>2. [StreamsNext]_allVars => [Next]_vars
  BY RemapStep
<1> QED
  BY <1>1, <1>2, PTL DEF StreamsSpec, Spec

----------------------------------------------------------------------------
(* Type correctness *)

Ids == Nat
Masks == [sink : SUBSET (Sinks \X Streams), src : SUBSET (EnabledPhys \X Nat)]

\* The remap tables are sets of entries, one for each pipe; what an entry may
\* hold is the business of the mapping pass.
SwType ==
    /\ sw = [on |-> sw.on, active |-> sw.active, pending |-> sw.pending, phy |-> sw.phy,
             prog |-> sw.prog, known |-> sw.known, remap |-> sw.remap, en |-> sw.en,
             id |-> sw.id, tpg |-> sw.tpg]
    /\ sw.on \in Masks /\ sw.active \in BOOLEAN /\ sw.pending \in BOOLEAN
    /\ sw.phy \in [Pipes -> Phys \cup {NoPhy}] /\ sw.prog \in [Pipes -> BOOLEAN]
    /\ sw.known \in [Pipes -> BOOLEAN] /\ sw.remap = [p \in Pipes |-> sw.remap[p]]
    /\ sw.en \in [Pipes -> BOOLEAN] /\ sw.id \in [Pipes -> Nat] /\ sw.tpg \in BOOLEAN

HwType ==
    /\ hw = [out |-> hw.out, en |-> hw.en, link |-> hw.link, id |-> hw.id, remap |-> hw.remap,
             ctrl |-> hw.ctrl, tun |-> hw.tun, tunnel |-> hw.tunnel, tpg |-> hw.tpg]
    /\ hw.out \in BOOLEAN /\ hw.en \in [Pipes -> BOOLEAN] /\ hw.link \in [Pipes -> Links]
    /\ hw.id \in [Pipes -> Nat] /\ hw.remap = [p \in Pipes |-> hw.remap[p]]
    /\ hw.ctrl \in [Pipes -> Phys \cup {NoPhy}] /\ hw.tun \in [Pipes -> Phys \cup {NoPhy}]
    /\ hw.tunnel \in [Pipes -> BOOLEAN] /\ hw.tpg \in BOOLEAN

SerType ==
    ser \in [mode : [Enabled -> Modes], id : [Enabled \X Streams -> Nat],
             on : SUBSET (Enabled \X Streams)]

CallType ==
    /\ call \in [phy : EnabledPhys \cup {NoPhy}, streams : SUBSET Nat, enable : BOOLEAN,
                 masks : Masks, done : SUBSET Pipes, limit : Links]
    /\ pc # "idle" => call.phy \in EnabledPhys

Stages == {"off", "phys", "tunnel", "modes", "ids", "srcOff", "actOff", "links", "tpg",
           "actOn", "srcOn", "commit", "undo", "revActOff", "revTpg", "revLinks", "revActOn",
           "revSrc", "free"}

RestType ==
    /\ stage \in Stages /\ (stage # "off" => pc = "populated" /\ fresh)
    /\ faults \in 0 .. MaxFaults /\ suspends \in 0 .. MaxSuspends /\ asleep \in BOOLEAN
    /\ written \subseteq Pipes

StreamsTypeInv == TypeInv /\ SwType /\ HwType /\ SerType /\ CallType /\ RestType

LEMMA Bounds == MaxFaults \in Nat /\ MaxSuspends \in Nat
BY SwitchAssumption

LEMMA RouteOf ==
    ASSUME TypeOK, NEW r \in RouteSet
    PROVE  /\ r \in Route /\ r.sink \in Sinks /\ r.stream \in Streams
           /\ r.phy \in EnabledPhys /\ r.source \in Nat
           /\ r.sink # Tpg => r.sink \in Enabled
<1>1. routing \in Seq(Route) /\ routing \in Routings
  BY InputAssumption DEF TypeOK
<1>2. PICK n \in DOMAIN routing : r = routing[n]
  BY DEF RouteSet
<1>3. r \in Route
  BY <1>1, <1>2
<1> QED
  BY <1>1, <1>2, <1>3, EndpointAssumption DEF Route

LEMMA StreamsTypeInit == StreamsInit => StreamsTypeInv
<1> SUFFICES ASSUME StreamsInit PROVE StreamsTypeInv
  OBVIOUS
<1>1. TypeInv
  BY TypeInit DEF StreamsInit
<1>2. 0 \in Phys /\ 0 \in Links /\ Pipes \subseteq Nat /\ Streams \subseteq Nat
  BY SizesAssumption DEF Phys, Links, Pipes, Streams
<1>3. SwType
  BY <1>2 DEF StreamsInit, SwType, SwInit, Off, Masks
<1>4. HwType
  BY <1>2, HomeLinkType DEF StreamsInit, HwType, HwReset
<1>5. SerType
  BY <1>2 DEF StreamsInit, SerType, SerInit, Modes
<1>6. CallType
  BY <1>2 DEF StreamsInit, CallType, NoCall, Off, Masks, Init
<1>7. RestType
  <2>1. asleep \in BOOLEAN /\ stage \in Stages
    BY Zenon DEF StreamsInit, Stages
  <2>2. 0 \in 0 .. MaxFaults /\ 0 \in 0 .. MaxSuspends
    BY Bounds
  <2>3. written \subseteq Pipes /\ faults = 0 /\ suspends = 0 /\ stage = "off"
    BY DEF StreamsInit
  <2> QED
    BY <2>1, <2>2, <2>3, Zenon DEF RestType
<1> QED
  BY <1>1, <1>3, <1>4, <1>5, <1>6, <1>7 DEF StreamsTypeInv

LEMMA NewMasksType ==
    ASSUME StreamsTypeInv, pc # "idle"
    PROVE  NewMasks \in Masks
<1>1. SinksOf(Requested) \subseteq Sinks \X Streams
  BY RouteOf DEF SinksOf, Requested, StreamsTypeInv, TypeInv
<1>2. {<<call.phy, s>> : s \in call.streams} \subseteq EnabledPhys \X Nat
  BY DEF StreamsTypeInv, CallType
<1>3. sw.on.sink \subseteq Sinks \X Streams /\ sw.on.src \subseteq EnabledPhys \X Nat
  BY DEF StreamsTypeInv, SwType, Masks
<1> QED
  BY <1>1, <1>2, <1>3 DEF NewMasks, Masks

LEMMA PhyForType == ASSUME NEW p PROVE PhyFor(p) \in Phys \cup {NoPhy}
<1>1. ASSUME NEW S \in SUBSET Phys, S # {}
      PROVE  (CHOOSE h \in Phys : IsLowest(h, S)) \in Phys
  <2>1. S \subseteq Nat
    BY DEF Phys
  <2>2. PICK h \in S : \A k \in S : ~ (<<k, h>> \in OpToRel(<, Nat))
    BY <1>1, <2>1, NatLessThanWellFounded, WFMin
  <2>3. \A k \in S : ~ (k < h)
    BY <2>1, <2>2 DEF OpToRel
  <2>4. h \in Phys /\ IsLowest(h, S)
    BY <2>1, <2>3 DEF IsLowest
  <2> QED
    BY <2>4
<1>2. FirstPhy(p) \in Phys \cup {NoPhy}
  BY <1>1 DEF FirstPhy, PhysOf
<1>3. UnusedPhy \in Phys \cup {NoPhy}
  <2>1. Phys # EnabledPhys => Phys \ EnabledPhys # {}
    BY EndpointAssumption
  <2> QED
    BY <1>1, <2>1 DEF UnusedPhy
<1> QED
  BY <1>2, <1>3 DEF PhyFor

\* The pieces of an update of one pipe.
StateType(x) ==
    /\ x = [sw |-> x.sw, hw |-> x.hw]
    /\ x.sw = [on |-> x.sw.on, active |-> x.sw.active, pending |-> x.sw.pending,
               phy |-> x.sw.phy, prog |-> x.sw.prog, known |-> x.sw.known,
               remap |-> x.sw.remap, en |-> x.sw.en, id |-> x.sw.id, tpg |-> x.sw.tpg]
    /\ x.hw = [out |-> x.hw.out, en |-> x.hw.en, link |-> x.hw.link, id |-> x.hw.id,
               remap |-> x.hw.remap, ctrl |-> x.hw.ctrl, tun |-> x.hw.tun,
               tunnel |-> x.hw.tunnel, tpg |-> x.hw.tpg]
    /\ x.sw.known \in [Pipes -> BOOLEAN] /\ x.sw.remap = [p \in Pipes |-> x.sw.remap[p]]
    /\ x.sw.en \in [Pipes -> BOOLEAN] /\ x.sw.id \in [Pipes -> Nat]
    /\ x.hw.en \in [Pipes -> BOOLEAN] /\ x.hw.link \in [Pipes -> Links]
    /\ x.hw.id \in [Pipes -> Nat] /\ x.hw.remap = [p \in Pipes |-> x.hw.remap[p]]

\* What an update of pipes leaves alone.
SameRest(x, y) ==
    /\ x.sw.on = y.sw.on /\ x.sw.active = y.sw.active /\ x.sw.pending = y.sw.pending
    /\ x.sw.phy = y.sw.phy /\ x.sw.prog = y.sw.prog /\ x.sw.tpg = y.sw.tpg
    /\ x.hw.out = y.hw.out /\ x.hw.ctrl = y.hw.ctrl /\ x.hw.tun = y.hw.tun
    /\ x.hw.tunnel = y.hw.tunnel /\ x.hw.tpg = y.hw.tpg

LEMMA SameRestSelf == \A x : SameRest(x, x)
BY DEF SameRest

LEMMA SameRestTwice ==
    ASSUME NEW x, NEW y, NEW z, SameRest(z, y), SameRest(y, x)
    PROVE  SameRest(z, x)
BY DEF SameRest

LEMMA NowType == ASSUME SwType, HwType PROVE StateType(Now)
BY DEF SwType, HwType, StateType, Now

LEMMA RemapsType ==
    ASSUME NEW x, StateType(x), NEW p \in Pipes, NEW m
    PROVE  StateType(AfterRemaps(x, m, p)) /\ SameRest(AfterRemaps(x, m, p), x)
BY DEF StateType, SameRest, AfterRemaps

LEMMA IdType ==
    ASSUME NEW x, StateType(x), NEW p \in Pipes, TypeOK, NEW masks, LiveOn(p, masks) # {}
    PROVE  IdFor(x, masks, p) \in Nat
<1>1. PICK r \in LiveOn(p, masks) : TRUE
  OBVIOUS
<1>2. r.stream \in Streams
  BY RouteOf DEF LiveOn, Live
<1>3. IdFor(x, masks, p) = x.sw.id[p] \/ IdFor(x, masks, p) \in Streams
  BY <1>2 DEF IdFor
<1> QED
  BY <1>3 DEF StateType, Streams

LEMMA LinkIdType ==
    ASSUME NEW x, StateType(x), NEW p \in Pipes, TypeOK, NEW masks, LiveOn(p, masks) # {}
    PROVE  /\ StateType(AfterLinkId(x, masks, p)) /\ SameRest(AfterLinkId(x, masks, p), x)
           /\ StateType([x EXCEPT !.hw = Linked(x, p)])
           /\ SameRest([x EXCEPT !.hw = Linked(x, p)], x)
           /\ StateType([AfterLinkId(x, masks, p) EXCEPT !.hw.id = x.hw.id])
           /\ SameRest([AfterLinkId(x, masks, p) EXCEPT !.hw.id = x.hw.id], x)
<1>1. IdFor(x, masks, p) \in Nat /\ linkOf[p] \in Links
  BY IdType DEF TypeOK
<1> DEFINE h == Linked(x, p)
           s == [x.sw EXCEPT !.id[p] = IdFor(x, masks, p)]
           y == AfterLinkId(x, masks, p)
<1>2. /\ h = [out |-> x.hw.out, en |-> x.hw.en, link |-> h.link, id |-> x.hw.id,
              remap |-> x.hw.remap, ctrl |-> x.hw.ctrl, tun |-> x.hw.tun,
              tunnel |-> x.hw.tunnel, tpg |-> x.hw.tpg]
      /\ h.link \in [Pipes -> Links]
  BY <1>1 DEF StateType, Linked
<1>3. y = [sw |-> s, hw |-> [h EXCEPT !.id[p] = IdFor(x, masks, p)]]
  BY DEF AfterLinkId
<1>4. /\ StateType([x EXCEPT !.hw = h]) /\ SameRest([x EXCEPT !.hw = h], x)
  <2>1. [x EXCEPT !.hw = h] = [sw |-> x.sw, hw |-> h]
    BY DEF StateType
  <2> HIDE DEF h
  <2> QED
    BY <1>2, <2>1 DEF StateType, SameRest
<1> DEFINE n == IdFor(x, masks, p)
           t == [h EXCEPT !.id[p] = n]
<1>5. /\ s = [on |-> x.sw.on, active |-> x.sw.active, pending |-> x.sw.pending,
              phy |-> x.sw.phy, prog |-> x.sw.prog, known |-> x.sw.known,
              remap |-> x.sw.remap, en |-> x.sw.en, id |-> s.id, tpg |-> x.sw.tpg]
      /\ s.id \in [Pipes -> Nat]
  BY <1>1 DEF StateType
<1> HIDE DEF h, y, s, n
<1>6. /\ t = [out |-> x.hw.out, en |-> x.hw.en, link |-> h.link, id |-> t.id,
              remap |-> x.hw.remap, ctrl |-> x.hw.ctrl, tun |-> x.hw.tun,
              tunnel |-> x.hw.tunnel, tpg |-> x.hw.tpg]
      /\ t.id \in [Pipes -> Nat]
  <2>1. n \in Nat
    BY <1>1 DEF n
  <2> QED
    BY <1>2, <2>1 DEF StateType
<1>7. y = [sw |-> s, hw |-> t]
  BY <1>3 DEF n
<1> HIDE DEF t
<1>8. StateType(y) /\ SameRest(y, x)
  BY <1>2, <1>5, <1>6, <1>7 DEF StateType, SameRest
<1>9. [y EXCEPT !.hw.id = x.hw.id] = [sw |-> s, hw |-> h]
  <2>1. [t EXCEPT !.id = x.hw.id] = h
    BY <1>2, <1>6
  <2> QED
    BY <1>7, <2>1
<1>10. StateType([sw |-> s, hw |-> h]) /\ SameRest([sw |-> s, hw |-> h], x)
  BY <1>2, <1>5 DEF StateType, SameRest
<1> QED
  BY <1>4, <1>8, <1>9, <1>10 DEF h, y

LEMMA EnablePipeType ==
    ASSUME NEW x, StateType(x), NEW p \in Pipes, TypeOK, NEW masks
    PROVE  StateType(AfterEnable(x, masks, p)) /\ SameRest(AfterEnable(x, masks, p), x)
<1> DEFINE e == LiveOn(p, masks) # {}
           y == IF e THEN AfterLinkId(x, masks, p) ELSE x
<1>1. StateType(y) /\ SameRest(y, x)
  <2>1. CASE e
    BY <2>1, LinkIdType, Zenon
  <2>2. CASE ~ e
    BY <2>2, SameRestSelf, Zenon
  <2> QED
    BY <2>1, <2>2, Zenon
<1>2. e \in BOOLEAN
  OBVIOUS
<1>3. AfterEnable(x, masks, p) \in {x, [sw |-> [y.sw EXCEPT !.en[p] = e],
                                        hw |-> [y.hw EXCEPT !.en[p] = e]]}
  BY Zenon DEF AfterEnable
<1> HIDE DEF y, e
<1>4. /\ StateType([sw |-> [y.sw EXCEPT !.en[p] = e], hw |-> [y.hw EXCEPT !.en[p] = e]])
      /\ SameRest([sw |-> [y.sw EXCEPT !.en[p] = e], hw |-> [y.hw EXCEPT !.en[p] = e]], x)
  BY <1>1, <1>2 DEF StateType, SameRest
<1> QED
  BY <1>3, <1>4 DEF SameRest

LEMMA FailedPipeType ==
    ASSUME TypeOK, SwType, HwType, NEW p \in Pipes, NEW masks, NEW z \in FailedPipe(masks, p)
    PROVE  StateType(z) /\ SameRest(z, Now)
<1> DEFINE m == RemapsFor(p, masks)
           e == LiveOn(p, masks) # {}
           x == AfterRemaps(Now, m, p)
           y == AfterLinkId(x, masks, p)
           reached == IF e THEN {x, [x EXCEPT !.hw = Linked(x, p)],
                                 [y EXCEPT !.hw.id = x.hw.id], y}
                      ELSE {x}
<1>1. StateType(Now)
  BY NowType
<1>2. StateType(x) /\ SameRest(x, Now)
  BY <1>1, RemapsType
<1>3. \A w \in reached : StateType(w) /\ SameRest(w, x)
  <2>1. CASE e
    <3>1. /\ StateType(y) /\ SameRest(y, x)
          /\ StateType([x EXCEPT !.hw = Linked(x, p)])
          /\ SameRest([x EXCEPT !.hw = Linked(x, p)], x)
          /\ StateType([y EXCEPT !.hw.id = x.hw.id])
          /\ SameRest([y EXCEPT !.hw.id = x.hw.id], x)
      BY <2>1, <1>2, LinkIdType, Zenon
    <3> HIDE DEF y, x
    <3> QED
      BY <2>1, <1>2, <3>1, SameRestSelf
  <2>2. CASE ~ e
    <3> HIDE DEF x
    <3> QED
      BY <2>2, <1>2, SameRestSelf
  <2> QED
    BY <2>1, <2>2
<1>4. \/ \E t : z = [sw |-> sw, hw |-> [hw EXCEPT !.remap[p] = t]]
      \/ \E w \in reached : z = AfterRemaps(w, RemapsFor(p, sw.on), p)
  BY DEF FailedPipe
<1> HIDE DEF reached, x, y, m, e
<1>5. ASSUME NEW t, z = [sw |-> sw, hw |-> [hw EXCEPT !.remap[p] = t]]
      PROVE  StateType(z) /\ SameRest(z, Now)
  BY <1>5 DEF StateType, SameRest, Now, SwType, HwType
<1>6. ASSUME NEW w \in reached, z = AfterRemaps(w, RemapsFor(p, sw.on), p)
      PROVE  StateType(z) /\ SameRest(z, Now)
  <2>1. StateType(w) /\ SameRest(w, x)
    BY <1>3
  <2>2. StateType(z) /\ SameRest(z, w)
    BY <1>6, <2>1, RemapsType
  <2> QED
    BY <1>2, <2>1, <2>2, SameRestTwice
<1> QED
  BY <1>4, <1>5, <1>6

\* From a pair of states back to the variables.
LEMMA BecomeType ==
    ASSUME SwType, HwType, NEW z, StateType(z), SameRest(z, Now), Become(z)
    PROVE  SwType' /\ HwType'
<1>1. sw' = z.sw /\ hw' = z.hw
  BY DEF Become
<1>2. /\ z.sw.on = sw.on /\ z.sw.active = sw.active /\ z.sw.pending = sw.pending
      /\ z.sw.phy = sw.phy /\ z.sw.prog = sw.prog /\ z.sw.tpg = sw.tpg
      /\ z.hw.out = hw.out /\ z.hw.ctrl = hw.ctrl /\ z.hw.tun = hw.tun
      /\ z.hw.tunnel = hw.tunnel /\ z.hw.tpg = hw.tpg
  BY DEF SameRest, Now
<1>3. SwType'
  BY <1>1, <1>2 DEF SwType, StateType
<1>4. HwType'
  BY <1>1, <1>2 DEF HwType, StateType
<1> QED
  BY <1>3, <1>4

LEMMA PipeStepType ==
    ASSUME TypeOK, SwType, HwType, NEW p \in Pipes, NEW masks,
           \/ Become(AfterEnable(AfterRemaps(Now, RemapsFor(p, masks), p), masks, p))
           \/ \E x \in FailedPipe(masks, p) : Become(x)
    PROVE  SwType' /\ HwType'
<1>1. CASE Become(AfterEnable(AfterRemaps(Now, RemapsFor(p, masks), p), masks, p))
  <2> DEFINE x == AfterRemaps(Now, RemapsFor(p, masks), p)
             z == AfterEnable(x, masks, p)
  <2>1. StateType(x) /\ SameRest(x, Now)
    BY NowType, RemapsType
  <2>2. StateType(z) /\ SameRest(z, x)
    BY <2>1, EnablePipeType
  <2>3. SameRest(z, Now)
    BY <2>1, <2>2, SameRestTwice
  <2> QED
    BY <1>1, <2>2, <2>3, BecomeType
<1>2. ASSUME NEW x \in FailedPipe(masks, p), Become(x)
      PROVE  SwType' /\ HwType'
  BY <1>2, FailedPipeType, BecomeType
<1> QED
  BY <1>1, <1>2

LEMMA FaultsType ==
    ASSUME RestType, NoFault \/ Fault
    PROVE  faults' \in 0 .. MaxFaults
BY Bounds DEF RestType, NoFault, Fault

\* The call goes on until the stage that ends it.
LEMMA CallGoesOn ==
    ASSUME StreamsTypeInv, HandlerStep, ~ Commit, ~ GiveUp
    PROVE  pc = "populated" /\ fresh /\ UNCHANGED <<pc, fresh>>
BY DEF HandlerStep, StartWrites, SetPipePhy, PhysDone, SetPipeTunnel, SetSerModes, SetModes,
       SetPipeStreamId, IdsDone, DisableSources, StopOutput, UpdateLinks, LinksDone, SetTpg,
       StartOutput, EnableSources, UndoActiveEnable, UndoTpg, UndoLinks, UndoLinksDone,
       UndoPipe, UndoDone, UndoActiveDisable, UndoSources, UpdateActive, UpdatePipe,
       UpdateTpg, Quiet, At, StreamsTypeInv, RestType, vars

\* The steps that read and write single fields of the registers.
LEMMA PhysStageType ==
    ASSUME StreamsTypeInv, SetPipePhy \/ SetPipeTunnel
    PROVE  SwType' /\ HwType' /\ CallType' /\ RestType' /\ SerType'
<1> USE DEF StreamsTypeInv
<1>0. pc = "populated" /\ fresh /\ UNCHANGED <<pc, fresh>>
  BY CallGoesOn DEF HandlerStep, Commit, GiveUp, At, SetPipePhy, SetPipeTunnel
<1>1. CASE SetPipePhy
  <2>1. PICK p \in Pipes, h \in {PhyFor(q) : q \in Pipes} :
          /\ \/ hw' = hw \/ hw' = [hw EXCEPT !.ctrl[p] = h]
             \/ hw' = [hw EXCEPT !.tun[p] = h]
          /\ \/ sw' = [sw EXCEPT !.phy[p] = h] \/ sw' = sw
             \/ sw' = [sw EXCEPT !.phy[p] = h, !.prog[p] = TRUE]
          /\ call' = call \/ Visit(p)
          /\ stage' = stage \/ Goto("free")
          /\ written' \in {{}, {p}}
    <3>1. PICK p \in Pipes :
            \/ /\ sw' = [sw EXCEPT !.phy[p] = PhyFor(p)]
               /\ written' = {} /\ Visit(p) /\ UNCHANGED <<hw, stage>>
            \/ /\ \/ hw' = [hw EXCEPT !.ctrl[p] = PhyFor(p)]
                  \/ hw' = [hw EXCEPT !.tun[p] = PhyFor(p)]
               /\ sw' = [sw EXCEPT !.phy[p] = PhyFor(p), !.prog[p] = TRUE]
               /\ written' = {p} /\ Visit(p) /\ UNCHANGED stage
            \/ Goto("free") /\ written' = {} /\ UNCHANGED <<sw, hw, call>>
      BY <1>1 DEF SetPipePhy
    <3> DEFINE h == PhyFor(p)
    <3>2. h \in {PhyFor(q) : q \in Pipes}
      OBVIOUS
    <3>3. \/ /\ sw' = [sw EXCEPT !.phy[p] = h]
             /\ written' = {} /\ Visit(p) /\ UNCHANGED <<hw, stage>>
          \/ /\ \/ hw' = [hw EXCEPT !.ctrl[p] = h]
                \/ hw' = [hw EXCEPT !.tun[p] = h]
             /\ sw' = [sw EXCEPT !.phy[p] = h, !.prog[p] = TRUE]
             /\ written' = {p} /\ Visit(p) /\ UNCHANGED stage
          \/ Goto("free") /\ written' = {} /\ UNCHANGED <<sw, hw, call>>
      BY <3>1
    <3> HIDE DEF h
    <3> QED
      BY <3>2, <3>3
  <2>2. h \in Phys \cup {NoPhy}
    BY PhyForType
  <2>3. SwType'
    <3>1. CASE sw' = sw
      BY <3>1 DEF SwType
    <3>2. CASE sw' = [sw EXCEPT !.phy[p] = h]
      BY <3>2, <2>2 DEF SwType
    <3>3. CASE sw' = [sw EXCEPT !.phy[p] = h, !.prog[p] = TRUE]
      BY <3>3, <2>2 DEF SwType
    <3> QED
      BY <2>1, <3>1, <3>2, <3>3
  <2>4. HwType'
    BY <2>1, <2>2 DEF HwType
  <2>5. CallType'
    BY <1>0, <2>1 DEF CallType, Visit
  <2>6. pc' = pc /\ UNCHANGED <<suspends, asleep, ser>> /\ (NoFault \/ Fault) /\ pc = "populated"
    BY <1>1 DEF SetPipePhy, Quiet, vars, At
  <2>7. SerType'
    BY <2>6 DEF SerType
  <2>8. RestType'
    BY <2>1, <2>6, FaultsType, <1>0 DEF RestType, Goto, Stages
  <2> QED
    BY <2>3, <2>4, <2>5, <2>7, <2>8
<1>2. CASE SetPipeTunnel
  <2>1. PICK p \in Pipes, b \in BOOLEAN :
          /\ hw' = hw \/ hw' = [hw EXCEPT !.tunnel[p] = b]
          /\ call' = call \/ Visit(p)
          /\ stage' = stage \/ Goto("free")
    <3>1. (mode = "tunnel") \in BOOLEAN
      OBVIOUS
    <3> DEFINE c == (mode = "tunnel")
    <3>2. \E p \in Pipes :
            /\ hw' = hw \/ hw' = [hw EXCEPT !.tunnel[p] = c]
            /\ call' = call \/ Visit(p)
            /\ stage' = stage \/ Goto("free")
      BY <1>2 DEF SetPipeTunnel
    <3>3. c \in BOOLEAN
      BY <3>1
    <3> HIDE DEF c
    <3> QED
      BY <3>2, <3>3
  <2>2. sw' = sw /\ ser' = ser /\ written' = {} /\ pc' = pc /\ pc = "populated"
        /\ UNCHANGED <<suspends, asleep>> /\ (NoFault \/ Fault)
    BY <1>2 DEF SetPipeTunnel, Quiet, vars, At
  <2>3. HwType'
    BY <2>1 DEF HwType
  <2>4. SwType' /\ SerType'
    BY <2>2 DEF SwType, SerType
  <2>5. CallType'
    BY <1>0, <2>1 DEF CallType, Visit
  <2>6. RestType'
    BY <2>1, <2>2, FaultsType, <1>0 DEF RestType, Goto, Stages
  <2> QED
    BY <2>3, <2>4, <2>5, <2>6
<1> QED
  BY <1>1, <1>2

LEMMA SerStageType ==
    ASSUME StreamsTypeInv, SetSerModes \/ DisableSources \/ EnableSources \/ UndoSources
    PROVE  SwType' /\ HwType' /\ CallType' /\ RestType' /\ SerType'
<1> USE DEF StreamsTypeInv
<1>0. pc = "populated" /\ fresh /\ UNCHANGED <<pc, fresh>>
  BY CallGoesOn DEF HandlerStep, Commit, GiveUp, At, SetSerModes, DisableSources, EnableSources, UndoSources
<1>1. /\ UNCHANGED <<sw, hw, suspends, asleep, pc>> /\ written' = {} /\ (NoFault \/ Fault)
      /\ pc = "populated" /\ (call' = call \/ Rewind)
      /\ stage' \in Stages
  BY DEF SetSerModes, DisableSources, EnableSources, UndoSources, Quiet, vars, At, Goto, Stages
<1>2. SwType' /\ HwType'
  BY <1>1 DEF SwType, HwType
<1>3. CallType'
  BY <1>0, <1>1 DEF CallType, Rewind
<1>4. RestType'
  BY <1>1, FaultsType, <1>0 DEF RestType
<1>5. SerType'
  <2>1. CASE SetSerModes
    <3>1. PICK n : ser' = [ser EXCEPT !.mode = [l \in Enabled |->
                          IF l \in {c[1] : c \in Consulted} /\ l < n THEN mode ELSE @[l]]]
      BY <2>1 DEF SetSerModes
    <3> DEFINE m == [l \in Enabled |-> IF l \in {c[1] : c \in Consulted} /\ l < n
                                       THEN mode ELSE ser.mode[l]]
    <3>2. ser' = [ser EXCEPT !.mode = m]
      BY <3>1
    <3>3. m \in [Enabled -> Modes]
      BY DEF SerType, TypeInv, TypeOK
    <3> HIDE DEF m
    <3> QED
      BY <3>2, <3>3 DEF SerType
  <2>2. CASE DisableSources
    BY <2>2 DEF DisableSources, SerType
  <2>3. CASE EnableSources \/ UndoSources
    <3>1. SourceStreams \subseteq Enabled \X Streams
      BY RouteOf DEF SourceStreams, SinksOf, Requested, TypeInv
    <3>2. ser' = ser \/ ser' = [ser EXCEPT !.on = @ \cup SourceStreams]
      BY <2>3 DEF EnableSources, UndoSources
    <3> QED
      BY <3>1, <3>2 DEF SerType
  <2> QED
    BY <2>1, <2>2, <2>3
<1> QED
  BY <1>2, <1>3, <1>4, <1>5

LEMMA IdStageType ==
    ASSUME StreamsTypeInv, SetPipeStreamId
    PROVE  SwType' /\ HwType' /\ CallType' /\ RestType' /\ SerType'
<1> USE DEF StreamsTypeInv
<1>0. pc = "populated" /\ fresh /\ UNCHANGED <<pc, fresh>>
  BY CallGoesOn DEF HandlerStep, Commit, GiveUp, At, SetPipeStreamId
<1>1. PICK p \in Pipes :
        \/ UNCHANGED <<sw, hw, ser>>
        \/ /\ strm[p] # Unassigned /\ linkOf[p] \in Enabled
           /\ ser' \in {ser, [ser EXCEPT !.id[<<linkOf[p], strm[p]>>] = WantedId(p)]}
           /\ UNCHANGED <<sw, hw>>
        \/ /\ strm[p] # Unassigned /\ linkOf[p] \in Enabled
           /\ ser' = [ser EXCEPT !.id[<<linkOf[p], strm[p]>>] = WantedId(p)]
           /\ hw' = [hw EXCEPT !.id[p] = WantedId(p)] /\ sw' = [sw EXCEPT !.id[p] = WantedId(p)]
  BY DEF SetPipeStreamId
<1>2. /\ UNCHANGED <<suspends, asleep, pc>> /\ written' = {} /\ (NoFault \/ Fault)
      /\ pc = "populated" /\ (call' = call \/ \E q \in Pipes : Visit(q))
      /\ stage' = stage \/ stage' = "free"
  BY DEF SetPipeStreamId, Quiet, vars, At, Goto
<1>3. strm[p] # Unassigned => WantedId(p) \in Nat /\ strm[p] \in Streams
  BY DEF WantedId, SwType, TypeInv, TypeOK, Streams
<1>4. SwType'
  BY <1>1, <1>3 DEF SwType
<1>5. HwType'
  BY <1>1, <1>3 DEF HwType
<1>6. SerType'
  BY <1>1, <1>3 DEF SerType
<1>7. CallType'
  BY <1>0, <1>2 DEF CallType, Visit
<1>8. RestType'
  BY <1>2, FaultsType, <1>0 DEF RestType, Stages
<1> QED
  BY <1>4, <1>5, <1>6, <1>7, <1>8

\* The output enable and the test pattern, forwards and backwards.
LEMMA SwitchStageType ==
    ASSUME StreamsTypeInv,
           SetTpg \/ StopOutput \/ StartOutput \/ UndoActiveEnable \/ UndoTpg \/ UndoActiveDisable
    PROVE  SwType' /\ HwType' /\ CallType' /\ RestType' /\ SerType'
<1> USE DEF StreamsTypeInv
<1>0. pc = "populated" /\ fresh /\ UNCHANGED <<pc, fresh>>
  BY CallGoesOn DEF HandlerStep, Commit, GiveUp, At, SetTpg, StopOutput, StartOutput, UndoActiveEnable, UndoTpg, UndoActiveDisable
<1>1. /\ UNCHANGED <<ser, call, suspends, asleep, pc>> /\ written' = {} /\ (NoFault \/ Fault)
      /\ pc = "populated" /\ stage' \in Stages
  BY DEF SetTpg, StopOutput, StartOutput, UndoActiveEnable, UndoTpg, UndoActiveDisable,
         UpdateTpg, UpdateActive, Quiet, vars, At, Goto, Stages
<1>2. \/ UNCHANGED <<sw, hw>>
      \/ \E masks : /\ hw' = [hw EXCEPT !.out = (masks.src # {})]
                    /\ sw' = [sw EXCEPT !.active = (masks.src # {})]
      \/ \E masks : /\ hw' = [hw EXCEPT !.tpg = TpgFor(masks)]
                    /\ sw' = [sw EXCEPT !.tpg = TpgFor(masks)]
  BY DEF SetTpg, StopOutput, StartOutput, UndoActiveEnable, UndoTpg, UndoActiveDisable,
         UpdateTpg, UpdateActive
<1>3. \A masks : TpgFor(masks) \in BOOLEAN
  BY Zenon DEF TpgFor
<1>4. SwType'
  BY <1>2, <1>3 DEF SwType
<1>5. HwType'
  BY <1>2, <1>3 DEF HwType
<1>6. SerType' /\ CallType'
  BY <1>0, <1>1 DEF SerType, CallType
<1>7. RestType'
  BY <1>1, FaultsType, <1>0 DEF RestType
<1> QED
  BY <1>4, <1>5, <1>6, <1>7

LEMMA PipeStageType ==
    ASSUME StreamsTypeInv, UpdateLinks \/ UndoLinks \/ UndoPipe
    PROVE  SwType' /\ HwType' /\ CallType' /\ RestType' /\ SerType'
<1> USE DEF StreamsTypeInv
<1>0. pc = "populated" /\ fresh /\ UNCHANGED <<pc, fresh>>
  BY CallGoesOn DEF HandlerStep, Commit, GiveUp, At, UpdateLinks, UndoLinks, UndoPipe
<1>1. PICK p, masks :
        /\ p \in Pipes
        /\ \/ Become(AfterEnable(AfterRemaps(Now, RemapsFor(p, masks), p), masks, p))
           \/ \E x \in FailedPipe(masks, p) : Become(x)
        /\ written' = Touched(masks, p)
        /\ \/ Visit(p) \/ call' = [call EXCEPT !.done = {}, !.limit = linkOf[p]]
           \/ call' = [call EXCEPT !.done = @ \cup PipesOf(linkOf[p])]
  BY DEF UpdateLinks, UndoLinks, UndoPipe, UpdatePipe
<1>2. UNCHANGED <<ser, suspends, asleep, pc>> /\ (NoFault \/ Fault) /\ pc = "populated"
      /\ (stage' = stage \/ stage' = "undo")
  BY DEF UpdateLinks, UndoLinks, UndoPipe, UpdatePipe, Quiet, vars, At, Goto
<1>3. SwType' /\ HwType'
  BY <1>1, PipeStepType DEF TypeInv
<1>4. PipesOf(linkOf[p]) \subseteq Pipes /\ linkOf[p] \in Links
  BY <1>1 DEF PipesOf, TypeInv, TypeOK
<1>5. CallType'
  BY <1>0, <1>1, <1>4 DEF CallType, Visit
<1>6. SerType'
  BY <1>2 DEF SerType
<1>7. written' \subseteq Pipes
  BY <1>1 DEF Touched
<1>8. RestType'
  BY <1>2, <1>7, FaultsType, <1>0 DEF RestType, Stages
<1> QED
  BY <1>3, <1>5, <1>6, <1>8

\* The stages that only go on to another one, and the start of the writes.
LEMMA MoveStageType ==
    ASSUME StreamsTypeInv,
           \/ StartWrites \/ PhysDone \/ SetModes \/ IdsDone \/ LinksDone
           \/ UndoLinksDone \/ UndoDone
    PROVE  SwType' /\ HwType' /\ CallType' /\ RestType' /\ SerType'
<1> USE DEF StreamsTypeInv
<1>1. /\ UNCHANGED <<sw, hw, ser, suspends, asleep, pc, fresh>> /\ written' = {}
      /\ (NoFault \/ Fault) /\ pc = "populated" /\ stage' \in Stages
      /\ call' = call \/ Rewind \/ call' = [call EXCEPT !.masks = NewMasks]
  BY DEF StartWrites, PhysDone, SetModes, IdsDone, LinksDone, UndoLinksDone, UndoDone,
         Quiet, vars, At, Goto, Stages
<1>2. fresh
  BY DEF StartWrites, PhysDone, SetModes, IdsDone, LinksDone, UndoLinksDone, UndoDone, At, RestType
<1>3. SwType' /\ HwType' /\ SerType'
  BY <1>1 DEF SwType, HwType, SerType
<1>4. NewMasks \in Masks
  BY <1>1, NewMasksType
<1>5. CallType'
  BY <1>1, <1>4 DEF CallType, Rewind
<1>6. RestType'
  BY <1>1, <1>2, FaultsType DEF RestType
<1> QED
  BY <1>3, <1>5, <1>6

LEMMA NoCallType == NoCall \in [phy : EnabledPhys \cup {NoPhy}, streams : SUBSET Nat,
                                enable : BOOLEAN, masks : Masks, done : SUBSET Pipes,
                                limit : Links]
<1>1. 0 \in Links
  BY SizesAssumption DEF Links
<1>2. Off \in Masks
  BY DEF Off, Masks
<1> QED
  BY <1>1, <1>2 DEF NoCall

\* The calls begin and end, and the routing and the cameras change between them.
LEMMA CallsType ==
    ASSUME StreamsTypeInv,
           \/ ChangeRouting \/ RerouteSerializer \/ StartGetDesc \/ EndGetDesc \/ StartUpdate
           \/ PopulateStep \/ Reject \/ Commit \/ GiveUp
    PROVE  SwType' /\ HwType' /\ CallType' /\ RestType' /\ SerType'
<1> USE DEF StreamsTypeInv
<1>1. /\ UNCHANGED <<hw, ser, suspends, asleep, faults>> /\ written' = {}
  BY DEF ChangeRouting, RerouteSerializer, StartGetDesc, EndGetDesc, StartUpdate, PopulateStep,
         Reject, Commit, GiveUp, NoFault
<1>2. HwType' /\ SerType'
  BY <1>1 DEF HwType, SerType
<1>3. SwType'
  <2>1. CASE Commit
    <3>1. call.masks \in Masks /\ sw' = [sw EXCEPT !.on = call.masks, !.pending = FALSE]
      BY <2>1 DEF Commit, CallType
    <3> QED
      BY <3>1 DEF SwType
  <2>2. CASE ~ Commit
    BY <2>2 DEF SwType, ChangeRouting, RerouteSerializer, StartGetDesc, EndGetDesc, StartUpdate,
                PopulateStep, Reject, GiveUp
  <2> QED
    BY <2>1, <2>2
<1>4. CallType'
  <2>1. CASE ChangeRouting \/ RerouteSerializer \/ PopulateStep
    <3>1. call' = call /\ (pc' # "idle" => pc # "idle")
      BY <2>1 DEF ChangeRouting, RerouteSerializer, PopulateStep, SetRouting, ChangeFrameDesc,
                  Populate, UseTpg, UseLink, UseNothing, FindModes, MapVc, MapTooBig, ChooseMode
    <3> QED
      BY <3>1 DEF CallType
  <2>2. CASE EndGetDesc \/ Reject \/ Commit \/ GiveUp
    <3>1. call' = NoCall /\ pc' = "idle"
      BY <2>2 DEF EndGetDesc, Reject, Commit, GiveUp, Return
    <3> QED
      BY <3>1, NoCallType DEF CallType
  <2>3. CASE StartGetDesc
    <3>1. PICK h \in EnabledPhys : call' = [NoCall EXCEPT !.phy = h]
      BY <2>3 DEF StartGetDesc
    <3> QED
      BY <3>1, NoCallType DEF CallType
  <2>4. CASE StartUpdate
    <3>1. PICK h \in EnabledPhys, S \in SUBSET {r.source : r \in RouteSet},
               e \in BOOLEAN :
             call' = [NoCall EXCEPT !.phy = h, !.streams = S, !.enable = e]
      <4>1. PICK h \in EnabledPhys :
              \E S \in SUBSET {r.source : r \in {x \in RouteSet : x.phy = h}}, e \in BOOLEAN :
                 call' = [NoCall EXCEPT !.phy = h, !.streams = S, !.enable = e]
        BY <2>4 DEF StartUpdate
      <4>2. SUBSET {r.source : r \in {x \in RouteSet : x.phy = h}}
              \subseteq SUBSET {r.source : r \in RouteSet}
        OBVIOUS
      <4> QED
        BY <4>1, <4>2
    <3>2. S \subseteq Nat
      BY <3>1, RouteOf DEF TypeInv
    <3> QED
      BY <3>1, <3>2, NoCallType DEF CallType
  <2> QED
    BY <2>1, <2>2, <2>3, <2>4
<1>5. RestType'
  <2>1. CASE Commit \/ GiveUp
    <3>1. stage' = "off"
      BY <2>1 DEF Commit, GiveUp, Goto
    <3> QED
      BY <1>1, <3>1 DEF RestType, Stages
  <2>2. CASE ~ (Commit \/ GiveUp)
    <3>1. stage' = "off"
      BY <2>2 DEF ChangeRouting, RerouteSerializer, StartGetDesc, EndGetDesc, StartUpdate,
                  PopulateStep, Reject, Populate, UseTpg, UseLink, UseNothing, FindModes, MapVc,
                  MapTooBig, ChooseMode, Idle, RestType
    <3> QED
      BY <1>1, <3>1 DEF RestType, Stages
  <2> QED
    BY <2>1, <2>2
<1> QED
  BY <1>2, <1>3, <1>4, <1>5

LEMMA PowerType ==
    ASSUME StreamsTypeInv, Suspend \/ Resume
    PROVE  SwType' /\ HwType' /\ CallType' /\ RestType' /\ SerType'
<1> USE DEF StreamsTypeInv
<1>1. UNCHANGED <<pc, fresh, call, stage>> /\ written' = {}
  BY DEF Suspend, Resume, vars
<1>2. CallType'
  BY <1>1 DEF CallType
<1>3. HwType'
  <2>1. /\ HwReset = [out |-> HwReset.out, en |-> HwReset.en, link |-> HwReset.link,
                      id |-> HwReset.id, remap |-> HwReset.remap, ctrl |-> HwReset.ctrl,
                      tun |-> HwReset.tun, tunnel |-> HwReset.tunnel, tpg |-> HwReset.tpg]
        /\ HwReset.out = FALSE /\ HwReset.tpg = FALSE
        /\ HwReset.en \in [Pipes -> BOOLEAN] /\ HwReset.link \in [Pipes -> Links]
        /\ HwReset.id \in [Pipes -> Nat] /\ HwReset.remap = [p \in Pipes |-> HwReset.remap[p]]
        /\ HwReset.ctrl \in [Pipes -> Phys \cup {NoPhy}]
        /\ HwReset.tun \in [Pipes -> Phys \cup {NoPhy}]
        /\ HwReset.tunnel \in [Pipes -> BOOLEAN]
    BY HomeLinkType DEF HwReset, Pipes
  <2>2. \/ hw' = HwReset \/ hw' = hw
        \/ \E k \in {HwReset.link, linkOf} :
              hw' = [HwReset EXCEPT !.id = sw.id, !.remap = sw.remap, !.link = k]
    BY DEF Suspend, Resume
  <2> HIDE DEF HwReset
  <2>3. linkOf \in [Pipes -> Links]
    BY DEF TypeInv, TypeOK
  <2>4. sw.id \in [Pipes -> Nat] /\ sw.remap = [p \in Pipes |-> sw.remap[p]]
    BY DEF SwType
  <2>5. CASE hw' = HwReset \/ hw' = hw
    <3> DEFINE h == HwReset
    <3>1. /\ h = [out |-> h.out, en |-> h.en, link |-> h.link, id |-> h.id,
                  remap |-> h.remap, ctrl |-> h.ctrl, tun |-> h.tun,
                  tunnel |-> h.tunnel, tpg |-> h.tpg]
          /\ h.out = FALSE /\ h.tpg = FALSE /\ h.en \in [Pipes -> BOOLEAN]
          /\ h.link \in [Pipes -> Links] /\ h.id \in [Pipes -> Nat]
          /\ h.remap = [p \in Pipes |-> h.remap[p]]
          /\ h.ctrl \in [Pipes -> Phys \cup {NoPhy}] /\ h.tun \in [Pipes -> Phys \cup {NoPhy}]
          /\ h.tunnel \in [Pipes -> BOOLEAN]
          /\ hw' = h \/ hw' = hw
      BY <2>1, <2>5
    <3> HIDE DEF h
    <3> QED
      BY <3>1 DEF HwType
  <2>6. ASSUME NEW k \in {HwReset.link, linkOf},
               hw' = [HwReset EXCEPT !.id = sw.id, !.remap = sw.remap, !.link = k]
        PROVE  HwType'
    <3>1. k \in [Pipes -> Links]
      BY <2>1, <2>3
    <3> DEFINE h == HwReset
    <3>2. /\ h = [out |-> h.out, en |-> h.en, link |-> h.link, id |-> h.id,
                  remap |-> h.remap, ctrl |-> h.ctrl, tun |-> h.tun,
                  tunnel |-> h.tunnel, tpg |-> h.tpg]
          /\ hw' = [h EXCEPT !.id = sw.id, !.remap = sw.remap, !.link = k]
          /\ h.out = FALSE /\ h.tpg = FALSE /\ h.en \in [Pipes -> BOOLEAN]
          /\ h.ctrl \in [Pipes -> Phys \cup {NoPhy}] /\ h.tun \in [Pipes -> Phys \cup {NoPhy}]
          /\ h.tunnel \in [Pipes -> BOOLEAN]
      BY <2>1, <2>6
    <3> HIDE DEF h
    <3> QED
      BY <2>4, <3>1, <3>2 DEF HwType
  <2> QED
    BY <2>2, <2>5, <2>6
<1>4. SwType'
  <2>1. \/ sw' = sw
        \/ sw' = [sw EXCEPT !.prog = [p \in Pipes |-> FALSE], !.pending = TRUE]
    BY DEF Suspend, Resume
  <2>2. CASE sw' = sw
    BY <2>2 DEF SwType
  <2>3. CASE sw' = [sw EXCEPT !.prog = [p \in Pipes |-> FALSE], !.pending = TRUE]
    <3> DEFINE g == [p \in Pipes |-> FALSE]
    <3>1. sw' = [sw EXCEPT !.prog = g, !.pending = TRUE] /\ g \in [Pipes -> BOOLEAN]
      BY <2>3
    <3> HIDE DEF g
    <3> QED
      BY <3>1 DEF SwType
  <2> QED
    BY <2>1, <2>2, <2>3
<1>5. SerType'
  <2>1. ser' = ser \/ ser' = [SerInit EXCEPT !.mode = ser.mode]
    BY DEF Suspend, Resume
  <2>2. SerInit.id \in [Enabled \X Streams -> Nat] /\ SerInit.on = {}
        /\ SerInit = [mode |-> SerInit.mode, id |-> SerInit.id, on |-> {}]
    BY DEF SerInit, Streams
  <2> HIDE DEF SerInit
  <2> QED
    BY <2>1, <2>2 DEF SerType
<1>6. RestType'
  <2>1. \/ Suspend /\ faults' = faults
        \/ NoFault \/ Fault
    BY DEF Suspend, Resume
  <2>2. faults' \in 0 .. MaxFaults
    BY <2>1, FaultsType DEF RestType
  <2>3. suspends' \in 0 .. MaxSuspends
    BY Bounds DEF Suspend, Resume, RestType
  <2>4. asleep' \in BOOLEAN
    BY Zenon DEF Suspend, Resume, RestType
  <2> QED
    BY <1>1, <2>2, <2>3, <2>4 DEF RestType
<1> QED
  BY <1>2, <1>3, <1>4, <1>5, <1>6

LEMMA StreamsTypeStep == StreamsTypeInv /\ [StreamsNext]_allVars => StreamsTypeInv'
<1> SUFFICES ASSUME StreamsTypeInv, [StreamsNext]_allVars
             PROVE  StreamsTypeInv'
  OBVIOUS
<1>1. TypeInv'
  BY RemapStep, TypeStep DEF StreamsTypeInv
<1>2. SwType' /\ HwType' /\ CallType' /\ RestType' /\ SerType'
  <2>1. CASE UNCHANGED allVars
    BY <2>1 DEF StreamsTypeInv, SwType, HwType, CallType, RestType, SerType, allVars, own, vars
  <2>2. CASE HandlerStep
    BY <2>2, PhysStageType, SerStageType, IdStageType, SwitchStageType, PipeStageType,
       MoveStageType, CallsType DEF HandlerStep
  <2>3. CASE StreamsNext /\ ~ HandlerStep
    BY <2>3, CallsType, PowerType DEF StreamsNext
  <2> QED
    BY <2>1, <2>2, <2>3
<1> QED
  BY <1>1, <1>2 DEF StreamsTypeInv

LEMMA StreamsTypeCorrect == StreamsSpec => []StreamsTypeInv
<1>1. StreamsTypeInv /\ [StreamsNext]_allVars => StreamsTypeInv'
  BY StreamsTypeStep
<1> QED
  BY <1>1, StreamsTypeInit, PTL DEF StreamsSpec

----------------------------------------------------------------------------
(* The outputs are on when a stream is *)

LEMMA PipeStepKeeps ==
    ASSUME TypeOK, SwType, HwType, NEW p \in Pipes, NEW masks,
           \/ Become(AfterEnable(AfterRemaps(Now, RemapsFor(p, masks), p), masks, p))
           \/ \E x \in FailedPipe(masks, p) : Become(x)
    PROVE  /\ sw'.on = sw.on /\ sw'.active = sw.active /\ sw'.pending = sw.pending
           /\ sw'.phy = sw.phy /\ sw'.prog = sw.prog /\ sw'.tpg = sw.tpg
           /\ hw'.out = hw.out /\ hw'.ctrl = hw.ctrl /\ hw'.tun = hw.tun
           /\ hw'.tunnel = hw.tunnel /\ hw'.tpg = hw.tpg
<1>1. CASE Become(AfterEnable(AfterRemaps(Now, RemapsFor(p, masks), p), masks, p))
  <2> DEFINE x == AfterRemaps(Now, RemapsFor(p, masks), p)
             z == AfterEnable(x, masks, p)
  <2>1. StateType(x) /\ SameRest(x, Now)
    BY NowType, RemapsType
  <2>2. SameRest(z, x)
    BY <2>1, EnablePipeType
  <2>3. SameRest(z, Now)
    BY <2>1, <2>2, SameRestTwice
  <2>4. Become(z)
    BY <1>1
  <2> HIDE DEF z
  <2> QED
    BY <2>3, <2>4 DEF SameRest, Become, Now
<1>2. ASSUME NEW x \in FailedPipe(masks, p), Become(x)
      PROVE  SameRest(x, Now)
  BY FailedPipeType
<1> QED
  BY <1>1, <1>2 DEF SameRest, Become, Now

Act(masks) == masks.src # {}

(* The output enable the driver remembers, against the masks that are      *)
(* committed and those of the call.  The last part says why a single       *)
(* failing call is enough to know: the error path runs because of it.      *)
ActiveInv ==
    /\ stage \in {"off", "phys", "tunnel", "modes", "ids", "srcOff", "actOff", "revSrc", "free"}
          => (sw.active <=> Act(sw.on))
    /\ stage \in {"links", "tpg", "actOn"} => (sw.active <=> Act(sw.on) /\ Act(call.masks))
    /\ stage \in {"srcOn", "commit", "revActOff"} => (sw.active <=> Act(call.masks))
    /\ stage \in {"undo", "revTpg", "revLinks", "revActOn"} => (sw.active => Act(sw.on))
    /\ stage \in {"undo", "revActOff", "revTpg", "revLinks", "revActOn", "revSrc"} => faults >= 1

LEMMA ActiveInit == StreamsInit => ActiveInv
BY DEF StreamsInit, ActiveInv, SwInit, Off, Act

\* max_des_update_active(), whether it skips, writes or fails.
LEMMA UpdateActiveEffect ==
    ASSUME SwType, NEW masks, NEW expected \in BOOLEAN, NEW next, NEW error,
           UpdateActive(masks, expected, next, error)
    PROVE  /\ sw'.on = sw.on /\ call' = call
           /\ \/ /\ stage' = next /\ faults' = faults
                 /\ (Act(masks) <=> expected) => (sw'.active <=> expected)
                 /\ ~ (Act(masks) <=> expected) => (sw'.active <=> sw.active)
              \/ /\ stage' = error /\ sw' = sw /\ Fault
<1> DEFINE a == masks.src # {}
<1>1. a \in BOOLEAN /\ (a <=> Act(masks)) /\ sw.active \in BOOLEAN
  BY DEF Act, SwType
<1>2. /\ \/ ActiveSkip(a, expected) /\ NoFault /\ Goto(next) /\ UNCHANGED <<sw, hw>>
         \/ /\ ~ ActiveSkip(a, expected) /\ NoFault /\ Goto(next)
            /\ hw' = [hw EXCEPT !.out = a] /\ sw' = [sw EXCEPT !.active = a]
         \/ ~ ActiveSkip(a, expected) /\ Fault /\ Goto(error) /\ UNCHANGED <<sw, hw>>
      /\ call' = call
  BY Zenon DEF UpdateActive
<1> HIDE DEF a
<1>3. CASE ActiveSkip(a, expected) /\ NoFault /\ Goto(next) /\ UNCHANGED <<sw, hw>>
  <2>1. a # expected \/ sw.active = a
    BY <1>3 DEF ActiveSkip
  <2>2. (Act(masks) <=> expected) => (sw.active <=> expected)
    BY <1>1, <2>1
  <2> QED
    BY <1>2, <1>3, <2>2 DEF Goto, NoFault
<1>4. CASE /\ ~ ActiveSkip(a, expected) /\ NoFault /\ Goto(next)
           /\ hw' = [hw EXCEPT !.out = a] /\ sw' = [sw EXCEPT !.active = a]
  <2>1. a = expected
    BY <1>4 DEF ActiveSkip
  <2>2. sw'.on = sw.on /\ sw'.active = a
    BY <1>4 DEF SwType
  <2> QED
    BY <1>1, <1>2, <1>4, <2>1, <2>2 DEF Goto, NoFault
<1>5. CASE ~ ActiveSkip(a, expected) /\ Fault /\ Goto(error) /\ UNCHANGED <<sw, hw>>
  BY <1>2, <1>5 DEF Goto
<1> QED
  BY <1>2, <1>3, <1>4, <1>5

LEMMA ActiveStep ==
    ASSUME Fault => faults = 0, StreamsTypeInv, ActiveInv, [StreamsNext]_allVars
    PROVE  ActiveInv'
<1> USE DEF StreamsTypeInv
<1>1. CASE UNCHANGED <<sw, call, stage, faults>>
  BY <1>1 DEF ActiveInv, Act
<1>2. ASSUME Fault PROVE faults = 0 /\ faults' >= 1
  BY <1>2, Bounds DEF Fault, RestType
<1>3. CASE UpdateLinks \/ UndoLinks \/ UndoPipe
  <2>1. PICK p, masks :
          /\ p \in Pipes
          /\ \/ Become(AfterEnable(AfterRemaps(Now, RemapsFor(p, masks), p), masks, p))
             \/ \E x \in FailedPipe(masks, p) : Become(x)
    BY <1>3 DEF UpdateLinks, UndoLinks, UndoPipe, UpdatePipe
  <2>2. sw'.on = sw.on /\ sw'.active = sw.active
    BY <2>1, PipeStepKeeps DEF TypeInv
  <2>3. call'.masks = call.masks
    BY <1>3 DEF UpdateLinks, UndoLinks, UndoPipe, UpdatePipe, CallType, Visit
  <2>4. \/ stage' = stage /\ (NoFault \/ Fault)
        \/ stage' = "undo" /\ Fault /\ stage \in {"links", "revLinks"}
    BY <1>3 DEF UpdateLinks, UndoLinks, UndoPipe, UpdatePipe, Goto, At
  <2>5. stage' = "undo" => stage = "links" \/ stage = "undo"
    BY <1>2, <2>4 DEF ActiveInv
  <2>6. faults' >= 1 \/ faults' = faults
    BY <1>2, <2>4 DEF NoFault
  <2>7. stage \in {"links", "revLinks", "undo"}
    BY <1>3 DEF UpdateLinks, UndoLinks, UndoPipe, At
  <2>8. CASE stage' = stage
    BY <2>2, <2>3, <2>6, <2>7, <2>8 DEF ActiveInv, Act
  <2>9. CASE stage' = "undo" /\ Fault
    BY <1>2, <2>2, <2>5, <2>9 DEF ActiveInv, Act
  <2> QED
    BY <2>4, <2>8, <2>9
<1>4. CASE StopOutput
  <2>1. UpdateActive(call.masks, FALSE, "links", "revSrc") /\ stage = "actOff"
    BY <1>4 DEF StopOutput, At
  <2>2. PICK e \in BOOLEAN : e = FALSE /\ UpdateActive(call.masks, e, "links", "revSrc")
    BY <2>1
  <2>4. /\ sw'.on = sw.on /\ call' = call
        /\ \/ /\ stage' = "links" /\ faults' = faults
              /\ (Act(call.masks) <=> FALSE) => (sw'.active <=> FALSE)
              /\ ~ (Act(call.masks) <=> FALSE) => (sw'.active <=> sw.active)
           \/ stage' = "revSrc" /\ sw' = sw /\ Fault
    BY <2>2, UpdateActiveEffect
  <2> HIDE DEF StreamsTypeInv
  <2> QED
    BY <1>2, <2>1, <2>4 DEF ActiveInv, Act
<1>5. CASE StartOutput
  <2>1. UpdateActive(call.masks, TRUE, "srcOn", "revTpg") /\ stage = "actOn"
    BY <1>5 DEF StartOutput, At
  <2>2. PICK e \in BOOLEAN : e = TRUE /\ UpdateActive(call.masks, e, "srcOn", "revTpg")
    BY <2>1
  <2>4. /\ sw'.on = sw.on /\ call' = call
        /\ \/ /\ stage' = "srcOn" /\ faults' = faults
              /\ (Act(call.masks) <=> TRUE) => (sw'.active <=> TRUE)
              /\ ~ (Act(call.masks) <=> TRUE) => (sw'.active <=> sw.active)
           \/ stage' = "revTpg" /\ sw' = sw /\ Fault
    BY <2>2, UpdateActiveEffect
  <2> HIDE DEF StreamsTypeInv
  <2> QED
    BY <1>2, <2>1, <2>4 DEF ActiveInv, Act
<1>6. CASE UndoActiveEnable
  <2>1. UpdateActive(sw.on, FALSE, "revTpg", "revTpg") /\ stage = "revActOff"
    BY <1>6 DEF UndoActiveEnable, At
  <2>2. PICK e \in BOOLEAN : e = FALSE /\ UpdateActive(sw.on, e, "revTpg", "revTpg")
    BY <2>1
  <2>3. faults >= 1
    BY <2>1 DEF ActiveInv
  <2>4. /\ sw'.on = sw.on /\ call' = call
        /\ \/ /\ stage' = "revTpg" /\ faults' = faults
              /\ (Act(sw.on) <=> FALSE) => (sw'.active <=> FALSE)
              /\ ~ (Act(sw.on) <=> FALSE) => (sw'.active <=> sw.active)
           \/ stage' = "revTpg" /\ sw' = sw /\ Fault
    BY <2>2, UpdateActiveEffect
  <2> HIDE DEF StreamsTypeInv
  <2> QED
    BY <1>2, <2>1, <2>3, <2>4 DEF ActiveInv, Act
<1>7. CASE UndoActiveDisable
  <2>1. UpdateActive(sw.on, TRUE, "revSrc", "revSrc") /\ stage = "revActOn"
    BY <1>7 DEF UndoActiveDisable, At
  <2>2. PICK e \in BOOLEAN : e = TRUE /\ UpdateActive(sw.on, e, "revSrc", "revSrc")
    BY <2>1
  <2>3. faults >= 1 /\ (sw.active => Act(sw.on))
    BY <2>1 DEF ActiveInv
  <2>4. /\ sw'.on = sw.on /\ call' = call
        /\ \/ /\ stage' = "revSrc" /\ faults' = faults
              /\ (Act(sw.on) <=> TRUE) => (sw'.active <=> TRUE)
              /\ ~ (Act(sw.on) <=> TRUE) => (sw'.active <=> sw.active)
           \/ stage' = "revSrc" /\ sw' = sw /\ Fault
    BY <2>2, UpdateActiveEffect
  <2> HIDE DEF StreamsTypeInv
  <2> QED
    BY <1>2, <2>1, <2>3, <2>4 DEF ActiveInv, Act
<1>8. CASE SetTpg \/ UndoTpg
  <2>1. sw'.on = sw.on /\ sw'.active = sw.active /\ call' = call
    <3>1. \E b : sw' = sw \/ sw' = [sw EXCEPT !.tpg = b]
      BY <1>8 DEF SetTpg, UndoTpg, UpdateTpg
    <3> QED
      BY <1>8, <3>1 DEF SwType, SetTpg, UndoTpg, UpdateTpg
  <2>2. \/ stage = "tpg" /\ stage' = "actOn" /\ faults' = faults
        \/ stage = "tpg" /\ stage' = "revLinks" /\ Fault
        \/ stage = "revTpg" /\ stage' = "revLinks" /\ (NoFault \/ Fault)
    BY <1>8 DEF SetTpg, UndoTpg, UpdateTpg, At, Goto, NoFault
  <2> QED
    BY <1>2, <2>1, <2>2 DEF ActiveInv, Act, NoFault
<1>9. CASE Commit
  <2>1. sw'.on = call.masks /\ sw'.active = sw.active /\ stage = "commit" /\ stage' = "off"
    BY <1>9 DEF Commit, SwType, At, Goto
  <2> QED
    BY <2>1 DEF ActiveInv, Act
<1>10. CASE GiveUp
  BY <1>10 DEF GiveUp, At, Goto, ActiveInv, Act
<1>11. CASE StartWrites
  BY <1>11 DEF StartWrites, Goto, ActiveInv, Act
<1>12. CASE SetPipePhy \/ SetPipeStreamId
  <2>1. sw'.on = sw.on /\ sw'.active = sw.active
    <3>1. \E f, g, h : \/ sw' = sw \/ sw' = [sw EXCEPT !.phy = f]
                       \/ sw' = [sw EXCEPT !.phy = f, !.prog = g]
                       \/ sw' = [sw EXCEPT !.id = h]
      BY <1>12 DEF SetPipePhy, SetPipeStreamId
    <3> QED
      BY <3>1 DEF SwType
  <2>2. stage \in {"phys", "ids"} /\ (stage' = stage \/ stage' = "free")
    BY <1>12 DEF SetPipePhy, SetPipeStreamId, At, Goto
  <2> QED
    BY <2>1, <2>2 DEF ActiveInv, Act
<1>13. CASE PhysDone \/ SetPipeTunnel \/ SetSerModes \/ SetModes \/ IdsDone \/ DisableSources
  <2>1. sw' = sw /\ stage' \in {"phys", "tunnel", "modes", "ids", "srcOff", "actOff", "free"}
        /\ stage \in {"phys", "tunnel", "modes", "ids", "srcOff"}
    BY <1>13 DEF PhysDone, SetPipeTunnel, SetSerModes, SetModes, IdsDone, DisableSources, At, Goto
  <2> QED
    BY <2>1 DEF ActiveInv, Act
<1>14. CASE LinksDone \/ UndoLinksDone \/ UndoDone
  <2>1. sw' = sw /\ faults' = faults /\ call'.masks = call.masks
    BY <1>14 DEF LinksDone, UndoLinksDone, UndoDone, NoFault, Rewind, CallType
  <2>2. \/ stage = "links" /\ stage' = "tpg"
        \/ stage \in {"undo", "revLinks"} /\ stage' = "revActOn"
    BY <1>14 DEF LinksDone, UndoLinksDone, UndoDone, At, Goto
  <2> QED
    BY <2>1, <2>2 DEF ActiveInv, Act
<1>15. CASE EnableSources
  <2>1. sw' = sw /\ call' = call /\ stage = "srcOn"
    BY <1>15 DEF EnableSources, At
  <2>2. stage' = "commit" \/ (stage' = "revActOff" /\ Fault)
    BY <1>15, Zenon DEF EnableSources, Goto
  <2> QED
    BY <1>2, <2>1, <2>2 DEF ActiveInv, Act
<1>16. CASE UndoSources
  <2>1. sw' = sw /\ stage = "revSrc" /\ stage' = "free"
    BY <1>16 DEF UndoSources, At, Goto
  <2> QED
    BY <2>1 DEF ActiveInv, Act
<1>17. CASE /\ ChangeRouting \/ RerouteSerializer \/ StartGetDesc \/ EndGetDesc \/ StartUpdate
                \/ PopulateStep \/ Reject
            /\ TRUE
  <2>1. sw' = sw /\ faults' = faults /\ stage' = stage /\ stage = "off"
    BY <1>17 DEF ChangeRouting, RerouteSerializer, StartGetDesc, EndGetDesc, StartUpdate,
                 PopulateStep, Reject, Idle, Populate, UseTpg, UseLink, UseNothing, FindModes,
                 MapVc, MapTooBig, ChooseMode, RestType
  <2> QED
    BY <2>1 DEF ActiveInv, Act
<1>18. CASE Suspend \/ Resume
  <2>1. sw'.on = sw.on /\ sw'.active = sw.active /\ stage' = stage /\ call' = call
    <3>1. \E g : sw' = sw \/ sw' = [sw EXCEPT !.prog = g, !.pending = TRUE]
      BY <1>18 DEF Suspend, Resume
    <3> QED
      BY <1>18, <3>1 DEF Suspend, Resume, SwType
  <2>2. faults' = faults \/ Fault
    BY <1>18 DEF Suspend, Resume, NoFault
  <2> QED
    BY <1>2, <2>1, <2>2 DEF ActiveInv, Act
<1> QED
  BY <1>1, <1>3, <1>4, <1>5, <1>6, <1>7, <1>8, <1>9, <1>10, <1>11, <1>12, <1>13, <1>14, <1>15,
     <1>16, <1>17, <1>18 DEF StreamsNext, HandlerStep, allVars, own

(* Between calls the outputs are on exactly when a stream is, on any chip  *)
(* and for any routing, as long as one call fails at most: the error path  *)
(* of max_des_update_streams() brings the outputs back when it can itself  *)
(* rely on its calls.                                                      *)
THEOREM OutputsFollowStreams ==
    ASSUME MaxFaults <= 1
    PROVE  StreamsSpec => []MasksActive
<1>1. StreamsTypeInv /\ ActiveInv /\ [StreamsNext]_allVars => ActiveInv'
  <2>1. StreamsTypeInv /\ Fault => faults = 0
    BY Bounds DEF Fault, StreamsTypeInv, RestType
  <2> QED
    BY <2>1, ActiveStep
<1>2. StreamsTypeInv /\ ActiveInv => MasksActive
  <2> SUFFICES ASSUME StreamsTypeInv, ActiveInv, Idle PROVE sw.active = (sw.on.src # {})
    BY DEF MasksActive
  <2>1. (sw.active <=> Act(sw.on)) /\ sw.active \in BOOLEAN
    BY DEF ActiveInv, Idle, StreamsTypeInv, SwType
  <2> DEFINE a == sw.on.src # {}
  <2>2. (sw.active <=> a) /\ sw.active \in BOOLEAN /\ a \in BOOLEAN
    BY <2>1 DEF Act
  <2>3. sw.active = a
    <3>1. \A x, y \in BOOLEAN : (x <=> y) => x = y
      OBVIOUS
    <3> HIDE DEF a
    <3> QED
      BY <2>2, <3>1, Zenon
  <2> QED
    BY <2>3
<1> QED
  BY <1>1, <1>2, ActiveInit, StreamsTypeCorrect, PTL DEF StreamsSpec

----------------------------------------------------------------------------
(* What arrives at the receiver, for a deserializer that works in pixel    *)
(* mode only (MAX9296A, MAX96712), as long as no call has failed           *)

\* What is proved above of the state.
Base == StreamsTypeInv /\ AssignInv /\ MappedInv /\ PixelInv /\ ChannelInv /\ PlanInv

\* A chip that tells the streams apart by their ids, or by link and id.
ChipSelects == UniqueIds \/ HasPipeLink

MidStages   == {"phys", "tunnel", "modes", "ids", "srcOff"}
LateStages  == {"actOff", "links", "tpg", "actOn", "srcOn", "commit"}
ErrorStages == {"undo", "revActOff", "revTpg", "revLinks", "revActOn", "revSrc"}

Key(r) == <<r.sink, r.stream>>

\* The pipe that carries a route whenever an update has assigned the pipes.
Carries(p, r) ==
    IF r.sink = Tpg THEN p = 0
    ELSE FinalPlan(routing)[1][p] = r.sink /\ FinalPlan(routing)[2][p] = r.stream

Entry(k) == [src |-> SrcVc(routing[k]), dst |-> Channel(routing, k), phy |-> routing[k].phy]

\* A pipe whose registers let the stream of a route through, and only that.
PipeFlow(p, k) ==
    /\ Carries(p, routing[k]) /\ HasChannels(routing)
    /\ hw.remap[p] = {Entry(k)}
    /\ ~ UniqueIds => hw.link[p] = FinalPlan(routing)[1][p]
    /\ ~ UniqueIds /\ routing[k].sink # Tpg => hw.id[p] = routing[k].stream

----------------------------------------------------------------------------
(* Which step changes what *)

Faultless == ~ Fault /\ stage \notin ErrorStages

\* Without a failing call the error path is never entered, and each field of
\* the state is written by few steps.
LEMMA SwFrames ==
    ASSUME Base, [StreamsNext]_allVars, Faultless
    PROVE  /\ ~ Commit => sw'.on = sw.on
           /\ ~ (Commit \/ Resume) => sw'.pending = sw.pending
           /\ ~ UpdateLinks => sw'.en = sw.en /\ sw'.remap = sw.remap /\ sw'.known = sw.known
           /\ ~ (UpdateLinks \/ SetPipeStreamId) => sw'.id = sw.id
           /\ ~ SetTpg => sw'.tpg = sw.tpg
           /\ ~ (StopOutput \/ StartOutput) => sw'.active = sw.active
<1> USE DEF Base, StreamsTypeInv
<1>1. CASE UpdateLinks
  <2>1. PICK p, masks :
          /\ p \in Pipes
          /\ Become(AfterEnable(AfterRemaps(Now, RemapsFor(p, masks), p), masks, p))
    BY <1>1 DEF UpdateLinks, UpdatePipe, Faultless
  <2>2. sw'.on = sw.on /\ sw'.active = sw.active /\ sw'.pending = sw.pending /\ sw'.tpg = sw.tpg
    BY <2>1, PipeStepKeeps DEF TypeInv
  <2> QED
    BY <1>1, <2>2
<1>2. CASE Commit
  <2>1. sw' = [sw EXCEPT !.on = call.masks, !.pending = FALSE]
    BY <1>2 DEF Commit
  <2> QED
    BY <1>2, <2>1 DEF SwType
<1>3. CASE Resume
  <2>1. sw' = sw \/ \E g : sw' = [sw EXCEPT !.prog = g, !.pending = TRUE]
    BY <1>3 DEF Resume
  <2> QED
    BY <1>3, <2>1 DEF SwType
<1>4. CASE SetPipePhy
  <2>1. \E f, g : sw' = sw \/ sw' = [sw EXCEPT !.phy = f] \/ sw' = [sw EXCEPT !.phy = f, !.prog = g]
    BY <1>4 DEF SetPipePhy
  <2> QED
    BY <2>1 DEF SwType
<1>5. CASE SetPipeStreamId
  <2>1. \E f : sw' = sw \/ sw' = [sw EXCEPT !.id = f]
    BY <1>5 DEF SetPipeStreamId
  <2> QED
    BY <1>5, <2>1 DEF SwType
<1>6. CASE SetTpg
  <2>1. \E b : sw' = sw \/ sw' = [sw EXCEPT !.tpg = b]
    BY <1>6 DEF SetTpg, UpdateTpg
  <2> QED
    BY <1>6, <2>1 DEF SwType
<1>7. CASE StopOutput \/ StartOutput
  <2>1. \E b : sw' = sw \/ sw' = [sw EXCEPT !.active = b]
    BY <1>7 DEF StopOutput, StartOutput, UpdateActive
  <2> QED
    BY <1>7, <2>1 DEF SwType
<1>8. CASE UndoActiveEnable \/ UndoTpg \/ UndoLinks \/ UndoPipe \/ UndoActiveDisable
  BY <1>8 DEF UndoActiveEnable, UndoTpg, UndoLinks, UndoPipe, UndoActiveDisable, At, Faultless,
     ErrorStages
<1>9. CASE UNCHANGED sw
  BY <1>9
<1> QED
  BY <1>1, <1>2, <1>3, <1>4, <1>5, <1>6, <1>7, <1>8, <1>9
     DEF StreamsNext, HandlerStep, ChangeRouting, RerouteSerializer, StartGetDesc, EndGetDesc,
         StartUpdate, PopulateStep, Reject, Suspend, StartWrites, PhysDone, SetPipeTunnel,
         SetSerModes, SetModes, IdsDone, DisableSources, LinksDone, EnableSources, UndoLinksDone,
         UndoDone, UndoSources, GiveUp, allVars, own

LEMMA HwFrames ==
    ASSUME Base, [StreamsNext]_allVars, Faultless
    PROVE  /\ ~ (UpdateLinks \/ Suspend \/ Resume) =>
                 hw'.en = hw.en /\ hw'.remap = hw.remap /\ hw'.link = hw.link
           /\ ~ (UpdateLinks \/ SetPipeStreamId \/ Suspend \/ Resume) => hw'.id = hw.id
           /\ ~ (SetTpg \/ Suspend \/ Resume) => hw'.tpg = hw.tpg
           /\ ~ (StopOutput \/ StartOutput \/ Suspend \/ Resume) => hw'.out = hw.out
           /\ ~ (SetPipeTunnel \/ Suspend \/ Resume) => hw'.tunnel = hw.tunnel
<1> USE DEF Base, StreamsTypeInv
<1>1. CASE UpdateLinks
  <2>1. PICK p, masks :
          /\ p \in Pipes
          /\ Become(AfterEnable(AfterRemaps(Now, RemapsFor(p, masks), p), masks, p))
    BY <1>1 DEF UpdateLinks, UpdatePipe, Faultless
  <2>2. hw'.out = hw.out /\ hw'.tunnel = hw.tunnel /\ hw'.tpg = hw.tpg
    BY <2>1, PipeStepKeeps DEF TypeInv
  <2> QED
    BY <1>1, <2>2
<1>2. CASE Suspend \/ Resume
  BY <1>2
<1>4. CASE SetPipePhy
  <2>1. \E f : hw' = hw \/ hw' = [hw EXCEPT !.ctrl = f] \/ hw' = [hw EXCEPT !.tun = f]
    BY <1>4 DEF SetPipePhy
  <2> QED
    BY <2>1 DEF HwType
<1>5. CASE SetPipeStreamId
  <2>1. \E f : hw' = hw \/ hw' = [hw EXCEPT !.id = f]
    BY <1>5 DEF SetPipeStreamId
  <2> QED
    BY <1>5, <2>1 DEF HwType
<1>6. CASE SetTpg
  <2>1. \E b : hw' = hw \/ hw' = [hw EXCEPT !.tpg = b]
    BY <1>6 DEF SetTpg, UpdateTpg
  <2> QED
    BY <1>6, <2>1 DEF HwType
<1>7. CASE StopOutput \/ StartOutput
  <2>1. \E b : hw' = hw \/ hw' = [hw EXCEPT !.out = b]
    BY <1>7 DEF StopOutput, StartOutput, UpdateActive
  <2> QED
    BY <1>7, <2>1 DEF HwType
<1>8. CASE UndoActiveEnable \/ UndoTpg \/ UndoLinks \/ UndoPipe \/ UndoActiveDisable
  BY <1>8 DEF UndoActiveEnable, UndoTpg, UndoLinks, UndoPipe, UndoActiveDisable, At, Faultless,
     ErrorStages
<1>9. CASE SetPipeTunnel
  <2>1. \E f : hw' = hw \/ hw' = [hw EXCEPT !.tunnel = f]
    BY <1>9 DEF SetPipeTunnel
  <2> QED
    BY <1>9, <2>1 DEF HwType
<1>10. CASE UNCHANGED hw
  BY <1>10
<1> QED
  BY <1>1, <1>2, <1>4, <1>5, <1>6, <1>7, <1>8, <1>9, <1>10
     DEF StreamsNext, HandlerStep, ChangeRouting, RerouteSerializer, StartGetDesc, EndGetDesc,
         StartUpdate, PopulateStep, Reject, StartWrites, PhysDone, Commit,
         SetSerModes, SetModes, IdsDone, DisableSources, LinksDone, EnableSources, UndoLinksDone,
         UndoDone, UndoSources, GiveUp, allVars, own

LEMMA SerFrames ==
    ASSUME Base, [StreamsNext]_allVars, Faultless
    PROVE  /\ ~ SetSerModes => ser'.mode = ser.mode
           /\ ~ (SetPipeStreamId \/ Suspend) => ser'.id = ser.id
           /\ ~ (DisableSources \/ EnableSources \/ Suspend) => ser'.on = ser.on
<1> USE DEF Base, StreamsTypeInv
<1>1. CASE SetSerModes
  <2>1. \E f : ser' = [ser EXCEPT !.mode = f]
    BY <1>1 DEF SetSerModes
  <2> QED
    BY <1>1, <2>1 DEF SerType
<1>2. CASE SetPipeStreamId
  <2>1. \E f : ser' = ser \/ ser' = [ser EXCEPT !.id = f]
    BY <1>2 DEF SetPipeStreamId
  <2> QED
    BY <1>2, <2>1 DEF SerType
<1>3. CASE DisableSources \/ EnableSources
  <2>1. \E f : ser' = ser \/ ser' = [ser EXCEPT !.on = f]
    BY <1>3 DEF DisableSources, EnableSources
  <2> QED
    BY <1>3, <2>1 DEF SerType
<1>4. CASE Suspend
  <2>1. ser' = [SerInit EXCEPT !.mode = ser.mode]
    BY <1>4 DEF Suspend
  <2>2. ser'.mode = ser.mode
    BY <2>1 DEF SerInit
  <2> QED
    BY <1>4, <2>2
<1>5. CASE UndoSources
  BY <1>5 DEF UndoSources, At, Faultless, ErrorStages
<1>6. CASE UNCHANGED ser
  BY <1>6
<1>7. CASE \/ UpdateLinks \/ StopOutput \/ StartOutput \/ SetTpg \/ UndoLinks \/ UndoPipe
           \/ UndoActiveEnable \/ UndoActiveDisable \/ UndoTpg
  <2>1. UNCHANGED ser
    BY <1>7 DEF UpdateLinks, StopOutput, StartOutput, SetTpg, UndoLinks, UndoPipe,
         UndoActiveEnable, UndoActiveDisable, UndoTpg, UpdatePipe, UpdateActive, UpdateTpg
  <2> QED
    BY <2>1
<1> QED
  BY <1>1, <1>2, <1>3, <1>4, <1>5, <1>6, <1>7
     DEF StreamsNext, HandlerStep, ChangeRouting, RerouteSerializer, StartGetDesc, EndGetDesc,
         StartUpdate, PopulateStep, Reject, StartWrites, PhysDone, Commit, SetPipePhy, Resume,
         SetPipeTunnel, SetModes, IdsDone, LinksDone, UndoLinksDone, UndoDone, GiveUp, allVars, own

\* The table and the cameras change between calls only.
LEMMA InputFrames ==
    ASSUME Base, [StreamsNext]_allVars
    PROVE  /\ ~ ChangeRouting => routing' = routing
           /\ ~ RerouteSerializer => fd' = fd
           /\ stage # "off" => UNCHANGED <<routing, fd, linkOf, strm>>
<1> USE DEF Base, StreamsTypeInv
<1>1. CASE HandlerStep
  <2>1. UNCHANGED vars \/ Return
    BY <1>1, HandlerAssigns
  <2> QED
    BY <2>1 DEF vars, input, assign, Return
<1>2. CASE ChangeRouting
  BY <1>2 DEF ChangeRouting, SetRouting, Idle
<1>3. CASE RerouteSerializer
  BY <1>3 DEF RerouteSerializer, ChangeFrameDesc, Idle
<1>4. CASE StartGetDesc \/ StartUpdate
  BY <1>4 DEF StartGetDesc, StartUpdate, Idle, Begin, BeginGetDesc, BeginUpdate, input
<1>5. CASE EndGetDesc \/ Reject
  BY <1>5 DEF EndGetDesc, Reject, Return, input, assign
<1>6. CASE PopulateStep
  <2>1. UNCHANGED <<routing, fd>> /\ pc \in {"usage", "map"}
    BY <1>6 DEF PopulateStep, Populate, UseTpg, UseLink, UseNothing, FindModes, MapVc, MapTooBig,
                ChooseMode, input
  <2> QED
    BY <2>1 DEF RestType
<1>7. CASE Suspend \/ Resume \/ UNCHANGED allVars
  BY <1>7 DEF Suspend, Resume, allVars, vars, input, assign
<1> QED
  BY <1>1, <1>2, <1>3, <1>4, <1>5, <1>6, <1>7 DEF StreamsNext

\* The order of the stages.
LEMMA StageFrames ==
    ASSUME Base, [StreamsNext]_allVars, Faultless
    PROVE  \/ stage' = stage
           \/ StartWrites /\ stage = "off" /\ stage' = "phys"
           \/ PhysDone /\ stage = "phys" /\ stage' = "tunnel"
           \/ SetSerModes /\ stage = "tunnel" /\ stage' = "modes"
           \/ SetModes /\ stage = "modes" /\ stage' = "ids"
           \/ SetPipeStreamId /\ stage = "ids" /\ stage' = "free"
           \/ IdsDone /\ stage = "ids" /\ stage' = IF call.enable THEN "actOff" ELSE "srcOff"
           \/ DisableSources /\ stage = "srcOff" /\ stage' = "actOff"
           \/ StopOutput /\ stage = "actOff" /\ stage' = "links"
           \/ LinksDone /\ stage = "links" /\ stage' = "tpg"
           \/ SetTpg /\ stage = "tpg" /\ stage' = "actOn"
           \/ StartOutput /\ stage = "actOn" /\ stage' = "srcOn"
           \/ EnableSources /\ stage = "srcOn" /\ stage' = "commit"
           \/ Commit /\ stage = "commit" /\ stage' = "off"
           \/ GiveUp /\ stage = "free" /\ stage' = "off"
<1>1. CASE ~ HandlerStep
  BY <1>1 DEF StreamsNext, ChangeRouting, RerouteSerializer, StartGetDesc, EndGetDesc, StartUpdate,
         PopulateStep, Reject, Suspend, Resume, allVars, own
<1>2. CASE StartWrites \/ PhysDone \/ LinksDone \/ Commit \/ GiveUp \/ IdsDone
  BY <1>2 DEF StartWrites, PhysDone, LinksDone, Commit, GiveUp, IdsDone, At, Goto
<1>3. CASE SetPipePhy \/ SetPipeTunnel \/ SetSerModes \/ SetModes \/ SetPipeStreamId
  BY <1>3 DEF SetPipePhy, SetPipeTunnel, SetSerModes, SetModes, SetPipeStreamId, At, Goto, Faultless
<1>4. CASE DisableSources \/ StopOutput \/ StartOutput \/ EnableSources \/ SetTpg \/ UpdateLinks
  BY <1>4 DEF DisableSources, StopOutput, StartOutput, EnableSources, SetTpg, UpdateLinks,
     UpdateActive, UpdateTpg, UpdatePipe, At, Goto, Faultless
<1>5. CASE UndoActiveEnable \/ UndoTpg \/ UndoLinks \/ UndoLinksDone \/ UndoPipe \/ UndoDone
           \/ UndoActiveDisable \/ UndoSources
  BY <1>5 DEF UndoActiveEnable, UndoTpg, UndoLinks, UndoLinksDone, UndoPipe, UndoDone,
     UndoActiveDisable, UndoSources, At, Faultless, ErrorStages
<1> QED
  BY <1>1, <1>2, <1>3, <1>4, <1>5 DEF HandlerStep

LEMMA NoErrorStep ==
    ASSUME Base, [StreamsNext]_allVars, Faultless
    PROVE  stage' \notin ErrorStages
<1>1. CASE HandlerStep
  BY <1>1 DEF HandlerStep, StartWrites, SetPipePhy, PhysDone, SetPipeTunnel, SetSerModes, SetModes,
       SetPipeStreamId, IdsDone, DisableSources, StopOutput, UpdateLinks, LinksDone, SetTpg,
       StartOutput, EnableSources, Commit, UndoActiveEnable, UndoTpg, UndoLinks, UndoLinksDone,
       UndoPipe, UndoDone, UndoActiveDisable, UndoSources, GiveUp, UpdateActive, UpdatePipe,
       UpdateTpg, Goto, At, Faultless, ErrorStages
<1>2. CASE ~ HandlerStep
  <2>1. stage' = stage
    BY <1>2 DEF StreamsNext, ChangeRouting, RerouteSerializer, StartGetDesc, EndGetDesc, StartUpdate,
         PopulateStep, Reject, Suspend, Resume, allVars, own
  <2> QED
    BY <2>1 DEF Faultless
<1> QED
  BY <1>1, <1>2

----------------------------------------------------------------------------
(* The masks of streams *)

\* The streams on at the source pads are routed ones, and those on at the
\* sink pads are the same, seen from the other side.
MasksOf(m) ==
    /\ m.src \subseteq {<<r.phy, r.source>> : r \in RouteSet}
    /\ m.sink = SinksOf({r \in RouteSet : <<r.phy, r.source>> \in m.src})

CallInv ==
    /\ pc # "idle" => ~ asleep
    /\ stage \in {"modes", "srcOff", "actOff"} => call.done = {}
    /\ stage = "srcOff" => ~ call.enable
    /\ MasksOf(sw.on)
    /\ stage # "off" => call.masks = NewMasks
    /\ fresh /\ pc # "idle" =>
          /\ call.streams # {}
          /\ \A s \in call.streams : \E r \in RouteSet : r.phy = call.phy /\ r.source = s
          /\ \A s \in call.streams : <<call.phy, s>> \in sw.on.src <=> ~ call.enable

LEMMA RoutesDiffer ==
    ASSUME TypeOK, NEW r \in RouteSet, NEW q \in RouteSet,
           Key(r) = Key(q) \/ <<r.phy, r.source>> = <<q.phy, q.source>>
    PROVE  r = q
<1>1. ValidRouting(routing)
  BY InputAssumption DEF TypeOK
<1>2. PICK m \in DOMAIN routing, n \in DOMAIN routing : r = routing[m] /\ q = routing[n]
  BY DEF RouteSet
<1> QED
  BY <1>1, <1>2 DEF ValidRouting, Key

\* A request keeps the two sides of the masks together.
LEMMA NewMasksOf ==
    ASSUME Base, CallInv, fresh, pc # "idle"
    PROVE  MasksOf(NewMasks)
<1> USE DEF Base, StreamsTypeInv, TypeInv
<1> DEFINE srcs == {<<call.phy, s>> : s \in call.streams}
           sinks == SinksOf(Requested)
<1>1. srcs \subseteq {<<r.phy, r.source>> : r \in RouteSet}
  BY DEF CallInv
<1>2. \A r \in RouteSet : <<r.phy, r.source>> \in srcs <=> r \in Requested
  BY DEF Requested
<1>3. \A r \in RouteSet : Key(r) \in sinks <=> r \in Requested
  BY RoutesDiffer DEF SinksOf, Key, Requested
<1>4. \A r \in RouteSet : Key(r) \in sw.on.sink <=> <<r.phy, r.source>> \in sw.on.src
  BY RoutesDiffer DEF SinksOf, Key, CallInv, MasksOf
<1>5. sinks \subseteq SinksOf(RouteSet) /\ sw.on.sink \subseteq SinksOf(RouteSet)
  BY DEF SinksOf, CallInv, MasksOf, Requested
<1>6. \A x \in SinksOf(RouteSet) : \E r \in RouteSet : x = Key(r)
  BY DEF SinksOf, Key
<1>7. CASE call.enable
  <2>1. NewMasks = [sink |-> sw.on.sink \cup sinks, src |-> sw.on.src \cup srcs]
    BY <1>7 DEF NewMasks
  <2> HIDE DEF srcs, sinks
  <2>2. NewMasks.sink = SinksOf({r \in RouteSet : <<r.phy, r.source>> \in NewMasks.src})
    <3>1. ASSUME NEW x \in NewMasks.sink
          PROVE  x \in SinksOf({r \in RouteSet : <<r.phy, r.source>> \in NewMasks.src})
      BY <3>1, <2>1, <1>2, <1>3, <1>4, <1>5, <1>6 DEF SinksOf, Key
    <3>2. ASSUME NEW x \in SinksOf({r \in RouteSet : <<r.phy, r.source>> \in NewMasks.src})
          PROVE  x \in NewMasks.sink
      BY <3>2, <2>1, <1>2, <1>3, <1>4 DEF SinksOf, Key
    <3> QED
      BY <3>1, <3>2
  <2> QED
    BY <1>1, <2>1, <2>2 DEF MasksOf, CallInv
<1>8. CASE ~ call.enable
  <2>1. NewMasks = [sink |-> sw.on.sink \ sinks, src |-> sw.on.src \ srcs]
    BY <1>8 DEF NewMasks
  <2> HIDE DEF srcs, sinks
  <2>2. NewMasks.sink = SinksOf({r \in RouteSet : <<r.phy, r.source>> \in NewMasks.src})
    <3>1. ASSUME NEW x \in NewMasks.sink
          PROVE  x \in SinksOf({r \in RouteSet : <<r.phy, r.source>> \in NewMasks.src})
      BY <3>1, <2>1, <1>2, <1>3, <1>4, <1>5, <1>6 DEF SinksOf, Key
    <3>2. ASSUME NEW x \in SinksOf({r \in RouteSet : <<r.phy, r.source>> \in NewMasks.src})
          PROVE  x \in NewMasks.sink
      BY <3>2, <2>1, <1>2, <1>3, <1>4 DEF SinksOf, Key
    <3> QED
      BY <3>1, <3>2
  <2> QED
    BY <1>1, <2>1, <2>2 DEF MasksOf, CallInv
<1> QED
  BY <1>7, <1>8

\* The request does not change while it is served.
LEMMA CallFrames ==
    ASSUME Base, [StreamsNext]_allVars, Faultless, stage # "off", stage' # "off"
    PROVE  /\ call'.phy = call.phy /\ call'.streams = call.streams /\ call'.enable = call.enable
           /\ call'.masks = call.masks /\ sw'.on = sw.on /\ UNCHANGED <<pc, fresh>>
           /\ NewMasks' = NewMasks /\ RouteSet' = RouteSet /\ Requested' = Requested
<1> USE DEF Base, StreamsTypeInv
<1>1. UNCHANGED <<pc, fresh, call>> \/ HandlerStep
  BY DEF StreamsNext, ChangeRouting, RerouteSerializer, StartGetDesc, EndGetDesc, StartUpdate,
         PopulateStep, Populate, UseTpg, UseLink, UseNothing, FindModes, MapVc, MapTooBig, ChooseMode,
         Reject, Suspend, Resume, allVars, own, vars, Idle, RestType
<1>2. ~ Commit /\ ~ GiveUp /\ ~ StartWrites
  BY DEF Commit, GiveUp, StartWrites, Goto
<1>3. sw'.on = sw.on
  BY <1>2, SwFrames
<1>4. UNCHANGED <<pc, fresh>>
  BY <1>1, <1>2, CallGoesOn
<1>5. call' = call \/ \E d, n : call' = [call EXCEPT !.done = d] \/ call' = [call EXCEPT !.done = d, !.limit = n]
  BY <1>1, <1>2 DEF HandlerStep, SetPipePhy, PhysDone, SetPipeTunnel, SetSerModes, SetModes,
       SetPipeStreamId, IdsDone, DisableSources, StopOutput, UpdateLinks, LinksDone, SetTpg,
       StartOutput, EnableSources, UndoActiveEnable, UndoTpg, UndoLinks, UndoLinksDone,
       UndoPipe, UndoDone, UndoActiveDisable, UndoSources, UpdateActive, UpdatePipe,
       UpdateTpg, Visit, Rewind
<1>6. /\ call'.phy = call.phy /\ call'.streams = call.streams /\ call'.enable = call.enable
      /\ call'.masks = call.masks
  BY <1>5 DEF CallType
<1>7. routing' = routing
  BY InputFrames
<1>8. RouteSet' = RouteSet
  BY <1>7 DEF RouteSet
<1>9. Requested' = Requested
  BY <1>6, <1>8 DEF Requested
<1>10. NewMasks' = NewMasks
  BY <1>3, <1>6, <1>9 DEF NewMasks
<1> QED
  BY <1>3, <1>4, <1>6, <1>8, <1>9, <1>10

\* The loops over the pipes start from the first one.
LEMMA DoneFrames ==
    ASSUME Base, [StreamsNext]_allVars, Faultless,
           stage \in {"modes", "srcOff", "actOff"} => call.done = {},
           stage' \in {"modes", "ids", "srcOff", "actOff", "links"}, stage' # stage
    PROVE  call'.done = {} /\ (stage' = "srcOff" => ~ call.enable)
<1> USE DEF Base, StreamsTypeInv
<1>1. stage' # "off" /\ stage' \notin {"free", "phys", "tunnel", "tpg", "actOn", "srcOn", "commit"}
      /\ stage' \notin ErrorStages
  BY DEF ErrorStages
<1>2. stage # "off"
  BY <1>1 DEF StreamsNext, ChangeRouting, RerouteSerializer, StartGetDesc, EndGetDesc, StartUpdate,
         PopulateStep, Reject, Suspend, Resume, allVars, own, HandlerStep, StartWrites, SetPipePhy, PhysDone,
       SetPipeTunnel, SetSerModes, SetModes,
       SetPipeStreamId, IdsDone, DisableSources, StopOutput, UpdateLinks, LinksDone, SetTpg,
       StartOutput, EnableSources, Commit, UndoActiveEnable, UndoTpg, UndoLinks, UndoLinksDone,
       UndoPipe, UndoDone, UndoActiveDisable, UndoSources, GiveUp, At, Goto
<1>3. \/ SetSerModes \/ SetModes \/ IdsDone \/ DisableSources \/ StopOutput
  BY <1>1, <1>2 DEF StreamsNext, ChangeRouting, RerouteSerializer, StartGetDesc, EndGetDesc,
       StartUpdate, PopulateStep, Reject, Suspend, Resume, allVars, own, HandlerStep, StartWrites,
       SetPipePhy, PhysDone, SetPipeTunnel, SetPipeStreamId, UpdateLinks, LinksDone, SetTpg,
       StartOutput, EnableSources, Commit, UndoActiveEnable, UndoTpg, UndoLinks, UndoLinksDone,
       UndoPipe, UndoDone, UndoActiveDisable, UndoSources, GiveUp, UpdateActive, UpdatePipe,
       UpdateTpg, Goto, At, Faultless
<1>4. CASE SetSerModes \/ IdsDone
  BY <1>4, Zenon DEF SetSerModes, IdsDone, Rewind, CallType, Goto
<1>5. CASE SetModes \/ DisableSources \/ StopOutput
  BY <1>5 DEF SetModes, DisableSources, StopOutput, UpdateActive, At, Goto
<1> QED
  BY <1>3, <1>4, <1>5

LEMMA CallStep ==
    ASSUME Base, ActiveInv, CallInv, [StreamsNext]_allVars, Faultless
    PROVE  CallInv'
<1> USE DEF Base, StreamsTypeInv
<1>1. pc' # "idle" => ~ asleep'
  <2>1. CASE HandlerStep
    BY <2>1, CallGoesOn DEF CallInv, RestType, HandlerStep, StartWrites, SetPipePhy, PhysDone,
       SetPipeTunnel, SetSerModes, SetModes,
       SetPipeStreamId, IdsDone, DisableSources, StopOutput, UpdateLinks, LinksDone, SetTpg,
       StartOutput, EnableSources, Commit, UndoActiveEnable, UndoTpg, UndoLinks, UndoLinksDone,
       UndoPipe, UndoDone, UndoActiveDisable, UndoSources, GiveUp, UpdateActive, UpdatePipe,
       UpdateTpg, Quiet, Return
  <2>2. CASE PopulateStep
    BY <2>2 DEF PopulateStep, Populate, UseTpg, UseLink, UseNothing, FindModes, MapVc, MapTooBig,
       ChooseMode, CallInv
  <2>3. CASE Suspend \/ Resume
    BY <2>3, Zenon DEF Suspend, Resume, Idle, vars, CallInv
  <2> QED
    BY <2>1, <2>2, <2>3 DEF StreamsNext, ChangeRouting, SetRouting, RerouteSerializer,
       ChangeFrameDesc, StartGetDesc, EndGetDesc, StartUpdate, Reject, allVars, own, vars, Idle,
       Return, CallInv
<1>2. stage' \in {"modes", "srcOff", "actOff"} => call'.done = {}
  <2>1. ASSUME stage' = stage, stage \in {"modes", "srcOff", "actOff"} PROVE call' = call
    <3>1. CASE HandlerStep
      <4>1. SetModes \/ DisableSources \/ StopOutput
        BY <2>1, <3>1 DEF HandlerStep, StartWrites, SetPipePhy, PhysDone, SetPipeTunnel,
           SetSerModes, SetPipeStreamId, IdsDone, UpdateLinks, LinksDone, SetTpg, StartOutput,
           EnableSources, Commit, UndoActiveEnable, UndoTpg, UndoLinks, UndoLinksDone, UndoPipe,
           UndoDone, UndoActiveDisable, UndoSources, GiveUp, At
      <4> QED
        BY <4>1 DEF SetModes, DisableSources, StopOutput, UpdateActive
    <3>2. CASE ~ HandlerStep
      BY <2>1, <3>2 DEF StreamsNext, ChangeRouting, RerouteSerializer, StartGetDesc, EndGetDesc,
         StartUpdate, PopulateStep, Reject, Suspend, Resume, allVars, own, Idle, Populate,
         RestType, UseTpg, UseLink, UseNothing, FindModes, MapVc, MapTooBig, ChooseMode
    <3> QED
      BY <3>1, <3>2
  <2>2. CASE stage' # stage
    BY <2>2, DoneFrames DEF CallInv
  <2> QED
    BY <2>1, <2>2 DEF CallInv
<1>3. stage' = "srcOff" => ~ call'.enable
  <2> SUFFICES ASSUME stage' = "srcOff" PROVE ~ call'.enable
    OBVIOUS
  <2>1. stage # "off"
    BY DEF StreamsNext, ChangeRouting, RerouteSerializer, StartGetDesc, EndGetDesc, StartUpdate,
         PopulateStep, Reject, Suspend, Resume, allVars, own, HandlerStep, StartWrites, SetPipePhy, PhysDone,
       SetPipeTunnel, SetSerModes, SetModes,
       SetPipeStreamId, IdsDone, DisableSources, StopOutput, UpdateLinks, LinksDone, SetTpg,
       StartOutput, EnableSources, Commit, UndoActiveEnable, UndoTpg, UndoLinks, UndoLinksDone,
       UndoPipe, UndoDone, UndoActiveDisable, UndoSources, GiveUp, At, Goto
  <2>2. call'.enable = call.enable
    BY <2>1, CallFrames
  <2>3. stage = "srcOff" \/ ~ call.enable
    BY DoneFrames DEF CallInv
  <2> QED
    BY <2>2, <2>3 DEF CallInv
<1>4. MasksOf(sw.on)'
  <2>1. CASE ChangeRouting
    <3>1. sw.on.src = {}
      BY <2>1 DEF ChangeRouting, Idle, ActiveInv, Act
    <3>2. sw.on.sink = {} /\ sw' = sw
      BY <2>1, <3>1 DEF CallInv, MasksOf, SinksOf, ChangeRouting
    <3> QED
      BY <3>1, <3>2 DEF MasksOf, SinksOf
  <2>2. CASE Commit
    <3>1. stage = "commit" /\ fresh /\ pc # "idle"
      BY <2>2 DEF Commit, At, RestType
    <3>2. sw'.on = NewMasks
      BY <2>2, <3>1 DEF Commit, SwType, CallInv
    <3>3. MasksOf(NewMasks)
      BY <3>1, NewMasksOf
    <3>4. RouteSet' = RouteSet
      BY <3>1, InputFrames DEF RouteSet
    <3> QED
      BY <3>2, <3>3, <3>4 DEF MasksOf
  <2>3. CASE ~ ChangeRouting /\ ~ Commit
    <3>1. sw'.on = sw.on /\ RouteSet' = RouteSet
      BY <2>3, InputFrames, SwFrames DEF RouteSet
    <3> QED
      BY <3>1 DEF MasksOf, CallInv
  <2> QED
    BY <2>1, <2>2, <2>3
<1>5. stage' # "off" => call'.masks = NewMasks'
  <2> SUFFICES ASSUME stage' # "off" PROVE call'.masks = NewMasks'
    OBVIOUS
  <2>1. CASE stage # "off"
    BY <2>1, CallFrames DEF CallInv
  <2>2. CASE stage = "off"
    <3>1. StartWrites
      BY <2>2 DEF StreamsNext, ChangeRouting, RerouteSerializer, StartGetDesc, EndGetDesc, StartUpdate,
         PopulateStep, Reject, Suspend, Resume, allVars, own, HandlerStep, SetPipePhy, PhysDone,
       SetPipeTunnel, SetSerModes, SetModes,
       SetPipeStreamId, IdsDone, DisableSources, StopOutput, UpdateLinks, LinksDone, SetTpg,
       StartOutput, EnableSources, Commit, UndoActiveEnable, UndoTpg, UndoLinks, UndoLinksDone,
       UndoPipe, UndoDone, UndoActiveDisable, UndoSources, GiveUp, At, Goto
    <3>2. call' = [call EXCEPT !.masks = NewMasks] /\ routing' = routing /\ sw' = sw
      BY <3>1 DEF StartWrites, Quiet, vars, input
    <3>3. call'.masks = NewMasks /\ call'.phy = call.phy /\ call'.enable = call.enable
          /\ call'.streams = call.streams
      BY <3>2 DEF CallType
    <3> QED
      BY <3>2, <3>3 DEF NewMasks, Requested, RouteSet
  <2> QED
    BY <2>1, <2>2
<1>6. fresh' /\ pc' # "idle" =>
          /\ call'.streams # {}
          /\ \A s \in call'.streams : \E r \in RouteSet' : r.phy = call'.phy /\ r.source = s
          /\ \A s \in call'.streams : <<call'.phy, s>> \in sw'.on.src <=> ~ call'.enable
  <2> SUFFICES ASSUME fresh', pc' # "idle"
               PROVE  /\ call'.streams # {}
                      /\ \A s \in call'.streams : \E r \in RouteSet' : r.phy = call'.phy /\ r.source = s
                      /\ \A s \in call'.streams : <<call'.phy, s>> \in sw'.on.src <=> ~ call'.enable
    OBVIOUS
  <2>1. CASE StartUpdate
    <3>0. PICK h \in EnabledPhys :
            \E S \in SUBSET {r.source : r \in {x \in RouteSet : x.phy = h}}, e \in BOOLEAN :
              /\ S # {} /\ \A s \in S : (<<h, s>> \in sw.on.src) = ~ e
              /\ call' = [NoCall EXCEPT !.phy = h, !.streams = S, !.enable = e]
      BY <2>1 DEF StartUpdate
    <3>1. PICK S \in SUBSET {r.source : r \in {x \in RouteSet : x.phy = h}}, e \in BOOLEAN :
            /\ S # {} /\ \A s \in S : (<<h, s>> \in sw.on.src) = ~ e
            /\ call' = [NoCall EXCEPT !.phy = h, !.streams = S, !.enable = e]
      BY <3>0
    <3>2. call'.phy = h /\ call'.streams = S /\ call'.enable = e
      BY <3>1 DEF NoCall
    <3>3. routing' = routing /\ sw' = sw
      BY <2>1 DEF StartUpdate, BeginUpdate, Begin, input
    <3>4. \A s \in S : <<h, s>> \in sw.on.src <=> ~ e
      BY <3>1
    <3> QED
      BY <3>1, <3>2, <3>3, <3>4 DEF RouteSet
  <2>2. CASE StartWrites
    <3>1. call' = [call EXCEPT !.masks = NewMasks] /\ routing' = routing /\ sw' = sw
          /\ UNCHANGED <<pc, fresh>>
      BY <2>2 DEF StartWrites, Quiet, vars, input
    <3>2. call'.phy = call.phy /\ call'.enable = call.enable /\ call'.streams = call.streams
      BY <3>1 DEF CallType
    <3> QED
      BY <3>1, <3>2 DEF CallInv, RouteSet
  <2>3. CASE HandlerStep /\ ~ StartWrites
    <3>1. stage # "off"
      BY <2>3 DEF HandlerStep, SetPipePhy, PhysDone, SetPipeTunnel, SetSerModes, SetModes,
       SetPipeStreamId, IdsDone, DisableSources, StopOutput, UpdateLinks, LinksDone, SetTpg,
       StartOutput, EnableSources, Commit, UndoActiveEnable, UndoTpg, UndoLinks, UndoLinksDone,
       UndoPipe, UndoDone, UndoActiveDisable, UndoSources, GiveUp, At
    <3>2. stage' # "off"
      BY <2>3 DEF HandlerStep, SetPipePhy, PhysDone, SetPipeTunnel, SetSerModes, SetModes,
       SetPipeStreamId, IdsDone, DisableSources, StopOutput, UpdateLinks, LinksDone, SetTpg,
       StartOutput, EnableSources, Commit, UndoActiveEnable, UndoTpg, UndoLinks, UndoLinksDone,
       UndoPipe, UndoDone, UndoActiveDisable, UndoSources, GiveUp, At, Goto, Return,
       UpdateActive, UpdatePipe, UpdateTpg
    <3> QED
      BY <3>1, <3>2, CallFrames DEF CallInv
  <2>4. CASE PopulateStep \/ Suspend \/ Resume \/ UNCHANGED allVars
    <3>1. pc # "idle" /\ fresh /\ call' = call /\ routing' = routing
      BY <2>4 DEF PopulateStep, Populate, UseTpg, UseLink, UseNothing, FindModes, MapVc, MapTooBig,
         ChooseMode, Suspend, Resume, Idle, CallInv, allVars, own, vars, input
    <3>2. sw'.on = sw.on
      BY <2>4, SwFrames DEF PopulateStep, Commit, Suspend, Resume, allVars, own
    <3> QED
      BY <3>1, <3>2 DEF CallInv, RouteSet
  <2>5. ~ (StartGetDesc \/ EndGetDesc \/ Reject \/ ChangeRouting \/ RerouteSerializer)
    BY DEF StartGetDesc, BeginGetDesc, EndGetDesc, Reject, Return, ChangeRouting, SetRouting,
       RerouteSerializer, ChangeFrameDesc
  <2> QED
    BY <2>1, <2>2, <2>3, <2>4, <2>5 DEF StreamsNext
<1> QED
  BY <1>1, <1>2, <1>3, <1>4, <1>5, <1>6 DEF CallInv, MasksOf

----------------------------------------------------------------------------
(* The pipe of a route *)

LEMMA Table ==
    ASSUME TypeOK
    PROVE  /\ routing \in Seq(Route) /\ ValidRouting(routing) /\ DOMAIN routing = 1 .. Len(routing)
           /\ \A k \in DOMAIN routing : routing[k] \in RouteSet
           /\ \A r \in RouteSet : \E k \in DOMAIN routing : r = routing[k]
           /\ \A j, k \in DOMAIN routing : Key(routing[j]) = Key(routing[k]) => j = k
<1>1. routing \in Seq(Route) /\ ValidRouting(routing)
  BY InputAssumption DEF TypeOK
<1> QED
  BY <1>1 DEF RouteSet, ValidRouting, Key

\* A pipe carries one route, even while the pipes are assigned otherwise.
LEMMA CarriesOnce ==
    ASSUME TypeOK, NEW p, NEW j \in DOMAIN routing, NEW k \in DOMAIN routing,
           Carries(p, routing[j]), Carries(p, routing[k])
    PROVE  j = k
<1>1. ValidRouting(routing) /\ DOMAIN routing = 1 .. Len(routing)
  BY Table
<1>2. CASE routing[j].sink = Tpg \/ routing[k].sink = Tpg
  BY <1>1, <1>2 DEF ValidRouting
<1>3. CASE routing[j].sink # Tpg /\ routing[k].sink # Tpg
  BY <1>3, Table DEF Carries, Key
<1> QED
  BY <1>2, <1>3

\* What the calls of the running update find is the pipe the table says.
LEMMA CarriesIs ==
    ASSUME Base, fresh, pc = "populated", NEW p \in Pipes, NEW k \in DOMAIN routing
    PROVE  Carries(p, routing[k]) <=> CarriedBy(routing[k], p)
<1> USE DEF Base, StreamsTypeInv
<1> DEFINE r == routing[k]
<1>1. <<linkOf, strm>> = FinalPlan(routing)
  BY PlanIsFinal DEF AssignmentFollowsTable
<1>2. r.stream \in Streams /\ r.sink \in Sinks /\ r.stream # Unassigned
  BY Table, RouteOf DEF TypeInv, Streams, Unassigned
<1>3. Pipes \subseteq Int
  BY DEF Pipes
<1>4. CASE r.sink = Tpg
  BY <1>4 DEF Carries, CarriedBy
<1>5. CASE r.sink # Tpg
  <2>1. Carries(p, r) <=> p \in Assigned(r.sink, r.stream)
    BY <1>1, <1>5 DEF Carries, Assigned, PipesOf
  <2>2. p \in Assigned(r.sink, r.stream) <=> IsLowest(p, Assigned(r.sink, r.stream))
    BY <1>2, <1>3 DEF IsLowest, Assigned, PipesOf, AssignInv, PipeNotShared
  <2> QED
    BY <1>5, <2>1, <2>2 DEF CarriedBy
<1> QED
  BY <1>4, <1>5

LEMMA CarrierOnce ==
    ASSUME Base, fresh, pc = "populated", NEW p \in Pipes, NEW q \in Pipes,
           NEW k \in DOMAIN routing, Carries(p, routing[k]), Carries(q, routing[k])
    PROVE  p = q
<1>1. CarriedBy(routing[k], p) /\ CarriedBy(routing[k], q)
  BY CarriesIs
<1>2. Assigned(routing[k].sink, routing[k].stream) \in SUBSET Nat
  BY DEF Assigned, PipesOf, Pipes
<1> QED
  BY <1>1, <1>2, LowestOnce DEF CarriedBy

LEMMA CarrierExists ==
    ASSUME Base, fresh, pc = "populated", NEW k \in DOMAIN routing
    PROVE  \E p \in Pipes : Carries(p, routing[k])
<1>1. \E p \in Pipes : CarriedBy(routing[k], p)
  BY DstVcIs DEF Base, StreamsTypeInv
<1> QED
  BY <1>1, CarriesIs

\* The streams of a pipe that are on: one at most.
LEMMA LiveOnIs ==
    ASSUME Base, fresh, pc = "populated", NEW p \in Pipes, NEW masks
    PROVE  /\ \A k \in DOMAIN routing :
                 Key(routing[k]) \in masks.sink /\ Carries(p, routing[k])
                   => LiveOn(p, masks) = {routing[k]}
           /\ LiveOn(p, masks) # {} =>
                 \E k \in DOMAIN routing : Key(routing[k]) \in masks.sink /\ Carries(p, routing[k])
<1> USE DEF Base, StreamsTypeInv, TypeInv
<1>1. ASSUME NEW r \in LiveOn(p, masks)
      PROVE  \E k \in DOMAIN routing :
                r = routing[k] /\ Key(routing[k]) \in masks.sink /\ Carries(p, routing[k])
  <2>1. r \in RouteSet /\ <<r.sink, r.stream>> \in masks.sink /\ CarriedBy(r, p)
    BY DEF LiveOn, Live
  <2>2. PICK k \in DOMAIN routing : r = routing[k]
    BY <2>1, Table
  <2> QED
    BY <2>1, <2>2, CarriesIs DEF Key
<1>2. ASSUME NEW k \in DOMAIN routing, Key(routing[k]) \in masks.sink, Carries(p, routing[k])
      PROVE  LiveOn(p, masks) = {routing[k]}
  <2>1. routing[k] \in LiveOn(p, masks)
    BY <1>2, CarriesIs, Table DEF LiveOn, Live, Key
  <2>2. \A r \in LiveOn(p, masks) : r = routing[k]
    BY <1>1, <1>2, CarriesOnce
  <2> QED
    BY <2>1, <2>2
<1> QED
  BY <1>1, <1>2

\* What is written for the stream of a pipe that is on.
LEMMA RemapsIs ==
    ASSUME Base, fresh, pc = "populated", NEW p \in Pipes, NEW masks,
           NEW k \in DOMAIN routing, Key(routing[k]) \in masks.sink, Carries(p, routing[k])
    PROVE  /\ RemapsFor(p, masks) = {Entry(k)}
           /\ \A x : ~ UniqueIds => IdFor(x, masks, p) = routing[k].stream
           /\ HasChannels(routing)
<1> USE DEF Base, StreamsTypeInv, TypeInv
<1> DEFINE r == routing[k]
<1>1. LiveOn(p, masks) = {r}
  BY LiveOnIs
<1>2. r \in Route /\ r.stream \in Streams
  BY Table, RouteOf
<1>3. CarriedBy(r, p)
  BY CarriesIs
<1>4. /\ Channel(routing, k) \in Vcs /\ HasChannels(routing)
      /\ \A v \in Vcs : [pipe |-> p, phy |-> r.phy, src |-> SrcVc(r), dst |-> v] \in vcMap
                          <=> v = Channel(routing, k)
  BY <1>3, DstVcIs
<1>5. DstVc(p, r) = Channel(routing, k)
  BY <1>4 DEF DstVc
<1>6. {x \in Live(masks) : x.sink = Tpg /\ p # 0 /\ ~HasPipePhy /\ UnusedPhy # NoPhy} = {}
  <2> SUFFICES ASSUME NEW x \in RouteSet, x.sink = Tpg, p # 0 PROVE FALSE
    BY DEF Live
  <2>1. PICK j \in DOMAIN routing : x = routing[j]
    BY Table
  <2>2. Len(routing) = 1 /\ DOMAIN routing = 1 .. Len(routing)
    BY <2>1, Table DEF ValidRouting
  <2>3. j = k
    BY <2>2
  <2> QED
    BY <2>1, <2>3 DEF Carries
<1>7. RemapsFor(p, masks) = {Entry(k)}
  <2>1. mode = "pixel"
    BY DEF PixelInv
  <2>2. RemapsFor(p, masks) =
           {[src |-> SrcVc(q), dst |-> DstVc(p, q), phy |-> q.phy] : q \in {r}}
             \cup {[src |-> 0, dst |-> 0, phy |-> UnusedPhy] : q \in {}}
    BY <1>1, <1>6, <2>1 DEF RemapsFor
  <2> QED
    BY <2>2, <1>5 DEF Entry
<1>8. \A x : ~ UniqueIds => IdFor(x, masks, p) = r.stream
  BY <1>1, <1>2 DEF IdFor
<1> QED
  BY <1>4, <1>7, <1>8

----------------------------------------------------------------------------
(* What the update of a pipe writes *)

LEMMA RemapsEffect ==
    ASSUME NEW x, StateType(x), NEW p \in Pipes, NEW m, NEW y, y = AfterRemaps(x, m, p)
    PROVE  /\ y.sw.en = x.sw.en /\ y.hw.en = x.hw.en /\ y.sw.id = x.sw.id
           /\ y.hw.link = x.hw.link /\ y.hw.id = x.hw.id
           /\ \A q \in Pipes : q # p =>
                 /\ y.sw.remap[q] = x.sw.remap[q] /\ y.sw.known[q] = x.sw.known[q]
                 /\ y.hw.remap[q] = x.hw.remap[q]
           /\ y.sw.known[p] /\ y.sw.remap[p] = m
           /\ x.sw.pending \/ (x.sw.known[p] => x.hw.remap[p] = x.sw.remap[p]) => y.hw.remap[p] = m
<1>1. CASE RemapsSkip(x, m, p)
  BY <1>1 DEF AfterRemaps, RemapsSkip
<1>2. CASE ~ RemapsSkip(x, m, p)
  <2>1. y = [sw |-> [x.sw EXCEPT !.remap[p] = m, !.known[p] = TRUE],
             hw |-> [x.hw EXCEPT !.remap[p] = m]]
    BY <1>2 DEF AfterRemaps
  <2>2. y.sw = [x.sw EXCEPT !.remap[p] = m, !.known[p] = TRUE]
        /\ y.hw = [x.hw EXCEPT !.remap[p] = m]
    BY <2>1
  <2> QED
    BY <2>2 DEF StateType
<1> QED
  BY <1>1, <1>2

LEMMA LinkIdEffect ==
    ASSUME NEW x, StateType(x), NEW p \in Pipes, NEW masks, NEW y, y = AfterLinkId(x, masks, p)
    PROVE  /\ y.sw.en = x.sw.en /\ y.hw.en = x.hw.en
           /\ y.sw.remap = x.sw.remap /\ y.sw.known = x.sw.known /\ y.hw.remap = x.hw.remap
           /\ \A q \in Pipes : q # p =>
                 /\ y.sw.id[q] = x.sw.id[q] /\ y.hw.id[q] = x.hw.id[q]
                 /\ y.hw.link[q] = x.hw.link[q]
           /\ y.sw.id[p] = IdFor(x, masks, p) /\ y.hw.id[p] = IdFor(x, masks, p)
           /\ HasPipeLink => y.hw.link[p] = linkOf[p]
<1> DEFINE h == Linked(x, p)
<1>1. /\ h = [out |-> x.hw.out, en |-> x.hw.en, link |-> h.link, id |-> x.hw.id,
              remap |-> x.hw.remap, ctrl |-> x.hw.ctrl, tun |-> x.hw.tun,
              tunnel |-> x.hw.tunnel, tpg |-> x.hw.tpg]
      /\ \A q \in Pipes : q # p => h.link[q] = x.hw.link[q]
      /\ HasPipeLink => h.link[p] = linkOf[p]
  BY DEF StateType, Linked
<1> DEFINE n == IdFor(x, masks, p)
<1>2. y.sw = [x.sw EXCEPT !.id[p] = n] /\ y.hw = [h EXCEPT !.id[p] = n]
  BY DEF AfterLinkId
<1> HIDE DEF h, n
<1>3. /\ y.sw.en = x.sw.en /\ y.sw.remap = x.sw.remap /\ y.sw.known = x.sw.known
      /\ \A q \in Pipes : q # p => y.sw.id[q] = x.sw.id[q]
      /\ y.sw.id[p] = n
  BY <1>2 DEF StateType
<1>4. /\ y.hw.en = x.hw.en /\ y.hw.remap = x.hw.remap /\ y.hw.link = h.link
      /\ \A q \in Pipes : q # p => y.hw.id[q] = x.hw.id[q]
      /\ y.hw.id[p] = n
  BY <1>1, <1>2 DEF StateType
<1> QED
  BY <1>1, <1>3, <1>4 DEF n

LEMMA EnableEffect ==
    ASSUME NEW x, StateType(x), NEW p \in Pipes, TypeOK, NEW masks, NEW z,
           z = AfterEnable(x, masks, p)
    PROVE  /\ z.sw.remap = x.sw.remap /\ z.sw.known = x.sw.known /\ z.hw.remap = x.hw.remap
           /\ \A q \in Pipes : q # p =>
                 /\ z.sw.en[q] = x.sw.en[q] /\ z.hw.en[q] = x.hw.en[q]
                 /\ z.sw.id[q] = x.sw.id[q] /\ z.hw.id[q] = x.hw.id[q]
                 /\ z.hw.link[q] = x.hw.link[q]
           /\ z.sw.en[p] <=> LiveOn(p, masks) # {}
           /\ x.sw.pending \/ x.hw.en[p] = x.sw.en[p] => (z.hw.en[p] <=> LiveOn(p, masks) # {})
           /\ \/ /\ z.sw.id[p] = x.sw.id[p] /\ z.hw.id[p] = x.hw.id[p]
                 /\ z.hw.link[p] = x.hw.link[p]
                 /\ LiveOn(p, masks) # {} => ~ x.sw.pending /\ x.sw.en[p]
              \/ /\ z.sw.id[p] = IdFor(x, masks, p) /\ z.hw.id[p] = IdFor(x, masks, p)
                 /\ HasPipeLink => z.hw.link[p] = linkOf[p]
<1> DEFINE e == LiveOn(p, masks) # {}
           y == IF e THEN AfterLinkId(x, masks, p) ELSE x
           F(w) == /\ w.sw.en = x.sw.en /\ w.hw.en = x.hw.en
                   /\ w.sw.remap = x.sw.remap /\ w.sw.known = x.sw.known
                   /\ w.hw.remap = x.hw.remap
                   /\ \A q \in Pipes : q # p =>
                         /\ w.sw.id[q] = x.sw.id[q] /\ w.hw.id[q] = x.hw.id[q]
                         /\ w.hw.link[q] = x.hw.link[q]
           N(w) == /\ w.sw.id[p] = IdFor(x, masks, p) /\ w.hw.id[p] = IdFor(x, masks, p)
                   /\ HasPipeLink => w.hw.link[p] = linkOf[p]
<1>1. e \in BOOLEAN /\ (e <=> LiveOn(p, masks) # {})
  OBVIOUS
<1>2. StateType(y) /\ F(y) /\ (e => N(y)) /\ (~ e => y = x)
  <2>1. CASE e
    <3>1. PICK w : w = AfterLinkId(x, masks, p)
      OBVIOUS
    <3>2. y = w
      BY <2>1, <3>1, Zenon
    <3>3. StateType(w)
      BY <2>1, <3>1, LinkIdType
    <3>4. F(w) /\ N(w)
      <4> HIDE DEF y, e
      <4> QED
        BY <3>1, LinkIdEffect
    <3> HIDE DEF F, N, y
    <3> QED
      BY <2>1, <3>2, <3>3, <3>4
  <2>2. CASE ~ e
    <3>1. y = x
      BY <2>2, Zenon
    <3> HIDE DEF y
    <3> QED
      BY <2>2, <3>1
  <2> QED
    BY <2>1, <2>2
<1>3. z = IF EnableSkip(x, e, p) THEN x
          ELSE [sw |-> [y.sw EXCEPT !.en[p] = e], hw |-> [y.hw EXCEPT !.en[p] = e]]
  BY Zenon DEF AfterEnable
<1>4. EnableSkip(x, e, p) <=> ~ x.sw.pending /\ x.sw.en[p] = e
  BY DEF EnableSkip
<1> HIDE DEF y, e
<1>5. CASE EnableSkip(x, e, p)
  <2>1. z = x /\ ~ x.sw.pending /\ x.sw.en[p] = e
    BY <1>3, <1>4, <1>5
  <2> QED
    BY <1>1, <2>1 DEF e, StateType
<1>6. CASE ~ EnableSkip(x, e, p)
  <2>1. z.sw = [y.sw EXCEPT !.en[p] = e] /\ z.hw = [y.hw EXCEPT !.en[p] = e]
    BY <1>3, <1>6
  <2>2. /\ z.sw.remap = y.sw.remap /\ z.sw.known = y.sw.known /\ z.sw.id = y.sw.id
        /\ z.sw.en[p] = e /\ \A q \in Pipes : q # p => z.sw.en[q] = y.sw.en[q]
    BY <1>1, <1>2, <2>1 DEF StateType
  <2>3. /\ z.hw.remap = y.hw.remap /\ z.hw.link = y.hw.link /\ z.hw.id = y.hw.id
        /\ z.hw.en[p] = e /\ \A q \in Pipes : q # p => z.hw.en[q] = y.hw.en[q]
    BY <1>1, <1>2, <2>1 DEF StateType
  <2>4. CASE e
    BY <1>1, <1>2, <2>2, <2>3, <2>4
  <2>5. CASE ~ e
    BY <1>1, <1>2, <2>2, <2>3, <2>5
  <2> QED
    BY <2>4, <2>5
<1> QED
  BY <1>5, <1>6

----------------------------------------------------------------------------
(* The caches *)

\* The pipes that the running update has brought to the masks of the call.
Updated(p) ==
    stage \in {"tpg", "actOn", "srcOn", "commit"} \/ (stage = "links" /\ p \in call.done)

CacheAt(p) == hw.en[p] = sw.en[p] /\ (sw.known[p] => hw.remap[p] = sw.remap[p])

\* Unless a reprogramming is due, the caches tell the truth; when one is due
\* they do again for the pipes it has reached.
CacheInv == \A p \in Pipes : (~ sw.pending /\ ~ asleep) \/ Updated(p) => CacheAt(p)

SamePipe(q) ==
    /\ sw'.en[q] = sw.en[q] /\ sw'.remap[q] = sw.remap[q] /\ sw'.known[q] = sw.known[q]
    /\ sw'.id[q] = sw.id[q] /\ hw'.en[q] = hw.en[q] /\ hw'.remap[q] = hw.remap[q]
    /\ hw'.link[q] = hw.link[q] /\ hw'.id[q] = hw.id[q]

LEMMA PipeUpdated ==
    ASSUME Base, UpdateLinks, Faultless
    PROVE  \E p \in Pipes :
             /\ p \notin call.done /\ stage = "links" /\ stage' = stage
             /\ call'.done = call.done \cup {p}
             /\ \A q \in Pipes : q # p => SamePipe(q)
             /\ sw'.known[p] /\ sw'.remap[p] = RemapsFor(p, call.masks)
             /\ sw'.en[p] <=> LiveOn(p, call.masks) # {}
             /\ sw.pending \/ CacheAt(p) =>
                   /\ hw'.remap[p] = RemapsFor(p, call.masks)
                   /\ hw'.en[p] <=> LiveOn(p, call.masks) # {}
             /\ \/ /\ sw'.id[p] = sw.id[p] /\ hw'.id[p] = hw.id[p] /\ hw'.link[p] = hw.link[p]
                   /\ LiveOn(p, call.masks) # {} => ~ sw.pending /\ sw.en[p]
                \/ \E n :
                      /\ sw'.id[p] = n /\ hw'.id[p] = n
                      /\ HasPipeLink => hw'.link[p] = linkOf[p]
                      /\ UniqueIds => n = sw.id[p]
                      /\ \A k \in DOMAIN routing :
                            Key(routing[k]) \in call.masks.sink /\ Carries(p, routing[k])
                               /\ ~ UniqueIds => n = routing[k].stream
<1> USE DEF Base, StreamsTypeInv, TypeInv
<1>1. PICK p \in Pipes :
        /\ LinkOrder(p, Pipes \ call.done)
        /\ Become(AfterEnable(AfterRemaps(Now, RemapsFor(p, call.masks), p), call.masks, p))
        /\ Visit(p) /\ UNCHANGED stage
  BY DEF UpdateLinks, UpdatePipe, Faultless
<1>2. stage = "links" /\ fresh /\ pc = "populated"
  BY DEF UpdateLinks, At, RestType
<1>3. call'.done = call.done \cup {p} /\ p \notin call.done
  BY <1>1 DEF Visit, CallType, LinkOrder
<1>4. PICK x : x = AfterRemaps(Now, RemapsFor(p, call.masks), p)
  OBVIOUS
<1>5. PICK z : z = AfterEnable(x, call.masks, p)
  OBVIOUS
<1>6. sw' = z.sw /\ hw' = z.hw
  BY <1>1, <1>4, <1>5 DEF Become
<1>7. StateType(Now) /\ StateType(x) /\ SameRest(x, Now)
  BY <1>4, NowType, RemapsType
<1>8. Now.sw = sw /\ Now.hw = hw /\ x.sw.pending = sw.pending
  BY <1>7 DEF Now, SameRest
<1>9. PICK m : m = RemapsFor(p, call.masks)
  OBVIOUS
<1>10. /\ x.sw.en = sw.en /\ x.hw.en = hw.en /\ x.sw.id = sw.id
       /\ x.hw.link = hw.link /\ x.hw.id = hw.id
       /\ \A q \in Pipes : q # p =>
             /\ x.sw.remap[q] = sw.remap[q] /\ x.sw.known[q] = sw.known[q]
             /\ x.hw.remap[q] = hw.remap[q]
       /\ x.sw.known[p] /\ x.sw.remap[p] = m
       /\ sw.pending \/ (sw.known[p] => hw.remap[p] = sw.remap[p]) => x.hw.remap[p] = m
  <2>1. x = AfterRemaps(Now, m, p)
    BY <1>4, <1>9
  <2>2. PICK w : w = Now
    OBVIOUS
  <2>3. /\ x.sw.en = w.sw.en /\ x.hw.en = w.hw.en /\ x.sw.id = w.sw.id
        /\ x.hw.link = w.hw.link /\ x.hw.id = w.hw.id
        /\ \A q \in Pipes : q # p =>
              /\ x.sw.remap[q] = w.sw.remap[q] /\ x.sw.known[q] = w.sw.known[q]
              /\ x.hw.remap[q] = w.hw.remap[q]
        /\ x.sw.known[p] /\ x.sw.remap[p] = m
        /\ w.sw.pending \/ (w.sw.known[p] => w.hw.remap[p] = w.sw.remap[p]) => x.hw.remap[p] = m
    BY <1>7, <2>1, <2>2, RemapsEffect
  <2> QED
    BY <1>8, <2>2, <2>3
<1>11. /\ z.sw.remap = x.sw.remap /\ z.sw.known = x.sw.known /\ z.hw.remap = x.hw.remap
       /\ \A q \in Pipes : q # p =>
             /\ z.sw.en[q] = x.sw.en[q] /\ z.hw.en[q] = x.hw.en[q]
             /\ z.sw.id[q] = x.sw.id[q] /\ z.hw.id[q] = x.hw.id[q]
             /\ z.hw.link[q] = x.hw.link[q]
       /\ z.sw.en[p] <=> LiveOn(p, call.masks) # {}
       /\ x.sw.pending \/ x.hw.en[p] = x.sw.en[p] => (z.hw.en[p] <=> LiveOn(p, call.masks) # {})
       /\ \/ /\ z.sw.id[p] = x.sw.id[p] /\ z.hw.id[p] = x.hw.id[p]
             /\ z.hw.link[p] = x.hw.link[p]
             /\ LiveOn(p, call.masks) # {} => ~ x.sw.pending /\ x.sw.en[p]
          \/ /\ z.sw.id[p] = IdFor(x, call.masks, p) /\ z.hw.id[p] = IdFor(x, call.masks, p)
             /\ HasPipeLink => z.hw.link[p] = linkOf[p]
  BY <1>5, <1>7, EnableEffect
<1>12. UniqueIds => IdFor(x, call.masks, p) = sw.id[p]
  BY <1>10 DEF IdFor
<1>13. ASSUME NEW k \in DOMAIN routing, Key(routing[k]) \in call.masks.sink,
              Carries(p, routing[k]), ~ UniqueIds
       PROVE  IdFor(x, call.masks, p) = routing[k].stream
  <2>1. \A y : ~ UniqueIds => IdFor(y, call.masks, p) = routing[k].stream
    BY <1>2, <1>13, RemapsIs
  <2> QED
    BY <1>13, <2>1
<1>14. PICK n : n = IdFor(x, call.masks, p)
  OBVIOUS
<1>15. \A q \in Pipes : q # p => SamePipe(q)
  BY <1>6, <1>10, <1>11 DEF SamePipe
<1>16. sw.pending \/ CacheAt(p) =>
          hw'.remap[p] = m /\ (hw'.en[p] <=> LiveOn(p, call.masks) # {})
  <2>1. CacheAt(p) => x.hw.en[p] = x.sw.en[p] /\ (sw.known[p] => hw.remap[p] = sw.remap[p])
    BY <1>10 DEF CacheAt
  <2> HIDE DEF Base, StreamsTypeInv, TypeInv
  <2> QED
    BY <1>6, <1>8, <1>10, <1>11, <2>1
<1>17. \/ /\ sw'.id[p] = sw.id[p] /\ hw'.id[p] = hw.id[p] /\ hw'.link[p] = hw.link[p]
          /\ LiveOn(p, call.masks) # {} => ~ sw.pending /\ sw.en[p]
       \/ /\ sw'.id[p] = n /\ hw'.id[p] = n /\ (HasPipeLink => hw'.link[p] = linkOf[p])
  BY <1>6, <1>8, <1>10, <1>11, <1>14
<1>18. /\ UniqueIds => n = sw.id[p]
       /\ \A k \in DOMAIN routing :
             Key(routing[k]) \in call.masks.sink /\ Carries(p, routing[k])
                /\ ~ UniqueIds => n = routing[k].stream
  BY <1>12, <1>13, <1>14
<1>19. sw'.known[p] /\ sw'.remap[p] = m /\ (sw'.en[p] <=> LiveOn(p, call.masks) # {})
  BY <1>6, <1>10, <1>11
<1> HIDE DEF Base, StreamsTypeInv, TypeInv
<1> QED
  BY <1>1, <1>2, <1>3, <1>9, <1>15, <1>16, <1>17, <1>18, <1>19

\* Only the loop over the pipes changes which of them are updated.
LEMMA UpdatedFrames ==
    ASSUME Base, CallInv, [StreamsNext]_allVars, Faultless, ~ UpdateLinks, ~ Commit,
           NEW p \in Pipes
    PROVE  Updated(p)' <=> Updated(p)
<1> USE DEF Base, StreamsTypeInv
<1>1. CASE LinksDone
  BY <1>1 DEF LinksDone, LoopEnds, At, Goto, Updated
<1>2. CASE StopOutput
  BY <1>2 DEF StopOutput, UpdateActive, At, Goto, Updated, CallInv, Faultless
<1>3. CASE StartOutput \/ EnableSources \/ SetTpg
  BY <1>3 DEF StartOutput, UpdateActive, EnableSources, SetTpg, UpdateTpg, At, Goto, Updated, Faultless
<1>4. CASE \/ StartWrites \/ SetPipePhy \/ PhysDone \/ SetPipeTunnel \/ SetSerModes \/ SetModes
           \/ SetPipeStreamId \/ IdsDone \/ DisableSources \/ GiveUp
  BY <1>4 DEF StartWrites, SetPipePhy, PhysDone, SetPipeTunnel, SetSerModes, SetModes,
     SetPipeStreamId, IdsDone, DisableSources, GiveUp, At, Goto, Updated
<1>5. CASE UndoActiveEnable \/ UndoTpg \/ UndoLinks \/ UndoLinksDone \/ UndoPipe \/ UndoDone
           \/ UndoActiveDisable \/ UndoSources
  BY <1>5 DEF UndoActiveEnable, UndoTpg, UndoLinks, UndoLinksDone, UndoPipe, UndoDone,
     UndoActiveDisable, UndoSources, At, Faultless, ErrorStages
<1>6. CASE ~ HandlerStep
  <2>1. stage' = stage /\ (call' = call \/ stage = "off")
    BY <1>6 DEF StreamsNext, ChangeRouting, RerouteSerializer, StartGetDesc, EndGetDesc,
         StartUpdate, PopulateStep, Reject, Suspend, Resume, allVars, own, Idle, RestType
  <2> QED
    BY <2>1 DEF Updated
<1> QED
  BY <1>1, <1>2, <1>3, <1>4, <1>5, <1>6 DEF HandlerStep

LEMMA CacheStep ==
    ASSUME Base, CallInv, CacheInv, [StreamsNext]_allVars, Faultless
    PROVE  CacheInv'
<1> SUFFICES ASSUME NEW p \in Pipes, (~ sw'.pending /\ ~ asleep') \/ Updated(p)'
             PROVE  /\ hw'.en[p] = sw'.en[p]
                    /\ sw'.known[p] => hw'.remap[p] = sw'.remap[p]
  BY DEF CacheInv, CacheAt
<1>1. CASE UpdateLinks
  <2>1. sw.pending \/ CacheAt(p)
    BY <1>1 DEF UpdateLinks, At, CallInv, CacheInv
  <2>2. PICK q \in Pipes :
             /\ q \notin call.done /\ stage = "links" /\ stage' = stage
             /\ call'.done = call.done \cup {q}
             /\ \A o \in Pipes : o # q => SamePipe(o)
             /\ sw'.remap[q] = RemapsFor(q, call.masks)
             /\ sw'.en[q] <=> LiveOn(q, call.masks) # {}
             /\ sw.pending \/ CacheAt(q) =>
                   /\ hw'.remap[q] = RemapsFor(q, call.masks)
                   /\ hw'.en[q] <=> LiveOn(q, call.masks) # {}
    BY <1>1, PipeUpdated
  <2>3. sw'.pending = sw.pending /\ asleep' = asleep
    <3>1. ~ Commit /\ ~ Resume
      BY <1>1 DEF UpdateLinks, UpdatePipe, Commit, Resume, At, Quiet, CallInv
    <3> QED
      BY <1>1, <3>1, SwFrames DEF UpdateLinks, UpdatePipe, Quiet
  <2>4. CASE p = q
    <3>1. hw'.en[p] <=> sw'.en[p]
      BY <2>1, <2>2, <2>4
    <3>2. SwType' /\ HwType'
      BY StreamsTypeStep DEF Base, StreamsTypeInv
    <3>3. hw'.en[p] \in BOOLEAN /\ sw'.en[p] \in BOOLEAN
      BY <3>2 DEF SwType, HwType
    <3>4. \A x, y \in BOOLEAN : (x <=> y) => x = y
      OBVIOUS
    <3>5. hw'.en[p] = sw'.en[p]
      BY <3>1, <3>3, <3>4, Zenon
    <3> QED
      BY <2>1, <2>2, <2>4, <3>5
  <2>5. CASE p # q
    <3>1. SamePipe(p)
      BY <2>2, <2>5
    <3>2. CacheAt(p)
      BY <2>2, <2>3, <2>5 DEF CacheInv, Updated
    <3> QED
      BY <3>1, <3>2 DEF SamePipe, CacheAt
  <2> QED
    BY <2>4, <2>5
<1>2. CASE Suspend
  <2>1. asleep' /\ stage' = "off"
    BY <1>2 DEF Suspend, Idle
  <2> QED
    BY <2>1 DEF Updated
<1>3. CASE Resume
  <2>1. stage' = "off"
    BY <1>3 DEF Resume, CallInv, Base, StreamsTypeInv, RestType
  <2>2. sw' = [sw EXCEPT !.prog = [q \in Pipes |-> FALSE], !.pending = TRUE]
    BY <1>3, Zenon DEF Resume, Faultless
  <2>3. sw'.pending
    BY <2>2 DEF Base, StreamsTypeInv, SwType
  <2> QED
    BY <2>1, <2>3 DEF Updated
<1>4. CASE Commit
  <2>1. CacheAt(p)
    BY <1>4 DEF Commit, At, Updated, CacheInv
  <2>2. ~ UpdateLinks /\ ~ Suspend /\ ~ Resume
    BY <1>4 DEF Commit, UpdateLinks, Suspend, Resume, At, Idle, CallInv
  <2> QED
    BY <2>1, <2>2, SwFrames, HwFrames DEF CacheAt
<1>5. CASE ~ (UpdateLinks \/ Suspend \/ Resume \/ Commit)
  <2>1. sw'.pending = sw.pending /\ asleep' = asleep
    <3>1. asleep' = asleep
      BY <1>5 DEF StreamsNext, ChangeRouting, RerouteSerializer, StartGetDesc, EndGetDesc,
         StartUpdate, PopulateStep, Reject, allVars, own, HandlerStep, StartWrites, SetPipePhy,
         PhysDone, SetPipeTunnel, SetSerModes, SetModes, SetPipeStreamId, IdsDone, DisableSources,
         StopOutput, LinksDone, SetTpg, StartOutput, EnableSources, UndoActiveEnable, UndoTpg,
         UndoLinks, UndoLinksDone, UndoPipe, UndoDone, UndoActiveDisable, UndoSources, GiveUp,
         UpdateActive, UpdatePipe, UpdateTpg, Quiet
    <3> QED
      BY <1>5, <3>1, SwFrames
  <2>2. CacheAt(p)
    BY <1>5, <2>1, UpdatedFrames DEF CacheInv
  <2> QED
    BY <1>5, <2>2, SwFrames, HwFrames DEF CacheAt
<1> QED
  BY <1>1, <1>2, <1>3, <1>4, <1>5

----------------------------------------------------------------------------
(* Modes, sources, test pattern and outputs *)

ModeInv == (\A p \in Pipes : ~ hw.tunnel[p]) /\ \A l \in Enabled : ser.mode[l] = "pixel"

LEMMA ModeStep ==
    ASSUME Base, ModeInv, [StreamsNext]_allVars, Faultless
    PROVE  ModeInv'
<1> USE DEF Base, StreamsTypeInv
<1>1. \A p \in Pipes : ~ hw'.tunnel[p]
  <2>1. CASE SetPipeTunnel
    <3>1. PICK q \in Pipes : hw' = [hw EXCEPT !.tunnel[q] = (mode = "tunnel")]
      BY <2>1, Zenon DEF SetPipeTunnel, Faultless
    <3>2. PICK b \in BOOLEAN : b = (mode = "tunnel")
      OBVIOUS
    <3>3. ~ b
      BY <3>2 DEF PixelInv
    <3>4. hw' = [hw EXCEPT !.tunnel[q] = b]
      BY <3>1, <3>2
    <3> QED
      BY <3>3, <3>4 DEF HwType, ModeInv
  <2>2. CASE Suspend
    BY <2>2 DEF Suspend, HwReset
  <2>3. CASE Resume
    <3>1. hw' = [HwReset EXCEPT !.id = sw.id, !.remap = sw.remap,
                                !.link = IF HasPipeLink THEN linkOf ELSE @]
      BY <2>3, Zenon DEF Resume, Faultless
    <3> QED
      BY <3>1 DEF HwReset
  <2> QED
    BY <2>1, <2>2, <2>3, HwFrames DEF ModeInv
<1>2. \A l \in Enabled : ser'.mode[l] = "pixel"
  <2>1. CASE SetSerModes
    <3>1. mode = "pixel"
      BY DEF PixelInv
    <3>2. ser' = [ser EXCEPT !.mode = [l \in Enabled |->
                          IF l \in {c[1] : c \in Consulted} /\ l < NumLinks THEN mode ELSE @[l]]]
      BY <2>1 DEF SetSerModes, Faultless
    <3>3. \A l \in Enabled : ser'.mode[l] \in {mode, ser.mode[l]}
      BY <3>2 DEF SerType
    <3> QED
      BY <3>1, <3>3 DEF SerType, ModeInv
  <2> QED
    BY <2>1, SerFrames DEF ModeInv
<1> QED
  BY <1>1, <1>2 DEF ModeInv

\* The cameras send what the masks say: those of the call are in force from
\* the stage that may stop some, and the commit lets more of them send.
SourcesInv ==
    /\ stage # "commit" => ser.on \subseteq sw.on.sink
    /\ stage \in LateStages => ser.on \subseteq call.masks.sink

LEMMA SourcesStep ==
    ASSUME Base, CallInv, SourcesInv, [StreamsNext]_allVars, Faultless
    PROVE  SourcesInv'
<1> USE DEF Base, StreamsTypeInv
<1>0. ser.on \subseteq Enabled \X Streams /\ Tpg \notin Enabled
  BY ChipAssumption, SizesAssumption DEF SerType, Tpg, Links
<1>1. CASE DisableSources
  <2>1. /\ stage = "srcOff" /\ stage' = "actOff" /\ ser' = [ser EXCEPT !.on = @ \ SourceStreams]
        /\ sw' = sw /\ call' = call
    BY <1>1 DEF DisableSources, At, Goto, Faultless
  <2>2. ser'.on = ser.on \ SourceStreams
    BY <2>1 DEF SerType
  <2>3. call.masks.sink = sw.on.sink \ SinksOf(Requested)
    BY <2>1 DEF CallInv, NewMasks
  <2>4. ser.on \cap SinksOf(Requested) \subseteq SourceStreams
    BY <1>0 DEF SinksOf, SourceStreams
  <2> QED
    BY <2>1, <2>2, <2>3, <2>4 DEF SourcesInv, LateStages
<1>2. CASE EnableSources
  <2>1. /\ stage = "srcOn" /\ stage' = "commit" /\ sw' = sw /\ call' = call
        /\ ser' = IF call.enable THEN [ser EXCEPT !.on = @ \cup SourceStreams] ELSE ser
    BY <1>2 DEF EnableSources, At, Goto, Faultless
  <2>2. call.enable => call.masks.sink = sw.on.sink \cup SinksOf(Requested)
    BY <2>1 DEF CallInv, NewMasks
  <2>3. SourceStreams \subseteq SinksOf(Requested)
    BY DEF SourceStreams, SinksOf
  <2>4. ser'.on = IF call.enable THEN ser.on \cup SourceStreams ELSE ser.on
    BY <2>1 DEF SerType
  <2> QED
    BY <2>1, <2>2, <2>3, <2>4 DEF SourcesInv, LateStages
<1>3. CASE Suspend
  <2>1. ser'.on = {} /\ stage' = "off"
    BY <1>3 DEF Suspend, SerInit, Idle
  <2> QED
    BY <2>1 DEF SourcesInv, LateStages
<1>4. CASE Commit
  <2>1. sw'.on = call.masks /\ ser' = ser /\ stage' = "off" /\ stage = "commit"
    BY <1>4 DEF Commit, At, Goto, SwType
  <2> QED
    BY <2>1 DEF SourcesInv, LateStages
<1>5. CASE IdsDone
  <2>1. /\ stage = "ids" /\ sw' = sw /\ ser' = ser
        /\ stage' = IF call.enable THEN "actOff" ELSE "srcOff"
        /\ call' = [call EXCEPT !.done = {}]
    BY <1>5 DEF IdsDone, At, Goto, Rewind
  <2>2. call'.masks = call.masks
    BY <2>1 DEF CallType
  <2>3. call.enable => call.masks.sink = sw.on.sink \cup SinksOf(Requested)
    BY <2>1 DEF CallInv, NewMasks
  <2> QED
    BY <2>1, <2>2, <2>3 DEF SourcesInv, LateStages
<1>6. CASE ~ (DisableSources \/ EnableSources \/ Suspend \/ Commit \/ IdsDone)
  <2>1. ser'.on = ser.on /\ sw'.on = sw.on
    BY <1>6, SerFrames, SwFrames
  <2>2. /\ stage' = "commit" \/ stage # "commit"
        /\ stage' \in LateStages => stage \in LateStages
    BY <1>6, StageFrames DEF LateStages
  <2>3. stage' \in LateStages => call'.masks = call.masks \/ stage = "off"
    BY CallFrames DEF LateStages
  <2> QED
    BY <2>1, <2>2, <2>3 DEF SourcesInv, LateStages
<1> QED
  BY <1>1, <1>2, <1>3, <1>4, <1>5, <1>6

\* The generator runs when the pattern is on; a loss of the registers is only
\* repaired by the update that has to turn it off.
TpgInv ==
    /\ hw.tpg => sw.tpg
    /\ stage \in {"actOn", "srcOn", "commit"} =>
          (sw.tpg <=> TpgFor(call.masks)) /\ (hw.tpg <=> sw.tpg)
    /\ stage \notin {"actOn", "srcOn", "commit"} => (sw.tpg <=> TpgFor(sw.on))
    /\ ~ sw.pending /\ ~ asleep => (hw.tpg <=> sw.tpg)

\* A call cannot leave the pattern on: it is the only stream of its table.
LEMMA TpgSwitches ==
    ASSUME Base, CallInv, fresh, pc # "idle", TpgFor(sw.on)
    PROVE  ~ TpgFor(NewMasks)
<1> USE DEF Base, StreamsTypeInv, TypeInv
<1>1. PICK r \in RouteSet : r.sink = Tpg /\ Key(r) \in sw.on.sink
  BY DEF TpgFor, Live, Key
<1>2. \A q \in RouteSet : q = r
  BY <1>1, Table DEF ValidRouting
<1>3. PICK s \in call.streams : TRUE
  BY DEF CallInv
<1>4. r.phy = call.phy /\ r.source = s /\ (<<call.phy, s>> \in sw.on.src <=> ~ call.enable)
  BY <1>2 DEF CallInv
<1>5. <<r.phy, r.source>> \in sw.on.src
  BY <1>1, <1>2 DEF CallInv, MasksOf, SinksOf
<1>6. ~ call.enable /\ Requested = {r}
  BY <1>2, <1>4, <1>5 DEF Requested
<1>7. NewMasks.sink = sw.on.sink \ {Key(r)}
  BY <1>6 DEF NewMasks, SinksOf, Key
<1> QED
  BY <1>2, <1>7 DEF TpgFor, Live, Key

LEMMA TpgStep ==
    ASSUME Base, ActiveInv, CallInv, TpgInv, [StreamsNext]_allVars, Faultless
    PROVE  TpgInv'
<1> USE DEF Base, StreamsTypeInv
<1> DEFINE T(m) == \E r \in RouteSet : <<r.sink, r.stream>> \in m.sink /\ r.sink = Tpg
<1>0. \A m : TpgFor(m) <=> T(m)
  BY DEF TpgFor, Live
<1>1. CASE SetTpg
  <2>1. PICK b \in BOOLEAN : b = TpgFor(call.masks)
    BY DEF TpgFor
  <2>2. /\ stage = "tpg" /\ stage' = "actOn" /\ call' = call /\ asleep' = asleep
        /\ \/ b = sw.tpg /\ sw' = sw /\ hw' = hw
           \/ sw' = [sw EXCEPT !.tpg = b] /\ hw' = [hw EXCEPT !.tpg = b]
    BY <1>1, <2>1 DEF SetTpg, UpdateTpg, At, Goto, Faultless, Quiet
  <2>3. /\ sw'.tpg = b
        /\ \/ b = sw.tpg /\ sw' = sw /\ hw' = hw
           \/ hw'.tpg = b
    BY <2>2 DEF SwType, HwType
  <2>4. b = sw.tpg => ~ b
    <3> SUFFICES ASSUME b = sw.tpg, b PROVE FALSE
      OBVIOUS
    <3>1. TpgFor(sw.on) /\ TpgFor(call.masks)
      BY <2>1, <2>2 DEF TpgInv
    <3>2. call.masks = NewMasks /\ fresh /\ pc # "idle"
      BY <2>2 DEF CallInv, RestType
    <3> QED
      BY <3>1, <3>2, TpgSwitches
  <2>5. hw'.tpg <=> b
    BY <2>3, <2>4 DEF TpgInv
  <2>6. RouteSet' = RouteSet
    BY <2>2, InputFrames DEF RouteSet
  <2>7. b <=> TpgFor(call.masks)'
    BY <2>1, <2>2, <2>6 DEF TpgFor, Live
  <2> QED
    BY <2>2, <2>3, <2>5, <2>7 DEF TpgInv
<1>2. CASE Suspend
  <2>1. ~ hw'.tpg /\ asleep' /\ stage' = stage /\ stage = "off" /\ sw' = sw /\ routing' = routing
    BY <1>2 DEF Suspend, HwReset, Idle, vars, input
  <2> QED
    BY <2>1 DEF TpgInv, TpgFor, Live, RouteSet
<1>3. CASE Resume
  <2>1. /\ sw' = [sw EXCEPT !.prog = [p \in Pipes |-> FALSE], !.pending = TRUE]
        /\ hw' = [HwReset EXCEPT !.id = sw.id, !.remap = sw.remap,
                                 !.link = IF HasPipeLink THEN linkOf ELSE @]
    BY <1>3, Zenon DEF Resume, Faultless
  <2>2. sw'.pending /\ sw'.tpg = sw.tpg /\ sw'.on = sw.on
    BY <2>1 DEF SwType
  <2>3. ~ hw'.tpg
    BY <2>1 DEF HwReset
  <2>4. stage' = stage /\ stage = "off" /\ routing' = routing
    BY <1>3 DEF Resume, vars, input, CallInv, RestType
  <2> QED
    BY <2>2, <2>3, <2>4 DEF TpgInv, TpgFor, Live, RouteSet
<1>4. CASE Commit
  <2>1. sw' = [sw EXCEPT !.on = call.masks, !.pending = FALSE] /\ hw' = hw
        /\ stage = "commit" /\ stage' = "off"
    BY <1>4 DEF Commit, At, Goto
  <2>2. sw'.on = call.masks /\ sw'.tpg = sw.tpg
    BY <2>1 DEF SwType
  <2>3. RouteSet' = RouteSet
    BY <2>1, InputFrames DEF RouteSet
  <2> QED
    BY <2>1, <2>2, <2>3 DEF TpgInv, TpgFor, Live
<1>5. CASE ChangeRouting
  <2>1. UNCHANGED <<sw, hw, stage, asleep>> /\ stage = "off"
    BY <1>5 DEF ChangeRouting, Idle
  <2>2. sw.on.src = {}
    BY <1>5 DEF ChangeRouting, Idle, ActiveInv, Act
  <2>3. sw.on.sink = {}
    BY <2>2 DEF CallInv, MasksOf, SinksOf
  <2> QED
    BY <2>1, <2>3 DEF TpgInv, TpgFor, Live
<1>6. CASE ~ (SetTpg \/ Suspend \/ Resume \/ Commit \/ ChangeRouting)
  <2>1. sw'.tpg = sw.tpg /\ hw'.tpg = hw.tpg /\ sw'.pending = sw.pending /\ sw'.on = sw.on
    BY <1>6, SwFrames, HwFrames
  <2>2. RouteSet' = RouteSet
    BY <1>6, InputFrames DEF RouteSet
  <2>3. asleep' = asleep
    BY <1>6 DEF StreamsNext, RerouteSerializer, StartGetDesc, EndGetDesc,
         StartUpdate, PopulateStep, Reject, allVars, own, HandlerStep, StartWrites, SetPipePhy,
         PhysDone, SetPipeTunnel, SetSerModes, SetModes, SetPipeStreamId, IdsDone, DisableSources,
         StopOutput, LinksDone, UpdateLinks, StartOutput, EnableSources, UndoActiveEnable, UndoTpg,
         UndoLinks, UndoLinksDone, UndoPipe, UndoDone, UndoActiveDisable, UndoSources, GiveUp,
         UpdateActive, UpdatePipe, UpdateTpg, Quiet
  <2>4. stage' \in {"actOn", "srcOn", "commit"} <=> stage \in {"actOn", "srcOn", "commit"}
    BY <1>6, StageFrames
  <2>5. stage \in {"actOn", "srcOn", "commit"} => call'.masks = call.masks
    BY <2>4, CallFrames
  <2> QED
    BY <2>1, <2>2, <2>3, <2>4, <2>5 DEF TpgInv, TpgFor, Live
<1> QED
  BY <1>1, <1>2, <1>3, <1>4, <1>5, <1>6

\* The outputs, against what the driver remembers and what the call wants.
OutInv ==
    /\ ~ sw.pending /\ ~ asleep => (hw.out <=> sw.active)
    /\ stage \in {"links", "tpg", "actOn", "srcOn", "commit"} => Act(call.masks) \/ ~ hw.out
    /\ stage \in {"srcOn", "commit"} => (Act(call.masks) => hw.out)

\* max_des_update_active(), seen at the output register.
LEMMA OutputEffect ==
    ASSUME SwType, HwType, NEW masks, NEW expected \in BOOLEAN, NEW next, NEW error,
           UpdateActive(masks, expected, next, error), Faultless
    PROVE  /\ Act(masks) <=> expected =>
                 \/ (hw'.out <=> expected) /\ (sw'.active <=> expected)
                 \/ ~ sw.pending /\ (sw.active <=> expected) /\ sw' = sw /\ hw' = hw
           /\ ~ (Act(masks) <=> expected) => sw' = sw /\ hw' = hw
           /\ stage' = next /\ call' = call
<1> DEFINE a == masks.src # {}
<1>1. a \in BOOLEAN /\ (a <=> Act(masks))
  BY DEF Act
<1>2. /\ \/ ActiveSkip(a, expected) /\ Goto(next) /\ UNCHANGED <<sw, hw>>
         \/ /\ ~ ActiveSkip(a, expected) /\ Goto(next)
            /\ hw' = [hw EXCEPT !.out = a] /\ sw' = [sw EXCEPT !.active = a]
      /\ call' = call
  BY Zenon DEF UpdateActive, Faultless
<1> HIDE DEF a
<1>3. CASE ActiveSkip(a, expected) /\ Goto(next) /\ UNCHANGED <<sw, hw>>
  BY <1>1, <1>2, <1>3 DEF ActiveSkip, Goto, SwType
<1>4. CASE /\ ~ ActiveSkip(a, expected) /\ Goto(next)
           /\ hw' = [hw EXCEPT !.out = a] /\ sw' = [sw EXCEPT !.active = a]
  <2>1. a = expected
    BY <1>4 DEF ActiveSkip
  <2>2. hw'.out = a /\ sw'.active = a
    BY <1>4 DEF SwType, HwType
  <2> QED
    BY <1>1, <1>2, <1>4, <2>1, <2>2 DEF Goto
<1> QED
  BY <1>2, <1>3, <1>4

LEMMA OutStep ==
    ASSUME Base, ActiveInv, CallInv, OutInv, [StreamsNext]_allVars, Faultless
    PROVE  OutInv'
<1> USE DEF Base, StreamsTypeInv
<1>1. CASE StopOutput
  <2>1. UpdateActive(call.masks, FALSE, "links", "revSrc") /\ ~ asleep /\ stage = "actOff"
    BY <1>1 DEF StopOutput, At, CallInv
  <2>2. PICK e \in BOOLEAN : e = FALSE /\ UpdateActive(call.masks, e, "links", "revSrc")
    BY <2>1
  <2>3. /\ (Act(call.masks) <=> e) =>
              \/ (hw'.out <=> e) /\ (sw'.active <=> e)
              \/ ~ sw.pending /\ (sw.active <=> e) /\ sw' = sw /\ hw' = hw
        /\ ~ (Act(call.masks) <=> e) => sw' = sw /\ hw' = hw
        /\ stage' = "links" /\ call' = call
    BY <2>2, OutputEffect
  <2>4. sw'.pending = sw.pending /\ asleep' = asleep
    <3>1. ~ Commit /\ ~ Resume
      BY <2>1 DEF Commit, Resume, At
    <3> QED
      BY <1>1, <3>1, SwFrames DEF StopOutput, UpdateActive, Quiet
  <2> HIDE DEF Base, StreamsTypeInv
  <2> QED
    BY <2>1, <2>2, <2>3, <2>4 DEF OutInv, Act
<1>2. CASE StartOutput
  <2>1. UpdateActive(call.masks, TRUE, "srcOn", "revTpg") /\ ~ asleep /\ stage = "actOn"
    BY <1>2 DEF StartOutput, At, CallInv
  <2>2. PICK e \in BOOLEAN : e = TRUE /\ UpdateActive(call.masks, e, "srcOn", "revTpg")
    BY <2>1
  <2>3. /\ (Act(call.masks) <=> e) =>
              \/ (hw'.out <=> e) /\ (sw'.active <=> e)
              \/ ~ sw.pending /\ (sw.active <=> e) /\ sw' = sw /\ hw' = hw
        /\ ~ (Act(call.masks) <=> e) => sw' = sw /\ hw' = hw
        /\ stage' = "srcOn" /\ call' = call
    BY <2>2, OutputEffect
  <2>4. sw'.pending = sw.pending /\ asleep' = asleep
    <3>1. ~ Commit /\ ~ Resume
      BY <2>1 DEF Commit, Resume, At
    <3> QED
      BY <1>2, <3>1, SwFrames DEF StartOutput, UpdateActive, Quiet
  <2> HIDE DEF Base, StreamsTypeInv
  <2> QED
    BY <2>1, <2>2, <2>3, <2>4 DEF OutInv, Act
<1>3. CASE Suspend
  <2>1. asleep' /\ stage' = "off"
    BY <1>3 DEF Suspend, Idle
  <2> QED
    BY <2>1 DEF OutInv
<1>4. CASE Resume
  <2>1. stage' = "off"
    BY <1>4 DEF Resume, CallInv, RestType
  <2>2. sw' = [sw EXCEPT !.prog = [q \in Pipes |-> FALSE], !.pending = TRUE]
    BY <1>4, Zenon DEF Resume, Faultless
  <2>3. sw'.pending
    BY <2>2 DEF SwType
  <2> QED
    BY <2>1, <2>3 DEF OutInv
<1>5. CASE Commit
  <2>1. sw' = [sw EXCEPT !.on = call.masks, !.pending = FALSE] /\ hw' = hw
        /\ stage = "commit" /\ stage' = "off"
    BY <1>5 DEF Commit, At, Goto
  <2>2. sw'.active = sw.active
    BY <2>1 DEF SwType
  <2>3. hw.out <=> sw.active
    BY <2>1 DEF OutInv, ActiveInv
  <2> QED
    BY <2>1, <2>2, <2>3 DEF OutInv
<1>6. CASE ~ (StopOutput \/ StartOutput \/ Suspend \/ Resume \/ Commit)
  <2>1. sw'.active = sw.active /\ hw'.out = hw.out /\ sw'.pending = sw.pending
    BY <1>6, SwFrames, HwFrames
  <2>2. asleep' = asleep
    BY <1>6 DEF StreamsNext, RerouteSerializer, StartGetDesc, EndGetDesc, ChangeRouting,
         StartUpdate, PopulateStep, Reject, allVars, own, HandlerStep, StartWrites, SetPipePhy,
         PhysDone, SetPipeTunnel, SetSerModes, SetModes, SetPipeStreamId, IdsDone, DisableSources,
         SetTpg, LinksDone, UpdateLinks, EnableSources, UndoActiveEnable, UndoTpg,
         UndoLinks, UndoLinksDone, UndoPipe, UndoDone, UndoActiveDisable, UndoSources, GiveUp,
         UpdateActive, UpdatePipe, UpdateTpg, Quiet
  <2>3. /\ stage' \in {"links", "tpg", "actOn", "srcOn", "commit"} =>
              stage \in {"links", "tpg", "actOn", "srcOn", "commit"}
        /\ stage' \in {"srcOn", "commit"} => stage \in {"srcOn", "commit"}
    BY <1>6, StageFrames
  <2>4. stage # "off" /\ stage' # "off" => call'.masks = call.masks
    BY CallFrames
  <2> QED
    BY <2>1, <2>2, <2>3, <2>4 DEF OutInv, Act
<1> QED
  BY <1>1, <1>2, <1>3, <1>4, <1>5, <1>6

----------------------------------------------------------------------------
(* The stream ids *)

\* The id that the serializer pipe of an assigned pipe has.
NamedAt(p) ==
    strm[p] # Unassigned /\ linkOf[p] \in Enabled => ser.id[<<linkOf[p], strm[p]>>] = p

\* Ids are the numbers of the streams, or of the pipes of the deserializer;
\* those are given before the streams are on, and not given to others then.
IdsInv ==
    /\ ~ UniqueIds => \A x \in Enabled \X Streams : ser.id[x] = x[2]
    /\ UniqueIds => \A p \in Pipes : sw.id[p] = p /\ hw.id[p] = p
    /\ UniqueIds /\ (stage = "srcOff" \/ stage \in LateStages) => \A p \in Pipes : NamedAt(p)
    /\ UniqueIds /\ stage = "ids" => \A p \in call.done : NamedAt(p)
    /\ UniqueIds => \A x \in ser.on : \E j \in DOMAIN routing :
          x = Key(routing[j]) /\ \A q \in Pipes : Carries(q, routing[j]) <=> ser.id[x] = q

LEMMA AssignedOnce ==
    ASSUME Base, NEW p \in Pipes, NEW q \in Pipes, strm[p] # Unassigned,
           strm[p] = strm[q], linkOf[p] = linkOf[q]
    PROVE  p = q
BY DEF Base, AssignInv, PipeNotShared

LEMMA NameStep ==
    ASSUME Base, IdsInv, SetPipeStreamId, Faultless
    PROVE  IdsInv'
<1> USE DEF Base, StreamsTypeInv, TypeInv
<1>1. stage = "ids" /\ fresh /\ pc = "populated" /\ UNCHANGED <<routing, linkOf, strm>>
  BY DEF SetPipeStreamId, At, RestType, Quiet, vars, input, assign
<1>2. PICK p \in Pipes :
        \/ /\ strm[p] = Unassigned \/ linkOf[p] \notin Enabled
           /\ Visit(p) /\ stage' = stage /\ UNCHANGED <<sw, hw, ser>>
        \/ stage' = "free" /\ UNCHANGED <<call, sw, hw, ser>>
        \/ /\ strm[p] # Unassigned /\ linkOf[p] \in Enabled
           /\ ser' = [ser EXCEPT !.id[<<linkOf[p], strm[p]>>] = WantedId(p)]
           /\ hw' = [hw EXCEPT !.id[p] = WantedId(p)] /\ sw' = [sw EXCEPT !.id[p] = WantedId(p)]
           /\ Visit(p) /\ stage' = stage
  BY DEF SetPipeStreamId, Faultless, Goto
<1>3. Visit(p) => call'.done = call.done \cup {p}
  BY DEF Visit, CallType
<1>4. CASE /\ strm[p] = Unassigned \/ linkOf[p] \notin Enabled
           /\ Visit(p) /\ stage' = stage /\ UNCHANGED <<sw, hw, ser>>
  BY <1>1, <1>3, <1>4 DEF IdsInv, NamedAt, LateStages, Carries
<1>5. CASE stage' = "free" /\ UNCHANGED <<call, sw, hw, ser>>
  BY <1>1, <1>5 DEF IdsInv, NamedAt, LateStages, Carries
<1>6. CASE /\ strm[p] # Unassigned /\ linkOf[p] \in Enabled
           /\ ser' = [ser EXCEPT !.id[<<linkOf[p], strm[p]>>] = WantedId(p)]
           /\ hw' = [hw EXCEPT !.id[p] = WantedId(p)] /\ sw' = [sw EXCEPT !.id[p] = WantedId(p)]
           /\ Visit(p) /\ stage' = stage
  <2> DEFINE y == <<linkOf[p], strm[p]>>
  <2>1. PICK n : n = WantedId(p)
    OBVIOUS
  <2>2. y \in Enabled \X Streams /\ y[1] = linkOf[p] /\ y[2] = strm[p]
    BY <1>6 DEF TypeOK
  <2>3. /\ ser'.id[y] = n /\ ser'.on = ser.on
        /\ \A x \in Enabled \X Streams : x # y => ser'.id[x] = ser.id[x]
    BY <1>6, <2>1, <2>2 DEF SerType
  <2>4. /\ \A q \in Pipes : q # p => sw'.id[q] = sw.id[q] /\ hw'.id[q] = hw.id[q]
        /\ sw'.id[p] = n /\ hw'.id[p] = n
    BY <1>6, <2>1 DEF SwType, HwType
  <2>5. CASE ~ UniqueIds
    BY <1>6, <2>1, <2>2, <2>3, <2>5 DEF IdsInv, WantedId
  <2>6. CASE UniqueIds
    <3>1. n = p
      BY <2>1, <2>6 DEF WantedId, IdsInv
    <3>2. \A q \in Pipes : sw'.id[q] = q /\ hw'.id[q] = q
      BY <2>4, <2>6, <3>1 DEF IdsInv
    <3>3. ASSUME NEW q \in call'.done PROVE NamedAt(q)'
      <4>1. CASE q = p
        BY <1>1, <2>3, <3>1, <4>1 DEF NamedAt
      <4>2. CASE q # p
        <5>1. q \in Pipes /\ NamedAt(q)
          BY <1>1, <1>3, <1>6, <2>6, <4>2 DEF IdsInv, CallType
        <5>2. ASSUME strm[q] # Unassigned, linkOf[q] \in Enabled
              PROVE  <<linkOf[q], strm[q]>> # y /\ <<linkOf[q], strm[q]>> \in Enabled \X Streams
          BY <4>2, <5>1, <5>2, AssignedOnce DEF TypeOK
        <5> QED
          BY <1>1, <2>3, <5>1, <5>2 DEF NamedAt
      <4> QED
        BY <4>1, <4>2
    <3>4. ASSUME NEW x \in ser.on
          PROVE  \E j \in DOMAIN routing :
                    x = Key(routing[j]) /\ \A q \in Pipes : Carries(q, routing[j]) <=> ser'.id[x] = q
      <4>1. PICK j \in DOMAIN routing :
                    x = Key(routing[j]) /\ \A q \in Pipes : Carries(q, routing[j]) <=> ser.id[x] = q
        BY <2>6 DEF IdsInv
      <4>2. x \in Enabled \X Streams
        BY DEF SerType
      <4>3. CASE x = y
        <5>1. routing[j].sink = linkOf[p] /\ routing[j].stream = strm[p]
          BY <4>1, <4>3 DEF Key
        <5>2. linkOf[p] # Tpg
          BY SizesAssumption DEF TypeOK, Tpg, Links
        <5>3. <<linkOf, strm>> = FinalPlan(routing)
          BY <1>1, PlanIsFinal DEF AssignmentFollowsTable
        <5>4. \A q \in Pipes : Carries(q, routing[j]) <=> linkOf[q] = linkOf[p] /\ strm[q] = strm[p]
          BY <5>1, <5>2, <5>3 DEF Carries
        <5>5. \A q \in Pipes : Carries(q, routing[j]) <=> q = p
          BY <1>6, <5>4, AssignedOnce
        <5> QED
          BY <2>3, <3>1, <4>1, <4>3, <5>5
      <4>4. CASE x # y
        BY <2>3, <4>1, <4>2, <4>4
      <4> QED
        BY <4>3, <4>4
    <3>5. \A x \in ser'.on : \E j \in DOMAIN routing :
              x = Key(routing[j]) /\ \A q \in Pipes : Carries(q, routing[j]) <=> ser'.id[x] = q
      BY <2>3, <3>4
    <3> QED
      BY <1>1, <1>6, <2>6, <3>2, <3>3, <3>5 DEF IdsInv, LateStages, Carries
  <2> QED
    BY <2>5, <2>6
<1> QED
  BY <1>2, <1>4, <1>5, <1>6

LEMMA IdsStep ==
    ASSUME Base, ActiveInv, CallInv, SourcesInv, IdsInv, [StreamsNext]_allVars, Faultless
    PROVE  IdsInv'
<1> USE DEF Base, StreamsTypeInv, TypeInv
<1>1. CASE SetPipeStreamId
  BY <1>1, NameStep
<1>2. CASE EnableSources
  <2>1. /\ stage = "srcOn" /\ stage' = "commit" /\ UNCHANGED <<sw, hw, call, routing, linkOf, strm>>
        /\ ser' = IF call.enable THEN [ser EXCEPT !.on = @ \cup SourceStreams] ELSE ser
        /\ fresh /\ pc = "populated"
    BY <1>2 DEF EnableSources, At, Goto, Faultless, RestType, Quiet, vars, input, assign
  <2>2. ser'.id = ser.id /\ ser'.on \subseteq ser.on \cup SourceStreams
    BY <2>1 DEF SerType
  <2>3. ASSUME UniqueIds, NEW x \in SourceStreams
        PROVE  \E j \in DOMAIN routing :
                  x = Key(routing[j]) /\ \A q \in Pipes : Carries(q, routing[j]) <=> ser.id[x] = q
    <3>1. PICK r \in RouteSet : x = Key(r) /\ r.sink # Tpg
      BY DEF SourceStreams, SinksOf, Requested, Key
    <3>2. PICK j \in DOMAIN routing : r = routing[j]
      BY Table
    <3>3. PICK q \in Pipes : Carries(q, routing[j])
      BY <2>1, CarrierExists
    <3>4. <<linkOf, strm>> = FinalPlan(routing)
      BY <2>1, PlanIsFinal DEF AssignmentFollowsTable
    <3>5. linkOf[q] = r.sink /\ strm[q] = r.stream
      BY <3>1, <3>2, <3>3, <3>4 DEF Carries
    <3>6. r.sink \in Enabled /\ r.stream # Unassigned
      BY <3>1, RouteOf DEF Streams, Unassigned
    <3>7. NamedAt(q)
      BY <2>1, <2>3 DEF IdsInv, LateStages
    <3>8. ser.id[x] = q
      BY <3>1, <3>5, <3>6, <3>7 DEF NamedAt, Key
    <3>9. \A o \in Pipes : Carries(o, routing[j]) => o = q
      BY <2>1, <3>3, CarrierOnce
    <3> QED
      BY <3>1, <3>2, <3>3, <3>8, <3>9
  <2>4. UniqueIds => \A x \in ser'.on : \E j \in DOMAIN routing :
              x = Key(routing[j]) /\ \A q \in Pipes : Carries(q, routing[j]) <=> ser'.id[x] = q
    BY <2>2, <2>3 DEF IdsInv
  <2> QED
    BY <2>1, <2>2, <2>4 DEF IdsInv, NamedAt, Carries, LateStages
<1>3. CASE Suspend
  <2>1. /\ hw' = HwReset /\ ser' = [SerInit EXCEPT !.mode = ser.mode] /\ stage' = "off"
        /\ sw' = sw
    BY <1>3 DEF Suspend, Idle
  <2>2. /\ ser'.on = {} /\ \A x \in Enabled \X Streams : ser'.id[x] = x[2]
        /\ \A p \in Pipes : UniqueIds => hw'.id[p] = p
    BY <2>1 DEF SerInit, HwReset
  <2> QED
    BY <2>1, <2>2 DEF IdsInv, LateStages
<1>4. CASE Resume
  <2>1. /\ sw' = [sw EXCEPT !.prog = [p \in Pipes |-> FALSE], !.pending = TRUE]
        /\ hw' = [HwReset EXCEPT !.id = sw.id, !.remap = sw.remap,
                                 !.link = IF HasPipeLink THEN linkOf ELSE @]
    BY <1>4, Zenon DEF Resume, Faultless
  <2>2. sw'.id = sw.id
    BY <2>1 DEF SwType
  <2>3. hw'.id = sw.id
    BY <2>1 DEF HwReset
  <2>4. UNCHANGED <<stage, ser, call, routing, linkOf, strm>>
    BY <1>4 DEF Resume, vars, input, assign
  <2> QED
    BY <2>2, <2>3, <2>4 DEF IdsInv, NamedAt, Carries
<1>5. CASE UpdateLinks
  <2>1. PICK p \in Pipes :
             /\ \A q \in Pipes : q # p => SamePipe(q)
             /\ stage = "links" /\ stage' = stage
             /\ \/ sw'.id[p] = sw.id[p] /\ hw'.id[p] = hw.id[p]
                \/ \E n : sw'.id[p] = n /\ hw'.id[p] = n /\ (UniqueIds => n = sw.id[p])
    BY <1>5, PipeUpdated
  <2>2. UniqueIds => \A q \in Pipes : sw'.id[q] = q /\ hw'.id[q] = q
    BY <2>1 DEF IdsInv, SamePipe
  <2>3. UNCHANGED <<ser, routing, linkOf, strm>>
    BY <1>5 DEF UpdateLinks, UpdatePipe, Quiet, vars, input, assign
  <2> QED
    BY <2>1, <2>2, <2>3 DEF IdsInv, NamedAt, Carries, LateStages
<1>6. CASE ChangeRouting
  <2>1. sw.on.src = {}
    BY <1>6 DEF ChangeRouting, Idle, ActiveInv, Act
  <2>2. sw.on.sink = {}
    BY <2>1 DEF CallInv, MasksOf, SinksOf
  <2>3. stage = "off" /\ ser.on = {} /\ UNCHANGED <<sw, hw, ser, stage>>
    BY <1>6, <2>2 DEF ChangeRouting, Idle, SourcesInv
  <2> QED
    BY <2>3 DEF IdsInv, LateStages
<1>7. CASE IdsDone
  <2>1. /\ stage = "ids" /\ call.done = Pipes /\ UNCHANGED <<sw, hw, ser, routing, linkOf, strm>>
        /\ stage' \in {"srcOff", "actOff"}
    BY <1>7 DEF IdsDone, At, Goto, LoopEnds, Quiet, vars, input, assign
  <2> QED
    BY <2>1 DEF IdsInv, NamedAt, Carries, LateStages
<1>8. CASE DisableSources
  <2>1. /\ stage = "srcOff" /\ ser' = [ser EXCEPT !.on = @ \ SourceStreams]
        /\ UNCHANGED <<sw, hw, routing, linkOf, strm>> /\ stage' # "ids"
    BY <1>8 DEF DisableSources, At, Goto, Faultless, Quiet, vars, input, assign
  <2>2. ser'.id = ser.id /\ ser'.on \subseteq ser.on
    BY <2>1 DEF SerType
  <2> QED
    BY <2>1, <2>2 DEF IdsInv, NamedAt, Carries
<1>9. CASE ~ (SetPipeStreamId \/ EnableSources \/ Suspend \/ Resume \/ UpdateLinks \/ ChangeRouting
              \/ IdsDone \/ DisableSources)
  <2>1. /\ sw'.id = sw.id /\ hw'.id = hw.id /\ ser'.id = ser.id /\ ser'.on = ser.on
        /\ routing' = routing
    BY <1>9, SwFrames, HwFrames, SerFrames, InputFrames
  <2>2. stage # "off" => UNCHANGED <<linkOf, strm>>
    BY InputFrames
  <2>3. stage' = "srcOff" \/ stage' \in LateStages => stage = "srcOff" \/ stage \in LateStages
    BY <1>9, StageFrames DEF LateStages
  <2>4. stage' = "ids" => call'.done = {} \/ (stage = "ids" /\ call' = call)
    <3>1. CASE SetModes
      BY <3>1 DEF SetModes, At, CallInv
    <3>2. CASE ~ SetModes
      <4> SUFFICES ASSUME stage' = "ids" PROVE call' = call /\ stage = "ids"
        OBVIOUS
      <4>1. stage = "ids"
        BY <1>9, <3>2, StageFrames
      <4>2. ~ HandlerStep
        BY <1>9, <3>2, <4>1 DEF HandlerStep, StartWrites, SetPipePhy, PhysDone, SetPipeTunnel,
           SetSerModes, DisableSources, StopOutput, UpdateLinks, LinksDone, SetTpg, StartOutput,
           EnableSources, Commit, UndoActiveEnable, UndoTpg, UndoLinks, UndoLinksDone, UndoPipe,
           UndoDone, UndoActiveDisable, UndoSources, GiveUp, At
      <4>3. call' = call
        BY <4>1, <4>2 DEF StreamsNext, ChangeRouting, RerouteSerializer, StartGetDesc, EndGetDesc,
           StartUpdate, PopulateStep, Populate, UseTpg, UseLink, UseNothing, FindModes, MapVc,
           MapTooBig, ChooseMode, Reject, Suspend, Resume, allVars, own, Idle, RestType
      <4> QED
        BY <4>1, <4>3
    <3> QED
      BY <3>1, <3>2
  <2>5. stage' = "srcOff" \/ stage' \in LateStages => stage # "off"
    BY <2>3 DEF LateStages
  <2> QED
    BY <2>1, <2>2, <2>3, <2>4, <2>5 DEF IdsInv, NamedAt, Carries
<1> QED
  BY <1>1, <1>2, <1>3, <1>4, <1>5, <1>6, <1>7, <1>8, <1>9

----------------------------------------------------------------------------
(* The pipes *)

\* The streams at the sink pads that the registers of a pipe are set up for.
MasksAt(p) == IF Updated(p) THEN call.masks.sink ELSE sw.on.sink

(* An enabled pipe lets through one stream, which is on; the pipe of every *)
(* stream that is on is enabled once it has been updated.                  *)
PipesInv == \A p \in Pipes :
    /\ hw.en[p] => \E k \in DOMAIN routing : Key(routing[k]) \in MasksAt(p) /\ PipeFlow(p, k)
    /\ Updated(p) => \A k \in DOMAIN routing :
          Key(routing[k]) \in call.masks.sink /\ Carries(p, routing[k]) => hw.en[p]
    /\ asleep => ~ hw.en[p]

LEMMA PipeTurned ==
    ASSUME Base, ChipSelects, CallInv, CacheInv, PipesInv, UpdateLinks, Faultless
    PROVE  PipesInv'
<1> USE DEF Base, StreamsTypeInv, TypeInv
<1>1. PICK p \in Pipes :
         /\ p \notin call.done /\ stage = "links" /\ stage' = stage
         /\ call'.done = call.done \cup {p}
         /\ \A q \in Pipes : q # p => SamePipe(q)
         /\ sw.pending \/ CacheAt(p) =>
               /\ hw'.remap[p] = RemapsFor(p, call.masks)
               /\ hw'.en[p] <=> LiveOn(p, call.masks) # {}
         /\ \/ /\ hw'.id[p] = hw.id[p] /\ hw'.link[p] = hw.link[p]
               /\ LiveOn(p, call.masks) # {} => ~ sw.pending /\ sw.en[p]
            \/ \E n :
                  /\ hw'.id[p] = n
                  /\ HasPipeLink => hw'.link[p] = linkOf[p]
                  /\ \A k \in DOMAIN routing :
                        Key(routing[k]) \in call.masks.sink /\ Carries(p, routing[k])
                           /\ ~ UniqueIds => n = routing[k].stream
  BY PipeUpdated
<1>2. /\ pc = "populated" /\ fresh /\ ~ asleep /\ asleep' = asleep
      /\ UNCHANGED <<routing, fd, linkOf, strm>> /\ stage' # "off" /\ stage # "off"
  BY <1>1 DEF UpdateLinks, UpdatePipe, At, RestType, CallInv, Quiet, vars, input, assign
<1>3. call'.masks = call.masks /\ sw'.on = sw.on
  <2>1. [StreamsNext]_allVars
    BY DEF StreamsNext, HandlerStep
  <2> QED
    BY <1>2, <2>1, CallFrames
<1>4. \A q \in Pipes : q # p => (Updated(q)' <=> Updated(q))
  BY <1>1 DEF Updated
<1>5. Updated(p)' /\ ~ Updated(p) /\ MasksAt(p)' = call.masks.sink /\ MasksAt(p) = sw.on.sink
  BY <1>1, <1>3 DEF Updated, MasksAt
<1>6. sw.pending \/ CacheAt(p)
  BY <1>2 DEF CacheInv
<1>7. \A k \in DOMAIN routing : Carries(p, routing[k])' <=> Carries(p, routing[k])
  BY <1>2 DEF Carries
<1>8. \A k \in DOMAIN routing : Entry(k)' = Entry(k)
  BY <1>2 DEF Entry, SrcVc
<1>9. <<linkOf, strm>> = FinalPlan(routing)
  BY <1>2, PlanIsFinal DEF AssignmentFollowsTable
<1>10. ASSUME hw'.en[p]
       PROVE  \E k \in DOMAIN routing : Key(routing[k]) \in call.masks.sink /\ PipeFlow(p, k)'
  <2>1. LiveOn(p, call.masks) # {}
    BY <1>1, <1>6, <1>10
  <2>2. PICK k \in DOMAIN routing : Key(routing[k]) \in call.masks.sink /\ Carries(p, routing[k])
    BY <1>2, <2>1, LiveOnIs
  <2>3. HasChannels(routing) /\ RemapsFor(p, call.masks) = {Entry(k)}
    BY <1>2, <2>2, RemapsIs
  <2>4. hw'.remap[p] = {Entry(k)'}
    BY <1>1, <1>6, <1>8, <2>3
  <2>5. CASE /\ hw'.id[p] = hw.id[p] /\ hw'.link[p] = hw.link[p]
             /\ ~ sw.pending /\ sw.en[p]
    <3>1. hw.en[p]
      BY <1>6, <2>5 DEF CacheAt
    <3>2. PICK j \in DOMAIN routing : PipeFlow(p, j)
      BY <3>1 DEF PipesInv
    <3>3. j = k
      BY <2>2, <3>2, CarriesOnce DEF PipeFlow
    <3> QED
      BY <1>2, <1>7, <2>2, <2>3, <2>4, <2>5, <3>2, <3>3 DEF PipeFlow
  <2>6. CASE ~ UniqueIds => hw'.link[p] = linkOf[p] /\ hw'.id[p] = routing[k].stream
    <3>1. linkOf[p] = FinalPlan(routing)[1][p]
      BY <1>9
    <3> QED
      BY <1>2, <1>7, <2>2, <2>3, <2>4, <2>6, <3>1 DEF PipeFlow
  <2> QED
    BY <1>1, <2>1, <2>2, <2>5, <2>6 DEF ChipSelects
<1>11. ASSUME NEW k \in DOMAIN routing, Key(routing[k]) \in call.masks.sink, Carries(p, routing[k])
       PROVE  hw'.en[p]
  <2>1. LiveOn(p, call.masks) = {routing[k]}
    BY <1>2, <1>11, LiveOnIs
  <2> QED
    BY <1>1, <1>6, <2>1
<1>12. ASSUME NEW q \in Pipes, q # p
       PROVE  /\ hw'.en[q] => \E k \in DOMAIN routing' :
                     Key(routing'[k]) \in MasksAt(q)' /\ PipeFlow(q, k)'
              /\ Updated(q)' => \A k \in DOMAIN routing' :
                     Key(routing'[k]) \in call'.masks.sink /\ Carries(q, routing[k])' => hw'.en[q]
  <2>1. MasksAt(q)' = MasksAt(q)
    BY <1>3, <1>4, <1>12 DEF MasksAt
  <2>2. \A k : PipeFlow(q, k)' <=> PipeFlow(q, k)
    BY <1>1, <1>2, <1>12 DEF SamePipe, PipeFlow, Carries, Entry, SrcVc
  <2> QED
    BY <1>1, <1>2, <1>3, <1>4, <1>12, <2>1, <2>2 DEF PipesInv, Carries, SamePipe
<1> HIDE DEF Base, StreamsTypeInv, TypeInv
<1> QED
  BY <1>2, <1>3, <1>5, <1>7, <1>10, <1>11, <1>12 DEF PipesInv

LEMMA PipesStep ==
    ASSUME Base, ChipSelects, ActiveInv, CallInv, SourcesInv, CacheInv, PipesInv,
           [StreamsNext]_allVars, Faultless
    PROVE  PipesInv'
<1> USE DEF Base, StreamsTypeInv, TypeInv
<1>1. CASE UpdateLinks
  BY <1>1, PipeTurned
<1>2. CASE Suspend \/ Resume
  <2>1. \A p \in Pipes : ~ hw'.en[p]
    <3>1. CASE Suspend
      BY <3>1 DEF Suspend, HwReset
    <3>2. CASE Resume
      <4>1. hw' = [HwReset EXCEPT !.id = sw.id, !.remap = sw.remap,
                                  !.link = IF HasPipeLink THEN linkOf ELSE @]
        BY <3>2, Zenon DEF Resume, Faultless
      <4> QED
        BY <4>1 DEF HwReset
    <3> QED
      BY <1>2, <3>1, <3>2
  <2>2. stage' = "off"
    BY <1>2 DEF Suspend, Resume, Idle, CallInv, RestType
  <2> QED
    BY <2>1, <2>2 DEF PipesInv, Updated
<1>3. CASE Commit
  <2>1. /\ sw' = [sw EXCEPT !.on = call.masks, !.pending = FALSE] /\ hw' = hw
        /\ stage = "commit" /\ stage' = "off" /\ asleep' = asleep
    BY <1>3 DEF Commit, At, Goto
  <2>2. sw'.on = call.masks
    BY <2>1 DEF SwType
  <2>3. UNCHANGED <<routing, fd>>
    BY <2>1, InputFrames
  <2>4. ASSUME NEW p \in Pipes
        PROVE  MasksAt(p)' = MasksAt(p) /\ ~ Updated(p)'
    BY <2>1, <2>2 DEF MasksAt, Updated
  <2>5. \A p, k : PipeFlow(p, k)' <=> PipeFlow(p, k)
    BY <2>1, <2>3 DEF PipeFlow, Carries, Entry, SrcVc
  <2> QED
    BY <2>1, <2>3, <2>4, <2>5 DEF PipesInv
<1>4. CASE ChangeRouting
  <2>1. sw.on.src = {}
    BY <1>4 DEF ChangeRouting, Idle, ActiveInv, Act
  <2>2. sw.on.sink = {} /\ stage = "off" /\ UNCHANGED <<sw, hw, stage, call, asleep>>
    BY <1>4, <2>1 DEF ChangeRouting, Idle, CallInv, MasksOf, SinksOf
  <2>3. \A p \in Pipes : ~ hw.en[p]
    BY <2>2 DEF PipesInv, MasksAt, Updated
  <2> QED
    BY <2>2, <2>3 DEF PipesInv, Updated
<1>5. CASE SetPipeStreamId
  <2>1. stage = "ids" /\ fresh /\ pc = "populated" /\ stage' \in {"ids", "free"}
        /\ asleep' = asleep
    BY <1>5 DEF SetPipeStreamId, At, RestType, Goto, Faultless, Quiet
  <2>2. UNCHANGED <<routing, fd>>
    BY <2>1, InputFrames
  <2>3. hw'.en = hw.en /\ hw'.remap = hw.remap /\ hw'.link = hw.link
    BY <1>5, <2>1, HwFrames DEF UpdateLinks, Suspend, Resume, At, Idle, CallInv
  <2>4. \A p \in Pipes : ~ UniqueIds => hw'.id[p] = hw.id[p] \/ hw'.id[p] = strm[p]
    <3>1. hw' = hw \/ \E p \in Pipes : hw' = [hw EXCEPT !.id[p] = WantedId(p)]
      BY <1>5 DEF SetPipeStreamId
    <3>2. ASSUME NEW p \in Pipes, hw' = [hw EXCEPT !.id[p] = WantedId(p)], ~ UniqueIds
          PROVE  \A q \in Pipes : hw'.id[q] = hw.id[q] \/ hw'.id[q] = strm[q]
      BY <3>2 DEF HwType, WantedId
    <3> QED
      BY <3>1, <3>2
  <2>5. sw'.on = sw.on
    BY <1>5, <2>1, SwFrames DEF Commit, SetPipeStreamId, At
  <2>6. <<linkOf, strm>> = FinalPlan(routing)
    BY <2>1, PlanIsFinal DEF AssignmentFollowsTable
  <2>7. ASSUME NEW p \in Pipes, NEW k \in DOMAIN routing, PipeFlow(p, k)
        PROVE  PipeFlow(p, k)'
    <3>1. Carries(p, routing[k])' /\ HasChannels(routing)' /\ hw'.remap[p] = {Entry(k)'}
      BY <2>2, <2>3, <2>7 DEF PipeFlow, Carries, Entry, SrcVc
    <3>2. routing[k].sink # Tpg => strm[p] = routing[k].stream
      BY <2>6, <2>7 DEF PipeFlow, Carries
    <3> QED
      BY <2>2, <2>3, <2>4, <2>7, <3>1, <3>2 DEF PipeFlow
  <2>8. \A p \in Pipes : ~ Updated(p) /\ ~ Updated(p)'
    BY <2>1 DEF Updated
  <2> QED
    BY <2>1, <2>2, <2>3, <2>5, <2>7, <2>8 DEF PipesInv, MasksAt
<1>6. CASE RerouteSerializer
  <2>1. UNCHANGED <<sw, hw, call, stage, asleep, routing>> /\ stage = "off"
    BY <1>6 DEF RerouteSerializer, Idle, ChangeFrameDesc
  <2>2. \A x \in Links \X Streams : x \in sw.on.sink => fd'[x] = fd[x]
    BY <1>6 DEF RerouteSerializer
  <2>3. ASSUME NEW k \in DOMAIN routing, Key(routing[k]) \in sw.on.sink
        PROVE  Entry(k)' = Entry(k)
    <3>1. routing[k].stream \in Streams
      BY Table, RouteOf
    <3>2. routing[k].sink \in Enabled => fd'[Key(routing[k])] = fd[Key(routing[k])]
      BY <2>2, <2>3, <3>1, ChipAssumption DEF Key
    <3> QED
      BY <2>1, <3>2 DEF Entry, SrcVc, Key
  <2>4. \A p \in Pipes : ~ Updated(p) /\ ~ Updated(p)'
    BY <2>1 DEF Updated
  <2>5. ASSUME NEW p \in Pipes, NEW k \in DOMAIN routing, PipeFlow(p, k),
               Key(routing[k]) \in sw.on.sink
        PROVE  PipeFlow(p, k)'
    BY <2>1, <2>3, <2>5 DEF PipeFlow, Carries
  <2> QED
    BY <2>1, <2>4, <2>5 DEF PipesInv, MasksAt
<1>7. CASE ~ (UpdateLinks \/ Suspend \/ Resume \/ Commit \/ ChangeRouting \/ SetPipeStreamId
              \/ RerouteSerializer)
  <2>1. /\ sw'.on = sw.on /\ hw'.en = hw.en /\ hw'.remap = hw.remap /\ hw'.link = hw.link
        /\ hw'.id = hw.id /\ UNCHANGED <<routing, fd>>
    BY <1>7, SwFrames, HwFrames, InputFrames
  <2>2. asleep' = asleep
    BY <1>7 DEF StreamsNext, StartGetDesc, EndGetDesc,
         StartUpdate, PopulateStep, Reject, allVars, own, HandlerStep, StartWrites, SetPipePhy,
         PhysDone, SetPipeTunnel, SetSerModes, SetModes, IdsDone, DisableSources,
         SetTpg, LinksDone, EnableSources, UndoActiveEnable, UndoTpg, StopOutput, StartOutput,
         UndoLinks, UndoLinksDone, UndoPipe, UndoDone, UndoActiveDisable, UndoSources, GiveUp,
         UpdateActive, UpdatePipe, UpdateTpg, Quiet
  <2>3. \A p \in Pipes : Updated(p)' <=> Updated(p)
    BY <1>7, UpdatedFrames
  <2>4. \A p \in Pipes : Updated(p) => call'.masks = call.masks
    BY <2>3, CallFrames DEF Updated
  <2>5. \A p \in Pipes : MasksAt(p)' = MasksAt(p)
    BY <2>1, <2>3, <2>4 DEF MasksAt
  <2>6. \A p, k : PipeFlow(p, k)' <=> PipeFlow(p, k)
    BY <2>1 DEF PipeFlow, Carries, Entry, SrcVc
  <2>7. \A p, r : Carries(p, r)' <=> Carries(p, r)
    BY <2>1 DEF Carries
  <2> QED
    BY <2>1, <2>2, <2>3, <2>4, <2>5, <2>6, <2>7 DEF PipesInv
<1> QED
  BY <1>1, <1>2, <1>3, <1>4, <1>5, <1>6, <1>7

----------------------------------------------------------------------------
(* What arrives *)

(* The inductive invariant, in its parts: what is committed and requested, *)
(* what the caches, the cameras, the generator, the outputs, the ids and   *)
(* the pipes have to do with it.                                           *)
FlowInv ==
    /\ stage \notin ErrorStages
    /\ ActiveInv /\ CallInv /\ CacheInv /\ ModeInv /\ SourcesInv /\ TpgInv /\ OutInv
    /\ IdsInv /\ PipesInv

Flows(k) ==
    hw.out /\ Key(routing[k]) \in Sending /\ \E p \in Pipes : hw.en[p] /\ PipeFlow(p, k)

Arrival(k) == Image(Key(routing[k]), <<routing[k].phy, Channel(routing, k)>>)

\* The streams that some enabled pipe has to do with are those of a mask.
LEMMA SomeMasks ==
    ASSUME Base, FlowInv, NEW x \in Sending
    PROVE  \E k \in DOMAIN routing : x = Key(routing[k])
<1> USE DEF Base, StreamsTypeInv, TypeInv
<1>1. ASSUME NEW m, MasksOf(m), x \in m.sink PROVE \E r \in RouteSet : x = Key(r)
  BY <1>1 DEF MasksOf, SinksOf, Key
<1>2. CASE x \in ser.on
  <2>1. stage # "commit" => \E r \in RouteSet : x = Key(r)
    BY <1>1, <1>2 DEF FlowInv, SourcesInv, CallInv
  <2>2. stage = "commit" => \E r \in RouteSet : x = Key(r)
    <3> SUFFICES ASSUME stage = "commit" PROVE \E r \in RouteSet : x = Key(r)
      OBVIOUS
    <3>1. x \in NewMasks.sink
      BY <1>2 DEF FlowInv, SourcesInv, CallInv, LateStages
    <3>2. MasksOf(NewMasks)
      BY NewMasksOf DEF RestType, FlowInv
    <3> QED
      BY <1>1, <3>1, <3>2
  <2> QED
    BY <2>1, <2>2, Table
<1>3. CASE x = <<Tpg, 0>> /\ hw.tpg
  <2>1. PICK m : TpgFor(m)
    BY <1>3 DEF FlowInv, TpgInv
  <2>2. PICK r \in RouteSet : r.sink = Tpg
    BY <2>1 DEF TpgFor, Live
  <2>3. PICK k \in DOMAIN routing : r = routing[k]
    BY Table
  <2>4. routing[k].stream = 0
    BY <2>2, <2>3, Table DEF ValidRouting
  <2> QED
    BY <1>3, <2>2, <2>3, <2>4 DEF Key
<1> QED
  BY <1>2, <1>3 DEF Sending

\* What is enabled and set up for a route takes the stream of that route, and
\* sends it to the PHY and the channel of the route.
LEMMA EntersIs ==
    ASSUME Base, FlowInv, NEW p \in Pipes, NEW x \in Sending, hw.en[p],
           NEW k \in DOMAIN routing, PipeFlow(p, k)
    PROVE  /\ Enters(x, p) <=> x = Key(routing[k])
           /\ Exits(p, SentVc(Key(routing[k]))) = {<<routing[k].phy, Channel(routing, k)>>}
<1> USE DEF Base, StreamsTypeInv, TypeInv
<1> DEFINE r == routing[k]
<1>1. /\ ser.on \subseteq Enabled \X Streams /\ Tpg \notin Enabled /\ Tpg \notin Links
      /\ Enabled \subseteq Links
  BY ChipAssumption, SizesAssumption DEF SerType, Tpg, Links
<1>2. ~ hw.tunnel[p] /\ \A l \in Enabled : ser.mode[l] = "pixel"
  BY DEF FlowInv, ModeInv
<1>3. PICK j \in DOMAIN routing : x = Key(routing[j])
  BY SomeMasks
<1>4. x[1] = routing[j].sink /\ x[2] = routing[j].stream
  BY <1>3 DEF Key
<1>5. routing[j].sink = Tpg \/ routing[k].sink = Tpg => j = k
  BY Table DEF ValidRouting
<1>6. Enters(x, p) <=> x = Key(r)
  <2>1. CASE x[1] = Tpg
    BY <1>3, <1>4, <1>5, <2>1 DEF Enters
  <2>2. CASE x[1] # Tpg
    <3>1. x \in ser.on /\ x[1] \in Enabled
      BY <1>1, <2>2 DEF Sending
    <3>2. Enters(x, p) <=> ser.id[x] = hw.id[p] /\ (UniqueIds \/ hw.link[p] = x[1])
      <4>1. hw.tunnel[p] = (ser.mode[x[1]] = "tunnel")
        <5>1. hw.tunnel[p] \in BOOLEAN /\ ~ hw.tunnel[p]
          BY <1>2 DEF HwType
        <5>2. ser.mode[x[1]] = "pixel"
          BY <1>2, <3>1
        <5> QED
          BY <5>1, <5>2
      <4> QED
        BY <2>2, <4>1 DEF Enters
    <3>3. r.sink # Tpg
      BY <1>4, <1>5, <2>2
    <3>4. CASE UniqueIds
      <4>1. PICK i1 \in DOMAIN routing :
              x = Key(routing[i1]) /\ \A q \in Pipes : Carries(q, routing[i1]) <=> ser.id[x] = q
        BY <3>1, <3>4 DEF FlowInv, IdsInv
      <4>2. hw.id[p] = p
        BY <3>4 DEF FlowInv, IdsInv
      <4>3. Carries(p, routing[i1]) <=> i1 = k
        BY CarriesOnce DEF PipeFlow
      <4> QED
        BY <3>2, <3>4, <4>1, <4>2, <4>3, Table
    <3>5. CASE ~ UniqueIds
      <4>1. ser.id[x] = x[2]
        BY <1>1, <3>1, <3>5 DEF FlowInv, IdsInv
      <4>2. hw.link[p] = r.sink /\ hw.id[p] = r.stream
        BY <3>3, <3>5 DEF PipeFlow, Carries
      <4> QED
        BY <1>3, <1>4, <3>2, <3>5, <4>1, <4>2 DEF Key
    <3> QED
      BY <3>4, <3>5
  <2> QED
    BY <2>1, <2>2
<1>7. Exits(p, SentVc(Key(r))) = {<<r.phy, Channel(routing, k)>>}
  <2>1. SentVc(Key(r)) = Entry(k).src
    BY DEF SentVc, Key, Entry, SrcVc
  <2>2. {m \in hw.remap[p] : m.src = Entry(k).src} = {Entry(k)}
    BY DEF PipeFlow
  <2>3. Exits(p, Entry(k).src) = {<<m.phy, m.dst>> : m \in {Entry(k)}}
    BY <1>2, <2>2 DEF Exits
  <2>4. Entry(k).phy = r.phy /\ Entry(k).dst = Channel(routing, k)
    BY DEF Entry
  <2> QED
    BY <2>1, <2>3, <2>4
<1> QED
  BY <1>6, <1>7

LEMMA DeliveredIs ==
    ASSUME Base, FlowInv
    PROVE  /\ \A a \in Delivered : \E k \in DOMAIN routing : Flows(k) /\ a = Arrival(k)
           /\ \A k \in DOMAIN routing : Flows(k) => Arrival(k) \in Delivered
<1> USE DEF Base, StreamsTypeInv, TypeInv
<1>1. ASSUME NEW a \in Delivered
      PROVE  \E k \in DOMAIN routing : Flows(k) /\ a = Arrival(k)
  <2>1. hw.out
    BY DEF Delivered
  <2>2. PICK x \in Sending, p \in Pipes :
          Enters(x, p) /\ \E o \in Exits(p, SentVc(x)) : a = Image(x, o)
    BY <2>1 DEF Delivered
  <2>3. hw.en[p]
    BY <2>2 DEF Enters
  <2>4. PICK k \in DOMAIN routing : PipeFlow(p, k)
    BY <2>3 DEF FlowInv, PipesInv
  <2>5. x = Key(routing[k])
    BY <2>2, <2>3, <2>4, EntersIs
  <2>6. Exits(p, SentVc(x)) = {<<routing[k].phy, Channel(routing, k)>>}
    BY <2>3, <2>4, <2>5, EntersIs
  <2>7. a = Arrival(k)
    BY <2>2, <2>5, <2>6 DEF Arrival
  <2> QED
    BY <2>1, <2>3, <2>4, <2>5, <2>7 DEF Flows
<1>2. ASSUME NEW k \in DOMAIN routing, Flows(k)
      PROVE  Arrival(k) \in Delivered
  <2>1. PICK p \in Pipes : hw.en[p] /\ PipeFlow(p, k)
    BY <1>2 DEF Flows
  <2>2. PICK x \in Sending : x = Key(routing[k])
    BY <1>2 DEF Flows
  <2>3. PICK o : o = <<routing[k].phy, Channel(routing, k)>>
    OBVIOUS
  <2>4. Enters(x, p) /\ o \in Exits(p, SentVc(x))
    BY <2>1, <2>2, <2>3, EntersIs
  <2>5. o[1] \in EnabledPhys
    BY <2>3, Table, RouteOf
  <2>6. <<x, p>> \in {b \in Sending \X Pipes : Enters(b[1], b[2])}
    BY <2>4
  <2>7. o \in {e \in Exits(p, SentVc(x)) : e[1] \in EnabledPhys}
    BY <2>4, <2>5
  <2>8. Image(x, o) \in Delivered
    <3>1. Image(x, o) \in {Image(x, u) : u \in {e \in Exits(p, SentVc(x)) : e[1] \in EnabledPhys}}
      BY <2>7
    <3> DEFINE G(c) == {Image(c[1], u) : u \in {e \in Exits(c[2], SentVc(c[1])) : e[1] \in EnabledPhys}}
    <3>2. PICK c : c = <<x, p>>
      OBVIOUS
    <3>3. c[1] = x /\ c[2] = p /\ c \in {b \in Sending \X Pipes : Enters(b[1], b[2])}
      BY <2>6, <3>2
    <3>4. Image(x, o) \in G(c)
      BY <3>1, <3>3
    <3> HIDE DEF G
    <3>5. Image(x, o) \in UNION {G(b) : b \in {b \in Sending \X Pipes : Enters(b[1], b[2])}}
      BY <3>3, <3>4
    <3>6. hw.out
      BY <1>2 DEF Flows
    <3> QED
      BY <3>5, <3>6 DEF G, Delivered
  <2> QED
    BY <2>2, <2>3, <2>8 DEF Arrival
<1> QED
  BY <1>1, <1>2

----------------------------------------------------------------------------
(* The invariant holds as long as no call has failed *)

LEMMA BaseInit == StreamsInit => Base
<1> SUFFICES ASSUME StreamsInit PROVE Base
  OBVIOUS
<1>1. Init
  BY DEF StreamsInit
<1>2. StreamsTypeInv
  BY StreamsTypeInit
<1>3. AssignInv
  BY <1>1 DEF Init, AllFree, AssignInv, PipeNotShared, LowestPipeSpeaks
<1>4. MappedInv /\ PixelInv /\ ChannelInv /\ PlanInv
  BY <1>1 DEF Init, MappedInv, OneStreamPerPipe, PixelInv, ChannelInv, PlanInv
<1> QED
  BY <1>2, <1>3, <1>4 DEF Base

LEMMA FlowInit == StreamsInit => FlowInv
<1> SUFFICES ASSUME StreamsInit PROVE FlowInv
  OBVIOUS
<1>0. /\ Init /\ sw = SwInit /\ hw = HwReset /\ ser = SerInit /\ call = NoCall
      /\ stage = "off" /\ asleep = FALSE /\ pc = "idle" /\ fresh = FALSE
  BY DEF StreamsInit, Init
<1>1. stage \notin ErrorStages
  BY <1>0 DEF ErrorStages
<1>2. CallInv
  BY <1>0 DEF CallInv, MasksOf, SwInit, Off, SinksOf
<1>3. \A p \in Pipes : ~ Updated(p)
  BY <1>0 DEF Updated
<1>4. /\ \A p \in Pipes : /\ hw.en[p] = FALSE /\ sw.en[p] = FALSE /\ sw.known[p] = FALSE
                          /\ hw.tunnel[p] = FALSE
      /\ ser.on = {} /\ hw.tpg = FALSE /\ sw.tpg = FALSE /\ hw.out = FALSE /\ sw.active = FALSE
      /\ sw.on = Off
  BY <1>0 DEF HwReset, SwInit, SerInit
<1>5. CacheInv
  BY <1>4 DEF CacheInv, CacheAt, SwInit, Updated
<1>6. ModeInv /\ SourcesInv
  BY <1>0, <1>4 DEF ModeInv, SourcesInv, LateStages, SerInit
<1>7. TpgInv
  BY <1>0, <1>4 DEF TpgInv, TpgFor, Live, Off
<1>8. OutInv
  BY <1>0, <1>4 DEF OutInv
<1>9. IdsInv
  <2>1. \A x \in Enabled \X Streams : ser.id[x] = x[2]
    BY <1>0 DEF SerInit
  <2>2. UniqueIds => \A p \in Pipes : sw.id[p] = p /\ hw.id[p] = p
    BY <1>0 DEF SwInit, HwReset
  <2> QED
    BY <1>0, <1>4, <2>1, <2>2 DEF IdsInv, LateStages
<1>10. PipesInv
  BY <1>3, <1>4 DEF PipesInv
<1> QED
  BY <1>1, <1>2, <1>5, <1>6, <1>7, <1>8, <1>9, <1>10, ActiveInit DEF FlowInv

\* Failing calls are counted.
LEMMA FaultsCounted ==
    ASSUME StreamsTypeInv, [StreamsNext]_allVars
    PROVE  faults' = 0 => faults = 0 /\ ~ Fault
<1>1. faults \in Nat
  BY Bounds DEF StreamsTypeInv, RestType
<1>2. Fault => faults' # 0
  BY <1>1 DEF Fault
<1>3. faults' = faults \/ Fault
  BY DEF StreamsNext, ChangeRouting, RerouteSerializer, StartGetDesc, EndGetDesc, StartUpdate,
         PopulateStep, Reject, Suspend, Resume, allVars, own, HandlerStep, StartWrites, SetPipePhy,
         PhysDone, SetPipeTunnel, SetSerModes, SetModes, SetPipeStreamId, IdsDone, DisableSources,
         StopOutput, UpdateLinks, LinksDone, SetTpg, StartOutput, EnableSources, Commit,
         UndoActiveEnable, UndoTpg, UndoLinks, UndoLinksDone, UndoPipe, UndoDone,
         UndoActiveDisable, UndoSources, GiveUp, UpdateActive, UpdatePipe, UpdateTpg, NoFault
<1> QED
  BY <1>2, <1>3

LEMMA FlowStep ==
    ASSUME Base, ChipSelects, FlowInv, [StreamsNext]_allVars, ~ Fault
    PROVE  FlowInv'
<1>1. Faultless /\ StreamsTypeInv
  BY DEF Faultless, FlowInv, Base
<1>2. ActiveInv'
  BY <1>1, ActiveStep DEF FlowInv
<1> QED
  BY <1>1, <1>2, NoErrorStep, CallStep, CacheStep, ModeStep, SourcesStep, TpgStep, OutStep,
     IdsStep, PipesStep DEF FlowInv

FlowSafe == faults = 0 => FlowInv

LEMMA FlowCorrect ==
    ASSUME PixelOnly, ChipSelects
    PROVE  StreamsSpec => [](Base /\ FlowSafe)
<1>1. StreamsSpec => []Base
  <2>1. TypeInv /\ PlanInv /\ TypeInv /\ AssignInv /\ MappedInv /\ PixelInv /\ ChannelInv
        /\ StreamsTypeInv => Base
    BY DEF Base
  <2> QED
    BY <2>1, StreamsTypeCorrect, StreamsComputeRemaps, PlanCorrect, ChannelsCorrect, PTL
<1>2. StreamsInit => FlowSafe
  BY FlowInit DEF FlowSafe
<1>3. Base /\ FlowSafe /\ [StreamsNext]_allVars => FlowSafe'
  BY FaultsCounted, FlowStep DEF Base, FlowSafe
<1> QED
  BY <1>1, <1>2, <1>3, PTL DEF StreamsSpec

LEMMA ArrivalIs ==
    ASSUME NEW k \in DOMAIN routing
    PROVE  /\ Arrival(k).sink = routing[k].sink /\ Arrival(k).stream = routing[k].stream
           /\ Arrival(k).phy = routing[k].phy /\ Arrival(k).vc = Channel(routing, k)
BY DEF Arrival, Image, Key

LEMMA FlowsApart == ASSUME Base, FlowInv PROVE NoCollision
<1> USE DEF Base, StreamsTypeInv, TypeInv
<1> SUFFICES ASSUME NEW a \in Delivered, NEW b \in Delivered, a.phy = b.phy, a.vc = b.vc
             PROVE  <<a.sink, a.stream>> = <<b.sink, b.stream>>
  BY DEF NoCollision
<1>1. PICK j \in DOMAIN routing : Flows(j) /\ a = Arrival(j)
  BY DeliveredIs
<1>2. PICK k \in DOMAIN routing : Flows(k) /\ b = Arrival(k)
  BY DeliveredIs
<1>3. routing \in Seq(Route) /\ DOMAIN routing = 1 .. Len(routing) /\ Len(routing) \in Nat
  BY Table, RouteType
<1>4. HasChannels(routing)
  BY <1>1 DEF Flows, PipeFlow
<1>5. routing[j].phy = routing[k].phy /\ Channel(routing, j) = Channel(routing, k)
  BY <1>1, <1>2, ArrivalIs
<1>6. ~ j < k /\ ~ k < j
  BY <1>3, <1>4, <1>5, ChannelsDiffer
<1>7. j = k
  BY <1>3, <1>6
<1> QED
  BY <1>1, <1>2, <1>7

(* Two streams never leave on one virtual channel of one PHY, at no step   *)
(* of an update and after any number of suspends: an enabled pipe lets in  *)
(* one stream, which a remap entry sends to the channel its route has in   *)
(* the table, and the routes of a PHY have different channels.  The        *)
(* sources of a mask that is given up are off before the pipes change.     *)
THEOREM ArrivalsNeverCollide ==
    ASSUME PixelOnly, ChipSelects
    PROVE  StreamsSpec => [](faults = 0 => NoCollision)
<1>1. Base /\ FlowSafe => (faults = 0 => NoCollision)
  BY FlowsApart DEF FlowSafe
<1> QED
  BY <1>1, FlowCorrect, PTL

----------------------------------------------------------------------------
(* What an update that succeeds leaves *)

\* At the end of an update every pipe is updated and the output is on if it is
\* to be, so the streams that send are the ones that flow.
LEMMA CommitFlows ==
    ASSUME Base, FlowInv, At("commit"), NEW k \in DOMAIN routing
    PROVE  /\ Flows(k) <=> Key(routing[k]) \in call.masks.sink /\ Key(routing[k]) \in Sending
           /\ Flows(k) => hw.out
<1> USE DEF Base, StreamsTypeInv, TypeInv
<1>1. /\ stage = "commit" /\ fresh /\ pc = "populated"
      /\ \A p \in Pipes : Updated(p) /\ MasksAt(p) = call.masks.sink
  BY DEF At, RestType, Updated, MasksAt
<1>2. MasksOf(call.masks)
  BY <1>1, NewMasksOf DEF FlowInv, CallInv
<1>3. ASSUME Flows(k) PROVE Key(routing[k]) \in call.masks.sink
  <2>1. PICK p \in Pipes : hw.en[p] /\ PipeFlow(p, k)
    BY <1>3 DEF Flows
  <2>2. PICK j \in DOMAIN routing : Key(routing[j]) \in call.masks.sink /\ PipeFlow(p, j)
    BY <1>1, <2>1 DEF FlowInv, PipesInv
  <2>3. j = k
    BY <2>1, <2>2, CarriesOnce DEF PipeFlow
  <2> QED
    BY <2>2, <2>3
<1>4. ASSUME Key(routing[k]) \in call.masks.sink, Key(routing[k]) \in Sending PROVE Flows(k)
  <2>1. PICK p \in Pipes : Carries(p, routing[k])
    BY <1>1, CarrierExists
  <2>2. hw.en[p]
    BY <1>1, <1>4, <2>1 DEF FlowInv, PipesInv
  <2>3. PICK j \in DOMAIN routing : PipeFlow(p, j)
    BY <1>1, <2>2 DEF FlowInv, PipesInv
  <2>4. j = k
    BY <2>1, <2>3, CarriesOnce DEF PipeFlow
  <2>5. Act(call.masks)
    BY <1>2, <1>4 DEF MasksOf, SinksOf, Act
  <2>6. hw.out
    BY <1>1, <2>5 DEF FlowInv, OutInv
  <2> QED
    BY <1>4, <2>2, <2>3, <2>4, <2>6 DEF Flows
<1> QED
  BY <1>3, <1>4 DEF Flows

LEMMA ChosenVc ==
    ASSUME Base, pc = "populated", NEW k \in DOMAIN routing
    PROVE  (CHOOSE v \in Vcs : \E p \in Pipes : CarriedBy(routing[k], p) /\ v = DstVc(p, routing[k]))
             = Channel(routing, k)
<1> USE DEF Base, StreamsTypeInv
<1> DEFINE r == routing[k]
<1>1. /\ \E p \in Pipes : CarriedBy(r, p)
      /\ Channel(routing, k) \in Vcs
      /\ \A p \in Pipes : CarriedBy(r, p) =>
           \A v \in Vcs : [pipe |-> p, phy |-> r.phy, src |-> SrcVc(r), dst |-> v] \in vcMap
                            <=> v = Channel(routing, k)
  BY DstVcIs
<1>2. ASSUME NEW p \in Pipes, CarriedBy(r, p) PROVE DstVc(p, r) = Channel(routing, k)
  BY <1>1, <1>2 DEF DstVc
<1>3. \A v \in Vcs : (\E p \in Pipes : CarriedBy(r, p) /\ v = DstVc(p, r)) <=> v = Channel(routing, k)
  BY <1>1, <1>2
<1> QED
  BY <1>1, <1>3

LEMMA PromisedIs ==
    ASSUME Base, fresh, pc = "populated", NEW masks
    PROVE  Promised(masks) = {Arrival(k) : k \in {j \in DOMAIN routing :
              Key(routing[j]) \in masks.sink /\ Key(routing[j]) \in Sending}}
<1> USE DEF Base, StreamsTypeInv, TypeInv
<1> DEFINE V(r) == CHOOSE v \in Vcs : \E p \in Pipes : CarriedBy(r, p) /\ v = DstVc(p, r)
           R == {x \in Live(masks) : <<x.sink, x.stream>> \in Sending}
           K == {j \in DOMAIN routing :
                   Key(routing[j]) \in masks.sink /\ Key(routing[j]) \in Sending}
           I(r) == Image(<<r.sink, r.stream>>, <<r.phy, V(r)>>)
<1>1. \A k \in DOMAIN routing : I(routing[k]) = Arrival(k)
  BY ChosenVc DEF Arrival, Key
<1>2. \A r \in R : \E k \in K : r = routing[k]
  <2> TAKE r \in R
  <2>1. r \in RouteSet /\ Key(r) \in masks.sink /\ Key(r) \in Sending
    BY DEF Live, Key
  <2>2. PICK k \in DOMAIN routing : r = routing[k]
    BY <2>1, Table
  <2> QED
    BY <2>1, <2>2
<1>3. \A k \in K : routing[k] \in R
  BY Table DEF Live, Key
<1>4. Promised(masks) = {I(r) : r \in R}
  BY DEF Promised
<1>5. K \subseteq DOMAIN routing
  OBVIOUS
<1> HIDE DEF I, R, K
<1>6. {I(r) : r \in R} = {Arrival(k) : k \in K}
  BY <1>1, <1>2, <1>3, <1>5
<1> QED
  BY <1>4, <1>6 DEF K

LEMMA FlowsDelivered == ASSUME Base, FlowInv PROVE CommitDelivers
<1> USE DEF Base, StreamsTypeInv, TypeInv
<1> SUFFICES ASSUME At("commit") PROVE Delivered = Promised(call.masks)
  BY DEF CommitDelivers
<1> DEFINE K == {j \in DOMAIN routing :
                   Key(routing[j]) \in call.masks.sink /\ Key(routing[j]) \in Sending}
<1>1. fresh /\ pc = "populated"
  BY DEF At, RestType
<1>2. Promised(call.masks) = {Arrival(k) : k \in K}
  BY <1>1, PromisedIs
<1>3. \A k \in DOMAIN routing : k \in K <=> Flows(k)
  BY CommitFlows
<1>4. K \subseteq DOMAIN routing
  OBVIOUS
<1> HIDE DEF K
<1>5. \A a \in Delivered : \E k \in K : a = Arrival(k)
  BY <1>3, DeliveredIs
<1>6. \A k \in K : Arrival(k) \in Delivered
  BY <1>3, <1>4, DeliveredIs
<1>7. {Arrival(k) : k \in K} = Delivered
  BY <1>5, <1>6
<1> QED
  BY <1>2, <1>7

(* Whatever routings, cameras, enables, disables and suspends came before, *)
(* an update that succeeds leaves at the receiver exactly the streams that *)
(* are on and send, each on its PHY and virtual channel: each pipe has     *)
(* been compared with, or written to, what the new masks want, and what is *)
(* skipped is what the caches, which tell the truth, say is there.         *)
THEOREM UpdatesDeliver ==
    ASSUME PixelOnly, ChipSelects
    PROVE  StreamsSpec => [](faults = 0 => CommitDelivers)
<1>1. Base /\ FlowSafe => (faults = 0 => CommitDelivers)
  BY FlowsDelivered DEF FlowSafe
<1> QED
  BY <1>1, FlowCorrect, PTL

LEMMA LinksMatch == ASSUME Base, FlowInv PROVE PipeLinkMatches
<1> USE DEF Base, StreamsTypeInv, TypeInv
<1> SUFFICES ASSUME At("commit"), ~ UniqueIds, NEW p \in Pipes, hw.en[p]
             PROVE  hw.link[p] = linkOf[p]
  BY DEF PipeLinkMatches
<1>1. fresh /\ pc = "populated"
  BY DEF At, RestType
<1>2. linkOf = FinalPlan(routing)[1]
  BY <1>1, PlanIsFinal DEF AssignmentFollowsTable
<1>3. PICK k \in DOMAIN routing : PipeFlow(p, k)
  BY DEF FlowInv, PipesInv
<1> QED
  BY <1>2, <1>3 DEF PipeFlow

(* The link and stream id registers of a pipe that is on never disagree    *)
(* with the assignment of an update that succeeds, although both registers *)
(* are only written when the pipe is turned on: the same table assigns the *)
(* same link to the pipe for as long as the pipe may stay on.              *)
THEOREM PipesKeepTheirLinks ==
    ASSUME PixelOnly, ChipSelects
    PROVE  StreamsSpec => [](faults = 0 => PipeLinkMatches)
<1>1. Base /\ FlowSafe => (faults = 0 => PipeLinkMatches)
  BY LinksMatch DEF FlowSafe
<1> QED
  BY <1>1, FlowCorrect, PTL

LEMMA CachesMatch == ASSUME Base, FlowInv PROVE CachesSound
<1> USE DEF Base, StreamsTypeInv, TypeInv
<1> SUFFICES ASSUME Idle, ~ sw.pending
             PROVE  /\ \A p \in Pipes : sw.known[p] => hw.remap[p] = sw.remap[p]
                    /\ hw.en = sw.en /\ hw.tpg = sw.tpg /\ hw.out = sw.active
  BY DEF CachesSound
<1>1. ~ asleep
  BY DEF Idle
<1>2. \A p \in Pipes : hw.en[p] = sw.en[p] /\ (sw.known[p] => hw.remap[p] = sw.remap[p])
  BY <1>1 DEF FlowInv, CacheInv, CacheAt
<1>3. hw.en = sw.en
  BY <1>2 DEF SwType, HwType
<1>4. \A x, y \in BOOLEAN : (x <=> y) => x = y
  OBVIOUS
<1>5. hw.tpg \in BOOLEAN /\ sw.tpg \in BOOLEAN /\ (hw.tpg <=> sw.tpg)
  BY <1>1 DEF FlowInv, TpgInv, SwType, HwType
<1>6. hw.out \in BOOLEAN /\ sw.active \in BOOLEAN /\ (hw.out <=> sw.active)
  BY <1>1 DEF FlowInv, OutInv, SwType, HwType
<1>7. hw.tpg = sw.tpg
  BY <1>4, <1>5, Zenon
<1>8. hw.out = sw.active
  BY <1>4, <1>6, Zenon
<1> QED
  BY <1>2, <1>3, <1>7, <1>8

(* Between calls the caches that let the driver skip writes tell the truth *)
(* of the registers, unless a resume has marked them all.                  *)
THEOREM CachesTellTheTruth ==
    ASSUME PixelOnly, ChipSelects
    PROVE  StreamsSpec => [](faults = 0 => CachesSound)
<1>1. Base /\ FlowSafe => (faults = 0 => CachesSound)
  BY CachesMatch DEF FlowSafe
<1> QED
  BY <1>1, FlowCorrect, PTL

----------------------------------------------------------------------------
(* Frame descriptors *)

DescInv == \A q \in desc : \A k \in DOMAIN routing :
    routing[k].phy = q.phy /\ routing[k].source = q.source => q.vc = Channel(routing, k)

LEMMA DescStep ==
    ASSUME Base, DescInv, [StreamsNext]_allVars
    PROVE  DescInv'
<1> USE DEF Base, StreamsTypeInv, TypeInv
<1>1. CASE EndGetDesc
  <2>1. routing' = routing
    BY <1>1 DEF EndGetDesc, Return, input, assign
  <2>2. CASE pc = "failed"
    <3>1. desc' \subseteq desc
      BY <1>1, <2>2 DEF EndGetDesc
    <3> QED
      BY <2>1, <3>1 DEF DescInv
  <2>3. CASE pc = "populated"
    <3> SUFFICES ASSUME NEW q \in desc', NEW k \in DOMAIN routing,
                        routing[k].phy = q.phy, routing[k].source = q.source
                 PROVE  q.vc = Channel(routing, k)
      BY <2>1 DEF DescInv
    <3>1. CASE q \in desc
      BY <3>1 DEF DescInv
    <3>2. CASE q \notin desc
      <4>1. PICK r \in RouteSet : q = [phy |-> r.phy, source |-> r.source, vc |-> DescVc(r)]
        BY <1>1, <2>3, <3>2 DEF EndGetDesc
      <4>2. q.phy = r.phy /\ q.source = r.source /\ q.vc = DescVc(r)
        BY <4>1
      <4>3. r = routing[k]
        BY <4>2, Table, RoutesDiffer
      <4>4. DescVc(r) = Channel(routing, k)
        BY <2>3, <4>3, ChosenVc DEF DescVc
      <4> QED
        BY <4>2, <4>4
    <3> QED
      BY <3>1, <3>2
  <2> QED
    BY <1>1, <2>2, <2>3 DEF EndGetDesc
<1>2. CASE ChangeRouting \/ RerouteSerializer
  BY <1>2 DEF ChangeRouting, RerouteSerializer, DescInv
<1>3. CASE ~ EndGetDesc /\ ~ ChangeRouting /\ ~ RerouteSerializer
  <2>1. routing' = routing
    BY <1>3, InputFrames
  <2>2. desc' = desc
    BY <1>3 DEF StreamsNext, StartGetDesc, StartUpdate,
         PopulateStep, Reject, Suspend, Resume, allVars, own, HandlerStep, StartWrites, SetPipePhy,
         PhysDone, SetPipeTunnel, SetSerModes, SetModes, SetPipeStreamId, IdsDone, DisableSources,
         StopOutput, UpdateLinks, LinksDone, SetTpg, StartOutput, EnableSources, Commit,
         UndoActiveEnable, UndoTpg, UndoLinks, UndoLinksDone, UndoPipe, UndoDone,
         UndoActiveDisable, UndoSources, GiveUp, UpdateActive, UpdatePipe, UpdateTpg, Quiet
  <2> QED
    BY <2>1, <2>2 DEF DescInv
<1> QED
  BY <1>1, <1>2, <1>3

LEMMA DescMatches == ASSUME Base, FlowInv, DescInv PROVE FrameDescKept
<1> USE DEF Base, StreamsTypeInv, TypeInv
<1> SUFFICES ASSUME NEW q \in desc, NEW r \in RouteSet, NEW a \in Delivered,
                    r.phy = q.phy, r.source = q.source,
                    <<a.sink, a.stream>> = <<r.sink, r.stream>>
             PROVE  a.vc = q.vc
  BY DEF FrameDescKept
<1>1. PICK j \in DOMAIN routing : a = Arrival(j)
  BY DeliveredIs
<1>2. PICK k \in DOMAIN routing : r = routing[k]
  BY Table
<1>3. Key(routing[j]) = Key(routing[k])
  BY <1>1, <1>2, ArrivalIs DEF Key
<1>4. j = k
  BY <1>3, Table
<1> QED
  BY <1>1, <1>2, <1>4, ArrivalIs DEF DescInv

(* A stream arrives on the virtual channel that the last frame descriptor  *)
(* of its PHY told, although the descriptor is computed without a reset of *)
(* the pipe assignments and the update after one: the channels of a table  *)
(* do not depend on which pipes carry its routes.                          *)
THEOREM FrameDescsStayTrue ==
    ASSUME PixelOnly, ChipSelects
    PROVE  StreamsSpec => [](faults = 0 => FrameDescKept)
<1>1. StreamsInit => DescInv
  BY DEF StreamsInit, DescInv
<1>2. Base /\ DescInv /\ [StreamsNext]_allVars => DescInv'
  BY DescStep
<1>3. Base /\ FlowSafe /\ DescInv => (faults = 0 => FrameDescKept)
  BY DescMatches DEF FlowSafe
<1> QED
  BY <1>1, <1>2, <1>3, FlowCorrect, PTL DEF StreamsSpec

----------------------------------------------------------------------------
(* The streams an update is not about *)

LEMMA UpdateKeepsRouting ==
    ASSUME Base, FlowInv, [StreamsNext]_allVars, Faultless, stage # "off" \/ stage' # "off"
    PROVE  /\ routing' = routing /\ ~ Suspend /\ ~ Resume /\ ~ ChangeRouting
           /\ fresh /\ pc # "idle"
<1> USE DEF Base, StreamsTypeInv
<1>1. CASE stage # "off"
  <2>1. pc = "populated" /\ fresh /\ pc # "idle"
    BY <1>1 DEF RestType
  <2>2. ~ asleep
    BY <2>1 DEF FlowInv, CallInv
  <2>3. ~ ChangeRouting /\ ~ Suspend
    BY <1>1 DEF ChangeRouting, Suspend, Idle
  <2> QED
    BY <1>1, <2>1, <2>2, <2>3, InputFrames DEF Resume
<1>2. CASE stage = "off" /\ stage' # "off"
  <2>1. StartWrites
    BY <1>2, StageFrames
  <2> QED
    BY <1>2, <2>1 DEF StartWrites, Quiet, vars, input, Suspend, Resume, ChangeRouting, SetRouting, Idle
<1> QED
  BY <1>1, <1>2

\* A running stream the call is not about is one the new masks keep.
LEMMA SiblingStaysOn ==
    ASSUME Base, FlowInv, NEW k \in DOMAIN routing, NEW p \in Pipes, hw.en[p], PipeFlow(p, k),
           Key(routing[k]) \notin SinksOf(Requested), stage # "off"
    PROVE  /\ Key(routing[k]) \in call.masks.sink
           /\ Act(call.masks)
<1> USE DEF Base, StreamsTypeInv, TypeInv
<1>1. fresh /\ pc # "idle"
  BY DEF RestType
<1>2. PICK j \in DOMAIN routing : Key(routing[j]) \in MasksAt(p) /\ PipeFlow(p, j)
  BY DEF FlowInv, PipesInv
<1>3. j = k
  BY <1>2, CarriesOnce DEF PipeFlow
<1>4. call.masks = NewMasks /\ MasksOf(NewMasks)
  BY <1>1, NewMasksOf DEF FlowInv, CallInv
<1>5. sw.on.sink \ SinksOf(Requested) \subseteq NewMasks.sink
  BY DEF NewMasks
<1>6. Key(routing[k]) \in call.masks.sink
  BY <1>2, <1>3, <1>4, <1>5 DEF MasksAt
<1> QED
  BY <1>4, <1>6 DEF MasksOf, SinksOf, Act

LEMMA SiblingOutput ==
    ASSUME Base, FlowInv, [StreamsNext]_allVars, Faultless, stage # "off" \/ stage' # "off",
           stage # "off" => Act(call.masks), hw.out
    PROVE  hw'.out
<1> USE DEF Base, StreamsTypeInv, TypeInv
<1>1. CASE StopOutput
  <2>1. UpdateActive(call.masks, FALSE, "links", "revSrc") /\ stage = "actOff"
    BY <1>1 DEF StopOutput, At
  <2>2. PICK e \in BOOLEAN : e = FALSE /\ UpdateActive(call.masks, e, "links", "revSrc")
    BY <2>1
  <2>3. ~ (Act(call.masks) <=> e) => sw' = sw /\ hw' = hw
    BY <2>2, OutputEffect
  <2> QED
    BY <2>1, <2>2, <2>3
<1>2. CASE StartOutput
  <2>1. UpdateActive(call.masks, TRUE, "srcOn", "revTpg") /\ stage = "actOn"
    BY <1>2 DEF StartOutput, At
  <2>2. PICK e \in BOOLEAN : e = TRUE /\ UpdateActive(call.masks, e, "srcOn", "revTpg")
    BY <2>1
  <2>3. Act(call.masks) <=> e =>
                 \/ (hw'.out <=> e) /\ (sw'.active <=> e)
                 \/ ~ sw.pending /\ (sw.active <=> e) /\ sw' = sw /\ hw' = hw
    BY <2>2, OutputEffect
  <2> QED
    BY <2>1, <2>2, <2>3
<1>3. CASE ~ StopOutput /\ ~ StartOutput
  BY <1>3, UpdateKeepsRouting, HwFrames
<1> QED
  BY <1>1, <1>2, <1>3

LEMMA SiblingSends ==
    ASSUME Base, FlowInv, [StreamsNext]_allVars, Faultless, stage # "off" \/ stage' # "off",
           NEW k \in DOMAIN routing, Key(routing[k]) \in Sending,
           Key(routing[k]) \notin SinksOf(Requested),
           stage # "off" => Key(routing[k]) \in call.masks.sink
    PROVE  Key(routing[k]) \in Sending'
<1> USE DEF Base, StreamsTypeInv, TypeInv
<1> DEFINE x == Key(routing[k])
<1>1. CASE x \in ser.on
  <2>1. CASE DisableSources
    <3>1. ser' = [ser EXCEPT !.on = @ \ SourceStreams]
      BY <2>1 DEF DisableSources, Faultless
    <3>2. SourceStreams \subseteq SinksOf(Requested)
      BY DEF SourceStreams, SinksOf
    <3> QED
      BY <1>1, <3>1, <3>2 DEF SerType, Sending
  <2>2. CASE EnableSources
    <3>1. ser' = [ser EXCEPT !.on = @ \cup SourceStreams] \/ ser' = ser
      BY <2>2 DEF EnableSources
    <3> QED
      BY <1>1, <3>1 DEF SerType, Sending
  <2>3. CASE ~ DisableSources /\ ~ EnableSources
    BY <1>1, <2>3, UpdateKeepsRouting, SerFrames DEF Sending
  <2> QED
    BY <2>1, <2>2, <2>3
<1>2. CASE x \notin ser.on
  <2>1. hw.tpg /\ x = <<Tpg, 0>>
    BY <1>2 DEF Sending
  <2>2. hw'.tpg
    <3>1. CASE SetTpg
      <4>1. stage = "tpg" /\ x \in call.masks.sink
        BY <3>1 DEF SetTpg, At
      <4>2. TpgFor(call.masks)
        BY <2>1, <4>1, Table DEF TpgFor, Live, Key
      <4>3. PICK b \in BOOLEAN : b = TpgFor(call.masks)
        BY DEF TpgFor
      <4>4. hw' = hw \/ hw' = [hw EXCEPT !.tpg = b]
        BY <3>1, <4>3 DEF SetTpg, UpdateTpg
      <4> QED
        BY <2>1, <4>2, <4>3, <4>4 DEF HwType
    <3>2. CASE ~ SetTpg
      BY <2>1, <3>2, UpdateKeepsRouting, HwFrames
    <3> QED
      BY <3>1, <3>2
  <2> QED
    BY <2>1, <2>2 DEF Sending
<1> QED
  BY <1>1, <1>2

LEMMA SiblingPipe ==
    ASSUME Base, FlowInv, [StreamsNext]_allVars, Faultless, stage # "off" \/ stage' # "off",
           FlowInv', NEW k \in DOMAIN routing, NEW p \in Pipes, hw.en[p], PipeFlow(p, k),
           stage # "off" => Key(routing[k]) \in call.masks.sink
    PROVE  hw'.en[p] /\ PipeFlow(p, k)'
<1> USE DEF Base, StreamsTypeInv, TypeInv
<1>1. routing' = routing
  BY UpdateKeepsRouting
<1>2. Carries(p, routing[k])' <=> Carries(p, routing[k])
  BY <1>1 DEF Carries
<1>3. hw'.en[p]
  <2>1. CASE UpdateLinks
    <3>1. PICK q \in Pipes :
             /\ q \notin call.done /\ stage = "links" /\ stage' = stage
             /\ call'.done = call.done \cup {q}
             /\ \A o \in Pipes : o # q => SamePipe(o)
      BY <2>1, PipeUpdated
    <3>2. CASE p # q
      BY <3>1, <3>2 DEF SamePipe
    <3>3. CASE p = q
      <4>1. Updated(p)'
        BY <3>1, <3>3 DEF Updated
      <4>2. call'.masks = call.masks
        BY <3>1, CallFrames
      <4>3. Key(routing'[k]) \in call'.masks.sink
        BY <1>1, <3>1, <4>2
      <4>4. Carries(p, routing'[k])
        BY <1>1 DEF PipeFlow
      <4> QED
        BY <1>1, <4>1, <4>3, <4>4, <1>2 DEF FlowInv, PipesInv, PipeFlow
    <3> QED
      BY <3>2, <3>3
  <2>2. CASE ~ UpdateLinks
    BY <2>2, UpdateKeepsRouting, HwFrames
  <2> QED
    BY <2>1, <2>2
<1>4. PICK j \in DOMAIN routing : PipeFlow(p, j)'
  BY <1>1, <1>3 DEF FlowInv, PipesInv
<1>5. Carries(p, routing[j])
  BY <1>1, <1>4 DEF PipeFlow, Carries
<1>6. j = k
  BY <1>5, CarriesOnce DEF PipeFlow
<1> QED
  BY <1>3, <1>4, <1>6

LEMMA SiblingStep ==
    ASSUME Base, FlowInv, FlowInv', [StreamsNext]_allVars, ~ Fault,
           stage # "off" \/ stage' # "off",
           NEW k \in DOMAIN routing, Flows(k), Key(routing[k]) \notin SinksOf(Requested)
    PROVE  Flows(k)'
<1>1. Faultless
  BY DEF Faultless, FlowInv
<1>2. PICK p \in Pipes : hw.en[p] /\ PipeFlow(p, k)
  BY DEF Flows
<1>3. stage # "off" => Key(routing[k]) \in call.masks.sink /\ Act(call.masks)
  BY <1>2, SiblingStaysOn
<1>4. hw'.out /\ Key(routing[k]) \in Sending' /\ hw'.en[p] /\ PipeFlow(p, k)'
  BY <1>1, <1>2, <1>3, SiblingOutput, SiblingSends, SiblingPipe DEF Flows
<1>5. routing' = routing
  BY <1>1, UpdateKeepsRouting
<1>6. Key(routing[k])' = Key(routing[k])
  BY <1>5 DEF Key
<1> QED
  BY <1>4, <1>6 DEF Flows

\* One direction of DeliveredIs, as a formula of the state.
FlowsArrive == \A k \in DOMAIN routing : Flows(k) => Arrival(k) \in Delivered

LEMMA SiblingArrives ==
    ASSUME Base, FlowInv, FlowInv', FlowsArrive', [StreamsNext]_allVars, ~ Fault,
           stage # "off" \/ stage' # "off",
           NEW a \in Delivered, <<a.sink, a.stream>> \notin SinksOf(Requested)
    PROVE  a \in Delivered'
<1>1. PICK k \in DOMAIN routing : Flows(k) /\ a = Arrival(k)
  BY DeliveredIs
<1>2. <<a.sink, a.stream>> = Key(routing[k])
  BY <1>1, ArrivalIs DEF Key
<1>3. Flows(k)'
  BY <1>1, <1>2, SiblingStep
<1>4. routing' = routing
  BY UpdateKeepsRouting DEF Faultless, FlowInv
<1>5. Arrival(k)' \in Delivered'
  BY <1>3, <1>4 DEF FlowsArrive
<1>6. Arrival(k)' = Arrival(k)
  BY <1>4 DEF Arrival, Key
<1> QED
  BY <1>1, <1>5, <1>6

LEMMA NoFaults == ASSUME MaxFaults = 0, Base PROVE faults = 0 /\ ~ Fault
BY DEF Base, StreamsTypeInv, RestType, Fault

(* An update, successful or not, does not interrupt the streams it is not  *)
(* about, at any of its steps: their sources are not stopped, the output   *)
(* stays on while a mask has one, and the pipe that carries them is turned *)
(* on again, or was never turned off, when its registers are rewritten.    *)
THEOREM SiblingsKeepFlowing ==
    ASSUME PixelOnly, ChipSelects, MaxFaults = 0
    PROVE  StreamsSpec => SiblingsFlow
<1> DEFINE Step == \A a \in Delivered :
              (stage # "off" \/ stage' # "off") /\ <<a.sink, a.stream>> \notin SinksOf(Requested)
                => a \in Delivered'
<1>1. Base /\ FlowSafe => FlowInv /\ FlowsArrive
  BY NoFaults, DeliveredIs DEF FlowSafe, FlowsArrive
<1>2. Base /\ FlowInv /\ FlowInv' /\ FlowsArrive' /\ [StreamsNext]_allVars => [Step]_allVars
  BY NoFaults, SiblingArrives
<1> HIDE DEF Step
<1>3. StreamsSpec => [][Step]_allVars
  BY <1>1, <1>2, FlowCorrect, PTL DEF StreamsSpec
<1> QED
  BY <1>3 DEF Step, SiblingsFlow

----------------------------------------------------------------------------
(* The abstract switch *)

\* The streams that flow, without a word of remap tables and channels.
Runs(k) ==
    hw.out /\ Key(routing[k]) \in Sending /\ \E p \in Pipes : hw.en[p] /\ Carries(p, routing[k])
Flowing == {Key(routing[k]) : k \in {j \in DOMAIN routing : Runs(j)}}
Asked   == IF stage = "off" THEN {} ELSE SinksOf(Requested)

LEMMA FlowsRun ==
    ASSUME Base, FlowInv, NEW k \in DOMAIN routing
    PROVE  Flows(k) <=> Runs(k)
<1> USE DEF Base, StreamsTypeInv, TypeInv
<1>1. Flows(k) => Runs(k)
  BY DEF Flows, Runs, PipeFlow
<1>2. ASSUME Runs(k) PROVE Flows(k)
  <2>1. PICK p \in Pipes : hw.en[p] /\ Carries(p, routing[k])
    BY <1>2 DEF Runs
  <2>2. PICK j \in DOMAIN routing : PipeFlow(p, j)
    BY <2>1 DEF FlowInv, PipesInv
  <2>3. j = k
    BY <2>1, <2>2, CarriesOnce DEF PipeFlow
  <2> QED
    BY <1>2, <2>1, <2>2, <2>3 DEF Flows, Runs
<1> QED
  BY <1>1, <1>2

FlowingIs == {<<a.sink, a.stream>> : a \in Delivered} = Flowing

LEMMA FlowingCorrect == ASSUME Base, FlowInv PROVE FlowingIs
<1> DEFINE K == {j \in DOMAIN routing : Runs(j)}
<1>1. \A k \in DOMAIN routing : k \in K <=> Flows(k)
  BY FlowsRun
<1>2. \A k \in DOMAIN routing :
        <<Arrival(k).sink, Arrival(k).stream>> = Key(routing[k])
  BY ArrivalIs DEF Key
<1>3. Flowing = {Key(routing[k]) : k \in K}
  BY DEF Flowing
<1>4. K \subseteq DOMAIN routing
  OBVIOUS
<1> HIDE DEF K
<1>5. \A a \in Delivered : \E k \in K : <<a.sink, a.stream>> = Key(routing[k])
  BY <1>1, <1>2, DeliveredIs
<1>6. \A k \in K : \E a \in Delivered : <<a.sink, a.stream>> = Key(routing[k])
  BY <1>1, <1>2, <1>4, DeliveredIs
<1>7. {<<a.sink, a.stream>> : a \in Delivered} = {Key(routing[k]) : k \in K}
  BY <1>5, <1>6
<1> QED
  BY <1>3, <1>7 DEF FlowingIs

\* The sources of a call that enables are started before it commits.
SentInv == stage = "commit" /\ call.enable => SourceStreams \subseteq ser.on

LEMMA SentStep ==
    ASSUME Base, FlowInv, SentInv, [StreamsNext]_allVars, Faultless
    PROVE  SentInv'
<1> SUFFICES ASSUME stage' = "commit", call'.enable PROVE SourceStreams' \subseteq ser'.on
  BY DEF SentInv
<1>1. stage = "commit" \/ (EnableSources /\ stage = "srcOn")
  BY StageFrames
<1> USE DEF Base, StreamsTypeInv, TypeInv
<1>2. call'.enable = call.enable /\ Requested' = Requested
  BY <1>1, CallFrames
<1>3. SourceStreams' = SourceStreams
  BY <1>2 DEF SourceStreams
<1>4. CASE EnableSources
  <2>1. ser' = [ser EXCEPT !.on = @ \cup SourceStreams]
    BY <1>2, <1>4 DEF EnableSources, Faultless
  <2> QED
    BY <1>3, <2>1 DEF SerType
<1>5. CASE stage = "commit" /\ ~ EnableSources
  <2>1. ~ DisableSources /\ ~ Suspend
    BY <1>5 DEF DisableSources, At, Suspend, Idle
  <2>2. ser'.on = ser.on
    BY <1>5, <2>1, SerFrames
  <2> QED
    BY <1>2, <1>3, <1>5, <2>2 DEF SentInv
<1> QED
  BY <1>1, <1>4, <1>5

LEMMA AskedSome ==
    ASSUME Base, FlowInv, fresh, pc # "idle"
    PROVE  SinksOf(Requested) \in (SUBSET (Sinks \X Streams)) \ {{}}
<1> USE DEF Base, StreamsTypeInv, TypeInv
<1>1. PICK s \in call.streams : TRUE
  BY DEF FlowInv, CallInv
<1>2. PICK r \in RouteSet : r.phy = call.phy /\ r.source = s
  BY DEF FlowInv, CallInv
<1>3. r \in Requested
  BY <1>2 DEF Requested
<1>4. SinksOf(Requested) # {}
  BY <1>3 DEF SinksOf
<1> QED
  BY <1>4, RouteOf DEF SinksOf, Requested

LEMMA FlowingSame ==
    ASSUME UNCHANGED <<routing, hw>>, ser'.on = ser.on
    PROVE  Flowing' = Flowing
<1>1. Sending' = Sending
  BY DEF Sending
<1>2. \A k \in DOMAIN routing : Runs(k)' <=> Runs(k)
  BY <1>1 DEF Runs, Carries, Key
<1> QED
  BY <1>2 DEF Flowing, Key

\* Where the steps outside of the register writes leave the flowing streams.
LEMMA QuietSwitch ==
    ASSUME Base, FlowInv, [StreamsNext]_allVars, Faultless, stage = "off", stage' = "off"
    PROVE  sw'.on = sw.on /\ (Flowing' = Flowing \/ Flowing' = {})
<1> USE DEF Base, StreamsTypeInv, TypeInv
<1>0. ~ Commit /\ ~ HandlerStep
  BY StageFrames DEF HandlerStep, StartWrites, SetPipePhy, PhysDone, SetPipeTunnel, SetSerModes,
     SetModes, SetPipeStreamId, IdsDone, DisableSources, StopOutput, UpdateLinks, LinksDone, SetTpg,
     StartOutput, EnableSources, Commit, UndoActiveEnable, UndoTpg, UndoLinks, UndoLinksDone,
     UndoPipe, UndoDone, UndoActiveDisable, UndoSources, GiveUp, At, Goto
<1>1. sw'.on = sw.on
  BY <1>0, SwFrames
<1>2. CASE Suspend \/ Resume
  <2>1. ~ hw'.out
    <3>1. CASE Suspend
      BY <3>1 DEF Suspend, HwReset
    <3>2. CASE Resume
      <4>1. hw' = [HwReset EXCEPT !.id = sw.id, !.remap = sw.remap,
                                  !.link = IF HasPipeLink THEN linkOf ELSE @]
        BY <3>2, Zenon DEF Resume, Faultless
      <4> QED
        BY <4>1 DEF HwReset
    <3> QED
      BY <1>2, <3>1, <3>2
  <2> QED
    BY <1>1, <2>1 DEF Flowing, Runs
<1>3. CASE ChangeRouting
  <2>1. sw' = sw /\ hw' = hw /\ ser' = ser /\ ~ sw.active
    BY <1>3 DEF ChangeRouting
  <2>2. sw.on.src = {}
    BY <2>1 DEF FlowInv, ActiveInv, Act
  <2>3. sw.on.sink = {}
    BY <2>2 DEF FlowInv, CallInv, MasksOf, SinksOf
  <2>4. ser.on = {} /\ ~ TpgFor(sw.on)
    BY <2>3 DEF FlowInv, SourcesInv, TpgFor, Live
  <2>5. ~ hw.tpg
    BY <2>4 DEF FlowInv, TpgInv
  <2>6. Sending' = {}
    BY <2>1, <2>4, <2>5 DEF Sending
  <2> QED
    BY <1>1, <2>6 DEF Flowing, Runs
<1>4. CASE ~ Suspend /\ ~ Resume /\ ~ ChangeRouting
  <2>1. hw' = hw /\ ser' = ser
    BY <1>0, <1>4 DEF StreamsNext, RerouteSerializer, StartGetDesc, EndGetDesc, StartUpdate,
         PopulateStep, Reject, allVars, own
  <2>2. routing' = routing
    BY <1>4, InputFrames
  <2> QED
    BY <1>1, <2>1, <2>2, FlowingSame
<1> QED
  BY <1>1, <1>2, <1>3, <1>4

\* A step in the middle of the call.
LEMMA MiddleSwitch ==
    ASSUME Base, FlowInv, FlowInv', [StreamsNext]_allVars, Faultless, stage # "off", stage' # "off"
    PROVE  /\ Flowing' \subseteq sw.on.sink \cup SinksOf(Requested)
           /\ Flowing \ SinksOf(Requested) \subseteq Flowing'
           /\ sw'.on = sw.on /\ SinksOf(Requested)' = SinksOf(Requested)
<1> USE DEF Base, StreamsTypeInv, TypeInv
<1>1. routing' = routing
  BY UpdateKeepsRouting
<1>2. /\ call'.masks = call.masks /\ sw'.on = sw.on
      /\ SinksOf(Requested)' = SinksOf(Requested)
  BY CallFrames DEF SinksOf
<1>3. call.masks.sink \subseteq sw.on.sink \cup SinksOf(Requested)
  BY DEF FlowInv, CallInv, NewMasks
<1>4. ASSUME NEW k \in DOMAIN routing, Runs(k)'
      PROVE  Key(routing[k]) \in sw.on.sink \cup SinksOf(Requested)
  <2>1. PICK p \in Pipes : hw'.en[p] /\ Carries(p, routing[k])'
    BY <1>4 DEF Runs
  <2>2. PICK j \in DOMAIN routing : Key(routing[j])' \in MasksAt(p)' /\ PipeFlow(p, j)'
    BY <1>1, <2>1 DEF FlowInv, PipesInv
  <2>3. Carries(p, routing[k])
    BY <1>1, <2>1 DEF Carries
  <2>4. Carries(p, routing[j])
    BY <1>1, <2>2 DEF PipeFlow, Carries
  <2>5. j = k
    BY <2>3, <2>4, CarriesOnce
  <2>6. Key(routing[k]) \in MasksAt(p)'
    BY <1>1, <2>2, <2>5 DEF Key
  <2> QED
    BY <1>2, <1>3, <2>6 DEF MasksAt
<1>5. ASSUME NEW k \in DOMAIN routing, Runs(k), Key(routing[k]) \notin SinksOf(Requested)
      PROVE  Runs(k)'
  <2>1. Flows(k)
    BY <1>5, FlowsRun
  <2>2. Flows(k)'
    BY <1>5, <2>1, SiblingStep DEF Faultless
  <2> QED
    BY <2>2 DEF Flows, Runs, PipeFlow
<1>6. \A k \in DOMAIN routing : Key(routing[k])' = Key(routing[k])
  BY <1>1 DEF Key
<1> QED
  BY <1>1, <1>2, <1>4, <1>5, <1>6 DEF Flowing

\* The end of the call.
LEMMA EndSwitch ==
    ASSUME Base, FlowInv, SentInv, [StreamsNext]_allVars, Faultless, stage # "off", stage' = "off"
    PROVE  /\ Flowing' = Flowing
           /\ \/ SinksOf(Requested) \subseteq Flowing
                 /\ sw'.on.sink = sw.on.sink \cup SinksOf(Requested)
              \/ SinksOf(Requested) \cap Flowing = {}
                 /\ sw'.on.sink = sw.on.sink \ SinksOf(Requested)
              \/ Flowing \subseteq sw.on.sink /\ sw'.on.sink = sw.on.sink
<1>1. (Commit /\ stage = "commit") \/ (GiveUp /\ stage = "free")
  BY StageFrames
<1> USE DEF Base, StreamsTypeInv, TypeInv
<1>2. UNCHANGED <<routing, hw>> /\ ser'.on = ser.on
  BY <1>1, UpdateKeepsRouting DEF Commit, GiveUp
<1>3. Flowing' = Flowing
  BY <1>2, FlowingSame
<1>4. CASE Commit
  <2>1. At("commit") /\ sw' = [sw EXCEPT !.on = call.masks, !.pending = FALSE]
    BY <1>4 DEF Commit
  <2>2. sw'.on = call.masks /\ call.masks = NewMasks
    BY <2>1 DEF SwType, FlowInv, CallInv, At
  <2>3. \A k \in DOMAIN routing : Flows(k) <=>
          Key(routing[k]) \in call.masks.sink /\ Key(routing[k]) \in Sending
    BY <2>1, CommitFlows
  <2>4. CASE call.enable
    <3>1. call.masks.sink = sw.on.sink \cup SinksOf(Requested)
      BY <2>2, <2>4 DEF NewMasks
    <3>2. ASSUME NEW r \in Requested PROVE Key(r) \in Flowing
      <4>1. r \in RouteSet /\ Key(r) \in SinksOf(Requested)
        BY DEF Requested, SinksOf, Key
      <4>2. PICK k \in DOMAIN routing : r = routing[k]
        BY <4>1, Table
      <4>3. Key(r) \in Sending
        <5>1. CASE r.sink = Tpg
          <6>1. TpgFor(call.masks)
            BY <3>1, <4>1, <5>1 DEF TpgFor, Live, Key
          <6>2. hw.tpg
            BY <2>1, <6>1 DEF FlowInv, TpgInv, At
          <6>3. r.stream = 0
            BY <4>2, <5>1, Table DEF ValidRouting
          <6> QED
            BY <5>1, <6>2, <6>3 DEF Sending, Key
        <5>2. CASE r.sink # Tpg
          <6>1. Key(r) \in SourceStreams
            BY <5>2 DEF SourceStreams, SinksOf, Key
          <6> QED
            BY <2>1, <2>4, <6>1 DEF SentInv, At, Sending
        <5> QED
          BY <5>1, <5>2
      <4>4. Flows(k)
        BY <2>3, <3>1, <4>1, <4>2, <4>3
      <4> QED
        BY <4>2, <4>4, FlowsRun DEF Flowing
    <3>3. SinksOf(Requested) \subseteq Flowing
      BY <3>2 DEF SinksOf, Key
    <3> QED
      BY <1>3, <2>2, <3>1, <3>3
  <2>5. CASE ~ call.enable
    <3>1. call.masks.sink = sw.on.sink \ SinksOf(Requested)
      BY <2>2, <2>5 DEF NewMasks
    <3>2. \A k \in DOMAIN routing : Runs(k) => Key(routing[k]) \in call.masks.sink
      BY <2>3, FlowsRun
    <3>3. SinksOf(Requested) \cap Flowing = {}
      BY <3>1, <3>2 DEF Flowing
    <3> QED
      BY <1>3, <2>2, <3>1, <3>3
  <2> QED
    BY <2>4, <2>5
<1>5. CASE GiveUp /\ stage = "free"
  <2>1. sw' = sw
    BY <1>5 DEF GiveUp
  <2>2. ASSUME NEW k \in DOMAIN routing, Runs(k) PROVE Key(routing[k]) \in sw.on.sink
    <3>1. PICK p \in Pipes : hw.en[p] /\ Carries(p, routing[k])
      BY <2>2 DEF Runs
    <3>2. PICK j \in DOMAIN routing : Key(routing[j]) \in MasksAt(p) /\ PipeFlow(p, j)
      BY <3>1 DEF FlowInv, PipesInv
    <3>3. j = k
      BY <3>1, <3>2, CarriesOnce DEF PipeFlow
    <3> QED
      BY <1>5, <3>2, <3>3 DEF MasksAt, Updated
  <2>3. Flowing \subseteq sw.on.sink
    BY <2>2 DEF Flowing
  <2> QED
    BY <1>3, <2>1, <2>3
<1> QED
  BY <1>1, <1>4, <1>5

LEMMA SwitchStep ==
    ASSUME Base, FlowInv, FlowInv', SentInv, FlowingIs, FlowingIs',
           [StreamsNext]_allVars, Faultless
    PROVE  [Switched!SwitchNext]_Switched!switchVars
<1> DEFINE on      == sw.on.sink
           flowing == {<<a.sink, a.stream>> : a \in Delivered}
<1>1. flowing = Flowing /\ flowing' = Flowing'
  BY DEF FlowingIs
<1>2. stage # "off" \/ stage' # "off" =>
         fresh /\ pc # "idle" /\ SinksOf(Requested) \in (SUBSET (Sinks \X Streams)) \ {{}}
  BY UpdateKeepsRouting, AskedSome
<1> USE DEF Switched!SwitchNext, Switched!switchVars, Switched!Ask, Switched!Switch,
        Switched!Answer, Switched!TurnedOn, Switched!TurnedOff, Switched!Refused,
        Switched!LosePower
<1>3. CASE stage = "off" /\ stage' = "off"
  <2>1. sw'.on.sink = sw.on.sink /\ (Flowing' = Flowing \/ Flowing' = {})
    BY <1>3, QuietSwitch
  <2> HIDE DEF flowing
  <2> QED
    BY <1>1, <1>3, <2>1 DEF flowing
<1>4. CASE stage = "off" /\ stage' # "off"
  <2>1. StartWrites
    BY <1>4, StageFrames DEF Base
  <2>2. hw' = hw /\ ser' = ser /\ sw' = sw /\ routing' = routing
    BY <1>4, <2>1, UpdateKeepsRouting DEF StartWrites
  <2>3. Flowing' = Flowing
    BY <2>2, FlowingSame
  <2>4. SinksOf(Requested)' = SinksOf(Requested)
    <3>1. call' = [call EXCEPT !.masks = NewMasks]
      BY <2>1 DEF StartWrites
    <3>2. call'.phy = call.phy /\ call'.streams = call.streams
      BY <3>1 DEF Base, StreamsTypeInv, CallType
    <3> QED
      BY <2>2, <3>2 DEF SinksOf, Requested, RouteSet
  <2> QED
    BY <1>1, <1>2, <1>4, <2>2, <2>3, <2>4
<1>5. CASE stage # "off" /\ stage' # "off"
  <2>1. /\ Flowing' \subseteq sw.on.sink \cup SinksOf(Requested)
        /\ Flowing \ SinksOf(Requested) \subseteq Flowing'
        /\ sw'.on = sw.on /\ SinksOf(Requested)' = SinksOf(Requested)
    BY <1>5, MiddleSwitch
  <2> QED
    BY <1>1, <1>2, <1>5, <2>1
<1>6. CASE stage # "off" /\ stage' = "off"
  <2>1. /\ Flowing' = Flowing
        /\ \/ SinksOf(Requested) \subseteq Flowing
              /\ sw'.on.sink = sw.on.sink \cup SinksOf(Requested)
           \/ SinksOf(Requested) \cap Flowing = {}
              /\ sw'.on.sink = sw.on.sink \ SinksOf(Requested)
           \/ Flowing \subseteq sw.on.sink /\ sw'.on.sink = sw.on.sink
    BY <1>6, EndSwitch
  <2> QED
    BY <1>1, <1>2, <1>6, <2>1
<1> QED
  BY <1>3, <1>4, <1>5, <1>6

(* The deserializer implements the abstract switch of StreamSwitch: what   *)
(* arrives at the receiver is switched by one call at a time, a call that  *)
(* succeeds has done what it was asked, one that gives up has taken        *)
(* nothing over, and no other stream is touched.                           *)
THEOREM SwitchImplemented ==
    ASSUME PixelOnly, ChipSelects, MaxFaults = 0
    PROVE  StreamsSpec => ImplementsSwitch
<1>1. Base /\ FlowSafe => FlowInv /\ FlowingIs
  BY NoFaults, FlowingCorrect DEF FlowSafe
<1>2. StreamsInit => SentInv /\ Switched!SwitchInit
  <2>1. StreamsInit => stage = "off" /\ hw.out = FALSE /\ sw.on.sink = {}
    BY DEF StreamsInit, HwReset, SwInit, Off
  <2>2. hw.out = FALSE => Delivered = {}
    BY DEF Delivered
  <2> QED
    BY <2>1, <2>2 DEF SentInv, Switched!SwitchInit
<1>3. Base /\ FlowInv /\ [StreamsNext]_allVars => Faultless
  BY NoFaults DEF Faultless, FlowInv
<1>4. Base /\ FlowInv /\ SentInv /\ [StreamsNext]_allVars => SentInv'
  BY <1>3, SentStep
<1>5. Base /\ FlowInv /\ FlowInv' /\ SentInv /\ FlowingIs /\ FlowingIs' /\ [StreamsNext]_allVars
        => [Switched!SwitchNext]_Switched!switchVars
  BY <1>3, SwitchStep
<1> QED
  BY <1>1, <1>2, <1>4, <1>5, FlowCorrect, PTL
     DEF StreamsSpec, ImplementsSwitch, Switched!SwitchSpec

----------------------------------------------------------------------------
(* Rewriting the registers of a pipe in which a stream flows *)

\* The pixel mode PHY register of a pipe that carries a route.
PhyOf(k) == IF UnusedPhy # NoPhy THEN UnusedPhy ELSE routing[k].phy

LEMMA PhyForIs ==
    ASSUME Base, fresh, pc = "populated", NEW p \in Pipes, NEW k \in DOMAIN routing,
           Carries(p, routing[k])
    PROVE  PhyFor(p) = PhyOf(k) /\ PhyOf(k) # NoPhy
<1> USE DEF Base, StreamsTypeInv, TypeInv
<1> DEFINE r == routing[k]
<1>1. CarriedBy(r, p)
  BY CarriesIs
<1>2. PICK m \in vcMap : m.pipe = p /\ m.phy = r.phy
  <2>1. /\ Channel(routing, k) \in Vcs
        /\ \A v \in Vcs : [pipe |-> p, phy |-> r.phy, src |-> SrcVc(r), dst |-> v] \in vcMap
                            <=> v = Channel(routing, k)
    BY <1>1, DstVcIs
  <2>2. [pipe |-> p, phy |-> r.phy, src |-> SrcVc(r), dst |-> Channel(routing, k)] \in vcMap
    BY <2>1
  <2> QED
    BY <2>2
<1>3. \A n \in vcMap : n.pipe = p => n = m
  BY <1>2 DEF MappedInv, OneStreamPerPipe
<1>4. r.phy \in Phys
  BY Table, RouteOf, EndpointAssumption
<1>5. PhysOf(p) = {r.phy}
  BY <1>2, <1>3, <1>4 DEF PhysOf
<1>6. r.phy \in Nat
  BY <1>4, SizesAssumption DEF Phys
<1>7. FirstPhy(p) = r.phy
  <2>1. \A h \in Phys : IsLowest(h, {r.phy}) <=> h = r.phy
    BY <1>4, <1>6 DEF IsLowest
  <2>2. (CHOOSE h \in Phys : IsLowest(h, {r.phy})) = r.phy
    BY <1>4, <2>1
  <2> QED
    BY <1>5, <2>2 DEF FirstPhy
<1>8. mode # "tunnel"
  BY DEF PixelInv
<1> QED
  BY <1>6, <1>7, <1>8 DEF PhyFor, PhyOf, NoPhy

Programmed(p) == PhyFor(p) # NoPhy => sw.prog[p] /\ sw.phy[p] = PhyFor(p)

PhysPassed(p) ==
    \/ stage \in {"tunnel", "modes", "ids", "srcOff"} \cup LateStages
    \/ stage = "phys" /\ p \in call.done

\* The remap table of an enabled pipe was allocated and its PHY register was
\* programmed, with the value that every later update will want again.
PhyInv ==
    /\ stage = "off" => call.done = {}
    /\ \A p \in Pipes : sw.en[p] => sw.known[p]
    /\ HasPipePhy => \A p \in Pipes :
          /\ PhysPassed(p) => Programmed(p)
          /\ ~ sw.pending /\ ~ asleep /\ hw.en[p] =>
                \E k \in DOMAIN routing :
                   Carries(p, routing[k]) /\ sw.prog[p] /\ sw.phy[p] = PhyOf(k)

LEMMA KnownStep ==
    ASSUME Base, PhyInv, [StreamsNext]_allVars, Faultless, NEW p \in Pipes
    PROVE  sw'.en[p] => sw'.known[p]
<1>1. CASE UpdateLinks
  <2>1. PICK q \in Pipes :
             /\ \A o \in Pipes : o # q => SamePipe(o)
             /\ sw'.known[q]
    BY <1>1, PipeUpdated
  <2> QED
    BY <2>1 DEF SamePipe, PhyInv
<1>2. CASE ~ UpdateLinks
  BY <1>2, SwFrames DEF PhyInv
<1> QED
  BY <1>1, <1>2

LEMMA StartDone ==
    ASSUME Base, PhyInv, [StreamsNext]_allVars, Faultless
    PROVE  /\ stage' = "off" => call'.done = {}
           /\ StartWrites => call'.done = {}
<1> USE DEF Base, StreamsTypeInv, TypeInv
<1>1. CASE StartWrites
  <2>1. call' = [call EXCEPT !.masks = NewMasks] /\ stage = "off" /\ stage' = "phys"
    BY <1>1 DEF StartWrites, Goto
  <2>2. call'.done = call.done
    BY <2>1 DEF CallType
  <2> QED
    BY <2>1, <2>2 DEF PhyInv
<1>2. CASE stage' = "off" /\ (Commit \/ GiveUp)
  BY <1>2 DEF Commit, GiveUp, NoCall, StartWrites
<1>3. CASE stage' = "off" /\ stage = "off"
  <2>1. ~ HandlerStep
    BY <1>3 DEF HandlerStep, StartWrites, SetPipePhy, PhysDone, SetPipeTunnel, SetSerModes,
     SetModes, SetPipeStreamId, IdsDone, DisableSources, StopOutput, UpdateLinks, LinksDone, SetTpg,
     StartOutput, EnableSources, Commit, UndoActiveEnable, UndoTpg, UndoLinks, UndoLinksDone,
     UndoPipe, UndoDone, UndoActiveDisable, UndoSources, GiveUp, At, Goto
  <2>2. CASE StartGetDesc
    <3>1. PICK h \in EnabledPhys : call' = [NoCall EXCEPT !.phy = h]
      BY <2>2 DEF StartGetDesc
    <3> QED
      BY <3>1 DEF NoCall
  <2>3. CASE StartUpdate
    <3>1. PICK h \in EnabledPhys :
            \E S \in SUBSET {r.source : r \in {x \in RouteSet : x.phy = h}}, e \in BOOLEAN :
               call' = [NoCall EXCEPT !.phy = h, !.streams = S, !.enable = e]
      BY <2>3 DEF StartUpdate
    <3>2. PICK S \in SUBSET {r.source : r \in {x \in RouteSet : x.phy = h}}, e \in BOOLEAN :
            call' = [NoCall EXCEPT !.phy = h, !.streams = S, !.enable = e]
      BY <3>1
    <3> QED
      BY <3>2 DEF NoCall
  <2>4. CASE Reject \/ EndGetDesc
    BY <2>4 DEF Reject, EndGetDesc, NoCall
  <2>5. CASE ~ StartGetDesc /\ ~ StartUpdate /\ ~ Reject /\ ~ EndGetDesc
    <3>1. call' = call
      BY <2>1, <2>5 DEF StreamsNext, ChangeRouting, RerouteSerializer, PopulateStep, Suspend, Resume,
         allVars, own
    <3> QED
      BY <1>3, <3>1 DEF PhyInv
  <2> QED
    BY <2>2, <2>3, <2>4, <2>5
<1>4. stage' = "off" => stage = "off" \/ Commit \/ GiveUp
  BY StageFrames
<1> QED
  BY <1>1, <1>2, <1>3, <1>4 DEF StartWrites, Goto

LEMMA PhyFrames ==
    ASSUME Base, [StreamsNext]_allVars, ~ SetPipePhy, ~ Resume
    PROVE  sw'.phy = sw.phy /\ sw'.prog = sw.prog
<1> USE DEF Base, StreamsTypeInv, TypeInv
<1>1. CASE UpdateLinks \/ UndoLinks \/ UndoPipe
  <2>1. PICK p, masks :
          /\ p \in Pipes
          /\ \/ Become(AfterEnable(AfterRemaps(Now, RemapsFor(p, masks), p), masks, p))
             \/ \E x \in FailedPipe(masks, p) : Become(x)
    BY <1>1 DEF UpdateLinks, UndoLinks, UndoPipe, UpdatePipe
  <2>2. PICK z : Become(z) /\ SameRest(z, Now)
    <3>1. ASSUME Become(AfterEnable(AfterRemaps(Now, RemapsFor(p, masks), p), masks, p))
          PROVE  \E z : Become(z) /\ SameRest(z, Now)
      <4>1. PICK x : x = AfterRemaps(Now, RemapsFor(p, masks), p)
        OBVIOUS
      <4>2. StateType(x) /\ SameRest(x, Now)
        BY <2>1, <4>1, NowType, RemapsType
      <4>3. SameRest(AfterEnable(x, masks, p), x)
        BY <2>1, <4>2, EnablePipeType
      <4> QED
        BY <3>1, <4>1, <4>2, <4>3, SameRestTwice
    <3>2. ASSUME NEW x \in FailedPipe(masks, p), Become(x)
          PROVE  \E z : Become(z) /\ SameRest(z, Now)
      BY <2>1, <3>2, FailedPipeType
    <3> QED
      BY <2>1, <3>1, <3>2
  <2> QED
    BY <2>2 DEF Become, SameRest, Now
<1>2. CASE ~ UpdateLinks /\ ~ UndoLinks /\ ~ UndoPipe
  <2>1. \/ sw' = sw \/ (\E f : sw' = [sw EXCEPT !.id = f])
        \/ (\E p, f : sw' = [sw EXCEPT !.id[p] = f])
        \/ (\E f : sw' = [sw EXCEPT !.active = f]) \/ (\E f : sw' = [sw EXCEPT !.tpg = f])
        \/ (\E f : sw' = [sw EXCEPT !.on = f, !.pending = FALSE])
    BY <1>2 DEF StreamsNext, ChangeRouting, RerouteSerializer, StartGetDesc, EndGetDesc, StartUpdate,
         PopulateStep, Reject, Suspend, allVars, own, HandlerStep, StartWrites, PhysDone,
         SetPipeTunnel, SetSerModes, SetModes, SetPipeStreamId, IdsDone, DisableSources,
         StopOutput, LinksDone, SetTpg, StartOutput, EnableSources, Commit,
         UndoActiveEnable, UndoTpg, UndoLinksDone, UndoDone,
         UndoActiveDisable, UndoSources, GiveUp, UpdateActive, UpdateTpg
  <2> QED
    BY <2>1 DEF SwType
<1> QED
  BY <1>1, <1>2

\* One pipe of max_des_set_pipes_phy().
LEMMA PhyProgrammed ==
    ASSUME Base, SetPipePhy, Faultless, HasPipePhy
    PROVE  \E p \in Pipes :
             /\ call'.done = call.done \cup {p} /\ stage = "phys" /\ stage' = stage
             /\ PhyFor(p) # NoPhy => sw'.prog[p] /\ sw'.phy[p] = PhyFor(p)
             /\ \A q \in Pipes : q # p => sw'.prog[q] = sw.prog[q] /\ sw'.phy[q] = sw.phy[q]
             /\ UNCHANGED vars /\ asleep' = asleep /\ sw'.pending = sw.pending
<1> USE DEF Base, StreamsTypeInv, TypeInv
<1>1. PICK p \in Pipes :
         \/ /\ \/ PhyFor(p) = NoPhy \/ (sw.prog[p] /\ sw.phy[p] = PhyFor(p))
               \/ ~ ((mode = "pixel" /\ HasPipePhy) \/ (mode = "tunnel" /\ HasTunnelPhy))
            /\ sw' = [sw EXCEPT !.phy[p] = PhyFor(p)] /\ Visit(p) /\ stage' = stage
         \/ /\ sw' = [sw EXCEPT !.phy[p] = PhyFor(p), !.prog[p] = TRUE]
            /\ Visit(p) /\ stage' = stage
  BY DEF SetPipePhy, Faultless
<1>2. /\ UNCHANGED vars /\ asleep' = asleep /\ stage = "phys"
  BY DEF SetPipePhy, Quiet, At
<1>3. mode = "pixel"
  BY DEF PixelInv
<1>4. call'.done = call.done \cup {p} /\ stage' = stage
  BY <1>1 DEF Visit, CallType
<1>5. \/ /\ PhyFor(p) = NoPhy \/ (sw.prog[p] /\ sw.phy[p] = PhyFor(p))
         /\ sw' = [sw EXCEPT !.phy[p] = PhyFor(p)]
      \/ sw' = [sw EXCEPT !.phy[p] = PhyFor(p), !.prog[p] = TRUE]
  BY <1>1, <1>3
<1>6. /\ sw'.pending = sw.pending
      /\ \A q \in Pipes : q # p => sw'.prog[q] = sw.prog[q] /\ sw'.phy[q] = sw.phy[q]
      /\ PhyFor(p) # NoPhy => sw'.prog[p] /\ sw'.phy[p] = PhyFor(p)
  <2>1. PICK h : h = PhyFor(p)
    OBVIOUS
  <2>2. CASE /\ PhyFor(p) = NoPhy \/ (sw.prog[p] /\ sw.phy[p] = PhyFor(p))
             /\ sw' = [sw EXCEPT !.phy[p] = PhyFor(p)]
    <3>1. sw' = [sw EXCEPT !.phy[p] = h]
      BY <2>1, <2>2
    <3>2. sw'.pending = sw.pending /\ sw'.prog = sw.prog /\ sw'.phy = [sw.phy EXCEPT ![p] = h]
      BY <3>1 DEF SwType
    <3> QED
      BY <2>1, <2>2, <3>2 DEF SwType
  <2>3. CASE sw' = [sw EXCEPT !.phy[p] = PhyFor(p), !.prog[p] = TRUE]
    <3>1. sw' = [sw EXCEPT !.phy[p] = h, !.prog[p] = TRUE]
      BY <2>1, <2>3
    <3>2. /\ sw'.pending = sw.pending /\ sw'.prog = [sw.prog EXCEPT ![p] = TRUE]
          /\ sw'.phy = [sw.phy EXCEPT ![p] = h]
      BY <3>1 DEF SwType
    <3> QED
      BY <2>1, <3>2 DEF SwType
  <2> QED
    BY <1>5, <2>2, <2>3
<1> QED
  BY <1>2, <1>4, <1>6

LEMMA ProgrammedStep ==
    ASSUME Base, FlowInv, PhyInv, [StreamsNext]_allVars, Faultless, HasPipePhy,
           NEW p \in Pipes, PhysPassed(p)'
    PROVE  Programmed(p)'
<1> USE DEF Base, StreamsTypeInv, TypeInv
<1>1. stage # "off" /\ stage' # "off"
  <2>1. stage' # "off" /\ (stage' = "phys" => p \in call'.done)
    BY DEF PhysPassed, LateStages
  <2>2. CASE stage = "off"
    <3>1. StartWrites /\ stage' = "phys"
      BY <2>1, <2>2, StageFrames
    <3> QED
      BY <2>1, <3>1, StartDone
  <2> QED
    BY <2>1, <2>2
<1>2. UNCHANGED <<vcMap, mode>>
  <2>1. HandlerStep \/ UNCHANGED <<vcMap, mode>>
    BY <1>1, UpdateKeepsRouting DEF StreamsNext, RerouteSerializer, StartGetDesc, EndGetDesc,
       StartUpdate, PopulateStep, Reject, Idle, allVars, vars, context, RestType, Populate,
       UseTpg, UseLink, UseNothing, FindModes, MapVc, MapTooBig, ChooseMode
  <2>2. pc' # "idle"
    BY <1>1, CallFrames DEF RestType
  <2>3. ~ Return
    BY <2>2 DEF Return
  <2> QED
    BY <2>1, <2>3, HandlerAssigns DEF vars, context
<1>3. PhyFor(p)' = PhyFor(p)
  BY <1>2 DEF PhyFor, FirstPhy, PhysOf
<1>4. CASE SetPipePhy
  <2>1. PICK q \in Pipes :
             /\ call'.done = call.done \cup {q} /\ stage = "phys" /\ stage' = stage
             /\ PhyFor(q) # NoPhy => sw'.prog[q] /\ sw'.phy[q] = PhyFor(q)
             /\ \A o \in Pipes : o # q => sw'.prog[o] = sw.prog[o] /\ sw'.phy[o] = sw.phy[o]
    BY <1>4, PhyProgrammed
  <2>2. CASE p = q
    BY <1>3, <2>1, <2>2 DEF Programmed
  <2>3. CASE p # q
    <3>1. p \in call.done
      BY <2>1, <2>3 DEF PhysPassed, LateStages
    <3>2. Programmed(p)
      BY <2>1, <3>1 DEF PhyInv, PhysPassed
    <3> QED
      BY <1>3, <2>1, <2>3, <3>2 DEF Programmed
  <2> QED
    BY <2>2, <2>3
<1>5. CASE ~ SetPipePhy
  <2>1. sw'.phy = sw.phy /\ sw'.prog = sw.prog
    BY <1>5, UpdateKeepsRouting, PhyFrames, <1>1
  <2>2. PhysPassed(p)
    <3>1. CASE stage' = stage /\ stage # "phys"
      BY <3>1 DEF PhysPassed
    <3>2. CASE stage' = stage /\ stage = "phys"
      <4>1. call' = call
        BY <1>5, <3>2, <1>1, UpdateKeepsRouting
         DEF StreamsNext, RerouteSerializer, StartGetDesc, EndGetDesc, StartUpdate,
         PopulateStep, Reject, Idle, allVars, own, HandlerStep, StartWrites, PhysDone,
         SetPipeTunnel, SetSerModes, SetModes, SetPipeStreamId, IdsDone, DisableSources,
         StopOutput, UpdateLinks, LinksDone, SetTpg, StartOutput, EnableSources, Commit,
         UndoActiveEnable, UndoTpg, UndoLinks, UndoLinksDone, UndoPipe, UndoDone,
         UndoActiveDisable, UndoSources, GiveUp, UpdateActive, UpdatePipe, UpdateTpg, At, Goto
      <4> QED
        BY <3>2, <4>1 DEF PhysPassed, LateStages
    <3>3. CASE stage' # stage /\ PhysDone
      <4>1. stage = "phys" /\ LoopEnds
        BY <3>3 DEF PhysDone, At
      <4> QED
        BY <4>1 DEF PhysPassed, LoopEnds
    <3>4. CASE stage' # stage /\ ~ PhysDone
      <4>1. stage \in {"tunnel", "modes", "ids", "srcOff"} \cup LateStages \/ stage' = "off"
        BY <1>1, <3>4, StageFrames DEF PhysPassed, LateStages
      <4> QED
        BY <1>1, <4>1 DEF PhysPassed
    <3> QED
      BY <3>1, <3>2, <3>3, <3>4
  <2>3. Programmed(p)
    BY <2>2 DEF PhyInv
  <2> QED
    BY <1>3, <2>1, <2>3 DEF Programmed
<1> QED
  BY <1>4, <1>5

\* An enabled pipe of an update that has passed its PHY registers.
LEMMA EnabledProgrammed ==
    ASSUME Base, PhyInv, HasPipePhy, NEW p \in Pipes, PhysPassed(p), stage # "off",
           NEW k \in DOMAIN routing, Carries(p, routing[k])
    PROVE  sw.prog[p] /\ sw.phy[p] = PhyOf(k)
<1>1. fresh /\ pc = "populated"
  BY DEF Base, StreamsTypeInv, RestType
<1>2. PhyFor(p) = PhyOf(k) /\ PhyOf(k) # NoPhy
  BY <1>1, PhyForIs
<1> QED
  BY <1>2 DEF PhyInv, Programmed

LEMMA PhyStep ==
    ASSUME Base, FlowInv, FlowInv', PhyInv, [StreamsNext]_allVars, Faultless
    PROVE  PhyInv'
<1> USE DEF Base, StreamsTypeInv, TypeInv
<1>1. stage' = "off" => call'.done = {}
  BY StartDone
<1>2. \A p \in Pipes : sw'.en[p] => sw'.known[p]
  BY KnownStep
<1>3. ASSUME HasPipePhy, NEW p \in Pipes, PhysPassed(p)'
      PROVE  Programmed(p)'
  BY <1>3, ProgrammedStep
<1>4. ASSUME HasPipePhy, NEW p \in Pipes, ~ sw'.pending, ~ asleep', hw'.en[p]
      PROVE  \E k \in DOMAIN routing' :
                Carries(p, routing[k])' /\ sw'.prog[p] /\ sw'.phy[p] = PhyOf(k)'
  <2>1. ~ Suspend /\ ~ Resume
    <3>1. Suspend => asleep'
      BY DEF Suspend
    <3>2. ASSUME Resume PROVE sw'.pending
      <4>1. sw' = [sw EXCEPT !.prog = [q \in Pipes |-> FALSE], !.pending = TRUE]
        BY <3>2 DEF Resume, Faultless
      <4> QED
        BY <4>1 DEF SwType
    <3> QED
      BY <1>4, <3>1, <3>2
  <2>2. CASE ChangeRouting
    <3>1. sw' = sw /\ hw' = hw /\ ~ sw.active /\ stage = "off"
      BY <2>2 DEF ChangeRouting, Idle
    <3>2. sw.on.src = {}
      BY <3>1 DEF FlowInv, ActiveInv, Act
    <3>3. sw.on.sink = {}
      BY <3>2 DEF FlowInv, CallInv, MasksOf, SinksOf
    <3>4. \E k \in DOMAIN routing : Key(routing[k]) \in MasksAt(p)
      BY <1>4, <3>1 DEF FlowInv, PipesInv
    <3> QED
      BY <3>1, <3>3, <3>4 DEF MasksAt, Updated
  <2>3. ~ ChangeRouting => routing' = routing
    BY InputFrames
  <2>4. CASE UpdateLinks
    <3>1. stage = "links" /\ stage' = stage /\ routing' = routing
      BY <2>4, <2>3, PipeUpdated, UpdateKeepsRouting
    <3>2. PICK k \in DOMAIN routing : PipeFlow(p, k)'
      BY <1>4, <3>1 DEF FlowInv, PipesInv
    <3>3. Carries(p, routing[k])' /\ Carries(p, routing[k])
      BY <3>1, <3>2 DEF PipeFlow, Carries
    <3>4. sw.prog[p] /\ sw.phy[p] = PhyOf(k)
      BY <1>4, <3>1, <3>3, EnabledProgrammed DEF PhysPassed, LateStages
    <3>5. sw'.phy = sw.phy /\ sw'.prog = sw.prog
      BY <2>1, <2>4, <3>1, PhyFrames DEF UpdateLinks, SetPipePhy, At
    <3>6. PhyOf(k)' = PhyOf(k)
      BY <3>1 DEF PhyOf
    <3> QED
      BY <3>1, <3>3, <3>4, <3>5, <3>6
  <2>5. CASE Commit
    <3>1. stage = "commit" /\ hw' = hw /\ routing' = routing
      BY <2>3, <2>5 DEF Commit, At, ChangeRouting, Idle
    <3>2. PICK k \in DOMAIN routing : PipeFlow(p, k)
      BY <1>4, <3>1 DEF FlowInv, PipesInv
    <3>3. Carries(p, routing[k])' /\ Carries(p, routing[k])
      BY <3>1, <3>2 DEF PipeFlow, Carries
    <3>4. sw.prog[p] /\ sw.phy[p] = PhyOf(k)
      BY <1>4, <3>1, <3>3, EnabledProgrammed DEF PhysPassed, LateStages
    <3>5. sw'.phy = sw.phy /\ sw'.prog = sw.prog
      BY <2>1, <2>5, <3>1, PhyFrames DEF Commit, SetPipePhy, At
    <3>6. PhyOf(k)' = PhyOf(k)
      BY <3>1 DEF PhyOf
    <3> QED
      BY <3>1, <3>3, <3>4, <3>5, <3>6
  <2>6. CASE ~ ChangeRouting /\ ~ UpdateLinks /\ ~ Commit
    <3>1. hw'.en = hw.en /\ sw'.pending = sw.pending
      BY <2>1, <2>6, HwFrames, SwFrames
    <3>2. asleep' = asleep
      BY <2>1, <2>6 DEF StreamsNext, RerouteSerializer, StartGetDesc, EndGetDesc, StartUpdate,
         PopulateStep, Reject, allVars, own, HandlerStep, StartWrites, SetPipePhy, PhysDone,
         SetPipeTunnel, SetSerModes, SetModes, SetPipeStreamId, IdsDone, DisableSources,
         StopOutput, LinksDone, SetTpg, StartOutput, EnableSources,
         UndoActiveEnable, UndoTpg, UndoLinks, UndoLinksDone, UndoPipe, UndoDone,
         UndoActiveDisable, UndoSources, GiveUp, UpdateActive, UpdatePipe, UpdateTpg, Quiet
    <3>3. PICK k \in DOMAIN routing : Carries(p, routing[k]) /\ sw.prog[p] /\ sw.phy[p] = PhyOf(k)
      BY <1>4, <3>1, <3>2 DEF PhyInv
    <3>4. routing' = routing /\ Carries(p, routing[k])' /\ PhyOf(k)' = PhyOf(k)
      BY <2>3, <2>6, <3>3 DEF Carries, PhyOf
    <3>5. CASE SetPipePhy
      <4>1. PICK q \in Pipes :
               /\ PhyFor(q) # NoPhy => sw'.prog[q] /\ sw'.phy[q] = PhyFor(q)
               /\ \A o \in Pipes : o # q => sw'.prog[o] = sw.prog[o] /\ sw'.phy[o] = sw.phy[o]
        BY <1>4, <3>5, PhyProgrammed
      <4>2. fresh /\ pc = "populated"
        BY <3>5 DEF SetPipePhy, At, RestType
      <4>3. PhyFor(p) = PhyOf(k) /\ PhyOf(k) # NoPhy
        BY <3>3, <4>2, PhyForIs
      <4> QED
        BY <3>3, <3>4, <4>1, <4>3
    <3>6. CASE ~ SetPipePhy
      <4>1. sw'.phy = sw.phy /\ sw'.prog = sw.prog
        BY <2>1, <3>6, PhyFrames
      <4> QED
        BY <3>3, <3>4, <4>1
    <3> QED
      BY <3>5, <3>6
  <2> QED
    BY <2>2, <2>4, <2>5, <2>6
<1> QED
  BY <1>1, <1>2, <1>3, <1>4 DEF PhyInv

\* What a step rewrites is a pipe of the call, or a pipe of no sending stream.
LEMMA GlitchStep ==
    ASSUME Base, FlowInv, PhyInv, StreamsNext, Faultless, ~ sw.pending,
           NEW p \in written', NEW x \in Sending, Enters(x, p)
    PROVE  x \in SinksOf(Requested)
<1> SUFFICES ASSUME x \notin SinksOf(Requested) PROVE FALSE
  OBVIOUS
<1>0. [StreamsNext]_allVars
  OBVIOUS
<1> USE DEF Base, StreamsTypeInv, TypeInv
<1>1. SetPipePhy \/ UpdateLinks
  BY DEF StreamsNext, ChangeRouting, RerouteSerializer, StartGetDesc, EndGetDesc, StartUpdate,
         PopulateStep, Reject, Suspend, Resume, HandlerStep, StartWrites, PhysDone,
         SetPipeTunnel, SetSerModes, SetModes, SetPipeStreamId, IdsDone, DisableSources,
         StopOutput, LinksDone, SetTpg, StartOutput, EnableSources, Commit,
         UndoActiveEnable, UndoTpg, UndoLinks, UndoLinksDone, UndoPipe, UndoDone,
         UndoActiveDisable, UndoSources, GiveUp, UpdateActive, UpdateTpg, Faultless,
         ErrorStages, At
<1>2. stage # "off" /\ fresh /\ pc = "populated"
  BY <1>1 DEF SetPipePhy, UpdateLinks, At, RestType
<1>3. p \in Pipes
  BY <1>1 DEF SetPipePhy, UpdateLinks, UpdatePipe, Touched
<1>4. hw.en[p]
  BY DEF Enters
<1>5. PICK k \in DOMAIN routing : PipeFlow(p, k)
  BY <1>3, <1>4 DEF FlowInv, PipesInv
<1>6. x = Key(routing[k])
  BY <1>3, <1>4, <1>5, EntersIs
<1>7. Key(routing[k]) \in call.masks.sink
  BY <1>2, <1>3, <1>4, <1>5, <1>6, SiblingStaysOn
<1>8. ~ asleep
  BY <1>2 DEF FlowInv, CallInv
<1>9. Carries(p, routing[k])
  BY <1>5 DEF PipeFlow
<1>10. CASE UpdateLinks
  <2>1. p \in Touched(call.masks, p)
    BY <1>10 DEF UpdateLinks, UpdatePipe, Touched
  <2>2. LiveOn(p, call.masks) # {}
    BY <1>2, <1>3, <1>7, <1>9, LiveOnIs
  <2>3. RemapsFor(p, call.masks) = {Entry(k)}
    BY <1>2, <1>3, <1>7, <1>9, RemapsIs
  <2>4. hw.en[p] = sw.en[p] /\ (sw.known[p] => hw.remap[p] = sw.remap[p])
    BY <1>3, <1>8 DEF FlowInv, CacheInv, CacheAt
  <2>5. sw.en[p] /\ sw.known[p]
    BY <1>3, <1>4, <2>4 DEF PhyInv
  <2>6. sw.remap[p] = RemapsFor(p, call.masks)
    BY <1>5, <2>3, <2>4, <2>5 DEF PipeFlow
  <2>7. RemapsSkip(Now, RemapsFor(p, call.masks), p)
    BY <2>5, <2>6 DEF RemapsSkip, Now
  <2>8. EnableSkip(Now, LiveOn(p, call.masks) # {}, p)
    <3>1. \A y \in BOOLEAN : y => y = TRUE
      OBVIOUS
    <3>2. PICK e \in BOOLEAN : e = (LiveOn(p, call.masks) # {})
      OBVIOUS
    <3>3. e /\ sw.en[p] /\ e \in BOOLEAN /\ sw.en[p] \in BOOLEAN
      BY <1>3, <2>2, <2>5, <3>2 DEF SwType
    <3>4. sw.en[p] = e
      BY <3>1, <3>3, Zenon
    <3>5. EnableSkip(Now, e, p)
      BY <3>4 DEF EnableSkip, Now
    <3> QED
      BY <3>2, <3>5
  <2> QED
    BY <2>1, <2>7, <2>8 DEF Touched
<1>11. CASE SetPipePhy
  <2>1. mode = "pixel"
    BY DEF PixelInv
  <2>2. HasPipePhy /\ ~ (PhyFor(p) = NoPhy \/ (sw.prog[p] /\ sw.phy[p] = PhyFor(p)))
    BY <1>11, <2>1 DEF SetPipePhy, Faultless
  <2>3. PICK j \in DOMAIN routing : Carries(p, routing[j]) /\ sw.prog[p] /\ sw.phy[p] = PhyOf(j)
    BY <1>3, <1>4, <1>8, <2>2 DEF PhyInv
  <2>4. PhyFor(p) = PhyOf(j)
    BY <1>2, <1>3, <2>3, PhyForIs
  <2> QED
    BY <2>2, <2>3, <2>4
<1> QED
  BY <1>1, <1>10, <1>11

(* The output registers of a pipe in which a stream flows are not touched  *)
(* by an update that is about other streams, but for the first one after a *)
(* resume: the table, the enable bit and the PHY that the update wants for *)
(* such a pipe are those it has, and the caches say so.                    *)
THEOREM NothingGlitches ==
    ASSUME PixelOnly, ChipSelects, MaxFaults = 0
    PROVE  StreamsSpec => NoGlitch
<1> DEFINE Step == ~ sw.pending /\ hw.out =>
          \A p \in written' : \A x \in Sending : Enters(x, p) => x \in SinksOf(Requested)
<1>1. Base /\ FlowSafe => FlowInv
  BY NoFaults DEF FlowSafe
<1>2. StreamsInit => PhyInv
  <2> SUFFICES ASSUME StreamsInit PROVE PhyInv
    OBVIOUS
  <2>1. sw = SwInit /\ hw = HwReset /\ call = NoCall /\ stage = "off"
    BY DEF StreamsInit
  <2>2. \A p \in Pipes : ~ sw.en[p] /\ ~ hw.en[p]
    BY <2>1 DEF SwInit, HwReset
  <2> QED
    BY <2>1, <2>2 DEF PhyInv, PhysPassed, LateStages, NoCall
<1>3. Base /\ FlowInv /\ [StreamsNext]_allVars => Faultless
  BY NoFaults DEF Faultless, FlowInv
<1>4. Base /\ FlowInv /\ FlowInv' /\ PhyInv /\ [StreamsNext]_allVars => PhyInv'
  BY <1>3, PhyStep
<1>5. Base /\ FlowInv /\ PhyInv /\ [StreamsNext]_allVars => [Step]_allVars
  BY <1>3, GlitchStep
<1> HIDE DEF Step
<1>6. StreamsSpec => [][Step]_allVars
  BY <1>1, <1>2, <1>4, <1>5, FlowCorrect, PTL DEF StreamsSpec
<1> QED
  BY <1>6 DEF Step, NoGlitch
=============================================================================
