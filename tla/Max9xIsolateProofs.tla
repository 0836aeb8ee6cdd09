------------------------- MODULE Max9xIsolateProofs -------------------------
(***************************************************************************)
(* Proofs about Max9xIsolate for both chips, every number of links, every  *)
(* set of boards and every number of failures and naps.                    *)
(***************************************************************************)
EXTENDS Max9xIsolate, TLAPS

----------------------------------------------------------------------------
(* Type correctness *)

\* A board keeps the addresses it was built with.
LEMMA BoardStays ==
    [Next]_vars => translated' = translated /\ \A m : Virt(m)' = Virt(m)
<1> SUFFICES ASSUME [Next]_vars PROVE translated' = translated
  BY DEF Virt, Default
<1> USE DEF vars, desVars
<1>1. Probe => translated' = translated
  BY DEF Probe, ProbeEnable, ProbeSelect, ProbeIsolate, ProbeTranslate, ProbeUnwind
<1>2. Register => translated' = translated
  BY DEF Register, RegisterSkip, RegisterIsolate, RegisterAttach, RegisterDetach
<1>3. Suspend \/ ResumeDes \/ Relink => translated' = translated
  BY DEF Suspend, ResumeDes, Relink
<1>4. ASSUME NEW l \in Links, ResumeSer(l) PROVE translated' = translated
  BY <1>4 DEF ResumeSer, ResumeIsolate, ReadVirt, ReadPhys, WriteAddr, Reread, VerifyDevId,
              EnableSer, RemapReset, Release
<1> QED
  BY <1>1, <1>2, <1>3, <1>4 DEF Next

LEMMA TypeInit == Init => TypeOK
<1>1. 0 \in Links /\ None \notin Links /\ Default \notin Links
  BY ChipAssumption DEF Links, None, Default
<1>2. 0 \in 0 .. MaxFaults /\ 0 \in 0 .. MaxNaps
  BY BoardAssumption
<1>3. Init => /\ pc \in [Links -> Running \cup Over]
              /\ ret \in [Links -> {"none", "ok", "error", "undone"}]
  BY DEF Init, Over
<1> QED
  BY <1>1, <1>2, <1>3, BoardAssumption DEF Init, TypeOK

\* The thread's cursor stays on a link.
LEMMA AdvanceType ==
    ASSUME next \in Links, NEW phase, NEW after, Advance(phase, after)
    PROVE  next' \in Links /\ main' \in {phase, after}
BY ChipAssumption DEF Advance, Links

LEMMA CleanType == ASSUME faults \in 0 .. MaxFaults, Clean PROVE faults' \in 0 .. MaxFaults
BY DEF Clean

LEMMA FaultType == ASSUME faults \in 0 .. MaxFaults, Fault PROVE faults' \in 0 .. MaxFaults
BY BoardAssumption DEF Fault

\* What the isolation operations leave of the types.
LEMMA IsolateType ==
    ASSUME TypeOK, NEW l \in Links, IsolateOk(l) \/ IsolateErr(l)
    PROVE  /\ isolated' \in Links \cup {None} /\ wired' \subseteq Links
           /\ faults' \in 0 .. MaxFaults
BY CleanType, FaultType DEF TypeOK, IsolateOk, IsolateErr

LEMMA DeisolateType ==
    ASSUME TypeOK, Deisolate
    PROVE  /\ isolated' \in Links \cup {None} /\ wired' \subseteq Links
           /\ faults' \in 0 .. MaxFaults
BY CleanType, FaultType DEF TypeOK, Deisolate, DeisolateOk, DeisolateErr

LEMMA EnableType ==
    ASSUME TypeOK, EnableOk(next) \/ EnableErr(next)
    PROVE  /\ detected' \subseteq Links /\ wired' \subseteq Links
           /\ faults' \in 0 .. MaxFaults
BY CleanType, FaultType DEF TypeOK, EnableOk, EnableErr

LEMMA AddressType ==
    ASSUME NEW l \in Links
    PROVE  Virt(l) \in Links \cup {Default}
BY DEF Virt

LEMMA ReaddressedType ==
    ASSUME at \in [Links -> Links \cup {Default}], NEW l,
           NEW old, NEW new \in Links \cup {Default}
    PROVE  Readdressed(l, old, new) \in [Links -> Links \cup {Default}]
BY DEF Readdressed

LEMMA AccessType ==
    ASSUME faults \in 0 .. MaxFaults, NEW l, NEW addr, Succeeds(l, addr) \/ Fails(l, addr)
    PROVE  faults' \in 0 .. MaxFaults
BY CleanType, FaultType DEF Succeeds, Fails

LEMMA ProbeType == TypeOK /\ Probe => TypeOK'
<1> SUFFICES ASSUME TypeOK, Probe PROVE TypeOK'
  OBVIOUS
<1> USE DEF serVars
<1>1. CASE ProbeEnable
  BY <1>1, AdvanceType, EnableType, FaultType DEF ProbeEnable, TypeOK
<1>2. CASE ProbeSelect
  BY <1>2, AdvanceType, CleanType, FaultType DEF ProbeSelect, TypeOK
<1>3. CASE ProbeIsolate
  BY <1>3, IsolateType DEF ProbeIsolate, TypeOK
<1>4. CASE ProbeTranslate
  <2>1. faults' \in 0 .. MaxFaults
    BY <1>4, AccessType, CleanType, FaultType DEF ProbeTranslate, TypeOK
  <2>2. at' \in [Links -> Links \cup {Default}]
    BY <1>4, AddressType, ReaddressedType DEF ProbeTranslate, TypeOK
  <2>3. next' \in Links /\ main' \in {"link", "register", "unwind"}
    BY <1>4, AdvanceType DEF ProbeTranslate, TypeOK
  <2>4. enabled' \subseteq Links
    BY <1>4 DEF ProbeTranslate, TypeOK
  <2> QED
    BY <1>4, <2>1, <2>2, <2>3, <2>4 DEF ProbeTranslate, TypeOK
<1>5. CASE ProbeUnwind
  BY <1>5, AdvanceType, DeisolateType DEF ProbeUnwind, TypeOK
<1> QED
  BY <1>1, <1>2, <1>3, <1>4, <1>5 DEF Probe

LEMMA RegisterType == TypeOK /\ Register => TypeOK'
<1> SUFFICES ASSUME TypeOK, Register PROVE TypeOK'
  OBVIOUS
<1> USE DEF serVars
<1>1. CASE RegisterSkip
  <2>1. leaked' \in BOOLEAN
    BY <1>1 DEF RegisterSkip
  <2> QED
    BY <1>1, <2>1, AdvanceType DEF RegisterSkip, TypeOK, bus
<1>2. CASE RegisterIsolate
  BY <1>2, IsolateType DEF RegisterIsolate, Registering, TypeOK
<1>3. CASE RegisterAttach
  <2>1. faults' \in 0 .. MaxFaults
    BY <1>3, AccessType, CleanType, FaultType DEF RegisterAttach, TypeOK
  <2>2. at' \in [Links -> Links \cup {Default}]
    BY <1>3, AddressType DEF RegisterAttach, TypeOK
  <2> QED
    BY <1>3, <2>1, <2>2 DEF RegisterAttach, TypeOK
<1>4. CASE RegisterDetach
  <2>1. next' \in Links /\ main' \in {"failed", "up", "register"}
    BY <1>4, AdvanceType, ChipAssumption DEF RegisterDetach, TypeOK, Links
  <2> QED
    BY <1>4, <2>1, DeisolateType DEF RegisterDetach, Deisolate, TypeOK
<1> QED
  BY <1>1, <1>2, <1>3, <1>4 DEF Register

\* pc after the deserializer has started the resumes
LEMMA WakeType ==
    ASSUME TypeOK, WakeSerializers
    PROVE  pc' \in [Links -> Running \cup Over] /\ leaked' \in BOOLEAN
BY DEF WakeSerializers, Running, Over

LEMMA SleepType == TypeOK /\ (Suspend \/ ResumeDes \/ Relink) => TypeOK'
<1> SUFFICES ASSUME TypeOK, Suspend \/ ResumeDes \/ Relink PROVE TypeOK'
  OBVIOUS
<1>1. CASE Suspend
  <2>1. at' \in [Links -> Links \cup {Default}] /\ wired' \subseteq Links
    BY <1>1 DEF Suspend, TypeOK
  <2>2. pc' \in [Links -> Running \cup Over]
    BY <1>1 DEF Suspend, Over
  <2>3. naps' \in 0 .. MaxNaps
    BY <1>1, BoardAssumption DEF Suspend, TypeOK
  <2> QED
    BY <1>1, <2>1, <2>2, <2>3 DEF Suspend, TypeOK
<1>2. CASE ResumeDes
  BY <1>2, WakeType, CleanType, FaultType DEF ResumeDes, TypeOK, serVars
<1>3. CASE Relink
  <2>1. next' \in Links /\ main' \in {"relink", "up"}
    BY <1>3, AdvanceType DEF Relink, TypeOK
  <2>2. pc' \in [Links -> Running \cup Over] /\ leaked' \in BOOLEAN
    BY <1>3, WakeType DEF Relink, TypeOK
  <2>3. /\ enabled' \subseteq Links /\ detected' \subseteq Links
        /\ wired' \subseteq Links /\ faults' \in 0 .. MaxFaults
    BY <1>3, EnableType DEF Relink, TypeOK
  <2> QED
    BY <1>3, <2>1, <2>2, <2>3 DEF Relink, TypeOK
<1> QED
  BY <1>1, <1>2, <1>3

LEMMA ResumeType == ASSUME TypeOK, NEW l \in Links, ResumeSer(l) PROVE TypeOK'
<1> USE DEF desVars, Goto, Return
<1>1. pc' \in [Links -> Running \cup Over] /\ ret' \in [Links -> {"none", "ok", "error", "undone"}]
  BY DEF ResumeSer, TypeOK, Running, Over, Holding, ResumeIsolate, ReadVirt, ReadPhys,
         WriteAddr, Reread, VerifyDevId, EnableSer, RemapReset, Release
<1>2. at' \in [Links -> Links \cup {Default}]
  BY AddressType, ReaddressedType
     DEF ResumeSer, TypeOK, ResumeIsolate, ReadVirt, ReadPhys,
         WriteAddr, Reread, VerifyDevId, EnableSer, RemapReset, Release
<1>3. /\ isolated' \in Links \cup {None} /\ wired' \subseteq Links
      /\ faults' \in 0 .. MaxFaults
  <2>1. CASE ResumeIsolate(l)
    BY <2>1, IsolateType DEF ResumeIsolate
  <2>2. CASE Release(l)
    BY <2>2, DeisolateType DEF Release
  <2>3. CASE ReadVirt(l) \/ ReadPhys(l) \/ WriteAddr(l) \/ Reread(l) \/ VerifyDevId(l)
             \/ EnableSer(l) \/ RemapReset(l)
    BY <2>3, AccessType, CleanType, FaultType
       DEF TypeOK, ReadVirt, ReadPhys, WriteAddr, Reread, VerifyDevId, EnableSer, RemapReset
  <2> QED
    BY <2>1, <2>2, <2>3 DEF ResumeSer
<1>4. leaked' \in BOOLEAN /\ UNCHANGED <<desVars, selected>>
  BY DEF ResumeSer, TypeOK, ResumeIsolate, ReadVirt, ReadPhys,
         WriteAddr, Reread, VerifyDevId, EnableSer, RemapReset, Release
<1> QED
  BY <1>1, <1>2, <1>3, <1>4 DEF TypeOK

LEMMA TypeStep == TypeOK /\ [Next]_vars => TypeOK'
<1>1. TypeOK /\ UNCHANGED vars => TypeOK'
  BY DEF TypeOK, vars, desVars, bus, serVars
<1> QED
  BY <1>1, ProbeType, RegisterType, SleepType, ResumeType DEF Next

\* Type correctness, for every instance.
THEOREM TypeCorrect == Spec => []TypeOK
BY TypeInit, TypeStep, PTL DEF Spec

----------------------------------------------------------------------------
(* The isolation *)

ProbePhases == {"link", "select", "isolate", "translate", "unwind"}
IdlePhases == ProbePhases \cup {"register", "attach", "detach", "asleep", "relink"}

\* No channel is selected, hence no wait is for a selection, from the moment a
\* serializer is registered; and no resume runs except while the system is up.
SelectionFree  == registered # {} => selected = None
ProbedFirst    == main \in ProbePhases => registered = {}
OnlyRegistered == \A l \in Links : pc[l] # "idle" => l \in registered
Quiet          == main # "up" => \A l \in Links : pc[l] \in Over
NotYet         == main \in IdlePhases => \A l \in Links : pc[l] = "idle"

BaseInv == TypeOK /\ SelectionFree /\ ProbedFirst /\ OnlyRegistered /\ Quiet /\ NotYet

LockInv == BaseInv /\ IsolationHeld /\ HandedBack

LEMMA BaseInit == Init => BaseInv
BY TypeInit DEF Init, BaseInv, SelectionFree, ProbedFirst, OnlyRegistered, Quiet, NotYet, Over

LEMMA BaseStep == BaseInv /\ [Next]_vars => BaseInv'
<1> SUFFICES ASSUME BaseInv, [Next]_vars
             PROVE  SelectionFree' /\ ProbedFirst' /\ OnlyRegistered' /\ Quiet' /\ NotYet'
  BY TypeStep DEF BaseInv
<1> USE DEF BaseInv, SelectionFree, ProbedFirst, OnlyRegistered, Quiet, NotYet, ProbePhases, IdlePhases
<1>1. CASE Probe
  BY <1>1, AdvanceType
     DEF Probe, ProbeEnable, ProbeSelect, ProbeIsolate, ProbeTranslate, ProbeUnwind,
         serVars, TypeOK
<1>2. CASE Register
  BY <1>2, AdvanceType
     DEF Register, RegisterSkip, RegisterIsolate, Registering, RegisterAttach,
         RegisterDetach, serVars, bus, TypeOK
<1>3. CASE Suspend
  BY <1>3 DEF Suspend, Over
<1>4. CASE ResumeDes
  BY <1>4 DEF ResumeDes, WakeSerializers, serVars
<1>5. CASE Relink
  BY <1>5, AdvanceType DEF Relink, WakeSerializers, TypeOK
<1>6. ASSUME NEW l \in Links, ResumeSer(l)
      PROVE  SelectionFree' /\ ProbedFirst' /\ OnlyRegistered' /\ Quiet' /\ NotYet'
  <2>1. pc[l] \notin Over /\ main = "up"
    BY <1>6 DEF ResumeSer, ResumeIsolate, ReadVirt, ReadPhys, WriteAddr, Reread,
                VerifyDevId, EnableSer, RemapReset, Release, Over
  <2>2. UNCHANGED <<desVars, selected>> /\ \A m \in Links : m # l => pc'[m] = pc[m]
    BY <1>6 DEF ResumeSer, ResumeIsolate, ReadVirt, ReadPhys, WriteAddr, Reread,
                VerifyDevId, EnableSer, RemapReset, Release, Goto, TypeOK
  <2> QED
    BY <2>1, <2>2 DEF desVars, Over
<1>7. CASE UNCHANGED vars
  BY <1>7 DEF vars, desVars, bus, serVars
<1> QED
  BY <1>1, <1>2, <1>3, <1>4, <1>5, <1>6, <1>7 DEF Next

LEMMA LockInit == Init => LockInv
BY BaseInit DEF Init, LockInv, IsolationHeld, HandedBack, Owns, Holding

\* Where nobody owns the isolation, a phase may end only with the lock word
\* free or with the leak on record.
LEMMA LockDes ==
    ASSUME LockInv, Probe \/ Register \/ Suspend \/ ResumeDes \/ Relink
    PROVE  (IsolationHeld /\ HandedBack)'
<1>1. \A l \in Links : ~Owns(l)'
  <2>1. \A l \in Links : ~Owns(l)
    BY DEF LockInv, BaseInv, Quiet, Probe, ProbeEnable, ProbeSelect, ProbeIsolate,
           ProbeTranslate, ProbeUnwind, Register, RegisterSkip, RegisterIsolate, Registering,
           RegisterAttach, RegisterDetach, Suspend, ResumeDes, Relink, Owns, Over, Holding
  <2>2. CASE Probe \/ Register
    BY <2>1, <2>2
       DEF Probe, ProbeEnable, ProbeSelect, ProbeIsolate,
           ProbeTranslate, ProbeUnwind, Register, RegisterSkip, RegisterIsolate,
           RegisterAttach, RegisterDetach, serVars, Owns
  <2>3. CASE Suspend
    BY <2>3 DEF Suspend, Owns, Holding
  <2>4. CASE ResumeDes \/ Relink
    BY <2>1, <2>4 DEF ResumeDes, Relink, WakeSerializers, serVars, Owns, Holding
  <2> QED
    BY <2>2, <2>3, <2>4
<1>2. main' = "up" /\ ~leaked' => isolated' = None
  <2>1. CASE Probe
    BY <2>1, AdvanceType
       DEF LockInv, BaseInv, TypeOK, Probe, ProbeEnable, ProbeSelect, ProbeIsolate,
           ProbeTranslate, ProbeUnwind
  <2>2. CASE Register
    BY <2>2, AdvanceType
       DEF LockInv, BaseInv, TypeOK, Register, RegisterSkip, RegisterIsolate, RegisterAttach,
           RegisterDetach, DeisolateOk, DeisolateErr, bus
  <2>3. CASE Suspend \/ ResumeDes \/ Relink
    BY <2>3 DEF Suspend, ResumeDes, Relink, WakeSerializers, serVars
  <2> QED
    BY <2>1, <2>2, <2>3
<1> QED
  BY <1>1, <1>2 DEF IsolationHeld, HandedBack

\* A resume disturbs the isolation only when it takes it, and that needs it
\* free, or gives it back, and then it was its own.
LEMMA LockSer ==
    ASSUME LockInv, MayOverrun = FALSE, NEW l \in Links, ResumeSer(l)
    PROVE  (IsolationHeld /\ HandedBack)'
<1> USE DEF LockInv, IsolationHeld, HandedBack
<1>0. main = "up" /\ main' = "up" /\ pc \in [Links -> Running \cup Over]
      /\ isolated \in Links \cup {None} /\ None \notin Links
      /\ (pc[l] = "isolate" => selected = None)
  <2>1. main = "up" /\ main' = "up"
    BY DEF BaseInv, Quiet, Over, ResumeSer, ResumeIsolate, ReadVirt, ReadPhys, WriteAddr,
           Reread, VerifyDevId, EnableSer, RemapReset, Release, desVars
  <2> QED
    BY <2>1 DEF BaseInv, TypeOK, OnlyRegistered, SelectionFree, None, Links
<1>1. CASE ResumeIsolate(l)
  <2>1. CASE MayIsolate(l)
    <3>1. isolated' = l /\ pc[l] = "isolate" /\ leaked' = leaked
          /\ \E label \in {"read_virt", "verify", "release"} : Goto(l, label)
      BY <1>1, <2>1 DEF ResumeIsolate, IsolateOk, IsolateErr
    <3>2. ~leaked => \A m \in Links : ~Owns(m)
      BY <2>1, <1>0 DEF MayIsolate
    <3> QED
      BY <1>0, <3>1, <3>2 DEF Owns, Holding, Goto
  <2>2. CASE ~MayIsolate(l)
    <3>1. pc[l] = "isolate" /\ leaked' = leaked /\ (isolated = l \/ GivesUp)
      BY <1>1, <2>2 DEF ResumeIsolate, IsolateOk, IsolateErr
    <3>2. isolated # None
      BY <2>2, <3>1, <1>0 DEF MayIsolate
    <3>3. leaked
      <4> SUFFICES ASSUME ~leaked PROVE FALSE
        OBVIOUS
      <4>1. isolated \in Links /\ Owns(isolated)
        BY <1>0, <3>2
      <4>2. isolated # l
        BY <4>1, <3>1 DEF Owns, Holding
      <4> QED
        BY <4>1, <4>2, <3>1, MayOverrun = FALSE DEF GivesUp, Owns, Running
    <3> QED
      BY <3>1, <3>3
  <2> QED
    BY <2>1, <2>2
<1>2. CASE Release(l)
  <2>1. isolated' = None /\ leaked' = leaked /\ Goto(l, "done") /\ Owns(l)
    BY <1>2 DEF Release, Deisolate, DeisolateOk, DeisolateErr, Owns
  <2> QED
    BY <1>0, <2>1 DEF Owns, Holding, Goto
<1>3. CASE ReadVirt(l) \/ ReadPhys(l) \/ WriteAddr(l) \/ Reread(l) \/ VerifyDevId(l)
           \/ EnableSer(l) \/ RemapReset(l)
  <2>1. isolated' = isolated /\ Owns(l)
    BY <1>3 DEF ReadVirt, ReadPhys, WriteAddr, Reread, VerifyDevId, EnableSer, RemapReset,
                Owns, Holding
  <2>2. leaked' \/ (leaked' = leaked /\ \E label \in Holding \cup {"release"} : Goto(l, label))
    BY <1>3 DEF ReadVirt, ReadPhys, WriteAddr, Reread, VerifyDevId, EnableSer, RemapReset, Holding
  <2> QED
    BY <1>0, <2>1, <2>2 DEF Owns, Goto
<1> QED
  BY <1>1, <1>2, <1>3 DEF ResumeSer

LEMMA LockStep == ASSUME MayOverrun = FALSE PROVE LockInv /\ [Next]_vars => LockInv'
<1> SUFFICES ASSUME LockInv, [Next]_vars PROVE (IsolationHeld /\ HandedBack)'
  BY BaseStep DEF LockInv
<1>1. CASE UNCHANGED vars
  BY <1>1 DEF vars, desVars, bus, serVars, LockInv, IsolationHeld, HandedBack, Owns
<1> QED
  BY <1>1, LockDes, LockSer DEF Next

\* With any number of links no resume takes or clears the isolation of
\* another, as long as no wait runs out while the holder works.
THEOREM IsolationIsHeld == ASSUME MayOverrun = FALSE PROVE Spec => []IsolationHeld
<1>1. LockInv => IsolationHeld
  BY DEF LockInv
<1> QED
  BY <1>1, LockInit, LockStep, PTL DEF Spec

\* ... and none leaves its link isolated when it is over.
THEOREM IsolationHandedBack == ASSUME MayOverrun = FALSE PROVE Spec => []HandedBack
<1>1. LockInv => HandedBack
  BY DEF LockInv
<1> QED
  BY <1>1, LockInit, LockStep, PTL DEF Spec

----------------------------------------------------------------------------
(* The addresses *)

\* While a call works on link l of a MAX9296 only l is wired to the bus, and a
\* resume on its way out owns the isolation or has given up on a link whose
\* own resume will not touch it again.
OwnAddress == \A l \in Links : at[l] \in {Default, Virt(l)}
ProbeAlone == ~Gated /\ main = "translate" => wired = {next}
WorkAlone  == ~Gated => \A l \in Links : pc[l] \in Holding => isolated = l /\ wired = {l}
WayOut     == ~Gated => \A l \in Links : pc[l] = "release" =>
                  isolated = l \/ (isolated \in Links /\ pc[isolated] \notin Running)

\* A serializer that was identified at its address keeps it.
Answers == \A l \in Links :
    (pc[l] = "enable" \/ (ret[l] = "ok" /\ pc[l] \in {"release", "done"})) => at[l] = Virt(l)
RetLast == \A l \in Links : pc[l] \in Holding \cup {"isolate", "idle"} => ret[l] = "none"

AddrInv == BaseInv /\ OwnAddress /\ ProbeAlone /\ WorkAlone /\ WayOut /\ Answers /\ RetLast

\* The links of a chip without gated channels: there are two at most.
LEMMA TwoLinks ==
    ASSUME ~Gated, NEW l \in Links, NEW m \in Links, NEW n \in Links, l # m, l # n
    PROVE  m = n
BY ChipAssumption DEF Gated, Links

LEMMA VirtDistinct ==
    ASSUME NEW l \in Links, NEW m \in Links, Virt(l) = Virt(m)
    PROVE  l = m \/ Virt(l) = Default
BY DEF Virt

LEMMA AddrInit == Init => AddrInv
<1> SUFFICES ASSUME Init PROVE AddrInv
  OBVIOUS
<1> QED
  BY BaseInit DEF Init, AddrInv, OwnAddress, ProbeAlone, WorkAlone, WayOut, Answers,
                  RetLast, Holding

\* A transfer that reaches one serializer moves that one only.
LEMMA Alone ==
    ASSUME AddrInv, NEW l \in Links, Reached(l) = {l}, NEW old, NEW new
    PROVE  /\ \A m \in Links : m # l => Readdressed(l, old, new)[m] = at[m]
           /\ Readdressed(l, old, new)[l] = (IF at[l] = old THEN new ELSE at[l])
           /\ Answered(l, new) => at[l] = new
BY DEF Readdressed, Answered

\* The steps of the deserializer's own thread.
LEMMA AddrProbe == ASSUME AddrInv, Probe PROVE AddrInv'
<1> USE DEF AddrInv, BaseInv, TypeOK
<1>b. translated' = translated /\ \A m : Virt(m)' = Virt(m)
  BY BoardStays DEF Next
<1> USE <1>b
<1>1. BaseInv'
  BY BaseStep DEF Next
<1>2. OwnAddress'
  <2>1. CASE ProbeTranslate
    <3>1. Reached(next) = {next}
      BY <2>1 DEF ProbeTranslate, ProbeAlone, Reached
    <3>2. at' = at \/ at' = Readdressed(next, Default, Virt(next))
      BY <2>1 DEF ProbeTranslate
    <3> QED
      BY <3>1, <3>2, Alone DEF OwnAddress
  <2>2. CASE UNCHANGED at
    BY <2>2 DEF OwnAddress
  <2> QED
    BY <2>1, <2>2 DEF Probe, ProbeEnable, ProbeSelect, ProbeIsolate, ProbeUnwind
<1>3. ProbeAlone'
  BY AdvanceType DEF Probe, ProbeEnable, ProbeSelect, ProbeIsolate, ProbeTranslate,
                     ProbeUnwind, ProbeAlone, IsolateOk
<1>4. pc' = pc /\ ret' = ret
  BY DEF Probe, ProbeEnable, ProbeSelect, ProbeIsolate, ProbeTranslate, ProbeUnwind, serVars
<1>5. \A l \in Links : pc[l] = "idle"
  BY DEF Probe, ProbeEnable, ProbeSelect, ProbeIsolate, ProbeTranslate, ProbeUnwind,
         NotYet, ProbePhases, IdlePhases
<1> QED
  BY <1>1, <1>2, <1>3, <1>4, <1>5 DEF WorkAlone, WayOut, Answers, RetLast, Holding

LEMMA AddrRegister == ASSUME AddrInv, Register PROVE AddrInv'
<1> USE DEF AddrInv, BaseInv, TypeOK
<1>b. translated' = translated /\ \A m : Virt(m)' = Virt(m)
  BY BoardStays DEF Next
<1> USE <1>b
<1>1. BaseInv'
  BY BaseStep DEF Next
<1>2. OwnAddress'
  <2>1. CASE RegisterAttach
    BY <2>1 DEF RegisterAttach, OwnAddress
  <2>2. CASE UNCHANGED at
    BY <2>2 DEF OwnAddress
  <2> QED
    BY <2>1, <2>2 DEF Register, RegisterSkip, RegisterIsolate, RegisterDetach, bus
<1>3. ProbeAlone'
  BY AdvanceType DEF Register, RegisterSkip, RegisterIsolate, RegisterAttach,
                     RegisterDetach, ProbeAlone
<1>4. pc' = pc /\ ret' = ret
  BY DEF Register, RegisterSkip, RegisterIsolate, RegisterAttach, RegisterDetach, serVars
<1>5. \A l \in Links : pc[l] = "idle"
  BY DEF Register, RegisterSkip, RegisterIsolate, Registering, RegisterAttach,
         RegisterDetach, NotYet, IdlePhases
<1> QED
  BY <1>1, <1>2, <1>3, <1>4, <1>5 DEF WorkAlone, WayOut, Answers, RetLast, Holding

LEMMA AddrSleep == ASSUME AddrInv, Suspend \/ ResumeDes \/ Relink PROVE AddrInv'
<1> USE DEF AddrInv, BaseInv, TypeOK
<1>b. translated' = translated /\ \A m : Virt(m)' = Virt(m)
  BY BoardStays DEF Next
<1> USE <1>b
<1>1. BaseInv'
  BY BaseStep DEF Next
<1>2. OwnAddress'
  BY DEF Suspend, ResumeDes, Relink, OwnAddress
<1>3. ProbeAlone'
  BY AdvanceType DEF Suspend, ResumeDes, Relink, ProbeAlone
<1>4. \A l \in Links : pc'[l] \in Over \/ pc'[l] = "isolate"
  BY DEF Suspend, ResumeDes, Relink, WakeSerializers, serVars, Quiet, Over
<1>5. WorkAlone' /\ WayOut'
  BY <1>4 DEF WorkAlone, WayOut, Over, Holding
<1>6. Answers' /\ RetLast'
  <2>1. CASE Suspend
    BY <2>1 DEF Suspend, Answers, RetLast
  <2>2. CASE ResumeDes \/ Relink
    <3>1. \A l \in Links : pc[l] = "idle" /\ ret[l] = "none"
      BY <2>2 DEF ResumeDes, Relink, NotYet, IdlePhases, RetLast
    <3> QED
      BY <3>1, <2>2 DEF ResumeDes, Relink, WakeSerializers, serVars, Answers, RetLast, Holding
  <2> QED
    BY <2>1, <2>2
<1> QED
  BY <1>1, <1>2, <1>3, <1>5, <1>6

\* On a MAX9296 a resume that works is alone with the lock, and alone wired.
LEMMA OneAtWork ==
    ASSUME AddrInv, NEW l \in Links, pc[l] \in Holding
    PROVE  Reached(l) = {l} /\ (~Gated => isolated = l /\ \A m \in Links : m # l => ~Owns(m))
<1>1. CASE Gated
  BY <1>1 DEF Reached
<1>2. CASE ~Gated
  <2>1. isolated = l /\ wired = {l} /\ Reached(l) = {l}
    BY <1>2 DEF AddrInv, WorkAlone, Reached
  <2>2. ASSUME NEW m \in Links, m # l, Owns(m) PROVE FALSE
    BY <1>2, <2>1, <2>2 DEF AddrInv, WorkAlone, WayOut, Owns, Running
  <2> QED
    BY <1>2, <2>1, <2>2
<1> QED
  BY <1>1, <1>2

\* A resume that asks for the isolation, or gives it back.
LEMMA AddrIsolate ==
    ASSUME AddrInv, MayOverrun = FALSE, NEW l \in Links, ResumeIsolate(l)
    PROVE  (OwnAddress /\ ProbeAlone /\ WorkAlone /\ WayOut /\ Answers /\ RetLast)'
<1> USE DEF AddrInv
<1>b. translated' = translated /\ \A m : Virt(m)' = Virt(m)
  BY BoardStays DEF Next, ResumeSer
<1> USE <1>b
<1>0. /\ pc[l] = "isolate" /\ UNCHANGED <<at, main, next>> /\ main = "up"
      /\ pc \in [Links -> Running \cup Over] /\ ret \in [Links -> {"none", "ok", "error", "undone"}]
      /\ selected = None /\ None \notin Links /\ isolated \in Links \cup {None}
  BY DEF ResumeIsolate, BaseInv, TypeOK, OnlyRegistered, SelectionFree, desVars, None, Links
<1>1. OwnAddress' /\ ProbeAlone'
  BY <1>0 DEF OwnAddress, ProbeAlone
<1>2. ASSUME ~Gated, isolated = None
      PROVE  \A m \in Links : ~Owns(m)
  BY <1>0, <1>2 DEF WorkAlone, WayOut, Owns
<1>3. CASE IsolateOk(l) /\ UNCHANGED ret /\ Goto(l, IF l \in translated THEN "read_virt" ELSE "verify")
  <2>1. isolated = None /\ isolated' = l /\ ret' = ret /\ (~Gated => wired' = {l})
    BY <1>3 DEF IsolateOk, MayIsolate
  <2>2. /\ \A m \in Links : m # l => pc'[m] = pc[m]
        /\ pc'[l] \in {"read_virt", "verify"}
    BY <1>0, <1>3 DEF Goto
  <2>3. WorkAlone' /\ WayOut'
    BY <1>2, <2>1, <2>2 DEF WorkAlone, WayOut, Owns, Gated
  <2> QED
    BY <1>0, <1>1, <2>1, <2>2, <2>3 DEF Answers, RetLast
<1>4. CASE IsolateErr(l) /\ Goto(l, "release") /\ Return(l, "error")
  <2>1. /\ \A m \in Links : m # l => pc'[m] = pc[m] /\ ret'[m] = ret[m]
        /\ pc'[l] = "release" /\ ret'[l] = "error"
    BY <1>0, <1>4 DEF Goto, Return
  <2>2. Answers' /\ RetLast'
    BY <1>0, <2>1 DEF Answers, RetLast, Holding
  <2>3. CASE ~Gated /\ isolated = None /\ isolated' = l
    <3>1. WorkAlone' /\ WayOut'
      BY <1>2, <2>1, <2>3 DEF WorkAlone, WayOut, Owns, Holding, Gated
    <3> QED
      BY <1>1, <2>2, <3>1
  <2>4. CASE UNCHANGED <<isolated, wired>> /\ isolated \in Links /\ (isolated = l \/ GivesUp)
    <3>1. isolated = l \/ pc[isolated] \notin Running
      BY <2>4, MayOverrun = FALSE DEF GivesUp
    <3>2. WorkAlone'
      BY <2>1, <2>4 DEF WorkAlone, Holding, Gated
    <3>3. pc[l] \in Running
      BY <1>0 DEF Running
    <3>4. WayOut'
      BY <2>1, <2>4, <3>1, <3>3 DEF WayOut, Gated
    <3> QED
      BY <1>1, <2>2, <3>2, <3>4
  <2>5. \/ ~Gated /\ isolated = None /\ isolated' = l
        \/ UNCHANGED <<isolated, wired>> /\ isolated \in Links /\ (isolated = l \/ GivesUp)
    BY <1>0, <1>4 DEF IsolateErr, MayIsolate
  <2> QED
    BY <2>3, <2>4, <2>5
<1> QED
  BY <1>3, <1>4 DEF ResumeIsolate

LEMMA AddrRelease ==
    ASSUME AddrInv, NEW l \in Links, Release(l)
    PROVE  (OwnAddress /\ ProbeAlone /\ WorkAlone /\ WayOut /\ Answers /\ RetLast)'
<1> USE DEF AddrInv
<1>b. translated' = translated /\ \A m : Virt(m)' = Virt(m)
  BY BoardStays DEF Next, ResumeSer
<1> USE <1>b
<1>0. /\ pc[l] = "release" /\ UNCHANGED <<at, main, next, ret>> /\ isolated' = None
      /\ \A m \in Links : pc'[m] = IF m = l THEN "done" ELSE pc[m]
      /\ main = "up" /\ None \notin Links
  BY DEF Release, Deisolate, DeisolateOk, DeisolateErr, Goto, BaseInv, TypeOK, Quiet, Over,
         desVars, None, Links
<1>1. OwnAddress' /\ ProbeAlone' /\ Answers' /\ RetLast'
  BY <1>0 DEF OwnAddress, ProbeAlone, Answers, RetLast, Holding
<1>2. ASSUME ~Gated, NEW m \in Links, m # l PROVE ~Owns(m)
  <2>1. pc[m] \notin Holding
    BY <1>0, <1>2, OneAtWork DEF Owns
  <2>2. ASSUME pc[m] = "release" PROVE FALSE
    <3>1. isolated \in Links /\ pc[l] \in Running /\ pc[m] \in Running
      BY <1>0, <1>2, <2>2 DEF WayOut, Running
    <3>2. isolated = l \/ isolated = m
      BY <1>2, <3>1, TwoLinks
    <3> QED
      BY <1>0, <1>2, <2>2, <3>1, <3>2 DEF WayOut
  <2> QED
    BY <2>1, <2>2 DEF Owns
<1>3. WorkAlone' /\ WayOut'
  BY <1>0, <1>2 DEF WorkAlone, WayOut, Owns, Holding, Gated
<1> QED
  BY <1>1, <1>3

\* A resume at work on its serializer.
LEMMA AddrWork ==
    ASSUME AddrInv, NEW l \in Links,
           ReadVirt(l) \/ ReadPhys(l) \/ WriteAddr(l) \/ Reread(l) \/ VerifyDevId(l)
           \/ EnableSer(l) \/ RemapReset(l)
    PROVE  (OwnAddress /\ ProbeAlone /\ WorkAlone /\ WayOut /\ Answers /\ RetLast)'
<1> USE DEF AddrInv
<1>b. translated' = translated /\ \A m : Virt(m)' = Virt(m)
  BY BoardStays DEF Next, ResumeSer
<1> USE <1>b
<1>0. /\ pc[l] \in Holding /\ UNCHANGED <<main, next, isolated, wired>>
      /\ pc \in [Links -> Running \cup Over] /\ ret \in [Links -> {"none", "ok", "error", "undone"}]
  BY DEF ReadVirt, ReadPhys, WriteAddr, Reread, VerifyDevId, EnableSer, RemapReset, Holding,
         desVars, BaseInv, TypeOK
<1>1. Reached(l) = {l} /\ (~Gated => isolated = l /\ \A m \in Links : m # l => ~Owns(m))
  BY <1>0, OneAtWork
<1>2. /\ \A m \in Links : m # l => pc'[m] = pc[m] /\ ret'[m] = ret[m]
      /\ \/ pc'[l] \in Holding /\ ret'[l] = ret[l]
         \/ pc'[l] \in {"release", "stuck"} /\ ret'[l] \in {"ok", "error", "undone"}
  BY <1>0 DEF ReadVirt, ReadPhys, WriteAddr, Reread, VerifyDevId, EnableSer, RemapReset, Holding,
              Goto, Return
<1>3. /\ at' \in {at, Readdressed(l, Default, Virt(l)), Readdressed(l, Virt(l), Default)}
      /\ pc[l] \notin {"write", "undo"} => at' = at
  BY DEF ReadVirt, ReadPhys, WriteAddr, Reread, VerifyDevId, EnableSer, RemapReset
<1>4. OwnAddress' /\ \A m \in Links : m # l => at'[m] = at[m]
  BY <1>1, <1>3, Alone DEF OwnAddress
<1>5. ProbeAlone'
  BY <1>0 DEF ProbeAlone, Gated
<1>6. WorkAlone' /\ WayOut'
  BY <1>0, <1>1, <1>2 DEF WorkAlone, WayOut, Owns, Gated
<1>7. ret[l] = "none"
  BY <1>0 DEF RetLast
<1>8. RetLast'
  BY <1>2, <1>7 DEF RetLast, Holding
<1>9. pc'[l] = "enable" => at'[l] = Virt(l)
  <2>1. pc'[l] = "enable" => VerifyDevId(l) /\ Succeeds(l, Virt(l))
    BY <1>0 DEF ReadVirt, ReadPhys, WriteAddr, Reread, VerifyDevId, EnableSer, RemapReset, Goto
  <2> QED
    BY <1>1, <2>1 DEF VerifyDevId, Succeeds, Answered
<1>10. pc'[l] = "release" /\ ret'[l] = "ok" => at'[l] = Virt(l)
  <2>1. pc'[l] = "release" /\ ret'[l] = "ok" => EnableSer(l) /\ pc[l] = "enable"
    BY <1>0 DEF ReadVirt, ReadPhys, WriteAddr, Reread, VerifyDevId, EnableSer, RemapReset,
                Goto, Return
  <2> QED
    BY <2>1 DEF EnableSer, Answers
<1>11. Answers'
  <2>1. at'[l] = Virt(l) \/ ~(pc'[l] = "enable" \/ (ret'[l] = "ok" /\ pc'[l] \in {"release", "done"}))
    BY <1>2, <1>7, <1>9, <1>10 DEF Holding
  <2> QED
    BY <1>2, <1>4, <2>1 DEF Answers
<1> QED
  BY <1>4, <1>5, <1>6, <1>8, <1>11

LEMMA AddrStep == ASSUME MayOverrun = FALSE PROVE AddrInv /\ [Next]_vars => AddrInv'
<1> SUFFICES ASSUME AddrInv, [Next]_vars PROVE AddrInv'
  OBVIOUS
<1>b. translated' = translated /\ \A m : Virt(m)' = Virt(m)
  BY BoardStays
<1> USE <1>b
<1>1. CASE UNCHANGED vars
  <2>1. BaseInv'
    BY BaseStep DEF AddrInv
  <2> QED
    BY <1>1, <2>1 DEF AddrInv, vars, desVars, bus, serVars, OwnAddress, ProbeAlone, WorkAlone,
                WayOut, Answers, RetLast, Virt, Gated
<1>2. ASSUME NEW l \in Links, ResumeSer(l) PROVE AddrInv'
  <2>1. BaseInv'
    BY <1>2, BaseStep DEF AddrInv, Next
  <2> QED
    BY <1>2, <2>1, AddrIsolate, AddrRelease, AddrWork DEF AddrInv, ResumeSer
<1> QED
  BY <1>1, <1>2, AddrProbe, AddrRegister, AddrSleep DEF Next

\* No write ever moves two serializers, however many resumes fail or leave
\* their link isolated: the race the isolation is there to avoid is avoided.
THEOREM NoTwinsEver == ASSUME MayOverrun = FALSE PROVE Spec => []NoTwins
<1>1. AddrInv => NoTwins
  BY VirtDistinct DEF AddrInv, OwnAddress, NoTwins
<1> QED
  BY <1>1, AddrInit, AddrStep, PTL DEF Spec

\* A serializer whose resume succeeded stays alone at its own address.
THEOREM ResumedAddressable == ASSUME MayOverrun = FALSE PROVE Spec => []Addressable
<1>1. AddrInv => Addressable
  <2> SUFFICES ASSUME AddrInv, NEW l \in translated, pc[l] = "done", ret[l] = "ok",
                      NEW m \in Links
               PROVE  at[m] = Virt(l) <=> m = l
    BY DEF Addressable
  <2>1. l \in Links /\ Virt(l) = l /\ Default \notin Links
    BY DEF AddrInv, BaseInv, TypeOK, Virt, Default, Links
  <2>2. at[l] = Virt(l)
    BY <2>1 DEF AddrInv, Answers
  <2>3. at[m] = Virt(l) => m = l
    BY <2>1, VirtDistinct DEF AddrInv, OwnAddress
  <2> QED
    BY <2>2, <2>3
<1> QED
  BY <1>1, AddrInit, AddrStep, PTL DEF Spec

----------------------------------------------------------------------------
(* The bring-up without failures *)

RegisterPhases == {"register", "attach", "detach"}
ServicePhases  == {"up", "asleep", "relink"}

\* What each step of the probe of link next has achieved, and that the links
\* before it are found and have moved to their addresses.
ProbeKnows ==
    main \in ProbePhases =>
        /\ enabled = Links
        /\ \A m \in Links : at[m] \in {Default, Virt(m)} /\ (m < next => at[m] = Virt(m))
        /\ ~Gated => \A m \in Links :
              m < next \/ (m = next /\ main # "link") => m \in detected
ProbeHolds ==
    /\ main \in {"link", "select"} => isolated = None /\ selected = None
    /\ main = "isolate" => isolated = None /\ selected = next
    /\ main \in {"translate", "unwind"} => isolated = next /\ selected = next
    /\ main = "translate" /\ ~Gated => wired = {next}
    /\ main = "unwind" => at[next] = Virt(next)

\* The same of the registration, which finds every serializer at its address.
RegisterKnows ==
    main \in RegisterPhases =>
        /\ enabled = Links /\ selected = None /\ (~Gated => detected = Links)
        /\ \A m \in Links : at[m] = Virt(m) /\ (m < next => m \in registered)
RegisterHolds ==
    /\ main = "register" => isolated = None /\ (~Gated => wired = Links)
    /\ main \in {"attach", "detach"} => isolated = next
    /\ main = "attach" /\ ~Gated => wired = {next}
    /\ main = "detach" => next \in registered

\* Nothing is lost once the system is up.
ServiceKnows ==
    /\ main # "failed" /\ (main \notin ServicePhases => ~leaked)
    /\ main \in ServicePhases => registered = Links

SmoothInv == ProbeKnows /\ ProbeHolds /\ RegisterKnows /\ RegisterHolds /\ ServiceKnows

\* On a board with a link that keeps the physical address the probe goes as
\* well up to that link ...
Fresh ==
    /\ main \in ProbePhases /\ SmoothInv
    /\ \A m \in Links : m < next \/ (m = next /\ main = "unwind") => m \in translated

\* ... which stays isolated and selected: the links after it are passed over.
Barred ==
    /\ main \in {"link", "select"} /\ ~leaked
    /\ isolated \in Links /\ selected \in Links /\ selected < next /\ 0 \in enabled
    /\ ~Gated => \A m \in Links : m < next \/ (m = next /\ main # "link") => m \in detected

\* The registration then ends at its first link, whose isolation is refused.
Refused ==
    /\ main \in {"register", "detach"} /\ ~leaked
    /\ next = 0 /\ 0 \in enabled /\ isolated \in Links /\ (~Gated => detected = Links)

\* The system is up without a serializer, and nothing is cut off.
Deserted == main \in ServicePhases /\ (~Gated => detected = Links /\ wired = Links)

StrandedInv == registered = {} /\ (Fresh \/ Barred \/ Refused \/ Deserted)

BringUpInv ==
    BaseInv /\ (faults = 0 => IF translated = Links THEN SmoothInv ELSE StrandedInv)

----------------------------------------------------------------------------
(* The resume without failures, on a MAX9296 *)

LinksKnown ==
    main \in ServicePhases =>
        /\ enabled = Links /\ detected = Links /\ ~leaked
        /\ isolated = None => wired = Links
        /\ main # "up" => isolated = None

\* A resume finds its serializer at one of its two addresses, and knows which
\* from the transfers before.
NeverUndone == \A l \in Links : pc[l] \notin {"undo", "stuck"}
WorkKnown   == \A l \in Links :
    /\ pc[l] \in {"read_phys", "write"} => at[l] = Default
    /\ pc[l] \in {"reread", "verify"} => at[l] = Virt(l)

RestoreInv ==
    /\ LockInv /\ AddrInv
    /\ (faults = 0 /\ translated = Links) => LinksKnown /\ NeverUndone /\ WorkKnown

\* A step after which nothing has failed is one in which nothing failed.
LEMMA NothingFailed ==
    ASSUME TypeOK, faults' = 0
    PROVE  ~Fault /\ (Clean => faults = 0)
BY BoardAssumption DEF TypeOK, Fault, Clean

LEMMA FarFromDefault ==
    ASSUME NEW l \in Links
    PROVE  Virt(l) # Default <=> l \in translated
BY DEF Virt, Default, Links

\* Where the thread goes: to the next link, or past the last one.
LEMMA AdvanceCases ==
    ASSUME next \in Links, NEW phase, NEW after, Advance(phase, after)
    PROVE  \/ /\ main' = phase /\ next' = next + 1 /\ next' \in Links
              /\ \A m \in Links : m < next' => m < next \/ m = next
           \/ /\ main' = after /\ next' = 0
              /\ \A m \in Links : m < next \/ m = next
              /\ \A m \in Links : ~(m < next')
BY ChipAssumption DEF Advance, Links

LEMMA SmoothInit == Init => SmoothInv
BY DEF Init, SmoothInv, ProbeKnows, ProbeHolds, RegisterKnows, RegisterHolds, ServiceKnows,
       RegisterPhases, ServicePhases, Links

LEMMA SmoothProbe ==
    ASSUME BaseInv, SmoothInv, main = "translate" => next \in translated, Probe, faults' = 0
    PROVE  SmoothInv'
<1> USE DEF SmoothInv, RegisterPhases, ServicePhases, ProbePhases
<1>b. translated' = translated /\ \A m : Virt(m)' = Virt(m)
  BY BoardStays DEF Next
<1> USE <1>b
<1>0. ~Fault /\ next \in Links /\ enabled \subseteq Links /\ detected \subseteq Links
  BY NothingFailed DEF BaseInv, TypeOK
<1>1. CASE ProbeEnable
  <2>1. /\ main = "link" /\ main' = "select" /\ next' = next /\ enabled' = enabled
        /\ UNCHANGED <<isolated, selected, at, leaked>>
        /\ ~Gated => detected' = detected \cup {next}
    BY <1>0, <1>1 DEF ProbeEnable, EnableOk, EnableErr, serVars
  <2> QED
    BY <1>0, <2>1 DEF ProbeKnows, ProbeHolds, RegisterKnows, RegisterHolds, ServiceKnows, Virt, Default, Gated
<1>2. CASE ProbeSelect
  <2>1. /\ main = "select" /\ main' = "isolate" /\ next' = next /\ enabled' = enabled
        /\ UNCHANGED <<isolated, detected, at, leaked>> /\ selected' = next
    BY <1>0, <1>2 DEF ProbeSelect, ProbeHolds, serVars
  <2> QED
    BY <1>0, <2>1 DEF ProbeKnows, ProbeHolds, RegisterKnows, RegisterHolds, ServiceKnows, Virt, Default, Gated
<1>3. CASE ProbeIsolate
  <2>1. isolated = None /\ selected = next /\ next # None
    BY <1>0, <1>3 DEF ProbeIsolate, ProbeHolds, None, Links
  <2>2. /\ main = "isolate" /\ main' = "translate" /\ next' = next /\ enabled' = enabled
        /\ UNCHANGED <<selected, detected, at, leaked>> /\ isolated' = next
        /\ ~Gated => wired' = {next}
    BY <1>0, <1>3, <2>1 DEF ProbeIsolate, IsolateOk, IsolateErr, MayIsolate, serVars
  <2> QED
    BY <1>0, <2>1, <2>2 DEF ProbeKnows, ProbeHolds, RegisterKnows, RegisterHolds, ServiceKnows, Virt, Default, Gated
<1>4. CASE ProbeTranslate
  <2>1. Reached(next) = {next} /\ Virt(next) # Default /\ at[next] \in {Default, Virt(next)}
    BY <1>0, <1>4, FarFromDefault DEF ProbeTranslate, ProbeHolds, Reached, ProbeKnows
  <2>2. at \in [Links -> Links \cup {Default}]
    BY DEF BaseInv, TypeOK
  <2>3. /\ main = "translate" /\ main' = "unwind" /\ next' = next /\ enabled' = enabled
        /\ UNCHANGED <<isolated, selected, detected, leaked>>
        /\ at'[next] = Virt(next) /\ \A m \in Links : m # next => at'[m] = at[m]
    BY <1>0, <1>4, <2>1, <2>2
       DEF ProbeTranslate, Succeeds, Fails, Answered, Readdressed, serVars
  <2> QED
    BY <1>0, <2>1, <2>3 DEF ProbeKnows, ProbeHolds, RegisterKnows, RegisterHolds, ServiceKnows, Virt, Default, Gated
<1>5. CASE ProbeUnwind
  <2>1. /\ main = "unwind" /\ UNCHANGED <<enabled, detected, at, leaked>>
        /\ selected' = None /\ isolated' = None /\ (~Gated => wired' = detected)
        /\ Advance("link", "register")
    BY <1>0, <1>5 DEF ProbeUnwind, Deisolate, DeisolateOk, DeisolateErr, ProbeKnows, serVars
  <2>2. /\ enabled = Links /\ \A m \in Links : m < next \/ m = next => at[m] = Virt(m)
        /\ \A m \in Links : at[m] \in {Default, Virt(m)}
        /\ ~Gated => \A m \in Links : m < next \/ m = next => m \in detected
    BY <2>1 DEF ProbeKnows, ProbeHolds
  <2>3. CASE main' = "link" /\ next' \in Links
             /\ \A m \in Links : m < next' => m < next \/ m = next
    BY <2>1, <2>2, <2>3 DEF ProbeKnows, ProbeHolds, RegisterKnows, RegisterHolds, ServiceKnows, Virt, Default, Gated
  <2>4. CASE main' = "register" /\ next' = 0 /\ (\A m \in Links : m < next \/ m = next)
             /\ \A m \in Links : ~(m < next')
    <3>1. (\A m \in Links : at[m] = Virt(m)) /\ (~Gated => detected = Links)
      BY <1>0, <2>2, <2>4
    <3> QED
      BY <2>1, <2>2, <2>4, <3>1 DEF ProbeKnows, ProbeHolds, RegisterKnows, RegisterHolds, ServiceKnows, Virt, Default, Gated
  <2> QED
    BY <1>0, <2>1, <2>3, <2>4, AdvanceCases
<1> QED
  BY <1>1, <1>2, <1>3, <1>4, <1>5 DEF Probe

LEMMA SmoothRegister ==
    ASSUME BaseInv, SmoothInv, Register, faults' = 0
    PROVE  SmoothInv'
<1> USE DEF SmoothInv, RegisterPhases, ServicePhases, ProbePhases
<1>b. translated' = translated /\ \A m : Virt(m)' = Virt(m)
  BY BoardStays DEF Next
<1> USE <1>b
<1>0. ~Fault /\ next \in Links /\ registered \subseteq Links /\ next # None
  BY NothingFailed DEF BaseInv, TypeOK, None, Links
<1>1. ~RegisterSkip
  BY <1>0 DEF RegisterSkip, RegisterKnows
<1>2. CASE RegisterIsolate
  <2>1. isolated = None /\ selected = None
    BY <1>2 DEF RegisterIsolate, Registering, RegisterHolds, RegisterKnows
  <2>2. /\ main = "register" /\ main' = "attach" /\ isolated' = next
        /\ ~Gated => wired' = {next}
        /\ UNCHANGED <<next, enabled, detected, registered, selected, at, leaked>>
    BY <1>0, <1>2, <2>1
       DEF RegisterIsolate, Registering, IsolateOk, IsolateErr, MayIsolate, serVars
  <2> QED
    BY <2>1, <2>2 DEF ProbeKnows, ProbeHolds, RegisterKnows, RegisterHolds, ServiceKnows, Virt, Default, Gated
<1>3. CASE RegisterAttach
  <2>1. next \in Reached(next) /\ at[next] = Virt(next)
    BY <1>0, <1>3 DEF RegisterAttach, RegisterHolds, RegisterKnows, Reached
  <2>2. /\ main = "attach" /\ main' = "detach" /\ registered' = registered \cup {next}
        /\ at' = [at EXCEPT ![next] = Virt(next)] /\ selected' = None
        /\ UNCHANGED <<next, enabled, detected, isolated, leaked>>
    BY <1>0, <1>3, <2>1 DEF RegisterAttach, Succeeds, Answered, serVars
  <2>3. at' = at
    BY <2>1, <2>2 DEF BaseInv, TypeOK
  <2> QED
    BY <1>0, <2>2, <2>3 DEF ProbeKnows, ProbeHolds, RegisterKnows, RegisterHolds, ServiceKnows, Virt, Default, Gated
<1>4. CASE RegisterDetach
  <2>1. /\ main = "detach" /\ UNCHANGED <<enabled, detected, registered, selected, at, leaked>>
        /\ isolated' = None /\ (~Gated => wired' = detected) /\ Advance("register", "up")
    BY <1>0, <1>4 DEF RegisterDetach, DeisolateOk, DeisolateErr, RegisterKnows, RegisterHolds, serVars
  <2>2. /\ enabled = Links /\ selected = None /\ (~Gated => detected = Links) /\ ~leaked
        /\ \A m \in Links : at[m] = Virt(m) /\ (m < next \/ m = next => m \in registered)
    BY <2>1 DEF RegisterKnows, RegisterHolds, ServiceKnows
  <2>3. CASE main' = "register" /\ next' \in Links
             /\ \A m \in Links : m < next' => m < next \/ m = next
    BY <2>1, <2>2, <2>3 DEF ProbeKnows, ProbeHolds, RegisterKnows, RegisterHolds, ServiceKnows, Virt, Default, Gated
  <2>4. CASE main' = "up" /\ \A m \in Links : m < next \/ m = next
    BY <1>0, <2>1, <2>2, <2>4 DEF ProbeKnows, ProbeHolds, RegisterKnows, RegisterHolds, ServiceKnows
  <2> QED
    BY <1>0, <2>1, <2>3, <2>4, AdvanceCases
<1> QED
  BY <1>1, <1>2, <1>3, <1>4 DEF Register

\* Registration over, no step changes what is registered.
LEMMA SmoothService ==
    ASSUME BaseInv, SmoothInv,
           \/ Suspend \/ ResumeDes \/ Relink
           \/ \E l \in Links : ResumeSer(l)
    PROVE  ProbeKnows' /\ ProbeHolds' /\ RegisterKnows' /\ RegisterHolds'
           /\ main' \in ServicePhases /\ registered' = Links
<1>1. main \in ServicePhases /\ main' \in ServicePhases /\ registered' = registered
  <2>1. CASE Suspend \/ ResumeDes \/ Relink
    BY <2>1, AdvanceType DEF Suspend, ResumeDes, Relink, ServicePhases, BaseInv, TypeOK
  <2>2. ASSUME NEW l \in Links, ResumeSer(l)
        PROVE  main = "up" /\ main' = main /\ registered' = registered
    BY <2>2 DEF BaseInv, Quiet, Over, ResumeSer, ResumeIsolate, ReadVirt, ReadPhys, WriteAddr,
           Reread, VerifyDevId, EnableSer, RemapReset, Release, desVars
  <2> QED
    BY <2>1, <2>2 DEF ServicePhases
<1> QED
  BY <1>1 DEF SmoothInv, ServiceKnows, ProbeKnows, ProbeHolds, RegisterKnows, RegisterHolds,
              ProbePhases, RegisterPhases, ServicePhases

\* A link stays isolated and selected, and the thread turns to the next one.
LEMMA StrandedAdvance ==
    ASSUME next \in Links, Advance("link", "register"),
           UNCHANGED <<detected, isolated, selected, leaked>>,
           0 \in enabled', isolated \in Links, selected \in Links, ~leaked,
           selected < next \/ selected = next, detected \subseteq Links,
           ~Gated => \A m \in Links : m < next \/ m = next => m \in detected
    PROVE  (Barred \/ Refused)'
<1>1. CASE main' = "link" /\ next' = next + 1 /\ \A m \in Links : m < next' => m < next \/ m = next
  <2>1. selected' < next'
    BY <1>1 DEF Links
  <2> QED
    BY <1>1, <2>1 DEF Barred, Gated
<1>2. CASE main' = "register" /\ next' = 0 /\ \A m \in Links : m < next \/ m = next
  BY <1>2 DEF Refused, Gated
<1> QED
  BY <1>1, <1>2, AdvanceCases

\* The probe of a board with a link that keeps the physical address.
LEMMA StrandedProbe ==
    ASSUME BaseInv, StrandedInv, translated # Links, Probe, faults' = 0
    PROVE  StrandedInv'
<1>b. translated' = translated /\ \A m : Virt(m)' = Virt(m)
  BY BoardStays DEF Next
<1>0. /\ ~Fault /\ next \in Links /\ registered' = {} /\ main \in ProbePhases
      /\ translated \subseteq Links /\ next' \in Links /\ detected \subseteq Links
      /\ None \notin Links
  BY NothingFailed, AdvanceType
     DEF BaseInv, TypeOK, StrandedInv, Probe, ProbeEnable, ProbeSelect, ProbeIsolate,
         ProbeTranslate, ProbeUnwind, ProbePhases, serVars, None, Links
<1>1. CASE Fresh /\ (main = "translate" => next \in translated)
  <2>1. SmoothInv'
    BY <1>1, SmoothProbe DEF Fresh
  <2>2. \/ main' \in ProbePhases /\ next' = next /\ main # "unwind"
           /\ (main' = "unwind" => main = "translate")
        \/ main = "unwind" /\ Advance("link", "register")
    <3>1. CASE ProbeEnable
      BY <1>0, <3>1 DEF ProbeEnable, EnableErr, ProbePhases
    <3>2. CASE ProbeSelect
      BY <1>0, <1>1, <3>2 DEF Fresh, SmoothInv, ProbeHolds, ProbeSelect, ProbePhases
    <3>3. CASE ProbeIsolate
      BY <1>0, <1>1, <3>3
         DEF Fresh, SmoothInv, ProbeHolds, ProbeIsolate, IsolateErr, MayIsolate, ProbePhases
    <3>4. CASE ProbeTranslate
      BY <1>0, <1>1, <3>4, FarFromDefault DEF ProbeTranslate, ProbePhases
    <3>5. CASE ProbeUnwind
      BY <3>5 DEF ProbeUnwind
    <3> QED
      BY <3>1, <3>2, <3>3, <3>4, <3>5 DEF Probe
  <2>3. CASE main' \in ProbePhases /\ next' = next /\ main # "unwind"
             /\ (main' = "unwind" => main = "translate")
    BY <1>b, <1>0, <1>1, <2>1, <2>3 DEF Fresh, StrandedInv
  <2>4. CASE main = "unwind" /\ Advance("link", "register")
    <3>1. \A m \in Links : m < next \/ m = next => m \in translated
      BY <1>1, <2>4 DEF Fresh
    <3>2. main' = "link" /\ \A m \in Links : m < next' => m < next \/ m = next
      BY <1>0, <2>4, <3>1, AdvanceCases
    <3> QED
      BY <1>b, <1>0, <2>1, <3>1, <3>2 DEF Fresh, StrandedInv, ProbePhases
  <2> QED
    BY <2>2, <2>3, <2>4
<1>2. CASE Fresh /\ main = "translate" /\ next \notin translated
  <2>1. /\ enabled = Links /\ isolated = next /\ selected = next /\ ~leaked
        /\ ~Gated => \A m \in Links : m < next \/ m = next => m \in detected
    BY <1>2 DEF Fresh, SmoothInv, ProbeKnows, ProbeHolds, ServiceKnows, ProbePhases, ServicePhases
  <2>2. Virt(next) = Default
    BY <1>2 DEF Virt
  <2>3. /\ Advance("link", "register")
        /\ UNCHANGED <<enabled, detected, isolated, selected, leaked>>
    BY <1>2, <2>2 DEF Probe, ProbeEnable, ProbeSelect, ProbeIsolate, ProbeTranslate, ProbeUnwind,
                      serVars
  <2>4. 0 \in enabled' /\ isolated \in Links /\ selected \in Links
    BY <1>0, <2>1, <2>3, ChipAssumption DEF Links
  <2> QED
    BY <1>0, <2>1, <2>3, <2>4, StrandedAdvance DEF StrandedInv
<1>3. CASE Barred /\ main = "link"
  <2>1. /\ main' = "select" /\ UNCHANGED <<next, enabled, isolated, selected, leaked>>
        /\ ~Gated => detected' = detected \cup {next}
    BY <1>0, <1>3 DEF Probe, ProbeEnable, EnableOk, EnableErr, ProbeSelect, ProbeIsolate,
                      ProbeTranslate, ProbeUnwind, serVars
  <2> QED
    BY <1>0, <1>3, <2>1 DEF Barred, StrandedInv, Gated
<1>4. CASE Barred /\ main = "select"
  <2>1. selected # None /\ selected # next /\ next # 0
    BY <1>0, <1>4 DEF Barred, None, Links
  <2>2. /\ enabled' = enabled \ {next} /\ Advance("link", "register")
        /\ UNCHANGED <<detected, isolated, selected, leaked>>
    BY <1>0, <1>4, <2>1 DEF Probe, ProbeEnable, ProbeSelect, ProbeIsolate,
                      ProbeTranslate, ProbeUnwind, serVars
  <2>3. /\ 0 \in enabled' /\ isolated \in Links /\ selected \in Links /\ ~leaked
        /\ (selected < next \/ selected = next)
        /\ ~Gated => \A m \in Links : m < next \/ m = next => m \in detected
    BY <1>4, <2>1, <2>2 DEF Barred
  <2> QED
    BY <1>0, <2>2, <2>3, StrandedAdvance DEF StrandedInv
<1> QED
  BY <1>0, <1>1, <1>2, <1>3, <1>4 DEF StrandedInv, Barred, Refused, Deserted, ProbePhases,
                                      ServicePhases

LEMMA StrandedRegister ==
    ASSUME BaseInv, StrandedInv, Register, faults' = 0
    PROVE  StrandedInv'
<1>0. ~Fault /\ main \in {"register", "attach", "detach"} /\ 0 \in Links
  BY NothingFailed, ChipAssumption
     DEF BaseInv, Register, RegisterSkip, RegisterIsolate, Registering, RegisterAttach,
         RegisterDetach, Links
<1>1. registered = {} /\ Refused
  BY <1>0 DEF StrandedInv, Fresh, Barred, Deserted, ProbePhases, ServicePhases
<1>2. CASE RegisterIsolate
  <2>1. ~MayIsolate(next)
    BY <1>1 DEF Refused, MayIsolate, None, Links
  <2>2. /\ main' = "detach"
        /\ UNCHANGED <<isolated, next, enabled, detected, registered, leaked>>
    BY <1>2, <2>1 DEF RegisterIsolate, IsolateOk, IsolateErr, serVars
  <2> QED
    BY <1>1, <2>2 DEF Refused, StrandedInv, Gated
<1>3. CASE RegisterDetach
  <2>1. ~DeisolateErr
    BY <1>0, <1>1 DEF DeisolateErr, Refused
  <2>2. /\ main' = "up" /\ UNCHANGED <<detected, registered>>
        /\ ~Gated => wired' = detected
    BY <1>1, <1>3, <2>1 DEF RegisterDetach, DeisolateOk
  <2> QED
    BY <1>1, <2>2 DEF Refused, Deserted, StrandedInv, Gated, ServicePhases
<1> QED
  BY <1>0, <1>1, <1>2, <1>3 DEF Register, RegisterSkip, RegisterAttach, Refused

\* Without serializers nothing but the deserializer sleeps and wakes.
LEMMA StrandedService ==
    ASSUME BaseInv, StrandedInv, faults' = 0,
           \/ Suspend \/ ResumeDes \/ Relink
           \/ \E l \in Links : ResumeSer(l)
    PROVE  StrandedInv'
<1>0. ~Fault /\ next \in Links /\ registered = {} /\ detected \subseteq Links
  BY NothingFailed DEF BaseInv, TypeOK, StrandedInv
<1>1. ASSUME NEW l \in Links, ResumeSer(l) PROVE FALSE
  BY <1>0, <1>1 DEF BaseInv, OnlyRegistered, ResumeSer, ResumeIsolate, ReadVirt, ReadPhys,
         WriteAddr, Reread, VerifyDevId, EnableSer, RemapReset, Release
<1>2. Deserted
  BY <1>1 DEF StrandedInv, Fresh, Barred, Refused, ProbePhases, Suspend, ResumeDes, Relink
<1>3. /\ main' \in ServicePhases /\ registered' = {}
      /\ ~Gated => detected' = Links /\ wired' = Links
  <2>1. CASE Suspend
    BY <1>0, <1>2, <2>1 DEF Suspend, Deserted, ServicePhases
  <2>2. CASE ResumeDes
    BY <1>0, <1>2, <2>2 DEF ResumeDes, Deserted, ServicePhases
  <2>3. CASE Relink
    BY <1>0, <1>2, <2>3, AdvanceType DEF Relink, EnableOk, EnableErr, Deserted, ServicePhases
  <2> QED
    BY <1>1, <2>1, <2>2, <2>3
<1> QED
  BY <1>3 DEF StrandedInv, Deserted, Gated

\* Failures are never forgotten.
LEMMA FailuresLast == ASSUME TypeOK, Next, faults' = 0 PROVE faults = 0
<1> SUFFICES Clean \/ Fault
  BY NothingFailed
<1> USE DEF IsolateOk, IsolateErr, Deisolate, DeisolateOk, DeisolateErr, EnableOk, EnableErr,
            Succeeds, Fails
<1>1. CASE Probe
  BY <1>1 DEF Probe, ProbeEnable, ProbeSelect, ProbeIsolate, ProbeTranslate, ProbeUnwind
<1>2. CASE Register
  <2>1. RegisterSkip => Clean
    BY DEF RegisterSkip, bus, Clean
  <2> QED
    BY <1>2, <2>1 DEF Register, RegisterIsolate, RegisterAttach, RegisterDetach
<1>3. CASE Suspend \/ ResumeDes \/ Relink
  BY <1>3 DEF Suspend, ResumeDes, Relink, Clean
<1>4. ASSUME NEW l \in Links, ResumeSer(l) PROVE Clean \/ Fault
  BY <1>4 DEF ResumeSer, ResumeIsolate, ReadVirt, ReadPhys, WriteAddr, Reread, VerifyDevId,
              EnableSer, RemapReset, Release
<1> QED
  BY <1>1, <1>2, <1>3, <1>4 DEF Next

LEMMA BringUpStep == BringUpInv /\ [Next]_vars => BringUpInv'
<1> SUFFICES ASSUME BringUpInv, [Next]_vars, faults' = 0
             PROVE  IF translated = Links THEN SmoothInv' ELSE StrandedInv'
  BY BaseStep, BoardStays DEF BringUpInv
<1>1. CASE UNCHANGED vars
  BY <1>1 DEF BringUpInv, vars, desVars, bus, serVars, SmoothInv, ProbeKnows, ProbeHolds,
              RegisterKnows, RegisterHolds, ServiceKnows, Virt, Default, Gated,
              StrandedInv, Fresh, Barred, Refused, Deserted
<1>2. CASE Next
  <2>1. faults = 0 /\ next \in Links
    BY <1>2, FailuresLast DEF BringUpInv, BaseInv, TypeOK
  <2>2. CASE translated = Links
    BY <1>2, <2>1, <2>2, SmoothProbe, SmoothRegister, SmoothService
       DEF BringUpInv, Next, SmoothInv, ServiceKnows, ServicePhases
  <2>3. CASE translated # Links
    BY <1>2, <2>1, <2>3, StrandedProbe, StrandedRegister, StrandedService
       DEF BringUpInv, Next
  <2> QED
    BY <2>2, <2>3
<1> QED
  BY <1>1, <1>2

\* Whatever the board, the bring-up starts well.
LEMMA BringUpInit == Init => BringUpInv
<1> SUFFICES ASSUME Init PROVE BringUpInv
  OBVIOUS
<1>1. BaseInv /\ SmoothInv
  BY BaseInit, SmoothInit
<1>2. Fresh /\ registered = {}
  BY <1>1 DEF Init, Fresh, ProbePhases, Links
<1> QED
  BY <1>1, <1>2 DEF BringUpInv, StrandedInv

\* Without a failure the bring-up registers the serializer of every link if
\* every link has an address of its own, and none at all if one has not: on
\* either chip, whatever number of links there is and whichever serializers
\* still had the address of an earlier session.
THEOREM EverySerializerRegistered == Spec => []AllRegistered
<1>1. BringUpInv => AllRegistered
  BY DEF BringUpInv, SmoothInv, ServiceKnows, ServicePhases, StrandedInv, AllRegistered
<1> QED
  BY <1>1, BringUpInit, BringUpStep, PTL DEF Spec

Restoring == LinksKnown /\ NeverUndone /\ WorkKnown

\* The deserializer's own thread: registration hands over with nothing cut off,
\* and waking up finds and wires every link again.
LEMMA RestoreThread ==
    ASSUME RestoreInv, SmoothInv, Restoring, ~Gated, faults' = 0,
           Probe \/ Register \/ Suspend \/ ResumeDes \/ Relink
    PROVE  Restoring'
<1> USE DEF ServicePhases
<1>0. /\ ~Fault /\ next \in Links /\ main # "failed"
      /\ isolated \in Links \cup {None} /\ registered \subseteq Links
      /\ enabled \subseteq Links /\ detected \subseteq Links
      /\ (main # "up" => \A l \in Links : pc[l] \in Over)
  BY NothingFailed DEF RestoreInv, LockInv, BaseInv, TypeOK, Quiet, SmoothInv, ServiceKnows
<1>1. \A l \in Links : pc'[l] \in Over \cup {"isolate"} /\ pc'[l] # "stuck"
  BY <1>0 DEF Probe, ProbeEnable, ProbeSelect, ProbeIsolate, ProbeTranslate, ProbeUnwind,
         Register, RegisterSkip, RegisterIsolate, Registering, RegisterAttach, RegisterDetach,
         Suspend, ResumeDes, Relink, WakeSerializers, serVars, Over, Restoring, NeverUndone
<1>2. NeverUndone' /\ WorkKnown'
  BY <1>1 DEF NeverUndone, WorkKnown, Over
<1>3. CASE Probe
  <2>1. main' \notin ServicePhases
    BY <1>0, <1>3, AdvanceType
       DEF Probe, ProbeEnable, ProbeSelect, ProbeIsolate, ProbeTranslate, ProbeUnwind
  <2> QED
    BY <1>2, <2>1 DEF Restoring, LinksKnown
<1>4. CASE Register
  <2>1. CASE main' = "up"
    <3>1. ~RegisterSkip
      BY <1>0 DEF RegisterSkip, SmoothInv, RegisterKnows, RegisterPhases
    <3>2. RegisterDetach
      BY <1>4, <2>1, <3>1 DEF Register, RegisterIsolate, RegisterAttach
    <3>3. enabled = Links /\ detected = Links /\ ~leaked
      BY <3>2 DEF RegisterDetach, SmoothInv, RegisterKnows, RegisterPhases, ServiceKnows
    <3>4. /\ UNCHANGED <<enabled, detected, leaked>> /\ isolated' = None /\ wired' = Links
      BY <1>0, <2>1, <3>2, <3>3 DEF RegisterDetach, DeisolateOk, DeisolateErr, serVars
    <3> QED
      BY <1>2, <3>3, <3>4 DEF Restoring, LinksKnown
  <2>2. main' \notin {"asleep", "relink"}
    BY <1>0, <1>4, AdvanceType
       DEF Register, RegisterSkip, RegisterIsolate, RegisterAttach, RegisterDetach
  <2> QED
    BY <1>2, <2>1, <2>2 DEF Restoring, LinksKnown
<1>5. CASE Suspend
  <2>1. /\ main = "up" /\ main' = "asleep" /\ wired' \in {wired, Links}
        /\ UNCHANGED <<enabled, detected, isolated, leaked>>
        /\ \A l \in Links : pc[l] \in Over
    BY <1>5 DEF Suspend
  <2>2. isolated = None
    BY <1>0, <2>1 DEF RestoreInv, LockInv, HandedBack, Restoring, LinksKnown, Owns, Over, Holding
  <2> QED
    BY <1>2, <2>1, <2>2 DEF Restoring, LinksKnown
<1>6. CASE ResumeDes
  BY <1>0, <1>2, <1>6 DEF ResumeDes, Restoring, LinksKnown, serVars
<1>7. CASE Relink
  <2>1. next \in enabled /\ EnableOk(next) /\ ~Fault
    BY <1>0, <1>7 DEF Relink, EnableErr, Restoring, LinksKnown
  <2>2. enabled' = Links /\ detected' = Links /\ wired' = Links /\ isolated' = None /\ ~leaked'
    BY <1>0, <1>7, <2>1
       DEF Relink, EnableOk, EnableErr, Restoring, LinksKnown, WakeSerializers
  <2> QED
    BY <1>2, <2>2 DEF Restoring, LinksKnown
<1> QED
  BY <1>3, <1>4, <1>5, <1>6, <1>7

\* A resume always gets the isolation in the end, works with a serializer that
\* answers, and wires all the links again when it is over.
LEMMA RestoreSer ==
    ASSUME RestoreInv, SmoothInv, Restoring, MayOverrun = FALSE, ~Gated, faults' = 0,
           NEW l \in Links, ResumeSer(l)
    PROVE  Restoring'
<1>b. translated' = translated /\ \A m : Virt(m)' = Virt(m)
  BY BoardStays DEF Next
<1> USE <1>b
<1>0. /\ ~Fault /\ main = "up" /\ UNCHANGED desVars /\ None \notin Links
      /\ isolated \in Links \cup {None} /\ pc \in [Links -> Running \cup Over]
      /\ at \in [Links -> Links \cup {Default}] /\ l \in registered /\ selected = None
      /\ enabled = Links /\ detected = Links /\ ~leaked
      /\ at[l] \in {Default, Virt(l)}
  <2>1. ~Fault
    BY NothingFailed DEF RestoreInv, LockInv, BaseInv
  <2>2. main = "up" /\ UNCHANGED desVars /\ pc[l] \notin Over
    BY DEF RestoreInv, LockInv, BaseInv, Quiet, Over, ResumeSer, ResumeIsolate, ReadVirt,
           ReadPhys, WriteAddr, Reread, VerifyDevId, EnableSer, RemapReset, Release, desVars
  <2>3. l \in registered /\ selected = None
    BY <2>2 DEF RestoreInv, LockInv, BaseInv, OnlyRegistered, SelectionFree, Over
  <2> QED
    BY <2>1, <2>2, <2>3 DEF RestoreInv, LockInv, AddrInv, BaseInv, TypeOK, OwnAddress,
                            Restoring, LinksKnown, ServicePhases, None, Links
<1>1. CASE ResumeIsolate(l)
  <2>1. IsolateOk(l) /\ isolated = None
    <3>1. CASE IsolateOk(l)
      BY <3>1 DEF IsolateOk, MayIsolate
    <3>2. CASE IsolateErr(l)
      <4>1. ~MayIsolate(l) /\ (isolated = l \/ GivesUp)
        BY <1>0, <3>2 DEF IsolateErr
      <4>2. isolated # None
        BY <1>0, <4>1 DEF MayIsolate
      <4>3. Owns(isolated) /\ isolated \in Links
        BY <1>0, <4>2 DEF RestoreInv, LockInv, HandedBack
      <4>4. isolated # l
        BY <1>1, <4>3 DEF ResumeIsolate, Owns, Holding
      <4> QED
        BY <4>1, <4>3, <4>4, MayOverrun = FALSE DEF GivesUp, Owns, Running
    <3> QED
      BY <1>1, <3>1, <3>2 DEF ResumeIsolate
  <2>2. /\ isolated' = l /\ UNCHANGED <<at, leaked>>
        /\ \A m \in Links : m # l => pc'[m] = pc[m]
        /\ \/ pc'[l] = "read_virt"
           \/ l \notin translated /\ pc'[l] = "verify"
           \/ pc'[l] = "release"
    BY <1>0, <1>1, <2>1 DEF ResumeIsolate, IsolateOk, Goto
  <2>3. l \notin translated => at[l] = Virt(l)
    BY <1>0 DEF Virt
  <2> QED
    BY <1>0, <2>2, <2>3 DEF Restoring, LinksKnown, NeverUndone, WorkKnown, Virt, Default, desVars
<1>2. CASE Release(l)
  <2>1. /\ isolated' = None /\ wired' = Links /\ UNCHANGED <<at, leaked>>
        /\ \A m \in Links : pc'[m] = IF m = l THEN "done" ELSE pc[m]
    <3>1. 0 \in Links
      BY ChipAssumption DEF Links
    <3> QED
      BY <1>0, <1>2, <3>1 DEF Release, Deisolate, DeisolateOk, DeisolateErr, Goto
  <2> QED
    BY <1>0, <2>1 DEF Restoring, LinksKnown, NeverUndone, WorkKnown, Virt, Default, desVars
<1>3. CASE ReadVirt(l) \/ ReadPhys(l) \/ WriteAddr(l) \/ Reread(l) \/ VerifyDevId(l)
           \/ EnableSer(l) \/ RemapReset(l)
  <2>1. pc[l] \in Holding /\ pc[l] # "undo" /\ UNCHANGED <<isolated, wired>>
    BY <1>3 DEF ReadVirt, ReadPhys, WriteAddr, Reread, VerifyDevId, EnableSer, RemapReset,
                Holding, Restoring, NeverUndone
  <2>2. Reached(l) = {l} /\ isolated = l
    BY <2>1, OneAtWork DEF RestoreInv
  <2>3. Readdressed(l, Default, Virt(l)) =
            [m \in Links |-> IF m = l /\ at[l] = Default THEN Virt(l) ELSE at[m]]
    BY <1>0, <2>2 DEF Readdressed
  <2>4. /\ UNCHANGED leaked /\ \A m \in Links : m # l => pc'[m] = pc[m] /\ at'[m] = at[m]
        /\ pc'[l] \notin {"undo", "stuck"}
        /\ pc'[l] \in {"read_phys", "write"} => at'[l] = Default
        /\ pc'[l] \in {"reread", "verify"} => at'[l] = Virt(l)
    BY <1>0, <1>3, <2>1, <2>2, <2>3
       DEF ReadVirt, ReadPhys, WriteAddr, Reread, VerifyDevId, EnableSer, RemapReset,
           Succeeds, Fails, Answered, Goto, Restoring, WorkKnown
  <2> QED
    BY <1>0, <2>1, <2>2, <2>4 DEF Restoring, LinksKnown, NeverUndone, WorkKnown, Virt, Default, desVars
<1> QED
  BY <1>1, <1>2, <1>3 DEF ResumeSer

LEMMA RestoreStep ==
    ASSUME MayOverrun = FALSE, ~Gated
    PROVE  RestoreInv /\ BringUpInv /\ [Next]_vars => RestoreInv' /\ BringUpInv'
<1> SUFFICES ASSUME RestoreInv, BringUpInv, [Next]_vars PROVE RestoreInv' /\ BringUpInv'
  OBVIOUS
<1>1. BringUpInv' /\ LockInv' /\ AddrInv'
  BY BringUpStep, LockStep, AddrStep DEF RestoreInv
<1>b. translated' = translated /\ \A m : Virt(m)' = Virt(m)
  BY BoardStays
<1>2. ASSUME faults' = 0, translated = Links PROVE Restoring'
  <2>1. CASE UNCHANGED vars
    BY <1>b, <1>2, <2>1 DEF RestoreInv, vars, desVars, bus, serVars, Restoring, LinksKnown,
                NeverUndone, WorkKnown, Virt, Default
  <2>2. CASE Next
    <3>1. faults = 0 /\ SmoothInv /\ Restoring
      BY <1>2, <2>2, FailuresLast DEF BringUpInv, BaseInv, RestoreInv, Restoring
    <3> QED
      BY <1>2, <2>2, <3>1, RestoreThread, RestoreSer DEF Next
  <2> QED
    BY <2>1, <2>2
<1> QED
  BY <1>b, <1>1, <1>2 DEF RestoreInv, BringUpInv, Restoring

\* Without a failure no link of a MAX9296 stays cut off once the resumes are
\* over: the last one to give the isolation back wires them all.
THEOREM LinksAlwaysRestored ==
    ASSUME MayOverrun = FALSE PROVE Spec => []LinksRestored
<1>1. CASE Gated
  <2>1. TypeOK => LinksRestored
    BY <1>1 DEF LinksRestored
  <2> QED
    BY <2>1, TypeInit, TypeStep, PTL DEF Spec
<1>2. CASE ~Gated
  <2>1. Init => RestoreInv /\ BringUpInv
    BY BringUpInit, LockInit, AddrInit
       DEF RestoreInv, Init, LinksKnown, NeverUndone, WorkKnown, ServicePhases
  <2>2. RestoreInv /\ BringUpInv => LinksRestored
    <3> SUFFICES ASSUME RestoreInv, BringUpInv, main = "up", faults = 0,
                        \A l \in Links : pc[l] \in Over
                 PROVE  wired = Links
      BY DEF LinksRestored
    <3>0. CASE translated # Links
      BY <1>2, <3>0 DEF BringUpInv, StrandedInv, Fresh, Barred, Refused, Deserted, ProbePhases
    <3> SUFFICES ASSUME translated = Links PROVE wired = Links
      BY <3>0
    <3>1. ~leaked /\ (isolated = None => wired = Links) /\ isolated \in Links \cup {None}
      BY DEF RestoreInv, LinksKnown, ServicePhases, LockInv, BaseInv, TypeOK
    <3>2. isolated = None
      BY <3>1 DEF RestoreInv, LockInv, HandedBack, Owns, Over, Holding
    <3> QED
      BY <3>1, <3>2
  <2>3. RestoreInv /\ BringUpInv /\ [Next]_vars => RestoreInv' /\ BringUpInv'
    BY <1>2, RestoreStep
  <2> QED
    BY <2>1, <2>2, <2>3, PTL DEF Spec
<1> QED
  BY <1>1, <1>2
=============================================================================
