---------------------------- MODULE Max9xIsolate ----------------------------
(***************************************************************************)
(* How the max9x deserializer core (max9x/serdes.c) brings up, registers   *)
(* and wakes the serializers behind its links.                             *)
(*                                                                         *)
(* All serializers power up at the same I2C address.  Each is moved to an  *)
(* address of its own while its link is "isolated", and one lock word,     *)
(* common->isolated_link, says which link that is; isolate_mutex protects  *)
(* the word but is not held across the work.  Probing and registration run *)
(* in one thread.  At resume the serializers wake concurrently, each in a  *)
(* thread of its own, and compete for the isolation.                       *)
(*                                                                         *)
(* Chip is the deserializer: the MAX9296 has two links and isolates by     *)
(* wiring only one of them to the bus; the MAX96724 has four, opens the    *)
(* control channel of one link per transfer, and has no isolate callback.  *)
(***************************************************************************)
EXTENDS Integers, FiniteSets

CONSTANTS
    Chip,         \* "max9296" or "max96724"
    NumLinks,     \* common->num_serial_links
    Boards,       \* the choices of links with an address of their own
    MayOverrun,   \* whether a wait may exceed its 10 s while the holder works
    MaxFaults,    \* bound on the I2C, lock and allocation failures
    MaxNaps       \* bound on the suspend and resume cycles

Links == 0 .. NumLinks - 1
None  == -1       \* isolated_link and selected_link of nobody

ASSUME ChipAssumption ==
    /\ Chip \in {"max9296", "max96724"}
    /\ NumLinks \in Nat \ {0}
    /\ Chip = "max9296" => NumLinks <= 2

ASSUME BoardAssumption ==
    /\ Boards \subseteq SUBSET Links /\ MayOverrun \in BOOLEAN
    /\ MaxFaults \in Nat /\ MaxNaps \in Nat

VARIABLES
    translated,  \* links whose virtual address differs from the physical one
    main,        \* where the deserializer's own thread is
    next,        \* the link that thread works on
    enabled,     \* serial_link[].enabled
    detected,    \* serial_link[].detected
    registered,  \* links whose serializer has a client, remote.client
    isolated,    \* common->isolated_link
    selected,    \* common->selected_link
    wired,       \* links LINK_CFG of a MAX9296 connects to the bus
    at,          \* the I2C address each serializer answers
    pc,          \* where the resume of each serializer is
    ret,         \* what it returned; "undone" is 0 after remap_reset()
    leaked,      \* a finished call left its link isolated (history)
    faults,      \* failures so far
    naps         \* resumes so far

desVars == <<translated, main, next, enabled, detected, registered, naps>>
bus     == <<isolated, selected, wired, at, faults>>
serVars == <<pc, ret, leaked>>
vars    == <<desVars, bus, serVars>>

----------------------------------------------------------------------------
(* Addresses and what a transfer reaches *)

\* The address every serializer has after power-up or reset, pdata->phys_addr.
Default == -1

\* pdata->board_info.addr, which may be the physical address.
Virt(l) == IF l \in translated THEN l ELSE Default

Gated == Chip = "max96724"

\* The serializers a transfer through the adapter of link l arrives at.  Mutant:
\* no control channel is ever closed.
ReachedUngated(l) == wired

Reached(l) == IF Gated THEN {l} ELSE wired

Answered(l, addr) == \E m \in Reached(l) : at[m] = addr

\* Every serializer reached at address old takes the address new.
Readdressed(l, old, new) ==
    [m \in Links |-> IF m \in Reached(l) /\ at[m] = old THEN new ELSE at[m]]

Clean == UNCHANGED faults
Fault == faults < MaxFaults /\ faults' = faults + 1

\* A register access with all its retries.
Succeeds(l, addr) == Answered(l, addr) /\ Clean
Fails(l, addr)    == (~Answered(l, addr) /\ Clean) \/ Fault

----------------------------------------------------------------------------
(* Isolation *)

Holding == {"read_virt", "read_phys", "write", "reread", "verify", "enable", "undo"}
Running == Holding \cup {"isolate", "release"}
Over    == {"idle", "done", "stuck"}

\* Mutant: a link waits for the selection only.
MayIsolateAnyway(l) == selected \in {None, l}

MayIsolate(l) == isolated = None /\ selected \in {None, l}

\* A wait of 10 s ends when nobody is left to end it, or by an overrun.
GivesUp == MayOverrun \/ isolated \notin {m \in Links : pc[m] \in Running}

\* Mutant: the lock word is taken without wiring the link alone.
IsolateOkShared(l) ==
    /\ MayIsolate(l)
    /\ isolated' = l
    /\ UNCHANGED wired
    /\ Clean

IsolateOk(l) ==
    /\ MayIsolate(l)
    /\ isolated' = l
    /\ wired' = IF Gated THEN wired ELSE {l}
    /\ Clean

\* -EINVAL on a link that is already isolated, -ETIMEDOUT, or the error of a
\* chip that lost the link: then isolated_link is set all the same.  Mutant:
\* the wait has no time-out.
IsolateErrPatient(l) ==
    \/ /\ MayIsolate(l) /\ ~Gated
       /\ isolated' = l /\ wired' \in {wired, {l}}
       /\ Fault
    \/ /\ isolated = l
       /\ UNCHANGED <<isolated, wired>> /\ Clean

IsolateErr(l) ==
    \/ /\ MayIsolate(l) /\ ~Gated
       /\ isolated' = l /\ wired' \in {wired, {l}}
       /\ Fault
    \/ /\ ~MayIsolate(l) /\ (isolated = l \/ GivesUp)
       /\ UNCHANGED <<isolated, wired>> /\ Clean

\* Deisolation does not ask who isolated, and frees the word in any case.
\* Mutants: the chip's register or the lock word is forgotten.
DeisolateOkUnwired ==
    /\ Gated \/ detected # {}
    /\ isolated' = None
    /\ UNCHANGED wired
    /\ Clean

DeisolateOkLocked ==
    /\ Gated \/ detected # {}
    /\ UNCHANGED isolated
    /\ wired' = IF Gated THEN wired ELSE detected
    /\ Clean

DeisolateOk ==
    /\ Gated \/ detected # {}
    /\ isolated' = None
    /\ wired' = IF Gated THEN wired ELSE detected
    /\ Clean

\* Mutant: an error of the chip returns before the lock word is freed.
DeisolateErrLocked ==
    /\ ~Gated
    /\ UNCHANGED isolated
    /\ \/ detected = {} /\ UNCHANGED wired /\ Clean
       \/ detected # {} /\ wired' \in {wired, detected} /\ Fault

DeisolateErr ==
    /\ ~Gated
    /\ isolated' = None
    /\ \/ detected = {} /\ UNCHANGED wired /\ Clean
       \/ detected # {} /\ wired' \in {wired, detected} /\ Fault

Deisolate == DeisolateOk \/ DeisolateErr

----------------------------------------------------------------------------
(* Probing: max9x_create_adapters(), one link after the other *)

Init ==
    /\ translated \in Boards /\ main = "link" /\ next = 0
    /\ enabled = Links /\ detected = {} /\ registered = {}
    /\ isolated = None /\ selected = None /\ wired = Links
    /\ at \in [Links -> Links \cup {Default}]
    /\ \A l \in Links : at[l] \in {Default, Virt(l)}
    /\ pc = [l \in Links |-> "idle"] /\ ret = [l \in Links |-> "none"]
    /\ leaked = FALSE /\ faults = 0 /\ naps = 0

\* The thread turns to the next link, or from the last one to phase after.
\* Mutant: off by one.
AdvanceTooFar(phase, after) ==
    IF next < NumLinks THEN main' = phase /\ next' = next + 1
                       ELSE main' = after /\ next' = 0

Advance(phase, after) ==
    IF next + 1 < NumLinks THEN main' = phase /\ next' = next + 1
                           ELSE main' = after /\ next' = 0

\* The MAX9296 wires one link to find its serializer, then all it has found.
EnableOk(l) ==
    IF Gated THEN UNCHANGED <<detected, wired>> /\ Clean
    ELSE /\ detected' = detected \cup {l}
         /\ \/ wired' = detected \cup {l} /\ Clean
            \/ wired' = {l} /\ Fault

EnableErr(l) ==
    /\ Fault
    /\ \/ UNCHANGED <<detected, wired>>
       \/ ~Gated /\ wired' = {l} /\ detected' \in {detected, detected \cup {l}}

ProbeEnable ==
    /\ main = "link"
    /\ \/ EnableOk(next) /\ main' = "select" /\ UNCHANGED <<next, enabled>>
       \/ /\ EnableErr(next)
          /\ enabled' = enabled \ {next} /\ Advance("link", "register")
       \/ \* no sysfs file: the link stays enabled but is passed over
          /\ Fault /\ Advance("link", "register")
          /\ UNCHANGED <<enabled, detected, wired>>
    /\ UNCHANGED <<translated, registered, isolated, selected, at, serVars, naps>>

\* max9x_select_i2c_chan(): the selection stays when the chip's part fails.
ProbeSelect ==
    /\ main = "select"
    /\ \/ /\ selected \in {None, next} /\ selected' = next /\ Clean
          /\ main' = "isolate" /\ UNCHANGED <<next, enabled>>
       \/ /\ \/ selected \in {None, next} /\ Gated /\ selected' = next /\ Fault
             \/ selected \notin {None, next} /\ UNCHANGED selected /\ Clean
          /\ enabled' = enabled \ {next} /\ Advance("link", "register")
    /\ UNCHANGED <<translated, detected, registered, isolated, wired, at, serVars, naps>>

ProbeIsolate ==
    /\ main = "isolate"
    /\ \/ IsolateOk(next) /\ main' = "translate" /\ UNCHANGED enabled
       \/ IsolateErr(next) /\ main' = "unwind" /\ enabled' = enabled \ {next}
    /\ UNCHANGED <<translated, next, detected, registered, selected, at, serVars, naps>>

\* Two early returns leave the link isolated and selected.
ProbeTranslate ==
    LET l == next IN
    /\ main = "translate"
    /\ \/ /\ Virt(l) = Default
          /\ Advance("link", "register") /\ UNCHANGED <<enabled, at>> /\ Clean
       \/ /\ Virt(l) # Default
          /\ Fault
          /\ enabled' = enabled \ {l} /\ Advance("link", "register")
          /\ UNCHANGED at
       \/ /\ Virt(l) # Default
          /\ \/ Succeeds(l, Virt(l)) /\ UNCHANGED <<enabled, at>>
             \/ Fault /\ UNCHANGED <<enabled, at>>  \* no regmap, reported as 0
             \/ /\ ~Answered(l, Virt(l)) /\ Succeeds(l, Default)
                /\ at' = Readdressed(l, Default, Virt(l)) /\ UNCHANGED enabled
             \/ /\ ~Answered(l, Virt(l)) /\ Fails(l, Default)
                /\ at' \in {at, Readdressed(l, Default, Virt(l))}
                /\ enabled' = enabled \ {l}
          /\ main' = "unwind" /\ UNCHANGED next
    /\ UNCHANGED <<translated, detected, registered, isolated, selected, wired, serVars, naps>>

\* Mutant: the channel is not deselected.
ProbeUnwindSelected ==
    /\ main = "unwind"
    /\ Deisolate /\ UNCHANGED selected
    /\ Advance("link", "register")
    /\ UNCHANGED <<translated, enabled, detected, registered, at, serVars, naps>>

ProbeUnwind ==
    /\ main = "unwind"
    /\ Deisolate /\ selected' = None
    /\ Advance("link", "register")
    /\ UNCHANGED <<translated, enabled, detected, registered, at, serVars, naps>>

----------------------------------------------------------------------------
(* Registration: max9x_registered(), which probes the serializers *)

Registering == main = "register" /\ next \in enabled

RegisterSkip ==
    /\ main = "register" /\ next \notin enabled
    /\ Advance("register", "up")
    /\ leaked' = (main' = "up" /\ isolated # None)
    /\ UNCHANGED <<translated, enabled, detected, registered, bus, pc, ret, naps>>

RegisterIsolate ==
    /\ Registering
    /\ \/ IsolateOk(next) /\ main' = "attach"
       \/ IsolateErr(next) /\ main' = "detach"
    /\ UNCHANGED <<translated, next, enabled, detected, registered, selected, at, serVars, naps>>

\* The serializer's own probe: identify it at its address, reset it, which
\* takes it to the default address, and move it back.
RegisterAttach ==
    LET l == next IN
    /\ main = "attach"
    /\ \/ Succeeds(l, Virt(l)) /\ registered' = registered \cup {l}
          /\ at' = [at EXCEPT ![l] = Virt(l)]
       \/ /\ ~Answered(l, Virt(l)) /\ Clean /\ UNCHANGED <<registered, at>>
       \/ /\ Answered(l, Virt(l)) /\ Fault /\ UNCHANGED registered
          /\ \E addr \in {at[l], Default, Virt(l)} : at' = [at EXCEPT ![l] = addr]
    /\ main' = "detach" /\ selected' = None
    /\ UNCHANGED <<translated, next, enabled, detected, isolated, wired, serVars, naps>>

\* A serializer that did not register ends the loop: PTR_ERR(NULL) is 0.
RegisterDetach ==
    /\ main = "detach"
    /\ \/ DeisolateErr /\ main' = "failed" /\ UNCHANGED next
       \/ DeisolateOk /\ next \notin registered /\ main' = "up" /\ next' = 0
       \/ DeisolateOk /\ next \in registered /\ Advance("register", "up")
    /\ UNCHANGED <<translated, enabled, detected, registered, selected, at, serVars, naps>>

----------------------------------------------------------------------------
(* Suspend, and the resume of the deserializer *)

\* The regulators may cut the power of a serializer or of the deserializer.
Suspend ==
    /\ main = "up" /\ naps < MaxNaps /\ \A l \in Links : pc[l] \in Over
    /\ main' = "asleep" /\ naps' = naps + 1
    /\ \E off \in SUBSET Links :
          at' = [l \in Links |-> IF l \in off THEN Default ELSE at[l]]
    /\ wired' \in {wired, Links}
    /\ pc' = [l \in Links |-> "idle"] /\ ret' = [l \in Links |-> "none"]
    /\ UNCHANGED <<translated, next, enabled, detected, registered, isolated, selected,
                   leaked, faults>>

\* The serializers wake after the deserializer, whatever it returned.
WakeSerializers ==
    /\ pc' = [l \in Links |-> IF l \in registered THEN "isolate" ELSE "idle"]
    /\ leaked' = (isolated # None)

ResumeDes ==
    /\ main = "asleep"
    /\ \/ main' = "relink" /\ Clean /\ UNCHANGED serVars
       \/ main' = "up" /\ Fault /\ WakeSerializers /\ UNCHANGED ret
    /\ UNCHANGED <<translated, next, enabled, detected, registered, isolated, selected, wired, at, naps>>

\* max9x_create_adapters_resume(), one link
Relink ==
    /\ main = "relink"
    /\ \/ next \notin enabled /\ UNCHANGED <<enabled, detected, wired, faults>>
       \/ next \in enabled /\ EnableOk(next) /\ UNCHANGED enabled
       \/ next \in enabled /\ EnableErr(next) /\ enabled' = enabled \ {next}
    /\ Advance("relink", "up")
    /\ IF main' = "up" THEN WakeSerializers ELSE UNCHANGED <<pc, leaked>>
    /\ UNCHANGED <<translated, registered, isolated, selected, at, ret, naps>>

----------------------------------------------------------------------------
(* The resume of the serializer of link l: max9x_common_resume() *)

Goto(l, label) == pc' = [pc EXCEPT ![l] = label]
Return(l, val) == ret' = [ret EXCEPT ![l] = val]

ResumeIsolate(l) ==
    /\ main = "up" /\ pc[l] = "isolate"
    /\ \/ /\ IsolateOk(l) /\ UNCHANGED ret
          /\ Goto(l, IF l \in translated THEN "read_virt" ELSE "verify")
       \/ IsolateErr(l) /\ Goto(l, "release") /\ Return(l, "error")
    /\ UNCHANGED <<desVars, selected, at, leaked>>

\* No client or register map for the physical address, or "Remap not
\* necessary" when the serializer has kept its own.
ReadVirt(l) ==
    /\ pc[l] = "read_virt"
    /\ \/ Fault /\ Goto(l, "release") /\ Return(l, "error")
       \/ Succeeds(l, Virt(l)) /\ Goto(l, "verify") /\ UNCHANGED ret
       \/ Fails(l, Virt(l)) /\ Goto(l, "read_phys") /\ UNCHANGED ret
    /\ UNCHANGED <<desVars, isolated, selected, wired, at, leaked>>

ReadPhys(l) ==
    /\ pc[l] = "read_phys"
    /\ \/ Succeeds(l, Default) /\ Goto(l, "write") /\ UNCHANGED ret
       \/ Fails(l, Default) /\ Goto(l, "release") /\ Return(l, "error")
    /\ UNCHANGED <<desVars, isolated, selected, wired, at, leaked>>

\* A write that reports an error may have arrived.
WriteAddr(l) ==
    /\ pc[l] = "write"
    /\ \/ /\ Succeeds(l, Default) /\ Goto(l, "reread") /\ UNCHANGED ret
          /\ at' = Readdressed(l, Default, Virt(l))
       \/ /\ Fails(l, Default) /\ Goto(l, "release") /\ Return(l, "error")
          /\ at' \in {at, Readdressed(l, Default, Virt(l))}
    /\ UNCHANGED <<desVars, isolated, selected, wired, leaked>>

Reread(l) ==
    /\ pc[l] = "reread"
    /\ \/ Succeeds(l, Virt(l)) /\ Goto(l, "verify") /\ UNCHANGED ret
       \/ Fails(l, Virt(l)) /\ Goto(l, "release") /\ Return(l, "error")
    /\ UNCHANGED <<desVars, isolated, selected, wired, at, leaked>>

\* max9x_verify_devid(); the physical map is gone since the end of the probe
VerifyDevId(l) ==
    /\ pc[l] = "verify"
    /\ \/ Succeeds(l, Virt(l)) /\ Goto(l, "enable")
       \/ Fails(l, Virt(l)) /\ Goto(l, "undo")
    /\ UNCHANGED <<desVars, isolated, selected, wired, at, ret, leaked>>

\* max9x_enable_resume() and the links, whose failures are not reported
EnableSer(l) ==
    /\ pc[l] = "enable"
    /\ \/ Clean /\ Goto(l, "release") /\ Return(l, "ok")
       \/ Fault /\ Goto(l, "undo") /\ UNCHANGED ret
    /\ UNCHANGED <<desVars, isolated, selected, wired, at, leaked>>

\* remap_reset(): its success replaces the error, its failure skips the
\* deisolation.
RemapReset(l) ==
    /\ pc[l] = "undo"
    /\ \/ /\ Succeeds(l, Virt(l)) /\ Goto(l, "release") /\ Return(l, "undone")
          /\ at' = Readdressed(l, Virt(l), Default) /\ UNCHANGED leaked
       \/ /\ Fails(l, Virt(l)) /\ Goto(l, "stuck") /\ Return(l, "error")
          /\ at' \in {at, Readdressed(l, Virt(l), Default)} /\ leaked' = TRUE
    /\ UNCHANGED <<desVars, isolated, selected, wired>>

Release(l) ==
    /\ pc[l] = "release"
    /\ Deisolate /\ Goto(l, "done")
    /\ UNCHANGED <<desVars, selected, at, ret, leaked>>

ResumeSer(l) ==
    \/ ResumeIsolate(l) \/ ReadVirt(l) \/ ReadPhys(l) \/ WriteAddr(l) \/ Reread(l)
    \/ VerifyDevId(l) \/ EnableSer(l) \/ RemapReset(l) \/ Release(l)

Probe    == ProbeEnable \/ ProbeSelect \/ ProbeIsolate \/ ProbeTranslate \/ ProbeUnwind
Register == RegisterSkip \/ RegisterIsolate \/ RegisterAttach \/ RegisterDetach

Next ==
    \/ Probe \/ Register \/ Suspend \/ ResumeDes \/ Relink
    \/ \E l \in Links : ResumeSer(l)

Spec == Init /\ [][Next]_vars

\* The power management core keeps scheduling every resume it has started.
FairSpec == Spec /\ \A l \in Links : WF_vars(ResumeSer(l))

----------------------------------------------------------------------------
(* Properties *)

\* Every variable has values of its type.
TypeOK ==
    /\ translated \subseteq Links
    /\ main \in {"link", "select", "isolate", "translate", "unwind", "register",
                 "attach", "detach", "failed", "up", "asleep", "relink"}
    /\ next \in Links
    /\ enabled \subseteq Links /\ detected \subseteq Links /\ registered \subseteq Links
    /\ isolated \in Links \cup {None} /\ selected \in Links \cup {None}
    /\ wired \subseteq Links
    /\ at \in [Links -> Links \cup {Default}]
    /\ pc \in [Links -> Running \cup Over]
    /\ ret \in [Links -> {"none", "ok", "error", "undone"}]
    /\ leaked \in BOOLEAN /\ faults \in 0 .. MaxFaults /\ naps \in 0 .. MaxNaps

Owns(l) == pc[l] \in Holding \cup {"release"}

\* A resume that was given the isolation keeps it until it gives it back: no
\* sibling takes it or clears it, unless an earlier call left a link isolated.
IsolationHeld == ~leaked => \A l \in Links : Owns(l) => isolated = l

\* Conversely the link is never left isolated by a resume that is over: the
\* siblings that still wait will get it.
HandedBack == (main = "up" /\ ~leaked /\ isolated # None) => Owns(isolated)

\* No two serializers answer at the same address, the default one excepted: a
\* write meant for one never moves the other (the race that isolation avoids).
NoTwins == \A l, m \in Links : at[l] = at[m] => l = m \/ at[l] = Default

\* A resume that succeeded leaves its serializer answering at its own address
\* and alone there, whatever its siblings do afterwards.
Addressable ==
    \A l \in translated : (pc[l] = "done" /\ ret[l] = "ok") =>
        \A m \in Links : at[m] = Virt(l) <=> m = l

\* Without a failure the bring-up registers the serializer of every link, if
\* every link has an address of its own.  One that has not stays isolated and
\* selected after its probe, and then no link at all gets its serializer.
AllRegistered ==
    (main = "up" /\ faults = 0) =>
        registered = IF translated = Links THEN Links ELSE {}

\* Without a failure no link is cut off once every resume is over.
LinksRestored ==
    (main = "up" /\ faults = 0 /\ ~Gated /\ \A l \in Links : pc[l] \in Over) => wired = Links

\* Every serializer that starts to resume finishes, also the one whose
\* siblings failed and left their link isolated.
ResumesFinish == \A l \in Links : pc[l] = "isolate" ~> pc[l] \in {"done", "stuck"}
=============================================================================
