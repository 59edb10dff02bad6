-------------------------- MODULE ContainerRun_proofs --------------------------
(***************************************************************************)
(* Proofs about ContainerRun: a launch runs nothing but a binary that is   *)
(* whole and signed, a container is its run's, and a run gives back what   *)
(* it took.                                                                *)
(***************************************************************************)
EXTENDS ContainerRun, TLAPS

PcSet == Starting \cup DOMAIN UnwindFrom \cup {"idle", "other", "delete", "reset"}
Thrown == {"manager", "tty", "create", "boot", "start", "wait", "stop"}
Holds == {"boot", "start", "wait", "stop", "delete"}

(* What RunEndsWell needs to know of a launch that has not ended. *)
Kept(l) ==
    /\ pc[l] \in {"create", "reset"} \cup Holds => saved[l] = found[l]
    /\ pc[l] \in Starting \cup {"manager", "tty", "other"} => term[l] = found[l]
    /\ pc[l] \notin {"idle", "delete", "reset"} => result[l] = None
    /\ (result[l] = "ok") => guest[l] = 0
    /\ (pc[l] = "idle" /\ result[l] # "killed") => term[l] \in {found[l], "stuck"}

(* What OnlySignedRuns needs to know: first runs are alone with their tool, and
   each of their steps finds what the one before has made. *)
Alone ==
    \A l, o \in Launch :
        (l # o /\ pc[l] \in Starting /\ pc[o] \in Starting /\ tool[l] = tool[o])
          => bin[tool[l]] # "none"

Ready(l) ==
    /\ pc[l] \in First => bin[tool[l]] = "none"
    /\ pc[l] \in {"copy", "copying"} => product[tool[l]] = "whole"
    /\ pc[l] = "sign" => tmp[tool[l]] = "whole" /\ tool[l] \in Signed
    /\ pc[l] = "install" => tmp[tool[l]] = Usable(tool[l])
    /\ pc[l] \notin {"idle", "check"} \cup First => bin[tool[l]] = Usable(tool[l])

OwnInv ==
    /\ TypeOK
    /\ \A l \in Launch : Kept(l)
    /\ ContainerHasItsRun

RunInv ==
    /\ OwnInv
    /\ \A t \in Tool : bin[t] \in {"none", Usable(t)}
    /\ Alone
    /\ \A l \in Launch : Ready(l)

(* An unwound step comes to one of three places. *)
LEMMA Unwinding ==
    /\ DOMAIN UnwindFrom = Thrown
    /\ UnwindFrom["manager"] = "idle" /\ UnwindFrom["tty"] = "idle"
    /\ UnwindFrom["create"] = "reset"
    /\ \A p \in Thrown \ {"manager", "tty", "create"} : UnwindFrom[p] = "delete"
BY DEF UnwindFrom, Thrown

LEMMA PcSetIs ==
    PcSet = {"idle", "check", "exec", "stage", "compile", "link", "copy", "copying", "sign",
             "install", "manager", "tty", "create", "boot", "start", "wait", "stop",
             "other", "delete", "reset"}
BY Unwinding DEF PcSet, Starting, First, Thrown

--------------------------------------------------------------------------------
(* The types. *)
LEMMA TypesAtFirst == Init => TypeOK
BY RunAssumption DEF Init, TypeOK, CacheInit, CacheTypeOK, File, Mode, Starting, First

LEMMA GotoTypes ==
    ASSUME NEW l \in Launch, NEW q \in PcSet, TypeOK, Goto(l, q)
    PROVE  /\ pc' \in [Launch -> PcSet] /\ tool' = tool
           /\ pc' = [pc EXCEPT ![l] = q] /\ pc'[l] = q
BY DEF TypeOK, Goto, PcSet

LEMMA PrepareTypes ==
    ASSUME NEW l \in Launch, TypeOK, PrepareTool(l)
    PROVE  TypeOK'
<1>1. pc \in [Launch -> PcSet] /\ tool \in [Launch -> Tool] /\ CacheTypeOK
  BY DEF TypeOK, PcSet
<1>2. result' \in [Launch -> Result \cup {None}]
  BY DEF PrepareTool, TypeOK, Result
<1>3. UNCHANGED <<id, box, term, saved, found, guest>>
  BY DEF PrepareTool
<1>4. pc' \in [Launch -> PcSet] /\ tool' = tool /\ CacheTypeOK'
  <2>1. CASE CheckBin(l)
    BY <1>1, <2>1, PcSetIs DEF CheckBin, Goto, cache, CacheTypeOK
  <2>2. CASE Stage(l)
    BY <1>1, <2>2, PcSetIs DEF Stage, Goto, CacheTypeOK, File
  <2>3. CASE Compile(l)
    BY <1>1, <2>3, PcSetIs DEF Compile, Goto, CacheTypeOK, File
  <2>4. CASE Link(l)
    BY <1>1, <2>4, PcSetIs DEF Link, Goto, CacheTypeOK, File
  <2>5. CASE Copy(l)
    BY <1>1, <2>5, PcSetIs DEF Copy, Goto, CacheTypeOK, File
  <2>6. CASE Copied(l)
    BY <1>1, <2>6, PcSetIs DEF Copied, Goto, CacheTypeOK, File
  <2>7. CASE Sign(l)
    BY <1>1, <2>7, PcSetIs DEF Sign, Goto, CacheTypeOK, File
  <2>8. CASE Install(l)
    BY <1>1, <2>8, PcSetIs DEF Install, Goto, CacheTypeOK, File
  <2>9. CASE CommandFails(l)
    BY <1>1, <2>9, PcSetIs DEF CommandFails, Goto, cache, CacheTypeOK
  <2> QED
    BY <2>1, <2>2, <2>3, <2>4, <2>5, <2>6, <2>7, <2>8, <2>9 DEF PrepareTool, Prepare
<1> QED
  BY <1>1, <1>2, <1>3, <1>4 DEF TypeOK, PcSet

LEMMA StepTypes == TypeOK /\ (\A l \in Launch : Kept(l)) /\ [Next]_vars => TypeOK'
<1> SUFFICES ASSUME TypeOK, \A l \in Launch : Kept(l), [Next]_vars PROVE TypeOK'
  OBVIOUS
<1>0. /\ pc \in [Launch -> PcSet] /\ tool \in [Launch -> Tool]
      /\ id \in [Launch -> Id] /\ box \in [Id -> Launch \cup {None, "left"}]
      /\ term \in [Launch -> Mode \cup {"stuck"}] /\ found \in [Launch -> Mode]
      /\ saved \in [Launch -> Mode \cup {None}]
      /\ guest \in [Launch -> 0..1 \cup {None}]
      /\ result \in [Launch -> Result \cup {None}]
  BY DEF TypeOK, PcSet
<1>1. CASE UNCHANGED vars
  BY <1>1 DEF vars, runner, TypeOK, CacheTypeOK
<1>2. ASSUME NEW l \in Launch, Begin(l) PROVE TypeOK'
  <2>1. pc' \in [Launch -> PcSet] /\ tool' \in [Launch -> Tool]
    BY <1>0, <1>2, PcSetIs DEF Begin
  <2>2. CacheTypeOK' /\ box' = box
    BY <1>2 DEF Begin, cache, TypeOK, CacheTypeOK
  <2>3. id' \in [Launch -> Id] /\ term' \in [Launch -> Mode \cup {"stuck"}] /\ found' \in [Launch -> Mode]
    BY <1>0, <1>2 DEF Begin
  <2>4. /\ saved' \in [Launch -> Mode \cup {None}]
        /\ guest' \in [Launch -> 0..1 \cup {None}]
        /\ result' \in [Launch -> Result \cup {None}]
    BY <1>0, <1>2 DEF Begin
  <2> QED
    BY <1>0, <2>1, <2>2, <2>3, <2>4 DEF TypeOK, PcSet
<1>3. ASSUME NEW l \in Launch, PrepareTool(l) PROVE TypeOK'
  BY <1>3, PrepareTypes
<1>4. ASSUME NEW l \in Launch, Run(l) \/ GuestExits(l) \/ Kill(l) PROVE TypeOK'
  <2>1. pc' \in [Launch -> PcSet] /\ UNCHANGED <<cache, tool, id, found>>
    <3>1. CASE Throw(l)
      <4>1. UnwindFrom[pc[l]] \in PcSet
        BY <3>1, Unwinding, PcSetIs DEF Throw, Thrown
      <4> QED
        BY <1>0, <3>1, <4>1 DEF Throw, Goto
    <3>2. CASE ~Throw(l)
      BY <1>0, <1>4, <3>2, PcSetIs DEF Run, Exec, OtherEnds, Manager, SetRaw, Create, Boot, Stop,
         Delete, Reset, GuestExits, Kill, Goto, runner
    <3> QED
      BY <3>1, <3>2
  <2>2. box' \in [Id -> Launch \cup {None, "left"}]
    BY <1>0, <1>4 DEF Run, Exec, OtherEnds, Manager, SetRaw, Create, Boot, Stop, Throw,
       Delete, Reset, GuestExits, Kill, runner
  <2>3. term' \in [Launch -> Mode \cup {"stuck"}] /\ saved' \in [Launch -> Mode \cup {None}]
    <3>1. CASE Reset(l)
      <4>1. saved[l] \in Mode
        BY <1>0, <3>1 DEF Reset, Kept
      <4> QED
        BY <1>0, <3>1, <4>1 DEF Reset
    <3>2. CASE SetRaw(l)
      <4>1. term[l] \in Mode
        BY <1>0, <3>2 DEF SetRaw, Kept
      <4> QED
        BY <1>0, <3>2, <4>1 DEF SetRaw, Mode
    <3>3. CASE ~Reset(l) /\ ~SetRaw(l)
      BY <1>0, <1>4, <3>3 DEF Run, Exec, OtherEnds, Manager, Create, Boot, Stop, Throw,
         Delete, GuestExits, Kill, runner
    <3> QED
      BY <3>1, <3>2, <3>3
  <2>4. /\ guest' \in [Launch -> 0..1 \cup {None}]
        /\ result' \in [Launch -> Result \cup {None}]
    BY <1>0, <1>4 DEF Run, Exec, OtherEnds, Manager, SetRaw, Create, Boot, Stop, Throw,
       Delete, Reset, GuestExits, Kill, runner, Result
  <2>5. CacheTypeOK'
    BY <2>1 DEF cache, TypeOK, CacheTypeOK
  <2> QED
    BY <1>0, <2>1, <2>2, <2>3, <2>4, <2>5 DEF TypeOK, PcSet
<1> QED
  BY <1>1, <1>2, <1>3, <1>4 DEF Next

--------------------------------------------------------------------------------
(* The terminal and the result. *)
LEMMA StepKeeps == OwnInv /\ [Next]_vars => \A l \in Launch : Kept(l)'
<1> SUFFICES ASSUME OwnInv, [Next]_vars, NEW o \in Launch PROVE Kept(o)'
  OBVIOUS
<1>0. /\ pc \in [Launch -> PcSet] /\ Kept(o)
      /\ term \in [Launch -> Mode \cup {"stuck"}] /\ found \in [Launch -> Mode]
      /\ saved \in [Launch -> Mode \cup {None}]
      /\ guest \in [Launch -> 0..1 \cup {None}]
      /\ result \in [Launch -> Result \cup {None}]
  BY DEF OwnInv, TypeOK, PcSet
<1>1. CASE UNCHANGED vars
  BY <1>0, <1>1 DEF vars, runner, Kept
<1>2. ASSUME NEW l \in Launch, l # o, Begin(l) \/ PrepareTool(l) \/ Run(l) \/ GuestExits(l) \/ Kill(l)
      PROVE  Kept(o)'
  <2>1. /\ pc'[o] = pc[o] /\ saved'[o] = saved[o] /\ term'[o] = term[o] /\ found'[o] = found[o]
        /\ result'[o] = result[o] /\ guest'[o] = guest[o]
    <3>1. CASE Begin(l)
      BY <1>0, <1>2, <3>1 DEF Begin
    <3>2. CASE PrepareTool(l)
      BY <1>0, <1>2, <3>2 DEF PrepareTool, Prepare, CheckBin, Stage, Compile, Link, Copy, Copied, Sign,
         Install, CommandFails, Goto
    <3>3. CASE Run(l) \/ GuestExits(l) \/ Kill(l)
      BY <1>0, <1>2, <3>3 DEF Run, Exec, OtherEnds, Manager, SetRaw, Create, Boot, Stop, Throw,
         Delete, Reset, GuestExits, Kill, Goto, runner
    <3> QED
      BY <1>2, <3>1, <3>2, <3>3
  <2> QED
    BY <1>0, <2>1 DEF Kept
<1>3. CASE Begin(o)
  BY <1>0, <1>3, RunAssumption DEF Begin, Kept, Starting, First, Holds
<1>4. CASE PrepareTool(o)
  <2>1. /\ pc[o] \in Starting /\ pc'[o] \in Starting \cup {"idle"}
    BY <1>0, <1>4 DEF PrepareTool, Prepare, CheckBin, Stage, Compile, Link, Copy, Copied, Sign,
       Install, CommandFails, Goto, Starting, First
  <2>2. /\ UNCHANGED <<id, box, term, saved, found, guest>>
        /\ result'[o] = IF pc'[o] = "idle" THEN "error" ELSE None
    BY <1>0, <1>4 DEF PrepareTool
  <2> QED
    BY <1>0, <2>1, <2>2 DEF Kept, Starting, First, Holds
<1>5. CASE Run(o)
  <2>1. CASE Exec(o) \/ OtherEnds(o) \/ Manager(o)
    BY <1>0, <2>1 DEF Exec, OtherEnds, Manager, Goto, runner, Kept, Starting, First, Holds
  <2>2. CASE SetRaw(o)
    BY <1>0, <2>2 DEF SetRaw, Goto, Kept, Starting, First, Holds
  <2>3. CASE Create(o) \/ Boot(o) \/ Stop(o)
    BY <1>0, <2>3 DEF Create, Boot, Stop, Goto, runner, Kept, Starting, First, Holds
  <2>4. CASE Throw(o)
    <3>1. pc[o] \in Thrown /\ pc'[o] = UnwindFrom[pc[o]] /\ result'[o] = "error"
          /\ UNCHANGED <<term, saved, found, guest>>
      BY <1>0, <2>4, Unwinding DEF Throw, Goto
    <3> QED
      BY <1>0, <3>1, Unwinding DEF Kept, Starting, First, Holds, Thrown
  <2>5. CASE Delete(o) \/ Reset(o)
    BY <1>0, <2>5 DEF Delete, Reset, Goto, Kept, Starting, First, Holds
  <2> QED
    BY <1>5, <2>1, <2>2, <2>3, <2>4, <2>5 DEF Run
<1>6. CASE GuestExits(o)
  BY <1>0, <1>6, RunAssumption DEF GuestExits, Goto, Kept, Starting, First, Holds
<1>7. CASE Kill(o)
  BY <1>0, <1>7 DEF Kill, Goto, Kept, Starting, First, Holds
<1> QED
  BY <1>1, <1>2, <1>3, <1>4, <1>5, <1>6, <1>7 DEF Next
--------------------------------------------------------------------------------
(* The containers. *)
LEMMA StepOwns == OwnInv /\ [Next]_vars => ContainerHasItsRun'
<1> SUFFICES ASSUME OwnInv, [Next]_vars, NEW i \in Id, NEW o \in Launch
             PROVE  (box'[i] = o) <=> (id'[o] = i /\ pc'[o] \in Holds)
  BY DEF ContainerHasItsRun, Holds
<1>0. /\ pc \in [Launch -> PcSet]
      /\ id \in [Launch -> Id] /\ box \in [Id -> Launch \cup {None, "left"}]
  BY DEF OwnInv, TypeOK, PcSet
<1>1. \A j \in Id, l \in Launch : (box[j] = l) <=> (id[l] = j /\ pc[l] \in Holds)
  BY DEF OwnInv, ContainerHasItsRun, Holds
<1>2. \A l \in Launch : l # None /\ l # "left"
  BY RunAssumption
<1>3. CASE UNCHANGED vars
  BY <1>1, <1>3 DEF vars, runner
<1>4. ASSUME NEW l \in Launch, Begin(l) PROVE (box'[i] = o) <=> (id'[o] = i /\ pc'[o] \in Holds)
  BY <1>0, <1>1, <1>4 DEF Begin, Holds
<1>5. ASSUME NEW l \in Launch, PrepareTool(l)
      PROVE  (box'[i] = o) <=> (id'[o] = i /\ pc'[o] \in Holds)
  <2>1. /\ pc[l] \notin Holds /\ pc'[l] \notin Holds /\ (o # l => pc'[o] = pc[o])
    BY <1>0, <1>5 DEF PrepareTool, Prepare, CheckBin, Stage, Compile, Link, Copy, Copied, Sign,
       Install, CommandFails, Goto, Holds, First
  <2>2. UNCHANGED <<id, box>>
    BY <1>5 DEF PrepareTool
  <2> QED
    BY <1>1, <2>1, <2>2
<1>6. ASSUME NEW l \in Launch, Run(l) \/ GuestExits(l) \/ Kill(l)
      PROVE  (box'[i] = o) <=> (id'[o] = i /\ pc'[o] \in Holds)
  <2>0. id' = id /\ pc' = [pc EXCEPT ![l] = pc'[l]]
    BY <1>0, <1>6 DEF Run, Exec, OtherEnds, Manager, SetRaw, Create, Boot, Stop, Throw,
       Delete, Reset, GuestExits, Kill, Goto, runner
  <2>1. CASE Create(l)
    <3>1. /\ pc[l] = "create" /\ box[id[l]] = None /\ box' = [box EXCEPT ![id[l]] = l]
          /\ pc'[l] = "boot"
      BY <1>0, <2>1 DEF Create, Goto
    <3>2. pc'[l] \in Holds /\ pc[l] \notin Holds
      BY <3>1 DEF Holds
    <3> QED
      BY <1>0, <1>1, <1>2, <2>0, <3>1, <3>2
  <2>2. CASE Delete(l)
    <3>1. /\ pc[l] \in Holds /\ pc'[l] \notin Holds
          /\ \E left \in {None, "left"} : box' = [box EXCEPT ![id[l]] = left]
      BY <1>0, <2>2 DEF Delete, Goto, Holds
    <3>2. box[id[l]] = l
      BY <1>0, <1>1, <3>1
    <3> QED
      BY <1>0, <1>1, <1>2, <2>0, <3>1, <3>2
  <2>3. CASE Throw(l)
    <3>1. pc'[l] = UnwindFrom[pc[l]] /\ pc[l] \in Thrown
      BY <1>0, <2>3, Unwinding DEF Throw, Goto
    <3>2. pc'[l] \in Holds <=> pc[l] \in Holds
      BY <3>1, Unwinding DEF Thrown, Holds
    <3>3. box' = box \/ (box[id[l]] = None /\ box' = [box EXCEPT ![id[l]] = "left"])
      BY <2>3 DEF Throw
    <3> QED
      BY <1>0, <1>1, <1>2, <2>0, <3>2, <3>3
  <2>4. CASE Kill(l)
    <3>1. pc'[l] \notin Holds /\ box' = [j \in Id |-> IF box[j] = l THEN "left" ELSE box[j]]
      BY <1>0, <2>4 DEF Kill, Goto, Holds
    <3> QED
      BY <1>0, <1>1, <1>2, <2>0, <3>1
  <2>5. CASE ~(Create(l) \/ Delete(l) \/ Throw(l) \/ Kill(l))
    <3>1. box' = box /\ (pc'[l] \in Holds <=> pc[l] \in Holds)
      BY <1>0, <1>6, <2>5 DEF Run, Exec, OtherEnds, Manager, SetRaw, Boot, Stop,
         Reset, GuestExits, Goto, runner, Holds
    <3> QED
      BY <1>0, <1>1, <2>0, <3>1
  <2> QED
    BY <2>1, <2>2, <2>3, <2>4, <2>5
<1> QED
  BY <1>3, <1>4, <1>5, <1>6 DEF Next

--------------------------------------------------------------------------------
(* The cache of the launchers. *)

(* A step that touches only the files of the tool it builds concerns nobody
   else's first run. *)
LEMMA OthersKept ==
    ASSUME RunInv, NEW l \in Launch, tool' = tool,
           \A o \in Launch : o # l => pc'[o] = pc[o],
           pc'[l] \in Starting => pc[l] \in Starting,
           UNCHANGED cache \/
             (/\ pc[l] \in First
              /\ \A t \in Tool : t # tool[l] =>
                   product'[t] = product[t] /\ tmp'[t] = tmp[t] /\ bin'[t] = bin[t])
    PROVE  Alone' /\ \A o \in Launch : o # l => Ready(o)'
<1>0. tool \in [Launch -> Tool] /\ pc \in [Launch -> PcSet]
  BY DEF RunInv, OwnInv, TypeOK, PcSet
<1>1. /\ \A o \in Launch : Ready(o)
      /\ Alone
      /\ First \subseteq Starting
      /\ \A t : Usable(t) # "none"
  BY DEF RunInv, Starting, Usable
<1>2. CASE UNCHANGED cache
  BY <1>0, <1>1, <1>2 DEF cache, Alone, Ready, Usable
<1>3. CASE /\ pc[l] \in First
           /\ \A t \in Tool : t # tool[l] =>
                product'[t] = product[t] /\ tmp'[t] = tmp[t] /\ bin'[t] = bin[t]
  <2>1. bin[tool[l]] = "none"
    BY <1>1, <1>3 DEF Ready
  <2>2. \A o \in Launch : o # l /\ pc[o] \in Starting => tool[o] # tool[l]
    BY <1>1, <1>3, <2>1 DEF Alone
  <2>3. Alone'
    BY <1>0, <1>1, <1>3, <2>2 DEF Alone
  <2>4. ASSUME NEW o \in Launch, o # l PROVE Ready(o)'
    <3>1. CASE pc[o] \in {"idle", "check"}
      BY <2>4, <3>1 DEF Ready, First
    <3>2. CASE pc[o] \notin {"idle", "check"}
      <4>1. tool[o] # tool[l]
        <5>1. CASE pc[o] \in First
          BY <1>1, <2>2, <2>4, <5>1
        <5>2. CASE pc[o] \notin First
          BY <1>1, <2>1, <3>2, <5>2 DEF Ready
        <5> QED
          BY <5>1, <5>2
      <4>2. Ready(o) /\ pc'[o] = pc[o] /\ tool[o] \in Tool
        BY <1>0, <1>1, <2>4
      <4>3. /\ product'[tool[o]] = product[tool[o]] /\ tmp'[tool[o]] = tmp[tool[o]]
            /\ bin'[tool[o]] = bin[tool[o]]
        BY <1>3, <4>1, <4>2
      <4> QED
        BY <4>2, <4>3 DEF Ready, Usable
    <3> QED
      BY <3>1, <3>2
  <2> QED
    BY <2>3, <2>4
<1> QED
  BY <1>2, <1>3

LEMMA PrepareReady ==
    ASSUME RunInv, NEW l \in Launch, Prepare(l)
    PROVE  /\ \A t \in Tool : bin'[t] \in {"none", Usable(t)}
           /\ Alone'
           /\ \A o \in Launch : Ready(o)'
<1>0. /\ tool \in [Launch -> Tool] /\ pc \in [Launch -> PcSet] /\ tool[l] \in Tool
      /\ product \in [Tool -> File] /\ tmp \in [Tool -> File] /\ bin \in [Tool -> File]
  BY DEF RunInv, OwnInv, TypeOK, PcSet, CacheTypeOK
<1>1. /\ Ready(l)
      /\ \A t \in Tool : bin[t] \in {"none", Usable(t)}
  BY DEF RunInv
<1>2. /\ tool' = tool
      /\ \A o \in Launch : o # l => pc'[o] = pc[o]
      /\ pc[l] \in Starting
  BY <1>0 DEF Prepare, CheckBin, Stage, Compile, Link, Copy, Copied, Sign, Install, CommandFails, Goto,
     Starting, First
<1>3. UNCHANGED cache \/
        (/\ pc[l] \in First
         /\ \A t \in Tool : t # tool[l] =>
              product'[t] = product[t] /\ tmp'[t] = tmp[t] /\ bin'[t] = bin[t])
  BY <1>0 DEF Prepare, CheckBin, Stage, Compile, Link, Copy, Copied, Sign, Install, CommandFails, Goto,
     First
<1>4. Alone' /\ \A o \in Launch : o # l => Ready(o)'
  BY <1>2, <1>3, OthersKept
<1>5. (\A t \in Tool : bin'[t] \in {"none", Usable(t)}) /\ Ready(l)'
  <2>1. CASE CheckBin(l)
    BY <1>0, <1>1, <2>1 DEF CheckBin, Goto, cache, Ready, First
  <2>2. CASE Stage(l)
    BY <1>0, <1>1, <2>2 DEF Stage, Goto, Ready, First
  <2>3. CASE Compile(l)
    BY <1>0, <1>1, <2>3 DEF Compile, Goto, Ready, First
  <2>4. CASE Link(l)
    BY <1>0, <1>1, <2>4 DEF Link, Goto, Ready, First
  <2>5. CASE Copy(l)
    BY <1>0, <1>1, <2>5 DEF Copy, Goto, Ready, First
  <2>6. CASE Copied(l)
    BY <1>0, <1>1, <2>6 DEF Copied, Goto, Ready, First, Usable
  <2>7. CASE Sign(l)
    BY <1>0, <1>1, <2>7 DEF Sign, Goto, Ready, First, Usable
  <2>8. CASE Install(l)
    BY <1>0, <1>1, <2>8 DEF Install, Goto, Ready, First, Usable
  <2>9. CASE CommandFails(l)
    BY <1>0, <1>1, <2>9 DEF CommandFails, Goto, cache, Ready, First
  <2> QED
    BY <2>1, <2>2, <2>3, <2>4, <2>5, <2>6, <2>7, <2>8, <2>9 DEF Prepare
<1> QED
  BY <1>4, <1>5

LEMMA StepReady ==
    ASSUME Apart, RunInv, [Next]_vars
    PROVE  /\ \A t \in Tool : bin'[t] \in {"none", Usable(t)}
           /\ Alone'
           /\ \A o \in Launch : Ready(o)'
<1>0. /\ tool \in [Launch -> Tool] /\ pc \in [Launch -> PcSet]
      /\ \A t \in Tool : bin[t] \in {"none", Usable(t)}
      /\ Alone /\ \A o \in Launch : Ready(o)
  BY DEF RunInv, OwnInv, TypeOK, PcSet
<1>1. CASE UNCHANGED vars
  BY <1>0, <1>1 DEF vars, Alone, Ready, Usable
<1>2. ASSUME NEW l \in Launch, PrepareTool(l)
      PROVE  /\ \A t \in Tool : bin'[t] \in {"none", Usable(t)}
             /\ Alone'
             /\ \A o \in Launch : Ready(o)'
  <2>1. Prepare(l)
    BY <1>2 DEF PrepareTool
  <2> QED
    BY <2>1, PrepareReady
<1>3. ASSUME NEW l \in Launch, Begin(l)
      PROVE  /\ \A t \in Tool : bin'[t] \in {"none", Usable(t)}
             /\ Alone'
             /\ \A o \in Launch : Ready(o)'
  <2>1. UNCHANGED cache /\ pc[l] = "idle" /\ pc' = [pc EXCEPT ![l] = "check"]
    BY <1>3 DEF Begin
  <2>2. PICK t \in Tool : MayLaunch(t) /\ tool' = [tool EXCEPT ![l] = t]
    BY <1>3 DEF Begin
  <2>3. bin[t] # "none" \/ \A o \in Launch : pc[o] \in Starting => tool[o] # t
    BY <2>2 DEF MayLaunch
  <2>4. \A o \in Launch : o # l => pc'[o] = pc[o] /\ tool'[o] = tool[o]
    BY <1>0, <2>1, <2>2
  <2>5. pc'[l] = "check" /\ tool'[l] = t
    BY <1>0, <2>1, <2>2
  <2>6. Alone'
    BY <1>0, <2>1, <2>3, <2>4, <2>5 DEF cache, Alone
  <2>7. \A o \in Launch : o # l => Ready(o)'
    BY <1>0, <2>1, <2>4 DEF cache, Ready, Usable
  <2>8. Ready(l)'
    BY <2>5 DEF Ready, First
  <2> QED
    BY <1>0, <2>1, <2>6, <2>7, <2>8 DEF cache
<1>4. ASSUME NEW l \in Launch, Run(l) \/ GuestExits(l) \/ Kill(l)
      PROVE  /\ \A t \in Tool : bin'[t] \in {"none", Usable(t)}
             /\ Alone'
             /\ \A o \in Launch : Ready(o)'
  <2>1. /\ UNCHANGED <<cache, tool>>
        /\ \A o \in Launch : o # l => pc'[o] = pc[o]
    BY <1>0, <1>4 DEF Run, Exec, OtherEnds, Manager, SetRaw, Create, Boot, Stop, Throw,
       Delete, Reset, GuestExits, Kill, Goto, runner
  <2>2. /\ pc'[l] \notin Starting
        /\ pc'[l] # "idle" => pc[l] \notin {"idle", "check"} \cup First
    <3>1. CASE Throw(l)
      <4>1. pc[l] \in Thrown /\ pc'[l] = UnwindFrom[pc[l]]
        BY <1>0, <3>1, Unwinding DEF Throw, Goto
      <4> QED
        BY <4>1, Unwinding DEF Thrown, Starting, First
    <3>2. CASE ~Throw(l)
      BY <1>0, <1>4, <3>2 DEF Run, Exec, OtherEnds, Manager, SetRaw, Create, Boot, Stop,
         Delete, Reset, GuestExits, Kill, Goto, runner, Starting, First
    <3> QED
      BY <3>1, <3>2
  <2>3. Alone' /\ \A o \in Launch : o # l => Ready(o)'
    BY <2>1, <2>2, OthersKept
  <2>4. Ready(l)'
    BY <1>0, <2>1, <2>2 DEF cache, Ready, Usable, Starting, First
  <2> QED
    BY <1>0, <2>1, <2>3, <2>4 DEF cache
<1> QED
  BY <1>1, <1>2, <1>3, <1>4 DEF Next

--------------------------------------------------------------------------------
LEMMA Starts == Init => RunInv
<1> SUFFICES ASSUME Init PROVE RunInv
  OBVIOUS
<1>1. TypeOK
  BY TypesAtFirst
<1>2. \A l \in Launch : Kept(l)
  BY RunAssumption DEF Init, Kept, Starting, First, Holds
<1>3. ContainerHasItsRun
  BY RunAssumption DEF Init, ContainerHasItsRun
<1>4. Alone /\ \A l \in Launch : Ready(l)
  BY DEF Init, Alone, Ready, Starting, First
<1>5. \A t \in Tool : bin[t] \in {"none", Usable(t)}
  BY DEF Init, CacheInit
<1> QED
  BY <1>1, <1>2, <1>3, <1>4, <1>5 DEF RunInv, OwnInv

LEMMA OwnStep == OwnInv /\ [Next]_vars => OwnInv'
<1> SUFFICES ASSUME OwnInv, [Next]_vars PROVE OwnInv'
  OBVIOUS
<1>1. TypeOK'
  BY StepTypes DEF OwnInv
<1>2. (\A l \in Launch : Kept(l))'
  BY StepKeeps
<1>3. ContainerHasItsRun'
  BY StepOwns
<1> QED
  BY <1>1, <1>2, <1>3 DEF OwnInv

LEMMA OwnAlways == Spec => []OwnInv
<1>1. Init => OwnInv
  BY Starts DEF RunInv
<1> QED
  BY <1>1, OwnStep, PTL DEF Spec

--------------------------------------------------------------------------------
(* The files, the terminals and the containers keep their types. *)
THEOREM TypeCorrect == Spec => []TypeOK
<1>1. OwnInv => TypeOK
  BY DEF OwnInv
<1> QED
  BY <1>1, OwnAlways, PTL

(* No run loses its container to another one under the same id, and none that
   ends by itself leaves one in its name, main.swift, defer after manager.create. *)
THEOREM OwnContainer == Spec => []ContainerHasItsRun
<1>1. OwnInv => ContainerHasItsRun
  BY DEF OwnInv
<1> QED
  BY <1>1, OwnAlways, PTL

(* A run that is not killed gives its terminal back, and reports the success
   of its guest only, main.swift, defer tryReset and the exit code. *)
THEOREM EndsWell == Spec => []RunEndsWell
<1>1. OwnInv => RunEndsWell
  BY DEF OwnInv, Kept, RunEndsWell
<1> QED
  BY <1>1, OwnAlways, PTL

(* With first runs of a tool apart, what a launcher installs and what it runs is
   whole and signed, containerd-bridge.nix and apple-container.nix. *)
THEOREM SignedRuns == ASSUME Apart PROVE Spec => []OnlySignedRuns
<1>1. Init => RunInv
  BY Starts
<1>2. RunInv /\ [Next]_vars => RunInv'
  <2> SUFFICES ASSUME RunInv, [Next]_vars PROVE RunInv'
    OBVIOUS
  <2>1. OwnInv'
    BY OwnStep DEF RunInv
  <2>2. /\ (\A t \in Tool : bin[t] \in {"none", Usable(t)})'
        /\ Alone'
        /\ (\A o \in Launch : Ready(o))'
    BY StepReady DEF Usable
  <2> QED
    BY <2>1, <2>2 DEF RunInv
<1>3. RunInv => OnlySignedRuns
  BY DEF RunInv, Ready, OnlySignedRuns
<1> QED
  BY <1>1, <1>2, <1>3, PTL DEF Spec

--------------------------------------------------------------------------------
(* How many steps a launch has left from each place: no step leads back. *)
StepsLeft ==
    [idle |-> 0, reset |-> 1, other |-> 1, delete |-> 2, stop |-> 3, wait |-> 4, start |-> 5,
     boot |-> 6, create |-> 7, tty |-> 8, manager |-> 9, exec |-> 10, install |-> 11,
     sign |-> 12, copying |-> 13, copy |-> 14, link |-> 15, compile |-> 16, stage |-> 17,
     check |-> 18]

Left(l) == StepsLeft[pc[l]]

LEMMA LeftAt == \A at \in PcSet : StepsLeft[at] \in 0..18 /\ (at # "idle" => StepsLeft[at] > 0)
BY PcSetIs DEF StepsLeft

(* The first run goes forward, in whatever state others left its files. *)
LEMMA PrepareForward ==
    ASSUME TypeOK, NEW l \in Launch, Prepare(l)
    PROVE  StepsLeft[pc'[l]] < StepsLeft[pc[l]] /\ \A o \in Launch \ {l} : pc'[o] = pc[o]
<1> USE DEF TypeOK, Goto
<1>1. CASE CheckBin(l) \/ Stage(l) \/ Compile(l) \/ Link(l)
  BY <1>1 DEF CheckBin, Stage, Compile, Link, StepsLeft
<1>2. CASE Copy(l) \/ Copied(l) \/ Sign(l) \/ Install(l)
  BY <1>2 DEF Copy, Copied, Sign, Install, StepsLeft
<1>3. CASE CommandFails(l)
  <2>1. pc[l] \in First \cup {"check"} /\ pc'[l] = "idle" /\ \A o \in Launch \ {l} : pc'[o] = pc[o]
    BY <1>3 DEF CommandFails
  <2> QED
    BY <2>1 DEF StepsLeft, First
<1> QED
  BY <1>1, <1>2, <1>3 DEF Prepare

LEMMA RunForward ==
    ASSUME TypeOK, NEW l \in Launch, Run(l) \/ GuestExits(l) \/ Kill(l)
    PROVE  StepsLeft[pc'[l]] < StepsLeft[pc[l]] /\ \A o \in Launch \ {l} : pc'[o] = pc[o]
<1>0. pc \in [Launch -> PcSet]
  BY DEF TypeOK, PcSet
<1> USE DEF Goto
<1>1. CASE Exec(l) \/ OtherEnds(l) \/ Manager(l) \/ SetRaw(l) \/ Create(l) \/ Boot(l)
  BY <1>0, <1>1 DEF Exec, OtherEnds, Manager, SetRaw, Create, Boot, StepsLeft
<1>2. CASE GuestExits(l) \/ Stop(l) \/ Delete(l) \/ Reset(l)
  BY <1>0, <1>2 DEF GuestExits, Stop, Delete, Reset, StepsLeft
<1>3. CASE Throw(l)
  <2>1. pc[l] \in Thrown /\ pc'[l] = UnwindFrom[pc[l]] /\ \A o \in Launch \ {l} : pc'[o] = pc[o]
    BY <1>0, <1>3, Unwinding DEF Throw
  <2> QED
    BY <2>1, Unwinding DEF StepsLeft, Thrown
<1>4. CASE Kill(l)
  <2>1. pc[l] # "idle" /\ pc'[l] = "idle" /\ \A o \in Launch \ {l} : pc'[o] = pc[o]
    BY <1>0, <1>4 DEF Kill
  <2>2. StepsLeft[pc[l]] > 0 /\ StepsLeft["idle"] = 0
    BY <1>0, <2>1, LeftAt DEF StepsLeft
  <2> QED
    BY <2>1, <2>2
<1> QED
  BY <1>1, <1>2, <1>3, <1>4 DEF Run

(* A launch takes at most 18 steps: every step it takes, fails in or is killed in
   is one of those it had left, and no other launch adds to them, not even a first
   run in the same directory. *)
THEOREM LaunchesAdvance ==
    Spec => [][\A l \in Launch :
                 /\ Left(l) \in 0..18
                 /\ PrepareTool(l) \/ Run(l) \/ GuestExits(l) \/ Kill(l) => Left(l)' < Left(l)
                 /\ \A o \in Launch \ {l} :
                      Begin(o) \/ PrepareTool(o) \/ Run(o) \/ GuestExits(o) \/ Kill(o)
                        => Left(l)' = Left(l)]_vars
<1> DEFINE A == \A l \in Launch :
                 /\ Left(l) \in 0..18
                 /\ PrepareTool(l) \/ Run(l) \/ GuestExits(l) \/ Kill(l) => Left(l)' < Left(l)
                 /\ \A o \in Launch \ {l} :
                      Begin(o) \/ PrepareTool(o) \/ Run(o) \/ GuestExits(o) \/ Kill(o)
                        => Left(l)' = Left(l)
<1>1. ASSUME TypeOK, NEW l \in Launch PROVE Left(l) \in 0..18
  BY <1>1, LeftAt DEF TypeOK, PcSet, Left
<1>2. ASSUME TypeOK, NEW l \in Launch, PrepareTool(l) \/ Run(l) \/ GuestExits(l) \/ Kill(l)
      PROVE  Left(l)' < Left(l) /\ \A o \in Launch \ {l} : Left(o)' = Left(o)
  <2>1. StepsLeft[pc'[l]] < StepsLeft[pc[l]] /\ \A o \in Launch \ {l} : pc'[o] = pc[o]
    BY <1>2, PrepareForward, RunForward DEF PrepareTool
  <2> QED
    BY <2>1 DEF Left
<1>3. ASSUME TypeOK, NEW o \in Launch, Begin(o), NEW l \in Launch \ {o} PROVE Left(l)' = Left(l)
  BY <1>3 DEF Begin, TypeOK, Left
<1>4. TypeOK => A
  BY <1>1, <1>2, <1>3
<1>5. TypeOK /\ [Next]_vars => [A]_vars
  BY <1>4
<1> QED
  BY <1>5, TypeCorrect, PTL DEF Spec
================================================================================
