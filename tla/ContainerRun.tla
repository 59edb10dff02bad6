----------------------------- MODULE ContainerRun ------------------------------
(***************************************************************************)
(* container run on macOS: the launcher prepares wwn-containerd, which     *)
(* sets the terminal raw, creates a container under its id, waits for the  *)
(* guest and undoes what it did, main.swift.  Launches run side by side,   *)
(* fail at every step and are killed anywhere.                             *)
(***************************************************************************)
EXTENDS Launcher

CONSTANTS
    Bridge,  \* the tool wwn-containerd; the others are not ours
    Id,      \* ids of containers
    None

ASSUME RunAssumption ==
    Bridge \in Tool /\ Launch \cap {None, "left"} = {} /\ None \notin {"left", "ok"}

VARIABLES
    id,      \* --id, "wawona" unless it is given
    box,     \* whose container is stored under an id; "left" when its run is gone
    term,    \* the mode of the terminal; "stuck" when it stays raw
    saved,   \* the mode tryReset returns to
    found,   \* the mode the launch found
    guest,   \* the exit code of the guest
    result   \* how the launch ended

runner == <<id, box, term, saved, found, guest, result>>
vars   == <<pc, tool, product, tmp, bin, runner>>

Mode   == {"cooked", "raw"}
Result == {"ok", "code", "error", "killed"}

--------------------------------------------------------------------------------
Init ==
    /\ CacheInit
    /\ pc = [l \in Launch |-> "idle"] /\ tool = [l \in Launch |-> Bridge]
    /\ id \in [Launch -> Id] /\ box = [i \in Id |-> None]
    /\ term = [l \in Launch |-> "cooked"] /\ found = term
    /\ saved = [l \in Launch |-> None]
    /\ guest = [l \in Launch |-> None] /\ result = [l \in Launch |-> None]

(* The user, by way of container-cli.nix for wwn-containerd. *)
Begin(l) ==
    /\ pc[l] = "idle"
    /\ pc' = [pc EXCEPT ![l] = "check"]
    /\ \E t \in Tool : MayLaunch(t) /\ tool' = [tool EXCEPT ![l] = t]
    /\ \E i \in Id : id' = [id EXCEPT ![l] = i]
    /\ \E m \in Mode : term' = [term EXCEPT ![l] = m] /\ found' = [found EXCEPT ![l] = m]
    /\ saved' = [saved EXCEPT ![l] = None]
    /\ guest' = [guest EXCEPT ![l] = None]
    /\ result' = [result EXCEPT ![l] = None]
    /\ UNCHANGED <<cache, box>>

PrepareTool(l) ==
    /\ Prepare(l)
    /\ result' = [result EXCEPT ![l] = IF pc'[l] = "idle" THEN "error" ELSE None]
    /\ UNCHANGED <<id, box, term, saved, found, guest>>

(* Whatever else is launched runs and ends by itself. *)
Exec(l) ==
    /\ pc[l] = "exec"
    /\ Goto(l, IF tool[l] = Bridge THEN "manager" ELSE "other")
    /\ UNCHANGED <<cache, runner>>

OtherEnds(l) ==
    /\ pc[l] = "other"
    /\ Goto(l, "idle")
    /\ UNCHANGED <<cache, runner>>

Manager(l) ==
    /\ pc[l] = "manager"
    /\ Goto(l, "tty")
    /\ UNCHANGED <<cache, runner>>

(* Mutant: the mode of the terminal is not saved. *)
SetRawUnsaved(l) ==
    /\ pc[l] = "tty"
    /\ term' = [term EXCEPT ![l] = "raw"]
    /\ Goto(l, "create")
    /\ UNCHANGED <<cache, id, box, saved, found, guest, result>>

SetRaw(l) ==
    /\ pc[l] = "tty"
    /\ saved' = [saved EXCEPT ![l] = term[l]]
    /\ term' = [term EXCEPT ![l] = "raw"]
    /\ Goto(l, "create")
    /\ UNCHANGED <<cache, id, box, found, guest, result>>

(* manager.create refuses an id that is in use. *)
Create(l) ==
    /\ pc[l] = "create" /\ box[id[l]] = None
    /\ box' = [box EXCEPT ![id[l]] = l]
    /\ Goto(l, "boot")
    /\ UNCHANGED <<cache, id, term, saved, found, guest, result>>

(* container.create and container.start; resize is try?. *)
Boot(l) ==
    /\ pc[l] \in {"boot", "start"}
    /\ Goto(l, IF pc[l] = "boot" THEN "start" ELSE "wait")
    /\ UNCHANGED <<cache, runner>>

GuestExits(l) ==
    /\ pc[l] = "wait"
    /\ \E c \in 0..1 : guest' = [guest EXCEPT ![l] = c]
    /\ Goto(l, "stop")
    /\ UNCHANGED <<cache, id, box, term, saved, found, result>>

Stop(l) ==
    /\ pc[l] = "stop"
    /\ result' = [result EXCEPT ![l] = IF guest[l] = 0 THEN "ok" ELSE "code"]
    /\ Goto(l, "delete")
    /\ UNCHANGED <<cache, id, box, term, saved, found, guest>>

(* Mutant: the delete is deferred before the container is created. *)
UnwindFromEarlyDelete ==
    [manager |-> "idle", tty |-> "idle", create |-> "delete",
     boot |-> "delete", start |-> "delete", wait |-> "delete", stop |-> "delete"]

(* Mutant: the reset is deferred after the container is created. *)
UnwindFromLateReset ==
    [manager |-> "idle", tty |-> "idle", create |-> "idle",
     boot |-> "delete", start |-> "delete", wait |-> "delete", stop |-> "delete"]

(* What an error thrown by a step comes to first: defers run in reverse. *)
UnwindFrom ==
    [manager |-> "idle", tty |-> "idle", create |-> "reset",
     boot |-> "delete", start |-> "delete", wait |-> "delete", stop |-> "delete"]

(* manager.create may leave what it has made when it throws. *)
Throw(l) ==
    /\ pc[l] \in DOMAIN UnwindFrom
    /\ result' = [result EXCEPT ![l] = "error"]
    /\ Goto(l, UnwindFrom[pc[l]])
    /\ \/ UNCHANGED box
       \/ /\ pc[l] = "create" /\ box[id[l]] = None
          /\ box' = [box EXCEPT ![id[l]] = "left"]
    /\ UNCHANGED <<cache, id, term, saved, found, guest>>

(* try? manager.delete *)
Delete(l) ==
    /\ pc[l] = "delete"
    /\ \E left \in {None, "left"} : box' = [box EXCEPT ![id[l]] = left]
    /\ Goto(l, "reset")
    /\ UNCHANGED <<cache, id, term, saved, found, guest, result>>

(* tryReset: that the reset fails, nobody is told. *)
Reset(l) ==
    /\ pc[l] = "reset"
    /\ \E m \in {saved[l], "stuck"} : term' = [term EXCEPT ![l] = m]
    /\ Goto(l, "idle")
    /\ UNCHANGED <<cache, id, box, saved, found, guest, result>>

Run(l) ==
    \/ Exec(l) \/ OtherEnds(l) \/ Manager(l) \/ SetRaw(l) \/ Create(l) \/ Boot(l)
    \/ Stop(l) \/ Throw(l) \/ Delete(l) \/ Reset(l)

Kill(l) ==
    /\ pc[l] # "idle"
    /\ Goto(l, "idle")
    /\ result' = [result EXCEPT ![l] = "killed"]
    /\ box' = [i \in Id |-> IF box[i] = l THEN "left" ELSE box[i]]
    /\ UNCHANGED <<cache, id, term, saved, found, guest>>

Next ==
    \E l \in Launch : Begin(l) \/ PrepareTool(l) \/ Run(l) \/ GuestExits(l) \/ Kill(l)

(* A process that can go on does, and the commands it starts end; the guest
   may run for ever. *)
Fairness ==
    \A l \in Launch : WF_vars(PrepareTool(l) \/ (pc[l] # "wait" /\ Run(l)))

Spec == Init /\ [][Next]_vars /\ Fairness

--------------------------------------------------------------------------------
TypeOK ==
    /\ CacheTypeOK
    /\ pc \in [Launch -> Starting \cup DOMAIN UnwindFrom \cup
                           {"idle", "other", "delete", "reset"}]
    /\ tool \in [Launch -> Tool]
    /\ id \in [Launch -> Id] /\ box \in [Id -> Launch \cup {None, "left"}]
    /\ term \in [Launch -> Mode \cup {"stuck"}] /\ found \in [Launch -> Mode]
    /\ saved \in [Launch -> Mode \cup {None}]
    /\ guest \in [Launch -> 0..1 \cup {None}]
    /\ result \in [Launch -> Result \cup {None}]

(* What is installed is whole and, where it has to be, signed, so a launch that
   goes past the test of $BIN runs nothing else, wherever launches before it
   failed or were killed (containerd-bridge.nix, the lines of the first run). *)
OnlySignedRuns ==
    /\ \A t \in Tool : bin[t] \in {"none", Usable(t)}
    /\ \A l \in Launch :
         pc[l] \notin {"idle", "check"} \cup First => bin[tool[l]] = Usable(tool[l])

(* A container is its run's from create to the deferred delete: no other run,
   not even one that was refused the same id, removes it or takes it over, and
   no run that ends by itself leaves a container in its name (main.swift, the
   place of defer after manager.create). *)
ContainerHasItsRun ==
    \A i \in Id, l \in Launch :
        (box[i] = l) <=>
            (id[l] = i /\ pc[l] \in {"boot", "start", "wait", "stop", "delete"})

(* A run that is not killed gives the terminal back as it found it, whatever
   failed but the reset itself, and reports success only of a guest that exited
   with 0 and was stopped (main.swift, defer tryReset and the exit code). *)
RunEndsWell ==
    \A l \in Launch : pc[l] = "idle" =>
        /\ result[l] # "killed" => term[l] \in {found[l], "stuck"}
        /\ (result[l] = "ok") => guest[l] = 0

(* Every launch ends, or comes to wait for its guest. *)
EveryLaunchEnds ==
    \A l \in Launch : pc[l] \notin {"idle", "wait"} ~> pc[l] \in {"idle", "wait"}
================================================================================
