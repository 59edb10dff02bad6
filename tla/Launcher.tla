------------------------------- MODULE Launcher --------------------------------
(***************************************************************************)
(* The first-run cache of the macOS launchers: containerd-bridge.nix for   *)
(* wwn-containerd and apple-container.nix for Apple's container CLI.  Each *)
(* tool has a directory of its own, in which a launch that finds no binary *)
(* builds one, installs it and runs it.  What a file holds is followed by  *)
(* its name; the steps of a process that runs the binary are in            *)
(* ContainerRun.                                                           *)
(***************************************************************************)
EXTENDS Naturals

CONSTANTS
    Launch,  \* processes, each in a terminal of its own
    Tool,    \* what they launch
    Signed,  \* the tools that have to be signed before they can run
    Apart    \* whether a first run waits for another one of its tool to end

ASSUME LauncherAssumption == Signed \subseteq Tool /\ Apart \in BOOLEAN

VARIABLES
    pc,       \* what a launch does next
    tool,     \* what it launches
    product,  \* src/.build/release, by tool
    tmp,      \* $BIN.tmp
    bin       \* $BIN

cache == <<product, tmp, bin>>

File == {"none", "part", "whole", "signed"}

(* The states of a launch before the binary runs. *)
First    == {"stage", "compile", "link", "copy", "copying", "sign", "install"}
Starting == {"check", "exec"} \cup First

Usable(t) == IF t \in Signed THEN "signed" ELSE "whole"

CacheInit ==
    /\ product = [t \in Tool |-> "none"]
    /\ tmp = [t \in Tool |-> "none"]
    /\ bin = [t \in Tool |-> "none"]

(* Two first runs of one tool share its source tree and $BIN.tmp, and nothing
   keeps them apart; with Apart the users do. *)
MayLaunch(t) ==
    Apart => bin[t] # "none" \/ \A o \in Launch : pc[o] \in Starting => tool[o] # t

Goto(l, next) == pc' = [pc EXCEPT ![l] = next] /\ UNCHANGED tool

CheckBin(l) ==
    /\ pc[l] = "check"
    /\ Goto(l, IF bin[tool[l]] = "none" THEN "stage" ELSE "exec")
    /\ UNCHANGED cache

(* rsync --delete also deletes .build, which the sources do not have. *)
Stage(l) ==
    /\ pc[l] = "stage"
    /\ product' = [product EXCEPT ![tool[l]] = "none"]
    /\ Goto(l, "compile")
    /\ UNCHANGED <<tmp, bin>>

Compile(l) ==
    /\ pc[l] = "compile"
    /\ product' = [product EXCEPT ![tool[l]] = "part"]
    /\ Goto(l, "link")
    /\ UNCHANGED <<tmp, bin>>

Link(l) ==
    /\ pc[l] = "link"
    /\ product' = [product EXCEPT ![tool[l]] = "whole"]
    /\ Goto(l, "copy")
    /\ UNCHANGED <<tmp, bin>>

(* Mutant: the copy goes to $BIN. *)
CopyInPlace(l) ==
    /\ pc[l] = "copy" /\ product[tool[l]] # "none"
    /\ bin' = [bin EXCEPT ![tool[l]] = "part"]
    /\ Goto(l, "copying")
    /\ UNCHANGED <<product, tmp>>

Copy(l) ==
    /\ pc[l] = "copy" /\ product[tool[l]] # "none"
    /\ tmp' = [tmp EXCEPT ![tool[l]] = "part"]
    /\ Goto(l, "copying")
    /\ UNCHANGED <<product, bin>>

Copied(l) ==
    /\ pc[l] = "copying"
    /\ tmp' = [tmp EXCEPT ![tool[l]] = IF product[tool[l]] = "whole" THEN "whole" ELSE "part"]
    /\ Goto(l, IF tool[l] \in Signed THEN "sign" ELSE "install")
    /\ UNCHANGED <<product, bin>>

Sign(l) ==
    /\ pc[l] = "sign" /\ tmp[tool[l]] \in {"whole", "signed"}
    /\ tmp' = [tmp EXCEPT ![tool[l]] = "signed"]
    /\ Goto(l, "install")
    /\ UNCHANGED <<product, bin>>

Install(l) ==
    /\ pc[l] = "install" /\ tmp[tool[l]] # "none"
    /\ bin' = [bin EXCEPT ![tool[l]] = tmp[tool[l]]]
    /\ tmp' = [tmp EXCEPT ![tool[l]] = "none"]
    /\ Goto(l, "exec")
    /\ UNCHANGED product

(* Mutant: a build that fails is tried again. *)
CommandFailsRetry(l) ==
    /\ pc[l] \in First \cup {"check"}
    /\ Goto(l, IF pc[l] = "link" THEN "compile" ELSE "idle")
    /\ UNCHANGED cache

(* set -e: there is no swift, or a command fails. *)
CommandFails(l) ==
    /\ pc[l] \in First \cup {"check"}
    /\ Goto(l, "idle")
    /\ UNCHANGED cache

Prepare(l) ==
    \/ CheckBin(l) \/ Stage(l) \/ Compile(l) \/ Link(l) \/ Copy(l) \/ Copied(l)
    \/ Sign(l) \/ Install(l) \/ CommandFails(l)

CacheTypeOK ==
    /\ product \in [Tool -> File]
    /\ tmp \in [Tool -> File]
    /\ bin \in [Tool -> File]
================================================================================
