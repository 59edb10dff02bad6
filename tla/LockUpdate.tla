------------------------------ MODULE LockUpdate -------------------------------
(***************************************************************************)
(* scripts/update-apple-container-swiftpm2nix.sh: the hashes of the pins   *)
(* of a revision are prefetched by a pool of background jobs, then         *)
(* default.nix and workspace-state.json are written one after the other.   *)
(* Jobs fail, and an update may be killed anywhere and started again.      *)
(***************************************************************************)
EXTENDS Naturals, FiniteSets

CONSTANTS
    Revision,  \* revisions of apple/container
    Pins,      \* the pins of each revision
    Pool       \* how many jobs run at once, 6 in the script

ASSUME LockAssumption ==
    /\ \A r \in Revision : IsFiniteSet(Pins[r])
    /\ Pool \in Nat \ {0}

VARIABLES
    pc,       \* what the script does next
    rev,      \* REV
    todo,     \* the lines of pins.tsv that are not read yet
    running,  \* the jobs in the background
    hashes,   \* the files of $TMP/hashes: by pin, the revision it is for
    failed,   \* the pins whose job has failed
    nix,      \* default.nix: the hashes in it
    state     \* workspace-state.json: the revision it is of

vars == <<pc, rev, todo, running, hashes, failed, nix, state>>
out  == <<nix, state>>

Empty == [p \in {} |-> 0]

--------------------------------------------------------------------------------
(* The lock in the repository is that of some revision. *)
Init ==
    /\ pc = "idle" /\ rev \in Revision
    /\ todo = {} /\ running = {} /\ hashes = Empty /\ failed = {}
    /\ nix = [p \in Pins[rev] |-> rev] /\ state = rev

(* Mutant: the hashes of the last update are still there. *)
StartOver ==
    /\ pc = "idle"
    /\ \E r \in Revision : rev' = r /\ todo' = Pins[r]
    /\ running' = {} /\ failed' = {}
    /\ pc' = "read"
    /\ UNCHANGED <<hashes, out>>

(* mktemp -d, curl and the pins; curl or python may fail before anything is
   done. *)
Start ==
    /\ pc = "idle"
    /\ \E r \in Revision : rev' = r /\ todo' = Pins[r]
    /\ running' = {} /\ hashes' = Empty /\ failed' = {}
    /\ pc' = "read"
    /\ UNCHANGED out

(* Mutant: jobs that have ended count as well. *)
FullOfAll == Cardinality(Pins[rev] \ todo) >= Pool

(* jobs -pr | wc -l *)
Full == Cardinality(running) >= Pool

(* The jobs of a line; the loop goes on when there is room for another one. *)
Spawn ==
    /\ pc = "read"
    /\ \E p \in todo : todo' = todo \ {p} /\ running' = running \cup {p}
    /\ pc' = "room"
    /\ UNCHANGED <<rev, hashes, failed, out>>

(* wait -n || true comes back when a job ends, or, where bash has no wait -n,
   at once: then the script looks again. *)
Room ==
    /\ pc = "room" /\ ~Full
    /\ pc' = "read"
    /\ UNCHANGED <<rev, todo, running, hashes, failed, out>>

NoMore ==
    /\ pc = "read" /\ todo = {}
    /\ pc' = "wait"
    /\ UNCHANGED <<rev, todo, running, hashes, failed, out>>

(* prefetch_one writes the hash last, and writes none when it fails. *)
Fetched(p) ==
    /\ p \in running
    /\ running' = running \ {p}
    /\ hashes' = [q \in DOMAIN hashes \cup {p} |-> IF q = p THEN rev ELSE hashes[q]]
    /\ UNCHANGED <<pc, rev, todo, failed, out>>

Fails(p) ==
    /\ p \in running
    /\ running' = running \ {p}
    /\ failed' = failed \cup {p}
    /\ UNCHANGED <<pc, rev, todo, hashes, out>>

(* The bare wait: whatever the jobs have returned. *)
Wait ==
    /\ pc = "wait" /\ running = {}
    /\ pc' = "write"
    /\ UNCHANGED <<rev, todo, running, hashes, failed, out>>

WriteNix ==
    /\ pc = "write"
    /\ nix' = hashes
    /\ pc' = "copy"
    /\ UNCHANGED <<rev, todo, running, hashes, failed, state>>

CopyState ==
    /\ pc = "copy"
    /\ state' = rev
    /\ pc' = "done"
    /\ UNCHANGED <<rev, todo, running, hashes, failed, nix>>

(* The trap removes $TMP. *)
Exit ==
    /\ pc = "done"
    /\ pc' = "idle"
    /\ UNCHANGED <<rev, todo, running, hashes, failed, out>>

(* set -e, or a signal: nobody reads what the jobs still write to $TMP. *)
Kill ==
    /\ pc \notin {"idle", "done"}
    /\ pc' = "idle" /\ running' = {}
    /\ UNCHANGED <<rev, todo, hashes, failed, out>>

Script == Spawn \/ Room \/ NoMore \/ Wait \/ WriteNix \/ CopyState

Next ==
    \/ Start \/ Script \/ Exit \/ Kill
    \/ \E p \in running : Fetched(p) \/ Fails(p)

(* The script goes on when it can, and every job ends. *)
Fairness == WF_vars(Script) /\ WF_vars(\E p \in running : Fetched(p) \/ Fails(p))

Spec == Init /\ [][Next]_vars /\ Fairness
--------------------------------------------------------------------------------
(* Never more than Pool prefetches run at once, although wait -n may come back
   with none of them ended (update-apple-container-swiftpm2nix.sh, the loop over
   pins.tsv). *)
PoolBounded == Cardinality(running) <= Pool

(* After an update, both files are of its revision, and of its pins default.nix
   lacks those whose prefetch failed and no other; nothing of earlier updates,
   finished or killed, is left in it (update-apple-container-swiftpm2nix.sh, the
   waits and the two files written after them). *)
LockComplete ==
    pc = "done" => state = rev /\ nix = [p \in Pins[rev] \ failed |-> rev]

(* An update ends, with as many pins as there are (the same loop). *)
UpdateEnds == pc \notin {"idle", "done"} ~> pc \in {"idle", "done"}
================================================================================
