--------------------------- MODULE LockUpdate_proofs ---------------------------
(***************************************************************************)
(* Proofs about LockUpdate, for any pins and any size of the pool.         *)
(***************************************************************************)
EXTENDS LockUpdate, FiniteSetTheorems, TLAPS

(* Every pin of the revision is where the script has brought it: to be read,
   in the background, failed, or with its hash, which is of this revision. *)
Fetches ==
    /\ rev \in Revision
    /\ todo \subseteq Pins[rev]
    /\ running \subseteq Pins[rev]
    /\ pc # "idle" =>
         /\ hashes = [p \in DOMAIN hashes |-> rev]
         /\ DOMAIN hashes = Pins[rev] \ (todo \cup running \cup failed)
         /\ failed \subseteq Pins[rev]
         /\ todo \cap (running \cup failed) = {} /\ running \cap failed = {}
    /\ pc \in {"wait", "write", "copy", "done"} => todo = {}
    /\ pc \in {"write", "copy", "done"} => running = {}
    /\ pc \in {"copy", "done"} => nix = hashes
    /\ pc = "done" => state = rev

(* There is room for one more when a line is read. *)
Room1 ==
    /\ Cardinality(running) <= Pool
    /\ pc = "read" => Cardinality(running) < Pool

LockInv == Fetches /\ Room1

LEMMA RunningFinite == Fetches => IsFiniteSet(running) /\ Cardinality(running) \in Nat
<1> SUFFICES ASSUME Fetches PROVE IsFiniteSet(running) /\ Cardinality(running) \in Nat
  OBVIOUS
<1>1. IsFiniteSet(running)
  BY FS_Subset, LockAssumption DEF Fetches
<1> QED
  BY <1>1, FS_CardinalityType

(* A job that ends leaves room. *)
LEMMA OneLess ==
    ASSUME Fetches, NEW p \in running
    PROVE  Cardinality(running \ {p}) = Cardinality(running) - 1
BY RunningFinite, FS_RemoveElement

LEMMA Starts == Init => LockInv
<1> SUFFICES ASSUME Init PROVE LockInv
  OBVIOUS
<1>1. Cardinality({}) = 0
  BY FS_EmptySet
<1> QED
  BY <1>1, LockAssumption DEF Init, LockInv, Fetches, Room1

LEMMA Steps == LockInv /\ [Next]_vars => LockInv'
<1> SUFFICES ASSUME LockInv, [Next]_vars PROVE LockInv'
  OBVIOUS
<1>0. Fetches /\ Room1 /\ Pool \in Nat \ {0} /\ Cardinality(running) \in Nat
      /\ IsFiniteSet(running) /\ Cardinality({}) = 0
  BY RunningFinite, LockAssumption, FS_EmptySet DEF LockInv
<1>1. CASE UNCHANGED vars
  BY <1>0, <1>1 DEF vars, LockInv, Fetches, Room1
<1>2. CASE Start
  <2>1. /\ rev' \in Revision /\ todo' = Pins[rev'] /\ running' = {} /\ failed' = {}
        /\ hashes' = Empty /\ pc' = "read"
    BY <1>2 DEF Start
  <2>2. Fetches'
    BY <2>1 DEF Fetches, Empty
  <2>3. Room1'
    BY <1>0, <2>1 DEF Room1
  <2> QED
    BY <2>2, <2>3 DEF LockInv
<1>3. CASE Spawn
  <2>1. PICK p \in todo : todo' = todo \ {p} /\ running' = running \cup {p}
    BY <1>3 DEF Spawn
  <2>2. pc = "read" /\ pc' = "room" /\ UNCHANGED <<rev, hashes, failed, nix, state>>
    BY <1>3 DEF Spawn, out
  <2>3. Fetches'
    BY <1>0, <2>1, <2>2 DEF Fetches
  <2>4. p \notin running
    BY <1>0, <2>1, <2>2 DEF Fetches
  <2>5. Cardinality(running \cup {p}) = Cardinality(running) + 1
    BY <1>0, <2>4, FS_AddElement
  <2>6. Room1'
    BY <1>0, <2>1, <2>2, <2>5 DEF Room1
  <2> QED
    BY <2>3, <2>6 DEF LockInv
<1>4. CASE Room
  BY <1>0, <1>4 DEF Room, Full, out, LockInv, Fetches, Room1
<1>5. CASE NoMore \/ Wait \/ WriteNix \/ CopyState \/ Exit
  <2>1. Fetches'
    BY <1>0, <1>5 DEF NoMore, Wait, WriteNix, CopyState, Exit, out, Fetches
  <2>2. running' = running /\ pc' # "read"
    BY <1>5 DEF NoMore, Wait, WriteNix, CopyState, Exit
  <2>3. Room1'
    BY <1>0, <2>2 DEF Room1
  <2> QED
    BY <2>1, <2>3 DEF LockInv
<1>6. ASSUME NEW p \in running, Fetched(p) \/ Fails(p) PROVE LockInv'
  <2>1. running' = running \ {p} /\ UNCHANGED <<pc, rev, todo, nix, state>>
    BY <1>6 DEF Fetched, Fails, out
  <2>2. (p \in Pins[rev] /\ p \notin todo /\ p \notin failed) \/ pc = "idle"
    BY <1>0, <1>6 DEF Fetches
  <2>3. pc \notin {"write", "copy", "done"}
    BY <1>0, <1>6 DEF Fetches
  <2>4. Fetches'
    <3>1. CASE Fetched(p)
      BY <1>0, <2>1, <2>2, <2>3, <3>1 DEF Fetched, Fetches
    <3>2. CASE Fails(p)
      BY <1>0, <2>1, <2>2, <2>3, <3>2 DEF Fails, Fetches
    <3> QED
      BY <1>6, <3>1, <3>2
  <2>5. Cardinality(running') = Cardinality(running) - 1
    BY <1>0, <1>6, <2>1, OneLess
  <2>6. Room1'
    BY <1>0, <2>1, <2>5 DEF Room1
  <2> QED
    BY <2>4, <2>6 DEF LockInv
<1>7. CASE Kill
  <2>1. Fetches'
    BY <1>0, <1>7 DEF Kill, out, Fetches
  <2>2. Room1'
    BY <1>0, <1>7 DEF Kill, Room1
  <2> QED
    BY <2>1, <2>2 DEF LockInv
<1> QED
  BY <1>1, <1>2, <1>3, <1>4, <1>5, <1>6, <1>7 DEF Next, Script

LEMMA Always == Spec => []LockInv
BY Starts, Steps, PTL DEF Spec

(* At most Pool prefetches run at once, however many pins there are,
   update-apple-container-swiftpm2nix.sh, the loop over pins.tsv. *)
THEOREM PoolHolds == Spec => []PoolBounded
<1>1. LockInv => PoolBounded
  BY DEF LockInv, Room1, PoolBounded
<1> QED
  BY <1>1, Always, PTL

(* The lock of an update that came to its end lacks the pins whose prefetch
   failed and no other, and nothing in it is of another revision, same script. *)
THEOREM LockIsOfItsRevision == Spec => []LockComplete
<1>1. LockInv => LockComplete
  <2> SUFFICES ASSUME LockInv, pc = "done"
               PROVE  state = rev /\ nix = [p \in Pins[rev] \ failed |-> rev]
    BY DEF LockComplete
  <2>1. /\ state = rev /\ nix = hashes /\ hashes = [p \in DOMAIN hashes |-> rev]
        /\ DOMAIN hashes = Pins[rev] \ failed
    BY DEF LockInv, Fetches
  <2> QED
    BY <2>1
<1> QED
  BY <1>1, Always, PTL

--------------------------------------------------------------------------------
(* How many steps an update has left: three for each line still to be read (the
   job is started, the loop looks for room, the job ends), one for each job in
   the background, and those at the end. *)
StepsLeft(at, lines, jobs) ==
    CASE at \in {"idle", "done"} -> 0
      [] at = "room"  -> 3 * lines + jobs + 5
      [] at = "read"  -> 3 * lines + jobs + 4
      [] at = "wait"  -> 3 * lines + jobs + 3
      [] at = "write" -> 3 * lines + jobs + 2
      [] at = "copy"  -> 3 * lines + jobs + 1

Left == StepsLeft(pc, Cardinality(todo), Cardinality(running))

LEMMA StepsLeftAt ==
    ASSUME NEW n \in Nat, NEW k \in Nat
    PROVE  /\ \A at \in {"idle", "done"} : StepsLeft(at, n, k) = 0
           /\ StepsLeft("room", n, k)  = 3 * n + k + 5
           /\ StepsLeft("read", n, k)  = 3 * n + k + 4
           /\ StepsLeft("wait", n, k)  = 3 * n + k + 3
           /\ StepsLeft("write", n, k) = 3 * n + k + 2
           /\ StepsLeft("copy", n, k)  = 3 * n + k + 1
BY DEF StepsLeft

Places == pc \in {"idle", "read", "room", "wait", "write", "copy", "done"}

LEMMA PlacesAlways == Spec => []Places
<1>1. Init => Places
  BY DEF Init, Places
<1>2. Places /\ [Next]_vars => Places'
  BY DEF Places, Next, vars, Start, Script, Exit, Kill, Fetched, Fails, Spawn, Room, NoMore, Wait,
     WriteNix, CopyState
<1> QED
  BY <1>1, <1>2, PTL DEF Spec

LEMMA Sizes ==
    ASSUME Fetches
    PROVE  /\ IsFiniteSet(todo) /\ Cardinality(todo) \in Nat
           /\ IsFiniteSet(running) /\ Cardinality(running) \in Nat
<1>1. IsFiniteSet(todo)
  BY FS_Subset, LockAssumption DEF Fetches
<1> QED
  BY <1>1, FS_CardinalityType, RunningFinite

(* Each step of an update is one of those it had left. *)
LEMMA UpdateStep ==
    ASSUME Fetches, Places, Script \/ Kill \/ (\E p \in running : Fetched(p) \/ Fails(p)), pc # "idle"
    PROVE  Left' < Left
<1> DEFINE n == Cardinality(todo)
           k == Cardinality(running)
<1>0. n \in Nat /\ k \in Nat /\ IsFiniteSet(todo) /\ IsFiniteSet(running)
  BY Sizes
<1>1. Left = StepsLeft(pc, n, k)
  BY DEF Left
<1> HIDE DEF n, k
<1>2. CASE Spawn
  <2>1. PICK p \in todo : todo' = todo \ {p} /\ running' = running \cup {p}
    BY <1>2 DEF Spawn
  <2>2. pc = "read" /\ pc' = "room" /\ p \notin running
    BY <1>2 DEF Spawn, Fetches
  <2>3. Cardinality(todo') = n - 1 /\ Cardinality(running') = k + 1
    BY <1>0, <2>1, <2>2, FS_RemoveElement, FS_AddElement DEF n, k
  <2>4. n > 0
    BY <1>0, <2>1, FS_EmptySet DEF n
  <2>5. Left' = StepsLeft("room", n - 1, k + 1)
    BY <2>2, <2>3 DEF Left
  <2> QED
    BY <1>0, <1>1, <2>2, <2>4, <2>5, StepsLeftAt
<1>3. CASE Room
  <2>1. pc = "room" /\ Left' = StepsLeft("read", n, k)
    BY <1>3 DEF Room, Left, n, k
  <2> QED
    BY <1>0, <1>1, <2>1, StepsLeftAt
<1>4. CASE NoMore
  <2>1. pc = "read" /\ Left' = StepsLeft("wait", n, k)
    BY <1>4 DEF NoMore, Left, n, k
  <2> QED
    BY <1>0, <1>1, <2>1, StepsLeftAt
<1>5. CASE Wait
  <2>1. pc = "wait" /\ Left' = StepsLeft("write", n, k)
    BY <1>5 DEF Wait, Left, n, k
  <2> QED
    BY <1>0, <1>1, <2>1, StepsLeftAt
<1>6. CASE WriteNix
  <2>1. pc = "write" /\ Left' = StepsLeft("copy", n, k)
    BY <1>6 DEF WriteNix, Left, n, k
  <2> QED
    BY <1>0, <1>1, <2>1, StepsLeftAt
<1>7. CASE CopyState
  <2>1. pc = "copy" /\ Left' = StepsLeft("done", n, k)
    BY <1>7 DEF CopyState, Left, n, k
  <2> QED
    BY <1>0, <1>1, <2>1, StepsLeftAt
<1>8. CASE Kill
  <2>1. pc \notin {"idle", "done"} /\ Left' = 0
    BY <1>8 DEF Kill, Left, StepsLeft
  <2>2. StepsLeft(pc, n, k) > 0
    <3>1. pc \in {"room", "read", "wait", "write", "copy"}
      BY <2>1 DEF Places
    <3> DEFINE is(at, i) == StepsLeft(at, n, k) = 3 * n + k + i
    <3>2. is("room", 5) /\ is("read", 4) /\ is("wait", 3) /\ is("write", 2) /\ is("copy", 1)
      BY <1>0, StepsLeftAt, Zenon
    <3>3. /\ StepsLeft("room", n, k) > 0 /\ StepsLeft("read", n, k) > 0
          /\ StepsLeft("wait", n, k) > 0 /\ StepsLeft("write", n, k) > 0
          /\ StepsLeft("copy", n, k) > 0
      BY <1>0, <3>2
    <3> QED
      BY <3>1, <3>3
  <2> QED
    BY <1>1, <2>1, <2>2
<1>9. ASSUME NEW p \in running, Fetched(p) \/ Fails(p) PROVE Left' < Left
  <2>1. running' = running \ {p} /\ todo' = todo /\ pc' = pc
    BY <1>9 DEF Fetched, Fails
  <2>2. Cardinality(running') = k - 1 /\ k - 1 \in Nat
    <3>1. Cardinality(running') = k - 1
      BY <1>0, <2>1, FS_RemoveElement DEF k
    <3>2. IsFiniteSet(running')
      BY <1>0, <2>1, FS_RemoveElement
    <3> QED
      BY <3>1, <3>2, FS_CardinalityType
  <2>3. Left' = StepsLeft(pc, n, k - 1)
    BY <2>1, <2>2 DEF Left, n
  <2>4. pc \in {"read", "room", "wait"}
    BY <1>9 DEF Places, Fetches
  <2>5. \A j \in {k - 1, k} :
          /\ StepsLeft("read", n, j) = 3 * n + j + 4
          /\ StepsLeft("room", n, j) = 3 * n + j + 5
          /\ StepsLeft("wait", n, j) = 3 * n + j + 3
    BY <1>0, <2>2, StepsLeftAt, Zenon
  <2>6. /\ StepsLeft("read", n, k - 1) < StepsLeft("read", n, k)
        /\ StepsLeft("room", n, k - 1) < StepsLeft("room", n, k)
        /\ StepsLeft("wait", n, k - 1) < StepsLeft("wait", n, k)
    BY <1>0, <2>2, <2>5
  <2> QED
    BY <1>1, <2>3, <2>4, <2>6
<1> QED
  BY <1>2, <1>3, <1>4, <1>5, <1>6, <1>7, <1>8, <1>9 DEF Script

(* An update of a revision with n pins takes at most 3n + 4 steps, however its
   jobs end and however often wait -n comes back early. *)
THEOREM UpdatesAdvance ==
    Spec => [][/\ Start => Left' = 3 * Cardinality(Pins[rev']) + 4
               /\ Next /\ pc \notin {"idle", "done"} => Left' < Left]_vars
<1>1. ASSUME Start PROVE Left' = 3 * Cardinality(Pins[rev']) + 4
  <2>1. rev' \in Revision /\ pc' = "read" /\ todo' = Pins[rev'] /\ running' = {}
    BY <1>1 DEF Start
  <2>2. Cardinality(Pins[rev']) \in Nat /\ Cardinality({}) = 0
    BY <2>1, LockAssumption, FS_CardinalityType, FS_EmptySet
  <2>3. Left' = StepsLeft("read", Cardinality(Pins[rev']), 0)
    BY <2>1, <2>2 DEF Left
  <2> QED
    BY <2>2, <2>3, StepsLeftAt
<1>2. ASSUME Fetches, Places, Next, pc \notin {"idle", "done"} PROVE Left' < Left
  BY <1>2, UpdateStep DEF Next, Start, Exit
<1>3. Fetches /\ Places /\ [Next]_vars =>
        [/\ Start => Left' = 3 * Cardinality(Pins[rev']) + 4
         /\ Next /\ pc \notin {"idle", "done"} => Left' < Left]_vars
  BY <1>1, <1>2
<1>4. LockInv => Fetches
  BY DEF LockInv
<1> QED
  BY <1>3, <1>4, Always, PlacesAlways, PTL DEF Spec
================================================================================
